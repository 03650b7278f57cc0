------------------------------ MODULE StringVars ------------------------------
(***************************************************************************)
(* String variables of scripts (StringVar.cpp, and what ScriptUtils.cpp    *)
(* and ScriptTokens.cpp do with them).                                     *)
(*                                                                         *)
(* A variable holds the ID of its string.  A command that returns a string *)
(* does so by an ID too: while an evaluator is active, be it the one of an *)
(* expression or the command's own, it writes into one cached string of    *)
(* the thread, which the token that stands for the result releases when it *)
(* is destroyed (a result that `set' takes has no token); if the cached    *)
(* string is in use, into a temporary string that the end of the frame     *)
(* deletes.  Scripts run on one thread here; the map under the strings is  *)
(* that of VarMap.                                                         *)
(***************************************************************************)
EXTENDS Naturals, FiniteSets, FiniteSetsExt, Sequences, SequencesExt, Functions, TLC

CONSTANTS
    Mods,         \* mods whose scripts run
    ModOf,        \* variables of quests -> the mod they belong to
    Texts,        \* what commands and literals give
    MaxID,        \* bound on IDs
    MaxDepth,     \* bound on function scripts that call one another
    MaxOperands,  \* bound on operands of all expressions under way
    Careful       \* scripts keep to what Safe... and Own... below say

VARIABLES
    map,     \* g_StringMap: its variables, tempIDs and availableIDs
    cache,   \* s_functionResultStringVar
    data,    \* the IDs that variables of quests hold
    frames,  \* scripts that run, each called by the one before
    lost     \* a loaded game has left a variable without its string: the model goes no further

vars == <<map, cache, data, frames, lost>>

NoString == 0
NoMod == "function result"     \* 0xFF
Variables == DOMAIN ModOf
Local == "local"               \* a function script's own variable
Nothing == "nothing"
NoText == ""

ASSUME ConstantsAssumption ==
  /\ ModOf \in [Variables -> Mods] /\ {Local, Nothing} \cap Variables = {}
  /\ NoMod \notin Mods
  /\ MaxID \in Nat /\ MaxDepth \in Nat /\ MaxOperands \in Nat /\ Careful \in BOOLEAN

-----------------------------------------------------------------------------
\* VarMap, as StringVarMap uses it.

EmptyMap == [vars |-> <<>>, tempIDs |-> {}, availableIDs |-> {}]
Exists(m, id) == id \in DOMAIN m.vars

GetUnusedID(m) ==
    IF m.availableIDs # {} THEN Min(m.availableIDs)
    ELSE IF DOMAIN m.vars # {} THEN Max(DOMAIN m.vars) + 1 ELSE 1

\* StringVarMap::Add, of a string [text, owner].
Added(m, string, bTemp) ==
    LET id == GetUnusedID(m)
    IN  [vars         |-> [i \in DOMAIN m.vars \cup {id} |-> IF i = id THEN string ELSE m.vars[i]],
         tempIDs      |-> IF bTemp THEN m.tempIDs \cup {id} ELSE m.tempIDs,
         availableIDs |-> m.availableIDs \ {id}]

\* Mutant: what a function leaves behind is not given up.
MutantMarkTemporary(m, id, bTemporary) ==
    IF bTemporary THEN m ELSE [m EXCEPT !.tempIDs = @ \ {id}]

\* 0, which may be marked too, names no string and is left out.
MarkTemporary(m, id, bTemporary) ==
    [m EXCEPT !.tempIDs = IF bTemporary THEN @ \cup ({id} \ {NoString}) ELSE @ \ {id}]

\* StringVarMap::Delete: the cached string stays, whoever asks.
Deleted(m, ids) ==
    LET gone == ids \ {cache.id, NoString}
    IN  [vars         |-> Restrict(m.vars, DOMAIN m.vars \ gone),
         tempIDs      |-> m.tempIDs \ ids,
         availableIDs |-> m.availableIDs \cup gone]

\* StringVarMap::Clean.
Clean(m) == Deleted(m, m.tempIDs)

-----------------------------------------------------------------------------
\* Scripts and the tokens of their expressions.

Top == Last(frames)
Line(kind, target, lhs) == [kind |-> kind, target |-> target, lhs |-> lhs, ops |-> <<>>]
NoLine == Line("none", Nothing, NoString)

\* The variable that is set whether or not the line succeeds.
SetBy(line) == IF line.kind = "call" THEN line.target ELSE Nothing

\* ExpressionEvaluator::Active: some script below evaluates an expression, if only
\* to call the function that runs.
Active == \E i \in DOMAIN frames : frames[i].line.kind # "none"

\* What a variable holds that a frame names.
Held(f, x) == IF x = Local THEN f.local ELSE IF x \in Variables THEN data[x] ELSE NoString
Value(x) == Held(Top, x)

\* `text' is what a result was when the command returned, to compare with later.
Token(id, rvalue, text) == [id |-> id, rvalue |-> rvalue, text |-> text]
TextOf(tok) == IF tok.id = NoString THEN tok.text ELSE map.vars[tok.id].text
Pending == UNION {Range(frames[i].line.ops) : i \in DOMAIN frames}

\* The frame f runs on, over those below, and its variable x holds id.
StoreIn(below, x, id, f) ==
    IF x = Local THEN /\ frames' = Append(below, [f EXCEPT !.local = id])
                      /\ UNCHANGED data
    ELSE /\ data' = IF x \in Variables THEN [data EXCEPT ![x] = id] ELSE data
         /\ frames' = Append(below, f)
Store(x, id, f) == StoreIn(Front(frames), x, id, f)

\* Mutant: the token of any result releases the cached string.
MutantReleased(c, toks) == [c EXCEPT !.inUse = @ /\ ~\E t \in toks : t.rvalue]

\* ~ScriptToken, for tokens that are destroyed.
Released(c, toks) == [c EXCEPT !.inUse = @ /\ ~\E t \in toks : t.rvalue /\ t.id = c.id]

\* Mutant: the cached string is handed out although it is in use.
MutantResult(m, c, text, mod) ==
    IF c.id # NoString
    THEN [map |-> [m EXCEPT !.vars[c.id].text = text], cache |-> [c EXCEPT !.inUse = TRUE], id |-> c.id]
    ELSE [map |-> Added(m, [text |-> text, owner |-> NoMod], FALSE),
          cache |-> [id |-> GetUnusedID(m), inUse |-> TRUE], id |-> GetUnusedID(m)]

\* AssignToStringVarLong, while an evaluator is active.
Result(m, c, text, mod) ==
    IF c.inUse
    THEN [map |-> Added(m, [text |-> text, owner |-> mod], TRUE), cache |-> c, id |-> GetUnusedID(m)]
    ELSE IF c.id # NoString
    THEN [map |-> [m EXCEPT !.vars[c.id].text = text], cache |-> [c EXCEPT !.inUse = TRUE], id |-> c.id]
    ELSE [map |-> Added(m, [text |-> text, owner |-> NoMod], FALSE),
          cache |-> [id |-> GetUnusedID(m), inUse |-> TRUE], id |-> GetUnusedID(m)]

-----------------------------------------------------------------------------
\* What scripts do.

Fits(m) == GetUnusedID(m) <= MaxID

\* Conditions on scripts.  A mod assigns to variables of its own.
OwnVariable(x) == x \in Variables => ModOf[x] = Top.mod

\* While an evaluator is active, `set' replaces the ID of a variable: it is used for
\* one that has no string of its own yet, and gives no temporary string to one that
\* outlives the frame.
Unset(f, x, m) == Held(f, x) = NoString \/ (x = Local /\ f.local \in m.tempIDs)
SafeSet(f, x, r) == Unset(f, x, r.map) /\ (x \in Variables => r.id \notin r.map.tempIDs)

\* A variable is not destructed that an expression under way has read.
SafeDestruct(id) ==
    \A i \in DOMAIN frames : frames[i].line.lhs # id /\ \A t \in Range(frames[i].line.ops) : t.id # id

\* The game runs a script, a handler say, with a text for its argument or without
\* (InternalFunctionCaller::PopulateArgs).
RunScript ==
    /\ frames = <<>>
    /\ \E mod \in Mods :
         \/ /\ Fits(map)
            /\ \E t \in Texts : map' = Added(map, [text |-> t, owner |-> mod], TRUE)
            /\ frames' = <<[mod |-> mod, local |-> GetUnusedID(map), line |-> NoLine]>>
         \/ /\ UNCHANGED map
            /\ frames' = <<[mod |-> mod, local |-> NoString, line |-> NoLine]>>
    /\ UNCHANGED <<cache, data>>

\* A line `let x := ...', whose evaluator resolves x first; or a command with an
\* evaluator of its own for what it is given (Call, ToString), alone or after `set x to'.
BeginLine ==
    /\ frames # <<>> /\ Top.line.kind = "none"
    /\ \/ \E x \in Variables \cup {Local} :
            /\ Careful => OwnVariable(x)
            /\ frames' = Append(Front(frames), [Top EXCEPT !.line = Line("let", x, Value(x))])
       \/ \E x \in Variables \cup {Local, Nothing} :
            /\ Careful => Unset(Top, x, map)
            /\ frames' = Append(Front(frames), [Top EXCEPT !.line = Line("call", x, NoString)])
    /\ UNCHANGED <<map, cache, data>>

Evaluating == frames # <<>> /\ Top.line.kind # "none"
Room == Len(FlattenSeq([i \in DOMAIN frames |-> frames[i].line.ops])) < MaxOperands
Push(f, tok) == [f EXCEPT !.line.ops = Append(@, tok)]

\* ExecuteCommandToken, of a command that returns a string.
Command ==
    /\ Evaluating /\ Room /\ Fits(map)
    /\ \E t \in Texts : \E r \in {Result(map, cache, t, Top.mod)} :
         /\ map' = r.map /\ cache' = r.cache
         /\ frames' = Append(Front(frames), Push(Top, Token(r.id, TRUE, t)))
    /\ UNCHANGED <<data>>

\* A variable, or a literal.
Operand ==
    /\ Evaluating /\ Room
    /\ \/ \E x \in Variables \cup {Local} :
            /\ Value(x) # NoString
            /\ frames' = Append(Front(frames), Push(Top, Token(Value(x), FALSE, NoText)))
       \/ \E t \in Texts : frames' = Append(Front(frames), Push(Top, Token(NoString, FALSE, t)))
    /\ UNCHANGED <<map, cache, data>>

\* An operator that takes two strings and gives one as a literal.
Operator ==
    /\ Evaluating /\ Len(Top.line.ops) >= 2
    /\ \E t \in Texts : \E rest \in {SubSeq(Top.line.ops, 1, Len(Top.line.ops) - 2)} :
         frames' = Append(Front(frames), [Top EXCEPT !.line.ops = Append(rest, Token(NoString, FALSE, t))])
    /\ cache' = Released(cache, Range(SubSeq(Top.line.ops, Len(Top.line.ops) - 1, Len(Top.line.ops))))
    /\ UNCHANGED <<map, data>>

\* Mutant: the string of a new variable is a temporary one.
MutantAssigned(m, lhs, tok, mod) ==
    IF Exists(m, lhs) THEN [m EXCEPT !.vars[lhs].text = TextOf(tok)]
    ELSE Added(m, [text |-> TextOf(tok), owner |-> mod], TRUE)

\* Eval_Assign_String: a result is moved, with the mod that owns it if the variable
\* had no string; anything else is copied.
Assigned(m, lhs, tok, mod) ==
    LET string == IF tok.rvalue THEN m.vars[tok.id] ELSE [text |-> TextOf(tok), owner |-> mod]
        moved  == IF tok.rvalue THEN [m EXCEPT !.vars[tok.id].text = NoText] ELSE m
    IN  IF Exists(m, lhs) THEN [moved EXCEPT !.vars[lhs].text = string.text]
        ELSE Added(moved, string, FALSE)

\* The pointer that the token of the variable was resolved to, or else the variable.
Lhs == IF Top.line.lhs # NoString THEN Top.line.lhs ELSE Value(Top.line.target)

Assign ==
    /\ Evaluating /\ Top.line.kind = "let" /\ Len(Top.line.ops) = 1
    /\ \E tok \in Range(Top.line.ops) :
         /\ Exists(map, Lhs) \/ Fits(map)
         /\ map' = Assigned(map, Lhs, tok, Top.mod)
         /\ cache' = Released(cache, {tok})
         /\ Store(Top.line.target, IF Exists(map, Lhs) THEN Value(Top.line.target) ELSE GetUnusedID(map),
                  [Top EXCEPT !.line = NoLine])

\* The command of a line, given at most one argument, gives its result to `set', or to
\* nobody.  No token stands for it: what is destroyed is the argument.
SetResult ==
    /\ Evaluating /\ Top.line.kind = "call" /\ Len(Top.line.ops) <= 1 /\ Fits(map)
    /\ \E t \in Texts : \E r \in {Result(map, cache, t, Top.mod)} :
         /\ Careful => SafeSet(Top, Top.line.target, r)
         /\ map' = r.map /\ cache' = Released(r.cache, Range(Top.line.ops))
         /\ Store(Top.line.target, r.id, [Top EXCEPT !.line = NoLine])

\* `set x to' a command that returns a string and has no evaluator
\* (AssignToStringVarLong).
SetTo ==
    /\ frames # <<>> /\ Top.line.kind = "none" /\ Fits(map)
    /\ \E t \in Texts : \E x \in Variables \cup {Local} :
         IF Active
         THEN \E r \in {Result(map, cache, t, Top.mod)} :
                /\ Careful => SafeSet(Top, x, r)
                /\ map' = r.map /\ cache' = r.cache
                /\ Store(x, r.id, Top)
         ELSE /\ UNCHANGED cache
              /\ IF Exists(map, Value(x))
                 THEN /\ map' = MarkTemporary([map EXCEPT !.vars[Value(x)].text = t], Value(x), FALSE)
                      /\ UNCHANGED <<data, frames>>
                 ELSE /\ map' = Added(map, [text |-> t, owner |-> IF x = Local THEN Top.mod ELSE ModOf[x]], FALSE)
                      /\ Store(x, GetUnusedID(map), Top)

\* Call, with the last operand for an argument: the function's variable is given a
\* temporary copy (ScriptFunctionCaller::PopulateArgs).
Call ==
    /\ Evaluating /\ Len(frames) < MaxDepth
    /\ \E mod \in Mods :
         \/ /\ Top.line.ops # <<>> /\ Fits(map)
            /\ map' = Added(map, [text |-> TextOf(Last(Top.line.ops)), owner |-> mod], TRUE)
            /\ frames' = Append(frames, [mod |-> mod, local |-> GetUnusedID(map), line |-> NoLine])
         \/ /\ Top.line.ops = <<>>
            /\ UNCHANGED map
            /\ frames' = Append(frames, [mod |-> mod, local |-> NoString, line |-> NoLine])
    /\ UNCHANGED <<cache, data>>

\* A function returns, with the text of its variable or with nothing: its variable
\* is given up, the result is assigned, and then the operands of Call are destroyed.
\* In an expression the result has a token, and without one the expression has failed;
\* where Call is the line, the result is for `set', which takes 0 without one.
Return ==
    /\ Len(frames) > 1 /\ Top.line.kind = "none"
    /\ LET caller == frames[Len(frames) - 1]
           below  == SubSeq(frames, 1, Len(frames) - 2)
           left   == IF caller.line.ops = <<>> THEN <<>> ELSE Front(caller.line.ops)
           used   == {caller.line.ops[i] : i \in DOMAIN caller.line.ops \ DOMAIN left}
           m      == MarkTemporary(map, Top.local, TRUE)
           EndsWith(id) == StoreIn(below, SetBy(caller.line), id, [caller EXCEPT !.line = NoLine])
       IN  \/ /\ Careful => Unset(caller, SetBy(caller.line), m)
              /\ map' = m /\ cache' = Released(cache, Range(caller.line.ops))
              /\ EndsWith(NoString)
           \/ /\ Exists(map, Top.local) /\ Fits(map)
              /\ \E r \in {Result(m, cache, map.vars[Top.local].text, caller.mod)} :
                   /\ map' = r.map
                   /\ \/ /\ caller.line.kind = "call"
                         /\ Careful => SafeSet(caller, caller.line.target, r)
                         /\ cache' = Released(r.cache, Range(caller.line.ops))
                         /\ EndsWith(r.id)
                      \/ /\ cache' = Released(r.cache, used)
                         /\ UNCHANGED data
                         /\ frames' = Append(below, [caller EXCEPT !.line.ops =
                                         Append(left, Token(r.id, TRUE, map.vars[Top.local].text))])

\* The evaluator of a line that is no assignment, or one that fails, is destroyed
\* with all it has taken (~ExpressionEvaluator).
EndLine ==
    /\ Evaluating
    /\ Careful => Unset(Top, SetBy(Top.line), map)
    /\ cache' = Released(cache, Range(Top.line.ops))
    /\ Store(SetBy(Top.line), NoString, [Top EXCEPT !.line = NoLine])
    /\ UNCHANGED map

\* The script that the game ran returns (~FunctionContext, CleanUpNVSEVars).
End ==
    /\ Len(frames) = 1 /\ Top.line.kind = "none"
    /\ map' = MarkTemporary(map, Top.local, TRUE)
    /\ frames' = <<>>
    /\ UNCHANGED <<cache, data>>

\* Cmd_sv_Destruct_Execute.
Destruct ==
    /\ frames # <<>> /\ Top.line.kind = "none"
    /\ \E x \in Variables \cup {Local} :
         /\ Value(x) # NoString
         /\ Careful => SafeDestruct(Value(x)) /\ OwnVariable(x)
         /\ map' = Deleted(map, {Value(x)})
         /\ Store(x, NoString, Top)
    /\ UNCHANGED cache

-----------------------------------------------------------------------------
\* Frames and saved games, between scripts.

NextFrame ==
    /\ frames = <<>>
    /\ map' = Clean(map)
    /\ UNCHANGED <<cache, data, frames>>

\* StringVarMap::Save, after Clean.
Recorded(m) == Restrict(m.vars, {id \in DOMAIN m.vars \ m.tempIDs : m.vars[id].owner # NoMod})

\* What Save leaves out although a variable names it: the cached string, and a string
\* that was given its owner by a move.
Unsaved(id) == Exists(map, id) /\ map.vars[id].owner = NoMod

\* StringVarMap::Load: what a mod owns that is gone is discarded.
Loaded(strings, gone) ==
    [EmptyMap EXCEPT !.vars = Restrict(strings, {id \in DOMAIN strings : strings[id].owner \notin gone})]

\* The game is saved, and loaded at some time: Reset forgets all that has happened
\* in between.  Mods may be missing by then, and their variables with them.
SaveAndLoad(gone) ==
    /\ frames = <<>> /\ ~lost
    /\ map' = Loaded(Recorded(Clean(map)), gone)
    /\ cache' = [id |-> NoString, inUse |-> FALSE]
    /\ data' = [x \in Variables |-> IF ModOf[x] \in gone THEN NoString ELSE data[x]]
    /\ lost' = \E x \in Variables : ModOf[x] \notin gone /\ Unsaved(data[x])
    /\ UNCHANGED frames

Init ==
    /\ map = EmptyMap
    /\ cache = [id |-> NoString, inUse |-> FALSE]
    /\ data = [x \in Variables |-> NoString]
    /\ frames = <<>>
    /\ lost = FALSE

\* The program is ended at any time, started again, and a new game begun.
Restart ==
    /\ map' = EmptyMap
    /\ cache' = [id |-> NoString, inUse |-> FALSE]
    /\ data' = [x \in Variables |-> NoString]
    /\ frames' = <<>>
    /\ lost' = FALSE

Scripts ==
    \/ RunScript \/ BeginLine \/ Command \/ Operand \/ Operator \/ Assign \/ SetResult \/ SetTo
    \/ Call \/ Return \/ EndLine \/ End \/ Destruct \/ NextFrame

Next ==
    \/ ~lost /\ Scripts /\ UNCHANGED lost
    \/ \E gone \in SUBSET Mods : SaveAndLoad(gone)
    \/ Restart

Spec == Init /\ [][Next]_vars
-----------------------------------------------------------------------------
\* Properties.

Holders == ({"quest"} \X Variables) \cup ({"local"} \X DOMAIN frames)
Holds(h) == IF h[1] = "quest" THEN data[h[2]] ELSE frames[h[2]].local

\* A variable that holds an ID has a string under it that no other variable has,
\* nor an operand that a command has returned: whatever expressions, functions,
\* frames and loaded games lie between (AssignToStringVarLong, Eval_Assign_String).
StringsApart ==
    lost \/ \A h \in Holders : Holds(h) # NoString =>
        /\ Exists(map, Holds(h))
        /\ \A g \in Holders \ {h} : Holds(g) # Holds(h)
        /\ \A t \in Pending : t.rvalue => t.id # Holds(h)

\* An operand still is what the command returned when its operator comes to run,
\* although functions called in between return strings too; no two results that
\* wait share a string; and the variable on the left has the string it had when it
\* was read (~ScriptToken, the cache).
Operands == UNION {{i} \X DOMAIN frames[i].line.ops : i \in DOMAIN frames}
At(o) == frames[o[1]].line.ops[o[2]]
OperandsKept ==
    lost \/
    /\ \A o \in Operands : At(o).id # NoString =>
          Exists(map, At(o).id) /\ (At(o).rvalue => map.vars[At(o).id].text = At(o).text)
    /\ \A o, p \in Operands : o # p /\ At(o).rvalue /\ At(p).rvalue => At(o).id # At(p).id
    /\ \A i \in DOMAIN frames : frames[i].line.lhs # NoString => Exists(map, frames[i].line.lhs)

\* A string that nobody holds is a temporary one, or is the cached one: none is
\* left behind to be saved with the game for ever (CleanUpNVSEVars, Load).
NoneLeft ==
    DOMAIN map.vars \subseteq {Holds(h) : h \in Holders} \cup map.tempIDs \cup {cache.id}

\* A loaded game gives each variable of a mod that is still there the text it had
\* when the game was saved; but for a string that belongs to no mod, the cached one or
\* one that took the place of the cached one's text: that one, and no other, is gone
\* (StringVarMap::Save, Load).
StringsSurvive ==
    [][\A gone \in SUBSET Mods : SaveAndLoad(gone) =>
         \A x \in Variables : ModOf[x] \notin gone /\ data[x] # NoString =>
            IF Unsaved(data[x]) THEN ~Exists(map', data'[x])
            ELSE Exists(map', data'[x]) /\ map'.vars[data'[x]].text = map.vars[data[x]].text]_vars
=============================================================================
