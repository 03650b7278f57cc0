------------------------------ MODULE ScriptLoops ------------------------------
(***************************************************************************)
(* Loops in scripts: how their text is checked and compiled, and how they  *)
(* run (ScriptUtils.cpp, Hooks_Script.cpp, Commands_Scripting.cpp,         *)
(* Loops.cpp).                                                             *)
(*                                                                         *)
(* A script is a sequence of lines and a line is its first word.  The      *)
(* game's compiler knows nothing of loops: `while' and `foreach' leave     *)
(* room for an offset that the `loop' behind them fills in, and at run     *)
(* time they push an entry on a stack that all scripts of a thread share.  *)
(* `loop', `continue' and `break' act on the top of that stack, whatever   *)
(* script pushed it.                                                       *)
(***************************************************************************)
EXTENDS Naturals, FiniteSets, Sequences, SequencesExt

CONSTANTS
    Texts,       \* scripts that are compiled, and run if they are accepted
    Library,     \* scripts they may call, all accepted
    Keys,        \* keys of the array that foreach walks through, numbers
    MaxDepth,    \* bound on scripts that run inside one another
    MaxLeft,     \* bound on entries that aborted scripts leave behind
    Careful,     \* no script is aborted in a loop while a caller is in one
    KeepCurrent  \* a body does not erase the element it was entered for

VARIABLES
    text,     \* the script of the game that calls the others
    state,    \* "written", "refused", or "compiled"
    frames,   \* scripts that run, each called by the one before
    loops,    \* LoopManager::m_loops of the thread, the top is the last
    labels,   \* s_savedIPTable: scripts -> where their label was executed
    source    \* the keys of the array

vars == <<text, state, frames, loops, labels, source>>

Openers == {"while", "foreach"}
BlockOf(word) == CASE word \in {"while", "foreach", "loop"} -> "Loop"
                   [] word \in {"if", "else", "endif"}      -> "If"
                   [] OTHER                                  -> "none"
Opens(word)      == word \in {"while", "foreach", "if", "else"}
Terminates(word) == word \in {"loop", "else", "endif"}

-----------------------------------------------------------------------------
\* Compilation.

\* A preprocessor that takes any terminator for any block.
MutantProcessLine(p, word) ==
    IF ~p.ok \/ (Terminates(word) /\ p.blocks = <<>>)
    THEN [p EXCEPT !.ok = FALSE]
    ELSE [p EXCEPT !.blocks =
             (IF Terminates(word) THEN Front(@) ELSE @) \o (IF Opens(word) THEN <<BlockOf(word)>> ELSE <<>>)]

\* Preprocessor::Process: the stack of blocks and the depth of loops, over the
\* lines of the whole text, those of lambdas in it among them.
ProcessLine(p, word) ==
    LET wrong == \/ Terminates(word) /\ (p.blocks = <<>> \/ Last(p.blocks) # BlockOf(word))
                 \/ word \in {"break", "continue"} /\ p.depth = 0
                 \/ word = "return" /\ p.depth > 0
        below == IF Terminates(word) THEN Front(p.blocks) ELSE p.blocks
    IN  IF ~p.ok \/ wrong
        THEN [p EXCEPT !.ok = FALSE]
        ELSE [ok     |-> TRUE,
              blocks |-> IF Opens(word) THEN Append(below, BlockOf(word)) ELSE below,
              depth  |-> CASE word \in Openers -> p.depth + 1
                           [] word = "loop"    -> p.depth - 1
                           [] OTHER            -> p.depth]

Process(t) ==
    LET p == FoldLeft(ProcessLine, [ok |-> TRUE, blocks |-> <<>>, depth |-> 0], t)
    IN  p.ok /\ p.blocks = <<>>

\* A compiler that looks at the start of the loop it ends and leaves it there.
MutantCompileLine(t, c, l) ==
    CASE ~c.ok             -> c
      [] t[l] = "begin"    -> [c EXCEPT !.starts = <<>>]
      [] t[l] \in Openers  -> [c EXCEPT !.starts = Append(@, l)]
      [] t[l] = "loop"     -> IF c.starts = <<>> THEN [c EXCEPT !.ok = FALSE]
                              ELSE [c EXCEPT !.ends[Last(c.starts)] = l + 1]
      [] OTHER             -> c

\* The compiler goes through the lines with s_loopStartOffsets: RegisterLoopStart
\* pushes, HandleLoopEnd pops and fills in the offset of the line after `loop',
\* and HandleBeginCompile empties the stack, as it does for the lambda whose
\* text begins here (ParseLambda compiles it as a script of its own).
CompileLine(t, c, l) ==
    CASE ~c.ok             -> c
      [] t[l] = "begin"    -> [c EXCEPT !.starts = <<>>]
      [] t[l] \in Openers  -> [c EXCEPT !.starts = Append(@, l)]
      [] t[l] = "loop"     -> IF c.starts = <<>> THEN [c EXCEPT !.ok = FALSE]
                              ELSE [c EXCEPT !.ends[Last(c.starts)] = l + 1, !.starts = Front(@)]
      [] OTHER             -> c

Compiled(t) == FoldLeftDomain(LAMBDA c, l : CompileLine(t, c, l),
                              [ok |-> TRUE, starts |-> <<>>, ends |-> [l \in DOMAIN t |-> 0]], t)

Accepted(t) == Process(t) /\ Compiled(t).ok

\* What the game makes of conditions and lambdas: from `if' or `else' to the
\* next branch, from `begin' behind the lambda.
Balance(t, a, b, open, close) ==
    Cardinality({l \in a..b : t[l] \in open}) - Cardinality({l \in a..b : t[l] \in close})
NextOf(t, l, open, close, stops) ==
    CHOOSE m \in l + 1 .. Len(t) :
        /\ t[m] \in stops /\ Balance(t, l + 1, m - 1, open, close) = 0
        /\ \A k \in l + 1 .. m - 1 : ~(t[k] \in stops /\ Balance(t, l + 1, k - 1, open, close) = 0)
Branch(t, l) == NextOf(t, l, {"if"}, {"endif"}, {"else", "endif"})
EndOf(t, l)  == NextOf(t, l, {"begin"}, {"end"}, {"end"})

-----------------------------------------------------------------------------
\* The stack of loops.

Top == Last(frames)
Line == Top.text[Top.ip]
SetTop(f) == frames' = Append(Front(frames), f)

\* A script that runs: where it is, its stack of ifs, what the condition of a
\* loop has answered, and the entry that Continue has looked up (loopInfo).
Frame(t) == [text |-> t, ends |-> Compiled(t).ends, ip |-> 1, ifs |-> <<>>, at |-> "line", info |-> 0]

\* LoopManager::Add.  `visited' and `stayed' only observe: the keys a foreach has
\* gone to, and those that have been in the array since it began.
Add(kind, key) ==
    loops' = Append(loops, [kind |-> kind, ip |-> Top.ip + 1, endIP |-> Top.ends[Top.ip], ifs |-> Top.ifs,
                            cur |-> key, visited |-> {key}, stayed |-> source])

\* A jump that leaves the stack of ifs as it is.
MutantJumpTo(f, ip, ifs) == [f EXCEPT !.ip = ip, !.at = "line", !.info = 0]

\* LoopManager::RestoreStack and the change of the instruction pointer.
JumpTo(f, ip, ifs) == [f EXCEPT !.ip = ip, !.ifs = ifs, !.at = "line", !.info = 0]

\* LoopManager::Break.
Break == /\ SetTop(JumpTo(Top, Last(loops).endIP, Last(loops).ifs))
         /\ loops' = Front(loops)

\* A command that returns false: the game stops the script, and nobody tells
\* the loop manager.
Abort == frames' = Front(frames) /\ UNCHANGED loops

\* An iterator that is advanced twice.
MutantNextKeys(k) == {x \in source : \E y \in source : y > k /\ x > y}

\* ArrayIterLoop::Update: the element after the current one, if that is found.
NextKeys(k) == IF k \in source THEN {x \in source : x > k} ELSE {}
LeastOf(S) == CHOOSE x \in S : \A y \in S : x <= y

-----------------------------------------------------------------------------
\* The commands.

Running == frames # <<>> /\ Top.ip <= Len(Top.text)
AtLine(words) == Running /\ Top.at = "line" /\ Line \in words

\* Cmd_While_Execute: the entry is pushed before the condition is evaluated.
BeginWhile ==
    /\ AtLine({"while"})
    /\ Add("while", 0)
    /\ SetTop([Top EXCEPT !.at = "test", !.info = Len(loops) + 1])
    /\ UNCHANGED <<text, state, labels, source>>

\* Cmd_ForEach_Execute, when its expression gives a context.
BeginForEach ==
    /\ AtLine({"foreach"})
    /\ Add("foreach", IF source = {} THEN 0 ELSE LeastOf(source))
    /\ SetTop([Top EXCEPT !.at = IF source = {} THEN "false" ELSE "true", !.info = Len(loops) + 1])
    /\ UNCHANGED <<text, state, labels, source>>

\* Cmd_Loop_Execute and Cmd_Continue_Execute, up to Update.
ContinueLoop ==
    /\ AtLine({"loop", "continue"})
    /\ UNCHANGED <<text, state, labels, source>>
    /\ IF loops = <<>> THEN Abort
       ELSE IF Last(loops).kind = "while"
       THEN SetTop([Top EXCEPT !.at = "test", !.info = Len(loops)]) /\ UNCHANGED loops
       ELSE \E next \in {NextKeys(Last(loops).cur)} :
              /\ SetTop([Top EXCEPT !.at = IF next = {} THEN "false" ELSE "true", !.info = Len(loops)])
              /\ loops' = IF next = {} THEN loops
                          ELSE [loops EXCEPT ![Len(loops)].cur = LeastOf(next),
                                             ![Len(loops)].visited = @ \cup {LeastOf(next)}]

\* WhileLoop::Update: the condition is evaluated.
Answer ==
    /\ Running /\ Top.at = "test"
    /\ \E answer \in {"true", "false"} : SetTop([Top EXCEPT !.at = answer])
    /\ UNCHANGED <<text, state, loops, labels, source>>

\* The rest of While, ForEach and Continue, with the answer of Update: a loop
\* that goes on does so from the entry that was looked up before, one that ends
\* is the one on top now.
Decide ==
    /\ Running /\ Top.at \in {"true", "false"}
    /\ UNCHANGED <<text, state, labels, source>>
    /\ \/ Top.at = "false" /\ Break
       \/ /\ Top.at = "true"
          /\ SetTop(IF Line \in Openers THEN JumpTo(Top, Top.ip + 1, Top.ifs)
                    ELSE JumpTo(Top, loops[Top.info].ip, loops[Top.info].ifs))
          /\ UNCHANGED loops

\* Cmd_Break_Execute.
BreakLoop ==
    /\ AtLine({"break"})
    /\ IF loops = <<>> THEN Abort ELSE Break
    /\ UNCHANGED <<text, state, labels, source>>

\* A call, as a line of its own or in the condition of a loop: another script,
\* or the same again, runs on the same thread.
Call ==
    /\ Running /\ (AtLine({"call"}) \/ Top.at = "test")
    /\ Len(frames) < MaxDepth
    /\ \E t \in Library \cup {text} :
         frames' = Front(frames) \o <<IF Top.at = "test" THEN Top ELSE [Top EXCEPT !.ip = @ + 1], Frame(t)>>
    /\ UNCHANGED <<text, state, loops, labels, source>>

\* Cmd_ForEach_Execute, when its expression fails (a null reference, say): the
\* command returns false and the script is aborted where it is.
InLoop(t, l) == Balance(t, 1, l - 1, Openers, {"loop"}) > 0
ForEachFails ==
    /\ AtLine({"foreach"})
    /\ Careful => \/ ~InLoop(Top.text, Top.ip)
                  \/ \A d \in 1 .. Len(frames) - 1 :
                        ~InLoop(frames[d].text, frames[d].ip) /\ frames[d].at = "line"
    /\ Len(loops) <= MaxLeft + Balance(Top.text, 1, Top.ip - 1, Openers, {"loop"})
    /\ Abort
    /\ UNCHANGED <<text, state, labels, source>>

\* Cmd_Label_Execute and Cmd_Goto_Execute, which know the script and not the
\* loops.
Label ==
    /\ AtLine({"label"})
    /\ labels' = [labels EXCEPT ![Top.text] = <<[ip |-> Top.ip + 1, ifs |-> Top.ifs]>>]
    /\ SetTop([Top EXCEPT !.ip = @ + 1])
    /\ UNCHANGED <<text, state, loops, source>>

Goto ==
    /\ AtLine({"goto"})
    /\ SetTop(IF labels[Top.text] = <<>> THEN [Top EXCEPT !.ip = @ + 1]
              ELSE JumpTo(Top, labels[Top.text][1].ip, labels[Top.text][1].ifs))
    /\ UNCHANGED <<text, state, loops, labels, source>>

\* A body that changes the array.
Entered == {loops[i].cur : i \in {j \in DOMAIN loops : loops[j].kind = "foreach"}}
Edit ==
    /\ AtLine({"edit"})
    /\ \E S \in SUBSET Keys :
         /\ KeepCurrent => Entered \cap source \subseteq S
         /\ source' = S
         /\ loops' = [i \in DOMAIN loops |-> [loops[i] EXCEPT !.stayed = @ \cap S]]
    /\ SetTop([Top EXCEPT !.ip = @ + 1])
    /\ UNCHANGED <<text, state, labels>>

\* The commands of the game: conditions, and the rest.
If ==
    /\ AtLine({"if", "else", "endif"})
    /\ \/ Line = "if" /\ SetTop([Top EXCEPT !.ip = @ + 1, !.ifs = Append(@, TRUE)])
       \/ Line = "if" /\ SetTop([Top EXCEPT !.ip = Branch(Top.text, @), !.ifs = Append(@, FALSE)])
       \/ Line = "else" /\ SetTop(IF Last(Top.ifs) THEN [Top EXCEPT !.ip = Branch(Top.text, @)]
                                  ELSE [Top EXCEPT !.ip = @ + 1, !.ifs = Append(Front(@), TRUE)])
       \/ Line = "endif" /\ SetTop([Top EXCEPT !.ip = @ + 1, !.ifs = Front(@)])
    /\ UNCHANGED <<text, state, loops, labels, source>>

Lambda ==
    /\ AtLine({"begin"})
    /\ SetTop([Top EXCEPT !.ip = EndOf(Top.text, @) + 1])
    /\ UNCHANGED <<text, state, loops, labels, source>>

\* `return', or the end of the text.
Return ==
    /\ frames # <<>>
    /\ Top.ip > Len(Top.text) \/ AtLine({"return"})
    /\ frames' = Front(frames)
    /\ UNCHANGED <<text, state, loops, labels, source>>

\* The compiler, once.
Compile ==
    /\ state = "written"
    /\ state' = IF Accepted(text) THEN "compiled" ELSE "refused"
    /\ UNCHANGED <<text, frames, loops, labels, source>>

\* The game runs the script, again and again.
Run ==
    /\ state = "compiled" /\ frames = <<>>
    /\ frames' = <<Frame(text)>>
    /\ UNCHANGED <<text, state, loops, labels, source>>

Init ==
    /\ text \in Texts
    /\ state = "written" /\ frames = <<>> /\ loops = <<>>
    /\ labels = [t \in Library \cup {text} |-> <<>>]
    /\ source = Keys

Next ==
    \/ Compile \/ Run \/ BeginWhile \/ BeginForEach \/ ContinueLoop \/ Answer \/ Decide
    \/ BreakLoop \/ Call \/ ForEachFails \/ Label \/ Goto \/ Edit \/ If \/ Lambda \/ Return

Spec == Init /\ [][Next]_vars
-----------------------------------------------------------------------------
\* What the text says.

\* Where the loop that line o begins has its `loop', and the innermost loop that
\* line l is in (or ends).
Matching(t, o) == NextOf(t, o, Openers, {"loop"}, {"loop"})
OpenLoops(t, l) == {o \in 1 .. l - 1 : t[o] \in Openers /\ Matching(t, o) >= l}
OpenIfs(t, l) == {o \in 1 .. l - 1 : t[o] = "if" /\ NextOf(t, o, {"if"}, {"endif"}, {"endif"}) >= l}
Innermost(t, l) == CHOOSE o \in OpenLoops(t, l) : \A x \in OpenLoops(t, l) : x <= o

\* The grammar of scripts, over the lines from i up to j: `else' stands directly
\* in an `if', `break' and `continue' in a loop, `return' outside of loops.
IsScript(t) ==
    LET Lines == 1 .. Len(t) + 1
        Block(word) == IF word = "if" THEN "if" ELSE "other"
        Closer(word) == CASE word \in Openers -> "loop" [] word = "if" -> "endif" [] word = "begin" -> "end"
        Body[i \in Lines, j \in Lines, loop \in BOOLEAN, block \in {"if", "other"}] ==
            \/ i = j
            \/ /\ i < j /\ ~Terminates(t[i]) /\ t[i] \notin Openers \cup {"if", "begin", "end"}
               /\ t[i] \in {"break", "continue"} => loop
               /\ t[i] = "return" => ~loop
               /\ Body[i + 1, j, loop, block]
            \/ i < j /\ t[i] = "else" /\ block = "if" /\ Body[i + 1, j, loop, block]
            \/ /\ i < j /\ t[i] \in Openers \cup {"if", "begin"}
               /\ \E k \in i + 1 .. j - 1 :
                    /\ t[k] = Closer(t[i])
                    /\ Body[i + 1, k, t[i] \in Openers \/ (loop /\ t[i] = "if"), Block(t[i])]
                    /\ Body[k + 1, j, loop, block]
    IN  Body[1, Len(t) + 1, FALSE, "other"]

\* Every lambda in the text stands outside of loops and closes what it opens.
LambdasApart(t) ==
    \A l \in DOMAIN t : t[l] = "begin" =>
        /\ ~InLoop(t, l)
        /\ \E m \in l + 1 .. Len(t) : t[m] = "end" /\ IsScript(SubSeq(t, l + 1, m - 1))

-----------------------------------------------------------------------------
\* Properties.

\* A text is accepted exactly if it is a script, and then each of its loops ends
\* behind its own `loop', however loops, conditions and lambdas are nested
\* (Preprocessor::Process, RegisterLoopStart, HandleLoopEnd).  The two checks know
\* nothing of one another, and one of them is undone by every lambda.
AcceptsScripts ==
    state # "written" /\ LambdasApart(text) =>
        /\ (state = "compiled") = IsScript(text)
        /\ state = "compiled" =>
             \A o \in DOMAIN text : text[o] \in Openers =>
                 Compiled(text).ends[o] = Matching(text, o) + 1

\* The loops that a script has open where it is, with the offsets they should have.
Open(f) == OpenLoops(f.text, f.ip) \cup IF f.at # "line" /\ f.text[f.ip] \in Openers THEN {f.ip} ELSE {}
Offsets(f) ==
    LET os == SetToSortSeq(Open(f), <)
    IN  [n \in DOMAIN os |-> <<os[n] + 1, Matching(f.text, os[n]) + 1>>]

\* The stack of loops holds, under those that aborted scripts have left, the
\* loops that the text of each running script has open where it is, outermost
\* script first, each with its own offsets; and the game's stack of ifs is as deep
\* as the text is, after every jump (LoopManager::Add, Break, RestoreStack).
StacksAsWritten ==
    LET open == FlattenSeq([d \in DOMAIN frames |-> Offsets(frames[d])])
        under == Len(loops) - Len(open)
    IN  /\ under >= 0
        /\ \A n \in DOMAIN open : <<loops[under + n].ip, loops[under + n].endIP>> = open[n]
        /\ \A d \in DOMAIN frames :
             Len(frames[d].ifs) = Cardinality(OpenIfs(frames[d].text, frames[d].ip))

\* Where a loop goes on from its test, and the steps that do so.
NextLine(f) ==
    LET o == IF f.text[f.ip] \in Openers THEN f.ip ELSE Innermost(f.text, f.ip)
    IN  IF f.at = "true" THEN o + 1 ELSE Matching(f.text, o) + 1
Jumps == /\ Running /\ Len(frames') = Len(frames)
         /\ Top.at \in {"true", "false"} \/ Line = "break"

\* Wherever `loop', `continue', `break' or the first test of a loop goes to, it is
\* where the text of that script goes to, whatever scripts were called or aborted
\* in between (Cmd_Loop_Execute, Cmd_Continue_Execute, Cmd_Break_Execute).
RunsAsWritten == [][Jumps => Last(frames').ip = NextLine(Top)]_vars

\* A foreach that runs to its end has been given every element that was in the
\* array all the while, although the body, and the scripts it calls, may put
\* elements in and take others out (ArrayIterLoop::Update).
EachElementGiven ==
    [][Jumps /\ Top.at = "false" /\ Last(loops).kind = "foreach"
         => Last(loops).stayed \subseteq Last(loops).visited]_vars
=============================================================================
