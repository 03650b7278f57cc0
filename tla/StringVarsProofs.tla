--------------------------- MODULE StringVarsProofs ---------------------------
(***************************************************************************)
(* Theorems about StringVars, for any number of scripts, variables, IDs    *)
(* and operands, when scripts keep to what Careful says.                   *)
(***************************************************************************)
EXTENDS StringVars, DataLemmas

StringTexts == Texts \cup {NoText}
Strings == [text : StringTexts, owner : Mods \cup {NoMod}]
Tokens == [id : 0 .. MaxID, rvalue : BOOLEAN, text : StringTexts]
Lines == [kind : {"none", "let", "call"}, target : Variables \cup {Local, Nothing},
          lhs : 0 .. MaxID, ops : Seq(Tokens)]
Frames == [mod : Mods, local : 0 .. MaxID, line : Lines]
Caches == [id : 0 .. MaxID, inUse : BOOLEAN]

(***************************************************************************)
(* A map of strings: its IDs, those of temporary strings, and those that   *)
(* may be given again.  NoString is among the temporary ones once a        *)
(* function has returned whose variable holds none.                        *)
(***************************************************************************)
MapFits(m) ==
  /\ m = [vars |-> m.vars, tempIDs |-> m.tempIDs, availableIDs |-> m.availableIDs]
  /\ m.vars \in [DOMAIN m.vars -> Strings]
  /\ DOMAIN m.vars \subseteq 1 .. MaxID
  /\ m.tempIDs \subseteq DOMAIN m.vars \cup {NoString}
  /\ m.availableIDs \subseteq (1 .. MaxID) \ DOMAIN m.vars

-----------------------------------------------------------------------------
\* What the operations of the map return.

(***************************************************************************)
(* GetUnusedID gives an ID that no string has.                             *)
(***************************************************************************)
LEMMA FreshID ==
  ASSUME NEW m, MapFits(m), Fits(m)
  PROVE  GetUnusedID(m) \in (1 .. MaxID) \ DOMAIN m.vars
<1>. MaxID \in Nat
  BY ConstantsAssumption DEF ConstantsAssumption
<1>1. CASE m.availableIDs # {}
  <2>1. m.availableIDs \subseteq Nat
    BY DEF MapFits
  <2>2. Min(m.availableIDs) \in m.availableIDs
    BY <1>1, <2>1, MinProperty
  <2>. QED  BY <1>1, <2>2 DEF MapFits, GetUnusedID
<1>2. CASE m.availableIDs = {} /\ DOMAIN m.vars # {}
  <2>1. DOMAIN m.vars \subseteq 0 .. MaxID /\ DOMAIN m.vars \subseteq 1 .. MaxID
    BY DEF MapFits
  <2>2. Max(DOMAIN m.vars) \in DOMAIN m.vars /\ \A y \in DOMAIN m.vars : y <= Max(DOMAIN m.vars)
    BY <1>2, <2>1, MaxProperty
  <2>3. GetUnusedID(m) = Max(DOMAIN m.vars) + 1 /\ GetUnusedID(m) <= MaxID
    BY <1>2 DEF GetUnusedID, Fits
  <2>. QED  BY <2>1, <2>2, <2>3
<1>3. CASE m.availableIDs = {} /\ DOMAIN m.vars = {}
  BY <1>3 DEF GetUnusedID, Fits
<1>. QED  BY <1>1, <1>2, <1>3

(***************************************************************************)
(* A string is added to the map, for good or until the end of the frame;   *)
(* temps are the temporary IDs afterwards.                                 *)
(***************************************************************************)
WithString(m, string, temps) ==
  [vars         |-> [i \in DOMAIN m.vars \cup {GetUnusedID(m)} |->
                       IF i = GetUnusedID(m) THEN string ELSE m.vars[i]],
   tempIDs      |-> temps,
   availableIDs |-> m.availableIDs \ {GetUnusedID(m)}]

LEMMA AddedProperties ==
  ASSUME NEW m, MapFits(m), Fits(m), NEW string \in Strings, NEW temps,
         temps \subseteq m.tempIDs \cup {GetUnusedID(m)},
         NEW n, n = WithString(m, string, temps), NEW id, id = GetUnusedID(m)
  PROVE  /\ MapFits(n)
         /\ DOMAIN n.vars = DOMAIN m.vars \cup {id}
         /\ n.vars[id] = string
         /\ \A i \in DOMAIN m.vars : n.vars[i] = m.vars[i]
         /\ n.tempIDs = temps
<1>1. id \in (1 .. MaxID) \ DOMAIN m.vars
  BY FreshID
<1>2. /\ n = [vars |-> n.vars, tempIDs |-> n.tempIDs, availableIDs |-> n.availableIDs]
      /\ n.vars = [i \in DOMAIN m.vars \cup {id} |-> IF i = id THEN string ELSE m.vars[i]]
      /\ n.tempIDs = temps
      /\ n.availableIDs = m.availableIDs \ {id}
  BY DEF WithString
<1>3. n.vars \in [DOMAIN n.vars -> Strings]
  BY <1>1, <1>2 DEF MapFits
<1>4. MapFits(n)
  BY <1>1, <1>2, <1>3 DEF MapFits
<1>5. /\ DOMAIN n.vars = DOMAIN m.vars \cup {id} /\ n.vars[id] = string
      /\ \A i \in DOMAIN m.vars : n.vars[i] = m.vars[i]
  BY <1>1, <1>2
<1>. QED  BY <1>2, <1>4, <1>5

LEMMA AddedIsWithString ==
  ASSUME NEW m, NEW string
  PROVE  /\ Added(m, string, TRUE) = WithString(m, string, m.tempIDs \cup {GetUnusedID(m)})
         /\ Added(m, string, FALSE) = WithString(m, string, m.tempIDs)
BY DEF Added, WithString

(***************************************************************************)
(* Writing into a string.                                                  *)
(***************************************************************************)
Written(m, id, text) == [m EXCEPT !.vars[id].text = text]

LEMMA WrittenProperties ==
  ASSUME NEW m, MapFits(m), NEW id \in DOMAIN m.vars, NEW text \in StringTexts,
         NEW n, n = Written(m, id, text)
  PROVE  /\ MapFits(n)
         /\ DOMAIN n.vars = DOMAIN m.vars
         /\ n.vars[id].text = text
         /\ \A i \in DOMAIN m.vars : n.vars[i].owner = m.vars[i].owner /\ (i # id => n.vars[i] = m.vars[i])
         /\ n.tempIDs = m.tempIDs /\ n.availableIDs = m.availableIDs
<1>1. /\ n = [vars |-> n.vars, tempIDs |-> n.tempIDs, availableIDs |-> n.availableIDs]
      /\ n.vars = [m.vars EXCEPT ![id].text = text]
      /\ n.tempIDs = m.tempIDs /\ n.availableIDs = m.availableIDs
  BY DEF MapFits, Written
<1>2. /\ \A i \in DOMAIN m.vars : m.vars[i] \in Strings
      /\ [m.vars[id] EXCEPT !.text = text] \in Strings
      /\ [m.vars[id] EXCEPT !.text = text].text = text
      /\ [m.vars[id] EXCEPT !.text = text].owner = m.vars[id].owner
  BY DEF MapFits, Strings
<1>3. /\ DOMAIN n.vars = DOMAIN m.vars
      /\ n.vars[id] = [m.vars[id] EXCEPT !.text = text]
      /\ \A i \in DOMAIN m.vars : i # id => n.vars[i] = m.vars[i]
      /\ n.vars = [i \in DOMAIN m.vars |-> n.vars[i]]
  BY <1>1 DEF MapFits
<1>. QED  BY <1>1, <1>2, <1>3 DEF MapFits

LEMMA MarkedProperties ==
  ASSUME NEW m, MapFits(m), NEW id, NEW bTemporary \in BOOLEAN, id \in DOMAIN m.vars \cup {NoString},
         NEW n, n = MarkTemporary(m, id, bTemporary)
  PROVE  /\ MapFits(n)
         /\ n.vars = m.vars
         /\ n.tempIDs = IF bTemporary THEN m.tempIDs \cup ({id} \ {NoString}) ELSE m.tempIDs \ {id}
         /\ GetUnusedID(n) = GetUnusedID(m)
BY DEF MapFits, MarkTemporary, GetUnusedID

LEMMA DeletedProperties ==
  ASSUME NEW m, MapFits(m), NEW ids, ids \subseteq DOMAIN m.vars \cup {NoString},
         NEW n, n = Deleted(m, ids)
  PROVE  /\ MapFits(n)
         /\ DOMAIN n.vars = DOMAIN m.vars \ (ids \ {cache.id, NoString})
         /\ \A id \in DOMAIN n.vars : n.vars[id] = m.vars[id]
         /\ n.tempIDs = m.tempIDs \ ids
<1>. DEFINE gone == ids \ {cache.id, NoString}
<1>1. /\ n = [vars |-> n.vars, tempIDs |-> n.tempIDs, availableIDs |-> n.availableIDs]
      /\ n.vars = [i \in DOMAIN m.vars \ gone |-> m.vars[i]]
      /\ n.tempIDs = m.tempIDs \ ids /\ n.availableIDs = m.availableIDs \cup gone
  BY DEF Deleted, Restrict
<1>2. gone \subseteq 1 .. MaxID /\ gone \subseteq DOMAIN m.vars
  BY DEF MapFits
<1>3. MapFits(n)
  <2>1. n.vars \in [DOMAIN n.vars -> Strings] /\ DOMAIN n.vars = DOMAIN m.vars \ gone
    BY <1>1 DEF MapFits
  <2>2. n.tempIDs \subseteq DOMAIN n.vars \cup {NoString} \cup (gone \cap n.tempIDs) \cup {NoString}
    BY <1>1, <2>1 DEF MapFits
  <2>3. gone \cap n.tempIDs = {}
    BY <1>1
  <2>4. n.availableIDs \subseteq (1 .. MaxID) \ DOMAIN n.vars
    BY <1>1, <1>2, <2>1 DEF MapFits
  <2>5. DOMAIN n.vars \subseteq 1 .. MaxID
    BY <2>1 DEF MapFits
  <2>. QED  BY <1>1, <2>1, <2>2, <2>3, <2>4, <2>5 DEF MapFits
<1>. QED  BY <1>1, <1>3

(***************************************************************************)
(* The cached string is in the map, and no mod owns it.                    *)
(***************************************************************************)
CacheFits(m, c) ==
  /\ c \in Caches
  /\ c.id = NoString => ~c.inUse
  /\ c.id # NoString => Exists(m, c.id) /\ m.vars[c.id].owner = NoMod

(***************************************************************************)
(* What a command returns is in a string of its own, or in the cached one  *)
(* if that is not in use; no other string changes.                         *)
(***************************************************************************)
LEMMA ResultProperties ==
  ASSUME NEW m, MapFits(m), Fits(m), NEW c, CacheFits(m, c), NEW text \in StringTexts, NEW mod \in Mods,
         NEW r, r = Result(m, c, text, mod)
  PROVE  /\ MapFits(r.map) /\ CacheFits(r.map, r.cache) /\ r.cache.inUse
         /\ r.id \in 1 .. MaxID
         /\ r.id \in DOMAIN m.vars => r.id = c.id /\ ~c.inUse
         /\ DOMAIN r.map.vars = DOMAIN m.vars \cup {r.id}
         /\ \A id \in DOMAIN m.vars : id # r.id => r.map.vars[id] = m.vars[id]
         /\ \A id \in DOMAIN m.vars : r.map.vars[id].owner = m.vars[id].owner
         /\ r.map.vars[r.id] = [text |-> text, owner |-> IF c.inUse THEN mod ELSE NoMod]
         /\ IF c.inUse THEN r.cache = c /\ r.id # c.id ELSE r.cache.id = r.id
         /\ c.id # NoString => r.cache.id = c.id
         /\ r.map.tempIDs = IF c.inUse THEN m.tempIDs \cup {r.id} ELSE m.tempIDs
<1>. DEFINE new == GetUnusedID(m)
<1>0. [text |-> text, owner |-> mod] \in Strings /\ [text |-> text, owner |-> NoMod] \in Strings
  BY DEF Strings
<1>1. new \in 1 .. MaxID /\ new \notin DOMAIN m.vars /\ new # NoString /\ 0 \in 0 .. MaxID /\ new \in 0 .. MaxID
  BY FreshID, ConstantsAssumption DEF ConstantsAssumption, NoString
<1>2. CASE c.inUse
  <2>. PICK string \in Strings : string = [text |-> text, owner |-> mod]
    BY <1>0
  <2>. PICK n : n = WithString(m, string, m.tempIDs \cup {new})
    OBVIOUS
  <2>1. /\ MapFits(n) /\ DOMAIN n.vars = DOMAIN m.vars \cup {new}
        /\ n.vars[new] = [text |-> text, owner |-> mod]
        /\ \A id \in DOMAIN m.vars : n.vars[id] = m.vars[id]
        /\ n.tempIDs = m.tempIDs \cup {new}
    BY AddedProperties
  <2>2. r.map = n /\ r.cache = c /\ r.id = new
    BY <1>2, AddedIsWithString DEF Result
  <2>3. c.id \in DOMAIN m.vars /\ CacheFits(n, c)
    BY <1>2, <2>1 DEF CacheFits, Exists
  <2>. QED  BY <1>1, <1>2, <2>1, <2>2, <2>3
<1>3. CASE ~c.inUse /\ c.id # NoString
  <2>. PICK n : n = Written(m, c.id, text)
    OBVIOUS
  <2>0. c.id \in DOMAIN m.vars /\ m.vars[c.id].owner = NoMod /\ c \in Caches /\ c.id \in 1 .. MaxID
    BY <1>3 DEF CacheFits, Exists, MapFits
  <2>1. /\ MapFits(n) /\ DOMAIN n.vars = DOMAIN m.vars
        /\ n.vars[c.id].text = text
        /\ \A i \in DOMAIN m.vars : n.vars[i].owner = m.vars[i].owner /\ (i # c.id => n.vars[i] = m.vars[i])
        /\ n.tempIDs = m.tempIDs
    BY <2>0, WrittenProperties
  <2>2. r.map = n /\ r.cache = [c EXCEPT !.inUse = TRUE] /\ r.id = c.id
    BY <1>3 DEF Result, Written
  <2>3. r.cache.inUse /\ r.cache.id = c.id /\ r.cache \in Caches
    BY <2>0, <2>2 DEF Caches
  <2>4. n.vars[c.id] = [text |-> text, owner |-> NoMod]
    <3>1. n.vars[c.id] \in Strings
      BY <2>0, <2>1 DEF MapFits
    <3>. QED  BY <2>0, <2>1, <3>1 DEF Strings
  <2>5. CacheFits(n, r.cache)
    BY <1>3, <2>0, <2>1, <2>3 DEF CacheFits, Exists
  <2>. QED  BY <1>3, <2>0, <2>1, <2>2, <2>3, <2>4, <2>5
<1>4. CASE ~c.inUse /\ c.id = NoString
  <2>. PICK string \in Strings : string = [text |-> text, owner |-> NoMod]
    BY <1>0
  <2>. PICK n : n = WithString(m, string, m.tempIDs)
    OBVIOUS
  <2>1. /\ MapFits(n) /\ DOMAIN n.vars = DOMAIN m.vars \cup {new}
        /\ n.vars[new] = [text |-> text, owner |-> NoMod]
        /\ \A id \in DOMAIN m.vars : n.vars[id] = m.vars[id]
        /\ n.tempIDs = m.tempIDs
    BY AddedProperties
  <2>2. r.map = n /\ r.cache = [id |-> new, inUse |-> TRUE] /\ r.id = new
    BY <1>4, AddedIsWithString DEF Result
  <2>3. CacheFits(n, r.cache)
    BY <1>1, <2>1, <2>2 DEF CacheFits, Exists, Caches
  <2>. QED  BY <1>1, <1>4, <2>1, <2>2, <2>3
<1>. QED  BY <1>2, <1>3, <1>4

(***************************************************************************)
(* An assignment writes into the string of the variable, or makes it one;  *)
(* it changes no other string but that of the result it moves.             *)
(***************************************************************************)
LEMMA AssignedProperties ==
  ASSUME MapFits(map), NEW tok \in Tokens, NEW lhs, NEW mod \in Mods,
         tok.id # NoString => Exists(map, tok.id),
         tok.rvalue => tok.id # NoString,
         Exists(map, lhs) \/ Fits(map),
         NEW n, n = Assigned(map, lhs, tok, mod), NEW new, new = GetUnusedID(map),
         NEW id, id = IF Exists(map, lhs) THEN lhs ELSE new
  PROVE  /\ MapFits(n)
         /\ DOMAIN n.vars = DOMAIN map.vars \cup {id}
         /\ n.tempIDs = map.tempIDs
         /\ \A i \in DOMAIN map.vars : n.vars[i].owner = map.vars[i].owner
         /\ \A i \in DOMAIN map.vars : i # id /\ (tok.rvalue => i # tok.id) => n.vars[i] = map.vars[i]
         /\ ~Exists(map, lhs) => n.vars[new].owner = IF tok.rvalue THEN map.vars[tok.id].owner ELSE mod
<1>. PICK string : string = IF tok.rvalue THEN map.vars[tok.id] ELSE [text |-> TextOf(tok), owner |-> mod]
  OBVIOUS
<1>. PICK empty \in StringTexts : empty = NoText
  BY DEF StringTexts
<1>. PICK moved : moved = IF tok.rvalue THEN Written(map, tok.id, empty) ELSE map
  OBVIOUS
<1>1. string \in Strings
  <2>1. TextOf(tok) \in StringTexts
    <3>1. tok.id # NoString => map.vars[tok.id] \in Strings
      BY DEF MapFits, Exists
    <3>. QED  BY <3>1 DEF TextOf, Tokens, Strings
  <2>2. tok.rvalue => map.vars[tok.id] \in Strings
    BY DEF MapFits, Exists
  <2>. QED  BY <2>1, <2>2 DEF Strings
<1>2. /\ MapFits(moved) /\ DOMAIN moved.vars = DOMAIN map.vars /\ moved.tempIDs = map.tempIDs
      /\ \A i \in DOMAIN map.vars : moved.vars[i].owner = map.vars[i].owner
      /\ \A i \in DOMAIN map.vars : (tok.rvalue => i # tok.id) => moved.vars[i] = map.vars[i]
      /\ GetUnusedID(moved) = new
  <2>1. CASE tok.rvalue
    <3>1. tok.id \in DOMAIN map.vars
      BY <2>1 DEF Exists
    <3>2. moved = Written(map, tok.id, empty)
      BY <2>1
    <3>3. /\ MapFits(moved) /\ DOMAIN moved.vars = DOMAIN map.vars
          /\ \A i \in DOMAIN map.vars : moved.vars[i].owner = map.vars[i].owner /\ (i # tok.id => moved.vars[i] = map.vars[i])
          /\ moved.tempIDs = map.tempIDs /\ moved.availableIDs = map.availableIDs
      BY <3>1, <3>2, WrittenProperties
    <3>. QED  BY <2>1, <3>3 DEF GetUnusedID
  <2>2. CASE ~tok.rvalue
    BY <2>2
  <2>. QED  BY <2>1, <2>2
<1>3. n = IF Exists(map, lhs) THEN Written(moved, lhs, string.text)
          ELSE Added(moved, string, FALSE)
  BY DEF Assigned, Written
<1>4. ~Exists(map, lhs) => string.owner = IF tok.rvalue THEN map.vars[tok.id].owner ELSE mod
  OBVIOUS
<1>5. CASE Exists(map, lhs)
  <2>1. lhs \in DOMAIN moved.vars /\ string.text \in StringTexts
    BY <1>1, <1>2, <1>5 DEF Exists, Strings
  <2>2. n = Written(moved, lhs, string.text)
    BY <1>3, <1>5
  <2>3. /\ MapFits(n) /\ DOMAIN n.vars = DOMAIN moved.vars /\ n.tempIDs = moved.tempIDs
        /\ \A i \in DOMAIN moved.vars : n.vars[i].owner = moved.vars[i].owner /\ (i # lhs => n.vars[i] = moved.vars[i])
    BY <1>2, <2>1, <2>2, WrittenProperties
  <2>. QED  BY <1>2, <1>5, <2>1, <2>3
<1>6. CASE ~Exists(map, lhs)
  <2>1. n = WithString(moved, string, moved.tempIDs) /\ Fits(moved)
    BY <1>2, <1>3, <1>6, AddedIsWithString DEF Fits
  <2>2. /\ MapFits(n) /\ DOMAIN n.vars = DOMAIN map.vars \cup {new} /\ n.tempIDs = map.tempIDs
        /\ n.vars[new] = string
        /\ \A i \in DOMAIN map.vars : n.vars[i] = moved.vars[i]
    BY <1>1, <1>2, <2>1, AddedProperties
  <2>. QED  BY <1>2, <1>4, <1>6, <2>2
<1>. QED  BY <1>5, <1>6

-----------------------------------------------------------------------------
\* The invariant.

(***************************************************************************)
(* Who may call a string his own: a variable of a quest, the variable of a *)
(* function under way, and an operand that a command has returned.         *)
(***************************************************************************)
Claimants ==
  ({"quest"} \X Variables \X {0}) \cup ({"local"} \X (DOMAIN frames) \X {0})
  \cup {a \in {"operand"} \X Nat \X Nat :
          a[2] \in DOMAIN frames /\ a[3] \in DOMAIN frames[a[2]].line.ops
          /\ frames[a[2]].line.ops[a[3]].rvalue}

Claim(a) == IF a[1] = "quest" THEN data[a[2]]
            ELSE IF a[1] = "local" THEN frames[a[2]].local
            ELSE frames[a[2]].line.ops[a[3]].id

(***************************************************************************)
(* No string has two owners, and the cached one has none but in use.       *)
(***************************************************************************)
ClaimsApart ==
  \A a \in Claimants : Claim(a) # NoString =>
    /\ Exists(map, Claim(a))
    /\ Claim(a) = cache.id => cache.inUse
    /\ \A b \in Claimants : b # a => Claim(b) # Claim(a)

Typed ==
  /\ MapFits(map) /\ CacheFits(map, cache)
  /\ data \in [Variables -> 0 .. MaxID]
  /\ frames \in Seq(Frames)

(***************************************************************************)
(* A line: what it assigns to is the script's own or its mod's, and holds  *)
(* the string it held when the line began.                                 *)
(***************************************************************************)
LineFits(d, f) ==
  /\ f.line.kind = "none" => f.line = NoLine
  /\ f.line.kind = "let" => /\ f.line.target \in Variables \cup {Local}
                            /\ f.line.target \in Variables => ModOf[f.line.target] = f.mod
  /\ f.line.lhs # NoString =>
       /\ f.line.kind = "let"
       /\ f.line.lhs = IF f.line.target = Local THEN f.local ELSE d[f.line.target]

LinesFit ==
  /\ \A i \in DOMAIN frames : LineFits(data, frames[i])
  /\ \A i \in 1 .. Len(frames) - 1 : frames[i].line.kind # "none"

(***************************************************************************)
(* An operand is what it was when it was returned, and belongs to the mod  *)
(* whose script called, unless it is in the cached string.                 *)
(***************************************************************************)
OperandFits(m, c, t, mod) ==
  /\ t.id # NoString => Exists(m, t.id)
  /\ t.rvalue => /\ t.id # NoString /\ m.vars[t.id].text = t.text
                 /\ t.id # c.id => m.vars[t.id].owner = mod

OperandsFit ==
  \A i \in DOMAIN frames : \A k \in DOMAIN frames[i].line.ops :
    OperandFits(map, cache, frames[i].line.ops[k], frames[i].mod)

(***************************************************************************)
(* What a variable of a quest holds is no temporary string, and is saved   *)
(* under the quest's mod, or not at all.                                   *)
(***************************************************************************)
QuestsFit ==
  \A x \in Variables : data[x] # NoString =>
    map.vars[data[x]].owner \in {ModOf[x], NoMod} /\ data[x] \notin map.tempIDs

LeftFit ==
  \A id \in DOMAIN map.vars :
    \/ id \in map.tempIDs \cup {cache.id}
    \/ \E x \in Variables : data[x] = id
    \/ \E i \in DOMAIN frames : frames[i].local = id

Inv == Typed /\ ClaimsApart /\ LinesFit /\ OperandsFit /\ QuestsFit /\ LeftFit

-----------------------------------------------------------------------------
\* What a step of a script does to the stack.

(***************************************************************************)
(* Frame n becomes the top one, as f, and tok becomes its operand k0; its  *)
(* other operands are those it had.                                        *)
(***************************************************************************)
StackStep(n, f, k0, tok) ==
  /\ n \in Nat \ {0} /\ n <= Len(frames) + 1 /\ f \in Frames
  /\ frames' \in Seq(Frames) /\ Len(frames') = n
  /\ \A i \in 1 .. n - 1 : frames'[i] = frames[i]
  /\ frames'[n] = f
  /\ n <= Len(frames) => f.mod = frames[n].mod
  /\ \A k \in DOMAIN f.line.ops :
       IF k = k0 THEN f.line.ops[k] = tok
       ELSE n <= Len(frames) /\ k \in DOMAIN frames[n].line.ops /\ f.line.ops[k] = frames[n].line.ops[k]

(***************************************************************************)
(* What the types say of a frame, and of a stack of them.                  *)
(***************************************************************************)
LEMMA FrameFacts ==
  ASSUME NEW f \in Frames
  PROVE  /\ f.mod \in Mods /\ f.local \in 0 .. MaxID /\ f.line \in Lines
         /\ f.line.kind \in {"none", "let", "call"} /\ f.line.target \in Variables \cup {Local, Nothing}
         /\ f.line.lhs \in 0 .. MaxID /\ f.line.ops \in Seq(Tokens) /\ Len(f.line.ops) \in Nat
         /\ DOMAIN f.line.ops = 1 .. Len(f.line.ops)
         /\ \A k \in DOMAIN f.line.ops :
              /\ k \in Nat /\ f.line.ops[k] \in Tokens /\ f.line.ops[k].id \in 0 .. MaxID
              /\ f.line.ops[k].rvalue \in BOOLEAN /\ f.line.ops[k].text \in StringTexts
<1>1. f.line \in Lines /\ f.mod \in Mods /\ f.local \in 0 .. MaxID
  BY DEF Frames
<1>2. /\ f.line.ops \in Seq(Tokens) /\ f.line.kind \in {"none", "let", "call"}
      /\ f.line.target \in Variables \cup {Local, Nothing} /\ f.line.lhs \in 0 .. MaxID
  BY <1>1 DEF Lines
<1>3. /\ Len(f.line.ops) \in Nat /\ DOMAIN f.line.ops = 1 .. Len(f.line.ops)
      /\ \A k \in DOMAIN f.line.ops : f.line.ops[k] \in Tokens
  BY <1>2, LenProperties, ElementOfSeq
<1>. QED  BY <1>1, <1>2, <1>3 DEF Tokens

LEMMA StackFacts ==
  ASSUME NEW s \in Seq(Frames)
  PROVE  /\ Len(s) \in Nat /\ DOMAIN s = 1 .. Len(s)
         /\ \A i \in DOMAIN s : i \in Nat /\ s[i] \in Frames
BY LenProperties, ElementOfSeq

LEMMA ClaimantCases ==
  ASSUME NEW a \in Claimants
  PROVE  \/ \E x \in Variables : a = <<"quest", x, 0>> /\ Claim(a) = data[x]
         \/ \E i \in DOMAIN frames : a = <<"local", i, 0>> /\ Claim(a) = frames[i].local
         \/ \E i \in DOMAIN frames : \E k \in DOMAIN frames[i].line.ops :
               /\ a = <<"operand", i, k>> /\ Claim(a) = frames[i].line.ops[k].id
               /\ frames[i].line.ops[k].rvalue
BY DEF Claimants, Claim

LEMMA ClaimantsAre ==
  ASSUME frames \in Seq(Frames)
  PROVE  /\ \A x \in Variables : <<"quest", x, 0>> \in Claimants /\ Claim(<<"quest", x, 0>>) = data[x]
         /\ \A i \in DOMAIN frames : <<"local", i, 0>> \in Claimants /\ Claim(<<"local", i, 0>>) = frames[i].local
         /\ \A i \in DOMAIN frames : \A k \in DOMAIN frames[i].line.ops :
               /\ Claim(<<"operand", i, k>>) = frames[i].line.ops[k].id
               /\ frames[i].line.ops[k].rvalue <=> <<"operand", i, k>> \in Claimants
<1>1. \A i \in DOMAIN frames : i \in Nat /\ frames[i] \in Frames
  BY StackFacts
<1>2. \A i \in DOMAIN frames : \A k \in DOMAIN frames[i].line.ops : k \in Nat
  BY <1>1, FrameFacts
<1>. QED  BY <1>1, <1>2 DEF Claimants, Claim

(***************************************************************************)
(* The same, of the variables and operands themselves.                     *)
(***************************************************************************)
LEMMA ClaimsAre ==
  ASSUME frames \in Seq(Frames), ClaimsApart
  PROVE  /\ \A x \in Variables : data[x] # NoString =>
              /\ Exists(map, data[x]) /\ (data[x] = cache.id => cache.inUse)
              /\ \A y \in Variables : y # x => data[y] # data[x]
              /\ \A i \in DOMAIN frames : frames[i].local # data[x]
              /\ \A i \in DOMAIN frames : \A k \in DOMAIN frames[i].line.ops :
                   frames[i].line.ops[k].rvalue => frames[i].line.ops[k].id # data[x]
         /\ \A i \in DOMAIN frames : frames[i].local # NoString =>
              /\ Exists(map, frames[i].local) /\ (frames[i].local = cache.id => cache.inUse)
              /\ \A j \in DOMAIN frames : j # i => frames[j].local # frames[i].local
              /\ \A j \in DOMAIN frames : \A k \in DOMAIN frames[j].line.ops :
                   frames[j].line.ops[k].rvalue => frames[j].line.ops[k].id # frames[i].local
         /\ \A i \in DOMAIN frames : \A k \in DOMAIN frames[i].line.ops :
              frames[i].line.ops[k].rvalue /\ frames[i].line.ops[k].id # NoString =>
                /\ Exists(map, frames[i].line.ops[k].id)
                /\ frames[i].line.ops[k].id = cache.id => cache.inUse
                /\ \A j \in DOMAIN frames : \A l \in DOMAIN frames[j].line.ops :
                     frames[j].line.ops[l].rvalue /\ <<i, k>> # <<j, l>> =>
                       frames[j].line.ops[l].id # frames[i].line.ops[k].id
<1>. USE ClaimantsAre
<1>1. \A a, b \in Claimants : a # b /\ Claim(a) # NoString => Claim(b) # Claim(a)
  BY DEF ClaimsApart
<1>2. \A a \in Claimants : Claim(a) # NoString =>
        Exists(map, Claim(a)) /\ (Claim(a) = cache.id => cache.inUse)
  BY DEF ClaimsApart
<1>3. ASSUME NEW x \in Variables, data[x] # NoString
      PROVE  /\ Exists(map, data[x]) /\ (data[x] = cache.id => cache.inUse)
             /\ \A y \in Variables : y # x => data[y] # data[x]
             /\ \A i \in DOMAIN frames : frames[i].local # data[x]
             /\ \A i \in DOMAIN frames : \A k \in DOMAIN frames[i].line.ops :
                  frames[i].line.ops[k].rvalue => frames[i].line.ops[k].id # data[x]
  <2>. DEFINE a == <<"quest", x, 0>>
  <2>1. a \in Claimants /\ Claim(a) = data[x]
    OBVIOUS
  <2>2. \A b \in Claimants : b # a => Claim(b) # data[x]
    BY <1>1, <1>3, <2>1
  <2>3. \A y \in Variables : y # x => <<"quest", y, 0>> # a
    OBVIOUS
  <2>4. \A i : <<"local", i, 0>> # a
    OBVIOUS
  <2>5. \A i, k : <<"operand", i, k>> # a
    OBVIOUS
  <2>. HIDE DEF a
  <2>. QED  BY <1>2, <1>3, <2>1, <2>2, <2>3, <2>4, <2>5
<1>4. ASSUME NEW i \in DOMAIN frames, frames[i].local # NoString
      PROVE  /\ Exists(map, frames[i].local) /\ (frames[i].local = cache.id => cache.inUse)
             /\ \A j \in DOMAIN frames : j # i => frames[j].local # frames[i].local
             /\ \A j \in DOMAIN frames : \A k \in DOMAIN frames[j].line.ops :
                  frames[j].line.ops[k].rvalue => frames[j].line.ops[k].id # frames[i].local
  <2>. DEFINE a == <<"local", i, 0>>
  <2>1. a \in Claimants /\ Claim(a) = frames[i].local
    OBVIOUS
  <2>2. \A b \in Claimants : b # a => Claim(b) # frames[i].local
    BY <1>1, <1>4, <2>1
  <2>4. \A j : j # i => <<"local", j, 0>> # a
    OBVIOUS
  <2>5. \A j, k : <<"operand", j, k>> # a
    OBVIOUS
  <2>. HIDE DEF a
  <2>. QED  BY <1>2, <1>4, <2>1, <2>2, <2>4, <2>5
<1>5. ASSUME NEW i \in DOMAIN frames, NEW k \in DOMAIN frames[i].line.ops,
             frames[i].line.ops[k].rvalue, frames[i].line.ops[k].id # NoString
      PROVE  /\ Exists(map, frames[i].line.ops[k].id)
             /\ frames[i].line.ops[k].id = cache.id => cache.inUse
             /\ \A j \in DOMAIN frames : \A l \in DOMAIN frames[j].line.ops :
                  frames[j].line.ops[l].rvalue /\ <<i, k>> # <<j, l>> =>
                    frames[j].line.ops[l].id # frames[i].line.ops[k].id
  <2>. DEFINE a == <<"operand", i, k>>
  <2>1. a \in Claimants /\ Claim(a) = frames[i].line.ops[k].id
    BY <1>5
  <2>2. \A b \in Claimants : b # a => Claim(b) # frames[i].line.ops[k].id
    BY <1>1, <1>5, <2>1
  <2>3. /\ Exists(map, frames[i].line.ops[k].id)
        /\ frames[i].line.ops[k].id = cache.id => cache.inUse
    BY <1>2, <1>5, <2>1
  <2>4. ASSUME NEW j \in DOMAIN frames, NEW l \in DOMAIN frames[j].line.ops,
               frames[j].line.ops[l].rvalue, <<i, k>> # <<j, l>>
        PROVE  frames[j].line.ops[l].id # frames[i].line.ops[k].id
    <3>1. <<"operand", j, l>> \in Claimants /\ Claim(<<"operand", j, l>>) = frames[j].line.ops[l].id
      BY <2>4
    <3>2. <<"operand", j, l>> # a
      BY <2>4
    <3>. QED  BY <2>2, <3>1, <3>2
  <2>. QED  BY <2>3, <2>4
<1>. QED  BY <1>3, <1>4, <1>5

(***************************************************************************)
(* An ID that is new, or of the cached string while that is not in use,    *)
(* has no owner.                                                           *)
(***************************************************************************)
Unclaimed(id) == Exists(map, id) => id = cache.id /\ ~cache.inUse

LEMMA UnclaimedHasNone ==
  ASSUME ClaimsApart, NEW id, id # NoString, Unclaimed(id), NEW a \in Claimants
  PROVE  Claim(a) # id
BY DEF ClaimsApart, Unclaimed

(***************************************************************************)
(* One owner, e, has a string that no one had, or has none; of the others  *)
(* each has the string it had, or is no more.  Tokens that are destroyed   *)
(* are owners that are no more, or e, in place of which another comes.     *)
(***************************************************************************)
ClaimsMove(e, id) ==
  /\ \A a \in Claimants' : a # e /\ Claim(a)' # NoString =>
       a \in Claimants /\ Claim(a)' = Claim(a) /\ Exists(map', Claim(a)')
  /\ e \in Claimants' => Claim(e)' \in {id, NoString}
  /\ id # NoString => Exists(map', id) /\ Unclaimed(id)

CacheMoves(id, c, toks) ==
  /\ cache' = Released(c, toks) /\ c \in Caches
  /\ c = cache \/ (c.inUse /\ ~cache.inUse /\ Unclaimed(c.id))
  /\ c.id = id /\ id # NoString => c.inUse

ClaimsEnd(e, toks) ==
  \A t \in toks : t.rvalue => \E b \in Claimants :
    Claim(b) = t.id /\ t.id # NoString /\ (b = e \/ b \notin Claimants')

LEMMA ClaimsStep ==
  ASSUME ClaimsApart, NEW e, NEW id, NEW c, NEW toks,
         ClaimsMove(e, id), CacheMoves(id, c, toks), ClaimsEnd(e, toks)
  PROVE  ClaimsApart'
<1>1. cache'.id = c.id /\ (cache'.inUse <=> c.inUse /\ ~\E t \in toks : t.rvalue /\ t.id = c.id)
  BY DEF CacheMoves, Released, Caches
<1>2. \A a \in Claimants : Claim(a) # NoString =>
         Exists(map, Claim(a)) /\ (Claim(a) = cache.id => cache.inUse) /\ (id # NoString => Claim(a) # id)
  BY UnclaimedHasNone DEF ClaimsApart, ClaimsMove
<1>3. \A a, b \in Claimants : a # b /\ Claim(a) # NoString => Claim(a) # Claim(b)
  BY DEF ClaimsApart
<1>. USE DEF ClaimsMove
<1>4. ASSUME NEW a \in Claimants', a # e, Claim(a)' # NoString
      PROVE  /\ Exists(map', Claim(a)') /\ (Claim(a)' = cache'.id => cache'.inUse)
             /\ \A b \in Claimants' : b # a => Claim(b)' # Claim(a)'
  <2>1. a \in Claimants /\ Claim(a)' = Claim(a) /\ Exists(map', Claim(a)')
    BY <1>4
  <2>2. Exists(map', Claim(a)')
    BY <2>1
  <2>3. ASSUME Claim(a)' = cache'.id
        PROVE  cache'.inUse
    <3>1. Claim(a) = c.id /\ c.id # NoString
      BY <1>1, <1>4, <2>1, <2>3
    <3>2. c = cache
      BY <1>2, <2>1, <3>1 DEF CacheMoves, Unclaimed
    <3>3. \A t \in toks : t.rvalue => t.id # c.id
      BY <1>3, <1>4, <2>1, <3>1 DEF ClaimsEnd
    <3>. QED  BY <1>1, <1>2, <2>1, <3>1, <3>2, <3>3
  <2>4. ASSUME NEW b \in Claimants', b # a
        PROVE  Claim(b)' # Claim(a)'
    <3>1. CASE b = e
      BY <1>2, <1>4, <2>1, <2>4, <3>1
    <3>2. CASE b # e
      BY <1>3, <1>4, <2>1, <2>4, <3>2
    <3>. QED  BY <3>1, <3>2
  <2>. QED  BY <2>2, <2>3, <2>4
<1>5. ASSUME e \in Claimants', Claim(e)' # NoString
      PROVE  /\ Exists(map', Claim(e)') /\ (Claim(e)' = cache'.id => cache'.inUse)
             /\ \A b \in Claimants' : b # e => Claim(b)' # Claim(e)'
  <2>1. Claim(e)' = id /\ id # NoString /\ Exists(map', id)
    BY <1>5
  <2>2. ASSUME Claim(e)' = cache'.id
        PROVE  cache'.inUse
    <3>1. c.inUse /\ c.id = id
      BY <1>1, <2>1, <2>2 DEF CacheMoves
    <3>2. \A t \in toks : t.rvalue => t.id # c.id
      BY <1>2, <2>1, <3>1 DEF ClaimsEnd
    <3>. QED  BY <1>1, <3>1, <3>2
  <2>3. ASSUME NEW b \in Claimants', b # e
        PROVE  Claim(b)' # Claim(e)'
    BY <1>2, <2>1, <2>3
  <2>. QED  BY <2>1, <2>2, <2>3
<1>6. \A a \in Claimants' : Claim(a)' # NoString =>
        /\ Exists(map', Claim(a)') /\ (Claim(a)' = cache'.id => cache'.inUse)
        /\ \A b \in Claimants' : b # a => Claim(b)' # Claim(a)'
  BY <1>4, <1>5
<1>. QED  BY <1>6 DEF ClaimsApart

(***************************************************************************)
(* Who owns what after a step of a script.                                 *)
(***************************************************************************)
OwnersMove(n, f, k0, tok, e, id) ==
  /\ k0 \in DOMAIN f.line.ops /\ tok.rvalue => e = <<"operand", n, k0>> /\ tok.id = id
  /\ IF e = <<"local", n, 0>> THEN f.local \in {id, NoString}
     ELSE f.local = NoString \/ (n <= Len(frames) /\ f.local = frames[n].local)
  /\ \A x \in Variables : IF e = <<"quest", x, 0>> THEN data'[x] \in {id, NoString}
                          ELSE data'[x] \in {data[x], NoString}
  /\ \/ e = <<"none", 0, 0>> \/ e = <<"operand", n, k0>> \/ e = <<"local", n, 0>>
     \/ \E x \in Variables : e = <<"quest", x, 0>>

LEMMA StackClaims ==
  ASSUME frames \in Seq(Frames), NEW n, NEW f, NEW k0, NEW tok, StackStep(n, f, k0, tok), NEW e, NEW id,
         OwnersMove(n, f, k0, tok, e, id)
  PROVE  /\ \A a \in Claimants' : a # e /\ Claim(a)' # NoString => a \in Claimants /\ Claim(a)' = Claim(a)
         /\ e \in Claimants' => Claim(e)' \in {id, NoString}
<1>. USE DEF OwnersMove
<1>1. /\ n \in Nat \ {0} /\ n <= Len(frames) + 1 /\ Len(frames) \in Nat /\ DOMAIN frames = 1 .. Len(frames)
      /\ frames' \in Seq(Frames) /\ DOMAIN frames' = 1 .. n /\ frames'[n] = f
      /\ \A i \in 1 .. n - 1 : frames'[i] = frames[i]
  BY StackFacts DEF StackStep
<1>. USE ClaimantsAre
<1>2. ASSUME NEW a \in Claimants', a # e, Claim(a)' # NoString
      PROVE  a \in Claimants /\ Claim(a)' = Claim(a)
  <2>1. \/ \E x \in Variables : a = <<"quest", x, 0>> /\ Claim(a)' = data'[x]
        \/ \E i \in DOMAIN frames' : a = <<"local", i, 0>> /\ Claim(a)' = frames'[i].local
        \/ \E i \in DOMAIN frames' : \E k \in DOMAIN frames'[i].line.ops :
              /\ a = <<"operand", i, k>> /\ Claim(a)' = frames'[i].line.ops[k].id
              /\ frames'[i].line.ops[k].rvalue
    BY DEF Claimants, Claim
  <2>2. ASSUME NEW x \in Variables, a = <<"quest", x, 0>>, Claim(a)' = data'[x]
        PROVE  a \in Claimants /\ Claim(a)' = Claim(a)
    BY <1>2, <2>2
  <2>3. ASSUME NEW i \in DOMAIN frames', a = <<"local", i, 0>>, Claim(a)' = frames'[i].local
        PROVE  a \in Claimants /\ Claim(a)' = Claim(a)
    <3>1. CASE i = n
      <4>1. e # <<"local", n, 0>>
        BY <1>2, <2>3, <3>1
      <4>. QED  BY <1>1, <1>2, <2>3, <3>1, <4>1
    <3>2. CASE i # n
      <4>1. i \in DOMAIN frames /\ frames'[i] = frames[i]
        BY <1>1, <3>2
      <4>. QED  BY <2>3, <4>1
    <3>. QED  BY <3>1, <3>2
  <2>4. ASSUME NEW i \in DOMAIN frames', NEW k \in DOMAIN frames'[i].line.ops,
               a = <<"operand", i, k>>, Claim(a)' = frames'[i].line.ops[k].id,
               frames'[i].line.ops[k].rvalue
        PROVE  a \in Claimants /\ Claim(a)' = Claim(a)
    <3>1. i \in DOMAIN frames /\ k \in DOMAIN frames[i].line.ops /\ frames'[i].line.ops[k] = frames[i].line.ops[k]
      <4>1. CASE i = n
        <5>1. k \in DOMAIN f.line.ops
          BY <1>1, <4>1
        <5>2. k # k0
          <6>. SUFFICES ASSUME k = k0
                        PROVE  FALSE
            OBVIOUS
          <6>1. f.line.ops[k] = tok
            BY <5>1 DEF StackStep
          <6>2. tok.rvalue
            BY <1>1, <2>4, <4>1, <6>1
          <6>3. e = a
            BY <2>4, <4>1, <5>1, <6>2
          <6>. QED  BY <1>2, <6>3
        <5>3. n <= Len(frames) /\ k \in DOMAIN frames[n].line.ops /\ f.line.ops[k] = frames[n].line.ops[k]
          BY <5>1, <5>2 DEF StackStep
        <5>. QED  BY <1>1, <4>1, <5>3
      <4>2. CASE i # n
        BY <1>1, <4>2
      <4>. QED  BY <4>1, <4>2
    <3>. QED  BY <2>4, <3>1
  <2>. QED  BY <2>1, <2>2, <2>3, <2>4
<1>3. ASSUME e \in Claimants'
      PROVE  Claim(e)' \in {id, NoString}
  <2>1. CASE e = <<"none", 0, 0>>
    BY <1>3, <2>1 DEF Claimants
  <2>2. CASE e = <<"operand", n, k0>>
    <3>1. k0 \in DOMAIN f.line.ops /\ f.line.ops[k0].rvalue /\ Claim(e)' = f.line.ops[k0].id
      BY <1>1, <1>3, <2>2 DEF Claimants, Claim
    <3>2. f.line.ops[k0] = tok
      BY <3>1 DEF StackStep
    <3>. QED  BY <3>1, <3>2
  <2>3. CASE e = <<"local", n, 0>>
    <3>1. Claim(e)' = f.local
      BY <1>1, <2>3 DEF Claim
    <3>. QED  BY <2>3, <3>1
  <2>4. ASSUME NEW x \in Variables, e = <<"quest", x, 0>>
        PROVE  Claim(e)' \in {id, NoString}
    <3>1. Claim(e)' = data'[x]
      BY <2>4 DEF Claim
    <3>. QED  BY <2>4, <3>1
  <2>. QED  BY <2>1, <2>2, <2>3, <2>4
<1>. QED  BY <1>2, <1>3

(***************************************************************************)
(* An operand is kept if its string is.                                    *)
(***************************************************************************)
Kept(t) ==
  /\ t.id # NoString => Exists(map', t.id)
  /\ t.rvalue => /\ map'.vars[t.id] = map.vars[t.id]
                 /\ t.id = cache.id => t.id = cache'.id

LEMMA OperandsStep ==
  ASSUME frames \in Seq(Frames), OperandsFit, NEW n, NEW f, NEW k0, NEW tok, StackStep(n, f, k0, tok),
         \A i \in DOMAIN frames : \A k \in DOMAIN frames[i].line.ops :
            i < n \/ (i = n /\ k \in DOMAIN f.line.ops /\ k # k0) => Kept(frames[i].line.ops[k]),
         k0 \in DOMAIN f.line.ops => OperandFits(map', cache', tok, f.mod)
  PROVE  OperandsFit'
<1>1. /\ n \in Nat \ {0} /\ n <= Len(frames) + 1 /\ Len(frames) \in Nat /\ DOMAIN frames = 1 .. Len(frames)
      /\ frames' \in Seq(Frames) /\ DOMAIN frames' = 1 .. n /\ frames'[n] = f
      /\ \A i \in 1 .. n - 1 : frames'[i] = frames[i]
  BY StackFacts DEF StackStep
<1>2. ASSUME NEW t, NEW mod, OperandFits(map, cache, t, mod), Kept(t)
      PROVE  OperandFits(map', cache', t, mod)
  BY <1>2 DEF OperandFits, Kept
<1>3. ASSUME NEW i \in DOMAIN frames', NEW k \in DOMAIN frames'[i].line.ops
      PROVE  OperandFits(map', cache', frames'[i].line.ops[k], frames'[i].mod)
  <2>1. CASE i # n
    <3>1. i \in DOMAIN frames /\ frames'[i] = frames[i] /\ i < n
      BY <1>1, <2>1
    <3>2. Kept(frames[i].line.ops[k]) /\ OperandFits(map, cache, frames[i].line.ops[k], frames[i].mod)
      BY <1>3, <3>1 DEF OperandsFit
    <3>. QED  BY <1>2, <3>1, <3>2
  <2>2. CASE i = n /\ k = k0
    <3>1. k0 \in DOMAIN f.line.ops
      BY <1>1, <1>3, <2>2
    <3>2. f.line.ops[k0] = tok
      BY <3>1 DEF StackStep
    <3>. QED  BY <1>1, <2>2, <3>1, <3>2
  <2>3. CASE i = n /\ k # k0
    <3>1. k \in DOMAIN f.line.ops
      BY <1>1, <1>3, <2>3
    <3>2. /\ n <= Len(frames) /\ k \in DOMAIN frames[n].line.ops /\ f.line.ops[k] = frames[n].line.ops[k]
          /\ f.mod = frames[n].mod
      BY <2>3, <3>1 DEF StackStep
    <3>3. n \in DOMAIN frames
      BY <1>1, <3>2
    <3>4. Kept(frames[n].line.ops[k]) /\ OperandFits(map, cache, frames[n].line.ops[k], frames[n].mod)
      BY <2>3, <3>1, <3>2, <3>3 DEF OperandsFit
    <3>. QED  BY <1>1, <1>2, <2>3, <3>2, <3>4
  <2>. QED  BY <2>1, <2>2, <2>3
<1>. QED  BY <1>3 DEF OperandsFit

(***************************************************************************)
(* All are if no string is written into that has an owner.                 *)
(***************************************************************************)
LEMMA KeptOperands ==
  ASSUME frames \in Seq(Frames), ClaimsApart, OperandsFit,
         \A id \in DOMAIN map.vars : Exists(map', id) /\ (map'.vars[id] = map.vars[id] \/ Unclaimed(id)),
         cache.id # NoString => cache'.id = cache.id
  PROVE  \A i \in DOMAIN frames : \A k \in DOMAIN frames[i].line.ops : Kept(frames[i].line.ops[k])
<1>. TAKE i \in DOMAIN frames
<1>. TAKE k \in DOMAIN frames[i].line.ops
<1>. PICK t : t = frames[i].line.ops[k]
  OBVIOUS
<1>1. OperandFits(map, cache, t, frames[i].mod)
  BY DEF OperandsFit
<1>2. t.rvalue /\ t.id # NoString => Exists(map, t.id) /\ ~Unclaimed(t.id)
  BY ClaimsAre DEF Unclaimed
<1>. QED  BY <1>1, <1>2 DEF OperandFits, Kept, Exists

(***************************************************************************)
(* The lines under way.                                                    *)
(***************************************************************************)
LEMMA LinesStep ==
  ASSUME frames \in Seq(Frames), LinesFit, NEW n, NEW f, NEW k0, NEW tok, StackStep(n, f, k0, tok),
         \A i \in 1 .. n - 1 : frames[i].line.kind # "none",
         \A x \in Variables : data'[x] # data[x] =>
            \A i \in 1 .. n - 1 : frames[i].line.lhs # NoString => frames[i].line.target # x,
         LineFits(data', f)
  PROVE  LinesFit'
<1>1. /\ n \in Nat \ {0} /\ n <= Len(frames) + 1 /\ Len(frames) \in Nat /\ DOMAIN frames = 1 .. Len(frames)
      /\ frames' \in Seq(Frames) /\ DOMAIN frames' = 1 .. n /\ frames'[n] = f /\ Len(frames') = n
      /\ \A i \in 1 .. n - 1 : frames'[i] = frames[i]
  BY StackFacts DEF StackStep
<1>2. ASSUME NEW i \in 1 .. n - 1
      PROVE  LineFits(data', frames'[i])
  <2>1. i \in DOMAIN frames /\ frames'[i] = frames[i] /\ LineFits(data, frames[i])
    BY <1>1 DEF LinesFit
  <2>. PICK g : g = frames[i]
    OBVIOUS
  <2>2. LineFits(data', g)
    BY <2>1, ConstantsAssumption DEF LineFits, ConstantsAssumption
  <2>. QED  BY <2>1, <2>2
<1>3. \A i \in DOMAIN frames' : LineFits(data', frames'[i])
  BY <1>1, <1>2
<1>4. \A i \in 1 .. Len(frames') - 1 : frames'[i].line.kind # "none"
  BY <1>1
<1>. QED  BY <1>3, <1>4 DEF LinesFit

(***************************************************************************)
(* The ways in which scripts change the stack.                             *)
(***************************************************************************)
LEMMA TopIs ==
  ASSUME NEW s \in Seq(Frames), s # <<>>
  PROVE  Last(s) = s[Len(s)] /\ Len(s) \in DOMAIN s /\ Len(s) \in Nat \ {0} /\ Last(s) \in Frames
<1>1. Len(s) \in Nat \ {0}
  BY EmptySeq
<1>. QED  BY <1>1, StackFacts DEF Last

LEMMA TopStep ==
  ASSUME frames \in Seq(Frames), frames # <<>>, NEW f \in Frames, frames' = Append(Front(frames), f),
         f.mod = Top.mod, NEW n, n = Len(frames), NEW k0, NEW tok,
         \A k \in DOMAIN f.line.ops :
            IF k = k0 THEN f.line.ops[k] = tok
            ELSE k \in DOMAIN Top.line.ops /\ f.line.ops[k] = Top.line.ops[k]
  PROVE  StackStep(n, f, k0, tok) /\ Top = frames[n] /\ n \in DOMAIN frames
<1>1. n \in Nat \ {0} /\ Top = frames[n] /\ n \in DOMAIN frames /\ DOMAIN frames = 1 .. n
  BY TopIs, StackFacts DEF Top
<1>2. Front(frames) \in Seq(Frames) /\ Len(Front(frames)) = n - 1
      /\ \A i \in 1 .. n - 1 : Front(frames)[i] = frames[i]
  BY <1>1, AllButLast DEF Front
<1>3. /\ frames' \in Seq(Frames) /\ Len(frames') = n
      /\ \A i \in 1 .. n - 1 : frames'[i] = frames[i]
      /\ frames'[n] = f
  BY <1>1, <1>2, AppendProperties
<1>. QED  BY <1>1, <1>3 DEF StackStep

LEMMA PushStep ==
  ASSUME frames \in Seq(Frames), NEW f \in Frames, frames' = Append(frames, f),
         f.line.ops = <<>>, NEW n, n = Len(frames) + 1, NEW k0, NEW tok
  PROVE  StackStep(n, f, k0, tok)
<1>1. Len(frames) \in Nat
  BY StackFacts
<1>2. /\ frames' \in Seq(Frames) /\ Len(frames') = n
      /\ \A i \in 1 .. n - 1 : frames'[i] = frames[i]
      /\ frames'[n] = f
  BY <1>1, AppendProperties
<1>. QED  BY <1>1, <1>2 DEF StackStep

LEMMA PopStep ==
  ASSUME frames \in Seq(Frames), Len(frames) > 1, NEW f \in Frames,
         frames' = Append(SubSeq(frames, 1, Len(frames) - 2), f),
         NEW n, n = Len(frames) - 1, f.mod = frames[n].mod, NEW k0, NEW tok,
         \A k \in DOMAIN f.line.ops :
            IF k = k0 THEN f.line.ops[k] = tok
            ELSE k \in DOMAIN frames[n].line.ops /\ f.line.ops[k] = frames[n].line.ops[k]
  PROVE  StackStep(n, f, k0, tok)
<1>1. Len(frames) \in Nat /\ n \in Nat \ {0} /\ n - 1 \in Nat
      /\ \A i \in DOMAIN frames : frames[i] \in Frames
      /\ DOMAIN frames = 1 .. Len(frames)
      /\ n <= Len(frames) /\ n <= Len(frames) + 1 /\ n - 1 + 1 = n
  BY StackFacts
<1>2. /\ SubSeq(frames, 1, n - 1) \in Seq(Frames) /\ Len(SubSeq(frames, 1, n - 1)) = n - 1
      /\ \A i \in 1 .. n - 1 : SubSeq(frames, 1, n - 1)[i] = frames[i]
  <2>. PICK j \in Nat : j = n - 1
    BY <1>1
  <2>1. \A i \in 1 .. j : frames[i] \in Frames
    BY <1>1
  <2>2. /\ SubSeq(frames, 1, j) \in Seq(Frames)
        /\ Len(SubSeq(frames, 1, j)) = IF 1 <= j THEN j - 1 + 1 ELSE 0
        /\ \A i \in 1 .. j - 1 + 1 : SubSeq(frames, 1, j)[i] = frames[1 + i - 1]
    BY <2>1, SubSeqProperties
  <2>3. j - 1 + 1 = j /\ (1 <= j \/ j = 0) /\ \A i \in 1 .. j : 1 + i - 1 = i
    OBVIOUS
  <2>. QED  BY <2>2, <2>3
<1>3. frames' = Append(SubSeq(frames, 1, n - 1), f)
  <2>1. Len(frames) - 2 = n - 1
    BY <1>1
  <2>. QED  BY <2>1
<1>4. /\ frames' \in Seq(Frames) /\ Len(frames') = n
      /\ \A i \in 1 .. n - 1 : frames'[i] = frames[i]
      /\ frames'[n] = f
  <2>. PICK s \in Seq(Frames) : s = SubSeq(frames, 1, n - 1)
    BY <1>2
  <2>1. /\ Append(s, f) \in Seq(Frames) /\ Len(Append(s, f)) = Len(s) + 1
        /\ \A i \in 1 .. Len(s) : Append(s, f)[i] = s[i]
        /\ Append(s, f)[Len(s) + 1] = f
    BY AppendProperties
  <2>2. frames' = Append(s, f) /\ Len(s) = n - 1 /\ Len(s) + 1 = n
    BY <1>1, <1>2, <1>3
  <2>. QED  BY <1>2, <2>1, <2>2
<1>5. \A k \in DOMAIN f.line.ops :
        IF k = k0 THEN f.line.ops[k] = tok
        ELSE n <= Len(frames) /\ k \in DOMAIN frames[n].line.ops /\ f.line.ops[k] = frames[n].line.ops[k]
  BY <1>1
<1>6. n \in Nat \ {0} /\ n <= Len(frames) + 1 /\ (n <= Len(frames) => f.mod = frames[n].mod)
  BY <1>1
<1>. QED  BY ONLY <1>4, <1>5, <1>6, f \in Frames DEF StackStep

(***************************************************************************)
(* Tokens that a step destroys, of the frame that is the top one after it. *)
(***************************************************************************)
Destroys(n, f, e, toks) ==
  \A t \in toks : t.rvalue => \E k \in DOMAIN frames[n].line.ops :
    t = frames[n].line.ops[k] /\ (k \notin DOMAIN f.line.ops \/ e = <<"operand", n, k>>)

LEMMA Destroyed ==
  ASSUME frames \in Seq(Frames), OperandsFit, NEW n, NEW f, NEW k0, NEW tok, StackStep(n, f, k0, tok),
         n <= Len(frames), NEW e, NEW toks, Destroys(n, f, e, toks)
  PROVE  ClaimsEnd(e, toks)
<1>1. n \in DOMAIN frames /\ frames'[n] = f
  BY StackFacts DEF StackStep
<1>. SUFFICES ASSUME NEW t \in toks, t.rvalue
              PROVE  \E b \in Claimants : Claim(b) = t.id /\ t.id # NoString /\ (b = e \/ b \notin Claimants')
  BY DEF ClaimsEnd
<1>2. PICK k \in DOMAIN frames[n].line.ops :
        t = frames[n].line.ops[k] /\ (k \notin DOMAIN f.line.ops \/ e = <<"operand", n, k>>)
  BY DEF Destroys
<1>3. t.id # NoString
  BY <1>1, <1>2 DEF OperandsFit, OperandFits
<1>4. <<"operand", n, k>> \in Claimants /\ Claim(<<"operand", n, k>>) = t.id
  BY <1>1, <1>2, ClaimantsAre
<1>5. k \notin DOMAIN f.line.ops => <<"operand", n, k>> \notin Claimants'
  BY <1>1 DEF Claimants
<1>. QED  BY <1>2, <1>3, <1>4, <1>5

(***************************************************************************)
(* No string has two owners after a step that deletes none.                *)
(***************************************************************************)
LEMMA StepClaims ==
  ASSUME frames \in Seq(Frames), ClaimsApart, OperandsFit,
         NEW n, NEW f, NEW k0, NEW tok, StackStep(n, f, k0, tok), NEW e, NEW id, NEW c, NEW toks,
         OwnersMove(n, f, k0, tok, e, id), CacheMoves(id, c, toks),
         \A i \in DOMAIN map.vars : Exists(map', i),
         id # NoString => Exists(map', id) /\ Unclaimed(id),
         toks = {} \/ (n <= Len(frames) /\ Destroys(n, f, e, toks))
  PROVE  ClaimsApart'
<1>1. /\ \A a \in Claimants' : a # e /\ Claim(a)' # NoString => a \in Claimants /\ Claim(a)' = Claim(a)
      /\ e \in Claimants' => Claim(e)' \in {id, NoString}
  BY StackClaims
<1>2. \A a \in Claimants : Claim(a) # NoString => Exists(map', Claim(a))
  BY DEF ClaimsApart, Exists
<1>3. ClaimsMove(e, id)
  BY <1>1, <1>2 DEF ClaimsMove
<1>4. ClaimsEnd(e, toks)
  <2>1. CASE toks = {}
    BY <2>1 DEF ClaimsEnd
  <2>2. CASE n <= Len(frames) /\ Destroys(n, f, e, toks)
    BY <2>2, Destroyed
  <2>. QED  BY <2>1, <2>2
<1>. QED  BY <1>3, <1>4, ClaimsStep

LEMMA ReleasedFits ==
  ASSUME NEW m, NEW c, CacheFits(m, c), NEW toks, NEW d, d = Released(c, toks)
  PROVE  CacheFits(m, d) /\ d \in Caches /\ d.id = c.id /\ (toks = {} => d = c)
BY DEF Released, CacheFits, Caches

LEMMA NothingReleased ==
  ASSUME NEW c \in Caches
  PROVE  Released(c, {}) = c
BY DEF Released, Caches

LEMMA LinesBelow ==
  ASSUME frames \in Seq(Frames), LinesFit, NEW n, n <= Len(frames), n \in Nat
  PROVE  \A i \in 1 .. n - 1 : frames[i].line.kind # "none"
<1>1. Len(frames) \in Nat
  BY StackFacts
<1>2. \A i \in 1 .. n - 1 : i \in 1 .. Len(frames) - 1
  BY <1>1
<1>. QED  BY <1>2 DEF LinesFit

(***************************************************************************)
(* The variables of functions that are no more are temporary ones in m.    *)
(***************************************************************************)
GivenUp(m) ==
  /\ map.tempIDs \subseteq m.tempIDs
  /\ \A i \in DOMAIN frames :
       \/ frames[i].local = NoString \/ frames[i].local \in m.tempIDs
       \/ i \in DOMAIN frames' /\ frames'[i].local = frames[i].local
  /\ \A x \in Variables : data[x] # NoString => data[x] \notin m.tempIDs

(***************************************************************************)
(* A step that writes to no string and to no variable.                     *)
(***************************************************************************)
LEMMA PlainStep ==
  ASSUME Inv, NEW n, n \in DOMAIN frames, NEW f, NEW k0, NEW tok, StackStep(n, f, k0, tok),
         MapFits(map'), map'.vars = map.vars, GivenUp(map'), data' = data,
         NEW toks, cache' = Released(cache, toks),
         Destroys(n, f, <<"operand", n, k0>>, toks),
         f.local \in {frames[n].local, NoString}, LineFits(data, f),
         k0 \in DOMAIN f.line.ops => ~tok.rvalue /\ (tok.id # NoString => Exists(map, tok.id))
  PROVE  Inv'
<1>0. /\ frames \in Seq(Frames) /\ CacheFits(map, cache) /\ MapFits(map) /\ data \in [Variables -> 0 .. MaxID]
      /\ ClaimsApart /\ LinesFit /\ OperandsFit /\ QuestsFit /\ LeftFit
  BY DEF Inv, Typed
<1>1. CacheFits(map', cache') /\ cache'.id = cache.id /\ cache \in Caches
  <2>1. CacheFits(map', cache)
    BY <1>0 DEF CacheFits, Exists
  <2>. QED  BY <2>1, ReleasedFits DEF CacheFits
<1>2. Typed'
  BY <1>0, <1>1 DEF Typed, StackStep
<1>3. n \in Nat /\ n <= Len(frames)
  <2>1. Len(frames) \in Nat /\ DOMAIN frames = 1 .. Len(frames)
    BY <1>0, StackFacts
  <2>. QED  BY <2>1
<1>. DEFINE e == <<"operand", n, k0>>
<1>4. ClaimsApart'
  <2>1. OwnersMove(n, f, k0, tok, e, NoString)
    BY <1>0, <1>3 DEF OwnersMove
  <2>2. CacheMoves(NoString, cache, toks)
    BY <1>1 DEF CacheMoves
  <2>3. \A i \in DOMAIN map.vars : Exists(map', i)
    BY DEF Exists
  <2>. HIDE DEF e
  <2>4. toks = {} \/ (n <= Len(frames) /\ Destroys(n, f, e, toks))
    BY <1>3 DEF e
  <2>. QED  BY <1>0, <2>1, <2>2, <2>3, <2>4, StepClaims
<1>5. LinesFit'
  <2>1. \A i \in 1 .. n - 1 : frames[i].line.kind # "none"
    BY <1>0, <1>3, LinesBelow
  <2>. QED  BY <1>0, <2>1, LinesStep
<1>6. OperandsFit'
  <2>1. \A i \in DOMAIN frames : \A k \in DOMAIN frames[i].line.ops : Kept(frames[i].line.ops[k])
    BY <1>0, <1>1, KeptOperands DEF Exists
  <2>2. k0 \in DOMAIN f.line.ops => OperandFits(map', cache', tok, f.mod)
    BY DEF OperandFits, Exists
  <2>. QED  BY <1>0, <2>1, <2>2, OperandsStep
<1>7. QuestsFit'
  BY <1>0 DEF QuestsFit, GivenUp
<1>8. LeftFit'
  <2>. SUFFICES ASSUME NEW id \in DOMAIN map'.vars, id \notin map'.tempIDs \cup {cache'.id}
                PROVE  \/ \E x \in Variables : data'[x] = id
                       \/ \E i \in DOMAIN frames' : frames'[i].local = id
    BY DEF LeftFit
  <2>1. id \in DOMAIN map.vars /\ id \notin map.tempIDs /\ id # cache.id
    BY <1>1 DEF GivenUp
  <2>2. id # NoString
    BY <1>0, <2>1 DEF MapFits, NoString
  <2>3. (\E x \in Variables : data[x] = id) \/ \E i \in DOMAIN frames : frames[i].local = id
    BY <1>0, <2>1 DEF LeftFit
  <2>. QED  BY <2>2, <2>3 DEF GivenUp
<1>. QED  BY <1>2, <1>4, <1>5, <1>6, <1>7, <1>8 DEF Inv

LEMMA QuietStep ==
  ASSUME Inv, NEW n, n = Len(frames), n \in DOMAIN frames, NEW f, NEW k0, NEW tok, StackStep(n, f, k0, tok),
         map' = map, data' = data, NEW toks, cache' = Released(cache, toks),
         Destroys(n, f, <<"operand", n, k0>>, toks),
         \/ f.local = frames[n].local
         \/ f.local = NoString /\ frames[n].local \in map.tempIDs \cup {NoString},
         LineFits(data, f),
         k0 \in DOMAIN f.line.ops => ~tok.rvalue /\ (tok.id # NoString => Exists(map, tok.id))
  PROVE  Inv'
<1>1. DOMAIN frames = 1 .. n /\ n \in Nat
  BY StackFacts DEF Inv, Typed
<1>2. DOMAIN frames' = 1 .. n /\ frames'[n] = f /\ \A i \in 1 .. n - 1 : frames'[i] = frames[i]
  BY StackFacts DEF StackStep
<1>3. \A i \in DOMAIN frames : \/ i \in DOMAIN frames' /\ frames'[i].local = frames[i].local
                               \/ frames[i].local \in map.tempIDs \cup {NoString}
  BY <1>1, <1>2
<1>4. GivenUp(map')
  BY <1>3 DEF GivenUp, Inv, QuestsFit
<1>5. MapFits(map') /\ map'.vars = map.vars
  BY DEF Inv, Typed
<1>. QED  BY <1>4, <1>5, PlainStep

(***************************************************************************)
(* Frames that scripts make of the top one: an operand more, the line      *)
(* done, a new script.                                                     *)
(***************************************************************************)
LEMMA PushFacts ==
  ASSUME NEW g \in Frames, NEW tok \in Tokens, NEW f, f = Push(g, tok), NEW k0, k0 = Len(g.line.ops) + 1
  PROVE  /\ f \in Frames /\ f.mod = g.mod /\ f.local = g.local
         /\ f.line.kind = g.line.kind /\ f.line.target = g.line.target /\ f.line.lhs = g.line.lhs
         /\ k0 \in DOMAIN f.line.ops /\ f.line.ops[k0] = tok
         /\ \A k \in DOMAIN f.line.ops : k # k0 => k \in DOMAIN g.line.ops /\ f.line.ops[k] = g.line.ops[k]
         /\ DOMAIN g.line.ops \subseteq DOMAIN f.line.ops
<1>. PICK ops \in Seq(Tokens) : ops = g.line.ops
  BY FrameFacts
<1>. PICK new : new = Append(ops, tok)
  OBVIOUS
<1>1. /\ new \in Seq(Tokens) /\ Len(new) = k0 /\ new[k0] = tok
      /\ \A i \in 1 .. Len(ops) : new[i] = ops[i]
  BY AppendProperties
<1>2. DOMAIN new = 1 .. k0 /\ DOMAIN ops = 1 .. Len(ops) /\ Len(ops) \in Nat
  BY <1>1, LenProperties
<1>3. /\ f \in Frames /\ f.mod = g.mod /\ f.local = g.local /\ f.line.ops = new
      /\ f.line.kind = g.line.kind /\ f.line.target = g.line.target /\ f.line.lhs = g.line.lhs
  BY <1>1 DEF Push, Frames, Lines
<1>. QED  BY <1>1, <1>2, <1>3

LEMMA NoLineFits ==
  ASSUME NEW g \in Frames, NEW f, f = [g EXCEPT !.line = NoLine]
  PROVE  /\ f \in Frames /\ f.mod = g.mod /\ f.local = g.local /\ f.line = NoLine /\ DOMAIN f.line.ops = {}
         /\ f.line.ops = <<>> /\ \A d : LineFits(d, f)
<1>1. NoLine \in Lines /\ NoLine.ops = <<>> /\ NoLine.kind = "none" /\ NoLine.lhs = NoString
  BY EmptySeq, ConstantsAssumption DEF NoLine, Line, Lines, NoString, ConstantsAssumption
<1>2. f \in Frames /\ f.mod = g.mod /\ f.local = g.local /\ f.line = NoLine
  BY <1>1 DEF Frames
<1>. QED  BY <1>1, <1>2 DEF LineFits

LEMMA NewScriptFits ==
  ASSUME NEW mod \in Mods, NEW id \in 0 .. MaxID, NEW f, f = [mod |-> mod, local |-> id, line |-> NoLine]
  PROVE  /\ f \in Frames /\ f.mod = mod /\ f.local = id /\ f.line = NoLine /\ DOMAIN f.line.ops = {}
         /\ f.line.ops = <<>> /\ \A d : LineFits(d, f)
<1>1. NoLine \in Lines /\ NoLine.ops = <<>> /\ NoLine.kind = "none" /\ NoLine.lhs = NoString
  BY EmptySeq, ConstantsAssumption DEF NoLine, Line, Lines, NoString, ConstantsAssumption
<1>. QED  BY <1>1 DEF Frames, LineFits

(***************************************************************************)
(* Parts of a list of operands.                                            *)
(***************************************************************************)
LEMMA FirstOnes ==
  ASSUME NEW T, NEW s \in Seq(T), NEW j \in Nat, j <= Len(s), NEW r, r = SubSeq(s, 1, j)
  PROVE  r \in Seq(T) /\ Len(r) = j /\ DOMAIN r = 1 .. j /\ \A i \in 1 .. j : r[i] = s[i] /\ i \in DOMAIN s
<1>1. Len(s) \in Nat /\ DOMAIN s = 1 .. Len(s) /\ \A i \in DOMAIN s : s[i] \in T
  BY LenProperties
<1>2. \A i \in 1 .. j : i \in DOMAIN s /\ s[i] \in T
  BY <1>1
<1>3. /\ SubSeq(s, 1, j) \in Seq(T)
      /\ Len(SubSeq(s, 1, j)) = IF 1 <= j THEN j - 1 + 1 ELSE 0
      /\ \A i \in 1 .. j - 1 + 1 : SubSeq(s, 1, j)[i] = s[1 + i - 1]
  BY <1>2, SubSeqProperties
<1>4. j - 1 + 1 = j /\ (1 <= j \/ j = 0) /\ \A i \in 1 .. j : 1 + i - 1 = i
  OBVIOUS
<1>5. r \in Seq(T) /\ Len(r) = j /\ \A i \in 1 .. j : r[i] = s[i] /\ i \in DOMAIN s
  BY <1>2, <1>3, <1>4
<1>. QED  BY <1>5, LenProperties

LEMMA LastTwo ==
  ASSUME NEW T, NEW s \in Seq(T), NEW j \in Nat, Len(s) = j + 2, NEW r, r = SubSeq(s, j + 1, j + 2)
  PROVE  \A u \in Range(r) : u = s[j + 1] \/ u = s[j + 2]
<1>1. DOMAIN s = 1 .. j + 2 /\ \A i \in 1 .. j + 2 : s[i] \in T
  BY LenProperties
<1>2. /\ r \in Seq(T)
      /\ Len(r) = IF j + 1 <= j + 2 THEN (j + 2) - (j + 1) + 1 ELSE 0
      /\ \A i \in 1 .. (j + 2) - (j + 1) + 1 : r[i] = s[(j + 1) + i - 1]
  <2>1. \A i \in j + 1 .. j + 2 : s[i] \in T
    BY <1>1
  <2>. QED  BY <2>1, SubSeqProperties
<1>3. (j + 2) - (j + 1) + 1 = 2 /\ j + 1 <= j + 2 /\ (j + 1) + 1 - 1 = j + 1 /\ (j + 1) + 2 - 1 = j + 2
  OBVIOUS
<1>4. DOMAIN r = 1 .. 2 /\ r[1] = s[j + 1] /\ r[2] = s[j + 2]
  <2>1. Len(r) = 2 /\ \A i \in 1 .. 2 : r[i] = s[(j + 1) + i - 1]
    BY <1>2, <1>3
  <2>2. DOMAIN r = 1 .. 2
    BY <1>2, <2>1, LenProperties
  <2>. QED  BY <1>3, <2>1, <2>2
<1>. QED  BY <1>4 DEF Range

WithLiteral(ops, tok) == Append(SubSeq(ops, 1, Len(ops) - 2), tok)
LastTwoOf(ops) == SubSeq(ops, Len(ops) - 1, Len(ops))
HasTwo(ops) == Len(ops) >= 2
LiteralAt(k0, ops, new, tok, toks) ==
  /\ k0 \in DOMAIN new /\ new[k0] = tok
  /\ \A k \in DOMAIN new : k # k0 => k \in DOMAIN ops /\ new[k] = ops[k]
  /\ \A u \in toks : \E k \in DOMAIN ops : u = ops[k] /\ (k = k0 \/ k \notin DOMAIN new)

LEMMA LiteralForTwo ==
  ASSUME NEW ops \in Seq(Tokens), HasTwo(ops), NEW tok \in Tokens,
         NEW new, new = WithLiteral(ops, tok), NEW toks, toks = Range(LastTwoOf(ops))
  PROVE  new \in Seq(Tokens) /\ \E k0 : LiteralAt(k0, ops, new, tok, toks)
<1>. PICK j \in Nat : Len(ops) = j + 2
  <2>1. Len(ops) \in Nat /\ Len(ops) - 2 \in Nat /\ Len(ops) = (Len(ops) - 2) + 2
    BY LenProperties DEF HasTwo
  <2>. QED  BY <2>1
<1>. PICK k0 : k0 = j + 1
  OBVIOUS
<1>1. DOMAIN ops = 1 .. j + 2 /\ j <= Len(ops)
  BY LenProperties
<1>2. Len(ops) - 2 = j /\ Len(ops) - 1 = j + 1
  OBVIOUS
<1>. PICK rest : rest = SubSeq(ops, 1, j)
  OBVIOUS
<1>3. rest \in Seq(Tokens) /\ Len(rest) = j /\ \A i \in 1 .. j : rest[i] = ops[i]
  BY <1>1, FirstOnes
<1>4. new = Append(rest, tok)
  BY <1>2 DEF WithLiteral
<1>5. new \in Seq(Tokens) /\ Len(new) = j + 1 /\ new[j + 1] = tok /\ \A i \in 1 .. j : new[i] = ops[i]
  BY <1>3, <1>4, AppendProperties
<1>6. DOMAIN new = 1 .. j + 1
  BY <1>5, LenProperties
<1>7. \A k \in DOMAIN new : k # k0 => k \in DOMAIN ops /\ new[k] = ops[k]
  BY <1>1, <1>5, <1>6
<1>8. \A u \in toks : u = ops[j + 1] \/ u = ops[j + 2]
  <2>. PICK r : r = SubSeq(ops, j + 1, j + 2)
    OBVIOUS
  <2>1. toks = Range(r)
    BY <1>2 DEF LastTwoOf
  <2>. QED  BY <2>1, LastTwo
<1>9. j + 1 \in DOMAIN ops /\ j + 2 \in DOMAIN ops /\ j + 2 \notin DOMAIN new /\ j + 1 \in DOMAIN new
  BY <1>1, <1>6
<1>10. LiteralAt(k0, ops, new, tok, toks)
  BY <1>5, <1>7, <1>8, <1>9 DEF LiteralAt
<1>. QED  BY <1>5, <1>10

-----------------------------------------------------------------------------
\* The actions.

(***************************************************************************)
(* What the invariant says of the top frame, and of the variables it sees. *)
(***************************************************************************)
LEMMA TopFacts ==
  ASSUME Inv, frames # <<>>, NEW n, n = Len(frames), NEW f, f = Top
  PROVE  /\ n \in Nat \ {0} /\ n \in DOMAIN frames /\ f = frames[n] /\ f \in Frames /\ LineFits(data, f)
         /\ Top = f /\ DOMAIN frames = 1 .. n
         /\ \A k \in DOMAIN f.line.ops : OperandFits(map, cache, f.line.ops[k], f.mod)
         /\ \A x \in Variables \cup {Local} :
              Value(x) \in 0 .. MaxID /\ (Value(x) # NoString => Exists(map, Value(x)))
         /\ \A x \in Variables : Value(x) = data[x]
         /\ Value(Local) = f.local
<1>1. frames \in Seq(Frames) /\ data \in [Variables -> 0 .. MaxID] /\ ClaimsApart /\ LinesFit /\ OperandsFit
  BY DEF Inv, Typed
<1>2. n \in Nat \ {0} /\ n \in DOMAIN frames /\ f = frames[n] /\ f \in Frames /\ DOMAIN frames = 1 .. n
  BY <1>1, TopIs, StackFacts DEF Top
<1>3. \A x \in Variables : Value(x) = data[x]
  BY ConstantsAssumption DEF Value, Held, ConstantsAssumption
<1>4. Value(Local) = f.local /\ f.local \in 0 .. MaxID
  BY <1>2, FrameFacts DEF Value, Held
<1>5. /\ \A x \in Variables : data[x] # NoString => Exists(map, data[x])
      /\ f.local # NoString => Exists(map, f.local)
  BY <1>1, <1>2, ClaimsAre
<1>6. \A k \in DOMAIN f.line.ops : OperandFits(map, cache, f.line.ops[k], f.mod)
  BY <1>1, <1>2 DEF OperandsFit
<1>. QED  BY <1>1, <1>2, <1>3, <1>4, <1>5, <1>6 DEF LinesFit

LEMMA BeginLineStep ==
  ASSUME Inv, Careful, BeginLine
  PROVE  Inv'
<1>. PICK n, g : n = Len(frames) /\ g = Top
  OBVIOUS
<1>0. frames # <<>> /\ Top.line.kind = "none"
  BY DEF BeginLine
<1>1. /\ n \in Nat \ {0} /\ n \in DOMAIN frames /\ g = frames[n] /\ g \in Frames /\ LineFits(data, g)
      /\ \A x \in Variables \cup {Local} : Value(x) \in 0 .. MaxID
      /\ \A x \in Variables : Value(x) = data[x]
      /\ Value(Local) = g.local
  BY <1>0, TopFacts
<1>2. ASSUME NEW line \in Lines, line.ops = <<>>, frames' = Append(Front(frames), [Top EXCEPT !.line = line]),
             LineFits(data, [g EXCEPT !.line = line])
      PROVE  Inv'
  <2>. PICK f : f = [g EXCEPT !.line = line]
    OBVIOUS
  <2>1. f \in Frames /\ f.mod = g.mod /\ f.local = g.local /\ f.line = line /\ DOMAIN f.line.ops = {}
    BY <1>1, <1>2 DEF Frames
  <2>2. StackStep(n, f, 0, 0)
    BY <1>0, <1>1, <1>2, <2>1, TopStep DEF Inv, Typed
  <2>3. cache' = Released(cache, {})
    BY ReleasedFits DEF BeginLine, Inv, Typed
  <2>4. Destroys(n, f, <<"operand", n, 0>>, {})
    BY DEF Destroys
  <2>5. map' = map /\ data' = data
    BY DEF BeginLine
  <2>6. LineFits(data, f)
    BY <1>2
  <2>. QED  BY <1>1, <2>1, <2>2, <2>3, <2>4, <2>5, <2>6, QuietStep
<1>3. ASSUME NEW x \in Variables \cup {Local}, OwnVariable(x),
             frames' = Append(Front(frames), [Top EXCEPT !.line = Line("let", x, Value(x))])
      PROVE  Inv'
  <2>. PICK line : line = Line("let", x, Value(x))
    OBVIOUS
  <2>1. line.kind = "let" /\ line.target = x /\ line.lhs = Value(x) /\ line.ops = <<>> /\ line \in Lines
    BY <1>1, EmptySeq DEF Line, Lines
  <2>2. LineFits(data, [g EXCEPT !.line = line])
    <3>. PICK f : f = [g EXCEPT !.line = line]
      OBVIOUS
    <3>1. f.line = line /\ f.mod = g.mod /\ f.local = g.local
      BY <1>1 DEF Frames
    <3>2. x \in Variables => x # Local
      BY ConstantsAssumption DEF ConstantsAssumption
    <3>3. LineFits(data, f)
      BY <1>1, <1>3, <2>1, <3>1, <3>2 DEF LineFits, OwnVariable
    <3>. QED  BY <3>3
  <2>. QED  BY <1>2, <1>3, <2>1, <2>2
<1>4. ASSUME NEW x \in Variables \cup {Local, Nothing},
             frames' = Append(Front(frames), [Top EXCEPT !.line = Line("call", x, NoString)])
      PROVE  Inv'
  <2>. PICK line : line = Line("call", x, NoString)
    OBVIOUS
  <2>1. line.kind = "call" /\ line.target = x /\ line.lhs = NoString /\ line.ops = <<>> /\ line \in Lines
    BY EmptySeq, ConstantsAssumption DEF Line, Lines, NoString, ConstantsAssumption
  <2>2. LineFits(data, [g EXCEPT !.line = line])
    <3>. PICK f : f = [g EXCEPT !.line = line]
      OBVIOUS
    <3>1. f.line = line
      BY <1>1 DEF Frames
    <3>2. LineFits(data, f)
      BY <2>1, <3>1 DEF LineFits
    <3>. QED  BY <3>2
  <2>. QED  BY <1>2, <1>4, <2>1, <2>2
<1>. QED  BY <1>3, <1>4 DEF BeginLine

LEMMA OperandStep ==
  ASSUME Inv, Operand
  PROVE  Inv'
<1>. PICK n, g : n = Len(frames) /\ g = Top
  OBVIOUS
<1>0. frames # <<>> /\ Top.line.kind # "none"
  BY DEF Operand, Evaluating
<1>1. /\ n \in Nat \ {0} /\ n \in DOMAIN frames /\ g = frames[n] /\ g \in Frames /\ LineFits(data, g)
      /\ \A x \in Variables \cup {Local} :
           Value(x) \in 0 .. MaxID /\ (Value(x) # NoString => Exists(map, Value(x)))
  BY <1>0, TopFacts
<1>2. ASSUME NEW tok \in Tokens, tok.rvalue = FALSE, tok.id # NoString => Exists(map, tok.id),
             frames' = Append(Front(frames), Push(Top, tok))
      PROVE  Inv'
  <2>. PICK f : f = Push(g, tok)
    OBVIOUS
  <2>. PICK k0 : k0 = Len(g.line.ops) + 1
    OBVIOUS
  <2>1. /\ f \in Frames /\ f.mod = g.mod /\ f.local = g.local
        /\ f.line.kind = g.line.kind /\ f.line.target = g.line.target /\ f.line.lhs = g.line.lhs
        /\ k0 \in DOMAIN f.line.ops /\ f.line.ops[k0] = tok
        /\ \A k \in DOMAIN f.line.ops : k # k0 => k \in DOMAIN g.line.ops /\ f.line.ops[k] = g.line.ops[k]
        /\ DOMAIN g.line.ops \subseteq DOMAIN f.line.ops
    BY <1>1, PushFacts
  <2>2. StackStep(n, f, k0, tok)
    BY <1>0, <1>1, <1>2, <2>1, TopStep DEF Inv, Typed
  <2>3. cache' = Released(cache, {})
    BY ReleasedFits DEF Operand, Inv, Typed
  <2>4. Destroys(n, f, <<"operand", n, k0>>, {})
    BY DEF Destroys
  <2>5. map' = map /\ data' = data
    BY DEF Operand
  <2>6. LineFits(data, f)
    BY <1>0, <1>1, <2>1 DEF LineFits
  <2>. QED  BY <1>1, <1>2, <2>1, <2>2, <2>3, <2>4, <2>5, <2>6, QuietStep
<1>3. ASSUME NEW x \in Variables \cup {Local}, Value(x) # NoString,
             frames' = Append(Front(frames), Push(Top, Token(Value(x), FALSE, NoText)))
      PROVE  Inv'
  <2>. PICK tok : tok = Token(Value(x), FALSE, NoText)
    OBVIOUS
  <2>1. tok \in Tokens /\ tok.rvalue = FALSE /\ tok.id = Value(x)
    BY <1>1 DEF Token, Tokens, StringTexts
  <2>. QED  BY <1>1, <1>2, <1>3, <2>1
<1>4. ASSUME NEW t \in Texts, frames' = Append(Front(frames), Push(Top, Token(NoString, FALSE, t)))
      PROVE  Inv'
  <2>. PICK tok : tok = Token(NoString, FALSE, t)
    OBVIOUS
  <2>1. tok \in Tokens /\ tok.rvalue = FALSE /\ tok.id = NoString
    BY ConstantsAssumption DEF Token, Tokens, StringTexts, NoString, ConstantsAssumption
  <2>. QED  BY <1>2, <1>4, <2>1
<1>. QED  BY <1>3, <1>4 DEF Operand

(***************************************************************************)
(* An operator pops two operands and pushes their literal.                 *)
(***************************************************************************)
LEMMA OperatorStep ==
  ASSUME Inv, Operator
  PROVE  Inv'
<1>. PICK n, g, ops : n = Len(frames) /\ g = Top /\ ops = g.line.ops
  OBVIOUS
<1>0. frames # <<>> /\ Top.line.kind # "none" /\ Len(ops) >= 2
  BY DEF Operator, Evaluating
<1>1. n \in Nat \ {0} /\ n \in DOMAIN frames /\ g = frames[n] /\ g \in Frames /\ LineFits(data, g)
  BY <1>0, TopFacts
<1>2. PICK t \in Texts :
         frames' = Append(Front(frames), [g EXCEPT !.line.ops = WithLiteral(ops, Token(NoString, FALSE, t))])
  BY DEF Operator, WithLiteral
<1>. PICK tok : tok = Token(NoString, FALSE, t)
  OBVIOUS
<1>3. tok \in Tokens /\ tok.rvalue = FALSE /\ tok.id = NoString
  BY ConstantsAssumption DEF Token, Tokens, StringTexts, NoString, ConstantsAssumption
<1>4. PICK new, toks : new = WithLiteral(ops, tok) /\ toks = Range(LastTwoOf(ops))
  OBVIOUS
<1>5. ops \in Seq(Tokens) /\ HasTwo(ops)
  BY <1>0, <1>1, FrameFacts DEF HasTwo
<1>6. new \in Seq(Tokens) /\ \E k0 : LiteralAt(k0, ops, new, tok, toks)
  BY <1>3, <1>4, <1>5, LiteralForTwo
<1>a. PICK k0 : LiteralAt(k0, ops, new, tok, toks)
  BY <1>6
<1>. PICK f : f = [g EXCEPT !.line.ops = new]
  OBVIOUS
<1>7. /\ f \in Frames /\ f.mod = g.mod /\ f.local = g.local /\ f.line.ops = new
      /\ f.line.kind = g.line.kind /\ f.line.target = g.line.target /\ f.line.lhs = g.line.lhs
  BY <1>1, <1>6 DEF Frames, Lines
<1>8. StackStep(n, f, k0, tok)
  <2>1. \A k \in DOMAIN f.line.ops :
            IF k = k0 THEN f.line.ops[k] = tok
            ELSE k \in DOMAIN Top.line.ops /\ f.line.ops[k] = Top.line.ops[k]
    BY <1>a, <1>7 DEF LiteralAt
  <2>2. frames' = Append(Front(frames), f)
    BY <1>2, <1>4
  <2>. QED  BY <1>0, <1>1, <1>7, <2>1, <2>2, TopStep DEF Inv, Typed
<1>9. Destroys(n, f, <<"operand", n, k0>>, toks)
  BY <1>1, <1>a, <1>7 DEF Destroys, LiteralAt
<1>10. map' = map /\ data' = data /\ cache' = Released(cache, toks)
  BY <1>4 DEF Operator, LastTwoOf
<1>11. LineFits(data, f)
  BY <1>0, <1>1, <1>7 DEF LineFits
<1>. QED  BY <1>1, <1>3, <1>7, <1>8, <1>9, <1>10, <1>11, QuietStep

(***************************************************************************)
(* Frame n, whose line g had, ends it and stores id in its variable x.     *)
(***************************************************************************)
Ended(n, g, x, id, f, toks) ==
  /\ n \in DOMAIN frames /\ g = frames[n] /\ g \in Frames
  /\ f \in Frames /\ f.mod = g.mod /\ f.line = NoLine /\ DOMAIN f.line.ops = {}
  /\ f.local = IF x = Local THEN id ELSE g.local
  /\ StackStep(n, f, 0, 0)
  /\ data' = IF x \in Variables THEN [data EXCEPT ![x] = id] ELSE data
  /\ \A e : Destroys(n, f, e, toks)

StoredIn(below, x, id, g, f) ==
  /\ f \in Frames
  /\ f.mod = g.mod /\ f.line = g.line /\ f.local = IF x = Local THEN id ELSE g.local
  /\ frames' = Append(below, f)
  /\ data' = IF x \in Variables THEN [data EXCEPT ![x] = id] ELSE data

LEMMA StoreInFacts ==
  ASSUME NEW below, NEW x, NEW id \in 0 .. MaxID, NEW g \in Frames, StoreIn(below, x, id, g)
  PROVE  \E f : StoredIn(below, x, id, g, f)
<1>1. x \in Variables => x # Local
  BY ConstantsAssumption DEF ConstantsAssumption
<1>2. CASE x = Local
  <2>. PICK f : f = [g EXCEPT !.local = id]
    OBVIOUS
  <2>1. f \in Frames /\ f.mod = g.mod /\ f.line = g.line /\ f.local = id
    BY DEF Frames
  <2>2. frames' = Append(below, f) /\ data' = data /\ x \notin Variables
    BY <1>1, <1>2 DEF StoreIn
  <2>3. StoredIn(below, x, id, g, f)
    BY <1>2, <2>1, <2>2 DEF StoredIn
  <2>. QED  BY <2>3
<1>3. CASE x # Local
  <2>1. StoredIn(below, x, id, g, g)
    BY <1>3 DEF StoreIn, StoredIn
  <2>. QED  BY <2>1
<1>. QED  BY <1>2, <1>3

\* Of the top frame, with a line or between two.
LEMMA TopEnds ==
  ASSUME Inv, frames # <<>>, NEW x, NEW id \in 0 .. MaxID, Store(x, id, [Top EXCEPT !.line = NoLine]),
         NEW n, n = Len(frames), NEW g, g = Top, NEW toks, toks \subseteq Range(g.line.ops)
  PROVE  \E f : Ended(n, g, x, id, f, toks)
<1>1. n \in Nat \ {0} /\ n \in DOMAIN frames /\ g = frames[n] /\ g \in Frames /\ frames \in Seq(Frames)
  BY TopFacts DEF Inv, Typed
<1>. PICK h : h = [g EXCEPT !.line = NoLine]
  OBVIOUS
<1>2. h \in Frames /\ h.mod = g.mod /\ h.local = g.local /\ h.line = NoLine /\ NoLine.ops = <<>>
  BY <1>1, NoLineFits
<1>. PICK below : below = Front(frames)
  OBVIOUS
<1>a. PICK f : StoredIn(below, x, id, h, f)
  <2>1. StoreIn(below, x, id, h)
    BY DEF Store, StoreIn
  <2>. QED  BY <1>2, <2>1, StoreInFacts
<1>3. /\ f \in Frames /\ f.mod = h.mod /\ f.line = h.line /\ f.local = IF x = Local THEN id ELSE h.local
      /\ frames' = Append(below, f)
      /\ data' = IF x \in Variables THEN [data EXCEPT ![x] = id] ELSE data
  BY <1>a DEF StoredIn
<1>4. DOMAIN f.line.ops = {}
  BY <1>2, <1>3, EmptySeq
<1>5. StackStep(n, f, 0, 0)
  BY <1>1, <1>2, <1>3, <1>4, TopStep
<1>6. \A e : Destroys(n, f, e, toks)
  BY <1>1, <1>4 DEF Destroys, Range
<1>. QED  BY <1>1, <1>2, <1>3, <1>4, <1>5, <1>6 DEF Ended

(***************************************************************************)
(* A line ends without a result: `set' gives 0 to a variable that has no   *)
(* string, or a temporary one.                                             *)
(***************************************************************************)
LEMMA EndLineStep ==
  ASSUME Inv, Careful, EndLine
  PROVE  Inv'
<1>. PICK n, g, x, toks : n = Len(frames) /\ g = Top /\ x = SetBy(g.line) /\ toks = Range(g.line.ops)
  OBVIOUS
<1>0. frames # <<>> /\ Unset(g, x, map) /\ Store(x, NoString, [g EXCEPT !.line = NoLine])
      /\ map' = map /\ cache' = Released(cache, toks)
  BY DEF EndLine, Evaluating
<1>1. n \in DOMAIN frames /\ data \in [Variables -> 0 .. MaxID] /\ NoString \in 0 .. MaxID
  BY <1>0, TopFacts, ConstantsAssumption DEF Inv, Typed, NoString, ConstantsAssumption
<1>2. PICK f : Ended(n, g, x, NoString, f, toks)
  BY <1>0, <1>1, TopEnds
<1>3. x \in Variables => x # Local
  BY ConstantsAssumption DEF ConstantsAssumption
<1>4. data' = data
  BY <1>0, <1>1, <1>2, <1>3 DEF Ended, Unset, Held
<1>5. \/ f.local = frames[n].local
      \/ f.local = NoString /\ frames[n].local \in map.tempIDs \cup {NoString}
  BY <1>0, <1>2 DEF Ended, Unset, Held
<1>6. /\ StackStep(n, f, 0, 0) /\ LineFits(data, f) /\ DOMAIN f.line.ops = {}
      /\ Destroys(n, f, <<"operand", n, 0>>, toks)
  BY <1>2, NoLineFits DEF Ended, LineFits, NoLine, Line
<1>. QED  BY <1>0, <1>1, <1>4, <1>5, <1>6, QuietStep

(***************************************************************************)
(* A script starts, with a string of its own for its argument or none.     *)
(***************************************************************************)
LEMMA NewScript ==
  ASSUME Inv, cache' = cache, data' = data, NEW mod \in Mods, NEW id \in 0 .. MaxID,
         frames' = Append(frames, [mod |-> mod, local |-> id, line |-> NoLine]),
         \A i \in DOMAIN frames : frames[i].line.kind # "none",
         \/ id = NoString /\ map' = map
         \/ /\ Fits(map) /\ id = GetUnusedID(map)
            /\ \E text \in StringTexts : map' = Added(map, [text |-> text, owner |-> mod], TRUE)
  PROVE  Inv'
<1>0. /\ frames \in Seq(Frames) /\ CacheFits(map, cache) /\ MapFits(map) /\ data \in [Variables -> 0 .. MaxID]
      /\ ClaimsApart /\ LinesFit /\ OperandsFit /\ QuestsFit /\ LeftFit
  BY DEF Inv, Typed
<1>1. /\ MapFits(map') /\ CacheFits(map', cache')
      /\ \A i \in DOMAIN map.vars : i \in DOMAIN map'.vars /\ map'.vars[i] = map.vars[i]
      /\ DOMAIN map'.vars \subseteq DOMAIN map.vars \cup {id}
      /\ map.tempIDs \subseteq map'.tempIDs /\ map'.tempIDs \subseteq map.tempIDs \cup {id}
      /\ id # NoString => id \in DOMAIN map'.vars /\ id \notin DOMAIN map.vars
  <2>1. CASE id = NoString /\ map' = map
    BY <1>0, <2>1
  <2>2. ASSUME Fits(map), id = GetUnusedID(map), NEW text \in StringTexts,
               map' = Added(map, [text |-> text, owner |-> mod], TRUE)
        PROVE  <1>1!:
    <3>. PICK string, temps : string = [text |-> text, owner |-> mod] /\ temps = map.tempIDs \cup {id}
      OBVIOUS
    <3>1. string \in Strings
      BY DEF Strings
    <3>2. map' = WithString(map, string, temps)
      BY <2>2, AddedIsWithString
    <3>. PICK n : n = WithString(map, string, temps)
      OBVIOUS
    <3>a. temps \subseteq map.tempIDs \cup {GetUnusedID(map)} /\ MapFits(map) /\ Fits(map)
      BY <1>0, <2>2
    <3>b. /\ MapFits(n) /\ DOMAIN n.vars = DOMAIN map.vars \cup {id}
          /\ \A i \in DOMAIN map.vars : n.vars[i] = map.vars[i]
          /\ n.tempIDs = temps
      BY <2>2, <3>1, <3>a, AddedProperties
    <3>3. /\ MapFits(map') /\ DOMAIN map'.vars = DOMAIN map.vars \cup {id}
          /\ \A i \in DOMAIN map.vars : map'.vars[i] = map.vars[i]
          /\ map'.tempIDs = temps
      BY <3>2, <3>b
    <3>4. id \notin DOMAIN map.vars
      BY <1>0, <2>2, FreshID
    <3>5. CacheFits(map', cache')
      BY <1>0, <3>3 DEF CacheFits, Exists
    <3>. QED  BY <3>3, <3>4, <3>5
  <2>. QED  BY <2>1, <2>2
<1>. PICK n, f : n = Len(frames) + 1 /\ f = [mod |-> mod, local |-> id, line |-> NoLine]
  OBVIOUS
<1>2. /\ f \in Frames /\ f.mod = mod /\ f.local = id /\ f.line = NoLine /\ DOMAIN f.line.ops = {}
      /\ f.line.ops = <<>> /\ \A d : LineFits(d, f)
  BY NewScriptFits
<1>3. StackStep(n, f, 0, 0)
  BY <1>0, <1>2, PushStep
<1>4. Len(frames) \in Nat /\ DOMAIN frames = 1 .. n - 1 /\ DOMAIN frames' = 1 .. n /\ n \in Nat
      /\ frames'[n] = f /\ \A i \in 1 .. n - 1 : frames'[i] = frames[i]
  <2>1. Len(frames) \in Nat /\ DOMAIN frames = 1 .. Len(frames) /\ n - 1 = Len(frames)
    BY <1>0, StackFacts
  <2>2. frames' \in Seq(Frames) /\ Len(frames') = n
        /\ frames'[n] = f /\ \A i \in 1 .. n - 1 : frames'[i] = frames[i]
    BY <1>3 DEF StackStep
  <2>3. DOMAIN frames' = 1 .. n
    BY <2>2, StackFacts
  <2>. QED  BY <2>1, <2>2, <2>3
<1>5. Typed'
  BY <1>0, <1>1, <1>3 DEF Typed, StackStep
<1>6. ClaimsApart'
  <2>. PICK e : e = <<"local", n, 0>>
    OBVIOUS
  <2>1. OwnersMove(n, f, 0, 0, e, id)
    BY <1>0, <1>2 DEF OwnersMove
  <2>2. id # NoString => Exists(map', id) /\ Unclaimed(id)
    BY <1>1 DEF Exists, Unclaimed
  <2>3. CacheMoves(id, cache, {})
    <3>1. cache \in Caches /\ cache' = Released(cache, {})
      BY <1>0, NothingReleased DEF CacheFits
    <3>2. cache.id = id => id = NoString
      BY <1>0, <1>1 DEF CacheFits, Exists
    <3>. QED  BY <3>1, <3>2 DEF CacheMoves
  <2>4. \A i \in DOMAIN map.vars : Exists(map', i)
    BY <1>1 DEF Exists
  <2>. QED  BY <1>0, <1>3, <2>1, <2>2, <2>3, <2>4, StepClaims
<1>7. LinesFit'
  <2>1. \A i \in 1 .. n - 1 : frames[i].line.kind # "none"
    BY <1>4
  <2>. QED  BY <1>0, <1>2, <1>3, <2>1, LinesStep
<1>8. OperandsFit'
  <2>1. \A i \in DOMAIN frames : \A k \in DOMAIN frames[i].line.ops : Kept(frames[i].line.ops[k])
    BY <1>0, <1>1, KeptOperands DEF Exists
  <2>. QED  BY <1>0, <1>2, <1>3, <2>1, OperandsStep
<1>9. QuestsFit'
  <2>1. \A x \in Variables : data[x] # NoString => data[x] \in DOMAIN map.vars
    BY <1>0, ClaimsAre DEF Exists
  <2>. QED  BY <1>0, <1>1, <2>1 DEF QuestsFit
<1>10. LeftFit'
  BY <1>0, <1>1, <1>2, <1>4 DEF LeftFit
<1>. QED  BY <1>5, <1>6, <1>7, <1>8, <1>9, <1>10 DEF Inv

LEMMA RunScriptStep ==
  ASSUME Inv, RunScript
  PROVE  Inv'
<1>1. frames = <<>> /\ cache' = cache /\ data' = data /\ DOMAIN frames = {}
  BY DEF RunScript
<1>2. \A f : <<f>> = Append(frames, f)
  BY <1>1
<1>3. MapFits(map) /\ NoString \in 0 .. MaxID
  BY ConstantsAssumption DEF Inv, Typed, NoString, ConstantsAssumption
<1>. PICK mod \in Mods :
       \/ /\ Fits(map)
          /\ \E t \in Texts : map' = Added(map, [text |-> t, owner |-> mod], TRUE)
          /\ frames' = <<[mod |-> mod, local |-> GetUnusedID(map), line |-> NoLine]>>
       \/ /\ UNCHANGED map
          /\ frames' = <<[mod |-> mod, local |-> NoString, line |-> NoLine]>>
  BY DEF RunScript
<1>4. ASSUME Fits(map), NEW t \in Texts, map' = Added(map, [text |-> t, owner |-> mod], TRUE),
             frames' = <<[mod |-> mod, local |-> GetUnusedID(map), line |-> NoLine]>>
      PROVE  Inv'
  <2>. PICK id : id = GetUnusedID(map)
    OBVIOUS
  <2>1. id \in 0 .. MaxID
    BY <1>3, <1>4, FreshID
  <2>2. t \in StringTexts
    BY DEF StringTexts
  <2>. QED  BY <1>1, <1>2, <1>4, <2>1, <2>2, NewScript
<1>5. ASSUME UNCHANGED map, frames' = <<[mod |-> mod, local |-> NoString, line |-> NoLine]>>
      PROVE  Inv'
  <2>. PICK id \in 0 .. MaxID : id = NoString
    BY <1>3
  <2>. QED  BY <1>1, <1>2, <1>5, NewScript
<1>. QED  BY <1>4, <1>5

LEMMA CallStep ==
  ASSUME Inv, Call
  PROVE  Inv'
<1>0. frames # <<>> /\ Top.line.kind # "none" /\ cache' = cache /\ data' = data
  BY DEF Call, Evaluating
<1>. PICK n, g : n = Len(frames) /\ g = Top
  OBVIOUS
<1>1. /\ n \in Nat \ {0} /\ n \in DOMAIN frames /\ g = frames[n] /\ g \in Frames /\ DOMAIN frames = 1 .. n
      /\ \A k \in DOMAIN g.line.ops : OperandFits(map, cache, g.line.ops[k], g.mod)
  BY <1>0, TopFacts
<1>2. \A i \in DOMAIN frames : frames[i].line.kind # "none"
  BY <1>0, <1>1 DEF Inv, LinesFit
<1>3. MapFits(map) /\ NoString \in 0 .. MaxID
  BY ConstantsAssumption DEF Inv, Typed, NoString, ConstantsAssumption
<1>. PICK mod \in Mods :
       \/ /\ Top.line.ops # <<>> /\ Fits(map)
          /\ map' = Added(map, [text |-> TextOf(Last(Top.line.ops)), owner |-> mod], TRUE)
          /\ frames' = Append(frames, [mod |-> mod, local |-> GetUnusedID(map), line |-> NoLine])
       \/ /\ UNCHANGED map
          /\ frames' = Append(frames, [mod |-> mod, local |-> NoString, line |-> NoLine])
  BY DEF Call
<1>4. ASSUME g.line.ops # <<>>, Fits(map),
             map' = Added(map, [text |-> TextOf(Last(g.line.ops)), owner |-> mod], TRUE),
             frames' = Append(frames, [mod |-> mod, local |-> GetUnusedID(map), line |-> NoLine])
      PROVE  Inv'
  <2>. PICK id, tok : id = GetUnusedID(map) /\ tok = Last(g.line.ops)
    OBVIOUS
  <2>1. id \in 0 .. MaxID
    BY <1>3, <1>4, FreshID
  <2>2. \E k \in DOMAIN g.line.ops : tok = g.line.ops[k]
    <3>1. g.line.ops \in Seq(Tokens)
      BY <1>1, FrameFacts
    <3>2. Len(g.line.ops) \in DOMAIN g.line.ops
      BY <1>4, <3>1, EmptySeq, LenProperties
    <3>. QED  BY <3>2 DEF Last
  <2>3. TextOf(tok) \in StringTexts
    <3>1. tok \in Tokens /\ (tok.id # NoString => tok.id \in DOMAIN map.vars)
      BY <1>1, <2>2, FrameFacts DEF OperandFits, Exists
    <3>2. tok.id # NoString => map.vars[tok.id] \in Strings
      BY <1>3, <3>1 DEF MapFits
    <3>. QED  BY <3>1, <3>2 DEF TextOf, Tokens, Strings
  <2>. QED  BY <1>0, <1>2, <1>4, <2>1, <2>3, NewScript
<1>5. ASSUME UNCHANGED map, frames' = Append(frames, [mod |-> mod, local |-> NoString, line |-> NoLine])
      PROVE  Inv'
  <2>. PICK id \in 0 .. MaxID : id = NoString
    BY <1>3
  <2>. QED  BY <1>0, <1>2, <1>5, NewScript
<1>. QED  BY <1>4, <1>5

(***************************************************************************)
(* What a command returns is no one's yet, and changes no one's string.    *)
(***************************************************************************)
LEMMA ResultFacts ==
  ASSUME Inv, NEW m, MapFits(m), m.vars = map.vars, Fits(m), NEW text \in StringTexts, NEW mod \in Mods,
         NEW r, r = Result(m, cache, text, mod)
  PROVE  /\ MapFits(r.map) /\ CacheFits(r.map, r.cache)
         /\ r.id \in 0 .. MaxID /\ r.id # NoString /\ Unclaimed(r.id) /\ r.id \in DOMAIN r.map.vars
         /\ \A i \in DOMAIN map.vars :
              /\ i \in DOMAIN r.map.vars /\ r.map.vars[i].owner = map.vars[i].owner
              /\ r.map.vars[i] = map.vars[i] \/ Unclaimed(i)
         /\ DOMAIN r.map.vars \subseteq DOMAIN map.vars \cup {r.id}
         /\ r.id \in r.map.tempIDs \cup {r.cache.id}
         /\ m.tempIDs \subseteq r.map.tempIDs /\ r.map.tempIDs \subseteq m.tempIDs \cup {r.id}
         /\ cache.id # NoString => r.cache.id = cache.id
         /\ r.cache \in Caches /\ r.cache.inUse
         /\ r.cache = cache \/ (~cache.inUse /\ Unclaimed(r.cache.id))
         /\ r.map.vars[r.id].text = text
         /\ r.id # r.cache.id => r.map.vars[r.id].owner = mod
<1>0. CacheFits(map, cache) /\ CacheFits(m, cache)
  BY DEF Inv, Typed, CacheFits, Exists
<1>1. /\ MapFits(r.map) /\ CacheFits(r.map, r.cache) /\ r.cache.inUse
      /\ r.id \in 1 .. MaxID
      /\ r.id \in DOMAIN m.vars => r.id = cache.id /\ ~cache.inUse
      /\ DOMAIN r.map.vars = DOMAIN m.vars \cup {r.id}
      /\ \A id \in DOMAIN m.vars : id # r.id => r.map.vars[id] = m.vars[id]
      /\ \A id \in DOMAIN m.vars : r.map.vars[id].owner = m.vars[id].owner
      /\ r.map.vars[r.id] = [text |-> text, owner |-> IF cache.inUse THEN mod ELSE NoMod]
      /\ IF cache.inUse THEN r.cache = cache /\ r.id # cache.id ELSE r.cache.id = r.id
      /\ cache.id # NoString => r.cache.id = cache.id
      /\ r.map.tempIDs = IF cache.inUse THEN m.tempIDs \cup {r.id} ELSE m.tempIDs
  BY <1>0, ResultProperties
<1>2. r.id \in 0 .. MaxID /\ r.id # NoString /\ Unclaimed(r.id)
  BY <1>1 DEF NoString, Unclaimed, Exists
<1>3. \A i \in DOMAIN map.vars :
              /\ i \in DOMAIN r.map.vars /\ r.map.vars[i].owner = map.vars[i].owner
              /\ r.map.vars[i] = map.vars[i] \/ Unclaimed(i)
  BY <1>1, <1>2
<1>4. r.id \in r.map.tempIDs \cup {r.cache.id} /\ (r.cache = cache \/ (~cache.inUse /\ Unclaimed(r.cache.id)))
  BY <1>1, <1>2
<1>5. m.tempIDs \subseteq r.map.tempIDs /\ r.map.tempIDs \subseteq m.tempIDs \cup {r.id}
  BY <1>1
<1>6. r.cache \in Caches
  BY <1>1 DEF CacheFits
<1>7. r.map.vars[r.id].text = text /\ (r.id # r.cache.id => r.map.vars[r.id].owner = mod)
  BY <1>1
<1>. QED  BY <1>1, <1>2, <1>3, <1>4, <1>5, <1>6, <1>7

(***************************************************************************)
(* A result is given to the owner e, of the frame that is the top one then *)
(* or is lost; tokens of that frame are destroyed.                         *)
(***************************************************************************)
ResultOf(m, text, mod, r) ==
  /\ MapFits(m) /\ m.vars = map.vars /\ Fits(m) /\ text \in StringTexts /\ mod \in Mods
  /\ r = Result(m, cache, text, mod) /\ map' = r.map
  /\ data' \in [Variables -> 0 .. MaxID]
  /\ \A x \in Variables :
       data'[x] = data[x] \/ (data[x] = NoString /\ data'[x] = r.id /\ r.id \notin r.map.tempIDs)

ResultGiven(m, text, mod, r, n, f, k0, tok, e, toks) ==
  /\ ResultOf(m, text, mod, r) /\ GivenUp(m)
  /\ n \in DOMAIN frames /\ StackStep(n, f, k0, tok) /\ OwnersMove(n, f, k0, tok, e, r.id)
  /\ Destroys(n, f, e, toks) /\ cache' = Released(r.cache, toks) /\ LineFits(data', f)
  /\ k0 \in DOMAIN f.line.ops => tok.id = r.id /\ tok.text = text /\ mod = f.mod

LEMMA ResultStep ==
  ASSUME Inv, NEW m, NEW text, NEW mod, NEW r, NEW n, NEW f, NEW k0, NEW tok, NEW e, NEW toks,
         ResultGiven(m, text, mod, r, n, f, k0, tok, e, toks)
  PROVE  Inv'
<1>b. /\ ResultOf(m, text, mod, r) /\ GivenUp(m)
      /\ n \in DOMAIN frames /\ StackStep(n, f, k0, tok) /\ OwnersMove(n, f, k0, tok, e, r.id)
      /\ Destroys(n, f, e, toks) /\ cache' = Released(r.cache, toks) /\ LineFits(data', f)
      /\ k0 \in DOMAIN f.line.ops => tok.id = r.id /\ tok.text = text /\ mod = f.mod
  BY DEF ResultGiven
<1>. USE <1>b
<1>0. /\ frames \in Seq(Frames) /\ CacheFits(map, cache) /\ MapFits(map) /\ data \in [Variables -> 0 .. MaxID]
      /\ ClaimsApart /\ LinesFit /\ OperandsFit /\ QuestsFit /\ LeftFit
  BY DEF Inv, Typed
<1>1. /\ MapFits(r.map) /\ CacheFits(r.map, r.cache)
      /\ r.id \in 0 .. MaxID /\ r.id # NoString /\ Unclaimed(r.id) /\ r.id \in DOMAIN r.map.vars
      /\ \A i \in DOMAIN map.vars :
           /\ i \in DOMAIN r.map.vars /\ r.map.vars[i].owner = map.vars[i].owner
           /\ r.map.vars[i] = map.vars[i] \/ Unclaimed(i)
      /\ DOMAIN r.map.vars \subseteq DOMAIN map.vars \cup {r.id}
      /\ r.id \in r.map.tempIDs \cup {r.cache.id}
      /\ m.tempIDs \subseteq r.map.tempIDs /\ r.map.tempIDs \subseteq m.tempIDs \cup {r.id}
      /\ cache.id # NoString => r.cache.id = cache.id
      /\ r.cache \in Caches /\ r.cache.inUse
      /\ r.cache = cache \/ (~cache.inUse /\ Unclaimed(r.cache.id))
      /\ r.map.vars[r.id].text = text
      /\ r.id # r.cache.id => r.map.vars[r.id].owner = mod
  BY ResultFacts DEF ResultOf
<1>a. /\ map' = r.map /\ data' \in [Variables -> 0 .. MaxID]
      /\ \A x \in Variables :
           data'[x] = data[x] \/ (data[x] = NoString /\ data'[x] = r.id /\ r.id \notin r.map.tempIDs)
  BY DEF ResultOf
<1>2. CacheFits(map', cache') /\ cache'.id = r.cache.id
  BY <1>a, <1>1, ReleasedFits
<1>3. Typed'
  BY <1>a, <1>0, <1>1, <1>2 DEF Typed, StackStep
<1>4. n \in Nat /\ n <= Len(frames) /\ DOMAIN frames' = 1 .. n /\ \A i \in 1 .. n : i \in DOMAIN frames
  <2>1. Len(frames) \in Nat /\ DOMAIN frames = 1 .. Len(frames)
    BY <1>a, <1>0, StackFacts
  <2>2. DOMAIN frames' = 1 .. n
    BY StackFacts DEF StackStep
  <2>. QED  BY <2>1, <2>2
<1>5. ClaimsApart'
  <2>1. CacheMoves(r.id, r.cache, toks)
    BY <1>a, <1>1 DEF CacheMoves
  <2>2. \A i \in DOMAIN map.vars : Exists(map', i)
    BY <1>a, <1>1 DEF Exists
  <2>3. r.id # NoString => Exists(map', r.id) /\ Unclaimed(r.id)
    BY <1>a, <1>1 DEF Exists
  <2>. QED  BY <1>a, <1>0, <1>4, <2>1, <2>2, <2>3, StepClaims
<1>6. LinesFit'
  <2>1. \A i \in 1 .. n - 1 : frames[i].line.kind # "none"
    BY <1>a, <1>0, <1>4, LinesBelow
  <2>2. ASSUME NEW x \in Variables, data'[x] # data[x], NEW i \in 1 .. n - 1, frames[i].line.lhs # NoString
        PROVE  frames[i].line.target # x
    <3>1. data[x] = NoString /\ x # Local
      BY <1>a, <2>2, ConstantsAssumption DEF ConstantsAssumption
    <3>2. LineFits(data, frames[i])
      BY <1>0, <1>4 DEF LinesFit
    <3>. QED  BY <2>2, <3>1, <3>2 DEF LineFits
  <2>. QED  BY <1>0, <2>1, <2>2, LinesStep
<1>7. OperandsFit'
  <2>1. \A i \in DOMAIN frames : \A k \in DOMAIN frames[i].line.ops : Kept(frames[i].line.ops[k])
    <3>1. \A id \in DOMAIN map.vars : Exists(map', id) /\ (map'.vars[id] = map.vars[id] \/ Unclaimed(id))
      BY <1>a, <1>1 DEF Exists
    <3>2. cache.id # NoString => cache'.id = cache.id
      BY <1>a, <1>1, <1>2
    <3>. QED  BY <1>a, <1>0, <3>1, <3>2, KeptOperands
  <2>2. k0 \in DOMAIN f.line.ops => OperandFits(map', cache', tok, f.mod)
    BY <1>a, <1>1, <1>2 DEF OperandFits, Exists
  <2>. QED  BY <1>a, <1>0, <2>1, <2>2, OperandsStep
<1>8. \A x \in Variables : data[x] # NoString => data[x] \in DOMAIN map.vars /\ data[x] # r.id
  BY <1>a, <1>0, <1>1, ClaimsAre DEF Exists, Unclaimed
<1>. USE DEF GivenUp
<1>9. QuestsFit'
  <2>. SUFFICES ASSUME NEW x \in Variables, data'[x] # NoString
                PROVE  map'.vars[data'[x]].owner \in {ModOf[x], NoMod} /\ data'[x] \notin map'.tempIDs
    BY DEF QuestsFit
  <2>1. CASE data'[x] = data[x]
    BY <1>a, <1>0, <1>1, <1>8, <2>1 DEF QuestsFit
  <2>2. CASE data'[x] = r.id /\ r.id \notin r.map.tempIDs
    <3>1. r.id = r.cache.id
      BY <1>1, <2>2
    <3>. QED  BY <1>a, <1>1, <2>2, <3>1 DEF CacheFits
  <2>. QED  BY <1>a, <2>1, <2>2
<1>10. LeftFit'
  <2>. SUFFICES ASSUME NEW id \in DOMAIN map'.vars, id \notin map'.tempIDs \cup {cache'.id}
                PROVE  \/ \E x \in Variables : data'[x] = id
                       \/ \E i \in DOMAIN frames' : frames'[i].local = id
    BY DEF LeftFit
  <2>1. id \in DOMAIN map.vars /\ id \notin m.tempIDs /\ id \notin map.tempIDs
    BY <1>a, <1>1, <1>2
  <2>2. id # NoString /\ id # cache.id
    BY <1>a, <1>0, <1>1, <1>2, <2>1 DEF MapFits, NoString
  <2>3. (\E x \in Variables : data[x] = id) \/ \E i \in DOMAIN frames : frames[i].local = id
    BY <1>a, <1>0, <2>1, <2>2 DEF LeftFit
  <2>. QED  BY <1>a, <2>1, <2>2, <2>3
<1>. QED  BY <1>3, <1>5, <1>6, <1>7, <1>9, <1>10 DEF Inv

LEMMA CommandStep ==
  ASSUME Inv, Command
  PROVE  Inv'
<1>. PICK n, g : n = Len(frames) /\ g = Top
  OBVIOUS
<1>0. frames # <<>> /\ Top.line.kind # "none" /\ Fits(map) /\ data' = data
  BY DEF Command, Evaluating
<1>1. /\ n \in Nat \ {0} /\ n \in DOMAIN frames /\ g = frames[n] /\ g \in Frames /\ LineFits(data, g)
      /\ DOMAIN frames = 1 .. n
  BY <1>0, TopFacts
<1>2. PICK t \in Texts : \E r \in {Result(map, cache, t, Top.mod)} :
         /\ map' = r.map /\ cache' = r.cache
         /\ frames' = Append(Front(frames), Push(Top, Token(r.id, TRUE, t)))
  BY DEF Command
<1>. PICK mod \in Mods : mod = g.mod
  BY <1>1, FrameFacts
<1>. PICK text \in StringTexts : text = t
  BY DEF StringTexts
<1>. PICK r : r = Result(map, cache, text, mod)
  OBVIOUS
<1>a. PICK tok : tok = Token(r.id, TRUE, text)
  OBVIOUS
<1>3. /\ map' = r.map /\ cache' = r.cache /\ frames' = Append(Front(frames), Push(Top, tok))
  BY <1>2, <1>a
<1>4. MapFits(map) /\ QuestsFit
  BY DEF Inv, Typed
<1>5. r.id \in 0 .. MaxID /\ r.id # NoString /\ r.cache \in Caches
  BY <1>0, <1>4, ResultFacts
<1>6. tok \in Tokens /\ tok.id = r.id /\ tok.rvalue = TRUE /\ tok.text = text
  BY <1>5, <1>a DEF Token, Tokens
<1>. PICK f : f = Push(g, tok)
  OBVIOUS
<1>. PICK k0 : k0 = Len(g.line.ops) + 1
  OBVIOUS
<1>7. /\ f \in Frames /\ f.mod = g.mod /\ f.local = g.local
      /\ f.line.kind = g.line.kind /\ f.line.target = g.line.target /\ f.line.lhs = g.line.lhs
      /\ k0 \in DOMAIN f.line.ops /\ f.line.ops[k0] = tok
      /\ \A k \in DOMAIN f.line.ops : k # k0 => k \in DOMAIN g.line.ops /\ f.line.ops[k] = g.line.ops[k]
      /\ DOMAIN g.line.ops \subseteq DOMAIN f.line.ops
  BY <1>1, <1>6, PushFacts
<1>8. StackStep(n, f, k0, tok)
  BY <1>0, <1>1, <1>3, <1>7, TopStep DEF Inv, Typed
<1>. PICK id : id = r.id
  OBVIOUS
<1>. PICK e : e = <<"operand", n, k0>>
  OBVIOUS
<1>9. OwnersMove(n, f, k0, tok, e, id)
  <2>1. n <= Len(frames) /\ f.local = frames[n].local /\ \A x \in Variables : data'[x] = data[x]
    BY <1>0, <1>1, <1>7
  <2>. QED  BY <1>6, <2>1 DEF OwnersMove
<1>. PICK toks : toks = {}
  OBVIOUS
<1>10. Destroys(n, f, e, toks)
  BY DEF Destroys
<1>11. cache' = Released(r.cache, toks)
  BY <1>3, <1>5, NothingReleased
<1>12. LineFits(data', f)
  BY <1>0, <1>1, <1>7 DEF LineFits
<1>13. \A i \in DOMAIN frames : i \in DOMAIN frames' /\ frames'[i].local = frames[i].local
  <2>1. DOMAIN frames' = 1 .. n /\ frames'[n] = f /\ \A i \in 1 .. n - 1 : frames'[i] = frames[i]
    BY <1>8, StackFacts DEF StackStep
  <2>. QED  BY <1>1, <1>7, <2>1
<1>14. GivenUp(map)
  BY <1>4, <1>13 DEF QuestsFit, GivenUp
<1>15. k0 \in DOMAIN f.line.ops => tok.id = id /\ tok.text = text /\ mod = f.mod
  BY <1>6, <1>7
<1>16. ResultOf(map, text, mod, r)
  BY <1>0, <1>3, <1>4 DEF ResultOf, Inv, Typed
<1>17. ResultGiven(map, text, mod, r, n, f, k0, tok, e, toks)
  BY <1>1, <1>8, <1>9, <1>10, <1>11, <1>12, <1>14, <1>15, <1>16 DEF ResultGiven
<1>. QED  BY <1>17, ResultStep

(***************************************************************************)
(* A function's result takes the place of the argument of Call, if there   *)
(* is one.                                                                 *)
(***************************************************************************)
ButLast(ops) == IF ops = <<>> THEN <<>> ELSE Front(ops)
LastOf(ops) == {ops[i] : i \in DOMAIN ops \ DOMAIN ButLast(ops)}

LEMMA ResultForLast ==
  ASSUME NEW ops \in Seq(Tokens), NEW tok \in Tokens,
         NEW new, new = Append(ButLast(ops), tok), NEW toks, toks = LastOf(ops)
  PROVE  new \in Seq(Tokens) /\ \E k0 : LiteralAt(k0, ops, new, tok, toks)
<1>. PICK left : left = ButLast(ops)
  OBVIOUS
<1>1. CASE ops = <<>>
  <2>1. left = <<>> /\ left \in Seq(Tokens) /\ Len(left) = 0
    BY <1>1, EmptySeq DEF ButLast
  <2>2. new \in Seq(Tokens) /\ Len(new) = 1 /\ new[1] = tok
    BY <2>1, AppendProperties
  <2>3. DOMAIN new = 1 .. 1
    BY <2>2, LenProperties
  <2>4. toks = {}
    BY <1>1, EmptySeq, LenProperties DEF LastOf
  <2>5. LiteralAt(1, ops, new, tok, toks)
    BY <2>2, <2>3, <2>4 DEF LiteralAt
  <2>. QED  BY <2>2, <2>5
<1>2. CASE ops # <<>>
  <2>. PICK n : n = Len(ops)
    OBVIOUS
  <2>1. left = SubSeq(ops, 1, Len(ops) - 1)
    BY <1>2 DEF ButLast, Front
  <2>2. /\ left \in Seq(Tokens) /\ Len(left) = n - 1 /\ DOMAIN left = 1 .. n - 1
        /\ \A k \in 1 .. n - 1 : left[k] = ops[k]
        /\ n \in Nat \ {0} /\ DOMAIN ops = 1 .. n
    BY <1>2, <2>1, AllButLast
  <2>3. new \in Seq(Tokens) /\ Len(new) = n /\ new[n] = tok /\ \A k \in 1 .. n - 1 : new[k] = ops[k]
    BY <2>2, AppendProperties
  <2>4. DOMAIN new = 1 .. n
    BY <2>3, LenProperties
  <2>5. \A k \in DOMAIN new : k # n => k \in DOMAIN ops /\ new[k] = ops[k]
    BY <2>2, <2>3, <2>4
  <2>6. \A i \in DOMAIN ops \ DOMAIN left : i = n
    BY <2>2
  <2>7. \A u \in toks : \E k \in DOMAIN ops : u = ops[k] /\ k = n
    BY <2>6 DEF LastOf
  <2>8. LiteralAt(n, ops, new, tok, toks)
    BY <2>2, <2>3, <2>4, <2>5, <2>7 DEF LiteralAt
  <2>. QED  BY <2>3, <2>8
<1>. QED  BY <1>1, <1>2

(***************************************************************************)
(* The frame of the caller, while a function of its returns, and the map   *)
(* in which the variable of the function is given up.                      *)
(***************************************************************************)
Returning(n, caller, m) ==
  /\ Len(frames) > 1 /\ n \in Nat \ {0} /\ n + 1 = Len(frames) /\ n = Len(frames) - 1
  /\ caller = frames[n] /\ m = MarkTemporary(map, Top.local, TRUE)

LEMMA ReturningFacts ==
  ASSUME Inv, NEW n, NEW caller, NEW m, Returning(n, caller, m)
  PROVE  /\ n \in DOMAIN frames /\ n <= Len(frames) /\ caller \in Frames /\ LineFits(data, caller)
         /\ MapFits(m) /\ m.vars = map.vars /\ GetUnusedID(m) = GetUnusedID(map)
         /\ caller.line.kind # "none"
         /\ Exists(map, Top.local) => map.vars[Top.local].text \in StringTexts
         /\ \A f, k0, tok :
              StackStep(n, f, k0, tok) /\ (f.local = caller.local \/ caller.local \in m.tempIDs \cup {NoString})
                => GivenUp(m)
<1>1. /\ frames \in Seq(Frames) /\ MapFits(map)
      /\ ClaimsApart /\ LinesFit /\ OperandsFit /\ QuestsFit /\ LeftFit
  BY DEF Inv, Typed
<1>2. /\ DOMAIN frames = 1 .. n + 1 /\ n \in DOMAIN frames /\ n + 1 \in DOMAIN frames
      /\ Top = frames[n + 1] /\ n <= Len(frames) /\ n \in Nat
  BY <1>1, StackFacts DEF Returning, Top, Last
<1>3. caller \in Frames /\ LineFits(data, caller) /\ caller.line.kind # "none"
  BY <1>1, <1>2, StackFacts DEF Returning, LinesFit
<1>. PICK id : id = Top.local
  OBVIOUS
<1>4. id \in DOMAIN map.vars \cup {NoString}
  BY <1>1, <1>2, ClaimsAre DEF Exists
<1>5. MapFits(m) /\ m.vars = map.vars /\ m.tempIDs = map.tempIDs \cup ({id} \ {NoString}) /\ GetUnusedID(m) = GetUnusedID(map)
  <2>1. m = MarkTemporary(map, id, TRUE)
    BY DEF Returning
  <2>. QED  BY ONLY <1>1, <1>4, <2>1 DEF MapFits, MarkTemporary, GetUnusedID
<1>6. Exists(map, id) => map.vars[id].text \in StringTexts
  BY <1>1 DEF MapFits, Exists, Strings
<1>7. \A x \in Variables : data[x] # NoString => data[x] # id
  BY <1>1, <1>2, ClaimsAre
<1>8. ASSUME NEW f, NEW k0, NEW tok, StackStep(n, f, k0, tok),
             f.local = caller.local \/ caller.local \in m.tempIDs \cup {NoString}
      PROVE  GivenUp(m)
  <2>1. DOMAIN frames' = 1 .. n /\ frames'[n] = f /\ \A i \in 1 .. n - 1 : frames'[i] = frames[i]
    BY <1>8, StackFacts DEF StackStep
  <2>2. frames'[n].local = frames[n].local \/ frames[n].local \in m.tempIDs \cup {NoString}
    BY <1>8, <2>1 DEF Returning
  <2>3. ASSUME NEW i \in DOMAIN frames
        PROVE  \/ frames[i].local = NoString \/ frames[i].local \in m.tempIDs
               \/ i \in DOMAIN frames' /\ frames'[i].local = frames[i].local
    <3>1. i = n + 1 \/ i = n \/ i \in 1 .. n - 1
      BY <1>2
    <3>2. CASE i = n + 1
      BY <1>2, <1>5, <3>2
    <3>3. CASE i = n
      BY <1>2, <2>1, <2>2, <3>3
    <3>4. CASE i \in 1 .. n - 1
      BY <1>2, <2>1, <3>4
    <3>. QED  BY <3>1, <3>2, <3>3, <3>4
  <2>4. \A x \in Variables : data[x] # NoString => data[x] \notin m.tempIDs
    BY <1>1, <1>5, <1>7 DEF QuestsFit
  <2>. QED  BY <1>5, <2>3, <2>4 DEF GivenUp
<1>. QED  BY <1>2, <1>3, <1>5, <1>6, <1>8

(***************************************************************************)
(* A result goes to the variable x of frame n, or to nobody.               *)
(***************************************************************************)
LEMMA StoredResult ==
  ASSUME Inv, NEW n, NEW g, NEW x, NEW m, NEW text, NEW mod, NEW r, NEW f, NEW toks,
         MapFits(m), m.vars = map.vars, Fits(m), text \in StringTexts, mod \in Mods,
         r = Result(m, cache, text, mod), map' = r.map, cache' = Released(r.cache, toks),
         Ended(n, g, x, r.id, f, toks), SafeSet(g, x, r),
         x \in Variables \cup {Local, Nothing},
         f.local = g.local \/ g.local \in m.tempIDs \cup {NoString} => GivenUp(m)
  PROVE  Inv'
<1>0. frames \in Seq(Frames) /\ data \in [Variables -> 0 .. MaxID] /\ ClaimsApart
  BY DEF Inv, Typed
<1>1. /\ r.id \in 0 .. MaxID /\ r.id # NoString /\ Unclaimed(r.id)
      /\ r.map.tempIDs \subseteq m.tempIDs \cup {r.id}
  BY ResultFacts
<1>2. /\ n \in DOMAIN frames /\ g = frames[n] /\ f.line = NoLine /\ DOMAIN f.line.ops = {}
      /\ f.local = IF x = Local THEN r.id ELSE g.local
      /\ StackStep(n, f, 0, 0)
      /\ data' = IF x \in Variables THEN [data EXCEPT ![x] = r.id] ELSE data
      /\ \A e : Destroys(n, f, e, toks)
  BY DEF Ended
<1>3. (x \in Variables => x # Local) /\ {Local, Nothing} \cap Variables = {}
  BY ConstantsAssumption DEF ConstantsAssumption
<1>4. n \in Nat /\ n <= Len(frames)
  BY <1>0, <1>2, StackFacts
<1>5. x \in Variables => data[x] = NoString /\ r.id \notin r.map.tempIDs
  BY <1>3 DEF SafeSet, Unset, Held
<1>6. x = Local => g.local \in m.tempIDs \cup {NoString}
  <2>1. x = Local => g.local = NoString \/ g.local \in r.map.tempIDs
    BY DEF SafeSet, Unset, Held
  <2>2. g.local # NoString => g.local # r.id
    BY <1>0, <1>1, <1>2, ClaimsAre DEF Unclaimed
  <2>. QED  BY <1>1, <2>1, <2>2
<1>7. GivenUp(m)
  BY <1>2, <1>6
<1>8. /\ data' \in [Variables -> 0 .. MaxID]
      /\ \A y \in Variables : data'[y] = IF y = x THEN r.id ELSE data[y]
  BY <1>0, <1>1, <1>2
<1>9. ResultOf(m, text, mod, r)
  BY <1>5, <1>8 DEF ResultOf
<1>10. LineFits(data', f)
  BY <1>2 DEF LineFits, NoLine, Line
<1>11. \E e : OwnersMove(n, f, 0, 0, e, r.id)
  <2>1. CASE x = Local
    <3>. PICK e : e = <<"local", n, 0>>
      OBVIOUS
    <3>1. \A y \in Variables : e # <<"quest", y, 0>> /\ data'[y] = data[y]
      BY <1>3, <1>8, <2>1
    <3>2. OwnersMove(n, f, 0, 0, e, r.id)
      BY <1>2, <2>1, <3>1 DEF OwnersMove
    <3>. QED  BY <3>2
  <2>2. CASE x = Nothing
    <3>. PICK e : e = <<"none", 0, 0>>
      OBVIOUS
    <3>1. \A y \in Variables : e # <<"quest", y, 0>> /\ data'[y] = data[y]
      BY <1>3, <1>8, <2>2
    <3>2. e # <<"local", n, 0>> /\ (f.local = g.local \/ f.local = r.id)
      BY <1>2
    <3>3. x = Local \/ f.local = g.local
      BY <1>2
    <3>4. x # Local => OwnersMove(n, f, 0, 0, e, r.id)
      BY <1>2, <1>4, <3>1, <3>2, <3>3 DEF OwnersMove
    <3>. QED  BY <2>1, <3>4
  <2>3. CASE x \in Variables
    <3>. PICK e : e = <<"quest", x, 0>>
      OBVIOUS
    <3>1. \A y \in Variables : (e = <<"quest", y, 0>>) <=> (y = x)
      OBVIOUS
    <3>2. e # <<"local", n, 0>> /\ f.local = frames[n].local
      BY <1>2, <1>3, <2>3
    <3>3. \A y \in Variables : IF e = <<"quest", y, 0>> THEN data'[y] \in {r.id, NoString}
                               ELSE data'[y] \in {data[y], NoString}
      BY <1>8, <3>1
    <3>4. OwnersMove(n, f, 0, 0, e, r.id)
      BY <1>2, <1>4, <2>3, <3>2, <3>3 DEF OwnersMove
    <3>. QED  BY <3>4
  <2>. QED  BY <2>1, <2>2, <2>3
<1>12. PICK e : OwnersMove(n, f, 0, 0, e, r.id)
  BY <1>11
<1>13. Destroys(n, f, e, toks)
  BY <1>2
<1>14. ResultGiven(m, text, mod, r, n, f, 0, 0, e, toks)
  BY <1>2, <1>7, <1>9, <1>10, <1>12, <1>13 DEF ResultGiven
<1>. QED  BY <1>14, ResultStep

(***************************************************************************)
(* The line of the caller ends, with a result that `set' takes or nobody,  *)
(* or with none; or the caller's line takes the result.                    *)
(***************************************************************************)
LEMMA ReturnToEnd ==
  ASSUME Inv, NEW n, NEW caller, NEW m, Returning(n, caller, m), NEW x, NEW id \in 0 .. MaxID,
         StoreIn(SubSeq(frames, 1, Len(frames) - 2), x, id, [caller EXCEPT !.line = NoLine]),
         NEW toks, toks = Range(caller.line.ops)
  PROVE  \E f : Ended(n, caller, x, id, f, toks)
<1>1. caller \in Frames /\ frames \in Seq(Frames) /\ n \in DOMAIN frames /\ caller = frames[n]
      /\ Len(frames) > 1 /\ n = Len(frames) - 1
  BY ReturningFacts DEF Inv, Typed, Returning
<1>. PICK h, below : h = [caller EXCEPT !.line = NoLine] /\ below = SubSeq(frames, 1, Len(frames) - 2)
  OBVIOUS
<1>2. h \in Frames /\ h.mod = caller.mod /\ h.local = caller.local /\ h.line = NoLine /\ NoLine.ops = <<>>
  BY <1>1, NoLineFits
<1>a. PICK f : StoredIn(below, x, id, h, f)
  <2>1. StoreIn(below, x, id, h)
    BY DEF StoreIn
  <2>. QED  BY <1>2, <2>1, StoreInFacts
<1>3. /\ f \in Frames /\ f.mod = h.mod /\ f.line = h.line /\ f.local = IF x = Local THEN id ELSE h.local
      /\ frames' = Append(below, f)
      /\ data' = IF x \in Variables THEN [data EXCEPT ![x] = id] ELSE data
  BY <1>a DEF StoredIn
<1>4. DOMAIN f.line.ops = {}
  BY <1>2, <1>3, EmptySeq
<1>5. StackStep(n, f, 0, 0)
  BY <1>1, <1>2, <1>3, <1>4, PopStep
<1>6. \A e : Destroys(n, f, e, toks)
  BY <1>1, <1>4 DEF Destroys, Range
<1>. QED  BY <1>1, <1>2, <1>3, <1>4, <1>5, <1>6 DEF Ended

LEMMA ReturnNothing ==
  ASSUME Inv, NEW n, NEW caller, NEW m, Returning(n, caller, m), map' = m,
         NEW x, Unset(caller, x, m),
         StoreIn(SubSeq(frames, 1, Len(frames) - 2), x, NoString, [caller EXCEPT !.line = NoLine]),
         NEW toks, toks = Range(caller.line.ops), cache' = Released(cache, toks)
  PROVE  Inv'
<1>0. data \in [Variables -> 0 .. MaxID] /\ NoString \in 0 .. MaxID /\ (x \in Variables => x # Local)
  BY ConstantsAssumption DEF Inv, Typed, NoString, ConstantsAssumption
<1>1. PICK f : Ended(n, caller, x, NoString, f, toks)
  BY <1>0, ReturnToEnd
<1>2. /\ n \in DOMAIN frames /\ caller = frames[n] /\ StackStep(n, f, 0, 0) /\ f.line = NoLine /\ DOMAIN f.line.ops = {}
      /\ f.local = IF x = Local THEN NoString ELSE caller.local
      /\ data' = IF x \in Variables THEN [data EXCEPT ![x] = NoString] ELSE data
      /\ Destroys(n, f, <<"operand", n, 0>>, toks)
  BY <1>1 DEF Ended
<1>3. data' = data
  BY <1>0, <1>2 DEF Unset, Held
<1>4. f.local = caller.local \/ caller.local \in m.tempIDs \cup {NoString}
  BY <1>2 DEF Unset, Held
<1>5. MapFits(m) /\ m.vars = map.vars /\ GivenUp(m)
  BY <1>2, <1>4, ReturningFacts
<1>6. LineFits(data, f)
  BY <1>2 DEF LineFits, NoLine, Line
<1>7. GivenUp(map') /\ MapFits(map') /\ map'.vars = map.vars
  BY <1>5
<1>8. f.local \in {frames[n].local, NoString}
  BY <1>2
<1>. QED  BY <1>2, <1>3, <1>6, <1>7, <1>8, PlainStep

LEMMA ReturnStored ==
  ASSUME Inv, NEW n, NEW caller, NEW m, Returning(n, caller, m), Exists(map, Top.local), Fits(map),
         NEW text, text = map.vars[Top.local].text, NEW mod, mod = caller.mod,
         NEW r, r = Result(m, cache, text, mod), map' = r.map,
         NEW x, x \in Variables \cup {Local, Nothing}, SafeSet(caller, x, r),
         StoreIn(SubSeq(frames, 1, Len(frames) - 2), x, r.id, [caller EXCEPT !.line = NoLine]),
         NEW toks, toks = Range(caller.line.ops), cache' = Released(r.cache, toks)
  PROVE  Inv'
<1>1. /\ MapFits(m) /\ m.vars = map.vars /\ text \in StringTexts
      /\ GetUnusedID(m) = GetUnusedID(map) /\ caller \in Frames
  BY ReturningFacts
<1>2. mod \in Mods /\ Fits(m)
  BY <1>1, FrameFacts DEF Fits
<1>3. r.id \in 0 .. MaxID
  BY <1>1, <1>2, ResultFacts
<1>4. PICK f : Ended(n, caller, x, r.id, f, toks)
  BY <1>3, ReturnToEnd
<1>5. f.local = caller.local \/ caller.local \in m.tempIDs \cup {NoString} => GivenUp(m)
  BY <1>4, ReturningFacts DEF Ended
<1>. QED  BY <1>1, <1>2, <1>4, <1>5, StoredResult

ReturnsResult(n, caller, m, text, mod, r, ops, tok, new, f, toks) ==
  /\ Returning(n, caller, m) /\ Exists(map, Top.local) /\ Fits(map) /\ data' = data
  /\ text = map.vars[Top.local].text /\ mod = caller.mod
  /\ r = Result(m, cache, text, mod) /\ map' = r.map
  /\ ops = caller.line.ops /\ tok = Token(r.id, TRUE, text) /\ new = Append(ButLast(ops), tok)
  /\ f = [caller EXCEPT !.line.ops = new]
  /\ frames' = Append(SubSeq(frames, 1, Len(frames) - 2), f)
  /\ toks = LastOf(ops) /\ cache' = Released(r.cache, toks)

LEMMA ReturnResult ==
  ASSUME Inv, NEW n, NEW caller, NEW m, NEW text, NEW mod, NEW r, NEW ops, NEW tok, NEW new, NEW f, NEW toks,
         ReturnsResult(n, caller, m, text, mod, r, ops, tok, new, f, toks)
  PROVE  Inv'
<1>. SUFFICES ASSUME Returning(n, caller, m), Exists(map, Top.local), Fits(map), data' = data,
                     text = map.vars[Top.local].text, mod = caller.mod,
                     r = Result(m, cache, text, mod), map' = r.map,
                     ops = caller.line.ops, tok = Token(r.id, TRUE, text), new = Append(ButLast(ops), tok),
                     f = [caller EXCEPT !.line.ops = new],
                     frames' = Append(SubSeq(frames, 1, Len(frames) - 2), f),
                     toks = LastOf(ops), cache' = Released(r.cache, toks)
              PROVE  Inv'
  BY DEF ReturnsResult
<1>1. /\ n \in DOMAIN frames /\ n <= Len(frames) /\ MapFits(m) /\ m.vars = map.vars
      /\ text \in StringTexts /\ GetUnusedID(m) = GetUnusedID(map) /\ caller \in Frames /\ LineFits(data, caller)
      /\ caller.line.kind # "none"
  BY ReturningFacts
<1>2. data' = data /\ caller = frames[n] /\ mod \in Mods /\ ops \in Seq(Tokens) /\ frames \in Seq(Frames)
      /\ Len(frames) > 1 /\ n = Len(frames) - 1 /\ data \in [Variables -> 0 .. MaxID]
  BY <1>1, FrameFacts DEF Returning, Inv, Typed
<1>3. ResultOf(m, text, mod, r)
  BY <1>1, <1>2 DEF ResultOf, Fits
<1>4. tok \in Tokens /\ tok.id = r.id /\ tok.rvalue = TRUE /\ tok.text = text
  <2>1. Fits(m)
    BY <1>1 DEF Fits
  <2>2. r.id \in 0 .. MaxID
    BY ONLY Inv, <1>1, <1>2, <2>1, r = Result(m, cache, text, mod), ResultFacts
  <2>. QED  BY <1>1, <2>2 DEF Token, Tokens
<1>5. new \in Seq(Tokens) /\ \E k0 : LiteralAt(k0, ops, new, tok, toks)
  BY <1>2, <1>4, ResultForLast
<1>6. PICK k0 : LiteralAt(k0, ops, new, tok, toks)
  BY <1>5
<1>7. /\ f \in Frames /\ f.mod = caller.mod /\ f.local = caller.local /\ f.line.ops = new
      /\ f.line.kind = caller.line.kind /\ f.line.target = caller.line.target /\ f.line.lhs = caller.line.lhs
  <2>1. caller \in Frames
    BY <1>1
  <2>2. new \in Seq(Tokens)
    BY <1>5
  <2>. PICK line : line = [caller.line EXCEPT !.ops = new]
    OBVIOUS
  <2>3. caller.line \in Lines
    BY <2>1 DEF Frames
  <2>4. /\ line \in Lines /\ line.ops = new
        /\ line.kind = caller.line.kind /\ line.target = caller.line.target /\ line.lhs = caller.line.lhs
    BY ONLY <2>2, <2>3, line = [caller.line EXCEPT !.ops = new] DEF Lines
  <2>5. f = [caller EXCEPT !.line = line]
    BY ONLY <2>1, line = [caller.line EXCEPT !.ops = new], f = [caller EXCEPT !.line.ops = new] DEF Frames
  <2>6. f \in Frames /\ f.mod = caller.mod /\ f.local = caller.local /\ f.line = line
    BY ONLY <2>1, <2>4, <2>5 DEF Frames
  <2>. QED  BY <2>4, <2>6
<1>8. \A k \in DOMAIN f.line.ops :
        IF k = k0 THEN f.line.ops[k] = tok
        ELSE k \in DOMAIN frames[n].line.ops /\ f.line.ops[k] = frames[n].line.ops[k]
  BY ONLY <1>2, <1>6, <1>7, ops = caller.line.ops DEF LiteralAt
<1>9. StackStep(n, f, k0, tok)
  BY ONLY <1>2, <1>7, <1>8, frames' = Append(SubSeq(frames, 1, Len(frames) - 2), f), PopStep
<1>. PICK e : e = <<"operand", n, k0>>
  OBVIOUS
<1>10. GivenUp(m)
  BY <1>7, <1>9, ReturningFacts
<1>11. Destroys(n, f, e, toks)
  BY ONLY <1>2, <1>6, <1>7, ops = caller.line.ops, e = <<"operand", n, k0>> DEF Destroys, LiteralAt
<1>12. LineFits(data', f)
  BY ONLY <1>1, <1>2, <1>7 DEF LineFits
<1>13. OwnersMove(n, f, k0, tok, e, r.id)
  BY ONLY <1>1, <1>2, <1>4, <1>7, e = <<"operand", n, k0>> DEF OwnersMove
<1>14. ResultGiven(m, text, mod, r, n, f, k0, tok, e, toks)
  BY ONLY <1>1, <1>3, <1>4, <1>7, <1>9, <1>10, <1>11, <1>12, <1>13, mod = caller.mod,
          cache' = Released(r.cache, toks) DEF ResultGiven
<1>. QED  BY <1>14, ResultStep

LEMMA ReturnStep ==
  ASSUME Inv, Careful, Return
  PROVE  Inv'
<1>. PICK n, caller, m : n = Len(frames) - 1 /\ caller = frames[n] /\ m = MarkTemporary(map, Top.local, TRUE)
  OBVIOUS
<1>1. Returning(n, caller, m)
  <2>1. frames \in Seq(Frames) /\ Len(frames) > 1
    BY DEF Return, Inv, Typed
  <2>2. Len(frames) \in Nat
    BY <2>1, StackFacts
  <2>. QED  BY <2>1, <2>2 DEF Returning
<1>. PICK ops, left, used, mod, toks, x :
       /\ ops = caller.line.ops /\ left = ButLast(ops) /\ used = LastOf(ops) /\ mod = caller.mod
       /\ toks = Range(ops) /\ x = SetBy(caller.line)
  OBVIOUS
<1>. PICK below, text, r :
       /\ below = SubSeq(frames, 1, Len(frames) - 2) /\ text = map.vars[Top.local].text
       /\ r = Result(m, cache, text, mod)
  OBVIOUS
<1>2. \/ /\ Unset(caller, x, m) /\ map' = m /\ cache' = Released(cache, toks)
         /\ StoreIn(below, x, NoString, [caller EXCEPT !.line = NoLine])
      \/ /\ Exists(map, Top.local) /\ Fits(map) /\ map' = r.map
         /\ \/ /\ caller.line.kind = "call" /\ SafeSet(caller, caller.line.target, r)
               /\ cache' = Released(r.cache, toks)
               /\ StoreIn(below, x, r.id, [caller EXCEPT !.line = NoLine])
            \/ /\ cache' = Released(r.cache, used) /\ data' = data
               /\ frames' = Append(below, [caller EXCEPT !.line.ops = Append(left, Token(r.id, TRUE, text))])
  BY DEF Return, ButLast, LastOf
<1>3. CASE /\ Unset(caller, x, m) /\ map' = m /\ cache' = Released(cache, toks)
           /\ StoreIn(below, x, NoString, [caller EXCEPT !.line = NoLine])
  BY <1>1, <1>3, ReturnNothing
<1>4. CASE /\ Exists(map, Top.local) /\ Fits(map) /\ map' = r.map
           /\ caller.line.kind = "call" /\ SafeSet(caller, caller.line.target, r)
           /\ cache' = Released(r.cache, toks)
           /\ StoreIn(below, x, r.id, [caller EXCEPT !.line = NoLine])
  <2>1. x = caller.line.target /\ x \in Variables \cup {Local, Nothing}
    BY <1>1, <1>4, ReturningFacts, FrameFacts DEF SetBy
  <2>. QED  BY <1>1, <1>4, <2>1, ReturnStored
<1>5. CASE /\ Exists(map, Top.local) /\ Fits(map) /\ map' = r.map
           /\ cache' = Released(r.cache, used) /\ data' = data
           /\ frames' = Append(below, [caller EXCEPT !.line.ops = Append(left, Token(r.id, TRUE, text))])
  <2>a. PICK tok : tok = Token(r.id, TRUE, text)
    OBVIOUS
  <2>b. PICK new : new = Append(ButLast(ops), tok)
    OBVIOUS
  <2>c. PICK f : f = [caller EXCEPT !.line.ops = new]
    OBVIOUS
  <2>1. frames' = Append(below, f)
    BY <1>5, <2>a, <2>b, <2>c
  <2>2. /\ Exists(map, Top.local) /\ Fits(map) /\ map' = r.map
        /\ cache' = Released(r.cache, used) /\ data' = data
    BY <1>5
  <2>3. ReturnsResult(n, caller, m, text, mod, r, ops, tok, new, f, used)
    BY <1>1, <2>a, <2>b, <2>c, <2>1, <2>2 DEF ReturnsResult
  <2>. QED  BY <2>3, ReturnResult
<1>. QED  BY <1>2, <1>3, <1>4, <1>5

(***************************************************************************)
(* Between scripts only variables of quests hold strings.                  *)
(***************************************************************************)
BetweenScripts ==
  /\ frames = <<>> /\ MapFits(map) /\ CacheFits(map, cache) /\ data \in [Variables -> 0 .. MaxID]
  /\ QuestsFit /\ LeftFit
  /\ \A x \in Variables : data[x] # NoString =>
       /\ Exists(map, data[x]) /\ (data[x] = cache.id => cache.inUse)
       /\ \A y \in Variables : y # x => data[y] # data[x]

LEMMA EmptyStack == BetweenScripts => Inv
<1>. SUFFICES ASSUME BetweenScripts
              PROVE  Inv
  OBVIOUS
<1>1. /\ frames = <<>> /\ frames \in Seq(Frames) /\ DOMAIN frames = {} /\ Len(frames) = 0
      /\ MapFits(map) /\ CacheFits(map, cache) /\ data \in [Variables -> 0 .. MaxID]
      /\ QuestsFit /\ LeftFit
  BY EmptySeq DEF BetweenScripts
<1>2. Typed
  BY <1>1 DEF Typed
<1>3. ClaimsApart
  <2>1. \A a \in Claimants : \E x \in Variables : a = <<"quest", x, 0>> /\ Claim(a) = data[x]
    BY <1>1, ClaimantCases
  <2>2. ASSUME NEW a \in Claimants, Claim(a) # NoString
        PROVE  /\ Exists(map, Claim(a)) /\ (Claim(a) = cache.id => cache.inUse)
               /\ \A b \in Claimants : b # a => Claim(b) # Claim(a)
    <3>1. PICK x \in Variables : a = <<"quest", x, 0>> /\ Claim(a) = data[x]
      BY <2>1
    <3>2. /\ Exists(map, data[x]) /\ (data[x] = cache.id => cache.inUse)
          /\ \A y \in Variables : y # x => data[y] # data[x]
      BY <2>2, <3>1 DEF BetweenScripts
    <3>3. ASSUME NEW b \in Claimants, b # a
          PROVE  Claim(b) # Claim(a)
      <4>1. PICK y \in Variables : b = <<"quest", y, 0>> /\ Claim(b) = data[y]
        BY <2>1
      <4>2. y # x
        BY <3>1, <3>3, <4>1
      <4>. QED  BY <3>1, <3>2, <4>1, <4>2
    <3>. QED  BY <3>1, <3>2, <3>3
  <2>. QED  BY <2>2 DEF ClaimsApart
<1>4. LinesFit /\ OperandsFit
  BY <1>1 DEF LinesFit, OperandsFit
<1>. QED  BY <1>1, <1>2, <1>3, <1>4 DEF Inv

(***************************************************************************)
(* The script that the game ran gives its variable up.                     *)
(***************************************************************************)
LEMMA EndStep ==
  ASSUME Inv, End
  PROVE  Inv'
<1>1. /\ frames \in Seq(Frames) /\ CacheFits(map, cache) /\ MapFits(map) /\ data \in [Variables -> 0 .. MaxID]
      /\ ClaimsApart /\ QuestsFit /\ LeftFit
  BY DEF Inv, Typed
<1>. PICK id : id = Top.local
  OBVIOUS
<1>2. Len(frames) = 1 /\ map' = MarkTemporary(map, id, TRUE) /\ frames' = <<>> /\ cache' = cache /\ data' = data
  BY DEF End
<1>3. DOMAIN frames = {1} /\ Top = frames[1]
  BY <1>1, <1>2, StackFacts DEF Top, Last
<1>4. /\ id \in DOMAIN map.vars \cup {NoString}
      /\ \A x \in Variables : data[x] # NoString =>
           /\ data[x] # id /\ Exists(map, data[x]) /\ (data[x] = cache.id => cache.inUse)
           /\ \A y \in Variables : y # x => data[y] # data[x]
  BY <1>1, <1>3, ClaimsAre DEF Exists
<1>5. MapFits(map') /\ map'.vars = map.vars /\ map'.tempIDs = map.tempIDs \cup ({id} \ {NoString})
  BY ONLY <1>1, <1>2, <1>4 DEF MapFits, MarkTemporary
<1>6. CacheFits(map', cache')
  BY <1>1, <1>2, <1>5 DEF CacheFits, Exists
<1>7. QuestsFit'
  BY <1>1, <1>2, <1>4, <1>5 DEF QuestsFit
<1>8. LeftFit'
  <2>1. NoString \notin DOMAIN map.vars
    BY <1>1 DEF MapFits, NoString
  <2>. QED  BY <1>1, <1>2, <1>3, <1>5, <2>1 DEF LeftFit
<1>9. BetweenScripts'
  BY <1>1, <1>2, <1>4, <1>5, <1>6, <1>7, <1>8 DEF BetweenScripts, Exists
<1>. QED  BY <1>9, EmptyStack, PTL

LEMMA Between ==
  ASSUME Inv, frames = <<>>
  PROVE  BetweenScripts
BY ClaimsAre DEF Inv, Typed, BetweenScripts

(***************************************************************************)
(* A frame passes: temporary strings are deleted, but for the cached one.  *)
(***************************************************************************)
LEMMA CleanProperties ==
  ASSUME MapFits(map), NEW n, n = Clean(map)
  PROVE  /\ MapFits(n) /\ DOMAIN n.vars = DOMAIN map.vars \ (map.tempIDs \ {cache.id, NoString})
         /\ \A i \in DOMAIN n.vars : n.vars[i] = map.vars[i]
         /\ n.tempIDs = {}
<1>. PICK ids : ids = map.tempIDs
  OBVIOUS
<1>1. ids \subseteq DOMAIN map.vars \cup {NoString} /\ n = Deleted(map, ids)
  BY DEF MapFits, Clean
<1>. QED  BY <1>1, DeletedProperties

LEMMA NextFrameStep ==
  ASSUME Inv, NextFrame
  PROVE  Inv'
<1>1. BetweenScripts
  BY Between DEF NextFrame
<1>. USE DEF BetweenScripts
<1>2. map' = Clean(map) /\ cache' = cache /\ data' = data /\ frames' = <<>>
  BY <1>1 DEF NextFrame
<1>3. /\ MapFits(map') /\ DOMAIN map'.vars = DOMAIN map.vars \ (map.tempIDs \ {cache.id, NoString})
      /\ \A i \in DOMAIN map'.vars : map'.vars[i] = map.vars[i]
      /\ map'.tempIDs = {}
  BY <1>1, <1>2, CleanProperties
<1>4. \A x \in Variables : data[x] # NoString => Exists(map', data[x])
  BY <1>1, <1>3 DEF QuestsFit, Exists
<1>5. CacheFits(map', cache')
  BY <1>1, <1>2, <1>3 DEF CacheFits, Exists
<1>6. QuestsFit'
  BY <1>1, <1>2, <1>3, <1>4 DEF QuestsFit, Exists
<1>7. LeftFit'
  <2>. SUFFICES ASSUME NEW id \in DOMAIN map'.vars, id # cache'.id
                PROVE  \E x \in Variables : data'[x] = id
    BY DEF LeftFit
  <2>1. id \in DOMAIN map.vars /\ id \notin map.tempIDs /\ id # cache.id
    BY <1>1, <1>2, <1>3 DEF MapFits, NoString
  <2>. QED  BY <1>1, <1>2, <2>1 DEF LeftFit
<1>8. BetweenScripts'
  BY <1>1, <1>2, <1>3, <1>4, <1>5, <1>6, <1>7
<1>. QED  BY <1>8, EmptyStack, PTL

(***************************************************************************)
(* A game is saved and loaded: what a variable holds is not temporary and  *)
(* is saved under the mod of the variable.                                 *)
(***************************************************************************)
LEMMA SavedAndLoaded ==
  ASSUME MapFits(map), CacheFits(map, cache), NEW gone, NEW n, n = Loaded(Recorded(Clean(map)), gone)
  PROVE  /\ MapFits(n) /\ n.tempIDs = {}
         /\ DOMAIN n.vars \subseteq DOMAIN map.vars
         /\ \A i \in DOMAIN map.vars :
              i \in DOMAIN n.vars <=> /\ i \notin map.tempIDs \/ i = cache.id
                                      /\ map.vars[i].owner \notin gone \cup {NoMod}
         /\ \A i \in DOMAIN n.vars : n.vars[i] = map.vars[i]
<1>. PICK m : m = Clean(map)
  OBVIOUS
<1>1. /\ MapFits(m) /\ DOMAIN m.vars = DOMAIN map.vars \ (map.tempIDs \ {cache.id, NoString})
      /\ \A i \in DOMAIN m.vars : m.vars[i] = map.vars[i]
      /\ m.tempIDs = {}
  BY CleanProperties
<1>. PICK strings : strings = Recorded(m)
  OBVIOUS
<1>2. /\ DOMAIN strings = {id \in DOMAIN m.vars : m.vars[id].owner # NoMod}
      /\ \A i \in DOMAIN strings : strings[i] = m.vars[i]
  BY <1>1 DEF Recorded, Restrict
<1>3. /\ n.vars = [i \in {id \in DOMAIN strings : strings[id].owner \notin gone} |-> strings[i]]
      /\ n.tempIDs = {} /\ n.availableIDs = {}
      /\ n = [vars |-> n.vars, tempIDs |-> n.tempIDs, availableIDs |-> n.availableIDs]
  <2>. PICK vars0 : vars0 = [i \in {id \in DOMAIN strings : strings[id].owner \notin gone} |-> strings[i]]
    OBVIOUS
  <2>1. n = [vars |-> vars0, tempIDs |-> {}, availableIDs |-> {}]
    <3>1. n = [EmptyMap EXCEPT !.vars = vars0]
      BY DEF Loaded, Restrict
    <3>. QED  BY ONLY <3>1 DEF EmptyMap
  <2>. QED  BY <2>1
<1>4. /\ DOMAIN n.vars = {id \in DOMAIN strings : strings[id].owner \notin gone}
      /\ \A i \in DOMAIN n.vars : n.vars[i] = strings[i]
      /\ n.vars = [i \in DOMAIN n.vars |-> n.vars[i]]
  BY <1>3
<1>5. \A i \in DOMAIN map.vars :
        i \in DOMAIN n.vars <=> /\ i \notin map.tempIDs \/ i = cache.id
                                /\ map.vars[i].owner \notin gone \cup {NoMod}
  BY <1>1, <1>2, <1>4 DEF MapFits, NoString
<1>6. DOMAIN n.vars \subseteq DOMAIN map.vars /\ \A i \in DOMAIN n.vars : n.vars[i] = map.vars[i]
  BY <1>1, <1>2, <1>4
<1>7. MapFits(n)
  <2>1. \A i \in DOMAIN n.vars : n.vars[i] \in Strings /\ i \in 1 .. MaxID
    BY ONLY <1>6, MapFits(map) DEF MapFits
  <2>2. n.vars \in [DOMAIN n.vars -> Strings] /\ DOMAIN n.vars \subseteq 1 .. MaxID
    BY ONLY <1>4, <2>1
  <2>. QED  BY ONLY <1>3, <2>2 DEF MapFits
<1>. QED  BY <1>3, <1>5, <1>6, <1>7

LEMMA LoadedGame ==
  ASSUME Inv, NEW gone \in SUBSET Mods, SaveAndLoad(gone)
  PROVE  /\ lost' \/ Inv'
         /\ LeftFit'
         /\ \A x \in Variables : ModOf[x] \notin gone /\ data[x] # NoString =>
              IF Unsaved(data[x]) THEN ~Exists(map', data'[x])
              ELSE Exists(map', data'[x]) /\ map'.vars[data'[x]].text = map.vars[data[x]].text
<1>1. BetweenScripts
  BY Between DEF SaveAndLoad
<1>. USE DEF BetweenScripts
<1>2. /\ map' = Loaded(Recorded(Clean(map)), gone) /\ cache' = [id |-> NoString, inUse |-> FALSE]
      /\ frames' = <<>>
      /\ data' = [x \in Variables |-> IF ModOf[x] \in gone THEN NoString ELSE data[x]]
      /\ lost' = \E x \in Variables : ModOf[x] \notin gone /\ Unsaved(data[x])
  BY <1>1 DEF SaveAndLoad
<1>3. /\ MapFits(map') /\ map'.tempIDs = {} /\ DOMAIN map'.vars \subseteq DOMAIN map.vars
      /\ \A i \in DOMAIN map.vars :
           i \in DOMAIN map'.vars <=> /\ i \notin map.tempIDs \/ i = cache.id
                                      /\ map.vars[i].owner \notin gone \cup {NoMod}
      /\ \A i \in DOMAIN map'.vars : map'.vars[i] = map.vars[i]
  BY <1>1, <1>2, SavedAndLoaded
<1>4. \A x \in Variables : ModOf[x] \in Mods /\ ModOf[x] # NoMod
  BY ConstantsAssumption DEF ConstantsAssumption
<1>5. /\ data' \in [Variables -> 0 .. MaxID]
      /\ \A x \in Variables : IF ModOf[x] \in gone THEN data'[x] = NoString ELSE data'[x] = data[x]
  BY <1>1, <1>2, ConstantsAssumption DEF ConstantsAssumption, NoString
<1>6. \A x \in Variables : data'[x] # NoString =>
        /\ data'[x] = data[x] /\ ModOf[x] \notin gone
        /\ IF Unsaved(data[x]) THEN data[x] \notin DOMAIN map'.vars
           ELSE data[x] \in DOMAIN map'.vars /\ map'.vars[data[x]].owner = ModOf[x]
  BY <1>1, <1>3, <1>4, <1>5 DEF QuestsFit, Exists, Unsaved
<1>a. ~lost' => \A x \in Variables : data'[x] # NoString => ~Unsaved(data[x])
  BY <1>2, <1>6
<1>7. CacheFits(map', cache')
  BY <1>2, ConstantsAssumption DEF CacheFits, Caches, ConstantsAssumption, NoString
<1>8. ~lost' => QuestsFit'
  BY <1>3, <1>6, <1>a DEF QuestsFit
<1>9. LeftFit'
  <2>. SUFFICES ASSUME NEW id \in DOMAIN map'.vars
                PROVE  \E x \in Variables : data'[x] = id
    BY DEF LeftFit
  <2>1. id \in DOMAIN map.vars /\ (id \notin map.tempIDs \/ id = cache.id) /\ map.vars[id].owner \notin gone \cup {NoMod}
    BY <1>3
  <2>2. id # NoString /\ id # cache.id
    BY <1>1, <2>1 DEF MapFits, NoString, CacheFits
  <2>3. PICK x \in Variables : data[x] = id
    BY <1>1, <2>1, <2>2 DEF LeftFit
  <2>4. ModOf[x] \notin gone
    BY <1>1, <2>1, <2>2, <2>3 DEF QuestsFit
  <2>. QED  BY <1>5, <2>3, <2>4
<1>10. ~lost' => \A x \in Variables : data'[x] # NoString =>
         /\ Exists(map', data'[x]) /\ data'[x] # cache'.id
         /\ \A y \in Variables : y # x => data'[y] # data'[x]
  <2>1. \A x \in Variables : data'[x] = NoString \/ data'[x] = data[x]
    BY <1>5
  <2>. QED  BY <1>1, <1>2, <1>6, <1>a, <2>1 DEF Exists
<1>11. ~lost' => BetweenScripts'
  BY <1>2, <1>3, <1>5, <1>7, <1>8, <1>9, <1>10
<1>12. lost' \/ Inv'
  BY <1>11, EmptyStack, PTL
<1>13. ASSUME NEW x \in Variables, ModOf[x] \notin gone, data[x] # NoString
       PROVE  IF Unsaved(data[x]) THEN ~Exists(map', data'[x])
              ELSE Exists(map', data'[x]) /\ map'.vars[data'[x]].text = map.vars[data[x]].text
  BY <1>3, <1>5, <1>6, <1>13 DEF Exists
<1>. QED  BY <1>9, <1>12, <1>13

(***************************************************************************)
(* The variable x of the top script has the string id after a line: it is  *)
(* the one x had, or a new one.  What the line has computed is destroyed,  *)
(* and no one else's string changes.                                       *)
(***************************************************************************)
VariableGiven(n, f, x, id, toks) ==
  /\ n = Len(frames) /\ n \in DOMAIN frames /\ StackStep(n, f, 0, 0) /\ f.line = NoLine
  /\ x \in Variables \cup {Local} /\ id # NoString /\ id \in 0 .. MaxID
  /\ IF x = Local THEN f.local = id /\ frames[n].local \in {id, NoString} /\ data' = data
     ELSE f.local = frames[n].local /\ data' = [data EXCEPT ![x] = id] /\ data[x] \in {id, NoString}
  /\ Exists(map, id) => id = IF x = Local THEN frames[n].local ELSE data[x]
  /\ MapFits(map') /\ DOMAIN map'.vars = DOMAIN map.vars \cup {id}
  /\ map'.tempIDs \subseteq map.tempIDs /\ map.tempIDs \subseteq map'.tempIDs \cup {id}
  /\ \A i \in DOMAIN map.vars :
       /\ map'.vars[i].owner = map.vars[i].owner
       /\ map'.vars[i] = map.vars[i] \/ i = id \/ \E t \in toks : t.rvalue /\ t.id = i
  /\ x \in Variables /\ ~Exists(map, id) => map'.vars[id].owner \in {ModOf[x], NoMod}
  /\ \A t \in toks : \E k \in DOMAIN frames[n].line.ops : t = frames[n].line.ops[k]
  /\ cache' = Released(cache, toks)

LEMMA VariableStep ==
  ASSUME Inv, NEW n, NEW f, NEW x, NEW id, NEW toks, VariableGiven(n, f, x, id, toks)
  PROVE  Inv'
<1>0. /\ frames \in Seq(Frames) /\ CacheFits(map, cache) /\ MapFits(map) /\ data \in [Variables -> 0 .. MaxID]
      /\ ClaimsApart /\ LinesFit /\ OperandsFit /\ QuestsFit /\ LeftFit
  BY DEF Inv, Typed
<1>1. /\ n = Len(frames) /\ n \in DOMAIN frames /\ StackStep(n, f, 0, 0) /\ f.line = NoLine
      /\ x \in Variables \cup {Local} /\ id # NoString /\ id \in 0 .. MaxID
  BY DEF VariableGiven
<1>a. /\ IF x = Local THEN f.local = id /\ frames[n].local \in {id, NoString} /\ data' = data
         ELSE f.local = frames[n].local /\ data' = [data EXCEPT ![x] = id] /\ data[x] \in {id, NoString}
      /\ Exists(map, id) => id = IF x = Local THEN frames[n].local ELSE data[x]
  BY DEF VariableGiven
<1>b. /\ MapFits(map') /\ DOMAIN map'.vars = DOMAIN map.vars \cup {id}
      /\ map'.tempIDs \subseteq map.tempIDs /\ map.tempIDs \subseteq map'.tempIDs \cup {id}
  BY DEF VariableGiven
<1>c. \A i \in DOMAIN map.vars :
        /\ map'.vars[i].owner = map.vars[i].owner
        /\ map'.vars[i] = map.vars[i] \/ i = id \/ \E t \in toks : t.rvalue /\ t.id = i
  BY DEF VariableGiven
<1>d. x \in Variables /\ ~Exists(map, id) => map'.vars[id].owner \in {ModOf[x], NoMod}
  BY DEF VariableGiven
<1>e. \A t \in toks : \E k \in DOMAIN frames[n].line.ops : t = frames[n].line.ops[k]
  BY DEF VariableGiven
<1>f. cache' = Released(cache, toks)
  BY DEF VariableGiven
<1>2. /\ n \in Nat \ {0} /\ DOMAIN frames = 1 .. n /\ DOMAIN frames' = 1 .. n /\ frames'[n] = f
      /\ \A i \in 1 .. n - 1 : frames'[i] = frames[i] /\ i \in DOMAIN frames /\ i # n
      /\ frames' \in Seq(Frames) /\ f \in Frames
  BY <1>0, <1>1, StackFacts DEF StackStep
<1>3. DOMAIN f.line.ops = {} /\ \A d : LineFits(d, f)
  BY <1>1, EmptySeq DEF NoLine, Line, LineFits
<1>4. /\ \A y \in Variables : data'[y] = data[y] \/ (y = x /\ data'[y] = id /\ data[y] = NoString)
      /\ data' \in [Variables -> 0 .. MaxID]
      /\ x \in Variables => x # Local
  BY <1>0, <1>1, <1>a, ConstantsAssumption DEF ConstantsAssumption
<1>5. CacheFits(map', cache') /\ cache'.id = cache.id /\ cache \in Caches
  <2>1. CacheFits(map', cache)
    BY <1>0, <1>b, <1>c DEF CacheFits, Exists
  <2>. QED  BY <2>1, <1>f, ReleasedFits DEF CacheFits
<1>6. Typed'
  BY <1>2, <1>4, <1>5, <1>b DEF Typed
<1>7. /\ \A i \in DOMAIN map.vars : Exists(map', i)
      /\ Exists(map', id)
      /\ \A e : Destroys(n, f, e, toks)
      /\ n <= Len(frames)
  BY <1>1, <1>2, <1>3, <1>b, <1>e DEF Exists, Destroys
<1>8. ClaimsApart'
  <2>1. CASE Exists(map, id)
    <3>. PICK e : e = <<"none", 0, 0>>
      OBVIOUS
    <3>1. f.local = frames[n].local /\ \A y \in Variables : data'[y] = data[y]
      BY <1>0, <1>1, <1>4, <1>a, <2>1
    <3>2. OwnersMove(n, f, 0, 0, e, NoString)
      BY <1>1, <1>2, <1>3, <3>1 DEF OwnersMove
    <3>3. CacheMoves(NoString, cache, toks)
      BY <1>5, <1>f DEF CacheMoves
    <3>. QED  BY <1>0, <1>1, <1>2, <1>7, <3>2, <3>3, StepClaims
  <2>2. CASE ~Exists(map, id)
    <3>0. CacheMoves(id, cache, toks) /\ Unclaimed(id)
      <4>1. cache.id # id
        BY <1>0, <1>1, <2>2 DEF CacheFits
      <4>. QED  BY <1>5, <1>f, <2>2, <4>1 DEF CacheMoves, Unclaimed
    <3>1. CASE x = Local
      <4>. PICK e : e = <<"local", n, 0>>
        OBVIOUS
      <4>1. f.local = id /\ \A y \in Variables : data'[y] = data[y]
        BY <1>4, <1>a, <3>1
      <4>2. OwnersMove(n, f, 0, 0, e, id)
        BY <1>1, <1>2, <1>3, <4>1 DEF OwnersMove
      <4>. QED  BY <1>0, <1>1, <1>2, <1>7, <3>0, <4>2, StepClaims
    <3>2. CASE x # Local
      <4>. PICK e : e = <<"quest", x, 0>>
        OBVIOUS
      <4>1. f.local = frames[n].local /\ x \in Variables /\ data'[x] = id /\ n <= Len(frames)
        BY <1>0, <1>1, <1>7, <1>a, <3>2
      <4>3. \A y \in Variables : IF e = <<"quest", y, 0>> THEN data'[y] \in {id, NoString}
                                ELSE data'[y] \in {data[y], NoString}
        BY <1>4, <4>1
      <4>4. e # <<"local", n, 0>>
        OBVIOUS
      <4>2. OwnersMove(n, f, 0, 0, e, id)
        BY <1>3, <4>1, <4>3, <4>4 DEF OwnersMove
      <4>. QED  BY <1>0, <1>1, <1>2, <1>7, <3>0, <4>2, StepClaims
    <3>. QED  BY <3>1, <3>2
  <2>. QED  BY <2>1, <2>2
<1>9. LinesFit'
  <2>1. \A i \in 1 .. n - 1 : frames[i].line.kind # "none"
    BY <1>0, <1>1, <1>2, LinesBelow
  <2>2. \A y \in Variables : data'[y] # data[y] =>
            \A i \in 1 .. n - 1 : frames[i].line.lhs # NoString => frames[i].line.target # y
    <3>. SUFFICES ASSUME NEW y \in Variables, data'[y] # data[y], NEW i \in 1 .. n - 1,
                         frames[i].line.lhs # NoString, frames[i].line.target = y
                  PROVE  FALSE
      OBVIOUS
    <3>1. data[y] = NoString /\ y # Local
      BY <1>4, ConstantsAssumption DEF ConstantsAssumption
    <3>2. LineFits(data, frames[i])
      BY <1>0, <1>2 DEF LinesFit
    <3>. QED  BY <3>1, <3>2 DEF LineFits
  <2>. QED  BY <1>0, <1>1, <1>3, <2>1, <2>2, LinesStep
<1>10. OperandsFit'
  <2>1. ASSUME NEW i \in DOMAIN frames, NEW k \in DOMAIN frames[i].line.ops, i # n
        PROVE  Kept(frames[i].line.ops[k])
    <3>. PICK t : t = frames[i].line.ops[k]
      OBVIOUS
    <3>1. OperandFits(map, cache, t, frames[i].mod)
      BY <1>0 DEF OperandsFit
    <3>2. t.id # NoString => Exists(map', t.id)
      BY <1>7, <3>1 DEF OperandFits, Exists
    <3>3. ASSUME t.rvalue
          PROVE  map'.vars[t.id] = map.vars[t.id]
      <4>1. t.id # NoString /\ t.id \in DOMAIN map.vars
        BY <3>1, <3>3 DEF OperandFits, Exists
      <4>2. t.id # id
        <5>1. frames[n].local = t.id => FALSE
          BY <1>0, <1>1, <3>3, <4>1, ClaimsAre
        <5>2. \A y \in Variables : data[y] # t.id
          BY <1>0, <1>1, <3>3, <4>1, ClaimsAre
        <5>. QED  BY <1>1, <1>a, <4>1, <5>1, <5>2 DEF Exists
      <4>3. ASSUME NEW u \in toks, u.rvalue
            PROVE  u.id # t.id
        <5>1. PICK l \in DOMAIN frames[n].line.ops : u = frames[n].line.ops[l]
          BY <1>e
        <5>2. <<i, k>> # <<n, l>>
          BY <2>1
        <5>. QED  BY <1>0, <1>1, <3>3, <4>1, <4>3, <5>1, <5>2, ClaimsAre
      <4>. QED  BY <1>c, <4>1, <4>2, <4>3
    <3>. QED  BY <1>5, <3>2, <3>3 DEF Kept
  <2>2. \A i \in DOMAIN frames : \A k \in DOMAIN frames[i].line.ops :
            i < n \/ (i = n /\ k \in DOMAIN f.line.ops /\ k # 0) => Kept(frames[i].line.ops[k])
    BY <1>2, <1>3, <2>1
  <2>3. 0 \in DOMAIN f.line.ops => OperandFits(map', cache', 0, f.mod)
    BY <1>3
  <2>. QED  BY <1>0, <1>1, <2>2, <2>3, OperandsStep
<1>11. QuestsFit'
  <2>. SUFFICES ASSUME NEW y \in Variables, data'[y] # NoString
                PROVE  map'.vars[data'[y]].owner \in {ModOf[y], NoMod} /\ data'[y] \notin map'.tempIDs
    BY DEF QuestsFit
  <2>1. CASE data'[y] = data[y]
    <3>1. /\ data[y] \in DOMAIN map.vars /\ map.vars[data[y]].owner \in {ModOf[y], NoMod}
          /\ data[y] \notin map.tempIDs
      BY <1>0, <2>1, ClaimsAre DEF QuestsFit, Exists
    <3>. QED  BY <1>b, <1>c, <2>1, <3>1
  <2>2. CASE y = x /\ data'[y] = id /\ data[y] = NoString
    <3>1. ~Exists(map, id) /\ id \notin map.tempIDs
      BY <1>0, <1>1, <1>4, <1>a, <2>2 DEF MapFits, Exists
    <3>. QED  BY <1>b, <1>d, <2>2, <3>1
  <2>. QED  BY <1>4, <2>1, <2>2
<1>12. LeftFit'
  <2>. SUFFICES ASSUME NEW i \in DOMAIN map'.vars, i \notin map'.tempIDs \cup {cache'.id}
                PROVE  \/ \E y \in Variables : data'[y] = i
                       \/ \E j \in DOMAIN frames' : frames'[j].local = i
    BY DEF LeftFit
  <2>1. CASE i = id
    <3>1. CASE x = Local
      BY <1>2, <1>a, <2>1, <3>1
    <3>2. CASE x # Local
      BY <1>0, <1>1, <1>a, <2>1, <3>2
    <3>. QED  BY <3>1, <3>2
  <2>2. CASE i # id
    <3>1. i \in DOMAIN map.vars /\ i \notin map.tempIDs /\ i # cache.id /\ i # NoString
      BY <1>0, <1>5, <1>b, <2>2 DEF MapFits, NoString
    <3>2. (\E y \in Variables : data[y] = i) \/ \E j \in DOMAIN frames : frames[j].local = i
      BY <1>0, <3>1 DEF LeftFit
    <3>3. ASSUME NEW y \in Variables, data[y] = i
          PROVE  data'[y] = i
      BY <1>4, <3>1, <3>3
    <3>4. ASSUME NEW j \in DOMAIN frames, frames[j].local = i
          PROVE  j \in DOMAIN frames' /\ frames'[j].local = i
      <4>1. CASE j = n
        BY <1>2, <1>a, <2>2, <3>1, <3>4, <4>1
      <4>2. CASE j # n
        BY <1>2, <3>4, <4>2
      <4>. QED  BY <4>1, <4>2
    <3>. QED  BY <3>2, <3>3, <3>4
  <2>. QED  BY <2>1, <2>2
<1>. QED  BY <1>6, <1>8, <1>9, <1>10, <1>11, <1>12 DEF Inv

(***************************************************************************)
(* The top script stores an ID in its variable, or in one of a quest.      *)
(***************************************************************************)
Stored(n, g, x, id, f) ==
  /\ f \in Frames /\ f.mod = g.mod /\ f.line = NoLine /\ DOMAIN f.line.ops = {}
  /\ f.local = IF x = Local THEN id ELSE g.local
  /\ StackStep(n, f, 0, 0)
  /\ IF x = Local THEN data' = data ELSE data' = [data EXCEPT ![x] = id]

LEMMA StoreFacts ==
  ASSUME Inv, frames # <<>>, NEW n, n = Len(frames), NEW x \in Variables \cup {Local},
         NEW id \in 0 .. MaxID, NEW g \in Frames, g.mod = Top.mod, g.line = NoLine, Store(x, id, g)
  PROVE  \E f : Stored(n, g, x, id, f)
<1>0. frames \in Seq(Frames)
  BY DEF Inv, Typed
<1>. PICK f : f = IF x = Local THEN [g EXCEPT !.local = id] ELSE g
  OBVIOUS
<1>1. /\ f \in Frames /\ f.mod = g.mod /\ f.line = NoLine
      /\ f.local = IF x = Local THEN id ELSE g.local
  BY DEF Frames
<1>2. DOMAIN f.line.ops = {}
  BY <1>1, EmptySeq DEF NoLine, Line
<1>3. x \in Variables => x # Local
  BY ConstantsAssumption DEF ConstantsAssumption
<1>4. /\ frames' = Append(Front(frames), f)
      /\ IF x = Local THEN data' = data ELSE data' = [data EXCEPT ![x] = id]
  BY <1>3 DEF Store, StoreIn
<1>5. StackStep(n, f, 0, 0)
  BY <1>0, <1>1, <1>2, <1>4, TopStep
<1>. QED  BY <1>1, <1>2, <1>4, <1>5 DEF Stored

(***************************************************************************)
(* A variable without a string is given a new one.                         *)
(***************************************************************************)
LEMMA NewStringStep ==
  ASSUME Inv, frames # <<>>, Fits(map), NEW n, n = Len(frames), NEW x \in Variables \cup {Local},
         ~Exists(map, Value(x)),
         NEW id, id = GetUnusedID(map), NEW g, NEW f, Stored(n, g, x, id, f), g.local = Top.local,
         MapFits(map'), DOMAIN map'.vars = DOMAIN map.vars \cup {id}, map'.tempIDs = map.tempIDs,
         NEW toks, cache' = Released(cache, toks),
         \A t \in toks : \E k \in DOMAIN Top.line.ops : t = Top.line.ops[k],
         \A i \in DOMAIN map.vars :
            /\ map'.vars[i].owner = map.vars[i].owner
            /\ map'.vars[i] = map.vars[i] \/ \E t \in toks : t.rvalue /\ t.id = i,
         x \in Variables => map'.vars[id].owner \in {ModOf[x], NoMod}
  PROVE  Inv'
<1>1. n \in DOMAIN frames /\ Top = frames[n] /\ MapFits(map)
  BY TopFacts DEF Inv, Typed
<1>2. id \in (1 .. MaxID) \ DOMAIN map.vars /\ id # NoString /\ id \in 0 .. MaxID
  <2>1. id \in (1 .. MaxID) \ DOMAIN map.vars
    BY <1>1, FreshID
  <2>. QED  BY <2>1 DEF NoString
<1>3. Value(x) = IF x = Local THEN frames[n].local ELSE data[x]
  BY <1>1 DEF Value, Held
<1>4. Value(x) = NoString
  BY TopFacts
<1>5. IF x = Local THEN f.local = id /\ frames[n].local \in {id, NoString} /\ data' = data
      ELSE f.local = frames[n].local /\ data' = [data EXCEPT ![x] = id] /\ data[x] \in {id, NoString}
  BY <1>1, <1>3, <1>4 DEF Stored
<1>6. StackStep(n, f, 0, 0) /\ f.line = NoLine
  BY DEF Stored
<1>7. ~Exists(map, id)
  BY <1>2 DEF Exists
<1>8. VariableGiven(n, f, x, id, toks)
  BY <1>1, <1>2, <1>5, <1>6, <1>7 DEF VariableGiven
<1>. QED  BY <1>8, VariableStep

(***************************************************************************)
(* `set x to' gives x the string of the result itself: of a command that   *)
(* has an evaluator of its own, or inside an evaluation.                   *)
(***************************************************************************)
LEMMA TopStored ==
  ASSUME Inv, frames # <<>>, Fits(map), NEW t \in Texts, NEW toks, toks \subseteq Range(Top.line.ops),
         NEW x, x \in Variables \cup {Local, Nothing},
         NEW r, r = Result(map, cache, t, Top.mod), SafeSet(Top, x, r),
         map' = r.map, cache' = Released(r.cache, toks), Store(x, r.id, [Top EXCEPT !.line = NoLine])
  PROVE  Inv'
<1>. PICK n, g, mod, m : n = Len(frames) /\ g = Top /\ mod = g.mod /\ m = map
  OBVIOUS
<1>. PICK text \in StringTexts : text = t
  BY DEF StringTexts
<1>1. /\ n \in Nat \ {0} /\ n \in DOMAIN frames /\ g = frames[n] /\ g \in Frames /\ DOMAIN frames = 1 .. n
  BY TopFacts
<1>2. mod \in Mods
  BY <1>1, FrameFacts
<1>3. MapFits(map) /\ QuestsFit
  BY DEF Inv, Typed
<1>4. r.id \in 0 .. MaxID
  BY <1>2, <1>3, ResultFacts
<1>5. PICK f : Ended(n, g, x, r.id, f, toks)
  BY <1>4, TopEnds
<1>6. ASSUME f.local = g.local \/ g.local \in map.tempIDs \cup {NoString}
      PROVE  GivenUp(map)
  <2>1. DOMAIN frames' = 1 .. n /\ frames'[n] = f /\ \A i \in 1 .. n - 1 : frames'[i] = frames[i]
    BY <1>5, StackFacts DEF Ended, StackStep
  <2>2. ASSUME NEW i \in DOMAIN frames, i # n
        PROVE  i \in DOMAIN frames' /\ frames'[i].local = frames[i].local
    BY <1>1, <2>1, <2>2
  <2>3. frames'[n].local = frames[n].local \/ frames[n].local \in map.tempIDs \cup {NoString}
    BY <1>1, <1>6, <2>1
  <2>4. ASSUME NEW i \in DOMAIN frames
        PROVE  \/ frames[i].local = NoString \/ frames[i].local \in map.tempIDs
               \/ i \in DOMAIN frames' /\ frames'[i].local = frames[i].local
    BY <1>1, <2>1, <2>2, <2>3
  <2>. QED  BY <1>3, <2>4 DEF GivenUp, QuestsFit
<1>. QED  BY <1>2, <1>3, <1>5, <1>6, StoredResult

LEMMA SetResultStep ==
  ASSUME Inv, Careful, SetResult
  PROVE  Inv'
<1>. PICK g, toks : g = Top /\ toks = Range(g.line.ops)
  OBVIOUS
<1>1. frames # <<>> /\ Fits(map) /\ g.line.kind = "call"
  BY DEF SetResult, Evaluating
<1>2. PICK t \in Texts : \E r \in {Result(map, cache, t, g.mod)} :
         /\ SafeSet(g, g.line.target, r)
         /\ map' = r.map /\ cache' = Released(r.cache, toks)
         /\ Store(g.line.target, r.id, [g EXCEPT !.line = NoLine])
  BY DEF SetResult
<1>. PICK x, r : x = g.line.target /\ r = Result(map, cache, t, g.mod)
  OBVIOUS
<1>3. /\ SafeSet(g, x, r) /\ map' = r.map /\ cache' = Released(r.cache, toks)
      /\ Store(x, r.id, [g EXCEPT !.line = NoLine])
  BY <1>2
<1>4. x \in Variables \cup {Local, Nothing}
  BY <1>1, TopFacts, FrameFacts
<1>. QED  BY <1>1, <1>3, <1>4, TopStored

LEMMA SetToResult ==
  ASSUME Inv, frames # <<>>, Top.line.kind = "none", Fits(map), NEW t \in Texts,
         NEW x \in Variables \cup {Local}, NEW r, r = Result(map, cache, t, Top.mod),
         SafeSet(Top, x, r), map' = r.map, cache' = r.cache, Store(x, r.id, Top)
  PROVE  Inv'
<1>1. Top \in Frames /\ LineFits(data, Top)
  BY TopFacts
<1>2. Top.line = NoLine /\ [Top EXCEPT !.line = NoLine] = Top /\ Top.mod \in Mods
  BY <1>1, FrameFacts DEF LineFits, Frames
<1>. PICK text \in StringTexts : text = t
  BY DEF StringTexts
<1>3. r.cache \in Caches
  <2>1. MapFits(map)
    BY DEF Inv, Typed
  <2>. QED  BY <1>2, <2>1, ResultFacts
<1>. PICK toks : toks = {}
  OBVIOUS
<1>4. cache' = Released(r.cache, toks) /\ toks \subseteq Range(Top.line.ops)
  BY <1>3, NothingReleased
<1>5. Store(x, r.id, [Top EXCEPT !.line = NoLine])
  BY <1>2
<1>. QED  BY <1>4, <1>5, TopStored

(***************************************************************************)
(* `set x to' outside: what x holds is written into, or x gets a string.   *)
(***************************************************************************)
LEMMA SetToWrites ==
  ASSUME Inv, frames # <<>>, Top.line.kind = "none", NEW t \in Texts, NEW x \in Variables \cup {Local},
         Exists(map, Value(x)), map' = MarkTemporary([map EXCEPT !.vars[Value(x)].text = t], Value(x), FALSE),
         cache' = cache, data' = data, frames' = frames
  PROVE  Inv'
<1>. PICK n, g, id : n = Len(frames) /\ g = Top /\ id = Value(x)
  OBVIOUS
<1>. PICK text \in StringTexts : text = t
  BY DEF StringTexts
<1>. PICK m : m = Written(map, id, text)
  OBVIOUS
<1>1. /\ n \in Nat \ {0} /\ n \in DOMAIN frames /\ g = frames[n] /\ g \in Frames /\ LineFits(data, g)
      /\ id \in 0 .. MaxID
  BY TopFacts
<1>2. g.line = NoLine
  BY <1>1 DEF LineFits
<1>3. MapFits(map) /\ CacheFits(map, cache) /\ data \in [Variables -> 0 .. MaxID] /\ frames \in Seq(Frames)
  BY DEF Inv, Typed
<1>4. id \in DOMAIN map.vars /\ id # NoString
  BY <1>3 DEF MapFits, Exists, NoString
<1>5. /\ MapFits(m) /\ DOMAIN m.vars = DOMAIN map.vars
      /\ \A i \in DOMAIN map.vars : m.vars[i].owner = map.vars[i].owner /\ (i # id => m.vars[i] = map.vars[i])
      /\ m.tempIDs = map.tempIDs
  BY <1>3, <1>4, WrittenProperties
<1>6. map' = MarkTemporary(m, id, FALSE)
  BY DEF Written
<1>7. MapFits(map') /\ map'.vars = m.vars /\ map'.tempIDs = m.tempIDs \ {id}
  BY ONLY <1>5, <1>6 DEF MapFits, MarkTemporary
<1>8. id = IF x = Local THEN g.local ELSE data[x]
  BY <1>1 DEF Value, Held
<1>9. StackStep(n, g, 0, 0)
  <2>1. DOMAIN g.line.ops = {}
    BY <1>2, EmptySeq DEF NoLine, Line
  <2>2. Len(frames) \in Nat /\ DOMAIN frames = 1 .. Len(frames)
    BY <1>3, StackFacts
  <2>. QED  BY <1>1, <1>3, <2>1, <2>2 DEF StackStep
<1>. PICK toks : toks = {}
  OBVIOUS
<1>10. cache' = Released(cache, toks)
  BY <1>3, NothingReleased DEF CacheFits
<1>11. IF x = Local THEN g.local = id /\ frames[n].local \in {id, NoString} /\ data' = data
       ELSE g.local = frames[n].local /\ data' = [data EXCEPT ![x] = id] /\ data[x] \in {id, NoString}
  BY <1>1, <1>3, <1>8
<1>12. /\ MapFits(map') /\ DOMAIN map'.vars = DOMAIN map.vars \cup {id}
       /\ map'.tempIDs \subseteq map.tempIDs /\ map.tempIDs \subseteq map'.tempIDs \cup {id}
       /\ \A i \in DOMAIN map.vars :
            /\ map'.vars[i].owner = map.vars[i].owner
            /\ map'.vars[i] = map.vars[i] \/ i = id
  BY <1>4, <1>5, <1>7
<1>13. VariableGiven(n, g, x, id, toks)
  BY <1>1, <1>2, <1>4, <1>8, <1>9, <1>10, <1>11, <1>12 DEF VariableGiven, Exists
<1>. QED  BY <1>13, VariableStep

LEMMA SetToAdds ==
  ASSUME Inv, frames # <<>>, Top.line.kind = "none", Fits(map), NEW t \in Texts,
         NEW x \in Variables \cup {Local}, ~Exists(map, Value(x)),
         map' = Added(map, [text |-> t, owner |-> IF x = Local THEN Top.mod ELSE ModOf[x]], FALSE),
         cache' = cache, Store(x, GetUnusedID(map), Top)
  PROVE  Inv'
<1>. PICK n, g, id : n = Len(frames) /\ g = Top /\ id = GetUnusedID(map)
  OBVIOUS
<1>1. /\ n \in Nat \ {0} /\ n \in DOMAIN frames /\ g = frames[n] /\ g \in Frames /\ LineFits(data, g)
  BY TopFacts
<1>2. g.line = NoLine /\ g.mod \in Mods
  BY <1>1, FrameFacts DEF LineFits
<1>3. MapFits(map) /\ cache \in Caches
  BY DEF Inv, Typed, CacheFits
<1>4. id \in 0 .. MaxID
  BY <1>3, FreshID
<1>. PICK string : string = [text |-> t, owner |-> IF x = Local THEN g.mod ELSE ModOf[x]]
  OBVIOUS
<1>5. string \in Strings /\ (x \in Variables => string.owner = ModOf[x])
  BY <1>2, ConstantsAssumption DEF Strings, StringTexts, ConstantsAssumption
<1>. PICK temps, m : temps = map.tempIDs /\ m = WithString(map, string, temps)
  OBVIOUS
<1>6. /\ MapFits(m) /\ DOMAIN m.vars = DOMAIN map.vars \cup {id} /\ m.vars[id] = string
      /\ \A i \in DOMAIN map.vars : m.vars[i] = map.vars[i]
      /\ m.tempIDs = map.tempIDs
  BY <1>3, <1>5, AddedProperties
<1>7. map' = m
  BY AddedIsWithString
<1>8. PICK f : Stored(n, g, x, id, f)
  BY <1>1, <1>2, <1>4, StoreFacts
<1>. PICK toks : toks = {}
  OBVIOUS
<1>9. cache' = Released(cache, toks)
  BY <1>3, NothingReleased
<1>10. /\ MapFits(map') /\ DOMAIN map'.vars = DOMAIN map.vars \cup {id} /\ map'.tempIDs = map.tempIDs
       /\ \A i \in DOMAIN map.vars :
            /\ map'.vars[i].owner = map.vars[i].owner
            /\ map'.vars[i] = map.vars[i] \/ \E u \in toks : u.rvalue /\ u.id = i
       /\ x \in Variables => map'.vars[id].owner \in {ModOf[x], NoMod}
  BY <1>5, <1>6, <1>7
<1>11. g.local = Top.local /\ \A u \in toks : \E k \in DOMAIN Top.line.ops : u = Top.line.ops[k]
  OBVIOUS
<1>. QED  BY ONLY Inv, frames # <<>>, Fits(map), n = Len(frames), x \in Variables \cup {Local},
                 ~Exists(map, Value(x)), id = GetUnusedID(map),
                 <1>8, <1>9, <1>10, <1>11, NewStringStep

LEMMA SetToStep ==
  ASSUME Inv, Careful, SetTo
  PROVE  Inv'
<1>0. frames # <<>> /\ Top.line.kind = "none" /\ Fits(map)
  BY DEF SetTo
<1>. PICK t \in Texts, x \in Variables \cup {Local} :
         IF Active
         THEN \E r \in {Result(map, cache, t, Top.mod)} :
                /\ Careful => SafeSet(Top, x, r)
                /\ map' = r.map /\ cache' = r.cache
                /\ Store(x, r.id, Top)
         ELSE /\ UNCHANGED cache
              /\ IF Exists(map, Value(x))
                 THEN /\ map' = MarkTemporary([map EXCEPT !.vars[Value(x)].text = t], Value(x), FALSE)
                      /\ UNCHANGED <<data, frames>>
                 ELSE /\ map' = Added(map, [text |-> t, owner |-> IF x = Local THEN Top.mod ELSE ModOf[x]], FALSE)
                      /\ Store(x, GetUnusedID(map), Top)
  BY DEF SetTo
<1>1. CASE Active
  <2>. PICK r : r = Result(map, cache, t, Top.mod)
    OBVIOUS
  <2>1. SafeSet(Top, x, r) /\ map' = r.map /\ cache' = r.cache /\ Store(x, r.id, Top)
    BY <1>1
  <2>. QED  BY <1>0, <2>1, SetToResult
<1>2. CASE ~Active /\ Exists(map, Value(x))
  BY <1>0, <1>2, SetToWrites
<1>3. CASE ~Active /\ ~Exists(map, Value(x))
  BY <1>0, <1>3, SetToAdds
<1>. QED  BY <1>1, <1>2, <1>3

(***************************************************************************)
(* A line assigns its only operand to its variable.                        *)
(***************************************************************************)
Assigning(n, x, tok, h) ==
  /\ frames # <<>> /\ n = Len(frames) /\ x = Top.line.target /\ x \in Variables \cup {Local}
  /\ h \in Frames /\ h.mod = Top.mod /\ h.local = Top.local /\ h.line = NoLine
  /\ \E k \in DOMAIN Top.line.ops : tok = Top.line.ops[k]
  /\ tok \in Tokens /\ OperandFits(map, cache, tok, Top.mod)
  /\ x \in Variables => ModOf[x] = Top.mod
  /\ map' = Assigned(map, Value(x), tok, Top.mod)
  /\ cache' = Released(cache, {tok})

LEMMA AssignedFacts ==
  ASSUME Inv, NEW n, NEW x, NEW tok, NEW h, Assigning(n, x, tok, h), Exists(map, Value(x)) \/ Fits(map),
         NEW id, id = IF Exists(map, Value(x)) THEN Value(x) ELSE GetUnusedID(map)
  PROVE  /\ MapFits(map') /\ DOMAIN map'.vars = DOMAIN map.vars \cup {id} /\ map'.tempIDs = map.tempIDs
         /\ \A i \in DOMAIN map.vars : map'.vars[i].owner = map.vars[i].owner
         /\ \A i \in DOMAIN map.vars : i # id /\ (tok.rvalue => i # tok.id) => map'.vars[i] = map.vars[i]
         /\ ~Exists(map, Value(x)) =>
              map'.vars[id].owner = IF tok.rvalue THEN map.vars[tok.id].owner ELSE Top.mod
         /\ id \in 0 .. MaxID
<1>. PICK lhs, mod, new : lhs = Value(x) /\ mod = Top.mod /\ new = GetUnusedID(map)
  OBVIOUS
<1>1. MapFits(map)
  BY DEF Inv, Typed
<1>2. tok \in Tokens /\ (tok.id # NoString => Exists(map, tok.id)) /\ (tok.rvalue => tok.id # NoString)
  BY DEF Assigning, OperandFits
<1>3. frames # <<>> /\ x \in Variables \cup {Local} /\ map' = Assigned(map, lhs, tok, mod)
  BY DEF Assigning
<1>4. Top \in Frames /\ lhs \in 0 .. MaxID
  BY <1>3, TopFacts
<1>5. mod \in Mods
  BY <1>4, FrameFacts
<1>6. id = IF Exists(map, lhs) THEN lhs ELSE new
  OBVIOUS
<1>. PICK m : m = Assigned(map, lhs, tok, mod)
  OBVIOUS
<1>7. Exists(map, lhs) \/ Fits(map)
  OBVIOUS
<1>8. /\ MapFits(m) /\ DOMAIN m.vars = DOMAIN map.vars \cup {id}
      /\ m.tempIDs = map.tempIDs
      /\ \A i \in DOMAIN map.vars : m.vars[i].owner = map.vars[i].owner
      /\ \A i \in DOMAIN map.vars : i # id /\ (tok.rvalue => i # tok.id) => m.vars[i] = map.vars[i]
      /\ ~Exists(map, lhs) => m.vars[new].owner = IF tok.rvalue THEN map.vars[tok.id].owner ELSE mod
  BY ONLY <1>1, <1>2, <1>5, <1>6, <1>7, m = Assigned(map, lhs, tok, mod), new = GetUnusedID(map),
          AssignedProperties
<1>9. ~Exists(map, lhs) => new \in 0 .. MaxID
  BY <1>1, <1>7, FreshID
<1>. QED  BY <1>3, <1>4, <1>8, <1>9

LEMMA AssignWrites ==
  ASSUME Inv, NEW n, NEW x, NEW tok, NEW h, Assigning(n, x, tok, h), Exists(map, Value(x)),
         Store(x, Value(x), h)
  PROVE  Inv'
<1>. PICK id : id = Value(x)
  OBVIOUS
<1>1. /\ MapFits(map') /\ DOMAIN map'.vars = DOMAIN map.vars \cup {id} /\ map'.tempIDs = map.tempIDs
      /\ \A i \in DOMAIN map.vars : map'.vars[i].owner = map.vars[i].owner
      /\ \A i \in DOMAIN map.vars : i # id /\ (tok.rvalue => i # tok.id) => map'.vars[i] = map.vars[i]
      /\ id \in 0 .. MaxID
  BY AssignedFacts
<1>2. frames # <<>> /\ n = Len(frames) /\ x \in Variables \cup {Local} /\ h \in Frames /\ h.line = NoLine
      /\ h.mod = Top.mod /\ h.local = Top.local /\ \E k \in DOMAIN Top.line.ops : tok = Top.line.ops[k]
  BY DEF Assigning
<1>3. n \in DOMAIN frames /\ Top = frames[n]
  BY <1>2, TopFacts
<1>4. id = IF x = Local THEN frames[n].local ELSE data[x]
  BY <1>2, <1>3 DEF Value, Held
<1>5. PICK f : Stored(n, h, x, id, f)
  BY <1>1, <1>2, StoreFacts
<1>6. id # NoString
  BY DEF Inv, Typed, MapFits, Exists, NoString
<1>7. /\ StackStep(n, f, 0, 0) /\ f.line = NoLine
      /\ IF x = Local THEN f.local = id /\ frames[n].local \in {id, NoString} /\ data' = data
         ELSE f.local = frames[n].local /\ data' = [data EXCEPT ![x] = id] /\ data[x] \in {id, NoString}
  BY ONLY <1>2, <1>3, <1>4, <1>5 DEF Stored
<1>. PICK toks : toks = {tok}
  OBVIOUS
<1>8. \A i \in DOMAIN map.vars :
        /\ map'.vars[i].owner = map.vars[i].owner
        /\ map'.vars[i] = map.vars[i] \/ i = id \/ \E t \in toks : t.rvalue /\ t.id = i
  BY <1>1
<1>9. \A t \in toks : \E k \in DOMAIN frames[n].line.ops : t = frames[n].line.ops[k]
  BY <1>2, <1>3
<1>10. cache' = Released(cache, toks)
  BY DEF Assigning
<1>11. VariableGiven(n, f, x, id, toks)
  BY <1>1, <1>2, <1>3, <1>4, <1>6, <1>7, <1>8, <1>9, <1>10 DEF VariableGiven
<1>. QED  BY <1>11, VariableStep

LEMMA AssignAdds ==
  ASSUME Inv, NEW n, NEW x, NEW tok, NEW h, Assigning(n, x, tok, h), ~Exists(map, Value(x)), Fits(map),
         Store(x, GetUnusedID(map), h)
  PROVE  Inv'
<1>. PICK id : id = GetUnusedID(map)
  OBVIOUS
<1>1. /\ MapFits(map') /\ DOMAIN map'.vars = DOMAIN map.vars \cup {id} /\ map'.tempIDs = map.tempIDs
      /\ \A i \in DOMAIN map.vars : map'.vars[i].owner = map.vars[i].owner
      /\ \A i \in DOMAIN map.vars : i # id /\ (tok.rvalue => i # tok.id) => map'.vars[i] = map.vars[i]
      /\ map'.vars[id].owner = IF tok.rvalue THEN map.vars[tok.id].owner ELSE Top.mod
      /\ id \in 0 .. MaxID
  BY AssignedFacts
<1>2. frames # <<>> /\ n = Len(frames) /\ x \in Variables \cup {Local} /\ h \in Frames /\ h.line = NoLine
      /\ h.mod = Top.mod /\ h.local = Top.local /\ \E k \in DOMAIN Top.line.ops : tok = Top.line.ops[k]
  BY DEF Assigning
<1>3. PICK f : Stored(n, h, x, id, f)
  BY <1>1, <1>2, StoreFacts
<1>. PICK toks : toks = {tok}
  OBVIOUS
<1>4. MapFits(map)
  BY DEF Inv, Typed
<1>5. id \notin DOMAIN map.vars
  BY <1>4, FreshID
<1>6. \A i \in DOMAIN map.vars :
        /\ map'.vars[i].owner = map.vars[i].owner
        /\ map'.vars[i] = map.vars[i] \/ \E t \in toks : t.rvalue /\ t.id = i
  BY <1>1, <1>5
<1>7. \A t \in toks : \E k \in DOMAIN Top.line.ops : t = Top.line.ops[k]
  BY <1>2
<1>8. cache' = Released(cache, toks)
  BY DEF Assigning
<1>9. x \in Variables => map'.vars[id].owner \in {ModOf[x], NoMod}
  <2>1. OperandFits(map, cache, tok, Top.mod) /\ (x \in Variables => ModOf[x] = Top.mod)
    BY DEF Assigning
  <2>2. CacheFits(map, cache)
    BY DEF Inv, Typed
  <2>. QED  BY ONLY <1>1, <2>1, <2>2 DEF OperandFits, CacheFits
<1>. QED  BY ONLY Inv, Fits(map), ~Exists(map, Value(x)), id = GetUnusedID(map),
                 <1>1, <1>2, <1>3, <1>6, <1>7, <1>8, <1>9, NewStringStep

LEMMA AssignStep ==
  ASSUME Inv, Careful, Assign
  PROVE  Inv'
<1>. PICK n, g, x, h : n = Len(frames) /\ g = Top /\ x = g.line.target /\ h = [g EXCEPT !.line = NoLine]
  OBVIOUS
<1>0. frames # <<>> /\ g.line.kind = "let"
  BY DEF Assign, Evaluating
<1>1. /\ g \in Frames /\ LineFits(data, g)
      /\ \A k \in DOMAIN g.line.ops : OperandFits(map, cache, g.line.ops[k], g.mod)
      /\ \A y \in Variables : Value(y) = data[y]
      /\ Value(Local) = g.local
  BY <1>0, TopFacts
<1>2. x \in Variables \cup {Local} /\ (x \in Variables => ModOf[x] = g.mod)
  BY <1>0, <1>1 DEF LineFits
<1>3. Lhs = Value(x)
  <2>1. x \in Variables => x # Local
    BY ConstantsAssumption DEF ConstantsAssumption
  <2>2. g.line.lhs # NoString => g.line.lhs = Value(x)
    BY <1>1, <1>2, <2>1 DEF LineFits
  <2>. QED  BY <2>2 DEF Lhs
<1>4. /\ h \in Frames /\ h.mod = g.mod /\ h.local = g.local /\ h.line = NoLine
  BY <1>1, NoLineFits
<1>5. PICK tok \in Range(g.line.ops) :
         /\ Exists(map, Lhs) \/ Fits(map)
         /\ map' = Assigned(map, Lhs, tok, g.mod)
         /\ cache' = Released(cache, {tok})
         /\ Store(x, IF Exists(map, Lhs) THEN Value(x) ELSE GetUnusedID(map), h)
  BY DEF Assign
<1>6. \E k \in DOMAIN g.line.ops : tok = g.line.ops[k]
  BY DEF Range
<1>7. tok \in Tokens /\ OperandFits(map, cache, tok, g.mod)
  BY <1>1, <1>6, FrameFacts
<1>8. Assigning(n, x, tok, h)
  BY <1>0, <1>2, <1>3, <1>4, <1>5, <1>6, <1>7 DEF Assigning
<1>9. CASE Exists(map, Value(x))
  <2>1. Store(x, Value(x), h)
    BY <1>3, <1>5, <1>9
  <2>. QED  BY <1>8, <1>9, <2>1, AssignWrites
<1>10. CASE ~Exists(map, Value(x))
  <2>1. Store(x, GetUnusedID(map), h) /\ Fits(map)
    BY <1>3, <1>5, <1>10
  <2>. QED  BY <1>8, <1>10, <2>1, AssignAdds
<1>. QED  BY <1>9, <1>10

(***************************************************************************)
(* A variable is destructed that no expression under way has read.         *)
(***************************************************************************)
Destructed(n, g, x, id, f) ==
  /\ n \in DOMAIN frames /\ n = Len(frames) /\ g = frames[n] /\ g \in Frames /\ g.line = NoLine
  /\ x \in Variables \cup {Local} /\ id # NoString /\ id = IF x = Local THEN g.local ELSE data[x]
  /\ SafeDestruct(id) /\ map' = Deleted(map, {id}) /\ cache' = cache /\ Stored(n, g, x, NoString, f)

LEMMA DestructedFits ==
  ASSUME Inv, NEW n, NEW g, NEW x, NEW id, NEW f, Destructed(n, g, x, id, f)
  PROVE  Inv'
<1>0. /\ frames \in Seq(Frames) /\ CacheFits(map, cache) /\ MapFits(map) /\ data \in [Variables -> 0 .. MaxID]
      /\ ClaimsApart /\ LinesFit /\ OperandsFit /\ QuestsFit /\ LeftFit
  BY DEF Inv, Typed
<1>1. /\ n \in DOMAIN frames /\ n = Len(frames) /\ g = frames[n] /\ g \in Frames
      /\ x \in Variables \cup {Local} /\ id # NoString /\ id = IF x = Local THEN g.local ELSE data[x]
      /\ cache' = cache
  BY DEF Destructed
<1>2. /\ StackStep(n, f, 0, 0) /\ f.line = NoLine /\ DOMAIN f.line.ops = {} /\ f \in Frames
      /\ f.local = IF x = Local THEN NoString ELSE g.local
      /\ IF x = Local THEN data' = data ELSE data' = [data EXCEPT ![x] = NoString]
  BY DEF Destructed, Stored
<1>3. SafeDestruct(id) /\ map' = Deleted(map, {id})
  BY DEF Destructed
<1>4. x \in Variables => x # Local
  BY ConstantsAssumption DEF ConstantsAssumption
<1>5. Exists(map, id)
  BY <1>0, <1>1, ClaimsAre
<1>6. /\ MapFits(map') /\ DOMAIN map'.vars = DOMAIN map.vars \ ({id} \ {cache.id, NoString})
      /\ \A i \in DOMAIN map'.vars : map'.vars[i] = map.vars[i]
      /\ map'.tempIDs = map.tempIDs \ {id}
  <2>. PICK ids : ids = {id}
    OBVIOUS
  <2>1. ids \subseteq DOMAIN map.vars \cup {NoString} /\ map' = Deleted(map, ids)
    BY <1>3, <1>5 DEF Exists
  <2>. PICK m : m = Deleted(map, ids)
    OBVIOUS
  <2>2. /\ MapFits(m) /\ DOMAIN m.vars = DOMAIN map.vars \ (ids \ {cache.id, NoString})
        /\ \A i \in DOMAIN m.vars : m.vars[i] = map.vars[i]
        /\ m.tempIDs = map.tempIDs \ ids
    BY <1>0, <2>1, DeletedProperties
  <2>. QED  BY <2>1, <2>2
<1>7. \A i \in DOMAIN map.vars : i # id => Exists(map', i)
  BY <1>6 DEF Exists
<1>8. /\ n \in Nat \ {0} /\ n <= Len(frames) /\ DOMAIN frames = 1 .. n /\ DOMAIN frames' = 1 .. n /\ frames'[n] = f
      /\ \A i \in 1 .. n - 1 : frames'[i] = frames[i]
      /\ frames' \in Seq(Frames)
  BY <1>0, <1>1, <1>2, StackFacts DEF StackStep
<1>9. /\ \A y \in Variables : data'[y] = IF y = x THEN NoString ELSE data[y]
      /\ data' \in [Variables -> 0 .. MaxID]
  BY <1>0, <1>2, <1>4, ConstantsAssumption DEF ConstantsAssumption, NoString
<1>10. CacheFits(map', cache') /\ cache \in Caches
  BY <1>0, <1>1, <1>6 DEF CacheFits, Exists
<1>11. Typed'
  BY <1>6, <1>8, <1>9, <1>10 DEF Typed
<1>12. ClaimsApart'
  <2>. PICK e, toks : e = <<"none", 0, 0>> /\ toks = {}
    OBVIOUS
  <2>1. OwnersMove(n, f, 0, 0, e, NoString)
    <3>1. f.local = NoString \/ (n <= Len(frames) /\ f.local = frames[n].local)
      BY <1>1, <1>2, <1>8
    <3>2. \A y \in Variables : data'[y] \in {data[y], NoString}
      BY <1>9
    <3>. QED  BY ONLY <1>2, <3>1, <3>2, e = <<"none", 0, 0>> DEF OwnersMove
  <2>2. /\ \A a \in Claimants' : a # e /\ Claim(a)' # NoString => a \in Claimants /\ Claim(a)' = Claim(a)
        /\ e \in Claimants' => Claim(e)' \in {NoString, NoString}
    BY <1>0, <1>2, <2>1, StackClaims
  <2>3. \E h : h \in Claimants /\ Claim(h) = id /\ Claim(h)' = NoString
    <3>1. CASE x = Local
      <4>1. <<"local", n, 0>> \in Claimants /\ Claim(<<"local", n, 0>>) = g.local
        BY <1>0, <1>1, ClaimantsAre
      <4>2. Claim(<<"local", n, 0>>)' = frames'[n].local
        BY DEF Claim
      <4>. QED  BY <1>1, <1>2, <1>8, <3>1, <4>1, <4>2
    <3>2. CASE x # Local
      <4>1. <<"quest", x, 0>> \in Claimants /\ Claim(<<"quest", x, 0>>) = data[x]
        BY <1>0, <1>1, <3>2, ClaimantsAre
      <4>2. Claim(<<"quest", x, 0>>)' = data'[x]
        BY DEF Claim
      <4>. QED  BY <1>1, <1>9, <3>2, <4>1, <4>2
    <3>. QED  BY <3>1, <3>2
  <2>a. PICK h : h \in Claimants /\ Claim(h) = id /\ Claim(h)' = NoString
    BY <2>3
  <2>4. ASSUME NEW a \in Claimants', a # e, Claim(a)' # NoString
        PROVE  a \in Claimants /\ Claim(a)' = Claim(a) /\ Exists(map', Claim(a)')
    <3>1. a \in Claimants /\ Claim(a)' = Claim(a) /\ a # h
      BY <2>2, <2>a, <2>4
    <3>2. Claim(a) # id /\ Exists(map, Claim(a))
      BY <1>0, <1>1, <2>4, <2>a, <3>1 DEF ClaimsApart
    <3>. QED  BY <1>7, <3>1, <3>2 DEF Exists
  <2>5. ClaimsMove(e, NoString)
    BY <2>2, <2>4 DEF ClaimsMove
  <2>6. CacheMoves(NoString, cache, toks)
    BY <1>1, <1>10, NothingReleased DEF CacheMoves
  <2>7. ClaimsEnd(e, toks)
    BY DEF ClaimsEnd
  <2>. QED  BY <1>0, <2>5, <2>6, <2>7, ClaimsStep
<1>13. LinesFit'
  <2>1. \A i \in 1 .. n - 1 : frames[i].line.kind # "none"
    BY <1>0, <1>8, LinesBelow
  <2>2. \A y \in Variables : data'[y] # data[y] =>
            \A i \in 1 .. n - 1 : frames[i].line.lhs # NoString => frames[i].line.target # y
    <3>. SUFFICES ASSUME NEW y \in Variables, data'[y] # data[y], NEW i \in 1 .. n - 1,
                         frames[i].line.lhs # NoString, frames[i].line.target = y
                  PROVE  FALSE
      OBVIOUS
    <3>1. y = x /\ y # Local
      BY <1>9, ConstantsAssumption DEF ConstantsAssumption
    <3>2. i \in DOMAIN frames
      BY <1>8
    <3>3. frames[i].line.lhs = data[y]
      BY <1>0, <3>1, <3>2 DEF LinesFit, LineFits
    <3>. QED  BY <1>1, <1>3, <3>1, <3>2, <3>3 DEF SafeDestruct
  <2>3. LineFits(data', f)
    BY <1>2 DEF LineFits, NoLine, Line
  <2>. QED  BY <1>0, <1>2, <2>1, <2>2, <2>3, LinesStep
<1>14. OperandsFit'
  <2>1. ASSUME NEW i \in DOMAIN frames, NEW k \in DOMAIN frames[i].line.ops
        PROVE  Kept(frames[i].line.ops[k])
    <3>. PICK t : t = frames[i].line.ops[k]
      OBVIOUS
    <3>1. OperandFits(map, cache, t, frames[i].mod)
      BY <1>0 DEF OperandsFit
    <3>2. t.id # id
      BY <1>3 DEF SafeDestruct, Range
    <3>. QED  BY <1>1, <1>6, <1>7, <3>1, <3>2 DEF OperandFits, Kept, Exists
  <2>2. 0 \in DOMAIN f.line.ops => OperandFits(map', cache', 0, f.mod)
    BY <1>2
  <2>. QED  BY <1>0, <1>2, <2>1, <2>2, OperandsStep
<1>15. QuestsFit'
  <2>. SUFFICES ASSUME NEW y \in Variables, data'[y] # NoString
                PROVE  map'.vars[data'[y]].owner \in {ModOf[y], NoMod} /\ data'[y] \notin map'.tempIDs
    BY DEF QuestsFit
  <2>1. y # x /\ data'[y] = data[y]
    BY <1>9
  <2>2. /\ data[y] \in DOMAIN map.vars /\ map.vars[data[y]].owner \in {ModOf[y], NoMod}
        /\ data[y] \notin map.tempIDs
    BY <1>0, <2>1, ClaimsAre DEF QuestsFit, Exists
  <2>3. data[y] # id
    BY <1>0, <1>1, <2>1, ClaimsAre
  <2>. QED  BY <1>6, <1>7, <2>1, <2>2, <2>3 DEF Exists
<1>16. LeftFit'
  <2>. SUFFICES ASSUME NEW i \in DOMAIN map'.vars, i \notin map'.tempIDs \cup {cache'.id}
                PROVE  \/ \E y \in Variables : data'[y] = i
                       \/ \E j \in DOMAIN frames' : frames'[j].local = i
    BY DEF LeftFit
  <2>1. i # id /\ i \in DOMAIN map.vars /\ i \notin map.tempIDs /\ i # cache.id
    BY <1>1, <1>6
  <2>2. (\E y \in Variables : data[y] = i) \/ \E j \in DOMAIN frames : frames[j].local = i
    BY <1>0, <2>1 DEF LeftFit
  <2>3. ASSUME NEW y \in Variables, data[y] = i
        PROVE  data'[y] = i
    BY <1>1, <1>4, <1>9, <2>1, <2>3
  <2>4. ASSUME NEW j \in DOMAIN frames, frames[j].local = i
        PROVE  j \in DOMAIN frames' /\ frames'[j].local = i
    <3>1. CASE j = n
      BY <1>1, <1>2, <1>8, <2>1, <2>4, <3>1
    <3>2. CASE j # n
      BY <1>8, <2>4, <3>2
    <3>. QED  BY <3>1, <3>2
  <2>. QED  BY <2>2, <2>3, <2>4
<1>. QED  BY <1>11, <1>12, <1>13, <1>14, <1>15, <1>16 DEF Inv

LEMMA DestructStep ==
  ASSUME Inv, Careful, Destruct
  PROVE  Inv'
<1>. PICK n, g : n = Len(frames) /\ g = Top
  OBVIOUS
<1>0. frames # <<>> /\ g.line.kind = "none" /\ cache' = cache
  BY DEF Destruct
<1>1. n \in DOMAIN frames /\ g = frames[n] /\ g \in Frames /\ LineFits(data, g)
  BY <1>0, TopFacts
<1>2. g.line = NoLine /\ NoString \in 0 .. MaxID
  BY <1>0, <1>1, ConstantsAssumption DEF LineFits, NoString, ConstantsAssumption
<1>. PICK x \in Variables \cup {Local} :
       /\ Value(x) # NoString /\ SafeDestruct(Value(x)) /\ map' = Deleted(map, {Value(x)})
       /\ Store(x, NoString, g)
  BY DEF Destruct
<1>. PICK id : id = Value(x)
  OBVIOUS
<1>3. id = IF x = Local THEN g.local ELSE data[x]
  BY <1>1 DEF Value, Held
<1>4. PICK f : Stored(n, g, x, NoString, f)
  BY <1>0, <1>1, <1>2, StoreFacts
<1>5. Destructed(n, g, x, id, f)
  BY <1>0, <1>1, <1>2, <1>3, <1>4 DEF Destructed
<1>. QED  BY <1>5, DestructedFits

-----------------------------------------------------------------------------
\* The theorems.

\* The program begins, and has ended before or not.
Begun ==
  /\ map = EmptyMap /\ cache = [id |-> NoString, inUse |-> FALSE]
  /\ data = [x \in Variables |-> NoString] /\ frames = <<>>

LEMMA BegunInv == Begun => Inv
<1>. SUFFICES ASSUME Begun
              PROVE  Inv
  OBVIOUS
<1>1. /\ map = [vars |-> <<>>, tempIDs |-> {}, availableIDs |-> {}]
      /\ cache = [id |-> NoString, inUse |-> FALSE] /\ data = [x \in Variables |-> NoString] /\ frames = <<>>
  BY DEF Begun, EmptyMap
<1>2. DOMAIN map.vars = {} /\ map.vars \in [DOMAIN map.vars -> Strings]
  BY <1>1
<1>3. MapFits(map)
  BY <1>1, <1>2 DEF MapFits
<1>4. CacheFits(map, cache) /\ data \in [Variables -> 0 .. MaxID] /\ \A x \in Variables : data[x] = NoString
  BY <1>1, ConstantsAssumption DEF CacheFits, Caches, NoString, ConstantsAssumption
<1>5. BetweenScripts
  BY <1>1, <1>2, <1>3, <1>4 DEF BetweenScripts, QuestsFit, LeftFit
<1>. QED  BY <1>5, EmptyStack

(***************************************************************************)
(* Each thing that a careful script does, and the frame, keep the          *)
(* invariant.                                                              *)
(***************************************************************************)
LEMMA ScriptsInv ==
  ASSUME Careful, Inv, Scripts
  PROVE  Inv'
<1>1. CASE RunScript
  BY <1>1, RunScriptStep
<1>2. CASE BeginLine
  BY <1>2, BeginLineStep
<1>3. CASE Command
  BY <1>3, CommandStep
<1>4. CASE Operand
  BY <1>4, OperandStep
<1>5. CASE Operator
  BY <1>5, OperatorStep
<1>6. CASE Assign
  BY <1>6, AssignStep
<1>7. CASE SetResult
  BY <1>7, SetResultStep
<1>8. CASE SetTo
  BY <1>8, SetToStep
<1>9. CASE Call
  BY <1>9, CallStep
<1>10. CASE Return
  BY <1>10, ReturnStep
<1>11. CASE EndLine
  BY <1>11, EndLineStep
<1>12. CASE End
  BY <1>12, EndStep
<1>13. CASE Destruct
  BY <1>13, DestructStep
<1>14. CASE NextFrame
  BY <1>14, NextFrameStep
<1>. QED  BY <1>1, <1>2, <1>3, <1>4, <1>5, <1>6, <1>7, <1>8, <1>9, <1>10, <1>11, <1>12, <1>13, <1>14 DEF Scripts

(***************************************************************************)
(* A game that is loaded without a string of a variable keeps of the       *)
(* invariant that each of its strings has a holder.                        *)
(***************************************************************************)
GameInv == LeftFit /\ (lost \/ Inv)

LEMMA NextInv ==
  ASSUME Careful, GameInv, [Next]_vars
  PROVE  GameInv'
<1>0. Inv => LeftFit
  BY DEF Inv
<1>1. Inv' => GameInv'
  BY DEF GameInv, Inv
<1>2. CASE ~lost /\ Scripts /\ UNCHANGED lost
  BY <1>1, <1>2, ScriptsInv DEF GameInv
<1>3. ASSUME NEW gone \in SUBSET Mods, SaveAndLoad(gone)
      PROVE  GameInv'
  <2>1. Inv
    BY <1>3 DEF GameInv, SaveAndLoad
  <2>. QED  BY <1>3, <2>1, LoadedGame DEF GameInv
<1>4. CASE Restart
  <2>1. Begun'
    BY <1>4 DEF Restart, Begun
  <2>2. Inv'
    BY <2>1, BegunInv, PTL
  <2>. QED  BY <1>1, <2>2
<1>5. CASE UNCHANGED vars
  <2>1. map' = map /\ cache' = cache /\ data' = data /\ frames' = frames /\ lost' = lost
    BY <1>5 DEF vars
  <2>2. Claimants' = Claimants /\ \A a : Claim(a)' = Claim(a)
    BY <2>1 DEF Claimants, Claim
  <2>3. ClaimsApart => ClaimsApart'
    BY <2>1, <2>2 DEF ClaimsApart, Exists
  <2>4. LeftFit => LeftFit'
    BY <2>1 DEF LeftFit
  <2>5. Inv => Inv'
    BY <2>1, <2>3, <2>4 DEF Inv, Typed, LinesFit, OperandsFit, QuestsFit
  <2>. QED  BY <2>1, <2>4, <2>5 DEF GameInv
<1>. QED  BY <1>2, <1>3, <1>4, <1>5 DEF Next

LEMMA InvAlways ==
  ASSUME Careful
  PROVE  Spec => []GameInv
<1>1. GameInv /\ [Next]_vars => GameInv'
  BY NextInv
<1>2. Init => GameInv
  <2>1. Init => Begun
    BY DEF Init, Begun
  <2>. QED  BY <2>1, BegunInv DEF GameInv, Inv
<1>. QED  BY <1>1, <1>2, PTL DEF Spec

(***************************************************************************)
(* While scripts keep to Safe... and Own..., a variable that holds an ID   *)
(* has a string that no other variable has, and no result that an          *)
(* expression still waits with: AssignToStringVarLong hands a string out   *)
(* to one owner at a time, through calls, frames and loaded games.         *)
(***************************************************************************)
THEOREM StringsStayApart ==
  ASSUME Careful
  PROVE  Spec => []StringsApart
<1>1. ASSUME GameInv, ~lost
      PROVE  StringsApart
  <2>0. frames \in Seq(Frames) /\ ClaimsApart
    BY <1>1 DEF GameInv, Inv, Typed
  <2>1. \A t \in Pending : \E i \in DOMAIN frames : \E k \in DOMAIN frames[i].line.ops : t = frames[i].line.ops[k]
    BY DEF Pending, Range
  <2>2. ASSUME NEW h \in Holders, Holds(h) # NoString
        PROVE  /\ Exists(map, Holds(h))
               /\ \A g \in Holders \ {h} : Holds(g) # Holds(h)
               /\ \A t \in Pending : t.rvalue => t.id # Holds(h)
    <3>1. CASE \E x \in Variables : h = <<"quest", x>>
      <4>1. PICK x \in Variables : h = <<"quest", x>>
        BY <3>1
      <4>2. Holds(h) = data[x]
        BY <4>1 DEF Holds
      <4>3. ASSUME NEW g \in Holders, g # h
            PROVE  Holds(g) # data[x]
        BY <2>0, <2>2, <4>1, <4>2, <4>3, ClaimsAre DEF Holders, Holds
      <4>. QED  BY <2>0, <2>1, <2>2, <4>2, <4>3, ClaimsAre
    <3>2. CASE \E i \in DOMAIN frames : h = <<"local", i>>
      <4>1. PICK i \in DOMAIN frames : h = <<"local", i>>
        BY <3>2
      <4>2. Holds(h) = frames[i].local
        BY <4>1 DEF Holds
      <4>3. ASSUME NEW g \in Holders, g # h
            PROVE  Holds(g) # frames[i].local
        BY <2>0, <2>2, <4>1, <4>2, <4>3, ClaimsAre DEF Holders, Holds
      <4>. QED  BY <2>0, <2>1, <2>2, <4>2, <4>3, ClaimsAre
    <3>. QED  BY <3>1, <3>2 DEF Holders
  <2>. QED  BY <2>2 DEF StringsApart
<1>2. lost => StringsApart
  BY DEF StringsApart
<1>3. GameInv => StringsApart
  BY <1>1, <1>2
<1>. QED  BY <1>3, InvAlways, PTL

(***************************************************************************)
(* An operand that waits still is the text its command returned, and no    *)
(* two of them share a string, though functions called in between return   *)
(* strings through the same cache; the pointer that a line has to the      *)
(* variable on its left stays good (~ScriptToken, Eval_Assign_String).     *)
(***************************************************************************)
THEOREM OperandsStayKept ==
  ASSUME Careful
  PROVE  Spec => []OperandsKept
<1>1. ASSUME GameInv, ~lost
      PROVE  OperandsKept
  <2>0. frames \in Seq(Frames) /\ ClaimsApart /\ LinesFit /\ OperandsFit
    BY <1>1 DEF GameInv, Inv, Typed
  <2>1. ASSUME NEW o \in Operands
        PROVE  \E i \in DOMAIN frames : \E k \in DOMAIN frames[i].line.ops :
                 o = <<i, k>> /\ At(o) = frames[i].line.ops[k]
    <3>1. PICK i \in DOMAIN frames : o \in {i} \X DOMAIN frames[i].line.ops
      BY DEF Operands
    <3>2. PICK k \in DOMAIN frames[i].line.ops : o = <<i, k>>
      BY <3>1
    <3>. QED  BY <3>2 DEF At
  <2>2. ASSUME NEW o \in Operands
        PROVE  /\ OperandFits(map, cache, At(o), frames[o[1]].mod)
               /\ At(o).rvalue => At(o).id # NoString
    BY <2>0, <2>1 DEF OperandsFit, OperandFits
  <2>3. ASSUME NEW o \in Operands, NEW p \in Operands, o # p, At(o).rvalue, At(p).rvalue
        PROVE  At(o).id # At(p).id
    <3>a. PICK i \in DOMAIN frames : \E k \in DOMAIN frames[i].line.ops : o = <<i, k>> /\ At(o) = frames[i].line.ops[k]
      BY <2>1
    <3>1. PICK k \in DOMAIN frames[i].line.ops : o = <<i, k>> /\ At(o) = frames[i].line.ops[k]
      BY <3>a
    <3>b. PICK j \in DOMAIN frames : \E l \in DOMAIN frames[j].line.ops : p = <<j, l>> /\ At(p) = frames[j].line.ops[l]
      BY <2>1
    <3>2. PICK l \in DOMAIN frames[j].line.ops : p = <<j, l>> /\ At(p) = frames[j].line.ops[l]
      BY <3>b
    <3>3. At(o).id # NoString /\ <<i, k>> # <<j, l>>
      BY <2>2, <2>3, <3>1, <3>2
    <3>. QED  BY <2>0, <2>3, <3>1, <3>2, <3>3, ClaimsAre
  <2>4. ASSUME NEW i \in DOMAIN frames, frames[i].line.lhs # NoString
        PROVE  Exists(map, frames[i].line.lhs)
    <3>1. frames[i].line.kind = "let" /\ frames[i].line.target \in Variables \cup {Local}
          /\ frames[i].line.lhs = IF frames[i].line.target = Local THEN frames[i].local
                                  ELSE data[frames[i].line.target]
      BY <2>0, <2>4 DEF LinesFit, LineFits
    <3>. QED  BY <2>0, <2>4, <3>1, ClaimsAre
  <2>. QED  BY <2>2, <2>3, <2>4 DEF OperandsKept, OperandFits
<1>2. lost => OperandsKept
  BY DEF OperandsKept
<1>3. GameInv => OperandsKept
  BY <1>1, <1>2
<1>. QED  BY <1>3, InvAlways, PTL

(***************************************************************************)
(* No string is left behind: one that no variable holds is a temporary     *)
(* one, that the next frame deletes, or the cached one, which is not       *)
(* saved (CleanUpNVSEVars, StringVarMap::Save).                            *)
(***************************************************************************)
THEOREM NothingIsLeft ==
  ASSUME Careful
  PROVE  Spec => []NoneLeft
<1>1. ASSUME GameInv
      PROVE  NoneLeft
  <2>1. ASSUME NEW id \in DOMAIN map.vars
        PROVE  id \in {Holds(h) : h \in Holders} \cup map.tempIDs \cup {cache.id}
    <3>1. \/ id \in map.tempIDs \cup {cache.id}
          \/ \E x \in Variables : data[x] = id
          \/ \E i \in DOMAIN frames : frames[i].local = id
      BY <1>1 DEF GameInv, LeftFit
    <3>2. \A x \in Variables : <<"quest", x>> \in Holders /\ Holds(<<"quest", x>>) = data[x]
      BY DEF Holders, Holds
    <3>3. \A i \in DOMAIN frames : <<"local", i>> \in Holders /\ Holds(<<"local", i>>) = frames[i].local
      BY DEF Holders, Holds
    <3>. QED  BY <3>1, <3>2, <3>3
  <2>. QED  BY <2>1 DEF NoneLeft
<1>. QED  BY <1>1, InvAlways, PTL

(***************************************************************************)
(* A game that is loaded gives each variable of a mod that is still there  *)
(* the text it had when the game was saved, whatever scripts had done      *)
(* before, unless its string belonged to no mod: then it is gone           *)
(* (StringVarMap::Save, StringVarMap::Load).                               *)
(***************************************************************************)
THEOREM StringsSurviveLoads ==
  ASSUME Careful
  PROVE  Spec => StringsSurvive
<1>. DEFINE Survive ==
       \A gone \in SUBSET Mods : SaveAndLoad(gone) =>
         \A x \in Variables : ModOf[x] \notin gone /\ data[x] # NoString =>
            IF Unsaved(data[x]) THEN ~Exists(map', data'[x])
            ELSE Exists(map', data'[x]) /\ map'.vars[data'[x]].text = map.vars[data[x]].text
<1>1. GameInv => [Survive]_vars
  BY LoadedGame DEF GameInv, SaveAndLoad
<1>2. Spec => [][Survive]_vars
  BY <1>1, InvAlways, PTL
<1>. QED  BY <1>2 DEF StringsSurvive
=============================================================================
