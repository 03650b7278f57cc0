----------------------------- MODULE ArrayVarMap -----------------------------
(***************************************************************************)
(* The script arrays of NVSE: ArrayVarMap (ArrayVar.cpp) over VarMap       *)
(* (VarMap.h), as the main game thread drives it.  Arrays are counted      *)
(* references: every reference stored in a script variable, in an element  *)
(* of another array or in a self-owning element (an event filter, an       *)
(* argument of a delayed call) appends the mod index of the referrer to    *)
(* m_refs, every reference dropped removes one entry, and an array whose   *)
(* m_refs is empty waits in tempIDs until Clean, called once per frame,    *)
(* deletes it and makes its ID available again.                            *)
(*                                                                         *)
(* The cache of VarMap is left out here and modelled in module VarMap: on  *)
(* one thread it never answers differently from the map (checked there).   *)
(***************************************************************************)
EXTENDS Integers, FiniteSets, SequencesExt

CONSTANTS MaxID,        \* bound: ArrayIDs are 1 .. MaxID, and 0 is "no array"
          Keys,         \* keys of array elements
          Mods,         \* mod indices of the scripts (never 0)
          ScriptVars,   \* script variables that hold an array
          ModOf,        \* [ScriptVars -> Mods]: the mod of the variable's script
          CallArgs,     \* self-owning elements (filters, delayed call arguments)
          NumericWords, \* low words of the numbers that scripts store in elements
          MaxRefs       \* bound: length of m_refs

IDs == 1 .. MaxID
ElementSlots == IDs \X Keys
Slots == ScriptVars \cup CallArgs \cup ElementSlots

ASSUME ConstantsAssumption ==
  /\ MaxID \in Nat \ {0}
  /\ MaxRefs \in Nat
  /\ Mods \subseteq Nat \ {0}
  /\ ModOf \in [ScriptVars -> Mods]
  /\ NumericWords \subseteq 0 .. MaxID
  /\ IsFiniteSet(Keys) /\ IsFiniteSet(ScriptVars) /\ IsFiniteSet(CallArgs)
  /\ ScriptVars \cap CallArgs = {}
  /\ (ScriptVars \cup CallArgs) \cap ElementSlots = {}

VARIABLES
  vars,         \* VarMap::vars, as the set of its keys
  owner,        \* owner[a]: m_owningModIndex
  refs,         \* refs[a]: m_refs, the mod indices of the referrers
  usedIDs, tempIDs, availableIDs,
  word,         \* word[s]: the 32 bits of slot s read as an ArrayID
  numeric,      \* the element slots whose data type is Numeric
  cleaning,     \* Clean is running
  dying         \* the array whose elements Delete is destroying, or 0

heap == <<vars, owner, refs, usedIDs, tempIDs, availableIDs, word, numeric>>
allVars == <<heap, cleaning, dying>>

-----------------------------------------------------------------------------
(* Reading the state *)

\* The slots that hold a reference to array a.
Holders(a) == {s \in Slots \ numeric : word[s] = a}

GetArrayOwningModIndex(a) == IF a \in vars THEN owner[a] ELSE 0

\* Mutant: the greatest used ID itself, an off-by-one.
MutantLastKey == CASE availableIDs # {} -> Min(availableIDs)
                   [] availableIDs = {} /\ usedIDs # {} -> Max(usedIDs)
                   [] OTHER -> 1

GetUnusedID == CASE availableIDs # {} -> Min(availableIDs)
                 [] availableIDs = {} /\ usedIDs # {} -> Max(usedIDs) + 1
                 [] OTHER -> 1

-----------------------------------------------------------------------------
(* Reference counting, on a record [refs, temp] so that calls compose *)

Counts == [refs |-> refs, temp |-> tempIDs]

\* Vector::Remove: the last entry equal to m, if there is one.
VectorRemove(q, m) ==
  LET At == {i \in 1 .. Len(q) : q[i] = m}
  IN  IF At = {} THEN q ELSE RemoveAt(q, Max(At))

\* Mutants: the array is never queued, or queued while others refer to it.
MutantNotQueued(c, a, m) ==
  IF a \notin vars THEN c
  ELSE [c EXCEPT !.refs[a] = VectorRemove(@, m)]

MutantAlwaysQueued(c, a, m) ==
  IF a \notin vars THEN c
  ELSE [refs |-> [c.refs EXCEPT ![a] = VectorRemove(@, m)],
        temp |-> c.temp \cup {a}]

\* RemoveReference(&r, m) with *ref = a; it also stores 0 in the reference.
Dropped(c, a, m) ==
  IF a \notin vars THEN c
  ELSE LET left == VectorRemove(c.refs[a], m) IN
       [refs |-> [c.refs EXCEPT ![a] = left],
        temp |-> IF left = <<>> THEN c.temp \cup {a} ELSE c.temp]

\* Mutant: the ID is appended in place of the mod.
MutantAppendsID(c, a, m) ==
  IF a \notin vars THEN c
  ELSE [refs |-> [c.refs EXCEPT ![a] = Append(@, a)], temp |-> c.temp \ {a}]

\* The part of AddReference(&r, a, m) after any old reference is removed.
Taken(c, a, m) ==
  IF a \notin vars THEN c
  ELSE [refs |-> [c.refs EXCEPT ![a] = Append(@, m)], temp |-> c.temp \ {a}]

\* AddReference(&r, a, m) with *ref = old: the counts, and what *ref becomes.
Added(c, old, a, m) == Taken(IF old # 0 THEN Dropped(c, old, m) ELSE c, a, m)
Stored(a) == IF a \in vars THEN a ELSE 0

SetCounts(c) == /\ refs' = c.refs
                /\ tempIDs' = c.temp

\* ArrayElement::Unset on element slot s: the counts afterwards.  A number
\* is not cleared, so that its low word is still there for SetArray to see.
Unset(c, s) == IF s \in numeric THEN c
               ELSE Dropped(c, word[s], GetArrayOwningModIndex(word[s]))
WordAfterUnset(s) == IF s \in numeric THEN word[s] ELSE 0

Room(a) == a \in vars => Len(refs[a]) < MaxRefs

-----------------------------------------------------------------------------
Init == /\ vars = {}
        /\ owner = [a \in IDs |-> 0]
        /\ refs = [a \in IDs |-> <<>>]
        /\ usedIDs = {} /\ tempIDs = {} /\ availableIDs = {}
        /\ word = [s \in Slots |-> 0]
        /\ numeric = {}
        /\ cleaning = FALSE
        /\ dying = 0

\* A script runs: between two calls of Clean, never during one.
ScriptStep == ~cleaning /\ dying = 0 /\ UNCHANGED <<cleaning, dying>>

Create(m) ==
  LET a == GetUnusedID IN
  /\ ScriptStep
  /\ a \in IDs
  /\ availableIDs' = availableIDs \ {a}
  /\ usedIDs' = usedIDs \cup {a}
  /\ vars' = vars \cup {a}
  /\ owner' = [owner EXCEPT ![a] = m]
  /\ refs' = [refs EXCEPT ![a] = <<>>]
  /\ tempIDs' = tempIDs \cup {a}
  /\ UNCHANGED <<word, numeric>>

\* let v := a, in a script of mod m; v may be a variable of another script,
\* and is one of its own for function arguments and foreach iterators.
AssignVar(v, a, m) ==
  /\ ScriptStep
  /\ Room(a)
  /\ SetCounts(Added(Counts, word[v], a, m))
  /\ word' = [word EXCEPT ![v] = Stored(a)]
  /\ UNCHANGED <<vars, owner, usedIDs, availableIDs, numeric>>

\* CleanUpNVSEVars, ForEach loop end: the variable goes away.
ClearVar(v) ==
  /\ ScriptStep
  /\ word[v] # 0
  /\ SetCounts(Dropped(Counts, word[v], ModOf[v]))
  /\ word' = [word EXCEPT ![v] = 0]
  /\ UNCHANGED <<vars, owner, usedIDs, availableIDs, numeric>>

\* let b[k] := a
SetArray(b, k, a) ==
  LET s == <<b, k>> IN
  /\ ScriptStep
  /\ b \in vars
  /\ Room(a)
  /\ SetCounts(Added(Unset(Counts, s), WordAfterUnset(s), a,
                     GetArrayOwningModIndex(b)))
  /\ word' = [word EXCEPT ![s] = Stored(a)]
  /\ numeric' = numeric \ {s}
  /\ UNCHANGED <<vars, owner, usedIDs, availableIDs>>

\* let b[k] := a number whose low 32 bits are w
SetNumber(b, k, w) ==
  LET s == <<b, k>> IN
  /\ ScriptStep
  /\ b \in vars
  /\ SetCounts(Unset(Counts, s))
  /\ word' = [word EXCEPT ![s] = w]
  /\ numeric' = numeric \cup {s}
  /\ UNCHANGED <<vars, owner, usedIDs, availableIDs>>

\* ar_Erase b k: the element is destroyed.
EraseElement(b, k) ==
  LET s == <<b, k>> IN
  /\ ScriptStep
  /\ b \in vars
  /\ s \in numeric \/ word[s] # 0
  /\ SetCounts(Unset(Counts, s))
  /\ word' = [word EXCEPT ![s] = 0]
  /\ numeric' = numeric \ {s}
  /\ UNCHANGED <<vars, owner, usedIDs, availableIDs>>

\* SelfOwningArrayElement::SetArray: the referring mod is the array's owner.
HoldArg(c, a) ==
  /\ ScriptStep
  /\ Room(a)
  /\ SetCounts(Added(Unset(Counts, c), 0, a, GetArrayOwningModIndex(a)))
  /\ word' = [word EXCEPT ![c] = Stored(a)]
  /\ UNCHANGED <<vars, owner, usedIDs, availableIDs, numeric>>

DropArg(c) ==
  /\ ScriptStep
  /\ word[c] # 0
  /\ SetCounts(Unset(Counts, c))
  /\ word' = [word EXCEPT ![c] = 0]
  /\ UNCHANGED <<vars, owner, usedIDs, availableIDs, numeric>>

-----------------------------------------------------------------------------
(* Clean: delete the queued arrays until none is left.  The destructor of   *)
(* an array drops the references its elements hold, which may queue more.   *)

CleanBegin == /\ ~cleaning /\ dying = 0
              /\ cleaning' = TRUE
              /\ UNCHANGED <<heap, dying>>

\* Delete(tempIDs.LastKey()), up to and including the unlinking of the entry.
DeleteBegin ==
  /\ cleaning /\ dying = 0
  /\ tempIDs # {}
  /\ dying' = Max(tempIDs)
  /\ vars' = vars \ {Max(tempIDs)}
  /\ UNCHANGED <<owner, refs, usedIDs, tempIDs, availableIDs, word, numeric, cleaning>>

Destroyed(s) == s \notin numeric /\ word[s] = 0

\* ~ArrayElement of element k of the dying array.
DestroyElement(k) ==
  LET s == <<dying, k>> IN
  /\ dying # 0
  /\ ~Destroyed(s)
  /\ SetCounts(Unset(Counts, s))
  /\ word' = [word EXCEPT ![s] = 0]
  /\ numeric' = numeric \ {s}
  /\ UNCHANGED <<vars, owner, usedIDs, availableIDs, cleaning, dying>>

\* Mutants: the ID stays in tempIDs; the greatest ID is not made available.
MutantKeepsTemp(a) == usedIDs' = usedIDs \ {a} /\ UNCHANGED tempIDs
MutantBelowGreatest(a) ==
  availableIDs' = availableIDs \cup (IF a < Max(usedIDs) THEN {a} ELSE {})

EraseID(a) == usedIDs' = usedIDs \ {a} /\ tempIDs' = tempIDs \ {a}
SetIDAvailable(a) == availableIDs' = availableIDs \cup {a}

\* The end of Delete: the ID goes back to the pool.
DeleteEnd ==
  /\ dying # 0
  /\ \A k \in Keys : Destroyed(<<dying, k>>)
  /\ EraseID(dying)
  /\ SetIDAvailable(dying)
  /\ refs' = [refs EXCEPT ![dying] = <<>>]
  /\ owner' = [owner EXCEPT ![dying] = 0]
  /\ dying' = 0
  /\ UNCHANGED <<vars, word, numeric, cleaning>>

CleanEnd == /\ cleaning /\ dying = 0
            /\ tempIDs = {}
            /\ cleaning' = FALSE
            /\ UNCHANGED <<heap, dying>>

Clean == \/ CleanBegin \/ DeleteBegin \/ DeleteEnd \/ CleanEnd
         \/ \E k \in Keys : DestroyElement(k)

Next == \/ \E m \in Mods : Create(m)
        \/ \E v \in ScriptVars : ClearVar(v) \/ \E a \in IDs, m \in Mods : AssignVar(v, a, m)
        \/ \E b \in IDs, k \in Keys :
             \/ EraseElement(b, k)
             \/ \E a \in IDs : SetArray(b, k, a)
             \/ \E w \in NumericWords : SetNumber(b, k, w)
        \/ \E c \in CallArgs : DropArg(c) \/ \E a \in IDs : HoldArg(c, a)
        \/ Clean

Spec == Init /\ [][Next]_allVars

\* The main loop calls Clean every frame, and Clean runs to its end.
FairSpec == Spec /\ WF_allVars(Clean)

-----------------------------------------------------------------------------
TypeOK ==
  /\ vars \subseteq IDs
  /\ owner \in [IDs -> Mods \cup {0}]
  /\ refs \in [IDs -> Seq(Mods \cup {0})]
  /\ usedIDs \subseteq IDs /\ tempIDs \subseteq IDs /\ availableIDs \subseteq IDs
  /\ word \in [Slots -> IDs \cup {0}]
  /\ numeric \subseteq ElementSlots
  /\ cleaning \in BOOLEAN
  /\ dying \in IDs \cup {0}

(***************************************************************************)
(* ID bookkeeping: the three sets of IDs agree with the map and with the   *)
(* Delete in progress, and no ID below the greatest one ever given out is  *)
(* lost, whatever the order of the deletions.                              *)
(***************************************************************************)
IDPoolsAgree ==
  /\ usedIDs = vars \cup ({dying} \ {0})
  /\ usedIDs \cap availableIDs = {}
  /\ tempIDs \subseteq usedIDs
  /\ \E n \in 0 .. MaxID : usedIDs \cup availableIDs = 1 .. n

(***************************************************************************)
(* An array is queued for deletion exactly when its m_refs is empty: a     *)
(* queued array that is referenced again leaves the queue, and no array    *)
(* whose last reference is dropped is forgotten.                           *)
(***************************************************************************)
QueuedIffUnreferenced == \A a \in vars : a \in tempIDs <=> refs[a] = <<>>

(***************************************************************************)
(* m_refs never counts fewer references than there are, although an        *)
(* element is added in the name of the mod that owns its container         *)
(* (SetArray) and removed in the name of the mod that owns its content     *)
(* (UnsetDefault).                                                         *)
(***************************************************************************)
RefsCoverHolders == \A a \in vars : Cardinality(Holders(a)) <= Len(refs[a])

(***************************************************************************)
(* No slot names an array that is not in the map, from the moment Delete   *)
(* unlinks it: the ID in every variable, element and argument still means  *)
(* the array it was stored for.                                            *)
(***************************************************************************)
NoDanglingReference == \A s \in Slots \ numeric : word[s] # 0 => word[s] \in vars

(***************************************************************************)
(* m_refs.size() is the number of references (ArrayVar.h:322).             *)
(***************************************************************************)
RefsCountHolders == \A a \in vars : Len(refs[a]) = Cardinality(Holders(a))

(***************************************************************************)
(* With the scripts of one mod, counts, queue and IDs agree with the map    *)
(* and with the references that scripts and elements hold.                  *)
(***************************************************************************)
Bookkeeping == IDPoolsAgree /\ QueuedIffUnreferenced /\ RefsCountHolders

(***************************************************************************)
(* When Clean returns, every array left is held by some slot: nothing that *)
(* a script can no longer reach by itself stays queued or lost.            *)
(***************************************************************************)
CleanCollectsGarbage ==
  [][cleaning /\ ~cleaning' => \A a \in vars : Holders(a) # {}]_allVars

(***************************************************************************)
(* Clean terminates although the arrays it deletes queue others.           *)
(***************************************************************************)
CleanTerminates == cleaning ~> ~cleaning

-----------------------------------------------------------------------------
(* The abstract heap: the slots of an array that is being destroyed are     *)
(* gone with the array, though the code empties them one by one.            *)

SlotsOfArray(a) == {s \in ElementSlots : s[1] = a}
VisibleWord ==
  [s \in Slots |-> IF s \in numeric \/ s \in SlotsOfArray(dying) THEN 0 ELSE word[s]]

Abstract == INSTANCE RefHeap WITH Objects <- IDs, SlotsOf <- SlotsOfArray,
                                  live <- vars, points <- VisibleWord

(***************************************************************************)
(* The counted references implement the abstract heap: an array is deleted *)
(* only when nothing points at it, and a reused ID is one no slot names.   *)
(***************************************************************************)
ImplementsRefHeap == Abstract!Spec
==============================================================================
