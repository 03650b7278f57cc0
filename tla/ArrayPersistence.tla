--------------------------- MODULE ArrayPersistence ---------------------------
(***************************************************************************)
(* Script arrays across a saved game: ArrayVarMap::Save and Load           *)
(* (ArrayVar.cpp) with the preload callback that resets the map before it  *)
(* reads the file (Core_Serialization.cpp).  Mods are named by their file, *)
(* so that the renumbering done by ResolveRefID is the identity here; what *)
(* is left of it is that some mods may no longer be loaded.  The scripts   *)
(* with index 0xFF, which Load treats as unloaded ones, are a mod that is  *)
(* never loaded again.                                                     *)
(*                                                                         *)
(* The load follows its save at once: Reset forgets whatever happened to   *)
(* the arrays in between.                                                  *)
(***************************************************************************)
EXTENDS ArrayVarMap, Sublists

CONSTANTS MaxLoads      \* bound: number of loads

ASSUME LoadsAssumption == MaxLoads \in Nat

VARIABLES
  phase,          \* "play", "saving" (Clean runs for Save), "saved", "reading"
  loadedMods,     \* the mods in the load order
  file,           \* the ARVR records of the file that are still to be read
  lastIndexRead,  \* the local variable of Load
  loads,          \* number of loads so far
  before          \* history: the arrays, owners and slots when the file was written

saveVars == <<phase, loadedMods, file, lastIndexRead, loads, before>>
persistVars == <<allVars, saveVars>>

Nothing == [vars |-> {}, owner |-> [a \in IDs |-> 0], word |-> [s \in Slots |-> 0],
            numeric |-> {}]

-----------------------------------------------------------------------------
(* Save *)

SaveBegin == /\ phase = "play"
             /\ loads < MaxLoads
             /\ CleanBegin
             /\ phase' = "saving"
             /\ UNCHANGED <<loadedMods, file, lastIndexRead, loads, before>>

\* Mutant: an array stored in an element is written as a number.
MutantRecord(a) == [id |-> a, owner |-> owner[a], refs |-> refs[a],
                    word |-> [k \in Keys |-> word[<<a, k>>]],
                    numeric |-> {k \in Keys : word[<<a, k>>] # 0}]

\* What Save writes of array a; the owningArray of an element is not written.
Record(a) == [id |-> a, owner |-> owner[a], refs |-> refs[a],
              word |-> [k \in Keys |-> word[<<a, k>>]],
              numeric |-> {k \in Keys : <<a, k>> \in numeric}]

ToSave == {a \in vars : a \notin tempIDs /\ refs[a] # <<>>}

SaveWrite == /\ phase = "saving"
             /\ cleaning /\ dying = 0 /\ tempIDs = {}
             /\ cleaning' = FALSE
             /\ file' = {Record(a) : a \in ToSave}
             /\ before' = [vars |-> vars, owner |-> owner, word |-> word, numeric |-> numeric]
             /\ phase' = "saved"
             /\ UNCHANGED <<heap, dying, loadedMods, lastIndexRead, loads>>

-----------------------------------------------------------------------------
(* Load.  The variables of the scripts that are still loaded come back with *)
(* the game's own file; ClearDelayedCalls has dropped the call arguments.   *)

PreLoad(present) ==
  /\ phase = "saved"
  /\ loads' = loads + 1
  /\ loadedMods' = present
  /\ vars' = {} /\ usedIDs' = {} /\ tempIDs' = {} /\ availableIDs' = {}
  /\ owner' = [a \in IDs |-> 0]
  /\ refs' = [a \in IDs |-> <<>>]
  /\ word' = [s \in Slots |-> IF s \in ScriptVars /\ ModOf[s] \in present
                              THEN word[s] ELSE 0]
  /\ numeric' = {}
  /\ lastIndexRead' = 0
  /\ phase' = "reading"
  /\ UNCHANGED <<cleaning, dying, file, before>>

LoadedRefs(r) == Only(r.refs, loadedMods)

\* Mutant: the owner stays what it was when its mod has been removed.
MutantOwner(r) == IF LoadedRefs(r) = <<>> /\ r.owner \notin loadedMods THEN 0 ELSE r.owner

\* An array of a removed mod goes to the first mod loaded that refers to it.
NewOwner(r) == IF r.owner \in loadedMods THEN r.owner
               ELSE IF LoadedRefs(r) = <<>> THEN 0 ELSE Head(LoadedRefs(r))

Discard(r) ==
  /\ phase = "reading"
  /\ NewOwner(r) = 0
  /\ file' = file \ {r}
  /\ UNCHANGED <<allVars, phase, loadedMods, lastIndexRead, loads, before>>

\* Mutant: Add leaves the ID among the available ones.
MutantGaps(a) == availableIDs \cup (lastIndexRead + 1 .. a - 1)

\* The IDs Load found no array for, less the one that Add takes back.
Gaps(a) == (availableIDs \cup (lastIndexRead + 1 .. a - 1)) \ {a}

ReadArray(r) ==
  LET a == r.id
      Mine(s) == s \in ElementSlots /\ s[1] = a
  IN
  /\ phase = "reading"
  /\ NewOwner(r) # 0
  /\ lastIndexRead' = Max({lastIndexRead + 1, a})
  /\ availableIDs' = Gaps(a)
  /\ usedIDs' = usedIDs \cup {a}
  /\ vars' = vars \cup {a}
  /\ owner' = [owner EXCEPT ![a] = NewOwner(r)]
  /\ refs' = [refs EXCEPT ![a] = LoadedRefs(r)]
  /\ tempIDs' = IF LoadedRefs(r) = <<>> THEN tempIDs \cup {a} ELSE tempIDs
  /\ word' = [s \in Slots |-> IF Mine(s) THEN r.word[s[2]] ELSE word[s]]
  /\ numeric' = numeric \cup ({a} \X r.numeric)
  /\ file' = file \ {r}
  /\ UNCHANGED <<cleaning, dying, phase, loadedMods, loads, before>>

LoadEnd == /\ phase = "reading"
           /\ file = {}
           /\ phase' = "play"
           /\ lastIndexRead' = 0
           /\ before' = Nothing
           /\ UNCHANGED <<allVars, loadedMods, file, loads>>

-----------------------------------------------------------------------------
PersistInit == /\ Init
               /\ phase = "play"
               /\ loadedMods = Mods
               /\ file = {}
               /\ lastIndexRead = 0
               /\ loads = 0
               /\ before = Nothing

\* The scripts of the mods that are loaded run, and Clean runs every frame.
Play == /\ phase = "play"
        /\ \/ \E m \in loadedMods : Create(m)
           \/ \E v \in ScriptVars :
                /\ ModOf[v] \in loadedMods
                /\ \/ ClearVar(v)
                   \/ \E a \in IDs, m \in loadedMods : AssignVar(v, a, m)
           \/ \E b \in IDs, k \in Keys :
                EraseElement(b, k) \/ \E a \in IDs : SetArray(b, k, a)
           \/ \E b \in IDs, k \in Keys, w \in NumericWords : SetNumber(b, k, w)
           \/ \E c \in CallArgs : DropArg(c) \/ \E a \in IDs : HoldArg(c, a)
           \/ CleanBegin
           \/ CleanEnd
        /\ UNCHANGED saveVars

Deleting == /\ \/ DeleteBegin
               \/ DeleteEnd
               \/ \E k \in Keys : DestroyElement(k)
            /\ UNCHANGED saveVars

PersistNext == \/ Play
               \/ Deleting
               \/ SaveBegin
               \/ SaveWrite
               \/ \E present \in SUBSET loadedMods : PreLoad(present)
               \/ \E r \in file : ReadArray(r) \/ Discard(r)
               \/ LoadEnd

PersistSpec == PersistInit /\ [][PersistNext]_persistVars

-----------------------------------------------------------------------------
NoModRemoved == loadedMods = Mods

PersistTypeOK ==
  /\ TypeOK
  /\ phase \in {"play", "saving", "saved", "reading"}
  /\ loadedMods \subseteq Mods
  /\ lastIndexRead \in 0 .. 2 * MaxID
  /\ loads \in 0 .. MaxLoads

(***************************************************************************)
(* The ID given to a new array is never the ID of an array that exists,    *)
(* although the records come in the order of a hash table, with gaps, and  *)
(* some are discarded: GetUnusedID looks at the sets of IDs only.          *)
(***************************************************************************)
NewIDsAreFresh == phase # "reading" => GetUnusedID \notin vars \cup {dying}

(***************************************************************************)
(* While no mod is removed, every reference read from the file names an    *)
(* array that was read too and is covered by its m_refs, so that no array  *)
(* is freed while something that was loaded still refers to it.            *)
(***************************************************************************)
ReferencesSurvive ==
  NoModRemoved /\ phase # "reading" => NoDanglingReference /\ RefsCoverHolders

(***************************************************************************)
(* After a load no array is owned by, or counted for, a mod that is gone:  *)
(* its index may by then be the one of another mod.                        *)
(***************************************************************************)
RemovedModsForgotten ==
  phase = "play" =>
    \A a \in vars : owner[a] \in loadedMods /\ Range(refs[a]) \subseteq loadedMods

(***************************************************************************)
(* Saving and loading with the same mods gives back the same arrays, with  *)
(* the same owners, elements and IDs; only delayed calls are forgotten.    *)
(***************************************************************************)
RoundTrip ==
  [][(phase = "reading" /\ phase' = "play" /\ NoModRemoved) =>
       /\ vars = before.vars
       /\ \A a \in vars : owner[a] = before.owner[a]
       /\ numeric = before.numeric
       /\ \A s \in ScriptVars \cup ElementSlots : word[s] = before.word[s]]_persistVars

(***************************************************************************)
(* A load with the mods of the save loses nothing and breaks no reference. *)
(***************************************************************************)
ArraysSurvive == []ReferencesSurvive /\ RoundTrip

(***************************************************************************)
(* An array is discarded only if nothing that is loaded refers to it       *)
(* (ArrayVar.cpp:1927): after a load every reference names an array.       *)
(***************************************************************************)
DiscardedUnreferenced == phase = "play" => NoDanglingReference
==============================================================================
