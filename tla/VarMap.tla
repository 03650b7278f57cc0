-------------------------------- MODULE VarMap --------------------------------
(***************************************************************************)
(* VarMap<Var> (VarMap.h): the map from IDs to variables under the script  *)
(* arrays and strings, with its pool of IDs and its one-entry cache, used  *)
(* by one or several threads.  A lock guards GetUnusedID, Insert and       *)
(* Delete; Get and Reset take none, so each access they make to the cache  *)
(* is a step of its own (what tears inside one access to the map is not    *)
(* modelled).  Erasing a variable runs its destructor after its entry is   *)
(* unlinked, and the destructor of an array calls Get on the arrays its    *)
(* elements refer to.                                                      *)
(***************************************************************************)
EXTENDS Integers, FiniteSets, FiniteSetsExt

CONSTANTS Threads,
          MaxID,    \* bound: IDs are 1 .. MaxID
          MaxVars,  \* bound: no ID is handed out for more variables than these
          NoThread

IDs == 1 .. MaxID

ASSUME MapAssumption ==
  /\ MaxID \in Nat \ {0} /\ MaxVars \in Nat \ {0}
  /\ Threads # {} /\ NoThread \notin Threads

VARIABLES
  vars,       \* vars[id]: the variable (numbered by creation), or 0
  made,       \* number of variables created so far
  usedIDs, tempIDs, availableIDs,
  cacheID, cacheVar,
  lock,       \* the thread that holds cs, or NoThread
  pc,         \* pc[t]: where thread t is
  \* Its locals, 0 when it has returned:
  arg,        \* arg[t]: the ID that GetUnusedID returned, or that Get is given
  got,        \* got[t]: the variable Get is about to return, or 0
  task,       \* task[t]: "none", or the erasing call: "delete" or "reset"
  victim,     \* victim[t]: the ID being erased
  \* What the properties speak of:
  overlapped  \* has a thread been in the midst of a call when another made a step?

pools == <<usedIDs, tempIDs, availableIDs>>
cache == <<cacheID, cacheVar>>
vvars == <<vars, made, pools, cache, lock, pc, arg, got, task, victim, overlapped>>

-----------------------------------------------------------------------------
GetUnusedID(t) ==
  /\ pc[t] = "idle" /\ lock = NoThread
  /\ arg' = [arg EXCEPT ![t] = IF availableIDs # {} THEN Min(availableIDs)
                               ELSE IF usedIDs # {} THEN Max(usedIDs) + 1
                               ELSE 1]
  /\ arg'[t] \in IDs /\ made < MaxVars
  /\ availableIDs' = availableIDs \ {arg'[t]}
  /\ pc' = [pc EXCEPT ![t] = "insert"]
  /\ UNCHANGED <<vars, made, usedIDs, tempIDs, cache, lock, got, task, victim>>

\* Mutant: Insert does not wait for the lock.
MutantUnlocked(t) ==
  /\ pc[t] = "insert"
  /\ usedIDs' = usedIDs \cup {arg[t]}
  /\ IF vars[arg[t]] = 0
     THEN /\ made' = made + 1
          /\ vars' = [vars EXCEPT ![arg[t]] = made']
     ELSE UNCHANGED <<vars, made>>
  /\ pc' = [pc EXCEPT ![t] = "mark"]
  /\ UNCHANGED <<tempIDs, availableIDs, cache, lock, arg, got, task, victim>>

\* Emplace keeps the variable that is already there, if there is one.
Insert(t) ==
  /\ pc[t] = "insert" /\ lock = NoThread
  /\ usedIDs' = usedIDs \cup {arg[t]}
  /\ IF vars[arg[t]] = 0
     THEN /\ made' = made + 1
          /\ vars' = [vars EXCEPT ![arg[t]] = made']
     ELSE UNCHANGED <<vars, made>>
  /\ pc' = [pc EXCEPT ![t] = "mark"]
  /\ UNCHANGED <<tempIDs, availableIDs, cache, lock, arg, got, task, victim>>

\* A new variable is marked temporary, or the caller asked for one to keep.
MarkTemporary(t) ==
  /\ pc[t] = "mark"
  /\ \/ tempIDs' = tempIDs \cup {arg[t]}
     \/ tempIDs' = tempIDs \ {arg[t]}
  /\ pc' = [pc EXCEPT ![t] = "idle"]
  /\ arg' = [arg EXCEPT ![t] = 0]
  /\ UNCHANGED <<vars, made, usedIDs, availableIDs, cache, lock, got, task, victim>>

-----------------------------------------------------------------------------
(* Get, called by a script or by the destructor of the variable erased *)

Get(t, id) ==
  /\ pc[t] \in {"idle", "destroy"}
  /\ arg' = [arg EXCEPT ![t] = id]
  /\ pc' = [pc EXCEPT ![t] = "compare"]
  /\ UNCHANGED <<vars, made, pools, cache, lock, got, task, victim>>

GetStep(t, from, to) ==
  /\ pc[t] = from
  /\ pc' = [pc EXCEPT ![t] = to]
  /\ UNCHANGED <<vars, made, pools, lock, task, victim>>

CompareID(t) ==
  /\ GetStep(t, "compare", IF cacheID = arg[t] THEN "hit" ELSE "lookup")
  /\ UNCHANGED <<cache, arg, got>>

ReadCached(t) ==
  /\ GetStep(t, "hit", IF cacheVar = 0 THEN "lookup" ELSE "return")
  /\ got' = [got EXCEPT ![t] = cacheVar]
  /\ UNCHANGED <<cache, arg>>

LookUp(t) ==
  /\ GetStep(t, "lookup", IF vars[arg[t]] = 0 THEN "return" ELSE "fillID")
  /\ got' = [got EXCEPT ![t] = vars[arg[t]]]
  /\ UNCHANGED <<cache, arg>>

\* VarCache::Insert writes its two fields one after the other.
FillID(t) ==
  /\ GetStep(t, "fillID", "fillVar")
  /\ cacheID' = arg[t]
  /\ UNCHANGED <<cacheVar, arg, got>>

FillVar(t) ==
  /\ GetStep(t, "fillVar", "return")
  /\ cacheVar' = got[t]
  /\ UNCHANGED <<cacheID, arg, got>>

Return(t) ==
  /\ GetStep(t, "return", IF task[t] = "none" THEN "idle" ELSE "destroy")
  /\ arg' = [arg EXCEPT ![t] = 0] /\ got' = [got EXCEPT ![t] = 0]
  /\ UNCHANGED cache

-----------------------------------------------------------------------------
(* Delete and Reset *)

\* The caller has found a variable to delete (Clean the last temporary one).
CallDelete(t, id) ==
  /\ pc[t] = "idle" /\ id \in usedIDs
  /\ task' = [task EXCEPT ![t] = "delete"]
  /\ victim' = [victim EXCEPT ![t] = id]
  /\ pc' = [pc EXCEPT ![t] = "delete"]
  /\ UNCHANGED <<vars, made, pools, cache, lock, arg, got>>

\* Mutant: the cache entry survives the deletion.
MutantKeepCached(t) ==
  /\ pc[t] = "delete" /\ lock = NoThread
  /\ lock' = t
  /\ pc' = [pc EXCEPT ![t] = "erase"]
  /\ UNCHANGED <<vars, made, pools, cache, arg, got, task, victim>>

\* Delete takes the lock and forgets the cache.
Delete(t) ==
  /\ pc[t] = "delete" /\ lock = NoThread
  /\ lock' = t
  /\ IF cacheID = victim[t] THEN cacheID' = 0 /\ cacheVar' = 0 ELSE UNCHANGED cache
  /\ pc' = [pc EXCEPT ![t] = "erase"]
  /\ UNCHANGED <<vars, made, pools, arg, got, task, victim>>

\* Erase unlinks the entry, then the destructor runs; unless another thread has
\* deleted the variable before.
EraseVariable(t) ==
  /\ pc[t] = "erase"
  /\ vars' = [vars EXCEPT ![victim[t]] = 0]
  /\ pc' = [pc EXCEPT ![t] = IF vars[victim[t]] # 0 THEN "destroy" ELSE "erased"]
  /\ UNCHANGED <<made, pools, cache, lock, arg, got, task, victim>>

DeleteEnd(t) ==
  /\ pc[t] \in {"destroy", "erased"} /\ task[t] = "delete"
  /\ usedIDs' = usedIDs \ {victim[t]}
  /\ tempIDs' = tempIDs \ {victim[t]}
  /\ availableIDs' = availableIDs \cup {victim[t]}
  /\ lock' = NoThread
  /\ task' = [task EXCEPT ![t] = "none"]
  /\ victim' = [victim EXCEPT ![t] = 0]
  /\ pc' = [pc EXCEPT ![t] = "idle"]
  /\ UNCHANGED <<vars, made, cache, arg, got>>

\* Reset takes no lock.
Reset(t) ==
  /\ pc[t] = "idle"
  /\ cacheID' = 0 /\ cacheVar' = 0
  /\ task' = [task EXCEPT ![t] = "reset"]
  /\ pc' = [pc EXCEPT ![t] = "sweep"]
  /\ UNCHANGED <<vars, made, pools, lock, arg, got, victim>>

\* iter.Init(vars) and iter.Remove(): the first entry in hash order.
ResetRemove(t, id) ==
  /\ \/ pc[t] = "sweep"
     \/ pc[t] = "destroy" /\ task[t] = "reset"
  /\ vars[id] # 0
  /\ victim' = [victim EXCEPT ![t] = id]
  /\ vars' = [vars EXCEPT ![id] = 0]
  /\ pc' = [pc EXCEPT ![t] = "destroy"]
  /\ UNCHANGED <<made, pools, cache, lock, arg, got, task>>

ResetEnd(t) ==
  /\ \/ pc[t] = "sweep"
     \/ pc[t] = "destroy" /\ task[t] = "reset"
  /\ \A id \in IDs : vars[id] = 0
  /\ usedIDs' = {} /\ tempIDs' = {} /\ availableIDs' = {}
  /\ task' = [task EXCEPT ![t] = "none"]
  /\ pc' = [pc EXCEPT ![t] = "idle"]
  /\ UNCHANGED <<vars, made, cache, lock, arg, got, victim>>

-----------------------------------------------------------------------------
MapInit ==
  /\ vars = [id \in IDs |-> 0]
  /\ made = 0
  /\ usedIDs = {} /\ tempIDs = {} /\ availableIDs = {}
  /\ cacheID = 0 /\ cacheVar = 0
  /\ lock = NoThread
  /\ pc = [t \in Threads |-> "idle"]
  /\ arg = [t \in Threads |-> 0]
  /\ got = [t \in Threads |-> 0]
  /\ task = [t \in Threads |-> "none"]
  /\ victim = [t \in Threads |-> 0]
  /\ overlapped = FALSE

Create(t) == GetUnusedID(t) \/ Insert(t) \/ MarkTemporary(t)

Read(t) == \/ \E id \in IDs : Get(t, id)
           \/ CompareID(t) \/ ReadCached(t) \/ LookUp(t)
           \/ FillID(t) \/ FillVar(t) \/ Return(t)

Discard(t) == \/ \E id \in IDs : CallDelete(t, id)
              \/ Delete(t) \/ EraseVariable(t) \/ DeleteEnd(t)

Clear(t) == Reset(t) \/ (\E id \in IDs : ResetRemove(t, id)) \/ ResetEnd(t)

Idle(t) == pc[t] = "idle"
NoteOverlap(t) ==
  overlapped' = (overlapped \/ \E u \in Threads \ {t} : ~Idle(u))

\* A map that is never reset, and one that a loaded game resets.
MapNext == \E t \in Threads : (Create(t) \/ Read(t) \/ Discard(t)) /\ NoteOverlap(t)
MapSpec == MapInit /\ [][MapNext]_vvars

MapNextWithReset == MapNext \/ \E t \in Threads : Clear(t) /\ NoteOverlap(t)
MapSpecWithReset == MapInit /\ [][MapNextWithReset]_vvars

-----------------------------------------------------------------------------
(* Properties *)

TypeOK ==
  /\ vars \in [IDs -> Nat] /\ made \in Nat
  /\ usedIDs \subseteq IDs /\ tempIDs \subseteq IDs /\ availableIDs \subseteq IDs
  /\ cacheID \in 0 .. MaxID /\ cacheVar \in Nat
  /\ lock \in Threads \cup {NoThread}
  /\ pc \in [Threads -> {"idle", "insert", "mark", "compare", "hit", "lookup",
                         "fillID", "fillVar", "return", "delete", "erase",
                         "destroy", "erased", "sweep"}]
  /\ arg \in [Threads -> 0 .. MaxID] /\ got \in [Threads -> Nat]
  /\ task \in [Threads -> {"none", "delete", "reset"}]
  /\ victim \in [Threads -> 0 .. MaxID]
  /\ overlapped \in BOOLEAN

\* What Get returns is what the map holds under that ID, whether it came from
\* the cache or from the map: never a variable that was deleted, and never
\* that of another ID (VarMap::Get, VarCache).
GetAnswersMap == \A t \in Threads : pc[t] = "return" => got[t] = vars[arg[t]]

\* Whenever no call is under way, used and available IDs are disjoint and only
\* existing variables are temporary.
PoolsAgree ==
  (\A t \in Threads : Idle(t)) =>
    usedIDs \cap availableIDs = {} /\ tempIDs \subseteq usedIDs

\* As long as the threads make their calls one after the other, Get answers from
\* the cache as from the map, although destructors call it in a Delete, and the
\* sets of IDs agree between calls.  (The lock does not see to this: when calls
\* overlap, either may fail.)
MapSound == TypeOK /\ (~overlapped => PoolsAgree /\ GetAnswersMap)

\* The IDs that GetUnusedID has returned and Insert has not used yet.
HandedOut == {arg[t] : t \in {u \in Threads : pc[u] = "insert"}}
KnownIDs == usedIDs \cup availableIDs \cup HandedOut

\* However calls overlap, and whether or not two threads insert or delete one and
\* the same ID: an ID has a variable exactly when it is used, unless the lock is
\* held, and every ID below a known one is used, available or about to be used, so
\* that none is lost (VarMap::Insert, Delete, GetUnusedID).
IDsKept ==
  /\ lock = NoThread => usedIDs = {id \in IDs : vars[id] # 0}
  /\ \A id \in KnownIDs : 1 .. id \subseteq KnownIDs
=============================================================================
