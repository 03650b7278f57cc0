------------------------------- MODULE RefHeap -------------------------------
(***************************************************************************)
(* What the script arrays of NVSE promise to a script author, with no      *)
(* reference counts, no ID pool and no collector: objects that exist or    *)
(* do not, and slots that point at objects.  An object is freed only when  *)
(* nothing points at it, and an ID that comes into existence is one that   *)
(* nothing points at, so that no stale reference ever comes to denote an   *)
(* unrelated array.                                                        *)
(***************************************************************************)
CONSTANTS Objects,      \* names of objects
          Slots,        \* places a reference can be stored in
          SlotsOf(_)    \* SlotsOf(o): the slots that are part of object o

VARIABLES live,         \* the objects that exist
          points        \* points[s]: the object slot s points at, or 0

vars == <<live, points>>

Pointed(o) == \E s \in Slots : points[s] = o

Init == /\ live = {}
        /\ points = [s \in Slots |-> 0]

Allocate(o) == /\ o \notin live
               /\ ~Pointed(o)
               /\ live' = live \cup {o}
               /\ UNCHANGED points

(***************************************************************************)
(* A slot is pointed at a live object, or at nothing.                      *)
(***************************************************************************)
Retarget(s, o) == /\ o \in live \cup {0}
                  /\ points' = [points EXCEPT ![s] = o]
                  /\ UNCHANGED live

(***************************************************************************)
(* Freeing an object takes the slots it contains with it.                  *)
(***************************************************************************)
Free(o) == /\ o \in live
           /\ ~Pointed(o)
           /\ live' = live \ {o}
           /\ points' = [s \in Slots |-> IF s \in SlotsOf(o) THEN 0 ELSE points[s]]

Next == \/ \E o \in Objects : Allocate(o) \/ Free(o)
        \/ \E s \in Slots, o \in Objects \cup {0} : Retarget(s, o)

Spec == Init /\ [][Next]_vars
==============================================================================
