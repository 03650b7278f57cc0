----------------------------- MODULE ThreadProofs -----------------------------
(***************************************************************************)
(* Theorems about the two components that share state between threads: the *)
(* frame with its delayed calls (MainLoop), for any number of calls,       *)
(* delays, modes and deferred events, with a second thread; and the map of *)
(* IDs (VarMap), for any number of threads, IDs and variables.             *)
(*                                                                         *)
(* The loops over the six lists differ in when they run a script and when  *)
(* they erase a call, but they move in three ways only (GoOn, Run, Erase), *)
(* and scripts change a list in one way only (Appended).  The invariants   *)
(* are therefore proved of these moves first.  The map moves by the steps  *)
(* of one call at a time.                                                  *)
(***************************************************************************)
EXTENDS MainLoop, VarMap, DataLemmas, SequenceTheorems

(***************************************************************************)
(* Appending a new entry to a sequence without duplicates.                 *)
(***************************************************************************)
LEMMA AppendDistinct ==
  ASSUME NEW S, NEW q \in Seq(S), IsInjective(q), NEW c \in S, c \notin ToSet(q)
  PROVE  /\ Append(q, c) \in Seq(S) /\ IsInjective(Append(q, c))
         /\ ToSet(Append(q, c)) = ToSet(q) \cup {c}
         /\ Len(Append(q, c)) = Len(q) + 1
         /\ \A i \in 1 .. Len(q) : Append(q, c)[i] = q[i]
         /\ Append(q, c)[Len(q) + 1] = c
<1>. DEFINE r == Append(q, c)
<1>1. /\ r \in Seq(S) /\ Len(r) = Len(q) + 1 /\ Len(q) \in Nat
      /\ \A i \in 1 .. Len(q) : r[i] = q[i]
      /\ r[Len(q) + 1] = c
      /\ DOMAIN r = 1 .. Len(q) + 1 /\ DOMAIN q = 1 .. Len(q)
  BY AppendProperties, LenProperties
<1>. HIDE DEF r
<1>2. \A i \in 1 .. Len(q) : q[i] # c
  BY <1>1 DEF ToSet
<1>3. IsInjective(r)
  BY <1>1, <1>2 DEF IsInjective
<1>4. ToSet(r) = ToSet(q) \cup {c}
  BY <1>1 DEF ToSet
<1>. QED  BY <1>1, <1>3, <1>4 DEF r

(***************************************************************************)
(* Removing an entry of a sequence without duplicates.                     *)
(***************************************************************************)
LEMMA RemoveDistinct ==
  ASSUME NEW S, NEW q \in Seq(S), IsInjective(q), NEW p \in 1 .. Len(q)
  PROVE  /\ RemoveAt(q, p) \in Seq(S) /\ IsInjective(RemoveAt(q, p))
         /\ ToSet(RemoveAt(q, p)) = ToSet(q) \ {q[p]}
         /\ Len(RemoveAt(q, p)) = Len(q) - 1
         /\ \A i \in 1 .. Len(q) - 1 : RemoveAt(q, p)[i] = IF i < p THEN q[i] ELSE q[i + 1]
<1>. DEFINE a == SubSeq(q, 1, p - 1)
            b == SubSeq(q, p + 1, Len(q))
            r == RemoveAt(q, p)
<1>0. Len(q) \in Nat /\ p \in Nat /\ DOMAIN q = 1 .. Len(q)
  BY LenProperties
<1>1. /\ a \in Seq(S) /\ Len(a) = p - 1
      /\ \A i \in 1 .. p - 1 : a[i] = q[i]
  OBVIOUS
<1>2. /\ b \in Seq(S) /\ Len(b) = Len(q) - p
      /\ \A i \in 1 .. Len(q) - p : b[i] = q[p + i]
  OBVIOUS
<1>. HIDE DEF a, b
<1>3. /\ a \o b \in Seq(S) /\ Len(a \o b) = Len(a) + Len(b)
      /\ \A i \in 1 .. Len(a) + Len(b) :
           (a \o b)[i] = IF i <= Len(a) THEN a[i] ELSE b[i - Len(a)]
  BY <1>1, <1>2, ConcatProperties
<1>4. r = a \o b
  BY DEF RemoveAt, a, b
<1>. HIDE DEF r
<1>5. /\ r \in Seq(S) /\ Len(r) = Len(q) - 1
      /\ \A i \in 1 .. Len(q) - 1 : r[i] = IF i < p THEN q[i] ELSE q[i + 1]
  <2>1. r \in Seq(S) /\ Len(r) = Len(q) - 1
    <3>1. r \in Seq(S) /\ Len(r) = Len(a) + Len(b)
      BY <1>3, <1>4
    <3>. QED  BY <1>0, <1>1, <1>2, <3>1
  <2>2. ASSUME NEW i \in 1 .. Len(q) - 1, i < p
        PROVE  r[i] = q[i]
    <3>1. i \in 1 .. Len(a) + Len(b) /\ i <= Len(a) /\ i \in 1 .. p - 1
      BY <1>0, <1>1, <1>2, <2>2
    <3>. QED  BY <1>1, <1>3, <1>4, <3>1
  <2>3. ASSUME NEW i \in 1 .. Len(q) - 1, ~(i < p)
        PROVE  r[i] = q[i + 1]
    <3>1. /\ i \in 1 .. Len(a) + Len(b) /\ ~(i <= Len(a))
          /\ i - Len(a) \in 1 .. Len(q) - p /\ p + (i - Len(a)) = i + 1
      BY <1>0, <1>1, <1>2, <2>3
    <3>2. r[i] = b[i - Len(a)]
      BY <1>3, <1>4, <3>1
    <3>3. b[i - Len(a)] = q[p + (i - Len(a))]
      BY <1>2, <3>1
    <3>. QED  BY <3>1, <3>2, <3>3
  <2>. QED  BY <2>1, <2>2, <2>3
<1>6. DOMAIN r = 1 .. Len(q) - 1
  BY <1>5
<1>7. IsInjective(r)
  <2>. SUFFICES ASSUME NEW i \in 1 .. Len(q) - 1, NEW j \in 1 .. Len(q) - 1, r[i] = r[j]
                PROVE  i = j
    BY <1>6 DEF IsInjective
  <2>. DEFINE old(k) == IF k < p THEN k ELSE k + 1
  <2>1. r[i] = q[old(i)] /\ r[j] = q[old(j)] /\ old(i) \in DOMAIN q /\ old(j) \in DOMAIN q
    BY <1>0, <1>5
  <2>2. old(i) = old(j)
    BY <2>1 DEF IsInjective
  <2>. QED  BY <1>0, <2>2
<1>8. ToSet(r) \subseteq ToSet(q) \ {q[p]}
  <2>. SUFFICES ASSUME NEW i \in 1 .. Len(q) - 1
                PROVE  r[i] \in ToSet(q) \ {q[p]}
    BY <1>6 DEF ToSet
  <2>1. PICK k \in DOMAIN q : k # p /\ r[i] = q[k]
    <3>1. CASE i < p
      <4>1. i \in DOMAIN q /\ i # p /\ r[i] = q[i]
        BY <1>0, <1>5, <3>1
      <4>. QED  BY <4>1
    <3>2. CASE ~(i < p)
      <4>1. i + 1 \in DOMAIN q /\ i + 1 # p /\ r[i] = q[i + 1]
        BY <1>0, <1>5, <3>2
      <4>. QED  BY <4>1
    <3>. QED  BY <3>1, <3>2
  <2>. QED  BY <1>0, <2>1 DEF ToSet, IsInjective
<1>9. ToSet(q) \ {q[p]} \subseteq ToSet(r)
  <2>. SUFFICES ASSUME NEW k \in 1 .. Len(q), k # p
                PROVE  q[k] \in ToSet(r)
    BY <1>0 DEF ToSet
  <2>1. \E i \in 1 .. Len(q) - 1 : r[i] = q[k]
    <3>1. CASE k < p
      BY <1>0, <1>5, <3>1
    <3>2. CASE k > p
      <4>1. k - 1 \in 1 .. Len(q) - 1 /\ r[k - 1] = q[k]
        BY <1>0, <1>5, <3>2
      <4>. QED  BY <4>1
    <3>. QED  BY <1>0, <3>1, <3>2
  <2>. QED  BY <1>6, <2>1 DEF ToSet
<1>. QED  BY <1>5, <1>7, <1>8, <1>9 DEF r

-----------------------------------------------------------------------------
(* The types, and the loop's place in its list. *)

Stages == Lists \cup {"scripts", "tick", "clean", "clock"}
InfoType == [delay : 0 .. MaxDelay, left : Int, active : SUBSET Modes, served : Nat]

TypeInv ==
  /\ stage \in Stages /\ mode \in Modes
  /\ list \in [Lists -> Seq(Calls)]
  /\ info \in [Calls -> InfoType]
  /\ at \in Calls \cup {NoCall}
  /\ doing \in {"visit", "cond", "call"}
  /\ handling \in BOOLEAN /\ wantsEvents \in BOOLEAN

(***************************************************************************)
(* A call is at hand only while its list is visited, and a script of a     *)
(* call runs only while that call is at hand.                              *)
(***************************************************************************)
LoopInv ==
  /\ at # NoCall => stage \in Lists
  /\ doing # "visit" => at # NoCall
  /\ doing = "cond" => stage \in Conditional
  /\ handling => stage = "tick"

IterInv == TypeInv /\ LoopInv /\ IteratorsValid

LEMMA ListNames ==
  /\ Lists = {"while", "when", "after", "for", "every", "frames"}
  /\ NextStage("while") = "when" /\ NextStage("when") = "after"
  /\ NextStage("after") = "for" /\ NextStage("for") = "every"
  /\ NextStage("every") = "frames" /\ NextStage("frames") = "scripts"
  /\ \A k \in Lists : NextStage(k) \in Stages
<1>1. /\ Len(Order) = 6 /\ DOMAIN Order = {1, 2, 3, 4, 5, 6}
      /\ Order[1] = "while" /\ Order[2] = "when" /\ Order[3] = "after"
      /\ Order[4] = "for" /\ Order[5] = "every" /\ Order[6] = "frames"
  BY DEF Order
<1>2. Lists = {"while", "when", "after", "for", "every", "frames"}
  BY <1>1 DEF Lists, Range
<1>3. Last(Order) = "frames"
  BY <1>1 DEF Last
<1>4. \A i \in 1 .. 5 : NextStage(Order[i]) = Order[i + 1]
  <2>. TAKE i \in 1 .. 5
  <2>1. \A j \in DOMAIN Order : Order[j] = Order[i] => j = i
    BY <1>1
  <2>2. (CHOOSE j \in DOMAIN Order : Order[j] = Order[i]) = i
    BY <1>1, <2>1
  <2>3. Order[i] # Last(Order)
    BY <1>1, <1>3
  <2>. QED  BY <1>1, <2>2, <2>3 DEF NextStage
<1>5. NextStage("frames") = "scripts"
  BY <1>3 DEF NextStage
<1>6. /\ NextStage("while") = "when" /\ NextStage("when") = "after"
      /\ NextStage("after") = "for" /\ NextStage("for") = "every"
      /\ NextStage("every") = "frames"
  BY <1>1, <1>4
<1>. QED  BY <1>2, <1>5, <1>6 DEF Stages

(***************************************************************************)
(* Where the loop is, and where it goes on.                                *)
(***************************************************************************)
LEMMA PlaceInList ==
  ASSUME IterInv, NEW k \in Lists, stage = k, at # NoCall
  PROVE  /\ list[k] \in Seq(Calls) /\ IsInjective(list[k]) /\ at \in Calls
         /\ Position(k) \in 1 .. Len(list[k]) /\ list[k][Position(k)] = at
         /\ Following(k) # at
         /\ Following(k) # NoCall => Following(k) \in ToSet(list[k])
         /\ Following(k) \in Calls \cup {NoCall}
<1>1. list[k] \in Seq(Calls) /\ at \in ToSet(list[k]) /\ IsInjective(list[k]) /\ at \in Calls
  BY DEF IterInv, TypeInv, IteratorsValid
<1>2. \E i \in DOMAIN list[k] : list[k][i] = at
  BY <1>1 DEF ToSet
<1>3. /\ DOMAIN list[k] = 1 .. Len(list[k]) /\ Len(list[k]) \in Nat
  BY <1>1, LenProperties
<1>4. Position(k) \in 1 .. Len(list[k]) /\ list[k][Position(k)] = at
  BY <1>2, <1>3 DEF Position
<1>. DEFINE p == Position(k)
<1>5. CASE p = Len(list[k])
  BY <1>1, <1>4, <1>5 DEF Following
<1>6. CASE p # Len(list[k])
  <2>1. p + 1 \in DOMAIN list[k] /\ p + 1 # p /\ Following(k) = list[k][p + 1]
    BY <1>3, <1>4, <1>6 DEF Following
  <2>2. Following(k) # at /\ Following(k) \in ToSet(list[k]) /\ Following(k) \in Calls
    BY <1>1, <1>3, <1>4, <2>1 DEF IsInjective, ToSet
  <2>. QED  BY <1>1, <1>4, <2>2
<1>. QED  BY <1>5, <1>6

(***************************************************************************)
(* The three moves of a loop keep its place valid.                         *)
(***************************************************************************)
LEMMA LoopMoves ==
  ASSUME IterInv, NEW k \in Lists, stage = k, at # NoCall, NEW i \in InfoType,
         UNCHANGED <<mode, handling, wantsEvents>>,
         \/ GoOn(k, i)
         \/ Run("call", i)
         \/ Run("cond", i) /\ k \in Conditional
         \/ Erase(k)
  PROVE  IterInv'
<1>. /\ TypeInv /\ LoopInv /\ IteratorsValid /\ k \notin {"scripts", "tick", "clean", "clock"}
     /\ NextStage(k) \in Stages
  BY ListNames DEF IterInv
<1>. ~handling /\ ~handling'
  BY DEF LoopInv
<1>0. NoInfo \in InfoType
  <2>1. 0 \in 0 .. MaxDelay
    BY ConstantsAssumption DEF ConstantsAssumption
  <2>. QED  BY <2>1 DEF NoInfo, InfoType
<1>1. /\ list[k] \in Seq(Calls) /\ IsInjective(list[k]) /\ at \in Calls
      /\ Position(k) \in 1 .. Len(list[k]) /\ list[k][Position(k)] = at
      /\ Following(k) # at
      /\ Following(k) # NoCall => Following(k) \in ToSet(list[k])
      /\ Following(k) \in Calls \cup {NoCall}
  BY PlaceInList
<1>2. CASE GoOn(k, i)
  <2>1. /\ at' = Following(k) /\ stage' = IF Following(k) = NoCall THEN NextStage(k) ELSE k
        /\ doing' = "visit" /\ info' = [info EXCEPT ![at] = i] /\ list' = list
    BY <1>2 DEF GoOn, StepTo
  <2>2. TypeInv'
    BY <1>1, <2>1 DEF TypeInv, Stages
  <2>3. LoopInv'
    BY <2>1 DEF LoopInv
  <2>4. IteratorsValid'
    BY <1>1, <2>1 DEF IteratorsValid
  <2>. QED  BY <2>2, <2>3, <2>4 DEF IterInv
<1>3. CASE Run("call", i) \/ (Run("cond", i) /\ k \in Conditional)
  <2>1. /\ UNCHANGED <<stage, at, list>> /\ info' = [info EXCEPT ![at] = i]
        /\ doing' = "call" \/ (doing' = "cond" /\ k \in Conditional)
    BY <1>3 DEF Run
  <2>2. TypeInv'
    BY <1>1, <2>1 DEF TypeInv
  <2>3. LoopInv'
    BY <2>1 DEF LoopInv
  <2>4. IteratorsValid'
    BY <2>1 DEF IteratorsValid
  <2>. QED  BY <2>2, <2>3, <2>4 DEF IterInv
<1>4. CASE Erase(k)
  <2>. DEFINE q == RemoveAt(list[k], Position(k))
  <2>1. /\ at' = Following(k) /\ stage' = IF Following(k) = NoCall THEN NextStage(k) ELSE k
        /\ doing' = "visit" /\ info' = [info EXCEPT ![at] = NoInfo]
        /\ list' = [list EXCEPT ![k] = q]
    BY <1>4 DEF Erase, StepTo
  <2>2. q \in Seq(Calls) /\ IsInjective(q) /\ ToSet(q) = ToSet(list[k]) \ {at}
    BY <1>1, RemoveDistinct
  <2>. HIDE DEF q
  <2>3. TypeInv'
    BY <1>0, <1>1, <2>1, <2>2 DEF TypeInv, Stages
  <2>4. LoopInv'
    BY <2>1 DEF LoopInv
  <2>5. \A l \in Lists : list'[l] = IF l = k THEN q ELSE list[l]
    BY <2>1 DEF TypeInv
  <2>6. IteratorsValid'
    <3>1. at' # NoCall => stage' = k /\ at' \in ToSet(list'[k])
      BY <1>1, <2>1, <2>2, <2>5
    <3>2. \A l \in Lists : ToSet(list'[l]) \subseteq ToSet(list[l]) /\ IsInjective(list'[l])
      BY <2>2, <2>5 DEF IteratorsValid
    <3>3. \A l, m \in Lists : l # m => ToSet(list'[l]) \cap ToSet(list'[m]) = {}
      BY <3>2 DEF IteratorsValid
    <3>. QED  BY <3>1, <3>2, <3>3 DEF IteratorsValid
  <2>. QED  BY <2>3, <2>4, <2>6 DEF IterInv
<1>. QED  BY <1>2, <1>3, <1>4

(***************************************************************************)
(* A script appends a call that is in no list.                             *)
(***************************************************************************)
LEMMA AddedCall ==
  ASSUME IterInv, NEW k \in Lists, NEW d \in Delays, NEW active \in ActiveSets,
         AddInfo(k, d, active)
  PROVE  \E c \in Calls :
           /\ \A l \in Lists : c \notin ToSet(list[l])
           /\ info' = [info EXCEPT ![c] = [delay |-> d, left |-> d, active |-> active,
                                          served |-> 0]]
           /\ list' = [list EXCEPT ![k] = Append(list[k], c)]
           /\ [delay |-> d, left |-> d, active |-> active, served |-> 0] \in InfoType
<1>. DEFINE c == CHOOSE n \in Calls : n \notin Scheduled
<1>1. /\ Calls \ Scheduled # {}
      /\ list' = [list EXCEPT ![k] = Append(list[k], c)]
      /\ info' = [info EXCEPT ![c] = [delay |-> d, left |-> d, active |-> active, served |-> 0]]
  BY DEF AddInfo, Appended
<1>2. c \in Calls /\ c \notin Scheduled
  BY <1>1
<1>. HIDE DEF c
<1>3. \A l \in Lists : c \notin ToSet(list[l])
  BY <1>2 DEF Scheduled
<1>4. [delay |-> d, left |-> d, active |-> active, served |-> 0] \in InfoType
  BY ConstantsAssumption DEF ConstantsAssumption, InfoType
<1>. QED  BY <1>1, <1>2, <1>3, <1>4

LEMMA AddInv ==
  ASSUME IterInv, NEW k \in Lists, NEW d \in Delays, NEW active \in ActiveSets,
         AddInfo(k, d, active),
         UNCHANGED <<frame, wantsEvents>>
  PROVE  IterInv'
<1>. TypeInv /\ LoopInv /\ IteratorsValid /\ UNCHANGED <<stage, mode, at, doing, handling, wantsEvents>>
  BY DEF IterInv, frame
<1>. DEFINE new == [delay |-> d, left |-> d, active |-> active, served |-> 0]
<1>1. PICK c \in Calls :
           /\ \A l \in Lists : c \notin ToSet(list[l])
           /\ info' = [info EXCEPT ![c] = new]
           /\ list' = [list EXCEPT ![k] = Append(list[k], c)]
           /\ new \in InfoType
  BY AddedCall
<1>. DEFINE q == Append(list[k], c)
<1>2. q \in Seq(Calls) /\ IsInjective(q) /\ ToSet(q) = ToSet(list[k]) \cup {c}
  BY <1>1, AppendDistinct DEF TypeInv, IteratorsValid
<1>3. list' = [list EXCEPT ![k] = q]
  BY <1>1
<1>. HIDE DEF q, new
<1>4. TypeInv'
  BY <1>1, <1>2, <1>3 DEF TypeInv
<1>5. \A l \in Lists : list'[l] = IF l = k THEN q ELSE list[l]
  BY <1>3 DEF TypeInv
<1>6. IteratorsValid'
  <2>1. \A l \in Lists : /\ ToSet(list'[l]) = ToSet(list[l]) \cup (IF l = k THEN {c} ELSE {})
                        /\ IsInjective(list'[l])
    BY <1>2, <1>5 DEF IteratorsValid
  <2>2. \A l, m \in Lists : l # m => ToSet(list'[l]) \cap ToSet(list'[m]) = {}
    <3>. TAKE l, m \in Lists
    <3>. HAVE l # m
    <3>1. ToSet(list[l]) \cap ToSet(list[m]) = {} /\ c \notin ToSet(list[l]) /\ c \notin ToSet(list[m])
      BY <1>1 DEF IteratorsValid
    <3>2. /\ ToSet(list'[l]) = ToSet(list[l]) \cup (IF l = k THEN {c} ELSE {})
          /\ ToSet(list'[m]) = ToSet(list[m]) \cup (IF m = k THEN {c} ELSE {})
      BY <2>1
    <3>. QED  BY <3>1, <3>2
  <2>3. at' # NoCall => at' \in ToSet(list'[stage'])
    BY <2>1 DEF IteratorsValid, LoopInv
  <2>. QED  BY <2>1, <2>2, <2>3 DEF IteratorsValid
<1>. QED  BY <1>4, <1>6 DEF IterInv, LoopInv

(***************************************************************************)
(* Steps that touch no list.                                               *)
(***************************************************************************)
LEMMA QuietInv ==
  ASSUME IterInv, UNCHANGED list, info' \in [Calls -> InfoType],
         stage' \in Stages, mode' \in Modes, handling' \in BOOLEAN, wantsEvents' \in BOOLEAN,
         UNCHANGED doing,
         \/ UNCHANGED <<stage, at>>
         \/ at = NoCall /\ at' = NoCall
         \/ at = NoCall /\ stage' \in Lists /\ at' \in ToSet(list[stage']),
         handling' => stage' = "tick",
         doing = "visit" \/ UNCHANGED <<stage, at>>
  PROVE  IterInv'
<1>1. at' # NoCall => stage' \in Lists /\ at' \in ToSet(list[stage'])
  BY DEF IterInv, LoopInv, IteratorsValid
<1>2. at' \in Calls \cup {NoCall}
  <2>1. \A l \in Lists : ToSet(list[l]) \subseteq Calls
    BY DEF IterInv, TypeInv, ToSet
  <2>. QED  BY <1>1, <2>1
<1>3. TypeInv'
  BY <1>2 DEF IterInv, TypeInv
<1>4. LoopInv'
  BY <1>1 DEF IterInv, LoopInv
<1>5. IteratorsValid'
  BY <1>1 DEF IterInv, IteratorsValid
<1>. QED  BY <1>3, <1>4, <1>5 DEF IterInv

LEMMA FrameIterInv ==
  ASSUME IterInv, Frame
  PROVE  IterInv'
<1>. TypeInv /\ LoopInv /\ IteratorsValid
  BY DEF IterInv
<1>. {"scripts", "tick", "clean", "clock"} \subseteq Stages /\ Lists \subseteq Stages
     /\ {"scripts", "tick", "clean", "clock"} \cap Lists = {}
  BY ListNames DEF Stages
<1>1. CASE TickBegin \/ TickHandle \/ HandlerReturns \/ TickEnd \/ Clean
  <2>1. /\ UNCHANGED <<mode, at, doing, list, info, wantsEvents>>
        /\ stage' \in Stages /\ handling' \in BOOLEAN
        /\ UNCHANGED stage \/ (stage \notin Lists /\ stage' \notin Lists)
        /\ handling' => stage' = "tick"
    <3>1. CASE TickBegin
      BY <3>1 DEF TickBegin, lists, TypeInv, LoopInv
    <3>2. CASE TickHandle
      BY <3>2 DEF TickHandle, lists, TypeInv
    <3>3. CASE HandlerReturns
      BY <3>3 DEF HandlerReturns, lists, TypeInv
    <3>4. CASE TickEnd
      BY <3>4 DEF TickEnd, lists, TypeInv
    <3>5. CASE Clean
      BY <3>5 DEF Clean, lists, TypeInv, LoopInv
    <3>. QED  BY <1>1, <3>1, <3>2, <3>3, <3>4, <3>5
  <2>2. \/ UNCHANGED <<stage, at>>
        \/ at = NoCall /\ at' = NoCall /\ doing = "visit"
    BY <2>1 DEF LoopInv
  <2>3. mode' \in Modes /\ wantsEvents' \in BOOLEAN /\ info' \in [Calls -> InfoType]
    BY <2>1 DEF TypeInv
  <2>. QED  BY <2>1, <2>2, <2>3, QuietInv
<1>2. ASSUME NEW m \in Modes, Clock(m)
      PROVE  IterInv'
  <2>1. \A c \in Calls : [info[c] EXCEPT !.left = @ - 1] \in InfoType /\ info[c] \in InfoType
    <3>. TAKE c \in Calls
    <3>1. info[c] \in InfoType
      BY DEF TypeInv
    <3>. QED  BY <3>1 DEF InfoType
  <2>2. /\ info' \in [Calls -> InfoType]
        /\ stage = "clock" /\ stage' = "while" /\ mode' = m
        /\ UNCHANGED <<at, doing, handling, list, wantsEvents>>
    BY <1>2, <2>1 DEF Clock, Order
  <2>3. at = NoCall /\ doing = "visit" /\ ~handling
    BY <2>2 DEF LoopInv
  <2>. QED  BY <2>2, <2>3, ListNames, QuietInv DEF TypeInv
<1>3. ASSUME NEW k \in Lists, EnterList(k)
      PROVE  IterInv'
  <2>1. /\ stage = k /\ at = NoCall /\ doing = "visit" /\ ~handling
        /\ UNCHANGED <<mode, doing, handling, list, info, wantsEvents>>
    BY <1>3 DEF EnterList, lists, LoopInv
  <2>2. CASE list[k] = <<>>
    <3>1. stage' = NextStage(k) /\ at' = at /\ NextStage(k) \in Stages
      BY <1>3, <2>2, ListNames DEF EnterList
    <3>. QED  BY <2>1, <3>1, QuietInv DEF TypeInv
  <2>3. CASE list[k] # <<>>
    <3>1. stage' = k /\ at' = Head(list[k])
      BY <1>3, <2>1, <2>3 DEF EnterList
    <3>2. Head(list[k]) \in ToSet(list[k])
      <4>1. list[k] \in Seq(Calls) /\ Len(list[k]) \in Nat /\ DOMAIN list[k] = 1 .. Len(list[k])
        BY LenProperties DEF TypeInv
      <4>2. 1 \in DOMAIN list[k] /\ Head(list[k]) = list[k][1]
        BY <2>3, <4>1
      <4>. QED  BY <4>2 DEF ToSet
    <3>. QED  BY <2>1, <3>1, <3>2, QuietInv DEF TypeInv
  <2>. QED  BY <2>2, <2>3
<1>4. ASSUME NEW k \in Lists, Visit(k)
      PROVE  IterInv'
  <2>1. /\ stage = k /\ at # NoCall /\ doing = "visit"
        /\ UNCHANGED <<mode, handling, wantsEvents>>
    BY <1>4 DEF Visit
  <2>2. /\ \/ GoOn(k, Visited(k))
           \/ Run("call", Visited(k))
           \/ Run("cond", Visited(k)) /\ k \in Conditional
           \/ Erase(k)
    BY <1>4 DEF Visit, Conditional
  <2>3. Visited(k) \in InfoType
    <3>1. info[at] \in InfoType /\ MaxDelay \in Nat
      BY <2>1, ConstantsAssumption DEF TypeInv, ConstantsAssumption
    <3>2. Left(k) \in Int
      BY <3>1 DEF Left, InfoType
    <3>3. Min({info[at].served + 1, MaxDelay + 2}) \in Nat
      <4>. DEFINE x == info[at].served + 1
                  y == MaxDelay + 2
      <4>1. x \in Nat /\ y \in Nat
        BY <3>1 DEF InfoType
      <4>. HIDE DEF x, y
      <4>2. \E z \in {x, y} : \A w \in {x, y} : z <= w
        BY <4>1
      <4>3. Min({x, y}) \in {x, y}
        BY <4>2 DEF Min
      <4>. QED  BY <4>1, <4>3 DEF x, y
    <3>. QED  BY <3>1, <3>2, <3>3 DEF Visited, InfoType
  <2>. QED  BY <2>1, <2>2, <2>3, LoopMoves
<1>5. ASSUME NEW k \in Lists, NEW met \in BOOLEAN, ConditionReturns(k, met)
      PROVE  IterInv'
  <2>1. /\ stage = k /\ at # NoCall /\ info[at] \in InfoType
        /\ UNCHANGED <<mode, handling, wantsEvents>>
    BY <1>5 DEF ConditionReturns, LoopInv, TypeInv
  <2>2. GoOn(k, info[at]) \/ Run("call", info[at]) \/ Erase(k)
    BY <1>5 DEF ConditionReturns
  <2>. QED  BY <2>1, <2>2, LoopMoves
<1>6. ASSUME NEW k \in Lists, CallReturns(k)
      PROVE  IterInv'
  <2>. DEFINE i == IF k = "every" THEN [info[at] EXCEPT !.left = info[at].delay] ELSE info[at]
  <2>1. /\ stage = k /\ at # NoCall /\ info[at] \in InfoType
        /\ UNCHANGED <<mode, handling, wantsEvents>>
    BY <1>6 DEF CallReturns, LoopInv, TypeInv
  <2>2. GoOn(k, i) \/ Erase(k)
    BY <1>6 DEF CallReturns
  <2>3. i \in InfoType
    BY <2>1 DEF InfoType
  <2>. HIDE DEF i
  <2>. QED  BY <2>1, <2>2, <2>3, LoopMoves
<1>. QED  BY <1>1, <1>2, <1>3, <1>4, <1>5, <1>6 DEF Frame

LEMMA ScriptsIterInv ==
  ASSUME IterInv, Scripts
  PROVE  IterInv'
<1>. TypeInv /\ LoopInv /\ IteratorsValid
  BY DEF IterInv
<1>1. CASE \/ WantEvents \/ UseEvents \/ DispatchElsewhere \/ DispatchAltElsewhere
           \/ HandlerEndsElsewhere \/ \E k \in Lists : WantList(k)
  <2>1. UNCHANGED <<stage, mode, at, doing, handling, list, info>> /\ wantsEvents' \in BOOLEAN
    BY <1>1 DEF WantEvents, UseEvents, DispatchElsewhere, DispatchAltElsewhere,
                HandlerEndsElsewhere, WantList, frame, lists, TypeInv
  <2>. QED  BY <2>1, QuietInv DEF TypeInv, LoopInv
<1>2. ASSUME NEW k \in Lists, NEW d \in Delays, NEW active \in ActiveSets,
             \/ Schedule(k, d, active)
             \/ ScheduleElsewhere(k, d, active)
             \/ HandlerSchedules(k, d, active)
      PROVE  IterInv'
  <2>1. UNCHANGED <<frame, wantsEvents>>
    BY <1>2 DEF Schedule, ScheduleElsewhere, HandlerSchedules
  <2>2. CASE AddInfo(k, d, active)
    BY <2>1, <2>2, AddInv
  <2>3. CASE UNCHANGED lists
    BY <2>1, <2>3, QuietInv DEF lists, frame, TypeInv, LoopInv
  <2>. QED  BY <1>2, <2>2, <2>3 DEF Schedule, ScheduleElsewhere, HandlerSchedules
<1>3. CASE ClearDelayedCalls
  <2>1. /\ stage = "scripts" /\ at = NoCall /\ doing = "visit" /\ ~handling
        /\ list' = [k \in Lists |-> <<>>] /\ info' = [c \in Calls |-> NoInfo]
        /\ UNCHANGED <<stage, mode, at, doing, handling, wantsEvents>>
    BY <1>3, ListNames DEF ClearDelayedCalls, frame, LoopInv
  <2>2. NoInfo \in InfoType /\ <<>> \in Seq(Calls)
    BY ConstantsAssumption, EmptySeq DEF NoInfo, InfoType, ConstantsAssumption
  <2>3. TypeInv'
    BY <2>1, <2>2 DEF TypeInv
  <2>4. IteratorsValid'
    <3>1. ToSet(<<>>) = {} /\ IsInjective(<<>>)
      BY DEF ToSet, IsInjective
    <3>. QED  BY <2>1, <3>1 DEF IteratorsValid
  <2>. QED  BY <2>1, <2>3, <2>4 DEF IterInv, LoopInv
<1>. QED  BY <1>1, <1>2, <1>3 DEF Scripts

LEMMA InitIterInv == Init => IterInv
<1>. SUFFICES ASSUME Init PROVE IterInv
  OBVIOUS
<1>1. NoInfo \in InfoType /\ <<>> \in Seq(Calls)
  BY ConstantsAssumption, EmptySeq DEF NoInfo, InfoType, ConstantsAssumption
<1>2. ToSet(<<>>) = {} /\ IsInjective(<<>>)
  BY DEF ToSet, IsInjective
<1>3. TypeInv
  BY <1>1 DEF Init, TypeInv, Stages, Modes
<1>. QED  BY <1>2, <1>3 DEF Init, IterInv, LoopInv, IteratorsValid

LEMMA NextIterInv == IterInv /\ [Next]_allVars => IterInv'
<1>1. IterInv /\ UNCHANGED allVars => IterInv'
  BY DEF allVars, frame, lists, IterInv, TypeInv, LoopInv, IteratorsValid
<1>. QED  BY <1>1, FrameIterInv, ScriptsIterInv DEF Next

(***************************************************************************)
(* The iterator of a loop over delayed calls stays in its list, whatever   *)
(* scripts on either thread schedule and whatever the loop erases, and no  *)
(* call is ever in two places (HandleDelayedCall and the loops after it).  *)
(***************************************************************************)
THEOREM IteratorsStayValid == Spec => []IteratorsValid
<1>1. IterInv => IteratorsValid
  BY DEF IterInv
<1>. QED  BY <1>1, InitIterInv, NextIterInv, PTL DEF Spec

-----------------------------------------------------------------------------
(***************************************************************************)
(* Timely calls.  A call of the list "after" has been served for as long   *)
(* as its delay less what is left of it, give or take the frame under way: *)
(* while its visit lies ahead the clock may have taken one off what is     *)
(* left already, and once it has been visited it may have been given one   *)
(* too many, if it was scheduled after the clock.                          *)
(***************************************************************************)
Beyond(q, a, c) == \E i, j \in DOMAIN q : i < j /\ q[i] = a /\ q[j] = c

Ahead(c) ==
  \/ stage \in {"while", "when"}
  \/ stage = "after" /\ \/ at = NoCall
                        \/ at = c /\ doing = "visit"
                        \/ at # NoCall /\ Beyond(list["after"], at, c)

Running(k, c) == stage = k /\ at = c /\ doing = "call"

FitsAfter(i, ahead, running) ==
  IF ahead
  THEN /\ i.served + i.left \in {i.delay - 1, i.delay}
       /\ i.left >= 0 \/ (i.served = 0 /\ i.left = -1)
  ELSE /\ i.served + i.left \in {i.delay, i.delay + 1}
       /\ IF running THEN i.left <= 0 /\ (i.left = 0 \/ (i.left = -1 /\ i.served <= 1))
          ELSE i.left >= 1 \/ (i.served = 0 /\ i.left = 0)

FitsFrames(i, running) ==
  /\ i.served + i.left = i.delay
  /\ IF running THEN i.left <= 0 /\ (i.left = 0 \/ i.served = 1)
     ELSE i.left >= 1 \/ i.served = 0

TimeInv ==
  /\ \A c \in ToSet(list["after"]) : FitsAfter(info[c], Ahead(c), Running("after", c))
  /\ \A c \in ToSet(list["frames"]) : FitsFrames(info[c], Running("frames", c))

LEMMA BeyondPlace ==
  ASSUME NEW S, NEW q \in Seq(S), IsInjective(q), NEW p \in 1 .. Len(q), NEW c
  PROVE  Beyond(q, q[p], c) <=> \E j \in p + 1 .. Len(q) : q[j] = c
<1>1. DOMAIN q = 1 .. Len(q) /\ Len(q) \in Nat
  BY LenProperties
<1>2. ASSUME Beyond(q, q[p], c)
      PROVE  \E j \in p + 1 .. Len(q) : q[j] = c
  <2>1. PICK i \in DOMAIN q, j \in DOMAIN q : i < j /\ q[i] = q[p] /\ q[j] = c
    BY <1>2 DEF Beyond
  <2>2. i = p
    BY <1>1, <2>1 DEF IsInjective
  <2>3. j \in p + 1 .. Len(q)
    BY <1>1, <2>1, <2>2
  <2>. QED  BY <2>1, <2>3
<1>3. ASSUME NEW j \in p + 1 .. Len(q), q[j] = c
      PROVE  Beyond(q, q[p], c)
  <2>1. j \in DOMAIN q /\ p \in DOMAIN q /\ p < j
    BY <1>1
  <2>. QED  BY <1>3, <2>1 DEF Beyond
<1>. QED  BY <1>2, <1>3

(***************************************************************************)
(* A move of a loop leaves ahead what was ahead, but for the call at hand. *)
(***************************************************************************)
LEMMA MoveAhead ==
  ASSUME IterInv, NEW k \in Lists, stage = k, at # NoCall, NEW i,
         \/ GoOn(k, i)
         \/ \E what \in {"cond", "call"} : Run(what, i)
         \/ Erase(k),
         NEW c \in Calls
  PROVE  Ahead(c)' <=> Ahead(c) /\ ~(k = "after" /\ c = at)
<1>. DEFINE q == list[k]
            p == Position(k)
<1>1. /\ q \in Seq(Calls) /\ IsInjective(q) /\ p \in 1 .. Len(q) /\ q[p] = at
      /\ Following(k) # at /\ NoCall \notin Calls /\ DOMAIN q = 1 .. Len(q) /\ Len(q) \in Nat
  BY PlaceInList, LenProperties, ConstantsAssumption DEF ConstantsAssumption
<1>2. CASE k \in {"while", "when"}
  <2>1. stage' \in {"while", "when"} \/ (stage' = "after" /\ at' = NoCall)
    BY <1>2, ListNames DEF GoOn, Erase, Run, StepTo
  <2>. QED  BY <1>2, <2>1 DEF Ahead
<1>3. CASE k \in {"for", "every", "frames"}
  <2>1. stage' \notin {"while", "when", "after"}
    BY <1>3, ListNames DEF GoOn, Erase, Run, StepTo
  <2>. QED  BY <1>3, <2>1 DEF Ahead
<1>4. CASE k = "after"
  <2>1. Beyond(q, at, c) <=> \E j \in p + 1 .. Len(q) : q[j] = c
    BY <1>1, BeyondPlace
  <2>2. Beyond(q, at, c) => c # at
    BY <1>1, <2>1 DEF IsInjective
  <2>3. Ahead(c) /\ ~(k = "after" /\ c = at) <=> Beyond(q, at, c)
    BY <1>4, <2>2 DEF Ahead
  <2>4. CASE \E what \in {"cond", "call"} : Run(what, i)
    <3>1. stage' = "after" /\ at' = at /\ list' = list /\ doing' # "visit"
      BY <1>4, <2>4 DEF Run
    <3>. QED  BY <1>4, <2>3, <3>1 DEF Ahead
  <2>5. CASE GoOn(k, i) \/ Erase(k)
    <3>1. /\ at' = Following(k) /\ doing' = "visit"
          /\ stage' = IF Following(k) = NoCall THEN "for" ELSE "after"
      BY <1>4, <2>5, ListNames DEF GoOn, Erase, StepTo
    <3>2. list'["after"] \in {q, RemoveAt(q, p)}
      BY <1>4, <2>5 DEF GoOn, Erase, IterInv, TypeInv
    <3>3. CASE p = Len(q)
      <4>1. Following(k) = NoCall /\ ~Beyond(q, at, c)
        BY <1>1, <2>1, <3>3 DEF Following
      <4>. QED  BY <2>3, <3>1, <4>1 DEF Ahead
    <3>4. CASE p # Len(q)
      <4>1. Following(k) = q[p + 1] /\ p + 1 \in 1 .. Len(q) /\ q[p + 1] \in Calls
        BY <1>1, <3>4 DEF Following
      <4>2. at' = q[p + 1] /\ at' # NoCall /\ stage' = "after" /\ doing' = "visit"
        BY <1>1, <3>1, <4>1
      <4>3. Beyond(list'["after"], at', c) \/ c = at' <=> \E j \in p + 1 .. Len(q) : q[j] = c
        <5>1. CASE list'["after"] = q
          <6>1. Beyond(q, at', c) <=> \E j \in p + 2 .. Len(q) : q[j] = c
            <7>1. Beyond(q, q[p + 1], c) <=> \E j \in (p + 1) + 1 .. Len(q) : q[j] = c
              BY <1>1, <4>1, BeyondPlace
            <7>2. (p + 1) + 1 = p + 2
              BY <1>1
            <7>. QED  BY <4>2, <7>1, <7>2
          <6>2. p + 1 .. Len(q) = {p + 1} \cup (p + 2 .. Len(q))
            BY <1>1, <4>1
          <6>. QED  BY <4>2, <5>1, <6>1, <6>2
        <5>2. CASE list'["after"] = RemoveAt(q, p)
          <6>. DEFINE r == RemoveAt(q, p)
          <6>1. /\ r \in Seq(Calls) /\ IsInjective(r) /\ Len(r) = Len(q) - 1
                /\ \A n \in 1 .. Len(q) - 1 : r[n] = IF n < p THEN q[n] ELSE q[n + 1]
            BY <1>1, RemoveDistinct
          <6>. HIDE DEF r
          <6>2. p \in 1 .. Len(r) /\ r[p] = at'
            BY <1>1, <4>1, <4>2, <6>1
          <6>3. Beyond(r, at', c) <=> \E j \in p + 1 .. Len(r) : r[j] = c
            BY <6>1, <6>2, BeyondPlace
          <6>4. \A j \in p + 1 .. Len(r) : j + 1 \in p + 2 .. Len(q) /\ r[j] = q[j + 1]
            BY <1>1, <6>1
          <6>5. \A j \in p + 2 .. Len(q) : j - 1 \in p + 1 .. Len(r) /\ r[j - 1] = q[j]
            <7>. TAKE j \in p + 2 .. Len(q)
            <7>1. j - 1 \in p + 1 .. Len(r) /\ j - 1 \in 1 .. Len(q) - 1 /\ ~(j - 1 < p)
                  /\ (j - 1) + 1 = j
              BY <1>1, <6>1
            <7>. QED  BY <6>1, <7>1
          <6>6. Beyond(r, at', c) <=> \E j \in p + 2 .. Len(q) : q[j] = c
            BY <6>3, <6>4, <6>5
          <6>7. p + 1 .. Len(q) = {p + 1} \cup (p + 2 .. Len(q))
            BY <1>1, <4>1
          <6>. QED  BY <4>2, <5>2, <6>6, <6>7 DEF r
        <5>. QED  BY <3>2, <5>1, <5>2
      <4>. QED  BY <2>1, <2>3, <4>2, <4>3 DEF Ahead
    <3>. QED  BY <3>3, <3>4
  <2>. QED  BY <2>4, <2>5, <1>1
<1>. QED  BY <1>2, <1>3, <1>4, ListNames

(***************************************************************************)
(* The moves of a loop keep the times right if what they store for the     *)
(* call at hand fits.                                                      *)
(***************************************************************************)
LEMMA MoveTime ==
  ASSUME IterInv, TimeInv, NEW k \in Lists, stage = k, at # NoCall, NEW i,
         \/ /\ GoOn(k, i)
            /\ k = "after" => FitsAfter(i, FALSE, FALSE)
            /\ k = "frames" => FitsFrames(i, FALSE)
         \/ /\ Run("call", i)
            /\ k = "after" => FitsAfter(i, FALSE, TRUE)
            /\ k = "frames" => FitsFrames(i, TRUE)
         \/ Run("cond", i) /\ k \in Conditional
         \/ Erase(k)
  PROVE  TimeInv'
<1>. TypeInv /\ IteratorsValid
  BY DEF IterInv
<1>1. /\ list[k] \in Seq(Calls) /\ IsInjective(list[k]) /\ at \in Calls
      /\ Position(k) \in 1 .. Len(list[k]) /\ list[k][Position(k)] = at
      /\ at \in ToSet(list[k])
  BY PlaceInList DEF IteratorsValid
<1>2. \A c \in Calls : c # at => info'[c] = info[c]
  BY DEF GoOn, Run, Erase, TypeInv
<1>3. ~Erase(k) => info'[at] = i /\ list' = list
  BY <1>1 DEF GoOn, Run, TypeInv
<1>4. Erase(k) => ToSet(list'[k]) = ToSet(list[k]) \ {at}
  <2>1. ToSet(RemoveAt(list[k], Position(k))) = ToSet(list[k]) \ {at}
    BY <1>1, RemoveDistinct
  <2>. QED  BY <2>1 DEF Erase, TypeInv
<1>5. \A l \in Lists : l # k => list'[l] = list[l]
  BY DEF GoOn, Run, Erase, TypeInv
<1>6. \A l \in Lists : ToSet(list'[l]) \subseteq ToSet(list[l]) /\ ToSet(list[l]) \subseteq Calls
  <2>1. \A l \in Lists : ToSet(list[l]) \subseteq Calls
    BY DEF TypeInv, ToSet
  <2>2. \A l \in Lists : ToSet(list'[l]) \subseteq ToSet(list[l])
    BY <1>3, <1>4, <1>5
  <2>. QED  BY <2>1, <2>2
<1>7. \A c \in Calls, l \in Lists :
        Running(l, c)' <=> l = k /\ c = at /\ Run("call", i)
  BY DEF Running, GoOn, Run, Erase, StepTo
<1>8. \A c \in Calls : Ahead(c)' <=> Ahead(c) /\ ~(k = "after" /\ c = at)
  BY MoveAhead
<1>9. {"after", "frames"} \subseteq Lists /\ "after" \notin Conditional /\ "frames" \notin Conditional
  BY ListNames DEF Conditional
<1>10. ASSUME NEW c \in ToSet(list'["after"])
       PROVE  FitsAfter(info'[c], Ahead(c)', Running("after", c)')
  <2>1. c \in ToSet(list["after"]) /\ c \in Calls
    BY <1>6, <1>9
  <2>2. CASE c # at
    BY <1>2, <1>7, <1>8, <1>9, <2>1, <2>2 DEF TimeInv, Running, FitsAfter
  <2>3. CASE c = at
    <3>1. k = "after" /\ ~Erase(k)
      BY <1>1, <1>4, <1>9, <1>10, <2>1, <2>3 DEF IteratorsValid
    <3>2. info'[c] = i /\ ~Ahead(c)' /\ (Running("after", c)' <=> Run("call", i))
      BY <1>3, <1>7, <1>8, <1>9, <2>1, <2>3, <3>1
    <3>. QED
      <4>1. CASE GoOn(k, i) /\ FitsAfter(i, FALSE, FALSE)
        <5>1. ~Run("call", i)
          BY <4>1 DEF GoOn, StepTo, Run
        <5>. QED  BY <3>2, <4>1, <5>1 DEF FitsAfter
      <4>2. CASE Run("call", i) /\ FitsAfter(i, FALSE, TRUE)
        BY <3>2, <4>2 DEF FitsAfter
      <4>. QED  BY <1>9, <3>1, <4>1, <4>2
  <2>. QED  BY <2>2, <2>3
<1>11. ASSUME NEW c \in ToSet(list'["frames"])
       PROVE  FitsFrames(info'[c], Running("frames", c)')
  <2>1. c \in ToSet(list["frames"]) /\ c \in Calls
    BY <1>6, <1>9
  <2>2. CASE c # at
    BY <1>2, <1>7, <1>9, <2>1, <2>2 DEF TimeInv, Running, FitsFrames
  <2>3. CASE c = at
    <3>1. k = "frames" /\ ~Erase(k)
      BY <1>1, <1>4, <1>9, <1>11, <2>1, <2>3 DEF IteratorsValid
    <3>2. info'[c] = i /\ (Running("frames", c)' <=> Run("call", i))
      BY <1>3, <1>7, <1>9, <2>1, <2>3, <3>1
    <3>. QED
      <4>1. CASE GoOn(k, i) /\ FitsFrames(i, FALSE)
        <5>1. ~Run("call", i)
          BY <4>1 DEF GoOn, StepTo, Run
        <5>. QED  BY <3>2, <4>1, <5>1 DEF FitsFrames
      <4>2. CASE Run("call", i) /\ FitsFrames(i, TRUE)
        BY <3>2, <4>2 DEF FitsFrames
      <4>. QED  BY <1>9, <3>1, <4>1, <4>2
  <2>. QED  BY <2>2, <2>3
<1>. QED  BY <1>10, <1>11 DEF TimeInv

(***************************************************************************)
(* What a visit stores for the call at hand fits.                          *)
(***************************************************************************)
LEMMA VisitTime ==
  ASSUME IterInv, TimeInv, NEW k \in Lists, Visit(k)
  PROVE  TimeInv'
<1>. DEFINE i == Visited(k)
            old == info[at]
<1>1. /\ stage = k /\ at # NoCall /\ doing = "visit" /\ at \in Calls /\ at \in ToSet(list[k])
      /\ old \in InfoType /\ MaxDelay \in Nat
  BY ConstantsAssumption DEF Visit, IterInv, TypeInv, IteratorsValid, ConstantsAssumption
<1>2. i.left = Left(k) /\ i.delay = old.delay /\ Left(k) \in Int
  BY <1>1 DEF Visited, InfoType, Left
<1>3. k = "after" => FitsAfter(old, TRUE, FALSE)
  <2>1. (Ahead(at) /\ ~Running("after", at)) \/ k # "after"
    BY <1>1 DEF Ahead, Running
  <2>. QED  BY <1>1, <2>1 DEF TimeInv, FitsAfter
<1>4. k = "frames" => FitsFrames(old, FALSE)
  <2>1. ~Running("frames", at)
    BY <1>1 DEF Running
  <2>. QED  BY <1>1, <2>1 DEF TimeInv, FitsFrames
<1>5. /\ old.served \in Nat /\ old.left \in Int /\ old.delay \in 0 .. MaxDelay
  BY <1>1 DEF InfoType
<1>6. k \in {"after", "frames"} => i.served = IF ShouldRun(at) THEN old.served + 1 ELSE old.served
  <2>. HAVE k \in {"after", "frames"}
  <2>1. i.served = IF ShouldRun(at) THEN Min({old.served + 1, MaxDelay + 2}) ELSE old.served
    BY <1>1 DEF Visited, InfoType
  <2>2. old.served <= MaxDelay
    BY <1>1, <1>3, <1>4, <1>5 DEF FitsAfter, FitsFrames
  <2>3. Min({old.served + 1, MaxDelay + 2}) = old.served + 1
    <3>. DEFINE x == old.served + 1
                y == MaxDelay + 2
    <3>1. x \in Nat /\ y \in Nat /\ x <= y
      BY <1>1, <1>5, <2>2
    <3>. HIDE DEF x, y
    <3>2. \A z \in {x, y} : (\A w \in {x, y} : z <= w) <=> z = x
      BY <3>1
    <3>3. Min({x, y}) = x
      BY <3>2 DEF Min
    <3>. QED  BY <3>3 DEF x, y
  <2>. QED  BY <2>1, <2>3
<1>7. /\ k = "after" => Left(k) = IF ShouldRun(at) THEN old.left ELSE old.left + 1
      /\ k = "frames" => Left(k) = IF ShouldRun(at) THEN old.left - 1 ELSE old.left
  BY DEF Left, Timed
<1>8. \/ k \notin {"after", "frames"} /\ \/ GoOn(k, i)
                                         \/ Run("call", i)
                                         \/ Run("cond", i) /\ k \in Conditional
                                         \/ Erase(k)
      \/ k = "after" /\ IF i.left <= 0 THEN Run("call", i) ELSE GoOn(k, i)
      \/ k = "frames" /\ IF ShouldRun(at) /\ i.left <= 0 THEN Run("call", i) ELSE GoOn(k, i)
  BY <1>1 DEF Visit, Conditional
<1>. HIDE DEF i, old
<1>9. CASE k = "after"
  <2>1. IF i.left <= 0 THEN FitsAfter(i, FALSE, TRUE) ELSE FitsAfter(i, FALSE, FALSE)
    <3>1. /\ i.served + i.left \in {i.delay, i.delay + 1}
          /\ i.left >= 1 \/ i.left = 0 \/ (i.left = -1 /\ i.served <= 1)
      BY <1>2, <1>3, <1>5, <1>6, <1>7, <1>9 DEF FitsAfter
    <3>. QED  BY <1>2, <3>1 DEF FitsAfter
  <2>2. IF i.left <= 0 THEN Run("call", i) /\ FitsAfter(i, FALSE, TRUE)
                       ELSE GoOn(k, i) /\ FitsAfter(i, FALSE, FALSE)
    BY <1>8, <1>9, <2>1
  <2>. QED  BY <1>1, <1>9, <2>2, MoveTime
<1>10. CASE k = "frames"
  <2>1. IF ShouldRun(at) /\ i.left <= 0 THEN FitsFrames(i, TRUE) ELSE FitsFrames(i, FALSE)
    BY <1>2, <1>4, <1>5, <1>6, <1>7, <1>10 DEF FitsFrames
  <2>2. IF ShouldRun(at) /\ i.left <= 0 THEN Run("call", i) /\ FitsFrames(i, TRUE)
                                        ELSE GoOn(k, i) /\ FitsFrames(i, FALSE)
    BY <1>8, <1>10, <2>1
  <2>. QED  BY <1>1, <1>10, <2>2, MoveTime
<1>11. CASE k \notin {"after", "frames"}
  BY <1>1, <1>8, <1>11, MoveTime
<1>. QED  BY <1>9, <1>10, <1>11

(***************************************************************************)
(* The clock takes one off what is left, and puts every call ahead.        *)
(***************************************************************************)
LEMMA ClockTime ==
  ASSUME IterInv, TimeInv, NEW m \in Modes, Clock(m)
  PROVE  TimeInv'
<1>1. /\ stage = "clock" /\ stage' = "while" /\ UNCHANGED <<at, doing, list>>
      /\ info' = [c \in Calls |-> IF c \in UNION {ToSet(list[k]) : k \in Timed}
                                  THEN [info[c] EXCEPT !.left = @ - 1] ELSE info[c]]
  BY DEF Clock, Order
<1>2. \A l \in Lists : ToSet(list[l]) \subseteq Calls
  BY DEF IterInv, TypeInv, ToSet
<1>3. \A c \in Calls : /\ ~Ahead(c) /\ Ahead(c)'
                       /\ ~Running("after", c) /\ ~Running("after", c)'
                       /\ ~Running("frames", c) /\ ~Running("frames", c)'
  BY <1>1 DEF Ahead, Running
<1>4. {"after", "for", "every", "frames"} \subseteq Lists /\ Timed = {"after", "for", "every"}
  BY ListNames DEF Timed
<1>5. ASSUME NEW c \in ToSet(list["after"])
      PROVE  FitsAfter(info'[c], TRUE, FALSE)
  <2>1. /\ c \in Calls /\ info[c] \in InfoType /\ FitsAfter(info[c], FALSE, FALSE)
        /\ info'[c] = [info[c] EXCEPT !.left = @ - 1]
    BY <1>1, <1>2, <1>3, <1>4 DEF TimeInv, IterInv, TypeInv, FitsAfter
  <2>2. /\ info'[c].left = info[c].left - 1 /\ info'[c].served = info[c].served
        /\ info'[c].delay = info[c].delay
        /\ info[c].left \in Int /\ info[c].served \in Nat /\ info[c].delay \in Nat
    BY <2>1, ConstantsAssumption DEF InfoType, ConstantsAssumption
  <2>. QED  BY <2>1, <2>2 DEF FitsAfter
<1>6. ASSUME NEW c \in ToSet(list["frames"])
      PROVE  FitsFrames(info'[c], FALSE)
  <2>1. c \notin UNION {ToSet(list[k]) : k \in Timed}
    BY <1>4 DEF IterInv, IteratorsValid
  <2>2. c \in Calls /\ info'[c] = info[c] /\ FitsFrames(info[c], FALSE)
    BY <1>1, <1>2, <1>3, <1>4, <2>1 DEF TimeInv, FitsFrames
  <2>. QED  BY <2>2
<1>. QED  BY <1>1, <1>2, <1>3, <1>4, <1>5, <1>6 DEF TimeInv, FitsAfter, FitsFrames

(***************************************************************************)
(* A call that is scheduled is served from now on.                         *)
(***************************************************************************)
LEMMA AddTime ==
  ASSUME IterInv, TimeInv, NEW k \in Lists, NEW d \in Delays, NEW active \in ActiveSets,
         AddInfo(k, d, active),
         UNCHANGED frame
  PROVE  TimeInv'
<1>. DEFINE new == [delay |-> d, left |-> d, active |-> active, served |-> 0]
<1>. TypeInv /\ LoopInv /\ IteratorsValid /\ UNCHANGED <<stage, at, doing>>
  BY DEF IterInv, frame
<1>1. PICK c \in Calls :
        /\ \A l \in Lists : c \notin ToSet(list[l])
        /\ info' = [info EXCEPT ![c] = new]
        /\ list' = [list EXCEPT ![k] = Append(list[k], c)]
        /\ new \in InfoType
  BY AddedCall
<1>2. d \in Nat /\ {"after", "frames"} \subseteq Lists
  BY ConstantsAssumption, ListNames DEF ConstantsAssumption
<1>3. \A l \in Lists : /\ list[l] \in Seq(Calls) /\ IsInjective(list[l])
                       /\ ToSet(list[l]) \subseteq Calls
                       /\ list'[l] = IF l = k THEN Append(list[l], c) ELSE list[l]
  BY <1>1 DEF TypeInv, IteratorsValid, ToSet
<1>4. \A l \in Lists : ToSet(list'[l]) = ToSet(list[l]) \cup (IF l = k THEN {c} ELSE {})
  BY <1>1, <1>3, AppendDistinct
<1>5. at # c
  BY <1>1, ConstantsAssumption DEF IteratorsValid, LoopInv, ConstantsAssumption
<1>6. \A x \in ToSet(list["after"]) : Ahead(x)' <=> Ahead(x)
  <2>. TAKE x \in ToSet(list["after"])
  <2>1. CASE k = "after" /\ stage = "after" /\ at # NoCall
    <3>. DEFINE q == list["after"]
                r == Append(q, c)
    <3>1. /\ q \in Seq(Calls) /\ at \in ToSet(q) /\ IsInjective(q) /\ x \in Calls
          /\ c \notin ToSet(q) /\ Len(q) \in Nat /\ DOMAIN q = 1 .. Len(q)
      BY <1>1, <1>2, <1>3, <2>1, LenProperties DEF IteratorsValid
    <3>2. PICK p \in 1 .. Len(q) : q[p] = at
      BY <3>1 DEF ToSet
    <3>3. /\ r \in Seq(Calls) /\ IsInjective(r) /\ Len(r) = Len(q) + 1
          /\ \A n \in 1 .. Len(q) : r[n] = q[n]
          /\ r[Len(q) + 1] = c
      BY <3>1, AppendDistinct
    <3>. HIDE DEF r, q
    <3>4. p \in 1 .. Len(r) /\ r[p] = at
      BY <3>1, <3>2, <3>3
    <3>5. Beyond(r, at, x) <=> \E j \in p + 1 .. Len(q) + 1 : r[j] = x
      BY <3>3, <3>4, BeyondPlace
    <3>6. Beyond(q, at, x) <=> \E j \in p + 1 .. Len(q) : q[j] = x
      BY <3>1, <3>2, BeyondPlace
    <3>7. p + 1 .. Len(q) + 1 = (p + 1 .. Len(q)) \cup {Len(q) + 1}
      BY <3>1, <3>2
    <3>8. x # c /\ \A j \in p + 1 .. Len(q) : r[j] = q[j]
      BY <3>1, <3>2, <3>3 DEF q
    <3>9. Beyond(r, at, x) <=> Beyond(q, at, x)
      BY <3>3, <3>5, <3>6, <3>7, <3>8
    <3>. QED  BY <1>2, <1>3, <2>1, <3>9 DEF Ahead, q, r
  <2>2. CASE k # "after" \/ stage # "after" \/ at = NoCall
    BY <1>2, <1>3, <2>2 DEF Ahead
  <2>. QED  BY <2>1, <2>2
<1>7. \A x \in Calls, l \in Lists : Running(l, x)' <=> Running(l, x)
  BY DEF Running
<1>8. ASSUME NEW x \in ToSet(list'["after"])
      PROVE  FitsAfter(info'[x], Ahead(x)', Running("after", x)')
  <2>1. CASE x \in ToSet(list["after"])
    <3>1. x \in Calls /\ info'[x] = info[x]
      BY <1>1, <1>2, <1>3, <2>1 DEF TypeInv
    <3>. QED  BY <1>2, <1>6, <1>7, <2>1, <3>1 DEF TimeInv, FitsAfter
  <2>2. CASE x = c
    <3>1. info'[x] = new /\ ~Running("after", x)'
      BY <1>1, <1>5, <2>2 DEF TypeInv, Running
    <3>. QED  BY <1>2, <3>1 DEF FitsAfter
  <2>. QED  BY <1>2, <1>4, <2>1, <2>2
<1>9. ASSUME NEW x \in ToSet(list'["frames"])
      PROVE  FitsFrames(info'[x], Running("frames", x)')
  <2>1. CASE x \in ToSet(list["frames"])
    <3>1. x \in Calls /\ info'[x] = info[x]
      BY <1>1, <1>2, <1>3, <2>1 DEF TypeInv
    <3>. QED  BY <1>2, <1>7, <2>1, <3>1 DEF TimeInv, FitsFrames
  <2>2. CASE x = c
    <3>1. info'[x] = new /\ ~Running("frames", x)'
      BY <1>1, <1>5, <2>2 DEF TypeInv, Running
    <3>. QED  BY <1>2, <3>1 DEF FitsFrames
  <2>. QED  BY <1>2, <1>4, <2>1, <2>2
<1>. QED  BY <1>8, <1>9 DEF TimeInv

LEMMA QuietTime ==
  ASSUME IterInv, TimeInv, UNCHANGED <<list, info>>,
         \A c \in ToSet(list["after"]) : Ahead(c)' <=> Ahead(c),
         UNCHANGED <<stage, at, doing>> \/ (doing = "visit" /\ doing' = "visit")
  PROVE  TimeInv'
<1>1. \A c, k : Running(k, c)' <=> Running(k, c)
  BY DEF Running
<1>. QED  BY <1>1 DEF TimeInv, FitsAfter, FitsFrames

LEMMA NextTime ==
  ASSUME IterInv, TimeInv, [Next]_allVars
  PROVE  TimeInv'
<1>. TypeInv /\ LoopInv /\ IteratorsValid
  BY DEF IterInv
<1>. /\ {"scripts", "tick", "clean", "clock"} \cap Lists = {} /\ "after" \in Lists
     /\ NoCall \notin Calls
  BY ListNames, ConstantsAssumption DEF ConstantsAssumption
<1>0. ASSUME UNCHANGED <<stage, at, doing, list, info>>
      PROVE  TimeInv'
  <2>1. \A c : Ahead(c)' <=> Ahead(c)
    BY <1>0 DEF Ahead
  <2>. QED  BY <1>0, <2>1, QuietTime
<1>1. CASE UNCHANGED allVars
  BY <1>0, <1>1 DEF allVars, frame, lists
<1>2. CASE TickBegin \/ TickHandle \/ HandlerReturns \/ TickEnd \/ Clean
  <2>1. /\ UNCHANGED <<at, doing, list, info>>
        /\ UNCHANGED stage \/ (stage \in {"scripts", "tick", "clean"}
                               /\ stage' \in {"tick", "clean", "clock"})
    BY <1>2 DEF TickBegin, TickHandle, HandlerReturns, TickEnd, Clean, lists
  <2>2. CASE UNCHANGED stage
    BY <1>0, <2>1, <2>2
  <2>3. CASE stage \in {"scripts", "tick", "clean"} /\ stage' \in {"tick", "clean", "clock"}
    <3>1. at = NoCall /\ doing = "visit"
      BY <2>3 DEF LoopInv
    <3>2. \A c : ~Ahead(c) /\ ~Ahead(c)'
      BY <2>3 DEF Ahead
    <3>. QED  BY <2>1, <3>1, <3>2, QuietTime
  <2>. QED  BY <2>1, <2>2, <2>3
<1>3. ASSUME NEW k \in Lists, EnterList(k)
      PROVE  TimeInv'
  <2>1. stage = k /\ at = NoCall /\ UNCHANGED <<doing, list, info>> /\ doing = "visit"
    BY <1>3 DEF EnterList, lists, LoopInv
  <2>2. ASSUME NEW c \in ToSet(list["after"])
        PROVE  Ahead(c)' <=> Ahead(c)
    <3>. DEFINE q == list[k]
    <3>1. CASE q = <<>>
      <4>1. stage' = NextStage(k) /\ at' = NoCall /\ k # "after"
        <5>1. ToSet(<<>>) = {}
          BY DEF ToSet
        <5>. QED  BY <1>3, <2>1, <2>2, <3>1, <5>1 DEF EnterList
      <4>. QED  BY <2>1, <4>1, ListNames DEF Ahead
    <3>2. CASE q # <<>>
      <4>1. stage' = k /\ at' = Head(q)
        BY <1>3, <2>1, <3>2 DEF EnterList
      <4>2. /\ q \in Seq(Calls) /\ IsInjective(q) /\ Len(q) \in Nat /\ DOMAIN q = 1 .. Len(q)
        BY LenProperties DEF TypeInv, IteratorsValid
      <4>3. 1 \in 1 .. Len(q) /\ Head(q) = q[1] /\ q[1] \in Calls
        BY <3>2, <4>2
      <4>4. CASE k = "after"
        <5>1. PICK j \in 1 .. Len(q) : q[j] = c
          BY <2>2, <4>2, <4>4 DEF ToSet
        <5>2. j = 1 \/ j \in 1 + 1 .. Len(q)
          BY <4>2
        <5>3. c = q[1] \/ Beyond(q, q[1], c)
          BY <4>2, <4>3, <5>1, <5>2, BeyondPlace
        <5>4. Ahead(c)'
          BY <2>1, <4>1, <4>3, <4>4, <5>3 DEF Ahead
        <5>. QED  BY <2>1, <4>4, <5>4 DEF Ahead
      <4>5. CASE k # "after"
        BY <2>1, <4>1, <4>5 DEF Ahead
      <4>. QED  BY <4>4, <4>5
    <3>. QED  BY <3>1, <3>2
  <2>. QED  BY <2>1, <2>2, QuietTime
<1>4. ASSUME NEW k \in Lists, NEW met \in BOOLEAN, ConditionReturns(k, met)
      PROVE  TimeInv'
  <2>1. stage = k /\ at # NoCall /\ k \in Conditional /\ k \notin {"after", "frames"}
    BY <1>4 DEF ConditionReturns, LoopInv, Conditional
  <2>2. GoOn(k, info[at]) \/ Run("call", info[at]) \/ Erase(k)
    BY <1>4 DEF ConditionReturns
  <2>. QED  BY <2>1, <2>2, MoveTime
<1>5. ASSUME NEW k \in Lists, CallReturns(k)
      PROVE  TimeInv'
  <2>1. stage = k /\ at # NoCall
    BY <1>5 DEF CallReturns, LoopInv
  <2>2. Erase(k) \/ (k \notin {"after", "frames"} /\ \E i : GoOn(k, i))
    BY <1>5 DEF CallReturns, Once
  <2>. QED  BY <2>1, <2>2, MoveTime
<1>6. CASE \/ WantEvents \/ UseEvents \/ DispatchElsewhere \/ DispatchAltElsewhere
           \/ HandlerEndsElsewhere \/ \E k \in Lists : WantList(k)
  BY <1>0, <1>6 DEF WantEvents, UseEvents, DispatchElsewhere, DispatchAltElsewhere,
                    HandlerEndsElsewhere, WantList, frame, lists
<1>7. ASSUME NEW k \in Lists, NEW d \in Delays, NEW active \in ActiveSets,
             \/ Schedule(k, d, active)
             \/ ScheduleElsewhere(k, d, active)
             \/ HandlerSchedules(k, d, active)
      PROVE  TimeInv'
  <2>1. UNCHANGED frame
    BY <1>7 DEF Schedule, ScheduleElsewhere, HandlerSchedules
  <2>2. CASE AddInfo(k, d, active)
    BY <2>1, <2>2, AddTime
  <2>3. CASE UNCHANGED lists
    BY <1>0, <2>1, <2>3 DEF lists, frame
  <2>. QED  BY <1>7, <2>2, <2>3 DEF Schedule, ScheduleElsewhere, HandlerSchedules
<1>8. CASE ClearDelayedCalls
  <2>1. list' = [k \in Lists |-> <<>>]
    BY <1>8 DEF ClearDelayedCalls
  <2>2. ToSet(<<>>) = {} /\ "frames" \in Lists
    BY ListNames DEF ToSet
  <2>. QED  BY <2>1, <2>2 DEF TimeInv
<1>9. CASE \E m \in Modes : Clock(m)
  BY <1>9, ClockTime
<1>10. CASE \E k \in Lists : Visit(k)
  BY <1>10, VisitTime
<1>. QED  BY <1>1, <1>2, <1>3, <1>4, <1>5, <1>6, <1>7, <1>8, <1>9, <1>10
          DEF Next, Frame, Scripts

(***************************************************************************)
(* A call after some seconds or frames runs neither before it has been     *)
(* allowed to run for that long nor more than a frame later                *)
(* (HandleDelayedCall, HandleCallAfterFramesScripts), whatever calls are   *)
(* added and erased around it and in whatever modes the frames are.        *)
(***************************************************************************)
THEOREM CallsAreTimely == Spec => []TimelyCalls
<1>1. Init => TimeInv
  <2>1. ToSet(<<>>) = {} /\ {"after", "frames"} \subseteq Lists
    BY ListNames DEF ToSet
  <2>. QED  BY <2>1 DEF Init, TimeInv
<1>2. ASSUME IterInv, TimeInv
      PROVE  TimelyCalls
  <2>. TypeInv /\ LoopInv /\ IteratorsValid /\ {"after", "frames"} \subseteq Lists
    BY <1>2, ListNames DEF IterInv
  <2>1. \A l \in Lists : ToSet(list[l]) \subseteq Calls
    BY DEF TypeInv, ToSet
  <2>2. \A c \in Calls : /\ info[c].served \in Nat /\ info[c].left \in Int
                         /\ info[c].delay \in Nat
    BY ConstantsAssumption DEF TypeInv, InfoType, ConstantsAssumption
  <2>3. \A c \in ToSet(list["after"]) : info[c].served <= info[c].delay + 1
    BY <1>2, <2>1, <2>2 DEF TimeInv, FitsAfter
  <2>4. ASSUME NEW c \in ToSet(list["frames"])
        PROVE  info[c].served <= Max({info[c].delay, 1})
    <3>. DEFINE d == info[c].delay
    <3>1. d \in Nat /\ info[c].served \in Nat
      BY <2>1, <2>2
    <3>2. info[c].served <= d \/ info[c].served <= 1
      BY <1>2, <2>1, <2>2 DEF TimeInv, FitsFrames
    <3>. HIDE DEF d
    <3>3. Max({d, 1}) \in {d, 1} /\ \A x \in {d, 1} : x <= Max({d, 1})
      <4>1. \E x \in {d, 1} : \A y \in {d, 1} : x >= y
        BY <3>1
      <4>2. Max({d, 1}) \in {d, 1} /\ \A y \in {d, 1} : Max({d, 1}) >= y
        BY <4>1 DEF Max
      <4>. QED  BY <3>1, <4>2
    <3>4. info[c].served <= Max({d, 1})
      BY <3>1, <3>2, <3>3
    <3>. QED  BY <3>4 DEF d
  <2>5. ASSUME doing = "call", stage \in {"after", "frames"}
        PROVE  info[at].served >= info[at].delay
    <3>1. at \in ToSet(list[stage]) /\ at \in Calls /\ at # NoCall
      BY <2>1, <2>5 DEF LoopInv, IteratorsValid
    <3>2. CASE stage = "frames"
      BY <1>2, <2>2, <2>5, <3>1, <3>2 DEF TimeInv, FitsFrames, Running
    <3>3. CASE stage = "after"
      <4>1. ~Ahead(at)
        BY <2>5, <3>1, <3>3 DEF Ahead, Beyond, IteratorsValid, IsInjective, TypeInv
      <4>. QED  BY <1>2, <2>2, <2>5, <3>1, <3>3, <4>1 DEF TimeInv, FitsAfter, Running
    <3>. QED  BY <2>5, <3>2, <3>3
  <2>. QED  BY <2>3, <2>4, <2>5 DEF TimelyCalls
<1>. QED  BY <1>1, <1>2, InitIterInv, NextIterInv, NextTime, PTL DEF Spec

-----------------------------------------------------------------------------
(***************************************************************************)
(* VarMap on any number of threads.                                        *)
(***************************************************************************)
Getting == {"compare", "hit", "lookup", "fillID", "fillVar", "return"}
Places == {"idle", "insert", "mark", "compare", "hit", "lookup", "fillID", "fillVar",
           "return", "delete", "erase", "destroy", "erased", "sweep"}
Held == {id \in IDs : vars[id] # 0}

(***************************************************************************)
(* The task of a thread fits where it is: destructors run, and may call    *)
(* Get, during a Delete only, which holds the lock from its first step on. *)
(***************************************************************************)
TaskFits(t) ==
  /\ task[t] \in {"none", "delete"} /\ pc[t] # "sweep"
  /\ pc[t] \in {"idle", "insert", "mark"} => task[t] = "none"
  /\ pc[t] \in {"delete", "erase", "destroy", "erased"} => task[t] = "delete"
  /\ task[t] = "delete" => victim[t] \in IDs
  /\ pc[t] \in Getting \cup {"insert", "mark"} => arg[t] \in IDs

Deleting(t) == task[t] = "delete" /\ pc[t] # "delete"

(***************************************************************************)
(* While the lock is held, the sets of IDs and of variables may differ in  *)
(* the victim, whose variable is gone once Erase has run.                  *)
(***************************************************************************)
UsedFits ==
  /\ lock = NoThread => usedIDs = Held
  /\ \A t \in Threads :
       lock = t => /\ usedIDs \ {victim[t]} = Held \ {victim[t]}
                   /\ pc[t] # "erase" => vars[victim[t]] = 0

NoGap == \A id \in KnownIDs : 1 .. id \subseteq KnownIDs
VictimsKnown == \A t \in Threads : task[t] = "delete" => victim[t] \in KnownIDs

KeptInv ==
  /\ TypeOK /\ (\A t \in Threads : TaskFits(t))
  /\ \A t \in Threads : lock = t <=> Deleting(t)
  /\ UsedFits /\ NoGap /\ VictimsKnown

-----------------------------------------------------------------------------
LEMMA MapTypes ==
  ASSUME TypeOK
  PROVE  /\ pc \in [Threads -> Places] /\ MaxID \in Nat /\ 0 \in 0 .. MaxID
         /\ IDs \subseteq 0 .. MaxID /\ 0 \notin IDs /\ NoThread \notin Threads
BY MapAssumption DEF TypeOK, Places, MapAssumption, IDs

LEMMA MapInitKept == MapInit => KeptInv
<1>. SUFFICES ASSUME MapInit PROVE KeptInv
  OBVIOUS
<1>1. TypeOK
  <2>1. 0 \in 0 .. MaxID /\ 0 \in Nat
    BY MapAssumption DEF MapAssumption
  <2>2. /\ vars \in [IDs -> Nat] /\ arg \in [Threads -> 0 .. MaxID] /\ got \in [Threads -> Nat]
        /\ victim \in [Threads -> 0 .. MaxID] /\ task \in [Threads -> {"none", "delete", "reset"}]
    BY <2>1 DEF MapInit
  <2>. QED  BY <2>1, <2>2 DEF MapInit, TypeOK
<1>2. KnownIDs = {} /\ usedIDs = Held
  BY DEF MapInit, KnownIDs, HandedOut, Held
<1>3. \A t \in Threads : TaskFits(t) /\ ~Deleting(t) /\ lock # t
  BY MapAssumption DEF MapInit, TaskFits, Deleting, Getting, MapAssumption
<1>. QED  BY <1>1, <1>2, <1>3 DEF KeptInv, UsedFits, NoGap, VictimsKnown, MapInit

(***************************************************************************)
(* A step of t leaves the other threads where they are.                    *)
(***************************************************************************)
OthersStay(t) ==
  \A u \in Threads \ {t} : /\ pc'[u] = pc[u] /\ task'[u] = task[u]
                           /\ arg'[u] = arg[u] /\ victim'[u] = victim[u]

LEMMA OthersFit ==
  ASSUME KeptInv, NEW t \in Threads, OthersStay(t), TaskFits(t)'
  PROVE  /\ \A u \in Threads : TaskFits(u)'
         /\ \A u \in Threads \ {t} : Deleting(u)' <=> Deleting(u)
         /\ KnownIDs \subseteq KnownIDs' /\ (task'[t] = "delete" => victim'[t] \in KnownIDs')
              => VictimsKnown'
<1>1. ASSUME NEW u \in Threads \ {t}
      PROVE  TaskFits(u)' /\ (Deleting(u)' <=> Deleting(u))
  <2>1. /\ TaskFits(u) /\ pc'[u] = pc[u] /\ task'[u] = task[u]
        /\ arg'[u] = arg[u] /\ victim'[u] = victim[u]
    BY <1>1 DEF KeptInv, OthersStay
  <2>. QED  BY <2>1 DEF TaskFits, Deleting
<1>2. ASSUME KnownIDs \subseteq KnownIDs', task'[t] = "delete" => victim'[t] \in KnownIDs'
      PROVE  VictimsKnown'
  BY <1>2 DEF VictimsKnown, KeptInv, OthersStay
<1>. QED  BY <1>1, <1>2

(***************************************************************************)
(* The IDs handed out before and after a step of t.                        *)
(***************************************************************************)
LEMMA HandedOutNext ==
  ASSUME NEW t \in Threads, OthersStay(t)
  PROVE  /\ pc[t] # "insert" /\ pc'[t] # "insert" => HandedOut' = HandedOut
         /\ pc[t] # "insert" /\ pc'[t] = "insert" => HandedOut' = HandedOut \cup {arg'[t]}
         /\ pc[t] = "insert" /\ pc'[t] # "insert" => HandedOut' \cup {arg[t]} = HandedOut
<1>1. \A u \in Threads \ {t} : (pc'[u] = "insert" <=> pc[u] = "insert") /\ arg'[u] = arg[u]
  BY DEF OthersStay
<1>2. \A x : x \in HandedOut' <=> \/ \E u \in Threads \ {t} : pc[u] = "insert" /\ x = arg[u]
                                  \/ pc'[t] = "insert" /\ x = arg'[t]
  BY <1>1 DEF HandedOut
<1>3. \A x : x \in HandedOut <=> \/ \E u \in Threads \ {t} : pc[u] = "insert" /\ x = arg[u]
                                 \/ pc[t] = "insert" /\ x = arg[t]
  BY DEF HandedOut
<1>. QED  BY <1>2, <1>3

(***************************************************************************)
(* A step that changes neither the variables nor the IDs nor the lock.     *)
(***************************************************************************)
LEMMA PlainKept ==
  ASSUME KeptInv, NEW t \in Threads, OthersStay(t), TypeOK', TaskFits(t)',
         UNCHANGED <<vars, usedIDs, availableIDs, lock>>,
         Deleting(t)' <=> Deleting(t), Deleting(t) => victim'[t] = victim[t],
         pc[t] # "insert", pc'[t] # "insert", Deleting(t) => pc[t] # "erase",
         task'[t] = "delete" => victim'[t] \in KnownIDs
  PROVE  KeptInv'
<1>1. (\A u \in Threads : TaskFits(u)') /\ \A u \in Threads : lock' = u <=> Deleting(u)'
  BY OthersFit DEF KeptInv
<1>2. HandedOut' = HandedOut
  BY HandedOutNext
<1>3. Held' = Held /\ NoGap' /\ VictimsKnown'
  <2>1. KnownIDs' = KnownIDs
    BY <1>2 DEF KnownIDs
  <2>. QED  BY <2>1, OthersFit DEF KeptInv, NoGap, Held
<1>4. UsedFits'
  <2>1. ASSUME NEW u \in Threads, lock' = u
        PROVE  /\ victim'[u] = victim[u]
               /\ pc'[u] # "erase" => pc[u] # "erase"
    BY <2>1 DEF OthersStay, KeptInv
  <2>. QED  BY <1>3, <2>1 DEF UsedFits, KeptInv
<1>. QED  BY <1>1, <1>3, <1>4 DEF KeptInv

LEMMA MarkTemporaryKept ==
  ASSUME KeptInv, NEW t \in Threads, MarkTemporary(t), overlapped' \in BOOLEAN
  PROVE  KeptInv'
<1>1. /\ pc[t] = "mark" /\ TypeOK /\ TaskFits(t) /\ MarkTemporary(t)
  BY DEF KeptInv, MarkTemporary
<1>2. pc'[t] = "idle" /\ task' = task /\ victim' = victim /\ OthersStay(t)
  BY <1>1 DEF MarkTemporary, TypeOK, OthersStay
<1>3. TypeOK'
  <2>1. /\ pc' \in [Threads -> Places] /\ arg' \in [Threads -> 0 .. MaxID] /\ tempIDs' \subseteq IDs
    BY <1>1, MapTypes DEF MarkTemporary, TypeOK, TaskFits, Places
  <2>. QED  BY <1>1, <2>1 DEF MarkTemporary, TypeOK, Places, cache
<1>4. TaskFits(t)' /\ ~Deleting(t)' /\ ~Deleting(t)
  BY <1>1, <1>2 DEF TaskFits, Deleting, Getting
<1>. QED  BY <1>1, <1>2, <1>3, <1>4, PlainKept DEF MarkTemporary, TaskFits

LEMMA CallDeleteKept ==
  ASSUME KeptInv, NEW t \in Threads, NEW id \in IDs, CallDelete(t, id), overlapped' \in BOOLEAN
  PROVE  KeptInv'
<1>1. pc[t] = "idle" /\ TypeOK /\ TaskFits(t) /\ CallDelete(t, id)
  BY DEF KeptInv, CallDelete
<1>2. pc'[t] = "delete" /\ task'[t] = "delete" /\ victim'[t] = id /\ arg' = arg /\ OthersStay(t)
  BY <1>1 DEF CallDelete, TypeOK, OthersStay
<1>3. TypeOK'
  <2>1. /\ pc' \in [Threads -> Places] /\ task' \in [Threads -> {"none", "delete", "reset"}]
        /\ victim' \in [Threads -> 0 .. MaxID]
    BY <1>1, MapTypes DEF CallDelete, TypeOK, Places
  <2>. QED  BY <1>1, <2>1 DEF CallDelete, TypeOK, Places, cache, pools
<1>4. TaskFits(t)' /\ ~Deleting(t)' /\ ~Deleting(t)
  BY <1>1, <1>2 DEF TaskFits, Deleting, Getting
<1>5. id \in KnownIDs
  BY <1>1 DEF CallDelete, KnownIDs
<1>. QED  BY <1>1, <1>2, <1>3, <1>4, <1>5, PlainKept DEF CallDelete, pools

(***************************************************************************)
(* The steps of Get, whether a script or a destructor calls it.            *)
(***************************************************************************)
LEMMA ReadKept ==
  ASSUME KeptInv, NEW t \in Threads, Read(t), overlapped' \in BOOLEAN
  PROVE  KeptInv'
<1>1. TypeOK /\ TaskFits(t)
  BY DEF KeptInv
<1>2. PICK to \in Getting \cup {"idle", "destroy"} :
        /\ pc[t] \in Getting \cup {"idle", "destroy"} /\ pc' = [pc EXCEPT ![t] = to]
        /\ to = "idle" => task[t] = "none"
        /\ to = "destroy" => task[t] = "delete"
        /\ UNCHANGED <<vars, made, usedIDs, tempIDs, availableIDs, lock, task, victim>>
  BY <1>1 DEF Read, Get, CompareID, ReadCached, LookUp, FillID, FillVar, Return, GetStep, pools,
              Getting, TaskFits
<1>3. /\ arg' \in [Threads -> 0 .. MaxID] /\ \A u \in Threads \ {t} : arg'[u] = arg[u]
      /\ to \in Getting => arg'[t] \in IDs
  BY <1>1, <1>2, MapTypes DEF Read, Get, CompareID, ReadCached, LookUp, FillID, FillVar, Return,
              GetStep, Getting, TaskFits, TypeOK
<1>4. cacheID' \in 0 .. MaxID /\ cacheVar' \in Nat /\ got' \in [Threads -> Nat]
  BY <1>1, MapTypes DEF Read, Get, CompareID, ReadCached, LookUp, FillID, FillVar, Return,
              GetStep, Getting, TaskFits, TypeOK, cache
<1>5. pc'[t] = to /\ pc' \in [Threads -> Places]
  BY <1>1, <1>2, MapTypes DEF Places, Getting
<1>6. TypeOK'
  BY <1>1, <1>2, <1>3, <1>4, <1>5 DEF TypeOK, Places
<1>7. TaskFits(t)' /\ (Deleting(t)' <=> Deleting(t)) /\ to # "insert" /\ pc[t] # "insert" /\ pc[t] # "erase"
  BY <1>1, <1>2, <1>3, <1>5 DEF TaskFits, Deleting, Getting
<1>8. OthersStay(t)
  BY <1>1, <1>2, <1>3, MapTypes DEF OthersStay
<1>9. task'[t] = "delete" => victim'[t] \in KnownIDs
  BY <1>2 DEF KeptInv, VictimsKnown
<1>. QED  BY <1>1, <1>2, <1>5, <1>6, <1>7, <1>8, <1>9, PlainKept

LEMMA GetUnusedIDKept ==
  ASSUME KeptInv, NEW t \in Threads, GetUnusedID(t), overlapped' \in BOOLEAN
  PROVE  KeptInv'
<1>. DEFINE id == arg'[t]
<1>1. /\ pc[t] = "idle" /\ TypeOK /\ TaskFits(t) /\ lock = NoThread /\ id \in IDs
      /\ id = IF availableIDs # {} THEN Min(availableIDs)
              ELSE IF usedIDs # {} THEN Max(usedIDs) + 1
              ELSE 1
      /\ availableIDs' = availableIDs \ {id}
      /\ UNCHANGED <<vars, made, usedIDs, tempIDs, cacheID, cacheVar, lock, got, task, victim>>
  BY DEF KeptInv, GetUnusedID, cache, TypeOK
<1>2. pc'[t] = "insert" /\ OthersStay(t) /\ task'[t] = "none"
  BY <1>1 DEF GetUnusedID, TypeOK, OthersStay, TaskFits
<1>3. TypeOK'
  <2>1. /\ pc' \in [Threads -> Places] /\ arg' \in [Threads -> 0 .. MaxID]
    BY <1>1, MapTypes DEF GetUnusedID, TypeOK, Places
  <2>. QED  BY <1>1, <2>1 DEF TypeOK, Places
<1>4. TaskFits(t)' /\ ~Deleting(t)'
  BY <1>1, <1>2 DEF TaskFits, Deleting, Getting
<1>5. (\A u \in Threads : TaskFits(u)') /\ \A u \in Threads : lock' = u <=> Deleting(u)'
  <2>1. \A u \in Threads : lock' # u
    BY <1>1, MapTypes
  <2>. QED  BY <1>1, <1>2, <1>4, <2>1, OthersFit DEF KeptInv
<1>6. UsedFits'
  BY <1>1, MapTypes DEF UsedFits, Held, KeptInv
<1>7. HandedOut' = HandedOut \cup {id} /\ KnownIDs' = KnownIDs \cup {id}
  <2>1. HandedOut' = HandedOut \cup {id}
    BY <1>1, <1>2, HandedOutNext
  <2>. QED  BY <1>1, <2>1 DEF KnownIDs
<1>8. 1 .. id \subseteq KnownIDs \cup {id}
  <2>. HIDE DEF id
  <2>0. /\ availableIDs \subseteq 0 .. MaxID /\ usedIDs \subseteq 0 .. MaxID /\ MaxID \in Nat
        /\ availableIDs \subseteq Nat /\ usedIDs \subseteq Nat
    BY <1>1, MapTypes DEF TypeOK
  <2>1. CASE availableIDs # {}
    <3>1. Min(availableIDs) \in availableIDs
      BY <2>0, <2>1, MinProperty
    <3>. QED  BY <1>1, <2>1, <3>1 DEF KeptInv, NoGap, KnownIDs
  <2>2. CASE availableIDs = {} /\ usedIDs # {}
    <3>1. Max(usedIDs) \in usedIDs
      BY <2>0, <2>2, MaxProperty
    <3>2. 1 .. Max(usedIDs) \subseteq KnownIDs /\ Max(usedIDs) \in Nat
      BY <2>0, <3>1 DEF KeptInv, NoGap, KnownIDs
    <3>3. 1 .. (Max(usedIDs) + 1) = (1 .. Max(usedIDs)) \cup {Max(usedIDs) + 1}
      BY <3>2
    <3>. QED  BY <1>1, <2>2, <3>2, <3>3
  <2>3. CASE availableIDs = {} /\ usedIDs = {}
    BY <1>1, <2>3
  <2>. QED  BY <2>1, <2>2, <2>3
<1>9. NoGap' /\ VictimsKnown'
  <2>1. NoGap'
    <3>. HIDE DEF id
    <3>. QED  BY <1>7, <1>8 DEF KeptInv, NoGap
  <2>2. VictimsKnown'
    <3>. HIDE DEF id
    <3>. QED  BY <1>2, <1>4, <1>7, OthersFit
  <2>. QED  BY <2>1, <2>2
<1>. QED  BY <1>3, <1>5, <1>6, <1>9 DEF KeptInv

LEMMA InsertKept ==
  ASSUME KeptInv, NEW t \in Threads, Insert(t), overlapped' \in BOOLEAN
  PROVE  KeptInv'
<1>1. /\ pc[t] = "insert" /\ TypeOK /\ TaskFits(t) /\ lock = NoThread /\ arg[t] \in IDs
      /\ usedIDs' = usedIDs \cup {arg[t]}
      /\ UNCHANGED <<tempIDs, availableIDs, cacheID, cacheVar, lock, arg, got, task, victim>>
  BY DEF KeptInv, Insert, cache, TaskFits
<1>2. pc'[t] = "mark" /\ OthersStay(t) /\ task'[t] = "none"
  BY <1>1 DEF Insert, TypeOK, OthersStay, TaskFits
<1>3. /\ made' \in Nat /\ vars' \in [IDs -> Nat] /\ vars'[arg[t]] # 0
      /\ \A id \in IDs \ {arg[t]} : vars'[id] = vars[id]
  BY <1>1 DEF Insert, TypeOK
<1>4. TypeOK'
  <2>1. pc' \in [Threads -> Places]
    BY <1>1, MapTypes DEF Insert, TypeOK, Places
  <2>. QED  BY <1>1, <1>3, <2>1 DEF TypeOK, Places
<1>5. TaskFits(t)' /\ ~Deleting(t)'
  BY <1>1, <1>2 DEF TaskFits, Deleting, Getting
<1>6. (\A u \in Threads : TaskFits(u)') /\ \A u \in Threads : lock' = u <=> Deleting(u)'
  <2>1. \A u \in Threads : lock' # u
    BY <1>1, MapTypes
  <2>. QED  BY <1>1, <1>2, <1>5, <2>1, OthersFit DEF KeptInv
<1>7. UsedFits'
  <2>1. Held' = Held \cup {arg[t]}
    BY <1>1, <1>3 DEF Held
  <2>. QED  BY <1>1, <2>1, MapTypes DEF UsedFits, KeptInv
<1>8. NoGap' /\ VictimsKnown'
  <2>1. HandedOut' \cup {arg[t]} = HandedOut
    BY <1>1, <1>2, HandedOutNext
  <2>2. KnownIDs' = KnownIDs
    BY <1>1, <2>1 DEF KnownIDs
  <2>. QED  BY <1>2, <1>5, <2>2, OthersFit DEF KeptInv, NoGap
<1>. QED  BY <1>4, <1>6, <1>7, <1>8 DEF KeptInv

(***************************************************************************)
(* The steps of Delete.                                                    *)
(***************************************************************************)
LEMMA DeleteKept ==
  ASSUME KeptInv, NEW t \in Threads, Delete(t) \/ EraseVariable(t) \/ DeleteEnd(t),
         overlapped' \in BOOLEAN
  PROVE  KeptInv'
<1>1. TypeOK /\ TaskFits(t) /\ task[t] = "delete" /\ victim[t] \in IDs /\ victim[t] \in KnownIDs
  BY DEF KeptInv, Delete, EraseVariable, DeleteEnd, TaskFits, VictimsKnown
<1>2. CASE Delete(t)
  <2>1. /\ pc[t] = "delete" /\ lock = NoThread /\ lock' = t
        /\ pc' = [pc EXCEPT ![t] = "erase"]
        /\ cacheID' \in {0, cacheID} /\ cacheVar' \in {0, cacheVar}
        /\ UNCHANGED <<vars, made, usedIDs, tempIDs, availableIDs, arg, got, task, victim>>
    BY <1>2 DEF Delete, pools, cache
  <2>2. pc'[t] = "erase" /\ OthersStay(t)
    BY <1>1, <2>1 DEF TypeOK, OthersStay
  <2>3. TypeOK'
    <3>1. pc' \in [Threads -> Places]
      BY <1>1, <2>1, MapTypes DEF Places
    <3>. QED  BY <1>1, <2>1, <3>1, MapTypes DEF TypeOK, Places
  <2>4. TaskFits(t)' /\ Deleting(t)'
    BY <1>1, <2>1, <2>2 DEF TaskFits, Deleting, Getting
  <2>5. \A u \in Threads \ {t} : ~Deleting(u)
    BY <1>1, <2>1, MapTypes DEF KeptInv
  <2>6. (\A u \in Threads : TaskFits(u)') /\ \A u \in Threads : lock' = u <=> Deleting(u)'
    BY <2>1, <2>2, <2>4, <2>5, OthersFit
  <2>7. UsedFits'
    BY <1>1, <2>1, <2>2, MapTypes DEF UsedFits, Held, KeptInv
  <2>8. NoGap' /\ VictimsKnown'
    <3>1. KnownIDs' = KnownIDs
      BY <2>1, <2>2, HandedOutNext DEF KnownIDs
    <3>. QED  BY <1>1, <2>1, <2>2, <2>4, <3>1, OthersFit DEF KeptInv, NoGap
  <2>. QED  BY <2>3, <2>6, <2>7, <2>8 DEF KeptInv
<1>3. CASE EraseVariable(t)
  <2>1. /\ pc[t] = "erase" /\ vars' = [vars EXCEPT ![victim[t]] = 0]
        /\ pc' = [pc EXCEPT ![t] = IF vars[victim[t]] # 0 THEN "destroy" ELSE "erased"]
        /\ UNCHANGED <<made, usedIDs, tempIDs, availableIDs, cacheID, cacheVar, lock, arg, got,
                       task, victim>>
    BY <1>3 DEF EraseVariable, pools, cache
  <2>2. pc'[t] \in {"destroy", "erased"} /\ OthersStay(t)
    BY <1>1, <2>1 DEF TypeOK, OthersStay
  <2>3. TypeOK'
    <3>1. pc' \in [Threads -> Places] /\ vars' \in [IDs -> Nat]
      BY <1>1, <2>1, MapTypes DEF Places, TypeOK
    <3>. QED  BY <1>1, <2>1, <3>1 DEF TypeOK, Places
  <2>4. TaskFits(t)' /\ Deleting(t)' /\ Deleting(t)
    BY <1>1, <2>1, <2>2 DEF TaskFits, Deleting, Getting
  <2>5. (\A u \in Threads : TaskFits(u)') /\ \A u \in Threads : lock' = u <=> Deleting(u)'
    BY <2>1, <2>2, <2>4, OthersFit DEF KeptInv
  <2>6. UsedFits'
    <3>1. lock = t /\ lock # NoThread /\ \A u \in Threads \ {t} : lock # u
      BY <2>4, MapTypes, <1>1 DEF KeptInv
    <3>2. Held' \ {victim[t]} = Held \ {victim[t]} /\ vars'[victim[t]] = 0
      BY <1>1, <2>1 DEF Held, TypeOK
    <3>. QED  BY <2>1, <3>1, <3>2 DEF UsedFits, KeptInv
  <2>7. NoGap' /\ VictimsKnown'
    <3>1. KnownIDs' = KnownIDs
      BY <2>1, <2>2, HandedOutNext DEF KnownIDs
    <3>. QED  BY <1>1, <2>1, <2>2, <2>4, <3>1, OthersFit DEF KeptInv, NoGap
  <2>. QED  BY <2>3, <2>5, <2>6, <2>7 DEF KeptInv
<1>4. CASE DeleteEnd(t)
  <2>1. /\ pc[t] \in {"destroy", "erased"}
        /\ usedIDs' = usedIDs \ {victim[t]} /\ tempIDs' = tempIDs \ {victim[t]}
        /\ availableIDs' = availableIDs \cup {victim[t]} /\ lock' = NoThread
        /\ task' = [task EXCEPT ![t] = "none"] /\ victim' = [victim EXCEPT ![t] = 0]
        /\ pc' = [pc EXCEPT ![t] = "idle"]
        /\ UNCHANGED <<vars, made, cacheID, cacheVar, arg, got>>
    BY <1>4 DEF DeleteEnd, cache
  <2>2. pc'[t] = "idle" /\ task'[t] = "none" /\ OthersStay(t)
    BY <1>1, <2>1 DEF TypeOK, OthersStay
  <2>3. TypeOK'
    <3>1. /\ pc' \in [Threads -> Places] /\ task' \in [Threads -> {"none", "delete", "reset"}]
          /\ victim' \in [Threads -> 0 .. MaxID]
          /\ usedIDs' \subseteq IDs /\ tempIDs' \subseteq IDs /\ availableIDs' \subseteq IDs
      BY <1>1, <2>1, MapTypes DEF Places, TypeOK
    <3>. QED  BY <1>1, <2>1, <3>1 DEF TypeOK, Places
  <2>4. TaskFits(t)' /\ ~Deleting(t)' /\ Deleting(t)
    BY <1>1, <2>1, <2>2 DEF TaskFits, Deleting, Getting
  <2>5. lock = t
    BY <2>4 DEF KeptInv
  <2>6. (\A u \in Threads : TaskFits(u)') /\ \A u \in Threads : lock' = u <=> Deleting(u)'
    <3>1. \A u \in Threads : lock' # u
      BY <2>1, <1>1, MapTypes
    <3>. QED  BY <2>2, <2>4, <2>5, <3>1, OthersFit DEF KeptInv
  <2>7. UsedFits'
    <3>1. Held' = Held /\ victim[t] \notin Held
      BY <2>1, <2>5 DEF Held, UsedFits, KeptInv
    <3>2. usedIDs' = Held'
      BY <2>1, <2>5, <3>1 DEF UsedFits, KeptInv
    <3>. QED  BY <1>1, <2>1, <3>2, MapTypes DEF UsedFits
  <2>8. NoGap' /\ VictimsKnown'
    <3>1. HandedOut' = HandedOut
      BY <2>1, <2>2, HandedOutNext
    <3>2. KnownIDs' = KnownIDs
      BY <1>1, <2>1, <3>1 DEF KnownIDs
    <3>. QED  BY <2>2, <2>4, <3>2, OthersFit DEF KeptInv, NoGap
  <2>. QED  BY <2>3, <2>6, <2>7, <2>8 DEF KeptInv
<1>. QED  BY <1>2, <1>3, <1>4

-----------------------------------------------------------------------------
(***************************************************************************)
(* Calls that do not overlap.  The pools during a call: the victim of a    *)
(* Delete is still used, though its variable is gone once Erase has run;   *)
(* an ID that GetUnusedID handed out is in no pool until Insert puts it in *)
(* usedIDs; and the IDs ever handed out are an interval.                   *)
(***************************************************************************)
Erased(t) == IF task[t] = "delete" THEN {victim[t]} ELSE {}
Owed(t) == IF pc[t] = "insert" THEN {arg[t]} ELSE {}

PoolsFit(t) ==
  /\ usedIDs = Held \cup Erased(t)
  /\ task[t] = "delete" => (vars[victim[t]] # 0 <=> pc[t] \in {"delete", "erase"})
  /\ pc[t] # "erased"
  /\ usedIDs \cap availableIDs = {}
  /\ tempIDs \subseteq usedIDs
  /\ Owed(t) \cap (usedIDs \cup availableIDs) = {}
  /\ pc[t] = "mark" => arg[t] \in usedIDs
  /\ \E n \in 0 .. MaxID : usedIDs \cup availableIDs \cup Owed(t) = 1 .. n

(***************************************************************************)
(* The cache entry is that of the map, except between the two writes of    *)
(* VarCache::Insert, and is not that of a variable about to be erased.     *)
(***************************************************************************)
CacheFits(t) ==
  /\ pc[t] # "fillVar" => (cacheID # 0 /\ cacheVar # 0 => vars[cacheID] = cacheVar)
  /\ pc[t] = "erase" => cacheID # victim[t]
  /\ pc[t] = "hit" => cacheID = arg[t]
  /\ pc[t] = "fillVar" => cacheID = arg[t]
  /\ pc[t] \in {"fillID", "fillVar", "return"} => got[t] = vars[arg[t]]

Alone(t) == \A u \in Threads \ {t} : Idle(u)

OneByOne ==
  ~overlapped =>
    /\ \A t, u \in Threads : t # u => Idle(t) \/ Idle(u)
    /\ \A t \in Threads : Alone(t) => PoolsFit(t) /\ CacheFits(t)

LEMMA GetUnusedIDFits ==
  ASSUME KeptInv, NEW t \in Threads, PoolsFit(t), CacheFits(t), GetUnusedID(t)
  PROVE  PoolsFit(t)' /\ CacheFits(t)'
<1>. TypeOK /\ TaskFits(t) /\ MaxID \in Nat
  BY MapAssumption DEF KeptInv, MapAssumption
<1>. DEFINE id == arg'[t]
<1>1. /\ pc[t] = "idle"
      /\ id = IF availableIDs # {} THEN Min(availableIDs)
              ELSE IF usedIDs # {} THEN Max(usedIDs) + 1
              ELSE 1
      /\ id \in IDs /\ availableIDs' = availableIDs \ {id}
      /\ UNCHANGED <<vars, made, usedIDs, tempIDs, cacheID, cacheVar, lock, got, task, victim>>
  BY DEF GetUnusedID, TypeOK, cache
<1>2. PICK n \in 0 .. MaxID : usedIDs \cup availableIDs = 1 .. n
  BY <1>1 DEF PoolsFit, Owed
<1>3. /\ id \notin usedIDs
      /\ LET given == usedIDs \cup {id} \cup (availableIDs \ {id})
         IN  \/ id <= n /\ given = 1 .. n
             \/ id = n + 1 /\ given = 1 .. (n + 1)
  <2>1. n \in Nat /\ usedIDs \cap availableIDs = {} /\ usedIDs \subseteq 1 .. n /\ availableIDs \subseteq 1 .. n
    BY <1>2 DEF PoolsFit
  <2>. HIDE DEF id
  <2>. QED  BY <1>1, <1>2, <2>1, UnusedIDProperty
<1>4. pc'[t] = "insert" /\ task'[t] = "none" /\ task[t] = "none"
  BY <1>1 DEF TypeOK, TaskFits, GetUnusedID
<1>5. PoolsFit(t)'
  <2>1. \E m \in 0 .. MaxID : usedIDs \cup (availableIDs \ {id}) \cup {id} = 1 .. m
    <3>. HIDE DEF id
    <3>1. CASE id <= n
      <4>1. usedIDs \cup (availableIDs \ {id}) \cup {id} = 1 .. n
        BY <1>1, <1>3, <3>1 DEF IDs
      <4>. QED  BY <4>1
    <3>2. CASE ~(id <= n)
      <4>1. n + 1 \in 0 .. MaxID /\ usedIDs \cup (availableIDs \ {id}) \cup {id} = 1 .. (n + 1)
        BY <1>1, <1>3, <3>2 DEF IDs
      <4>. QED  BY <4>1
    <3>. QED  BY <3>1, <3>2
  <2>. QED  BY <2>1, <1>1, <1>3, <1>4 DEF PoolsFit, Owed, Erased, Held
<1>6. CacheFits(t)'
  BY <1>1, <1>4 DEF CacheFits
<1>. QED  BY <1>5, <1>6

LEMMA InsertFits ==
  ASSUME KeptInv, NEW t \in Threads, PoolsFit(t), CacheFits(t), Insert(t)
  PROVE  PoolsFit(t)' /\ CacheFits(t)'
<1>. TypeOK /\ TaskFits(t)
  BY DEF KeptInv
<1>1. pc[t] = "insert" /\ task[t] = "none" /\ arg[t] \in IDs /\ arg[t] \notin usedIDs
  BY DEF Insert, TaskFits, PoolsFit, Owed
<1>2. vars[arg[t]] = 0
  BY <1>1 DEF PoolsFit, Held
<1>3. /\ usedIDs' = usedIDs \cup {arg[t]}
      /\ vars' = [vars EXCEPT ![arg[t]] = made + 1]
      /\ UNCHANGED <<tempIDs, availableIDs, cacheID, cacheVar, arg, got, task, victim>>
  BY <1>2 DEF Insert, cache
<1>4. pc'[t] = "mark"
  BY DEF Insert, TypeOK
<1>5. PoolsFit(t)'
  <2>1. Held' = Held \cup {arg[t]}
    <3>1. made + 1 # 0
      BY DEF TypeOK
    <3>. QED  BY <1>1, <1>3, <3>1 DEF TypeOK, Held
  <2>. QED  BY <1>1, <1>3, <1>4, <2>1 DEF PoolsFit, Owed, Erased
<1>6. CacheFits(t)'
  <2>1. cacheID # 0 /\ cacheVar # 0 => cacheID # arg[t]
    BY <1>1, <1>2 DEF CacheFits
  <2>. QED  BY <1>1, <1>3, <1>4, <2>1 DEF CacheFits, TypeOK
<1>. QED  BY <1>5, <1>6

LEMMA MarkTemporaryFits ==
  ASSUME KeptInv, NEW t \in Threads, PoolsFit(t), CacheFits(t), MarkTemporary(t)
  PROVE  PoolsFit(t)' /\ CacheFits(t)'
<1>1. /\ pc[t] = "mark" /\ task[t] = "none" /\ arg[t] \in usedIDs /\ pc'[t] = "idle"
      /\ tempIDs' = tempIDs \cup {arg[t]} \/ tempIDs' = tempIDs \ {arg[t]}
      /\ UNCHANGED <<vars, usedIDs, availableIDs, cacheID, cacheVar, got, task, victim>>
  BY DEF KeptInv, TypeOK, MarkTemporary, cache, TaskFits, PoolsFit
<1>2. PoolsFit(t)'
  BY <1>1 DEF PoolsFit, Owed, Erased, Held
<1>. QED  BY <1>1, <1>2 DEF CacheFits

LEMMA ReadFits ==
  ASSUME KeptInv, NEW t \in Threads, PoolsFit(t), CacheFits(t), Read(t)
  PROVE  PoolsFit(t)' /\ CacheFits(t)'
<1>. TypeOK /\ TaskFits(t) /\ \A id \in IDs : id # 0
  BY DEF KeptInv, IDs
<1>1. /\ pc[t] \in Getting \cup {"idle", "destroy"}
      /\ pc'[t] \in Getting \cup {"idle", "destroy"}
      /\ pc'[t] = "idle" => task[t] = "none"
      /\ UNCHANGED <<vars, usedIDs, tempIDs, availableIDs, task, victim>>
  BY DEF Read, Get, CompareID, ReadCached, LookUp, FillID, FillVar, Return, GetStep, pools,
         Getting, TypeOK, TaskFits
<1>2. PoolsFit(t)'
  BY <1>1 DEF PoolsFit, Owed, Erased, Held, Getting
<1>3. ASSUME NEW id \in IDs, Get(t, id)
      PROVE  CacheFits(t)'
  BY <1>2, <1>3 DEF Get, CacheFits, cache, TypeOK
<1>4. CASE CompareID(t)
  BY <1>2, <1>4 DEF CompareID, CacheFits, GetStep, cache, TypeOK
<1>5. CASE ReadCached(t)
  <2>1. pc[t] = "hit" /\ (cacheVar # 0 => cacheVar = vars[arg[t]])
    BY <1>5 DEF ReadCached, GetStep, CacheFits, TaskFits, Getting
  <2>. QED  BY <1>2, <1>5, <2>1 DEF ReadCached, CacheFits, GetStep, cache, TypeOK
<1>6. CASE LookUp(t)
  BY <1>2, <1>6 DEF LookUp, CacheFits, GetStep, cache, TypeOK
<1>7. CASE FillID(t)
  BY <1>2, <1>7 DEF FillID, CacheFits, GetStep, TypeOK
<1>8. CASE FillVar(t)
  BY <1>2, <1>8 DEF FillVar, CacheFits, GetStep, TypeOK
<1>9. CASE Return(t)
  BY <1>2, <1>9 DEF Return, CacheFits, GetStep, cache, TypeOK
<1>. QED  BY <1>2, <1>3, <1>4, <1>5, <1>6, <1>7, <1>8, <1>9 DEF Read

LEMMA DiscardFits ==
  ASSUME KeptInv, NEW t \in Threads, PoolsFit(t), CacheFits(t), Discard(t)
  PROVE  PoolsFit(t)' /\ CacheFits(t)'
<1>. TypeOK /\ TaskFits(t) /\ \A id \in IDs : id # 0
  BY DEF KeptInv, IDs
<1>1. ASSUME NEW id \in IDs, CallDelete(t, id)
      PROVE  PoolsFit(t)' /\ CacheFits(t)'
  <2>1. /\ pc[t] = "idle" /\ task[t] = "none" /\ id \in usedIDs
        /\ pc'[t] = "delete" /\ task'[t] = "delete" /\ victim'[t] = id
        /\ UNCHANGED <<vars, usedIDs, tempIDs, availableIDs, cacheID, cacheVar, arg, got>>
    BY <1>1 DEF CallDelete, pools, cache, TypeOK, TaskFits
  <2>. QED  BY <2>1 DEF PoolsFit, CacheFits, Owed, Erased, Held
<1>2. CASE Delete(t)
  <2>1. /\ pc[t] = "delete" /\ task[t] = "delete" /\ victim[t] \in IDs /\ pc'[t] = "erase"
        /\ cacheID' # victim[t]
        /\ cacheID' # 0 => cacheID' = cacheID /\ cacheVar' = cacheVar
        /\ UNCHANGED <<vars, usedIDs, tempIDs, availableIDs, arg, got, task, victim>>
    BY <1>2 DEF Delete, pools, cache, TypeOK, TaskFits
  <2>. QED  BY <2>1 DEF PoolsFit, CacheFits, Owed, Erased, Held
<1>3. CASE EraseVariable(t)
  <2>1. /\ pc[t] = "erase" /\ task[t] = "delete" /\ cacheID # victim[t] /\ victim[t] \in IDs
        /\ vars[victim[t]] # 0 /\ pc'[t] = "destroy"
        /\ vars' = [vars EXCEPT ![victim[t]] = 0]
        /\ UNCHANGED <<usedIDs, tempIDs, availableIDs, cacheID, cacheVar, arg, got, task, victim>>
    BY <1>3 DEF EraseVariable, pools, cache, TaskFits, CacheFits, PoolsFit, TypeOK
  <2>2. Held' = Held \ {victim[t]} /\ vars'[victim[t]] = 0
    BY <2>1 DEF TypeOK, Held
  <2>3. \A id \in IDs : id # victim[t] => vars'[id] = vars[id]
    BY <2>1 DEF TypeOK
  <2>4. cacheID = 0 \/ cacheID \in IDs
    BY DEF TypeOK, IDs
  <2>5. CacheFits(t)'
    BY <2>1, <2>3, <2>4 DEF CacheFits
  <2>. QED  BY <2>1, <2>2, <2>5 DEF PoolsFit, Owed, Erased
<1>4. CASE DeleteEnd(t)
  <2>1. /\ pc[t] = "destroy" /\ task[t] = "delete" /\ victim[t] \in IDs /\ vars[victim[t]] = 0
        /\ usedIDs' = usedIDs \ {victim[t]} /\ tempIDs' = tempIDs \ {victim[t]}
        /\ availableIDs' = availableIDs \cup {victim[t]}
        /\ pc'[t] = "idle" /\ task'[t] = "none"
        /\ UNCHANGED <<vars, cacheID, cacheVar, arg, got>>
    BY <1>4 DEF DeleteEnd, pools, cache, PoolsFit, TaskFits, TypeOK
  <2>2. usedIDs' \cup availableIDs' = usedIDs \cup availableIDs /\ Held' = Held
    BY <2>1 DEF PoolsFit, Erased, Held
  <2>3. victim[t] \notin Held
    BY <2>1 DEF Held
  <2>. QED  BY <2>1, <2>2, <2>3 DEF PoolsFit, CacheFits, Owed, Erased
<1>. QED  BY <1>1, <1>2, <1>3, <1>4 DEF Discard

-----------------------------------------------------------------------------
MapInv == KeptInv /\ OneByOne

LEMMA MapInitInv == MapInit => MapInv
<1>. SUFFICES ASSUME MapInit PROVE OneByOne
  BY MapInitKept DEF MapInv
<1>1. \A t \in Threads : Idle(t) /\ task[t] = "none" /\ pc[t] = "idle"
  BY DEF MapInit, Idle
<1>2. 0 \in 0 .. MaxID /\ 1 .. 0 = {}
  BY MapAssumption DEF MapAssumption
<1>3. /\ usedIDs = {} /\ availableIDs = {} /\ tempIDs = {} /\ Held = {} /\ cacheID = 0
  BY DEF MapInit, Held
<1>. QED  BY <1>1, <1>2, <1>3 DEF OneByOne, PoolsFit, CacheFits, Erased, Owed

LEMMA MapStepKept ==
  ASSUME KeptInv, NEW t \in Threads, Create(t) \/ Read(t) \/ Discard(t), NoteOverlap(t)
  PROVE  KeptInv' /\ OthersStay(t)
<1>1. overlapped' \in BOOLEAN
  BY DEF NoteOverlap, KeptInv, TypeOK
<1>2. KeptInv'
  BY <1>1, GetUnusedIDKept, InsertKept, MarkTemporaryKept, ReadKept, CallDeleteKept, DeleteKept
     DEF Create, Discard
<1>3. OthersStay(t)
  <2>1. TypeOK
    BY DEF KeptInv
  <2>2. /\ pc \in [Threads -> Places] /\ arg \in [Threads -> 0 .. MaxID]
        /\ task \in [Threads -> {"none", "delete", "reset"}] /\ victim \in [Threads -> 0 .. MaxID]
    BY <2>1, MapTypes DEF TypeOK
  <2>3. Create(t) => OthersStay(t)
    BY <2>2 DEF Create, GetUnusedID, Insert, MarkTemporary, OthersStay
  <2>4. Read(t) => OthersStay(t)
    BY <2>2 DEF Read, Get, CompareID, ReadCached, LookUp, FillID, FillVar, Return, GetStep, OthersStay
  <2>5. Discard(t) => OthersStay(t)
    BY <2>2 DEF Discard, CallDelete, Delete, EraseVariable, DeleteEnd, OthersStay
  <2>. QED  BY <2>3, <2>4, <2>5
<1>. QED  BY <1>2, <1>3

LEMMA MapNextInv == MapInv /\ [MapNext]_vvars => MapInv'
<1>. SUFFICES ASSUME MapInv, [MapNext]_vvars
              PROVE  MapInv'
  OBVIOUS
<1>1. CASE UNCHANGED vvars
  <2>1. KeptInv'
    BY <1>1 DEF vvars, pools, cache, MapInv, KeptInv, TypeOK, TaskFits, Deleting, UsedFits, Held,
                NoGap, VictimsKnown, KnownIDs, HandedOut
  <2>2. OneByOne'
    BY <1>1 DEF vvars, pools, cache, MapInv, OneByOne, Alone, Idle, PoolsFit, CacheFits, Erased, Owed, Held
  <2>. QED  BY <2>1, <2>2 DEF MapInv
<1>2. ASSUME NEW t \in Threads, Create(t) \/ Read(t) \/ Discard(t), NoteOverlap(t)
      PROVE  MapInv'
  <2>1. KeptInv /\ KeptInv' /\ OthersStay(t)
    BY <1>2, MapStepKept DEF MapInv
  <2>2. ASSUME ~overlapped'
        PROVE  /\ \A u, v \in Threads : u # v => Idle(u)' \/ Idle(v)'
               /\ \A u \in Threads : Alone(u)' => PoolsFit(u)' /\ CacheFits(u)'
    <3>1. ~overlapped /\ Alone(t)
      BY <1>2, <2>2 DEF NoteOverlap, Alone
    <3>2. PoolsFit(t) /\ CacheFits(t)
      BY <3>1 DEF MapInv, OneByOne
    <3>3. PoolsFit(t)' /\ CacheFits(t)'
      BY <1>2, <2>1, <3>2, GetUnusedIDFits, InsertFits, MarkTemporaryFits, ReadFits, DiscardFits
         DEF Create
    <3>4. \A u \in Threads \ {t} : Idle(u)'
      BY <2>1, <3>1 DEF OthersStay, Alone, Idle
    <3>5. ASSUME NEW u \in Threads \ {t}, Alone(u)'
          PROVE  PoolsFit(u)' /\ CacheFits(u)'
      <4>1. Idle(t)' /\ Idle(u)'
        BY <3>4, <3>5 DEF Alone
      <4>2. task'[t] = "none" /\ task'[u] = "none" /\ pc'[t] = "idle" /\ pc'[u] = "idle"
        BY <2>1, <4>1 DEF KeptInv, TaskFits, Idle
      <4>. QED  BY <3>3, <4>2 DEF PoolsFit, CacheFits, Erased, Owed, Held
    <3>. QED  BY <3>3, <3>4, <3>5
  <2>. QED  BY <2>1, <2>2 DEF MapInv, OneByOne
<1>. QED  BY <1>1, <1>2 DEF MapNext

LEMMA MapAlways == MapSpec => []MapInv
<1>. QED  BY MapInitInv, MapNextInv, PTL DEF MapSpec

(***************************************************************************)
(* As long as calls do not overlap, whichever threads make them, Get never *)
(* answers from the cache for a deleted variable, even when a destructor   *)
(* that Delete runs calls it, and the sets of IDs agree (VarMap::Get,      *)
(* VarMap::Delete).                                                        *)
(***************************************************************************)
THEOREM MapIsSound == MapSpec => []MapSound
<1>1. ASSUME MapInv, ~overlapped PROVE PoolsAgree
  <2>. SUFFICES ASSUME \A t \in Threads : Idle(t)
                PROVE  usedIDs \cap availableIDs = {} /\ tempIDs \subseteq usedIDs
    BY DEF PoolsAgree
  <2>1. PICK t \in Threads : TRUE
    BY MapAssumption DEF MapAssumption
  <2>. QED  BY <1>1, <2>1 DEF MapInv, OneByOne, Alone, PoolsFit
<1>2. ASSUME MapInv, ~overlapped PROVE GetAnswersMap
  <2>. SUFFICES ASSUME NEW t \in Threads, pc[t] = "return"
                PROVE  got[t] = vars[arg[t]]
    BY DEF GetAnswersMap
  <2>1. Alone(t)
    BY <1>2 DEF MapInv, OneByOne, Alone, Idle
  <2>. QED  BY <1>2, <2>1 DEF MapInv, OneByOne, CacheFits
<1>3. MapInv => MapSound
  BY <1>1, <1>2 DEF MapInv, KeptInv, MapSound
<1>. QED  BY <1>3, MapAlways, PTL

(***************************************************************************)
(* However the calls of any number of threads overlap, the sets of IDs and *)
(* the map agree when the lock is free, and no ID below a known one is     *)
(* lost (VarMap::Insert, Delete, GetUnusedID).                             *)
(***************************************************************************)
THEOREM IDsAreKept == MapSpec => []IDsKept
<1>1. MapInv => IDsKept
  BY DEF MapInv, KeptInv, UsedFits, NoGap, IDsKept, Held
<1>. QED  BY <1>1, MapAlways, PTL
=============================================================================
