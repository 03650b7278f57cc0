-------------------------- MODULE EventManagerProofs --------------------------
(***************************************************************************)
(* Theorems about EventManager, for any events, handlers, priorities and   *)
(* depth of dispatches.                                                    *)
(***************************************************************************)
EXTENDS EventManager, DataLemmas, FiniteSetTheorems

NodeType == [func : Funcs \cup {"none"}, filter : Args \cup {NoFilter},
             prio : Priorities \cup {0}, removed : BOOLEAN, pending : BOOLEAN]
RemovalType == [event : Events, node : Nodes]
DeferredType == [event : Events, node : Nodes, arg : Args]
RawType == [event : Events, arg : Args]
FrameType == [event : Events, arg : Args, at : Nodes, owed : SUBSET Nodes,
              kind : {"all", "single"}]

-----------------------------------------------------------------------------
(* A node is in one place of one event. *)
PlacesInv ==
  \A e, d \in Events : \A i \in DOMAIN callbacks[e], j \in DOMAIN callbacks[d] :
    callbacks[e][i] = callbacks[d][j] => e = d /\ i = j

(* The handlers of an event are in the order of their priorities. *)
OrderInv ==
  \A e \in Events : \A i, j \in DOMAIN callbacks[e] :
    i < j => node[callbacks[e][i]].prio >= node[callbacks[e][j]].prio

(* The removal list has the nodes that await removal, each once, with their *)
(* events; a node that is marked removed is among them.                    *)
RemoveInv ==
  /\ \A i \in DOMAIN removeList :
       removeList[i].node \in ToSet(callbacks[removeList[i].event])
  /\ \A n \in Nodes : node[n].pending <=> \E i \in DOMAIN removeList : removeList[i].node = n
  /\ \A i, j \in DOMAIN removeList : removeList[i].node = removeList[j].node => i = j
  /\ \A n \in Nodes : node[n].removed => node[n].pending

(* In the list of an event, node m comes before node n. *)
Before(e, m, n) ==
  \E i, j \in DOMAIN callbacks[e] : i < j /\ callbacks[e][i] = m /\ callbacks[e][j] = n

(* What a dispatch still owes a call matches, and is ahead of it. *)
FrameSound(f) ==
  /\ f.kind = "single" => f.owed = {}
  /\ f.kind = "all" => f.at \in ToSet(callbacks[f.event])
  /\ \A m \in f.owed : Matches(m, f.arg) /\ Before(f.event, f.at, m)

FramesInv == \A k \in DOMAIN stack : FrameSound(stack[k])

ListInv == PlacesInv /\ OrderInv /\ RemoveInv /\ NoDuplicates /\ InUseIffHandled

Inv == TypeOK /\ ListInv /\ FramesInv

(* What is held across steps is not erased: when nothing is deferred while *)
(* a game is loaded.                                                       *)
HeldInv ==
  /\ \A i \in DOMAIN deferredClassic : deferredClassic[i].node \in Live
  /\ \A k \in DOMAIN stack : stack[k].at \in Live
  /\ ticking = "raw" => deferredClassic = <<>>
-----------------------------------------------------------------------------
(* The parts of the state *)

LEMMA Types ==
  ASSUME TypeOK
  PROVE  /\ \A e \in Events :
              /\ callbacks[e] \in Seq(Nodes) /\ Len(callbacks[e]) \in Nat
              /\ DOMAIN callbacks[e] = 1 .. Len(callbacks[e])
              /\ \A i \in DOMAIN callbacks[e] : callbacks[e][i] \in Nodes
              /\ ToSet(callbacks[e]) \subseteq Live
         /\ Live \subseteq Nodes
         /\ \A n \in Nodes : node[n] \in NodeType /\ node[n].prio \in Int
         /\ DOMAIN stack = 1 .. Len(stack) /\ Len(stack) \in Nat
         /\ stack # <<>> => Len(stack) \in DOMAIN stack /\ top = stack[Len(stack)]
         /\ \A k \in DOMAIN stack : stack[k] \in FrameType
         /\ DOMAIN removeList = 1 .. Len(removeList) /\ Len(removeList) \in Nat
         /\ \A i \in DOMAIN removeList : removeList[i] \in RemovalType
         /\ DOMAIN deferredClassic = 1 .. Len(deferredClassic) /\ Len(deferredClassic) \in Nat
         /\ \A i \in DOMAIN deferredClassic : deferredClassic[i] \in DeferredType
<1>1. \A e \in Events :
        /\ callbacks[e] \in Seq(Nodes) /\ Len(callbacks[e]) \in Nat
        /\ DOMAIN callbacks[e] = 1 .. Len(callbacks[e])
        /\ \A i \in DOMAIN callbacks[e] : callbacks[e][i] \in Nodes
        /\ ToSet(callbacks[e]) \subseteq Live
  <2>1. \A e \in Events : callbacks[e] \in Seq(Nodes)
    BY DEF TypeOK
  <2>2. \A e \in Events : \A i \in 1 .. Len(callbacks[e]) : callbacks[e][i] \in Nodes
    BY <2>1, ElementOfSeq
  <2>. QED  BY <2>1, <2>2, LenProperties DEF Live
<1>2. Live \subseteq Nodes
  BY <1>1 DEF Live, ToSet
<1>3. \A n \in Nodes : node[n] \in NodeType /\ node[n].prio \in Int
  <2>1. \A n \in Nodes : node[n] \in NodeType
    BY DEF TypeOK, NodeType
  <2>2. Priorities \cup {0} \subseteq Int
    BY ConstantsAssumption DEF ConstantsAssumption
  <2>. QED  BY <2>1, <2>2 DEF NodeType
<1>4. /\ DOMAIN stack = 1 .. Len(stack) /\ Len(stack) \in Nat /\ stack \in Seq(FrameType)
      /\ \A k \in DOMAIN stack : stack[k] \in FrameType
  <2>1. stack \in Seq(FrameType)
    BY DEF TypeOK, FrameType
  <2>. QED  BY <2>1, LenProperties, ElementOfSeq
<1>5. stack # <<>> => Len(stack) \in DOMAIN stack /\ top = stack[Len(stack)]
  <2>1. stack # <<>> => Len(stack) \in Nat \ {0}
    BY <1>4, EmptySeq
  <2>. QED  BY <1>4, <2>1 DEF top, Last
<1>6. /\ DOMAIN removeList = 1 .. Len(removeList) /\ Len(removeList) \in Nat
      /\ \A i \in DOMAIN removeList : removeList[i] \in RemovalType
  <2>1. removeList \in Seq(RemovalType)
    BY DEF TypeOK, RemovalType
  <2>. QED  BY <2>1, LenProperties, ElementOfSeq
<1>7. /\ DOMAIN deferredClassic = 1 .. Len(deferredClassic) /\ Len(deferredClassic) \in Nat
      /\ \A i \in DOMAIN deferredClassic : deferredClassic[i] \in DeferredType
  <2>1. deferredClassic \in Seq(DeferredType)
    BY DEF TypeOK, DeferredType
  <2>. QED  BY <2>1, LenProperties, ElementOfSeq
<1>. QED  BY <1>1, <1>2, <1>3, <1>4, <1>5, <1>6, <1>7

(***************************************************************************)
(* NextMatch gives the first node that matches from a place on, if any.    *)
(***************************************************************************)
LEMMA NextMatchProperty ==
  ASSUME TypeOK, NEW e \in Events, NEW i \in Nat \ {0}, NEW arg, NEW n, n = NextMatch(e, i, arg)
  PROVE  /\ n = 0 => \A j \in DOMAIN callbacks[e] : j >= i => ~Matches(callbacks[e][j], arg)
         /\ n # 0 =>
              \E j \in DOMAIN callbacks[e] :
                /\ j >= i /\ n = callbacks[e][j] /\ n \in Nodes /\ Matches(n, arg)
                /\ \A k \in DOMAIN callbacks[e] : k >= i /\ Matches(callbacks[e][k], arg) => k >= j
<1>. DEFINE M == {j \in i .. Len(callbacks[e]) : Matches(callbacks[e][j], arg)}
<1>1. n = IF M = {} THEN 0 ELSE callbacks[e][Min(M)]
  BY DEF NextMatch
<1>2. Len(callbacks[e]) \in Nat /\ DOMAIN callbacks[e] = 1 .. Len(callbacks[e])
      /\ \A j \in DOMAIN callbacks[e] : callbacks[e][j] \in Nodes
  BY Types
<1>3. M \subseteq DOMAIN callbacks[e] /\ M \subseteq Nat
      /\ \A j \in DOMAIN callbacks[e] : j \in M <=> j >= i /\ Matches(callbacks[e][j], arg)
      /\ \A k \in M : k >= i /\ Matches(callbacks[e][k], arg)
  BY <1>2
<1>. HIDE DEF M
<1>4. CASE M = {}
  <2>1. n = 0
    BY <1>1, <1>4
  <2>. QED  BY <1>3, <1>4, <2>1
<1>5. CASE M # {}
  <2>1. Min(M) \in M /\ \A j \in M : Min(M) <= j
    BY <1>3, <1>5, MinProperty
  <2>2. n = callbacks[e][Min(M)] /\ n \in Nodes
    BY <1>1, <1>2, <1>3, <1>5, <2>1
  <2>3. \A k \in DOMAIN callbacks[e] : k >= i /\ Matches(callbacks[e][k], arg) => k >= Min(M)
    BY <1>2, <1>3, <2>1
  <2>4. n # 0
    BY <2>2 DEF Nodes
  <2>. QED  BY <1>3, <2>1, <2>2, <2>3, <2>4
<1>. QED  BY <1>4, <1>5

-----------------------------------------------------------------------------
(* Dispatches *)

LEMMA BegunIsSound ==
  ASSUME Inv, NEW e \in Events, NEW arg \in Args
  PROVE  \/ Begun(e, arg) = stack
         \/ \E f \in FrameType : /\ Begun(e, arg) = Append(stack, f) /\ FrameSound(f)
                                 /\ f.at \in Live /\ f.kind = "all"
<1>. DEFINE first == NextMatch(e, 1, arg)
            f == Frame(e, arg, first, "all")
<1>. SUFFICES ASSUME first # 0
              PROVE  f \in FrameType /\ FrameSound(f) /\ f.at \in Live /\ f.kind = "all"
  BY DEF Begun
<1>1. TypeOK
  BY DEF Inv
<1>2. PICK j \in DOMAIN callbacks[e] :
        /\ first = callbacks[e][j] /\ first \in Nodes
        /\ \A k \in DOMAIN callbacks[e] : Matches(callbacks[e][k], arg) => k >= j
  <2>1. 1 \in Nat \ {0} /\ \A k \in DOMAIN callbacks[e] : k >= 1
    BY <1>1, Types
  <2>. HIDE DEF first
  <2>2. first = NextMatch(e, 1, arg)
    BY DEF first
  <2>. QED  BY <1>1, <2>1, <2>2, NextMatchProperty
<1>. HIDE DEF first
<1>3. /\ f.event = e /\ f.arg = arg /\ f.at = first /\ f.kind = "all"
      /\ f.owed = {m \in ToSet(callbacks[e]) : Matches(m, arg)} \ {first}
      /\ f = [event |-> e, arg |-> arg, at |-> first, kind |-> "all", owed |-> f.owed]
  BY DEF Frame
<1>. HIDE DEF f
<1>4. first \in ToSet(callbacks[e]) /\ ToSet(callbacks[e]) \subseteq Live
      /\ ToSet(callbacks[e]) \subseteq Nodes /\ DOMAIN callbacks[e] \subseteq Nat
  BY <1>1, <1>2, Types DEF ToSet
<1>5. f \in FrameType
  BY <1>2, <1>3, <1>4 DEF FrameType
<1>6. ASSUME NEW m \in f.owed
      PROVE  Matches(m, arg) /\ Before(e, first, m)
  <2>1. m \in ToSet(callbacks[e]) /\ Matches(m, arg) /\ m # first
    BY <1>3, <1>6
  <2>2. PICK k \in DOMAIN callbacks[e] : callbacks[e][k] = m
    BY <2>1 DEF ToSet
  <2>3. k >= j /\ k # j
    BY <1>2, <2>1, <2>2
  <2>4. j < k
    BY <1>4, <2>3
  <2>. QED  BY <1>2, <2>1, <2>2, <2>4 DEF Before
<1>7. FrameSound(f)
  BY <1>3, <1>4, <1>6 DEF FrameSound
<1>. QED  BY <1>3, <1>4, <1>5, <1>7

(***************************************************************************)
(* When a handler returns, either nobody is owed a call any more, or the   *)
(* loop goes on to a handler of the same priority or a lesser one.         *)
(***************************************************************************)
Advanced(f) == [f EXCEPT !.at = NextAfter(f), !.owed = @ \ {NextAfter(f)}]

LEMMA NextIsSound ==
  ASSUME Inv, NEW f \in FrameType, FrameSound(f), f.kind = "all"
  PROVE  /\ NextAfter(f) = 0 => f.owed = {}
         /\ NextAfter(f) # 0 =>
              /\ Advanced(f) \in FrameType /\ FrameSound(Advanced(f)) /\ Advanced(f).at \in Live
              /\ Advanced(f).at = NextAfter(f) /\ node[NextAfter(f)].prio <= node[f.at].prio
<1>. DEFINE n == NextAfter(f)
            g == Advanced(f)
            e == f.event
            i == Position(e, f.at)
            s == callbacks[e]
<1>1. TypeOK /\ PlacesInv /\ OrderInv /\ e \in Events
  BY DEF Inv, ListInv, FrameType
<1>2. DOMAIN s \subseteq Nat \ {0} /\ \A k \in DOMAIN s : s[k] \in Nodes
  BY <1>1, Types
<1>3. f.at \in ToSet(s)
  BY DEF FrameSound
<1>4. i \in DOMAIN s /\ s[i] = f.at
  BY <1>3 DEF Position, ToSet
<1>5. \A j, k \in DOMAIN s : s[j] = s[k] => j = k
  BY <1>1 DEF PlacesInv
<1>6. n = NextMatch(e, i + 1, f.arg) /\ i + 1 \in Nat \ {0}
  BY <1>2, <1>4 DEF NextAfter
<1>7. ASSUME NEW m \in f.owed
      PROVE  Matches(m, f.arg) /\ \E k \in DOMAIN s : s[k] = m /\ k >= i + 1
  <2>1. Matches(m, f.arg) /\ Before(e, f.at, m)
    BY DEF FrameSound
  <2>2. PICK j \in DOMAIN s, k \in DOMAIN s : j < k /\ s[j] = f.at /\ s[k] = m
    BY <2>1 DEF Before
  <2>3. j = i
    BY <1>4, <1>5, <2>2
  <2>4. k >= i + 1
    <3>. HIDE DEF i, s, e
    <3>. QED  BY <1>2, <2>2, <2>3
  <2>. QED  BY <2>1, <2>2, <2>4
<1>. HIDE DEF i
<1>8. CASE n = 0
  <2>1. \A j \in DOMAIN s : j >= i + 1 => ~Matches(s[j], f.arg)
    BY <1>1, <1>6, <1>8, NextMatchProperty
  <2>. QED  BY <1>7, <1>8, <2>1
<1>9. CASE n # 0
  <2>1. PICK j \in DOMAIN s :
          /\ j >= i + 1 /\ n = s[j] /\ n \in Nodes /\ Matches(n, f.arg)
          /\ \A k \in DOMAIN s : k >= i + 1 /\ Matches(s[k], f.arg) => k >= j
    BY <1>1, <1>6, <1>9, NextMatchProperty
  <2>2. /\ g \in FrameType /\ g.at = n /\ g.kind = "all" /\ g.event = e /\ g.arg = f.arg
        /\ g.owed = f.owed \ {n}
    BY <2>1 DEF FrameType, Advanced
  <2>3. n \in ToSet(s) /\ n \in Live
    <3>1. n \in ToSet(s)
      BY <2>1 DEF ToSet
    <3>. QED  BY <1>1, <3>1, Types
  <2>4. node[n].prio <= node[f.at].prio
    <3>1. i < j
      <4>. HIDE DEF s, e
      <4>. QED  BY <1>2, <1>4, <2>1
    <3>2. node[s[i]].prio >= node[s[j]].prio
      BY <1>1, <1>4, <2>1, <3>1 DEF OrderInv
    <3>3. node[s[i]].prio \in Int /\ node[s[j]].prio \in Int
      BY <1>1, <1>2, <1>4, Types
    <3>. QED  BY <1>4, <2>1, <3>2, <3>3
  <2>5. ASSUME NEW m \in g.owed
        PROVE  Matches(m, f.arg) /\ Before(e, n, m)
    <3>1. m \in f.owed /\ m # n
      BY <2>2
    <3>2. PICK k \in DOMAIN s : s[k] = m /\ k >= i + 1
      BY <1>7, <3>1
    <3>3. Matches(m, f.arg)
      BY <1>7, <3>1
    <3>4. k >= j /\ k # j
      BY <2>1, <3>1, <3>2, <3>3
    <3>5. j < k
      <4>. HIDE DEF s, e
      <4>. QED  BY <1>2, <3>4
    <3>. QED  BY <2>1, <3>2, <3>3, <3>5 DEF Before
  <2>6. FrameSound(g)
    BY <2>2, <2>3, <2>5 DEF FrameSound
  <2>. QED  BY <1>9, <2>2, <2>3, <2>4, <2>6
<1>. QED  BY <1>8, <1>9

(***************************************************************************)
(* Steps that begin, continue or end a dispatch.                           *)
(***************************************************************************)
LEMMA StackStep ==
  ASSUME Inv, UNCHANGED <<callbacks, node, inUse, removeList>>,
         stack' \in Seq(FrameType), \A k \in DOMAIN stack' : FrameSound(stack'[k]),
         deferredClassic' \in Seq(DeferredType), deferredRaw' \in Seq(RawType),
         ticking' \in {"no", "classic", "raw"}
  PROVE  Inv'
<1>1. TypeOK'
  BY DEF Inv, TypeOK, FrameType, DeferredType, RawType
<1>2. ListInv'
  BY DEF Inv, ListInv, PlacesInv, OrderInv, RemoveInv, NoDuplicates, InUseIffHandled
<1>3. FramesInv'
  BY DEF FramesInv, FrameSound, Matches, Before
<1>. QED  BY <1>1, <1>2, <1>3 DEF Inv

LEMMA PushKeeps ==
  ASSUME Inv, NEW f \in FrameType, FrameSound(f), stack' = Append(stack, f),
         UNCHANGED <<callbacks, node, inUse, lists, ticking>>
  PROVE  Inv' /\ (HeldInv /\ f.at \in Live => HeldInv')
<1>1. TypeOK /\ FramesInv
  BY DEF Inv
<1>2. /\ stack' \in Seq(FrameType) /\ Len(stack) \in Nat /\ DOMAIN stack = 1 .. Len(stack)
      /\ DOMAIN stack' = 1 .. Len(stack) + 1 /\ stack'[Len(stack) + 1] = f
      /\ \A k \in 1 .. Len(stack) : stack'[k] = stack[k]
  <2>1. stack \in Seq(FrameType)
    BY <1>1 DEF TypeOK, FrameType
  <2>. QED  BY <2>1, AppendProperties, LenProperties
<1>3. \A k \in DOMAIN stack' : \/ k \in DOMAIN stack /\ stack'[k] = stack[k]
                               \/ stack'[k] = f
  <2>1. \A k \in 1 .. Len(stack) + 1 : k \in 1 .. Len(stack) \/ k = Len(stack) + 1
    BY <1>2
  <2>. QED  BY <1>2, <2>1
<1>4. \A k \in DOMAIN stack' : FrameSound(stack'[k])
  BY <1>1, <1>3 DEF FramesInv
<1>5. deferredClassic' \in Seq(DeferredType) /\ deferredRaw' \in Seq(RawType)
      /\ ticking' \in {"no", "classic", "raw"}
  BY <1>1 DEF TypeOK, DeferredType, RawType, lists
<1>6. Inv'
  BY <1>2, <1>4, <1>5, StackStep DEF lists
<1>7. HeldInv /\ f.at \in Live => HeldInv'
  <2>1. Live' = Live
    BY DEF Live
  <2>. QED  BY <1>3, <2>1 DEF HeldInv, lists
<1>. QED  BY <1>6, <1>7

(* The innermost dispatch ends, or goes on as g. *)
LEMMA PopKeeps ==
  ASSUME Inv, stack # <<>>, UNCHANGED <<callbacks, node, inUse, lists, ticking>>,
         \/ stack' = Front(stack)
         \/ \E g \in FrameType : /\ FrameSound(g) /\ g.at \in Live
                                 /\ stack' = Append(Front(stack), g)
  PROVE  Inv' /\ (HeldInv => HeldInv')
<1>. DEFINE n == Len(stack)
<1>1. TypeOK /\ FramesInv
  BY DEF Inv
<1>2. n \in Nat \ {0} /\ DOMAIN stack = 1 .. n /\ stack \in Seq(FrameType)
  <2>1. n \in 1 .. n /\ n \in Nat /\ DOMAIN stack = 1 .. n
    BY <1>1, Types
  <2>. QED  BY <1>1, <2>1 DEF TypeOK, FrameType
<1>3. /\ Front(stack) \in Seq(FrameType) /\ Len(Front(stack)) = n - 1
      /\ DOMAIN Front(stack) = 1 .. n - 1
      /\ \A k \in 1 .. n - 1 : k \in DOMAIN stack /\ Front(stack)[k] = stack[k]
  BY <1>2, AllButLast DEF Front
<1>4. /\ deferredClassic' \in Seq(DeferredType) /\ deferredRaw' \in Seq(RawType)
      /\ ticking' \in {"no", "classic", "raw"} /\ UNCHANGED <<callbacks, node, inUse, removeList>>
  BY <1>1 DEF TypeOK, DeferredType, RawType, lists
<1>5. Live' = Live /\ UNCHANGED <<deferredClassic, ticking>>
  BY DEF Live, lists
<1>. HIDE DEF n
<1>6. CASE stack' = Front(stack)
  <2>1. \A k \in DOMAIN stack' : k \in DOMAIN stack /\ stack'[k] = stack[k]
    BY <1>3, <1>6
  <2>2. Inv'
    BY <1>1, <1>3, <1>4, <1>6, <2>1, StackStep DEF FramesInv
  <2>. QED  BY <1>5, <2>1, <2>2 DEF HeldInv
<1>7. ASSUME NEW g \in FrameType, FrameSound(g), g.at \in Live, stack' = Append(Front(stack), g)
      PROVE  Inv' /\ (HeldInv => HeldInv')
  <2>1. /\ stack' \in Seq(FrameType) /\ DOMAIN stack' = 1 .. (n - 1) + 1
        /\ stack'[(n - 1) + 1] = g
        /\ \A k \in 1 .. n - 1 : stack'[k] = Front(stack)[k]
    BY <1>3, <1>7, AppendProperties, LenProperties
  <2>2. \A k \in 1 .. (n - 1) + 1 : k \in 1 .. n - 1 \/ k = (n - 1) + 1
    BY <1>2
  <2>3. \A k \in DOMAIN stack' : \/ k \in DOMAIN stack /\ stack'[k] = stack[k]
                                 \/ stack'[k] = g
    BY <1>3, <2>1, <2>2
  <2>4. Inv'
    BY <1>1, <1>4, <1>7, <2>1, <2>3, StackStep DEF FramesInv
  <2>. QED  BY <1>5, <1>7, <2>3, <2>4 DEF HeldInv
<1>. QED  BY <1>6, <1>7

LEMMA DispatchKeeps ==
  ASSUME Inv, NEW e \in Events, NEW arg \in Args, Dispatch(e, arg)
  PROVE  Inv' /\ (HeldInv => HeldInv')
<1>1. /\ Begun(e, arg) # stack /\ stack' = Begun(e, arg)
      /\ UNCHANGED <<callbacks, node, inUse, lists, ticking>>
  BY DEF Dispatch
<1>2. PICK f \in FrameType : Begun(e, arg) = Append(stack, f) /\ FrameSound(f) /\ f.at \in Live
  BY <1>1, BegunIsSound
<1>. QED  BY <1>1, <1>2, PushKeeps

LEMMA HandlerReturnsKeeps ==
  ASSUME Inv, HandlerReturns
  PROVE  /\ Inv' /\ (HeldInv => HeldInv')
         /\ IF Len(stack') < Len(stack) THEN top.owed = {}
            ELSE node[Last(stack').at].prio <= node[top.at].prio
<1>1. stack # <<>> /\ UNCHANGED <<callbacks, node, inUse, lists, ticking>>
  BY DEF HandlerReturns
<1>2. TypeOK /\ FramesInv
  BY DEF Inv
<1>3. /\ Len(stack) \in DOMAIN stack /\ top = stack[Len(stack)] /\ Len(stack) \in Nat \ {0}
      /\ top \in FrameType /\ FrameSound(top)
  <2>1. Len(stack) \in DOMAIN stack /\ top = stack[Len(stack)] /\ Len(stack) \in Nat
        /\ DOMAIN stack = 1 .. Len(stack)
    BY <1>1, <1>2, Types
  <2>. QED  BY <1>2, <2>1, Types DEF FramesInv
<1>. DEFINE next == NextAfter(top)
<1>4. Front(stack) \in Seq(FrameType) /\ Len(Front(stack)) = Len(stack) - 1
  <2>1. stack \in Seq(FrameType)
    BY <1>2 DEF TypeOK, FrameType
  <2>. QED  BY <1>1, <2>1, AllButLast DEF Front
<1>5. CASE stack' = Front(stack) /\ (top.kind = "single" \/ next = 0 \/ top.at \notin ToSet(callbacks[top.event]))
  <2>1. top.kind = "single" \/ top.kind = "all"
    BY <1>3 DEF FrameType
  <2>2. top.owed = {}
    <3>1. CASE top.kind = "single"
      BY <1>3, <3>1 DEF FrameSound
    <3>2. CASE top.kind = "all"
      <4>1. top.at \in ToSet(callbacks[top.event])
        BY <1>3, <3>2 DEF FrameSound
      <4>2. next = 0
        BY <1>5, <3>2, <4>1
      <4>. QED  BY <1>3, <3>2, <4>2, NextIsSound
    <3>. QED  BY <2>1, <3>1, <3>2
  <2>3. Len(stack') < Len(stack)
    BY <1>3, <1>4, <1>5
  <2>. QED  BY <1>1, <1>5, <2>2, <2>3, PopKeeps
<1>. DEFINE g == Advanced(top)
<1>6. CASE top.kind = "all" /\ next # 0 /\ stack' = Append(Front(stack), g)
  <2>2. /\ g \in FrameType /\ FrameSound(g) /\ g.at \in Live
        /\ node[next].prio <= node[top.at].prio /\ g.at = next
    BY <1>3, <1>6, NextIsSound
  <2>. HIDE DEF g, next
  <2>3. Len(stack') = Len(stack) /\ Last(stack') = g
    <3>1. Len(stack') = Len(Front(stack)) + 1 /\ stack'[Len(Front(stack)) + 1] = g
      BY <1>4, <1>6, <2>2, AppendProperties
    <3>2. (Len(stack) - 1) + 1 = Len(stack)
      BY <1>3
    <3>. QED  BY <1>4, <3>1, <3>2 DEF Last
  <2>4. ~(Len(stack') < Len(stack))
    BY <1>3, <2>3
  <2>5. Inv' /\ (HeldInv => HeldInv')
    BY <1>1, <1>6, <2>2, PopKeeps
  <2>. QED  BY <2>2, <2>3, <2>4, <2>5
<1>7. top.kind = "single" \/ top.kind = "all"
  BY <1>3 DEF FrameType
<1>. QED  BY <1>5, <1>6, <1>7 DEF HandlerReturns, Advanced

LEMMA EarlyBreakKeeps ==
  ASSUME Inv, EarlyBreak
  PROVE  Inv' /\ (HeldInv => HeldInv')
BY PopKeeps DEF EarlyBreak

-----------------------------------------------------------------------------
(* Deferred events *)

LEMMA DispatchElsewhereKeeps ==
  ASSUME Inv, NEW e \in Events, NEW arg \in Args, DispatchElsewhere(e, arg)
  PROVE  Inv' /\ (HeldInv => HeldInv')
<1>1. TypeOK /\ FramesInv
  BY DEF Inv
<1>2. UNCHANGED <<callbacks, node, inUse, removeList, stack, ticking>> /\ ticking = "no"
  BY DEF DispatchElsewhere, Idle
<1>3. /\ stack' \in Seq(FrameType) /\ \A k \in DOMAIN stack' : FrameSound(stack'[k])
      /\ ticking' \in {"no", "classic", "raw"} /\ Live' = Live
  BY <1>1, <1>2 DEF TypeOK, FrameType, FramesInv, Live
<1>4. CASE e \in Classic
  <2>. DEFINE m == Only(callbacks[e], {n \in Nodes : Matches(n, arg)})
              new == [i \in DOMAIN m |-> [event |-> e, node |-> m[i], arg |-> arg]]
  <2>1. deferredClassic' = deferredClassic \o new /\ UNCHANGED deferredRaw
    BY <1>4 DEF DispatchElsewhere
  <2>2. callbacks[e] \in Seq(Nodes) /\ ToSet(callbacks[e]) \subseteq Live
    BY <1>1, Types
  <2>3. m \in Seq(Nodes) /\ \A a \in DOMAIN m : m[a] \in Live
    <3>2. m \in Seq(Nodes) /\ \A a \in DOMAIN m : \E p \in DOMAIN callbacks[e] : callbacks[e][p] = m[a]
      BY <2>2, OnlyInOrder DEF InOrder
    <3>. QED  BY <2>2, <3>2 DEF ToSet
  <2>. HIDE DEF m
  <2>4. Len(m) \in Nat /\ DOMAIN m = 1 .. Len(m) /\ \A i \in 1 .. Len(m) : m[i] \in Nodes
    BY <2>3, LenProperties
  <2>5. /\ new \in Seq(DeferredType) /\ Len(new) = Len(m)
        /\ \A i \in 1 .. Len(m) : new[i].node = m[i]
    <3>1. \A i \in 1 .. Len(m) : [event |-> e, node |-> m[i], arg |-> arg] \in DeferredType
      BY <2>4 DEF DeferredType
    <3>. QED  BY <2>4, <3>1
  <2>. HIDE DEF new
  <2>6. deferredClassic \in Seq(DeferredType)
    BY <1>1 DEF TypeOK, DeferredType
  <2>7. deferredClassic' \in Seq(DeferredType) /\ deferredRaw' \in Seq(RawType)
    BY <1>1, <2>1, <2>5, <2>6, ConcatProperties DEF TypeOK, RawType
  <2>8. \A i \in DOMAIN deferredClassic' :
          \/ \E k \in DOMAIN deferredClassic : deferredClassic'[i] = deferredClassic[k]
          \/ \E k \in 1 .. Len(m) : deferredClassic'[i] = new[k]
    <3>. DEFINE n == Len(deferredClassic)
    <3>1. n \in Nat /\ DOMAIN deferredClassic = 1 .. n
      BY <2>6, LenProperties
    <3>2. /\ DOMAIN deferredClassic' = 1 .. n + Len(m)
          /\ \A i \in 1 .. n + Len(m) : deferredClassic'[i] = IF i <= n THEN deferredClassic[i] ELSE new[i - n]
      <4>1. DOMAIN deferredClassic' = 1 .. Len(deferredClassic')
        BY <2>7, LenProperties
      <4>2. /\ Len(deferredClassic \o new) = n + Len(new)
            /\ \A i \in 1 .. n + Len(new) :
                 (deferredClassic \o new)[i] = IF i <= n THEN deferredClassic[i] ELSE new[i - n]
        BY <2>5, <2>6, ConcatProperties
      <4>. HIDE DEF n
      <4>. QED  BY <2>1, <2>5, <4>1, <4>2
    <3>3. \A i \in 1 .. n + Len(m) : (i <= n => i \in 1 .. n) /\ (~(i <= n) => i - n \in 1 .. Len(m))
      BY <2>4, <3>1
    <3>. QED  BY <3>1, <3>2, <3>3
  <2>9. Inv'
    BY <1>2, <1>3, <2>7, StackStep
  <2>10. HeldInv => HeldInv'
    BY <1>2, <1>3, <2>3, <2>4, <2>5, <2>8 DEF HeldInv
  <2>. QED  BY <2>9, <2>10
<1>5. CASE e \notin Classic
  <2>1. deferredRaw' = Append(deferredRaw, [event |-> e, arg |-> arg]) /\ UNCHANGED deferredClassic
    BY <1>5 DEF DispatchElsewhere
  <2>2. deferredClassic' \in Seq(DeferredType) /\ deferredRaw' \in Seq(RawType)
    <3>1. [event |-> e, arg |-> arg] \in RawType
      BY DEF RawType
    <3>2. deferredRaw \in Seq(RawType) /\ deferredClassic \in Seq(DeferredType)
      BY <1>1 DEF TypeOK, RawType, DeferredType
    <3>. QED  BY <2>1, <3>1, <3>2, AppendProperties
  <2>3. Inv'
    BY <1>2, <1>3, <2>2, StackStep
  <2>. QED  BY <1>2, <1>3, <2>1, <2>3 DEF HeldInv
<1>. QED  BY <1>4, <1>5

LEMMA TickKeeps ==
  ASSUME Inv, TickBegin \/ TickClassic \/ TickClassicDone \/ TickRaw
  PROVE  Inv' /\ (HeldInv => HeldInv')
<1>1. /\ TypeOK /\ FramesInv /\ UNCHANGED <<callbacks, node, inUse, removeList>> /\ stack = <<>>
      /\ Live' = Live
  BY DEF Inv, TickBegin, TickClassic, TickClassicDone, TickRaw, Idle, lists, Live
<1>2. /\ deferredClassic \in Seq(DeferredType) /\ deferredRaw \in Seq(RawType)
      /\ <<>> \in Seq(FrameType) /\ stack \in Seq(FrameType)
  BY <1>1 DEF TypeOK, DeferredType, RawType, FrameType
<1>3. CASE TickBegin \/ TickClassicDone
  <2>1. /\ UNCHANGED <<stack, deferredClassic, deferredRaw>>
        /\ \/ ticking' = "classic"
           \/ ticking' = "raw" /\ deferredClassic = <<>>
    BY <1>3 DEF TickBegin, TickClassicDone, lists
  <2>2. Inv'
    BY <1>1, <1>2, <2>1, StackStep
  <2>. QED  BY <1>1, <2>1, <2>2 DEF HeldInv
<1>4. CASE TickClassic
  <2>. DEFINE d == Last(deferredClassic)
              f == Frame(d.event, d.arg, d.node, "single")
  <2>1. /\ deferredClassic # <<>> /\ deferredClassic' = Front(deferredClassic)
        /\ stack' = IF node[d.node].removed THEN <<>> ELSE <<f>>
        /\ ticking = "classic" /\ UNCHANGED <<deferredRaw, ticking>>
    BY <1>4 DEF TickClassic
  <2>2. /\ deferredClassic' \in Seq(DeferredType) /\ d = deferredClassic[Len(deferredClassic)]
        /\ d \in DeferredType /\ Len(deferredClassic) \in DOMAIN deferredClassic
        /\ \A k \in DOMAIN deferredClassic' :
             k \in DOMAIN deferredClassic /\ deferredClassic'[k] = deferredClassic[k]
    BY <1>2, <2>1, AllButLast DEF Front, Last
  <2>. HIDE DEF d
  <2>3. /\ f \in FrameType /\ f.kind = "single" /\ f.owed = {} /\ f.at = d.node
    BY <2>2 DEF Frame, FrameType, DeferredType
  <2>. HIDE DEF f
  <2>4. FrameSound(f)
    BY <2>3 DEF FrameSound
  <2>5. stack' \in Seq(FrameType) /\ \A k \in DOMAIN stack' : stack'[k] = f
    <3>1. CASE stack' = <<>>
      BY <1>2, <3>1
    <3>2. CASE stack' = <<f>>
      BY <2>3, <3>2
    <3>. QED  BY <2>1, <3>1, <3>2
  <2>6. deferredRaw' \in Seq(RawType) /\ ticking' \in {"no", "classic", "raw"}
    BY <1>2, <2>1
  <2>7. Inv'
    BY <1>1, <2>2, <2>4, <2>5, <2>6, StackStep
  <2>. QED  BY <1>1, <2>1, <2>2, <2>3, <2>5, <2>7 DEF HeldInv
<1>5. CASE TickRaw
  <2>. DEFINE r == Head(deferredRaw)
  <2>1. /\ deferredRaw # <<>> /\ deferredRaw' = Tail(deferredRaw) /\ stack' = Begun(r.event, r.arg)
        /\ UNCHANGED <<deferredClassic, ticking>>
    BY <1>5 DEF TickRaw
  <2>2. r \in RawType /\ deferredRaw' \in Seq(RawType)
    BY <1>2, <2>1, HeadTailProperties
  <2>. HIDE DEF r
  <2>3. /\ stack' \in Seq(FrameType) /\ \A k \in DOMAIN stack' : FrameSound(stack'[k])
        /\ \A k \in DOMAIN stack' : stack'[k].at \in Live
    <3>1. r.event \in Events /\ r.arg \in Args
      BY <2>2 DEF RawType
    <3>2. CASE stack' = stack
      BY <1>1, <1>2, <3>2
    <3>3. ASSUME NEW f \in FrameType, stack' = Append(stack, f), FrameSound(f), f.at \in Live
          PROVE  <2>3!:
      <4>1. stack' = <<f>>
        BY <1>1, <3>3
      <4>. QED  BY <3>3, <4>1
    <3>. QED  BY <2>1, <3>1, <3>2, <3>3, BegunIsSound
  <2>4. Inv'
    BY <1>1, <1>2, <2>1, <2>2, <2>3, StackStep DEF TypeOK, Inv
  <2>. QED  BY <1>1, <2>1, <2>3, <2>4 DEF HeldInv
<1>. QED  BY <1>3, <1>4, <1>5

-----------------------------------------------------------------------------
(* Erasing handlers *)

EraseBy(erased, touched) ==
  /\ callbacks' = Without(erased)
  /\ node' = NodesKept(Live \ erased)
  /\ inUse' = InUseAfter(erased, touched)
  /\ removeList' = <<>>
  /\ UNCHANGED <<deferredClassic, deferredRaw, stack>>

LEMMA EraseKeeps ==
  ASSUME Inv, stack = <<>>, NEW erased, NEW touched, EraseBy(erased, touched),
         ErasedByList \subseteq erased, ticking' \in {"no", "classic", "raw"},
         \A e \in Events : \A n \in ToSet(callbacks[e]) : n \in erased => e \in touched
  PROVE  Inv' /\ (deferredClassic = <<>> => HeldInv')
<1>. TypeOK /\ PlacesInv /\ OrderInv /\ RemoveInv /\ NoDuplicates /\ InUseIffHandled
  BY DEF Inv, ListInv
<1>1. ASSUME NEW e \in Events
      PROVE  /\ callbacks'[e] \in Seq(Nodes) /\ DOMAIN callbacks'[e] \subseteq Nat
             /\ DOMAIN callbacks[e] \subseteq Nat
             /\ \A a \in DOMAIN callbacks'[e] :
                  /\ callbacks'[e][a] \in Nodes \ erased
                  /\ \E p \in DOMAIN callbacks[e] : callbacks[e][p] = callbacks'[e][a]
             /\ \A p \in DOMAIN callbacks[e] : callbacks[e][p] \notin erased =>
                  \E a \in DOMAIN callbacks'[e] : callbacks'[e][a] = callbacks[e][p]
             /\ \A a, b \in DOMAIN callbacks'[e] : a < b =>
                  \E p, q \in DOMAIN callbacks[e] :
                    /\ p < q
                    /\ callbacks[e][p] = callbacks'[e][a] /\ callbacks[e][q] = callbacks'[e][b]
  <2>. DEFINE s == callbacks[e]
              S == Nodes \ erased
              t == callbacks'[e]
  <2>1. t = Only(s, S) /\ s \in Seq(Nodes) /\ DOMAIN s = 1 .. Len(s) /\ Len(s) \in Nat
        /\ \A p \in DOMAIN s : s[p] \in Nodes
    BY Types DEF EraseBy, Without
  <2>. HIDE DEF s, S
  <2>2. t \in Seq(Nodes) /\ InOrder(t, s, S)
    BY <2>1, OnlyInOrder
  <2>3. \A p \in DOMAIN s : s[p] \in S <=> s[p] \notin erased
    BY <2>1 DEF S
  <2>. HIDE DEF t
  <2>4. /\ t \in Seq(Nodes)
        /\ \A a \in DOMAIN t : t[a] \in S /\ \E p \in DOMAIN s : s[p] = t[a]
        /\ \A p \in DOMAIN s : s[p] \notin erased => \E a \in DOMAIN t : t[a] = s[p]
        /\ \A a, b \in DOMAIN t : a < b =>
             \E p, q \in DOMAIN s : p < q /\ s[p] = t[a] /\ s[q] = t[b]
    BY <2>2, <2>3 DEF InOrder
  <2>5. DOMAIN t \subseteq Nat /\ DOMAIN s \subseteq Nat
    BY <2>1, <2>4, LenProperties
  <2>. QED  BY <2>4, <2>5 DEF s, S, t
<1>2. \A n \in Nodes : n \in Live /\ n \notin erased =>
        /\ node'[n].func = node[n].func /\ node'[n].filter = node[n].filter
        /\ node'[n].prio = node[n].prio
  BY DEF EraseBy, NodesKept, TypeOK
<1>3. \A n \in Nodes : ~node'[n].pending /\ ~node'[n].removed
  <2>. SUFFICES ASSUME NEW n \in Nodes PROVE ~node'[n].pending /\ ~node'[n].removed
    OBVIOUS
  <2>1. CASE n \in Live \ erased
    <3>1. node'[n] = [node[n] EXCEPT !.pending = FALSE] /\ node[n] \in NodeType
      BY <2>1, Types DEF EraseBy, NodesKept
    <3>2. ~node[n].removed
      BY <2>1 DEF RemoveInv, ErasedByList
    <3>. QED  BY <3>1, <3>2 DEF NodeType
  <2>2. CASE n \notin Live \ erased
    BY <2>2 DEF EraseBy, NodesKept, NoNode
  <2>. QED  BY <2>1, <2>2
<1>4. \A e \in Events : \A a \in DOMAIN callbacks'[e] :
        LET n == callbacks'[e][a] IN
        /\ n \in Nodes /\ n \notin erased /\ n \in ToSet(callbacks[e]) /\ n \in Live
        /\ node'[n].func = node[n].func /\ node'[n].filter = node[n].filter
        /\ node'[n].prio = node[n].prio
  <2>. SUFFICES ASSUME NEW e \in Events, NEW a \in DOMAIN callbacks'[e]
                PROVE  LET n == callbacks'[e][a] IN
                       /\ n \in Nodes /\ n \notin erased /\ n \in ToSet(callbacks[e]) /\ n \in Live
                       /\ node'[n].func = node[n].func /\ node'[n].filter = node[n].filter
                       /\ node'[n].prio = node[n].prio
    OBVIOUS
  <2>. DEFINE n == callbacks'[e][a]
  <2>1. n \in Nodes /\ n \notin erased /\ n \in ToSet(callbacks[e])
    BY <1>1 DEF ToSet
  <2>2. n \in Live
    BY <2>1, Types
  <2>. QED  BY <1>2, <2>1, <2>2
<1>5. TypeOK'
  <2>1. callbacks' \in [Events -> Seq(Nodes)]
    <3>1. callbacks' = [e \in Events |-> callbacks'[e]]
      BY DEF EraseBy, Without
    <3>. QED  BY <1>1, <3>1
  <2>2. node' \in [Nodes -> NodeType]
    <3>1. NoNode \in NodeType
      BY DEF NoNode, NodeType
    <3>2. \A n \in Nodes : [node[n] EXCEPT !.pending = FALSE] \in NodeType
      BY Types DEF NodeType
    <3>3. node' = [n \in Nodes |-> IF n \in Live \ erased THEN [node[n] EXCEPT !.pending = FALSE]
                                   ELSE NoNode]
      BY DEF EraseBy, NodesKept
    <3>. QED  BY <3>1, <3>2, <3>3
  <2>3. /\ inUse' \subseteq Events /\ removeList' = <<>>
        /\ UNCHANGED <<deferredClassic, deferredRaw, stack>>
    BY DEF EraseBy, InUseAfter, TypeOK
  <2>. QED  BY <2>1, <2>2, <2>3 DEF TypeOK, NodeType
<1>6. PlacesInv'
  <2>. SUFFICES ASSUME NEW e \in Events, NEW d \in Events, NEW a \in DOMAIN callbacks'[e],
                       NEW b \in DOMAIN callbacks'[d], callbacks'[e][a] = callbacks'[d][b]
                PROVE  e = d /\ a = b
    BY DEF PlacesInv
  <2>1. e = d
    BY <1>1 DEF PlacesInv
  <2>2. ASSUME NEW x \in DOMAIN callbacks'[e], NEW y \in DOMAIN callbacks'[e], x < y
        PROVE  callbacks'[e][x] # callbacks'[e][y]
    <3>1. PICK p \in DOMAIN callbacks[e], q \in DOMAIN callbacks[e] :
            p < q /\ callbacks[e][p] = callbacks'[e][x] /\ callbacks[e][q] = callbacks'[e][y]
      BY <1>1, <2>2
    <3>2. p # q
      BY <1>1, <3>1
    <3>. QED  BY <3>1, <3>2 DEF PlacesInv
  <2>3. a \in Nat /\ b \in Nat
    BY <1>1
  <2>4. a < b \/ b < a \/ a = b
    BY <2>3
  <2>. QED  BY <2>1, <2>2, <2>4
<1>7. OrderInv'
  <2>. SUFFICES ASSUME NEW e \in Events, NEW a \in DOMAIN callbacks'[e],
                       NEW b \in DOMAIN callbacks'[e], a < b
                PROVE  node'[callbacks'[e][a]].prio >= node'[callbacks'[e][b]].prio
    BY DEF OrderInv
  <2>1. PICK p \in DOMAIN callbacks[e], q \in DOMAIN callbacks[e] :
          p < q /\ callbacks[e][p] = callbacks'[e][a] /\ callbacks[e][q] = callbacks'[e][b]
    BY <1>1
  <2>2. node[callbacks[e][p]].prio >= node[callbacks[e][q]].prio
    BY <2>1 DEF OrderInv
  <2>. QED  BY <1>4, <2>1, <2>2
<1>8. RemoveInv'
  <2>1. removeList' = <<>> /\ DOMAIN removeList' = {}
    BY DEF EraseBy
  <2>. QED  BY <1>3, <2>1 DEF RemoveInv
<1>9. NoDuplicates'
  <2>. DEFINE H(n) == <<node[n].func, node[n].filter, node[n].prio>>
  <2>. SUFFICES ASSUME NEW e \in Events, NEW a \in DOMAIN callbacks'[e],
                       NEW b \in DOMAIN callbacks'[e],
                       node'[callbacks'[e][a]].func = node'[callbacks'[e][b]].func,
                       node'[callbacks'[e][a]].filter = node'[callbacks'[e][b]].filter,
                       node'[callbacks'[e][a]].prio = node'[callbacks'[e][b]].prio
                PROVE  a = b
    BY DEF NoDuplicates
  <2>1. H(callbacks'[e][a]) = H(callbacks'[e][b])
    BY <1>4
  <2>2. PICK p \in DOMAIN callbacks[e] : callbacks[e][p] = callbacks'[e][a]
    BY <1>1
  <2>3. PICK q \in DOMAIN callbacks[e] : callbacks[e][q] = callbacks'[e][b]
    BY <1>1
  <2>4. p = q
    BY <2>1, <2>2, <2>3 DEF NoDuplicates
  <2>. QED  BY <1>6, <2>2, <2>3, <2>4 DEF PlacesInv
<1>10. InUseIffHandled'
  <2>. SUFFICES ASSUME NEW e \in Events PROVE e \in inUse' <=> callbacks'[e] # <<>>
    BY DEF InUseIffHandled
  <2>0. \A s \in Seq(Nodes) : s = <<>> <=> \A k \in DOMAIN s : FALSE
    <3>. SUFFICES ASSUME NEW s \in Seq(Nodes) PROVE s = <<>> <=> \A k \in DOMAIN s : FALSE
      OBVIOUS
    <3>1. DOMAIN s = 1 .. Len(s) /\ (s # <<>> => Len(s) \in Nat \ {0})
      BY LenProperties, EmptySeq
    <3>2. s # <<>> => 1 \in DOMAIN s
      BY <3>1
    <3>. QED  BY <3>2
  <2>1. callbacks'[e] = <<>> <=> ToSet(callbacks[e]) \subseteq erased
    BY <1>1, <2>0 DEF ToSet
  <2>2. callbacks[e] = <<>> => ToSet(callbacks[e]) = {}
    BY DEF ToSet
  <2>3. e \in inUse <=> callbacks[e] # <<>>
    BY DEF InUseIffHandled
  <2>4. callbacks[e] # <<>> /\ ToSet(callbacks[e]) \subseteq erased => e \in touched
    <3>1. callbacks[e] # <<>> => \E n \in ToSet(callbacks[e]) : TRUE
      <4>1. callbacks[e] \in Seq(Nodes)
        BY Types
      <4>. QED  BY <2>0, <4>1 DEF ToSet
    <3>. QED  BY <3>1
  <2>5. e \in inUse' <=> e \in inUse /\ ~(e \in touched /\ ToSet(callbacks[e]) \subseteq erased)
    BY DEF EraseBy, InUseAfter
  <2>. QED  BY <2>1, <2>2, <2>3, <2>4, <2>5
<1>11. FramesInv'
  BY DEF FramesInv, EraseBy
<1>12. deferredClassic = <<>> => HeldInv'
  BY DEF HeldInv, EraseBy
<1>. QED  BY <1>5, <1>6, <1>7, <1>8, <1>9, <1>10, <1>11, <1>12 DEF Inv, ListInv

LEMMA TickEndKeeps ==
  ASSUME Inv, TickEnd
  PROVE  Inv' /\ (HeldInv => HeldInv')
<1>. DEFINE touched == {removeList[i].event : i \in DOMAIN removeList}
<1>1. /\ stack = <<>> /\ EraseBy(ErasedByList, touched) /\ ticking' = "no" /\ ticking = "raw"
  BY DEF TickEnd, EraseBy
<1>2. \A e \in Events : \A n \in ToSet(callbacks[e]) : n \in ErasedByList => e \in touched
  <2>. SUFFICES ASSUME NEW e \in Events, NEW n \in ToSet(callbacks[e]), n \in ErasedByList
                PROVE  e \in touched
    OBVIOUS
  <2>1. PICK i \in DOMAIN removeList : removeList[i].node = n
    BY DEF ErasedByList
  <2>2. removeList[i].event \in Events /\ n \in ToSet(callbacks[removeList[i].event])
    BY <2>1, Types DEF Inv, ListInv, RemoveInv, RemovalType
  <2>3. removeList[i].event = e
    BY <2>2 DEF ToSet, Inv, ListInv, PlacesInv
  <2>. QED  BY <2>3
<1>. HIDE DEF touched
<1>3. Inv' /\ (deferredClassic = <<>> => HeldInv')
  BY <1>1, <1>2, EraseKeeps
<1>. QED  BY <1>1, <1>3 DEF HeldInv

LEMMA LoadKeeps ==
  ASSUME Inv, ClearFlushOnLoadEventHandlers
  PROVE  Inv' /\ (~LoadWhileDeferred => HeldInv')
<1>. DEFINE erased == ErasedByList \cup Flushed
<1>1. /\ stack = <<>> /\ EraseBy(erased, Events) /\ ticking' = ticking
      /\ deferredClassic = <<>> \/ LoadWhileDeferred
  BY DEF ClearFlushOnLoadEventHandlers, EraseBy, Idle
<1>2. ErasedByList \subseteq erased /\ ticking \in {"no", "classic", "raw"}
  BY DEF Inv, TypeOK
<1>. HIDE DEF erased
<1>. QED  BY <1>1, <1>2, EraseKeeps

-----------------------------------------------------------------------------
(* Setting and removing handlers *)

LEMMA FlagsKeep ==
  ASSUME Inv, UNCHANGED <<callbacks, inUse>>, node' \in [Nodes -> NodeType],
         \A n \in Nodes : /\ node'[n].func = node[n].func /\ node'[n].filter = node[n].filter
                          /\ node'[n].prio = node[n].prio
  PROVE  PlacesInv' /\ OrderInv' /\ NoDuplicates' /\ InUseIffHandled' /\ Live' = Live
<1>1. PlacesInv' /\ InUseIffHandled' /\ Live' = Live
  BY DEF Inv, ListInv, PlacesInv, InUseIffHandled, Live
<1>2. \A e \in Events : \A i \in DOMAIN callbacks[e] : callbacks[e][i] \in Nodes
  BY Types DEF Inv
<1>3. OrderInv'
  BY <1>2 DEF Inv, ListInv, OrderInv
<1>4. NoDuplicates'
  <2>. SUFFICES ASSUME NEW e \in Events, NEW i \in DOMAIN callbacks[e],
                       NEW j \in DOMAIN callbacks[e],
                       node'[callbacks[e][i]].func = node'[callbacks[e][j]].func,
                       node'[callbacks[e][i]].filter = node'[callbacks[e][j]].filter,
                       node'[callbacks[e][i]].prio = node'[callbacks[e][j]].prio
                PROVE  i = j
    BY DEF NoDuplicates
  <2>1. NoDuplicates
    BY DEF Inv, ListInv
  <2>. QED  BY <1>2, <2>1 DEF NoDuplicates
<1>. QED  BY <1>1, <1>3, <1>4

(* An equal handler is set again: it is no longer removed. *)
LEMMA SetAgainKeeps ==
  ASSUME Inv, NEW same, UNCHANGED <<callbacks, inUse, lists, stack, ticking>>,
         node' = [n \in Nodes |-> IF n \in same
                    THEN [node[n] EXCEPT !.removed = FALSE] ELSE node[n]]
  PROVE  Inv' /\ (HeldInv => HeldInv')
<1>1. TypeOK /\ RemoveInv /\ FramesInv
  BY DEF Inv, ListInv
<1>2. \A n \in Nodes : /\ node[n] \in NodeType /\ node'[n] \in NodeType
                       /\ node'[n].func = node[n].func /\ node'[n].filter = node[n].filter
                       /\ node'[n].prio = node[n].prio /\ node'[n].pending = node[n].pending
                       /\ node'[n].removed => node[n].removed
  <2>. SUFFICES ASSUME NEW n \in Nodes
                PROVE  /\ node[n] \in NodeType /\ node'[n] \in NodeType
                       /\ node'[n].func = node[n].func /\ node'[n].filter = node[n].filter
                       /\ node'[n].prio = node[n].prio /\ node'[n].pending = node[n].pending
                       /\ node'[n].removed => node[n].removed
    OBVIOUS
  <2>1. node[n] \in NodeType
    BY <1>1, Types
  <2>2. node'[n] = [node[n] EXCEPT !.removed = FALSE] \/ node'[n] = node[n]
    OBVIOUS
  <2>. QED  BY <2>1, <2>2 DEF NodeType
<1>3. node' \in [Nodes -> NodeType]
  <2>1. node' = [n \in Nodes |-> node'[n]]
    OBVIOUS
  <2>. QED  BY <1>2, <2>1
<1>4. PlacesInv' /\ OrderInv' /\ NoDuplicates' /\ InUseIffHandled' /\ Live' = Live
  BY <1>2, <1>3, FlagsKeep
<1>5. TypeOK'
  BY <1>1, <1>3 DEF TypeOK, NodeType, lists
<1>6. RemoveInv'
  BY <1>1, <1>2 DEF RemoveInv, lists
<1>7. FramesInv'
  <2>1. \A k \in DOMAIN stack : stack[k] \in FrameType
    BY <1>1, Types
  <2>2. \A k \in DOMAIN stack : \A m \in stack[k].owed :
          Matches(m, stack[k].arg) => Matches(m, stack[k].arg)'
    BY <1>2, <2>1 DEF Matches, FrameType
  <2>3. \A e \in Events : \A m, n : Before(e, m, n) => Before(e, m, n)'
    BY DEF Before
  <2>. QED  BY <1>1, <2>1, <2>2, <2>3 DEF FramesInv, FrameSound, FrameType
<1>8. HeldInv => HeldInv'
  BY <1>4 DEF HeldInv, lists
<1>. QED  BY <1>4, <1>5, <1>6, <1>7, <1>8 DEF Inv, ListInv

(* Where the entries of the removal list come from. *)
LEMMA ListedIsNew ==
  ASSUME Inv, NEW e \in Events, NEW gone, gone \subseteq ToSet(callbacks[e]),
         removeList' = removeList \o Listed(e, gone)
  PROVE  /\ removeList' \in Seq(RemovalType) /\ Len(removeList) \in Nat
         /\ DOMAIN removeList = 1 .. Len(removeList) /\ DOMAIN removeList' \subseteq Nat
         /\ \A i \in DOMAIN removeList : i \in DOMAIN removeList' /\ removeList'[i] = removeList[i]
         /\ \A i \in DOMAIN removeList' : i > Len(removeList) =>
              /\ removeList'[i].event = e /\ removeList'[i].node \in gone
              /\ ~node[removeList'[i].node].pending
         /\ \A m \in gone : ~node[m].pending =>
              \E i \in DOMAIN removeList' : removeList'[i].node = m
         /\ \A i, j \in DOMAIN removeList' : Len(removeList) < i /\ i < j =>
              removeList'[i].node # removeList'[j].node
<1>. DEFINE s == callbacks[e]
            S == {m \in gone : ~node[m].pending}
            new == Only(s, S)
            add == Listed(e, gone)
            n == Len(removeList)
            k == Len(new)
            list == removeList'
<1>1. TypeOK /\ PlacesInv
  BY DEF Inv, ListInv
<1>2. s \in Seq(Nodes) /\ DOMAIN s \subseteq Nat
  BY <1>1, Types
<1>3. new \in Seq(Nodes) /\ InOrder(new, s, S)
  BY <1>2, OnlyInOrder
<1>4. add = [i \in DOMAIN new |-> [event |-> e, node |-> new[i]]]
  BY DEF Listed
<1>0. list = removeList \o add
  OBVIOUS
<1>. HIDE DEF new, add, list
<1>5. k \in Nat /\ DOMAIN new = 1 .. k /\ \A i \in 1 .. k : new[i] \in Nodes
  BY <1>3, LenProperties
<1>6. removeList \in Seq(RemovalType) /\ n \in Nat /\ DOMAIN removeList = 1 .. n
  BY <1>1, Types DEF TypeOK, RemovalType
<1>. HIDE DEF k, n
<1>7. add \in Seq(RemovalType) /\ Len(add) = k
      /\ \A i \in 1 .. k : add[i] = [event |-> e, node |-> new[i]]
  <2>1. \A i \in 1 .. k : [event |-> e, node |-> new[i]] \in RemovalType
    BY <1>5 DEF RemovalType
  <2>. QED  BY <1>4, <1>5, <2>1
<1>8. /\ list \in Seq(RemovalType) /\ DOMAIN list = 1 .. n + k
      /\ \A i \in 1 .. n + k : list[i] = IF i <= n THEN removeList[i] ELSE add[i - n]
  <2>1. /\ removeList \o add \in Seq(RemovalType) /\ Len(removeList \o add) = n + Len(add)
        /\ \A i \in 1 .. n + Len(add) :
             (removeList \o add)[i] = IF i <= n THEN removeList[i] ELSE add[i - n]
    BY <1>6, <1>7, ConcatProperties DEF n
  <2>. QED  BY <1>0, <1>7, <2>1, LenProperties
<1>9. \A i \in 1 .. n : i \in 1 .. n + k /\ list[i] = removeList[i]
  BY <1>5, <1>6, <1>8
<1>10. \A i \in 1 .. n + k : i > n =>
         i - n \in 1 .. k /\ list[i].event = e /\ list[i].node = new[i - n]
  <2>1. \A i \in 1 .. n + k : i > n => i - n \in 1 .. k /\ ~(i <= n)
    BY <1>5, <1>6
  <2>2. \A i \in 1 .. n + k : i > n => list[i] = add[i - n]
    BY <1>8, <2>1
  <2>3. \A i \in 1 .. k : add[i].event = e /\ add[i].node = new[i]
    BY <1>7
  <2>. QED  BY <2>1, <2>2, <2>3
<1>11. \A i \in 1 .. k : n + i \in 1 .. n + k /\ n + i > n /\ (n + i) - n = i
  BY <1>5, <1>6
<1>12. \A i \in DOMAIN list : i > n =>
         list[i].event = e /\ list[i].node \in gone /\ ~node[list[i].node].pending
  <2>1. \A i \in 1 .. k : new[i] \in S
    BY <1>3, <1>5 DEF InOrder
  <2>. QED  BY <1>8, <1>10, <2>1
<1>13. \A m \in gone : ~node[m].pending => \E i \in DOMAIN list : list[i].node = m
  <2>. SUFFICES ASSUME NEW m \in gone, ~node[m].pending
                PROVE  \E i \in DOMAIN list : list[i].node = m
    OBVIOUS
  <2>1. PICK p \in DOMAIN s : s[p] = m
    BY DEF ToSet
  <2>2. s[p] \in S
    BY <2>1
  <2>3. PICK a \in DOMAIN new : new[a] = m
    BY <1>3, <2>1, <2>2 DEF InOrder
  <2>4. a \in 1 .. k
    BY <1>5
  <2>5. n + a \in DOMAIN list /\ list[n + a].node = m
    BY <1>8, <1>10, <1>11, <2>3, <2>4
  <2>. QED  BY <2>5
<1>14. \A i, j \in DOMAIN list : n < i /\ i < j => list[i].node # list[j].node
  <2>. SUFFICES ASSUME NEW i \in DOMAIN list, NEW j \in DOMAIN list, n < i, i < j
                PROVE  list[i].node # list[j].node
    OBVIOUS
  <2>1. i \in 1 .. n + k /\ j \in 1 .. n + k /\ i > n /\ j > n /\ i - n < j - n
    BY <1>5, <1>6, <1>8
  <2>2. i - n \in DOMAIN new /\ j - n \in DOMAIN new /\ list[i].node = new[i - n]
        /\ list[j].node = new[j - n]
    BY <1>5, <1>10, <2>1
  <2>3. PICK p \in DOMAIN s, q \in DOMAIN s : p < q /\ s[p] = new[i - n] /\ s[q] = new[j - n]
    BY <1>3, <2>1, <2>2 DEF InOrder
  <2>4. p # q
    BY <1>2, <2>3
  <2>. QED  BY <1>1, <2>2, <2>3, <2>4 DEF PlacesInv
<1>15. DOMAIN list \subseteq Nat
  BY <1>5, <1>6, <1>8
<1>16. \A i \in DOMAIN removeList : i \in DOMAIN list /\ list[i] = removeList[i]
  BY <1>6, <1>8, <1>9
<1>. QED  BY <1>6, <1>8, <1>12, <1>13, <1>14, <1>15, <1>16 DEF n, list

LEMMA RemoveKeeps ==
  ASSUME Inv, NEW e \in Events, NEW f, NEW filter, NEW p, DoRemoveHandler(e, f, filter, p)
  PROVE  Inv' /\ (HeldInv => HeldInv')
<1>. DEFINE gone == Doomed(e, f, filter, p)
<1>1. TypeOK /\ RemoveInv /\ FramesInv
  BY DEF Inv, ListInv
<1>2. /\ node' = [n \in Nodes |-> IF n \in gone
                    THEN [node[n] EXCEPT !.removed = TRUE, !.pending = TRUE] ELSE node[n]]
      /\ removeList' = removeList \o Listed(e, gone)
      /\ stack' = [i \in DOMAIN stack |-> [stack[i] EXCEPT !.owed = @ \ gone]]
      /\ UNCHANGED <<callbacks, inUse, deferredClassic, deferredRaw, ticking>>
      /\ gone \subseteq ToSet(callbacks[e])
  BY DEF DoRemoveHandler, Doomed
<1>. HIDE DEF gone
<1>3. \A n \in Nodes : /\ node[n] \in NodeType /\ node'[n] \in NodeType
                       /\ node'[n].func = node[n].func /\ node'[n].filter = node[n].filter
                       /\ node'[n].prio = node[n].prio
                       /\ n \notin gone => node'[n] = node[n]
                       /\ n \in gone => node'[n].removed /\ node'[n].pending
  <2>. SUFFICES ASSUME NEW n \in Nodes
                PROVE  /\ node[n] \in NodeType /\ node'[n] \in NodeType
                       /\ node'[n].func = node[n].func /\ node'[n].filter = node[n].filter
                       /\ node'[n].prio = node[n].prio
                       /\ n \notin gone => node'[n] = node[n]
                       /\ n \in gone => node'[n].removed /\ node'[n].pending
    OBVIOUS
  <2>1. node[n] \in NodeType
    BY <1>1, Types
  <2>2. /\ n \in gone => node'[n] = [node[n] EXCEPT !.removed = TRUE, !.pending = TRUE]
        /\ n \notin gone => node'[n] = node[n]
    BY <1>2
  <2>. QED  BY <2>1, <2>2 DEF NodeType
<1>4. node' \in [Nodes -> NodeType]
  <2>1. node' = [n \in Nodes |-> node'[n]]
    BY <1>2
  <2>. QED  BY <1>3, <2>1
<1>5. PlacesInv' /\ OrderInv' /\ NoDuplicates' /\ InUseIffHandled' /\ Live' = Live
  BY <1>2, <1>3, <1>4, FlagsKeep
<1>. DEFINE n == Len(removeList)
<1>6. /\ DOMAIN removeList = 1 .. n /\ n \in Nat /\ DOMAIN removeList' \subseteq Nat
      /\ \A i \in DOMAIN removeList : i \in DOMAIN removeList' /\ removeList'[i] = removeList[i]
      /\ \A i \in DOMAIN removeList' : i > n =>
           /\ removeList'[i].event = e /\ removeList'[i].node \in gone
           /\ ~node[removeList'[i].node].pending
      /\ \A m \in gone : ~node[m].pending => \E i \in DOMAIN removeList' : removeList'[i].node = m
      /\ \A i, j \in DOMAIN removeList' : n < i /\ i < j =>
           removeList'[i].node # removeList'[j].node
  BY <1>2, ListedIsNew
<1>7. removeList' \in Seq(RemovalType)
  BY <1>2, ListedIsNew
<1>. HIDE DEF n
<1>8. \A i \in DOMAIN removeList' :
        \/ i \in DOMAIN removeList /\ removeList'[i] = removeList[i]
        \/ /\ i \notin DOMAIN removeList /\ i > n
           /\ removeList'[i].event = e /\ removeList'[i].node \in gone
           /\ ~node[removeList'[i].node].pending
  <2>. SUFFICES ASSUME NEW i \in DOMAIN removeList' , ~(i \in 1 .. n)
                PROVE  i > n
    BY <1>6
  <2>0. i \in Nat /\ i \in 1 .. Len(removeList')
    BY <1>6, <1>7, LenProperties
  <2>1. n \in Nat
    BY <1>6
  <2>. QED  BY <2>0, <2>1
<1>9. \A i \in DOMAIN removeList' : removeList'[i] \in RemovalType
  BY <1>7, LenProperties, ElementOfSeq
<1>10. RemoveInv'
  <2>1. ASSUME NEW i \in DOMAIN removeList'
        PROVE  removeList'[i].node \in ToSet(callbacks[removeList'[i].event])
    BY <1>1, <1>2, <1>8 DEF RemoveInv
  <2>2. ASSUME NEW m \in Nodes
        PROVE  node'[m].pending <=> \E i \in DOMAIN removeList' : removeList'[i].node = m
    <3>1. node[m].pending <=> \E i \in DOMAIN removeList : removeList[i].node = m
      BY <1>1 DEF RemoveInv
    <3>2. CASE m \in gone
      <4>1. \E i \in DOMAIN removeList' : removeList'[i].node = m
        BY <1>6, <3>1, <3>2
      <4>. QED  BY <1>3, <3>2, <4>1
    <3>3. CASE m \notin gone
      <4>1. node'[m].pending <=> node[m].pending
        BY <1>3, <3>3
      <4>. QED  BY <1>6, <1>8, <3>1, <3>3, <4>1
    <3>. QED  BY <3>2, <3>3
  <2>3. ASSUME NEW i \in DOMAIN removeList', NEW j \in DOMAIN removeList',
               removeList'[i].node = removeList'[j].node
        PROVE  i = j
    <3>. DEFINE m == removeList'[i].node
    <3>0. m \in Nodes /\ removeList'[j].node = m
      BY <1>9, <2>3 DEF RemovalType
    <3>1. i \in DOMAIN removeList => node[m].pending
      BY <1>1, <1>6, <3>0 DEF RemoveInv
    <3>2. j \in DOMAIN removeList => node[m].pending
      BY <1>1, <1>6, <3>0 DEF RemoveInv
    <3>3. CASE i \in DOMAIN removeList /\ j \in DOMAIN removeList
      BY <1>1, <1>6, <2>3, <3>3 DEF RemoveInv
    <3>4. CASE i \notin DOMAIN removeList /\ j \notin DOMAIN removeList
      <4>1. n < i /\ n < j /\ i \in Nat /\ j \in Nat
        BY <1>6, <1>8, <3>4
      <4>2. ~(i < j) /\ ~(j < i)
        BY <1>6, <2>3, <4>1
      <4>. QED  BY <4>1, <4>2
    <3>5. CASE i \in DOMAIN removeList /\ j \notin DOMAIN removeList
      BY <1>8, <3>0, <3>1, <3>5
    <3>6. CASE i \notin DOMAIN removeList /\ j \in DOMAIN removeList
      BY <1>8, <3>0, <3>2, <3>6
    <3>. QED  BY <3>3, <3>4, <3>5, <3>6
  <2>4. ASSUME NEW m \in Nodes, node'[m].removed
        PROVE  node'[m].pending
    BY <1>1, <1>3, <2>4 DEF RemoveInv
  <2>. QED  BY <1>2, <2>1, <2>2, <2>3, <2>4 DEF RemoveInv
<1>11. /\ stack' \in Seq(FrameType) /\ DOMAIN stack' = DOMAIN stack
       /\ \A k \in DOMAIN stack :
            /\ stack[k] \in FrameType /\ stack'[k].kind = stack[k].kind
            /\ stack'[k].event = stack[k].event /\ stack'[k].arg = stack[k].arg
            /\ stack'[k].at = stack[k].at /\ stack'[k].owed = stack[k].owed \ gone
            /\ stack[k].owed \subseteq Nodes
  <2>1. DOMAIN stack = 1 .. Len(stack) /\ Len(stack) \in Nat
        /\ \A k \in DOMAIN stack : stack[k] \in FrameType
    BY <1>1, Types
  <2>2. \A k \in DOMAIN stack : stack'[k] = [stack[k] EXCEPT !.owed = stack[k].owed \ gone]
    BY <1>2
  <2>3. ASSUME NEW k \in DOMAIN stack
        PROVE
            /\ stack'[k] \in FrameType /\ stack'[k].kind = stack[k].kind
            /\ stack'[k].event = stack[k].event /\ stack'[k].arg = stack[k].arg
            /\ stack'[k].at = stack[k].at /\ stack'[k].owed = stack[k].owed \ gone
            /\ stack[k].owed \subseteq Nodes
    <3>1. stack[k] \in FrameType /\ stack'[k] = [stack[k] EXCEPT !.owed = stack[k].owed \ gone]
      BY <2>1, <2>2
    <3>. QED  BY <3>1 DEF FrameType
  <2>4. stack' = [k \in 1 .. Len(stack) |-> stack'[k]]
    BY <1>2, <2>1
  <2>. QED  BY <2>1, <2>3, <2>4
<1>12. FramesInv'
  <2>. SUFFICES ASSUME NEW k \in DOMAIN stack PROVE FrameSound(stack[k])'
    BY <1>11 DEF FramesInv
  <2>1. FrameSound(stack[k])
    BY <1>1 DEF FramesInv
  <2>2. ASSUME NEW m \in stack'[k].owed
        PROVE  Matches(m, stack[k].arg)' /\ Before(stack[k].event, stack[k].at, m)'
    <3>1. m \in stack[k].owed /\ m \notin gone /\ m \in Nodes
      BY <1>11, <2>2
    <3>2. Matches(m, stack[k].arg) /\ Before(stack[k].event, stack[k].at, m)
      BY <2>1, <3>1 DEF FrameSound
    <3>3. node'[m] = node[m]
      BY <1>3, <3>1
    <3>4. callbacks' = callbacks
      BY <1>2
    <3>5. stack'[k].arg = stack[k].arg /\ stack'[k].event = stack[k].event
          /\ stack'[k].at = stack[k].at
      BY <1>11
    <3>. QED  BY <3>2, <3>3, <3>4, <3>5 DEF Matches, Before
  <2>3. /\ stack'[k].kind = "single" => stack'[k].owed = {}
        /\ stack'[k].kind = "all" => stack'[k].at \in ToSet(callbacks'[stack'[k].event])
    BY <1>2, <1>11, <2>1 DEF FrameSound
  <2>. QED  BY <2>2, <2>3 DEF FrameSound
<1>13. TypeOK'
  BY <1>1, <1>2, <1>4, <1>7, <1>11 DEF TypeOK, NodeType, RemovalType, FrameType
<1>14. HeldInv => HeldInv'
  <2>1. \A k \in DOMAIN stack' : k \in DOMAIN stack /\ stack'[k].at = stack[k].at
    BY <1>11
  <2>2. UNCHANGED <<deferredClassic, ticking>> /\ Live' = Live
    BY <1>2, <1>5
  <2>. QED  BY <2>1, <2>2 DEF HeldInv
<1>. QED  BY <1>5, <1>10, <1>12, <1>13, <1>14 DEF Inv, ListInv

(***************************************************************************)
(* emplace puts node n after the handlers of its priority and the greater  *)
(* ones, and leaves those that were there in their order.                  *)
(***************************************************************************)
Place(t, s, n, p) ==
  /\ t \in Seq(Nodes) /\ DOMAIN t \subseteq Nat
  /\ \A a \in DOMAIN t : t[a] = n \/ \E i \in DOMAIN s : s[i] = t[a]
  /\ \A i \in DOMAIN s : \E a \in DOMAIN t : t[a] = s[i]
  /\ \E a \in DOMAIN t : t[a] = n
  /\ \A a, b \in DOMAIN t : a < b =>
       \/ \E i, j \in DOMAIN s : i < j /\ s[i] = t[a] /\ s[j] = t[b]
       \/ t[b] = n /\ \E i \in DOMAIN s : s[i] = t[a] /\ node[t[a]].prio >= p
       \/ t[a] = n /\ \E j \in DOMAIN s : s[j] = t[b] /\ node[t[b]].prio < p

LEMMA InsertedIsPlaced ==
  ASSUME Inv, NEW e \in Events, NEW n \in Nodes, NEW p \in Int
  PROVE  Place(Inserted(e, n, p), callbacks[e], n, p)
<1>. DEFINE s == callbacks[e]
            SA == {m \in Nodes : node[m].prio >= p}
            SB == {m \in Nodes : node[m].prio < p}
            A == Only(s, SA)
            B == Only(s, SB)
            t == Inserted(e, n, p)
            k == Len(A)
            l == Len(B)
<1>1. TypeOK /\ OrderInv
  BY DEF Inv, ListInv
<1>2. s \in Seq(Nodes) /\ DOMAIN s \subseteq Nat /\ \A i \in DOMAIN s : s[i] \in Nodes
  BY <1>1, Types
<1>3. A \in Seq(Nodes) /\ InOrder(A, s, SA) /\ B \in Seq(Nodes) /\ InOrder(B, s, SB)
  BY <1>2, OnlyInOrder
<1>4. t = Around(A, n, B)
  BY DEF Inserted, Around
<1>5. \A m \in Nodes : /\ node[m].prio \in Int
                       /\ m \in SA <=> node[m].prio >= p
                       /\ m \in SB <=> node[m].prio < p
                       /\ m \in SA \/ m \in SB
  BY <1>1, Types
<1>. HIDE DEF SA, SB, A, B, s, t
<1>6. /\ t \in Seq(Nodes) /\ k \in Nat /\ l \in Nat
      /\ DOMAIN A = 1 .. k /\ DOMAIN B = 1 .. l /\ DOMAIN t = 1 .. k + 1 + l
      /\ \A i \in 1 .. k : t[i] = A[i]
      /\ t[k + 1] = n
      /\ \A i \in 1 .. l : t[k + 1 + i] = B[i]
  <2>1. t \in Seq(Nodes) /\ Surrounds(t, A, n, B)
    BY <1>3, <1>4, AroundProperties
  <2>. QED  BY <2>1 DEF Surrounds
<1>7. /\ \A i \in DOMAIN A : A[i] \in SA /\ \E j \in DOMAIN s : s[j] = A[i]
      /\ \A j \in DOMAIN s : s[j] \in SA => \E i \in DOMAIN A : A[i] = s[j]
      /\ \A a, b \in DOMAIN A : a < b => \E i, j \in DOMAIN s : i < j /\ s[i] = A[a] /\ s[j] = A[b]
  BY <1>3, <1>6 DEF InOrder
<1>8. /\ \A i \in DOMAIN B : B[i] \in SB /\ \E j \in DOMAIN s : s[j] = B[i]
      /\ \A j \in DOMAIN s : s[j] \in SB => \E i \in DOMAIN B : B[i] = s[j]
      /\ \A a, b \in DOMAIN B : a < b => \E i, j \in DOMAIN s : i < j /\ s[i] = B[a] /\ s[j] = B[b]
  BY <1>3, <1>6 DEF InOrder
<1>. HIDE DEF k, l
<1>9. ASSUME NEW a \in DOMAIN t
      PROVE  \/ a \in DOMAIN A /\ t[a] = A[a]
             \/ a = k + 1 /\ t[a] = n
             \/ a > k + 1 /\ a - (k + 1) \in DOMAIN B /\ t[a] = B[a - (k + 1)]
  <2>0. k \in Nat /\ l \in Nat /\ a \in 1 .. k + 1 + l
    BY <1>6
  <2>3. \/ a \in 1 .. k
        \/ a = k + 1
        \/ a > k + 1 /\ a - (k + 1) \in 1 .. l /\ k + 1 + (a - (k + 1)) = a
    BY <2>0
  <2>1. \/ a \in DOMAIN A
        \/ a = k + 1
        \/ a > k + 1 /\ a - (k + 1) \in DOMAIN B /\ k + 1 + (a - (k + 1)) = a
    BY <1>6, <2>3
  <2>2. ASSUME a > k + 1, a - (k + 1) \in DOMAIN B, k + 1 + (a - (k + 1)) = a
        PROVE  t[a] = B[a - (k + 1)]
    <3>. DEFINE i == a - (k + 1)
    <3>1. i \in DOMAIN B /\ k + 1 + i = a
      BY <2>2
    <3>. HIDE DEF i
    <3>2. t[a] = B[i]
      BY <1>6, <3>1
    <3>. QED  BY <3>2 DEF i
  <2>. QED  BY <1>6, <2>1, <2>2
<1>10. \A a \in DOMAIN t : t[a] = n \/ \E i \in DOMAIN s : s[i] = t[a]
  BY <1>7, <1>8, <1>9
<1>11. \A i \in DOMAIN s : \E a \in DOMAIN t : t[a] = s[i]
  <2>. SUFFICES ASSUME NEW i \in DOMAIN s PROVE \E a \in DOMAIN t : t[a] = s[i]
    OBVIOUS
  <2>1. CASE s[i] \in SA
    <3>1. PICK a \in DOMAIN A : A[a] = s[i]
      BY <1>7, <2>1
    <3>2. a \in DOMAIN t /\ t[a] = s[i]
      BY <1>6, <3>1
    <3>. QED  BY <3>2
  <2>2. CASE s[i] \in SB
    <3>1. PICK b \in DOMAIN B : B[b] = s[i]
      BY <1>8, <2>2
    <3>2. b \in 1 .. l /\ k \in Nat /\ l \in Nat
      BY <1>6
    <3>3. k + 1 + b \in 1 .. k + 1 + l
      BY <3>2
    <3>4. k + 1 + b \in DOMAIN t /\ t[k + 1 + b] = s[i]
      BY <1>6, <3>1, <3>2, <3>3
    <3>. QED  BY <3>4
  <2>. QED  BY <1>2, <1>5, <2>1, <2>2
<1>12. \E a \in DOMAIN t : t[a] = n
  <2>1. k + 1 \in DOMAIN t
    BY <1>6
  <2>. QED  BY <1>6, <2>1
<1>13. ASSUME NEW a \in DOMAIN t, NEW b \in DOMAIN t, a < b
       PROVE  \/ \E i, j \in DOMAIN s : i < j /\ s[i] = t[a] /\ s[j] = t[b]
              \/ t[b] = n /\ \E i \in DOMAIN s : s[i] = t[a] /\ node[t[a]].prio >= p
              \/ t[a] = n /\ \E j \in DOMAIN s : s[j] = t[b] /\ node[t[b]].prio < p
  <2>0. a \in Nat /\ b \in Nat /\ k \in Nat /\ l \in Nat
    BY <1>6
  <2>1. CASE a \in DOMAIN A /\ t[a] = A[a] /\ b \in DOMAIN A /\ t[b] = A[b]
    BY <1>7, <1>13, <2>1
  <2>2. CASE a \in DOMAIN A /\ t[a] = A[a] /\ b = k + 1 /\ t[b] = n
    <3>1. PICK i \in DOMAIN s : s[i] = A[a]
      BY <1>7, <2>2
    <3>2. node[A[a]].prio >= p
      BY <1>2, <1>5, <1>7, <2>2, <3>1
    <3>. QED  BY <2>2, <3>1, <3>2
  <2>3. CASE /\ a \in DOMAIN A /\ t[a] = A[a] /\ b - (k + 1) \in DOMAIN B
             /\ t[b] = B[b - (k + 1)]
    <3>1. PICK i \in DOMAIN s : s[i] = A[a]
      BY <1>7, <2>3
    <3>2. PICK j \in DOMAIN s : s[j] = B[b - (k + 1)]
      BY <1>8, <2>3
    <3>3. node[s[i]].prio >= p /\ node[s[j]].prio < p /\ node[s[i]].prio \in Int
          /\ node[s[j]].prio \in Int
      BY <1>2, <1>5, <1>7, <1>8, <2>3, <3>1, <3>2
    <3>4. ~(j < i) /\ j # i
      <4>1. j < i => node[s[j]].prio >= node[s[i]].prio
        BY <1>1 DEF OrderInv, s
      <4>. QED  BY <3>3, <4>1
    <3>5. i < j
      BY <1>2, <3>4
    <3>. QED  BY <2>3, <3>1, <3>2, <3>5
  <2>4. CASE a = k + 1 /\ t[a] = n /\ b - (k + 1) \in DOMAIN B /\ t[b] = B[b - (k + 1)]
    <3>1. PICK j \in DOMAIN s : s[j] = B[b - (k + 1)]
      BY <1>8, <2>4
    <3>2. node[s[j]].prio < p
      BY <1>2, <1>5, <1>8, <2>4, <3>1
    <3>. QED  BY <2>4, <3>1, <3>2
  <2>5. CASE /\ a - (k + 1) \in DOMAIN B /\ t[a] = B[a - (k + 1)]
             /\ b - (k + 1) \in DOMAIN B /\ t[b] = B[b - (k + 1)]
    <3>1. a - (k + 1) < b - (k + 1)
      BY <1>13, <2>0
    <3>2. \E i, j \in DOMAIN s : i < j /\ s[i] = B[a - (k + 1)] /\ s[j] = B[b - (k + 1)]
      BY <1>8, <2>5, <3>1
    <3>. QED  BY <2>5, <3>2
  <2>6. ~(a = k + 1 /\ b \in DOMAIN A) /\ ~(a = k + 1 /\ b = k + 1) /\ ~(a > k + 1 /\ b \in DOMAIN A)
        /\ ~(a > k + 1 /\ b = k + 1)
    BY <1>6, <1>13, <2>0
  <2>. QED  BY <1>9, <2>1, <2>2, <2>3, <2>4, <2>5, <2>6
<1>14. DOMAIN t \subseteq Nat
  BY <1>6
<1>. QED  BY <1>6, <1>10, <1>11, <1>12, <1>13, <1>14 DEF Place, s, t

(* A new handler takes a node that nothing refers to. *)
LEMMA InsertKeeps ==
  ASSUME Inv, NEW e \in Events, NEW f \in Funcs, NEW filter \in Args \cup {NoFilter},
         NEW p \in Priorities, NEW n \in Nodes, n \notin Live, n \notin Referred,
         Same(e, f, filter, p) = {},
         node' = [node EXCEPT ![n] = [func |-> f, filter |-> filter, prio |-> p,
                                      removed |-> FALSE, pending |-> FALSE]],
         callbacks' = [callbacks EXCEPT ![e] = Inserted(e, n, p)],
         inUse' = inUse \cup {e}, UNCHANGED <<lists, stack, ticking>>
  PROVE  Inv' /\ (HeldInv => HeldInv')
<1>. DEFINE s == callbacks[e]
            t == callbacks'[e]
<1>1. TypeOK /\ PlacesInv /\ OrderInv /\ RemoveInv /\ NoDuplicates /\ InUseIffHandled /\ FramesInv
  BY DEF Inv, ListInv
<1>2. /\ s \in Seq(Nodes) /\ DOMAIN s \subseteq Nat /\ \A i \in DOMAIN s : s[i] \in Nodes /\ s[i] # n
      /\ ToSet(s) \subseteq Live
  BY <1>1, Types DEF ToSet
<1>3. p \in Int
  BY ConstantsAssumption DEF ConstantsAssumption
<1>4. Place(t, s, n, p) /\ \A d \in Events : d # e => callbacks'[d] = callbacks[d]
  <2>1. t = Inserted(e, n, p) /\ \A d \in Events : d # e => callbacks'[d] = callbacks[d]
    BY <1>1 DEF TypeOK
  <2>2. Place(Inserted(e, n, p), callbacks[e], n, p)
    BY <1>3, InsertedIsPlaced
  <2>. QED  BY <2>1, <2>2
<1>5. /\ node'[n] = [func |-> f, filter |-> filter, prio |-> p, removed |-> FALSE, pending |-> FALSE]
      /\ node'[n] \in NodeType
      /\ \A m \in Nodes : m # n => node'[m] = node[m]
  <2>1. node'[n] = [func |-> f, filter |-> filter, prio |-> p, removed |-> FALSE, pending |-> FALSE]
    BY <1>1 DEF TypeOK
  <2>. QED  BY <1>1, <2>1 DEF TypeOK, NodeType
<1>. HIDE DEF s, t
<1>6. /\ t \in Seq(Nodes) /\ DOMAIN t \subseteq Nat
      /\ \A a \in DOMAIN t : t[a] = n \/ \E i \in DOMAIN s : s[i] = t[a]
      /\ \A i \in DOMAIN s : \E a \in DOMAIN t : t[a] = s[i]
      /\ \E a \in DOMAIN t : t[a] = n
  BY <1>4 DEF Place
<1>7. \A a, b \in DOMAIN t : a < b =>
        \/ \E i, j \in DOMAIN s : i < j /\ s[i] = t[a] /\ s[j] = t[b]
        \/ t[b] = n /\ \E i \in DOMAIN s : s[i] = t[a] /\ node[t[a]].prio >= p
        \/ t[a] = n /\ \E j \in DOMAIN s : s[j] = t[b] /\ node[t[b]].prio < p
  BY <1>4 DEF Place
<1>8. \A d \in Events : \A i \in DOMAIN callbacks[d] :
        /\ callbacks[d][i] \in Nodes /\ callbacks[d][i] # n
        /\ node'[callbacks[d][i]] = node[callbacks[d][i]]
  <2>1. \A d \in Events : \A i \in DOMAIN callbacks[d] : callbacks[d][i] \in Live
    <3>1. \A d \in Events : ToSet(callbacks[d]) \subseteq Live
      BY <1>1, Types
    <3>. QED  BY <3>1 DEF ToSet
  <2>. QED  BY <1>1, <1>5, <2>1, Types
<1>9. \A i, j \in DOMAIN s : s[i] = s[j] => i = j
  BY <1>1 DEF PlacesInv, s
<1>10. \A a, b \in DOMAIN t : t[a] = t[b] => a = b
  <2>1. ASSUME NEW a \in DOMAIN t, NEW b \in DOMAIN t, a < b
        PROVE  t[a] # t[b]
    <3>1. CASE \E i, j \in DOMAIN s : i < j /\ s[i] = t[a] /\ s[j] = t[b]
      <4>1. PICK i \in DOMAIN s, j \in DOMAIN s : i < j /\ s[i] = t[a] /\ s[j] = t[b]
        BY <3>1
      <4>2. i # j
        BY <1>2, <4>1
      <4>. QED  BY <1>9, <4>1, <4>2
    <3>2. CASE t[b] = n /\ \E i \in DOMAIN s : s[i] = t[a]
      BY <1>2, <3>2
    <3>3. CASE t[a] = n /\ \E j \in DOMAIN s : s[j] = t[b]
      BY <1>2, <3>3
    <3>. QED  BY <1>7, <2>1, <3>1, <3>2, <3>3
  <2>. SUFFICES ASSUME NEW a \in DOMAIN t, NEW b \in DOMAIN t, t[a] = t[b]
                PROVE  a = b
    OBVIOUS
  <2>2. a \in Nat /\ b \in Nat
    BY <1>6
  <2>3. a < b \/ b < a \/ a = b
    BY <2>2
  <2>. QED  BY <2>1, <2>3
<1>11. \A i, j \in DOMAIN s : i < j =>
         \E a, b \in DOMAIN t : a < b /\ t[a] = s[i] /\ t[b] = s[j]
  <2>. SUFFICES ASSUME NEW i \in DOMAIN s, NEW j \in DOMAIN s, i < j
                PROVE  \E a, b \in DOMAIN t : a < b /\ t[a] = s[i] /\ t[b] = s[j]
    OBVIOUS
  <2>1. PICK a \in DOMAIN t : t[a] = s[i]
    BY <1>6
  <2>2. PICK b \in DOMAIN t : t[b] = s[j]
    BY <1>6
  <2>3. a # b
    <3>1. i # j
      BY <1>2
    <3>. QED  BY <1>9, <2>1, <2>2, <3>1
  <2>4. ~(b < a)
    <3>. SUFFICES ASSUME b < a PROVE FALSE
      OBVIOUS
    <3>1. t[a] # n /\ t[b] # n
      BY <1>2, <2>1, <2>2
    <3>2. PICK k \in DOMAIN s, l \in DOMAIN s : k < l /\ s[k] = t[b] /\ s[l] = t[a]
      BY <1>7, <3>1
    <3>3. k = j /\ l = i
      BY <1>9, <2>1, <2>2, <3>2
    <3>4. i \in Nat /\ j \in Nat
      BY <1>2
    <3>. QED  BY <3>2, <3>3, <3>4
  <2>5. a < b
    <3>1. a \in Nat /\ b \in Nat
      BY <1>6
    <3>. QED  BY <2>3, <2>4, <3>1
  <2>. QED  BY <2>1, <2>2, <2>5
<1>12. TypeOK'
  <2>1. callbacks' \in [Events -> Seq(Nodes)]
    <3>1. callbacks' = [d \in Events |-> callbacks'[d]]
      BY <1>1 DEF TypeOK
    <3>2. \A d \in Events : callbacks'[d] \in Seq(Nodes)
      BY <1>1, <1>4, <1>6 DEF TypeOK, t
    <3>. QED  BY <3>1, <3>2
  <2>2. node' \in [Nodes -> NodeType]
    <3>1. node' = [m \in Nodes |-> node'[m]]
      BY <1>1 DEF TypeOK
    <3>2. \A m \in Nodes : node'[m] \in NodeType
      BY <1>1, <1>5, Types
    <3>. QED  BY <3>1, <3>2
  <2>3. inUse' \subseteq Events
    BY <1>1 DEF TypeOK
  <2>. QED  BY <1>1, <2>1, <2>2, <2>3 DEF TypeOK, NodeType, lists
<1>13. PlacesInv'
  <2>1. ASSUME NEW d \in Events, d # e, NEW a \in DOMAIN t, NEW j \in DOMAIN callbacks[d],
               t[a] = callbacks[d][j]
        PROVE  FALSE
    <3>1. PICK i \in DOMAIN s : s[i] = t[a]
      BY <1>6, <1>8, <2>1
    <3>. QED  BY <1>1, <2>1, <3>1 DEF PlacesInv, s
  <2>. SUFFICES ASSUME NEW c \in Events, NEW d \in Events, NEW i \in DOMAIN callbacks'[c],
                       NEW j \in DOMAIN callbacks'[d], callbacks'[c][i] = callbacks'[d][j]
                PROVE  c = d /\ i = j
    BY DEF PlacesInv
  <2>2. CASE c = e /\ d = e
    BY <1>10, <2>2 DEF t
  <2>3. CASE c = e /\ d # e
    BY <1>4, <2>1, <2>3 DEF t
  <2>4. CASE c # e /\ d = e
    BY <1>4, <2>1, <2>4 DEF t
  <2>5. CASE c # e /\ d # e
    BY <1>1, <1>4, <2>5 DEF PlacesInv
  <2>. QED  BY <2>2, <2>3, <2>4, <2>5
<1>14. OrderInv'
  <2>. SUFFICES ASSUME NEW d \in Events, NEW a \in DOMAIN callbacks'[d],
                       NEW b \in DOMAIN callbacks'[d], a < b
                PROVE  node'[callbacks'[d][a]].prio >= node'[callbacks'[d][b]].prio
    BY DEF OrderInv
  <2>1. CASE d # e
    BY <1>1, <1>4, <1>8, <2>1 DEF OrderInv
  <2>2. CASE d = e
    <3>0. a \in DOMAIN t /\ b \in DOMAIN t /\ callbacks'[d] = t
      BY <2>2 DEF t
    <3>1. CASE \E i, j \in DOMAIN s : i < j /\ s[i] = t[a] /\ s[j] = t[b]
      <4>1. PICK i \in DOMAIN s, j \in DOMAIN s : i < j /\ s[i] = t[a] /\ s[j] = t[b]
        BY <3>1
      <4>2. node[s[i]].prio >= node[s[j]].prio
        BY <1>1, <4>1 DEF OrderInv, s
      <4>3. node'[s[i]] = node[s[i]] /\ node'[s[j]] = node[s[j]]
        BY <1>8 DEF s
      <4>. QED  BY <3>0, <4>1, <4>2, <4>3
    <3>2. CASE t[b] = n /\ \E i \in DOMAIN s : s[i] = t[a] /\ node[t[a]].prio >= p
      <4>1. node'[t[b]].prio = p /\ node'[t[a]] = node[t[a]]
        BY <1>5, <1>8, <3>2 DEF s
      <4>. QED  BY <3>0, <3>2, <4>1
    <3>3. CASE t[a] = n /\ \E j \in DOMAIN s : s[j] = t[b] /\ node[t[b]].prio < p
      <4>1. node'[t[a]].prio = p /\ node'[t[b]] = node[t[b]] /\ node[t[b]].prio \in Int
        BY <1>1, <1>5, <1>8, <3>3, Types DEF s
      <4>2. p >= node[t[b]].prio
        BY <1>3, <3>3, <4>1
      <4>. QED  BY <3>0, <4>1, <4>2
    <3>. QED  BY <1>7, <3>0, <3>1, <3>2, <3>3
  <2>. QED  BY <2>1, <2>2
<1>15. RemoveInv'
  <2>1. UNCHANGED removeList /\ \A i \in DOMAIN removeList : removeList[i] \in RemovalType
    BY <1>1, Types DEF lists
  <2>2. \A i \in DOMAIN removeList : removeList[i].node # n
    BY DEF Referred
  <2>3. \A i \in DOMAIN removeList : removeList[i].node \in ToSet(callbacks'[removeList[i].event])
    <3>. SUFFICES ASSUME NEW i \in DOMAIN removeList
                  PROVE  removeList[i].node \in ToSet(callbacks'[removeList[i].event])
      OBVIOUS
    <3>1. removeList[i].event \in Events
          /\ removeList[i].node \in ToSet(callbacks[removeList[i].event])
      BY <1>1, <2>1 DEF RemoveInv, RemovalType
    <3>2. ToSet(s) \subseteq ToSet(t)
      BY <1>6 DEF ToSet
    <3>. QED  BY <1>4, <3>1, <3>2 DEF s, t
  <2>4. \A m \in Nodes : node'[m].pending <=> \E i \in DOMAIN removeList : removeList[i].node = m
    <3>1. node'[n].pending = FALSE
      BY <1>5
    <3>. QED  BY <1>1, <1>5, <2>2, <3>1 DEF RemoveInv
  <2>5. \A m \in Nodes : node'[m].removed => node'[m].pending
    <3>1. node'[n].removed = FALSE
      BY <1>5
    <3>. QED  BY <1>1, <1>5, <3>1 DEF RemoveInv
  <2>. QED  BY <1>1, <2>1, <2>3, <2>4, <2>5 DEF RemoveInv
<1>16. NoDuplicates'
  <2>. SUFFICES ASSUME NEW d \in Events, NEW a \in DOMAIN callbacks'[d],
                       NEW b \in DOMAIN callbacks'[d],
                       node'[callbacks'[d][a]].func = node'[callbacks'[d][b]].func,
                       node'[callbacks'[d][a]].filter = node'[callbacks'[d][b]].filter,
                       node'[callbacks'[d][a]].prio = node'[callbacks'[d][b]].prio
                PROVE  a = b
    BY DEF NoDuplicates
  <2>1. CASE d # e
    BY <1>1, <1>4, <1>8, <2>1 DEF NoDuplicates
  <2>2. CASE d = e
    <3>0. a \in DOMAIN t /\ b \in DOMAIN t /\ callbacks'[d] = t
      BY <2>2 DEF t
    <3>1. node'[n].func = f /\ node'[n].filter = filter /\ node'[n].prio = p
      BY <1>5
    <3>2. \A i \in DOMAIN s : ~(node'[s[i]].func = f /\ node'[s[i]].filter = filter /\ node'[s[i]].prio = p)
      BY <1>8 DEF Same, ToSet, s
    <3>3. t[a] = t[b]
      <4>1. CASE t[a] = n \/ t[b] = n
        BY <1>6, <3>0, <3>1, <3>2, <4>1
      <4>2. CASE t[a] # n /\ t[b] # n
        <5>1. PICK i \in DOMAIN s, j \in DOMAIN s : s[i] = t[a] /\ s[j] = t[b]
          BY <1>6, <3>0, <4>2
        <5>2. node'[s[i]] = node[s[i]] /\ node'[s[j]] = node[s[j]]
          BY <1>8 DEF s
        <5>3. i = j
          BY <1>1, <3>0, <5>1, <5>2 DEF NoDuplicates, s
        <5>. QED  BY <5>1, <5>3
      <4>. QED  BY <4>1, <4>2
    <3>. QED  BY <1>10, <3>0, <3>3
  <2>. QED  BY <2>1, <2>2
<1>17. InUseIffHandled'
  <2>1. t # <<>>
    <3>1. t = <<>> => DOMAIN t = {}
      OBVIOUS
    <3>. QED  BY <1>6, <3>1
  <2>. QED  BY <1>1, <1>4, <2>1 DEF InUseIffHandled, t
<1>18. \A d \in Events : /\ ToSet(callbacks[d]) \subseteq ToSet(callbacks'[d])
                         /\ \A x, y : Before(d, x, y) => Before(d, x, y)'
  <2>. SUFFICES ASSUME NEW d \in Events
                PROVE  /\ ToSet(callbacks[d]) \subseteq ToSet(callbacks'[d])
                       /\ \A x, y : Before(d, x, y) => Before(d, x, y)'
    OBVIOUS
  <2>1. CASE d # e
    BY <1>4, <2>1 DEF Before
  <2>2. CASE d = e
    <3>1. ToSet(s) \subseteq ToSet(t)
      BY <1>6 DEF ToSet
    <3>2. ASSUME NEW x, NEW y, Before(e, x, y)
          PROVE  Before(e, x, y)'
      <4>1. PICK i \in DOMAIN s, j \in DOMAIN s : i < j /\ s[i] = x /\ s[j] = y
        BY <3>2 DEF Before, s
      <4>2. PICK a \in DOMAIN t, b \in DOMAIN t : a < b /\ t[a] = x /\ t[b] = y
        BY <1>11, <4>1
      <4>. QED  BY <4>2 DEF Before, t
    <3>. QED  BY <2>2, <3>1, <3>2 DEF s, t
  <2>. QED  BY <2>1, <2>2
<1>19. FramesInv'
  <2>1. UNCHANGED stack /\ \A k \in DOMAIN stack : stack[k] \in FrameType /\ FrameSound(stack[k])
    BY <1>1, Types DEF FramesInv
  <2>. SUFFICES ASSUME NEW k \in DOMAIN stack PROVE FrameSound(stack[k])'
    BY <2>1 DEF FramesInv
  <2>2. stack[k].event \in Events /\ stack[k].owed \subseteq Nodes
    BY <2>1 DEF FrameType
  <2>3. ASSUME NEW m \in stack[k].owed
        PROVE  Matches(m, stack[k].arg)' /\ Before(stack[k].event, stack[k].at, m)'
    <3>1. Matches(m, stack[k].arg) /\ Before(stack[k].event, stack[k].at, m)
      BY <2>1 DEF FrameSound
    <3>2. node'[m] = node[m]
      BY <1>8, <2>2, <3>1 DEF Before
    <3>3. Matches(m, stack[k].arg)'
      BY <2>1, <3>1, <3>2 DEF Matches
    <3>. QED  BY <1>18, <2>1, <2>2, <3>1, <3>3
  <2>4. stack[k].kind = "all" => stack[k].at \in ToSet(callbacks'[stack[k].event])
    BY <1>18, <2>1, <2>2 DEF FrameSound
  <2>. QED  BY <2>1, <2>3, <2>4 DEF FrameSound
<1>20. HeldInv => HeldInv'
  <2>1. Live \subseteq Live'
    BY <1>18 DEF Live
  <2>. QED  BY <2>1 DEF HeldInv, lists
<1>. QED  BY <1>12, <1>13, <1>14, <1>15, <1>16, <1>17, <1>19, <1>20 DEF Inv, ListInv

LEMMA SetKeeps ==
  ASSUME Inv, NEW e \in Events, NEW f \in Funcs, NEW filter \in Args \cup {NoFilter},
         NEW p \in Priorities, DoSetHandler(e, f, filter, p)
  PROVE  Inv' /\ (HeldInv => HeldInv')
<1>. DEFINE same == Same(e, f, filter, p)
            Free == Nodes \ (Live \cup Referred)
<1>1. CASE same # {}
  <2>1. /\ UNCHANGED <<callbacks, inUse, lists, stack, ticking>>
        /\ node' = [n \in Nodes |-> IF n \in same
                      THEN [node[n] EXCEPT !.removed = FALSE] ELSE node[n]]
    BY <1>1 DEF DoSetHandler
  <2>. HIDE DEF same
  <2>. QED  BY <2>1, SetAgainKeeps
<1>2. CASE same = {}
  <2>. DEFINE n == Min(Free)
  <2>1. /\ Free # {}
        /\ node' = [node EXCEPT ![n] = [func |-> f, filter |-> filter, prio |-> p,
                                        removed |-> FALSE, pending |-> FALSE]]
        /\ callbacks' = [callbacks EXCEPT ![e] = Inserted(e, n, p)]
        /\ inUse' = inUse \cup {e} /\ UNCHANGED <<lists, stack, ticking>>
    BY <1>2 DEF DoSetHandler
  <2>2. n \in Free
    <3>1. Free \subseteq Nat
      BY DEF Nodes
    <3>. HIDE DEF Free
    <3>. QED  BY <2>1, <3>1, MinProperty
  <2>3. n \in Nodes /\ n \notin Live /\ n \notin Referred
    BY <2>2
  <2>. HIDE DEF n
  <2>. QED  BY <1>2, <2>1, <2>3, InsertKeeps
<1>. QED  BY <1>1, <1>2

-----------------------------------------------------------------------------
(* The invariant *)

LEMMA InitInv == ASSUME Init PROVE Inv /\ HeldInv
<1>1. /\ removeList = <<>> /\ deferredClassic = <<>> /\ deferredRaw = <<>> /\ stack = <<>>
      /\ callbacks = [e \in Events |-> <<>>] /\ node = [n \in Nodes |-> NoNode]
      /\ inUse = {} /\ ticking = "no"
  BY DEF Init
<1>2. DOMAIN removeList = {} /\ DOMAIN deferredClassic = {} /\ DOMAIN stack = {}
      /\ \A e \in Events : callbacks[e] = <<>> /\ DOMAIN callbacks[e] = {}
  BY <1>1
<1>3. NoNode \in NodeType /\ ~NoNode.removed /\ ~NoNode.pending
  BY DEF NoNode, NodeType
<1>4. TypeOK
  BY <1>1, <1>3 DEF TypeOK, NodeType
<1>5. ListInv
  BY <1>1, <1>2, <1>3 DEF ListInv, PlacesInv, OrderInv, RemoveInv, NoDuplicates, InUseIffHandled
<1>6. FramesInv /\ HeldInv
  BY <1>1, <1>2 DEF FramesInv, HeldInv
<1>. QED  BY <1>4, <1>5, <1>6 DEF Inv

LEMMA NextInv ==
  ASSUME Inv, Next
  PROVE  Inv' /\ (HeldInv /\ ~LoadWhileDeferred => HeldInv')
<1>1. ASSUME NEW e \in Events, NEW f \in Funcs, NEW filter \in Args \cup {NoFilter},
             NEW p \in Priorities, DoSetHandler(e, f, filter, p)
      PROVE  Inv' /\ (HeldInv => HeldInv')
  BY <1>1, SetKeeps
<1>2. ASSUME NEW e \in Events, NEW f, NEW filter, NEW p, DoRemoveHandler(e, f, filter, p)
      PROVE  Inv' /\ (HeldInv => HeldInv')
  BY <1>2, RemoveKeeps
<1>3. ASSUME NEW e \in Events, NEW arg \in Args, Dispatch(e, arg)
      PROVE  Inv' /\ (HeldInv => HeldInv')
  BY <1>3, DispatchKeeps
<1>4. ASSUME NEW e \in Events, NEW arg \in Args, DispatchElsewhere(e, arg)
      PROVE  Inv' /\ (HeldInv => HeldInv')
  BY <1>4, DispatchElsewhereKeeps
<1>5. CASE HandlerReturns
  BY <1>5, HandlerReturnsKeeps
<1>6. CASE EarlyBreak
  BY <1>6, EarlyBreakKeeps
<1>7. CASE Tick
  BY <1>7, TickKeeps, TickEndKeeps DEF Tick
<1>8. CASE ClearFlushOnLoadEventHandlers
  BY <1>8, LoadKeeps
<1>. QED  BY <1>1, <1>2, <1>3, <1>4, <1>5, <1>6, <1>7, <1>8 DEF Next, SetOrRemove, Event

LEMMA StutterInv ==
  ASSUME Inv, UNCHANGED allVars
  PROVE  Inv' /\ (HeldInv => HeldInv')
<1>1. UNCHANGED <<callbacks, node, inUse, removeList, deferredClassic, deferredRaw, stack, ticking>>
  BY DEF allVars, lists
<1>2. /\ stack' \in Seq(FrameType) /\ \A k \in DOMAIN stack' : FrameSound(stack'[k])
      /\ deferredClassic' \in Seq(DeferredType) /\ deferredRaw' \in Seq(RawType)
      /\ ticking' \in {"no", "classic", "raw"}
  BY <1>1 DEF Inv, TypeOK, FramesInv, FrameType, DeferredType, RawType
<1>. QED  BY <1>1, <1>2, StackStep DEF HeldInv, Live

LEMMA InvHolds == Spec => []Inv
<1>1. Init => Inv
  BY InitInv
<1>2. Inv /\ [Next]_allVars => Inv'
  BY NextInv, StutterInv
<1>. QED  BY <1>1, <1>2, PTL DEF Spec

-----------------------------------------------------------------------------
LEMMA RemovalsListedOnce ==
  ASSUME TypeOK, RemoveInv
  PROVE  ListedOnce
<1>. SUFFICES ASSUME NEW n \in Nodes
              PROVE  LET at == {i \in DOMAIN removeList : removeList[i].node = n} IN
                     /\ node[n].removed => node[n].pending
                     /\ Cardinality(at) = (IF node[n].pending THEN 1 ELSE 0)
  BY DEF ListedOnce
<1>. DEFINE at == {i \in DOMAIN removeList : removeList[i].node = n}
<1>1. node[n].removed => node[n].pending
  BY DEF RemoveInv
<1>2. CASE node[n].pending
  <2>1. PICK i \in DOMAIN removeList : removeList[i].node = n
    BY <1>2 DEF RemoveInv
  <2>2. at = {i}
    BY <2>1 DEF RemoveInv
  <2>. QED  BY <1>1, <1>2, <2>2, FS_Singleton
<1>3. CASE ~node[n].pending
  <2>1. at = {}
    BY <1>3 DEF RemoveInv
  <2>. QED  BY <1>1, <1>3, <2>1, FS_EmptySet
<1>. QED  BY <1>2, <1>3

LEMMA NothingDangles ==
  ASSUME Inv, HeldInv
  PROVE  NoDanglingCallback
<1>1. \A i \in DOMAIN removeList : removeList[i].node \in Live
  <2>. SUFFICES ASSUME NEW i \in DOMAIN removeList PROVE removeList[i].node \in Live
    OBVIOUS
  <2>1. removeList[i] \in RemovalType
    BY Types DEF Inv
  <2>2. removeList[i].node \in ToSet(callbacks[removeList[i].event])
    BY DEF Inv, ListInv, RemoveInv
  <2>. QED  BY <2>1, <2>2 DEF Live, RemovalType
<1>. QED  BY <1>1 DEF HeldInv, NoDanglingCallback, Referred

(***************************************************************************)
(* The lists of callbacks, of pending removals and the masks of the events *)
(* agree with one another, whatever handlers do while events are           *)
(* dispatched, and whether or not a game is loaded while some are deferred *)
(* (SetHandler, RemoveHandler, ~DeferredRemoveCallback).                   *)
(***************************************************************************)
THEOREM ListsAlwaysAgree == Spec => []ListsAgree
<1>1. Inv => ListsAgree
  BY RemovalsListedOnce DEF Inv, ListInv, ListsAgree
<1>. QED  BY <1>1, InvHolds, PTL

(***************************************************************************)
(* Every iterator and reference that a dispatch, a deferred handler or a   *)
(* pending removal holds is to a callback that has not been erased, and    *)
(* the lists agree, when no game is loaded while handlers are deferred:    *)
(* that is the one step that erases handlers which are still referred to   *)
(* (ClearFlushOnLoadEventHandlers).                                        *)
(***************************************************************************)
THEOREM HandlersStaySound ==
  ASSUME ~LoadWhileDeferred
  PROVE  Spec => []HandlersSound
<1>1. Init => Inv /\ HeldInv
  BY InitInv
<1>2. (Inv /\ HeldInv) /\ [Next]_allVars => (Inv /\ HeldInv)'
  BY NextInv, StutterInv
<1>3. Inv /\ HeldInv => HandlersSound
  BY NothingDangles, RemovalsListedOnce DEF Inv, ListInv, ListsAgree, HandlersSound
<1>. QED  BY <1>1, <1>2, <1>3, PTL DEF Spec

(***************************************************************************)
(* A dispatch that ends, unless it is told to stop, has called every       *)
(* handler that matched when it began and was not removed meanwhile; and   *)
(* it calls them in the order of their priorities, those set meanwhile     *)
(* included (HandleEvent, DispatchEventRaw).                               *)
(***************************************************************************)
THEOREM DispatchesComplete == Spec => DispatchComplete
<1>1. Inv /\ [Next]_allVars =>
        [HandlerReturns => IF Len(stack') < Len(stack)
                           THEN top.owed = {}
                           ELSE node[Last(stack').at].prio <= node[top.at].prio]_allVars
  BY HandlerReturnsKeeps
<1>. QED  BY <1>1, InvHolds, PTL DEF Spec, DispatchComplete

===============================================================================
