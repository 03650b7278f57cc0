-------------------------- MODULE ScriptCallsProofs --------------------------
(***************************************************************************)
(* Theorems about ScriptCalls, for any functions, scripts, lambdas and     *)
(* holders, any depth of calls and any number of lists.                    *)
(***************************************************************************)
EXTENDS ScriptCalls, DataLemmas, SequenceTheorems

Codes == Functions \cup Scripts \cup Lambdas

FrameType == [code : Codes, list : Lists, backup : BOOLEAN, started : BOOLEAN]
ListType == [call : Int, vars : SUBSET Lambdas]
SavedType == [copy : BOOLEAN, count : [Lambdas -> Int]]

-----------------------------------------------------------------------------
(* The three kinds of lists: those that functions and objects own, the     *)
(* copies kept for saved lambdas, and those of the calls under way.        *)

Owned == {own[c] : c \in Functions \cup Scripts} \ {Null}
Copied == {id \in DOMAIN saved : saved[id].copy}
Private(f) == f.backup \/ (f.code \in Functions /\ f.list # own[f.code])
Below(i) == {stack[j].list : j \in {n \in 1 .. i - 1 : Private(stack[n])}}
PrivateLists == Below(Len(stack) + 1)

TypeInv ==
  /\ own \in [Functions \cup Scripts -> Lists \cup {Null}]
  /\ DOMAIN lists \subseteq Lists /\ lists \in [DOMAIN lists -> ListType]
  /\ DOMAIN saved \subseteq Lists /\ saved \in [DOMAIN saved -> SavedType]
  /\ stack \in Seq(FrameType)
  /\ home \in [Lambdas -> Functions \cup Scripts]
  /\ parent \in [Lambdas -> Lists \cup {Null}]
  /\ calls \in Nat

OwnInv ==
  /\ \A c, d \in Functions \cup Scripts : own[c] = own[d] /\ own[c] # Null => c = d
  /\ \A f \in Functions : own[f] # Null

(***************************************************************************)
(* Every list is of one kind, and the table of saved lists and the lambdas *)
(* only know lists that exist.                                             *)
(***************************************************************************)
KindsInv ==
  /\ DOMAIN lists = Owned \cup Copied \cup PrivateLists
  /\ Owned \cap Copied = {} /\ Owned \cap PrivateLists = {} /\ Copied \cap PrivateLists = {}
  /\ DOMAIN saved \subseteq DOMAIN lists
  /\ \A l \in Lambdas : parent[l] \in DOMAIN lists \cup {Null}

(***************************************************************************)
(* A call ends before the list it runs on.                                 *)
(***************************************************************************)
StackInv ==
  /\ \A i \in DOMAIN stack :
       IF Private(stack[i]) THEN stack[i].list \notin Below(i)
                            ELSE stack[i].list \in Owned \cup Copied \cup Below(i)
  /\ \A i, j \in DOMAIN stack :
       i < j /\ stack[i].code = stack[j].code /\ stack[i].code \in Functions
         => stack[j].list # own[stack[j].code]
  /\ \A i \in DOMAIN stack : stack[i].code \in Scripts =>
       stack[i].list = own[stack[i].code] /\ ~stack[i].backup
  /\ stack # <<>> => stack[1].started

Inv == TypeInv /\ OwnInv /\ KindsInv /\ StackInv

(***************************************************************************)
(* What holders and lambdas remember; only Hold and Release change it.     *)
(***************************************************************************)
HeldInv ==
  /\ captured \in [Lambdas -> (SUBSET Lambdas) \cup {Unknown}]
  /\ hold \in [Holders -> [lambda : Lambdas \cup {Null}, children : SUBSET Lambdas, call : Int]]

-----------------------------------------------------------------------------
(* Lists and frames *)

LEMMA FreeList ==
  ASSUME Fits
  PROVE  Free \in Lists /\ Free \notin DOMAIN lists /\ Free # Null
<1>. DEFINE S == Lists \ DOMAIN lists
<1>1. S \subseteq Nat /\ S # {} /\ 0 \notin S
  BY ScriptCallsAssumption DEF Fits, ScriptCallsAssumption
<1>2. \E id \in S : \A other \in S : id <= other
  <2>. HIDE DEF S
  <2>. QED  BY <1>1, MinProperty
<1>3. Free \in S
  BY <1>2 DEF Free
<1>. QED  BY <1>1, <1>3 DEF Null

LEMMA FramesExist ==
  ASSUME Inv
  PROVE  /\ Len(stack) \in Nat /\ DOMAIN stack = 1 .. Len(stack)
         /\ \A i \in DOMAIN stack : /\ stack[i] \in FrameType /\ stack[i].list \in DOMAIN lists
                                    /\ Below(i) \subseteq PrivateLists
                                    /\ Private(stack[i]) => stack[i].list \in PrivateLists
         /\ (stack = <<>> => PrivateLists = {}) /\ (stack # <<>> => 1 \in DOMAIN stack)
         /\ PrivateLists \subseteq {stack[i].list : i \in DOMAIN stack}
         /\ Null \notin DOMAIN lists /\ Null \notin Lists
<1>1. Len(stack) \in Nat /\ DOMAIN stack = 1 .. Len(stack)
  BY LenProperties DEF Inv, TypeInv
<1>2. stack # <<>> => 1 \in DOMAIN stack
  BY <1>1, EmptySeq DEF Inv, TypeInv
<1>3. \A j \in DOMAIN stack : Private(stack[j]) => stack[j].list \in PrivateLists
  BY <1>1 DEF PrivateLists, Below
<1>4. \A i \in DOMAIN stack : Below(i) \subseteq PrivateLists
  BY <1>1 DEF PrivateLists, Below
<1>5. stack = <<>> => PrivateLists = {}
  BY <1>1 DEF PrivateLists, Below
<1>6. \A i \in DOMAIN stack : stack[i] \in FrameType
  BY <1>1 DEF Inv, TypeInv
<1>7. \A i \in DOMAIN stack : stack[i].list \in DOMAIN lists
  BY <1>3, <1>4 DEF Inv, StackInv, KindsInv
<1>8. Null \notin Lists
  BY ScriptCallsAssumption DEF ScriptCallsAssumption, Null
<1>9. PrivateLists \subseteq {stack[i].list : i \in DOMAIN stack}
  BY <1>1 DEF PrivateLists, Below
<1>. QED  BY <1>1, <1>2, <1>3, <1>4, <1>5, <1>6, <1>7, <1>8, <1>9 DEF Inv, TypeInv

(***************************************************************************)
(* There is always a script whose expressions are being evaluated while    *)
(* calls are under way.                                                    *)
(***************************************************************************)
LEMMA EvaluatorPlace ==
  ASSUME Inv, stack # <<>>
  PROVE  /\ Evaluator \in DOMAIN stack /\ stack[Evaluator].started
         /\ Here \in FrameType /\ Here.list \in DOMAIN lists
<1>. DEFINE S == {i \in DOMAIN stack : stack[i].started}
            n == Len(stack)
<1>1. n \in Nat /\ DOMAIN stack = 1 .. n
  BY FramesExist
<1>2. S \subseteq 0 .. n /\ S # {}
  BY <1>1, FramesExist DEF Inv, StackInv
<1>3. Max(S) \in S /\ \A y \in S : y <= Max(S)
  <2>. HIDE DEF S, n
  <2>. QED  BY <1>1, <1>2, MaxProperty
<1>4. \E i \in DOMAIN stack : stack[i].started /\ \A j \in i + 1 .. n : ~stack[j].started
  <2>. DEFINE m == Max(S)
  <2>1. \A j \in m + 1 .. n : j \notin S /\ j \in DOMAIN stack
    <3>1. m \in 1 .. n /\ \A y \in S : y \in 1 .. n /\ y <= m
      BY <1>1, <1>3
    <3>. HIDE DEF S, m, n
    <3>. QED  BY <1>1, <3>1
  <2>2. m \in DOMAIN stack /\ stack[m].started
    BY <1>3
  <2>3. \A j \in m + 1 .. n : ~stack[j].started
    BY <2>1
  <2>. HIDE DEF m
  <2>. QED  BY <2>2, <2>3
<1>5. Evaluator \in DOMAIN stack /\ stack[Evaluator].started
  BY <1>4 DEF Evaluator
<1>. QED  BY <1>5, FramesExist DEF Here

-----------------------------------------------------------------------------
(* What steps do to the stack and the lists *)

(***************************************************************************)
(* A call begins: on a list that exists, or on a new one of its own.       *)
(***************************************************************************)
LEMMA PushInv ==
  ASSUME Inv, NEW f \in FrameType, stack' = Append(stack, f),
         f.code \in Scripts => f.list = own[f.code] /\ ~f.backup,
         stack = <<>> => f.started,
         f.code \in Functions /\ f.list = own[f.code] =>
           \A i \in DOMAIN stack : stack[i].code # f.code,
         \/ f.list \in DOMAIN lists /\ ~Private(f) /\ DOMAIN lists' = DOMAIN lists
         \/ /\ f.list \notin DOMAIN lists /\ Private(f)
            /\ DOMAIN lists' = DOMAIN lists \cup {f.list},
         lists' \in [DOMAIN lists' -> ListType], calls' \in Nat,
         UNCHANGED <<home, own, parent, saved>>
  PROVE  Inv'
<1>. TypeInv /\ OwnInv /\ KindsInv /\ StackInv
  BY DEF Inv
<1>. DEFINE n == Len(stack)
<1>1. /\ stack' \in Seq(FrameType) /\ Len(stack') = n + 1 /\ n \in Nat
      /\ \A i \in 1 .. n : stack'[i] = stack[i]
      /\ stack'[n + 1] = f /\ DOMAIN stack' = 1 .. n + 1 /\ DOMAIN stack = 1 .. n
  BY FramesExist, AppendProperties, LenProperties DEF TypeInv
<1>2. \A g : Private(g)' <=> Private(g)
  BY DEF Private
<1>3. Owned' = Owned /\ Copied' = Copied
  BY DEF Owned, Copied
<1>4. \A i \in 1 .. n + 1 : Below(i)' = Below(i)
  <2>. SUFFICES ASSUME NEW i \in 1 .. n + 1 PROVE Below(i)' = Below(i)
    OBVIOUS
  <2>1. \A j \in 1 .. i - 1 : stack'[j] = stack[j]
    BY <1>1
  <2>2. {j \in 1 .. i - 1 : Private(stack[j])'} = {j \in 1 .. i - 1 : Private(stack[j])}
    BY <2>1 DEF Private
  <2>. QED  BY <2>1, <2>2 DEF Below
<1>5. PrivateLists' = PrivateLists \cup (IF Private(f) THEN {f.list} ELSE {})
  <2>1. \A i \in 1 .. n + 1 : Private(stack[i])' <=> Private(IF i = n + 1 THEN f ELSE stack[i])
    BY <1>1 DEF Private
  <2>2. PrivateLists' = {stack'[j].list : j \in {i \in 1 .. n + 1 : Private(stack[i])'}}
    <3>1. Len(stack') + 1 - 1 = n + 1
      BY <1>1
    <3>. QED  BY <3>1 DEF PrivateLists, Below
  <2>3. PrivateLists = {stack[j].list : j \in {i \in 1 .. n : Private(stack[i])}}
    <3>1. n + 1 - 1 = n
      BY <1>1
    <3>. QED  BY <3>1 DEF PrivateLists, Below
  <2>4. 1 .. n + 1 = 1 .. n \cup {n + 1} /\ n + 1 \notin 1 .. n
    BY <1>1
  <2>5. \A j \in {i \in 1 .. n : Private(stack[i])} : j \in {i \in 1 .. n + 1 : Private(stack[i])'}
                                                     /\ stack'[j].list = stack[j].list
    BY <1>1, <2>1, <2>4
  <2>6. \A j \in {i \in 1 .. n + 1 : Private(stack[i])'} :
          \/ j \in {i \in 1 .. n : Private(stack[i])} /\ stack'[j].list = stack[j].list
          \/ j = n + 1 /\ Private(f) /\ stack'[j].list = f.list
    BY <1>1, <2>1, <2>4
  <2>7. Private(f) => n + 1 \in {i \in 1 .. n + 1 : Private(stack[i])'}
                      /\ stack'[n + 1].list = f.list
    BY <1>1, <2>1, <2>4
  <2>8. PrivateLists' \subseteq PrivateLists \cup (IF Private(f) THEN {f.list} ELSE {})
    BY <2>2, <2>3, <2>6
  <2>9. PrivateLists \subseteq PrivateLists' /\ (Private(f) => f.list \in PrivateLists')
    BY <2>2, <2>3, <2>5, <2>7
  <2>. QED  BY <2>8, <2>9
<1>6. f.list \in Lists
  BY DEF FrameType
<1>7. TypeInv'
  BY <1>1, <1>6 DEF TypeInv
<1>8. OwnInv'
  BY DEF OwnInv
<1>9. KindsInv'
  <2>1. DOMAIN lists' = Owned' \cup Copied' \cup PrivateLists'
    BY <1>3, <1>5 DEF KindsInv
  <2>2. Owned' \cap PrivateLists' = {} /\ Copied' \cap PrivateLists' = {}
    BY <1>3, <1>5 DEF KindsInv
  <2>. QED  BY <1>3, <2>1, <2>2 DEF KindsInv
<1>10. StackInv'
  <2>0. \A i \in 1 .. n + 1 : i \in 1 .. n \/ i = n + 1
    BY <1>1
  <2>1. ASSUME NEW i \in 1 .. n + 1
        PROVE  IF Private(stack[i])' THEN stack'[i].list \notin Below(i)'
               ELSE stack'[i].list \in Owned' \cup Copied' \cup Below(i)'
    <3>1. CASE i \in 1 .. n
      <4>1. Private(stack[i])' <=> Private(stack[i])
        BY <1>1, <3>1 DEF Private
      <4>. QED  BY <1>1, <1>3, <1>4, <3>1, <4>1 DEF StackInv
    <3>2. CASE i = n + 1
      <4>1. (Private(stack[i])' <=> Private(f)) /\ stack'[i] = f
        BY <1>1, <3>2 DEF Private
      <4>2. Below(i)' = PrivateLists
        BY <1>4, <3>2 DEF PrivateLists
      <4>. QED  BY <1>3, <4>1, <4>2 DEF KindsInv
    <3>. QED  BY <2>0, <3>1, <3>2
  <2>2. ASSUME NEW i \in 1 .. n + 1, NEW j \in 1 .. n + 1, i < j,
               stack'[i].code = stack'[j].code, stack'[i].code \in Functions
        PROVE  stack'[j].list # own'[stack'[j].code]
    <3>0. i \in 1 .. n
      BY <1>1, <2>2
    <3>1. CASE j \in 1 .. n
      BY <1>1, <2>2, <3>0, <3>1 DEF StackInv
    <3>2. CASE j = n + 1
      BY <1>1, <2>2, <3>0, <3>2
    <3>. QED  BY <2>0, <3>1, <3>2
  <2>3. \A i \in 1 .. n + 1 : stack'[i].code \in Scripts =>
          stack'[i].list = own'[stack'[i].code] /\ ~stack'[i].backup
    BY <1>1, <2>0 DEF StackInv
  <2>4. stack'[1].started
    <3>1. CASE stack = <<>>
      BY <1>1, <3>1
    <3>2. CASE stack # <<>>
      BY <1>1, <3>2, FramesExist DEF StackInv
    <3>. QED  BY <3>1, <3>2
  <2>. QED  BY <1>1, <2>1, <2>2, <2>3, <2>4 DEF StackInv
<1>. QED  BY <1>7, <1>8, <1>9, <1>10 DEF Inv

(***************************************************************************)
(* Steps that begin and end no call, and no list.                          *)
(***************************************************************************)
LEMMA KeepInv ==
  ASSUME Inv, stack' \in Seq(FrameType), Len(stack') = Len(stack),
         \A i \in DOMAIN stack :
           /\ stack'[i].code = stack[i].code /\ stack'[i].list = stack[i].list
           /\ stack'[i].backup = stack[i].backup
           /\ stack[i].started => stack'[i].started,
         UNCHANGED <<home, own, calls>>,
         DOMAIN lists' = DOMAIN lists, lists' \in [DOMAIN lists' -> ListType],
         parent' \in [Lambdas -> DOMAIN lists \cup {Null}],
         saved' \in [DOMAIN saved' -> SavedType], DOMAIN saved' \subseteq DOMAIN lists,
         Copied' = Copied
  PROVE  Inv'
<1>. TypeInv /\ OwnInv /\ KindsInv /\ StackInv
  BY DEF Inv
<1>. DEFINE n == Len(stack)
<1>1. n \in Nat /\ DOMAIN stack = 1 .. n /\ DOMAIN stack' = 1 .. n
  BY FramesExist, LenProperties
<1>2. \A i \in 1 .. n : Private(stack[i])' <=> Private(stack[i])
  BY <1>1 DEF Private
<1>3. \A i \in 1 .. n + 1 : Below(i)' = Below(i)
  <2>. SUFFICES ASSUME NEW i \in 1 .. n + 1 PROVE Below(i)' = Below(i)
    OBVIOUS
  <2>1. \A j \in 1 .. i - 1 : j \in 1 .. n
    BY <1>1
  <2>2. {j \in 1 .. i - 1 : Private(stack[j])'} = {j \in 1 .. i - 1 : Private(stack[j])}
    BY <1>2, <2>1
  <2>. QED  BY <1>1, <2>1, <2>2 DEF Below
<1>4. PrivateLists' = PrivateLists /\ Owned' = Owned
  BY <1>1, <1>3 DEF PrivateLists, Owned
<1>5. TypeInv'
  BY DEF TypeInv
<1>6. OwnInv' /\ KindsInv'
  BY <1>4 DEF OwnInv, KindsInv
<1>7. StackInv'
  <2>1. \A i \in 1 .. n : IF Private(stack[i])' THEN stack'[i].list \notin Below(i)'
                          ELSE stack'[i].list \in Owned' \cup Copied' \cup Below(i)'
    BY <1>1, <1>2, <1>3, <1>4 DEF StackInv
  <2>2. stack' # <<>> => stack'[1].started
    BY <1>1, FramesExist, EmptySeq DEF StackInv
  <2>. QED  BY <1>1, <2>1, <2>2 DEF StackInv
<1>. QED  BY <1>5, <1>6, <1>7 DEF Inv

(***************************************************************************)
(* A call returns, and its list goes if it has one of its own; new are the *)
(* copies that are made.                                                   *)
(***************************************************************************)
LEMMA PopInv ==
  ASSUME Inv, stack # <<>>, stack' = Front(stack), NEW new \in SUBSET Lists,
         new \cap DOMAIN lists = {}, Copied' = Copied \cup new,
         DOMAIN lists' = new \cup (DOMAIN lists \ (IF Private(Last(stack))
                                                   THEN {Last(stack).list} ELSE {})),
         lists' \in [DOMAIN lists' -> ListType],
         saved' \in [DOMAIN saved' -> SavedType], DOMAIN saved' \subseteq DOMAIN lists',
         parent' \in [Lambdas -> DOMAIN lists' \cup {Null}],
         UNCHANGED <<home, own, calls>>
  PROVE  Inv'
<1>. TypeInv /\ OwnInv /\ KindsInv /\ StackInv
  BY DEF Inv
<1>. DEFINE n == Len(stack)
            f == stack[n]
<1>1. n \in Nat \ {0} /\ DOMAIN stack = 1 .. n /\ Last(stack) = f /\ n \in 1 .. n
  <2>1. n \in Nat /\ DOMAIN stack = 1 .. n /\ 1 \in DOMAIN stack
    BY FramesExist
  <2>. QED  BY <2>1 DEF Last
<1>2. /\ stack' \in Seq(FrameType) /\ Len(stack') = n - 1 /\ DOMAIN stack' = 1 .. n - 1
      /\ \A i \in 1 .. n - 1 : i \in 1 .. n /\ stack'[i] = stack[i]
  <2>1. \A k \in Nat \ {0} :
          /\ k - 1 \in Nat /\ (k - 1) - 1 + 1 = k - 1 /\ (1 <= k - 1 \/ k - 1 = 0)
          /\ \A i \in 1 .. k - 1 : 1 + i - 1 = i /\ i \in 1 .. k
    OBVIOUS
  <2>2. \A i \in 1 .. n - 1 : stack[i] \in FrameType
    BY <1>1, <2>1, FramesExist
  <2>3. /\ SubSeq(stack, 1, n - 1) \in Seq(FrameType)
        /\ Len(SubSeq(stack, 1, n - 1)) = IF 1 <= n - 1 THEN (n - 1) - 1 + 1 ELSE 0
        /\ \A i \in 1 .. (n - 1) - 1 + 1 : SubSeq(stack, 1, n - 1)[i] = stack[1 + i - 1]
    BY <1>1, <2>1, <2>2, SubSeqProperties
  <2>4. stack' = SubSeq(stack, 1, n - 1)
    BY DEF Front
  <2>5. Len(stack') = n - 1 /\ \A i \in 1 .. n - 1 : i \in 1 .. n /\ stack'[i] = stack[i]
    BY <1>1, <2>1, <2>3, <2>4
  <2>. QED  BY <2>3, <2>4, <2>5, LenProperties
<1>3. \A i \in 1 .. n - 1 : Private(stack[i])' <=> Private(stack[i])
  BY <1>2 DEF Private
<1>4. \A i \in 1 .. n : Below(i)' = Below(i)
  <2>. SUFFICES ASSUME NEW i \in 1 .. n PROVE Below(i)' = Below(i)
    OBVIOUS
  <2>1. \A j \in 1 .. i - 1 : j \in 1 .. n - 1
    BY <1>1
  <2>2. {j \in 1 .. i - 1 : Private(stack[j])'} = {j \in 1 .. i - 1 : Private(stack[j])}
    BY <1>3, <2>1
  <2>. QED  BY <1>2, <2>1, <2>2 DEF Below
<1>5. /\ PrivateLists' = Below(n)
      /\ PrivateLists = Below(n) \cup (IF Private(f) THEN {f.list} ELSE {})
  <2>1. (n - 1) + 1 = n /\ (n + 1) - 1 = n /\ 1 .. n = 1 .. n - 1 \cup {n}
    BY <1>1
  <2>2. PrivateLists' = {stack'[j].list : j \in {i \in 1 .. n - 1 : Private(stack[i])'}}
    BY <1>2, <2>1 DEF PrivateLists, Below
  <2>3. PrivateLists = {stack[j].list : j \in {i \in 1 .. n : Private(stack[i])}}
    BY <2>1 DEF PrivateLists, Below
  <2>4. Below(n) = {stack[j].list : j \in {i \in 1 .. n - 1 : Private(stack[i])}}
    BY DEF Below
  <2>5. {i \in 1 .. n : Private(stack[i])} =
          {i \in 1 .. n - 1 : Private(stack[i])} \cup (IF Private(f) THEN {n} ELSE {})
    BY <2>1
  <2>6. PrivateLists = Below(n) \cup (IF Private(f) THEN {f.list} ELSE {})
    BY <2>3, <2>4, <2>5
  <2>7. {i \in 1 .. n - 1 : Private(stack[i])'} = {i \in 1 .. n - 1 : Private(stack[i])}
    BY <1>3
  <2>8. PrivateLists' = Below(n)
    BY <1>2, <2>2, <2>4, <2>7
  <2>. QED  BY <2>6, <2>8
<1>6. Private(f) => f.list \notin Below(n)
  BY <1>1 DEF StackInv
<1>7. Owned' = Owned
  BY DEF Owned
<1>8. PrivateLists' = PrivateLists \ (IF Private(f) THEN {f.list} ELSE {})
  BY <1>5, <1>6
<1>9. TypeInv'
  <2>1. DOMAIN lists' \subseteq Lists
    BY DEF TypeInv
  <2>2. parent' \in [Lambdas -> Lists \cup {Null}]
    BY <2>1
  <2>. QED  BY <1>2, <2>1, <2>2 DEF TypeInv
<1>10. OwnInv'
  BY DEF OwnInv
<1>11. KindsInv'
  <2>. DEFINE gone == IF Private(f) THEN {f.list} ELSE {}
  <2>1. gone \subseteq PrivateLists /\ DOMAIN lists' = new \cup (DOMAIN lists \ gone)
    BY <1>1, <1>5
  <2>2. PrivateLists' = PrivateLists \ gone
    BY <1>8
  <2>. HIDE DEF gone
  <2>3. DOMAIN lists' = Owned' \cup Copied' \cup PrivateLists'
    BY <1>7, <2>1, <2>2 DEF KindsInv
  <2>4. /\ Owned' \cap Copied' = {} /\ Owned' \cap PrivateLists' = {}
        /\ Copied' \cap PrivateLists' = {}
    BY <1>7, <2>1, <2>2 DEF KindsInv
  <2>. QED  BY <2>3, <2>4 DEF KindsInv
<1>12. StackInv'
  <2>1. \A i \in 1 .. n - 1 : IF Private(stack[i])' THEN stack'[i].list \notin Below(i)'
                              ELSE stack'[i].list \in Owned' \cup Copied' \cup Below(i)'
    BY <1>1, <1>2, <1>3, <1>4, <1>7 DEF StackInv
  <2>2. stack' # <<>> => stack'[1].started
    <3>1. stack' # <<>> => 1 \in 1 .. n - 1
      BY <1>1, <1>2, EmptySeq
    <3>. QED  BY <1>2, <3>1 DEF StackInv
  <2>3. \A i, j \in 1 .. n - 1 :
          i < j /\ stack'[i].code = stack'[j].code /\ stack'[i].code \in Functions
            => stack'[j].list # own'[stack'[j].code]
    BY <1>1, <1>2 DEF StackInv
  <2>4. \A i \in 1 .. n - 1 : stack'[i].code \in Scripts =>
          stack'[i].list = own'[stack'[i].code] /\ ~stack'[i].backup
    BY <1>1, <1>2 DEF StackInv
  <2>. QED  BY <1>2, <2>1, <2>2, <2>3, <2>4 DEF StackInv
<1>. QED  BY <1>9, <1>10, <1>11, <1>12 DEF Inv

(***************************************************************************)
(* A list ends: it is copied if lambdas are saved with it, and either goes *)
(* or is kept by its function.                                             *)
(***************************************************************************)
LEMMA EndedList ==
  ASSUME Inv, Fits, NEW id \in DOMAIN lists, id \notin Copied, NEW reset \in BOOLEAN,
         lists' = Ended(id, reset), saved' = MarkParentAsDeleted(id),
         parent' = RemoveEventList({id})
  PROVE  /\ Copies(id) \subseteq Lists /\ Copies(id) \cap DOMAIN lists = {}
         /\ Copied' = Copied \cup Copies(id)
         /\ DOMAIN lists' = Copies(id) \cup (DOMAIN lists \ (IF reset THEN {} ELSE {id}))
         /\ lists' \in [DOMAIN lists' -> ListType]
         /\ saved' \in [DOMAIN saved' -> SavedType] /\ DOMAIN saved' \subseteq DOMAIN lists'
         /\ parent' \in [Lambdas -> DOMAIN lists' \cup {Null}]
<1>. TypeInv /\ KindsInv
  BY DEF Inv
<1>. DEFINE kept == DOMAIN lists \ (IF reset THEN {} ELSE {id})
<1>1. Copies(id) \subseteq {Free} /\ Free \in Lists /\ Free \notin DOMAIN lists
  BY FreeList DEF Copies
<1>2. \A i \in DOMAIN lists : lists[i] \in ListType
  BY DEF TypeInv
<1>3. DOMAIN lists' = Copies(id) \cup kept /\ lists' \in [DOMAIN lists' -> ListType]
  <2>1. Fresh(0) \in ListType
    BY DEF Fresh, ListType
  <2>2. lists' = [i \in kept \cup Copies(id) |->
                    IF i \in Copies(id) THEN lists[id] ELSE IF i = id THEN Fresh(0) ELSE lists[i]]
    BY DEF Ended
  <2>3. kept \subseteq DOMAIN lists
    OBVIOUS
  <2>. HIDE DEF kept
  <2>. QED  BY <1>2, <2>1, <2>2, <2>3
<1>4. /\ saved' \in [DOMAIN saved' -> SavedType] /\ DOMAIN saved' \subseteq kept \cup Copies(id)
      /\ Copied' = Copied \cup Copies(id)
  <2>1. CASE Rekeyed(id)
    <3>. DEFINE moved == [saved[id] EXCEPT !.copy = TRUE]
    <3>1. /\ saved' = [i \in (DOMAIN saved \ {id}) \cup Copies(id) |->
                         IF i \in Copies(id) THEN moved ELSE saved[i]]
          /\ id \in DOMAIN saved /\ Copies(id) = {Free}
      BY <2>1 DEF MarkParentAsDeleted, Copies, Rekeyed
    <3>2. \A i \in DOMAIN saved : saved[i] \in SavedType
      BY DEF TypeInv
    <3>3. moved \in SavedType /\ moved.copy
      BY <3>1, <3>2 DEF SavedType
    <3>. HIDE DEF moved
    <3>4. DOMAIN saved' = (DOMAIN saved \ {id}) \cup Copies(id)
          /\ \A i \in DOMAIN saved' : saved'[i] = IF i \in Copies(id) THEN moved ELSE saved[i]
      BY <3>1
    <3>5. saved' \in [DOMAIN saved' -> SavedType]
      BY <3>1, <3>2, <3>3
    <3>6. DOMAIN saved \subseteq DOMAIN lists
      BY DEF KindsInv
    <3>7. Copied' = Copied \cup Copies(id)
      BY <1>1, <3>1, <3>3, <3>4, <3>6 DEF Copied
    <3>. QED  BY <3>4, <3>5, <3>6, <3>7
  <2>2. CASE ~Rekeyed(id)
    <3>1. saved' = saved /\ Copies(id) = {} /\ id \notin DOMAIN saved
      BY <2>2 DEF MarkParentAsDeleted, Copies, Rekeyed, Copied
    <3>2. Copied' = Copied
      BY <3>1 DEF Copied
    <3>. QED  BY <3>1, <3>2 DEF TypeInv, KindsInv
  <2>. QED  BY <2>1, <2>2
<1>5. parent' \in [Lambdas -> DOMAIN lists' \cup {Null}]
  <2>1. parent' = [l \in Lambdas |-> IF parent[l] = id THEN Null ELSE parent[l]]
    BY DEF RemoveEventList
  <2>2. \A l \in Lambdas : parent[l] \in DOMAIN lists \cup {Null}
    BY DEF KindsInv
  <2>. QED  BY <1>3, <2>1, <2>2
<1>. QED  BY <1>1, <1>3, <1>4, <1>5

LEMMA LeaveInv ==
  ASSUME Inv, Leave
  PROVE  Inv'
<1>. DEFINE n == Len(stack)
            f == Last(stack)
<1>1. stack # <<>> /\ Fits /\ stack' = Front(stack) /\ UNCHANGED <<home, own, captured, calls>>
  BY DEF Leave
<1>2. /\ f \in FrameType /\ f.list \in DOMAIN lists /\ n \in DOMAIN stack /\ f = stack[n]
      /\ Private(f) => f.list \in PrivateLists
  <2>1. n \in DOMAIN stack
    BY <1>1, FramesExist
  <2>. QED  BY <2>1, FramesExist DEF Last
<1>. HIDE DEF f
<1>3. CASE f.code \in Functions \/ f.backup
  <2>. DEFINE reset == f.code \in Functions /\ f.list = own[f.code]
  <2>1. /\ parent' = RemoveEventList({f.list}) /\ saved' = MarkParentAsDeleted(f.list)
        /\ lists' = Ended(f.list, reset)
    BY <1>3 DEF Leave, f
  <2>2. reset => f.list \in Owned
    BY DEF Inv, OwnInv, Owned
  <2>3. Private(f) <=> ~reset
    BY <1>2, <1>3, <2>2 DEF Private, Inv, KindsInv
  <2>4. f.list \notin Copied
    BY <1>2, <2>2, <2>3 DEF Inv, KindsInv
  <2>5. reset \in BOOLEAN
    OBVIOUS
  <2>. HIDE DEF reset
  <2>6. /\ Copies(f.list) \subseteq Lists /\ Copies(f.list) \cap DOMAIN lists = {}
        /\ Copied' = Copied \cup Copies(f.list)
        /\ DOMAIN lists' = Copies(f.list) \cup (DOMAIN lists \ (IF reset THEN {} ELSE {f.list}))
        /\ lists' \in [DOMAIN lists' -> ListType]
        /\ saved' \in [DOMAIN saved' -> SavedType] /\ DOMAIN saved' \subseteq DOMAIN lists'
        /\ parent' \in [Lambdas -> DOMAIN lists' \cup {Null}]
    BY <1>1, <1>2, <2>1, <2>4, <2>5, EndedList
  <2>7. DOMAIN lists' = Copies(f.list) \cup
                          (DOMAIN lists \ (IF Private(Last(stack)) THEN {Last(stack).list} ELSE {}))
    BY <2>3, <2>6 DEF f
  <2>. QED  BY <1>1, <2>6, <2>7, PopInv
<1>4. CASE ~(f.code \in Functions \/ f.backup)
  <2>1. UNCHANGED <<parent, saved, lists>>
    BY <1>4 DEF Leave, f
  <2>2. ~Private(Last(stack))
    BY <1>4 DEF Private, f
  <2>3. /\ Copied' = Copied \cup {} /\ {} \in SUBSET Lists
        /\ DOMAIN lists' = {} \cup (DOMAIN lists \ (IF Private(Last(stack))
                                                   THEN {Last(stack).list} ELSE {}))
    BY <2>1, <2>2 DEF Copied
  <2>4. /\ lists' \in [DOMAIN lists' -> ListType]
        /\ saved' \in [DOMAIN saved' -> SavedType] /\ DOMAIN saved' \subseteq DOMAIN lists'
        /\ parent' \in [Lambdas -> DOMAIN lists' \cup {Null}]
    BY <2>1 DEF Inv, TypeInv, KindsInv
  <2>. QED  BY <1>1, <2>3, <2>4, PopInv
<1>. QED  BY <1>3, <1>4

-----------------------------------------------------------------------------
(* The actions *)

LEMMA InitInv ==
  ASSUME Init
  PROVE  Inv
<1>. DEFINE C == Functions \cup Scripts
<1>1. own \in [C -> Lists] /\ \A c, d \in C : own[c] = own[d] => c = d
  <2>1. own \in Injection(C, Lists)
    BY ScriptCallsAssumption DEF Init, ScriptCallsAssumption
  <2>. QED  BY <2>1 DEF Injection, IsInjective
<1>2. \A c \in C : own[c] # Null /\ own[c] \in Lists
  BY <1>1, ScriptCallsAssumption DEF ScriptCallsAssumption, Null
<1>3. Owned = {own[c] : c \in C}
  BY <1>2 DEF Owned
<1>4. DOMAIN lists = Owned /\ \A id \in Owned : lists[id] \in ListType
  <2>1. lists = [id \in {own[c] : c \in DOMAIN own} |->
                   Fresh(IF \E s \in Scripts : own[s] = id THEN -id ELSE 0)] /\ DOMAIN own = C
    BY <1>1 DEF Init
  <2>2. \A id \in Owned : id \in Int
    <3>1. \A id \in Lists : id \in Int
      BY ScriptCallsAssumption DEF ScriptCallsAssumption
    <3>. QED  BY <1>2, <1>3, <3>1
  <2>3. \A id \in Owned : Fresh(IF \E s \in Scripts : own[s] = id THEN -id ELSE 0) \in ListType
    BY <2>2 DEF Fresh, ListType
  <2>. QED  BY <1>3, <2>1, <2>3
<1>5. stack = <<>> /\ saved = <<>> /\ calls = 0 /\ parent = [l \in Lambdas |-> Null]
      /\ home \in [Lambdas -> C]
  BY ScriptCallsAssumption DEF Init, ScriptCallsAssumption
<1>6. Copied = {} /\ PrivateLists = {} /\ DOMAIN saved = {} /\ DOMAIN stack = {}
  BY <1>5 DEF Copied, PrivateLists, Below
<1>7. TypeInv
  <2>1. stack \in Seq(FrameType)
    BY <1>5
  <2>2. saved \in [DOMAIN saved -> SavedType]
    BY <1>6, <1>5
  <2>3. DOMAIN lists \subseteq Lists /\ lists \in [DOMAIN lists -> ListType]
    <3>1. lists = [id \in DOMAIN lists |-> lists[id]]
      BY <1>4 DEF Init
    <3>. QED  BY <1>2, <1>3, <1>4, <3>1
  <2>. QED  BY <1>1, <1>5, <1>6, <2>1, <2>2, <2>3 DEF TypeInv
<1>8. OwnInv
  BY <1>1, <1>2 DEF OwnInv
<1>9. KindsInv
  BY <1>4, <1>5, <1>6 DEF KindsInv
<1>10. StackInv
  BY <1>5, <1>6 DEF StackInv
<1>. QED  BY <1>7, <1>8, <1>9, <1>10 DEF Inv

LEMMA RunScriptInv ==
  ASSUME Inv, NEW s \in Scripts, RunScript(s)
  PROVE  Inv'
<1>. DEFINE f == Frame(s, own[s], FALSE, TRUE)
<1>1. own[s] \in Owned /\ own[s] \in DOMAIN lists /\ own[s] \in Lists
  BY DEF RunScript, Owned, Inv, KindsInv, TypeInv
<1>2. f \in FrameType /\ f.code = s /\ f.list = own[s] /\ ~f.backup /\ f.started
  BY <1>1 DEF Frame, FrameType, Codes
<1>3. ~Private(f) /\ s \notin Functions
  BY <1>2, ScriptCallsAssumption DEF Private, ScriptCallsAssumption
<1>4. stack' = Append(stack, f) /\ UNCHANGED <<home, own, parent, saved, lists, calls>>
  <2>1. stack = <<>> /\ stack' = <<f>> /\ UNCHANGED <<home, own, parent, saved, lists, calls>>
    BY DEF RunScript
  <2>. HIDE DEF f
  <2>. QED  BY <2>1
<1>5. lists' \in [DOMAIN lists' -> ListType] /\ calls' \in Nat
  BY <1>4 DEF Inv, TypeInv
<1>. HIDE DEF f
<1>. QED  BY <1>1, <1>2, <1>3, <1>4, <1>5, PushInv

(***************************************************************************)
(* A new list among the lists.                                             *)
(***************************************************************************)
LEMMA PutList ==
  ASSUME Inv, NEW id \in Lists, NEW call \in Int, lists' = Put(id, Fresh(call))
  PROVE  lists' \in [DOMAIN lists' -> ListType] /\ DOMAIN lists' = DOMAIN lists \cup {id}
<1>1. Fresh(call) \in ListType
  BY DEF Fresh, ListType
<1>2. \A i \in DOMAIN lists : lists[i] \in ListType
  BY DEF Inv, TypeInv
<1>. QED  BY <1>1, <1>2 DEF Put

LEMMA CallFunctionInv ==
  ASSUME Inv, NEW g \in Functions, CallFunction(g)
  PROVE  Inv'
<1>. DEFINE id == IF IsActive(g) THEN Free ELSE own[g]
            f == Frame(g, id, FALSE, stack = <<>>)
<1>1. Fits /\ stack' = Append(stack, f) /\ lists' = Put(id, Fresh(calls + 1))
      /\ calls' = calls + 1 /\ UNCHANGED <<home, own, parent, saved>>
  BY DEF CallFunction
<1>2. own[g] \in Owned /\ own[g] \in DOMAIN lists /\ own[g] \in Lists
  BY DEF Owned, Inv, KindsInv, TypeInv, OwnInv
<1>3. id \in Lists /\ IF IsActive(g) THEN id \notin DOMAIN lists ELSE id = own[g]
  BY <1>1, <1>2, FreeList
<1>. HIDE DEF id
<1>4. /\ f \in FrameType /\ f.code = g /\ f.list = id /\ ~f.backup
      /\ stack = <<>> => f.started
  BY <1>3 DEF Frame, FrameType, Codes
<1>5. g \notin Scripts /\ (Private(f) <=> id # own[g]) /\ (id # own[g] <=> IsActive(g))
  <2>. HIDE DEF f
  <2>1. Private(f) <=> id # own[g]
    BY <1>4 DEF Private
  <2>2. id # own[g] <=> IsActive(g)
    BY <1>2, <1>3 DEF IsActive
  <2>. QED  BY <2>1, <2>2, ScriptCallsAssumption DEF ScriptCallsAssumption
<1>6. ~IsActive(g) => \A i \in DOMAIN stack : stack[i].code # g
  BY DEF IsActive
<1>7. calls + 1 \in Nat /\ calls + 1 \in Int
  BY DEF Inv, TypeInv
<1>8. lists' \in [DOMAIN lists' -> ListType] /\ DOMAIN lists' = DOMAIN lists \cup {id}
  BY <1>1, <1>3, <1>7, PutList
<1>. HIDE DEF f
<1>9. CASE IsActive(g)
  BY <1>1, <1>2, <1>3, <1>4, <1>5, <1>7, <1>8, <1>9, PushInv
<1>10. CASE ~IsActive(g)
  <2>1. DOMAIN lists' = DOMAIN lists
    BY <1>2, <1>3, <1>8, <1>10
  <2>. QED  BY <1>1, <1>2, <1>3, <1>4, <1>5, <1>6, <1>7, <1>8, <1>10, <2>1, PushInv
<1>. QED  BY <1>9, <1>10

LEMMA PushLambdaInv ==
  ASSUME Inv, NEW l \in Lambdas, NEW started \in BOOLEAN, stack = <<>> => started,
         PushLambda(l, started)
  PROVE  Inv'
<1>1. Fits /\ UNCHANGED <<home, own, parent, saved, calls>>
  BY DEF PushLambda
<1>2. l \notin Functions /\ l \notin Scripts /\ calls' \in Nat
  BY <1>1, ScriptCallsAssumption DEF ScriptCallsAssumption, Inv, TypeInv
<1>3. ASSUME NEW id \in GetParentEventList(l),
             stack' = Append(stack, Frame(l, id, FALSE, started)), UNCHANGED lists
      PROVE  Inv'
  <2>. DEFINE f == Frame(l, id, FALSE, started)
  <2>1. id \in DOMAIN lists /\ id \in Lists
    BY DEF GetParentEventList, GetVarListContext, Inv, KindsInv, TypeInv
  <2>2. f \in FrameType /\ f.code = l /\ f.list = id /\ ~f.backup /\ f.started = started
    BY <2>1 DEF Frame, FrameType, Codes
  <2>3. ~Private(f)
    BY <1>2, <2>2 DEF Private
  <2>4. lists' \in [DOMAIN lists' -> ListType]
    BY <1>3 DEF Inv, TypeInv
  <2>. HIDE DEF f
  <2>5. stack' = Append(stack, f)
    BY <1>3 DEF f
  <2>. QED  BY <1>1, <1>2, <1>3, <2>1, <2>2, <2>3, <2>4, <2>5, PushInv
<1>4. ASSUME lists' = Put(Free, Fresh(0)), stack' = Append(stack, Frame(l, Free, TRUE, started))
      PROVE  Inv'
  <2>. DEFINE f == Frame(l, Free, TRUE, started)
  <2>1. Free \in Lists /\ Free \notin DOMAIN lists
    BY <1>1, FreeList
  <2>2. f \in FrameType /\ f.code = l /\ f.list = Free /\ f.backup /\ f.started = started
    BY <2>1 DEF Frame, FrameType, Codes
  <2>3. Private(f)
    BY <2>2 DEF Private
  <2>. HIDE DEF f
  <2>4. lists' \in [DOMAIN lists' -> ListType] /\ DOMAIN lists' = DOMAIN lists \cup {Free}
    <3>1. 0 \in Int
      OBVIOUS
    <3>. QED  BY <1>4, <2>1, <3>1, PutList
  <2>5. stack' = Append(stack, f)
    BY <1>4 DEF f
  <2>. QED  BY <1>1, <1>2, <2>1, <2>2, <2>3, <2>4, <2>5, PushInv
<1>. QED  BY <1>3, <1>4 DEF PushLambda

LEMMA DestroyListInv ==
  ASSUME Inv, NEW s \in Scripts, DestroyList(s)
  PROVE  Inv'
<1>. TypeInv /\ OwnInv /\ KindsInv
  BY DEF Inv
<1>. DEFINE id == own[s]
<1>1. /\ stack = <<>> /\ id # Null /\ Fits /\ own' = [own EXCEPT ![s] = Null]
      /\ parent' = RemoveEventList({id}) /\ saved' = MarkParentAsDeleted(id)
      /\ lists' = Ended(id, FALSE) /\ UNCHANGED <<home, stack, calls>>
  BY DEF DestroyList
<1>2. id \in Owned /\ id \in DOMAIN lists /\ id \notin Copied
  BY <1>1 DEF Owned, KindsInv
<1>3. PrivateLists = {} /\ PrivateLists' = {}
  BY <1>1 DEF PrivateLists, Below
<1>4. Owned' = Owned \ {id}
  <2>1. \A c \in Functions \cup Scripts : own'[c] = IF c = s THEN Null ELSE own[c]
    BY <1>1 DEF TypeInv
  <2>2. \A c \in Functions \cup Scripts : own[c] = id => c = s
    BY <1>1 DEF OwnInv
  <2>. QED  BY <2>1, <2>2 DEF Owned
<1>5. /\ Copies(id) \subseteq Lists /\ Copies(id) \cap DOMAIN lists = {}
      /\ Copied' = Copied \cup Copies(id)
      /\ DOMAIN lists' = Copies(id) \cup (DOMAIN lists \ (IF FALSE THEN {} ELSE {id}))
      /\ lists' \in [DOMAIN lists' -> ListType]
      /\ saved' \in [DOMAIN saved' -> SavedType] /\ DOMAIN saved' \subseteq DOMAIN lists'
      /\ parent' \in [Lambdas -> DOMAIN lists' \cup {Null}]
  <2>. HIDE DEF id
  <2>. QED  BY <1>1, <1>2, EndedList
<1>6. TypeInv'
  <2>1. own' \in [Functions \cup Scripts -> Lists \cup {Null}]
    BY <1>1 DEF TypeInv
  <2>2. DOMAIN lists' \subseteq Lists
    BY <1>5 DEF TypeInv
  <2>3. parent' \in [Lambdas -> Lists \cup {Null}]
    BY <1>5, <2>2
  <2>. QED  BY <1>1, <1>5, <2>1, <2>2, <2>3 DEF TypeInv
<1>7. OwnInv'
  BY <1>1, ScriptCallsAssumption DEF OwnInv, TypeInv, ScriptCallsAssumption
<1>8. KindsInv'
  <2>. HIDE DEF id
  <2>1. DOMAIN lists' = Owned' \cup Copied' \cup PrivateLists'
    BY <1>2, <1>3, <1>4, <1>5 DEF KindsInv
  <2>2. Owned' \cap Copied' = {}
    BY <1>2, <1>4, <1>5 DEF KindsInv
  <2>. QED  BY <1>3, <1>5, <2>1, <2>2 DEF KindsInv
<1>9. StackInv'
  BY <1>1 DEF StackInv
<1>. QED  BY <1>6, <1>7, <1>8, <1>9 DEF Inv

LEMMA EraseUnusedInv ==
  ASSUME Inv, EraseUnused
  PROVE  Inv'
<1>. TypeInv /\ OwnInv /\ KindsInv
  BY DEF Inv
<1>. DEFINE unused == {id \in DOMAIN saved : \A l \in Lambdas : saved[id].count[l] = 0}
            gone   == {id \in unused : saved[id].copy}
<1>1. /\ stack = <<>> /\ UNCHANGED <<home, own, stack, calls>>
      /\ saved' = [id \in DOMAIN saved \ unused |-> saved[id]]
      /\ lists' = [id \in DOMAIN lists \ gone |-> lists[id]]
      /\ parent' = RemoveEventList(gone)
  BY DEF EraseUnused, Restrict
<1>2. gone \subseteq Copied /\ \A id \in Copied : id \in gone <=> id \in unused
  BY DEF Copied
<1>3. unused \subseteq DOMAIN saved
  OBVIOUS
<1>. HIDE DEF unused, gone
<1>4. PrivateLists = {} /\ PrivateLists' = {} /\ Owned' = Owned
  BY <1>1 DEF PrivateLists, Below, Owned
<1>5. Copied' = Copied \ gone
  BY <1>1, <1>2 DEF Copied
<1>6. DOMAIN saved' \subseteq DOMAIN lists'
  <2>1. \A id \in DOMAIN saved \ unused : id \notin gone
    BY <1>2, <1>3 DEF Copied
  <2>. QED  BY <1>1, <2>1 DEF KindsInv
<1>7. parent' \in [Lambdas -> DOMAIN lists' \cup {Null}]
  <2>1. \A l \in Lambdas : parent[l] \in DOMAIN lists \cup {Null}
    BY DEF KindsInv
  <2>. QED  BY <1>1, <2>1 DEF RemoveEventList
<1>8. TypeInv'
  <2>1. DOMAIN lists' \subseteq DOMAIN lists /\ DOMAIN saved' \subseteq DOMAIN saved
    BY <1>1
  <2>2. lists' \in [DOMAIN lists' -> ListType] /\ saved' \in [DOMAIN saved' -> SavedType]
    BY <1>1 DEF TypeInv
  <2>3. parent' \in [Lambdas -> Lists \cup {Null}]
    BY <1>7, <2>1 DEF TypeInv
  <2>. QED  BY <1>1, <2>1, <2>2, <2>3 DEF TypeInv
<1>9. OwnInv' /\ StackInv'
  BY <1>1 DEF OwnInv, StackInv
<1>10. KindsInv'
  <2>1. DOMAIN lists' = Owned' \cup Copied' \cup PrivateLists'
    BY <1>1, <1>2, <1>4, <1>5 DEF KindsInv
  <2>2. Owned' \cap Copied' = {}
    BY <1>4, <1>5 DEF KindsInv
  <2>. QED  BY <1>4, <1>6, <1>7, <2>1, <2>2 DEF KindsInv
<1>. QED  BY <1>8, <1>9, <1>10 DEF Inv

(***************************************************************************)
(* A change to the frame of one call.                                      *)
(***************************************************************************)
LEMMA FrameChange ==
  ASSUME Inv, NEW i \in DOMAIN stack, NEW f \in FrameType, stack' = [stack EXCEPT ![i] = f],
         f.code = stack[i].code, f.list = stack[i].list, f.backup = stack[i].backup,
         stack[i].started => f.started,
         UNCHANGED <<home, own, calls, lists, parent, saved>>
  PROVE  Inv'
<1>1. /\ stack' \in Seq(FrameType) /\ Len(stack') = Len(stack)
      /\ \A j \in DOMAIN stack : stack'[j] = IF j = i THEN f ELSE stack[j]
  BY FramesExist, ExceptSeq DEF Inv, TypeInv
<1>2. /\ lists' \in [DOMAIN lists' -> ListType] /\ parent' \in [Lambdas -> DOMAIN lists \cup {Null}]
      /\ saved' \in [DOMAIN saved' -> SavedType] /\ DOMAIN saved' \subseteq DOMAIN lists
      /\ Copied' = Copied
  BY DEF Inv, TypeInv, KindsInv, Copied
<1>. QED  BY <1>1, <1>2, KeepInv

LEMMA StartBodyInv ==
  ASSUME Inv, StartBody
  PROVE  Inv'
<1>. DEFINE n == Len(stack)
            f == [stack[n] EXCEPT !.started = TRUE]
<1>1. UNCHANGED <<home, own, calls, lists, parent, saved>> /\ stack # <<>>
  BY DEF StartBody
<1>2. n \in DOMAIN stack /\ stack[n] \in FrameType
  BY <1>1, FramesExist
<1>3. f \in FrameType /\ f.code = stack[n].code /\ f.list = stack[n].list
      /\ f.backup = stack[n].backup /\ f.started
  BY <1>2 DEF FrameType
<1>4. stack' = [stack EXCEPT ![n] = f]
  BY DEF StartBody
<1>. HIDE DEF f, n
<1>. QED  BY <1>1, <1>2, <1>3, <1>4, FrameChange

LEMMA EvaluateLambdaInv ==
  ASSUME Inv, NEW l \in Lambdas, EvaluateLambda(l)
  PROVE  Inv'
<1>. TypeInv /\ KindsInv
  BY DEF Inv
<1>1. /\ stack # <<>> /\ UNCHANGED <<home, own, stack, saved, calls>>
      /\ parent' = [parent EXCEPT ![l] = Here.list]
      /\ lists' = [lists EXCEPT ![Here.list].vars = @ \cup {l}]
  BY DEF EvaluateLambda
<1>2. Here.list \in DOMAIN lists
  BY <1>1, EvaluatorPlace
<1>3. lists' \in [DOMAIN lists' -> ListType] /\ DOMAIN lists' = DOMAIN lists
  <2>. DEFINE here == Here.list
              new == [lists[here] EXCEPT !.vars = @ \cup {l}]
  <2>1. lists[here] \in ListType
    BY <1>2 DEF TypeInv
  <2>2. new \in ListType
    BY <2>1 DEF ListType
  <2>3. lists' = [lists EXCEPT ![here] = new]
    BY <1>1
  <2>. HIDE DEF here, new
  <2>. QED  BY <2>2, <2>3 DEF TypeInv
<1>4. parent' \in [Lambdas -> DOMAIN lists \cup {Null}]
  BY <1>1, <1>2 DEF TypeInv, KindsInv
<1>5. /\ stack' \in Seq(FrameType) /\ saved' \in [DOMAIN saved' -> SavedType]
      /\ DOMAIN saved' \subseteq DOMAIN lists /\ Copied' = Copied /\ Len(stack') = Len(stack)
  BY <1>1 DEF TypeInv, KindsInv, Copied
<1>. QED  BY <1>1, <1>3, <1>4, <1>5, KeepInv

(***************************************************************************)
(* Saving and unsaving lambdas changes which lists are saved, and for      *)
(* whom, but no list becomes a copy or stops being one.                    *)
(***************************************************************************)
LEMMA HoldInv ==
  ASSUME Inv, HeldInv, NEW h \in Holders, NEW l \in Lambdas, Hold(h, l)
  PROVE  Inv'
<1>. TypeInv /\ KindsInv
  BY DEF Inv
<1>1. UNCHANGED <<home, lists, own, stack, parent, calls>>
  BY DEF Hold
<1>2. PICK pick \in Picks :
        LET list(k)  == IF parent[k] # Null THEN parent[k] ELSE pick[k]
            children == IF list(l) = Null THEN {} ELSE CaptureChildLambdas(l)
            counted  == {k \in {l} \cup children : list(k) # Null}
        IN  saved' = [id \in DOMAIN saved \cup {list(k) : k \in counted} |->
                        [copy  |-> IsCopy(id),
                         count |-> [k \in Lambdas |->
                            CountIn(id)[k] + IF k \in counted /\ list(k) = id THEN 1 ELSE 0]]]
  BY DEF Hold
<1>. DEFINE list(k)  == IF parent[k] # Null THEN parent[k] ELSE pick[k]
            children == IF list(l) = Null THEN {} ELSE CaptureChildLambdas(l)
            counted  == {k \in {l} \cup children : list(k) # Null}
            more(id, k) == IF k \in counted /\ list(k) = id THEN 1 ELSE 0
            D == DOMAIN saved \cup {list(k) : k \in counted}
<1>3. saved' = [id \in D |-> [copy  |-> IsCopy(id),
                              count |-> [k \in Lambdas |-> CountIn(id)[k] + more(id, k)]]]
  BY <1>2
<1>4. counted \subseteq Lambdas
  <2>1. children \subseteq Lambdas
    BY ScriptCallsAssumption DEF CaptureChildLambdas, HeldInv, ScriptCallsAssumption
  <2>. QED  BY <2>1
<1>5. D \subseteq DOMAIN lists
  <2>1. \A k \in Lambdas : parent[k] \in DOMAIN lists \cup {Null}
                           /\ pick[k] \in DOMAIN saved \cup {Null}
    BY DEF KindsInv, Picks
  <2>2. \A k \in counted : list(k) \in DOMAIN lists
    BY <1>4, <2>1 DEF KindsInv
  <2>. QED  BY <2>2 DEF KindsInv
<1>6. \A id \in D : \A k \in Lambdas : CountIn(id)[k] \in Int /\ more(id, k) \in Int
  BY DEF CountIn, NoCount, TypeInv, SavedType
<1>7. \A id \in D : IsCopy(id) \in BOOLEAN
  BY DEF IsCopy, TypeInv, SavedType
<1>8. saved' \in [DOMAIN saved' -> SavedType] /\ DOMAIN saved' = D
  <2>. HIDE DEF D, more
  <2>1. \A id \in D : [copy  |-> IsCopy(id),
                       count |-> [k \in Lambdas |-> CountIn(id)[k] + more(id, k)]] \in SavedType
    BY <1>6, <1>7 DEF SavedType
  <2>. QED  BY <1>3, <2>1
<1>9. Copied' = Copied
  <2>1. \A id \in D : saved'[id].copy = IsCopy(id)
    BY <1>3
  <2>2. DOMAIN saved \subseteq D
    OBVIOUS
  <2>. HIDE DEF D
  <2>. QED  BY <1>8, <2>1, <2>2 DEF Copied, IsCopy
<1>10. /\ stack' \in Seq(FrameType) /\ Len(stack') = Len(stack)
       /\ lists' \in [DOMAIN lists' -> ListType] /\ parent' \in [Lambdas -> DOMAIN lists \cup {Null}]
  BY <1>1 DEF TypeInv, KindsInv
<1>. HIDE DEF D
<1>. QED  BY <1>1, <1>5, <1>8, <1>9, <1>10, KeepInv

LEMMA ReleaseInv ==
  ASSUME Inv, NEW h \in Holders, Release(h)
  PROVE  Inv'
<1>. TypeInv /\ KindsInv
  BY DEF Inv
<1>1. UNCHANGED <<home, lists, own, stack, parent, calls>>
  BY DEF Release
<1>2. PICK pick \in Picks :
       LET l == hold[h].lambda
           released == IF pick[l] = Null THEN {}
                       ELSE {k \in {l} \cup captured[l] : pick[k] # Null}
       IN  saved' = [id \in DOMAIN saved |-> [saved[id] EXCEPT !.count =
                       [k \in Lambdas |-> @[k] - IF k \in released /\ pick[k] = id THEN 1 ELSE 0]]]
  BY DEF Release
<1>. DEFINE l == hold[h].lambda
            released == IF pick[l] = Null THEN {}
                        ELSE {k \in {l} \cup captured[l] : pick[k] # Null}
            less(id, k) == IF k \in released /\ pick[k] = id THEN 1 ELSE 0
            left(id) == [k \in Lambdas |-> saved[id].count[k] - less(id, k)]
<1>3. saved' = [id \in DOMAIN saved |-> [saved[id] EXCEPT !.count = left(id)]]
  BY <1>2
<1>4. \A id \in DOMAIN saved : left(id) \in [Lambdas -> Int]
  <2>1. \A id \in DOMAIN saved : \A k \in Lambdas : saved[id].count[k] \in Int /\ less(id, k) \in Int
    BY DEF TypeInv, SavedType
  <2>. HIDE DEF less
  <2>. QED  BY <2>1
<1>. HIDE DEF left
<1>5. \A id \in DOMAIN saved : /\ [saved[id] EXCEPT !.count = left(id)] \in SavedType
                               /\ [saved[id] EXCEPT !.count = left(id)].copy = saved[id].copy
  BY <1>4 DEF TypeInv, SavedType
<1>6. /\ saved' \in [DOMAIN saved' -> SavedType] /\ DOMAIN saved' = DOMAIN saved
      /\ \A id \in DOMAIN saved : saved'[id].copy = saved[id].copy
  BY <1>3, <1>5
<1>7. Copied' = Copied
  BY <1>6 DEF Copied
<1>8. /\ stack' \in Seq(FrameType) /\ Len(stack') = Len(stack) /\ DOMAIN saved' \subseteq DOMAIN lists
      /\ lists' \in [DOMAIN lists' -> ListType] /\ parent' \in [Lambdas -> DOMAIN lists \cup {Null}]
  BY <1>1, <1>6 DEF TypeInv, KindsInv
<1>. QED  BY <1>1, <1>6, <1>7, <1>8, KeepInv

LEMMA CallLambdaInv ==
  ASSUME Inv, NEW l \in Lambdas, CallLambda(l)
  PROVE  Inv'
BY PushLambdaInv DEF CallLambda

LEMMA CallHeldInv ==
  ASSUME Inv, HeldInv, NEW h \in Holders, CallHeld(h)
  PROVE  Inv'
<1>1. hold[h].lambda \in Lambdas
  BY DEF CallHeld, HeldInv
<1>. QED  BY <1>1, PushLambdaInv DEF CallHeld

(***************************************************************************)
(* A step of the whole.                                                    *)
(***************************************************************************)
LEMMA NextInv ==
  ASSUME Inv, HeldInv, [Next]_vars
  PROVE  Inv'
<1>1. CASE Next
  <2>1. ASSUME NEW s \in Scripts, RunScript(s) PROVE Inv'
    BY <2>1, RunScriptInv
  <2>2. ASSUME NEW s \in Scripts, DestroyList(s) PROVE Inv'
    BY <2>2, DestroyListInv
  <2>3. ASSUME NEW f \in Functions, CallFunction(f) PROVE Inv'
    BY <2>3, CallFunctionInv
  <2>4. ASSUME StartBody PROVE Inv'
    BY <2>4, StartBodyInv
  <2>5. ASSUME Leave \/ EraseUnused PROVE Inv'
    BY <2>5, LeaveInv, EraseUnusedInv
  <2>6. ASSUME NEW l \in Lambdas, CallLambda(l) \/ EvaluateLambda(l) PROVE Inv'
    BY <2>6, CallLambdaInv, EvaluateLambdaInv
  <2>7. ASSUME NEW l \in Lambdas, NEW h \in Holders, Hold(h, l) PROVE Inv'
    BY <2>7, HoldInv
  <2>8. ASSUME NEW h \in Holders, CallHeld(h) \/ Release(h) PROVE Inv'
    BY <2>8, CallHeldInv, ReleaseInv
  <2>. QED  BY <1>1, <2>1, <2>2, <2>3, <2>4, <2>5, <2>6, <2>7, <2>8 DEF Next
<1>2. CASE UNCHANGED vars
  <2>1. UNCHANGED <<home, own, stack, saved, calls, lists, parent>>
    BY <1>2 DEF vars
  <2>. QED
    BY <2>1 DEF Inv, TypeInv, OwnInv, KindsInv, StackInv, Owned, Copied, PrivateLists,
               Below, Private
<1>. QED  BY <1>1, <1>2

LEMMA NextHeldInv ==
  ASSUME Inv, HeldInv, [Next]_vars
  PROVE  HeldInv'
<1>1. CASE UNCHANGED <<captured, hold>>
  BY <1>1 DEF HeldInv
<1>2. ASSUME NEW h \in Holders, NEW l \in Lambdas, Hold(h, l)
      PROVE  HeldInv'
  <2>1. lists[Here.list] \in ListType
    BY <1>2, EvaluatorPlace DEF Hold, Inv, TypeInv
  <2>. DEFINE mentions == Refs[l] \cap lists[Here.list].vars
  <2>2. mentions \subseteq Lambdas /\ lists[Here.list].call \in Int
    BY <2>1 DEF ListType
  <2>3. hold' = [hold EXCEPT ![h] = [lambda |-> l, children |-> mentions,
                                     call |-> lists[Here.list].call]]
    BY <1>2 DEF Hold
  <2>. HIDE DEF mentions
  <2>4. hold' \in [Holders -> [lambda : Lambdas \cup {Null}, children : SUBSET Lambdas, call : Int]]
    BY <2>2, <2>3 DEF HeldInv
  <2>5. captured' \in [Lambdas -> (SUBSET Lambdas) \cup {Unknown}]
    <3>1. PICK pick \in Picks :
            LET list(k)  == IF parent[k] # Null THEN parent[k] ELSE pick[k]
                children == IF list(l) = Null THEN {} ELSE CaptureChildLambdas(l)
                counted  == {k \in {l} \cup children : list(k) # Null}
            IN  captured' = [k \in Lambdas |-> IF k = l /\ k \in counted THEN children
                                               ELSE IF k \in counted THEN {} ELSE captured[k]]
      BY <1>2 DEF Hold
    <3>2. CaptureChildLambdas(l) \subseteq Lambdas \/ CaptureChildLambdas(l) \in SUBSET Lambdas
      BY ScriptCallsAssumption DEF CaptureChildLambdas, HeldInv, ScriptCallsAssumption
    <3>. QED  BY <3>1, <3>2 DEF HeldInv
  <2>. QED  BY <2>4, <2>5 DEF HeldInv
<1>3. ASSUME NEW h \in Holders, Release(h)
      PROVE  HeldInv'
  BY <1>3 DEF Release, HeldInv
<1>4. CASE UNCHANGED vars
  BY <1>1, <1>4 DEF vars
<1>. QED
  BY <1>1, <1>2, <1>3, <1>4 DEF Next, RunScript, DestroyList, CallFunction, StartBody, Leave,
     EraseUnused, CallLambda, PushLambda, EvaluateLambda, CallHeld

LEMMA InitHeldInv ==
  ASSUME Init
  PROVE  HeldInv
BY DEF Init, HeldInv

-----------------------------------------------------------------------------
(* The theorems *)

LEMMA ListsHaveOwners ==
  ASSUME Inv
  PROVE  CallsOwnLists
<1>. TypeInv /\ OwnInv /\ KindsInv /\ StackInv
  BY DEF Inv
<1>1. ListsOwned
  <2>1. Owned = {own[c] : c \in DOMAIN own} \ {Null}
    BY DEF Owned, TypeInv
  <2>2. Copied \subseteq DOMAIN saved /\ DOMAIN saved \subseteq DOMAIN lists
    BY DEF Copied, KindsInv
  <2>3. /\ PrivateLists \subseteq {stack[i].list : i \in DOMAIN stack}
        /\ {stack[i].list : i \in DOMAIN stack} \subseteq DOMAIN lists
    BY FramesExist
  <2>. QED  BY <2>1, <2>2, <2>3 DEF ListsOwned, KindsInv
<1>2. OwnVariables
  <2>1. ASSUME NEW i \in DOMAIN stack, NEW j \in DOMAIN stack, i < j,
               stack[i].code \in Functions, stack[j].code \in Functions
        PROVE  stack[i].list # stack[j].list
    <3>1. DOMAIN stack = 1 .. Len(stack) /\ Len(stack) \in Nat
      BY FramesExist
    <3>2. ASSUME NEW k \in DOMAIN stack, stack[k].code \in Functions, ~Private(stack[k])
          PROVE  stack[k].list = own[stack[k].code] /\ stack[k].list \in Owned
      BY <3>2 DEF Private, OwnInv, Owned
    <3>3. ASSUME NEW k \in DOMAIN stack, Private(stack[k])
          PROVE  stack[k].list \in PrivateLists
      BY <3>3, FramesExist
    <3>4. CASE Private(stack[i]) /\ Private(stack[j])
      <4>1. stack[i].list \in Below(j)
        BY <2>1, <3>1, <3>4 DEF Below
      <4>. QED  BY <3>4, <4>1 DEF StackInv
    <3>5. CASE ~Private(stack[i]) /\ ~Private(stack[j])
      BY <2>1, <3>2, <3>5 DEF StackInv, OwnInv
    <3>6. CASE ~(Private(stack[i]) <=> Private(stack[j]))
      BY <2>1, <3>2, <3>3, <3>6 DEF KindsInv
    <3>. QED  BY <3>4, <3>5, <3>6
  <2>2. \A i, j \in DOMAIN stack : i # j => i < j \/ j < i
    <3>1. DOMAIN stack = 1 .. Len(stack) /\ Len(stack) \in Nat
      BY FramesExist
    <3>. QED  BY <3>1
  <2>. QED  BY <2>1, <2>2 DEF OwnVariables
<1>. QED  BY <1>1, <1>2 DEF CallsOwnLists

(***************************************************************************)
(* Every list has one owner, and calls of functions under way never share  *)
(* one (CallsOwnLists: FunctionInfo::IsActive, RemoveEventList).  Nothing  *)
(* is assumed of the scripts: not that they evaluate or store lambdas as   *)
(* the lists are made for (Careful).                                       *)
(***************************************************************************)
THEOREM CallsKeepTheirLists == Spec => []CallsOwnLists
<1>1. Init => Inv /\ HeldInv
  BY InitInv, InitHeldInv
<1>2. Inv /\ HeldInv /\ [Next]_vars => (Inv /\ HeldInv)'
  BY NextInv, NextHeldInv
<1>3. Inv => CallsOwnLists
  BY ListsHaveOwners
<1>. QED  BY <1>1, <1>2, <1>3, PTL DEF Spec

-----------------------------------------------------------------------------
(* The list a function keeps for itself is reset by the next call that uses *)
(* it.  So nobody may count on it between calls: it is run on, saved and    *)
(* the parent of lambdas only while the call that uses it is under way.    *)

\* The call of f that uses its own list is among the first n.
UsesOwn(f, n) == \E j \in 1 .. n : stack[j].code = f /\ stack[j].list = own[f]

OwnUse ==
  \A f \in Functions :
    /\ \A i \in DOMAIN stack :
         stack[i].code = f \/ stack[i].list = own[f] => UsesOwn(f, i)
    /\ own[f] \in DOMAIN saved \/ (\E l \in Lambdas : parent[l] = own[f])
         => UsesOwn(f, Len(stack))

LEMMA OwnInUse ==
  ASSUME Inv, OwnUse, NEW f \in Functions
  PROVE  /\ \A i \in DOMAIN stack : UsesOwn(f, i) => UsesOwn(f, Len(stack))
         /\ IsActive(f) <=> UsesOwn(f, Len(stack))
<1>1. DOMAIN stack = 1 .. Len(stack) /\ Len(stack) \in Nat
  BY FramesExist
<1>2. \A i \in DOMAIN stack : UsesOwn(f, i) => UsesOwn(f, Len(stack))
  BY <1>1 DEF UsesOwn
<1>3. UsesOwn(f, Len(stack)) => IsActive(f)
  BY <1>1 DEF UsesOwn, IsActive
<1>. QED  BY <1>2, <1>3 DEF IsActive, OwnUse

(***************************************************************************)
(* A call is added, on a list its function does not use, or the function's *)
(* own, while that is free.                                                *)
(***************************************************************************)
LEMMA PushOwnUse ==
  ASSUME Inv, OwnUse, NEW g \in FrameType, stack' = Append(stack, g),
         UNCHANGED <<own, parent, saved>>,
         \A f \in Functions : g.code = f \/ g.list = own[f] =>
           IsActive(f) \/ (g.code = f /\ g.list = own[f])
  PROVE  OwnUse'
<1>. PICK n \in Nat : n = Len(stack)
  BY FramesExist
<1>1. /\ DOMAIN stack = 1 .. n /\ Len(stack') = n + 1 /\ DOMAIN stack' = 1 .. n + 1
      /\ stack'[n + 1] = g /\ \A i \in 1 .. n : stack'[i] = stack[i]
  BY FramesExist, AppendProperties DEF Inv, TypeInv
<1>2. \A f \in Functions : \A i \in 1 .. n : UsesOwn(f, i) => UsesOwn(f, i)'
  BY <1>1 DEF UsesOwn
<1>3. \A f \in Functions : UsesOwn(f, n) => UsesOwn(f, n + 1)'
  BY <1>1 DEF UsesOwn
<1>4. \A f \in Functions : g.code = f /\ g.list = own[f] => UsesOwn(f, n + 1)'
  BY <1>1 DEF UsesOwn
<1>5. \A f \in Functions : IsActive(f) <=> UsesOwn(f, n)
  BY OwnInUse
<1>6. \A f \in Functions : \A i \in 1 .. n + 1 :
        stack'[i].code = f \/ stack'[i].list = own'[f] => UsesOwn(f, i)'
  <2>1. \A i \in 1 .. n + 1 : i \in 1 .. n \/ i = n + 1
    BY <1>1
  <2>. QED  BY <1>1, <1>2, <1>3, <1>4, <1>5, <2>1 DEF OwnUse
<1>. QED  BY <1>1, <1>3, <1>6 DEF OwnUse

LEMMA KeepOwnUse ==
  ASSUME Inv, OwnUse, \A f \in Functions : own'[f] = own[f],
         Len(stack') = Len(stack), DOMAIN stack' = DOMAIN stack,
         \A i \in DOMAIN stack : stack'[i].code = stack[i].code /\ stack'[i].list = stack[i].list,
         \A id \in DOMAIN saved' : id \in DOMAIN saved
           \/ (\E l \in Lambdas : parent[l] = id) \/ (\E i \in DOMAIN stack : stack[i].list = id)
           \/ \A f \in Functions : id # own[f],
         \A l \in Lambdas : parent'[l] \in {parent[l], Null}
                              \/ \E i \in DOMAIN stack : stack[i].list = parent'[l]
  PROVE  OwnUse'
<1>1. DOMAIN stack = 1 .. Len(stack) /\ Len(stack) \in Nat
  BY FramesExist
<1>2. \A f \in Functions : \A i \in DOMAIN stack : UsesOwn(f, i) <=> UsesOwn(f, i)'
  BY <1>1 DEF UsesOwn
<1>3. \A f \in Functions : UsesOwn(f, Len(stack)) <=> UsesOwn(f, Len(stack))'
  BY <1>1 DEF UsesOwn
<1>4. \A f \in Functions : \A i \in DOMAIN stack : stack[i].list = own[f] => UsesOwn(f, Len(stack))
  BY OwnInUse DEF OwnUse
<1>5. \A f \in Functions : own[f] # Null
  BY DEF Inv, OwnInv
<1>. QED  BY <1>2, <1>3, <1>4, <1>5 DEF OwnUse

(***************************************************************************)
(* The last call returns: its list, if it was the function's own, is       *)
(* nobody's parent any more, and is not saved.                             *)
(***************************************************************************)
LEMMA LeaveOwnUse ==
  ASSUME Inv, OwnUse, Leave
  PROVE  OwnUse'
<1>. PICK n \in Nat : n = Len(stack)
  BY FramesExist
<1>. DEFINE g == stack[n]
<1>1. /\ stack # <<>> /\ Fits /\ stack' = Front(stack) /\ own' = own /\ Last(stack) = g
      /\ DOMAIN stack = 1 .. n /\ n # 0 /\ n \in DOMAIN stack
  BY FramesExist DEF Leave, Last
<1>2. /\ Len(stack') = n - 1 /\ DOMAIN stack' = 1 .. n - 1
      /\ \A i \in 1 .. n - 1 : stack'[i] = stack[i] /\ i \in DOMAIN stack
  <2>1. stack' = [i \in 1 .. n - 1 |-> stack[i]]
    BY <1>1 DEF Front
  <2>. QED  BY <1>1, <2>1
<1>3. g \in FrameType /\ g.list \in DOMAIN lists /\ (Private(g) => g.list \in PrivateLists)
  BY <1>1, FramesExist
<1>. HIDE DEF g
<1>4. \A f \in Functions : \A i \in 1 .. n - 1 : UsesOwn(f, i) => UsesOwn(f, i)'
  <2>. SUFFICES ASSUME NEW f \in Functions, NEW i \in 1 .. n - 1, UsesOwn(f, i)
                PROVE  UsesOwn(f, i)'
    OBVIOUS
  <2>1. PICK j \in 1 .. i : stack[j].code = f /\ stack[j].list = own[f]
    BY DEF UsesOwn
  <2>2. stack'[j] = stack[j]
    BY <1>2, <2>1
  <2>. QED  BY <1>1, <2>1, <2>2 DEF UsesOwn
<1>5. \A f \in Functions : \A i \in DOMAIN stack' :
        stack'[i].code = f \/ stack'[i].list = own'[f] => UsesOwn(f, i)'
  BY <1>1, <1>2, <1>4 DEF OwnUse
<1>6. ASSUME NEW f \in Functions, UsesOwn(f, n), ~UsesOwn(f, n - 1)'
      PROVE  g.code = f /\ g.list = own[f]
  <2>1. PICK j \in 1 .. n : stack[j].code = f /\ stack[j].list = own[f]
    BY <1>6 DEF UsesOwn
  <2>2. j = n
    BY <1>1, <1>2, <1>6, <2>1 DEF UsesOwn
  <2>. QED  BY <2>1, <2>2 DEF g
<1>7. ASSUME NEW f \in Functions,
             own[f] \in DOMAIN saved' \/ (\E l \in Lambdas : parent'[l] = own[f])
      PROVE  UsesOwn(f, n - 1)'
  <2>1. own[f] \in DOMAIN lists /\ own[f] # Null /\ own[f] \notin Copied
    BY DEF Inv, KindsInv, OwnInv, Owned
  <2>2. CASE g.code \in Functions \/ g.backup
    <3>1. parent' = RemoveEventList({g.list}) /\ saved' = MarkParentAsDeleted(g.list)
      BY <1>1, <2>2 DEF Leave
    <3>2. Copies(g.list) \cap DOMAIN lists = {}
      BY <1>1, FreeList DEF Copies
    <3>3. own[f] \in DOMAIN saved' => own[f] \in DOMAIN saved /\ own[f] # g.list
      <4>1. CASE Rekeyed(g.list)
        BY <2>1, <3>1, <3>2, <4>1 DEF MarkParentAsDeleted
      <4>2. CASE ~Rekeyed(g.list)
        BY <2>1, <3>1, <4>2 DEF MarkParentAsDeleted, Rekeyed, Copied
      <4>. QED  BY <4>1, <4>2
    <3>4. \A l \in Lambdas : parent'[l] = own[f] => parent[l] = own[f] /\ own[f] # g.list
      BY <2>1, <3>1 DEF RemoveEventList
    <3>. QED  BY <1>6, <1>7, <3>3, <3>4 DEF OwnUse
  <2>3. CASE ~(g.code \in Functions \/ g.backup)
    <3>1. UNCHANGED <<parent, saved>>
      BY <1>1, <2>3 DEF Leave
    <3>. QED  BY <1>6, <1>7, <2>3, <3>1 DEF OwnUse
  <2>. QED  BY <2>2, <2>3
<1>. QED  BY <1>1, <1>2, <1>5, <1>7 DEF OwnUse

LEMMA DestroyListOwnUse ==
  ASSUME Inv, OwnUse, NEW s \in Scripts, DestroyList(s)
  PROVE  OwnUse'
<1>1. /\ stack = <<>> /\ own' = [own EXCEPT ![s] = Null] /\ stack' = stack /\ Fits
      /\ parent' = RemoveEventList({own[s]}) /\ saved' = MarkParentAsDeleted(own[s])
  BY DEF DestroyList
<1>2. /\ \A f \in Functions : own'[f] = own[f] /\ own[f] \in DOMAIN lists
      /\ Free \notin DOMAIN lists
  BY <1>1, FreeList, ScriptCallsAssumption
     DEF ScriptCallsAssumption, Inv, TypeInv, OwnInv, KindsInv, Owned
<1>3. \A id \in DOMAIN saved' : id \in DOMAIN saved \/ id = Free
  BY <1>1 DEF MarkParentAsDeleted, Copies
<1>4. \A l \in Lambdas : parent'[l] \in {parent[l], Null}
  BY <1>1 DEF RemoveEventList
<1>. QED  BY <1>1, <1>2, <1>3, <1>4, KeepOwnUse

LEMMA PushesOwnUse ==
  ASSUME Inv, OwnUse,
         \/ \E s \in Scripts : RunScript(s)
         \/ \E f \in Functions : CallFunction(f)
         \/ \E l \in Lambdas, b \in BOOLEAN : PushLambda(l, b)
  PROVE  OwnUse'
<1>1. ASSUME NEW s \in Scripts, RunScript(s)
      PROVE  OwnUse'
  <2>. DEFINE g == Frame(s, own[s], FALSE, TRUE)
  <2>1. own[s] # Null /\ own[s] \in Lists /\ s \notin Functions
    BY <1>1, ScriptCallsAssumption DEF RunScript, ScriptCallsAssumption, Inv, TypeInv
  <2>2. g \in FrameType /\ g.code = s /\ g.list = own[s]
    BY <2>1 DEF Frame, FrameType, Codes
  <2>. HIDE DEF g
  <2>3. stack' = Append(stack, g) /\ UNCHANGED <<own, parent, saved>>
    BY <1>1 DEF RunScript, g
  <2>4. \A f \in Functions : own[s] # own[f]
    BY <2>1 DEF Inv, OwnInv
  <2>. QED  BY <2>1, <2>2, <2>3, <2>4, PushOwnUse
<1>2. ASSUME NEW c \in Functions, CallFunction(c)
      PROVE  OwnUse'
  <2>. DEFINE id == IF IsActive(c) THEN Free ELSE own[c]
              g  == Frame(c, id, FALSE, stack = <<>>)
  <2>1. \A f \in Functions : own[f] \in DOMAIN lists /\ own[f] \in Lists /\ own[f] # Null
    BY DEF Inv, KindsInv, TypeInv, OwnInv, Owned
  <2>2. Free \in Lists /\ Free \notin DOMAIN lists
    BY <1>2, FreeList DEF CallFunction
  <2>3. \A f \in Functions : id = own[f] => f = c /\ ~IsActive(c)
    BY <2>1, <2>2 DEF Inv, OwnInv
  <2>4. id \in Lists /\ (~IsActive(c) => id = own[c])
    BY <2>1, <2>2
  <2>. HIDE DEF id
  <2>5. g \in FrameType /\ g.code = c /\ g.list = id
    BY <2>4 DEF Frame, FrameType, Codes
  <2>6. stack' = Append(stack, g) /\ UNCHANGED <<own, parent, saved>>
    BY <1>2 DEF CallFunction, id
  <2>. HIDE DEF g
  <2>. QED  BY <2>3, <2>4, <2>5, <2>6, PushOwnUse
<1>3. ASSUME NEW l \in Lambdas, NEW b \in BOOLEAN, PushLambda(l, b)
      PROVE  OwnUse'
  <2>1. Fits /\ UNCHANGED <<own, parent, saved>> /\ l \notin Functions
    BY <1>3, ScriptCallsAssumption DEF PushLambda, ScriptCallsAssumption
  <2>2. PICK id \in Lists : \E backup \in BOOLEAN :
          /\ stack' = Append(stack, Frame(l, id, backup, b))
          /\ id = Free \/ parent[l] = id \/ id \in DOMAIN saved
    <3>1. Free \in Lists
      BY <2>1, FreeList
    <3>2. GetParentEventList(l) \subseteq Lists
      BY DEF GetParentEventList, GetVarListContext, Inv, TypeInv, Null
    <3>. QED  BY <1>3, <3>1, <3>2 DEF PushLambda, GetParentEventList, GetVarListContext
  <2>3. PICK backup \in BOOLEAN : stack' = Append(stack, Frame(l, id, backup, b))
    BY <2>2
  <2>. DEFINE g == Frame(l, id, backup, b)
  <2>4. g \in FrameType /\ g.code = l /\ g.list = id
    BY <2>2 DEF Frame, FrameType, Codes
  <2>5. \A f \in Functions : id = own[f] => UsesOwn(f, Len(stack))
    <3>1. \A f \in Functions : own[f] \in DOMAIN lists /\ Free \notin DOMAIN lists
      BY <2>1, FreeList DEF Inv, KindsInv, OwnInv, Owned
    <3>. QED  BY <2>2, <3>1 DEF OwnUse
  <2>6. stack' = Append(stack, g)
    BY <2>3
  <2>. HIDE DEF g
  <2>. QED  BY <2>1, <2>4, <2>5, <2>6, OwnInUse, PushOwnUse
<1>. QED  BY <1>1, <1>2, <1>3

LEMMA HoldKeeps ==
  ASSUME Inv, HeldInv, NEW h \in Holders, NEW l \in Lambdas, Hold(h, l)
  PROVE  /\ \A id \in DOMAIN saved' :
              id \in DOMAIN saved \/ (\E k \in Lambdas : parent[k] = id) \/ id = Null
         /\ \A id \in DOMAIN saved : id \in DOMAIN saved' /\ \A k \in Lambdas :
              \/ saved'[id].count[k] = saved[id].count[k]
              \/ saved'[id].count[k] = saved[id].count[k] + 1
<1>1. PICK pick \in Picks :
        LET list(k)  == IF parent[k] # Null THEN parent[k] ELSE pick[k]
            children == IF list(l) = Null THEN {} ELSE CaptureChildLambdas(l)
            counted  == {k \in {l} \cup children : list(k) # Null}
        IN  saved' = [id \in DOMAIN saved \cup {list(k) : k \in counted} |->
                        [copy  |-> IsCopy(id),
                         count |-> [k \in Lambdas |->
                            CountIn(id)[k] + IF k \in counted /\ list(k) = id THEN 1 ELSE 0]]]
  BY DEF Hold
<1>. DEFINE list(k)  == IF parent[k] # Null THEN parent[k] ELSE pick[k]
            children == IF list(l) = Null THEN {} ELSE CaptureChildLambdas(l)
            counted  == {k \in {l} \cup children : list(k) # Null}
            more(id, k) == IF k \in counted /\ list(k) = id THEN 1 ELSE 0
            D == DOMAIN saved \cup {list(k) : k \in counted}
            new(id) == [copy  |-> IsCopy(id),
                        count |-> [k \in Lambdas |-> CountIn(id)[k] + more(id, k)]]
<1>2. saved' = [id \in D |-> new(id)]
  BY <1>1
<1>3. counted \subseteq Lambdas
  <2>1. children \subseteq Lambdas
    BY ScriptCallsAssumption DEF CaptureChildLambdas, HeldInv, ScriptCallsAssumption
  <2>. QED  BY <2>1
<1>4. \A k \in Lambdas : list(k) = parent[k] \/ list(k) \in DOMAIN saved \cup {Null}
  BY DEF Picks
<1>5. \A id \in D : id \in DOMAIN saved \/ (\E k \in Lambdas : parent[k] = id) \/ id = Null
  <2>. HIDE DEF list
  <2>. QED  BY <1>3, <1>4
<1>6. ASSUME NEW id \in DOMAIN saved, NEW k \in Lambdas
      PROVE  new(id).count[k] = saved[id].count[k] \/ new(id).count[k] = saved[id].count[k] + 1
  <2>1. CountIn(id)[k] = saved[id].count[k] /\ saved[id].count[k] \in Int
    BY <1>6 DEF CountIn, Inv, TypeInv, SavedType
  <2>2. more(id, k) \in {0, 1} /\ new(id).count[k] = CountIn(id)[k] + more(id, k)
    BY <1>6
  <2>. HIDE DEF more, new
  <2>. QED  BY <2>1, <2>2
<1>. HIDE DEF D, new
<1>7. DOMAIN saved' = D /\ \A id \in D : saved'[id] = new(id)
  BY <1>2
<1>8. DOMAIN saved \subseteq D
  BY DEF D
<1>. QED  BY <1>5, <1>6, <1>7, <1>8

LEMMA NextOwnUse ==
  ASSUME Inv, HeldInv, OwnUse, [Next]_vars
  PROVE  OwnUse'
<1>1. CASE UNCHANGED vars
  BY <1>1 DEF vars, OwnUse, UsesOwn
<1>2. CASE StartBody
  <2>1. \A i \in DOMAIN stack : /\ stack'[i].code = stack[i].code
                                /\ stack'[i].list = stack[i].list
    BY <1>2, FramesExist DEF StartBody, FrameType
  <2>. QED  BY <1>2, <2>1, FramesExist, KeepOwnUse DEF StartBody, Inv, TypeInv
<1>3. CASE EraseUnused
  BY <1>3, KeepOwnUse DEF EraseUnused, Restrict, RemoveEventList
<1>4. ASSUME NEW l \in Lambdas, EvaluateLambda(l)
      PROVE  OwnUse'
  <2>1. Evaluator \in DOMAIN stack
    BY <1>4, EvaluatorPlace DEF EvaluateLambda
  <2>2. UNCHANGED <<own, stack, saved>> /\ parent' = [parent EXCEPT ![l] = stack[Evaluator].list]
    BY <1>4 DEF EvaluateLambda, Here
  <2>. QED  BY <2>1, <2>2, KeepOwnUse DEF Inv, TypeInv
<1>5. ASSUME NEW h \in Holders, NEW l \in Lambdas, Hold(h, l)
      PROVE  OwnUse'
  <2>1. UNCHANGED <<own, stack, parent>>
    BY <1>5 DEF Hold
  <2>2. ASSUME NEW id \in DOMAIN saved'
        PROVE  id \in DOMAIN saved \/ (\E k \in Lambdas : parent[k] = id) \/ id = Null
    BY <1>5, HoldKeeps
  <2>3. \A f \in Functions : own[f] # Null
    BY DEF Inv, OwnInv
  <2>. QED  BY <2>1, <2>2, <2>3, KeepOwnUse
<1>6. ASSUME NEW h \in Holders, Release(h)
      PROVE  OwnUse'
  BY <1>6, KeepOwnUse DEF Release
<1>7. ASSUME NEW h \in Holders, CallHeld(h)
      PROVE  OwnUse'
  BY <1>7, PushesOwnUse DEF CallHeld, HeldInv
<1>8. ASSUME NEW l \in Lambdas, CallLambda(l)
      PROVE  OwnUse'
  BY <1>8, PushesOwnUse DEF CallLambda
<1>. QED
  BY <1>1, <1>2, <1>3, <1>4, <1>5, <1>6, <1>7, <1>8, PushesOwnUse, LeaveOwnUse,
     DestroyListOwnUse DEF Next

-----------------------------------------------------------------------------
(* What a step does to the variables that are counted on.                  *)

Kept(id, l) ==
  \E kept \in DOMAIN saved' :
    /\ lists'[kept].call = lists[id].call /\ lists[id].vars \subseteq lists'[kept].vars
    /\ saved'[kept].count[l] >= saved[id].count[l] - IF LetsGo THEN 1 ELSE 0

AllKept == \A id \in DOMAIN saved : \A l \in Lambdas : saved[id].count[l] > 0 => Kept(id, l)

LEMMA LessIsKept ==
  ASSUME Inv, NEW id \in DOMAIN saved, NEW l \in Lambdas, NEW kept \in DOMAIN saved',
         lists'[kept].call = lists[id].call, lists[id].vars \subseteq lists'[kept].vars,
         \/ saved'[kept].count[l] = saved[id].count[l]
         \/ saved'[kept].count[l] = saved[id].count[l] + 1
         \/ LetsGo /\ saved'[kept].count[l] = saved[id].count[l] - 1
  PROVE  Kept(id, l)
<1>1. saved[id].count[l] \in Int
  BY DEF Inv, TypeInv, SavedType
<1>. QED  BY <1>1 DEF Kept

\* The saved lists stay as they are, and so do the variables they have.
LEMMA SameKept ==
  ASSUME Inv, saved' = saved,
         \A id \in DOMAIN saved : lists'[id].call = lists[id].call
                                    /\ lists[id].vars \subseteq lists'[id].vars
  PROVE  AllKept
BY LessIsKept DEF AllKept

LEMMA EndedKept ==
  ASSUME Inv, Fits, NEW id \in DOMAIN lists, id \notin Copied, NEW reset \in BOOLEAN,
         lists' = Ended(id, reset), saved' = MarkParentAsDeleted(id)
  PROVE  AllKept
<1>1. Free \notin DOMAIN lists /\ DOMAIN saved \subseteq DOMAIN lists
  BY FreeList DEF Inv, KindsInv
<1>2. lists' = [i \in (DOMAIN lists \ (IF reset THEN {} ELSE {id})) \cup Copies(id) |->
                  IF i \in Copies(id) THEN lists[id]
                  ELSE IF i = id THEN Fresh(0) ELSE lists[i]]
  BY DEF Ended
<1>3. CASE Rekeyed(id)
  <2>1. id \in DOMAIN saved /\ Copies(id) = {Free}
    BY <1>3 DEF Rekeyed, Copies
  <2>2. saved' = [i \in (DOMAIN saved \ {id}) \cup {Free} |->
                    IF i \in {Free} THEN [saved[id] EXCEPT !.copy = TRUE] ELSE saved[i]]
    BY <1>3, <2>1 DEF MarkParentAsDeleted
  <2>3. ASSUME NEW l \in Lambdas PROVE Kept(id, l)
    <3>1. Free \in DOMAIN saved' /\ saved'[Free] = [saved[id] EXCEPT !.copy = TRUE]
      BY <2>2
    <3>2. saved'[Free].count = saved[id].count
      BY <2>1, <3>1 DEF Inv, TypeInv, SavedType
    <3>3. lists'[Free] = lists[id]
      BY <1>2, <2>1
    <3>. QED  BY <2>1, <3>1, <3>2, <3>3, LessIsKept
  <2>4. ASSUME NEW i \in DOMAIN saved, i # id, NEW l \in Lambdas PROVE Kept(i, l)
    <3>1. i \in DOMAIN saved' /\ saved'[i] = saved[i] /\ lists'[i] = lists[i]
      BY <1>1, <1>2, <2>1, <2>2, <2>4
    <3>. QED  BY <2>4, <3>1, LessIsKept
  <2>. QED  BY <2>3, <2>4 DEF AllKept
<1>4. CASE ~Rekeyed(id)
  <2>1. id \notin DOMAIN saved /\ Copies(id) = {} /\ saved' = saved
    BY <1>4 DEF Rekeyed, Copies, Copied, MarkParentAsDeleted
  <2>2. \A i \in DOMAIN saved : lists'[i] = lists[i]
    BY <1>1, <1>2, <2>1
  <2>. QED  BY <2>1, <2>2, SameKept
<1>. QED  BY <1>3, <1>4

LEMMA CallFunctionKept ==
  ASSUME Inv, OwnUse, NEW f \in Functions, CallFunction(f)
  PROVE  AllKept
<1>. DEFINE id == IF IsActive(f) THEN Free ELSE own[f]
<1>1. lists' = Put(id, Fresh(calls + 1)) /\ saved' = saved /\ Fits
  BY DEF CallFunction
<1>2. id \notin DOMAIN saved
  <2>1. Free \notin DOMAIN saved
    BY <1>1, FreeList DEF Inv, KindsInv
  <2>. QED  BY <2>1, OwnInUse DEF OwnUse
<1>. HIDE DEF id
<1>3. \A i \in DOMAIN saved : lists'[i] = lists[i]
  BY <1>1, <1>2 DEF Put, Inv, KindsInv
<1>. QED  BY <1>1, <1>3, SameKept

LEMMA PushLambdaKept ==
  ASSUME Inv, NEW l \in Lambdas, NEW b \in BOOLEAN, PushLambda(l, b)
  PROVE  AllKept
<1>1. saved' = saved /\ Fits /\ (lists' = lists \/ lists' = Put(Free, Fresh(0)))
  BY DEF PushLambda
<1>2. Free \notin DOMAIN lists /\ DOMAIN saved \subseteq DOMAIN lists
  BY <1>1, FreeList DEF Inv, KindsInv
<1>3. \A i \in DOMAIN saved : lists'[i] = lists[i]
  BY <1>1, <1>2 DEF Put
<1>. QED  BY <1>1, <1>3, SameKept

LEMMA HoldKept ==
  ASSUME Inv, HeldInv, NEW h \in Holders, NEW l \in Lambdas, Hold(h, l)
  PROVE  AllKept
<1>1. lists' = lists
  BY DEF Hold
<1>2. ASSUME NEW id \in DOMAIN saved, NEW k \in Lambdas
      PROVE  /\ id \in DOMAIN saved'
             /\ \/ saved'[id].count[k] = saved[id].count[k]
                \/ saved'[id].count[k] = saved[id].count[k] + 1
  BY HoldKeeps
<1>. QED  BY <1>1, <1>2, LessIsKept DEF AllKept

LEMMA ReleaseKept ==
  ASSUME Inv, HeldInv, NEW h \in Holders, Release(h)
  PROVE  AllKept
<1>. DEFINE l == hold[h].lambda
<1>1. lists' = lists /\ LetsGo
  BY DEF Release, LetsGo, HeldInv
<1>2. PICK pick \in Picks :
       LET released == IF pick[l] = Null THEN {}
                       ELSE {k \in {l} \cup captured[l] : pick[k] # Null}
       IN  saved' = [id \in DOMAIN saved |-> [saved[id] EXCEPT !.count =
                       [k \in Lambdas |-> @[k] - IF k \in released /\ pick[k] = id THEN 1 ELSE 0]]]
  BY DEF Release
<1>. DEFINE released == IF pick[l] = Null THEN {}
                        ELSE {k \in {l} \cup captured[l] : pick[k] # Null}
            less(id, k) == IF k \in released /\ pick[k] = id THEN 1 ELSE 0
            left(id) == [k \in Lambdas |-> saved[id].count[k] - less(id, k)]
<1>3. saved' = [id \in DOMAIN saved |-> [saved[id] EXCEPT !.count = left(id)]]
  BY <1>2
<1>4. ASSUME NEW id \in DOMAIN saved, NEW k \in Lambdas
      PROVE  /\ left(id)[k] = saved[id].count[k] \/ left(id)[k] = saved[id].count[k] - 1
             /\ saved[id] \in SavedType
  <2>1. saved[id].count[k] \in Int /\ saved[id] \in SavedType
    BY <1>4 DEF Inv, TypeInv, SavedType
  <2>2. left(id)[k] = saved[id].count[k] - less(id, k) /\ less(id, k) \in {0, 1}
    BY <1>4
  <2>. HIDE DEF less, left
  <2>. QED  BY <2>1, <2>2
<1>. HIDE DEF left
<1>5. \A id \in DOMAIN saved : id \in DOMAIN saved' /\ saved'[id].count = left(id)
  BY <1>3, <1>4 DEF Inv, TypeInv, SavedType
<1>. QED  BY <1>1, <1>4, <1>5, LessIsKept DEF AllKept

LEMMA EraseUnusedKept ==
  ASSUME Inv, EraseUnused
  PROVE  AllKept
<1>. DEFINE unused == {id \in DOMAIN saved : \A l \in Lambdas : saved[id].count[l] = 0}
            gone   == {id \in unused : saved[id].copy}
<1>1. /\ saved' = [id \in DOMAIN saved \ unused |-> saved[id]]
      /\ lists' = [id \in DOMAIN lists \ gone |-> lists[id]]
  BY DEF EraseUnused, Restrict
<1>2. ASSUME NEW id \in DOMAIN saved, NEW l \in Lambdas, saved[id].count[l] > 0
      PROVE  Kept(id, l)
  <2>1. id \notin unused /\ id \notin gone
    BY <1>2 DEF Inv, TypeInv, SavedType
  <2>. HIDE DEF unused, gone
  <2>2. id \in DOMAIN saved' /\ saved'[id] = saved[id] /\ lists'[id] = lists[id]
    BY <1>1, <2>1 DEF Inv, KindsInv
  <2>. QED  BY <2>2, LessIsKept
<1>. QED  BY <1>2 DEF AllKept

LEMMA EndsKept ==
  ASSUME Inv, Leave \/ \E s \in Scripts : DestroyList(s)
  PROVE  AllKept
<1>1. ASSUME NEW s \in Scripts, DestroyList(s)
      PROVE  AllKept
  <2>1. own[s] \in DOMAIN lists /\ own[s] \notin Copied
    BY <1>1 DEF DestroyList, Inv, KindsInv, Owned
  <2>. QED  BY <1>1, <2>1, EndedKept DEF DestroyList
<1>2. CASE Leave
  <2>. DEFINE f == Last(stack)
  <2>1. /\ f \in FrameType /\ f.list \in DOMAIN lists
        /\ Private(f) => f.list \in PrivateLists
    BY <1>2, FramesExist DEF Leave, Last
  <2>2. CASE f.code \in Functions \/ f.backup
    <3>. DEFINE reset == f.code \in Functions /\ f.list = own[f.code]
    <3>1. saved' = MarkParentAsDeleted(f.list) /\ lists' = Ended(f.list, reset) /\ Fits
      BY <1>2, <2>2 DEF Leave
    <3>2. f.list \notin Copied
      BY <2>1, <2>2 DEF Private, Inv, KindsInv, OwnInv, Owned
    <3>3. reset \in BOOLEAN
      OBVIOUS
    <3>. HIDE DEF f, reset
    <3>. QED  BY <2>1, <3>1, <3>2, <3>3, EndedKept
  <2>3. CASE ~(f.code \in Functions \/ f.backup)
    <3>1. UNCHANGED <<saved, lists>>
      BY <1>2, <2>3 DEF Leave
    <3>. QED  BY <3>1, SameKept
  <2>. QED  BY <2>2, <2>3
<1>. QED  BY <1>1, <1>2

LEMMA NextKept ==
  ASSUME Inv, HeldInv, OwnUse, Next
  PROVE  AllKept
<1>1. ASSUME UNCHANGED <<saved, lists>>
      PROVE  AllKept
  BY <1>1, SameKept
<1>2. ASSUME NEW l \in Lambdas, EvaluateLambda(l)
      PROVE  AllKept
  <2>. DEFINE here == Here.list
              new == [lists[here] EXCEPT !.vars = @ \cup {l}]
  <2>1. lists' = [lists EXCEPT ![here] = new] /\ saved' = saved /\ here \in DOMAIN lists
    BY <1>2, EvaluatorPlace DEF EvaluateLambda
  <2>2. new.call = lists[here].call /\ lists[here].vars \subseteq new.vars
    BY <2>1 DEF Inv, TypeInv, ListType
  <2>. HIDE DEF here, new
  <2>3. \A id \in DOMAIN saved : lists'[id] = IF id = here THEN new ELSE lists[id]
    BY <2>1 DEF Inv, TypeInv, KindsInv
  <2>. QED  BY <2>1, <2>2, <2>3, SameKept
<1>3. ASSUME NEW h \in Holders, CallHeld(h)
      PROVE  AllKept
  BY <1>3, PushLambdaKept DEF CallHeld, HeldInv
<1>4. ASSUME NEW l \in Lambdas, CallLambda(l)
      PROVE  AllKept
  BY <1>4, PushLambdaKept DEF CallLambda
<1>5. ASSUME StartBody \/ \E s \in Scripts : RunScript(s)
      PROVE  AllKept
  BY <1>1, <1>5 DEF StartBody, RunScript
<1>. QED
  BY <1>2, <1>3, <1>4, <1>5, CallFunctionKept, HoldKept, ReleaseKept, EraseUnusedKept,
     EndsKept DEF Next

(***************************************************************************)
(* The variables that a saved lambda counts on stay, in their list or in   *)
(* the copy kept of it, whatever scripts evaluate, store and release in    *)
(* whatever order (VariablesStay: MarkParentAsDeleted,                     *)
(* EraseUnusedSavedVariableLists).  Nothing is assumed of the scripts: not *)
(* that a lambda captures what it mentions, nor that it is not moved to    *)
(* another call's list while it is stored (Careful).                       *)
(***************************************************************************)
THEOREM SavedVariablesStay == Spec => VariablesStay
<1>1. Init => Inv /\ HeldInv /\ OwnUse
  <2>1. Init => OwnUse
    <3>. SUFFICES ASSUME Init PROVE OwnUse
      OBVIOUS
    <3>1. \A f \in Functions : own[f] # Null
      BY InitInv DEF Inv, OwnInv
    <3>2. DOMAIN stack = {} /\ DOMAIN saved = {} /\ \A l \in Lambdas : parent[l] = Null
      <4>1. stack = <<>> /\ saved = <<>> /\ parent = [l \in Lambdas |-> Null]
        BY DEF Init
      <4>. QED  BY <4>1
    <3>. QED  BY <3>1, <3>2 DEF OwnUse
  <2>. QED  BY <2>1, InitInv, InitHeldInv
<1>2. Inv /\ HeldInv /\ OwnUse /\ [Next]_vars => (Inv /\ HeldInv /\ OwnUse)'
  BY NextInv, NextHeldInv, NextOwnUse
<1>3. Inv /\ HeldInv /\ OwnUse /\ [Next]_vars => [AllKept]_vars
  BY NextKept
<1>. QED  BY <1>1, <1>2, <1>3, PTL DEF Spec, VariablesStay, AllKept, Kept

=============================================================================
