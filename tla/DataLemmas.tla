----------------------------- MODULE DataLemmas ------------------------------
(***************************************************************************)
(* Facts about data that the proofs about several components share: the    *)
(* greatest and the least ID of a set (LastKey and PopFirst of VarMap.h),  *)
(* and what a loop picks out of a list (Sublists).                         *)
(***************************************************************************)
EXTENDS Integers, FiniteSets, FiniteSetsExt, Sublists, TLAPS, WellFoundedInduction,
        SequenceTheorems, FiniteSetTheorems

(***************************************************************************)
(* A nonempty set of naturals has a least element, and Min returns it.     *)
(***************************************************************************)
LEMMA MinProperty ==
  ASSUME NEW S, S \subseteq Nat, S # {}
  PROVE  /\ Min(S) \in S
         /\ \A y \in S : Min(S) <= y
<1>. DEFINE Less == OpToRel(<, Nat)
<1>1. IsWellFoundedOn(Less, Nat)
  BY NatLessThanWellFounded
<1>2. \E x \in S : \A y \in S : <<y, x>> \notin Less
  <2>. HIDE DEF Less
  <2>. QED  BY <1>1, WFMin
<1>3. \A x, y \in S : <<y, x>> \notin Less => x <= y
  BY DEF OpToRel
<1>4. \E x \in S : \A y \in S : x <= y
  BY <1>2, <1>3
<1>. QED  BY <1>4 DEF Min

(***************************************************************************)
(* A nonempty set of naturals with an upper bound has a greatest element,  *)
(* and Max returns it.                                                     *)
(***************************************************************************)
LEMMA MaxProperty ==
  ASSUME NEW n \in Nat, NEW S, S \subseteq 0 .. n, S # {}
  PROVE  /\ Max(S) \in S
         /\ \A y \in S : y <= Max(S)
<1>. DEFINE T == {n - x : x \in S}
<1>1. T \subseteq Nat
  OBVIOUS
<1>2. T # {}
  <2>1. PICK x \in S : TRUE
    OBVIOUS
  <2>2. n - x \in T
    OBVIOUS
  <2>. QED  BY <2>2
<1>3. PICK m \in T : \A y \in T : m <= y
  <2>. HIDE DEF T
  <2>. QED  BY <1>1, <1>2, MinProperty
<1>4. PICK x \in S : m = n - x
  BY <1>3
<1>5. \A y \in S : y <= x
  <2>. TAKE y \in S
  <2>1. n - y \in T
    OBVIOUS
  <2>2. m <= n - y
    BY <1>3, <2>1
  <2>. QED  BY <1>4, <2>2
<1>. QED  BY <1>4, <1>5 DEF Max

(***************************************************************************)
(* The ID that GetUnusedID chooses - the first available one, or the one   *)
(* after the last used - is not used, and the IDs ever chosen stay an      *)
(* interval.                                                               *)
(***************************************************************************)
LEMMA UnusedIDProperty ==
  ASSUME NEW n \in Nat, NEW used, NEW available,
         used \cup available = 1 .. n, used \cap available = {},
         NEW id, id = IF available # {} THEN Min(available)
                      ELSE IF used # {} THEN Max(used) + 1
                      ELSE 1
  PROVE  /\ id \notin used
         /\ LET given == used \cup {id} \cup (available \ {id})
            IN  \/ id <= n /\ given = 1 .. n
                \/ id = n + 1 /\ given = 1 .. (n + 1)
<1>1. CASE available # {}
  <2>1. available \subseteq Nat
    OBVIOUS
  <2>2. Min(available) \in available
    BY <1>1, <2>1, MinProperty
  <2>. QED  BY <1>1, <2>2
<1>2. CASE available = {} /\ used # {}
  <2>1. used = 1 .. n /\ used \subseteq 0 .. n /\ n \in used
    BY <1>2
  <2>2. Max(used) \in used /\ \A y \in used : y <= Max(used)
    BY <1>2, <2>1, MaxProperty
  <2>3. Max(used) = n
    BY <2>1, <2>2
  <2>. QED  BY <1>2, <2>1, <2>3
<1>3. CASE available = {} /\ used = {}
  <2>1. n = 0
    BY <1>3
  <2>. QED  BY <1>3, <2>1
<1>. QED  BY <1>1, <1>2, <1>3
(***************************************************************************)
(* Induction up to n: a set with 0 that has k + 1 whenever it has k.       *)
(***************************************************************************)
LEMMA InductionUpTo ==
  ASSUME NEW n \in Nat, NEW G, 0 \in G, \A k \in 0 .. n - 1 : k \in G => k + 1 \in G
  PROVE  0 .. n \subseteq G
<1>. DEFINE bad == (0 .. n) \ G
<1>. SUFFICES ASSUME bad # {} PROVE FALSE
  OBVIOUS
<1>. DEFINE m == Min(bad)
<1>1. m \in bad /\ \A y \in bad : m <= y
  <2>1. bad \subseteq Nat
    OBVIOUS
  <2>. HIDE DEF bad
  <2>. QED  BY <2>1, MinProperty
<1>. HIDE DEF m
<1>2. m # 0 /\ m - 1 \in 0 .. n - 1 /\ m - 1 \notin bad
  BY <1>1
<1>. QED  BY <1>1, <1>2

(***************************************************************************)
(* t is what a loop has picked out of the first k elements of s: those in  *)
(* S, in their order.                                                      *)
(***************************************************************************)
Picked(s, S, t, k) ==
  /\ \A a \in 1 .. Len(t) : t[a] \in S /\ \E p \in 1 .. k : s[p] = t[a]
  /\ \A p \in 1 .. k : s[p] \in S => \E a \in 1 .. Len(t) : t[a] = s[p]
  /\ \A a, b \in 1 .. Len(t) : a < b =>
       \E p, q \in 1 .. k : p < q /\ s[p] = t[a] /\ s[q] = t[b]

Pick(s, S, t, i) == IF s[i] \in S THEN Append(t, s[i]) ELSE t

LEMMA PickedNext ==
  ASSUME NEW T, NEW s, NEW S, NEW t \in Seq(T), NEW k \in Nat, s[k + 1] \in T,
         Picked(s, S, t, k)
  PROVE  Pick(s, S, t, k + 1) \in Seq(T) /\ Picked(s, S, Pick(s, S, t, k + 1), k + 1)
<1>. DEFINE e == s[k + 1]
            m == Len(t)
            u == Append(t, e)
<1>1. /\ \A p \in 1 .. k : p \in 1 .. k + 1 /\ p < k + 1
      /\ k + 1 \in 1 .. k + 1 /\ \A p \in 1 .. k + 1 : p \in 1 .. k \/ p = k + 1
  OBVIOUS
<1>2. /\ \A a \in 1 .. m : t[a] \in S /\ \E p \in 1 .. k : s[p] = t[a]
      /\ \A p \in 1 .. k : s[p] \in S => \E a \in 1 .. m : t[a] = s[p]
      /\ \A a, b \in 1 .. m : a < b =>
           \E p, q \in 1 .. k : p < q /\ s[p] = t[a] /\ s[q] = t[b]
  BY DEF Picked
<1>3. CASE e \in S
  <2>1. /\ u \in Seq(T) /\ m \in Nat /\ Len(u) = m + 1 /\ u[m + 1] = e
        /\ \A a \in 1 .. m : u[a] = t[a]
    BY AppendProperties, LenProperties
  <2>. HIDE DEF u, m
  <2>2. /\ \A a \in 1 .. m : a \in 1 .. m + 1 /\ a < m + 1
        /\ m + 1 \in 1 .. m + 1 /\ \A a \in 1 .. m + 1 : a \in 1 .. m \/ a = m + 1
    BY <2>1
  <2>3. ASSUME NEW a \in 1 .. m + 1
        PROVE  u[a] \in S /\ \E p \in 1 .. k + 1 : s[p] = u[a]
    <3>1. CASE a \in 1 .. m
      <4>1. u[a] = t[a] /\ t[a] \in S
        BY <1>2, <2>1, <3>1
      <4>2. PICK p \in 1 .. k : s[p] = t[a]
        BY <1>2, <3>1
      <4>3. p \in 1 .. k + 1 /\ s[p] = u[a]
        BY <1>1, <4>1, <4>2
      <4>. QED  BY <4>1, <4>3
    <3>2. CASE a = m + 1
      <4>1. u[a] = s[k + 1] /\ s[k + 1] \in S
        BY <1>3, <2>1, <3>2
      <4>. QED  BY <1>1, <4>1
    <3>. QED  BY <2>2, <3>1, <3>2
  <2>4. \A p \in 1 .. k + 1 : s[p] \in S => \E a \in 1 .. m + 1 : u[a] = s[p]
    BY <1>1, <1>2, <2>1, <2>2
  <2>5. ASSUME NEW a \in 1 .. m + 1, NEW b \in 1 .. m + 1, a < b
        PROVE  \E p, q \in 1 .. k + 1 : p < q /\ s[p] = u[a] /\ s[q] = u[b]
    <3>1. a \in 1 .. m
      BY <2>1, <2>5
    <3>2. CASE b \in 1 .. m
      <4>1. PICK p \in 1 .. k, q \in 1 .. k : p < q /\ s[p] = t[a] /\ s[q] = t[b]
        BY <1>2, <2>5, <3>1, <3>2
      <4>2. s[p] = u[a] /\ s[q] = u[b]
        BY <2>1, <3>1, <3>2, <4>1
      <4>. QED  BY <1>1, <4>1, <4>2
    <3>3. CASE b = m + 1
      <4>1. PICK p \in 1 .. k : s[p] = t[a]
        BY <1>2, <3>1
      <4>2. s[p] = u[a] /\ p \in 1 .. k + 1 /\ p < k + 1
        BY <1>1, <2>1, <3>1, <4>1
      <4>3. s[k + 1] = u[b] /\ k + 1 \in 1 .. k + 1
        BY <1>1, <2>1, <3>3
      <4>. QED  BY <4>2, <4>3
    <3>. QED  BY <2>2, <3>2, <3>3
  <2>6. Picked(s, S, u, k + 1)
    BY <2>1, <2>3, <2>4, <2>5 DEF Picked
  <2>. QED  BY <1>3, <2>1, <2>6 DEF Pick, u
<1>4. CASE e \notin S
  <2>. HIDE DEF m
  <2>1. \A a \in 1 .. m : t[a] \in S /\ \E p \in 1 .. k + 1 : s[p] = t[a]
    BY <1>1, <1>2
  <2>2. \A p \in 1 .. k + 1 : s[p] \in S => \E a \in 1 .. m : t[a] = s[p]
    BY <1>1, <1>2, <1>4
  <2>3. \A a, b \in 1 .. m : a < b =>
           \E p, q \in 1 .. k + 1 : p < q /\ s[p] = t[a] /\ s[q] = t[b]
    BY <1>1, <1>2
  <2>4. Picked(s, S, t, k + 1)
    BY <2>1, <2>2, <2>3 DEF Picked, m
  <2>. QED  BY <1>4, <2>4 DEF Pick
<1>. QED  BY <1>3, <1>4

(***************************************************************************)
(* The recursive function that Only uses exists.                           *)
(***************************************************************************)
Upto(f, s, S, k) == f = [i \in 0 .. k |-> IF i = 0 THEN <<>> ELSE Pick(s, S, f[i - 1], i)]

LEMMA UptoExists ==
  ASSUME NEW s, NEW S, NEW n \in Nat
  PROVE  \E f : Upto(f, s, S, n)
<1>. DEFINE G == {k \in 0 .. n : \E f : Upto(f, s, S, k)}
<1>1. 0 \in G
  <2>. DEFINE f == [i \in 0 .. 0 |-> <<>>]
  <2>1. f = [i \in 0 .. 0 |-> IF i = 0 THEN <<>> ELSE Pick(s, S, f[i - 1], i)]
    OBVIOUS
  <2>. HIDE DEF f
  <2>. QED  BY <2>1 DEF Upto
<1>2. ASSUME NEW k \in 0 .. n - 1, k \in G
      PROVE  k + 1 \in G
  <2>1. PICK f : Upto(f, s, S, k)
    BY <1>2
  <2>. DEFINE g == [i \in 0 .. k + 1 |-> IF i <= k THEN f[i] ELSE Pick(s, S, f[i - 1], i)]
  <2>2. \A i \in 0 .. k : f[i] = IF i = 0 THEN <<>> ELSE Pick(s, S, f[i - 1], i)
    BY <2>1 DEF Upto
  <2>3. /\ \A i \in 0 .. k : i <= k /\ i \in 0 .. k + 1
        /\ \A i \in 0 .. k + 1 : (i <= k => i \in 0 .. k) /\ (~(i <= k) => i = k + 1 /\ i # 0)
        /\ (k + 1) - 1 = k /\ k \in 0 .. k
        /\ \A i \in 0 .. k : i # 0 => i - 1 \in 0 .. k
    OBVIOUS
  <2>4. \A i \in 0 .. k : g[i] = f[i]
    BY <2>3
  <2>5. \A i \in 0 .. k + 1 : g[i] = IF i = 0 THEN <<>> ELSE Pick(s, S, g[i - 1], i)
    <3>. SUFFICES ASSUME NEW i \in 0 .. k + 1
                  PROVE  g[i] = IF i = 0 THEN <<>> ELSE Pick(s, S, g[i - 1], i)
      OBVIOUS
    <3>1. CASE i <= k
      <4>1. g[i] = f[i] /\ (i # 0 => g[i - 1] = f[i - 1])
        BY <2>3, <2>4, <3>1
      <4>. HIDE DEF g
      <4>. QED  BY <2>2, <2>3, <3>1, <4>1
    <3>2. CASE ~(i <= k)
      <4>1. g[i] = Pick(s, S, f[i - 1], i) /\ i # 0 /\ g[i - 1] = f[i - 1]
        BY <2>3, <2>4, <3>2
      <4>. HIDE DEF g
      <4>. QED  BY <4>1
    <3>. QED  BY <3>1, <3>2
  <2>6. g = [i \in 0 .. k + 1 |-> g[i]]
    OBVIOUS
  <2>. HIDE DEF g
  <2>7. Upto(g, s, S, k + 1)
    BY <2>5, <2>6 DEF Upto
  <2>. QED  BY <2>7
<1>. HIDE DEF G
<1>3. 0 .. n \subseteq G
  BY <1>1, <1>2, InductionUpTo
<1>4. n \in G
  BY <1>3
<1>. QED  BY <1>4 DEF G

(***************************************************************************)
(* Only picks the elements of s that are in S, and keeps their order.      *)
(***************************************************************************)
LEMMA OnlyProperties ==
  ASSUME NEW T, NEW s \in Seq(T), NEW S
  PROVE  Only(s, S) \in Seq(T) /\ Picked(s, S, Only(s, S), Len(s))
<1>. DEFINE n == Len(s)
            upTo == CHOOSE f : Upto(f, s, S, n)
<1>1. n \in Nat /\ \A i \in 1 .. n : s[i] \in T
  BY LenProperties
<1>2. Only(s, S) = upTo[n]
  BY DEF Only, Upto, Pick
<1>3. upTo = [i \in 0 .. n |-> IF i = 0 THEN <<>> ELSE Pick(s, S, upTo[i - 1], i)]
  <2>. HIDE DEF n
  <2>1. Upto(upTo, s, S, n)
    BY <1>1, UptoExists
  <2>. QED  BY <2>1 DEF Upto
<1>. HIDE DEF upTo
<1>. DEFINE G == {k \in 0 .. n : upTo[k] \in Seq(T) /\ Picked(s, S, upTo[k], k)}
<1>4. 0 \in G
  <2>1. 0 \in 0 .. n /\ upTo[0] = <<>>
    BY <1>1, <1>3
  <2>2. <<>> \in Seq(T) /\ Picked(s, S, <<>>, 0)
    BY DEF Picked
  <2>. QED  BY <2>1, <2>2
<1>5. ASSUME NEW k \in 0 .. n - 1, k \in G
      PROVE  k + 1 \in G
  <2>1. k + 1 \in 1 .. n /\ k + 1 \in 0 .. n /\ k + 1 # 0 /\ (k + 1) - 1 = k /\ k \in Nat
    BY <1>1
  <2>2. upTo[k + 1] = Pick(s, S, upTo[k], k + 1)
    BY <1>3, <2>1
  <2>3. s[k + 1] \in T /\ upTo[k] \in Seq(T) /\ Picked(s, S, upTo[k], k)
    BY <1>1, <1>5, <2>1
  <2>4. upTo[k + 1] \in Seq(T) /\ Picked(s, S, upTo[k + 1], k + 1)
    BY <2>1, <2>2, <2>3, PickedNext
  <2>. QED  BY <2>1, <2>4
<1>. HIDE DEF G, n
<1>6. 0 .. n \subseteq G
  BY <1>1, <1>4, <1>5, InductionUpTo
<1>7. n \in G
  BY <1>1, <1>6
<1>. QED  BY <1>2, <1>7 DEF G, n

InOrder(t, s, S) ==
  /\ \A a \in DOMAIN t : t[a] \in S /\ \E p \in DOMAIN s : s[p] = t[a]
  /\ \A p \in DOMAIN s : s[p] \in S => \E a \in DOMAIN t : t[a] = s[p]
  /\ \A a, b \in DOMAIN t : a < b =>
       \E p, q \in DOMAIN s : p < q /\ s[p] = t[a] /\ s[q] = t[b]

LEMMA OnlyInOrder ==
  ASSUME NEW T, NEW s \in Seq(T), NEW S
  PROVE  Only(s, S) \in Seq(T) /\ InOrder(Only(s, S), s, S)
<1>. DEFINE t == Only(s, S)
<1>1. t \in Seq(T) /\ Picked(s, S, t, Len(s))
  BY OnlyProperties
<1>. HIDE DEF t
<1>2. DOMAIN t = 1 .. Len(t) /\ DOMAIN s = 1 .. Len(s)
  BY <1>1, LenProperties
<1>3. \A a \in DOMAIN t : t[a] \in S /\ \E p \in DOMAIN s : s[p] = t[a]
  BY <1>1, <1>2 DEF Picked
<1>4. \A p \in DOMAIN s : s[p] \in S => \E a \in DOMAIN t : t[a] = s[p]
  BY <1>1, <1>2 DEF Picked
<1>5. \A a, b \in DOMAIN t : a < b =>
        \E p, q \in DOMAIN s : p < q /\ s[p] = t[a] /\ s[q] = t[b]
  <2>1. \A a, b \in 1 .. Len(t) : a < b =>
          \E p, q \in 1 .. Len(s) : p < q /\ s[p] = t[a] /\ s[q] = t[b]
    BY <1>1 DEF Picked
  <2>. SUFFICES ASSUME NEW a \in DOMAIN t, NEW b \in DOMAIN t, a < b
                PROVE  \E p, q \in DOMAIN s : p < q /\ s[p] = t[a] /\ s[q] = t[b]
    OBVIOUS
  <2>2. a \in 1 .. Len(t) /\ b \in 1 .. Len(t)
    BY <1>2
  <2>3. PICK p \in 1 .. Len(s), q \in 1 .. Len(s) : p < q /\ s[p] = t[a] /\ s[q] = t[b]
    BY <2>1, <2>2
  <2>4. p \in DOMAIN s /\ q \in DOMAIN s
    BY <1>2
  <2>. QED  BY <2>3, <2>4
<1>. QED  BY <1>1, <1>3, <1>4, <1>5 DEF t, InOrder

(***************************************************************************)
(* Where every element is in S, Only leaves the list as it is.             *)
(***************************************************************************)
LEMMA OnlyAll ==
  ASSUME NEW T, NEW s \in Seq(T), NEW S, T \subseteq S
  PROVE  Only(s, S) = s
<1>. DEFINE n == Len(s)
            upTo == CHOOSE f : Upto(f, s, S, n)
<1>1. n \in Nat /\ \A i \in 1 .. n : s[i] \in T /\ s[i] \in S
  BY LenProperties
<1>2. Only(s, S) = upTo[n]
  BY DEF Only, Upto, Pick
<1>3. upTo = [i \in 0 .. n |-> IF i = 0 THEN <<>> ELSE Pick(s, S, upTo[i - 1], i)]
  <2>. HIDE DEF n
  <2>1. Upto(upTo, s, S, n)
    BY <1>1, UptoExists
  <2>. QED  BY <2>1 DEF Upto
<1>. HIDE DEF upTo
<1>. DEFINE Copies(t, k) == t \in Seq(T) /\ Len(t) = k /\ \A i \in 1 .. k : t[i] = s[i]
            G == {k \in 0 .. n : Copies(upTo[k], k)}
<1>4. 0 \in G
  <2>1. 0 \in 0 .. n /\ upTo[0] = <<>>
    BY <1>1, <1>3
  <2>2. Copies(<<>>, 0)
    OBVIOUS
  <2>. HIDE DEF Copies
  <2>. QED  BY <2>1, <2>2
<1>5. ASSUME NEW k \in 0 .. n - 1, k \in G
      PROVE  k + 1 \in G
  <2>1. /\ k + 1 \in 1 .. n /\ k + 1 \in 0 .. n /\ k + 1 # 0 /\ (k + 1) - 1 = k /\ k \in Nat
        /\ \A i \in 1 .. k + 1 : i \in 1 .. k \/ i = k + 1
    BY <1>1
  <2>. DEFINE t == upTo[k]
  <2>2. t \in Seq(T) /\ Len(t) = k /\ \A i \in 1 .. k : t[i] = s[i]
    BY <1>5
  <2>3. upTo[k + 1] = Append(t, s[k + 1]) /\ s[k + 1] \in T
    <3>1. s[k + 1] \in T /\ s[k + 1] \in S
      BY <1>1, <2>1
    <3>2. upTo[k + 1] = Pick(s, S, t, k + 1)
      BY <1>3, <2>1
    <3>. QED  BY <3>1, <3>2 DEF Pick
  <2>. HIDE DEF t
  <2>4. /\ Append(t, s[k + 1]) \in Seq(T) /\ Len(Append(t, s[k + 1])) = k + 1
        /\ Append(t, s[k + 1])[k + 1] = s[k + 1]
        /\ \A i \in 1 .. k : Append(t, s[k + 1])[i] = t[i]
    BY <2>2, <2>3, AppendProperties
  <2>5. Copies(upTo[k + 1], k + 1)
    BY <2>1, <2>2, <2>3, <2>4
  <2>. HIDE DEF Copies
  <2>. QED  BY <2>1, <2>5
<1>. HIDE DEF n
<1>6. n \in G
  <2>. HIDE DEF G
  <2>1. 0 .. n \subseteq G
    BY <1>1, <1>4, <1>5, InductionUpTo
  <2>. QED  BY <1>1, <2>1
<1>7. Only(s, S) \in Seq(T) /\ Len(Only(s, S)) = n /\ \A i \in 1 .. n : Only(s, S)[i] = s[i]
  BY <1>2, <1>6
<1>. QED  BY <1>7, SeqEqual DEF n

(***************************************************************************)
(* What Only leaves is a list of elements of S.                            *)
(***************************************************************************)
LEMMA OnlySeq ==
  ASSUME NEW T, NEW s \in Seq(T), NEW S
  PROVE  /\ Only(s, S) \in Seq(T) /\ Only(s, S) \in Seq(S)
         /\ Only(s, S) # <<>> => Head(Only(s, S)) \in S
<1>. DEFINE t == Only(s, S)
<1>1. t \in Seq(T) /\ \A a \in DOMAIN t : t[a] \in S
  BY OnlyInOrder DEF InOrder
<1>. HIDE DEF t
<1>2. t \in Seq(S)
  BY <1>1, LenProperties
<1>. QED  BY <1>1, <1>2 DEF t

(***************************************************************************)
(* A list without its last element (Front of SequencesExt).                *)
(***************************************************************************)
LEMMA AllButLast ==
  ASSUME NEW T, NEW s \in Seq(T), s # <<>>, NEW t, t = SubSeq(s, 1, Len(s) - 1)
  PROVE  /\ t \in Seq(T) /\ Len(t) = Len(s) - 1 /\ DOMAIN t = 1 .. Len(s) - 1
         /\ \A k \in 1 .. Len(s) - 1 : k \in DOMAIN s /\ k < Len(s) /\ t[k] = s[k]
         /\ Len(s) \in Nat \ {0} /\ Len(s) \in DOMAIN s /\ s[Len(s)] \in T
         /\ DOMAIN s = 1 .. Len(s)
<1>. DEFINE n == Len(s)
<1>1. n \in Nat \ {0} /\ DOMAIN s = 1 .. n /\ \A k \in 1 .. n : s[k] \in T
  BY LenProperties, EmptySeq
<1>. HIDE DEF n
<1>2. /\ n - 1 \in Nat /\ (n - 1) - 1 + 1 = n - 1 /\ (1 <= n - 1 \/ n - 1 = 0) /\ n \in 1 .. n
      /\ \A i \in 1 .. n - 1 : 1 + i - 1 = i /\ i \in 1 .. n /\ i < n
  BY <1>1
<1>3. \A i \in 1 .. n - 1 : s[i] \in T
  BY <1>1, <1>2
<1>4. /\ SubSeq(s, 1, n - 1) \in Seq(T)
      /\ Len(SubSeq(s, 1, n - 1)) = IF 1 <= n - 1 THEN (n - 1) - 1 + 1 ELSE 0
      /\ \A i \in 1 .. (n - 1) - 1 + 1 : SubSeq(s, 1, n - 1)[i] = s[1 + i - 1]
  BY <1>1, <1>2, <1>3, SubSeqProperties
<1>5. t \in Seq(T) /\ Len(t) = n - 1 /\ \A i \in 1 .. n - 1 : t[i] = s[i]
  BY <1>2, <1>4 DEF n
<1>6. DOMAIN t = 1 .. n - 1
  BY <1>5, LenProperties
<1>. QED  BY <1>1, <1>2, <1>5, <1>6 DEF n

(***************************************************************************)
(* A list put together of a list, an element and another list.             *)
(***************************************************************************)
Around(A, x, B) == A \o <<x>> \o B

Surrounds(t, A, x, B) ==
  /\ Len(A) \in Nat /\ Len(B) \in Nat
  /\ DOMAIN A = 1 .. Len(A) /\ DOMAIN B = 1 .. Len(B)
  /\ DOMAIN t = 1 .. Len(A) + 1 + Len(B)
  /\ \A i \in 1 .. Len(A) : t[i] = A[i]
  /\ t[Len(A) + 1] = x
  /\ \A i \in 1 .. Len(B) : t[Len(A) + 1 + i] = B[i]

LEMMA AroundProperties ==
  ASSUME NEW T, NEW A \in Seq(T), NEW x \in T, NEW B \in Seq(T)
  PROVE  Around(A, x, B) \in Seq(T) /\ Surrounds(Around(A, x, B), A, x, B)
<1>. DEFINE m == Len(A)
            n == Len(B)
            u == A \o <<x>>
            t == Around(A, x, B)
<1>1. m \in Nat /\ n \in Nat /\ DOMAIN A = 1 .. m /\ DOMAIN B = 1 .. n
  BY LenProperties
<1>2. <<x>> \in Seq(T) /\ Len(<<x>>) = 1 /\ <<x>>[1] = x
  OBVIOUS
<1>3. u \in Seq(T) /\ Len(u) = m + 1
      /\ \A i \in 1 .. m + 1 : u[i] = IF i <= m THEN A[i] ELSE <<x>>[i - m]
  BY <1>2, ConcatProperties
<1>4. t = u \o B
  BY DEF Around
<1>. HIDE DEF m, n, u, t
<1>5. t \in Seq(T) /\ Len(t) = m + 1 + n
      /\ \A i \in 1 .. m + 1 + n : t[i] = IF i <= m + 1 THEN u[i] ELSE B[i - (m + 1)]
  <2>1. /\ u \o B \in Seq(T) /\ Len(u \o B) = Len(u) + Len(B)
        /\ \A i \in 1 .. Len(u) + Len(B) :
             (u \o B)[i] = IF i <= Len(u) THEN u[i] ELSE B[i - Len(u)]
    BY <1>3, ConcatProperties
  <2>2. Len(u) = m + 1 /\ Len(B) = n
    BY <1>3 DEF n
  <2>. QED  BY <1>4, <2>1, <2>2
<1>6. DOMAIN t = 1 .. m + 1 + n
  BY <1>5, LenProperties
<1>7. ASSUME NEW i \in 1 .. m PROVE t[i] = A[i]
  <2>1. i \in 1 .. m + 1 + n /\ i \in 1 .. m + 1 /\ i <= m + 1 /\ i <= m
    BY <1>1
  <2>. QED  BY <1>3, <1>5, <2>1
<1>8. t[m + 1] = x
  <2>1. m + 1 \in 1 .. m + 1 + n /\ m + 1 \in 1 .. m + 1 /\ m + 1 <= m + 1 /\ ~(m + 1 <= m)
        /\ (m + 1) - m = 1
    BY <1>1
  <2>. QED  BY <1>2, <1>3, <1>5, <2>1
<1>9. ASSUME NEW i \in 1 .. n PROVE t[m + 1 + i] = B[i]
  <2>1. m + 1 + i \in 1 .. m + 1 + n /\ ~(m + 1 + i <= m + 1) /\ (m + 1 + i) - (m + 1) = i
    BY <1>1
  <2>. QED  BY <1>5, <2>1
<1>. QED  BY <1>1, <1>5, <1>6, <1>7, <1>8, <1>9 DEF m, n, t, Surrounds

===============================================================================
