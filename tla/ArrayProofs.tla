--------------------------------- MODULE ArrayProofs ---------------------------------
(***************************************************************************)
(* Theorems about ArrayVarMap and ArrayPersistence, for any number of      *)
(* arrays, keys, variables, arguments, mods and loads.                     *)
(*                                                                         *)
(* Every operation of the array map moves one slot: it drops what the slot *)
(* held and takes what it is given.  The argument therefore rests on two   *)
(* lemmas, DropFits and TakeFits, which say that the counts keep covering  *)
(* the slots and keep agreeing with the deletion queue through one drop    *)
(* and one take, whatever mod index each of them is done with.  The second *)
(* part follows the arrays through games that are saved and loaded.        *)
(***************************************************************************)
EXTENDS ArrayPersistence, DataLemmas, FiniteSetTheorems, SequenceTheorems

Referrers == Mods \cup {0}

(***************************************************************************)
(* The counts c fit the slots, whose words are w and whose numbers are n.  *)
(***************************************************************************)
HoldersIn(w, n, a) == {s \in Slots \ n : w[s] = a}

Fits(c, w, n) ==
  /\ c \in [refs : [IDs -> Seq(Referrers)], temp : SUBSET usedIDs]
  /\ \A a \in vars : a \in c.temp <=> c.refs[a] = <<>>
  /\ \A a \in vars : Cardinality(HoldersIn(w, n, a)) <= Len(c.refs[a])

(***************************************************************************)
(* Removing one entry of a sequence, as Vector::Remove does.               *)
(***************************************************************************)
LEMMA RemoveAtProperty ==
  ASSUME NEW S, NEW q \in Seq(S), NEW i \in 1 .. Len(q)
  PROVE  /\ RemoveAt(q, i) \in Seq(S)
         /\ Len(RemoveAt(q, i)) = Len(q) - 1
<1>1. /\ SubSeq(q, 1, i - 1) \in Seq(S)
      /\ Len(SubSeq(q, 1, i - 1)) = i - 1
  OBVIOUS
<1>2. /\ SubSeq(q, i + 1, Len(q)) \in Seq(S)
      /\ Len(SubSeq(q, i + 1, Len(q))) = Len(q) - i
  OBVIOUS
<1>3. \A a, b \in Seq(S) : a \o b \in Seq(S) /\ Len(a \o b) = Len(a) + Len(b)
  BY ConcatProperties
<1>. DEFINE front == SubSeq(q, 1, i - 1)
            back == SubSeq(q, i + 1, Len(q))
<1>4. front \o back \in Seq(S) /\ Len(front \o back) = (i - 1) + (Len(q) - i)
  <2>. HIDE DEF front, back
  <2>. QED  BY <1>1, <1>2, <1>3 DEF front, back
<1>5. (i - 1) + (Len(q) - i) = Len(q) - 1
  OBVIOUS
<1>. QED  BY <1>4, <1>5, Zenon DEF RemoveAt
(***************************************************************************)
(* Vector::Remove takes at most one entry out of m_refs.                   *)
(***************************************************************************)
LEMMA VectorRemoveProperty ==
  ASSUME NEW S, NEW q \in Seq(S), NEW m
  PROVE  /\ VectorRemove(q, m) \in Seq(S)
         /\ Len(VectorRemove(q, m)) >= Len(q) - 1
         /\ q = <<>> => VectorRemove(q, m) = q
<1>. DEFINE At == {i \in 1 .. Len(q) : q[i] = m}
<1>1. At \subseteq 0 .. Len(q) /\ At \subseteq 1 .. Len(q) /\ Len(q) \in Nat
  OBVIOUS
<1>2. VectorRemove(q, m) = IF At = {} THEN q ELSE RemoveAt(q, Max(At))
  BY DEF VectorRemove
<1>. HIDE DEF At
<1>3. CASE At = {}
  BY <1>1, <1>2, <1>3
<1>4. CASE At # {}
  <2>1. Max(At) \in 1 .. Len(q)
    BY <1>1, <1>4, MaxProperty
  <2>2. RemoveAt(q, Max(At)) \in Seq(S) /\ Len(RemoveAt(q, Max(At))) = Len(q) - 1
    BY <2>1, RemoveAtProperty
  <2>3. q # <<>>
    BY <2>1
  <2>. QED  BY <1>1, <1>2, <1>4, <2>2, <2>3
<1>. QED  BY <1>3, <1>4

(***************************************************************************)
(* There are finitely many slots, so holders can be counted.               *)
(***************************************************************************)
LEMMA SlotsFinite == IsFiniteSet(Slots)
<1>1. IsFiniteSet(IDs)
  BY FS_Interval, ConstantsAssumption DEF ConstantsAssumption, IDs
<1>2. IsFiniteSet(ElementSlots)
  BY <1>1, FS_Product, ConstantsAssumption DEF ConstantsAssumption, ElementSlots
<1>. QED  BY <1>2, FS_Union, ConstantsAssumption DEF ConstantsAssumption, Slots

LEMMA HoldersFinite ==
  ASSUME NEW w, NEW n, NEW a
  PROVE  /\ IsFiniteSet(HoldersIn(w, n, a))
         /\ Cardinality(HoldersIn(w, n, a)) \in Nat
<1>1. HoldersIn(w, n, a) \in SUBSET Slots
  BY DEF HoldersIn
<1>2. IsFiniteSet(HoldersIn(w, n, a))
  BY <1>1, SlotsFinite, FS_Subset
<1>. QED  BY <1>2, FS_CardinalityType

(***************************************************************************)
(* RemoveReference and the emptying of the slot it is called for.          *)
(***************************************************************************)
LEMMA DropFits ==
  ASSUME NEW c, NEW w \in [Slots -> IDs \cup {0}], NEW n, NEW s \in Slots \ n, NEW m,
         Fits(c, w, n),
         vars \subseteq usedIDs, vars \subseteq IDs
  PROVE  Fits(Dropped(c, w[s], m), [w EXCEPT ![s] = 0], n)
<1>. DEFINE old == w[s]
            d == Dropped(c, old, m)
            z == [w EXCEPT ![s] = 0]
<1>1. 0 \notin vars
  BY DEF IDs
<1>2. \A a \in vars : HoldersIn(z, n, a) = HoldersIn(w, n, a) \ (IF a = old THEN {s} ELSE {})
  BY <1>1 DEF HoldersIn
<1>3. CASE old \notin vars
  <2>1. d = c
    BY <1>3 DEF Dropped
  <2>2. \A a \in vars : HoldersIn(z, n, a) = HoldersIn(w, n, a)
    BY <1>2, <1>3
  <2>. QED  BY <2>1, <2>2 DEF Fits
<1>4. CASE old \in vars
  <2>. DEFINE left == VectorRemove(c.refs[old], m)
  <2>1. c.refs[old] \in Seq(Referrers) /\ c.refs \in [IDs -> Seq(Referrers)]
    BY <1>4 DEF Fits
  <2>2. left \in Seq(Referrers) /\ Len(left) >= Len(c.refs[old]) - 1
    BY <2>1, VectorRemoveProperty
  <2>3. /\ d.refs = [c.refs EXCEPT ![old] = left]
        /\ d.temp = IF left = <<>> THEN c.temp \cup {old} ELSE c.temp
        /\ d = [refs |-> d.refs, temp |-> d.temp]
    BY <1>4 DEF Dropped
  <2>. HIDE DEF left, d, z
  <2>4. d \in [refs : [IDs -> Seq(Referrers)], temp : SUBSET usedIDs]
    BY <1>4, <2>1, <2>2, <2>3 DEF Fits
  <2>5. \A a \in vars : a \in d.temp <=> d.refs[a] = <<>>
    <3>. TAKE a \in vars
    <3>1. CASE a = old
      <4>1. d.refs[a] = left
        BY <3>1, <2>1, <2>3
      <4>2. old \in c.temp => left = <<>>
        <5>. HAVE old \in c.temp
        <5>1. c.refs[old] = <<>>
          BY <1>4 DEF Fits
        <5>2. left = c.refs[old]
          BY <5>1, <2>1, VectorRemoveProperty DEF left
        <5>. QED  BY <5>1, <5>2
      <4>. QED  BY <3>1, <4>1, <4>2, <2>3
    <3>2. CASE a # old
      BY <3>2, <2>1, <2>3 DEF Fits
    <3>. QED  BY <3>1, <3>2
  <2>6. \A a \in vars : Cardinality(HoldersIn(z, n, a)) <= Len(d.refs[a])
    <3>. TAKE a \in vars
    <3>0. /\ Cardinality(HoldersIn(w, n, a)) <= Len(c.refs[a])
          /\ Cardinality(HoldersIn(w, n, a)) \in Nat
          /\ IsFiniteSet(HoldersIn(w, n, a))
      BY HoldersFinite DEF Fits
    <3>1. CASE a = old
      <4>1. s \in HoldersIn(w, n, a)
        BY <3>1 DEF HoldersIn
      <4>2. Cardinality(HoldersIn(z, n, a)) = Cardinality(HoldersIn(w, n, a)) - 1
        <5>1. HoldersIn(z, n, a) = HoldersIn(w, n, a) \ {s}
          BY <1>2, <3>1 DEF z
        <5>. DEFINE H == HoldersIn(w, n, a)
        <5>2. IsFiniteSet(H) /\ s \in H
          BY <3>0, <4>1
        <5>. HIDE DEF H
        <5>3. Cardinality(H \ {s}) = Cardinality(H) - 1
          BY <5>2, FS_RemoveElement, Zenon
        <5>. QED  BY <5>1, <5>3 DEF H
      <4>3. d.refs[a] = left
        BY <3>1, <2>1, <2>3
      <4>4. Len(left) \in Nat /\ Len(c.refs[a]) \in Nat
        BY <2>1, <2>2, <3>1
      <4>. QED  BY <3>0, <3>1, <4>2, <4>3, <4>4, <2>2
    <3>2. CASE a # old
      <4>1. HoldersIn(z, n, a) = HoldersIn(w, n, a)
        BY <1>2, <3>2 DEF z
      <4>2. d.refs[a] = c.refs[a]
        BY <3>2, <2>1, <2>3
      <4>. QED  BY <3>0, <4>1, <4>2
    <3>. QED  BY <3>1, <3>2
  <2>. QED  BY <2>3, <2>4, <2>5, <2>6 DEF Fits, d, z
<1>. QED  BY <1>3, <1>4

(***************************************************************************)
(* The part of AddReference that takes the new reference, for a slot that  *)
(* holds nothing, or a number whose low word is 0.                         *)
(***************************************************************************)
LEMMA TakeFits ==
  ASSUME NEW c, NEW w \in [Slots -> IDs \cup {0}], NEW n, NEW s \in Slots, w[s] = 0,
         NEW a \in IDs, NEW m \in Referrers,
         Fits(c, w, n),
         vars \subseteq usedIDs, vars \subseteq IDs
  PROVE  Fits(Taken(c, a, m), [w EXCEPT ![s] = Stored(a)], n \ {s})
<1>. DEFINE d == Taken(c, a, m)
            z == [w EXCEPT ![s] = Stored(a)]
<1>1. 0 \notin vars
  BY DEF IDs
<1>2. CASE a \notin vars
  <2>1. d = c /\ Stored(a) = 0
    BY <1>2 DEF Taken, Stored
  <2>2. \A b \in vars : HoldersIn(z, n \ {s}, b) = HoldersIn(w, n, b)
    BY <1>1, <2>1 DEF HoldersIn
  <2>. QED  BY <2>1, <2>2 DEF Fits
<1>3. CASE a \in vars
  <2>1. /\ d.refs = [c.refs EXCEPT ![a] = Append(c.refs[a], m)]
        /\ d.temp = c.temp \ {a}
        /\ d = [refs |-> d.refs, temp |-> d.temp]
        /\ Stored(a) = a
    BY <1>3 DEF Taken, Stored
  <2>2. /\ c.refs \in [IDs -> Seq(Referrers)]
        /\ c.refs[a] \in Seq(Referrers)
    BY DEF Fits
  <2>3. /\ Append(c.refs[a], m) \in Seq(Referrers)
        /\ Append(c.refs[a], m) # <<>>
        /\ Len(Append(c.refs[a], m)) = Len(c.refs[a]) + 1
    BY <2>2, AppendProperties
  <2>4. z = [w EXCEPT ![s] = a]
    BY <2>1
  <2>. HIDE DEF d, z
  <2>5. d \in [refs : [IDs -> Seq(Referrers)], temp : SUBSET usedIDs]
    BY <2>1, <2>2, <2>3 DEF Fits
  <2>6. \A b \in vars : b \in d.temp <=> d.refs[b] = <<>>
    <3>. TAKE b \in vars
    <3>1. CASE b = a
      BY <3>1, <2>1, <2>2, <2>3
    <3>2. CASE b # a
      BY <3>2, <2>1, <2>2 DEF Fits
    <3>. QED  BY <3>1, <3>2
  <2>7. \A b \in vars : Cardinality(HoldersIn(z, n \ {s}, b)) <= Len(d.refs[b])
    <3>. TAKE b \in vars
    <3>. DEFINE H == HoldersIn(w, n, b)
    <3>0. /\ Cardinality(H) <= Len(c.refs[b])
          /\ Cardinality(H) \in Nat
          /\ IsFiniteSet(H)
      BY HoldersFinite DEF Fits
    <3>1. CASE b = a
      <4>1. HoldersIn(z, n \ {s}, b) = H \cup {s}
        BY <3>1, <2>4 DEF HoldersIn
      <4>2. s \notin H
        BY <1>1 DEF HoldersIn
      <4>3. Cardinality(H \cup {s}) = Cardinality(H) + 1
        <5>. HIDE DEF H
        <5>. QED  BY <3>0, <4>2, FS_AddElement, Zenon
      <4>4. d.refs[b] = Append(c.refs[a], m)
        BY <3>1, <2>1, <2>2
      <4>5. Len(c.refs[a]) \in Nat
        BY <2>2
      <4>. HIDE DEF H
      <4>6. Cardinality(H) + 1 <= Len(c.refs[a]) + 1
        BY <3>0, <3>1, <4>5
      <4>. QED  BY <4>1, <4>3, <4>4, <4>6, <2>3
    <3>2. CASE b # a
      <4>1. HoldersIn(z, n \ {s}, b) = H
        BY <3>2, <2>4, <1>1 DEF HoldersIn
      <4>2. d.refs[b] = c.refs[b]
        BY <3>2, <2>1, <2>2
      <4>. QED  BY <3>0, <4>1, <4>2
    <3>. QED  BY <3>1, <3>2
  <2>. QED  BY <2>1, <2>5, <2>6, <2>7 DEF Fits, d, z
<1>. QED  BY <1>2, <1>3

-----------------------------------------------------------------------------
(***************************************************************************)
(* The inductive invariant.  Numbers in elements are assumed to have a low *)
(* word of 0 (NumericWords = {0}): otherwise it fails, because the number  *)
(* that SetArray replaces is then dropped as if it were an array.          *)
(*                                                                         *)
(* Numbering, the last part of IDPoolsAgree, is kept apart: nothing else   *)
(* rests on it, and it does not survive the load of a saved game.          *)
(***************************************************************************)
PoolsMatch == /\ usedIDs = vars \cup ({dying} \ {0})
              /\ usedIDs \cap availableIDs = {}
              /\ tempIDs \subseteq usedIDs

Numbering == \E n \in 0 .. MaxID : usedIDs \cup availableIDs = 1 .. n

NumbersAreNoIDs == \A s \in numeric : word[s] = 0
OwnersAreMods == \A a \in vars : owner[a] \in Mods

Inv == /\ TypeOK
       /\ OwnersAreMods
       /\ PoolsMatch
       /\ dying \notin vars
       /\ NumbersAreNoIDs
       /\ Fits(Counts, word, numeric)
       /\ NoDanglingReference

(***************************************************************************)
(* A slot is emptied: the reference it held is dropped, in any mod's name. *)
(***************************************************************************)
LEMMA EmptySlot ==
  ASSUME Inv, NEW s \in Slots, NEW m,
         UNCHANGED <<vars, owner, usedIDs, availableIDs, cleaning, dying>>,
         SetCounts(IF s \in numeric THEN Counts ELSE Dropped(Counts, word[s], m)),
         word' = [word EXCEPT ![s] = 0],
         numeric' \subseteq ElementSlots, numeric' \ {s} = numeric \ {s}
  PROVE  Inv'
<1>. DEFINE c == IF s \in numeric THEN Counts ELSE Dropped(Counts, word[s], m)
            z == [word EXCEPT ![s] = 0]
<1>1. /\ word \in [Slots -> IDs \cup {0}]
      /\ vars \subseteq usedIDs /\ vars \subseteq IDs
  BY DEF Inv, TypeOK, PoolsMatch, Counts
<1>2. Fits(c, z, numeric)
  <2>1. CASE s \in numeric
    <3>1. z = word
      BY <2>1, <1>1 DEF Inv, NumbersAreNoIDs
    <3>. QED  BY <2>1, <3>1, <1>1 DEF Inv
  <2>2. CASE s \notin numeric
    <3>1. s \in Slots \ numeric /\ Fits(Counts, word, numeric)
      BY <2>2 DEF Inv
    <3>2. Fits(Dropped(Counts, word[s], m), [word EXCEPT ![s] = 0], numeric)
      BY <1>1, <3>1, DropFits
    <3>3. c = Dropped(Counts, word[s], m)
      BY <2>2
    <3>. QED  BY <3>2, <3>3, Zenon
  <2>. QED  BY <2>1, <2>2
<1>3. refs' = c.refs /\ tempIDs' = c.temp /\ word' = z
  BY DEF SetCounts
<1>. HIDE DEF c, z
<1>4. Counts' = c
  <2>1. c \in [refs : [IDs -> Seq(Referrers)], temp : SUBSET usedIDs]
    BY <1>2 DEF Fits
  <2>2. Counts' = [refs |-> c.refs, temp |-> c.temp]
    BY <1>3 DEF Counts
  <2>. QED  BY <2>1, <2>2
<1>5. \A a \in vars : HoldersIn(z, numeric, a) = HoldersIn(z, numeric', a)
  BY <1>1 DEF HoldersIn, z, IDs
<1>6. Fits(Counts, word, numeric)'
  BY <1>2, <1>3, <1>4, <1>5 DEF Fits
<1>7. TypeOK'
  <2>1. refs' \in [IDs -> Seq(Referrers)] /\ tempIDs' \subseteq IDs
    BY <1>2, <1>3 DEF Fits, Inv, TypeOK
  <2>2. word' \in [Slots -> IDs \cup {0}]
    BY <1>1
  <2>. QED  BY <2>1, <2>2 DEF Inv, TypeOK, Referrers
<1>8. PoolsMatch'
  <2>1. tempIDs' \subseteq usedIDs
    BY <1>2, <1>3 DEF Fits
  <2>. QED  BY <2>1 DEF Inv, PoolsMatch
<1>9. NumbersAreNoIDs'
  BY <1>1 DEF Inv, NumbersAreNoIDs, TypeOK, Slots
<1>10. NoDanglingReference' /\ OwnersAreMods'
  BY <1>1 DEF Inv, NoDanglingReference, OwnersAreMods
<1>. QED  BY <1>6, <1>7, <1>8, <1>9, <1>10 DEF Inv

(***************************************************************************)
(* A slot is given array a: what it held is dropped, then a is taken.      *)
(***************************************************************************)
LEMMA MoveSlot ==
  ASSUME Inv, NEW s \in Slots, NEW a \in IDs, NEW m, NEW r \in Referrers,
         UNCHANGED <<vars, owner, usedIDs, availableIDs, cleaning, dying>>,
         SetCounts(Taken(IF s \in numeric THEN Counts ELSE Dropped(Counts, word[s], m),
                         a, r)),
         word' = [word EXCEPT ![s] = Stored(a)],
         numeric' = numeric \ {s}
  PROVE  Inv'
<1>. DEFINE c == IF s \in numeric THEN Counts ELSE Dropped(Counts, word[s], m)
            d == Taken(c, a, r)
            y == [word EXCEPT ![s] = 0]
            z == [word EXCEPT ![s] = Stored(a)]
<1>1. /\ word \in [Slots -> IDs \cup {0}]
      /\ vars \subseteq usedIDs /\ vars \subseteq IDs
      /\ Stored(a) \in vars \cup {0}
  BY DEF Inv, TypeOK, PoolsMatch, Counts, Stored
<1>2. Fits(c, y, numeric)
  <2>1. CASE s \in numeric
    <3>1. y = word
      BY <2>1, <1>1 DEF Inv, NumbersAreNoIDs
    <3>. QED  BY <2>1, <3>1, <1>1 DEF Inv
  <2>2. CASE s \notin numeric
    <3>1. s \in Slots \ numeric /\ Fits(Counts, word, numeric)
      BY <2>2 DEF Inv
    <3>2. Fits(Dropped(Counts, word[s], m), [word EXCEPT ![s] = 0], numeric)
      BY <1>1, <3>1, DropFits
    <3>3. c = Dropped(Counts, word[s], m)
      BY <2>2
    <3>. QED  BY <3>2, <3>3, Zenon
  <2>. QED  BY <2>1, <2>2
<1>3. /\ y \in [Slots -> IDs \cup {0}] /\ y[s] = 0
      /\ [y EXCEPT ![s] = Stored(a)] = z
  BY <1>1
<1>4. Fits(d, z, numeric \ {s})
  <2>1. Fits(d, [y EXCEPT ![s] = Stored(a)], numeric \ {s})
    <3>. HIDE DEF c, y
    <3>. QED  BY <1>1, <1>2, <1>3, TakeFits
  <2>. QED  BY <2>1, <1>3, Zenon
<1>5. refs' = d.refs /\ tempIDs' = d.temp /\ word' = z
  BY DEF SetCounts
<1>6. word' \in [Slots -> IDs \cup {0}]
  BY <1>1
<1>. HIDE DEF d, z
<1>7. Counts' = d
  <2>1. d \in [refs : [IDs -> Seq(Referrers)], temp : SUBSET usedIDs]
    BY <1>4 DEF Fits
  <2>2. Counts' = [refs |-> d.refs, temp |-> d.temp]
    BY <1>5 DEF Counts
  <2>. QED  BY <2>1, <2>2
<1>8. Fits(Counts, word, numeric)'
  BY <1>4, <1>5, <1>7 DEF Fits
<1>9. TypeOK'
  <2>1. refs' \in [IDs -> Seq(Referrers)] /\ tempIDs' \subseteq IDs
    BY <1>4, <1>5 DEF Fits, Inv, TypeOK
  <2>. QED  BY <2>1, <1>6 DEF Inv, TypeOK, Referrers
<1>10. PoolsMatch'
  <2>1. tempIDs' \subseteq usedIDs
    BY <1>4, <1>5 DEF Fits
  <2>. QED  BY <2>1 DEF Inv, PoolsMatch
<1>11. NumbersAreNoIDs'
  BY <1>1 DEF Inv, NumbersAreNoIDs, TypeOK, Slots
<1>12. NoDanglingReference' /\ OwnersAreMods'
  BY <1>1 DEF Inv, NoDanglingReference, OwnersAreMods
<1>. QED  BY <1>8, <1>9, <1>10, <1>11, <1>12 DEF Inv

-----------------------------------------------------------------------------
(***************************************************************************)
(* Every operation of the map preserves the invariant.                     *)
(***************************************************************************)
LEMMA InitInv == Init => Inv
<1>. SUFFICES ASSUME Init PROVE Inv
  OBVIOUS
<1>1. TypeOK
  <2>1. <<>> \in Seq(Mods \cup {0})
    BY EmptySeq
  <2>2. refs \in [IDs -> Seq(Mods \cup {0})]
    BY <2>1 DEF Init
  <2>. QED  BY <2>2 DEF Init, TypeOK
<1>2. PoolsMatch
  BY DEF Init, PoolsMatch
<1>3. Fits(Counts, word, numeric)
  BY DEF Init, Fits, Counts
<1>. QED  BY <1>1, <1>2, <1>3 DEF Init, Inv, NumbersAreNoIDs, NoDanglingReference,
                                OwnersAreMods

(***************************************************************************)
(* The ID that GetUnusedID chooses is in no pool of used IDs.              *)
(***************************************************************************)
LEMMA UnusedIDIsFresh ==
  ASSUME TypeOK, PoolsMatch
  PROVE  /\ GetUnusedID \notin usedIDs
         /\ GetUnusedID \in Nat \ {0}
<1>1. MaxID \in Nat /\ availableIDs \subseteq Nat \ {0} /\ usedIDs \subseteq 0 .. MaxID
      /\ usedIDs \subseteq Nat \ {0}
  BY ConstantsAssumption DEF ConstantsAssumption, TypeOK, IDs
<1>2. CASE availableIDs # {}
  <2>1. GetUnusedID \in availableIDs
    BY <1>1, <1>2, MinProperty DEF GetUnusedID
  <2>. QED  BY <1>1, <2>1 DEF PoolsMatch
<1>3. CASE availableIDs = {} /\ usedIDs # {}
  <2>1. GetUnusedID = Max(usedIDs) + 1
    BY <1>3 DEF GetUnusedID
  <2>2. Max(usedIDs) \in usedIDs /\ \A y \in usedIDs : y <= Max(usedIDs)
    BY <1>1, <1>3, MaxProperty
  <2>3. Max(usedIDs) \in Nat
    BY <1>1, <2>2
  <2>4. ASSUME GetUnusedID \in usedIDs PROVE FALSE
    BY <2>1, <2>2, <2>3, <2>4
  <2>. QED  BY <2>1, <2>3, <2>4
<1>4. CASE availableIDs = {} /\ usedIDs = {}
  BY <1>4 DEF GetUnusedID
<1>. QED  BY <1>2, <1>3, <1>4

LEMMA CreateInv ==
  ASSUME Inv, NEW m \in Mods, Create(m)
  PROVE  Inv'
<1>. DEFINE a == GetUnusedID
<1>1. a \in IDs /\ a \notin usedIDs
  BY UnusedIDIsFresh DEF Inv, Create
<1>2. /\ availableIDs' = availableIDs \ {a} /\ usedIDs' = usedIDs \cup {a}
      /\ vars' = vars \cup {a} /\ owner' = [owner EXCEPT ![a] = m]
      /\ refs' = [refs EXCEPT ![a] = <<>>] /\ tempIDs' = tempIDs \cup {a}
      /\ UNCHANGED <<word, numeric, cleaning, dying>>
      /\ dying = 0
  BY DEF Create, ScriptStep
<1>. HIDE DEF a
<1>3. /\ TypeOK /\ PoolsMatch /\ Fits(Counts, word, numeric) /\ NoDanglingReference
      /\ NumbersAreNoIDs
  BY DEF Inv
<1>4. TypeOK'
  BY <1>1, <1>2, <1>3 DEF TypeOK
<1>5. PoolsMatch'
  BY <1>1, <1>2, <1>3 DEF PoolsMatch
<1>6. a \notin vars /\ HoldersIn(word, numeric, a) = {}
  <2>1. a \notin vars
    BY <1>1, <1>3 DEF PoolsMatch
  <2>2. a # 0
    BY <1>1 DEF IDs
  <2>. QED  BY <2>1, <2>2, <1>3 DEF HoldersIn, NoDanglingReference
<1>7. Fits(Counts, word, numeric)'
  <2>1. Counts' \in [refs : [IDs -> Seq(Referrers)], temp : SUBSET usedIDs']
    BY <1>1, <1>2, <1>3, <1>4 DEF Counts, TypeOK, PoolsMatch, Referrers
  <2>2. \A b \in vars' : b \in tempIDs' <=> refs'[b] = <<>>
    BY <1>1, <1>2, <1>3 DEF Fits, Counts, TypeOK
  <2>3. \A b \in vars' : Cardinality(HoldersIn(word, numeric, b)) <= Len(refs'[b])
    <3>. TAKE b \in vars'
    <3>1. CASE b = a
      <4>1. refs'[b] = <<>>
        BY <3>1, <1>1, <1>2, <1>3 DEF TypeOK
      <4>. QED  BY <3>1, <4>1, <1>6, FS_EmptySet
    <3>2. CASE b # a
      BY <3>2, <1>2, <1>3 DEF Fits, Counts, TypeOK
    <3>. QED  BY <3>1, <3>2
  <2>. QED  BY <2>1, <2>2, <2>3, <1>2 DEF Fits, Counts, HoldersIn
<1>8. NoDanglingReference' /\ NumbersAreNoIDs' /\ dying' \notin vars' /\ OwnersAreMods'
  BY <1>1, <1>2, <1>3 DEF OwnersAreMods, NoDanglingReference, NumbersAreNoIDs, IDs, TypeOK, Inv
<1>. QED  BY <1>4, <1>5, <1>7, <1>8 DEF Inv

(***************************************************************************)
(* Delete unlinks an array that nothing holds: its m_refs is empty and     *)
(* covers its holders.                                                     *)
(***************************************************************************)
LEMMA DeleteBeginInv ==
  ASSUME Inv, DeleteBegin
  PROVE  Inv' /\ \A s \in Slots \ numeric : word[s] # dying'
<1>. DEFINE d == Max(tempIDs)
<1>1. d \in tempIDs
  <2>1. tempIDs # {} /\ tempIDs \subseteq 0 .. MaxID /\ MaxID \in Nat
    BY ConstantsAssumption DEF ConstantsAssumption, DeleteBegin, Inv, TypeOK, IDs
  <2>. QED  BY <2>1, MaxProperty
<1>2. /\ dying = 0 /\ dying' = d /\ vars' = vars \ {d}
      /\ UNCHANGED <<owner, refs, usedIDs, tempIDs, availableIDs, word, numeric, cleaning>>
  BY DEF DeleteBegin
<1>. HIDE DEF d
<1>3. /\ TypeOK /\ PoolsMatch /\ Fits(Counts, word, numeric) /\ NoDanglingReference
      /\ NumbersAreNoIDs
  BY DEF Inv
<1>4. d \in vars /\ d \in IDs /\ d # 0
  BY <1>1, <1>2, <1>3 DEF PoolsMatch, TypeOK, IDs
<1>5. HoldersIn(word, numeric, d) = {}
  <2>1. refs[d] = <<>> /\ Cardinality(HoldersIn(word, numeric, d)) <= Len(refs[d])
    BY <1>1, <1>3, <1>4 DEF Fits, Counts
  <2>2. Cardinality(HoldersIn(word, numeric, d)) \in Nat /\ IsFiniteSet(HoldersIn(word, numeric, d))
    BY HoldersFinite
  <2>3. Cardinality(HoldersIn(word, numeric, d)) = 0
    BY <2>1, <2>2
  <2>. QED  BY <2>2, <2>3, FS_EmptySet
<1>6. \A s \in Slots \ numeric : word[s] # d
  BY <1>5 DEF HoldersIn
<1>7. TypeOK' /\ NumbersAreNoIDs'
  BY <1>2, <1>3, <1>4 DEF TypeOK, NumbersAreNoIDs
<1>8. PoolsMatch'
  BY <1>2, <1>3, <1>4 DEF PoolsMatch
<1>9. Fits(Counts, word, numeric)'
  BY <1>2, <1>3 DEF Fits, Counts, HoldersIn
<1>10. NoDanglingReference' /\ OwnersAreMods'
  BY <1>2, <1>3, <1>6 DEF NoDanglingReference, OwnersAreMods, Inv
<1>. QED  BY <1>2, <1>6, <1>7, <1>8, <1>9, <1>10 DEF Inv

LEMMA DeleteEndInv ==
  ASSUME Inv, DeleteEnd
  PROVE  Inv'
<1>. DEFINE d == dying
<1>1. /\ d # 0 /\ dying' = 0
      /\ usedIDs' = usedIDs \ {d} /\ tempIDs' = tempIDs \ {d}
      /\ availableIDs' = availableIDs \cup {d}
      /\ refs' = [refs EXCEPT ![d] = <<>>] /\ owner' = [owner EXCEPT ![d] = 0]
      /\ UNCHANGED <<vars, word, numeric, cleaning>>
  BY DEF DeleteEnd, EraseID, SetIDAvailable
<1>2. /\ TypeOK /\ PoolsMatch /\ Fits(Counts, word, numeric) /\ NoDanglingReference
      /\ NumbersAreNoIDs /\ d \notin vars
  BY DEF Inv
<1>3. d \in IDs /\ d \in usedIDs /\ 0 \notin vars
  BY <1>1, <1>2 DEF TypeOK, PoolsMatch, IDs
<1>4. TypeOK'
  BY <1>1, <1>2, <1>3 DEF TypeOK
<1>5. PoolsMatch'
  BY <1>1, <1>2, <1>3 DEF PoolsMatch
<1>6. Fits(Counts, word, numeric)'
  <2>1. Counts' \in [refs : [IDs -> Seq(Referrers)], temp : SUBSET usedIDs']
    BY <1>1, <1>2, <1>4 DEF Counts, TypeOK, PoolsMatch, Referrers
  <2>2. \A b \in vars : /\ refs'[b] = refs[b]
                        /\ b \in tempIDs' <=> b \in tempIDs
    BY <1>1, <1>2 DEF TypeOK
  <2>. QED  BY <1>1, <1>2, <2>1, <2>2 DEF Fits, Counts, HoldersIn
<1>7. NoDanglingReference' /\ NumbersAreNoIDs' /\ OwnersAreMods'
  BY <1>1, <1>2 DEF NoDanglingReference, NumbersAreNoIDs, OwnersAreMods, Inv, TypeOK
<1>. QED  BY <1>1, <1>3, <1>4, <1>5, <1>6, <1>7 DEF Inv

(***************************************************************************)
(* Where variables, arguments and elements lie among the slots, and which  *)
(* mods refer to them.                                                     *)
(***************************************************************************)
LEMMA SlotFacts ==
  ASSUME TypeOK
  PROVE  /\ \A v \in ScriptVars : v \in Slots /\ v \notin numeric
         /\ \A c \in CallArgs : c \in Slots /\ c \notin numeric
         /\ \A b \in IDs, k \in Keys : <<b, k>> \in Slots /\ <<b, k>> \in ElementSlots
         /\ \A m \in Mods : m \in Referrers
         /\ \A a \in IDs : GetArrayOwningModIndex(a) \in Referrers
         /\ \A m : Dropped(Counts, 0, m) = Counts
BY ConstantsAssumption DEF ConstantsAssumption, TypeOK, Slots, ElementSlots, Referrers,
                           GetArrayOwningModIndex, Dropped, IDs

(***************************************************************************)
(* The operations of scripts, and the destruction of an element, each      *)
(* empty one slot in the name of mod m, or move it to array a, dropping    *)
(* what it held in the name of m and taking a in the name of r.            *)
(***************************************************************************)
Emptied(s, m) ==
  /\ word[s] \in vars => m \in Mods
  /\ UNCHANGED <<vars, owner, usedIDs, availableIDs, cleaning, dying>>
  /\ SetCounts(IF s \in numeric THEN Counts ELSE Dropped(Counts, word[s], m))
  /\ word' = [word EXCEPT ![s] = 0]
  /\ numeric' \subseteq ElementSlots /\ numeric' \ {s} = numeric \ {s}

Moved(s, a, m, r) ==
  /\ word[s] \in vars => m \in Mods
  /\ a \in vars => r \in Mods
  /\ UNCHANGED <<vars, owner, usedIDs, availableIDs, cleaning, dying>>
  /\ SetCounts(Taken(IF s \in numeric THEN Counts ELSE Dropped(Counts, word[s], m),
                     a, r))
  /\ word' = [word EXCEPT ![s] = Stored(a)]
  /\ numeric' = numeric \ {s}

SlotStep == \/ \E s \in Slots, m \in Referrers : Emptied(s, m)
            \/ \E s \in Slots, a \in IDs, m \in Referrers, r \in Referrers : Moved(s, a, m, r)

ScriptMoves ==
  \/ \E v \in ScriptVars : ClearVar(v) \/ \E a \in IDs, m \in Mods : AssignVar(v, a, m)
  \/ \E b \in IDs, k \in Keys :
       \/ EraseElement(b, k)
       \/ \E a \in IDs : SetArray(b, k, a)
       \/ \E w \in NumericWords : SetNumber(b, k, w)
  \/ \E c \in CallArgs : DropArg(c) \/ \E a \in IDs : HoldArg(c, a)
  \/ \E k \in Keys : DestroyElement(k)

LEMMA ScriptsMoveSlots ==
  ASSUME Inv, ScriptMoves, NumericWords = {0}
  PROVE  SlotStep
<1>. /\ TypeOK /\ NumbersAreNoIDs /\ OwnersAreMods
     /\ ModOf \in [ScriptVars -> Mods] /\ 0 \notin vars
  BY ConstantsAssumption DEF Inv, ConstantsAssumption, TypeOK, IDs
<1>1. \A x : /\ x \in vars => GetArrayOwningModIndex(x) \in Mods
             /\ GetArrayOwningModIndex(x) \in Referrers
  BY DEF OwnersAreMods, GetArrayOwningModIndex, Referrers
<1>2. ASSUME NEW v \in ScriptVars, NEW a \in IDs, NEW m \in Mods, AssignVar(v, a, m)
      PROVE  SlotStep
  <2>1. Added(Counts, word[v], a, m) = Taken(Dropped(Counts, word[v], m), a, m)
    BY SlotFacts DEF Added
  <2>2. v \in Slots /\ v \notin numeric /\ numeric \ {v} = numeric /\ m \in Referrers
    BY SlotFacts
  <2>3. Moved(v, a, m, m)
    BY <1>2, <2>1, <2>2 DEF Moved, AssignVar, ScriptStep
  <2>. QED  BY <2>2, <2>3 DEF SlotStep
<1>3. ASSUME NEW v \in ScriptVars, ClearVar(v)
      PROVE  SlotStep
  <2>1. v \in Slots /\ v \notin numeric /\ ModOf[v] \in Mods /\ ModOf[v] \in Referrers
    BY SlotFacts
  <2>2. Emptied(v, ModOf[v])
    BY <1>3, <2>1 DEF Emptied, ClearVar, ScriptStep, TypeOK
  <2>. QED  BY <2>1, <2>2 DEF SlotStep
<1>4. ASSUME NEW b \in IDs, NEW k \in Keys, NEW a \in IDs, SetArray(b, k, a)
      PROVE  SlotStep
  <2>. DEFINE s == <<b, k>>
              o == GetArrayOwningModIndex(word[s])
              r == GetArrayOwningModIndex(b)
  <2>1. s \in Slots /\ o \in Referrers /\ r \in Referrers
    BY <1>1, SlotFacts
  <2>2. Added(Unset(Counts, s), WordAfterUnset(s), a, r)
          = Taken(IF s \in numeric THEN Counts ELSE Dropped(Counts, word[s], o), a, r)
    BY DEF Added, Unset, WordAfterUnset, NumbersAreNoIDs
  <2>3. /\ SetCounts(Added(Unset(Counts, s), WordAfterUnset(s), a, r))
        /\ word' = [word EXCEPT ![s] = Stored(a)] /\ numeric' = numeric \ {s}
        /\ UNCHANGED <<vars, owner, usedIDs, availableIDs, cleaning, dying>>
        /\ b \in vars
    BY <1>4 DEF SetArray, ScriptStep
  <2>4. SetCounts(Taken(IF s \in numeric THEN Counts ELSE Dropped(Counts, word[s], o), a, r))
    BY <2>2, <2>3
  <2>5. r \in Mods /\ (word[s] \in vars => o \in Mods)
    BY <1>1, <2>3
  <2>. HIDE DEF s, o, r
  <2>6. Moved(s, a, o, r)
    BY <2>3, <2>4, <2>5 DEF Moved
  <2>. QED  BY <2>1, <2>6 DEF SlotStep
<1>5. ASSUME NEW b \in IDs, NEW k \in Keys, NEW w \in NumericWords, SetNumber(b, k, w)
      PROVE  SlotStep
  <2>. DEFINE s == <<b, k>>
              o == GetArrayOwningModIndex(word[s])
  <2>1. s \in Slots /\ s \in ElementSlots /\ o \in Referrers /\ (word[s] \in vars => o \in Mods)
    BY <1>1, SlotFacts
  <2>2. /\ SetCounts(Unset(Counts, s))
        /\ word' = [word EXCEPT ![s] = 0] /\ numeric' = numeric \cup {s}
        /\ UNCHANGED <<vars, owner, usedIDs, availableIDs, cleaning, dying>>
    BY <1>5 DEF SetNumber, ScriptStep
  <2>3. Unset(Counts, s) = IF s \in numeric THEN Counts ELSE Dropped(Counts, word[s], o)
    BY DEF Unset
  <2>4. numeric' \subseteq ElementSlots /\ numeric' \ {s} = numeric \ {s}
    BY <2>1, <2>2 DEF TypeOK
  <2>. HIDE DEF s, o
  <2>5. Emptied(s, o)
    BY <2>1, <2>2, <2>3, <2>4 DEF Emptied
  <2>. QED  BY <2>1, <2>5 DEF SlotStep
<1>6. ASSUME NEW b \in IDs, NEW k \in Keys, EraseElement(b, k)
      PROVE  SlotStep
  <2>. DEFINE s == <<b, k>>
              o == GetArrayOwningModIndex(word[s])
  <2>1. s \in Slots /\ s \in ElementSlots /\ o \in Referrers /\ (word[s] \in vars => o \in Mods)
    BY <1>1, SlotFacts
  <2>2. /\ SetCounts(Unset(Counts, s))
        /\ word' = [word EXCEPT ![s] = 0] /\ numeric' = numeric \ {s}
        /\ UNCHANGED <<vars, owner, usedIDs, availableIDs, cleaning, dying>>
    BY <1>6 DEF EraseElement, ScriptStep
  <2>3. Unset(Counts, s) = IF s \in numeric THEN Counts ELSE Dropped(Counts, word[s], o)
    BY DEF Unset
  <2>4. numeric' \subseteq ElementSlots /\ numeric' \ {s} = numeric \ {s}
    BY <2>1, <2>2 DEF TypeOK
  <2>. HIDE DEF s, o
  <2>5. Emptied(s, o)
    BY <2>1, <2>2, <2>3, <2>4 DEF Emptied
  <2>. QED  BY <2>1, <2>5 DEF SlotStep
<1>7. ASSUME NEW c \in CallArgs, NEW a \in IDs, HoldArg(c, a)
      PROVE  SlotStep
  <2>. DEFINE o == GetArrayOwningModIndex(word[c])
              r == GetArrayOwningModIndex(a)
  <2>1. /\ c \in Slots /\ c \notin numeric /\ numeric \ {c} = numeric
        /\ o \in Referrers /\ r \in Referrers
        /\ (word[c] \in vars => o \in Mods) /\ (a \in vars => r \in Mods)
    BY <1>1, SlotFacts
  <2>2. Added(Unset(Counts, c), 0, a, r) = Taken(Dropped(Counts, word[c], o), a, r)
    BY <2>1 DEF Added, Unset
  <2>3. /\ SetCounts(Added(Unset(Counts, c), 0, a, r))
        /\ word' = [word EXCEPT ![c] = Stored(a)] /\ numeric' = numeric
        /\ UNCHANGED <<vars, owner, usedIDs, availableIDs, cleaning, dying>>
    BY <1>7 DEF HoldArg, ScriptStep
  <2>4. /\ SetCounts(Taken(IF c \in numeric THEN Counts ELSE Dropped(Counts, word[c], o),
                          a, r))
        /\ numeric' = numeric \ {c}
    BY <2>1, <2>2, <2>3
  <2>. HIDE DEF o, r
  <2>5. Moved(c, a, o, r)
    BY <2>1, <2>3, <2>4 DEF Moved
  <2>. QED  BY <2>1, <2>5 DEF SlotStep
<1>8. ASSUME NEW c \in CallArgs, DropArg(c)
      PROVE  SlotStep
  <2>. DEFINE o == GetArrayOwningModIndex(word[c])
  <2>1. /\ c \in Slots /\ c \notin numeric /\ o \in Referrers
        /\ (word[c] \in vars => o \in Mods) /\ numeric \subseteq ElementSlots
    BY <1>1, SlotFacts DEF TypeOK
  <2>2. Emptied(c, o)
    BY <1>8, <2>1 DEF Emptied, DropArg, ScriptStep, Unset
  <2>. QED  BY <2>1, <2>2 DEF SlotStep
<1>9. ASSUME NEW k \in Keys, DestroyElement(k)
      PROVE  SlotStep
  <2>. DEFINE s == <<dying, k>>
              o == GetArrayOwningModIndex(word[s])
  <2>1. dying \in IDs
    BY <1>9 DEF DestroyElement, TypeOK
  <2>2. s \in Slots /\ s \in ElementSlots /\ o \in Referrers /\ (word[s] \in vars => o \in Mods)
    BY <1>1, <2>1, SlotFacts
  <2>3. /\ SetCounts(Unset(Counts, s))
        /\ word' = [word EXCEPT ![s] = 0] /\ numeric' = numeric \ {s}
        /\ UNCHANGED <<vars, owner, usedIDs, availableIDs, cleaning, dying>>
    BY <1>9 DEF DestroyElement
  <2>4. Unset(Counts, s) = IF s \in numeric THEN Counts ELSE Dropped(Counts, word[s], o)
    BY DEF Unset
  <2>5. numeric' \subseteq ElementSlots /\ numeric' \ {s} = numeric \ {s}
    BY <2>2, <2>3 DEF TypeOK
  <2>. HIDE DEF s, o
  <2>6. Emptied(s, o)
    BY <2>2, <2>3, <2>4, <2>5 DEF Emptied
  <2>. QED  BY <2>2, <2>6 DEF SlotStep
<1>. QED  BY <1>2, <1>3, <1>4, <1>5, <1>6, <1>7, <1>8, <1>9 DEF ScriptMoves

LEMMA SlotStepInv ==
  ASSUME Inv, SlotStep
  PROVE  Inv'
<1>1. ASSUME NEW s \in Slots, NEW m \in Referrers, Emptied(s, m)
      PROVE  Inv'
  BY <1>1, EmptySlot DEF Emptied
<1>2. ASSUME NEW s \in Slots, NEW a \in IDs, NEW m \in Referrers, NEW r \in Referrers,
             Moved(s, a, m, r)
      PROVE  Inv'
  BY <1>2, MoveSlot DEF Moved
<1>. QED  BY <1>1, <1>2 DEF SlotStep

LEMMA NextInv ==
  ASSUME Inv, [Next]_allVars, NumericWords = {0}
  PROVE  Inv'
<1>1. CASE UNCHANGED allVars
  BY <1>1 DEF allVars, heap, Inv, TypeOK, PoolsMatch, NumbersAreNoIDs, Fits, Counts,
              HoldersIn, NoDanglingReference, OwnersAreMods
<1>2. CASE \E m \in Mods : Create(m)
  BY <1>2, CreateInv
<1>3. CASE CleanBegin \/ CleanEnd
  <2>1. UNCHANGED <<heap, dying>> /\ cleaning' \in BOOLEAN
    BY <1>3 DEF CleanBegin, CleanEnd
  <2>2. TypeOK'
    BY <2>1 DEF Inv, TypeOK, heap
  <2>3. Fits(Counts, word, numeric)'
    BY <2>1 DEF Inv, Fits, Counts, HoldersIn, heap
  <2>. QED  BY <2>1, <2>2, <2>3
            DEF heap, Inv, PoolsMatch, NumbersAreNoIDs, NoDanglingReference, OwnersAreMods
<1>4. CASE DeleteBegin
  BY <1>4, DeleteBeginInv
<1>5. CASE DeleteEnd
  BY <1>5, DeleteEndInv
<1>6. CASE ScriptMoves
  BY <1>6, ScriptsMoveSlots, SlotStepInv
<1>. QED  BY <1>1, <1>2, <1>3, <1>4, <1>5, <1>6 DEF Next, Clean, ScriptMoves

(***************************************************************************)
(* The IDs ever given out stay an interval: GetUnusedID takes one of the   *)
(* available ones or the next, and Delete makes the ID available.          *)
(***************************************************************************)
LEMMA NumberingNext ==
  ASSUME TypeOK, PoolsMatch, Numbering, [Next]_allVars
  PROVE  Numbering'
<1>1. CASE UNCHANGED <<usedIDs, availableIDs>>
  BY <1>1 DEF Numbering
<1>2. ASSUME NEW m \in Mods, Create(m)
      PROVE  Numbering'
  <2>. DEFINE a == GetUnusedID
  <2>1. PICK n \in 0 .. MaxID : usedIDs \cup availableIDs = 1 .. n
    BY DEF Numbering
  <2>2. /\ a \in IDs /\ MaxID \in Nat /\ n \in Nat /\ usedIDs \cap availableIDs = {}
        /\ usedIDs' = usedIDs \cup {a} /\ availableIDs' = availableIDs \ {a}
    BY <1>2, ConstantsAssumption DEF Create, ConstantsAssumption, PoolsMatch
  <2>3. a = IF availableIDs # {} THEN Min(availableIDs)
            ELSE IF usedIDs # {} THEN Max(usedIDs) + 1
            ELSE 1
    BY DEF GetUnusedID
  <2>. HIDE DEF a
  <2>4. LET given == usedIDs \cup {a} \cup (availableIDs \ {a})
        IN  \/ a <= n /\ given = 1 .. n
            \/ a = n + 1 /\ given = 1 .. (n + 1)
    BY <2>1, <2>2, <2>3, UnusedIDProperty
  <2>5. n + 1 \in 0 .. MaxID \/ a # n + 1
    BY <2>2 DEF IDs
  <2>. QED  BY <2>2, <2>4, <2>5 DEF Numbering
<1>3. CASE DeleteEnd
  <2>1. dying \in usedIDs /\ usedIDs' = usedIDs \ {dying}
        /\ availableIDs' = availableIDs \cup {dying}
    BY <1>3 DEF DeleteEnd, EraseID, SetIDAvailable, PoolsMatch
  <2>2. usedIDs' \cup availableIDs' = usedIDs \cup availableIDs
    BY <2>1
  <2>. QED  BY <2>2 DEF Numbering
<1>. QED  BY <1>1, <1>2, <1>3
          DEF Next, Clean, ClearVar, AssignVar, EraseElement, SetArray, SetNumber, DropArg,
              HoldArg, CleanBegin, CleanEnd, DeleteBegin, DestroyElement, allVars, heap

LEMMA InitNumbering == Init => Numbering
<1>1. 0 \in 0 .. MaxID
  BY ConstantsAssumption DEF ConstantsAssumption
<1>2. Init => usedIDs \cup availableIDs = 1 .. 0
  BY DEF Init
<1>. QED  BY <1>1, <1>2 DEF Numbering

(***************************************************************************)
(* The safety of the counted references: no count falls below the number   *)
(* of slots that hold the array, whatever mods add and remove them, the    *)
(* queue is exactly the unreferenced arrays, the pools of IDs agree, and   *)
(* no slot names an array that was deleted.                                *)
(***************************************************************************)
THEOREM ReferencesAreSafe ==
  ASSUME NumericWords = {0}
  PROVE  Spec => []( /\ RefsCoverHolders
                     /\ QueuedIffUnreferenced
                     /\ IDPoolsAgree
                     /\ NoDanglingReference )
<1>1. Init => Inv /\ Numbering
  BY InitInv, InitNumbering
<1>2. Inv /\ Numbering /\ [Next]_allVars => (Inv /\ Numbering)'
  BY NextInv, NumberingNext DEF Inv
<1>3. Inv /\ Numbering => /\ RefsCoverHolders
                          /\ QueuedIffUnreferenced
                          /\ IDPoolsAgree
                          /\ NoDanglingReference
  BY DEF Inv, PoolsMatch, Numbering, IDPoolsAgree, Fits, Counts, HoldersIn, Holders,
         RefsCoverHolders, QueuedIffUnreferenced
<1>. QED  BY <1>1, <1>2, <1>3, PTL DEF Spec

-----------------------------------------------------------------------------
(***************************************************************************)
(* With the scripts of one mod every entry of every m_refs is that mod, so *)
(* that each drop takes exactly one entry out, and the counts are exact.   *)
(***************************************************************************)
Exact(c, w, n) ==
  \A a \in vars : /\ c.refs[a] \in Seq(Mods)
                  /\ Len(c.refs[a]) = Cardinality(HoldersIn(w, n, a))

LEMMA VectorRemoveExact ==
  ASSUME NEW m, NEW q \in Seq({m}), q # <<>>
  PROVE  /\ VectorRemove(q, m) \in Seq({m})
         /\ Len(VectorRemove(q, m)) = Len(q) - 1
<1>. DEFINE At == {i \in 1 .. Len(q) : q[i] = m}
<1>1. /\ At \subseteq 0 .. Len(q) /\ At \subseteq 1 .. Len(q) /\ Len(q) \in Nat
      /\ 1 \in At
  OBVIOUS
<1>2. VectorRemove(q, m) = IF At = {} THEN q ELSE RemoveAt(q, Max(At))
  BY DEF VectorRemove
<1>. HIDE DEF At
<1>3. At # {} /\ Max(At) \in 1 .. Len(q)
  BY <1>1, MaxProperty
<1>. QED  BY <1>2, <1>3, RemoveAtProperty

(***************************************************************************)
(* One drop and one take keep the counts exact.                            *)
(***************************************************************************)
LEMMA DropExact ==
  ASSUME NEW c, NEW w \in [Slots -> IDs \cup {0}], NEW n, NEW s \in Slots \ n, NEW m,
         Fits(c, w, n), Exact(c, w, n),
         vars \subseteq IDs, Mods = {m} \/ w[s] \notin vars
  PROVE  Exact(Dropped(c, w[s], m), [w EXCEPT ![s] = 0], n)
<1>. DEFINE old == w[s]
            d == Dropped(c, old, m)
            z == [w EXCEPT ![s] = 0]
<1>1. 0 \notin vars
  BY DEF IDs
<1>2. \A a \in vars : HoldersIn(z, n, a) = HoldersIn(w, n, a) \ (IF a = old THEN {s} ELSE {})
  BY <1>1 DEF HoldersIn
<1>3. CASE old \notin vars
  <2>1. d = c /\ \A a \in vars : HoldersIn(z, n, a) = HoldersIn(w, n, a)
    BY <1>2, <1>3 DEF Dropped
  <2>. QED  BY <2>1 DEF Exact
<1>4. CASE old \in vars
  <2>. DEFINE left == VectorRemove(c.refs[old], m)
              H == HoldersIn(w, n, old)
  <2>1. /\ c.refs \in [IDs -> Seq(Referrers)] /\ Mods = {m}
        /\ c.refs[old] \in Seq({m}) /\ Len(c.refs[old]) = Cardinality(H)
    BY <1>4 DEF Fits, Exact
  <2>2. s \in H /\ IsFiniteSet(H) /\ Cardinality(H) \in Nat
    <3>1. s \in H
      BY <1>4 DEF HoldersIn
    <3>. QED  BY <3>1, HoldersFinite
  <2>3. d.refs = [c.refs EXCEPT ![old] = left]
    BY <1>4 DEF Dropped
  <2>4. HoldersIn(z, n, old) = H \ {s}
    BY <1>2, <1>4
  <2>. HIDE DEF H, d, z
  <2>5. Cardinality(H \ {s}) = Cardinality(H) - 1
    BY <2>2, FS_RemoveElement, Zenon
  <2>6. c.refs[old] # <<>>
    <3>1. Cardinality(H) # 0
      BY <2>2, FS_EmptySet
    <3>. QED  BY <2>1, <3>1
  <2>7. left \in Seq(Mods) /\ Len(left) = Cardinality(H) - 1
    BY <2>1, <2>6, VectorRemoveExact
  <2>. HIDE DEF left
  <2>. SUFFICES ASSUME NEW a \in vars
                PROVE  /\ d.refs[a] \in Seq(Mods)
                       /\ Len(d.refs[a]) = Cardinality(HoldersIn(z, n, a))
    BY DEF Exact, d, z
  <2>8. CASE a = old
    <3>1. d.refs[a] = left
      BY <2>8, <2>1, <2>3
    <3>. QED  BY <2>8, <3>1, <2>4, <2>5, <2>7
  <2>9. CASE a # old
    <3>1. d.refs[a] = c.refs[a] /\ HoldersIn(z, n, a) = HoldersIn(w, n, a)
      BY <2>9, <2>1, <2>3, <1>2 DEF z
    <3>. QED  BY <3>1 DEF Exact
  <2>. QED  BY <2>8, <2>9
<1>. QED  BY <1>3, <1>4

LEMMA TakeExact ==
  ASSUME NEW c, NEW w \in [Slots -> IDs \cup {0}], NEW n, NEW s \in Slots, w[s] = 0,
         NEW a \in IDs, NEW m,
         Fits(c, w, n), Exact(c, w, n),
         vars \subseteq IDs, a \in vars => m \in Mods
  PROVE  Exact(Taken(c, a, m), [w EXCEPT ![s] = Stored(a)], n \ {s})
<1>. DEFINE d == Taken(c, a, m)
            z == [w EXCEPT ![s] = Stored(a)]
<1>1. 0 \notin vars
  BY DEF IDs
<1>2. CASE a \notin vars
  <2>1. d = c /\ Stored(a) = 0
    BY <1>2 DEF Taken, Stored
  <2>2. \A b \in vars : HoldersIn(z, n \ {s}, b) = HoldersIn(w, n, b)
    BY <1>1, <2>1 DEF HoldersIn
  <2>. QED  BY <2>1, <2>2 DEF Exact
<1>3. CASE a \in vars
  <2>. DEFINE H == HoldersIn(w, n, a)
  <2>1. d.refs = [c.refs EXCEPT ![a] = Append(c.refs[a], m)] /\ Stored(a) = a
    BY <1>3 DEF Taken, Stored
  <2>2. /\ c.refs \in [IDs -> Seq(Referrers)] /\ c.refs[a] \in Seq(Mods)
        /\ Len(c.refs[a]) = Cardinality(H)
    BY <1>3 DEF Fits, Exact
  <2>3. /\ Append(c.refs[a], m) \in Seq(Mods)
        /\ Len(Append(c.refs[a], m)) = Len(c.refs[a]) + 1
    BY <1>3, <2>2, AppendProperties
  <2>4. HoldersIn(z, n \ {s}, a) = H \cup {s} /\ s \notin H
    BY <1>1, <1>3, <2>1 DEF HoldersIn
  <2>5. \A b \in vars : b # a => HoldersIn(z, n \ {s}, b) = HoldersIn(w, n, b)
    BY <1>1, <2>1 DEF HoldersIn
  <2>6. IsFiniteSet(H) /\ Cardinality(H) \in Nat
    BY HoldersFinite
  <2>. HIDE DEF H, d, z
  <2>7. Cardinality(H \cup {s}) = Cardinality(H) + 1
    BY <2>4, <2>6, FS_AddElement, Zenon
  <2>. SUFFICES ASSUME NEW b \in vars
                PROVE  /\ d.refs[b] \in Seq(Mods)
                       /\ Len(d.refs[b]) = Cardinality(HoldersIn(z, n \ {s}, b))
    BY DEF Exact, d, z
  <2>8. CASE b = a
    <3>1. d.refs[b] = Append(c.refs[a], m)
      BY <2>8, <2>1, <2>2
    <3>. QED  BY <2>8, <3>1, <2>2, <2>3, <2>4, <2>7
  <2>9. CASE b # a
    <3>1. d.refs[b] = c.refs[b]
      BY <2>9, <2>1, <2>2
    <3>. QED  BY <2>9, <3>1, <2>5 DEF Exact
  <2>. QED  BY <2>8, <2>9
<1>. QED  BY <1>2, <1>3

(***************************************************************************)
(* A script step, and the destruction of an element, keep them exact.      *)
(***************************************************************************)
LEMMA SlotStepExact ==
  ASSUME Inv, Exact(Counts, word, numeric), SlotStep, NEW mod, Mods = {mod}
  PROVE  Exact(Counts, word, numeric)'
<1>1. /\ word \in [Slots -> IDs \cup {0}] /\ vars \subseteq usedIDs /\ vars \subseteq IDs
      /\ Fits(Counts, word, numeric) /\ 0 \notin vars
      /\ \A a \in IDs : Stored(a) \in vars \cup {0}
  BY DEF Inv, TypeOK, PoolsMatch, Stored, IDs
<1>2. ASSUME NEW s \in Slots, NEW m \in Referrers, word[s] \in vars => m \in Mods
      PROVE  LET c == IF s \in numeric THEN Counts ELSE Dropped(Counts, word[s], m)
                 y == [word EXCEPT ![s] = 0]
             IN  Fits(c, y, numeric) /\ Exact(c, y, numeric)
  <2>1. CASE s \in numeric
    <3>1. [word EXCEPT ![s] = 0] = word
      BY <2>1, <1>1 DEF Inv, NumbersAreNoIDs
    <3>. QED  BY <2>1, <3>1, <1>1
  <2>2. CASE s \notin numeric
    <3>1. s \in Slots \ numeric /\ (Mods = {m} \/ word[s] \notin vars)
      BY <2>2, <1>2
    <3>2. /\ Fits(Dropped(Counts, word[s], m), [word EXCEPT ![s] = 0], numeric)
          /\ Exact(Dropped(Counts, word[s], m), [word EXCEPT ![s] = 0], numeric)
      BY <1>1, <3>1, DropFits, DropExact
    <3>. QED  BY <2>2, <3>2, Zenon
  <2>. QED  BY <2>1, <2>2
<1>3. ASSUME NEW s \in Slots, NEW m \in Referrers, Emptied(s, m)
      PROVE  Exact(Counts, word, numeric)'
  <2>. DEFINE c == IF s \in numeric THEN Counts ELSE Dropped(Counts, word[s], m)
              y == [word EXCEPT ![s] = 0]
  <2>1. Exact(c, y, numeric)
    BY <1>2, <1>3 DEF Emptied
  <2>2. /\ refs' = c.refs /\ word' = y /\ vars' = vars
        /\ numeric' \subseteq ElementSlots /\ numeric' \ {s} = numeric \ {s}
    BY <1>3 DEF Emptied, SetCounts
  <2>3. \A a \in vars : HoldersIn(y, numeric, a) = HoldersIn(y, numeric', a)
    BY <1>1, <2>2 DEF HoldersIn
  <2>. HIDE DEF c, y
  <2>. QED  BY <2>1, <2>2, <2>3 DEF Exact, Counts
<1>4. ASSUME NEW s \in Slots, NEW a \in IDs, NEW m \in Referrers, NEW r \in Referrers,
             Moved(s, a, m, r)
      PROVE  Exact(Counts, word, numeric)'
  <2>. DEFINE c == IF s \in numeric THEN Counts ELSE Dropped(Counts, word[s], m)
              d == Taken(c, a, r)
              y == [word EXCEPT ![s] = 0]
              z == [word EXCEPT ![s] = Stored(a)]
  <2>1. Fits(c, y, numeric) /\ Exact(c, y, numeric)
    BY <1>2, <1>4 DEF Moved
  <2>2. /\ y \in [Slots -> IDs \cup {0}] /\ y[s] = 0 /\ [y EXCEPT ![s] = Stored(a)] = z
        /\ a \in vars => r \in Mods
    BY <1>1, <1>4 DEF Moved
  <2>3. Exact(d, z, numeric \ {s})
    <3>1. Exact(d, [y EXCEPT ![s] = Stored(a)], numeric \ {s})
      <4>. HIDE DEF c, y
      <4>. QED  BY <1>1, <2>1, <2>2, TakeExact
    <3>. QED  BY <3>1, <2>2, Zenon
  <2>4. /\ refs' = d.refs /\ word' = z /\ vars' = vars /\ numeric' = numeric \ {s}
    BY <1>4 DEF Moved, SetCounts
  <2>. HIDE DEF d, z
  <2>. QED  BY <2>3, <2>4 DEF Exact, Counts, HoldersIn
<1>. QED  BY <1>3, <1>4 DEF SlotStep

LEMMA NextExact ==
  ASSUME Inv, Inv', Exact(Counts, word, numeric), [Next]_allVars,
         NumericWords = {0}, NEW mod, Mods = {mod}
  PROVE  Exact(Counts, word, numeric)'
<1>. TypeOK /\ PoolsMatch /\ NoDanglingReference
  BY DEF Inv
<1>1. CASE UNCHANGED allVars \/ CleanBegin \/ CleanEnd
  BY <1>1 DEF allVars, heap, CleanBegin, CleanEnd, Exact, Counts, HoldersIn
<1>2. ASSUME NEW m \in Mods, Create(m)
      PROVE  Exact(Counts, word, numeric)'
  <2>. DEFINE a == GetUnusedID
  <2>1. a \in IDs /\ a \notin vars /\ a # 0
    BY <1>2, UnusedIDIsFresh DEF Create, PoolsMatch, IDs
  <2>2. /\ vars' = vars \cup {a} /\ refs' = [refs EXCEPT ![a] = <<>>]
        /\ UNCHANGED <<word, numeric>>
    BY <1>2 DEF Create, ScriptStep
  <2>. HIDE DEF a
  <2>3. HoldersIn(word, numeric, a) = {} /\ Cardinality(HoldersIn(word, numeric, a)) = 0
    BY <2>1, FS_EmptySet DEF HoldersIn, NoDanglingReference
  <2>4. refs'[a] = <<>> /\ Len(refs'[a]) = 0 /\ refs'[a] \in Seq(Mods)
    BY <2>1, <2>2, EmptySeq DEF TypeOK
  <2>5. \A b \in vars : refs'[b] = refs[b]
    BY <2>1, <2>2 DEF TypeOK
  <2>. QED  BY <2>2, <2>3, <2>4, <2>5 DEF Exact, Counts, HoldersIn
<1>3. CASE DeleteBegin
  BY <1>3 DEF DeleteBegin, Exact, Counts, HoldersIn
<1>4. CASE DeleteEnd
  <2>1. /\ refs' = [refs EXCEPT ![dying] = <<>>] /\ UNCHANGED <<vars, word, numeric>>
    BY <1>4 DEF DeleteEnd
  <2>2. \A b \in vars : refs'[b] = refs[b]
    BY <2>1 DEF Inv, TypeOK
  <2>. QED  BY <2>1, <2>2 DEF Exact, Counts, HoldersIn
<1>5. CASE ScriptMoves
  BY <1>5, ScriptsMoveSlots, SlotStepExact
<1>. QED  BY <1>1, <1>2, <1>3, <1>4, <1>5 DEF Next, Clean, ScriptMoves

LEMMA OneModInv ==
  ASSUME NumericWords = {0}, NEW mod, Mods = {mod}
  PROVE  Spec => [](Inv /\ Numbering /\ Exact(Counts, word, numeric))
<1>1. Init => Inv /\ Numbering /\ Exact(Counts, word, numeric)
  BY InitInv, InitNumbering DEF Init, Exact
<1>2. Inv /\ Numbering /\ Exact(Counts, word, numeric) /\ [Next]_allVars
        => (Inv /\ Numbering /\ Exact(Counts, word, numeric))'
  BY NextInv, NumberingNext, NextExact DEF Inv
<1>. QED  BY <1>1, <1>2, PTL DEF Spec

(***************************************************************************)
(* With the scripts of one mod, m_refs counts the references exactly, the  *)
(* deletion queue is the unreferenced arrays and the ID pools agree.       *)
(***************************************************************************)
THEOREM OneModCountsExactly ==
  ASSUME NumericWords = {0}, NEW mod, Mods = {mod}
  PROVE  Spec => []Bookkeeping
<1>1. Inv /\ Numbering /\ Exact(Counts, word, numeric) => Bookkeeping
  BY DEF Inv, PoolsMatch, Numbering, IDPoolsAgree, Fits, Exact, Counts, HoldersIn, Holders,
         Bookkeeping, QueuedIffUnreferenced, RefsCountHolders
<1>. QED  BY <1>1, OneModInv, PTL

(***************************************************************************)
(* With the scripts of one mod, whenever Clean returns, every array left   *)
(* is held by a slot: an array that nothing refers to is never forgotten.  *)
(***************************************************************************)
THEOREM OneModLeavesNoGarbage ==
  ASSUME NumericWords = {0}, NEW mod, Mods = {mod}
  PROVE  Spec => CleanCollectsGarbage
<1>1. ASSUME Inv, Exact(Counts, word, numeric), [Next]_allVars, cleaning, ~cleaning',
             NEW a \in vars
      PROVE  Holders(a) # {}
  <2>1. CleanEnd
    <3>1. cleaning' # cleaning
      BY <1>1
    <3>. QED  BY <1>1, <3>1
              DEF Next, Clean, Create, ClearVar, AssignVar, EraseElement, SetArray, SetNumber,
                  DropArg, HoldArg, ScriptStep, CleanBegin, DeleteBegin, DestroyElement,
                  DeleteEnd, allVars
  <2>2. refs[a] # <<>> /\ refs[a] \in Seq(Mods) /\ Len(refs[a]) = Cardinality(Holders(a))
    BY <1>1, <2>1 DEF CleanEnd, Inv, Fits, Exact, Counts, HoldersIn, Holders
  <2>3. Cardinality(Holders(a)) # 0
    BY <2>2
  <2>. QED  BY <2>3, FS_EmptySet
<1>2. Inv /\ Exact(Counts, word, numeric) /\ [Next]_allVars
        => [cleaning /\ ~cleaning' => \A a \in vars : Holders(a) # {}]_allVars
  BY <1>1
<1>. QED  BY <1>2, OneModInv, PTL DEF Spec, CleanCollectsGarbage

-----------------------------------------------------------------------------
(***************************************************************************)
(* Refinement.  Deleting an array is the abstract Free when its entry is   *)
(* unlinked; emptying its elements and recycling its ID are stutters.      *)
(***************************************************************************)
LEMMA VisibleMove ==
  ASSUME Inv, Inv', NEW s \in Slots, NEW x \in vars \cup {0},
         dying = 0, dying' = 0, vars' = vars,
         word' = [word EXCEPT ![s] = IF s \in numeric' THEN word'[s] ELSE x],
         numeric' \ {s} = numeric \ {s},
         s \in numeric' => x = 0
  PROVE  Abstract!Retarget(s, x)
<1>1. /\ word \in [Slots -> IDs \cup {0}]
      /\ \A r \in Slots : r \notin SlotsOfArray(0)
  BY DEF Inv, TypeOK, SlotsOfArray, ElementSlots, IDs
<1>2. VisibleWord' = [VisibleWord EXCEPT ![s] = x]
  BY <1>1 DEF VisibleWord, SlotsOfArray
<1>. QED  BY <1>2 DEF Abstract!Retarget

(***************************************************************************)
(* Every step is an abstract step or a stutter.                            *)
(***************************************************************************)
LEMMA AbstractStep ==
  ASSUME Inv, Inv', Next, NumericWords = {0}
  PROVE  [Abstract!Next]_(Abstract!vars)
<1>. TypeOK /\ NumbersAreNoIDs /\ NoDanglingReference
  BY DEF Inv
<1>. 0 \notin vars /\ \A r \in Slots : r \notin SlotsOfArray(0)
  BY DEF TypeOK, SlotsOfArray, ElementSlots, IDs
<1>1. ASSUME NEW m \in Mods, Create(m)
      PROVE  \E o \in IDs : Abstract!Allocate(o)
  <2>. DEFINE a == GetUnusedID
  <2>1. a \in IDs /\ a \notin vars
    BY <1>1, UnusedIDIsFresh DEF Create, Inv, PoolsMatch
  <2>2. vars' = vars \cup {a} /\ UNCHANGED <<word, numeric, dying>>
    BY <1>1 DEF Create, ScriptStep
  <2>. HIDE DEF a
  <2>3. VisibleWord' = VisibleWord
    BY <2>2 DEF VisibleWord
  <2>4. ~Abstract!Pointed(a)
    BY <2>1 DEF Abstract!Pointed, VisibleWord, NoDanglingReference, IDs
  <2>. QED  BY <2>1, <2>2, <2>3, <2>4 DEF Abstract!Allocate
<1>2. ASSUME NEW v \in ScriptVars, NEW a \in IDs, NEW m \in Mods, AssignVar(v, a, m)
      PROVE  Abstract!Retarget(v, Stored(a))
  BY <1>2, SlotFacts, VisibleMove DEF AssignVar, ScriptStep, Stored
<1>3. ASSUME NEW v \in ScriptVars, ClearVar(v)
      PROVE  Abstract!Retarget(v, 0)
  BY <1>3, SlotFacts, VisibleMove DEF ClearVar, ScriptStep
<1>4. ASSUME NEW b \in IDs, NEW k \in Keys, NEW a \in IDs, SetArray(b, k, a)
      PROVE  Abstract!Retarget(<<b, k>>, Stored(a))
  BY <1>4, SlotFacts, VisibleMove DEF SetArray, ScriptStep, Stored
<1>5. ASSUME NEW b \in IDs, NEW k \in Keys, NEW w \in NumericWords, SetNumber(b, k, w)
      PROVE  Abstract!Retarget(<<b, k>>, 0)
  BY <1>5, SlotFacts, VisibleMove DEF SetNumber, ScriptStep, TypeOK
<1>6. ASSUME NEW b \in IDs, NEW k \in Keys, EraseElement(b, k)
      PROVE  Abstract!Retarget(<<b, k>>, 0)
  BY <1>6, SlotFacts, VisibleMove DEF EraseElement, ScriptStep
<1>7. ASSUME NEW c \in CallArgs, NEW a \in IDs, HoldArg(c, a)
      PROVE  Abstract!Retarget(c, Stored(a))
  BY <1>7, SlotFacts, VisibleMove DEF HoldArg, ScriptStep, Stored
<1>8. ASSUME NEW c \in CallArgs, DropArg(c)
      PROVE  Abstract!Retarget(c, 0)
  BY <1>8, SlotFacts, VisibleMove DEF DropArg, ScriptStep
<1>9. ASSUME DeleteBegin
      PROVE  Abstract!Free(dying')
  <2>1. \A s \in Slots \ numeric : word[s] # dying'
    BY <1>9, DeleteBeginInv
  <2>2. /\ dying = 0 /\ vars' = vars \ {dying'}
        /\ UNCHANGED <<word, numeric>>
    BY <1>9 DEF DeleteBegin
  <2>3. dying' \in vars
    <3>1. tempIDs # {} /\ tempIDs \subseteq 0 .. MaxID /\ MaxID \in Nat /\ dying' = Max(tempIDs)
      BY <1>9, ConstantsAssumption DEF ConstantsAssumption, DeleteBegin, TypeOK, IDs
    <3>2. dying' \in tempIDs
      BY <3>1, MaxProperty
    <3>. QED  BY <3>2, <2>2 DEF Inv, PoolsMatch
  <2>4. ~Abstract!Pointed(dying')
    BY <2>1, <2>3 DEF Abstract!Pointed, VisibleWord
  <2>5. VisibleWord' = [s \in Slots |-> IF s \in SlotsOfArray(dying') THEN 0 ELSE VisibleWord[s]]
    BY <2>2 DEF VisibleWord, SlotsOfArray
  <2>. QED  BY <2>2, <2>3, <2>4, <2>5 DEF Abstract!Free
<1>10. ASSUME NEW k \in Keys, DestroyElement(k)
       PROVE  UNCHANGED Abstract!vars
  <2>. DEFINE s == <<dying, k>>
  <2>1. s \in SlotsOfArray(dying)
    BY <1>10 DEF DestroyElement, SlotsOfArray, ElementSlots, TypeOK
  <2>2. /\ word' = [word EXCEPT ![s] = 0] /\ numeric' = numeric \ {s}
        /\ UNCHANGED <<vars, dying>>
    BY <1>10 DEF DestroyElement
  <2>. HIDE DEF s
  <2>3. VisibleWord' = VisibleWord
    BY <2>1, <2>2 DEF VisibleWord, SlotsOfArray, TypeOK
  <2>. QED  BY <2>2, <2>3 DEF Abstract!vars
<1>11. ASSUME DeleteEnd
       PROVE  UNCHANGED Abstract!vars
  <2>1. \A k \in Keys : <<dying, k>> \notin numeric /\ word[<<dying, k>>] = 0
    BY <1>11 DEF DeleteEnd, Destroyed
  <2>2. \A s \in SlotsOfArray(dying) : s \notin numeric /\ word[s] = 0
    BY <2>1 DEF SlotsOfArray, ElementSlots
  <2>3. dying' = 0 /\ UNCHANGED <<vars, word, numeric>>
    BY <1>11 DEF DeleteEnd
  <2>4. VisibleWord' = VisibleWord
    BY <2>2, <2>3 DEF VisibleWord, SlotsOfArray
  <2>. QED  BY <2>3, <2>4 DEF Abstract!vars
<1>12. ASSUME CleanBegin \/ CleanEnd
       PROVE  UNCHANGED Abstract!vars
  BY <1>12 DEF CleanBegin, CleanEnd, heap, VisibleWord, Abstract!vars
<1>13. /\ \A a \in IDs : Stored(a) \in IDs \cup {0}
       /\ \A v \in ScriptVars \cup CallArgs : v \in Slots
       /\ \A b \in IDs, k \in Keys : <<b, k>> \in Slots
  BY SlotFacts DEF Stored
<1>14. DeleteBegin => dying' \in IDs
  BY <1>9 DEF TypeOK, Abstract!Free
<1>. QED
  BY <1>1, <1>2, <1>3, <1>4, <1>5, <1>6, <1>7, <1>8, <1>9, <1>10, <1>11, <1>12, <1>13, <1>14
     DEF Next, Clean, Abstract!Next

(***************************************************************************)
(* The reference-counted arrays implement the abstract heap of RefHeap.    *)
(***************************************************************************)
THEOREM ArraysImplementRefHeap ==
  ASSUME NumericWords = {0}
  PROVE  Spec => ImplementsRefHeap
<1>1. Init => Inv
  BY InitInv
<1>2. Inv /\ [Next]_allVars => Inv'
  BY NextInv
<1>3. Init => Abstract!Init
  BY DEF Init, Abstract!Init, VisibleWord
<1>4. Inv /\ Inv' /\ [Next]_allVars => [Abstract!Next]_(Abstract!vars)
  <2>1. CASE UNCHANGED allVars
    BY <2>1 DEF allVars, heap, Abstract!vars, VisibleWord
  <2>2. ASSUME Inv, Inv', Next
        PROVE  [Abstract!Next]_(Abstract!vars)
    BY <2>2, AbstractStep
  <2>. QED  BY <2>1, <2>2
<1>. QED  BY <1>1, <1>2, <1>3, <1>4, PTL DEF Spec, ImplementsRefHeap, Abstract!Spec

-----------------------------------------------------------------------------
(***************************************************************************)
(* Type correctness, which needs no assumption on the numbers that scripts *)
(* store.                                                                  *)
(***************************************************************************)
CountsType == [refs : [IDs -> Seq(Referrers)], temp : SUBSET IDs]

LEMMA DroppedType ==
  ASSUME vars \subseteq IDs, NEW c \in CountsType, NEW a, NEW m
  PROVE  Dropped(c, a, m) \in CountsType
<1>1. CASE a \notin vars
  BY <1>1 DEF Dropped
<1>2. CASE a \in vars
  <2>. DEFINE left == VectorRemove(c.refs[a], m)
  <2>1. left \in Seq(Referrers)
    BY <1>2, VectorRemoveProperty DEF CountsType
  <2>2. Dropped(c, a, m) =
          [refs |-> [c.refs EXCEPT ![a] = left],
           temp |-> IF left = <<>> THEN c.temp \cup {a} ELSE c.temp]
    BY <1>2 DEF Dropped
  <2>. HIDE DEF left
  <2>. QED  BY <1>2, <2>1, <2>2 DEF CountsType
<1>. QED  BY <1>1, <1>2

LEMMA TakenType ==
  ASSUME vars \subseteq IDs, NEW c \in CountsType, NEW a, NEW m \in Referrers
  PROVE  Taken(c, a, m) \in CountsType
<1>1. CASE a \notin vars
  BY <1>1 DEF Taken
<1>2. CASE a \in vars
  <2>1. Append(c.refs[a], m) \in Seq(Referrers)
    BY <1>2, AppendProperties DEF CountsType
  <2>. QED  BY <1>2, <2>1 DEF Taken, CountsType
<1>. QED  BY <1>1, <1>2

LEMMA AddedType ==
  ASSUME vars \subseteq IDs, NEW c \in CountsType, NEW old, NEW a, NEW m \in Referrers
  PROVE  Added(c, old, a, m) \in CountsType
BY DroppedType, TakenType DEF Added

LEMMA UnsetType ==
  ASSUME vars \subseteq IDs, NEW c \in CountsType, NEW s
  PROVE  Unset(c, s) \in CountsType
BY DroppedType DEF Unset

(***************************************************************************)
(* A step that changes one slot and the counts keeps the types.            *)
(***************************************************************************)
LEMMA SlotStepType ==
  ASSUME TypeOK, NEW c \in CountsType, SetCounts(c),
         NEW s \in Slots, NEW x \in IDs \cup {0}, word' = [word EXCEPT ![s] = x],
         numeric' \subseteq ElementSlots,
         UNCHANGED <<vars, owner, usedIDs, availableIDs, cleaning, dying>>
  PROVE  TypeOK'
BY DEF TypeOK, SetCounts, CountsType, Referrers

LEMMA NextType ==
  ASSUME TypeOK, [Next]_allVars
  PROVE  TypeOK'
<1>. /\ Counts \in CountsType /\ vars \subseteq IDs
     /\ \A a \in IDs : Stored(a) \in IDs \cup {0}
     /\ \A s \in Slots : WordAfterUnset(s) \in IDs \cup {0}
     /\ numeric \subseteq ElementSlots
     /\ MaxID \in Nat /\ NumericWords \subseteq IDs \cup {0}
  BY ConstantsAssumption DEF ConstantsAssumption, TypeOK, Counts, CountsType, Referrers,
                             Stored, WordAfterUnset, IDs
<1>1. CASE UNCHANGED allVars
  BY <1>1 DEF allVars, heap, TypeOK
<1>2. ASSUME NEW m \in Mods, Create(m)
      PROVE  TypeOK'
  <2>1. <<>> \in Seq(Mods \cup {0})
    BY EmptySeq
  <2>. QED  BY <1>2, <2>1 DEF Create, ScriptStep, TypeOK
<1>3. ASSUME NEW v \in ScriptVars, NEW a \in IDs, NEW m \in Mods, AssignVar(v, a, m)
      PROVE  TypeOK'
  <2>1. Added(Counts, word[v], a, m) \in CountsType
    BY AddedType, SlotFacts
  <2>. QED  BY <1>3, <2>1, SlotFacts, SlotStepType DEF AssignVar, ScriptStep
<1>4. ASSUME NEW v \in ScriptVars, ClearVar(v)
      PROVE  TypeOK'
  <2>1. Dropped(Counts, word[v], ModOf[v]) \in CountsType
    BY DroppedType
  <2>. QED  BY <1>4, <2>1, SlotFacts, SlotStepType DEF ClearVar, ScriptStep
<1>5. ASSUME NEW b \in IDs, NEW k \in Keys, NEW a \in IDs, SetArray(b, k, a)
      PROVE  TypeOK'
  <2>. DEFINE s == <<b, k>>
              c == Added(Unset(Counts, s), WordAfterUnset(s), a, GetArrayOwningModIndex(b))
  <2>1. c \in CountsType
    BY UnsetType, AddedType, SlotFacts
  <2>2. /\ SetCounts(c) /\ word' = [word EXCEPT ![s] = Stored(a)]
        /\ numeric' = numeric \ {s}
        /\ UNCHANGED <<vars, owner, usedIDs, availableIDs, cleaning, dying>>
    BY <1>5 DEF SetArray, ScriptStep
  <2>3. s \in Slots
    BY SlotFacts
  <2>. HIDE DEF c, s
  <2>. QED  BY <2>1, <2>2, <2>3, SlotStepType
<1>6. ASSUME NEW b \in IDs, NEW k \in Keys, NEW w \in NumericWords, SetNumber(b, k, w)
      PROVE  TypeOK'
  <2>1. Unset(Counts, <<b, k>>) \in CountsType
    BY UnsetType
  <2>. QED  BY <1>6, <2>1, SlotFacts, SlotStepType DEF SetNumber, ScriptStep
<1>7. ASSUME NEW b \in IDs, NEW k \in Keys, EraseElement(b, k)
      PROVE  TypeOK'
  <2>1. Unset(Counts, <<b, k>>) \in CountsType
    BY UnsetType
  <2>. QED  BY <1>7, <2>1, SlotFacts, SlotStepType DEF EraseElement, ScriptStep
<1>8. ASSUME NEW c \in CallArgs, NEW a \in IDs, HoldArg(c, a)
      PROVE  TypeOK'
  <2>1. Added(Unset(Counts, c), 0, a, GetArrayOwningModIndex(a)) \in CountsType
    BY UnsetType, AddedType, SlotFacts
  <2>. QED  BY <1>8, <2>1, SlotFacts, SlotStepType DEF HoldArg, ScriptStep
<1>9. ASSUME NEW c \in CallArgs, DropArg(c)
      PROVE  TypeOK'
  <2>1. Unset(Counts, c) \in CountsType
    BY UnsetType
  <2>. QED  BY <1>9, <2>1, SlotFacts, SlotStepType DEF DropArg, ScriptStep
<1>10. ASSUME NEW k \in Keys, DestroyElement(k)
       PROVE  TypeOK'
  <2>1. Unset(Counts, <<dying, k>>) \in CountsType
    BY UnsetType
  <2>2. dying \in IDs
    BY <1>10 DEF DestroyElement, TypeOK
  <2>. QED  BY <1>10, <2>1, <2>2, SlotFacts, SlotStepType DEF DestroyElement
<1>11. CASE DeleteBegin
  <2>1. tempIDs # {} /\ tempIDs \subseteq 0 .. MaxID
    BY <1>11 DEF DeleteBegin, TypeOK, IDs
  <2>2. Max(tempIDs) \in tempIDs
    BY <2>1, MaxProperty
  <2>. QED  BY <1>11, <2>2 DEF DeleteBegin, TypeOK
<1>12. CASE DeleteEnd
  <2>1. <<>> \in Seq(Mods \cup {0})
    BY EmptySeq
  <2>. QED  BY <1>12, <2>1 DEF DeleteEnd, EraseID, SetIDAvailable, TypeOK
<1>13. CASE CleanBegin \/ CleanEnd
  BY <1>13 DEF CleanBegin, CleanEnd, heap, TypeOK
<1>. QED  BY <1>1, <1>2, <1>3, <1>4, <1>5, <1>6, <1>7, <1>8, <1>9, <1>10, <1>11, <1>12, <1>13
          DEF Next, Clean

THEOREM TypeCorrect == Spec => []TypeOK
<1>1. Init => TypeOK
  BY InitInv DEF Inv
<1>2. TypeOK /\ [Next]_allVars => TypeOK'
  BY NextType
<1>. QED  BY <1>1, <1>2, PTL DEF Spec

-----------------------------------------------------------------------------
(***************************************************************************)
(* The IDs and the mods that the counts c name: queued arrays exist, and   *)
(* every entry of every m_refs is a mod that is loaded.                    *)
(***************************************************************************)
CountsKnown(c) ==
  /\ c \in [refs : [IDs -> Seq(Referrers)], temp : SUBSET usedIDs]
  /\ \A a \in vars : c.refs[a] \in Seq(loadedMods)

Known == /\ TypeOK
         /\ PoolsMatch
         /\ dying \notin vars
         /\ loadedMods \subseteq Mods
         /\ \A a \in vars : owner[a] \in loadedMods
         /\ CountsKnown(Counts)

(***************************************************************************)
(* RemoveReference and AddReference keep the counts known.                 *)
(***************************************************************************)
LEMMA DroppedKnown ==
  ASSUME vars \subseteq IDs, vars \subseteq usedIDs, NEW c, CountsKnown(c), NEW a, NEW m
  PROVE  CountsKnown(Dropped(c, a, m))
<1>1. CASE a \notin vars
  BY <1>1 DEF Dropped
<1>2. CASE a \in vars
  <2>. DEFINE left == VectorRemove(c.refs[a], m)
  <2>1. c.refs[a] \in Seq(Referrers) /\ c.refs[a] \in Seq(loadedMods)
    BY <1>2 DEF CountsKnown
  <2>2. left \in Seq(Referrers) /\ left \in Seq(loadedMods)
    BY <2>1, VectorRemoveProperty
  <2>3. Dropped(c, a, m) =
          [refs |-> [c.refs EXCEPT ![a] = left],
           temp |-> IF left = <<>> THEN c.temp \cup {a} ELSE c.temp]
    BY <1>2 DEF Dropped
  <2>. HIDE DEF left
  <2>. QED  BY <1>2, <2>2, <2>3 DEF CountsKnown
<1>. QED  BY <1>1, <1>2

LEMMA TakenKnown ==
  ASSUME vars \subseteq IDs, vars \subseteq usedIDs, NEW c, CountsKnown(c), NEW a, NEW m,
         a \in vars => m \in loadedMods /\ m \in Referrers
  PROVE  CountsKnown(Taken(c, a, m))
<1>1. CASE a \notin vars
  BY <1>1 DEF Taken
<1>2. CASE a \in vars
  <2>. DEFINE more == Append(c.refs[a], m)
  <2>1. c.refs[a] \in Seq(Referrers) /\ c.refs[a] \in Seq(loadedMods)
    BY <1>2 DEF CountsKnown
  <2>2. more \in Seq(Referrers) /\ more \in Seq(loadedMods)
    BY <1>2, <2>1, AppendProperties
  <2>3. Taken(c, a, m) = [refs |-> [c.refs EXCEPT ![a] = more], temp |-> c.temp \ {a}]
    BY <1>2 DEF Taken
  <2>. HIDE DEF more
  <2>. QED  BY <1>2, <2>2, <2>3 DEF CountsKnown
<1>. QED  BY <1>1, <1>2

LEMMA AddedKnown ==
  ASSUME vars \subseteq IDs, vars \subseteq usedIDs, NEW c, CountsKnown(c), NEW old, NEW a,
         NEW m, a \in vars => m \in loadedMods /\ m \in Referrers
  PROVE  CountsKnown(Added(c, old, a, m))
<1>1. CountsKnown(IF old # 0 THEN Dropped(c, old, m) ELSE c)
  BY DroppedKnown
<1>. QED  BY <1>1, TakenKnown DEF Added

LEMMA UnsetKnown ==
  ASSUME vars \subseteq IDs, vars \subseteq usedIDs, NEW c, CountsKnown(c), NEW s
  PROVE  CountsKnown(Unset(c, s))
BY DroppedKnown DEF Unset

(***************************************************************************)
(* A step that sets known counts and changes no array keeps Known.         *)
(***************************************************************************)
LEMMA SlotStepKnown ==
  ASSUME Known, NEW c, CountsKnown(c), SetCounts(c), TypeOK',
         UNCHANGED <<vars, owner, usedIDs, availableIDs, dying, loadedMods>>
  PROVE  Known'
<1>1. c \in [refs : [IDs -> Seq(Referrers)], temp : SUBSET usedIDs]
  BY DEF CountsKnown
<1>2. Counts' = c /\ tempIDs' \subseteq usedIDs
  BY <1>1 DEF Counts, SetCounts
<1>3. CountsKnown(Counts)'
  BY <1>2 DEF CountsKnown
<1>. QED  BY <1>2, <1>3 DEF Known, PoolsMatch

-----------------------------------------------------------------------------
(***************************************************************************)
(* What scripts do between loads, and Save with the Clean that it runs,    *)
(* are steps of the array map.                                             *)
(***************************************************************************)
Running == \/ Play
           \/ Deleting
           \/ SaveBegin
           \/ SaveWrite

LEMMA RunningIsNext ==
  ASSUME loadedMods \subseteq Mods, Running
  PROVE  Next /\ loadedMods' = loadedMods
<1>1. CASE Play
  <2>1. \A m \in loadedMods : m \in Mods
    OBVIOUS
  <2>. QED  BY <1>1, <2>1 DEF Play, Next, Clean, saveVars
<1>2. CASE Deleting
  BY <1>2 DEF Deleting, Next, Clean, saveVars
<1>3. CASE SaveBegin
  BY <1>3 DEF SaveBegin, Next, Clean
<1>4. CASE SaveWrite
  BY <1>4 DEF SaveWrite, CleanEnd, Next, Clean
<1>. QED  BY <1>1, <1>2, <1>3, <1>4 DEF Running

(***************************************************************************)
(* While the game runs, the mods that are not loaded stay forgotten.       *)
(***************************************************************************)
LEMMA RunningKnown ==
  ASSUME Known, Running
  PROVE  Known'
<1>. /\ TypeOK /\ PoolsMatch /\ loadedMods \subseteq Mods
     /\ CountsKnown(Counts) /\ vars \subseteq IDs /\ vars \subseteq usedIDs
     /\ \A m \in loadedMods : m \in Mods /\ m \in Referrers
     /\ \A a \in vars : GetArrayOwningModIndex(a) \in loadedMods
  BY DEF Known, TypeOK, PoolsMatch, Referrers, GetArrayOwningModIndex
<1>. TypeOK' /\ loadedMods' = loadedMods
  BY RunningIsNext, NextType
<1>1. ASSUME NEW m \in loadedMods, Create(m)
      PROVE  Known'
  <2>. DEFINE a == GetUnusedID
  <2>1. /\ a \in IDs /\ a \notin usedIDs
    BY <1>1, UnusedIDIsFresh DEF Create
  <2>2. /\ availableIDs' = availableIDs \ {a} /\ usedIDs' = usedIDs \cup {a}
        /\ vars' = vars \cup {a} /\ owner' = [owner EXCEPT ![a] = m]
        /\ refs' = [refs EXCEPT ![a] = <<>>] /\ tempIDs' = tempIDs \cup {a}
        /\ dying' = dying /\ dying = 0
    BY <1>1 DEF Create, ScriptStep
  <2>. HIDE DEF a
  <2>3. PoolsMatch' /\ dying' \notin vars'
    BY <2>1, <2>2 DEF PoolsMatch, Known, IDs
  <2>4. \A b \in vars' : owner'[b] \in loadedMods
    BY <2>1, <2>2 DEF Known, TypeOK
  <2>5. <<>> \in Seq(loadedMods) /\ <<>> \in Seq(Referrers)
    BY EmptySeq
  <2>6. CountsKnown(Counts)'
    BY <2>1, <2>2, <2>5 DEF CountsKnown, Counts, TypeOK, PoolsMatch
  <2>. QED  BY <2>3, <2>4, <2>6 DEF Known
<1>2. ASSUME NEW v \in ScriptVars, NEW a \in IDs, NEW m \in loadedMods, AssignVar(v, a, m)
      PROVE  Known'
  <2>1. CountsKnown(Added(Counts, word[v], a, m))
    BY AddedKnown
  <2>. QED  BY <1>2, <2>1, SlotStepKnown DEF AssignVar, ScriptStep
<1>3. ASSUME NEW v \in ScriptVars, ClearVar(v)
      PROVE  Known'
  <2>1. CountsKnown(Dropped(Counts, word[v], ModOf[v]))
    BY DroppedKnown
  <2>. QED  BY <1>3, <2>1, SlotStepKnown DEF ClearVar, ScriptStep
<1>4. ASSUME NEW b \in IDs, NEW k \in Keys, NEW a \in IDs, SetArray(b, k, a)
      PROVE  Known'
  <2>. DEFINE s == <<b, k>>
              c == Added(Unset(Counts, s), WordAfterUnset(s), a, GetArrayOwningModIndex(b))
  <2>1. /\ SetCounts(c) /\ b \in vars
        /\ UNCHANGED <<vars, owner, usedIDs, availableIDs, dying>>
    BY <1>4 DEF SetArray, ScriptStep
  <2>2. CountsKnown(c)
    BY <2>1, UnsetKnown, AddedKnown
  <2>. HIDE DEF c
  <2>. QED  BY <2>1, <2>2, SlotStepKnown
<1>5. ASSUME NEW b \in IDs, NEW k \in Keys, NEW w \in NumericWords, SetNumber(b, k, w)
      PROVE  Known'
  <2>1. CountsKnown(Unset(Counts, <<b, k>>))
    BY UnsetKnown
  <2>. QED  BY <1>5, <2>1, SlotStepKnown DEF SetNumber, ScriptStep
<1>6. ASSUME NEW b \in IDs, NEW k \in Keys, EraseElement(b, k)
      PROVE  Known'
  <2>1. CountsKnown(Unset(Counts, <<b, k>>))
    BY UnsetKnown
  <2>. QED  BY <1>6, <2>1, SlotStepKnown DEF EraseElement, ScriptStep
<1>7. ASSUME NEW c \in CallArgs, NEW a \in IDs, HoldArg(c, a)
      PROVE  Known'
  <2>1. CountsKnown(Added(Unset(Counts, c), 0, a, GetArrayOwningModIndex(a)))
    BY UnsetKnown, AddedKnown
  <2>. QED  BY <1>7, <2>1, SlotStepKnown DEF HoldArg, ScriptStep
<1>8. ASSUME NEW c \in CallArgs, DropArg(c)
      PROVE  Known'
  <2>1. CountsKnown(Unset(Counts, c))
    BY UnsetKnown
  <2>. QED  BY <1>8, <2>1, SlotStepKnown DEF DropArg, ScriptStep
<1>9. ASSUME NEW k \in Keys, DestroyElement(k)
      PROVE  Known'
  <2>1. CountsKnown(Unset(Counts, <<dying, k>>))
    BY UnsetKnown
  <2>. QED  BY <1>9, <2>1, SlotStepKnown DEF DestroyElement
<1>10. CASE DeleteBegin
  <2>. DEFINE d == Max(tempIDs)
  <2>1. tempIDs # {} /\ tempIDs \subseteq 0 .. MaxID /\ MaxID \in Nat
    BY <1>10, ConstantsAssumption DEF ConstantsAssumption, DeleteBegin, TypeOK, IDs
  <2>2. d \in tempIDs
    BY <2>1, MaxProperty
  <2>3. dying = 0 /\ dying' = d /\ vars' = vars \ {d}
        /\ UNCHANGED <<owner, refs, usedIDs, tempIDs, availableIDs>>
    BY <1>10 DEF DeleteBegin
  <2>. HIDE DEF d
  <2>4. PoolsMatch'
    BY <2>2, <2>3 DEF PoolsMatch, TypeOK, IDs
  <2>. QED  BY <2>3, <2>4 DEF Known, CountsKnown, Counts
<1>11. CASE DeleteEnd
  <2>1. /\ usedIDs' = usedIDs \ {dying} /\ tempIDs' = tempIDs \ {dying}
        /\ availableIDs' = availableIDs \cup {dying} /\ dying # 0 /\ dying' = 0
        /\ refs' = [refs EXCEPT ![dying] = <<>>] /\ owner' = [owner EXCEPT ![dying] = 0]
        /\ vars' = vars
    BY <1>11 DEF DeleteEnd, EraseID, SetIDAvailable
  <2>2. PoolsMatch' /\ dying' \notin vars'
    BY <2>1 DEF Known, PoolsMatch, TypeOK, IDs
  <2>3. \A b \in vars : refs'[b] = refs[b] /\ owner'[b] = owner[b]
    BY <2>1 DEF Known, TypeOK
  <2>4. refs' \in [IDs -> Seq(Referrers)] /\ tempIDs' \subseteq usedIDs'
    BY <2>1 DEF TypeOK, PoolsMatch, Referrers
  <2>. QED  BY <2>1, <2>2, <2>3, <2>4 DEF Known, CountsKnown, Counts
<1>12. CASE CleanBegin \/ CleanEnd \/ SaveWrite
  <2>1. UNCHANGED <<heap, dying>>
    BY <1>12 DEF CleanBegin, CleanEnd, SaveWrite
  <2>. QED  BY <2>1 DEF Known, heap, PoolsMatch, CountsKnown, Counts
<1>. QED  BY <1>1, <1>2, <1>3, <1>4, <1>5, <1>6, <1>7, <1>8, <1>9, <1>10, <1>11, <1>12
          DEF Running, Play, Deleting, SaveBegin

-----------------------------------------------------------------------------
(***************************************************************************)
(* The invariant of any load.  The records come in any order and some are  *)
(* discarded, so that lastIndexRead is an upper bound of the IDs read but  *)
(* the IDs given out need not be an interval any more.                     *)
(***************************************************************************)
RecordType == [id : IDs, owner : Referrers, refs : Seq(Referrers),
               word : [Keys -> IDs \cup {0}], numeric : SUBSET Keys]

Idle == ~cleaning /\ dying = 0

Base == /\ Known
        /\ file \subseteq RecordType
        /\ lastIndexRead \in Nat
        /\ phase \in {"saved", "reading"} => Idle
        /\ phase = "reading" => \A a \in usedIDs : a <= lastIndexRead

LEMMA RunningBase ==
  ASSUME Base, Running
  PROVE  Base'
<1>. Known /\ file \subseteq RecordType /\ lastIndexRead \in Nat
  BY DEF Base
<1>1. Known'
  BY RunningKnown
<1>2. lastIndexRead' = lastIndexRead /\ phase' # "reading"
  <2>1. Deleting => phase # "reading" /\ phase' = phase
    <3>1. Deleting => ~Idle
      BY DEF Deleting, DeleteBegin, DeleteEnd, DestroyElement, Idle
    <3>. QED  BY <3>1 DEF Base, Deleting, saveVars
  <2>. QED  BY <2>1 DEF Running, Play, Deleting, SaveBegin, SaveWrite, saveVars
<1>3. phase' = "saved" => Idle'
  <2>1. Deleting => phase # "saved" /\ phase' = phase
    <3>1. Deleting => ~Idle
      BY DEF Deleting, DeleteBegin, DeleteEnd, DestroyElement, Idle
    <3>. QED  BY <3>1 DEF Base, Deleting, saveVars
  <2>2. Play => phase' = "play"
    BY DEF Play, saveVars
  <2>3. SaveBegin => phase' = "saving"
    BY DEF SaveBegin
  <2>4. SaveWrite => Idle'
    BY DEF SaveWrite, Idle
  <2>. QED  BY <2>1, <2>2, <2>3, <2>4 DEF Running
<1>4. file' \subseteq RecordType
  <2>1. CASE SaveWrite
    <3>1. file' = {Record(a) : a \in ToSave}
      BY <2>1 DEF SaveWrite
    <3>2. ASSUME NEW a \in ToSave
          PROVE  Record(a) \in RecordType
      <4>1. /\ a \in IDs /\ owner[a] \in Referrers /\ refs[a] \in Seq(Referrers)
            /\ \A k \in Keys : <<a, k>> \in Slots /\ word[<<a, k>>] \in IDs \cup {0}
        BY DEF ToSave, Known, TypeOK, Referrers, Slots, ElementSlots
      <4>. QED  BY <4>1 DEF Record, RecordType
    <3>. QED  BY <3>1, <3>2
  <2>2. CASE ~SaveWrite
    BY <2>2 DEF Running, Play, Deleting, SaveBegin, saveVars
  <2>. QED  BY <2>1, <2>2
<1>. QED  BY <1>1, <1>2, <1>3, <1>4 DEF Base

LEMMA PreLoadBase ==
  ASSUME Base, NEW present \in SUBSET loadedMods, PreLoad(present)
  PROVE  Base'
<1>. Known /\ TypeOK /\ PoolsMatch /\ file \subseteq RecordType /\ Idle
  BY DEF Base, Known, PreLoad
<1>1. /\ loadedMods' = present
      /\ vars' = {} /\ usedIDs' = {} /\ tempIDs' = {} /\ availableIDs' = {}
      /\ owner' = [a \in IDs |-> 0] /\ refs' = [a \in IDs |-> <<>>]
      /\ word' = [s \in Slots |-> IF s \in ScriptVars /\ ModOf[s] \in present
                                  THEN word[s] ELSE 0]
      /\ numeric' = {} /\ lastIndexRead' = 0
      /\ UNCHANGED <<cleaning, dying, file>>
  BY DEF PreLoad
<1>2. refs' \in [IDs -> Seq(Referrers)]
  <2>1. <<>> \in Seq(Referrers)
    BY EmptySeq
  <2>. QED  BY <1>1, <2>1
<1>3. TypeOK'
  BY <1>1, <1>2 DEF TypeOK, Referrers
<1>4. PoolsMatch'
  BY <1>1 DEF PoolsMatch, Idle
<1>5. CountsKnown(Counts)'
  BY <1>1, <1>2 DEF CountsKnown, Counts
<1>6. Known'
  BY <1>1, <1>3, <1>4, <1>5 DEF Known
<1>. QED  BY <1>1, <1>6 DEF Base, Idle

(***************************************************************************)
(* A record's array gets an owner and referrers that are loaded, whatever  *)
(* mods the record names.                                                  *)
(***************************************************************************)
LEMMA LoadedRefsKnown ==
  ASSUME NEW r \in RecordType, loadedMods \subseteq Mods
  PROVE  /\ LoadedRefs(r) \in Seq(loadedMods)
         /\ LoadedRefs(r) \in Seq(Referrers)
         /\ NewOwner(r) # 0 => NewOwner(r) \in loadedMods
<1>1. r.refs \in Seq(Referrers)
  BY DEF RecordType
<1>2. /\ LoadedRefs(r) \in Seq(loadedMods) /\ LoadedRefs(r) \in Seq(Referrers)
      /\ LoadedRefs(r) # <<>> => Head(LoadedRefs(r)) \in loadedMods
  BY <1>1, OnlySeq DEF LoadedRefs
<1>. QED  BY <1>2 DEF NewOwner

LEMMA ReadArrayBase ==
  ASSUME Base, NEW r \in file, ReadArray(r)
  PROVE  Base'
<1>. DEFINE a == r.id
            q == LoadedRefs(r)
            o == NewOwner(r)
            n == lastIndexRead
<1>. Known /\ TypeOK /\ PoolsMatch /\ file \subseteq RecordType /\ Idle /\ dying \notin vars
  BY DEF Base, Known, ReadArray
<1>1. /\ lastIndexRead' = Max({n + 1, a})
      /\ availableIDs' = (availableIDs \cup (n + 1 .. a - 1)) \ {a}
      /\ usedIDs' = usedIDs \cup {a} /\ vars' = vars \cup {a}
      /\ owner' = [owner EXCEPT ![a] = o] /\ refs' = [refs EXCEPT ![a] = q]
      /\ tempIDs' \subseteq tempIDs \cup {a}
      /\ numeric' = numeric \cup ({a} \X r.numeric)
      /\ file' \subseteq file
      /\ UNCHANGED <<cleaning, dying, loadedMods, phase>>
      /\ phase = "reading" /\ o # 0
  BY DEF ReadArray, Gaps
<1>2. /\ a \in IDs /\ r.word \in [Keys -> IDs \cup {0}] /\ r.numeric \subseteq Keys
      /\ r \in RecordType
  BY DEF RecordType
<1>3. o \in loadedMods /\ q \in Seq(loadedMods) /\ q \in Seq(Referrers)
  BY <1>1, <1>2, LoadedRefsKnown DEF Known
<1>4. word' \in [Slots -> IDs \cup {0}]
  <2>1. word' = [s \in Slots |-> IF s \in ElementSlots /\ s[1] = a THEN r.word[s[2]]
                                 ELSE word[s]]
    BY DEF ReadArray
  <2>2. \A s \in ElementSlots : r.word[s[2]] \in IDs \cup {0}
    BY <1>2 DEF ElementSlots
  <2>. QED  BY <2>1, <2>2 DEF TypeOK
<1>5. numeric' \subseteq ElementSlots
  BY <1>1, <1>2 DEF TypeOK, ElementSlots
<1>6. /\ n \in Nat /\ a \in Nat /\ MaxID \in Nat /\ a # 0
      /\ \A x \in usedIDs : x <= n /\ x \in Nat
  BY <1>1, <1>2, ConstantsAssumption DEF Base, ConstantsAssumption, IDs, TypeOK
<1>7. lastIndexRead' \in Nat /\ n < lastIndexRead' /\ a <= lastIndexRead'
  <2>. DEFINE S == {n + 1, a}
  <2>1. S \subseteq 0 .. (n + 1 + a) /\ S \subseteq Nat /\ S # {} /\ n + 1 + a \in Nat
    BY <1>6
  <2>2. n + 1 \in S /\ a \in S
    OBVIOUS
  <2>. HIDE DEF S
  <2>3. Max(S) \in S /\ \A y \in S : y <= Max(S)
    BY <2>1, MaxProperty
  <2>4. Max(S) \in Nat /\ n + 1 <= Max(S) /\ a <= Max(S)
    <3>. DEFINE x == Max(S)
    <3>1. x \in S /\ \A y \in S : y <= x
      BY <2>3
    <3>. HIDE DEF x
    <3>2. x \in Nat /\ n + 1 <= x /\ a <= x
      BY <2>1, <2>2, <3>1
    <3>. QED  BY <3>2 DEF x
  <2>. QED  BY <1>1, <1>6, <2>4 DEF S
<1>. HIDE DEF a, q, o, n
<1>8. availableIDs' \subseteq IDs
  BY <1>1, <1>2, <1>6 DEF TypeOK, IDs
<1>9. TypeOK'
  BY <1>1, <1>2, <1>3, <1>4, <1>5, <1>8 DEF TypeOK, Known, Referrers
<1>10. PoolsMatch'
  <2>1. usedIDs' \cap availableIDs' = {}
    BY <1>1, <1>6 DEF PoolsMatch
  <2>. QED  BY <1>1, <2>1 DEF PoolsMatch
<1>11. CountsKnown(Counts)'
  <2>1. Counts' \in [refs : [IDs -> Seq(Referrers)], temp : SUBSET usedIDs']
    BY <1>9, <1>10 DEF Counts, TypeOK, PoolsMatch, Referrers
  <2>2. \A b \in vars' : refs'[b] \in Seq(loadedMods')
    BY <1>1, <1>2, <1>3 DEF Known, CountsKnown, Counts, TypeOK
  <2>. QED  BY <2>1, <2>2 DEF CountsKnown, Counts
<1>12. \A b \in vars' : owner'[b] \in loadedMods'
  BY <1>1, <1>2, <1>3 DEF Known, TypeOK
<1>13. \A x \in usedIDs' : x <= lastIndexRead'
  BY <1>1, <1>6, <1>7 DEF n
<1>14. Known' /\ Idle'
  BY <1>1, <1>6, <1>9, <1>10, <1>11, <1>12 DEF Known, Idle
<1>. QED  BY <1>1, <1>7, <1>13, <1>14 DEF Base

LEMMA PersistBase ==
  ASSUME Base, [PersistNext]_persistVars
  PROVE  Base'
<1>1. CASE UNCHANGED <<allVars, phase, loadedMods, lastIndexRead>> /\ file' \subseteq file
  <2>1. Known'
    BY <1>1 DEF Base, Known, TypeOK, PoolsMatch, CountsKnown, Counts, allVars, heap
  <2>. QED  BY <1>1, <2>1 DEF Base, Idle, allVars, heap
<1>2. CASE LoadEnd
  <2>1. UNCHANGED <<allVars, loadedMods, file>> /\ lastIndexRead' = 0 /\ phase' = "play"
    BY <1>2 DEF LoadEnd
  <2>2. Known'
    BY <2>1 DEF Base, Known, TypeOK, PoolsMatch, CountsKnown, Counts, allVars, heap
  <2>. QED  BY <2>1, <2>2 DEF Base
<1>3. CASE UNCHANGED persistVars
  BY <1>1, <1>3 DEF persistVars, saveVars
<1>4. ASSUME NEW r \in file, Discard(r)
      PROVE  Base'
  BY <1>1, <1>4 DEF Discard
<1>. QED  BY <1>2, <1>3, <1>4, RunningBase, PreLoadBase, ReadArrayBase DEF PersistNext, Running

LEMMA PersistInitBase == PersistInit => Base
<1>. SUFFICES ASSUME PersistInit PROVE Base
  OBVIOUS
<1>1. Inv
  BY InitInv DEF PersistInit
<1>2. CountsKnown(Counts)
  <2>1. Counts \in [refs : [IDs -> Seq(Referrers)], temp : SUBSET usedIDs]
    BY <1>1 DEF Inv, Fits
  <2>. QED  BY <2>1 DEF CountsKnown, PersistInit, Init
<1>. QED  BY <1>1, <1>2 DEF Base, Known, Inv, PersistInit, Init

(***************************************************************************)
(* The ID of a new array is never the ID of an array that exists, whatever *)
(* gaps, lost IDs and discarded records the loads left.                    *)
(***************************************************************************)
THEOREM NewIDsStayFresh == PersistSpec => []NewIDsAreFresh
<1>1. Base => NewIDsAreFresh
  <2>. SUFFICES ASSUME Base PROVE GetUnusedID \notin vars \cup {dying}
    BY DEF NewIDsAreFresh
  <2>1. GetUnusedID \notin usedIDs /\ GetUnusedID # 0
    BY UnusedIDIsFresh DEF Base, Known
  <2>. QED  BY <2>1 DEF Base, Known, PoolsMatch
<1>. QED  BY <1>1, PersistInitBase, PersistBase, PTL DEF PersistSpec

(***************************************************************************)
(* While the game runs, no array is owned by a mod that is not loaded or   *)
(* counts a reference for one.                                             *)
(***************************************************************************)
THEOREM RemovedModsStayForgotten == PersistSpec => []RemovedModsForgotten
<1>1. Base => RemovedModsForgotten
  <2>. SUFFICES ASSUME Base, NEW a \in vars
                PROVE  owner[a] \in loadedMods /\ Range(refs[a]) \subseteq loadedMods
    BY DEF RemovedModsForgotten
  <2>1. owner[a] \in loadedMods /\ refs[a] \in Seq(loadedMods)
    BY DEF Base, Known, CountsKnown, Counts
  <2>2. \A i \in DOMAIN refs[a] : refs[a][i] \in loadedMods
    BY <2>1, LenProperties
  <2>. QED  BY <2>1, <2>2 DEF Range
<1>. QED  BY <1>1, PersistInitBase, PersistBase, PTL DEF PersistSpec

-----------------------------------------------------------------------------
(***************************************************************************)
(* A save and a load with the same mods.  Between loads the invariant of   *)
(* the array map holds, and the slots of IDs that name no array are empty. *)
(***************************************************************************)
Vacant == \A s \in ElementSlots :
            s[1] \notin vars /\ s[1] # dying => s \notin numeric /\ word[s] = 0

LEMMA VacantSlot ==
  ASSUME TypeOK, Vacant, NEW s \in Slots, NEW x, word' = [word EXCEPT ![s] = x],
         numeric' \subseteq numeric \cup {s}, UNCHANGED <<vars, dying>>,
         s \in ElementSlots => \/ s[1] \in vars \cup {dying}
                               \/ x = 0 /\ s \notin numeric'
  PROVE  Vacant'
<1>. SUFFICES ASSUME NEW u \in ElementSlots, u[1] \notin vars, u[1] # dying
              PROVE  u \notin numeric' /\ word'[u] = 0
  BY DEF Vacant
<1>1. u \notin numeric /\ word[u] = 0 /\ u \in Slots
  BY DEF Vacant, Slots
<1>2. CASE u = s
  BY <1>1, <1>2 DEF TypeOK
<1>3. CASE u # s
  BY <1>1, <1>3 DEF TypeOK
<1>. QED  BY <1>2, <1>3

LEMMA RunningVacant ==
  ASSUME Known, Vacant, Running
  PROVE  Vacant'
<1>. /\ TypeOK /\ PoolsMatch /\ loadedMods \subseteq Mods
     /\ \A c \in ScriptVars \cup CallArgs : c \in Slots /\ c \notin ElementSlots
     /\ \A b \in IDs, k \in Keys : /\ <<b, k>> \in Slots /\ <<b, k>> \in ElementSlots
                                   /\ <<b, k>>[1] = b
  BY ConstantsAssumption DEF ConstantsAssumption, Known, Slots, ElementSlots
<1>1. ASSUME NEW m \in loadedMods, Create(m)
      PROVE  Vacant'
  BY <1>1 DEF Create, ScriptStep, Vacant
<1>2. ASSUME NEW v \in ScriptVars, NEW a \in IDs, NEW m \in loadedMods, AssignVar(v, a, m)
      PROVE  Vacant'
  <2>1. word' = [word EXCEPT ![v] = Stored(a)] /\ UNCHANGED <<vars, numeric, dying>>
    BY <1>2 DEF AssignVar, ScriptStep
  <2>. QED  BY <2>1, VacantSlot
<1>3. ASSUME NEW v \in ScriptVars, ClearVar(v)
      PROVE  Vacant'
  <2>1. word' = [word EXCEPT ![v] = 0] /\ UNCHANGED <<vars, numeric, dying>>
    BY <1>3 DEF ClearVar, ScriptStep
  <2>. QED  BY <2>1, VacantSlot
<1>4. ASSUME NEW b \in IDs, NEW k \in Keys, NEW a \in IDs, SetArray(b, k, a)
      PROVE  Vacant'
  <2>1. /\ word' = [word EXCEPT ![<<b, k>>] = Stored(a)] /\ numeric' = numeric \ {<<b, k>>}
        /\ b \in vars /\ UNCHANGED <<vars, dying>>
    BY <1>4 DEF SetArray, ScriptStep
  <2>. QED  BY <2>1, VacantSlot
<1>5. ASSUME NEW b \in IDs, NEW k \in Keys, NEW w \in NumericWords, SetNumber(b, k, w)
      PROVE  Vacant'
  <2>1. /\ word' = [word EXCEPT ![<<b, k>>] = w] /\ numeric' = numeric \cup {<<b, k>>}
        /\ b \in vars /\ UNCHANGED <<vars, dying>>
    BY <1>5 DEF SetNumber, ScriptStep
  <2>. QED  BY <2>1, VacantSlot
<1>6. ASSUME NEW b \in IDs, NEW k \in Keys, EraseElement(b, k)
      PROVE  Vacant'
  <2>1. /\ word' = [word EXCEPT ![<<b, k>>] = 0] /\ numeric' = numeric \ {<<b, k>>}
        /\ b \in vars /\ UNCHANGED <<vars, dying>>
    BY <1>6 DEF EraseElement, ScriptStep
  <2>. QED  BY <2>1, VacantSlot
<1>7. ASSUME NEW c \in CallArgs, NEW a \in IDs, HoldArg(c, a)
      PROVE  Vacant'
  <2>1. word' = [word EXCEPT ![c] = Stored(a)] /\ UNCHANGED <<vars, numeric, dying>>
    BY <1>7 DEF HoldArg, ScriptStep
  <2>. QED  BY <2>1, VacantSlot
<1>8. ASSUME NEW c \in CallArgs, DropArg(c)
      PROVE  Vacant'
  <2>1. word' = [word EXCEPT ![c] = 0] /\ UNCHANGED <<vars, numeric, dying>>
    BY <1>8 DEF DropArg, ScriptStep
  <2>. QED  BY <2>1, VacantSlot
<1>9. ASSUME NEW k \in Keys, DestroyElement(k)
      PROVE  Vacant'
  <2>1. /\ word' = [word EXCEPT ![<<dying, k>>] = 0] /\ numeric' = numeric \ {<<dying, k>>}
        /\ dying \in IDs /\ UNCHANGED <<vars, dying>>
    BY <1>9 DEF DestroyElement, TypeOK
  <2>. QED  BY <2>1, VacantSlot
<1>10. CASE DeleteBegin
  <2>. DEFINE d == Max(tempIDs)
  <2>1. dying = 0 /\ dying' = d /\ vars' = vars \ {d} /\ UNCHANGED <<word, numeric>>
    BY <1>10 DEF DeleteBegin
  <2>2. \A s \in ElementSlots : s[1] # 0
    BY DEF ElementSlots, IDs
  <2>. HIDE DEF d
  <2>. QED  BY <2>1, <2>2 DEF Vacant
<1>11. CASE DeleteEnd
  <2>1. /\ \A k \in Keys : Destroyed(<<dying, k>>)
        /\ UNCHANGED <<vars, word, numeric>>
    BY <1>11 DEF DeleteEnd
  <2>2. \A s \in ElementSlots : s[1] = dying => s \notin numeric /\ word[s] = 0
    BY <2>1 DEF ElementSlots, Destroyed
  <2>. QED  BY <2>1, <2>2 DEF Vacant
<1>12. CASE CleanBegin \/ CleanEnd \/ SaveWrite
  BY <1>12 DEF CleanBegin, CleanEnd, SaveWrite, heap, Vacant
<1>. QED  BY <1>1, <1>2, <1>3, <1>4, <1>5, <1>6, <1>7, <1>8, <1>9, <1>10, <1>11, <1>12
          DEF Running, Play, Deleting, SaveBegin

(***************************************************************************)
(* What is in the file once it is written, and what has been read of it:   *)
(* an array of the save is either in the map, as it was, or in exactly one *)
(* record, as it was.                                                      *)
(***************************************************************************)
Snapshot == [vars |-> vars, owner |-> owner, word |-> word, numeric |-> numeric]

Saved == /\ tempIDs = {}
         /\ file = {Record(a) : a \in vars}
         /\ before = Snapshot

Sound(b) ==
  /\ b.vars \subseteq IDs
  /\ b.word \in [Slots -> IDs \cup {0}]
  /\ b.numeric \subseteq ElementSlots
  /\ \A s \in b.numeric : b.word[s] = 0
  /\ \A s \in Slots : b.word[s] # 0 => b.word[s] \in b.vars
  /\ \A s \in ElementSlots : s[1] \notin b.vars => s \notin b.numeric /\ b.word[s] = 0

Covers(b, q, a) == q # <<>> /\ Cardinality(HoldersIn(b.word, b.numeric, a)) <= Len(q)

AsBefore(r) ==
  /\ r.id \in before.vars \ vars
  /\ r.owner = before.owner[r.id] /\ r.owner \in Mods
  /\ r.refs \in Seq(Mods) /\ Covers(before, r.refs, r.id)
  /\ r.word = [k \in Keys |-> before.word[<<r.id, k>>]]
  /\ r.numeric = {k \in Keys : <<r.id, k>> \in before.numeric}

WordRead(s) == IF s \in CallArgs THEN 0
               ELSE IF s \in ElementSlots /\ s[1] \notin vars THEN 0
               ELSE before.word[s]

Reading ==
  /\ Sound(before)
  /\ vars \subseteq before.vars
  /\ \A r \in file : AsBefore(r)
  /\ \A a \in before.vars \ vars : \E r \in file : r.id = a
  /\ \A r, q \in file : r.id = q.id => r = q
  /\ \A a \in vars : owner[a] = before.owner[a] /\ Covers(before, refs[a], a)
  /\ tempIDs = {}
  /\ word = [s \in Slots |-> WordRead(s)]
  /\ numeric = {s \in before.numeric : s[1] \in vars}

Survival == NoModRemoved => /\ phase # "reading" => Inv /\ Vacant
                            /\ phase = "saved" => Saved
                            /\ phase = "reading" => Reading

(***************************************************************************)
(* Clean has left no array with an empty m_refs when the file is written,  *)
(* so that every array is.                                                 *)
(***************************************************************************)
LEMMA RunningSurvival ==
  ASSUME Base, Survival, NumericWords = {0}, Running
  PROVE  Survival'
<1>. Known /\ loadedMods \subseteq Mods
  BY DEF Base, Known
<1>1. loadedMods' = loadedMods /\ Next
  BY RunningIsNext
<1>. SUFFICES ASSUME NoModRemoved
              PROVE  /\ phase' # "reading" => (Inv /\ Vacant)'
                     /\ phase' = "saved" => Saved'
                     /\ phase' = "reading" => Reading'
  BY <1>1 DEF Survival, NoModRemoved
<1>2. /\ Deleting => ~Idle /\ phase' = phase
      /\ Play => phase = "play" /\ phase' = "play"
      /\ SaveBegin => phase = "play" /\ phase' = "saving"
      /\ SaveWrite => phase = "saving" /\ phase' = "saved"
  BY DEF Deleting, DeleteBegin, DeleteEnd, DestroyElement, Idle, Play, SaveBegin, SaveWrite,
         saveVars
<1>3. phase \notin {"saved", "reading"} /\ phase' # "reading" /\ (phase' = "saved" => SaveWrite)
  BY <1>2 DEF Running, Base
<1>4. Inv /\ Vacant
  BY <1>3 DEF Survival
<1>5. Inv' /\ Vacant'
  BY <1>1, <1>4, NextInv, RunningVacant
<1>6. ASSUME SaveWrite PROVE Saved'
  <2>1. /\ tempIDs = {} /\ UNCHANGED heap
        /\ file' = {Record(a) : a \in ToSave} /\ before' = Snapshot
    BY <1>6 DEF SaveWrite, Snapshot
  <2>2. \A a \in vars : refs[a] # <<>>
    BY <1>4, <2>1 DEF Inv, Fits, Counts
  <2>3. ToSave = vars
    BY <2>1, <2>2 DEF ToSave
  <2>. QED  BY <2>1, <2>3 DEF Saved, Snapshot, Record, heap
<1>. QED  BY <1>3, <1>5, <1>6

LEMMA PreLoadSurvival ==
  ASSUME Base, Survival, NEW present \in SUBSET loadedMods, PreLoad(present)
  PROVE  Survival'
<1>1. /\ loadedMods' = present /\ phase = "saved" /\ phase' = "reading"
      /\ vars' = {} /\ tempIDs' = {} /\ numeric' = {}
      /\ word' = [s \in Slots |-> IF s \in ScriptVars /\ ModOf[s] \in present
                                  THEN word[s] ELSE 0]
      /\ UNCHANGED <<file, before>>
  BY DEF PreLoad
<1>. SUFFICES ASSUME present = Mods PROVE Reading'
  BY <1>1 DEF Survival, NoModRemoved
<1>2. Known /\ TypeOK /\ Idle /\ NoModRemoved
  BY <1>1 DEF Base, Known, NoModRemoved
<1>3. Inv /\ Vacant /\ Saved
  BY <1>1, <1>2 DEF Survival
<1>4. /\ before.vars = vars /\ before.owner = owner /\ before.word = word
      /\ before.numeric = numeric
  BY <1>3 DEF Saved, Snapshot
<1>5. Sound(before)
  <2>1. \A s \in numeric : word[s] = 0
    BY <1>3 DEF Inv, NumbersAreNoIDs
  <2>2. \A s \in Slots : word[s] # 0 => word[s] \in vars
    BY <1>3, <2>1 DEF Inv, NoDanglingReference
  <2>3. \A s \in ElementSlots : s[1] \notin vars => s \notin numeric /\ word[s] = 0
    BY <1>2, <1>3 DEF Vacant, Idle, ElementSlots, IDs
  <2>. QED  BY <1>2, <1>4, <2>1, <2>2, <2>3 DEF Sound, TypeOK
<1>6. ASSUME NEW a \in vars
      PROVE  /\ Record(a).id = a /\ Record(a).owner = owner[a] /\ owner[a] \in Mods
             /\ Record(a).refs = refs[a] /\ refs[a] \in Seq(Mods)
             /\ Covers(before, refs[a], a)
             /\ Record(a).word = [k \in Keys |-> before.word[<<a, k>>]]
             /\ Record(a).numeric = {k \in Keys : <<a, k>> \in before.numeric}
  <2>1. owner[a] \in Mods /\ refs[a] \in Seq(Mods)
    BY <1>2 DEF Known, CountsKnown, Counts, NoModRemoved
  <2>2. Cardinality(HoldersIn(word, numeric, a)) <= Len(refs[a]) /\ refs[a] # <<>>
    BY <1>3 DEF Inv, Fits, Counts, Saved
  <2>. QED  BY <1>4, <2>1, <2>2 DEF Record, Covers
<1>7. \A r \in file : \E a \in vars : r = Record(a)
  BY <1>3 DEF Saved
<1>8. \A a \in vars : Record(a) \in file
  BY <1>3 DEF Saved
<1>9. \A r \in file' : AsBefore(r)'
  <2>. SUFFICES ASSUME NEW r \in file PROVE AsBefore(r)'
    BY <1>1
  <2>1. PICK a \in vars : r = Record(a)
    BY <1>7
  <2>2. /\ r.id = a /\ r.owner = owner[a] /\ owner[a] \in Mods
        /\ r.refs = refs[a] /\ refs[a] \in Seq(Mods) /\ Covers(before, refs[a], a)
        /\ r.word = [k \in Keys |-> before.word[<<a, k>>]]
        /\ r.numeric = {k \in Keys : <<a, k>> \in before.numeric}
    BY <1>6, <2>1
  <2>3. a \in before.vars \ vars' /\ before' = before
    BY <1>1, <1>4
  <2>4. Covers(before, refs[a], a) <=> Covers(before', refs[a], a)
    BY <2>3
  <2>. QED  BY <1>4, <2>2, <2>3, <2>4 DEF AsBefore
<1>10. \A r, q \in file' : r.id = q.id => r = q
  <2>. SUFFICES ASSUME NEW r \in file, NEW q \in file, r.id = q.id PROVE r = q
    BY <1>1
  <2>1. PICK a \in vars : r = Record(a)
    BY <1>7
  <2>2. PICK b \in vars : q = Record(b)
    BY <1>7
  <2>3. a = b
    BY <1>6, <2>1, <2>2
  <2>. QED  BY <2>1, <2>2, <2>3
<1>11. \A a \in before'.vars \ vars' : \E r \in file' : r.id = a
  BY <1>1, <1>4, <1>6, <1>8
<1>12. word' = [s \in Slots |-> WordRead(s)']
  <2>1. ASSUME NEW s \in Slots
        PROVE  WordRead(s)' = IF s \in ScriptVars /\ ModOf[s] \in present THEN word[s] ELSE 0
    <3>1. s \in ScriptVars \/ s \in CallArgs \/ s \in ElementSlots
      BY DEF Slots
    <3>2. CASE s \in ScriptVars
      <4>1. s \notin CallArgs /\ s \notin ElementSlots /\ ModOf[s] \in present
        BY <3>2, ConstantsAssumption DEF ConstantsAssumption
      <4>. QED  BY <1>1, <1>4, <3>2, <4>1 DEF WordRead
    <3>3. CASE s \notin ScriptVars
      BY <1>1, <3>1, <3>3 DEF WordRead
    <3>. QED  BY <3>2, <3>3
  <2>. QED  BY <1>1, <2>1
<1>. QED  BY <1>1, <1>5, <1>9, <1>10, <1>11, <1>12 DEF Reading

(***************************************************************************)
(* Each record gives back the array it was written for.                    *)
(***************************************************************************)
LEMMA ReadArraySurvival ==
  ASSUME Base, Survival, NEW r \in file, ReadArray(r)
  PROVE  Survival'
<1>. DEFINE a == r.id
<1>1. phase = "reading" /\ phase' = "reading" /\ UNCHANGED <<loadedMods, before>>
  BY DEF ReadArray
<1>. SUFFICES ASSUME NoModRemoved PROVE Reading'
  BY <1>1 DEF Survival, NoModRemoved
<1>2. Reading /\ TypeOK /\ loadedMods = Mods
  BY <1>1 DEF Survival, Base, Known, NoModRemoved
<1>3. AsBefore(r) /\ a \in before.vars /\ a \notin vars /\ a \in IDs
  BY <1>2 DEF Reading, AsBefore, Sound
<1>4. LoadedRefs(r) = r.refs /\ r.refs # <<>> /\ NewOwner(r) = r.owner
  <2>1. r.refs \in Seq(Mods) /\ r.owner \in Mods /\ r.refs # <<>>
    BY <1>3 DEF AsBefore, Covers
  <2>2. LoadedRefs(r) = r.refs
    BY <1>2, <2>1, OnlyAll DEF LoadedRefs
  <2>. QED  BY <1>2, <2>1, <2>2 DEF NewOwner
<1>5. /\ vars' = vars \cup {a}
      /\ owner' = [owner EXCEPT ![a] = r.owner] /\ refs' = [refs EXCEPT ![a] = r.refs]
      /\ tempIDs' = {} /\ numeric' = numeric \cup ({a} \X r.numeric)
      /\ file' = file \ {r}
  BY <1>2, <1>4 DEF ReadArray, Reading
<1>6. word' = [s \in Slots |-> IF s \in ElementSlots /\ s[1] = a THEN r.word[s[2]] ELSE word[s]]
  BY DEF ReadArray
<1>7. /\ r.word = [k \in Keys |-> before.word[<<a, k>>]]
      /\ r.numeric = {k \in Keys : <<a, k>> \in before.numeric}
      /\ r.owner = before.owner[a] /\ Covers(before, r.refs, a)
  BY <1>3 DEF AsBefore
<1>. HIDE DEF a
<1>8. \A q \in file' : AsBefore(q)'
  <2>. SUFFICES ASSUME NEW q \in file, q # r PROVE AsBefore(q)'
    BY <1>5
  <2>1. AsBefore(q) /\ q.id # a
    BY <1>2 DEF Reading, a
  <2>. QED  BY <1>1, <1>5, <2>1 DEF AsBefore
<1>9. \A b \in before'.vars \ vars' : \E q \in file' : q.id = b
  <2>. SUFFICES ASSUME NEW b \in before.vars \ vars, b # a PROVE \E q \in file' : q.id = b
    BY <1>1, <1>5
  <2>1. PICK q \in file : q.id = b
    BY <1>2 DEF Reading
  <2>2. q # r
    BY <2>1 DEF a
  <2>. QED  BY <1>5, <2>1, <2>2
<1>10. (\A b \in vars : owner[b] = before.owner[b] /\ Covers(before, refs[b], b))'
  <2>. SUFFICES ASSUME NEW b \in vars'
                PROVE  owner'[b] = before.owner[b] /\ Covers(before, refs'[b], b)
    BY <1>1 DEF Covers
  <2>1. CASE b = a
    BY <1>3, <1>2, <1>5, <1>7, <2>1 DEF TypeOK
  <2>2. CASE b # a
    BY <1>2, <1>5, <2>2 DEF TypeOK, Reading
  <2>. QED  BY <2>1, <2>2
<1>11. word' = [s \in Slots |-> WordRead(s)']
  <2>1. ASSUME NEW s \in Slots
        PROVE  WordRead(s)' = IF s \in ElementSlots /\ s[1] = a THEN r.word[s[2]] ELSE word[s]
    <3>1. word[s] = WordRead(s)
      BY <1>2 DEF Reading
    <3>2. CASE s \in ElementSlots /\ s[1] = a
      <4>1. s \notin CallArgs /\ s = <<a, s[2]>> /\ s[2] \in Keys
        BY <3>2, ConstantsAssumption DEF ConstantsAssumption, ElementSlots
      <4>2. WordRead(s)' = before.word[s]
        BY <1>1, <1>5, <3>2, <4>1 DEF WordRead
      <4>. QED  BY <1>7, <3>2, <4>1, <4>2
    <3>3. CASE ~(s \in ElementSlots /\ s[1] = a)
      BY <1>1, <1>5, <3>1, <3>3 DEF WordRead
    <3>. QED  BY <3>2, <3>3
  <2>. QED  BY <1>6, <2>1
<1>12. numeric' = {s \in before'.numeric : s[1] \in vars'}
  <2>1. {a} \X r.numeric = {s \in before.numeric : s[1] = a}
    <3>1. \A s \in before.numeric : s \in IDs \X Keys
      BY <1>2 DEF Reading, Sound, ElementSlots
    <3>. QED  BY <1>7, <3>1
  <2>2. numeric = {s \in before.numeric : s[1] \in vars}
    BY <1>2 DEF Reading
  <2>. QED  BY <1>1, <1>5, <2>1, <2>2
<1>13. \A p, q \in file' : p.id = q.id => p = q
  BY <1>2, <1>5 DEF Reading
<1>. QED  BY <1>1, <1>2, <1>3, <1>5, <1>8, <1>9, <1>10, <1>11, <1>12, <1>13 DEF Reading

LEMMA DiscardSurvival ==
  ASSUME Base, Survival, NEW r \in file, Discard(r)
  PROVE  Survival'
<1>1. phase = "reading" /\ phase' = "reading" /\ loadedMods' = loadedMods /\ NewOwner(r) = 0
  BY DEF Discard
<1>2. ASSUME NoModRemoved PROVE FALSE
  <2>1. r.owner \in loadedMods /\ 0 \notin Mods
    BY <1>1, <1>2, ConstantsAssumption
       DEF Survival, Reading, AsBefore, NoModRemoved, ConstantsAssumption
  <2>. QED  BY <1>1, <1>2, <2>1 DEF NewOwner, NoModRemoved
<1>. QED  BY <1>1, <1>2 DEF Survival, NoModRemoved

(***************************************************************************)
(* Once every record is read, the arrays are those of the save.            *)
(***************************************************************************)
LEMMA LoadEndRestores ==
  ASSUME Base, Survival, NoModRemoved, LoadEnd
  PROVE  /\ vars = before.vars
         /\ \A a \in vars : owner[a] = before.owner[a]
         /\ numeric = before.numeric
         /\ \A s \in ScriptVars \cup ElementSlots : word[s] = before.word[s]
         /\ Inv /\ Vacant
<1>1. Reading /\ Known /\ TypeOK /\ file = {} /\ Idle /\ Sound(before)
  BY DEF LoadEnd, Survival, Base, Known, Reading
<1>2. vars = before.vars
  BY <1>1 DEF Reading
<1>3. \A a \in vars : owner[a] = before.owner[a]
  BY <1>1 DEF Reading
<1>4. numeric = before.numeric
  BY <1>1, <1>2 DEF Reading, Sound
<1>5. \A s \in Slots : word[s] = IF s \in CallArgs THEN 0 ELSE before.word[s]
  <2>. TAKE s \in Slots
  <2>1. word[s] = WordRead(s)
    BY <1>1 DEF Reading
  <2>2. s \in ElementSlots /\ s[1] \notin vars => before.word[s] = 0
    BY <1>1, <1>2 DEF Sound
  <2>. QED  BY <2>1, <2>2 DEF WordRead
<1>6. \A s \in ScriptVars \cup ElementSlots : s \in Slots /\ s \notin CallArgs
  BY ConstantsAssumption DEF ConstantsAssumption, Slots
<1>7. \A s \in Slots : word[s] # 0 => word[s] = before.word[s] /\ word[s] \in vars
  BY <1>1, <1>2, <1>5 DEF Sound
<1>8. NumbersAreNoIDs /\ Vacant
  <2>1. NumbersAreNoIDs
    BY <1>1, <1>4, <1>5 DEF NumbersAreNoIDs, Sound, Slots
  <2>2. Vacant
    BY <1>1, <1>2, <1>4, <1>5 DEF Vacant, Sound, Slots
  <2>. QED  BY <2>1, <2>2
<1>9. Fits(Counts, word, numeric)
  <2>1. Counts \in [refs : [IDs -> Seq(Referrers)], temp : SUBSET usedIDs]
    BY <1>1 DEF Known, CountsKnown
  <2>2. \A a \in vars : refs[a] # <<>> /\ tempIDs = {}
    BY <1>1 DEF Reading, Covers
  <2>3. ASSUME NEW a \in vars
        PROVE  Cardinality(HoldersIn(word, numeric, a)) <= Len(refs[a])
    <3>. DEFINE H == HoldersIn(word, numeric, a)
                B == HoldersIn(before.word, before.numeric, a)
    <3>1. H \subseteq B
      <4>1. a # 0
        BY <1>1 DEF TypeOK, IDs
      <4>. QED  BY <1>4, <1>7, <4>1 DEF HoldersIn
    <3>2. Cardinality(B) <= Len(refs[a])
      BY <1>1 DEF Reading, Covers
    <3>3. IsFiniteSet(B) /\ Cardinality(B) \in Nat /\ Cardinality(H) \in Nat
      BY HoldersFinite
    <3>4. Len(refs[a]) \in Nat
      BY <1>1 DEF TypeOK
    <3>. HIDE DEF H, B
    <3>5. Cardinality(H) <= Cardinality(B)
      BY <3>1, <3>3, FS_Subset
    <3>6. Cardinality(H) <= Len(refs[a])
      BY <3>2, <3>3, <3>4, <3>5
    <3>. QED  BY <3>6 DEF H
  <2>. QED  BY <2>1, <2>2, <2>3 DEF Fits, Counts
<1>10. NoDanglingReference
  BY <1>7 DEF NoDanglingReference
<1>11. OwnersAreMods /\ PoolsMatch /\ dying \notin vars
  BY <1>1 DEF Known, OwnersAreMods
<1>12. Inv
  BY <1>1, <1>8, <1>9, <1>10, <1>11 DEF Inv
<1>. QED  BY <1>2, <1>3, <1>4, <1>5, <1>6, <1>8, <1>12

LEMMA PersistSurvival ==
  ASSUME Base, Survival, NumericWords = {0}, [PersistNext]_persistVars
  PROVE  Survival'
<1>1. CASE UNCHANGED persistVars
  <2>1. UNCHANGED <<allVars, phase, loadedMods, file, before>>
    BY <1>1 DEF persistVars, saveVars
  <2>2. Inv' <=> Inv
    BY <2>1 DEF allVars, heap, Inv, TypeOK, PoolsMatch, NumbersAreNoIDs, Fits, Counts,
                HoldersIn, NoDanglingReference, OwnersAreMods
  <2>3. Vacant' <=> Vacant
    BY <2>1 DEF allVars, heap, Vacant
  <2>4. Saved' <=> Saved
    BY <2>1 DEF allVars, heap, Saved, Snapshot, Record
  <2>5. Reading' <=> Reading
    <3>1. /\ vars' = vars /\ owner' = owner /\ refs' = refs /\ tempIDs' = tempIDs
          /\ word' = word /\ numeric' = numeric /\ file' = file /\ before' = before
      BY <2>1 DEF allVars, heap
    <3>2. \A r : AsBefore(r)' <=> AsBefore(r)
      BY <3>1 DEF AsBefore
    <3>3. \A s \in Slots : WordRead(s)' = WordRead(s)
      BY <3>1 DEF WordRead
    <3>4. [s \in Slots |-> WordRead(s)'] = [s \in Slots |-> WordRead(s)]
      BY <3>3
    <3>. QED  BY <3>1, <3>2, <3>4 DEF Reading
  <2>. QED  BY <2>1, <2>2, <2>3, <2>4, <2>5 DEF Survival, NoModRemoved
<1>2. CASE Running
  BY <1>2, RunningSurvival
<1>3. ASSUME NEW present \in SUBSET loadedMods, PreLoad(present)
      PROVE  Survival'
  BY <1>3, PreLoadSurvival
<1>4. ASSUME NEW r \in file, ReadArray(r) \/ Discard(r)
      PROVE  Survival'
  BY <1>4, ReadArraySurvival, DiscardSurvival
<1>5. CASE LoadEnd
  <2>1. UNCHANGED <<allVars, loadedMods>> /\ phase' = "play"
    BY <1>5 DEF LoadEnd
  <2>. SUFFICES ASSUME NoModRemoved PROVE Inv' /\ Vacant'
    BY <2>1 DEF Survival, NoModRemoved
  <2>2. Inv /\ Vacant
    BY <1>5, LoadEndRestores
  <2>. QED  BY <2>1, <2>2
            DEF allVars, heap, Inv, TypeOK, PoolsMatch, NumbersAreNoIDs, Fits, Counts,
                HoldersIn, NoDanglingReference, OwnersAreMods, Vacant
<1>. QED  BY <1>1, <1>2, <1>3, <1>4, <1>5 DEF PersistNext, Running

LEMMA PersistInitSurvival == PersistInit => Survival
<1>. SUFFICES ASSUME PersistInit PROVE Inv /\ Vacant
  BY DEF Survival, PersistInit
<1>1. Vacant
  BY DEF Vacant, PersistInit, Init, Slots
<1>. QED  BY <1>1, InitInv DEF PersistInit

(***************************************************************************)
(* A load with the mods of the save gives back the arrays as they were,    *)
(* and afterwards no reference dangles and no count is too small.          *)
(***************************************************************************)
THEOREM SavedArraysSurvive ==
  ASSUME NumericWords = {0}
  PROVE  PersistSpec => ArraysSurvive
<1>1. PersistInit => Base /\ Survival
  BY PersistInitBase, PersistInitSurvival
<1>2. Base /\ Survival /\ [PersistNext]_persistVars => (Base /\ Survival)'
  BY PersistBase, PersistSurvival
<1>3. Base /\ Survival => ReferencesSurvive
  BY DEF Survival, ReferencesSurvive, Inv, Fits, Counts, HoldersIn, Holders, RefsCoverHolders
<1>4. Base /\ Survival /\ [PersistNext]_persistVars
        => [(phase = "reading" /\ phase' = "play" /\ NoModRemoved) =>
             /\ vars = before.vars
             /\ \A a \in vars : owner[a] = before.owner[a]
             /\ numeric = before.numeric
             /\ \A s \in ScriptVars \cup ElementSlots : word[s] = before.word[s]]_persistVars
  <2>. SUFFICES ASSUME Base, Survival, PersistNext, phase = "reading", phase' = "play",
                       NoModRemoved
                PROVE  LoadEnd
    BY LoadEndRestores
  <2>1. ~Running
    BY DEF Running, Play, Deleting, DeleteBegin, DeleteEnd, DestroyElement, SaveBegin,
           SaveWrite, Base, Idle, saveVars
  <2>. QED  BY <2>1 DEF PersistNext, Running, PreLoad, ReadArray, Discard
<1>. QED  BY <1>1, <1>2, <1>3, <1>4, PTL DEF PersistSpec, ArraysSurvive, RoundTrip
==============================================================================
