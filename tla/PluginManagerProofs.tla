------------------------- MODULE PluginManagerProofs -------------------------
(***************************************************************************)
(* Theorems about PluginManager, for any number of plugins, of which any   *)
(* may fail its Query or its Load, and any depth of messages within        *)
(* messages, as long as plugins register and send when PluginAPI.h means   *)
(* them to (KeepsProtocol).                                                *)
(***************************************************************************)
EXTENDS PluginManager, TLAPS, SequenceTheorems, FiniteSetTheorems

(***************************************************************************)
(* Handles are asked for in Load, listeners are registered in Load or in   *)
(* the handler of PostLoad, and messages are sent later.                   *)
(***************************************************************************)
KeepsProtocol ==
  /\ HandleFrom \subseteq {"load"}
  /\ RegisterIn \subseteq {"load", "postLoad"}
  /\ DispatchIn \subseteq {"postPostLoad", "run"}

-----------------------------------------------------------------------------
(* The inductive invariant *)

FrameType == [sender : 0 .. N, from : 0 .. N, target : Int, at : Nat, handler : 0 .. N]

(***************************************************************************)
(* s_pluginListeners is empty or has one list for each handle from 0.      *)
(***************************************************************************)
ListsType == lists = <<>> \/ \E m \in Nat : lists \in [0 .. m -> Seq(Entry)]

(***************************************************************************)
(* Those that are loaded, or fail to, before plugin p.                     *)
(***************************************************************************)
Before(p) == {q \in queried : q < p}

(***************************************************************************)
(* Nothing is registered before the plugins are loaded, nor sent before    *)
(* all of them are, and index counts the Loads begun.                      *)
(***************************************************************************)
PhaseInv ==
  /\ phase \in {"query", "postQuery"} =>
       /\ plugins = <<>> /\ lists = <<>> /\ stack = <<>>
       /\ saved = [p \in Plugins |-> 0] /\ asked = [p \in Plugins |-> {}]
  /\ phase = "load" => /\ stack = <<>>
                       /\ index = Cardinality(Before(cursor)) + (IF inCall = 0 THEN 0 ELSE 1)
  /\ phase = "postLoad" => Len(stack) <= 1 /\ \A i \in 1 .. Len(stack) : stack[i].sender = 0
  /\ inCall # 0 => /\ phase \in {"query", "load"} /\ inCall = cursor
                   /\ phase = "query" => fate[inCall] # "notPlugin"
                   /\ phase = "load" => loading = inCall /\ inCall \in queried
  /\ \A p \in queried : fate[p] \in {"loads", "loadFails"}

PluginsInv ==
  /\ IsInjective(plugins)
  /\ Len(plugins) < cursor
  /\ \A i \in 1 .. Len(plugins) : plugins[i] < cursor

(***************************************************************************)
(* What was queried is loaded or has failed, once its turn has come; a     *)
(* plugin is as many places behind its turn as Loads failed before it.     *)
(***************************************************************************)
PlaceInv ==
  /\ \A h \in 1 .. Len(plugins) :
       Cardinality(Before(plugins[h])) + 1 = h + Cardinality(FailedBefore(plugins[h]))
  /\ phase \notin {"query", "postQuery"} =>
       /\ \A q \in queried : q < cursor => q \in Loaded \/ fate[q] = "loadFails"
       /\ Cardinality(Before(cursor)) = Len(plugins) + Cardinality(FailedBefore(cursor))
  /\ phase \in {"postLoad", "postPostLoad", "run"} => cursor = N + 1

(***************************************************************************)
(* A handle that a plugin keeps is its turn.                               *)
(***************************************************************************)
SavedInv ==
  \A p \in Plugins : saved[p] # 0 =>
    /\ p \in queried /\ (p < cursor \/ p = inCall)
    /\ saved[p] = Cardinality(Before(p)) + 1

(***************************************************************************)
(* Every entry of a list is of a plugin that asked for it by the handle it *)
(* keeps, and no plugin has two.                                           *)
(***************************************************************************)
AskedFor(p, h) == \/ All \in asked[p]
                  \/ h = 0 /\ NVSE \in asked[p]
                  \/ h \in 1 .. Len(plugins) /\ plugins[h] \in asked[p]

EntriesInv ==
  /\ \A h \in DOMAIN lists : \A i \in 1 .. Len(lists[h]) :
       /\ lists[h][i].listener = saved[lists[h][i].code]
       /\ AskedFor(lists[h][i].code, h)
  /\ OneCallbackPerSender

(***************************************************************************)
(* Who was told it listens is in the list.                                 *)
(***************************************************************************)
InList(p, h) == h \in DOMAIN lists /\ \E i \in 1 .. Len(lists[h]) : lists[h][i].code = p

AskedInv ==
  \A p \in Plugins :
    /\ asked[p] \subseteq {NVSE, All} \cup Loaded
    /\ NVSE \in asked[p] => InList(p, 0)
    /\ \A h \in 1 .. Len(plugins) : plugins[h] \in asked[p] => InList(p, h)

(***************************************************************************)
(* A dispatch goes along the list of the plugin that sent the message, if  *)
(* no Load failed, and the handler it waits for is the one it has come to. *)
(***************************************************************************)
FrameFits(f) ==
  /\ f.sender \in DOMAIN lists /\ f.at >= 1
  /\ \/ f.sender = 0 /\ f.from = NVSE
     \/ NoneFailed => f.sender \in 1 .. Len(plugins) /\ plugins[f.sender] = f.from
  /\ f.handler # 0 => /\ f.at <= Len(lists[f.sender])
                      /\ f.handler = lists[f.sender][f.at].code

StackInv == stack \in Seq(FrameType) /\ \A i \in 1 .. Len(stack) : FrameFits(stack[i])

Inv == /\ TypeOK /\ ListsType /\ PhaseInv /\ PluginsInv /\ PlaceInv
       /\ SavedInv /\ EntriesInv /\ AskedInv /\ StackInv

-----------------------------------------------------------------------------
(* Handles and lists *)

(***************************************************************************)
(* The turns of plugins are the numbers they have among those queried.     *)
(***************************************************************************)
LEMMA Turns ==
  ASSUME TypeOK
  PROVE  \A p \in 1 .. N + 1 :
           /\ IsFiniteSet(Before(p)) /\ Cardinality(Before(p)) \in Nat
           /\ Cardinality(Before(p)) < p
           /\ IsFiniteSet(FailedBefore(p)) /\ Cardinality(FailedBefore(p)) \in Nat
           /\ (FailedBefore(p) = {} => Cardinality(FailedBefore(p)) = 0)
<1>. N \in Nat /\ queried \subseteq 1 .. N
  BY ConstantsAssumption DEF ConstantsAssumption, TypeOK, Plugins
<1>. TAKE p \in 1 .. N + 1
<1>1. IsFiniteSet(1 .. p - 1) /\ Cardinality(1 .. p - 1) = p - 1
  <2>1. p - 1 \in Nat /\ 1 \in Int
    OBVIOUS
  <2>2. IsFiniteSet(1 .. p - 1) /\ Cardinality(1 .. p - 1) = IF p - 1 < 1 THEN 0 ELSE p - 1 - 1 + 1
    BY <2>1, FS_Interval
  <2>. QED  BY <2>1, <2>2
<1>2. Before(p) \subseteq 1 .. p - 1 /\ FailedBefore(p) \subseteq 1 .. p - 1
  <2>1. \A q \in 1 .. N : q < p => q \in 1 .. p - 1
    OBVIOUS
  <2>2. \A q \in queried : q < p => q \in 1 .. p - 1
    BY <2>1
  <2>. QED  BY <2>2 DEF Before, FailedBefore
<1>3. /\ IsFiniteSet(Before(p)) /\ Cardinality(Before(p)) <= p - 1
      /\ IsFiniteSet(FailedBefore(p))
  BY <1>1, <1>2, FS_Subset
<1>4. Cardinality(Before(p)) \in Nat /\ Cardinality(FailedBefore(p)) \in Nat
  BY <1>3, FS_CardinalityType
<1>. QED  BY <1>3, <1>4, FS_EmptySet

(***************************************************************************)
(* The turn after p is one more if p was queried.                          *)
(***************************************************************************)
LEMMA NextTurn ==
  ASSUME TypeOK, NEW p \in Plugins
  PROVE  /\ p \notin queried => Before(p + 1) = Before(p) /\ FailedBefore(p + 1) = FailedBefore(p)
         /\ p \in queried => Cardinality(Before(p + 1)) = Cardinality(Before(p)) + 1
         /\ p \in queried /\ fate[p] = "loadFails" =>
              Cardinality(FailedBefore(p + 1)) = Cardinality(FailedBefore(p)) + 1
         /\ fate[p] # "loadFails" => FailedBefore(p + 1) = FailedBefore(p)
<1>. N \in Nat /\ queried \subseteq 1 .. N /\ p \in 1 .. N
  BY ConstantsAssumption DEF ConstantsAssumption, TypeOK, Plugins
<1>0. \A q \in 1 .. N : q < p + 1 <=> q < p \/ q = p
  OBVIOUS
<1>1. Before(p + 1) = IF p \in queried THEN Before(p) \cup {p} ELSE Before(p)
  BY <1>0 DEF Before
<1>2. FailedBefore(p + 1) = IF p \in queried /\ fate[p] = "loadFails"
                            THEN FailedBefore(p) \cup {p} ELSE FailedBefore(p)
  BY <1>0 DEF FailedBefore
<1>3. p \notin Before(p) /\ p \notin FailedBefore(p)
  BY DEF Before, FailedBefore
<1>4. IsFiniteSet(Before(p)) /\ IsFiniteSet(FailedBefore(p))
  BY Turns
<1>5. /\ Cardinality(Before(p) \cup {p}) = Cardinality(Before(p)) + 1
      /\ Cardinality(FailedBefore(p) \cup {p}) = Cardinality(FailedBefore(p)) + 1
  BY <1>3, <1>4, FS_AddElement
<1>. QED  BY <1>1, <1>2, <1>5

LEMMA TurnsGrow ==
  ASSUME TypeOK, NEW p \in queried, NEW q \in 1 .. N + 1, p < q
  PROVE  Cardinality(Before(p)) + 1 <= Cardinality(Before(q))
<1>. N \in Nat /\ queried \subseteq 1 .. N /\ p \in Plugins
  BY ConstantsAssumption DEF ConstantsAssumption, TypeOK, Plugins
<1>1. Before(p + 1) \subseteq Before(q)
  <2>1. \A r \in 1 .. N : r < p + 1 => r < q
    BY DEF Plugins
  <2>2. \A r \in queried : r < p + 1 => r < q
    BY <2>1
  <2>. QED  BY <2>2 DEF Before
<1>2. IsFiniteSet(Before(q))
  BY Turns
<1>3. Cardinality(Before(p + 1)) <= Cardinality(Before(q))
  BY <1>1, <1>2, FS_Subset
<1>. QED  BY <1>3, NextTurn

LEMMA Basics ==
  ASSUME TypeOK
  PROVE  /\ N \in Nat /\ MaxDepth \in Nat /\ 0 \notin Plugins /\ All \notin Plugins
         /\ All # NVSE /\ plugins \in Seq(Plugins) /\ Len(plugins) \in Nat
         /\ DOMAIN plugins = 1 .. Len(plugins)
         /\ \A h \in 1 .. Len(plugins) : plugins[h] \in Plugins /\ plugins[h] \in Loaded
         /\ Loaded \subseteq Plugins
         /\ \A p \in Loaded : \E h \in 1 .. Len(plugins) : plugins[h] = p
<1>1. N \in Nat /\ MaxDepth \in Nat /\ plugins \in Seq(Plugins)
  BY ConstantsAssumption DEF ConstantsAssumption, TypeOK
<1>2. Len(plugins) \in Nat /\ DOMAIN plugins = 1 .. Len(plugins)
  BY <1>1, LenProperties
<1>. QED  BY <1>1, <1>2 DEF Plugins, All, NVSE, Loaded, ToSet

(***************************************************************************)
(* LookupHandleFromName finds the one place of a name.                     *)
(***************************************************************************)
LEMMA LookupPlace ==
  ASSUME TypeOK, PluginsInv
  PROVE  /\ LookupHandleFromName(NVSE) = 0
         /\ \A h \in 1 .. Len(plugins) : LookupHandleFromName(plugins[h]) = h
         /\ \A s : \/ LookupHandleFromName(s) = -1 /\ s # NVSE /\ s \notin Loaded
                   \/ LookupHandleFromName(s) = 0 /\ s = NVSE
                   \/ /\ LookupHandleFromName(s) \in 1 .. Len(plugins)
                      /\ plugins[LookupHandleFromName(s)] = s /\ s \in Loaded
<1>. USE Basics
<1>1. LookupHandleFromName(NVSE) = 0
  BY DEF LookupHandleFromName, NVSE
<1>2. ASSUME NEW h \in 1 .. Len(plugins)
      PROVE  LookupHandleFromName(plugins[h]) = h
  <2>1. \A g \in 1 .. Len(plugins) : plugins[g] = plugins[h] => g = h
    BY DEF PluginsInv, IsInjective
  <2>2. (CHOOSE g \in 1 .. Len(plugins) : plugins[g] = plugins[h]) = h
    BY <2>1
  <2>3. plugins[h] \in Loaded /\ plugins[h] # NVSE
    BY DEF NVSE
  <2>. QED  BY <2>2, <2>3 DEF LookupHandleFromName
<1>3. ASSUME NEW s
      PROVE  \/ LookupHandleFromName(s) = -1 /\ s # NVSE /\ s \notin Loaded
             \/ LookupHandleFromName(s) = 0 /\ s = NVSE
             \/ /\ LookupHandleFromName(s) \in 1 .. Len(plugins)
                /\ plugins[LookupHandleFromName(s)] = s /\ s \in Loaded
  <2>1. CASE s = NVSE
    BY <1>1, <2>1
  <2>2. CASE s \in Loaded
    BY <1>2, <2>2
  <2>3. CASE s # NVSE /\ s \notin Loaded
    BY <2>3 DEF LookupHandleFromName
  <2>. QED  BY <2>1, <2>2, <2>3
<1>. QED  BY <1>1, <1>2, <1>3

(***************************************************************************)
(* The list of a handle, empty if there is none yet.                       *)
(***************************************************************************)
Old(h) == IF h \in DOMAIN lists THEN lists[h] ELSE <<>>

LEMMA ResizedLists ==
  ASSUME TypeOK, ListsType
  PROVE  \E m \in Nat : /\ Resized \in [0 .. m -> Seq(Entry)]
                        /\ GetNumPlugins <= m /\ DOMAIN lists \subseteq 0 .. m
                        /\ \A h \in 0 .. m : Resized[h] = Old(h)
<1>. DEFINE size == Cardinality(DOMAIN lists)
            needed == GetNumPlugins + 1
            new == [h \in 0 .. needed + 4 |-> IF h < size THEN lists[h] ELSE <<>>]
<1>1. GetNumPlugins \in Nat /\ <<>> \in Seq(Entry)
  BY Basics, EmptySeq DEF GetNumPlugins
<1>2. Resized = IF size >= needed THEN lists ELSE new
  BY DEF Resized
<1>3. CASE lists = <<>>
  <2>1. DOMAIN lists = {} /\ size = 0
    BY <1>3, FS_EmptySet
  <2>. HIDE DEF size
  <2>2. Resized = new
    BY <1>1, <1>2, <2>1
  <2>3. new \in [0 .. needed + 4 -> Seq(Entry)] /\ \A h \in 0 .. needed + 4 : new[h] = <<>>
    BY <1>1, <2>1
  <2>4. needed + 4 \in Nat /\ GetNumPlugins <= needed + 4
    BY <1>1
  <2>. HIDE DEF new, needed
  <2>. QED  BY <2>1, <2>2, <2>3, <2>4 DEF Old
<1>4. ASSUME NEW m \in Nat, lists \in [0 .. m -> Seq(Entry)]
      PROVE  \E k \in Nat : /\ Resized \in [0 .. k -> Seq(Entry)]
                            /\ GetNumPlugins <= k /\ DOMAIN lists \subseteq 0 .. k
                            /\ \A h \in 0 .. k : Resized[h] = Old(h)
  <2>1. DOMAIN lists = 0 .. m /\ size = m + 1
    <3>1. Cardinality(0 .. m) = m - 0 + 1
      BY FS_Interval
    <3>. QED  BY <1>4, <3>1
  <2>. HIDE DEF size
  <2>2. CASE size >= needed
    <3>1. Resized = lists /\ GetNumPlugins <= m
      BY <1>1, <1>2, <2>1, <2>2
    <3>. QED  BY <1>4, <2>1, <3>1 DEF Old
  <2>3. CASE ~(size >= needed)
    <3>1. Resized = new /\ m < needed + 4 /\ needed + 4 \in Nat /\ GetNumPlugins <= needed + 4
      BY <1>1, <1>2, <2>1, <2>3
    <3>2. \A h \in 0 .. needed + 4 : new[h] = Old(h) /\ new[h] \in Seq(Entry)
      <4>. TAKE h \in 0 .. needed + 4
      <4>1. h < size <=> h \in 0 .. m
        BY <1>1, <2>1
      <4>2. new[h] = IF h < size THEN lists[h] ELSE <<>>
        OBVIOUS
      <4>. QED  BY <1>1, <1>4, <2>1, <4>1, <4>2 DEF Old
    <3>3. new \in [0 .. needed + 4 -> Seq(Entry)]
      BY <3>2
    <3>4. DOMAIN lists \subseteq 0 .. needed + 4
      BY <1>1, <2>1, <3>1
    <3>. HIDE DEF new, needed
    <3>. QED  BY <3>1, <3>2, <3>3, <3>4
  <2>. QED  BY <2>2, <2>3
<1>. QED  BY <1>3, <1>4 DEF ListsType

(***************************************************************************)
(* What RegisterListener does to the lists, whoever the sender is.         *)
(***************************************************************************)
RegisteredIn(p, h) ==
  /\ lists'[h] = Append(Old(h), [listener |-> saved[p], code |-> p])
  /\ ~Has(Old(h), saved[p])
  /\ AskedFor(p, h)'

LEMMA RegisteredLists ==
  ASSUME Inv, NEW p \in Plugins, NEW sender \in 0 .. All, RegisterListener(p, sender)
  PROVE  /\ \E m \in Nat :
              /\ lists' \in [0 .. m -> Seq(Entry)] /\ DOMAIN lists \subseteq 0 .. m
              /\ GetNumPlugins <= m
              /\ \A h \in 0 .. m : lists'[h] = Old(h) \/ RegisteredIn(p, h)
         /\ \/ UNCHANGED asked
            \/ /\ asked' = [asked EXCEPT ![p] = @ \cup {sender}]
               /\ sender = All \/ (sender \in {NVSE} \cup Loaded
                                   /\ LookupHandleFromName(sender) \in 0 .. Len(plugins)
                                   /\ Has(lists'[LookupHandleFromName(sender)], saved[p]))
<1>. DEFINE entry == [listener |-> saved[p], code |-> p]
            place == LookupHandleFromName(sender)
<1>. TypeOK /\ ListsType /\ PluginsInv
  BY DEF Inv
<1>1. entry \in Entry /\ entry.listener = saved[p]
  <2>1. saved[p] \in 1 .. N
    <3>1. saved[p] \in 0 .. N /\ saved[p] # 0
      BY DEF RegisterListener, TypeOK
    <3>. QED  BY <3>1, Basics
  <2>. QED  BY <2>1 DEF Entry, Plugins
<1>2. PICK m \in Nat : /\ Resized \in [0 .. m -> Seq(Entry)]
                       /\ GetNumPlugins <= m /\ DOMAIN lists \subseteq 0 .. m
                       /\ \A h \in 0 .. m : Resized[h] = Old(h)
  BY ResizedLists
<1>3. UNCHANGED <<plugins, saved>>
  BY DEF RegisterListener, install
<1>4. CASE ~Accepted(p, sender)
  BY <1>2, <1>4 DEF RegisterListener
<1>5. CASE Accepted(p, sender)
  <2>1. /\ asked' = [asked EXCEPT ![p] = @ \cup {sender}]
        /\ lists' = IF sender = All THEN RegisteredWithAll(Resized, entry)
                    ELSE RegisteredWith(Resized, place, entry)
    BY <1>5 DEF RegisterListener
  <2>2. asked'[p] = asked[p] \cup {sender}
    BY <2>1 DEF TypeOK
  <2>3. CASE sender = All
    <3>1. lists' = RegisteredWithAll(Resized, entry)
      BY <2>1, <2>3
    <3>2. \E idx : lists' = [h \in DOMAIN Resized |->
            IF idx[h] \in {0, entry.listener} \/ Has(Resized[h], entry.listener)
            THEN Resized[h] ELSE Append(Resized[h], entry)]
      BY <3>1 DEF RegisteredWithAll
    <3>3. DOMAIN lists' = 0 .. m
          /\ \A h \in 0 .. m : \/ lists'[h] = Old(h)
                               \/ lists'[h] = Append(Old(h), entry) /\ ~Has(Old(h), saved[p])
      <4>. PICK idx : lists' = [h \in DOMAIN Resized |->
            IF idx[h] \in {0, entry.listener} \/ Has(Resized[h], entry.listener)
            THEN Resized[h] ELSE Append(Resized[h], entry)]
        BY <3>2
      <4>. DOMAIN Resized = 0 .. m
        BY <1>2
      <4>. HIDE DEF entry
      <4>. QED  BY <1>1, <1>2
    <3>4. \A h \in 0 .. m : Old(h) \in Seq(Entry)
      BY <1>2
    <3>5. \A h \in 0 .. m : lists'[h] \in Seq(Entry)
      <4>. HIDE DEF entry
      <4>. QED  BY <1>1, <3>3, <3>4, AppendProperties
    <3>6. lists' \in [0 .. m -> Seq(Entry)]
      <4>1. lists' = [h \in DOMAIN lists' |-> lists'[h]]
        <5>. PICK idx : lists' = [h \in DOMAIN Resized |->
            IF idx[h] \in {0, entry.listener} \/ Has(Resized[h], entry.listener)
            THEN Resized[h] ELSE Append(Resized[h], entry)]
          BY <3>2
        <5>. QED  OBVIOUS
      <4>. QED  BY <3>3, <3>5, <4>1
    <3>7. \A h : AskedFor(p, h)'
      BY <2>2, <2>3 DEF AskedFor
    <3>. QED  BY <1>2, <2>1, <2>3, <3>3, <3>6, <3>7 DEF RegisteredIn
  <2>4. CASE sender # All
    <3>1. sender \in {NVSE} \cup Loaded /\ place \in 0 .. Len(plugins)
          /\ ((place = 0 /\ sender = NVSE) \/ (place \in 1 .. Len(plugins) /\ plugins[place] = sender))
      BY <1>5, <2>4, LookupPlace, Basics DEF Accepted
    <3>2. place \in 0 .. m
      BY <1>2, <3>1, Basics DEF GetNumPlugins
    <3>3. \A h : h = place => AskedFor(p, h)'
      BY <1>3, <2>2, <3>1 DEF AskedFor
    <3>4. lists' = RegisteredWith(Resized, place, entry)
      BY <2>1, <2>4
    <3>. HIDE DEF place, entry
    <3>5. CASE Has(Resized[place], entry.listener)
      <4>1. lists' = Resized
        BY <3>4, <3>5 DEF RegisteredWith
      <4>. QED  BY <1>1, <1>2, <2>1, <3>1, <3>2, <3>5, <4>1 DEF place
    <3>6. CASE ~Has(Resized[place], entry.listener)
      <4>1. lists' = [Resized EXCEPT ![place] = Append(@, entry)]
        BY <3>4, <3>6 DEF RegisteredWith
      <4>2. /\ lists'[place] = Append(Old(place), entry) /\ Old(place) \in Seq(Entry)
            /\ \A h \in 0 .. m : h # place => lists'[h] = Old(h)
        BY <1>2, <3>2, <4>1
      <4>3. Append(Old(place), entry) \in Seq(Entry) /\ Has(Append(Old(place), entry), saved[p])
        <5>1. /\ Append(Old(place), entry) \in Seq(Entry)
              /\ Len(Append(Old(place), entry)) = Len(Old(place)) + 1 /\ Len(Old(place)) \in Nat
              /\ Append(Old(place), entry)[Len(Old(place)) + 1] = entry
          BY <1>1, <4>2, AppendProperties, LenProperties
        <5>. QED  BY <1>1, <5>1 DEF Has
      <4>4. lists' \in [0 .. m -> Seq(Entry)]
        BY <1>2, <3>2, <4>1, <4>2, <4>3
      <4>5. \A h \in 0 .. m : h = place => RegisteredIn(p, h)
        BY <1>1, <1>2, <3>2, <3>3, <3>6, <4>2 DEF RegisteredIn, entry
      <4>. QED  BY <1>2, <2>1, <3>1, <4>2, <4>3, <4>4, <4>5 DEF place
    <3>. QED  BY <3>5, <3>6
  <2>. QED  BY <2>3, <2>4
<1>. QED  BY <1>4, <1>5

(***************************************************************************)
(* No two plugins keep the same handle.                                    *)
(***************************************************************************)
LEMMA HandlesDiffer ==
  ASSUME Inv, NEW p \in Plugins, NEW q \in Plugins, saved[p] # 0, saved[p] = saved[q]
  PROVE  p = q
<1>1. TypeOK /\ p \in queried /\ q \in queried /\ p \in 1 .. N /\ q \in 1 .. N /\ N \in Nat
      /\ Cardinality(Before(p)) + 1 = Cardinality(Before(q)) + 1
  BY Basics DEF Inv, SavedInv, Plugins
<1>2. ~(p < q) /\ ~(q < p)
  BY <1>1, Turns, TurnsGrow
<1>. QED  BY <1>1, <1>2

LEMMA RegisterGrows ==
  ASSUME Inv, NEW p \in Plugins, NEW sender \in 0 .. All, RegisterListener(p, sender)
  PROVE  /\ DOMAIN lists \subseteq DOMAIN lists'
         /\ \A h \in DOMAIN lists : \A i \in 1 .. Len(lists[h]) :
              i \in 1 .. Len(lists'[h]) /\ lists'[h][i] = lists[h][i]
         /\ \A h \in DOMAIN lists' : \A i \in 1 .. Len(lists'[h]) :
              \/ h \in DOMAIN lists /\ i \in 1 .. Len(lists[h]) /\ lists'[h][i] = lists[h][i]
              \/ /\ i = Len(Old(h)) + 1 /\ lists'[h][i] = [listener |-> saved[p], code |-> p]
                 /\ RegisteredIn(p, h)
<1>. DEFINE entry == [listener |-> saved[p], code |-> p]
<1>. TypeOK
  BY DEF Inv
<1>1. PICK m \in Nat :
              /\ lists' \in [0 .. m -> Seq(Entry)] /\ DOMAIN lists \subseteq 0 .. m
              /\ \A h \in 0 .. m : lists'[h] = Old(h) \/ RegisteredIn(p, h)
  BY RegisteredLists
<1>2. saved[p] \in 1 .. N
  <2>1. saved[p] \in 0 .. N /\ saved[p] # 0
    BY DEF RegisterListener, TypeOK
  <2>. QED  BY <2>1, Basics
<1>3. entry \in Entry
  BY <1>2 DEF Entry, Plugins
<1>4. \A h \in 0 .. m : Old(h) \in Seq(Entry) /\ Len(Old(h)) \in Nat
                        /\ (h \notin DOMAIN lists => Len(Old(h)) = 0)
  <2>. TAKE h \in 0 .. m
  <2>1. Old(h) \in Seq(Entry)
    BY EmptySeq DEF Old, TypeOK
  <2>. QED  BY <2>1, LenProperties, EmptySeq DEF Old
<1>5. ASSUME NEW h \in 0 .. m, RegisteredIn(p, h)
      PROVE  /\ Len(lists'[h]) = Len(Old(h)) + 1
             /\ \A i \in 1 .. Len(Old(h)) : lists'[h][i] = Old(h)[i]
             /\ lists'[h][Len(Old(h)) + 1] = entry
  <2>1. lists'[h] = Append(Old(h), entry)
    BY <1>5 DEF RegisteredIn
  <2>. HIDE DEF entry
  <2>. QED  BY <1>3, <1>4, <2>1, AppendProperties
<1>6. DOMAIN lists' = 0 .. m
  BY <1>1
<1>7. ASSUME NEW h \in DOMAIN lists, NEW i \in 1 .. Len(lists[h])
      PROVE  i \in 1 .. Len(lists'[h]) /\ lists'[h][i] = lists[h][i]
  <2>1. h \in 0 .. m /\ Old(h) = lists[h]
    BY <1>1 DEF Old
  <2>2. CASE lists'[h] = Old(h)
    BY <2>1, <2>2
  <2>3. CASE RegisteredIn(p, h)
    BY <1>4, <1>5, <2>1, <2>3
  <2>. QED  BY <1>1, <2>1, <2>2, <2>3
<1>8. ASSUME NEW h \in DOMAIN lists', NEW i \in 1 .. Len(lists'[h])
      PROVE  \/ h \in DOMAIN lists /\ i \in 1 .. Len(lists[h]) /\ lists'[h][i] = lists[h][i]
             \/ /\ i = Len(Old(h)) + 1 /\ lists'[h][i] = entry
                /\ RegisteredIn(p, h)
  <2>1. h \in 0 .. m
    BY <1>6
  <2>2. CASE lists'[h] = Old(h)
    BY <1>4, <2>1, <2>2 DEF Old
  <2>3. CASE RegisteredIn(p, h)
    <3>1. i \in 1 .. Len(Old(h)) \/ i = Len(Old(h)) + 1
      BY <1>4, <1>5, <2>1, <2>3
    <3>2. CASE i \in 1 .. Len(Old(h))
      BY <1>4, <1>5, <2>1, <2>3, <3>2 DEF Old
    <3>3. CASE i = Len(Old(h)) + 1
      BY <1>5, <2>1, <2>3, <3>3
    <3>. QED  BY <3>1, <3>2, <3>3
  <2>. QED  BY <1>1, <2>1, <2>2, <2>3
<1>. QED  BY <1>1, <1>6, <1>7, <1>8

LEMMA RegisterInv ==
  ASSUME Inv, KeepsProtocol, NEW p \in Plugins, NEW sender \in 0 .. All,
         RegisterListener(p, sender)
  PROVE  Inv'
<1>. DEFINE entry == [listener |-> saved[p], code |-> p]
            grown == [asked EXCEPT ![p] = @ \cup {sender}]
<1>. /\ TypeOK /\ ListsType /\ PhaseInv /\ PluginsInv /\ PlaceInv /\ SavedInv /\ EntriesInv
     /\ AskedInv /\ StackInv
  BY DEF Inv
<1>1. /\ phase \in {"load", "postLoad"} /\ saved[p] # 0
      /\ UNCHANGED <<fate, phase, cursor, inCall, index, loading, queried, plugins, saved, stack>>
  BY DEF RegisterListener, KeepsProtocol, install
<1>2. PICK m \in Nat :
         /\ lists' \in [0 .. m -> Seq(Entry)] /\ DOMAIN lists \subseteq 0 .. m
         /\ GetNumPlugins <= m
  BY RegisteredLists
<1>3. \/ UNCHANGED asked
      \/ /\ asked' = grown
         /\ sender = All \/ (sender \in {NVSE} \cup Loaded
                             /\ LookupHandleFromName(sender) \in 0 .. Len(plugins)
                             /\ Has(lists'[LookupHandleFromName(sender)], saved[p]))
  BY RegisteredLists
<1>4. /\ DOMAIN lists \subseteq DOMAIN lists'
      /\ \A h \in DOMAIN lists : \A i \in 1 .. Len(lists[h]) :
           i \in 1 .. Len(lists'[h]) /\ lists'[h][i] = lists[h][i]
      /\ \A h \in DOMAIN lists' : \A i \in 1 .. Len(lists'[h]) :
           \/ h \in DOMAIN lists /\ i \in 1 .. Len(lists[h]) /\ lists'[h][i] = lists[h][i]
           \/ /\ i = Len(Old(h)) + 1 /\ lists'[h][i] = entry
              /\ RegisteredIn(p, h)
  BY RegisterGrows
<1>5. /\ asked' \in [Plugins -> SUBSET (0 .. All)]
      /\ \A q \in Plugins : asked[q] \subseteq asked'[q]
      /\ \A q \in Plugins : asked'[q] \subseteq asked[q] \cup (IF q = p THEN {sender} ELSE {})
      /\ asked'[p] # asked[p] => asked' = grown
  <2>1. CASE UNCHANGED asked
    BY <2>1 DEF TypeOK
  <2>2. CASE asked' = grown
    BY <2>2 DEF TypeOK
  <2>. QED  BY <1>3, <2>1, <2>2
<1>. HIDE DEF grown
<1>6. TypeOK'
  <2>1. \A h \in DOMAIN lists' : lists'[h] \in Seq(Entry)
    BY <1>2
  <2>. QED  BY <1>1, <1>5, <2>1 DEF TypeOK
<1>7. ListsType'
  BY <1>2 DEF ListsType
<1>8. PhaseInv' /\ PluginsInv' /\ PlaceInv' /\ SavedInv'
  BY <1>1 DEF PhaseInv, PluginsInv, PlaceInv, SavedInv, Before, FailedBefore, Loaded
<1>9. EntriesInv'
  <2>1. ASSUME NEW h \in DOMAIN lists', NEW i \in 1 .. Len(lists'[h])
        PROVE  /\ lists'[h][i].listener = saved'[lists'[h][i].code]
               /\ AskedFor(lists[h][i].code, h)'
    <3>1. CASE h \in DOMAIN lists /\ i \in 1 .. Len(lists[h]) /\ lists'[h][i] = lists[h][i]
      <4>. DEFINE c == lists[h][i].code
      <4>1. c \in Plugins
        <5>1. lists[h] \in Seq(Entry)
          BY <3>1 DEF TypeOK
        <5>2. lists[h][i] \in Entry
          BY <3>1, <5>1
        <5>. QED  BY <5>2 DEF Entry
      <4>2. lists[h][i].listener = saved[c] /\ AskedFor(c, h)
        BY <3>1 DEF EntriesInv
      <4>3. \A x : x = c => AskedFor(x, h)'
        BY <1>1, <1>5, <4>1, <4>2 DEF AskedFor
      <4>. QED  BY <1>1, <3>1, <4>2, <4>3
    <3>2. CASE lists'[h][i] = entry /\ RegisteredIn(p, h)
      <4>1. AskedFor(p, h)'
        BY <3>2 DEF RegisteredIn
      <4>. QED  BY <1>1, <3>2, <4>1
    <3>. QED  BY <1>4, <3>1, <3>2
  <2>2. ASSUME NEW h \in DOMAIN lists', NEW i \in 1 .. Len(lists'[h]),
               NEW j \in 1 .. Len(lists'[h]), lists'[h][i].code = lists'[h][j].code
        PROVE  i = j
    <3>1. ASSUME NEW a \in 1 .. Len(lists[h]), h \in DOMAIN lists, RegisteredIn(p, h)
          PROVE  lists[h][a].code # p
      <4>1. lists[h][a].listener # saved[p]
        BY <3>1 DEF RegisteredIn, Has, Old
      <4>. QED  BY <3>1, <4>1 DEF EntriesInv
    <3>. QED  BY <1>4, <2>2, <3>1 DEF EntriesInv, OneCallbackPerSender
  <2>. QED  BY <2>1, <2>2 DEF EntriesInv, OneCallbackPerSender
<1>10. AskedInv'
  <2>1. \A q \in Plugins : \A h : InList(q, h) => InList(q, h)'
    BY <1>4 DEF InList
  <2>2. ASSUME NEW h \in DOMAIN lists', Has(lists'[h], saved[p])
        PROVE  InList(p, h)'
    <3>1. PICK i \in 1 .. Len(lists'[h]) : lists'[h][i].listener = saved[p]
      BY <2>2 DEF Has
    <3>2. lists'[h][i].code \in Plugins
      <4>1. lists'[h] \in Seq(Entry)
        BY <1>2
      <4>2. lists'[h][i] \in Entry
        BY <4>1
      <4>. QED  BY <4>2 DEF Entry
    <3>3. lists'[h][i].code = p
      BY <1>1, <1>9, <3>1, <3>2, HandlesDiffer DEF EntriesInv
    <3>. QED  BY <3>1, <3>3 DEF InList
  <2>3. ASSUME NEW q \in Plugins
        PROVE  /\ asked'[q] \subseteq {NVSE, All} \cup Loaded'
               /\ NVSE \in asked'[q] => InList(q, 0)'
               /\ \A h \in 1 .. Len(plugins') : plugins'[h] \in asked'[q] => InList(q, h)'
    <3>1. CASE q # p \/ UNCHANGED asked
      <4>1. asked'[q] = asked[q]
        BY <1>5, <3>1
      <4>. QED  BY <1>1, <2>1, <4>1 DEF AskedInv, Loaded
    <3>2. CASE q = p /\ asked' = grown /\ sender = All
      <4>1. \A s \in {NVSE} \cup Loaded : s \in asked'[q] => s \in asked[q]
        BY <1>5, <3>2, Basics
      <4>2. \A h \in 1 .. Len(plugins) : plugins[h] \in Loaded
        BY Basics
      <4>. QED  BY <1>1, <1>5, <2>1, <3>2, <4>1, <4>2 DEF AskedInv, Loaded
    <3>3. CASE q = p /\ asked' = grown /\ sender # All /\ asked' # asked
      <4>. DEFINE place == LookupHandleFromName(sender)
      <4>1. /\ sender \in {NVSE} \cup Loaded /\ place \in 0 .. Len(plugins)
            /\ Has(lists'[place], saved[p])
        BY <1>3, <3>3
      <4>2. place \in DOMAIN lists'
        BY <1>2, <4>1, Basics DEF GetNumPlugins
      <4>3. \A h : h = place => InList(p, h)'
        BY <2>2, <4>1, <4>2
      <4>4. sender = NVSE => place = 0
        BY LookupPlace
      <4>5. \A h \in 1 .. Len(plugins) : plugins[h] = sender => h = place
        BY LookupPlace
      <4>. QED  BY <1>1, <1>5, <2>1, <3>3, <4>1, <4>3, <4>4, <4>5 DEF AskedInv, Loaded
    <3>. QED  BY <1>3, <3>1, <3>2, <3>3
  <2>. QED  BY <2>3 DEF AskedInv
<1>11. StackInv'
  <2>1. ASSUME NEW f \in FrameType, FrameFits(f)
        PROVE  FrameFits(f)'
    <3>1. f.at \in Nat /\ f.sender \in DOMAIN lists
      BY <2>1 DEF FrameType, FrameFits
    <3>2. f.handler # 0 => f.at \in 1 .. Len(lists[f.sender])
      <4>1. lists[f.sender] \in Seq(Entry)
        BY <3>1 DEF TypeOK
      <4>2. Len(lists[f.sender]) \in Nat
        BY <4>1, LenProperties
      <4>. QED  BY <2>1, <3>1, <4>2 DEF FrameFits
    <3>3. f.handler # 0 => /\ f.at <= Len(lists'[f.sender])
                           /\ f.handler = lists'[f.sender][f.at].code
      <4>1. f.handler # 0 => /\ f.at \in 1 .. Len(lists'[f.sender])
                             /\ lists'[f.sender][f.at] = lists[f.sender][f.at]
        BY <1>4, <3>1, <3>2
      <4>2. \A n : f.at \in 1 .. n => f.at <= n
        BY <3>1
      <4>. QED  BY <2>1, <4>1, <4>2 DEF FrameFits
    <3>. QED  BY <1>1, <1>4, <2>1, <3>1, <3>3 DEF FrameFits, NoneFailed, FailedBefore
  <2>. QED  BY <1>1, <2>1 DEF StackInv
<1>. QED  BY <1>6, <1>7, <1>8, <1>9, <1>10, <1>11 DEF Inv

-----------------------------------------------------------------------------
(* InstallPlugins *)

LEMMA SameMessages ==
  ASSUME Inv, UNCHANGED <<plugins, saved, lists, stack, asked>>,
         stack = <<>> \/ UNCHANGED <<fate, cursor, queried>>
  PROVE  ListsType' /\ EntriesInv' /\ AskedInv' /\ StackInv'
<1>. /\ ListsType /\ EntriesInv /\ AskedInv /\ StackInv
  BY DEF Inv
<1>1. ListsType' /\ EntriesInv'
  BY DEF ListsType, EntriesInv, AskedFor, OneCallbackPerSender
<1>2. AskedInv'
  BY DEF AskedInv, InList, Loaded
<1>3. StackInv'
  <2>1. CASE stack = <<>>
    <3>1. Len(<<>>) = 0 /\ stack' = <<>>
      BY <2>1
    <3>. QED  BY <2>1, <3>1 DEF StackInv
  <2>2. CASE UNCHANGED <<fate, cursor, queried>>
    <3>1. \A f : FrameFits(f) => FrameFits(f)'
      BY <2>2 DEF FrameFits, NoneFailed, FailedBefore
    <3>2. \A i : \A f : f = stack[i] /\ FrameFits(f) => FrameFits(stack[i])'
      BY <3>1
    <3>. QED  BY <3>2 DEF StackInv
  <2>. QED  BY <2>1, <2>2
<1>. QED  BY <1>1, <1>2, <1>3

(***************************************************************************)
(* NVSE's own messages start at the front of its list.                     *)
(***************************************************************************)
LEMMA BroadcastFits ==
  ASSUME Inv
  PROVE  /\ Broadcast \in Seq(FrameType) /\ Len(Broadcast) <= 1
         /\ \A i \in 1 .. Len(Broadcast) : /\ Broadcast[i] = Start(0, NVSE, -1)
                                           /\ FrameFits(Broadcast[i])
<1>. DEFINE f == Start(0, NVSE, -1)
<1>1. f \in FrameType
  BY Basics DEF Start, FrameType, NVSE, Inv
<1>2. CASE lists = <<>>
  <2>1. Broadcast = <<>> /\ Len(<<>>) = 0
    BY <1>2 DEF Broadcast
  <2>. QED  BY <2>1, EmptySeq
<1>3. CASE lists # <<>>
  <2>1. 0 \in DOMAIN lists
    BY <1>3 DEF Inv, ListsType
  <2>2. FrameFits(f)
    BY <2>1 DEF FrameFits, Start
  <2>. HIDE DEF f
  <2>3. Broadcast = <<f>>
    BY <1>3 DEF Broadcast, f
  <2>. QED  BY <1>1, <2>2, <2>3 DEF f
<1>. QED  BY <1>2, <1>3

LEMMA QueryInv ==
  ASSUME Inv, BeginQuery \/ EndQuery \/ PostQueryPlugins \/ StartLoads
  PROVE  Inv'
<1>. /\ TypeOK /\ PhaseInv /\ PluginsInv /\ PlaceInv /\ SavedInv
     /\ N \in Nat \ {0} /\ Plugins = 1 .. N
  BY ConstantsAssumption DEF Inv, ConstantsAssumption, Plugins
<1>1. /\ phase \in {"query", "postQuery"} /\ UNCHANGED <<fate, plugins, saved, lists, asked>>
      /\ plugins = <<>> /\ lists = <<>> /\ stack = <<>> /\ asked = [p \in Plugins |-> {}]
      /\ saved = [p \in Plugins |-> 0]
  BY DEF BeginQuery, EndQuery, PostQueryPlugins, StartLoads, PhaseInv
<1>2. stack' = <<>>
  BY <1>1 DEF BeginQuery, EndQuery, PostQueryPlugins, StartLoads, Broadcast
<1>3. ListsType' /\ EntriesInv' /\ AskedInv' /\ StackInv'
  BY <1>1, <1>2, SameMessages
<1>4. Len(<<>>) = 0
  OBVIOUS
<1>5. SavedInv'
  BY <1>1 DEF SavedInv
<1>5a. PlaceInv'
  <2>1. phase' \in {"query", "postQuery"} \/ (StartLoads /\ phase' = "load" /\ cursor' = 1)
    BY <1>1 DEF BeginQuery, EndQuery, PostQueryPlugins, StartLoads
  <2>2. CASE StartLoads /\ phase' = "load" /\ cursor' = 1
    <3>1. queried' = queried /\ queried \subseteq 1 .. N
      BY <2>2 DEF StartLoads, TypeOK
    <3>2. Before(cursor)' = {} /\ FailedBefore(cursor)' = {} /\ \A q \in queried' : ~(q < cursor')
      <4>1. \A q \in 1 .. N : ~(q < 1)
        OBVIOUS
      <4>2. \A q \in queried' : ~(q < cursor')
        BY <2>2, <3>1, <4>1
      <4>. QED  BY <4>2 DEF Before, FailedBefore
    <3>. HIDE DEF Before, FailedBefore
    <3>3. Cardinality(Before(cursor)') = 0 /\ Cardinality(FailedBefore(cursor)') = 0
      BY <3>2, FS_EmptySet
    <3>. QED  BY <1>1, <1>4, <2>2, <3>2, <3>3 DEF PlaceInv
  <2>. QED  BY <1>1, <1>4, <2>1, <2>2 DEF PlaceInv
<1>6. TypeOK' /\ PhaseInv' /\ PluginsInv'
  <2>1. CASE BeginQuery
    <3>1. TypeOK'
      BY <1>1, <1>2, <2>1 DEF BeginQuery, TypeOK, Phases
    <3>2. PhaseInv'
      BY <1>1, <1>2, <2>1 DEF BeginQuery, PhaseInv
    <3>3. PluginsInv'
      BY <1>1, <1>4, <2>1 DEF BeginQuery, PluginsInv, TypeOK
    <3>. QED  BY <3>1, <3>2, <3>3
  <2>2. CASE EndQuery
    <3>0. inCall = cursor /\ inCall \in Plugins /\ cursor \in 1 .. N /\ fate[inCall] # "notPlugin"
      BY <2>2 DEF EndQuery, PhaseInv, TypeOK
    <3>1. TypeOK'
      BY <1>1, <1>2, <2>2, <3>0 DEF EndQuery, TypeOK, Phases
    <3>2. fate[inCall] # "queryFails" => fate[inCall] \in {"loads", "loadFails"}
      BY <3>0, ConstantsAssumption DEF ConstantsAssumption, TypeOK, Fate
    <3>3. PhaseInv'
      BY <1>1, <1>2, <2>2, <3>2 DEF EndQuery, PhaseInv
    <3>4. PluginsInv'
      BY <1>1, <1>4, <2>2, <3>0 DEF EndQuery, PluginsInv
    <3>. QED  BY <3>1, <3>3, <3>4
  <2>3. CASE PostQueryPlugins
    <3>0. inCall = 0
      BY <2>3 DEF PostQueryPlugins, PhaseInv, TypeOK
    <3>1. TypeOK'
      BY <1>1, <1>2, <2>3 DEF PostQueryPlugins, TypeOK, Phases
    <3>2. PhaseInv'
      BY <1>1, <1>2, <2>3, <3>0 DEF PostQueryPlugins, PhaseInv
    <3>3. PluginsInv'
      BY <1>1, <2>3 DEF PostQueryPlugins, PluginsInv
    <3>. QED  BY <3>1, <3>2, <3>3
  <2>4. CASE StartLoads
    <3>0. inCall = 0
      BY <2>4 DEF StartLoads, PhaseInv
    <3>1. TypeOK'
      BY <1>1, <1>2, <2>4 DEF StartLoads, TypeOK, Phases
    <3>2. PhaseInv'
      <4>1. Before(cursor)' = {} /\ index' = 0 /\ inCall' = 0
        <5>1. \A q \in 1 .. N : ~(q < 1)
          OBVIOUS
        <5>2. \A q \in queried' : ~(q < cursor')
          BY <2>4, <5>1 DEF StartLoads, TypeOK
        <5>. QED  BY <2>4, <3>0, <5>2 DEF StartLoads, Before
      <4>2. Cardinality(Before(cursor)') = 0
        BY <4>1, FS_EmptySet
      <4>. QED  BY <1>1, <1>2, <1>4, <2>4, <3>0, <4>1, <4>2 DEF StartLoads, PhaseInv
    <3>3. PluginsInv'
      BY <1>1, <1>4, <2>4 DEF StartLoads, PluginsInv, IsInjective
    <3>. QED  BY <3>1, <3>2, <3>3
  <2>. QED  BY <2>1, <2>2, <2>3, <2>4
<1>. QED  BY <1>3, <1>5, <1>5a, <1>6 DEF Inv

LEMMA BeginLoadInv ==
  ASSUME Inv, BeginLoad
  PROVE  Inv'
<1>. /\ TypeOK /\ PhaseInv /\ PluginsInv /\ PlaceInv /\ SavedInv
     /\ N \in Nat \ {0} /\ Plugins = 1 .. N /\ Len(plugins) \in Nat
  BY Basics, ConstantsAssumption DEF Inv, ConstantsAssumption, Plugins
<1>1. /\ phase = "load" /\ inCall = 0 /\ cursor \in 1 .. N /\ stack = <<>>
      /\ index = Cardinality(Before(cursor)) /\ index \in Nat /\ index < cursor
      /\ UNCHANGED <<fate, phase, queried, plugins, saved, lists, stack, asked>>
  <2>1. phase = "load" /\ inCall = 0 /\ cursor \in 1 .. N
        /\ UNCHANGED <<fate, phase, queried, plugins, saved, lists, stack, asked>>
    BY DEF BeginLoad, TypeOK
  <2>2. Cardinality(Before(cursor)) \in Nat /\ Cardinality(Before(cursor)) < cursor
    BY <2>1, Turns
  <2>. QED  BY <2>1, <2>2 DEF PhaseInv
<1>2. ListsType' /\ EntriesInv' /\ AskedInv' /\ StackInv'
  BY <1>1, SameMessages
<1>3. \/ /\ inCall' = 0 /\ cursor' = cursor + 1 /\ index' = index /\ loading' = loading
         /\ cursor \notin queried
      \/ /\ inCall' = cursor /\ cursor' = cursor /\ index' = index + 1 /\ loading' = cursor
         /\ cursor \in queried
  BY <1>1 DEF BeginLoad
<1>3a. \A p : Before(p)' = Before(p) /\ FailedBefore(p)' = FailedBefore(p)
  BY <1>1 DEF Before, FailedBefore
<1>3b. /\ Before(cursor)' = Before(cursor) /\ FailedBefore(cursor)' = FailedBefore(cursor)
       /\ \A q \in queried : q < cursor' => q < cursor
  <2>1. CASE cursor \notin queried
    <3>1. cursor \in Plugins /\ cursor' = cursor + 1
      BY <1>1, <1>3, <2>1
    <3>2. Before(cursor + 1) = Before(cursor) /\ FailedBefore(cursor + 1) = FailedBefore(cursor)
      BY <2>1, <3>1, NextTurn
    <3>3. Before(cursor)' = Before(cursor + 1) /\ FailedBefore(cursor)' = FailedBefore(cursor + 1)
      BY <1>1, <3>1 DEF Before, FailedBefore
    <3>4. \A q \in 1 .. N : q < cursor + 1 /\ q # cursor => q < cursor
      BY <1>1
    <3>. QED  BY <2>1, <3>1, <3>2, <3>3, <3>4 DEF TypeOK
  <2>2. CASE cursor \in queried
    BY <1>1, <1>3, <2>2 DEF Before, FailedBefore
  <2>. QED  BY <2>1, <2>2
<1>4. SavedInv'
  <2>1. \A p \in Plugins : saved[p] # 0 =>
          p \in queried /\ p < cursor' /\ saved[p] = Cardinality(Before(p)) + 1
    BY <1>1, <1>3 DEF SavedInv
  <2>. QED  BY <1>1, <1>3a, <2>1 DEF SavedInv
<1>4a. PlaceInv'
  <2>1. \A p : p \in Loaded' <=> p \in Loaded
    BY <1>1 DEF Loaded
  <2>. QED  BY <1>1, <1>3a, <1>3b, <2>1 DEF PlaceInv
<1>5. Len(plugins) < cursor
  BY DEF PluginsInv
<1>6. TypeOK'
  BY <1>1, <1>3, <1>5 DEF TypeOK
<1>7. PhaseInv'
  BY <1>1, <1>3, <1>3b DEF PhaseInv
<1>8. PluginsInv'
  <2>1. \A i \in 1 .. Len(plugins) : plugins[i] \in Plugins /\ plugins[i] < cursor
    BY Basics DEF PluginsInv
  <2>. QED  BY <1>1, <1>3, <1>5, <2>1 DEF PluginsInv
<1>. QED  BY <1>2, <1>4, <1>4a, <1>6, <1>7, <1>8 DEF Inv

(***************************************************************************)
(* A Load that fails leaves a turn without a place.                        *)
(***************************************************************************)
LEMMA LoadFailsInv ==
  ASSUME Inv, EndLoad, fate[inCall] = "loadFails"
  PROVE  Inv'
<1>. DEFINE c == inCall
<1>. /\ TypeOK /\ PhaseInv /\ PluginsInv /\ PlaceInv /\ SavedInv
     /\ N \in Nat \ {0} /\ Plugins = 1 .. N /\ Len(plugins) \in Nat
  BY Basics, ConstantsAssumption DEF Inv, ConstantsAssumption, Plugins
<1>1. /\ phase = "load" /\ c = cursor /\ c \in Plugins /\ c \in queried /\ stack = <<>>
      /\ index = Cardinality(Before(c)) + 1
      /\ inCall' = 0 /\ cursor' = c + 1
      /\ UNCHANGED <<fate, phase, index, loading, queried, plugins, saved, lists, stack, asked>>
  BY DEF EndLoad, PhaseInv, TypeOK
<1>2. \A p : Before(p)' = Before(p) /\ FailedBefore(p)' = FailedBefore(p)
  BY <1>1 DEF Before, FailedBefore
<1>3. /\ Cardinality(Before(cursor)') = Cardinality(Before(c)) + 1
      /\ Cardinality(FailedBefore(cursor)') = Cardinality(FailedBefore(c)) + 1
  <2>1. Before(cursor)' = Before(c + 1) /\ FailedBefore(cursor)' = FailedBefore(c + 1)
    BY <1>1 DEF Before, FailedBefore
  <2>. QED  BY <1>1, <2>1, NextTurn
<1>4. Cardinality(Before(c)) \in Nat /\ Cardinality(FailedBefore(c)) \in Nat
  BY <1>1, Turns
<1>5. \A q \in 1 .. N : q < c + 1 => q < c \/ q = c
  BY <1>1
<1>6. PlaceInv'
  <2>1. \A p : p \in Loaded' <=> p \in Loaded
    BY <1>1 DEF Loaded
  <2>2. \A q \in queried : q < cursor' => q \in Loaded' \/ fate'[q] = "loadFails"
    BY <1>1, <1>5, <2>1 DEF PlaceInv, TypeOK
  <2>3. Cardinality(Before(cursor)') = Len(plugins) + Cardinality(FailedBefore(cursor)')
    BY <1>1, <1>3, <1>4 DEF PlaceInv
  <2>. QED  BY <1>1, <1>2, <2>2, <2>3 DEF PlaceInv
<1>7. SavedInv'
  <2>1. \A p \in Plugins : saved[p] # 0 =>
          p \in queried /\ p < c + 1 /\ saved[p] = Cardinality(Before(p)) + 1
    BY <1>1 DEF SavedInv
  <2>. QED  BY <1>1, <1>2, <2>1 DEF SavedInv
<1>8. PhaseInv'
  BY <1>1, <1>3 DEF PhaseInv
<1>9. PluginsInv'
  <2>1. \A i \in 1 .. Len(plugins) : plugins[i] \in Plugins /\ plugins[i] < cursor
    BY Basics DEF PluginsInv
  <2>. QED  BY <1>1, <2>1 DEF PluginsInv
<1>10. TypeOK'
  BY <1>1 DEF TypeOK
<1>11. ListsType' /\ EntriesInv' /\ AskedInv' /\ StackInv'
  BY <1>1, SameMessages
<1>. QED  BY <1>6, <1>7, <1>8, <1>9, <1>10, <1>11 DEF Inv

LEMMA LoadsInv ==
  ASSUME Inv, EndLoad, fate[inCall] = "loads"
  PROVE  Inv'
<1>. DEFINE n == Len(plugins)
            c == inCall
            new == Append(plugins, c)
<1>. /\ TypeOK /\ ListsType /\ PhaseInv /\ PluginsInv /\ PlaceInv /\ SavedInv /\ EntriesInv
     /\ AskedInv /\ StackInv
     /\ N \in Nat \ {0} /\ Plugins = 1 .. N /\ n \in Nat
  BY Basics, ConstantsAssumption DEF Inv, ConstantsAssumption, Plugins
<1>1. /\ phase = "load" /\ c = cursor /\ c \in Plugins /\ c \in queried /\ stack = <<>>
      /\ index = Cardinality(Before(c)) + 1
      /\ fate[c] = "loads" /\ plugins' = new
      /\ inCall' = 0 /\ cursor' = c + 1
      /\ UNCHANGED <<fate, phase, index, loading, queried, saved, lists, stack, asked>>
  <2>1. phase = "load" /\ c # 0 /\ c = cursor /\ c \in queried /\ stack = <<>>
        /\ index = Cardinality(Before(c)) + 1
    BY DEF EndLoad, PhaseInv
  <2>2. c \in Plugins
    BY <2>1 DEF TypeOK
  <2>. QED  BY <2>1, <2>2 DEF EndLoad
<1>1a. \A p : Before(p)' = Before(p) /\ FailedBefore(p)' = FailedBefore(p)
  BY <1>1 DEF Before, FailedBefore
<1>1b. /\ Cardinality(Before(cursor)') = Cardinality(Before(c)) + 1
       /\ FailedBefore(cursor)' = FailedBefore(c)
  <2>1. Before(cursor)' = Before(c + 1) /\ FailedBefore(cursor)' = FailedBefore(c + 1)
    BY <1>1 DEF Before, FailedBefore
  <2>. QED  BY <1>1, <2>1, NextTurn
<1>1c. Cardinality(Before(c)) \in Nat /\ Cardinality(FailedBefore(c)) \in Nat
  BY <1>1, Turns
<1>2. /\ new \in Seq(Plugins) /\ Len(new) = n + 1 /\ new[n + 1] = c
      /\ \A i \in 1 .. n : new[i] = plugins[i] /\ plugins[i] \in Plugins /\ plugins[i] < c
      /\ DOMAIN new = 1 .. n + 1
  <2>1. \A i \in 1 .. n : plugins[i] < c
    BY <1>1 DEF PluginsInv
  <2>2. plugins \in Seq(Plugins) /\ \A i \in 1 .. n : plugins[i] \in Plugins
    BY Basics
  <2>. QED  BY <1>1, <2>1, <2>2, AppendProperties, LenProperties
<1>3. n < c
  BY <1>1 DEF PluginsInv
<1>. HIDE DEF new
<1>4. \A i \in 1 .. n + 1 : i \in 1 .. n \/ i = n + 1
  OBVIOUS
<1>5. Loaded' = Loaded \cup {c} /\ c \notin Loaded
  <2>1. Loaded = {plugins[i] : i \in 1 .. n} /\ Loaded' = {new[i] : i \in 1 .. n + 1}
    BY <1>1, <1>2, Basics DEF Loaded, ToSet
  <2>2. 1 .. n + 1 = 1 .. n \cup {n + 1}
    OBVIOUS
  <2>3. Loaded' = Loaded \cup {c}
    BY <1>2, <2>1, <2>2
  <2>4. \A i \in 1 .. n : plugins[i] # c
    BY <1>1, <1>2
  <2>. QED  BY <2>1, <2>3, <2>4
<1>6. PluginsInv'
  <2>1. IsInjective(new)
    <3>. SUFFICES ASSUME NEW i \in 1 .. n + 1, NEW j \in 1 .. n + 1, new[i] = new[j]
                  PROVE  i = j
      BY <1>2 DEF IsInjective
    <3>1. CASE i \in 1 .. n /\ j \in 1 .. n
      <4>1. plugins[i] = plugins[j]
        BY <1>2, <3>1
      <4>2. \A a, b \in 1 .. n : plugins[a] = plugins[b] => a = b
        BY Basics DEF PluginsInv, IsInjective
      <4>. QED  BY <3>1, <4>1, <4>2
    <3>2. CASE i = n + 1 /\ j = n + 1
      BY <3>2
    <3>3. CASE (i \in 1 .. n /\ j = n + 1) \/ (i = n + 1 /\ j \in 1 .. n)
      BY <1>1, <1>2, <3>3
    <3>. QED  BY <1>4, <3>1, <3>2, <3>3
  <2>2. \A i \in 1 .. n + 1 : new[i] < c + 1
    BY <1>1, <1>2, <1>4
  <2>. QED  BY <1>1, <1>2, <1>3, <2>1, <2>2 DEF PluginsInv
<1>7. TypeOK'
  BY <1>1, <1>2, <1>3 DEF TypeOK
<1>8. PhaseInv'
  BY <1>1, <1>1b, <1>2 DEF PhaseInv
<1>9. SavedInv'
  <2>1. \A p \in Plugins : saved[p] # 0 =>
          p \in queried /\ p < c + 1 /\ saved[p] = Cardinality(Before(p)) + 1
    BY <1>1 DEF SavedInv
  <2>. QED  BY <1>1, <1>1a, <2>1 DEF SavedInv
<1>9a. PlaceInv'
  <2>1. \A q \in 1 .. N : q < c + 1 => q < c \/ q = c
    BY <1>1
  <2>2. \A q \in queried : q < cursor' => q \in Loaded' \/ fate'[q] = "loadFails"
    BY <1>1, <1>5, <2>1 DEF PlaceInv, TypeOK
  <2>3. Cardinality(Before(cursor)') = n + 1 + Cardinality(FailedBefore(cursor)')
    BY <1>1, <1>1b, <1>1c DEF PlaceInv
  <2>4. ASSUME NEW h \in 1 .. n + 1
        PROVE  Cardinality(Before(new[h])) + 1 = h + Cardinality(FailedBefore(new[h]))
    <3>1. CASE h \in 1 .. n
      BY <1>2, <3>1 DEF PlaceInv
    <3>2. CASE h = n + 1
      BY <1>1, <1>1c, <1>2, <3>2 DEF PlaceInv
    <3>. QED  BY <1>4, <3>1, <3>2
  <2>5. \A h \in 1 .. n + 1 : /\ Before(plugins[h])' = Before(new[h])
                              /\ FailedBefore(plugins[h])' = FailedBefore(new[h])
    BY <1>1 DEF Before, FailedBefore
  <2>. QED  BY <1>1, <1>2, <2>2, <2>3, <2>4, <2>5 DEF PlaceInv
<1>10. EntriesInv'
  <2>1. \A p, h : AskedFor(p, h) => AskedFor(p, h)'
    BY <1>1, <1>2 DEF AskedFor
  <2>2. OneCallbackPerSender'
    BY <1>1 DEF EntriesInv, OneCallbackPerSender
  <2>3. \A h \in DOMAIN lists : \A i \in 1 .. Len(lists[h]) :
          \A x : x = lists[h][i].code => AskedFor(x, h)'
    BY <2>1 DEF EntriesInv
  <2>. QED  BY <1>1, <2>2, <2>3 DEF EntriesInv
<1>11. AskedInv'
  <2>1. \A p, h : InList(p, h)' <=> InList(p, h)
    BY <1>1 DEF InList
  <2>2. ASSUME NEW p \in Plugins, NEW h \in 1 .. n + 1, new[h] \in asked[p]
        PROVE  InList(p, h)
    <3>1. c \notin asked[p]
      BY <1>1, <1>5, Basics DEF AskedInv, NVSE
    <3>. QED  BY <1>2, <1>4, <2>2, <3>1 DEF AskedInv
  <2>. QED  BY <1>1, <1>2, <1>5, <2>1, <2>2 DEF AskedInv
<1>12. ListsType' /\ StackInv'
  BY <1>1 DEF ListsType, StackInv
<1>. QED  BY <1>6, <1>7, <1>8, <1>9, <1>9a, <1>10, <1>11, <1>12 DEF Inv

LEMMA EndLoadInv ==
  ASSUME Inv, EndLoad
  PROVE  Inv'
<1>1. inCall \in queried
  BY DEF EndLoad, Inv, PhaseInv
<1>2. fate[inCall] \in {"loads", "loadFails"}
  BY <1>1 DEF Inv, PhaseInv
<1>. QED  BY <1>2, LoadsInv, LoadFailsInv

LEMMA SettledInv ==
  ASSUME Inv, PostLoad \/ PostPostLoad \/ Installed
  PROVE  Inv'
<1>. /\ TypeOK /\ ListsType /\ PhaseInv /\ PluginsInv /\ PlaceInv /\ SavedInv /\ EntriesInv
     /\ AskedInv /\ StackInv /\ MaxDepth \in Nat \ {0} /\ N \in Nat
  BY ConstantsAssumption DEF Inv, ConstantsAssumption
<1>1. /\ UNCHANGED <<fate, cursor, inCall, index, queried, plugins, saved, lists, asked>>
      /\ loading' \in {0, loading}
      /\ phase \in {"load", "postLoad", "postPostLoad"}
      /\ phase' \in {"postLoad", "postPostLoad", "run"}
  BY DEF PostLoad, PostPostLoad, Installed
<1>2. inCall = 0
  <2>1. CASE PostLoad
    BY <2>1 DEF PostLoad, PhaseInv, TypeOK
  <2>2. CASE PostPostLoad \/ Installed
    BY <2>2 DEF PostPostLoad, Installed, PhaseInv
  <2>. QED  BY <2>1, <2>2
<1>3. stack' = Broadcast \/ (stack' = <<>> /\ phase' = "run")
  BY DEF PostLoad, PostPostLoad, Installed
<1>4. /\ stack' \in Seq(FrameType) /\ Len(stack') <= 1
      /\ \A i \in 1 .. Len(stack') : stack'[i].sender = 0 /\ FrameFits(stack'[i])
  <2>1. CASE stack' = Broadcast
    BY <2>1, BroadcastFits DEF Start
  <2>2. CASE stack' = <<>>
    BY <2>2, EmptySeq
  <2>. QED  BY <1>3, <2>1, <2>2
<1>5. TypeOK'
  <2>1. Len(stack') <= MaxDepth
    BY <1>4, LenProperties
  <2>. QED  BY <1>1, <2>1 DEF TypeOK, Phases
<1>6. PhaseInv'
  BY <1>1, <1>2, <1>4 DEF PhaseInv
<1>7. SavedInv'
  BY <1>1 DEF SavedInv, Before
<1>7a. PlaceInv'
  <2>1. cursor = N + 1
    <3>1. CASE PostLoad
      BY <3>1 DEF PostLoad, TypeOK
    <3>2. CASE PostPostLoad \/ Installed
      BY <3>2 DEF PostPostLoad, Installed, PlaceInv
    <3>. QED  BY <3>1, <3>2
  <2>. QED  BY <1>1, <2>1 DEF PlaceInv, Before, FailedBefore, Loaded
<1>8. StackInv'
  <2>1. \A f : FrameFits(f) => FrameFits(f)'
    BY <1>1 DEF FrameFits, NoneFailed, FailedBefore
  <2>2. \A i : \A f : f = stack'[i] /\ FrameFits(f) => FrameFits(stack[i])'
    BY <2>1
  <2>. QED  BY <1>4, <2>2 DEF StackInv
<1>9. PluginsInv' /\ EntriesInv' /\ AskedInv' /\ ListsType'
  BY <1>1 DEF PluginsInv, EntriesInv, OneCallbackPerSender, AskedFor, AskedInv, InList, Loaded,
              ListsType
<1>. QED  BY <1>5, <1>6, <1>7, <1>7a, <1>8, <1>9 DEF Inv

(***************************************************************************)
(* A plugin that asks again gets the handle it has.                        *)
(***************************************************************************)
LEMMA HandleInv ==
  ASSUME Inv, KeepsProtocol, GetPluginHandle
  PROVE  Inv'
<1>. DEFINE c == inCall
<1>. /\ TypeOK /\ ListsType /\ PhaseInv /\ PluginsInv /\ PlaceInv /\ SavedInv /\ EntriesInv
     /\ AskedInv /\ StackInv
  BY DEF Inv
<1>1. /\ phase = "load" /\ c # 0 /\ c = cursor /\ c \in Plugins /\ c \in queried
      /\ index = Cardinality(Before(c)) + 1
      /\ saved' = [saved EXCEPT ![c] = index]
      /\ UNCHANGED <<fate, phase, cursor, inCall, index, loading, queried, plugins>>
      /\ UNCHANGED <<lists, stack, asked>>
  BY DEF GetPluginHandle, KeepsProtocol, install, PhaseInv, TypeOK
<1>2. saved[c] = 0 \/ saved[c] = index
  BY <1>1 DEF SavedInv
<1>3. \A p \in Plugins : saved[p] # 0 => saved'[p] = saved[p]
  BY <1>1, <1>2 DEF TypeOK
<1>4. TypeOK' /\ PhaseInv' /\ PluginsInv' /\ PlaceInv' /\ AskedInv' /\ StackInv' /\ ListsType'
  <2>1. TypeOK'
    BY <1>1 DEF TypeOK
  <2>2. PhaseInv' /\ PluginsInv' /\ PlaceInv'
    BY <1>1 DEF PhaseInv, PluginsInv, PlaceInv, Before, FailedBefore, Loaded
  <2>3. AskedInv' /\ StackInv' /\ ListsType'
    BY <1>1 DEF AskedInv, InList, Loaded, PhaseInv, StackInv, FrameFits, ListsType
  <2>. QED  BY <2>1, <2>2, <2>3
<1>5. SavedInv'
  BY <1>1, <1>3 DEF SavedInv, TypeOK, Before
<1>6. EntriesInv'
  <2>1. ASSUME NEW h \in DOMAIN lists, NEW i \in 1 .. Len(lists[h])
        PROVE  lists[h][i].listener = saved'[lists[h][i].code]
    <3>1. lists[h] \in Seq(Entry)
      BY DEF TypeOK
    <3>2. lists[h][i] \in Entry
      BY <3>1
    <3>3. lists[h][i].listener \in Plugins /\ lists[h][i].code \in Plugins
      BY <3>2 DEF Entry
    <3>4. lists[h][i].listener = saved[lists[h][i].code] /\ lists[h][i].listener # 0
      BY <3>3, Basics DEF EntriesInv
    <3>. QED  BY <1>3, <3>3, <3>4
  <2>. QED  BY <1>1, <2>1 DEF EntriesInv, OneCallbackPerSender, AskedFor
<1>. QED  BY <1>4, <1>5, <1>6 DEF Inv

-----------------------------------------------------------------------------
(* Dispatch_Message *)

LEMMA StackStep ==
  ASSUME Inv, phase \notin {"query", "postQuery", "load"},
         stack' \in Seq(FrameType), Len(stack') <= MaxDepth,
         \A i \in 1 .. Len(stack') : FrameFits(stack'[i]),
         phase = "postLoad" => /\ Len(stack') <= 1
                               /\ \A i \in 1 .. Len(stack') : stack'[i].sender = 0,
         UNCHANGED <<fate, install, saved, lists, asked>>
  PROVE  Inv'
<1>. /\ TypeOK /\ ListsType /\ PhaseInv /\ PluginsInv /\ PlaceInv /\ SavedInv /\ EntriesInv
     /\ AskedInv /\ StackInv
     /\ UNCHANGED <<phase, cursor, inCall, index, loading, queried, plugins>>
  BY DEF Inv, install
<1>1. TypeOK' /\ PhaseInv'
  BY DEF TypeOK, PhaseInv, Before
<1>2. StackInv'
  <2>1. \A f : FrameFits(f) => FrameFits(f)'
    BY DEF FrameFits, NoneFailed, FailedBefore
  <2>2. \A i : \A f : f = stack'[i] /\ FrameFits(f) => FrameFits(stack[i])'
    BY <2>1
  <2>. QED  BY <2>2 DEF StackInv
<1>3. PluginsInv' /\ PlaceInv' /\ SavedInv' /\ EntriesInv' /\ AskedInv' /\ ListsType'
  BY DEF PluginsInv, PlaceInv, SavedInv, EntriesInv, OneCallbackPerSender, AskedFor, AskedInv,
         InList, Loaded, ListsType, Before, FailedBefore
<1>. QED  BY <1>1, <1>2, <1>3 DEF Inv

LEMMA DispatchInv ==
  ASSUME Inv, KeepsProtocol, NEW p \in Plugins, NEW receiver \in 1 .. All, Dispatch(p, receiver)
  PROVE  Inv'
<1>. TypeOK /\ StackInv /\ PluginsInv
  BY DEF Inv
<1>. DEFINE target == IF receiver = All THEN -1 ELSE LookupHandleFromName(receiver)
            f == Start(saved[p], p, target)
<1>1. /\ phase \in {"postPostLoad", "run"} /\ saved[p] # 0 /\ Len(stack) < MaxDepth
      /\ saved[p] \in DOMAIN lists /\ saved[p] <= Len(plugins)
      /\ stack' = Append(stack, f)
      /\ UNCHANGED <<fate, install, saved, lists, asked>>
  BY DEF Dispatch, KeepsProtocol
<1>2. NoneFailed => plugins[saved[p]] = p /\ saved[p] \in 1 .. Len(plugins)
  <2>1. PICK h \in 1 .. Len(plugins) : plugins[h] = p
    BY Basics DEF Dispatch
  <2>2. /\ cursor = N + 1 /\ saved[p] = Cardinality(Before(p)) + 1
        /\ Cardinality(Before(p)) + 1 = h + Cardinality(FailedBefore(p))
    BY <1>1, <2>1 DEF Inv, SavedInv, PlaceInv
  <2>3. FailedBefore(p) \subseteq FailedBefore(cursor)
    <3>1. p \in 1 .. N /\ queried \subseteq 1 .. N /\ N \in Nat
      BY Basics DEF Plugins, TypeOK
    <3>2. \A q \in 1 .. N : q < p => q < N + 1
      BY <3>1
    <3>. QED  BY <2>2, <3>1, <3>2 DEF FailedBefore
  <2>4. NoneFailed => saved[p] = h
    <3>1. NoneFailed => Cardinality(FailedBefore(p)) = 0
      BY <2>3, FS_EmptySet DEF NoneFailed
    <3>2. h \in Nat
      BY Basics
    <3>. QED  BY <2>2, <3>1, <3>2
  <2>. QED  BY <2>1, <2>4
<1>3. target \in Int /\ saved[p] \in 0 .. N /\ p \in 0 .. N
  <2>1. LookupHandleFromName(receiver) \in Int
    BY LookupPlace, Basics
  <2>2. p \in 0 .. N
    BY Basics DEF Plugins
  <2>. QED  BY <2>1, <2>2 DEF TypeOK
<1>. HIDE DEF target
<1>4. f \in FrameType /\ FrameFits(f)
  <2>1. f \in FrameType
    BY <1>3, Basics DEF FrameType, Start
  <2>2. FrameFits(f)
    BY <1>1, <1>2 DEF FrameFits, Start
  <2>. QED  BY <2>1, <2>2
<1>. HIDE DEF f
<1>5. /\ stack' \in Seq(FrameType) /\ Len(stack') = Len(stack) + 1 /\ Len(stack) \in Nat
      /\ \A i \in 1 .. Len(stack) : stack'[i] = stack[i]
      /\ stack'[Len(stack) + 1] = f
  BY <1>1, <1>4, AppendProperties, LenProperties DEF StackInv
<1>6. \A i \in 1 .. Len(stack') : FrameFits(stack'[i])
  <2>. TAKE i \in 1 .. Len(stack')
  <2>1. i \in 1 .. Len(stack) \/ i = Len(stack) + 1
    BY <1>5
  <2>. QED  BY <1>4, <1>5, <2>1 DEF StackInv
<1>7. Len(stack') <= MaxDepth
  BY <1>1, <1>5, Basics
<1>. QED  BY <1>1, <1>5, <1>6, <1>7, StackStep

LEMMA MessagesInv ==
  ASSUME Inv, Messages
  PROVE  Inv'
<1>. /\ TypeOK /\ StackInv /\ PhaseInv
  BY DEF Inv
<1>. DEFINE n == Len(stack)
<1>1. stack # <<>> /\ UNCHANGED <<fate, install, saved, lists, asked>>
  BY DEF Messages, CallHandler, HandlerReturns, EndDispatch
<1>2. /\ phase \notin {"query", "postQuery", "load"} /\ stack \in Seq(FrameType) /\ n \in Nat \ {0}
      /\ top = stack[n] /\ top \in FrameType /\ FrameFits(top)
  <2>1. /\ stack \in Seq(FrameType) /\ n \in Nat /\ n # 0
    BY <1>1, LenProperties, EmptySeq DEF StackInv
  <2>2. top = stack[n] /\ n \in 1 .. n
    BY <2>1 DEF top, Last
  <2>3. stack[n] \in FrameType
    BY <2>1, <2>2
  <2>4. phase \notin {"query", "postQuery", "load"}
    BY <1>1 DEF PhaseInv
  <2>. QED  BY <2>1, <2>2, <2>3, <2>4 DEF StackInv
<1>3. ASSUME stack' = Front(stack)
      PROVE  Inv'
  <2>1. /\ stack' \in Seq(FrameType) /\ Len(stack') = n - 1
        /\ \A i \in 1 .. n - 1 : stack'[i] = stack[i]
    <3>1. /\ SubSeq(stack, 1, n - 1) \in Seq(FrameType)
          /\ Len(SubSeq(stack, 1, n - 1)) = n - 1
          /\ \A i \in 1 .. n - 1 : SubSeq(stack, 1, n - 1)[i] = stack[i]
      <4>1. \A i \in 1 .. n - 1 : stack[i] \in FrameType
        BY <1>2
      <4>2. n - 1 \in Nat /\ (n - 1) - 1 + 1 = n - 1 /\ (1 <= n - 1 \/ n - 1 = 0)
            /\ \A i \in 1 .. n - 1 : 1 + i - 1 = i
        <5>1. \A k \in Nat \ {0} :
                /\ k - 1 \in Nat /\ (k - 1) - 1 + 1 = k - 1 /\ (1 <= k - 1 \/ k - 1 = 0)
                /\ \A i \in 1 .. k - 1 : 1 + i - 1 = i
          OBVIOUS
        <5>. QED  BY <1>2, <5>1
      <4>3. /\ SubSeq(stack, 1, n - 1) \in Seq(FrameType)
            /\ Len(SubSeq(stack, 1, n - 1)) = IF 1 <= n - 1 THEN (n - 1) - 1 + 1 ELSE 0
            /\ \A i \in 1 .. (n - 1) - 1 + 1 : SubSeq(stack, 1, n - 1)[i] = stack[1 + i - 1]
        BY <4>1, <4>2, SubSeqProperties
      <4>. QED  BY <4>2, <4>3
    <3>. QED  BY <1>3, <3>1 DEF Front
  <2>2. \A i \in 1 .. n - 1 : i \in 1 .. n
    OBVIOUS
  <2>3. \A i \in 1 .. Len(stack') : FrameFits(stack'[i]) /\ stack'[i] = stack[i] /\ i \in 1 .. n
    BY <2>1, <2>2 DEF StackInv
  <2>4. Len(stack') <= MaxDepth /\ (n <= 1 => Len(stack') <= 1)
    BY <1>2, <2>1, Basics DEF TypeOK
  <2>. QED  BY <1>1, <1>2, <2>1, <2>3, <2>4, StackStep DEF PhaseInv
<1>4. ASSUME NEW f \in FrameType, SetTop(f), FrameFits(f), f.sender = top.sender
      PROVE  Inv'
  <2>1. /\ stack' \in Seq(FrameType) /\ Len(stack') = n /\ stack'[n] = f
        /\ \A i \in 1 .. n : i # n => stack'[i] = stack[i]
    BY <1>2, <1>4 DEF SetTop
  <2>2. \A i \in 1 .. Len(stack') : FrameFits(stack'[i]) /\ stack'[i].sender = stack[i].sender
    <3>. TAKE i \in 1 .. Len(stack')
    <3>1. CASE i = n
      BY <1>2, <1>4, <2>1, <3>1
    <3>2. CASE i # n
      BY <2>1, <3>2 DEF StackInv
    <3>. QED  BY <3>1, <3>2
  <2>. QED  BY <1>1, <1>2, <2>1, <2>2, StackStep DEF PhaseInv, TypeOK
<1>5. /\ top.sender \in 0 .. N /\ top.from \in 0 .. N /\ top.target \in Int
      /\ top.at \in Nat /\ top.handler \in 0 .. N
      /\ lists[top.sender] \in Seq(Entry) /\ Len(lists[top.sender]) \in Nat
      /\ top.at + 1 \in Nat /\ 0 \in 0 .. N
  <2>1. top.sender \in DOMAIN lists
    BY <1>2 DEF FrameFits
  <2>2. lists[top.sender] \in Seq(Entry)
    BY <2>1 DEF TypeOK
  <2>3. N \in Nat
    BY Basics
  <2>. QED  BY <1>2, <2>2, <2>3, LenProperties DEF FrameType
<1>6. CASE CallHandler
  <2>. DEFINE entry == lists[top.sender][top.at]
              called == [top EXCEPT !.handler = entry.code]
              passed == [top EXCEPT !.at = @ + 1]
  <2>1. SetTop(called) \/ SetTop(passed)
    BY <1>5, <1>6 DEF CallHandler, AtEnd
  <2>2. top.handler = 0 /\ top.at <= Len(lists[top.sender]) /\ top.at >= 1
    BY <1>2, <1>5, <1>6 DEF CallHandler, AtEnd, FrameFits
  <2>3. entry.code \in 0 .. N /\ entry.code # 0
    <3>1. top.at \in 1 .. Len(lists[top.sender])
      BY <1>5, <2>2
    <3>2. entry \in Entry
      BY <1>5, <3>1
    <3>3. entry.code \in Plugins
      BY <3>2 DEF Entry
    <3>. QED  BY <3>3, Basics DEF Plugins
  <2>4. CASE SetTop(called)
    <3>1. called \in FrameType /\ called.sender = top.sender
      BY <1>2, <1>5, <2>3 DEF FrameType
    <3>2. FrameFits(called)
      BY <1>2, <2>2 DEF FrameFits, FrameType
    <3>. QED  BY <1>4, <2>4, <3>1, <3>2
  <2>5. CASE SetTop(passed)
    <3>1. passed \in FrameType /\ passed.sender = top.sender
      <4>. DEFINE next == top.at + 1
      <4>. HIDE DEF next
      <4>1. [top EXCEPT !.at = next] \in FrameType /\ [top EXCEPT !.at = next].sender = top.sender
        BY <1>2, <1>5 DEF FrameType, next
      <4>. QED  BY <4>1 DEF next
    <3>2. FrameFits(passed)
      BY <1>2, <1>5, <2>2 DEF FrameFits, FrameType
    <3>. QED  BY <1>4, <2>5, <3>1, <3>2
  <2>. QED  BY <2>1, <2>4, <2>5
<1>7. CASE HandlerReturns
  <2>. DEFINE next == [top EXCEPT !.handler = 0, !.at = @ + 1]
  <2>1. SetTop(next) \/ stack' = Front(stack)
    BY <1>7 DEF HandlerReturns
  <2>2. CASE SetTop(next)
    <3>1. next \in FrameType /\ next.sender = top.sender
      <4>. DEFINE after == top.at + 1
      <4>. HIDE DEF after
      <4>1. /\ [top EXCEPT !.handler = 0, !.at = after] \in FrameType
            /\ [top EXCEPT !.handler = 0, !.at = after].sender = top.sender
        BY <1>2, <1>5 DEF FrameType, after
      <4>. QED  BY <4>1 DEF after
    <3>2. FrameFits(next)
      BY <1>2, <1>5 DEF FrameFits, FrameType
    <3>. QED  BY <1>4, <2>2, <3>1, <3>2
  <2>. QED  BY <1>3, <2>1, <2>2
<1>8. CASE EndDispatch
  BY <1>3, <1>8 DEF EndDispatch
<1>. QED  BY <1>6, <1>7, <1>8 DEF Messages

-----------------------------------------------------------------------------
(* The theorems *)

LEMMA InitInv == Init => Inv
<1>. SUFFICES ASSUME Init PROVE Inv
  OBVIOUS
<1>1. N \in Nat \ {0} /\ MaxDepth \in Nat \ {0} /\ Plugins = 1 .. N
  BY ConstantsAssumption DEF ConstantsAssumption, Plugins
<1>2. <<>> \in Seq(Plugins) /\ <<>> \in Seq(FrameType) /\ Len(<<>>) = 0 /\ IsInjective(<<>>)
  BY EmptySeq DEF IsInjective
<1>3. TypeOK
  BY <1>1, <1>2 DEF Init, TypeOK, Phases
<1>4. ListsType /\ PhaseInv /\ PluginsInv /\ PlaceInv /\ SavedInv /\ StackInv
  BY <1>2 DEF Init, ListsType, PhaseInv, PluginsInv, PlaceInv, SavedInv, StackInv
<1>5. EntriesInv /\ AskedInv
  BY <1>2 DEF Init, EntriesInv, OneCallbackPerSender, AskedInv
<1>. QED  BY <1>3, <1>4, <1>5 DEF Inv

LEMMA NextInv ==
  ASSUME Inv, KeepsProtocol, [Next]_allVars
  PROVE  Inv'
<1>1. CASE UNCHANGED allVars
  <2>1. UNCHANGED <<fate, phase, cursor, inCall, index, loading, queried, plugins>>
        /\ UNCHANGED <<saved, lists, stack, asked>>
    BY <1>1 DEF allVars, install
  <2>2. TypeOK' /\ PhaseInv' /\ PluginsInv' /\ PlaceInv' /\ SavedInv'
    BY <2>1 DEF Inv, TypeOK, PhaseInv, PluginsInv, PlaceInv, SavedInv, Before, FailedBefore,
                Loaded
  <2>. QED  BY <2>1, <2>2, SameMessages DEF Inv
<1>2. CASE Install
  BY <1>2, QueryInv, BeginLoadInv, EndLoadInv, SettledInv, HandleInv DEF Install, KeepsProtocol
<1>3. CASE Messages
  BY <1>3, MessagesInv
<1>4. CASE \E p \in Plugins, sender \in 0 .. All : RegisterListener(p, sender)
  BY <1>4, RegisterInv
<1>5. CASE \E p \in Plugins, receiver \in 1 .. All : Dispatch(p, receiver)
  BY <1>5, DispatchInv
<1>. QED  BY <1>1, <1>2, <1>3, <1>4, <1>5 DEF Next

LEMMA InvAlways ==
  ASSUME KeepsProtocol
  PROVE  Spec => []Inv
BY InitInv, NextInv, PTL DEF Spec

LEMMA EntriesArePlugins ==
  ASSUME Inv
  PROVE  \A h \in DOMAIN lists : \A i \in 1 .. Len(lists[h]) :
           lists[h][i].code \in Plugins /\ saved[lists[h][i].code] # 0
<1>. SUFFICES ASSUME NEW h \in DOMAIN lists, NEW i \in 1 .. Len(lists[h])
              PROVE  lists[h][i].code \in Plugins /\ saved[lists[h][i].code] # 0
  OBVIOUS
<1>1. lists[h] \in Seq(Entry)
  BY DEF Inv, TypeOK
<1>2. lists[h][i] \in Entry
  BY <1>1
<1>3. lists[h][i].code \in Plugins /\ lists[h][i].listener \in Plugins
  BY <1>2 DEF Entry
<1>. QED  BY <1>3, Basics DEF Inv, EntriesInv

(***************************************************************************)
(* The handle of a loaded plugin is the one under which NVSE knows it, or  *)
(* further on by the number of Loads that failed before it, and every      *)
(* handler that a message may reach is in a plugin that is loaded or whose *)
(* Load failed (GetPluginHandle, InstallPlugins, RegisterListener).        *)
(***************************************************************************)
THEOREM PluginsAlwaysAnswer ==
  ASSUME KeepsProtocol
  PROVE  Spec => []PluginsAnswer
<1>1. ASSUME Inv
      PROVE  PluginsAnswer
  <2>. TypeOK /\ PhaseInv /\ PlaceInv /\ SavedInv
    BY <1>1 DEF Inv
  <2>2. HandlesIdentify
    <3>. SUFFICES ASSUME Settled, NEW p \in Loaded, saved[p] # 0
                  PROVE  \E h \in 1 .. Len(plugins) :
                           plugins[h] = p /\ saved[p] = h + Cardinality(FailedBefore(p))
      BY DEF HandlesIdentify
    <3>1. p \in Plugins /\ \E h \in 1 .. Len(plugins) : plugins[h] = p
      BY Basics
    <3>2. saved[p] = Cardinality(Before(p)) + 1
      BY <3>1 DEF SavedInv
    <3>. QED  BY <3>1, <3>2 DEF PlaceInv
  <2>3. HandlersAreLoaded
    <3>. SUFFICES ASSUME Settled, NEW h \in DOMAIN lists, NEW i \in 1 .. Len(lists[h])
                  PROVE  lists[h][i].code \in Loaded \cup FailedBefore(All)
      BY DEF HandlersAreLoaded
    <3>. DEFINE c == lists[h][i].code
    <3>1. c \in Plugins /\ saved[c] # 0
      BY <1>1, EntriesArePlugins
    <3>. HIDE DEF c
    <3>2. c \in queried /\ cursor = N + 1 /\ phase \notin {"query", "postQuery"}
      BY <3>1 DEF SavedInv, PlaceInv, Settled
    <3>3. c < N + 1
      BY <3>1, Basics DEF Plugins
    <3>4. c \in Loaded \/ fate[c] = "loadFails"
      BY <3>2, <3>3 DEF PlaceInv
    <3>. QED  BY <3>2, <3>3, <3>4 DEF FailedBefore, All, c
  <2>. QED  BY <2>2, <2>3 DEF PluginsAnswer
<1>. QED  BY <1>1, InvAlways, PTL

(***************************************************************************)
(* Listeners are where they were told they are, once, and as long as no    *)
(* Load failed they hear what they asked for and nothing else              *)
(* (RegisterListener, Dispatch_Message).                                   *)
(***************************************************************************)
THEOREM ListenersAlwaysHearOnce ==
  ASSUME KeepsProtocol
  PROVE  Spec => []ListenersHearOnce
<1>1. ASSUME Inv
      PROVE  ListenersHearOnce
  <2>. /\ TypeOK /\ PhaseInv /\ PluginsInv /\ PlaceInv /\ SavedInv /\ EntriesInv /\ AskedInv
       /\ StackInv
    BY <1>1 DEF Inv
  <2>1. NoneFailed => NVSEAccepts
    <3>. SUFFICES ASSUME NoneFailed, NEW p \in Plugins, phase \in RegisterIn, saved[p] # 0
                  PROVE  Accepted(p, NVSE)
      BY DEF NVSEAccepts
    <3>1. saved[p] <= GetNumPlugins
      <4>0. /\ phase \in {"load", "postLoad"} /\ p \in 1 .. N /\ N \in Nat /\ Len(plugins) \in Nat
            /\ p \in queried /\ saved[p] = Cardinality(Before(p)) + 1
            /\ cursor \in 1 .. N + 1
        BY Basics DEF KeepsProtocol, SavedInv, TypeOK, Plugins
      <4>1. Cardinality(Before(cursor)) = Len(plugins)
        <5>1. Cardinality(FailedBefore(cursor)) = 0
          BY FS_EmptySet DEF NoneFailed
        <5>. QED  BY <4>0, <5>1 DEF PlaceInv
      <4>2. CASE p < cursor
        <5>1. saved[p] <= Len(plugins)
          BY <4>0, <4>1, <4>2, TurnsGrow
        <5>. QED  BY <4>0, <5>1, Turns DEF GetNumPlugins
      <4>3. CASE p = inCall
        <5>1. p # 0 /\ loading # 0 /\ p = cursor
          BY <4>0, <4>3, Basics DEF PhaseInv
        <5>. QED  BY <4>0, <4>1, <5>1 DEF GetNumPlugins
      <4>. QED  BY <4>2, <4>3 DEF SavedInv
    <3>. QED  BY <3>1, LookupPlace, Basics DEF Accepted
  <2>2. AcceptedListen
    <3>. SUFFICES ASSUME NEW p \in Loaded, NEW s \in asked[p] \cap ({NVSE} \cup Loaded)
                  PROVE  InList(p, LookupHandleFromName(s))
      BY DEF AcceptedListen, InList
    <3>1. p \in Plugins
      BY Basics
    <3>2. CASE s = NVSE
      BY <3>1, <3>2, LookupPlace DEF AskedInv
    <3>3. CASE s \in Loaded
      <4>1. PICK h \in 1 .. Len(plugins) : plugins[h] = s
        BY <3>3, Basics
      <4>. QED  BY <3>1, <4>1, LookupPlace DEF AskedInv
    <3>. QED  BY <3>2, <3>3
  <2>3. NoneFailed => HeardOnlyAsked
    <3>. SUFFICES ASSUME NoneFailed, NEW i \in 1 .. Len(stack), stack[i].handler # 0
                  PROVE  asked[stack[i].handler] \cap {stack[i].from, All} # {}
      BY DEF HeardOnlyAsked
    <3>. DEFINE f == stack[i]
                h == f.sender
    <3>1. f \in FrameType /\ FrameFits(f)
      BY DEF StackInv
    <3>2. h \in DOMAIN lists /\ f.at \in 1 .. Len(lists[h]) /\ f.handler = lists[h][f.at].code
      <4>1. h \in DOMAIN lists
        BY <3>1 DEF FrameFits
      <4>2. Len(lists[h]) \in Nat
        BY <4>1, LenProperties DEF TypeOK
      <4>. QED  BY <3>1, <4>1, <4>2 DEF FrameFits, FrameType
    <3>3. AskedFor(f.handler, h)
      BY <3>2 DEF EntriesInv
    <3>4. (h = 0 /\ f.from = NVSE) \/ (h \in 1 .. Len(plugins) /\ plugins[h] = f.from /\ h # 0)
      BY <3>1, Basics DEF FrameFits
    <3>. QED  BY <3>3, <3>4, Basics DEF AskedFor
  <2>. QED  BY <2>1, <2>2, <2>3 DEF ListenersHearOnce, EntriesInv
<1>. QED  BY <1>1, InvAlways, PTL

(***************************************************************************)
(* No list grows while Dispatch_Message is on its way along it: a handler  *)
(* of PostLoad, the only one that may register listeners, is in NVSE's     *)
(* list already.                                                           *)
(***************************************************************************)
THEOREM ListsStayStable ==
  ASSUME KeepsProtocol
  PROVE  Spec => ListStableInDispatch
<1>. DEFINE Stable == \A i \in 1 .. Len(stack) : i \in 1 .. Len(stack') =>
                        lists'[stack[i].sender] = lists[stack[i].sender]
<1>1. ASSUME Inv, [Next]_allVars
      PROVE  [Stable]_allVars
  <2>. /\ TypeOK /\ PhaseInv /\ EntriesInv /\ StackInv /\ ListsType
    BY <1>1 DEF Inv
  <2>1. CASE UNCHANGED lists
    BY <2>1
  <2>2. ASSUME NEW p \in Plugins, NEW sender \in 0 .. All, RegisterListener(p, sender)
        PROVE  Stable
    <3>. SUFFICES ASSUME NEW i \in 1 .. Len(stack)
                  PROVE  lists'[stack[i].sender] = lists[stack[i].sender]
      OBVIOUS
    <3>0. Len(stack) \in Nat /\ Len(stack) # 0 /\ stack # <<>>
      BY LenProperties, EmptySeq DEF StackInv
    <3>1. phase = "postLoad" /\ Running = p /\ p # 0
      BY <2>2, <3>0 DEF RegisterListener, KeepsProtocol, PhaseInv
    <3>2. Len(stack) = 1 /\ i = 1
      <4>1. Len(stack) <= 1
        BY <3>1 DEF PhaseInv
      <4>2. Len(stack) = 1
        <5>1. \A k \in Nat : k # 0 /\ k <= 1 => k = 1
          OBVIOUS
        <5>. QED  BY <3>0, <4>1, <5>1
      <4>3. i \in 1 .. 1
        BY <4>2
      <4>. QED  BY <4>2, <4>3
    <3>3. stack[1].sender = 0 /\ stack[1].handler = p
      BY <3>0, <3>1, <3>2 DEF PhaseInv, Running, Last
    <3>4. FrameFits(stack[1]) /\ stack[1] \in FrameType
      BY <3>2 DEF StackInv
    <3>. DEFINE n == stack[1].at
    <3>5. 0 \in DOMAIN lists /\ n \in 1 .. Len(lists[0]) /\ lists[0][n].code = p
      <4>1. 0 \in DOMAIN lists
        BY <3>3, <3>4 DEF FrameFits
      <4>2. Len(lists[0]) \in Nat
        BY <4>1, LenProperties DEF TypeOK
      <4>. QED  BY <3>1, <3>3, <3>4, <4>1, <4>2 DEF FrameFits, FrameType
    <3>6. Has(Old(0), saved[p])
      BY <3>5 DEF EntriesInv, Has, Old
    <3>7. lists'[0] = Old(0)
      <4>1. \E m \in Nat : \A h \in 0 .. m : lists'[h] = Old(h) \/ RegisteredIn(p, h)
        BY <1>1, <2>2, RegisteredLists
      <4>2. \A m \in Nat : 0 \in 0 .. m
        OBVIOUS
      <4>. QED  BY <3>6, <4>1, <4>2 DEF RegisteredIn
    <3>. QED  BY <3>2, <3>3, <3>5, <3>7 DEF Old
  <2>3. CASE Install
    BY <2>1, <2>3 DEF Install, BeginQuery, EndQuery, PostQueryPlugins, StartLoads, BeginLoad,
                      EndLoad, PostLoad, PostPostLoad, Installed, GetPluginHandle
  <2>4. CASE Messages \/ \E p \in Plugins, receiver \in 1 .. All : Dispatch(p, receiver)
    BY <2>1, <2>4 DEF Messages, CallHandler, HandlerReturns, EndDispatch, Dispatch
  <2>5. CASE UNCHANGED allVars
    BY <2>5
  <2>. QED  BY <1>1, <2>2, <2>3, <2>4, <2>5 DEF Next
<1>2. Spec => [][Stable]_allVars
  BY <1>1, InvAlways, PTL DEF Spec
<1>. QED  BY <1>2 DEF ListStableInDispatch
=============================================================================
