--------------------------- MODULE InstanceRecords ---------------------------
(***************************************************************************)
(* What pNVSE keeps of its weapons and instances in a saved game           *)
(* (nvse_plugin_example/L2_Save.cpp and L1_Load.cpp).                      *)
(*                                                                         *)
(* The writer and the reader share no table of the layout: the reader must *)
(* consume exactly the fields the writer wrote, whether it restores them   *)
(* or, since a kit or a form is no longer installed, skips them.  A field  *)
(* is a kind and a value; Read demands the kind that was written and Skip  *)
(* the number of bytes, so a reader out of step is noticed at once.        *)
(*                                                                         *)
(* A form is a pair: <<b, Base>> is the base form b (or a location) and    *)
(* <<b, n>> the clone of instance n of b.  Extended type 40 is a weapon,   *)
(* 222 a pair of weapons ("akimbo").  Left out: policies, traits, the      *)
(* cell test of OnUnload, and references that are containers themselves.   *)
(***************************************************************************)
EXTENDS Integers, FiniteSets, SequencesExt, FiniteSetsExt

CONSTANTS
  Weapons,      \* base forms of extended type 40
  Dynamic,      \* those created by a kit: saved by editor ID, not by form ID
  Unmarked,     \* those that no kit marks as a static form: they have no instances
  Pairs,        \* akimbo sets
  Sides,        \* the left and the right weapon of each pair
  Kits,
  Places,       \* cells and containers
  ExtraLists,   \* lists of extra data, as sequences of their types
  InstanceMods, \* may an attachment be an instance itself?
  MaxInstances, MaxRefs, \* bounds, each and
  MaxThings,             \* together
  MaxSaves, MaxLoads

VARIABLES
  session,   \* what this run of the game has installed
  insts,     \* aInstances of every base: <<base, InstID>> -> kit, attachment
  refs,      \* references of the world and entries of containers
  first,     \* bases whose first instance of this session is still to come
  disk,      \* the record of the saved game
  saved,     \* history: what the game held when disk was written
  rev,       \* reverseKitDataMap: kit index of the file -> kit
  replacement, \* InstanceLoadManager::replacement
  loaded     \* outcome of the last load; loads of this session, saves so far

vars == <<session, insts, refs, first, disk, saved, rev, replacement, loaded>>

(* A pair with a side made by a kit may miss the queue: queueToSave answers
   false for a form that is queued already (queueToSaveRefDirect). *)
ASSUME VanillaSides == \A p \in Pairs : {Sides[p].left, Sides[p].right} \subseteq Weapons \ Dynamic

Bases == Weapons \cup Pairs
Base  == -1
None  == <<>>
ExtendedType(b) == IF b \in Pairs THEN 222 ELSE 40

Indexes == 0 .. Cardinality(Kits) - 1

(* A kit gets its index from the load order, and there may be others. *)
KitTables == {k \in UNION {[K -> Indexes] : K \in SUBSET Kits} : IsInjective(k)}

Installed == [b \in Bases |-> IF b \in Unmarked THEN "form" ELSE "static"]

Complete(s) == DOMAIN s.kits = Kits /\ s.bases = Installed /\ s.places = Places

(* What may be installed the next time: other kits, or, of all the rest, one thing
   less.  A weapon form is gone, or is there but no longer marked as a static form;
   a pair is known to AkimboSets or not. *)
Sessions ==
  {[session EXCEPT !.kits = k] : k \in KitTables}
  \cup {[session EXCEPT !.bases[b] = "gone"] : b \in Bases}
  \cup {[session EXCEPT !.bases[b] = "form"] : b \in Weapons}
  \cup {[session EXCEPT !.places = @ \ {p}] : p \in Places}

NothingLoaded == [ok |-> TRUE, count |-> 0, saves |-> 0, refused |-> {}]

Init ==
  /\ session \in [kits : KitTables, bases : {Installed}, places : {Places}]
  /\ Complete(session)
  /\ insts = <<>> /\ refs = {} /\ first = Bases
  /\ disk = <<>> /\ saved = [insts |-> <<>>, refs |-> {}]
  /\ rev = <<>> /\ replacement = None
  /\ loaded = NothingLoaded
-----------------------------------------------------------------------------
(* Playing. *)

Room == Cardinality(DOMAIN insts) + Cardinality(refs) < MaxThings

(* InstanceVector::add takes the first free slot.  The constructor's
   parameter hides the member of the same name, so it is the base whose
   lifecycle becomes Recycle: the first instance of a session is saved
   wherever it is, later ones only while something refers to them. *)
NewInstance(b, k) ==
  LET id == CHOOSE n \in 0 .. MaxInstances : /\ <<b, n>> \notin DOMAIN insts
                                             /\ \A m \in 0 .. n - 1 : <<b, m>> \in DOMAIN insts
  IN  /\ Cardinality(DOMAIN insts) < MaxInstances /\ Room
      /\ session.bases[b] = "static" /\ k \in DOMAIN session.kits
      /\ insts' = insts @@ (<<b, id>> :> [kit |-> k, mod |-> None, recycle |-> b \notin first])
      /\ first' = first \ {b}
      /\ UNCHANGED <<session, refs, disk, saved, rev, replacement, loaded>>

(* AttachWeaponMod: a plain item mod of the game, or the clone of another
   instance. *)
PlainMod == <<"mod", Base>>

Attach(i, m) ==
  /\ i[1] \in Weapons /\ insts[i].mod = None
  /\ m = PlainMod \/ (InstanceMods /\ m \in DOMAIN insts \ {i})
  /\ insts' = [insts EXCEPT ![i].mod = m]
  /\ UNCHANGED <<session, refs, first, disk, saved, rev, replacement, loaded>>

(* Instance::destroy; what an attachment names stays. *)
Destroy(i) ==
  /\ insts' = [j \in DOMAIN insts \ {i} |-> insts[j]]
  /\ refs' = {r \in refs : r.of # i}
  /\ UNCHANGED <<session, first, disk, saved, rev, replacement, loaded>>

(* A reference in a cell or an entry of a container, of an instance or of a
   kit's own base form. *)
Loose == {<<b, Base>> : b \in {d \in Dynamic : session.bases[d] = "static"}}

Place(f, world, place, extra) ==
  /\ Cardinality(refs) < MaxRefs /\ Room
  /\ refs' = refs \cup {[of |-> f, world |-> world, place |-> place, extra |-> extra]}
  /\ UNCHANGED <<session, insts, first, disk, saved, rev, replacement, loaded>>
-----------------------------------------------------------------------------
(* Saving. *)

Field(kind, value) == [kind |-> kind, value |-> value]

Width(kind) ==
  CASE kind \in {"count", "index", "kit", "type", "form", "float"} -> 4
    [] kind \in {"instance", "half"} -> 2
    [] kind \in {"link", "ref", "extra", "byte"} -> 1

(* InstanceSaveManager::SaveExtraData: the data that follows each type. *)
ExtraField(t) ==
  CASE t = "ownership" -> <<"form">>  [] t = "count" -> <<"half">>
    [] t \in {"health", "time"} -> <<"float">>
    [] t = "hotkey" -> <<"byte">>     [] t = "worn" -> <<>>

SavedExtra(list) ==
  FlattenSeq([n \in DOMAIN list |->
     <<Field("extra", list[n])>> \o [m \in DOMAIN ExtraField(list[n]) |-> Field(ExtraField(list[n])[m], 0)]])
  \o <<Field("extra", "end")>>

(* GetSaveIndex: constructing a SaveDataLink queues a base that is not yet
   among the locations, behind the ones already written. *)
SaveIndex(b, locations) ==
  IF \E n \in DOMAIN locations : locations[n] = b
  THEN (CHOOSE n \in DOMAIN locations : locations[n] = b) - 1
  ELSE Len(locations)

(* InstanceSaveManager::SaveLink for a base form, an instance, a place. *)
SavedLink(f, locations) ==
  LET named == IF f[1] \in Dynamic THEN Field("index", SaveIndex(f[1], locations))
                                   ELSE Field("form", f[1])
      kind  == (IF f[2] = Base THEN 2 ELSE 5) + (IF f[1] \notin Dynamic THEN 0 ELSE IF f[2] = Base THEN 2 ELSE 1)
  IN  <<Field("link", kind), named>> \o (IF f[2] = Base THEN <<>> ELSE <<Field("instance", f[2])>>)

SavedPlace(p) == <<Field("link", 1), Field("form", p)>>

(* SaveBase; for a pair, the right weapon and then the left one. *)
SavedBase(b, locations) ==
  IF b \in Pairs THEN SavedLink(<<Sides[b].right, Base>>, locations) \o SavedLink(<<Sides[b].left, Base>>, locations)
                 ELSE SavedLink(<<b, Base>>, locations)

(* Save of an Instance_WEAP: the size of the map of attachments, then each
   attachment that is still a form. *)
SavedMods(i, locations) ==
  LET m == insts[i].mod
  IN  IF m = None THEN <<Field("count", 0)>>
      ELSE <<Field("count", 1), Field("name", "slot")>>
           \o (IF m = PlainMod \/ m \in DOMAIN insts THEN SavedLink(m, locations) ELSE <<>>)

(* Save of an Instance_Akimbo: both weapons and their extra data. *)
SavedSides(i, locations) ==
  SavedLink(<<Sides[i[1]].right, Base>>, locations) \o SavedLink(<<Sides[i[1]].left, Base>>, locations)
  \o SavedExtra(<<>>) \o SavedExtra(<<"health">>)

SavedInstance(i, locations) ==
  <<Field("instance", i[2]), Field("name", "key"), Field("byte", 0), Field("float", 0)>>
  \o IF i[1] \in Pairs THEN SavedSides(i, locations) ELSE SavedMods(i, locations)

SavedRef(r) ==
  <<Field("ref", IF r.world THEN 2 ELSE 1)>> \o SavedPlace(r.place) \o SavedExtra(r.extra) \o <<Field("count", 1)>>
  \o IF r.world THEN <<Field("form", r.place)>> \o [n \in 1 .. 6 |-> Field("float", 0)] ELSE <<>>

SavedRefs(f) ==
  LET list == SetToSeq({r \in refs : r.of = f})
  IN  <<Field("count", Len(list))>> \o FlattenSeq([n \in DOMAIN list |-> SavedRef(list[n])])

(* The queue: instances something refers to, those not to be recycled, and
   what is attached to them; bases of instances without their own turn. *)
Queued ==
  LET direct == {i \in DOMAIN insts : ~insts[i].recycle \/ \E r \in refs : r.of = i}
  IN  direct \cup ({insts[i].mod : i \in direct} \cap DOMAIN insts)

QueuedBases == {i[1] : i \in Queued}
LooseBases  == {r.of[1] : r \in {s \in refs : s.of[2] = Base}}

(* Mutant: only references to a base form queue it, not those to its instances. *)
MutantQueuedLocations == SetToSeq(LooseBases)

(* queueToSaveRef queues the base of what it saves a reference to. *)
QueuedLocations == SetToSeq({r.of[1] : r \in refs} \cap Dynamic)

(* One base of the list: itself, its instances with their references and, for
   a vanilla type, the references to the base. *)
SavedGroup(b, locations) ==
  LET list == SetToSeq({i \in Queued : i[1] = b})
  IN  SavedBase(b, locations) \o <<Field("count", Len(list))>>
      \o FlattenSeq([n \in DOMAIN list |->
           <<Field("kit", session.kits[insts[list[n]].kit])>> \o SavedInstance(list[n], locations) \o SavedRefs(list[n])])
      \o IF b \in Pairs THEN <<>> ELSE SavedRefs(<<b, Base>>)

(* InstanceSaveManager::saveAll; order is the order of the hash table. *)
SavedGame(order) ==
  LET locations == QueuedLocations
      kits  == SetToSeq(DOMAIN session.kits)
      of(t) == SelectSeq(order, LAMBDA b : ExtendedType(b) = t)
      types == SelectSeq(<<40, 222>>, LAMBDA t : of(t) # <<>>)
      loose == SetToSeq(LooseBases \ QueuedBases)
  IN  <<Field("count", Len(kits))>>
      \o FlattenSeq([n \in DOMAIN kits |-> <<Field("name", kits[n]), Field("kit", session.kits[kits[n]]), Field("count", 0), Field("byte", 0)>>])
      \o <<Field("count", Len(locations))>>
      \o FlattenSeq([n \in DOMAIN locations |-> <<Field("name", locations[n]), Field("byte", 40)>>])
      \o <<Field("count", Len(types))>>
      \o FlattenSeq([n \in DOMAIN types |->
           <<Field("type", types[n]), Field("count", Len(of(types[n])))>>
           \o FlattenSeq([m \in DOMAIN of(types[n]) |-> SavedGroup(of(types[n])[m], locations)])])
      \o <<Field("count", Len(loose))>>
      \o FlattenSeq([n \in DOMAIN loose |->
           <<Field("type", 40)>> \o SavedBase(loose[n], locations) \o SavedRefs(<<loose[n], Base>>)])

(* SaveGameCallback, after the game has passed its references through the
   queue: entries of base forms leave their containers for good, those of
   instances are put back by RestoreEntryRefs. *)
Save(order) ==
  /\ loaded.saves < MaxSaves
  /\ disk' = SavedGame(order)
  /\ saved' = [insts |-> [i \in Queued |-> insts[i]], refs |-> {r \in refs : r.of[2] = Base \/ r.of \in Queued}]
  /\ refs' = {r \in refs : r.world \/ r.of[2] # Base}
  /\ loaded' = [loaded EXCEPT !.saves = @ + 1]
  /\ UNCHANGED <<session, insts, first, rev, replacement>>

(* The game is left and started again, with other kits, plugins and places.
   Bounded to one such change, before the save is loaded. *)
Restart(s) ==
  /\ disk # <<>> /\ Complete(session) /\ loaded.count = 0
  /\ session' = s
  /\ insts' = <<>> /\ refs' = {} /\ first' = Bases
  /\ rev' = <<>> /\ replacement' = None
  /\ loaded' = [NothingLoaded EXCEPT !.saves = loaded.saves]
  /\ UNCHANGED <<disk, saved>>
-----------------------------------------------------------------------------
(* Loading.  A reader takes the state of InstanceLoadManager and returns the
   state after it; once out of step, or gone through a null pointer, it stays
   there. *)

(* Mutant: the map of kits starts out with the kits of this session. *)
MutantReader == [pos |-> 1, ok |-> TRUE, value |-> 0, link |-> None, base |-> None, extra |-> <<>>,
           locations |-> <<>>, insts |-> <<>>, made |-> None, refs |-> <<>>,
           rev |-> [n \in Range(session.kits) |-> CHOOSE k \in DOMAIN session.kits : session.kits[k] = n],
           repl |-> replacement]

Reader == [pos |-> 1, ok |-> TRUE, value |-> 0, link |-> None, base |-> None, extra |-> <<>>,
           locations |-> <<>>, insts |-> <<>>, made |-> None, refs |-> <<>>,
           rev |-> rev, repl |-> replacement]

Failed(r) == [r EXCEPT !.ok = FALSE]

Read(r, kind) ==
  IF r.ok /\ r.pos <= Len(disk) /\ disk[r.pos].kind = kind
  THEN [r EXCEPT !.pos = @ + 1, !.value = disk[r.pos].value]
  ELSE Failed(r)

ReadAll(r, kinds) == FoldLeft(Read, r, kinds)

(* SkipNBytes. *)
Bytes(from, n) ==
  FoldLeft(LAMBDA sum, m : IF disk[m].kind = "name" THEN 1000 ELSE sum + Width(disk[m].kind), 0,
           [k \in 1 .. n |-> from + k - 1])

Skip(r, bytes) ==
  LET ends == {n \in 0 .. 9 : r.pos + n - 1 <= Len(disk) /\ Bytes(r.pos, n) = bytes}
  IN  IF r.ok /\ ends # {} THEN [r EXCEPT !.pos = @ + Min(ends)] ELSE Failed(r)

Then(r, Step(_)) == IF r.ok THEN Step(r) ELSE r

(* A count and that many entries. *)
Repeat(r, Step(_)) ==
  Then(Read(r, "count"), LAMBDA c : FoldLeft(LAMBDA s, n : Then(s, Step), c, [n \in 1 .. c.value |-> n]))

(* LoadLink and LoadLink_Skip.  The parent of a link is a form, or a place in
   the table of locations. *)
Parent(r, type) ==
  IF type \in {1, 2, 5} THEN r.value
  ELSE IF r.value + 1 \in DOMAIN r.locations THEN r.locations[r.value + 1] ELSE None

LoadLink(r) ==
  Then(Read(r, "link"), LAMBDA t :
    Then(Read(t, IF t.value \in {1, 2, 5} THEN "form" ELSE "index"), LAMBDA a :
      IF t.value \in {5, 6}
      THEN Then(Read(a, "instance"), LAMBDA i : [i EXCEPT !.link = <<t.value, Parent(a, t.value), i.value>>])
      ELSE [a EXCEPT !.link = <<t.value, Parent(a, t.value), Base>>]))

SkipLink(r) ==
  Then(Read(r, "link"), LAMBDA t :
    Skip(t, CASE t.value \in {1, 2, 4} -> 4 [] t.value = 3 -> 8 [] t.value \in {5, 6} -> 6))

(* deduceLinkToForm: the form, None, or a null pointer followed. *)
Null == <<"null pointer">>

Exists(x) == x \in session.places \/ x = "mod" \/ (x \in Weapons /\ session.bases[x] # "gone")

FormOf(link, r) ==
  IF link[1] \in {1, 2} THEN IF Exists(link[2]) THEN <<link[2], Base>> ELSE None
  ELSE IF link[1] = 4 THEN IF link[2] = None THEN None ELSE <<link[2], Base>>
  ELSE IF link[1] = 5 /\ ~Exists(link[2]) THEN None
  ELSE IF link[2] # None /\ <<link[2], link[3]>> \in DOMAIN r.insts THEN <<link[2], link[3]>> ELSE Null

(* LoadExtraDataList and LoadExtraDataList_Skip read to the end mark. *)
ExtraItem(r, Item(_, _)) ==
  IF r.value = "end" THEN r
  ELSE Then(Read(r, "extra"), LAMBDA t : IF t.value # "end" THEN Item(t, t.value) ELSE t)

ExtraItems(r, Item(_, _)) ==
  FoldLeft(LAMBDA s, n : Then(s, LAMBDA x : ExtraItem(x, Item)), [r EXCEPT !.value = "start", !.extra = <<>>],
           [n \in 1 .. 4 |-> n])

LoadExtra(r) ==
  ExtraItems(r, LAMBDA t, x : [ReadAll(t, ExtraField(x)) EXCEPT !.value = x, !.extra = Append(@, x)])

ExtraBytes(t) ==
  CASE t \in {"ownership", "health", "time"} -> 4 [] t = "count" -> 2 [] t = "hotkey" -> 1 [] t = "worn" -> 0

SkipExtra(r) == ExtraItems(r, LAMBDA t, x : Skip(t, ExtraBytes(x)))

(* LoadStatic, LoadStaticAkimbo: the base, or None; a form that is there but
   no longer marked becomes the replacement.  LookupAkimboSet wants the left
   weapon first. *)
BaseOrReplacement(r, f) ==
  IF f # None /\ session.bases[f[1]] = "static" THEN [r EXCEPT !.base = f[1]]
  ELSE [r EXCEPT !.base = None, !.repl = f]

LoadStatic(r) == Then(LoadLink(r), LAMBDA l : BaseOrReplacement(l, FormOf(l.link, l)))

AkimboSet(left, right) ==
  LET sets == {p \in Pairs : session.bases[p] = "static" /\ Sides[p] = [left |-> left[1], right |-> right[1]]}
  IN  IF sets = {} THEN None ELSE CHOOSE p \in sets : TRUE

PairOrReplacement(r, right, left) ==
  IF right # None /\ left # None THEN [r EXCEPT !.base = AkimboSet(right, left)]
  ELSE [r EXCEPT !.base = None, !.repl = IF right # None THEN right ELSE IF left # None THEN left ELSE @]

LoadStaticAkimbo(r) ==
  Then(LoadLink(r), LAMBDA one :
    Then(LoadLink(one), LAMBDA two : PairOrReplacement(two, FormOf(one.link, two), FormOf(two.link, two))))

LoadBase(r, type) == IF type = 222 THEN LoadStaticAkimbo(r) ELSE LoadStatic(r)

(* LoadInstanceDataWEAP: insertAt under the InstID of the file, attachments,
   and the reconstruct scripts, which may refuse the instance. *)
Attached(r, i, f) ==
  IF f = None THEN r ELSE IF f = Null THEN Failed(r) ELSE [r EXCEPT !.insts[i].mod = f]

LoadMod(r, i) == Then(LoadLink(Read(r, "name")), LAMBDA l : Attached(l, i, FormOf(l.link, l)))

Inserted(r, i, kit) == [r EXCEPT !.insts = (i :> [kit |-> kit, mod |-> None, recycle |-> TRUE]) @@ @]

Made(r, i, refused) ==
  IF i \in refused THEN [r EXCEPT !.made = None, !.insts = [j \in DOMAIN @ \ {i} |-> @[j]]]
  ELSE [r EXCEPT !.made = i]

LoadWeapon(r, b, kit, refused) ==
  Then(Read(r, "instance"), LAMBDA n :
    Then(ReadAll(n, <<"name", "byte", "float">>), LAMBDA h :
      Then(Repeat(Inserted(h, <<b, n.value>>, kit), LAMBDA s : LoadMod(s, <<b, n.value>>)), LAMBDA m :
        Made(m, <<b, n.value>>, refused))))

SkipWeapon(r) ==
  Repeat(Skip(Read(Skip(r, 2), "name"), 5), LAMBDA s : SkipLink(Read(s, "name")))

(* LoadInstanceDataAkimbo. *)
LoadAkimbo(r, b, kit) ==
  Then(Read(r, "instance"), LAMBDA n :
    Then(LoadLink(ReadAll(n, <<"name", "byte", "float">>)), LAMBDA right :
      Then(LoadLink(right), LAMBDA left :
        Then(LoadExtra(LoadExtra(left)), LAMBDA e :
          IF FormOf(right.link, e) # None /\ FormOf(left.link, e) # None
          THEN [Inserted(e, <<b, n.value>>, kit) EXCEPT !.made = <<b, n.value>>]
          ELSE [e EXCEPT !.made = None]))))

SkipAkimbo(r) ==
  SkipExtra(SkipExtra(SkipLink(SkipLink(Skip(Read(Skip(r, 2), "name"), 5)))))

(* LoadRefsList and LoadRefsList_Skip. *)
LoadRef(r, f) ==
  Then(Read(r, "ref"), LAMBDA t :
    Then(LoadLink(t), LAMBDA l :
      Then(LoadExtra(l), LAMBDA x :
        Then(ReadAll(x, <<"count">> \o IF t.value = 2 THEN <<"form">> \o [n \in 1 .. 6 |-> "float"] ELSE <<>>),
             LAMBDA w : [w EXCEPT !.refs = Append(@, [of |-> f, world |-> t.value = 2,
                                                      link |-> l.link, extra |-> x.extra])]))))

LoadRefs(r, f) == Repeat(r, LAMBDA s : LoadRef(s, f))

(* Mutant: a float fewer is skipped than a world reference has. *)
MutantSkipRef(r) ==
  Then(Read(r, "ref"), LAMBDA t : Skip(SkipExtra(SkipLink(t)), IF t.value = 1 THEN 4 ELSE 4 * 7))

SkipRef(r) ==
  Then(Read(r, "ref"), LAMBDA t : Skip(SkipExtra(SkipLink(t)), IF t.value = 1 THEN 4 ELSE 4 * 8))

SkipRefs(r) == Repeat(r, SkipRef)

(* References of a base that is gone go to the replacement, once. *)
ReplaceRefs(r) ==
  IF r.repl # None THEN [LoadRefs(r, r.repl) EXCEPT !.repl = None] ELSE SkipRefs(r)

(* loadAll: an instance of the list, resolveModIndex deciding whether its kit
   is still there. *)
Loaded(r, b, type, refused, kit) ==
  Then(IF type = 222 THEN LoadAkimbo(r, b, kit) ELSE LoadWeapon(r, b, kit, refused), LAMBDA i :
    IF i.made = None /\ type > 120 THEN SkipRefs(i)
    ELSE LoadRefs(i, IF i.made # None THEN i.made ELSE <<b, Base>>))

SkipData(r, type) == IF type = 222 THEN SkipAkimbo(r) ELSE SkipWeapon(r)

LoadInstance(r, b, type, refused) ==
  Then(Read(r, "kit"), LAMBDA k :
    IF k.value \in DOMAIN k.rev THEN Loaded(k, b, type, refused, k.rev[k.value])
    ELSE SkipRefs(SkipData(k, type)))

SkipInstance(r, type) == Then(Skip(r, 4), LAMBDA k : Then(SkipData(k, type), ReplaceRefs))

LoadGroup(r, type, refused) ==
  Then(LoadBase(r, type), LAMBDA b :
    Then(Repeat(b, LAMBDA s : IF b.base # None THEN LoadInstance(s, b.base, type, refused) ELSE SkipInstance(s, type)),
         LAMBDA list :
           IF type > 120 THEN list
           ELSE IF b.base # None THEN LoadRefs(list, <<b.base, Base>>) ELSE ReplaceRefs(list)))

LoadType(r, refused) ==
  Then(Read(r, "type"), LAMBDA t : Repeat(t, LAMBDA s : LoadGroup(s, t.value, refused)))

LoadLoose(r) ==
  Then(LoadBase(Read(r, "type"), 40), LAMBDA b :
    IF b.base # None THEN LoadRefs(b, <<b.base, Base>>) ELSE SkipRefs(b))

(* LoadKitData and LoadStaticLocations. *)
LoadKit(r) ==
  Then(Read(r, "name"), LAMBDA n :
    Then(Read(n, "kit"), LAMBDA i :
      Then(ReadAll(i, <<"count", "byte">>), LAMBDA e :
        IF n.value \in DOMAIN session.kits THEN [e EXCEPT !.rev = (i.value :> n.value) @@ @] ELSE e)))

LoadLocation(r) ==
  Then(Read(r, "name"), LAMBDA n :
    Then(Read(n, "byte"), LAMBDA t :
      [t EXCEPT !.locations = Append(@, IF Exists(n.value) THEN n.value ELSE None)]))

LoadAll(refused) ==
  Then(Repeat(Reader, LoadKit), LAMBDA kits :
    Then(Repeat(kits, LoadLocation), LAMBDA bases :
      Then(Repeat(bases, LAMBDA t : LoadType(t, refused)), LAMBDA lists :
        Repeat(lists, LoadLoose))))

(* PlaceWorldRefs passes over a place that is gone, PlaceEntryRefs returns at
   the first. *)
There(x) == Exists(x.link[2])
Entries(r) == SelectSeq(r.refs, LAMBDA x : ~x.world)
Placed(r) ==
  {[of |-> x.of, world |-> x.world, place |-> x.link[2], extra |-> x.extra] :
     x \in {y \in Range(r.refs) : y.world /\ There(y)}
           \cup UNION {Range(p) : p \in {q \in Prefixes(Entries(r)) : \A n \in DOMAIN q : There(q[n])}}}

(* LoadGameCallback. *)
Load(refused) ==
  /\ disk # <<>> /\ loaded.count < MaxLoads
  /\ \E r \in {LoadAll(refused)} :
         /\ insts' = r.insts /\ refs' = Placed(r)
         /\ rev' = r.rev /\ replacement' = r.repl
         /\ loaded' = [loaded EXCEPT !.ok = r.ok /\ r.pos = Len(disk) + 1, !.count = @ + 1, !.refused = refused]
  /\ UNCHANGED <<session, first, disk, saved>>
-----------------------------------------------------------------------------
Playing == loaded.saves < MaxSaves

Next ==
  \/ Playing /\ \E b \in Bases, k \in Kits : NewInstance(b, k)
  \/ Playing /\ \E i \in DOMAIN insts : \E m \in {PlainMod} \cup DOMAIN insts : Attach(i, m)
  \/ Playing /\ \E i \in DOMAIN insts : Destroy(i)
  \/ Playing /\ \E f \in DOMAIN insts \cup Loose, w \in BOOLEAN, p \in Places, x \in ExtraLists : Place(f, w, p, x)
  \/ \E order \in SetToSeqs(QueuedBases) : Save(order)
  \/ \E s \in Sessions : Restart(s)
  \/ \E refused \in SUBSET {i \in DOMAIN saved.insts : i[1] \in Weapons} : Load(refused)

Spec == Init /\ [][Next]_vars
-----------------------------------------------------------------------------
(* The reader consumes exactly the fields the writer wrote, whatever has been
   installed or removed since, and follows no null pointer.  There is no
   length to resynchronise on: one field too many or too few and everything
   behind it is garbage. *)
InStep == loaded.ok

KitThere(i) == saved.insts[i].kit \in DOMAIN session.kits

(* A base the reader finds: still installed, that of a kit with its location in
   the file (something refers to it or to an instance of it), and a pair with
   the same weapon on both sides, since it is looked up the wrong way round. *)
Found(b) ==
  /\ session.bases[b] = "static"
  /\ b \in Dynamic => \E r \in saved.refs : r.of[1] = b
  /\ b \in Pairs => Sides[b].left = Sides[b].right /\ session.bases[Sides[b].left] # "gone"

Kept == {i \in DOMAIN saved.insts : KitThere(i) /\ Found(i[1]) /\ i \notin loaded.refused}

(* A place that is gone takes what is there with it, and a container that is
   gone may take the entries of other containers. *)
InPlace(r) == IF r.world THEN r.place \in session.places
              ELSE \A e \in saved.refs : ~e.world => e.place \in session.places

(* What was saved is back after a load if the reader finds its base and its kit
   is there: instances with their number, kit and attachment, and every reference
   in its place, that of an instance its reconstruct script refused with the base
   form. *)
Everything ==
  /\ \A i \in Kept : /\ i \in DOMAIN insts
                     /\ insts[i].kit = saved.insts[i].kit /\ insts[i].mod = saved.insts[i].mod
  /\ \A r \in {s \in saved.refs : InPlace(s)} :
       LET b == r.of[1] IN
       /\ r.of \in Kept \/ (r.of[2] = Base /\ Found(b)) => r \in refs
       /\ r.of[2] # Base /\ r.of \in loaded.refused /\ KitThere(r.of) /\ Found(b)
             => [r EXCEPT !.of = <<b, Base>>] \in refs

Loads == loaded'.count > loaded.count

Restored == [][Loads => Everything']_vars

(* The first load of a session restores nothing that was not saved: an
   instance belongs to the kit it was saved with, and a reference was saved
   at its place for the same base, or for one it replaces. *)
Faithful ==
  /\ \A i \in DOMAIN insts : i \in DOMAIN saved.insts /\ insts[i].kit = saved.insts[i].kit
  /\ \A r \in refs : \E q \in saved.refs :
       /\ q.place = r.place /\ q.extra = r.extra /\ q.world = r.world
       /\ \/ q.of[1] = r.of[1]
          \/ q.of[1] \in Pairs /\ r.of[1] \in {Sides[q.of[1]].left, Sides[q.of[1]].right}

NothingInvented == [][Loads /\ loaded'.count = 1 => Faithful']_vars
=============================================================================
