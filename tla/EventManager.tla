----------------------------- MODULE EventManager -----------------------------
(***************************************************************************)
(* The event manager (EventManager.cpp, EventManager.h): scripts and       *)
(* plugins set and remove handlers of events, the game and scripts         *)
(* dispatch events, and handlers, while they run, may do all of that.      *)
(*                                                                         *)
(* s_criticalSection is held for a whole dispatch and for a whole Tick, so *)
(* that another thread acts only between them: it may set or remove        *)
(* handlers as the main thread does, and the events it dispatches are      *)
(* deferred to Tick.  A handler that is removed is only marked, and erased *)
(* at the end of the next Tick, because dispatches hold iterators into the *)
(* callbacks and the deferred lists hold references to them.               *)
(*                                                                         *)
(* A callback is a node of the multimap of its event.  Node numbers stand  *)
(* for addresses: the number of an erased node is used again only when     *)
(* nothing refers to it, so that a dangling reference stays visible.       *)
(***************************************************************************)
EXTENDS Integers, FiniteSets, FiniteSetsExt, SequencesExt, Sublists

CONSTANTS Events,
          Classic,      \* events dispatched by HandleEvent, the others raw
          FlushEvents,  \* events with kFlag_FlushOnLoad
          Funcs,        \* scripts and native functions to call
          FlushFuncs,   \* those set with flushOnLoad (SetEventHandlerAlt)
          Args,         \* first arguments of events, which handlers may filter
          Priorities,
          LoadWhileDeferred, \* may a game be loaded while handlers are deferred?
                             \* (the code does not prevent it)
          MaxNodes,     \* bound: callbacks at a time
          MaxDeferred,  \* bound: length of each deferred list
          MaxDepth      \* bound: dispatches within dispatches

Nodes == 1 .. MaxNodes
NoFilter == "none"
EveryPriority == 0      \* kHandlerPriority_Invalid

ASSUME ConstantsAssumption ==
  /\ Classic \subseteq Events /\ FlushEvents \subseteq Events
  /\ FlushFuncs \subseteq Funcs
  /\ LoadWhileDeferred \in BOOLEAN
  /\ Priorities \subseteq Int \ {EveryPriority} /\ NoFilter \notin Args
  /\ MaxNodes \in Nat \ {0} /\ MaxDeferred \in Nat /\ MaxDepth \in Nat \ {0}

VARIABLES
  callbacks,       \* callbacks[e]: the nodes of EventInfo::callbacks, in order
  node,            \* node[n]: [func, filter, prio, removed, pending]
  inUse,           \* s_eventsInUse: the events whose mask is set
  removeList,      \* s_deferredRemoveList: [event, node]
  deferredClassic, \* s_deferredDeprecatedCallbacks: [event, node, arg]
  deferredRaw,     \* s_deferredCallbacksDefault: [event, arg]
  stack,           \* the dispatches under way, the innermost last
  ticking          \* what Tick is at: "no", "classic" or "raw"

lists == <<removeList, deferredClassic, deferredRaw>>
allVars == <<callbacks, node, inUse, lists, stack, ticking>>

-----------------------------------------------------------------------------
Live == UNION {ToSet(callbacks[e]) : e \in Events}

Referred == {removeList[i].node : i \in DOMAIN removeList}
            \cup {deferredClassic[i].node : i \in DOMAIN deferredClassic}
            \cup {stack[i].at : i \in DOMAIN stack}

NoNode == [func |-> "none", filter |-> NoFilter, prio |-> 0,
           removed |-> FALSE, pending |-> FALSE]

\* May the thread at hand run script code: in a handler, or outside Tick.
CanRun == stack # <<>> \/ ticking = "no"
Idle == stack = <<>> /\ ticking = "no"

\* The handlers that a dispatch calls (IsRemoved and the filters).
Matches(n, arg) == ~node[n].removed /\ node[n].filter \in {NoFilter, arg}

\* The first of the nodes that matches, from position i of event e on, or 0.
NextMatch(e, i, arg) ==
  LET M == {j \in i .. Len(callbacks[e]) : Matches(callbacks[e][j], arg)}
  IN  IF M = {} THEN 0 ELSE callbacks[e][Min(M)]

Position(e, n) == CHOOSE i \in DOMAIN callbacks[e] : callbacks[e][i] = n

-----------------------------------------------------------------------------
(* Setting and removing handlers *)

\* An existing handler, at the same priority, that equals the one to set.
Same(e, f, filter, p) ==
  {n \in ToSet(callbacks[e]) :
     node[n].func = f /\ node[n].filter = filter /\ node[n].prio = p}

\* multimap::emplace, greatest priority first: after its equals.
Inserted(e, n, p) ==
  Only(callbacks[e], {m \in Nodes : node[m].prio >= p}) \o <<n>>
    \o Only(callbacks[e], {m \in Nodes : node[m].prio < p})

DoSetHandler(e, f, filter, p) ==
  /\ CanRun
  /\ LET same == Same(e, f, filter, p)
         Free == Nodes \ (Live \cup Referred)
     IN  IF same # {}
         THEN /\ node' = [n \in Nodes |-> IF n \in same
                            THEN [node[n] EXCEPT !.removed = FALSE] ELSE node[n]]
              /\ UNCHANGED <<callbacks, inUse>>
         ELSE /\ Free # {}
              /\ node' = [node EXCEPT ![Min(Free)] =
                           [func |-> f, filter |-> filter, prio |-> p,
                            removed |-> FALSE, pending |-> FALSE]]
              /\ callbacks' = [callbacks EXCEPT ![e] = Inserted(e, Min(Free), p)]
              /\ inUse' = inUse \cup {e}
  /\ UNCHANGED <<lists, stack, ticking>>

\* ShouldRemoveCallback: same function, and the filter is as generic or more.
Doomed(e, f, filter, p) ==
  {n \in ToSet(callbacks[e]) :
     /\ node[n].func = f
     /\ filter \in {NoFilter, node[n].filter}
     /\ p \in {EveryPriority, node[n].prio}}

Listed(e, gone) ==
  LET new == Only(callbacks[e], {n \in gone : ~node[n].pending})
  IN  [i \in DOMAIN new |-> [event |-> e, node |-> new[i]]]

DoRemoveHandler(e, f, filter, p) ==
  /\ CanRun
  /\ LET gone == Doomed(e, f, filter, p) IN
     /\ gone # {}
     /\ node' = [n \in Nodes |-> IF n \in gone
                   THEN [node[n] EXCEPT !.removed = TRUE, !.pending = TRUE]
                   ELSE node[n]]
     /\ removeList' = removeList \o Listed(e, gone)
     /\ stack' = [i \in DOMAIN stack |-> [stack[i] EXCEPT !.owed = @ \ gone]]
  /\ UNCHANGED <<callbacks, inUse, deferredClassic, deferredRaw, ticking>>

-----------------------------------------------------------------------------
(* Dispatching *)

\* A dispatch in which a handler runs: the event, its argument, the node whose
\* handler is running, and the nodes that are still owed a call (those that
\* matched at the start, less those called or removed since).
Frame(e, arg, n, kind) ==
  [event |-> e, arg |-> arg, at |-> n, kind |-> kind,
   owed |-> IF kind = "single" THEN {}
            ELSE {m \in ToSet(callbacks[e]) : Matches(m, arg)} \ {n}]

\* What the stack becomes when a dispatch of e begins: nothing if no handler
\* matches.
Begun(e, arg) ==
  LET first == NextMatch(e, 1, arg) IN
  IF first = 0 THEN stack ELSE Append(stack, Frame(e, arg, first, "all"))

\* HandleEvent or DispatchEventRaw, on the thread that holds the lock.
Dispatch(e, arg) ==
  /\ CanRun /\ Len(stack) < MaxDepth
  /\ Begun(e, arg) # stack
  /\ stack' = Begun(e, arg)
  /\ UNCHANGED <<callbacks, node, inUse, lists, ticking>>

top == Last(stack)

\* Mutant: the loop steps twice, as after erasing the current node.
MutantSkip(f) == NextMatch(f.event, Position(f.event, f.at) + 2, f.arg)

\* The node the loop comes to when the handler of the top frame returns.
NextAfter(f) == NextMatch(f.event, Position(f.event, f.at) + 1, f.arg)

\* A handler returns: the loop goes on to the next node that matches now.
HandlerReturns ==
  /\ stack # <<>>
  /\ IF top.kind = "single" \/ top.at \notin ToSet(callbacks[top.event])
     THEN stack' = Front(stack)
     ELSE LET next == NextAfter(top) IN
          stack' = IF next = 0 THEN Front(stack)
                   ELSE Append(Front(stack),
                               [top EXCEPT !.at = next, !.owed = @ \ {next}])
  /\ UNCHANGED <<callbacks, node, inUse, lists, ticking>>

\* The result callback of the dispatcher tells a raw dispatch to stop.
EarlyBreak ==
  /\ stack # <<>> /\ top.kind = "all" /\ top.event \notin Classic
  /\ stack' = Front(stack)
  /\ UNCHANGED <<callbacks, node, inUse, lists, ticking>>

\* An event on another thread: HandleEvent defers each handler that matches,
\* DispatchEventRaw defers the event.
DispatchElsewhere(e, arg) ==
  /\ Idle
  /\ IF e \in Classic
     THEN LET m == Only(callbacks[e], {n \in Nodes : Matches(n, arg)}) IN
          /\ m # <<>> /\ Len(deferredClassic) + Len(m) <= MaxDeferred
          /\ deferredClassic' = deferredClassic \o
               [i \in DOMAIN m |-> [event |-> e, node |-> m[i], arg |-> arg]]
          /\ UNCHANGED deferredRaw
     ELSE /\ Len(deferredRaw) < MaxDeferred
          /\ deferredRaw' = Append(deferredRaw, [event |-> e, arg |-> arg])
          /\ UNCHANGED deferredClassic
  /\ UNCHANGED <<callbacks, node, inUse, removeList, stack, ticking>>

-----------------------------------------------------------------------------
(* Tick, once per frame, and loading a game *)

\* Mutant: the deferred handler stays on the list.
MutantKeepDeferred ==
  /\ ticking = "classic" /\ stack = <<>> /\ deferredClassic # <<>>
  /\ LET d == Last(deferredClassic) IN
     stack' = IF node[d.node].removed THEN <<>>
              ELSE <<Frame(d.event, d.arg, d.node, "single")>>
  /\ UNCHANGED <<callbacks, node, inUse, lists, ticking>>

\* Stack::Clear unlinks the last one pushed; its destructor calls the handler.
TickClassic ==
  /\ ticking = "classic" /\ stack = <<>> /\ deferredClassic # <<>>
  /\ LET d == Last(deferredClassic) IN
     stack' = IF node[d.node].removed THEN <<>>
              ELSE <<Frame(d.event, d.arg, d.node, "single")>>
  /\ deferredClassic' = Front(deferredClassic)
  /\ UNCHANGED <<callbacks, node, inUse, removeList, deferredRaw, ticking>>

TickClassicDone ==
  /\ ticking = "classic" /\ stack = <<>> /\ deferredClassic = <<>>
  /\ ticking' = "raw"
  /\ UNCHANGED <<callbacks, node, inUse, lists, stack>>

\* deque::clear destroys the first element first; it dispatches the event.
TickRaw ==
  /\ ticking = "raw" /\ stack = <<>> /\ deferredRaw # <<>>
  /\ stack' = Begun(Head(deferredRaw).event, Head(deferredRaw).arg)
  /\ deferredRaw' = Tail(deferredRaw)
  /\ UNCHANGED <<callbacks, node, inUse, removeList, deferredClassic, ticking>>

\* The nodes after erasing all but those in kept, no removal being pending.
NodesKept(kept) ==
  [n \in Nodes |-> IF n \in kept THEN [node[n] EXCEPT !.pending = FALSE]
                   ELSE NoNode]

\* The events in use after erasing nodes: an event left without any is not.
InUseAfter(erased, touched) ==
  inUse \ {e \in touched : ToSet(callbacks[e]) \subseteq erased}

\* ~DeferredRemoveCallback, for each on the list: a node still marked removed
\* is erased, one that was set again is kept.
ErasedByList ==
  {n \in {removeList[i].node : i \in DOMAIN removeList} : node[n].removed}

Without(erased) ==
  [e \in Events |-> Only(callbacks[e], Nodes \ erased)]

\* Mutant: handlers are erased before the deferred events are handled.
MutantEraseFirst ==
  /\ Idle
  /\ ticking' = "classic"
  /\ callbacks' = Without(ErasedByList)
  /\ node' = NodesKept(Live \ ErasedByList)
  /\ inUse' = InUseAfter(ErasedByList, {removeList[i].event : i \in DOMAIN removeList})
  /\ removeList' = <<>>
  /\ UNCHANGED <<deferredClassic, deferredRaw, stack>>

TickBegin ==
  /\ Idle
  /\ ticking' = "classic"
  /\ UNCHANGED <<callbacks, node, inUse, lists, stack>>

TickEnd ==
  /\ ticking = "raw" /\ stack = <<>> /\ deferredRaw = <<>>
  /\ callbacks' = Without(ErasedByList)
  /\ node' = NodesKept(Live \ ErasedByList)
  /\ inUse' = InUseAfter(ErasedByList, {removeList[i].event : i \in DOMAIN removeList})
  /\ removeList' = <<>>
  /\ ticking' = "no"
  /\ UNCHANGED <<deferredClassic, deferredRaw, stack>>

\* The nodes that a loaded game erases beside those on the removal list.
Flushed ==
  {n \in Live : \/ node[n].func \in FlushFuncs
                \/ \E e \in FlushEvents : n \in ToSet(callbacks[e])}

ClearFlushOnLoadEventHandlers ==
  /\ Idle
  /\ deferredClassic = <<>> \/ LoadWhileDeferred
  /\ LET erased == ErasedByList \cup Flushed IN
     /\ callbacks' = Without(erased)
     /\ node' = NodesKept(Live \ erased)
     /\ inUse' = InUseAfter(erased, Events)
  /\ removeList' = <<>>
  /\ UNCHANGED <<deferredClassic, deferredRaw, stack, ticking>>

-----------------------------------------------------------------------------
Init ==
  /\ callbacks = [e \in Events |-> <<>>]
  /\ node = [n \in Nodes |-> NoNode]
  /\ inUse = {}
  /\ removeList = <<>> /\ deferredClassic = <<>> /\ deferredRaw = <<>>
  /\ stack = <<>>
  /\ ticking = "no"

SetOrRemove ==
  \E e \in Events, f \in Funcs, filter \in Args \cup {NoFilter} :
    \/ \E p \in Priorities : DoSetHandler(e, f, filter, p)
    \/ \E p \in Priorities \cup {EveryPriority} : DoRemoveHandler(e, f, filter, p)

Event == \E e \in Events, arg \in Args :
           Dispatch(e, arg) \/ DispatchElsewhere(e, arg)

Tick == TickBegin \/ TickClassic \/ TickClassicDone \/ TickRaw \/ TickEnd

Next == \/ SetOrRemove \/ Event \/ HandlerReturns \/ EarlyBreak \/ Tick
        \/ ClearFlushOnLoadEventHandlers
Spec == Init /\ [][Next]_allVars

\* The main loop ticks whatever events there are; a handler returns once it has
\* made its calls, of which it makes finitely many.
FairSpec == /\ Spec
            /\ SF_allVars(Tick) /\ WF_allVars(HandlerReturns)
            /\ SF_allVars(Len(stack) = 1 /\ HandlerReturns)

-----------------------------------------------------------------------------
(* Properties *)

TypeOK ==
  /\ callbacks \in [Events -> Seq(Nodes)]
  /\ node \in [Nodes -> [func : Funcs \cup {"none"}, filter : Args \cup {NoFilter},
                        prio : Priorities \cup {0}, removed : BOOLEAN,
                        pending : BOOLEAN]]
  /\ inUse \subseteq Events
  /\ removeList \in Seq([event : Events, node : Nodes])
  /\ deferredClassic \in Seq([event : Events, node : Nodes, arg : Args])
  /\ deferredRaw \in Seq([event : Events, arg : Args])
  /\ stack \in Seq([event : Events, arg : Args, at : Nodes, owed : SUBSET Nodes,
                    kind : {"all", "single"}])
  /\ ticking \in {"no", "classic", "raw"}

\* Every iterator and reference that a dispatch, a deferred handler or a
\* pending removal holds is to a callback that has not been erased
\* (DeferredRemoveCallback, DeferredDeprecatedCallback, HandleEvent).
NoDanglingCallback == Referred \subseteq Live

\* A handler marked as removed is listed for erasure, and no handler is listed
\* twice (~DeferredRemoveCallback would erase it twice).
ListedOnce ==
  \A n \in Nodes :
    LET at == {i \in DOMAIN removeList : removeList[i].node = n} IN
    /\ node[n].removed => node[n].pending
    /\ Cardinality(at) = (IF node[n].pending THEN 1 ELSE 0)

\* No event has two equal handlers of one priority ("if an existing handler
\* matches this one exactly, don't duplicate it").
NoDuplicates ==
  \A e \in Events : \A i, j \in DOMAIN callbacks[e] :
    LET h(k) == LET n == node[callbacks[e][k]] IN <<n.func, n.filter, n.prio>>
    IN  h(i) = h(j) => i = j

\* The mask of an event is set exactly while it has callbacks: the hooks of the
\* game do not report events whose mask is clear (s_eventsInUse).
InUseIffHandled == \A e \in Events : e \in inUse <=> callbacks[e] # <<>>

\* The lists of callbacks, of removals and the masks agree with one another,
\* whatever handlers do while events are dispatched.
ListsAgree == TypeOK /\ ListedOnce /\ NoDuplicates /\ InUseIffHandled

\* Nothing refers to an erased callback, and the lists agree.
HandlersSound == NoDanglingCallback /\ ListsAgree

\* A dispatch that ends, unless it is told to stop, has called every handler
\* that matched when it began and was not removed meanwhile, whatever handlers
\* were set, removed or set again by those it called; and it calls them in the
\* order of their priorities, the greatest first (EventManager.h:266), those set
\* meanwhile included.
DispatchComplete ==
  [][HandlerReturns =>
       IF Len(stack') < Len(stack)
       THEN top.owed = {}
       ELSE node[Last(stack').at].prio <= node[top.at].prio]_allVars

\* Every deferred event is handled by some Tick, and every handler that is
\* removed is in time erased or set again.
DeferredAreHandled ==
  []<>(deferredClassic = <<>> /\ deferredRaw = <<>>)
RemovedAreErased == \A n \in Nodes : node[n].removed ~> ~node[n].removed

\* Tick catches up with what other threads defer and what handlers remove,
\* although the handlers it runs may defer and remove more (EventManager::Tick).
TicksCatchUp == DeferredAreHandled /\ RemovedAreErased
=============================================================================
