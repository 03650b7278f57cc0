------------------------------- MODULE MainLoop -------------------------------
(***************************************************************************)
(* A frame of the main thread (HandleMainLoopHook, Hooks_Gameplay.cpp),    *)
(* the six lists of delayed calls it works through (Commands_Script.cpp),  *)
(* and another thread on which scripts run as well.                        *)
(*                                                                         *)
(* In every frame the main thread runs the events deferred by the other    *)
(* thread (EventManager::Tick, with s_criticalSection held), deletes the   *)
(* arrays nobody refers to, advances the clock, and visits each list with  *)
(* the lock of that list held, while the scripts it calls may schedule     *)
(* further calls.  The other thread schedules calls and dispatches events, *)
(* which are deferred so that no handler runs on it.                       *)
(*                                                                         *)
(* Times are counted in frames and kept as what is left of them: the code  *)
(* compares g_gameSecondsPassed, which grows by one here, with the time it *)
(* stored, and adds the length of a frame to that time when the call is    *)
(* not to run in it.                                                       *)
(***************************************************************************)
EXTENDS Integers, FiniteSets, SequencesExt

CONSTANTS Calls,        \* nodes of the lists
          MaxDelay,     \* bound: the longest delay
          Delays,       \* delays, intervals and frame counts that scripts ask for
          ActiveSets,   \* sets of modes in which a call may run (ShouldRun)
          MaxDeferred,  \* bound: deferred events
          MaxNew        \* bound: calls that scripts schedule in one frame

Modes == {"game", "menu", "paused"}     \* a pause is a menu mode too
NoCall == "none"

\* The lists in the order of their visit.
Order == <<"while", "when", "after", "for", "every", "frames">>
Lists == Range(Order)
Conditional == {"while", "when", "every"}
Timed == {"after", "for", "every"}

ASSUME ConstantsAssumption ==
  /\ MaxDelay \in Nat /\ Delays \subseteq 0 .. MaxDelay
  /\ ActiveSets \subseteq SUBSET Modes
  /\ NoCall \notin Calls
  /\ MaxDeferred \in Nat /\ MaxNew \in Nat

VARIABLES
  stage,      \* of the main thread: "scripts" (of the game), "tick", "clean",
              \* "clock", or the list it visits
  mode,       \* the mode of the frame
  list,       \* list[k]: the calls of list k
  info,       \* info[c]: [delay, left, active] of call c; and, as a history,
              \* served: the visits at which it was allowed to run
  at,         \* the call the loop over the list is at, or NoCall before the loop
  doing,      \* what the loop does: "visit", or a script that runs: "cond", "call"
  handling,   \* the handler of a deferred event runs
  deferred,   \* the argument arrays of the deferred events: "temp" or "freed"
  wantsEvents,\* a script of the main thread waits for s_criticalSection
  other,      \* the other thread: "idle", "handler" (it holds s_criticalSection)
              \* or the list whose lock it waits for
  budget      \* calls that scripts may still schedule in this frame

frame == <<stage, mode, at, doing, handling>>
lists == <<list, info, budget>>
allVars == <<frame, lists, deferred, wantsEvents, other>>

-----------------------------------------------------------------------------
(* Locks: a list is locked while it is visited, the event manager while     *)
(* Tick runs or a handler runs on the other thread.                         *)

MainHolds(k) == stage = k /\ at # NoCall
MainHoldsEvents == stage = "tick"
OtherHoldsEvents == other \notin {"idle"}

\* Scripts run on the main thread, and none of them waits.
ScriptRuns == /\ ~wantsEvents
              /\ stage = "scripts" \/ handling \/ doing # "visit"

Scheduled == UNION {ToSet(list[k]) : k \in Lists}

NoInfo == [delay |-> 0, left |-> 0, active |-> {}, served |-> 0]

ShouldRun(c) == mode \in info[c].active

-----------------------------------------------------------------------------
Init == /\ stage = "scripts" /\ mode = "game"
        /\ list = [k \in Lists |-> <<>>]
        /\ info = [c \in Calls |-> NoInfo]
        /\ at = NoCall /\ doing = "visit" /\ handling = FALSE
        /\ deferred = <<>>
        /\ wantsEvents = FALSE
        /\ other = "idle"
        /\ budget = MaxNew

-----------------------------------------------------------------------------
(* What scripts do *)

Appended(k, c) == [list EXCEPT ![k] = Append(@, c)]

\* ExtractCallAfterInfo, ExtractCallWhileInfo, ExtractDelayedCallWhileInfo
AddInfo(k, d, active) ==
  LET c == CHOOSE n \in Calls : n \notin Scheduled IN
  /\ budget > 0 /\ budget' = budget - 1
  /\ Calls \ Scheduled # {}
  /\ list' = Appended(k, c)
  /\ info' = [info EXCEPT ![c] = [delay |-> d, left |-> d, active |-> active,
                                served |-> 0]]

\* Its own locks do not stop a thread, and the other one holds no list's lock.
Schedule(k, d, active) ==
  /\ ScriptRuns
  /\ AddInfo(k, d, active)
  /\ UNCHANGED <<frame, deferred, wantsEvents, other>>

\* A script sets a handler or dispatches an event: it needs s_criticalSection.
\* (When it is that of a delayed call, the lock of its list is held: it may wait
\* for a handler on the other thread that waits for that list, for ever.)
WantEvents == /\ ScriptRuns
              /\ wantsEvents' = TRUE
              /\ UNCHANGED <<frame, lists, deferred, other>>

UseEvents == /\ wantsEvents
             /\ ~OtherHoldsEvents
             /\ wantsEvents' = FALSE
             /\ UNCHANGED <<frame, lists, deferred, other>>

ScheduleElsewhere(k, d, active) ==
  /\ other = "idle"
  /\ ~MainHolds(k)
  /\ AddInfo(k, d, active)
  /\ UNCHANGED <<frame, deferred, wantsEvents, other>>

\* DispatchUserDefinedEvent and HandleEvent on the other thread.  The event is
\* deferred with the ID of an array of arguments to which nothing refers.
DispatchElsewhere ==
  /\ other = "idle"
  /\ ~MainHoldsEvents
  /\ Len(deferred) < MaxDeferred
  /\ deferred' = Append(deferred, "temp")
  /\ UNCHANGED <<frame, lists, wantsEvents, other>>

\* DispatchEventAlt does not defer: its handlers run on the other thread.
DispatchAltElsewhere ==
  /\ other = "idle"
  /\ ~MainHoldsEvents
  /\ other' = "handler"
  /\ UNCHANGED <<frame, lists, deferred, wantsEvents>>

\* In a handler on the other thread: a call is scheduled; the handler returns.
WantList(k) == /\ other = "handler"
               /\ other' = k
               /\ UNCHANGED <<frame, lists, deferred, wantsEvents>>

\* It gets the lock and adds its call, if the bounds leave room for it.
HandlerSchedules(k, d, active) ==
  /\ other = k
  /\ ~MainHolds(k)
  /\ other' = "handler"
  /\ \/ AddInfo(k, d, active)
     \/ (budget = 0 \/ Calls = Scheduled) /\ UNCHANGED lists
  /\ UNCHANGED <<frame, deferred, wantsEvents>>

HandlerEndsElsewhere == /\ other = "handler"
                        /\ other' = "idle"
                        /\ UNCHANGED <<frame, lists, deferred, wantsEvents>>

-----------------------------------------------------------------------------
(* The frame *)

TickBegin == /\ stage = "scripts" /\ ~wantsEvents
             /\ ~OtherHoldsEvents
             /\ stage' = "tick"
             /\ UNCHANGED <<mode, at, doing, handling, lists, deferred, wantsEvents, other>>

\* Stack::Clear: the last one deferred comes first.
TickHandle == /\ stage = "tick" /\ ~handling
              /\ deferred # <<>>
              /\ deferred' = Front(deferred)
              /\ handling' = TRUE
              /\ UNCHANGED <<stage, mode, at, doing, lists, wantsEvents, other>>

HandlerReturns == /\ handling /\ ~wantsEvents
                  /\ handling' = FALSE
                  /\ UNCHANGED <<stage, mode, at, doing, lists, deferred, wantsEvents, other>>

TickEnd == /\ stage = "tick" /\ ~handling
           /\ deferred = <<>>
           /\ stage' = "clean"
           /\ UNCHANGED <<mode, at, doing, handling, lists, deferred, wantsEvents, other>>

\* g_ArrayMap.Clean
Clean == /\ stage = "clean"
         /\ deferred' = [i \in DOMAIN deferred |-> "freed"]
         /\ stage' = "clock"
         /\ UNCHANGED <<mode, at, doing, handling, lists, wantsEvents, other>>

\* g_gameSecondsPassed grows, which leaves less time for every timed call.
Clock(m) ==
  LET InTime == UNION {ToSet(list[k]) : k \in Timed} IN
  /\ stage = "clock"
  /\ mode' = m
  /\ info' = [c \in Calls |-> IF c \in InTime THEN [info[c] EXCEPT !.left = @ - 1]
                              ELSE info[c]]
  /\ stage' = Order[1]
  /\ budget' = MaxNew
  /\ UNCHANGED <<at, doing, handling, list, deferred, wantsEvents, other>>

NextStage(k) == IF k = Last(Order) THEN "scripts"
                ELSE Order[1 + CHOOSE i \in DOMAIN Order : Order[i] = k]

\* The list is empty (looked at without its lock), or the loop begins.
EnterList(k) ==
  /\ stage = k /\ at = NoCall
  /\ IF list[k] = <<>> THEN stage' = NextStage(k) /\ UNCHANGED at
     ELSE at' = Head(list[k]) /\ UNCHANGED stage
  /\ UNCHANGED <<mode, doing, handling, lists, deferred, wantsEvents, other>>

\* The loop goes on to the call after the current one, if one is there now.
Position(k) == CHOOSE i \in DOMAIN list[k] : list[k][i] = at
Following(k) == IF Position(k) = Len(list[k]) THEN NoCall ELSE list[k][Position(k) + 1]

StepTo(k) == /\ at' = Following(k)
             /\ stage' = IF Following(k) = NoCall THEN NextStage(k) ELSE k
             /\ doing' = "visit"

\* The loop goes on, runs a script, or erases the call and goes on; i is what
\* is known of the call now.
GoOn(k, i) == /\ StepTo(k)
              /\ info' = [info EXCEPT ![at] = i]
              /\ UNCHANGED list

Run(what, i) == /\ doing' = what
                /\ info' = [info EXCEPT ![at] = i]
                /\ UNCHANGED <<stage, at, list>>

\* Mutant: the iterator stays on the node that is erased.
MutantErase(k) == /\ list' = [list EXCEPT ![k] = RemoveAt(@, Position(k))]
                  /\ info' = [info EXCEPT ![at] = NoInfo]
                  /\ doing' = "visit"
                  /\ UNCHANGED <<at, stage>>

Erase(k) == /\ StepTo(k)
            /\ list' = [list EXCEPT ![k] = RemoveAt(@, Position(k))]
            /\ info' = [info EXCEPT ![at] = NoInfo]

\* Mutant: no time is given back for a frame in which the call may not run.
MutantLeft(k) == IF k = "frames" /\ ShouldRun(at) THEN info[at].left - 1
                 ELSE info[at].left

\* What is left of the delay after this visit.
Left(k) == CASE k \in Timed /\ ~ShouldRun(at) -> info[at].left + 1
             [] k = "frames" /\ ShouldRun(at) -> info[at].left - 1
             [] OTHER -> info[at].left

Visited(k) ==
  [info[at] EXCEPT !.left = Left(k),
                   !.served = IF ShouldRun(at) /\ k \in {"after", "frames"}
                              THEN Min({@ + 1, MaxDelay + 2}) ELSE @]

\* HandleCallWhileScripts and the others: what the loop does with one call.
\* CallForSeconds runs its script in every mode.
Visit(k) ==
  LET i == Visited(k)
      active == ShouldRun(at)
      due == i.left <= 0
  IN
  /\ stage = k /\ at # NoCall /\ doing = "visit"
  /\ \/ k \in {"while", "when"} /\ IF active THEN Run("cond", i) ELSE GoOn(k, i)
     \/ k = "every" /\ IF active /\ due THEN Run("cond", i) ELSE GoOn(k, i)
     \/ k = "after" /\ IF due THEN Run("call", i) ELSE GoOn(k, i)
     \/ k = "frames" /\ IF active /\ due THEN Run("call", i) ELSE GoOn(k, i)
     \/ k = "for" /\ IF due THEN Erase(k) ELSE Run("call", i)
  /\ UNCHANGED <<mode, handling, budget, deferred, wantsEvents, other>>

\* The condition script returns: only CallWhen keeps a call that failed it.
ConditionReturns(k, met) ==
  /\ stage = k /\ doing = "cond" /\ ~wantsEvents
  /\ IF met THEN Run("call", info[at])
     ELSE IF k = "when" THEN GoOn(k, info[at]) ELSE Erase(k)
  /\ UNCHANGED <<mode, handling, budget, deferred, wantsEvents, other>>

Once == {"when", "after", "frames"}

CallReturns(k) ==
  /\ stage = k /\ doing = "call" /\ ~wantsEvents
  /\ IF k \in Once THEN Erase(k)
     ELSE GoOn(k, IF k = "every" THEN [info[at] EXCEPT !.left = info[at].delay]
                  ELSE info[at])
  /\ UNCHANGED <<mode, handling, budget, deferred, wantsEvents, other>>

\* PreLoad and NewGame: ClearDelayedCalls, without any lock, between frames.
ClearDelayedCalls == /\ stage = "scripts" /\ ~wantsEvents
                     /\ list' = [k \in Lists |-> <<>>]
                     /\ info' = [c \in Calls |-> NoInfo]
                     /\ UNCHANGED <<frame, budget, deferred, wantsEvents, other>>

-----------------------------------------------------------------------------
Frame == \/ TickBegin \/ TickHandle \/ HandlerReturns \/ TickEnd \/ Clean
         \/ \E m \in Modes : Clock(m)
         \/ \E k \in Lists : EnterList(k) \/ Visit(k) \/ CallReturns(k)
                             \/ \E met \in BOOLEAN : ConditionReturns(k, met)

Scripts == \/ \E k \in Lists, d \in Delays, active \in ActiveSets :
                \/ Schedule(k, d, active)
                \/ ScheduleElsewhere(k, d, active)
                \/ HandlerSchedules(k, d, active)
           \/ WantEvents
           \/ UseEvents
           \/ DispatchElsewhere
           \/ DispatchAltElsewhere
           \/ \E k \in Lists : WantList(k)
           \/ HandlerEndsElsewhere
           \/ ClearDelayedCalls

Next == Frame \/ Scripts

Spec == Init /\ [][Next]_allVars

-----------------------------------------------------------------------------
(***************************************************************************)
(* The call that the loop is at is in the list it visits, and no call is   *)
(* in two places: scripts called from the loop, and the other thread, may  *)
(* append calls but never move the ground under its iterator.              *)
(***************************************************************************)
IteratorsValid ==
  /\ at # NoCall => at \in ToSet(list[stage])
  /\ \A k, l \in Lists : k # l => ToSet(list[k]) \cap ToSet(list[l]) = {}
  /\ \A k \in Lists : IsInjective(list[k])

(***************************************************************************)
(* A script called after some seconds, or frames, runs when it has been    *)
(* allowed to run for that long: frames in menus do not count when it is   *)
(* not to run there, and no call is more than one frame late.  (One frame  *)
(* late is a call scheduled while the lists are visited, in a menu.)       *)
(***************************************************************************)
TimelyCalls ==
  /\ \A c \in ToSet(list["after"]) : info[c].served <= info[c].delay + 1
  /\ \A c \in ToSet(list["frames"]) : info[c].served <= Max({info[c].delay, 1})
  /\ doing = "call" /\ stage \in {"after", "frames"} => info[at].served >= info[at].delay

(***************************************************************************)
(* A script runs only in the modes its call allows                         *)
(* (Commands_Script.h:317), but for a call without delay.                  *)
(***************************************************************************)
RunsOnlyWhenAllowed == doing = "call" /\ info[at].delay > 0 => ShouldRun(at)

(***************************************************************************)
(* The arguments of a deferred event still exist when its handlers run:    *)
(* arrays are cleaned after the deferred events (Hooks_Gameplay.cpp:595).  *)
(***************************************************************************)
DeferredArgumentsExist == stage = "tick" => \A i \in DOMAIN deferred : deferred[i] # "freed"
==============================================================================
