---------------------------- MODULE PluginManager ----------------------------
(***************************************************************************)
(* PluginManager.cpp: how the DLLs of the plugin directory are queried and *)
(* loaded and get their handles, how they register as listeners of each    *)
(* other's messages, and how messages are dispatched.  A plugin runs only  *)
(* inside a call: its Query or Load export, or a message handler, which    *)
(* may register listeners and dispatch further messages.                   *)
(*                                                                         *)
(* Plugins are numbered in directory order and a plugin's number stands    *)
(* for its name.  A handle is a number too: 0 is NVSE, and GetPluginHandle *)
(* counts plugins as they are queried or loaded.                           *)
(***************************************************************************)
EXTENDS Integers, FiniteSets, SequencesExt

CONSTANTS N,           \* number of DLLs in the plugin directory
          Fates,       \* what may become of one: see Fate
          HandleFrom,  \* the exports in which plugins call GetPluginHandle
          RegisterIn,  \* the phases in which plugins register listeners
          DispatchIn,  \* the phases in which plugins dispatch messages
          MaxDepth     \* bound: dispatches within dispatches

Plugins == 1 .. N
NVSE == 0
All == N + 1             \* a NULL sender: every plugin
Fate == {"notPlugin", "queryFails", "loadFails", "loads"}
Phases == {"query", "postQuery", "load", "postLoad", "postPostLoad", "run"}

ASSUME ConstantsAssumption ==
  /\ N \in Nat \ {0} /\ MaxDepth \in Nat \ {0}
  /\ Fates \subseteq Fate /\ HandleFrom \subseteq {"query", "load"}
  /\ RegisterIn \subseteq Phases /\ DispatchIn \subseteq Phases

VARIABLES
  fate,      \* fate[p]: how plugin p turns out, unknown to the manager
  phase,
  cursor,    \* the plugin whose turn it is
  inCall,    \* the plugin whose Query or Load is running, or 0
  index,     \* InstallPlugins: number of plugins counted so far
  loading,   \* s_currentLoadingPlugin, or 0
  queried,   \* those whose Query succeeded and that are compatible
  plugins,   \* m_plugins
  saved,     \* saved[p]: the handle that p keeps, or 0
  lists,     \* s_pluginListeners: lists[h], from 0
  stack,     \* the dispatches under way, the innermost last
  asked      \* asked[p]: senders that p was told it listens to

install == <<phase, cursor, inCall, index, loading, queried, plugins>>
allVars == <<fate, install, saved, lists, stack, asked>>

-----------------------------------------------------------------------------

GetNumPlugins == Len(plugins) + (IF loading # 0 THEN 1 ELSE 0)

Loaded == ToSet(plugins)

\* LookupHandleFromName: the position in m_plugins, or -1.
LookupHandleFromName(name) ==
  CASE name = NVSE -> 0
    [] name \in Loaded -> CHOOSE h \in 1 .. Len(plugins) : plugins[h] = name
    [] OTHER -> -1

\* The plugin whose code is running.
Running == IF stack # <<>> THEN Last(stack).handler ELSE inCall

\* The DLLs that failed are freed when all have been loaded (~PluginLoadState): a
\* call that goes into one of them is the end of the program.
Settled == phase \in {"postLoad", "postPostLoad", "run"}
Freed(p) == Settled /\ p \notin Loaded

-----------------------------------------------------------------------------
(* InstallPlugins *)

Start(sender, from, target) ==
  [sender |-> sender, from |-> from, target |-> target, at |-> 1, handler |-> 0]

\* Dispatch_Message does nothing if the sender has no list.
Broadcast == IF lists = <<>> THEN <<>> ELSE <<Start(0, NVSE, -1)>>

BeginQuery ==
  /\ phase = "query" /\ inCall = 0 /\ cursor <= N
  /\ index' = cursor /\ loading' = cursor
  /\ IF fate[cursor] = "notPlugin"
     THEN cursor' = cursor + 1 /\ UNCHANGED inCall
     ELSE inCall' = cursor /\ UNCHANGED cursor
  /\ UNCHANGED <<fate, phase, queried, plugins, saved, lists, stack, asked>>

EndQuery ==
  /\ phase = "query" /\ inCall # 0
  /\ queried' = IF fate[inCall] = "queryFails" THEN queried
                ELSE queried \cup {inCall}
  /\ inCall' = 0 /\ cursor' = cursor + 1
  /\ UNCHANGED <<fate, phase, index, loading, plugins, saved, lists, stack,
                 asked>>

PostQueryPlugins ==
  /\ phase = "query" /\ cursor > N
  /\ phase' = "postQuery" /\ stack' = Broadcast
  /\ UNCHANGED <<fate, cursor, inCall, index, loading, queried, plugins, saved,
                 lists, asked>>

StartLoads ==
  /\ phase = "postQuery" /\ stack = <<>>
  /\ phase' = "load" /\ cursor' = 1 /\ index' = 0
  /\ UNCHANGED <<fate, inCall, loading, queried, plugins, saved, lists, stack,
                 asked>>

\* Mutant: every plugin queried is counted, failed or not.
MutantCountAll ==
  /\ phase = "load" /\ inCall = 0 /\ cursor <= N
  /\ index' = index + 1
  /\ IF cursor \in queried
     THEN inCall' = cursor /\ loading' = cursor /\ UNCHANGED cursor
     ELSE cursor' = cursor + 1 /\ UNCHANGED <<inCall, loading>>
  /\ UNCHANGED <<fate, phase, queried, plugins, saved, lists, stack, asked>>

BeginLoad ==
  /\ phase = "load" /\ inCall = 0 /\ cursor <= N
  /\ IF cursor \in queried
     THEN /\ index' = index + 1
          /\ inCall' = cursor /\ loading' = cursor
          /\ UNCHANGED cursor
     ELSE cursor' = cursor + 1 /\ UNCHANGED <<index, inCall, loading>>
  /\ UNCHANGED <<fate, phase, queried, plugins, saved, lists, stack, asked>>

EndLoad ==
  /\ phase = "load" /\ inCall # 0
  /\ plugins' = IF fate[inCall] = "loads" THEN Append(plugins, inCall)
                ELSE plugins
  /\ inCall' = 0 /\ cursor' = cursor + 1
  /\ UNCHANGED <<fate, phase, index, loading, queried, saved, lists, stack,
                 asked>>

\* The DLLs that failed are freed, and then listeners are told.
PostLoad ==
  /\ phase = "load" /\ cursor > N
  /\ phase' = "postLoad" /\ loading' = 0 /\ stack' = Broadcast
  /\ UNCHANGED <<fate, cursor, inCall, index, queried, plugins, saved, lists,
                 asked>>

PostPostLoad ==
  /\ phase = "postLoad" /\ stack = <<>>
  /\ phase' = "postPostLoad" /\ stack' = Broadcast
  /\ UNCHANGED <<fate, cursor, inCall, index, loading, queried, plugins, saved,
                 lists, asked>>

Installed ==
  /\ phase = "postPostLoad" /\ stack = <<>>
  /\ phase' = "run"
  /\ UNCHANGED <<fate, cursor, inCall, index, loading, queried, plugins, saved,
                 lists, stack, asked>>

\* s_currentPluginHandle is index all along both passes.
GetPluginHandle ==
  /\ inCall # 0 /\ phase \in HandleFrom
  /\ saved' = [saved EXCEPT ![inCall] = index]
  /\ UNCHANGED <<fate, install, lists, stack, asked>>

-----------------------------------------------------------------------------
(* RegisterListener *)

Has(list, listener) == \E i \in 1 .. Len(list) : list[i].listener = listener

\* s_pluginListeners.resize(numPlugins + 5) when it has become too short.
Resized ==
  LET size == Cardinality(DOMAIN lists)
      needed == GetNumPlugins + 1
  IN  IF size >= needed THEN lists
      ELSE [h \in 0 .. needed + 4 |-> IF h < size THEN lists[h] ELSE <<>>]

\* Mutant: a listener may be registered twice with the same sender.
MutantTwice(ls, target, entry) ==
  [ls EXCEPT ![target] = Append(@, entry)]

RegisteredWith(ls, target, entry) ==
  IF Has(ls[target], entry.listener) THEN ls
  ELSE [ls EXCEPT ![target] = Append(@, entry)]

\* The loop for a NULL sender.  idx counts the lists passed, but is not
\* incremented for a list that already has the listener.
RegisteredWithAll(ls, entry) ==
  LET skip(h, i) == i \notin {0, entry.listener} /\ Has(ls[h], entry.listener)
      idx[h \in DOMAIN ls] ==
        IF h = 0 THEN 0
        ELSE idx[h - 1] + (IF skip(h - 1, idx[h - 1]) THEN 0 ELSE 1)
  IN  [h \in DOMAIN ls |->
         IF idx[h] \in {0, entry.listener} \/ Has(ls[h], entry.listener)
         THEN ls[h] ELSE Append(ls[h], entry)]

\* Does RegisterListener return true for plugin p and this sender?
Accepted(p, sender) ==
  /\ saved[p] <= GetNumPlugins
  /\ sender # All => LookupHandleFromName(sender) # -1

RegisterListener(p, sender) ==
  /\ Running = p /\ p # 0 /\ ~Freed(p) /\ saved[p] # 0 /\ phase \in RegisterIn
  /\ LET ls == Resized
         entry == [listener |-> saved[p], code |-> p]
     IN  IF ~Accepted(p, sender)
         THEN lists' = ls /\ UNCHANGED asked
         ELSE /\ lists' = IF sender = All THEN RegisteredWithAll(ls, entry)
                          ELSE RegisteredWith(ls, LookupHandleFromName(sender), entry)
              /\ asked' = [asked EXCEPT ![p] = @ \cup {sender}]
  /\ UNCHANGED <<fate, install, saved, stack>>

-----------------------------------------------------------------------------
(* Dispatch_Message *)

\* A plugin sends a message to all its listeners or to the one named: from
\* inside a handler, or, once the game runs, from one of its own hooks.
Dispatch(p, receiver) ==
  /\ phase \in DispatchIn /\ saved[p] # 0 /\ p \in Loaded
  /\ Running = p \/ (phase = "run" /\ stack = <<>>)
  /\ Len(stack) < MaxDepth
  /\ saved[p] \in DOMAIN lists /\ saved[p] <= Len(plugins)
  /\ receiver # All => receiver \in Loaded
  /\ stack' = Append(stack, Start(saved[p], p,
                IF receiver = All THEN -1 ELSE LookupHandleFromName(receiver)))
  /\ UNCHANGED <<fate, install, saved, lists, asked>>

top == Last(stack)
SetTop(frame) == stack' = [stack EXCEPT ![Len(stack)] = frame]
AtEnd == top.at > Len(lists[top.sender])

\* The next listener is called, or passed over if the message is not for it.
CallHandler ==
  /\ stack # <<>> /\ top.handler = 0 /\ ~AtEnd
  /\ LET entry == lists[top.sender][top.at] IN
     IF top.target \in {-1, entry.listener}
     THEN SetTop([top EXCEPT !.handler = entry.code])
     ELSE SetTop([top EXCEPT !.at = @ + 1])
  /\ UNCHANGED <<fate, install, saved, lists, asked>>

\* A handler returns; a message for one listener has then been delivered.
HandlerReturns ==
  /\ stack # <<>> /\ top.handler # 0 /\ ~Freed(top.handler)
  /\ IF top.target = -1
     THEN SetTop([top EXCEPT !.handler = 0, !.at = @ + 1])
     ELSE stack' = Front(stack)
  /\ UNCHANGED <<fate, install, saved, lists, asked>>

EndDispatch ==
  /\ stack # <<>> /\ top.handler = 0 /\ AtEnd
  /\ stack' = Front(stack)
  /\ UNCHANGED <<fate, install, saved, lists, asked>>

-----------------------------------------------------------------------------
Init ==
  /\ fate \in [Plugins -> Fates]
  /\ phase = "query" /\ cursor = 1 /\ inCall = 0 /\ index = 0 /\ loading = 0
  /\ queried = {} /\ plugins = <<>>
  /\ saved = [p \in Plugins |-> 0]
  /\ lists = <<>> /\ stack = <<>>
  /\ asked = [p \in Plugins |-> {}]

Install == \/ BeginQuery \/ EndQuery \/ PostQueryPlugins \/ StartLoads
           \/ BeginLoad \/ EndLoad \/ PostLoad \/ PostPostLoad \/ Installed
           \/ GetPluginHandle

Messages == CallHandler \/ HandlerReturns \/ EndDispatch

Next == \/ Install
        \/ Messages
        \/ \E p \in Plugins, sender \in 0 .. All : RegisterListener(p, sender)
        \/ \E p \in Plugins, receiver \in 1 .. All : Dispatch(p, receiver)

Spec == Init /\ [][Next]_allVars

-----------------------------------------------------------------------------
(* Properties *)

Entry == [listener : Plugins, code : Plugins]

TypeOK ==
  /\ fate \in [Plugins -> Fates] /\ phase \in Phases
  /\ cursor \in 1 .. N + 1 /\ inCall \in 0 .. N /\ index \in 0 .. N
  /\ loading \in 0 .. N /\ queried \subseteq Plugins
  /\ plugins \in Seq(Plugins) /\ Len(plugins) <= N
  /\ saved \in [Plugins -> 0 .. N]
  /\ \A h \in DOMAIN lists : lists[h] \in Seq(Entry)
  /\ Len(stack) <= MaxDepth
  /\ asked \in [Plugins -> SUBSET (0 .. All)]

\* Those before p whose Load failed.
FailedBefore(p) == {q \in queried : q < p /\ fate[q] = "loadFails"}

\* PluginAPI.h:68: GetPluginHandle returns "a PluginHandle uniquely
\* identifying your plugin": the handle a loaded plugin keeps is its own, and is
\* the one under which NVSE looks it up if no Load before it failed; otherwise it
\* is further on by the number of those that did.
HandlesIdentify ==
  Settled => \A p \in Loaded : saved[p] # 0 =>
    \E h \in 1 .. Len(plugins) :
       plugins[h] = p /\ saved[p] = h + Cardinality(FailedBefore(p))

\* PluginAPI.h:152: RegisterListener "returns false if the specified plugin is
\* not loaded, true otherwise": NVSE, which is always there, is never refused.
NVSEAccepts ==
  \A p \in Plugins :
    Running = p /\ phase \in RegisterIn /\ saved[p] # 0 => Accepted(p, NVSE)

\* A plugin that was told it listens to a sender by name is in that sender's
\* list, with its own handler (RegisterListener, LookupHandleFromName).
AcceptedListen ==
  Settled => \A p \in Loaded : \A s \in asked[p] \cap ({NVSE} \cup Loaded) :
    \E i \in 1 .. Len(lists[LookupHandleFromName(s)]) :
      lists[LookupHandleFromName(s)][i].code = p

\* A handler is only called with messages of a sender that its plugin asked to
\* hear, the sender being the plugin that really dispatched (Dispatch_Message).
HeardOnlyAsked ==
  \A i \in 1 .. Len(stack) : stack[i].handler # 0 =>
    asked[stack[i].handler] \cap {stack[i].from, All} # {}

\* PluginAPI.h:149: "one callback for each plugin" from which a plugin wishes
\* to receive messages: no message reaches a plugin twice.
OneCallbackPerSender ==
  \A h \in DOMAIN lists : \A i, j \in 1 .. Len(lists[h]) :
    lists[h][i].code = lists[h][j].code => i = j

\* What a plugin asked for is what it hears: who was told it listens is in the list,
\* and nobody is called twice; as long as no Load failed, NVSE is never refused and
\* nobody is called who did not ask (RegisterListener, Dispatch_Message).
NoneFailed == FailedBefore(cursor) = {}
ListenersHearOnce ==
  /\ TypeOK /\ AcceptedListen /\ OneCallbackPerSender
  /\ NoneFailed => NVSEAccepts /\ HeardOnlyAsked

\* Once plugins are installed, every handler that a message may reach is in a
\* plugin that is loaded (PostLoad: "sent to registered plugins once all plugins
\* have been loaded"), or it was registered in a Load that failed afterwards: those
\* are never taken out, and are in a DLL that was freed.
HandlersAreLoaded ==
  Settled => \A h \in DOMAIN lists : \A i \in 1 .. Len(lists[h]) :
    lists[h][i].code \in Loaded \cup FailedBefore(All)

\* Whoever is known by a handle, or called by a message, is a plugin that is there,
\* or else it is exactly what failed Loads have displaced or left.
PluginsAnswer == HandlesIdentify /\ HandlersAreLoaded

\* No listener is added to a list while a message is on its way along it: the
\* loop of Dispatch_Message holds an iterator into it.
ListStableInDispatch ==
  [][\A i \in 1 .. Len(stack) : i \in 1 .. Len(stack') =>
       lists'[stack[i].sender] = lists[stack[i].sender]]_allVars
=============================================================================
