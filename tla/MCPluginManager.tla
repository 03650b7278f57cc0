-------------------------- MODULE MCPluginManager --------------------------
(* Small instances of PluginManager. *)
EXTENDS PluginManager, TLC

AnyFate == Fate
NoLoadFails == Fate \ {"loadFails"}

OnLoad == {"load"}

\* The protocol of PluginAPI.h: listeners are registered while plugins load and
\* in the handler of PostLoad, and messages are sent from PostPostLoad on.
RegisterEarly == {"load", "postLoad"}
DispatchLate == {"postPostLoad", "run"}
Never == {}
=============================================================================
