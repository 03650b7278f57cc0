--------------------------- MODULE MCEventManager ---------------------------
(* Small instances of EventManager. *)
EXTENDS EventManager, TLC

CONSTANTS c1, r1, f, g, a

TwoPriorities == {1, 2}
OnePriority == {1}
=============================================================================
