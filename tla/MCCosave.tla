------------------------------ MODULE MCCosave ------------------------------
(* Small instances of Cosave. *)
EXTENDS Cosave, TLC

CONSTANTS p1, p2

\* p1 sometimes only saves, p2 sometimes registers nothing.
MayRegisterLess ==
  [p \in Plugins |-> IF p = p1 THEN {Kinds, {"save"}} ELSE {Kinds, {}}]
=============================================================================
