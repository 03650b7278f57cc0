---------------------------- MODULE MCArrayVarMap ----------------------------
(* Small instances of ArrayVarMap: one mod, and two mods that share arrays. *)
EXTENDS ArrayVarMap, TLC

CONSTANTS v1, v2, c1, k1

OneMod == {1}
ModOfOne == [v \in {v1, v2} |-> 1]

TwoMods == {1, 2}
ModOfTwo == (v1 :> 1) @@ (v2 :> 2)

\* Numbers such as 0, 1.0 and 0.5, whose low 32 bits are zero.
RoundNumbers == {0}
\* Numbers whose low 32 bits happen to be a small integer.
AnyNumber == {0, 1}
==============================================================================
