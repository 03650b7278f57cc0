---------------------------- MODULE MCStringVars ----------------------------
(***************************************************************************)
(* Two mods with a variable each, which are alike: what one may do with    *)
(* its own the other may do too.                                           *)
(***************************************************************************)
EXTENDS StringVars

CONSTANTS A, B, x, y

TwoVariables == x :> A @@ y :> B
Alike == {p \in Permutations({A, B, x, y}) :
            \A v \in {x, y} : p[v] \in {x, y} /\ p[TwoVariables[v]] = TwoVariables[p[v]]}
============================================================================
