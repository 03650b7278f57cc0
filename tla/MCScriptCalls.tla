---------------------------- MODULE MCScriptCalls ----------------------------
(***************************************************************************)
(* A function and a script, each the home of the lambdas in turn; the       *)
(* first lambda calls the second.                                          *)
(***************************************************************************)
EXTENDS ScriptCalls, TLC

CONSTANTS F, S, A, B, h1, h2

TheHomes == {[l \in {A, B} |-> F], [l \in {A, B} |-> S]}
TheRefs  == (A :> {B}) @@ (B :> {})
NoRefs   == [l \in {A, B} |-> {}]
Alike    == Permutations(Holders)

=============================================================================
