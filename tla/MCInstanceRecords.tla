--------------------------- MODULE MCInstanceRecords ---------------------------
EXTENDS InstanceRecords

CONSTANTS w1, w2, w3, p1, p2

OneAlikeOneNot == p1 :> [left |-> w1, right |-> w1] @@ p2 :> [left |-> w1, right |-> w3]
Alike  == Permutations(Kits) \cup Permutations(Places)
Extras    == {<<"worn", "count", "ownership">>}
================================================================================
