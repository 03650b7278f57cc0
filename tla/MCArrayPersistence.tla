-------------------------- MODULE MCArrayPersistence --------------------------
EXTENDS ArrayPersistence, TLC

CONSTANTS v1, v2, c1, k1

RoundNumbers == {0}
TwoMods == {1, 2}
OneOfEach == v1 :> 1 @@ v2 :> 2
==============================================================================
