------------------------------ MODULE MCMainLoop ------------------------------
EXTENDS MainLoop

GameOrAlways == {{"game"}, {"game", "menu", "paused"}}
==============================================================================
