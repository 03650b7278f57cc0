--------------------------- MODULE MCScriptLoops ---------------------------
(***************************************************************************)
(* Scripts for TLC: every short text over the words that jump, some longer *)
(* ones, and three to be called.                                           *)
(***************************************************************************)
EXTENDS ScriptLoops

Words == {"while", "foreach", "loop", "if", "endif", "break", "continue", "return"}
Short == UNION {[1 .. n -> Words] : n \in 1 .. 5}

Long ==
  { <<"while", "if", "continue", "endif", "foreach", "break", "loop", "loop">>,
    <<"if", "while", "if", "break", "else", "call", "endif", "loop", "endif">>,
    <<"foreach", "edit", "if", "continue", "endif", "loop">>,
    <<"foreach", "foreach", "edit", "loop", "loop">>,
    <<"foreach", "call", "edit", "loop">>,
    <<"while", "label", "if", "goto", "endif", "loop">>,
    <<"label", "if", "while", "loop", "goto", "endif">>,
    <<"if", "label", "endif", "while", "loop", "goto">>,
    <<"begin", "while", "loop", "end", "while", "call", "loop">>,
    <<"if", "begin", "if", "return", "endif", "end", "else", "while", "loop", "endif">> }

Called ==
  { <<"while", "loop">>,
    <<"foreach", "if", "break", "endif", "loop">>,
    <<"while", "foreach", "continue", "loop", "loop">> }

AllTexts == Short \cup Long
============================================================================
