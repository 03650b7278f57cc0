------------------------------- MODULE Sublists -------------------------------
(***************************************************************************)
(* What a loop over a list leaves that takes some of its elements: it is   *)
(* SelectSeq for a set, written as a recursive function so that facts of   *)
(* it can be proved (DataLemmas).                                          *)
(***************************************************************************)
EXTENDS Integers, Sequences

\* The elements of s that are in S, in their order.
Only(s, S) ==
  LET upTo[i \in 0 .. Len(s)] ==
        IF i = 0 THEN <<>>
        ELSE IF s[i] \in S THEN Append(upTo[i - 1], s[i]) ELSE upTo[i - 1]
  IN  upTo[Len(s)]
===============================================================================
