--------------------------- MODULE TokenCoverage ---------------------------
(***************************************************************************)
(* What NodeParser promises, whatever the comment holds: it gives each     *)
(* token to exactly one node, from left to right, never takes a node back, *)
(* and finishes only when no token is left.  (TestHelpers' token coverage  *)
(* checker tests this on its samples.)                                     *)
(***************************************************************************)
EXTENDS Integers, Sequences

VARIABLES
  length,       \* how many tokens there are
  spans,        \* the <<first, after last>> of each node so far
  finished

vars == <<length, spans, finished>>

Covered(s) == IF s = <<>> THEN 0 ELSE s[Len(s)][2]

\* The spans follow one another from "from" on, and none is empty.
Tile(s, from) ==
  \A k \in 1 .. Len(s) :
    /\ s[k][1] < s[k][2]
    /\ s[k][1] = IF k = 1 THEN from ELSE s[k - 1][2]

Init ==
  /\ length \in Nat
  /\ spans = <<>>
  /\ finished = FALSE

\* Append nodes (none of them is empty) for the next tokens
Extend ==
  /\ Len(spans') >= Len(spans)
  /\ \A k \in 1 .. Len(spans) : spans'[k] = spans[k]
  /\ Tile(spans', 0)
  /\ Covered(spans') <= length
  /\ length' = length

Place == ~finished /\ Extend /\ finished' = FALSE
Finish == ~finished /\ Extend /\ Covered(spans') = length /\ finished' = TRUE

Next == Place \/ Finish

Spec == Init /\ [][Next]_vars
=============================================================================
