------------------------------- MODULE MCFold -------------------------------
(* Small instances of the fold.  With a truncation step of 4, rounds of 2,  *)
(* 6 and 10 reasoning tokens are truncated in tiers 1, 2 and 3.             *)
EXTENDS Fold

U(i, o, r) == [input |-> i, output |-> o, reasoning |-> r]

\* Truncated in the window, truncated above it, and whole.
MCUsages == {U(5, 3, 2), U(1, 7, 6), U(2, 9, 5)}

MCTruncated == {U(5, 3, 2)}

=============================================================================
