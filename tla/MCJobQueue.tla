----------------------------- MODULE MCJobQueue -----------------------------
(* Instances of JobQueue for TLC *)
EXTENDS JobQueue, TLC

CONSTANTS j1, j2, w1, w2, k1, known, unknown

MCTokens == 1..4
MCBudgets == {1, 2}
MCOneBudget == {2}
MCSymmetry == Permutations({j1, j2}) \cup Permutations({w1, w2})
=============================================================================
