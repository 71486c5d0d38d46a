------------------------- MODULE MCInboundDispatch -------------------------
(* Instances of InboundDispatch for TLC *)
EXTENDS InboundDispatch, TLC

CONSTANTS j1, w1, w2, k1, known, safe, unsafe

MCTokens == 1..4
MCBudgets == {2}
MCOneAttempt == {1}
MCSymmetry == Permutations({w1, w2})
=============================================================================
