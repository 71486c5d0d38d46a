----------------------------- MODULE MCEditLease -----------------------------
(* Instances of EditLease for TLC *)
EXTENDS EditLease, TLC

CONSTANTS u1, u2, g1, t1, t2, edit, remove, approve

MCStamps == 0..5
MCSymmetry == Permutations({u1, u2}) \cup Permutations({t1, t2})
=============================================================================
