----------------------------- MODULE MCRollbacks -----------------------------
(* Two commands, two troves.                                               *)
EXTENDS Rollbacks, TLC

CONSTANTS p1, p2, t1, t2

MCProc == {p1, p2}
MCTrove == {t1, t2}
MCSymmetry == Permutations(MCProc) \cup Permutations(MCTrove)
=============================================================================
