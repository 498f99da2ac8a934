--------------------------- MODULE MCUpdateCommit ---------------------------
(* Two commands, up to three change sets, jobs of one or two.              *)
EXTENDS UpdateCommit, TLC

CONSTANTS p1, p2

MCProc == {p1, p2}
MCSymmetry == Permutations(MCProc)
=============================================================================
