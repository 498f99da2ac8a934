--------------------------- MODULE MCRepoContents ---------------------------
(* Two server processes; three troves, each two of which share contents, one *)
(* of them in a configuration file.                                        *)
EXTENDS RepoContents, TLC

CONSTANTS p1, p2, t1, t2, t3, c1, c2, c3

MCProc == {p1, p2}
MCTrove == {t1, t2, t3}
MCContent == {c1, c2, c3}
MCConfig == {c3}
MCUses == (t1 :> {c1, c2}) @@ (t2 :> {c1, c3}) @@ (t3 :> {c2, c3})
MCSymmetry == Permutations(MCProc)
=============================================================================
