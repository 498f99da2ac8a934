------------------------------ MODULE MCMirror ------------------------------
(* Two targets; two versions of a trove, the second together with one that *)
(* the configuration does not ask for.                                     *)
EXTENDS Mirror, TLC

CONSTANTS k1, k2, t1, t2, t3

MCTarget == {k1, k2}
MCMirrors == {{k1}, {k1, k2}}
MCTrove == {t1, t2, t3}
MCMatch == {t1, t2}
MCVF == (t1 :> 1) @@ (t2 :> 2) @@ (t3 :> 2)
MCNode == (t1 :> 1) @@ (t2 :> 1) @@ (t3 :> 2)
=============================================================================
