--------------------------- MODULE MCUpdateOrder ----------------------------
(* Three jobs of every kind with one requirement and one provision over two *)
(* dependencies, beside a trove that stays.                                 *)
EXTENDS UpdateOrder

CONSTANTS a, b

MCNode == 1..3
MCDep == {a, b}

Tr(r, p) == [req |-> r, prov |-> p]

\* What a job may install or erase.
Troves == {Tr({}, {}), Tr({}, {a}), Tr({a}, {}), Tr({b}, {a}), Tr({a}, {b})}

\* A job: what it removes and what it installs.
Jobs == ({NoTrove} \X Troves) \cup (Troves \X {NoTrove})
        \cup {<<Tr({}, {a}), Tr({}, {b})>>, <<Tr({a}, {}), Tr({b}, {})>>,
              <<Tr({}, {a}), Tr({}, {a})>>, <<Tr({a}, {b}), Tr({b}, {a})>>,
              <<Tr({}, {b}), Tr({a}, {})>>}

\* No further constraint, but two rows with one number; a package of two
\* components with one of them wanted early; two jobs that overlap, and one
\* wanted last; a package that is removed, and one job wanted last.
Extras == {[within |-> {}, passed |-> {}, linked |-> {}, critical |-> {}, final |-> {},
            alike |-> {<<<<Stay, b>>, a>>}],
           [within |-> {<<2, 1>>, <<3, 1>>}, passed |-> {}, linked |-> {}, critical |-> {3},
            final |-> {}, alike |-> {}],
           [within |-> {}, passed |-> {}, linked |-> {<<1, 3>>}, critical |-> {},
            final |-> {2}, alike |-> {}],
           [within |-> {}, passed |-> {<<2, 1>>}, linked |-> {}, critical |-> {},
            final |-> {3}, alike |-> {<<<<Stay, b>>, b>>}]}

MCPlans == {[old |-> [n \in MCNode |-> js[n][1]], new |-> [n \in MCNode |-> js[n][2]],
             stay |-> s, within |-> x.within, passed |-> x.passed, linked |-> x.linked,
             critical |-> x.critical, final |-> x.final, alike |-> x.alike] :
               js \in [MCNode -> Jobs],
               s \in {Tr({}, {}), Tr({a}, {}), Tr({}, {b}), Tr({b}, {a})},
               x \in Extras}
=============================================================================
