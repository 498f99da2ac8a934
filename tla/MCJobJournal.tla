---------------------------- MODULE MCJobJournal ----------------------------
(***************************************************************************)
(* A small tree for the filesystem journal: files f and h and a directory  *)
(* d with one file g in it.                                                *)
(***************************************************************************)
EXTENDS JobJournal, TLC

CONSTANTS f, h, d, g

MCPath == {f, h, d, g}
MCAbove == [p \in MCPath |-> IF p = g THEN {d} ELSE {}]

Tree(ef, eh, ed, eg, ds, links) ==
    [ent |-> [p \in MCPath |-> CASE p = f -> ef [] p = h -> eh
                                 [] p = d -> ed [] p = g -> eg],
     dirs |-> ds, to |-> links, top |-> 4]

\* A full tree in which h is a link to f, another where f and g are two names
\* of one inode, a file where others have the directory, and a directory in a
\* directory.
MCTrees == {Tree(1, 2, 3, 4, {3}, 2 :> f), Tree(1, 0, 3, 1, {3}, <<>>),
            Tree(1, 0, 2, 0, {}, <<>>), Tree(0, 1, 3, 4, {3, 4}, <<>>)}
=============================================================================
