---------------------------- MODULE AtomicUpdate ----------------------------
(***************************************************************************)
(* What commitChangeSet (src/conary/local/database.py) promises to the     *)
(* commands of one system: the database, the files it describes and the    *)
(* rollbacks one can go back by change together, one change set at a time. *)
(* UpdateCommit implements it.                                             *)
(***************************************************************************)
EXTENDS Naturals

VARIABLES
    version,  \* the state the database describes
    files,    \* the state each half of the files is in
    back      \* the states the rollback stack leads back to

vars == <<version, files, back>>

Installed(v) == [h \in 1..2 |-> v]

Init == version = 0 /\ files = Installed(0) /\ back = {}

\* A change set is installed, and its inverse can be applied; later change
\* sets of a job that has invalidated the stack are not on it.
Install ==
    /\ version' = version + 1
    /\ files' = Installed(version + 1)
    /\ \/ back' = back \cup {version}
       \/ back = {} /\ back' = {}

\* The stack is invalidated.
Invalidate ==
    /\ back' = {}
    /\ UNCHANGED <<version, files>>

Next == Install \/ Invalidate

Spec == Init /\ [][Next]_vars
=============================================================================
