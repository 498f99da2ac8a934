-------------------------- MODULE MCChangesetCache --------------------------
(* Processes that ask for up to two change sets each.                      *)
EXTENDS ChangesetCache, TLC

CONSTANTS p1, p2

MCProc == {p1, p2}
=============================================================================
