--------------------------- MODULE MCUpdateThreads ---------------------------
(* The queue of the code, and two jobs more than it can hold.              *)
EXTENDS UpdateThreads

MCRoom == 5
MCJobs == MCRoom + 2
=============================================================================
