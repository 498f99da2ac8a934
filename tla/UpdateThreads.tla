---------------------------- MODULE UpdateThreads ----------------------------
(***************************************************************************)
(* Downloading and installing at the same time: _applyUpdateL and          *)
(* _createAllCs of src/conary/conaryclient/update.py.                      *)
(*                                                                         *)
(* A thread creates the change sets of the jobs one by one and puts them   *)
(* in a queue of five; the main thread takes and installs them.  Each      *)
(* waits with a time-out and then looks whether the other is still there.  *)
(* Without threads the same jobs are fetched one at a time, or all before  *)
(* the first is installed.                                                 *)
(*                                                                         *)
(* Simplifications: installing one change set is a step (UpdateCommit      *)
(* shows what is in it), a download is a step that may take as long as it  *)
(* wants, and the waiting times are left out: a time-out may come whenever *)
(* the wait is not over.                                                   *)
(***************************************************************************)
EXTENDS Naturals, Sequences

CONSTANTS
    Jobs,    \* how many change sets there are to install
    Room,    \* the size of the queue, 5 in the code
    Mishaps  \* what may go wrong: "fault" an error, "slow" a long download

ASSUME JobsAssumption == Jobs \in Nat \ {0}
ASSUME RoomAssumption == Room \in Nat \ {0}

VARIABLES
    mode,    \* with a thread, one at a time, or all downloads first
    q,       \* the queue: jobs, NoMore and Failure
    stop,    \* the event that asks the thread to stop
    thread,  \* where the download thread is
    next,    \* the job it downloads
    main,    \* where the main thread is
    got,     \* the job the main thread has in hand
    applied, \* the jobs installed, in order
    result   \* how the command is to end

vars == <<mode, q, stop, thread, next, main, got, applied, result>>
threadVars == <<mode, main, got, applied, result>>
mainVars == <<mode, thread, next>>

\* What the queue holds beside jobs: the None at the end, or an exception.
NoMore == 0
Failure == Jobs + 1

Ended == {"returned", "raised", "killed"}

Init ==
    /\ mode \in {"threaded", "oneByOne", "downloadFirst"}
    /\ q = <<>> /\ stop = FALSE
    /\ thread = (IF mode = "threaded" THEN "starting" ELSE "dead")
    /\ next = 1
    /\ main = (IF mode = "threaded" THEN "get" ELSE "fetch")
    /\ got = 0 /\ applied = <<>> /\ result = "none"

-----------------------------------------------------------------------------
(* The download thread.                                                    *)

\* It opens a database of its own; an error there ends it without a word.
StartThread ==
    /\ thread = "starting"
    /\ \/ thread' = "top"
       \/ "fault" \in Mishaps /\ thread' = "dead"
    /\ UNCHANGED <<threadVars, q, stop, next>>

\* The next job, unless the main thread wants to stop.
TakeJob ==
    /\ thread = "top"
    /\ thread' = IF next > Jobs THEN "end" ELSE IF stop THEN "dead"
                 ELSE "download"
    /\ UNCHANGED <<threadVars, q, stop, next>>

\* The callbacks of a download raise an exception when they see the event.
Download ==
    /\ thread = "download"
    /\ \/ thread' = "put"
       \/ stop /\ thread' = "report"
       \/ "fault" \in Mishaps /\ thread' = "report"
    /\ UNCHANGED <<threadVars, q, stop, next>>

\* A full queue is waited for five seconds at a time; only then the event is
\* looked at.
Put ==
    /\ thread = "put"
    /\ \/ /\ Len(q) < Room
          /\ q' = Append(q, next)
          /\ next' = next + 1 /\ thread' = "top"
       \/ /\ Len(q) = Room /\ stop
          /\ thread' = "dead"
          /\ UNCHANGED <<q, next>>
    /\ UNCHANGED <<threadVars, stop>>

\* Mutant: these two are put whether or not there is room.
PutAnyway ==
    /\ thread \in {"end", "report"}
    /\ q' = Append(q, IF thread = "end" THEN NoMore ELSE Failure)
    /\ thread' = "dead"
    /\ UNCHANGED <<threadVars, stop, next>>

\* The end of the list and an exception are put without a time-out.
PutLast ==
    /\ thread \in {"end", "report"} /\ Len(q) < Room
    /\ q' = Append(q, IF thread = "end" THEN NoMore ELSE Failure)
    /\ thread' = "dead"
    /\ UNCHANGED <<threadVars, stop, next>>

Stuck == thread \in {"end", "report"} /\ Len(q) = Room

-----------------------------------------------------------------------------
(* The main thread.                                                        *)

Stopping(how) == main' = "stop" /\ result' = how

\* The next item of the queue, an exception among them.
Get ==
    /\ main = "get" /\ q # <<>>
    /\ q' = Tail(q)
    /\ IF Head(q) = NoMore THEN Stopping("returned") /\ UNCHANGED got
       ELSE IF Head(q) = Failure THEN Stopping("raised") /\ UNCHANGED got
       ELSE got' = Head(q) /\ main' = "apply" /\ UNCHANGED result
    /\ UNCHANGED <<mainVars, stop, applied>>

\* Nothing came for ten seconds.
GetTimeout ==
    /\ main = "get" /\ q = <<>>
    /\ main' = "empty"
    /\ UNCHANGED <<mainVars, q, stop, got, applied, result>>

\* Mutant: a thread that is gone is waited for.
WaitOn ==
    /\ main = "empty"
    /\ main' = "get"
    /\ UNCHANGED <<mainVars, q, stop, got, applied, result>>

\* Mutant: a thread that is gone has done its work.
ThreadDone ==
    /\ main = "empty"
    /\ IF thread = "dead" THEN Stopping("returned")
       ELSE main' = "get" /\ UNCHANGED result
    /\ UNCHANGED <<mainVars, q, stop, got, applied>>

\* A thread that is alive may still deliver; one that is gone is an error,
\* even if it has delivered everything since the time-out.
CheckAlive ==
    /\ main = "empty"
    /\ IF thread = "dead" THEN Stopping("raised")
       ELSE main' = "get" /\ UNCHANGED result
    /\ UNCHANGED <<mainVars, q, stop, got, applied>>

\* A change set is fetched by the main thread itself.
Fetch ==
    /\ main = "fetch"
    /\ \/ /\ next <= Jobs
          /\ next' = next + 1
          /\ IF mode = "oneByOne" THEN main' = "apply" /\ got' = next
             ELSE UNCHANGED <<main, got>>
          /\ UNCHANGED result
       \/ /\ next <= Jobs /\ "fault" \in Mishaps
          /\ main' = "raised" /\ result' = "raised"
          /\ UNCHANGED <<next, got>>
       \/ /\ next > Jobs
          /\ IF mode = "downloadFirst" THEN main' = "apply" /\ got' = 1
             ELSE main' = "returned" /\ UNCHANGED got
          /\ result' = IF mode = "oneByOne" THEN "returned" ELSE result
          /\ UNCHANGED next
    /\ UNCHANGED <<mode, q, stop, thread, applied>>

\* _applyCs; the user may cancel after it, which the threaded loop looks at.
Apply ==
    /\ main = "apply"
    /\ \/ /\ applied' = Append(applied, got)
          /\ CASE mode = "threaded" ->
                    \/ main' = "get" /\ UNCHANGED <<got, result>>
                    \/ Stopping("cancelled") /\ UNCHANGED got
               [] mode = "oneByOne" -> main' = "fetch" /\ UNCHANGED <<got, result>>
               [] OTHER -> IF got = Jobs
                             THEN main' = "returned" /\ result' = "returned" /\ UNCHANGED got
                             ELSE got' = got + 1 /\ UNCHANGED <<main, result>>
       \/ /\ "fault" \in Mishaps
          /\ UNCHANGED <<applied, got>>
          /\ IF mode = "threaded" THEN Stopping("raised")
             ELSE main' = "raised" /\ result' = "raised"
    /\ UNCHANGED <<mainVars, q, stop>>

\* The finally clause: the event is set and the thread waited for.
SetStop ==
    /\ main = "stop"
    /\ stop' = TRUE /\ main' = "join"
    /\ UNCHANGED <<mainVars, q, got, applied, result>>

Join ==
    /\ main = "join" /\ thread = "dead"
    /\ main' = IF result = "raised" THEN "raised" ELSE "returned"
    /\ UNCHANGED <<mainVars, q, stop, got, applied, result>>

\* After twenty seconds the process sends itself a SIGTERM, which takes the
\* thread with it.
JoinTimeout ==
    /\ main = "join" /\ thread # "dead"
    /\ Stuck \/ "slow" \in Mishaps
    /\ main' = "killed" /\ thread' = "dead"
    /\ UNCHANGED <<mode, next, q, stop, got, applied, result>>

Over == main \in Ended /\ thread = "dead" /\ UNCHANGED vars

Thread == StartThread \/ TakeJob \/ Download \/ Put \/ PutLast
Main == Get \/ GetTimeout \/ CheckAlive \/ Fetch \/ Apply \/ SetStop \/ Join
        \/ JoinTimeout

Next == Thread \/ Main \/ Over

Spec == Init /\ [][Next]_vars

\* A download ends or fails, an installation too, and each thread runs.
FairSpec == Spec /\ WF_vars(Thread) /\ WF_vars(Main)

-----------------------------------------------------------------------------
(* Properties.                                                             *)

\* Every variable has its type, and the queue never holds more than it may.
TypeOK ==
    /\ mode \in {"threaded", "oneByOne", "downloadFirst"}
    /\ Len(q) <= Room
    /\ \A i \in DOMAIN q : q[i] \in 0..(Jobs + 1)
    /\ stop \in BOOLEAN
    /\ thread \in {"starting", "top", "download", "put", "end", "report", "dead"}
    /\ next \in 1..(Jobs + 1) /\ got \in 0..Jobs
    /\ main \in {"get", "empty", "fetch", "apply", "stop", "join"} \cup Ended
    /\ result \in {"none", "returned", "raised", "cancelled"}

\* Whatever the threads do, the jobs are installed in their order, each once,
\* and a command that neither fails nor is cancelled has installed them all.
\* The rollbacks and the ordering of dependencies rest on that.
InOrder ==
    /\ \A i \in DOMAIN applied : applied[i] = i
    /\ main = "returned" /\ result = "returned" => Len(applied) = Jobs

\* The command comes to an end: it returns, fails or ends itself, whichever of
\* the two threads fails or goes away, and however full the queue is.
Ends == <>(main \in Ended)
=============================================================================
