------------------------ MODULE UpdateThreads_proofs ------------------------
(***************************************************************************)
(* However many jobs there are, however long the queue is and whatever     *)
(* fails, the jobs are installed in their order, each once, and a command  *)
(* that returns has installed them all.                                    *)
(***************************************************************************)
EXTENDS UpdateThreads, TLAPS

-----------------------------------------------------------------------------
(* The inductive invariant.                                                *)

\* The two sequences are sequences.
Lists == q \in Seq(0..(Jobs + 1)) /\ applied \in Seq(Nat)

\* Jobs that are installed, or in the hands of the main thread.
Taken == Len(applied) + (IF main = "apply" THEN 1 ELSE 0)

\* Where the main thread still takes from the queue.
Taking == {"get", "empty", "apply"}

\* An item of the queue is the job that follows on what was taken before it;
\* the last may be the end of the list, after the last job, or an exception,
\* and the thread is then gone.
Follows(i) ==
    \/ q[i] = Taken + i /\ q[i] \in 1..Jobs
    \/ /\ i = Len(q) /\ thread = "dead"
       /\ \/ q[i] = Failure
          \/ q[i] = NoMore /\ Taken + i = Jobs + 1

\* Installed, in hand, in the queue and with the thread: one job after the
\* other, none missing.
Consecutive ==
    mode = "threaded" /\ main \in Taking =>
        /\ main = "apply" => got = Len(applied) + 1
        /\ \A i \in 1..Len(q) : Follows(i)
        /\ thread # "dead" => next = Taken + Len(q) + 1

\* Where the thread is tells how far it has come.
Progress ==
    /\ thread \in {"download", "put"} => next <= Jobs
    /\ thread = "end" => next = Jobs + 1

\* Without a thread the main thread counts for itself.
Unthreaded ==
    mode # "threaded" =>
        /\ thread = "dead" /\ main \in {"fetch", "apply"} \cup Ended
        /\ main = "apply" => got = Len(applied) + 1
        /\ mode = "oneByOne" /\ main \in {"fetch", "apply"} => next = Taken + 1
        /\ mode = "downloadFirst" /\ main = "fetch" => Len(applied) = 0

Modes ==
    /\ mode = "threaded" => main # "fetch"
    /\ main \notin {"stop", "join"} \cup Ended => result = "none"

\* A command that is to return without an error has installed everything.
Complete == result = "returned" => Len(applied) = Jobs

Counted == \A i \in 1..Len(applied) : applied[i] = i

IInv == /\ TypeOK /\ Lists /\ Consecutive /\ Progress /\ Unthreaded /\ Modes
        /\ Complete /\ Counted

-----------------------------------------------------------------------------
\* The initial state satisfies the invariant.
LEMMA InitIInv == Init => IInv
<1> SUFFICES ASSUME Init PROVE IInv
      OBVIOUS
<1> USE JobsAssumption, RoomAssumption DEF Init
<1>1. Lists
      BY DEF Lists
<1>2. TypeOK
  <2>1. Len(q) <= Room /\ \A i \in DOMAIN q : q[i] \in 0..(Jobs + 1)
        OBVIOUS
  <2>2. stop \in BOOLEAN
        OBVIOUS
  <2>3. next \in 1..(Jobs + 1) /\ got \in 0..Jobs
        OBVIOUS
  <2>4. /\ mode \in {"threaded", "oneByOne", "downloadFirst"}
        /\ thread \in {"starting", "dead"} /\ main \in {"get", "fetch"}
        /\ result = "none"
        OBVIOUS
  <2> HIDE DEF Init
  <2> QED  BY <2>1, <2>2, <2>3, <2>4 DEF TypeOK
<1>3. Consecutive /\ Progress /\ Unthreaded
      BY DEF Consecutive, Progress, Unthreaded, Taken, Ended, Taking
<1>4. Modes /\ Complete /\ Counted
      BY DEF Modes, Complete, Counted
<1> QED  BY <1>1, <1>2, <1>3, <1>4 DEF IInv

\* The invariant gives the property.
LEMMA IInvInOrder == IInv => InOrder
BY DEF IInv, Lists, Counted, Complete, InOrder

-----------------------------------------------------------------------------
(* The download thread.                                                    *)

\* Steps that only move the thread, which is not gone before.
LEMMA ThreadMoves ==
    ASSUME IInv, StartThread \/ TakeJob \/ Download
    PROVE  IInv'
<1> USE JobsAssumption DEF StartThread, TakeJob, Download, threadVars, IInv
<1>1. thread # "dead" /\ mode = "threaded"
      BY DEF Unthreaded
<1>2. TypeOK' /\ Lists'
      BY DEF TypeOK, Lists
<1>3. Consecutive'
      BY <1>1 DEF Consecutive, Follows, Taken
<1>4. Progress'
      BY DEF Progress, TypeOK
<1>5. Unthreaded' /\ Modes' /\ Complete' /\ Counted'
      BY <1>1 DEF Unthreaded, Modes, Complete, Counted
<1> QED  BY <1>2, <1>3, <1>4, <1>5

\* The thread puts its job in the queue, or gives up.
LEMMA PutIInv ==
    ASSUME IInv, Put
    PROVE  IInv'
<1> USE JobsAssumption, RoomAssumption DEF Put, threadVars, IInv
<1>1. thread = "put" /\ mode = "threaded" /\ next \in 1..Jobs
      BY DEF Unthreaded, Progress, TypeOK
<1>2. Unthreaded' /\ Modes' /\ Complete' /\ Counted'
      BY <1>1 DEF Unthreaded, Modes, Complete, Counted
<1>3. Progress'
      BY DEF Progress
<1>4. CASE thread' = "dead" /\ UNCHANGED <<q, next>>
  <2>1. TypeOK' /\ Lists'
        BY <1>1, <1>4 DEF TypeOK, Lists
  <2>2. Consecutive'
        BY <1>1, <1>4 DEF Consecutive, Follows, Taken, Lists
  <2> QED  BY <2>1, <2>2, <1>2, <1>3
<1>5. CASE Len(q) < Room /\ q' = Append(q, next) /\ next' = next + 1 /\ thread' = "top"
  <2>1. Len(q') = Len(q) + 1 /\ q' \in Seq(0..(Jobs + 1))
        BY <1>1, <1>5 DEF Lists
  <2>2. \A i \in 1..Len(q) : q'[i] = q[i]
        BY <1>5 DEF Lists
  <2>3. q'[Len(q) + 1] = next
        BY <1>5 DEF Lists
  <2>4. TypeOK' /\ Lists'
        BY <1>1, <1>5, <2>1 DEF TypeOK, Lists
  <2>5. Taken' = Taken /\ Taken \in Nat
        BY DEF Taken, Lists
  <2>6. ASSUME mode = "threaded", main \in Taking
        PROVE  /\ \A i \in 1..Len(q) : q[i] = Taken + i /\ q[i] \in 1..Jobs
               /\ next = Taken + Len(q) + 1
        BY <1>1, <2>6 DEF Consecutive, Follows
  <2>7. Consecutive'
    <3> SUFFICES ASSUME main \in Taking PROVE Consecutive'
          BY DEF Consecutive
    <3>1. \A i \in 1..Len(q) : q[i] = Taken + i /\ q[i] \in 1..Jobs
          BY <1>1, <2>6
    <3>2. next = Taken + Len(q) + 1 /\ Len(q) \in Nat
          BY <1>1, <2>6 DEF Lists
    <3>3. \A i \in 1..Len(q') : q'[i] = Taken + i /\ q'[i] \in 1..Jobs
      <4> HIDE DEF Put, IInv
      <4> TAKE i \in 1..Len(q')
      <4>1. i \in 1..Len(q) \/ i = Len(q) + 1
            BY <2>1, <3>2
      <4>2. CASE i \in 1..Len(q)
            BY <2>2, <3>1, <4>2
      <4>3. CASE i = Len(q) + 1
        <5>1. q'[i] = next
              BY <2>3, <4>3
        <5>2. next = Taken + i
              BY <2>5, <3>2, <4>3
        <5> QED  BY <1>1, <5>1, <5>2
      <4> QED  BY <4>1, <4>2, <4>3
    <3>4. \A i \in 1..Len(q') : Follows(i)'
          BY <2>5, <3>3 DEF Follows
    <3>5. main' = "apply" => got' = Len(applied') + 1
          BY <1>1 DEF Consecutive, Taking
    <3>6. next' = Taken' + Len(q') + 1
          BY <1>5, <2>1, <2>5, <3>2
    <3> QED  BY <3>4, <3>5, <3>6 DEF Consecutive
  <2> QED  BY <2>4, <2>7, <1>2, <1>3
<1> QED  BY <1>4, <1>5

\* The end of the list, or an exception, is the last thing in the queue.
LEMMA PutLastIInv ==
    ASSUME IInv, PutLast
    PROVE  IInv'
<1> USE JobsAssumption, RoomAssumption DEF PutLast, threadVars, IInv
<1> DEFINE x == IF thread = "end" THEN NoMore ELSE Failure
<1>1. thread # "dead" /\ mode = "threaded" /\ thread' = "dead" /\ q' = Append(q, x)
      BY DEF Unthreaded
<1>2. x \in 0..(Jobs + 1) /\ (x = Failure \/ (x = NoMore /\ next = Jobs + 1))
      BY DEF Progress, NoMore, Failure
<1> HIDE DEF x
<1>3. Len(q') = Len(q) + 1 /\ q' \in Seq(0..(Jobs + 1))
      BY <1>1, <1>2 DEF Lists
<1>4. (\A i \in 1..Len(q) : q'[i] = q[i]) /\ q'[Len(q) + 1] = x
      BY <1>1 DEF Lists
<1>5. TypeOK' /\ Lists'
      BY <1>1, <1>3 DEF TypeOK, Lists
<1>6. Unthreaded' /\ Modes' /\ Complete' /\ Counted' /\ Progress'
      BY <1>1 DEF Unthreaded, Modes, Complete, Counted, Progress
<1>7. Taken' = Taken /\ Taken \in Nat
      BY DEF Taken, Lists
<1>8. ASSUME mode = "threaded", main \in Taking
      PROVE  /\ \A i \in 1..Len(q) : q[i] = Taken + i /\ q[i] \in 1..Jobs
             /\ next = Taken + Len(q) + 1
      BY <1>1, <1>8 DEF Consecutive, Follows
<1>9. Consecutive'
      BY <1>1, <1>2, <1>3, <1>4, <1>7, <1>8
         DEF Consecutive, Follows, Lists, Failure, NoMore
<1> QED  BY <1>5, <1>6, <1>9

-----------------------------------------------------------------------------
(* The main thread.                                                        *)

\* The main thread takes the first item of the queue.
LEMMA GetIInv ==
    ASSUME IInv, Get
    PROVE  IInv'
<1> USE JobsAssumption, RoomAssumption DEF Get, mainVars, IInv, Stopping
<1>1. mode = "threaded" /\ main = "get" /\ result = "none"
      BY DEF Unthreaded, Ended, Modes
<1>2. /\ Len(q) > 0 /\ Head(q) = q[1] /\ Len(q') = Len(q) - 1
      /\ q' \in Seq(0..(Jobs + 1)) /\ \A i \in 1..Len(q') : q'[i] = q[i + 1]
      BY DEF Lists
<1>3. Taken = Len(applied) /\ Len(applied) \in Nat /\ applied' = applied
      BY <1>1 DEF Taken, Lists
<1>4. \A i \in 1..Len(q) : Follows(i)
      BY <1>1 DEF Consecutive, Taking
<1>5. Follows(1)
      BY <1>2, <1>4 DEF Lists
<1>6. TypeOK' /\ Lists'
  <2>1. got' \in 0..Jobs
        BY <1>2 DEF TypeOK, NoMore, Failure, Lists
  <2> QED  BY <1>2, <2>1 DEF TypeOK, Lists
<1>7. Progress' /\ Counted' /\ Unthreaded' /\ Modes'
      BY <1>1 DEF Progress, Counted, Unthreaded, Modes, Ended
<1>8. Complete'
      BY <1>1, <1>2, <1>3, <1>5 DEF Complete, Follows, NoMore, Failure, Lists
<1>9. Consecutive'
  <2>1. SUFFICES ASSUME main' \in Taking PROVE Consecutive'
        BY DEF Consecutive
  <2>2. main' = "apply" /\ got' = q[1] /\ q[1] # NoMore /\ q[1] # Failure
        BY <1>2, <2>1 DEF Taking
  <2>3. got' = Len(applied) + 1
        BY <1>3, <1>5, <2>2 DEF Follows
  <2>4. Taken' = Taken + 1
        BY <1>3, <2>2 DEF Taken
  <2>5. \A i \in 1..Len(q') : Follows(i)'
    <3> SUFFICES ASSUME NEW i \in 1..Len(q') PROVE Follows(i)'
          OBVIOUS
    <3>1. i + 1 \in 1..Len(q) /\ q'[i] = q[i + 1]
          BY <1>2 DEF Lists
    <3>2. Follows(i + 1)
          BY <1>4, <3>1
    <3>3. Len(q) \in Nat /\ Taken \in Nat /\ thread' = thread /\ i \in Nat
          BY <1>2, <1>3 DEF Lists
    <3>4. CASE q[i + 1] = Taken + (i + 1) /\ q[i + 1] \in 1..Jobs
          BY <2>4, <3>1, <3>3, <3>4 DEF Follows
    <3>5. CASE /\ i + 1 = Len(q) /\ thread = "dead"
               /\ \/ q[i + 1] = Failure
                  \/ q[i + 1] = NoMore /\ Taken + (i + 1) = Jobs + 1
      <4> HIDE DEF Get, IInv
      <4>1. i = Len(q')
            BY <1>2, <3>3, <3>5
      <4>2. Taken' + i = Taken + (i + 1)
            BY <2>4, <3>3
      <4> QED  BY <3>1, <3>3, <3>5, <4>1, <4>2 DEF Follows, Failure
    <3> QED  BY <3>2, <3>4, <3>5 DEF Follows
  <2>6. thread # "dead" => next = Taken + Len(q) + 1
        BY <1>1 DEF Consecutive, Taking
  <2> QED  BY <1>2, <1>3, <2>2, <2>3, <2>4, <2>5, <2>6 DEF Consecutive, Lists
<1> QED  BY <1>6, <1>7, <1>8, <1>9

\* Waiting for the queue, and looking whether the thread is alive.
LEMMA WaitIInv ==
    ASSUME IInv, GetTimeout \/ CheckAlive
    PROVE  IInv'
<1> USE JobsAssumption DEF GetTimeout, CheckAlive, mainVars, IInv, Stopping
<1>1. mode = "threaded" /\ result = "none"
      BY DEF Unthreaded, Ended, Modes
<1>2. TypeOK' /\ Lists' /\ Progress' /\ Counted'
      BY DEF TypeOK, Lists, Progress, Counted
<1>3. Unthreaded' /\ Modes' /\ Complete'
      BY <1>1 DEF Unthreaded, Modes, Complete
<1>4. Taken' = Taken /\ main # "apply" /\ main' # "apply" /\ main \in Taking
      BY DEF Taken, Taking
<1>5. Consecutive'
      BY <1>1, <1>4 DEF Consecutive, Follows
<1> QED  BY <1>2, <1>3, <1>5

\* Without a thread, a change set is fetched.
LEMMA FetchIInv ==
    ASSUME IInv, Fetch
    PROVE  IInv'
<1> USE JobsAssumption DEF Fetch, IInv
<1>1. mode # "threaded" /\ main = "fetch" /\ result = "none"
      BY DEF Modes, Ended
<1>2. TypeOK' /\ Lists'
      BY DEF TypeOK, Lists, Ended
<1>3. Consecutive' /\ Counted'
      BY <1>1 DEF Consecutive, Counted
<1>4. Progress'
      BY <1>1 DEF Progress, Unthreaded
<1>5. Unthreaded'
      BY <1>1 DEF Unthreaded, Taken, Lists, TypeOK, Ended
<1>6. Modes'
      BY <1>1 DEF Modes, Ended
<1>7. Complete'
      BY <1>1 DEF Complete, Unthreaded, Taken, TypeOK, Lists
<1> QED  BY <1>2, <1>3, <1>4, <1>5, <1>6, <1>7

\* A change set is installed, or fails to be.
LEMMA ApplyIInv ==
    ASSUME IInv, Apply
    PROVE  IInv'
<1> USE JobsAssumption DEF Apply, mainVars, IInv, Stopping
<1>1. main = "apply" /\ result = "none" /\ got = Len(applied) + 1
      BY DEF Modes, Ended, Consecutive, Unthreaded, TypeOK, Taking
<1>2. Progress'
      BY DEF Progress
<1>3. Len(applied) \in Nat /\ got \in Nat
      BY DEF Lists, TypeOK
<1>4. CASE applied' = Append(applied, got)
  <2>1. /\ applied' \in Seq(Nat) /\ Len(applied') = Len(applied) + 1
        /\ \A i \in 1..Len(applied) : applied'[i] = applied[i]
        /\ applied'[Len(applied) + 1] = got
        BY <1>3, <1>4 DEF Lists
  <2>2. Counted'
        BY <1>1, <1>3, <2>1 DEF Counted
  <2>3. Len(applied') # Len(applied)
        BY <1>3, <2>1
  <2>4. applied' # applied
        BY <2>3
  <2>5. \/ mode = "threaded" /\ main' = "get" /\ UNCHANGED <<got, result>>
        \/ mode = "threaded" /\ main' = "stop" /\ result' = "cancelled" /\ got' = got
        \/ mode = "oneByOne" /\ main' = "fetch" /\ UNCHANGED <<got, result>>
        \/ /\ mode = "downloadFirst" /\ got = Jobs /\ main' = "returned"
           /\ result' = "returned" /\ got' = got
        \/ /\ mode = "downloadFirst" /\ got # Jobs /\ got' = got + 1
           /\ UNCHANGED <<main, result>>
        BY <2>4 DEF TypeOK
  <2> HIDE DEF Apply
  <2>6. UNCHANGED <<mode, thread, next, q, stop>>
        BY DEF Apply
  <2>7. TypeOK' /\ Lists'
        BY <1>1, <1>3, <2>1, <2>5, <2>6 DEF TypeOK, Lists, Ended
  <2>8. Consecutive'
    <3> SUFFICES ASSUME mode = "threaded", main' \in Taking PROVE Consecutive'
          BY <2>6 DEF Consecutive
    <3>1. main' = "get"
          BY <2>5 DEF Taking
    <3>2. Taken' = Taken
          BY <1>1, <1>3, <2>1, <3>1 DEF Taken
    <3>3. /\ \A i \in 1..Len(q) : Follows(i)
          /\ thread # "dead" => next = Taken + Len(q) + 1
          BY <1>1 DEF Consecutive, Taking
    <3> QED  BY <2>6, <3>1, <3>2, <3>3 DEF Consecutive, Follows
  <2>9. Unthreaded'
        BY <1>1, <1>3, <2>1, <2>5, <2>6 DEF Unthreaded, Taken, Ended
  <2>10. Modes' /\ Complete'
        BY <1>1, <1>3, <2>1, <2>5, <2>6 DEF Modes, Complete, Ended
  <2> QED  BY <1>2, <2>2, <2>7, <2>8, <2>9, <2>10
<1>5. CASE /\ applied' = applied /\ got' = got
           /\ IF mode = "threaded" THEN Stopping("raised")
              ELSE main' = "raised" /\ result' = "raised"
  <2> HIDE DEF Apply
  <2>1. UNCHANGED <<mode, thread, next, q, stop>>
        BY DEF Apply
  <2>2. TypeOK' /\ Lists' /\ Counted'
        BY <1>5, <2>1 DEF TypeOK, Lists, Counted, Ended
  <2>3. Consecutive' /\ Unthreaded'
        BY <1>5, <2>1 DEF Consecutive, Unthreaded, Ended, Taking
  <2>4. Modes' /\ Complete'
        BY <1>5, <2>1 DEF Modes, Complete, Ended
  <2> QED  BY <1>2, <2>2, <2>3, <2>4
<1> QED  BY <1>4, <1>5

\* The end of the command.
LEMMA EndIInv ==
    ASSUME IInv, SetStop \/ Join \/ JoinTimeout
    PROVE  IInv'
<1> USE JobsAssumption DEF SetStop, Join, JoinTimeout, mainVars, IInv
<1>1. mode = "threaded" /\ main \in {"stop", "join"} /\ main' \in {"join"} \cup Ended
      BY DEF Unthreaded, Ended
<1>2. TypeOK' /\ Lists' /\ Counted' /\ Complete'
      BY DEF TypeOK, Lists, Counted, Complete, Ended
<1>3. Consecutive' /\ Unthreaded' /\ Modes'
      BY <1>1 DEF Consecutive, Unthreaded, Modes, Taking, Ended
<1>4. Progress'
      BY DEF Progress
<1> QED  BY <1>2, <1>3, <1>4

-----------------------------------------------------------------------------
\* The invariant is inductive.
LEMMA NextIInv ==
    ASSUME IInv, [Next]_vars
    PROVE  IInv'
<1>1. CASE UNCHANGED vars
  <2>1. TypeOK' /\ Lists' /\ Progress' /\ Unthreaded' /\ Modes' /\ Complete'
        /\ Counted'
        BY <1>1 DEF vars, IInv, TypeOK, Lists, Progress, Unthreaded, Modes,
           Complete, Counted, Taken
  <2>2. Consecutive'
        BY <1>1 DEF vars, IInv, Consecutive, Follows, Taken
  <2> QED  BY <2>1, <2>2 DEF IInv
<1>2. CASE Thread
      BY <1>2, ThreadMoves, PutIInv, PutLastIInv DEF Thread
<1>3. CASE Main
      BY <1>3, GetIInv, WaitIInv, FetchIInv, ApplyIInv, EndIInv DEF Main
<1> QED  BY <1>1, <1>2, <1>3 DEF Next, Over

\* Every variable keeps its type, and put never makes the queue longer than
\* the five that Queue.Queue was made for, the None and the exception at the
\* end included.
THEOREM TypeCorrect == Spec => []TypeOK
<1>1. IInv => TypeOK
      BY DEF IInv
<1> QED  BY <1>1, InitIInv, NextIInv, PTL DEF Spec

\* The change sets reach _applyCs in the order of the jobs, each once, with a
\* thread and without, and when the command returns without an error they
\* have all been installed: the queue, the thread and the main loop hold a run
\* of consecutive jobs between them, which only a failure cuts off.
THEOREM AppliedInOrder == Spec => []InOrder
BY InitIInv, NextIInv, IInvInOrder, PTL DEF Spec
=============================================================================
