------------------------------ MODULE Rollbacks ------------------------------
(***************************************************************************)
(* Going back: "conary rollback" (applyRollback in src/conary/cmds/        *)
(* rollbacks.py, Database._applyRollbackList in src/conary/local/          *)
(* database.py), "conary rmrollback" (removeRollbacks), and the updates    *)
(* that fill the rollback stack meanwhile.                                 *)
(*                                                                         *)
(* A rollback directory holds, for each change set of its job, a pair of   *)
(* inverse change sets: repos.N leads back to the old versions as they     *)
(* came from the repository, local.N repeats the local changes the system  *)
(* had.  A rollback takes the pairs from the last to the first; each half  *)
(* is a transaction of its own, and the files of the pair are removed      *)
(* outside of any journal.                                                 *)
(*                                                                         *)
(* Simplifications:                                                        *)
(*  - commitChangeSet is atomic, which UpdateCommit shows it to be; its    *)
(*    journal, status.new and the signals are left to that module;         *)
(*  - the state of a trove is its version (0: not installed) and whether   *)
(*    its files have local changes;                                        *)
(*  - a count file that is missing or empty counts as unreadable;          *)
(*  - system models, scripts and redirects are left out.                   *)
(***************************************************************************)
EXTENDS Integers, Sequences

CONSTANTS
    Proc,        \* the commands
    NoProc,      \* nobody
    Trove,       \* the troves of the system
    MaxVersion,  \* the versions of each
    MaxCounter,  \* transactions in one behaviour
    MaxIndex,    \* rollbacks on the stack
    MaxHunk,     \* change sets in one job
    Mishaps      \* what may go wrong, and which rules the operator breaks

ASSUME ProcIsNotNobody == NoProc \notin Proc
ASSUME MishapKindsKnown ==
    Mishaps \subseteq {"fault", "crash", "staleOpen", "rmBeside"}
ASSUME BoundsAssumption ==
    /\ MaxVersion \in Nat \ {0} /\ MaxCounter \in Nat
    /\ MaxIndex \in Nat /\ MaxHunk \in Nat

VARIABLES
    sys,      \* the system: versions and local changes of its troves
    counter,  \* the transaction counter of the database
    status,   \* the first and last rollback, as on the disk
    dirs,     \* the rollback directories
    holder,   \* who holds the commit lock
    pc,       \* where each command is
    mem,      \* the first and last rollback it knows of
    seen,     \* the counter when it was asked to do something
    todo,     \* change sets of its update, or rollbacks, still to do
    left,     \* pairs left in its rollback directory; -1 before the first
    trail     \* history: the system before each change set of each rollback's job

stack == <<status, dirs>>
own == <<mem, seen, todo, left>>
vars == <<sys, counter, stack, holder, pc, own, trail>>

Index == 0..MaxIndex
Version == 0..MaxVersion
System == [ver : [Trove -> Version], local : SUBSET Trove]

Missing == [count |-> -1, repos |-> <<>>, local |-> <<>>]

\* Where a command holds the commit lock.
Undoing == {"load", "repos", "local", "unlink", "unlink2", "truncate",
            "count", "drop", "unlist"}
Holding == {"ulock", "hunk", "rlock", "finish"} \cup Undoing

Goto(p, at) == pc' = [pc EXCEPT ![p] = at]

\* A command that is over has forgotten everything.
Forget(p) ==
    /\ Goto(p, "idle")
    /\ mem' = [mem EXCEPT ![p] = <<0, -1>>]
    /\ seen' = [seen EXCEPT ![p] = 0]
    /\ todo' = [todo EXCEPT ![p] = 0]
    /\ left' = [left EXCEPT ![p] = -1]

-----------------------------------------------------------------------------
Init ==
    /\ \E l \in SUBSET Trove : sys = [ver |-> [t \in Trove |-> 1], local |-> l]
    /\ counter = 0 /\ status = <<0, -1>>
    /\ dirs = [k \in Index |-> Missing]
    /\ holder = NoProc
    /\ pc = [p \in Proc |-> "idle"]
    /\ mem = [p \in Proc |-> <<0, -1>>]
    /\ seen = [p \in Proc |-> 0]
    /\ todo = [p \in Proc |-> 0]
    /\ left = [p \in Proc |-> -1]
    /\ trail = [k \in Index |-> <<sys>>]

-----------------------------------------------------------------------------
(* Before the lock.                                                        *)

\* The status is read when the database is opened and never again.
Open(p) ==
    /\ pc[p] = "idle"
    /\ mem' = [mem EXCEPT ![p] = status]
    /\ Goto(p, "open")
    /\ UNCHANGED <<sys, counter, stack, holder, seen, todo, left, trail>>

Leave(p) ==
    /\ pc[p] \in {"open", "ready", "back"}
    /\ Forget(p)
    /\ UNCHANGED <<sys, counter, stack, holder, trail>>

\* The second rule of the operator's: between the opening of the database and
\* the first question of the counter no other command changes the stack.
Fresh(p) == mem[p] # status => "staleOpen" \in Mishaps

\* An update is computed.
AskUpdate(p) ==
    /\ pc[p] = "open" /\ Fresh(p) /\ mem[p][2] < MaxIndex
    /\ \E n \in 1..MaxHunk : todo' = [todo EXCEPT ![p] = n]
    /\ seen' = [seen EXCEPT ![p] = counter]
    /\ left' = [left EXCEPT ![p] = -1]
    /\ Goto(p, "ready")
    /\ UNCHANGED <<sys, counter, stack, holder, mem, trail>>

\* applyRollback: the counter is read, then so many rollbacks from the end of
\* the list in memory are shown to the user and asked for.
AskRollback(p) ==
    /\ pc[p] = "open" /\ Fresh(p)
    /\ \E n \in 1..(mem[p][2] - mem[p][1] + 1) : todo' = [todo EXCEPT ![p] = n]
    /\ seen' = [seen EXCEPT ![p] = counter]
    /\ Goto(p, "back")
    /\ UNCHANGED <<sys, counter, stack, holder, mem, left, trail>>

\* rmrollback, which takes no lock, is not run beside an update or a rollback:
\* a rule of the operator's, no code enforces it.
Lock(p) ==
    /\ pc[p] \in {"ready", "back"} /\ holder = NoProc
    /\ \A q \in Proc : pc[q] \in {"rm", "rmUnlist"} => "rmBeside" \in Mishaps
    /\ holder' = p
    /\ Goto(p, IF pc[p] = "ready" THEN "ulock" ELSE "rlock")
    /\ UNCHANGED <<sys, counter, stack, own, trail>>

\* Mutant: nothing is compared.
CheckNoCounter(p) ==
    /\ pc[p] \in {"ulock", "rlock"}
    /\ Goto(p, IF pc[p] = "ulock" THEN "hunk" ELSE "load")
    /\ UNCHANGED <<sys, counter, stack, holder, own, trail>>

\* Either command gives up when the counter has moved since it was asked.
CheckCounter(p) ==
    /\ pc[p] \in {"ulock", "rlock"}
    /\ Goto(p, IF seen[p] # counter THEN "finish"
               ELSE IF pc[p] = "ulock" THEN "hunk" ELSE "load")
    /\ UNCHANGED <<sys, counter, stack, holder, own, trail>>

-----------------------------------------------------------------------------
(* An update: every change set is a transaction.                           *)

\* The pair that leads back from a change of troves T.
ReposPart(T, new) == [t \in T |-> <<sys.ver[t], new[t]>>]
LocalPart(T) == sys.local \cap T

\* One change set: the first makes a new rollback directory, at the index
\* after the last known; each adds its pair; some invalidate the stack.
Hunk(p) ==
    /\ pc[p] = "hunk" /\ todo[p] > 0 /\ counter < MaxCounter
    /\ LET k == IF left[p] = -1 THEN mem[p][2] + 1 ELSE mem[p][2]
           d == IF left[p] = -1 THEN [Missing EXCEPT !.count = 0] ELSE dirs[k]
       IN  \E T \in (SUBSET Trove) \ {{}} : \E new \in [T -> Version] :
             /\ \A t \in T : new[t] # sys.ver[t]
             /\ dirs' = [dirs EXCEPT ![k] =
                    [count |-> d.count + 1,
                     repos |-> Append(d.repos, ReposPart(T, new)),
                     local |-> Append(d.local, LocalPart(T))]]
             /\ sys' = [ver |-> [t \in Trove |-> IF t \in T THEN new[t]
                                                 ELSE sys.ver[t]],
                        local |-> sys.local \ T]
             /\ trail' = [trail EXCEPT ![k] = IF left[p] = -1 THEN <<sys>> ELSE Append(@, sys)]
             /\ \E first \in {mem[p][1], k + 1} :
                    mem' = [mem EXCEPT ![p] = <<first, k>>]
    /\ status' = mem'[p]
    /\ counter' = counter + 1
    /\ todo' = [todo EXCEPT ![p] = @ - 1]
    /\ left' = [left EXCEPT ![p] = 0]
    /\ UNCHANGED <<holder, pc, seen>>

\* The job is done.
UpdateDone(p) ==
    /\ pc[p] = "hunk" /\ (todo[p] = 0 \/ counter = MaxCounter)
    /\ Goto(p, "finish")
    /\ UNCHANGED <<sys, counter, stack, holder, own, trail>>

-----------------------------------------------------------------------------
(* A rollback.                                                             *)

\* The rollback in hand.
At(p) == dirs[mem[p][2]]

\* The count is read from the directory, and with it the last pair; an
\* unreadable count, no pair or a pair without its files is an error.
Load(p) ==
    /\ pc[p] = "load" /\ todo[p] > 0
    /\ IF At(p).count > 0 /\ Len(At(p).repos) = At(p).count
                          /\ Len(At(p).local) = At(p).count
         THEN left' = [left EXCEPT ![p] = At(p).count] /\ Goto(p, "repos")
         ELSE UNCHANGED left /\ Goto(p, "finish")
    /\ UNCHANGED <<sys, counter, stack, holder, mem, seen, todo, trail>>

\* A pair of no troves is skipped; one whose new versions are not installed
\* cannot be applied, and the error is not one that is caught.  A trove it
\* brings back replaces none, and nothing looks whether there is one.
Installed(r) == \A t \in DOMAIN r : r[t][2] # 0 => sys.ver[t] = r[t][2]

Back(s, r) ==
    [ver |-> [t \in Trove |-> IF t \in DOMAIN r THEN r[t][1] ELSE s.ver[t]],
     local |-> s.local \ DOMAIN r]

\* The first half: ROLLBACK_PHASE_REPOS.
ReposPhase(p) ==
    /\ pc[p] = "repos" /\ counter < MaxCounter
    /\ LET r == At(p).repos[left[p]]
       IN  IF Installed(r)
             THEN /\ sys' = Back(sys, r)
                  /\ counter' = counter + 1
                  /\ Goto(p, "local")
             ELSE Goto(p, "finish") /\ UNCHANGED <<sys, counter>>
    /\ UNCHANGED <<stack, holder, own, trail>>

\* The second half: ROLLBACK_PHASE_LOCAL, unless there is nothing in it.
LocalPhase(p) ==
    /\ pc[p] = "local" /\ counter < MaxCounter
    /\ LET l == At(p).local[left[p]]
       IN  /\ sys' = [sys EXCEPT !.local = @ \cup l]
           /\ counter' = IF l = {} THEN counter ELSE counter + 1
    /\ Goto(p, "unlink")
    /\ UNCHANGED <<stack, holder, own, trail>>

\* Rollback.removeLast: repos.N is unlinked,
UnlinkRepos(p) ==
    /\ pc[p] = "unlink"
    /\ dirs' = [dirs EXCEPT ![mem[p][2]].repos = SubSeq(@, 1, left[p] - 1)]
    /\ Goto(p, "unlink2")
    /\ UNCHANGED <<sys, counter, status, holder, own, trail>>

\* then local.N;
UnlinkLocal(p) ==
    /\ pc[p] = "unlink2"
    /\ dirs' = [dirs EXCEPT ![mem[p][2]].local = SubSeq(@, 1, left[p] - 1)]
    /\ Goto(p, "truncate")
    /\ UNCHANGED <<sys, counter, status, holder, own, trail>>

\* the count is opened for writing, which empties it,
Truncate(p) ==
    /\ pc[p] = "truncate"
    /\ left' = [left EXCEPT ![p] = @ - 1]
    /\ dirs' = [dirs EXCEPT ![mem[p][2]].count = -1]
    /\ Goto(p, "count")
    /\ UNCHANGED <<sys, counter, status, holder, mem, seen, todo, trail>>

\* Mutant: the directory goes when its last change set has been undone, the
\* others are still there.
WriteCountOnce(p) ==
    /\ pc[p] = "count"
    /\ dirs' = [dirs EXCEPT ![mem[p][2]].count = left[p]]
    /\ Goto(p, "drop")
    /\ UNCHANGED <<sys, counter, status, holder, own, trail>>

\* and written.  The next pair is taken, if there is one.
WriteCount(p) ==
    /\ pc[p] = "count"
    /\ dirs' = [dirs EXCEPT ![mem[p][2]].count = left[p]]
    /\ Goto(p, IF left[p] > 0 THEN "repos" ELSE "drop")
    /\ UNCHANGED <<sys, counter, status, holder, own, trail>>

\* RollbackStack.removeLast: the directory is removed,
Drop(p) ==
    /\ pc[p] = "drop"
    /\ dirs' = [dirs EXCEPT ![mem[p][2]] = Missing]
    /\ Goto(p, "unlist")
    /\ UNCHANGED <<sys, counter, status, holder, own, trail>>

\* and the status written, from memory.
Unlist(p) ==
    /\ pc[p] = "unlist"
    /\ mem' = [mem EXCEPT ![p][2] = @ - 1]
    /\ status' = mem'[p]
    /\ todo' = [todo EXCEPT ![p] = @ - 1]
    /\ Goto(p, "load")
    /\ UNCHANGED <<sys, counter, dirs, holder, seen, left, trail>>

RollbackDone(p) ==
    /\ \/ pc[p] = "load" /\ todo[p] = 0
       \/ pc[p] \in {"repos", "local"} /\ counter = MaxCounter
    /\ Goto(p, "finish")
    /\ UNCHANGED <<sys, counter, stack, holder, own, trail>>

-----------------------------------------------------------------------------
(* rmrollback: the oldest rollbacks go, one after the other, no lock.      *)

AskRemove(p) ==
    /\ pc[p] = "open"
    /\ mem[p] # status => "rmBeside" \in Mishaps
    /\ holder # NoProc => "rmBeside" \in Mishaps
    /\ \E n \in 1..(mem[p][2] - mem[p][1] + 1) : todo' = [todo EXCEPT ![p] = n]
    /\ Goto(p, "rm")
    /\ UNCHANGED <<sys, counter, stack, holder, mem, seen, left, trail>>

RemoveOldest(p) ==
    /\ pc[p] = "rm" /\ todo[p] > 0
    /\ dirs' = [dirs EXCEPT ![mem[p][1]] = Missing]
    /\ todo' = [todo EXCEPT ![p] = @ - 1]
    /\ Goto(p, "rmUnlist")
    /\ UNCHANGED <<sys, counter, status, holder, mem, seen, left, trail>>

\* The only rollback left counts as the last.
UnlistOldest(p) ==
    /\ pc[p] = "rmUnlist"
    /\ mem' = [mem EXCEPT ![p] = IF @[1] = @[2] THEN <<@[1], @[2] - 1>>
                                 ELSE <<@[1] + 1, @[2]>>]
    /\ status' = mem'[p]
    /\ Goto(p, "rm")
    /\ UNCHANGED <<sys, counter, dirs, holder, seen, todo, left, trail>>

RemoveDone(p) ==
    /\ pc[p] = "rm" /\ todo[p] = 0
    /\ Forget(p)
    /\ UNCHANGED <<sys, counter, stack, holder, trail>>

-----------------------------------------------------------------------------
\* An error anywhere inside the lock; the transaction at work is undone.
Fault(p) ==
    /\ "fault" \in Mishaps
    /\ pc[p] \in Holding \ {"finish"}
    /\ Goto(p, "finish")
    /\ UNCHANGED <<sys, counter, stack, holder, own, trail>>

\* Mutant: the lock outlives the command.
KeepLock(p) ==
    /\ pc[p] = "finish"
    /\ Forget(p)
    /\ UNCHANGED <<sys, counter, stack, holder, trail>>

\* The finally clauses.
Unlock(p) ==
    /\ pc[p] = "finish"
    /\ holder' = NoProc
    /\ Forget(p)
    /\ UNCHANGED <<sys, counter, stack, trail>>

Crash(p) ==
    /\ "crash" \in Mishaps
    /\ pc[p] # "idle"
    /\ holder' = IF holder = p THEN NoProc ELSE holder
    /\ Forget(p)
    /\ UNCHANGED <<sys, counter, stack, trail>>

Next ==
    \E p \in Proc :
      \/ Open(p) \/ Leave(p) \/ AskUpdate(p) \/ AskRollback(p) \/ Lock(p)
      \/ CheckCounter(p) \/ Hunk(p) \/ UpdateDone(p)
      \/ Load(p) \/ ReposPhase(p) \/ LocalPhase(p) \/ UnlinkRepos(p)
      \/ UnlinkLocal(p) \/ Truncate(p) \/ WriteCount(p) \/ Drop(p) \/ Unlist(p)
      \/ RollbackDone(p)
      \/ AskRemove(p) \/ RemoveOldest(p) \/ UnlistOldest(p) \/ RemoveDone(p)
      \/ Fault(p) \/ Unlock(p) \/ Crash(p)

Spec == Init /\ [][Next]_vars

-----------------------------------------------------------------------------
(* Properties.                                                             *)

\* Every variable has its type, and the lock is held by one that believes so.
TypeOK ==
    /\ sys \in System /\ counter \in 0..MaxCounter
    /\ status \in (0..(MaxIndex + 1)) \X (-1..MaxIndex)
    /\ \A k \in Index : /\ dirs[k].count \in -1..MaxHunk
                        /\ Len(dirs[k].repos) \in 0..MaxHunk
                        /\ Len(dirs[k].local) \in 0..MaxHunk
    /\ holder \in Proc \cup {NoProc}
    /\ \A p \in Proc : pc[p] \in Holding <=> holder = p
    /\ mem \in [Proc -> (0..(MaxIndex + 1)) \X (-1..MaxIndex)]
    /\ seen \in [Proc -> 0..MaxCounter]
    /\ \A p \in Proc : todo[p] \in 0..(MaxIndex + MaxHunk + 1)
    /\ left \in [Proc -> -1..MaxHunk]
    /\ trail \in [Index -> Seq(System)]

\* The system before the job of a rollback.
Base(k) == trail[k][1]

\* A rollback that goes off the stack has brought back the system as it was
\* before its job, versions and local changes alike: no other update lay on
\* top of it, and none of its change sets was left out.
Retraced ==
    [][\A p \in Proc : pc[p] = "drop" /\ pc'[p] = "unlist"
         => sys = Base(mem[p][2])]_vars

\* What undoing a pair makes of s, and what is left to do when repos is done.
Undo(s, r, l) == [Back(s, r) EXCEPT !.local = @ \cup l]
UndoLocal(s, l) == [s EXCEPT !.local = @ \cup l]

\* Whether a directory leads back from s to the system before its job: the
\* last pair to the system before its change set, unless it has already been
\* undone, in part or entirely, and each other pair from there on.
LeadsBack(k, s) ==
    LET d == dirs[k]
        n == Len(d.repos)
    IN  /\ n = 0 => s = Base(k)
        /\ n > 0 => trail[k][n] \in {Undo(s, d.repos[n], d.local[n]),
                                     UndoLocal(s, d.local[n])}
        /\ \A i \in 1..(n - 1) :
              trail[k][i] = Undo(trail[k][i + 1], d.repos[i], d.local[i])

\* Whoever fails or dies, the system is at most one change set ahead of its
\* stack: each rollback leads from the system before the next one, the last
\* from the present system, to the system before its own job, but for one pair
\* that was undone and could not be removed.  A directory that is gone, and
\* still listed, says nothing.
OneAhead ==
    \A k \in Index : status[1] <= k /\ k <= status[2] /\ dirs[k] # Missing =>
        LeadsBack(k, IF k = status[2] THEN sys ELSE Base(k + 1))
=============================================================================
