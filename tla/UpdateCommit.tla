---------------------------- MODULE UpdateCommit ----------------------------
(***************************************************************************)
(* Several conary commands update one system: ConaryClient._applyUpdate    *)
(* and _applyUpdateL (src/conary/conaryclient/update.py), Database.        *)
(* commitChangeSet, _doCommit, commitLock and revertJournal, and the       *)
(* rollback stack (src/conary/local/database.py).                          *)
(*                                                                         *)
(* Each command opens the database, computes a job, takes the commit lock, *)
(* checks that the job is not stale, and commits the change sets of the    *)
(* job one by one: journal, rollback, files, database, journal removed.    *)
(*                                                                         *)
(* Simplifications:                                                        *)
(*  - the state of the system is the number of change sets installed,      *)
(*    which is the transaction counter.  The files are two halves, each at *)
(*    a version, so that a half-applied change set shows;                  *)
(*  - the journal holds, for each place a job changes, what was there      *)
(*    before: revert() reads from the back, so the oldest record of a      *)
(*    place decides.  JobJournal models its records one by one, and what   *)
(*    goes wrong when a revert is itself interrupted;                      *)
(*  - a rollback directory is the sequence of its change sets; each is the *)
(*    version it leads back to.  One that is empty counts as missing;      *)
(*  - the SQLite write lock is inside the commit lock and is not shown.    *)
(*    Commands that commit without the commit lock (local commit, remove,  *)
(*    restore, repair, capsule sync) and rollbacks are not modelled here.  *)
(***************************************************************************)
EXTENDS Integers, Sequences, FiniteSets

CONSTANTS
    Proc,        \* the commands
    NoProc,      \* nobody
    MaxVersion,  \* change sets installed in one behaviour
    MaxHunk,     \* change sets in one job
    Mishaps      \* what may go wrong, and which rules the operator breaks

MishapKinds == {"fault", "crash", "statusFault", "lateSignal", "lateCrash",
                "staleOpen", "careless", "noCounter"}

ASSUME ProcAssumption == NoProc \notin Proc
ASSUME BoundAssumption == MaxVersion \in Nat /\ MaxHunk \in Nat \ {0}
ASSUME MishapAssumption == Mishaps \subseteq MishapKinds

VARIABLES
    db,         \* the committed database: its transaction counter
    files,      \* the versions of the two halves of the files
    status,     \* the status file of the rollback stack: first and last,
                \* <<>> while there is none
    statusNew,  \* status.new lies there
    dirs,       \* the rollback directories
    journal,    \* the journal file
    lockFile,   \* syslock exists
    holder,     \* who holds the fcntl lock on it
    pc,         \* where each command is
    mem,        \* the status each command read when it opened the database
    from,       \* the state the database was in when its job was begun
    seen,       \* the counter its job carries, -1 for none
    hunks,      \* change sets of its job still to commit
    mine,       \* the rollback directory of its job, -1 for none yet
    inv,        \* the change set in hand invalidates the stack
    saved       \* a signal to be raised again

disk == <<files, status, statusNew, dirs, journal>>
lock == <<lockFile, holder>>
work == <<mem, from, seen, hunks, mine, inv, saved>>
vars == <<db, disk, lock, pc, work>>

Half == 1..2
Index == 0..MaxVersion

NoJournal == [there |-> FALSE, base |-> 0, half |-> [h \in Half |-> -1],
              status |-> <<>>, dir |-> -1, count |-> <<>>]

\* Where a command holds a journal whose change set is not in the database.
Undoable == {"journal", "refused", "status", "stacked", "added", "torn",
             "applied"}

\* Where it is in the database, and the journal still there.
Late == {"committed", "leaving", "clearing"}

Journaling == Undoable \cup Late \cup {"reverted"}

\* Where it holds the lock and no journal.
Between == {"locked", "begin", "hunkDone", "finishing"}

PCs == {"idle", "open", "computed", "ready", "unlocked"}
         \cup Between \cup Journaling

\* _readStatus: the stack is empty when there is no status file.
Listed(s) == IF s = <<>> THEN <<0, -1>> ELSE s

Goto(p, at) == pc' = [pc EXCEPT ![p] = at]

\* A process ends, and with it what it knew.
Exit(p) ==
    /\ Goto(p, "idle")
    /\ mem' = [mem EXCEPT ![p] = <<0, -1>>]
    /\ from' = [from EXCEPT ![p] = 0]
    /\ seen' = [seen EXCEPT ![p] = 0]
    /\ hunks' = [hunks EXCEPT ![p] = 0]
    /\ mine' = [mine EXCEPT ![p] = -1]
    /\ inv' = [inv EXCEPT ![p] = FALSE]
    /\ saved' = [saved EXCEPT ![p] = FALSE]

\* The journal of an operation that is over: nobody is working on it.
Abandoned == journal.there /\ \A p \in Proc : pc[p] \notin Journaling

-----------------------------------------------------------------------------
Init ==
    /\ db = 0 /\ files = [h \in Half |-> 0]
    /\ status = <<>> /\ statusNew = FALSE
    /\ dirs = [k \in Index |-> <<>>]
    /\ journal = NoJournal
    /\ lockFile = FALSE /\ holder = NoProc
    /\ pc = [p \in Proc |-> "idle"]
    /\ mem = [p \in Proc |-> <<0, -1>>]
    /\ from = [p \in Proc |-> 0]
    /\ seen = [p \in Proc |-> 0]
    /\ hunks = [p \in Proc |-> 0]
    /\ mine = [p \in Proc |-> -1]
    /\ inv = [p \in Proc |-> FALSE]
    /\ saved = [p \in Proc |-> FALSE]

-----------------------------------------------------------------------------
(* Before the lock.                                                        *)

\* A journal beside a missing lock file raises ExistingJournalError.  The
\* status of the rollback stack is read here and never again.
Open(p) ==
    /\ pc[p] = "idle"
    /\ ~(journal.there /\ ~lockFile)
    /\ mem' = [mem EXCEPT ![p] = Listed(status)]
    /\ Goto(p, "open")
    /\ UNCHANGED <<db, disk, lock, from, seen, hunks, mine, inv, saved>>

\* The job is computed from the database, with many reads and no lock; this
\* is the first of them.
ComputeJob(p) ==
    /\ pc[p] = "open"
    /\ \E n \in 1..MaxHunk : hunks' = [hunks EXCEPT ![p] = n]
    /\ from' = [from EXCEPT ![p] = db]
    /\ Goto(p, "computed")
    /\ UNCHANGED <<db, disk, lock, mem, seen, mine, inv, saved>>

\* The counter is read when the job is there.  A caller that makes its jobs
\* itself may leave it out ("noCounter").
ReadCounter(p) ==
    /\ pc[p] = "computed"
    /\ \E c \in {db} \cup (IF "noCounter" \in Mishaps THEN {-1} ELSE {}) :
         seen' = [seen EXCEPT ![p] = c]
    /\ Goto(p, "ready")
    /\ UNCHANGED <<db, disk, lock, mem, from, hunks, mine, inv, saved>>

\* The user declines, or the job cannot be computed.
Decline(p) ==
    /\ pc[p] \in {"open", "computed", "ready"}
    /\ Exit(p)
    /\ UNCHANGED <<db, disk, lock>>

\* commitLock(True): the lock file is made and stays; the lock is not waited
\* for.  Two rules no code enforces: a careful operator runs "conary revert"
\* before anything else, and no command starts while another is at work, so
\* that the status it read is still the one on the disk.  MaxVersion is the
\* bound of the behaviour.
Lock(p) ==
    /\ pc[p] = "ready" /\ holder = NoProc
    /\ mem[p][2] < MaxVersion /\ db + hunks[p] <= MaxVersion
    /\ mem[p] # Listed(status) => "staleOpen" \in Mishaps
    /\ Abandoned => "careless" \in Mishaps
    /\ lockFile' = TRUE /\ holder' = p
    /\ Goto(p, "locked")
    /\ UNCHANGED <<db, disk, work>>

\* DatabaseLockedError.
LockFails(p) ==
    /\ pc[p] = "ready" /\ holder # NoProc
    /\ Goto(p, "unlocked")
    /\ UNCHANGED <<db, disk, lock, work>>

\* Mutant: the job is applied to whatever the database holds.
CheckNothing(p) ==
    /\ pc[p] = "locked"
    /\ Goto(p, "begin")
    /\ UNCHANGED <<db, disk, lock, work>>

\* "Stale update job" when the counter has moved; a job without one is not
\* checked.
CheckStale(p) ==
    /\ pc[p] = "locked"
    /\ Goto(p, IF seen[p] \in {-1, db} THEN "begin" ELSE "finishing")
    /\ UNCHANGED <<db, disk, lock, work>>

-----------------------------------------------------------------------------
(* commitChangeSet, for one change set of the job.                         *)

\* The journal is created, or truncated if one is there.  Whether the change
\* set invalidates the stack depends on what it installs.
CreateJournal(p) ==
    /\ pc[p] = "begin"
    /\ journal' = [NoJournal EXCEPT !.there = TRUE, !.base = db]
    /\ \E b \in BOOLEAN : inv' = [inv EXCEPT ![p] = b]
    /\ Goto(p, "journal")
    /\ UNCHANGED <<db, files, status, statusNew, dirs, lock, mem, from, seen,
                   hunks, mine, saved>>

\* RollbackStack.new, once for each job, at the index after the last it
\* knows of; a directory that is there is removed for good.  Then writeStatus
\* makes status.new, which O_EXCL refuses when one was left from before.
NewRollback(p) ==
    /\ pc[p] = "journal" /\ mine[p] = -1
    /\ LET k == mem[p][2] + 1
       IN  /\ dirs' = [dirs EXCEPT ![k] = <<>>]
           /\ journal' = [journal EXCEPT !.dir = k]
           /\ mine' = [mine EXCEPT ![p] = k]
           /\ mem' = [mem EXCEPT ![p] = <<@[1], k>>]
    /\ statusNew' = TRUE
    /\ Goto(p, IF statusNew THEN "refused" ELSE "status")
    /\ UNCHANGED <<db, files, status, lock, from, seen, hunks, inv,
                   saved>>

\* writeStatus backs the status up and renames status.new over it.  Before
\* the first update there is no status, and backup records nothing.
RenameStatus(p) ==
    /\ pc[p] = "status"
    /\ journal' = [journal EXCEPT !.status = status]
    /\ status' = mem[p]
    /\ statusNew' = FALSE
    /\ Goto(p, "stacked")
    /\ UNCHANGED <<db, files, dirs, lock, work>>

\* Mutant: only the first change set of a job is kept.
AddFirstOnly(p) ==
    /\ \/ pc[p] = "stacked"
       \/ pc[p] = "journal" /\ mine[p] # -1
    /\ journal' = [journal EXCEPT !.count = <<mine[p], Len(dirs[mine[p]])>>]
    /\ dirs' = [dirs EXCEPT ![mine[p]] = IF @ = <<>> THEN <<db>> ELSE @]
    /\ Goto(p, "added")
    /\ UNCHANGED <<db, files, status, statusNew, lock, work>>

\* Rollback.add: the inverse change sets are written and counted.
AddRollback(p) ==
    /\ \/ pc[p] = "stacked"
       \/ pc[p] = "journal" /\ mine[p] # -1
    /\ journal' = [journal EXCEPT !.count = <<mine[p], Len(dirs[mine[p]])>>]
    /\ dirs' = [dirs EXCEPT ![mine[p]] = Append(@, db)]
    /\ Goto(p, "added")
    /\ UNCHANGED <<db, files, status, statusNew, lock, work>>

\* Mutant: the second half is changed without a record.
ApplySecondUnlogged(p) ==
    \E h \in Half :
      /\ pc[p] = IF h = 1 THEN "added" ELSE "torn"
      /\ journal' = IF h = 1 THEN [journal EXCEPT !.half[h] = files[h]]
                    ELSE journal
      /\ files' = [files EXCEPT ![h] = db + 1]
      /\ Goto(p, IF h = 1 THEN "torn" ELSE "applied")
      /\ UNCHANGED <<db, status, statusNew, dirs, lock, work>>

\* FilesystemJob.apply, one half and then the other.
Apply(p) ==
    \E h \in Half :
      /\ pc[p] = IF h = 1 THEN "added" ELSE "torn"
      /\ journal' = [journal EXCEPT !.half[h] = files[h]]
      /\ files' = [files EXCEPT ![h] = db + 1]
      /\ Goto(p, IF h = 1 THEN "torn" ELSE "applied")
      /\ UNCHANGED <<db, status, statusNew, dirs, lock, work>>

\* The database commits.  A signal that came meanwhile is kept for later.
CommitDatabase(p) ==
    /\ pc[p] = "applied"
    /\ db' = db + 1
    /\ hunks' = [hunks EXCEPT ![p] = @ - 1]
    /\ \E s \in (IF "fault" \in Mishaps THEN BOOLEAN ELSE {FALSE}) :
         saved' = [saved EXCEPT ![p] = s]
    /\ Goto(p, "committed")
    /\ UNCHANGED <<disk, lock, mem, from, seen, mine, inv>>

\* _doCommit returns, out of reach of the handler that reverts.
LeaveCommit(p) ==
    /\ pc[p] = "committed"
    /\ Goto(p, "leaving")
    /\ UNCHANGED <<db, disk, lock, work>>

\* The backups are unlinked, all or some: the journal is removed either way.
CommitJournal(p) ==
    /\ pc[p] = "leaving"
    /\ Goto(p, "clearing")
    /\ UNCHANGED <<db, disk, lock, work>>

\* Mutant: the journal of a change set that is committed stays.
KeepJournal(p) ==
    /\ pc[p] = "clearing"
    /\ Goto(p, "hunkDone")
    /\ UNCHANGED <<db, disk, lock, work>>

RemoveJournal(p) ==
    /\ pc[p] = "clearing"
    /\ journal' = NoJournal
    /\ Goto(p, "hunkDone")
    /\ UNCHANGED <<db, files, status, statusNew, dirs, lock, work>>

\* Mutant: the loop over the change sets runs once too often.
EndHunkTooLate(p) ==
    /\ pc[p] = "hunkDone"
    /\ Goto(p, IF saved[p] \/ hunks[p] < 0 THEN "finishing" ELSE "begin")
    /\ UNCHANGED <<db, disk, lock, work>>

\* After the journal is gone the stack is invalidated if it has to be, the
\* signal that was kept is raised, and the next change set is taken.
EndHunk(p) ==
    /\ pc[p] = "hunkDone"
    /\ IF inv[p]
         THEN LET s == <<mem[p][2] + 1, mem[p][2]>>
              IN  mem' = [mem EXCEPT ![p] = s] /\ status' = s
         ELSE UNCHANGED <<mem, status>>
    /\ Goto(p, IF saved[p] \/ hunks[p] = 0 THEN "finishing" ELSE "begin")
    /\ UNCHANGED <<db, files, statusNew, dirs, journal, lock, from, seen,
                   hunks, mine, inv, saved>>

-----------------------------------------------------------------------------
(* Failure.                                                                *)

\* What revert() makes of the disk.
UndoneFiles == [h \in Half |->
    IF journal.half[h] = -1 THEN files[h] ELSE journal.half[h]]

UndoneStatus == IF journal.status = <<>> THEN status ELSE journal.status

UndoneDirs == [k \in Index |->
    IF k = journal.dir THEN <<>>
    ELSE IF journal.count # <<>> /\ k = journal.count[1]
         THEN SubSeq(dirs[k], 1, journal.count[2])
    ELSE dirs[k]]

Revert ==
    /\ files' = UndoneFiles
    /\ status' = UndoneStatus
    /\ dirs' = UndoneDirs
    /\ UNCHANGED <<statusNew, journal>>

\* An error or a signal before the database has committed: the handler in
\* commitChangeSet reverts the journal.  status.new is in no journal;
\* "statusFault" lets a fault come while it is there.
Fault(p) ==
    /\ pc[p] \in Undoable
    /\ pc[p] = "refused" \/ "fault" \in Mishaps
    /\ pc[p] = "status" => "statusFault" \in Mishaps
    /\ Revert
    /\ Goto(p, "reverted")
    /\ UNCHANGED <<db, lock, work>>

\* An error while there is no journal: before it is created, or in a tag
\* script that runs after it was removed.
Stop(p) ==
    /\ "fault" \in Mishaps
    /\ pc[p] \in Between \ {"finishing"}
    /\ Goto(p, "finishing")
    /\ UNCHANGED <<db, disk, lock, work>>

\* A signal after the database has committed, inside the handler's reach.
LateSignal(p) ==
    /\ "lateSignal" \in Mishaps
    /\ pc[p] = "committed"
    /\ Revert
    /\ Goto(p, "reverted")
    /\ UNCHANGED <<db, lock, work>>

DropJournal(p) ==
    /\ pc[p] = "reverted"
    /\ journal' = NoJournal
    /\ Goto(p, "finishing")
    /\ UNCHANGED <<db, files, status, statusNew, dirs, lock, work>>

\* Mutant: the lock outlives the command.
KeepLock(p) ==
    /\ pc[p] = "finishing"
    /\ Goto(p, "unlocked")
    /\ UNCHANGED <<db, disk, lock, work>>

\* The finally clause of _applyUpdate, after success and failure alike.
Unlock(p) ==
    /\ pc[p] = "finishing"
    /\ holder' = NoProc
    /\ Goto(p, "unlocked")
    /\ UNCHANGED <<db, disk, lockFile, work>>

Close(p) ==
    /\ pc[p] = "unlocked"
    /\ Exit(p)
    /\ UNCHANGED <<db, disk, lock>>

\* The process dies: the system frees its lock, SQLite drops what it had not
\* committed, and the journal stays.
Crash(p) ==
    /\ "crash" \in Mishaps
    /\ pc[p] # "idle"
    /\ pc[p] = "status" => "statusFault" \in Mishaps
    /\ pc[p] \in Late => "lateCrash" \in Mishaps
    /\ holder' = IF holder = p THEN NoProc ELSE holder
    /\ Exit(p)
    /\ UNCHANGED <<db, disk, lockFile>>

\* "conary revert" opens no database and takes no lock.  It is run when no
\* command is at work.
RevertCommand ==
    /\ Abandoned
    /\ files' = UndoneFiles
    /\ status' = UndoneStatus
    /\ dirs' = UndoneDirs
    /\ journal' = NoJournal
    /\ UNCHANGED <<db, statusNew, lock, pc, work>>

-----------------------------------------------------------------------------
\* What a command does by itself once it has a job.
Step(p) ==
    \/ Lock(p) \/ LockFails(p) \/ CheckStale(p)
    \/ CreateJournal(p) \/ NewRollback(p) \/ RenameStatus(p) \/ AddRollback(p)
    \/ Apply(p) \/ CommitDatabase(p) \/ LeaveCommit(p) \/ CommitJournal(p)
    \/ RemoveJournal(p) \/ EndHunk(p)
    \/ (pc[p] = "refused" /\ Fault(p))
    \/ DropJournal(p) \/ Unlock(p) \/ Close(p)

Next ==
    \/ \E p \in Proc :
         \/ Open(p) \/ ComputeJob(p) \/ ReadCounter(p) \/ Decline(p) \/ Step(p)
         \/ Fault(p) \/ Stop(p) \/ LateSignal(p) \/ Crash(p)
    \/ RevertCommand

Spec == Init /\ [][Next]_vars

\* Nothing a command does after it has a job waits for another command.
Fairness == \A p \in Proc : WF_vars(Step(p))

FairSpec == Spec /\ Fairness

-----------------------------------------------------------------------------
(* Properties.                                                             *)

\* The journal of a change set that is not in the database.
Pending == journal.there /\ journal.base = db

\* What recovery would leave now.
SafeFiles  == IF Pending THEN UndoneFiles ELSE files
SafeStatus == Listed(IF Pending THEN UndoneStatus ELSE status)
SafeDirs   == IF Pending THEN UndoneDirs ELSE dirs

\* The first and the last rollback; the first is one ahead when there is none.
Status == (0..(MaxVersion + 1)) \X (-1..MaxVersion)

\* Every variable has its type.
TypeOK ==
    /\ db \in 0..MaxVersion /\ files \in [Half -> 0..MaxVersion]
    /\ status \in Status \cup {<<>>}
    /\ dirs \in [Index -> Seq(0..MaxVersion)]
    /\ journal.there \in BOOLEAN /\ journal.base \in 0..MaxVersion
    /\ journal.half \in [Half -> -1..MaxVersion]
    /\ statusNew \in BOOLEAN /\ lockFile \in BOOLEAN
    /\ holder \in Proc \cup {NoProc}
    /\ pc \in [Proc -> PCs]
    /\ mem \in [Proc -> Status]
    /\ from \in [Proc -> 0..MaxVersion] /\ seen \in [Proc -> -1..MaxVersion]
    /\ hunks \in [Proc -> 0..MaxHunk]
    /\ mine \in [Proc -> Index \cup {-1}]
    /\ inv \in [Proc -> BOOLEAN] /\ saved \in [Proc -> BOOLEAN]

\* At every instant, whoever dies or fails next, the files are the ones the
\* database describes once the journal has been reverted, or as they are when
\* there is no journal to revert.
FilesRecoverable == SafeFiles = [h \in Half |-> db]

\* The state the rollback after k leads back to; after the last, the present.
After(k) == IF k = SafeStatus[2] THEN db ELSE Head(SafeDirs[k + 1])

\* In the same way the rollback stack leads back from the state the database
\* describes, one change set after the other, without a gap.  A first update
\* that was reverted stays listed as rollback 0, without a directory, for
\* there was no status file to put back; then the stack leads all the same
\* to the state before anything was installed.
StackRecoverable ==
    \A k \in Index : SafeStatus[1] <= k /\ k <= SafeStatus[2] =>
        LET d == SafeDirs[k]
        IN  \/ /\ d # <<>>
               /\ \A i \in 1..(Len(d) - 1) : d[i + 1] = d[i] + 1
               /\ d[Len(d)] + 1 = After(k)
            \/ d = <<>> /\ k = 0 /\ After(0) = 0

\* A job goes into a state other than the one its computation began in only if
\* the database was changed while it was computed, so that the counter it
\* carries is younger than what it was computed from, or if it carries none:
\* what happens between the end of the computation and the lock is noticed,
\* whoever does it.
NoStaleUpdate ==
    [][\A p \in Proc :
         pc[p] = "begin" /\ pc'[p] = "journal" /\ mine[p] = -1 /\ db # from[p]
         => seen[p] # from[p]]_vars

\* A command that has the lock gives it back.
LockFreed == \A p \in Proc : holder = p ~> holder # p

\* Every command sees the change sets, files and rollbacks change as one.
Abstract == INSTANCE AtomicUpdate WITH
    version <- db,
    files <- SafeFiles,
    back <- UNION {{SafeDirs[k][i] : i \in DOMAIN SafeDirs[k]} :
                      k \in SafeStatus[1]..SafeStatus[2]}

Implements == Abstract!Spec
=============================================================================
