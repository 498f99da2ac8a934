------------------------ MODULE UpdateCommit_proofs ------------------------
(***************************************************************************)
(* Whatever the number of commands, of change sets and of failures:        *)
(*  - the types, the lock and the check for stale jobs need no assumption  *)
(*    (TInv);                                                              *)
(*  - the files are recoverable as long as nothing strikes between the     *)
(*    commit of the database and the removal of the journal (IInv);        *)
(*  - so is the rollback stack, when commands start one after the other,   *)
(*    and UpdateCommit implements AtomicUpdate then (SInv).                *)
(***************************************************************************)
EXTENDS UpdateCommit, SequenceTheorems, TLAPS

\* No signal and no death between the commit of the database and the removal
\* of the journal, and "conary revert" is run before anything else.
Regular == Mishaps \cap {"lateSignal", "lateCrash", "careless"} = {}

-----------------------------------------------------------------------------
(* The inductive invariant.                                                *)

Shape ==
    /\ db \in Nat
    /\ files \in [Half -> Int]
    /\ pc \in [Proc -> PCs]
    /\ journal = [there |-> journal.there, base |-> journal.base,
                  half |-> journal.half, status |-> journal.status,
                  dir |-> journal.dir, count |-> journal.count]
    /\ journal.half \in [Half -> Int]
    /\ journal.base \in Int

\* Only the holder of the lock is past it.
Exclusive == \A p \in Proc : pc[p] \in Between \cup Journaling => holder = p

\* Where the holder is tells whether there is a journal and whether its
\* change set is in the database.
Known ==
    \A p \in Proc :
        /\ pc[p] \in Between => ~journal.there
        /\ pc[p] \in Undoable \cup {"reverted"} => Pending
        /\ pc[p] \in Late => journal.there /\ journal.base # db

\* A journal whose change set is in the database is being worked on.
SpentIsHeld ==
    journal.there /\ journal.base # db => \E p \in Proc : pc[p] \in Late

\* What a half of the files goes back to.
Old(h) == journal.half[h] = db \/ (journal.half[h] = -1 /\ files[h] = db)

Logged ==
    /\ Pending => \A h \in Half : Old(h)
    /\ ~journal.there => \A h \in Half : files[h] = db
    /\ \A p \in Proc :
         /\ pc[p] \in Late \cup {"reverted"} => \A h \in Half : files[h] = db
         /\ pc[p] \in Undoable =>
              /\ files[1] = IF pc[p] \in {"torn", "applied"} THEN db + 1 ELSE db
              /\ files[2] = IF pc[p] = "applied" THEN db + 1 ELSE db

IInv == Shape /\ Exclusive /\ Known /\ SpentIsHeld /\ Logged

-----------------------------------------------------------------------------
\* Reverting a journal whose change set is not in the database, or is there
\* with nothing but the old files, gives the files of the database.
LEMMA UndoneIsOld ==
    ASSUME Shape, \A h \in Half : Old(h)
    PROVE  UndoneFiles = [h \in Half |-> db]
<1>1. \A h \in Half : (IF journal.half[h] = -1 THEN files[h]
                       ELSE journal.half[h]) = db
      BY DEF Old, Shape
<1> QED  BY <1>1 DEF UndoneFiles

\* The initial state satisfies the invariant.
LEMMA InitIInv == Init => IInv
<1> SUFFICES ASSUME Init PROVE IInv
      OBVIOUS
<1>1. Shape
      BY DEF Init, Shape, NoJournal, PCs, Half
<1>2. \A p \in Proc : pc[p] = "idle"
      BY DEF Init
<1>3. Exclusive /\ Known /\ SpentIsHeld
      BY <1>2 DEF Init, Exclusive, Known, SpentIsHeld, NoJournal, Between,
         Journaling, Undoable, Late, Pending
<1>4. Logged
      BY <1>2 DEF Init, Logged, NoJournal, Undoable, Late, Pending, Half
<1> QED  BY <1>1, <1>3, <1>4 DEF IInv

\* The invariant gives the property.
LEMMA IInvRecoverable == IInv => FilesRecoverable
<1> SUFFICES ASSUME IInv PROVE SafeFiles = [h \in Half |-> db]
      BY DEF FilesRecoverable
<1>1. CASE Pending
      BY <1>1, UndoneIsOld DEF SafeFiles, IInv, Logged
<1>2. CASE ~Pending
  <2>1. \A h \in Half : files[h] = db
        BY <1>2 DEF IInv, SpentIsHeld, Logged, Pending
  <2> QED  BY <1>2, <2>1 DEF SafeFiles, IInv, Shape
<1> QED  BY <1>1, <1>2

-----------------------------------------------------------------------------
(* Steps that leave the database, the files and the journal alone.         *)

Untouched == db' = db /\ files' = files /\ journal' = journal

\* A command that moves between places of one kind keeps the invariant.
LEMMA MoveIInv ==
    ASSUME IInv, Untouched, NEW p \in Proc, NEW at \in PCs, Goto(p, at),
           holder' = holder,
           at \in Between => pc[p] \in Between,
           at \in Journaling =>
               /\ pc[p] \in Journaling
               /\ at \in Late <=> pc[p] \in Late
               /\ at = "reverted" <=> pc[p] = "reverted"
               /\ at \in {"torn", "applied"} <=> pc[p] \in {"torn", "applied"}
               /\ at = "applied" <=> pc[p] = "applied",
           pc[p] \in Late => at \in Late
    PROVE  IInv'
<1> USE DEF Untouched, Goto
<1>1. Shape'
      BY DEF IInv, Shape
<1>2. pc' = [pc EXCEPT ![p] = at] /\ pc \in [Proc -> PCs]
      BY DEF IInv, Shape
<1>3. Exclusive'
      BY <1>2 DEF IInv, Exclusive
<1>4. Known'
      BY <1>2 DEF IInv, Known, Pending, Journaling, Between, Undoable, Late, PCs
<1>5. SpentIsHeld'
      BY <1>2 DEF IInv, SpentIsHeld
<1>6. Logged'
      BY <1>2 DEF IInv, Logged, Pending, Old, Journaling, Undoable, Late
<1> QED  BY <1>1, <1>3, <1>4, <1>5, <1>6 DEF IInv

\* Decline, Open, ComputeJob, ReadCounter, Close, Stop and the check.
LEMMA OutsideIInv ==
    ASSUME IInv, Regular, NEW p \in Proc,
           \/ Open(p) \/ ComputeJob(p) \/ ReadCounter(p) \/ Decline(p)
             \/ LockFails(p) \/ CheckStale(p)
           \/ Stop(p) \/ Close(p) \/ LeaveCommit(p) \/ CommitJournal(p)
           \/ EndHunk(p)
    PROVE  IInv'
<1>1. Untouched
      BY DEF Open, ComputeJob, ReadCounter, Exit, Decline, LockFails,
         CheckStale, Stop, Close,
         LeaveCommit, CommitJournal, EndHunk, Untouched, disk
<1>2. holder' = holder
      BY DEF Open, ComputeJob, ReadCounter, Exit, Decline, LockFails,
         CheckStale, Stop, Close,
         LeaveCommit, CommitJournal, EndHunk, lock
<1>3. \E to \in PCs :
         /\ Goto(p, to)
         /\ to \in Between => pc[p] \in Between
         /\ to \in Journaling => pc[p] \in Late /\ to \in Late
         /\ pc[p] \in Late => to \in Late
      BY DEF Open, ComputeJob, ReadCounter, Exit, Decline, LockFails,
         CheckStale, Stop, Close,
         LeaveCommit, CommitJournal, EndHunk, PCs, Between, Journaling, Late,
         Undoable
<1>4. PICK to \in PCs :
         /\ Goto(p, to)
         /\ to \in Between => pc[p] \in Between
         /\ to \in Journaling => pc[p] \in Late /\ to \in Late
         /\ pc[p] \in Late => to \in Late
      BY <1>3
<1>5. to \in Late => to \notin Undoable \cup {"reverted"} /\ to \in Journaling
      BY DEF Late, Undoable, Journaling
<1>6. pc[p] \in Late => /\ pc[p] \notin {"torn", "applied", "reverted"}
                       /\ pc[p] \in Journaling
      BY DEF Late, Journaling
<1>7. to \in Late => to \notin {"torn", "applied", "reverted"}
      BY DEF Late
<1> QED
      BY <1>1, <1>2, <1>4, <1>5, <1>6, <1>7, MoveIInv

\* The lock is taken only when nobody has it and no journal is left.
LEMMA LockIInv ==
    ASSUME IInv, Regular, NEW p \in Proc, Lock(p)
    PROVE  IInv'
<1> USE DEF Lock, Goto, disk
<1>1. pc' = [pc EXCEPT ![p] = "locked"] /\ pc \in [Proc -> PCs]
      BY DEF IInv, Shape
<1>2. Untouched
      BY DEF Untouched
<1>3. \A q \in Proc : pc[q] \notin Between \cup Journaling
      BY ProcAssumption DEF IInv, Exclusive
<1>4. ~journal.there
      BY <1>3 DEF Regular, Abandoned
<1>5. \A q \in Proc : pc'[q] \notin Journaling
      BY <1>1, <1>3 DEF Journaling, Undoable, Late
<1>6. Shape'
      BY <1>1, <1>2 DEF IInv, Shape, Untouched, PCs, Between
<1>7. Exclusive'
      BY <1>1, <1>3, <1>5 DEF Exclusive
<1>8. Known' /\ SpentIsHeld' /\ Logged'
      BY <1>2, <1>4, <1>5 DEF IInv, Known, SpentIsHeld, Logged, Untouched,
         Pending, Journaling
<1> QED  BY <1>6, <1>7, <1>8 DEF IInv

\* The lock is given back by a command that has no journal any more.
LEMMA UnlockIInv ==
    ASSUME IInv, NEW p \in Proc, Unlock(p)
    PROVE  IInv'
<1> USE DEF Unlock, Goto, disk
<1>1. pc' = [pc EXCEPT ![p] = "unlocked"] /\ pc \in [Proc -> PCs]
      BY DEF IInv, Shape
<1>2. Untouched
      BY DEF Untouched
<1>3. holder = p /\ ~journal.there
      BY DEF IInv, Exclusive, Known, Between
<1>4. \A q \in Proc : pc'[q] \notin Between \cup Journaling
      BY <1>1, <1>3, ProcAssumption DEF IInv, Exclusive, Between, Journaling,
         Undoable, Late
<1>5. Shape'
      BY <1>1, <1>2 DEF IInv, Shape, Untouched, PCs
<1>6. Exclusive' /\ Known' /\ SpentIsHeld' /\ Logged'
      BY <1>2, <1>3, <1>4 DEF IInv, Exclusive, Known, SpentIsHeld, Logged,
         Untouched, Pending, Journaling
<1> QED  BY <1>5, <1>6 DEF IInv

-----------------------------------------------------------------------------
(* Steps of the command that holds the lock.                               *)

\* While one command is past the lock, no other is.
LEMMA Alone ==
    ASSUME IInv, NEW p \in Proc, pc[p] \in Between \cup Journaling
    PROVE  \A q \in Proc : pc[q] \in Between \cup Journaling => q = p
BY DEF IInv, Exclusive

\* When only one command is past the lock, what Known, SpentIsHeld and Logged
\* say of it is all they say.
LEMMA HolderIInv ==
    ASSUME IInv, NEW p \in Proc, NEW at \in PCs, Goto(p, at),
           pc[p] \in Between \cup Journaling, holder' = holder,
           Shape',
           at \in Between => ~journal'.there,
           at \in Undoable \cup {"reverted"} => Pending',
           at \in Late => journal'.there /\ journal'.base # db',
           journal'.there /\ journal'.base # db' => at \in Late,
           Pending' => \A h \in Half : Old(h)',
           ~journal'.there => \A h \in Half : files'[h] = db',
           at \in Late \cup {"reverted"} => \A h \in Half : files'[h] = db',
           at \in Undoable =>
              /\ files'[1] = IF at \in {"torn", "applied"} THEN db' + 1 ELSE db'
              /\ files'[2] = IF at = "applied" THEN db' + 1 ELSE db'
    PROVE  IInv'
<1>1. pc' = [pc EXCEPT ![p] = at] /\ pc \in [Proc -> PCs]
      BY DEF IInv, Shape, Goto
<1>2. \A q \in Proc : pc'[q] \in Between \cup Journaling => q = p
      BY <1>1, Alone
<1>3. pc'[p] = at
      BY <1>1
<1>4. Exclusive'
      BY <1>2 DEF IInv, Exclusive
<1>5. Known'
      BY <1>2, <1>3 DEF Known, Journaling
<1>6. SpentIsHeld'
      BY <1>3 DEF SpentIsHeld
<1>7. Logged'
      BY <1>2, <1>3 DEF Logged, Journaling
<1> QED  BY <1>4, <1>5, <1>6, <1>7 DEF IInv

\* A new journal: the files are the ones of the database.
LEMMA CreateIInv ==
    ASSUME IInv, NEW p \in Proc, CreateJournal(p)
    PROVE  IInv'
<1> USE DEF CreateJournal
<1>1. pc[p] \in Between /\ ~journal.there /\ \A h \in Half : files[h] = db
      BY DEF IInv, Known, Logged, Between
<1>2. /\ Goto(p, "journal") /\ "journal" \in PCs /\ holder' = holder
      /\ db' = db /\ files' = files
      BY DEF lock, PCs, Journaling, Undoable
<1>3. /\ journal'.there /\ journal'.base = db
      /\ journal'.half = [h \in Half |-> -1]
      BY DEF NoJournal
<1>4. Shape'
  <2>1. journal' = [there |-> TRUE, base |-> db, half |-> [h \in Half |-> -1],
                    status |-> <<>>, dir |-> -1, count |-> <<>>]
        BY DEF NoJournal
  <2>2. db \in Nat /\ files \in [Half -> Int] /\ pc \in [Proc -> PCs]
        BY DEF IInv, Shape
  <2>3. pc' \in [Proc -> PCs]
        BY <1>2, <2>2 DEF Goto
  <2>4. journal' = [there |-> journal'.there, base |-> journal'.base,
                    half |-> journal'.half, status |-> journal'.status,
                    dir |-> journal'.dir, count |-> journal'.count]
        BY <2>1
  <2>5. journal'.half \in [Half -> Int] /\ journal'.base \in Int
        BY <1>3, <2>2
  <2> HIDE DEF CreateJournal
  <2> QED  BY <1>2, <2>2, <2>3, <2>4, <2>5 DEF Shape
<1>5. Pending' /\ \A h \in Half : Old(h)'
      BY <1>1, <1>2, <1>3 DEF Pending, Old
<1>6. files'[1] = db /\ files'[2] = db
      BY <1>1, <1>2 DEF Half
<1> QED
      BY <1>1, <1>2, <1>3, <1>4, <1>5, <1>6, HolderIInv
         DEF Between, Late, Undoable, Pending

\* The steps that make the rollback: the journal grows, the files stay.
LEMMA RollbackIInv ==
    ASSUME IInv, NEW p \in Proc,
           NewRollback(p) \/ RenameStatus(p) \/ AddRollback(p)
    PROVE  IInv'
<1> USE DEF NewRollback, RenameStatus, AddRollback
<1>1. pc[p] \in Undoable \ {"torn", "applied"}
      BY DEF Undoable
<1>2. \E to \in {"refused", "status", "stacked", "added"} : Goto(p, to)
      BY DEF Goto
<1>3. PICK to \in {"refused", "status", "stacked", "added"} : Goto(p, to)
      BY <1>2
<1>4. to \in PCs /\ to \in Undoable /\ to \notin {"torn", "applied"}
      BY <1>3 DEF PCs, Journaling, Undoable
<1>5. holder' = holder /\ db' = db /\ files' = files
      BY DEF lock
<1>6. /\ journal'.there = journal.there /\ journal'.base = journal.base
      /\ journal'.half = journal.half
      BY DEF IInv, Shape
<1>7. journal' = [there |-> journal'.there, base |-> journal'.base,
                  half |-> journal'.half, status |-> journal'.status,
                  dir |-> journal'.dir, count |-> journal'.count]
      BY DEF IInv, Shape
<1>8. pc' = [pc EXCEPT ![p] = to]
      BY <1>3 DEF Goto
<1>9. Shape'
      BY <1>4, <1>5, <1>6, <1>7, <1>8 DEF IInv, Shape
<1>10. Pending /\ files[1] = db /\ files[2] = db /\ \A h \in Half : Old(h)
      BY <1>1 DEF IInv, Known, Logged
<1>11. Pending' /\ \A h \in Half : Old(h)'
      BY <1>5, <1>6, <1>10 DEF Pending, Old
<1>12. to \notin Between /\ to \notin Late /\ to # "reverted"
      BY <1>3 DEF Between, Late
<1>13. journal'.there /\ journal'.base = db'
      BY <1>11 DEF Pending
<1>14. pc[p] \in Between \cup Journaling
      BY <1>1 DEF Journaling
<1> QED
      BY <1>3, <1>4, <1>5, <1>9, <1>10, <1>11, <1>12, <1>13, <1>14, HolderIInv

\* A half of the files is recorded, and then changed.
LEMMA ApplyIInv ==
    ASSUME IInv, NEW p \in Proc, Apply(p)
    PROVE  IInv'
<1>1. PICK h \in Half :
        /\ pc[p] = IF h = 1 THEN "added" ELSE "torn"
        /\ journal' = [journal EXCEPT !.half[h] = files[h]]
        /\ files' = [files EXCEPT ![h] = db + 1]
        /\ Goto(p, IF h = 1 THEN "torn" ELSE "applied")
        /\ UNCHANGED <<db, status, statusNew, dirs, lock, work>>
      BY DEF Apply
<1> DEFINE to == IF h = 1 THEN "torn" ELSE "applied"
<1>2. to \in {"torn", "applied"} /\ to \in PCs /\ to \in Undoable
      BY DEF PCs, Journaling, Undoable
<1>3. pc[p] \in Undoable /\ holder' = holder /\ db' = db
      BY <1>1 DEF Undoable, lock
<1>4. Pending /\ \A g \in Half : Old(g)
      BY <1>3 DEF IInv, Known, Logged
<1>5. /\ files[1] = IF h = 1 THEN db ELSE db + 1
      /\ files[2] = db
      BY <1>1, <1>3 DEF IInv, Logged, Half
<1>6. /\ journal'.there = journal.there /\ journal'.base = journal.base
      /\ journal'.half = [journal.half EXCEPT ![h] = files[h]]
      BY <1>1 DEF IInv, Shape
<1>7. journal' = [there |-> journal'.there, base |-> journal'.base,
                  half |-> journal'.half, status |-> journal'.status,
                  dir |-> journal'.dir, count |-> journal'.count]
      BY <1>1 DEF IInv, Shape
<1>8. Shape'
      BY <1>1, <1>2, <1>3, <1>6, <1>7 DEF IInv, Shape, Goto
<1>9. files[h] = db
      BY <1>5 DEF Half
<1>10. Pending' /\ \A g \in Half : Old(g)'
      BY <1>1, <1>3, <1>4, <1>6, <1>9 DEF Pending, Old, IInv, Shape
<1>11. /\ files'[1] = db + 1
       /\ files'[2] = IF h = 1 THEN db ELSE db + 1
      BY <1>1, <1>5 DEF Half, IInv, Shape
<1>12. to \notin Between /\ to \notin Late /\ to # "reverted"
      BY DEF Between, Late
<1>13. journal'.there /\ journal'.base = db'
      BY <1>10 DEF Pending
<1>14. pc[p] \in Between \cup Journaling
      BY <1>3 DEF Journaling
<1>15. to = "applied" <=> h # 1
      OBVIOUS
<1>16. Goto(p, to)
      BY <1>1
<1> HIDE DEF to
<1> QED
      BY <1>2, <1>3, <1>8, <1>10, <1>11, <1>12, <1>13, <1>14, <1>15, <1>16,
         HolderIInv

\* The database commits: the files are the new ones already.
LEMMA CommitIInv ==
    ASSUME IInv, NEW p \in Proc, CommitDatabase(p)
    PROVE  IInv'
<1> USE DEF CommitDatabase
<1>1. pc[p] \in Undoable /\ pc[p] = "applied"
      BY DEF Undoable
<1>2. /\ Goto(p, "committed") /\ "committed" \in PCs /\ holder' = holder
      /\ db' = db + 1 /\ files' = files /\ journal' = journal
      BY DEF lock, disk, PCs, Journaling, Late
<1>3. Shape'
      BY <1>2 DEF IInv, Shape, Goto
<1>4. journal.there /\ journal.base = db /\ files[1] = db + 1 /\ files[2] = db + 1
      BY <1>1 DEF IInv, Known, Logged, Pending
<1>5. journal'.there /\ journal'.base # db' /\ ~Pending'
      BY <1>2, <1>4 DEF IInv, Shape, Pending
<1>6. \A h \in Half : files'[h] = db'
      BY <1>2, <1>4 DEF Half
<1>7. pc[p] \in Between \cup Journaling
      BY <1>1 DEF Journaling
<1>8. "committed" \in Late /\ "committed" \notin Between \cup Undoable
      BY DEF Late, Between, Undoable
<1> QED  BY <1>2, <1>3, <1>5, <1>6, <1>7, <1>8, HolderIInv

\* The journal goes, after a commit or after a revert: the files are the ones
\* of the database.
LEMMA RemoveIInv ==
    ASSUME IInv, NEW p \in Proc, RemoveJournal(p) \/ DropJournal(p)
    PROVE  IInv'
<1> USE DEF RemoveJournal, DropJournal
<1>1. pc[p] \in Late \cup {"reverted"} /\ pc[p] \in Between \cup Journaling
      BY DEF Late, Journaling
<1>2. PICK to \in {"hunkDone", "finishing"} : Goto(p, to)
      BY DEF Goto
<1>3. /\ to \in Between /\ to \in PCs /\ to \notin Journaling
      BY DEF Between, PCs, Journaling, Undoable, Late
<1>4. /\ holder' = holder /\ db' = db /\ files' = files
      /\ journal' = NoJournal
      BY DEF lock
<1>5. Shape'
  <2>1. db \in Nat /\ files \in [Half -> Int] /\ pc \in [Proc -> PCs]
        BY DEF IInv, Shape
  <2>2. pc' \in [Proc -> PCs]
        BY <1>2, <1>3, <2>1 DEF Goto
  <2> QED  BY <1>4, <2>1, <2>2 DEF Shape, NoJournal
<1>6. ~journal'.there /\ ~Pending'
      BY <1>4 DEF NoJournal, Pending
<1>7. \A h \in Half : files'[h] = db'
      BY <1>1, <1>4 DEF IInv, Logged
<1>8. to \notin Undoable \cup {"reverted"} /\ to \notin Late
      BY <1>3 DEF Journaling
<1>9. to \in PCs /\ Goto(p, to) /\ holder' = holder
      BY <1>2, <1>3, <1>4
<1>10. pc[p] \in Between \cup Journaling
      BY <1>1
<1> HIDE DEF RemoveJournal, DropJournal
<1> QED  BY <1>5, <1>6, <1>7, <1>8, <1>9, <1>10, HolderIInv

\* revert() inside the command: the files are again the ones of the database.
LEMMA FaultIInv ==
    ASSUME IInv, NEW p \in Proc, Fault(p)
    PROVE  IInv'
<1> USE DEF Fault, Revert
<1>1. pc[p] \in Undoable /\ pc[p] \in Between \cup Journaling
      BY DEF Journaling
<1>2. Pending /\ \A h \in Half : Old(h)
      BY <1>1 DEF IInv, Known, Logged
<1>3. /\ Goto(p, "reverted") /\ "reverted" \in PCs /\ holder' = holder
      /\ db' = db /\ journal' = journal /\ files' = [h \in Half |-> db]
      BY <1>2, UndoneIsOld DEF lock, PCs, Journaling, IInv
<1>4. Shape'
      BY <1>3 DEF IInv, Shape, Goto
<1>5. Pending' /\ \A h \in Half : Old(h)' /\ files'[h] = db'
      BY <1>2, <1>3 DEF Pending, Old
<1>6. "reverted" \notin Between \cup Undoable \cup Late
      BY DEF Between, Undoable, Late
<1>7. journal'.there /\ journal'.base = db'
      BY <1>5 DEF Pending
<1> QED  BY <1>1, <1>3, <1>4, <1>5, <1>6, <1>7, HolderIInv

-----------------------------------------------------------------------------
(* Death, and the command that recovers from it.                           *)

\* A command dies: its journal stays, and says what to go back to.
LEMMA CrashIInv ==
    ASSUME IInv, Regular, NEW p \in Proc, Crash(p)
    PROVE  IInv'
<1> USE DEF Crash, Goto, disk
<1>1. pc' = [pc EXCEPT ![p] = "idle"] /\ pc \in [Proc -> PCs]
      BY DEF Exit, IInv, Shape
<1>2. Untouched /\ pc[p] \notin Late
      BY DEF Untouched, Regular
<1>3. "idle" \in PCs /\ "idle" \notin Between \cup Journaling
      BY DEF PCs, Between, Journaling, Undoable, Late
<1>4. Shape'
      BY <1>1, <1>2, <1>3 DEF IInv, Shape, Untouched
<1>5. \A q \in Proc : pc'[q] \in Between \cup Journaling
                       => q # p /\ pc'[q] = pc[q]
      BY <1>1, <1>3
<1>6. Exclusive'
      BY <1>5, ProcAssumption DEF IInv, Exclusive
<1>7. Known'
      BY <1>2, <1>5 DEF IInv, Known, Untouched, Pending, Journaling
<1>8. SpentIsHeld'
      BY <1>1, <1>2 DEF IInv, SpentIsHeld, Untouched
<1>9. Logged'
      BY <1>2, <1>5 DEF IInv, Logged, Untouched, Pending, Old, Journaling
<1> QED  BY <1>4, <1>6, <1>7, <1>8, <1>9 DEF IInv

\* "conary revert" finds a journal nobody is working on.
LEMMA RevertIInv ==
    ASSUME IInv, RevertCommand
    PROVE  IInv'
<1> USE DEF RevertCommand, lock
<1>1. \A q \in Proc : pc[q] \notin Journaling
      BY DEF Abandoned
<1>2. \A q \in Proc : pc[q] \notin Late
      BY <1>1 DEF Journaling
<1>3. Pending /\ \A h \in Half : Old(h)
      BY <1>2 DEF IInv, SpentIsHeld, Logged, Pending, Abandoned
<1>4. /\ db' = db /\ pc' = pc /\ holder' = holder /\ journal' = NoJournal
      /\ files' = [h \in Half |-> db]
      BY <1>3, UndoneIsOld DEF IInv
<1>5. Shape'
      BY <1>4 DEF IInv, Shape, NoJournal
<1>6. ~journal'.there
      BY <1>4 DEF NoJournal
<1>7. Exclusive' /\ Known' /\ SpentIsHeld'
      BY <1>1, <1>4, <1>6 DEF IInv, Exclusive, Known, SpentIsHeld, Journaling
<1>8. Logged'
      BY <1>1, <1>4, <1>6 DEF Logged, Pending, Journaling
<1> QED  BY <1>5, <1>7, <1>8 DEF IInv

-----------------------------------------------------------------------------
\* The invariant is inductive.
LEMMA NextIInv ==
    ASSUME IInv, Regular, [Next]_vars
    PROVE  IInv'
<1>1. CASE UNCHANGED vars
  <2>1. UNCHANGED <<db, files, journal, holder, pc>>
        BY <1>1 DEF vars, disk, lock
  <2> QED  BY <2>1 DEF IInv, Shape, Exclusive, Known, SpentIsHeld, Logged,
              Pending, Old
<1>2. CASE RevertCommand
      BY <1>2, RevertIInv
<1>3. ASSUME NEW p \in Proc,
             \/ Open(p) \/ ComputeJob(p)
             \/ ReadCounter(p) \/ Decline(p) \/ Step(p)
             \/ Fault(p) \/ Stop(p) \/ LateSignal(p) \/ Crash(p)
      PROVE  IInv'
  <2>1. CASE \/ Open(p) \/ ComputeJob(p) \/ ReadCounter(p) \/ Decline(p)
             \/ LockFails(p)
             \/ CheckStale(p) \/ Stop(p) \/ Close(p) \/ LeaveCommit(p)
             \/ CommitJournal(p) \/ EndHunk(p)
        BY <2>1, OutsideIInv
  <2>2. CASE Lock(p)
        BY <2>2, LockIInv
  <2>3. CASE Unlock(p)
        BY <2>3, UnlockIInv
  <2>4. CASE CreateJournal(p)
        BY <2>4, CreateIInv
  <2>5. CASE NewRollback(p) \/ RenameStatus(p) \/ AddRollback(p)
        BY <2>5, RollbackIInv
  <2>6. CASE Apply(p)
        BY <2>6, ApplyIInv
  <2>7. CASE CommitDatabase(p)
        BY <2>7, CommitIInv
  <2>8. CASE RemoveJournal(p) \/ DropJournal(p)
        BY <2>8, RemoveIInv
  <2>9. CASE Fault(p)
        BY <2>9, FaultIInv
  <2>10. CASE Crash(p)
        BY <2>10, CrashIInv
  <2>11. CASE LateSignal(p)
        BY <2>11 DEF LateSignal, Regular
  <2> QED
        BY <1>3, <2>1, <2>2, <2>3, <2>4, <2>5, <2>6, <2>7, <2>8, <2>9, <2>10,
           <2>11 DEF Step
<1> QED  BY <1>1, <1>2, <1>3 DEF Next

\* However many commands race, fail or die before their change set is in the
\* database, the files are at every instant the ones the database describes,
\* or the journal takes them back there: commitChangeSet orders the journal,
\* the files, the database and the removal of the journal so.
THEOREM FilesSafe ==
    ASSUME Regular
    PROVE  Spec => []FilesRecoverable
<1>1. Init => IInv
      BY InitIInv
<1>2. IInv /\ [Next]_vars => IInv'
      BY NextIInv
<1>3. IInv => FilesRecoverable
      BY IInvRecoverable
<1> QED  BY <1>1, <1>2, <1>3, PTL DEF Spec

-----------------------------------------------------------------------------
(* Types, the lock and the check for staleness, whatever goes wrong.       *)

\* What a command may still install, and what it knows.
BudgetOf(p) ==
    /\ pc[p] \in {"computed", "ready"} => hunks[p] >= 1
    /\ pc[p] \in {"locked", "begin"} \cup Undoable =>
         hunks[p] >= 1 /\ db + hunks[p] <= MaxVersion
    /\ pc[p] \in {"hunkDone"} \cup Late => db + hunks[p] <= MaxVersion
    /\ pc[p] \in {"locked", "begin", "journal"} /\ mine[p] = -1
         => mem[p][2] < MaxVersion
    /\ pc[p] = "begin" /\ mine[p] = -1 => seen[p] \in {-1, db}
    /\ pc[p] \in {"status", "stacked", "added", "torn", "applied", "hunkDone"}
                 \cup Late => mine[p] # -1

Budget == \A p \in Proc : BudgetOf(p)

\* The journal is a record, and what it says of the stack can be undone.
JournalShape ==
    /\ journal = [there |-> journal.there, base |-> journal.base,
                  half |-> journal.half, status |-> journal.status,
                  dir |-> journal.dir, count |-> journal.count]
    /\ journal.status \in Status \cup {<<>>}
    /\ journal.dir \in Index \cup {-1}
    /\ \/ journal.count = <<>>
       \/ /\ journal.count \in Index \X Nat
          /\ \/ journal.count[1] = journal.dir
             \/ journal.count[2] <= Len(dirs[journal.count[1]])

\* A command that has just made its journal has recorded nothing of the stack.
NewJournal == \A p \in Proc : pc[p] = "journal" => journal.count = <<>>

TInv == TypeOK /\ Exclusive /\ Budget /\ JournalShape /\ NewJournal

\* The initial state.
LEMMA InitTInv == Init => TInv
<1> SUFFICES ASSUME Init PROVE TInv
      OBVIOUS
<1> USE BoundAssumption DEF Init
<1>1. pc = [p \in Proc |-> "idle"] /\ "idle" \in PCs
      BY DEF PCs
<1>2. TypeOK
  <2>1. journal.there = FALSE /\ journal.base = 0 /\ journal.half = [h \in Half |-> -1]
        BY DEF NoJournal
  <2>2. status \in Status \cup {<<>>} /\ mem \in [Proc -> Status]
        BY DEF Status
  <2>3. dirs \in [Index -> Seq(0..MaxVersion)]
        OBVIOUS
  <2>4. /\ db \in 0..MaxVersion /\ files \in [Half -> 0..MaxVersion]
        /\ from \in [Proc -> 0..MaxVersion] /\ seen \in [Proc -> -1..MaxVersion]
        /\ hunks \in [Proc -> 0..MaxHunk] /\ mine \in [Proc -> Index \cup {-1}]
        BY DEF Index
  <2>5. /\ inv \in [Proc -> BOOLEAN] /\ saved \in [Proc -> BOOLEAN]
        /\ statusNew \in BOOLEAN /\ lockFile \in BOOLEAN
        OBVIOUS
  <2>6. journal.half \in [Half -> -1..MaxVersion]
        BY <2>1
  <2>7. journal.there \in BOOLEAN
        BY <2>1
  <2>8. holder \in Proc \cup {NoProc} /\ pc \in [Proc -> PCs]
        BY <1>1
  <2>9. journal.base \in 0..MaxVersion
        BY <2>1
  <2> HIDE DEF Init
  <2> QED  BY <2>2, <2>3, <2>4, <2>5, <2>6, <2>7, <2>8, <2>9 DEF TypeOK
<1>3. Exclusive /\ Budget /\ NewJournal
      BY <1>1 DEF Exclusive, Budget, BudgetOf, NewJournal, Between, Journaling,
         Undoable, Late
<1>4. JournalShape
      BY DEF JournalShape, NoJournal
<1> QED  BY <1>2, <1>3, <1>4 DEF TInv

\* While one command is past the lock, no other is.
LEMMA AloneT ==
    ASSUME TInv, NEW p \in Proc, pc[p] \in Between \cup Journaling
    PROVE  \A q \in Proc : pc[q] \in Between \cup Journaling => q = p
BY DEF TInv, Exclusive

\* What others know and may do is left alone by a step of p.
LEMMA BudgetFrame ==
    ASSUME TInv, NEW p \in Proc, NEW at \in PCs, Goto(p, at),
           \A q \in Proc \ {p} : /\ hunks'[q] = hunks[q] /\ seen'[q] = seen[q]
                                 /\ mine'[q] = mine[q] /\ mem'[q] = mem[q],
           db' = db \/ pc[p] \in Between \cup Journaling,
           BudgetOf(p)'
    PROVE  Budget'
<1>1. pc' = [pc EXCEPT ![p] = at] /\ pc \in [Proc -> PCs]
      BY DEF TInv, TypeOK, Goto
<1> SUFFICES ASSUME NEW q \in Proc, q # p PROVE BudgetOf(q)'
      BY DEF Budget
<1>2. BudgetOf(q) /\ pc'[q] = pc[q]
      BY <1>1 DEF TInv, Budget
<1>3. CASE db' = db
      BY <1>2, <1>3 DEF BudgetOf
<1>4. CASE pc[p] \in Between \cup Journaling
  <2>1. pc[q] \notin Between \cup Journaling
        BY <1>4, AloneT
  <2> QED  BY <1>2, <2>1 DEF BudgetOf, Between, Journaling
<1> QED  BY <1>3, <1>4

\* Taking and losing the lock.
LEMMA ExclusiveFrame ==
    ASSUME TInv, NEW p \in Proc, NEW at \in PCs, Goto(p, at),
           \/ holder' = holder /\ (at \in Between \cup Journaling
                                     => pc[p] \in Between \cup Journaling)
           \/ holder = NoProc /\ holder' = p
           \/ /\ holder' = IF holder = p THEN NoProc ELSE holder
              /\ at \notin Between \cup Journaling
    PROVE  Exclusive'
<1>1. pc' = [pc EXCEPT ![p] = at] /\ pc \in [Proc -> PCs]
      BY DEF TInv, TypeOK, Goto
<1> QED  BY <1>1, ProcAssumption DEF TInv, Exclusive

\* The types of what a step leaves alone.
LEMMA TypesT ==
    ASSUME TInv
    PROVE  /\ db \in 0..MaxVersion /\ files \in [Half -> 0..MaxVersion]
           /\ status \in Status \cup {<<>>} /\ statusNew \in BOOLEAN
           /\ dirs \in [Index -> Seq(0..MaxVersion)]
           /\ journal.there \in BOOLEAN /\ journal.base \in 0..MaxVersion
           /\ journal.half \in [Half -> -1..MaxVersion]
           /\ mem \in [Proc -> Status] /\ hunks \in [Proc -> 0..MaxHunk]
           /\ from \in [Proc -> 0..MaxVersion]
           /\ seen \in [Proc -> -1..MaxVersion]
           /\ mine \in [Proc -> Index \cup {-1}] /\ pc \in [Proc -> PCs]
           /\ inv \in [Proc -> BOOLEAN] /\ saved \in [Proc -> BOOLEAN]
BY DEF TInv, TypeOK

\* A status file that is there is what it says.
LEMMA ListedFacts ==
    ASSUME NEW st \in Status \cup {<<>>}
    PROVE  /\ Listed(st) \in Status
           /\ st # <<>> => Listed(st) = st
           /\ st = <<>> => Listed(st) = <<0, -1>>
           /\ Listed(st)[2] # -1 => st # <<>>
           /\ \A s \in Status : s # <<>> /\ Listed(s) = s
<1>1. \A s \in Status : Len(s) = 2
      BY DEF Status
<1>2. Len(<<>>) = 0
      OBVIOUS
<1>3. \A s \in Status : s # <<>>
      BY <1>1, <1>2
<1>4. <<0, -1>> \in Status
      BY BoundAssumption DEF Status
<1>5. \A s \in Status : Listed(s) = s
      BY <1>3 DEF Listed
<1>6. Listed(<<>>) = <<0, -1>>
      BY DEF Listed
<1>7. CASE st \in Status
      BY <1>3, <1>5, <1>7
<1>8. CASE st = <<>>
      BY <1>3, <1>4, <1>5, <1>6, <1>8
<1> QED  BY <1>7, <1>8

\* What a process knows when it is started again has its type.
LEMMA ExitTypes ==
    ASSUME TInv, NEW p \in Proc, Exit(p)
    PROVE  /\ mem' \in [Proc -> Status] /\ from' \in [Proc -> 0..MaxVersion]
           /\ seen' \in [Proc -> -1..MaxVersion]
           /\ hunks' \in [Proc -> 0..MaxHunk]
           /\ mine' \in [Proc -> Index \cup {-1}]
           /\ inv' \in [Proc -> BOOLEAN] /\ saved' \in [Proc -> BOOLEAN]
BY TypesT, BoundAssumption DEF Exit, Status

\* Steps that leave the database, the disk and the lock alone.
LEMMA QuietTInv ==
    ASSUME TInv, NEW p \in Proc,
           \/ Open(p) \/ ComputeJob(p) \/ ReadCounter(p) \/ Decline(p)
             \/ LockFails(p) \/ CheckStale(p)
           \/ LeaveCommit(p) \/ CommitJournal(p) \/ Stop(p) \/ Close(p)
    PROVE  TInv'
<1> DEFINE Acts == \/ Open(p) \/ ComputeJob(p) \/ ReadCounter(p) \/ Decline(p)
             \/ LockFails(p)
                   \/ CheckStale(p) \/ LeaveCommit(p) \/ CommitJournal(p)
                   \/ Stop(p) \/ Close(p)
<1>1. UNCHANGED <<db, files, status, statusNew, dirs, journal, lockFile, holder>>
      BY DEF Open, ComputeJob, ReadCounter, Decline, LockFails, CheckStale,
         LeaveCommit, CommitJournal, Stop, Close, disk, lock
<1>2. PICK to \in PCs \ {"journal"} :
        /\ Goto(p, to)
        /\ to \in Between \cup Journaling => pc[p] \in Between \cup Journaling
      BY DEF Open, ComputeJob, ReadCounter, Exit, Decline, LockFails,
         CheckStale, LeaveCommit,
         CommitJournal, Stop, Close, PCs, Between, Journaling, Undoable, Late
<1>3. pc' = [pc EXCEPT ![p] = to] /\ pc \in [Proc -> PCs] /\ pc' \in [Proc -> PCs]
      BY <1>2 DEF TInv, TypeOK, Goto
<1>4. /\ mem' \in [Proc -> Status] /\ from' \in [Proc -> 0..MaxVersion]
      /\ seen' \in [Proc -> -1..MaxVersion] /\ hunks' \in [Proc -> 0..MaxHunk]
      /\ mine' \in [Proc -> Index \cup {-1}]
      /\ inv' \in [Proc -> BOOLEAN] /\ saved' \in [Proc -> BOOLEAN]
  <2>1. CASE ComputeJob(p)
    <3>1. PICK n \in 1..MaxHunk : hunks' = [hunks EXCEPT ![p] = n]
          BY <2>1 DEF ComputeJob
    <3>2. hunks' \in [Proc -> 0..MaxHunk]
          BY <3>1, BoundAssumption, TypesT
    <3> QED  BY <2>1, <3>2, TypesT DEF ComputeJob
  <2>2. CASE ReadCounter(p)
    <3>1. PICK c \in {db, -1} : seen' = [seen EXCEPT ![p] = c]
          BY <2>2 DEF ReadCounter
    <3>2. seen' \in [Proc -> -1..MaxVersion]
          BY <3>1, BoundAssumption, TypesT
    <3> QED  BY <2>2, <3>2, TypesT DEF ReadCounter
  <2>3. CASE Open(p)
        BY <2>3, TypesT, ListedFacts DEF Open
  <2>4. CASE Decline(p) \/ Close(p)
        BY <2>4, ExitTypes DEF Decline, Close
  <2> QED  BY <2>1, <2>2, <2>3, <2>4, TypesT DEF LockFails, CheckStale,
              LeaveCommit, CommitJournal, Stop, work
<1>6. TypeOK'
      BY <1>1, <1>3, <1>4 DEF TInv, TypeOK
<1>7. Exclusive'
      BY <1>1, <1>2, ExclusiveFrame
<1>8. JournalShape'
      BY <1>1 DEF TInv, JournalShape
<1>9. NewJournal'
      BY <1>1, <1>2, <1>3 DEF TInv, NewJournal
<1>10. \A q \in Proc \ {p} : /\ hunks'[q] = hunks[q] /\ seen'[q] = seen[q]
                             /\ mine'[q] = mine[q] /\ mem'[q] = mem[q]
      BY DEF TInv, TypeOK, Open, ComputeJob, ReadCounter, Exit, Decline,
         LockFails,
         CheckStale, LeaveCommit, CommitJournal, Stop, Close, work
<1>11. BudgetOf(p)'
  <2>1. BudgetOf(p)
        BY DEF TInv, Budget
  <2>2. CASE ComputeJob(p)
    <3>1. PICK n \in 1..MaxHunk : hunks' = [hunks EXCEPT ![p] = n]
          BY <2>2 DEF ComputeJob
    <3>2. hunks'[p] = n /\ pc'[p] = "computed"
          BY <2>2, <3>1, TypesT DEF ComputeJob, Goto
    <3> QED  BY <3>1, <3>2 DEF BudgetOf, Undoable, Late
  <2>6. CASE ReadCounter(p)
    <3>1. pc[p] = "computed" /\ pc'[p] = "ready" /\ hunks' = hunks
          BY <1>3, <2>6 DEF ReadCounter, Goto
    <3> QED  BY <2>1, <3>1 DEF BudgetOf, Undoable, Late
  <2>3. CASE Open(p) \/ Decline(p) \/ LockFails(p) \/ Stop(p) \/ Close(p)
    <3>1. pc'[p] \in {"open", "idle", "unlocked", "finishing"}
          BY <1>3, <2>3 DEF Open, Decline, LockFails, Stop, Close, Exit, Goto
    <3> QED  BY <3>1 DEF BudgetOf, Undoable, Late
  <2>4. CASE CheckStale(p)
    <3>1. \/ pc'[p] = "begin" /\ seen[p] \in {-1, db}
          \/ pc'[p] = "finishing"
          BY <1>3, <2>4 DEF CheckStale, Goto
    <3>2. pc[p] = "locked" /\ UNCHANGED <<db, mem, seen, hunks, mine>>
          BY <2>4 DEF CheckStale, work
    <3> QED  BY <2>1, <3>1, <3>2 DEF BudgetOf, Undoable, Late
  <2>5. CASE LeaveCommit(p) \/ CommitJournal(p)
    <3>1. pc[p] \in Late /\ pc'[p] \in Late \ {"committed"}
          BY <1>3, <2>5 DEF LeaveCommit, CommitJournal, Goto, Late
    <3>2. UNCHANGED <<db, mem, seen, hunks, mine>>
          BY <2>5 DEF LeaveCommit, CommitJournal, work
    <3> QED  BY <2>1, <3>1, <3>2 DEF BudgetOf, Undoable, Late
  <2> QED  BY <2>2, <2>3, <2>4, <2>5, <2>6
<1>12. Budget'
      BY <1>1, <1>2, <1>10, <1>11, BudgetFrame
<1> QED  BY <1>6, <1>7, <1>8, <1>9, <1>12 DEF TInv

\* The lock is taken, given back, or lost with the process.
LEMMA LockTInv ==
    ASSUME TInv, NEW p \in Proc, Lock(p) \/ Unlock(p) \/ Crash(p)
    PROVE  TInv'
<1>1. UNCHANGED <<db, files, status, statusNew, dirs, journal>>
      BY DEF Lock, Unlock, Crash, disk
<1>2. PICK to \in {"locked", "unlocked", "idle"} :
        /\ Goto(p, to)
        /\ \/ to = "locked" /\ holder = NoProc /\ holder' = p
           \/ to # "locked" /\ holder' = IF holder = p THEN NoProc ELSE holder
      BY DEF Lock, Unlock, Crash, Exit, TInv, Exclusive, Between
<1>3. /\ to \in PCs \ {"journal"} /\ pc' = [pc EXCEPT ![p] = to]
      /\ pc \in [Proc -> PCs] /\ pc' \in [Proc -> PCs]
      BY <1>2 DEF TInv, TypeOK, Goto, PCs, Between
<1>4. lockFile' \in BOOLEAN
      BY DEF Lock, Unlock, Crash, TInv, TypeOK
<1>5. holder' \in Proc \cup {NoProc}
      BY <1>2 DEF TInv, TypeOK
<1>12. /\ mem' \in [Proc -> Status] /\ from' \in [Proc -> 0..MaxVersion]
       /\ seen' \in [Proc -> -1..MaxVersion] /\ hunks' \in [Proc -> 0..MaxHunk]
       /\ mine' \in [Proc -> Index \cup {-1}]
       /\ inv' \in [Proc -> BOOLEAN] /\ saved' \in [Proc -> BOOLEAN]
       /\ \A q \in Proc \ {p} : /\ hunks'[q] = hunks[q] /\ seen'[q] = seen[q]
                              /\ mine'[q] = mine[q] /\ mem'[q] = mem[q]
  <2>1. CASE Crash(p)
        BY <2>1, ExitTypes, TypesT DEF Crash, Exit
  <2> QED  BY <2>1, TypesT DEF Lock, Unlock, work
<1>6. TypeOK'
      BY <1>1, <1>3, <1>4, <1>5, <1>12 DEF TInv, TypeOK
<1>7. Exclusive'
      BY <1>2, <1>3, ExclusiveFrame DEF Between, Journaling, Undoable, Late
<1>8. JournalShape'
      BY <1>1 DEF TInv, JournalShape
<1>9. NewJournal'
      BY <1>1, <1>3 DEF TInv, NewJournal
<1>10. BudgetOf(p)'
  <2>1. BudgetOf(p) /\ pc'[p] = to
        BY <1>3 DEF TInv, Budget
  <2>2. to = "locked" => /\ pc[p] = "ready" /\ mem[p][2] < MaxVersion
                         /\ db + hunks[p] <= MaxVersion
                         /\ UNCHANGED <<mem, hunks, mine>>
        BY <1>3 DEF Lock, Unlock, Crash, Exit, Goto, work
  <2> QED  BY <1>1, <1>2, <2>1, <2>2 DEF BudgetOf, Undoable, Late
<1>11. Budget'
      BY <1>1, <1>2, <1>3, <1>10, <1>12, BudgetFrame
<1> QED  BY <1>6, <1>7, <1>8, <1>9, <1>11 DEF TInv

\* A step of the command that holds the lock, which goes on or stops there.
LEMMA HolderTInv ==
    ASSUME TInv, NEW p \in Proc, NEW at \in PCs, Goto(p, at),
           pc[p] \in Between \cup Journaling, UNCHANGED <<lockFile, holder, from, seen>>,
           \A q \in Proc \ {p} : /\ hunks'[q] = hunks[q] /\ mine'[q] = mine[q]
                                 /\ mem'[q] = mem[q],
           db' \in 0..MaxVersion, files' \in [Half -> 0..MaxVersion],
           status' \in Status \cup {<<>>}, statusNew' \in BOOLEAN,
           dirs' \in [Index -> Seq(0..MaxVersion)],
           journal'.there \in BOOLEAN, journal'.base \in 0..MaxVersion,
           journal'.half \in [Half -> -1..MaxVersion],
           mem' \in [Proc -> Status], hunks' \in [Proc -> 0..MaxHunk],
           mine' \in [Proc -> Index \cup {-1}],
           inv' \in [Proc -> BOOLEAN], saved' \in [Proc -> BOOLEAN],
           JournalShape', at = "journal" => journal'.count = <<>>,
           BudgetOf(p)'
    PROVE  TInv'
<1>1. /\ pc' = [pc EXCEPT ![p] = at] /\ pc \in [Proc -> PCs]
      /\ pc' \in [Proc -> PCs] /\ pc'[p] = at
      BY DEF TInv, TypeOK, Goto
<1>2. TypeOK'
      BY <1>1 DEF TInv, TypeOK
<1>3. Exclusive'
      BY ExclusiveFrame
<1>4. Budget'
      BY BudgetFrame
<1>5. \A q \in Proc : pc'[q] \in Between \cup Journaling => q = p
      BY <1>1, AloneT
<1>6. NewJournal'
      BY <1>1, <1>5 DEF NewJournal, Journaling, Undoable
<1> QED  BY <1>2, <1>3, <1>4, <1>6 DEF TInv

LEMMA CreateTInv ==
    ASSUME TInv, NEW p \in Proc, CreateJournal(p)
    PROVE  TInv'
<1>1. /\ Goto(p, "journal") /\ "journal" \in PCs /\ pc[p] = "begin"
      /\ pc[p] \in Between \cup Journaling
      /\ UNCHANGED <<db, files, status, statusNew, dirs, lockFile, holder>>
      /\ UNCHANGED <<mem, from, seen, hunks, mine, saved>>
      BY DEF CreateJournal, PCs, Journaling, Undoable, Between, lock
<1>2. journal' = [there |-> TRUE, base |-> db, half |-> [h \in Half |-> -1],
                  status |-> <<>>, dir |-> -1, count |-> <<>>]
      BY DEF CreateJournal, NoJournal
<1>3. /\ journal'.there = TRUE /\ journal'.base = db
      /\ journal'.half = [h \in Half |-> -1] /\ journal'.status = <<>>
      /\ journal'.dir = -1 /\ journal'.count = <<>>
      BY <1>2
<1>4. JournalShape'
      BY <1>2, <1>3 DEF JournalShape
<1>5. inv' \in [Proc -> BOOLEAN]
      BY TypesT DEF CreateJournal
<1>6. BudgetOf(p)'
  <2>1. BudgetOf(p) /\ pc'[p] = "journal"
        BY <1>1, TypesT DEF TInv, Budget, Goto
  <2> QED  BY <1>1, <2>1 DEF BudgetOf, Undoable, Late
<1>7. journal'.half \in [Half -> -1..MaxVersion]
      BY <1>3, BoundAssumption
<1>8. journal'.there \in BOOLEAN
      BY <1>3
<1> QED  BY <1>1, <1>3, <1>4, <1>5, <1>6, <1>7, <1>8, TypesT, HolderTInv

\* A new rollback directory, at an index the stack has room for.
LEMMA NewRollbackTInv ==
    ASSUME TInv, NEW p \in Proc, NewRollback(p)
    PROVE  TInv'
<1> DEFINE k == mem[p][2] + 1
<1>1. PICK to \in {"refused", "status"} : Goto(p, to)
      BY DEF NewRollback, Goto
<1>2. /\ to \in PCs /\ to # "journal" /\ pc[p] = "journal"
      /\ pc[p] \in Between \cup Journaling
      /\ UNCHANGED <<db, files, status, lockFile, holder>>
      /\ UNCHANGED <<from, seen, hunks, inv, saved>>
      BY DEF NewRollback, PCs, Journaling, Undoable, lock
<1>3. BudgetOf(p) /\ pc'[p] = to
      BY <1>1, TypesT DEF TInv, Budget, Goto
<1>4. k \in Index /\ mem[p] \in Status
  <2>1. mem[p] \in Status
        BY TypesT
  <2>2. mem[p][2] < MaxVersion
        BY <1>2, <1>3 DEF BudgetOf, NewRollback
  <2> QED  BY <2>1, <2>2, BoundAssumption DEF Status, Index
<1>5. /\ dirs' = [dirs EXCEPT ![k] = <<>>] /\ mine' = [mine EXCEPT ![p] = k]
      /\ journal' = [journal EXCEPT !.dir = k] /\ statusNew' = TRUE
      /\ mem' = [mem EXCEPT ![p] = <<mem[p][1], k>>]
      BY TypesT DEF NewRollback
<1> HIDE DEF k
<1>6. /\ dirs' \in [Index -> Seq(0..MaxVersion)]
      /\ mine' \in [Proc -> Index \cup {-1}]
      BY <1>4, <1>5, TypesT
<1>7. mem' \in [Proc -> Status]
  <2>1. <<mem[p][1], k>> \in Status
        BY <1>4, BoundAssumption DEF Status, Index
  <2> QED  BY <1>5, <2>1, TypesT
<1>8. /\ journal'.there = journal.there /\ journal'.base = journal.base
      /\ journal'.half = journal.half /\ journal'.status = journal.status
      /\ journal'.count = journal.count /\ journal'.dir = k
      /\ journal' = [there |-> journal'.there, base |-> journal'.base,
                     half |-> journal'.half, status |-> journal'.status,
                     dir |-> journal'.dir, count |-> journal'.count]
      BY <1>5 DEF TInv, JournalShape
<1>9. JournalShape'
      BY <1>2, <1>4, <1>8 DEF TInv, JournalShape, NewJournal
<1>10. mine'[p] = k /\ k # -1
      BY <1>4, <1>5, TypesT, BoundAssumption DEF Index
<1>11. BudgetOf(p)'
      BY <1>1, <1>2, <1>3, <1>10 DEF BudgetOf, Undoable, Late
<1>12. \A q \in Proc \ {p} : mine'[q] = mine[q] /\ mem'[q] = mem[q]
      BY <1>5, TypesT
<1>13. statusNew' \in BOOLEAN
      BY <1>5
<1> QED  BY <1>1, <1>2, <1>6, <1>7, <1>8, <1>9, <1>11, <1>12, <1>13, TypesT,
            HolderTInv

LEMMA RenameStatusTInv ==
    ASSUME TInv, NEW p \in Proc, RenameStatus(p)
    PROVE  TInv'
<1>1. /\ Goto(p, "stacked") /\ "stacked" \in PCs /\ pc[p] = "status"
      /\ pc[p] \in Between \cup Journaling
      /\ UNCHANGED <<db, files, dirs, lockFile, holder>>
      /\ UNCHANGED <<mem, from, seen, hunks, mine, inv, saved>>
      BY DEF RenameStatus, PCs, Journaling, Undoable, lock, work
<1>2. status' = mem[p] /\ mem[p] \in Status
      BY TypesT DEF RenameStatus
<1>3. statusNew' \in BOOLEAN
      BY DEF RenameStatus
<1>4. /\ journal'.there = journal.there /\ journal'.base = journal.base
      /\ journal'.half = journal.half /\ journal'.status = status
      /\ journal'.count = journal.count /\ journal'.dir = journal.dir
      /\ journal' = [there |-> journal'.there, base |-> journal'.base,
                     half |-> journal'.half, status |-> journal'.status,
                     dir |-> journal'.dir, count |-> journal'.count]
      BY DEF RenameStatus, TInv, JournalShape
<1>5. JournalShape'
      BY <1>1, <1>4, TypesT DEF TInv, JournalShape
<1>6. BudgetOf(p)'
  <2>1. BudgetOf(p) /\ pc'[p] = "stacked"
        BY <1>1, TypesT DEF TInv, Budget, Goto
  <2> QED  BY <1>1, <2>1 DEF BudgetOf, Undoable, Late
<1> QED  BY <1>1, <1>2, <1>3, <1>4, <1>5, <1>6, TypesT, HolderTInv

\* The count that is recorded is the one before the pair was added.
LEMMA AddRollbackTInv ==
    ASSUME TInv, NEW p \in Proc, AddRollback(p)
    PROVE  TInv'
<1> DEFINE k == mine[p]
<1>1. /\ Goto(p, "added") /\ "added" \in PCs /\ pc[p] \in {"stacked", "journal"}
      /\ pc[p] \in Between \cup Journaling
      /\ UNCHANGED <<db, files, status, statusNew, lockFile, holder>>
      /\ UNCHANGED <<mem, from, seen, hunks, mine, inv, saved>>
      BY DEF AddRollback, PCs, Journaling, Undoable, lock, work
<1>2. BudgetOf(p) /\ pc'[p] = "added"
      BY <1>1, TypesT DEF TInv, Budget, Goto
<1>3. k \in Index
      BY <1>2, TypesT DEF AddRollback, BudgetOf
<1>4. /\ journal' = [journal EXCEPT !.count = <<k, Len(dirs[k])>>]
      /\ dirs' = [dirs EXCEPT ![k] = Append(dirs[k], db)]
      BY DEF AddRollback
<1>5. dirs[k] \in Seq(0..MaxVersion) /\ db \in 0..MaxVersion
      BY <1>3, TypesT
<1> HIDE DEF k
<1>6. /\ Append(dirs[k], db) \in Seq(0..MaxVersion)
      /\ Len(Append(dirs[k], db)) = Len(dirs[k]) + 1 /\ Len(dirs[k]) \in Nat
      BY <1>5
<1>7. dirs' \in [Index -> Seq(0..MaxVersion)] /\ dirs'[k] = Append(dirs[k], db)
      BY <1>3, <1>4, <1>6, TypesT
<1>8. /\ journal'.there = journal.there /\ journal'.base = journal.base
      /\ journal'.half = journal.half /\ journal'.status = journal.status
      /\ journal'.count = <<k, Len(dirs[k])>> /\ journal'.dir = journal.dir
      /\ journal' = [there |-> journal'.there, base |-> journal'.base,
                     half |-> journal'.half, status |-> journal'.status,
                     dir |-> journal'.dir, count |-> journal'.count]
      BY <1>4 DEF TInv, JournalShape
<1>9. /\ journal'.count \in Index \X Nat
      /\ journal'.count[2] <= Len(dirs'[journal'.count[1]])
      BY <1>3, <1>6, <1>7, <1>8
<1>10. JournalShape'
      BY <1>8, <1>9 DEF TInv, JournalShape
<1>11. BudgetOf(p)'
      BY <1>1, <1>2, <1>3, BoundAssumption DEF BudgetOf, Undoable, Late, k,
         Index,
         AddRollback
<1> QED  BY <1>1, <1>7, <1>8, <1>10, <1>11, TypesT, HolderTInv

LEMMA ApplyTInv ==
    ASSUME TInv, NEW p \in Proc, Apply(p)
    PROVE  TInv'
<1>1. PICK h \in Half :
        /\ pc[p] = IF h = 1 THEN "added" ELSE "torn"
        /\ journal' = [journal EXCEPT !.half[h] = files[h]]
        /\ files' = [files EXCEPT ![h] = db + 1]
        /\ Goto(p, IF h = 1 THEN "torn" ELSE "applied")
        /\ UNCHANGED <<db, status, statusNew, dirs, lock, work>>
      BY DEF Apply
<1>2. PICK to \in {"torn", "applied"} : Goto(p, to)
      BY <1>1
<1>3. /\ to \in PCs /\ to # "journal" /\ pc[p] \in {"added", "torn"}
      /\ pc[p] \in Between \cup Journaling
      /\ UNCHANGED <<db, status, statusNew, dirs, lockFile, holder>>
      /\ UNCHANGED <<mem, from, seen, hunks, mine, inv, saved>>
      BY <1>1 DEF PCs, Journaling, Undoable, lock, work
<1>4. BudgetOf(p) /\ pc'[p] = to
      BY <1>2, TypesT DEF TInv, Budget, Goto
<1>5. BudgetOf(p)'
      BY <1>2, <1>3, <1>4 DEF BudgetOf, Undoable, Late
<1>6. db + 1 \in 0..MaxVersion
      BY <1>3, <1>4, TypesT, BoundAssumption DEF BudgetOf, Undoable
<1>7. files' \in [Half -> 0..MaxVersion] /\ files[h] \in -1..MaxVersion
      BY <1>1, <1>6, TypesT
<1>8. /\ journal'.there = journal.there /\ journal'.base = journal.base
      /\ journal'.half = [journal.half EXCEPT ![h] = files[h]]
      /\ journal'.status = journal.status
      /\ journal'.count = journal.count /\ journal'.dir = journal.dir
      /\ journal' = [there |-> journal'.there, base |-> journal'.base,
                     half |-> journal'.half, status |-> journal'.status,
                     dir |-> journal'.dir, count |-> journal'.count]
      BY <1>1 DEF TInv, JournalShape
<1>9. journal'.half \in [Half -> -1..MaxVersion]
      BY <1>7, <1>8, TypesT
<1>10. JournalShape'
      BY <1>3, <1>8 DEF TInv, JournalShape
<1> QED  BY <1>2, <1>3, <1>5, <1>7, <1>8, <1>9, <1>10, TypesT, HolderTInv

\* A job never installs more change sets than it has.
LEMMA CommitTInv ==
    ASSUME TInv, NEW p \in Proc, CommitDatabase(p)
    PROVE  TInv'
<1>1. /\ Goto(p, "committed") /\ "committed" \in PCs /\ pc[p] = "applied"
      /\ pc[p] \in Between \cup Journaling
      /\ UNCHANGED <<files, status, statusNew, dirs, journal, lockFile, holder>>
      /\ UNCHANGED <<mem, from, seen, mine, inv>>
      /\ db' = db + 1 /\ hunks' = [hunks EXCEPT ![p] = hunks[p] - 1]
      BY DEF CommitDatabase, PCs, Journaling, Undoable, Late, disk, lock
<1>2. BudgetOf(p) /\ pc'[p] = "committed" /\ hunks[p] \in 0..MaxHunk
      BY <1>1, TypesT DEF TInv, Budget, Goto
<1>3. hunks[p] >= 1 /\ db + hunks[p] <= MaxVersion /\ mine[p] # -1
      BY <1>1, <1>2 DEF BudgetOf, Undoable
<1>4. db' \in 0..MaxVersion
      BY <1>1, <1>2, <1>3, TypesT, BoundAssumption
<1>5. hunks[p] - 1 \in 0..MaxHunk /\ db + 1 + (hunks[p] - 1) <= MaxVersion
      BY <1>2, <1>3, TypesT, BoundAssumption
<1>6. hunks' \in [Proc -> 0..MaxHunk] /\ hunks'[p] = hunks[p] - 1
      BY <1>1, <1>5, TypesT
<1>7. saved' \in [Proc -> BOOLEAN]
  <2>1. PICK s \in BOOLEAN : saved' = [saved EXCEPT ![p] = s]
        BY DEF CommitDatabase
  <2> QED  BY <2>1, TypesT
<1>8. BudgetOf(p)'
      BY <1>1, <1>2, <1>3, <1>5, <1>6 DEF BudgetOf, Undoable, Late
<1>9. JournalShape'
      BY <1>1 DEF TInv, JournalShape
<1>10. \A q \in Proc \ {p} : hunks'[q] = hunks[q]
      BY <1>1, TypesT
<1> QED  BY <1>1, <1>4, <1>6, <1>7, <1>8, <1>9, <1>10, TypesT, HolderTInv

LEMMA RemoveTInv ==
    ASSUME TInv, NEW p \in Proc, RemoveJournal(p) \/ DropJournal(p)
    PROVE  TInv'
<1>1. PICK to \in {"hunkDone", "finishing"} :
        Goto(p, to) /\ (to = "hunkDone" => pc[p] = "clearing")
      BY DEF RemoveJournal, DropJournal
<1>2. /\ to \in PCs /\ to # "journal" /\ pc[p] \in Between \cup Journaling
      /\ UNCHANGED <<db, files, status, statusNew, dirs, lockFile, holder>>
      /\ UNCHANGED <<mem, from, seen, hunks, mine, inv, saved>>
      BY <1>1 DEF RemoveJournal, DropJournal, PCs, Between, Journaling, Late,
         lock, work
<1>3. BudgetOf(p) /\ pc'[p] = to
      BY <1>1, TypesT DEF TInv, Budget, Goto
<1>4. BudgetOf(p)'
      BY <1>1, <1>2, <1>3 DEF BudgetOf, Undoable, Late
<1>5. journal' = NoJournal
      BY DEF RemoveJournal, DropJournal
<1>6. JournalShape' /\ journal'.half \in [Half -> -1..MaxVersion]
      BY <1>5, BoundAssumption DEF JournalShape, NoJournal
<1>7. journal'.there \in BOOLEAN
      BY <1>5 DEF NoJournal
<1>8. journal'.base \in 0..MaxVersion
      BY <1>5, BoundAssumption DEF NoJournal
<1> QED  BY <1>1, <1>2, <1>4, <1>6, <1>7, <1>8, TypesT, HolderTInv

\* An invalidated stack starts after its last rollback.
LEMMA EndHunkTInv ==
    ASSUME TInv, NEW p \in Proc, EndHunk(p)
    PROVE  TInv'
<1>1. /\ pc[p] = "hunkDone" /\ pc[p] \in Between \cup Journaling
      /\ UNCHANGED <<db, files, statusNew, dirs, journal, lockFile, holder>>
      /\ UNCHANGED <<from, seen, hunks, mine, inv, saved>>
      BY DEF EndHunk, Between, lock
<1>2. PICK to \in {"finishing", "begin"} :
        Goto(p, to) /\ (to = "begin" => hunks[p] # 0)
      BY DEF EndHunk
<1>3. to \in PCs /\ to # "journal"
      BY <1>2 DEF PCs, Between
<1>4. /\ status' \in Status \cup {<<>>} /\ mem' \in [Proc -> Status]
      /\ \A q \in Proc \ {p} : mem'[q] = mem[q]
  <2>1. <<mem[p][2] + 1, mem[p][2]>> \in Status
        BY TypesT, BoundAssumption DEF Status
  <2>2. CASE inv[p]
        BY <2>1, <2>2, TypesT DEF EndHunk
  <2>3. CASE ~inv[p]
        BY <2>3, TypesT DEF EndHunk
  <2> QED  BY <2>2, <2>3
<1>5. /\ BudgetOf(p) /\ pc'[p] = to /\ hunks[p] \in 0..MaxHunk
      BY <1>2, TypesT DEF TInv, Budget, Goto
<1>6. BudgetOf(p)'
      BY <1>1, <1>2, <1>5, BoundAssumption DEF BudgetOf, Undoable, Late
<1>7. JournalShape'
      BY <1>1 DEF TInv, JournalShape
<1> QED  BY <1>1, <1>2, <1>3, <1>4, <1>6, <1>7, TypesT, HolderTInv

\* A prefix of a sequence.
LEMMA Prefix ==
    ASSUME NEW S, NEW s \in Seq(S), NEW n \in Nat, n <= Len(s)
    PROVE  /\ SubSeq(s, 1, n) \in Seq(S)
           /\ Len(SubSeq(s, 1, n)) = n
           /\ \A i \in 1..n : SubSeq(s, 1, n)[i] = s[i]
<1>1. Len(s) \in Nat /\ 1 \in 1..(Len(s) + 1) /\ n \in (1 - 1)..Len(s)
      OBVIOUS
<1> QED  BY <1>1, SubSeqProperties

\* What revert() makes of the disk is of the right types again.
LEMMA UndoneTypes ==
    ASSUME TInv
    PROVE  /\ UndoneFiles \in [Half -> 0..MaxVersion]
           /\ UndoneStatus \in Status \cup {<<>>}
           /\ UndoneDirs \in [Index -> Seq(0..MaxVersion)]
           /\ \/ journal.count = <<>>
              \/ journal.count[1] = journal.dir
              \/ journal.count[2] <= Len(UndoneDirs[journal.count[1]])
<1>1. UndoneFiles \in [Half -> 0..MaxVersion]
  <2>1. \A h \in Half : (IF journal.half[h] = -1 THEN files[h]
                         ELSE journal.half[h]) \in 0..MaxVersion
        BY TypesT, BoundAssumption
  <2> QED  BY <2>1 DEF UndoneFiles
<1>2. UndoneStatus \in Status \cup {<<>>}
      BY TypesT DEF UndoneStatus, TInv, JournalShape
<1>3. \A k \in Index : journal.count # <<>> /\ k = journal.count[1] /\ k # journal.dir
         => /\ SubSeq(dirs[k], 1, journal.count[2]) \in Seq(0..MaxVersion)
            /\ Len(SubSeq(dirs[k], 1, journal.count[2])) = journal.count[2]
            /\ journal.count[2] \in Nat
  <2> SUFFICES ASSUME NEW k \in Index, journal.count # <<>>, k = journal.count[1],
                      k # journal.dir
               PROVE  /\ SubSeq(dirs[k], 1, journal.count[2]) \in Seq(0..MaxVersion)
                      /\ Len(SubSeq(dirs[k], 1, journal.count[2])) = journal.count[2]
                      /\ journal.count[2] \in Nat
        OBVIOUS
  <2>1. journal.count[2] \in Nat /\ journal.count[2] <= Len(dirs[k])
        BY DEF TInv, JournalShape
  <2>2. dirs[k] \in Seq(0..MaxVersion)
        BY TypesT
  <2> QED  BY <2>1, <2>2, Prefix
<1>4. \A k \in Index : UndoneDirs[k] \in Seq(0..MaxVersion)
  <2> SUFFICES ASSUME NEW k \in Index PROVE UndoneDirs[k] \in Seq(0..MaxVersion)
        OBVIOUS
  <2>1. <<>> \in Seq(0..MaxVersion) /\ dirs[k] \in Seq(0..MaxVersion)
        BY TypesT
  <2>2. \/ UndoneDirs[k] = <<>> \/ UndoneDirs[k] = dirs[k]
        \/ /\ journal.count # <<>> /\ k = journal.count[1] /\ k # journal.dir
           /\ UndoneDirs[k] = SubSeq(dirs[k], 1, journal.count[2])
        BY Zenon DEF UndoneDirs
  <2> QED  BY <1>3, <2>1, <2>2
<1>5. UndoneDirs \in [Index -> Seq(0..MaxVersion)]
      BY <1>4 DEF UndoneDirs
<1>6. journal.count # <<>> => journal.count[1] \in Index
      BY DEF TInv, JournalShape
<1>7. \/ journal.count = <<>>
      \/ journal.count[1] = journal.dir
      \/ journal.count[2] <= Len(UndoneDirs[journal.count[1]])
      BY <1>3, <1>6 DEF UndoneDirs
<1> QED  BY <1>1, <1>2, <1>5, <1>7

LEMMA FaultTInv ==
    ASSUME TInv, NEW p \in Proc, Fault(p) \/ LateSignal(p)
    PROVE  TInv'
<1>1. /\ Goto(p, "reverted") /\ "reverted" \in PCs
      /\ pc[p] \in Between \cup Journaling
      /\ UNCHANGED <<db, statusNew, journal, lockFile, holder>>
      /\ UNCHANGED <<mem, from, seen, hunks, mine, inv, saved>>
      BY DEF Fault, LateSignal, Revert, PCs, Journaling, Late, lock, work
<1>2. files' = UndoneFiles /\ status' = UndoneStatus /\ dirs' = UndoneDirs
      BY DEF Fault, LateSignal, Revert
<1>3. JournalShape'
      BY <1>1, <1>2, UndoneTypes DEF TInv, JournalShape
<1>4. pc'[p] = "reverted"
      BY <1>1, TypesT DEF Goto
<1>5. BudgetOf(p)'
      BY <1>4 DEF BudgetOf, Undoable, Late
<1> QED  BY <1>1, <1>2, <1>3, <1>5, TypesT, UndoneTypes, HolderTInv

LEMMA RevertTInv ==
    ASSUME TInv, RevertCommand
    PROVE  TInv'
<1>1. /\ UNCHANGED <<db, statusNew, lockFile, holder, pc>>
      /\ UNCHANGED <<mem, from, seen, hunks, mine, inv, saved>>
      /\ files' = UndoneFiles /\ status' = UndoneStatus /\ dirs' = UndoneDirs
      /\ journal' = NoJournal
      BY DEF RevertCommand, lock, work
<1>2. /\ JournalShape' /\ journal'.half \in [Half -> -1..MaxVersion]
      /\ journal'.base \in 0..MaxVersion /\ journal'.count = <<>>
      BY <1>1, BoundAssumption DEF JournalShape, NoJournal
<1>3. journal'.there \in BOOLEAN
      BY <1>1 DEF NoJournal
<1>4. TypeOK'
      BY <1>1, <1>2, <1>3, UndoneTypes DEF TInv, TypeOK
<1>5. Exclusive' /\ Budget' /\ NewJournal'
      BY <1>1, <1>2 DEF TInv, Exclusive, Budget, BudgetOf, NewJournal
<1> QED  BY <1>2, <1>4, <1>5 DEF TInv

\* The invariant is inductive.
LEMMA NextTInv ==
    ASSUME TInv, [Next]_vars
    PROVE  TInv'
<1>1. CASE UNCHANGED vars
  <2>1. /\ UNCHANGED <<db, files, status, statusNew, dirs, journal>>
        /\ UNCHANGED <<lockFile, holder, pc, mem, from, seen, hunks, mine, inv>>
        /\ saved' = saved
        BY <1>1 DEF vars, disk, lock, work
  <2> QED  BY <2>1 DEF TInv, TypeOK, Exclusive, Budget, BudgetOf, JournalShape,
              NewJournal
<1>2. CASE RevertCommand
      BY <1>2, RevertTInv
<1>3. ASSUME NEW p \in Proc,
             \/ Open(p) \/ ComputeJob(p)
             \/ ReadCounter(p) \/ Decline(p) \/ Step(p)
             \/ Fault(p) \/ Stop(p) \/ LateSignal(p) \/ Crash(p)
      PROVE  TInv'
  <2>1. CASE \/ Open(p) \/ ComputeJob(p) \/ ReadCounter(p) \/ Decline(p)
             \/ LockFails(p)
             \/ CheckStale(p) \/ LeaveCommit(p) \/ CommitJournal(p) \/ Stop(p)
             \/ Close(p)
        BY <2>1, QuietTInv
  <2>2. CASE Lock(p) \/ Unlock(p) \/ Crash(p)
        BY <2>2, LockTInv
  <2>3. CASE CreateJournal(p)
        BY <2>3, CreateTInv
  <2>4. CASE NewRollback(p)
        BY <2>4, NewRollbackTInv
  <2>5. CASE RenameStatus(p)
        BY <2>5, RenameStatusTInv
  <2>6. CASE AddRollback(p)
        BY <2>6, AddRollbackTInv
  <2>7. CASE Apply(p)
        BY <2>7, ApplyTInv
  <2>8. CASE CommitDatabase(p)
        BY <2>8, CommitTInv
  <2>9. CASE RemoveJournal(p) \/ DropJournal(p)
        BY <2>9, RemoveTInv
  <2>10. CASE EndHunk(p)
        BY <2>10, EndHunkTInv
  <2>11. CASE Fault(p) \/ LateSignal(p)
        BY <2>11, FaultTInv
  <2> QED
        BY <1>3, <2>1, <2>2, <2>3, <2>4, <2>5, <2>6, <2>7, <2>8, <2>9, <2>10,
           <2>11 DEF Step
<1> QED  BY <1>1, <1>2, <1>3 DEF Next

\* The types: among them, a job installs no more change sets than it was
\* computed for, and the index of a new rollback is within the stack.
THEOREM TypeCorrect == Spec => []TypeOK
<1>1. TInv => TypeOK
      BY DEF TInv
<1> QED  BY <1>1, InitTInv, NextTInv, PTL DEF Spec

\* At most one command at a time is past the commit lock, whatever fails,
\* dies or is careless: commitLock takes an exclusive lock, the system frees
\* it when the process dies, and nothing between Lock and Unlock gives it up.
THEOREM OneAtATime == Spec => []Exclusive
<1>1. TInv => Exclusive
      BY DEF TInv
<1> QED  BY <1>1, InitTInv, NextTInv, PTL DEF Spec

\* Nobody can commit between the check of the counter in _applyUpdateL and the
\* journal, since both are under the commit lock: the first change set of a
\* job that carries a counter is begun in the state of that counter, and so in
\* the state the computation began in unless the database was changed while it
\* went on.
THEOREM NeverStale == Spec => NoStaleUpdate
<1> DEFINE Fresh == \A p \in Proc :
                      pc[p] = "begin" /\ pc'[p] = "journal" /\ mine[p] = -1
                      /\ db # from[p] => seen[p] # from[p]
<1>1. ASSUME TInv PROVE Fresh
  <2> SUFFICES ASSUME NEW p \in Proc, pc[p] = "begin", mine[p] = -1, db # from[p]
               PROVE  seen[p] # from[p]
        OBVIOUS
  <2>1. seen[p] \in {-1, db} /\ from[p] \in 0..MaxVersion
        BY <1>1, TypesT DEF TInv, Budget, BudgetOf
  <2> QED  BY <2>1, BoundAssumption
<1>2. Spec => []TInv
      BY InitTInv, NextTInv, PTL DEF Spec
<1>3. TInv => [Fresh]_vars
      BY <1>1
<1> QED  BY <1>2, <1>3, PTL DEF NoStaleUpdate

-----------------------------------------------------------------------------
(* The rollback stack.                                                     *)

\* Commands start one after the other, so that the status of the stack each
\* has read is the one on the disk.
Sequential == Regular /\ "staleOpen" \notin Mishaps

\* A stack st with the directories d leads back from version v: what rollback
\* k leads back from, and that it does or was the first and never installed.
AfterIn(st, d, v, k) == IF k = st[2] THEN v ELSE Head(d[k + 1])

Led(st, d, v, k) ==
    \/ /\ d[k] # <<>>
       /\ \A i \in 1..(Len(d[k]) - 1) : d[k][i + 1] = d[k][i] + 1
       /\ d[k][Len(d[k])] + 1 = AfterIn(st, d, v, k)
    \/ d[k] = <<>> /\ k = 0 /\ AfterIn(st, d, v, 0) = 0

Leads(st, d, v) ==
    \A k \in Index : st[1] <= k /\ k <= st[2] => Led(st, d, v, k)

\* The rollback in hand is new: its journal takes the whole of it back, but
\* the first status file there ever was.
First(p) ==
    /\ journal.dir = mine[p]
    /\ \/ journal.status = <<mem[p][1], mem[p][2] - 1>>
       \/ journal.status = <<>> /\ mem[p] = <<0, 0>>

\* What the command that holds the lock knows of the stack and has recorded.
StackOf(p) ==
    /\ pc[p] \in {"idle", "open", "computed", "ready", "locked"} => mine[p] = -1
    /\ pc[p] \in {"locked", "begin", "journal", "stacked", "added", "torn",
                  "applied", "hunkDone"} \cup Late => Listed(status) = mem[p]
    /\ pc[p] \in {"begin", "journal"} => mine[p] \in {-1, mem[p][2]}
    /\ pc[p] \in {"refused", "status", "stacked", "added", "torn", "applied",
                  "hunkDone"} \cup Late => mine[p] = mem[p][2]
    /\ pc[p] = "journal" => journal.dir = -1 /\ journal.status = <<>>
    /\ pc[p] \in {"refused", "status"} =>
         /\ journal.dir = mine[p] /\ journal.status = <<>>
         /\ mem[p] = <<Listed(status)[1], Listed(status)[2] + 1>>
    /\ pc[p] = "stacked" => First(p)
    /\ pc[p] \in {"refused", "status", "stacked"} =>
         journal.count = <<>> /\ dirs[mine[p]] = <<>>
    /\ pc[p] \in {"added", "torn", "applied"} =>
         /\ journal.count = <<mine[p], Len(dirs[mine[p]]) - 1>>
         /\ dirs[mine[p]] # <<>> /\ dirs[mine[p]][Len(dirs[mine[p]])] = db
         /\ \/ First(p) /\ Len(dirs[mine[p]]) = 1
            \/ journal.dir = -1 /\ journal.status = <<>>
    /\ pc[p] = "reverted" => UndoneStatus = status /\ UndoneDirs = dirs

Stacked == \A p \in Proc : StackOf(p)

\* Before there is a status file nothing has been installed.
Unused == status = <<>> => db = 0

SInv == TInv /\ IInv /\ Stacked /\ Unused /\ StackRecoverable

-----------------------------------------------------------------------------
\* What recovery would leave of the stack stays the same.
Kept ==
    /\ db' = db
    /\ SafeStatus' = SafeStatus
    /\ \A k \in SafeStatus[1]..SafeStatus[2] : SafeDirs'[k] = SafeDirs[k]

LEMMA SafeTypes ==
    ASSUME TInv
    PROVE  SafeStatus \in Status /\ SafeDirs \in [Index -> Seq(0..MaxVersion)]
BY TypesT, UndoneTypes, BoundAssumption DEF SafeStatus, SafeDirs, Listed, Status

\* The indexes of a stack are within bounds.
LEMMA InStack ==
    ASSUME NEW st \in Status
    PROVE  /\ st[1] \in Nat /\ st[2] \in Int /\ st[2] <= MaxVersion
           /\ \A k \in st[1]..st[2] : k \in Index
           /\ \A k \in Index : st[1] <= k /\ k <= st[2] => k \in st[1]..st[2]
           /\ \A k \in Index : st[1] <= k /\ k < st[2] => k + 1 \in st[1]..st[2]
BY BoundAssumption DEF Status, Index

\* A stack leads back in the same way when its directories are the same.
LEMMA LeadsFrame ==
    ASSUME NEW st \in Status, NEW d, NEW e, NEW v, Leads(st, d, v),
           \A k \in st[1]..st[2] : e[k] = d[k]
    PROVE  Leads(st, e, v)
<1> SUFFICES ASSUME NEW k \in Index, st[1] <= k, k <= st[2]
             PROVE  Led(st, e, v, k)
      BY DEF Leads
<1>1. e[k] = d[k]
      BY InStack
<1>2. k # st[2] => e[k + 1] = d[k + 1]
  <2>1. k \in Int
        BY BoundAssumption DEF Index
  <2> QED  BY <2>1, InStack
<1>3. Led(st, d, v, k)
      BY DEF Leads
<1>4. AfterIn(st, e, v, k) = AfterIn(st, d, v, k)
      BY <1>2 DEF AfterIn
<1> QED  BY <1>1, <1>3, <1>4 DEF Led

LEMMA RecoverableIsLeads ==
    StackRecoverable <=> Leads(SafeStatus, SafeDirs, db)
BY DEF StackRecoverable, Leads, Led, After, AfterIn

LEMMA KeptRecoverable ==
    ASSUME TInv, StackRecoverable, Kept
    PROVE  StackRecoverable'
<1>1. Leads(SafeStatus, SafeDirs, db) /\ SafeStatus \in Status
      BY RecoverableIsLeads, SafeTypes
<1>2. Leads(SafeStatus, SafeDirs', db)
      BY <1>1, LeadsFrame DEF Kept
<1>3. Leads(SafeStatus', SafeDirs', db')
      BY <1>2 DEF Kept
<1> QED  BY <1>3 DEF StackRecoverable, Leads, Led, After, AfterIn

\* Nothing of the stack or of its journal is touched.
StackUntouched ==
    /\ UNCHANGED <<db, status, dirs>>
    /\ journal'.there = journal.there /\ journal'.base = journal.base
    /\ journal'.status = journal.status /\ journal'.dir = journal.dir
    /\ journal'.count = journal.count

LEMMA UntouchedKept ==
    ASSUME TInv, StackUntouched
    PROVE  /\ Kept
           /\ UndoneStatus' = UndoneStatus /\ UndoneDirs' = UndoneDirs
<1>1. UndoneStatus' = UndoneStatus
      BY DEF StackUntouched, UndoneStatus
<1>2. UndoneDirs' = UndoneDirs
      BY DEF StackUntouched, UndoneDirs
<1>3. Pending' <=> Pending
      BY DEF StackUntouched, Pending
<1>4. SafeStatus' = SafeStatus /\ SafeDirs' = SafeDirs
      BY <1>1, <1>2, <1>3 DEF SafeStatus, SafeDirs, StackUntouched
<1> QED  BY <1>1, <1>2, <1>4 DEF Kept, StackUntouched

\* A step of p leaves what the others know alone.
LEMMA StackFrame ==
    ASSUME TInv, Stacked, NEW p \in Proc, NEW at \in PCs, Goto(p, at),
           \A q \in Proc \ {p} : mine'[q] = mine[q] /\ mem'[q] = mem[q],
           pc[p] \in Between \cup Journaling \/ StackUntouched,
           StackOf(p)'
    PROVE  Stacked'
<1>1. pc' = [pc EXCEPT ![p] = at] /\ pc \in [Proc -> PCs]
      BY TypesT DEF Goto
<1> SUFFICES ASSUME NEW q \in Proc, q # p PROVE StackOf(q)'
      BY DEF Stacked
<1>2. /\ StackOf(q) /\ pc'[q] = pc[q]
      /\ mine'[q] = mine[q] /\ mem'[q] = mem[q]
      BY <1>1 DEF Stacked
<1>3. CASE pc[p] \in Between \cup Journaling
  <2>1. pc[q] \notin Between \cup Journaling
        BY <1>3, AloneT
  <2> QED  BY <1>2, <2>1 DEF StackOf, Between, Journaling, Undoable
<1>4. CASE StackUntouched
      BY <1>2, <1>4, UntouchedKept DEF StackUntouched, StackOf, First
<1> QED  BY <1>3, <1>4

-----------------------------------------------------------------------------
(* One lemma for each kind of step: the command knows the stack again, and *)
(* what recovery would leave of it is what it was.                         *)

LEMMA OutsideStack ==
    ASSUME SInv, Sequential, NEW p \in Proc,
           \/ Open(p) \/ ComputeJob(p)
           \/ ReadCounter(p) \/ Decline(p) \/ Lock(p) \/ LockFails(p)
           \/ CheckStale(p) \/ LeaveCommit(p) \/ CommitJournal(p) \/ Stop(p)
           \/ Unlock(p) \/ Close(p) \/ Crash(p)
    PROVE  Stacked' /\ Kept
<1>1. StackUntouched
      BY DEF Open, ComputeJob, ReadCounter, Exit, Decline, Lock, LockFails,
         CheckStale, LeaveCommit,
         CommitJournal, Stop, Unlock, Close, Crash, disk, StackUntouched
<1>2. PICK to \in PCs : Goto(p, to)
      BY DEF Open, ComputeJob, ReadCounter, Exit, Decline, Lock, LockFails,
         CheckStale, LeaveCommit,
         CommitJournal, Stop, Unlock, Close, Crash, PCs, Between, Journaling, Late
<1>3. pc' = [pc EXCEPT ![p] = to] /\ pc'[p] = to /\ pc \in [Proc -> PCs]
      BY <1>2, TypesT DEF Goto, SInv
<1>4. \A q \in Proc \ {p} : mine'[q] = mine[q] /\ mem'[q] = mem[q]
      BY TypesT DEF SInv, Open, ComputeJob, ReadCounter, Exit, Decline, Lock,
         LockFails, CheckStale,
         LeaveCommit, CommitJournal, Stop, Unlock, Close, Crash, work
<1>5. StackOf(p)
      BY DEF SInv, Stacked
<1>6. StackOf(p)'
  <2>1. CASE Open(p) \/ Decline(p) \/ LockFails(p) \/ Stop(p) \/ Unlock(p)
             \/ Close(p) \/ Crash(p)
    <3>1. pc'[p] \in {"open", "idle", "unlocked", "finishing"}
          BY <1>3, <2>1 DEF Open, Decline, LockFails, Stop, Unlock, Close,
             Crash,
             Exit, Goto
    <3>2. pc'[p] \in {"open", "idle"} => mine'[p] = -1
          BY <1>3, <1>5, <2>1, TypesT DEF Open, Decline, LockFails, Stop,
             Unlock,
             Close, Crash, Exit, Goto, StackOf, SInv
    <3> QED  BY <3>1, <3>2 DEF StackOf, Late
  <2>2. CASE ComputeJob(p) \/ ReadCounter(p)
    <3>1. pc'[p] \in {"computed", "ready"} /\ mine' = mine
          BY <1>3, <2>2 DEF ComputeJob, ReadCounter, Goto
    <3>2. mine[p] = -1
          BY <1>5, <2>2 DEF ComputeJob, ReadCounter, StackOf
    <3> QED  BY <3>1, <3>2 DEF StackOf, Late
  <2>3. CASE Lock(p)
    <3>1. pc'[p] = "locked" /\ mine' = mine /\ mem' = mem
          /\ mem[p] = Listed(status)
          BY <1>3, <2>3 DEF Lock, Goto, work, Sequential
    <3>2. mine[p] = -1 /\ status' = status
          BY <1>1, <1>5, <2>3 DEF Lock, StackOf, StackUntouched
    <3> QED  BY <3>1, <3>2 DEF StackOf, Late
  <2>4. CASE CheckStale(p)
    <3>1. /\ pc[p] = "locked" /\ pc'[p] \in {"begin", "finishing"}
          /\ mine' = mine /\ mem' = mem
          BY <1>3, <2>4 DEF CheckStale, Goto, work
    <3>2. mine[p] = -1 /\ Listed(status) = mem[p] /\ status' = status
          BY <1>1, <1>5, <3>1 DEF StackOf, StackUntouched
    <3> QED  BY <3>1, <3>2 DEF StackOf, Late
  <2>5. CASE LeaveCommit(p) \/ CommitJournal(p)
    <3>1. /\ pc[p] \in Late /\ pc'[p] \in Late
          /\ mine' = mine /\ mem' = mem
          BY <1>3, <2>5 DEF LeaveCommit, CommitJournal, Goto, work, Late
    <3>2. mine[p] = mem[p][2] /\ Listed(status) = mem[p] /\ status' = status
          BY <1>1, <1>5, <3>1 DEF StackOf, StackUntouched
    <3> QED  BY <3>1, <3>2 DEF StackOf, Late
  <2> QED  BY <2>1, <2>2, <2>3, <2>4, <2>5
<1> QED  BY <1>1, <1>2, <1>4, <1>6, StackFrame, UntouchedKept DEF SInv

LEMMA ApplyStack ==
    ASSUME SInv, NEW p \in Proc, Apply(p)
    PROVE  Stacked' /\ Kept
<1>1. PICK h \in Half :
        /\ pc[p] = IF h = 1 THEN "added" ELSE "torn"
        /\ journal' = [journal EXCEPT !.half[h] = files[h]]
        /\ Goto(p, IF h = 1 THEN "torn" ELSE "applied")
        /\ UNCHANGED <<db, status, statusNew, dirs, lock, work>>
      BY DEF Apply
<1>2. PICK to \in {"torn", "applied"} : Goto(p, to)
      BY <1>1
<1>3. StackUntouched
      BY <1>1 DEF StackUntouched, SInv, TInv, JournalShape
<1>4. /\ pc[p] \in {"added", "torn"} /\ to \in PCs /\ mine' = mine /\ mem' = mem
      BY <1>1 DEF PCs, Journaling, Undoable, work
<1>5. StackOf(p) /\ pc'[p] = to
      BY <1>2, TypesT DEF SInv, Stacked, Goto
<1>6. StackOf(p)'
      BY <1>2, <1>3, <1>4, <1>5 DEF StackOf, First, StackUntouched, Late
<1> QED  BY <1>2, <1>3, <1>4, <1>6, StackFrame, UntouchedKept DEF SInv

\* A new journal has nothing to undo.
LEMMA CreateStack ==
    ASSUME SInv, NEW p \in Proc, CreateJournal(p)
    PROVE  Stacked' /\ Kept
<1>1. /\ Goto(p, "journal") /\ "journal" \in PCs /\ pc[p] = "begin"
      /\ pc[p] \in Between
      /\ UNCHANGED <<db, status, dirs, mem, mine>>
      BY DEF CreateJournal, PCs, Journaling, Undoable, Between
<1>2. journal' = [there |-> TRUE, base |-> db, half |-> [h \in Half |-> -1],
                  status |-> <<>>, dir |-> -1, count |-> <<>>]
      BY DEF CreateJournal, NoJournal
<1>3. /\ journal'.there /\ journal'.base = db /\ journal'.status = <<>>
      /\ journal'.dir = -1 /\ journal'.count = <<>>
      BY <1>2
<1>4. ~journal.there
      BY <1>1 DEF SInv, IInv, Known
<1>5. SafeStatus = Listed(status) /\ SafeDirs = dirs
      BY <1>4 DEF SafeStatus, SafeDirs, Pending
<1>6. UndoneStatus' = status
      BY <1>1, <1>3 DEF UndoneStatus
<1>7. UndoneDirs' = dirs
  <2>1. dirs' = dirs /\ dirs \in [Index -> Seq(0..MaxVersion)] /\ -1 \notin Index
        BY <1>1, TypesT, BoundAssumption DEF SInv, Index
  <2>2. UndoneDirs' = [k \in Index |-> dirs[k]]
        BY <1>3, <2>1 DEF UndoneDirs
  <2> QED  BY <2>1, <2>2
<1>8. SafeStatus' = Listed(status) /\ SafeDirs' = dirs
      BY <1>1, <1>3, <1>6, <1>7 DEF SafeStatus, SafeDirs, Pending
<1>9. StackOf(p) /\ pc'[p] = "journal"
      BY <1>1, TypesT DEF SInv, Stacked, Goto
<1>10. StackOf(p)'
      BY <1>1, <1>3, <1>9 DEF StackOf, Late
<1>11. Stacked'
      BY <1>1, <1>10, StackFrame DEF SInv
<1> QED  BY <1>1, <1>5, <1>8, <1>11 DEF Kept

\* The journal goes: there was nothing to undo, or it has been undone.
LEMMA RemoveStack ==
    ASSUME SInv, NEW p \in Proc, RemoveJournal(p) \/ DropJournal(p)
    PROVE  Stacked' /\ Kept
<1>1. /\ UNCHANGED <<db, status, dirs, mem, mine>>
      /\ ~journal'.there
      BY DEF RemoveJournal, DropJournal, work, NoJournal
<1>2. SafeStatus' = Listed(status) /\ SafeDirs' = dirs
      BY <1>1 DEF SafeStatus, SafeDirs, Pending
<1>3. StackOf(p)
      BY DEF SInv, Stacked
<1>4. CASE RemoveJournal(p)
  <2>1. /\ Goto(p, "hunkDone") /\ "hunkDone" \in PCs /\ pc[p] \in Late
        /\ pc[p] \in Journaling
        BY <1>4 DEF RemoveJournal, PCs, Between, Late, Journaling
  <2>2. journal.base # db
        BY <2>1 DEF SInv, IInv, Known
  <2>3. SafeStatus = Listed(status) /\ SafeDirs = dirs
        BY <2>2 DEF SafeStatus, SafeDirs, Pending
  <2>4. pc'[p] = "hunkDone"
        BY <2>1, TypesT DEF Goto, SInv
  <2>5. StackOf(p)'
        BY <1>1, <1>3, <2>1, <2>4 DEF StackOf, Late
  <2>6. Stacked'
        BY <1>1, <2>1, <2>5, StackFrame DEF SInv
  <2> QED  BY <1>1, <1>2, <2>3, <2>6 DEF Kept
<1>5. CASE DropJournal(p)
  <2>1. /\ Goto(p, "finishing") /\ "finishing" \in PCs /\ pc[p] = "reverted"
        /\ pc[p] \in Journaling
        BY <1>5 DEF DropJournal, PCs, Between, Journaling
  <2>2. UndoneStatus = status /\ UndoneDirs = dirs
        BY <1>3, <2>1 DEF StackOf
  <2>3. SafeStatus = Listed(status) /\ SafeDirs = dirs
        BY <2>2 DEF SafeStatus, SafeDirs
  <2>4. pc'[p] = "finishing"
        BY <2>1, TypesT DEF Goto, SInv
  <2>5. StackOf(p)'
        BY <2>4 DEF StackOf, Late
  <2>6. Stacked'
        BY <1>1, <2>1, <2>5, StackFrame DEF SInv
  <2> QED  BY <1>1, <1>2, <2>3, <2>6 DEF Kept
<1> QED  BY <1>4, <1>5

\* A directory above the stack is made, and the journal takes it away.
LEMMA NewRollbackStack ==
    ASSUME SInv, NEW p \in Proc, NewRollback(p)
    PROVE  Stacked' /\ Kept
<1> DEFINE k == mem[p][2] + 1
<1>1. PICK to \in {"refused", "status"} : Goto(p, to)
      BY DEF NewRollback, Goto
<1>2. /\ to \in PCs /\ pc[p] = "journal" /\ pc[p] \in Undoable
      /\ pc[p] \in Between \cup Journaling /\ UNCHANGED <<db, status>>
      BY DEF NewRollback, PCs, Journaling, Undoable
<1>3. /\ StackOf(p) /\ BudgetOf(p) /\ pc'[p] = to /\ Pending
      BY <1>1, <1>2, TypesT DEF SInv, Stacked, TInv, Budget, Goto, IInv, Known
<1>4. k \in Index /\ mem[p] \in Status /\ k # -1
  <2>1. mem[p] \in Status
        BY TypesT DEF SInv
  <2>2. mem[p][2] < MaxVersion
        BY <1>2, <1>3 DEF BudgetOf, NewRollback
  <2> QED  BY <2>1, <2>2, BoundAssumption DEF Status, Index
<1>5. /\ dirs' = [dirs EXCEPT ![k] = <<>>] /\ mine' = [mine EXCEPT ![p] = k]
      /\ journal' = [journal EXCEPT !.dir = k]
      /\ mem' = [mem EXCEPT ![p] = <<mem[p][1], k>>]
      BY TypesT DEF NewRollback, SInv
<1>6. /\ mem[p] = Listed(status) /\ journal.dir = -1 /\ journal.status = <<>>
      /\ journal.count = <<>> /\ k = Listed(status)[2] + 1
      BY <1>2, <1>3 DEF StackOf, SInv, TInv, NewJournal
<1> HIDE DEF k
<1>7. /\ journal'.there = journal.there /\ journal'.base = journal.base
      /\ journal'.status = journal.status
      /\ journal'.count = journal.count /\ journal'.dir = k
      BY <1>5 DEF SInv, TInv, JournalShape
<1>8. mine'[p] = k /\ mem'[p] = <<Listed(status)[1], k>> /\ dirs'[k] = <<>>
      BY <1>4, <1>5, <1>6, TypesT DEF SInv
<1>9. StackOf(p)'
      BY <1>1, <1>2, <1>3, <1>6, <1>7, <1>8 DEF StackOf, Late
<1>10. \A q \in Proc \ {p} : mine'[q] = mine[q] /\ mem'[q] = mem[q]
      BY <1>5, TypesT DEF SInv
<1>11. Stacked'
      BY <1>1, <1>2, <1>9, <1>10, StackFrame DEF SInv
<1>12. SafeStatus = Listed(status) /\ SafeStatus' = Listed(status)
      BY <1>2, <1>6, <1>7 DEF SafeStatus, UndoneStatus
<1>13. \A j \in Index : j < k => SafeDirs'[j] = SafeDirs[j]
  <2> SUFFICES ASSUME NEW j \in Index, j < k PROVE SafeDirs'[j] = SafeDirs[j]
        OBVIOUS
  <2>1. Pending' /\ j # k /\ j # -1
        BY <1>2, <1>3, <1>4, <1>7, BoundAssumption DEF Pending, Index
  <2>2. SafeDirs[j] = dirs[j] /\ SafeDirs'[j] = dirs'[j]
        BY <1>3, <1>6, <1>7, <2>1 DEF SafeDirs, UndoneDirs
  <2> QED  BY <1>5, <2>1, <2>2, TypesT DEF SInv
<1>14. \A j \in Listed(status)[1]..Listed(status)[2] : j \in Index /\ j < k
      BY <1>6, TypesT, ListedFacts, InStack DEF SInv
<1> QED  BY <1>2, <1>11, <1>12, <1>13, <1>14 DEF Kept

\* The status that is replaced is in the journal; when there was none, the
\* rollback stays listed.
Ghost ==
    /\ db' = db /\ db = 0 /\ SafeStatus = <<0, -1>> /\ SafeStatus' = <<0, 0>>
    /\ SafeDirs'[0] = <<>>

LEMMA RenameStatusStack ==
    ASSUME SInv, NEW p \in Proc, RenameStatus(p)
    PROVE  Stacked' /\ (Kept \/ Ghost)
<1>1. /\ Goto(p, "stacked") /\ "stacked" \in PCs /\ pc[p] = "status"
      /\ pc[p] \in Undoable /\ pc[p] \in Between \cup Journaling
      /\ UNCHANGED <<db, dirs, mem, mine>> /\ status' = mem[p]
      BY DEF RenameStatus, PCs, Journaling, Undoable, work
<1>2. /\ StackOf(p) /\ pc'[p] = "stacked" /\ Pending
      /\ status \in Status \cup {<<>>} /\ mem[p] \in Status
      BY <1>1, TypesT DEF SInv, Stacked, Goto, IInv, Known
<1>3. /\ journal'.there = journal.there /\ journal'.base = journal.base
      /\ journal'.status = status
      /\ journal'.count = journal.count /\ journal'.dir = journal.dir
      BY DEF RenameStatus, SInv, TInv, JournalShape
<1>4. /\ mem[p] = <<Listed(status)[1], Listed(status)[2] + 1>>
      /\ journal.status = <<>> /\ journal.dir = mine[p] /\ mine[p] = mem[p][2]
      BY <1>1, <1>2 DEF StackOf
<1>5. Listed(status') = mem[p]
      BY <1>1, <1>2, ListedFacts
<1>6. First(p)'
  <2>1. CASE status = <<>>
        BY <1>1, <1>2, <1>3, <1>4, <2>1, ListedFacts DEF First
  <2>2. CASE status # <<>>
    <3>1. status \in Status /\ Listed(status) = status
          BY <1>2, <2>2, ListedFacts
    <3>2. status = <<mem[p][1], mem[p][2] - 1>>
          BY <1>4, <3>1 DEF Status
    <3> QED  BY <1>1, <1>3, <1>4, <3>2 DEF First
  <2> QED  BY <2>1, <2>2
<1>7. StackOf(p)'
      BY <1>1, <1>2, <1>3, <1>4, <1>5, <1>6 DEF StackOf, Late
<1>8. Stacked'
      BY <1>1, <1>7, StackFrame DEF SInv
<1>9. Pending'
      BY <1>1, <1>2, <1>3 DEF Pending
<1>10. SafeStatus = Listed(status)
      BY <1>2, <1>4 DEF SafeStatus, UndoneStatus
<1>11. SafeDirs' = SafeDirs
      BY <1>1, <1>2, <1>3, <1>9 DEF SafeDirs, UndoneDirs
<1>12. CASE status # <<>>
  <2>1. SafeStatus' = Listed(status)
        BY <1>3, <1>9, <1>12 DEF SafeStatus, UndoneStatus
  <2> QED  BY <1>1, <1>8, <1>10, <1>11, <2>1 DEF Kept
<1>13. CASE status = <<>>
  <2>1. Listed(status) = <<0, -1>> /\ mem[p] = <<0, 0>> /\ mine[p] = 0
        BY <1>2, <1>4, <1>13, ListedFacts
  <2>2. SafeStatus' = <<0, 0>>
        BY <1>1, <1>3, <1>5, <1>9, <1>13, <2>1 DEF SafeStatus, UndoneStatus
  <2>3. SafeDirs'[0] = <<>>
        BY <1>3, <1>4, <1>9, <2>1, BoundAssumption DEF SafeDirs, UndoneDirs,
           Index
  <2> QED  BY <1>1, <1>8, <1>10, <1>13, <2>1, <2>2, <2>3 DEF Ghost, SInv, Unused
<1> QED  BY <1>12, <1>13

\* A stack that lists the first rollback, of which nothing was installed, leads
\* back to where there was nothing.
LEMMA GhostRecoverable ==
    ASSUME Ghost
    PROVE  StackRecoverable'
<1>1. SafeStatus'[1] = 0 /\ SafeStatus'[2] = 0 /\ db' = 0
      BY DEF Ghost
<1>2. ASSUME NEW k \in Index, 0 <= k, k <= 0 PROVE k = 0
      BY <1>2, BoundAssumption DEF Index
<1>3. Led(SafeStatus', SafeDirs', db', 0)
      BY <1>1 DEF Ghost, Led, AfterIn
<1>4. Leads(SafeStatus', SafeDirs', db')
      BY <1>1, <1>2, <1>3 DEF Leads
<1> QED  BY <1>4 DEF StackRecoverable, Leads, Led, After, AfterIn

\* Cutting a sequence back twice, or right after it grew.
LEMMA PrefixTwice ==
    ASSUME NEW S, NEW s \in Seq(S), NEW n \in Nat, n <= Len(s)
    PROVE  SubSeq(SubSeq(s, 1, n), 1, n) = SubSeq(s, 1, n)
<1> DEFINE u == SubSeq(s, 1, n)
<1>1. u \in Seq(S) /\ Len(u) = n
      BY Prefix
<1> HIDE DEF u
<1>2. /\ SubSeq(u, 1, n) \in Seq(S) /\ Len(SubSeq(u, 1, n)) = n
      /\ \A i \in 1..n : SubSeq(u, 1, n)[i] = u[i]
      BY <1>1, Prefix
<1>3. SubSeq(u, 1, n) = u
      BY <1>1, <1>2, SeqEqual
<1> QED  BY <1>3 DEF u

LEMMA PrefixOfAppend ==
    ASSUME NEW S, NEW s \in Seq(S), NEW e \in S
    PROVE  SubSeq(Append(s, e), 1, Len(s)) = s
<1> DEFINE u == Append(s, e)
<1>1. /\ u \in Seq(S) /\ Len(u) = Len(s) + 1
      /\ \A i \in 1..Len(s) : u[i] = s[i]
      BY AppendProperties
<1> HIDE DEF u
<1>2. Len(s) \in Nat
      OBVIOUS
<1>3. /\ SubSeq(u, 1, Len(s)) \in Seq(S) /\ Len(SubSeq(u, 1, Len(s))) = Len(s)
      /\ \A i \in 1..Len(s) : SubSeq(u, 1, Len(s))[i] = u[i]
      BY <1>1, <1>2, Prefix
<1>4. SubSeq(u, 1, Len(s)) = s
      BY <1>1, <1>3, SeqEqual
<1> QED  BY <1>4 DEF u

\* What is added to a rollback is cut off again.
LEMMA AddRollbackStack ==
    ASSUME SInv, NEW p \in Proc, AddRollback(p)
    PROVE  Stacked' /\ Kept
<1> DEFINE k == mine[p]
<1>1. /\ Goto(p, "added") /\ "added" \in PCs /\ pc[p] \in {"stacked", "journal"}
      /\ pc[p] \in Undoable /\ pc[p] \in Between \cup Journaling
      /\ UNCHANGED <<db, status, mem, mine>>
      BY DEF AddRollback, PCs, Journaling, Undoable, work
<1>2. /\ StackOf(p) /\ BudgetOf(p) /\ pc'[p] = "added" /\ Pending
      /\ NewJournal /\ mine[p] \in Index \cup {-1}
      BY <1>1, TypesT DEF SInv, Stacked, TInv, Budget, Goto, IInv, Known
<1>3. k \in Index /\ -1 \notin Index
      BY <1>2, BoundAssumption DEF AddRollback, BudgetOf, Index
<1>4. /\ k = mem[p][2] /\ Listed(status) = mem[p] /\ journal.count = <<>>
      /\ \/ First(p) /\ dirs[k] = <<>> /\ journal.dir = k
         \/ journal.dir = -1 /\ journal.status = <<>>
      BY <1>1, <1>2, <1>3 DEF StackOf, NewJournal, First
<1>5. /\ journal' = [journal EXCEPT !.count = <<k, Len(dirs[k])>>]
      /\ dirs' = [dirs EXCEPT ![k] = Append(dirs[k], db)]
      BY DEF AddRollback
<1>6. dirs[k] \in Seq(0..MaxVersion) /\ db \in 0..MaxVersion
      BY <1>3, TypesT DEF SInv
<1> HIDE DEF k
<1>7. /\ journal'.there = journal.there /\ journal'.base = journal.base
      /\ journal'.status = journal.status
      /\ journal'.count = <<k, Len(dirs[k])>> /\ journal'.dir = journal.dir
      BY <1>5 DEF SInv, TInv, JournalShape
<1>8. /\ dirs'[k] = Append(dirs[k], db)
      /\ \A j \in Index : j # k => dirs'[j] = dirs[j]
      BY <1>3, <1>5, TypesT DEF SInv
<1>9. /\ Len(dirs[k]) \in Nat /\ Len(dirs'[k]) = Len(dirs[k]) + 1
      /\ dirs'[k] # <<>> /\ dirs'[k][Len(dirs'[k])] = db
      /\ dirs[k] = <<>> => Len(dirs'[k]) = 1
  <2>1. /\ Append(dirs[k], db) # <<>> /\ Len(Append(dirs[k], db)) = Len(dirs[k]) + 1
        /\ Append(dirs[k], db)[Len(dirs[k]) + 1] = db /\ Len(dirs[k]) \in Nat
        BY <1>6, AppendProperties
  <2>2. dirs[k] = <<>> => Len(dirs[k]) = 0
        OBVIOUS
  <2> QED  BY <1>8, <2>1, <2>2
<1>10. Len(dirs'[k]) - 1 = Len(dirs[k])
      BY <1>9
<1>11. First(p) => First(p)'
      BY <1>1, <1>7 DEF First
<1>12. journal'.count = <<k, Len(dirs'[k]) - 1>>
      BY <1>7, <1>10
<1>13. mine'[p] = k /\ mem'[p] = mem[p] /\ Listed(status') = mem'[p] /\ db' = db
      BY <1>1, <1>4 DEF k
<1>14. StackOf(p)'
      BY <1>2, <1>4, <1>7, <1>9, <1>11, <1>12, <1>13 DEF StackOf, Late
<1>15. Stacked'
      BY <1>1, <1>14, StackFrame DEF SInv
<1>16. Pending'
      BY <1>1, <1>2, <1>7 DEF Pending
<1>17. SafeStatus' = SafeStatus
      BY <1>1, <1>2, <1>7, <1>16 DEF SafeStatus, UndoneStatus
<1>18. \A j \in Index : SafeDirs'[j] = SafeDirs[j]
  <2> SUFFICES ASSUME NEW j \in Index PROVE UndoneDirs'[j] = UndoneDirs[j]
        BY <1>2, <1>16 DEF SafeDirs
  <2>1. CASE j = journal.dir
        BY <1>7, <2>1 DEF UndoneDirs
  <2>2. CASE j # journal.dir /\ j # k
    <3>1. UndoneDirs[j] = dirs[j]
          BY <1>4, <2>2 DEF UndoneDirs
    <3>2. UndoneDirs'[j] = dirs'[j]
          BY <1>7, <2>2 DEF UndoneDirs
    <3> QED  BY <1>8, <2>2, <3>1, <3>2
  <2>3. CASE j # journal.dir /\ j = k
    <3>1. UndoneDirs[j] = dirs[k]
          BY <1>4, <2>3 DEF UndoneDirs
    <3>2. /\ journal'.count # <<>> /\ journal'.count[1] = k
          /\ journal'.count[2] = Len(dirs[k])
          BY <1>7
    <3>3. UndoneDirs'[j] = SubSeq(dirs'[j], 1, journal'.count[2])
          BY <1>7, <2>3, <3>2 DEF UndoneDirs
    <3>4. UndoneDirs'[j] = SubSeq(Append(dirs[k], db), 1, Len(dirs[k]))
          BY <1>8, <2>3, <3>2, <3>3
    <3> QED  BY <1>6, <3>1, <3>4, PrefixOfAppend
  <2> QED  BY <2>1, <2>2, <2>3
<1>19. \A j \in SafeStatus[1]..SafeStatus[2] : j \in Index
      BY SafeTypes, InStack DEF SInv
<1> QED  BY <1>13, <1>15, <1>17, <1>18, <1>19 DEF Kept

\* Reverting a second time changes nothing.
LEMMA RevertTwice ==
    ASSUME TInv, UNCHANGED journal, status' = UndoneStatus, dirs' = UndoneDirs
    PROVE  UndoneStatus' = UndoneStatus /\ UndoneDirs' = UndoneDirs
<1>1. UndoneStatus' = UndoneStatus
      BY DEF UndoneStatus
<1>2. ASSUME NEW k \in Index PROVE UndoneDirs'[k] = UndoneDirs[k]
  <2>1. CASE k = journal.dir
        BY <2>1 DEF UndoneDirs
  <2>2. CASE k # journal.dir /\ ~(journal.count # <<>> /\ k = journal.count[1])
    <3>1. UndoneDirs'[k] = dirs'[k]
          BY <2>2 DEF UndoneDirs
    <3> QED  BY <3>1
  <2>3. CASE k # journal.dir /\ journal.count # <<>> /\ k = journal.count[1]
    <3>1. /\ UndoneDirs[k] = SubSeq(dirs[k], 1, journal.count[2])
          /\ UndoneDirs'[k] = SubSeq(dirs'[k], 1, journal.count[2])
          BY <2>3 DEF UndoneDirs
    <3>2. journal.count[2] \in Nat /\ journal.count[2] <= Len(dirs[k])
          BY <2>3 DEF TInv, JournalShape
    <3>3. dirs[k] \in Seq(0..MaxVersion)
          BY TypesT
    <3>4. dirs'[k] = SubSeq(dirs[k], 1, journal.count[2])
          BY <3>1
    <3> QED  BY <3>1, <3>2, <3>3, <3>4, PrefixTwice
  <2> QED  BY <2>1, <2>2, <2>3
<1>3. UndoneDirs' = UndoneDirs
      BY <1>2 DEF UndoneDirs
<1> QED  BY <1>1, <1>3

LEMMA FaultStack ==
    ASSUME SInv, NEW p \in Proc, Fault(p)
    PROVE  Stacked' /\ Kept
<1>1. /\ Goto(p, "reverted") /\ "reverted" \in PCs
      /\ pc[p] \in Undoable /\ pc[p] \in Between \cup Journaling
      /\ UNCHANGED <<db, journal, mem, mine>>
      /\ status' = UndoneStatus /\ dirs' = UndoneDirs
      BY DEF Fault, Revert, PCs, Journaling, work
<1>2. UndoneStatus' = UndoneStatus /\ UndoneDirs' = UndoneDirs
      BY <1>1, RevertTwice DEF SInv
<1>3. Pending /\ Pending'
      BY <1>1 DEF SInv, IInv, Known, Pending
<1>4. SafeStatus' = SafeStatus /\ SafeDirs' = SafeDirs
      BY <1>2, <1>3 DEF SafeStatus, SafeDirs
<1>5. pc'[p] = "reverted"
      BY <1>1, TypesT DEF SInv, Goto
<1>6. StackOf(p)'
      BY <1>1, <1>2, <1>5 DEF StackOf, Late
<1>7. Stacked'
      BY <1>1, <1>6, StackFrame DEF SInv
<1> QED  BY <1>1, <1>4, <1>7 DEF Kept

LEMMA RevertStack ==
    ASSUME SInv, RevertCommand
    PROVE  Stacked' /\ Kept
<1>1. /\ UNCHANGED <<db, pc, mem, mine>> /\ ~journal'.there
      /\ status' = UndoneStatus /\ dirs' = UndoneDirs
      BY DEF RevertCommand, work, NoJournal
<1>2. \A q \in Proc : pc[q] \notin Between \cup Journaling
      BY DEF RevertCommand, Abandoned, SInv, IInv, Known
<1>3. Pending
      BY <1>2 DEF RevertCommand, Abandoned, SInv, IInv, SpentIsHeld, Pending,
         Journaling
<1>4. SafeStatus' = SafeStatus /\ SafeDirs' = SafeDirs
      BY <1>1, <1>3 DEF SafeStatus, SafeDirs, Pending
<1>5. ASSUME NEW q \in Proc PROVE StackOf(q)'
  <2>1. StackOf(q) /\ pc'[q] = pc[q] /\ mine'[q] = mine[q]
        BY <1>1 DEF SInv, Stacked
  <2> QED  BY <1>2, <2>1 DEF StackOf, Between, Journaling, Undoable
<1> QED  BY <1>1, <1>4, <1>5 DEF Kept, Stacked

-----------------------------------------------------------------------------
(* The steps that change the stack for good.                               *)

\* One version more at the end of the last rollback k, which is new or not.
Grown(st, d, st2, d2, k, v) ==
    /\ k \in Index /\ st \in Status /\ st2 \in Status
    /\ st2[2] = k /\ st[1] = st2[1]
    /\ \A j \in Index : j # k => d[j] = d2[j]
    /\ d2[k] \in Seq(0..MaxVersion) /\ Len(d2[k]) >= 1
    /\ d2[k][Len(d2[k])] = v
    /\ \/ st[2] = k - 1 /\ Len(d2[k]) = 1
       \/ /\ st[2] = k /\ d[k] \in Seq(0..MaxVersion)
          /\ Len(d[k]) = Len(d2[k]) - 1
          /\ \A i \in 1..Len(d[k]) : d[k][i] = d2[k][i]

\* When the database commits, the rollback made for the change set counts.
LEMMA CommitGrows ==
    ASSUME SInv, NEW p \in Proc, CommitDatabase(p)
    PROVE  /\ Grown(SafeStatus, SafeDirs, SafeStatus', SafeDirs', mine[p], db)
           /\ db' = db + 1
<1> DEFINE k == mine[p]
<1>1. /\ pc[p] = "applied" /\ pc[p] \in Undoable
      /\ UNCHANGED <<status, dirs, journal>> /\ db' = db + 1
      BY DEF CommitDatabase, Undoable, disk
<1>2. StackOf(p) /\ BudgetOf(p) /\ Pending
      BY <1>1 DEF SInv, Stacked, TInv, Budget, IInv, Known
<1>3. ~Pending'
      BY <1>1, <1>2, TypesT DEF Pending, SInv
<1>4. /\ SafeStatus = Listed(UndoneStatus) /\ SafeDirs = UndoneDirs
      /\ SafeStatus' = Listed(status) /\ SafeDirs' = dirs
      BY <1>1, <1>2, <1>3 DEF SafeStatus, SafeDirs
<1>5. /\ Listed(status) = mem[p] /\ k = mem[p][2] /\ k # -1
      /\ journal.count = <<k, Len(dirs[k]) - 1>>
      /\ dirs[k] # <<>> /\ dirs[k][Len(dirs[k])] = db
      /\ \/ First(p) /\ Len(dirs[k]) = 1
         \/ journal.dir = -1 /\ journal.status = <<>>
      BY <1>1, <1>2 DEF StackOf, BudgetOf
<1>6. k \in Index /\ -1 \notin Index /\ dirs[k] \in Seq(0..MaxVersion)
      BY <1>5, TypesT, BoundAssumption DEF SInv, Index
<1>7. journal.dir \in {k, -1}
      BY <1>5 DEF First
<1>8. /\ journal.count # <<>> /\ journal.count[1] = k
      /\ journal.count[2] = Len(dirs[k]) - 1
      BY <1>5
<1>9. /\ status \in Status /\ SafeStatus \in Status /\ Listed(status) = status
      /\ status = mem[p]
      BY <1>5, TypesT, SafeTypes, ListedFacts DEF SInv
<1> HIDE DEF k
<1>10. \A j \in Index : j # k => SafeDirs[j] = dirs[j]
      BY <1>4, <1>6, <1>7, <1>8 DEF UndoneDirs
<1>11. Len(dirs[k]) \in Nat /\ Len(dirs[k]) >= 1
      BY <1>5, <1>6, EmptySeq
<1>12. CASE First(p) /\ Len(dirs[k]) = 1
  <2>1. CASE journal.status = <<status[1], k - 1>>
    <3>1. journal.status # <<>>
          BY <2>1
    <3>2. journal.status \in Status
          BY <3>1 DEF SInv, TInv, JournalShape
    <3>3. SafeStatus = journal.status
          BY <1>4, <3>1, <3>2, ListedFacts DEF UndoneStatus
    <3>4. SafeStatus[1] = status[1] /\ SafeStatus[2] = k - 1
          BY <2>1, <3>3
    <3> QED  BY <1>1, <1>4, <1>5, <1>6, <1>9, <1>10, <1>11, <1>12, <3>4
                DEF Grown, k
  <2>2. CASE journal.status = <<>> /\ mem[p] = <<0, 0>>
    <3>1. SafeStatus = status /\ k = 0
          BY <1>4, <1>5, <1>9, <2>2 DEF UndoneStatus
    <3>2. SafeDirs[k] = <<>>
          BY <1>4, <1>5, <1>6, <1>12 DEF UndoneDirs, First, k
    <3>3. /\ SafeDirs[k] \in Seq(0..MaxVersion)
          /\ Len(SafeDirs[k]) = Len(dirs[k]) - 1
          /\ \A i \in 1..Len(SafeDirs[k]) : SafeDirs[k][i] = dirs[k][i]
          BY <1>12, <3>2
    <3> QED  BY <1>1, <1>4, <1>5, <1>6, <1>9, <1>10, <1>11, <3>1, <3>3
                DEF Grown, k
  <2> QED  BY <1>5, <1>9, <1>12, <2>1, <2>2 DEF First, k
<1>13. CASE journal.dir = -1 /\ journal.status = <<>>
  <2>1. SafeStatus = status
        BY <1>4, <1>9, <1>13 DEF UndoneStatus
  <2>2. SafeDirs[k] = SubSeq(dirs[k], 1, Len(dirs[k]) - 1)
        BY <1>4, <1>6, <1>8, <1>13 DEF UndoneDirs
  <2>3. Len(dirs[k]) - 1 \in Nat /\ Len(dirs[k]) - 1 <= Len(dirs[k])
        BY <1>11
  <2>4. /\ SafeDirs[k] \in Seq(0..MaxVersion) /\ Len(SafeDirs[k]) = Len(dirs[k]) - 1
        /\ \A i \in 1..Len(SafeDirs[k]) : SafeDirs[k][i] = dirs[k][i]
    <3> DEFINE n == Len(dirs[k]) - 1
               s == SubSeq(dirs[k], 1, n)
    <3>1. dirs[k] \in Seq(0..MaxVersion) /\ n \in Nat /\ n <= Len(dirs[k])
          BY <1>6, <2>3
    <3>2. SafeDirs[k] = s
          BY <2>2
    <3> HIDE DEF n
    <3>3. /\ s \in Seq(0..MaxVersion) /\ Len(s) = n
          /\ \A i \in 1..n : s[i] = dirs[k][i]
          BY <3>1, Prefix
    <3> HIDE DEF s
    <3>4. SafeDirs[k] \in Seq(0..MaxVersion) /\ Len(SafeDirs[k]) = n
          BY <3>2, <3>3
    <3>5. \A i \in 1..Len(SafeDirs[k]) : SafeDirs[k][i] = dirs[k][i]
          BY <3>2, <3>3, <3>4
    <3> QED  BY <3>4, <3>5 DEF n
  <2> QED  BY <1>1, <1>4, <1>5, <1>6, <1>9, <1>10, <1>11, <2>1, <2>4 DEF Grown, k
<1> QED  BY <1>5, <1>12, <1>13

\* A stack that has grown leads back from the new version.
LEMMA GrownLeads ==
    ASSUME NEW st, NEW d, NEW st2, NEW d2, NEW k, NEW v \in Nat,
           Grown(st, d, st2, d2, k, v), Leads(st, d, v)
    PROVE  Leads(st2, d2, v + 1)
<1> SUFFICES ASSUME NEW j \in Index, st2[1] <= j, j <= st2[2]
             PROVE  Led(st2, d2, v + 1, j)
      BY DEF Leads
<1>1. /\ k \in Index /\ j \in Int /\ k \in Int /\ st2[2] = k /\ st[1] = st2[1]
      /\ st[1] \in Int /\ st[2] \in Int /\ st[1] <= j /\ st[2] \in {k - 1, k}
      BY BoundAssumption DEF Grown, Index, Status
<1>2. /\ d2[k] \in Seq(0..MaxVersion) /\ Len(d2[k]) \in Nat /\ Len(d2[k]) >= 1
      /\ d2[k][Len(d2[k])] = v /\ d2[k] # <<>>
      BY DEF Grown
<1>3. CASE j # k
  <2>1. j < k /\ j <= st[2] /\ d2[j] = d[j] /\ j + 1 \in Index
        BY <1>1, <1>3, BoundAssumption DEF Grown, Index
  <2>2. Led(st, d, v, j)
        BY <1>1, <2>1 DEF Leads
  <2>3. AfterIn(st2, d2, v + 1, j) = AfterIn(st, d, v, j)
    <3>1. AfterIn(st2, d2, v + 1, j) = Head(d2[j + 1])
          BY <1>1, <1>3 DEF AfterIn
    <3>2. CASE j + 1 # k
      <4>1. j # st[2] /\ d[j + 1] = d2[j + 1]
            BY <1>1, <2>1, <3>2 DEF Grown
      <4> QED  BY <3>1, <4>1 DEF AfterIn
    <3>3. CASE j + 1 = k /\ st[2] = k - 1 /\ Len(d2[k]) = 1
      <4>1. j = st[2] /\ Head(d2[k]) = v
            BY <1>1, <1>2, <3>3
      <4> QED  BY <3>1, <3>3, <4>1 DEF AfterIn
    <3>4. CASE /\ j + 1 = k /\ st[2] = k /\ d[k] \in Seq(0..MaxVersion)
               /\ Len(d[k]) = Len(d2[k]) - 1
               /\ \A i \in 1..Len(d[k]) : d[k][i] = d2[k][i]
      <4>1. Led(st, d, v, k)
            BY <1>1, <2>1, <3>4 DEF Leads
      <4>2. d[k] # <<>>
            BY <1>1, <3>4, <4>1, BoundAssumption DEF Led, Index
      <4>3. Len(d[k]) \in Nat /\ Len(d[k]) >= 1
            BY <3>4, <4>2, EmptySeq
      <4>4. d[k][1] = d2[k][1]
            BY <3>4, <4>3
      <4> QED  BY <1>1, <1>2, <3>1, <3>4, <4>4 DEF AfterIn
    <3> QED  BY <3>2, <3>3, <3>4 DEF Grown
  <2> QED  BY <2>1, <2>2, <2>3 DEF Led
<1>4. CASE j = k /\ st[2] = k - 1 /\ Len(d2[k]) = 1
      BY <1>1, <1>2, <1>4 DEF Led, AfterIn
<1>5. CASE /\ j = k /\ st[2] = k /\ d[k] \in Seq(0..MaxVersion)
           /\ Len(d[k]) = Len(d2[k]) - 1
           /\ \A i \in 1..Len(d[k]) : d[k][i] = d2[k][i]
  <2>1. Led(st, d, v, k)
        BY <1>1, <1>5 DEF Leads
  <2>2. CASE d[k] = <<>>
    <3>1. Len(d2[k]) = 1
          BY <1>5, <1>2, <2>2
    <3> QED  BY <1>1, <1>2, <1>5, <3>1 DEF Led, AfterIn
  <2>3. CASE d[k] # <<>>
    <3>1. Len(d[k]) \in Nat /\ Len(d[k]) >= 1
          BY <1>5, <2>3, EmptySeq
    <3>2. /\ \A i \in 1..(Len(d[k]) - 1) : d[k][i + 1] = d[k][i] + 1
          /\ d[k][Len(d[k])] + 1 = v
          BY <1>5, <2>1, <2>3 DEF Led, AfterIn
    <3>3. ASSUME NEW i \in 1..(Len(d2[k]) - 1)
          PROVE  d2[k][i + 1] = d2[k][i] + 1
      <4>1. CASE i = Len(d[k])
            BY <1>2, <1>5, <3>1, <3>2, <4>1
      <4>2. CASE i # Len(d[k])
        <5>1. /\ i \in 1..(Len(d[k]) - 1) /\ i \in 1..Len(d[k])
              /\ i + 1 \in 1..Len(d[k])
              BY <1>2, <1>5, <3>1, <4>2
        <5>2. d[k][i + 1] = d2[k][i + 1] /\ d[k][i] = d2[k][i]
              BY <1>5, <5>1
        <5> QED  BY <3>2, <5>1, <5>2
      <4> QED  BY <4>1, <4>2
    <3> QED  BY <1>1, <1>2, <1>5, <3>3 DEF Led, AfterIn
  <2> QED  BY <2>2, <2>3
<1> QED  BY <1>3, <1>4, <1>5 DEF Grown

LEMMA CommitStack ==
    ASSUME SInv, NEW p \in Proc, CommitDatabase(p)
    PROVE  Stacked' /\ StackRecoverable'
<1>1. /\ Goto(p, "committed") /\ "committed" \in PCs /\ pc[p] = "applied"
      /\ pc[p] \in Between \cup Journaling
      /\ UNCHANGED <<status, mem, mine>>
      BY DEF CommitDatabase, PCs, Journaling, Undoable, Late, disk
<1>2. StackOf(p) /\ pc'[p] = "committed"
      BY <1>1, TypesT DEF SInv, Stacked, Goto
<1>3. StackOf(p)'
      BY <1>1, <1>2 DEF StackOf, Late
<1>4. Stacked'
      BY <1>1, <1>3, StackFrame DEF SInv
<1>5. Leads(SafeStatus, SafeDirs, db) /\ db \in Nat
      BY RecoverableIsLeads, TypesT, BoundAssumption DEF SInv
<1>6. Leads(SafeStatus', SafeDirs', db')
      BY <1>5, CommitGrows, GrownLeads
<1> QED  BY <1>4, <1>6 DEF StackRecoverable, Leads, Led, After, AfterIn

\* An invalidated stack has no rollbacks.
LEMMA EndHunkStack ==
    ASSUME SInv, NEW p \in Proc, EndHunk(p)
    PROVE  /\ Stacked' /\ StackRecoverable'
           /\ \/ Kept
              \/ db' = db /\ SafeStatus'[1] = SafeStatus'[2] + 1
                 /\ SafeStatus'[2] \in Int
<1>1. /\ pc[p] = "hunkDone" /\ pc[p] \in Between
      /\ UNCHANGED <<db, dirs, journal, mine>>
      BY DEF EndHunk, Between
<1>2. PICK to \in {"finishing", "begin"} : Goto(p, to)
      BY DEF EndHunk
<1>3. to \in PCs /\ pc'[p] = to
      BY <1>2, TypesT DEF SInv, Goto, PCs, Between
<1>4. ~journal.there /\ StackOf(p)
      BY <1>1 DEF SInv, IInv, Known, Stacked
<1>5. /\ SafeStatus = Listed(status) /\ SafeDirs = dirs
      /\ SafeStatus' = Listed(status') /\ SafeDirs' = dirs
      BY <1>1, <1>4 DEF SafeStatus, SafeDirs, Pending
<1>6. Listed(status) = mem[p] /\ mine[p] = mem[p][2]
      BY <1>1, <1>4 DEF StackOf
<1>7. CASE inv[p]
  <2>1. /\ mem' = [mem EXCEPT ![p] = <<mem[p][2] + 1, mem[p][2]>>]
        /\ status' = <<mem[p][2] + 1, mem[p][2]>> /\ mem[p][2] \in Int
        BY <1>7, TypesT DEF EndHunk, SInv, Status
  <2>2. /\ mem'[p] = Listed(status') /\ mine'[p] = mem'[p][2]
        /\ Listed(status') = status'
        BY <1>1, <1>6, <2>1, TypesT DEF SInv, Listed
  <2>3. StackOf(p)'
        BY <1>2, <1>3, <2>2 DEF StackOf, Late
  <2>4. \A q \in Proc \ {p} : mem'[q] = mem[q]
        BY <2>1, TypesT DEF SInv
  <2>5. Stacked'
        BY <1>1, <1>2, <1>3, <2>3, <2>4, StackFrame DEF SInv
  <2>6. SafeStatus'[1] = SafeStatus'[2] + 1 /\ SafeStatus'[2] \in Int
        BY <1>5, <2>1, <2>2
  <2>7. ASSUME NEW k \in Index PROVE ~(SafeStatus'[1] <= k /\ k <= SafeStatus'[2])
        BY <2>6, BoundAssumption DEF Index
  <2>8. StackRecoverable'
        BY <2>7 DEF StackRecoverable
  <2> QED  BY <1>1, <2>5, <2>6, <2>8
<1>8. CASE ~inv[p]
  <2>1. mem' = mem /\ status' = status
        BY <1>8 DEF EndHunk
  <2>2. StackOf(p)'
        BY <1>1, <1>2, <1>3, <1>6, <2>1 DEF StackOf, Late
  <2>3. Stacked'
        BY <1>1, <1>2, <1>3, <2>1, <2>2, StackFrame DEF SInv
  <2>4. Kept
        BY <1>1, <1>5, <2>1 DEF Kept
  <2> QED  BY <2>3, <2>4, KeptRecoverable DEF SInv
<1> QED  BY <1>7, <1>8

-----------------------------------------------------------------------------
\* The initial state.
LEMMA InitSInv == Init => SInv
<1> SUFFICES ASSUME Init PROVE SInv
      OBVIOUS
<1>1. TInv /\ IInv
      BY InitTInv, InitIInv
<1>2. \A p \in Proc : pc[p] = "idle"
      BY DEF Init
<1>3. Stacked
      BY <1>2 DEF Stacked, StackOf, Late, Init
<1>4. status = <<>> /\ db = 0 /\ ~journal.there
      BY DEF Init, NoJournal
<1>5. SafeStatus[1] = 0 /\ SafeStatus[2] = -1
      BY <1>4 DEF SafeStatus, Pending, Listed
<1>6. \A k \in Index : ~(SafeStatus[1] <= k /\ k <= SafeStatus[2])
      BY <1>5, BoundAssumption DEF Index
<1>7. StackRecoverable
      BY <1>6 DEF StackRecoverable
<1> QED  BY <1>1, <1>3, <1>4, <1>7 DEF SInv, Unused

\* The status file is never removed, and it is there when a change set goes
\* into the database.
LEMMA UnusedKept ==
    ASSUME SInv, [Next]_vars
    PROVE  Unused'
<1>1. CASE UNCHANGED vars
      BY <1>1 DEF vars, disk, SInv, Unused
<1>2. UndoneStatus = <<>> => status = <<>>
      BY DEF UndoneStatus
<1>3. CASE RevertCommand
      BY <1>2, <1>3 DEF RevertCommand, SInv, Unused
<1>4. ASSUME NEW p \in Proc,
             \/ Open(p) \/ ComputeJob(p) \/ ReadCounter(p) \/ Decline(p)
             \/ Step(p) \/ Fault(p) \/ Stop(p) \/ LateSignal(p) \/ Crash(p)
      PROVE  Unused'
  <2>1. CASE CommitDatabase(p)
    <3>1. /\ pc[p] = "applied" /\ status' = status /\ StackOf(p) /\ BudgetOf(p)
          BY <2>1 DEF CommitDatabase, disk, SInv, Stacked, TInv, Budget
    <3>2. Listed(status)[2] # -1
          BY <3>1 DEF StackOf, BudgetOf
    <3> QED  BY <3>1, <3>2, ListedFacts, TypesT DEF Unused, SInv
  <2>2. CASE Fault(p) \/ LateSignal(p)
        BY <1>2, <2>2 DEF Fault, LateSignal, Revert, SInv, Unused
  <2>3. CASE RenameStatus(p)
        BY <2>3, TypesT, ListedFacts DEF RenameStatus, SInv, Unused
  <2>4. CASE EndHunk(p)
    <3>1. status' = status \/ status' = <<mem[p][2] + 1, mem[p][2]>>
          BY <2>4 DEF EndHunk
    <3> QED  BY <2>4, <3>1 DEF EndHunk, SInv, Unused
  <2>5. CASE \/ Open(p) \/ ComputeJob(p)
             \/ ReadCounter(p) \/ Decline(p) \/ Stop(p)
             \/ Crash(p) \/ Lock(p) \/ LockFails(p) \/ CheckStale(p)
             \/ CreateJournal(p) \/ NewRollback(p) \/ AddRollback(p)
             \/ LeaveCommit(p) \/ CommitJournal(p) \/ RemoveJournal(p)
             \/ DropJournal(p) \/ Unlock(p) \/ Close(p)
    <3>1. db' = db /\ status' = status
          BY <2>5 DEF Open, ComputeJob, ReadCounter, Decline, Stop, Crash, Lock,
             LockFails, CheckStale, CreateJournal, NewRollback, AddRollback,
             LeaveCommit, CommitJournal, RemoveJournal, DropJournal, Unlock,
             Close, disk
    <3> QED  BY <3>1 DEF SInv, Unused
  <2>6. CASE Apply(p)
        BY <2>6 DEF Apply, SInv, Unused
  <2> QED  BY <1>4, <2>1, <2>2, <2>3, <2>4, <2>5, <2>6 DEF Step
<1> QED  BY <1>1, <1>3, <1>4 DEF Next

\* The stack after a step: what it was, listed for the first time, one version
\* longer, or empty.
StackStep ==
    \/ Kept
    \/ Ghost
    \/ \E k \in Index :
         /\ Grown(SafeStatus, SafeDirs, SafeStatus', SafeDirs', k, db)
         /\ db' = db + 1
    \/ /\ db' = db /\ SafeStatus'[1] = SafeStatus'[2] + 1
       /\ SafeStatus'[2] \in Int

\* The invariant is inductive.
LEMMA NextSInv ==
    ASSUME SInv, Sequential, [Next]_vars
    PROVE  SInv' /\ StackStep
<1>1. TInv' /\ IInv' /\ Unused'
      BY NextTInv, NextIInv, UnusedKept DEF SInv, Sequential
<1>2. Stacked' /\ Kept => SInv' /\ StackStep
      BY <1>1, KeptRecoverable DEF SInv, StackStep
<1>3. CASE UNCHANGED vars
  <2>1. UNCHANGED <<db, status, dirs, journal, pc, mem, mine>>
        BY <1>3 DEF vars, disk, work
  <2>2. StackUntouched
        BY <2>1 DEF StackUntouched
  <2>3. Kept /\ UndoneStatus' = UndoneStatus /\ UndoneDirs' = UndoneDirs
        BY <2>2, UntouchedKept DEF SInv
  <2>4. Stacked'
        BY <2>1, <2>3 DEF SInv, Stacked, StackOf, First
  <2> QED  BY <1>2, <2>3, <2>4
<1>4. CASE RevertCommand
      BY <1>2, <1>4, RevertStack
<1>5. ASSUME NEW p \in Proc,
             \/ Open(p) \/ ComputeJob(p)
             \/ ReadCounter(p) \/ Decline(p) \/ Step(p)
             \/ Fault(p) \/ Stop(p) \/ LateSignal(p) \/ Crash(p)
      PROVE  SInv' /\ StackStep
  <2>1. CASE \/ Open(p) \/ ComputeJob(p)
             \/ ReadCounter(p) \/ Decline(p) \/ Lock(p) \/ LockFails(p)
             \/ CheckStale(p) \/ LeaveCommit(p) \/ CommitJournal(p) \/ Stop(p)
             \/ Unlock(p) \/ Close(p) \/ Crash(p)
        BY <1>2, <2>1, OutsideStack
  <2>2. CASE CreateJournal(p)
        BY <1>2, <2>2, CreateStack
  <2>3. CASE NewRollback(p)
        BY <1>2, <2>3, NewRollbackStack
  <2>4. CASE RenameStatus(p)
    <3>1. Stacked' /\ (Kept \/ Ghost)
          BY <2>4, RenameStatusStack
    <3>2. CASE Ghost
          BY <1>1, <3>1, <3>2, GhostRecoverable DEF SInv, StackStep
    <3> QED  BY <1>2, <3>1, <3>2
  <2>5. CASE AddRollback(p)
        BY <1>2, <2>5, AddRollbackStack
  <2>6. CASE Apply(p)
        BY <1>2, <2>6, ApplyStack
  <2>7. CASE CommitDatabase(p)
    <3>1. SInv'
          BY <1>1, <2>7, CommitStack DEF SInv
    <3>2. StackStep
          BY <2>7, CommitGrows DEF StackStep, Grown
    <3> QED  BY <3>1, <3>2
  <2>8. CASE RemoveJournal(p) \/ DropJournal(p)
        BY <1>2, <2>8, RemoveStack
  <2>9. CASE EndHunk(p)
    <3>1. SInv'
          BY <1>1, <2>9, EndHunkStack DEF SInv
    <3>2. StackStep
          BY <2>9, EndHunkStack DEF StackStep
    <3> QED  BY <3>1, <3>2
  <2>10. CASE Fault(p)
        BY <1>2, <2>10, FaultStack
  <2>11. CASE LateSignal(p)
        BY <2>11 DEF LateSignal, Sequential, Regular
  <2> QED
        BY <1>5, <2>1, <2>2, <2>3, <2>4, <2>5, <2>6, <2>7, <2>8, <2>9, <2>10,
           <2>11 DEF Step
<1> QED  BY <1>3, <1>4, <1>5 DEF Next

\* When commands start one after the other, then whatever fails or dies before
\* its change set is in the database, the rollback stack leads back from the
\* state the database describes without a gap, once the journal has been
\* reverted: RollbackStack.new, writeStatus and Rollback.add record what they
\* do in the journal, and the order of _doCommit makes it count only when the
\* database has committed.
THEOREM StackSafe ==
    ASSUME Sequential
    PROVE  Spec => []StackRecoverable
<1>1. SInv => StackRecoverable
      BY DEF SInv
<1>2. SInv /\ [Next]_vars => SInv'
      BY NextSInv
<1> QED  BY <1>1, <1>2, InitSInv, PTL DEF Spec

-----------------------------------------------------------------------------
(* UpdateCommit implements AtomicUpdate.                                   *)

\* The states the stack st with the directories d leads back to.
BackOf(st, d) == UNION {{d[k][i] : i \in DOMAIN d[k]} : k \in st[1]..st[2]}

LEMMA InBack ==
    ASSUME NEW st, NEW d, NEW x
    PROVE  x \in BackOf(st, d)
             <=> \E k \in st[1]..st[2] : \E i \in DOMAIN d[k] : x = d[k][i]
BY DEF BackOf

LEMMA BackFrame ==
    ASSUME NEW st, NEW d, NEW e, \A k \in st[1]..st[2] : e[k] = d[k]
    PROVE  BackOf(st, e) = BackOf(st, d)
<1>1. ASSUME NEW x PROVE x \in BackOf(st, e) <=> x \in BackOf(st, d)
      BY InBack
<1> QED  BY <1>1

LEMMA BackEmpty ==
    ASSUME NEW st, NEW d, st[1] \in Int, st[2] \in Int, st[2] < st[1]
    PROVE  BackOf(st, d) = {}
<1>1. st[1]..st[2] = {}
      OBVIOUS
<1> QED  BY <1>1 DEF BackOf

\* A stack that has grown leads back to one state more, if it leads anywhere.
LEMMA GrownBack ==
    ASSUME NEW st, NEW d, NEW st2, NEW d2, NEW k, NEW v,
           Grown(st, d, st2, d2, k, v)
    PROVE  \/ BackOf(st2, d2) = BackOf(st, d) \cup {v}
           \/ BackOf(st, d) = {} /\ BackOf(st2, d2) = {}
<1>1. /\ k \in Index /\ k \in Int /\ st2[2] = k /\ st[1] = st2[1]
      /\ st[1] \in Int /\ st[2] \in Int /\ st[1] >= 0
      /\ st[2] \in {k - 1, k}
      BY BoundAssumption DEF Grown, Index, Status
<1>2. /\ d2[k] \in Seq(0..MaxVersion) /\ Len(d2[k]) \in Nat /\ Len(d2[k]) >= 1
      /\ d2[k][Len(d2[k])] = v /\ DOMAIN d2[k] = 1..Len(d2[k])
      BY DEF Grown
<1>3. \A j \in st[1]..k : j \in Index /\ (j # k => d[j] = d2[j])
      BY <1>1, BoundAssumption DEF Grown, Index
<1>4. CASE k < st[1]
      BY <1>1, <1>4, BackEmpty
<1>5. CASE st[1] <= k
  <2>1. v \in BackOf(st2, d2)
    <3>1. k \in st2[1]..st2[2] /\ Len(d2[k]) \in DOMAIN d2[k]
          BY <1>1, <1>2, <1>5
    <3> QED  BY <1>2, <3>1, InBack
  <2>2. CASE st[2] = k - 1 /\ Len(d2[k]) = 1
    <3>1. ASSUME NEW x, x \in BackOf(st2, d2) PROVE x \in BackOf(st, d) \cup {v}
      <4>1. PICK j \in st2[1]..st2[2] : \E i \in DOMAIN d2[j] : x = d2[j][i]
            BY <3>1, InBack
      <4>2. CASE j = k
        <5>1. PICK i \in 1..1 : x = d2[k][i]
              BY <1>2, <2>2, <4>1, <4>2
        <5> QED  BY <1>2, <2>2, <5>1
      <4>3. CASE j # k
        <5>1. j \in st[1]..st[2] /\ d[j] = d2[j]
              BY <1>1, <1>3, <2>2, <4>3
        <5> QED  BY <4>1, <5>1, InBack
      <4> QED  BY <4>2, <4>3
    <3>2. ASSUME NEW x, x \in BackOf(st, d) PROVE x \in BackOf(st2, d2)
      <4>1. PICK j \in st[1]..st[2] : \E i \in DOMAIN d[j] : x = d[j][i]
            BY <3>2, InBack
      <4>2. j \in st2[1]..st2[2] /\ d[j] = d2[j]
            BY <1>1, <1>3, <2>2
      <4> QED  BY <4>1, <4>2, InBack
    <3> QED  BY <2>1, <3>1, <3>2
  <2>3. CASE /\ st[2] = k /\ d[k] \in Seq(0..MaxVersion)
             /\ Len(d[k]) = Len(d2[k]) - 1
             /\ \A i \in 1..Len(d[k]) : d[k][i] = d2[k][i]
    <3>1. /\ DOMAIN d[k] = 1..Len(d[k]) /\ Len(d[k]) \in Nat
          /\ DOMAIN d[k] \subseteq DOMAIN d2[k]
          /\ \A i \in DOMAIN d2[k] : i = Len(d2[k]) \/ i \in DOMAIN d[k]
          BY <1>2, <2>3
    <3>2. ASSUME NEW x, x \in BackOf(st2, d2) PROVE x \in BackOf(st, d) \cup {v}
      <4>1. PICK j \in st2[1]..st2[2] : \E i \in DOMAIN d2[j] : x = d2[j][i]
            BY <3>2, InBack
      <4>2. j \in st[1]..st[2]
            BY <1>1, <2>3
      <4>3. CASE j = k
        <5>1. PICK i \in DOMAIN d2[k] : x = d2[k][i]
              BY <4>1, <4>3
        <5>2. CASE i = Len(d2[k])
              BY <1>2, <5>1, <5>2
        <5>3. CASE i \in DOMAIN d[k]
          <6>1. x = d[k][i]
                BY <2>3, <3>1, <5>1, <5>3
          <6> QED  BY <4>2, <4>3, <5>3, <6>1, InBack
        <5> QED  BY <3>1, <5>2, <5>3
      <4>4. CASE j # k
        <5>1. d[j] = d2[j]
              BY <1>1, <1>3, <4>4
        <5> QED  BY <4>1, <4>2, <5>1, InBack
      <4> QED  BY <4>3, <4>4
    <3>3. ASSUME NEW x, x \in BackOf(st, d) PROVE x \in BackOf(st2, d2)
      <4>1. PICK j \in st[1]..st[2] : \E i \in DOMAIN d[j] : x = d[j][i]
            BY <3>3, InBack
      <4>2. PICK i \in DOMAIN d[j] : x = d[j][i]
            BY <4>1
      <4>3. j \in st2[1]..st2[2]
            BY <1>1, <2>3
      <4>4. i \in DOMAIN d2[j] /\ x = d2[j][i]
        <5>1. CASE j = k
              BY <2>3, <3>1, <4>2, <5>1
        <5>2. CASE j # k
              BY <1>1, <1>3, <4>2, <4>3, <5>2
        <5> QED  BY <5>1, <5>2
      <4> QED  BY <4>3, <4>4, InBack
    <3> QED  BY <2>1, <3>2, <3>3
  <2> QED  BY <2>2, <2>3 DEF Grown
<1> QED  BY <1>1, <1>4, <1>5

\* Every step is a step of AtomicUpdate, or changes nothing it shows.
LEMMA StepImplements ==
    ASSUME FilesRecoverable, FilesRecoverable', StackStep
    PROVE  [Abstract!Next]_(Abstract!vars)
<1> DEFINE back == BackOf(SafeStatus, SafeDirs)
<1>1. /\ SafeFiles = [h \in 1..2 |-> db] /\ SafeFiles' = [h \in 1..2 |-> db']
      BY DEF FilesRecoverable, Half
<1>2. back = UNION {{SafeDirs[k][i] : i \in DOMAIN SafeDirs[k]} :
                      k \in SafeStatus[1]..SafeStatus[2]}
      BY DEF BackOf
<1>3. back' = UNION {{SafeDirs'[k][i] : i \in DOMAIN SafeDirs'[k]} :
                      k \in SafeStatus'[1]..SafeStatus'[2]}
      BY DEF BackOf
<1>4. CASE Kept
  <2>1. back' = back
        BY <1>4, BackFrame DEF Kept
  <2>2. db' = db /\ SafeFiles' = SafeFiles
        BY <1>1, <1>4 DEF Kept
  <2> HIDE DEF back
  <2> QED  BY <1>2, <1>3, <2>1, <2>2 DEF Abstract!vars
<1>5. CASE \E k \in Index :
             /\ Grown(SafeStatus, SafeDirs, SafeStatus', SafeDirs', k, db)
             /\ db' = db + 1
  <2>1. back' = back \cup {db} \/ (back = {} /\ back' = {})
        BY <1>5, GrownBack
  <2>2. db' = db + 1
        BY <1>5
  <2> HIDE DEF back
  <2>3. Abstract!Install
        BY <1>1, <1>2, <1>3, <2>1, <2>2 DEF Abstract!Install, Abstract!Installed
  <2> QED  BY <2>3 DEF Abstract!Next
<1>6. CASE /\ db' = db /\ SafeStatus'[1] = SafeStatus'[2] + 1
           /\ SafeStatus'[2] \in Int
  <2>1. back' = {}
        BY <1>6, BackEmpty
  <2>2. db' = db /\ SafeFiles' = SafeFiles
        BY <1>1, <1>6
  <2> HIDE DEF back
  <2>3. Abstract!Invalidate
        BY <1>3, <2>1, <2>2 DEF Abstract!Invalidate
  <2> QED  BY <2>3 DEF Abstract!Next
<1>7. CASE Ghost
  <2>1. SafeStatus[1] = 0 /\ SafeStatus[2] = -1
        BY <1>7 DEF Ghost
  <2>2. back = {}
        BY <2>1, BackEmpty
  <2>3. SafeStatus'[1] = 0 /\ SafeStatus'[2] = 0 /\ DOMAIN (SafeDirs'[0]) = {}
        BY <1>7 DEF Ghost
  <2>4. back' = {}
    <3>1. ASSUME NEW x, x \in back' PROVE FALSE
      <4>1. \E k \in SafeStatus'[1]..SafeStatus'[2] :
               \E i \in DOMAIN SafeDirs'[k] : x = SafeDirs'[k][i]
            BY <3>1, InBack
      <4>2. PICK k \in 0..0 : \E i \in DOMAIN SafeDirs'[k] : x = SafeDirs'[k][i]
            BY <2>3, <4>1
      <4>3. k = 0
            OBVIOUS
      <4> QED  BY <2>3, <4>2, <4>3
    <3> QED  BY <3>1
  <2>5. db' = db /\ SafeFiles' = SafeFiles
        BY <1>1, <1>7 DEF Ghost
  <2> HIDE DEF back
  <2> QED  BY <1>2, <1>3, <2>2, <2>4, <2>5 DEF Abstract!vars
<1> QED  BY <1>4, <1>5, <1>6, <1>7 DEF StackStep

LEMMA InitImplements ==
    ASSUME Init PROVE Abstract!Init
<1>1. SInv
      BY InitSInv
<1>2. SafeFiles = [h \in 1..2 |-> 0]
      BY <1>1, IInvRecoverable DEF SInv, FilesRecoverable, Half, Init
<1>3. SafeStatus = <<0, -1>>
      BY DEF Init, SafeStatus, Pending, NoJournal, Listed
<1>4. BackOf(SafeStatus, SafeDirs) = {}
  <2>1. SafeStatus[1] = 0 /\ SafeStatus[2] = -1
        BY <1>3
  <2>2. /\ SafeStatus[1] \in Int /\ SafeStatus[2] \in Int
        /\ SafeStatus[2] < SafeStatus[1]
        BY <2>1
  <2> QED  BY <2>2, BackEmpty
<1>5. db = 0
      BY DEF Init
<1> QED  BY <1>2, <1>4, <1>5 DEF Abstract!Init, Abstract!Installed, BackOf

\* When commands start one after the other, and whatever fails or dies before
\* its change set is in the database, the commands see the database, the files
\* and the rollbacks change as one: commitChangeSet with its journal
\* implements AtomicUpdate.
THEOREM ImplementsAtomicUpdate ==
    ASSUME Sequential
    PROVE  Spec => Implements
<1>1. SInv /\ [Next]_vars => SInv'
      BY NextSInv
<1>2. SInv => FilesRecoverable
      BY IInvRecoverable DEF SInv
<1>3. SInv /\ [Next]_vars /\ FilesRecoverable /\ FilesRecoverable'
        => [Abstract!Next]_(Abstract!vars)
      BY NextSInv, StepImplements
<1>4. Init => Abstract!Init
      BY InitImplements
<1> QED  BY <1>1, <1>2, <1>3, <1>4, InitSInv, PTL DEF Spec, Implements, Abstract!Spec
=============================================================================
