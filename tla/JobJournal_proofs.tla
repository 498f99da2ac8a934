-------------------------- MODULE JobJournal_proofs --------------------------
(***************************************************************************)
(* Proofs about the filesystem journal for every set of paths, every       *)
(* starting tree and every bound.                                          *)
(*                                                                         *)
(* First the write-ahead rule of backup(): no original file is lost while  *)
(* apply() runs.  The assumption of that theorem, no request to rename a   *)
(* file onto a path that is taken, is needed: AskRename makes no backup of *)
(* what it overwrites.  Then, for all requests and deaths in any phase:    *)
(* the types, that the journal names every backup, and what commit()       *)
(* leaves.                                                                 *)
(***************************************************************************)
EXTENDS JobJournal, TLAPS

JournalKinds == {"BACKUP", "BACKDIR", "RENAME", "CREATE", "MKDIR", "REMOVE",
                 "TRYCLEANUPDIR"}

Entries == [kind : JournalKinds, path : Path, other : Path, slot : Nat,
            meta : BOOLEAN]

Steps == {"backup", "link", "clear", "parents", "act", "note", "log", "move"}

Ops == {o \in [kind : AskKinds, path : Path, src : Path, slot : Nat, at : Steps] :
           o.at = "link" => o.slot \in Slot}

\* The part of the type invariant that the argument needs, without bounds.
TypeInv ==
    /\ ent \in [Path -> Nat]
    /\ bak \in [Path \X Slot -> Nat]
    /\ ino \in Nat
    /\ dirs \subseteq Nat
    /\ journal \in Seq(Entries)
    /\ op \in Ops \cup {NoOp}

\* An inode number handed out later is none of the original files.
OrigInv ==
    /\ orig.ent \in [Path -> Nat]
    /\ \A p \in Path : orig.ent[p] <= ino
    /\ \A p \in Path : OrigFile(p) => orig.ent[p] \notin dirs

\* Between the record and the link: the name is recorded, and free.
LinkInv ==
    Doing("link") => /\ Journaled(<<op.path, op.slot>>)
                     /\ bak[<<op.path, op.slot>>] = 0

\* Past the backup, the file at the target has a recorded second name.
TargetInv ==
    /\ phase = "apply"
    /\ op.at \in {"clear", "parents", "act"}
    /\ IsFile(op.path)
    => \E s \in Slot : /\ Journaled(<<op.path, s>>)
                       /\ bak[<<op.path, s>>] = ent[op.path]

\* A rename in hand goes to a free path.
RenameInv ==
    phase = "apply" /\ op.at \in {"log", "move"} => ent[op.src] = 0

IInv == TypeInv /\ OrigInv /\ LinkInv /\ TargetInv /\ RenameInv
            /\ OriginalsReachable

-----------------------------------------------------------------------------
\* A record once written stays in the journal while records are appended.
LEMMA AppendKeeps ==
    ASSUME journal \in Seq(Entries), NEW e \in Entries,
           journal' = Append(journal, e)
    PROVE  /\ journal' \in Seq(Entries)
           /\ \A b : Journaled(b) => Journaled(b)'
           /\ e.kind = "BACKUP" => Journaled(<<e.path, e.slot>>)'
<1>1. journal' \in Seq(Entries)
  OBVIOUS
<1>2. Len(journal') = Len(journal) + 1 /\ DOMAIN journal' = 1..Len(journal')
      /\ DOMAIN journal = 1..Len(journal) /\ Len(journal) \in Nat
  OBVIOUS
<1>3. \A i \in DOMAIN journal : i \in DOMAIN journal' /\ journal'[i] = journal[i]
  BY <1>2
<1>4. journal'[Len(journal) + 1] = e /\ Len(journal) + 1 \in DOMAIN journal'
  BY <1>2
<1>5. QED
  BY <1>1, <1>3, <1>4 DEF Journaled

\* The starting trees satisfy the invariant.
LEMMA InitIInv == Init => IInv
<1> SUFFICES ASSUME Init PROVE IInv
  OBVIOUS
<1>1. IsTree(orig)
  BY TreeAssumption DEF Init
<1>2. /\ orig.ent \in [Path -> 0..orig.top] /\ orig.top \in Nat
      /\ orig.dirs \subseteq 1..orig.top
  BY <1>1 DEF IsTree
<1>3. 0..orig.top \subseteq Nat /\ 1..orig.top \subseteq Nat
  BY <1>2
<1>4. ent \in [Path -> Nat] /\ \A p \in Path : orig.ent[p] <= orig.top
  BY <1>2, <1>3 DEF Init
<1>5. TypeInv
  BY <1>2, <1>3, <1>4 DEF Init, TypeInv
<1>6. OrigInv
  BY <1>2, <1>3, <1>4 DEF Init, OrigInv, OrigFile
<1>7. LinkInv /\ TargetInv /\ RenameInv
  BY DEF Init, LinkInv, TargetInv, RenameInv, Doing, NoOp
<1>8. OriginalsReachable
  BY DEF Init, OriginalsReachable
<1>9. QED
  BY <1>5, <1>6, <1>7, <1>8 DEF IInv

-----------------------------------------------------------------------------
(* One lemma per kind of step.                                             *)

\* A request is taken; no file is touched.
LEMMA BeginStep ==
    ASSUME IInv, phase = "apply",
           NEW kind \in AskKinds, NEW p \in Path, NEW src \in Path,
           NEW at \in {"backup", "log"}, at = "log" => ent[src] = 0,
           Begin(kind, p, src, at)
    PROVE  IInv'
<1> USE DEF IInv
<1>1. /\ UNCHANGED <<ent, dirs, chg, bak, ino, journal, phase, orig>>
      /\ op' = [kind |-> kind, path |-> p, src |-> src, slot |-> 0, at |-> at]
  BY DEF Begin, fs
<1>2. op' \in Ops /\ op'.at = at /\ op'.src = src
  BY <1>1 DEF Ops, Steps
<1>3. TypeInv' /\ OrigInv' /\ OriginalsReachable'
  BY <1>1, <1>2 DEF TypeInv, OrigInv, OrigFile, OriginalsReachable, Journaled
<1>4. LinkInv' /\ TargetInv' /\ RenameInv'
  BY <1>1, <1>2 DEF LinkInv, TargetInv, RenameInv, Doing
<1>5. QED
  BY <1>3, <1>4

\* The loops take their next request.
LEMMA AskStep ==
    ASSUME IInv, Ask, "renameOver" \notin Asks
    PROVE  IInv'
<1>1. phase = "apply"
  BY DEF Ask, TryCleanupDir, AskRemove, AskMkdir, AskLateFile, AskNewFile, AskRestore,
         AskRename, AskSymlink, AskLink, AskLateLink, NextStage, Ready
<1>2. ASSUME NEW p \in Path, TryCleanupDir(p) PROVE IInv'
  <2> DEFINE e == Entry("TRYCLEANUPDIR", p, p, 0, FALSE)
  <2>1. /\ UNCHANGED <<ent, dirs, chg, bak, ino, phase, op, orig>>
        /\ journal' = Append(journal, e) /\ op = NoOp
    BY <1>2 DEF TryCleanupDir, Ready, fs
  <2>2. e \in Entries
    BY DEF Entry, Entries, JournalKinds
  <2>3. journal' \in Seq(Entries) /\ \A b : Journaled(b) => Journaled(b)'
    BY <2>1, <2>2, AppendKeeps DEF IInv, TypeInv
  <2>4. TypeInv' /\ OrigInv' /\ OriginalsReachable'
    BY <2>1, <2>3
    DEF IInv, TypeInv, OrigInv, OrigFile, OriginalsReachable
  <2>5. LinkInv' /\ TargetInv' /\ RenameInv'
    BY <2>1 DEF LinkInv, TargetInv, RenameInv, Doing, NoOp
  <2>6. QED
    BY <2>4, <2>5 DEF IInv
<1>3. ASSUME NEW p \in Path, \/ AskRemove(p) \/ AskMkdir(p)
                           \/ AskLateFile(p) \/ AskNewFile(p)
      PROVE  IInv'
  <2>1. \E kind \in {"remove", "mkdir", "lateFile", "newFile"} : Begin(kind, p, p, "backup")
    BY <1>3 DEF AskRemove, AskMkdir, AskLateFile, AskNewFile
  <2>2. QED
    BY <1>1, <2>1, BeginStep DEF AskKinds
<1>4. ASSUME NEW p \in Path, NEW kind \in Asks, AskRestore(kind, p)
      PROVE  IInv'
  <2>1. kind \in AskKinds /\ Begin(kind, p, p, "backup")
    BY <1>4, AskAssumption DEF AskRestore
  <2>2. QED
    BY <1>1, <2>1, BeginStep
<1>5. ASSUME NEW p \in Path, NEW q \in Path, AskRename(p, q)
      PROVE  IInv'
  <2>1. ent[q] = 0 /\ Begin("rename", p, q, "log")
    BY <1>5 DEF AskRename
  <2>2. QED
    BY <1>1, <2>1, BeginStep DEF AskKinds
<1>6. ASSUME NEW p \in Path, NEW q \in Path,
             AskSymlink(p, q) \/ AskLink(p, q) \/ AskLateLink(p, q)
      PROVE  IInv'
  <2>1. \E kind \in {"symlink", "link", "lateLink"} : Begin(kind, p, q, "backup")
    BY <1>6 DEF AskSymlink, AskLink, AskLateLink
  <2>2. QED
    BY <1>1, <2>1, BeginStep DEF AskKinds
<1>7. CASE NextStage
  <2>1. UNCHANGED <<ent, dirs, chg, bak, ino, journal, phase, op, orig>>
    BY <1>7 DEF NextStage, fs
  <2>2. TypeInv' /\ OrigInv' /\ OriginalsReachable'
    BY <2>1
    DEF IInv, TypeInv, OrigInv, OrigFile, OriginalsReachable, Journaled
  <2>3. LinkInv' /\ TargetInv' /\ RenameInv'
    BY <2>1
    DEF IInv, LinkInv, TargetInv, RenameInv, Doing, IsFile, Journaled
  <2>4. QED
    BY <2>2, <2>3 DEF IInv
<1>8. QED
  BY <1>2, <1>3, <1>4, <1>5, <1>6, <1>7 DEF Ask

\* While a request is worked on, it is a request and not the lack of one.
LEMMA InHand ==
    ASSUME TypeInv, NEW at \in Steps, Doing(at)
    PROVE  op \in Ops /\ op.path \in Path /\ op.src \in Path
BY DEF TypeInv, Doing, NoOp, Steps, Ops

\* backup(): the record is written, no file is touched.
LEMMA BackupStep == ASSUME IInv, Backup PROVE IInv'
<1> USE DEF IInv
<1>1. op \in Ops /\ op.path \in Path
  BY InHand DEF Backup, Steps
<1>2. /\ UNCHANGED <<ent, dirs, chg, bak, ino, phase, orig>>
      /\ phase = "apply" /\ AfterBackup \in {"clear", "parents"}
  BY DEF Backup, Doing, fs, AfterBackup
<1>3. CASE /\ ~IsFile(op.path) /\ op' = [op EXCEPT !.at = AfterBackup]
           /\ \/ journal' = journal
              \/ journal' = Append(journal,
                              Entry("BACKDIR", op.path, op.path, 0, FALSE))
  <2>1. op' \in Ops /\ op'.at \in {"clear", "parents"} /\ op'.path = op.path
    BY <1>1, <1>2, <1>3 DEF Ops, Steps
  <2>2. Entry("BACKDIR", op.path, op.path, 0, FALSE) \in Entries
    BY <1>1 DEF Entry, Entries, JournalKinds
  <2>3. journal' \in Seq(Entries) /\ \A b : Journaled(b) => Journaled(b)'
    <3>1. CASE journal' = journal
      BY <3>1 DEF TypeInv, Journaled
    <3>2. CASE journal' # journal
      BY <1>3, <2>2, <3>2, AppendKeeps DEF TypeInv
    <3>3. QED
      BY <3>1, <3>2
  <2>4. TypeInv' /\ OrigInv' /\ OriginalsReachable'
    BY <1>2, <2>1, <2>3
    DEF TypeInv, OrigInv, OrigFile, OriginalsReachable
  <2>5. LinkInv' /\ TargetInv' /\ RenameInv'
    BY <1>2, <1>3, <2>1 DEF LinkInv, TargetInv, RenameInv, Doing, IsFile
  <2>6. QED
    BY <2>4, <2>5
<1>4. ASSUME NEW s \in Slot, bak[<<op.path, s>>] = 0,
             journal' = Append(journal, Entry("BACKUP", op.path, op.path, s,
                                              ent[op.path] \in chg)),
             op' = [op EXCEPT !.at = "link", !.slot = s]
      PROVE  IInv'
  <2> DEFINE e == Entry("BACKUP", op.path, op.path, s, ent[op.path] \in chg)
  <2>1. s \in Nat
    BY DEF Slot
  <2>2. /\ op' \in Ops /\ op'.at = "link"
        /\ op'.path = op.path /\ op'.slot = s
    BY <1>1, <1>4, <2>1 DEF Ops, Steps
  <2>3. e \in Entries
    BY <1>1, <2>1 DEF Entry, Entries, JournalKinds
  <2>4. e.kind = "BACKUP" /\ e.path = op.path /\ e.slot = s
    BY DEF Entry
  <2>5. /\ journal' \in Seq(Entries) /\ \A b : Journaled(b) => Journaled(b)'
        /\ Journaled(<<op.path, s>>)'
    BY <1>4, <2>3, <2>4, AppendKeeps DEF TypeInv
  <2>6. TypeInv' /\ OrigInv' /\ OriginalsReachable'
    BY <1>2, <2>2, <2>5
    DEF TypeInv, OrigInv, OrigFile, OriginalsReachable
  <2>7. Journaled(<<op.path, op.slot>>)'
    BY <2>2, <2>5 DEF Journaled
  <2>8. bak'[<<op'.path, op'.slot>>] = 0
    BY <1>2, <1>4, <2>2
  <2>9. LinkInv' /\ TargetInv' /\ RenameInv'
    BY <1>2, <2>2, <2>7, <2>8
    DEF LinkInv, TargetInv, RenameInv, Doing
  <2>10. QED
    BY <2>6, <2>9
<1>5. QED
  BY <1>3, <1>4 DEF Backup, Record, IsFile, TypeInv, IsDir

\* The link: the target now has its second name.
LEMMA LinkStep == ASSUME IInv, LinkBackup PROVE IInv'
<1> USE DEF IInv
<1>1. /\ op \in Ops /\ op.path \in Path /\ op.slot \in Slot
      /\ phase = "apply" /\ op.at = "link"
  BY InHand DEF LinkBackup, Steps, Doing, Ops
<1>2. /\ UNCHANGED <<ent, dirs, chg, ino, journal, phase, orig>>
      /\ bak' = [bak EXCEPT ![<<op.path, op.slot>>] = ent[op.path]]
      /\ op' = [op EXCEPT !.at = AfterBackup]
      /\ AfterBackup \in {"clear", "parents"}
  BY DEF LinkBackup, AfterBackup
<1>3. /\ op' \in Ops /\ op'.at \in {"clear", "parents"}
      /\ op'.path = op.path /\ op'.slot = op.slot
  BY <1>1, <1>2 DEF Ops, Steps
<1>4. /\ <<op.path, op.slot>> \in Path \X Slot
      /\ bak' \in [Path \X Slot -> Nat]
      /\ bak'[<<op.path, op.slot>>] = ent[op.path]
      /\ \A b \in Path \X Slot : bak[b] # 0 => bak'[b] = bak[b]
  BY <1>1, <1>2 DEF TypeInv, LinkInv, Doing
<1>5. Journaled(<<op.path, op.slot>>) /\ \A b : Journaled(b) = Journaled(b)'
  BY <1>1, <1>2 DEF LinkInv, Doing, Journaled
<1>6. TypeInv' /\ OrigInv'
  BY <1>2, <1>3, <1>4 DEF TypeInv, OrigInv, OrigFile
<1>7. OriginalsReachable'
  BY <1>1, <1>2, <1>4, <1>5 DEF OriginalsReachable, OrigFile
<1>8. LinkInv' /\ TargetInv' /\ RenameInv'
  BY <1>1, <1>2, <1>3, <1>4, <1>5 DEF LinkInv, TargetInv, RenameInv, Doing
<1>9. QED
  BY <1>6, <1>7, <1>8

\* Past the backup, whatever happens to the target loses no original.
LEMMA TargetMayGo ==
    ASSUME IInv, TypeInv', phase = "apply", op \in Ops,
           op.at \in {"clear", "parents", "act"},
           \A q \in Path : q # op.path => ent'[q] = ent[q],
           UNCHANGED <<bak, journal, phase, orig>>
    PROVE  OriginalsReachable'
<1> SUFFICES ASSUME NEW p \in Path, OrigFile(p)
             PROVE  \/ \E q \in Path : ent'[q] = orig.ent[p]
                    \/ \E b \in Path \X Slot :
                          Journaled(b) /\ bak[b] = orig.ent[p]
  BY DEF OriginalsReachable, OrigFile, Journaled
<1>1. \/ \E q \in Path : ent[q] = orig.ent[p]
      \/ \E b \in Path \X Slot : Journaled(b) /\ bak[b] = orig.ent[p]
  BY DEF IInv, OriginalsReachable
<1>2. ASSUME ent[op.path] = orig.ent[p]
      PROVE  \E b \in Path \X Slot : Journaled(b) /\ bak[b] = orig.ent[p]
  <2>1. IsFile(op.path)
    BY <1>2 DEF IInv, OrigInv, OrigFile, IsFile
  <2>2. PICK s \in Slot : /\ Journaled(<<op.path, s>>)
                          /\ bak[<<op.path, s>>] = ent[op.path]
    BY <2>1 DEF IInv, TargetInv
  <2>3. <<op.path, s>> \in Path \X Slot
    BY DEF Ops
  <2>4. QED
    BY <1>2, <2>2, <2>3
<1>3. QED
  BY <1>1, <1>2

\* Steps that give the target a new directory entry, or none, and go on.
LEMMA TargetStep ==
    ASSUME IInv, phase = "apply", op \in Ops,
           op.at \in {"clear", "parents", "act"},
           UNCHANGED <<bak, journal, phase, orig>>,
           ino' \in Nat, ino <= ino', dirs' \subseteq Nat,
           \A i \in dirs' : i \in dirs \/ i > ino,
           ent' \in [Path -> Nat],
           \A q \in Path : q # op.path => ent'[q] = ent[q],
           \/ op' = NoOp
           \/ op' = [op EXCEPT !.at = "note"]
           \/ op' = [op EXCEPT !.at = "parents"] /\ ent'[op.path] \in dirs' \cup {0}
    PROVE  IInv'
<1> USE DEF IInv
<1>1. TypeInv'
  <2>1. op' \in Ops \cup {NoOp}
    BY DEF Ops, Steps
  <2>2. QED
    BY <2>1 DEF TypeInv
<1>2. OrigInv'
  <2>1. /\ orig.ent \in [Path -> Nat] /\ ino \in Nat
        /\ \A p \in Path : orig.ent[p] <= ino
    BY DEF OrigInv, TypeInv
  <2>2. \A p \in Path : orig.ent[p] <= ino'
    BY <2>1
  <2>3. \A p \in Path : OrigFile(p) => orig.ent[p] \notin dirs'
    BY <2>1 DEF OrigInv
  <2>4. QED
    BY <2>1, <2>2, <2>3 DEF OrigInv, OrigFile
<1>3. /\ op' = [op EXCEPT !.at = "note"] => op'.at = "note"
      /\ op' = [op EXCEPT !.at = "parents"]
           => op'.at = "parents" /\ op'.path = op.path
  <2>1. op \in [kind : AskKinds, path : Path, src : Path, slot : Nat, at : Steps]
    BY DEF Ops
  <2>2. QED
    BY <2>1
<1>4. LinkInv' /\ RenameInv'
  BY <1>3 DEF LinkInv, RenameInv, Doing, NoOp
<1>5. TargetInv'
  <2>1. CASE op' = NoOp \/ op'.at = "note"
    BY <2>1 DEF TargetInv, NoOp
  <2>2. CASE /\ op' = [op EXCEPT !.at = "parents"]
             /\ ent'[op.path] \in dirs' \cup {0}
    <3>1. op'.path = op.path
      BY <2>2 DEF Ops
    <3>2. QED
      BY <2>2, <3>1 DEF TargetInv, IsFile
  <2>3. QED
    BY <2>1, <2>2 DEF Ops
<1>6. OriginalsReachable'
  BY <1>1, TargetMayGo
<1>7. QED
  BY <1>1, <1>2, <1>4, <1>5, <1>6

LEMMA ClearStep == ASSUME IInv, Clear PROVE IInv'
<1>1. /\ op \in Ops /\ op.path \in Path /\ op.at = "clear" /\ phase = "apply"
      /\ UNCHANGED <<dirs, bak, ino, journal, phase, orig>>
  BY InHand DEF Clear, Steps, Doing, IInv
<1>2. /\ ent' = [ent EXCEPT ![op.path] = IF IsDir(op.path) THEN @ ELSE 0]
      /\ op' = [op EXCEPT !.at = IF op.kind = "remove" THEN "note"
                                 ELSE "parents"]
  BY DEF Clear
<1>3. ent \in [Path -> Nat] /\ ino \in Nat /\ dirs \subseteq Nat
  BY DEF IInv, TypeInv
<1>4. ent' \in [Path -> Nat] /\ \A q \in Path : q # op.path => ent'[q] = ent[q]
  BY <1>1, <1>2, <1>3
<1>5. ent'[op.path] \in dirs' \cup {0}
  BY <1>1, <1>2, <1>3 DEF IsDir
<1>6. QED
  BY <1>1, <1>2, <1>3, <1>4, <1>5, TargetStep

\* mkdirChain takes a path where nothing is.
LEMMA MakeParentStep == ASSUME IInv, NEW q \in Path, MakeParent(q) PROVE IInv'
<1> USE DEF IInv
<1>1. /\ op \in Ops /\ op.path \in Path /\ op.at = "parents" /\ phase = "apply"
      /\ UNCHANGED <<bak, journal, phase, orig, op>>
      /\ ent[q] = 0 /\ ino' = ino + 1 /\ dirs' = dirs \cup {ino + 1}
      /\ ent' = [ent EXCEPT ![q] = ino + 1]
  BY InHand DEF MakeParent, Steps, Doing, job
<1>2. /\ ent \in [Path -> Nat] /\ ino \in Nat /\ ent' \in [Path -> Nat]
      /\ ent'[q] = ino + 1
      /\ \A p \in Path : p # q => ent'[p] = ent[p]
  BY <1>1 DEF TypeInv
<1>3. TypeInv' /\ OrigInv'
  BY <1>1, <1>2 DEF TypeInv, OrigInv, OrigFile
<1>4. LinkInv' /\ RenameInv'
  BY <1>1 DEF LinkInv, RenameInv, Doing
<1>5. TargetInv'
  BY <1>1, <1>2 DEF TargetInv, IsFile, Journaled
<1>6. OriginalsReachable'
  BY <1>1, <1>2 DEF OriginalsReachable, OrigFile, Journaled
<1>7. QED
  BY <1>3, <1>4, <1>5, <1>6

LEMMA ParentsMadeStep == ASSUME IInv, ParentsMade PROVE IInv'
<1> USE DEF IInv
<1>1. /\ op \in Ops /\ op.path \in Path /\ op.at = "parents" /\ phase = "apply"
      /\ UNCHANGED <<ent, dirs, chg, bak, ino, journal, phase, orig>>
      /\ op' = [op EXCEPT !.at = "act"]
  BY InHand DEF ParentsMade, Steps, Doing, fs
<1>2. op' \in Ops /\ op'.at = "act" /\ op'.path = op.path
  BY <1>1 DEF Ops, Steps
<1>3. TypeInv' /\ OrigInv' /\ OriginalsReachable'
  BY <1>1, <1>2 DEF TypeInv, OrigInv, OrigFile, OriginalsReachable, Journaled
<1>4. LinkInv' /\ RenameInv'
  BY <1>1, <1>2 DEF LinkInv, RenameInv, Doing
<1>5. IsFile(op.path)' => IsFile(op.path)
  BY <1>1, <1>2 DEF IsFile
<1>6. TargetInv'
  BY <1>1, <1>2, <1>5 DEF TargetInv, Journaled
<1>7. QED
  BY <1>3, <1>4, <1>6

\* What a handler does to its target at last.
LEMMA PlaceStep ==
    ASSUME IInv, PlaceFile \/ ChangeMeta \/ PlaceLink \/ PlaceDir
    PROVE  IInv'
<1>1. /\ op \in Ops /\ op.path \in Path /\ op.src \in Path
      /\ op.at = "act" /\ phase = "apply"
  BY InHand DEF PlaceFile, ChangeMeta, PlaceLink, PlaceDir, Act, Steps, Doing,
                IInv
<1>2. /\ UNCHANGED <<bak, journal, phase, orig>>
      /\ op' = NoOp \/ op' = [op EXCEPT !.at = "note"]
  BY DEF PlaceFile, ChangeMeta, PlaceLink, PlaceDir, Finished, Then
<1>3. ent \in [Path -> Nat] /\ ino \in Nat /\ dirs \subseteq Nat
  BY DEF IInv, TypeInv
<1>4. /\ ino' \in Nat /\ ino <= ino' /\ dirs' \subseteq Nat
      /\ \A i \in dirs' : i \in dirs \/ i > ino
      /\ ent' \in [Path -> Nat]
      /\ \A q \in Path : q # op.path => ent'[q] = ent[q]
  <2>1. CASE PlaceFile
    BY <1>1, <1>3, <2>1 DEF PlaceFile
  <2>2. CASE ChangeMeta
    BY <1>1, <1>3, <2>2 DEF ChangeMeta
  <2>3. CASE PlaceLink
    BY <1>1, <1>3, <2>3 DEF PlaceLink
  <2>4. CASE PlaceDir
    <3>1. CASE IsDir(op.path)
      <4>1. UNCHANGED <<ent, dirs, ino>>
        BY <2>4, <3>1 DEF PlaceDir
      <4>2. QED
        BY <1>1, <1>3, <4>1
    <3>2. CASE ~IsDir(op.path)
      <4>1. /\ ino' = ino + 1 /\ dirs' = dirs \cup {ino + 1}
            /\ ent' = [ent EXCEPT ![op.path] = ino + 1]
        BY <2>4, <3>2 DEF PlaceDir
      <4>2. ent' \in [Path -> Nat] /\ \A q \in Path : q # op.path => ent'[q] = ent[q]
        BY <1>1, <1>3, <4>1
      <4>3. /\ ino' \in Nat /\ ino <= ino' /\ dirs' \subseteq Nat
            /\ \A i \in dirs' : i \in dirs \/ i > ino
        BY <1>3, <4>1
      <4>4. QED
        BY <4>2, <4>3
    <3>3. QED
      BY <3>1, <3>2
  <2>5. QED
    BY <2>1, <2>2, <2>3, <2>4
<1>5. QED
  BY <1>1, <1>2, <1>4, TargetStep

\* The records that follow an act, and the one that precedes a rename.
LEMMA RecordStep == ASSUME IInv, Note \/ LogRename PROVE IInv'
<1> USE DEF IInv
<1>1. /\ op \in Ops /\ op.path \in Path /\ op.src \in Path /\ phase = "apply"
      /\ UNCHANGED <<ent, dirs, chg, bak, ino, phase, orig>>
  BY InHand DEF Note, LogRename, Steps, Doing, fs
<1>2. \/ op' = NoOp
      \/ op.at = "log" /\ op' = [op EXCEPT !.at = "move"]
  BY DEF Note, LogRename, Doing
<1>3. /\ op' \in Ops \cup {NoOp}
      /\ op' = NoOp \/ (op.at = "log" /\ op'.at = "move" /\ op'.src = op.src)
  BY <1>1, <1>2 DEF Ops, Steps
<1>4. \E e \in Entries : journal' = Append(journal, e)
  <2>1. CASE LogRename
    <3>1. Entry("RENAME", op.path, op.src, 0, FALSE) \in Entries
      BY <1>1 DEF Entry, Entries, JournalKinds
    <3>2. QED
      BY <2>1, <3>1 DEF LogRename, Record
  <2>2. CASE Note
    <3>1. \A k \in {"REMOVE", "MKDIR", "CREATE"} :
            Entry(k, op.path, op.path, 0, FALSE) \in Entries
      BY <1>1 DEF Entry, Entries, JournalKinds
    <3>2. \E k \in {"REMOVE", "MKDIR", "CREATE"} :
            journal' = Append(journal, Entry(k, op.path, op.path, 0, FALSE))
      BY <2>2 DEF Note, Record
    <3>3. QED
      BY <3>1, <3>2
  <2>3. QED
    BY <2>1, <2>2
<1>5. journal' \in Seq(Entries) /\ \A b : Journaled(b) => Journaled(b)'
  BY <1>4, AppendKeeps DEF TypeInv
<1>6. TypeInv' /\ OrigInv' /\ OriginalsReachable'
  BY <1>1, <1>3, <1>5 DEF TypeInv, OrigInv, OrigFile, OriginalsReachable
<1>7. LinkInv' /\ RenameInv' /\ TargetInv'
  BY <1>1, <1>3 DEF LinkInv, RenameInv, TargetInv, Doing, NoOp
<1>8. QED
  BY <1>6, <1>7

\* A rename onto a free path moves an inode and drops none.
LEMMA MoveStep == ASSUME IInv, Move PROVE IInv'
<1> USE DEF IInv
<1>1. /\ op \in Ops /\ op.path \in Path /\ op.src \in Path /\ phase = "apply"
      /\ UNCHANGED <<dirs, chg, bak, ino, journal, phase, orig>> /\ op' = NoOp
      /\ ent[op.src] = 0
  BY InHand DEF Move, Steps, Doing, Finished, RenameInv
<1>2. /\ ent \in [Path -> Nat] /\ ent' \in [Path -> Nat]
      /\ \A p \in Path : ent[p] # 0 => \E q \in Path : ent'[q] = ent[p]
  BY <1>1 DEF Move, TypeInv
<1>3. TypeInv' /\ OrigInv'
  BY <1>1, <1>2 DEF TypeInv, OrigInv, OrigFile
<1>4. LinkInv' /\ RenameInv' /\ TargetInv'
  BY <1>1 DEF LinkInv, RenameInv, TargetInv, Doing, NoOp
<1>5. OriginalsReachable'
  BY <1>1, <1>2 DEF OriginalsReachable, OrigFile, Journaled
<1>6. QED
  BY <1>3, <1>4, <1>5

-----------------------------------------------------------------------------
\* No step leads back into apply(), and every step inside it keeps IInv.
LEMMA NextIInv ==
    ASSUME "renameOver" \notin Asks, phase = "apply" => IInv, [Next]_vars
    PROVE  phase' = "apply" => IInv'
<1> SUFFICES ASSUME phase' = "apply" PROVE IInv'
  OBVIOUS
<1>1. CASE Ask
  <2>1. phase = "apply"
    BY <1>1 DEF Ask, TryCleanupDir, AskRemove, AskMkdir, AskLateFile, AskNewFile,
                AskRestore, AskRename, AskSymlink, AskLink, AskLateLink, NextStage, Ready
  <2>2. QED
    BY <1>1, <2>1, AskStep
<1>2. CASE Work
  <2>1. phase = "apply"
    BY <1>2 DEF Work, Backup, LinkBackup, Clear, ParentsMade, MakeParent,
                PlaceFile, ChangeMeta, PlaceLink, PlaceDir, Note, LogRename,
                Move, Act, Doing
  <2>2. QED
    BY <1>2, <2>1, BackupStep, LinkStep, ClearStep, MakeParentStep,
       ParentsMadeStep, PlaceStep, RecordStep, MoveStep DEF Work
<1>3. CASE ApplyDone \/ Fault \/ Crash
  BY <1>3 DEF ApplyDone, Fault, Crash
<1>4. CASE Recover
  BY <1>4 DEF Recover, RevertBackup, RevertRename, RevertCreate, RevertMkdir,
              RevertPass, CommitBackup, CommitCleanup, CommitPass,
              RemoveJournal, RevertJournal, Reading, Next1
<1>5. CASE Over \/ UNCHANGED vars
  <2>1. UNCHANGED vars
    BY <1>5 DEF Over
  <2>2. UNCHANGED <<ent, dirs, chg, bak, ino, journal, phase, op, orig>>
    BY <2>1 DEF vars, fs, job
  <2>3. IInv
    BY <2>2
  <2>4. TypeInv' /\ OrigInv' /\ OriginalsReachable'
    BY <2>2, <2>3
    DEF IInv, TypeInv, OrigInv, OrigFile, OriginalsReachable, Journaled
  <2>5. LinkInv' /\ RenameInv' /\ TargetInv'
    BY <2>2, <2>3
    DEF IInv, LinkInv, RenameInv, TargetInv, Doing, IsFile, Journaled
  <2>6. QED
    BY <2>4, <2>5 DEF IInv
<1>6. QED
  BY <1>1, <1>2, <1>3, <1>4, <1>5 DEF Next

\* For any tree, any hard links in it, any requests except renames onto a
\* taken path, and any number of requests and backups: wherever apply() is
\* interrupted, the inode of every file the job found is still on the disk,
\* under a path or under a backup name that the journal holds.
THEOREM OriginalsSafe ==
    ASSUME "renameOver" \notin Asks
    PROVE  Spec => []OriginalsReachable
<1>1. Init => (phase = "apply" => IInv)
  BY InitIInv
<1>2. (phase = "apply" => IInv) /\ [Next]_vars => (phase = "apply" => IInv)'
  BY NextIInv
<1>3. (phase = "apply" => IInv) => OriginalsReachable
  BY DEF IInv, OriginalsReachable
<1>4. QED
  BY <1>1, <1>2, <1>3, PTL DEF Spec

-----------------------------------------------------------------------------
(* The types, whatever the change set asks for.                            *)

Records == {e \in Entries : e.kind = "BACKUP" => e.slot \in Slot}

\* A request to change the metadata of a file finds one.
MetaTarget ==
    op.kind = "chmod" /\ phase = "apply" => op.at # "clear" /\ ent[op.path] # 0

FsTypes ==
    /\ ino \in Nat
    /\ ent \in [Path -> 0..ino] /\ bak \in [Path \X Slot -> 0..ino]
    /\ dirs \subseteq 1..ino /\ chg \subseteq 1..ino /\ via \subseteq 1..ino
    /\ DOMAIN to \subseteq 1..ino /\ \A i \in DOMAIN to : to[i] \in Path

JobTypes ==
    /\ phase \in Phases /\ stage \in 1..7 /\ done \subseteq Path
    /\ op \in Ops \cup {NoOp} /\ ops \in Nat

JournalTypes == journal \in Seq(Records) /\ pos \in 0..Len(journal)

\* The loop that names directories for cleanup comes first: nothing else has
\* been recorded while it runs, and it names parents before children.
CleanupFirst ==
    phase = "apply" /\ stage = 1 =>
        /\ op = NoOp
        /\ \A i \in DOMAIN journal :
             journal[i].kind = "TRYCLEANUPDIR" /\ journal[i].path \in done

ParentsFirst ==
    \A i, j \in DOMAIN journal : i < j /\ journal[j].kind = "TRYCLEANUPDIR" =>
        /\ journal[i].kind = "TRYCLEANUPDIR"
        /\ journal[j].path \notin Above[journal[i].path]

\* The record of a backup is written before the link is made.
LinkRecorded == Doing("link") => Journaled(<<op.path, op.slot>>)

\* commit() reads back to front: the backups that are left are recorded in
\* what is still to be read, the directories it has tried are in use.
CommitInv ==
    phase = "commit" =>
        /\ \A b \in Path \X Slot : bak[b] # 0 =>
             \E i \in 1..pos : journal[i].kind = "BACKUP"
                               /\ <<journal[i].path, journal[i].slot>> = b
        /\ \A i \in DOMAIN journal : i > pos /\ journal[i].kind = "TRYCLEANUPDIR"
             => ~ (IsDir(journal[i].path) /\ Empty(journal[i].path))

TInv == FsTypes /\ JobTypes /\ JournalTypes /\ MetaTarget
JInv == TInv /\ CleanupFirst /\ ParentsFirst /\ LinkRecorded
             /\ BackupsJournaled /\ CommitInv

-----------------------------------------------------------------------------
LEMMA StagesLen == Len(Stages) = 7 /\ \A i \in 1..7 : Stages[i] = "cleanup" => i = 1
BY DEF Stages

LEMMA InitTInv == Init => TInv
<1> SUFFICES ASSUME Init PROVE TInv
  OBVIOUS
<1>1. IsTree(orig)
  BY TreeAssumption DEF Init
<1>2. FsTypes
  BY <1>1 DEF Init, IsTree, FsTypes
<1>3. JobTypes /\ MetaTarget
  BY DEF Init, JobTypes, Phases, MetaTarget, NoOp
<1>4. JournalTypes
  BY DEF Init, JournalTypes
<1> QED  BY <1>2, <1>3, <1>4 DEF TInv

\* A record is appended, behind whatever is being read.
LEMMA AppendTypes ==
    ASSUME JournalTypes, NEW e \in Records, journal' = Append(journal, e), pos' = pos
    PROVE  /\ JournalTypes'
           /\ Len(journal') = Len(journal) + 1 /\ Len(journal) \in Nat
           /\ DOMAIN journal = 1..Len(journal) /\ DOMAIN journal' = 1..(Len(journal) + 1)
           /\ \A i \in DOMAIN journal : journal'[i] = journal[i]
           /\ journal'[Len(journal) + 1] = e
<1>1. journal \in Seq(Records) /\ pos \in 0..Len(journal)
  BY DEF JournalTypes
<1>2. journal' \in Seq(Records) /\ Len(journal') = Len(journal) + 1 /\ Len(journal) \in Nat
  BY <1>1
<1>3. DOMAIN journal = 1..Len(journal) /\ DOMAIN journal' = 1..(Len(journal) + 1)
  BY <1>1, <1>2
<1>4. /\ \A i \in DOMAIN journal : journal'[i] = journal[i]
      /\ journal'[Len(journal) + 1] = e
  BY <1>1, <1>2, <1>3
<1>5. pos' \in 0..Len(journal')
  BY <1>1, <1>2
<1> QED  BY <1>2, <1>3, <1>4, <1>5 DEF JournalTypes

\* Of a request in hand, all the fields are known.
LEMMA AtWork ==
    ASSUME TInv, NEW at \in Steps, Doing(at)
    PROVE  /\ phase = "apply" /\ op.at = at /\ op \in Ops
           /\ op.path \in Path /\ op.src \in Path /\ op.slot \in Nat /\ op.kind \in AskKinds
           /\ at = "link" => op.slot \in Slot
BY DEF TInv, JobTypes, Doing, NoOp, Ops, Steps

\* What the handlers do to a request: it goes on, or it is finished.
LEMMA GoOn ==
    ASSUME op \in Ops, NEW at \in Steps, at # "link"
    PROVE  LET o == [op EXCEPT !.at = at]
           IN  /\ o \in Ops /\ o.at = at /\ o.kind = op.kind
               /\ o.path = op.path /\ o.src = op.src
BY DEF Ops, Steps

-----------------------------------------------------------------------------
LEMMA AskTypes == ASSUME TInv, Ask PROVE TInv'
<1> USE DEF TInv
<1>b. ASSUME NEW kind \in AskKinds, NEW p \in Path, NEW src \in Path,
             NEW at \in {"backup", "log"}, kind = "chmod" => ent[p] # 0,
             Begin(kind, p, src, at)
      PROVE  TInv'
  <2>1. FsTypes' /\ JournalTypes'
    BY <1>b DEF Begin, fs, FsTypes, JournalTypes
  <2>2. op' = [kind |-> kind, path |-> p, src |-> src, slot |-> 0, at |-> at]
    BY <1>b DEF Begin
  <2>3. op' \in Ops /\ op'.kind = kind /\ op'.path = p /\ op'.at = at
    BY <2>2 DEF Ops, Steps
  <2>4. JobTypes' /\ MetaTarget'
    BY <1>b, <2>3 DEF Begin, fs, JobTypes, MetaTarget
  <2> QED  BY <2>1, <2>4
<1>1. ASSUME NEW p \in Path, TryCleanupDir(p) PROVE TInv'
  <2>1. Entry("TRYCLEANUPDIR", p, p, 0, FALSE) \in Records
    BY DEF Entry, Records, Entries, JournalKinds
  <2>2. JournalTypes'
    BY <1>1, <2>1, AppendTypes DEF TryCleanupDir
  <2>3. FsTypes' /\ JobTypes' /\ MetaTarget'
    BY <1>1 DEF TryCleanupDir, fs, FsTypes, JobTypes, MetaTarget
  <2> QED  BY <2>2, <2>3
<1>2. ASSUME NEW p \in Path, \/ AskRemove(p) \/ AskMkdir(p)
                           \/ AskLateFile(p) \/ AskNewFile(p) PROVE TInv'
  <2>1. \E kind \in {"remove", "mkdir", "lateFile", "newFile"} : Begin(kind, p, p, "backup")
    BY <1>2 DEF AskRemove, AskMkdir, AskLateFile, AskNewFile
  <2> QED  BY <2>1, <1>b DEF AskKinds
<1>3. ASSUME NEW p \in Path, NEW kind \in Asks, AskRestore(kind, p) PROVE TInv'
  <2>1. kind \in AskKinds /\ Begin(kind, p, p, "backup")
    BY <1>3, AskAssumption DEF AskRestore
  <2>2. kind = "chmod" => ent[p] # 0
    BY <1>3 DEF AskRestore, IsFile
  <2> QED  BY <2>1, <2>2, <1>b
<1>4. ASSUME NEW p \in Path, NEW q \in Path,
             \/ AskRename(p, q) \/ AskSymlink(p, q)
             \/ AskLink(p, q) \/ AskLateLink(p, q)
      PROVE  TInv'
  <2>1. \E kind \in {"rename", "symlink", "link", "lateLink"} : \E at \in {"backup", "log"} :
          Begin(kind, p, q, at)
    BY <1>4 DEF AskRename, AskSymlink, AskLink, AskLateLink
  <2> QED  BY <2>1, <1>b DEF AskKinds
<1>5. CASE NextStage
  BY <1>5, StagesLen DEF NextStage, fs, FsTypes, JobTypes, JournalTypes, MetaTarget
<1> QED  BY <1>1, <1>2, <1>3, <1>4, <1>5 DEF Ask

LEMMA WorkTypes == ASSUME TInv, Work PROVE TInv'
<1> USE DEF TInv
<1>f. FsTypes
  OBVIOUS
<1>1. CASE Backup
  <2>0. /\ op \in Ops /\ op.path \in Path /\ phase = "apply" /\ op.at = "backup"
    BY <1>1, AtWork DEF Backup, Steps
  <2>1. FsTypes' /\ UNCHANGED <<ent, phase, pos, stage, done, ops>>
    BY <1>1 DEF Backup, fs, FsTypes
  <2>2. AfterBackup \in Steps /\ AfterBackup # "link"
        /\ (op.kind = "chmod" => AfterBackup = "parents")
    BY DEF AfterBackup, Clears, Steps
  <2>3. ASSUME op' = [op EXCEPT !.at = AfterBackup] PROVE JobTypes' /\ MetaTarget'
    <3>1. op' \in Ops /\ op'.kind = op.kind /\ op'.path = op.path /\ op'.at = AfterBackup
      BY <2>0, <2>2, <2>3, GoOn
    <3> QED  BY <2>0, <2>1, <2>2, <3>1 DEF JobTypes, MetaTarget
  <2>4. CASE op' = [op EXCEPT !.at = AfterBackup] /\ UNCHANGED journal
    BY <2>1, <2>3, <2>4 DEF JournalTypes
  <2>5. CASE /\ op' = [op EXCEPT !.at = AfterBackup]
             /\ Record(Entry("BACKDIR", op.path, op.path, 0, FALSE))
    <3>1. Entry("BACKDIR", op.path, op.path, 0, FALSE) \in Records
      BY <2>0 DEF Entry, Records, Entries, JournalKinds
    <3>2. JournalTypes'
      BY <2>1, <2>5, <3>1, AppendTypes DEF Record
    <3> QED  BY <2>1, <2>3, <2>5, <3>2
  <2>6. ASSUME NEW s \in Slot,
               Record(Entry("BACKUP", op.path, op.path, s, ent[op.path] \in chg)),
               op' = [op EXCEPT !.at = "link", !.slot = s]
        PROVE  TInv'
    <3>0. s \in Nat
      BY DEF Slot
    <3>1. Entry("BACKUP", op.path, op.path, s, ent[op.path] \in chg) \in Records
      BY <2>0, <3>0 DEF Entry, Records, Entries, JournalKinds
    <3>2. JournalTypes'
      BY <2>1, <2>6, <3>1, AppendTypes DEF Record
    <3>3. op' \in Ops /\ op'.kind = op.kind /\ op'.path = op.path /\ op'.at = "link"
      BY <2>0, <2>6, <3>0 DEF Ops, Steps
    <3>4. JobTypes' /\ MetaTarget'
      BY <2>0, <2>1, <3>3 DEF JobTypes, MetaTarget
    <3> QED  BY <2>1, <3>2, <3>4
  <2> QED  BY <1>1, <2>4, <2>5, <2>6 DEF Backup
<1>2. CASE LinkBackup
  <2>0. /\ op \in Ops /\ op.path \in Path /\ op.slot \in Slot /\ phase = "apply"
    BY <1>2, AtWork DEF LinkBackup, Steps
  <2>1. AfterBackup \in Steps /\ AfterBackup # "link"
        /\ (op.kind = "chmod" => AfterBackup = "parents")
    BY DEF AfterBackup, Clears, Steps
  <2>2. op' \in Ops /\ op'.kind = op.kind /\ op'.path = op.path /\ op'.at = AfterBackup
    BY <1>2, <2>0, <2>1, GoOn DEF LinkBackup
  <2>3. FsTypes'
    BY <1>2, <1>f, <2>0 DEF LinkBackup, FsTypes
  <2>4. JobTypes' /\ JournalTypes' /\ MetaTarget'
    BY <1>2, <2>0, <2>1, <2>2 DEF LinkBackup, JobTypes, JournalTypes, MetaTarget
  <2> QED  BY <2>3, <2>4
<1>3. CASE Clear
  <2>0. /\ op \in Ops /\ op.path \in Path /\ phase = "apply" /\ op.at = "clear"
    BY <1>3, AtWork DEF Clear, Steps
  <2>1. op' \in Ops /\ op'.kind = op.kind /\ op.kind # "chmod"
    BY <1>3, <2>0, GoOn DEF Clear, Steps, MetaTarget
  <2>2. FsTypes'
    BY <1>3, <1>f, <2>0 DEF Clear, FsTypes
  <2>3. JobTypes' /\ JournalTypes' /\ MetaTarget'
    BY <1>3, <2>0, <2>1 DEF Clear, JobTypes, JournalTypes, MetaTarget
  <2> QED  BY <2>2, <2>3
<1>4. CASE ParentsMade
  <2>0. /\ op \in Ops /\ phase = "apply" /\ op.at = "parents"
    BY <1>4, AtWork DEF ParentsMade, Steps
  <2>1. op' \in Ops /\ op'.kind = op.kind /\ op'.path = op.path /\ op'.at = "act"
    BY <1>4, <2>0, GoOn DEF ParentsMade, Steps
  <2>2. FsTypes' /\ JobTypes' /\ JournalTypes' /\ MetaTarget'
    BY <1>4, <2>0, <2>1 DEF ParentsMade, fs, FsTypes, JobTypes, JournalTypes, MetaTarget
  <2> QED  BY <2>2
<1>5. ASSUME NEW q \in Path, MakeParent(q) PROVE TInv'
  <2>0. op.path \in Path
    BY <1>5, AtWork DEF MakeParent, Steps
  <2>1. FsTypes'
    BY <1>5, <1>f DEF MakeParent, FsTypes
  <2>2. JobTypes' /\ JournalTypes'
    BY <1>5 DEF MakeParent, job, JobTypes, JournalTypes
  <2>3. MetaTarget'
    BY <1>5, <1>f, <2>0 DEF MakeParent, job, MetaTarget, FsTypes
  <2> QED  BY <2>1, <2>2, <2>3
<1>6. CASE PlaceFile \/ ChangeMeta \/ PlaceLink \/ PlaceDir
  <2>0. /\ op \in Ops /\ op.path \in Path /\ op.src \in Path /\ phase = "apply" /\ op.at = "act"
    BY <1>6, AtWork DEF PlaceFile, ChangeMeta, PlaceLink, PlaceDir, Act, Steps
  <2>1. /\ op' = NoOp \/ op' = [op EXCEPT !.at = "note"]
        /\ UNCHANGED <<journal, phase, pos, stage, done, ops, orig>>
    BY <1>6 DEF PlaceFile, ChangeMeta, PlaceLink, PlaceDir, Finished, Then
  <2>2. /\ op' \in Ops \cup {NoOp}
        /\ op' # NoOp => op'.kind = op.kind /\ op'.path = op.path /\ op'.at = "note"
    BY <2>0, <2>1, GoOn DEF Steps
  <2>3. JobTypes' /\ JournalTypes'
    BY <2>1, <2>2 DEF JobTypes, JournalTypes
  <2>4. FsTypes' /\ (op.kind = "chmod" => ent' = ent)
    <3>1. CASE PlaceFile
      BY <1>f, <2>0, <3>1 DEF PlaceFile, Act, FsTypes
    <3>2. CASE ChangeMeta
      <4>1. ent[op.path] \in 1..ino
        BY <1>f, <2>0, <3>2 DEF ChangeMeta, Act, MetaTarget, FsTypes
      <4> QED  BY <1>f, <4>1, <3>2 DEF ChangeMeta, FsTypes
    <3>3. CASE PlaceLink
      BY <1>f, <2>0, <3>3 DEF PlaceLink, Act, FsTypes
    <3>4. CASE PlaceDir
      <4>1. CASE IsDir(op.path)
        <5>1. /\ UNCHANGED <<ent, dirs, to, via, ino, bak>>
              /\ chg' = chg \cup {ent[op.path]}
          BY <3>4, <4>1 DEF PlaceDir
        <5> QED  BY <1>f, <4>1, <5>1 DEF IsDir, FsTypes
      <4>2. CASE ~ IsDir(op.path)
        <5>1. /\ ino' = ino + 1 /\ ent' = [ent EXCEPT ![op.path] = ino + 1]
              /\ dirs' = dirs \cup {ino + 1} /\ UNCHANGED <<to, chg, via, bak>>
              /\ op.kind = "mkdir"
          BY <3>4, <4>2 DEF PlaceDir, Act
        <5> QED  BY <1>f, <2>0, <5>1 DEF FsTypes
      <4> QED  BY <4>1, <4>2
    <3> QED  BY <1>6, <3>1, <3>2, <3>3, <3>4
  <2>5. MetaTarget'
    BY <2>0, <2>2, <2>4 DEF MetaTarget, NoOp
  <2> QED  BY <2>3, <2>4, <2>5
<1>7. CASE Note \/ LogRename
  <2>0. /\ op \in Ops /\ op.path \in Path /\ op.src \in Path /\ phase = "apply"
    BY <1>7, AtWork DEF Note, LogRename, Steps
  <2>1. \E k \in {"REMOVE", "MKDIR", "CREATE", "RENAME"}, q \in Path :
          journal' = Append(journal, Entry(k, op.path, q, 0, FALSE))
    <3>1. CASE Note
      <4>1. \E k \in {"REMOVE", "MKDIR", "CREATE"} :
              journal' = Append(journal, Entry(k, op.path, op.path, 0, FALSE))
        BY <3>1 DEF Note, Record
      <4> QED  BY <2>0, <4>1
    <3>2. CASE LogRename
      BY <2>0, <3>2 DEF LogRename, Record
    <3> QED  BY <1>7, <3>1, <3>2
  <2>2. \A k \in {"REMOVE", "MKDIR", "CREATE", "RENAME"}, q \in Path :
          Entry(k, op.path, q, 0, FALSE) \in Records
    BY <2>0 DEF Entry, Records, Entries, JournalKinds
  <2>3. JournalTypes'
    <3>1. pos' = pos
      BY <1>7 DEF Note, LogRename
    <3>2. PICK e \in Records : journal' = Append(journal, e)
      BY <2>1, <2>2
    <3> QED  BY <3>1, <3>2, AppendTypes
  <2>4. /\ op' = NoOp \/ op' = [op EXCEPT !.at = "move"]
        /\ UNCHANGED <<fs, phase, stage, done, ops, orig>>
    BY <1>7 DEF Note, LogRename
  <2>5. /\ op' \in Ops \cup {NoOp}
        /\ op' # NoOp => op'.kind = op.kind /\ op'.path = op.path /\ op'.at = "move"
    BY <2>0, <2>4, GoOn DEF Steps
  <2>6. FsTypes' /\ JobTypes'
    BY <2>4, <2>5 DEF fs, FsTypes, JobTypes
  <2>7. MetaTarget'
    BY <2>0, <2>4, <2>5 DEF fs, MetaTarget, NoOp
  <2> QED  BY <2>3, <2>6, <2>7
<1>8. CASE Move
  <2>0. /\ op \in Ops /\ op.path \in Path /\ op.src \in Path /\ phase = "apply"
    BY <1>8, AtWork DEF Move, Steps
  <2>1. FsTypes'
    BY <1>8, <1>f, <2>0 DEF Move, FsTypes
  <2>2. JobTypes' /\ JournalTypes' /\ MetaTarget'
    BY <1>8 DEF Move, Finished, JobTypes, JournalTypes, MetaTarget, NoOp
  <2> QED  BY <2>1, <2>2
<1> QED  BY <1>1, <1>2, <1>3, <1>4, <1>5, <1>6, <1>7, <1>8 DEF Work

\* The record that is read has its type.
LEMMA ReadType ==
    ASSUME JournalTypes, pos > 0
    PROVE  /\ pos \in DOMAIN journal /\ journal[pos] \in Records /\ pos - 1 \in 0..Len(journal)
           /\ journal[pos].path \in Path /\ journal[pos].other \in Path
           /\ journal[pos].kind = "BACKUP" => journal[pos].slot \in Slot
<1>1. journal \in Seq(Records) /\ pos \in 1..Len(journal) /\ Len(journal) \in Nat
  BY DEF JournalTypes
<1>2. pos \in DOMAIN journal /\ journal[pos] \in Records /\ pos - 1 \in 0..Len(journal)
  BY <1>1
<1> QED  BY <1>2 DEF Records, Entries

LEMMA RecoverTypes == ASSUME TInv, Recover PROVE TInv'
<1> USE DEF TInv
<1>f. FsTypes
  OBVIOUS
<1>r. ASSUME NEW p \in {"revert", "commit"}, NEW ks, Reading(p, ks), Next1, FsTypes'
      PROVE  TInv'
  <2>1. pos - 1 \in 0..Len(journal)
    BY <1>r, ReadType DEF Reading
  <2>2. JobTypes' /\ JournalTypes'
    BY <1>r, <2>1 DEF Next1, job, JobTypes, JournalTypes
  <2>3. MetaTarget'
    BY <1>r DEF Reading, Next1, MetaTarget
  <2> QED  BY <1>r, <2>2, <2>3
<1>1. CASE RevertBackup
  <2>p. PICK e \in {journal[pos]} :
          \/ /\ CanRestore(e) /\ Restore(e)
             /\ chg' = chg \cup Led(e.path)' /\ via' = via \cup Led(e.path)'
          \/ /\ CanRestore(e) /\ Restore(e)
             /\ chg' \in {chg \cup {bak[<<e.path, e.slot>>]},
                           chg \ {bak[<<e.path, e.slot>>]}}
             /\ via' = via \ {bak[<<e.path, e.slot>>]}
          \/ ~CanRestore(e) /\ UNCHANGED fs
    BY <1>1 DEF RevertBackup
  <2> DEFINE i == bak[<<e.path, e.slot>>]
  <2>0. e.path \in Path /\ e.slot \in Slot
    BY <1>1, ReadType DEF RevertBackup, Reading
  <2>1. CASE CanRestore(e)
    <3>1. i \in 1..ino
      BY <1>f, <2>0, <2>1 DEF FsTypes, CanRestore
    <3>2. /\ ent' = [ent EXCEPT ![e.path] = i]
          /\ bak' = [bak EXCEPT ![<<e.path, e.slot>>] = IF ent[e.path] = i THEN i ELSE 0]
          /\ UNCHANGED <<dirs, to, ino>>
          /\ \/ chg' \in {chg \cup {i}, chg \ {i}} /\ via' = via \ {i}
             \/ chg' = chg \cup Led(e.path)' /\ via' = via \cup Led(e.path)'
      BY <2>p, <2>1 DEF Restore
    <3> HIDE DEF i
    <3>3. ent' \in [Path -> 0..ino]
      <4>1. i \in 0..ino /\ ent \in [Path -> 0..ino]
        BY <1>f, <3>1 DEF FsTypes
      <4> QED  BY <3>2, <4>1
    <3>4. Led(e.path)' \subseteq 1..ino
      <4>1. \A x \in Led(e.path)' : \E q \in Path : x = ent'[q] /\ x # 0
        BY DEF Led, Through
      <4> QED  BY <3>3, <4>1
    <3>5. chg' \subseteq 1..ino /\ via' \subseteq 1..ino
      <4>1. chg \subseteq 1..ino /\ via \subseteq 1..ino
        BY <1>f DEF FsTypes
      <4> QED  BY <3>1, <3>2, <3>4, <4>1
    <3>6. bak' \in [Path \X Slot -> 0..ino]
      BY <1>f, <2>0, <3>1, <3>2 DEF FsTypes
    <3>7. FsTypes'
      BY <1>f, <3>2, <3>3, <3>5, <3>6 DEF FsTypes
    <3> QED  BY <1>1, <1>r, <3>7 DEF RevertBackup
  <2>2. CASE ~ CanRestore(e)
    <3>1. UNCHANGED fs
      BY <2>p, <2>2
    <3>2. FsTypes'
      BY <3>1 DEF fs, FsTypes
    <3> QED  BY <1>1, <1>r, <3>2 DEF RevertBackup
  <2> QED  BY <2>1, <2>2
<1>2. CASE RevertRename
  <2>0. journal[pos].path \in Path /\ journal[pos].other \in Path
    BY <1>2, ReadType DEF RevertRename, Reading
  <2>1. FsTypes'
    BY <1>2, <1>f, <2>0 DEF RevertRename, FsTypes
  <2> QED  BY <1>2, <1>r, <2>1 DEF RevertRename
<1>3. CASE RevertCreate \/ RevertMkdir \/ CommitCleanup
  <2>0. journal[pos].path \in Path
    BY <1>3, ReadType DEF RevertCreate, RevertMkdir, CommitCleanup, Reading
  <2>1. UNCHANGED <<dirs, to, chg, via, bak, ino>>
    BY <1>3 DEF RevertCreate, RevertMkdir, CommitCleanup
  <2>2. \E x \in {0, ent[journal[pos].path]} : ent' = [ent EXCEPT ![journal[pos].path] = x]
    <3>1. CASE RevertCreate
      BY <3>1 DEF RevertCreate
    <3>2. CASE RevertMkdir
      BY <3>2 DEF RevertMkdir
    <3>3. CASE CommitCleanup
      BY <3>3 DEF CommitCleanup
    <3> QED  BY <1>3, <3>1, <3>2, <3>3
  <2>3. FsTypes'
    BY <1>f, <2>0, <2>1, <2>2 DEF FsTypes
  <2> QED  BY <1>3, <1>r, <2>3 DEF RevertCreate, RevertMkdir, CommitCleanup
<1>4. CASE RevertPass \/ CommitPass
  <2>1. FsTypes'
    BY <1>4 DEF RevertPass, CommitPass, fs, FsTypes
  <2> QED  BY <1>4, <1>r, <2>1 DEF RevertPass, CommitPass
<1>5. CASE CommitBackup
  <2>0. 0 \in 0..ino
    BY <1>f DEF FsTypes
  <2>1. bak' \in [Path \X Slot -> 0..ino]
    BY <1>5, <1>f, <2>0 DEF CommitBackup, FsTypes
  <2>2. FsTypes'
    BY <1>5, <1>f, <2>1 DEF CommitBackup, FsTypes
  <2> QED  BY <1>5, <1>r, <2>2 DEF CommitBackup
<1>6. CASE RemoveJournal
  <2>1. FsTypes' /\ JobTypes' /\ MetaTarget'
    BY <1>6 DEF RemoveJournal, fs, job, FsTypes, JobTypes, MetaTarget, Phases
  <2>2. JournalTypes'
    BY <1>6 DEF RemoveJournal, JournalTypes
  <2> QED  BY <2>1, <2>2
<1>7. CASE RevertJournal
  <2>1. FsTypes' /\ JobTypes' /\ MetaTarget'
    BY <1>7 DEF RevertJournal, fs, job, FsTypes, JobTypes, MetaTarget, Phases
  <2>2. JournalTypes'
    BY <1>7 DEF RevertJournal, JournalTypes
  <2> QED  BY <2>1, <2>2
<1> QED  BY <1>1, <1>2, <1>3, <1>4, <1>5, <1>6, <1>7 DEF Recover

LEMMA NextTypes == TInv /\ [Next]_vars => TInv'
<1> SUFFICES ASSUME TInv, [Next]_vars PROVE TInv'
  OBVIOUS
<1>1. CASE Ask
  BY <1>1, AskTypes
<1>2. CASE Work
  BY <1>2, WorkTypes
<1>3. CASE Recover
  BY <1>3, RecoverTypes
<1>4. CASE ApplyDone \/ Fault \/ Crash
  <2>1. FsTypes'
    BY <1>4 DEF TInv, ApplyDone, Fault, Crash, fs, FsTypes
  <2>2. JobTypes' /\ MetaTarget'
    BY <1>4 DEF TInv, ApplyDone, Fault, Crash, Leave, JobTypes, MetaTarget, Phases, NoOp
  <2>3. JournalTypes'
    BY <1>4 DEF TInv, ApplyDone, Fault, Crash, JournalTypes
  <2> QED  BY <2>1, <2>2, <2>3 DEF TInv
<1>5. CASE Over \/ UNCHANGED vars
  BY <1>5 DEF Over, vars, fs, job, TInv, FsTypes, JobTypes, JournalTypes, MetaTarget
<1> QED  BY <1>1, <1>2, <1>3, <1>4, <1>5 DEF Next

\* Every variable has its type, whatever the change set asks for and wherever
\* the job is interrupted (JobJournal, FilesystemJob.apply).
THEOREM TypeCorrect == Spec => []TypeOK
<1>1. TInv => TypeOK
  <2> SUFFICES ASSUME TInv PROVE TypeOK
    OBVIOUS
  <2>1. \A i \in DOMAIN journal : journal[i] \in Records
    BY DEF TInv, JournalTypes
  <2>2. \A i \in DOMAIN journal :
          /\ journal[i].path \in Path /\ journal[i].other \in Path
          /\ journal[i].kind = "BACKUP" => journal[i].slot \in Slot
          /\ journal[i].meta \in BOOLEAN
    BY <2>1 DEF Records, Entries
  <2>3. op # NoOp => op.path \in Path /\ op.src \in Path
    BY DEF TInv, JobTypes, Ops
  <2> QED  BY <2>2, <2>3, StagesLen DEF TInv, FsTypes, JobTypes, JournalTypes, TypeOK
<1> QED  BY <1>1, InitTInv, NextTypes, PTL DEF Spec

-----------------------------------------------------------------------------
(* The journal knows every backup, and commit() clears everything away.    *)

\* What is in the journal stays there while records are appended.
LEMMA Grown ==
    ASSUME JInv, NEW e \in Records, journal' = Append(journal, e), pos' = pos
    PROVE  /\ \A b : Journaled(b) => Journaled(b)'
           /\ e.kind = "BACKUP" => Journaled(<<e.path, e.slot>>)'
           /\ e.kind # "TRYCLEANUPDIR" => ParentsFirst'
<1>1. /\ Len(journal) \in Nat
      /\ DOMAIN journal = 1..Len(journal) /\ DOMAIN journal' = 1..(Len(journal) + 1)
      /\ \A i \in DOMAIN journal : journal'[i] = journal[i]
      /\ journal'[Len(journal) + 1] = e
  BY AppendTypes DEF JInv, TInv
<1>2. /\ \A i \in DOMAIN journal : i \in DOMAIN journal'
      /\ Len(journal) + 1 \in DOMAIN journal'
  BY <1>1
<1>3. \A b : Journaled(b) => Journaled(b)'
  BY <1>1, <1>2 DEF Journaled
<1>4. e.kind = "BACKUP" => Journaled(<<e.path, e.slot>>)'
  BY <1>1, <1>2 DEF Journaled
<1>5. ASSUME e.kind # "TRYCLEANUPDIR" PROVE ParentsFirst'
  <2> SUFFICES ASSUME NEW i \in DOMAIN journal', NEW j \in DOMAIN journal',
                      i < j, journal'[j].kind = "TRYCLEANUPDIR"
               PROVE  /\ journal'[i].kind = "TRYCLEANUPDIR"
                      /\ journal'[j].path \notin Above[journal'[i].path]
    BY DEF ParentsFirst
  <2>1. j \in DOMAIN journal
    BY <1>1, <1>5
  <2>2. i \in DOMAIN journal
    BY <1>1, <2>1
  <2> QED  BY <1>1, <2>1, <2>2 DEF JInv, ParentsFirst
<1> QED  BY <1>3, <1>4, <1>5

\* A step of apply() past its first loop that writes no record of a directory
\* to clean up, and makes no link.
LEMMA Onward ==
    ASSUME JInv, phase = "apply", phase' = "apply", bak' = bak, stage' # 1,
           \/ journal' = journal
           \/ \E e \in Records : journal' = Append(journal, e) /\ pos' = pos
                                 /\ e.kind # "TRYCLEANUPDIR",
           (op.at = "link" => Journaled(<<op.path, op.slot>>))'
    PROVE  /\ CleanupFirst' /\ ParentsFirst' /\ LinkRecorded'
           /\ BackupsJournaled' /\ CommitInv'
<1>1. ParentsFirst' /\ \A b : Journaled(b) => Journaled(b)'
  <2>1. CASE journal' = journal
    BY <2>1 DEF JInv, ParentsFirst, Journaled
  <2>2. ASSUME NEW e \in Records, journal' = Append(journal, e), pos' = pos,
               e.kind # "TRYCLEANUPDIR"
        PROVE  ParentsFirst' /\ \A b : Journaled(b) => Journaled(b)'
    BY <2>2, Grown
  <2> QED  BY <2>1, <2>2
<1>2. BackupsJournaled'
  BY <1>1 DEF JInv, BackupsJournaled
<1>3. CleanupFirst' /\ CommitInv'
  BY DEF CleanupFirst, CommitInv
<1>4. LinkRecorded'
  BY DEF LinkRecorded, Doing
<1> QED  BY <1>1, <1>2, <1>3, <1>4

LEMMA AskJInv ==
    ASSUME JInv, TInv', Ask
    PROVE  /\ CleanupFirst' /\ ParentsFirst' /\ LinkRecorded'
           /\ BackupsJournaled' /\ CommitInv'
<1>s. stage \in 1..7
  BY DEF JInv, TInv, JobTypes
<1>b. ASSUME NEW name, Ready(name), name # "cleanup",
             NEW kind, NEW p, NEW src, NEW at \in {"backup", "log"}, Begin(kind, p, src, at)
      PROVE  /\ CleanupFirst' /\ ParentsFirst' /\ LinkRecorded'
             /\ BackupsJournaled' /\ CommitInv'
  <2>1. stage # 1
    BY <1>b DEF Ready, Stages
  <2>2. /\ phase = "apply" /\ phase' = phase /\ bak' = bak /\ stage' = stage
        /\ journal' = journal /\ op'.at = at
    BY <1>b DEF Ready, Begin, fs
  <2> QED  BY <2>1, <2>2, Onward
<1>1. ASSUME NEW p \in Path, TryCleanupDir(p)
      PROVE  /\ CleanupFirst' /\ ParentsFirst' /\ LinkRecorded'
             /\ BackupsJournaled' /\ CommitInv'
  <2> DEFINE e == Entry("TRYCLEANUPDIR", p, p, 0, FALSE)
  <2>0. e \in Records /\ e.kind = "TRYCLEANUPDIR" /\ e.path = p
    BY DEF Entry, Records, Entries, JournalKinds
  <2>1. /\ phase = "apply" /\ phase' = phase /\ bak' = bak /\ pos' = pos /\ op = NoOp
        /\ stage' = stage /\ op' = op /\ journal' = Append(journal, e)
        /\ done' = done \cup {p} /\ \A q \in done : p \notin Above[q]
    BY <1>1 DEF TryCleanupDir, Ready, fs
  <2>2. stage = 1
    BY <1>1, <1>s, StagesLen DEF TryCleanupDir, Ready
  <2>3. \A i \in DOMAIN journal :
          journal[i].kind = "TRYCLEANUPDIR" /\ journal[i].path \in done
    BY <2>1, <2>2 DEF JInv, CleanupFirst
  <2> HIDE DEF e
  <2>4. /\ Len(journal) \in Nat
        /\ DOMAIN journal = 1..Len(journal) /\ DOMAIN journal' = 1..(Len(journal) + 1)
        /\ \A i \in DOMAIN journal : journal'[i] = journal[i]
        /\ journal'[Len(journal) + 1] = e
    BY <2>0, <2>1, AppendTypes DEF JInv, TInv
  <2>5. \A i \in DOMAIN journal' :
          \/ i \in DOMAIN journal /\ journal'[i] = journal[i]
          \/ i = Len(journal) + 1 /\ journal'[i] = e
    BY <2>4
  <2>6. CleanupFirst'
    BY <2>0, <2>1, <2>3, <2>5 DEF CleanupFirst
  <2>7. ParentsFirst'
    <3> SUFFICES ASSUME NEW i \in DOMAIN journal', NEW j \in DOMAIN journal',
                        i < j, journal'[j].kind = "TRYCLEANUPDIR"
                 PROVE  /\ journal'[i].kind = "TRYCLEANUPDIR"
                        /\ journal'[j].path \notin Above[journal'[i].path]
      BY DEF ParentsFirst
    <3>1. i \in DOMAIN journal /\ journal'[i] = journal[i]
      BY <2>4
    <3>2. CASE j \in DOMAIN journal
      BY <2>4, <3>1, <3>2 DEF JInv, ParentsFirst
    <3>3. CASE j = Len(journal) + 1
      BY <2>0, <2>1, <2>3, <2>4, <3>1, <3>3
    <3> QED  BY <2>5, <3>2, <3>3
  <2>8. BackupsJournaled'
    BY <2>0, <2>1, Grown DEF JInv, BackupsJournaled
  <2>9. LinkRecorded' /\ CommitInv'
    BY <2>1 DEF LinkRecorded, Doing, NoOp, CommitInv
  <2> QED  BY <2>6, <2>7, <2>8, <2>9
<1>2. ASSUME NEW p \in Path, \/ AskRemove(p) \/ AskMkdir(p)
                           \/ AskLateFile(p) \/ AskNewFile(p)
      PROVE  /\ CleanupFirst' /\ ParentsFirst' /\ LinkRecorded'
             /\ BackupsJournaled' /\ CommitInv'
  <2>1. \E name \in {"remove", "mkdir", "late", "new"},
           kind \in {"remove", "mkdir", "lateFile", "newFile"} :
          Ready(name) /\ Begin(kind, p, p, "backup")
    BY <1>2 DEF AskRemove, AskMkdir, AskLateFile, AskNewFile
  <2> QED  BY <2>1, <1>b
<1>3. ASSUME NEW p \in Path, NEW kind \in Asks, AskRestore(kind, p)
      PROVE  /\ CleanupFirst' /\ ParentsFirst' /\ LinkRecorded'
             /\ BackupsJournaled' /\ CommitInv'
  <2>1. Ready("restore") /\ Begin(kind, p, p, "backup")
    BY <1>3 DEF AskRestore
  <2> QED  BY <2>1, <1>b
<1>4. ASSUME NEW p \in Path, NEW q \in Path,
             \/ AskRename(p, q) \/ AskSymlink(p, q)
             \/ AskLink(p, q) \/ AskLateLink(p, q)
      PROVE  /\ CleanupFirst' /\ ParentsFirst' /\ LinkRecorded'
             /\ BackupsJournaled' /\ CommitInv'
  <2>1. \E name \in {"rename", "restore", "late"}, kind \in {"rename", "symlink", "link", "lateLink"},
           at \in {"backup", "log"} : Ready(name) /\ Begin(kind, p, q, at)
    BY <1>4 DEF AskRename, AskSymlink, AskLink, AskLateLink
  <2> QED  BY <2>1, <1>b
<1>5. CASE NextStage
  <2>1. /\ phase = "apply" /\ phase' = phase /\ bak' = bak /\ stage' = stage + 1
        /\ journal' = journal /\ op' = NoOp
    BY <1>5 DEF NextStage, fs
  <2>2. stage' # 1 /\ op'.at # "link"
    BY <1>s, <2>1 DEF NoOp
  <2> QED  BY <2>1, <2>2, Onward
<1> QED  BY <1>1, <1>2, <1>3, <1>4, <1>5 DEF Ask

LEMMA WorkJInv ==
    ASSUME JInv, TInv', Work
    PROVE  /\ CleanupFirst' /\ ParentsFirst' /\ LinkRecorded'
           /\ BackupsJournaled' /\ CommitInv'
<1>0. /\ phase = "apply" /\ phase' = "apply" /\ op # NoOp /\ stage' = stage
      /\ op \in Ops
  <2>1. \E at \in Steps : Doing(at)
    BY DEF Work, Backup, LinkBackup, Clear, ParentsMade, MakeParent, PlaceFile, ChangeMeta,
           PlaceLink, PlaceDir, Note, LogRename, Move, Act, Steps
  <2>2. phase' = phase /\ stage' = stage
    BY DEF Work, Backup, LinkBackup, Clear, ParentsMade, MakeParent, PlaceFile, ChangeMeta,
           PlaceLink, PlaceDir, Note, LogRename, Move, job, Then, Finished
  <2> QED  BY <2>1, <2>2, AtWork DEF JInv, Steps, NoOp
<1>s. stage' # 1
  BY <1>0 DEF JInv, CleanupFirst
<1>1. CASE Backup
  <2>0. op.path \in Path
    BY <1>0 DEF Ops
  <2>1. bak' = bak /\ pos' = pos /\ AfterBackup # "link"
    BY <1>1 DEF Backup, fs, AfterBackup
  <2>2. CASE op' = [op EXCEPT !.at = AfterBackup] /\ journal' = journal
    <3>1. op'.at # "link"
      BY <1>0, <2>1, <2>2 DEF Ops
    <3> QED  BY <1>0, <1>s, <2>1, <2>2, <3>1, Onward
  <2>3. CASE /\ op' = [op EXCEPT !.at = AfterBackup]
             /\ Record(Entry("BACKDIR", op.path, op.path, 0, FALSE))
    <3> DEFINE e == Entry("BACKDIR", op.path, op.path, 0, FALSE)
    <3>1. op'.at # "link"
      BY <1>0, <2>1, <2>3 DEF Ops
    <3>2. e \in Records /\ e.kind # "TRYCLEANUPDIR"
      BY <2>0 DEF Entry, Records, Entries, JournalKinds
    <3>3. journal' = Append(journal, e)
      BY <2>3 DEF Record
    <3> HIDE DEF e
    <3> QED  BY <1>0, <1>s, <2>1, <3>1, <3>2, <3>3, Onward
  <2>4. ASSUME NEW s \in Slot,
               Record(Entry("BACKUP", op.path, op.path, s, ent[op.path] \in chg)),
               op' = [op EXCEPT !.at = "link", !.slot = s]
        PROVE  /\ CleanupFirst' /\ ParentsFirst' /\ LinkRecorded'
               /\ BackupsJournaled' /\ CommitInv'
    <3>1. s \in Nat
      BY DEF Slot
    <3>2. PICK e \in Records : /\ journal' = Append(journal, e) /\ e.kind = "BACKUP"
                               /\ e.path = op.path /\ e.slot = s
      <4> DEFINE r == Entry("BACKUP", op.path, op.path, s, ent[op.path] \in chg)
      <4>1. /\ r \in Records /\ r.kind = "BACKUP" /\ r.path = op.path /\ r.slot = s
        BY <2>0, <3>1 DEF Entry, Records, Entries, JournalKinds
      <4>2. journal' = Append(journal, r)
        BY <2>4 DEF Record
      <4> HIDE DEF r
      <4> QED  BY <4>1, <4>2
    <3>3. Journaled(<<e.path, e.slot>>)'
      BY <2>1, <3>2, Grown
    <3>4. op'.path = e.path /\ op'.slot = e.slot
      BY <1>0, <2>4, <3>2 DEF Ops
    <3>5. Journaled(<<op.path, op.slot>>)'
      BY <3>3, <3>4 DEF Journaled
    <3>6. e.kind # "TRYCLEANUPDIR"
      BY <3>2
    <3> QED  BY <1>0, <1>s, <2>1, <3>2, <3>5, <3>6, Onward
  <2> QED  BY <1>1, <2>2, <2>3, <2>4 DEF Backup
<1>2. CASE LinkBackup
  <2>1. /\ journal' = journal /\ op' = [op EXCEPT !.at = AfterBackup]
        /\ bak' = [bak EXCEPT ![<<op.path, op.slot>>] = ent[op.path]]
        /\ AfterBackup # "link" /\ Journaled(<<op.path, op.slot>>)
    BY <1>2 DEF LinkBackup, AfterBackup, JInv, LinkRecorded
  <2>2. op'.at # "link"
    BY <1>0, <2>1 DEF Ops
  <2>3. bak \in [Path \X Slot -> 0..ino]
    BY DEF JInv, TInv, FsTypes
  <2>4. \A b \in Path \X Slot : bak'[b] # 0 => bak[b] # 0 \/ b = <<op.path, op.slot>>
    BY <2>1, <2>3
  <2>5. BackupsJournaled'
    BY <1>0, <2>1, <2>4 DEF JInv, BackupsJournaled, Journaled
  <2>6. ParentsFirst'
    BY <2>1 DEF JInv, ParentsFirst
  <2>7. CleanupFirst' /\ CommitInv' /\ LinkRecorded'
    BY <1>0, <1>s, <2>2 DEF CleanupFirst, CommitInv, LinkRecorded, Doing
  <2> QED  BY <2>5, <2>6, <2>7
<1>3. CASE Note \/ LogRename
  <2>0. op.path \in Path /\ op.src \in Path
    BY <1>0 DEF Ops
  <2>1. bak' = bak /\ pos' = pos
    BY <1>3 DEF Note, LogRename, fs
  <2>2. op'.at # "link"
    <3>1. op' = NoOp \/ op' = [op EXCEPT !.at = "move"]
      BY <1>3 DEF Note, LogRename
    <3> QED  BY <1>0, <3>1 DEF NoOp, Ops
  <2>3. \E k \in {"REMOVE", "MKDIR", "CREATE", "RENAME"}, q \in Path :
          journal' = Append(journal, Entry(k, op.path, q, 0, FALSE))
    <3>1. CASE Note
      <4>1. \E k \in {"REMOVE", "MKDIR", "CREATE"} :
              journal' = Append(journal, Entry(k, op.path, op.path, 0, FALSE))
        BY <3>1 DEF Note, Record
      <4> QED  BY <2>0, <4>1
    <3>2. CASE LogRename
      BY <2>0, <3>2 DEF LogRename, Record
    <3> QED  BY <1>3, <3>1, <3>2
  <2>4. \A k \in {"REMOVE", "MKDIR", "CREATE", "RENAME"}, q \in Path :
          /\ Entry(k, op.path, q, 0, FALSE) \in Records
          /\ Entry(k, op.path, q, 0, FALSE).kind # "TRYCLEANUPDIR"
    BY <2>0 DEF Entry, Records, Entries, JournalKinds
  <2>5. PICK e \in Records : journal' = Append(journal, e) /\ e.kind # "TRYCLEANUPDIR"
    BY <2>3, <2>4
  <2> QED  BY <1>0, <1>s, <2>1, <2>2, <2>5, Onward
<1>4. CASE \/ Clear \/ ParentsMade \/ (\E q \in Path : MakeParent(q))
           \/ PlaceFile \/ ChangeMeta \/ PlaceLink \/ PlaceDir \/ Move
  <2>1. bak' = bak /\ journal' = journal
    BY <1>4 DEF Clear, ParentsMade, MakeParent, PlaceFile, ChangeMeta, PlaceLink, PlaceDir,
                Move, fs, Then, Finished
  <2>2. \/ op' = NoOp
        \/ op' = op /\ op.at = "parents"
        \/ \E at \in {"note", "parents", "act"} : op' = [op EXCEPT !.at = at]
    <3>1. CASE Clear \/ ParentsMade
      BY <3>1 DEF Clear, ParentsMade
    <3>2. CASE \E q \in Path : MakeParent(q)
      BY <3>2 DEF MakeParent, job, Doing
    <3>3. CASE PlaceFile \/ ChangeMeta \/ PlaceLink \/ PlaceDir \/ Move
      <4>1. CASE PlaceFile \/ PlaceLink
        BY <4>1 DEF PlaceFile, PlaceLink, Then, Finished
      <4>2. CASE ChangeMeta \/ PlaceDir
        BY <4>2 DEF ChangeMeta, PlaceDir, Then
      <4>3. CASE Move
        BY <4>3 DEF Move, Finished
      <4> QED  BY <3>3, <4>1, <4>2, <4>3
    <3> QED  BY <1>4, <3>1, <3>2, <3>3
  <2>3. op'.at # "link"
    BY <1>0, <2>2 DEF NoOp, Ops
  <2> QED  BY <1>0, <1>s, <2>1, <2>3, Onward
<1> QED  BY <1>1, <1>2, <1>3, <1>4 DEF Work

\* Reading back: no name of a backup is made, no record is written.
LEMMA RecoverJInv ==
    ASSUME JInv, TInv', Recover \/ ApplyDone \/ Fault \/ Crash \/ UNCHANGED vars
    PROVE  /\ CleanupFirst' /\ ParentsFirst' /\ LinkRecorded' /\ BackupsJournaled'
<1>1. \/ phase' # "apply"
      \/ UNCHANGED <<phase, stage, op, journal, done>>
  BY DEF Recover, RevertBackup, RevertRename, RevertCreate, RevertMkdir, RevertPass,
         CommitBackup, CommitCleanup, CommitPass, RemoveJournal, RevertJournal, Reading,
         Next1, ApplyDone, Fault, Crash, vars, job
<1>2. journal' = journal \/ (journal' = <<>> /\ phase' \in {"reverted", "committed"})
  BY DEF Recover, RevertBackup, RevertRename, RevertCreate, RevertMkdir, RevertPass,
         CommitBackup, CommitCleanup, CommitPass, RemoveJournal, RevertJournal,
         Next1, ApplyDone, Fault, Crash, vars, job
<1>3. CleanupFirst' /\ LinkRecorded'
  BY <1>1 DEF JInv, CleanupFirst, LinkRecorded, Doing, Journaled
<1>4. ParentsFirst'
  BY <1>2 DEF JInv, ParentsFirst
<1>5. phase' \in {"reverted", "committed"} \/ phase \notin {"reverted", "committed"}
  <2>1. CASE phase' = phase
    BY <2>1
  <2>2. CASE RemoveJournal \/ RevertJournal \/ ApplyDone \/ Fault
    BY <2>2 DEF RemoveJournal, RevertJournal, ApplyDone, Fault
  <2>3. CASE Crash
    BY <2>3, CrashAssumption DEF Crash
  <2> QED  BY <2>1, <2>2, <2>3
           DEF Recover, RevertBackup, RevertRename, RevertCreate, RevertMkdir, RevertPass,
               CommitBackup, CommitCleanup, CommitPass, Next1, vars
<1>6. \A b \in Path \X Slot : bak'[b] # 0 => bak[b] # 0
  <2>t. bak \in [Path \X Slot -> 0..ino]
    BY DEF JInv, TInv, FsTypes
  <2>1. CASE bak' = bak
    BY <2>1
  <2>2. CASE CommitBackup
    BY <2>t, <2>2 DEF CommitBackup
  <2>3. CASE RevertBackup
    BY <2>t, <2>3 DEF RevertBackup, Restore, fs
  <2> QED  BY <2>1, <2>2, <2>3
           DEF Recover, RevertRename, RevertCreate, RevertMkdir, RevertPass, CommitCleanup,
               CommitPass, RemoveJournal, RevertJournal, ApplyDone, Fault, Crash, vars, fs
<1>7. BackupsJournaled'
  BY <1>2, <1>5, <1>6 DEF JInv, BackupsJournaled, Journaled
<1> QED  BY <1>3, <1>4, <1>7

\* commit() reads a record.
LEMMA CommitStep ==
    ASSUME JInv, TInv', CommitBackup \/ CommitCleanup \/ CommitPass
    PROVE  CommitInv'
<1>0. /\ phase = "commit" /\ phase' = "commit" /\ pos' = pos - 1 /\ pos > 0
      /\ journal' = journal
  BY DEF CommitBackup, CommitCleanup, CommitPass, Reading, Next1
<1>1. /\ pos \in Nat /\ pos \in DOMAIN journal /\ journal \in Seq(Records)
      /\ pos \in 1..Len(journal) /\ journal[pos].path \in Path
      /\ journal[pos].kind = "BACKUP" => journal[pos].slot \in Slot
  BY <1>0, ReadType DEF JInv, TInv, JournalTypes
<1>t. /\ ent \in [Path -> 0..ino] /\ bak \in [Path \X Slot -> 0..ino] /\ 0 \notin dirs
  BY DEF JInv, TInv, FsTypes
<1>b. \A b \in Path \X Slot : bak[b] # 0 =>
        \E i \in 1..pos : journal[i].kind = "BACKUP"
                          /\ <<journal[i].path, journal[i].slot>> = b
  BY <1>0 DEF JInv, CommitInv
<1>c. \A i \in DOMAIN journal : i > pos /\ journal[i].kind = "TRYCLEANUPDIR"
        => ~ (IsDir(journal[i].path) /\ Empty(journal[i].path))
  BY <1>0 DEF JInv, CommitInv
<1>d. DOMAIN journal = 1..Len(journal) /\ Len(journal) \in Nat
  BY <1>1
<1>i. \A i \in DOMAIN journal : i > pos - 1 => i > pos \/ i = pos
  BY <1>1, <1>d
<1>2. CASE CommitBackup
  <2>0. bak' = [bak EXCEPT ![<<journal[pos].path, journal[pos].slot>>] = 0]
        /\ journal[pos].kind = "BACKUP" /\ UNCHANGED <<ent, dirs>>
    BY <1>2 DEF CommitBackup, Reading
  <2>1. ASSUME NEW b \in Path \X Slot, bak'[b] # 0
        PROVE  \E i \in 1..(pos - 1) : journal[i].kind = "BACKUP"
                                       /\ <<journal[i].path, journal[i].slot>> = b
    <3>1. bak[b] # 0 /\ b # <<journal[pos].path, journal[pos].slot>>
      BY <1>t, <2>0, <2>1
    <3>2. PICK i \in 1..pos : journal[i].kind = "BACKUP"
                              /\ <<journal[i].path, journal[i].slot>> = b
      BY <1>b, <3>1
    <3>3. i \in 1..(pos - 1)
      BY <1>1, <3>1, <3>2
    <3> QED  BY <3>2, <3>3
  <2>2. \A i \in DOMAIN journal : i > pos - 1 => journal[i].kind # "TRYCLEANUPDIR"
    BY <1>1, <1>i, <2>0 DEF JInv, ParentsFirst
  <2> QED  BY <1>0, <2>1, <2>2 DEF CommitInv
<1>3. CASE CommitCleanup
  <2> DEFINE p == journal[pos].path
  <2>0. /\ ent' = [ent EXCEPT ![p] = IF IsDir(p) /\ Empty(p) THEN 0 ELSE @]
        /\ journal[pos].kind = "TRYCLEANUPDIR" /\ UNCHANGED <<dirs, bak>>
    BY <1>3 DEF CommitCleanup, Reading
  <2>1. ASSUME NEW b \in Path \X Slot, bak'[b] # 0
        PROVE  \E i \in 1..(pos - 1) : journal[i].kind = "BACKUP"
                                       /\ <<journal[i].path, journal[i].slot>> = b
    <3>1. PICK i \in 1..pos : journal[i].kind = "BACKUP"
                              /\ <<journal[i].path, journal[i].slot>> = b
      BY <1>b, <2>0, <2>1
    <3>2. i \in 1..(pos - 1)
      BY <1>1, <2>0, <3>1
    <3> QED  BY <3>1, <3>2
  <2>2. ASSUME NEW i \in DOMAIN journal, i > pos - 1, journal[i].kind = "TRYCLEANUPDIR",
               (IsDir(journal[i].path) /\ Empty(journal[i].path))'
        PROVE  FALSE
    <3> DEFINE r == journal[i].path
    <3>0. r \in Path
      BY <1>1 DEF Records, Entries
    <3>1. /\ ent'[r] \in dirs
          /\ \A q \in Path : r \in Above[q] => ent'[q] = 0 /\ \A s \in Slot : bak[<<q, s>>] = 0
      BY <1>0, <2>0, <2>2 DEF IsDir, Empty
    <3>2. ent'[r] = ent[r]
      BY <1>t, <1>1, <2>0, <3>0, <3>1
    <3>3. p \notin {q \in Path : r \in Above[q]} \/ i = pos
      BY <1>i, <2>2, <1>1 DEF JInv, ParentsFirst
    <3>4. CASE i = pos
      <4>1. ~ (IsDir(p) /\ Empty(p))
        BY <1>t, <1>1, <2>0, <3>1, <3>4
      <4>2. ent' = ent
        BY <1>t, <1>1, <2>0, <4>1
      <4> QED  BY <3>1, <3>4, <4>1, <4>2 DEF IsDir, Empty
    <3>5. CASE i > pos
      <4>1. p \notin {q \in Path : r \in Above[q]}
        BY <1>1, <1>d, <3>3, <3>5
      <4>2. \A q \in Path : r \in Above[q] => ent'[q] = ent[q]
        BY <1>t, <1>1, <2>0, <4>1
      <4>3. IsDir(r) /\ Empty(r)
        BY <3>1, <3>2, <4>2 DEF IsDir, Empty
      <4> QED  BY <1>c, <2>2, <3>5, <4>3
    <3> QED  BY <1>i, <2>2, <3>4, <3>5
  <2>3. \A i \in DOMAIN journal : i > pos - 1 /\ journal[i].kind = "TRYCLEANUPDIR"
          => ~ (IsDir(journal[i].path) /\ Empty(journal[i].path))'
    BY <2>2
  <2>4. (\A i \in DOMAIN journal : i > pos /\ journal[i].kind = "TRYCLEANUPDIR"
          => ~ (IsDir(journal[i].path) /\ Empty(journal[i].path)))'
    BY <1>0, <2>3
  <2> QED  BY <1>0, <2>1, <2>4 DEF CommitInv
<1>4. CASE CommitPass
  <2>0. UNCHANGED <<ent, dirs, bak>> /\ journal[pos].kind \notin {"BACKUP", "TRYCLEANUPDIR"}
    BY <1>4 DEF CommitPass, fs, Reading
  <2>1. ASSUME NEW b \in Path \X Slot, bak'[b] # 0
        PROVE  \E i \in 1..(pos - 1) : journal[i].kind = "BACKUP"
                                       /\ <<journal[i].path, journal[i].slot>> = b
    <3>1. PICK i \in 1..pos : journal[i].kind = "BACKUP"
                              /\ <<journal[i].path, journal[i].slot>> = b
      BY <1>b, <2>0, <2>1
    <3>2. i \in 1..(pos - 1)
      BY <1>1, <2>0, <3>1
    <3> QED  BY <3>1, <3>2
  <2>2. \A i \in DOMAIN journal : i > pos - 1 /\ journal[i].kind = "TRYCLEANUPDIR"
          => ~ (IsDir(journal[i].path) /\ Empty(journal[i].path))
    BY <1>c, <1>i, <2>0
  <2>3. (\A i \in DOMAIN journal : i > pos /\ journal[i].kind = "TRYCLEANUPDIR"
          => ~ (IsDir(journal[i].path) /\ Empty(journal[i].path)))'
    BY <1>0, <2>0, <2>2 DEF IsDir, Empty
  <2> QED  BY <1>0, <2>1, <2>3 DEF CommitInv
<1> QED  BY <1>2, <1>3, <1>4

LEMMA NextJInv == JInv /\ TInv' /\ [Next]_vars => JInv'
<1> SUFFICES ASSUME JInv, TInv', [Next]_vars PROVE JInv'
  OBVIOUS
<1>1. CASE Ask
  BY <1>1, AskJInv DEF JInv
<1>2. CASE Work
  BY <1>2, WorkJInv DEF JInv
<1>3. CASE Recover \/ ApplyDone \/ Fault \/ Crash \/ UNCHANGED vars
  <2>1. CleanupFirst' /\ ParentsFirst' /\ LinkRecorded' /\ BackupsJournaled'
    BY <1>3, RecoverJInv
  <2>2. CASE CommitBackup \/ CommitCleanup \/ CommitPass
    BY <2>1, <2>2, CommitStep DEF JInv
  <2>3. CASE ApplyDone
    <3>1. /\ phase = "apply" /\ pos' = Len(journal) /\ journal' = journal /\ bak' = bak
      BY <2>3 DEF ApplyDone, fs
    <3>2. DOMAIN journal = 1..Len(journal) /\ Len(journal) \in Nat
      BY DEF JInv, TInv, JournalTypes
    <3>3. \A b \in Path \X Slot : bak'[b] # 0 =>
            \E i \in 1..Len(journal) : journal[i].kind = "BACKUP"
                               /\ <<journal[i].path, journal[i].slot>> = b
      BY <3>1, <3>2 DEF JInv, BackupsJournaled, Journaled
    <3>4. CommitInv'
      BY <3>1, <3>2, <3>3 DEF CommitInv
    <3> QED  BY <2>1, <3>4 DEF JInv
  <2>4. CASE UNCHANGED vars
    <3>1. CommitInv'
      BY <2>4 DEF vars, fs, JInv, CommitInv, IsDir, Empty
    <3> QED  BY <2>1, <3>1 DEF JInv
  <2>5. CASE /\ ~ (CommitBackup \/ CommitCleanup \/ CommitPass)
             /\ Recover \/ Fault \/ Crash
    <3>1. phase' # "commit"
      BY <2>5 DEF Recover, RevertBackup, RevertRename, RevertCreate, RevertMkdir, RevertPass,
                  RemoveJournal, RevertJournal, Reading, Next1, Fault, Crash
    <3> QED  BY <2>1, <3>1 DEF JInv, CommitInv
  <2> QED  BY <1>3, <2>2, <2>3, <2>4, <2>5
<1> QED  BY <1>1, <1>2, <1>3 DEF Next, Over

LEMMA InitJInv == Init => JInv
<1> SUFFICES ASSUME Init PROVE JInv
  OBVIOUS
<1>1. TInv
  BY InitTInv
<1>2. CleanupFirst /\ ParentsFirst /\ LinkRecorded /\ BackupsJournaled /\ CommitInv
  BY DEF Init, CleanupFirst, ParentsFirst, LinkRecorded, Doing, NoOp, BackupsJournaled,
         CommitInv
<1> QED  BY <1>1, <1>2 DEF JInv

\* At every instant, of a revert or a commit as well, the journal names every
\* backup that is on the disk (JobJournal.backup writes the record first).
THEOREM JournalKnows == Spec => []BackupsJournaled
<1>1. JInv => TInv /\ BackupsJournaled
  BY DEF JInv
<1> QED  BY <1>1, InitJInv, NextJInv, NextTypes, PTL DEF Spec

\* When commit() has read the whole journal, no backup is left, and no
\* directory named for cleanup that is empty: the records of directories are
\* the first, so they are read when the backups in them are gone, and children
\* after parents, so they are read before them (JobJournal.commit).
THEOREM CommitCleans == Spec => []CommitClean
<1>1. JInv => TInv
  BY DEF JInv
<1>2. JInv => CommitClean
  <2> SUFFICES ASSUME JInv, phase = "commit", pos = 0 PROVE CommitClean
    BY DEF CommitClean
  <2>1. \A b \in Path \X Slot : bak[b] = 0
    BY DEF JInv, CommitInv
  <2>2. \A i \in DOMAIN journal : i > 0
    BY DEF JInv, TInv, JournalTypes
  <2> QED  BY <2>1, <2>2 DEF JInv, CommitInv, CommitClean
<1> QED  BY <1>1, <1>2, InitJInv, NextJInv, NextTypes, PTL DEF Spec
=============================================================================
