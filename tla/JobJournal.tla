----------------------------- MODULE JobJournal -----------------------------
(***************************************************************************)
(* The filesystem journal of an update: JobJournal                         *)
(* (src/conary/local/journal.py) as FilesystemJob.apply                    *)
(* (src/conary/local/update.py) drives it.                                 *)
(*                                                                         *)
(* One job applies a change set to a small tree.  Every handler of apply   *)
(* is cut at its system calls, so an exception, a signal or the death of   *)
(* the process can fall between any two of them.  An exception reverts the *)
(* journal at once; a death leaves it for "conary revert".                 *)
(*                                                                         *)
(* Simplifications:                                                        *)
(*  - a file is its inode number: every new file gets a new one, so "the   *)
(*    same contents" is "the same inode".  Owner, mode and mtime are one   *)
(*    bit per inode: differs from the original (chg) or not;               *)
(*  - the temporary file restore() writes and renames onto the target is   *)
(*    not shown, only the rename that makes it visible.  The .ptr links of *)
(*    keepTempfile are left out;                                           *)
(*  - paths are renamed as files only, never whole directories;            *)
(*  - a symbolic link leads to one of the paths.  No request is for a path *)
(*    that is, or lies below, a link to a directory;                       *)
(*  - a record reaches the journal whole: the process may die, the machine *)
(*    keeps running.                                                       *)
(***************************************************************************)
EXTENDS Naturals, Sequences, FiniteSets

CONSTANTS
    Path,       \* the absolute paths the job may touch
    Above,      \* Above[p]: the proper ancestors of p, the root left out
    Trees,      \* the filesystems a job may start from
    Asks,       \* the kinds of request the change set may hold
    MaxBackup,  \* backups of one path in one job
    MaxOps,     \* requests in one job
    CrashIn     \* phases in which the process may die

Slot == 1..MaxBackup

AskKinds == {"rename", "renameOver", "remove", "mkdir", "mkdirAgain",
             "mkdirOverFile", "implicitDir", "create", "chmod", "special",
             "createOverDir", "overEmptied", "symlink", "link", "lateLink",
             "lateFile", "holder", "newFile", "cleanup"}

\* A tree: ent[p] is the inode at p, 0 for none; dirs the directory inodes;
\* to the targets of the symbolic links.  What exists lies in existing
\* directories, a directory has one name, and the inode numbers in use are at
\* most top.
IsTree(t) ==
    /\ t.ent \in [Path -> 0..t.top] /\ t.top \in Nat
    /\ t.dirs \subseteq 1..t.top
    /\ DOMAIN t.to \subseteq (1..t.top) \ t.dirs
    /\ \A i \in DOMAIN t.to : t.to[i] \in Path
    /\ \A p \in Path : t.ent[p] # 0 => \A q \in Above[p] : t.ent[q] \in t.dirs
    /\ \A p, q \in Path : t.ent[p] = t.ent[q] /\ t.ent[p] \in t.dirs => p = q

ASSUME PathAssumption == Above \in [Path -> SUBSET Path]
ASSUME TreeAssumption == \A t \in Trees : IsTree(t)
ASSUME AskAssumption == Asks \subseteq AskKinds
ASSUME CrashAssumption == CrashIn \subseteq {"apply", "commit", "revert"}
ASSUME BoundAssumption ==
    MaxBackup \in Nat /\ MaxOps \in Nat

VARIABLES
    ent,      \* inode at each path, 0 when there is none
    dirs,     \* inodes that are directories
    to,       \* target of each inode that is a symbolic link
    chg,      \* inodes whose owner, mode or mtime is not the original one
    via,      \* those of them that revert() changed, through a link
    bak,      \* bak[<<p, s>>]: inode at the s-th backup name of p, 0 for none
    ino,      \* last inode number given out
    journal,  \* the records of the journal file, oldest first
    phase,    \* what the process is doing
    pos,      \* the record revert() or commit() reads next, from the back
    stage,    \* the loop of apply() that runs
    done,     \* the paths this stage has had
    op,       \* the request in hand
    ops,      \* requests taken so far
    orig      \* the tree the job started from

fs   == <<ent, dirs, to, chg, via, bak, ino>>
job  == <<stage, done, op, ops>>
vars == <<fs, journal, phase, pos, job, orig>>

Stages == <<"cleanup", "rename", "remove", "mkdir", "restore", "late", "new">>

NoOp == [kind |-> "none", path |-> 0, src |-> 0, slot |-> 0, at |-> "none"]

Phases == {"apply", "revert", "commit", "dead", "reverted", "committed"}

Entry(kind, p, other, slot, meta) ==
    [kind |-> kind, path |-> p, other |-> other, slot |-> slot, meta |-> meta]

IsDir(p)  == ent[p] \in dirs
IsFile(p) == ent[p] # 0 /\ ent[p] \notin dirs

\* The directory p is empty: no path below it is taken, by a backup neither.
Empty(p) == \A q \in Path : p \in Above[q] =>
                ent[q] = 0 /\ \A s \in Slot : bak[<<q, s>>] = 0

\* The directory of p is there.
Reached(p) == \A q \in Above[p] : IsDir(q)

IsLink(p) == ent[p] \in DOMAIN to

\* The paths a system call goes through that follows the links from p, and
\* the inode, if any, it arrives at.
Through(p) ==
    {q \in Path : \A S \in SUBSET Path :
        p \in S /\ (\A r \in S : IsLink(r) => to[ent[r]] \in S) => q \in S}
Led(p) == {ent[q] : q \in Through(p)} \ ({0} \cup DOMAIN to)

\* No link to a directory stands at p or above it.
Unaliased(p) ==
    \A q \in Above[p] \cup {p} : IsLink(q) => Led(q) \cap dirs = {}

OrigFile(p) == orig.ent[p] # 0 /\ orig.ent[p] \notin orig.dirs

-----------------------------------------------------------------------------
Init ==
    /\ orig \in Trees
    /\ ent = orig.ent
    /\ dirs = orig.dirs
    /\ to = orig.to
    /\ chg = {}
    /\ via = {}
    /\ bak = [b \in Path \X Slot |-> 0]
    /\ ino = orig.top
    /\ journal = <<>>
    /\ phase = "apply"
    /\ pos = 0
    /\ stage = 1
    /\ done = {}
    /\ op = NoOp
    /\ ops = 0

-----------------------------------------------------------------------------
(* The loops of apply() take their requests.                               *)

Ready(name) ==
    /\ phase = "apply" /\ op = NoOp
    /\ Stages[stage] = name
    /\ ops < MaxOps

Begin(kind, p, src, at) ==
    /\ Unaliased(p) /\ Unaliased(src)
    /\ op' = [kind |-> kind, path |-> p, src |-> src, slot |-> 0, at |-> at]
    /\ done' = done \cup {p}
    /\ ops' = ops + 1
    /\ UNCHANGED <<fs, journal, phase, pos, stage, orig>>

\* Mutant: the candidates come in any order.
TryCleanupAnyOrder(p) ==
    /\ "cleanup" \in Asks /\ Ready("cleanup")
    /\ p \notin done /\ IsDir(p)
    /\ journal' = Append(journal, Entry("TRYCLEANUPDIR", p, p, 0, FALSE))
    /\ done' = done \cup {p}
    /\ ops' = ops + 1
    /\ UNCHANGED <<fs, phase, pos, stage, op, orig>>

\* _doCommit names the directories commit() shall try to remove, parents
\* before what lies in them.
TryCleanupDir(p) ==
    /\ "cleanup" \in Asks /\ Ready("cleanup")
    /\ p \notin done /\ IsDir(p)
    /\ \A q \in done : p \notin Above[q]
    /\ journal' = Append(journal, Entry("TRYCLEANUPDIR", p, p, 0, FALSE))
    /\ done' = done \cup {p}
    /\ ops' = ops + 1
    /\ UNCHANGED <<fs, phase, pos, stage, op, orig>>

\* A path that changed in the repository is renamed, once, from where it was.
\* Nothing looks at what is at the new path, and nothing backs it up.
AskRename(p, q) ==
    /\ "rename" \in Asks /\ Ready("rename")
    /\ p # q /\ p \notin done /\ OrigFile(p) /\ ent[p] = orig.ent[p]
    /\ ent[q] # 0 => "renameOver" \in Asks
    /\ Begin("rename", p, q, "log")

\* A removal takes a file of the old tree; it skips what is missing and what
\* has become a directory.
AskRemove(p) ==
    /\ "remove" \in Asks /\ Ready("remove")
    /\ p \notin done /\ IsFile(p) /\ ent[p] = orig.ent[p]
    /\ Begin("remove", p, p, "backup")

\* mkdirChain makes the directories a restored file needs; the change set
\* need not own them, and one may stand where the job removed a file.
Hosted(p) ==
    \A q \in Above[p] : ent[q] = 0 /\ OrigFile(q) => "implicitDir" \in Asks

\* A rename took the last file out of the directory p.
Emptied(p) ==
    IsDir(p) /\ Empty(p) /\ \E q \in Path : p \in Above[q] /\ OrigFile(q)

\* No change set has a directory for a path a file of it is renamed to.
AskMkdir(p) ==
    /\ "mkdir" \in Asks /\ Ready("mkdir")
    /\ p \notin done /\ Hosted(p)
    /\ \A i \in DOMAIN journal :
           journal[i].kind = "RENAME" => journal[i].other # p
    /\ IsDir(p) => "mkdirAgain" \in Asks
    /\ Emptied(p) => "overEmptied" \in Asks
    /\ IsFile(p) \/ OrigFile(p) => "mkdirOverFile" \in Asks
    /\ Begin("mkdir", p, p, "backup")

AskRestore(kind, p) ==
    /\ kind \in Asks \cap {"create", "chmod", "special", "holder"}
    /\ Ready("restore")
    /\ p \notin done /\ Hosted(p)
    /\ kind = "chmod" => IsFile(p) /\ ~IsLink(p)
    /\ kind = "create" /\ IsDir(p) => "createOverDir" \in Asks
    /\ Emptied(p) => "overEmptied" \in Asks
    /\ Begin(kind, p, p, "backup")

\* A symbolic link to q is made anew whatever has changed about it.
AskSymlink(p, q) ==
    /\ "symlink" \in Asks /\ Ready("restore")
    /\ p \notin done /\ Hosted(p)
    /\ Begin("symlink", p, q, "backup")

\* A member of a link group whose first member, src, is there already.
AskLink(p, src) ==
    /\ "link" \in Asks /\ Ready("restore")
    /\ p # src /\ p \notin done /\ Hosted(p)
    /\ IsFile(src) /\ ent[p] # ent[src]
    /\ Begin("link", p, src, "backup")

\* The delayed restores, of files whose contents another path has: the first
\* of a link group, and what is in none, is restored like any other file, ...
AskLateFile(p) ==
    /\ "lateFile" \in Asks /\ Ready("late")
    /\ p \notin done /\ Hosted(p)
    /\ IsDir(p) => "createOverDir" \in Asks
    /\ Emptied(p) => "overEmptied" \in Asks
    /\ Begin("lateFile", p, p, "backup")

\* ... and the others are linked to it, which is recorded.
AskLateLink(p, src) ==
    /\ "lateLink" \in Asks /\ Ready("late")
    /\ p # src /\ p \notin done /\ Hosted(p)
    /\ IsFile(src) /\ ent[p] # ent[src]
    /\ Begin("lateLink", p, src, "backup")

AskNewFile(p) ==
    /\ "newFile" \in Asks /\ Ready("new")
    /\ p \notin done
    /\ Begin("newFile", p, p, "backup")

NextStage ==
    /\ phase = "apply" /\ op = NoOp
    /\ stage < Len(Stages)
    /\ stage' = stage + 1
    /\ done' = {}
    /\ UNCHANGED <<fs, journal, phase, pos, op, ops, orig>>

-----------------------------------------------------------------------------
(* The steps of one request.                                               *)

Doing(at) == phase = "apply" /\ op.at = at

Clears == {"remove", "special", "symlink", "newFile"}   \* unlink the target first

AfterBackup == IF op.kind \in Clears \/ op.kind = "mkdir" THEN "clear"
               ELSE "parents"

Record(e) == journal' = Append(journal, e)

\* Mutant: the link is made, the record never written.
BackupUnrecorded ==
    /\ Doing("backup")
    /\ op' = [op EXCEPT !.at = IF IsFile(op.path) THEN "link" ELSE AfterBackup,
                       !.slot = 1]
    /\ IsFile(op.path) => MaxBackup > 0
    /\ UNCHANGED <<fs, journal, phase, pos, stage, done, ops, orig>>

\* backup(): a missing target needs none, a directory gets a BACKDIR record,
\* a file a BACKUP record and then a second name.
Backup ==
    /\ Doing("backup")
    /\ \/ /\ ent[op.path] = 0
          /\ op' = [op EXCEPT !.at = AfterBackup]
          /\ UNCHANGED journal
       \/ /\ IsDir(op.path)
          /\ Record(Entry("BACKDIR", op.path, op.path, 0, FALSE))
          /\ op' = [op EXCEPT !.at = AfterBackup]
       \/ /\ IsFile(op.path)
          /\ \E s \in Slot :
               /\ bak[<<op.path, s>>] = 0
               /\ \A i \in DOMAIN journal : journal[i].kind = "BACKUP"
                    => <<journal[i].path, journal[i].slot>> # <<op.path, s>>
               /\ Record(Entry("BACKUP", op.path, op.path, s,
                               ent[op.path] \in chg))
               /\ op' = [op EXCEPT !.at = "link", !.slot = s]
    /\ UNCHANGED <<fs, phase, pos, stage, done, ops, orig>>

\* Mutant: the record is written, the link never made.
LinkNothing ==
    /\ Doing("link")
    /\ op' = [op EXCEPT !.at = AfterBackup]
    /\ UNCHANGED <<fs, journal, phase, pos, stage, done, ops, orig>>

LinkBackup ==
    /\ Doing("link")
    /\ bak' = [bak EXCEPT ![<<op.path, op.slot>>] = ent[op.path]]
    /\ op' = [op EXCEPT !.at = AfterBackup]
    /\ UNCHANGED <<ent, dirs, to, chg, via, ino, journal, phase, pos, stage, done,
                   ops, orig>>

\* unlink() of the target.  It fails on a directory; Directory.restore leaves
\* one alone.
Clear ==
    /\ Doing("clear")
    /\ op.kind = "mkdir" \/ ~IsDir(op.path)
    /\ ent' = [ent EXCEPT ![op.path] = IF IsDir(op.path) THEN @ ELSE 0]
    /\ op' = [op EXCEPT !.at = IF op.kind = "remove" THEN "note" ELSE "parents"]
    /\ UNCHANGED <<dirs, to, chg, via, bak, ino, journal, phase, pos, stage, done,
                   ops, orig>>

\* mkdirChain makes one missing directory, and records nothing.
MakeParent(q) ==
    /\ Doing("parents") /\ op.kind # "newFile"
    /\ q \in Above[op.path] /\ ent[q] = 0 /\ Reached(q)
    /\ ino' = ino + 1
    /\ ent' = [ent EXCEPT ![q] = ino + 1]
    /\ dirs' = dirs \cup {ino + 1}
    /\ UNCHANGED <<to, chg, via, bak, journal, phase, pos, job, orig>>

ParentsMade ==
    /\ Doing("parents") /\ Reached(op.path)
    /\ op' = [op EXCEPT !.at = "act"]
    /\ UNCHANGED <<fs, journal, phase, pos, stage, done, ops, orig>>

Act(kinds) == Doing("act") /\ op.kind \in kinds
Then(at) == /\ op' = [op EXCEPT !.at = at]
            /\ UNCHANGED <<journal, phase, pos, stage, done, ops, orig>>
Finished == /\ op' = NoOp
            /\ UNCHANGED <<journal, phase, pos, stage, done, ops, orig>>

\* A new inode takes the path: a file of any type, put in place by a rename
\* or made where the target was cleared.  An empty directory in the way of a
\* regular file is removed.  The holder of a local rollback has no record.
PlaceFile ==
    /\ Act({"create", "lateFile", "special", "symlink", "holder", "newFile"})
    /\ IsDir(op.path) => op.kind \in {"create", "lateFile"} /\ Empty(op.path)
    /\ ino' = ino + 1
    /\ ent' = [ent EXCEPT ![op.path] = ino + 1]
    /\ to' = IF op.kind # "symlink" THEN to
             ELSE [i \in DOMAIN to \cup {ino + 1} |->
                      IF i = ino + 1 THEN op.src ELSE to[i]]
    /\ UNCHANGED <<dirs, chg, via, bak>>
    /\ IF op.kind = "holder" THEN Finished ELSE Then("note")

\* restore() without contents changes the metadata of the inode in place; a
\* backup is a link to the same inode.
ChangeMeta ==
    /\ Act({"chmod"})
    /\ chg' = chg \cup {ent[op.path]}
    /\ UNCHANGED <<ent, dirs, to, via, bak, ino>>
    /\ Then("note")

PlaceLink ==
    /\ Act({"link", "lateLink"})
    /\ ~IsDir(op.path)
    /\ ent' = [ent EXCEPT ![op.path] = ent[op.src]]
    /\ UNCHANGED <<dirs, to, chg, via, bak, ino>>
    /\ IF op.kind = "link" THEN Finished ELSE Then("note")

PlaceDir ==
    /\ Act({"mkdir"})
    /\ IF IsDir(op.path)
         THEN /\ chg' = chg \cup {ent[op.path]}
              /\ UNCHANGED <<ent, dirs, ino>>
         ELSE /\ ino' = ino + 1
              /\ ent' = [ent EXCEPT ![op.path] = ino + 1]
              /\ dirs' = dirs \cup {ino + 1}
              /\ UNCHANGED chg
    /\ UNCHANGED <<to, via, bak>>
    /\ Then("note")

\* The record of what was done, written after it was done.
Note ==
    /\ Doing("note")
    /\ Record(Entry(CASE op.kind = "remove" -> "REMOVE"
                      [] op.kind = "mkdir" -> "MKDIR"
                      [] OTHER -> "CREATE", op.path, op.path, 0, FALSE))
    /\ op' = NoOp
    /\ UNCHANGED <<fs, phase, pos, stage, done, ops, orig>>

\* A rename is recorded before it is made.
LogRename ==
    /\ Doing("log")
    /\ Record(Entry("RENAME", op.path, op.src, 0, FALSE))
    /\ op' = [op EXCEPT !.at = "move"]
    /\ UNCHANGED <<fs, phase, pos, stage, done, ops, orig>>

Move ==
    /\ Doing("move")
    /\ Reached(op.src) /\ ~IsDir(op.src)
    /\ ent' = IF ent[op.path] = ent[op.src] THEN ent
              ELSE [ent EXCEPT ![op.src] = ent[op.path], ![op.path] = 0]
    /\ UNCHANGED <<dirs, to, chg, via, bak, ino>>
    /\ Finished

-----------------------------------------------------------------------------
(* The end of apply(): commit(), revert(), or nothing at all.              *)

Leave == stage' = 1 /\ done' = {} /\ op' = NoOp /\ ops' = 0

ApplyDone ==
    /\ phase = "apply" /\ op = NoOp
    /\ stage = Len(Stages)
    /\ phase' = "commit"
    /\ pos' = Len(journal)
    /\ Leave
    /\ UNCHANGED <<fs, journal, orig>>

\* An OSError, a digest that does not match, a signal: the handler in
\* commitChangeSet reverts the journal.
Fault ==
    /\ phase = "apply"
    /\ phase' = "revert"
    /\ pos' = Len(journal)
    /\ Leave
    /\ UNCHANGED <<fs, journal, orig>>

Crash ==
    /\ phase \in CrashIn
    /\ phase' = "dead"
    /\ pos' = 0
    /\ Leave
    /\ UNCHANGED <<fs, journal, orig>>

\* "conary revert" opens the journal that was left and reads it all.
RevertJournal ==
    /\ phase = "dead"
    /\ phase' = "revert"
    /\ pos' = Len(journal)
    /\ UNCHANGED <<fs, journal, job, orig>>

Reading(p, kinds) == phase = p /\ pos > 0 /\ journal[pos].kind \in kinds

\* Mutant: the iterator steps over one record too many.
SkipOne == pos' = pos - 2 /\ UNCHANGED <<journal, phase, job, orig>>

\* The iterator of the journal goes back by one record.
Next1 == pos' = pos - 1 /\ UNCHANGED <<journal, phase, job, orig>>

\* rename(2) from a backup to the path it was made from.
CanRestore(e) ==
    /\ bak[<<e.path, e.slot>>] # 0
    /\ Reached(e.path) /\ ~IsDir(e.path)

\* Two names of one inode stay as they are.
Restore(e) ==
    LET i == bak[<<e.path, e.slot>>]
    IN  /\ ent' = [ent EXCEPT ![e.path] = i]
        /\ bak' = [bak EXCEPT ![<<e.path, e.slot>>] =
                                 IF ent[e.path] = i THEN i ELSE 0]
        /\ UNCHANGED <<dirs, to, ino>>

\* Mutant: the name comes back, the recorded metadata does not.
RevertNameOnly ==
    /\ Reading("revert", {"BACKUP"})
    /\ IF CanRestore(journal[pos]) THEN Restore(journal[pos])
       ELSE UNCHANGED <<ent, bak, dirs, to, ino>>
    /\ UNCHANGED <<chg, via>>
    /\ Next1

\* The recorded owner, mode and mtime are those of the file that was backed
\* up.  chown, chmod and utime follow a symbolic link: its target, where there
\* is one, gets the owner, mode and mtime of the link.
RevertBackup ==
    /\ Reading("revert", {"BACKUP"})
    /\ \E e \in {journal[pos]} : LET i == bak[<<e.path, e.slot>>] IN
         \/ /\ CanRestore(e) /\ i \in DOMAIN to
            /\ Restore(e)
            /\ chg' = chg \cup Led(e.path)'
            /\ via' = via \cup Led(e.path)'
         \/ /\ CanRestore(e) /\ i \notin DOMAIN to
            /\ Restore(e)
            /\ chg' = IF e.meta THEN chg \cup {i} ELSE chg \ {i}
            /\ via' = via \ {i}
         \/ /\ ~CanRestore(e)
            /\ UNCHANGED fs
    /\ Next1

RevertRename ==
    /\ Reading("revert", {"RENAME"})
    /\ LET e == journal[pos]
       IN  ent' = IF /\ IsFile(e.other) /\ ent[e.other] # ent[e.path]
                     /\ Reached(e.path) /\ ~IsDir(e.path)
                  THEN [ent EXCEPT ![e.path] = ent[e.other], ![e.other] = 0]
                  ELSE ent
    /\ UNCHANGED <<dirs, to, chg, via, bak, ino>>
    /\ Next1

RevertCreate ==
    /\ Reading("revert", {"CREATE"})
    /\ LET p == journal[pos].path
       IN  ent' = [ent EXCEPT ![p] = IF IsDir(p) THEN @ ELSE 0]
    /\ UNCHANGED <<dirs, to, chg, via, bak, ino>>
    /\ Next1

RevertMkdir ==
    /\ Reading("revert", {"MKDIR"})
    /\ LET p == journal[pos].path
       IN  ent' = [ent EXCEPT ![p] = IF IsDir(p) /\ Empty(p) THEN 0 ELSE @]
    /\ UNCHANGED <<dirs, to, chg, via, bak, ino>>
    /\ Next1

RevertPass ==
    /\ Reading("revert", {"REMOVE", "BACKDIR", "TRYCLEANUPDIR"})
    /\ UNCHANGED fs
    /\ Next1

CommitBackup ==
    /\ Reading("commit", {"BACKUP"})
    /\ bak' = [bak EXCEPT ![<<journal[pos].path, journal[pos].slot>>] = 0]
    /\ UNCHANGED <<ent, dirs, to, chg, via, ino>>
    /\ Next1

CommitCleanup ==
    /\ Reading("commit", {"TRYCLEANUPDIR"})
    /\ LET p == journal[pos].path
       IN  ent' = [ent EXCEPT ![p] = IF IsDir(p) /\ Empty(p) THEN 0 ELSE @]
    /\ UNCHANGED <<dirs, to, chg, via, bak, ino>>
    /\ Next1

CommitPass ==
    /\ Reading("commit", {"RENAME", "CREATE", "MKDIR", "REMOVE", "BACKDIR"})
    /\ UNCHANGED fs
    /\ Next1

RemoveJournal ==
    /\ phase \in {"revert", "commit"} /\ pos = 0
    /\ phase' = IF phase = "revert" THEN "reverted" ELSE "committed"
    /\ journal' = <<>>
    /\ UNCHANGED <<fs, pos, job, orig>>

Over ==
    /\ phase \in {"reverted", "committed"}
    /\ UNCHANGED vars

-----------------------------------------------------------------------------
Ask ==
    \/ \E p \in Path :
         \/ TryCleanupDir(p) \/ AskRemove(p) \/ AskMkdir(p)
         \/ AskLateFile(p) \/ AskNewFile(p)
         \/ \E kind \in Asks : AskRestore(kind, p)
         \/ \E q \in Path : \/ AskRename(p, q) \/ AskSymlink(p, q)
                          \/ AskLink(p, q) \/ AskLateLink(p, q)
    \/ NextStage

Work ==
    \/ Backup \/ LinkBackup \/ Clear \/ ParentsMade
    \/ \E q \in Path : MakeParent(q)
    \/ PlaceFile \/ ChangeMeta \/ PlaceLink \/ PlaceDir \/ Note
    \/ LogRename \/ Move

Recover ==
    \/ RevertBackup \/ RevertRename \/ RevertCreate \/ RevertMkdir
    \/ RevertPass \/ CommitBackup \/ CommitCleanup \/ CommitPass
    \/ RemoveJournal \/ RevertJournal

Next == Ask \/ Work \/ ApplyDone \/ Fault \/ Crash \/ Recover \/ Over

Spec == Init /\ [][Next]_vars

-----------------------------------------------------------------------------
(* Properties.                                                             *)

\* Every variable has its type.
TypeOK ==
    /\ ent \in [Path -> 0..ino] /\ dirs \subseteq 1..ino
    /\ DOMAIN to \subseteq 1..ino /\ \A i \in DOMAIN to : to[i] \in Path
    /\ chg \subseteq 1..ino /\ via \subseteq 1..ino /\ ino \in Nat
    /\ bak \in [Path \X Slot -> 0..ino]
    /\ phase \in Phases /\ stage \in 1..Len(Stages) /\ done \subseteq Path
    /\ pos \in 0..Len(journal)
    /\ \A i \in DOMAIN journal :
         /\ journal[i].path \in Path /\ journal[i].other \in Path
         /\ journal[i].kind = "BACKUP" => journal[i].slot \in Slot
         /\ journal[i].meta \in BOOLEAN
    /\ op # NoOp => op.path \in Path /\ op.src \in Path
    /\ ops \in Nat

Journaled(b) == \E i \in DOMAIN journal :
    journal[i].kind = "BACKUP" /\ <<journal[i].path, journal[i].slot>> = b

\* backup() writes its record before it makes the link: at any instant every
\* backup name on the disk is in the journal, so neither commit() nor
\* revert() can leave one behind for want of knowing it.
BackupsJournaled ==
    phase \notin {"reverted", "committed"}
        => \A b \in Path \X Slot : bak[b] # 0 => Journaled(b)

\* backup() comes before whatever a handler does to its target: at any
\* instant of apply(), where it may be interrupted, the inode of every file
\* the job found is on the disk, under a path or under a backup name the
\* journal holds.
OriginalsReachable ==
    phase = "apply" =>
        \A p \in Path : OrigFile(p) =>
            \/ \E q \in Path : ent[q] = orig.ent[p]
            \/ \E b \in Path \X Slot : Journaled(b) /\ bak[b] = orig.ent[p]

\* Wherever apply() was interrupted, revert() puts every file the job found
\* back at its path, with the owner, mode and mtime it had unless a link that
\* was put back as well leads to it.  A file whose directory is gone stays
\* where it was moved, or under its backup name; only where a directory that
\* has no record has taken its path may it be gone.
FilesRestored ==
    phase = "reverted" =>
        \A p \in Path : OrigFile(p) /\ ~IsDir(p) =>
            \/ ent[p] = orig.ent[p] /\ (ent[p] \in chg => ent[p] \in via)
            \/ /\ ~Reached(p)
               /\ \/ \E q \in Path : ent[q] = orig.ent[p]
                  \/ \E b \in Path \X Slot : bak[b] = orig.ent[p]

\* commit() reads the journal from the back: when it is done the backups are
\* gone, and so is every directory named for cleanup that became empty, its
\* empty subdirectories before it.
CommitClean ==
    phase = "commit" /\ pos = 0 =>
        /\ \A b \in Path \X Slot : bak[b] = 0
        /\ \A i \in DOMAIN journal : journal[i].kind = "TRYCLEANUPDIR"
             => ~(IsDir(journal[i].path) /\ Empty(journal[i].path))
=============================================================================
