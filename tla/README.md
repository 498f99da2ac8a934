# Conary: a verification project

Conary is a package manager. A system holds *troves*; an update computes a job
(which troves go from which version to which), fetches change sets for it, and
commits them to the filesystem and to a local SQLite database as one. What it
did can be undone with rollbacks, and a failed update is undone by a journal.
Change sets come from repositories, through proxies, and are mirrored between
repositories.

This directory holds TLA+ models of the parts of Conary where order, failure and
concurrency decide whether a system or a repository survives, the TLC
configurations that check them on small instances, and proofs, checked by TLAPS,
of the properties that matter most. Source references are to `src/conary/`
unless they name another directory.

## 1. Inventory

| component | state it keeps | operations | modelled by |
|---|---|---|---|
| filesystem journal (`local/journal.py`) | the journal file: records of what a job does, and the `.ct` backup names beside the files | `backup`, `rename`, `create`, `mkdir`, `remove`, `tryCleanupDir`; `commit`, `revert`, `removeJournal` | `JobJournal` |
| filesystem job (`local/update.py`) | the requests computed from a change set | `apply`, `restoreFile`, `_createLink` | `JobJournal` |
| file objects (`files.py`) | one file's type, contents and metadata | `restore`, `remove` of each type | `JobJournal` |
| update transaction (`local/database.py`) | database, journal, rollback stack (`status`, `status.new`, one directory for each rollback), `syslock` | `commitChangeSet`, `_doCommit`, `commitLock`, `revertJournal` | `UpdateCommit` |
| rollbacks (`local/database.py`, `cmds/rollbacks.py`) | the pairs of inverse change sets of each job, and their count | `applyRollback`, `_applyRollbackList`, `removeLast`, `removeRollbacks` | `Rollbacks` |
| update client (`conaryclient/update.py`) | the job, the counter it was computed against, the queue of downloaded change sets | `prepareUpdateJob`, `_applyUpdate`, `_applyUpdateL`, `_applyCs`, `_createAllCs` | `UpdateCommit`, `UpdateThreads` |
| dependency checking and ordering (`local/deptable.py`, `conaryclient/resolve.py`, `lib/graph.py`) | temporary tables of needs and provides, what was found satisfied, the graph of jobs | `addJobs`, `_check`, `restoreTrove`, `addUpdates`, `resolveEraseBy...`, strongly connected components, total ordering | `UpdateOrder` |
| local database (`local/sqldb.py`) | installed troves, files, dependencies, transaction counter | add, erase and map troves, commit | the counter and the commit |
| signal protection (`lib/sigprotect.py`) | the signal handlers while a protected function runs | turn signals into exceptions | a fault at any step |
| repository server and contents store (`repository/netrepos/`, `repository/repository.py`, `repository/datastore.py`) | troves and files in SQL, one file for each digest | `commitChangeSet`, `markTroveRemoved`, `getNewTroveList`, `presentHiddenTroves` | `RepoContents`, `Mirror` |
| proxy (`repository/netrepos/proxy.py`, `lib/util.py`) | cached change sets, lock files | `_getCachedChangeSetList`, `_cacheChangeSet`, `LockedFile` | `ChangesetCache` |
| mirror (`conaryclient/mirror.py`) | a mark for each target | passes of troves, infos, removals | `Mirror` |
| local contents store, versions, dependencies, change sets, build, checkin, database drivers | - | - | not modelled, section 5 |

How they interact. A command (`conary update`) opens the database, reading the
status of the rollback stack and refusing when a journal is left over. It
computes a job, which may take minutes and holds no lock: the dependency checker
finds what is missing, the solver extends or shrinks the job, round after round,
and the graph gives the order. The transaction counter is read. `_applyUpdate`
takes the commit lock without waiting; `_applyUpdateL` compares the counter
again, starts the download thread, and commits the change sets one by one as
they come out of the queue. Each is `Database.commitChangeSet`: create the
journal, store the inverse change sets in the rollback stack, let
`FilesystemJob.apply` change the files, commit SQLite, commit the journal, remove
it, invalidate the rollback stack if asked, run the tag scripts. An exception or
a signal before SQLite commits reverts the journal; a death leaves it to `conary
revert`. A rollback runs `commitChangeSet` twice for each change set of the job
it undoes. Repositories commit change sets from several server processes, store
file contents outside of their database, and are read by proxies, which cache
what they made, and by mirrors, which follow the stamps of changed troves.

How the modules fit. `JobJournal` shows that the journal can undo a job at any
system call; `UpdateCommit` takes that as the effect of its journal and implements
`AtomicUpdate`; `Rollbacks` takes `commitChangeSet` as the atomic step that
`AtomicUpdate` is. `UpdateThreads` shows that the change sets reach
`commitChangeSet` in the order that `UpdateOrder` computes, which is what keeps
dependencies closed after each. `Mirror` takes commits of `RepoContents` as steps.

What is hard. The filesystem has no transactions, so every intermediate state
must be recoverable from the journal alone. Two stores (SQLite and the files, SQL
and the contents) must change together. Any system call may fail; a signal is an
exception at any instruction; the process may die at any. Commands and server
processes started at the same time share all of this state, and each works on
what it read before. `PROJECT.json` lists the hazards line by line.

## 2. The modules

| module | what it is |
|---|---|
| `JobJournal` | one job on a small tree, each handler cut at its system calls |
| `AtomicUpdate` | what an update promises: version, files and rollbacks change in one step |
| `UpdateCommit` | commands that update one system at the same time |
| `Rollbacks` | updates, rollbacks and removals of rollbacks on one stack |
| `UpdateThreads` | the downloading and the installing thread of one update |
| `UpdateOrder` | dependency check, resolution and ordering of the jobs of one update |
| `RepoContents` | server processes that commit to and remove from one repository |
| `ChangesetCache` | proxy processes that share a cache of change sets |
| `Mirror` | one mirror, its source and its targets |
| `MC...` | the instances TLC checks |
| `JobJournal_proofs`, `UpdateCommit_proofs`, `Rollbacks_proofs`, `UpdateThreads_proofs`, `RepoContents_proofs`, `ChangesetCache_proofs`, `UpdateOrder_proofs`, `Mirror_proofs` | the theorems about those modules, for every value of their constants (section 4) |

### JobJournal

State. `ent` is the inode at each path, `dirs` the inodes that are directories,
`to` the targets of those that are symbolic links, `chg` those whose owner, mode
or mtime differs from the original and `via` those of them that `revert` changed
through a link, `bak` the inode at each backup name, `ino` the last inode number.
`journal` is the journal file. `stage` is the loop of `apply` that runs, `op` the
request in hand with the point it has reached, `pos` the record that `revert` or
`commit` reads next.

Actions. `TryCleanupDir`, `AskRename`, `AskRemove`, `AskMkdir`, `AskRestore`,
`AskSymlink`, `AskLink`, `AskLateFile`, `AskLateLink` and `AskNewFile` are the bodies of the loops of `apply`
taking their next request; which requests there are is free, so TLC and the
proofs consider every change set. `Backup` and `LinkBackup` are the two halves of
`backup()`: record, then link. `Clear`, `MakeParent`, `ParentsMade`, `PlaceFile`,
`ChangeMeta`, `PlaceLink`, `PlaceDir` and `Note` are the system calls of
`restore()`, `remove()` and `restoreFile`, `LogRename` and `Move` those of a rename.
`Fault` and `Crash` may fall between any two. `RevertBackup`, `RevertRename`,
`RevertCreate`, `RevertMkdir` and `RevertPass` are the branches of `revert`,
`CommitBackup`, `CommitCleanup` and `CommitPass` those of `commit`.

A file is identified with its inode, which is what the backups (hard links)
preserve. `chmod` and the metadata part of a restore act on the inode in place,
so the backup sees them too; only the record's metadata brings them back.

`chown`, `chmod` and `utime` of a revert follow symbolic links (`journal.py:226-228`),
although `backup` made the record from the link itself: `RevertBackup` gives the
file that the link leads to (`Led`, through any number of links) the metadata of
the link, and nothing when the link dangles. No request is for a path at or below
a link to a directory.

What a job may ask (`Asks`). All kinds but one are in the passing run. `renameOver`,
a rename onto an existing path, is not: `apply` does not look at what is there and
keeps no backup (`local/update.py:353`), so that with it `OriginalsReachable` fails.

`FilesRestored` says of every file the job found, wherever `apply` was interrupted,
that it is back at its path with its metadata when `revert` is over, but for

* metadata, and only that, of a file that a restored link leads to (`via`);
* a file whose directory is gone, which is still where it was renamed to or under
  its backup name. `restoreFile` records MKDIR for a directory that was there
  already, and `revert` removes it before it takes back what was renamed out of it
  (`overEmptied`, `local/update.py:313`);
* a path that a directory has when the revert is over, because it took the place of
  a removed file (`mkdirOverFile`, `implicitDir`): the rename of the backup fails
  with EISDIR and `revert` only warns (`files.py:503`, `lib/util.py:89`). The file is
  then under its backup name, or, where it had been renamed and its new path was
  taken too, gone.

`CrashIn` names the phases in which the process may die. With `"revert"` the second
`conary revert` unlinks what the first restored, since the records of created files
are read again; with `"commit"`, `conary revert` reads a journal some of whose backups
are gone. In both `FilesRestored` fails. The program promises neither, so these are
not findings; adding the name to the constant shows them.

### UpdateCommit

State shared by the commands: `db` (the transaction counter), `files` (two halves,
each at a version, so that a torn state shows), `status`, `statusNew`, `dirs` (the
rollback stack), `journal`, `lockFile`, `holder`. State of each: `pc`, `mem` (the
status it read when it opened the database), `from` (the state the computation of
its job began in), `seen` (the counter its job carries), `hunks` (change sets still
to commit), `mine` (the rollback directory of its job), `inv`, `saved`.

Actions, in the order a command takes them: `Open` (`Database.__init__`), `ComputeJob`
and `ReadCounter` (the first and the last read of `prepareUpdateJob`, with other
commands in between), `Lock` or `LockFails` (`commitLock`), `CheckStale`
(`_applyUpdateL`), and for each change set `CreateJournal`, `NewRollback`,
`RenameStatus`, `AddRollback`, `Apply` twice, `CommitDatabase`, `LeaveCommit`,
`CommitJournal`, `RemoveJournal`, `EndHunk`; then `Unlock` and `Close`. `Fault` is an
exception while the journal can be reverted, `Stop` one while there is no journal,
`LateSignal` a signal after the database committed, `Crash` a death, `RevertCommand`
an operator's `conary revert`. The journal of `JobJournal` is here its effect: for
each place, what was there before. Before the first update there is no status file
(`status` is `<<>>`), so `backup` records nothing (`journal.py:186-191`) and a first update
that is reverted leaves a status that lists rollback 0, whose directory is gone.

`AtomicUpdate` has a version, the files and the versions that rollbacks lead back
to, and two actions: install the next change set with its rollback, or invalidate
the rollbacks. `UpdateCommit` implements it under the mapping of `Abstract`: the
abstract files and rollbacks are what recovery would leave now, that is the disk
with the journal undone while the journal belongs to a change set that is not in
the database.

Rules that no code enforces, and what happens without them, are named in
`Mishaps` here and in the modules below. Each passing run lists the ones it
allows; section 3 has what breaks with the others.

### Rollbacks

`sys` is the system: the version of each trove and which have local changes.
`dirs` are the rollback directories: the sequence of `repos.N` (old and new
versions), of `local.N` (the local changes there were) and the number in `count`.
`status` is the stack on the disk, `mem` what a command has read of it. An update
is `AskUpdate`, `Lock`, `CheckCounter`, then `Hunk` for each change set, which is one
`commitChangeSet` with the rollback it adds. A rollback is `AskRollback`, `Lock`,
`CheckCounter`, and for each directory `Load` and, pair after pair, `ReposPhase`,
`LocalPhase`, `UnlinkRepos`, `UnlinkLocal`, `Truncate`, `WriteCount` (the count file is
rewritten in place), then `Drop` and `Unlist`. `rmrollback` is `AskRemove`,
`RemoveOldest`, `UnlistOldest`, and takes no lock. `trail` is a history variable: the
system before each change set of the job of each rollback; its first element is
where the rollback leads. Whether a pair can be applied (`Installed`) is looked up for
the troves its change set replaces or erases; nothing looks whether one that it brings
back is there.

### UpdateThreads

`q` is the queue, `stop` the stop event, `thread` and `main` where the two threads
are, `next` the job the thread is at, `applied` the jobs installed. `mode` is how
the client is configured: with a thread, one by one, or everything downloaded
first. `GetTimeout` and `CheckAlive` are the ten seconds after which the main thread
looks whether the other lives; `Put` may time out after five seconds and look at
the stop event; `PutLast`, for the end or an error, may not. `JoinTimeout` is the
end of the twenty seconds after which the process kills itself.

### UpdateOrder

A plan says what each job replaces and installs, what each trove requires and
provides, which jobs overlap in the filesystem, which are components of which
packages (`within`, and `passed` for the old version of a package), which are critical
and which final, and which needs of installed troves and which dependencies happen
to have one row number (`alike`). `users`, `satisfied`, `asked` are the
checker's tables, `lacking` and `cannot` what `_check` returns, `edges` the graph,
which all rounds add to. `AddJobs`, `Check`, `AddUpdates`, `UpdateUsers`, `KeepErased` and
`KeepBeside` are one round each; which solution the repository offers is free, packages
of what it offers (`addPackagesForComponents`) and of what is kept (`Restored`) included.
`BuildEdges` is `_createDepGraph` and `_buildEdges` in their order: the ties of needs
that are lost and met again, the edges that cancel each other (`Uncancelled`), rings,
final jobs, stray components, packages. A tie carries the number of the need where
other edges carry that of the dependency, and both are compared: what `alike` holds
decides which half of a tie is cancelled.
`Connect`, `ConnectBack`, `OrderJobSets` and `TotalOrdering` start and end the three
depth-first walks, `Root` and `Visit` are the steps of `_walk`. Where the code keeps
one row of an SQL result, any row may be kept; what order `_orderJobSets` prefers
is free. `late` is a history variable: the needs of new troves that were settled
before these came. `Reaches` is what the walks are measured against: that one job comes after
another is not computed along paths but said of all sets that are closed under
the edges.

### RepoContents

`troves` and `removed` are the database, `store` the contents on the disk. A commit is
`Arrive`, `PreStore` (regular contents, before the transaction), `Begin`, `Install`,
`RestoreConfig`, `MarkTroveRemoved` (mark and unlink), `Commit`. `serial` is whether
transactions exclude each other, as SQLite's do and PostgreSQL's with
`serializeCommits`. `leaked` is a history variable.

### ChangesetCache

`file` is whether each change set is in the cache, `lck` the inode its lock file name
has, `owner` who holds the lock of each inode, `fd` the inode each process has open.
`NextKey` to `LockThere` are `LockedFile.open` between its system calls, `MakeNext` to
`CloseLock` the making of the missing ones, `Forget` is `resetLocks`. `Sweep` is the
removal of old files of the cache, from outside.

### Mirror

`src` has for each trove the second of its last change, whether it was removed
and the second its info changed; the source changes (`Commits`, `Annotates`, `Removes`)
at any moment of a run. `tgt` what each target has of it:
absent, hidden, present or removed, `info` the troves whose info it has as it is at
the source; `mark` the mark each target keeps. `Launch`
starts a run, `Pass` to `Done` are `mirrorRepository` in order, `Parallel` is a call
to several targets, of which some may fail. `NewInfos` is the query for infos, of troves stamped no later
and infos no earlier than the mark (`netserver.py:2704-2730`). `Limit`, `Listings` and
`CutOff` say which
part of a long list is returned and which is left for the next pass. `sync` is
`--full-trove-sync`, a first pass from the beginning, which any run may be asked for.
`BuildJobList` gives each group of a chunk the first group of its bundle, which is
one function for each order of the groups. A trove that was removed at the source
since it was listed cannot be committed to a target any more, and the run fails.

`missed` is a history variable: the troves whose last change no later pass asks for.
A change is missed when it comes in a second that the marks of all targets have been
moved past, or that a pass began at whose list is there already and which may move
the marks past it (`Overtaken`; "forcibly advance the mark in case we're stuck",
`mirror.py:912-916`); and a removal is when the run fails between the marks and the
removals (`Fail`). `NothingSkipped` and `CatchesUp` are of all other troves.

## 3. The runs

| run | checks | bounds | distinct states |
|---|---|---|---|
| `journal_apply` | `TypeOK`, `BackupsJournaled`, `OriginalsReachable`, `FilesRestored`, `CommitClean` | 4 paths, one in a directory; 4 trees, with two names of one file, a link and a directory in a directory; 3 requests of every kind but `renameOver`; 2 backups of a path; a death in `apply` | 3.7 million |
| `commit_safe` | `TypeOK`, `FilesRecoverable`, `StackRecoverable`, `Implements` | 2 commands, 3 change sets, jobs of at most 2; faults and deaths before the database commits | 526 thousand |
| `commit_live` | `NoStaleUpdate`, `LockFreed` under `FairSpec` | 2 commands, 2 change sets; commands started beside others, jobs without a counter, faults, `status.new` left over, late signals | 1.0 million |
| `rollbacks` | `TypeOK`, `OneAhead`, `Retraced` | 2 commands, 2 troves, jobs of at most 2 change sets, 2 rollbacks on the stack, 4 commits; errors and deaths anywhere | 3.3 million |
| `update_threads` | `TypeOK`, `InOrder`, `Ends` under `FairSpec` | 7 jobs, a queue of 5 as in the code, all three modes | 1,271 |
| `update_order` | `TypeOK`, `StepClosed`, `StepsSorted`, `WholePackages`, `FinalsLast` | 3 jobs, 2 dependencies, a trove no job is about, 15 kinds of job, 4 shapes of overlaps, packages, critical and final jobs and numbers that coincide | 5.8 million |
| `repo_contents` | `TypeOK`, `ContentsPresent`, `NothingLeft` | 2 processes, 3 troves, 3 contents, both kinds of database, with symmetry | 178 thousand |
| `changeset_cache` | `TypeOK`, `OneMaker`, `MadeOnce`, `Served` under `FairSpec` | 2 processes, 2 change sets, at most 1 or 2 locks | 73 thousand |
| `mirror` | `TypeOK`, `NothingSkipped`, `ListedTogether`, `InfosKept`, `CatchesUp`, `RunEnds` under `FairSpec` | 3 troves, 1 or 2 targets, bundles of one, lists of two or more, 3 seconds, 3 changes of the source at any time, one failure | 906 thousand |

Why the bounds are enough. Journal: three requests let one path be removed and
made again, be linked to a file that was itself replaced, and lie in a directory
that another request makes, replaces or empties; two backups of one path are all
that a path in two stages can get. Commits and rollbacks: only one command holds
the lock and each looks only at the disk and at its own memory, so two meet every
race; jobs of two change sets fail at the first, at the second and in between.
Threads: more jobs than the queue holds, so that it fills. Order: a lost provider,
its replacement and a third job in a cycle with them; the closure of three jobs
over two dependencies already has every kind of edge, and rounds that add, keep
and start over. Contents: a trove that shares contents with one that is removed
and with one that is being committed. Cache: two keys are the least for a circle
of locks. Mirror: a trove that is not wanted, two that share a version, lists that
end inside a second, changes before, during and after each step of a pass.

What the properties leave out is in their definitions, and is as little as the code
allows: TLC finds a violation when any of these exemptions is dropped.

* `FilesRestored`: see section 2.
* `StackRecoverable`: rollback 0, listed without a directory after a reverted first
  update.
* `NoStaleUpdate`: the job is computed with reads under no lock and the counter is read
  last (`conaryclient/update.py:3437`), so a commit in between gives a stale job a fresh
  counter; a job without a counter is not checked (3679-3683). The property says that
  a job goes into a state other than the one its computation began in only in these
  two cases. `cmds/rollbacks.py:258` reads the counter first, as the documentation of
  `applyRollback` asks (`conaryclient/__init__.py:477-482`).
* `StepClosed`, before the last step: needs that were settled before their trove was
  added to resolve another (`late`; `_check` looks at a need once,
  `deptable.py:1139-1151`), and needs whose tie was cut in half (`Torn`): the loser goes a
  step before the gainer comes.
* `FinalsLast`: final jobs are put behind the leaves of the graph (`deptable.py:369-378`),
  and a graph of cycles has none; the property says that no single other job is last.
* `MadeOnce`: only with locks for all change sets; a process that has run out of locks
  makes what it could not lock.
* `NothingSkipped`, `CatchesUp`: `missed`, see section 2.
* `InfosKept`: infos no pass asks for any more, of a trove stamped after the mark the
  pass began at (dropping this one shows only with 4 seconds and troves of one
  version), or changed after the infos were asked for.

Deadlock is checked in every run but those of `UpdateOrder`, where an ordering that
is complete and an update whose dependencies cannot be met both stop.

Fairness. `commit_live`: weak fairness of each command's own steps after its job is
computed; the lock is tried with `LOCK_NB`, so a command that does not get it gives
up, and no later step waits for another. `update_threads`: weak fairness of each
thread; a time-out is a step of the thread that waits, and faults have none.
`changeset_cache`: weak fairness of each process, and strong fairness of `Lock`, since
`lockf` waits in the kernel, which gives a lock to those who wait in turn.
`mirror`: time goes on, the mirror is started again and again (it is run from cron)
and does its work; failures and changes of the source have no fairness and are
bounded. Requests, faults and deaths never have fairness.

Runs that show a disagreement with what the program says of itself:

| run | what the code does | against |
|---|---|---|
| `contents_removed` | a removal unlinks contents that a commit beside it has stored before its transaction, or found stored: its trove has none | the comment at `repository/netrepos/trovestore.py:1343` |
| `mirror_hidden` | troves committed hidden by a run that failed count as present for the next, which finds nothing to do and leaves them hidden | the comment at `conaryclient/mirror.py:1038`, `NEWS:4424` |
| `order_late_removal` | a need found satisfied in one round is not looked at again when a later round removes what satisfied it; the update is accepted | `DepCheckState` in `local/database.py:1254` |

What breaks when a rule is lifted (add the name to `Mishaps`, `Asks` or `CrashIn`
in the configuration):

| module | name | what may happen | violated |
|---|---|---|---|
| `JobJournal` | `renameOver` | a rename onto an existing path | `OriginalsReachable`, `FilesRestored` |
| `JobJournal` | `revert`, `commit` in `CrashIn` | a death in `revert` or `commit` | `FilesRestored` |
| `UpdateCommit` | `careless` | nobody runs `conary revert`; a left-over journal is looked for only while the lock file is missing (`database.py:2977`), and the next update truncates it | `FilesRecoverable` |
| `UpdateCommit` | `lateSignal`, `lateCrash` | a signal or a death after the database committed reverts the files (`database.py:1974`) | `FilesRecoverable` |
| `UpdateCommit`, `Rollbacks` | `staleOpen` | a command works with a stack it read before another changed it (`database.py:3030`) | `StackRecoverable`, `Retraced` |
| `Rollbacks` | `rmBeside` | `rmrollback` beside an update or a rollback (`cmds/rollbacks.py:384`) | `Retraced` |
| `UpdateOrder` | `keptNeed` | the erasure of a trove whose need is settled is taken back | `StepClosed` |
| `RepoContents` | `removeMixed` | one change set brings and removes troves with the same contents | `ContentsPresent` |
| `RepoContents` | `removeFault` | a failure between the unlinking and the commit | `ContentsPresent` |
| `ChangesetCache` | `sweepBeside` (3 processes) | a change set is swept away while its lock file is open; the lock file is removed by name | `OneMaker` |

`ListedTogether` is about what a pass has listed. The same of all troves, `Together`, does
not hold, with no rule lifted (with it as an invariant, `Mirror.cfg` shows it): a pass
shows all that is hidden at a target (`mirror.py:1038`), also what a run that failed has
left there. When the list of the pass does not reach that trove, as with
`--full-trove-sync`, which begins at the first stamps, another target does not have it,
until a later pass brings it there. The log message at `mirror.py:882` ("will use
hidden commits to synchronize target mirrors") promises more than that.

`conary revert` takes no lock. It is modelled for journals no command is working
on; run beside a living command it would pull the files away under it.

Each property of a passing run has a mutant in `PROJECT.json`, an operator marked
`Mutant:` in its module, with which TLC finds the property violated.

## 4. The proofs

Every theorem is for any set of commands, processes, paths, troves or contents
and any bounds; what it assumes of `Mishaps` or `Asks` is said below, and section 3
has what breaks without. The named assumptions on the constants only give them
their kinds: bounds are naturals, "nobody" is not a command, `Above` and `Uses` are
functions into subsets, the plans of `UpdateOrder` are over its jobs
(`PlansAssumption`), a dependency is not a pair (`DepAssumption`), the names in
`Mishaps` are known ones. Others say more: `Mirror` has finitely many troves and
targets (`SetsAssumption`), so that there is a lowest mark and a limit above the
number of troves with one stamp, and bundles of at least one trove
(`BoundsAssumption`); `ChangesetCache` has finitely many processes (`ProcAssumption`), so that one of the
inodes for lock files is always free, and numbers its change sets (`KeyAssumption`),
since the proxy takes their locks in the order of their fingerprints. TLC evaluates all
of them on every run.

| module | theorem | proves | assuming |
|---|---|---|---|
| `JobJournal_proofs` | `OriginalsSafe` | `OriginalsReachable` | no `renameOver` |
| | `JournalKnows` | `BackupsJournaled` | - |
| | `CommitCleans` | `CommitClean` | - |
| | `TypeCorrect` | `TypeOK` | - |
| `UpdateCommit_proofs` | `FilesSafe` | `FilesRecoverable` | `Regular` |
| | `StackSafe` | `StackRecoverable` | `Sequential` |
| | `ImplementsAtomicUpdate` | `Implements` | `Sequential` |
| | `NeverStale` | `NoStaleUpdate` | - |
| | `OneAtATime` | one command past the lock | - |
| | `TypeCorrect` | `TypeOK` | - |
| `Rollbacks_proofs` | `StaysOneAhead` | `OneAhead` | `Orderly` |
| | `RollbackRetraces` | `Retraced` | `Orderly` |
| | `TypeCorrect` | `TypeOK` | no `rmBeside` |
| `UpdateThreads_proofs` | `AppliedInOrder` | `InOrder` | - |
| | `TypeCorrect` | `TypeOK` | - |
| `RepoContents_proofs` | `NothingLost` | `ContentsPresent` | `Careful` |
| | `NothingKept` | `NothingLeft` | `Careful` |
| | `TypeCorrect` | `TypeOK` | - |
| `ChangesetCache_proofs` | `OneMakerAtATime` | `OneMaker` | no `sweepBeside` |
| | `NothingMadeTwice` | `MadeOnce` | no `sweepBeside` |
| | `TypeCorrect` | `TypeOK` | - |
| `UpdateOrder_proofs` | `ClosedAtEachStep` | `StepClosed` | `Mishaps = {}` |
| | `StepsInOrder` | `StepsSorted` | - |
| | `WholeTogether` | `WholePackages` | - |
| | `FinalsAtEnd` | `FinalsLast` | - |
| | `TypeCorrect` | `TypeOK` | - |
| `Mirror_proofs` | `NoneSkipped` | `NothingSkipped` | - |
| | `SeenTogether` | `ListedTogether` | - |
| | `TypeCorrect` | `TypeOK` | - |

`Regular` is: none of `lateSignal`, `lateCrash`, `careless`; `Sequential`: nor `staleOpen`.
`Orderly`: neither `staleOpen` nor `rmBeside`. `Careful`: none of `removeBeside`,
`removeMixed`, `removeFault`. `Mishaps = {}` leaves out `lateRemoval`, which run
`order_late_removal` shows, and `keptNeed`; troves resolved over settled needs are in.
Faults and deaths are allowed everywhere else, and changes of the source in `Mirror`.

The shape of each proof is the same: an inductive invariant, which TLC checked
first, a lemma that the initial states satisfy it, one lemma for each action or
for a group of actions that disturb the same parts, and the last step by PTL.

`JobJournal`. For `OriginalsReachable` the invariant `IInv` adds four facts to the
types, and only while `apply` runs. `OrigInv`: the inode numbers of the original
files are at most `ino` and never directories, so a new inode is never taken for
an original. `LinkInv`: between the record and the link of a backup, the name is
recorded and free. `TargetInv`: past `Backup`, a file still at the target has a
recorded second name, which is why the handler may destroy it. `RenameInv`: a
rename in hand goes to a free path, which is where the assumption is used. The rest holds for every request and in every phase,
from `JInv`: the records for the cleanup of directories are the first and name
parents before children (`CleanupFirst`, `ParentsFirst`), the record of a backup is
written before its link (`LinkRecorded`), and while `commit` reads back to front the
backups that are left are recorded in what is still to be read, and the directories
it has tried are in use (`CommitInv`).

`UpdateCommit`. Three invariants, each on top of the one before. `TInv`, without any
assumption: the types; `Exclusive`, a command past the lock is its holder; `Budget`,
how many change sets a job may still install and that a job about to begin carries
the counter the database has or none, from which `NoStaleUpdate` follows; and that what the
journal says of the stack can be undone. `IInv`, for the files: `Known` and
`SpentIsHeld` say whose journal it is and whether its change set is in the database,
`Logged` which halves of the files are recorded at each point, and that a half
not recorded is at the version of the database. `SInv`, for the stack: `StackOf` says
at each point what the command knows of the stack and what its journal takes back.
`StackStep` then says what a step may do to the stack recovery would leave: nothing,
one version more at its end with the database, or empty it. That is at once why
`StackRecoverable` is inductive and why every step is `Install`, `Invalidate` or a
stutter of `AtomicUpdate`.

`Rollbacks`. `TInv` has the types, the lock, and how many pairs are left where each
rollback is (`Pairwise`), so that none is looked for in vain. `RInv` is about the
history. `OneAhead` has to hold not only for the stack on the disk but for the one
every command remembers that would still get past `CheckCounter` (`Current`), for it
will be written back (`AllAhead`). Commands that remember a last rollback which is
still there remember the same one (`SameTop`), removals beside each other included
(`Removals`), and a rollback works at that one (`AtTop`). `PairedDir`: a pair has
the versions that were installed before it and the local changes there were. A rollback
that died may have undone a pair without removing it. The next one then refuses it in
`ReposPhase` or, when the pair only brings troves back, undoes it again, which leads to
where the first did (`ReposBack`). `Along`: between two
steps of a rollback the system is exactly where the trail says, which at `Drop` is
`Retraced`.

`UpdateThreads`. Installed, in hand, in the queue and at the thread are consecutive
jobs (`Consecutive`), with the end of the list or an exception last and the thread
then dead; without a thread the main thread counts for itself (`Unthreaded`). A
command that returns without an error has installed everything (`Complete`).

`RepoContents`. While troves are removed nobody else is at work (`RemovesAlone`).
`JobOf` says at each point which part of what a commit carries is in the store, and
that what it does not carry is there for a trove that is. `Present` is the property
for troves no open transaction has marked; `Accounted` is its converse: what is in
the store is needed by a trove, carried by a commit, or left by a failed one.

`ChangesetCache`. For `OneMaker`: a process past `Lock`
owns the inode it has open (`Owns`), a lock file is removed only when its change set
is there (`Made`), whoever has a lock file open that has lost its name has been
overtaken, its change set being in the cache (`Overtaken`), and hence while a change
set is made nobody has another lock file of it open (`Alone`). That the cache has
the change set for as long as an old lock file is open is what `sweepBeside` breaks.
For `MadeOnce`, with locks for all change sets: a process makes only what it has
locked, each once (`MakesLocked`), and what it makes, or has found missing under the
lock, is missing still (`Fresh`), for nobody else protects it.

`UpdateOrder`. Two invariants. `OInv` has no assumption and is about the walks. For
one walk, whatever it walks over: no node is forgotten (`Kept`), what is to finish is
on the stack in the order it began (`Finishing`, `Nested`), a node finishes after its
children have begun, and these before all that began later (`Pending`, `Finished`),
what is above a node or began before it finished is reached from it (`Above`,
`Descends`), and no edge leads from a finished tree to a later one (`Forest`). Then
what each walk makes of the one before: after the second, backwards over the first
one's finish order, each tree is all around one job (`Around`): pulled to it, so
that it reaches it by the edges, and led to by it. Together these say that the trees
are the strongly connected components (`Components`), which the third walk, over a
graph that can have no cycle, puts in order. That an accepted update is always
ordered (`TypeOK`) is here a result: `getTotalOrdering` raises no `BackEdgeError`. The
components are of jobs in sets closed under the edges (`Reaches`), so none of this
goes by induction along paths. `FinalsLast` follows from this order, and from the edges
that each round adds from its leaves to the final jobs. `SInv` is about the rounds and has `StepClosed` with
`OInv`: what requires something that goes is asked for once (`Inquired`), and what was
found satisfied still is, by something that stays, or that edges bring first, or
because the one who needs it goes before (`NeedsMet`, with `MetNew`, `MetOld` and
`GoneBefore`), unless its trove came late or its tie was torn: then by the last step
only. The names in `Mishaps` are the rounds that break `NeedsMet`.

`Mirror`. `PInv` has the types, that only a mirror of one target commits what can be
seen (`Shows`), and that every trove of the list which is not removed is at each
target or in a chunk or a bundle for it (`Pending`), so that `Finish` shows it when all
have it. `Marked` adds the marks, for all troves that are not in `missed`. `Safe(m)` is
that nothing with a stamp below `m` is missing anywhere, `Covered(m)` that the list has
all from its beginning up to `m`, as it is now. The list is complete up to its last
mark and has all troves with the mark it begins at (`Listed`): the limit of the source
is above the number of troves with one stamp, and what is cut off at the end is later
than all before it. So the mark to set, one ahead of the last included, is never
beyond the list (`Aims`, `Removing`, `Advances`), and a mark put back is no loss (`Begun`),
in whichever subset of the targets a call succeeds (`Passed`). A change of the source
gives its trove the stamp of the clock: either a mark or a pass is past it already
(`Overtaken`, and the trove is in `missed`), or it is above all that was said of it.

Only model-checked:

* Liveness: `LockFreed`, `Ends`, `Served`, `CatchesUp`, `RunEnds`. The prover has no rules
  for fairness or ENABLED.
* `FilesRestored` of `JobJournal`: it says what the whole of a `revert` makes of the
  tree, and for that what the records from the reader's position to the front would
  still do, a fold over the journal, which takes induction over data.
* `InfosKept` of `Mirror`: not tried yet.
* The violations of section 3, which are behaviours of small instances.

## 5. Not modelled

* The computation of a job from what the user asks (matching of troves in groups,
  three-way merges of files): sequential, over rich data.
* Versions, flavors and dependencies as values, stream and container formats, the
  network protocol, SQL schemas, permissions, signatures: conversions and queries
  whose unit tests enumerate what a model would.
* The reference counts of the local contents store: changed inside the transaction
  of the local database, by one process at a time.
* Tag handlers and scripts: run after the journal is gone, and show here only as a
  place where a command may fail. Capsules (RPM) commit through their own database.
* Commands that change the system without the commit lock (`local/database.py:2357`:
  remove, restore, repair, capsule sync).
* Groups of contents stores (`DataStoreSet`), the proxy's contents cache, PGP keys
  and relative change sets in the mirror.
* Which steps are the critical part of an update (`_getCriticalJobSets`): what critical
  jobs need in the graph, a function of the steps that `UpdateOrder` orders.
* Builds, recipes, policies, checkin and the command line: sequential code over the
  parts above.
* Power loss: the code never calls fsync on the journal, so nothing could be shown
  about it.

## 6. Plan

All safety properties that the runs check are proved, but for `FilesRestored` and
`InfosKept`. What would come next:

1. `Mirror`: `InfosKept`, from the invariant of `NoneSkipped` and one for infos that is
   like it. `JobJournal`: parts of `FilesRestored` that need no fold, such as that a revert
   without directories in the place of files never takes away the only name of an
   original.
2. `Mirror`: that a target without hidden commits, or one whose run did not fail, never
   shows what others lack, which bounds where `Together` fails.
3. The local contents store and the commands without the commit lock (section 5).
