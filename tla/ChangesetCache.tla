--------------------------- MODULE ChangesetCache ---------------------------
(***************************************************************************)
(* The change sets a repository or proxy keeps on disk: ChangesetCache and *)
(* ChangesetFilter in src/conary/repository/netrepos/proxy.py, LockedFile  *)
(* and AtomicFile in src/conary/lib/util.py.                               *)
(*                                                                         *)
(* Processes serve requests for several change sets at once.  One that is  *)
(* missing is locked, made, and renamed into place; others that want it    *)
(* wait for the lock and find the file.  A lock is a POSIX lock on a lock  *)
(* file beside the change set, which its last user removes: processes may  *)
(* have locks on different files of one name.                              *)
(*                                                                         *)
(* Simplifications: a request names no change set twice; there is one      *)
(* change set version, hence no conversion; the rest of the request (the   *)
(* fingerprints, the manifest, the reply) is left out; what is cut short   *)
(* in transit is an error, as set() makes it by the size.                  *)
(***************************************************************************)
EXTENDS Integers, FiniteSets, FiniteSetsExt

CONSTANTS
    Proc,      \* the server processes
    NoProc,    \* nobody
    Key,       \* the fingerprints, as numbers: they are sorted
    Limits,    \* how many locks a process may hold: a quarter of its descriptors
    Mishaps    \* "fault": errors and crashes; "sweepBeside": a rule is broken

ASSUME NoProcAssumption == NoProc \notin Proc
ASSUME ProcAssumption == IsFiniteSet(Proc)
ASSUME KeyAssumption == Key \subseteq Nat \ {0} /\ IsFiniteSet(Key)
ASSUME LimitsAssumption == Limits \subseteq Nat
ASSUME MishapsAssumption == Mishaps \subseteq {"fault", "sweepBeside"}

VARIABLES
    maxLocks,  \* how many locks a process may hold here
    file,    \* the cached change sets
    lck,     \* the lock file of each: its inode, or 0
    owner,   \* who has the lock on an inode
    pc,      \* where each process is
    want,    \* change sets it has still to look up
    key,     \* the one at hand
    fd,      \* the inodes of lock files it has open
    locked,  \* the change sets it has locked to make them
    miss,    \* the change sets it has to make
    data     \* what it has written of the one at hand

disk == <<file, lck, owner>>
own == <<want, key, fd, locked, miss, data>>
vars == <<maxLocks, disk, pc, own>>

\* As many inodes as there can be at a time.
Inode == 1..(Cardinality(Proc) + 1)

\* No step of a process changes what it was started with.
Goto(p, at) ==
    /\ pc' = [pc EXCEPT ![p] = at]
    /\ UNCHANGED maxLocks

Init ==
    /\ maxLocks \in Limits
    /\ file = [k \in Key |-> "none"]
    /\ lck = [k \in Key |-> 0]
    /\ owner = [k \in Key |-> [i \in Inode |-> NoProc]]
    /\ pc = [p \in Proc |-> "idle"]
    /\ want = [p \in Proc |-> {}]
    /\ key = [p \in Proc |-> 0]
    /\ fd = [p \in Proc |-> [k \in Key |-> 0]]
    /\ locked = [p \in Proc |-> {}]
    /\ miss = [p \in Proc |-> {}]
    /\ data = [p \in Proc |-> "none"]

-----------------------------------------------------------------------------
(* Looking change sets up: _getCachedChangeSetList.                        *)

Request(p) ==
    /\ pc[p] = "idle"
    /\ \E ks \in (SUBSET Key) \ {{}} : want' = [want EXCEPT ![p] = ks]
    /\ Goto(p, "next")
    /\ UNCHANGED <<disk, key, fd, locked, miss, data>>

\* Mutant: in any order.
PickAny(p) == want[p]

\* "We need to order by fingerprint first.  This prevents deadlocks."
Pick(p) == {Min(want[p])}

NextKey(p) ==
    /\ pc[p] = "next"
    /\ \/ \E k \in (IF want[p] = {} THEN {} ELSE Pick(p)) :
             /\ key' = [key EXCEPT ![p] = k]
             /\ want' = [want EXCEPT ![p] = @ \ {k}]
             /\ Goto(p, "look")
       \/ /\ want[p] = {}
          /\ Goto(p, "make")
          /\ UNCHANGED <<key, want>>
    /\ UNCHANGED <<disk, fd, locked, miss, data>>

\* Mutant: the number of locks is not looked at.
LookNoLimit(p) ==
    /\ pc[p] = "look"
    /\ Goto(p, IF file[key[p]] # "none" THEN "next" ELSE "openLock")
    /\ UNCHANGED <<disk, own>>

\* The file, if it is there.  A process with too many locks takes no more.
Look(p) ==
    /\ pc[p] = "look"
    /\ \/ /\ file[key[p]] # "none"
          /\ Goto(p, "next") /\ UNCHANGED miss
       \/ /\ file[key[p]] = "none" /\ Cardinality(locked[p]) >= maxLocks
          /\ miss' = [miss EXCEPT ![p] = @ \cup {key[p]}]
          /\ Goto(p, "next")
       \/ /\ file[key[p]] = "none" /\ Cardinality(locked[p]) < maxLocks
          /\ Goto(p, "openLock") /\ UNCHANGED miss
    /\ UNCHANGED <<disk, want, key, fd, locked, data>>

\* An inode no name and no descriptor refers to.
FreeInode(k) == CHOOSE i \in Inode : i # lck[k] /\ \A q \in Proc : fd[q][k] # i

\* The lock file is opened, and created if there is none.
OpenLock(p) ==
    /\ pc[p] = "openLock"
    /\ LET k == key[p]
           i == IF lck[k] = 0 THEN FreeInode(k) ELSE lck[k]
       IN  /\ lck' = [lck EXCEPT ![k] = i]
           /\ fd' = [fd EXCEPT ![p][k] = i]
    /\ Goto(p, "lock")
    /\ UNCHANGED <<file, owner, want, key, locked, miss, data>>

\* Mutant: the lock is not waited for.
LockNow(p) ==
    /\ pc[p] = "lock"
    /\ owner' = [owner EXCEPT ![key[p]][fd[p][key[p]]] = p]
    /\ Goto(p, "recheck")
    /\ UNCHANGED <<file, lck, own>>

Lock(p) ==
    /\ pc[p] = "lock"
    /\ owner[key[p]][fd[p][key[p]]] = NoProc
    /\ owner' = [owner EXCEPT ![key[p]][fd[p][key[p]]] = p]
    /\ Goto(p, "recheck")
    /\ UNCHANGED <<file, lck, own>>

\* Mutant: what was made while the lock was waited for is not seen.
RecheckNothing(p) ==
    /\ pc[p] = "recheck"
    /\ Goto(p, "lockThere")
    /\ UNCHANGED <<disk, own>>

\* Someone may have made the change set meanwhile.
Recheck(p) ==
    /\ pc[p] = "recheck"
    /\ Goto(p, IF file[key[p]] # "none" THEN "unlink" ELSE "lockThere")
    /\ UNCHANGED <<disk, own>>

\* Process p closes the lock file of k, and has no lock any more.
Close(p, k) ==
    /\ owner' = [owner EXCEPT ![k] = [i \in Inode |-> IF @[i] = p THEN NoProc ELSE @[i]]]
    /\ fd' = [fd EXCEPT ![p][k] = 0]

\* If there is a lock file still, the change set is p's to make; if not, the
\* lock is on a file that was removed, and everything starts again.
LockThere(p) ==
    /\ pc[p] = "lockThere"
    /\ IF lck[key[p]] # 0
       THEN /\ locked' = [locked EXCEPT ![p] = @ \cup {key[p]}]
            /\ miss' = [miss EXCEPT ![p] = @ \cup {key[p]}]
            /\ Goto(p, "next")
            /\ UNCHANGED <<owner, fd>>
       ELSE /\ Close(p, key[p])
            /\ Goto(p, "look")
            /\ UNCHANGED <<locked, miss>>
    /\ UNCHANGED <<file, lck, want, key, data>>

\* unlock: the name of the lock file is removed, whatever file has it, and
\* then the lock is given up.
Unlink(p) ==
    /\ pc[p] = "unlink"
    /\ lck' = [lck EXCEPT ![key[p]] = 0]
    /\ Goto(p, "close")
    /\ UNCHANGED <<file, owner, own>>

\* A file that was found is served; one that was made is off the list.
CloseLock(p) ==
    /\ pc[p] = "close"
    /\ Close(p, key[p])
    /\ locked' = [locked EXCEPT ![p] = @ \ {key[p]}]
    /\ Goto(p, IF data[p] = "none" THEN "next" ELSE "make")
    /\ data' = [data EXCEPT ![p] = "none"]
    /\ UNCHANGED <<file, lck, want, key, miss>>

-----------------------------------------------------------------------------
(* Making the missing ones: _cacheChangeSet and ChangesetCache.set.        *)

\* The end of a request, in success or failure: resetLocks lets go of every
\* lock, and leaves the lock files.
Forget(p) ==
    /\ Goto(p, "idle")
    /\ owner' = [k \in Key |-> [i \in Inode |->
                    IF owner[k][i] = p THEN NoProc ELSE owner[k][i]]]
    /\ fd' = [fd EXCEPT ![p] = [k \in Key |-> 0]]
    /\ want' = [want EXCEPT ![p] = {}]
    /\ key' = [key EXCEPT ![p] = 0]
    /\ locked' = [locked EXCEPT ![p] = {}]
    /\ miss' = [miss EXCEPT ![p] = {}]
    /\ data' = [data EXCEPT ![p] = "none"]
    /\ UNCHANGED <<file, lck>>

MakeNext(p) ==
    /\ pc[p] = "make"
    /\ \/ \E k \in miss[p] :
             /\ key' = [key EXCEPT ![p] = k]
             /\ miss' = [miss EXCEPT ![p] = @ \ {k}]
             /\ Goto(p, "write")
             /\ UNCHANGED <<disk, want, fd, locked, data>>
       \/ miss[p] = {} /\ Forget(p)

\* The change set goes to a temporary file.  One that was cut short in
\* transit raises an error.
Write(p) ==
    /\ pc[p] = "write"
    /\ \/ /\ data' = [data EXCEPT ![p] = "whole"]
          /\ Goto(p, "rename")
          /\ UNCHANGED <<disk, want, key, fd, locked, miss>>
       \/ "fault" \in Mishaps /\ Forget(p)

\* "It is important that we move the file into place first, before releasing
\* the lock."
Rename(p) ==
    /\ pc[p] = "rename"
    /\ file' = [file EXCEPT ![key[p]] = data[p]]
    /\ IF key[p] \in locked[p]
       THEN Goto(p, "unlink") /\ UNCHANGED data
       ELSE Goto(p, "make") /\ data' = [data EXCEPT ![p] = "none"]
    /\ UNCHANGED <<lck, owner, want, key, fd, locked, miss>>

\* An error anywhere, or the death of the process.
Fail(p) ==
    /\ "fault" \in Mishaps /\ pc[p] # "idle"
    /\ Forget(p)

\* The cache is cleaned from outside.  The operator's rule: a change set is not
\* swept away while someone has its lock file open.
Sweep(k) ==
    /\ file[k] # "none"
    /\ "sweepBeside" \in Mishaps \/ \A p \in Proc : fd[p][k] = 0
    /\ file' = [file EXCEPT ![k] = "none"]
    /\ UNCHANGED <<maxLocks, lck, owner, pc, own>>

Step(p) ==
    \/ NextKey(p) \/ Look(p) \/ OpenLock(p) \/ Recheck(p) \/ LockThere(p)
    \/ Unlink(p) \/ CloseLock(p) \/ MakeNext(p) \/ Write(p) \/ Rename(p)

Next ==
    \/ \E p \in Proc : Request(p) \/ Step(p) \/ Lock(p) \/ Fail(p)
    \/ \E k \in Key : Sweep(k)

Spec == Init /\ [][Next]_vars

\* A process goes on with its request; the kernel gives a lock to those who
\* wait for it in turn.
FairSpec ==
    /\ Spec
    /\ \A p \in Proc : WF_vars(Step(p)) /\ SF_vars(Lock(p))

-----------------------------------------------------------------------------
(* Properties.                                                             *)

PCs == {"idle", "next", "look", "openLock", "lock", "recheck", "lockThere",
        "unlink", "close", "make", "write", "rename"}

\* Every variable has its type, and no process has more locks than it may.
TypeOK ==
    /\ maxLocks \in Limits /\ pc \in [Proc -> PCs]
    /\ file \in [Key -> {"none", "whole"}]
    /\ lck \in [Key -> Inode \cup {0}]
    /\ owner \in [Key -> [Inode -> Proc \cup {NoProc}]]
    /\ want \in [Proc -> SUBSET Key] /\ key \in [Proc -> Key \cup {0}]
    /\ fd \in [Proc -> [Key -> Inode \cup {0}]]
    /\ locked \in [Proc -> SUBSET Key] /\ miss \in [Proc -> SUBSET Key]
    /\ data \in [Proc -> {"none", "whole"}]
    /\ \A p \in Proc : Cardinality(locked[p]) <= maxLocks

\* The change sets a process is making under their locks.
Making(p) == IF pc[p] \in {"unlink", "close"} THEN locked[p] \ {key[p]} ELSE locked[p]

\* Two processes never make the same change set under its lock, although the
\* lock file is removed and made anew and processes fail with the lock held.
OneMaker == \A p, q \in Proc : p # q => Making(p) \cap Making(q) = {}

\* With locks enough for all change sets none is made again while it is in the
\* cache, neither by those who waited for the lock of the one that made it, nor
\* after that one died between the rename and the removal of its lock file.
MadeOnce ==
    maxLocks >= Cardinality(Key) => \A p \in Proc : \A k \in Making(p) : file[k] = "none"

\* Every request is answered, or fails: processes that wait for each other's
\* locks never wait in a circle.
Served == \A p \in Proc : pc[p] = "next" ~> pc[p] = "idle"
=============================================================================
