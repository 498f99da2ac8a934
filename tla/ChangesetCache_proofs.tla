----------------------- MODULE ChangesetCache_proofs -----------------------
(***************************************************************************)
(* Whatever the number of processes, change sets and locks: the types of   *)
(* ChangesetCache hold, and, if nobody sweeps a change set away while its  *)
(* lock file is open, two processes never make the same change set under   *)
(* its lock and, with locks enough, none makes one that was made already.  *)
(***************************************************************************)
EXTENDS ChangesetCache, FiniteSetTheorems, WellFoundedInduction, TLAPS

-----------------------------------------------------------------------------
(* The invariants.                                                         *)

\* A process with a change set at hand, and one that takes a lock.
AtKey == {"look", "openLock", "lock", "recheck", "lockThere", "unlink", "close",
          "write", "rename"}
Locking == {"openLock", "lock", "recheck", "lockThere"}

Types ==
    /\ maxLocks \in Limits /\ pc \in [Proc -> PCs]
    /\ file \in [Key -> {"none", "whole"}]
    /\ lck \in [Key -> Inode \cup {0}]
    /\ owner \in [Key -> [Inode -> Proc \cup {NoProc}]]
    /\ want \in [Proc -> SUBSET Key] /\ key \in [Proc -> Key \cup {0}]
    /\ fd \in [Proc -> [Key -> Inode \cup {0}]]
    /\ locked \in [Proc -> SUBSET Key] /\ miss \in [Proc -> SUBSET Key]
    /\ data \in [Proc -> {"none", "whole"}]

AtHand(p) == pc[p] \in AtKey => key[p] \in Key

\* There is room for the lock a process is about to take.
Room(p) ==
    /\ IsFiniteSet(locked[p]) /\ Cardinality(locked[p]) <= maxLocks
    /\ pc[p] \in Locking => Cardinality(locked[p]) < maxLocks

TInv == Types /\ \A p \in Proc : AtHand(p) /\ Room(p)

\* A process looks up each change set once.
Once(p) ==
    /\ pc[p] = "idle" => locked[p] = {}
    /\ want[p] \cap locked[p] = {}
    /\ pc[p] \in Locking \cup {"look"} => key[p] \notin want[p] \cup locked[p]

\* Process p has the lock on the lock file of k that it has open.
Has(p, k) == fd[p][k] \in Inode /\ owner[k][fd[p][k]] = p

Owns(p) ==
    /\ pc[p] = "lock" => fd[p][key[p]] \in Inode
    /\ pc[p] \in {"recheck", "lockThere", "unlink", "close"} => Has(p, key[p])
    /\ \A k \in locked[p] : Has(p, k)

\* A lock file is removed when the change set is there.
Made(p) ==
    /\ pc[p] = "rename" => data[p] = "whole"
    /\ pc[p] \in {"unlink", "close"} => file[key[p]] # "none"

\* Who has a lock file open that has no name any more has been overtaken.
Overtaken == \A k \in Key, r \in Proc : fd[r][k] \notin {0, lck[k]} => file[k] # "none"

\* While a change set is being made nobody has another lock file of it open.
Protected(p, k) == k \in Making(p) \/ (pc[p] = "lockThere" /\ key[p] = k)

Alone == \A p \in Proc, k \in Key : Protected(p, k) => \A r \in Proc : fd[r][k] \in {0, lck[k]}

CInv == TInv /\ (\A p \in Proc : Once(p) /\ Owns(p) /\ Made(p)) /\ Overtaken /\ Alone

\* With locks enough for all change sets a process makes only what it has locked,
\* each once.
Enough == maxLocks >= Cardinality(Key)

MakesLocked(p) ==
    /\ miss[p] \subseteq locked[p]
    /\ pc[p] \in {"write", "rename", "unlink", "close"} => key[p] \notin miss[p]
    /\ pc[p] \in {"write", "rename"} => key[p] \in locked[p]

\* What a process makes, or has found missing under the lock, is still missing.
Fresh(p) == \A k \in Key : Protected(p, k) => file[k] = "none"

MInv == CInv /\ (Enough => \A p \in Proc : MakesLocked(p) /\ Fresh(p))

-----------------------------------------------------------------------------
(* Facts about the operators.                                              *)

\* A set of keys has a least one.
LEMMA LeastKey ==
    ASSUME NEW S \in SUBSET Key, S # {}
    PROVE  Min(S) \in S
<1>1. S \in SUBSET Nat
      BY KeyAssumption
<1>2. PICK x \in S : \A y \in S : ~ (<<y, x>> \in OpToRel(<, Nat))
      BY <1>1, NatLessThanWellFounded, WFMin
<1>3. \A y \in S : ~ (y < x)
      BY <1>1, <1>2, Zenon DEF OpToRel
<1>4. \A y \in S : x =< y
      BY <1>1, <1>3
<1> QED  BY <1>4 DEF Min

LEMMA Inodes ==
    /\ Inode \subseteq Nat \ {0} /\ IsFiniteSet(Inode)
    /\ Cardinality(Inode) = Cardinality(Proc) + 1
<1>1. Cardinality(Proc) \in Nat
      BY ProcAssumption, FS_CardinalityType
<1>2. 1 \in Int /\ Cardinality(Proc) + 1 \in Int /\ ~ (1 > Cardinality(Proc) + 1)
      BY <1>1
<1>3. IsFiniteSet(Inode) /\ Cardinality(Inode) = (Cardinality(Proc) + 1) - 1 + 1
      BY <1>2, FS_Interval DEF Inode
<1>4. Cardinality(Inode) = Cardinality(Proc) + 1
      BY <1>1, <1>3
<1>5. Inode \subseteq Nat \ {0}
      BY <1>1 DEF Inode
<1> QED  BY <1>3, <1>4, <1>5

\* There are more inodes than descriptors.
LEMMA SomeFree ==
    ASSUME NEW k \in Key, lck[k] = 0, fd \in [Proc -> [Key -> Inode \cup {0}]]
    PROVE  /\ FreeInode(k) \in Inode /\ FreeInode(k) # 0
           /\ \A q \in Proc : fd[q][k] # FreeInode(k)
<1>1. \E i \in Inode : \A q \in Proc : fd[q][k] # i
  <2> SUFFICES ASSUME \A i \in Inode : \E q \in Proc : fd[q][k] = i
               PROVE  FALSE
        OBVIOUS
  <2> DEFINE f == [i \in Inode |-> CHOOSE q \in Proc : fd[q][k] = i]
  <2>1. \A i \in Inode : f[i] \in Proc /\ fd[f[i]][k] = i
        OBVIOUS
  <2>2. f \in [Inode -> Proc]
        BY <2>1
  <2>3. Cardinality(Proc) < Cardinality(Inode)
        BY Inodes, ProcAssumption, FS_CardinalityType
  <2>4. \E i, j \in Inode : i # j /\ f[i] = f[j]
    <3> HIDE DEF f
    <3>1. IsFiniteSet(Inode)
          BY Inodes
    <3>2. \E x, y \in Inode : x # y /\ f[x] = f[y]
          BY <2>2, <2>3, <3>1, ProcAssumption, FS_PigeonHole
    <3> QED  BY <3>2
  <2> QED  BY <2>1, <2>4
<1>2. \E i \in Inode : i # lck[k] /\ \A q \in Proc : fd[q][k] # i
      BY <1>1, Inodes
<1>3. /\ FreeInode(k) \in Inode
      /\ \A q \in Proc : fd[q][k] # FreeInode(k)
      BY <1>2 DEF FreeInode
<1> QED  BY <1>3, Inodes

-----------------------------------------------------------------------------
(* The types.                                                              *)

LEMMA InitTypes == Init => TInv
<1> SUFFICES ASSUME Init PROVE TInv
      OBVIOUS
<1>1. maxLocks \in Nat
      BY LimitsAssumption DEF Init
<1>2. Types
      BY DEF Init, Types, PCs
<1>3. \A p \in Proc : AtHand(p) /\ Room(p)
      BY <1>1, FS_EmptySet DEF Init, AtHand, Room, AtKey, Locking
<1> QED  BY <1>2, <1>3 DEF TInv

LEMMA ForgetTypes ==
    ASSUME TInv, NEW p \in Proc, Forget(p)
    PROVE  TInv'
<1>1. Types'
      BY DEF TInv, Types, Forget, Goto, PCs
<1>2. maxLocks \in Nat
      BY LimitsAssumption DEF TInv, Types
<1>3. (AtHand(p) /\ Room(p))'
      BY <1>2, FS_EmptySet DEF TInv, Types, Forget, Goto, AtHand, Room, AtKey, Locking
<1>4. ASSUME NEW q \in Proc, q # p PROVE (AtHand(q) /\ Room(q))'
      BY <1>4 DEF TInv, Types, Forget, Goto, AtHand, Room
<1> QED  BY <1>1, <1>3, <1>4 DEF TInv

LEMMA NextTypes == TInv /\ [Next]_vars => TInv'
<1> SUFFICES ASSUME TInv, [Next]_vars PROVE TInv'
      OBVIOUS
<1> USE DEF TInv
<1>0. CASE UNCHANGED vars
      BY <1>0 DEF vars, disk, own, Types, AtHand, Room
<1>s. ASSUME NEW k \in Key, Sweep(k) PROVE TInv'
      BY <1>s DEF Sweep, own, Types, AtHand, Room
<1>p. ASSUME NEW p \in Proc, Request(p) \/ Step(p) \/ Lock(p) \/ Fail(p) PROVE TInv'
  <2>m. maxLocks \in Nat /\ IsFiniteSet(locked[p]) /\ Cardinality(locked[p]) \in Nat
        BY LimitsAssumption, FS_CardinalityType DEF Types, Room
  <2>f. CASE Forget(p)
        BY <2>f, ForgetTypes
  <2>1. CASE Request(p)
    <3>1. Types'
          BY <2>1 DEF Request, Goto, disk, Types, PCs
    <3>2. \A q \in Proc : (AtHand(q) /\ Room(q))'
          BY <2>1 DEF Request, Goto, disk, Types, PCs, AtHand, Room, AtKey, Locking
    <3> QED  BY <3>1, <3>2
  <2>2. CASE NextKey(p)
    <3>k. want[p] # {} => Min(want[p]) \in Key
          BY LeastKey DEF Types
    <3>1. want' \in [Proc -> SUBSET Key] /\ key' \in [Proc -> Key \cup {0}]
      <4>1. CASE want[p] = {}
            BY <2>2, <4>1 DEF NextKey, Types
      <4>2. CASE want[p] # {}
        <5>1. /\ key' = [key EXCEPT ![p] = Min(want[p])]
              /\ want' = [want EXCEPT ![p] = @ \ {Min(want[p])}]
              BY <2>2, <4>2 DEF NextKey, Pick
        <5> QED  BY <4>2, <5>1, <3>k DEF Types
      <4> QED  BY <4>1, <4>2
    <3>3. Types'
          BY <2>2, <3>1 DEF NextKey, Goto, disk, Types, PCs
    <3>2. \A q \in Proc : (AtHand(q) /\ Room(q))'
          BY <2>2, <3>k DEF NextKey, Pick, Goto, disk, Types, PCs, AtHand, Room, AtKey, Locking
    <3> QED  BY <3>2, <3>3
  <2>3. CASE Look(p)
    <3>0. key[p] \in Key
          BY <2>3 DEF Look, AtHand, AtKey
    <3>1. miss' \in [Proc -> SUBSET Key]
          BY <2>3, <3>0 DEF Look, Types
    <3>3. Types'
          BY <2>3, <3>1 DEF Look, Goto, disk, Types, PCs
    <3>2. \A q \in Proc : (AtHand(q) /\ Room(q))'
          BY <2>3, <3>0 DEF Look, Goto, disk, Types, PCs, AtHand, Room, AtKey, Locking
    <3> QED  BY <3>2, <3>3
  <2>4. CASE OpenLock(p)
    <3>0. key[p] \in Key
          BY <2>4 DEF OpenLock, AtHand, AtKey
    <3>i. FreeInode(key[p]) \in Inode \/ lck[key[p]] # 0
          BY <3>0, SomeFree DEF Types
    <3>1. Types'
          BY <2>4, <3>0, <3>i DEF OpenLock, Goto, Types, PCs
    <3>2. \A q \in Proc : (AtHand(q) /\ Room(q))'
          BY <2>4 DEF OpenLock, Goto, Types, PCs, AtHand, Room, AtKey, Locking
    <3> QED  BY <3>1, <3>2
  <2>5. CASE Recheck(p)
    <3>1. Types'
          BY <2>5 DEF Recheck, Goto, disk, own, Types, PCs
    <3>2. \A q \in Proc : (AtHand(q) /\ Room(q))'
          BY <2>5 DEF Recheck, Goto, disk, own, Types, PCs, AtHand, Room, AtKey, Locking
    <3> QED  BY <3>1, <3>2
  <2>6. CASE LockThere(p)
    <3>0. key[p] \in Key /\ Cardinality(locked[p]) < maxLocks
          BY <2>6 DEF LockThere, AtHand, AtKey, Room, Locking
    <3>8. miss' \in [Proc -> SUBSET Key] /\ locked' \in [Proc -> SUBSET Key]
      <4>1. CASE lck[key[p]] # 0
        <5>1. /\ miss' = [miss EXCEPT ![p] = @ \cup {key[p]}]
              /\ locked' = [locked EXCEPT ![p] = @ \cup {key[p]}]
              BY <2>6, <4>1 DEF LockThere
        <5>2. miss[p] \cup {key[p]} \in SUBSET Key /\ locked[p] \cup {key[p]} \in SUBSET Key
              BY <3>0 DEF Types
        <5> QED  BY <5>1, <5>2 DEF Types
      <4>2. CASE ~ (lck[key[p]] # 0)
            BY <2>6, <4>2 DEF LockThere, Types
      <4> QED  BY <4>1, <4>2
    <3>9. /\ owner' \in [Key -> [Inode -> Proc \cup {NoProc}]]
          /\ fd' \in [Proc -> [Key -> Inode \cup {0}]]
      <4>1. CASE lck[key[p]] # 0
            BY <2>6, <4>1 DEF LockThere, Types
      <4>2. CASE ~ (lck[key[p]] # 0)
        <5>1. Close(p, key[p])
              BY <2>6, <4>2 DEF LockThere
        <5> QED  BY <3>0, <5>1 DEF Close, Types
      <4> QED  BY <4>1, <4>2
    <3>1. Types'
          BY <2>6, <3>8, <3>9 DEF LockThere, Goto, Types, PCs
    <3>2. IsFiniteSet(locked[p] \cup {key[p]})
          BY <2>m, FS_AddElement
    <3>3. Cardinality(locked[p] \cup {key[p]}) <= Cardinality(locked[p]) + 1
          BY <2>m, FS_AddElement
    <3>4. Cardinality(locked[p] \cup {key[p]}) <= maxLocks
          BY <2>m, <3>0, <3>2, <3>3, FS_CardinalityType
    <3>5. locked'[p] \in {locked[p], locked[p] \cup {key[p]}}
          BY <2>6 DEF LockThere, Types
    <3>6. (AtHand(p) /\ Room(p))'
      <4>1. IsFiniteSet(locked'[p]) /\ Cardinality(locked'[p]) <= maxLocks
            BY <2>m, <3>0, <3>2, <3>4, <3>5
      <4>2. maxLocks' = maxLocks /\ key' = key /\ pc'[p] \in {"next", "look"}
            BY <2>6 DEF LockThere, Goto, Types
      <4> QED  BY <3>0, <4>1, <4>2 DEF AtHand, Room, AtKey, Locking
    <3>7. ASSUME NEW q \in Proc, q # p PROVE (AtHand(q) /\ Room(q))'
          BY <2>6, <3>7 DEF LockThere, Goto, Types, AtHand, Room
    <3> QED  BY <3>1, <3>6, <3>7
  <2>7. CASE Unlink(p)
    <3>0. key[p] \in Key
          BY <2>7 DEF Unlink, AtHand, AtKey
    <3>1. Types'
          BY <2>7, <3>0 DEF Unlink, Goto, own, Types, PCs
    <3>2. \A q \in Proc : (AtHand(q) /\ Room(q))'
          BY <2>7 DEF Unlink, Goto, own, Types, PCs, AtHand, Room, AtKey, Locking
    <3> QED  BY <3>1, <3>2
  <2>8. CASE CloseLock(p)
    <3>0. key[p] \in Key
          BY <2>8 DEF CloseLock, AtHand, AtKey
    <3>1. Types'
          BY <2>8, <3>0 DEF CloseLock, Close, Goto, Types, PCs
    <3>2. IsFiniteSet(locked[p] \ {key[p]})
          BY <2>m, FS_RemoveElement
    <3>3. Cardinality(locked[p] \ {key[p]}) <= Cardinality(locked[p])
          BY <2>m, FS_RemoveElement
    <3>4. Cardinality(locked[p] \ {key[p]}) <= maxLocks
          BY <2>m, <3>2, <3>3, FS_CardinalityType DEF Room
    <3>5. locked'[p] = locked[p] \ {key[p]}
          BY <2>8 DEF CloseLock, Types
    <3>6. (AtHand(p) /\ Room(p))'
      <4>1. maxLocks' = maxLocks /\ pc'[p] \in {"next", "make"}
            BY <2>8 DEF CloseLock, Goto, Types
      <4> QED  BY <3>2, <3>4, <3>5, <4>1 DEF AtHand, Room, AtKey, Locking
    <3>7. ASSUME NEW q \in Proc, q # p PROVE (AtHand(q) /\ Room(q))'
          BY <2>8, <3>7 DEF CloseLock, Goto, Types, AtHand, Room
    <3> QED  BY <3>1, <3>6, <3>7
  <2>9. CASE MakeNext(p)
    <3> SUFFICES ASSUME ~ Forget(p) PROVE TInv'
          BY <2>f
    <3>1. miss' \in [Proc -> SUBSET Key] /\ key' \in [Proc -> Key \cup {0}]
      <4>1. PICK k \in miss[p] : /\ key' = [key EXCEPT ![p] = k]
                                /\ miss' = [miss EXCEPT ![p] = @ \ {k}]
            BY <2>9 DEF MakeNext
      <4>2. k \in Key /\ miss[p] \ {k} \in SUBSET Key
            BY DEF Types
      <4> QED  BY <4>1, <4>2 DEF Types
    <3>3. Types'
          BY <2>9, <3>1 DEF MakeNext, Goto, disk, Types, PCs
    <3>2. \A q \in Proc : (AtHand(q) /\ Room(q))'
      <4>1. PICK k \in miss[p] : key' = [key EXCEPT ![p] = k]
            BY <2>9 DEF MakeNext
      <4>2. k \in Key /\ key'[p] = k
            BY <4>1 DEF Types
      <4>3. /\ pc' = [pc EXCEPT ![p] = "write"] /\ pc'[p] = "write"
            /\ UNCHANGED <<maxLocks, locked>>
            BY <2>9 DEF MakeNext, Goto, Types
      <4>4. \A q \in Proc : q # p => key'[q] = key[q] /\ pc'[q] = pc[q]
            BY <4>1, <4>3 DEF Types
      <4>5. \A q \in Proc : AtHand(q)'
            BY <4>2, <4>4 DEF AtHand
      <4>6. \A q \in Proc : Room(q)'
            BY <4>3, <4>4 DEF Room, Locking
      <4> QED  BY <4>5, <4>6
    <3> QED  BY <3>2, <3>3
  <2>10. CASE Write(p)
    <3> SUFFICES ASSUME ~ Forget(p) PROVE TInv'
          BY <2>f
    <3>1. Types'
          BY <2>10 DEF Write, Goto, disk, Types, PCs
    <3>2. \A q \in Proc : (AtHand(q) /\ Room(q))'
          BY <2>10 DEF Write, Goto, disk, Types, PCs, AtHand, Room, AtKey, Locking
    <3> QED  BY <3>1, <3>2
  <2>11. CASE Rename(p)
    <3>0. key[p] \in Key
          BY <2>11 DEF Rename, AtHand, AtKey
    <3>1. Types'
          BY <2>11, <3>0 DEF Rename, Goto, Types, PCs
    <3>2. \A q \in Proc : (AtHand(q) /\ Room(q))'
          BY <2>11, <3>0 DEF Rename, Goto, Types, PCs, AtHand, Room, AtKey, Locking
    <3> QED  BY <3>1, <3>2
  <2>12. CASE Lock(p)
    <3>0. key[p] \in Key
          BY <2>12 DEF Lock, AtHand, AtKey
    <3>1. Types'
          BY <2>12, <3>0 DEF Lock, Goto, own, Types, PCs
    <3>2. \A q \in Proc : (AtHand(q) /\ Room(q))'
          BY <2>12 DEF Lock, Goto, own, Types, PCs, AtHand, Room, AtKey, Locking
    <3> QED  BY <3>1, <3>2
  <2>13. CASE Fail(p)
        BY <2>13, <2>f DEF Fail
  <2> QED  BY <1>p, <2>1, <2>2, <2>3, <2>4, <2>5, <2>6, <2>7, <2>8, <2>9, <2>10, <2>11,
              <2>12, <2>13 DEF Step
<1> QED  BY <1>0, <1>s, <1>p DEF Next

\* Every variable has its type, and no process ever has more locks than a
\* quarter of its descriptors (_getCachedChangeSetList).
THEOREM TypeCorrect == Spec => []TypeOK
<1>1. TInv => TypeOK
      BY DEF TInv, Types, Room, TypeOK
<1> QED  BY <1>1, InitTypes, NextTypes, PTL DEF Spec

-----------------------------------------------------------------------------
(* One maker.                                                              *)

LocalInv == \A p \in Proc : Once(p) /\ Owns(p) /\ Made(p)

LEMMA InitLocal == Init => CInv
<1> SUFFICES ASSUME Init PROVE CInv
      OBVIOUS
<1>1. TInv
      BY InitTypes
<1>2. \A p \in Proc : Once(p) /\ Owns(p) /\ Made(p)
      BY DEF Init, Once, Owns, Made, Locking
<1>3. Overtaken /\ Alone
      BY DEF Init, Overtaken, Alone
<1> QED  BY <1>1, <1>2, <1>3 DEF CInv

\* Who has a lock is the only one who has it: what a process does to its own
\* lock file leaves the locks of others alone.
LEMMA ForgetLocal ==
    ASSUME CInv, NEW p \in Proc, Forget(p)
    PROVE  LocalInv' /\ Overtaken' /\ Alone'
<1> USE DEF CInv, TInv
<1>t. Types
      OBVIOUS
<1>1. (Once(p) /\ Owns(p) /\ Made(p))'
      BY <1>t DEF Types, Forget, Goto, Once, Owns, Made, Locking
<1>2. ASSUME NEW q \in Proc, q # p PROVE (Once(q) /\ Made(q))'
      BY <1>t, <1>2 DEF Types, Forget, Goto, Once, Made
<1>3. ASSUME NEW q \in Proc, q # p PROVE Owns(q)'
  <2>1. /\ pc'[q] = pc[q] /\ key'[q] = key[q] /\ fd'[q] = fd[q] /\ locked'[q] = locked[q]
        BY <1>t, <1>3 DEF Types, Forget, Goto
  <2>2. ASSUME NEW k \in Key, Has(q, k) PROVE Has(q, k)'
        BY <1>t, <1>3, <2>1, <2>2, NoProcAssumption DEF Types, Forget, Has
  <2>3. pc[q] \in {"lock", "recheck", "lockThere", "unlink", "close"} => key[q] \in Key
        BY DEF AtHand, AtKey
  <2>4. locked[q] \subseteq Key
        BY <1>t DEF Types
  <2> QED  BY <2>1, <2>2, <2>3, <2>4 DEF Owns
<1>4. Overtaken'
      BY <1>t DEF Types, Forget, Overtaken
<1>5. Alone'
  <2> SUFFICES ASSUME NEW q \in Proc, NEW k \in Key, Protected(q, k)', NEW r \in Proc
               PROVE  (fd[r][k] \in {0, lck[k]})'
        BY DEF Alone
  <2>1. q # p
        BY <1>t DEF Types, Forget, Goto, Protected, Making
  <2>2. Protected(q, k)
        BY <1>t, <2>1 DEF Types, Forget, Goto, Protected, Making
  <2> QED  BY <1>t, <2>2 DEF Types, Forget, Alone
<1> QED  BY <1>1, <1>2, <1>3, <1>4, <1>5 DEF LocalInv


LEMMA NextLocal ==
    ASSUME "sweepBeside" \notin Mishaps
    PROVE  CInv /\ TInv' /\ [Next]_vars => CInv'
<1> SUFFICES ASSUME CInv, TInv', [Next]_vars PROVE LocalInv' /\ Overtaken' /\ Alone'
      BY DEF CInv, LocalInv
<1>t. Types /\ Types'
      BY DEF CInv, TInv
<1>0. CASE UNCHANGED vars
      BY <1>0 DEF CInv, LocalInv, vars, disk, own, Once, Owns, Has, Made, Overtaken, Alone,
                  Protected, Making
<1>s. ASSUME NEW k \in Key, Sweep(k) PROVE LocalInv' /\ Overtaken' /\ Alone'
  <2>1. \A p \in Proc : fd[p][k] = 0
        BY <1>s
        DEF Sweep
  <2>2. 0 \notin Inode
        BY Inodes
  <2>3. \A p \in Proc : pc[p] \in {"unlink", "close"} => key[p] # k
        BY <2>1, <2>2 DEF CInv, Owns, Has
  <2>4. \A p \in Proc : (Once(p) /\ Owns(p))'
        BY <1>s DEF Sweep, own, CInv, Once, Owns, Has
  <2>5. \A p \in Proc : Made(p)'
        BY <1>s, <1>t, <2>3 DEF Sweep, own, CInv, Made, Types
  <2>6. Overtaken'
        BY <1>s, <1>t, <2>1 DEF Sweep, own, CInv, Overtaken, Types
  <2>7. Alone'
        BY <1>s DEF Sweep, own, CInv, Alone, Protected, Making
  <2> QED  BY <2>4, <2>5, <2>6, <2>7 DEF LocalInv
<1>p. ASSUME NEW p \in Proc, Request(p) \/ Step(p) \/ Lock(p) \/ Fail(p)
      PROVE  LocalInv' /\ Overtaken' /\ Alone'
  <2>f. CASE Forget(p)
        BY <2>f, ForgetLocal
  <2>k. pc[p] \in AtKey => key[p] \in Key
        BY DEF CInv, TInv, AtHand
  <2>z. 0 \notin Inode
        BY Inodes
  <2>1. CASE Request(p)
    <3>1. \A q \in Proc : Once(q)'
          BY <1>t, <2>k, <2>1 DEF Request, Goto, disk, CInv, Types, Once, Locking, AtKey
    <3>2. \A q \in Proc : Owns(q)'
          BY <1>t, <2>k, <2>1 DEF Request, Goto, disk, CInv, Types, Owns, Has, AtKey
    <3>3. \A q \in Proc : Made(q)'
          BY <1>t, <2>k, <2>1 DEF Request, Goto, disk, CInv, Types, Made, AtKey
    <3>4. Overtaken'
          BY <1>t, <2>k, <2>1 DEF Request, Goto, disk, CInv, Types, Overtaken, AtKey
    <3>5. Alone'
          BY <1>t, <2>k, <2>1 DEF Request, Goto, disk, CInv, Types, Alone, Protected, Making, AtKey
    <3> QED  BY <3>1, <3>2, <3>3, <3>4, <3>5 DEF LocalInv
  <2>2. CASE NextKey(p)
    <3>1. \A q \in Proc : Once(q)'
      <4>0. \A q \in Proc : Once(q)
            BY DEF CInv
      <4>1. CASE want[p] = {}
            BY <1>t, <2>2, <4>0, <4>1 DEF NextKey, Goto, Types, Once, Locking
      <4>2. CASE want[p] # {}
        <5>1. Min(want[p]) \in want[p]
              BY <1>t, <4>2, LeastKey DEF Types
        <5>2. /\ key' = [key EXCEPT ![p] = Min(want[p])] /\ locked' = locked
              /\ want' = [want EXCEPT ![p] = @ \ {Min(want[p])}]
              /\ pc' = [pc EXCEPT ![p] = "look"]
              BY <2>2, <4>2 DEF NextKey, Pick, Goto
        <5> QED  BY <1>t, <4>0, <5>1, <5>2 DEF Types, Once, Locking
      <4> QED  BY <4>1, <4>2
    <3>2. \A q \in Proc : Owns(q)'
          BY <1>t, <2>k, <2>2 DEF NextKey, Goto, Pick, disk, CInv, Types, Owns, Has, AtKey
    <3>3. \A q \in Proc : Made(q)'
          BY <1>t, <2>k, <2>2 DEF NextKey, Goto, Pick, disk, CInv, Types, Made, AtKey
    <3>4. Overtaken'
          BY <1>t, <2>k, <2>2 DEF NextKey, Goto, Pick, disk, CInv, Types, Overtaken, AtKey
    <3>5. Alone'
          BY <1>t, <2>k, <2>2 DEF NextKey, Goto, Pick, disk, CInv, Types, Alone, Protected, Making, AtKey
    <3> QED  BY <3>1, <3>2, <3>3, <3>4, <3>5 DEF LocalInv
  <2>3. CASE Look(p)
    <3>1. \A q \in Proc : Once(q)'
          BY <1>t, <2>k, <2>3 DEF Look, Goto, disk, CInv, Types, Once, Locking, AtKey
    <3>2. \A q \in Proc : Owns(q)'
          BY <1>t, <2>k, <2>3 DEF Look, Goto, disk, CInv, Types, Owns, Has, AtKey
    <3>3. \A q \in Proc : Made(q)'
          BY <1>t, <2>k, <2>3 DEF Look, Goto, disk, CInv, Types, Made, AtKey
    <3>4. Overtaken'
          BY <1>t, <2>k, <2>3 DEF Look, Goto, disk, CInv, Types, Overtaken, AtKey
    <3>5. Alone'
      <4>1. /\ UNCHANGED <<lck, fd, locked>> /\ \A q \in Proc : q # p => key'[q] = key[q]
            /\ pc'[p] \notin {"unlink", "close", "lockThere"} /\ pc[p] \notin {"unlink", "close"}
            /\ \A q \in Proc : q # p => pc'[q] = pc[q]
            BY <1>t, <2>3 DEF Look, Goto, disk, Types
      <4>2. \A q \in Proc, k \in Key : Protected(q, k)' => Protected(q, k)
            BY <4>1 DEF Protected, Making
      <4> QED  BY <4>1, <4>2 DEF CInv, Alone
    <3> QED  BY <3>1, <3>2, <3>3, <3>4, <3>5 DEF LocalInv
  <2>4. CASE OpenLock(p)
    <3>1. \A q \in Proc : Once(q)'
          BY <1>t, <2>k, <2>4 DEF OpenLock, Goto, CInv, Types, Once, Locking, AtKey
    <3>2. \A q \in Proc : Owns(q)'
      <4>0. key[p] \in Key /\ key[p] \notin locked[p] /\ \A q \in Proc : Owns(q)
            BY <2>k, <2>4 DEF OpenLock, CInv, Once, Locking, AtKey
      <4>1. PICK i \in Inode : fd' = [fd EXCEPT ![p][key[p]] = i]
        <5>1. FreeInode(key[p]) \in Inode \/ lck[key[p]] # 0
              BY <1>t, <4>0, SomeFree DEF Types
        <5>2. lck[key[p]] \in Inode \cup {0}
              BY <1>t, <4>0 DEF Types
        <5> QED  BY <2>4, <5>1, <5>2 DEF OpenLock
      <4>2. /\ pc' = [pc EXCEPT ![p] = "lock"]
            /\ owner' = owner /\ key' = key /\ locked' = locked
            BY <2>4 DEF OpenLock, Goto
      <4>3. ASSUME NEW q \in Proc, NEW k \in Key, Has(q, k), q # p \/ k # key[p]
            PROVE  Has(q, k)'
            BY <1>t, <4>0, <4>1, <4>2, <4>3 DEF Types, Has
      <4>4. Owns(p)'
        <5>1. pc'[p] = "lock" /\ fd'[p][key[p]] \in Inode /\ locked[p] \subseteq Key
              BY <1>t, <4>0, <4>1, <4>2 DEF Types
        <5> QED  BY <4>0, <4>2, <4>3, <5>1 DEF Owns
      <4>5. ASSUME NEW q \in Proc, q # p PROVE Owns(q)'
        <5>1. pc'[q] = pc[q] /\ fd'[q] = fd[q] /\ locked[q] \subseteq Key
              BY <1>t, <4>1, <4>2, <4>5 DEF Types
        <5> QED  BY <4>0, <4>2, <5>1 DEF Owns, Has
      <4> QED  BY <4>4, <4>5
    <3>3. \A q \in Proc : Made(q)'
          BY <1>t, <2>k, <2>4 DEF OpenLock, Goto, CInv, Types, Made, AtKey
    <3>4. Overtaken'
          BY <1>t, <2>k, <2>4 DEF OpenLock, Goto, CInv, Types, Overtaken, AtKey
    <3>5. Alone'
          BY <1>t, <2>k, <2>4 DEF OpenLock, Goto, CInv, Types, Alone, Protected, Making, AtKey
    <3> QED  BY <3>1, <3>2, <3>3, <3>4, <3>5 DEF LocalInv
  <2>5. CASE Recheck(p)
    <3>1. \A q \in Proc : Once(q)'
          BY <1>t, <2>k, <2>5 DEF Recheck, Goto, disk, own, CInv, Types, Once, Locking, AtKey
    <3>2. \A q \in Proc : Owns(q)'
          BY <1>t, <2>k, <2>5 DEF Recheck, Goto, disk, own, CInv, Types, Owns, Has, AtKey
    <3>3. \A q \in Proc : Made(q)'
          BY <1>t, <2>k, <2>5 DEF Recheck, Goto, disk, own, CInv, Types, Made, AtKey
    <3>4. Overtaken'
          BY <1>t, <2>k, <2>5 DEF Recheck, Goto, disk, own, CInv, Types, Overtaken, AtKey
    <3>5. Alone'
      <4> SUFFICES ASSUME NEW q \in Proc, NEW k \in Key, Protected(q, k)'
                   PROVE  \A r \in Proc : fd[r][k] \in {0, lck[k]}
            BY <2>5 DEF Recheck, disk, own, Alone
      <4>1. CASE Protected(q, k)
            BY <4>1 DEF CInv, Alone
      <4>2. CASE q = p /\ k = key[p] /\ file[k] = "none"
            BY <4>2 DEF CInv, Overtaken
      <4> QED  BY <1>t, <2>5, <4>1, <4>2 DEF Recheck, Goto, own, Types, Protected, Making
    <3> QED  BY <3>1, <3>2, <3>3, <3>4, <3>5 DEF LocalInv
  <2>6. CASE LockThere(p)
    <3> DEFINE k == key[p]
    <3>0. /\ k \in Key /\ pc[p] = "lockThere" /\ k \notin want[p] \cup locked[p]
          /\ Has(p, k) /\ \A r \in Proc : fd[r][k] \in {0, lck[k]}
          BY <2>k, <2>6 DEF LockThere, AtKey, CInv, Once, Locking, Owns, Alone, Protected
    <3> HIDE DEF k
    <3>n. lck[k] # 0
          BY <2>z, <3>0 DEF Has
    <3>e. /\ locked' = [locked EXCEPT ![p] = @ \cup {k}]
          /\ pc' = [pc EXCEPT ![p] = "next"]
          /\ UNCHANGED <<file, lck, owner, want, key, fd, data>>
          BY <2>6, <3>n DEF LockThere, Goto, k
    <3>1. \A q \in Proc : Once(q)'
          BY <1>t, <3>0, <3>e DEF CInv, Types, Once, Locking
    <3>2. \A q \in Proc : Owns(q)'
          BY <1>t, <3>0, <3>e DEF CInv, Types, Owns, Has
    <3>3. \A q \in Proc : Made(q)'
          BY <1>t, <3>e DEF CInv, Types, Made
    <3>4. Overtaken'
          BY <3>e DEF CInv, Overtaken
    <3>5. Alone'
      <4> SUFFICES ASSUME NEW q \in Proc, NEW l \in Key, Protected(q, l)'
                   PROVE  Protected(q, l)
            BY <3>e DEF CInv, Alone
      <4> QED  BY <1>t, <3>0, <3>e DEF Types, Protected, Making, k
    <3> QED  BY <3>1, <3>2, <3>3, <3>4, <3>5 DEF LocalInv
  <2>7. CASE Unlink(p)
    <3>1. \A q \in Proc : Once(q)'
          BY <1>t, <2>k, <2>7 DEF Unlink, Goto, own, CInv, Types, Once, Locking, AtKey
    <3>2. \A q \in Proc : Owns(q)'
          BY <1>t, <2>k, <2>7 DEF Unlink, Goto, own, CInv, Types, Owns, Has, AtKey
    <3>3. \A q \in Proc : Made(q)'
          BY <1>t, <2>k, <2>7 DEF Unlink, Goto, own, CInv, Types, Made, AtKey
    <3>4. Overtaken'
      <4>1. key[p] \in Key /\ file[key[p]] # "none"
            BY <2>k, <2>7 DEF Unlink, AtKey, CInv, Made
      <4> QED  BY <1>t, <2>7, <4>1 DEF Unlink, own, CInv, Types, Overtaken
    <3>5. Alone'
      <4> SUFFICES ASSUME NEW q \in Proc, NEW k \in Key, Protected(q, k)', NEW r \in Proc
                   PROVE  (fd[r][k] \in {0, lck[k]})'
            BY DEF Alone
      <4>1. Protected(q, k)
            BY <1>t, <2>7 DEF Unlink, Goto, own, Types, Protected, Making
      <4>2. Has(q, k) /\ \A s \in Proc : fd[s][k] \in {0, lck[k]}
            BY <4>1 DEF CInv, Alone, Owns, Protected, Making
      <4>3. Has(p, key[p])
            BY <2>7 DEF Unlink, CInv, Owns
      <4>4. CASE key[p] = k
        <5>1. fd[q][k] = lck[k] /\ fd[p][k] = lck[k]
              BY <2>z, <4>2, <4>3, <4>4 DEF Has
        <5>2. q = p
              BY <4>2, <4>3, <4>4, <5>1 DEF Has
        <5> QED  BY <1>t, <2>7, <4>1, <4>4, <5>2 DEF Unlink, Types, Protected, Making
      <4>5. CASE key[p] # k
            BY <1>t, <2>7, <4>2, <4>5 DEF Unlink, own, Types
      <4> QED  BY <4>4, <4>5
    <3> QED  BY <3>1, <3>2, <3>3, <3>4, <3>5 DEF LocalInv
  <2>8. CASE CloseLock(p)
    <3>1. \A q \in Proc : Once(q)'
          BY <1>t, <2>k, <2>8 DEF CloseLock, Goto, Close, CInv, Types, Once, Locking, AtKey
    <3>2. \A q \in Proc : Owns(q)'
          BY <1>t, <2>k, <2>8 DEF CloseLock, Goto, Close, CInv, Types, Owns, Has, AtKey
    <3>3. \A q \in Proc : Made(q)'
          BY <1>t, <2>k, <2>8 DEF CloseLock, Goto, Close, CInv, Types, Made, AtKey
    <3>4. Overtaken'
          BY <1>t, <2>k, <2>8 DEF CloseLock, Goto, Close, CInv, Types, Overtaken, AtKey
    <3>5. Alone'
      <4>1. /\ pc[p] = "close" /\ key[p] \in Key /\ pc'[p] \in {"next", "make"}
            /\ fd' = [fd EXCEPT ![p][key[p]] = 0] /\ UNCHANGED <<lck, key>>
            /\ locked'[p] = locked[p] \ {key[p]}
            /\ \A q \in Proc : q # p => pc'[q] = pc[q] /\ locked'[q] = locked[q]
            BY <1>t, <2>k, <2>8 DEF CloseLock, Goto, Close, Types, AtKey
      <4>2. \A q \in Proc, k \in Key : Protected(q, k)' => Protected(q, k)
            BY <4>1 DEF Protected, Making
      <4>3. \A q \in Proc, k \in Key : fd'[q][k] \in {0, fd[q][k]}
        <5>1. fd \in [Proc -> [Key -> Inode \cup {0}]]
              BY <1>t DEF Types
        <5> QED  BY <4>1, <5>1
      <4>4. Alone
            BY DEF CInv
      <4> QED  BY <4>1, <4>2, <4>3, <4>4 DEF Alone
    <3> QED  BY <3>1, <3>2, <3>3, <3>4, <3>5 DEF LocalInv
  <2>9. CASE MakeNext(p)
    <3> SUFFICES ASSUME ~ Forget(p) PROVE LocalInv' /\ Overtaken' /\ Alone'
          BY <2>f
    <3>1. \A q \in Proc : Once(q)'
      <4>1. UNCHANGED <<want, locked>> /\ pc[p] = "make" /\ pc'[p] = "write"
            BY <1>t, <2>9 DEF MakeNext, Goto, Types
      <4>2. \A q \in Proc : q # p => key'[q] = key[q] /\ pc'[q] = pc[q]
            BY <1>t, <2>9 DEF MakeNext, Goto, Types
      <4>3. \A q \in Proc : Once(q)
            BY DEF CInv
      <4> QED  BY <4>1, <4>2, <4>3 DEF Once, Locking
    <3>2. \A q \in Proc : Owns(q)'
      <4>1. UNCHANGED <<owner, fd, locked>> /\ pc' = [pc EXCEPT ![p] = "write"]
            BY <2>9 DEF MakeNext, Goto, disk
      <4>2. \A q \in Proc : q # p => key'[q] = key[q] /\ pc'[q] = pc[q]
            BY <1>t, <2>9 DEF MakeNext, Goto, Types
      <4>3. pc'[p] = "write"
            BY <1>t, <4>1 DEF Types
      <4>4. \A q \in Proc : Owns(q)
            BY DEF CInv
      <4>5. Owns(p)'
            BY <4>1, <4>3, <4>4 DEF Owns, Has
      <4>6. ASSUME NEW q \in Proc, q # p PROVE Owns(q)'
            BY <4>1, <4>2, <4>4, <4>6 DEF Owns, Has
      <4> QED  BY <4>5, <4>6
    <3>3. \A q \in Proc : Made(q)'
      <4>1. UNCHANGED <<file, data>> /\ pc'[p] = "write"
            BY <1>t, <2>9 DEF MakeNext, Goto, disk, Types
      <4>2. \A q \in Proc : q # p => key'[q] = key[q] /\ pc'[q] = pc[q]
            BY <1>t, <2>9 DEF MakeNext, Goto, Types
      <4> QED  BY <4>1, <4>2 DEF CInv, Made
    <3>4. Overtaken'
          BY <1>t, <2>k, <2>9 DEF MakeNext, Goto, disk, CInv, Types, Overtaken, AtKey
    <3>5. Alone'
      <4>1. /\ UNCHANGED <<lck, fd, locked>> /\ \A q \in Proc : q # p => key'[q] = key[q]
            /\ pc'[p] \notin {"unlink", "close", "lockThere"} /\ pc[p] \notin {"unlink", "close"}
            /\ \A q \in Proc : q # p => pc'[q] = pc[q]
            BY <1>t, <2>9 DEF MakeNext, Goto, disk, Types
      <4>2. \A q \in Proc, k \in Key : Protected(q, k)' => Protected(q, k)
            BY <4>1 DEF Protected, Making
      <4> QED  BY <4>1, <4>2 DEF CInv, Alone
    <3> QED  BY <3>1, <3>2, <3>3, <3>4, <3>5 DEF LocalInv
  <2>10. CASE Write(p)
    <3> SUFFICES ASSUME ~ Forget(p) PROVE LocalInv' /\ Overtaken' /\ Alone'
          BY <2>f
    <3>1. \A q \in Proc : Once(q)'
          BY <1>t, <2>k, <2>10 DEF Write, Goto, disk, CInv, Types, Once, Locking, AtKey
    <3>2. \A q \in Proc : Owns(q)'
          BY <1>t, <2>k, <2>10 DEF Write, Goto, disk, CInv, Types, Owns, Has, AtKey
    <3>3. \A q \in Proc : Made(q)'
          BY <1>t, <2>k, <2>10 DEF Write, Goto, disk, CInv, Types, Made, AtKey
    <3>4. Overtaken'
          BY <1>t, <2>k, <2>10 DEF Write, Goto, disk, CInv, Types, Overtaken, AtKey
    <3>5. Alone'
          BY <1>t, <2>k, <2>10 DEF Write, Goto, disk, CInv, Types, Alone, Protected, Making, AtKey
    <3> QED  BY <3>1, <3>2, <3>3, <3>4, <3>5 DEF LocalInv
  <2>11. CASE Rename(p)
    <3>1. \A q \in Proc : Once(q)'
          BY <1>t, <2>k, <2>11 DEF Rename, Goto, CInv, Types, Once, Locking, AtKey
    <3>2. \A q \in Proc : Owns(q)'
          BY <1>t, <2>k, <2>11 DEF Rename, Goto, CInv, Types, Owns, Has, AtKey
    <3>3. \A q \in Proc : Made(q)'
          BY <1>t, <2>k, <2>11 DEF Rename, Goto, CInv, Types, Made, AtKey
    <3>4. Overtaken'
      <4>1. key[p] \in Key /\ data[p] = "whole"
            BY <2>k, <2>11 DEF Rename, AtKey, CInv, Made
      <4> QED  BY <1>t, <2>11, <4>1 DEF Rename, CInv, Types, Overtaken
    <3>5. Alone'
      <4> SUFFICES ASSUME NEW q \in Proc, NEW k \in Key, Protected(q, k)'
                   PROVE  Protected(q, k)
            BY <2>11 DEF Rename, CInv, Alone
      <4> QED  BY <1>t, <2>11 DEF Rename, Goto, Types, Protected, Making
    <3> QED  BY <3>1, <3>2, <3>3, <3>4, <3>5 DEF LocalInv
  <2>12. CASE Lock(p)
    <3>1. \A q \in Proc : Once(q)'
          BY <1>t, <2>k, <2>12 DEF Lock, Goto, own, CInv, Types, Once, Locking, AtKey
    <3>2. \A q \in Proc : Owns(q)'
      <4>0. /\ key[p] \in Key /\ fd[p][key[p]] \in Inode
            /\ \A q \in Proc : Owns(q) /\ AtHand(q)
            BY <2>k, <2>12 DEF Lock, AtKey, CInv, TInv, Owns
      <4>1. /\ pc' = [pc EXCEPT ![p] = "recheck"]
            /\ UNCHANGED <<key, fd, locked>>
            BY <2>12 DEF Lock, Goto, own
      <4>2. ASSUME NEW q \in Proc, NEW k \in Key, Has(q, k) PROVE Has(q, k)'
        <5>1. owner[k][fd[q][k]] # NoProc /\ fd[q][k] \in Inode
              BY <4>2, NoProcAssumption DEF Has
        <5>2. owner'[k][fd[q][k]] = owner[k][fd[q][k]]
              BY <1>t, <2>12, <4>0, <5>1 DEF Lock, Types
        <5> QED  BY <4>1, <4>2, <5>2 DEF Has
      <4>3. Has(p, key[p])'
            BY <1>t, <2>12, <4>0, <4>1 DEF Lock, Types, Has
      <4>4. Owns(p)'
        <5>1. pc'[p] = "recheck" /\ locked[p] \subseteq Key
              BY <1>t, <4>1 DEF Types
        <5> QED  BY <4>0, <4>1, <4>2, <4>3, <5>1 DEF Owns
      <4>5. ASSUME NEW q \in Proc, q # p PROVE Owns(q)'
        <5>1. pc'[q] = pc[q] /\ locked[q] \subseteq Key
              BY <1>t, <4>1, <4>5 DEF Types
        <5> QED  BY <4>0, <4>1, <4>2, <5>1 DEF Owns, AtHand, AtKey
      <4> QED  BY <4>4, <4>5
    <3>3. \A q \in Proc : Made(q)'
          BY <1>t, <2>k, <2>12 DEF Lock, Goto, own, CInv, Types, Made, AtKey
    <3>4. Overtaken'
          BY <1>t, <2>k, <2>12 DEF Lock, Goto, own, CInv, Types, Overtaken, AtKey
    <3>5. Alone'
          BY <1>t, <2>k, <2>12 DEF Lock, Goto, own, CInv, Types, Alone, Protected, Making, AtKey
    <3> QED  BY <3>1, <3>2, <3>3, <3>4, <3>5 DEF LocalInv
  <2>13. CASE Fail(p)
        BY <2>13, <2>f DEF Fail
  <2> QED  BY <1>p, <2>1, <2>2, <2>3, <2>4, <2>5, <2>6, <2>7, <2>8, <2>9, <2>10, <2>11,
              <2>12, <2>13 DEF Step
<1> QED  BY <1>0, <1>s, <1>p DEF Next

\* Two processes that make change sets under locks have locks on the lock
\* files that have the names, and a lock has one owner.
LEMMA CInvOneMaker == CInv => OneMaker
<1> SUFFICES ASSUME CInv, NEW p \in Proc, NEW q \in Proc, NEW k \in Making(p) \cap Making(q)
             PROVE  p = q
      BY DEF OneMaker
<1>1. k \in locked[p] /\ k \in locked[q]
      BY DEF Making
<1>2. k \in Key
      BY <1>1 DEF CInv, TInv, Types
<1>3. Has(p, k) /\ Has(q, k)
      BY <1>1 DEF CInv, Owns
<1>4. fd[p][k] = lck[k] /\ fd[q][k] = lck[k]
      BY <1>2, <1>3, Inodes DEF CInv, Alone, Protected, Has
<1> QED  BY <1>3, <1>4 DEF Has

\* As long as nobody sweeps a change set away while its lock file is open, two
\* processes never make the same change set under its lock: that lock files
\* are removed and made anew, and that processes die with locks held, does no
\* harm (ChangesetCache.get, LockedFile.open and close).
THEOREM OneMakerAtATime ==
    ASSUME "sweepBeside" \notin Mishaps
    PROVE  Spec => []OneMaker
<1>1. CInv /\ TInv' /\ [Next]_vars => CInv'
      BY NextLocal
<1>2. CInv => TInv
      BY DEF CInv
<1> QED  BY <1>1, <1>2, InitLocal, NextTypes, CInvOneMaker, PTL DEF Spec

-----------------------------------------------------------------------------
(* Nothing is made twice.                                                  *)

LEMMA InitFresh == Init => MInv
<1> SUFFICES ASSUME Init PROVE MInv
      OBVIOUS
<1>1. CInv
      BY InitLocal
<1>2. \A p \in Proc : MakesLocked(p) /\ Fresh(p)
      BY DEF Init, MakesLocked, Fresh
<1> QED  BY <1>1, <1>2 DEF MInv

\* With locks enough a process that looks for a change set has one left.
LEMMA RoomForAll ==
    ASSUME CInv, Enough, NEW p \in Proc, pc[p] = "look"
    PROVE  Cardinality(locked[p]) < maxLocks
<1>1. key[p] \in Key \ locked[p] /\ locked[p] \subseteq Key
      BY DEF CInv, TInv, Types, AtHand, AtKey, Once
<1>2. IsFiniteSet(Key) /\ Cardinality(Key) \in Nat
      BY KeyAssumption, FS_CardinalityType
<1>3. IsFiniteSet(locked[p]) /\ Cardinality(locked[p]) \in Nat
      BY <1>1, <1>2, FS_Subset, FS_CardinalityType
<1>4. locked[p] # Key
      BY <1>1
<1>5. Cardinality(locked[p]) < Cardinality(Key)
  <2>1. Cardinality(locked[p]) <= Cardinality(Key) /\ Cardinality(locked[p]) # Cardinality(Key)
        BY <1>1, <1>2, <1>4, FS_Subset
  <2> QED  BY <1>2, <1>3, <2>1
<1>6. maxLocks \in Nat
      BY LimitsAssumption DEF CInv, TInv, Types
<1> QED  BY <1>2, <1>3, <1>5, <1>6 DEF Enough

\* A change set one process protects no other does.
LEMMA OnlyProtector ==
    ASSUME CInv, NEW p \in Proc, NEW q \in Proc, NEW k \in Key, Protected(p, k), Protected(q, k)
    PROVE  p = q
<1>1. Has(p, k) /\ Has(q, k)
      BY DEF CInv, Owns, Protected, Making
<1>2. fd[p][k] = lck[k] /\ fd[q][k] = lck[k]
      BY <1>1, Inodes DEF CInv, Alone, Has
<1> QED  BY <1>1, <1>2 DEF Has

LEMMA NextFresh ==
    ASSUME "sweepBeside" \notin Mishaps
    PROVE  MInv /\ CInv' /\ [Next]_vars => MInv'
<1> SUFFICES ASSUME MInv, CInv', [Next]_vars, Enough'
             PROVE  \A p \in Proc : (MakesLocked(p) /\ Fresh(p))'
      BY DEF MInv
<1>t. Types /\ Types' /\ CInv
      BY DEF MInv, CInv, TInv
<1>e. Enough
  <2>1. maxLocks' = maxLocks
    <3>1. CASE UNCHANGED vars
          BY <3>1 DEF vars
    <3>2. ASSUME NEW p \in Proc, Request(p) \/ Step(p) \/ Lock(p) \/ Fail(p) PROVE maxLocks' = maxLocks
          BY <3>2 DEF Request, Step, Lock, Fail, Forget, NextKey, Look, OpenLock, Recheck,
             LockThere, Unlink, CloseLock, MakeNext, Write, Rename, Goto
    <3>3. ASSUME NEW k \in Key, Sweep(k) PROVE maxLocks' = maxLocks
          BY <3>3 DEF Sweep
    <3> QED  BY <3>1, <3>2, <3>3 DEF Next
  <2> QED  BY <2>1 DEF Enough
<1>i. \A p \in Proc : MakesLocked(p) /\ Fresh(p)
      BY <1>e DEF MInv
<1>0. CASE UNCHANGED vars
      BY <1>0, <1>i DEF vars, disk, own, MakesLocked, Fresh, Protected, Making
<1>s. ASSUME NEW k \in Key, Sweep(k) PROVE \A p \in Proc : (MakesLocked(p) /\ Fresh(p))'
      BY <1>s, <1>t, <1>i DEF Sweep, own, Types, MakesLocked, Fresh, Protected, Making
<1>p. ASSUME NEW p \in Proc, Request(p) \/ Step(p) \/ Lock(p) \/ Fail(p)
      PROVE  \A q \in Proc : (MakesLocked(q) /\ Fresh(q))'
  <2>o. ASSUME NEW q \in Proc, q # p PROVE MakesLocked(q)'
    <3>1. UNCHANGED <<pc[q], key[q], miss[q], locked[q]>>
          BY <1>p, <1>t, <2>o DEF Request, Step, Lock, Fail, Forget, NextKey, Look, OpenLock,
             Recheck, LockThere, Unlink, CloseLock, Close, MakeNext, Write, Rename, Goto, disk, own, Types
    <3> QED  BY <1>i, <3>1 DEF MakesLocked
  <2>m. MakesLocked(p)'
    <3>k. pc[p] \in AtKey => key[p] \in Key
          BY <1>t DEF CInv, TInv, AtHand
    <3>f. CASE Forget(p)
          BY <1>t, <3>f DEF Forget, Goto, Types, MakesLocked
    <3>1. CASE Request(p)
          BY <1>t, <1>i, <3>1 DEF Request, Goto, disk, Types, MakesLocked
    <3>2. CASE NextKey(p)
          BY <1>t, <1>i, <3>2 DEF NextKey, Goto, disk, Types, MakesLocked
    <3>3. CASE Look(p)
      <4>1. miss' = miss /\ locked' = locked /\ pc'[p] \in {"next", "openLock"}
        <5>1. Cardinality(locked[p]) < maxLocks
              BY <1>t, <1>e, <3>3, RoomForAll DEF Look
        <5>2. ~ (Cardinality(locked[p]) >= maxLocks)
          <6>1. maxLocks \in Nat /\ Cardinality(locked[p]) \in Nat
                BY <1>t, LimitsAssumption, FS_CardinalityType DEF Types, CInv, TInv, Room
          <6> QED  BY <5>1, <6>1
        <5> QED  BY <1>t, <3>3, <5>2 DEF Look, Goto, Types
      <4> QED  BY <1>i, <4>1 DEF MakesLocked
    <3>4. CASE OpenLock(p)
          BY <1>t, <1>i, <3>4 DEF OpenLock, Goto, Types, MakesLocked
    <3>5. CASE Recheck(p)
      <4>1. key[p] \notin locked[p]
            BY <1>t, <3>5 DEF Recheck, CInv, Once, Locking
      <4> QED  BY <1>t, <1>i, <3>5, <4>1 DEF Recheck, Goto, own, Types, MakesLocked
    <3>6. CASE LockThere(p)
      <4>1. CASE lck[key[p]] # 0
            BY <1>t, <1>i, <3>6, <4>1 DEF LockThere, Goto, Types, MakesLocked
      <4>2. CASE ~ (lck[key[p]] # 0)
            BY <1>t, <1>i, <3>6, <4>2 DEF LockThere, Goto, Types, MakesLocked
      <4> QED  BY <4>1, <4>2
    <3>7. CASE Unlink(p)
          BY <1>t, <1>i, <3>7 DEF Unlink, Goto, own, Types, MakesLocked
    <3>8. CASE CloseLock(p)
          BY <1>t, <1>i, <3>8 DEF CloseLock, Goto, Types, MakesLocked
    <3>9. CASE MakeNext(p) /\ ~ Forget(p)
      <4>1. PICK k \in miss[p] : /\ key' = [key EXCEPT ![p] = k]
                                /\ miss' = [miss EXCEPT ![p] = @ \ {k}]
                                /\ Goto(p, "write") /\ locked' = locked
            BY <3>9 DEF MakeNext
      <4>2. key'[p] = k /\ miss'[p] = miss[p] \ {k} /\ pc'[p] = "write"
            BY <1>t, <4>1 DEF Goto, Types
      <4> QED  BY <1>i, <4>1, <4>2 DEF MakesLocked
    <3>10. CASE Write(p) /\ ~ Forget(p)
          BY <1>t, <1>i, <3>10 DEF Write, Goto, disk, Types, MakesLocked
    <3>11. CASE Rename(p)
          BY <1>t, <1>i, <3>11 DEF Rename, Goto, Types, MakesLocked
    <3>12. CASE Lock(p)
          BY <1>t, <1>i, <3>12 DEF Lock, Goto, own, Types, MakesLocked
    <3> QED  BY <1>p, <3>f, <3>1, <3>2, <3>3, <3>4, <3>5, <3>6, <3>7, <3>8, <3>9, <3>10, <3>11,
                <3>12 DEF Step, Fail, Write, MakeNext
  <2>r. CASE Rename(p)
    <3>0. key[p] \in Key /\ key[p] \in locked[p] /\ pc[p] = "rename"
          BY <1>t, <1>i, <2>r DEF Rename, CInv, TInv, AtHand, AtKey, MakesLocked
    <3>1. /\ file' = [file EXCEPT ![key[p]] = data[p]] /\ UNCHANGED <<key, locked>>
          /\ pc' = [pc EXCEPT ![p] = "unlink"]
          BY <2>r, <3>0 DEF Rename, Goto
    <3>2. ASSUME NEW q \in Proc, NEW k \in Key, Protected(q, k)' PROVE file'[k] = "none"
      <4>1. Protected(q, k)
            BY <1>t, <3>0, <3>1, <3>2 DEF Types, Protected, Making
      <4>2. Protected(p, key[p])
            BY <3>0 DEF Protected, Making
      <4>3. k # key[p]
        <5>1. CASE q = p
              BY <1>t, <3>1, <3>2, <5>1 DEF Types, Protected, Making
        <5>2. CASE q # p
              BY <1>t, <4>1, <4>2, <5>2, OnlyProtector
        <5> QED  BY <5>1, <5>2
      <4> QED  BY <1>t, <1>i, <3>1, <4>1, <4>3 DEF Types, Fresh
    <3> QED  BY <2>o, <2>m, <3>2 DEF Fresh
  <2>n. CASE ~ Rename(p)
    <3>1. file' = file
          BY <1>p, <2>n DEF Request, Step, Lock, Fail, Forget, NextKey, Look, OpenLock,
             Recheck, LockThere, Unlink, CloseLock, MakeNext, Write, disk
    <3>2. ASSUME NEW q \in Proc, NEW k \in Key, Protected(q, k)'
          PROVE  Protected(q, k) \/ file[k] = "none"
      <4>1. CASE q # p
        <5>1. UNCHANGED <<pc[q], key[q], locked[q]>>
              BY <1>p, <1>t, <4>1 DEF Request, Step, Lock, Fail, Forget, NextKey, Look, OpenLock,
                 Recheck, LockThere, Unlink, CloseLock, Close, MakeNext, Write, Rename, Goto, disk, own, Types
        <5> QED  BY <3>2, <5>1 DEF Protected, Making
      <4>2. CASE q = p
        <5>f. CASE Forget(p)
              BY <1>t, <3>2, <4>2, <5>f DEF Forget, Goto, Types, Protected, Making
        <5>1. CASE Request(p)
              BY <1>t, <3>2, <4>2, <5>1 DEF Request, Goto, Types, Protected, Making
        <5>2. CASE NextKey(p)
              BY <1>t, <3>2, <4>2, <5>2 DEF NextKey, Goto, Types, Protected, Making
        <5>3. CASE Look(p)
              BY <1>t, <3>2, <4>2, <5>3 DEF Look, Goto, Types, Protected, Making
        <5>4. CASE OpenLock(p)
              BY <1>t, <3>2, <4>2, <5>4 DEF OpenLock, Goto, Types, Protected, Making
        <5>5. CASE Recheck(p)
              BY <1>t, <3>2, <4>2, <5>5 DEF Recheck, Goto, own, Types, Protected, Making
        <5>6. CASE LockThere(p)
          <6>1. CASE lck[key[p]] # 0
                BY <1>t, <3>2, <4>2, <5>6, <6>1 DEF LockThere, Goto, Types, Protected, Making
          <6>2. CASE ~ (lck[key[p]] # 0)
                BY <1>t, <3>2, <4>2, <5>6, <6>2 DEF LockThere, Goto, Types, Protected, Making
          <6> QED  BY <6>1, <6>2
        <5>7. CASE Unlink(p)
              BY <1>t, <3>2, <4>2, <5>7 DEF Unlink, Goto, own, Types, Protected, Making
        <5>8. CASE CloseLock(p)
              BY <1>t, <3>2, <4>2, <5>8 DEF CloseLock, Goto, Types, Protected, Making
        <5>9. CASE MakeNext(p) /\ ~ Forget(p)
              BY <1>t, <3>2, <4>2, <5>9 DEF MakeNext, Goto, Types, Protected, Making
        <5>10. CASE Write(p) /\ ~ Forget(p)
              BY <1>t, <3>2, <4>2, <5>10 DEF Write, Goto, Types, Protected, Making
        <5>12. CASE Lock(p)
              BY <1>t, <3>2, <4>2, <5>12 DEF Lock, Goto, own, Types, Protected, Making
        <5> QED  BY <1>p, <2>n, <5>f, <5>1, <5>2, <5>3, <5>4, <5>5, <5>6, <5>7, <5>8, <5>9, <5>10,
                    <5>12 DEF Step, Fail, Write, MakeNext
      <4> QED  BY <4>1, <4>2
    <3> QED  BY <1>i, <2>o, <2>m, <3>1, <3>2 DEF Fresh
  <2> QED  BY <2>r, <2>n
<1> QED  BY <1>0, <1>s, <1>p DEF Next

\* With locks enough for all change sets no process makes one that is in the
\* cache already: the second look, under the lock, is what those who waited and
\* those who come after a death rely on (LockedFile.open and commit).
THEOREM NothingMadeTwice ==
    ASSUME "sweepBeside" \notin Mishaps
    PROVE  Spec => []MadeOnce
<1>1. CInv /\ TInv' /\ [Next]_vars => CInv'
      BY NextLocal
<1>2. CInv => TInv
      BY DEF CInv
<1>3. MInv /\ CInv' /\ [Next]_vars => MInv'
      BY NextFresh
<1>4. MInv => CInv
      BY DEF MInv
<1>5. MInv => MadeOnce
  <2>1. \A p \in Proc : Making(p) \subseteq locked[p]
        BY DEF Making
  <2> QED  BY <2>1 DEF MInv, CInv, TInv, Types, Enough, Fresh, Protected, MadeOnce
<1> QED  BY <1>1, <1>2, <1>3, <1>4, <1>5, InitFresh, NextTypes, PTL DEF Spec
=============================================================================
