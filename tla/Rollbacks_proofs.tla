-------------------------- MODULE Rollbacks_proofs --------------------------
(***************************************************************************)
(* Proofs about the rollback stack, for any number of commands, troves,    *)
(* versions and rollbacks and for jobs of any length.                      *)
(*                                                                         *)
(* The types need that rmrollback is not run beside an update or a         *)
(* rollback; the rest that commands besides read the stack as it is when   *)
(* they read the counter.  No code sees to either.                         *)
(***************************************************************************)
EXTENDS Rollbacks, TLAPS

PCs == {"idle", "open", "ready", "back", "rm", "rmUnlist"} \cup Holding
Removing == {"rm", "rmUnlist"}
Status == (0..(MaxIndex + 1)) \X (-1..MaxIndex)
Pairs == UNION {[T -> Version \X Version] : T \in SUBSET Trove}
Dir == [count : -1..MaxHunk, repos : Seq(Pairs), local : Seq(SUBSET Trove)]

Types ==
    /\ sys \in System
    /\ counter \in 0..MaxCounter
    /\ status \in Status
    /\ dirs \in [Index -> Dir]
    /\ holder \in Proc \cup {NoProc}
    /\ pc \in [Proc -> PCs]
    /\ mem \in [Proc -> Status]
    /\ seen \in [Proc -> 0..MaxCounter]
    /\ todo \in [Proc -> 0..(MaxIndex + MaxHunk + 1)]
    /\ left \in [Proc -> -1..MaxHunk]
    /\ trail \in [Index -> Seq(System)]

\* The lock, which rmrollback keeps away from.
Locked ==
    /\ \A p \in Proc : pc[p] \in Holding <=> holder = p
    /\ \A p \in Proc : pc[p] \in Removing => holder = NoProc

\* A directory has no more pairs than a job has change sets.
Small ==
    \A k \in Index : Len(dirs[k].repos) <= MaxHunk /\ Len(dirs[k].local) <= MaxHunk

\* What an update still has to do fits into its directory.
Fits(p) ==
    \/ left[p] = -1 /\ mem[p][2] < MaxIndex /\ todo[p] <= MaxHunk
    \/ /\ pc[p] = "hunk" /\ left[p] = 0 /\ mem[p][2] \in Index
       /\ At(p).count + todo[p] <= MaxHunk
       /\ Len(At(p).repos) + todo[p] <= MaxHunk
       /\ Len(At(p).local) + todo[p] <= MaxHunk

\* How many pairs are left where a rollback is.
Pairwise(p) ==
    /\ pc[p] \in {"repos", "local", "unlink"} =>
         left[p] >= 1 /\ Len(At(p).repos) = left[p] /\ Len(At(p).local) = left[p]
    /\ pc[p] = "unlink2" =>
         left[p] >= 1 /\ Len(At(p).repos) = left[p] - 1 /\ Len(At(p).local) = left[p]
    /\ pc[p] = "truncate" =>
         left[p] >= 1 /\ Len(At(p).repos) = left[p] - 1 /\ Len(At(p).local) = left[p] - 1
    /\ pc[p] = "count" =>
         left[p] >= 0 /\ Len(At(p).repos) = left[p] /\ Len(At(p).local) = left[p]
    /\ pc[p] = "drop" => left[p] = 0 /\ Len(At(p).repos) = 0

\* A command is asked for no more rollbacks than it knows of.
Asked(p) ==
    /\ pc[p] \in {"back", "rlock", "rm"} \cup Undoing =>
         todo[p] <= mem[p][2] - mem[p][1] + 1
    /\ pc[p] \in Undoing \ {"load"} => todo[p] >= 1
    /\ pc[p] = "rmUnlist" => todo[p] <= mem[p][2] - mem[p][1]

Plans(p) ==
    /\ pc[p] \in {"ready", "ulock", "hunk"} => Fits(p)
    /\ Pairwise(p)
    /\ Asked(p)

TInv == Types /\ Locked /\ Small /\ \A p \in Proc : Plans(p)

-----------------------------------------------------------------------------
(* The types.                                                              *)

LEMMA Numbers ==
    /\ Index \subseteq Nat /\ 1 \in Version /\ MaxIndex \in Nat /\ MaxHunk \in Nat
    /\ MaxCounter \in Nat /\ <<0, -1>> \in Status
BY BoundsAssumption DEF Index, Version, Status

LEMMA StatusParts ==
    ASSUME NEW v \in Status
    PROVE  /\ v = <<v[1], v[2]>>
           /\ v[1] \in 0..(MaxIndex + 1) /\ v[2] \in -1..MaxIndex
           /\ v[1] \in Int /\ v[2] \in Int
BY Numbers DEF Status

LEMMA MissingDir ==
    /\ Missing \in Dir /\ Len(Missing.repos) = 0 /\ Len(Missing.local) = 0
    /\ Len(Missing.repos) <= MaxHunk /\ Len(Missing.local) <= MaxHunk
BY Numbers DEF Missing, Dir

LEMMA PairParts ==
    ASSUME NEW r \in Pairs
    PROVE  /\ DOMAIN r \subseteq Trove
           /\ \A t \in DOMAIN r : r[t][1] \in Version /\ r[t][2] \in Version
BY DEF Pairs

LEMMA InitTInv == Init => TInv
<1> SUFFICES ASSUME Init PROVE TInv
      OBVIOUS
<1>1. sys \in System
      BY Numbers DEF Init, System
<1>2. <<sys>> \in Seq(System)
      BY <1>1
<1>3. Types
  <2>1. pc \in [Proc -> PCs] /\ dirs \in [Index -> Dir] /\ mem \in [Proc -> Status]
        BY MissingDir, Numbers DEF Init, PCs
  <2>2. trail \in [Index -> Seq(System)]
        BY <1>2 DEF Init
  <2> QED  BY <1>1, <2>1, <2>2, Numbers DEF Init, Types
<1>4. Locked
      BY ProcIsNotNobody DEF Init, Locked, Holding, Undoing, Removing
<1>5. Small
      BY MissingDir, Numbers DEF Init, Small
<1>6. \A p \in Proc : Plans(p)
      BY DEF Init, Plans, Pairwise, Asked, Undoing
<1> QED  BY <1>3, <1>4, <1>5, <1>6 DEF TInv

\* The part of the state that belongs to one command.
Same(q) ==
    /\ pc'[q] = pc[q] /\ mem'[q] = mem[q] /\ seen'[q] = seen[q]
    /\ todo'[q] = todo[q] /\ left'[q] = left[q]

\* The plans of a command that does nothing are kept.
LEMMA OtherPlans ==
    ASSUME NEW q \in Proc, Plans(q), Same(q), pc[q] \in Holding => dirs' = dirs
    PROVE  Plans(q)'
<1>1. CASE pc[q] \in Holding
      BY <1>1 DEF Plans, Same, Fits, Pairwise, Asked, At
<1>2. CASE pc[q] \notin Holding
  <2>1. Fits(q) /\ pc[q] = "ready" => Fits(q)'
        BY DEF Fits, Same
  <2>2. Pairwise(q)'
        BY <1>2 DEF Pairwise, Same, Holding, Undoing
  <2>3. Asked(q)'
        BY DEF Asked, Same, Plans
  <2> QED  BY <1>2, <2>1, <2>2, <2>3 DEF Plans, Same, Holding, Undoing
<1> QED  BY <1>1, <1>2

\* What becomes of the rest when one command takes a step.
LEMMA StepTInv ==
    ASSUME TInv, NEW p \in Proc, Types', Small', Plans(p)',
           \A q \in Proc \ {p} : Same(q),
           \/ holder' = holder
           \/ holder = NoProc /\ holder' = p
           \/ holder = p /\ holder' = NoProc,
           pc'[p] \in Holding <=> holder' = p,
           pc'[p] \in Removing => holder' = NoProc,
           holder' = holder \/ (\A q \in Proc : pc[q] \notin Removing),
           dirs' = dirs \/ pc[p] \in Holding \cup Removing
    PROVE  TInv'
<1>1. \A q \in Proc \ {p} : pc[q] \in Holding => dirs' = dirs
      BY ProcIsNotNobody DEF TInv, Locked
<1>2. \A q \in Proc : Plans(q)'
      BY <1>1, OtherPlans DEF TInv
<1>3. ASSUME NEW q \in Proc
      PROVE  /\ pc'[q] \in Holding <=> holder' = q
             /\ pc'[q] \in Removing => holder' = NoProc
  <2>1. CASE q = p
        BY <2>1
  <2>2. CASE q # p
    <3>1. pc'[q] = pc[q]
          BY <2>2 DEF Same
    <3>2. holder' = q <=> holder = q
          BY <2>2, ProcIsNotNobody
    <3> QED  BY <3>1, <3>2 DEF TInv, Locked
  <2> QED  BY <2>1, <2>2
<1> QED  BY <1>2, <1>3 DEF TInv, Locked

\* Steps that leave the system and the stack alone.
Calm(p) ==
    \/ Open(p) \/ Leave(p) \/ AskUpdate(p) \/ AskRollback(p) \/ Lock(p)
    \/ CheckCounter(p) \/ UpdateDone(p) \/ Load(p) \/ RollbackDone(p)
    \/ AskRemove(p) \/ RemoveDone(p) \/ Fault(p) \/ Unlock(p) \/ Crash(p)

LEMMA CalmOwn ==
    ASSUME Types, NEW p \in Proc, Calm(p)
    PROVE  /\ UNCHANGED <<sys, counter, stack, trail>>
           /\ \A q \in Proc \ {p} : Same(q)
BY DEF Calm, Open, Leave, AskUpdate, AskRollback, Lock, CheckCounter, UpdateDone,
       Load, RollbackDone, AskRemove, RemoveDone, Fault, Unlock, Crash, Forget, Goto,
       Same, own, stack, Types

LEMMA ForgetTInv ==
    ASSUME TInv, NEW p \in Proc, Forget(p),
           UNCHANGED <<sys, counter, stack, trail>>,
           holder' = IF holder = p THEN NoProc ELSE holder
    PROVE  TInv'
<1>1. Types'
  <2>1. /\ pc' \in [Proc -> PCs] /\ mem' \in [Proc -> Status]
        BY Numbers DEF TInv, Types, Forget, Goto, PCs
  <2>2. /\ seen' \in [Proc -> 0..MaxCounter] /\ left' \in [Proc -> -1..MaxHunk]
        /\ todo' \in [Proc -> 0..(MaxIndex + MaxHunk + 1)]
        BY Numbers DEF TInv, Types, Forget
  <2> QED  BY <2>1, <2>2 DEF TInv, Types, stack
<1>2. pc'[p] = "idle" /\ \A q \in Proc \ {p} : Same(q)
      BY DEF TInv, Types, Forget, Goto, Same
<1>3. Small'
      BY DEF TInv, Small, stack
<1>4. Plans(p)'
      BY <1>2 DEF Plans, Pairwise, Asked, Undoing
<1>5. pc'[p] \notin Holding /\ pc'[p] \notin Removing
      BY <1>2 DEF Holding, Undoing, Removing
<1>6. /\ holder' # p
      /\ holder' = holder \/ (holder = p /\ holder' = NoProc)
      /\ holder' = holder \/ (\A q \in Proc : pc[q] \notin Removing)
      BY ProcIsNotNobody DEF TInv, Locked
<1> QED  BY <1>1, <1>2, <1>3, <1>4, <1>5, <1>6, StepTInv DEF stack

LEMMA CalmTInv ==
    ASSUME TInv, NEW p \in Proc, Calm(p), "rmBeside" \notin Mishaps
    PROVE  TInv'
<1>0. UNCHANGED <<sys, counter, stack, trail>> /\ \A q \in Proc \ {p} : Same(q)
      BY CalmOwn DEF TInv
<1>1. CASE Leave(p) \/ RemoveDone(p)
  <2>1. pc[p] \notin Holding
        BY <1>1 DEF Leave, RemoveDone, Holding, Undoing
  <2>2. Forget(p) /\ holder' = holder
        BY <1>1 DEF Leave, RemoveDone
  <2> QED  BY <1>0, <2>1, <2>2, ForgetTInv DEF TInv, Locked
<1>2. CASE Unlock(p) \/ Crash(p)
  <2>1. pc[p] = "finish" => holder = p
        BY DEF TInv, Locked, Holding
  <2> QED  BY <1>0, <1>2, <2>1, ForgetTInv DEF Unlock, Crash
<1>3. ASSUME Open(p) \/ AskUpdate(p) \/ AskRollback(p) \/ AskRemove(p) \/ Load(p)
             \/ Lock(p) \/ CheckCounter(p) \/ UpdateDone(p) \/ RollbackDone(p) \/ Fault(p)
      PROVE  TInv'
  <2>0. /\ counter \in 0..MaxCounter /\ status \in Status
        /\ mem[p][1] \in 0..(MaxIndex + 1) /\ mem[p][2] \in -1..MaxIndex
        /\ todo[p] \in 0..(MaxIndex + MaxHunk + 1) /\ Plans(p)
        BY StatusParts DEF TInv, Types
  <2>1. Types'
    <3>1. CASE Open(p)
          BY <1>0, <3>1 DEF Open, Goto, TInv, Types, PCs, stack
    <3>2. CASE AskUpdate(p)
      <4>1. PICK n \in 1..MaxHunk : todo' = [todo EXCEPT ![p] = n]
            BY <3>2 DEF AskUpdate
      <4>2. todo' \in [Proc -> 0..(MaxIndex + MaxHunk + 1)]
            BY <4>1, Numbers DEF TInv, Types
      <4>3. seen' \in [Proc -> 0..MaxCounter] /\ left' \in [Proc -> -1..MaxHunk]
            BY <3>2, Numbers DEF AskUpdate, TInv, Types
      <4>4. pc' \in [Proc -> PCs] /\ mem' = mem /\ holder' = holder
            BY <3>2 DEF AskUpdate, Goto, TInv, Types, PCs
      <4> QED  BY <1>0, <4>2, <4>3, <4>4 DEF TInv, Types, stack
    <3>3. CASE AskRollback(p) \/ AskRemove(p)
      <4>1. PICK n \in 1..(mem[p][2] - mem[p][1] + 1) : todo' = [todo EXCEPT ![p] = n]
            BY <3>3 DEF AskRollback, AskRemove
      <4>a. n \in 0..(MaxIndex + MaxHunk + 1)
            BY <2>0, <4>1, Numbers
      <4>2. todo' \in [Proc -> 0..(MaxIndex + MaxHunk + 1)]
            BY <4>1, <4>a DEF TInv, Types
      <4>3. seen' \in [Proc -> 0..MaxCounter] /\ left' = left
            BY <3>3 DEF AskRollback, AskRemove, TInv, Types
      <4>4. pc' \in [Proc -> PCs] /\ mem' = mem /\ holder' = holder
            BY <3>3 DEF AskRollback, AskRemove, Goto, TInv, Types, PCs
      <4> QED  BY <1>0, <4>2, <4>3, <4>4 DEF TInv, Types, stack
    <3>4. CASE Load(p)
      <4>0. pc[p] = "load" /\ todo[p] > 0
            BY <3>4 DEF Load
      <4>1. mem[p][2] \in Index
            BY <2>0, <4>0, Numbers DEF Plans, Asked, Undoing, Index
      <4>2. At(p).count \in -1..MaxHunk
            BY <4>1 DEF TInv, Types, At, Dir
      <4>3. left' \in [Proc -> -1..MaxHunk] /\ pc' \in [Proc -> PCs]
            BY <3>4, <4>2 DEF Load, Goto, TInv, Types, PCs, Holding, Undoing
      <4> QED  BY <1>0, <3>4, <4>3 DEF Load, TInv, Types, stack
    <3>5. CASE Lock(p) \/ CheckCounter(p) \/ UpdateDone(p) \/ RollbackDone(p) \/ Fault(p)
      <4>1. pc' \in [Proc -> PCs]
            BY <3>5 DEF Lock, CheckCounter, UpdateDone, RollbackDone, Fault, Goto,
                        TInv, Types, PCs, Holding, Undoing
      <4>2. holder' \in Proc \cup {NoProc} /\ UNCHANGED own
            BY <3>5 DEF Lock, CheckCounter, UpdateDone, RollbackDone, Fault, TInv, Types
      <4> QED  BY <1>0, <4>1, <4>2 DEF TInv, Types, stack, own
    <3> QED  BY <1>3, <3>1, <3>2, <3>3, <3>4, <3>5
  <2>2. Small'
        BY <1>0 DEF TInv, Small, stack
  <2>3. Plans(p)'
    <3>0. dirs' = dirs
          BY <1>0 DEF stack
    <3>1. CASE Open(p)
      <4>1. pc'[p] = "open"
            BY <3>1 DEF Open, Goto, TInv, Types
      <4> QED  BY <4>1 DEF Plans, Pairwise, Asked, Undoing
    <3>2. CASE AskUpdate(p)
      <4>1. pc'[p] = "ready" /\ left'[p] = -1 /\ mem' = mem /\ mem[p][2] < MaxIndex
            /\ todo'[p] <= MaxHunk
            BY <3>2, Numbers DEF AskUpdate, Goto, TInv, Types
      <4> QED  BY <4>1 DEF Plans, Fits, Pairwise, Asked, Undoing
    <3>3. CASE AskRollback(p) \/ AskRemove(p)
      <4>1. pc'[p] \in {"back", "rm"} /\ mem' = mem
            BY <3>3 DEF AskRollback, AskRemove, Goto, TInv, Types
      <4>2. todo'[p] <= mem[p][2] - mem[p][1] + 1
            BY <2>0, <3>3 DEF AskRollback, AskRemove, TInv, Types
      <4> QED  BY <4>1, <4>2 DEF Plans, Pairwise, Asked, Undoing
    <3>4. CASE Load(p)
      <4>0. /\ pc[p] = "load" /\ todo[p] > 0 /\ mem' = mem /\ todo' = todo
            /\ todo[p] <= mem[p][2] - mem[p][1] + 1
            BY <2>0, <3>4 DEF Load, Plans, Asked, Undoing
      <4>1. CASE pc'[p] = "finish"
            BY <4>1 DEF Plans, Pairwise, Asked, Undoing
      <4>2. CASE pc'[p] # "finish"
        <5>1. /\ pc'[p] = "repos" /\ left'[p] = At(p).count /\ At(p).count > 0
              /\ Len(At(p).repos) = At(p).count /\ Len(At(p).local) = At(p).count
              BY <3>4, <4>2 DEF Load, Goto, TInv, Types
        <5>2. At(p)' = At(p)
              BY <3>0, <4>0 DEF At
        <5>3. mem[p][2] \in Index
              BY <2>0, <4>0, Numbers DEF Index
        <5>4. At(p).count \in Int
              BY <5>3 DEF TInv, Types, At, Dir
        <5>5. Pairwise(p)'
              BY <5>1, <5>2, <5>4 DEF Pairwise
        <5>6. Asked(p)'
              BY <2>0, <4>0, <5>1 DEF Asked, Undoing
        <5> QED  BY <5>1, <5>5, <5>6 DEF Plans
      <4> QED  BY <4>1, <4>2
    <3>5. CASE Lock(p)
      <4>1. /\ pc[p] \in {"ready", "back"} /\ UNCHANGED own
            /\ pc'[p] = IF pc[p] = "ready" THEN "ulock" ELSE "rlock"
            BY <3>5 DEF Lock, Goto, TInv, Types
      <4>2. Fits(p) /\ pc[p] = "ready" => Fits(p)'
            BY <4>1 DEF Fits, own
      <4> QED  BY <2>0, <4>1, <4>2 DEF Plans, Pairwise, Asked, Undoing, own
    <3>6. CASE CheckCounter(p)
      <4>1. /\ pc[p] \in {"ulock", "rlock"} /\ UNCHANGED own
            /\ pc'[p] \in {"finish", IF pc[p] = "ulock" THEN "hunk" ELSE "load"}
            BY <3>6 DEF CheckCounter, Goto, TInv, Types
      <4>2. Fits(p) /\ pc[p] = "ulock" => Fits(p)'
            BY <4>1 DEF Fits, own
      <4> QED  BY <2>0, <4>1, <4>2 DEF Plans, Pairwise, Asked, Undoing, own
    <3>7. CASE UpdateDone(p) \/ RollbackDone(p) \/ Fault(p)
      <4>1. pc'[p] = "finish"
            BY <3>7 DEF UpdateDone, RollbackDone, Fault, Goto, TInv, Types
      <4> QED  BY <4>1 DEF Plans, Pairwise, Asked, Undoing
    <3> QED  BY <1>3, <3>1, <3>2, <3>3, <3>4, <3>5, <3>6, <3>7
  <2>4. CASE Lock(p)
    <3>1. /\ holder = NoProc /\ holder' = p /\ pc'[p] \in Holding
          /\ pc'[p] \notin Removing
          /\ \A q \in Proc : pc[q] \notin Removing
          BY <2>4 DEF Lock, Goto, TInv, Types, Holding, Removing
    <3> QED  BY <1>0, <2>1, <2>2, <2>3, <3>1, StepTInv DEF stack
  <2>5. CASE ~ Lock(p)
    <3>1. holder' = holder
          BY <1>3, <2>5 DEF Open, AskUpdate, AskRollback, AskRemove, Load, CheckCounter,
                            UpdateDone, RollbackDone, Fault
    <3>2. pc'[p] \in Holding <=> pc[p] \in Holding
          BY <1>3, <2>5 DEF Open, AskUpdate, AskRollback, AskRemove, Load, CheckCounter,
                            UpdateDone, RollbackDone, Fault, Goto, TInv, Types, Holding,
                            Undoing
    <3>3. pc'[p] \in Removing => holder = NoProc
          BY <1>3, <2>5 DEF Open, AskUpdate, AskRollback, AskRemove, Load, CheckCounter,
                            UpdateDone, RollbackDone, Fault, Goto, TInv, Types, Removing
    <3>4. pc'[p] \in Holding <=> holder' = p
          BY <3>1, <3>2 DEF TInv, Locked
    <3> QED  BY <1>0, <2>1, <2>2, <2>3, <3>1, <3>3, <3>4, StepTInv DEF stack
  <2> QED  BY <2>4, <2>5
<1> QED  BY <1>1, <1>2, <1>3 DEF Calm

-----------------------------------------------------------------------------
\* Where a change set puts its pair, and what is there before.
HunkAt(p) == IF left[p] = -1 THEN mem[p][2] + 1 ELSE mem[p][2]
HunkDir(p) == IF left[p] = -1 THEN [Missing EXCEPT !.count = 0] ELSE dirs[HunkAt(p)]

\* A change set of troves T that go to the versions new.
HunkWith(p, T, new, first) ==
    /\ \A t \in T : new[t] # sys.ver[t]
    /\ dirs' = [dirs EXCEPT ![HunkAt(p)] =
                  [count |-> HunkDir(p).count + 1,
                   repos |-> Append(HunkDir(p).repos, ReposPart(T, new)),
                   local |-> Append(HunkDir(p).local, LocalPart(T))]]
    /\ sys' = [ver |-> [t \in Trove |-> IF t \in T THEN new[t] ELSE sys.ver[t]],
               local |-> sys.local \ T]
    /\ trail' = [trail EXCEPT ![HunkAt(p)] = IF left[p] = -1 THEN <<sys>>
                                             ELSE Append(@, sys)]
    /\ first \in {mem[p][1], HunkAt(p) + 1}
    /\ mem' = [mem EXCEPT ![p] = <<first, HunkAt(p)>>]

LEMMA HunkParts ==
    ASSUME NEW p \in Proc, Hunk(p)
    PROVE  \E T \in (SUBSET Trove) \ {{}} : \E new \in [T -> Version] :
             \E first : HunkWith(p, T, new, first)
<1>1. PICK T \in (SUBSET Trove) \ {{}} : \E new \in [T -> Version] :
             /\ \A t \in T : new[t] # sys.ver[t]
             /\ dirs' = [dirs EXCEPT ![HunkAt(p)] =
                  [count |-> HunkDir(p).count + 1,
                   repos |-> Append(HunkDir(p).repos, ReposPart(T, new)),
                   local |-> Append(HunkDir(p).local, LocalPart(T))]]
             /\ sys' = [ver |-> [t \in Trove |-> IF t \in T THEN new[t] ELSE sys.ver[t]],
                        local |-> sys.local \ T]
             /\ trail' = [trail EXCEPT ![HunkAt(p)] = IF left[p] = -1 THEN <<sys>>
                                                      ELSE Append(@, sys)]
             /\ \E first \in {mem[p][1], HunkAt(p) + 1} :
                    mem' = [mem EXCEPT ![p] = <<first, HunkAt(p)>>]
      BY DEF Hunk, HunkAt, HunkDir
<1>2. PICK new \in [T -> Version], first \in {mem[p][1], HunkAt(p) + 1} :
             /\ \A t \in T : new[t] # sys.ver[t]
             /\ dirs' = [dirs EXCEPT ![HunkAt(p)] =
                  [count |-> HunkDir(p).count + 1,
                   repos |-> Append(HunkDir(p).repos, ReposPart(T, new)),
                   local |-> Append(HunkDir(p).local, LocalPart(T))]]
             /\ sys' = [ver |-> [t \in Trove |-> IF t \in T THEN new[t] ELSE sys.ver[t]],
                        local |-> sys.local \ T]
             /\ trail' = [trail EXCEPT ![HunkAt(p)] = IF left[p] = -1 THEN <<sys>>
                                                      ELSE Append(@, sys)]
             /\ mem' = [mem EXCEPT ![p] = <<first, HunkAt(p)>>]
      BY <1>1
<1>3. HunkWith(p, T, new, first)
      BY <1>2 DEF HunkWith
<1> QED  BY <1>3

LEMMA PairOf ==
    ASSUME sys \in System, NEW T \in SUBSET Trove, NEW new \in [T -> Version]
    PROVE  /\ ReposPart(T, new) \in Pairs /\ DOMAIN ReposPart(T, new) = T
           /\ \A t \in T : ReposPart(T, new)[t][1] = sys.ver[t]
                           /\ ReposPart(T, new)[t][2] = new[t]
           /\ LocalPart(T) \in SUBSET Trove
<1>1. ReposPart(T, new) \in [T -> Version \X Version]
      BY DEF ReposPart, System
<1>2. ReposPart(T, new) \in Pairs
      BY <1>1 DEF Pairs
<1> QED  BY <1>2 DEF ReposPart, LocalPart, System

\* Where the change set goes, and how many pairs there are before it.
LEMMA HunkRoom ==
    ASSUME TInv, NEW p \in Proc, Hunk(p)
    PROVE  /\ HunkAt(p) \in Index /\ HunkDir(p) \in Dir /\ holder = p
           /\ todo[p] \in Nat /\ todo[p] > 0 /\ HunkDir(p).count + todo[p] <= MaxHunk
           /\ Len(HunkDir(p).repos) \in Nat /\ Len(HunkDir(p).local) \in Nat
           /\ Len(HunkDir(p).repos) + todo[p] <= MaxHunk
           /\ Len(HunkDir(p).local) + todo[p] <= MaxHunk
           /\ left[p] \in {-1, 0}
<1>1. pc[p] = "hunk" /\ todo[p] > 0 /\ todo[p] \in Nat /\ Fits(p)
      BY DEF Hunk, TInv, Plans, Types
<1>2. holder = p
      BY <1>1 DEF TInv, Locked, Holding
<1>3. mem[p][2] \in -1..MaxIndex /\ mem[p][2] \in Int
      BY StatusParts DEF TInv, Types
<1>4. CASE left[p] = -1
  <2>1. HunkAt(p) \in Index
        BY <1>1, <1>3, <1>4, Numbers DEF HunkAt, Fits, Index
  <2>2. HunkDir(p) = [count |-> 0, repos |-> <<>>, local |-> <<>>]
        BY <1>4 DEF HunkDir, Missing
  <2>3. HunkDir(p) \in Dir
        BY <2>2, Numbers DEF Dir
  <2>4. todo[p] <= MaxHunk
        BY <1>1, <1>4 DEF Fits
  <2> QED  BY <1>1, <1>2, <1>4, <2>1, <2>2, <2>3, <2>4, Numbers
<1>5. CASE left[p] # -1
  <2>1. /\ mem[p][2] \in Index /\ left[p] = 0
        /\ At(p).count + todo[p] <= MaxHunk
        /\ Len(At(p).repos) + todo[p] <= MaxHunk
        /\ Len(At(p).local) + todo[p] <= MaxHunk
        BY <1>1, <1>5 DEF Fits
  <2>2. HunkAt(p) = mem[p][2] /\ HunkDir(p) = At(p)
        BY <1>5 DEF HunkAt, HunkDir, At
  <2>3. At(p) \in Dir
        BY <2>1 DEF TInv, Types, At
  <2>4. Len(At(p).repos) \in Nat /\ Len(At(p).local) \in Nat
        BY <2>3 DEF Dir
  <2> QED  BY <1>1, <1>2, <2>1, <2>2, <2>3, <2>4
<1> QED  BY <1>4, <1>5

LEMMA HunkTInv ==
    ASSUME TInv, NEW p \in Proc, Hunk(p)
    PROVE  TInv'
<1>0. PICK T \in (SUBSET Trove) \ {{}} : \E new \in [T -> Version] :
             \E first : HunkWith(p, T, new, first)
      BY HunkParts
<1>a. PICK new \in [T -> Version] : \E first : HunkWith(p, T, new, first)
      BY <1>0
<1>1. PICK first : HunkWith(p, T, new, first)
      BY <1>a
<1> DEFINE k == HunkAt(p)
           d == HunkDir(p)
           e == [count |-> d.count + 1, repos |-> Append(d.repos, ReposPart(T, new)),
                 local |-> Append(d.local, LocalPart(T))]
<1>2. /\ k \in Index /\ k \in Nat /\ k <= MaxIndex /\ d \in Dir /\ holder = p
      /\ todo[p] \in Nat /\ todo[p] > 0
      /\ d.count + todo[p] <= MaxHunk
      /\ Len(d.repos) \in Nat /\ Len(d.local) \in Nat
      /\ Len(d.repos) + todo[p] <= MaxHunk /\ Len(d.local) + todo[p] <= MaxHunk
      BY HunkRoom, Numbers DEF Index
<1>3. /\ d.repos \in Seq(Pairs) /\ d.local \in Seq(SUBSET Trove) /\ d.count \in -1..MaxHunk
      BY <1>2 DEF Dir
<1>4. ReposPart(T, new) \in Pairs /\ LocalPart(T) \in SUBSET Trove
      BY PairOf DEF TInv, Types
<1>5. e.repos \in Seq(Pairs) /\ Len(e.repos) = Len(d.repos) + 1
      BY <1>3, <1>4
<1>6. e.local \in Seq(SUBSET Trove) /\ Len(e.local) = Len(d.local) + 1
      BY <1>3, <1>4
<1>7. e.count = d.count + 1 /\ e.count \in -1..MaxHunk
  <2>1. /\ d.count \in Int /\ d.count >= -1 /\ MaxHunk \in Nat
        /\ todo[p] \in Nat /\ todo[p] > 0 /\ d.count + todo[p] <= MaxHunk
        BY <1>2, <1>3, Numbers
  <2>2. e.count = d.count + 1
        OBVIOUS
  <2> HIDE DEF d, e
  <2>3. d.count + 1 \in -1..MaxHunk
        BY <2>1
  <2> QED  BY <2>2, <2>3
<1>8. e \in Dir
      BY <1>5, <1>6, <1>7 DEF Dir
<1> HIDE DEF e, d, k
<1>9. dirs' = [dirs EXCEPT ![k] = e]
      BY <1>1 DEF HunkWith, e, d, k
<1>10. /\ mem' = [mem EXCEPT ![p] = <<first, k>>] /\ <<first, k>> \in Status
  <2>0. mem[p][1] \in 0..(MaxIndex + 1)
        BY StatusParts DEF TInv, Types
  <2>2. k + 1 \in 0..(MaxIndex + 1)
        BY <1>2, Numbers
  <2>1. first \in 0..(MaxIndex + 1)
        BY <1>1, <2>0, <2>2 DEF HunkWith, k
  <2> QED  BY <1>1, <1>2, <2>1, Numbers DEF HunkWith, Status, k
<1>11. /\ status' = mem'[p] /\ counter < MaxCounter /\ counter' = counter + 1
       /\ todo' = [todo EXCEPT ![p] = @ - 1] /\ left' = [left EXCEPT ![p] = 0]
       /\ pc[p] = "hunk" /\ UNCHANGED <<holder, pc, seen>>
      BY DEF Hunk
<1>12. Types'
  <2>1. sys' \in System
    <3>1. sys' = [ver |-> [t \in Trove |-> IF t \in T THEN new[t] ELSE sys.ver[t]],
                  local |-> sys.local \ T]
          BY <1>1 DEF HunkWith
    <3> QED  BY <3>1 DEF TInv, Types, System
  <2>2. dirs' \in [Index -> Dir] /\ mem' \in [Proc -> Status] /\ status' \in Status
        BY <1>2, <1>8, <1>9, <1>10, <1>11 DEF TInv, Types
  <2>3. trail' \in [Index -> Seq(System)]
    <3>1. <<sys>> \in Seq(System) /\ Append(trail[k], sys) \in Seq(System)
          BY <1>2 DEF TInv, Types
    <3> QED  BY <1>1, <1>2, <3>1 DEF TInv, Types, HunkWith, k
  <2>4. todo' \in [Proc -> 0..(MaxIndex + MaxHunk + 1)]
    <3>1. todo[p] - 1 \in 0..(MaxIndex + MaxHunk + 1)
          BY <1>2, Numbers DEF TInv, Types
    <3> QED  BY <1>11, <3>1 DEF TInv, Types
  <2>5. left' \in [Proc -> -1..MaxHunk] /\ counter' \in 0..MaxCounter
        BY <1>11, Numbers DEF TInv, Types
  <2> QED  BY <1>11, <2>1, <2>2, <2>3, <2>4, <2>5 DEF TInv, Types
<1>13. dirs'[k] = e /\ \A j \in Index \ {k} : dirs'[j] = dirs[j]
      BY <1>2, <1>9 DEF TInv, Types
<1>14. Small'
  <2>1. Len(e.repos) <= MaxHunk /\ Len(e.local) <= MaxHunk
        BY <1>2, <1>5, <1>6, Numbers
  <2> QED  BY <1>13, <2>1 DEF TInv, Small
<1>15. mem'[p] = <<first, k>> /\ todo'[p] = todo[p] - 1 /\ left'[p] = 0 /\ pc'[p] = "hunk"
      BY <1>10, <1>11 DEF TInv, Types
<1>16. At(p)' = e
      BY <1>13, <1>15 DEF At
<1>17. Fits(p)'
  <2>1. /\ e.count + (todo[p] - 1) <= MaxHunk
        /\ Len(e.repos) + (todo[p] - 1) <= MaxHunk
        /\ Len(e.local) + (todo[p] - 1) <= MaxHunk
    <3>1. /\ d.count \in Int /\ todo[p] \in Int /\ MaxHunk \in Int
          /\ Len(d.repos) \in Int /\ Len(d.local) \in Int
          BY <1>2, <1>3, Numbers
    <3>2. \A a, b, c \in Int : a + b <= c => (a + 1) + (b - 1) <= c
          OBVIOUS
    <3>3. /\ d.count + todo[p] <= MaxHunk /\ Len(d.repos) + todo[p] <= MaxHunk
          /\ Len(d.local) + todo[p] <= MaxHunk
          BY <1>2
    <3>4. /\ (d.count + 1) + (todo[p] - 1) <= MaxHunk
          /\ (Len(d.repos) + 1) + (todo[p] - 1) <= MaxHunk
          /\ (Len(d.local) + 1) + (todo[p] - 1) <= MaxHunk
          BY <3>1, <3>2, <3>3
    <3>5. /\ e.count = d.count + 1 /\ Len(e.repos) = Len(d.repos) + 1
          /\ Len(e.local) = Len(d.local) + 1
          BY <1>5, <1>6, <1>7
    <3> QED  BY <3>4, <3>5
  <2>2. mem'[p][2] \in Index
        BY <1>2, <1>15
  <2> QED  BY <1>15, <1>16, <2>1, <2>2 DEF Fits
<1>18. Plans(p)'
      BY <1>15, <1>17 DEF Plans, Pairwise, Asked, Undoing
<1>19. /\ \A q \in Proc \ {p} : Same(q)
       /\ holder' = holder /\ pc'[p] \in Holding /\ pc[p] \in Holding
       /\ pc'[p] \notin Removing
      BY <1>10, <1>11 DEF Same, Holding, Removing, TInv, Types
<1> QED  BY <1>2, <1>12, <1>14, <1>18, <1>19, StepTInv

-----------------------------------------------------------------------------
\* Where a rollback is.
LEMMA UndoingAt ==
    ASSUME TInv, NEW p \in Proc, pc[p] \in Undoing \ {"load"}
    PROVE  /\ mem[p][2] \in Index /\ mem[p][2] \in Int /\ mem[p][1] \in Int
           /\ mem[p][1] >= 0 /\ mem[p][1] <= mem[p][2]
           /\ todo[p] \in Int /\ todo[p] >= 1 /\ todo[p] <= mem[p][2] - mem[p][1] + 1
           /\ left[p] \in Int /\ left[p] <= MaxHunk
           /\ At(p) \in Dir /\ At(p).repos \in Seq(Pairs)
           /\ At(p).local \in Seq(SUBSET Trove)
           /\ Len(At(p).repos) \in Nat /\ Len(At(p).local) \in Nat
           /\ holder = p /\ Plans(p)
           /\ \A q \in Proc \ {p} : pc[q] \notin Holding \cup Removing
<1>1. /\ mem[p][1] \in 0..(MaxIndex + 1) /\ mem[p][2] \in -1..MaxIndex
      /\ todo[p] \in Int /\ left[p] \in -1..MaxHunk /\ Plans(p)
      BY StatusParts DEF TInv, Types
<1>2. todo[p] >= 1 /\ todo[p] <= mem[p][2] - mem[p][1] + 1
      BY <1>1 DEF Plans, Asked
<1>3. /\ mem[p][2] \in Int /\ mem[p][1] \in Int /\ mem[p][1] >= 0
      /\ mem[p][2] <= MaxIndex /\ left[p] \in Int /\ left[p] <= MaxHunk
      BY <1>1, Numbers
<1>4. mem[p][1] <= mem[p][2]
      BY <1>1, <1>2, <1>3
<1>5. mem[p][2] \in Index
      BY <1>3, <1>4, Numbers DEF Index
<1>6. At(p) \in Dir
      BY <1>5 DEF TInv, Types, At
<1>7. At(p).repos \in Seq(Pairs) /\ At(p).local \in Seq(SUBSET Trove)
      BY <1>6 DEF Dir
<1>8. Len(At(p).repos) \in Nat /\ Len(At(p).local) \in Nat
      BY <1>7
<1>9. holder = p /\ p # NoProc
      BY ProcIsNotNobody DEF TInv, Locked, Holding
<1>10. \A q \in Proc \ {p} : pc[q] \notin Holding \cup Removing
      BY <1>9 DEF TInv, Locked
<1> QED  BY <1>1, <1>2, <1>3, <1>4, <1>5, <1>6, <1>7, <1>8, <1>9, <1>10

\* A step of a rollback that stays under the lock.
LEMMA UndoTInv ==
    ASSUME TInv, NEW p \in Proc, pc[p] \in Undoing \ {"load"}, holder' = holder,
           pc'[p] \in Holding, Types', Small', Plans(p)',
           \A q \in Proc \ {p} : Same(q)
    PROVE  TInv'
<1>1. holder = p /\ pc[p] \in Holding /\ pc'[p] \notin Removing
      BY UndoingAt DEF Holding, Undoing, Removing
<1> QED  BY <1>1, StepTInv

LEMMA BackType ==
    ASSUME NEW s \in System, NEW r \in Pairs, NEW l \in SUBSET Trove
    PROVE  Back(s, r) \in System /\ [s EXCEPT !.local = @ \cup l] \in System
BY PairParts DEF Back, System

LEMMA PhaseTInv ==
    ASSUME TInv, NEW p \in Proc, ReposPhase(p) \/ LocalPhase(p)
    PROVE  TInv'
<1>1. pc[p] \in {"repos", "local"} /\ pc[p] \in Undoing \ {"load"}
      BY DEF ReposPhase, LocalPhase, Undoing
<1>2. /\ left[p] >= 1 /\ Len(At(p).repos) = left[p] /\ Len(At(p).local) = left[p]
      BY <1>1, UndoingAt DEF Plans, Pairwise
<1>3. At(p).repos[left[p]] \in Pairs /\ At(p).local[left[p]] \in SUBSET Trove
      BY <1>1, <1>2, UndoingAt
<1>4. /\ UNCHANGED <<stack, holder, own, trail>> /\ counter < MaxCounter
      /\ counter' \in {counter, counter + 1} /\ pc' = [pc EXCEPT ![p] = pc'[p]]
      /\ pc'[p] \in {"finish", "local", "unlink"}
      /\ pc'[p] = "local" => pc[p] = "repos"
      BY DEF ReposPhase, LocalPhase, Goto, TInv, Types
<1>5. sys' \in System
      BY <1>3, BackType DEF ReposPhase, LocalPhase, TInv, Types
<1>6. Types'
  <2>1. pc' \in [Proc -> PCs]
        BY <1>4 DEF TInv, Types, PCs, Holding, Undoing
  <2>2. counter' \in 0..MaxCounter
    <3>1. counter \in 0..MaxCounter /\ counter < MaxCounter
          BY <1>4 DEF TInv, Types
    <3>2. counter' = counter \/ counter' = counter + 1
          BY <1>4
    <3> QED  BY <3>1, <3>2, Numbers
  <2> QED  BY <1>4, <1>5, <2>1, <2>2 DEF TInv, Types, stack, own
<1>7. Small' /\ At(p)' = At(p) /\ \A q \in Proc \ {p} : Same(q)
      BY <1>4 DEF TInv, Types, Small, stack, own, At, Same
<1>8. Plans(p)'
  <2>1. Pairwise(p)'
        BY <1>2, <1>4, <1>7 DEF Pairwise, own
  <2>2. Asked(p)'
        BY <1>1, <1>4, UndoingAt DEF Asked, own, Undoing
  <2> QED  BY <1>4, <2>1, <2>2 DEF Plans
<1>9. pc'[p] \in Holding
      BY <1>4 DEF Holding, Undoing
<1> QED  BY <1>1, <1>4, <1>6, <1>7, <1>8, <1>9, UndoTInv

\* The first pairs of a directory.
LEMMA Shorter ==
    ASSUME NEW S, NEW s \in Seq(S), NEW n \in Nat, n <= Len(s)
    PROVE  /\ SubSeq(s, 1, n) \in Seq(S) /\ Len(SubSeq(s, 1, n)) = n
           /\ \A i \in 1..n : SubSeq(s, 1, n)[i] = s[i]
OBVIOUS

\* Another content of a directory.
LEMMA DirTypes ==
    ASSUME Types, Small, NEW k \in Index, NEW e \in Dir,
           Len(e.repos) <= MaxHunk, Len(e.local) <= MaxHunk,
           dirs' = [dirs EXCEPT ![k] = e]
    PROVE  /\ dirs' \in [Index -> Dir] /\ Small' /\ dirs'[k] = e
           /\ \A j \in Index \ {k} : dirs'[j] = dirs[j]
<1>1. dirs' \in [Index -> Dir] /\ dirs'[k] = e /\ \A j \in Index \ {k} : dirs'[j] = dirs[j]
      BY DEF Types
<1> QED  BY <1>1 DEF Small

LEMMA UnlinkTInv ==
    ASSUME TInv, NEW p \in Proc, UnlinkRepos(p) \/ UnlinkLocal(p)
    PROVE  TInv'
<1> DEFINE k == mem[p][2]
           r == SubSeq(At(p).repos, 1, left[p] - 1)
           l == SubSeq(At(p).local, 1, left[p] - 1)
           e == IF pc[p] = "unlink" THEN [At(p) EXCEPT !.repos = r]
                ELSE [At(p) EXCEPT !.local = l]
<1>1. pc[p] \in {"unlink", "unlink2"} /\ pc[p] \in Undoing \ {"load"}
      BY DEF UnlinkRepos, UnlinkLocal, Undoing
<1>2. /\ left[p] - 1 \in Nat /\ left[p] - 1 <= Len(At(p).repos)
      /\ left[p] \in Nat /\ Len(At(p).local) = left[p]
      /\ left[p] - 1 <= Len(At(p).local) /\ left[p] - 1 <= MaxHunk /\ left[p] <= MaxHunk
      /\ pc[p] = "unlink2" => Len(At(p).repos) = left[p] - 1
      BY <1>1, UndoingAt, Numbers DEF Plans, Pairwise
<1>3. r \in Seq(Pairs) /\ Len(r) = left[p] - 1
      BY <1>1, <1>2, UndoingAt, Shorter
<1>4. l \in Seq(SUBSET Trove) /\ Len(l) = left[p] - 1
      BY <1>1, <1>2, UndoingAt, Shorter
<1>5. k \in Index /\ At(p) \in Dir /\ At(p) = dirs[k]
      BY <1>1, UndoingAt DEF At
<1>6. /\ dirs' = [dirs EXCEPT ![k] = e]
      /\ UNCHANGED <<sys, counter, status, holder, own, trail>>
      /\ pc' = [pc EXCEPT ![p] = IF pc[p] = "unlink" THEN "unlink2" ELSE "truncate"]
      BY DEF UnlinkRepos, UnlinkLocal, Goto, At
<1> HIDE DEF r, l
<1>7. /\ e \in Dir
      /\ pc[p] = "unlink" => e.repos = r /\ e.local = At(p).local
      /\ pc[p] = "unlink2" => e.repos = At(p).repos /\ e.local = l
      BY <1>1, <1>3, <1>4, <1>5 DEF Dir
<1>8. Len(e.repos) = left[p] - 1 /\ Len(e.local) = IF pc[p] = "unlink" THEN left[p] ELSE left[p] - 1
      BY <1>1, <1>2, <1>3, <1>4, <1>7
<1> HIDE DEF e, k
<1>9. Len(e.repos) <= MaxHunk /\ Len(e.local) <= MaxHunk
      BY <1>2, <1>8
<1>10. dirs' \in [Index -> Dir] /\ Small' /\ dirs'[k] = e
      BY <1>5, <1>6, <1>7, <1>9, DirTypes DEF TInv
<1>11. Types'
  <2>1. pc' \in [Proc -> PCs]
        BY <1>6 DEF TInv, Types, PCs, Holding, Undoing
  <2> QED  BY <1>6, <1>10, <2>1 DEF TInv, Types, own
<1>12. /\ At(p)' = e /\ left'[p] = left[p]
       /\ pc'[p] = IF pc[p] = "unlink" THEN "unlink2" ELSE "truncate"
      BY <1>6, <1>10 DEF At, own, k, TInv, Types
<1>13. Plans(p)'
  <2>1. Pairwise(p)'
    <3>1. left[p] >= 1
          BY <1>2
    <3> QED  BY <1>1, <1>8, <1>12, <3>1 DEF Pairwise
  <2>2. Asked(p)'
        BY <1>1, <1>6, <1>12, UndoingAt DEF Asked, own, Undoing
  <2> QED  BY <1>12, <2>1, <2>2 DEF Plans
<1>14. pc'[p] \in Holding /\ holder' = holder /\ \A q \in Proc \ {p} : Same(q)
      BY <1>6 DEF Holding, Undoing, Same, own, TInv, Types
<1> QED  BY <1>1, <1>10, <1>11, <1>13, <1>14, UndoTInv

LEMMA CountTInv ==
    ASSUME TInv, NEW p \in Proc, Truncate(p) \/ WriteCount(p)
    PROVE  TInv'
<1> DEFINE k == mem[p][2]
           c == IF pc[p] = "truncate" THEN -1 ELSE left[p]
           e == [At(p) EXCEPT !.count = c]
           m == IF pc[p] = "truncate" THEN left[p] - 1 ELSE left[p]
           next == IF pc[p] = "truncate" THEN "count"
                   ELSE IF left[p] > 0 THEN "repos" ELSE "drop"
<1>1. pc[p] \in {"truncate", "count"} /\ pc[p] \in Undoing \ {"load"}
      BY DEF Truncate, WriteCount, Undoing
<1>2. /\ m \in Nat /\ m <= MaxHunk /\ Len(At(p).repos) = m /\ Len(At(p).local) = m
      /\ c \in -1..MaxHunk /\ m \in -1..MaxHunk
      BY <1>1, UndoingAt, Numbers DEF Plans, Pairwise
<1>3. k \in Index /\ At(p) \in Dir /\ At(p) = dirs[k]
      BY <1>1, UndoingAt DEF At
<1>4. /\ dirs' = [dirs EXCEPT ![k] = e]
      /\ UNCHANGED <<sys, counter, status, holder, mem, seen, todo, trail>>
      /\ pc' = [pc EXCEPT ![p] = next]
  <2>1. CASE Truncate(p)
        BY <2>1 DEF Truncate, Goto, At
  <2>2. CASE WriteCount(p)
        BY <2>2 DEF WriteCount, Goto, At, own
  <2> QED  BY <2>1, <2>2
<1>5. left' \in [Proc -> -1..MaxHunk] /\ left'[p] = m /\ \A q \in Proc \ {p} : left'[q] = left[q]
  <2>1. left' = [left EXCEPT ![p] = m]
    <3>1. left \in [Proc -> -1..MaxHunk]
          BY DEF TInv, Types
    <3>2. CASE Truncate(p)
          BY <3>1, <3>2 DEF Truncate
    <3>3. CASE WriteCount(p)
          BY <3>1, <3>3 DEF WriteCount, Goto, own
    <3> QED  BY <3>2, <3>3
  <2>2. left \in [Proc -> -1..MaxHunk] /\ m \in -1..MaxHunk
        BY <1>2 DEF TInv, Types
  <2> HIDE DEF m
  <2> QED  BY <2>1, <2>2
<1>6. e \in Dir /\ e.repos = At(p).repos /\ e.local = At(p).local
      BY <1>2, <1>3 DEF Dir
<1>p. next \in {"count", "repos", "drop"} /\ (next = "repos" => m > 0) /\ (next = "drop" => m = 0)
      BY <1>1, <1>2
<1> HIDE DEF c, e, k, m, next
<1>7. dirs' \in [Index -> Dir] /\ Small' /\ dirs'[k] = e
      BY <1>2, <1>3, <1>4, <1>6, DirTypes DEF TInv
<1>8. pc'[p] = next /\ pc' \in [Proc -> PCs]
      BY <1>p, <1>4 DEF TInv, Types, PCs, Holding, Undoing
<1>9. Types'
      BY <1>4, <1>5, <1>7, <1>8 DEF TInv, Types
<1>10. At(p)' = e
      BY <1>4, <1>7 DEF At, k
<1>11. Plans(p)'
  <2>1. Pairwise(p)'
    <3>1. /\ Len(At(p).repos)' = m /\ Len(At(p).local)' = m /\ left'[p] = m /\ m >= 0
          /\ pc'[p] \in {"count", "repos", "drop"}
          /\ (pc'[p] = "repos" => m >= 1) /\ (pc'[p] = "drop" => m = 0)
          BY <1>p, <1>2, <1>5, <1>6, <1>8, <1>10
    <3> QED  BY <3>1 DEF Pairwise
  <2>2. Asked(p)'
        BY <1>p, <1>1, <1>4, <1>8, UndoingAt DEF Asked, Undoing
  <2> QED  BY <1>p, <1>8, <2>1, <2>2 DEF Plans
<1>12. pc'[p] \in Holding /\ holder' = holder /\ \A q \in Proc \ {p} : Same(q)
      BY <1>p, <1>4, <1>5, <1>8 DEF Holding, Undoing, Same, TInv, Types
<1> QED  BY <1>1, <1>7, <1>9, <1>11, <1>12, UndoTInv

LEMMA DropTInv ==
    ASSUME TInv, NEW p \in Proc, Drop(p) \/ Unlist(p)
    PROVE  TInv'
<1>1. pc[p] \in {"drop", "unlist"} /\ pc[p] \in Undoing \ {"load"}
      BY DEF Drop, Unlist, Undoing
<1>2. CASE Drop(p)
  <2>1. /\ dirs' = [dirs EXCEPT ![mem[p][2]] = Missing] /\ pc' = [pc EXCEPT ![p] = "unlist"]
        /\ UNCHANGED <<sys, counter, status, holder, own, trail>>
        BY <1>2 DEF Drop, Goto
  <2>2. dirs' \in [Index -> Dir] /\ Small'
        BY <1>1, <2>1, UndoingAt, MissingDir, DirTypes, Numbers DEF TInv
  <2>3. pc' \in [Proc -> PCs] /\ pc'[p] = "unlist"
        BY <2>1 DEF TInv, Types, PCs, Holding, Undoing
  <2>4. Types'
        BY <2>1, <2>2, <2>3 DEF TInv, Types, own
  <2>5. Plans(p)'
        BY <1>1, <2>1, <2>3, UndoingAt DEF Plans, Pairwise, Asked, own, Undoing
  <2>6. pc'[p] \in Holding /\ \A q \in Proc \ {p} : Same(q)
        BY <2>1, <2>3 DEF Holding, Undoing, Same, own, TInv, Types
  <2> QED  BY <1>1, <2>1, <2>2, <2>4, <2>5, <2>6, UndoTInv
<1>3. CASE Unlist(p)
  <2>1. /\ mem' = [mem EXCEPT ![p][2] = @ - 1] /\ status' = mem'[p]
        /\ todo' = [todo EXCEPT ![p] = @ - 1] /\ pc' = [pc EXCEPT ![p] = "load"]
        /\ UNCHANGED <<sys, counter, dirs, holder, seen, left, trail>>
        BY <1>3 DEF Unlist, Goto
  <2>2. /\ mem[p] = <<mem[p][1], mem[p][2]>> /\ mem[p] \in Status
        /\ mem[p][2] - 1 \in -1..MaxIndex /\ mem[p][1] \in 0..(MaxIndex + 1)
    <3>1. mem[p] \in Status
          BY DEF TInv, Types
    <3>2. mem[p][2] - 1 >= -1 /\ mem[p][2] <= MaxIndex /\ mem[p][2] \in Int
          BY <1>1, <3>1, UndoingAt, StatusParts, Numbers
    <3> QED  BY <3>1, <3>2, StatusParts, Numbers
  <2>3. mem' = [mem EXCEPT ![p] = <<mem[p][1], mem[p][2] - 1>>]
    <3>1. mem' = [mem EXCEPT ![p] = [mem[p] EXCEPT ![2] = mem[p][2] - 1]]
          BY <2>1
    <3>2. [mem[p] EXCEPT ![2] = mem[p][2] - 1] = <<mem[p][1], mem[p][2] - 1>>
          BY <2>2 DEF Status
    <3> QED  BY <3>1, <3>2
  <2>4. <<mem[p][1], mem[p][2] - 1>> \in Status
        BY <2>2 DEF Status
  <2>5. todo[p] - 1 \in 0..(MaxIndex + MaxHunk + 1)
        BY <1>1, UndoingAt, Numbers DEF TInv, Types
  <2>6. /\ mem' \in [Proc -> Status] /\ status' \in Status
        /\ mem'[p] = <<mem[p][1], mem[p][2] - 1>>
        BY <2>1, <2>3, <2>4 DEF TInv, Types
  <2>7. /\ todo' \in [Proc -> 0..(MaxIndex + MaxHunk + 1)] /\ todo'[p] = todo[p] - 1
        BY <2>1, <2>5 DEF TInv, Types
  <2>8. pc' \in [Proc -> PCs] /\ pc'[p] = "load"
        BY <2>1 DEF TInv, Types, PCs, Holding, Undoing
  <2>9. Types'
        BY <2>1, <2>6, <2>7, <2>8 DEF TInv, Types
  <2>10. Asked(p)'
    <3>1. todo[p] - 1 <= (mem[p][2] - 1) - mem[p][1] + 1
          BY <1>1, UndoingAt
    <3> QED  BY <2>6, <2>7, <2>8, <3>1 DEF Asked
  <2>11. Plans(p)'
        BY <2>8, <2>10 DEF Plans, Pairwise
  <2>12. Small' /\ pc'[p] \in Holding /\ \A q \in Proc \ {p} : Same(q)
        BY <2>1, <2>3, <2>8 DEF Small, Holding, Undoing, Same, TInv, Types
  <2> QED  BY <1>1, <2>1, <2>9, <2>11, <2>12, UndoTInv
<1> QED  BY <1>2, <1>3

\* Where a removal is.
LEMMA RemovingAt ==
    ASSUME TInv, NEW p \in Proc,
           pc[p] = "rmUnlist" \/ (pc[p] = "rm" /\ todo[p] > 0)
    PROVE  /\ mem[p] = <<mem[p][1], mem[p][2]>> /\ mem[p] \in Status
           /\ mem[p][1] \in Index /\ mem[p][2] \in Index
           /\ mem[p][1] \in Int /\ mem[p][2] \in Int /\ mem[p][1] <= mem[p][2]
           /\ mem[p][2] <= MaxIndex /\ mem[p][1] >= 0 /\ todo[p] \in Nat
           /\ holder = NoProc /\ pc[p] \notin Holding
           /\ \A q \in Proc : pc[q] \notin Holding
<1>1. /\ mem[p] = <<mem[p][1], mem[p][2]>> /\ mem[p] \in Status
      /\ mem[p][1] \in 0..(MaxIndex + 1) /\ mem[p][2] \in -1..MaxIndex
      /\ todo[p] \in Nat /\ Plans(p)
      BY StatusParts DEF TInv, Types
<1>3. mem[p][1] <= mem[p][2]
  <2>1. CASE pc[p] = "rmUnlist"
        BY <1>1, <2>1, Numbers DEF Plans, Asked
  <2>2. CASE pc[p] = "rm" /\ todo[p] > 0
        BY <1>1, <2>2, Numbers DEF Plans, Asked
  <2> QED  BY <2>1, <2>2
<1>4. holder = NoProc /\ \A q \in Proc : pc[q] \notin Holding
      BY ProcIsNotNobody DEF TInv, Locked, Removing
<1> QED  BY <1>1, <1>3, <1>4, Numbers DEF Index

LEMMA RemoveTInv ==
    ASSUME TInv, NEW p \in Proc, RemoveOldest(p) \/ UnlistOldest(p)
    PROVE  TInv'
<1>1. /\ pc[p] = "rmUnlist" \/ (pc[p] = "rm" /\ todo[p] > 0)
      /\ pc[p] \in Removing
      BY DEF RemoveOldest, UnlistOldest, Removing
<1>2. CASE RemoveOldest(p)
  <2>1. /\ pc[p] = "rm" /\ todo[p] > 0 /\ dirs' = [dirs EXCEPT ![mem[p][1]] = Missing]
        /\ todo' = [todo EXCEPT ![p] = @ - 1] /\ pc' = [pc EXCEPT ![p] = "rmUnlist"]
        /\ UNCHANGED <<sys, counter, status, holder, mem, seen, left, trail>>
        BY <1>2 DEF RemoveOldest, Goto
  <2>2. dirs' \in [Index -> Dir] /\ Small'
        BY <1>1, <2>1, RemovingAt, MissingDir, DirTypes, Numbers DEF TInv
  <2>3. todo[p] - 1 \in 0..(MaxIndex + MaxHunk + 1)
        BY <2>1, Numbers DEF TInv, Types
  <2>4. /\ todo' \in [Proc -> 0..(MaxIndex + MaxHunk + 1)] /\ todo'[p] = todo[p] - 1
        BY <2>1, <2>3 DEF TInv, Types
  <2>5. pc' \in [Proc -> PCs] /\ pc'[p] = "rmUnlist"
        BY <2>1 DEF TInv, Types, PCs
  <2>6. Types'
        BY <2>1, <2>2, <2>4, <2>5 DEF TInv, Types
  <2>7. Asked(p)'
    <3>1. Asked(p)
          BY DEF TInv, Plans
    <3>2. todo[p] <= mem[p][2] - mem[p][1] + 1
          BY <2>1, <3>1 DEF Asked
    <3>3. todo[p] - 1 <= mem[p][2] - mem[p][1]
          BY <1>1, <3>2, RemovingAt
    <3> QED  BY <2>1, <2>4, <2>5, <3>3 DEF Asked, Undoing
  <2>8. Plans(p)'
        BY <2>5, <2>7 DEF Plans, Pairwise
  <2>9. \A q \in Proc \ {p} : Same(q)
        BY <2>1 DEF Same, TInv, Types
  <2>10. pc'[p] \notin Holding /\ holder' = NoProc /\ holder' # p /\ holder' = holder
        BY <1>1, <2>1, <2>5, RemovingAt, ProcIsNotNobody DEF Holding, Undoing
  <2> QED  BY <1>1, <2>2, <2>6, <2>8, <2>9, <2>10, StepTInv
<1>3. CASE UnlistOldest(p)
  <2> DEFINE v == IF mem[p][1] = mem[p][2] THEN <<mem[p][1], mem[p][2] - 1>>
                  ELSE <<mem[p][1] + 1, mem[p][2]>>
  <2>1. /\ pc[p] = "rmUnlist" /\ mem' = [mem EXCEPT ![p] = v] /\ status' = mem'[p]
        /\ pc' = [pc EXCEPT ![p] = "rm"]
        /\ UNCHANGED <<sys, counter, dirs, holder, seen, todo, left, trail>>
        BY <1>3 DEF UnlistOldest, Goto
  <2>2. /\ v[1] \in 0..(MaxIndex + 1) /\ v[2] \in -1..MaxIndex /\ v = <<v[1], v[2]>>
        /\ v[2] - v[1] = mem[p][2] - mem[p][1] - 1
        BY <1>1, RemovingAt, Numbers
  <2>3. v \in Status
        BY <2>2 DEF Status
  <2> HIDE DEF v
  <2>4. mem' \in [Proc -> Status] /\ mem'[p] = v /\ status' \in Status
        BY <2>1, <2>3 DEF TInv, Types
  <2>5. pc' \in [Proc -> PCs] /\ pc'[p] = "rm"
        BY <2>1 DEF TInv, Types, PCs
  <2>6. Types'
        BY <2>1, <2>4, <2>5 DEF TInv, Types
  <2>7. Asked(p)'
    <3>1. Asked(p)
          BY DEF TInv, Plans
    <3>2. todo[p] <= mem[p][2] - mem[p][1]
          BY <2>1, <3>1 DEF Asked
    <3>3. todo[p] <= v[2] - v[1] + 1
          BY <1>1, <2>2, <3>2, RemovingAt
    <3> QED  BY <2>1, <2>4, <2>5, <3>3 DEF Asked, Undoing
  <2>8. Plans(p)'
        BY <2>5, <2>7 DEF Plans, Pairwise
  <2>9. Small' /\ \A q \in Proc \ {p} : Same(q)
        BY <2>1 DEF Small, Same, TInv, Types
  <2>10. pc'[p] \notin Holding /\ holder' = NoProc /\ holder' # p /\ holder' = holder
        BY <1>1, <2>1, <2>5, RemovingAt, ProcIsNotNobody DEF Holding, Undoing
  <2> QED  BY <1>1, <2>1, <2>6, <2>8, <2>9, <2>10, StepTInv
<1> QED  BY <1>2, <1>3

LEMMA NextTInv ==
    ASSUME "rmBeside" \notin Mishaps
    PROVE  TInv /\ [Next]_vars => TInv'
<1> SUFFICES ASSUME TInv, [Next]_vars PROVE TInv'
      OBVIOUS
<1>1. CASE UNCHANGED vars
      BY <1>1 DEF vars, stack, own, TInv, Types, Locked, Small, Plans, Fits, Pairwise,
                  Asked, At
<1>2. ASSUME NEW p \in Proc, Calm(p) PROVE TInv'
      BY <1>2, CalmTInv
<1>3. ASSUME NEW p \in Proc, ~ Calm(p),
             \/ Hunk(p) \/ ReposPhase(p) \/ LocalPhase(p) \/ UnlinkRepos(p) \/ UnlinkLocal(p)
             \/ Truncate(p) \/ WriteCount(p) \/ Drop(p) \/ Unlist(p)
             \/ RemoveOldest(p) \/ UnlistOldest(p)
      PROVE  TInv'
      BY <1>3, HunkTInv, PhaseTInv, UnlinkTInv, CountTInv, DropTInv, RemoveTInv
<1> QED  BY <1>1, <1>2, <1>3 DEF Next, Calm

\* The types: among them, that a job never makes more pairs than it has change
\* sets, that a rollback never looks for a pair that is not there, and that
\* whoever works under the lock holds it (Database.commitLock).
THEOREM TypeCorrect ==
    ASSUME "rmBeside" \notin Mishaps
    PROVE  Spec => []TypeOK
<1>1. TInv => TypeOK
  <2> SUFFICES ASSUME TInv PROVE TypeOK
        OBVIOUS
  <2>1. \A k \in Index : /\ dirs[k].count \in -1..MaxHunk
                         /\ dirs[k].repos \in Seq(Pairs)
                         /\ dirs[k].local \in Seq(SUBSET Trove)
        BY DEF TInv, Types, Dir
  <2>2. \A k \in Index : /\ Len(dirs[k].repos) \in 0..MaxHunk
                         /\ Len(dirs[k].local) \in 0..MaxHunk
        BY <2>1, Numbers DEF TInv, Small
  <2> QED  BY <2>1, <2>2 DEF TInv, Types, Locked, Status, TypeOK
<1> QED  BY <1>1, InitTInv, NextTInv, PTL DEF Spec

-----------------------------------------------------------------------------
(* Rollbacks lead back.                                                    *)

Orderly == Mishaps \cap {"staleOpen", "rmBeside"} = {}

\* LeadsBack and OneAhead, of any directory, trail, system and stack.
Leads(d, tr, s) ==
    LET n == Len(d.repos)
    IN  /\ n = 0 => s = tr[1]
        /\ n > 0 => tr[n] \in {Undo(s, d.repos[n], d.local[n]), UndoLocal(s, d.local[n])}
        /\ \A i \in 1..(n - 1) : tr[i] = Undo(tr[i + 1], d.repos[i], d.local[i])

AheadIn(v, s, ds, tr) ==
    \A k \in Index : v[1] <= k /\ k <= v[2] /\ ds[k] # Missing =>
        Leads(ds[k], tr[k], IF k = v[2] THEN s ELSE tr[k + 1][1])

\* A pair leads from other versions to those before its change set.
PairedDir(d, tr) ==
    /\ Len(tr) >= 1 /\ Len(d.repos) <= Len(d.local) /\ Len(d.repos) <= Len(tr)
    /\ \A i \in 1..Len(d.repos) :
          /\ DOMAIN d.repos[i] # {}
          /\ \A t \in DOMAIN d.repos[i] : /\ d.repos[i][t][1] # d.repos[i][t][2]
                                          /\ tr[i].ver[t] = d.repos[i][t][1]
          /\ d.local[i] = tr[i].local \cap DOMAIN d.repos[i]

\* What a command knows counts while it would get past CheckCounter, and while
\* it is at work.
Current(p) ==
    \/ pc[p] \in {"ready", "back", "ulock", "rlock"} /\ seen[p] = counter
    \/ pc[p] \in {"hunk"} \cup Undoing \cup Removing

\* A removal that will write the status again.
Active(p) == pc[p] = "rmUnlist" \/ (pc[p] = "rm" /\ todo[p] > 0)

\* A stack whose last rollback is there.
Live(v, ds) == v[1] <= v[2] /\ ds[v[2]] # Missing

AllAhead ==
    /\ AheadIn(status, sys, dirs, trail)
    /\ \A p \in Proc : Current(p) => AheadIn(mem[p], sys, dirs, trail)

\* Whoever knows a last rollback that is there knows the last.
SameTop == \A p \in Proc : Current(p) /\ Live(mem[p], dirs) => status[2] = mem[p][2]

\* Removals beside each other, and beside commands that wait for the lock.
Removals ==
    \A q \in Proc : Active(q) =>
        /\ Live(status, dirs) => status[2] = mem[q][2]
        /\ \A p \in Proc : Current(p) /\ Live(mem[p], dirs) => mem[p][2] = mem[q][2]
        /\ pc[q] = "rmUnlist" => dirs[mem[q][1]] = Missing

\* A rollback is at the last directory, and once it has changed the system
\* only those that saw the change count.
AtTop ==
    \A q \in Proc : pc[q] \in Undoing \ {"load"} =>
        /\ status[2] = mem[q][2]
        /\ pc[q] # "repos" => \A p \in Proc : Current(p) => mem[p][2] = mem[q][2]

\* Where the system is between two change sets.
Along(q) ==
    LET k == mem[q][2]
        n == Len(dirs[k].repos)
    IN  /\ pc[q] = "hunk" /\ left[q] # -1 =>
             /\ n >= 1 /\ Len(dirs[k].local) = n /\ Len(trail[k]) = n
             /\ trail[k][n] = Undo(sys, dirs[k].repos[n], dirs[k].local[n])
             /\ Leads(dirs[k], trail[k], sys)
        /\ pc[q] = "local" => trail[k][n] = UndoLocal(sys, dirs[k].local[n])
        /\ pc[q] = "unlink" => trail[k][n] = sys
        /\ pc[q] \in {"unlink2", "truncate", "count", "drop"} => trail[k][n + 1] = sys
        /\ pc[q] = "unlist" => dirs[k] = Missing /\ trail[k][1] = sys

RInv ==
    /\ \A p \in Proc : seen[p] <= counter
    /\ AllAhead
    /\ SameTop
    /\ Removals
    /\ AtTop
    /\ \A k \in Index : PairedDir(dirs[k], trail[k])
    /\ \A q \in Proc : Along(q)

LEMMA InitRInv == Init => RInv
<1> SUFFICES ASSUME Init PROVE RInv
      OBVIOUS
<1>1. \A k \in Index : PairedDir(dirs[k], trail[k])
  <2>1. \A k \in Index : dirs[k] = Missing /\ trail[k] = <<sys>>
        BY DEF Init
  <2>2. Len(<<sys>>) = 1 /\ Missing.repos = <<>> /\ Missing.local = <<>>
        BY DEF Missing
  <2>3. PairedDir(Missing, <<sys>>)
        BY <2>2 DEF PairedDir
  <2> QED  BY <2>1, <2>3
<1>2. AheadIn(status, sys, dirs, trail)
      BY DEF Init, AheadIn
<1>3. \A p \in Proc : pc[p] = "idle" /\ seen[p] = 0 /\ counter = 0
      BY DEF Init
<1> QED  BY <1>1, <1>2, <1>3 DEF RInv, AllAhead, SameTop, Removals, AtTop, Along, Current,
                                 Active, Undoing, Removing

\* What Ahead says is what the property says.
LEMMA AheadIs == AheadIn(status, sys, dirs, trail) => OneAhead
BY DEF AheadIn, OneAhead, Leads, LeadsBack, Base

-----------------------------------------------------------------------------
(* What the steps do to one directory.                                     *)

LEMMA DirParts ==
    ASSUME NEW d \in Dir
    PROVE  /\ d.repos \in Seq(Pairs) /\ d.local \in Seq(SUBSET Trove)
           /\ Len(d.repos) \in Nat /\ Len(d.local) \in Nat
           /\ \A i \in 1..Len(d.repos) : d.repos[i] \in Pairs
           /\ \A i \in 1..Len(d.local) : d.local[i] \in SUBSET Trove
<1>1. d.repos \in Seq(Pairs) /\ d.local \in Seq(SUBSET Trove)
      BY DEF Dir
<1> QED  BY <1>1

LEMMA WithLocal ==
    ASSUME NEW v, NEW a, NEW l, NEW b, b = [ver |-> v, local |-> a]
    PROVE  [b EXCEPT !.local = @ \cup l] = [ver |-> v, local |-> a \cup l]
<1>1. b.ver = v /\ b.local = a
      OBVIOUS
<1>2. [b EXCEPT !.local = b.local \cup l] = [b EXCEPT !.local = a \cup l]
      BY <1>1
<1>3. [b EXCEPT !.local = a \cup l] = [ver |-> v, local |-> a \cup l]
      OBVIOUS
<1> QED  BY <1>2, <1>3

\* The versions are those of the pair, or had been brought back before: now
\* only its local changes are missing.
LEMMA ReposBack ==
    ASSUME NEW d \in Dir, NEW tr \in Seq(System), NEW s \in System,
           Leads(d, tr, s), PairedDir(d, tr), Len(d.repos) >= 1
    PROVE  LET n == Len(d.repos)
               b == Back(s, d.repos[n])
           IN  tr[n] = UndoLocal(b, d.local[n]) /\ Leads(d, tr, b)
<1> DEFINE n == Len(d.repos)
           r == d.repos[n]
           l == d.local[n]
           b == Back(s, r)
<1>1. n \in Nat /\ n \in 1..n /\ r \in Pairs /\ n > 0
      BY DirParts
<1>2. /\ \A t \in DOMAIN r : tr[n].ver[t] = r[t][1]
      /\ l = tr[n].local \cap DOMAIN r
      BY <1>1 DEF PairedDir
<1>3. tr[n] = UndoLocal(b, l)
  <2>1. CASE tr[n] = Undo(s, r, l)
        BY <2>1 DEF Undo, UndoLocal
  <2>2. CASE tr[n] = UndoLocal(s, l)
    <3>1. tr[n].ver = s.ver /\ tr[n].local = s.local \cup l
          BY <2>2 DEF UndoLocal, System
    <3>2. b.ver = s.ver
      <4>1. s.ver = [t \in Trove |-> s.ver[t]]
            BY DEF System
      <4>2. \A t \in Trove : (IF t \in DOMAIN r THEN r[t][1] ELSE s.ver[t]) = s.ver[t]
            BY <1>2, <3>1
      <4> QED  BY <4>1, <4>2 DEF Back
    <3>3. b.local = s.local \ DOMAIN r
          BY DEF Back
    <3>4. b.local \cup l = s.local \cup l
          BY <1>2, <3>1, <3>3
    <3>5. b = [ver |-> b.ver, local |-> b.local] /\ s = [ver |-> s.ver, local |-> s.local]
          BY DEF Back, System
    <3>6. /\ UndoLocal(b, l) = [b EXCEPT !.local = @ \cup l]
          /\ UndoLocal(s, l) = [s EXCEPT !.local = @ \cup l]
          BY DEF UndoLocal
    <3> HIDE DEF b, l
    <3>7. /\ UndoLocal(b, l) = [ver |-> b.ver, local |-> b.local \cup l]
          /\ UndoLocal(s, l) = [ver |-> s.ver, local |-> s.local \cup l]
          BY <3>5, <3>6, WithLocal
    <3> QED  BY <2>2, <3>2, <3>4, <3>7
  <2> QED  BY <1>1, <2>1, <2>2 DEF Leads
<1>4. Leads(d, tr, b)
      BY <1>1, <1>3 DEF Leads
<1> QED  BY <1>3, <1>4

\* The local changes are back.
LEMMA LocalBack ==
    ASSUME NEW d \in Dir, NEW tr \in Seq(System), NEW s \in System,
           Leads(d, tr, s), Len(d.repos) >= 1,
           tr[Len(d.repos)] = UndoLocal(s, d.local[Len(d.repos)])
    PROVE  LET n == Len(d.repos) IN Leads(d, tr, UndoLocal(s, d.local[n]))
<1> DEFINE n == Len(d.repos)
           l == d.local[n]
<1>1. n \in Nat /\ n > 0
      BY DirParts
<1>2. UndoLocal(UndoLocal(s, l), l) = UndoLocal(s, l)
      BY DEF UndoLocal, System
<1> QED  BY <1>1, <1>2 DEF Leads

\* The last pair is gone, or its repos file is.
LEMMA PairGone ==
    ASSUME NEW d \in Dir, NEW tr \in Seq(System), NEW s \in System, NEW e \in Dir,
           Leads(d, tr, s), PairedDir(d, tr), Len(d.repos) >= 1, tr[Len(d.repos)] = s,
           Len(e.repos) = Len(d.repos) - 1, Len(e.repos) <= Len(e.local),
           \A i \in 1..Len(e.repos) : e.repos[i] = d.repos[i] /\ e.local[i] = d.local[i]
    PROVE  Leads(e, tr, s) /\ PairedDir(e, tr)
<1> DEFINE n == Len(d.repos)
           m == Len(e.repos)
<1>1. n \in Nat /\ m \in Nat /\ n = m + 1 /\ Len(tr) \in Nat
      BY DirParts
<1>2. \A i \in 1..m : tr[i] = Undo(tr[i + 1], d.repos[i], d.local[i])
      BY <1>1 DEF Leads
<1>3. Leads(e, tr, s)
  <2>1. m = 0 => s = tr[1]
        BY <1>1
  <2>2. m > 0 => tr[m] = Undo(s, e.repos[m], e.local[m])
        BY <1>1, <1>2
  <2>3. \A i \in 1..(m - 1) : tr[i] = Undo(tr[i + 1], e.repos[i], e.local[i])
        BY <1>1, <1>2
  <2> QED  BY <2>1, <2>2, <2>3 DEF Leads
<1>4. PairedDir(e, tr)
  <2>1. Len(tr) >= 1 /\ m <= Len(tr) /\ \A i \in 1..m : i \in 1..n
        BY <1>1 DEF PairedDir
  <2>2. ASSUME NEW i \in 1..m
        PROVE  /\ DOMAIN e.repos[i] # {}
               /\ \A t \in DOMAIN e.repos[i] : /\ e.repos[i][t][1] # e.repos[i][t][2]
                                               /\ tr[i].ver[t] = e.repos[i][t][1]
               /\ e.local[i] = tr[i].local \cap DOMAIN e.repos[i]
    <3>1. e.repos[i] = d.repos[i] /\ e.local[i] = d.local[i] /\ i \in 1..n
          BY <2>1
    <3> QED  BY <3>1 DEF PairedDir
  <2> QED  BY <2>1, <2>2 DEF PairedDir
<1> QED  BY <1>3, <1>4

\* Nothing that counts has changed.
LEMMA PairsKept ==
    ASSUME NEW d \in Dir, NEW tr \in Seq(System), NEW s, NEW e \in Dir,
           Leads(d, tr, s), PairedDir(d, tr),
           Len(e.repos) = Len(d.repos), Len(e.repos) <= Len(e.local),
           \A i \in 1..Len(e.repos) : e.repos[i] = d.repos[i] /\ e.local[i] = d.local[i]
    PROVE  Leads(e, tr, s) /\ PairedDir(e, tr)
<1> DEFINE n == Len(d.repos)
<1>1. n \in Nat /\ (n > 0 => n \in 1..n)
      BY DirParts
<1>2. Leads(e, tr, s)
  <2>1. Len(e.repos) = n /\ \A i \in 1..n : e.repos[i] = d.repos[i] /\ e.local[i] = d.local[i]
        OBVIOUS
  <2>2. n = 0 => s = tr[1]
        BY DEF Leads
  <2>3. n > 0 => tr[n] \in {Undo(s, e.repos[n], e.local[n]), UndoLocal(s, e.local[n])}
        BY <1>1, <2>1 DEF Leads
  <2>4. \A i \in 1..(n - 1) : tr[i] = Undo(tr[i + 1], e.repos[i], e.local[i])
    <3>1. \A i \in 1..(n - 1) : i \in 1..n
          BY <1>1
    <3> QED  BY <2>1, <3>1 DEF Leads
  <2> QED  BY <2>1, <2>2, <2>3, <2>4 DEF Leads
<1>3. PairedDir(e, tr)
  <2>1. ASSUME NEW i \in 1..Len(e.repos)
        PROVE  /\ DOMAIN e.repos[i] # {}
               /\ \A t \in DOMAIN e.repos[i] : /\ e.repos[i][t][1] # e.repos[i][t][2]
                                               /\ tr[i].ver[t] = e.repos[i][t][1]
               /\ e.local[i] = tr[i].local \cap DOMAIN e.repos[i]
    <3>1. e.repos[i] = d.repos[i] /\ e.local[i] = d.local[i] /\ i \in 1..n
          OBVIOUS
    <3> QED  BY <3>1 DEF PairedDir
  <2> QED  BY <2>1 DEF PairedDir
<1> QED  BY <1>2, <1>3

\* A directory that is gone.
LEMMA GonePaired ==
    ASSUME NEW d, NEW tr \in Seq(System), PairedDir(d, tr)
    PROVE  PairedDir(Missing, tr)
<1>1. Missing.repos = <<>> /\ Missing.local = <<>> /\ Len(tr) \in Nat
      BY DEF Missing
<1> QED  BY <1>1 DEF PairedDir

\* A change set from s to s2 adds the pair r, l to a directory.
Grows(d, tr, s, s2, e, r, l, tr2) ==
    LET n == Len(d.repos)
    IN  /\ DOMAIN r # {} /\ s2.local = s.local \ DOMAIN r /\ l = s.local \cap DOMAIN r
        /\ \A t \in Trove \ DOMAIN r : s2.ver[t] = s.ver[t]
        /\ \A t \in DOMAIN r : r[t][1] = s.ver[t] /\ r[t][1] # r[t][2]
        /\ e.repos = Append(d.repos, r) /\ e.local = Append(d.local, l)
        /\ n = Len(d.local) /\ Len(tr2) = n + 1 /\ tr2[n + 1] = s
        /\ n > 0 => /\ \A i \in 1..n : tr2[i] = tr[i]
                    /\ tr[n] = Undo(s, d.repos[n], d.local[n])
                    /\ Leads(d, tr, s) /\ PairedDir(d, tr)

\* The pair of a change set leads back over it, and nowhere else.
LEMMA HunkLeads ==
    ASSUME NEW d \in Dir, NEW tr, NEW s \in System, NEW s2 \in System, NEW e \in Dir,
           NEW r \in Pairs, NEW l \in SUBSET Trove, NEW tr2 \in Seq(System),
           Grows(d, tr, s, s2, e, r, l, tr2)
    PROVE  /\ Leads(e, tr2, s2) /\ PairedDir(e, tr2)
           /\ Len(e.repos) = Len(d.repos) + 1 /\ Len(e.local) = Len(e.repos)
           /\ tr2[Len(e.repos)] = Undo(s2, e.repos[Len(e.repos)], e.local[Len(e.repos)])
<1> DEFINE n == Len(d.repos)
<1>0. /\ DOMAIN r # {} /\ s2.local = s.local \ DOMAIN r /\ l = s.local \cap DOMAIN r
      /\ \A t \in Trove \ DOMAIN r : s2.ver[t] = s.ver[t]
      /\ \A t \in DOMAIN r : r[t][1] = s.ver[t] /\ r[t][1] # r[t][2]
      /\ e.repos = Append(d.repos, r) /\ e.local = Append(d.local, l)
      /\ n = Len(d.local) /\ Len(tr2) = n + 1 /\ tr2[n + 1] = s
      /\ n > 0 => /\ \A i \in 1..n : tr2[i] = tr[i]
                  /\ tr[n] = Undo(s, d.repos[n], d.local[n])
                  /\ Leads(d, tr, s) /\ PairedDir(d, tr)
      BY DEF Grows
<1>1. n \in Nat /\ n = Len(d.local) /\ d.repos \in Seq(Pairs) /\ d.local \in Seq(SUBSET Trove)
      BY <1>0, DirParts
<1>2. /\ Len(e.repos) = n + 1 /\ e.repos[n + 1] = r
      /\ \A i \in 1..n : e.repos[i] = d.repos[i]
      BY <1>0, <1>1
<1>3. /\ Len(e.local) = n + 1 /\ e.local[n + 1] = l
      /\ \A i \in 1..n : e.local[i] = d.local[i]
      BY <1>0, <1>1
<1>4. Undo(s2, r, l) = s
  <2>1. DOMAIN r \subseteq Trove
        BY PairParts
  <2>2. Back(s2, r) = [ver |-> s.ver, local |-> s.local \ DOMAIN r]
    <3>1. [t \in Trove |-> IF t \in DOMAIN r THEN r[t][1] ELSE s2.ver[t]] = s.ver
          BY <1>0, <2>1 DEF System
    <3>2. s2.local \ DOMAIN r = s.local \ DOMAIN r
          BY <1>0
    <3> QED  BY <3>1, <3>2 DEF Back
  <2>3. Undo(s2, r, l) = [ver |-> s.ver, local |-> (s.local \ DOMAIN r) \cup l]
    <3> DEFINE b == Back(s2, r)
    <3>1. Undo(s2, r, l) = [b EXCEPT !.local = @ \cup l]
          BY DEF Undo
    <3>2. b = [ver |-> s.ver, local |-> s.local \ DOMAIN r]
          BY <2>2
    <3> HIDE DEF b
    <3> QED  BY <3>1, <3>2, WithLocal
  <2>4. (s.local \ DOMAIN r) \cup l = s.local
        BY <1>0
  <2>5. s = [ver |-> s.ver, local |-> s.local]
        BY DEF System
  <2> QED  BY <2>3, <2>4, <2>5
<1>5. n + 1 > 0 /\ n + 1 # 0 /\ (n + 1) - 1 = n
      BY <1>1
<1>6. ASSUME NEW i \in 1..n PROVE tr2[i] = Undo(tr2[i + 1], e.repos[i], e.local[i])
  <2>0. n > 0 /\ tr2[i] = tr[i] /\ e.repos[i] = d.repos[i] /\ e.local[i] = d.local[i]
        BY <1>0, <1>1, <1>2, <1>3
  <2>1. CASE i = n
        BY <1>0, <2>0, <2>1
  <2>2. CASE i # n
    <3>1. i \in 1..(n - 1) /\ i + 1 \in 1..n
          BY <1>1, <2>2
    <3>2. tr2[i + 1] = tr[i + 1]
          BY <1>0, <2>0, <3>1
    <3>3. tr[i] = Undo(tr[i + 1], d.repos[i], d.local[i])
          BY <1>0, <2>0, <3>1 DEF Leads
    <3> QED  BY <2>0, <3>2, <3>3
  <2> QED  BY <2>1, <2>2
<1>7. Leads(e, tr2, s2)
      BY <1>0, <1>2, <1>3, <1>4, <1>5, <1>6 DEF Leads
<1>8. PairedDir(e, tr2)
  <2>1. ASSUME NEW i \in 1..(n + 1)
        PROVE  /\ DOMAIN e.repos[i] # {}
               /\ \A t \in DOMAIN e.repos[i] : /\ e.repos[i][t][1] # e.repos[i][t][2]
                                               /\ tr2[i].ver[t] = e.repos[i][t][1]
               /\ e.local[i] = tr2[i].local \cap DOMAIN e.repos[i]
    <3>1. CASE i = n + 1
          BY <1>0, <1>2, <1>3, <3>1
    <3>2. CASE i # n + 1
      <4>1. i \in 1..n /\ n > 0
            BY <1>1, <3>2
      <4>2. /\ e.repos[i] = d.repos[i] /\ e.local[i] = d.local[i]
            /\ tr2[i] = tr[i] /\ PairedDir(d, tr)
            BY <1>0, <1>2, <1>3, <4>1
      <4> QED  BY <4>1, <4>2 DEF PairedDir
    <3> QED  BY <3>1, <3>2
  <2>2. Len(tr2) >= 1 /\ n + 1 <= n + 1 /\ n + 1 <= Len(tr2)
        BY <1>0, <1>1
  <2> QED  BY <1>2, <1>3, <2>1, <2>2 DEF PairedDir
<1> QED  BY <1>0, <1>2, <1>3, <1>4, <1>7, <1>8

-----------------------------------------------------------------------------
(* What the steps do to what the commands know.                            *)

\* A step that changes neither the system nor the stack.
LEMMA StillRInv ==
    ASSUME TInv, RInv, NEW p \in Proc,
           UNCHANGED <<sys, counter, status, dirs, trail>>,
           \A q \in Proc \ {p} : Same(q),
           seen'[p] <= counter,
           Current(p)' => mem'[p] = mem[p] /\ (Current(p) \/ mem[p] = status),
           Active(p)' => mem[p] = status,
           pc'[p] \notin Undoing \ {"load", "repos"},
           pc'[p] # "rmUnlist",
           pc'[p] = "hunk" => left'[p] = -1,
           pc'[p] = "repos" => Current(p) /\ Live(mem[p], dirs)
    PROVE  RInv'
<1>1. \A q \in Proc \ {p} : /\ Current(q)' <=> Current(q)
                            /\ Active(q)' <=> Active(q)
      BY DEF Same, Current, Active
<1>2. AllAhead'
      BY <1>1 DEF RInv, AllAhead, Same
<1>3. SameTop'
      BY <1>1 DEF RInv, SameTop, Same
<1>4. Removals'
  <2> SUFFICES ASSUME NEW q \in Proc, Active(q)'
               PROVE  /\ Live(status, dirs) => status[2] = mem'[q][2]
                      /\ \A r \in Proc : Current(r)' /\ Live(mem'[r], dirs)
                                           => mem'[r][2] = mem'[q][2]
                      /\ pc'[q] = "rmUnlist" => dirs[mem'[q][1]] = Missing
        BY DEF Removals
  <2>1. CASE q = p
    <3>1. mem[p] = status /\ Current(p)'
          BY <2>1 DEF Active, Current, Removing
    <3>2. mem'[p] = status
          BY <3>1
    <3>3. \A r \in Proc : Current(r)' /\ Live(mem'[r], dirs) => mem'[r][2] = status[2]
          BY <1>3 DEF SameTop
    <3> QED  BY <2>1, <3>2, <3>3
  <2>2. CASE q # p
    <3>1. Active(q) /\ mem'[q] = mem[q] /\ pc'[q] = pc[q]
          BY <1>1, <2>2 DEF Same
    <3>2. ASSUME NEW r \in Proc, Current(r)', Live(mem'[r], dirs)
          PROVE  mem'[r][2] = mem[q][2]
      <4>1. CASE r # p
            BY <1>1, <3>1, <3>2, <4>1 DEF RInv, Removals, Same
      <4>2. CASE r = p
            BY <3>1, <3>2, <4>2 DEF RInv, Removals
      <4> QED  BY <4>1, <4>2
    <3> QED  BY <3>1, <3>2 DEF RInv, Removals
  <2> QED  BY <2>1, <2>2
<1>5. AtTop'
  <2> SUFFICES ASSUME NEW q \in Proc, pc'[q] \in Undoing \ {"load"}
               PROVE  /\ status[2] = mem'[q][2]
                      /\ pc'[q] # "repos" => \A r \in Proc : Current(r)' =>
                                                mem'[r][2] = mem'[q][2]
        BY DEF AtTop
  <2>1. CASE q = p
    <3>1. pc'[p] = "repos"
          BY <2>1
    <3>2. mem'[p] = mem[p] /\ status[2] = mem[p][2]
          BY <3>1 DEF RInv, SameTop, Current, Undoing
    <3> QED  BY <2>1, <3>1, <3>2
  <2>2. CASE q # p
    <3>1. pc[q] \in Undoing \ {"load"} /\ pc'[q] = pc[q] /\ mem'[q] = mem[q]
          BY <2>2 DEF Same
    <3>2. ASSUME NEW r \in Proc, Current(r)', pc[q] # "repos"
          PROVE  mem'[r][2] = mem[q][2]
      <4>1. CASE r # p
            BY <1>1, <3>1, <3>2, <4>1 DEF RInv, AtTop, Same
      <4>2. CASE r = p
            BY <3>1, <3>2, <4>2 DEF RInv, AtTop
      <4> QED  BY <4>1, <4>2
    <3> QED  BY <3>1, <3>2 DEF RInv, AtTop
  <2> QED  BY <2>1, <2>2
<1>6. \A q \in Proc : Along(q)'
  <2>1. Along(p)'
        BY DEF Along, Undoing
  <2>2. ASSUME NEW q \in Proc \ {p} PROVE Along(q)'
    <3>1. Along(q) /\ pc'[q] = pc[q] /\ mem'[q] = mem[q] /\ left'[q] = left[q]
          BY DEF RInv, Same
    <3> QED  BY <3>1 DEF Along
  <2> QED  BY <2>1, <2>2
<1>7. \A q \in Proc : (seen[q] <= counter)'
      BY DEF RInv, Same
<1> QED  BY <1>2, <1>3, <1>4, <1>5, <1>6, <1>7 DEF RInv

LEMMA CalmRInv ==
    ASSUME TInv, RInv, NEW p \in Proc, Calm(p), Orderly
    PROVE  RInv'
<1>0. /\ UNCHANGED <<sys, counter, status, dirs, trail>> /\ \A q \in Proc \ {p} : Same(q)
      /\ "staleOpen" \notin Mishaps /\ "rmBeside" \notin Mishaps
      BY CalmOwn DEF TInv, stack, Orderly
<1>1. CASE Leave(p) \/ RemoveDone(p) \/ Unlock(p) \/ Crash(p)
  <2>1. pc'[p] = "idle" /\ seen'[p] = 0
        BY <1>1 DEF Leave, RemoveDone, Unlock, Crash, Forget, Goto, TInv, Types
  <2>2. ~ Current(p)' /\ ~ Active(p)' /\ pc'[p] \notin Undoing
        BY <2>1 DEF Current, Active, Undoing, Removing
  <2>3. seen'[p] <= counter
        BY <2>1 DEF TInv, Types
  <2> QED  BY <1>0, <2>1, <2>2, <2>3, StillRInv
<1>2. CASE Open(p)
  <2>1. pc'[p] = "open" /\ seen' = seen
        BY <1>2 DEF Open, Goto, TInv, Types
  <2>2. ~ Current(p)' /\ ~ Active(p)' /\ pc'[p] \notin Undoing
        BY <2>1 DEF Current, Active, Undoing, Removing
  <2> QED  BY <1>0, <2>1, <2>2, StillRInv DEF RInv
<1>3. CASE AskUpdate(p) \/ AskRollback(p)
  <2>1. pc'[p] \in {"ready", "back"} /\ mem' = mem /\ seen'[p] = counter /\ mem[p] = status
        BY <1>0, <1>3 DEF AskUpdate, AskRollback, Fresh, Goto, TInv, Types
  <2>2. ~ Active(p)' /\ pc'[p] \notin Undoing
        BY <2>1 DEF Active, Undoing
  <2>3. seen'[p] <= counter
        BY <2>1 DEF TInv, Types
  <2> QED  BY <1>0, <2>1, <2>2, <2>3, StillRInv
<1>4. CASE AskRemove(p)
  <2>1. pc'[p] = "rm" /\ mem' = mem /\ seen' = seen /\ mem[p] = status
        BY <1>0, <1>4 DEF AskRemove, Goto, TInv, Types
  <2>2. pc'[p] \notin Undoing
        BY <2>1 DEF Undoing
  <2> QED  BY <1>0, <2>1, <2>2, StillRInv DEF RInv
<1>5. CASE Lock(p)
  <2>1. /\ pc[p] \in {"ready", "back"} /\ pc'[p] \in {"ulock", "rlock"} /\ UNCHANGED own
        BY <1>5 DEF Lock, Goto, TInv, Types
  <2>2. (Current(p)' => Current(p)) /\ ~ Active(p)' /\ pc'[p] \notin Undoing
        BY <1>0, <2>1 DEF Current, Active, Undoing, Removing, own
  <2> QED  BY <1>0, <2>1, <2>2, StillRInv DEF RInv, own
<1>6. CASE CheckCounter(p)
  <2>1. /\ pc[p] \in {"ulock", "rlock"} /\ UNCHANGED own
        /\ pc'[p] = IF seen[p] # counter THEN "finish"
                    ELSE IF pc[p] = "ulock" THEN "hunk" ELSE "load"
        BY <1>6 DEF CheckCounter, Goto, TInv, Types
  <2>2. (Current(p)' => Current(p)) /\ ~ Active(p)'
        /\ pc'[p] \notin Undoing \ {"load", "repos"} /\ pc'[p] # "repos"
        BY <2>1 DEF Current, Active, Undoing, Removing
  <2>3. pc'[p] = "hunk" => left[p] = -1
    <3>1. pc[p] = "ulock" => Fits(p)
          BY DEF TInv, Plans
    <3> QED  BY <2>1, <3>1 DEF Fits
  <2> QED  BY <1>0, <2>1, <2>2, <2>3, StillRInv DEF RInv, own
<1>7. CASE UpdateDone(p) \/ RollbackDone(p) \/ Fault(p)
  <2>1. pc'[p] = "finish" /\ UNCHANGED own
        BY <1>7 DEF UpdateDone, RollbackDone, Fault, Goto, TInv, Types
  <2>2. ~ Current(p)' /\ ~ Active(p)' /\ pc'[p] \notin Undoing
        BY <2>1 DEF Current, Active, Undoing, Removing
  <2> QED  BY <1>0, <2>1, <2>2, StillRInv DEF RInv, own
<1>8. CASE Load(p)
  <2>1. pc[p] = "load" /\ pc'[p] \in {"finish", "repos"} /\ mem' = mem /\ seen' = seen
        /\ todo[p] > 0 /\ (pc'[p] = "repos" => At(p).count > 0)
        BY <1>8 DEF Load, Goto, TInv, Types
  <2>2. Current(p) /\ ~ Active(p)' /\ pc'[p] \notin Undoing \ {"load", "repos"}
        BY <2>1 DEF Current, Active, Undoing
  <2>3. pc'[p] = "repos" => Live(mem[p], dirs)
    <3>1. /\ todo[p] <= mem[p][2] - mem[p][1] + 1 /\ todo[p] \in Int
          /\ mem[p][1] \in Int /\ mem[p][2] \in Int
          BY <2>1, StatusParts DEF TInv, Types, Plans, Asked, Undoing
    <3>2. mem[p][1] <= mem[p][2]
          BY <2>1, <3>1
    <3>3. At(p).count > 0 => At(p) # Missing
          BY DEF Missing
    <3> QED  BY <2>1, <3>2, <3>3 DEF Live, At
  <2> QED  BY <1>0, <2>1, <2>2, <2>3, StillRInv DEF RInv
<1> QED  BY <1>1, <1>2, <1>3, <1>4, <1>5, <1>6, <1>7, <1>8 DEF Calm

\* A stack whose last directory changes, and the system with it.
LEMMA TopAhead ==
    ASSUME NEW v, NEW s, NEW s2, NEW ds, NEW ds2, NEW tr, NEW k \in Index,
           v[2] = k, AheadIn(v, s, ds, tr),
           \A j \in Index \ {k} : ds2[j] = ds[j],
           ds2[k] # Missing => Leads(ds2[k], tr[k], s2)
    PROVE  AheadIn(v, s2, ds2, tr)
BY DEF AheadIn

\* A step of a rollback, which changes its directory or the system.
LEMMA UndoRInv ==
    ASSUME TInv, RInv, NEW p \in Proc, pc[p] \in Undoing \ {"load"},
           \/ counter' = counter /\ pc[p] # "repos"
           \/ counter' = counter + 1,
           UNCHANGED <<status, mem, seen, trail>>,
           \A q \in Proc \ {p} : Same(q),
           \A j \in Index \ {mem[p][2]} : dirs'[j] = dirs[j],
           dirs'[mem[p][2]] # Missing => Leads(dirs'[mem[p][2]], trail[mem[p][2]], sys'),
           PairedDir(dirs'[mem[p][2]], trail[mem[p][2]]),
           pc'[p] \in Undoing \ {"load"}, Along(p)'
    PROVE  RInv'
<1> DEFINE k == mem[p][2]
<1>1. /\ k \in Index /\ status[2] = k
      /\ \A q \in Proc \ {p} : pc[q] \notin Holding \cup Removing
      BY UndoingAt DEF RInv, AtTop
<1>2. \A q \in Proc : seen[q] \in Int /\ counter \in Int /\ seen[q] <= counter
      BY DEF TInv, Types, RInv
<1>3. \A q \in Proc : (seen[q] <= counter)'
      BY <1>2
<1>4. \A q \in Proc \ {p} : pc'[q] = pc[q] /\ pc[q] \notin {"hunk"} \cup Undoing \cup Removing
      BY <1>1 DEF Same, Holding
<1>5. ASSUME NEW q \in Proc, Current(q)'
      PROVE  Current(q) /\ mem[q][2] = k
  <2>1. CASE q = p
        BY <2>1 DEF Current
  <2>2. CASE q # p
    <3>1. seen[q] = counter' /\ pc[q] \in {"ready", "back", "ulock", "rlock"}
          BY <1>4, <1>5, <2>2 DEF Current
    <3>2. counter' = counter /\ pc[p] # "repos"
          BY <1>2, <3>1
    <3>3. Current(q)
          BY <3>1, <3>2 DEF Current
    <3> QED  BY <3>2, <3>3 DEF RInv, AtTop
  <2> QED  BY <2>1, <2>2
<1>6. AllAhead'
  <2>1. AheadIn(status, sys', dirs', trail)
        BY <1>1, TopAhead DEF RInv, AllAhead
  <2>2. ASSUME NEW q \in Proc, Current(q)'
        PROVE  AheadIn(mem[q], sys', dirs', trail)
        BY <1>1, <1>5, <2>2, TopAhead DEF RInv, AllAhead
  <2> QED  BY <2>1, <2>2 DEF AllAhead
<1>7. SameTop'
      BY <1>1, <1>5 DEF SameTop
<1>8. Removals'
  <2>1. \A q \in Proc : ~ Active(q)'
        BY <1>4 DEF Active, Removing, Undoing
  <2> QED  BY <2>1 DEF Removals
<1>9. AtTop'
      BY <1>1, <1>4, <1>5 DEF AtTop
<1>10. (\A j \in Index : PairedDir(dirs[j], trail[j]))'
      BY <1>1 DEF RInv
<1>11. \A q \in Proc : Along(q)'
  <2>1. ASSUME NEW q \in Proc \ {p} PROVE Along(q)'
        BY <1>4 DEF Along, Undoing
  <2> QED  BY <2>1
<1> QED  BY <1>3, <1>6, <1>7, <1>8, <1>9, <1>10, <1>11 DEF RInv

\* What is known of the directory a rollback is at.
LEMMA TopDir ==
    ASSUME TInv, RInv, NEW p \in Proc, pc[p] \in Undoing \ {"load"}
    PROVE  /\ mem[p][2] \in Index /\ dirs[mem[p][2]] \in Dir /\ At(p) = dirs[mem[p][2]]
           /\ trail[mem[p][2]] \in Seq(System) /\ sys \in System
           /\ PairedDir(dirs[mem[p][2]], trail[mem[p][2]])
           /\ dirs[mem[p][2]] # Missing => Leads(dirs[mem[p][2]], trail[mem[p][2]], sys)
<1>1. /\ mem[p][2] \in Index /\ mem[p][1] <= mem[p][2] /\ mem[p][2] \in Int
      BY UndoingAt
<1>2. AheadIn(mem[p], sys, dirs, trail)
      BY DEF RInv, AllAhead, Current
<1>3. dirs[mem[p][2]] # Missing => Leads(dirs[mem[p][2]], trail[mem[p][2]], sys)
      BY <1>1, <1>2 DEF AheadIn
<1> QED  BY <1>1, <1>3 DEF TInv, Types, RInv, At

LEMMA NotMissing ==
    ASSUME NEW d, Len(d.repos) # 0 \/ Len(d.local) # 0
    PROVE  d # Missing
BY MissingDir

LEMMA ReposRInv ==
    ASSUME TInv, RInv, NEW p \in Proc, ReposPhase(p)
    PROVE  RInv'
<1> DEFINE k == mem[p][2]
           d == dirs[k]
           n == left[p]
<1>1. pc[p] = "repos" /\ pc[p] \in Undoing \ {"load"} /\ UNCHANGED <<stack, holder, own, trail>>
      BY DEF ReposPhase, Undoing
<1>2. /\ k \in Index /\ d \in Dir /\ At(p) = d /\ trail[k] \in Seq(System) /\ sys \in System
      /\ PairedDir(d, trail[k])
      /\ d # Missing => Leads(d, trail[k], sys)
      BY <1>1, TopDir
<1>3. n >= 1 /\ Len(d.repos) = n /\ Len(d.local) = n /\ n \in Int
      BY <1>1, <1>2, UndoingAt DEF Plans, Pairwise
<1>4. d # Missing
      BY <1>3, NotMissing
<1>5. CASE Installed(d.repos[n])
  <2>1. /\ sys' = Back(sys, d.repos[n]) /\ counter' = counter + 1
        /\ pc' = [pc EXCEPT ![p] = "local"]
        BY <1>2, <1>5 DEF ReposPhase, Goto
  <2>3. trail[k][n] = UndoLocal(sys', d.local[n]) /\ Leads(d, trail[k], sys')
    <3>1. /\ d \in Dir /\ trail[k] \in Seq(System) /\ sys \in System
          /\ Leads(d, trail[k], sys) /\ PairedDir(d, trail[k])
          BY <1>2, <1>4
    <3>2. n = Len(d.repos) /\ Len(d.repos) >= 1
          BY <1>3
    <3>3. sys' = Back(sys, d.repos[n])
          BY <2>1
    <3> HIDE DEF d, k, n
    <3>5. LET m == Len(d.repos)
              b == Back(sys, d.repos[m])
          IN  trail[k][m] = UndoLocal(b, d.local[m]) /\ Leads(d, trail[k], b)
          BY <3>1, <3>2, ReposBack
    <3> QED  BY <3>2, <3>3, <3>5
  <2>4. pc'[p] = "local" /\ mem' = mem /\ dirs' = dirs
        BY <1>1, <2>1 DEF TInv, Types, own, stack
  <2>5. Along(p)'
        BY <1>1, <1>3, <2>3, <2>4 DEF Along
  <2>6. pc'[p] \in Undoing \ {"load"} /\ \A q \in Proc \ {p} : Same(q)
        BY <1>1, <2>1, <2>4 DEF Undoing, Same, own, TInv, Types
  <2> QED  BY <1>1, <1>2, <2>1, <2>3, <2>4, <2>5, <2>6, UndoRInv DEF own, stack
<1>6. CASE ~ Installed(d.repos[n])
  <2>1. UNCHANGED <<sys, counter>> /\ pc' = [pc EXCEPT ![p] = "finish"]
        BY <1>2, <1>6 DEF ReposPhase, Goto
  <2>2. pc'[p] = "finish" /\ \A q \in Proc \ {p} : Same(q)
        BY <1>1, <2>1 DEF Same, own, TInv, Types
  <2>3. ~ Current(p)' /\ ~ Active(p)' /\ pc'[p] \notin Undoing
        BY <2>2 DEF Current, Active, Undoing, Removing
  <2> QED  BY <1>1, <2>1, <2>2, <2>3, StillRInv DEF RInv, own, stack
<1> QED  BY <1>5, <1>6

LEMMA LocalRInv ==
    ASSUME TInv, RInv, NEW p \in Proc, LocalPhase(p)
    PROVE  RInv'
<1> DEFINE k == mem[p][2]
           d == dirs[k]
           n == left[p]
<1>1. pc[p] = "local" /\ pc[p] \in Undoing \ {"load"} /\ UNCHANGED <<stack, holder, own, trail>>
      BY DEF LocalPhase, Undoing
<1>2. /\ k \in Index /\ d \in Dir /\ At(p) = d /\ trail[k] \in Seq(System) /\ sys \in System
      /\ PairedDir(d, trail[k])
      /\ d # Missing => Leads(d, trail[k], sys)
      BY <1>1, TopDir
<1>3. n >= 1 /\ Len(d.repos) = n /\ Len(d.local) = n /\ n \in Int
      BY <1>1, <1>2, UndoingAt DEF Plans, Pairwise
<1>4. d # Missing
      BY <1>3, NotMissing
<1>5. /\ sys' = UndoLocal(sys, d.local[n]) /\ counter' \in {counter, counter + 1}
      /\ pc' = [pc EXCEPT ![p] = "unlink"]
      BY <1>2 DEF LocalPhase, Goto, UndoLocal
<1>6. Along(p)
      BY DEF RInv
<1>7. trail[k][n] = UndoLocal(sys, d.local[n])
      BY <1>1, <1>3, <1>6 DEF Along
<1>8. Leads(d, trail[k], sys')
      BY <1>2, <1>3, <1>4, <1>5, <1>7, LocalBack
<1>9. pc'[p] = "unlink" /\ mem' = mem /\ dirs' = dirs
      BY <1>1, <1>5 DEF TInv, Types, own, stack
<1>10. Along(p)'
      BY <1>1, <1>3, <1>5, <1>7, <1>9 DEF Along
<1>11. pc'[p] \in Undoing \ {"load"} /\ \A q \in Proc \ {p} : Same(q)
      BY <1>1, <1>5, <1>9 DEF Undoing, Same, own, TInv, Types
<1> QED  BY <1>1, <1>2, <1>5, <1>8, <1>9, <1>10, <1>11, UndoRInv DEF own, stack

LEMMA UnlinkReposRInv ==
    ASSUME TInv, TInv', RInv, NEW p \in Proc, UnlinkRepos(p)
    PROVE  RInv'
<1> DEFINE k == mem[p][2]
           d == dirs[k]
           n == left[p]
           e == [d EXCEPT !.repos = SubSeq(d.repos, 1, n - 1)]
<1>1. /\ pc[p] = "unlink" /\ pc[p] \in Undoing \ {"load"}
      /\ UNCHANGED <<sys, counter, status, holder, own, trail>>
      /\ dirs' = [dirs EXCEPT ![k] = e] /\ pc' = [pc EXCEPT ![p] = "unlink2"]
      BY DEF UnlinkRepos, Undoing, Goto
<1>2. /\ k \in Index /\ d \in Dir /\ At(p) = d /\ trail[k] \in Seq(System) /\ sys \in System
      /\ PairedDir(d, trail[k])
      /\ d # Missing => Leads(d, trail[k], sys)
      BY <1>1, TopDir
<1>3. n >= 1 /\ Len(d.repos) = n /\ Len(d.local) = n /\ n \in Int
      BY <1>1, <1>2, UndoingAt DEF Plans, Pairwise
<1>4. d # Missing
      BY <1>3, NotMissing
<1>5. dirs'[k] = e /\ e \in Dir /\ \A j \in Index \ {k} : dirs'[j] = dirs[j]
      BY <1>1, <1>2 DEF TInv, Types
<1>6. /\ Len(e.repos) = n - 1 /\ e.local = d.local
      /\ \A i \in 1..(n - 1) : e.repos[i] = d.repos[i]
  <2>1. d.repos \in Seq(Pairs)
        BY <1>2, DirParts
  <2>2. n - 1 \in Nat /\ n - 1 <= Len(d.repos)
        BY <1>3
  <2>3. /\ Len(SubSeq(d.repos, 1, n - 1)) = n - 1
        /\ \A i \in 1..(n - 1) : SubSeq(d.repos, 1, n - 1)[i] = d.repos[i]
        BY <2>1, <2>2, Shorter
  <2>4. e.repos = SubSeq(d.repos, 1, n - 1) /\ e.local = d.local
        BY <1>2 DEF Dir
  <2> QED  BY <2>3, <2>4
<1>7. trail[k][n] = sys
  <2>1. Along(p)
        BY DEF RInv
  <2> QED  BY <1>1, <1>3, <2>1 DEF Along
<1> HIDE DEF e
<1>8. Leads(e, trail[k], sys) /\ PairedDir(e, trail[k])
  <2>1. Len(e.repos) <= Len(e.local)
        BY <1>3, <1>6
  <2>2. Leads(d, trail[k], sys)
        BY <1>2, <1>4
  <2>3. Len(e.repos) = Len(d.repos) - 1 /\ Len(d.repos) >= 1 /\ trail[k][Len(d.repos)] = sys
        BY <1>3, <1>6, <1>7
  <2>4. \A i \in 1..Len(e.repos) : e.repos[i] = d.repos[i] /\ e.local[i] = d.local[i]
        BY <1>6
  <2>5. /\ d \in Dir /\ e \in Dir /\ trail[k] \in Seq(System) /\ sys \in System
        /\ PairedDir(d, trail[k])
        BY <1>2, <1>5
  <2> HIDE DEF d, k, n
  <2> QED  BY <2>1, <2>2, <2>3, <2>4, <2>5, PairGone
<1>9. pc'[p] = "unlink2" /\ mem' = mem
      BY <1>1 DEF TInv, Types, own
<1>10. Along(p)'
  <2>1. Len(e.repos) + 1 = n
        BY <1>3, <1>6
  <2> QED  BY <1>1, <1>5, <1>7, <1>9, <2>1 DEF Along
<1>11. pc'[p] \in Undoing \ {"load"} /\ \A q \in Proc \ {p} : Same(q)
      BY <1>1, <1>9 DEF Undoing, Same, own, TInv, Types
<1> QED  BY <1>1, <1>5, <1>8, <1>9, <1>10, <1>11, UndoRInv DEF own

\* The steps between which the pairs that count stay the same.
LEMMA KeepRInv ==
    ASSUME TInv, TInv', RInv, NEW p \in Proc,
           UnlinkLocal(p) \/ Truncate(p) \/ WriteCount(p)
    PROVE  RInv'
<1> DEFINE k == mem[p][2]
           d == dirs[k]
           e == dirs'[k]
           m == Len(d.repos)
<1>1. /\ pc[p] \in {"unlink2", "truncate", "count"} /\ pc[p] \in Undoing \ {"load"}
      /\ UNCHANGED <<sys, counter, status, holder, mem, seen, todo, trail>>
      BY DEF UnlinkLocal, Truncate, WriteCount, Undoing, own
<1>2. /\ k \in Index /\ d \in Dir /\ At(p) = d /\ trail[k] \in Seq(System) /\ sys \in System
      /\ PairedDir(d, trail[k])
      /\ d # Missing => Leads(d, trail[k], sys)
      BY <1>1, TopDir
<1>3. /\ pc[p] = "unlink2" => left[p] >= 1 /\ m = left[p] - 1 /\ Len(d.local) = left[p]
      /\ pc[p] = "truncate" => left[p] >= 1 /\ m = left[p] - 1 /\ Len(d.local) = m
      /\ pc[p] = "count" => left[p] >= 0 /\ m = left[p] /\ Len(d.local) = m
      /\ left[p] \in Int /\ m \in Nat
      BY <1>1, <1>2, UndoingAt DEF Plans, Pairwise
<1>4. /\ e \in Dir /\ \A j \in Index \ {k} : dirs'[j] = dirs[j]
      /\ e = IF pc[p] = "unlink2" THEN [d EXCEPT !.local = SubSeq(d.local, 1, left[p] - 1)]
             ELSE IF pc[p] = "truncate" THEN [d EXCEPT !.count = -1]
             ELSE [d EXCEPT !.count = left[p]]
      BY <1>1, <1>2 DEF UnlinkLocal, Truncate, WriteCount, TInv, Types
<1>5. e.repos = d.repos
      BY <1>1, <1>2, <1>4 DEF Dir
<1>6. Len(e.local) = m /\ \A i \in 1..m : e.local[i] = d.local[i]
  <2>1. CASE pc[p] = "unlink2"
    <3>1. d.local \in Seq(SUBSET Trove)
          BY <1>2, DirParts
    <3>2. left[p] - 1 \in Nat /\ left[p] - 1 <= Len(d.local) /\ m = left[p] - 1
          BY <1>3, <2>1
    <3>3. e.local = SubSeq(d.local, 1, left[p] - 1)
          BY <1>2, <1>4, <2>1 DEF Dir
    <3> QED  BY <3>1, <3>2, <3>3, Shorter
  <2>2. CASE pc[p] # "unlink2"
        BY <1>1, <1>2, <1>3, <1>4, <2>2 DEF Dir
  <2> QED  BY <2>1, <2>2
<1>7. trail[k][m + 1] = sys
  <2>1. Along(p)
        BY DEF RInv
  <2> QED  BY <1>1, <2>1 DEF Along
<1> HIDE DEF e
<1>8. Leads(e, trail[k], sys) /\ PairedDir(e, trail[k])
  <2>1. CASE m = 0
    <3>1. Len(e.repos) = 0 /\ trail[k][1] = sys /\ Len(e.repos) <= Len(e.local)
          BY <1>5, <1>6, <1>7, <2>1
    <3>2. Leads(e, trail[k], sys)
          BY <3>1 DEF Leads
    <3>3. PairedDir(e, trail[k])
      <4>1. PairedDir(d, trail[k])
            BY <1>2
      <4> HIDE DEF d, k, m
      <4> QED  BY <3>1, <4>1 DEF PairedDir
    <3> QED  BY <3>2, <3>3
  <2>2. CASE m # 0
    <3>1. Leads(d, trail[k], sys)
          BY <1>2, <2>2, NotMissing
    <3>2. Len(e.repos) = Len(d.repos)
          BY <1>5
    <3>3. Len(e.repos) <= Len(e.local)
          BY <1>3, <1>6, <3>2
    <3>4. \A i \in 1..Len(e.repos) : e.repos[i] = d.repos[i] /\ e.local[i] = d.local[i]
          BY <1>5, <1>6
    <3>5. d \in Dir /\ e \in Dir /\ trail[k] \in Seq(System) /\ PairedDir(d, trail[k])
          BY <1>2, <1>4
    <3> HIDE DEF d, k
    <3> QED  BY <3>1, <3>2, <3>3, <3>4, <3>5, PairsKept
  <2> QED  BY <2>1, <2>2
<1>9. pc'[p] \in {"truncate", "count", "repos", "drop"}
      BY DEF UnlinkLocal, Truncate, WriteCount, Goto, TInv, Types
<1>10. Along(p)'
      BY <1>1, <1>5, <1>7, <1>9 DEF Along, e
<1>11. pc'[p] \in Undoing \ {"load"}
      BY <1>9 DEF Undoing
<1>12. \A q \in Proc \ {p} : Same(q)
      BY <1>1 DEF UnlinkLocal, Truncate, WriteCount, Goto, Same, own, TInv, Types
<1> QED  BY <1>1, <1>4, <1>8, <1>10, <1>11, <1>12, UndoRInv DEF e

LEMMA DropRInv ==
    ASSUME TInv, RInv, NEW p \in Proc, Drop(p)
    PROVE  RInv'
<1> DEFINE k == mem[p][2]
<1>1. /\ pc[p] = "drop" /\ pc[p] \in Undoing \ {"load"}
      /\ UNCHANGED <<sys, counter, status, holder, own, trail>>
      /\ dirs' = [dirs EXCEPT ![k] = Missing] /\ pc' = [pc EXCEPT ![p] = "unlist"]
      BY DEF Drop, Undoing, Goto
<1>2. /\ k \in Index /\ trail[k] \in Seq(System) /\ PairedDir(dirs[k], trail[k])
      /\ At(p) = dirs[k]
      BY <1>1, TopDir
<1>3. Len(dirs[k].repos) = 0
      BY <1>1, <1>2, UndoingAt DEF Plans, Pairwise
<1>4. trail[k][1] = sys
  <2>1. Along(p)
        BY DEF RInv
  <2>2. trail[k][0 + 1] = sys
        BY <1>1, <1>3, <2>1 DEF Along
  <2> QED  BY <2>2
<1>5. dirs'[k] = Missing /\ \A j \in Index \ {k} : dirs'[j] = dirs[j]
      BY <1>1, <1>2 DEF TInv, Types
<1>6. PairedDir(Missing, trail[k])
      BY <1>2, GonePaired
<1>7. pc'[p] = "unlist" /\ mem' = mem
      BY <1>1 DEF TInv, Types, own
<1>8. Along(p)'
      BY <1>1, <1>4, <1>5, <1>7 DEF Along
<1>9. pc'[p] \in Undoing \ {"load"} /\ \A q \in Proc \ {p} : Same(q)
      BY <1>1, <1>7 DEF Undoing, Same, own, TInv, Types
<1> QED  BY <1>1, <1>5, <1>6, <1>7, <1>8, <1>9, UndoRInv DEF own

LEMMA UnlistRInv ==
    ASSUME TInv, RInv, NEW p \in Proc, Unlist(p)
    PROVE  RInv'
<1> DEFINE k == mem[p][2]
           v == mem'[p]
<1>1. /\ pc[p] = "unlist" /\ pc[p] \in Undoing \ {"load"}
      /\ UNCHANGED <<sys, counter, dirs, holder, seen, left, trail>>
      /\ pc' = [pc EXCEPT ![p] = "load"] /\ status' = v
      /\ mem' = [mem EXCEPT ![p][2] = @ - 1] /\ todo' = [todo EXCEPT ![p] = @ - 1]
      BY DEF Unlist, Undoing, Goto
<1>2. /\ k \in Index /\ k \in Int /\ mem[p][1] \in Int
      /\ \A q \in Proc \ {p} : pc[q] \notin Holding \cup Removing
      BY <1>1, UndoingAt
<1>3. v[1] = mem[p][1] /\ v[2] = k - 1
  <2>1. mem[p] = <<mem[p][1], mem[p][2]>>
        BY StatusParts DEF TInv, Types
  <2>2. v = [mem[p] EXCEPT ![2] = mem[p][2] - 1]
        BY <1>1 DEF TInv, Types
  <2> QED  BY <2>1, <2>2
<1>4. \A q \in Proc \ {p} : Same(q)
      BY <1>1 DEF Same, TInv, Types
<1>5. pc'[p] = "load"
      BY <1>1 DEF TInv, Types
<1> HIDE DEF v
<1>6. dirs[k] = Missing /\ trail[k][1] = sys
  <2>1. Along(p)
        BY DEF RInv
  <2> QED  BY <1>1, <2>1 DEF Along
<1>7. AheadIn(v, sys, dirs, trail)
  <2>1. AheadIn(mem[p], sys, dirs, trail)
        BY <1>1 DEF RInv, AllAhead, Current
  <2> SUFFICES ASSUME NEW j \in Index, v[1] <= j, j <= v[2], dirs[j] # Missing
               PROVE  Leads(dirs[j], trail[j], IF j = v[2] THEN sys ELSE trail[j + 1][1])
        BY DEF AheadIn
  <2>2. j \in Int /\ mem[p][1] <= j /\ j <= k /\ j # k
        BY <1>2, <1>3, Numbers
  <2>3. Leads(dirs[j], trail[j], trail[j + 1][1])
        BY <2>1, <2>2 DEF AheadIn
  <2>4. j = v[2] => j + 1 = k
        BY <1>2, <1>3, <2>2
  <2> QED  BY <1>6, <2>3, <2>4
<1>8. ASSUME NEW q \in Proc \ {p}, Current(q)'
      PROVE  Current(q) /\ mem'[q] = mem[q] /\ mem[q][2] = k
  <2>1. Current(q) /\ mem'[q] = mem[q]
        BY <1>1, <1>4, <1>8 DEF Current, Same
  <2> QED  BY <1>1, <2>1 DEF RInv, AtTop
<1>9. AllAhead'
  <2>1. ASSUME NEW q \in Proc, Current(q)' PROVE AheadIn(mem'[q], sys, dirs, trail)
    <3>1. CASE q = p
          BY <1>7, <3>1 DEF v
    <3>2. CASE q # p
          BY <1>8, <2>1, <3>2 DEF RInv, AllAhead
    <3> QED  BY <3>1, <3>2
  <2> QED  BY <1>1, <1>7, <2>1 DEF AllAhead
<1>10. SameTop'
  <2>1. ASSUME NEW q \in Proc, Current(q)', Live(mem'[q], dirs) PROVE v[2] = mem'[q][2]
    <3>1. CASE q = p
          BY <3>1 DEF v
    <3>2. CASE q # p
          BY <1>6, <1>8, <2>1, <3>2 DEF Live
    <3> QED  BY <3>1, <3>2
  <2> QED  BY <1>1, <2>1 DEF SameTop
<1>11. Removals'
  <2>1. \A q \in Proc : ~ Active(q)'
        BY <1>2, <1>4, <1>5 DEF Active, Removing, Same
  <2> QED  BY <2>1 DEF Removals
<1>12. \A q \in Proc : pc'[q] \notin (Undoing \ {"load"}) \cup {"hunk"}
      BY <1>2, <1>4, <1>5 DEF Same, Holding
<1>13. AtTop' /\ \A q \in Proc : Along(q)'
      BY <1>12 DEF AtTop, Along, Undoing
<1>14. \A q \in Proc : (seen[q] <= counter)'
      BY <1>1 DEF RInv
<1>15. (\A j \in Index : PairedDir(dirs[j], trail[j]))'
      BY <1>1 DEF RInv
<1> QED  BY <1>9, <1>10, <1>11, <1>13, <1>14, <1>15 DEF RInv

\* The stacks whose last rollback may be there.
LEMMA LiveIndex ==
    ASSUME NEW v \in Status, NEW ds, Live(v, ds)
    PROVE  v[2] \in Index
<1>1. v[1] \in 0..(MaxIndex + 1) /\ v[2] \in -1..MaxIndex /\ v[1] <= v[2]
      BY StatusParts DEF Live
<1> QED  BY <1>1, Numbers DEF Index

LEMMA RemoveOldestRInv ==
    ASSUME TInv, RInv, NEW p \in Proc, RemoveOldest(p)
    PROVE  RInv'
<1> DEFINE k == mem[p][1]
<1>1. /\ pc[p] = "rm" /\ todo[p] > 0 /\ dirs' = [dirs EXCEPT ![k] = Missing]
      /\ todo' = [todo EXCEPT ![p] = @ - 1] /\ pc' = [pc EXCEPT ![p] = "rmUnlist"]
      /\ UNCHANGED <<sys, counter, status, holder, mem, seen, left, trail>>
      BY DEF RemoveOldest, Goto
<1>2. k \in Index /\ \A q \in Proc : pc[q] \notin Holding
      BY <1>1, RemovingAt
<1>3. dirs'[k] = Missing /\ \A j \in Index \ {k} : dirs'[j] = dirs[j]
      BY <1>1, <1>2 DEF TInv, Types
<1>4. pc'[p] = "rmUnlist" /\ \A q \in Proc \ {p} : Same(q)
      BY <1>1 DEF Same, TInv, Types
<1>5. \A q \in Proc : (Current(q)' => Current(q)) /\ (Active(q)' => Active(q))
  <2>1. Current(p) /\ Active(p)
        BY <1>1 DEF Current, Active, Removing
  <2>2. \A q \in Proc \ {p} : (Current(q)' => Current(q)) /\ (Active(q)' => Active(q))
        BY <1>1, <1>4 DEF Current, Active, Same
  <2> QED  BY <2>1, <2>2
<1>6. \A q \in Proc : pc'[q] \notin Holding
      BY <1>2, <1>4 DEF Same, Holding, Undoing
<1>7. ASSUME NEW v, AheadIn(v, sys, dirs, trail)
      PROVE  AheadIn(v, sys, dirs', trail)
      BY <1>3, <1>7 DEF AheadIn
<1>8. ASSUME NEW v \in Status, Live(v, dirs')
      PROVE  Live(v, dirs)
  <2>1. v[2] \in Index
        BY <1>8, LiveIndex
  <2> QED  BY <1>3, <1>8, <2>1 DEF Live
<1>9. status \in Status /\ \A q \in Proc : mem[q] \in Status
      BY DEF TInv, Types
<1>10. AllAhead'
      BY <1>1, <1>5, <1>7 DEF RInv, AllAhead
<1>11. SameTop'
      BY <1>1, <1>5, <1>8, <1>9 DEF RInv, SameTop
<1>12. Removals'
  <2> SUFFICES ASSUME NEW q \in Proc, Active(q)'
               PROVE  /\ Live(status, dirs') => status[2] = mem[q][2]
                      /\ \A r \in Proc : Current(r)' /\ Live(mem[r], dirs')
                                           => mem[r][2] = mem[q][2]
                      /\ dirs'[mem[q][1]] = Missing \/ pc'[q] # "rmUnlist"
        BY <1>1 DEF Removals
  <2>1. Active(q)
        BY <1>5
  <2>2. Live(status, dirs') => status[2] = mem[q][2]
        BY <1>8, <1>9, <2>1 DEF RInv, Removals
  <2>3. \A r \in Proc : Current(r)' /\ Live(mem[r], dirs') => mem[r][2] = mem[q][2]
        BY <1>5, <1>8, <1>9, <2>1 DEF RInv, Removals
  <2>4. CASE q = p
        BY <1>3, <2>2, <2>3, <2>4
  <2>5. CASE q # p
    <3>1. mem[q][1] \in Index
          BY <2>1, RemovingAt DEF Active
    <3>2. pc'[q] = "rmUnlist" => dirs[mem[q][1]] = Missing
          BY <1>4, <2>1, <2>5 DEF RInv, Removals, Same
    <3> QED  BY <1>3, <2>2, <2>3, <3>1, <3>2
  <2> QED  BY <2>4, <2>5
<1>13. AtTop' /\ \A q \in Proc : Along(q)'
      BY <1>6 DEF AtTop, Along, Holding, Undoing
<1>14. \A j \in Index : PairedDir(dirs'[j], trail[j])
  <2>1. trail[k] \in Seq(System) /\ PairedDir(dirs[k], trail[k])
        BY <1>2 DEF RInv, TInv, Types
  <2>2. PairedDir(Missing, trail[k])
        BY <2>1, GonePaired
  <2> QED  BY <1>3, <2>2 DEF RInv
<1>15. \A q \in Proc : (seen[q] <= counter)'
      BY <1>1 DEF RInv
<1> QED  BY <1>1, <1>10, <1>11, <1>12, <1>13, <1>14, <1>15 DEF RInv

LEMMA UnlistOldestRInv ==
    ASSUME TInv, RInv, NEW p \in Proc, UnlistOldest(p)
    PROVE  RInv'
<1> DEFINE v == IF mem[p][1] = mem[p][2] THEN <<mem[p][1], mem[p][2] - 1>>
                ELSE <<mem[p][1] + 1, mem[p][2]>>
<1>1. /\ pc[p] = "rmUnlist" /\ mem' = [mem EXCEPT ![p] = v] /\ status' = mem'[p]
      /\ pc' = [pc EXCEPT ![p] = "rm"]
      /\ UNCHANGED <<sys, counter, dirs, holder, seen, todo, left, trail>>
      BY DEF UnlistOldest, Goto
<1>2. /\ mem[p][1] \in Int /\ mem[p][2] \in Int /\ mem[p][1] \in Index
      /\ mem[p][1] <= mem[p][2] /\ \A q \in Proc : pc[q] \notin Holding
      BY <1>1, RemovingAt
<1>3. /\ mem[p][1] = mem[p][2] => ~ (v[1] <= v[2]) /\ v[2] = mem[p][2] - 1
      /\ mem[p][1] # mem[p][2] => v[2] = mem[p][2] /\ v[1] = mem[p][1] + 1
      BY <1>2
<1>4. mem'[p] = v /\ pc'[p] = "rm" /\ \A q \in Proc \ {p} : Same(q)
      BY <1>1 DEF Same, TInv, Types
<1> HIDE DEF v
<1>5. Current(p) /\ Active(p) /\ dirs[mem[p][1]] = Missing
      BY <1>1 DEF Current, Active, Removing, RInv, Removals
<1>6. \A q \in Proc \ {p} : /\ mem'[q] = mem[q] /\ pc'[q] = pc[q]
                            /\ Current(q)' => Current(q)
                            /\ Active(q)' => Active(q)
      BY <1>1, <1>4 DEF Current, Active, Same
<1>7. \A q \in Proc : pc'[q] \notin Holding
      BY <1>2, <1>4 DEF Same, Holding, Undoing
<1>8. AheadIn(v, sys, dirs, trail)
  <2>1. AheadIn(mem[p], sys, dirs, trail)
        BY <1>5 DEF RInv, AllAhead
  <2>2. CASE mem[p][1] = mem[p][2]
    <3>1. ASSUME NEW j \in Index, v[1] <= j, j <= v[2] PROVE FALSE
      <4>1. v[1] \in Int /\ v[2] \in Int /\ j \in Int
            BY <1>2, Numbers DEF v
      <4> QED  BY <1>3, <2>2, <3>1, <4>1
    <3> QED  BY <3>1 DEF AheadIn
  <2>3. CASE mem[p][1] # mem[p][2]
    <3>1. ASSUME NEW j \in Index, v[1] <= j, j <= v[2] PROVE mem[p][1] <= j /\ j <= mem[p][2]
          BY <1>2, <1>3, <2>3, <3>1, Numbers
    <3> QED  BY <1>3, <2>1, <2>3, <3>1 DEF AheadIn
  <2> QED  BY <2>2, <2>3
<1>9. Live(v, dirs) => Live(mem[p], dirs) /\ v[2] = mem[p][2]
      BY <1>2, <1>3 DEF Live
<1>10. ASSUME NEW q \in Proc, Current(q)', Live(mem'[q], dirs)
       PROVE  v[2] = mem'[q][2]
  <2>1. CASE q = p
        BY <1>4, <2>1
  <2>2. CASE q # p
    <3>1. Current(q) /\ mem'[q] = mem[q]
          BY <1>6, <1>10, <2>2
    <3>2. mem[q][2] = mem[p][2] /\ dirs[mem[q][2]] # Missing
          BY <1>5, <1>10, <3>1 DEF RInv, Removals, Live
    <3> QED  BY <1>3, <1>5, <3>1, <3>2
  <2> QED  BY <2>1, <2>2
<1>11. AllAhead'
  <2>1. ASSUME NEW q \in Proc, Current(q)' PROVE AheadIn(mem'[q], sys, dirs, trail)
    <3>1. CASE q = p
          BY <1>4, <1>8, <3>1
    <3>2. CASE q # p
          BY <1>6, <2>1, <3>2 DEF RInv, AllAhead
    <3> QED  BY <3>1, <3>2
  <2> QED  BY <1>1, <1>4, <1>8, <2>1 DEF AllAhead
<1>12. SameTop'
      BY <1>1, <1>4, <1>10 DEF SameTop
<1>13. Removals'
  <2> SUFFICES ASSUME NEW q \in Proc, Active(q)'
               PROVE  /\ Live(v, dirs) => v[2] = mem'[q][2]
                      /\ \A r \in Proc : Current(r)' /\ Live(mem'[r], dirs)
                                           => mem'[r][2] = mem'[q][2]
                      /\ pc'[q] = "rmUnlist" => dirs[mem'[q][1]] = Missing
        BY <1>1, <1>4 DEF Removals
  <2>1. CASE q = p
        BY <1>4, <1>10, <2>1
  <2>2. CASE q # p
    <3>1. Active(q) /\ mem'[q] = mem[q] /\ pc'[q] = pc[q]
          BY <1>6, <2>2
    <3>2. Live(v, dirs) => v[2] = mem[q][2]
          BY <1>5, <1>9, <3>1 DEF RInv, Removals
    <3>3. ASSUME NEW r \in Proc, Current(r)', Live(mem'[r], dirs)
          PROVE  mem'[r][2] = mem[q][2]
      <4>1. CASE r = p
            BY <1>4, <3>2, <3>3, <4>1
      <4>2. CASE r # p
            BY <1>6, <3>1, <3>3, <4>2 DEF RInv, Removals
      <4> QED  BY <4>1, <4>2
    <3>4. pc[q] = "rmUnlist" => dirs[mem[q][1]] = Missing
          BY <3>1 DEF RInv, Removals
    <3> QED  BY <3>1, <3>2, <3>3, <3>4
  <2> QED  BY <2>1, <2>2
<1>14. AtTop' /\ \A q \in Proc : Along(q)'
      BY <1>7 DEF AtTop, Along, Holding, Undoing
<1>15. (\A j \in Index : PairedDir(dirs[j], trail[j]))'
      BY <1>1 DEF RInv
<1>16. \A q \in Proc : (seen[q] <= counter)'
      BY <1>1 DEF RInv
<1> QED  BY <1>11, <1>12, <1>13, <1>14, <1>15, <1>16 DEF RInv

\* A change set puts its pair on top.
LEMMA HunkDirs ==
    ASSUME TInv, TInv', RInv, NEW p \in Proc, NEW k, k = HunkAt(p), Hunk(p)
    PROVE  /\ Leads(dirs'[k], trail'[k], sys') /\ PairedDir(dirs'[k], trail'[k])
           /\ Len(dirs'[k].repos) >= 1 /\ Len(dirs'[k].local) = Len(dirs'[k].repos)
           /\ Len(trail'[k]) = Len(dirs'[k].repos)
           /\ LET n == Len(dirs'[k].repos)
              IN  trail'[k][n] = Undo(sys', dirs'[k].repos[n], dirs'[k].local[n])
           /\ left[p] = -1 => trail'[k][1] = sys
           /\ left[p] # -1 => trail'[k][1] = trail[k][1]
<1>0. PICK T \in (SUBSET Trove) \ {{}} : \E new \in [T -> Version] :
             \E first : HunkWith(p, T, new, first)
      BY HunkParts
<1>a. PICK new \in [T -> Version] : \E first : HunkWith(p, T, new, first)
      BY <1>0
<1>1. PICK first : HunkWith(p, T, new, first)
      BY <1>a
<1> DEFINE d == HunkDir(p)
           r == ReposPart(T, new)
           l == LocalPart(T)
           n == Len(d.repos)
           e == dirs'[k]
           tr == trail[k]
           tr2 == trail'[k]
<1>2. /\ k \in Index /\ d \in Dir /\ left[p] \in {-1, 0} /\ pc[p] = "hunk"
      /\ sys \in System /\ sys' \in System /\ e \in Dir /\ tr \in Seq(System)
      /\ tr2 \in Seq(System)
      BY HunkRoom DEF TInv, Types, Hunk
<1>3. /\ r \in Pairs /\ DOMAIN r = T /\ l \in SUBSET Trove /\ l = sys.local \cap T
      /\ \A t \in T : r[t][1] = sys.ver[t] /\ r[t][2] = new[t]
      BY PairOf DEF TInv, Types, LocalPart
<1>4. DOMAIN r # {} /\ \A t \in DOMAIN r : r[t][1] = sys.ver[t] /\ r[t][1] # r[t][2]
  <2>1. \A t \in T : new[t] # sys.ver[t]
        BY <1>1 DEF HunkWith
  <2> QED  BY <1>3, <2>1
<1> HIDE DEF r, l
<1>5. /\ sys'.local = sys.local \ DOMAIN r
      /\ \A t \in Trove \ DOMAIN r : sys'.ver[t] = sys.ver[t]
  <2>1. sys' = [ver |-> [t \in Trove |-> IF t \in T THEN new[t] ELSE sys.ver[t]],
                local |-> sys.local \ T]
        BY <1>1 DEF HunkWith
  <2>2. sys'.local = sys.local \ T /\ \A t \in Trove \ T : sys'.ver[t] = sys.ver[t]
        BY <2>1
  <2> QED  BY <1>3, <2>2
<1>6. e.repos = Append(d.repos, r) /\ e.local = Append(d.local, l)
  <2>1. dirs' = [dirs EXCEPT ![k] = [count |-> d.count + 1, repos |-> Append(d.repos, r),
                                      local |-> Append(d.local, l)]]
        BY <1>1 DEF HunkWith, r, l
  <2> HIDE DEF d
  <2>2. e = [count |-> d.count + 1, repos |-> Append(d.repos, r), local |-> Append(d.local, l)]
        BY <1>2, <2>1 DEF TInv, Types
  <2> QED  BY <2>2
<1>7. tr2 = IF left[p] = -1 THEN <<sys>> ELSE Append(tr, sys)
      BY <1>1, <1>2 DEF HunkWith, TInv, Types
<1>8. n \in Nat
      BY <1>2, DirParts
<1>9. /\ n = Len(d.local) /\ Len(tr2) = n + 1 /\ tr2[n + 1] = sys
      /\ n > 0 => /\ \A i \in 1..n : tr2[i] = tr[i]
                  /\ tr[n] = Undo(sys, d.repos[n], d.local[n])
                  /\ Leads(d, tr, sys) /\ PairedDir(d, tr)
      /\ left[p] = -1 => tr2[1] = sys
      /\ left[p] # -1 => tr2[1] = tr[1]
  <2>1. CASE left[p] = -1
    <3>1. d.repos = <<>> /\ d.local = <<>>
          BY <2>1 DEF HunkDir, Missing
    <3>2. tr2 = <<sys>>
          BY <1>7, <2>1
    <3>3. n = 0 /\ Len(d.local) = 0
          BY <3>1
    <3> QED  BY <2>1, <3>2, <3>3
  <2>2. CASE left[p] # -1
    <3>1. d = dirs[k] /\ k = mem[p][2]
          BY <2>2 DEF HunkAt, HunkDir
    <3>2. Along(p)
          BY DEF RInv
    <3>3. /\ n >= 1 /\ Len(d.local) = n /\ Len(tr) = n
          /\ tr[n] = Undo(sys, d.repos[n], d.local[n]) /\ Leads(d, tr, sys)
          BY <1>2, <2>2, <3>1, <3>2 DEF Along
    <3>4. PairedDir(d, tr)
          BY <1>2, <3>1 DEF RInv
    <3> HIDE DEF d, tr, tr2
    <3>5. tr2 = Append(tr, sys) /\ tr \in Seq(System)
          BY <1>2, <1>7, <2>2
    <3>6. Len(tr2) = n + 1 /\ tr2[n + 1] = sys /\ \A i \in 1..n : tr2[i] = tr[i]
          BY <1>2, <1>8, <3>3, <3>5
    <3>7. tr2[1] = tr[1]
          BY <1>8, <3>3, <3>6
    <3> QED  BY <2>2, <3>3, <3>4, <3>6, <3>7
  <2> QED  BY <2>1, <2>2
<1> HIDE DEF d, e, tr, tr2
<1>10. /\ Leads(e, tr2, sys') /\ PairedDir(e, tr2)
       /\ Len(e.repos) = n + 1 /\ Len(e.local) = Len(e.repos)
       /\ tr2[Len(e.repos)] = Undo(sys', e.repos[Len(e.repos)], e.local[Len(e.repos)])
  <2>1. l = sys.local \cap DOMAIN r
        BY <1>3
  <2>2. Grows(d, tr, sys, sys', e, r, l, tr2)
        BY <1>4, <1>5, <1>6, <1>9, <2>1 DEF Grows
  <2> QED  BY <1>2, <1>3, <2>2, HunkLeads
<1>11. Len(e.repos) >= 1 /\ Len(tr2) = Len(e.repos)
      BY <1>8, <1>9, <1>10
<1> QED  BY <1>9, <1>10, <1>11 DEF e, tr, tr2

LEMMA HunkRInv ==
    ASSUME TInv, TInv', RInv, NEW p \in Proc, Hunk(p)
    PROVE  RInv'
<1> DEFINE k == HunkAt(p)
<1>1. /\ pc[p] = "hunk" /\ status' = mem'[p] /\ counter' = counter + 1
      /\ left' = [left EXCEPT ![p] = 0] /\ UNCHANGED <<holder, pc, seen>>
      BY DEF Hunk
<1>2. k \in Index /\ holder = p
      BY HunkRoom
<1>3. PICK first : /\ first \in {mem[p][1], k + 1}
                   /\ mem' = [mem EXCEPT ![p] = <<first, k>>]
                   /\ \A j \in Index \ {k} : dirs'[j] = dirs[j] /\ trail'[j] = trail[j]
  <2>0. PICK T \in (SUBSET Trove) \ {{}} : \E new \in [T -> Version] :
               \E first : HunkWith(p, T, new, first)
        BY HunkParts
  <2>a. PICK new \in [T -> Version] : \E first : HunkWith(p, T, new, first)
        BY <2>0
  <2>1. PICK first : HunkWith(p, T, new, first)
        BY <2>a
  <2>2. \A j \in Index \ {k} : dirs'[j] = dirs[j] /\ trail'[j] = trail[j]
        BY <2>1 DEF HunkWith, TInv, Types
  <2> QED  BY <2>1, <2>2 DEF HunkWith
<1>4. /\ mem'[p][1] = first /\ mem'[p][2] = k /\ left'[p] = 0
      BY <1>1, <1>3 DEF TInv, Types
<1>5. \A q \in Proc \ {p} : pc'[q] \notin Holding \cup Removing
      BY <1>1, <1>2, ProcIsNotNobody DEF TInv, Locked
<1>6. \A q \in Proc \ {p} : ~ Current(q)'
  <2> SUFFICES ASSUME NEW q \in Proc \ {p}, Current(q)' PROVE FALSE
        OBVIOUS
  <2>1. seen[q] = counter + 1
        BY <1>1, <1>5 DEF Current, Holding, Removing
  <2>2. seen[q] <= counter /\ counter \in Int
        BY DEF RInv, TInv, Types
  <2> QED  BY <2>1, <2>2
<1>7. /\ Leads(dirs'[k], trail'[k], sys') /\ PairedDir(dirs'[k], trail'[k])
      /\ Len(dirs'[k].repos) >= 1 /\ Len(dirs'[k].local) = Len(dirs'[k].repos)
      /\ Len(trail'[k]) = Len(dirs'[k].repos)
      /\ LET n == Len(dirs'[k].repos)
         IN  trail'[k][n] = Undo(sys', dirs'[k].repos[n], dirs'[k].local[n])
      /\ left[p] = -1 => trail'[k][1] = sys
      /\ left[p] # -1 => trail'[k][1] = trail[k][1]
      BY HunkDirs
<1>8. /\ left[p] = -1 => k = mem[p][2] + 1
      /\ left[p] # -1 => k = mem[p][2]
      /\ mem[p][1] \in Int /\ mem[p][2] \in Int /\ k \in Int
  <2>1. mem[p][1] \in Int /\ mem[p][2] \in Int
        BY StatusParts DEF TInv, Types
  <2> QED  BY <2>1 DEF HunkAt
<1> HIDE DEF k
<1>9. AheadIn(mem[p], sys, dirs, trail)
      BY <1>1 DEF RInv, AllAhead, Current
<1>10. AheadIn(mem'[p], sys', dirs', trail')
  <2> SUFFICES ASSUME NEW j \in Index, first <= j, j <= k, dirs'[j] # Missing
               PROVE  Leads(dirs'[j], trail'[j], IF j = k THEN sys' ELSE trail'[j + 1][1])
        BY <1>4 DEF AheadIn
  <2>1. CASE j = k
        BY <1>7, <2>1
  <2>2. CASE j # k
    <3>1. j \in Int /\ first = mem[p][1] /\ mem[p][1] <= j /\ j < k /\ j <= mem[p][2]
          BY <1>3, <1>8, <2>2, Numbers
    <3>2. dirs'[j] = dirs[j] /\ trail'[j] = trail[j] /\ dirs[j] # Missing
          BY <1>3, <2>2
    <3>3. Leads(dirs[j], trail[j], IF j = mem[p][2] THEN sys ELSE trail[j + 1][1])
          BY <1>9, <3>1, <3>2 DEF AheadIn
    <3>4. CASE j + 1 = k
      <4>1. (IF j = mem[p][2] THEN sys ELSE trail[j + 1][1]) = trail'[k][1]
            BY <1>7, <1>8, <3>1, <3>4
      <4> QED  BY <2>2, <3>2, <3>3, <3>4, <4>1
    <3>5. CASE j + 1 # k
      <4>1. j + 1 \in Index /\ j # mem[p][2]
            BY <1>2, <1>8, <3>1, <3>5, Numbers DEF Index
      <4>2. trail'[j + 1] = trail[j + 1]
            BY <1>3, <3>5, <4>1
      <4> QED  BY <2>2, <3>2, <3>3, <4>1, <4>2
    <3> QED  BY <3>4, <3>5
  <2> QED  BY <2>1, <2>2
<1>11. AllAhead'
      BY <1>1, <1>6, <1>10 DEF AllAhead
<1>12. SameTop'
      BY <1>1, <1>6 DEF SameTop
<1>13. Removals' /\ AtTop'
  <2>1. \A q \in Proc : ~ Active(q)' /\ pc'[q] \notin Undoing
        BY <1>1, <1>5 DEF Active, Removing, Holding, Undoing
  <2> QED  BY <2>1 DEF Removals, AtTop
<1>14. \A j \in Index : PairedDir(dirs'[j], trail'[j])
      BY <1>3, <1>7 DEF RInv
<1>15. \A q \in Proc : Along(q)'
  <2>1. Along(p)'
        BY <1>1, <1>4, <1>7 DEF Along
  <2>2. ASSUME NEW q \in Proc \ {p} PROVE Along(q)'
        BY <1>5 DEF Along, Holding, Undoing
  <2> QED  BY <2>1, <2>2
<1>16. \A q \in Proc : (seen[q] <= counter)'
  <2>1. \A q \in Proc : seen[q] <= counter /\ seen[q] \in Int /\ counter \in Int
        BY DEF RInv, TInv, Types
  <2> QED  BY <1>1, <2>1
<1> QED  BY <1>11, <1>12, <1>13, <1>14, <1>15, <1>16 DEF RInv

LEMMA NextRInv ==
    ASSUME Orderly
    PROVE  TInv /\ TInv' /\ RInv /\ [Next]_vars => RInv'
<1> SUFFICES ASSUME TInv, TInv', RInv, [Next]_vars PROVE RInv'
      OBVIOUS
<1>1. CASE UNCHANGED vars
  <2>0. UNCHANGED <<sys, counter, status, dirs, pc, mem, seen, todo, left, trail>>
        BY <1>1 DEF vars, stack, own
  <2>1. AllAhead' /\ SameTop' /\ Removals'
        BY <2>0 DEF RInv, AllAhead, SameTop, Removals, Current, Active
  <2>2. AtTop' /\ \A p \in Proc : Along(p)'
        BY <2>0 DEF RInv, AtTop, Along, Current
  <2> QED  BY <2>0, <2>1, <2>2 DEF RInv
<1>2. ASSUME NEW p \in Proc, Calm(p) PROVE RInv'
      BY <1>2, CalmRInv
<1>3. ASSUME NEW p \in Proc, ~ Calm(p),
             \/ Hunk(p) \/ ReposPhase(p) \/ LocalPhase(p) \/ UnlinkRepos(p) \/ UnlinkLocal(p)
             \/ Truncate(p) \/ WriteCount(p) \/ Drop(p) \/ Unlist(p)
             \/ RemoveOldest(p) \/ UnlistOldest(p)
      PROVE  RInv'
      BY <1>3, HunkRInv, ReposRInv, LocalRInv, UnlinkReposRInv, KeepRInv, DropRInv,
         UnlistRInv, RemoveOldestRInv, UnlistOldestRInv
<1> QED  BY <1>1, <1>2, <1>3 DEF Next, Calm

LEMMA AlwaysRInv ==
    ASSUME Orderly
    PROVE  Spec => [](TInv /\ RInv)
<1>1. "rmBeside" \notin Mishaps
      BY DEF Orderly
<1>2. TInv /\ [Next]_vars => TInv'
      BY <1>1, NextTInv
<1>3. TInv /\ TInv' /\ RInv /\ [Next]_vars => RInv'
      BY NextRInv
<1> QED  BY <1>2, <1>3, InitTInv, InitRInv, PTL DEF Spec

\* Whoever fails or dies, at whichever step of an update, of a rollback's two
\* transactions or of Rollback.removeLast, the stack leads back to where it came
\* from, but for one pair undone and not yet removed.
THEOREM StaysOneAhead ==
    ASSUME Orderly
    PROVE  Spec => []OneAhead
<1>1. RInv => OneAhead
      BY AheadIs DEF RInv, AllAhead
<1> QED  BY <1>1, AlwaysRInv, PTL

\* RollbackStack.removeLast is reached with the system as it was before the job
\* of the rollback, versions and local changes alike.
THEOREM RollbackRetraces ==
    ASSUME Orderly
    PROVE  Spec => Retraced
<1>1. TInv /\ RInv => \A p \in Proc : pc[p] = "drop" => sys = Base(mem[p][2])
  <2> SUFFICES ASSUME TInv, RInv, NEW p \in Proc, pc[p] = "drop"
               PROVE  sys = Base(mem[p][2])
        OBVIOUS
  <2>1. Len(dirs[mem[p][2]].repos) = 0
        BY DEF TInv, Plans, Pairwise, At
  <2>2. Along(p)
        BY DEF RInv
  <2>3. trail[mem[p][2]][0 + 1] = sys
        BY <2>1, <2>2 DEF Along
  <2> QED  BY <2>3 DEF Base
<1>2. TInv /\ RInv =>
        [\A p \in Proc : pc[p] = "drop" /\ pc'[p] = "unlist" => sys = Base(mem[p][2])]_vars
      BY <1>1
<1> QED  BY <1>2, AlwaysRInv, PTL DEF Retraced
=============================================================================
