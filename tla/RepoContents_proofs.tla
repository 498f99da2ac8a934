------------------------ MODULE RepoContents_proofs ------------------------
(***************************************************************************)
(* Whatever the number of server processes, troves and contents, the types *)
(* of RepoContents hold; and when the operator keeps the rules for         *)
(* removals, the data store has the contents of every trove and nothing    *)
(* that a commit which went well would have had to take away.              *)
(***************************************************************************)
EXTENDS RepoContents, FiniteSetTheorems, TLAPS

Jobs == [new : SUBSET Trove, old : Trove \cup {NoTrove},
         carry : SUBSET Content, gone : SUBSET Trove]

PCs == {"idle", "prestore"} \cup InTransaction

-----------------------------------------------------------------------------
(* Types and transactions.                                                 *)

Types ==
    /\ serial \in Databases
    /\ troves \subseteq Trove /\ removed \subseteq Trove \ troves
    /\ store \subseteq Content /\ leaked \subseteq Content
    /\ pc \in [Proc -> PCs]
    /\ job \in [Proc -> Jobs]
    /\ restore \in [Proc -> SUBSET Content]
    /\ marked \in [Proc -> SUBSET Trove]
    /\ \A p \in Proc : marked[p] \subseteq job[p].gone

OneTransaction ==
    serial => \A p, q \in Proc :
                pc[p] \in InTransaction /\ pc[q] \in InTransaction => p = q

\* Between two commits a process has nothing in hand.
Rested ==
    \A p \in Proc : pc[p] = "idle" => job[p] = NoJob /\ marked[p] = {}

TInv == Types /\ OneTransaction /\ Rested

LEMMA NoJobType == NoJob \in Jobs
BY DEF NoJob, Jobs

\* Contents are contents.
LEMMA NeededType ==
    ASSUME NEW ts, ts \subseteq Trove
    PROVE  Needed(ts) \subseteq Content
BY UsesAssumption DEF Needed

LEMMA InNeeded ==
    ASSUME NEW ts, NEW c
    PROVE  c \in Needed(ts) <=> \E t \in ts : c \in Uses[t]
BY DEF Needed

LEMMA InitTInv == Init => TInv
<1> SUFFICES ASSUME Init PROVE TInv
      OBVIOUS
<1>1. Types
      BY NoJobType DEF Init, Types, PCs, NoJob
<1>2. OneTransaction /\ Rested
      BY DEF Init, OneTransaction, InTransaction, Rested
<1> QED  BY <1>1, <1>2 DEF TInv

\* At most one process is in a transaction, counted as TypeOK does.
LEMMA TInvTypeOK == TInv => TypeOK
<1> SUFFICES ASSUME TInv PROVE TypeOK
      OBVIOUS
<1> DEFINE S == {p \in Proc : pc[p] \in InTransaction}
<1>1. serial => Cardinality(S) <= 1
  <2> SUFFICES ASSUME serial PROVE Cardinality(S) <= 1
        OBVIOUS
  <2>1. CASE S = {}
        BY <2>1, FS_EmptySet
  <2>2. CASE S # {}
    <3>1. PICK p : p \in S
          BY <2>2
    <3>2. S = {p}
          BY <3>1 DEF TInv, OneTransaction
    <3> HIDE DEF S
    <3> QED  BY <3>2, FS_Singleton
  <2> QED  BY <2>1, <2>2
<1> QED  BY <1>1 DEF TInv, Types, TypeOK, Jobs, PCs

\* Moves that begin no transaction.
LEMMA MoveOne ==
    ASSUME TInv, NEW p \in Proc, NEW at \in PCs, Goto(p, at), UNCHANGED serial,
           at \in InTransaction => pc[p] \in InTransaction
    PROVE  OneTransaction' /\ pc' \in [Proc -> PCs]
<1>1. pc' = [pc EXCEPT ![p] = at] /\ pc \in [Proc -> PCs]
      BY DEF TInv, Types, Goto
<1> QED  BY <1>1 DEF TInv, OneTransaction

\* A commit that is over, well or not.
LEMMA EndTInv ==
    ASSUME TInv, NEW p \in Proc, NEW failed \in BOOLEAN, End(p, failed),
           UNCHANGED <<serial, store>>, troves' \subseteq Trove,
           removed' \subseteq Trove \ troves'
    PROVE  TInv'
<1>1. Goto(p, "idle") /\ "idle" \in PCs /\ "idle" \notin InTransaction
      BY DEF End, PCs, InTransaction
<1>2. OneTransaction' /\ pc' \in [Proc -> PCs]
      BY <1>1, MoveOne
<1>3. job[p].carry \subseteq Content
      BY DEF TInv, Types, Jobs
<1>4. /\ pc' = [pc EXCEPT ![p] = "idle"]
      /\ job' = [job EXCEPT ![p] = NoJob]
      /\ restore' = [restore EXCEPT ![p] = {}]
      /\ marked' = [marked EXCEPT ![p] = {}]
      BY DEF End, Goto
<1>5. leaked' \subseteq Content
      BY <1>3 DEF TInv, Types, End
<1>6. Types'
      BY <1>2, <1>4, <1>5, NoJobType DEF TInv, Types
<1>7. Rested'
      BY <1>4 DEF TInv, Types, Rested
<1> QED  BY <1>2, <1>6, <1>7 DEF TInv

\* The change set that arrives.
LEMMA Arrival ==
    ASSUME TInv, NEW p \in Proc, Arrive(p)
    PROVE  \E j \in Jobs :
             /\ MayArrive(p, j) /\ j.gone \subseteq troves
             /\ \/ j.new = {} /\ j.carry = {}
                \/ j.old = NoTrove /\ j.carry = Needed(j.new)
                \/ /\ j.old \in troves
                   /\ j.carry = Needed(j.new) \ Uses[j.old]
             /\ job' = [job EXCEPT ![p] = j]
             /\ restore' = [restore EXCEPT ![p] = j.carry \ Config]
<1> DEFINE J(new, old, gone) ==
             [new |-> new, old |-> IF new = {} THEN NoTrove ELSE old,
              carry |-> UNION {Carries(t, old) : t \in new}, gone |-> gone]
<1>1. PICK new \in {s \in SUBSET Trove : Cardinality(s) <= 1},
           gone \in SUBSET troves, old \in troves \cup {NoTrove} :
        /\ new # {} \/ gone # {}
        /\ MayArrive(p, J(new, old, gone))
        /\ job' = [job EXCEPT ![p] = J(new, old, gone)]
        /\ restore' = [restore EXCEPT ![p] = J(new, old, gone).carry \ Config]
      BY Zenon DEF Arrive
<1>2. /\ MayArrive(p, J(new, old, gone))
      /\ job' = [job EXCEPT ![p] = J(new, old, gone)]
      /\ restore' = [restore EXCEPT ![p] = J(new, old, gone).carry \ Config]
      BY <1>1
<1> DEFINE carry == UNION {Carries(t, old) : t \in new}
           j == J(new, old, gone)
<1>3. carry \subseteq Content
      BY UsesAssumption DEF Carries
<1>4. \/ new = {} /\ carry = {}
      \/ new # {} /\ old = NoTrove /\ carry = Needed(new)
      \/ new # {} /\ old \in troves /\ carry = Needed(new) \ Uses[old]
  <2>1. CASE old = NoTrove
        BY <2>1 DEF Carries, Needed
  <2>2. CASE old # NoTrove
        BY <2>2 DEF Carries, Needed
  <2> QED  BY <2>1, <2>2
<1> HIDE DEF carry
<1>5. /\ j.new = new /\ j.carry = carry /\ j.gone = gone
      /\ j.old = IF new = {} THEN NoTrove ELSE old
      BY DEF carry
<1>6. j \in Jobs
      BY <1>3 DEF Jobs, TInv, Types, carry
<1>7. MayArrive(p, j) /\ job' = [job EXCEPT ![p] = j]
      BY <1>2
<1>8. restore' = [restore EXCEPT ![p] = j.carry \ Config]
      BY <1>2
<1> HIDE DEF j
<1> QED  BY <1>4, <1>5, <1>6, <1>7, <1>8

LEMMA ArriveTInv ==
    ASSUME TInv, NEW p \in Proc, Arrive(p)
    PROVE  TInv'
<1>1. PICK j \in Jobs : /\ job' = [job EXCEPT ![p] = j]
                        /\ restore' = [restore EXCEPT ![p] = j.carry \ Config]
      BY Arrival
<1>2. /\ Goto(p, "prestore") /\ "prestore" \in PCs /\ "prestore" \notin InTransaction
      /\ UNCHANGED <<serial, troves, removed, store, marked, leaked>>
      /\ pc[p] = "idle"
      BY DEF Arrive, PCs, InTransaction, db
<1>3. j.carry \subseteq Content
      BY DEF Jobs
<1>4. job' \in [Proc -> Jobs] /\ restore' \in [Proc -> SUBSET Content]
      BY <1>1, <1>3 DEF TInv, Types
<1>5. OneTransaction' /\ pc' \in [Proc -> PCs]
      BY <1>2, MoveOne
<1>6. \A q \in Proc : marked'[q] \subseteq job'[q].gone
      BY <1>1, <1>2 DEF TInv, Types, Rested
<1>7. Types'
      BY <1>2, <1>4, <1>5, <1>6 DEF TInv, Types
<1>8. Rested'
      BY <1>1, <1>2 DEF TInv, Types, Rested, Goto
<1> QED  BY <1>5, <1>7, <1>8 DEF TInv

\* Contents are stored, before the transaction or in it.
LEMMA StoreTInv ==
    ASSUME TInv, NEW p \in Proc, NEW c \in restore[p],
           store' = store \cup {c},
           restore' = [restore EXCEPT ![p] = restore[p] \ {c}],
           UNCHANGED <<serial, troves, removed, pc, job, marked, leaked>>
    PROVE  TInv'
<1>1. store' \subseteq Content /\ restore' \in [Proc -> SUBSET Content]
      BY DEF TInv, Types
<1> QED  BY <1>1 DEF TInv, Types, OneTransaction, Rested

\* A process goes on to another place that is not "idle".
LEMMA GoOnTInv ==
    ASSUME TInv, NEW p \in Proc, NEW at \in PCs \ {"idle"}, Goto(p, at),
           \/ at \in InTransaction => pc[p] \in InTransaction
           \/ serial => \A q \in Proc : pc[q] \notin InTransaction,
           restore' \in [Proc -> SUBSET Content],
           UNCHANGED <<serial, troves, removed, store, job, marked, leaked>>
    PROVE  TInv'
<1>1. /\ pc' = [pc EXCEPT ![p] = at] /\ pc \in [Proc -> PCs]
      /\ pc' \in [Proc -> PCs]
      BY DEF TInv, Types, Goto
<1>2. OneTransaction'
      BY <1>1 DEF TInv, OneTransaction
<1>3. Rested'
      BY <1>1 DEF TInv, Rested
<1> QED  BY <1>1, <1>2, <1>3 DEF TInv, Types

LEMMA MarkTInv ==
    ASSUME TInv, NEW p \in Proc, MarkTroveRemoved(p)
    PROVE  TInv'
<1>1. CASE /\ Goto(p, "commit") /\ UNCHANGED <<store, marked>>
  <2>1. /\ "commit" \in PCs \ {"idle"} /\ pc[p] \in InTransaction
        /\ UNCHANGED <<serial, troves, removed, job, restore, leaked>>
        BY DEF MarkTroveRemoved, PCs, InTransaction, db
  <2>2. restore' \in [Proc -> SUBSET Content]
        BY <2>1 DEF TInv, Types
  <2> QED  BY <1>1, <2>1, <2>2, GoOnTInv
<1>2. CASE \E t \in job[p].gone \ marked[p] :
             /\ marked' = [marked EXCEPT ![p] = @ \cup {t}]
             /\ store' = IF t \in removed THEN store
                         ELSE store \ FilesToRemove(p, t)
             /\ UNCHANGED pc
  <2>1. PICK t \in job[p].gone \ marked[p] :
             /\ marked' = [marked EXCEPT ![p] = @ \cup {t}]
             /\ store' \subseteq store
             /\ UNCHANGED pc
        BY <1>2
  <2>2. UNCHANGED <<serial, troves, removed, job, restore, leaked>>
        BY DEF MarkTroveRemoved, db
  <2>3. t \in Trove /\ pc[p] # "idle"
        BY <2>1 DEF TInv, Types, Jobs, MarkTroveRemoved
  <2>4. marked' \in [Proc -> SUBSET Trove]
        BY <2>1, <2>3 DEF TInv, Types
  <2>5. \A q \in Proc : marked'[q] \subseteq job[q].gone
        BY <2>1 DEF TInv, Types
  <2>6. Types'
        BY <2>1, <2>2, <2>4, <2>5 DEF TInv, Types
  <2>7. OneTransaction'
        BY <2>1, <2>2 DEF TInv, OneTransaction
  <2>8. Rested'
        BY <2>1, <2>2, <2>3 DEF TInv, Types, Rested
  <2> QED  BY <2>6, <2>7, <2>8 DEF TInv
<1> QED  BY <1>1, <1>2 DEF MarkTroveRemoved

LEMMA CommitTInv ==
    ASSUME TInv, NEW p \in Proc, Commit(p)
    PROVE  TInv'
<1>1. job[p].new \subseteq Trove /\ job[p].gone \subseteq Trove
      BY DEF TInv, Types, Jobs
<1>2. CASE /\ job[p].new \cap (troves \cup removed) = {}
           /\ troves' = (troves \cup job[p].new) \ job[p].gone
           /\ removed' = removed \cup job[p].gone
           /\ End(p, FALSE)
  <2>1. troves' \subseteq Trove /\ removed' \subseteq Trove \ troves'
        BY <1>1, <1>2 DEF TInv, Types
  <2>2. UNCHANGED <<serial, store>> /\ FALSE \in BOOLEAN
        BY DEF Commit
  <2> QED  BY <1>2, <2>1, <2>2, EndTInv
<1>3. CASE End(p, TRUE) /\ UNCHANGED db
  <2>1. troves' \subseteq Trove /\ removed' \subseteq Trove \ troves'
        BY <1>3 DEF TInv, Types, db
  <2>2. UNCHANGED <<serial, store>> /\ TRUE \in BOOLEAN
        BY DEF Commit
  <2> QED  BY <1>3, <2>1, <2>2, EndTInv
<1> QED  BY <1>2, <1>3 DEF Commit

LEMMA InstallTInv ==
    ASSUME TInv, NEW p \in Proc, Install(p)
    PROVE  TInv'
<1>1. UNCHANGED <<serial, troves, removed, store>> /\ pc[p] = "install"
      BY DEF Install, db
<1>2. CASE End(p, TRUE)
  <2>1. troves' \subseteq Trove /\ removed' \subseteq Trove \ troves'
        BY <1>1 DEF TInv, Types
  <2> QED  BY <1>1, <1>2, <2>1, EndTInv
<1>3. CASE /\ restore' = [restore EXCEPT ![p] = ToRestore(p)]
           /\ Goto(p, "config")
           /\ UNCHANGED <<job, marked, leaked>>
  <2>1. ToRestore(p) \subseteq Content
        BY ConfigAssumption DEF ToRestore
  <2>2. restore' \in [Proc -> SUBSET Content]
        BY <1>3, <2>1 DEF TInv, Types
  <2>3. "config" \in PCs \ {"idle"} /\ pc[p] \in InTransaction
        BY <1>1 DEF PCs, InTransaction
  <2> QED  BY <1>1, <1>3, <2>2, <2>3, GoOnTInv
<1> QED  BY <1>2, <1>3 DEF Install

LEMMA NextTInv ==
    ASSUME TInv, [Next]_vars
    PROVE  TInv'
<1>1. CASE UNCHANGED vars
      BY <1>1 DEF vars, db, TInv, Types, OneTransaction, Rested
<1>2. ASSUME NEW p \in Proc, Arrive(p) PROVE TInv'
      BY <1>2, ArriveTInv
<1>3. ASSUME NEW p \in Proc, PreStore(p) PROVE TInv'
  <2>1. PICK c \in restore[p] : /\ store' = store \cup {c}
                                /\ restore' = [restore EXCEPT ![p] = @ \ {c}]
        BY <1>3 DEF PreStore
  <2>2. UNCHANGED <<serial, troves, removed, pc, job, marked, leaked>>
        BY <1>3 DEF PreStore, db
  <2> QED  BY <2>1, <2>2, StoreTInv
<1>4. ASSUME NEW p \in Proc, Begin(p) PROVE TInv'
  <2>1. /\ Goto(p, "install") /\ "install" \in PCs \ {"idle"}
        /\ serial => \A q \in Proc : pc[q] \notin InTransaction
        /\ UNCHANGED <<serial, troves, removed, store, job, restore, marked, leaked>>
        BY <1>4 DEF Begin, PCs, InTransaction, db
  <2>2. restore' \in [Proc -> SUBSET Content]
        BY <2>1 DEF TInv, Types
  <2> QED  BY <2>1, <2>2, GoOnTInv
<1>5. ASSUME NEW p \in Proc, Install(p) PROVE TInv'
      BY <1>5, InstallTInv
<1>6. ASSUME NEW p \in Proc, RestoreConfig(p) PROVE TInv'
  <2>1. /\ UNCHANGED <<serial, troves, removed, job, marked, leaked>>
        /\ pc[p] = "config"
        BY <1>6 DEF RestoreConfig, db
  <2>2. CASE \E c \in restore[p] :
               /\ store' = store \cup {c}
               /\ restore' = [restore EXCEPT ![p] = @ \ {c}]
               /\ UNCHANGED pc
        BY <2>1, <2>2, StoreTInv
  <2>3. CASE Goto(p, "remove") /\ UNCHANGED <<store, restore>>
    <3>1. "remove" \in PCs \ {"idle"} /\ pc[p] \in InTransaction
          BY <2>1 DEF PCs, InTransaction
    <3>2. restore' \in [Proc -> SUBSET Content]
          BY <2>3 DEF TInv, Types
    <3> QED  BY <2>1, <2>3, <3>1, <3>2, GoOnTInv
  <2> QED  BY <1>6, <2>2, <2>3 DEF RestoreConfig
<1>7. ASSUME NEW p \in Proc, MarkTroveRemoved(p) PROVE TInv'
      BY <1>7, MarkTInv
<1>8. ASSUME NEW p \in Proc, Commit(p) PROVE TInv'
      BY <1>8, CommitTInv
<1>9. ASSUME NEW p \in Proc, Fail(p) PROVE TInv'
  <2>1. /\ End(p, TRUE) /\ UNCHANGED <<serial, store, troves, removed>>
        BY <1>9 DEF Fail, db
  <2>2. troves' \subseteq Trove /\ removed' \subseteq Trove \ troves'
        BY <2>1 DEF TInv, Types
  <2> QED  BY <2>1, <2>2, EndTInv
<1> QED
      BY <1>1, <1>2, <1>3, <1>4, <1>5, <1>6, <1>7, <1>8, <1>9 DEF Next

\* The types, whatever the operator and the processes do: a trove is never
\* both there and removed, and on a database that serializes commits at most
\* one process is between the begin and the end of its transaction.
THEOREM TypeCorrect == Spec => []TypeOK
BY InitTInv, NextTInv, TInvTypeOK, PTL DEF Spec

-----------------------------------------------------------------------------
(* Contents.                                                               *)

\* The operator keeps the rules: removals come alone, bring nothing new, and
\* are not interrupted.
Careful == Mishaps \cap {"removeBeside", "removeMixed", "removeFault"} = {}

\* While troves are removed nobody else is at work.
RemovesAlone ==
    \A p, q \in Proc : job[p].gone # {} /\ q # p => pc[q] = "idle"

\* What a commit carries, what the database has for it, and how much of it is
\* in the data store by now.
JobOf(p) ==
    /\ job[p].new = {} \/ job[p].gone = {}
    /\ job[p].gone \subseteq troves
    /\ \/ job[p].new = {} /\ job[p].carry = {}
       \/ job[p].old = NoTrove /\ job[p].carry = Needed(job[p].new)
       \/ /\ job[p].old \in troves
          /\ job[p].carry = Needed(job[p].new) \ Uses[job[p].old]
    /\ marked[p] # {} => pc[p] \in {"remove", "commit"}
    /\ restore[p] \subseteq job[p].carry
    /\ pc[p] = "prestore" => job[p].carry \ Config \subseteq store \cup restore[p]
    /\ pc[p] = "install" => job[p].carry \ Config \subseteq store
    /\ pc[p] = "config" => job[p].carry \subseteq store \cup restore[p]
    /\ pc[p] \in {"remove", "commit"} => job[p].carry \subseteq store
    /\ pc[p] = "commit" => job[p].gone \subseteq marked[p]

\* No open transaction has marked t.
Unmarked(t) == \A p \in Proc : t \notin marked[p]

Present == \A t \in troves : Unmarked(t) => Uses[t] \subseteq store

\* What is in the data store is there for a reason.
Accounted ==
    \A c \in store :
        \/ c \in leaked
        \/ \E p \in Proc : c \in job[p].carry
        \/ \E t \in troves : Unmarked(t) /\ c \in Uses[t]

RInv == /\ TInv /\ RemovesAlone /\ \A p \in Proc : JobOf(p)
        /\ Present /\ Accounted

LEMMA RInvContents == RInv => ContentsPresent /\ NothingLeft
<1> SUFFICES ASSUME RInv PROVE ContentsPresent /\ NothingLeft
      OBVIOUS
<1>1. ContentsPresent
  <2> SUFFICES ASSUME NEW c, c \in Needed(troves \ UNION {marked[p] : p \in Proc})
               PROVE  c \in store
        BY DEF ContentsPresent
  <2>1. PICK t \in troves \ UNION {marked[p] : p \in Proc} : c \in Uses[t]
        BY InNeeded
  <2>2. Unmarked(t)
        BY <2>1 DEF Unmarked
  <2> QED  BY <2>1, <2>2 DEF RInv, Present
<1>2. NothingLeft
  <2> SUFFICES ASSUME \A p \in Proc : ~ Busy(p), NEW c \in store
               PROVE  c \in Needed(troves) \cup leaked
        BY DEF NothingLeft
  <2>1. \A p \in Proc : job[p].carry = {}
        BY DEF RInv, TInv, Rested, Busy, NoJob
  <2>2. c \in leaked \/ \E t \in troves : c \in Uses[t]
        BY <2>1 DEF RInv, Accounted
  <2> QED  BY <2>2, InNeeded
<1> QED  BY <1>1, <1>2

LEMMA InitRInv == Init => RInv
<1> SUFFICES ASSUME Init PROVE RInv
      OBVIOUS
<1>1. TInv
      BY InitTInv
<1>2. \A p \in Proc : /\ pc[p] = "idle" /\ marked[p] = {} /\ job[p].gone = {}
                      /\ job[p].new = {} /\ job[p].carry = {}
                      /\ restore[p] = {}
      BY DEF Init, NoJob
<1>3. RemovesAlone /\ \A p \in Proc : JobOf(p)
      BY <1>2 DEF RemovesAlone, JobOf
<1>4. Present /\ Accounted
      BY DEF Init, Present, Accounted
<1> QED  BY <1>1, <1>3, <1>4 DEF RInv

\* While troves are removed the other processes have nothing in hand, and
\* while a process has a new trove in hand no trove is marked.
LEMMA OthersAtRest ==
    ASSUME RInv, NEW p \in Proc, job[p].gone # {}
    PROVE  \A q \in Proc \ {p} : /\ job[q] = NoJob /\ marked[q] = {}
                                 /\ pc[q] = "idle"
BY DEF RInv, RemovesAlone, TInv, Rested

LEMMA NothingMarked ==
    ASSUME RInv, NEW p \in Proc, pc[p] # "idle", job[p].gone = {}
    PROVE  /\ \A q \in Proc : marked[q] = {} /\ job[q].gone = {}
           /\ \A t : Unmarked(t)
<1>1. \A q \in Proc : job[q].gone = {}
      BY DEF RInv, RemovesAlone
<1>2. \A q \in Proc : marked[q] = {}
      BY <1>1 DEF RInv, TInv, Types
<1> QED  BY <1>1, <1>2 DEF Unmarked

\* What others have in hand is left alone by a step of p, unless p removes
\* troves and they have nothing in hand.
LEMMA JobFrame ==
    ASSUME RInv, NEW p \in Proc,
           \A q \in Proc \ {p} : /\ pc'[q] = pc[q] /\ job'[q] = job[q]
                                 /\ restore'[q] = restore[q]
                                 /\ marked'[q] = marked[q],
           \/ store \subseteq store' /\ troves \subseteq troves'
           \/ job[p].gone # {},
           JobOf(p)'
    PROVE  \A q \in Proc : JobOf(q)'
<1> SUFFICES ASSUME NEW q \in Proc \ {p} PROVE JobOf(q)'
      OBVIOUS
<1>1. JobOf(q)
      BY DEF RInv
<1>2. CASE store \subseteq store' /\ troves \subseteq troves'
      BY <1>1, <1>2 DEF JobOf
<1>3. CASE job[p].gone # {}
      BY <1>1, <1>3, OthersAtRest DEF JobOf, NoJob
<1> QED  BY <1>2, <1>3

\* A commit that fails, or dies, before it has marked a trove.
LEMMA EndFailedRInv ==
    ASSUME RInv, TInv', NEW p \in Proc, End(p, TRUE), marked[p] = {},
           UNCHANGED <<troves, store>>
    PROVE  RInv'
<1>1. /\ pc' = [pc EXCEPT ![p] = "idle"] /\ job' = [job EXCEPT ![p] = NoJob]
      /\ restore' = [restore EXCEPT ![p] = {}]
      /\ marked' = [marked EXCEPT ![p] = {}]
      /\ leaked' = leaked \cup job[p].carry
      BY DEF End, Goto
<1>2. /\ pc'[p] = "idle" /\ job'[p] = NoJob /\ marked'[p] = {}
      /\ restore'[p] = {}
      /\ \A q \in Proc \ {p} : /\ pc'[q] = pc[q] /\ job'[q] = job[q]
                               /\ restore'[q] = restore[q]
                               /\ marked'[q] = marked[q]
      BY <1>1 DEF RInv, TInv, Types
<1>3. marked' = marked
      BY <1>1 DEF RInv, TInv, Types
<1>4. JobOf(p)'
      BY <1>2 DEF JobOf, NoJob
<1>5. \A q \in Proc : JobOf(q)'
      BY <1>2, <1>4, JobFrame
<1>6. RemovesAlone'
      BY <1>2 DEF RInv, RemovesAlone, NoJob
<1>7. Present'
      BY <1>3 DEF RInv, Present, Unmarked
<1>8. Accounted'
  <2> SUFFICES ASSUME NEW c \in store
               PROVE  \/ c \in leaked'
                      \/ \E q \in Proc : c \in job'[q].carry
                      \/ \E t \in troves : Unmarked(t) /\ c \in Uses[t]
        BY <1>3 DEF Accounted, Unmarked
  <2>1. CASE \E q \in Proc : c \in job[q].carry
        BY <1>1, <1>2, <2>1
  <2> QED  BY <1>1, <2>1 DEF RInv, Accounted
<1> QED  BY <1>5, <1>6, <1>7, <1>8 DEF RInv

LEMMA ArriveRInv ==
    ASSUME RInv, TInv', Careful, NEW p \in Proc, Arrive(p)
    PROVE  RInv'
<1>1. PICK j \in Jobs :
        /\ MayArrive(p, j) /\ j.gone \subseteq troves
        /\ \/ j.new = {} /\ j.carry = {}
           \/ j.old = NoTrove /\ j.carry = Needed(j.new)
           \/ /\ j.old \in troves
              /\ j.carry = Needed(j.new) \ Uses[j.old]
        /\ job' = [job EXCEPT ![p] = j]
        /\ restore' = [restore EXCEPT ![p] = j.carry \ Config]
      BY Arrival DEF RInv
<1>2. /\ pc' = [pc EXCEPT ![p] = "prestore"] /\ pc[p] = "idle"
      /\ UNCHANGED <<troves, store, marked, leaked>>
      BY DEF Arrive, Goto, db
<1>3. /\ pc'[p] = "prestore" /\ job'[p] = j /\ marked'[p] = {}
      /\ restore'[p] = j.carry \ Config /\ job[p] = NoJob
      /\ \A q \in Proc \ {p} : /\ pc'[q] = pc[q] /\ job'[q] = job[q]
                               /\ restore'[q] = restore[q]
                               /\ marked'[q] = marked[q]
      BY <1>1, <1>2 DEF RInv, TInv, Types, Rested
<1>4. /\ j.new = {} \/ j.gone = {}
      /\ j.gone # {} => \A q \in Proc : pc[q] = "idle"
      /\ \A q \in Proc : job[q].gone = {}
      BY <1>1 DEF MayArrive, Careful, Busy
<1>5. JobOf(p)'
      BY <1>1, <1>2, <1>3, <1>4 DEF JobOf
<1>6. \A q \in Proc : JobOf(q)'
      BY <1>2, <1>3, <1>5, JobFrame
<1>7. RemovesAlone'
      BY <1>3, <1>4 DEF RemovesAlone
<1>8. Present'
      BY <1>2 DEF RInv, Present, Unmarked
<1>9. \A q \in Proc : job[q].carry \subseteq job'[q].carry
      BY <1>3 DEF NoJob
<1>10. Accounted'
      BY <1>2, <1>9 DEF RInv, Accounted, Unmarked
<1> QED  BY <1>6, <1>7, <1>8, <1>10 DEF RInv

\* Contents are stored, before the transaction or in it.
LEMMA StoreRInv ==
    ASSUME RInv, TInv', NEW p \in Proc, NEW c \in restore[p],
           store' = store \cup {c},
           restore' = [restore EXCEPT ![p] = restore[p] \ {c}],
           UNCHANGED <<troves, pc, job, marked, leaked>>
    PROVE  RInv'
<1>1. restore'[p] = restore[p] \ {c}
      BY DEF RInv, TInv, Types
<1>2. \A q \in Proc \ {p} : restore'[q] = restore[q]
      BY DEF RInv, TInv, Types
<1>3. JobOf(p)
      BY DEF RInv
<1>4. JobOf(p)'
      BY <1>1, <1>3 DEF JobOf
<1>5. \A q \in Proc : JobOf(q)'
      BY <1>2, <1>4, JobFrame
<1>6. c \in job[p].carry
      BY <1>3 DEF JobOf
<1>7. RemovesAlone' /\ Present' /\ Accounted'
      BY <1>6 DEF RInv, RemovesAlone, Present, Accounted, Unmarked
<1> QED  BY <1>5, <1>7 DEF RInv

\* A process goes on without touching the data store or the database.
LEMMA GoOnRInv ==
    ASSUME RInv, TInv', NEW p \in Proc, NEW at \in PCs, Goto(p, at),
           pc[p] # "idle",
           \A q \in Proc \ {p} : restore'[q] = restore[q],
           UNCHANGED <<troves, store, job, marked, leaked>>,
           JobOf(p)'
    PROVE  RInv'
<1>1. /\ pc'[p] = at /\ \A q \in Proc \ {p} : pc'[q] = pc[q]
      BY DEF RInv, TInv, Types, Goto
<1>2. \A q \in Proc : JobOf(q)'
      BY <1>1, JobFrame
<1>3. RemovesAlone'
      BY <1>1 DEF RInv, RemovesAlone
<1>4. Present' /\ Accounted'
      BY DEF RInv, Present, Accounted, Unmarked
<1> QED  BY <1>2, <1>3, <1>4 DEF RInv

\* In the transaction, the configuration contents the database knows of are in
\* the data store, since no trove is marked.
LEMMA InstallRInv ==
    ASSUME RInv, TInv', NEW p \in Proc, Install(p)
    PROVE  RInv'
<1>1. pc[p] = "install" /\ UNCHANGED <<troves, store>> /\ JobOf(p)
      BY DEF Install, db, RInv
<1>2. CASE End(p, TRUE)
      BY <1>1, <1>2, EndFailedRInv DEF JobOf
<1>3. CASE /\ restore' = [restore EXCEPT ![p] = ToRestore(p)]
           /\ Goto(p, "config")
           /\ UNCHANGED <<job, marked, leaked>>
  <2>1. /\ restore'[p] = ToRestore(p) /\ pc'[p] = "config"
        /\ \A q \in Proc \ {p} : restore'[q] = restore[q]
        BY <1>3 DEF RInv, TInv, Types, Goto
  <2>2. job[p].carry \subseteq store \cup ToRestore(p)
    <3>1. CASE job[p].carry = {}
          BY <3>1
    <3>2. CASE job[p].carry # {}
      <4>1. job[p].gone = {}
            BY <1>1, <3>2 DEF JobOf, Needed
      <4>2. \A u : Unmarked(u)
            BY <1>1, <4>1, NothingMarked
      <4>3. Needed(troves) \subseteq store
            BY <4>2, InNeeded DEF RInv, Present
      <4> QED  BY <1>1, <4>3 DEF JobOf, ToRestore
    <3> QED  BY <3>1, <3>2
  <2>3. ToRestore(p) \subseteq job[p].carry
        BY DEF ToRestore
  <2>4. JobOf(p)'
        BY <1>1, <1>3, <2>1, <2>2, <2>3 DEF JobOf
  <2>5. "config" \in PCs
        BY DEF PCs, InTransaction
  <2> QED  BY <1>1, <1>3, <2>1, <2>4, <2>5, GoOnRInv
<1> QED  BY <1>2, <1>3 DEF Install

\* What is unlinked is needed by no other trove, and what another trove needs
\* stays.
LEMMA MarkRInv ==
    ASSUME RInv, TInv', NEW p \in Proc, MarkTroveRemoved(p)
    PROVE  RInv'
<1>1. pc[p] = "remove" /\ UNCHANGED <<troves, job, restore, leaked>> /\ JobOf(p)
      BY DEF MarkTroveRemoved, db, RInv
<1>2. CASE /\ job[p].gone \subseteq marked[p]
           /\ Goto(p, "commit") /\ UNCHANGED <<store, marked>>
  <2>1. pc'[p] = "commit" /\ "commit" \in PCs
        BY <1>2 DEF RInv, TInv, Types, Goto, PCs, InTransaction
  <2>2. JobOf(p)'
        BY <1>1, <1>2, <2>1 DEF JobOf
  <2> QED  BY <1>1, <1>2, <2>1, <2>2, GoOnRInv
<1>3. CASE \E t \in job[p].gone \ marked[p] :
             /\ marked' = [marked EXCEPT ![p] = @ \cup {t}]
             /\ store' = IF t \in removed THEN store
                         ELSE store \ FilesToRemove(p, t)
             /\ UNCHANGED pc
  <2>1. PICK t \in job[p].gone \ marked[p] :
             /\ marked' = [marked EXCEPT ![p] = @ \cup {t}]
             /\ store' = IF t \in removed THEN store
                         ELSE store \ FilesToRemove(p, t)
             /\ UNCHANGED pc
        BY <1>3
  <2>2. t \in troves /\ t \notin removed /\ job[p].gone # {}
        BY <1>1, <2>1 DEF JobOf, RInv, TInv, Types
  <2>3. store' = store \ FilesToRemove(p, t)
        BY <2>1, <2>2
  <2>4. job[p].new = {} /\ job[p].carry = {}
        BY <1>1, <2>2 DEF JobOf, Needed
  <2>5. /\ marked'[p] = marked[p] \cup {t}
        /\ \A q \in Proc \ {p} : marked'[q] = marked[q] /\ marked[q] = {}
        BY <2>1, <2>2, OthersAtRest DEF RInv, TInv, Types
  <2>6. \A u : /\ Unmarked(u) <=> u \notin marked[p]
               /\ Unmarked(u)' <=> u \notin marked[p] \cup {t}
        BY <2>5 DEF Unmarked
  <2>7. \A c : c \in FilesToRemove(p, t) <=>
               c \in Uses[t] /\ \A u \in troves : Unmarked(u)' => c \notin Uses[u]
        BY <2>6, InNeeded DEF FilesToRemove
  <2>8. JobOf(p)'
        BY <1>1, <2>1, <2>4 DEF JobOf
  <2>9. \A q \in Proc : JobOf(q)'
        BY <1>1, <2>1, <2>2, <2>5, <2>8, JobFrame
  <2>10. RemovesAlone'
        BY <1>1, <2>1 DEF RInv, RemovesAlone
  <2>11. Present'
    <3> SUFFICES ASSUME NEW u \in troves, Unmarked(u)', NEW c \in Uses[u]
                 PROVE  c \in store'
          BY <1>1 DEF Present
    <3>1. c \in store
          BY <2>6 DEF RInv, Present
    <3> QED  BY <2>3, <2>7, <3>1
  <2>12. Accounted'
    <3> SUFFICES ASSUME NEW c \in store'
                 PROVE  \/ c \in leaked
                        \/ \E q \in Proc : c \in job[q].carry
                        \/ \E u \in troves : Unmarked(u)' /\ c \in Uses[u]
          BY <1>1 DEF Accounted
    <3>1. c \in store /\ c \notin FilesToRemove(p, t)
          BY <2>3
    <3>2. ASSUME NEW u \in troves, Unmarked(u), c \in Uses[u]
          PROVE  \E w \in troves : Unmarked(w)' /\ c \in Uses[w]
      <4>1. CASE u = t
            BY <2>7, <3>1, <3>2, <4>1
      <4>2. CASE u # t
            BY <2>6, <3>2, <4>2
      <4> QED  BY <4>1, <4>2
    <3> QED  BY <3>1, <3>2 DEF RInv, Accounted
  <2> QED  BY <2>9, <2>10, <2>11, <2>12 DEF RInv
<1> QED  BY <1>2, <1>3 DEF MarkTroveRemoved

\* The transaction is committed: the contents of a new trove are there, those
\* the change set carried and those of the trove it is relative to.
LEMMA CommitRInv ==
    ASSUME RInv, TInv', NEW p \in Proc, Commit(p)
    PROVE  RInv'
<1>1. pc[p] = "commit" /\ UNCHANGED store /\ JobOf(p) /\ marked[p] \subseteq job[p].gone
      BY DEF Commit, RInv, TInv, Types
<1>2. CASE /\ job[p].new \cap (troves \cup removed) # {}
           /\ End(p, TRUE) /\ UNCHANGED db
  <2>1. marked[p] = {}
        BY <1>1, <1>2 DEF JobOf
  <2> QED  BY <1>1, <1>2, <2>1, EndFailedRInv DEF db
<1>3. CASE /\ troves' = (troves \cup job[p].new) \ job[p].gone
           /\ End(p, FALSE)
  <2>1. /\ pc' = [pc EXCEPT ![p] = "idle"] /\ job' = [job EXCEPT ![p] = NoJob]
        /\ restore' = [restore EXCEPT ![p] = {}]
        /\ marked' = [marked EXCEPT ![p] = {}]
        /\ leaked' = leaked
        BY <1>3 DEF End, Goto
  <2>2. /\ pc'[p] = "idle" /\ job'[p] = NoJob /\ marked'[p] = {}
        /\ restore'[p] = {}
        /\ \A q \in Proc \ {p} : /\ pc'[q] = pc[q] /\ job'[q] = job[q]
                                 /\ restore'[q] = restore[q]
                                 /\ marked'[q] = marked[q]
        BY <2>1 DEF RInv, TInv, Types
  <2>3. JobOf(p)'
        BY <2>2 DEF JobOf, NoJob
  <2>4. job[p].gone # {} \/ troves \subseteq troves'
        BY <1>3
  <2>5. \A q \in Proc : JobOf(q)'
        BY <1>1, <2>2, <2>3, <2>4, JobFrame
  <2>6. RemovesAlone'
        BY <2>2 DEF RInv, RemovesAlone, NoJob
  <2>7. CASE job[p].gone = {}
    <3>1. /\ \A q \in Proc : marked[q] = {}
          /\ \A u : Unmarked(u)
          BY <1>1, <2>7, NothingMarked
    <3>2. \A u : Unmarked(u)'
          BY <2>2, <3>1 DEF Unmarked
    <3>3. troves' = troves \cup job[p].new
          BY <1>3, <2>7
    <3>4. \A u \in job[p].new : Uses[u] \subseteq Needed(job[p].new)
          BY InNeeded
    <3>5. Needed(job[p].new) \subseteq store
      <4>1. CASE job[p].new = {}
            BY <4>1 DEF Needed
      <4>2. CASE job[p].carry = Needed(job[p].new)
            BY <1>1, <4>2 DEF JobOf
      <4>3. CASE /\ job[p].old \in troves
                 /\ job[p].carry = Needed(job[p].new) \ Uses[job[p].old]
        <5>1. Uses[job[p].old] \subseteq store /\ job[p].carry \subseteq store
              BY <1>1, <3>1, <4>3 DEF RInv, Present, JobOf
        <5> QED  BY <4>3, <5>1
      <4> QED  BY <1>1, <4>1, <4>2, <4>3 DEF JobOf
    <3>6. Present'
          BY <1>1, <3>1, <3>3, <3>4, <3>5 DEF RInv, Present
    <3>7. \A c \in job[p].carry : \E u \in troves' : c \in Uses[u]
      <4>1. job[p].carry \subseteq Needed(job[p].new)
            BY <1>1 DEF JobOf
      <4> QED  BY <3>3, <4>1, InNeeded
    <3>8. Accounted'
      <4> SUFFICES ASSUME NEW c \in store
                   PROVE  \/ c \in leaked
                          \/ \E q \in Proc : c \in job'[q].carry
                          \/ \E u \in troves' : c \in Uses[u]
            BY <1>1, <2>1, <3>2 DEF Accounted
      <4>1. CASE \E q \in Proc : c \in job[q].carry
            BY <2>2, <3>7, <4>1
      <4> QED  BY <3>3, <4>1 DEF RInv, Accounted
    <3> QED  BY <2>5, <2>6, <3>6, <3>8 DEF RInv
  <2>8. CASE job[p].gone # {}
    <3>1. \A q \in Proc \ {p} : marked[q] = {}
          BY <2>8, OthersAtRest
    <3>2. marked[p] = job[p].gone /\ job[p].new = {} /\ job[p].carry = {}
          BY <1>1, <2>8 DEF JobOf, Needed
    <3>3. \A u : u \in troves' <=> u \in troves /\ Unmarked(u)
          BY <1>3, <3>1, <3>2 DEF Unmarked
    <3>4. Present'
          BY <1>1, <3>3 DEF RInv, Present
    <3>5. \A u : Unmarked(u)'
          BY <2>2, <3>1 DEF Unmarked
    <3>6. \A q \in Proc : job[q].carry \subseteq job'[q].carry
          BY <2>2, <3>2 DEF NoJob
    <3>7. Accounted'
          BY <1>1, <2>1, <3>3, <3>5, <3>6 DEF RInv, Accounted
    <3> QED  BY <2>5, <2>6, <3>4, <3>7 DEF RInv
  <2> QED  BY <2>7, <2>8
<1> QED  BY <1>2, <1>3 DEF Commit

LEMMA NextRInv ==
    ASSUME RInv, Careful, [Next]_vars
    PROVE  RInv'
<1>0. TInv'
      BY NextTInv DEF RInv
<1>1. CASE UNCHANGED vars
      BY <1>0, <1>1 DEF vars, db, RInv, RemovesAlone, JobOf, Present, Accounted,
         Unmarked
<1>2. ASSUME NEW p \in Proc, Arrive(p) PROVE RInv'
      BY <1>0, <1>2, ArriveRInv
<1>3. ASSUME NEW p \in Proc, PreStore(p) PROVE RInv'
  <2>1. PICK c \in restore[p] : /\ store' = store \cup {c}
                                /\ restore' = [restore EXCEPT ![p] = @ \ {c}]
        BY <1>3 DEF PreStore
  <2>2. UNCHANGED <<troves, pc, job, marked, leaked>>
        BY <1>3 DEF PreStore, db
  <2> QED  BY <1>0, <2>1, <2>2, StoreRInv
<1>4. ASSUME NEW p \in Proc, Begin(p) PROVE RInv'
  <2>1. /\ Goto(p, "install") /\ "install" \in PCs /\ pc[p] = "prestore"
        /\ restore[p] = {}
        /\ UNCHANGED <<troves, store, job, restore, marked, leaked>>
        BY <1>4 DEF Begin, PCs, InTransaction, db
  <2>2. JobOf(p) /\ pc'[p] = "install"
        BY <2>1 DEF RInv, TInv, Types, Goto
  <2>3. JobOf(p)'
        BY <2>1, <2>2 DEF JobOf
  <2> QED  BY <1>0, <2>1, <2>3, GoOnRInv
<1>5. ASSUME NEW p \in Proc, Install(p) PROVE RInv'
      BY <1>0, <1>5, InstallRInv
<1>6. ASSUME NEW p \in Proc, RestoreConfig(p) PROVE RInv'
  <2>1. UNCHANGED <<troves, job, marked, leaked>> /\ pc[p] = "config"
        BY <1>6 DEF RestoreConfig, db
  <2>2. CASE \E c \in restore[p] :
               /\ store' = store \cup {c}
               /\ restore' = [restore EXCEPT ![p] = @ \ {c}]
               /\ UNCHANGED pc
        BY <1>0, <2>1, <2>2, StoreRInv
  <2>3. CASE restore[p] = {} /\ Goto(p, "remove") /\ UNCHANGED <<store, restore>>
    <3>1. "remove" \in PCs /\ JobOf(p) /\ pc'[p] = "remove"
          BY <2>3 DEF PCs, InTransaction, RInv, TInv, Types, Goto
    <3>2. JobOf(p)'
          BY <2>1, <2>3, <3>1 DEF JobOf
    <3> QED  BY <1>0, <2>1, <2>3, <3>1, <3>2, GoOnRInv
  <2> QED  BY <1>6, <2>2, <2>3 DEF RestoreConfig
<1>7. ASSUME NEW p \in Proc, MarkTroveRemoved(p) PROVE RInv'
      BY <1>0, <1>7, MarkRInv
<1>8. ASSUME NEW p \in Proc, Commit(p) PROVE RInv'
      BY <1>0, <1>8, CommitRInv
<1>9. ASSUME NEW p \in Proc, Fail(p) PROVE RInv'
  <2>1. /\ End(p, TRUE) /\ UNCHANGED <<store, troves>> /\ marked[p] = {}
        BY <1>9 DEF Fail, db, Careful
  <2> QED  BY <1>0, <2>1, EndFailedRInv
<1> QED
      BY <1>1, <1>2, <1>3, <1>4, <1>5, <1>6, <1>7, <1>8, <1>9 DEF Next

\* When troves are removed while nothing else is committed, the data store has
\* the contents of every trove of the repository, whatever commits run beside
\* each other and wherever they fail: commitChangeSet stores contents before
\* the trove that needs them is visible, and markTroveRemoved unlinks only
\* what no other trove's stream names.
THEOREM NothingLost ==
    ASSUME Careful
    PROVE  Spec => []ContentsPresent
<1>1. RInv => ContentsPresent
      BY RInvContents
<1>2. RInv /\ [Next]_vars => RInv'
      BY NextRInv
<1> QED  BY <1>1, <1>2, InitRInv, PTL DEF Spec

\* Under the same rules a removal frees all it can: when no commit is at work
\* the data store has nothing but what a trove needs or a failed commit left.
THEOREM NothingKept ==
    ASSUME Careful
    PROVE  Spec => []NothingLeft
<1>1. RInv => NothingLeft
      BY RInvContents
<1>2. RInv /\ [Next]_vars => RInv'
      BY NextRInv
<1> QED  BY <1>1, <1>2, InitRInv, PTL DEF Spec
=============================================================================
