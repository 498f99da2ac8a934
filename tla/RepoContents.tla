---------------------------- MODULE RepoContents ----------------------------
(***************************************************************************)
(* Commits to a repository: FilesystemRepository.commitChangeSet in        *)
(* src/conary/repository/netrepos/fsrepos.py, ChangeSetJob in src/conary/  *)
(* repository/repository.py, TroveStore in netrepos/trovestore.py.         *)
(*                                                                         *)
(* Troves live in a database with transactions, the contents of their      *)
(* files in a directory without.  A commit stores the regular contents     *)
(* before its transaction, the configuration contents in it; a change set  *)
(* that removes troves unlinks, before its transaction is committed, the   *)
(* contents that no other trove of the database needs.                     *)
(*                                                                         *)
(* Simplifications: a trove is the set of its contents; permissions,       *)
(* signatures, redirects, groups and the pointers of contents within a     *)
(* change set are left out; there is one data store.                       *)
(***************************************************************************)
EXTENDS Naturals, FiniteSets

CONSTANTS
    Proc,        \* the server processes
    Trove,       \* the troves clients commit
    NoTrove,     \* no trove: what an absolute change set is relative to
    Content,     \* the SHA-1s
    Config,      \* those of configuration files
    Uses,        \* the contents of each trove
    Databases,   \* whether transactions exclude each other: SQLite, or
                 \* serializeCommits (TRUE), PostgreSQL without it (FALSE)
    Mishaps      \* what may go wrong, and which rules the operator breaks

ASSUME UsesAssumption == Uses \in [Trove -> SUBSET Content]
ASSUME ConfigAssumption == Config \subseteq Content
ASSUME NoTroveAssumption == NoTrove \notin Trove
ASSUME DatabasesAssumption == Databases \subseteq BOOLEAN
ASSUME MishapsAssumption ==
    Mishaps \subseteq {"fault", "removeBeside", "removeMixed", "removeFault"}

VARIABLES
    serial,   \* whether transactions exclude each other
    troves,   \* the troves committed and not removed
    removed,  \* the troves marked as removed
    store,    \* the contents in the data store
    pc,       \* where each process is
    job,      \* its change set
    restore,  \* the contents it has still to store
    marked,   \* the troves its transaction has marked as removed
    leaked    \* history: contents a commit that failed may have left behind

db == <<troves, removed>>
vars == <<serial, db, store, pc, job, restore, marked, leaked>>

NoJob == [new |-> {}, old |-> NoTrove, carry |-> {}, gone |-> {}]

InTransaction == {"install", "config", "remove", "commit"}
Busy(p) == pc[p] # "idle"

\* The contents some trove of ts needs.
Needed(ts) == UNION {Uses[t] : t \in ts}

Goto(p, at) == pc' = [pc EXCEPT ![p] = at]

Init ==
    /\ serial \in Databases
    /\ troves = {} /\ removed = {} /\ store = {}
    /\ pc = [p \in Proc |-> "idle"]
    /\ job = [p \in Proc |-> NoJob]
    /\ restore = [p \in Proc |-> {}]
    /\ marked = [p \in Proc |-> {}]
    /\ leaked = {}

-----------------------------------------------------------------------------
(* A change set arrives.                                                   *)

\* The operator's rules: troves are removed while no other commit is at work,
\* and by change sets that bring no new trove.
MayArrive(p, j) ==
    /\ "removeMixed" \notin Mishaps => j.new = {} \/ j.gone = {}
    /\ "removeBeside" \notin Mishaps =>
          /\ j.gone # {} => \A q \in Proc : ~ Busy(q)
          /\ \A q \in Proc : job[q].gone = {}

\* What a change set for t relative to old carries: the contents that differ.
Carries(t, old) == Uses[t] \ (IF old = NoTrove THEN {} ELSE Uses[old])

Arrive(p) ==
    /\ pc[p] = "idle"
    /\ \E new \in {s \in SUBSET Trove : Cardinality(s) <= 1}, gone \in SUBSET troves,
          old \in troves \cup {NoTrove} :
         LET j == [new |-> new, old |-> IF new = {} THEN NoTrove ELSE old,
                   carry |-> UNION {Carries(t, old) : t \in new}, gone |-> gone]
         IN  /\ new # {} \/ gone # {}
             /\ MayArrive(p, j)
             /\ job' = [job EXCEPT ![p] = j]
             /\ restore' = [restore EXCEPT ![p] = j.carry \ Config]
    /\ Goto(p, "prestore")
    /\ UNCHANGED <<serial, db, store, marked, leaked>>

\* Regular contents are stored one by one, before the transaction; addFile
\* leaves a file that is there alone.
PreStore(p) ==
    /\ pc[p] = "prestore"
    /\ \E c \in restore[p] :
          /\ store' = store \cup {c}
          /\ restore' = [restore EXCEPT ![p] = @ \ {c}]
    /\ UNCHANGED <<serial, db, pc, job, marked, leaked>>

\* Mutant: a transaction begins whether or not another is at work.
BeginAnyway(p) ==
    /\ pc[p] = "prestore" /\ restore[p] = {}
    /\ Goto(p, "install")
    /\ UNCHANGED <<serial, db, store, job, restore, marked, leaked>>

Begin(p) ==
    /\ pc[p] = "prestore" /\ restore[p] = {}
    /\ serial => \A q \in Proc : pc[q] \notin InTransaction
    /\ Goto(p, "install")
    /\ UNCHANGED <<serial, db, store, job, restore, marked, leaked>>

-----------------------------------------------------------------------------
(* In the transaction.                                                     *)

\* The commit is over; it may leave contents behind if it failed.
End(p, failed) ==
    /\ Goto(p, "idle")
    /\ job' = [job EXCEPT ![p] = NoJob]
    /\ restore' = [restore EXCEPT ![p] = {}]
    /\ marked' = [marked EXCEPT ![p] = {}]
    /\ leaked' = IF failed THEN leaked \cup job[p].carry ELSE leaked

\* The change set cannot be committed: a new trove exists already, also if it
\* was removed, or the trove it is relative to is missing.
Refused(p) ==
    \/ job[p].new \cap (troves \cup removed) # {}
    \/ job[p].new # {} /\ job[p].old \notin troves \cup {NoTrove}

\* Of the configuration contents, those no file of the database has are
\* still to be stored.
ToRestore(p) == (job[p].carry \cap Config) \ Needed(troves)

Install(p) ==
    /\ pc[p] = "install"
    /\ \/ /\ Refused(p)
          /\ End(p, TRUE)
       \/ /\ ~ Refused(p)
          /\ restore' = [restore EXCEPT ![p] = ToRestore(p)]
          /\ Goto(p, "config")
          /\ UNCHANGED <<job, marked, leaked>>
    /\ UNCHANGED <<serial, db, store>>

RestoreConfig(p) ==
    /\ pc[p] = "config"
    /\ \/ \E c \in restore[p] :
             /\ store' = store \cup {c}
             /\ restore' = [restore EXCEPT ![p] = @ \ {c}]
             /\ UNCHANGED pc
       \/ /\ restore[p] = {}
          /\ Goto(p, "remove")
          /\ UNCHANGED <<store, restore>>
    /\ UNCHANGED <<serial, db, job, marked, leaked>>

\* Mutant: without the second look at the streams of other troves.
FilesUnchecked(p, t) == Uses[t]

\* The contents of t that no other trove needs, as the transaction sees the
\* database: its own new troves are not there before addTroveSetDone.
FilesToRemove(p, t) == Uses[t] \ Needed(troves \ (marked[p] \cup {t}))

\* Mutant: the trove is marked, and its contents are left alone.
KeepContents(p) ==
    /\ pc[p] = "remove"
    /\ \/ \E t \in job[p].gone \ marked[p] :
             marked' = [marked EXCEPT ![p] = @ \cup {t}] /\ UNCHANGED pc
       \/ /\ job[p].gone \subseteq marked[p]
          /\ Goto(p, "commit")
          /\ UNCHANGED marked
    /\ UNCHANGED <<serial, db, store, job, restore, leaked>>

\* One trove is marked, and its contents are unlinked at once.  Marking one
\* that another transaction has marked does nothing.
MarkTroveRemoved(p) ==
    /\ pc[p] = "remove"
    /\ \/ \E t \in job[p].gone \ marked[p] :
             /\ marked' = [marked EXCEPT ![p] = @ \cup {t}]
             /\ store' = IF t \in removed THEN store
                         ELSE store \ FilesToRemove(p, t)
             /\ UNCHANGED pc
       \/ /\ job[p].gone \subseteq marked[p]
          /\ Goto(p, "commit")
          /\ UNCHANGED <<store, marked>>
    /\ UNCHANGED <<serial, db, job, restore, leaked>>

\* addTroveSetDone and the commit.  A trove another transaction has committed
\* meanwhile violates a unique index.
Commit(p) ==
    /\ pc[p] = "commit"
    /\ \/ /\ job[p].new \cap (troves \cup removed) = {}
          /\ troves' = (troves \cup job[p].new) \ job[p].gone
          /\ removed' = removed \cup job[p].gone
          /\ End(p, FALSE)
       \/ /\ job[p].new \cap (troves \cup removed) # {}
          /\ End(p, TRUE)
          /\ UNCHANGED db
    /\ UNCHANGED <<serial, store>>

\* An error, or the death of the process: the transaction is undone, the data
\* store is not.
Fail(p) ==
    /\ "fault" \in Mishaps /\ Busy(p)
    /\ marked[p] # {} => "removeFault" \in Mishaps
    /\ End(p, TRUE)
    /\ UNCHANGED <<serial, db, store>>

Next ==
    \E p \in Proc :
        \/ Arrive(p) \/ PreStore(p) \/ Begin(p) \/ Install(p)
        \/ RestoreConfig(p) \/ MarkTroveRemoved(p) \/ Commit(p) \/ Fail(p)

Spec == Init /\ [][Next]_vars

-----------------------------------------------------------------------------
(* Properties.                                                             *)

\* Every variable has its type, and transactions exclude each other where the
\* database says so.
TypeOK ==
    /\ serial \in Databases
    /\ troves \subseteq Trove /\ removed \subseteq Trove \ troves
    /\ store \subseteq Content /\ leaked \subseteq Content
    /\ pc \in [Proc -> {"idle", "prestore"} \cup InTransaction]
    /\ job \in [Proc -> [new : SUBSET Trove, old : Trove \cup {NoTrove},
                         carry : SUBSET Content, gone : SUBSET Trove]]
    /\ restore \in [Proc -> SUBSET Content]
    /\ \A p \in Proc : marked[p] \subseteq job[p].gone
    /\ serial => Cardinality({p \in Proc : pc[p] \in InTransaction}) <= 1

\* Whatever commits, removals and failures came before, the data store has
\* the contents of every trove no open transaction has marked: those a change
\* set left out because the trove it is relative to has them, those found
\* already stored, and those shared with a trove that was removed.
ContentsPresent ==
    Needed(troves \ UNION {marked[p] : p \in Proc}) \subseteq store

\* When no commit is at work, the data store has nothing but what a trove
\* needs or what a commit that failed has left: a removal frees all the disk
\* space it can.
NothingLeft ==
    (\A p \in Proc : ~ Busy(p)) => store \subseteq Needed(troves) \cup leaked
=============================================================================
