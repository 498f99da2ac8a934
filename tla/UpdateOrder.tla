---------------------------- MODULE UpdateOrder -----------------------------
(***************************************************************************)
(* The order in which the jobs of an update are applied: the incremental   *)
(* dependency check (DepCheckState in src/conary/local/database.py,        *)
(* DependencyChecker in src/conary/local/deptable.py), the rounds in which *)
(* DependencySolver (src/conary/conaryclient/resolve.py) changes the set   *)
(* of jobs until nothing is missing, and the walks over the graph of jobs  *)
(* (src/conary/lib/graph.py) that split it into steps.                     *)
(*                                                                         *)
(* Simplifications:                                                        *)
(*  - a trove is what it requires and what it provides; a dependency is    *)
(*    one value (its class, name and flags);                               *)
(*  - where the code keeps the last row of an SQL result for a dependency, *)
(*    and rows come in no order, any row may be the one;                   *)
(*  - the names, versions and kinds of the troves of a step decide which   *)
(*    of two unrelated steps is preferred: any order may be preferred;     *)
(*  - what the repository finds for a missing dependency, and which jobs   *)
(*    may be undone, is any choice among the jobs of a plan.               *)
(***************************************************************************)
EXTENDS Integers, Sequences, FiniteSets, SequencesExt, Graphs

CONSTANTS
    Node,     \* the jobs, numbered as the checker numbers them
    Dep,      \* the dependencies
    NoTrove,  \* no trove: the old side of an install, the new of an erase
    Plans,    \* what the system and the update may look like
    Mishaps   \* later rounds that disturb what an earlier one has settled

ASSUME NodeAssumption == Node \subseteq Nat \ {0} /\ IsFiniteSet(Node)
ASSUME MishapsAssumption == Mishaps \subseteq {"lateRemoval", "keptNeed"}

VARIABLES
    plan,      \* [old, new : what each job replaces and installs;
               \*  stay : a trove no job is about;
               \*  within : component and package; passed : component and the
               \*  package whose old version is the component's new one;
               \*  linked : jobs that overlap;
               \*  critical, final : the jobs wanted early, and last;
               \*  alike : needs of installed troves and dependencies whose
               \*  rows happen to have one number]
    in,        \* the jobs in the checker
    kept,      \* jobs undone: their old trove stays
    users,     \* requiresToNodeId: who needs each dependency of new troves
    satisfied, \* what earlier rounds found satisfied
    asked,     \* the needs of installed troves in TmpRequires and DepCheck
    lacking,   \* unsatisfied needs of new troves, for the repository
    cannot,    \* needs that only a trove being removed would satisfy
    edges,     \* the graph of the jobs: the first goes before the second
    late,      \* needs of new troves that were settled before these came
    pc,
    walked,    \* the edges of the graph that is walked
    rank,      \* the order of its nodes
    todo,      \* nodeIds: nodes to start from
    stack,     \* nodeStruct, from the top: a node, and whether it is to finish
    begun,     \* the nodes in the order they started
    done,      \* the nodes in the order they finished
    trees,     \* the nodes of each tree of the walk
    steps,     \* the strongly connected components, as they are preferred
    order      \* the steps in the order of the update

tables == <<users, satisfied, asked, lacking, cannot, edges, late>>
walk == <<walked, rank, todo, stack, begun, done, trees>>
result == <<steps, order>>
vars == <<plan, in, kept, tables, pc, walk, result>>

Stay == 0                          \* names the trove no job is about
Holder == Node \cup {Stay}         \* whoever holds an installed trove

Requires(t) == IF t = NoTrove THEN {} ELSE t.req
Provides(t) == IF t = NoTrove THEN {} ELSE t.prov

Installed(w) == IF w = Stay THEN plan.stay ELSE plan.old[w]

\* The jobs that remove an installed trove.
Removing == {n \in in \ kept : plan.old[n] # NoTrove}

\* The troves of the system once the jobs of ns are applied.
After(ns) == {Installed(w) : w \in Holder \ (ns \ kept)}
             \cup {plan.new[n] : n \in ns}

Closed(troves) ==
    \A t \in troves : Requires(t) \subseteq UNION {Provides(s) : s \in troves}

\* Packages and what is in them are different jobs, and all dependencies are
\* known; jobs that overlap are listed once; only needs of installed troves have
\* a number of their own.
ASSUME PlansAssumption == \A p \in Plans :
    /\ \A w \in p.within \cup p.passed : w \in Node \X Node /\ w[1] # w[2]
    /\ Requires(p.stay) \subseteq Dep
    /\ \A n \in Node : Requires(p.old[n]) \cup Requires(p.new[n]) \subseteq Dep
    /\ p.linked \subseteq Seq(Node) /\ \A s \in p.linked : IsInjective(s)
    /\ p.alike \subseteq (Holder \X Dep) \X Dep

\* A dependency and a need, which is a trove and a dependency, are never equal.
ASSUME DepAssumption == Dep \cap (Holder \X Dep) = {}

JobGraph == [node |-> in, edge |-> edges]

\* b is in every set that has a and, with a job, all that come after it.
Reaches(a, b) ==
    \A S \in SUBSET in :
        a \in S /\ (\A e \in edges : e[1] \in S => e[2] \in S) => b \in S

Walking == {"first", "second", "third"}

-----------------------------------------------------------------------------
NoTables ==
    /\ users = [d \in Dep |-> {}] /\ satisfied = {}
    /\ asked = [q \in Holder \X Dep |-> "no"]
    /\ lacking = {} /\ cannot = {} /\ edges = {} /\ late = {}

\* The system starts closed.
Init ==
    /\ plan \in Plans
    /\ in = {} /\ kept = {}
    /\ Closed(After({}))
    /\ NoTables
    /\ pc = "add"
    /\ walked = {} /\ rank = <<>> /\ todo = <<>> /\ stack = <<>>
    /\ begun = <<>> /\ done = <<>> /\ trees = <<>>
    /\ steps = <<>> /\ order = <<>>

-----------------------------------------------------------------------------
(* addJobs.                                                                *)

\* _findNewDependencies: only the first user of a dependency puts it into the
\* tables.
UsersWith(us, ns) ==
    [d \in Dep |-> us[d] \cup {n \in ns : d \in Requires(plan.new[n])}]

\* mergeRemoves: what the troves that now go provide is looked up among the
\* needs of installed troves, and these needs are inserted.  A need that was
\* inserted before is in TmpRequires and in DepCheck twice, and _resolveStmt,
\* which counts the rows of a dependency, matches it no more.
AskedWith(as, ns) ==
    [q \in Holder \X Dep |->
        IF /\ q[2] \in Requires(Installed(q[1]))
           /\ \E n \in ns \ kept : q[2] \in Provides(plan.old[n])
          THEN IF as[q] = "no" THEN "open" ELSE "twice"
          ELSE as[q]]

\* The jobs the user asked for.
AddJobs(ns) ==
    /\ pc = "add" /\ in = {} /\ ns # {}
    /\ in' = ns
    /\ users' = UsersWith(users, ns)
    /\ asked' = AskedWith(asked, ns)
    /\ pc' = "check"
    /\ UNCHANGED <<plan, kept, satisfied, lacking, cannot, edges, late, walk, result>>

-----------------------------------------------------------------------------
(* _check.                                                                 *)

NewProviders(d) == {n \in in : d \in Provides(plan.new[n])}
OldProviders(d) == {n \in Removing : d \in Provides(plan.old[n])}
StayProviders(d) == {w \in Holder \ Removing : d \in Provides(Installed(w))}

\* The needs that are still matched against the provides.
Needs == {d \in Dep : users[d] # {} /\ d \notin satisfied}
OldNeeds == {q \in Holder \X Dep : asked[q] = "open" /\ q \notin satisfied}

Found(d) == NewProviders(d) \cup StayProviders(d) # {}

\* brokenByErase: what a trove that stays loses.
Broken == {q \in OldNeeds : q[1] \notin Removing /\ OldProviders(q[2]) # {}}

\* _createDependencyEdges: requirer, provider and dependency.
NewNew == {e \in in \X in \X Needs :
             e[1] # e[2] /\ e[1] \in users[e[3]] /\ e[2] \in NewProviders(e[3])}
NewOld == {e \in in \X in \X Needs :
             e[1] # e[2] /\ e[1] \in users[e[3]] /\ e[2] \in OldProviders(e[3])}
OldOld == {e \in Removing \X in \X Dep :
             e[1] # e[2] /\ <<e[1], e[3]>> \in OldNeeds /\ e[2] \in OldProviders(e[3])}
OldNew == {e \in Removing \X in \X Dep :
             e[1] # e[2] /\ <<e[1], e[3]>> \in OldNeeds /\ e[2] \in NewProviders(e[3])}

\* A need of a trove that stays, lost with one job and met again by another:
\* the two are tied together.  lost and gained are the rows that were kept.
Resatisfied == {q \in Broken : Found(q[2])}

Ties(lost, gained) ==
    {<<lost[q], gained[q], q>> : q \in {x \in Resatisfied : gained[x] \notin {Stay, lost[x]}}}

\* _collapseEdges: an edge is cancelled by one between the same jobs with the
\* same number.  That is the number of the dependency, but for a tie the number
\* of the need.
Uncancelled(es, others) ==
    {e \in es : \A o \in others :
        ~ (o[1] = e[1] /\ o[2] = e[2] /\ (o[3] = e[3] \/ <<e[3], o[3]>> \in plan.alike))}

\* Mutant: a provider may go before what requires it.
NoEraseOrder(ties) == {<<e[2], e[1]>> : e \in Uncancelled(NewNew \cup ties, NewOld)}

\* The edges in the order of the update: a provider comes before and goes after
\* what requires it, and a tie is both.
Ordering(ties) ==
    {<<e[1], e[2]>> : e \in Uncancelled(OldOld \cup ties, OldNew)}
    \cup {<<e[2], e[1]>> : e \in Uncancelled(NewNew \cup ties, NewOld)}

\* Jobs that overlap in the file system are tied into a ring: each to the next
\* that is in the checker, and the last to the first.
Rings ==
    LET at(s) == {i \in DOMAIN s : s[i] \in in}
        next(s, i, j) == \/ i < j /\ \A k \in at(s) : k <= i \/ j <= k
                         \/ j < i /\ \A k \in at(s) : j <= k /\ k <= i
    IN  UNION {{<<s[x[1]], s[x[2]]>> : x \in {y \in at(s) \X at(s) : next(s, y[1], y[2])}} :
                 s \in plan.linked}

GetLeaves(es) == {n \in in : \A e \in es : e[1] # n}
Disconnected(es) == {n \in GetLeaves(es) : \A e \in es : e[2] # n}

\* Mutant: only what nothing orders goes before the final jobs.
LastsOfDisconnected(es) ==
    {<<l, f>> : l \in Disconnected(es) \ plan.final, f \in plan.final \cap in}

\* The final jobs come after all the leaves.
Lasts(es) == {<<l, f>> : l \in GetLeaves(es) \ plan.final, f \in plan.final \cap in}

\* A component nothing orders goes with its package, or with the job that
\* removes a package of its version.
Strays(es) ==
    LET news(n) == {m \in in : <<n, m>> \in plan.within /\ plan.new[m] # NoTrove}
        olds(n) == {m \in Removing : <<n, m>> \in plan.passed}
    IN  {e \in in \X (Disconnected(es) \ plan.critical) :
           /\ plan.new[e[2]] # NoTrove
           /\ \/ e[1] \in news(e[2])
              \/ news(e[2]) = {} /\ e[1] \in olds(e[2])}

\* Mutant: a package comes before its components.
PackagesFirst == {<<w[2], w[1]>> : w \in {x \in plan.within :
                     {x[1], x[2]} \subseteq in}}

\* _createCollectionEdges: a package comes after its components.
Collections == {w \in plan.within : {w[1], w[2]} \subseteq in}

\* _buildEdges, in the order of the code.
BuildEdges(lost, gained) ==
    LET e1 == edges \cup Ordering(Ties(lost, gained)) \cup Rings
        e2 == e1 \cup Lasts(e1)
    IN  e2 \cup Strays(e2) \cup Collections

\* _gatherResolution and _gatherDependencyErrors: what a round finds, and what
\* any round has found, is satisfied.
Check ==
    /\ pc = "check"
    /\ LET sat == satisfied \cup {d \in Needs : Found(d)}
                            \cup {q \in OldNeeds : Found(q[2])}
           removed == {d \in Needs : OldProviders(d) # {}}
           bad == {d \in Dep : users[d] # {}} \ sat
       IN  /\ satisfied' = sat
           /\ cannot' = (bad \cap removed) \cup (Broken \ sat)
           /\ lacking' = bad \ removed
           /\ pc' = IF bad \cup (Broken \ sat) = {} THEN "accepted" ELSE "errors"
    /\ \E lost \in [Resatisfied -> Node], gained \in [Resatisfied -> Holder] :
         /\ \A q \in Resatisfied :
              /\ lost[q] \in OldProviders(q[2])
              /\ IF gained[q] = Stay THEN StayProviders(q[2]) # {}
                 ELSE gained[q] \in NewProviders(q[2])
         /\ edges' = BuildEdges(lost, gained)
    /\ UNCHANGED <<plan, in, kept, users, asked, late, walk, result>>

-----------------------------------------------------------------------------
(* resolveDependencies and checkDeps: the next round.                      *)

\* addUpdates: troves that provide what is lacking, and packages of such, in
\* the same checker.  A need that is settled is not reconsidered when it gets a
\* new user, nor when what settled it goes only now.
AddUpdates(ns) ==
    /\ pc = "errors" /\ ns # {} /\ ns \subseteq Node \ (in \cup kept)
    /\ \A n \in ns : \E m \in Node :
         /\ Provides(plan.new[m]) \cap lacking # {}
         /\ n = m \/ (<<m, n>> \in plan.within /\ plan.new[n] # NoTrove)
    /\ "lateRemoval" \in Mishaps \/
         \A n \in ns : \A d \in Provides(plan.old[n]) :
            d \notin satisfied /\ \A w \in Holder : asked[<<w, d>>] = "no"
    /\ in' = in \cup ns
    /\ users' = UsersWith(users, ns)
    /\ asked' = AskedWith(asked, ns)
    /\ late' = late \cup {x \in ns \X Dep : x[2] \in Requires(plan.new[x[1]]) \cap satisfied}
    /\ pc' = "check"
    /\ UNCHANGED <<plan, kept, satisfied, lacking, cannot, edges, walk, result>>

\* DepCheckState.done, and setJobs with all of the jobs.
StartOver(ns) ==
    /\ in' = ns
    /\ users' = UsersWith([d \in Dep |-> {}], ns)
    /\ satisfied' = {}
    /\ lacking' = {} /\ cannot' = {} /\ edges' = {} /\ late' = {}

\* resolveEraseByUpdating: troves that lose something are updated as well.
UpdateUsers(ns) ==
    /\ pc = "errors" /\ ns # {} /\ ns \subseteq Node \ (in \cup kept)
    /\ \A n \in ns : plan.new[n] # NoTrove /\ \E d \in Dep : <<n, d>> \in cannot
    /\ StartOver(in \cup ns)
    /\ asked' = AskedWith([q \in Holder \X Dep |-> "no"], in \cup ns)
    /\ pc' = "check"
    /\ UNCHANGED <<plan, kept, walk, result>>

\* Those whose removal takes away something that cannot be replaced.
Takers == {n \in Removing : \E d \in Provides(plan.old[n]) :
             d \in cannot \/ \E w \in Holder : <<w, d>> \in cannot}

\* What is restored: some of them and, with autoResolvePackages, the packages of
\* those that are components.
Restored == UNION {{ts, ts \cup {p \in Removing : \E c \in ts : <<c, p>> \in plan.within}} :
                     ts \in SUBSET Takers}

\* Mutant: the graph keeps the job.
KeepInGraph(ns) ==
    /\ pc = "errors" /\ ns # {} /\ ns \in Restored
    /\ \A n \in ns : plan.new[n] = NoTrove
    /\ in' = in \ ns
    /\ kept' = kept \cup ns
    /\ pc' = "check"
    /\ UNCHANGED <<plan, tables, walk, result>>

\* resolveEraseByKeeping, restoreTrove: erasures are taken back, in the same
\* checker.  A need of a trove that now stays may be settled already, and is
\* then not reconsidered either.
KeepErased(ns) ==
    /\ pc = "errors" /\ ns # {} /\ ns \in Restored
    /\ \A n \in ns : plan.new[n] = NoTrove
    /\ "keptNeed" \in Mishaps \/ \A n \in ns, d \in Dep : <<n, d>> \notin satisfied
    /\ in' = in \ ns
    /\ kept' = kept \cup ns
    /\ edges' = {e \in edges : e[1] \notin ns /\ e[2] \notin ns}
    /\ pc' = "check"
    /\ UNCHANGED <<plan, users, satisfied, asked, lacking, cannot, late, walk, result>>

\* If an update is among them its new trove is installed beside the old one,
\* and the check starts over.
KeepBeside(ns) ==
    /\ pc = "errors" /\ ns # {} /\ ns \in Restored
    /\ \E n \in ns : plan.new[n] # NoTrove
    /\ kept' = kept \cup ns
    /\ StartOver(in \ {n \in ns : plan.new[n] = NoTrove})
    /\ asked' = [q \in Holder \X Dep |->
                   IF /\ q[2] \in Requires(Installed(q[1]))
                      /\ \E n \in in \ kept' : q[2] \in Provides(plan.old[n])
                     THEN "open" ELSE "no"]
    /\ pc' = "check"
    /\ UNCHANGED <<plan, walk, result>>

-----------------------------------------------------------------------------
(* DirectedGraph._walk, depth first.                                       *)

Ascending(S) == {s \in SetToSeqs(S) : \A i, j \in DOMAIN s : i < j => s[i] < s[j]}

Start(es, nodes) ==
    /\ walked' = es /\ rank' = nodes /\ todo' = nodes
    /\ stack' = <<>> /\ begun' = <<>> /\ done' = <<>> /\ trees' = <<>>

Position(s, x) == CHOOSE i \in DOMAIN s : s[i] = x

Unbegun(n) == {m \in ToSet(rank) : <<n, m>> \in walked /\ m \notin ToSet(begun)}

\* The children of n in the order of rank.
Children(n) ==
    {s \in SetToSeqs(Unbegun(n)) :
       \A i, j \in DOMAIN s : i < j => Position(rank, s[i]) < Position(rank, s[j])}

\* The next node to start a tree from.
Root ==
    /\ pc \in Walking /\ stack = <<>> /\ todo # <<>>
    /\ todo' = Tail(todo)
    /\ IF Head(todo) \in ToSet(begun)
         THEN UNCHANGED <<stack, trees>>
         ELSE /\ stack' = <<<<Head(todo), FALSE>>>>
              /\ trees' = Append(trees, {})
    /\ UNCHANGED <<plan, in, kept, tables, pc, walked, rank, begun, done, result>>

Visit ==
    /\ pc \in Walking /\ stack # <<>>
    /\ LET n == stack[1][1]
           below == Tail(stack)
       IN  \/ /\ stack[1][2]
              /\ done' = Append(done, n)
              /\ stack' = below
              /\ UNCHANGED <<begun, trees>>
           \/ /\ ~stack[1][2] /\ n \in ToSet(begun)
              /\ stack' = below
              /\ UNCHANGED <<begun, done, trees>>
           \/ /\ ~stack[1][2] /\ n \notin ToSet(begun)
              /\ begun' = Append(begun, n)
              /\ trees' = [trees EXCEPT ![Len(trees)] = @ \cup {n}]
              /\ \E cs \in Children(n) :
                   stack' = [i \in DOMAIN cs |-> <<cs[i], FALSE>>]
                            \o <<<<n, TRUE>>>> \o below
              /\ UNCHANGED done
    /\ UNCHANGED <<plan, in, kept, tables, pc, walked, rank, todo, result>>

Walked == stack = <<>> /\ todo = <<>>

-----------------------------------------------------------------------------
(* _stronglyConnect.                                                       *)

\* getStronglyConnectedComponents: a walk over the jobs ...
Connect ==
    /\ pc = "accepted"
    /\ pc' = "first"
    /\ \E nodes \in Ascending(in) : Start(edges, nodes)
    /\ UNCHANGED <<plan, in, kept, tables, result>>

\* Mutant: the second walk follows the edges forwards.
ConnectForwards ==
    /\ pc = "first" /\ Walked
    /\ pc' = "second"
    /\ Start(edges, Reverse(done))
    /\ UNCHANGED <<plan, in, kept, tables, result>>

\* ... and one over the edges reversed, from the last that finished.
ConnectBack ==
    /\ pc = "first" /\ Walked
    /\ pc' = "second"
    /\ Start(Transpose(JobGraph).edge, Reverse(done))
    /\ UNCHANGED <<plan, in, kept, tables, result>>

\* Its trees are the steps.  _orderJobSets sorts them; getTotalOrdering walks
\* over them in the reverse of that order.
OrderJobSets ==
    /\ pc = "second" /\ Walked
    /\ pc' = "third"
    /\ \E s \in SetToSeqs(ToSet(trees)) :
         /\ steps' = s
         /\ Start({e \in (DOMAIN s) \X (DOMAIN s) :
                     e[1] # e[2] /\ \E a \in s[e[1]], b \in s[e[2]] : <<a, b>> \in edges},
                  Reverse([i \in DOMAIN s |-> i]))
    /\ UNCHANGED <<plan, in, kept, tables, order>>

\* BackEdgeError.
BackEdge == \E e \in walked : /\ Position(begun, e[1]) > Position(begun, e[2])
                              /\ Position(done, e[1]) < Position(done, e[2])

\* getTotalOrdering: what finished last goes first.
TotalOrdering ==
    /\ pc = "third" /\ Walked
    /\ order' = [i \in DOMAIN done |-> steps[Reverse(done)[i]]]
    /\ pc' = IF BackEdge THEN "failed" ELSE "ordered"
    /\ UNCHANGED <<plan, in, kept, tables, walk, steps>>

-----------------------------------------------------------------------------
Next ==
    \/ \E ns \in SUBSET Node : \/ AddJobs(ns) \/ AddUpdates(ns)
                               \/ UpdateUsers(ns)
                               \/ KeepErased(ns) \/ KeepBeside(ns)
    \/ Check
    \/ Root \/ Visit
    \/ Connect \/ ConnectBack \/ OrderJobSets \/ TotalOrdering

Spec == Init /\ [][Next]_vars

-----------------------------------------------------------------------------
(* Properties.                                                             *)

Ordered == pc = "ordered"

\* The jobs of the first k steps.
Prefix(k) == UNION {order[i] : i \in 1..k}

\* Every variable has its type, and the walk its shape.
TypeOK ==
    /\ in \subseteq Node /\ kept \subseteq Node
    /\ users \in [Dep -> SUBSET Node]
    /\ satisfied \subseteq Dep \cup (Holder \X Dep)
    /\ asked \in [Holder \X Dep -> {"no", "open", "twice"}]
    /\ edges \subseteq in \X in /\ late \subseteq Node \X Dep
    /\ pc \in {"add", "check", "errors", "accepted", "ordered"} \cup Walking
    /\ pc = "ordered" => UNION ToSet(order) = in

\* One half of a tie of q may have been cancelled: the job that lost it installs
\* a trove with a need of the same number, which the other job took away.
Torn(q) == \E lost \in OldProviders(q[2]), gained \in NewProviders(q[2]) :
    lost # gained /\ \E d \in Requires(plan.new[lost]) \cap Provides(plan.old[gained]) :
        <<q, d>> \in plan.alike

\* DepCheckState: "a reordering of the job is returned which preserves
\* dependency closure at each step".  After every step of an update that was
\* accepted what is installed has all it requires; before the last step a new
\* trove may still miss what was settled before it came, and an installed one
\* what a torn tie keeps.
StepClosed == Ordered => \A k \in 0..Len(order) :
    LET provided == UNION {Provides(t) : t \in After(Prefix(k))}
    IN  /\ \A w \in Holder \ (Prefix(k) \ kept) : \A d \in Requires(Installed(w)) :
              d \in provided \/ (k < Len(order) /\ Torn(<<w, d>>))
        /\ \A n \in Prefix(k) : \A d \in Requires(plan.new[n]) :
              d \in provided \/ (k < Len(order) /\ <<n, d>> \in late)

\* The steps are the strongly connected components of the graph, by the
\* definition of these, and no job of a step has to go before one of an
\* earlier step.
StepsSorted == Ordered =>
    \A i, j \in DOMAIN order : \A a \in order[i], b \in order[j] :
        /\ (i = j) <=> (Reaches(a, b) /\ Reaches(b, a))
        /\ Reaches(a, b) => i <= j

\* A package is installed when none of its components is still to come, and
\* jobs that overlap go together.
WholePackages == Ordered => \A k \in 1..Len(order) :
    /\ \A w \in plan.within : w[2] \in Prefix(k) /\ w[1] \in in => w[1] \in Prefix(k)
    /\ \A s \in plan.linked : \/ ToSet(s) \cap in \subseteq Prefix(k)
                              \/ ToSet(s) \cap Prefix(k) = {}

\* "finalJobs: list of jobs that should be applied as a part of the last job": no
\* other job makes the last step, unless it is a cycle, which has no leaf that
\* could go before the final jobs.
FinalsLast == Ordered /\ plan.final \cap in # {} =>
    \A n \in in \ plan.final : order[Len(order)] # {n}
=============================================================================
