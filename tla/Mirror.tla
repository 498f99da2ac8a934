------------------------------- MODULE Mirror -------------------------------
(***************************************************************************)
(* Mirroring a repository: mirrorRepository and its helpers in src/conary/ *)
(* conaryclient/mirror.py, with the calls of the repositories it makes     *)
(* (getNewTroveList, hasTroves, setTroveInfo, presentHiddenTroves,         *)
(* setMirrorMark in src/conary/repository/netrepos/netserver.py).          *)
(*                                                                         *)
(* The source stamps each trove with the second of its last change.  Each  *)
(* target keeps a mark; a pass asks the source for troves from the lowest  *)
(* mark on, brings them to the targets that lack them, and advances the    *)
(* marks.  Passes are repeated until one has nothing to do.                *)
(*                                                                         *)
(* The source goes on changing while the mirror runs.                      *)
(*                                                                         *)
(* Simplifications: a commit to the source is visible in the second of its *)
(* stamp; relative change sets, keys, group recursion, the test mode, the  *)
(* fast and the full synchronisation of trove infos are left out; one      *)
(* mirror runs at a time (its lock file).                                  *)
(***************************************************************************)
EXTENDS Integers, Sequences, FiniteSets, SequencesExt, FiniteSetsExt

CONSTANTS
    Trove,      \* the troves
    Match,      \* those the configuration asks for
    VF,         \* the version and flavor of each, as a number that sorts them
    Node,       \* the name and branch of each
    Target,     \* the target repositories
    Mirrors,    \* the sets of targets that a mirror may have
    Room,       \* least number of troves the source lists, 1000 in the code
    JobSize,    \* troves in a bundle, 20 in the code
    SplitNodes, \* whether two versions of a trove are kept out of one bundle
    MaxClock,   \* seconds in one behaviour
    MaxChanges, \* commits, removals and later infos in one behaviour
    MaxFaults   \* failures in one behaviour

ASSUME SetsAssumption == IsFiniteSet(Trove) /\ Match \subseteq Trove /\ IsFiniteSet(Target)
                         /\ Mirrors \subseteq (SUBSET Target) \ {{}}
ASSUME BoundsAssumption == JobSize \in Nat \ {0} /\ Room \in Nat \ {0, 1} /\ MaxClock \in Nat \ {0}
                           /\ MaxChanges \in Nat /\ MaxFaults \in Nat /\ SplitNodes \in BOOLEAN
ASSUME VFAssumption == \A t \in Trove : VF[t] \in Nat

VARIABLES
    clock,    \* the second it is
    src,      \* the source: stamp (0: none), type and info stamp of each trove
    missed,   \* history: troves whose last change no pass will see
    targets,  \* the targets of this mirror
    hidden,   \* whether it commits hidden troves
    tgt,      \* the state of each trove on each target
    info,     \* the troves whose info each target has as it is at the source
    mark,     \* the mark of each target
    pc,       \* where the mirror is
    sync,     \* whether this pass starts from the beginning
    cur,      \* the mark of this pass
    asked,    \* the second in which it asked for trove infos, 0 before
    listed,   \* what it got from the source: trove, mark and type
    chunks,   \* troves still to be committed, by the targets that need them
    bundles,  \* the bundles of the chunk at hand, numbered
    goal,     \* the mark to set
    updated,  \* whether this pass has changed anything
    rest,     \* targets whose removed troves are still to be looked at
    faults    \* failures so far

world == <<clock, src, missed>>
setup == <<targets, hidden>>
repos == <<tgt, info, mark>>
run == <<pc, sync, cur, asked, listed, chunks, bundles, goal, updated, rest>>
vars == <<world, setup, repos, run, faults>>

Absent == [stamp |-> 0, gone |-> FALSE, info |-> 0]
Stamp(t) == src[t].stamp
Committed == {t \in Trove : Stamp(t) > 0}

Marks(items) == {x.mark : x \in items}
Names(items) == {x.trove : x \in items}
Gone == {x \in listed : x.gone}

Init ==
    /\ clock = 1
    /\ src = [t \in Trove |-> Absent]
    /\ targets \in Mirrors
    /\ hidden \in BOOLEAN /\ (Cardinality(targets) > 1 => hidden)
    /\ tgt = [k \in Target |-> [t \in Trove |-> "absent"]]
    /\ info = [k \in Target |-> {}]
    /\ mark = [k \in Target |-> -1]
    /\ pc = "idle" /\ sync = FALSE /\ cur = -1 /\ asked = 0 /\ listed = {}
    /\ chunks = {} /\ bundles = {} /\ goal = 0
    /\ updated = FALSE /\ rest = {} /\ faults = 0 /\ missed = {}

-----------------------------------------------------------------------------
(* The source.                                                             *)

Tick ==
    /\ clock < MaxClock
    /\ clock' = clock + 1
    /\ UNCHANGED <<src, missed, setup, repos, run, faults>>

MayChange ==
    Cardinality(Committed) + Cardinality({t \in Trove : src[t].gone})
      + Cardinality({t \in Trove : src[t].info > Stamp(t)}) < MaxChanges

\* The marks have been moved past the second it is, or a pass that began at it
\* has its list and may move them ("forcibly advance the mark in case we're
\* stuck"): no pass will ask for what changes in this second from now on.
Overtaken ==
    \/ \A k \in targets : mark[k] > clock
    \/ pc \in {"sift", "chunk", "remove", "advance"} /\ cur = clock

\* A trove gets a new stamp.
Restamp(t, is) ==
    /\ src' = [src EXCEPT ![t] = is]
    /\ missed' = IF Overtaken THEN missed \cup {t} ELSE missed \ {t}

Commits(t) ==
    /\ Stamp(t) = 0
    /\ Restamp(t, [stamp |-> clock, gone |-> FALSE, info |-> clock])
    /\ UNCHANGED info

\* Of troves that the configuration does not ask for only the commit matters.
Alive(t) == t \in Match /\ Stamp(t) > 0 /\ ~ src[t].gone

\* An info changes once in a second.
Annotates(t) ==
    /\ Alive(t) /\ src[t].info < clock
    /\ src' = [src EXCEPT ![t].info = clock]
    /\ info' = [k \in Target |-> info[k] \ {t}]
    /\ UNCHANGED missed

Removes(t) ==
    /\ Alive(t)
    /\ Restamp(t, [stamp |-> clock, gone |-> TRUE, info |-> 0])
    /\ UNCHANGED info

\* A commit, an update of a trove's info, or the removal of a trove.
Change ==
    /\ MayChange
    /\ \E t \in Trove : Commits(t) \/ Annotates(t) \/ Removes(t)
    /\ UNCHANGED <<clock, setup, tgt, mark, run, faults>>

-----------------------------------------------------------------------------
(* One pass: mirrorRepository.                                             *)

Launch ==
    /\ pc = "idle"
    /\ pc' = "pass"
    /\ sync' \in BOOLEAN
    /\ UNCHANGED <<world, setup, repos, cur, asked, listed, chunks, bundles, goal,
                   updated, rest, faults>>

\* The pass is over, and what it had in memory is forgotten.
Return(p) ==
    /\ pc' = p /\ sync' = FALSE /\ cur' = -1 /\ asked' = 0 /\ listed' = {}
    /\ chunks' = {} /\ bundles' = {} /\ goal' = 0
    /\ updated' = FALSE /\ rest' = {}

\* The run is over.
Stop == Return("idle")

\* A call made to several targets at once.  The call may fail at some of them;
\* the run ends then, when the others are done.  Goes on when all of them did.
Parallel(ks, ok, GoesOn) ==
    \/ ok = ks /\ GoesOn /\ UNCHANGED faults
    \/ /\ ok # ks /\ faults < MaxFaults
       /\ faults' = faults + 1
       /\ Stop

\* Mutant: the highest mark is where to start.
PassFromHighest ==
    /\ pc = "pass"
    /\ cur' = IF sync THEN -1 ELSE Max({mark[k] : k \in targets})
    /\ pc' = "reset" /\ sync' = FALSE
    /\ UNCHANGED <<world, setup, repos, asked, listed, chunks, bundles, goal, updated, rest, faults>>

\* The lowest mark of the targets is where to start.
Pass ==
    /\ pc = "pass"
    /\ cur' = IF sync THEN -1 ELSE Min({mark[k] : k \in targets})
    /\ pc' = "reset" /\ sync' = FALSE
    /\ UNCHANGED <<world, setup, repos, asked, listed, chunks, bundles, goal, updated, rest, faults>>

\* Every other mark is put back there, one after the other.
ResetMark ==
    /\ pc = "reset"
    /\ \/ \E k \in targets : mark[k] # cur /\ mark' = [mark EXCEPT ![k] = cur]
                             /\ UNCHANGED pc
       \/ /\ \A k \in targets : mark[k] = cur
          /\ pc' = "info" /\ UNCHANGED mark
    /\ UNCHANGED <<world, setup, tgt, info, sync, cur, asked, listed, chunks, bundles,
                   goal, updated, rest, faults>>

\* Mutant: the infos of troves that are hidden are left out.
NewInfosShown(k) == {t \in Match : /\ src[t].info > 0 /\ Stamp(t) <= cur /\ cur <= src[t].info
                                   /\ tgt[k][t] = "present"}

\* The trove infos changed since, of troves no younger than the mark, which a
\* target has.
NewInfos(k) == {t \in Match : /\ src[t].info > 0 /\ Stamp(t) <= cur /\ cur <= src[t].info
                              /\ tgt[k][t] # "absent"}

MirrorTroveInfo ==
    /\ pc = "info"
    /\ \E ok \in SUBSET targets :
         /\ info' = [k \in Target |-> IF k \in ok THEN info[k] \cup NewInfos(k) ELSE info[k]]
         /\ Parallel(targets, ok,
              /\ pc' = "query" /\ asked' = clock
              /\ updated' = (\E k \in targets : NewInfos(k) # {})
              /\ UNCHANGED <<sync, cur, listed, chunks, bundles, goal, rest>>)
    /\ UNCHANGED <<world, setup, tgt, mark>>

\* How many troves the source lists at most: more than have one stamp.
Limit(m) ==
    LET tie(s) == Cardinality({t \in Trove : Stamp(t) = s})
    IN  Max({Room} \cup {tie(s) + 1 : s \in {r \in 1..MaxClock : r >= m /\ tie(r) > 1}})

\* What the source may return from a mark on: the first troves by stamp, in
\* any order where stamps are equal.
Listings(m) ==
    LET from == {t \in Committed : Stamp(t) >= m}
    IN  {l \in SUBSET from :
            /\ Cardinality(l) = Min({Limit(m), Cardinality(from)})
            /\ \A t \in l, u \in from \ l : Stamp(t) <= Stamp(u)}

\* Whether t comes before u, or with it, in the order of the list.
UpTo(t, u) ==
    \/ Stamp(t) < Stamp(u)
    \/ Stamp(t) = Stamp(u) /\ VF[t] <= VF[u]

\* The troves at the end of a list that have one version and flavor are left
\* for the next pass, because they may be incomplete, unless others with their
\* mark are not.
CutOff(l) ==
    LET others(v) == {u \in l : VF[u] # v}
        tail == {t \in l : \A u \in others(VF[t]) : UpTo(u, t) /\ ~ UpTo(t, u)}
        head == l \ tail
    IN  IF head # {} /\ \A t \in tail, u \in head : Stamp(t) > Stamp(u)
        THEN head ELSE l

\* Mutant: what the configuration does not ask for is listed too.
ListAll ==
    /\ pc = "query"
    /\ \E l \in Listings(cur) :
         /\ listed' = {[trove |-> t, mark |-> Stamp(t), gone |-> src[t].gone] : t \in CutOff(l)}
         /\ goal' = Max({cur} \cup {Stamp(t) : t \in l})
    /\ pc' = "sift"
    /\ UNCHANGED <<world, setup, repos, sync, cur, asked, chunks, bundles, updated, rest, faults>>

\* getTroveList.  goal is the highest mark of what was returned.
GetTroveList ==
    /\ pc = "query"
    /\ \E l \in Listings(cur) :
         /\ listed' = {[trove |-> t, mark |-> Stamp(t), gone |-> src[t].gone] :
                         t \in CutOff(l \cap Match)}
         /\ goal' = Max({cur} \cup {Stamp(t) : t \in l})
    /\ pc' = "sift"
    /\ UNCHANGED <<world, setup, repos, sync, cur, asked, chunks, bundles, updated, rest, faults>>

\* Who lacks the trove: hidden and removed troves are not lacking.
Lacking(t) == {k \in targets : tgt[k][t] = "absent"}

\* Mutant: the mark is not moved when the list ends where it began.
CrtMaxMarkStuck == Max(Marks(listed))

\* The mark to break out of a loop with.
CrtMaxMark ==
    LET m == Max(Marks(listed)) IN IF cur > 0 /\ m = cur THEN m + 1 ELSE m

\* The marks are to be set, and the pass is to be repeated.
Again(m) ==
    /\ goal' = m
    /\ pc' = "advance"
    /\ UNCHANGED <<world, setup, repos, sync, cur, asked, listed, chunks, bundles,
                   updated, rest, faults>>

\* Nothing was returned, or all of it was filtered out.
NothingListed ==
    /\ pc = "sift" /\ listed = {}
    /\ \/ goal > cur /\ Again(goal)
       \/ /\ goal = cur /\ Stop
          /\ UNCHANGED <<world, setup, repos, faults>>

\* The troves some target lacks.
Needed == {x \in listed : ~ x.gone /\ Lacking(x.trove) # {}}

\* Mutant: the mark is not moved, and the run is over.
NothingNeededStops ==
    /\ pc = "sift" /\ listed # {} /\ Needed = {} /\ Gone = {}
    /\ Stop
    /\ UNCHANGED <<world, setup, repos, faults>>

NothingNeeded ==
    /\ pc = "sift" /\ listed # {} /\ Needed = {} /\ Gone = {}
    /\ Again(CrtMaxMark)

\* The troves are split by the targets that lack them.
SplitByTarget ==
    /\ pc = "sift" /\ (Needed # {} \/ Gone # {})
    /\ chunks' = {[to |-> ks, items |-> {x \in Needed : Lacking(x.trove) = ks}] :
                    ks \in {Lacking(x.trove) : x \in Needed}}
    /\ pc' = "chunk" /\ goal' = 0
    /\ UNCHANGED <<world, setup, repos, sync, cur, asked, listed, bundles, updated, rest, faults>>

-----------------------------------------------------------------------------
(* Bundles.                                                                *)

\* The troves of one version and flavor stay together.
Groups(items) == {{x \in items : VF[x.trove] = v} : v \in {VF[x.trove] : x \in items}}

\* Groups are sorted by the mark of their first trove, which is any of them:
\* the troves come out of a dictionary.
Sorted(gs) ==
    \A i, j \in DOMAIN gs : i < j => Min(Marks(gs[i])) <= Max(Marks(gs[j]))

\* A bundle takes groups until it has JobSize troves, or a second version of
\* one of its troves would come in and is to be kept out.
AddGroup(last, g) ==
    LET nodes(s) == {Node[x.trove] : x \in s}
    IN  Cardinality(last) < JobSize /\ (SplitNodes => nodes(g) \cap nodes(last) = {})

\* The bundles of the groups; at[i] is the first group of the one that has i.
BuildJobList(gs) ==
    LET bundle(at, i, n) == UNION {gs[j] : j \in {x \in 1..n : at[x] = i}}
        first == {at \in [DOMAIN gs -> DOMAIN gs] : \A i \in DOMAIN gs :
                    at[i] = IF i > 1 /\ AddGroup(bundle(at, at[i - 1], i - 1), gs[i])
                            THEN at[i - 1] ELSE i}
    IN  {{[first |-> i, items |-> bundle(at, i, Len(gs))] : i \in {at[j] : j \in DOMAIN gs}} :
            at \in first}

\* The mark of a chunk: the last of the first marks of its bundles.
BundlesMark(bs) == Max({Min(Marks(b.items)) : b \in bs})

\* The troves needed by the fewest targets come first.
NextChunk ==
    /\ pc = "chunk" /\ bundles = {}
    /\ \E c \in chunks :
         /\ \A d \in chunks : Cardinality(c.to) <= Cardinality(d.to)
         /\ \E gs \in SetToSeqs(Groups(c.items)) :
              /\ Sorted(gs)
              /\ \E bs \in BuildJobList(gs) :
                   /\ bundles' = {[first |-> b.first, to |-> c.to, items |-> b.items] : b \in bs}
                   /\ goal' = Max({goal, BundlesMark(bs)})
         /\ chunks' = chunks \ {c}
    /\ updated' = TRUE
    /\ UNCHANGED <<world, setup, repos, pc, sync, cur, asked, listed, rest, faults>>

\* Mutant: the troves are not hidden.
CommitVisible(ks, ts) ==
    /\ tgt' = [k \in Target |-> [t \in Trove |->
                  IF k \in ks /\ t \in ts THEN "present" ELSE tgt[k][t]]]
    /\ info' = [k \in Target |-> IF k \in ks THEN info[k] \cup ts ELSE info[k]]

\* Troves ts reach the targets ks, with the infos they have at the source.
Commit(ks, ts) ==
    /\ tgt' = [k \in Target |-> [t \in Trove |->
                  IF k \in ks /\ t \in ts
                  THEN IF hidden THEN "hidden" ELSE "present" ELSE tgt[k][t]]]
    /\ info' = [k \in Target |-> IF k \in ks THEN info[k] \cup ts ELSE info[k]]

\* The first bundle that is left is committed to the targets that lack it.  A
\* trove that the source has removed by now is removed in the change set too:
\* no target has such a trove, so the commit fails at all of them.
CommitBundle ==
    /\ pc = "chunk"
    /\ \E b \in bundles :
         /\ \A o \in bundles : b.first <= o.first
         /\ \/ /\ \E t \in Names(b.items) : src[t].gone
               /\ Stop
               /\ UNCHANGED <<tgt, info, faults>>
            \/ /\ \A t \in Names(b.items) : ~ src[t].gone
               /\ \E ok \in SUBSET b.to :
                    /\ Commit(ok, Names(b.items))
                    /\ Parallel(b.to, ok,
                         /\ bundles' = bundles \ {b}
                         /\ UNCHANGED <<pc, sync, cur, asked, listed, chunks, goal,
                                        updated, rest>>)
    /\ UNCHANGED <<world, setup, mark>>

-----------------------------------------------------------------------------
(* The end of a pass.                                                      *)

\* The mark after the bundles; "avoid repeating the same query".
NewMark == IF goal = 0 \/ goal <= cur THEN CrtMaxMark ELSE goal

\* Troves that were hidden are shown, then the mark is set, at each target.
Finish ==
    /\ pc = "chunk" /\ bundles = {} /\ chunks = {}
    /\ \E shown \in SUBSET targets : \E ok \in SUBSET shown :
         /\ tgt' = [k \in Target |-> [t \in Trove |->
                       IF k \in shown /\ hidden /\ tgt[k][t] = "hidden" THEN "present"
                       ELSE tgt[k][t]]]
         /\ mark' = [k \in Target |-> IF k \in ok THEN NewMark ELSE mark[k]]
         /\ Parallel(targets, ok,
              /\ pc' = "remove"
              /\ rest' = targets
              /\ UNCHANGED <<sync, cur, asked, listed, chunks, bundles, goal, updated>>)
    /\ UNCHANGED <<world, setup, info>>

\* The troves removed at the source, one target after the other; those the
\* target does not have are passed over.
MirrorRemoved ==
    /\ pc = "remove"
    /\ \E k \in rest :
         LET ts == {t \in Names(Gone) : tgt[k][t] = "present"}
         IN  /\ tgt' = [tgt EXCEPT ![k] = [t \in Trove |->
                           IF t \in ts THEN "removed" ELSE @[t]]]
             /\ updated' = (updated \/ ts # {})
             /\ rest' = rest \ {k}
    /\ UNCHANGED <<world, setup, info, mark, pc, sync, cur, asked, listed, chunks,
                   bundles, goal, faults>>

\* There is another pass: troves were committed, or removed ones listed.
Done ==
    /\ pc = "remove" /\ rest = {}
    /\ \/ ~ updated /\ Gone # {} /\ Again(CrtMaxMark)
       \/ /\ updated
          /\ Return("pass")
          /\ UNCHANGED <<world, setup, repos, faults>>

\* The marks are set, and the caller is told to call again.
Advance ==
    /\ pc = "advance"
    /\ \E ok \in SUBSET targets :
         /\ mark' = [k \in Target |-> IF k \in ok THEN goal ELSE mark[k]]
         /\ Parallel(targets, ok, Return("pass"))
    /\ UNCHANGED <<world, setup, tgt, info>>

\* The process dies, or one of its calls fails.  The marks are set before the
\* removals are made: those that are left may be missed then.
Fail ==
    /\ pc # "idle" /\ faults < MaxFaults
    /\ faults' = faults + 1
    /\ missed' = missed \cup
                  {t \in Names(Gone) : pc = "remove" /\ \E k \in rest : tgt[k][t] = "present"}
    /\ Stop
    /\ UNCHANGED <<clock, src, setup, repos>>

Work ==
    \/ Pass \/ ResetMark \/ MirrorTroveInfo \/ GetTroveList \/ NothingListed
    \/ NothingNeeded \/ SplitByTarget \/ NextChunk \/ CommitBundle \/ Finish
    \/ MirrorRemoved \/ Done \/ Advance

Next == Tick \/ Change \/ Launch \/ Work \/ Fail

Spec == Init /\ [][Next]_vars

\* Time goes on, the mirror is started again and again, and does its work.
FairSpec == Spec /\ WF_vars(Tick) /\ WF_vars(Launch) /\ WF_vars(Work)

-----------------------------------------------------------------------------
(* Properties.                                                             *)

\* Every variable has its type.
TypeOK ==
    /\ clock \in 1..MaxClock
    /\ \A t \in Trove : Stamp(t) \in 0..clock /\ src[t].info \in 0..clock
    /\ tgt \in [Target -> [Trove -> {"absent", "hidden", "present", "removed"}]]
    /\ info \in [Target -> SUBSET Match]
    /\ mark \in [Target -> -1..(MaxClock + 1)]
    /\ cur \in -1..(MaxClock + 1) /\ asked \in 0..clock /\ goal \in -1..(MaxClock + 1)
    /\ Names(listed) \subseteq Match /\ rest \subseteq targets
    /\ \A c \in chunks : c.to \subseteq targets /\ c.items \subseteq listed
    /\ faults \in 0..MaxFaults /\ missed \subseteq Trove

\* Whether a target has what t has become at the source.
Mirrored(k, t) ==
    IF src[t].gone THEN tgt[k][t] \notin {"hidden", "present"} ELSE tgt[k][t] # "absent"

\* The lowest mark has passed no change a target does not have, which no
\* later pass would ask for: a new trove, or, when the pass is over, a removal.
\* "it's possible that something new got committed with the same mark we last
\* updated to, so we have to look again at all of the troves [...] with the
\* last mark": what this does not do is exactly in "missed".
NothingSkipped ==
    \A k \in targets, t \in Match \ missed :
        Stamp(t) > 0 /\ Stamp(t) < Min({mark[j] : j \in targets}) =>
            Mirrored(k, t) \/ (pc = "remove" /\ src[t].gone)

\* A mark passes no change of a trove's info that a target with the trove does
\* not have, if the change was there when the pass asked for infos, and the
\* trove is not younger than where the pass began.
InfosKept ==
    [][\A k \in targets, t \in Match :
          \/ tgt[k][t] = "absent" \/ Stamp(t) > cur
          \/ src[t].info = 0 \/ src[t].info >= asked
          \/ src[t].info < mark[k] \/ mark'[k] <= src[t].info
          \/ t \in info[k]]_vars

\* A trove that a pass has listed comes into sight on a target only when all
\* of them have it, whichever call failed before: troves are committed hidden,
\* and presentHiddenTroves comes after all the bundles.
ListedTogether ==
    [][\A k \in targets, t \in Names(listed) :
          tgt[k][t] # "present" /\ tgt'[k][t] = "present" =>
             \A j \in targets : tgt'[j][t] # "absent" \/ src[t].gone]_vars

\* "will use hidden commits to synchronize target mirrors": no target shows a
\* trove that another one does not have.  presentHiddenTroves shows all that
\* is hidden at a target, what a run that failed has left there too.
Together ==
    \A t \in Trove : (\E k \in targets : tgt[k][t] = "present") =>
        \A k \in targets : tgt[k][t] # "absent" \/ src[t].gone

\* Once the source is quiet and nothing fails any more, every target has all
\* its troves and removals, whatever failed before.
CatchesUp == <>[](\A k \in targets, t \in Match \ missed : Stamp(t) > 0 => Mirrored(k, t))

\* Every trove that was committed hidden is shown in the end.
AllShown == <>[](\A k \in targets, t \in Match : tgt[k][t] # "hidden")

\* Every run of the mirror comes to an end: the passes do not go round and
\* round at one mark.
RunEnds == pc = "pass" ~> pc = "idle"
=============================================================================
