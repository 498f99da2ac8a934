--------------------------- MODULE Mirror_proofs ----------------------------
(***************************************************************************)
(* Proofs about Mirror: the types, that no mark passes what a target       *)
(* lacks, and that what a pass has listed comes into sight everywhere.     *)
(***************************************************************************)
EXTENDS Mirror, FiniteSetTheorems, WellFoundedInduction, TLAPS

PCs == {"idle", "pass", "reset", "info", "query", "sift", "chunk", "remove", "advance"}

Item == [trove : Match, mark : 0..MaxClock, gone : BOOLEAN]

\* The chunks and the bundles of a pass.
Batches == chunks \cup bundles

TWorld ==
    /\ clock \in 1..MaxClock
    /\ src \in [Trove -> [stamp : 0..MaxClock, gone : BOOLEAN, info : 0..MaxClock]]
    /\ \A t \in Trove : Stamp(t) <= clock /\ src[t].info <= clock /\ (src[t].gone => Stamp(t) > 0)
    /\ targets \subseteq Target /\ targets # {} /\ missed \subseteq Trove

TRepos ==
    /\ tgt \in [Target -> [Trove -> {"absent", "hidden", "present", "removed"}]]
    /\ info \in [Target -> SUBSET Match]
    /\ mark \in [Target -> -1..(MaxClock + 1)]

TRun ==
    /\ pc \in PCs
    /\ cur \in -1..(MaxClock + 1) /\ goal \in -1..(MaxClock + 1)
    /\ listed \subseteq Item /\ IsFiniteSet(listed)
    /\ pc \in {"chunk", "remove"} => listed # {}
    /\ \A b \in Batches : /\ b.to \subseteq targets /\ b.items # {} /\ b.items \subseteq listed
                         /\ \A x \in b.items : ~ x.gone
    /\ pc # "chunk" => Batches = {}
    /\ rest \subseteq targets /\ asked \in 0..clock
    /\ faults \in 0..MaxFaults

TInv == TWorld /\ TRepos /\ TRun

\* Only a mirror of one target commits troves that can be seen.
Shows == ~ hidden => /\ \A j, k \in targets : j = k
                     /\ \A k \in targets, t \in Trove : tgt[k][t] # "hidden"

\* What was removed stays so.
StaysGone == \A x \in Gone : src[x.trove].gone

\* Every target has what is listed, or has still to get it.
Pending == pc = "chunk" => \A x \in listed, k \in targets :
    x.gone \/ tgt[k][x.trove] # "absent" \/ \E b \in Batches : x \in b.items /\ k \in b.to

PInv == TInv /\ Shows /\ StaysGone /\ Pending

\* Nothing is missing of what has a stamp below m.
Safe(m) == \A k \in targets, t \in Match \ missed :
    Stamp(t) > 0 /\ Stamp(t) < m => Mirrored(k, t)

Under(t) == \A j \in targets : Stamp(t) < mark[j]

Passed == pc # "remove" => \A k \in targets, t \in Match \ missed :
    Stamp(t) > 0 /\ Under(t) => Mirrored(k, t)

\* Where the pass begins: no mark is below.
Begun == /\ pc \notin {"idle", "pass"} => Safe(cur)
         /\ pc = "reset" => \A k \in targets : cur <= mark[k]
         /\ pc \in {"info", "query", "sift", "chunk"} => \A k \in targets : mark[k] = cur
         /\ pc \in {"remove", "advance"} => cur <= clock /\ \A j, k \in targets : mark[j] = mark[k]

\* The list has what is stamped from where it begins up to m, as it is.
Covered(m) == \A t \in Match \ missed : Stamp(t) > 0 /\ cur <= Stamp(t) /\ Stamp(t) < m =>
    \E x \in listed : x.trove = t /\ x.gone = src[t].gone

\* The list is complete up to its last mark, which is not ahead.
Listed == pc \in {"sift", "chunk", "remove"} =>
    /\ \A x \in listed : x.mark > 0 /\ cur <= x.mark /\ x.mark <= clock /\ Covered(x.mark)
    /\ listed # {} => Covered(cur + 1)

Filtered == pc = "sift" /\ listed = {} => Covered(goal) /\ (goal = cur \/ goal <= clock)

\* The mark to set is not beyond the list.
Aims == pc = "chunk" => goal = 0 \/ \E x \in listed : goal <= x.mark

\* When the marks are set all troves are there, and all that is listed can be
\* seen; removals are still to be made.
Removing == pc = "remove" =>
    /\ \A j \in targets : Covered(mark[j])
    /\ \A k \in targets, t \in Trove : tgt[k][t] # "hidden"
    /\ \A x \in listed, k \in targets :
          IF x.gone THEN k \in rest \/ tgt[k][x.trove] # "present"
          ELSE tgt[k][x.trove] # "absent"

\* The mark to set is at most one second ahead.
Advances == pc = "advance" => /\ Safe(goal) /\ \A j \in targets : Safe(mark[j])
                              /\ goal <= clock \/ goal = cur + 1

Marked == Passed /\ Begun /\ Listed /\ Filtered /\ Aims /\ Removing /\ Advances

MInv == PInv /\ Marked

-----------------------------------------------------------------------------
(* The least and the greatest.                                             *)

LEMMA Least ==
    ASSUME NEW S \in SUBSET Nat, S # {}
    PROVE  \E x \in S : \A y \in S : x <= y
<1>1. PICK x \in S : \A y \in S : ~ (<<y, x>> \in OpToRel(<, Nat))
      BY NatLessThanWellFounded, WFMin
<1>2. \A y \in S : ~ (y < x)
      BY <1>1, Zenon DEF OpToRel
<1> QED  BY <1>2

LEMMA MinOf ==
    ASSUME NEW S \in SUBSET Int, S # {}, NEW lo \in Int, \A x \in S : lo <= x
    PROVE  Min(S) \in S /\ \A y \in S : Min(S) <= y
<1> DEFINE T == {x - lo : x \in S}
<1>1. T \in SUBSET Nat /\ T # {}
  <2>1. \A x \in S : x - lo \in Nat
        OBVIOUS
  <2> QED  BY <2>1
<1>2. PICK t \in T : \A u \in T : t <= u
  <2> HIDE DEF T
  <2> QED  BY <1>1, Least
<1>3. PICK m \in S : t = m - lo
      BY <1>2
<1>4. \A y \in S : m <= y
  <2> SUFFICES ASSUME NEW y \in S PROVE m <= y
      OBVIOUS
  <2>1. m - lo <= y - lo
        BY <1>2, <1>3
  <2> QED  BY <2>1
<1> QED  BY <1>4 DEF Min

LEMMA MaxOf ==
    ASSUME NEW S \in SUBSET Int, S # {}, NEW hi \in Int, \A x \in S : x <= hi
    PROVE  Max(S) \in S /\ \A y \in S : y <= Max(S)
<1> DEFINE T == {hi - x : x \in S}
<1>1. T \in SUBSET Nat /\ T # {}
  <2>1. \A x \in S : hi - x \in Nat
        OBVIOUS
  <2> QED  BY <2>1
<1>2. PICK t \in T : \A u \in T : t <= u
  <2> HIDE DEF T
  <2> QED  BY <1>1, Least
<1>3. PICK m \in S : t = hi - m
      BY <1>2
<1>4. \A y \in S : m >= y
  <2> SUFFICES ASSUME NEW y \in S PROVE m >= y
      OBVIOUS
  <2>1. hi - m <= hi - y
        BY <1>2, <1>3
  <2> QED  BY <2>1
<1> QED  BY <1>4 DEF Max

\* The marks of some of the troves that are listed.
LEMMA MarksOf ==
    ASSUME TInv, NEW S, S \subseteq listed, S # {}
    PROVE  /\ Marks(S) \subseteq 0..MaxClock
           /\ \E x \in S : Min(Marks(S)) = x.mark /\ \A y \in S : x.mark <= y.mark
           /\ \E x \in S : Max(Marks(S)) = x.mark /\ \A y \in S : y.mark <= x.mark
<1>1. /\ Marks(S) \subseteq 0..MaxClock /\ Marks(S) # {} /\ Marks(S) \in SUBSET Int
      /\ \A x \in S : x.mark \in Marks(S)
      BY DEF TInv, TRun, Item, Marks
<1>2. 0 \in Int /\ MaxClock \in Int /\ \A m \in Marks(S) : 0 <= m /\ m <= MaxClock
      BY <1>1, BoundsAssumption
<1>3. Min(Marks(S)) \in Marks(S) /\ \A m \in Marks(S) : Min(Marks(S)) <= m
      BY <1>1, <1>2, MinOf
<1>4. Max(Marks(S)) \in Marks(S) /\ \A m \in Marks(S) : m <= Max(Marks(S))
      BY <1>1, <1>2, MaxOf
<1>5. PICK x \in S : Min(Marks(S)) = x.mark
      BY <1>3 DEF Marks
<1>6. PICK z \in S : Max(Marks(S)) = z.mark
      BY <1>4 DEF Marks
<1> QED  BY <1>1, <1>3, <1>4, <1>5, <1>6

\* The mark to break out of a loop with.
LEMMA CrtMaxMarks ==
    ASSUME TInv, listed # {}
    PROVE  /\ CrtMaxMark \in 0..(MaxClock + 1)
           /\ \E x \in listed : \/ CrtMaxMark = x.mark
                                \/ CrtMaxMark = x.mark + 1 /\ CrtMaxMark = cur + 1
<1>1. PICK x \in listed : Max(Marks(listed)) = x.mark
      BY MarksOf
<1>2. x.mark \in 0..MaxClock
      BY DEF TInv, TRun, Item
<1> QED  BY <1>1, <1>2, BoundsAssumption DEF CrtMaxMark

LEMMA NewMarks ==
    ASSUME TInv, listed # {}
    PROVE  NewMark \in -1..(MaxClock + 1) /\ (NewMark = CrtMaxMark \/ (NewMark = goal /\ goal # 0))
BY CrtMaxMarks, BoundsAssumption DEF TInv, TRun, NewMark

-----------------------------------------------------------------------------
(* Bundles.                                                                *)

LEMMA Sequenced ==
    ASSUME NEW S, IsFiniteSet(S), NEW s \in SetToSeqs(S)
    PROVE  /\ s \in Seq(S) /\ DOMAIN s = 1..Len(s) /\ Len(s) \in Nat
           /\ \A x \in S : \E i \in DOMAIN s : s[i] = x
<1> DEFINE n == Cardinality(S)
<1>1. n \in Nat /\ IsFiniteSet(1..n) /\ Cardinality(1..n) = n
  <2>1. n \in Nat
        BY FS_CardinalityType
  <2>2. 1 \in Int /\ n \in Int
        BY <2>1
  <2>3. IsFiniteSet(1..n) /\ Cardinality(1..n) = IF 1 > n THEN 0 ELSE n - 1 + 1
        BY <2>2, FS_Interval
  <2> QED  BY <2>1, <2>3
<1>2. s \in [1..n -> S] /\ \A i, j \in 1..n : i # j => s[i] # s[j]
      BY DEF SetToSeqs
<1> HIDE DEF n
<1>3. s \in Seq(S) /\ Len(s) = n /\ DOMAIN s = 1..n
      BY <1>1, <1>2
<1>4. s \in Injection(1..n, S)
      BY <1>2 DEF Injection, IsInjective
<1>5. s \in Surjection(1..n, S)
      BY <1>1, <1>4, FS_Injection DEF n
<1> QED  BY <1>1, <1>3, <1>5 DEF Surjection

LEMMA GroupsOf ==
    ASSUME NEW items, IsFiniteSet(items)
    PROVE  /\ IsFiniteSet(Groups(items))
           /\ \A g \in Groups(items) : g # {} /\ g \subseteq items
           /\ \A x \in items : \E g \in Groups(items) : x \in g
<1> DEFINE with(x) == {y \in items : VF[y.trove] = VF[x.trove]}
           f == [x \in items |-> with(x)]
<1>1. \A g \in Groups(items) : \E x \in items : g = with(x)
      BY DEF Groups
<1>2. \A x \in items : with(x) \in Groups(items)
      BY DEF Groups
<1>3. \A x \in items : x \in with(x)
      OBVIOUS
<1>4. f \in Surjection(items, Groups(items))
  <2>1. f \in [items -> Groups(items)] /\ \A x \in items : f[x] = with(x)
        BY <1>2
  <2> HIDE DEF f, with
  <2> QED  BY <1>1, <2>1 DEF Surjection
<1>5. IsFiniteSet(Groups(items))
      BY <1>4, FS_Surjection
<1>6. \A x : with(x) \subseteq items
      OBVIOUS
<1> HIDE DEF f, with
<1> QED  BY <1>1, <1>2, <1>3, <1>5, <1>6

\* Every trove of a chunk is in one of its bundles, and none is empty.
LEMMA Bundled ==
    ASSUME NEW items, IsFiniteSet(items), items # {},
           NEW gs \in SetToSeqs(Groups(items)), NEW bs \in BuildJobList(gs)
    PROVE  /\ bs # {} /\ \A b \in bs : b.items # {} /\ b.items \subseteq items
           /\ \A x \in items : \E b \in bs : x \in b.items
<1>1. /\ gs \in Seq(Groups(items)) /\ DOMAIN gs = 1..Len(gs) /\ Len(gs) \in Nat
      /\ \A g \in Groups(items) : \E i \in DOMAIN gs : gs[i] = g
      BY GroupsOf, Sequenced
<1>2. PICK at \in [DOMAIN gs -> DOMAIN gs] :
         bs = {[first |-> i, items |-> UNION {gs[j] : j \in {x \in 1..Len(gs) : at[x] = i}}] :
                  i \in {at[j] : j \in DOMAIN gs}}
      BY DEF BuildJobList
<1> DEFINE of(i) == UNION {gs[j] : j \in {x \in 1..Len(gs) : at[x] = i}}
           firsts == {at[j] : j \in DOMAIN gs}
<1>0. /\ bs = {[first |-> i, items |-> of(i)] : i \in firsts}
      /\ \A j \in DOMAIN gs : at[j] \in firsts
      /\ \A i \in firsts : \E j \in DOMAIN gs : i = at[j]
      BY <1>2
<1>3. \A b \in bs : \E j \in DOMAIN gs : b.items = of(at[j])
  <2> HIDE DEF of, firsts
  <2> QED  BY <1>0
<1>4. ASSUME NEW j \in DOMAIN gs PROVE \E b \in bs : b.items = of(at[j])
  <2> HIDE DEF of, firsts
  <2>1. [first |-> at[j], items |-> of(at[j])] \in bs
        BY <1>0
  <2> QED  BY <2>1
<1>5. \A j \in DOMAIN gs : gs[j] \subseteq of(at[j])
      BY <1>1
<1>6. \A j \in DOMAIN gs : gs[j] # {} /\ gs[j] \subseteq items
      BY <1>1, GroupsOf
<1>7. \A i : of(i) \subseteq items
      BY <1>1, <1>6
<1>8. \A x \in items : \E j \in DOMAIN gs : x \in gs[j]
      BY <1>1, GroupsOf
<1> HIDE DEF of
<1> QED  BY <1>3, <1>4, <1>5, <1>6, <1>7, <1>8

\* The mark of a chunk is one of its troves'.
LEMMA BundlesMarks ==
    ASSUME TInv, NEW bs, bs # {}, \A b \in bs : b.items # {} /\ b.items \subseteq listed
    PROVE  \E x \in listed : BundlesMark(bs) = x.mark
<1> DEFINE S == {Min(Marks(b.items)) : b \in bs}
<1>1. \A b \in bs : \E x \in listed : Min(Marks(b.items)) = x.mark
      BY MarksOf
<1>2. \A x \in listed : x.mark \in 0..MaxClock
      BY DEF TInv, TRun, Item
<1>3. S \in SUBSET Int /\ S # {} /\ \A m \in S : m <= MaxClock
      BY <1>1, <1>2, BoundsAssumption
<1>4. Max(S) \in S
  <2> HIDE DEF S
  <2> QED  BY <1>3, BoundsAssumption, MaxOf
<1> QED  BY <1>1, <1>4 DEF BundlesMark

-----------------------------------------------------------------------------
(* What is listed.                                                         *)

LEMMA Largest ==
    ASSUME NEW S \in SUBSET (0..MaxClock), cur \in -1..(MaxClock + 1)
    PROVE  /\ Max({cur} \cup S) \in {cur} \cup S
           /\ \A m \in {cur} \cup S : m <= Max({cur} \cup S)
<1> DEFINE all == {cur} \cup S
<1>1. /\ all \in SUBSET Int /\ all # {} /\ MaxClock + 1 \in Int
      /\ \A m \in all : m <= MaxClock + 1
      BY BoundsAssumption
<1> HIDE DEF all
<1>2. Max(all) \in all /\ \A m \in all : m <= Max(all)
      BY <1>1, MaxOf
<1> QED  BY <1>2 DEF all

\* The mark of the list that the source returns, which is finite.
LEMMA ListType ==
    ASSUME TInv, NEW l, l \subseteq Committed
    PROVE  /\ {[trove |-> t, mark |-> Stamp(t), gone |-> src[t].gone] : t \in CutOff(l \cap Match)}
                 \subseteq Item
           /\ IsFiniteSet({[trove |-> t, mark |-> Stamp(t), gone |-> src[t].gone] :
                             t \in CutOff(l \cap Match)})
           /\ Max({cur} \cup {Stamp(t) : t \in l}) \in {cur} \cup {Stamp(t) : t \in l}
           /\ \A t \in l : Stamp(t) <= Max({cur} \cup {Stamp(u) : u \in l})
           /\ cur <= Max({cur} \cup {Stamp(u) : u \in l})
<1> DEFINE S == CutOff(l \cap Match)
           item(t) == [trove |-> t, mark |-> Stamp(t), gone |-> src[t].gone]
           all == {item(t) : t \in S}
           f == [t \in S |-> item(t)]
<1>1. S \subseteq l \cap Match
      BY DEF CutOff
<1>2. \A t \in Trove : Stamp(t) \in 0..MaxClock /\ src[t].gone \in BOOLEAN
      BY DEF TInv, TWorld, Stamp
<1>3. all \subseteq Item
  <2> SUFFICES ASSUME NEW t \in S PROVE item(t) \in Item
      OBVIOUS
  <2>1. t \in Match /\ t \in Trove
        BY <1>1, SetsAssumption
  <2> QED  BY <1>2, <2>1 DEF Item
<1> HIDE DEF S
<1>4. f \in Surjection(S, all)
  <2>1. f \in [S -> all] /\ \A t \in S : f[t] = item(t)
        OBVIOUS
  <2> HIDE DEF f, item
  <2> QED  BY <2>1 DEF Surjection
<1>5. IsFiniteSet(S)
      BY <1>1, SetsAssumption, FS_Subset
<1>6. IsFiniteSet(all)
      BY <1>4, <1>5, FS_Surjection
<1> DEFINE stamps == {Stamp(t) : t \in l}
<1>7. stamps \in SUBSET (0..MaxClock) /\ \A t \in l : Stamp(t) \in stamps
      BY <1>2 DEF Committed
<1>8. /\ Max({cur} \cup stamps) \in {cur} \cup stamps
      /\ \A m \in {cur} \cup stamps : m <= Max({cur} \cup stamps)
  <2> HIDE DEF stamps
  <2> QED  BY <1>7, Largest DEF TInv, TRun
<1> QED  BY <1>3, <1>6, <1>7, <1>8 DEF S

-----------------------------------------------------------------------------
(* The types.                                                              *)

LEMMA InitPInv == Init => PInv
<1> SUFFICES ASSUME Init PROVE PInv
    OBVIOUS
<1>1. TWorld
  <2>1. Absent \in [stamp : 0..MaxClock, gone : BOOLEAN, info : 0..MaxClock]
        BY BoundsAssumption DEF Absent
  <2>2. src \in [Trove -> [stamp : 0..MaxClock, gone : BOOLEAN, info : 0..MaxClock]]
        BY <2>1 DEF Init
  <2>3. \A t \in Trove : Stamp(t) = 0 /\ src[t].info = 0 /\ ~ src[t].gone
        BY DEF Init, Absent, Stamp
  <2>4. targets \subseteq Target /\ targets # {}
        BY SetsAssumption DEF Init
  <2> QED  BY <2>2, <2>3, <2>4, BoundsAssumption DEF Init, TWorld
<1>2. TRepos
      BY BoundsAssumption DEF Init, TRepos
<1>3. TRun
  <2>1. IsFiniteSet({})
        BY FS_EmptySet
  <2> QED  BY <2>1, BoundsAssumption DEF Init, TRun, PCs, Batches
<1>4. Shows
  <2>1. ASSUME ~ hidden, NEW j \in targets, NEW k \in targets, j # k PROVE FALSE
    <3>1. IsFiniteSet(targets) /\ ~ (Cardinality(targets) > 1)
          BY <2>1, SetsAssumption, FS_Subset DEF Init
    <3>2. IsFiniteSet({j}) /\ Cardinality({j}) = 1
          BY FS_Singleton
    <3>3. Cardinality({j} \cup {k}) = 2
          BY <2>1, <3>2, FS_AddElement
    <3>4. Cardinality({j} \cup {k}) <= Cardinality(targets)
          BY <3>1, FS_Subset
    <3>5. Cardinality(targets) \in Nat
          BY <3>1, FS_CardinalityType
    <3> QED  BY <3>1, <3>3, <3>4, <3>5
  <2>2. \A k \in targets, t \in Trove : tgt[k][t] # "hidden"
        BY <1>1 DEF Init, TWorld
  <2> QED  BY <2>1, <2>2 DEF Shows
<1>5. StaysGone /\ Pending
      BY DEF Init, StaysGone, Pending, Gone
<1> QED  BY <1>1, <1>2, <1>3, <1>4, <1>5 DEF PInv, TInv

\* A pass that is over.
LEMMA Returned ==
    ASSUME Stop \/ Return("pass"), faults' \in 0..MaxFaults, clock' \in 1..MaxClock
    PROVE  TRun' /\ StaysGone' /\ Pending'
<1>1. IsFiniteSet({})
      BY FS_EmptySet
<1>2. /\ pc' \in {"idle", "pass"} /\ cur' = -1 /\ asked' = 0 /\ listed' = {}
      /\ chunks' = {} /\ bundles' = {} /\ goal' = 0 /\ rest' = {}
      BY DEF Stop, Return
<1> QED  BY <1>1, <1>2, BoundsAssumption DEF TRun, PCs, Batches, StaysGone, Pending, Gone

\* What a change of the source does to the troves.
LEMMA ChangeTInv ==
    ASSUME TInv, Change
    PROVE  /\ TInv' /\ UNCHANGED <<clock, setup, tgt, mark, run, faults>>
           /\ \A t \in Trove : /\ src[t].gone => src'[t].gone
                               /\ \/ /\ src'[t].stamp = src[t].stamp /\ src'[t].gone = src[t].gone
                                     /\ t \in missed' <=> t \in missed
                                  \/ src'[t].stamp = clock /\ (Overtaken => t \in missed')
<1> DEFINE State == [stamp : 0..MaxClock, gone : BOOLEAN, info : 0..MaxClock]
           new == [stamp |-> clock, gone |-> FALSE, info |-> clock]
           removed == [stamp |-> clock, gone |-> TRUE, info |-> 0]
<1>0. UNCHANGED <<clock, setup, tgt, mark, run, faults>> /\ TWorld /\ TRepos /\ clock \in 1..MaxClock
      BY DEF Change, TInv, TWorld
<1>1. PICK t \in Trove : Commits(t) \/ Annotates(t) \/ Removes(t)
      BY DEF Change
<1> DEFINE noted == [src[t] EXCEPT !.info = clock]
<1>2. /\ src[t] \in State /\ src[t].stamp <= clock /\ src[t].info <= clock
      /\ src[t].gone => src[t].stamp > 0
      BY <1>0 DEF TWorld, Stamp
<1>3. /\ new \in State /\ new.stamp = clock /\ new.info = clock /\ ~ new.gone
      /\ removed \in State /\ removed.stamp = clock /\ removed.info = 0 /\ removed.gone
      BY <1>0, BoundsAssumption
<1>4. noted \in State /\ noted.stamp = src[t].stamp /\ noted.info = clock /\ noted.gone = src[t].gone
      BY <1>0, <1>2
<1>5. /\ info' \in [Target -> SUBSET Match]
  <2>1. CASE Annotates(t)
        BY <1>0, <2>1 DEF Annotates, TRepos
  <2>2. CASE UNCHANGED info
        BY <1>0, <2>2 DEF TRepos
  <2> QED  BY <1>1, <2>1, <2>2 DEF Commits, Removes
<1> HIDE DEF new, removed, noted, State
<1> DEFINE Fits(s) == /\ s \in State /\ src' = [src EXCEPT ![t] = s] /\ s.stamp > 0
                      /\ s.stamp <= clock /\ s.info <= clock /\ (src[t].gone => s.gone)
                      /\ \/ s.stamp = src[t].stamp /\ s.gone = src[t].gone /\ missed' = missed
                         \/ /\ s.stamp = clock
                            /\ missed' = IF Overtaken THEN missed \cup {t} ELSE missed \ {t}
<1>12. clock > 0 /\ clock \in Int
      BY <1>0, BoundsAssumption
<1>6. \E s : Fits(s)
  <2>1. CASE Commits(t)
    <3>1. src' = [src EXCEPT ![t] = new] /\ Stamp(t) = 0
          /\ missed' = IF Overtaken THEN missed \cup {t} ELSE missed \ {t}
          BY <2>1 DEF Commits, Restamp, new
    <3>2. ~ src[t].gone
          BY <1>2, <3>1 DEF Stamp
    <3>3. Fits(new)
          BY <1>3, <1>12, <3>1, <3>2
    <3> QED  BY <3>3
  <2>2. CASE Annotates(t)
    <3>1. src' = [src EXCEPT ![t] = noted] /\ src[t].stamp > 0 /\ missed' = missed
          BY <2>2 DEF Annotates, Alive, noted, Stamp
    <3>2. Fits(noted)
          BY <1>2, <1>4, <1>12, <3>1
    <3> QED  BY <3>2
  <2>3. CASE Removes(t)
    <3>1. src' = [src EXCEPT ![t] = removed]
          /\ missed' = IF Overtaken THEN missed \cup {t} ELSE missed \ {t}
          BY <2>3 DEF Removes, Restamp, removed
    <3>2. Fits(removed)
          BY <1>3, <1>12, <3>1
    <3> QED  BY <3>2
  <2> QED  BY <1>1, <2>1, <2>2, <2>3
<1>7. PICK s \in State : /\ src' = [src EXCEPT ![t] = s] /\ s.stamp > 0
                        /\ s.stamp <= clock /\ s.info <= clock /\ (src[t].gone => s.gone)
                        /\ \/ s.stamp = src[t].stamp /\ s.gone = src[t].gone /\ missed' = missed
                           \/ /\ s.stamp = clock
                              /\ missed' = IF Overtaken THEN missed \cup {t} ELSE missed \ {t}
      BY <1>6
<1> HIDE DEF Fits
<1>8. /\ src' \in [Trove -> State] /\ src'[t] = s
      /\ \A u \in Trove : u # t => src'[u] = src[u]
      BY <1>0, <1>7 DEF TWorld, State
<1>9. TWorld'
  <2>1. \A u \in Trove : Stamp(u)' <= clock /\ src'[u].info <= clock /\ (src'[u].gone => Stamp(u)' > 0)
        BY <1>0, <1>7, <1>8 DEF TWorld, Stamp
  <2>2. missed' \subseteq Trove
        BY <1>0, <1>7 DEF TWorld
  <2> QED  BY <1>0, <1>8, <2>1, <2>2 DEF TWorld, State, setup
<1>10. TRepos' /\ TRun'
      BY <1>0, <1>5 DEF TInv, TRepos, TRun, run, setup, Batches
<1>11. ASSUME NEW u \in Trove
       PROVE  /\ src[u].gone => src'[u].gone
              /\ \/ /\ src'[u].stamp = src[u].stamp /\ src'[u].gone = src[u].gone
                    /\ u \in missed' <=> u \in missed
                 \/ src'[u].stamp = clock /\ (Overtaken => u \in missed')
  <2>1. CASE u # t
        BY <1>7, <1>8, <2>1
  <2>2. CASE u = t
        BY <1>7, <1>8, <2>2
  <2> QED  BY <2>1, <2>2
<1> QED  BY <1>0, <1>9, <1>10, <1>11 DEF TInv

\* A step that leaves the world alone.
LEMMA SameWorld == TWorld /\ UNCHANGED <<world, setup>> => TWorld'
BY DEF TWorld, world, setup, Stamp

\* The lists of what is to be committed.
LEMMA SplitPInv ==
    ASSUME PInv, SplitByTarget
    PROVE  PInv'
<1>1. /\ pc = "sift" /\ pc' = "chunk" /\ goal' = 0 /\ (Needed # {} \/ Gone # {})
      /\ chunks' = {[to |-> ks, items |-> {x \in Needed : Lacking(x.trove) = ks}] :
                      ks \in {Lacking(x.trove) : x \in Needed}}
      /\ UNCHANGED <<world, setup, repos, sync, cur, asked, listed, bundles, updated, rest, faults>>
      BY DEF SplitByTarget
<1>2. /\ TWorld /\ TRepos /\ TRun /\ Shows /\ StaysGone /\ bundles = {}
      BY <1>1 DEF PInv, TInv, TRun, Batches
<1>3. listed' # {}
      BY <1>1 DEF Needed, Gone
<1> DEFINE of(ks) == {x \in Needed : Lacking(x.trove) = ks}
           all == {Lacking(x.trove) : x \in Needed}
<1>4. chunks' = {[to |-> ks, items |-> of(ks)] : ks \in all}
      BY <1>1
<1>5. \A ks \in all : /\ ks \subseteq targets /\ of(ks) # {} /\ of(ks) \subseteq listed
                       /\ \A x \in of(ks) : ~ x.gone
      BY DEF Lacking, Needed
<1>6. \A b \in Batches' : /\ b.to \subseteq targets /\ b.items # {} /\ b.items \subseteq listed
                          /\ \A x \in b.items : ~ x.gone
  <2> HIDE DEF of, all
  <2> QED  BY <1>1, <1>2, <1>4, <1>5 DEF Batches
<1>7. Pending'
  <2> SUFFICES ASSUME NEW x \in listed, NEW k \in targets, ~ x.gone, tgt[k][x.trove] = "absent"
               PROVE  \E b \in Batches' : x \in b.items /\ k \in b.to
      BY <1>1 DEF Pending, setup, repos
  <2> DEFINE ks == Lacking(x.trove)
  <2>1. k \in ks /\ x \in Needed
        BY DEF Lacking, Needed
  <2>2. ks \in all /\ x \in of(ks)
        BY <2>1
  <2> HIDE DEF of, all, ks
  <2>3. [to |-> ks, items |-> of(ks)] \in chunks'
        BY <1>4, <2>2
  <2> QED  BY <2>1, <2>2, <2>3 DEF Batches
<1>8. TRun'
      BY <1>1, <1>2, <1>3, <1>6, BoundsAssumption DEF TRun, PCs, setup, world
<1>9. TRepos' /\ Shows' /\ StaysGone'
      BY <1>1, <1>2 DEF TRepos, Shows, StaysGone, Gone, setup, repos, world
<1> QED  BY <1>1, <1>2, <1>7, <1>8, <1>9, SameWorld DEF PInv, TInv

LEMMA NextChunkPInv ==
    ASSUME PInv, NextChunk
    PROVE  /\ PInv'
           /\ goal' = goal \/ \E x \in listed : goal' = x.mark
<1>1. PICK c \in chunks : \E gs \in SetToSeqs(Groups(c.items)) : \E bs \in BuildJobList(gs) :
         /\ bundles' = {[first |-> b.first, to |-> c.to, items |-> b.items] : b \in bs}
         /\ goal' = Max({goal, BundlesMark(bs)})
         /\ chunks' = chunks \ {c}
      BY DEF NextChunk
<1>0. PICK gs \in SetToSeqs(Groups(c.items)) : \E bs \in BuildJobList(gs) :
         /\ bundles' = {[first |-> b.first, to |-> c.to, items |-> b.items] : b \in bs}
         /\ goal' = Max({goal, BundlesMark(bs)})
      BY <1>1
<1>2. PICK bs \in BuildJobList(gs) :
         /\ bundles' = {[first |-> b.first, to |-> c.to, items |-> b.items] : b \in bs}
         /\ goal' = Max({goal, BundlesMark(bs)})
      BY <1>0
<1>3. /\ pc = "chunk" /\ pc' = "chunk" /\ bundles = {} /\ chunks' = chunks \ {c}
      /\ UNCHANGED <<world, setup, repos, sync, cur, asked, listed, rest, faults>>
      BY <1>1 DEF NextChunk
<1>4. TInv /\ TWorld /\ TRepos /\ TRun /\ Shows /\ StaysGone /\ Pending
      BY DEF PInv, TInv
<1>5. /\ c.to \subseteq targets /\ c.items # {} /\ c.items \subseteq listed /\ IsFiniteSet(c.items)
      /\ \A x \in c.items : ~ x.gone
      BY <1>4, FS_Subset DEF TRun, Batches
<1>6. /\ bs # {} /\ \A b \in bs : b.items # {} /\ b.items \subseteq c.items
      /\ \A x \in c.items : \E b \in bs : x \in b.items
      BY <1>5, Bundled
<1>7. PICK y \in listed : BundlesMark(bs) = y.mark
      BY <1>4, <1>5, <1>6, BundlesMarks
<1>8. y.mark \in 0..MaxClock /\ goal \in -1..(MaxClock + 1)
      BY <1>4 DEF TRun, Item
<1>9. goal' \in {goal, y.mark}
  <2> DEFINE S == {goal, y.mark}
  <2>1. S \in SUBSET Int /\ S # {} /\ MaxClock + 1 \in Int /\ \A m \in S : m <= MaxClock + 1
        BY <1>8, BoundsAssumption
  <2> HIDE DEF S
  <2>2. Max(S) \in S
        BY <2>1, MaxOf
  <2> QED  BY <1>2, <1>7, <2>2 DEF S
<1>10. \A b \in bundles' : b.to = c.to /\ b.items # {} /\ b.items \subseteq c.items
      BY <1>2, <1>6
<1>11. \A b \in Batches' : /\ b.to \subseteq targets /\ b.items # {} /\ b.items \subseteq listed
                           /\ \A x \in b.items : ~ x.gone
      BY <1>3, <1>4, <1>5, <1>10 DEF Batches, TRun
<1>12. Pending'
  <2> SUFFICES ASSUME NEW x \in listed, NEW k \in targets, ~ x.gone, tgt[k][x.trove] = "absent"
               PROVE  \E b \in Batches' : x \in b.items /\ k \in b.to
      BY <1>3 DEF Pending, setup, repos
  <2>1. PICK d \in chunks : x \in d.items /\ k \in d.to
        BY <1>3, <1>4 DEF Pending, Batches
  <2>2. CASE d # c
        BY <1>3, <2>1, <2>2 DEF Batches
  <2>3. CASE d = c
    <3>1. PICK b \in bs : x \in b.items
          BY <1>6, <2>1, <2>3
    <3>2. [first |-> b.first, to |-> c.to, items |-> b.items] \in bundles'
          BY <1>2
    <3> QED  BY <2>1, <2>3, <3>1, <3>2 DEF Batches
  <2> QED  BY <2>2, <2>3
<1>13. TRun'
      BY <1>3, <1>4, <1>8, <1>9, <1>11, BoundsAssumption DEF TRun, PCs, setup, world
<1>14. TRepos' /\ Shows' /\ StaysGone'
      BY <1>3, <1>4 DEF TRepos, Shows, StaysGone, Gone, setup, repos, world
<1> QED  BY <1>3, <1>4, <1>9, <1>12, <1>13, <1>14, SameWorld DEF PInv, TInv

LEMMA ListPInv ==
    ASSUME PInv, GetTroveList
    PROVE  PInv'
<1> DEFINE itemsOf(l) == {[trove |-> t, mark |-> Stamp(t), gone |-> src[t].gone] :
                            t \in CutOff(l \cap Match)}
           topOf(l) == Max({cur} \cup {Stamp(t) : t \in l})
<1>0. PICK l \in Listings(cur) : listed' = itemsOf(l) /\ goal' = topOf(l)
      BY DEF GetTroveList
<1> DEFINE all == itemsOf(l)
           top == topOf(l)
<1>1. /\ listed' = all /\ goal' = top /\ pc = "query" /\ pc' = "sift"
      /\ UNCHANGED <<world, setup, repos, sync, cur, asked, chunks, bundles, updated, rest, faults>>
      BY <1>0 DEF GetTroveList
<1>2. TInv /\ TWorld /\ TRepos /\ TRun /\ Shows
      BY DEF PInv, TInv
<1>3. l \subseteq Committed
      BY DEF Listings
<1>4. \A x \in all : src[x.trove].gone = x.gone
      OBVIOUS
<1>5. all \subseteq Item /\ IsFiniteSet(all) /\ top \in {cur} \cup {Stamp(t) : t \in l}
      BY <1>2, <1>3, ListType
<1>6. top \in -1..(MaxClock + 1)
  <2>1. \A t \in l : Stamp(t) \in 0..MaxClock
        BY <1>2, <1>3 DEF Committed, TWorld, Stamp
  <2>2. cur \in -1..(MaxClock + 1)
        BY <1>2 DEF TRun
  <2> HIDE DEF top
  <2> QED  BY <1>5, <2>1, <2>2, BoundsAssumption
<1>7. Batches' = {} /\ TRun'
  <2> HIDE DEF all, top
  <2> QED  BY <1>1, <1>2, <1>5, <1>6 DEF TRun, PCs, setup, world, Batches
<1>8. TRepos' /\ Shows'
      BY <1>1, <1>2 DEF TRepos, Shows, setup, repos
<1>9. StaysGone' /\ Pending'
  <2> HIDE DEF all
  <2> QED  BY <1>1, <1>4 DEF StaysGone, Gone, Pending, world
<1> QED  BY <1>1, <1>2, <1>7, <1>8, <1>9, SameWorld DEF PInv, TInv

\* A bundle is committed to some of the targets that lack it.
LEMMA CommittedPInv ==
    ASSUME PInv, pc = "chunk", UNCHANGED <<world, setup, mark>>,
           NEW b \in bundles, NEW ok \in SUBSET b.to,
           \A t \in Names(b.items) : ~ src[t].gone,
           Commit(ok, Names(b.items)),
           Parallel(b.to, ok,
             /\ bundles' = bundles \ {b}
             /\ UNCHANGED <<pc, sync, cur, asked, listed, chunks, goal, updated, rest>>)
    PROVE  /\ PInv'
           /\ pc' = "chunk" => UNCHANGED <<cur, listed, goal>>
           /\ \A k \in Target, t \in Trove :
                 \/ tgt'[k][t] = tgt[k][t]
                 \/ /\ k \in targets /\ tgt'[k][t] = IF hidden THEN "hidden" ELSE "present"
                    /\ ~ src[t].gone
<1>2. pc = "chunk" /\ UNCHANGED <<world, setup, mark>>
      OBVIOUS
<1>3. TInv /\ TWorld /\ TRepos /\ TRun /\ Shows /\ StaysGone /\ Pending
      BY DEF PInv, TInv
<1> DEFINE ts == Names(b.items)
           now == IF hidden THEN "hidden" ELSE "present"
<1>4. b \in Batches /\ b.to \subseteq targets /\ b.items \subseteq listed
      BY <1>3 DEF TRun, Batches
<1>5. /\ tgt' = [k \in Target |-> [t \in Trove |-> IF k \in ok /\ t \in ts THEN now ELSE tgt[k][t]]]
      /\ info' = [k \in Target |-> IF k \in ok THEN info[k] \cup ts ELSE info[k]]
      BY DEF Commit
<1>16. ts \subseteq Match
      BY <1>3, <1>4 DEF TRun, Item, Names
<1> HIDE DEF ts
<1>6. \A k \in Target, t \in Trove :
         tgt'[k][t] = IF k \in ok /\ t \in ts THEN now ELSE tgt[k][t]
      BY <1>5
<1>7. TRepos'
  <2>2. now \in {"absent", "hidden", "present", "removed"}
        OBVIOUS
  <2> HIDE DEF now
  <2>3. tgt' \in [Target -> [Trove -> {"absent", "hidden", "present", "removed"}]]
        BY <1>3, <1>5, <2>2 DEF TRepos
  <2>4. info' \in [Target -> SUBSET Match]
        BY <1>3, <1>5, <1>16 DEF TRepos
  <2> QED  BY <1>2, <1>3, <2>3, <2>4 DEF TRepos
<1>8. targets \subseteq Target /\ targets' = targets /\ hidden' = hidden /\ src' = src
      BY <1>2, <1>3 DEF TWorld, setup, world
<1>9. Shows'
      BY <1>3, <1>6, <1>8 DEF Shows
<1>15. TWorld'
      BY <1>2, <1>3, SameWorld
<1>10. ASSUME /\ ok = b.to /\ bundles' = bundles \ {b} /\ faults' = faults
              /\ UNCHANGED <<pc, sync, cur, asked, listed, chunks, goal, updated, rest>>
       PROVE  PInv'
  <2>1. Batches' \subseteq Batches /\ Batches \ {b} \subseteq Batches'
        BY <1>10 DEF Batches
  <2>2. TRun'
        BY <1>3, <1>8, <1>10, <1>2, <2>1 DEF TRun, world
  <2>3. StaysGone'
        BY <1>3, <1>8, <1>10 DEF StaysGone, Gone
  <2>4. Pending'
    <3> SUFFICES ASSUME NEW x \in listed, NEW k \in targets, ~ x.gone, tgt'[k][x.trove] = "absent"
                 PROVE  \E o \in Batches' : x \in o.items /\ k \in o.to
        BY <1>8, <1>10 DEF Pending
    <3>1. x.trove \in Trove
          BY <1>3, SetsAssumption DEF TRun, Item
    <3>2. tgt[k][x.trove] = "absent" /\ ~ (k \in ok /\ x.trove \in ts)
          BY <1>6, <1>8, <3>1
    <3>3. PICK o \in Batches : x \in o.items /\ k \in o.to
          BY <1>2, <1>3, <3>2 DEF Pending
    <3>4. o # b
          BY <1>10, <3>2, <3>3 DEF Names, ts
    <3> QED  BY <2>1, <3>3, <3>4
  <2> QED  BY <1>7, <1>9, <1>15, <2>2, <2>3, <2>4 DEF PInv, TInv
<1>11. ASSUME Stop, faults < MaxFaults, faults' = faults + 1
       PROVE  PInv'
  <2>1. faults' \in 0..MaxFaults
        BY <1>3, <1>11, BoundsAssumption DEF TRun
  <2>2. clock' \in 1..MaxClock
        BY <1>2, <1>3 DEF TWorld, world
  <2> QED  BY <1>7, <1>9, <1>11, <1>15, <2>1, <2>2, Returned DEF PInv, TInv
<1>12. pc' = "chunk" => UNCHANGED <<cur, listed, goal>>
      BY DEF Parallel, Stop, Return
<1>13. PInv'
      BY <1>10, <1>11 DEF Parallel
<1>14. ASSUME NEW k \in Target, NEW t \in Trove, tgt'[k][t] # tgt[k][t]
       PROVE  /\ k \in targets /\ tgt'[k][t] = IF hidden THEN "hidden" ELSE "present"
              /\ ~ src[t].gone
      BY <1>4, <1>6, <1>14 DEF ts
<1> QED  BY <1>12, <1>13, <1>14

LEMMA CommitPInv ==
    ASSUME PInv, CommitBundle
    PROVE  /\ PInv'
           /\ pc' = "chunk" => UNCHANGED <<world, setup, mark, cur, listed, goal>>
           /\ \A k \in Target, t \in Trove :
                 \/ tgt'[k][t] = tgt[k][t]
                 \/ /\ k \in targets /\ tgt'[k][t] = IF hidden THEN "hidden" ELSE "present"
                    /\ ~ src[t].gone
<1>1. pc = "chunk" /\ UNCHANGED <<world, setup, mark>>
      BY DEF CommitBundle
<1>2. CASE Stop /\ UNCHANGED <<tgt, info, faults>>
  <2>1. pc' = "idle" /\ clock' = clock
        BY <1>1, <1>2 DEF Stop, Return, world
  <2>2. TWorld' /\ TRepos' /\ Shows'
        BY <1>1, <1>2, SameWorld DEF PInv, TInv, TRepos, Shows, setup
  <2>3. TRun' /\ StaysGone' /\ Pending'
    <3>1. faults' \in 0..MaxFaults /\ clock' \in 1..MaxClock
          BY <1>2, <2>1, <2>2 DEF PInv, TInv, TRun, TWorld
    <3> QED  BY <1>2, <3>1, Returned
  <2> QED  BY <1>2, <2>1, <2>2, <2>3 DEF PInv, TInv
<1>3. CASE ~ (Stop /\ UNCHANGED <<tgt, info, faults>>)
  <2>1. PICK b \in bundles :
           /\ \A t \in Names(b.items) : ~ src[t].gone
           /\ \E ok \in SUBSET b.to :
                /\ Commit(ok, Names(b.items))
                /\ Parallel(b.to, ok,
                     /\ bundles' = bundles \ {b}
                     /\ UNCHANGED <<pc, sync, cur, asked, listed, chunks, goal, updated, rest>>)
        BY <1>3 DEF CommitBundle
  <2> QED  BY <1>1, <2>1, CommittedPInv
<1> QED  BY <1>2, <1>3

LEMMA FinishPInv ==
    ASSUME PInv, Finish
    PROVE  /\ PInv' /\ UNCHANGED <<world, setup, info>>
           /\ \A x \in listed, k \in targets : x.gone \/ tgt[k][x.trove] # "absent"
           /\ \A k \in Target, t \in Trove : \/ tgt'[k][t] = tgt[k][t]
                                             \/ tgt[k][t] = "hidden" /\ tgt'[k][t] = "present"
           /\ \/ /\ pc' = "remove" /\ rest' = targets /\ UNCHANGED <<cur, listed, goal>>
                 /\ \A k \in targets : mark'[k] = NewMark
                 /\ \A k \in targets, t \in Trove : tgt'[k][t] # "hidden"
              \/ Stop /\ \E k \in targets : mark'[k] = mark[k]
           /\ \A k \in targets : mark'[k] \in {mark[k], NewMark}
<1>0. PICK shown \in SUBSET targets : \E ok \in SUBSET shown :
         /\ tgt' = [k \in Target |-> [t \in Trove |->
                       IF k \in shown /\ hidden /\ tgt[k][t] = "hidden" THEN "present"
                       ELSE tgt[k][t]]]
         /\ mark' = [k \in Target |-> IF k \in ok THEN NewMark ELSE mark[k]]
         /\ Parallel(targets, ok,
              /\ pc' = "remove"
              /\ rest' = targets
              /\ UNCHANGED <<sync, cur, asked, listed, chunks, bundles, goal, updated>>)
      BY DEF Finish
<1>1. PICK ok \in SUBSET shown :
         /\ tgt' = [k \in Target |-> [t \in Trove |->
                       IF k \in shown /\ hidden /\ tgt[k][t] = "hidden" THEN "present"
                       ELSE tgt[k][t]]]
         /\ mark' = [k \in Target |-> IF k \in ok THEN NewMark ELSE mark[k]]
         /\ Parallel(targets, ok,
              /\ pc' = "remove"
              /\ rest' = targets
              /\ UNCHANGED <<sync, cur, asked, listed, chunks, bundles, goal, updated>>)
      BY <1>0
<1>2. pc = "chunk" /\ Batches = {} /\ UNCHANGED <<world, setup, info>>
      BY DEF Finish, Batches
<1>3. TInv /\ TWorld /\ TRepos /\ TRun /\ Shows /\ StaysGone /\ Pending
      BY DEF PInv, TInv
<1>4. /\ targets \subseteq Target /\ targets' = targets /\ hidden' = hidden /\ src' = src
      BY <1>2, <1>3 DEF TWorld, setup, world
<1>5. listed # {} /\ NewMark \in -1..(MaxClock + 1)
      BY <1>2, <1>3, NewMarks DEF TRun
<1>6. \A k \in Target, t \in Trove :
         tgt'[k][t] = IF k \in shown /\ hidden /\ tgt[k][t] = "hidden" THEN "present" ELSE tgt[k][t]
      BY <1>1
<1>7. \A k \in Target : mark'[k] = IF k \in ok THEN NewMark ELSE mark[k]
      BY <1>1
<1>8. TRepos'
  <2> HIDE DEF NewMark
  <2>1. tgt' \in [Target -> [Trove -> {"absent", "hidden", "present", "removed"}]]
        BY <1>1, <1>3 DEF TRepos
  <2>2. mark' \in [Target -> -1..(MaxClock + 1)]
        BY <1>1, <1>3, <1>5 DEF TRepos
  <2> QED  BY <1>2, <1>3, <2>1, <2>2 DEF TRepos
<1>9. Shows'
      BY <1>3, <1>4, <1>6 DEF Shows
<1>15. TWorld'
      BY <1>2, <1>3, SameWorld
<1>10. ASSUME /\ ok = targets /\ pc' = "remove" /\ rest' = targets /\ faults' = faults
              /\ UNCHANGED <<sync, cur, asked, listed, chunks, bundles, goal, updated>>
       PROVE  /\ PInv' /\ \A k \in targets : mark'[k] = NewMark
              /\ \A k \in targets, t \in Trove : tgt'[k][t] # "hidden"
  <2>1. Batches' = {}
        BY <1>2, <1>10 DEF Batches
  <2>2. TRun'
        BY <1>2, <1>3, <1>4, <1>5, <1>10, <2>1 DEF TRun, PCs, world
  <2>3. StaysGone' /\ Pending'
        BY <1>3, <1>4, <1>10 DEF StaysGone, Gone, Pending
  <2>4. PInv'
        BY <1>8, <1>9, <1>15, <2>2, <2>3 DEF PInv, TInv
  <2>5. \A k \in targets, t \in Trove : tgt'[k][t] # "hidden"
        BY <1>3, <1>4, <1>6, <1>10 DEF Shows
  <2>6. \A k \in targets : mark'[k] = NewMark
    <3> HIDE DEF NewMark
    <3> QED  BY <1>4, <1>7, <1>10
  <2> QED  BY <1>10, <2>4, <2>5, <2>6
<1>11. ASSUME Stop, ok # targets, faults < MaxFaults, faults' = faults + 1
       PROVE  PInv' /\ \E k \in targets : mark'[k] = mark[k]
  <2>1. faults' \in 0..MaxFaults
        BY <1>3, <1>11, BoundsAssumption DEF TRun
  <2>2. \E k \in targets : mark'[k] = mark[k]
        BY <1>4, <1>7, <1>11
  <2>3. clock' \in 1..MaxClock
        BY <1>15 DEF TWorld
  <2>4. PInv'
        BY <1>8, <1>9, <1>11, <1>15, <2>1, <2>3, Returned DEF PInv, TInv
  <2> QED  BY <1>11, <2>2, <2>4
<1>12. \A x \in listed, k \in targets : x.gone \/ tgt[k][x.trove] # "absent"
      BY <1>2, <1>3 DEF Pending
<1>13. \A k \in Target, t \in Trove : \/ tgt'[k][t] = tgt[k][t]
                                      \/ tgt[k][t] = "hidden" /\ tgt'[k][t] = "present"
      BY <1>6
<1>14. \A k \in targets : mark'[k] \in {mark[k], NewMark}
      BY <1>4, <1>7
<1> QED  BY <1>1, <1>2, <1>10, <1>11, <1>12, <1>13, <1>14 DEF Parallel

\* The steps that list and commit nothing.
LEMMA PlainPInv ==
    ASSUME PInv,
           \/ Tick \/ Change \/ Launch \/ Pass \/ ResetMark \/ MirrorTroveInfo \/ NothingListed
           \/ NothingNeeded \/ MirrorRemoved \/ Done \/ Advance \/ Fail \/ UNCHANGED vars
    PROVE  PInv'
<1>1. TInv /\ TWorld /\ TRepos /\ TRun /\ Shows /\ StaysGone /\ Pending
      BY DEF PInv, TInv
<1>2. ASSUME UNCHANGED vars PROVE PInv'
  <2>1. UNCHANGED <<world, setup, tgt, info, mark, pc, cur, asked, goal, listed, chunks, bundles, rest, faults>>
        BY <1>2 DEF vars, repos, run
  <2>2. TWorld' /\ TRepos' /\ TRun' /\ Shows' /\ StaysGone' /\ Pending'
        BY <1>1, <2>1, SameWorld DEF TRepos, TRun, Shows, StaysGone, Gone, Pending, Batches, setup, world
  <2> QED  BY <2>2 DEF PInv, TInv
<1>3. ASSUME Tick PROVE PInv'
  <2>1. /\ clock < MaxClock /\ clock' = clock + 1 /\ src' = src /\ missed' = missed /\ UNCHANGED setup
        /\ UNCHANGED <<tgt, info, mark, pc, cur, asked, goal, listed, chunks, bundles, rest, faults>>
        BY <1>3 DEF Tick, repos, run
  <2>2. TWorld'
    <3>1. clock' \in 1..MaxClock
          BY <1>1, <2>1, BoundsAssumption DEF TWorld
    <3>2. ASSUME NEW t \in Trove
          PROVE  /\ src[t].stamp <= clock' /\ src[t].info <= clock' /\ (src[t].gone => src[t].stamp > 0)
      <4>1. /\ src[t].stamp \in 0..MaxClock /\ src[t].info \in 0..MaxClock /\ clock \in 1..MaxClock
            /\ src[t].stamp <= clock /\ src[t].info <= clock /\ (src[t].gone => src[t].stamp > 0)
            BY <1>1 DEF TWorld, Stamp
      <4> QED  BY <2>1, <4>1, BoundsAssumption
    <3> QED  BY <1>1, <2>1, <3>1, <3>2 DEF TWorld, Stamp, setup
  <2>3. asked' \in 0..clock'
    <3>1. asked \in 0..clock /\ clock \in 1..MaxClock
          BY <1>1 DEF TRun, TWorld
    <3> QED  BY <2>1, <3>1, BoundsAssumption
  <2>4. TRepos' /\ TRun' /\ Shows' /\ StaysGone' /\ Pending'
        BY <1>1, <2>1, <2>3 DEF TRepos, TRun, Shows, StaysGone, Gone, Pending, Batches, setup
  <2> QED  BY <2>2, <2>4 DEF PInv, TInv
<1>4. ASSUME Change PROVE PInv'
  <2>1. UNCHANGED setup /\ UNCHANGED <<tgt, mark, pc, cur, goal, listed, chunks, bundles, rest, faults>>
        BY <1>4 DEF Change, run
  <2>2. TInv' /\ \A t \in Trove : src[t].gone => src'[t].gone
        BY <1>1, <1>4, ChangeTInv
  <2>3. \A x \in listed : x.trove \in Trove
        BY <1>1, SetsAssumption DEF TRun, Item
  <2>4. Shows' /\ StaysGone' /\ Pending'
        BY <1>1, <2>1, <2>2, <2>3 DEF Shows, StaysGone, Gone, Pending, Batches, setup
  <2> QED  BY <2>2, <2>4 DEF PInv
<1>5. ASSUME Launch \/ (Done /\ ~ Return("pass")) \/ NothingNeeded \/ (NothingListed /\ ~ Stop)
      PROVE  PInv'
  <2>1. /\ UNCHANGED <<world, setup, tgt, info, mark, cur, asked, listed, chunks, bundles, rest, faults>>
        /\ pc \notin {"chunk"} /\ pc' \in {"pass", "advance"}
        BY <1>5 DEF Launch, Done, NothingNeeded, NothingListed, Again, repos
  <2>2. goal' \in -1..(MaxClock + 1)
    <3>1. CASE Launch
          BY <1>1, <3>1 DEF Launch, TRun
    <3>2. CASE NothingListed /\ ~ Stop
          BY <1>1, <3>2 DEF NothingListed, Again, TRun
    <3>3. CASE (Done /\ ~ Return("pass")) \/ NothingNeeded
      <4>1. listed # {} /\ goal' = CrtMaxMark
            BY <1>1, <3>3 DEF Done, NothingNeeded, Again, TRun
      <4> QED  BY <1>1, <4>1, CrtMaxMarks, BoundsAssumption
    <3> QED  BY <1>5, <3>1, <3>2, <3>3
  <2>3. TRun'
        BY <1>1, <2>1, <2>2 DEF TRun, PCs, Batches, setup, world
  <2>4. TWorld' /\ TRepos' /\ Shows' /\ StaysGone' /\ Pending'
        BY <1>1, <2>1, SameWorld DEF TRepos, Shows, StaysGone, Gone, Pending, setup, world
  <2> QED  BY <2>3, <2>4 DEF PInv, TInv
<1>6. ASSUME Pass PROVE PInv'
  <2>1. /\ UNCHANGED <<world, setup, tgt, info, mark, asked, listed, goal, chunks, bundles, rest, faults>>
        /\ pc = "pass" /\ pc' = "reset"
        /\ cur' = IF sync THEN -1 ELSE Min({mark[k] : k \in targets})
        BY <1>6 DEF Pass, repos
  <2>2. cur' \in -1..(MaxClock + 1)
    <3> DEFINE S == {mark[k] : k \in targets}
    <3>1. S \subseteq -1..(MaxClock + 1) /\ S # {}
          BY <1>1 DEF TWorld, TRepos
    <3>2. S \in SUBSET Int /\ -1 \in Int /\ \A m \in S : -1 <= m
          BY <3>1, BoundsAssumption
    <3> HIDE DEF S
    <3>3. Min(S) \in S
          BY <3>1, <3>2, MinOf
    <3> QED  BY <2>1, <3>1, <3>3, BoundsAssumption DEF S
  <2>3. TRun'
        BY <1>1, <2>1, <2>2 DEF TRun, PCs, Batches, setup, world
  <2>4. TWorld' /\ TRepos' /\ Shows' /\ StaysGone' /\ Pending'
        BY <1>1, <2>1, SameWorld DEF TRepos, Shows, StaysGone, Gone, Pending, setup, world
  <2> QED  BY <2>3, <2>4 DEF PInv, TInv
<1>7. ASSUME ResetMark PROVE PInv'
  <2>1. /\ UNCHANGED <<world, setup, tgt, info, cur, asked, listed, goal, chunks, bundles, rest, faults>>
        /\ pc = "reset" /\ pc' \in {"reset", "info"}
        /\ mark' = mark \/ \E k \in targets : mark' = [mark EXCEPT ![k] = cur]
        BY <1>7 DEF ResetMark
  <2>2. mark' \in [Target -> -1..(MaxClock + 1)]
        BY <1>1, <2>1 DEF TRepos, TRun
  <2>3. TWorld' /\ TRepos' /\ TRun' /\ Shows' /\ StaysGone' /\ Pending'
        BY <1>1, <2>1, <2>2, SameWorld
        DEF TRepos, TRun, PCs, Batches, Shows, StaysGone, Gone, Pending, setup, world
  <2> QED  BY <2>3 DEF PInv, TInv
<1>8. ASSUME MirrorTroveInfo PROVE PInv'
  <2>1. PICK ok \in SUBSET targets :
         /\ info' = [k \in Target |-> IF k \in ok THEN info[k] \cup NewInfos(k) ELSE info[k]]
         /\ Parallel(targets, ok,
              /\ pc' = "query" /\ asked' = clock
              /\ updated' = (\E k \in targets : NewInfos(k) # {})
              /\ UNCHANGED <<sync, cur, listed, chunks, bundles, goal, rest>>)
        BY <1>8 DEF MirrorTroveInfo
  <2>2. /\ pc = "info" /\ UNCHANGED <<world, setup, tgt, mark>>
        /\ clock \in 1..MaxClock /\ clock' = clock
        BY <1>1, <1>8 DEF MirrorTroveInfo, TWorld, world
  <2>3. TRepos'
    <3>1. \A k \in Target : NewInfos(k) \subseteq Match
          BY DEF NewInfos
    <3> HIDE DEF NewInfos
    <3>2. info' \in [Target -> SUBSET Match]
          BY <1>1, <2>1, <3>1 DEF TRepos
    <3> QED  BY <1>1, <2>2, <3>2 DEF TRepos
  <2>4. TWorld' /\ Shows'
        BY <1>1, <2>2, SameWorld DEF Shows, setup
  <2>5. TRun' /\ StaysGone' /\ Pending'
    <3>1. CASE Stop /\ faults < MaxFaults /\ faults' = faults + 1
      <4>1. faults' \in 0..MaxFaults
            BY <1>1, <3>1, BoundsAssumption DEF TRun
      <4> QED  BY <2>2, <3>1, <4>1, Returned
    <3>2. CASE /\ pc' = "query" /\ asked' = clock
               /\ UNCHANGED <<cur, listed, chunks, bundles, goal, rest, faults>>
      <4>1. asked' \in 0..clock'
            BY <2>2, <3>2, BoundsAssumption
      <4> QED  BY <1>1, <2>2, <3>2, <4>1
               DEF TRun, PCs, Batches, StaysGone, Gone, Pending, setup, world
    <3> QED  BY <2>1, <3>1, <3>2 DEF Parallel
  <2> QED  BY <2>3, <2>4, <2>5 DEF PInv, TInv
<1>9. ASSUME MirrorRemoved PROVE PInv'
  <2>1. PICK k \in rest :
         LET ts == {t \in Names(Gone) : tgt[k][t] = "present"}
         IN  /\ tgt' = [tgt EXCEPT ![k] = [t \in Trove |-> IF t \in ts THEN "removed" ELSE @[t]]]
             /\ updated' = (updated \/ ts # {})
             /\ rest' = rest \ {k}
        BY <1>9 DEF MirrorRemoved
  <2>2. pc = "remove" /\ UNCHANGED <<world, setup, info, mark, pc, cur, asked, listed, chunks, bundles, goal, faults>>
        BY <1>9 DEF MirrorRemoved
  <2>3. k \in Target /\ targets \subseteq Target
        BY <1>1 DEF TRun, TWorld
  <2>4. /\ tgt' \in [Target -> [Trove -> {"absent", "hidden", "present", "removed"}]]
        /\ \A j \in Target, t \in Trove : tgt'[j][t] \in {tgt[j][t], "removed"}
        BY <1>1, <2>1, <2>3 DEF TRepos
  <2>5. TRepos' /\ TRun' /\ Shows' /\ StaysGone' /\ Pending' /\ TWorld'
        BY <1>1, <2>1, <2>2, <2>3, <2>4, SameWorld
        DEF TRepos, TRun, Batches, Shows, StaysGone, Gone, Pending, setup, world
  <2> QED  BY <2>5 DEF PInv, TInv
<1>10. ASSUME Advance PROVE PInv'
  <2>1. PICK ok \in SUBSET targets :
         /\ mark' = [k \in Target |-> IF k \in ok THEN goal ELSE mark[k]]
         /\ Parallel(targets, ok, Return("pass"))
        BY <1>10 DEF Advance
  <2>2. UNCHANGED <<world, setup, tgt, info>> /\ clock' = clock
        BY <1>10 DEF Advance, world
  <2>3. TRepos'
    <3>1. mark' \in [Target -> -1..(MaxClock + 1)]
          BY <1>1, <2>1 DEF TRepos, TRun
    <3> QED  BY <1>1, <2>2, <3>1 DEF TRepos
  <2>4. TWorld' /\ Shows'
        BY <1>1, <2>2, SameWorld DEF Shows, setup
  <2>5. /\ Return("pass") \/ Stop
        /\ faults' \in 0..MaxFaults /\ clock' \in 1..MaxClock
        BY <1>1, <2>1, <2>2, BoundsAssumption DEF Parallel, TRun, TWorld
  <2> QED  BY <2>3, <2>4, <2>5, Returned DEF PInv, TInv
<1>11. ASSUME Fail \/ (NothingListed /\ Stop) \/ (Done /\ Return("pass")) PROVE PInv'
  <2>1. /\ Stop \/ Return("pass")
        /\ UNCHANGED <<clock, src, setup, tgt, info, mark>>
    <3>1. CASE Fail
          BY <3>1 DEF Fail, repos
    <3>2. CASE NothingListed /\ Stop
          BY <3>2 DEF NothingListed, Again, repos, world
    <3>3. CASE Done /\ Return("pass")
          BY <3>3 DEF Done, Again, repos, world
    <3> QED  BY <1>11, <3>1, <3>2, <3>3
  <2>2. faults' \in 0..MaxFaults
        BY <1>1, <1>11, BoundsAssumption DEF Fail, NothingListed, Done, Again, TRun
  <2>3. missed' \subseteq Trove
    <3>1. Names(Gone) \subseteq Trove
          BY <1>1, SetsAssumption DEF Names, Gone, TRun, Item
    <3>2. CASE Fail
          BY <1>1, <3>1, <3>2 DEF Fail, TWorld
    <3>3. CASE NothingListed \/ Done
          BY <1>1, <3>3 DEF NothingListed, Done, Again, TWorld, world
    <3> QED  BY <1>11, <3>2, <3>3
  <2>4. TWorld' /\ TRepos' /\ Shows'
        BY <1>1, <2>1, <2>3 DEF TWorld, TRepos, Shows, Stamp, setup
  <2>5. clock' \in 1..MaxClock
        BY <2>4 DEF TWorld
  <2> QED  BY <2>1, <2>2, <2>4, <2>5, Returned DEF PInv, TInv
<1> QED  BY <1>2, <1>3, <1>4, <1>5, <1>6, <1>7, <1>8, <1>9, <1>10, <1>11

LEMMA NextPInv == PInv /\ [Next]_vars => PInv'
BY PlainPInv, ListPInv, SplitPInv, NextChunkPInv, CommitPInv, FinishPInv DEF Next, Work

LEMMA PInvType == PInv => TypeOK
<1> SUFFICES ASSUME PInv PROVE TypeOK
    OBVIOUS
<1>1. TWorld /\ TRepos /\ TRun
      BY DEF PInv, TInv
<1>2. \A t \in Trove : Stamp(t) \in 0..clock /\ src[t].info \in 0..clock
  <2> SUFFICES ASSUME NEW t \in Trove PROVE src[t].stamp \in 0..clock /\ src[t].info \in 0..clock
      BY DEF Stamp
  <2>1. /\ src[t].stamp \in 0..MaxClock /\ src[t].info \in 0..MaxClock /\ clock \in 1..MaxClock
        /\ src[t].stamp <= clock /\ src[t].info <= clock
        BY <1>1 DEF TWorld, Stamp
  <2> QED  BY <2>1, BoundsAssumption
<1>3. Names(listed) \subseteq Match
      BY <1>1 DEF TRun, Item, Names
<1>4. \A c \in chunks : c.to \subseteq targets /\ c.items \subseteq listed
      BY <1>1 DEF TRun, Batches
<1> QED  BY <1>1, <1>2, <1>3, <1>4 DEF TypeOK, TWorld, TRepos, TRun

\* Every variable has its type, however the source changes meanwhile: the marks
\* stay within a second of those there are, and only what the configuration
\* asks for is listed.
THEOREM TypeCorrect == Spec => []TypeOK
BY InitPInv, NextPInv, PInvType, PTL DEF Spec

-----------------------------------------------------------------------------
(* What has been listed comes into sight everywhere.                       *)

LEMMA StepTogether ==
    ASSUME PInv, [Next]_vars, NEW k \in targets, NEW t \in Names(listed),
           tgt[k][t] # "present", tgt'[k][t] = "present", NEW j \in targets
    PROVE  tgt'[j][t] # "absent" \/ src[t].gone
<1>1. TInv /\ TWorld /\ TRepos /\ TRun /\ Shows /\ StaysGone /\ Pending
      BY DEF PInv, TInv
<1>2. PICK x \in listed : x.trove = t
      BY DEF Names
<1>3. t \in Trove /\ k \in Target /\ j \in Target /\ (x.gone => src[t].gone)
      BY <1>1, <1>2, SetsAssumption DEF TRun, TWorld, Item, StaysGone, Gone
<1>4. CASE CommitBundle
  <2>1. \A m \in Target, u \in Trove :
           \/ tgt'[m][u] = tgt[m][u]
           \/ tgt'[m][u] = IF hidden THEN "hidden" ELSE "present"
        BY <1>4, CommitPInv
  <2>2. ~ hidden
        BY <1>3, <2>1
  <2>3. j = k
        BY <1>1, <2>2 DEF Shows
  <2> QED  BY <2>3
<1>5. CASE Finish
  <2>1. /\ x.gone \/ tgt[j][t] # "absent"
        /\ tgt'[j][t] = tgt[j][t] \/ tgt'[j][t] = "present"
        BY <1>2, <1>3, <1>5, FinishPInv
  <2> QED  BY <1>3, <2>1
<1>6. CASE MirrorRemoved
  <2>1. PICK m \in rest :
         tgt' = [tgt EXCEPT ![m] = [u \in Trove |->
                    IF u \in {v \in Names(Gone) : tgt[m][v] = "present"} THEN "removed" ELSE @[u]]]
        BY <1>6 DEF MirrorRemoved
  <2>2. tgt'[k][t] \in {tgt[k][t], "removed"}
        BY <1>1, <1>3, <2>1 DEF TRepos
  <2> QED  BY <2>2
<1>7. CASE UNCHANGED tgt
      BY <1>7
<1>8. CommitBundle \/ Finish \/ MirrorRemoved \/ UNCHANGED tgt
  <2>1. CASE UNCHANGED vars
        BY <2>1 DEF vars, repos
  <2>2. CASE Tick \/ Change \/ Launch \/ Fail
        BY <2>2 DEF Tick, Change, Launch, Fail, repos
  <2>3. CASE Pass \/ ResetMark \/ MirrorTroveInfo \/ GetTroveList \/ NothingListed
        BY <2>3 DEF Pass, ResetMark, MirrorTroveInfo, GetTroveList, NothingListed, Again, repos
  <2>4. CASE NothingNeeded \/ SplitByTarget \/ NextChunk \/ Done \/ Advance
        BY <2>4 DEF NothingNeeded, SplitByTarget, NextChunk, Done, Advance, Again, repos
  <2> QED  BY <2>1, <2>2, <2>3, <2>4 DEF Next, Work
<1> QED  BY <1>4, <1>5, <1>6, <1>7, <1>8

\* A trove that a pass has listed comes into sight on a target only when every
\* other has it too, or the source has removed it, whichever call failed.
THEOREM SeenTogether == Spec => ListedTogether
<1>1. PInv /\ [Next]_vars =>
        [\A k \in targets, t \in Names(listed) :
            tgt[k][t] # "present" /\ tgt'[k][t] = "present" =>
               \A j \in targets : tgt'[j][t] # "absent" \/ src[t].gone]_vars
      BY StepTogether
<1> QED  BY <1>1, InitPInv, NextPInv, PTL DEF Spec, ListedTogether

-----------------------------------------------------------------------------
(* What the source lists.                                                  *)

LEMMA Numbers ==
    ASSUME PInv
    PROVE  /\ clock \in Int /\ cur \in Int /\ goal \in Int /\ Match \subseteq Trove
           /\ targets \subseteq Target /\ targets # {} /\ \A k \in targets : mark[k] \in Int
           /\ \A t \in Trove : Stamp(t) \in 0..MaxClock /\ Stamp(t) <= clock
           /\ \A x \in listed : x.trove \in Match /\ x.mark \in 0..MaxClock
<1>1. TWorld /\ TRepos /\ TRun
      BY DEF PInv, TInv
<1>2. \A t \in Trove : Stamp(t) \in 0..MaxClock /\ Stamp(t) <= clock
      BY <1>1 DEF TWorld, Stamp
<1>3. clock \in Int /\ cur \in Int /\ goal \in Int
      BY <1>1, BoundsAssumption DEF TWorld, TRun
<1>4. \A k \in targets : mark[k] \in Int
      BY <1>1, BoundsAssumption DEF TWorld, TRepos
<1>5. \A x \in listed : x.trove \in Match /\ x.mark \in 0..MaxClock
      BY <1>1 DEF TRun, Item
<1> QED  BY <1>1, <1>2, <1>3, <1>4, <1>5, SetsAssumption DEF TWorld

\* The limit of a list is above the number of troves with one stamp.
LEMMA Limits ==
    ASSUME NEW m \in Int
    PROVE  /\ Limit(m) \in Int /\ Room <= Limit(m)
           /\ \A s \in 1..MaxClock : LET n == Cardinality({t \in Trove : Stamp(t) = s})
                                     IN  s >= m /\ n > 1 => n < Limit(m)
<1> DEFINE tie(s) == Cardinality({t \in Trove : Stamp(t) = s})
           S == {Room} \cup {tie(s) + 1 : s \in {r \in 1..MaxClock : r >= m /\ tie(r) > 1}}
           n == Cardinality(Trove)
<1>1. n \in Nat
      BY SetsAssumption, FS_CardinalityType
<1>2. \A s : tie(s) \in Nat /\ tie(s) <= n
  <2> SUFFICES ASSUME NEW s PROVE tie(s) \in Nat /\ tie(s) <= n
      OBVIOUS
  <2>1. IsFiniteSet({t \in Trove : Stamp(t) = s}) /\ tie(s) <= n
        BY SetsAssumption, FS_Subset
  <2> QED  BY <2>1, FS_CardinalityType
<1>5. Limit(m) = Max(S)
      BY DEF Limit
<1> HIDE DEF tie, n
<1>3. /\ S \in SUBSET Int /\ S # {} /\ Room + n + 1 \in Int /\ \A k \in S : k <= Room + n + 1
      /\ Room \in S /\ Room \in Int
      BY <1>1, <1>2, BoundsAssumption
<1>4. \A s \in 1..MaxClock : s >= m /\ tie(s) > 1 => tie(s) + 1 \in S
      OBVIOUS
<1> HIDE DEF S
<1>6. Max(S) \in S /\ \A k \in S : k <= Max(S)
      BY <1>3, MaxOf
<1>7. ASSUME NEW s \in 1..MaxClock, s >= m, tie(s) > 1 PROVE tie(s) < Limit(m)
  <2>1. tie(s) \in Nat /\ tie(s) + 1 \in S
        BY <1>2, <1>4, <1>7
  <2>2. Max(S) \in Int /\ tie(s) + 1 <= Max(S)
        BY <1>3, <1>6, <2>1
  <2> QED  BY <1>5, <2>1, <2>2
<1> QED  BY <1>3, <1>5, <1>6, <1>7 DEF tie

\* A list that has a trove has all with a lower stamp from where it begins.
LEMMA Complete ==
    ASSUME PInv, NEW l \in Listings(cur), NEW u \in l, NEW t \in Trove,
           Stamp(t) > 0, cur <= Stamp(t), Stamp(t) < Stamp(u)
    PROVE  t \in l
<1> SUFFICES ASSUME t \notin l PROVE FALSE
    OBVIOUS
<1>1. u \in Trove /\ t \in Committed /\ Stamp(t) >= cur
      BY Numbers DEF Committed, Listings
<1>2. Stamp(u) <= Stamp(t)
      BY <1>1 DEF Listings
<1> QED  BY <1>1, <1>2, Numbers

\* A list has all troves with the stamp where it begins.
LEMMA Ties ==
    ASSUME PInv, NEW l \in Listings(cur), NEW t \in Trove, Stamp(t) > 0, Stamp(t) = cur
    PROVE  t \in l
<1> SUFFICES ASSUME t \notin l PROVE FALSE
    OBVIOUS
<1> DEFINE from == {v \in Committed : Stamp(v) >= cur}
           tie == {w \in Trove : Stamp(w) = cur}
<1>1. /\ l \subseteq from
      /\ Cardinality(l) = Min({Limit(cur), Cardinality(from)})
      /\ \A u \in l, v \in from \ l : Stamp(u) <= Stamp(v)
      BY DEF Listings
<1>2. from \subseteq Trove /\ \A v \in from : Stamp(v) >= cur
      BY DEF Committed
<1>3. t \in from /\ t \in tie
      BY Numbers DEF Committed
<1>4. l \subseteq tie /\ l # tie /\ l # from
  <2>1. ASSUME NEW u \in l PROVE u \in tie
    <3>1. u \in Trove /\ Stamp(u) >= cur /\ Stamp(u) <= cur
          BY <1>1, <1>2, <1>3
    <3> QED  BY <3>1, Numbers
  <2> QED  BY <1>3, <2>1
<1>5. IsFiniteSet(tie) /\ IsFiniteSet(from)
      BY <1>2, SetsAssumption, FS_Subset
<1>6. tie \subseteq Trove
      OBVIOUS
<1>7. /\ cur \in 1..MaxClock /\ cur \in Int /\ Limit(cur) \in Int /\ Room <= Limit(cur)
      /\ Cardinality(tie) > 1 => Cardinality(tie) < Limit(cur)
  <2>1. cur \in 1..MaxClock
        BY Numbers, BoundsAssumption
  <2> QED  BY <2>1, Limits
<1> HIDE DEF from, tie
<1>8. /\ IsFiniteSet(l) /\ Cardinality(l) <= Cardinality(tie) /\ Cardinality(l) # Cardinality(tie)
      /\ Cardinality(l) # Cardinality(from)
      BY <1>1, <1>4, <1>5, FS_Subset
<1>9. Cardinality(l) \in Nat /\ Cardinality(tie) \in Nat /\ Cardinality(from) \in Nat
      BY <1>5, <1>8, FS_CardinalityType
<1>10. Cardinality(l) \in {Limit(cur), Cardinality(from)}
  <2> DEFINE S == {Limit(cur), Cardinality(from)}
             lo == IF Limit(cur) <= Cardinality(from) THEN Limit(cur) ELSE Cardinality(from)
  <2>1. S \in SUBSET Int /\ S # {} /\ lo \in Int /\ \A k \in S : lo <= k
        BY <1>7, <1>9
  <2> HIDE DEF S, lo
  <2>2. Min(S) \in S
        BY <2>1, MinOf
  <2> QED  BY <1>1, <2>2 DEF S
<1>11. Cardinality(l) = Limit(cur)
      BY <1>8, <1>10
<1> QED  BY <1>7, <1>8, <1>9, <1>11, BoundsAssumption

\* What is cut off a list is later than all that is left of it.
LEMMA Cuts ==
    ASSUME NEW l
    PROVE  /\ CutOff(l) \subseteq l
           /\ l # {} => CutOff(l) # {}
           /\ \A t \in l \ CutOff(l), u \in CutOff(l) : Stamp(t) > Stamp(u)
BY DEF CutOff

\* The list is complete up to its last mark.
LEMMA ListsAll ==
    ASSUME PInv, GetTroveList
    PROVE  Listed' /\ Filtered'
<1> DEFINE tsOf(l) == CutOff(l \cap Match)
           itemsOf(l) == {[trove |-> t, mark |-> Stamp(t), gone |-> src[t].gone] : t \in tsOf(l)}
           topOf(l) == Max({cur} \cup {Stamp(t) : t \in l})
<1>0. PICK l \in Listings(cur) : listed' = itemsOf(l) /\ goal' = topOf(l)
      BY DEF GetTroveList
<1> DEFINE ts == tsOf(l)
           all == itemsOf(l)
           top == topOf(l)
<1>1. /\ listed' = all /\ goal' = top /\ pc' = "sift"
      /\ UNCHANGED <<world, setup, repos, sync, cur, asked, chunks, bundles, updated, rest, faults>>
      BY <1>0 DEF GetTroveList
<1>2. src' = src /\ cur' = cur /\ clock' = clock /\ missed' = missed
      BY <1>1 DEF world
<1>3. \A t \in l : t \in Trove /\ Stamp(t) > 0 /\ cur <= Stamp(t)
  <2>1. \A t \in l : t \in Committed /\ Stamp(t) >= cur
        BY DEF Listings
  <2> SUFFICES ASSUME NEW t \in l PROVE t \in Trove /\ Stamp(t) > 0 /\ cur <= Stamp(t)
      OBVIOUS
  <2>2. t \in Trove /\ Stamp(t) > 0 /\ Stamp(t) >= cur
        BY <2>1 DEF Committed
  <2>3. Stamp(t) \in Int /\ cur \in Int
        BY <2>2, Numbers
  <2> QED  BY <2>2, <2>3
<1>4. /\ \A t \in ts : \E x \in all : x.trove = t /\ x.gone = src[t].gone
      /\ \A x \in all : x.trove \in ts /\ x.mark = Stamp(x.trove) /\ x.gone = src[x.trove].gone
  <2> HIDE DEF tsOf
  <2>1. \A x \in all : x.trove \in ts /\ x.mark = Stamp(x.trove) /\ x.gone = src[x.trove].gone
        OBVIOUS
  <2>2. ASSUME NEW t \in ts PROVE \E x \in all : x.trove = t
    <3>1. [trove |-> t, mark |-> Stamp(t), gone |-> src[t].gone] \in all
          OBVIOUS
    <3> QED  BY <3>1
  <2> QED
    <3> HIDE DEF itemsOf
    <3> QED  BY <2>1, <2>2
<1>5. top \in {cur} \cup {Stamp(t) : t \in l}
  <2>1. l \subseteq Committed
        BY DEF Listings
  <2> QED  BY <2>1, ListType DEF PInv
<1>14. top = cur \/ top <= clock
  <2>1. \A t \in l : Stamp(t) <= clock
        BY <1>3, Numbers
  <2> HIDE DEF topOf
  <2> QED  BY <1>5, <2>1
<1>6. ASSUME NEW t \in Match, Stamp(t) > 0, cur <= Stamp(t), NEW u \in l, Stamp(t) < Stamp(u)
      PROVE  t \in l \cap Match
  <2>1. t \in Trove
        BY Numbers
  <2> QED  BY <1>6, <2>1, Complete
<1>7. ASSUME NEW t \in Match, Stamp(t) > 0, cur = Stamp(t)
      PROVE  t \in l \cap Match
  <2>1. t \in Trove
        BY Numbers
  <2> QED  BY <1>7, <2>1, Ties
<1>8. /\ ts \subseteq l \cap Match
      /\ l \cap Match # {} => ts # {}
      /\ \A t \in (l \cap Match) \ ts, u \in ts : Stamp(t) > Stamp(u)
      BY Cuts
<1> HIDE DEF tsOf
<1>9. ASSUME NEW x \in all
      PROVE  /\ x.mark > 0 /\ cur <= x.mark /\ x.mark <= clock
             /\ \A t \in Match : Stamp(t) > 0 /\ cur <= Stamp(t) /\ Stamp(t) < x.mark => t \in ts
  <2>1. x.trove \in ts /\ x.trove \in l /\ x.mark = Stamp(x.trove)
        BY <1>4, <1>8
  <2>2. ASSUME NEW t \in Match, Stamp(t) > 0, cur <= Stamp(t), Stamp(t) < x.mark
        PROVE  t \in ts
    <3>1. t \in l \cap Match
          BY <1>6, <2>1, <2>2
    <3>2. Stamp(t) \in Int /\ Stamp(x.trove) \in Int
          BY <1>3, <2>1, <3>1, Numbers
    <3> QED  BY <1>8, <2>1, <2>2, <3>1, <3>2
  <2> QED  BY <1>3, <2>1, <2>2, Numbers
<1>10. ASSUME all # {}, NEW t \in Match, Stamp(t) > 0, cur <= Stamp(t), Stamp(t) < cur + 1
       PROVE  t \in ts
  <2>1. Stamp(t) = cur /\ cur \in Int
        BY <1>10, Numbers
  <2>2. t \in l \cap Match
        BY <1>7, <1>10, <2>1
  <2>3. PICK u \in ts : TRUE
        BY <1>10
  <2>4. Stamp(u) \in Int /\ cur <= Stamp(u)
        BY <1>3, <1>8, Numbers
  <2> QED  BY <1>8, <2>1, <2>2, <2>4
<1>11. ASSUME all = {}, NEW t \in Match, Stamp(t) > 0, cur <= Stamp(t), Stamp(t) < top
       PROVE  FALSE
  <2>0. top # cur
    <3>1. Stamp(t) \in Int /\ cur \in Int
          BY Numbers
    <3> HIDE DEF topOf
    <3> QED  BY <1>11, <3>1
  <2>1. PICK u \in l : top = Stamp(u)
    <3> HIDE DEF topOf
    <3> QED  BY <1>5, <2>0
  <2>2. l \cap Match # {}
        BY <1>6, <1>11, <2>1
  <2>3. PICK u2 \in ts : TRUE
        BY <1>8, <2>2
  <2> QED  BY <1>11, <2>3
<1> HIDE DEF itemsOf, topOf
<1>12. Listed'
  <2>1. \A x \in all : Covered(x.mark)'
        BY <1>1, <1>2, <1>4, <1>9 DEF Covered, Stamp
  <2>2. all # {} => Covered(cur + 1)'
        BY <1>1, <1>2, <1>4, <1>10 DEF Covered, Stamp
  <2> QED  BY <1>1, <1>2, <1>9, <2>1, <2>2 DEF Listed, Covered, Stamp
<1>13. Filtered'
      BY <1>1, <1>2, <1>4, <1>11, <1>14 DEF Filtered, Covered, Stamp
<1> QED  BY <1>12, <1>13

-----------------------------------------------------------------------------
(* The marks.                                                              *)

\* The list as it was.
LEMMA SameListed ==
    /\ UNCHANGED <<clock, src, missed, cur, listed>>
    /\ pc \in {"sift", "chunk", "remove"}
    /\ Listed
    => Listed'
BY DEF Listed, Covered, Stamp

\* What a target has of a trove it keeps: only what is not removed at the
\* source is committed.
LEMMA Kept ==
    ASSUME PInv, CommitBundle \/ Finish \/ MirrorRemoved \/ UNCHANGED <<src, tgt>>,
           NEW k \in targets, NEW t \in Match, Mirrored(k, t)
    PROVE  Mirrored(k, t)'
<1>1. k \in Target /\ t \in Trove /\ TRepos /\ TRun
      BY Numbers DEF PInv, TInv
<1>2. CASE CommitBundle
  <2>1. src' = src
        BY <1>2 DEF CommitBundle, world
  <2>2. tgt'[k][t] = tgt[k][t] \/ (tgt'[k][t] # "absent" /\ ~ src[t].gone)
        BY <1>1, <1>2, CommitPInv
  <2> QED  BY <2>1, <2>2 DEF Mirrored
<1>3. CASE Finish
  <2>1. /\ src' = src
        /\ tgt'[k][t] = tgt[k][t] \/ (tgt[k][t] = "hidden" /\ tgt'[k][t] = "present")
        BY <1>1, <1>3, FinishPInv DEF world
  <2> QED  BY <2>1 DEF Mirrored
<1>4. CASE MirrorRemoved
  <2>1. PICK m \in rest :
         tgt' = [tgt EXCEPT ![m] = [u \in Trove |->
                    IF u \in {v \in Names(Gone) : tgt[m][v] = "present"} THEN "removed" ELSE @[u]]]
        BY <1>4 DEF MirrorRemoved
  <2>2. tgt'[k][t] = tgt[k][t] \/ (tgt[k][t] = "present" /\ tgt'[k][t] = "removed")
        BY <1>1, <2>1 DEF TRepos
  <2>3. src' = src
        BY <1>4 DEF MirrorRemoved, world
  <2> QED  BY <2>2, <2>3 DEF Mirrored
<1>5. CASE UNCHANGED <<src, tgt>>
      BY <1>5 DEF Mirrored
<1> QED  BY <1>2, <1>3, <1>4, <1>5

\* A pass that is over leaves the marks.
LEMMA ReturnMarked ==
    ASSUME Stop \/ Return("pass"), Passed'
    PROVE  Marked'
<1>1. pc' \in {"idle", "pass"}
      BY DEF Stop, Return
<1> QED  BY <1>1 DEF Marked, Begun, Listed, Filtered, Aims, Removing, Advances

\* Nothing is safe but what is: if nothing is missing below one of the marks,
\* nothing is missing below all of them.
LEMMA OneMark ==
    ASSUME UNCHANGED <<src, missed, targets>>, NEW j \in targets,
           \A k \in targets, t \in Match : Mirrored(k, t) => Mirrored(k, t)',
           Safe(mark'[j])
    PROVE  Passed'
BY DEF Passed, Safe, Under, Stamp

\* Nothing is missing below a mark up to which the list is complete, if no
\* trove that is still as the list has it is missing.
LEMMA SafeBelow ==
    ASSUME Safe(cur), NEW m, Covered(m), PInv,
           \A x \in listed, k \in targets : x.gone = src[x.trove].gone => Mirrored(k, x.trove)
    PROVE  Safe(m)
<1> SUFFICES ASSUME NEW k \in targets, NEW t \in Match \ missed, Stamp(t) > 0, Stamp(t) < m
             PROVE  Mirrored(k, t)
    BY DEF Safe
<1>1. CASE Stamp(t) < cur
      BY <1>1 DEF Safe
<1>2. CASE ~ (Stamp(t) < cur)
  <2>1. Stamp(t) \in Int /\ cur \in Int
        BY Numbers
  <2>2. cur <= Stamp(t)
        BY <1>2, <2>1
  <2>3. PICK x \in listed : x.trove = t /\ x.gone = src[t].gone
        BY <2>2 DEF Covered
  <2> QED  BY <2>3
<1> QED  BY <1>1, <1>2

\* When the marks are set but removals are not all made, what is missing below
\* them is a removal that was listed.
LEMMA RemovalsLeft ==
    ASSUME MInv, pc = "remove", NEW k \in targets, NEW t \in Match \ missed,
           Stamp(t) > 0, Under(t)
    PROVE  \/ Mirrored(k, t)
           \/ src[t].gone /\ t \in Names(Gone) /\ k \in rest /\ tgt[k][t] = "present"
<1>1. PInv /\ Begun /\ Removing
      BY DEF MInv, Marked
<1>2. CASE Stamp(t) < cur
      BY <1>1, <1>2 DEF Begun, Safe
<1>3. CASE ~ (Stamp(t) < cur)
  <2>1. Stamp(t) \in Int /\ cur \in Int /\ Covered(mark[k]) /\ Stamp(t) < mark[k]
        BY <1>1, Numbers DEF Removing, Under
  <2>2. cur <= Stamp(t)
        BY <1>3, <2>1
  <2>3. PICK x \in listed : x.trove = t /\ x.gone = src[t].gone
        BY <2>1, <2>2 DEF Covered
  <2>4. t \in Trove
        BY <1>1, Numbers
  <2>5. /\ tgt[k][t] # "hidden"
        /\ IF x.gone THEN k \in rest \/ tgt[k][t] # "present" ELSE tgt[k][t] # "absent"
        BY <1>1, <2>3, <2>4 DEF Removing
  <2>6. x.gone => t \in Names(Gone)
        BY <2>3 DEF Names, Gone
  <2> QED  BY <2>3, <2>5, <2>6 DEF Mirrored
<1> QED  BY <1>2, <1>3

\* While some pass has still to come to the second it is, a change is ahead of
\* it.
LEMMA NotOvertaken ==
    ASSUME MInv, ~ Overtaken
    PROVE  /\ \E k \in targets : mark[k] <= clock
           /\ pc \notin {"idle", "pass"} => cur <= clock
           /\ pc \in {"sift", "chunk", "remove", "advance"} => cur < clock
<1>1. PInv /\ Begun /\ pc \in PCs
      BY DEF MInv, Marked, PInv, TInv, TRun
<1>2. clock \in Int /\ cur \in Int /\ \A k \in targets : mark[k] \in Int
      BY <1>1, Numbers
<1>3. PICK k \in targets : mark[k] <= clock
      BY <1>2 DEF Overtaken
<1>4. pc \in {"sift", "chunk", "remove", "advance"} => cur # clock
      BY DEF Overtaken
<1>5. pc \notin {"idle", "pass"} => cur <= clock
  <2>1. CASE pc = "reset"
        BY <1>1, <1>2, <1>3, <2>1 DEF Begun
  <2>2. CASE pc \in {"info", "query", "sift", "chunk"}
        BY <1>1, <1>3, <2>2 DEF Begun
  <2>3. CASE pc \in {"remove", "advance"}
        BY <1>1, <2>3 DEF Begun
  <2> QED  BY <1>1, <2>1, <2>2, <2>3 DEF PCs
<1> QED  BY <1>2, <1>3, <1>4, <1>5

\* A change at the source.
LEMMA ChangeMarked ==
    ASSUME MInv, Change
    PROVE  Marked'
<1>1. /\ PInv /\ Passed /\ Begun /\ Listed /\ Filtered /\ Aims /\ Removing /\ Advances
      BY DEF MInv, Marked
<1>2. /\ UNCHANGED <<clock, targets, tgt, mark, pc, cur, goal, listed, chunks, bundles, rest>>
      /\ \A t \in Trove : \/ /\ src'[t].stamp = src[t].stamp /\ src'[t].gone = src[t].gone
                             /\ t \in missed' <=> t \in missed
                          \/ src'[t].stamp = clock /\ (Overtaken => t \in missed')
      BY <1>1, ChangeTInv DEF PInv, setup, run
<1>3. /\ Match \subseteq Trove /\ clock \in Int /\ cur \in Int /\ goal \in Int
      /\ \A k \in targets : mark[k] \in Int
      BY <1>1, Numbers
<1> DEFINE SafeNow(m) == \A k \in targets, t \in Match \ missed' :
               src'[t].stamp > 0 /\ src'[t].stamp < m => Mirrored(k, t)'
           CoveredNow(m) == \A t \in Match \ missed' :
               src'[t].stamp > 0 /\ cur <= src'[t].stamp /\ src'[t].stamp < m =>
                  \E x \in listed : x.trove = t /\ x.gone = src'[t].gone
\* What is new and not missed is not below m, and all else is as it was.
<1>4. ASSUME NEW m \in Int, ~ Overtaken => m <= clock, Safe(m)
      PROVE  SafeNow(m)
  <2> SUFFICES ASSUME NEW k \in targets, NEW t \in Match \ missed',
                      src'[t].stamp > 0, src'[t].stamp < m
               PROVE  Mirrored(k, t)'
      OBVIOUS
  <2>1. CASE src'[t].stamp = clock /\ ~ Overtaken
        BY <1>3, <1>4, <2>1
  <2>2. CASE src'[t].stamp = src[t].stamp /\ src'[t].gone = src[t].gone /\ t \notin missed
        BY <1>2, <1>4, <2>2 DEF Safe, Stamp, Mirrored
  <2> QED  BY <1>2, <1>3, <2>1, <2>2
<1>5. ASSUME NEW m \in Int, ~ Overtaken => m <= clock, Covered(m)
      PROVE  CoveredNow(m)
  <2> SUFFICES ASSUME NEW t \in Match \ missed',
                      src'[t].stamp > 0, cur <= src'[t].stamp, src'[t].stamp < m
               PROVE  \E x \in listed : x.trove = t /\ x.gone = src'[t].gone
      OBVIOUS
  <2>1. CASE src'[t].stamp = clock /\ ~ Overtaken
        BY <1>3, <1>5, <2>1
  <2>2. CASE src'[t].stamp = src[t].stamp /\ src'[t].gone = src[t].gone /\ t \notin missed
        BY <1>2, <1>5, <2>2 DEF Covered, Stamp
  <2> QED  BY <1>2, <1>3, <2>1, <2>2
<1>6. ~ Overtaken => /\ \E k \in targets : mark[k] <= clock
                     /\ pc \notin {"idle", "pass"} => cur <= clock
                     /\ pc \in {"sift", "chunk", "remove", "advance"} => cur < clock
      BY NotOvertaken
<1>7. Passed'
  <2> SUFFICES ASSUME pc # "remove", NEW k \in targets, NEW t \in Match \ missed',
                      src'[t].stamp > 0, \A j \in targets : src'[t].stamp < mark[j]
               PROVE  Mirrored(k, t)'
      BY <1>2 DEF Passed, Under, Stamp
  <2>1. CASE src'[t].stamp = clock /\ ~ Overtaken
        BY <1>3, <1>6, <2>1
  <2>2. CASE src'[t].stamp = src[t].stamp /\ src'[t].gone = src[t].gone /\ t \notin missed
        BY <1>1, <1>2, <2>2 DEF Passed, Under, Stamp, Mirrored
  <2> QED  BY <1>2, <1>3, <2>1, <2>2
<1>14. \A m \in Int : (~ Overtaken => m <= clock) /\ Safe(m) => SafeNow(m)
      BY <1>4
<1>15. \A m \in Int : (~ Overtaken => m <= clock) /\ Covered(m) => CoveredNow(m)
      BY <1>5
<1> HIDE DEF SafeNow, CoveredNow
<1>8. Begun'
  <2>1. pc \notin {"idle", "pass"} => SafeNow(cur)
        BY <1>1, <1>3, <1>6, <1>14 DEF Begun
  <2> QED  BY <1>1, <1>2, <2>1 DEF Begun, Safe, SafeNow, Stamp
<1>9. Listed'
  <2>1. \A x \in listed : x.mark \in Int
        BY <1>1, Numbers, BoundsAssumption
  <2>2. cur + 1 \in Int /\ (pc \in {"sift", "chunk", "remove"} /\ ~ Overtaken => cur + 1 <= clock)
        BY <1>3, <1>6
  <2>3. pc \in {"sift", "chunk", "remove"} =>
           /\ \A x \in listed : x.mark > 0 /\ cur <= x.mark /\ x.mark <= clock /\ CoveredNow(x.mark)
           /\ listed # {} => CoveredNow(cur + 1)
        BY <1>1, <1>15, <2>1, <2>2 DEF Listed
  <2> QED  BY <1>2, <2>3 DEF Listed, Covered, CoveredNow, Stamp
<1>10. Filtered'
  <2>1. pc = "sift" /\ listed = {} => CoveredNow(goal)
    <3> SUFFICES ASSUME pc = "sift", listed = {} PROVE CoveredNow(goal)
        OBVIOUS
    <3>1. Covered(goal) /\ (goal = cur \/ goal <= clock)
          BY <1>1 DEF Filtered
    <3>2. ~ Overtaken => goal <= clock
          BY <1>3, <1>6, <3>1
    <3> QED  BY <1>3, <1>15, <3>1, <3>2
  <2> QED  BY <1>1, <1>2, <2>1 DEF Filtered, Covered, CoveredNow, Stamp
<1>11. Removing'
  <2>1. pc = "remove" => \A j \in targets : CoveredNow(mark[j])
    <3> SUFFICES ASSUME pc = "remove", NEW j \in targets PROVE CoveredNow(mark[j])
        OBVIOUS
    <3>1. Covered(mark[j]) /\ \A k \in targets : mark[j] = mark[k]
          BY <1>1 DEF Removing, Begun
    <3> QED  BY <1>3, <1>6, <1>15, <3>1
  <2> QED  BY <1>1, <1>2, <2>1 DEF Removing, Covered, CoveredNow, Stamp
<1>12. Advances'
  <2>1. CASE pc = "advance"
    <3>1. Safe(goal) /\ (goal <= clock \/ goal = cur + 1) /\ \A j \in targets : Safe(mark[j])
          BY <1>1, <2>1 DEF Advances
    <3>2. \A j, k \in targets : mark[j] = mark[k]
          BY <1>1, <2>1 DEF Begun
    <3>3. ~ Overtaken => goal <= clock
          BY <1>3, <1>6, <2>1, <3>1
    <3>4. \A j \in targets : SafeNow(mark[j])
          BY <1>3, <1>6, <1>14, <3>1, <3>2
    <3>5. SafeNow(goal)
          BY <1>3, <1>14, <3>1, <3>3
    <3> QED  BY <1>2, <3>1, <3>4, <3>5 DEF Advances, Safe, SafeNow, Stamp
  <2>2. CASE pc # "advance"
        BY <1>2, <2>2 DEF Advances
  <2> QED  BY <2>1, <2>2
<1>13. Aims'
      BY <1>1, <1>2 DEF Aims
<1> QED  BY <1>7, <1>8, <1>9, <1>10, <1>11, <1>12, <1>13 DEF Marked

\* Time goes on, or the mirror is started, or a pass dies.
LEMMA WorldMarked ==
    ASSUME MInv, Tick \/ Launch \/ Fail \/ UNCHANGED vars
    PROVE  Marked'
<1>1. /\ PInv /\ Passed /\ Begun /\ Listed /\ Filtered /\ Aims /\ Removing /\ Advances
      BY DEF MInv, Marked
<1>2. CASE Tick \/ UNCHANGED vars
  <2>1. /\ UNCHANGED <<src, missed, setup, tgt, mark, pc, cur, goal, listed, chunks, bundles, rest>>
        /\ clock' = clock \/ clock' = clock + 1
        BY <1>2 DEF Tick, vars, world, repos, run
  <2>2. \A m \in Int : m <= clock => m <= clock'
        BY <1>1, <2>1, Numbers
  <2>3. cur \in Int /\ goal \in Int /\ \A x \in listed : x.mark \in Int
        BY <1>1, Numbers, BoundsAssumption
  <2>4. Passed' /\ Begun' /\ Aims' /\ Removing'
        BY <1>1, <2>1, <2>2, <2>3
        DEF Passed, Begun, Aims, Removing, Safe, Mirrored, Under, Covered, Stamp, setup
  <2>5. Listed' /\ Filtered' /\ Advances'
        BY <1>1, <2>1, <2>2, <2>3
        DEF Listed, Filtered, Advances, Safe, Mirrored, Covered, Stamp, setup
  <2> QED  BY <2>4, <2>5 DEF Marked
<1>3. CASE Launch
  <2>1. /\ UNCHANGED <<missed, tgt, mark>>
        /\ pc = "idle" /\ pc' = "pass" /\ UNCHANGED <<clock, src, targets>>
        BY <1>3 DEF Launch, repos, world, setup
  <2> QED  BY <1>1, <2>1
           DEF Marked, Passed, Begun, Listed, Filtered, Aims, Removing, Advances,
               Mirrored, Under, Stamp
<1>4. CASE Fail
  <2>1. Stop /\ UNCHANGED <<src, targets, tgt, mark>> /\ missed \subseteq missed'
        BY <1>4 DEF Fail, repos, setup
  <2>2. ASSUME NEW k \in targets, NEW t \in Match \ missed', Stamp(t) > 0, Under(t)
        PROVE  Mirrored(k, t)
    <3>1. CASE pc # "remove"
          BY <1>1, <2>1, <2>2, <3>1 DEF Passed
    <3>2. CASE pc = "remove"
      <4>1. \/ Mirrored(k, t)
            \/ t \in Names(Gone) /\ k \in rest /\ tgt[k][t] = "present"
            BY <2>1, <2>2, <3>2, RemovalsLeft
      <4> QED  BY <1>4, <2>2, <3>2, <4>1 DEF Fail
    <3> QED  BY <3>1, <3>2
  <2>3. Passed'
        BY <2>1, <2>2 DEF Passed, Mirrored, Under, Stamp
  <2> QED  BY <2>1, <2>3, ReturnMarked
<1> QED  BY <1>2, <1>3, <1>4

\* The start of a pass: nothing is missing below the lowest mark.
LEMMA PassMarked ==
    ASSUME MInv, Pass \/ ResetMark \/ MirrorTroveInfo
    PROVE  Marked'
<1>1. /\ PInv /\ Passed /\ Begun
      BY DEF MInv, Marked
<1>2. CASE Pass
  <2>1. /\ UNCHANGED <<src, missed, targets, tgt, mark>> /\ pc = "pass" /\ pc' = "reset"
        /\ cur' = IF sync THEN -1 ELSE Min({mark[k] : k \in targets})
        BY <1>2 DEF Pass, world, setup, repos
  <2> DEFINE S == {mark[k] : k \in targets}
  <2>2. \A k \in targets : mark[k] \in -1..(MaxClock + 1)
        BY <1>1 DEF PInv, TInv, TRepos, TWorld
  <2>3. S \in SUBSET Int /\ S # {} /\ -1 \in Int /\ \A m \in S : -1 <= m
        BY <1>1, <2>2, Numbers, BoundsAssumption
  <2>4. \A k \in targets : mark[k] \in S
        OBVIOUS
  <2>5. \A m \in S : \E k \in targets : m = mark[k]
        OBVIOUS
  <2>6. /\ \A k \in targets : cur' <= mark[k]
        /\ cur' = -1 \/ \E k \in targets : cur' = mark[k]
    <3> HIDE DEF S
    <3>1. Min(S) \in S /\ \A m \in S : Min(S) <= m
          BY <2>3, MinOf
    <3>2. cur' = -1 \/ cur' = Min(S)
          BY <2>1 DEF S
    <3> QED  BY <2>3, <2>4, <2>5, <3>1, <3>2
  <2>7. Safe(cur')
    <3> SUFFICES ASSUME NEW k \in targets, NEW t \in Match \ missed, Stamp(t) > 0, Stamp(t) < cur'
                 PROVE  Mirrored(k, t)
        BY DEF Safe
    <3>1. Stamp(t) \in Int /\ \A j \in targets : mark[j] \in Int
          BY <1>1, Numbers
    <3>2. \A j \in targets : Stamp(t) < mark[j]
          BY <2>6, <3>1
    <3> QED  BY <1>1, <2>1, <3>2 DEF Passed, Under
  <2>8. Begun'
        BY <2>1, <2>6, <2>7 DEF Begun, Safe, Mirrored, Stamp
  <2>9. Passed'
        BY <1>1, <2>1 DEF Passed, Under, Mirrored, Stamp
  <2> QED  BY <2>1, <2>8, <2>9 DEF Marked, Listed, Filtered, Aims, Removing, Advances
<1>3. CASE ResetMark
  <2>1. /\ UNCHANGED <<src, missed, targets, tgt, cur>>
        /\ pc = "reset" /\ pc' \in {"reset", "info"}
        /\ \/ \E k \in targets : mark' = [mark EXCEPT ![k] = cur] /\ pc' = "reset"
           \/ mark' = mark /\ \A k \in targets : mark[k] = cur
        BY <1>3 DEF ResetMark, world, setup
  <2>2. Safe(cur) /\ \A k \in targets : cur <= mark[k]
        BY <1>1, <2>1 DEF Begun
  <2>3. \E k \in targets : mark'[k] = cur
        BY <1>1, <2>1, Numbers DEF PInv, TInv, TRepos
  <2>4. \A k \in targets : mark'[k] \in {cur, mark[k]}
        BY <1>1, <2>1, Numbers DEF PInv, TInv, TRepos
  <2>5. Passed'
        BY <2>1, <2>2, <2>3, OneMark DEF Mirrored
  <2>6. \A k \in targets : cur <= mark'[k]
        BY <1>1, <2>2, <2>4, Numbers
  <2>7. Begun'
        BY <2>1, <2>2, <2>6 DEF Begun, Safe, Mirrored, Stamp
  <2> QED  BY <2>1, <2>5, <2>7 DEF Marked, Listed, Filtered, Aims, Removing, Advances
<1>4. CASE MirrorTroveInfo
  <2>1. /\ UNCHANGED <<src, missed, targets, tgt, mark>> /\ pc = "info"
        /\ Stop \/ (pc' = "query" /\ UNCHANGED <<cur, goal>>)
        BY <1>4 DEF MirrorTroveInfo, Parallel, world, setup
  <2>2. Passed'
        BY <1>1, <2>1 DEF Passed, Under, Mirrored, Stamp
  <2>3. CASE Stop
        BY <2>2, <2>3, ReturnMarked
  <2>4. CASE pc' = "query" /\ UNCHANGED <<cur, goal>>
    <3>1. Begun'
          BY <1>1, <2>1, <2>4 DEF Begun, Safe, Mirrored, Stamp
    <3> QED  BY <2>2, <2>4, <3>1 DEF Marked, Listed, Filtered, Aims, Removing, Advances
  <2> QED  BY <2>1, <2>3, <2>4
<1> QED  BY <1>2, <1>3, <1>4

\* The mark to break out of a loop with is not beyond the list.
LEMMA CrtMaxMarkCovered ==
    ASSUME MInv, listed # {}, pc \in {"sift", "chunk", "remove"}
    PROVE  /\ CrtMaxMark \in Int /\ Covered(CrtMaxMark) /\ cur <= clock
           /\ CrtMaxMark <= clock \/ CrtMaxMark = cur + 1
<1>1. PInv /\ Listed
      BY DEF MInv, Marked
<1>2. /\ CrtMaxMark \in 0..(MaxClock + 1)
      /\ \E x \in listed : \/ CrtMaxMark = x.mark
                           \/ CrtMaxMark = x.mark + 1 /\ CrtMaxMark = cur + 1
      BY <1>1, CrtMaxMarks DEF PInv
<1>3. PICK x \in listed : \/ CrtMaxMark = x.mark
                          \/ CrtMaxMark = x.mark + 1 /\ CrtMaxMark = cur + 1
      BY <1>2
<1>4. cur <= x.mark /\ x.mark <= clock /\ Covered(x.mark) /\ Covered(cur + 1)
      BY <1>1, <1>3 DEF Listed
<1>5. x.mark \in Int /\ cur \in Int /\ clock \in Int /\ CrtMaxMark \in Int
      BY <1>1, <1>2, Numbers, BoundsAssumption
<1> HIDE DEF CrtMaxMark
<1> QED  BY <1>3, <1>4, <1>5

\* The list, and the two ways to have nothing to do with it.
LEMMA ListMarked ==
    ASSUME MInv, GetTroveList \/ NothingListed \/ NothingNeeded
    PROVE  Marked'
<1>1. /\ PInv /\ Passed /\ Begun /\ Listed /\ Filtered
      BY DEF MInv, Marked
<1>2. CASE GetTroveList
  <2>1. UNCHANGED <<src, missed, targets, tgt, mark, cur>> /\ pc = "query" /\ pc' = "sift"
        BY <1>2 DEF GetTroveList, world, setup, repos
  <2>2. Passed' /\ Begun'
        BY <1>1, <2>1 DEF Passed, Begun, Safe, Mirrored, Under, Stamp
  <2>3. Listed' /\ Filtered'
        BY <1>1, <1>2, ListsAll
  <2> QED  BY <2>1, <2>2, <2>3 DEF Marked, Aims, Removing, Advances
<1>3. ASSUME NEW m, Again(m), pc = "sift", Safe(m), cur <= clock, m <= clock \/ m = cur + 1
      PROVE  Marked'
  <2>1. UNCHANGED <<clock, src, missed, targets, tgt, mark, cur>> /\ pc' = "advance" /\ goal' = m
        BY <1>3 DEF Again, world, setup, repos
  <2>2. Safe(cur) /\ \A k \in targets : mark[k] = cur
        BY <1>1, <1>3 DEF Begun
  <2>3. Passed' /\ Begun' /\ Advances'
        BY <1>1, <1>3, <2>1, <2>2
        DEF Passed, Begun, Advances, Safe, Mirrored, Under, Stamp
  <2> QED  BY <2>1, <2>3 DEF Marked, Listed, Filtered, Aims, Removing
<1>4. CASE NothingListed
  <2>1. pc = "sift" /\ listed = {} /\ Safe(cur)
        BY <1>1, <1>4 DEF NothingListed, Begun
  <2>2. CASE goal > cur /\ Again(goal)
    <3>1. Covered(goal) /\ goal <= clock /\ cur <= clock
          BY <1>1, <2>1, <2>2, Numbers DEF Filtered
    <3>2. Safe(goal)
          BY <1>1, <2>1, <3>1, SafeBelow
    <3> QED  BY <1>3, <2>1, <2>2, <3>1, <3>2
  <2>3. CASE Stop /\ UNCHANGED <<world, setup, repos>>
    <3>1. Passed'
          BY <1>1, <2>1, <2>3 DEF Passed, Mirrored, Under, Stamp, world, setup, repos
    <3> QED  BY <2>3, <3>1, ReturnMarked
  <2> QED  BY <1>4, <2>2, <2>3 DEF NothingListed
<1>5. CASE NothingNeeded
  <2>1. pc = "sift" /\ listed # {} /\ Needed = {} /\ Gone = {} /\ Safe(cur)
        BY <1>1, <1>5 DEF NothingNeeded, Begun
  <2>2. /\ Covered(CrtMaxMark) /\ cur <= clock
        /\ CrtMaxMark <= clock \/ CrtMaxMark = cur + 1
        BY <2>1, CrtMaxMarkCovered
  <2>3. \A x \in listed, k \in targets : ~ x.gone /\ tgt[k][x.trove] # "absent"
        BY <2>1 DEF Needed, Gone, Lacking
  <2>4. \A x \in listed, k \in targets : x.gone = src[x.trove].gone => Mirrored(k, x.trove)
        BY <2>3 DEF Mirrored
  <2>5. Safe(CrtMaxMark)
        BY <1>1, <2>1, <2>2, <2>4, SafeBelow
  <2> QED  BY <1>3, <1>5, <2>1, <2>2, <2>5 DEF NothingNeeded
<1> QED  BY <1>2, <1>4, <1>5

\* The bundles: what the list says holds on, and nothing comes to be missing.
LEMMA BundleMarked ==
    ASSUME MInv, SplitByTarget \/ NextChunk \/ CommitBundle
    PROVE  Marked'
<1>1. /\ PInv /\ Passed /\ Begun /\ Listed /\ Aims
      BY DEF MInv, Marked
<1>2. /\ UNCHANGED <<world, setup, mark>> /\ pc \in {"sift", "chunk"}
      /\ \/ pc' = "chunk" /\ UNCHANGED <<cur, listed>>
         \/ Stop
      /\ UNCHANGED <<src, tgt>> \/ CommitBundle
  <2>1. CASE SplitByTarget \/ NextChunk
        BY <2>1 DEF SplitByTarget, NextChunk, repos, world
  <2>2. CASE CommitBundle
        BY <2>2 DEF CommitBundle, Parallel
  <2> QED  BY <2>1, <2>2
<1>3. UNCHANGED <<clock, src, missed, targets, mark>>
      BY <1>2 DEF world, setup
<1>4. \A k \in targets, t \in Match : Mirrored(k, t) => Mirrored(k, t)'
      BY <1>1, <1>2, Kept
<1>5. Passed'
  <2>1. \A k \in targets, t \in Match \ missed : Stamp(t) > 0 /\ Under(t) => Mirrored(k, t)
        BY <1>1, <1>2 DEF Passed
  <2> QED  BY <1>3, <1>4, <2>1 DEF Passed, Under, Stamp
<1>6. CASE Stop
      BY <1>5, <1>6, ReturnMarked
<1>7. CASE pc' = "chunk" /\ UNCHANGED <<cur, listed>>
  <2>1. Safe(cur) /\ \A k \in targets : mark[k] = cur
        BY <1>1, <1>2 DEF Begun
  <2>2. Safe(cur)'
        BY <1>3, <1>4, <1>7, <2>1 DEF Safe, Stamp
  <2>3. Begun'
        BY <1>3, <1>7, <2>1, <2>2 DEF Begun
  <2>4. Listed'
        BY <1>1, <1>2, <1>3, <1>7, SameListed
  <2>5. goal' = 0 \/ (goal' = goal /\ pc = "chunk") \/ (\E x \in listed : goal' = x.mark)
    <3>1. CASE SplitByTarget
          BY <3>1 DEF SplitByTarget
    <3>2. CASE NextChunk
          BY <1>1, <3>2, NextChunkPInv DEF NextChunk
    <3>3. CASE CommitBundle
          BY <1>1, <1>7, <3>3, CommitPInv DEF CommitBundle
    <3> QED  BY <3>1, <3>2, <3>3
  <2>6. \A x \in listed : x.mark \in Int
        BY <1>1, Numbers, BoundsAssumption
  <2>7. Aims'
        BY <1>1, <1>7, <2>5, <2>6 DEF Aims
  <2> QED  BY <1>5, <1>7, <2>3, <2>4, <2>7 DEF Marked, Filtered, Removing, Advances
<1> QED  BY <1>2, <1>6, <1>7

\* The marks are set: to no more than what the list has.
LEMMA FinishMarked ==
    ASSUME MInv, Finish
    PROVE  Marked'
<1>1. /\ PInv /\ Passed /\ Begun /\ Listed /\ Aims
      BY DEF MInv, Marked
<1>2. pc = "chunk" /\ UNCHANGED <<clock, src, missed, targets, setup, world>>
      BY DEF Finish, world, setup
<1>3. \A k \in targets, t \in Match : Mirrored(k, t) => Mirrored(k, t)'
      BY <1>1, Kept
<1>4. listed # {} /\ Safe(cur) /\ \A k \in targets : mark[k] = cur
      BY <1>1, <1>2 DEF PInv, TInv, TRun, Begun
<1>5. Covered(NewMark) /\ cur <= clock
  <2>1. Covered(CrtMaxMark) /\ cur <= clock
        BY <1>2, <1>4, CrtMaxMarkCovered
  <2>2. NewMark = CrtMaxMark \/ (NewMark = goal /\ goal # 0)
        BY <1>1, <1>4, NewMarks DEF PInv
  <2>3. CASE NewMark = goal /\ goal # 0
    <3>1. PICK x \in listed : goal <= x.mark
          BY <1>1, <1>2, <2>3 DEF Aims
    <3>2. Covered(x.mark) /\ x.mark \in Int /\ goal \in Int
          BY <1>1, <1>2, <3>1, Numbers, BoundsAssumption DEF Listed
    <3>3. \A t \in Match : Stamp(t) \in Int
          BY <1>1, Numbers
    <3>4. Covered(goal)
          BY <3>1, <3>2, <3>3 DEF Covered
    <3> QED  BY <2>1, <2>3, <3>4
  <2> QED  BY <2>1, <2>2, <2>3
<1>6. CASE Stop
  <2>1. PICK k \in targets : mark'[k] = mark[k]
    <3>1. pc' # "remove"
          BY <1>6 DEF Stop, Return
    <3> QED  BY <1>1, <3>1, FinishPInv
  <2>2. Safe(mark'[k])
        BY <1>4, <2>1
  <2>3. Passed'
        BY <1>2, <1>3, <2>2, OneMark
  <2> QED  BY <1>6, <2>3, ReturnMarked
<1>7. CASE /\ pc' = "remove" /\ rest' = targets /\ UNCHANGED <<cur, listed, goal>>
           /\ \A k \in targets : mark'[k] = NewMark
           /\ \A k \in targets, t \in Trove : tgt'[k][t] # "hidden"
  <2>1. Safe(cur)'
        BY <1>2, <1>3, <1>4, <1>7 DEF Safe, Stamp
  <2>2. Begun' /\ Passed'
    <3> HIDE DEF NewMark
    <3> QED  BY <1>2, <1>5, <1>7, <2>1 DEF Begun, Passed
  <2>3. Listed'
        BY <1>1, <1>2, <1>7, SameListed
  <2>4. \A j \in targets : Covered(mark[j])'
    <3> HIDE DEF NewMark
    <3> QED  BY <1>2, <1>5, <1>7 DEF Covered, Stamp
  <2>5. ASSUME NEW x \in listed, NEW k \in targets, ~ x.gone PROVE tgt'[k][x.trove] # "absent"
    <3>1. k \in Target /\ x.trove \in Trove
          BY <1>1, Numbers
    <3> QED  BY <1>1, <2>5, <3>1, FinishPInv
  <2>6. Removing'
        BY <1>2, <1>7, <2>4, <2>5 DEF Removing
  <2> QED  BY <1>7, <2>2, <2>3, <2>6 DEF Marked, Filtered, Aims, Advances
<1> QED  BY <1>1, <1>6, <1>7, FinishPInv

\* The removals.
LEMMA RemoveMarked ==
    ASSUME MInv, MirrorRemoved
    PROVE  Marked'
<1>1. /\ PInv /\ Begun /\ Listed /\ Removing
      BY DEF MInv, Marked
<1>2. PICK m \in rest :
         /\ tgt' = [tgt EXCEPT ![m] = [u \in Trove |->
                       IF u \in {v \in Names(Gone) : tgt[m][v] = "present"} THEN "removed" ELSE @[u]]]
         /\ rest' = rest \ {m}
      BY DEF MirrorRemoved
<1>3. /\ pc = "remove" /\ pc' = "remove"
      /\ UNCHANGED <<clock, src, missed, targets, mark, cur, listed, goal>>
      BY DEF MirrorRemoved, world, setup
<1>4. /\ m \in Target /\ targets \subseteq Target /\ TRepos
      /\ \A x \in listed : x.trove \in Trove
      BY <1>1, Numbers DEF PInv, TInv, TRun
<1>5. \A k \in targets, t \in Match : Mirrored(k, t) => Mirrored(k, t)'
      BY <1>1, Kept
<1>6. Safe(cur)'
  <2>1. Safe(cur)
        BY <1>1, <1>3 DEF Begun
  <2> QED  BY <1>3, <1>5, <2>1 DEF Safe, Stamp
<1>7. Listed'
      BY <1>1, <1>3, SameListed
<1>8. Removing'
  <2>1. \A k \in Target, t \in Trove : tgt'[k][t] \in {tgt[k][t], "removed"}
        BY <1>2, <1>4 DEF TRepos
  <2>2. \A t \in Names(Gone) : t \in Trove => tgt'[m][t] # "present"
        BY <1>2, <1>4 DEF TRepos
  <2>3. ASSUME NEW x \in listed, NEW k \in targets
        PROVE  IF x.gone THEN k \in rest' \/ tgt'[k][x.trove] # "present"
               ELSE tgt'[k][x.trove] # "absent"
    <3>1. IF x.gone THEN k \in rest \/ tgt[k][x.trove] # "present"
          ELSE tgt[k][x.trove] # "absent"
          BY <1>1, <1>3 DEF Removing
    <3>2. tgt'[k][x.trove] \in {tgt[k][x.trove], "removed"}
          BY <1>4, <2>1
    <3>3. x.gone /\ k = m => tgt'[k][x.trove] # "present"
          BY <1>4, <2>2 DEF Names, Gone
    <3> QED  BY <1>2, <3>1, <3>2, <3>3
  <2>4. \A k \in targets, t \in Trove : tgt'[k][t] # "hidden"
    <3>1. \A k \in targets, t \in Trove : tgt[k][t] # "hidden"
          BY <1>1, <1>3 DEF Removing
    <3> QED  BY <1>4, <2>1, <3>1
  <2>5. \A j \in targets : Covered(mark[j])'
        BY <1>1, <1>3 DEF Removing, Covered, Stamp
  <2> QED  BY <1>3, <2>3, <2>4, <2>5 DEF Removing
<1>9. Begun'
      BY <1>1, <1>3, <1>6 DEF Begun
<1> QED  BY <1>3, <1>7, <1>8, <1>9 DEF Marked, Passed, Filtered, Aims, Advances

\* The end of a pass.
LEMMA EndMarked ==
    ASSUME MInv, Done \/ Advance
    PROVE  Marked'
<1>1. /\ PInv /\ Passed /\ Begun /\ Listed /\ Removing /\ Advances
      BY DEF MInv, Marked
<1>2. CASE Done
  <2>1. /\ UNCHANGED <<clock, src, missed, targets, tgt, mark>>
        /\ pc = "remove" /\ rest = {}
        /\ Return("pass") \/ (pc' = "advance" /\ goal' = CrtMaxMark /\ cur' = cur)
        BY <1>2 DEF Done, Again, world, setup, repos
  <2>2. Safe(cur) /\ listed # {} /\ \A j, k \in targets : mark[j] = mark[k]
        BY <1>1, <2>1 DEF Begun, PInv, TInv, TRun
  <2>3. \A x \in listed, k \in targets : x.gone = src[x.trove].gone => Mirrored(k, x.trove)
    <3> SUFFICES ASSUME NEW x \in listed, NEW k \in targets, x.gone = src[x.trove].gone
                 PROVE  Mirrored(k, x.trove)
        OBVIOUS
    <3>1. x.trove \in Trove
          BY <1>1, Numbers
    <3>2. /\ tgt[k][x.trove] # "hidden"
          /\ IF x.gone THEN tgt[k][x.trove] # "present" ELSE tgt[k][x.trove] # "absent"
          BY <1>1, <2>1, <3>1 DEF Removing
    <3> QED  BY <3>2 DEF Mirrored
  <2>4. \A j \in targets : Safe(mark[j])
    <3> SUFFICES ASSUME NEW j \in targets PROVE Safe(mark[j])
        OBVIOUS
    <3>1. Covered(mark[j])
          BY <1>1, <2>1 DEF Removing
    <3> QED  BY <1>1, <2>2, <2>3, <3>1, SafeBelow
  <2>5. Passed'
    <3>1. PICK j \in targets : TRUE
          BY <1>1, Numbers
    <3>2. Safe(mark'[j])
          BY <2>1, <2>4
    <3> QED  BY <2>1, <3>2, OneMark DEF Mirrored
  <2>6. CASE Return("pass")
        BY <2>5, <2>6, ReturnMarked
  <2>7. CASE pc' = "advance" /\ goal' = CrtMaxMark /\ cur' = cur
    <3>1. /\ Covered(CrtMaxMark) /\ cur <= clock
          /\ CrtMaxMark <= clock \/ CrtMaxMark = cur + 1
          BY <2>1, <2>2, CrtMaxMarkCovered
    <3>2. Safe(CrtMaxMark)
          BY <1>1, <2>2, <2>3, <3>1, SafeBelow
    <3> HIDE DEF CrtMaxMark
    <3>3. Begun'
          BY <2>1, <2>2, <2>7, <3>1 DEF Begun, Safe, Mirrored, Stamp
    <3>4. Safe(goal)' /\ (goal <= clock \/ goal = cur + 1)'
          BY <2>1, <2>7, <3>1, <3>2 DEF Safe, Mirrored, Stamp
    <3>5. \A j \in targets : Safe(mark[j])'
          BY <2>1, <2>4 DEF Safe, Mirrored, Stamp
    <3>6. Advances'
          BY <2>1, <3>4, <3>5 DEF Advances
    <3> QED  BY <2>5, <2>7, <3>3, <3>6 DEF Marked, Listed, Filtered, Aims, Removing
  <2> QED  BY <2>1, <2>6, <2>7
<1>3. CASE Advance
  <2>1. UNCHANGED <<src, missed, targets, tgt>> /\ pc = "advance" /\ (Stop \/ Return("pass"))
        BY <1>3 DEF Advance, Parallel, world, setup
  <2>2. \A k \in targets : mark'[k] \in {goal, mark[k]}
        BY <1>1, <1>3, Numbers DEF Advance
  <2>3. Passed'
    <3>1. PICK j \in targets : TRUE
          BY <1>1, Numbers
    <3>2. Safe(mark'[j])
          BY <1>1, <2>1, <2>2 DEF Advances
    <3> QED  BY <2>1, <3>2, OneMark DEF Mirrored
  <2> QED  BY <2>1, <2>3, ReturnMarked
<1> QED  BY <1>2, <1>3

LEMMA InitMInv == Init => MInv
<1> SUFFICES ASSUME Init PROVE MInv
    OBVIOUS
<1>1. PInv
      BY InitPInv
<1>2. pc = "idle"
      BY DEF Init
<1>3. \A t \in Trove : Stamp(t) = 0
      BY DEF Init, Absent, Stamp
<1>4. Passed
      BY <1>1, <1>3, Numbers DEF Passed
<1> QED  BY <1>1, <1>2, <1>4
         DEF MInv, Marked, Begun, Listed, Filtered, Aims, Removing, Advances

LEMMA NextMInv == MInv /\ [Next]_vars => MInv'
<1> SUFFICES ASSUME MInv, [Next]_vars PROVE MInv'
    OBVIOUS
<1>1. PInv'
      BY NextPInv DEF MInv
<1>2. Marked'
      BY WorldMarked, ChangeMarked, PassMarked, ListMarked, BundleMarked, FinishMarked,
         RemoveMarked, EndMarked
      DEF Next, Work
<1> QED  BY <1>1, <1>2 DEF MInv

LEMMA MInvSkipped == MInv => NothingSkipped
<1> SUFFICES ASSUME MInv, NEW k \in targets, NEW t \in Match \ missed,
                    Stamp(t) > 0, Stamp(t) < Min({mark[j] : j \in targets})
             PROVE  Mirrored(k, t) \/ (pc = "remove" /\ src[t].gone)
    BY DEF NothingSkipped
<1>1. PInv /\ Passed
      BY DEF MInv, Marked
<1> DEFINE S == {mark[j] : j \in targets}
<1>2. \A j \in targets : mark[j] \in S /\ mark[j] \in -1..(MaxClock + 1)
      BY <1>1 DEF PInv, TInv, TRepos, TWorld
<1>3. S \in SUBSET Int /\ S # {} /\ -1 \in Int /\ \A m \in S : -1 <= m
      BY <1>1, <1>2, Numbers, BoundsAssumption
<1>4. Stamp(t) \in Int /\ \A j \in targets : mark[j] \in Int
      BY <1>1, Numbers
<1>5. Under(t)
  <2>1. Stamp(t) < Min(S)
        OBVIOUS
  <2> HIDE DEF S
  <2>2. Min(S) \in S /\ \A m \in S : Min(S) <= m
        BY <1>3, MinOf
  <2>3. Min(S) \in Int
        BY <1>3, <2>2
  <2> QED  BY <1>2, <1>4, <2>1, <2>2, <2>3 DEF Under
<1>6. CASE pc # "remove"
      BY <1>1, <1>5, <1>6 DEF Passed
<1>7. CASE pc = "remove"
      BY <1>5, <1>7, RemovalsLeft
<1> QED  BY <1>6, <1>7

\* The lowest mark has passed no trove, and between passes no removal, that a
\* target does not have, whatever happens at the source while the mirror runs
\* and whichever call fails; but for those in "missed", whose last change came
\* in a second that the marks, or the pass at hand, had already gone past, or
\* whose removal was still to be made when a run died with its marks set.
THEOREM NoneSkipped == Spec => []NothingSkipped
<1>1. MInv /\ [Next]_vars => MInv'
      BY NextMInv
<1> QED  BY <1>1, InitMInv, MInvSkipped, PTL DEF Spec
=============================================================================
