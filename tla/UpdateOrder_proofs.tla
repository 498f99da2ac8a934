------------------------- MODULE UpdateOrder_proofs -------------------------
(* Proofs about the order of the jobs of an update.                        *)
EXTENDS UpdateOrder, FiniteSetTheorems, SequenceTheorems, NaturalsInduction, TLAPS

-----------------------------------------------------------------------------
(* Sequences as orders.                                                    *)

\* x comes before y in s.
Before(s, x, y) == \E i, j \in DOMAIN s : i < j /\ s[i] = x /\ s[j] = y

Distinct(s) == \A x \in ToSet(s) : ~ Before(s, x, x)

LEMMA Members ==
    ASSUME NEW S, NEW s \in Seq(S)
    PROVE  ToSet(s) \subseteq S /\ DOMAIN s = 1..Len(s) /\ Len(s) \in Nat
BY DEF ToSet

LEMMA Joined ==
    ASSUME NEW S, NEW s \in Seq(S), NEW t \in Seq(S)
    PROVE  /\ s \o t \in Seq(S)
           /\ ToSet(s \o t) = ToSet(s) \cup ToSet(t)
           /\ \A x, y : Before(s \o t, x, y) <=>
                 \/ Before(s, x, y) \/ Before(t, x, y)
                 \/ x \in ToSet(s) /\ y \in ToSet(t)
<1> DEFINE u == s \o t
           m == Len(s)
           n == Len(t)
<1>1. /\ u \in Seq(S) /\ Len(u) = m + n /\ m \in Nat /\ n \in Nat
      /\ DOMAIN s = 1..m /\ DOMAIN t = 1..n /\ DOMAIN u = 1..(m + n)
      OBVIOUS
<1>2. /\ \A i \in 1..m : i \in 1..(m + n) /\ u[i] = s[i]
      /\ \A i \in 1..n : m + i \in 1..(m + n) /\ u[m + i] = t[i]
      OBVIOUS
<1>3. \A i \in 1..(m + n) : \/ i \in 1..m
                            \/ i > m /\ i - m \in 1..n /\ u[i] = t[i - m]
      OBVIOUS
<1> HIDE DEF u, m, n
<1>4. ToSet(u) = ToSet(s) \cup ToSet(t)
  <2>1. ASSUME NEW x \in ToSet(u) PROVE x \in ToSet(s) \cup ToSet(t)
        BY <1>1, <1>2, <1>3, <2>1 DEF ToSet
  <2>2. ASSUME NEW x \in ToSet(s) \cup ToSet(t) PROVE x \in ToSet(u)
        BY <1>1, <1>2, <2>2 DEF ToSet
  <2> QED  BY <2>1, <2>2
<1>5. ASSUME NEW x, NEW y, Before(u, x, y)
      PROVE  \/ Before(s, x, y) \/ Before(t, x, y)
             \/ x \in ToSet(s) /\ y \in ToSet(t)
  <2>1. PICK i \in 1..(m + n), j \in 1..(m + n) : i < j /\ u[i] = x /\ u[j] = y
        BY <1>1, <1>5 DEF Before
  <2>2. CASE j \in 1..m
    <3>1. i \in 1..m
          BY <1>1, <2>1, <2>2
    <3> QED  BY <1>1, <1>2, <2>1, <2>2, <3>1 DEF Before
  <2>3. CASE j > m /\ j - m \in 1..n /\ i \in 1..m
    <3>1. s[i] = x /\ t[j - m] = y
          BY <1>1, <1>2, <1>3, <2>1, <2>3
    <3>2. x \in ToSet(s)
          BY <1>1, <2>3, <3>1 DEF ToSet
    <3>3. y \in ToSet(t)
          BY <1>1, <2>3, <3>1 DEF ToSet
    <3> QED  BY <3>2, <3>3
  <2>4. CASE i > m /\ i - m \in 1..n /\ j > m /\ j - m \in 1..n
    <3>1. i - m < j - m /\ t[i - m] = x /\ t[j - m] = y
          BY <1>1, <1>3, <2>1, <2>4
    <3> QED  BY <1>1, <2>4, <3>1 DEF Before
  <2> QED  BY <1>1, <1>3, <2>1, <2>2, <2>3, <2>4
<1>6. ASSUME NEW x, NEW y, Before(s, x, y) PROVE Before(u, x, y)
      BY <1>1, <1>2, <1>6 DEF Before
<1>7. ASSUME NEW x, NEW y, Before(t, x, y) PROVE Before(u, x, y)
  <2>1. PICK i \in 1..n, j \in 1..n : i < j /\ t[i] = x /\ t[j] = y
        BY <1>1, <1>7 DEF Before
  <2>2. m + i < m + j /\ u[m + i] = x /\ u[m + j] = y
        BY <1>1, <1>2, <2>1
  <2> QED  BY <1>1, <1>2, <2>2 DEF Before
<1>8. ASSUME NEW x \in ToSet(s), NEW y \in ToSet(t) PROVE Before(u, x, y)
  <2>1. PICK i \in 1..m, j \in 1..n : s[i] = x /\ t[j] = y
        BY <1>1 DEF ToSet
  <2>2. i < m + j /\ u[i] = x /\ u[m + j] = y
        BY <1>1, <1>2, <2>1
  <2> QED  BY <1>1, <1>2, <2>2 DEF Before
<1> QED  BY <1>1, <1>4, <1>5, <1>6, <1>7, <1>8 DEF u

LEMMA Single ==
    ASSUME NEW S, NEW e \in S
    PROVE  /\ <<e>> \in Seq(S) /\ ToSet(<<e>>) = {e}
           /\ \A x, y : ~ Before(<<e>>, x, y)
BY DEF ToSet, Before

LEMMA Appended ==
    ASSUME NEW S, NEW s \in Seq(S), NEW e \in S
    PROVE  /\ Append(s, e) \in Seq(S)
           /\ ToSet(Append(s, e)) = ToSet(s) \cup {e}
           /\ \A x, y : Before(Append(s, e), x, y) <=>
                 Before(s, x, y) \/ (x \in ToSet(s) /\ y = e)
<1> DEFINE t == <<e>>
<1>1. Append(s, e) = s \o t
      BY AppendIsConcat
<1>2. t \in Seq(S) /\ ToSet(t) = {e} /\ \A x, y : ~ Before(t, x, y)
      BY Single
<1> HIDE DEF t
<1>3. /\ s \o t \in Seq(S)
      /\ ToSet(s \o t) = ToSet(s) \cup ToSet(t)
      /\ \A x, y : Before(s \o t, x, y) <=>
                 \/ Before(s, x, y) \/ Before(t, x, y)
                 \/ x \in ToSet(s) /\ y \in ToSet(t)
      BY <1>2, Joined
<1> QED  BY <1>1, <1>2, <1>3

LEMMA Popped ==
    ASSUME NEW S, NEW s \in Seq(S), s # <<>>
    PROVE  /\ s[1] \in S /\ s[1] = Head(s) /\ Tail(s) \in Seq(S)
           /\ ToSet(s) = ToSet(Tail(s)) \cup {s[1]}
           /\ \A x, y : Before(s, x, y) <=>
                 Before(Tail(s), x, y) \/ (x = s[1] /\ y \in ToSet(Tail(s)))
<1>1. s[1] \in S /\ s[1] = Head(s) /\ Tail(s) \in Seq(S) /\ s = <<s[1]>> \o Tail(s)
      OBVIOUS
<1>2. <<s[1]>> \in Seq(S) /\ ToSet(<<s[1]>>) = {s[1]} /\ \A x, y : ~ Before(<<s[1]>>, x, y)
      BY <1>1, Single
<1> DEFINE h == <<s[1]>>
           t == Tail(s)
<1>3. /\ ToSet(h \o t) = ToSet(h) \cup ToSet(t)
      /\ \A x, y : Before(h \o t, x, y) <=>
                 \/ Before(h, x, y) \/ Before(t, x, y)
                 \/ x \in ToSet(h) /\ y \in ToSet(t)
      BY <1>1, <1>2, Joined
<1> HIDE DEF h, t
<1>4. ToSet(h) = {s[1]} /\ (\A x, y : ~ Before(h, x, y)) /\ s = h \o t
      BY <1>1, <1>2 DEF h, t
<1>5. ToSet(s) = ToSet(t) \cup {s[1]}
      BY <1>3, <1>4
<1>6. \A x, y : Before(s, x, y) <=> Before(t, x, y) \/ (x = s[1] /\ y \in ToSet(t))
      BY <1>3, <1>4
<1> QED  BY <1>1, <1>5, <1>6 DEF t

LEMMA Reversed ==
    ASSUME NEW S, NEW s \in Seq(S)
    PROVE  /\ Reverse(s) \in Seq(S) /\ Len(Reverse(s)) = Len(s)
           /\ ToSet(Reverse(s)) = ToSet(s)
           /\ \A x, y : Before(Reverse(s), x, y) <=> Before(s, y, x)
<1> DEFINE r == Reverse(s)
           n == Len(s)
<1>1. n \in Nat /\ DOMAIN s = 1..n /\ r = [i \in 1..n |-> s[(n - i) + 1]]
      BY DEF Reverse
<1>2. \A i \in 1..n : (n - i) + 1 \in 1..n /\ s[i] \in S
      OBVIOUS
<1>3. r \in Seq(S) /\ Len(r) = n /\ DOMAIN r = 1..n
      BY <1>1, <1>2
<1>4. \A i \in 1..n : r[i] = s[(n - i) + 1] /\ r[(n - i) + 1] = s[i]
      BY <1>1, <1>2
<1> HIDE DEF r, n
<1>5. ToSet(r) = ToSet(s)
      BY <1>1, <1>2, <1>3, <1>4 DEF ToSet
<1>6. ASSUME NEW x, NEW y, Before(r, x, y) PROVE Before(s, y, x)
  <2>1. PICK i \in 1..n, j \in 1..n : i < j /\ r[i] = x /\ r[j] = y
        BY <1>3, <1>6 DEF Before
  <2>2. (n - j) + 1 < (n - i) + 1
        BY <1>1, <2>1
  <2> QED  BY <1>1, <1>2, <1>4, <2>1, <2>2 DEF Before
<1>7. ASSUME NEW x, NEW y, Before(s, y, x) PROVE Before(r, x, y)
  <2>1. PICK i \in 1..n, j \in 1..n : i < j /\ s[i] = y /\ s[j] = x
        BY <1>1, <1>7 DEF Before
  <2>2. (n - j) + 1 < (n - i) + 1
        BY <1>1, <2>1
  <2>3. /\ r[(n - j) + 1] = x /\ r[(n - i) + 1] = y
        /\ (n - j) + 1 \in DOMAIN r /\ (n - i) + 1 \in DOMAIN r
        BY <1>2, <1>3, <1>4, <2>1
  <2> QED  BY <2>2, <2>3 DEF Before
<1> QED  BY <1>3, <1>5, <1>6, <1>7 DEF r, n

\* Of two members one comes before the other.
LEMMA Total ==
    ASSUME NEW S, NEW s \in Seq(S), NEW x \in ToSet(s), NEW y \in ToSet(s), x # y
    PROVE  Before(s, x, y) \/ Before(s, y, x)
<1>1. PICK i \in 1..Len(s), j \in 1..Len(s) : s[i] = x /\ s[j] = y
      BY Members DEF ToSet
<1>2. i \in Nat /\ j \in Nat /\ DOMAIN s = 1..Len(s)
      BY Members
<1>3. i < j \/ j < i
      BY <1>1, <1>2
<1> QED  BY <1>1, <1>2, <1>3 DEF Before

LEMMA Strict ==
    ASSUME NEW S, NEW s \in Seq(S), Distinct(s)
    PROVE  /\ \A x, y : Before(s, x, y) => /\ ~ Before(s, y, x) /\ x # y
                                           /\ x \in ToSet(s) /\ y \in ToSet(s)
           /\ \A x, y, z : Before(s, x, y) /\ Before(s, y, z) => Before(s, x, z)
<1>1. DOMAIN s = 1..Len(s) /\ \A i \in DOMAIN s : i \in Nat
      BY Members
<1>2. \A i, j \in DOMAIN s : s[i] = s[j] => i = j
  <2>1. SUFFICES ASSUME NEW i \in DOMAIN s, NEW j \in DOMAIN s, s[i] = s[j], i # j PROVE FALSE
        OBVIOUS
  <2>2. i < j \/ j < i
        BY <1>1, <2>1
  <2> QED  BY <2>1, <2>2 DEF Distinct, Before, ToSet
<1>3. ASSUME NEW x, NEW y, NEW z, Before(s, x, y), Before(s, y, z) PROVE Before(s, x, z)
  <2>1. PICK i \in DOMAIN s, j \in DOMAIN s : i < j /\ s[i] = x /\ s[j] = y
        BY <1>3 DEF Before
  <2>2. PICK k \in DOMAIN s, l \in DOMAIN s : k < l /\ s[k] = y /\ s[l] = z
        BY <1>3 DEF Before
  <2>3. i < l
        BY <1>1, <1>2, <2>1, <2>2
  <2> QED  BY <2>1, <2>2, <2>3 DEF Before
<1>4. ASSUME NEW x, NEW y, Before(s, x, y) PROVE x \in ToSet(s) /\ y \in ToSet(s)
      BY <1>4 DEF Before, ToSet
<1>5. ASSUME NEW x, Before(s, x, x) PROVE FALSE
      BY <1>4, <1>5 DEF Distinct
<1>6. ASSUME NEW x, NEW y, Before(s, x, y) PROVE ~ Before(s, y, x) /\ x # y
      BY <1>3, <1>5, <1>6
<1> QED  BY <1>3, <1>4, <1>6

LEMMA Sequenced ==
    ASSUME NEW S, IsFiniteSet(S), NEW s \in SetToSeqs(S)
    PROVE  s \in Seq(S) /\ Distinct(s) /\ ToSet(s) = S /\ Len(s) = Cardinality(S)
<1> DEFINE n == Cardinality(S)
<1>1. n \in Nat /\ IsFiniteSet(1..n) /\ Cardinality(1..n) = n
  <2>1. n \in Nat
        BY FS_CardinalityType
  <2>2. 1 \in Int /\ n \in Int
        BY <2>1
  <2>3. IsFiniteSet(1..n) /\ Cardinality(1..n) = IF 1 > n THEN 0 ELSE n - 1 + 1
        BY <2>2, FS_Interval
  <2> QED  BY <2>1, <2>3
<1>2. s \in [1..n -> S] /\ \A i, j \in 1..n : i # j => s[i] # s[j]
      BY DEF SetToSeqs
<1> HIDE DEF n
<1>3. s \in Seq(S) /\ Len(s) = n /\ DOMAIN s = 1..n
      BY <1>1, <1>2
<1>4. s \in Injection(1..n, S)
      BY <1>2 DEF Injection, IsInjective
<1>5. s \in Surjection(1..n, S)
      BY <1>1, <1>4, FS_Injection DEF n
<1>6. ToSet(s) = S
      BY <1>2, <1>3, <1>5 DEF ToSet, Surjection
<1>7. Distinct(s)
      BY <1>1, <1>2, <1>3 DEF Distinct, Before
<1> QED  BY <1>3, <1>6, <1>7 DEF n
-----------------------------------------------------------------------------
(* The invariants of the walks.                                            *)

\* What is walked over.
Walk == ToSet(rank)

\* y is in every set of nodes that has x and, with a node, its children.
Leads(x, y) ==
    \A S \in SUBSET Walk :
        x \in S /\ (\A e \in walked : e[1] \in S => e[2] \in S) => y \in S

\* n has been begun and is still to finish.
Active(n) == n \in ToSet(begun) /\ n \notin ToSet(done)

WalkTypes ==
    /\ walked \subseteq Walk \X Walk
    /\ rank \in Seq(Walk) /\ Distinct(rank)
    /\ todo \in Seq(Walk) /\ \A x, y \in Walk : Before(todo, x, y) => Before(rank, x, y)
    /\ stack \in Seq(Walk \X BOOLEAN)
    /\ begun \in Seq(Walk) /\ Distinct(begun)
    /\ done \in Seq(Walk) /\ Distinct(done)
    /\ ToSet(done) \subseteq ToSet(begun)

\* No node is forgotten.
Kept == \A x \in Walk : \/ x \in ToSet(begun) \/ x \in ToSet(todo)
                        \/ <<x, FALSE>> \in ToSet(stack)

\* What is to finish is on the stack, what began last above.
Finishing == \A x \in Walk : <<x, TRUE>> \in ToSet(stack) <=> Active(x)

Nested == \A x, y \in Walk :
    Before(stack, <<y, TRUE>>, <<x, TRUE>>) => Before(begun, x, y)

\* A node finishes after its children have begun ...
Pending == \A e \in walked :
    <<e[1], TRUE>> \in ToSet(stack) =>
        e[2] \in ToSet(begun) \/ Before(stack, <<e[2], FALSE>>, <<e[1], TRUE>>)

\* ... and these began before all that began after it finished.
Finished == \A e \in walked :
    e[1] \in ToSet(done) =>
        /\ e[2] \in ToSet(begun)
        /\ \A r \in ToSet(begun) :
              Before(begun, e[1], r) /\ ~ Before(done, r, e[1]) => Before(begun, e[2], r)

\* What is above a node on the stack, or began before it finished, is reached
\* from it.
Above == \A x, y \in Walk, b \in BOOLEAN :
    Before(stack, <<y, b>>, <<x, TRUE>>) => Leads(x, y)

Descends == \A x, y \in Walk :
    Before(begun, x, y) /\ (x \notin ToSet(done) \/ Before(done, y, x)) => Leads(x, y)

\* The trees: all but the last are finished, and no child is in a later tree.
Forest ==
    /\ trees \in Seq(SUBSET Walk)
    /\ UNION ToSet(trees) = ToSet(begun)
    /\ stack # <<>> => trees # <<>>
    /\ \A i, j \in DOMAIN trees : i # j => trees[i] \cap trees[j] = {}
    /\ \A i, j \in DOMAIN trees : i < j => trees[i] \subseteq ToSet(done)
    /\ \A i, j \in DOMAIN trees, e \in walked :
          e[1] \in trees[i] \cap ToSet(done) /\ e[2] \in trees[j] => j <= i

Walks == /\ WalkTypes /\ Kept /\ Finishing /\ Nested /\ Pending /\ Finished
         /\ Above /\ Descends /\ Forest

WalkInv == pc \in Walking => Walks

-----------------------------------------------------------------------------
(* The invariants of the three walks.                                      *)

\* y is in every set of jobs that has x and, with a job, all that come before it
\* and rank no earlier than x.
Pulled(x, y) ==
    \A S \in SUBSET in :
        (/\ x \in S
         /\ \A e \in edges : e[2] \in S /\ (e[1] = x \/ Before(rank, x, e[1])) => e[1] \in S)
        => y \in S

First == pc = "first" => Walk = in /\ walked = edges

\* All of a tree is around r.
Around(i, r) == \A x \in trees[i] : Pulled(r, x) /\ Leads(r, x)

Rooted(r) ==
    /\ Around(Len(trees), r)
    /\ \A x \in in : Before(rank, x, r) => x \in ToSet(begun)
    /\ \A x \in in, b \in BOOLEAN :
          <<x, b>> \in ToSet(stack) => \/ x = r
                                       \/ \E y \in trees[Len(trees)] : <<x, y>> \in edges

Second == pc = "second" =>
    /\ Walk = in /\ walked = {<<e[2], e[1]>> : e \in edges}
    /\ \A x, y \in in : Pulled(x, y) => Reaches(x, y)
    /\ \A i \in DOMAIN trees : \E r \in in : Around(i, r)
    /\ stack # <<>> => \E r \in in : Rooted(r)

\* The strongly connected components.
Components(s) ==
    /\ s \in Seq(SUBSET in) /\ UNION ToSet(s) = in
    /\ \A i, j \in DOMAIN s : \A a \in s[i], b \in s[j] :
          (i = j) <=> (Reaches(a, b) /\ Reaches(b, a))

Third == pc = "third" =>
    /\ Components(steps)
    /\ Walk = DOMAIN steps
    /\ walked = {e \in (DOMAIN steps) \X (DOMAIN steps) :
                   e[1] # e[2] /\ \E a \in steps[e[1]], b \in steps[e[2]] : <<a, b>> \in edges}

\* The edges that no dependency asks for.
Bound == pc \in {"accepted", "ordered"} \cup Walking =>
            /\ Collections \cup Rings \subseteq edges
            /\ plan.final \cap in # {} => \A n \in in \ plan.final : \E e \in edges : e[1] = n

Sorted == Ordered => Components(order) /\ StepsSorted

TInv ==
    /\ plan \in Plans
    /\ in \subseteq Node /\ kept \subseteq Node
    /\ users \in [Dep -> SUBSET Node]
    /\ satisfied \subseteq Dep \cup (Holder \X Dep)
    /\ asked \in [Holder \X Dep -> {"no", "open", "twice"}]
    /\ edges \subseteq in \X in /\ \A e \in edges : e[1] # e[2]
    /\ late \subseteq Node \X Dep
    /\ pc \in {"add", "check", "errors", "accepted", "ordered"} \cup Walking

OInv == TInv /\ WalkInv /\ First /\ Second /\ Third /\ Bound /\ Sorted

-----------------------------------------------------------------------------
(* The walk.                                                               *)

LEMMA Nothing ==
    /\ ToSet(<<>>) = {}
    /\ \A x, y : ~ Before(<<>>, x, y)
    /\ \A S : <<>> \in Seq(S)
BY DEF ToSet, Before

LEMMA InRange ==
    ASSUME NEW S, NEW s \in Seq(S)
    PROVE  s \in Seq(ToSet(s))
<1>1. Len(s) \in Nat /\ DOMAIN s = 1..Len(s) /\ \A i \in 1..Len(s) : s[i] \in ToSet(s)
      BY DEF ToSet
<1> QED  BY <1>1

LEMMA FiniteRange ==
    ASSUME NEW S, NEW s \in Seq(S)
    PROVE  IsFiniteSet(ToSet(s))
<1>1. Len(s) \in Int /\ 1 \in Int
      OBVIOUS
<1>2. IsFiniteSet(1..Len(s))
      BY <1>1, FS_Interval
<1>3. s \in Surjection(1..Len(s), ToSet(s))
      BY DEF Surjection, ToSet
<1> QED  BY <1>2, <1>3, FS_Surjection

LEMMA LeadsOn ==
    ASSUME NEW x \in Walk
    PROVE  /\ Leads(x, x)
           /\ \A y, z \in Walk : <<y, z>> \in walked /\ Leads(x, y) => Leads(x, z)
BY DEF Leads

LEMMA Starts ==
    ASSUME NEW es, NEW nodes, NEW S, nodes \in Seq(S), Distinct(nodes),
           es \subseteq ToSet(nodes) \X ToSet(nodes), Start(es, nodes)
    PROVE  Walks'
<1>1. /\ walked' = es /\ rank' = nodes /\ todo' = nodes /\ stack' = <<>>
      /\ begun' = <<>> /\ done' = <<>> /\ trees' = <<>>
      BY DEF Start
<1>2. nodes \in Seq(ToSet(nodes))
      BY InRange
<1>3. Walk' = ToSet(nodes)
      BY <1>1 DEF Walk
<1>4. Distinct(<<>>)
      BY Nothing DEF Distinct
<1>5. WalkTypes'
      BY <1>1, <1>2, <1>3, <1>4, Nothing DEF WalkTypes
<1>6. Kept'
      BY <1>1, <1>3 DEF Kept
<1>7. Finishing' /\ Nested' /\ Pending' /\ Finished' /\ Above' /\ Descends'
      BY <1>1, Nothing DEF Finishing, Active, Nested, Pending, Finished, Above, Descends
<1>8. Forest'
  <2>1. UNION ToSet(<<>>) = {} /\ DOMAIN <<>> = {}
        BY Nothing DEF ToSet
  <2> QED  BY <1>1, <2>1, Nothing DEF Forest
<1> QED  BY <1>5, <1>6, <1>7, <1>8 DEF Walks

\* Of the invariants only those about todo, the stack and the trees can break.
LEMMA RootWalks ==
    ASSUME Walks, Root
    PROVE  Walks'
<1> USE DEF Walks
<1>1. /\ stack = <<>> /\ todo # <<>> /\ todo' = Tail(todo)
      /\ UNCHANGED <<walked, rank, begun, done>>
      BY DEF Root
<1>2. Walk' = Walk /\ \A x, y : Leads(x, y)' <=> Leads(x, y)
      BY <1>1 DEF Walk, Leads
<1>3. /\ todo[1] \in Walk /\ todo[1] = Head(todo) /\ todo' \in Seq(Walk)
      /\ ToSet(todo) = ToSet(todo') \cup {todo[1]}
      /\ \A x, y : Before(todo', x, y) => Before(todo, x, y)
      BY <1>1, Popped DEF WalkTypes
<1>4. ToSet(stack) = {} /\ (\A x, y : ~ Before(stack, x, y)) /\ \A x \in Walk : ~ Active(x)
      BY <1>1, Nothing DEF Finishing
<1>5. (\A x \in Walk : Active(x)' <=> Active(x)) /\ Finished' /\ Descends'
      BY <1>1, <1>2 DEF Active, Finished, Descends
<1>6. CASE Head(todo) \in ToSet(begun)
  <2>1. UNCHANGED <<stack, trees>>
        BY <1>6 DEF Root
  <2>2. WalkTypes'
        BY <1>1, <1>2, <1>3, <2>1 DEF WalkTypes
  <2>3. Kept'
        BY <1>1, <1>2, <1>3, <1>6, <2>1 DEF Kept
  <2>4. Finishing' /\ Nested' /\ Pending' /\ Above'
        BY <1>1, <1>2, <1>5, <2>1 DEF Finishing, Nested, Pending, Above
  <2>5. Forest'
        BY <1>1, <1>2, <2>1 DEF Forest
  <2> QED  BY <1>5, <2>2, <2>3, <2>4, <2>5
<1>7. CASE Head(todo) \notin ToSet(begun)
  <2> DEFINE h == <<todo[1], FALSE>>
  <2>1. stack' = <<h>> /\ trees' = Append(trees, {})
        BY <1>3, <1>7 DEF Root
  <2>2. /\ <<h>> \in Seq(Walk \X BOOLEAN) /\ ToSet(<<h>>) = {h}
        /\ \A x, y : ~ Before(<<h>>, x, y)
        BY <1>3, Single
  <2>3. WalkTypes'
        BY <1>1, <1>2, <1>3, <2>1, <2>2 DEF WalkTypes
  <2>4. Kept'
        BY <1>1, <1>2, <1>3, <1>4, <2>1, <2>2 DEF Kept
  <2>5. Finishing' /\ Nested' /\ Pending' /\ Above'
    <3>1. \A x : <<x, TRUE>> \notin ToSet(stack')
          BY <2>1, <2>2
    <3>2. \A x, y : ~ Before(stack', x, y)
          BY <2>1, <2>2
    <3> QED  BY <1>2, <1>4, <1>5, <3>1, <3>2 DEF Finishing, Nested, Pending, Above
  <2>6. ToSet(begun) = ToSet(done)
    <3>1. ToSet(begun) \subseteq Walk /\ ToSet(done) \subseteq ToSet(begun)
          BY Members DEF WalkTypes
    <3> QED  BY <1>4, <3>1 DEF Active
  <2>7. Forest'
    <3>1. /\ trees \in Seq(SUBSET Walk) /\ trees' \in Seq(SUBSET Walk) /\ trees' # <<>>
          /\ Len(trees) \in Nat /\ DOMAIN trees = 1..Len(trees)
          /\ DOMAIN trees' = 1..(Len(trees) + 1)
          /\ \A i \in DOMAIN trees : trees'[i] = trees[i]
          /\ trees'[Len(trees) + 1] = {}
      <4>1. trees \in Seq(SUBSET Walk) /\ {} \in SUBSET Walk
            BY DEF Forest
      <4>2. Len(trees) \in Nat /\ DOMAIN trees = 1..Len(trees)
            BY <4>1, Members
      <4>3. /\ trees' \in Seq(SUBSET Walk) /\ trees' # <<>>
            /\ Len(trees') = Len(trees) + 1 /\ \A i \in 1..Len(trees) : trees'[i] = trees[i]
            /\ trees'[Len(trees) + 1] = {}
            BY <2>1, <4>1, AppendProperties
      <4>4. DOMAIN trees' = 1..(Len(trees) + 1)
            BY <4>3, Members
      <4> QED  BY <4>1, <4>2, <4>3, <4>4
    <3>2. \A i \in DOMAIN trees' : \/ i \in DOMAIN trees /\ trees'[i] = trees[i]
                                   \/ i = Len(trees) + 1 /\ trees'[i] = {}
          BY <3>1
    <3>3. \A i \in DOMAIN trees : trees[i] \subseteq ToSet(done)
          BY <2>6 DEF Forest, ToSet
    <3>4. UNION ToSet(trees') = UNION ToSet(trees)
      <4>1. ToSet(trees') = ToSet(trees) \cup {{}}
        <5>1. {} \in SUBSET Walk
              OBVIOUS
        <5> QED  BY <2>1, <3>1, <5>1, Appended
      <4> QED  BY <4>1
    <3>5. \A i, j \in DOMAIN trees' : i # j => trees'[i] \cap trees'[j] = {}
          BY <3>2 DEF Forest
    <3>6. \A i, j \in DOMAIN trees' : i < j => trees'[i] \subseteq ToSet(done)
          BY <3>2, <3>3
    <3>7. \A i, j \in DOMAIN trees', e \in walked :
             e[1] \in trees'[i] \cap ToSet(done) /\ e[2] \in trees'[j] => j <= i
          BY <3>2 DEF Forest
    <3> QED  BY <1>1, <1>2, <3>1, <3>4, <3>5, <3>6, <3>7 DEF Forest
  <2> QED  BY <1>5, <2>3, <2>4, <2>5, <2>7
<1> QED  BY <1>6, <1>7

\* The node on top of the stack.
Top == stack[1][1]

LEMMA OnTop ==
    ASSUME Walks, stack # <<>>
    PROVE  /\ Top \in Walk /\ stack[1] = <<Top, stack[1][2]>> /\ stack[1][2] \in BOOLEAN
           /\ Tail(stack) \in Seq(Walk \X BOOLEAN)
           /\ ToSet(stack) = ToSet(Tail(stack)) \cup {stack[1]}
           /\ \A x, y : Before(stack, x, y) <=>
                 Before(Tail(stack), x, y) \/ (x = stack[1] /\ y \in ToSet(Tail(stack)))
<1>1. stack \in Seq(Walk \X BOOLEAN)
      BY DEF Walks, WalkTypes
<1>2. stack[1] \in Walk \X BOOLEAN
      BY <1>1, Popped
<1> QED  BY <1>1, <1>2, Popped DEF Top

LEMMA FinishWalks ==
    ASSUME Walks, Visit, stack[1][2]
    PROVE  Walks'
<1> USE DEF Walks
<1> DEFINE n == Top
           t == <<n, TRUE>>
           below == Tail(stack)
<1>1. /\ stack # <<>> /\ done' = Append(done, n) /\ stack' = below
      /\ UNCHANGED <<walked, rank, todo, begun, trees>>
      BY DEF Visit, Top
<1>2. Walk' = Walk /\ \A x, y : Leads(x, y)' <=> Leads(x, y)
      BY <1>1 DEF Walk, Leads
<1>3. /\ n \in Walk /\ stack[1] = t /\ below \in Seq(Walk \X BOOLEAN)
      /\ ToSet(stack) = ToSet(below) \cup {t}
      /\ \A x, y : Before(stack, x, y) <=>
                 Before(below, x, y) \/ (x = t /\ y \in ToSet(below))
      BY <1>1, OnTop
<1> HIDE DEF t, below
<1>4. /\ begun \in Seq(Walk) /\ done \in Seq(Walk) /\ Distinct(begun) /\ Distinct(done)
      BY DEF WalkTypes
<1>5. /\ ToSet(begun) \subseteq Walk /\ ToSet(done) \subseteq Walk
      /\ \A x, y : Before(begun, x, y) => ~ Before(begun, y, x) /\ x # y
      BY <1>4, Members, Strict
<1>6. n \in ToSet(begun) /\ n \notin ToSet(done)
      BY <1>3 DEF Finishing, Active, t
<1>7. t \notin ToSet(below)
  <2>1. t \in ToSet(below) => Before(stack, t, t)
        BY <1>3
  <2> QED  BY <1>3, <1>5, <2>1 DEF Nested, t
<1>8. /\ done' \in Seq(Walk) /\ ToSet(done') = ToSet(done) \cup {n}
      /\ \A x, y : Before(done', x, y) <=> Before(done, x, y) \/ (x \in ToSet(done) /\ y = n)
      BY <1>1, <1>3, <1>4, Appended
<1>9. \A x, y : Before(done, x, y) => x \in ToSet(done) /\ y \in ToSet(done)
      BY <1>4, Strict
<1>10. WalkTypes'
  <2>1. Distinct(done')
        BY <1>4, <1>6, <1>8, <1>9 DEF Distinct
  <2> QED  BY <1>1, <1>2, <1>3, <1>6, <1>8, <2>1 DEF WalkTypes
<1>11. Kept'
  <2>1. \A x : <<x, FALSE>> # t
        BY DEF t
  <2> QED  BY <1>1, <1>2, <1>3, <2>1 DEF Kept
<1>12. Finishing'
  <2>1. \A x : <<x, TRUE>> = t <=> x = n
        BY DEF t
  <2> QED  BY <1>1, <1>2, <1>3, <1>6, <1>7, <1>8, <2>1 DEF Finishing, Active
<1>13. Nested' /\ Above'
      BY <1>1, <1>2, <1>3 DEF Nested, Above
<1>14. Pending'
  <2>1. ASSUME NEW e \in walked, <<e[1], TRUE>> \in ToSet(below), e[2] \notin ToSet(begun)
        PROVE  Before(below, <<e[2], FALSE>>, <<e[1], TRUE>>)
    <3>1. <<e[2], FALSE>> # t
          BY DEF t
    <3> QED  BY <1>3, <2>1, <3>1 DEF Pending
  <2> QED  BY <1>1, <2>1 DEF Pending
<1>15. \A r \in ToSet(begun) : Before(begun, n, r) => r \in ToSet(done)
  <2> SUFFICES ASSUME NEW r \in ToSet(begun), Before(begun, n, r), r \notin ToSet(done)
               PROVE  FALSE
        OBVIOUS
  <2>1. <<r, TRUE>> \in ToSet(stack) /\ r \in Walk
        BY <1>5 DEF Finishing, Active
  <2>2. <<r, TRUE>> # t
        BY <1>5 DEF t
  <2>3. Before(stack, t, <<r, TRUE>>)
        BY <1>3, <2>1, <2>2
  <2> QED  BY <1>3, <1>5, <2>1, <2>3 DEF Nested, t
<1>16. \A e \in walked : e[1] = n => e[2] \in ToSet(begun)
  <2> SUFFICES ASSUME NEW e \in walked, e[1] = n, e[2] \notin ToSet(begun)
               PROVE  FALSE
        OBVIOUS
  <2>1. Before(stack, <<e[2], FALSE>>, t)
        BY <1>3 DEF Pending, t
  <2>2. <<e[2], FALSE>> # t
        BY DEF t
  <2>3. Before(below, <<e[2], FALSE>>, t)
        BY <1>3, <2>1, <2>2
  <2>4. t \in ToSet(below)
        BY <2>3 DEF Before, ToSet
  <2> QED  BY <1>7, <2>4
<1>17. Finished'
  <2>1. ASSUME NEW e \in walked, e[1] \in ToSet(done'),
               NEW r \in ToSet(begun), Before(begun, e[1], r), ~ Before(done', r, e[1])
        PROVE  Before(begun, e[2], r)
    <3>1. e[1] # n
          BY <1>8, <1>15, <2>1
    <3> QED  BY <1>8, <2>1, <3>1 DEF Finished
  <2>2. \A e \in walked : e[1] \in ToSet(done') => e[2] \in ToSet(begun)
        BY <1>8, <1>16 DEF Finished
  <2> QED  BY <1>1, <2>1, <2>2 DEF Finished
<1>18. Descends'
  <2>1. ASSUME NEW x \in Walk, NEW y \in Walk, Before(begun, x, y),
               x \notin ToSet(done') \/ Before(done', y, x)
        PROVE  Leads(x, y)
        BY <1>6, <1>8, <2>1 DEF Descends
  <2> QED  BY <1>1, <1>2, <2>1 DEF Descends
<1>19. Forest'
  <2>1. \A i, j \in DOMAIN trees, e \in walked :
          e[1] \in trees[i] \cap ToSet(done') /\ e[2] \in trees[j] => j <= i
    <3> SUFFICES ASSUME NEW i \in DOMAIN trees, NEW j \in DOMAIN trees, NEW e \in walked,
                        n \in trees[i], e[1] = n, e[2] \in trees[j]
                 PROVE  j <= i
          BY <1>8 DEF Forest
    <3>1. ~ (i < j)
          BY <1>6 DEF Forest
    <3>2. i \in Nat /\ j \in Nat
          BY Members DEF Forest
    <3> QED  BY <3>1, <3>2
  <2>2. stack' # <<>> => trees # <<>>
        BY <1>1 DEF Forest
  <2> QED  BY <1>1, <1>2, <1>8, <2>1, <2>2 DEF Forest
<1> QED  BY <1>10, <1>11, <1>12, <1>13, <1>14, <1>17, <1>18, <1>19

LEMMA DropWalks ==
    ASSUME Walks, Visit, ~ stack[1][2], Top \in ToSet(begun)
    PROVE  Walks'
<1> USE DEF Walks
<1> DEFINE n == Top
           t == <<n, FALSE>>
           below == Tail(stack)
<1>1. /\ stack # <<>> /\ stack' = below
      /\ UNCHANGED <<walked, rank, todo, begun, done, trees>>
      BY DEF Visit, Top
<1>2. Walk' = Walk /\ (\A x, y : Leads(x, y)' <=> Leads(x, y)) /\ \A x : Active(x)' <=> Active(x)
      BY <1>1 DEF Walk, Leads, Active
<1>3. /\ n \in Walk /\ stack[1] = t /\ below \in Seq(Walk \X BOOLEAN)
      /\ ToSet(stack) = ToSet(below) \cup {t}
      /\ \A x, y : Before(stack, x, y) <=>
                 Before(below, x, y) \/ (x = t /\ y \in ToSet(below))
      BY <1>1, OnTop
<1> HIDE DEF t, below
<1>4. /\ \A x : <<x, TRUE>> # t
      /\ \A x : <<x, FALSE>> = t => x \in ToSet(begun)
      BY DEF t
<1>5. WalkTypes'
      BY <1>1, <1>2, <1>3 DEF WalkTypes
<1>6. Kept' /\ Finishing'
      BY <1>1, <1>2, <1>3, <1>4 DEF Kept, Finishing
<1>7. Nested' /\ Above'
      BY <1>1, <1>2, <1>3 DEF Nested, Above
<1>8. Pending'
      BY <1>1, <1>3, <1>4 DEF Pending
<1>9. Finished' /\ Descends'
      BY <1>1, <1>2 DEF Finished, Descends
<1>10. Forest'
      BY <1>1, <1>2 DEF Forest
<1> QED  BY <1>5, <1>6, <1>7, <1>8, <1>9, <1>10

\* What a node that begins puts on the stack.
LEMMA Pushes ==
    ASSUME Walks, Visit, ~ stack[1][2], Top \notin ToSet(begun)
    PROVE  /\ stack # <<>> /\ begun' = Append(begun, Top)
           /\ trees' = [trees EXCEPT ![Len(trees)] = @ \cup {Top}]
           /\ UNCHANGED <<walked, rank, todo, done>>
           /\ stack' \in Seq(Walk \X BOOLEAN)
           /\ ToSet(stack') = {<<c, FALSE>> : c \in Unbegun(Top)} \cup {<<Top, TRUE>>}
                              \cup ToSet(Tail(stack))
           /\ \A x, y : y \notin {<<c, FALSE>> : c \in Unbegun(Top)} =>
                 (Before(stack', x, y) <=>
                    \/ Before(Tail(stack), x, y)
                    \/ x \in {<<c, FALSE>> : c \in Unbegun(Top)} /\ y = <<Top, TRUE>>
                    \/ /\ x \in {<<c, FALSE>> : c \in Unbegun(Top)} \cup {<<Top, TRUE>>}
                       /\ y \in ToSet(Tail(stack)))
<1> USE DEF Walks
<1> DEFINE n == Top
           U == Unbegun(n)
           C == {<<c, FALSE>> : c \in U}
           S == Walk \X BOOLEAN
           below == Tail(stack)
           t == <<n, TRUE>>
<1>1. /\ stack # <<>> /\ begun' = Append(begun, n)
      /\ trees' = [trees EXCEPT ![Len(trees)] = @ \cup {n}]
      /\ UNCHANGED <<walked, rank, todo, done>>
      BY DEF Visit, Top
<1>2. PICK cs \in Children(n) : stack' = [i \in DOMAIN cs |-> <<cs[i], FALSE>>] \o <<t>> \o below
      BY DEF Visit, Top
<1>3. n \in Walk /\ below \in Seq(S)
      BY <1>1, OnTop
<1>4. U \subseteq Walk /\ IsFiniteSet(U)
  <2>1. U \subseteq Walk
        BY DEF Unbegun, Walk
  <2>2. IsFiniteSet(ToSet(rank))
        BY FiniteRange DEF WalkTypes
  <2> QED  BY <2>1, <2>2, FS_Subset DEF Walk
<1>5. cs \in Seq(U) /\ ToSet(cs) = U
      BY <1>4, Sequenced DEF Children
<1> DEFINE f == [i \in DOMAIN cs |-> <<cs[i], FALSE>>]
<1>6. /\ f \in Seq(S) /\ DOMAIN f = DOMAIN cs /\ \A i \in DOMAIN cs : f[i] = <<cs[i], FALSE>>
  <2>1. Len(cs) \in Nat /\ DOMAIN cs = 1..Len(cs) /\ \A i \in DOMAIN cs : cs[i] \in U
        BY <1>5
  <2>2. \A i \in DOMAIN cs : <<cs[i], FALSE>> \in S
        BY <1>4, <2>1
  <2> HIDE DEF S
  <2>3. f \in [1..Len(cs) -> S]
        BY <2>1, <2>2
  <2>4. DOMAIN f = DOMAIN cs /\ \A i \in DOMAIN cs : f[i] = <<cs[i], FALSE>>
        OBVIOUS
  <2> HIDE DEF f
  <2>5. f \in Seq(S)
        BY <2>1, <2>3
  <2> QED  BY <2>4, <2>5
<1>7. ToSet(f) = C
  <2>1. ToSet(f) = {<<cs[i], FALSE>> : i \in DOMAIN cs}
        BY <1>6 DEF ToSet
  <2>2. U = {cs[i] : i \in DOMAIN cs}
        BY <1>5 DEF ToSet
  <2> QED  BY <2>1, <2>2
<1>8. \A x, y : Before(f, x, y) => y \in C
      BY <1>7 DEF Before, ToSet
<1>9. t \in S
      BY <1>3
<1> HIDE DEF f, C, S, below, U, n
<1>10. <<t>> \in Seq(S) /\ ToSet(<<t>>) = {t} /\ \A x, y : ~ Before(<<t>>, x, y)
      BY <1>9, Single
<1> HIDE DEF t
<1> DEFINE g == f \o <<t>>
<1>11. /\ g \in Seq(S) /\ ToSet(g) = C \cup {t}
       /\ \A x, y : Before(g, x, y) <=> Before(f, x, y) \/ (x \in C /\ y = t)
  <2>1. /\ g \in Seq(S) /\ ToSet(g) = ToSet(f) \cup ToSet(<<t>>)
        /\ \A x, y : Before(g, x, y) <=>
              \/ Before(f, x, y) \/ Before(<<t>>, x, y)
              \/ (x \in ToSet(f) /\ y \in ToSet(<<t>>))
        BY <1>6, <1>10, Joined
  <2> HIDE DEF g
  <2> QED  BY <1>7, <1>10, <2>1
<1>12. stack' = g \o below
      BY <1>2 DEF f
<1> HIDE DEF g
<1>13. /\ stack' \in Seq(S) /\ ToSet(stack') = (C \cup {t}) \cup ToSet(below)
       /\ \A x, y : Before(stack', x, y) <=>
             \/ Before(g, x, y) \/ Before(below, x, y)
             \/ x \in C \cup {t} /\ y \in ToSet(below)
      BY <1>3, <1>11, <1>12, Joined
<1>14. \A x, y : y \notin C =>
         (Before(stack', x, y) <=>
            \/ Before(below, x, y)
            \/ x \in C /\ y = t
            \/ x \in C \cup {t} /\ y \in ToSet(below))
      BY <1>8, <1>11, <1>13
<1> QED  BY <1>1, <1>13, <1>14 DEF C, S, below, U, n, t

LEMMA BeginWalks ==
    ASSUME Walks, Visit, ~ stack[1][2], Top \notin ToSet(begun)
    PROVE  Walks'
<1> USE DEF Walks
<1> DEFINE n == Top
           h == <<n, FALSE>>
           t == <<n, TRUE>>
           U == Unbegun(n)
           C == {<<c, FALSE>> : c \in U}
           below == Tail(stack)
<1>1. /\ stack # <<>> /\ begun' = Append(begun, n)
      /\ trees' = [trees EXCEPT ![Len(trees)] = @ \cup {n}]
      /\ UNCHANGED <<walked, rank, todo, done>>
      BY Pushes
<1>2. /\ stack' \in Seq(Walk \X BOOLEAN)
      /\ ToSet(stack') = C \cup {t} \cup ToSet(below)
      /\ \A x, y : y \notin C =>
            (Before(stack', x, y) <=>
               \/ Before(below, x, y)
               \/ x \in C /\ y = t
               \/ x \in C \cup {t} /\ y \in ToSet(below))
      BY Pushes
<1>3. Walk' = Walk /\ \A x, y : Leads(x, y)' <=> Leads(x, y)
      BY <1>1 DEF Walk, Leads
<1>4. /\ n \in Walk /\ stack[1] = h
      /\ ToSet(stack) = ToSet(below) \cup {h}
      /\ \A x, y : Before(stack, x, y) <=>
                 Before(below, x, y) \/ (x = h /\ y \in ToSet(below))
      BY <1>1, OnTop
<1>5. n \notin ToSet(begun) /\ begun \in Seq(Walk) /\ Distinct(begun) /\ done \in Seq(Walk)
      BY DEF WalkTypes
<1>6. /\ \A x, y : <<x, TRUE>> # <<y, FALSE>> /\ <<x, TRUE>> \notin C /\ <<x, TRUE>> # h
      /\ \A x : (<<x, TRUE>> = t <=> x = n) /\ (<<x, FALSE>> = h <=> x = n) /\ <<x, FALSE>> # t
      /\ \A x : <<x, FALSE>> \in C <=> x \in U
      OBVIOUS
<1>7. U \subseteq Walk /\ \A x : x \in U <=> <<n, x>> \in walked /\ x \in Walk /\ x \notin ToSet(begun)
      BY DEF Unbegun, Walk
<1> HIDE DEF n, h, t, C, U, below
<1>8. /\ begun' \in Seq(Walk) /\ ToSet(begun') = ToSet(begun) \cup {n}
      /\ \A x, y : Before(begun', x, y) <=> Before(begun, x, y) \/ (x \in ToSet(begun) /\ y = n)
      BY <1>1, <1>4, <1>5, Appended
<1>9. /\ \A x, y : Before(begun, x, y) => x \in ToSet(begun) /\ y \in ToSet(begun)
      /\ ToSet(begun) \subseteq Walk /\ ToSet(done) \subseteq ToSet(begun)
      BY <1>5, Members, Strict DEF WalkTypes
<1>10. WalkTypes'
  <2>1. Distinct(begun')
        BY <1>5, <1>8, <1>9 DEF Distinct
  <2> QED  BY <1>1, <1>2, <1>3, <1>8, <2>1 DEF WalkTypes
<1>11. Kept'
      BY <1>1, <1>2, <1>3, <1>4, <1>6, <1>8 DEF Kept
<1>12. \A x \in Walk : <<x, TRUE>> \in ToSet(stack) <=> <<x, TRUE>> \in ToSet(below)
      BY <1>4, <1>6
<1>13. Finishing'
  <2>1. ASSUME NEW x \in Walk PROVE <<x, TRUE>> \in ToSet(stack') <=> x = n \/ Active(x)
        BY <1>2, <1>6, <1>12 DEF Finishing
  <2>2. \A x \in Walk : Active(x)' <=> x = n \/ Active(x)
        BY <1>1, <1>5, <1>8, <1>9 DEF Active
  <2> QED  BY <1>3, <2>1, <2>2 DEF Finishing
<1>14. \A x \in Walk : <<x, TRUE>> \in ToSet(below) => x \in ToSet(begun)
      BY <1>12 DEF Finishing, Active
<1>15. Nested'
  <2>1. ASSUME NEW x \in Walk, NEW y \in Walk, Before(stack', <<y, TRUE>>, <<x, TRUE>>)
        PROVE  Before(begun', x, y)
    <3>1. CASE Before(below, <<y, TRUE>>, <<x, TRUE>>)
          BY <1>4, <1>8, <3>1 DEF Nested
    <3>2. CASE y = n /\ <<x, TRUE>> \in ToSet(below)
          BY <1>8, <1>14, <3>2
    <3> QED  BY <1>2, <1>6, <2>1, <3>1, <3>2
  <2> QED  BY <1>3, <2>1 DEF Nested
<1>16. Pending'
  <2>1. ASSUME NEW e \in walked, <<e[1], TRUE>> \in ToSet(stack'), e[2] \notin ToSet(begun')
        PROVE  Before(stack', <<e[2], FALSE>>, <<e[1], TRUE>>)
    <3>1. e[1] \in Walk /\ e[2] \in Walk /\ e = <<e[1], e[2]>>
          BY DEF WalkTypes
    <3>2. CASE e[1] = n
      <4>1. <<e[2], FALSE>> \in C
            BY <1>6, <1>7, <1>8, <2>1, <3>1, <3>2
      <4> QED  BY <1>2, <1>6, <3>2, <4>1 DEF t
    <3>3. CASE e[1] # n
      <4>1. <<e[1], TRUE>> \in ToSet(below)
            BY <1>2, <1>6, <2>1, <3>3
      <4>2. Before(stack, <<e[2], FALSE>>, <<e[1], TRUE>>)
            BY <1>8, <1>12, <2>1, <3>1, <4>1 DEF Pending
      <4>3. <<e[2], FALSE>> # h
            BY <1>6, <1>8, <2>1
      <4>4. Before(below, <<e[2], FALSE>>, <<e[1], TRUE>>)
            BY <1>4, <4>2, <4>3
      <4> QED  BY <1>2, <1>6, <4>4
    <3> QED  BY <3>2, <3>3
  <2> QED  BY <1>1, <2>1 DEF Pending
<1>17. Finished'
  <2>1. ASSUME NEW e \in walked, e[1] \in ToSet(done),
               NEW r \in ToSet(begun'), Before(begun', e[1], r), ~ Before(done, r, e[1])
        PROVE  Before(begun', e[2], r)
    <3>1. e[2] \in ToSet(begun)
          BY <2>1 DEF Finished
    <3>2. CASE r = n
          BY <1>8, <3>1, <3>2
    <3>3. CASE r # n
          BY <1>8, <2>1, <3>3 DEF Finished
    <3> QED  BY <3>2, <3>3
  <2> QED  BY <1>1, <1>8, <2>1 DEF Finished
<1>18. \A c \in U : Leads(n, c)
      BY <1>4, <1>7, LeadsOn
<1>19. \A x \in Walk : <<x, TRUE>> \in ToSet(below) => Leads(x, n)
      BY <1>4 DEF Above, h
<1>20. \A x \in Walk : <<x, TRUE>> \in ToSet(below) => \A c \in U : Leads(x, c)
  <2> SUFFICES ASSUME NEW x \in Walk, <<x, TRUE>> \in ToSet(below), NEW c \in U
               PROVE  Leads(x, c)
        OBVIOUS
  <2>1. <<n, c>> \in walked /\ c \in Walk /\ Leads(x, n)
        BY <1>7, <1>19
  <2> QED  BY <1>4, <2>1, LeadsOn
<1>21. Above'
  <2>1. ASSUME NEW x \in Walk, NEW y \in Walk, NEW b \in BOOLEAN,
               Before(stack', <<y, b>>, <<x, TRUE>>)
        PROVE  Leads(x, y)
    <3>1. CASE Before(below, <<y, b>>, <<x, TRUE>>)
          BY <1>4, <3>1 DEF Above
    <3>2. CASE <<y, b>> \in C /\ x = n
          BY <1>18, <3>2 DEF C
    <3>3. CASE <<y, b>> \in C /\ <<x, TRUE>> \in ToSet(below)
          BY <1>20, <3>3 DEF C
    <3>4. CASE <<y, b>> = t /\ <<x, TRUE>> \in ToSet(below)
          BY <1>19, <3>4 DEF t
    <3>5. CASE <<y, b>> \in C /\ <<x, TRUE>> = t
          BY <1>6, <3>2, <3>5
    <3> QED  BY <1>2, <1>6, <2>1, <3>1, <3>3, <3>4, <3>5
  <2> QED  BY <1>3, <2>1 DEF Above
<1>22. Descends'
  <2>1. ASSUME NEW x \in Walk, NEW y \in Walk, Before(begun', x, y),
               x \notin ToSet(done) \/ Before(done, y, x)
        PROVE  Leads(x, y)
    <3>1. CASE Before(begun, x, y)
          BY <2>1, <3>1 DEF Descends
    <3>2. CASE x \in ToSet(begun) /\ y = n
      <4>1. Before(done, y, x) => y \in ToSet(done)
            BY DEF Before, ToSet
      <4>2. <<x, TRUE>> \in ToSet(below)
            BY <1>5, <1>9, <1>12, <2>1, <3>2, <4>1 DEF Finishing, Active
      <4> QED  BY <1>19, <3>2, <4>2
    <3> QED  BY <1>8, <2>1, <3>1, <3>2
  <2> QED  BY <1>1, <1>3, <2>1 DEF Descends
<1>23. Forest'
  <2>1. trees \in Seq(SUBSET Walk) /\ trees # <<>>
        BY <1>1 DEF Forest
  <2> DEFINE l == Len(trees)
  <2>2. l \in 1..l /\ l \in Nat /\ DOMAIN trees = 1..l /\ \A i \in 1..l : trees[i] \subseteq Walk
        BY <2>1
  <2>3. /\ trees' \in Seq(SUBSET Walk) /\ trees' # <<>> /\ DOMAIN trees' = 1..l
        /\ trees'[l] = trees[l] \cup {n} /\ \A i \in 1..l : i # l => trees'[i] = trees[i]
    <3>1. trees[l] \cup {n} \in SUBSET Walk
          BY <1>4, <2>2
    <3> QED  BY <1>1, <2>1, <2>2, <3>1
  <2> HIDE DEF l
  <2>4. \A i \in 1..l : trees[i] \subseteq ToSet(begun) /\ trees[i] \subseteq trees'[i]
                        /\ trees'[i] \subseteq trees[i] \cup {n}
        BY <2>2, <2>3 DEF Forest, ToSet
  <2>5. UNION ToSet(trees') = ToSet(begun')
    <3>1. \A x : x \in UNION ToSet(trees') <=> \E i \in 1..l : x \in trees'[i]
          BY <2>3 DEF ToSet
    <3>2. \A x : x \in UNION ToSet(trees) <=> \E i \in 1..l : x \in trees[i]
          BY <2>2 DEF ToSet
    <3>3. \A x : x \in UNION ToSet(trees') <=> x = n \/ x \in UNION ToSet(trees)
          BY <2>2, <2>3, <3>1, <3>2
    <3> QED  BY <1>8, <3>3 DEF Forest
  <2>6. \A i, j \in 1..l : i # j => trees'[i] \cap trees'[j] = {}
        BY <1>5, <2>2, <2>3, <2>4 DEF Forest
  <2>7. \A i, j \in 1..l : i < j => trees'[i] \subseteq ToSet(done)
    <3>1. \A i, j \in 1..l : i < j => i # l
          BY <2>2
    <3> QED  BY <2>2, <2>3, <3>1 DEF Forest
  <2>8. \A i, j \in 1..l, e \in walked :
          e[1] \in trees'[i] \cap ToSet(done) /\ e[2] \in trees'[j] => j <= i
    <3> SUFFICES ASSUME NEW i \in 1..l, NEW j \in 1..l, NEW e \in walked,
                        e[1] \in trees'[i] \cap ToSet(done), e[2] \in trees'[j]
                 PROVE  j <= i
          OBVIOUS
    <3>1. e[2] \in ToSet(begun)
          BY DEF Finished
    <3>2. e[1] \in trees[i] /\ e[2] \in trees[j]
          BY <1>5, <1>9, <2>4, <3>1
    <3> QED  BY <2>2, <3>2 DEF Forest
  <2>9. /\ \A i, j \in DOMAIN trees' : i # j => trees'[i] \cap trees'[j] = {}
        /\ \A i, j \in DOMAIN trees' : i < j => trees'[i] \subseteq ToSet(done')
        /\ \A i, j \in DOMAIN trees', e \in walked' :
              e[1] \in trees'[i] \cap ToSet(done') /\ e[2] \in trees'[j] => j <= i
    <3>1. DOMAIN trees' = 1..l /\ walked' = walked /\ done' = done
          BY <1>1, <2>3
    <3> QED  BY <2>6, <2>7, <2>8, <3>1
  <2> QED  BY <1>3, <2>3, <2>5, <2>9 DEF Forest
<1> QED  BY <1>10, <1>11, <1>13, <1>15, <1>16, <1>17, <1>21, <1>22, <1>23

LEMMA VisitWalks ==
    ASSUME Walks, Visit
    PROVE  Walks'
<1>1. stack[1][2] \in BOOLEAN
      BY OnTop DEF Visit
<1> QED  BY <1>1, FinishWalks, DropWalks, BeginWalks

\* A walk that has ended has begun and finished every node.
LEMMA Complete ==
    ASSUME Walks, Walked
    PROVE  ToSet(begun) = Walk /\ ToSet(done) = Walk
<1>1. ToSet(stack) = {} /\ ToSet(todo) = {}
      BY Nothing DEF Walked
<1>2. ToSet(begun) \subseteq Walk /\ ToSet(done) \subseteq Walk
      BY Members DEF Walks, WalkTypes
<1> QED  BY <1>1, <1>2 DEF Walks, Kept, Finishing, Active

-----------------------------------------------------------------------------
(* From the first walk to the second.                                      *)

LEMMA Reach ==
    ASSUME NEW a \in in
    PROVE  /\ Reaches(a, a)
           /\ \A b, c \in in : <<b, c>> \in edges /\ Reaches(a, b) => Reaches(a, c)
           /\ \A b, c \in in : Reaches(a, b) /\ Reaches(b, c) => Reaches(a, c)
BY DEF Reaches

\* Over the edges reversed, what is led to is what reaches.
LEMMA Reversal ==
    ASSUME Walk = in, walked = {<<e[2], e[1]>> : e \in edges}, edges \subseteq in \X in,
           NEW a \in in, NEW b \in in
    PROVE  Leads(a, b) <=> Reaches(b, a)
<1>1. ASSUME Leads(a, b) PROVE Reaches(b, a)
  <2> SUFFICES ASSUME NEW S \in SUBSET in, b \in S, a \notin S,
                      \A e \in edges : e[1] \in S => e[2] \in S
               PROVE  FALSE
        BY DEF Reaches
  <2> DEFINE T == in \ S
  <2>1. T \in SUBSET Walk /\ a \in T
        OBVIOUS
  <2>2. ASSUME NEW e \in walked, e[1] \in T PROVE e[2] \in T
        BY <2>2
  <2> QED  BY <1>1, <2>1, <2>2 DEF Leads
<1>2. ASSUME Reaches(b, a) PROVE Leads(a, b)
  <2> SUFFICES ASSUME NEW S \in SUBSET in, a \in S, b \notin S,
                      \A e \in walked : e[1] \in S => e[2] \in S
               PROVE  FALSE
        BY DEF Leads
  <2> DEFINE T == in \ S
  <2>1. T \in SUBSET in /\ b \in T
        OBVIOUS
  <2>2. ASSUME NEW e \in edges, e[1] \in T PROVE e[2] \in T
    <3>1. <<e[2], e[1]>> \in walked
          OBVIOUS
    <3> QED  BY <2>2, <3>1
  <2> QED  BY <1>2, <2>1, <2>2 DEF Reaches
<1> QED  BY <1>1, <1>2

\* What a job pulls in, of the jobs that finished before it, began after it,
\* and so is reached from it: a job that began earlier and finished earlier had
\* finished before, and with it all that it leads to had begun.
LEMMA Kosaraju ==
    ASSUME Walks, Walked, Walk = in, walked = edges, edges \subseteq in \X in,
           UNCHANGED <<in, edges>>, rank' = Reverse(done),
           NEW r \in in, NEW x \in in, Pulled(r, x)'
    PROVE  Reaches(r, x)
<1> DEFINE D == {d \in in : d = r \/ (Before(begun, r, d) /\ Before(done, d, r))}
<1>1. begun \in Seq(in) /\ Distinct(begun) /\ done \in Seq(in) /\ Distinct(done)
      BY DEF Walks, WalkTypes
<1>2. ToSet(begun) = in /\ ToSet(done) = in
      BY Complete
<1>3. \A y, z : Before(rank', y, z) <=> Before(done, z, y)
      BY <1>1, Reversed
<1>4. /\ \A y, z : Before(begun, y, z) => ~ Before(begun, z, y) /\ y # z
      /\ \A y, z : Before(done, y, z) => ~ Before(done, z, y) /\ y # z
      BY <1>1, Strict
<1>5. ASSUME NEW e \in edges, e[2] \in D, Before(done, e[1], r)
      PROVE  e[1] \in D
  <2>1. e[1] \in in /\ e[1] # r /\ e \in walked
        BY <1>4, <1>5
  <2>2. ~ Before(begun, e[2], r)
        BY <1>4, <1>5
  <2>3. ~ Before(begun, e[1], r)
        BY <1>2, <1>4, <1>5, <2>1, <2>2 DEF Walks, Finished
  <2>4. Before(begun, r, e[1])
        BY <1>1, <1>2, <2>1, <2>3, Total
  <2> QED  BY <1>5, <2>1, <2>4
<1>6. x \in D
  <2>1. D \in SUBSET in' /\ r \in D
        OBVIOUS
  <2>2. \A e \in edges' : e[2] \in D /\ (e[1] = r \/ Before(rank', r, e[1])) => e[1] \in D
        BY <1>3, <1>5
  <2> HIDE DEF D
  <2> QED  BY <2>1, <2>2 DEF Pulled
<1>7. CASE x = r
      BY <1>7, Reach
<1>8. CASE Before(begun, r, x) /\ Before(done, x, r)
  <2>1. Leads(r, x)
        BY <1>8 DEF Walks, Descends
  <2> QED  BY <2>1 DEF Leads, Reaches
<1> QED  BY <1>6, <1>7, <1>8

\* Nothing the second walk changes is in what is pulled.
LEMMA RootSecond ==
    ASSUME Walks, Second, pc = "second", Root
    PROVE  Second'
<1>1. /\ stack = <<>> /\ todo # <<>>
      /\ UNCHANGED <<in, edges, pc, walked, rank, begun>>
      BY DEF Root, tables
<1>2. /\ Walk' = Walk
      /\ \A x, y : (Leads(x, y)' <=> Leads(x, y)) /\ (Reaches(x, y)' <=> Reaches(x, y))
                   /\ (Pulled(x, y)' <=> Pulled(x, y))
      BY <1>1 DEF Walk, Leads, Reaches, Pulled
<1>3. /\ Walk = in /\ walked = {<<e[2], e[1]>> : e \in edges}
      /\ \A x, y \in in : Pulled(x, y) => Reaches(x, y)
      /\ \A i \in DOMAIN trees : \E r \in in : Around(i, r)
      BY DEF Second
<1>4. /\ (Walk = in)' /\ (walked = {<<e[2], e[1]>> : e \in edges})'
      /\ \A x, y \in in' : Pulled(x, y)' => Reaches(x, y)'
      BY <1>1, <1>2, <1>3
<1>5. CASE Head(todo) \in ToSet(begun)
  <2>1. UNCHANGED <<stack, trees>>
        BY <1>5 DEF Root
  <2>2. \A i, r : Around(i, r)' <=> Around(i, r)
        BY <1>2, <2>1 DEF Around
  <2> QED  BY <1>1, <1>3, <1>4, <2>1, <2>2 DEF Second
<1>6. CASE Head(todo) \notin ToSet(begun)
  <2>0. PICK h, l : h = Head(todo) /\ l = Len(trees)
        OBVIOUS
  <2>1. stack' = <<<<h, FALSE>>>> /\ trees' = Append(trees, {})
        BY <1>6, <2>0 DEF Root
  <2>2. trees \in Seq(SUBSET in) /\ {} \in SUBSET in
        BY <1>3 DEF Walks, Forest
  <2>3. /\ l \in Nat /\ Len(trees') = l + 1 /\ DOMAIN trees = 1..l /\ DOMAIN trees' = 1..(l + 1)
        /\ trees'[l + 1] = {} /\ \A i \in 1..l : trees'[i] = trees[i]
    <3>1. l \in Nat /\ DOMAIN trees = 1..l
          BY <2>0, <2>2
    <3>2. /\ trees' \in Seq(SUBSET in) /\ Len(trees') = l + 1
          /\ trees'[l + 1] = {} /\ \A i \in 1..l : trees'[i] = trees[i]
          BY <2>0, <2>1, <2>2, AppendProperties
    <3>3. DOMAIN trees' = 1..(l + 1)
          BY <3>2
    <3> QED  BY <3>1, <3>2, <3>3
  <2>4. /\ h \in in /\ ToSet(todo) = ToSet(Tail(todo)) \cup {h}
        /\ \A y \in ToSet(Tail(todo)) : Before(todo, h, y)
    <3>1. todo \in Seq(in) /\ todo # <<>>
          BY <1>1, <1>3 DEF Walks, WalkTypes
    <3> QED  BY <2>0, <3>1, Popped
  <2>5. \A i \in 1..(l + 1) : i = l + 1 \/ i \in 1..l
        BY <2>3
  <2>6. \A r : Around(l + 1, r)'
        BY <2>3 DEF Around
  <2>7. \A i \in 1..l : \A r : Around(i, r)' <=> Around(i, r)
        BY <1>2, <2>3 DEF Around
  <2>8. \A i \in DOMAIN trees' : \E r \in in' : Around(i, r)'
        BY <1>1, <1>3, <2>3, <2>4, <2>5, <2>6, <2>7
  <2>9. ASSUME NEW x \in in, Before(rank, x, h) PROVE x \in ToSet(begun)
    <3>1. rank \in Seq(in) /\ Distinct(rank)
          BY <1>3 DEF Walks, WalkTypes
    <3>2. x # h /\ ~ Before(rank, h, x)
          BY <2>9, <3>1, Strict
    <3>3. x \notin ToSet(todo)
      <4>1. x \in ToSet(Tail(todo)) => Before(todo, h, x)
            BY <2>4
      <4> QED  BY <1>3, <2>4, <3>2, <4>1 DEF Walks, WalkTypes
    <3>4. ToSet(stack) = {}
          BY <1>1, Nothing
    <3> QED  BY <1>3, <3>3, <3>4 DEF Walks, Kept
  <2>10. ToSet(stack') = {<<h, FALSE>>}
        BY <2>1, Single, Zenon
  <2>11. Rooted(h)'
        BY <1>1, <2>3, <2>6, <2>9, <2>10 DEF Rooted
  <2> QED  BY <1>1, <1>4, <2>4, <2>8, <2>11 DEF Second
<1> QED  BY <1>5, <1>6

\* What is put on the stack comes before a job of the tree.
LEMMA VisitSecond ==
    ASSUME Walks, Second, pc = "second", Visit, edges \subseteq in \X in
    PROVE  Second'
<1>1. stack # <<>> /\ UNCHANGED <<in, edges, pc, walked, rank>>
      BY DEF Visit, tables
<1>2. /\ Walk' = Walk
      /\ \A x, y : (Leads(x, y)' <=> Leads(x, y)) /\ (Reaches(x, y)' <=> Reaches(x, y))
                   /\ (Pulled(x, y)' <=> Pulled(x, y))
      BY <1>1 DEF Walk, Leads, Reaches, Pulled
<1>3. /\ Walk = in /\ walked = {<<e[2], e[1]>> : e \in edges}
      /\ \A x, y \in in : Pulled(x, y) => Reaches(x, y)
      /\ \A i \in DOMAIN trees : \E r \in in : Around(i, r)
      BY DEF Second
<1>4. /\ (Walk = in)' /\ (walked = {<<e[2], e[1]>> : e \in edges})'
      /\ \A x, y \in in' : Pulled(x, y)' => Reaches(x, y)'
      BY <1>1, <1>2, <1>3
<1>5. PICK r \in in : Rooted(r)
      BY <1>1 DEF Second
<1>6. stack[1][2] \in BOOLEAN /\ Top \in in /\ ToSet(Tail(stack)) \subseteq ToSet(stack)
      /\ stack[1] = <<Top, stack[1][2]>> /\ stack[1] \in ToSet(stack)
      BY <1>1, <1>3, OnTop
<1>7. CASE UNCHANGED <<begun, trees>> /\ stack' = Tail(stack)
  <2>1. \A i, s : Around(i, s)' <=> Around(i, s)
        BY <1>2, <1>7 DEF Around
  <2>2. Rooted(r)'
        BY <1>1, <1>5, <1>6, <1>7, <2>1 DEF Rooted
  <2> QED  BY <1>1, <1>3, <1>4, <1>7, <2>1, <2>2 DEF Second
<1>8. CASE ~ stack[1][2] /\ Top \notin ToSet(begun)
  <2>0. PICK n, l : n = Top /\ l = Len(trees)
        OBVIOUS
  <2>1. /\ begun' = Append(begun, n) /\ trees' = [trees EXCEPT ![l] = @ \cup {n}]
        /\ ToSet(stack') = {<<c, FALSE>> : c \in Unbegun(n)} \cup {<<n, TRUE>>}
                              \cup ToSet(Tail(stack))
        BY <1>8, <2>0, Pushes
  <2>2. trees \in Seq(SUBSET in) /\ trees # <<>> /\ begun \in Seq(in) /\ n \in in
        BY <1>1, <1>3, <1>6, <2>0 DEF Walks, Forest, WalkTypes
  <2>3. /\ DOMAIN trees = 1..l /\ DOMAIN trees' = 1..l /\ l \in 1..l /\ Len(trees') = l
        /\ trees'[l] = trees[l] \cup {n} /\ \A i \in 1..l : i # l => trees'[i] = trees[i]
        /\ trees[l] \subseteq in
    <3>1. DOMAIN trees = 1..l /\ l \in 1..l /\ l \in Nat
          BY <2>0, <2>2
    <3>2. trees' \in Seq(SUBSET in) /\ Len(trees') = l
          BY <2>0, <2>1, <2>2, <3>1
    <3> QED  BY <2>1, <2>2, <3>1, <3>2
  <2>4. ToSet(begun') = ToSet(begun) \cup {n}
        BY <2>1, <2>2, Appended
  <2>5. \/ n = r
        \/ \E z \in trees[l] : <<n, z>> \in edges
    <3>1. <<n, FALSE>> \in ToSet(stack)
          BY <1>6, <1>8, <2>0
    <3> QED  BY <1>5, <2>0, <2>2, <3>1 DEF Rooted
  <2>6. Pulled(r, n) /\ Leads(r, n)
    <3>1. CASE n = r
          BY <1>3, <2>2, <3>1, LeadsOn DEF Pulled
    <3>2. CASE n # r
      <4>1. PICK z \in trees[l] : <<n, z>> \in edges
            BY <2>5, <3>2
      <4>2. z \in in /\ Pulled(r, z) /\ Leads(r, z)
            BY <1>5, <2>0, <2>3 DEF Rooted, Around
      <4>3. Before(rank, r, n)
        <5>1. ~ Before(rank, n, r)
              BY <1>5, <1>8, <2>0, <2>2 DEF Rooted
        <5>2. rank \in Seq(in) /\ r \in ToSet(rank) /\ n \in ToSet(rank)
              BY <1>3, <2>2 DEF Walks, WalkTypes, Walk
        <5> QED  BY <3>2, <5>1, <5>2, Total
      <4>4. Pulled(r, n)
            BY <4>1, <4>2, <4>3 DEF Pulled
      <4>5. <<z, n>> \in walked
        <5>1. <<n, z>>[1] = n /\ <<n, z>>[2] = z
              OBVIOUS
        <5> QED  BY <1>3, <4>1, <5>1
      <4>6. Leads(r, n)
            BY <1>3, <2>2, <4>2, <4>5, LeadsOn
      <4> QED  BY <4>4, <4>6
    <3> QED  BY <3>1, <3>2
  <2>7. \A i \in 1..l : \A s : i # l => (Around(i, s)' <=> Around(i, s))
        BY <1>2, <2>3 DEF Around
  <2>8. Around(l, r)'
    <3>1. Around(l, r)
          BY <1>5, <2>0 DEF Rooted
    <3> QED  BY <1>2, <2>3, <2>6, <3>1 DEF Around
  <2>9. \A i \in DOMAIN trees' : \E s \in in' : Around(i, s)'
        BY <1>1, <1>3, <2>3, <2>7, <2>8
  <2>10. ASSUME NEW x \in in, NEW b \in BOOLEAN, <<x, b>> \in ToSet(stack')
         PROVE  \/ x = r
                \/ \E y \in trees'[l] : <<x, y>> \in edges
    <3>1. CASE <<x, b>> \in ToSet(Tail(stack))
          BY <1>5, <1>6, <2>0, <2>3, <3>1 DEF Rooted
    <3>2. CASE x = n
          BY <2>3, <2>5, <3>2
    <3>3. CASE x \in Unbegun(n)
      <4>1. <<n, x>> \in walked
            BY <3>3 DEF Unbegun
      <4>2. <<x, n>> \in edges
        <5>1. PICK e \in edges : <<n, x>> = <<e[2], e[1]>>
              BY <1>3, <4>1
        <5>2. walked \subseteq in \X in /\ e[1] = x /\ e[2] = n
              BY <1>3, <5>1 DEF Walks, WalkTypes
        <5>3. e = <<x, n>>
              BY <5>2
        <5> QED  BY <5>3
      <4> QED  BY <2>3, <4>2
    <3> QED  BY <2>1, <2>10, <3>1, <3>2, <3>3
  <2>11. Rooted(r)'
    <3>1. \A x \in in : Before(rank, x, r) => x \in ToSet(begun')
          BY <1>5, <2>4 DEF Rooted
    <3> QED  BY <1>1, <2>3, <2>8, <2>10, <3>1 DEF Rooted
  <2> QED  BY <1>1, <1>4, <2>9, <2>11 DEF Second
<1> QED
  <2>1. \/ UNCHANGED <<begun, trees>> /\ stack' = Tail(stack)
        \/ ~ stack[1][2] /\ Top \notin ToSet(begun)
        BY DEF Visit, Top
  <2> QED  BY <1>7, <1>8, <2>1

\* Each tree of the second walk is a component: what its root pulls in, its
\* root reaches, and no later tree is led to.
LEMMA TreesComponents ==
    ASSUME Walks, Walked, Second, pc = "second", edges \subseteq in \X in,
           NEW i \in DOMAIN trees, NEW j \in DOMAIN trees, NEW a \in trees[i], NEW b \in trees[j]
    PROVE  (i = j) <=> (Reaches(a, b) /\ Reaches(b, a))
<1>1. /\ Walk = in /\ walked = {<<e[2], e[1]>> : e \in edges}
      /\ \A x, y \in in : Pulled(x, y) => Reaches(x, y)
      BY DEF Second
<1>2. /\ trees \in Seq(SUBSET in) /\ UNION ToSet(trees) = in
      /\ ToSet(begun) = in /\ ToSet(done) = in
      BY <1>1, Complete DEF Walks, Forest
<1>3. /\ DOMAIN trees \subseteq Nat /\ a \in in /\ b \in in
      /\ \A x \in in : \E k \in DOMAIN trees : x \in trees[k]
      BY <1>2 DEF ToSet
<1>4. ASSUME i = j PROVE Reaches(a, b) /\ Reaches(b, a)
  <2>1. PICK r \in in : Around(i, r)
        BY DEF Second
  <2>2. /\ Pulled(r, a) /\ Leads(r, a) /\ Pulled(r, b) /\ Leads(r, b)
        BY <1>4, <2>1 DEF Around
  <2>3. Reaches(r, a) /\ Reaches(a, r) /\ Reaches(r, b) /\ Reaches(b, r)
        BY <1>1, <1>3, <2>2, Reversal
  <2> QED  BY <1>3, <2>3, Reach
<1>5. ASSUME NEW k \in DOMAIN trees, NEW l \in DOMAIN trees, NEW c \in trees[k], NEW d \in trees[l],
             Leads(c, d)
      PROVE  l <= k
  <2> DEFINE S == {x \in in : \E m \in DOMAIN trees : m <= k /\ x \in trees[m]}
  <2>1. c \in S
        BY <1>2, <1>3
  <2>2. ASSUME NEW e \in walked, e[1] \in S PROVE e[2] \in S
    <3>1. e[2] \in in
          BY <1>1 DEF Walks, WalkTypes
    <3>2. PICK m \in DOMAIN trees, o \in DOMAIN trees : m <= k /\ e[1] \in trees[m] /\ e[2] \in trees[o]
          BY <1>3, <2>2, <3>1
    <3>3. o <= m
          BY <1>2, <2>2, <3>2 DEF Walks, Forest
    <3> QED  BY <1>3, <3>1, <3>2, <3>3
  <2>3. d \in S
    <3>1. S \in SUBSET Walk
          BY <1>1
    <3> HIDE DEF S
    <3> QED  BY <1>5, <2>1, <2>2, <3>1 DEF Leads
  <2>4. PICK m \in DOMAIN trees : m <= k /\ d \in trees[m]
        BY <2>3
  <2>5. m = l
        BY <2>4 DEF Walks, Forest
  <2> QED  BY <2>4, <2>5
<1>6. ASSUME Reaches(a, b), Reaches(b, a) PROVE i = j
  <2>1. Leads(a, b) /\ Leads(b, a)
        BY <1>1, <1>3, <1>6, Reversal
  <2>2. j <= i /\ i <= j
        BY <1>5, <2>1
  <2> QED  BY <1>3, <2>2
<1> QED  BY <1>4, <1>6

LEMMA ConnectBackSecond ==
    ASSUME Walks, First, ConnectBack, edges \subseteq in \X in
    PROVE  Walks' /\ Second'
<1>1. /\ pc = "first" /\ Walked /\ pc' = "second" /\ UNCHANGED <<in, edges>>
      /\ Start(Transpose(JobGraph).edge, Reverse(done))
      BY DEF ConnectBack, tables
<1>2. Walk = in /\ walked = edges
      BY <1>1 DEF First
<1>3. /\ walked' = {<<e[2], e[1]>> : e \in edges} /\ rank' = Reverse(done)
      /\ stack' = <<>> /\ trees' = <<>>
      BY <1>1 DEF Start, Transpose, JobGraph
<1>4. /\ Reverse(done) \in Seq(in) /\ Distinct(Reverse(done)) /\ ToSet(Reverse(done)) = in
  <2>1. done \in Seq(in) /\ Distinct(done) /\ ToSet(done) = in
        BY <1>1, <1>2, Complete DEF Walks, WalkTypes
  <2>2. /\ Reverse(done) \in Seq(in) /\ ToSet(Reverse(done)) = ToSet(done)
        /\ \A x, y : Before(Reverse(done), x, y) <=> Before(done, y, x)
        BY <2>1, Reversed
  <2> QED  BY <2>1, <2>2 DEF Distinct
<1>5. Walks'
  <2>1. Transpose(JobGraph).edge \subseteq in \X in
        BY DEF Transpose, JobGraph
  <2> QED  BY <1>1, <1>4, <2>1, Starts
<1>6. (Walk = in)'
      BY <1>1, <1>3, <1>4 DEF Walk
<1>7. \A x, y \in in : Pulled(x, y)' => Reaches(x, y)'
  <2>1. \A x, y : Reaches(x, y)' <=> Reaches(x, y)
        BY <1>1 DEF Reaches
  <2> QED  BY <1>1, <1>2, <1>3, <2>1, Kosaraju
<1>8. DOMAIN trees' = {}
      BY <1>3
<1> QED  BY <1>1, <1>3, <1>5, <1>6, <1>7, <1>8 DEF Second

-----------------------------------------------------------------------------
(* From the second walk to the third.                                      *)

LEMMA Least ==
    ASSUME NEW S \in SUBSET Nat, S # {}
    PROVE  \E x \in S : \A y \in S : x <= y
<1>1. PICK x \in S : \A y \in S : ~ (<<y, x>> \in OpToRel(<, Nat))
      BY NatLessThanWellFounded, WFMin
<1>2. \A y \in S : ~ (y < x)
      BY <1>1, Zenon DEF OpToRel
<1> QED  BY <1>2

LEMMA Greatest ==
    ASSUME NEW n \in Nat, NEW S \in SUBSET (1..n), S # {}
    PROVE  \E x \in S : \A y \in S : y <= x
<1> DEFINE T == {n - y : y \in S}
<1>1. T \in SUBSET Nat /\ T # {}
  <2>1. \A y \in S : y \in Nat /\ n - y \in Nat
        OBVIOUS
  <2> QED  BY <2>1
<1>2. PICK t \in T : \A u \in T : t <= u
  <2> HIDE DEF T
  <2> QED  BY <1>1, Least
<1>3. PICK x \in S : t = n - x
      BY <1>2
<1>4. \A y \in S : n - x <= n - y
      BY <1>2, <1>3
<1> QED  BY <1>3, <1>4

\* The numbers of the steps, from the last.
LEMMA Numbers ==
    ASSUME NEW S, NEW s \in Seq(S)
    PROVE  LET r == Reverse([i \in DOMAIN s |-> i])
           IN  r \in Seq(DOMAIN s) /\ Distinct(r) /\ ToSet(r) = DOMAIN s
<1> DEFINE t == [i \in DOMAIN s |-> i]
<1>1. DOMAIN s = 1..Len(s) /\ Len(s) \in Nat
      OBVIOUS
<1>2. t \in Seq(DOMAIN s) /\ DOMAIN t = DOMAIN s /\ \A i \in DOMAIN s : t[i] = i
      BY <1>1
<1> HIDE DEF t
<1>3. Distinct(t) /\ ToSet(t) = DOMAIN s
  <2>1. ToSet(t) = DOMAIN s
        BY <1>2 DEF ToSet
  <2>2. ASSUME NEW x, Before(t, x, x) PROVE FALSE
    <3>1. PICK i \in DOMAIN s, j \in DOMAIN s : i < j /\ t[i] = x /\ t[j] = x
          BY <1>2, <2>2 DEF Before
    <3> QED  BY <1>1, <1>2, <3>1
  <2> QED  BY <2>1, <2>2 DEF Distinct
<1>4. /\ Reverse(t) \in Seq(DOMAIN s) /\ ToSet(Reverse(t)) = ToSet(t)
      /\ \A x, y : Before(Reverse(t), x, y) <=> Before(t, y, x)
      BY <1>2, Reversed
<1>5. Reverse(t) \in Seq(DOMAIN s) /\ Distinct(Reverse(t)) /\ ToSet(Reverse(t)) = DOMAIN s
      BY <1>3, <1>4 DEF Distinct
<1> QED  BY <1>5 DEF t

LEMMA OrderJobSetsThird ==
    ASSUME Walks, Second, OrderJobSets, edges \subseteq in \X in
    PROVE  Walks' /\ Third'
<1>1. /\ pc = "second" /\ Walked /\ pc' = "third" /\ UNCHANGED <<in, edges>>
      BY DEF OrderJobSets, tables
<1>2. PICK s \in SetToSeqs(ToSet(trees)) :
         /\ steps' = s
         /\ Start({e \in (DOMAIN s) \X (DOMAIN s) :
                     e[1] # e[2] /\ \E a \in s[e[1]], b \in s[e[2]] : <<a, b>> \in edges},
                  Reverse([i \in DOMAIN s |-> i]))
      BY DEF OrderJobSets
<1>3. /\ trees \in Seq(SUBSET in) /\ UNION ToSet(trees) = in /\ ToSet(trees) \subseteq SUBSET in
  <2>1. Walk = in
        BY <1>1 DEF Second
  <2>2. trees \in Seq(SUBSET in) /\ UNION ToSet(trees) = in
        BY <1>1, <2>1, Complete DEF Walks, Forest
  <2> QED  BY <2>2, Members
<1>4. s \in Seq(ToSet(trees)) /\ Distinct(s) /\ ToSet(s) = ToSet(trees)
      BY <1>3, FiniteRange, Sequenced
<1>5. s \in Seq(SUBSET in)
      BY <1>3, <1>4
<1>6. ASSUME NEW i \in DOMAIN s, NEW j \in DOMAIN s, NEW a \in s[i], NEW b \in s[j]
      PROVE  (i = j) <=> (Reaches(a, b) /\ Reaches(b, a))
  <2>1. s[i] \in ToSet(trees) /\ s[j] \in ToSet(trees)
        BY <1>4 DEF ToSet
  <2>2. PICK k \in DOMAIN trees, l \in DOMAIN trees : s[i] = trees[k] /\ s[j] = trees[l]
        BY <2>1 DEF ToSet
  <2>3. ASSUME i = j PROVE Reaches(a, b) /\ Reaches(b, a)
    <3>1. a \in trees[k] /\ b \in trees[k]
          BY <2>2, <2>3
    <3> QED  BY <1>1, <3>1, TreesComponents
  <2>4. ASSUME Reaches(a, b), Reaches(b, a) PROVE i = j
    <3>1. k = l
          BY <1>1, <2>2, <2>4, TreesComponents
    <3>2. s[i] = s[j]
          BY <2>2, <3>1
    <3>3. i \in Nat /\ j \in Nat
          BY <1>4
    <3>4. ~ (i < j) /\ ~ (j < i)
      <4>1. i < j => Before(s, s[i], s[j])
            BY DEF Before
      <4>2. j < i => Before(s, s[j], s[i])
            BY DEF Before
      <4> QED  BY <1>4, <2>1, <3>2, <4>1, <4>2 DEF Distinct
    <3> QED  BY <3>3, <3>4
  <2> QED  BY <2>3, <2>4
<1>7. Components(s)'
  <2>1. \A x, y : Reaches(x, y)' <=> Reaches(x, y)
        BY <1>1 DEF Reaches
  <2>2. UNION ToSet(s) = in
        BY <1>3, <1>4
  <2> QED  BY <1>1, <1>5, <1>6, <2>1, <2>2 DEF Components
<1> DEFINE es == {e \in (DOMAIN s) \X (DOMAIN s) :
                    e[1] # e[2] /\ \E a \in s[e[1]], b \in s[e[2]] : <<a, b>> \in edges}
           r == Reverse([i \in DOMAIN s |-> i])
<1>8. r \in Seq(DOMAIN s) /\ Distinct(r) /\ ToSet(r) = DOMAIN s
      BY <1>5, Numbers
<1>9. es \subseteq ToSet(r) \X ToSet(r)
      BY <1>8
<1>10. Start(es, r)
      BY <1>2
<1>11. walked' = es /\ rank' = r
      BY <1>10 DEF Start
<1>12. Walks'
  <2> HIDE DEF es, r
  <2> QED  BY <1>8, <1>9, <1>10, Starts
<1>13. (Walk = DOMAIN steps)'
  <2> HIDE DEF r
  <2> QED  BY <1>2, <1>8, <1>11 DEF Walk
<1>14. (walked = {e \in (DOMAIN steps) \X (DOMAIN steps) :
                   e[1] # e[2] /\ \E a \in steps[e[1]], b \in steps[e[2]] : <<a, b>> \in edges})'
      BY <1>1, <1>2, <1>11
<1>15. Components(steps)'
      BY <1>2, <1>7 DEF Components
<1> QED  BY <1>12, <1>13, <1>14, <1>15 DEF Third

-----------------------------------------------------------------------------
(* From the third walk to the order.                                       *)

LEMMA Injective ==
    ASSUME NEW S, NEW s \in Seq(S), Distinct(s), NEW i \in DOMAIN s, NEW j \in DOMAIN s, s[i] = s[j]
    PROVE  i = j
<1>1. i \in Nat /\ j \in Nat /\ s[i] \in ToSet(s)
      BY DEF ToSet
<1>2. i < j => Before(s, s[i], s[j])
      BY DEF Before
<1>3. j < i => Before(s, s[j], s[i])
      BY DEF Before
<1> QED  BY <1>1, <1>2, <1>3 DEF Distinct

\* What a step leads to, its jobs reach.
LEMMA LeadsReaches ==
    ASSUME Third, pc = "third", edges \subseteq in \X in,
           NEW i \in DOMAIN steps, NEW j \in DOMAIN steps, Leads(i, j),
           NEW a \in steps[i], NEW b \in steps[j]
    PROVE  Reaches(a, b)
<1> DEFINE T == {k \in DOMAIN steps : \A c \in steps[k] : Reaches(a, c)}
<1>1. /\ steps \in Seq(SUBSET in) /\ Walk = DOMAIN steps
      /\ \A k, l \in DOMAIN steps : \A c \in steps[k], d \in steps[l] :
            (k = l) <=> (Reaches(c, d) /\ Reaches(d, c))
      BY DEF Third, Components
<1>2. \A k \in DOMAIN steps : steps[k] \subseteq in
      BY <1>1
<1>3. i \in T
      BY <1>1
<1>4. ASSUME NEW e \in walked, e[1] \in T PROVE e[2] \in T
  <2>1. PICK c \in steps[e[1]], d \in steps[e[2]] : <<c, d>> \in edges
        BY DEF Third
  <2>2. e[1] \in DOMAIN steps /\ e[2] \in DOMAIN steps
        BY DEF Third
  <2>3. a \in in /\ c \in in /\ d \in in /\ Reaches(a, c)
        BY <1>2, <1>4, <2>1, <2>2
  <2>4. Reaches(a, d)
        BY <2>1, <2>3, Reach
  <2>5. ASSUME NEW f \in steps[e[2]] PROVE Reaches(a, f)
    <3>1. Reaches(d, f) /\ f \in in
          BY <1>1, <1>2, <2>1, <2>2
    <3> QED  BY <2>3, <2>4, <3>1, Reach
  <2> QED  BY <2>2, <2>5
<1>5. j \in T
  <2>1. T \in SUBSET Walk
        BY <1>1
  <2> HIDE DEF T
  <2> QED  BY <1>3, <1>4, <2>1 DEF Leads
<1> QED  BY <1>5

\* A step finishes after all it leads to.
LEMMA Acyclic ==
    ASSUME Walks, Walked, Third, pc = "third", edges \subseteq in \X in, NEW e \in walked
    PROVE  Before(done, e[2], e[1])
<1>1. /\ e[1] \in DOMAIN steps /\ e[2] \in DOMAIN steps /\ e[1] # e[2]
      /\ \E a \in steps[e[1]], b \in steps[e[2]] : <<a, b>> \in edges
      /\ Walk = DOMAIN steps
      BY DEF Third
<1>2. PICK a \in steps[e[1]], b \in steps[e[2]] : <<a, b>> \in edges
      BY <1>1
<1>3. /\ begun \in Seq(Walk) /\ Distinct(begun) /\ done \in Seq(Walk) /\ Distinct(done)
      BY DEF Walks, WalkTypes
<1>4. ToSet(begun) = Walk /\ ToSet(done) = Walk
      BY Complete
<1> SUFFICES ASSUME ~ Before(done, e[2], e[1]) PROVE FALSE
    OBVIOUS
<1>5. Before(done, e[1], e[2])
      BY <1>1, <1>3, <1>4, Total
<1>6. ~ Before(begun, e[1], e[2])
  <2>1. Before(begun, e[1], e[2]) => Before(begun, e[2], e[2])
        BY <1>1, <1>4 DEF Walks, Finished
  <2> QED  BY <1>1, <1>3, <1>4, <2>1 DEF Distinct
<1>7. Before(begun, e[2], e[1])
      BY <1>1, <1>3, <1>4, <1>6, Total
<1>8. Leads(e[2], e[1])
      BY <1>1, <1>5, <1>7 DEF Walks, Descends
<1>9. Reaches(b, a)
      BY <1>1, <1>8, LeadsReaches
<1>10. Reaches(a, b)
  <2>1. a \in in /\ b \in in
        BY <1>2
  <2> QED  BY <1>2, <2>1, Reach
<1> QED  BY <1>1, <1>9, <1>10 DEF Third, Components

LEMMA TotalOrderingSorted ==
    ASSUME Walks, Third, TotalOrdering, edges \subseteq in \X in
    PROVE  pc' = "ordered" /\ Components(order)' /\ StepsSorted'
<1>1. /\ pc = "third" /\ Walked /\ UNCHANGED <<plan, in, edges, begun, done, walked, steps>>
      /\ order' = [i \in DOMAIN done |-> steps[Reverse(done)[i]]]
      /\ pc' = IF BackEdge THEN "failed" ELSE "ordered"
      BY DEF TotalOrdering, walk, tables
<1>2. /\ Walk = DOMAIN steps /\ Components(steps)
      /\ walked = {e \in (DOMAIN steps) \X (DOMAIN steps) :
                   e[1] # e[2] /\ \E a \in steps[e[1]], b \in steps[e[2]] : <<a, b>> \in edges}
      BY <1>1 DEF Third
<1>3. /\ done \in Seq(Walk) /\ Distinct(done) /\ ToSet(done) = Walk
      BY <1>1, Complete DEF Walks, WalkTypes
<1>4. \A e \in walked : Before(done, e[2], e[1])
      BY <1>1, Acyclic
<1>5. ~ BackEdge
  <2> SUFFICES ASSUME NEW e \in walked, Position(done, e[1]) < Position(done, e[2])
               PROVE  FALSE
        BY DEF BackEdge
  <2> DEFINE i == Position(done, e[1])
             j == Position(done, e[2])
  <2>1. Before(done, e[2], e[1])
        BY <1>4
  <2>2. e[1] \in ToSet(done) /\ e[2] \in ToSet(done)
        BY <2>1 DEF Before, ToSet
  <2>3. i \in DOMAIN done /\ j \in DOMAIN done /\ done[i] = e[1] /\ done[j] = e[2]
        BY <2>2 DEF ToSet, Position
  <2>4. Before(done, e[1], e[2])
        BY <2>3 DEF Before
  <2> QED  BY <1>3, <2>1, <2>4, Strict
<1> DEFINE r == Reverse(done)
           o == order'
<1>6. /\ r \in Seq(Walk) /\ Len(r) = Len(done) /\ Distinct(r) /\ ToSet(r) = Walk
      /\ \A x, y : Before(r, x, y) <=> Before(done, y, x)
  <2>1. /\ r \in Seq(Walk) /\ Len(r) = Len(done) /\ ToSet(r) = ToSet(done)
        /\ \A x, y : Before(r, x, y) <=> Before(done, y, x)
        BY <1>3, Reversed
  <2> QED  BY <1>3, <2>1 DEF Distinct
<1> HIDE DEF r
<1>7. /\ DOMAIN o = DOMAIN r /\ DOMAIN r = 1..Len(r) /\ Len(r) \in Nat
      /\ \A i \in DOMAIN r : r[i] \in DOMAIN steps /\ o[i] = steps[r[i]]
  <2>1. DOMAIN done = 1..Len(done) /\ DOMAIN r = 1..Len(r) /\ Len(r) \in Nat
        BY <1>3, <1>6
  <2>2. DOMAIN done = DOMAIN r
        BY <1>6, <2>1
  <2>3. \A i \in DOMAIN r : r[i] \in DOMAIN steps
        BY <1>2, <1>6
  <2> QED  BY <1>1, <2>1, <2>2, <2>3 DEF r
<1>8. \A i \in DOMAIN o : o[i] \in SUBSET in
      BY <1>2, <1>7 DEF Components
<1>9. o \in Seq(SUBSET in)
  <2>1. o \in [1..Len(r) -> SUBSET in]
        BY <1>1, <1>7, <1>8
  <2> HIDE DEF o
  <2> QED  BY <1>7, <2>1
<1> HIDE DEF o
<1>10. \A i \in DOMAIN steps : \E k \in DOMAIN o : o[k] = steps[i]
  <2> SUFFICES ASSUME NEW i \in DOMAIN steps PROVE \E k \in DOMAIN o : o[k] = steps[i]
        OBVIOUS
  <2>1. i \in ToSet(r)
        BY <1>2, <1>6
  <2>2. PICK k \in DOMAIN r : r[k] = i
        BY <2>1 DEF ToSet
  <2> QED  BY <1>7, <2>2
<1>11. UNION ToSet(o) = in
  <2>1. UNION ToSet(steps) = in
        BY <1>2 DEF Components
  <2>2. ToSet(o) = ToSet(steps)
    <3>1. ToSet(o) \subseteq ToSet(steps)
          BY <1>7 DEF ToSet
    <3>2. ToSet(steps) \subseteq ToSet(o)
          BY <1>10 DEF ToSet
    <3> QED  BY <3>1, <3>2
  <2> QED  BY <2>1, <2>2
<1>12. ASSUME NEW i \in DOMAIN o, NEW j \in DOMAIN o, NEW a \in o[i], NEW b \in o[j]
       PROVE  (i = j) <=> (Reaches(a, b) /\ Reaches(b, a))
  <2>1. (r[i] = r[j]) <=> (Reaches(a, b) /\ Reaches(b, a))
        BY <1>2, <1>7 DEF Components
  <2>2. r[i] = r[j] => i = j
        BY <1>6, <1>7, Injective
  <2> QED  BY <2>1, <2>2
<1>13. ASSUME NEW i \in DOMAIN o, NEW j \in DOMAIN o, NEW a \in o[i], NEW b \in o[j], Reaches(a, b)
       PROVE  i <= j
  <2> DEFINE S == {x \in in : \E k \in DOMAIN o : i <= k /\ x \in o[k]}
  <2>1. a \in S
        BY <1>7, <1>8
  <2>2. ASSUME NEW e \in edges, e[1] \in S PROVE e[2] \in S
    <3>1. e[1] \in in /\ e[2] \in in /\ e = <<e[1], e[2]>>
          OBVIOUS
    <3>2. PICK k \in DOMAIN o : i <= k /\ e[1] \in o[k]
          BY <2>2
    <3>3. \E l \in DOMAIN o : e[2] \in o[l]
          BY <1>11, <3>1 DEF ToSet
    <3>4. PICK l \in DOMAIN o : e[2] \in o[l]
          BY <3>3
    <3>5. CASE k = l
          BY <3>1, <3>2, <3>4, <3>5
    <3>6. CASE k # l
      <4>1. r[k] # r[l]
            BY <1>6, <1>7, <3>6, Injective
      <4>2. <<r[k], r[l]>> \in walked
        <5>1. \E c \in steps[r[k]], d \in steps[r[l]] : <<c, d>> \in edges
              BY <1>7, <3>1, <3>2, <3>4
        <5> QED  BY <1>2, <1>7, <4>1, <5>1
      <4>3. Before(done, r[l], r[k])
        <5>1. <<r[k], r[l]>>[1] = r[k] /\ <<r[k], r[l]>>[2] = r[l]
              OBVIOUS
        <5> QED  BY <1>4, <4>2, <5>1
      <4>4. Before(r, r[k], r[l])
            BY <1>6, <4>3
      <4>5. PICK m \in DOMAIN r, n \in DOMAIN r : m < n /\ r[m] = r[k] /\ r[n] = r[l]
            BY <4>4 DEF Before
      <4>6. m = k /\ n = l
            BY <1>6, <1>7, <4>5, Injective
      <4>7. i <= l
            BY <1>7, <3>2, <4>5, <4>6
      <4> QED  BY <3>1, <3>4, <4>7
    <3> QED  BY <3>5, <3>6
  <2>3. b \in S
    <3>1. S \in SUBSET in
          OBVIOUS
    <3> HIDE DEF S
    <3> QED  BY <1>13, <2>1, <2>2, <3>1 DEF Reaches
  <2>4. PICK k \in DOMAIN o : i <= k /\ b \in o[k]
        BY <2>3
  <2>5. b \in in
        BY <1>8
  <2>6. k = j
        BY <1>12, <2>4, <2>5, Reach
  <2> QED  BY <2>4, <2>6
<1>14. \A x, y : Reaches(x, y)' <=> Reaches(x, y)
      BY <1>1 DEF Reaches
<1>15. Components(order)'
  <2>1. order' = o /\ in' = in
        BY <1>1 DEF o
  <2>2. \A i, j \in DOMAIN o : \A a \in o[i], b \in o[j] :
           (i = j) <=> (Reaches(a, b)' /\ Reaches(b, a)')
        BY <1>12, <1>14
  <2> QED  BY <1>9, <1>11, <2>1, <2>2 DEF Components
<1>16. StepsSorted'
  <2>1. ASSUME NEW i \in DOMAIN order', NEW j \in DOMAIN order',
               NEW a \in order'[i], NEW b \in order'[j]
        PROVE  /\ (i = j) <=> (Reaches(a, b)' /\ Reaches(b, a)')
               /\ Reaches(a, b)' => i <= j
    <3>1. i \in DOMAIN o /\ j \in DOMAIN o /\ a \in o[i] /\ b \in o[j]
          BY DEF o
    <3> QED  BY <1>12, <1>13, <1>14, <3>1
  <2> QED  BY <2>1 DEF StepsSorted
<1> QED  BY <1>1, <1>5, <1>15, <1>16

-----------------------------------------------------------------------------
(* The steps of the specification.                                         *)

\* The rounds of the check and the walks.
Rounds == \/ \E ns \in SUBSET Node : \/ AddJobs(ns) \/ AddUpdates(ns)
                                     \/ UpdateUsers(ns)
                                     \/ KeepErased(ns) \/ KeepBeside(ns)
          \/ Check

LEMMA InitOInv == Init => OInv
<1> SUFFICES ASSUME Init PROVE OInv
    OBVIOUS
<1>1. /\ plan \in Plans /\ in = {} /\ kept = {} /\ pc = "add"
      /\ users = [d \in Dep |-> {}] /\ satisfied = {}
      /\ asked = [q \in Holder \X Dep |-> "no"] /\ edges = {} /\ late = {}
      BY DEF Init, NoTables
<1>2. TInv
      BY <1>1 DEF TInv
<1> QED  BY <1>1, <1>2 DEF OInv, WalkInv, First, Second, Third, Bound, Sorted, Walking, Ordered

\* An edge that has no opposite of its own number is not cancelled by another.
LEMMA Uncancels ==
    ASSUME TInv, NEW es, NEW others \in SUBSET (in \X in \X Dep), NEW ties,
           NEW e \in in \X in \X Dep, e \in es, e \notin others
    PROVE  e \in Uncancelled(es \cup ties, others)
<1> SUFFICES ASSUME NEW o \in others, o[1] = e[1], o[2] = e[2],
                    o[3] = e[3] \/ <<e[3], o[3]>> \in plan.alike
             PROVE  FALSE
    BY DEF Uncancelled
<1>1. o = <<o[1], o[2], o[3]>> /\ e = <<e[1], e[2], e[3]>> /\ e[3] \in Dep
      OBVIOUS
<1>2. CASE o[3] = e[3]
      BY <1>1, <1>2
<1>3. CASE <<e[3], o[3]>> \in plan.alike
  <2>1. e[3] \in Holder \X Dep
        BY <1>3, PlansAssumption DEF TInv
  <2> QED  BY <1>1, <2>1, DepAssumption
<1> QED  BY <1>2, <1>3

LEMMA BuiltEdges ==
    ASSUME TInv, NEW lost, NEW gained,
           \A q \in Resatisfied : /\ lost[q] \in OldProviders(q[2])
                                  /\ gained[q] # Stay => gained[q] \in NewProviders(q[2])
    PROVE  LET es == BuildEdges(lost, gained)
           IN  /\ es \subseteq in \X in /\ \A e \in es : e[1] # e[2]
               /\ edges \cup Ordering(Ties(lost, gained)) \cup Collections \cup Rings \subseteq es
               /\ plan.final \cap in # {} => \A n \in in \ plan.final : \E e \in es : e[1] = n
<1> DEFINE P == {e \in in \X in : e[1] # e[2]}
           T == Ties(lost, gained)
           e1 == edges \cup Ordering(T) \cup Rings
           e2 == e1 \cup Lasts(e1)
<1>1. Removing \subseteq in /\ in \subseteq Node /\ plan \in Plans
      BY DEF Removing, TInv
<1>2. \A e \in T : e[1] \in in /\ e[2] \in in /\ e[1] # e[2]
  <2> SUFFICES ASSUME NEW q \in Resatisfied, gained[q] \notin {Stay, lost[q]}
               PROVE  lost[q] \in in /\ gained[q] \in in /\ lost[q] # gained[q]
        BY DEF Ties
  <2> QED  BY <1>1 DEF OldProviders, NewProviders
<1> HIDE DEF T
<1>3. Ordering(T) \subseteq P
  <2>1. \A e \in NewNew : e[1] \in in /\ e[2] \in in /\ e[1] # e[2]
        BY DEF NewNew
  <2>2. \A e \in OldOld : e[1] \in in /\ e[2] \in in /\ e[1] # e[2]
        BY <1>1 DEF OldOld
  <2>3. \A es, o : Uncancelled(es, o) \subseteq es
        BY DEF Uncancelled
  <2>4. \A e \in Uncancelled(NewNew \cup T, NewOld) : <<e[2], e[1]>> \in P
    <3> SUFFICES ASSUME NEW e \in NewNew \cup T PROVE <<e[2], e[1]>> \in P
        BY <2>3
    <3> QED  BY <1>2, <2>1
  <2>5. \A e \in Uncancelled(OldOld \cup T, OldNew) : <<e[1], e[2]>> \in P
    <3> SUFFICES ASSUME NEW e \in OldOld \cup T PROVE <<e[1], e[2]>> \in P
        BY <2>3
    <3> QED  BY <1>2, <2>2
  <2> QED  BY <2>4, <2>5 DEF Ordering
<1>4. Rings \subseteq P
  <2> SUFFICES ASSUME NEW s \in plan.linked, NEW i \in DOMAIN s, NEW j \in DOMAIN s,
                      s[i] \in in, s[j] \in in, i < j \/ j < i
               PROVE  <<s[i], s[j]>> \in P
        BY DEF Rings
  <2>1. s \in Seq(Node) /\ IsInjective(s)
        BY <1>1, PlansAssumption
  <2>2. DOMAIN s = 1..Len(s) /\ Len(s) \in Nat
        BY <2>1
  <2>3. i \in Nat /\ j \in Nat
        BY <2>2
  <2>4. i # j
        BY <2>3
  <2> QED  BY <2>1, <2>4 DEF IsInjective
<1>5. Collections \subseteq P
  <2> SUFFICES ASSUME NEW w \in Collections PROVE w \in P
        OBVIOUS
  <2>1. w \in Node \X Node /\ w[1] # w[2] /\ w[1] \in in /\ w[2] \in in
        BY <1>1, PlansAssumption DEF Collections
  <2> QED  BY <2>1
<1>6. e1 \subseteq P
      BY <1>3, <1>4 DEF TInv
<1>7. edges \cup Ordering(T) \cup Rings \subseteq e1
      OBVIOUS
<1> HIDE DEF e1
<1>8. Lasts(e1) \subseteq P
  <2> SUFFICES ASSUME NEW l \in GetLeaves(e1) \ plan.final, NEW g \in plan.final \cap in
               PROVE  <<l, g>> \in P
        BY DEF Lasts
  <2> QED  BY DEF GetLeaves
<1>9. \A n \in in \ plan.final : plan.final \cap in # {} => \E e \in e2 : e[1] = n
  <2> SUFFICES ASSUME NEW n \in in \ plan.final, NEW g \in plan.final \cap in, \A e \in e1 : e[1] # n
               PROVE  \E e \in Lasts(e1) : e[1] = n
        OBVIOUS
  <2>1. n \in GetLeaves(e1)
        BY DEF GetLeaves
  <2>2. <<n, g>> \in Lasts(e1) /\ <<n, g>>[1] = n
        BY <2>1 DEF Lasts
  <2> QED  BY <2>2
<1>10. e1 \subseteq e2 /\ e2 \subseteq P
      BY <1>6, <1>8
<1> HIDE DEF e2
<1>11. Strays(e2) \subseteq P
  <2> SUFFICES ASSUME NEW e \in Strays(e2) PROVE e \in P
        OBVIOUS
  <2>1. e \in in \X in /\ <<e[2], e[1]>> \in plan.within \cup plan.passed
        BY DEF Strays, Disconnected, GetLeaves
  <2>2. <<e[2], e[1]>>[1] # <<e[2], e[1]>>[2]
        BY <1>1, <2>1, PlansAssumption
  <2> QED  BY <2>1, <2>2
<1>12. BuildEdges(lost, gained) = e2 \cup Strays(e2) \cup Collections
      BY DEF BuildEdges, e1, e2, T
<1>13. \A e \in BuildEdges(lost, gained) : e \in P
      BY <1>5, <1>10, <1>11, <1>12
<1>14. edges \cup Ordering(T) \cup Rings \cup Collections \subseteq BuildEdges(lost, gained)
      BY <1>7, <1>10, <1>12
<1>15. \A e \in BuildEdges(lost, gained) : e \in in \X in /\ e[1] # e[2]
      BY <1>13
<1>16. plan.final \cap in # {} =>
          \A n \in in \ plan.final : \E e \in BuildEdges(lost, gained) : e[1] = n
      BY <1>9, <1>12
<1> HIDE DEF P
<1> QED  BY <1>14, <1>15, <1>16 DEF T

\* A need that is lost and met again is met by the job that comes first, or the
\* tie of its jobs has been torn.
LEMMA CheckEdges ==
    ASSUME TInv, Check
    PROVE  /\ edges' \subseteq in \X in /\ \A e \in edges' : e[1] # e[2]
           /\ edges \cup Collections \cup Rings \subseteq edges'
           /\ \A e \in NewNew : e \notin NewOld => <<e[2], e[1]>> \in edges'
           /\ \A e \in OldOld : e \notin OldNew => <<e[1], e[2]>> \in edges'
           /\ \A q \in Resatisfied : StayProviders(q[2]) = {} =>
                 \E l \in OldProviders(q[2]), g \in NewProviders(q[2]) :
                    \/ l = g \/ <<g, l>> \in edges'
                    \/ l # g /\ \E o \in NewOld : /\ o[1] = l /\ o[2] = g
                                                  /\ <<q, o[3]>> \in plan.alike
           /\ plan.final \cap in # {} => \A n \in in \ plan.final : \E e \in edges' : e[1] = n
<1>1. PICK lost \in [Resatisfied -> Node], gained \in [Resatisfied -> Holder] :
         /\ \A q \in Resatisfied :
              /\ lost[q] \in OldProviders(q[2])
              /\ IF gained[q] = Stay THEN StayProviders(q[2]) # {}
                 ELSE gained[q] \in NewProviders(q[2])
         /\ edges' = BuildEdges(lost, gained)
      BY DEF Check
<1>2. \A q \in Resatisfied : /\ lost[q] \in OldProviders(q[2])
                             /\ gained[q] # Stay => gained[q] \in NewProviders(q[2])
      BY <1>1
<1> DEFINE T == Ties(lost, gained)
<1>3. /\ edges' \subseteq in \X in /\ \A e \in edges' : e[1] # e[2]
      /\ edges \cup Ordering(T) \cup Collections \cup Rings \subseteq edges'
      /\ plan.final \cap in # {} => \A n \in in \ plan.final : \E e \in edges' : e[1] = n
      BY <1>1, <1>2, BuiltEdges
<1>4. Removing \subseteq in /\ Needs \subseteq Dep
      BY DEF Removing, Needs
<1>5. /\ NewNew \subseteq in \X in \X Dep /\ NewOld \subseteq in \X in \X Dep
      /\ OldOld \subseteq in \X in \X Dep /\ OldNew \subseteq in \X in \X Dep
      BY <1>4 DEF NewNew, NewOld, OldOld, OldNew
<1> HIDE DEF T
<1>6. ASSUME NEW e \in NewNew, e \notin NewOld PROVE <<e[2], e[1]>> \in edges'
  <2>1. e \in Uncancelled(NewNew \cup T, NewOld)
        BY <1>5, <1>6, Uncancels
  <2> QED  BY <1>3, <2>1 DEF Ordering
<1>7. ASSUME NEW e \in OldOld, e \notin OldNew PROVE <<e[1], e[2]>> \in edges'
  <2>1. e \in Uncancelled(OldOld \cup T, OldNew)
        BY <1>5, <1>7, Uncancels
  <2> QED  BY <1>3, <2>1 DEF Ordering
<1>8. ASSUME NEW q \in Resatisfied, StayProviders(q[2]) = {}
      PROVE  \E l \in OldProviders(q[2]), g \in NewProviders(q[2]) :
                \/ l = g \/ <<g, l>> \in edges'
                \/ l # g /\ \E o \in NewOld : /\ o[1] = l /\ o[2] = g
                                              /\ <<q, o[3]>> \in plan.alike
  <2> DEFINE l == lost[q]
             g == gained[q]
             e == <<l, g, q>>
  <2>1. /\ l \in OldProviders(q[2]) /\ g \in NewProviders(q[2]) /\ g # Stay
    <3>1. Stay \notin NewProviders(q[2])
          BY NodeAssumption DEF NewProviders, Stay, TInv
    <3> QED  BY <1>1, <1>8, <3>1
  <2>2. CASE g = l
        BY <2>1, <2>2
  <2>3. CASE g # l
    <3>1. e \in T
          BY <2>1, <2>3 DEF T, Ties
    <3>2. e[1] = l /\ e[2] = g /\ e[3] = q
          OBVIOUS
    <3> HIDE DEF e, l, g
    <3>3. CASE e \in Uncancelled(NewNew \cup T, NewOld)
      <4>1. <<e[2], e[1]>> \in Ordering(T)
            BY <3>3 DEF Ordering
      <4> QED  BY <1>3, <2>1, <3>2, <4>1
    <3>4. CASE e \notin Uncancelled(NewNew \cup T, NewOld)
      <4>1. PICK o \in NewOld : /\ o[1] = l /\ o[2] = g
                                /\ o[3] = q \/ <<q, o[3]>> \in plan.alike
            BY <3>1, <3>2, <3>4 DEF Uncancelled
      <4>2. o[3] \in Dep /\ q \in Holder \X Dep
            BY <1>5 DEF Resatisfied, Broken, OldNeeds
      <4>3. <<q, o[3]>> \in plan.alike
            BY <4>1, <4>2, DepAssumption
      <4> QED  BY <2>1, <2>3, <4>1, <4>3
    <3> QED  BY <3>3, <3>4
  <2> QED  BY <2>2, <2>3
<1> QED  BY <1>3, <1>6, <1>7, <1>8

LEMMA UsersType ==
    ASSUME NEW us \in [Dep -> SUBSET Node], NEW ns \in SUBSET Node
    PROVE  UsersWith(us, ns) \in [Dep -> SUBSET Node]
BY DEF UsersWith

LEMMA AskedType ==
    ASSUME NEW as \in [Holder \X Dep -> {"no", "open", "twice"}], NEW ns
    PROVE  AskedWith(as, ns) \in [Holder \X Dep -> {"no", "open", "twice"}]
BY DEF AskedWith

LEMMA RoundsTInv ==
    ASSUME TInv, Rounds
    PROVE  /\ TInv' /\ pc' \in {"check", "errors", "accepted"}
           /\ pc' = "accepted" => Bound'
<1> USE DEF TInv
<1> DEFINE NoUsers == [d \in Dep |-> {}]
           NoneAsked == [q \in Holder \X Dep |-> "no"]
<1>1. NoUsers \in [Dep -> SUBSET Node] /\ NoneAsked \in [Holder \X Dep -> {"no", "open", "twice"}]
      OBVIOUS
<1>2. ASSUME NEW ns \in SUBSET Node, AddJobs(ns) PROVE TInv' /\ pc' = "check"
  <2>1. /\ in' = ns /\ in = {} /\ users' = UsersWith(users, ns) /\ asked' = AskedWith(asked, ns)
        /\ pc' = "check" /\ UNCHANGED <<plan, kept, satisfied, edges, late>>
        BY <1>2 DEF AddJobs
  <2> QED  BY <2>1, UsersType, AskedType
<1>3. ASSUME NEW ns \in SUBSET Node, AddUpdates(ns) PROVE TInv' /\ pc' = "check"
  <2>1. /\ in' = in \cup ns /\ users' = UsersWith(users, ns) /\ asked' = AskedWith(asked, ns)
        /\ pc' = "check" /\ UNCHANGED <<plan, kept, satisfied, edges>>
        BY <1>3 DEF AddUpdates
  <2>2. late' \subseteq Node \X Dep
        BY <1>3 DEF AddUpdates
  <2> QED  BY <2>1, <2>2, UsersType, AskedType
<1>4. ASSUME NEW ns \in SUBSET Node, UpdateUsers(ns) PROVE TInv' /\ pc' = "check"
  <2>1. /\ in' = in \cup ns /\ users' = UsersWith(NoUsers, in \cup ns)
        /\ asked' = AskedWith(NoneAsked, in \cup ns)
        /\ pc' = "check" /\ satisfied' = {} /\ edges' = {} /\ late' = {} /\ UNCHANGED <<plan, kept>>
        BY <1>4 DEF UpdateUsers, StartOver
  <2> HIDE DEF NoUsers, NoneAsked
  <2> QED  BY <1>1, <2>1, UsersType, AskedType
<1>5. ASSUME NEW ns \in SUBSET Node, KeepErased(ns) PROVE TInv' /\ pc' = "check"
  <2>1. /\ in' = in \ ns /\ kept' = kept \cup ns
        /\ edges' = {e \in edges : e[1] \notin ns /\ e[2] \notin ns}
        /\ pc' = "check" /\ UNCHANGED <<plan, users, satisfied, asked, late>>
        BY <1>5 DEF KeepErased
  <2>2. edges' \subseteq in' \X in'
        BY <2>1
  <2> QED  BY <2>1, <2>2
<1>6. ASSUME NEW ns \in SUBSET Node, KeepBeside(ns) PROVE TInv' /\ pc' = "check"
  <2> DEFINE left == in \ {n \in ns : plan.new[n] = NoTrove}
  <2>1. /\ in' = left /\ users' = UsersWith(NoUsers, left) /\ kept' = kept \cup ns
        /\ pc' = "check" /\ satisfied' = {} /\ edges' = {} /\ late' = {} /\ plan' = plan
        BY <1>6 DEF KeepBeside, StartOver
  <2>2. asked' \in [Holder \X Dep -> {"no", "open", "twice"}]
        BY <1>6 DEF KeepBeside
  <2>3. left \in SUBSET Node
        OBVIOUS
  <2> HIDE DEF NoUsers, left
  <2> QED  BY <1>1, <2>1, <2>2, <2>3, UsersType
<1>7. ASSUME Check
      PROVE  TInv' /\ pc' \in {"errors", "accepted"} /\ Bound'
  <2>1. /\ pc' \in {"errors", "accepted"} /\ UNCHANGED <<plan, in, kept, users, asked, late>>
        /\ satisfied' = satisfied \cup {d \in Needs : Found(d)} \cup {q \in OldNeeds : Found(q[2])}
        BY <1>7 DEF Check
  <2>2. /\ edges' \subseteq in \X in /\ \A e \in edges' : e[1] # e[2]
        /\ Collections \cup Rings \subseteq edges'
        /\ plan.final \cap in # {} => \A n \in in \ plan.final : \E e \in edges' : e[1] = n
        BY <1>7, CheckEdges
  <2>3. satisfied' \subseteq Dep \cup (Holder \X Dep)
        BY <2>1 DEF Needs, OldNeeds
  <2>4. Collections' = Collections /\ Rings' = Rings
        BY <2>1 DEF Collections, Rings
  <2> QED  BY <2>1, <2>2, <2>3, <2>4 DEF Bound
<1> QED  BY <1>2, <1>3, <1>4, <1>5, <1>6, <1>7 DEF Rounds

LEMMA Unwalked ==
    ASSUME First, Third, UNCHANGED <<in, edges, pc, walked, rank, steps>>
    PROVE  First' /\ Third'
<1>1. /\ Walk' = Walk /\ \A x, y : Reaches(x, y)' <=> Reaches(x, y)
      BY DEF Walk, Reaches
<1>2. First'
      BY <1>1 DEF First
<1>3. pc = "third" => Components(steps)'
      BY <1>1 DEF Third, Components
<1>4. pc = "third" => (walked = {e \in (DOMAIN steps) \X (DOMAIN steps) :
                   e[1] # e[2] /\ \E a \in steps[e[1]], b \in steps[e[2]] : <<a, b>> \in edges})'
      BY DEF Third
<1>5. pc = "third" => (Walk = DOMAIN steps)'
      BY <1>1 DEF Third
<1> QED  BY <1>2, <1>3, <1>4, <1>5 DEF Third

\* Where no walk is, its invariants say nothing.
LEMMA Idle ==
    pc \notin Walking \cup {"ordered"} => WalkInv /\ First /\ Second /\ Third /\ Sorted
BY DEF WalkInv, First, Second, Third, Sorted, Walking, Ordered

LEMMA NextOInv == OInv /\ [Next]_vars => OInv'
<1> SUFFICES ASSUME OInv, [Next]_vars PROVE OInv'
    OBVIOUS
<1>0. TInv /\ WalkInv /\ First /\ Second /\ Third /\ Bound /\ Sorted /\ edges \subseteq in \X in
      BY DEF OInv, TInv
<1>1. CASE Rounds
  <2>1. TInv' /\ pc' \in {"check", "errors", "accepted"} /\ (pc' = "accepted" => Bound')
        BY <1>0, <1>1, RoundsTInv
  <2>2. Bound'
        BY <2>1 DEF Bound, Walking
  <2>3. (pc \notin Walking \cup {"ordered"})'
        BY <2>1 DEF Walking
  <2>4. (WalkInv /\ First /\ Second /\ Third /\ Sorted)'
        BY <2>3, Idle, PTL
  <2> QED  BY <2>1, <2>2, <2>4 DEF OInv
<1>2. CASE Root \/ Visit
  <2>1. pc \in Walking /\ UNCHANGED <<plan, in, kept, users, satisfied, asked, edges, late, pc, walked,
                                      rank, steps>>
        BY <1>2 DEF Root, Visit, tables, result
  <2>2. Walks
        BY <1>0, <2>1 DEF WalkInv
  <2>3. Walks'
        BY <1>2, <2>2, RootWalks, VisitWalks
  <2>4. Second'
    <3>1. CASE pc = "second"
          BY <1>0, <1>2, <2>2, <3>1, RootSecond, VisitSecond
    <3>2. CASE pc # "second"
          BY <2>1, <3>2 DEF Second
    <3> QED  BY <3>1, <3>2
  <2>6. First' /\ Third'
        BY <1>0, <2>1, Unwalked
  <2>7. TInv' /\ Bound'
        BY <1>0, <2>1 DEF TInv, Bound, Collections, Rings
  <2>8. Sorted'
        BY <2>1 DEF Sorted, Ordered, Walking
  <2> QED  BY <2>1, <2>3, <2>4, <2>6, <2>7, <2>8 DEF OInv, WalkInv
<1>3. CASE Connect
  <2>1. /\ pc = "accepted" /\ pc' = "first"
        /\ UNCHANGED <<plan, in, kept, users, satisfied, asked, edges, late>>
        BY <1>3 DEF Connect, tables
  <2>2. PICK nodes \in Ascending(in) : Start(edges, nodes)
        BY <1>3 DEF Connect
  <2>3. nodes \in Seq(in) /\ Distinct(nodes) /\ ToSet(nodes) = in
    <3>1. IsFiniteSet(in)
          BY <1>0, NodeAssumption, FS_Subset DEF TInv
    <3> QED  BY <3>1, Sequenced DEF Ascending
  <2>4. Walks'
        BY <1>0, <2>2, <2>3, Starts
  <2>5. First'
        BY <2>1, <2>2, <2>3 DEF First, Start, Walk
  <2>6. TInv' /\ Bound'
        BY <1>0, <2>1 DEF TInv, Bound, Collections, Rings, Walking
  <2>7. Second' /\ Third' /\ Sorted'
        BY <2>1 DEF Second, Third, Sorted, Ordered
  <2> QED  BY <2>4, <2>5, <2>6, <2>7 DEF OInv, WalkInv
<1>4. CASE ConnectBack
  <2>1. /\ pc = "first" /\ pc' = "second"
        /\ UNCHANGED <<plan, in, kept, users, satisfied, asked, edges, late>>
        BY <1>4 DEF ConnectBack, tables
  <2>2. Walks
        BY <1>0, <2>1 DEF WalkInv, Walking
  <2>3. Walks' /\ Second'
        BY <1>0, <1>4, <2>2, ConnectBackSecond
  <2>4. TInv' /\ Bound'
        BY <1>0, <2>1 DEF TInv, Bound, Collections, Rings, Walking
  <2>5. First' /\ Third' /\ Sorted'
        BY <2>1 DEF First, Third, Sorted, Ordered
  <2> QED  BY <2>3, <2>4, <2>5 DEF OInv, WalkInv
<1>5. CASE OrderJobSets
  <2>1. /\ pc = "second" /\ pc' = "third"
        /\ UNCHANGED <<plan, in, kept, users, satisfied, asked, edges, late>>
        BY <1>5 DEF OrderJobSets, tables
  <2>2. Walks
        BY <1>0, <2>1 DEF WalkInv, Walking
  <2>3. Walks' /\ Third'
        BY <1>0, <1>5, <2>2, OrderJobSetsThird
  <2>4. TInv' /\ Bound'
        BY <1>0, <2>1 DEF TInv, Bound, Collections, Rings, Walking
  <2>5. First' /\ Second' /\ Sorted'
        BY <2>1 DEF First, Second, Sorted, Ordered
  <2> QED  BY <2>3, <2>4, <2>5 DEF OInv, WalkInv
<1>6. CASE TotalOrdering
  <2>1. /\ pc = "third" /\ UNCHANGED <<plan, in, kept, users, satisfied, asked, edges, late>>
        BY <1>6 DEF TotalOrdering, tables
  <2>2. Walks
        BY <1>0, <2>1 DEF WalkInv, Walking
  <2>3. pc' = "ordered" /\ Components(order)' /\ StepsSorted'
        BY <1>0, <1>6, <2>2, TotalOrderingSorted
  <2>4. TInv' /\ Bound'
        BY <1>0, <2>1, <2>3 DEF TInv, Bound, Collections, Rings, Walking
  <2>5. First' /\ Second' /\ Third' /\ WalkInv'
        BY <2>3 DEF First, Second, Third, WalkInv, Walking
  <2> QED  BY <2>3, <2>4, <2>5 DEF OInv, Sorted
<1>7. CASE UNCHANGED vars
  <2>1. /\ UNCHANGED <<plan, in, kept, users, satisfied, asked, edges, late, pc, walked, rank, todo, stack>>
        /\ UNCHANGED <<begun, done, trees, steps, order>>
        BY <1>7 DEF vars, tables, walk, result
  <2>2. /\ Walk' = Walk
        /\ \A x, y : (Leads(x, y)' <=> Leads(x, y)) /\ (Reaches(x, y)' <=> Reaches(x, y))
                     /\ (Pulled(x, y)' <=> Pulled(x, y))
        BY <2>1 DEF Walk, Leads, Reaches, Pulled
  <2>3. TInv' /\ Bound'
        BY <1>0, <2>1 DEF TInv, Bound, Collections, Rings
  <2>4. WalkInv'
    <3>1. ASSUME Walks PROVE Walks'
      <4>1. WalkTypes' /\ Kept' /\ Finishing' /\ Nested' /\ Pending' /\ Finished'
            BY <2>1, <2>2, <3>1 DEF Walks, WalkTypes, Kept, Finishing, Active, Nested, Pending, Finished
      <4>2. Above' /\ Descends' /\ Forest'
            BY <2>1, <2>2, <3>1 DEF Walks, Above, Descends, Forest
      <4> QED  BY <4>1, <4>2 DEF Walks
    <3> QED  BY <1>0, <2>1, <3>1 DEF WalkInv
  <2>5. First' /\ Third'
        BY <1>0, <2>1, Unwalked
  <2>6. Second'
    <3>1. \A i, r : Around(i, r)' <=> Around(i, r)
          BY <2>1, <2>2 DEF Around
    <3>2. \A r : Rooted(r)' <=> Rooted(r)
          BY <2>1, <3>1 DEF Rooted
    <3> QED  BY <1>0, <2>1, <2>2, <3>1, <3>2 DEF Second
  <2>7. Sorted'
        BY <1>0, <2>1, <2>2 DEF Sorted, Ordered, Components, StepsSorted
  <2> QED  BY <2>3, <2>4, <2>5, <2>6, <2>7 DEF OInv
<1> QED  BY <1>1, <1>2, <1>3, <1>4, <1>5, <1>6, <1>7 DEF Next, Rounds

-----------------------------------------------------------------------------
(* What the invariant says.                                                *)

LEMMA OInvType == OInv => TypeOK
BY DEF OInv, TInv, TypeOK, Sorted, Ordered, Components

\* Every variable has its type, an update whose dependencies are met is always
\* ordered (getTotalOrdering raises no BackEdgeError), and the steps hold all
\* jobs.
THEOREM TypeCorrect == Spec => []TypeOK
BY InitOInv, NextOInv, OInvType, PTL DEF Spec

\* The steps of an update are the strongly connected components of the graph of
\* its jobs, whatever the graph, and no job of a step has to go before one of an
\* earlier step: getStronglyConnectedComponents and getTotalOrdering of graph.py
\* are right.
THEOREM StepsInOrder == Spec => []StepsSorted
<1>1. OInv => StepsSorted
      BY DEF OInv, Sorted, StepsSorted
<1> QED  BY <1>1, InitOInv, NextOInv, PTL DEF Spec

\* No job that is not final makes the last step alone where a final job is among
\* the jobs: every leaf goes before them, and only a cycle has none.
THEOREM FinalsAtEnd == Spec => []FinalsLast
<1>1. ASSUME OInv, Ordered, plan.final \cap in # {}, NEW n \in in \ plan.final,
             order[Len(order)] = {n}
      PROVE  FALSE
  <2>1. /\ order \in Seq(SUBSET in) /\ UNION ToSet(order) = in /\ edges \subseteq in \X in
        /\ \A i, j \in DOMAIN order : \A c \in order[i], d \in order[j] : Reaches(c, d) => i <= j
        /\ \A e \in edges : e[1] # e[2]
        BY <1>1 DEF OInv, TInv, Sorted, Components, StepsSorted
  <2>2. PICK e \in edges : e[1] = n
        BY <1>1 DEF OInv, Bound, Ordered
  <2>3. e[2] \in in /\ e[2] # n /\ Reaches(n, e[2])
        BY <2>1, <2>2 DEF Reaches
  <2>4. PICK i \in DOMAIN order : e[2] \in order[i]
        BY <2>1, <2>3 DEF ToSet
  <2>5. DOMAIN order = 1..Len(order) /\ Len(order) \in Nat
        BY <2>1
  <2>6. Len(order) \in DOMAIN order
        BY <2>4, <2>5
  <2>7. Len(order) <= i
        BY <1>1, <2>1, <2>3, <2>4, <2>6
  <2>8. i = Len(order)
        BY <2>4, <2>5, <2>7
  <2> QED  BY <1>1, <2>3, <2>4, <2>8
<1>2. OInv => FinalsLast
      BY <1>1 DEF FinalsLast
<1> QED  BY <1>2, InitOInv, NextOInv, PTL DEF Spec

\* What has to go before a job of the first steps is in the first steps.
LEMMA Downward ==
    ASSUME OInv, Ordered, NEW k \in 0..Len(order), NEW a \in in, NEW b \in Prefix(k), Reaches(a, b)
    PROVE  a \in Prefix(k)
<1>1. /\ order \in Seq(SUBSET in) /\ UNION ToSet(order) = in
      /\ \A i, j \in DOMAIN order : \A c \in order[i], d \in order[j] : Reaches(c, d) => i <= j
      BY DEF OInv, Sorted, Components, StepsSorted
<1>2. DOMAIN order = 1..Len(order) /\ Len(order) \in Nat
      BY <1>1
<1>3. PICK j \in 1..k : b \in order[j]
      BY DEF Prefix
<1>4. PICK i \in DOMAIN order : a \in order[i]
      BY <1>1 DEF ToSet
<1>5. i <= j
      BY <1>1, <1>2, <1>3, <1>4
<1>6. i \in 1..k
      BY <1>2, <1>3, <1>4, <1>5
<1> QED  BY <1>4, <1>6 DEF Prefix

\* From every job of a ring one comes to every other: to the next ones, from
\* the last to the first, and on.
LEMMA RingReaches ==
    ASSUME Rings \subseteq edges, edges \subseteq in \X in, NEW s \in plan.linked, NEW n \in Nat,
           DOMAIN s = 1..n,
           NEW i \in DOMAIN s, NEW j \in DOMAIN s, s[i] \in in, s[j] \in in
    PROVE  Reaches(s[i], s[j])
<1> SUFFICES ASSUME NEW S \in SUBSET in, s[i] \in S, \A e \in edges : e[1] \in S => e[2] \in S
             PROVE  s[j] \in S
    BY DEF Reaches
<1> DEFINE At == {k \in DOMAIN s : s[k] \in in}
           A == {k \in At : s[k] \in S}
<1>1. At \subseteq 1..n /\ A \subseteq At /\ i \in A /\ j \in At
      OBVIOUS
<1>2. ASSUME NEW k \in At, NEW l \in At,
             \/ k < l /\ \A m \in At : m <= k \/ l <= m
             \/ l < k /\ \A m \in At : l <= m /\ m <= k,
             k \in A
      PROVE  l \in A
  <2>1. <<s[k], s[l]>> \in Rings
    <3> DEFINE T == {y \in At \X At :
                       \/ y[1] < y[2] /\ \A m \in At : m <= y[1] \/ y[2] <= m
                       \/ y[2] < y[1] /\ \A m \in At : y[2] <= m /\ m <= y[1]}
               R == {<<s[x[1]], s[x[2]]>> : x \in T}
    <3>1. <<k, l>>[1] = k /\ <<k, l>>[2] = l /\ <<k, l>> \in At \X At
          OBVIOUS
    <3>2. <<k, l>> \in T
          BY <1>2, <3>1
    <3>3. <<s[k], s[l]>> \in R
      <4> HIDE DEF T
      <4> QED  BY <3>1, <3>2
    <3>4. R \subseteq Rings
          BY DEF Rings
    <3> QED  BY <3>3, <3>4
  <2>2. <<s[k], s[l]>> \in edges
        BY <2>1
  <2>3. s[l] \in S
        BY <1>2, <2>2
  <2> QED  BY <2>3
<1> HIDE DEF A, At
<1>3. ASSUME NEW p \in A, NEW q \in At, p <= q PROVE q \in A
  <2> SUFFICES ASSUME q \notin A PROVE FALSE
      OBVIOUS
  <2> DEFINE B == {m \in At : p <= m /\ m \notin A}
  <2>1. B \in SUBSET Nat /\ q \in B
    <3>1. \A m \in At : m \in Nat
          BY <1>1
    <3> QED  BY <1>3, <3>1
  <2>2. PICK l \in B : \A m \in B : l <= m
    <3>1. B # {}
          BY <2>1
    <3> HIDE DEF B
    <3> QED  BY <2>1, <3>1, Least
  <2> DEFINE C == {m \in At : p <= m /\ m < l}
  <2>3. l \in At /\ l \notin A /\ p < l /\ l \in 1..n /\ p \in 1..n
    <3>1. l \in At /\ l \notin A /\ p <= l
          BY <2>2
    <3>2. l \in 1..n /\ p \in 1..n
          BY <1>1, <3>1
    <3>3. p # l
          BY <3>1
    <3> QED  BY <3>1, <3>2, <3>3
  <2>4. C \subseteq 1..n /\ p \in C
    <3>1. p <= p
          BY <2>3
    <3> QED  BY <1>1, <2>3, <3>1
  <2>5. PICK k \in C : \A m \in C : m <= k
    <3> HIDE DEF C
    <3> QED  BY <2>4, Greatest
  <2>6. k \in A
        BY <1>1, <2>2, <2>3, <2>5
  <2>7. \A m \in At : m <= k \/ l <= m
    <3> SUFFICES ASSUME NEW m \in At, ~ (l <= m) PROVE m <= k
        OBVIOUS
    <3>1. m \in 1..n /\ k \in 1..n /\ p <= k
          BY <1>1, <2>5
    <3>2. CASE p <= m
          BY <2>3, <2>5, <3>1, <3>2
    <3>3. CASE ~ (p <= m)
          BY <2>3, <3>1, <3>3
    <3> QED  BY <3>2, <3>3
  <2>8. k < l /\ k \in At
        BY <2>5
  <2> QED  BY <1>2, <2>3, <2>6, <2>7, <2>8
<1>4. PICK g \in At : \A m \in At : m <= g
      BY <1>1, Greatest
<1>5. PICK f \in At : \A m \in At : f <= m
  <2>1. At \in SUBSET Nat /\ At # {}
        BY <1>1
  <2> QED  BY <2>1, Least
<1>6. g \in A
      BY <1>1, <1>3, <1>4
<1>7. f \in A
  <2>1. f = g \/ f < g
    <3>1. f \in 1..n /\ g \in 1..n /\ f <= g
          BY <1>1, <1>4, <1>5
    <3> QED  BY <3>1
  <2> QED  BY <1>2, <1>4, <1>5, <1>6, <2>1
<1>8. j \in A
      BY <1>1, <1>3, <1>5, <1>7
<1> QED  BY <1>8 DEF A

LEMMA OInvWhole == OInv => WholePackages
<1> SUFFICES ASSUME OInv, Ordered, NEW k \in 1..Len(order)
             PROVE  /\ \A w \in plan.within :
                          w[2] \in Prefix(k) /\ w[1] \in in => w[1] \in Prefix(k)
                    /\ \A s \in plan.linked : \/ ToSet(s) \cap in \subseteq Prefix(k)
                                              \/ ToSet(s) \cap Prefix(k) = {}
    BY DEF WholePackages
<1>1. /\ Collections \subseteq edges /\ Rings \subseteq edges /\ edges \subseteq in \X in
      /\ plan \in Plans
      BY DEF OInv, TInv, Bound, Ordered
<1>2. k \in 0..Len(order)
      OBVIOUS
<1>3. Prefix(k) \subseteq in
  <2>1. order \in Seq(SUBSET in)
        BY DEF OInv, Sorted, Components
  <2>2. \A i \in 1..k : i \in 1..Len(order)
        OBVIOUS
  <2> QED  BY <2>1, <2>2 DEF Prefix
<1>4. ASSUME NEW w \in plan.within, w[2] \in Prefix(k), w[1] \in in PROVE w[1] \in Prefix(k)
  <2>1. w = <<w[1], w[2]>>
        BY <1>1, PlansAssumption
  <2>2. <<w[1], w[2]>> \in edges
        BY <1>1, <1>3, <1>4, <2>1 DEF Collections
  <2>3. Reaches(w[1], w[2])
        BY <1>3, <1>4, <2>2, Reach
  <2> QED  BY <1>2, <1>4, <2>3, Downward
<1>5. ASSUME NEW s \in plan.linked, NEW x \in ToSet(s) \cap Prefix(k), NEW y \in ToSet(s) \cap in
      PROVE  y \in Prefix(k)
  <2>1. s \in Seq(Node)
        BY <1>1, PlansAssumption
  <2>2. DOMAIN s = 1..Len(s) /\ Len(s) \in Nat
        BY <2>1
  <2>3. PICK i \in DOMAIN s, j \in DOMAIN s : y = s[i] /\ x = s[j]
        BY DEF ToSet
  <2>4. Reaches(y, x)
        BY <1>1, <1>3, <2>2, <2>3, RingReaches
  <2> QED  BY <1>2, <2>4, Downward
<1> QED  BY <1>4, <1>5

\* A package comes when all its components have come, and jobs that overlap in
\* the file system come in one step, however the graph ties them to others.
THEOREM WholeTogether == Spec => []WholePackages
BY InitOInv, NextOInv, OInvWhole, PTL DEF Spec

-----------------------------------------------------------------------------
(* The invariants of the rounds.                                           *)

\* The troves of the system have what they require.
StartsClosed == \A w \in Holder : \A d \in Requires(Installed(w)) :
    \E v \in Holder : d \in Provides(Installed(v))

Fresh == pc = "add" =>
    users = [d \in Dep |-> {}] /\ satisfied = {} /\ \A q \in Holder \X Dep : asked[q] = "no"

\* What jobs require is known, and what requires something that goes is asked
\* for, once.
Known == \A d \in Dep :
    /\ \A n \in in : d \in Requires(plan.new[n]) => n \in users[d]
    /\ \A n \in users[d] : d \in Requires(plan.new[n])

Inquired == \A w \in Holder, d \in Dep :
    /\ asked[<<w, d>>] # "twice"
    /\ asked[<<w, d>>] = "open" => d \in Requires(Installed(w))
    /\ d \in Requires(Installed(w)) /\ OldProviders(d) # {} => asked[<<w, d>>] = "open"

\* p goes before r, or r can do with what p replaces.
Ahead(p, r, d) == p = r \/ <<p, r>> \in edges \/ p \in OldProviders(d)

\* A need of new troves that is settled: something that stays provides it, or
\* something that comes before all of its users, but for those that came late.
MetNew(d) ==
    \/ StayProviders(d) # {}
    \/ \E p \in NewProviders(d) :
          \A r \in in : d \in Requires(plan.new[r]) /\ <<r, d>> \notin late => Ahead(p, r, d)

\* What w requires goes only after w, or is replaced by the job that removes it.
GoneBefore(w, d) ==
    w \in Removing /\ \A p \in OldProviders(d) \ NewProviders(d) : p = w \/ <<w, p>> \in edges

\* A need of an installed trove that is settled.
MetOld(w, d) ==
    \/ StayProviders(d) # {}
    \/ \E l \in OldProviders(d), g \in NewProviders(d) : l = g \/ <<g, l>> \in edges
    \/ GoneBefore(w, d)
    \/ Torn(<<w, d>>)

NeedsMet ==
    /\ \A d \in Dep : d \in satisfied => MetNew(d)
    /\ \A w \in Holder, d \in Dep :
          <<w, d>> \in satisfied => asked[<<w, d>>] = "open" /\ MetOld(w, d)

\* An update that is accepted has settled them all, but for those that go with
\* the trove that has them.
Settled == pc \in {"accepted", "ordered"} \cup Walking =>
    /\ \A d \in Dep : users[d] # {} => d \in satisfied
    /\ \A w \in Holder, d \in Dep :
          asked[<<w, d>>] = "open" /\ OldProviders(d) # {} =>
             <<w, d>> \in satisfied \/ GoneBefore(w, d)

SInv == TInv /\ StartsClosed /\ Fresh /\ Known /\ Inquired /\ NeedsMet /\ Settled

-----------------------------------------------------------------------------
(* Who provides a dependency.                                              *)

LEMMA Providers ==
    ASSUME TInv, NEW d
    PROVE  /\ OldProviders(d) = {n \in in \ kept : d \in Provides(plan.old[n])}
           /\ StayProviders(d) = {w \in Holder : d \in Provides(Installed(w)) /\ w \notin in \ kept}
           /\ NewProviders(d) = {n \in in : d \in Provides(plan.new[n])}
           /\ \A n \in Node : n \in Holder /\ n # Stay /\ Installed(n) = plan.old[n]
           /\ Removing \subseteq in \ kept /\ Removing \subseteq Node
           /\ {w \in Holder : d \in Provides(Installed(w))} \subseteq StayProviders(d) \cup OldProviders(d)
<1>1. \A n \in Node : n \in Holder /\ n # Stay /\ Installed(n) = plan.old[n]
      BY NodeAssumption DEF Holder, Stay, Installed
<1>2. \A n \in Node : plan.old[n] = NoTrove => d \notin Provides(plan.old[n])
      BY DEF Provides
<1>3. in \subseteq Node
      BY DEF TInv
<1>4. Removing \subseteq in \ kept /\ Removing \subseteq Node
      BY <1>3 DEF Removing
<1>5. OldProviders(d) = {n \in in \ kept : d \in Provides(plan.old[n])}
      BY <1>2, <1>3 DEF OldProviders, Removing
<1>6. StayProviders(d) = {w \in Holder : d \in Provides(Installed(w)) /\ w \notin in \ kept}
      BY <1>1, <1>2, <1>3 DEF StayProviders, Removing
<1>7. {w \in Holder : d \in Provides(Installed(w))} \subseteq StayProviders(d) \cup OldProviders(d)
      BY <1>1, <1>3, <1>5, <1>6
<1> QED  BY <1>1, <1>4, <1>5, <1>6, <1>7 DEF NewProviders

LEMMA InitSInv == Init => SInv
<1> SUFFICES ASSUME Init PROVE SInv
    OBVIOUS
<1>1. /\ in = {} /\ kept = {} /\ pc = "add" /\ satisfied = {} /\ Closed(After({}))
      /\ asked = [q \in Holder \X Dep |-> "no"] /\ users = [d \in Dep |-> {}]
      BY DEF Init, NoTables
<1>2. TInv
      BY InitOInv DEF OInv
<1>3. StartsClosed
  <2>1. After({}) = {Installed(w) : w \in Holder}
        BY DEF After
  <2> SUFFICES ASSUME NEW w \in Holder, NEW d \in Requires(Installed(w))
               PROVE  \E v \in Holder : d \in Provides(Installed(v))
        BY DEF StartsClosed
  <2>2. d \in UNION {Provides(s) : s \in After({})}
        BY <1>1, <2>1 DEF Closed
  <2> QED  BY <2>1, <2>2
<1>4. Inquired
  <2> SUFFICES ASSUME NEW w \in Holder, NEW d \in Dep
               PROVE  asked[<<w, d>>] = "no" /\ OldProviders(d) = {}
        BY DEF Inquired
  <2>1. <<w, d>> \in Holder \X Dep
        OBVIOUS
  <2> QED  BY <1>1, <1>2, <2>1, Providers
<1>5. Fresh /\ Known /\ NeedsMet /\ Settled
      BY <1>1 DEF Fresh, Known, NeedsMet, Settled, Walking
<1> QED  BY <1>2, <1>3, <1>4, <1>5 DEF SInv

\* mergeRemoves asks once for what had not been asked for.
LEMMA Merged ==
    ASSUME TInv, NEW ns \in SUBSET Node, NEW as \in [Holder \X Dep -> {"no", "open", "twice"}],
           NEW w \in Holder, NEW d \in Dep,
           as[<<w, d>>] # "twice",
           as[<<w, d>>] = "open" => d \in Requires(Installed(w)),
           as[<<w, d>>] # "no" => \A n \in ns \ kept : d \notin Provides(plan.old[n])
    PROVE  LET a == AskedWith(as, ns)[<<w, d>>]
           IN  /\ a # "twice" /\ (as[<<w, d>>] = "open" => a = "open")
               /\ a = "open" => d \in Requires(Installed(w))
               /\ d \in Requires(Installed(w)) /\ (\E n \in ns \ kept : d \in Provides(plan.old[n]))
                    => a = "open"
<1>1. <<w, d>> \in Holder \X Dep /\ <<w, d>>[1] = w /\ <<w, d>>[2] = d
      OBVIOUS
<1>2. AskedWith(as, ns)[<<w, d>>] =
        IF d \in Requires(Installed(w)) /\ \E n \in ns \ kept : d \in Provides(plan.old[n])
          THEN IF as[<<w, d>>] = "no" THEN "open" ELSE "twice"
          ELSE as[<<w, d>>]
      BY <1>1 DEF AskedWith
<1>3. as[<<w, d>>] \in {"no", "open", "twice"}
      BY <1>1
<1> HIDE DEF AskedWith
<1> QED  BY <1>2, <1>3

\* The first users of the dependencies of jobs that start over.
LEMMA Users ==
    ASSUME NEW us \in [Dep -> SUBSET Node], NEW ns, NEW d \in Dep
    PROVE  UsersWith(us, ns)[d] = us[d] \cup {n \in ns : d \in Requires(plan.new[n])}
BY DEF UsersWith

\* What provides d is as Providers says, after a step as before it.
Provided ==
    \A d : /\ OldProviders(d) = {n \in in \ kept : d \in Provides(plan.old[n])}
           /\ StayProviders(d) =
                {w \in Holder : d \in Provides(Installed(w)) /\ w \notin in \ kept}

LEMMA Provision == TInv => Provided
BY Providers DEF Provided

\* What is settled stays so when a step adds jobs that have no part in it, or
\* keeps the old trove of some.
LEMMA StaysMetNew ==
    ASSUME NEW d, MetNew(d),
           StayProviders(d) \subseteq StayProviders(d)',
           NewProviders(d) \subseteq NewProviders(d)',
           StayProviders(d)' = {} => OldProviders(d) \subseteq OldProviders(d)',
           \A e \in edges : e[1] \in in' /\ e[2] \in in' => e \in edges',
           \A r \in in' : d \in Requires(plan'.new[r]) /\ <<r, d>> \notin late' =>
                              r \in in /\ d \in Requires(plan.new[r]) /\ <<r, d>> \notin late
    PROVE  MetNew(d)'
<1>1. CASE StayProviders(d)' # {}
      BY <1>1 DEF MetNew
<1>2. CASE StayProviders(d)' = {}
  <2>1. PICK p \in NewProviders(d) :
           \A r \in in : d \in Requires(plan.new[r]) /\ <<r, d>> \notin late => Ahead(p, r, d)
        BY <1>2 DEF MetNew
  <2>2. p \in NewProviders(d)' /\ p \in in'
        BY <2>1 DEF NewProviders
  <2>3. ASSUME NEW r \in in', d \in Requires(plan'.new[r]), <<r, d>> \notin late'
        PROVE  Ahead(p, r, d)'
        BY <1>2, <2>1, <2>2, <2>3 DEF Ahead
  <2> QED  BY <2>2, <2>3 DEF MetNew
<1> QED  BY <1>1, <1>2

LEMMA StaysMetOld ==
    ASSUME NEW w, NEW d, MetOld(w, d),
           StayProviders(d) \subseteq StayProviders(d)',
           NewProviders(d) \subseteq NewProviders(d)',
           StayProviders(d)' = {} => OldProviders(d) \subseteq OldProviders(d)',
           OldProviders(d)' \subseteq OldProviders(d),
           OldProviders(d)' \subseteq in', Removing' \subseteq in',
           w \in Removing => w \in Removing',
           \A e \in edges : e[1] \in in' /\ e[2] \in in' => e \in edges',
           plan' = plan
    PROVE  MetOld(w, d)'
<1>1. CASE StayProviders(d)' # {}
      BY <1>1 DEF MetOld
<1>2. CASE StayProviders(d)' = {} /\ GoneBefore(w, d)
  <2>1. w \in Removing'
        BY <1>2 DEF GoneBefore
  <2>2. ASSUME NEW p \in (OldProviders(d) \ NewProviders(d))' PROVE p = w \/ <<w, p>> \in edges'
    <3>1. p \in OldProviders(d) \ NewProviders(d) /\ p \in in' /\ w \in in'
          BY <2>1, <2>2
    <3> QED  BY <1>2, <3>1 DEF GoneBefore
  <2> QED  BY <2>1, <2>2 DEF MetOld, GoneBefore
<1>3. CASE StayProviders(d)' = {} /\ Torn(<<w, d>>)
  <2> DEFINE q == <<w, d>>
  <2>1. q[2] = d
        OBVIOUS
  <2> HIDE DEF q
  <2>2. Torn(q)'
        BY <1>3, <2>1 DEF Torn, q
  <2> QED  BY <2>2 DEF MetOld, q
<1>4. CASE StayProviders(d)' = {} /\ ~ GoneBefore(w, d) /\ ~ Torn(<<w, d>>)
  <2>1. PICK l \in OldProviders(d), g \in NewProviders(d) : l = g \/ <<g, l>> \in edges
        BY <1>4 DEF MetOld
  <2>2. l \in OldProviders(d)' /\ g \in NewProviders(d)' /\ l \in in' /\ g \in in'
        BY <1>4, <2>1 DEF NewProviders
  <2>3. l = g \/ <<g, l>> \in edges'
        BY <2>1, <2>2
  <2> QED  BY <2>2, <2>3 DEF MetOld
<1> QED  BY <1>1, <1>2, <1>3, <1>4

\* The troves of the system are those of the plan.
LEMMA SamePlan == SInv /\ plan' = plan => StartsClosed'
BY DEF SInv, StartsClosed, Installed

LEMMA AddJobsSInv ==
    ASSUME SInv, NEW ns \in SUBSET Node, AddJobs(ns)
    PROVE  SInv'
<1>1. /\ pc = "add" /\ in = {} /\ in' = ns /\ pc' = "check"
      /\ users' = UsersWith(users, ns) /\ asked' = AskedWith(asked, ns)
      /\ UNCHANGED <<plan, kept, satisfied, edges>>
      BY DEF AddJobs
<1>2. TInv /\ satisfied = {} /\ \A q \in Holder \X Dep : asked[q] = "no"
      BY <1>1 DEF SInv, Fresh
<1>3. TInv'
      BY <1>2, RoundsTInv DEF Rounds
<1>4. Provided'
      BY <1>3, Provision, PTL
<1>5. StartsClosed'
      BY <1>1, SamePlan
<1>6. Known'
  <2>1. users = [d \in Dep |-> {}]
        BY <1>1 DEF SInv, Fresh
  <2>2. \A d \in Dep : users'[d] = {n \in ns : d \in Requires(plan.new[n])}
        BY <1>1, <2>1, Users, <1>2 DEF TInv
  <2> QED  BY <1>1, <2>2 DEF Known
<1>7. Inquired'
  <2> SUFFICES ASSUME NEW w \in Holder, NEW d \in Dep
               PROVE  /\ asked'[<<w, d>>] # "twice"
                      /\ asked'[<<w, d>>] = "open" => d \in Requires(Installed(w))
                      /\ d \in Requires(Installed(w)) /\ OldProviders(d)' # {}
                            => asked'[<<w, d>>] = "open"
      BY <1>1 DEF Inquired, Installed
  <2>1. <<w, d>> \in Holder \X Dep /\ asked[<<w, d>>] = "no"
        BY <1>2
  <2>2. OldProviders(d)' = {n \in ns \ kept : d \in Provides(plan.old[n])}
        BY <1>1, <1>4 DEF Provided
  <2>3. asked \in [Holder \X Dep -> {"no", "open", "twice"}]
        BY <1>2 DEF TInv
  <2>4. /\ asked'[<<w, d>>] # "twice"
        /\ asked'[<<w, d>>] = "open" => d \in Requires(Installed(w))
        /\ d \in Requires(Installed(w)) /\ (\E n \in ns \ kept : d \in Provides(plan.old[n]))
             => asked'[<<w, d>>] = "open"
    <3> DEFINE a == AskedWith(asked, ns)[<<w, d>>]
    <3>1. /\ TInv /\ asked[<<w, d>>] # "twice" /\ asked[<<w, d>>] # "open"
          /\ asked[<<w, d>>] # "no" => \A n \in ns \ kept : d \notin Provides(plan.old[n])
          BY <1>2, <2>1
    <3>2. /\ a # "twice" /\ (a = "open" => d \in Requires(Installed(w)))
          /\ d \in Requires(Installed(w)) /\ (\E n \in ns \ kept : d \in Provides(plan.old[n]))
               => a = "open"
          BY <2>3, <3>1, Merged
    <3> QED  BY <1>1, <3>2
  <2> QED  BY <2>2, <2>4
<1>8. Fresh' /\ NeedsMet' /\ Settled'
      BY <1>1, <1>2 DEF Fresh, NeedsMet, Settled, Walking
<1> QED  BY <1>3, <1>5, <1>6, <1>7, <1>8 DEF SInv

\* Without the mishaps, what later jobs add or remove is not settled.
LEMMA AddUpdatesSInv ==
    ASSUME SInv, Mishaps = {}, NEW ns \in SUBSET Node, AddUpdates(ns)
    PROVE  SInv'
<1>1. /\ pc' = "check" /\ ns \cap (in \cup kept) = {} /\ in' = in \cup ns
      /\ users' = UsersWith(users, ns) /\ asked' = AskedWith(asked, ns)
      /\ late' = late \cup {x \in ns \X Dep : x[2] \in Requires(plan.new[x[1]]) \cap satisfied}
      /\ UNCHANGED <<plan, kept, satisfied, edges>>
      BY DEF AddUpdates
<1>2. \A n \in ns : \A d \in Provides(plan.old[n]) :
         d \notin satisfied /\ \A w \in Holder : asked[<<w, d>>] = "no"
      BY DEF AddUpdates
<1>3. TInv /\ Known /\ Inquired /\ NeedsMet
      BY DEF SInv
<1>4. TInv'
      BY <1>3, RoundsTInv DEF Rounds
<1>5. Provided /\ Provided'
      BY <1>3, <1>4, Provision, PTL
<1>6. StartsClosed'
      BY <1>1, SamePlan
<1>7. Known'
  <2>1. \A d \in Dep : users'[d] = users[d] \cup {m \in ns : d \in Requires(plan.new[m])}
        BY <1>1, <1>3, Users DEF TInv
  <2> QED  BY <1>1, <1>3, <2>1 DEF Known
<1>8. Inquired' /\ \A w \in Holder, d \in Dep :
                     asked[<<w, d>>] = "open" => asked'[<<w, d>>] = "open"
  <2> SUFFICES ASSUME NEW w \in Holder, NEW d \in Dep
               PROVE  /\ asked'[<<w, d>>] # "twice"
                      /\ asked'[<<w, d>>] = "open" => d \in Requires(Installed(w))
                      /\ asked[<<w, d>>] = "open" => asked'[<<w, d>>] = "open"
                      /\ d \in Requires(Installed(w)) /\ OldProviders(d)' # {}
                            => asked'[<<w, d>>] = "open"
      BY <1>1 DEF Inquired, Installed
  <2>1. OldProviders(d)' = {n \in (in \cup ns) \ kept : d \in Provides(plan.old[n])}
        BY <1>1, <1>5 DEF Provided
  <2>2. OldProviders(d) = {n \in in \ kept : d \in Provides(plan.old[n])}
        BY <1>5 DEF Provided
  <2>3. /\ asked[<<w, d>>] # "twice"
        /\ asked[<<w, d>>] = "open" => d \in Requires(Installed(w))
        /\ d \in Requires(Installed(w)) /\ OldProviders(d) # {} => asked[<<w, d>>] = "open"
        BY <1>3 DEF Inquired
  <2>4. asked \in [Holder \X Dep -> {"no", "open", "twice"}]
        BY <1>3 DEF TInv
  <2>5. asked[<<w, d>>] # "no" => \A n \in ns \ kept : d \notin Provides(plan.old[n])
        BY <1>2
  <2>6. /\ asked'[<<w, d>>] # "twice"
        /\ asked[<<w, d>>] = "open" => asked'[<<w, d>>] = "open"
        /\ asked'[<<w, d>>] = "open" => d \in Requires(Installed(w))
        /\ d \in Requires(Installed(w)) /\ (\E n \in ns \ kept : d \in Provides(plan.old[n]))
             => asked'[<<w, d>>] = "open"
        BY <1>1, <1>3, <2>3, <2>4, <2>5, Merged
  <2> QED  BY <2>1, <2>2, <2>3, <2>6
<1>9. ASSUME NEW d \in Dep, \A n \in ns : d \notin Provides(plan.old[n])
      PROVE  /\ StayProviders(d) \subseteq StayProviders(d)'
             /\ NewProviders(d) \subseteq NewProviders(d)'
             /\ OldProviders(d)' = OldProviders(d)
  <2>1. NewProviders(d) \subseteq NewProviders(d)'
        BY <1>1 DEF NewProviders
  <2>2. OldProviders(d)' = OldProviders(d)
        BY <1>1, <1>5, <1>9 DEF Provided
  <2>3. \A w \in Holder : w \in ns => d \notin Provides(Installed(w))
        BY <1>3, <1>9, Providers
  <2>4. StayProviders(d) \subseteq StayProviders(d)'
    <3>1. StayProviders(d)' = {w \in Holder : d \in Provides(Installed(w)) /\ w \notin in' \ kept'}
          BY <1>1, <1>5 DEF Provided, Installed
    <3>2. StayProviders(d) = {w \in Holder : d \in Provides(Installed(w)) /\ w \notin in \ kept}
          BY <1>5 DEF Provided
    <3> QED  BY <1>1, <2>3, <3>1, <3>2
  <2> QED  BY <2>1, <2>2, <2>4
<1>10. NeedsMet'
  <2>1. ASSUME NEW d \in Dep, d \in satisfied PROVE MetNew(d)'
    <3>1. \A n \in ns : d \notin Provides(plan.old[n])
          BY <1>2, <2>1
    <3>2. ASSUME NEW r \in in', d \in Requires(plan'.new[r]), <<r, d>> \notin late'
          PROVE  r \in in /\ d \in Requires(plan.new[r]) /\ <<r, d>> \notin late
      <4> DEFINE x == <<r, d>>
      <4>1. x[1] = r /\ x[2] = d /\ (r \in ns => x \in ns \X Dep)
            OBVIOUS
      <4> HIDE DEF x
      <4>2. r \notin ns
            BY <1>1, <2>1, <3>2, <4>1 DEF x
      <4> QED  BY <1>1, <3>2, <4>2
    <3>3. MetNew(d)
          BY <1>3, <2>1 DEF NeedsMet
    <3> QED  BY <1>1, <1>9, <3>1, <3>2, <3>3, StaysMetNew
  <2>2. ASSUME NEW w \in Holder, NEW d \in Dep, <<w, d>> \in satisfied
        PROVE  asked'[<<w, d>>] = "open" /\ MetOld(w, d)'
    <3>1. asked[<<w, d>>] = "open" /\ MetOld(w, d)
          BY <1>3, <2>2 DEF NeedsMet
    <3>2. \A n \in ns : d \notin Provides(plan.old[n])
          BY <1>2, <3>1
    <3>3. /\ Removing \subseteq Removing' /\ Removing' \subseteq in'
          /\ OldProviders(d)' \subseteq in'
          BY <1>1 DEF Removing, OldProviders
    <3> QED  BY <1>1, <1>8, <1>9, <3>1, <3>2, <3>3, StaysMetOld
  <2> QED  BY <1>1, <2>1, <2>2 DEF NeedsMet
<1>11. Fresh' /\ Settled'
      BY <1>1 DEF Fresh, Settled, Walking
<1> QED  BY <1>4, <1>6, <1>7, <1>8, <1>10, <1>11 DEF SInv

\* A check that starts over knows what its jobs require, and asks for what
\* requires something that goes.
LEMMA Restarted ==
    ASSUME SInv, TInv', plan' = plan, pc' = "check", satisfied' = {},
           users' = UsersWith([d \in Dep |-> {}], in'),
           \A w \in Holder, d \in Dep :
              asked'[<<w, d>>] = IF /\ d \in Requires(Installed(w))
                                    /\ \E n \in in' \ kept' : d \in Provides(plan.old[n])
                                   THEN "open" ELSE "no"
    PROVE  SInv'
<1>1. Provided'
      BY Provision, PTL
<1>2. Known'
  <2> DEFINE none == [d \in Dep |-> {}]
  <2>1. none \in [Dep -> SUBSET Node] /\ users' = UsersWith(none, in') /\ \A d \in Dep : none[d] = {}
        OBVIOUS
  <2> HIDE DEF none
  <2>2. \A d \in Dep : users'[d] = {n \in in' : d \in Requires(plan.new[n])}
        BY <2>1, Users
  <2> QED  BY <2>2 DEF Known
<1>3. Inquired'
  <2> SUFFICES ASSUME NEW w \in Holder, NEW d \in Dep
               PROVE  /\ asked'[<<w, d>>] # "twice"
                      /\ asked'[<<w, d>>] = "open" => d \in Requires(Installed(w))
                      /\ d \in Requires(Installed(w)) /\ OldProviders(d)' # {}
                            => asked'[<<w, d>>] = "open"
      BY DEF Inquired, Installed
  <2>1. OldProviders(d)' = {n \in in' \ kept' : d \in Provides(plan.old[n])}
        BY <1>1 DEF Provided
  <2> QED  BY <2>1
<1>4. StartsClosed' /\ Fresh' /\ NeedsMet' /\ Settled'
      BY SamePlan DEF Fresh, NeedsMet, Settled, Walking
<1> QED  BY <1>2, <1>3, <1>4 DEF SInv

LEMMA UpdateUsersSInv ==
    ASSUME SInv, NEW ns \in SUBSET Node, UpdateUsers(ns)
    PROVE  SInv'
<1> DEFINE none == [q \in Holder \X Dep |-> "no"]
<1>1. /\ in' = in \cup ns /\ users' = UsersWith([d \in Dep |-> {}], in')
      /\ asked' = AskedWith(none, in') /\ pc' = "check" /\ satisfied' = {}
      /\ UNCHANGED <<plan, kept>>
      BY DEF UpdateUsers, StartOver
<1>2. TInv'
      BY RoundsTInv DEF Rounds, SInv
<1>3. ASSUME NEW w \in Holder, NEW d \in Dep
      PROVE  asked'[<<w, d>>] = IF /\ d \in Requires(Installed(w))
                                   /\ \E n \in in' \ kept' : d \in Provides(plan.old[n])
                                  THEN "open" ELSE "no"
  <2>1. <<w, d>> \in Holder \X Dep /\ <<w, d>>[1] = w /\ <<w, d>>[2] = d
        OBVIOUS
  <2>2. none[<<w, d>>] = "no"
        BY <2>1
  <2> HIDE DEF none
  <2>3. asked'[<<w, d>>] =
          IF d \in Requires(Installed(w)) /\ \E n \in in' \ kept : d \in Provides(plan.old[n])
            THEN IF none[<<w, d>>] = "no" THEN "open" ELSE "twice"
            ELSE none[<<w, d>>]
        BY <1>1, <2>1 DEF AskedWith
  <2> QED  BY <1>1, <2>2, <2>3
<1> QED  BY <1>1, <1>2, <1>3, Restarted

LEMMA KeepBesideSInv ==
    ASSUME SInv, NEW ns \in SUBSET Node, KeepBeside(ns)
    PROVE  SInv'
<1>1. /\ in' = in \ {n \in ns : plan.new[n] = NoTrove} /\ kept' = kept \cup ns
      /\ users' = UsersWith([d \in Dep |-> {}], in')
      /\ asked' = [q \in Holder \X Dep |->
                     IF /\ q[2] \in Requires(Installed(q[1]))
                        /\ \E n \in in \ kept' : q[2] \in Provides(plan.old[n])
                       THEN "open" ELSE "no"]
      /\ pc' = "check" /\ satisfied' = {} /\ plan' = plan
      BY DEF KeepBeside, StartOver
<1>2. TInv'
      BY RoundsTInv DEF Rounds, SInv
<1>3. in \ kept' = in' \ kept'
      BY <1>1
<1>4. ASSUME NEW w \in Holder, NEW d \in Dep
      PROVE  asked'[<<w, d>>] = IF /\ d \in Requires(Installed(w))
                                   /\ \E n \in in' \ kept' : d \in Provides(plan.old[n])
                                  THEN "open" ELSE "no"
  <2>1. <<w, d>> \in Holder \X Dep /\ <<w, d>>[1] = w /\ <<w, d>>[2] = d
        OBVIOUS
  <2> QED  BY <1>1, <1>3, <2>1
<1> QED  BY <1>1, <1>2, <1>4, Restarted

\* What a job that is taken back would have removed stays.
LEMMA KeepErasedSInv ==
    ASSUME SInv, Mishaps = {}, NEW ns \in SUBSET Node, KeepErased(ns)
    PROVE  SInv'
<1>1. /\ in' = in \ ns /\ kept' = kept \cup ns /\ pc' = "check"
      /\ edges' = {e \in edges : e[1] \notin ns /\ e[2] \notin ns}
      /\ ns \subseteq in \ kept /\ \A n \in ns : plan.new[n] = NoTrove
      /\ \A n \in ns, d \in Dep : <<n, d>> \notin satisfied
      /\ UNCHANGED <<plan, users, satisfied, asked, late>>
      BY DEF KeepErased, Restored, Takers, Removing
<1>2. TInv /\ Known /\ Inquired /\ NeedsMet
      BY DEF SInv
<1>3. TInv'
      BY <1>2, RoundsTInv DEF Rounds
<1>4. Provided /\ Provided'
      BY <1>2, <1>3, Provision, PTL
<1>5. ASSUME NEW d \in Dep
      PROVE  /\ StayProviders(d) \subseteq StayProviders(d)'
             /\ NewProviders(d) \subseteq NewProviders(d)'
             /\ OldProviders(d)' \subseteq OldProviders(d)
             /\ StayProviders(d)' = {} => OldProviders(d) \subseteq OldProviders(d)'
  <2>1. /\ StayProviders(d)' = {w \in Holder : d \in Provides(Installed(w)) /\ w \notin in' \ kept'}
        /\ StayProviders(d) = {w \in Holder : d \in Provides(Installed(w)) /\ w \notin in \ kept}
        BY <1>1, <1>4 DEF Provided, Installed
  <2>2. /\ OldProviders(d)' = {n \in in' \ kept' : d \in Provides(plan.old[n])}
        /\ OldProviders(d) = {n \in in \ kept : d \in Provides(plan.old[n])}
        BY <1>1, <1>4 DEF Provided
  <2>3. in' \ kept' = (in \ kept) \ ns
        BY <1>1
  <2>4. NewProviders(d) \subseteq NewProviders(d)'
        BY <1>1 DEF NewProviders, Provides
  <2>5. ASSUME NEW n \in OldProviders(d), StayProviders(d)' = {} PROVE n \notin ns
    <3>1. n \in Holder /\ Installed(n) = plan.old[n]
          BY <1>2, <2>2, Providers DEF TInv
    <3> QED  BY <2>1, <2>2, <2>3, <2>5, <3>1
  <2> QED  BY <2>1, <2>2, <2>3, <2>4, <2>5
<1>6. /\ Removing' \subseteq in' /\ \A w \in Removing : w \notin ns => w \in Removing'
      /\ \A d : OldProviders(d)' \subseteq in'
      BY <1>1 DEF Removing, OldProviders
<1>7. \A e \in edges : e[1] \in in' /\ e[2] \in in' => e \in edges'
      BY <1>1
<1>8. NeedsMet'
  <2>1. ASSUME NEW d \in Dep, d \in satisfied PROVE MetNew(d)'
    <3>1. MetNew(d)
          BY <1>2, <2>1 DEF NeedsMet
    <3>2. \A r \in in' : d \in Requires(plan'.new[r]) /\ <<r, d>> \notin late' =>
                             r \in in /\ d \in Requires(plan.new[r]) /\ <<r, d>> \notin late
          BY <1>1
    <3>3. /\ StayProviders(d) \subseteq StayProviders(d)'
          /\ NewProviders(d) \subseteq NewProviders(d)'
          /\ StayProviders(d)' = {} => OldProviders(d) \subseteq OldProviders(d)'
          BY <1>5
    <3> QED  BY <1>7, <3>1, <3>2, <3>3, StaysMetNew
  <2>2. ASSUME NEW w \in Holder, NEW d \in Dep, <<w, d>> \in satisfied
        PROVE  asked'[<<w, d>>] = "open" /\ MetOld(w, d)'
    <3>1. asked[<<w, d>>] = "open" /\ MetOld(w, d)
          BY <1>2, <2>2 DEF NeedsMet
    <3>2. w \in Removing => w \in Removing'
          BY <1>1, <1>6, <2>2
    <3>3. /\ StayProviders(d) \subseteq StayProviders(d)'
          /\ NewProviders(d) \subseteq NewProviders(d)'
          /\ OldProviders(d)' \subseteq OldProviders(d)
          /\ StayProviders(d)' = {} => OldProviders(d) \subseteq OldProviders(d)'
          /\ OldProviders(d)' \subseteq in' /\ Removing' \subseteq in'
          BY <1>5, <1>6
    <3>4. MetOld(w, d)'
          BY <1>1, <1>7, <3>1, <3>2, <3>3, StaysMetOld
    <3> QED  BY <1>1, <3>1, <3>4
  <2> QED  BY <1>1, <2>1, <2>2 DEF NeedsMet
<1>9. Known'
      BY <1>1, <1>2 DEF Known
<1>10. Inquired'
  <2> SUFFICES ASSUME NEW w \in Holder, NEW d \in Dep
               PROVE  /\ asked[<<w, d>>] # "twice"
                      /\ asked[<<w, d>>] = "open" => d \in Requires(Installed(w))
                      /\ d \in Requires(Installed(w)) /\ OldProviders(d)' # {}
                            => asked[<<w, d>>] = "open"
      BY <1>1 DEF Inquired, Installed
  <2> QED  BY <1>2, <1>5 DEF Inquired
<1>11. StartsClosed' /\ Fresh' /\ Settled'
      BY <1>1, SamePlan DEF Fresh, Settled, Walking
<1> QED  BY <1>3, <1>8, <1>9, <1>10, <1>11 DEF SInv

\* What a round finds is settled by a trove that stays, or by the edges it adds.
LEMMA CheckSInv ==
    ASSUME SInv, Check
    PROVE  SInv'
<1> DEFINE newly == {d \in Needs : Found(d)}
           olds == {q \in OldNeeds : Found(q[2])}
           sat == satisfied \cup newly \cup olds
           bad == {d \in Dep : users[d] # {}} \ sat
<1>1. /\ UNCHANGED <<plan, in, kept, users, asked, late>> /\ satisfied' = sat
      /\ pc' = IF bad \cup (Broken \ sat) = {} THEN "accepted" ELSE "errors"
      BY DEF Check
<1>2. TInv /\ StartsClosed /\ Known /\ Inquired /\ NeedsMet
      BY DEF SInv
<1>3. /\ edges \subseteq edges'
      /\ \A e \in NewNew : e \notin NewOld => <<e[2], e[1]>> \in edges'
      /\ \A e \in OldOld : e \notin OldNew => <<e[1], e[2]>> \in edges'
      /\ \A q \in Resatisfied : StayProviders(q[2]) = {} =>
            \E l \in OldProviders(q[2]), g \in NewProviders(q[2]) :
               \/ l = g \/ <<g, l>> \in edges'
               \/ l # g /\ \E o \in NewOld : o[1] = l /\ o[2] = g /\ <<q, o[3]>> \in plan.alike
      BY <1>2, CheckEdges
<1>4. TInv'
      BY <1>2, RoundsTInv DEF Rounds
<1>5. /\ \A d : OldProviders(d)' = OldProviders(d) /\ NewProviders(d)' = NewProviders(d)
                /\ StayProviders(d)' = StayProviders(d)
      /\ Removing' = Removing
      BY <1>1 DEF OldProviders, NewProviders, StayProviders, Removing, Installed
<1>6. Removing \subseteq in /\ \A d : OldProviders(d) \subseteq in
      BY DEF Removing, OldProviders
<1>7. ASSUME NEW d \in Needs, Found(d) PROVE MetNew(d)'
  <2>1. CASE StayProviders(d) # {}
        BY <1>5, <2>1 DEF MetNew
  <2>2. CASE StayProviders(d) = {}
    <3>1. PICK p \in NewProviders(d) : TRUE
          BY <1>7, <2>2 DEF Found
    <3>2. ASSUME NEW r \in in, d \in Requires(plan.new[r]), p # r, p \notin OldProviders(d)
          PROVE  <<p, r>> \in edges'
      <4>1. r \in users[d] /\ p \in in
            BY <1>2, <3>1, <3>2 DEF Known, Needs, NewProviders
      <4> DEFINE e == <<r, p, d>>
      <4>2. e[1] = r /\ e[2] = p /\ e[3] = d /\ e \in in \X in \X Needs
            BY <4>1
      <4> HIDE DEF e
      <4>3. e \in NewNew /\ e \notin NewOld
            BY <3>1, <3>2, <4>1, <4>2 DEF NewNew, NewOld
      <4> QED  BY <1>3, <4>2, <4>3
    <3>3. \A r \in in' : d \in Requires(plan'.new[r]) /\ <<r, d>> \notin late' => Ahead(p, r, d)'
          BY <1>1, <1>5, <3>2 DEF Ahead
    <3> QED  BY <1>5, <3>1, <3>3 DEF MetNew
  <2> QED  BY <2>1, <2>2
<1>8. ASSUME NEW w \in Removing, NEW d \in Dep, <<w, d>> \in OldNeeds
      PROVE  GoneBefore(w, d)'
  <2>1. ASSUME NEW p \in OldProviders(d), p \notin NewProviders(d), p # w
        PROVE  <<w, p>> \in edges'
    <3> DEFINE e == <<w, p, d>>
    <3>1. e[1] = w /\ e[2] = p /\ e[3] = d /\ e \in Removing \X in \X Dep
          BY <1>6
    <3>2. p \in Removing /\ <<e[1], e[3]>> \in OldNeeds
          BY <1>8, <3>1 DEF OldProviders
    <3>3. e \in Removing \X Removing \X Dep
          BY <3>2
    <3> HIDE DEF e
    <3>4. e \in OldOld
          BY <1>6, <2>1, <3>1, <3>2 DEF OldOld
    <3>5. e \notin OldNew
          BY <2>1, <3>1 DEF OldNew
    <3> QED  BY <1>3, <3>1, <3>4, <3>5
  <2> QED  BY <1>5, <2>1 DEF GoneBefore
<1>9. ASSUME NEW w \in Holder, NEW d \in Dep, <<w, d>> \in OldNeeds, Found(d)
      PROVE  MetOld(w, d)'
  <2> DEFINE q == <<w, d>>
  <2>1. q[1] = w /\ q[2] = d
        OBVIOUS
  <2>2. CASE StayProviders(d) # {}
        BY <1>5, <2>2 DEF MetOld
  <2>3. CASE w \in Removing
        BY <1>8, <1>9, <2>3 DEF MetOld
  <2>4. CASE StayProviders(d) = {} /\ w \notin Removing
    <3>1. asked[q] = "open" /\ d \in Requires(Installed(w))
          BY <1>2, <1>9 DEF OldNeeds, Inquired
    <3>2. PICK v \in Holder : d \in Provides(Installed(v))
          BY <1>2, <3>1 DEF StartsClosed
    <3>3. v \in StayProviders(d) \cup OldProviders(d)
          BY <1>2, <3>2, Providers
    <3>4. q \in OldNeeds /\ OldProviders(d) # {}
          BY <1>9, <2>4, <3>3
    <3> HIDE DEF q
    <3>5. q \in Resatisfied
          BY <1>9, <2>1, <2>4, <3>4 DEF Resatisfied, Broken
    <3>6. PICK l \in OldProviders(d), g \in NewProviders(d) :
             \/ l = g \/ <<g, l>> \in edges'
             \/ l # g /\ \E o \in NewOld : o[1] = l /\ o[2] = g /\ <<q, o[3]>> \in plan.alike
          BY <1>3, <2>1, <2>4, <3>5
    <3>7. CASE l = g \/ <<g, l>> \in edges'
          BY <1>5, <3>6, <3>7 DEF MetOld
    <3>8. CASE l # g /\ \E o \in NewOld : o[1] = l /\ o[2] = g /\ <<q, o[3]>> \in plan.alike
      <4>1. PICK o \in NewOld : o[1] = l /\ o[2] = g /\ <<q, o[3]>> \in plan.alike
            BY <3>8
      <4>2. o[3] \in Needs /\ l \in users[o[3]] /\ g \in OldProviders(o[3])
            BY <4>1 DEF NewOld
      <4>3. o[3] \in Requires(plan.new[l]) /\ o[3] \in Provides(plan.old[g])
            BY <1>2, <4>2 DEF Known, Needs, OldProviders
      <4>4. Torn(q)'
            BY <1>1, <1>5, <2>1, <3>8, <4>1, <4>3 DEF Torn
      <4> QED  BY <4>4 DEF MetOld, q
    <3> QED  BY <3>6, <3>7, <3>8
  <2> QED  BY <2>2, <2>3, <2>4
<1>10. /\ \A d \in Dep : d \in sat => d \in satisfied \/ (d \in Needs /\ Found(d))
       /\ \A w \in Holder, d \in Dep :
             <<w, d>> \in sat => <<w, d>> \in satisfied \/ (<<w, d>> \in OldNeeds /\ Found(d))
  <2>1. ASSUME NEW d \in Dep, d \in sat PROVE d \in satisfied \/ (d \in Needs /\ Found(d))
        BY <2>1, DepAssumption DEF OldNeeds
  <2>2. ASSUME NEW w \in Holder, NEW d \in Dep, <<w, d>> \in sat
        PROVE  <<w, d>> \in satisfied \/ (<<w, d>> \in OldNeeds /\ Found(d))
    <3> DEFINE q == <<w, d>>
    <3>1. q[2] = d /\ q \in Holder \X Dep /\ q \in sat
          BY <2>2
    <3> HIDE DEF q
    <3>2. q \notin newly
          BY <3>1, DepAssumption DEF Needs
    <3>3. q \in satisfied \/ (q \in OldNeeds /\ Found(q[2]))
          BY <3>1, <3>2
    <3> QED  BY <3>1, <3>3 DEF q
  <2> QED  BY <2>1, <2>2
<1>11. NeedsMet'
  <2>1. ASSUME NEW d \in Dep, d \in satisfied PROVE MetNew(d)'
    <3>1. MetNew(d)
          BY <1>2, <2>1 DEF NeedsMet
    <3>2. \A r \in in' : d \in Requires(plan'.new[r]) /\ <<r, d>> \notin late' =>
                             r \in in /\ d \in Requires(plan.new[r]) /\ <<r, d>> \notin late
          BY <1>1
    <3> QED  BY <1>3, <1>5, <3>1, <3>2, StaysMetNew
  <2>2. ASSUME NEW w \in Holder, NEW d \in Dep, <<w, d>> \in satisfied PROVE MetOld(w, d)'
    <3>1. MetOld(w, d)
          BY <1>2, <2>2 DEF NeedsMet
    <3>2. OldProviders(d)' \subseteq in' /\ Removing' \subseteq in'
          BY <1>1, <1>5, <1>6
    <3> QED  BY <1>1, <1>3, <1>5, <3>1, <3>2, StaysMetOld
  <2>3. \A d \in Dep : d \in satisfied' => MetNew(d)'
        BY <1>1, <1>7, <1>10, <2>1
  <2>4. ASSUME NEW w \in Holder, NEW d \in Dep, <<w, d>> \in sat
        PROVE  asked'[<<w, d>>] = "open" /\ MetOld(w, d)'
    <3>1. asked[<<w, d>>] = "open"
          BY <1>2, <1>10, <2>4 DEF NeedsMet, OldNeeds
    <3> QED  BY <1>1, <1>9, <1>10, <2>2, <2>4, <3>1
  <2> QED  BY <1>1, <2>3, <2>4 DEF NeedsMet
<1>12. Settled'
  <2> SUFFICES ASSUME bad = {}, Broken \subseteq sat PROVE Settled'
    <3>1. bad # {} \/ ~ (Broken \subseteq sat) => pc' = "errors"
          BY <1>1
    <3>2. pc' = "errors" => Settled'
          BY DEF Settled, Walking
    <3> QED  BY <3>1, <3>2
  <2>1. \A d \in Dep : users[d] # {} => d \in sat
        OBVIOUS
  <2>2. ASSUME NEW w \in Holder, NEW d \in Dep, asked[<<w, d>>] = "open",
               OldProviders(d) # {}, <<w, d>> \notin sat
        PROVE  GoneBefore(w, d)'
    <3> DEFINE q == <<w, d>>
    <3>1. q \in OldNeeds /\ q[1] = w /\ q[2] = d
          BY <2>2 DEF OldNeeds
    <3>2. q \notin Broken
          BY <2>2
    <3> HIDE DEF q
    <3>3. w \in Removing
          BY <2>2, <3>1, <3>2 DEF Broken
    <3> QED  BY <1>8, <3>1, <3>3 DEF q
  <2> QED  BY <1>1, <1>5, <2>1, <2>2 DEF Settled
<1>13. Known' /\ Inquired' /\ StartsClosed'
      BY <1>1, <1>2, <1>5, SamePlan DEF Known, Inquired, Installed
<1>14. Fresh'
      BY <1>1 DEF Fresh
<1> QED  BY <1>4, <1>11, <1>12, <1>13, <1>14 DEF SInv

LEMMA NextSInv == Mishaps = {} /\ OInv /\ SInv /\ [Next]_vars => SInv'
<1> SUFFICES ASSUME Mishaps = {}, OInv, SInv, [Next]_vars PROVE SInv'
    OBVIOUS
<1>1. CASE Rounds
      BY <1>1, AddJobsSInv, AddUpdatesSInv, UpdateUsersSInv, KeepErasedSInv, KeepBesideSInv,
         CheckSInv DEF Rounds
<1>2. CASE ~ Rounds
  <2>1. /\ UNCHANGED <<plan, in, kept, users, satisfied, asked, edges, late>>
        /\ pc' = pc \/ (pc \in {"accepted"} \cup Walking /\ pc' \in {"ordered", "failed"} \cup Walking)
    <3>1. CASE UNCHANGED vars
          BY <3>1 DEF vars, tables
    <3>2. CASE Root \/ Visit
          BY <3>2 DEF Root, Visit, tables
    <3>3. CASE Connect
          BY <3>3 DEF Connect, tables, Walking
    <3>4. CASE ConnectBack
          BY <3>4 DEF ConnectBack, tables, Walking
    <3>5. CASE OrderJobSets
          BY <3>5 DEF OrderJobSets, tables, Walking
    <3>6. CASE TotalOrdering
          BY <3>6 DEF TotalOrdering, tables, Walking
    <3> QED  BY <1>2, <3>1, <3>2, <3>3, <3>4, <3>5, <3>6 DEF Next, Rounds
  <2>2. OInv'
        BY NextOInv
  <2>3. TInv'
        BY <2>2 DEF OInv
  <2>4. /\ \A d : OldProviders(d)' = OldProviders(d) /\ NewProviders(d)' = NewProviders(d)
                  /\ StayProviders(d)' = StayProviders(d)
        /\ Removing' = Removing
        BY <2>1 DEF OldProviders, NewProviders, StayProviders, Removing, Installed
  <2>5. \A w, d : (GoneBefore(w, d)' <=> GoneBefore(w, d))
        BY <2>1, <2>4 DEF GoneBefore
  <2>6. \A d : MetNew(d)' <=> MetNew(d)
        BY <2>1, <2>4 DEF MetNew, Ahead
  <2>7. \A w, d : MetOld(w, d)' <=> MetOld(w, d)
    <3>1. \A q : Torn(q)' <=> Torn(q)
          BY <2>1, <2>4 DEF Torn
    <3> QED  BY <2>1, <2>4, <2>5, <3>1 DEF MetOld
  <2>8. NeedsMet'
        BY <2>1, <2>6, <2>7 DEF SInv, NeedsMet
  <2>9. Settled'
        BY <2>1, <2>4, <2>5 DEF SInv, Settled, Walking
  <2>10. Known' /\ Inquired' /\ StartsClosed'
        BY <2>1, <2>4, SamePlan DEF SInv, Known, Inquired, Installed
  <2>11. Fresh'
        BY <2>1 DEF SInv, Fresh, Walking
  <2> QED  BY <2>3, <2>8, <2>9, <2>10, <2>11 DEF SInv
<1> QED  BY <1>1, <1>2

-----------------------------------------------------------------------------
(* The steps of an update that was accepted.                               *)

LEMMA OnEdge ==
    ASSUME OInv, NEW a, NEW b, <<a, b>> \in edges
    PROVE  a \in in /\ Reaches(a, b)
<1> DEFINE e == <<a, b>>
<1>1. e \in edges /\ e[1] = a /\ e[2] = b
      OBVIOUS
<1> HIDE DEF e
<1> QED  BY <1>1 DEF OInv, TInv, Reaches

LEMMA InvClosed == OInv /\ SInv => StepClosed
<1> SUFFICES ASSUME OInv, SInv, Ordered, NEW k \in 0..Len(order)
             PROVE  /\ \A w \in Holder \ (Prefix(k) \ kept) : \A d \in Requires(Installed(w)) :
                          \/ d \in UNION {Provides(t) : t \in After(Prefix(k))}
                          \/ k < Len(order) /\ Torn(<<w, d>>)
                    /\ \A n \in Prefix(k) : \A d \in Requires(plan.new[n]) :
                          \/ d \in UNION {Provides(t) : t \in After(Prefix(k))}
                          \/ k < Len(order) /\ <<n, d>> \in late
    BY DEF StepClosed
<1> DEFINE P == Prefix(k)
           Has(d) == \/ \E w \in Holder : w \notin P \ kept /\ d \in Provides(Installed(w))
                     \/ \E n \in P : d \in Provides(plan.new[n])
<1>1. /\ TInv /\ StartsClosed /\ Known /\ Inquired /\ NeedsMet
      /\ \A d \in Dep : users[d] # {} => d \in satisfied
      /\ \A w \in Holder, d \in Dep :
            asked[<<w, d>>] = "open" /\ OldProviders(d) # {} =>
               <<w, d>> \in satisfied \/ GoneBefore(w, d)
      BY DEF SInv, Settled, Ordered
<1>2. /\ P \subseteq in /\ in \subseteq Node
      /\ \A d : Requires(plan.stay) \subseteq Dep
      /\ \A n \in Node : Requires(plan.old[n]) \cup Requires(plan.new[n]) \subseteq Dep
  <2>1. P \subseteq in
    <3>1. order \in Seq(SUBSET in)
          BY DEF OInv, Sorted, Components
    <3> QED  BY <3>1 DEF Prefix
  <2> QED  BY <1>1, <2>1, PlansAssumption DEF TInv
<1>3. \A a, b : <<a, b>> \in edges /\ b \in P => a \in P
      BY OnEdge, Downward
<1>0. k < Len(order) \/ P = in
  <2>1. order \in Seq(SUBSET in) /\ UNION ToSet(order) = in
        BY DEF OInv, Sorted, Components
  <2>2. DOMAIN order = 1..Len(order) /\ Len(order) \in Nat
        BY <2>1
  <2>3. ASSUME k = Len(order), NEW n \in in PROVE n \in P
    <3>1. PICK i \in DOMAIN order : n \in order[i]
          BY <2>1 DEF ToSet
    <3>2. i \in 1..k
          BY <2>2, <2>3, <3>1
    <3> QED  BY <3>1, <3>2 DEF Prefix
  <2>4. k < Len(order) \/ k = Len(order)
    <3> DEFINE l == Len(order)
    <3>1. l \in Nat /\ k \in 0..l
          BY <2>2
    <3> HIDE DEF l
    <3>2. k < l \/ k = l
          BY <3>1
    <3> QED  BY <3>2 DEF l
  <2>5. k = Len(order) => in \subseteq P
    <3> HIDE DEF P
    <3> QED  BY <2>3
  <2> HIDE DEF P
  <2> QED  BY <1>2, <2>4, <2>5
<1> HIDE DEF P
<1>4. \A d : StayProviders(d) # {} => Has(d)
  <2> SUFFICES ASSUME NEW d, NEW w \in StayProviders(d) PROVE Has(d)
      OBVIOUS
  <2> QED  BY <1>1, <1>2, Providers
<1>5. \A d : \A p \in OldProviders(d) : p \notin P => Has(d)
  <2> SUFFICES ASSUME NEW d, NEW p \in OldProviders(d), p \notin P PROVE Has(d)
      OBVIOUS
  <2>1. p \in Holder /\ d \in Provides(Installed(p))
        BY <1>1, <1>2, Providers
  <2> QED  BY <2>1
<1>6. \A d : \A p \in NewProviders(d) : p \in P => Has(d)
      BY DEF NewProviders
<1>7. ASSUME NEW n \in P, NEW d \in Requires(plan.new[n])
      PROVE  Has(d) \/ (k < Len(order) /\ <<n, d>> \in late)
  <2>1. n \in in /\ d \in Dep
        BY <1>2
  <2>2. MetNew(d)
        BY <1>1, <2>1 DEF Known, NeedsMet
  <2>3. CASE StayProviders(d) # {}
        BY <1>4, <2>3
  <2>4. CASE StayProviders(d) = {}
    <3> HIDE DEF Has
    <3>1. PICK p \in NewProviders(d) : <<n, d>> \notin late => Ahead(p, n, d)
          BY <2>1, <2>2, <2>4 DEF MetNew
    <3>2. p \in in
          BY <3>1 DEF NewProviders
    <3>3. CASE Ahead(p, n, d)
          BY <1>3, <1>5, <1>6, <3>1, <3>3 DEF Ahead
    <3>4. CASE P = in
          BY <1>6, <3>1, <3>2, <3>4
    <3> QED  BY <1>0, <3>1, <3>3, <3>4
  <2> QED  BY <2>3, <2>4
<1>8. ASSUME NEW w \in Holder, w \notin P \ kept, NEW d \in Requires(Installed(w))
      PROVE  Has(d) \/ (k < Len(order) /\ Torn(<<w, d>>))
  <2> HIDE DEF Has
  <2>1. d \in Dep
        BY <1>2 DEF Holder, Installed, Stay
  <2>2. CASE StayProviders(d) # {} \/ \E p \in OldProviders(d) : p \notin P
        BY <1>4, <1>5, <2>2
  <2>3. CASE StayProviders(d) = {} /\ OldProviders(d) \subseteq P
    <3>1. PICK v \in Holder : d \in Provides(Installed(v))
          BY <1>1 DEF StartsClosed
    <3>2. v \in OldProviders(d)
          BY <1>1, <2>3, <3>1, Providers
    <3>3. asked[<<w, d>>] = "open"
          BY <1>1, <2>1, <3>2 DEF Inquired
    <3>4. \/ \E l \in OldProviders(d), g \in NewProviders(d) : l = g \/ <<g, l>> \in edges
          \/ GoneBefore(w, d) \/ Torn(<<w, d>>)
          BY <1>1, <2>1, <2>3, <3>2, <3>3 DEF NeedsMet, MetOld
    <3>5. CASE GoneBefore(w, d)
      <4>1. w \in Removing /\ (v \in NewProviders(d) \/ v = w \/ <<w, v>> \in edges)
            BY <3>2, <3>5 DEF GoneBefore
      <4>2. w \notin P
            BY <1>8, <4>1 DEF Removing
      <4> QED  BY <1>3, <1>6, <2>3, <3>2, <4>1, <4>2
    <3>6. CASE \E l \in OldProviders(d), g \in NewProviders(d) : l = g \/ <<g, l>> \in edges
          BY <1>3, <1>6, <2>3, <3>6
    <3>7. CASE Torn(<<w, d>>)
      <4>1. <<w, d>>[2] = d
            OBVIOUS
      <4>2. PICK g \in NewProviders(d) : TRUE
            BY <3>7, <4>1 DEF Torn
      <4>3. P = in => g \in P
            BY <4>2 DEF NewProviders
      <4> QED  BY <1>0, <1>6, <3>7, <4>2, <4>3
    <3> QED  BY <3>4, <3>5, <3>6, <3>7
  <2> QED  BY <2>2, <2>3
<1>9. ASSUME NEW d, Has(d) PROVE d \in UNION {Provides(s) : s \in After(P)}
      BY <1>9 DEF After
<1> HIDE DEF Has
<1> QED  BY <1>7, <1>8, <1>9 DEF P

\* "A reordering of the job is returned which preserves dependency closure at
\* each step": after every step of an accepted update what is installed has all
\* it requires, for any number of jobs, dependencies and rounds, but for the
\* needs of late jobs and torn ties before the last step, as long as no later
\* round removes or keeps what an earlier one has settled (order_late_removal
\* shows one that does).
THEOREM ClosedAtEachStep ==
    ASSUME Mishaps = {}
    PROVE  Spec => []StepClosed
<1>1. OInv /\ SInv /\ [Next]_vars => OInv' /\ SInv'
      BY NextOInv, NextSInv
<1> QED  BY <1>1, InitOInv, InitSInv, InvClosed, PTL DEF Spec
=============================================================================
