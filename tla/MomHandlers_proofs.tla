------------------------- MODULE MomHandlers_proofs -------------------------
(***************************************************************************)
(* Theorems about MomHandlers.tla, for every set of types and handlers.    *)
(* mom_get_message_type_supertypes is recursive along the tree of types.   *)
(* What it computes (SupertypesAreUp) follows from a type of least rank    *)
(* for which it would be wrong; the rank comes with the tree.              *)
(***************************************************************************)
EXTENDS MomHandlers, FiniteSetTheorems, SequenceTheorems, WellFoundedInduction,
        TLAPS

\* A set of types that contains the supertype of each of its members
Closed(S) == \A x \in S : supertype[x] \in S

\* The types above t and t itself, in terms of the tree
Up(t) == {u \in Type : \A S \in SUBSET Type : t \in S /\ Closed(S) => u \in S}

\* The types form a tree: each but the root has a registered supertype of lower rank.
Tree ==
  /\ supertype[Root] = Root
  /\ \A t \in Type : supertype[t] \in types
  /\ \A t \in Type \ types : supertype[t] = Root
  /\ \E rank \in [Type -> Nat] :
       \A t \in Type \ {Root} : rank[supertype[t]] < rank[t]

\* A set of numbers that is not empty has a least element.
LEMMA LeastElement ==
  ASSUME NEW S, S \subseteq Nat, S # {}
  PROVE  \E n \in S : \A m \in S : n <= m
<1> DEFINE Less == {p \in Nat \X Nat : p[1] < p[2]}
<1>1. IsWellFoundedOn(Less, Nat)
  BY NatLessThanWellFounded, Zenon DEF OpToRel
<1> HIDE DEF Less
<1>2. PICK n \in S : \A m \in S : ~ (<<m, n>> \in Less)
  BY <1>1, WFMin
<1>3. ASSUME NEW m \in S PROVE n <= m
  <2>1. n \in Nat /\ m \in Nat /\ <<m, n>> \in Nat \X Nat
    OBVIOUS
  <2>2. ~ (m < n)
    BY <1>2, <2>1 DEF Less
  <2>3. QED
    BY <2>1, <2>2
<1>4. QED
  BY <1>3

\* Min picks it.
LEMMA MinIsLeast ==
  ASSUME NEW S, S \subseteq Nat, S # {}
  PROVE  Min(S) \in S /\ \A m \in S : Min(S) <= m
BY LeastElement DEF Min

\* The types above t are t and the types above its supertype.
LEMMA UpStep ==
  ASSUME TypeOK, Tree, NEW t \in Type
  PROVE  Up(t) = IF t = Root THEN {Root} ELSE {t} \cup Up(supertype[t])
<1> USE DEF TypeOK, Tree
<1>1. t \in Up(t) /\ supertype[t] \in Type
  BY DEF Up
<1>2. ASSUME NEW u \in Up(supertype[t]) PROVE u \in Up(t)
  BY <1>1 DEF Up, Closed
<1>3. Closed({t} \cup Up(supertype[t]))
  BY <1>1 DEF Up, Closed
<1>4. ASSUME NEW u \in Up(t) PROVE u \in {t} \cup Up(supertype[t])
  BY <1>3 DEF Up
<1>5. t = Root => Up(t) = {Root}
  <2>1. Closed({Root})
    BY DEF Closed
  <2>2. QED
    BY <2>1, <1>1, RootAssumption DEF Up
<1>6. QED
  BY <1>1, <1>2, <1>4, <1>5

\* mom_get_message_type_supertypes collects the types above t and t itself.
LEMMA SupertypesAreUp ==
  ASSUME TypeOK, Tree, NEW t \in Type
  PROVE  mom_get_message_type_supertypes(t) = Up(t)
<1> DEFINE Body(f) == [u \in Type |-> IF u = Root THEN {Root} ELSE {u} \cup f[supertype[u]]]
           up == CHOOSE f : f = Body(f)
           above == [u \in Type |-> Up(u)]
<1>1. above = Body(above)
  BY UpStep DEF TypeOK
<1>2. up = Body(up)
  <2> HIDE DEF Body, above
  <2> QED
    BY <1>1, Zenon
<1>3. mom_get_message_type_supertypes(t) = up[t]
  BY Zenon DEF mom_get_message_type_supertypes
<1>4. \A u \in Type : up[u] = Up(u)
  <2> DEFINE Bad == {u \in Type : up[u] # Up(u)}
  <2> PICK rank \in [Type -> Nat] : \A u \in Type \ {Root} : rank[supertype[u]] < rank[u]
    BY DEF Tree
  <2>1. SUFFICES ASSUME Bad # {} PROVE FALSE
    OBVIOUS
  <2>2. PICK u \in Bad : \A v \in Bad : rank[u] <= rank[v]
    <3> DEFINE Ranks == {rank[v] : v \in Bad}
    <3>1. Ranks \subseteq Nat /\ Ranks # {}
      BY <2>1
    <3>2. PICK n \in Ranks : \A m \in Ranks : n <= m
      <4> HIDE DEF Ranks
      <4> QED
        BY <3>1, LeastElement
    <3>3. PICK u \in Bad : n = rank[u]
      BY <3>2
    <3>4. QED
      BY <3>2, <3>3
  <2>3. up[u] = IF u = Root THEN {Root} ELSE {u} \cup up[supertype[u]]
    <3> HIDE DEF up
    <3> QED
      BY <1>2
  <2> HIDE DEF up
  <2>4. u # Root => supertype[u] \in Type /\ supertype[u] \notin Bad
    <3> SUFFICES ASSUME u # Root PROVE supertype[u] \in Type /\ supertype[u] \notin Bad
      OBVIOUS
    <3>1. u \in Type /\ supertype[u] \in Type
      BY DEF TypeOK
    <3>2. rank[supertype[u]] < rank[u] /\ rank[u] \in Nat /\ rank[supertype[u]] \in Nat
      BY <3>1
    <3>3. QED
      BY <2>2, <3>1, <3>2
  <2>5. QED
    BY <2>3, <2>4, UpStep
<1>5. QED
  BY <1>3, <1>4

-----------------------------------------------------------------------------
\* Being above is transitive, and the types above t are above one another.
LEMMA UpOrder ==
  ASSUME TypeOK, Tree
  PROVE  /\ \A t \in Type : t \in Up(t) /\ Up(t) \subseteq Type
         /\ \A t, u, v \in Type : u \in Up(t) /\ v \in Up(u) => v \in Up(t)
         /\ \A t, u, v \in Type : u \in Up(t) /\ v \in Up(t) => u \in Up(v) \/ v \in Up(u)
         /\ \A t, u \in Type : u \in Up(t) /\ t \in Up(u) => t = u
<1>0. /\ \A t \in Type : t \in Up(t) /\ Up(t) \subseteq Type /\ Closed(Up(t))
      /\ \A t \in Type : supertype[t] \in Type
  BY DEF Up, Closed, TypeOK
<1>1. ASSUME NEW t \in Type, NEW u \in Up(t), NEW v \in Up(u) PROVE v \in Up(t)
  BY <1>0 DEF Up
<1>2. ASSUME NEW t \in Type, NEW u \in Up(t), NEW v \in Up(t) PROVE u \in Up(v) \/ v \in Up(u)
  <2> DEFINE S == {w \in Type : w \in Up(u) \/ u \in Up(w)}
  <2>0. u \in Type
    BY <1>0
  <2>1. t \in S
    OBVIOUS
  <2>2. ASSUME NEW w \in S PROVE supertype[w] \in S
    <3>1. CASE w \in Up(u)
      BY <1>0, <2>0, <3>1 DEF Closed
    <3>2. CASE u \in Up(w)
      <4>1. u = w \/ u \in Up(supertype[w]) \/ w = Root
        BY <3>2, UpStep
      <4>2. w = Root => supertype[w] = w
        BY DEF Tree
      <4>3. QED
        BY <1>0, <2>0, <4>1, <4>2 DEF Closed
    <3>3. QED
      BY <3>1, <3>2
  <2>3. Up(t) \subseteq S
    BY <2>1, <2>2 DEF Up, Closed
  <2>4. QED
    BY <2>3
<1>3. ASSUME NEW t \in Type, NEW u \in Up(t), t \in Up(u) PROVE t = u
  <2> PICK rank \in [Type -> Nat] : \A x \in Type \ {Root} : rank[supertype[x]] < rank[x]
    BY DEF Tree
  <2>1. ASSUME NEW x \in Type, NEW y \in Up(x), x # y PROVE rank[y] < rank[x]
    <3> DEFINE S == {w \in Type : w = x \/ rank[w] < rank[x]}
    <3>1. ASSUME NEW w \in S PROVE supertype[w] \in S
      <4>1. CASE w = Root
        BY <4>1 DEF Tree
      <4>2. CASE w # Root
        <5>1. rank[supertype[w]] < rank[w] /\ supertype[w] \in Type
          BY <4>2, <1>0
        <5>2. rank[supertype[w]] \in Nat /\ rank[w] \in Nat /\ rank[x] \in Nat
          BY <5>1
        <5>3. QED
          BY <5>1, <5>2
      <4>3. QED
        BY <4>1, <4>2
    <3>2. y \in S
      BY <3>1 DEF Up, Closed
    <3>3. QED
      BY <3>2, <2>1
  <2>2. ASSUME t # u PROVE FALSE
    <3>1. u \in Type /\ rank[u] \in Nat /\ rank[t] \in Nat
      BY <1>0
    <3>2. rank[u] < rank[t] /\ rank[t] < rank[u]
      BY <2>1, <2>2, <3>1, <1>3
    <3>3. QED
      BY <3>1, <3>2
  <2>3. QED
    BY <2>2
<1>4. QED
  BY <1>0, <1>1, <1>2, <1>3

\* Below of the properties is Up.
LEMMA BelowIsUp ==
  ASSUME TypeOK, Tree, NEW t \in types, NEW u \in types
  PROVE  Below(t, u) <=> u \in Up(t)
<1>1. ASSUME Below(t, u), NEW S \in SUBSET Type, t \in S, Closed(S) PROVE u \in S
  <2>1. S \cap types \in SUBSET types /\ \A x \in S \cap types : supertype[x] \in S \cap types
    BY <1>1 DEF Closed, Tree, TypeOK
  <2>2. QED
    BY <1>1, <2>1 DEF Below
<1>2. ASSUME u \in Up(t) PROVE Below(t, u)
  BY <1>2 DEF Up, Below, Closed, TypeOK
<1>3. QED
  BY <1>1, <1>2 DEF Up, TypeOK

-----------------------------------------------------------------------------
\* A position once there is one more entry, at i
Shift(i, j) == IF j < i THEN j ELSE j + 1

\* What RemoveAt leaves
LEMMA RemoveAtFacts ==
  ASSUME NEW A, NEW s \in Seq(A), NEW i \in 1..Len(s)
  PROVE  /\ RemoveAt(s, i) \in Seq(A) /\ Len(RemoveAt(s, i)) = Len(s) - 1
         /\ \A j \in 1..(Len(s) - 1) :
              RemoveAt(s, i)[j] = s[Shift(i, j)]
<1> DEFINE front == SubSeq(s, 1, i - 1)
           back  == SubSeq(s, i + 1, Len(s))
<1>0. Len(s) \in Nat /\ \A j \in 1..Len(s) : s[j] \in A
  BY LenProperties, ElementOfSeq
<1>1. /\ front \in Seq(A) /\ Len(front) = i - 1
      /\ \A j \in 1..(i - 1) : front[j] = s[j]
  BY <1>0, SubSeqProperties
<1>2. /\ back \in Seq(A) /\ Len(back) = Len(s) - i
      /\ \A j \in 1..(Len(s) - i) : back[j] = s[j + i]
  BY <1>0, SubSeqProperties
<1>3. RemoveAt(s, i) = front \o back
  BY DEF RemoveAt
<1> HIDE DEF front, back
<1>4. /\ front \o back \in Seq(A) /\ Len(front \o back) = Len(front) + Len(back)
      /\ \A j \in 1..(Len(front) + Len(back)) :
           (front \o back)[j] = IF j <= Len(front) THEN front[j] ELSE back[j - Len(front)]
  BY <1>1, <1>2, ConcatProperties
<1> DEFINE r == front \o back
<1> HIDE DEF r
<1>5. /\ r \in Seq(A) /\ Len(r) = Len(s) - 1
      /\ \A j \in 1..(Len(s) - 1) : r[j] = IF j <= i - 1 THEN front[j] ELSE back[j - (i - 1)]
  BY <1>0, <1>1, <1>2, <1>4 DEF r
<1>6. ASSUME NEW j \in 1..(Len(s) - 1) PROVE r[j] = s[Shift(i, j)]
  <2>1. CASE j < i
    BY <1>0, <1>1, <1>5, <2>1 DEF Shift
  <2>2. CASE ~ (j < i)
    BY <1>0, <1>2, <1>5, <2>2 DEF Shift
  <2>3. QED
    BY <2>1, <2>2
<1>7. QED
  BY <1>3, <1>5, <1>6 DEF r

\* What InsertAt makes
LEMMA InsertAtFacts ==
  ASSUME NEW A, NEW s \in Seq(A), NEW i \in 1..(Len(s) + 1), NEW e \in A
  PROVE  /\ InsertAt(s, i, e) \in Seq(A) /\ Len(InsertAt(s, i, e)) = Len(s) + 1
         /\ InsertAt(s, i, e)[i] = e
         /\ \A j \in 1..Len(s) : InsertAt(s, i, e)[Shift(i, j)] = s[j]
<1> DEFINE front == SubSeq(s, 1, i - 1)
           back  == SubSeq(s, i, Len(s))
           start == front \o <<e>>
<1>0. Len(s) \in Nat /\ \A j \in 1..Len(s) : s[j] \in A
  BY LenProperties, ElementOfSeq
<1>1. /\ front \in Seq(A) /\ Len(front) = i - 1
      /\ \A j \in 1..(i - 1) : front[j] = s[j]
  BY <1>0, SubSeqProperties
<1>2. /\ back \in Seq(A) /\ Len(back) = Len(s) - i + 1
      /\ \A j \in 1..(Len(s) - i + 1) : back[j] = s[j + i - 1]
  BY <1>0, SubSeqProperties
<1>3. InsertAt(s, i, e) = start \o back
  BY DEF InsertAt
<1> HIDE DEF front, back
<1>4. /\ start \in Seq(A) /\ Len(start) = i
      /\ start[i] = e /\ \A j \in 1..(i - 1) : start[j] = s[j]
  <2>1. <<e>> \in Seq(A) /\ Len(<<e>>) = 1 /\ <<e>>[1] = e
    OBVIOUS
  <2> DEFINE one == <<e>>
  <2>2. /\ front \o one \in Seq(A) /\ Len(front \o one) = Len(front) + Len(one)
        /\ \A j \in 1..(Len(front) + Len(one)) :
             (front \o one)[j] = IF j <= Len(front) THEN front[j] ELSE one[j - Len(front)]
    BY <1>1, <2>1, ConcatProperties
  <2>3. Len(one) = 1 /\ one[1] = e /\ start = front \o one
    BY <2>1
  <2> HIDE DEF one, start
  <2>4. /\ start \in Seq(A) /\ Len(start) = i
        /\ \A j \in 1..i : start[j] = IF j <= i - 1 THEN front[j] ELSE one[j - (i - 1)]
    BY <1>1, <2>2, <2>3
  <2>5. QED
    BY <1>1, <2>3, <2>4
<1> HIDE DEF start
<1>5. /\ start \o back \in Seq(A) /\ Len(start \o back) = Len(start) + Len(back)
      /\ \A j \in 1..(Len(start) + Len(back)) :
           (start \o back)[j] = IF j <= Len(start) THEN start[j] ELSE back[j - Len(start)]
  BY <1>2, <1>4, ConcatProperties
<1> DEFINE r == start \o back
<1> HIDE DEF r
<1>6. /\ r \in Seq(A) /\ Len(r) = Len(s) + 1
      /\ \A j \in 1..(Len(s) + 1) : r[j] = IF j <= i THEN start[j] ELSE back[j - i]
  BY <1>0, <1>2, <1>4, <1>5 DEF r
<1>7. ASSUME NEW j \in 1..Len(s) PROVE r[Shift(i, j)] = s[j]
  <2>1. CASE j < i
    BY <1>0, <1>4, <1>6, <2>1 DEF Shift
  <2>2. CASE ~ (j < i)
    <3>1. r[j + 1] = back[j + 1 - i]
      BY <1>0, <1>6, <2>2
    <3>2. back[j + 1 - i] = s[j]
      BY <1>0, <1>2, <2>2
    <3>3. QED
      BY <3>1, <3>2, <2>2 DEF Shift
  <2>3. QED
    BY <2>1, <2>2
<1>8. r[i] = e
  BY <1>0, <1>4, <1>6
<1>9. QED
  BY <1>3, <1>6, <1>7, <1>8 DEF r

\* Positions that move up by one behind i are as many as before.
LEMMA ShiftKeepsCount ==
  ASSUME NEW n \in Nat, NEW i \in 1..(n + 1),
         NEW P \in SUBSET (1..n), NEW Q \in SUBSET (1..(n + 1)), i \notin Q,
         \A j \in 1..n : j \in P <=> Shift(i, j) \in Q
  PROVE  Cardinality(P) = Cardinality(Q) /\ IsFiniteSet(P) /\ IsFiniteSet(Q)
<1> DEFINE f == [j \in P |-> Shift(i, j)]
<1>1. IsFiniteSet(1..n) /\ IsFiniteSet(1..(n + 1))
  BY FS_Interval
<1>2. IsFiniteSet(P) /\ IsFiniteSet(Q)
  BY <1>1, FS_Subset
<1>3. f \in [P -> Q]
  OBVIOUS
<1>4. \A j, k \in P : f[j] = f[k] => j = k
  BY DEF Shift
<1>5. ASSUME NEW q \in Q PROVE \E j \in P : f[j] = q
  <2>1. CASE q < i
    BY <2>1 DEF Shift
  <2>2. CASE q > i
    BY <2>2 DEF Shift
  <2>3. QED
    BY <2>1, <2>2
<1>6. f \in Bijection(P, Q)
  <2> HIDE DEF f
  <2> QED
    BY <1>3, <1>4, <1>5 DEF Bijection, Injection, Surjection, IsInjective
<1>7. QED
  BY <1>2, <1>6, FS_Bijection DEF ExistsBijection

\* The positions of s that hold a member of G
At(s, G) == {j \in 1..Len(s) : s[j] \in G}

\* There are finitely many of them.
LEMMA AtIsFinite ==
  ASSUME NEW A, NEW s \in Seq(A), NEW G
  PROVE  IsFiniteSet(At(s, G)) /\ Cardinality(At(s, G)) \in Nat
<1>1. IsFiniteSet(1..Len(s)) /\ At(s, G) \in SUBSET (1..Len(s))
  BY FS_Interval, LenProperties DEF At
<1>2. QED
  BY <1>1, FS_Subset, FS_CardinalityType

\* InsertAt adds one position to the ones that are counted, or none.
LEMMA CountInsert ==
  ASSUME NEW A, NEW s \in Seq(A), NEW i \in 1..(Len(s) + 1), NEW e \in A, NEW G
  PROVE  Cardinality(At(InsertAt(s, i, e), G))
           = Cardinality(At(s, G)) + (IF e \in G THEN 1 ELSE 0)
<1> DEFINE r == InsertAt(s, i, e)
<1>1. /\ r \in Seq(A) /\ Len(r) = Len(s) + 1 /\ r[i] = e
      /\ \A j \in 1..Len(s) : r[Shift(i, j)] = s[j]
  BY InsertAtFacts
<1> HIDE DEF r
<1>2. At(r, G) \ {i} \in SUBSET (1..(Len(s) + 1)) /\ At(s, G) \in SUBSET (1..Len(s))
  BY <1>1 DEF At
<1>3. ASSUME NEW j \in 1..Len(s)
      PROVE  j \in At(s, G) <=> Shift(i, j) \in At(r, G) \ {i}
  <2> DEFINE k == Shift(i, j)
  <2>1. k \in 1..Len(r) /\ k # i
    BY <1>1, LenProperties DEF Shift
  <2>2. r[k] = s[j]
    BY <1>1
  <2> HIDE DEF k
  <2>3. j \in At(s, G) <=> k \in At(r, G) \ {i}
    BY <2>1, <2>2 DEF At
  <2>4. QED
    BY <2>3 DEF k
<1>4. Cardinality(At(s, G)) = Cardinality(At(r, G) \ {i})
  <2> DEFINE P == At(s, G)
             Q == At(r, G) \ {i}
  <2>1. /\ i \notin Q /\ Len(s) \in Nat
        /\ P \in SUBSET (1..Len(s)) /\ Q \in SUBSET (1..(Len(s) + 1))
        /\ \A j \in 1..Len(s) : j \in P <=> Shift(i, j) \in Q
    BY <1>2, <1>3, LenProperties
  <2> HIDE DEF P, Q
  <2>2. QED
    BY <2>1, ShiftKeepsCount DEF P, Q
<1>5. i \in At(r, G) <=> e \in G
  BY <1>1, LenProperties DEF At
<1>6. IsFiniteSet(At(r, G)) /\ Cardinality(At(r, G)) \in Nat
  BY <1>1, AtIsFinite
<1>7. Cardinality(At(r, G) \ {i})
        = IF i \in At(r, G) THEN Cardinality(At(r, G)) - 1 ELSE Cardinality(At(r, G))
  BY <1>6, FS_RemoveElement
<1>8. QED
  BY <1>4, <1>5, <1>6, <1>7 DEF r

\* RemoveAt takes one away, or none.
LEMMA CountRemove ==
  ASSUME NEW A, NEW s \in Seq(A), NEW i \in 1..Len(s), NEW G
  PROVE  Cardinality(At(RemoveAt(s, i), G))
           = Cardinality(At(s, G)) - (IF s[i] \in G THEN 1 ELSE 0)
<1> DEFINE r == RemoveAt(s, i)
<1>1. /\ r \in Seq(A) /\ Len(r) = Len(s) - 1
      /\ \A j \in 1..(Len(s) - 1) : r[j] = s[Shift(i, j)]
  BY RemoveAtFacts
<1> HIDE DEF r
<1>2. At(s, G) \ {i} \in SUBSET (1..Len(s)) /\ At(r, G) \in SUBSET (1..(Len(s) - 1))
  BY <1>1 DEF At
<1>3. ASSUME NEW j \in 1..(Len(s) - 1)
      PROVE  j \in At(r, G) <=> Shift(i, j) \in At(s, G) \ {i}
  <2> DEFINE k == Shift(i, j)
  <2>1. k \in 1..Len(s) /\ k # i
    BY <1>1, LenProperties DEF Shift
  <2>2. r[j] = s[k]
    BY <1>1
  <2> HIDE DEF k
  <2>3. j \in At(r, G) <=> k \in At(s, G) \ {i}
    BY <1>1, <2>1, <2>2 DEF At
  <2>4. QED
    BY <2>3 DEF k
<1>4. Cardinality(At(r, G)) = Cardinality(At(s, G) \ {i})
  <2> DEFINE P == At(r, G)
             Q == At(s, G) \ {i}
             n == Len(s) - 1
  <2>1. i \notin Q /\ n \in Nat /\ i \in 1..(n + 1)
    BY LenProperties
  <2>2. /\ P \in SUBSET (1..n) /\ Q \in SUBSET (1..(n + 1))
        /\ \A j \in 1..n : j \in P <=> Shift(i, j) \in Q
    <3>1. n + 1 = Len(s)
      BY LenProperties
    <3> HIDE DEF P, Q
    <3>2. QED
      BY <1>2, <1>3, <3>1 DEF P, Q
  <2> HIDE DEF P, Q, n
  <2>3. QED
    BY <2>1, <2>2, ShiftKeepsCount DEF P, Q
<1>5. i \in At(s, G) <=> s[i] \in G
  BY DEF At
<1>6. IsFiniteSet(At(s, G)) /\ Cardinality(At(s, G)) \in Nat
  BY AtIsFinite
<1>7. Cardinality(At(s, G) \ {i})
        = IF i \in At(s, G) THEN Cardinality(At(s, G)) - 1 ELSE Cardinality(At(s, G))
  BY <1>6, FS_RemoveElement
<1>8. QED
  BY <1>4, <1>5, <1>6, <1>7 DEF r

\* Append adds one, or none.
LEMMA CountAppend ==
  ASSUME NEW A, NEW s \in Seq(A), NEW e \in A, NEW G
  PROVE  Cardinality(At(Append(s, e), G))
           = Cardinality(At(s, G)) + (IF e \in G THEN 1 ELSE 0)
<1>1. At(Append(s, e), G) = IF e \in G THEN At(s, G) \cup {Len(s) + 1} ELSE At(s, G)
  BY AppendProperties, LenProperties DEF At
<1>2. IsFiniteSet(At(s, G)) /\ Cardinality(At(s, G)) \in Nat
  BY AtIsFinite
<1>3. Len(s) + 1 \notin At(s, G)
  BY LenProperties DEF At
<1>4. Cardinality(At(s, G) \cup {Len(s) + 1}) = Cardinality(At(s, G)) + 1
  BY <1>2, <1>3, FS_AddElement
<1>5. QED
  BY <1>1, <1>2, <1>4

-----------------------------------------------------------------------------
\* An entry of mom_handlers
Entry == [type : Type, handler : Handler]

\* The handlers for type u, and the lines of the interface with type u
HandlersFor(u) == At(handlers, {e \in Entry : e.type = u})
LinesFor(u)    == At(interface, {u})

\* What an entry of the list is
LEMMA EntryFacts ==
  ASSUME TypeOK, NEW i \in 1..Len(handlers)
  PROVE  /\ handlers[i] \in Entry
         /\ handlers[i].type \in Type /\ handlers[i].handler \in Handler
<1>1. handlers \in Seq(Entry)
  BY DEF TypeOK, Entry
<1>2. handlers[i] \in Entry
  BY <1>1, ElementOfSeq
<1>3. QED
  BY <1>2 DEF Entry

\* Handlers are registered for registered types.
Known == \A i \in 1..Len(handlers) : handlers[i].type \in types

\* No handler stands before one for a more specific type.
Sorted ==
  \A u, v \in Type, i, j \in 1..Len(handlers) :
    /\ i < j /\ handlers[i].type = u /\ handlers[j].type = v /\ u \in Up(v)
    => u = v

\* The interface has a line for each handler.
InStep == \A u \in Type : Cardinality(LinesFor(u)) = Cardinality(HandlersFor(u))

\* The inductive invariant
IInv == TypeOK /\ Tree /\ Known /\ Sorted /\ InStep

\* No types but the root, no handlers
LEMMA InitIInv == Init => IInv
<1> SUFFICES ASSUME Init PROVE IInv
  OBVIOUS
<1>1. TypeOK
  BY RootAssumption DEF Init, TypeOK
<1>2. Tree
  <2> DEFINE rank == [t \in Type |-> IF t = Root THEN 0 ELSE 1]
  <2>1. rank \in [Type -> Nat] /\ \A t \in Type \ {Root} : rank[supertype[t]] < rank[t]
    BY RootAssumption DEF Init
  <2>2. \E f \in [Type -> Nat] : \A t \in Type \ {Root} : f[supertype[t]] < f[t]
    <3> HIDE DEF rank
    <3> QED
      BY <2>1
  <2>3. QED
    BY <2>2, RootAssumption DEF Init, Tree
<1>3. Known /\ Sorted
  BY DEF Init, Known, Sorted
<1>4. \A u \in Type : LinesFor(u) = {} /\ HandlersFor(u) = {}
  BY DEF Init, LinesFor, HandlersFor, At
<1>5. QED
  BY <1>1, <1>2, <1>3, <1>4 DEF IInv, InStep

\* mom_register_message_type grows the tree at a leaf: what is above the types
\* that were there stays.
LEMMA RegisterTypeKeeps ==
  ASSUME IInv, NEW t \in Type, NEW super \in Type, mom_register_message_type(t, super)
  PROVE  IInv'
<1> USE DEF IInv, mom_register_message_type
<1>1. TypeOK'
  BY DEF TypeOK
<1>2. /\ supertype \in [Type -> Type] /\ types \subseteq Type /\ Root \in types
      /\ \A x \in Type : supertype[x] \in types /\ supertype[x] # t
      /\ \A x \in Type \ {t} : supertype'[x] = supertype[x]
      /\ supertype'[t] = super /\ super # t /\ t # Root
  BY DEF TypeOK, Tree
<1>3. Tree'
  <2> PICK rank \in [Type -> Nat] : \A x \in Type \ {Root} : rank[supertype[x]] < rank[x]
    BY DEF Tree
  <2> DEFINE new == [rank EXCEPT ![t] = rank[super] + 1]
  <2>1. new \in [Type -> Nat] /\ new[t] = rank[super] + 1 /\ \A x \in Type \ {t} : new[x] = rank[x]
    OBVIOUS
  <2> HIDE DEF new
  <2>2. ASSUME NEW x \in Type \ {Root} PROVE new[supertype'[x]] < new[x]
    <3>1. CASE x = t
      <4>1. new[supertype'[x]] = rank[super] /\ rank[super] \in Nat
        BY <1>2, <2>1, <3>1
      <4>2. QED
        BY <2>1, <3>1, <4>1
    <3>2. CASE x # t
      <4>1. new[supertype'[x]] = rank[supertype[x]] /\ new[x] = rank[x]
        BY <1>2, <2>1, <3>2
      <4>2. QED
        BY <4>1
    <3>3. QED
      BY <3>1, <3>2
  <2>3. \E f \in [Type -> Nat] : \A x \in Type \ {Root} : f[supertype'[x]] < f[x]
    BY <2>1, <2>2
  <2>4. QED
    BY <1>2, <2>3 DEF Tree
<1>4. Known'
  BY DEF Known
<1>5. ASSUME NEW v \in types, NEW u \in Type, u \in Up(v)' PROVE u \in Up(v)
  <2> DEFINE S == Up(v) \cap types
  <2>1. S \in SUBSET Type /\ v \in S
    BY <1>2 DEF Up
  <2>2. ASSUME NEW x \in S PROVE supertype'[x] \in S
    BY <1>2, <2>2 DEF Up, Closed
  <2>3. u \in S
    <3> HIDE DEF S
    <3> QED
      BY <1>5, <2>1, <2>2 DEF Up, Closed
  <2>4. QED
    BY <2>3
<1>6. Sorted'
  <2> SUFFICES ASSUME NEW u \in Type, NEW v \in Type, NEW i \in 1..Len(handlers),
                      NEW j \in 1..Len(handlers), i < j, handlers[i].type = u,
                      handlers[j].type = v, u \in Up(v)'
               PROVE  u = v
    BY DEF Sorted
  <2>1. v \in types
    BY DEF Known
  <2>2. QED
    BY <1>5, <2>1 DEF Sorted
<1>7. InStep'
  BY DEF InStep, LinesFor, HandlersFor
<1>8. QED
  BY <1>1, <1>3, <1>4, <1>6, <1>7

\* Where mom_register_handler inserts: behind handlers that do not fit, and in front
\* of one that does or at the end.
LEMMA InsertPositionFacts ==
  ASSUME IInv, NEW t \in Type
  PROVE  /\ Fitting(t) = {i \in 1..Len(handlers) : handlers[i].type \in Up(t)}
         /\ Len(handlers) \in Nat /\ InsertPosition(t) \in 1..(Len(handlers) + 1)
         /\ \A i \in 1..Len(handlers) : i < InsertPosition(t) => handlers[i].type \notin Up(t)
         /\ InsertPosition(t) <= Len(handlers) => handlers[InsertPosition(t)].type \in Up(t)
<1>1. /\ Fitting(t) = {i \in 1..Len(handlers) : handlers[i].type \in Up(t)}
      /\ Len(handlers) \in Nat
  BY SupertypesAreUp DEF IInv, TypeOK, Fitting
<1>2. CASE Fitting(t) = {}
  BY <1>1, <1>2 DEF InsertPosition
<1>3. CASE Fitting(t) # {}
  <2>1. Fitting(t) \subseteq Nat
    BY <1>1
  <2>2. /\ InsertPosition(t) \in Fitting(t)
        /\ \A i \in Fitting(t) : InsertPosition(t) <= i
    BY <1>3, <2>1, MinIsLeast DEF InsertPosition
  <2>3. QED
    BY <1>1, <2>2
<1>4. QED
  BY <1>2, <1>3

\* mom_register_handler keeps the list sorted and adds the line.
LEMMA RegisterHandlerKeeps ==
  ASSUME IInv, NEW h \in Handler, NEW t \in Type, mom_register_handler(h, t)
  PROVE  IInv'
<1> USE DEF IInv
<1> DEFINE p == InsertPosition(t)
           e == [type |-> t, handler |-> h]
           n == Len(handlers)
<1>0. /\ t \in types /\ types' = types /\ supertype' = supertype
      /\ handlers' = InsertAt(handlers, p, e) /\ interface' = Append(interface, t)
  BY DEF mom_register_handler
<1>1. /\ n \in Nat /\ p \in 1..(n + 1)
      /\ \A i \in 1..n : i < p => handlers[i].type \notin Up(t)
      /\ p <= n => handlers[p].type \in Up(t)
  BY InsertPositionFacts
<1>2. e \in Entry /\ e.type = t /\ handlers \in Seq(Entry) /\ interface \in Seq(Type)
  BY DEF TypeOK, Entry
<1> HIDE DEF p, e
<1>3. /\ handlers' \in Seq(Entry) /\ Len(handlers') = n + 1 /\ handlers'[p] = e
      /\ \A j \in 1..n : handlers'[Shift(p, j)] = handlers[j]
  BY <1>0, <1>1, <1>2, InsertAtFacts
<1>4. TypeOK'
  BY <1>0, <1>2, <1>3, AppendProperties DEF TypeOK, Entry
<1>5. Tree'
  BY <1>0 DEF Tree
<1>6. ASSUME NEW k \in 1..(n + 1), k # p
      PROVE  LET j == IF k < p THEN k ELSE k - 1
             IN  j \in 1..n /\ Shift(p, j) = k /\ handlers'[k] = handlers[j]
  BY <1>1, <1>3, <1>6 DEF Shift
<1>7. Known'
  BY <1>0, <1>1, <1>2, <1>3, <1>6 DEF Known
<1>8. Sorted'
  <2> SUFFICES ASSUME NEW u \in Type, NEW v \in Type, NEW i \in 1..(n + 1),
                      NEW j \in 1..(n + 1), i < j, handlers'[i].type = u,
                      handlers'[j].type = v, u \in Up(v)
               PROVE  u = v
    <3>1. \A v \in Type : Up(v)' = Up(v)
      BY <1>0 DEF Up, Closed
    <3>2. QED
      BY <1>3, <3>1 DEF Sorted
  <2>1. CASE i # p /\ j # p
    <3> DEFINE i0 == IF i < p THEN i ELSE i - 1
               j0 == IF j < p THEN j ELSE j - 1
    <3>1. /\ i0 \in 1..n /\ j0 \in 1..n /\ i0 < j0
          /\ handlers'[i] = handlers[i0] /\ handlers'[j] = handlers[j0]
      BY <1>1, <1>6, <2>1
    <3>2. QED
      BY <3>1 DEF Sorted
  <2>2. CASE i = p
    <3> DEFINE j0 == j - 1
    <3>1. j0 \in 1..n /\ p <= j0 /\ p \in 1..n /\ handlers[j0].type = v /\ u = t
      BY <1>1, <1>2, <1>3, <1>6, <2>2
    <3>2. handlers[p].type \in Up(t) /\ handlers[p].type \in Type
      BY <1>1, <3>1, EntryFacts
    <3>3. handlers[p].type \in Up(v)
      BY <3>1, <3>2, UpOrder
    <3>4. handlers[p].type = v
      BY <3>1, <3>2, <3>3 DEF Sorted
    <3>5. QED
      BY <3>1, <3>2, <3>4, UpOrder
  <2>3. CASE j = p
    <3>1. i \in 1..n /\ i < p /\ handlers[i].type = u /\ v = t
      BY <1>1, <1>2, <1>3, <1>6, <2>3
    <3>2. QED
      BY <1>1, <3>1
  <2>4. QED
    BY <2>1, <2>2, <2>3
<1>9. InStep'
  <2> SUFFICES ASSUME NEW u \in Type
               PROVE  Cardinality(LinesFor(u))' = Cardinality(HandlersFor(u))'
    BY DEF InStep
  <2> DEFINE G == {x \in Entry : x.type = u}
  <2>1. e \in G <=> t \in {u}
    BY <1>2
  <2> HIDE DEF G
  <2>2. Cardinality(At(handlers', G)) = Cardinality(At(handlers, G)) + (IF e \in G THEN 1 ELSE 0)
    BY <1>0, <1>1, <1>2, CountInsert
  <2>3. Cardinality(At(interface', {u}))
          = Cardinality(At(interface, {u})) + (IF t \in {u} THEN 1 ELSE 0)
    BY <1>0, <1>2, CountAppend
  <2>4. Cardinality(At(interface, {u})) = Cardinality(At(handlers, G))
    BY DEF InStep, LinesFor, HandlersFor, G
  <2>5. Cardinality(At(interface', {u})) = Cardinality(At(handlers', G))
    BY <2>1, <2>2, <2>3, <2>4
  <2>6. QED
    BY <2>5 DEF LinesFor, HandlersFor, G
<1>10. QED
  BY <1>4, <1>5, <1>7, <1>8, <1>9

\* mom_unregister_handler leaves the rest of the list in order and removes one
\* line, which is there.
LEMMA UnregisterHandlerKeeps ==
  ASSUME IInv, NEW h \in Handler, NEW t \in Type, mom_unregister_handler(h, t)
  PROVE  IInv'
<1> USE DEF IInv
<1> DEFINE n == Len(handlers)
           e == [type |-> t, handler |-> h]
<1>0. PICK p \in DOMAIN handlers :
        /\ types' = types /\ supertype' = supertype /\ handlers[p] = e
        /\ handlers' = RemoveAt(handlers, p) /\ interface' = RemoveFirst(interface, t)
  BY DEF mom_unregister_handler
<1>1. /\ e \in Entry /\ e.type = t /\ handlers \in Seq(Entry) /\ interface \in Seq(Type)
      /\ n \in Nat /\ p \in 1..n
  BY DEF TypeOK, Entry
<1> HIDE DEF e
<1>2. /\ handlers' \in Seq(Entry) /\ Len(handlers') = n - 1
      /\ \A j \in 1..(n - 1) : handlers'[j] = handlers[Shift(p, j)]
  BY <1>0, <1>1, RemoveAtFacts
<1>3. PICK k \in 1..Len(interface) : interface[k] = t /\ interface' = RemoveAt(interface, k)
  <2> DEFINE I == {i \in 1..Len(interface) : interface[i] = t}
  <2>1. HandlersFor(t) # {} /\ IsFiniteSet(HandlersFor(t))
    BY <1>0, <1>1, AtIsFinite DEF HandlersFor, At
  <2>2. IsFiniteSet(LinesFor(t)) /\ LinesFor(t) # {}
    BY <1>1, <2>1, AtIsFinite, FS_EmptySet DEF InStep, LinesFor
  <2>3. I # {} /\ I \subseteq Nat
    BY <2>2 DEF LinesFor, At
  <2>4. interface' = RemoveAt(interface, Min(I))
    BY <1>0, <2>3 DEF RemoveFirst, SelectInSeq
  <2>5. Min(I) \in I
    <3> HIDE DEF I
    <3> QED
      BY <2>3, MinIsLeast
  <2>6. QED
    BY <2>4, <2>5
<1>4. TypeOK'
  BY <1>0, <1>1, <1>2, <1>3, RemoveAtFacts DEF TypeOK, Entry
<1>5. Tree'
  BY <1>0 DEF Tree
<1>6. \A j \in 1..(n - 1) : Shift(p, j) \in 1..n
  BY <1>1 DEF Shift
<1>7. Known'
  BY <1>0, <1>2, <1>6 DEF Known
<1>8. Sorted'
  <2> SUFFICES ASSUME NEW u \in Type, NEW v \in Type, NEW i \in 1..(n - 1),
                      NEW j \in 1..(n - 1), i < j, handlers'[i].type = u,
                      handlers'[j].type = v, u \in Up(v)
               PROVE  u = v
    <3>1. \A v \in Type : Up(v)' = Up(v)
      BY <1>0 DEF Up, Closed
    <3>2. QED
      BY <1>2, <3>1 DEF Sorted
  <2>1. Shift(p, i) < Shift(p, j)
    BY <1>1 DEF Shift
  <2>2. QED
    BY <1>2, <1>6, <2>1 DEF Sorted
<1>9. InStep'
  <2> SUFFICES ASSUME NEW u \in Type
               PROVE  Cardinality(LinesFor(u))' = Cardinality(HandlersFor(u))'
    BY DEF InStep
  <2> DEFINE G == {x \in Entry : x.type = u}
  <2>1. e \in G <=> t \in {u}
    BY <1>1
  <2> HIDE DEF G
  <2>2. Cardinality(At(handlers', G))
          = Cardinality(At(handlers, G)) - (IF handlers[p] \in G THEN 1 ELSE 0)
    BY <1>0, <1>1, CountRemove
  <2>3. Cardinality(At(interface', {u}))
          = Cardinality(At(interface, {u})) - (IF interface[k] \in {u} THEN 1 ELSE 0)
    BY <1>1, <1>3, CountRemove
  <2>4. Cardinality(At(interface, {u})) = Cardinality(At(handlers, G))
    BY DEF InStep, LinesFor, HandlersFor, G
  <2>5. Cardinality(At(interface', {u})) = Cardinality(At(handlers', G))
    BY <1>0, <1>3, <2>1, <2>2, <2>3, <2>4
  <2>6. QED
    BY <2>5 DEF LinesFor, HandlersFor, G
<1>10. QED
  BY <1>4, <1>5, <1>7, <1>8, <1>9

\* IInv holds whatever the order of the calls.
LEMMA InvIInv == Spec => []IInv
<1>1. IInv /\ [Next]_vars => IInv'
  <2> SUFFICES ASSUME IInv, [Next]_vars PROVE IInv'
    OBVIOUS
  <2>1. CASE UNCHANGED vars
    BY <2>1 DEF vars, IInv, TypeOK, Tree, Known, Sorted, InStep, Up, Closed, LinesFor, HandlersFor
  <2>2. CASE Next
    BY <2>2, RegisterTypeKeeps, RegisterHandlerKeeps, UnregisterHandlerKeeps DEF Next
  <2>3. QED
    BY <2>1, <2>2
<1>2. QED
  BY <1>1, InitIInv, PTL DEF Spec

-----------------------------------------------------------------------------
\* The types of messages, the handler list and the interface keep their types.
THEOREM TypeCorrect == Spec => []TypeOK
<1>1. IInv => TypeOK
  BY DEF IInv
<1>2. QED
  BY <1>1, InvIInv, PTL

\* Senders, who read the interface, and the receiver, who searches the list, agree
\* on what is accepted.
THEOREM SendersAndReceiverAgree == Spec => []AcceptedIffHandled
<1>1. IInv => AcceptedIffHandled
  <2> SUFFICES ASSUME IInv, NEW t \in types
               PROVE  Accepts(t) <=> mom_find_handler(t) # NoHandler
    BY DEF AcceptedIffHandled
  <2> USE DEF IInv
  <2>0. t \in Type /\ handlers \in Seq(Entry) /\ interface \in Seq(Type)
    BY DEF TypeOK, Entry
  <2>1. ASSUME NEW u \in Type PROVE LinesFor(u) = {} <=> HandlersFor(u) = {}
    <3>1. IsFiniteSet(LinesFor(u)) /\ IsFiniteSet(HandlersFor(u))
      BY <2>0, AtIsFinite DEF LinesFor, HandlersFor
    <3>2. QED
      BY <3>1, FS_EmptySet DEF InStep
  <2>2. Accepts(t) <=> \E u \in Up(t) : LinesFor(u) # {}
    BY <2>0, SupertypesAreUp DEF Accepts, LinesFor, At, Range
  <2>3. Fitting(t) # {} <=> \E u \in Up(t) : HandlersFor(u) # {}
    BY <2>0, InsertPositionFacts, EntryFacts DEF HandlersFor, At
  <2>4. Fitting(t) # {} => handlers[Min(Fitting(t))].handler \in Handler
    <3>1. Fitting(t) \subseteq 1..Len(handlers) /\ Len(handlers) \in Nat
      BY <2>0, InsertPositionFacts
    <3>2. Fitting(t) # {} => Min(Fitting(t)) \in Fitting(t)
      BY <3>1, MinIsLeast
    <3>3. QED
      BY <3>1, <3>2, EntryFacts
  <2>5. Up(t) \subseteq Type
    BY DEF Up
  <2>6. QED
    BY <2>1, <2>2, <2>3, <2>4, <2>5, HandlerAssumption DEF mom_find_handler
<1>2. QED
  BY <1>1, InvIInv, PTL

\* The handler that mom_find_handler picks is the most specific one.
THEOREM MostSpecificIsCalled == Spec => []DispatchIsMostSpecific
<1>1. IInv => DispatchIsMostSpecific
  <2> SUFFICES ASSUME IInv, NEW t \in types
               PROVE  LET h == mom_find_handler(t)
                          fitting == {i \in DOMAIN handlers : Below(t, handlers[i].type)}
                      IN  IF h = NoHandler THEN fitting = {}
                          ELSE \E i \in fitting :
                                 /\ handlers[i].handler = h
                                 /\ \A j \in fitting : Below(handlers[i].type, handlers[j].type)
    BY DEF DispatchIsMostSpecific
  <2> USE DEF IInv
  <2> DEFINE fitting == {i \in DOMAIN handlers : Below(t, handlers[i].type)}
             p == Min(Fitting(t))
  <2>0. /\ t \in Type /\ handlers \in Seq(Entry) /\ Len(handlers) \in Nat
        /\ DOMAIN handlers = 1..Len(handlers)
        /\ \A i \in 1..Len(handlers) : handlers[i].type \in types /\ handlers[i].type \in Type
    BY DEF TypeOK, Entry, Known
  <2>1. Fitting(t) = {i \in 1..Len(handlers) : handlers[i].type \in Up(t)}
    BY <2>0, InsertPositionFacts
  <2>2. fitting = Fitting(t)
    BY <2>0, <2>1, BelowIsUp
  <2>3. CASE Fitting(t) = {}
    BY <2>2, <2>3 DEF mom_find_handler
  <2>4. CASE Fitting(t) # {}
    <3>1. p \in Fitting(t) /\ \A j \in Fitting(t) : p <= j
      <4>1. Fitting(t) \subseteq Nat
        BY <2>1
      <4>2. QED
        BY <2>4, <4>1, MinIsLeast
    <3> HIDE DEF p
    <3>2. /\ p \in 1..Len(handlers) /\ handlers[p].type \in Up(t)
          /\ handlers[p].handler \in Handler
      BY <2>1, <3>1, EntryFacts
    <3>3. mom_find_handler(t) = handlers[p].handler /\ mom_find_handler(t) # NoHandler
      BY <2>4, <3>2, HandlerAssumption DEF mom_find_handler, p
    <3>4. ASSUME NEW j \in Fitting(t) PROVE Below(handlers[p].type, handlers[j].type)
      <4> DEFINE u == handlers[p].type
                 v == handlers[j].type
      <4>1. j \in 1..Len(handlers) /\ u \in types /\ v \in types /\ u \in Type /\ v \in Type
            /\ u \in Up(t) /\ v \in Up(t) /\ (p = j \/ p < j)
        BY <2>0, <2>1, <3>1, <3>2
      <4>2. u \in Up(v) => u = v
        BY <3>2, <4>1 DEF Sorted
      <4> HIDE DEF u, v
      <4>3. v \in Up(u)
        BY <2>0, <4>1, <4>2, UpOrder
      <4>4. Below(u, v)
        BY <4>1, <4>3, BelowIsUp
      <4>5. QED
        BY <4>4 DEF u, v
    <3> HIDE DEF fitting
    <3>5. \E i \in fitting : /\ handlers[i].handler = mom_find_handler(t)
                            /\ \A j \in fitting : Below(handlers[i].type, handlers[j].type)
      BY <2>2, <3>1, <3>3, <3>4
    <3>6. QED
      BY <3>3, <3>5 DEF fitting
  <2>5. QED
    BY <2>3, <2>4
<1>2. QED
  BY <1>1, InvIInv, PTL
=============================================================================
