------------------------ MODULE SummaryAndIdentityProofs ------------------------
(***************************************************************************)
(* Proofs about BadRecords and IncidentIdentity, the two components that   *)
(* put what they read into an order: for every sequence of records and     *)
(* every cap, and for every list of issues.                                *)
(***************************************************************************)
EXTENDS BadRecords, IncidentIdentity, FiniteSetTheorems, FunctionTheorems, TLAPS

-----------------------------------------------------------------------------
(* Ranks in a strict order: each element of a finite set gets a place. *)

StrictOrder(R, T) ==
    /\ \A x \in T : <<x, x>> \notin R
    /\ \A x, y, z \in T : <<x, y>> \in R /\ <<y, z>> \in R => <<x, z>> \in R
    /\ \A x, y \in T : x = y \/ <<x, y>> \in R \/ <<y, x>> \in R

Predecessors(R, T, x) == {y \in T : <<y, x>> \in R}
Ranks(R, T) == [x \in T |-> Cardinality(Predecessors(R, T, x)) + 1]

LEMMA RankBound ==
    ASSUME NEW T, IsFiniteSet(T), NEW R, StrictOrder(R, T), NEW x \in T
    PROVE  /\ IsFiniteSet(Predecessors(R, T, x))
           /\ Cardinality(Predecessors(R, T, x)) \in Nat
           /\ Cardinality(Predecessors(R, T, x)) < Cardinality(T)
           /\ Cardinality(T) \in Nat
<1>1. Predecessors(R, T, x) \subseteq T \ {x}
  BY DEF Predecessors, StrictOrder
<1>2. IsFiniteSet(T \ {x}) /\ Cardinality(T \ {x}) = Cardinality(T) - 1
  BY FS_RemoveElement
<1>3. /\ IsFiniteSet(Predecessors(R, T, x))
      /\ Cardinality(Predecessors(R, T, x)) <= Cardinality(T \ {x})
  BY <1>1, <1>2, FS_Subset
<1>4. Cardinality(T) \in Nat /\ Cardinality(Predecessors(R, T, x)) \in Nat
  BY <1>3, FS_CardinalityType
<1> QED BY <1>2, <1>3, <1>4

\* What comes before has fewer elements before it.
LEMMA RankGrows ==
    ASSUME NEW T, IsFiniteSet(T), NEW R, StrictOrder(R, T), NEW x \in T, NEW y \in T, <<x, y>> \in R
    PROVE  Cardinality(Predecessors(R, T, x)) < Cardinality(Predecessors(R, T, y))
<1> DEFINE P == Predecessors(R, T, x)
           Q == Predecessors(R, T, y)
<1>1. P \subseteq Q \ {x} /\ x \in Q
  BY DEF Predecessors, StrictOrder
<1>2. IsFiniteSet(Q) /\ Cardinality(Q) \in Nat /\ Cardinality(P) \in Nat
  BY RankBound
<1> HIDE DEF P, Q
<1>3. IsFiniteSet(Q \ {x}) /\ Cardinality(Q \ {x}) = Cardinality(Q) - 1
  BY <1>1, <1>2, FS_RemoveElement
<1>4. Cardinality(P) <= Cardinality(Q \ {x})
  BY <1>1, <1>3, FS_Subset
<1>5. Cardinality(P) < Cardinality(Q)
  BY <1>2, <1>3, <1>4
<1> QED BY <1>5 DEF P, Q

\* Each place is somebody's.
Taken(N, T, rank) == \A n \in N : \E x \in T : rank[x] = n

\* The ranks in a strict order number the elements from 1 on, without a gap.
LEMMA RanksNumber ==
    ASSUME NEW T, IsFiniteSet(T), NEW R, StrictOrder(R, T), NEW N, N = 1 .. Cardinality(T)
    PROVE  /\ Ranks(R, T) \in [T -> N]
           /\ \A x, y \in T : <<x, y>> \in R <=> Ranks(R, T)[x] < Ranks(R, T)[y]
           /\ \A x, y \in T : Ranks(R, T)[x] = Ranks(R, T)[y] => x = y
           /\ Taken(N, T, Ranks(R, T))
<1> DEFINE rank == Ranks(R, T)
<1>1. \A x \in T : /\ rank[x] = Cardinality(Predecessors(R, T, x)) + 1
                   /\ Cardinality(Predecessors(R, T, x)) \in Nat
                   /\ rank[x] \in N
  BY RankBound DEF Ranks
<1>2. rank \in [T -> N]
  BY <1>1 DEF Ranks
<1>3. \A x, y \in T : <<x, y>> \in R => rank[x] < rank[y]
  BY <1>1, RankGrows
<1>4. \A x, y \in T : x = y \/ <<x, y>> \in R \/ <<y, x>> \in R
  BY DEF StrictOrder
<1>5. \A x \in T : rank[x] \in Nat
  BY <1>1
<1> HIDE DEF rank
<1>6. ASSUME NEW x \in T, NEW y \in T, rank[x] = rank[y] PROVE x = y
  <2>1. ~(rank[x] < rank[y]) /\ ~(rank[y] < rank[x])
    BY <1>5, <1>6
  <2> QED BY <1>3, <1>4, <2>1
<1>7. ASSUME NEW x \in T, NEW y \in T PROVE <<x, y>> \in R <=> rank[x] < rank[y]
  <2>1. rank[x] < rank[y] => ~(rank[y] < rank[x]) /\ rank[x] # rank[y]
    BY <1>5
  <2> QED BY <1>3, <1>4, <2>1
<1>8. rank \in Injection(T, N)
  BY <1>2, <1>6, Fun_IsInj
<1>9. IsFiniteSet(N) /\ Cardinality(N) = Cardinality(T)
  <2>1. Cardinality(T) \in Nat
    BY FS_CardinalityType
  <2> QED BY <2>1, FS_Interval
<1>10. \A n \in N : \E x \in T : rank[x] = n
  <2>1. rank \in Surjection(T, N)
    BY <1>8, <1>9, FS_Injection
  <2> QED BY <2>1, Fun_SurjectionProperties
<1> QED BY <1>2, <1>6, <1>7, <1>10 DEF rank, Taken

-----------------------------------------------------------------------------
(* Sorting the issues. *)

\* What a reordering does: every index comes from exactly one.
LEMMA ReorderingFacts ==
    ASSUME NEW D, NEW order \in Bijection(D, D)
    PROVE  /\ \A n \in D : order[n] \in D
           /\ \A m, n \in D : order[m] = order[n] => m = n
           /\ \A n \in D : \E m \in D : order[m] = n
  BY Fun_BijectionProperties

LEMMA CountTo ==
    ASSUME NEW k \in Nat
    PROVE  IsFiniteSet(1 .. k) /\ Cardinality(1 .. k) = k
  BY FS_Interval

LEMMA IssueFacts ==
    ASSUME NEW s \in Seq(Nat)
    PROVE  /\ DOMAIN s = 1 .. Len(s) /\ Len(s) \in Nat
           /\ \A n \in DOMAIN s : s[n] \in Nat
           /\ IsFiniteSet(DOMAIN s) /\ Cardinality(DOMAIN s) = Len(s)
<1>1. DOMAIN s = 1 .. Len(s) /\ Len(s) \in Nat /\ \A n \in DOMAIN s : s[n] \in Nat
  OBVIOUS
<1> QED BY <1>1, CountTo

\* Any list of issues can be sorted: by the rank of an issue, and of its index among
\* equal issues.
LEMMA CanSort ==
    ASSUME NEW s \in Seq(Nat)
    PROVE  \E order \in Reorderings(s) : Sorted(InOrder(s, order))
<1> DEFINE D == DOMAIN s
           R == {e \in D \X D : s[e[1]] < s[e[2]] \/ (s[e[1]] = s[e[2]] /\ e[1] < e[2])}
           rank == Ranks(R, D)
<1>1. /\ D = 1 .. Len(s) /\ Len(s) \in Nat
      /\ \A n \in D : s[n] \in Nat
      /\ IsFiniteSet(D) /\ Cardinality(D) = Len(s)
  BY IssueFacts
<1>2. \A m, n \in D : <<m, n>> \in R <=> s[m] < s[n] \/ (s[m] = s[n] /\ m < n)
  OBVIOUS
<1> HIDE DEF D, R
<1>3. StrictOrder(R, D)
  <2>1. \A n \in D : n \in Nat /\ s[n] \in Nat
    BY <1>1
  <2>2. \A m \in D : <<m, m>> \notin R
    BY <1>2, <2>1
  <2>3. ASSUME NEW l \in D, NEW m \in D, NEW n \in D, <<l, m>> \in R, <<m, n>> \in R
        PROVE  <<l, n>> \in R
    <3>1. s[l] < s[m] \/ (s[l] = s[m] /\ l < m)
      BY <1>2, <2>3
    <3>2. s[m] < s[n] \/ (s[m] = s[n] /\ m < n)
      BY <1>2, <2>3
    <3>3. s[l] < s[n] \/ (s[l] = s[n] /\ l < n)
      BY <2>1, <3>1, <3>2
    <3> QED BY <1>2, <3>3
  <2>4. ASSUME NEW m \in D, NEW n \in D
        PROVE  m = n \/ <<m, n>> \in R \/ <<n, m>> \in R
    BY <1>2, <2>1
  <2> QED BY <2>2, <2>3, <2>4 DEF StrictOrder
<1>4. D = 1 .. Cardinality(D)
  BY <1>1
<1>5. /\ rank \in [D -> D]
      /\ \A m, n \in D : <<m, n>> \in R <=> rank[m] < rank[n]
      /\ \A m, n \in D : rank[m] = rank[n] => m = n
      /\ Taken(D, D, rank)
  <2>1. IsFiniteSet(D)
    BY <1>1
  <2> QED BY <2>1, <1>3, <1>4, RanksNumber
<1> HIDE DEF rank
<1> DEFINE order == [i \in D |-> CHOOSE n \in D : rank[n] = i]
<1>6. \A i \in D : order[i] \in D /\ rank[order[i]] = i
  BY <1>5 DEF Taken
<1>7. order \in Bijection(D, D)
  <2>1. order \in [D -> D]
    BY <1>6
  <2>2. \A i, j \in D : order[i] = order[j] => i = j
    BY <1>6
  <2>3. \A n \in D : \E i \in D : order[i] = n
    <3> SUFFICES ASSUME NEW n \in D PROVE order[rank[n]] = n /\ rank[n] \in D
      OBVIOUS
    <3>1. rank[n] \in D
      BY <1>5
    <3>2. rank[order[rank[n]]] = rank[n] /\ order[rank[n]] \in D
      BY <3>1, <1>6
    <3> HIDE DEF order
    <3> QED BY <3>1, <3>2, <1>5
  <2> HIDE DEF order
  <2> QED BY <2>1, <2>2, <2>3, Fun_IsBij
<1>8. Sorted(InOrder(s, order))
  <2>5. InOrder(s, order) = [n \in D |-> s[order[n]]]
    BY DEF InOrder, D
  <2> HIDE DEF order
  <2> SUFFICES ASSUME NEW m \in D, NEW n \in D, m <= n PROVE s[order[m]] <= s[order[n]]
    BY <2>5 DEF Sorted
  <2>1. m \in Nat /\ n \in Nat
    BY <1>1
  <2>2. s[order[m]] \in Nat /\ s[order[n]] \in Nat /\ order[m] \in D /\ order[n] \in D
    BY <1>1, <1>6
  <2>3. CASE m = n
    BY <2>2, <2>3
  <2>4. CASE m < n
    <3>1. rank[order[m]] < rank[order[n]]
      BY <1>6, <2>4
    <3>2. <<order[m], order[n]>> \in R
      BY <1>5, <2>2, <3>1
    <3> QED BY <1>2, <2>2, <3>2
  <2> QED BY <2>1, <2>3, <2>4
<1> QED BY <1>7, <1>8 DEF Reorderings, D

LEMMA CanonicalIsSorted ==
    ASSUME NEW s \in Seq(Nat)
    PROVE  \E order \in Bijection(DOMAIN s, DOMAIN s) :
               /\ CanonicalizeDetectedIssues(s) = InOrder(s, order)
               /\ Sorted(InOrder(s, order))
<1> DEFINE order == CHOOSE o \in Reorderings(s) : Sorted(InOrder(s, o))
<1>1. order \in Reorderings(s) /\ Sorted(InOrder(s, order))
  BY CanSort
<1>2. CanonicalizeDetectedIssues(s) = InOrder(s, order)
  BY DEF CanonicalizeDetectedIssues
<1> QED BY <1>1, <1>2 DEF Reorderings

\* The indices of a list with what is not above v.
UpTo(D, s, v) == {n \in D : s[n] <= v}

LEMMA UpToFinite ==
    ASSUME NEW D, IsFiniteSet(D), NEW s, NEW v
    PROVE  IsFiniteSet(UpTo(D, s, v)) /\ Cardinality(UpTo(D, s, v)) \in Nat
<1>1. UpTo(D, s, v) \subseteq D
  BY DEF UpTo
<1> QED BY <1>1, FS_Subset, FS_CardinalityType

\* t is s in the order g.
Rearranged(D, s, t, g) == \A n \in D : t[n] = s[g[n]]

\* As many elements of a list are below a bound as of the same list in another order.
LEMMA AsManyBelow ==
    ASSUME NEW D, IsFiniteSet(D), NEW s, NEW t, NEW g \in Bijection(D, D),
           Rearranged(D, s, t, g), NEW v
    PROVE  Cardinality(UpTo(D, t, v)) = Cardinality(UpTo(D, s, v))
<1> DEFINE A == UpTo(D, t, v)
           B == UpTo(D, s, v)
           h == [n \in A |-> g[n]]
<1>1. /\ \A n \in D : g[n] \in D
      /\ \A m, n \in D : g[m] = g[n] => m = n
      /\ \A n \in D : \E m \in D : g[m] = n
  BY ReorderingFacts
<1>2. h \in [A -> B]
  BY <1>1 DEF UpTo, Rearranged
<1>3. \A m, n \in A : h[m] = h[n] => m = n
  BY <1>1 DEF UpTo
<1>4. \A n \in B : \E m \in A : h[m] = n
  BY <1>1 DEF UpTo, Rearranged
<1>5. IsFiniteSet(A)
  BY UpToFinite
<1> HIDE DEF A, B, h
<1>6. h \in Bijection(A, B)
  BY <1>2, <1>3, <1>4, Fun_IsBij
<1>7. ExistsBijection(A, B)
  BY <1>6 DEF ExistsBijection
<1>8. Cardinality(A) = Cardinality(B)
  BY <1>5, <1>7, FS_Bijection
<1> QED BY <1>8 DEF A, B

\* Where one sorted list is below another, it has more elements up to what it has there.
LEMMA LowerHasMoreBelow ==
    ASSUME NEW len \in Nat, NEW D, D = 1 .. len, NEW u \in [D -> Nat], NEW w \in [D -> Nat],
           Sorted(u), Sorted(w), NEW n \in D, u[n] < w[n]
    PROVE  Cardinality(UpTo(D, w, u[n])) < Cardinality(UpTo(D, u, u[n]))
<1> DEFINE A == UpTo(D, w, u[n])
           B == UpTo(D, u, u[n])
           C == 1 .. n - 1
           E == 1 .. n
<1>1. n \in Nat /\ n - 1 \in Nat /\ u[n] \in Nat /\ w[n] \in Nat
  OBVIOUS
<1>2. \A i, j \in D : i <= j => u[i] <= u[j] /\ w[i] <= w[j]
  BY DEF Sorted
<1>3. A \subseteq C
  <2> SUFFICES ASSUME NEW i \in D, w[i] <= u[n], i >= n PROVE FALSE
    BY <1>1 DEF UpTo
  <2>1. w[n] <= w[i] /\ w[i] \in Nat
    BY <1>1, <1>2
  <2> QED BY <1>1, <2>1
<1>4. E \subseteq B
  BY <1>1, <1>2 DEF UpTo
<1>5. \A k \in Nat : IsFiniteSet(1 .. k) /\ Cardinality(1 .. k) = k
  BY CountTo
<1>6. IsFiniteSet(C) /\ Cardinality(C) = n - 1
  BY <1>1, <1>5
<1>7. Cardinality(E) = n
  BY <1>1, <1>5
<1>8. IsFiniteSet(D)
  BY <1>5
<1>9. IsFiniteSet(B) /\ Cardinality(B) \in Nat /\ Cardinality(A) \in Nat
  BY <1>8, UpToFinite
<1> HIDE DEF A, B, C, E
<1>10. Cardinality(A) <= Cardinality(C)
  BY <1>3, <1>6, FS_Subset
<1>11. Cardinality(E) <= Cardinality(B)
  BY <1>4, <1>9, FS_Subset
<1>12. Cardinality(A) < Cardinality(B)
  BY <1>1, <1>6, <1>7, <1>9, <1>10, <1>11
<1> QED BY <1>12 DEF A, B

\* Two sorted lists of the same elements are the same list.
LEMMA SortedIsUnique ==
    ASSUME NEW len \in Nat, NEW D, D = 1 .. len, NEW s \in [D -> Nat], NEW t \in [D -> Nat],
           NEW g \in Bijection(D, D), Rearranged(D, s, t, g),
           Sorted(s), Sorted(t)
    PROVE  s = t
<1>1. IsFiniteSet(D)
  BY FS_Interval
<1>2. ASSUME NEW v
      PROVE  /\ Cardinality(UpTo(D, t, v)) = Cardinality(UpTo(D, s, v))
             /\ Cardinality(UpTo(D, s, v)) \in Nat
  <2>1. Cardinality(UpTo(D, t, v)) = Cardinality(UpTo(D, s, v))
    BY <1>1, AsManyBelow
  <2>2. Cardinality(UpTo(D, s, v)) \in Nat
    BY <1>1, UpToFinite
  <2> QED BY <2>1, <2>2
<1>3. ASSUME NEW n \in D PROVE s[n] = t[n]
  <2>1. ASSUME s[n] < t[n] PROVE FALSE
    <3>1. Cardinality(UpTo(D, t, s[n])) < Cardinality(UpTo(D, s, s[n]))
      BY <2>1, LowerHasMoreBelow
    <3> QED BY <1>2, <3>1
  <2>2. ASSUME t[n] < s[n] PROVE FALSE
    <3>1. Cardinality(UpTo(D, s, t[n])) < Cardinality(UpTo(D, t, t[n]))
      BY <2>2, LowerHasMoreBelow
    <3> QED BY <1>2, <3>1
  <2>3. s[n] \in Nat /\ t[n] \in Nat
    OBVIOUS
  <2> QED BY <2>1, <2>2, <2>3
<1> QED BY <1>3

\* Reorderings follow one another, and each can be undone.
LEMMA ReorderTwice ==
    ASSUME NEW D, NEW a \in Bijection(D, D), NEW b \in Bijection(D, D)
    PROVE  [n \in D |-> a[b[n]]] \in Bijection(D, D)
<1> DEFINE h == [n \in D |-> a[b[n]]]
<1>1. /\ \A n \in D : a[n] \in D /\ b[n] \in D
      /\ \A m, n \in D : (a[m] = a[n] => m = n) /\ (b[m] = b[n] => m = n)
      /\ \A n \in D : (\E m \in D : a[m] = n) /\ (\E m \in D : b[m] = n)
  BY ReorderingFacts
<1>2. h \in [D -> D]
  BY <1>1
<1>3. \A m, n \in D : h[m] = h[n] => m = n
  BY <1>1
<1>4. ASSUME NEW n \in D PROVE \E m \in D : h[m] = n
  <2>1. PICK k \in D : a[k] = n
    BY <1>1
  <2>2. PICK m \in D : b[m] = k
    BY <1>1
  <2> QED BY <2>1, <2>2
<1> HIDE DEF h
<1>5. h \in Bijection(D, D)
  BY <1>2, <1>3, <1>4, Fun_IsBij
<1> QED BY <1>5 DEF h

LEMMA ReorderBack ==
    ASSUME NEW D, NEW a \in Bijection(D, D)
    PROVE  \E b \in Bijection(D, D) : \A n \in D : a[b[n]] = n
<1> DEFINE b == [n \in D |-> CHOOSE m \in D : a[m] = n]
<1>1. /\ \A n \in D : a[n] \in D
      /\ \A m, n \in D : a[m] = a[n] => m = n
      /\ \A n \in D : \E m \in D : a[m] = n
  BY ReorderingFacts
<1>2. \A n \in D : b[n] \in D /\ a[b[n]] = n
  BY <1>1
<1>3. b \in [D -> D]
  BY <1>2
<1> HIDE DEF b
<1>4. \A m, n \in D : b[m] = b[n] => m = n
  BY <1>2
<1>5. \A n \in D : \E m \in D : b[m] = n
  BY <1>1, <1>2
<1>6. b \in Bijection(D, D)
  BY <1>3, <1>4, <1>5, Fun_IsBij
<1> QED BY <1>2, <1>6

LEMMA InOrderFacts ==
    ASSUME NEW s \in Seq(Nat), NEW order \in Bijection(DOMAIN s, DOMAIN s)
    PROVE  /\ InOrder(s, order) \in [DOMAIN s -> Nat]
           /\ \A n \in DOMAIN s : InOrder(s, order)[n] = s[order[n]]
<1>1. \A n \in DOMAIN s : order[n] \in DOMAIN s
  BY ReorderingFacts
<1>2. \A n \in DOMAIN s : s[n] \in Nat
  BY IssueFacts
<1> QED BY <1>1, <1>2 DEF InOrder

\* What the canonical form forgets of a list is its order, and nothing else.
LEMMA CanonicalForgetsOrder ==
    ASSUME NEW s \in Seq(Nat), NEW t \in Seq(Nat)
    PROVE  CanonicalizeDetectedIssues(s) = CanonicalizeDetectedIssues(t)
               <=> \E order \in Reorderings(t) : s = InOrder(t, order)
<1> DEFINE D == DOMAIN s
           u == CanonicalizeDetectedIssues(s)
           w == CanonicalizeDetectedIssues(t)
<1>1. PICK p \in Bijection(D, D) : u = InOrder(s, p) /\ Sorted(u)
  BY CanonicalIsSorted
<1>2. PICK q \in Bijection(DOMAIN t, DOMAIN t) : w = InOrder(t, q) /\ Sorted(w)
  BY CanonicalIsSorted
<1>3. u \in [D -> Nat] /\ \A n \in D : u[n] = s[p[n]]
  BY <1>1, InOrderFacts
<1>4. w \in [DOMAIN t -> Nat] /\ \A n \in DOMAIN t : w[n] = t[q[n]]
  BY <1>2, InOrderFacts
<1>5. s = [n \in D |-> s[n]]
  OBVIOUS
<1> HIDE DEF u, w
<1>6. ASSUME u = w PROVE \E order \in Reorderings(t) : s = InOrder(t, order)
  <2>1. DOMAIN t = D
    BY <1>3, <1>4, <1>6
  <2>2. PICK b \in Bijection(D, D) : \A n \in D : p[b[n]] = n
    BY ReorderBack
  <2> DEFINE order == [n \in D |-> q[b[n]]]
  <2>3. order \in Bijection(D, D)
    BY <1>2, <2>1, <2>2, ReorderTwice
  <2>4. \A n \in D : b[n] \in D
    BY <2>2, ReorderingFacts
  <2>5. \A n \in D : s[n] = t[order[n]]
    <3> SUFFICES ASSUME NEW n \in D PROVE s[n] = t[q[b[n]]]
      OBVIOUS
    <3>1. u[b[n]] = s[p[b[n]]] /\ w[b[n]] = t[q[b[n]]]
      BY <1>3, <1>4, <2>1, <2>4
    <3> QED BY <1>6, <2>2, <3>1
  <2> HIDE DEF order
  <2>6. s = InOrder(t, order)
    BY <1>5, <2>1, <2>5 DEF InOrder
  <2> QED BY <2>1, <2>3, <2>6 DEF Reorderings
<1>7. ASSUME NEW order \in Reorderings(t), s = InOrder(t, order) PROVE u = w
  <2>1. DOMAIN t = D
    BY <1>7 DEF InOrder
  <2>2. order \in Bijection(D, D) /\ \A n \in D : s[n] = t[order[n]]
    BY <1>7, <2>1 DEF Reorderings, InOrder
  <2> DEFINE a == [n \in D |-> order[p[n]]]
  <2>3. a \in Bijection(D, D)
    BY <1>1, <2>2, ReorderTwice
  <2>4. PICK b \in Bijection(D, D) : \A n \in D : a[b[n]] = n
    BY <2>3, ReorderBack
  <2> DEFINE g == [n \in D |-> b[q[n]]]
  <2>5. g \in Bijection(D, D)
    BY <1>2, <2>1, <2>4, ReorderTwice
  <2>6. \A n \in D : p[n] \in D /\ q[n] \in D /\ b[n] \in D
    BY <1>1, <1>2, <2>1, <2>4, ReorderingFacts
  <2>7. Rearranged(D, u, w, g)
    <3> SUFFICES ASSUME NEW n \in D PROVE w[n] = u[b[q[n]]]
      BY DEF Rearranged
    <3>1. u[b[q[n]]] = s[p[b[q[n]]]] /\ w[n] = t[q[n]]
      BY <1>3, <1>4, <2>1, <2>6
    <3>2. s[p[b[q[n]]]] = t[order[p[b[q[n]]]]]
      BY <2>2, <2>6
    <3>3. a[b[q[n]]] = order[p[b[q[n]]]] /\ a[b[q[n]]] = q[n]
      BY <2>4, <2>6
    <3> QED BY <3>1, <3>2, <3>3
  <2>8. D = 1 .. Len(s) /\ Len(s) \in Nat
    OBVIOUS
  <2> HIDE DEF a, g, D
  <2>9. w \in [D -> Nat]
    BY <1>4, <2>1
  <2> QED BY <1>1, <1>2, <1>3, <2>5, <2>7, <2>8, <2>9, SortedIsUnique
<1> QED BY <1>6, <1>7 DEF u, w

(***************************************************************************)
(* The detections made are the ones that can be made; what the names tell  *)
(* apart follows for any two of them.                                      *)
(***************************************************************************)
DetectionInv == detected \subseteq Detections

LEMMA DetectionInvariant == DetectionSpec => []DetectionInv
<1>1. DetectionInit => DetectionInv
  BY DEF DetectionInit, DetectionInv
<1>2. DetectionInv /\ [Detect]_detected => DetectionInv'
  BY DEF DetectionInv, Detect
<1> QED BY <1>1, <1>2, PTL DEF DetectionSpec

LEMMA NamesOfDetections == DetectionInv => FingerprintNamesFailure
<1> SUFFICES ASSUME DetectionInv, NEW d \in detected, NEW e \in detected
             PROVE  LET same_run == d.pipeline = e.pipeline /\ d.run_id = e.run_id
                    IN /\ MakeFingerprint(d) = MakeFingerprint(e) <=> same_run /\ SameIssues(d, e)
                       /\ MakeIncidentId(d) = MakeIncidentId(e)
                              <=> same_run /\ d.detected_at = e.detected_at
  BY DEF FingerprintNamesFailure
<1>1. Issues(d) \in Seq(Nat) /\ Issues(e) \in Seq(Nat)
  BY DetectionAssumption DEF DetectionInv, Issues
<1>2. CanonicalizeDetectedIssues(Issues(d)) = CanonicalizeDetectedIssues(Issues(e))
          <=> SameIssues(d, e)
  BY <1>1, CanonicalForgetsOrder DEF SameIssues
<1>3. MakeFingerprint(d) = MakeFingerprint(e)
          <=> /\ CanonicalizeDetectedIssues(Issues(d)) = CanonicalizeDetectedIssues(Issues(e))
              /\ d.pipeline = e.pipeline /\ d.run_id = e.run_id
  BY DEF MakeFingerprint
<1>4. MakeIncidentId(d) = MakeIncidentId(e)
          <=> d.detected_at = e.detected_at /\ d.pipeline = e.pipeline /\ d.run_id = e.run_id
  BY DEF MakeIncidentId
<1> QED BY <1>2, <1>3, <1>4

(***************************************************************************)
(* Two detections have one fingerprint exactly if they are of one run with *)
(* the same issues, in whatever order those were found; the incident ids   *)
(* tell the times of detection apart.                                      *)
(***************************************************************************)
THEOREM FailuresKeepTheirNames == DetectionSpec => []FingerprintNamesFailure
  BY DetectionInvariant, NamesOfDetections, PTL

-----------------------------------------------------------------------------
(* The summary of bad records. *)

LEMMA KeyOfRecord ==
    ASSUME NEW r \in BadRecord
    PROVE  ViolationKey(r) \in Nat \X Nat \X Nat
<1> DEFINE raw == r.raw_reason
           texts == <<raw.detail, raw.rule, raw.reason>>
           said == {n \in 1 .. 3 : texts[n] \notin {Absent, Blank}}
           first == CHOOSE n \in said : \A m \in said : n <= m
<1>1. /\ r.source_table \in Nat
      /\ raw.text \in Nat \cup {Absent} /\ raw.field \in Nat \cup {Absent}
      /\ raw.detail \in Nat \cup {Absent} /\ raw.rule \in Nat \cup {Absent}
      /\ raw.reason \in Nat \cup {Absent}
  BY DEF BadRecord
<1>2. Field(raw) \in Nat
  BY <1>1, SummaryAssumption DEF Field
<1>3. ASSUME said # {} PROVE texts[first] \in Nat
  <2>1. \E n \in said : \A m \in said : n <= m
    <3>1. said \subseteq {1, 2, 3}
      OBVIOUS
    <3> HIDE DEF said
    <3>2. CASE 1 \in said
      <4>1. \A m \in said : 1 <= m
        BY <3>1
      <4> QED BY <3>2, <4>1
    <3>3. CASE 1 \notin said /\ 2 \in said
      <4>1. \A m \in said : 2 <= m
        BY <3>1, <3>3
      <4> QED BY <3>3, <4>1
    <3>4. CASE 1 \notin said /\ 2 \notin said
      <4>1. \A m \in said : m = 3
        BY <3>1, <3>4
      <4>2. 3 \in said
        BY <1>3, <4>1
      <4> QED BY <4>1, <4>2
    <3> QED BY <3>2, <3>3, <3>4
  <2>2. first \in said
    <3> HIDE DEF said
    <3> QED BY <2>1
  <2> HIDE DEF first
  <2>3. \A n \in said : texts[n] \in Nat
    BY <1>1
  <2> QED BY <2>2, <2>3
<1>4. Reason(raw) \in Nat
  <2>1. Reason(raw) = IF raw.parsed /\ said # {} THEN texts[first]
                      ELSE IF raw.text # Absent THEN raw.text ELSE Unknown
    BY DEF Reason
  <2> HIDE DEF said, texts, first
  <2> QED BY <1>1, <1>3, <2>1, SummaryAssumption
<1> QED BY <1>1, <1>2, <1>4 DEF ViolationKey

LEMMA AlphabeticalOrder ==
    ASSUME NEW k \in Nat \X Nat \X Nat, NEW j \in Nat \X Nat \X Nat
    PROVE  Alphabetical(k, j) <=> \/ k[1] < j[1]
                                  \/ k[1] = j[1] /\ k[2] < j[2]
                                  \/ k[1] = j[1] /\ k[2] = j[2] /\ k[3] < j[3]
<1>1. 1 .. 3 = {1, 2, 3} /\ 1 .. 1 - 1 = {} /\ 1 .. 2 - 1 = {1} /\ 1 .. 3 - 1 = {1, 2}
  OBVIOUS
<1> QED BY <1>1 DEF Alphabetical

\* How many of the records of type k have been read when record n has.
Nth(k, n) == Cardinality({i \in OfType(k) : i <= n})

(***************************************************************************)
(* The groups are the types of the records read; each counts its records,  *)
(* and holds the first of them, as many as the cap allows.                 *)
(***************************************************************************)
SummaryInv ==
    /\ bad_records \in Seq(BadRecord)
    /\ DOMAIN grouped_counts = AllTypes /\ DOMAIN grouped_samples = AllTypes
    /\ \A k \in AllTypes :
         /\ grouped_counts[k] = Cardinality(OfType(k))
         /\ grouped_samples[k] \in Seq(Nat)
         /\ Len(grouped_samples[k]) = IF Cardinality(OfType(k)) <= MaxSamplesPerType
                                      THEN Cardinality(OfType(k)) ELSE MaxSamplesPerType
         /\ \A n \in OfType(k) : Nth(k, n) <= Len(grouped_samples[k]) =>
                grouped_samples[k][Nth(k, n)] = bad_records[n].record_json

LEMMA RecordFacts ==
    ASSUME bad_records \in Seq(BadRecord)
    PROVE  /\ DOMAIN bad_records = 1 .. Len(bad_records) /\ Len(bad_records) \in Nat
           /\ \A n \in DOMAIN bad_records : bad_records[n] \in BadRecord
           /\ IsFiniteSet(DOMAIN bad_records)
           /\ \A k : IsFiniteSet(OfType(k)) /\ Cardinality(OfType(k)) \in Nat
<1>1. /\ DOMAIN bad_records = 1 .. Len(bad_records) /\ Len(bad_records) \in Nat
      /\ \A n \in DOMAIN bad_records : bad_records[n] \in BadRecord
  OBVIOUS
<1>2. IsFiniteSet(DOMAIN bad_records)
  BY <1>1, CountTo
<1>3. ASSUME NEW k PROVE IsFiniteSet(OfType(k)) /\ Cardinality(OfType(k)) \in Nat
  <2>1. OfType(k) \subseteq DOMAIN bad_records
    BY DEF OfType
  <2> QED BY <1>2, <2>1, FS_Subset, FS_CardinalityType
<1> QED BY <1>1, <1>2, <1>3

LEMMA NthFacts ==
    ASSUME bad_records \in Seq(BadRecord), NEW k, NEW n \in OfType(k)
    PROVE  /\ Nth(k, n) \in 1 .. Cardinality(OfType(k))
           /\ k \in AllTypes
<1> DEFINE A == {i \in OfType(k) : i <= n}
<1>1. A \subseteq OfType(k) /\ n \in A
  BY RecordFacts DEF OfType
<1>2. IsFiniteSet(OfType(k)) /\ Cardinality(OfType(k)) \in Nat
  BY RecordFacts
<1>3. k \in AllTypes
  BY DEF OfType, AllTypes
<1>4. Nth(k, n) = Cardinality(A)
  BY DEF Nth
<1> HIDE DEF A
<1>5. IsFiniteSet(A) /\ Cardinality(A) <= Cardinality(OfType(k)) /\ Cardinality(A) \in Nat
  BY <1>1, <1>2, FS_Subset, FS_CardinalityType
<1>6. Cardinality(A) # 0
  BY <1>1, <1>5, FS_EmptySet
<1> QED BY <1>2, <1>3, <1>4, <1>5, <1>6

LEMMA SummaryInitial == SummaryInit => SummaryInv
<1> SUFFICES ASSUME SummaryInit PROVE SummaryInv
  OBVIOUS
<1>1. bad_records \in Seq(BadRecord) /\ DOMAIN bad_records = {}
  BY DEF SummaryInit
<1>2. AllTypes = {}
  BY <1>1 DEF AllTypes
<1>3. DOMAIN grouped_counts = {} /\ DOMAIN grouped_samples = {}
  BY DEF SummaryInit
<1> QED BY <1>1, <1>2, <1>3 DEF SummaryInv

\* What reading a record changes for the types.
LEMMA ReadTypes ==
    ASSUME bad_records \in Seq(BadRecord), NEW r \in BadRecord, bad_records' = Append(bad_records, r)
    PROVE  /\ (bad_records \in Seq(BadRecord))'
           /\ AllTypes' = AllTypes \cup {ViolationKey(r)}
           /\ bad_records'[Len(bad_records) + 1] = r
           /\ \A n \in DOMAIN bad_records : n # Len(bad_records) + 1 /\ bad_records'[n] = bad_records[n]
           /\ \A k : OfType(k)' = IF k = ViolationKey(r) THEN OfType(k) \cup {Len(bad_records) + 1}
                                  ELSE OfType(k)
           /\ OfType(ViolationKey(r)) = {} <=> ViolationKey(r) \notin AllTypes
<1> DEFINE last == Len(bad_records) + 1
           D == DOMAIN bad_records
<1>1. bad_records' \in Seq(BadRecord)
  OBVIOUS
<1>2. /\ DOMAIN bad_records' = D \cup {last}
      /\ bad_records'[last] = r
      /\ \A n \in D : n # last /\ bad_records'[n] = bad_records[n]
  OBVIOUS
<1> HIDE DEF last, D
<1>3. AllTypes' = AllTypes \cup {ViolationKey(r)}
  <2>1. AllTypes = {ViolationKey(bad_records[n]) : n \in D}
    BY DEF AllTypes, D
  <2>2. AllTypes' = {ViolationKey(bad_records'[n]) : n \in D \cup {last}}
    BY <1>2 DEF AllTypes
  <2> QED BY <1>2, <2>1, <2>2
<1>4. ASSUME NEW k
      PROVE  OfType(k)' = IF k = ViolationKey(r) THEN OfType(k) \cup {last} ELSE OfType(k)
  <2>1. OfType(k) = {n \in D : ViolationKey(bad_records[n]) = k}
    BY DEF OfType, D
  <2>2. OfType(k)' = {n \in D \cup {last} : ViolationKey(bad_records'[n]) = k}
    BY <1>2 DEF OfType
  <2> QED BY <1>2, <2>1, <2>2
<1>5. OfType(ViolationKey(r)) = {} <=> ViolationKey(r) \notin AllTypes
  BY DEF OfType, AllTypes
<1> QED BY <1>1, <1>2, <1>3, <1>4, <1>5 DEF last, D

LEMMA SummaryStep ==
    ASSUME SummaryInv, NEW r \in BadRecordSet, Read(r)
    PROVE  SummaryInv'
<1> DEFINE key == ViolationKey(r)
           last == Len(bad_records) + 1
<1>1. r \in BadRecord /\ r.record_json \in Nat /\ MaxSamplesPerType \in Nat
  BY SummaryAssumption DEF BadRecord
<1>2. bad_records \in Seq(BadRecord)
  BY DEF SummaryInv
<1>3. /\ (bad_records \in Seq(BadRecord))'
      /\ AllTypes' = AllTypes \cup {key}
      /\ bad_records'[last] = r
      /\ \A n \in DOMAIN bad_records : n # last /\ bad_records'[n] = bad_records[n]
      /\ \A k : OfType(k)' = IF k = key THEN OfType(k) \cup {last} ELSE OfType(k)
      /\ OfType(key) = {} <=> key \notin AllTypes
  BY <1>1, <1>2, ReadTypes DEF Read
<1>4. \A n \in DOMAIN bad_records : n < last
  BY <1>2
<1>5. last \in Nat /\ last \notin DOMAIN bad_records
  BY <1>2
<1>6. \A k : /\ IsFiniteSet(OfType(k)) /\ Cardinality(OfType(k)) \in Nat
             /\ OfType(k) \subseteq DOMAIN bad_records
  BY <1>2, RecordFacts DEF OfType
<1>7. /\ DOMAIN grouped_counts' = AllTypes'
      /\ DOMAIN grouped_samples' = AllTypes'
  BY <1>3 DEF Read, SummaryInv
<1> DEFINE samples(k) == IF k \in AllTypes THEN grouped_samples[k] ELSE <<>>
<1>8. \A k \in AllTypes' :
        /\ grouped_counts'[k] = (IF k \in AllTypes THEN grouped_counts[k] ELSE 0) + IF k = key THEN 1 ELSE 0
        /\ grouped_samples'[k] = IF k = key /\ Len(samples(k)) < MaxSamplesPerType
                                 THEN Append(samples(k), r.record_json) ELSE samples(k)
  BY <1>3 DEF Read, SummaryInv
<1> HIDE DEF key, last
<1>9. ASSUME NEW k, k # key
      PROVE  OfType(k)' = OfType(k) /\ \A n \in OfType(k) : Nth(k, n)' = Nth(k, n)
  <2>1. OfType(k)' = OfType(k)
    BY <1>3, <1>9
  <2> QED BY <2>1 DEF Nth
<1>10. /\ OfType(key)' = OfType(key) \cup {last}
       /\ Cardinality(OfType(key)') = Cardinality(OfType(key)) + 1
       /\ \A n \in OfType(key) : Nth(key, n)' = Nth(key, n)
       /\ Cardinality({i \in OfType(key)' : i <= last}) = Cardinality(OfType(key)) + 1
  <2>1. OfType(key)' = OfType(key) \cup {last} /\ last \notin OfType(key)
    BY <1>3, <1>5, <1>6
  <2>2. Cardinality(OfType(key)') = Cardinality(OfType(key)) + 1
    BY <1>6, <2>1, FS_AddElement
  <2>3. {i \in OfType(key)' : i <= last} = OfType(key)'
    BY <1>2, <1>4, <1>5, <1>6, <2>1
  <2>4. ASSUME NEW n \in OfType(key) PROVE Nth(key, n)' = Nth(key, n)
    <3>1. n < last /\ n \in Nat
      BY <1>2, <1>4, <1>6
    <3>2. {i \in OfType(key)' : i <= n} = {i \in OfType(key) : i <= n}
      BY <1>5, <2>1, <3>1
    <3> QED BY <3>2 DEF Nth
  <2> QED BY <2>1, <2>2, <2>3, <2>4
<1>11. \A k : Cardinality(OfType(k)) = 0 <=> OfType(k) = {}
  BY <1>6, FS_EmptySet
<1>12. ASSUME NEW k \in AllTypes', k # key
       PROVE  /\ (grouped_counts[k] = Cardinality(OfType(k)))'
              /\ (grouped_samples[k] \in Seq(Nat))'
              /\ (Len(grouped_samples[k]) = IF Cardinality(OfType(k)) <= MaxSamplesPerType
                                            THEN Cardinality(OfType(k)) ELSE MaxSamplesPerType)'
              /\ (\A n \in OfType(k) : Nth(k, n) <= Len(grouped_samples[k]) =>
                      grouped_samples[k][Nth(k, n)] = bad_records[n].record_json)'
  <2>1. k \in AllTypes
    BY <1>3, <1>12
  <2>2. grouped_counts'[k] = grouped_counts[k] /\ grouped_samples'[k] = grouped_samples[k]
    <3>1. grouped_counts[k] \in Nat
      BY <1>6, <2>1 DEF SummaryInv
    <3> QED BY <1>8, <1>12, <2>1, <3>1
  <2>3. OfType(k)' = OfType(k) /\ \A n \in OfType(k) : Nth(k, n)' = Nth(k, n)
    BY <1>9, <1>12
  <2>4. \A n \in OfType(k) : bad_records'[n] = bad_records[n]
    BY <1>3, <1>6
  <2> QED BY <2>1, <2>2, <2>3, <2>4 DEF SummaryInv
<1>13. /\ (grouped_counts[key] = Cardinality(OfType(key)))'
       /\ (grouped_samples[key] \in Seq(Nat))'
       /\ (Len(grouped_samples[key]) = IF Cardinality(OfType(key)) <= MaxSamplesPerType
                                       THEN Cardinality(OfType(key)) ELSE MaxSamplesPerType)'
       /\ (\A n \in OfType(key) : Nth(key, n) <= Len(grouped_samples[key]) =>
               grouped_samples[key][Nth(key, n)] = bad_records[n].record_json)'
  <2> DEFINE C == Cardinality(OfType(key))
  <2>1. C \in Nat
    BY <1>6
  <2>2. key \in AllTypes'
    BY <1>3
  <2>3. key \notin AllTypes => C = 0
    BY <1>3, <1>11
  <2>4. (grouped_counts[key] = Cardinality(OfType(key)))'
    <3>1. grouped_counts'[key] = (IF key \in AllTypes THEN grouped_counts[key] ELSE 0) + 1
      BY <1>8, <2>2
    <3>2. key \in AllTypes => grouped_counts[key] = C
      BY DEF SummaryInv
    <3> QED BY <1>10, <2>1, <2>3, <3>1, <3>2
  <2> DEFINE old == samples(key)
  <2>5. /\ old \in Seq(Nat)
        /\ Len(old) = IF C <= MaxSamplesPerType THEN C ELSE MaxSamplesPerType
        /\ \A n \in OfType(key) : Nth(key, n) <= Len(old) => old[Nth(key, n)] = bad_records[n].record_json
    <3>1. CASE key \in AllTypes
      BY <3>1 DEF SummaryInv
    <3>2. CASE key \notin AllTypes
      <4>1. OfType(key) = {} /\ C = 0 /\ old = <<>>
        BY <1>3, <2>3, <3>2
      <4>2. <<>> \in Seq(Nat) /\ Len(<<>>) = 0
        OBVIOUS
      <4> HIDE DEF C, old
      <4> QED BY <1>1, <4>1, <4>2
    <3> QED BY <3>1, <3>2
  <2>6. grouped_samples'[key] = IF Len(old) < MaxSamplesPerType
                                THEN Append(old, r.record_json) ELSE old
    BY <1>8, <2>2
  <2>7. \A n \in OfType(key) : Nth(key, n) \in 1 .. C /\ bad_records'[n] = bad_records[n]
    BY <1>2, <1>3, <1>6, NthFacts
  <2>8. Cardinality(OfType(key)') = C + 1
    BY <1>10
  <2>9. ASSUME NEW n \in OfType(key)'
        PROVE  \/ n \in OfType(key) /\ Nth(key, n)' = Nth(key, n)
               \/ n = last /\ Nth(key, n)' = C + 1
    <3>1. CASE n \in OfType(key)
      BY <1>10, <3>1
    <3>2. CASE n = last
      <4>1. Nth(key, n)' = Cardinality({i \in OfType(key)' : i <= last})
        BY <3>2 DEF Nth
      <4> QED BY <1>10, <3>2, <4>1
    <3> QED BY <1>10, <3>1, <3>2
  <2> HIDE DEF C, old
  <2>10. CASE Len(old) < MaxSamplesPerType
    <3>1. grouped_samples'[key] = Append(old, r.record_json) /\ Len(old) = C
      BY <1>1, <2>1, <2>5, <2>6, <2>10
    <3>2. grouped_samples'[key] \in Seq(Nat) /\ Len(grouped_samples'[key]) = C + 1
      BY <1>1, <2>5, <3>1
    <3>3. C + 1 <= MaxSamplesPerType
      BY <1>1, <2>1, <2>10, <3>1
    <3>4. ASSUME NEW n \in OfType(key)'
          PROVE  grouped_samples'[key][Nth(key, n)'] = bad_records'[n].record_json
      <4>1. CASE n \in OfType(key) /\ Nth(key, n)' = Nth(key, n)
        <5>1. Nth(key, n) \in 1 .. Len(old) /\ bad_records'[n] = bad_records[n]
          BY <2>7, <3>1, <4>1
        <5>2. Append(old, r.record_json)[Nth(key, n)] = old[Nth(key, n)]
          BY <2>5, <5>1
        <5>3. Nth(key, n) <= Len(old)
          BY <2>5, <5>1
        <5> QED BY <2>5, <3>1, <4>1, <5>1, <5>2, <5>3
      <4>2. CASE n = last /\ Nth(key, n)' = C + 1
        <5>1. Append(old, r.record_json)[Len(old) + 1] = r.record_json
          BY <2>5
        <5> QED BY <1>3, <3>1, <4>2, <5>1
      <4> QED BY <2>9, <4>1, <4>2
    <3> QED BY <2>4, <2>8, <3>2, <3>3, <3>4
  <2>11. CASE ~(Len(old) < MaxSamplesPerType)
    <3>1. grouped_samples'[key] = old /\ Len(old) = MaxSamplesPerType /\ MaxSamplesPerType < C + 1
      BY <1>1, <2>1, <2>5, <2>6, <2>11
    <3>2. ASSUME NEW n \in OfType(key)', Nth(key, n)' <= Len(old)
          PROVE  old[Nth(key, n)'] = bad_records'[n].record_json
      <4>1. n \in OfType(key) /\ Nth(key, n)' = Nth(key, n)
        BY <1>1, <2>1, <2>9, <3>1, <3>2
      <4> QED BY <2>5, <2>7, <3>2, <4>1
    <3>3. (Len(grouped_samples[key]) = IF Cardinality(OfType(key)) <= MaxSamplesPerType
                                       THEN Cardinality(OfType(key)) ELSE MaxSamplesPerType)'
      BY <1>1, <2>1, <2>8, <3>1
    <3> QED BY <2>4, <2>5, <3>1, <3>2, <3>3
  <2> QED BY <2>10, <2>11
<1>14. ASSUME NEW k \in AllTypes'
       PROVE  (/\ grouped_counts[k] = Cardinality(OfType(k))
               /\ grouped_samples[k] \in Seq(Nat)
               /\ Len(grouped_samples[k]) = IF Cardinality(OfType(k)) <= MaxSamplesPerType
                                            THEN Cardinality(OfType(k)) ELSE MaxSamplesPerType
               /\ \A n \in OfType(k) : Nth(k, n) <= Len(grouped_samples[k]) =>
                      grouped_samples[k][Nth(k, n)] = bad_records[n].record_json)'
  BY <1>12, <1>13
<1> QED BY <1>3, <1>7, <1>14 DEF SummaryInv

LEMMA SummaryInvariant == SummarySpec => []SummaryInv
<1>1. SummaryInv /\ SummaryNext => SummaryInv'
  BY SummaryStep DEF SummaryNext
<1>2. SummaryInv /\ UNCHANGED summary_vars => SummaryInv'
  <2> SUFFICES ASSUME SummaryInv, UNCHANGED summary_vars PROVE SummaryInv'
    OBVIOUS
  <2>1. /\ bad_records' = bad_records
        /\ grouped_counts' = grouped_counts /\ grouped_samples' = grouped_samples
    BY DEF summary_vars
  <2>2. AllTypes' = AllTypes
    BY <2>1 DEF AllTypes
  <2>3. \A k : OfType(k)' = OfType(k)
    BY <2>1 DEF OfType
  <2>4. \A k, n : Nth(k, n)' = Nth(k, n)
    BY <2>3 DEF Nth
  <2> QED BY <2>1, <2>2, <2>3, <2>4 DEF SummaryInv
<1>3. SummaryInv /\ [SummaryNext]_summary_vars => SummaryInv'
  BY <1>1, <1>2
<1> QED BY SummaryInitial, <1>3, PTL DEF SummarySpec

\* The groups of the records read have ranks: the most frequent first, in a fixed order.
LEMMA RankOfTypes ==
    ASSUME SummaryInv
    PROVE  /\ Types = AllTypes /\ IsFiniteSet(Types) /\ Cardinality(Types) \in Nat
           /\ \A k \in Types : Rank(k) \in 1 .. Cardinality(Types)
           /\ \A k, j \in Types : Before(k, j) <=> Rank(k) < Rank(j)
           /\ \A k, j \in Types : Rank(k) = Rank(j) => k = j
           /\ \A n \in 1 .. Cardinality(Types) : \E k \in Types : Rank(k) = n
<1> DEFINE R == {e \in Types \X Types : Before(e[1], e[2])}
<1>1. Types = AllTypes
  BY DEF Types, SummaryInv
<1>2. IsFiniteSet(Types)
  <2> DEFINE D == DOMAIN bad_records
             f == [n \in D |-> ViolationKey(bad_records[n])]
  <2>1. IsFiniteSet(D)
    BY RecordFacts DEF SummaryInv
  <2>2. f \in [D -> AllTypes] /\ \A k \in AllTypes : \E n \in D : f[n] = k
    BY DEF AllTypes
  <2> HIDE DEF D, f
  <2>3. f \in Surjection(D, AllTypes)
    BY <2>2, Fun_IsSurj
  <2> QED BY <1>1, <2>1, <2>3, FS_Surjection
<1>3. \A k \in Types : grouped_counts[k] \in Nat /\ k \in Nat \X Nat \X Nat
  <2> SUFFICES ASSUME NEW k \in Types PROVE grouped_counts[k] \in Nat /\ k \in Nat \X Nat \X Nat
    OBVIOUS
  <2>1. grouped_counts[k] \in Nat
    BY <1>1, RecordFacts DEF SummaryInv
  <2>2. PICK n \in DOMAIN bad_records : k = ViolationKey(bad_records[n])
    BY <1>1 DEF AllTypes
  <2> QED BY <2>1, <2>2, RecordFacts, KeyOfRecord DEF SummaryInv
<1>4. \A k, j \in Types : <<k, j>> \in R <=> Before(k, j)
  OBVIOUS
<1>5. \A k, j \in Types :
        Before(k, j) <=> \/ grouped_counts[k] > grouped_counts[j]
                         \/ /\ grouped_counts[k] = grouped_counts[j]
                            /\ \/ k[1] < j[1]
                               \/ k[1] = j[1] /\ k[2] < j[2]
                               \/ k[1] = j[1] /\ k[2] = j[2] /\ k[3] < j[3]
  BY <1>3, AlphabeticalOrder DEF Before
<1>6. \A k, j \in Types : k[1] = j[1] /\ k[2] = j[2] /\ k[3] = j[3] => k = j
  BY <1>3
<1>7. \A k \in Types : k[1] \in Nat /\ k[2] \in Nat /\ k[3] \in Nat
  BY <1>3
<1> HIDE DEF R
<1>8. StrictOrder(R, Types)
  <2>1. ASSUME NEW k \in Types PROVE <<k, k>> \notin R
    BY <1>3, <1>4, <1>5, <1>7
  <2>2. ASSUME NEW k \in Types, NEW j \in Types, NEW l \in Types, <<k, j>> \in R, <<j, l>> \in R
        PROVE  <<k, l>> \in R
    <3>1. Before(k, j) /\ Before(j, l)
      BY <1>4, <2>2
    <3>2. Before(k, l)
      BY <1>3, <1>5, <1>7, <3>1
    <3> QED BY <1>4, <3>2
  <2>3. ASSUME NEW k \in Types, NEW j \in Types PROVE k = j \/ <<k, j>> \in R \/ <<j, k>> \in R
    <3>1. Before(k, j) \/ Before(j, k) \/ (k[1] = j[1] /\ k[2] = j[2] /\ k[3] = j[3])
      BY <1>3, <1>5, <1>7
    <3> QED BY <1>4, <1>6, <3>1
  <2> QED BY <2>1, <2>2, <2>3 DEF StrictOrder
<1>9. \A k \in Types : Rank(k) = Ranks(R, Types)[k]
  <2> SUFFICES ASSUME NEW k \in Types PROVE Rank(k) = Ranks(R, Types)[k]
    OBVIOUS
  <2>1. {j \in Types : Before(j, k)} = Predecessors(R, Types, k)
    BY <1>4 DEF Predecessors
  <2> QED BY <2>1 DEF Rank, Ranks
<1> DEFINE N == 1 .. Cardinality(Types)
<1>10. N = 1 .. Cardinality(Types)
  OBVIOUS
<1> HIDE DEF N
<1> DEFINE T == Types
           rank == Ranks(R, T)
<1> HIDE DEF T
<1>11. IsFiniteSet(T) /\ StrictOrder(R, T) /\ N = 1 .. Cardinality(T)
  BY <1>2, <1>8, <1>10 DEF T
<1>12. /\ rank \in [T -> N]
       /\ \A x, y \in T : <<x, y>> \in R <=> rank[x] < rank[y]
       /\ \A x, y \in T : rank[x] = rank[y] => x = y
       /\ \A n \in N : \E x \in T : rank[x] = n
  <2>1. rank \in [T -> N]
    BY <1>11, RanksNumber
  <2>2. ASSUME NEW x \in T, NEW y \in T PROVE <<x, y>> \in R <=> rank[x] < rank[y]
    BY <1>11, RanksNumber
  <2>3. \A x, y \in T : rank[x] = rank[y] => x = y
    BY <1>11, RanksNumber
  <2>4. Taken(N, T, rank)
    BY <1>11, RanksNumber
  <2> QED BY <2>1, <2>2, <2>3, <2>4 DEF Taken
<1> HIDE DEF rank
<1>13. \A k \in T : Rank(k) = rank[k]
  BY <1>9 DEF T, rank
<1>14. \A k, j \in T : Before(k, j) <=> Rank(k) < Rank(j)
  <2>1. \A k, j \in T : <<k, j>> \in R <=> Before(k, j)
    BY <1>4 DEF T
  <2>2. ASSUME NEW k \in T, NEW j \in T PROVE Before(k, j) <=> Rank(k) < Rank(j)
    <3>1. Rank(k) = rank[k] /\ Rank(j) = rank[j]
      BY <1>13
    <3>2. <<k, j>> \in R <=> Before(k, j)
      BY <2>1
    <3>3. <<k, j>> \in R <=> rank[k] < rank[j]
      BY <1>12
    <3> QED BY <3>1, <3>2, <3>3
  <2> QED BY <2>2
<1>15. \A k, j \in T : Rank(k) = Rank(j) => k = j
  BY <1>12, <1>13
<1>16. \A k \in T : Rank(k) \in N
  BY <1>12, <1>13
<1>17. \A n \in N : \E k \in T : Rank(k) = n
  BY <1>12, <1>13
<1>18. Cardinality(T) \in Nat
  BY <1>11, FS_CardinalityType
<1> QED BY <1>1, <1>2, <1>14, <1>15, <1>16, <1>17, <1>18 DEF N, T

\* The rows show the selected types: the first ones, up to the cap, each once.
LEMMA RowsShown ==
    ASSUME SummaryInv
    PROVE  /\ Shown = SelectedKeys
           /\ Cardinality(SelectedKeys) <= MaxTypeCount
           /\ \A n \in DOMAIN Summary.types :
                \E k \in SelectedKeys : Summary.types[n] = Row(k) /\ Rank(k) = n
           /\ Cardinality(Types) > MaxTypeCount <=> SelectedKeys # Types
<1> DEFINE C == Cardinality(Types)
           M == IF C <= MaxTypeCount THEN C ELSE MaxTypeCount
           P == 1 .. M
           f == [k \in SelectedKeys |-> Rank(k)]
<1>1. /\ IsFiniteSet(Types) /\ C \in Nat
      /\ \A k \in Types : Rank(k) \in 1 .. C
      /\ \A k, j \in Types : Rank(k) = Rank(j) => k = j
      /\ \A n \in 1 .. C : \E k \in Types : Rank(k) = n
  BY RankOfTypes
<1>2. MaxTypeCount \in Nat
  BY SummaryAssumption
<1>3. SelectedKeys \subseteq Types /\ \A k \in Types : k \in SelectedKeys <=> Rank(k) <= MaxTypeCount
  BY DEF SelectedKeys
<1> HIDE DEF C
<1>4. M \in Nat /\ M <= MaxTypeCount
  BY <1>1, <1>2
<1>5. \A k \in SelectedKeys : Rank(k) \in P
  BY <1>1, <1>2, <1>3
<1>6. \A n \in P : \E k \in SelectedKeys : Rank(k) = n
  BY <1>1, <1>2, <1>3
<1>7. IsFiniteSet(P) /\ Cardinality(P) = M
  BY <1>4, CountTo
<1>8. Cardinality(SelectedKeys) = M
  <2>1. f \in [SelectedKeys -> P]
    BY <1>5
  <2>2. \A k, j \in SelectedKeys : f[k] = f[j] => k = j
    BY <1>1, <1>3
  <2>3. \A n \in P : \E k \in SelectedKeys : f[k] = n
    BY <1>6
  <2>4. IsFiniteSet(SelectedKeys)
    BY <1>1, <1>3, FS_Subset
  <2> HIDE DEF f, P, M
  <2>5. f \in Bijection(SelectedKeys, P)
    BY <2>1, <2>2, <2>3, Fun_IsBij
  <2>6. ExistsBijection(SelectedKeys, P)
    BY <2>5 DEF ExistsBijection
  <2> QED BY <1>7, <2>4, <2>6, FS_Bijection
<1> DEFINE key(n) == CHOOSE k \in SelectedKeys : Rank(k) = n
<1>9. \A n \in P : key(n) \in SelectedKeys /\ Rank(key(n)) = n
  BY <1>6
<1>10. \A k \in SelectedKeys : key(Rank(k)) = k
  BY <1>1, <1>3
<1>11. Summary.types = [n \in P |-> Row(key(n))]
  BY <1>8 DEF Summary
<1> HIDE DEF P, M, key
<1>12. DOMAIN Summary.types = P /\ \A n \in P : Summary.types[n] = Row(key(n))
  BY <1>11
<1>13. \A k : Row(k).violation = k
  BY DEF Row
<1>14. Shown = {key(n) : n \in P}
  BY <1>12, <1>13 DEF Shown
<1>15. Shown = SelectedKeys
  BY <1>5, <1>9, <1>10, <1>14
<1>16. C > MaxTypeCount <=> SelectedKeys # Types
  <2>1. ASSUME C > MaxTypeCount PROVE SelectedKeys # Types
    <3>1. C \in 1 .. C
      BY <1>1, <1>2, <2>1
    <3>2. PICK k \in Types : Rank(k) = C
      BY <1>1, <3>1
    <3> QED BY <1>1, <1>2, <1>3, <2>1, <3>2
  <2>2. ASSUME ~(C > MaxTypeCount) PROVE SelectedKeys = Types
    BY <1>1, <1>2, <1>3, <2>2
  <2> QED BY <2>1, <2>2
<1> QED BY <1>4, <1>8, <1>9, <1>12, <1>15, <1>16 DEF C

LEMMA SummaryTellsAll == SummaryInv => NothingLeftOutSilently
<1> SUFFICES ASSUME SummaryInv PROVE NothingLeftOutSilently
  OBVIOUS
<1>1. Types = AllTypes
  BY RankOfTypes
<1>2. Summary.types_truncated <=> Shown # AllTypes
  BY <1>1, RowsShown DEF Summary
<1>3. ASSUME NEW n \in DOMAIN Summary.types
      PROVE  LET row == Summary.types[n]
                 records == OfType(row.violation)
                 nth(r) == Cardinality({i \in records : i <= r})
             IN /\ row.count = Cardinality(records)
                /\ \A r \in records : nth(r) <= Len(row.samples) =>
                       row.samples[nth(r)] = bad_records[r].record_json
                /\ ~row.samples_truncated => Len(row.samples) = Cardinality(records)
  <2>1. PICK k \in SelectedKeys : Summary.types[n] = Row(k)
    BY RowsShown
  <2>2. k \in AllTypes
    BY <1>1, <2>1 DEF SelectedKeys
  <2>3. /\ Row(k).violation = k /\ Row(k).count = grouped_counts[k]
        /\ Row(k).samples = grouped_samples[k]
        /\ Row(k).samples_truncated <=> grouped_counts[k] > Len(grouped_samples[k])
    BY DEF Row
  <2>4. /\ grouped_counts[k] = Cardinality(OfType(k)) /\ Cardinality(OfType(k)) \in Nat
        /\ Len(grouped_samples[k]) \in Nat
        /\ Len(grouped_samples[k]) <= Cardinality(OfType(k))
        /\ \A r \in OfType(k) : Nth(k, r) <= Len(grouped_samples[k]) =>
               grouped_samples[k][Nth(k, r)] = bad_records[r].record_json
    BY <2>2, RecordFacts, SummaryAssumption DEF SummaryInv
  <2>5. Len(grouped_samples[k]) = Cardinality(OfType(k)) \/ grouped_counts[k] > Len(grouped_samples[k])
    BY <2>4
  <2> QED BY <2>1, <2>3, <2>4, <2>5 DEF Nth
<1> QED BY <1>2, <1>3 DEF NothingLeftOutSilently

LEMMA CapKeepsTheMostFrequent == SummaryInv => MostFrequentTypesShown
<1> SUFFICES ASSUME SummaryInv PROVE MostFrequentTypesShown
  OBVIOUS
<1>1. /\ Types = AllTypes
      /\ \A k \in Types : Rank(k) \in 1 .. Cardinality(Types)
      /\ \A k, j \in Types : Before(k, j) <=> Rank(k) < Rank(j)
      /\ Cardinality(Types) \in Nat
  BY RankOfTypes
<1>2. Shown = SelectedKeys /\ Cardinality(Shown) <= MaxTypeCount
  BY RowsShown
<1>3. ASSUME NEW k \in Types, NEW j \in Types, Rank(k) < Rank(j) PROVE Sooner(k, j)
  <2>1. Before(k, j)
    BY <1>1, <1>3
  <2>2. grouped_counts[k] = Cardinality(OfType(k)) /\ grouped_counts[j] = Cardinality(OfType(j))
    BY <1>1 DEF SummaryInv
  <2> QED BY <2>1, <2>2 DEF Before, Sooner
<1>4. ASSUME NEW k \in Shown, NEW j \in AllTypes \ Shown PROVE Sooner(k, j)
  <2>1. k \in Types /\ j \in Types /\ Rank(k) <= MaxTypeCount /\ ~(Rank(j) <= MaxTypeCount)
    BY <1>1, <1>2 DEF SelectedKeys
  <2>2. Rank(k) < Rank(j)
    BY <1>1, <2>1, SummaryAssumption
  <2> QED BY <1>3, <2>1, <2>2
<1>5. ASSUME NEW m \in DOMAIN Summary.types, NEW n \in DOMAIN Summary.types, m < n
      PROVE  Sooner(Summary.types[m].violation, Summary.types[n].violation)
  <2>1. PICK k \in SelectedKeys : Summary.types[m] = Row(k) /\ Rank(k) = m
    BY RowsShown
  <2>2. PICK j \in SelectedKeys : Summary.types[n] = Row(j) /\ Rank(j) = n
    BY RowsShown
  <2>3. Row(k).violation = k /\ Row(j).violation = j
    BY DEF Row
  <2>4. k \in Types /\ j \in Types
    BY DEF SelectedKeys
  <2>5. Sooner(k, j)
    BY <1>3, <1>5, <2>1, <2>2, <2>4
  <2> QED BY <2>1, <2>2, <2>3, <2>5
<1> QED BY <1>2, <1>4, <1>5 DEF MostFrequentTypesShown

(***************************************************************************)
(* A summary leaves nothing out without saying so: every row counts all    *)
(* the records of its type and shows the first of them, and the flags tell *)
(* exactly when types or samples are missing.                              *)
(***************************************************************************)
THEOREM SummaryLeavesNothingOut == SummarySpec => []NothingLeftOutSilently
  BY SummaryInvariant, SummaryTellsAll, PTL

(***************************************************************************)
(* The rows are the most frequent types, in one fixed order, for every cap *)
(* and whatever the order of the records.                                  *)
(***************************************************************************)
THEOREM CapDropsTheRarest == SummarySpec => []MostFrequentTypesShown
  BY SummaryInvariant, CapKeepsTheMostFrequent, PTL
=============================================================================
