-------------------------- MODULE EvaluatorProofs ---------------------------
(***************************************************************************)
(* Proofs about the pure part of a search: the set operations of VecInt on *)
(* vectors without repetitions, and evaluate() of QueryEvaluator, which    *)
(* computes what BooleanQuery says a query means.                          *)
(*                                                                         *)
(* Both are recursive functions.  What is needed of recursion and of       *)
(* induction is stated about sets and functions (Recursion, Induction) and *)
(* rests on the least element of a set of numbers.                         *)
(***************************************************************************)
EXTENDS QueryEvaluator, BooleanQuery, FiniteSetTheorems, SequenceTheorems,
        NaturalsInduction, WellFoundedInduction, TLAPS

-----------------------------------------------------------------------------
(* Induction and recursion up to a number *)

\* A set of numbers that is not empty has a least element.
LEMMA LeastNatural ==
    ASSUME NEW T, T \subseteq Nat, T # {}
    PROVE  \E n \in T : \A m \in T : n <= m
  <1>1. PICK n \in T : \A m \in T : <<m, n>> \notin OpToRel(<, Nat)
    BY NatLessThanWellFounded, WFMin
  <1>2. \A m \in T : ~(m < n)
    BY <1>1 DEF OpToRel
  <1>3. \A m \in T : n <= m
    <2> TAKE m \in T
    <2>1. n \in Nat /\ m \in Nat
      OBVIOUS
    <2>2. ~(m < n)
      BY <1>2
    <2> QED BY <2>1, <2>2
  <1> QED BY <1>3

\* What holds of 0 and is handed on from each number below n holds up to n.
LEMMA Induction ==
    ASSUME NEW n \in Nat, NEW T, 0 \in T,
           \A k \in 0..n - 1 : k \in T => k + 1 \in T
    PROVE  \A k \in 0..n : k \in T
  <1> DEFINE Rest == {k \in 0..n : k \notin T}
  <1> SUFFICES ASSUME Rest # {} PROVE FALSE
    OBVIOUS
  <1>1. Rest \subseteq Nat
    OBVIOUS
  <1>2. PICK k \in Rest : \A m \in Rest : k <= m
    <2> HIDE DEF Rest
    <2> QED BY <1>1, LeastNatural
  <1>3. k \in 0..n /\ k # 0
    OBVIOUS
  <1>4. k - 1 \in 0..n - 1 /\ (k - 1) + 1 = k
    BY <1>3
  <1>5. k - 1 \in T
    <2> SUFFICES ASSUME k - 1 \notin T PROVE FALSE
      OBVIOUS
    <2>1. k - 1 \in Rest
      BY <1>3
    <2> QED BY <1>2, <1>3, <2>1
  <1> QED BY <1>4, <1>5

\* f is a at 0, and each of its values up to n is what F makes of the one
\* before.
Recursive(f, n, a, F) ==
    \A i \in 0..n : f[i] = IF i = 0 THEN a ELSE F[<<i, f[i - 1]>>]

\* There is such a function.
LEMMA Recursion ==
    ASSUME NEW n \in Nat, NEW S, NEW a \in S, NEW F \in [(1..n) \X S -> S]
    PROVE  \E f \in [0..n -> S] : Recursive(f, n, a, F)
  <1> DEFINE Upto(m, f) ==
        \A i \in 0..m : f[i] = IF i = 0 THEN a ELSE F[<<i, f[i - 1]>>]
             T == {m \in 0..n : \E f \in [0..m -> S] : Upto(m, f)}
  <1>1. 0 \in T
    <2> DEFINE f == [i \in 0..0 |-> a]
    <2>1. f \in [0..0 -> S] /\ Upto(0, f)
      OBVIOUS
    <2> HIDE DEF f
    <2>2. \E h \in [0..0 -> S] : Upto(0, h)
      BY <2>1
    <2> QED BY <2>2
  <1>2. ASSUME NEW k \in 0..n - 1, k \in T
        PROVE  k + 1 \in T
    <2>1. PICK f \in [0..k -> S] : Upto(k, f)
      BY <1>2
    <2> DEFINE g == [i \in 0..k + 1 |-> IF i = k + 1 THEN F[<<k + 1, f[k]>>]
                                                     ELSE f[i]]
    <2>2. F[<<k + 1, f[k]>>] \in S
      <3>1. k + 1 \in 1..n /\ k \in 0..k
        OBVIOUS
      <3> QED BY <3>1
    <2>3. g \in [0..k + 1 -> S]
      <3>1. \A i \in 0..k + 1 : i = k + 1 \/ i \in 0..k
        OBVIOUS
      <3> QED BY <2>2, <3>1
    <2>4. ASSUME NEW i \in 0..k + 1
          PROVE  g[i] = IF i = 0 THEN a ELSE F[<<i, g[i - 1]>>]
      <3>1. CASE i = k + 1
        <4>1. g[i] = F[<<k + 1, f[k]>>] /\ i # 0 /\ i - 1 = k /\ g[k] = f[k]
          BY <3>1
        <4> QED BY <3>1, <4>1
      <3>2. CASE i \in 0..k
        <4>1. /\ g[i] = f[i]
              /\ i # 0 => i - 1 \in 0..k /\ g[i - 1] = f[i - 1]
          BY <3>2
        <4> HIDE DEF g
        <4> QED BY <2>1, <3>2, <4>1
      <3> QED BY <3>1, <3>2
    <2>5. k + 1 \in 0..n
      OBVIOUS
    <2> HIDE DEF g
    <2> QED BY <2>3, <2>4, <2>5
  <1>3. \A k \in 0..n : k \in T
    <2> HIDE DEF T
    <2> QED BY <1>1, <1>2, Induction
  <1> QED BY <1>3 DEF Recursive
-----------------------------------------------------------------------------
(* Vectors without repetitions *)

\* v holds the documents of D, each once.
Lists(v, D) ==
    /\ v \in Seq(Int)
    /\ Elements(v) = D
    /\ \A j, k \in DOMAIN v : v[j] = v[k] => j = k

\* A vector without repetitions is as long as it has elements.
LEMMA ListsLength ==
    ASSUME NEW v, NEW D, Lists(v, D)
    PROVE  /\ IsFiniteSet(D)
           /\ Cardinality(D) = Len(v)
           /\ Len(v) \in Nat
           /\ DOMAIN v = 1..Len(v)
  <1>1. v \in Seq(Int) /\ Len(v) \in Nat /\ DOMAIN v = 1..Len(v)
    BY DEF Lists
  <1>2. v \in Bijection(1..Len(v), D)
    <2>1. v \in [1..Len(v) -> D]
      <3>1. v = [i \in 1..Len(v) |-> v[i]]
        BY <1>1
      <3>2. \A i \in 1..Len(v) : v[i] \in D
        BY <1>1 DEF Lists, Elements
      <3> QED BY <3>1, <3>2
    <2>2. \A d \in D : \E i \in 1..Len(v) : v[i] = d
      BY <1>1 DEF Lists, Elements
    <2>3. \A j, k \in 1..Len(v) : v[j] = v[k] => j = k
      BY <1>1 DEF Lists
    <2> QED BY <2>1, <2>2, <2>3 DEF Bijection, Injection, Surjection, IsInjective
  <1>3. IsFiniteSet(1..Len(v)) /\ Cardinality(1..Len(v)) = Len(v)
    BY <1>1, FS_Interval
  <1>4. IsFiniteSet(D) /\ Cardinality(D) = Cardinality(1..Len(v))
    BY <1>2, <1>3, FS_Bijection DEF ExistsBijection
  <1> QED BY <1>1, <1>3, <1>4

\* The elements of v that lie in E are in as many places of v.
LEMMA PlacesCount ==
    ASSUME NEW v, NEW D, Lists(v, D), NEW E
    PROVE  LET places == {i \in DOMAIN v : v[i] \in E}
           IN  Cardinality(places) = Cardinality(D \cap E)
  <1> DEFINE places == {i \in DOMAIN v : v[i] \in E}
             f == [i \in places |-> v[i]]
  <1>1. /\ DOMAIN v = 1..Len(v) /\ Len(v) \in Nat
    BY ListsLength
  <1>2. IsFiniteSet(places)
    <2>1. IsFiniteSet(1..Len(v))
      BY <1>1, FS_Interval
    <2> QED BY <1>1, <2>1, FS_Subset
  <1>3. f \in Bijection(places, D \cap E)
    <2>1. f \in [places -> D \cap E]
      BY DEF Lists, Elements
    <2>2. \A d \in D \cap E : \E i \in places : f[i] = d
      BY DEF Lists, Elements
    <2>3. \A j, k \in places : f[j] = f[k] => j = k
      BY DEF Lists
    <2> HIDE DEF f, places
    <2> QED BY <2>1, <2>2, <2>3 DEF Bijection, Injection, Surjection, IsInjective
  <1> HIDE DEF f, places
  <1>4. Cardinality(D \cap E) = Cardinality(places)
    BY <1>2, <1>3, FS_Bijection DEF ExistsBijection
  <1> QED BY <1>4 DEF places

\* Among its first elements each document occurs once or not at all.
LEMMA OccursOnce ==
    ASSUME NEW v, NEW D, Lists(v, D), NEW i \in 0..Len(v), NEW d
    PROVE  Occurrences(v, i, d)
             = IF \E j \in 1..i : v[j] = d THEN 1 ELSE 0
  <1>1. /\ DOMAIN v = 1..Len(v) /\ Len(v) \in Nat
    BY ListsLength
  <1>2. CASE \E j \in 1..i : v[j] = d
    <2>1. PICK j \in 1..i : v[j] = d
      BY <1>2
    <2>2. \A k \in 1..i : v[k] = d => k = j
      <3>1. \A k \in 1..i : k \in DOMAIN v
        BY <1>1
      <3> QED BY <2>1, <3>1 DEF Lists
    <2>3. {k \in 1..i : v[k] = d} = {j}
      BY <2>1, <2>2
    <2> QED BY <1>2, <2>3, FS_Singleton DEF Occurrences
  <1>3. CASE ~\E j \in 1..i : v[j] = d
    <2>1. {k \in 1..i : v[k] = d} = {}
      BY <1>3
    <2> QED BY <1>3, <2>1, FS_EmptySet DEF Occurrences
  <1> QED BY <1>2, <1>3
-----------------------------------------------------------------------------
(* The scan *)

\* Scan satisfies the equation it is defined by.
LEMMA ScanSteps ==
    ASSUME NEW nd \in Nat, NEW sel, NEW cap
    PROVE  LET v == Scan(nd, sel, cap)
           IN  /\ v[0] = <<>>
               /\ \A n \in 0..nd : v[n] \in Seq(Int)
               /\ \A n \in 1..nd :
                     v[n] = IF n - 1 \in sel /\ Len(v[n - 1]) < cap
                            THEN Append(v[n - 1], n - 1) ELSE v[n - 1]
  <1> DEFINE F == [p \in (1..nd) \X Seq(Int) |->
                     IF p[1] - 1 \in sel /\ Len(p[2]) < cap
                     THEN Append(p[2], p[1] - 1) ELSE p[2]]
  <1>1. F \in [(1..nd) \X Seq(Int) -> Seq(Int)]
    <2>1. ASSUME NEW p \in (1..nd) \X Seq(Int)
          PROVE  (IF p[1] - 1 \in sel /\ Len(p[2]) < cap
                  THEN Append(p[2], p[1] - 1) ELSE p[2]) \in Seq(Int)
      <3>1. p[1] - 1 \in Int /\ p[2] \in Seq(Int)
        OBVIOUS
      <3> QED BY <3>1, AppendProperties
    <2> QED BY <2>1
  <1>2. \A n \in 1..nd, u \in Seq(Int) :
           F[<<n, u>>] = IF n - 1 \in sel /\ Len(u) < cap
                         THEN Append(u, n - 1) ELSE u
    OBVIOUS
  <1> DEFINE none == <<>>
  <1>3. none \in Seq(Int)
    OBVIOUS
  <1> HIDE DEF F, none
  <1>4. PICK f \in [0..nd -> Seq(Int)] :
           \A i \in 0..nd :
              f[i] = IF i = 0 THEN none ELSE F[<<i, f[i - 1]>>]
    <2>1. \E f \in [0..nd -> Seq(Int)] : Recursive(f, nd, none, F)
      BY <1>1, <1>3, Recursion
    <2> QED BY <2>1 DEF Recursive
  <1>5. f = [n \in 0..nd |->
               IF n = 0 THEN none
               ELSE LET u == f[n - 1]
                    IN  IF n - 1 \in sel /\ Len(u) < cap
                        THEN Append(u, n - 1) ELSE u]
    <2>1. ASSUME NEW n \in 0..nd, n # 0
          PROVE  f[n] = IF n - 1 \in sel /\ Len(f[n - 1]) < cap
                        THEN Append(f[n - 1], n - 1) ELSE f[n - 1]
      <3>1. n - 1 \in 0..nd /\ n \in 1..nd
        BY <2>1
      <3> QED BY <1>2, <1>4, <2>1, <3>1
    <2> QED BY <1>4, <2>1
  <1> DEFINE v == Scan(nd, sel, cap)
  <1>6. v = [n \in 0..nd |->
               IF n = 0 THEN none
               ELSE LET u == v[n - 1]
                    IN  IF n - 1 \in sel /\ Len(u) < cap
                        THEN Append(u, n - 1) ELSE u]
    BY <1>5 DEF Scan, none
  <1> HIDE DEF v
  <1>7. /\ v[0] = none
        /\ \A n \in 1..nd :
              v[n] = IF n - 1 \in sel /\ Len(v[n - 1]) < cap
                     THEN Append(v[n - 1], n - 1) ELSE v[n - 1]
    <2>1. 0 \in 0..nd
      OBVIOUS
    <2>2. \A n \in 1..nd : n \in 0..nd /\ n # 0
      OBVIOUS
    <2> QED BY <1>6, <2>1, <2>2
  <1>8. \A n \in 0..nd : v[n] \in Seq(Int)
    <2> DEFINE T == {n \in 0..nd : v[n] \in Seq(Int)}
    <2>1. 0 \in T
      BY <1>3, <1>7
    <2>2. ASSUME NEW n \in 0..nd - 1, n \in T
          PROVE  n + 1 \in T
      <3>1. /\ n + 1 \in 1..nd /\ n + 1 \in 0..nd /\ (n + 1) - 1 = n
            /\ v[n] \in Seq(Int) /\ n \in Int
        BY <2>2
      <3>2. v[n + 1] = Append(v[n], n) \/ v[n + 1] = v[n]
        BY <1>7, <3>1
      <3>3. Append(v[n], n) \in Seq(Int)
        BY <3>1, AppendProperties
      <3>4. v[n + 1] \in Seq(Int)
        BY <3>1, <3>2, <3>3
      <3> QED BY <3>1, <3>4
    <2> HIDE DEF T
    <2>3. \A n \in 0..nd : n \in T
      BY <2>1, <2>2, Induction
    <2> QED BY <2>3 DEF T
  <1> QED BY <1>7, <1>8 DEF v, none

\* Whatever the capacity, Collect returns a vector.
LEMMA CollectType ==
    ASSUME NEW nd \in Nat, NEW sel, NEW cap
    PROVE  Collect(nd, sel, cap) \in Seq(Int)
  BY ScanSteps DEF Collect

\* With room for them, Collect lists exactly the documents selected.
LEMMA CollectLists ==
    ASSUME NEW nd \in Nat, NEW sel \in SUBSET (0..nd - 1), NEW cap \in Int,
           Cardinality(sel) <= cap
    PROVE  Lists(Collect(nd, sel, cap), sel)
  <1> DEFINE v == Scan(nd, sel, cap)
             T == {n \in 0..nd : Lists(v[n], sel \cap (0..n - 1))}
  <1>1. /\ v[0] = <<>>
        /\ \A n \in 0..nd : v[n] \in Seq(Int)
        /\ \A n \in 1..nd :
              v[n] = IF n - 1 \in sel /\ Len(v[n - 1]) < cap
                     THEN Append(v[n - 1], n - 1) ELSE v[n - 1]
    BY ScanSteps
  <1> HIDE DEF v
  <1>2. 0 \in T
    BY <1>1 DEF Lists, Elements
  <1>3. IsFiniteSet(sel) /\ Cardinality(sel) \in Nat
    <2>1. IsFiniteSet(0..nd - 1)
      BY FS_Interval
    <2>2. IsFiniteSet(sel)
      BY <2>1, FS_Subset
    <2> QED BY <2>2, FS_CardinalityType
  <1>4. ASSUME NEW n \in 0..nd - 1, n \in T
        PROVE  n + 1 \in T
    <2> DEFINE old == sel \cap (0..n - 1)
               new == sel \cap (0..n)
               u == v[n]
    <2>1. /\ Lists(u, old) /\ (n + 1) - 1 = n /\ n + 1 \in 1..nd
          /\ u \in Seq(Int) /\ n \in Int /\ n + 1 \in 0..nd
      <3>1. Lists(u, old)
        BY <1>4
      <3> QED BY <3>1 DEF Lists
    <2>6. SUFFICES Lists(v[n + 1], new)
      BY <2>1
    <2>2. v[n + 1] = IF n \in sel /\ Len(u) < cap THEN Append(u, n) ELSE u
      BY <1>1, <2>1
    <2>3. /\ IsFiniteSet(old) /\ Cardinality(old) = Len(u) /\ Len(u) \in Nat
          /\ DOMAIN u = 1..Len(u)
      BY <2>1, ListsLength
    <2>4. CASE n \in sel
      <3>1. new = old \cup {n} /\ n \notin old
        BY <2>4
      <3>2. Cardinality(new) = Len(u) + 1
        BY <2>3, <3>1, FS_AddElement
      <3>3. Cardinality(new) <= Cardinality(sel)
        BY <1>3, FS_Subset
      <3>4. Len(u) < cap
        BY <1>3, <2>3, <3>2, <3>3
      <3>5. v[n + 1] = Append(u, n)
        BY <2>2, <2>4, <3>4
      <3> DEFINE t == Append(u, n)
      <3> HIDE DEF u
      <3>6. /\ t \in Seq(Int) /\ DOMAIN t = 1..Len(u) + 1
            /\ t[Len(u) + 1] = n
            /\ \A j \in 1..Len(u) : t[j] = u[j]
        BY <2>1, <2>3, AppendProperties
      <3>7. \A j \in 1..Len(u) + 1 : j \in 1..Len(u) \/ j = Len(u) + 1
        BY <2>3
      <3> HIDE DEF t
      <3>8. Elements(t) = new
        <4>1. Elements(u) = old
          BY <2>1 DEF Lists
        <4>2. Elements(t) \subseteq Elements(u) \cup {n}
          BY <2>3, <3>6, <3>7 DEF Elements
        <4>3. Elements(u) \cup {n} \subseteq Elements(t)
          <5>1. \A j \in 1..Len(u) : j \in 1..Len(u) + 1
            BY <2>3
          <5>2. Len(u) + 1 \in 1..Len(u) + 1
            BY <2>3
          <5> QED BY <2>3, <3>6, <5>1, <5>2 DEF Elements
        <4> QED BY <3>1, <4>1, <4>2, <4>3
      <3>9. \A j, k \in DOMAIN t : t[j] = t[k] => j = k
        <4>1. \A j \in 1..Len(u) : u[j] # n
          BY <2>1, <2>3, <3>1 DEF Lists, Elements
        <4>2. \A j, k \in 1..Len(u) : u[j] = u[k] => j = k
          BY <2>1, <2>3 DEF Lists
        <4> QED BY <3>6, <3>7, <4>1, <4>2
      <3>10. Lists(t, new)
        BY <3>6, <3>8, <3>9 DEF Lists
      <3> QED BY <2>1, <3>5, <3>10 DEF t
    <2>5. CASE n \notin sel
      <3>1. new = old
        <4>1. \A d \in 0..n : d = n \/ d \in 0..n - 1
          OBVIOUS
        <4> QED BY <2>5, <4>1
      <3>2. v[n + 1] = u
        BY <2>2, <2>5
      <3> QED BY <2>1, <3>1, <3>2
    <2> QED BY <2>4, <2>5
  <1>5. nd \in T
    <2> HIDE DEF T
    <2> QED BY <1>2, <1>4, Induction
  <1>6. sel \cap (0..nd - 1) = sel
    OBVIOUS
  <1> QED BY <1>5, <1>6 DEF Collect, v
-----------------------------------------------------------------------------
(* The set operations *)

\* What count[] holds after the first i elements of b: never more than 2.
LEMMA CountOnce ==
    ASSUME NEW a, NEW b, NEW B, Lists(b, B), NEW i \in 0..Len(b), NEW d
    PROVE  Count(a, b, i, d)
             = (IF d \in Elements(a) THEN 1 ELSE 0)
                 + (IF \E j \in 1..i : b[j] = d THEN 1 ELSE 0)
  <1>1. Occurrences(b, i, d) = IF \E j \in 1..i : b[j] = d THEN 1 ELSE 0
    BY OccursOnce
  <1>2. CASE d \in Elements(a)
    BY <1>1, <1>2 DEF Count, CountRange
  <1>3. CASE d \notin Elements(a)
    BY <1>1, <1>3 DEF Count, CountRange
  <1> QED BY <1>2, <1>3

\* What count[] holds after all elements of b.
LEMMA CountAll ==
    ASSUME NEW a, NEW b, NEW B, Lists(b, B), NEW d
    PROVE  Count(a, b, Len(b), d)
             = (IF d \in Elements(a) THEN 1 ELSE 0) + (IF d \in B THEN 1 ELSE 0)
  <1>1. Len(b) \in Nat /\ DOMAIN b = 1..Len(b)
    BY ListsLength
  <1>2. d \in B <=> \E j \in 1..Len(b) : b[j] = d
    BY <1>1 DEF Lists, Elements
  <1>3. Len(b) \in 0..Len(b)
    BY <1>1
  <1> QED BY <1>2, <1>3, CountOnce

\* The increments that take count[] to 1 are those of elements a has not, the
\* ones that take it to 2 those of elements a has.
LEMMA HitsExact ==
    ASSUME NEW a, NEW A, Lists(a, A), NEW b, NEW B, Lists(b, B)
    PROVE  /\ Hits(a, b, 1) = Cardinality(B \ A)
           /\ Hits(a, b, 2) = Cardinality(A \cap B)
  <1>1. Len(b) \in Nat /\ DOMAIN b = 1..Len(b) /\ Elements(a) = A
    BY ListsLength DEF Lists
  <1>2. ASSUME NEW i \in DOMAIN b
        PROVE  Count(a, b, i, b[i]) = (IF b[i] \in A THEN 1 ELSE 0) + 1
    <2>1. i \in 0..Len(b) /\ i \in 1..i
      BY <1>1
    <2>2. \E j \in 1..i : b[j] = b[i]
      BY <2>1
    <2> QED BY <1>1, <2>1, <2>2, CountOnce
  <1>3. Hits(a, b, 1) = Cardinality(B \ A)
    <2>1. {i \in DOMAIN b : Count(a, b, i, b[i]) = 1}
            = {i \in DOMAIN b : b[i] \in B \ A}
      <3>1. \A i \in DOMAIN b : b[i] \in B
        BY DEF Lists, Elements
      <3> QED BY <1>2, <3>1
    <2>2. B \cap (B \ A) = B \ A
      OBVIOUS
    <2>3. Cardinality({i \in DOMAIN b : b[i] \in B \ A}) = Cardinality(B \ A)
      BY <2>2, PlacesCount
    <2> QED BY <2>1, <2>3 DEF Hits
  <1>4. Hits(a, b, 2) = Cardinality(A \cap B)
    <2>1. {i \in DOMAIN b : Count(a, b, i, b[i]) = 2}
            = {i \in DOMAIN b : b[i] \in A}
      BY <1>2
    <2>2. B \cap A = A \cap B
      OBVIOUS
    <2>3. Cardinality({i \in DOMAIN b : b[i] \in A}) = Cardinality(A \cap B)
      BY <2>2, PlacesCount
    <2> QED BY <2>1, <2>3 DEF Hits
  <1> QED BY <1>3, <1>4

\* vi_vec_union has room for what it returns, and returns the union.
LEMMA UnionLists ==
    ASSUME NEW nd \in Nat, NEW a, NEW A \in SUBSET (0..nd - 1), Lists(a, A),
           NEW b, NEW B \in SUBSET (0..nd - 1), Lists(b, B)
    PROVE  Lists(Union(a, b, nd), A \cup B)
  <1>1. {d \in 0..nd - 1 : Count(a, b, Len(b), d) > 0} = A \cup B
    <2>1. Elements(a) = A
      BY DEF Lists
    <2>2. \A d \in 0..nd - 1 :
             Count(a, b, Len(b), d) > 0 <=> d \in A \/ d \in B
      BY <2>1, CountAll
    <2> QED BY <2>2
  <1>2. /\ IsFiniteSet(A) /\ Cardinality(A) = Len(a) /\ Len(a) \in Nat
        /\ IsFiniteSet(B)
    BY ListsLength
  <1>3. /\ IsFiniteSet(B \ A) /\ Cardinality(B \ A) \in Nat
    BY <1>2, FS_Difference, FS_CardinalityType
  <1>8. /\ Hits(a, b, 1) = Cardinality(B \ A)
        /\ Hits(a, b, 2) = Cardinality(A \cap B)
    BY HitsExact
  <1>4. Cardinality(A \cup B) = Len(a) + Hits(a, b, 1)
    <2>1. A \cup B = A \cup (B \ A) /\ A \cap (B \ A) = {}
      OBVIOUS
    <2>2. Cardinality(A \cup (B \ A))
            = Cardinality(A) + Cardinality(B \ A) - Cardinality(A \cap (B \ A))
      BY <1>2, <1>3, FS_Union
    <2>3. Cardinality({}) = 0
      BY FS_EmptySet
    <2>4. /\ Cardinality(A \cup B) = Cardinality(A \cup (B \ A))
          /\ Cardinality(A \cap (B \ A)) = 0
      BY <2>1, <2>3, Zenon
    <2> QED BY <1>2, <1>3, <1>8, <2>2, <2>4
  <1>5. Len(a) + Hits(a, b, 1) \in Int
    BY <1>2, <1>3, <1>8
  <1>6. Cardinality(A \cup B) <= Len(a) + Hits(a, b, 1)
    BY <1>4, <1>5
  <1>7. A \cup B \in SUBSET (0..nd - 1)
    OBVIOUS
  <1> QED BY <1>1, <1>5, <1>6, <1>7, CollectLists DEF Union

\* vi_vec_intersection has room for what it returns, and returns the
\* intersection.
LEMMA IntersectionLists ==
    ASSUME NEW nd \in Nat, NEW a, NEW A \in SUBSET (0..nd - 1), Lists(a, A),
           NEW b, NEW B \in SUBSET (0..nd - 1), Lists(b, B)
    PROVE  Lists(Intersection(a, b, nd), A \cap B)
  <1>1. {d \in 0..nd - 1 : Count(a, b, Len(b), d) = 2} = A \cap B
    <2>1. Elements(a) = A
      BY DEF Lists
    <2>2. \A d \in 0..nd - 1 :
             Count(a, b, Len(b), d) = 2 <=> d \in A /\ d \in B
      BY <2>1, CountAll
    <2> QED BY <2>2
  <1>2. /\ Hits(a, b, 1) = Cardinality(B \ A)
        /\ Hits(a, b, 2) = Cardinality(A \cap B)
    BY HitsExact
  <1>3. Cardinality(A \cap B) \in Nat
    <2>1. IsFiniteSet(A \cap B)
      BY ListsLength, FS_Intersection
    <2> QED BY <2>1, FS_CardinalityType
  <1>4. A \cap B \in SUBSET (0..nd - 1)
    OBVIOUS
  <1>5. Hits(a, b, 2) \in Int /\ Cardinality(A \cap B) <= Hits(a, b, 2)
    BY <1>2, <1>3
  <1> QED BY <1>1, <1>4, <1>5, CollectLists DEF Intersection

\* get_not_docs has room for what it returns, and returns the complement.
LEMMA ComplementLists ==
    ASSUME NEW nd \in Nat, NEW v, NEW D \in SUBSET (0..nd - 1), Lists(v, D)
    PROVE  Lists(Complement(v, nd), (0..nd - 1) \ D)
  <1>1. Elements(v) = D
    BY DEF Lists
  <1>2. IsFiniteSet(0..nd - 1) /\ Cardinality(0..nd - 1) = nd
    BY FS_Interval
  <1>3. Cardinality(D) = Len(v) /\ Len(v) \in Nat
    BY ListsLength
  <1>4. Cardinality((0..nd - 1) \ D) = nd - Len(v)
    <2>1. (0..nd - 1) \cap D = D
      OBVIOUS
    <2>2. Cardinality((0..nd - 1) \ D)
            = Cardinality(0..nd - 1) - Cardinality((0..nd - 1) \cap D)
      BY <1>2, FS_Difference
    <2> QED BY <1>2, <1>3, <2>1, <2>2
  <1>5. Len(v) <= nd
    BY <1>2, <1>3, FS_Subset
  <1>6. nd - Len(v) \in Int /\ Cardinality((0..nd - 1) \ D) <= nd - Len(v)
    BY <1>3, <1>4
  <1>7. (0..nd - 1) \ D \in SUBSET (0..nd - 1)
    OBVIOUS
  <1> QED BY <1>1, <1>5, <1>6, <1>7, CollectLists DEF Complement
-----------------------------------------------------------------------------
(* The token loop of evaluate() *)

StackStates == [ok : BOOLEAN, stack : Seq(Seq(Int))]

\* The branches of the loop's body.
LEMMA TokenCases ==
    ASSUME NEW st, NEW token, NEW vec, NEW nd
    PROVE  LET n == Len(st.stack)
               Left(k, v) == [ok |-> TRUE,
                              stack |-> Append(SubSeq(st.stack, 1, n - k), v)]
           IN  /\ ~st.ok => EvalToken(st, token, vec, nd) = st
               /\ st.ok /\ token = "&" => EvalToken(st, token, vec, nd) =
                     IF n < 2 THEN Exited
                     ELSE Left(2, Intersection(st.stack[n], st.stack[n - 1], nd))
               /\ st.ok /\ token = "|" => EvalToken(st, token, vec, nd) =
                     IF n < 2 THEN Exited
                     ELSE Left(2, Union(st.stack[n], st.stack[n - 1], nd))
               /\ st.ok /\ token = "!" => EvalToken(st, token, vec, nd) =
                     IF n < 1 THEN Exited
                     ELSE Left(1, Complement(st.stack[n], nd))
               /\ st.ok /\ token \notin Operators =>
                     EvalToken(st, token, vec, nd)
                        = [ok |-> TRUE, stack |-> Append(st.stack, vec)]
  BY DEF EvalToken, Operators

\* The state of the stack keeps its type.
LEMMA TokenType ==
    ASSUME NEW st \in StackStates, NEW token, NEW vec \in Seq(Int),
           NEW nd \in Nat
    PROVE  EvalToken(st, token, vec, nd) \in StackStates
  <1> DEFINE n == Len(st.stack)
  <1>1. /\ st.ok \in BOOLEAN /\ st.stack \in Seq(Seq(Int)) /\ n \in Nat
    BY DEF StackStates
  <1>2. Exited \in StackStates
    BY DEF Exited, StackStates
  <1>3. ASSUME NEW s \in Seq(Seq(Int)), NEW v \in Seq(Int)
        PROVE  [ok |-> TRUE, stack |-> Append(s, v)] \in StackStates
    <2>1. Append(s, v) \in Seq(Seq(Int))
      BY AppendProperties
    <2> QED BY <2>1 DEF StackStates
  <1>4. \A k \in {1, 2} : n >= k => SubSeq(st.stack, 1, n - k) \in Seq(Seq(Int))
    BY <1>1, SubSeqProperties
  <1>5. \A x, y : /\ Intersection(x, y, nd) \in Seq(Int)
                  /\ Union(x, y, nd) \in Seq(Int)
                  /\ Complement(x, nd) \in Seq(Int)
    BY CollectType DEF Intersection, Union, Complement
  <1>6. CASE ~st.ok
    BY <1>6, TokenCases
  <1>7. CASE st.ok /\ token = "&"
    <2>1. CASE n < 2
      BY <1>2, <1>7, <2>1, TokenCases
    <2>2. CASE n >= 2
      <3>1. EvalToken(st, token, vec, nd)
              = [ok |-> TRUE,
                 stack |-> Append(SubSeq(st.stack, 1, n - 2),
                                  Intersection(st.stack[n], st.stack[n - 1], nd))]
        <4>1. EvalToken(st, token, vec, nd)
                = IF n < 2 THEN Exited
                  ELSE [ok |-> TRUE,
                        stack |-> Append(SubSeq(st.stack, 1, n - 2),
                            Intersection(st.stack[n], st.stack[n - 1], nd))]
          BY <1>7, TokenCases
        <4>2. ~(n < 2)
          BY <1>1, <2>2
        <4> QED BY <4>1, <4>2
      <3> QED BY <1>3, <1>4, <1>5, <2>2, <3>1
    <2> QED BY <1>1, <2>1, <2>2
  <1>8. CASE st.ok /\ token = "|"
    <2>1. CASE n < 2
      BY <1>2, <1>8, <2>1, TokenCases
    <2>2. CASE n >= 2
      <3>1. EvalToken(st, token, vec, nd)
              = [ok |-> TRUE,
                 stack |-> Append(SubSeq(st.stack, 1, n - 2),
                                  Union(st.stack[n], st.stack[n - 1], nd))]
        <4>1. EvalToken(st, token, vec, nd)
                = IF n < 2 THEN Exited
                  ELSE [ok |-> TRUE,
                        stack |-> Append(SubSeq(st.stack, 1, n - 2),
                            Union(st.stack[n], st.stack[n - 1], nd))]
          BY <1>8, TokenCases
        <4>2. ~(n < 2)
          BY <1>1, <2>2
        <4> QED BY <4>1, <4>2
      <3> QED BY <1>3, <1>4, <1>5, <2>2, <3>1
    <2> QED BY <1>1, <2>1, <2>2
  <1>9. CASE st.ok /\ token = "!"
    <2>1. CASE n < 1
      BY <1>2, <1>9, <2>1, TokenCases
    <2>2. CASE n >= 1
      <3>1. EvalToken(st, token, vec, nd)
              = [ok |-> TRUE,
                 stack |-> Append(SubSeq(st.stack, 1, n - 1),
                                  Complement(st.stack[n], nd))]
        BY <1>1, <1>9, <2>2, TokenCases
      <3> QED BY <1>3, <1>4, <1>5, <2>2, <3>1
    <2> QED BY <1>1, <2>1, <2>2
  <1>10. CASE st.ok /\ token \notin Operators
    <2>1. EvalToken(st, token, vec, nd)
            = [ok |-> TRUE, stack |-> Append(st.stack, vec)]
      BY <1>10, TokenCases
    <2> QED BY <1>1, <1>3, <2>1
  <1> QED BY <1>1, <1>6, <1>7, <1>8, <1>9, <1>10 DEF Operators

\* Run satisfies the equation it is defined by.
LEMMA RunSteps ==
    ASSUME NEW nd \in Nat, NEW rpn, Len(rpn) \in Nat, NEW vecs,
           \A i \in 1..Len(rpn) : vecs[i] \in Seq(Int)
    PROVE  LET run == Run(rpn, vecs, nd)
           IN  /\ run[0] = [ok |-> TRUE, stack |-> <<>>]
               /\ \A i \in 0..Len(rpn) : run[i] \in StackStates
               /\ \A i \in 1..Len(rpn) :
                     run[i] = EvalToken(run[i - 1], rpn[i], vecs[i], nd)
  <1> DEFINE F == [p \in (1..Len(rpn)) \X StackStates |->
                     EvalToken(p[2], rpn[p[1]], vecs[p[1]], nd)]
             start == [ok |-> TRUE, stack |-> <<>>]
             run == Run(rpn, vecs, nd)
  <1>1. F \in [(1..Len(rpn)) \X StackStates -> StackStates]
    BY TokenType
  <1>2. \A i \in 1..Len(rpn), st \in StackStates :
           F[<<i, st>>] = EvalToken(st, rpn[i], vecs[i], nd)
    OBVIOUS
  <1>3. start \in StackStates
    BY DEF StackStates
  <1> HIDE DEF F, start
  <1>4. PICK f \in [0..Len(rpn) -> StackStates] :
           \A i \in 0..Len(rpn) :
              f[i] = IF i = 0 THEN start ELSE F[<<i, f[i - 1]>>]
    <2>1. \E f \in [0..Len(rpn) -> StackStates] :
             Recursive(f, Len(rpn), start, F)
      BY <1>1, <1>3, Recursion
    <2> QED BY <2>1 DEF Recursive
  <1>5. f = [i \in 0..Len(rpn) |->
               IF i = 0 THEN start
               ELSE EvalToken(f[i - 1], rpn[i], vecs[i], nd)]
    <2>1. ASSUME NEW i \in 0..Len(rpn), i # 0
          PROVE  f[i] = EvalToken(f[i - 1], rpn[i], vecs[i], nd)
      <3>1. i - 1 \in 0..Len(rpn) /\ i \in 1..Len(rpn)
        BY <2>1
      <3> QED BY <1>2, <1>4, <2>1, <3>1
    <2> QED BY <1>4, <2>1
  <1>6. run = [i \in 0..Len(rpn) |->
                 IF i = 0 THEN start
                 ELSE EvalToken(run[i - 1], rpn[i], vecs[i], nd)]
    BY <1>5 DEF Run, start
  <1> HIDE DEF run
  <1>7. /\ run[0] = start
        /\ \A i \in 1..Len(rpn) :
              run[i] = EvalToken(run[i - 1], rpn[i], vecs[i], nd)
    <2>1. 0 \in 0..Len(rpn)
      OBVIOUS
    <2>2. \A i \in 1..Len(rpn) : i \in 0..Len(rpn) /\ i # 0
      OBVIOUS
    <2> QED BY <1>6, <2>1, <2>2
  <1>8. \A i \in 0..Len(rpn) : run[i] \in StackStates
    <2> DEFINE T == {i \in 0..Len(rpn) : run[i] \in StackStates}
    <2>1. 0 \in T
      BY <1>3, <1>7
    <2>2. ASSUME NEW i \in 0..Len(rpn) - 1, i \in T
          PROVE  i + 1 \in T
      <3>1. /\ i + 1 \in 1..Len(rpn) /\ i + 1 \in 0..Len(rpn)
            /\ (i + 1) - 1 = i /\ run[i] \in StackStates
        BY <2>2
      <3>2. run[i + 1] = EvalToken(run[i], rpn[i + 1], vecs[i + 1], nd)
        BY <1>7, <3>1
      <3>3. run[i + 1] \in StackStates
        BY <3>1, <3>2, TokenType
      <3> QED BY <3>1, <3>3
    <2> HIDE DEF T
    <2>3. \A i \in 0..Len(rpn) : i \in T
      BY <2>1, <2>2, Induction
    <2> QED BY <2>3 DEF T
  <1> QED BY <1>7, <1>8 DEF run, start
-----------------------------------------------------------------------------
(* What a query means *)

\* A token leaves truth values.
LEMMA CombineType ==
    ASSUME NEW token, NEW s \in Seq(BOOLEAN), NEW words
    PROVE  Combine(token, s, words) \in Seq(BOOLEAN)
  <1> DEFINE n == Len(s)
             Under(k) == SubSeq(s, 1, n - k)
  <1>1. ASSUME NEW k \in {1, 2}
        PROVE  Under(k) \in Seq(BOOLEAN)
    <2>1. n \in Nat /\ 1 \in Int /\ n - k \in Int
      OBVIOUS
    <2>2. \A i \in 1..n - k : s[i] \in BOOLEAN
      BY <2>1
    <2> HIDE DEF n
    <2> QED BY <2>1, <2>2, SubSeqProperties
  <1>2. ASSUME NEW v \in Seq(BOOLEAN), NEW b \in BOOLEAN
        PROVE  Append(v, b) \in Seq(BOOLEAN)
    BY AppendProperties
  <1>3. /\ (s[n] /\ s[n - 1]) \in BOOLEAN
        /\ (s[n] \/ s[n - 1]) \in BOOLEAN
        /\ (~s[n]) \in BOOLEAN
        /\ (token \in words) \in BOOLEAN
    OBVIOUS
  <1> HIDE DEF Under, n
  <1>4. /\ Append(Under(2), s[n] /\ s[n - 1]) \in Seq(BOOLEAN)
        /\ Append(Under(2), s[n] \/ s[n - 1]) \in Seq(BOOLEAN)
        /\ Append(Under(1), ~s[n]) \in Seq(BOOLEAN)
        /\ Append(s, token \in words) \in Seq(BOOLEAN)
    BY <1>1, <1>2, <1>3, Zenon
  <1>5. Combine(token, s, words) =
          CASE token = "&" -> Append(Under(2), s[n] /\ s[n - 1])
            [] token = "|" -> Append(Under(2), s[n] \/ s[n - 1])
            [] token = "!" -> Append(Under(1), ~s[n])
            [] OTHER -> Append(s, token \in words)
    BY Zenon DEF Combine, Under, n
  <1> QED BY <1>4, <1>5, Zenon

\* Truth satisfies the equation it is defined by.
LEMMA TruthSteps ==
    ASSUME NEW rpn, Len(rpn) \in Nat, NEW words
    PROVE  LET truth == Truth(rpn, words)
           IN  /\ truth[0] = <<>>
               /\ \A i \in 0..Len(rpn) : truth[i] \in Seq(BOOLEAN)
               /\ \A i \in 1..Len(rpn) :
                     truth[i] = Combine(rpn[i], truth[i - 1], words)
  <1> DEFINE S == Seq(BOOLEAN)
             F == [p \in (1..Len(rpn)) \X S |->
                     Combine(rpn[p[1]], p[2], words)]
             none == <<>>
             truth == Truth(rpn, words)
  <1>1. F \in [(1..Len(rpn)) \X S -> S]
    BY CombineType
  <1>2. none \in S
    OBVIOUS
  <1> HIDE DEF S
  <1>3. \A i \in 1..Len(rpn), s \in S : F[<<i, s>>] = Combine(rpn[i], s, words)
    OBVIOUS
  <1> HIDE DEF F, none
  <1>4. PICK f \in [0..Len(rpn) -> S] :
           \A i \in 0..Len(rpn) :
              f[i] = IF i = 0 THEN none ELSE F[<<i, f[i - 1]>>]
    <2>1. \E f \in [0..Len(rpn) -> S] : Recursive(f, Len(rpn), none, F)
      BY <1>1, <1>2, Recursion
    <2> QED BY <2>1 DEF Recursive
  <1>5. f = [i \in 0..Len(rpn) |->
               IF i = 0 THEN none ELSE Combine(rpn[i], f[i - 1], words)]
    <2>1. ASSUME NEW i \in 0..Len(rpn), i # 0
          PROVE  f[i] = Combine(rpn[i], f[i - 1], words)
      <3>1. i - 1 \in 0..Len(rpn) /\ i \in 1..Len(rpn)
        BY <2>1
      <3> QED BY <1>3, <1>4, <2>1, <3>1
    <2> QED BY <1>4, <2>1
  <1>6. truth = [i \in 0..Len(rpn) |->
                   IF i = 0 THEN none
                   ELSE Combine(rpn[i], truth[i - 1], words)]
    BY <1>5 DEF Truth, none
  <1> HIDE DEF truth
  <1>7. /\ truth[0] = none
        /\ \A i \in 1..Len(rpn) :
              truth[i] = Combine(rpn[i], truth[i - 1], words)
    <2>1. 0 \in 0..Len(rpn)
      OBVIOUS
    <2>2. \A i \in 1..Len(rpn) : i \in 0..Len(rpn) /\ i # 0
      OBVIOUS
    <2> QED BY <1>6, <2>1, <2>2
  <1>8. \A i \in 0..Len(rpn) : truth[i] \in S
    <2> DEFINE T == {i \in 0..Len(rpn) : truth[i] \in S}
    <2>1. 0 \in T
      BY <1>2, <1>7
    <2>2. ASSUME NEW i \in 0..Len(rpn) - 1, i \in T
          PROVE  i + 1 \in T
      <3>1. /\ i + 1 \in 1..Len(rpn) /\ i + 1 \in 0..Len(rpn)
            /\ (i + 1) - 1 = i /\ truth[i] \in S
        BY <2>2
      <3>2. truth[i + 1] = Combine(rpn[i + 1], truth[i], words)
        BY <1>7, <3>1
      <3>3. truth[i + 1] \in S
        BY <3>1, <3>2, CombineType DEF S
      <3> QED BY <3>1, <3>3
    <2> HIDE DEF T
    <2>3. \A i \in 0..Len(rpn) : i \in T
      BY <2>1, <2>2, Induction
    <2> QED BY <2>3 DEF T
  <1> QED BY <1>7, <1>8 DEF truth, none, S

\* Depth satisfies the equation it is defined by.
LEMMA DepthSteps ==
    ASSUME NEW rpn, Len(rpn) \in Nat
    PROVE  LET depth == Depth(rpn)
           IN  /\ depth[0] = 0
               /\ \A i \in 0..Len(rpn) : depth[i] \in Int
               /\ \A i \in 1..Len(rpn) :
                     depth[i] = depth[i - 1] - Needs(rpn[i]) + 1
  <1> DEFINE F == [p \in (1..Len(rpn)) \X Int |->
                     p[2] - Needs(rpn[p[1]]) + 1]
             depth == Depth(rpn)
  <1>1. \A i : Needs(rpn[i]) \in Int
    BY DEF Needs
  <1>2. F \in [(1..Len(rpn)) \X Int -> Int]
    BY <1>1
  <1>3. \A i \in 1..Len(rpn), n \in Int : F[<<i, n>>] = n - Needs(rpn[i]) + 1
    OBVIOUS
  <1> HIDE DEF F
  <1>4. PICK f \in [0..Len(rpn) -> Int] :
           \A i \in 0..Len(rpn) :
              f[i] = IF i = 0 THEN 0 ELSE F[<<i, f[i - 1]>>]
    <2>1. 0 \in Int
      OBVIOUS
    <2>2. \E f \in [0..Len(rpn) -> Int] : Recursive(f, Len(rpn), 0, F)
      BY <1>2, <2>1, Recursion
    <2> QED BY <2>2 DEF Recursive
  <1>5. f = [i \in 0..Len(rpn) |->
               IF i = 0 THEN 0 ELSE f[i - 1] - Needs(rpn[i]) + 1]
    <2>1. ASSUME NEW i \in 0..Len(rpn), i # 0
          PROVE  f[i] = f[i - 1] - Needs(rpn[i]) + 1
      <3>1. i - 1 \in 0..Len(rpn) /\ i \in 1..Len(rpn)
        BY <2>1
      <3> QED BY <1>3, <1>4, <2>1, <3>1
    <2> QED BY <1>4, <2>1
  <1>6. depth = [i \in 0..Len(rpn) |->
                   IF i = 0 THEN 0 ELSE depth[i - 1] - Needs(rpn[i]) + 1]
    BY <1>5 DEF Depth
  <1> HIDE DEF depth
  <1>7. /\ depth[0] = 0
        /\ \A i \in 1..Len(rpn) :
              depth[i] = depth[i - 1] - Needs(rpn[i]) + 1
    <2>1. 0 \in 0..Len(rpn)
      OBVIOUS
    <2>2. \A i \in 1..Len(rpn) : i \in 0..Len(rpn) /\ i # 0
      OBVIOUS
    <2> QED BY <1>6, <2>1, <2>2
  <1>8. \A i \in 0..Len(rpn) : depth[i] \in Int
    <2> DEFINE T == {i \in 0..Len(rpn) : depth[i] \in Int}
    <2>1. 0 \in T
      BY <1>7
    <2>2. ASSUME NEW i \in 0..Len(rpn) - 1, i \in T
          PROVE  i + 1 \in T
      <3>1. /\ i + 1 \in 1..Len(rpn) /\ i + 1 \in 0..Len(rpn)
            /\ (i + 1) - 1 = i /\ depth[i] \in Int
        BY <2>2
      <3>2. depth[i + 1] \in Int
        BY <1>1, <1>7, <3>1
      <3> QED BY <3>1, <3>2
    <2> HIDE DEF T
    <2>3. \A i \in 0..Len(rpn) : i \in T
      BY <2>1, <2>2, Induction
    <2> QED BY <2>3 DEF T
  <1> QED BY <1>7, <1>8 DEF depth
-----------------------------------------------------------------------------
(* evaluate() computes what a query means *)

(***************************************************************************)
(* stack holds, from bottom to top, the documents below nd for which the   *)
(* truth values t[d] are true.                                             *)
(***************************************************************************)
Represents(stack, t, nd) ==
    /\ \A d \in 0..nd - 1 : t[d] \in Seq(BOOLEAN) /\ Len(t[d]) = Len(stack)
    /\ \A k \in 1..Len(stack) : Lists(stack[k], {d \in 0..nd - 1 : t[d][k]})

\* Popping takes the same from both.
LEMMA PoppedMeaning ==
    ASSUME NEW nd \in Nat, NEW s \in Seq(Seq(Int)), NEW t, Represents(s, t, nd),
           NEW m \in 0..Len(s)
    PROVE  Represents(SubSeq(s, 1, m),
                      [d \in 0..nd - 1 |-> SubSeq(t[d], 1, m)], nd)
  <1> DEFINE u == [d \in 0..nd - 1 |-> SubSeq(t[d], 1, m)]
             r == SubSeq(s, 1, m)
  <1>1. Len(s) \in Nat /\ m \in Int /\ m \in Nat
    OBVIOUS
  <1>2. /\ Len(r) = m
        /\ \A k \in 1..m : r[k] = s[k]
    <2>1. \A k \in 1..m : s[k] \in Seq(Int)
      BY <1>1
    <2> QED BY <1>1, <2>1, SubSeqProperties
  <1>3. ASSUME NEW d \in 0..nd - 1
        PROVE  /\ u[d] \in Seq(BOOLEAN) /\ Len(u[d]) = m
               /\ \A k \in 1..m : u[d][k] = t[d][k]
    <2>1. t[d] \in Seq(BOOLEAN) /\ Len(t[d]) = Len(s)
      BY DEF Represents
    <2>2. \A k \in 1..m : t[d][k] \in BOOLEAN
      BY <1>1, <2>1
    <2>3. /\ SubSeq(t[d], 1, m) \in Seq(BOOLEAN)
          /\ Len(SubSeq(t[d], 1, m)) = m
          /\ \A k \in 1..m : SubSeq(t[d], 1, m)[k] = t[d][k]
      BY <1>1, <2>2, SubSeqProperties
    <2> QED BY <2>3
  <1> HIDE DEF u, r
  <1>4. ASSUME NEW k \in 1..m
        PROVE  Lists(r[k], {d \in 0..nd - 1 : u[d][k]})
    <2>1. {d \in 0..nd - 1 : u[d][k]} = {d \in 0..nd - 1 : t[d][k]}
      BY <1>3
    <2>2. k \in 1..Len(s)
      BY <1>1
    <2> QED BY <1>2, <2>1, <2>2 DEF Represents
  <1>5. Represents(r, u, nd)
    BY <1>2, <1>3, <1>4 DEF Represents
  <1> QED BY <1>5 DEF r, u

\* Pushing a vector stands for pushing the truth values it lists.
LEMMA PushedMeaning ==
    ASSUME NEW nd \in Nat, NEW s \in Seq(Seq(Int)), NEW t, Represents(s, t, nd),
           NEW v, NEW b \in [0..nd - 1 -> BOOLEAN],
           Lists(v, {d \in 0..nd - 1 : b[d]})
    PROVE  Represents(Append(s, v),
                      [d \in 0..nd - 1 |-> Append(t[d], b[d])], nd)
  <1> DEFINE u == [d \in 0..nd - 1 |-> Append(t[d], b[d])]
             r == Append(s, v)
             n == Len(s)
  <1>1. n \in Nat
    OBVIOUS
  <1>2. /\ Len(r) = n + 1
        /\ r[n + 1] = v
        /\ \A k \in 1..n : r[k] = s[k]
    <2>1. v \in Seq(Int)
      BY DEF Lists
    <2> QED BY <2>1, AppendProperties
  <1>3. ASSUME NEW d \in 0..nd - 1
        PROVE  /\ u[d] \in Seq(BOOLEAN) /\ Len(u[d]) = n + 1
               /\ u[d][n + 1] = b[d]
               /\ \A k \in 1..n : u[d][k] = t[d][k]
    <2>1. t[d] \in Seq(BOOLEAN) /\ Len(t[d]) = n /\ b[d] \in BOOLEAN
      BY DEF Represents
    <2>2. /\ Append(t[d], b[d]) \in Seq(BOOLEAN)
          /\ Len(Append(t[d], b[d])) = n + 1
          /\ Append(t[d], b[d])[n + 1] = b[d]
          /\ \A k \in 1..n : Append(t[d], b[d])[k] = t[d][k]
      BY <2>1, AppendProperties
    <2> QED BY <2>2
  <1> HIDE DEF u, r
  <1>4. ASSUME NEW k \in 1..n + 1
        PROVE  Lists(r[k], {d \in 0..nd - 1 : u[d][k]})
    <2>1. CASE k \in 1..n
      <3>1. {d \in 0..nd - 1 : u[d][k]} = {d \in 0..nd - 1 : t[d][k]}
        BY <1>3, <2>1
      <3> QED BY <1>2, <2>1, <3>1 DEF Represents
    <2>2. CASE k = n + 1
      <3>1. {d \in 0..nd - 1 : u[d][n + 1]} = {d \in 0..nd - 1 : b[d]}
        BY <1>3
      <3> QED BY <1>2, <2>2, <3>1
    <2> QED BY <1>1, <2>1, <2>2
  <1>5. Represents(r, u, nd)
    BY <1>2, <1>3, <1>4 DEF Represents
  <1> QED BY <1>5 DEF r, u

\* What is on top of the stack, and what an operator makes of it.
LEMMA TopMeaning ==
    ASSUME NEW nd \in Nat, NEW s \in Seq(Seq(Int)), NEW t, Represents(s, t, nd)
    PROVE  LET n == Len(s)
               D(k) == {d \in 0..nd - 1 : t[d][k]}
           IN  /\ n >= 1 => Lists(Complement(s[n], nd),
                                  {d \in 0..nd - 1 : ~t[d][n]})
               /\ n >= 2 => /\ Lists(Intersection(s[n], s[n - 1], nd),
                                     {d \in 0..nd - 1 : t[d][n] /\ t[d][n - 1]})
                            /\ Lists(Union(s[n], s[n - 1], nd),
                                     {d \in 0..nd - 1 : t[d][n] \/ t[d][n - 1]})
  <1> DEFINE n == Len(s)
             D(k) == {d \in 0..nd - 1 : t[d][k]}
  <1>1. n \in Nat
    OBVIOUS
  <1>2. \A k : D(k) \in SUBSET (0..nd - 1)
    OBVIOUS
  <1>3. \A k \in 1..n : Lists(s[k], D(k))
    BY DEF Represents
  <1>4. /\ (0..nd - 1) \ D(n) = {d \in 0..nd - 1 : ~t[d][n]}
        /\ D(n) \cap D(n - 1) = {d \in 0..nd - 1 : t[d][n] /\ t[d][n - 1]}
        /\ D(n) \cup D(n - 1) = {d \in 0..nd - 1 : t[d][n] \/ t[d][n - 1]}
    OBVIOUS
  <1> HIDE DEF D
  <1>5. CASE n >= 1
    <2>1. n \in 1..n
      BY <1>1, <1>5
    <2>2. Lists(Complement(s[n], nd), (0..nd - 1) \ D(n))
      BY <1>2, <1>3, <2>1, ComplementLists
    <2>3. CASE n >= 2
      <3>1. n - 1 \in 1..n
        BY <1>1, <2>3
      <3>2. Lists(s[n], D(n)) /\ Lists(s[n - 1], D(n - 1))
        BY <1>3, <2>1, <3>1
      <3> HIDE DEF n
      <3>3. /\ Lists(Intersection(s[n], s[n - 1], nd), D(n) \cap D(n - 1))
            /\ Lists(Union(s[n], s[n - 1], nd), D(n) \cup D(n - 1))
        BY <1>2, <3>2, IntersectionLists, UnionLists
      <3> QED BY <1>4, <2>2, <3>3 DEF n
    <2> QED BY <1>4, <2>2, <2>3
  <1> QED BY <1>1, <1>5

\* The documents below nd that hold a word.
With(word, held, nd) == {d \in 0..nd - 1 : word \in held[d]}

\* What a token makes of the truth values for each document.
Combined(token, t, held, nd) ==
    [d \in 0..nd - 1 |-> Combine(token, t[d], held[d])]

(***************************************************************************)
(* One iteration of the loop: it goes on exactly if the operands are       *)
(* there, and then it does to the vectors what the token means.            *)
(***************************************************************************)
LEMMA TokenMeaning ==
    ASSUME NEW nd \in Nat, NEW st \in StackStates, st.ok,
           NEW t, Represents(st.stack, t, nd),
           NEW token, NEW vec \in Seq(Int), NEW held,
           token \notin Operators =>
              Lists(vec, With(token, held, nd))
    PROVE  LET new == EvalToken(st, token, vec, nd)
               u == Combined(token, t, held, nd)
           IN  /\ new.ok <=> Len(st.stack) >= Needs(token)
               /\ new.ok => /\ Represents(new.stack, u, nd)
                            /\ Len(new.stack) = Len(st.stack) - Needs(token) + 1
  <1> DEFINE s == st.stack
             n == Len(s)
             new == EvalToken(st, token, vec, nd)
             u == [d \in 0..nd - 1 |-> Combine(token, t[d], held[d])]
             Under(k) == SubSeq(s, 1, n - k)
             tUnder(k) == [d \in 0..nd - 1 |-> SubSeq(t[d], 1, n - k)]
             TrueIn(b) == {d \in 0..nd - 1 : b[d]}
             Pushes(k, b) ==
                \A d \in 0..nd - 1 : u[d] = Append(SubSeq(t[d], 1, n - k), b[d])
  <1>1. s \in Seq(Seq(Int)) /\ n \in Nat
    BY DEF StackStates
  <1>2. \A d \in 0..nd - 1 : t[d] \in Seq(BOOLEAN) /\ Len(t[d]) = n
    BY DEF Represents
  <1>3. ~Exited.ok
    BY DEF Exited
  <1>4. ASSUME NEW k \in 1..2, n >= k, NEW v,
               NEW b \in [0..nd - 1 -> BOOLEAN],
               Lists(v, TrueIn(b)), Pushes(k, b)
        PROVE  /\ Represents(Append(Under(k), v), u, nd)
               /\ Len(Append(Under(k), v)) = n - k + 1
    <2>1. n - k \in 0..n
      BY <1>1, <1>4
    <2>2. Represents(Under(k), tUnder(k), nd)
      BY <1>1, <2>1, PoppedMeaning
    <2>3. \A j \in 1..n - k : s[j] \in Seq(Int)
      BY <1>1, <2>1
    <2>4. Under(k) \in Seq(Seq(Int)) /\ Len(Under(k)) = n - k
      BY <1>1, <2>1, <2>3, SubSeqProperties
    <2>5. v \in Seq(Int)
      BY <1>4 DEF Lists
    <2>6. u = [d \in 0..nd - 1 |-> Append(tUnder(k)[d], b[d])]
      BY <1>4
    <2> HIDE DEF Under, tUnder, u
    <2>7. Represents(Append(Under(k), v), u, nd)
      BY <1>4, <2>2, <2>4, <2>6, PushedMeaning
    <2>8. Len(Append(Under(k), v)) = Len(Under(k)) + 1
      BY <2>4, <2>5, AppendProperties
    <2> QED BY <2>4, <2>7, <2>8
  <1>5. CASE token = "&"
    <2>1. new = IF n < 2 THEN Exited
                ELSE [ok |-> TRUE,
                      stack |-> Append(Under(2),
                                       Intersection(s[n], s[n - 1], nd))]
      BY <1>5, TokenCases
    <2>2. Needs(token) = 2
      BY <1>5 DEF Needs
    <2>3. CASE n >= 2
      <3> DEFINE b == [d \in 0..nd - 1 |-> t[d][n] /\ t[d][n - 1]]
                 v == Intersection(s[n], s[n - 1], nd)
      <3>1. b \in [0..nd - 1 -> BOOLEAN]
        OBVIOUS
      <3>2. TrueIn(b)
              = {d \in 0..nd - 1 : t[d][n] /\ t[d][n - 1]}
        OBVIOUS
      <3>3. Lists(v, TrueIn(b))
        BY <1>1, <2>3, <3>2, TopMeaning
      <3>4. Pushes(2, b)
        BY <1>2, <1>5 DEF Combine
      <3> HIDE DEF b, v, u, Under, TrueIn, Pushes, n, s
      <3>5. /\ Represents(Append(Under(2), v), u, nd)
            /\ Len(Append(Under(2), v)) = n - 2 + 1
        BY <1>4, <2>3, <3>1, <3>3, <3>4
      <3>6. new = [ok |-> TRUE, stack |-> Append(Under(2), v)]
        BY <1>1, <2>1, <2>3 DEF v, Under, n, s
      <3> QED BY <2>2, <2>3, <3>5, <3>6 DEF u, n, s, Combined
    <2>4. CASE n < 2
      BY <1>1, <1>3, <2>1, <2>2, <2>4
    <2> QED BY <1>1, <2>3, <2>4
  <1>6. CASE token = "|"
    <2>1. new = IF n < 2 THEN Exited
                ELSE [ok |-> TRUE,
                      stack |-> Append(Under(2),
                                       Union(s[n], s[n - 1], nd))]
      BY <1>6, TokenCases
    <2>2. Needs(token) = 2
      BY <1>6 DEF Needs
    <2>3. CASE n >= 2
      <3> DEFINE b == [d \in 0..nd - 1 |-> t[d][n] \/ t[d][n - 1]]
                 v == Union(s[n], s[n - 1], nd)
      <3>1. b \in [0..nd - 1 -> BOOLEAN]
        OBVIOUS
      <3>2. TrueIn(b)
              = {d \in 0..nd - 1 : t[d][n] \/ t[d][n - 1]}
        OBVIOUS
      <3>3. Lists(v, TrueIn(b))
        BY <1>1, <2>3, <3>2, TopMeaning
      <3>4. Pushes(2, b)
        BY <1>2, <1>6 DEF Combine
      <3> HIDE DEF b, v, u, Under, TrueIn, Pushes, n, s
      <3>5. /\ Represents(Append(Under(2), v), u, nd)
            /\ Len(Append(Under(2), v)) = n - 2 + 1
        BY <1>4, <2>3, <3>1, <3>3, <3>4
      <3>6. new = [ok |-> TRUE, stack |-> Append(Under(2), v)]
        BY <1>1, <2>1, <2>3 DEF v, Under, n, s
      <3> QED BY <2>2, <2>3, <3>5, <3>6 DEF u, n, s, Combined
    <2>4. CASE n < 2
      BY <1>1, <1>3, <2>1, <2>2, <2>4
    <2> QED BY <1>1, <2>3, <2>4
  <1>7. CASE token = "!"
    <2>1. new = IF n < 1 THEN Exited
                ELSE [ok |-> TRUE,
                      stack |-> Append(Under(1), Complement(s[n], nd))]
      BY <1>7, TokenCases
    <2>2. Needs(token) = 1
      BY <1>7 DEF Needs
    <2>3. CASE n >= 1
      <3> DEFINE b == [d \in 0..nd - 1 |-> ~t[d][n]]
                 v == Complement(s[n], nd)
      <3>1. b \in [0..nd - 1 -> BOOLEAN]
        OBVIOUS
      <3>2. TrueIn(b) = {d \in 0..nd - 1 : ~t[d][n]}
        OBVIOUS
      <3>3. Lists(v, TrueIn(b))
        BY <1>1, <2>3, <3>2, TopMeaning
      <3>4. Pushes(1, b)
        BY <1>2, <1>7 DEF Combine
      <3> HIDE DEF b, v, u, Under, TrueIn, Pushes, n, s
      <3>5. /\ Represents(Append(Under(1), v), u, nd)
            /\ Len(Append(Under(1), v)) = n - 1 + 1
        BY <1>4, <2>3, <3>1, <3>3, <3>4
      <3>6. new = [ok |-> TRUE, stack |-> Append(Under(1), v)]
        BY <1>1, <2>1, <2>3 DEF v, Under, n, s
      <3> QED BY <2>2, <2>3, <3>5, <3>6 DEF u, n, s, Combined
    <2>4. CASE n < 1
      BY <1>1, <1>3, <2>1, <2>2, <2>4
    <2> QED BY <1>1, <2>3, <2>4
  <1>8. CASE token \notin Operators
    <2>1. new = [ok |-> TRUE, stack |-> Append(s, vec)]
      BY <1>8, TokenCases
    <2>2. Needs(token) = 0
      BY <1>8 DEF Needs, Operators
    <2> DEFINE b == [d \in 0..nd - 1 |-> token \in held[d]]
    <2>3. b \in [0..nd - 1 -> BOOLEAN]
      OBVIOUS
    <2>4. {d \in 0..nd - 1 : b[d]} = With(token, held, nd)
      BY DEF With
    <2>5. Lists(vec, {d \in 0..nd - 1 : b[d]})
      BY <1>8, <2>4
    <2>6. \A d \in 0..nd - 1 : u[d] = Append(t[d], b[d])
      <3>1. token \notin {"&", "|", "!"}
        BY <1>8 DEF Operators
      <3> QED BY <3>1 DEF Combine
    <2>7. u = [d \in 0..nd - 1 |-> Append(t[d], b[d])]
      BY <2>6
    <2> HIDE DEF b, u
    <2>8. Represents(Append(s, vec), u, nd)
      BY <1>1, <2>3, <2>5, <2>7, PushedMeaning
    <2>9. Len(Append(s, vec)) = n + 1
      BY <1>1, AppendProperties
    <2> QED BY <1>1, <2>1, <2>2, <2>8, <2>9 DEF u, Combined
  <1> QED BY <1>5, <1>6, <1>7, <1>8 DEF Operators

\* What search() hands to evaluate(): a query, and for each of its words the
\* documents that hold it.
IsInput(rpn, vecs, held, nd) ==
    /\ nd \in Nat
    /\ Len(rpn) \in Nat
    /\ DOMAIN rpn = 1..Len(rpn)
    /\ \A i \in 1..Len(rpn) :
          /\ vecs[i] \in Seq(Int)
          /\ rpn[i] \notin Operators =>
                Lists(vecs[i], With(rpn[i], held, nd))

\* The truth values for each document after i tokens.
TruthsAt(rpn, held, nd, i) ==
    [d \in 0..nd - 1 |-> Truth(rpn, held[d])[i]]

\* Have the first i tokens found their operands?
Fed(rpn, i) == \A j \in 1..i : Depth(rpn)[j - 1] >= Needs(rpn[j])

\* After each token the loop goes on exactly if all operators have found
\* their operands, and the stack holds what the query means so far.
LEMMA RunMeaning ==
    ASSUME NEW rpn, NEW vecs, NEW held, NEW nd, IsInput(rpn, vecs, held, nd),
           NEW i \in 0..Len(rpn)
    PROVE  LET st == Run(rpn, vecs, nd)[i]
           IN  /\ st \in StackStates
               /\ st.ok <=> Fed(rpn, i)
               /\ st.ok => /\ Len(st.stack) = Depth(rpn)[i]
                           /\ Represents(st.stack, TruthsAt(rpn, held, nd, i), nd)
  <1> DEFINE run == Run(rpn, vecs, nd)
             depth == Depth(rpn)
             t(j) == TruthsAt(rpn, held, nd, j)
             Good(j) == /\ run[j].ok <=> Fed(rpn, j)
                        /\ run[j].ok => /\ Len(run[j].stack) = depth[j]
                                        /\ Represents(run[j].stack, t(j), nd)
             T == {j \in 0..Len(rpn) : Good(j)}
  <1>1. nd \in Nat /\ Len(rpn) \in Nat
    BY DEF IsInput
  <1>2. /\ run[0] = [ok |-> TRUE, stack |-> <<>>]
        /\ \A j \in 0..Len(rpn) : run[j] \in StackStates
        /\ \A j \in 1..Len(rpn) :
              run[j] = EvalToken(run[j - 1], rpn[j], vecs[j], nd)
    BY RunSteps DEF IsInput
  <1>3. /\ depth[0] = 0
        /\ \A j \in 0..Len(rpn) : depth[j] \in Int
        /\ \A j \in 1..Len(rpn) : depth[j] = depth[j - 1] - Needs(rpn[j]) + 1
    BY <1>1, DepthSteps
  <1>4. \A words :
           /\ Truth(rpn, words)[0] = <<>>
           /\ \A j \in 1..Len(rpn) :
                 Truth(rpn, words)[j]
                   = Combine(rpn[j], Truth(rpn, words)[j - 1], words)
    BY <1>1, TruthSteps
  <1>5. 0 \in T
    <2>1. run[0].ok /\ run[0].stack = <<>>
      BY <1>2
    <2>2. Fed(rpn, 0)
      BY DEF Fed
    <2>3. \A d \in 0..nd - 1 : t(0)[d] = <<>>
      BY <1>4 DEF TruthsAt
    <2>4. /\ Len(<<>>) = 0 /\ <<>> \in Seq(BOOLEAN)
          /\ 1..0 = {}
      OBVIOUS
    <2> HIDE DEF t
    <2>5. Represents(<<>>, t(0), nd)
      BY <2>3, <2>4 DEF Represents
    <2>6. Good(0)
      BY <1>3, <2>1, <2>2, <2>4, <2>5
    <2> HIDE DEF Good
    <2> QED BY <1>1, <2>6
  <1>6. ASSUME NEW k \in 0..Len(rpn) - 1, k \in T
        PROVE  k + 1 \in T
    <2> DEFINE j == k + 1
    <2>1. /\ j \in 1..Len(rpn) /\ j \in 0..Len(rpn) /\ j - 1 = k
          /\ k \in 0..Len(rpn) /\ Good(k)
      BY <1>1, <1>6
    <2>2. run[j] = EvalToken(run[k], rpn[j], vecs[j], nd)
      BY <1>2, <2>1
    <2>3. Fed(rpn, j) <=> Fed(rpn, k) /\ depth[k] >= Needs(rpn[j])
      <3>1. \A m \in 1..j : m \in 1..k \/ m = j
        BY <2>1
      <3>2. j \in 1..j /\ \A m \in 1..k : m \in 1..j
        BY <2>1
      <3> QED BY <2>1, <3>1, <3>2 DEF Fed
    <2>4. t(j) = Combined(rpn[j], t(k), held, nd)
      BY <1>4, <2>1 DEF TruthsAt, Combined
    <2> HIDE DEF t, run, depth, j
    <2>5. Good(j)
      <3>1. CASE ~run[k].ok
        <4>1. run[j] = run[k]
          BY <2>2, <3>1, TokenCases
        <4> QED BY <2>1, <2>3, <3>1, <4>1
      <3>2. CASE run[k].ok
        <4>1. /\ Len(run[k].stack) = depth[k]
              /\ Represents(run[k].stack, t(k), nd)
              /\ run[k] \in StackStates
              /\ Fed(rpn, k)
          BY <1>2, <2>1, <3>2
        <4>2. /\ vecs[j] \in Seq(Int)
              /\ rpn[j] \notin Operators =>
                    Lists(vecs[j], With(rpn[j], held, nd))
          BY <2>1 DEF IsInput
        <4>3. /\ run[j].ok <=> Len(run[k].stack) >= Needs(rpn[j])
              /\ run[j].ok =>
                    /\ Represents(run[j].stack, t(j), nd)
                    /\ Len(run[j].stack)
                         = Len(run[k].stack) - Needs(rpn[j]) + 1
          <5> DEFINE st == run[k]
                     new == EvalToken(st, rpn[j], vecs[j], nd)
                     token == rpn[j]
                     u == Combined(token, t(k), held, nd)
          <5>1. /\ st \in StackStates /\ st.ok
                /\ Represents(st.stack, t(k), nd)
                /\ token \notin Operators =>
                      Lists(vecs[j], With(token, held, nd))
            BY <3>2, <4>1, <4>2
          <5> HIDE DEF st, token
          <5>2. /\ new.ok <=> Len(st.stack) >= Needs(token)
                /\ new.ok => /\ Represents(new.stack, u, nd)
                             /\ Len(new.stack)
                                  = Len(st.stack) - Needs(token) + 1
            BY <1>1, <4>2, <5>1, TokenMeaning DEF token
          <5> QED BY <2>2, <2>4, <5>2 DEF st, token
        <4>4. depth[j] = depth[k] - Needs(rpn[j]) + 1
          BY <1>3, <2>1
        <4> QED BY <2>3, <4>1, <4>3, <4>4
      <3> QED BY <3>1, <3>2
    <2> HIDE DEF Good
    <2> QED BY <2>1, <2>5 DEF j
  <1>7. i \in T
    <2> HIDE DEF T
    <2> QED BY <1>1, <1>5, <1>6, Induction
  <1> QED BY <1>2, <1>7

(***************************************************************************)
(* evaluate() against the meaning of queries, for every query, however     *)
(* long, and any number of documents: it returns a vector exactly for the  *)
(* well-formed queries, and then the one that lists the documents which    *)
(* satisfy the query, each once.  No vector along the way is cut off by    *)
(* its capacity and no count in `count` wraps.                             *)
(***************************************************************************)
THEOREM EvaluateExact ==
    ASSUME NEW rpn, NEW vecs, NEW held, NEW nd, IsInput(rpn, vecs, held, nd)
    PROVE  LET result == Evaluate(rpn, vecs, nd)
           IN  /\ result.ok <=> WellFormed(rpn)
               /\ result.ok =>
                     Lists(result.docs,
                           {d \in 0..nd - 1 : Holds(rpn, held[d])})
  <1> DEFINE n == Len(rpn)
             end == Run(rpn, vecs, nd)[n]
             result == Evaluate(rpn, vecs, nd)
             t == TruthsAt(rpn, held, nd, n)
  <1>1. n \in Nat /\ n \in 0..n /\ DOMAIN rpn = 1..n
    BY DEF IsInput
  <1>2. /\ end \in StackStates
        /\ end.ok <=> Fed(rpn, n)
        /\ end.ok => /\ Len(end.stack) = Depth(rpn)[n]
                     /\ Represents(end.stack, t, nd)
    BY <1>1, RunMeaning
  <1>3. WellFormed(rpn) <=> Fed(rpn, n) /\ Depth(rpn)[n] = 1
    BY <1>1 DEF WellFormed, Fed
  <1>4. result = IF end.ok /\ Len(end.stack) = 1
                 THEN [ok |-> TRUE, docs |-> end.stack[1]]
                 ELSE [ok |-> FALSE, docs |-> <<>>]
    BY DEF Evaluate
  <1>5. \A d \in 0..nd - 1 : t[d][1] = Truth(rpn, held[d])[n][1]
    BY DEF TruthsAt
  <1> HIDE DEF end, result, t
  <1>6. result.ok <=> WellFormed(rpn)
    BY <1>2, <1>3, <1>4
  <1>7. ASSUME result.ok
        PROVE  Lists(result.docs, {d \in 0..nd - 1 : Holds(rpn, held[d])})
    <2>1. end.ok /\ Len(end.stack) = 1 /\ result.docs = end.stack[1]
      BY <1>4, <1>7
    <2>2. Lists(end.stack[1], {d \in 0..nd - 1 : t[d][1]})
      <3>1. 1 \in 1..Len(end.stack)
        BY <2>1
      <3> QED BY <1>2, <2>1, <3>1 DEF Represents
    <2>3. {d \in 0..nd - 1 : t[d][1]} = {d \in 0..nd - 1 : Holds(rpn, held[d])}
      BY <1>5 DEF Holds
    <2> QED BY <2>1, <2>2, <2>3
  <1> QED BY <1>6, <1>7 DEF result
=============================================================================
