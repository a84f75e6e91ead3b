-------------------------- MODULE FilteringProofs --------------------------
(***************************************************************************)
(* What is left of a queue that was filtered, for every queue.  The        *)
(* library's induction theorems take an operator, so the induction here is *)
(* over a set of numbers (Induction), from the well-foundedness of <.      *)
(***************************************************************************)
EXTENDS Filtering, SequenceTheorems, WellFoundedInduction, TLAPS

\* A set of natural numbers has a least element.
LEMMA LeastNumber ==
  ASSUME NEW N, N \subseteq Nat, N # {}
  PROVE  \E n \in N : \A m \in N : n <= m
<1> DEFINE R == OpToRel(<, Nat)
<1>1. IsWellFoundedOn(R, Nat)
  BY NatLessThanWellFounded
<1>2. \A x, y \in Nat : <<y, x>> \in R <=> y < x
  BY DEF OpToRel
<1> HIDE DEF R
<1>3. PICK x \in N : \A y \in N : ~(<<y, x>> \in R)
  <2>1. \E x \in N : \A y \in N : ~(<<y, x>> \in R)
    BY <1>1, WFMin
  <2> QED
    BY <2>1
<1>4. \A y \in N : ~(y < x)
  BY <1>2, <1>3, Zenon
<1> QED
  BY <1>4

\* Induction: a set that has 0 and the successor of each of its members has
\* every natural number.
LEMMA Induction ==
  ASSUME NEW N, 0 \in N, \A n \in Nat : n \in N => n + 1 \in N
  PROVE  \A n \in Nat : n \in N
<1>1. SUFFICES ASSUME NEW n \in Nat, n \notin N PROVE FALSE
  OBVIOUS
<1> DEFINE Missing == Nat \ N
<1>2. PICK m \in Missing : \A k \in Missing : m <= k
  <2>1. Missing \subseteq Nat /\ Missing # {}
    BY <1>1
  <2>2. \E m \in Missing : \A k \in Missing : m <= k
    BY <2>1, LeastNumber
  <2> QED
    BY <2>2
<1>3. m - 1 \in Nat /\ m = (m - 1) + 1
  BY <1>2
<1>4. m - 1 \in N
  BY <1>2, <1>3
<1> QED
  BY <1>2, <1>3, <1>4

\* A bounded set of natural numbers has a greatest element.
LEMMA GreatestNumber ==
  ASSUME NEW N, N \subseteq Nat, N # {}, NEW b \in Nat, \A x \in N : x <= b
  PROVE  \E m \in N : \A x \in N : x <= m
<1> DEFINE Bounds == {y \in Nat : \A x \in N : x <= y}
<1>1. PICK m \in Bounds : \A y \in Bounds : m <= y
  <2>1. Bounds \subseteq Nat /\ Bounds # {}
    OBVIOUS
  <2>2. \E m \in Bounds : \A y \in Bounds : m <= y
    <3> HIDE DEF Bounds
    <3> QED
      BY <2>1, LeastNumber
  <2> QED
    BY <2>2
<1>2. m \in N
  <2>1. SUFFICES ASSUME m \notin N PROVE FALSE
    OBVIOUS
  <2>2. \A x \in N : x < m
    BY <1>1, <2>1
  <2>3. m \in Nat /\ m # 0
    <3>1. PICK x \in N : TRUE
      OBVIOUS
    <3>2. x \in Nat /\ m \in Nat /\ x < m
      BY <2>2
    <3> QED
      BY <3>2
  <2>4. m - 1 \in Nat /\ \A x \in N : x <= m - 1
    BY <2>2, <2>3
  <2>5. m - 1 \in Bounds
    BY <2>4
  <2> QED
    BY <1>1, <2>3, <2>5
<1> QED
  BY <1>1, <1>2

\* A function that is defined by its first value and a rule for the next one exists.
LEMMA Recursion ==
  ASSUME NEW S, NEW first \in S, NEW next \in [Nat -> [S -> S]]
  PROVE  \A n \in Nat : \E f \in [1 .. n -> S] :
           \A i \in 1 .. n : f[i] = IF i = 1 THEN first ELSE next[i][f[i - 1]]
<1> DEFINE Solution(n, f) ==
             \A i \in 1 .. n : f[i] = IF i = 1 THEN first ELSE next[i][f[i - 1]]
           N == {n \in Nat : \E f \in [1 .. n -> S] : Solution(n, f)}
<1>1. 0 \in N
  <2>1. [i \in 1 .. 0 |-> first] \in [1 .. 0 -> S] /\ 1 .. 0 = {}
    OBVIOUS
  <2> QED
    BY <2>1
<1>2. ASSUME NEW n \in Nat, n \in N PROVE n + 1 \in N
  <2>1. PICK f \in [1 .. n -> S] : Solution(n, f)
    BY <1>2
  <2> DEFINE last == IF n = 0 THEN first ELSE next[n + 1][f[n]]
             h == [i \in 1 .. n + 1 |-> IF i = n + 1 THEN last ELSE f[i]]
  <2>2. last \in S
    <3>1. CASE n = 0
      BY <3>1
    <3>2. CASE n # 0
      <4>1. n \in 1 .. n
        BY <3>2
      <4>2. f[n] \in S /\ next[n + 1] \in [S -> S]
        BY <4>1
      <4> QED
        BY <3>2, <4>2
    <3> QED
      BY <3>1, <3>2
  <2> HIDE DEF last
  <2>3. h \in [1 .. n + 1 -> S]
    BY <2>2
  <2>4. ASSUME NEW i \in 1 .. n + 1
        PROVE  h[i] = IF i = 1 THEN first ELSE next[i][h[i - 1]]
    <3>1. CASE i = n + 1
      <4>1. h[i] = last
        BY <3>1
      <4>2. CASE n = 0
        BY <3>1, <4>1, <4>2 DEF last
      <4>3. CASE n # 0
        <5>1. i - 1 = n /\ n \in 1 .. n + 1 /\ n # n + 1 /\ i # 1
          BY <3>1, <4>3
        <5>2. h[i - 1] = f[n]
          BY <5>1
        <5> HIDE DEF h
        <5> QED
          BY <3>1, <4>1, <4>3, <5>1, <5>2 DEF last
      <4> QED
        BY <4>2, <4>3
    <3>2. CASE i # n + 1
      <4>1. i \in 1 .. n /\ h[i] = f[i]
        BY <3>2
      <4>2. i # 1 => i - 1 \in 1 .. n + 1 /\ i - 1 # n + 1 /\ h[i - 1] = f[i - 1]
        BY <4>1
      <4> HIDE DEF h
      <4> QED
        BY <2>1, <4>1, <4>2
    <3> QED
      BY <3>1, <3>2
  <2> HIDE DEF h
  <2> QED
    BY <2>3, <2>4
<1> HIDE DEF N
<1>3. \A n \in Nat : n \in N
  BY <1>1, <1>2, Induction
<1> QED
  BY <1>3 DEF N

\* f[n] is what Passing has collected of the first n elements.
Collects(f, s, T) ==
  /\ f[0] = <<>>
  /\ \A n \in 1 .. Len(s) :
       f[n] = IF s[n] \in T THEN Append(f[n - 1], s[n]) ELSE f[n - 1]
  /\ Passing(s, T) = f[Len(s)]

\* The recursive function of Passing exists, so it obeys its definition.
LEMMA PassingPrefixes ==
  ASSUME NEW P, NEW s \in Seq(P), NEW T
  PROVE  \E f : Collects(f, s, T)
<1> DEFINE Rule(f, n) ==
             IF n = 0 THEN <<>>
             ELSE IF s[n] \in T THEN Append(f[n - 1], s[n]) ELSE f[n - 1]
           Solved == {m \in Nat : \E f : f = [n \in 0 .. m |-> Rule(f, n)]}
<1>1. 0 \in Solved
  <2> DEFINE f == [n \in 0 .. 0 |-> <<>>]
  <2>1. f = [n \in 0 .. 0 |-> Rule(f, n)]
    OBVIOUS
  <2> QED
    BY <2>1
<1>2. ASSUME NEW m \in Nat, m \in Solved PROVE m + 1 \in Solved
  <2>1. PICK f : f = [n \in 0 .. m |-> Rule(f, n)]
    BY <1>2
  <2> DEFINE h == [n \in 0 .. m + 1 |-> IF n = m + 1 THEN Rule(f, n) ELSE f[n]]
  <2>2. ASSUME NEW n \in 0 .. m + 1 PROVE h[n] = Rule(h, n)
    <3>1. CASE n = 0
      BY <2>1, <3>1
    <3>2. CASE n # 0
      <4>1. n - 1 \in 0 .. m /\ h[n - 1] = f[n - 1]
        BY <3>2
      <4>2. h[n] = Rule(f, n)
        <5>1. CASE n = m + 1
          BY <5>1
        <5>2. CASE n # m + 1
          <6>1. n \in 0 .. m
            BY <5>2
          <6>2. f[n] = Rule(f, n)
            BY <2>1, <6>1, Zenon
          <6> QED
            BY <5>2, <6>2
        <5> QED
          BY <5>1, <5>2
      <4> QED
        BY <3>2, <4>1, <4>2
    <3> QED
      BY <3>1, <3>2
  <2>3. h = [n \in 0 .. m + 1 |-> h[n]]
    OBVIOUS
  <2> HIDE DEF h
  <2>4. h = [n \in 0 .. m + 1 |-> Rule(h, n)]
    BY <2>2, <2>3
  <2> QED
    BY <2>4
<1>3. PICK g : g = [n \in 0 .. Len(s) |-> Rule(g, n)]
  <2> HIDE DEF Solved
  <2>1. Len(s) \in Nat
    BY LenProperties
  <2>2. Len(s) \in Solved
    BY <1>1, <1>2, <2>1, Induction
  <2> QED
    BY <2>2 DEF Solved
<1> DEFINE f == CHOOSE f : f = [n \in 0 .. Len(s) |-> Rule(f, n)]
<1>4. f = [n \in 0 .. Len(s) |-> Rule(f, n)]
  BY <1>3, Zenon
<1>5. Passing(s, T) = f[Len(s)]
  BY DEF Passing
<1> HIDE DEF f
<1>6. Len(s) \in Nat
  BY LenProperties
<1>7. f[0] = <<>>
  BY <1>4, <1>6
<1>8. ASSUME NEW n \in 1 .. Len(s) PROVE f[n] = Rule(f, n)
  <2>1. n \in 0 .. Len(s)
    BY <1>6
  <2> QED
    BY <1>4, <2>1, Zenon
<1>9. ASSUME NEW n \in 1 .. Len(s)
      PROVE  f[n] = IF s[n] \in T THEN Append(f[n - 1], s[n]) ELSE f[n - 1]
  <2>1. n # 0
    BY <1>6
  <2> QED
    BY <1>8, <2>1, Zenon
<1> QED
  BY <1>5, <1>7, <1>9 DEF Collects

\* q has exactly the elements of s up to place n that belong to T: its k-th
\* is the one at place g[k], and these places ascend.
Places(g, q, s, T, n) ==
  /\ g \in [1 .. Len(q) -> 1 .. n]
  /\ \A j, k \in 1 .. Len(q) : j < k => g[j] < g[k]
  /\ \A k \in 1 .. Len(q) : q[k] = s[g[k]] /\ s[g[k]] \in T
  /\ \A i \in 1 .. n : s[i] \in T => \E k \in 1 .. Len(q) : g[k] = i

\* Filtering keeps every element of T, nothing else, and the order.
THEOREM PassingPlaces ==
  ASSUME NEW P, NEW s \in Seq(P), NEW T
  PROVE  /\ Passing(s, T) \in Seq(P) /\ Len(Passing(s, T)) <= Len(s)
         /\ \E g : Places(g, Passing(s, T), s, T, Len(s))
<1>1. PICK f : Collects(f, s, T)
  <2>1. \E f : Collects(f, s, T)
    BY PassingPrefixes
  <2> QED
    BY <2>1
<1> DEFINE Filtered(n) == /\ f[n] \in Seq(P) /\ Len(f[n]) <= n
                          /\ \E g : Places(g, f[n], s, T, n)
           N == {n \in Nat : n <= Len(s) => Filtered(n)}
<1>2. Len(s) \in Nat /\ \A n \in 1 .. Len(s) : s[n] \in P
  BY LenProperties, ElementOfSeq
<1>3. 0 \in N
  <2> DEFINE g == [k \in 1 .. 0 |-> 0]
  <2>1. f[0] \in Seq(P) /\ Len(f[0]) = 0
    BY <1>1, EmptySeq DEF Collects
  <2>2. Places(g, f[0], s, T, 0)
    BY <2>1 DEF Places
  <2> QED
    BY <2>1, <2>2
<1>4. ASSUME NEW n \in Nat, n \in N PROVE n + 1 \in N
  <2>1. SUFFICES ASSUME n + 1 <= Len(s) PROVE Filtered(n + 1)
    OBVIOUS
  <2>2. n \in 0 .. Len(s) /\ n + 1 \in 1 .. Len(s) /\ (n + 1) - 1 = n
    BY <1>2, <2>1
  <2>3. Filtered(n)
    BY <1>4, <2>2
  <2>4. PICK g : Places(g, f[n], s, T, n)
    BY <2>3
  <2> DEFINE q == f[n]
             e == s[n + 1]
  <2>5. q \in Seq(P) /\ Len(q) \in Nat /\ Len(q) <= n /\ e \in P
    BY <1>2, <2>2, <2>3, LenProperties
  <2>6. CASE e \in T
    <3> DEFINE r == Append(q, e)
               m == Len(q) + 1
               h == [k \in 1 .. m |-> IF k = m THEN n + 1 ELSE g[k]]
    <3>1. f[n + 1] = r
      BY <1>1, <2>2, <2>6 DEF Collects
    <3>2. /\ r \in Seq(P) /\ Len(r) = m /\ m \in Nat /\ r[m] = e
          /\ \A k \in 1 .. Len(q) : r[k] = q[k]
      BY <2>5, AppendProperties
    <3>3. \A k \in 1 .. m : k = m \/ k \in 1 .. Len(q)
      BY <2>5
    <3>4. ASSUME NEW k \in 1 .. Len(q)
          PROVE  k \in 1 .. m /\ k # m /\ h[k] = g[k] /\ g[k] \in 1 .. n
      <4>1. g[k] \in 1 .. n
        BY <2>4 DEF Places
      <4>2. k \in 1 .. m /\ k # m
        BY <2>5
      <4> QED
        BY <4>1, <4>2
    <3>5. m \in 1 .. m /\ h[m] = n + 1
      BY <2>5
    <3> HIDE DEF r, m, h, q, e
    <3>6. h \in [1 .. m -> 1 .. n + 1]
      <4>1. \A k \in 1 .. m : h[k] \in 1 .. n + 1
        BY <3>3, <3>4, <3>5
      <4> QED
        BY <4>1 DEF h
    <3>7. \A j, k \in 1 .. m : j < k => h[j] < h[k]
      <4>1. SUFFICES ASSUME NEW j \in 1 .. m, NEW k \in 1 .. m, j < k PROVE h[j] < h[k]
        OBVIOUS
      <4>2. j \in 1 .. Len(q)
        BY <2>5, <3>2, <4>1 DEF m
      <4>3. CASE k = m
        BY <3>4, <3>5, <4>2, <4>3
      <4>4. CASE k # m
        <5>1. k \in 1 .. Len(q)
          BY <3>3, <4>4
        <5> QED
          BY <2>4, <3>4, <4>1, <4>2, <5>1 DEF Places, q
      <4> QED
        BY <4>3, <4>4
    <3>8. \A k \in 1 .. m : r[k] = s[h[k]] /\ s[h[k]] \in T
      <4>1. TAKE k \in 1 .. m
      <4>2. CASE k = m
        BY <2>6, <3>2, <3>5, <4>2 DEF e
      <4>3. CASE k # m
        <5>1. k \in 1 .. Len(q)
          BY <3>3, <4>3
        <5> QED
          BY <2>4, <3>2, <3>4, <5>1 DEF Places, q
      <4> QED
        BY <4>2, <4>3
    <3>9. \A i \in 1 .. n + 1 : s[i] \in T => \E k \in 1 .. m : h[k] = i
      <4>1. SUFFICES ASSUME NEW i \in 1 .. n + 1, s[i] \in T PROVE \E k \in 1 .. m : h[k] = i
        OBVIOUS
      <4>2. CASE i = n + 1
        BY <3>5, <4>2
      <4>3. CASE i # n + 1
        <5>1. i \in 1 .. n
          BY <4>3
        <5>2. PICK k \in 1 .. Len(q) : g[k] = i
          BY <2>4, <4>1, <5>1 DEF Places, q
        <5> QED
          BY <3>4, <5>2
      <4> QED
        BY <4>2, <4>3
    <3>10. Places(h, r, s, T, n + 1)
      BY <3>2, <3>6, <3>7, <3>8, <3>9 DEF Places
    <3>11. Len(r) <= n + 1
      BY <2>5, <3>2 DEF m
    <3> QED
      BY <3>1, <3>2, <3>10, <3>11
  <2>7. CASE e \notin T
    <3>1. f[n + 1] = q
      BY <1>1, <2>2, <2>7 DEF Collects
    <3> HIDE DEF q
    <3>2. Places(g, q, s, T, n + 1)
      <4>1. \A i \in 1 .. n + 1 : i = n + 1 \/ i \in 1 .. n
        OBVIOUS
      <4>2. g \in [1 .. Len(q) -> 1 .. n + 1]
        BY <2>4 DEF Places, q
      <4> QED
        BY <2>4, <2>7, <4>1, <4>2 DEF Places, q
    <3> QED
      BY <2>5, <3>1, <3>2
  <2> QED
    BY <2>6, <2>7
<1>5. Len(s) \in N
  <2> HIDE DEF N
  <2> QED
    BY <1>2, <1>3, <1>4, Induction
<1>6. Filtered(Len(s))
  BY <1>2, <1>5
<1> QED
  BY <1>1, <1>6 DEF Collects

=============================================================================
