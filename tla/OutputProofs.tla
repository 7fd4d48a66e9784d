---------------------------- MODULE OutputProofs ----------------------------
(***************************************************************************)
(* The way from the speech to the application: the choice of the           *)
(* provider (Providers), its results (SpeechToText), what becomes of the   *)
(* transcript (TextPipeline) and the injection of the text (Injection).    *)
(***************************************************************************)
EXTENDS Picks, Injection, Providers, SpeechToText, TextPipeline,
        FiniteSetTheorems, WellFoundedInduction, SequenceTheorems, TLAPS

-----------------------------------------------------------------------------
(***************************************************************************)
(* What the proofs need of sets of numbers, by the well-ordering of the    *)
(* naturals, of Picks and of recursive functions.                          *)
(***************************************************************************)

\* A set of numbers has a least element.
LEMMA LeastElement ==
  ASSUME NEW T \in SUBSET Nat, T # {}
  PROVE  \E m \in T : \A k \in T : m <= k
<1> DEFINE R == {ss \in Nat \X Nat : ss[1] < ss[2]}
<1>1. IsWellFoundedOn(R, Nat)
  BY NatLessThanWellFounded, Zenon DEF OpToRel
<1>2. PICK x \in T : \A y \in T : ~ (<<y, x>> \in R)
  <2> HIDE DEF R
  <2> QED BY <1>1, WFMin
<1>3. \A y \in T : ~ (y < x)
  BY <1>2
<1> QED BY <1>3

\* Induction, for a property that is a set of numbers.
LEMMA SetInduction ==
  ASSUME NEW T \in SUBSET Nat, 0 \in T, \A n \in T : n + 1 \in T
  PROVE  T = Nat
<1> SUFFICES ASSUME Nat \ T # {} PROVE FALSE
  OBVIOUS
<1>1. PICK m \in Nat \ T : \A k \in Nat \ T : m <= k
  BY LeastElement
<1>2. m - 1 \in T
  BY <1>1
<1> QED BY <1>1, <1>2

\* PickUpto is what its definition says: the recursion has a solution, built from
\* the front.
LEMMA PickUptoExists ==
  ASSUME NEW s, Len(s) \in Nat, NEW K
  PROVE  PickUpto(s, K) = [n \in 0..Len(s) |->
             IF n = 0 THEN <<>>
             ELSE IF n \in K THEN Append(PickUpto(s, K)[n - 1], s[n]) ELSE PickUpto(s, K)[n - 1]]
<1> DEFINE Then(f, n) == IF n \in K THEN Append(f[n - 1], s[n]) ELSE f[n - 1]
           Body(f)    == [n \in 0..Len(s) |-> IF n = 0 THEN <<>> ELSE Then(f, n)]
           Good(f, n) == /\ f = [k \in 0..n |-> f[k]] /\ f[0] = <<>>
                         /\ \A k \in 1..n : f[k] = Then(f, k)
           T == {n \in Nat : \E f : Good(f, n)}
<1>1. 0 \in T
  <2>1. Good([k \in 0..0 |-> <<>>], 0)
    OBVIOUS
  <2> QED BY <2>1
<1>2. ASSUME NEW n \in T PROVE n + 1 \in T
  <2>1. PICK f : Good(f, n)
    BY <1>2
  <2> DEFINE g == [k \in 0..(n + 1) |-> IF k = n + 1 THEN Then(f, n + 1) ELSE f[k]]
  <2>2. n \in Nat /\ g = [k \in 0..(n + 1) |-> g[k]] /\ g[0] = <<>>
    BY <1>2, <2>1
  <2>3. ASSUME NEW k \in 1..(n + 1) PROVE g[k] = Then(g, k)
    <3>1. k - 1 \in 0..n /\ g[k - 1] = f[k - 1]
      BY <2>2
    <3>2. CASE k = n + 1
      BY <2>2, <3>1, <3>2
    <3>3. CASE k # n + 1
      <4>1. k \in 1..n /\ g[k] = f[k]
        BY <2>2, <3>3
      <4>2. f[k] = Then(f, k)
        <5> HIDE DEF Then
        <5> QED BY <2>1, <4>1
      <4> QED BY <3>1, <4>1, <4>2
    <3> QED BY <3>2, <3>3
  <2>4. Good(g, n + 1)
    <3> HIDE DEF g, Then
    <3> QED BY <2>2, <2>3
  <2> HIDE DEF g, Good
  <2> QED BY <2>2, <2>4
<1>3. T = Nat
  <2> HIDE DEF T
  <2>1. T \in SUBSET Nat
    BY DEF T
  <2> QED BY <1>1, <1>2, <2>1, SetInduction
<1>4. PICK f : Good(f, Len(s))
  BY <1>3
<1>5. f = Body(f)
  <2>1. f = [n \in 0..Len(s) |-> f[n]]
    BY <1>4
  <2>2. \A n \in 0..Len(s) : f[n] = IF n = 0 THEN <<>> ELSE Then(f, n)
    <3> HIDE DEF Then
    <3> QED BY <1>4
  <2> HIDE DEF Then, Good
  <2> QED BY <2>1, <2>2
<1>6. PickUpto(s, K) = CHOOSE g : g = Body(g)
  BY DEF PickUpto
<1>7. (CHOOSE g : g = Body(g)) = Body(CHOOSE g : g = Body(g))
  <2> HIDE DEF Body
  <2> QED BY <1>5
<1>8. PickUpto(s, K) = Body(PickUpto(s, K))
  <2> HIDE DEF Body
  <2> QED BY <1>6, <1>7
<1> QED BY <1>8

\* The steps of the recursion.
LEMMA PickUptoSteps ==
  ASSUME NEW X, NEW s \in Seq(X), NEW K
  PROVE  /\ PickUpto(s, K) \in [0..Len(s) -> Seq(X)]
         /\ PickUpto(s, K)[0] = <<>>
         /\ \A n \in 1..Len(s) : PickUpto(s, K)[n] =
               IF n \in K THEN Append(PickUpto(s, K)[n - 1], s[n]) ELSE PickUpto(s, K)[n - 1]
<1> DEFINE p == PickUpto(s, K)
           N == Len(s)
<1>1. N \in Nat
  BY LenProperties
<1>2. p = [n \in 0..N |-> IF n = 0 THEN <<>>
                          ELSE IF n \in K THEN Append(p[n - 1], s[n]) ELSE p[n - 1]]
  BY <1>1, PickUptoExists
<1> HIDE DEF p
<1>3. DOMAIN p = 0..N /\ p[0] = <<>>
      /\ \A n \in 1..N : p[n] = IF n \in K THEN Append(p[n - 1], s[n]) ELSE p[n - 1]
  <2> DEFINE e(n) == IF n \in K THEN Append(p[n - 1], s[n]) ELSE p[n - 1]
  <2>1. p = [n \in 0..N |-> IF n = 0 THEN <<>> ELSE e(n)]
    BY <1>2
  <2> HIDE DEF e
  <2>2. DOMAIN p = 0..N /\ p[0] = <<>> /\ \A n \in 1..N : p[n] = e(n)
    BY <1>1, <2>1
  <2> QED BY <2>2 DEF e
<1>4. p = [n \in 0..N |-> p[n]]
  BY <1>2
<1> DEFINE T == {n \in Nat : n <= N => p[n] \in Seq(X)}
<1>5. 0 \in T
  BY <1>3
<1>6. ASSUME NEW n \in T PROVE n + 1 \in T
  <2> SUFFICES ASSUME n + 1 <= N PROVE p[n + 1] \in Seq(X)
    OBVIOUS
  <2>1. n + 1 \in 1..N /\ (n + 1) - 1 = n /\ p[n] \in Seq(X)
    BY <1>1, <1>6
  <2>2. s[n + 1] \in X
    BY <2>1, ElementOfSeq
  <2>3. Append(p[n], s[n + 1]) \in Seq(X)
    BY <2>1, <2>2
  <2> QED BY <1>3, <2>1, <2>3
<1>7. T = Nat
  <2>1. T \in SUBSET Nat
    OBVIOUS
  <2> HIDE DEF T
  <2> QED BY <1>5, <1>6, <2>1, SetInduction
<1>8. \A n \in 0..N : p[n] \in Seq(X)
  BY <1>1, <1>7
<1>9. p \in [0..N -> Seq(X)]
  <2> HIDE DEF N
  <2> QED BY <1>3, <1>4, <1>8
<1> QED BY <1>3, <1>9 DEF p

\* t goes on where s ends.
Begins(s, t) == Len(s) <= Len(t) /\ \A i \in 1..Len(s) : t[i] = s[i]

\* What is picked of the first m elements begins what is picked of the first n.
LEMMA PickUptoPrefix ==
  ASSUME NEW X, NEW s \in Seq(X), NEW K
  PROVE  \A m, n \in 0..Len(s) : m <= n => Begins(PickUpto(s, K)[m], PickUpto(s, K)[n])
<1> SUFFICES ASSUME NEW m \in 0..Len(s), NEW n \in 0..Len(s), m <= n
             PROVE  Begins(PickUpto(s, K)[m], PickUpto(s, K)[n])
  OBVIOUS
<1> DEFINE p == PickUpto(s, K)
           N == Len(s)
           T == {d \in Nat : m + d <= N =>
                    /\ Len(p[m]) <= Len(p[m + d])
                    /\ \A i \in 1..Len(p[m]) : p[m + d][i] = p[m][i]}
<1>1. N \in Nat /\ m \in Nat
  BY LenProperties
<1>2. p \in [0..N -> Seq(X)]
      /\ \A k \in 1..N : p[k] = IF k \in K THEN Append(p[k - 1], s[k]) ELSE p[k - 1]
  BY PickUptoSteps
<1> HIDE DEF p, N
<1>3. \A k \in 0..N : p[k] \in Seq(X) /\ Len(p[k]) \in Nat
  BY <1>2
<1>4. 0 \in T
  <2>1. m + 0 = m /\ m \in 0..N
    BY <1>1 DEF N
  <2> QED BY <1>3, <2>1
<1>5. ASSUME NEW d \in T PROVE d + 1 \in T
  <2> SUFFICES ASSUME m + (d + 1) <= N
               PROVE  /\ Len(p[m]) <= Len(p[m + (d + 1)])
                      /\ \A i \in 1..Len(p[m]) : p[m + (d + 1)][i] = p[m][i]
    OBVIOUS
  <2>1. m + (d + 1) \in 1..N /\ (m + (d + 1)) - 1 = m + d /\ m + d \in 0..N /\ m \in 0..N
    BY <1>1, <1>5
  <2>2. /\ Len(p[m]) <= Len(p[m + d])
        /\ \A i \in 1..Len(p[m]) : p[m + d][i] = p[m][i]
    BY <1>1, <1>5, <2>1
  <2> DEFINE k == m + (d + 1)
             q == p[m + d]
  <2>3. p[k] = IF k \in K THEN Append(q, s[k]) ELSE q
    BY <1>2, <2>1
  <2>4. q \in Seq(X) /\ Len(q) \in Nat /\ Len(p[m]) \in Nat
    BY <1>3, <2>1
  <2> HIDE DEF k, q
  <2>5. Len(q) <= Len(p[k]) /\ \A i \in 1..Len(q) : p[k][i] = q[i]
    BY <2>3, <2>4
  <2>6. Len(p[m]) <= Len(p[k]) /\ \A i \in 1..Len(p[m]) : p[k][i] = p[m][i]
    BY <2>2, <2>3, <2>4, <2>5 DEF q
  <2> QED BY <2>6 DEF k
<1>6. T = Nat
  <2>1. T \in SUBSET Nat
    OBVIOUS
  <2> HIDE DEF T
  <2> QED BY <1>4, <1>5, <2>1, SetInduction
<1>7. n - m \in Nat /\ m + (n - m) = n /\ n <= N /\ n \in 0..N /\ m \in 0..N
  BY <1>1 DEF N
<1>8. /\ Len(p[m]) <= Len(p[n])
      /\ \A i \in 1..Len(p[m]) : p[n][i] = p[m][i]
  BY <1>6, <1>7
<1> QED BY <1>8 DEF p, Begins

\* K and J pick the same of the first n elements of s and of t.
Agree(s, K, t, J, n) ==
    \A i \in 1..n : (i \in K <=> i \in J) /\ (i \in K => s[i] = t[i])

LEMMA PickUptoSame ==
  ASSUME NEW X, NEW s \in Seq(X), NEW t \in Seq(X), NEW K, NEW J,
         NEW n \in Nat, n <= Len(s), n <= Len(t),
         Agree(s, K, t, J, n)
  PROVE  PickUpto(s, K)[n] = PickUpto(t, J)[n]
<1> DEFINE p == PickUpto(s, K)
           q == PickUpto(t, J)
           T == {m \in Nat : m <= n => p[m] = q[m]}
<1>1. Len(s) \in Nat /\ Len(t) \in Nat
  BY LenProperties
<1>2. p[0] = <<>> /\ \A k \in 1..Len(s) : p[k] = IF k \in K THEN Append(p[k - 1], s[k]) ELSE p[k - 1]
  BY PickUptoSteps
<1>3. q[0] = <<>> /\ \A k \in 1..Len(t) : q[k] = IF k \in J THEN Append(q[k - 1], t[k]) ELSE q[k - 1]
  BY PickUptoSteps
<1> HIDE DEF p, q
<1>4. 0 \in T
  BY <1>2, <1>3
<1>5. ASSUME NEW m \in T PROVE m + 1 \in T
  <2> SUFFICES ASSUME m + 1 <= n PROVE p[m + 1] = q[m + 1]
    OBVIOUS
  <2>1. /\ m + 1 \in 1..n /\ m + 1 \in 1..Len(s) /\ m + 1 \in 1..Len(t)
        /\ (m + 1) - 1 = m /\ p[m] = q[m]
    BY <1>1, <1>5
  <2>2. p[m + 1] = IF m + 1 \in K THEN Append(p[m], s[m + 1]) ELSE p[m]
    BY <1>2, <2>1
  <2>3. q[m + 1] = IF m + 1 \in J THEN Append(q[m], t[m + 1]) ELSE q[m]
    BY <1>3, <2>1
  <2>4. (m + 1 \in K <=> m + 1 \in J) /\ (m + 1 \in K => s[m + 1] = t[m + 1])
    BY <2>1 DEF Agree
  <2> QED BY <2>1, <2>2, <2>3, <2>4
<1>6. T = Nat
  <2>1. T \in SUBSET Nat
    OBVIOUS
  <2> HIDE DEF T
  <2> QED BY <1>4, <1>5, <2>1, SetInduction
<1> QED BY <1>6 DEF p, q

\* f tells where the elements of t come from: places of s, in order, of which none
\* in K is missing.
ComesFrom(f, s, K, n, t) ==
    /\ f \in [1..Len(t) -> 1..n]
    /\ \A j \in 1..Len(t) : f[j] \in K /\ t[j] = s[f[j]]
    /\ \A j, k \in 1..Len(t) : j < k => f[j] < f[k]
    /\ \A i \in 1..n : i \in K => \E j \in 1..Len(t) : f[j] = i

LEMMA PickUptoPlaces ==
  ASSUME NEW X, NEW s \in Seq(X), NEW K
  PROVE  \A n \in 0..Len(s) : \E f : ComesFrom(f, s, K, n, PickUpto(s, K)[n])
<1> DEFINE p == PickUpto(s, K)
           N == Len(s)
           T == {n \in Nat : n <= N => \E f : ComesFrom(f, s, K, n, p[n])}
<1>1. N \in Nat
  BY LenProperties
<1>2. /\ p \in [0..N -> Seq(X)] /\ p[0] = <<>>
      /\ \A k \in 1..N : p[k] = IF k \in K THEN Append(p[k - 1], s[k]) ELSE p[k - 1]
  BY PickUptoSteps
<1> HIDE DEF p, N
<1>3. 0 \in T
  <2>1. ComesFrom([j \in 1..0 |-> 0], s, K, 0, p[0])
    BY <1>2 DEF ComesFrom
  <2> QED BY <2>1
<1>4. ASSUME NEW n \in T PROVE n + 1 \in T
  <2> SUFFICES ASSUME n + 1 <= N PROVE \E f : ComesFrom(f, s, K, n + 1, p[n + 1])
    OBVIOUS
  <2> DEFINE t == p[n]
             m == Len(t)
  <2>1. n \in Nat /\ n + 1 \in 1..N /\ (n + 1) - 1 = n /\ n \in 0..N /\ n <= N
    BY <1>1, <1>4
  <2>2. t \in Seq(X) /\ m \in Nat
    BY <1>2, <2>1, LenProperties
  <2>3. PICK f : ComesFrom(f, s, K, n, t)
    BY <1>4, <2>1
  <2>4. p[n + 1] = IF n + 1 \in K THEN Append(t, s[n + 1]) ELSE t
    BY <1>2, <2>1
  <2> HIDE DEF t, m
  <2>5. /\ f \in [1..m -> 1..n]
        /\ \A j \in 1..m : f[j] \in K /\ t[j] = s[f[j]]
        /\ \A j, k \in 1..m : j < k => f[j] < f[k]
        /\ \A i \in 1..n : i \in K => \E j \in 1..m : f[j] = i
    BY <2>3 DEF ComesFrom, m
  <2>6. CASE n + 1 \notin K
    <3>1. f \in [1..m -> 1..(n + 1)]
      BY <2>1, <2>2, <2>5
    <3>2. \A i \in 1..(n + 1) : i \in K => \E j \in 1..m : f[j] = i
      BY <2>1, <2>5, <2>6
    <3>3. ComesFrom(f, s, K, n + 1, t)
      BY <2>5, <3>1, <3>2 DEF ComesFrom, m
    <3> QED BY <2>4, <2>6, <3>3
  <2>7. CASE n + 1 \in K
    <3> DEFINE u == Append(t, s[n + 1])
               g == [j \in 1..(m + 1) |-> IF j = m + 1 THEN n + 1 ELSE f[j]]
    <3>1. s[n + 1] \in X
      BY <2>1, ElementOfSeq DEF N
    <3>2. Len(u) = m + 1 /\ u[m + 1] = s[n + 1] /\ \A j \in 1..m : u[j] = t[j]
      BY <2>2, <3>1 DEF m
    <3>3. g \in [1..(m + 1) -> 1..(n + 1)] /\ g[m + 1] = n + 1 /\ \A j \in 1..m : g[j] = f[j]
      BY <2>1, <2>2, <2>5
    <3> HIDE DEF u, g
    <3>4. \A j \in 1..(m + 1) : j = m + 1 \/ j \in 1..m
      BY <2>2
    <3>5. \A j \in 1..(m + 1) : g[j] \in K /\ u[j] = s[g[j]]
      BY <2>5, <2>7, <3>2, <3>3, <3>4
    <3>6. \A j, k \in 1..(m + 1) : j < k => g[j] < g[k]
      <4> SUFFICES ASSUME NEW j \in 1..(m + 1), NEW k \in 1..(m + 1), j < k PROVE g[j] < g[k]
        OBVIOUS
      <4>1. j \in 1..m /\ g[j] = f[j] /\ f[j] \in 1..n
        BY <2>2, <2>5, <3>3
      <4>2. CASE k = m + 1
        BY <2>1, <3>3, <4>1, <4>2
      <4>3. CASE k \in 1..m
        BY <2>5, <3>3, <4>1, <4>3
      <4> QED BY <3>4, <4>2, <4>3
    <3>7. \A i \in 1..(n + 1) : i \in K => \E j \in 1..(m + 1) : g[j] = i
      <4> SUFFICES ASSUME NEW i \in 1..(n + 1), i \in K PROVE \E j \in 1..(m + 1) : g[j] = i
        OBVIOUS
      <4>1. CASE i = n + 1
        BY <2>2, <3>3, <4>1
      <4>2. CASE i # n + 1
        <5>1. PICK j \in 1..m : f[j] = i
          BY <2>1, <2>5, <4>2
        <5> QED BY <2>2, <3>3, <5>1
      <4> QED BY <4>1, <4>2
    <3>8. ComesFrom(g, s, K, n + 1, u)
      BY <3>2, <3>3, <3>5, <3>6, <3>7 DEF ComesFrom
    <3> QED BY <2>4, <2>7, <3>8 DEF u
  <2> QED BY <2>6, <2>7
<1>5. T = Nat
  <2>1. T \in SUBSET Nat
    OBVIOUS
  <2> HIDE DEF T
  <2> QED BY <1>3, <1>4, <2>1, SetInduction
<1>6. \A n \in 0..N : \E f : ComesFrom(f, s, K, n, p[n])
  BY <1>1, <1>5
<1> QED BY <1>6 DEF p, N

\* What Pick returns.
LEMMA PickPlaces ==
  ASSUME NEW X, NEW s \in Seq(X), NEW K
  PROVE  /\ Pick(s, K) \in Seq(X)
         /\ \E f : ComesFrom(f, s, K, Len(s), Pick(s, K))
<1>1. Len(s) \in 0..Len(s)
  BY LenProperties
<1>2. PickUpto(s, K) \in [0..Len(s) -> Seq(X)]
  BY PickUptoSteps
<1> QED BY <1>1, <1>2, PickUptoPlaces DEF Pick

\* A selection is shorter, or the same.
LEMMA PickShortens ==
  ASSUME NEW X, NEW s \in Seq(X), NEW K
  PROVE  Pick(s, K) = s \/ Len(Pick(s, K)) < Len(s)
<1> DEFINE p == PickUpto(s, K)
           N == Len(s)
           Same(t, n) == Len(t) = n /\ \A i \in 1..n : t[i] = s[i]
           T == {n \in Nat : n <= N => Same(p[n], n) \/ Len(p[n]) < n}
<1>1. N \in Nat
  BY LenProperties
<1>2. /\ p \in [0..N -> Seq(X)] /\ p[0] = <<>>
      /\ \A k \in 1..N : p[k] = IF k \in K THEN Append(p[k - 1], s[k]) ELSE p[k - 1]
  BY PickUptoSteps
<1>3. \A k \in 1..N : s[k] \in X
  BY ElementOfSeq
<1> HIDE DEF p, N
<1>4. 0 \in T
  BY <1>2
<1>5. ASSUME NEW n \in T PROVE n + 1 \in T
  <2> SUFFICES ASSUME n + 1 <= N
               PROVE  Same(p[n + 1], n + 1) \/ Len(p[n + 1]) < n + 1
    <3> HIDE DEF Same
    <3> QED BY <1>5
  <2> DEFINE t == p[n]
             x == s[n + 1]
  <2>1. n \in Nat /\ n + 1 \in 1..N /\ (n + 1) - 1 = n /\ n \in 0..N /\ n <= N
    BY <1>1, <1>5
  <2>2. Same(t, n) \/ Len(t) < n
    <3> HIDE DEF Same
    <3> QED BY <1>5, <2>1
  <2>3. p[n + 1] = IF n + 1 \in K THEN Append(t, x) ELSE t
    BY <1>2, <2>1
  <2>4. t \in Seq(X) /\ x \in X /\ Len(t) \in Nat
    BY <1>2, <1>3, <2>1, LenProperties
  <2> HIDE DEF t
  <2>5. CASE Len(t) < n \/ n + 1 \notin K
    BY <2>1, <2>2, <2>3, <2>4, <2>5
  <2>6. CASE Same(t, n) /\ n + 1 \in K
    <3> DEFINE u == Append(t, x)
    <3>1. Len(u) = n + 1 /\ u[n + 1] = x /\ \A i \in 1..n : u[i] = t[i]
      BY <2>1, <2>4, <2>6
    <3> HIDE DEF u
    <3>2. \A i \in 1..(n + 1) : i \in 1..n \/ i = n + 1
      BY <2>1
    <3>3. Same(u, n + 1)
      BY <2>6, <3>1, <3>2
    <3> QED BY <2>3, <2>6, <3>3 DEF u
  <2> QED BY <2>2, <2>5, <2>6
<1>6. T = Nat
  <2>1. T \in SUBSET Nat
    OBVIOUS
  <2> HIDE DEF T
  <2> QED BY <1>4, <1>5, <2>1, SetInduction
<1>7. p[N] = s \/ Len(p[N]) < N
  <2>1. N \in T /\ N <= N
    <3> HIDE DEF T
    <3> QED BY <1>1, <1>6
  <2>2. Same(p[N], N) \/ Len(p[N]) < N
    <3> HIDE DEF Same
    <3> QED BY <2>1
  <2>3. Same(p[N], N) => p[N] = s
    <3>1. p[N] \in Seq(X)
      BY <1>1, <1>2
    <3> QED BY <1>1, <3>1, SeqEqual DEF N
  <2> HIDE DEF Same
  <2> QED BY <2>2, <2>3
<1> QED BY <1>7 DEF Pick, p, N

\* g begins with b, and goes on as F says.
Recurs(g, N, b, F) == g = [n \in 0..N |-> IF n = 0 THEN b ELSE F[n][g[n - 1]]]

\* A recursion on 0..N has a solution.
LEMMA RecursionExists ==
  ASSUME NEW N \in Nat, NEW S, NEW b \in S, NEW F \in [1..N -> [S -> S]]
  PROVE  \E g \in [0..N -> S] : Recurs(g, N, b, F)
<1> DEFINE Good(g, m) == /\ g \in [0..m -> S] /\ g[0] = b
                         /\ \A n \in 1..m : g[n] = F[n][g[n - 1]]
           T == {m \in Nat : m <= N => \E g : Good(g, m)}
<1>1. 0 \in T
  <2>1. Good([k \in 0..0 |-> b], 0)
    OBVIOUS
  <2> QED BY <2>1
<1>2. ASSUME NEW m \in T PROVE m + 1 \in T
  <2> SUFFICES ASSUME m + 1 <= N PROVE \E g : Good(g, m + 1)
    <3> HIDE DEF Good
    <3> QED BY <1>2
  <2>0. m \in Nat /\ m + 1 \in 1..N /\ m <= N
    BY <1>2
  <2>1. PICK f : Good(f, m)
    <3> HIDE DEF Good
    <3> QED BY <1>2, <2>0
  <2> DEFINE g == [k \in 0..(m + 1) |-> IF k = m + 1 THEN F[m + 1][f[m]] ELSE f[k]]
  <2>2. m \in Nat /\ m + 1 \in 1..N /\ f[m] \in S
    BY <2>0, <2>1
  <2>3. F[m + 1][f[m]] \in S
    BY <2>2
  <2>4. g \in [0..(m + 1) -> S] /\ g[0] = b /\ g[m + 1] = F[m + 1][f[m]]
        /\ \A k \in 0..m : g[k] = f[k]
    BY <2>1, <2>2, <2>3
  <2> HIDE DEF g
  <2>5. ASSUME NEW n \in 1..(m + 1) PROVE g[n] = F[n][g[n - 1]]
    <3>1. n - 1 \in 0..m /\ g[n - 1] = f[n - 1]
      BY <2>2, <2>4
    <3>2. CASE n = m + 1
      <4>1. n - 1 = m
        BY <2>2, <3>2
      <4> QED BY <2>4, <3>1, <3>2, <4>1
    <3>3. CASE n # m + 1
      <4>1. n \in 1..m /\ n \in 0..m
        BY <2>2, <3>3
      <4> QED BY <2>1, <2>4, <3>1, <4>1
    <3> QED BY <3>2, <3>3
  <2>6. Good(g, m + 1)
    BY <2>4, <2>5
  <2> HIDE DEF Good
  <2> QED BY <2>6
<1>3. T = Nat
  <2>1. T \in SUBSET Nat
    OBVIOUS
  <2> HIDE DEF T
  <2> QED BY <1>1, <1>2, <2>1, SetInduction
<1>4. PICK g : Good(g, N)
  <2>1. N \in T
    <3> HIDE DEF T
    <3> QED BY <1>3
  <2> HIDE DEF Good
  <2> QED BY <2>1
<1>5. g = [n \in 0..N |-> IF n = 0 THEN b ELSE F[n][g[n - 1]]]
  <2>1. g = [n \in 0..N |-> g[n]]
    BY <1>4
  <2>2. \A n \in 0..N : g[n] = IF n = 0 THEN b ELSE F[n][g[n - 1]]
    BY <1>4
  <2> QED BY <2>1, <2>2
<1> QED BY <1>4, <1>5 DEF Recurs

-----------------------------------------------------------------------------
(***************************************************************************)
(* For any contents and any number of injections, of which any number may  *)
(* be stuck: the injector's state has its type, the clipboard is kept and  *)
(* the transcript pasted.  The invariant follows one injection from place  *)
(* to place, and says that injections which overlap are known to.          *)
(***************************************************************************)

Active(k) == place[k] \notin {"new", "done"}

\* At most one thread is about to replace the clipboard.
OneReads ==
    \A j, k \in Injs : place[j] \in {"read", "set"} /\ place[k] \in {"read", "set"} => j = k

\* Threads that overlap are in mixed; if nothing is lost none do.
OverlapKnown ==
    \A j, k \in Injs : Active(j) /\ Active(k) /\ j # k => k \in mixed /\ lost

\* Nothing is lost: the user's clipboard is in place, or kept for the restore.
ClipKnown ==
    ~lost => /\ (\A k \in Injs : ~Active(k)) => clip = latest
             /\ \A k \in Injs :
                  /\ place[k] \in {"read", "set"} => clip = latest
                  /\ place[k] = "set" /\ keep[k] => prior[k] \in {Skip, latest}
                  /\ place[k] \in {"focus", "paste", "settle", "restore"}
                       => keep[k] /\ prior[k] = latest

\* The transcript is in the clipboard as long as it may still be pasted.
TextKnown ==
    \A k \in Injs \ mixed :
       /\ place[k] \in {"focus", "paste", "settle"} => clip = k
       /\ place[k] = "restore" => taken[k] # Nothing
       /\ taken[k] \in {Nothing, k}

\* What is restored has been read.
Restorable == \A k \in Injs : place[k] = "restore" => prior[k] # Skip

InjTyped == InjTypeOK /\ Restorable

InjInv == InjTyped /\ OneReads /\ OverlapKnown /\ ClipKnown /\ TextKnown

\* Contents, places and sets of injections.
LEMMA InjTypeStep == InjTyped /\ [InjNext]_injVars => InjTyped'
<1> SUFFICES ASSUME InjTyped, [InjNext]_injVars PROVE InjTyped'
    OBVIOUS
<1> USE DEF InjTyped, Restorable, InjTypeOK, Moves
<1>1. CASE UNCHANGED injVars
  BY <1>1 DEF injVars
<1>2. ASSUME NEW k \in Injs, InjBegins(k) PROVE InjTyped'
  BY <1>2 DEF InjBegins
<1>3. ASSUME NEW k \in Injs, ReadPrior(k) PROVE InjTyped'
  BY <1>3 DEF ReadPrior, Content
<1>4. ASSUME NEW k \in Injs, SetText(k) \/ SetFails(k) \/ Focus(k) PROVE InjTyped'
  BY <1>4 DEF SetText, SetFails, Focus, Content
<1>5. ASSUME NEW k \in Injs, Paste(k) \/ PasteFails(k) \/ TakesPaste(k) PROVE InjTyped'
  BY <1>5 DEF Paste, PasteFails, TakesPaste
<1>6. ASSUME NEW k \in Injs, Settles(k) PROVE InjTyped'
  BY <1>6 DEF Settles
<1>7. ASSUME NEW k \in Injs, Restore(k) PROVE InjTyped'
  <2>1. place[k] = "restore" /\ prior[k] \in Content
    BY <1>7 DEF Restore
  <2>2. clip' \in Content
    BY <1>7, <2>1 DEF Restore, Content
  <2>3. lost' \in BOOLEAN
    BY <1>7 DEF Restore
  <2> QED
    BY <1>7, <2>2, <2>3 DEF Restore
<1>8. ASSUME NEW c \in Texts \cup Images, Copies(c) PROVE InjTyped'
  BY <1>8 DEF Copies, Counting, Content
<1> QED
  BY <1>1, <1>2, <1>3, <1>4, <1>5, <1>6, <1>7, <1>8 DEF InjNext, Inject

\* Every step keeps the rest of the invariant.
LEMMA InjStep == InjInv /\ [InjNext]_injVars => InjInv'
<1> SUFFICES ASSUME InjInv, [InjNext]_injVars PROVE InjInv'
    OBVIOUS
<1>t. InjTyped /\ InjTyped'
  BY InjTypeStep DEF InjInv
<1> DEFINE Kept == OneReads' /\ OverlapKnown' /\ ClipKnown' /\ TextKnown'
<1> SUFFICES Kept
  BY <1>t DEF InjInv
<1>i. /\ OneReads /\ OverlapKnown /\ ClipKnown /\ TextKnown
      /\ place \in [Injs -> {"new", "read", "set", "focus", "paste", "settle", "restore", "done"}]
      /\ keep \in [Injs -> BOOLEAN] /\ prior \in [Injs -> Content \cup {Skip}]
      /\ taken \in [Injs -> Content] /\ lost \in BOOLEAN /\ mixed \subseteq Injs
  BY <1>t DEF InjInv, InjTyped, InjTypeOK
<1> USE <1>i DEF Moves, Active, OneReads, OverlapKnown, ClipKnown, TextKnown
<1>1. CASE UNCHANGED injVars
  BY <1>1 DEF injVars
<1>2. ASSUME NEW k \in Injs, InjBegins(k) PROVE Kept
  <2> DEFINE stuck == {j \in Injs : place[j] = "focus"}
  <2>1. /\ place[k] = "new" /\ place'[k] \in {"read", "set"}
        /\ \A j \in Injs \ {k} : place'[j] = place[j] /\ place[j] \in {"new", "focus", "done"}
        /\ place'[k] = "set" => ~keep'[k]
        /\ \A j \in Injs \ {k} : keep'[j] = keep[j]
        /\ UNCHANGED <<clip, prior, taken, latest>>
    BY <1>2 DEF InjBegins
  <2>2. CASE stuck = {}
    <3>1. UNCHANGED <<mixed, lost>>
      BY <1>2, <2>2 DEF InjBegins
    <3>2. \A j \in Injs \ {k} : ~Active(j) /\ ~(Active(j))'
      BY <2>1, <2>2
    <3> QED
      BY <2>1, <3>1, <3>2
  <2>3. CASE stuck # {}
    <3>1. mixed' = mixed \cup stuck \cup {k} /\ lost' = TRUE
      BY <1>2, <2>3 DEF InjBegins
    <3> QED
      BY <2>1, <3>1
  <2> QED
    BY <2>2, <2>3
<1>3. ASSUME NEW k \in Injs, ReadPrior(k) PROVE Kept
  BY <1>3 DEF ReadPrior
<1>4. ASSUME NEW k \in Injs, SetText(k) PROVE Kept
  <2>1. /\ place[k] = "set" /\ place'[k] = "focus" /\ clip' = k
        /\ \A j \in Injs \ {k} : place'[j] = place[j]
        /\ UNCHANGED <<keep, prior, taken, latest, mixed>>
    BY <1>4 DEF SetText
  <2>2. ~lost' => ~lost /\ keep[k] /\ prior[k] # Skip
    BY <1>4 DEF SetText
  <2>3. lost => lost'
    BY <1>4 DEF SetText
  <2>4. \A j \in Injs \ {k} : Active(j) => j \in mixed /\ lost
    BY <2>1
  <2> QED
    BY <2>1, <2>2, <2>3, <2>4
<1>5. ASSUME NEW k \in Injs, SetFails(k) PROVE Kept
  BY <1>5 DEF SetFails
<1>6. ASSUME NEW k \in Injs, Focus(k) \/ Paste(k) PROVE Kept
  BY <1>6 DEF Focus, Paste
<1>7. ASSUME NEW k \in Injs, PasteFails(k) PROVE Kept
  BY <1>7 DEF PasteFails
<1>8. ASSUME NEW k \in Injs, TakesPaste(k) PROVE Kept
  BY <1>8, InjsAssumption DEF TakesPaste
<1>9. ASSUME NEW k \in Injs, Settles(k) PROVE Kept
  <2>1. /\ place[k] = "settle" /\ \A j \in Injs \ {k} : place'[j] = place[j]
        /\ place'[k] = IF keep[k] /\ prior[k] # Skip THEN "restore" ELSE "done"
        /\ mixed' = IF taken[k] = Nothing THEN mixed \cup {k} ELSE mixed
        /\ UNCHANGED <<clip, keep, prior, taken, latest, lost>>
    BY <1>9 DEF Settles
  <2>2. ~lost => keep[k] /\ prior[k] = latest /\ latest # Skip
    BY <2>1, <1>t, InjsAssumption DEF InjTyped, InjTypeOK, Content
  <2> QED
    BY <2>1, <2>2
<1>10. ASSUME NEW k \in Injs, Restore(k) PROVE Kept
  BY <1>10 DEF Restore
<1>11. ASSUME NEW c \in Texts \cup Images, Copies(c) PROVE Kept
  BY <1>11 DEF Copies, Counting
<1> QED
  BY <1>1, <1>2, <1>3, <1>4, <1>5, <1>6, <1>7, <1>8, <1>9, <1>10, <1>11 DEF InjNext, Inject

LEMMA InjStart == InjInit => InjInv
<1> SUFFICES ASSUME InjInit PROVE InjInv
  OBVIOUS
<1>1. InjTyped
  BY DEF InjInit, InjTyped, InjTypeOK, Restorable, Content
<1>2. OneReads /\ OverlapKnown /\ ClipKnown /\ TextKnown
  BY DEF InjInit, OneReads, OverlapKnown, ClipKnown, TextKnown, Active
<1> QED
  BY <1>1, <1>2 DEF InjInv

\* The clipboard, and what each injection keeps and has seen, are of their types.
THEOREM InjTypeCorrect == InjSpec => []InjTypeOK
<1>1. InjTyped => InjTypeOK
  BY DEF InjTyped
<1>2. InjInit => InjTyped
  BY InjStart DEF InjInv
<1> QED
  BY <1>1, <1>2, InjTypeStep, PTL DEF InjSpec

\* However many injections run, stuck ones beside others, the clipboard is the
\* user's again when all have ended, and no program pastes anything but the
\* transcript, with the exceptions that the property names
\* (inject/clipboard_win.py _inject_sync).
THEOREM InjectionAlwaysClean == InjSpec => []InjectionIsClean
<1>1. InjInv => InjectionIsClean
  <2> SUFFICES ASSUME InjInv PROVE ClipboardKept /\ TranscriptPasted
    BY DEF InjectionIsClean
  <2>1. ClipboardKept
    BY DEF InjInv, ClipKnown, ClipboardKept, Active
  <2>2. TranscriptPasted
    BY DEF InjInv, TextKnown, TranscriptPasted
  <2> QED
    BY <2>1, <2>2
<1> QED
  BY <1>1, InjStart, InjStep, PTL DEF InjSpec

-----------------------------------------------------------------------------
(***************************************************************************)
(* For any providers and any number of edits of the configuration: the     *)
(* types, and that a dictation stays with its provider.  The candidates are *)
(* a sequence, the first usable one is taken: that there is a first one is *)
(* the well-ordering of the naturals.                                      *)
(***************************************************************************)

\* Min is the least element.
LEMMA LeastOf ==
  ASSUME NEW T \in SUBSET Nat, T # {}
  PROVE  Min(T) \in T /\ \A k \in T : Min(T) <= k
<1>1. \E m \in T : \A k \in T : m <= k
  BY LeastElement
<1> QED BY <1>1 DEF Min

-----------------------------------------------------------------------------
\* A dictation's provider had its key when it was chosen, and the one that is
\* asked is the chosen one: of both, unless the key has been missing since.
ProvInv ==
    /\ ProvTypeOK
    /\ ~moved /\ phase \in {"listening", "asking"} => chosen.name \in keys
    /\ ~moved /\ phase = "asking" => user.name = chosen.name
    /\ result = "text" => phase = "ended"
    /\ ProviderStays

\* registered_streaming_providers lists the streamers.
LEMMA StreamersListed == SetToSeq(Streamers) \in Seq(Streamers)
<1>1. /\ Cardinality(Streamers) \in Nat
      /\ ExistsBijection(1..Cardinality(Streamers), Streamers)
  BY ProvidersAssumption, FS_CardinalityType
<1>2. \E f \in [1..Cardinality(Streamers) -> Streamers] : IsInjective(f)
  BY <1>1 DEF ExistsBijection, Bijection, Injection
<1>3. SetToSeq(Streamers) \in [1..Cardinality(Streamers) -> Streamers]
  BY <1>2 DEF SetToSeq
<1> QED BY <1>1, <1>3

\* The candidates are names, one that is preferred comes first.
LEMMA CandidatesTyped ==
  ASSUME ProvTypeOK, NEW prefer \in Names \cup {None}, NEW streaming \in BOOLEAN
  PROVE  /\ Candidates(prefer, streaming) \in Seq(Names \cup {Unknown})
         /\ prefer # None => /\ 1 \in DOMAIN Candidates(prefer, streaming)
                             /\ Candidates(prefer, streaming)[1] = prefer
<1> DEFINE S == Names \cup {Unknown}
           a == IF prefer = None THEN <<>> ELSE <<prefer>>
           b == <<prefs.preferred>>
           c == prefs.fallback
           d == IF streaming THEN SetToSeq(Streamers) ELSE <<>>
<1>1. /\ a \in Seq(S) /\ b \in Seq(S)
  BY DEF ProvTypeOK, Prefs
<1>2. c \in Seq(S)
  <2>1. c = <<>> \/ \E n \in Names : c = <<n>>
    BY DEF ProvTypeOK, Prefs
  <2>2. <<>> \in Seq(S) /\ \A n \in Names : <<n>> \in Seq(S)
    OBVIOUS
  <2> QED
    <3> HIDE DEF S, c
    <3> QED BY <2>1, <2>2
<1>3. d \in Seq(S)
  BY StreamersListed DEF Names
<1>4. Candidates(prefer, streaming) = ((a \o b) \o c) \o d
  BY DEF Candidates
<1>5. ((a \o b) \o c) \o d \in Seq(S)
  <2> HIDE DEF a, b, c, d
  <2> QED BY <1>1, <1>2, <1>3, ConcatProperties
<1>6. ASSUME prefer # None PROVE 1 \in DOMAIN (((a \o b) \o c) \o d) /\ (((a \o b) \o c) \o d)[1] = prefer
  <2>1. Len(a) = 1 /\ a[1] = prefer
    BY <1>6
  <2> HIDE DEF a, b, c, d
  <2>2. Len(a \o b) \in Nat /\ Len(a \o b) >= 1 /\ (a \o b)[1] = prefer /\ a \o b \in Seq(S)
    BY <1>1, <2>1, ConcatProperties, LenProperties
  <2>3. Len((a \o b) \o c) \in Nat /\ Len((a \o b) \o c) >= 1 /\ ((a \o b) \o c)[1] = prefer
        /\ (a \o b) \o c \in Seq(S)
    BY <1>2, <2>2, ConcatProperties, LenProperties
  <2> QED
    BY <1>3, <1>5, <2>3, ConcatProperties, LenProperties
<1> QED BY <1>4, <1>5, <1>6

\* What is resolved has its key, and it is the preferred one if that can be used.
LEMMA ResolvedUsable ==
  ASSUME ProvTypeOK, NEW prefer \in Names \cup {None}, NEW streaming \in BOOLEAN,
         NEW terms \in BOOLEAN
  PROVE  /\ Resolved(prefer, streaming, terms) \in Provider
         /\ Resolved(prefer, streaming, terms) # NoOne
              => Resolved(prefer, streaming, terms).name \in keys
         /\ prefer # None /\ Usable(prefer, streaming)
              => Resolved(prefer, streaming, terms).name = prefer
<1> DEFINE names  == Candidates(prefer, streaming)
           usable == {i \in DOMAIN names : Usable(names[i], streaming)}
<1>1. Resolved(prefer, streaming, terms)
        = IF usable = {} THEN NoOne ELSE [name |-> names[Min(usable)], terms |-> terms]
  BY DEF Resolved
<1>2. usable \in SUBSET Nat /\ \A i \in usable : i >= 1
  <2>1. names \in Seq(Names \cup {Unknown})
    BY CandidatesTyped
  <2>2. DOMAIN names = 1..Len(names) /\ Len(names) \in Nat
    BY <2>1, LenProperties
  <2> QED BY <2>2
<1>3. usable # {} => Min(usable) \in usable /\ \A k \in usable : Min(usable) <= k
  BY <1>2, LeastOf
<1>4. usable # {} => names[Min(usable)] \in keys
  BY <1>3 DEF Usable
<1>5. ASSUME prefer # None, Usable(prefer, streaming)
      PROVE  usable # {} /\ names[Min(usable)] = prefer
  <2>1. 1 \in usable /\ names[1] = prefer
    BY <1>5, CandidatesTyped
  <2>2. Min(usable) = 1
    BY <1>2, <1>3, <2>1
  <2> QED BY <2>1, <2>2
<1>6. Resolved(prefer, streaming, terms) \in Provider
  BY <1>1, <1>4 DEF Provider, NoOne, ProvTypeOK, Names
<1> QED
  BY <1>1, <1>4, <1>5, <1>6

\* The variables keep their types.
LEMMA ProvTypeStep == ProvTypeOK /\ [ProvNext]_provVars => ProvTypeOK'
<1> SUFFICES ASSUME ProvTypeOK, [ProvNext]_provVars PROVE ProvTypeOK'
  OBVIOUS
<1>c. Provider' = Provider /\ Prefs' = Prefs /\ NoOne \in Provider
  BY DEF Provider, Prefs, NoOne
<1> USE DEF ProvTypeOK, prefVars, callVars
<1>1. CASE UNCHANGED provVars
  BY <1>1 DEF provVars
<1>2. CASE Activate
  <2>1. Resolved(None, prefs.streaming = "on", prefs.vocabulary) \in Provider
    BY ResolvedUsable DEF Prefs
  <2>2. chosen' \in Provider
    BY <1>2, <2>1 DEF Activate
  <2>3. streams' \in BOOLEAN
    <3>1. \A p : (p.name \in Streamers) \in BOOLEAN
      OBVIOUS
    <3>2. prefs.streaming \in {"auto", "on", "off"}
      BY DEF Prefs
    <3> QED BY <1>2, <3>1, <3>2 DEF Activate
  <2>4. phase' \in {"ended", "listening"} /\ result' \in {"refused", result}
    BY <1>2 DEF Activate
  <2> QED BY <1>2, <2>2, <2>3, <2>4 DEF Activate
<1>3. CASE AskStream
  BY <1>3 DEF AskStream
<1>4. CASE AskBatch
  <2>1. Resolved(chosen.name, FALSE, FALSE) \in Provider
    BY ResolvedUsable DEF Provider
  <2>2. /\ phase' \in {"ended", "asking"} /\ result' \in {"other", result}
        /\ attempt' \in {1, attempt} /\ user' \in Provider
        /\ UNCHANGED <<prefs, keys, edits, chosen, streams, moved>>
    BY <1>4, <2>1 DEF AskBatch
  <2>3. attempt' \in 0..3 /\ result' \in Failures \cup {"none", "text", "refused"}
    BY <2>2 DEF Failures
  <2> QED BY <1>c, <2>2, <2>3
<1>5. CASE Request
  <2>1. PICK r \in Failures \cup {"text"} :
           IF r \in {"rate", "timeout"} /\ attempt < 3
             THEN attempt' = attempt + 1 /\ UNCHANGED <<phase, result>>
             ELSE phase' = "ended" /\ result' = r /\ UNCHANGED attempt
    BY <1>5 DEF Request, Failures
  <2>2. attempt' \in 0..3 /\ phase' \in {"idle", "listening", "asking", "ended"}
        /\ result' \in Failures \cup {"none", "text", "refused"}
    BY <2>1
  <2> QED BY <1>5, <2>2 DEF Request
<1>6. CASE UserEdits
  <2>1. edits' \in 0..MaxEdits
    BY <1>6, ProvidersAssumption DEF UserEdits
  <2>2. keys' \subseteq Names /\ prefs' \in Prefs
    BY <1>6 DEF UserEdits
  <2> QED BY <1>6, <2>1, <2>2 DEF UserEdits
<1> QED
  BY <1>1, <1>2, <1>3, <1>4, <1>5, <1>6 DEF ProvNext

\* The chosen provider is the one asked.
LEMMA ProvStep == ProvInv /\ [ProvNext]_provVars => ProvInv'
<1> SUFFICES ASSUME ProvInv, [ProvNext]_provVars PROVE ProvInv'
  OBVIOUS
<1>t. ProvTypeOK /\ ProvTypeOK'
  BY ProvTypeStep DEF ProvInv
<1>n. NoOne.name = None /\ None \notin Names
  BY ProvidersAssumption DEF NoOne, Names
<1> USE DEF ProvInv, ProviderStays, prefVars, callVars
<1>1. CASE UNCHANGED provVars
  BY <1>1, <1>t DEF provVars
<1>2. CASE Activate
  <2>1. \/ chosen'.name \in keys \/ phase' = "ended"
    BY <1>2, <1>t, ResolvedUsable DEF Activate, ProvTypeOK, Prefs
  <2> QED BY <1>2, <1>t, <2>1 DEF Activate
<1>3. CASE AskStream
  BY <1>3, <1>t DEF AskStream
<1>4. CASE AskBatch
  <2>1. ASSUME ~moved PROVE user'.name = chosen.name
    <3>1. chosen.name \in keys /\ chosen.name \in Names \cup {None} /\ keys \subseteq Names
      BY <1>4, <2>1, <1>t DEF AskBatch, ProvTypeOK, Provider
    <3> QED BY <1>4, <1>n, <1>t, <3>1, ResolvedUsable DEF AskBatch, Usable
  <2> QED BY <1>4, <1>t, <2>1 DEF AskBatch
<1>5. CASE Request
  BY <1>5, <1>t DEF Request, Failures
<1>6. CASE UserEdits
  BY <1>6, <1>t DEF UserEdits
<1> QED
  BY <1>1, <1>2, <1>3, <1>4, <1>5, <1>6 DEF ProvNext

\* A dictation has not begun yet.
LEMMA ProvStarts == ProvInit => ProvInv
<1>1. NoOne \in Provider /\ 0 \in 0..MaxEdits
  BY ProvidersAssumption DEF NoOne, Provider
<1> SUFFICES ASSUME ProvInit PROVE ProvInv
  OBVIOUS
<1>2. ProvTypeOK
  <2>1. chosen \in Provider /\ user \in Provider /\ prefs \in Prefs /\ keys \subseteq Names
    BY <1>1 DEF ProvInit
  <2>2. moved \in BOOLEAN /\ streams \in BOOLEAN
    BY DEF ProvInit
  <2>3. edits \in 0..MaxEdits
    BY <1>1 DEF ProvInit
  <2>4. attempt \in 0..3
    BY DEF ProvInit
  <2> QED BY <2>1, <2>2, <2>3, <2>4 DEF ProvInit, ProvTypeOK
<1> QED
  BY <1>2 DEF ProvInit, ProvInv, ProviderStays

\* The variables of the choice of a provider keep their types.
THEOREM ProvTypeCorrect == ProvSpec => []ProvTypeOK
<1>1. ProvInit => ProvTypeOK
  BY ProvStarts DEF ProvInv
<1> QED
  BY <1>1, ProvTypeStep, PTL DEF ProvSpec

\* The provider that is asked for a dictation's text is the one that was chosen
\* when it began, unless its key has been missing since: for any providers, any
\* number of edits, and whatever the configuration becomes in the meantime.
THEOREM ProviderAlwaysStays == ProvSpec => []ProviderStays
<1>1. ProvInv => ProviderStays
  BY DEF ProvInv
<1> QED
  BY <1>1, ProvStarts, ProvStep, PTL DEF ProvSpec

-----------------------------------------------------------------------------
(***************************************************************************)
(* For any number of chunks and results: the types, and that the text of a *)
(* streamed dictation is what was spoken.  The invariant follows the       *)
(* results on their way as one sequence, each of which goes on where the   *)
(* one before it ended.                                                    *)
(***************************************************************************)

\* The results on their way, the next one to be taken first.
Coming == results \o wire

Holds(i) == i \in DOMAIN Coming /\ Coming[i].kind # "closed"

\* Where the i-th result begins, or would begin; where the one after r does.
From(i)  == IF Holds(i) THEN Coming[i].from ELSE sure
Ahead(r) == IF r.kind = "final" THEN r.to ELSE r.from

\* The audio: what has been sent when the connection closes.
AudioKnown ==
    /\ socket \in {"closing", "closed"} => stopped /\ fed = said
    /\ socket = "closed" => sure = fed
    /\ feeder \in {"take", "done"} => stopped /\ fed = said
    /\ feeder = "done" => socket \in {"closed", "broken"}

\* The end of the results comes last, and when the connection has gone.
EndKnown ==
    \A i \in DOMAIN Coming : Coming[i].kind = "closed" =>
        i = Len(Coming) /\ wire = <<>> /\ ~receiving /\ socket \in {"closed", "broken"}

\* Each result goes on where the one before it has ended, unless the connection has
\* broken behind it.
ComingKnown ==
    \A i \in DOMAIN Coming : Coming[i].kind # "closed" =>
        /\ Coming[i].from < Coming[i].to /\ Coming[i].from <= sure /\ Coming[i].to <= heard
        /\ Coming[i].kind = "final" => Coming[i].to <= sure
        /\ Coming[i].kind = "misheard" => misheard
        /\ socket # "broken" \/ Holds(i + 1) => WordsUpto[Ahead(Coming[i])] = WordsUpto[From(i + 1)]

\* What has been collected is the words of the first chunks.
CollectedKnown ==
    /\ feeder \in {"feed", "take"} =>
          /\ socket # "broken" \/ Holds(1) => committed = WordsUpto[From(1)]
          /\ \E c \in 0..heard : committed = WordsUpto[c]
          /\ ~misheard => \E c \in 0..heard : committed \o live = WordsUpto[c]
    /\ feeder = "done" /\ ~misheard => /\ \E c \in 0..heard : committed = WordsUpto[c]
                                       /\ socket = "closed" => committed = WordsUpto[said]

SttInv == SttTypeOK /\ AudioKnown /\ EndKnown /\ ComingKnown /\ CollectedKnown

-----------------------------------------------------------------------------
\* Two sequences, one behind the other.
LEMMA Joined ==
  ASSUME NEW T, NEW a \in Seq(T), NEW b \in Seq(T)
  PROVE  /\ a \o b \in Seq(T) /\ Len(a) \in Nat /\ Len(b) \in Nat
         /\ Len(a \o b) = Len(a) + Len(b) /\ DOMAIN (a \o b) = 1..Len(a \o b)
         /\ \A i \in 1..Len(a) : (a \o b)[i] = a[i]
         /\ \A i \in 1..Len(b) : (a \o b)[Len(a) + i] = b[i]
<1>1. /\ a \o b \in Seq(T) /\ Len(a \o b) = Len(a) + Len(b)
      /\ \A i \in 1..(Len(a) + Len(b)) : (a \o b)[i] = IF i <= Len(a) THEN a[i] ELSE b[i - Len(a)]
  BY ConcatProperties
<1>2. Len(a) \in Nat /\ Len(b) \in Nat /\ DOMAIN (a \o b) = 1..Len(a \o b)
  BY <1>1, LenProperties
<1> DEFINE c == a \o b
<1> HIDE DEF c
<1>3. ASSUME NEW i \in 1..Len(b) PROVE c[Len(a) + i] = b[i]
  <2>1. Len(a) + i \in 1..(Len(a) + Len(b)) /\ ~ (Len(a) + i <= Len(a))
        /\ (Len(a) + i) - Len(a) = i
    BY <1>2
  <2> QED BY <1>1, <2>1 DEF c
<1>4. ASSUME NEW i \in 1..Len(a) PROVE c[i] = a[i]
  BY <1>1, <1>2 DEF c
<1> QED BY <1>1, <1>2, <1>3, <1>4 DEF c

\* The beginning of a sequence, and the rest.
LEMMA Cut ==
  ASSUME NEW T, NEW b \in Seq(T), NEW k \in Nat
  PROVE  /\ SubSeq(b, k + 1, Len(b)) \in Seq(T)
         /\ Len(SubSeq(b, k + 1, Len(b))) = IF k + 1 <= Len(b) THEN Len(b) - k ELSE 0
         /\ \A i \in 1..Len(SubSeq(b, k + 1, Len(b))) : SubSeq(b, k + 1, Len(b))[i] = b[k + i]
         /\ k <= Len(b) => /\ SubSeq(b, 1, k) \in Seq(T) /\ Len(SubSeq(b, 1, k)) = k
                           /\ \A i \in 1..k : SubSeq(b, 1, k)[i] = b[i]
<1>1. Len(b) \in Nat /\ \A i \in 1..Len(b) : b[i] \in T
  BY LenProperties, ElementOfSeq
<1>2. k + 1 \in Int /\ Len(b) \in Int /\ \A i \in (k + 1)..Len(b) : b[i] \in T
  BY <1>1
<1> DEFINE c == SubSeq(b, k + 1, Len(b))
           d == SubSeq(b, 1, k)
<1>3. /\ c \in Seq(T)
      /\ Len(c) = IF k + 1 <= Len(b) THEN Len(b) - (k + 1) + 1 ELSE 0
      /\ \A i \in 1..(Len(b) - (k + 1) + 1) : c[i] = b[(k + 1) + i - 1]
  BY <1>2, SubSeqProperties
<1>4. ASSUME k <= Len(b) PROVE d \in Seq(T) /\ Len(d) = k /\ \A i \in 1..k : d[i] = b[i]
  <2>1. 1 \in Int /\ k \in Int /\ \A i \in 1..k : b[i] \in T
    BY <1>1, <1>4
  <2>2. /\ d \in Seq(T)
        /\ Len(d) = IF 1 <= k THEN k - 1 + 1 ELSE 0
        /\ \A i \in 1..(k - 1 + 1) : d[i] = b[1 + i - 1]
    BY <2>1, SubSeqProperties
  <2> HIDE DEF d
  <2>3. Len(d) = k /\ \A i \in 1..k : i \in 1..(k - 1 + 1) /\ 1 + i - 1 = i
    BY <2>2
  <2> QED BY <2>2, <2>3
<1> HIDE DEF c, d
<1>5. Len(c) = IF k + 1 <= Len(b) THEN Len(b) - k ELSE 0
  BY <1>1, <1>3
<1>6. ASSUME NEW i \in 1..Len(c) PROVE c[i] = b[k + i]
  <2>1. i \in 1..(Len(b) - (k + 1) + 1) /\ (k + 1) + i - 1 = k + i
    BY <1>1, <1>5
  <2> QED BY <1>3, <2>1
<1> QED BY <1>3, <1>4, <1>5, <1>6 DEF c, d

\* The words of the first chunks: each goes on with the words in between.
LEMMA WordsKnown ==
  ASSUME SttTypeOK
  PROVE  /\ WordsUpto \in [0..MaxChunks -> Seq(1..MaxChunks)] /\ WordsUpto[0] = <<>>
         /\ \A m, n \in 0..MaxChunks :
               /\ WordsIn(m, n) \in Seq(1..MaxChunks)
               /\ m <= n => /\ WordsUpto[m] \o WordsIn(m, n) = WordsUpto[n]
                            /\ Prefix(WordsUpto[m], WordsUpto[n])
         /\ \A n \in 0..MaxChunks : WordsIn(0, n) = WordsUpto[n]
<1> DEFINE s == [i \in 1..MaxChunks |-> i]
           N == MaxChunks
           w == WordsUpto
<1>1. s \in Seq(1..N) /\ Len(s) = N /\ N \in Nat
  BY SttAssumption
<1>2. w = PickUpto(s, spoken)
  BY DEF WordsUpto
<1> HIDE DEF s
<1>3. w \in [0..N -> Seq(1..N)] /\ w[0] = <<>>
  BY <1>1, <1>2, PickUptoSteps
<1>4. ASSUME NEW m \in 0..N, NEW n \in 0..N, m <= n
      PROVE  /\ Len(w[m]) <= Len(w[n]) /\ \A i \in 1..Len(w[m]) : w[n][i] = w[m][i]
  <2>1. \A j, k \in 0..N : j <= k => Begins(w[j], w[k])
    BY <1>1, <1>2, PickUptoPrefix
  <2> QED BY <1>4, <2>1 DEF Begins
<1>w. \A m, n : WordsIn(m, n) = SubSeq(w[n], Len(w[m]) + 1, Len(w[n]))
  BY DEF WordsIn
<1> HIDE DEF w
<1>5. \A n \in 0..N : w[n] \in Seq(1..N) /\ Len(w[n]) \in Nat
  BY <1>3
<1>6. ASSUME NEW m \in 0..N, NEW n \in 0..N
      PROVE  /\ WordsIn(m, n) \in Seq(1..N)
             /\ m <= n => w[m] \o WordsIn(m, n) = w[n] /\ Prefix(w[m], w[n])
  <2> DEFINE a == w[m]
             b == w[n]
             c == WordsIn(m, n)
  <2>1. a \in Seq(1..N) /\ b \in Seq(1..N) /\ Len(a) \in Nat /\ Len(b) \in Nat
        /\ c = SubSeq(b, Len(a) + 1, Len(b))
    BY <1>5, <1>6, <1>w
  <2>2. m <= n => Len(a) <= Len(b) /\ \A i \in 1..Len(a) : b[i] = a[i]
    BY <1>4, <1>6
  <2> HIDE DEF a, b, c
  <2>3. /\ c \in Seq(1..N)
        /\ Len(c) = IF Len(a) + 1 <= Len(b) THEN Len(b) - Len(a) ELSE 0
        /\ \A i \in 1..Len(c) : c[i] = b[Len(a) + i]
    BY <2>1, Cut
  <2>4. ASSUME m <= n PROVE a \o c = b /\ Prefix(a, b)
    <3>1. Len(c) = Len(b) - Len(a)
      BY <2>1, <2>2, <2>3, <2>4
    <3>2. /\ a \o c \in Seq(1..N) /\ Len(a \o c) = Len(b)
          /\ \A i \in 1..Len(a) : (a \o c)[i] = a[i]
          /\ \A i \in 1..Len(c) : (a \o c)[Len(a) + i] = c[i]
      <4>1. /\ a \o c \in Seq(1..N) /\ Len(a \o c) = Len(a) + Len(c)
            /\ \A i \in 1..Len(a) : (a \o c)[i] = a[i]
            /\ \A i \in 1..Len(c) : (a \o c)[Len(a) + i] = c[i]
        BY <2>1, <2>3, Joined
      <4> QED BY <2>1, <3>1, <4>1
    <3>3. \A i \in 1..Len(b) : (a \o c)[i] = b[i]
      <4> TAKE i \in 1..Len(b)
      <4>1. CASE i <= Len(a)
        BY <2>1, <2>2, <2>4, <3>2, <4>1
      <4>2. CASE i > Len(a)
        <5> DEFINE k == i - Len(a)
        <5>1. k \in 1..Len(c) /\ Len(a) + k = i
          BY <2>1, <3>1, <4>2
        <5> HIDE DEF k
        <5> QED BY <2>3, <3>2, <5>1
      <4> QED BY <2>1, <4>1, <4>2
    <3>4. a \o c = b
      BY <2>1, <3>2, <3>3, SeqEqual
    <3>5. SubSeq(b, 1, Len(a)) = a
      <4>1. /\ SubSeq(b, 1, Len(a)) \in Seq(1..N) /\ Len(SubSeq(b, 1, Len(a))) = Len(a)
            /\ \A i \in 1..Len(a) : SubSeq(b, 1, Len(a))[i] = b[i]
        BY <2>1, <2>2, <2>4, Cut
      <4> QED BY <2>1, <2>2, <2>4, <4>1, SeqEqual
    <3> QED BY <2>2, <2>4, <3>4, <3>5 DEF Prefix
  <2>5. c \in Seq(1..N) /\ (m <= n => a \o c = b /\ Prefix(a, b))
    BY <2>3, <2>4
  <2> QED BY <2>5 DEF a, b, c
<1>7. ASSUME NEW n \in 0..N PROVE WordsIn(0, n) = w[n]
  <2> DEFINE b == w[n]
             e == <<>>
  <2>1. b \in Seq(1..N) /\ e \in Seq(1..N) /\ Len(e) = 0
    BY <1>5, <1>7
  <2>2. e \o WordsIn(0, n) = b
    <3>1. 0 \in 0..N /\ 0 <= n
      BY <1>1
    <3> QED BY <1>3, <1>6, <3>1
  <2>3. WordsIn(0, n) \in Seq(1..N)
    BY <1>1, <1>6
  <2> QED BY <2>2, <2>3, ConcatEmptySeq
<1> QED BY <1>3, <1>6, <1>7 DEF w

\* Nobody takes back what was spoken.
LEMMA SpokenStays ==
  [SttNext]_sttVars => spoken' = spoken /\ WordsUpto' = WordsUpto
                       /\ \A m, n : WordsIn(m, n)' = WordsIn(m, n)
<1> SUFFICES ASSUME [SttNext]_sttVars
             PROVE  spoken' = spoken /\ WordsUpto' = WordsUpto
                    /\ \A m, n : WordsIn(m, n)' = WordsIn(m, n)
  OBVIOUS
<1>1. spoken' = spoken
  BY DEF SttNext, Server, Client, Speak, StopRecording, Hears, Interim, Finalises, ServerCloses,
         ConnectionBreaks, Feed, Receive, ReceiverEnds, Collect, CancelStream, sttVars, audioVars
<1>2. WordsUpto' = WordsUpto
  BY <1>1 DEF WordsUpto
<1> QED BY <1>1, <1>2 DEF WordsIn

-----------------------------------------------------------------------------
\* The results on their way, in the queue and behind it on the wire.
LEMMA ComingTyped ==
  ASSUME SttTypeOK
  PROVE  /\ Coming \in Seq(Result \cup {Closed})
         /\ Len(results) \in Nat /\ Len(wire) \in Nat
         /\ Len(Coming) = Len(results) + Len(wire) /\ DOMAIN Coming = 1..Len(Coming)
         /\ \A i \in 1..Len(results) : Coming[i] = results[i]
         /\ \A i \in 1..Len(wire) : Coming[Len(results) + i] = wire[i]
<1>1. wire \in Seq(Result) /\ results \in Seq(Result \cup {Closed})
  BY DEF SttTypeOK
<1> DEFINE T == Result \cup {Closed}
<1>2. Result \subseteq T
  OBVIOUS
<1> HIDE DEF T
<1>3. wire \in Seq(T) /\ results \in Seq(T)
  BY <1>1, <1>2 DEF T
<1> QED BY <1>3, Joined DEF Coming, T

\* The same after a step.
LEMMA ComingTypedNext ==
  ASSUME SttTypeOK'
  PROVE  /\ Coming' \in Seq(Result \cup {Closed})
         /\ Len(results') \in Nat /\ Len(wire') \in Nat
         /\ Len(Coming') = Len(results') + Len(wire') /\ DOMAIN Coming' = 1..Len(Coming')
         /\ \A i \in 1..Len(results') : Coming'[i] = results'[i]
         /\ \A i \in 1..Len(wire') : Coming'[Len(results') + i] = wire'[i]
<1>1. wire' \in Seq(Result) /\ results' \in Seq(Result \cup {Closed})
  BY DEF SttTypeOK, Result, Closed
<1> DEFINE T == Result \cup {Closed}
<1>2. Result \subseteq T
  OBVIOUS
<1> HIDE DEF T
<1>3. wire' \in Seq(T) /\ results' \in Seq(T)
  BY <1>1, <1>2 DEF T
<1> QED BY <1>3, Joined DEF Coming, T

\* A result, or the end, is added behind the others.
LEMMA ComingAdded ==
  ASSUME SttTypeOK, SttTypeOK', NEW r,
         \/ wire' = Append(wire, r) /\ results' = results
         \/ wire = <<>> /\ wire' = <<>> /\ results' = Append(results, r)
  PROVE  /\ Len(Coming) \in Nat /\ DOMAIN Coming = 1..Len(Coming)
         /\ DOMAIN Coming' = 1..(Len(Coming) + 1) /\ Len(Coming)' = Len(Coming) + 1
         /\ Coming'[Len(Coming) + 1] = r
         /\ \A i \in DOMAIN Coming : Coming'[i] = Coming[i]
<1>1. /\ Len(results) \in Nat /\ Len(wire) \in Nat /\ Len(Coming) = Len(results) + Len(wire)
      /\ DOMAIN Coming = 1..Len(Coming)
      /\ \A i \in 1..Len(results) : Coming[i] = results[i]
      /\ \A i \in 1..Len(wire) : Coming[Len(results) + i] = wire[i]
  BY ComingTyped
<1>2. /\ Len(results') \in Nat /\ Len(wire') \in Nat /\ Len(Coming') = Len(results') + Len(wire')
      /\ DOMAIN Coming' = 1..Len(Coming')
      /\ \A i \in 1..Len(results') : Coming'[i] = results'[i]
      /\ \A i \in 1..Len(wire') : Coming'[Len(results') + i] = wire'[i]
  BY ComingTypedNext
<1>3. results \in Seq(Result \cup {Closed}) /\ wire \in Seq(Result)
  BY DEF SttTypeOK
<1>4. CASE wire' = Append(wire, r) /\ results' = results
  <2>1. Len(wire') = Len(wire) + 1 /\ wire'[Len(wire) + 1] = r
        /\ \A i \in 1..Len(wire) : wire'[i] = wire[i]
    BY <1>1, <1>3, <1>4
  <2>2. ASSUME NEW i \in DOMAIN Coming PROVE Coming'[i] = Coming[i]
    <3>1. CASE i <= Len(results)
      BY <1>1, <1>2, <1>4, <3>1
    <3>2. CASE i > Len(results)
      <4> DEFINE k == i - Len(results)
      <4>1. k \in 1..Len(wire) /\ k \in 1..Len(wire') /\ Len(results) + k = i
        BY <1>1, <2>1, <3>2
      <4> HIDE DEF k
      <4> QED BY <1>1, <1>2, <1>4, <2>1, <4>1
    <3> QED BY <1>1, <3>1, <3>2
  <2>3. Coming'[Len(Coming) + 1] = r
    <3>1. Len(wire) + 1 \in 1..Len(wire') /\ Len(results') + (Len(wire) + 1) = Len(Coming) + 1
      BY <1>1, <1>4, <2>1
    <3> QED BY <1>2, <2>1, <3>1
  <2> QED BY <1>1, <1>2, <1>4, <2>1, <2>2, <2>3
<1>5. CASE wire = <<>> /\ wire' = <<>> /\ results' = Append(results, r)
  <2>1. Len(results') = Len(results) + 1 /\ results'[Len(results) + 1] = r
        /\ Len(wire) = 0 /\ Len(wire') = 0
        /\ \A i \in 1..Len(results) : results'[i] = results[i]
    BY <1>1, <1>3, <1>5
  <2> QED BY <1>1, <1>2, <2>1
<1> QED BY <1>4, <1>5

\* A result is taken off the wire: it is put in the queue, or dropped.
LEMMA ComingReceived ==
  ASSUME SttTypeOK, SttTypeOK', wire # <<>>, wire' = Tail(wire)
  PROVE  /\ Len(results) + 1 \in DOMAIN Coming /\ Coming[Len(results) + 1] = Head(wire)
         /\ Head(wire) \in Result
         /\ DOMAIN Coming = 1..Len(Coming) /\ Len(Coming) \in Nat /\ Len(results) \in Nat
         /\ results' = Append(results, Head(wire)) => Coming' = Coming
         /\ results' = results =>
               /\ DOMAIN Coming' = 1..(Len(Coming) - 1)
               /\ \A i \in DOMAIN Coming' :
                     Coming'[i] = IF i <= Len(results) THEN Coming[i] ELSE Coming[i + 1]
<1>1. /\ Len(results) \in Nat /\ Len(wire) \in Nat /\ Len(Coming) = Len(results) + Len(wire)
      /\ DOMAIN Coming = 1..Len(Coming) /\ Coming \in Seq(Result \cup {Closed})
      /\ \A i \in 1..Len(results) : Coming[i] = results[i]
      /\ \A i \in 1..Len(wire) : Coming[Len(results) + i] = wire[i]
  BY ComingTyped
<1>2. /\ Len(results') \in Nat /\ Len(wire') \in Nat /\ Len(Coming') = Len(results') + Len(wire')
      /\ DOMAIN Coming' = 1..Len(Coming') /\ Coming' \in Seq(Result \cup {Closed})
      /\ \A i \in 1..Len(results') : Coming'[i] = results'[i]
      /\ \A i \in 1..Len(wire') : Coming'[Len(results') + i] = wire'[i]
  BY ComingTypedNext
<1>3. results \in Seq(Result \cup {Closed}) /\ wire \in Seq(Result)
  BY DEF SttTypeOK
<1>4. /\ Len(wire) >= 1 /\ Head(wire) = wire[1] /\ wire[1] \in Result
      /\ Len(wire') = Len(wire) - 1 /\ \A i \in 1..Len(wire') : wire'[i] = wire[i + 1]
  <2>1. Head(wire) \in Result /\ Head(wire) = wire[1] /\ Len(wire) # 0
    BY <1>3
  <2>2. /\ Len(Tail(wire)) = Len(wire) - 1
        /\ \A i \in 1..Len(Tail(wire)) : Tail(wire)[i] = wire[i + 1]
    BY <1>3, HeadTailProperties
  <2> QED BY <1>1, <2>1, <2>2
<1>5. Len(results) + 1 \in DOMAIN Coming /\ Coming[Len(results) + 1] = Head(wire)
  BY <1>1, <1>4
<1>6. ASSUME results' = Append(results, Head(wire)) PROVE Coming' = Coming
  <2>1. /\ Len(results') = Len(results) + 1 /\ results'[Len(results) + 1] = Head(wire)
        /\ \A i \in 1..Len(results) : results'[i] = results[i]
    BY <1>1, <1>3, <1>6
  <2>2. Len(Coming') = Len(Coming)
    BY <1>1, <1>2, <1>4, <2>1
  <2>3. ASSUME NEW i \in 1..Len(Coming) PROVE Coming'[i] = Coming[i]
    <3>0. CASE i = Len(results) + 1
      BY <1>1, <1>2, <1>4, <1>5, <2>1, <3>0
    <3>1. CASE i <= Len(results)
      <4>1. i \in 1..Len(results) /\ i \in 1..Len(results')
        BY <1>1, <2>1, <3>1
      <4> QED BY <1>1, <1>2, <2>1, <4>1
    <3>2. CASE i > Len(results) + 1
      <4> DEFINE k == i - (Len(results) + 1)
      <4>1. /\ k \in 1..Len(wire') /\ Len(results') + k = i /\ k + 1 \in 1..Len(wire)
            /\ Len(results) + (k + 1) = i
        BY <1>1, <1>4, <2>1, <3>2
      <4> HIDE DEF k
      <4>2. Coming'[Len(results') + k] = wire'[k] /\ Coming[Len(results) + (k + 1)] = wire[k + 1]
            /\ wire'[k] = wire[k + 1]
        BY <1>1, <1>2, <1>4, <4>1
      <4> QED BY <4>1, <4>2
    <3> QED BY <1>1, <3>0, <3>1, <3>2
  <2> QED BY <1>1, <1>2, <2>2, <2>3, SeqEqual DEF Result, Closed
<1>7. ASSUME results' = results
      PROVE  /\ DOMAIN Coming' = 1..(Len(Coming) - 1)
             /\ \A i \in DOMAIN Coming' :
                   Coming'[i] = IF i <= Len(results) THEN Coming[i] ELSE Coming[i + 1]
  <2>1. Len(Coming') = Len(Coming) - 1
    BY <1>1, <1>2, <1>4, <1>7
  <2>2. ASSUME NEW i \in DOMAIN Coming'
        PROVE  Coming'[i] = IF i <= Len(results) THEN Coming[i] ELSE Coming[i + 1]
    <3>1. CASE i <= Len(results)
      BY <1>1, <1>2, <1>7, <3>1
    <3>2. CASE i > Len(results)
      <4> DEFINE k == i - Len(results)
      <4>1. /\ k \in 1..Len(wire') /\ Len(results') + k = i /\ k + 1 \in 1..Len(wire)
            /\ Len(results) + (k + 1) = i + 1
        BY <1>1, <1>2, <1>4, <1>7, <2>1, <3>2
      <4> HIDE DEF k
      <4>2. Coming'[Len(results') + k] = wire'[k] /\ Coming[Len(results) + (k + 1)] = wire[k + 1]
            /\ wire'[k] = wire[k + 1]
        BY <1>1, <1>2, <1>4, <4>1
      <4> QED BY <3>2, <4>1, <4>2
    <3> QED BY <1>1, <1>2, <3>1, <3>2
  <2> QED BY <1>2, <2>1, <2>2
<1> QED BY <1>1, <1>4, <1>5, <1>6, <1>7

\* The first result is taken out of the queue.
LEMMA ComingTaken ==
  ASSUME SttTypeOK, SttTypeOK', results # <<>>, results' = Tail(results), wire' = wire
  PROVE  /\ 1 \in DOMAIN Coming /\ Coming[1] = Head(results)
         /\ Head(results) \in Result \cup {Closed}
         /\ DOMAIN Coming = 1..Len(Coming) /\ Len(Coming) \in Nat
         /\ DOMAIN Coming' = 1..(Len(Coming) - 1) /\ Len(Coming)' = Len(Coming) - 1
         /\ \A i \in DOMAIN Coming' : Coming'[i] = Coming[i + 1]
<1>1. /\ Len(results) \in Nat /\ Len(wire) \in Nat /\ Len(Coming) = Len(results) + Len(wire)
      /\ DOMAIN Coming = 1..Len(Coming)
      /\ \A i \in 1..Len(results) : Coming[i] = results[i]
      /\ \A i \in 1..Len(wire) : Coming[Len(results) + i] = wire[i]
  BY ComingTyped
<1>2. /\ Len(results') \in Nat /\ Len(wire') \in Nat /\ Len(Coming') = Len(results') + Len(wire')
      /\ DOMAIN Coming' = 1..Len(Coming')
      /\ \A i \in 1..Len(results') : Coming'[i] = results'[i]
      /\ \A i \in 1..Len(wire') : Coming'[Len(results') + i] = wire'[i]
  BY ComingTypedNext
<1>3. results \in Seq(Result \cup {Closed})
  BY DEF SttTypeOK
<1>4. /\ Len(results) >= 1 /\ Head(results) = results[1] /\ results[1] \in Result \cup {Closed}
      /\ Len(results') = Len(results) - 1
      /\ \A i \in 1..Len(results') : results'[i] = results[i + 1]
  <2>1. Head(results) \in Result \cup {Closed} /\ Head(results) = results[1] /\ Len(results) # 0
    BY <1>3
  <2>2. /\ Len(Tail(results)) = Len(results) - 1
        /\ \A i \in 1..Len(Tail(results)) : Tail(results)[i] = results[i + 1]
    BY <1>3, HeadTailProperties
  <2> QED BY <1>1, <2>1, <2>2
<1>5. Len(Coming') = Len(Coming) - 1
  BY <1>1, <1>2, <1>4
<1>6. ASSUME NEW i \in DOMAIN Coming' PROVE Coming'[i] = Coming[i + 1]
  <2>1. CASE i <= Len(results')
    BY <1>1, <1>2, <1>4, <2>1
  <2>2. CASE i > Len(results')
    <3> DEFINE k == i - Len(results')
    <3>1. k \in 1..Len(wire) /\ Len(results') + k = i /\ Len(results) + k = i + 1
      BY <1>1, <1>2, <1>4, <1>5, <2>2
    <3> HIDE DEF k
    <3> QED BY <1>1, <1>2, <3>1
  <2> QED BY <1>1, <1>2, <2>1, <2>2
<1> QED BY <1>1, <1>2, <1>4, <1>5, <1>6

\* The connection breaks: the last results on the wire are lost.
LEMMA ComingCut ==
  ASSUME SttTypeOK, SttTypeOK', results' = results, NEW n \in 0..Len(wire), wire' = SubSeq(wire, 1, n)
  PROVE  /\ Len(Coming) \in Nat /\ DOMAIN Coming = 1..Len(Coming)
         /\ \E m \in 0..Len(Coming) : DOMAIN Coming' = 1..m /\ Len(Coming)' = m
         /\ \A i \in DOMAIN Coming' : i \in DOMAIN Coming /\ Coming'[i] = Coming[i]
<1>1. /\ Len(results) \in Nat /\ Len(wire) \in Nat /\ Len(Coming) = Len(results) + Len(wire)
      /\ DOMAIN Coming = 1..Len(Coming)
      /\ \A i \in 1..Len(results) : Coming[i] = results[i]
      /\ \A i \in 1..Len(wire) : Coming[Len(results) + i] = wire[i]
  BY ComingTyped
<1>2. /\ Len(results') \in Nat /\ Len(wire') \in Nat /\ Len(Coming') = Len(results') + Len(wire')
      /\ DOMAIN Coming' = 1..Len(Coming')
      /\ \A i \in 1..Len(results') : Coming'[i] = results'[i]
      /\ \A i \in 1..Len(wire') : Coming'[Len(results') + i] = wire'[i]
  BY ComingTypedNext
<1>3. Len(wire') = n /\ \A i \in 1..n : wire'[i] = wire[i]
  <2>1. wire \in Seq(Result)
    BY DEF SttTypeOK
  <2>2. n \in Nat /\ n <= Len(wire)
    BY <1>1
  <2> QED BY <2>1, <2>2, Cut
<1>4. ASSUME NEW i \in DOMAIN Coming' PROVE i \in DOMAIN Coming /\ Coming'[i] = Coming[i]
  <2>1. CASE i <= Len(results)
    BY <1>1, <1>2, <2>1
  <2>2. CASE i > Len(results)
    <3> DEFINE k == i - Len(results)
    <3>1. k \in 1..n /\ k \in 1..Len(wire) /\ Len(results) + k = i /\ i \in DOMAIN Coming
      BY <1>1, <1>2, <1>3, <2>2
    <3> HIDE DEF k
    <3> QED BY <1>1, <1>2, <1>3, <3>1
  <2> QED BY <1>1, <1>2, <2>1, <2>2
<1>5. Len(results) + n \in 0..Len(Coming) /\ Len(Coming') = Len(results) + n
  BY <1>1, <1>2, <1>3
<1> QED BY <1>1, <1>2, <1>4, <1>5

LEMMA ComingStays ==
  ASSUME UNCHANGED <<results, wire>>
  PROVE  Coming' = Coming
BY DEF Coming

\* What _collect_stream_text does with the first result.
LEMMA CollectCases ==
  ASSUME Collect
  PROVE  /\ feeder = "take" /\ results # <<>> /\ results' = Tail(results)
         /\ UNCHANGED <<audioVars, fed, socket, serverVars, receiving>>
         /\ \/ /\ Head(results).kind = "closed"
               /\ committed' = committed \o live /\ live' = <<>> /\ feeder' = "done"
            \/ /\ Head(results).kind = "final"
               /\ committed' = committed \o Text(Head(results)) /\ live' = <<>> /\ feeder' = "take"
            \/ /\ Head(results).kind \notin {"closed", "final"}
               /\ live' = Text(Head(results)) /\ committed' = committed /\ feeder' = "take"
<1> DEFINE r == Head(results)
<1>1. CASE r.kind = "closed"
  BY <1>1 DEF Collect
<1>2. CASE r.kind = "final"
  BY <1>2 DEF Collect
<1>3. CASE r.kind \notin {"closed", "final"}
  <2>1. ~ (r.kind = "closed") /\ ~ (r.kind = "final")
    BY <1>3
  <2> HIDE DEF r
  <2> QED BY <1>3, <2>1 DEF Collect, r
<1> QED BY <1>1, <1>2, <1>3

LEMMA SttTypeStep ==
  ASSUME SttTypeOK, [SttNext]_sttVars
  PROVE  SttTypeOK'
<1>1. /\ MaxChunks \in Nat /\ spoken \subseteq 1..MaxChunks /\ said \in 0..MaxChunks
      /\ stopped \in BOOLEAN /\ fed \in 0..said
      /\ feeder \in {"feed", "take", "done", "failed", "cancelled"}
      /\ socket \in {"open", "closing", "closed", "broken"}
      /\ heard \in 0..fed /\ sure \in 0..heard /\ wire \in Seq(Result) /\ misheard \in BOOLEAN
      /\ receiving \in BOOLEAN /\ results \in Seq(Result \cup {Closed})
      /\ committed \in Seq(1..MaxChunks) /\ live \in Seq(1..MaxChunks)
  BY SttAssumption DEF SttTypeOK
<1>2. \A r \in Result : Text(r) \in Seq(1..MaxChunks)
  <2>1. \A m, n \in 0..MaxChunks : WordsIn(m, n) \in Seq(1..MaxChunks)
    BY WordsKnown
  <2> TAKE r \in Result
  <2>2. r.from \in 0..MaxChunks /\ r.to \in 1..MaxChunks /\ r.to \in 0..MaxChunks
    BY <1>1 DEF Result
  <2>3. <<r.to>> \in Seq(1..MaxChunks)
    BY <2>2
  <2> QED BY <2>1, <2>2, <2>3 DEF Text
<1>3. \A k \in {"interim", "misheard", "final"} : sure < heard => Hearing(k) \in Result
  BY <1>1 DEF Hearing, Result
<1>4. CASE Speak
  BY <1>1, <1>4 DEF Speak, SttTypeOK, serverVars, collectVars
<1>5. CASE StopRecording
  BY <1>1, <1>5 DEF StopRecording, SttTypeOK, serverVars, collectVars
<1>6. CASE Hears
  BY <1>1, <1>6 DEF Hears, SttTypeOK, audioVars, collectVars
<1>7. CASE Interim
  <2>1. wire' \in Seq(Result) /\ misheard' \in BOOLEAN
    <3>1. \/ wire' = Append(wire, Hearing("interim")) /\ misheard' = misheard
          \/ wire' = Append(wire, Hearing("misheard")) /\ misheard' = TRUE
      BY <1>7 DEF Interim
    <3>2. Hearing("interim") \in Result /\ Hearing("misheard") \in Result
      BY <1>3, <1>7 DEF Interim
    <3>3. wire' \in Seq(Result)
      <4>1. wire' = Append(wire, Hearing("interim")) \/ wire' = Append(wire, Hearing("misheard"))
        BY <3>1
      <4>2. wire \in Seq(Result)
        BY <1>1
      <4> QED BY <3>2, <4>1, <4>2
    <3>4. misheard' \in BOOLEAN
      BY <1>1, <3>1, Zenon
    <3> QED BY <3>3, <3>4
  <2> QED BY <1>1, <1>7, <2>1 DEF Interim, SttTypeOK, audioVars, collectVars
<1>8. CASE Finalises
  <2>1. wire' \in Seq(Result) /\ sure' \in 0..heard
    BY <1>1, <1>3, <1>8 DEF Finalises
  <2> QED BY <1>1, <1>8, <2>1 DEF Finalises, SttTypeOK, audioVars, collectVars
<1>9. CASE ServerCloses
  BY <1>1, <1>9 DEF ServerCloses, SttTypeOK, audioVars, serverVars, collectVars
<1>10. CASE ConnectionBreaks
  <2>1. PICK n \in 0..Len(wire) : wire' = SubSeq(wire, 1, n)
    BY <1>10 DEF ConnectionBreaks
  <2>2. n \in Nat /\ n <= Len(wire)
    <3>1. Len(wire) \in Nat
      BY <1>1
    <3> QED BY <3>1
  <2>3. wire' \in Seq(Result)
    BY <1>1, <2>1, <2>2, Cut
  <2> QED BY <1>1, <1>10, <2>3 DEF ConnectionBreaks, SttTypeOK, audioVars, collectVars
<1>11. CASE Feed
  BY <1>1, <1>11 DEF Feed, SttTypeOK, audioVars, serverVars, collectVars
<1>12. CASE Receive
  <2>1. wire' \in Seq(Result) /\ Head(wire) \in Result
    BY <1>1, <1>12, HeadTailProperties DEF Receive
  <2>2. results' \in Seq(Result \cup {Closed})
    BY <1>1, <1>12, <2>1 DEF Receive
  <2> QED BY <1>1, <1>12, <2>1, <2>2 DEF Receive, SttTypeOK, audioVars, collectVars
<1>13. CASE ReceiverEnds
  <2>1. results' \in Seq(Result \cup {Closed})
    BY <1>1, <1>13 DEF ReceiverEnds
  <2> QED BY <1>1, <1>13, <2>1 DEF ReceiverEnds, SttTypeOK, audioVars, serverVars, collectVars
<1>14. CASE Collect
  <2>1. Head(results) \in Result \cup {Closed} /\ results' \in Seq(Result \cup {Closed})
    BY <1>1, <1>14, HeadTailProperties DEF Collect
  <2>2. Head(results).kind # "closed" => Text(Head(results)) \in Seq(1..MaxChunks)
    BY <1>2, <2>1 DEF Closed
  <2>3. committed \o live \in Seq(1..MaxChunks)
        /\ \A t \in Seq(1..MaxChunks) : committed \o t \in Seq(1..MaxChunks)
    BY <1>1
  <2>e. <<>> \in Seq(1..MaxChunks)
    OBVIOUS
  <2>4. committed' \in Seq(1..MaxChunks) /\ live' \in Seq(1..MaxChunks) /\ feeder' \in {"take", "done"}
    BY <1>1, <1>14, <2>2, <2>3, <2>e, CollectCases
  <2> QED BY <1>1, <1>14, <2>1, <2>4 DEF Collect, SttTypeOK, audioVars, serverVars
<1>15. CASE CancelStream
  BY <1>1, <1>15 DEF CancelStream, SttTypeOK, audioVars, serverVars, collectVars
<1>16. CASE UNCHANGED sttVars
  BY <1>1, <1>16 DEF SttTypeOK, sttVars, audioVars, serverVars, collectVars
<1> QED BY <1>4, <1>5, <1>6, <1>7, <1>8, <1>9, <1>10, <1>11, <1>12, <1>13, <1>14, <1>15, <1>16
        DEF SttNext, Server, Client

\* The end is the first result only when it is the only one.
LEMMA AudioStep ==
  ASSUME SttTypeOK, AudioKnown, EndKnown, [SttNext]_sttVars
  PROVE  AudioKnown'
<1>1. /\ said \in Nat /\ stopped \in BOOLEAN /\ fed \in 0..said
      /\ feeder \in {"feed", "take", "done", "failed", "cancelled"}
      /\ socket \in {"open", "closing", "closed", "broken"}
      /\ heard \in 0..fed /\ sure \in 0..heard
  BY SttAssumption DEF SttTypeOK
<1>2. ASSUME Collect, Head(results).kind = "closed" PROVE socket \in {"closed", "broken"}
  <2>1. results # <<>>
    BY <1>2 DEF Collect
  <2>2. results \in Seq(Result \cup {Closed}) /\ Len(results) \in Nat /\ Head(results) = results[1]
        /\ Len(results) >= 1
    BY <2>1 DEF SttTypeOK
  <2>3. 1 \in DOMAIN Coming /\ Coming[1] = Head(results)
    <3>1. /\ Len(wire) \in Nat /\ Len(Coming) = Len(results) + Len(wire)
          /\ DOMAIN Coming = 1..Len(Coming)
          /\ \A i \in 1..Len(results) : Coming[i] = results[i]
      BY ComingTyped
    <3> QED BY <2>2, <3>1
  <2> QED BY <1>2, <2>3 DEF EndKnown
<1>3. CASE Collect
  <2>1. feeder = "take" /\ UNCHANGED <<audioVars, fed, socket, serverVars>>
        /\ (feeder' = "take" \/ (feeder' = "done" /\ Head(results).kind = "closed"))
    BY <1>3, CollectCases
  <2> QED BY <1>2, <1>3, <2>1 DEF AudioKnown, audioVars, serverVars
<1>4. CASE Feed
  BY <1>1, <1>4 DEF AudioKnown, Feed, audioVars, serverVars, collectVars
<1>5. CASE Server
  BY <1>1, <1>5 DEF AudioKnown, Server, Hears, Interim, Finalises, ServerCloses, audioVars, serverVars
<1>6. CASE Speak \/ StopRecording \/ ConnectionBreaks \/ CancelStream \/ UNCHANGED sttVars
  BY <1>1, <1>6 DEF AudioKnown, Speak, StopRecording, ConnectionBreaks, CancelStream, sttVars,
                    audioVars, serverVars
<1>7. CASE Receive \/ ReceiverEnds
  BY <1>1, <1>7 DEF AudioKnown, Receive, ReceiverEnds, audioVars, serverVars
<1> QED BY <1>3, <1>4, <1>5, <1>6, <1>7 DEF SttNext, Client

LEMMA EndStep ==
  ASSUME SttTypeOK, SttTypeOK', EndKnown, [SttNext]_sttVars
  PROVE  EndKnown'
<1> SUFFICES ASSUME NEW i \in DOMAIN Coming', Coming'[i].kind = "closed"
             PROVE  /\ i = Len(Coming') /\ wire' = <<>> /\ ~ receiving'
                    /\ socket' \in {"closed", "broken"}
  BY DEF EndKnown
<1>t. receiving \in BOOLEAN /\ DOMAIN Coming = 1..Len(Coming) /\ Len(Coming) \in Nat
      /\ DOMAIN Coming' = 1..Len(Coming') /\ Len(Coming') \in Nat
  <2>1. receiving \in BOOLEAN
    BY DEF SttTypeOK
  <2>2. DOMAIN Coming = 1..Len(Coming) /\ Len(Coming) \in Nat
    BY ComingTyped
  <2>3. DOMAIN Coming' = 1..Len(Coming') /\ Len(Coming') \in Nat
    BY ComingTypedNext
  <2> QED BY <2>1, <2>2, <2>3
<1>e. \A j \in DOMAIN Coming : Coming[j].kind = "closed" =>
         j = Len(Coming) /\ wire = <<>> /\ ~ receiving /\ socket \in {"closed", "broken"}
  BY DEF EndKnown
<1>1. CASE UNCHANGED <<results, wire>> /\ (receiving' = receiving \/ receiving' = FALSE)
           /\ (UNCHANGED socket \/ socket \in {"open", "closing"})
  <2>1. Coming' = Coming
    BY <1>1, ComingStays
  <2> QED BY <1>t, <1>e, <1>1, <2>1
<1>2. CASE Interim \/ Finalises
  <2>1. /\ socket \in {"open", "closing"} /\ results' = results
        /\ \E k \in {"interim", "misheard", "final"} : wire' = Append(wire, Hearing(k))
    BY <1>2 DEF Interim, Finalises
  <2>2. PICK k \in {"interim", "misheard", "final"} : wire' = Append(wire, Hearing(k))
    BY <2>1
  <2>3. /\ DOMAIN Coming' = 1..(Len(Coming) + 1) /\ Coming'[Len(Coming) + 1] = Hearing(k)
        /\ \A j \in DOMAIN Coming : Coming'[j] = Coming[j]
    BY <2>1, <2>2, ComingAdded
  <2>4. Hearing(k).kind # "closed"
    BY <2>2 DEF Hearing
  <2>5. i \in DOMAIN Coming /\ Coming[i].kind = "closed"
    BY <1>t, <2>3, <2>4
  <2> QED BY <1>e, <2>1, <2>5
<1>3. CASE ConnectionBreaks
  <2>1. PICK n \in 0..Len(wire) : wire' = SubSeq(wire, 1, n)
    BY <1>3 DEF ConnectionBreaks
  <2>2. results' = results /\ socket \in {"open", "closing"}
    BY <1>3 DEF ConnectionBreaks
  <2>3. i \in DOMAIN Coming /\ Coming'[i] = Coming[i]
    BY <2>1, <2>2, ComingCut
  <2> QED BY <1>e, <2>2, <2>3
<1>4. CASE Receive
  <2>1. receiving /\ wire # <<>> /\ wire' = Tail(wire)
        /\ (results' = results \/ results' = Append(results, Head(wire)))
    BY <1>4 DEF Receive
  <2>2. \E j \in DOMAIN Coming : Coming'[i] = Coming[j]
    <3>1. /\ DOMAIN Coming = 1..Len(Coming) /\ Len(Coming) \in Nat
          /\ results' = Append(results, Head(wire)) => Coming' = Coming
          /\ results' = results =>
               /\ DOMAIN Coming' = 1..(Len(Coming) - 1)
               /\ \A j \in DOMAIN Coming' :
                     Coming'[j] = IF j <= Len(results) THEN Coming[j] ELSE Coming[j + 1]
      BY <2>1, ComingReceived
    <3>2. CASE results' = results
      <4>1. i \in DOMAIN Coming /\ i + 1 \in DOMAIN Coming
        BY <3>1, <3>2
      <4> QED BY <3>1, <3>2, <4>1
    <3> QED BY <2>1, <3>1, <3>2
  <2> QED BY <1>e, <2>1, <2>2
<1>5. CASE ReceiverEnds
  <2>1. /\ receiving /\ wire = <<>> /\ wire' = <<>> /\ results' = Append(results, Closed)
        /\ receiving' = FALSE /\ socket \in {"closed", "broken"} /\ socket' = socket
    BY <1>5 DEF ReceiverEnds, serverVars
  <2>2. /\ DOMAIN Coming' = 1..(Len(Coming) + 1) /\ Len(Coming') = Len(Coming) + 1
        /\ \A j \in DOMAIN Coming : Coming'[j] = Coming[j]
    BY <2>1, ComingAdded
  <2>3. i \notin DOMAIN Coming
    BY <1>e, <2>1, <2>2
  <2>4. i = Len(Coming')
    BY <1>t, <2>2, <2>3
  <2> QED BY <2>1, <2>4
<1>6. CASE Collect
  <2>1. results # <<>> /\ results' = Tail(results) /\ UNCHANGED <<wire, receiving, socket>>
    BY <1>6 DEF Collect, serverVars
  <2>2. /\ DOMAIN Coming' = 1..(Len(Coming) - 1) /\ Len(Coming') = Len(Coming) - 1
        /\ \A j \in DOMAIN Coming' : Coming'[j] = Coming[j + 1]
    BY <2>1, ComingTaken
  <2>3. i + 1 \in DOMAIN Coming /\ Coming[i + 1].kind = "closed"
    BY <1>t, <2>2
  <2>4. i + 1 = Len(Coming) /\ wire = <<>> /\ ~ receiving /\ socket \in {"closed", "broken"}
    BY <1>e, <2>3
  <2> QED BY <1>t, <2>1, <2>2, <2>4
<1>7. CASE Speak \/ StopRecording \/ CancelStream \/ UNCHANGED sttVars \/ Hears \/ ServerCloses \/ Feed
  <2>1. UNCHANGED <<results, wire>> /\ (receiving' = receiving \/ receiving' = FALSE)
        /\ (UNCHANGED socket \/ socket \in {"open", "closing"})
    BY <1>7 DEF Speak, StopRecording, CancelStream, sttVars, Hears, ServerCloses, Feed, serverVars
  <2> QED BY <1>1, <2>1
<1> QED BY <1>2, <1>3, <1>4, <1>5, <1>6, <1>7 DEF SttNext, Server, Client

-----------------------------------------------------------------------------
\* Where the results begin after one was added behind them.
LEMMA AddedNext ==
  ASSUME SttTypeOK, SttTypeOK', EndKnown, socket \in {"open", "closing"},
         NEW k \in {"interim", "misheard", "final"},
         wire' = Append(wire, Hearing(k)), results' = results
  PROVE  /\ Len(Coming) \in Nat /\ DOMAIN Coming = 1..Len(Coming)
         /\ DOMAIN Coming' = 1..(Len(Coming) + 1)
         /\ Coming'[Len(Coming) + 1] = Hearing(k)
         /\ \A i \in 1..Len(Coming) : Coming'[i] = Coming[i]
         /\ \A i \in 1..(Len(Coming) + 1) : From(i)' = From(i)
         /\ \A i : i = Len(Coming) + 2 => From(i)' = sure'
<1> DEFINE n == Len(Coming)
<1>1. /\ n \in Nat /\ DOMAIN Coming = 1..n /\ DOMAIN Coming' = 1..(n + 1)
      /\ Coming'[n + 1] = Hearing(k)
      /\ \A i \in 1..n : Coming'[i] = Coming[i]
  BY ComingAdded
<1>2. Hearing(k).kind = k /\ k # "closed" /\ Hearing(k).from = sure
  BY DEF Hearing
<1> HIDE DEF n
<1>3. ASSUME NEW i, i = n + 1 PROVE From(i)' = From(i)
  <2>1. i \in DOMAIN Coming' /\ i \notin DOMAIN Coming
    BY <1>1, <1>3
  <2> QED BY <1>1, <1>2, <1>3, <2>1 DEF From, Holds
<1>4. ASSUME NEW i, i = n + 2 PROVE From(i)' = sure'
  <2>1. i \notin DOMAIN Coming'
    BY <1>1, <1>4
  <2> QED BY <2>1 DEF From, Holds
<1>5. ASSUME NEW i \in 1..n PROVE From(i)' = From(i)
  <2>1. i \in DOMAIN Coming' /\ i \in DOMAIN Coming /\ Coming'[i] = Coming[i]
    BY <1>1, <1>5
  <2>2. Coming[i].kind # "closed"
    BY <2>1 DEF EndKnown
  <2> QED BY <2>1, <2>2 DEF From, Holds
<1>6. \A i \in 1..(n + 1) : i = n + 1 \/ i \in 1..n
  BY <1>1
<1> QED BY <1>1, <1>3, <1>4, <1>5, <1>6 DEF n

\* Where the results begin after a step that left or cut their order: after the end
\* was added, after the connection broke, and after one was received and dropped.
LEMMA EndedNext ==
  ASSUME SttTypeOK, SttTypeOK', wire = <<>>, wire' = <<>>, results' = Append(results, Closed),
         sure' = sure
  PROVE  /\ \A i \in DOMAIN Coming' : Coming'[i].kind # "closed" =>
                i \in DOMAIN Coming /\ Coming'[i] = Coming[i]
         /\ \A i \in Nat : From(i)' = From(i) /\ (Holds(i)' <=> Holds(i))
<1> DEFINE n == Len(Coming)
<1>1. /\ n \in Nat /\ DOMAIN Coming = 1..n /\ DOMAIN Coming' = 1..(n + 1)
      /\ Coming'[n + 1] = Closed
      /\ \A i \in 1..n : Coming'[i] = Coming[i]
  BY ComingAdded
<1>2. Closed.kind = "closed"
  BY DEF Closed
<1> HIDE DEF n
<1>3. ASSUME NEW i \in Nat PROVE Holds(i)' <=> Holds(i)
  <2>1. CASE i \in 1..n
    BY <1>1, <2>1 DEF Holds
  <2>2. CASE i \notin 1..n
    <3>1. ~ Holds(i)
      BY <1>1, <2>2 DEF Holds
    <3>2. ~ Holds(i)'
      BY <1>1, <1>2, <2>2 DEF Holds
    <3> QED BY <3>1, <3>2
  <2> QED BY <2>1, <2>2
<1>4. ASSUME NEW i \in Nat PROVE From(i)' = From(i)
  <2>1. Holds(i)' <=> Holds(i)
    BY <1>3
  <2>2. Holds(i) => Coming'[i] = Coming[i]
    BY <1>1 DEF Holds
  <2> QED BY <2>1, <2>2 DEF From
<1>5. ASSUME NEW i \in DOMAIN Coming', Coming'[i].kind # "closed"
      PROVE  i \in DOMAIN Coming /\ Coming'[i] = Coming[i]
  BY <1>1, <1>2, <1>5
<1> QED BY <1>3, <1>4, <1>5

LEMMA CutNext ==
  ASSUME SttTypeOK, SttTypeOK', results' = results, NEW n \in 0..Len(wire), wire' = SubSeq(wire, 1, n)
  PROVE  /\ \A i \in DOMAIN Coming' : i \in DOMAIN Coming /\ Coming'[i] = Coming[i]
         /\ \A i : Holds(i)' => Holds(i) /\ From(i)' = From(i)
<1>1. \A i \in DOMAIN Coming' : i \in DOMAIN Coming /\ Coming'[i] = Coming[i]
  BY ComingCut
<1>2. ASSUME NEW i, Holds(i)' PROVE Holds(i) /\ From(i)' = From(i)
  <2>1. i \in DOMAIN Coming' /\ Coming'[i].kind # "closed"
    BY <1>2 DEF Holds
  <2> QED BY <1>1, <1>2, <2>1 DEF From, Holds
<1> QED BY <1>1, <1>2

LEMMA DroppedNext ==
  ASSUME SttTypeOK, SttTypeOK', wire # <<>>, wire' = Tail(wire), results' = results, sure' = sure,
         NEW k, k = Len(results) + 1
  PROVE  /\ k \in DOMAIN Coming /\ k \in Nat \ {0} /\ Coming[k] = Head(wire) /\ Head(wire) \in Result
         /\ \A i \in DOMAIN Coming' :
               IF i < k THEN i \in DOMAIN Coming /\ Coming'[i] = Coming[i]
               ELSE i + 1 \in DOMAIN Coming /\ Coming'[i] = Coming[i + 1]
         /\ \A i \in Nat \ {0} :
               IF i < k THEN From(i)' = From(i) /\ (Holds(i)' <=> Holds(i))
               ELSE From(i)' = From(i + 1) /\ (Holds(i)' <=> Holds(i + 1))
<1> DEFINE n == Len(Coming)
           m == Len(results)
<1>1. /\ k \in DOMAIN Coming /\ Coming[k] = Head(wire) /\ Head(wire) \in Result
      /\ DOMAIN Coming = 1..n /\ n \in Nat /\ m \in Nat /\ DOMAIN Coming' = 1..(n - 1)
      /\ \A i \in DOMAIN Coming' : Coming'[i] = IF i <= m THEN Coming[i] ELSE Coming[i + 1]
  BY ComingReceived
<1>2. k = m + 1
  OBVIOUS
<1> HIDE DEF n, m
<1>3. ASSUME NEW i \in DOMAIN Coming'
      PROVE  IF i < k THEN i \in DOMAIN Coming /\ Coming'[i] = Coming[i]
             ELSE i + 1 \in DOMAIN Coming /\ Coming'[i] = Coming[i + 1]
  BY <1>1, <1>2, <1>3
<1>4. ASSUME NEW i \in Nat \ {0}, i < k PROVE From(i)' = From(i) /\ (Holds(i)' <=> Holds(i))
  <2>1. i \in DOMAIN Coming /\ i \in DOMAIN Coming'
    BY <1>1, <1>2, <1>4
  <2>2. Coming'[i] = Coming[i]
    BY <1>3, <1>4, <2>1
  <2> QED BY <2>1, <2>2 DEF From, Holds
<1>5. ASSUME NEW i \in Nat \ {0}, ~ (i < k)
      PROVE  From(i)' = From(i + 1) /\ (Holds(i)' <=> Holds(i + 1))
  <2>1. i \in DOMAIN Coming' <=> i + 1 \in DOMAIN Coming
    BY <1>1, <1>2, <1>5
  <2>2. i \in DOMAIN Coming' => Coming'[i] = Coming[i + 1]
    BY <1>3, <1>5
  <2> QED BY <2>1, <2>2 DEF From, Holds
<1> QED BY <1>1, <1>2, <1>3, <1>4, <1>5

\* Where they begin after the first was taken.
LEMMA TakenNext ==
  ASSUME SttTypeOK, SttTypeOK', results # <<>>, results' = Tail(results), wire' = wire, sure' = sure
  PROVE  /\ 1 \in DOMAIN Coming /\ Coming[1] = Head(results) /\ Head(results) \in Result \cup {Closed}
         /\ DOMAIN Coming = 1..Len(Coming)
         /\ \A i \in DOMAIN Coming' : i \in Nat /\ i + 1 \in DOMAIN Coming /\ Coming'[i] = Coming[i + 1]
         /\ \A i \in Nat \ {0} : From(i)' = From(i + 1) /\ (Holds(i)' <=> Holds(i + 1))
<1> DEFINE n == Len(Coming)
<1>1. /\ 1 \in DOMAIN Coming /\ Coming[1] = Head(results) /\ Head(results) \in Result \cup {Closed}
      /\ DOMAIN Coming = 1..n /\ n \in Nat /\ DOMAIN Coming' = 1..(n - 1)
      /\ \A i \in DOMAIN Coming' : Coming'[i] = Coming[i + 1]
  BY ComingTaken
<1> HIDE DEF n
<1>2. ASSUME NEW i \in Nat \ {0} PROVE From(i)' = From(i + 1) /\ (Holds(i)' <=> Holds(i + 1))
  <2>1. i \in DOMAIN Coming' <=> i + 1 \in DOMAIN Coming
    BY <1>1, <1>2
  <2> QED BY <1>1, <2>1 DEF From, Holds
<1>3. ASSUME NEW i \in DOMAIN Coming' PROVE i \in Nat /\ i + 1 \in DOMAIN Coming
  BY <1>1, <1>3
<1> QED BY <1>1, <1>2, <1>3 DEF n

\* A result that is received without a text is about silence.
LEMMA SilentResult ==
  ASSUME SttTypeOK, NEW r \in Result, Text(r) = <<>>, r.from < r.to
  PROVE  r.kind # "misheard" /\ WordsUpto[r.to] = WordsUpto[r.from]
         /\ WordsUpto[Ahead(r)] = WordsUpto[r.from]
<1>1. r.from \in 0..MaxChunks /\ r.to \in 0..MaxChunks /\ r.from <= r.to
  BY SttAssumption DEF Result
<1>2. r.kind # "misheard"
  BY DEF Text
<1>3. WordsIn(r.from, r.to) = <<>>
  BY <1>2 DEF Text
<1> DEFINE a == WordsUpto[r.from]
<1>4. a \in Seq(1..MaxChunks) /\ a \o <<>> = WordsUpto[r.to]
  BY <1>1, <1>3, WordsKnown
<1> HIDE DEF a
<1>5. a = WordsUpto[r.to]
  BY <1>4, ConcatEmptySeq
<1> QED BY <1>2, <1>5 DEF Ahead, a

\* Each result still goes on where the one before it has ended.
LEMMA ComingNext ==
  ASSUME SttInv, SttTypeOK', [SttNext]_sttVars
  PROVE  ComingKnown'
<1> SUFFICES ASSUME NEW i \in DOMAIN Coming', Coming'[i].kind # "closed"
             PROVE  /\ Coming'[i].from < Coming'[i].to /\ Coming'[i].from <= sure'
                    /\ Coming'[i].to <= heard'
                    /\ Coming'[i].kind = "final" => Coming'[i].to <= sure'
                    /\ Coming'[i].kind = "misheard" => misheard'
                    /\ (socket' # "broken" \/ Holds(i + 1)') =>
                          WordsUpto[Ahead(Coming'[i])] = WordsUpto[From(i + 1)']
  <2>1. WordsUpto' = WordsUpto
    BY SpokenStays
  <2> QED BY <2>1 DEF ComingKnown, Ahead
<1>t. /\ SttTypeOK /\ EndKnown /\ sure \in Nat /\ heard \in Nat /\ sure <= heard
      /\ socket \in {"open", "closing", "closed", "broken"}
  BY SttAssumption DEF SttInv, SttTypeOK
<1>d. /\ DOMAIN Coming = 1..Len(Coming) /\ Len(Coming) \in Nat /\ i \in Nat \ {0}
  BY <1>t, ComingTyped, ComingTypedNext
<1>k. \A j \in DOMAIN Coming : Coming[j].kind # "closed" =>
        /\ Coming[j].from < Coming[j].to /\ Coming[j].from <= sure /\ Coming[j].to <= heard
        /\ Coming[j].kind = "final" => Coming[j].to <= sure
        /\ Coming[j].kind = "misheard" => misheard
        /\ (socket # "broken" \/ Holds(j + 1)) =>
              WordsUpto[Ahead(Coming[j])] = WordsUpto[From(j + 1)]
  BY DEF SttInv, ComingKnown
<1>r. \A j \in DOMAIN Coming : Coming[j].kind # "closed" =>
         Coming[j].from \in 0..MaxChunks /\ Coming[j].to \in 1..MaxChunks
  <2>1. Coming \in Seq(Result \cup {Closed})
    BY <1>t, ComingTyped
  <2>2. \A j \in DOMAIN Coming : Coming[j] \in Result \cup {Closed}
    BY <1>d, <2>1
  <2> QED BY <2>2 DEF Result, Closed
<1>1. CASE UNCHANGED <<results, wire, sure, misheard>> /\ heard' \in Nat /\ heard <= heard'
           /\ (socket' # "broken" => socket # "broken")
  <2>1. Coming' = Coming
    BY <1>1, ComingStays
  <2>2. (Holds(i + 1)' <=> Holds(i + 1)) /\ From(i + 1)' = From(i + 1)
    BY <1>1, <2>1 DEF From, Holds
  <2>3. Coming[i].to <= heard'
    BY <1>t, <1>k, <1>r, <1>1, <2>1
  <2> QED BY <1>k, <1>1, <2>1, <2>2, <2>3
<1>2. CASE Interim \/ Finalises
  <2>1. /\ socket \in {"open", "closing"} /\ results' = results /\ sure < heard /\ heard' = heard
        /\ \E k \in {"interim", "misheard", "final"} : wire' = Append(wire, Hearing(k))
                /\ sure' = (IF k = "final" THEN heard ELSE sure)
                /\ (misheard => misheard') /\ (k = "misheard" => misheard')
    BY <1>2 DEF Interim, Finalises
  <2>2. PICK k \in {"interim", "misheard", "final"} : wire' = Append(wire, Hearing(k))
                /\ sure' = (IF k = "final" THEN heard ELSE sure)
                /\ (misheard => misheard') /\ (k = "misheard" => misheard')
    BY <2>1
  <2> DEFINE n == Len(Coming)
  <2>3. /\ DOMAIN Coming' = 1..(n + 1) /\ Coming'[n + 1] = Hearing(k)
        /\ \A j \in 1..n : Coming'[j] = Coming[j]
        /\ \A j \in 1..(n + 1) : From(j)' = From(j)
        /\ \A j : j = n + 2 => From(j)' = sure'
    BY <1>t, <2>1, <2>2, AddedNext
  <2>4. DOMAIN Coming = 1..n /\ n \in Nat /\ sure' \in Nat /\ sure <= sure'
    BY <1>t, <1>d, <2>1, <2>2
  <2> HIDE DEF n
  <2>5. CASE i \in 1..n
    <3>1. Coming'[i] = Coming[i] /\ From(i + 1)' = From(i + 1) /\ i \in DOMAIN Coming
      BY <2>3, <2>4, <2>5
    <3>2. socket # "broken"
      BY <2>1
    <3> DEFINE r == Coming[i]
    <3>3. /\ r.from < r.to /\ r.from <= sure /\ r.to <= heard
          /\ r.kind = "final" => r.to <= sure
          /\ r.kind = "misheard" => misheard
          /\ WordsUpto[Ahead(r)] = WordsUpto[From(i + 1)]
          /\ r.from \in Nat /\ r.to \in Nat
      <4>1. Coming[i].kind # "closed"
        BY <3>1
      <4>2. r.from \in Nat /\ r.to \in Nat
        BY <1>r, <3>1, <4>1
      <4> QED BY <1>k, <3>1, <3>2, <4>1, <4>2
    <3> HIDE DEF r
    <3>4. r.from <= sure' /\ (r.kind = "final" => r.to <= sure')
      BY <1>t, <2>4, <3>3
    <3>5. r.kind = "misheard" => misheard'
      BY <2>2, <3>3, Zenon
    <3>6. Coming'[i] = r
      BY <3>1 DEF r
    <3> QED BY <2>1, <3>1, <3>3, <3>4, <3>5, <3>6
  <2>6. CASE i = n + 1
    <3>1. Coming'[i] = Hearing(k) /\ From(i + 1)' = sure'
      <4>1. i + 1 = n + 2
        BY <2>4, <2>6
      <4> QED BY <2>3, <2>6, <4>1
    <3>2. Hearing(k).kind = k /\ Hearing(k).from = sure /\ Hearing(k).to = heard
      BY DEF Hearing
    <3>3. Ahead(Hearing(k)) = sure'
      BY <2>2, <3>2 DEF Ahead
    <3>4. k = "misheard" => misheard'
      BY <2>2
    <3>5. sure < heard /\ sure <= sure' /\ heard <= heard' /\ (k = "final" => heard <= sure')
      BY <1>t, <2>1, <2>2
    <3> QED BY <3>1, <3>2, <3>3, <3>4, <3>5
  <2> QED BY <2>3, <2>4, <2>5, <2>6
<1>3. CASE ConnectionBreaks
  <2>1. PICK n \in 0..Len(wire) : wire' = SubSeq(wire, 1, n)
    BY <1>3 DEF ConnectionBreaks
  <2>2. results' = results /\ UNCHANGED <<heard, sure, misheard>> /\ socket' = "broken"
    BY <1>3 DEF ConnectionBreaks
  <2>3. /\ i \in DOMAIN Coming /\ Coming'[i] = Coming[i]
        /\ Holds(i + 1)' => Holds(i + 1) /\ From(i + 1)' = From(i + 1)
    BY <1>t, <2>1, <2>2, CutNext
  <2> QED BY <1>k, <2>2, <2>3
<1>4. CASE Receive
  <2>1. /\ wire # <<>> /\ wire' = Tail(wire) /\ UNCHANGED <<socket, heard, sure, misheard>>
        /\ results' = IF Text(Head(wire)) = <<>> THEN results ELSE Append(results, Head(wire))
    BY <1>4 DEF Receive
  <2>2. CASE results' = Append(results, Head(wire))
    <3>1. Coming' = Coming
      BY <1>t, <2>1, <2>2, ComingReceived
    <3>2. (Holds(i + 1)' <=> Holds(i + 1)) /\ From(i + 1)' = From(i + 1)
      BY <2>1, <3>1 DEF From, Holds
    <3> QED BY <1>k, <2>1, <3>1, <3>2
  <2>3. CASE Text(Head(wire)) = <<>> /\ results' = results
    <3> DEFINE k == Len(results) + 1
               r == Head(wire)
    <3>1. /\ k \in DOMAIN Coming /\ k \in Nat \ {0} /\ Coming[k] = r /\ r \in Result
          /\ \A j \in DOMAIN Coming' :
               IF j < k THEN j \in DOMAIN Coming /\ Coming'[j] = Coming[j]
               ELSE j + 1 \in DOMAIN Coming /\ Coming'[j] = Coming[j + 1]
          /\ \A j \in Nat \ {0} :
               IF j < k THEN From(j)' = From(j) /\ (Holds(j)' <=> Holds(j))
               ELSE From(j)' = From(j + 1) /\ (Holds(j)' <=> Holds(j + 1))
      BY <1>t, <2>1, <2>3, DroppedNext
    <3>2. r.kind # "closed" /\ From(k) = r.from /\ Holds(k)
      <4>1. r.kind # "closed"
        BY <3>1 DEF Result
      <4> QED BY <3>1, <4>1 DEF From, Holds
    <3>3. WordsUpto[Ahead(r)] = WordsUpto[From(k)]
      BY <1>t, <1>k, <2>3, <3>1, <3>2, SilentResult
    <3> HIDE DEF k, r
    <3>4. CASE i < k
      <4>1. i \in DOMAIN Coming /\ Coming'[i] = Coming[i] /\ Coming[i].kind # "closed"
        BY <3>1, <3>4
      <4>2. CASE i + 1 < k
        BY <1>d, <1>k, <2>1, <3>1, <4>1, <4>2
      <4>3. CASE i + 1 = k
        <5>1. From(i + 1)' = From(k + 1) /\ (Holds(i + 1)' <=> Holds(k + 1))
          BY <3>1, <4>3
        <5>2. WordsUpto[From(i + 1)] = WordsUpto[Ahead(r)] /\ Holds(i + 1)
          BY <3>2, <3>3, <4>3
        <5>3. socket # "broken" \/ Holds(k + 1) => WordsUpto[Ahead(r)] = WordsUpto[From(k + 1)]
          BY <1>k, <3>1, <3>2
        <5> QED BY <1>k, <2>1, <4>1, <5>1, <5>2, <5>3
      <4> QED BY <1>d, <3>1, <3>4, <4>2, <4>3
    <3>5. CASE ~ (i < k)
      <4>1. i + 1 \in DOMAIN Coming /\ Coming'[i] = Coming[i + 1]
        BY <3>1, <3>5
      <4>2. i + 1 \in Nat \ {0} /\ ~ (i + 1 < k)
        <5>1. i \in Nat /\ k \in Nat
          BY <1>d, <3>1
        <5> QED BY <3>5, <5>1
      <4>3. From(i + 1)' = From((i + 1) + 1) /\ (Holds(i + 1)' <=> Holds((i + 1) + 1))
        BY <3>1, <4>2
      <4> QED BY <1>k, <2>1, <4>1, <4>3
    <3> QED BY <3>4, <3>5
  <2> QED BY <2>1, <2>2, <2>3
<1>5. CASE ReceiverEnds
  <2>1. /\ wire = <<>> /\ wire' = <<>> /\ results' = Append(results, Closed)
        /\ UNCHANGED <<socket, heard, sure, misheard>>
    BY <1>5 DEF ReceiverEnds, serverVars
  <2>2. /\ i \in DOMAIN Coming /\ Coming'[i] = Coming[i]
        /\ From(i + 1)' = From(i + 1) /\ (Holds(i + 1)' <=> Holds(i + 1))
    <3>1. i + 1 \in Nat
      BY <1>d
    <3> QED BY <1>t, <2>1, <3>1, EndedNext
  <2> QED BY <1>k, <2>1, <2>2
<1>6. CASE Collect
  <2>1. /\ results # <<>> /\ results' = Tail(results) /\ wire' = wire
        /\ UNCHANGED <<socket, heard, sure, misheard>>
    BY <1>6, CollectCases DEF serverVars
  <2>2. /\ i + 1 \in DOMAIN Coming /\ Coming'[i] = Coming[i + 1]
        /\ From(i + 1)' = From((i + 1) + 1) /\ (Holds(i + 1)' <=> Holds((i + 1) + 1))
    <3>1. i + 1 \in Nat \ {0}
      BY <1>d
    <3> QED BY <1>t, <2>1, <3>1, TakenNext
  <2> QED BY <1>k, <2>1, <2>2
<1>7. CASE Speak \/ StopRecording \/ CancelStream \/ UNCHANGED sttVars \/ Hears \/ ServerCloses \/ Feed
  <2>1. UNCHANGED <<results, wire, sure, misheard>> /\ (heard' = heard \/ heard' = heard + 1)
        /\ (socket' # "broken" => socket # "broken")
    BY <1>7 DEF Speak, StopRecording, CancelStream, sttVars, Hears, ServerCloses, Feed, serverVars
  <2> QED BY <1>t, <1>1, <2>1
<1> QED BY <1>2, <1>3, <1>4, <1>5, <1>6, <1>7 DEF SttNext, Server, Client

\* Whatever is collected is still the words of the first chunks.
LEMMA CollectedNext ==
  ASSUME SttInv, SttTypeOK', [SttNext]_sttVars
  PROVE  CollectedKnown'
<1> DEFINE w == WordsUpto
<1>w. WordsUpto' = w
  BY SpokenStays
<1>t. /\ SttTypeOK /\ EndKnown /\ AudioKnown /\ ComingKnown /\ MaxChunks \in Nat
      /\ said \in 0..MaxChunks /\ fed \in 0..said /\ heard \in 0..fed /\ sure \in 0..heard
      /\ feeder \in {"feed", "take", "done", "failed", "cancelled"}
      /\ socket \in {"open", "closing", "closed", "broken"}
      /\ committed \in Seq(1..MaxChunks) /\ live \in Seq(1..MaxChunks)
  BY SttAssumption DEF SttInv, SttTypeOK
<1>d. /\ DOMAIN Coming = 1..Len(Coming) /\ Len(Coming) \in Nat
  BY <1>t, ComingTyped
<1>c. /\ feeder \in {"feed", "take"} =>
            /\ socket # "broken" \/ Holds(1) => committed = w[From(1)]
            /\ \E c \in 0..heard : committed = w[c]
            /\ ~misheard => \E c \in 0..heard : committed \o live = w[c]
      /\ feeder = "done" /\ ~misheard => /\ \E c \in 0..heard : committed = w[c]
                                         /\ socket = "closed" => committed = w[said]
  BY DEF SttInv, CollectedKnown
<1>s. SUFFICES
        /\ feeder' \in {"feed", "take"} =>
             /\ socket' # "broken" \/ Holds(1)' => committed' = w[From(1)']
             /\ \E c \in 0..heard' : committed' = w[c]
             /\ ~misheard' => \E c \in 0..heard' : committed' \o live' = w[c]
        /\ feeder' = "done" /\ ~misheard' => /\ \E c \in 0..heard' : committed' = w[c]
                                             /\ socket' = "closed" => committed' = w[said']
  BY <1>w DEF CollectedKnown
<1> HIDE DEF w
\* A step that collects nothing leaves the place where the next result begins.
<1>1. CASE /\ UNCHANGED <<committed, live>> /\ heard' \in Nat /\ heard <= heard'
           /\ feeder' \in {"feed", "take"} => feeder \in {"feed", "take"}
           /\ feeder' = "done" => feeder = "done" /\ UNCHANGED <<socket, said>>
           /\ ~misheard' => ~misheard
           /\ feeder \in {"feed", "take"} /\ (socket' # "broken" \/ Holds(1)') =>
                 (socket # "broken" \/ Holds(1)) /\ w[From(1)'] = w[From(1)]
  <2>1. \A c \in 0..heard : c \in 0..heard'
    BY <1>t, <1>1
  <2>2. ASSUME feeder' \in {"feed", "take"}
        PROVE  /\ socket' # "broken" \/ Holds(1)' => committed' = w[From(1)']
               /\ \E c \in 0..heard' : committed' = w[c]
               /\ ~misheard' => \E c \in 0..heard' : committed' \o live' = w[c]
    BY <1>c, <1>1, <2>1, <2>2
  <2>3. ASSUME feeder' = "done", ~misheard'
        PROVE  /\ \E c \in 0..heard' : committed' = w[c]
               /\ socket' = "closed" => committed' = w[said']
    BY <1>c, <1>1, <2>1, <2>3
  <2> QED BY <2>2, <2>3
<1>2. CASE Interim \/ Finalises
  <2>1. /\ socket \in {"open", "closing"} /\ results' = results
        /\ UNCHANGED <<heard, committed, live, feeder, socket, said>> /\ (~misheard' => ~misheard)
        /\ \E k \in {"interim", "misheard", "final"} : wire' = Append(wire, Hearing(k))
    BY <1>2 DEF Interim, Finalises, collectVars, audioVars
  <2>2. PICK k \in {"interim", "misheard", "final"} : wire' = Append(wire, Hearing(k))
    BY <2>1
  <2>3. From(1)' = From(1)
    <3>1. \A j \in 1..(Len(Coming) + 1) : From(j)' = From(j)
      BY <1>t, <2>1, <2>2, AddedNext
    <3> QED BY <1>d, <3>1
  <2>h. heard' \in Nat /\ heard <= heard'
    BY <1>t, <2>1
  <2> QED BY <1>1, <2>1, <2>3, <2>h
<1>3. CASE ConnectionBreaks
  <2>1. PICK n \in 0..Len(wire) : wire' = SubSeq(wire, 1, n)
    BY <1>3 DEF ConnectionBreaks
  <2>2. results' = results /\ UNCHANGED <<heard, sure, misheard, committed, live, feeder>> /\ socket' = "broken"
        /\ socket \in {"open", "closing"}
    BY <1>3 DEF ConnectionBreaks, collectVars
  <2>3. Holds(1)' => Holds(1) /\ From(1)' = From(1)
    BY <1>t, <2>1, <2>2, CutNext
  <2>4. feeder # "done"
    BY <1>t, <2>2 DEF AudioKnown
  <2>h. heard' \in Nat /\ heard <= heard'
    BY <1>t, <2>2
  <2> QED BY <1>1, <2>2, <2>3, <2>4, <2>h
<1>4. CASE Receive
  <2>1. /\ wire # <<>> /\ wire' = Tail(wire) /\ feeder \in {"feed", "take"}
        /\ UNCHANGED <<socket, heard, sure, misheard, committed, live, feeder>>
        /\ results' = IF Text(Head(wire)) = <<>> THEN results ELSE Append(results, Head(wire))
    BY <1>4 DEF Receive, collectVars
  <2>2. socket' # "broken" \/ Holds(1)' =>
          (socket # "broken" \/ Holds(1)) /\ w[From(1)'] = w[From(1)]
    <3>1. CASE results' = Append(results, Head(wire))
      <4>1. Coming' = Coming
        BY <1>t, <2>1, <3>1, ComingReceived
      <4> QED BY <2>1, <4>1 DEF From, Holds
    <3>2. CASE Text(Head(wire)) = <<>> /\ results' = results
      <4> DEFINE k == Len(results) + 1
                 r == Head(wire)
      <4>1. /\ k \in DOMAIN Coming /\ k \in Nat \ {0} /\ Coming[k] = r /\ r \in Result
            /\ \A j \in Nat \ {0} :
                 IF j < k THEN From(j)' = From(j) /\ (Holds(j)' <=> Holds(j))
                 ELSE From(j)' = From(j + 1) /\ (Holds(j)' <=> Holds(j + 1))
        BY <1>t, <2>1, <3>2, DroppedNext
      <4>2. r.kind # "closed" /\ From(k) = r.from /\ Holds(k)
        <5>1. r.kind # "closed"
          BY <4>1 DEF Result
        <5> QED BY <4>1, <5>1 DEF From, Holds
      <4>3. /\ w[Ahead(r)] = w[From(k)]
            /\ (socket # "broken" \/ Holds(k + 1)) => w[Ahead(r)] = w[From(k + 1)]
        <5>1. /\ r.from < r.to
              /\ (socket # "broken" \/ Holds(k + 1)) => w[Ahead(r)] = w[From(k + 1)]
          BY <1>t, <4>1, <4>2 DEF ComingKnown, w
        <5>2. w[Ahead(r)] = w[r.from]
          BY <1>t, <3>2, <4>1, <5>1, SilentResult DEF w
        <5> QED BY <4>2, <5>1, <5>2
      <4> HIDE DEF k, r
      <4>4. CASE 1 < k
        BY <2>1, <4>1, <4>4
      <4>5. CASE ~ (1 < k)
        <5>1. k = 1
          BY <4>1, <4>5
        <5>2. From(1)' = From(k + 1) /\ (Holds(1)' <=> Holds(k + 1))
          BY <4>1, <5>1
        <5> QED BY <2>1, <4>2, <4>3, <5>1, <5>2
      <4> QED BY <4>4, <4>5
    <3> QED BY <2>1, <3>1, <3>2
  <2>h. heard' \in Nat /\ heard <= heard'
    BY <1>t, <2>1
  <2>f. feeder # "done" /\ (~misheard' => ~misheard)
    BY <2>1
  <2> QED BY <1>1, <2>1, <2>2, <2>h, <2>f
<1>5. CASE ReceiverEnds
  <2>1. /\ wire = <<>> /\ wire' = <<>> /\ results' = Append(results, Closed)
        /\ feeder \in {"feed", "take"}
        /\ UNCHANGED <<socket, heard, sure, misheard, committed, live, feeder>>
    BY <1>5 DEF ReceiverEnds, serverVars, collectVars
  <2>2. From(1)' = From(1) /\ (Holds(1)' <=> Holds(1))
    BY <1>t, <2>1, EndedNext
  <2>h. heard' \in Nat /\ heard <= heard'
    BY <1>t, <2>1
  <2>f. feeder # "done" /\ (~misheard' => ~misheard)
    BY <2>1
  <2> QED BY <1>1, <2>1, <2>2, <2>h, <2>f
<1>6. CASE Speak \/ StopRecording \/ CancelStream \/ UNCHANGED sttVars \/ Hears \/ ServerCloses \/ Feed
  <2>1. /\ UNCHANGED <<results, wire, sure, misheard, committed, live>>
        /\ heard' = heard \/ (heard' = heard + 1 /\ socket \in {"open", "closing"})
        /\ (socket' # "broken" => socket # "broken")
        /\ (feeder' \in {"feed", "take"} => feeder \in {"feed", "take"})
        /\ (feeder' = "done" => feeder = "done")
    BY <1>t, <1>6 DEF Speak, StopRecording, CancelStream, sttVars, Hears, ServerCloses, Feed,
                      serverVars, collectVars
  <2>2. feeder = "done" => UNCHANGED <<socket, said>>
    BY <1>t, <1>6 DEF Speak, StopRecording, CancelStream, sttVars, Hears, ServerCloses, Feed, AudioKnown,
                      audioVars
  <2>3. Coming' = Coming
    BY <2>1, ComingStays
  <2>4. (Holds(1)' <=> Holds(1)) /\ From(1)' = From(1)
    BY <2>1, <2>3 DEF From, Holds
  <2>5. heard' \in Nat /\ heard <= heard'
    BY <1>t, <2>1
  <2> QED BY <1>1, <2>1, <2>2, <2>4, <2>5
<1>7. CASE Collect
  <2> DEFINE r == Head(results)
  <2>1. /\ feeder = "take" /\ results # <<>> /\ results' = Tail(results) /\ wire' = wire
        /\ UNCHANGED <<socket, heard, sure, misheard, fed, said>>
        /\ \/ /\ r.kind = "closed"
              /\ committed' = committed \o live /\ live' = <<>> /\ feeder' = "done"
           \/ /\ r.kind = "final"
              /\ committed' = committed \o Text(r) /\ live' = <<>> /\ feeder' = "take"
           \/ /\ r.kind \notin {"closed", "final"}
              /\ live' = Text(r) /\ committed' = committed /\ feeder' = "take"
    BY <1>7, CollectCases DEF serverVars, audioVars
  <2>2. /\ 1 \in DOMAIN Coming /\ Coming[1] = r /\ r \in Result \cup {Closed}
        /\ From(1)' = From(2) /\ (Holds(1)' <=> Holds(2))
    <3>1. /\ 1 \in DOMAIN Coming /\ Coming[1] = r /\ r \in Result \cup {Closed}
          /\ \A i \in Nat \ {0} : From(i)' = From(i + 1) /\ (Holds(i)' <=> Holds(i + 1))
      BY <1>t, <2>1, TakenNext
    <3>2. From(1)' = From(1 + 1) /\ (Holds(1)' <=> Holds(1 + 1)) /\ 1 + 1 = 2
      BY <3>1
    <3> QED BY <3>1, <3>2
  <2> HIDE DEF r
  <2>3. CASE r.kind = "closed"
    <3>1. feeder' = "done" /\ committed' = committed \o live
      BY <2>1, <2>3
    <3>2. socket \in {"closed", "broken"} /\ ~ Holds(1)
      BY <1>t, <2>2, <2>3 DEF EndKnown, Holds
    <3> SUFFICES ASSUME ~misheard
                 PROVE  /\ \E c \in 0..heard : committed' = w[c]
                        /\ socket = "closed" => committed' = w[said]
      BY <2>1, <3>1
    <3>3. PICK c \in 0..heard : committed \o live = w[c]
      BY <1>c, <2>1
    <3>4. ASSUME socket = "closed" PROVE committed \o live = w[said]
      <4>1. From(1) = sure /\ sure = fed /\ fed = said
        BY <1>t, <3>2, <3>4 DEF From, AudioKnown
      <4>2. committed = w[said]
        BY <1>c, <2>1, <3>4, <4>1
      <4>3. c \in 0..MaxChunks /\ said \in 0..MaxChunks /\ c <= said
        BY <1>t
      <4>4. Len(w[c]) <= Len(w[said])
        BY <1>t, <4>3, WordsKnown DEF Prefix, w
      <4>5. Len(w[c]) = Len(committed) + Len(live) /\ Len(committed) \in Nat /\ Len(live) \in Nat
        BY <1>t, <3>3, Joined
      <4>6. Len(live) = 0
        BY <4>2, <4>4, <4>5
      <4>7. live = <<>>
        BY <1>t, <4>6
      <4> QED BY <1>t, <4>2, <4>7, ConcatEmptySeq
    <3> QED BY <3>1, <3>3, <3>4
  <2>4. CASE r.kind # "closed"
    <3>1. r \in Result /\ r.from \in 0..MaxChunks /\ r.to \in 0..MaxChunks
      BY <1>t, <2>2, <2>4 DEF Result, Closed
    <3>2. Holds(1) /\ From(1) = r.from
      BY <2>2, <2>4 DEF From, Holds
    <3>3. /\ r.from < r.to /\ r.from <= sure /\ r.to <= heard
          /\ r.kind = "misheard" => misheard
          /\ (socket # "broken" \/ Holds(2)) => w[Ahead(r)] = w[From(2)]
      <4>1. /\ r.from < r.to /\ r.from <= sure /\ r.to <= heard
            /\ r.kind = "misheard" => misheard
            /\ (socket # "broken" \/ Holds(1 + 1)) => w[Ahead(r)] = w[From(1 + 1)]
        BY <1>t, <2>2, <2>4 DEF ComingKnown, w
      <4>2. 1 + 1 = 2
        OBVIOUS
      <4> QED BY <4>1, <4>2
    <3>4. committed = w[r.from]
      BY <1>c, <2>1, <3>2
    <3>5. w[r.from] \o WordsIn(r.from, r.to) = w[r.to]
      <4>1. r.from <= r.to
        BY <3>1, <3>3
      <4> QED BY <1>t, <3>1, <4>1, WordsKnown DEF w
    <3>6. r.from \in 0..heard /\ r.to \in 0..heard
      BY <1>t, <3>1, <3>3
    <3>7. CASE r.kind = "final"
      <4>1. /\ committed' = committed \o WordsIn(r.from, r.to) /\ live' = <<>> /\ feeder' = "take"
            /\ Ahead(r) = r.to
        BY <2>1, <3>7 DEF Text, Ahead
      <4>2. committed' = w[r.to]
        BY <3>4, <3>5, <4>1
      <4>3. committed' \o live' = w[r.to]
        <5>1. w[r.to] \in Seq(1..MaxChunks)
          BY <1>t, <3>1, WordsKnown DEF w
        <5> QED BY <4>1, <4>2, <5>1, ConcatEmptySeq
      <4>4. socket' # "broken" \/ Holds(1)' => committed' = w[From(1)']
        BY <2>1, <2>2, <3>3, <4>1, <4>2
      <4> QED BY <2>1, <3>6, <4>1, <4>2, <4>3, <4>4
    <3>8. CASE r.kind # "final"
      <4>1. committed' = committed /\ live' = Text(r) /\ feeder' = "take" /\ Ahead(r) = r.from
        BY <2>1, <2>4, <3>8 DEF Ahead
      <4>2. ~misheard => committed' \o live' = w[r.to]
        BY <3>3, <3>4, <3>5, <4>1 DEF Text
      <4>3. socket' # "broken" \/ Holds(1)' => committed' = w[From(1)']
        BY <2>1, <2>2, <3>3, <3>4, <4>1
      <4> QED BY <2>1, <3>4, <3>6, <4>1, <4>2, <4>3
    <3> QED BY <3>7, <3>8
  <2> QED BY <2>3, <2>4
<1> QED BY <1>2, <1>3, <1>4, <1>5, <1>6, <1>7 DEF SttNext, Server, Client

-----------------------------------------------------------------------------
LEMMA SttStarts == SttInit => SttInv
<1> SUFFICES ASSUME SttInit PROVE SttInv
  OBVIOUS
<1>1. SttTypeOK
  <2>1. /\ stopped \in BOOLEAN /\ misheard \in BOOLEAN /\ receiving \in BOOLEAN
    BY Zenon DEF SttInit
  <2>2. /\ wire = <<>> /\ results = <<>> /\ committed = <<>> /\ live = <<>>
        /\ spoken \in SUBSET (1..MaxChunks) /\ said = 0 /\ fed = 0 /\ heard = 0 /\ sure = 0
        /\ feeder = "feed" /\ socket = "open"
    BY DEF SttInit
  <2>3. \A X : <<>> \in Seq(X)
    OBVIOUS
  <2> QED BY <2>1, <2>2, <2>3, SttAssumption DEF SttTypeOK
<1>2. Coming = <<>> /\ DOMAIN Coming = {}
  BY DEF SttInit, Coming
<1>3. AudioKnown /\ EndKnown /\ ComingKnown
  BY <1>2 DEF SttInit, AudioKnown, EndKnown, ComingKnown
<1>4. From(1) = 0
  BY <1>2 DEF SttInit, From, Holds
<1>5. WordsUpto[0] = <<>>
  BY <1>1, WordsKnown
<1>6. CollectedKnown
  <2>1. committed = <<>> /\ live = <<>> /\ committed \o live = <<>> /\ heard = 0 /\ feeder = "feed"
    BY DEF SttInit
  <2> QED BY <1>4, <1>5, <2>1 DEF CollectedKnown
<1> QED BY <1>1, <1>3, <1>6 DEF SttInv

LEMMA SttKeeps == SttInv /\ [SttNext]_sttVars => SttInv'
<1> SUFFICES ASSUME SttInv, [SttNext]_sttVars PROVE SttInv'
  OBVIOUS
<1>1. SttTypeOK'
  BY SttTypeStep DEF SttInv
<1>2. AudioKnown' /\ EndKnown'
  BY <1>1, AudioStep, EndStep DEF SttInv
<1>3. ComingKnown' /\ CollectedKnown'
  BY <1>1, ComingNext, CollectedNext
<1> QED BY <1>1, <1>2, <1>3 DEF SttInv

\* The variables of a streamed dictation keep their types.
THEOREM SttTypeCorrect == SttSpec => []SttTypeOK
<1>1. SttInit => SttInv
  BY SttStarts
<1>2. SttInv /\ [SttNext]_sttVars => SttInv'
  BY SttKeeps
<1>3. SttInv => SttTypeOK
  BY DEF SttInv
<1> QED BY <1>1, <1>2, <1>3, PTL DEF SttSpec

\* The text of a streamed dictation is what was spoken, each word once and in order.
THEOREM TextAlwaysSpoken == SttSpec => []TextIsSpoken
<1>1. SttInit => SttInv
  BY SttStarts
<1>2. SttInv /\ [SttNext]_sttVars => SttInv'
  BY SttKeeps
<1>3. SttInv => TextIsSpoken
  <2> SUFFICES ASSUME SttInv, feeder = "done", ~misheard
               PROVE  /\ Prefix(committed, WordsIn(0, said))
                      /\ socket = "closed" => committed = WordsIn(0, said)
    BY DEF TextIsSpoken
  <2>1. PICK c \in 0..heard : committed = WordsUpto[c]
    BY DEF SttInv, CollectedKnown
  <2>2. c \in 0..MaxChunks /\ said \in 0..MaxChunks /\ c <= said /\ SttTypeOK
    BY SttAssumption DEF SttInv, SttTypeOK
  <2>3. WordsIn(0, said) = WordsUpto[said] /\ Prefix(WordsUpto[c], WordsUpto[said])
    BY <2>2, WordsKnown
  <2>4. socket = "closed" => committed = WordsUpto[said]
    BY DEF SttInv, CollectedKnown
  <2> QED BY <2>1, <2>3, <2>4
<1> QED BY <1>1, <1>2, <1>3, PTL DEF SttSpec

-----------------------------------------------------------------------------
(***************************************************************************)
(* For any transcript, of any length: the types, and that every word and   *)
(* every dictated line break survives the passes.  Each pass is a selection *)
(* or a relabelling: the lemmas follow the words, and a dictated line break *)
(* with the word before it and what comes next, from pass to pass.         *)
(***************************************************************************)

WordsAt(s) == {i \in 1..Len(s) : s[i] \in Lexicon}

\* The lexicon holds no other token; nor are the others the same.
LEMMA Apart ==
  ASSUME NEW x \in Lexicon
  PROVE  x \notin White /\ x \notin {"um", "new line", "period", ".", "sp", "nl"}
BY TextAssumption DEF White

LEMMA TokensApart ==
  /\ "." \notin White /\ "um" \notin White /\ "new line" \notin White /\ "period" \notin White
  /\ "nl" \in White /\ "nl" # "sp" /\ "nl" # "." /\ "new line" # "." /\ "new line" # "um"
  /\ "period" # "." /\ "period" # "um" /\ "period" # "new line" /\ "um" # "."
  /\ "nl" # "new line" /\ "nl" # "period"
BY DEF White

LEMMA TokensKnown ==
  /\ Lexicon \subseteq Tokens /\ White \subseteq Tokens
  /\ {"um", "new line", "period", ".", "sp", "nl"} \subseteq Tokens
BY DEF Tokens, Spoken, White

\* Two texts with the same words in the same places.
LEMMA WordsSame ==
  ASSUME NEW s \in Seq(Tokens), NEW t \in Seq(Tokens), Len(s) = Len(t),
         \A i \in 1..Len(s) : s[i] \in Lexicon \/ t[i] \in Lexicon => s[i] = t[i]
  PROVE  WordsOf(s) = WordsOf(t)
<1>1. Len(s) \in Nat
  BY LenProperties
<1>2. WordsAt(s) = WordsAt(t)
  BY DEF WordsAt
<1>3. Agree(s, WordsAt(s), t, WordsAt(t), Len(s))
  BY <1>2 DEF WordsAt, Agree
<1>4. PickUpto(s, WordsAt(s))[Len(s)] = PickUpto(t, WordsAt(t))[Len(s)]
  BY <1>1, <1>3, PickUptoSame
<1> QED BY <1>4 DEF WordsOf, WordsTo, WordsAt

\* A word, or something else, after a text.
LEMMA WordsAppend ==
  ASSUME NEW s \in Seq(Tokens), NEW x \in Tokens
  PROVE  WordsOf(Append(s, x)) = IF x \in Lexicon THEN Append(WordsOf(s), x) ELSE WordsOf(s)
<1> DEFINE t == Append(s, x)
           n == Len(s)
<1>1. t \in Seq(Tokens) /\ n \in Nat /\ Len(t) = n + 1 /\ t[n + 1] = x
      /\ \A i \in 1..n : t[i] = s[i]
  OBVIOUS
<1> HIDE DEF t, n
<1>2. n + 1 \in 1..Len(t) /\ (n + 1) - 1 = n /\ n <= Len(s) /\ n <= Len(t)
      /\ 1..n \subseteq 1..Len(t)
  BY <1>1 DEF n
<1>3. Agree(t, WordsAt(t), s, WordsAt(s), n)
  BY <1>1, <1>2 DEF WordsAt, Agree, n
<1>4. PickUpto(t, WordsAt(t))[n] = PickUpto(s, WordsAt(s))[n]
  BY <1>1, <1>2, <1>3, PickUptoSame
<1>5. PickUpto(t, WordsAt(t))[n + 1] =
        IF n + 1 \in WordsAt(t) THEN Append(PickUpto(t, WordsAt(t))[n], t[n + 1])
        ELSE PickUpto(t, WordsAt(t))[n]
  BY <1>1, <1>2, PickUptoSteps
<1>6. n + 1 \in WordsAt(t) <=> x \in Lexicon
  BY <1>1, <1>2 DEF WordsAt
<1>7. WordsOf(t) = PickUpto(t, WordsAt(t))[n + 1] /\ WordsOf(s) = PickUpto(s, WordsAt(s))[n]
  BY <1>1 DEF WordsOf, WordsTo, WordsAt, n
<1> QED BY <1>1, <1>4, <1>5, <1>6, <1>7 DEF t

LEMMA NoWords == WordsOf(<<>>) = <<>>
<1>1. <<>> \in Seq(Tokens) /\ Len(<<>>) = 0
  OBVIOUS
<1>2. PickUpto(<<>>, WordsAt(<<>>))[0] = <<>>
  BY <1>1, PickUptoSteps
<1> QED BY <1>1, <1>2 DEF WordsOf, WordsTo, WordsAt

\* A selection in which no word is missing has the same words.
LEMMA WordsKept ==
  ASSUME NEW s \in Seq(Tokens), NEW K, WordsAt(s) \subseteq K
  PROVE  WordsOf(Pick(s, K)) = WordsOf(s)
<1> DEFINE p == PickUpto(s, K)
           w == PickUpto(s, WordsAt(s))
           N == Len(s)
           T == {n \in Nat : n <= N => WordsOf(p[n]) = w[n]}
<1>1. N \in Nat
  BY LenProperties
<1>2. /\ p \in [0..N -> Seq(Tokens)] /\ p[0] = <<>>
      /\ \A n \in 1..N : p[n] = IF n \in K THEN Append(p[n - 1], s[n]) ELSE p[n - 1]
  BY PickUptoSteps
<1>3. /\ w[0] = <<>>
      /\ \A n \in 1..N : w[n] = IF n \in WordsAt(s) THEN Append(w[n - 1], s[n]) ELSE w[n - 1]
  BY PickUptoSteps
<1>4. \A n \in 1..N : s[n] \in Tokens /\ (n \in WordsAt(s) <=> s[n] \in Lexicon)
  BY ElementOfSeq DEF WordsAt
<1> HIDE DEF p, w, N
<1>5. 0 \in T
  BY <1>2, <1>3, NoWords
<1>6. ASSUME NEW n \in T PROVE n + 1 \in T
  <2> SUFFICES ASSUME n + 1 <= N PROVE WordsOf(p[n + 1]) = w[n + 1]
    OBVIOUS
  <2>1. /\ n + 1 \in 1..N /\ (n + 1) - 1 = n /\ n \in 0..N /\ WordsOf(p[n]) = w[n]
    BY <1>1, <1>6
  <2> DEFINE t == p[n]
             x == s[n + 1]
  <2>2. t \in Seq(Tokens) /\ x \in Tokens
    BY <1>2, <1>4, <2>1
  <2>3. p[n + 1] = IF n + 1 \in K THEN Append(t, x) ELSE t
    BY <1>2, <2>1
  <2>4. w[n + 1] = IF x \in Lexicon THEN Append(w[n], x) ELSE w[n]
    BY <1>3, <1>4, <2>1
  <2>5. x \in Lexicon => n + 1 \in K
    BY <1>4, <2>1
  <2>6. WordsOf(t) = w[n]
    BY <2>1
  <2> HIDE DEF t, x
  <2>7. WordsOf(Append(t, x)) = IF x \in Lexicon THEN Append(WordsOf(t), x) ELSE WordsOf(t)
    BY <2>2, WordsAppend
  <2> QED BY <2>3, <2>4, <2>5, <2>6, <2>7
<1>7. T = Nat
  <2>1. T \in SUBSET Nat
    OBVIOUS
  <2> HIDE DEF T
  <2> QED BY <1>5, <1>6, <2>1, SetInduction
<1>8. WordsOf(p[N]) = w[N]
  BY <1>1, <1>7
<1>9. WordsOf(s) = w[N]
  BY DEF w, N, WordsOf, WordsTo, WordsAt
<1> QED BY <1>8, <1>9 DEF p, N, Pick

\* The words among the first tokens, one token after the other.
LEMMA WordsToSteps ==
  ASSUME NEW s \in Seq(Tokens)
  PROVE  /\ WordsTo(s, 0) = <<>>
         /\ \A n \in 1..Len(s) : WordsTo(s, n) =
               IF s[n] \in Lexicon THEN Append(WordsTo(s, n - 1), s[n]) ELSE WordsTo(s, n - 1)
<1>1. /\ PickUpto(s, WordsAt(s))[0] = <<>>
      /\ \A n \in 1..Len(s) : PickUpto(s, WordsAt(s))[n] =
            IF n \in WordsAt(s) THEN Append(PickUpto(s, WordsAt(s))[n - 1], s[n])
            ELSE PickUpto(s, WordsAt(s))[n - 1]
  BY PickUptoSteps
<1>2. \A n \in 1..Len(s) : n \in WordsAt(s) <=> s[n] \in Lexicon
  BY DEF WordsAt
<1>3. \A n : WordsTo(s, n) = PickUpto(s, WordsAt(s))[n]
  BY DEF WordsTo, WordsAt
<1> QED BY <1>1, <1>2, <1>3

\* No word, no change.
LEMMA WordsToStay ==
  ASSUME NEW s \in Seq(Tokens), NEW m \in 0..Len(s), NEW n \in 0..Len(s), m <= n,
         \A i \in (m + 1)..n : s[i] \notin Lexicon
  PROVE  WordsTo(s, m) = WordsTo(s, n)
<1> DEFINE T == {d \in Nat : m + d <= n => WordsTo(s, m + d) = WordsTo(s, m)}
<1>1. m \in Nat /\ n \in Nat /\ Len(s) \in Nat /\ n <= Len(s)
  BY LenProperties
<1>2. 0 \in T
  BY <1>1
<1>3. ASSUME NEW d \in T PROVE d + 1 \in T
  <2> SUFFICES ASSUME m + (d + 1) <= n PROVE WordsTo(s, m + (d + 1)) = WordsTo(s, m)
    OBVIOUS
  <2>1. /\ m + (d + 1) \in 1..Len(s) /\ (m + (d + 1)) - 1 = m + d
        /\ m + (d + 1) \in (m + 1)..n /\ m + d <= n
    BY <1>1, <1>3
  <2>2. s[m + (d + 1)] \notin Lexicon /\ WordsTo(s, m + d) = WordsTo(s, m)
    BY <1>3, <2>1
  <2> QED BY <2>1, <2>2, WordsToSteps
<1>4. T = Nat
  <2>1. T \in SUBSET Nat
    OBVIOUS
  <2> HIDE DEF T
  <2> QED BY <1>2, <1>3, <2>1, SetInduction
<1>5. n - m \in T /\ m + (n - m) = n
  <2> HIDE DEF T
  <2> QED BY <1>1, <1>4
<1> QED BY <1>1, <1>5

\* The same words in the same places, as far as n.
LEMMA WordsToSame ==
  ASSUME NEW s \in Seq(Tokens), NEW t \in Seq(Tokens), NEW n \in Nat, n <= Len(s), n <= Len(t),
         \A i \in 1..n : s[i] \in Lexicon \/ t[i] \in Lexicon => s[i] = t[i]
  PROVE  WordsTo(s, n) = WordsTo(t, n)
<1>1. Len(s) \in Nat /\ Len(t) \in Nat
  BY LenProperties
<1>2. 1..n \subseteq 1..Len(s) /\ 1..n \subseteq 1..Len(t)
  BY <1>1
<1>3. Agree(s, WordsAt(s), t, WordsAt(t), n)
  BY <1>2 DEF WordsAt, Agree
<1>4. PickUpto(s, WordsAt(s))[n] = PickUpto(t, WordsAt(t))[n]
  BY <1>3, PickUptoSame
<1> QED BY <1>4 DEF WordsTo, WordsAt

\* A selection leaves the order as it is, and puts nothing in between.
LEMMA PickOrder ==
  ASSUME NEW s, NEW t, Len(s) \in Nat, Len(t) \in Nat, NEW K, NEW f, ComesFrom(f, s, K, Len(s), t),
         NEW I \in 1..Len(t), NEW P \in 1..Len(t)
  PROVE  /\ f[I] < f[P] => I < P
         /\ f[I] <= f[P] => I <= P
         /\ \A S : Only(s, S, f[I] + 1, f[P] - 1) => Only(t, S, I + 1, P - 1)
<1>1. /\ f \in [1..Len(t) -> 1..Len(s)]
      /\ \A j \in 1..Len(t) : t[j] = s[f[j]]
      /\ \A j, k \in 1..Len(t) : j < k => f[j] < f[k]
  BY DEF ComesFrom
<1>2. f[I] \in Nat /\ f[P] \in Nat /\ I \in Nat /\ P \in Nat
  BY <1>1
<1>3. (I < P => f[I] < f[P]) /\ (P < I => f[P] < f[I])
  BY <1>1
<1>4. (f[I] < f[P] => I < P) /\ (f[I] <= f[P] => I <= P)
  BY <1>2, <1>3
<1>5. ASSUME NEW S, Only(s, S, f[I] + 1, f[P] - 1) PROVE Only(t, S, I + 1, P - 1)
  <2>1. \A j \in (f[I] + 1)..(f[P] - 1) : s[j] \in S
    BY <1>5 DEF Only
  <2>2. SUFFICES ASSUME NEW j \in (I + 1)..(P - 1) PROVE t[j] \in S
    BY DEF Only
  <2>3. j \in 1..Len(t) /\ I < j /\ j < P
    BY <1>2
  <2>4. f[I] < f[j] /\ f[j] < f[P] /\ f[j] \in Nat /\ t[j] = s[f[j]]
    BY <1>1, <2>3
  <2>5. f[j] \in (f[I] + 1)..(f[P] - 1)
    BY <1>2, <2>4
  <2> QED BY <2>1, <2>4, <2>5
<1> QED BY <1>4, <1>5

\* In a selection that has all words, the words up to a place are those up to the place
\* that it comes from.
LEMMA PickWords ==
  ASSUME NEW s \in Seq(Tokens), NEW K, WordsAt(s) \subseteq K, NEW t \in Seq(Tokens), NEW f,
         ComesFrom(f, s, K, Len(s), t), NEW j \in 1..Len(t)
  PROVE  WordsTo(t, j) = WordsTo(s, f[j])
<1> DEFINE F(n) == IF n = 0 THEN 0 ELSE f[n]
           T == {n \in Nat : n <= Len(t) => WordsTo(t, n) = WordsTo(s, F(n))}
<1>1. Len(s) \in Nat /\ Len(t) \in Nat
  BY LenProperties
<1>2. /\ f \in [1..Len(t) -> 1..Len(s)]
      /\ \A k \in 1..Len(t) : f[k] \in K /\ t[k] = s[f[k]]
      /\ \A k, m \in 1..Len(t) : k < m => f[k] < f[m]
      /\ \A k \in 1..Len(s) : k \in K => \E m \in 1..Len(t) : f[m] = k
  BY DEF ComesFrom
<1>3. 0 \in T
  BY WordsToSteps
<1>4. ASSUME NEW n \in T PROVE n + 1 \in T
  <2> SUFFICES ASSUME n + 1 <= Len(t) PROVE WordsTo(t, n + 1) = WordsTo(s, f[n + 1])
    BY <1>1, <1>4
  <2>1. n \in Nat /\ n + 1 \in 1..Len(t) /\ (n + 1) - 1 = n /\ n <= Len(t)
    BY <1>1, <1>4
  <2> DEFINE h == f[n + 1]
             g == F(n)
  <2>2. WordsTo(t, n) = WordsTo(s, g)
    BY <1>4, <2>1
  <2>3. h \in 1..Len(s) /\ t[n + 1] = s[h]
    BY <1>2, <2>1
  <2>4. g \in 0..Len(s) /\ g < h /\ (n = 0 => g = 0) /\ (n # 0 => n \in 1..Len(t) /\ g = f[n])
    <3>1. CASE n = 0
      BY <1>1, <2>3, <3>1
    <3>2. CASE n # 0
      <4>1. n \in 1..Len(t) /\ n < n + 1
        BY <2>1, <3>2
      <4>2. f[n] \in 1..Len(s) /\ f[n] < f[n + 1]
        BY <1>2, <2>1, <4>1
      <4> QED BY <1>1, <3>2, <4>1, <4>2
    <3> QED BY <3>1, <3>2
  <2> HIDE DEF g, h, F, T
  <2>5. ASSUME NEW i \in (g + 1)..(h - 1), s[i] \in Lexicon PROVE FALSE
    <3>1. i \in 1..Len(s) /\ g < i /\ i < h
      BY <1>1, <2>3, <2>4
    <3>2. i \in K
      BY <2>5, <3>1 DEF WordsAt
    <3>3. PICK m \in 1..Len(t) : f[m] = i
      BY <1>2, <3>1, <3>2
    <3>4. f[m] < f[n + 1]
      BY <3>1, <3>3 DEF h
    <3>5. m < n + 1
      BY <1>1, <2>1, <3>4, PickOrder
    <3>6. n # 0 /\ n \in 1..Len(t) /\ f[n] < f[m]
      BY <1>1, <2>1, <2>4, <3>1, <3>3, <3>5
    <3>7. n < m
      BY <1>1, <3>6, PickOrder
    <3> QED BY <1>1, <2>1, <3>5, <3>7
  <2>6. h - 1 \in 0..Len(s) /\ g <= h - 1
    BY <1>1, <2>3, <2>4
  <2>7. WordsTo(s, g) = WordsTo(s, h - 1)
    BY <2>4, <2>5, <2>6, WordsToStay
  <2>8. WordsTo(s, h) = IF s[h] \in Lexicon THEN Append(WordsTo(s, h - 1), s[h])
                         ELSE WordsTo(s, h - 1)
    BY <2>3, WordsToSteps
  <2>9. WordsTo(t, n + 1) = IF t[n + 1] \in Lexicon THEN Append(WordsTo(t, n), t[n + 1])
                             ELSE WordsTo(t, n)
    BY <2>1, WordsToSteps
  <2>10. WordsTo(t, n + 1) = WordsTo(s, h)
    BY <2>2, <2>3, <2>7, <2>8, <2>9
  <2> QED BY <2>10 DEF h
<1>5. T = Nat
  <2>1. T \in SUBSET Nat
    OBVIOUS
  <2> HIDE DEF T
  <2> QED BY <1>3, <1>4, <2>1, SetInduction
<1>6. j \in T /\ j \in Nat /\ j # 0 /\ j <= Len(t)
  <2> HIDE DEF T
  <2> QED BY <1>1, <1>5
<1> QED BY <1>6

\* A new line has been dictated at i, after the word at a; what comes next, at p, is no
\* full stop, and no later than the word at b.
Stands(s, a, i, p, b) ==
    /\ a < i /\ i < p /\ p <= b
    /\ s[a] \in Lexicon /\ s[b] \in Lexicon /\ s[i] = "new line"
    /\ s[p] \notin White \cup {"new line", ".", "period"}
    /\ Only(s, White \cup {"new line"}, i + 1, p - 1)

\* That is so, after the words in w; after some words.
Broken(s, w) == \E a, i, p, b \in 1..Len(s) : Stands(s, a, i, p, b) /\ WordsTo(s, i) = w
AnyBroken(s) == \E w : Broken(s, w)

\* The same of a line break.
Lined(s, a, i, p) ==
    /\ a < i /\ i < p
    /\ s[a] \in Lexicon /\ s[i] = "nl" /\ s[p] \notin White \cup {"."}
    /\ Only(s, White, i + 1, p - 1)

HasLine(s, w) == \E a, i, p \in 1..Len(s) : Lined(s, a, i, p) /\ WordsTo(s, i) = w

LEMMA PickStands ==
  ASSUME NEW s \in Seq(Tokens), NEW K,
         NEW a \in 1..Len(s), NEW i \in 1..Len(s), NEW p \in 1..Len(s), NEW b \in 1..Len(s),
         Stands(s, a, i, p, b), a \in K, i \in K, p \in K, b \in K
  PROVE  \E w : Broken(Pick(s, K), w) /\ (WordsAt(s) \subseteq K => w = WordsTo(s, i))
<1> DEFINE t == Pick(s, K)
<1>1. PICK f : ComesFrom(f, s, K, Len(s), t)
  BY PickPlaces
<1>2. t \in Seq(Tokens) /\ Len(t) \in Nat /\ Len(s) \in Nat
  BY PickPlaces, LenProperties
<1> HIDE DEF t
<1>3. PICK A \in 1..Len(t) : f[A] = a
  BY <1>1 DEF ComesFrom
<1>4. PICK I \in 1..Len(t) : f[I] = i
  BY <1>1 DEF ComesFrom
<1>5. PICK P \in 1..Len(t) : f[P] = p
  BY <1>1 DEF ComesFrom
<1>6. PICK B \in 1..Len(t) : f[B] = b
  BY <1>1 DEF ComesFrom
<1>7. t[A] = s[a] /\ t[I] = s[i] /\ t[P] = s[p] /\ t[B] = s[b]
  BY <1>1, <1>3, <1>4, <1>5, <1>6 DEF ComesFrom
<1>8. A < I
  BY <1>1, <1>2, <1>3, <1>4, PickOrder DEF Stands
<1>9. I < P
  BY <1>1, <1>2, <1>4, <1>5, PickOrder DEF Stands
<1>10. P <= B
  BY <1>1, <1>2, <1>5, <1>6, PickOrder DEF Stands
<1>11. Only(s, White \cup {"new line"}, f[I] + 1, f[P] - 1)
  BY <1>4, <1>5 DEF Stands
<1>12. Only(t, White \cup {"new line"}, I + 1, P - 1)
  BY <1>1, <1>2, <1>11, PickOrder
<1>13. Stands(t, A, I, P, B)
  BY <1>7, <1>8, <1>9, <1>10, <1>12 DEF Stands
<1>14. Broken(t, WordsTo(t, I))
  BY <1>13 DEF Broken
<1>15. WordsAt(s) \subseteq K => WordsTo(t, I) = WordsTo(s, i)
  BY <1>1, <1>2, <1>4, PickWords
<1> QED BY <1>14, <1>15 DEF t

LEMMA PickLined ==
  ASSUME NEW s \in Seq(Tokens), NEW K,
         NEW a \in 1..Len(s), NEW i \in 1..Len(s), NEW p \in 1..Len(s),
         Lined(s, a, i, p), i \in K, p \in K, WordsAt(s) \subseteq K
  PROVE  HasLine(Pick(s, K), WordsTo(s, i))
<1> DEFINE t == Pick(s, K)
<1>1. PICK f : ComesFrom(f, s, K, Len(s), t)
  BY PickPlaces
<1>2. t \in Seq(Tokens) /\ Len(t) \in Nat /\ Len(s) \in Nat
  BY PickPlaces, LenProperties
<1> HIDE DEF t
<1>a. a \in K
  BY DEF Lined, WordsAt
<1>3. PICK A \in 1..Len(t) : f[A] = a
  BY <1>1, <1>a DEF ComesFrom
<1>4. PICK I \in 1..Len(t) : f[I] = i
  BY <1>1 DEF ComesFrom
<1>5. PICK P \in 1..Len(t) : f[P] = p
  BY <1>1 DEF ComesFrom
<1>6. t[A] = s[a] /\ t[I] = s[i] /\ t[P] = s[p]
  BY <1>1, <1>3, <1>4, <1>5 DEF ComesFrom
<1>7. A < I
  BY <1>1, <1>2, <1>3, <1>4, PickOrder DEF Lined
<1>8. I < P
  BY <1>1, <1>2, <1>4, <1>5, PickOrder DEF Lined
<1>9. Only(s, White, f[I] + 1, f[P] - 1)
  BY <1>4, <1>5 DEF Lined
<1>10. Only(t, White, I + 1, P - 1)
  BY <1>1, <1>2, <1>9, PickOrder
<1>11. Lined(t, A, I, P)
  BY <1>6, <1>7, <1>8, <1>10 DEF Lined
<1>12. WordsTo(t, I) = WordsTo(s, i)
  BY <1>1, <1>2, <1>4, PickWords
<1>13. HasLine(t, WordsTo(s, i))
  BY <1>11, <1>12 DEF HasLine
<1> QED BY <1>13 DEF t

\* The property's wording implies this one: what comes next is the first token that is
\* no white space and no new line.
LEMMA BreaksBroken ==
  ASSUME NEW s \in Seq(Tokens), NEW i \in 1..Len(s), Breaks(s, i)
  PROVE  Broken(s, WordsTo(s, i))
<1>1. Len(s) \in Nat /\ i \in Nat
  BY LenProperties
<1>2. PICK a \in 1..(i - 1) : s[a] \in Lexicon
  BY DEF Breaks
<1>3. PICK b \in (i + 1)..Len(s) : s[b] \in Lexicon
  BY DEF Breaks
<1> DEFINE W == White \cup {"new line"}
           T == {k \in (i + 1)..Len(s) : s[k] \notin W}
<1>4. b \in T
  BY <1>3, Apart
<1> HIDE DEF W
<1>5. T \in SUBSET Nat
  <2>1. (i + 1)..Len(s) \in SUBSET Nat
    BY <1>1
  <2> QED BY <2>1
<1>6. PICK p \in T : \A k \in T : p <= k
  <2> HIDE DEF T
  <2> QED BY <1>4, <1>5, LeastElement
<1>7. p \in (i + 1)..Len(s) /\ s[p] \notin W /\ p <= b
  BY <1>4, <1>6
<1> HIDE DEF T
<1>8. a \in Nat /\ b \in Nat /\ p \in Nat /\ a < i /\ i < p /\ b <= Len(s) /\ 1 <= a
  BY <1>1, <1>2, <1>3, <1>7
<1>9. Only(s, W, i + 1, p - 1)
  <2> SUFFICES ASSUME NEW k \in (i + 1)..(p - 1) PROVE s[k] \in W
    BY DEF Only
  <2>1. k \in (i + 1)..Len(s) /\ ~ (p <= k)
    BY <1>1, <1>8, <1>7
  <2>2. k \notin T
    BY <1>6, <2>1
  <2> QED BY <2>1, <2>2 DEF T
<1>10. s[i] = "new line" /\ s[p] \notin {".", "period"}
  BY <1>7, <1>9 DEF Breaks, W
<1>11. a \in 1..Len(s) /\ b \in 1..Len(s) /\ p \in 1..Len(s) /\ a < i /\ i < p
  BY <1>1, <1>8, <1>7
<1>12. Stands(s, a, i, p, b)
  BY <1>2, <1>3, <1>7, <1>9, <1>10, <1>11 DEF Stands, W
<1> QED BY <1>11, <1>12 DEF Broken

\* What the passes before the voice commands owe.
Carries(s, t) == \A w : Broken(s, w) => Broken(t, w)
Kept(s, t) == t \in Seq(Tokens) /\ WordsOf(t) = WordsOf(s) /\ Carries(s, t)

LEMMA KeptAny ==
  ASSUME NEW s, NEW t, Kept(s, t), AnyBroken(s)
  PROVE  AnyBroken(t)
BY DEF Kept, Carries, AnyBroken

LEMMA KeptOn ==
  ASSUME NEW s, NEW t, NEW u, Kept(s, t), Kept(t, u)
  PROVE  Kept(s, u)
BY DEF Kept, Carries

LEMMA KeptSame ==
  ASSUME NEW s \in Seq(Tokens)
  PROVE  Kept(s, s)
BY DEF Kept, Carries

\* It is between two words, or one itself.
Inside(s, i) == \E a \in 1..i : \E b \in i..Len(s) : s[a] \in Lexicon /\ s[b] \in Lexicon

\* A selection keeps that if it drops nothing between two words but white space and
\* full stops.
LEMMA PickKept ==
  ASSUME NEW s \in Seq(Tokens), NEW K,
         \A i \in 1..Len(s) : Inside(s, i) /\ s[i] \notin White \cup {"."} => i \in K
  PROVE  Kept(s, Pick(s, K))
<1>1. Len(s) \in Nat
  BY LenProperties
<1>2. WordsAt(s) \subseteq K
  <2> SUFFICES ASSUME NEW i \in 1..Len(s), s[i] \in Lexicon PROVE i \in K
    BY DEF WordsAt
  <2>1. i \in 1..i /\ i \in i..Len(s)
    BY <1>1
  <2>2. s[i] \notin White \cup {"."}
    BY Apart
  <2> QED BY <2>1, <2>2 DEF Inside
<1>3. WordsOf(Pick(s, K)) = WordsOf(s)
  BY <1>2, WordsKept
<1>4. Pick(s, K) \in Seq(Tokens)
  BY PickPlaces
<1>5. ASSUME NEW w, Broken(s, w) PROVE Broken(Pick(s, K), w)
  <2>1. PICK a, i, p, b \in 1..Len(s) : Stands(s, a, i, p, b) /\ WordsTo(s, i) = w
    BY <1>5 DEF Broken
  <2>2. a \in K /\ b \in K
    BY <1>2, <2>1 DEF WordsAt, Stands
  <2>3. a < i /\ i < p /\ p <= b
    BY <2>1 DEF Stands
  <2>4. a \in 1..i /\ b \in i..Len(s) /\ a \in 1..p /\ b \in p..Len(s)
    BY <1>1, <2>3, <2>1
  <2>5. Inside(s, i) /\ Inside(s, p)
    BY <2>1, <2>4 DEF Inside, Stands
  <2>6. s[i] \notin White \cup {"."} /\ s[p] \notin White \cup {"."}
    BY <2>1, TokensApart DEF Stands
  <2>7. i \in K /\ p \in K
    BY <2>5, <2>6
  <2> QED BY <1>2, <2>1, <2>2, <2>7, PickStands
<1> QED BY <1>3, <1>4, <1>5 DEF Kept, Carries

LEMMA NotWhite ==
  ASSUME NEW s \in Seq(Tokens), NEW i \in 1..Len(s), s[i] \notin White
  PROVE  ~AllWhite(s, i) /\ ~Only(s, White, 1, i)
<1>1. Len(s) \in Nat
  BY LenProperties
<1>2. i \in i..Len(s) /\ i \in 1..i
  BY <1>1
<1> QED BY <1>2 DEF AllWhite, Only

LEMMA StripKept ==
  ASSUME NEW s \in Seq(Tokens)
  PROVE  Kept(s, Strip(s))
<1> DEFINE K == {i \in 1..Len(s) : ~AllWhite(s, i) /\ ~Only(s, White, 1, i)}
<1>1. \A i \in 1..Len(s) : s[i] \notin White => i \in K
  BY NotWhite
<1> HIDE DEF K
<1>2. Kept(s, Pick(s, K))
  BY <1>1, PickKept
<1> QED BY <1>2 DEF Strip, K

\* One white space for another.
LEMMA WhiteKept ==
  ASSUME NEW s \in Seq(Tokens), NEW t \in Seq(Tokens), Len(s) = Len(t),
         \A i \in 1..Len(s) : t[i] = s[i] \/ (s[i] \in White /\ t[i] \in White)
  PROVE  Kept(s, t)
<1>1. \A i \in 1..Len(s) : s[i] \in Lexicon \/ t[i] \in Lexicon => s[i] = t[i]
  BY Apart
<1>2. WordsOf(t) = WordsOf(s)
  BY <1>1, WordsSame
<1>3. ASSUME NEW w, Broken(s, w) PROVE Broken(t, w)
  <2>1. PICK a, i, p, b \in 1..Len(s) : Stands(s, a, i, p, b) /\ WordsTo(s, i) = w
    BY <1>3 DEF Broken
  <2>2. t[a] = s[a] /\ t[b] = s[b]
    BY <1>1, <2>1 DEF Stands
  <2>3. t[i] = s[i] /\ t[p] = s[p]
    BY <2>1, TokensApart DEF Stands
  <2>4. Only(t, White \cup {"new line"}, i + 1, p - 1)
    <3>1. \A j \in (i + 1)..(p - 1) : s[j] \in White \cup {"new line"}
      BY <2>1 DEF Stands, Only
    <3>2. Len(s) \in Nat
      BY LenProperties
    <3>3. (i + 1)..(p - 1) \subseteq 1..Len(s)
      BY <2>1, <3>2
    <3> QED BY <3>1, <3>3 DEF Only
  <2>5. Stands(t, a, i, p, b)
    BY <2>1, <2>2, <2>3, <2>4 DEF Stands
  <2>6. WordsTo(t, i) = w
    <3>1. i \in Nat /\ i <= Len(s) /\ 1..i \subseteq 1..Len(s)
      BY <2>1, LenProperties
    <3> QED BY <1>1, <2>1, <3>1, WordsToSame
  <2> QED BY <2>1, <2>5, <2>6 DEF Broken
<1> QED BY <1>2, <1>3 DEF Kept, Carries

LEMMA SqueezeKept ==
  ASSUME NEW s \in Seq(Tokens)
  PROVE  Kept(s, Squeeze(s))
<1> DEFINE t == Strip(s)
           K == {i \in 1..Len(t) : t[i] \notin White \/ t[i - 1] \notin White}
           u == Pick(t, K)
           v == [i \in 1..Len(u) |-> IF u[i] \in White THEN "sp" ELSE u[i]]
<1>1. Kept(s, t) /\ t \in Seq(Tokens)
  BY StripKept DEF Kept
<1> HIDE DEF t
<1>2. \A i \in 1..Len(t) : Inside(t, i) /\ t[i] \notin White \cup {"."} => i \in K
  OBVIOUS
<1>3. Kept(t, u) /\ u \in Seq(Tokens)
  <2> HIDE DEF K
  <2> QED BY <1>1, <1>2, PickKept DEF Kept
<1> HIDE DEF u
<1>4. Len(u) \in Nat /\ \A i \in 1..Len(u) : u[i] \in Tokens
  BY <1>3, LenProperties, ElementOfSeq
<1>5. v \in Seq(Tokens) /\ Len(v) = Len(u)
  <2>1. "sp" \in Tokens
    BY TokensKnown
  <2>2. \A i \in 1..Len(u) : v[i] \in Tokens
    BY <1>4, <2>1
  <2> QED BY <1>4, <2>2
<1>6. \A i \in 1..Len(u) : v[i] = u[i] \/ (u[i] \in White /\ v[i] \in White)
  BY DEF White
<1> HIDE DEF v
<1>7. Kept(u, v)
  BY <1>3, <1>5, <1>6, WhiteKept
<1>8. Kept(s, v)
  BY <1>1, <1>3, <1>7, KeptOn
<1> QED BY <1>8 DEF Squeeze, t, u, v

\* Fillers at the start or at the end are not between words.
LEMMA LeadingKept ==
  ASSUME NEW s \in Seq(Tokens)
  PROVE  Kept(s, Pick(s, {i \in 1..Len(s) : ~Leading(s, i)}))
<1> DEFINE K == {i \in 1..Len(s) : ~Leading(s, i)}
<1>1. ASSUME NEW i \in 1..Len(s), Inside(s, i), Leading(s, i) PROVE FALSE
  <2>1. PICK a \in 1..i : s[a] \in Lexicon
    BY <1>1 DEF Inside
  <2>2. PICK n \in i..Len(s) : Only(s, White \cup {"um", "."}, 1, n)
    BY <1>1 DEF Leading
  <2>3. a \in 1..n
    <3>1. Len(s) \in Nat
      BY LenProperties
    <3> QED BY <3>1
  <2> QED BY <2>1, <2>2, <2>3, Apart DEF Only
<1>2. \A i \in 1..Len(s) : Inside(s, i) /\ s[i] \notin White \cup {"."} => i \in K
  BY <1>1
<1> HIDE DEF K
<1>3. Kept(s, Pick(s, K))
  BY <1>2, PickKept
<1> QED BY <1>3 DEF K

LEMMA TrailingKept ==
  ASSUME NEW s \in Seq(Tokens)
  PROVE  Kept(s, Pick(s, {i \in 1..Len(s) : ~Trailing(s, i)}))
<1> DEFINE K == {i \in 1..Len(s) : ~Trailing(s, i)}
<1>1. ASSUME NEW i \in 1..Len(s), Inside(s, i), Trailing(s, i) PROVE FALSE
  <2>1. PICK b \in i..Len(s) : s[b] \in Lexicon
    BY <1>1 DEF Inside
  <2>2. PICK m \in 1..i : Only(s, White \cup {"um", "."}, m, Len(s))
    BY <1>1 DEF Trailing
  <2>3. b \in m..Len(s)
    <3>1. Len(s) \in Nat
      BY LenProperties
    <3> QED BY <3>1
  <2> QED BY <2>1, <2>2, <2>3, Apart DEF Only
<1>2. \A i \in 1..Len(s) : Inside(s, i) /\ s[i] \notin White \cup {"."} => i \in K
  BY <1>1
<1> HIDE DEF K
<1>3. Kept(s, Pick(s, K))
  BY <1>2, PickKept
<1> QED BY <1>3 DEF K

LEMMA TrimOnceKept ==
  ASSUME NEW s \in Seq(Tokens)
  PROVE  Kept(s, TrimOnce(s))
<1> DEFINE t == Strip(Pick(s, {i \in 1..Len(s) : ~Leading(s, i)}))
           u == Pick(t, {i \in 1..Len(t) : ~Trailing(t, i)})
<1>1. Kept(s, t) /\ t \in Seq(Tokens)
  <2>1. Kept(s, Pick(s, {i \in 1..Len(s) : ~Leading(s, i)}))
    BY LeadingKept
  <2>2. Pick(s, {i \in 1..Len(s) : ~Leading(s, i)}) \in Seq(Tokens)
    BY <2>1 DEF Kept
  <2>3. Kept(Pick(s, {i \in 1..Len(s) : ~Leading(s, i)}), t)
    BY <2>2, StripKept
  <2> HIDE DEF t
  <2> QED BY <2>1, <2>3, KeptOn DEF Kept
<1> HIDE DEF t
<1>2. Kept(t, u) /\ u \in Seq(Tokens)
  BY <1>1, TrailingKept DEF Kept
<1> HIDE DEF u
<1>3. Kept(u, Strip(u))
  BY <1>2, StripKept
<1>4. Kept(s, Strip(u))
  BY <1>1, <1>2, <1>3, KeptOn
<1> QED BY <1>4 DEF TrimOnce, t, u

\* The rounds over s, of which TrimFillers returns the last.
FillerRounds(s, round) ==
    /\ round[0] = Strip(s) /\ TrimFillers(s) = round[Len(s)]
    /\ \A n \in 1..Len(s) : round[n] = TrimOnce(round[n - 1])
    /\ \A n \in 0..Len(s) : round[n] \in Seq(Tokens) /\ Kept(s, round[n])

LEMMA FillerRoundsExist ==
  ASSUME NEW s \in Seq(Tokens)
  PROVE  \E round : FillerRounds(s, round)
<1> DEFINE N        == Len(s)
           Body(f)  == [n \in 0..N |-> IF n = 0 THEN Strip(s) ELSE TrimOnce(f[n - 1])]
           round    == CHOOSE f : f = Body(f)
           S        == {t \in Seq(Tokens) : Kept(s, t)}
           F        == [n \in 1..N |-> [t \in S |-> TrimOnce(t)]]
<1>1. \A t \in S : TrimOnce(t) \in S
  <2> SUFFICES ASSUME NEW t \in Seq(Tokens), Kept(s, t)
               PROVE  Kept(s, TrimOnce(t)) /\ TrimOnce(t) \in Seq(Tokens)
    OBVIOUS
  <2>1. Kept(t, TrimOnce(t)) /\ TrimOnce(t) \in Seq(Tokens)
    BY TrimOnceKept DEF Kept
  <2> QED BY <2>1, KeptOn
<1>2. Strip(s) \in S /\ N \in Nat
  BY StripKept, LenProperties DEF Kept
<1> HIDE DEF S, N
<1>3. F \in [1..N -> [S -> S]]
  BY <1>1
<1>4. \A n \in 1..N : \A t \in S : F[n][t] = TrimOnce(t)
  OBVIOUS
<1> HIDE DEF F
<1>5. PICK g \in [0..N -> S] : Recurs(g, N, Strip(s), F)
  BY <1>2, <1>3, RecursionExists
<1>6. g = Body(g)
  <2>1. ASSUME NEW n \in 1..N PROVE F[n][g[n - 1]] = TrimOnce(g[n - 1])
    <3>1. n - 1 \in 0..N
      BY <1>2
    <3> QED BY <1>4, <1>5, <3>1
  <2>2. \A n \in 0..N : n = 0 \/ n \in 1..N
    BY <1>2
  <2> QED BY <1>5, <2>1, <2>2 DEF Recurs
<1>7. round = Body(round)
  <2> HIDE DEF Body
  <2> QED BY <1>6
<1>8. TrimFillers(s) = round[N]
  BY DEF TrimFillers, N
<1> HIDE DEF round
<1>9. round[0] = Strip(s) /\ \A n \in 1..N : round[n] = TrimOnce(round[n - 1])
  <2> DEFINE e(n) == TrimOnce(round[n - 1])
  <2>1. round = [n \in 0..N |-> IF n = 0 THEN Strip(s) ELSE e(n)]
    BY <1>7
  <2> HIDE DEF e
  <2>2. round[0] = Strip(s) /\ \A n \in 1..N : round[n] = e(n)
    BY <1>2, <2>1
  <2> QED BY <2>2 DEF e
<1> DEFINE T == {n \in Nat : n <= N => round[n] \in S}
<1>10. 0 \in T
  BY <1>2, <1>9
<1>11. ASSUME NEW n \in T PROVE n + 1 \in T
  <2> SUFFICES ASSUME n + 1 <= N PROVE round[n + 1] \in S
    OBVIOUS
  <2>1. n \in Nat /\ n + 1 \in 1..N /\ (n + 1) - 1 = n /\ round[n] \in S
    BY <1>2, <1>11
  <2>2. round[n + 1] = TrimOnce(round[n])
    BY <1>9, <2>1
  <2> QED BY <1>1, <2>1, <2>2
<1>12. T = Nat
  <2>1. T \in SUBSET Nat
    OBVIOUS
  <2> HIDE DEF T
  <2> QED BY <1>10, <1>11, <2>1, SetInduction
<1>13. \A n \in 0..N : round[n] \in S
  BY <1>2, <1>12
<1>14. \A n \in 0..N : round[n] \in Seq(Tokens) /\ Kept(s, round[n])
  BY <1>13 DEF S
<1> QED BY <1>8, <1>9, <1>14 DEF FillerRounds, N

LEMMA FillersKept ==
  ASSUME NEW s \in Seq(Tokens)
  PROVE  Kept(s, TrimFillers(s))
<1>1. PICK round : FillerRounds(s, round)
  BY FillerRoundsExist
<1>2. Len(s) \in 0..Len(s)
  BY LenProperties
<1> QED BY <1>1, <1>2 DEF FillerRounds

\* A round that changes anything makes the text shorter.
LEMMA TrimOnceShortens ==
  ASSUME NEW s \in Seq(Tokens)
  PROVE  TrimOnce(s) = s \/ Len(TrimOnce(s)) < Len(s)
<1> DEFINE a == Pick(s, {i \in 1..Len(s) : ~Leading(s, i)})
           b == Strip(a)
           c == Pick(b, {i \in 1..Len(b) : ~Trailing(b, i)})
           d == Strip(c)
<1>1. a \in Seq(Tokens) /\ (a = s \/ Len(a) < Len(s))
  BY PickShortens, PickPlaces
<1>2. TrimOnce(s) = d
  BY DEF TrimOnce
<1> HIDE DEF a
<1>3. b \in Seq(Tokens) /\ (b = a \/ Len(b) < Len(a))
  BY <1>1, PickShortens, PickPlaces DEF Strip
<1> HIDE DEF b
<1>4. c \in Seq(Tokens) /\ (c = b \/ Len(c) < Len(b))
  BY <1>3, PickShortens, PickPlaces
<1> HIDE DEF c
<1>5. d \in Seq(Tokens) /\ (d = c \/ Len(d) < Len(c))
  BY <1>4, PickShortens, PickPlaces DEF Strip
<1> HIDE DEF d
<1>6. Len(s) \in Nat /\ Len(a) \in Nat /\ Len(b) \in Nat /\ Len(c) \in Nat /\ Len(d) \in Nat
  BY <1>1, <1>3, <1>4, <1>5, LenProperties
<1> QED BY <1>1, <1>2, <1>3, <1>4, <1>5, <1>6

\* trim_filler_words goes on until a round changes nothing: as many rounds as the text
\* has tokens are enough, whatever its length.
THEOREM FillersAllTrimmed ==
  ASSUME NEW s \in Seq(Tokens)
  PROVE  TrimOnce(TrimFillers(s)) = TrimFillers(s)
<1> DEFINE N == Len(s)
<1>1. PICK round : FillerRounds(s, round)
  BY FillerRoundsExist
<1>2. /\ round[0] = Strip(s) /\ TrimFillers(s) = round[N]
      /\ \A n \in 1..N : round[n] = TrimOnce(round[n - 1])
      /\ \A n \in 0..N : round[n] \in Seq(Tokens) /\ Len(round[n]) \in Nat
  BY <1>1, LenProperties DEF FillerRounds
<1>3. N \in Nat /\ Len(round[0]) <= N
  <2>1. Len(s) \in Nat /\ (Strip(s) = s \/ Len(Strip(s)) < Len(s))
    BY PickShortens, LenProperties DEF Strip
  <2> QED BY <1>2, <2>1
<1> HIDE DEF N
<1> DEFINE Good(n) == TrimOnce(round[n]) = round[n] \/ Len(round[n]) + n <= N
           T == {n \in Nat : n <= N => Good(n)}
<1>4. 0 \in T
  BY <1>2, <1>3
<1>5. ASSUME NEW n \in T PROVE n + 1 \in T
  <2> SUFFICES ASSUME n + 1 <= N PROVE Good(n + 1)
    <3> HIDE DEF Good
    <3> QED BY <1>5
  <2> DEFINE t == round[n]
             u == round[n + 1]
  <2>1. /\ n \in Nat /\ n + 1 \in 1..N /\ (n + 1) - 1 = n /\ n \in 0..N /\ n + 1 \in 0..N
        /\ TrimOnce(t) = t \/ Len(t) + n <= N
    BY <1>3, <1>5
  <2>2. u = TrimOnce(t) /\ t \in Seq(Tokens) /\ Len(t) \in Nat /\ Len(u) \in Nat
    BY <1>2, <2>1
  <2> HIDE DEF t, u
  <2>3. TrimOnce(t) = t \/ Len(TrimOnce(t)) < Len(t)
    BY <2>2, TrimOnceShortens
  <2>4. TrimOnce(u) = u \/ Len(u) + (n + 1) <= N
    BY <1>3, <2>1, <2>2, <2>3
  <2> QED BY <2>4 DEF u
<1>6. T = Nat
  <2>1. T \in SUBSET Nat
    OBVIOUS
  <2> HIDE DEF T
  <2> QED BY <1>4, <1>5, <2>1, SetInduction
<1> DEFINE t == round[N]
<1>7. t \in Seq(Tokens) /\ Len(t) \in Nat /\ (TrimOnce(t) = t \/ Len(t) + N <= N)
  <2>1. N \in 0..N /\ N \in T
    BY <1>3, <1>6
  <2> QED BY <1>2, <2>1
<1>8. TrimFillers(s) = t
  BY <1>2
<1> HIDE DEF t
<1>9. TrimOnce(t) = t \/ Len(TrimOnce(t)) < Len(t)
  BY <1>7, TrimOnceShortens
<1>10. Len(TrimOnce(t)) \in Nat
  BY <1>7, TrimOnceKept, LenProperties DEF Kept
<1>11. TrimOnce(t) = t
  BY <1>3, <1>7, <1>9, <1>10
<1> QED BY <1>8, <1>11

LEMMA TrimStopsKept ==
  ASSUME NEW s \in Seq(Tokens)
  PROVE  Kept(s, TrimStops(s))
<1> DEFINE K == {i \in 1..Len(s) : s[i] \notin White \/ ~StopNext(s, i)}
<1>1. \A i \in 1..Len(s) : Inside(s, i) /\ s[i] \notin White \cup {"."} => i \in K
  OBVIOUS
<1> HIDE DEF K
<1>2. Kept(s, Pick(s, K))
  BY <1>1, PickKept
<1> QED BY <1>2 DEF TrimStops, K

LEMMA CollapseStopsKept ==
  ASSUME NEW s \in Seq(Tokens)
  PROVE  Kept(s, CollapseStops(s))
<1> DEFINE K == {i \in 1..Len(s) : s[i] # "." \/ i = 1 \/ s[i - 1] # "."}
<1>1. \A i \in 1..Len(s) : Inside(s, i) /\ s[i] \notin White \cup {"."} => i \in K
  OBVIOUS
<1> HIDE DEF K
<1>2. Kept(s, Pick(s, K)) /\ Pick(s, K) \in Seq(Tokens)
  BY <1>1, PickKept DEF Kept
<1>3. Kept(s, TrimStops(Pick(s, K)))
  BY <1>2, TrimStopsKept, KeptOn
<1> QED BY <1>3 DEF CollapseStops, K

\* No white space is left before a full stop.
LEMMA TrimStopsDone ==
  ASSUME NEW s \in Seq(Tokens), NEW i \in 1..Len(TrimStops(s)), TrimStops(s)[i] \in White
  PROVE  ~StopNext(TrimStops(s), i)
<1> DEFINE K == {k \in 1..Len(s) : s[k] \notin White \/ ~StopNext(s, k)}
           t == TrimStops(s)
<1>1. t = Pick(s, K)
  BY DEF TrimStops
<1>2. \A k \in 1..Len(s) : k \in K <=> s[k] \notin White \/ ~StopNext(s, k)
  OBVIOUS
<1> HIDE DEF K
<1>3. t \in Seq(Tokens) /\ Len(t) \in Nat /\ Len(s) \in Nat
  BY <1>1, PickPlaces, LenProperties
<1>4. PICK f : ComesFrom(f, s, K, Len(s), t)
  BY <1>1, PickPlaces
<1>5. SUFFICES ASSUME NEW j \in (i + 1)..Len(t), t[j] = ".", Only(t, White, i + 1, j - 1)
               PROVE  FALSE
  BY DEF StopNext
<1>6. i \in 1..Len(t) /\ j \in 1..Len(t) /\ i < j /\ t[i] \in White
  BY <1>3
<1> HIDE DEF t
<1>7. /\ f \in [1..Len(t) -> 1..Len(s)]
      /\ \A k \in 1..Len(t) : f[k] \in K /\ t[k] = s[f[k]]
      /\ \A k, m \in 1..Len(t) : k < m => f[k] < f[m]
      /\ \A k \in 1..Len(s) : k \in K => \E m \in 1..Len(t) : f[m] = k
  BY <1>4 DEF ComesFrom
<1>8. /\ f[i] \in 1..Len(s) /\ f[j] \in 1..Len(s) /\ f[i] < f[j] /\ f[i] \in K
      /\ s[f[i]] \in White /\ s[f[j]] = "."
  BY <1>5, <1>6, <1>7
<1>9. ~StopNext(s, f[i])
  BY <1>2, <1>8
<1>10. ASSUME NEW k \in (f[i] + 1)..(f[j] - 1) PROVE s[k] \in White
  <2>1. k \in 1..Len(s) /\ f[i] < k /\ k < f[j]
    BY <1>3, <1>8
  <2>2. CASE k \notin K
    BY <1>2, <2>1, <2>2
  <2>3. CASE k \in K
    <3>1. PICK m \in 1..Len(t) : f[m] = k
      BY <1>7, <2>1, <2>3
    <3>2. i < m /\ m < j
      BY <1>3, <1>4, <1>6, <2>1, <3>1, PickOrder
    <3>3. m \in (i + 1)..(j - 1)
      BY <1>3, <1>6, <3>2
    <3>4. t[m] \in White
      BY <1>5, <3>3 DEF Only
    <3> QED BY <1>7, <3>1, <3>4
  <2> QED BY <2>2, <2>3
<1>11. Only(s, White, f[i] + 1, f[j] - 1)
  BY <1>10 DEF Only
<1>12. f[j] \in (f[i] + 1)..Len(s)
  BY <1>3, <1>8
<1> QED BY <1>8, <1>9, <1>11, <1>12 DEF StopNext

\* collapse_duplicate_punctuation: its third substitution, of a full stop, white space
\* and a full stop, finds none, whatever the text.
THEOREM StopsAllTrimmed ==
  ASSUME NEW s \in Seq(Tokens), NEW i \in 1..Len(CollapseStops(s)),
         CollapseStops(s)[i] \in White
  PROVE  ~StopNext(CollapseStops(s), i)
<1> DEFINE t == Pick(s, {k \in 1..Len(s) : s[k] # "." \/ k = 1 \/ s[k - 1] # "."})
<1>1. t \in Seq(Tokens)
  BY PickPlaces
<1>2. CollapseStops(s) = TrimStops(t)
  BY DEF CollapseStops
<1> HIDE DEF t
<1> QED BY <1>1, <1>2, TrimStopsDone

\* Position i is dropped as part of a repetition of the word at j.
Repeated(s, i, j, k) ==
    /\ s[j] \in Spoken \ {"new line"} /\ s[k] = s[j]
    /\ j + 1 < k /\ Only(s, White, j + 1, k - 1)

\* Of a repeated word the first is kept, and nothing but a repeated word and white
\* space is dropped: a new line and what comes next stay.
LEMMA RepeatsBroken ==
  ASSUME NEW s \in Seq(Tokens)
  PROVE  Repeats(s) \in Seq(Tokens) /\ (AnyBroken(s) => AnyBroken(Repeats(s)))
<1> DEFINE N == Len(s)
           K == {i \in 1..N : ~ \E j \in 1..(i - 1) : \E k \in i..N : Repeated(s, i, j, k)}
<1>1. N \in Nat
  BY LenProperties
<1>2. Repeats(s) = Pick(s, K)
  BY DEF Repeats, Repeated
<1>3. Pick(s, K) \in Seq(Tokens)
  <2> HIDE DEF K
  <2> QED BY PickPlaces
<1>4. ASSUME AnyBroken(s) PROVE AnyBroken(Pick(s, K))
  <2>1. PICK a, i, p, b \in 1..N : Stands(s, a, i, p, b)
    BY <1>4 DEF AnyBroken, Broken
  <2>2. a < i /\ i < p /\ p <= b
    BY <2>1 DEF Stands
  <2> DEFINE A == {k \in 1..N : s[k] \in Lexicon}
             B == {k \in p..N : s[k] \in Lexicon}
  <2>3. a \in A /\ b \in B /\ A \in SUBSET Nat /\ B \in SUBSET Nat
    <3>1. s[a] \in Lexicon /\ s[b] \in Lexicon
      BY <2>1 DEF Stands
    <3>2. b \in p..N /\ p..N \subseteq Nat /\ 1..N \subseteq Nat
      BY <1>1, <2>1, <2>2
    <3> QED BY <2>1, <3>1, <3>2
  <2>4. PICK c \in A : \A k \in A : c <= k
    <3> HIDE DEF A
    <3> QED BY <2>3, LeastElement
  <2>5. PICK d \in B : \A k \in B : d <= k
    <3> HIDE DEF B
    <3> QED BY <2>3, LeastElement
  <2>6. c \in 1..N /\ s[c] \in Lexicon /\ c <= a
    BY <2>3, <2>4
  <2>7. d \in p..N /\ s[d] \in Lexicon
    BY <2>5
  <2>8. /\ c \in Nat /\ d \in Nat /\ p \in Nat /\ i \in Nat /\ d \in 1..N /\ c < i /\ p <= d
    BY <1>1, <2>1, <2>2, <2>6, <2>7
  <2>9. /\ s[i] = "new line" /\ s[p] \notin White \cup {"new line", ".", "period"}
        /\ Only(s, White \cup {"new line"}, i + 1, p - 1)
    BY <2>1 DEF Stands
  <2>10. Stands(s, c, i, p, d)
    BY <2>2, <2>6, <2>7, <2>8, <2>9 DEF Stands
  <2>11. ASSUME NEW n \in 1..N, s[n] \notin White,
                NEW j \in 1..(n - 1), NEW k \in n..N, Repeated(s, n, j, k)
         PROVE  /\ s[j] = s[n] /\ s[j] \in Spoken \ {"new line"} /\ j < n /\ j \in 1..N
                /\ Only(s, White, j + 1, n - 1)
    <3>1. j + 1 < k /\ Only(s, White, j + 1, k - 1) /\ s[k] = s[j] /\ s[j] \in Spoken \ {"new line"}
      BY <2>11 DEF Repeated
    <3>2. j < n /\ j \in 1..N /\ n <= k /\ k \in Nat /\ n \in Nat
      BY <1>1
    <3>3. k = n
      <4> SUFFICES ASSUME k # n PROVE FALSE
        OBVIOUS
      <4>1. n \in (j + 1)..(k - 1)
        BY <3>2
      <4> QED BY <2>11, <3>1, <4>1 DEF Only
    <3> QED BY <3>1, <3>2, <3>3
  <2>12. c \in K
    <3> SUFFICES ASSUME NEW j \in 1..(c - 1), NEW k \in c..N, Repeated(s, c, j, k) PROVE FALSE
      BY <2>6
    <3>1. s[j] = s[c] /\ j < c /\ j \in 1..N
      BY <2>6, <2>11, Apart
    <3>2. j \in A
      BY <2>6, <3>1
    <3>3. c <= j
      <4> HIDE DEF A
      <4> QED BY <2>4, <3>2
    <3> QED BY <2>8, <3>1, <3>3
  <2>13. i \in K
    <3> SUFFICES ASSUME NEW j \in 1..(i - 1), NEW k \in i..N, Repeated(s, i, j, k) PROVE FALSE
      BY <2>1
    <3> QED BY <2>1, <2>9, <2>11, TokensApart
  <2>14. p \in K
    <3> SUFFICES ASSUME NEW j \in 1..(p - 1), NEW k \in p..N, Repeated(s, p, j, k) PROVE FALSE
      BY <2>1
    <3>1. j \in Nat /\ j < p
      BY <2>8
    <3>2. s[j] = s[p] /\ s[j] \in Spoken \ {"new line"} /\ Only(s, White, j + 1, p - 1)
      BY <2>9, <2>11
    <3>3. CASE j < i
      <4>1. i \in (j + 1)..(p - 1)
        BY <2>2, <2>8, <3>1, <3>3
      <4> QED BY <2>9, <3>2, <4>1, TokensApart DEF Only
    <3>4. CASE j = i
      BY <2>9, <3>2, <3>4
    <3>5. CASE i < j
      <4>1. j \in (i + 1)..(p - 1)
        BY <2>8, <3>1, <3>5
      <4>2. s[j] \in White \cup {"new line"}
        BY <2>9, <4>1 DEF Only
      <4> QED BY <2>9, <3>2, <4>2
    <3> QED BY <2>8, <3>1, <3>3, <3>4, <3>5
  <2>15. d \in K
    <3> SUFFICES ASSUME NEW j \in 1..(d - 1), NEW k \in d..N, Repeated(s, d, j, k) PROVE FALSE
      BY <2>8
    <3>1. j < d /\ j \in Nat
      BY <2>8
    <3>2. s[d] \notin White
      BY <2>7, Apart
    <3>3. s[j] = s[d] /\ j \in 1..N /\ Only(s, White, j + 1, d - 1)
      BY <2>8, <2>11, <3>2
    <3>4. s[j] = s[d] /\ j < d /\ j \in 1..N /\ j \in Nat /\ Only(s, White, j + 1, d - 1)
      BY <3>1, <3>3
    <3>5. CASE j < p
      <4>1. CASE p = d
        BY <2>14, <4>1
      <4>2. CASE p # d
        <5>1. p \in (j + 1)..(d - 1)
          BY <2>8, <3>4, <3>5, <4>2
        <5> QED BY <2>9, <3>4, <5>1 DEF Only
      <4> QED BY <4>1, <4>2
    <3>6. CASE p <= j
      <4>1. j \in p..N
        BY <1>1, <2>8, <3>4, <3>6
      <4>2. j \in B
        BY <2>7, <3>4, <4>1
      <4>3. d <= j
        <5> HIDE DEF B
        <5> QED BY <2>5, <4>2
      <4> QED BY <2>8, <3>4, <4>3
    <3> QED BY <2>8, <3>4, <3>5, <3>6
  <2> HIDE DEF K
  <2>16. \E w : Broken(Pick(s, K), w)
    BY <2>1, <2>6, <2>8, <2>10, <2>12, <2>13, <2>14, <2>15, PickStands
  <2> QED BY <2>16 DEF AnyBroken
<1> QED BY <1>2, <1>3, <1>4

LEMMA EndWithStopKept ==
  ASSUME NEW s \in Seq(Tokens)
  PROVE  Kept(s, EndWithStop(s))
<1> DEFINE t == Strip(s)
           u == Append(t, ".")
<1>1. Kept(s, t) /\ t \in Seq(Tokens)
  BY StripKept DEF Kept
<1> HIDE DEF t
<1>2. "." \in Tokens /\ "." \notin Lexicon
  BY TokensKnown, TextAssumption
<1>3. WordsOf(u) = WordsOf(t)
  BY <1>1, <1>2, WordsAppend
<1>4. u \in Seq(Tokens) /\ Len(t) \in Nat /\ Len(u) = Len(t) + 1
      /\ \A i \in 1..Len(t) : u[i] = t[i]
  BY <1>1, <1>2
<1> HIDE DEF u
<1>5. ASSUME NEW w, Broken(t, w) PROVE Broken(u, w)
  <2>1. PICK a, i, p, b \in 1..Len(t) : Stands(t, a, i, p, b) /\ WordsTo(t, i) = w
    BY <1>5 DEF Broken
  <2>2. u[a] = t[a] /\ u[i] = t[i] /\ u[p] = t[p] /\ u[b] = t[b]
    BY <1>4, <2>1
  <2>3. 1..Len(t) \subseteq 1..Len(u) /\ (i + 1)..(p - 1) \subseteq 1..Len(t)
    BY <1>4, <2>1
  <2>4. Only(u, White \cup {"new line"}, i + 1, p - 1)
    <3>1. \A j \in (i + 1)..(p - 1) : t[j] \in White \cup {"new line"}
      BY <2>1 DEF Stands, Only
    <3> QED BY <1>4, <2>3, <3>1 DEF Only
  <2>5. Stands(u, a, i, p, b)
    BY <2>1, <2>2, <2>4 DEF Stands
  <2>6. WordsTo(u, i) = w
    <3>1. i \in Nat /\ i <= Len(t) /\ i <= Len(u) /\ 1..i \subseteq 1..Len(t)
      BY <1>4, <2>1
    <3> QED BY <1>1, <1>4, <2>1, <3>1, WordsToSame
  <2> QED BY <2>1, <2>3, <2>5, <2>6 DEF Broken
<1>6. Kept(s, u)
  BY <1>1, <1>3, <1>4, <1>5 DEF Kept, Carries
<1>7. Kept(s, s)
  BY KeptSame
<1> QED BY <1>6, <1>7 DEF EndWithStop, t, u

LEMMA PostProcessedKept ==
  ASSUME NEW s \in Seq(Tokens)
  PROVE  /\ PostProcessed(s) \in Seq(Tokens) /\ (AnyBroken(s) => AnyBroken(PostProcessed(s)))
         /\ "repeats" \notin passes => Kept(s, PostProcessed(s))
<1> DEFINE If(p, yes, no) == IF p \in passes THEN yes ELSE no
           a == Squeeze(s)
           b == If("fillers", TrimFillers(a), a)
           c == If("repeats", Repeats(b), b)
           d == If("space", TrimStops(c), c)
           e == If("duplicates", CollapseStops(d), d)
           z == If("punctuation", EndWithStop(e), e)
<1>1. PostProcessed(s) = IF Strip(s) = <<>> THEN s ELSE z
  BY DEF PostProcessed
<1>2. Kept(s, a) /\ a \in Seq(Tokens)
  BY SqueezeKept DEF Kept
<1> HIDE DEF a
<1>3. Kept(a, b) /\ b \in Seq(Tokens)
  BY <1>2, FillersKept, KeptSame DEF Kept
<1> HIDE DEF b
<1>4. /\ c \in Seq(Tokens) /\ (AnyBroken(b) => AnyBroken(c))
      /\ "repeats" \notin passes => c = b
  BY <1>3, RepeatsBroken
<1> HIDE DEF c
<1>5. Kept(c, d) /\ d \in Seq(Tokens)
  BY <1>4, TrimStopsKept, KeptSame DEF Kept
<1> HIDE DEF d
<1>6. Kept(d, e) /\ e \in Seq(Tokens)
  BY <1>5, CollapseStopsKept, KeptSame DEF Kept
<1> HIDE DEF e
<1>7. Kept(e, z) /\ z \in Seq(Tokens)
  BY <1>6, EndWithStopKept, KeptSame DEF Kept
<1> HIDE DEF z
<1>8. AnyBroken(s) => AnyBroken(z)
  BY <1>2, <1>3, <1>4, <1>5, <1>6, <1>7, KeptAny
<1>9. "repeats" \notin passes => Kept(s, z)
  BY <1>2, <1>3, <1>4, <1>5, <1>6, <1>7, KeptOn
<1> QED BY <1>1, <1>7, <1>8, <1>9, KeptSame

\* The phrases replaced: the new line that stands between words is a line break, and
\* no word is replaced.
LEMMA ReplaceKept ==
  ASSUME NEW s \in Seq(Tokens)
  PROVE  /\ Replace(s) \in Seq(Tokens) /\ WordsOf(Replace(s)) = WordsOf(s)
         /\ \A w : Broken(s, w) => HasLine(Replace(s), w)
<1> DEFINE N == Len(s)
           t == [i \in 1..Len(s) |-> IF s[i] = "new line" THEN "nl" ELSE s[i]]
           u == [i \in 1..Len(t) |-> IF t[i] = "period" /\ ~StopNext(t, i) THEN "." ELSE t[i]]
<1>1. N \in Nat /\ \A i \in 1..N : s[i] \in Tokens
  BY LenProperties, ElementOfSeq
<1>2. t \in Seq(Tokens) /\ Len(t) = N /\ \A i \in 1..N : t[i] = IF s[i] = "new line" THEN "nl" ELSE s[i]
  <2>1. \A i \in 1..N : t[i] \in Tokens
    BY <1>1, TokensKnown
  <2>2. \A i \in 1..N : t[i] = IF s[i] = "new line" THEN "nl" ELSE s[i]
    OBVIOUS
  <2>3. t \in Seq(Tokens) /\ Len(t) = N
    <3>1. DOMAIN t = 1..N /\ t = [i \in 1..N |-> t[i]]
      OBVIOUS
    <3> HIDE DEF t, N
    <3> QED BY <1>1, <2>1, <3>1
  <2> QED BY <2>2, <2>3
<1> HIDE DEF t
<1>3. /\ u \in Seq(Tokens) /\ Len(u) = N
      /\ \A i \in 1..N : u[i] = t[i] \/ (t[i] = "period" /\ u[i] = ".")
  <2>1. \A i \in 1..N : u[i] = IF t[i] = "period" /\ ~StopNext(t, i) THEN "." ELSE t[i]
    BY <1>2
  <2>2. \A i \in 1..N : t[i] \in Tokens
    BY <1>2, ElementOfSeq
  <2>3. \A i \in 1..N : u[i] \in Tokens
    BY <2>1, <2>2, TokensKnown
  <2>4. u \in Seq(Tokens) /\ Len(u) = N
    <3>1. DOMAIN u = 1..N /\ u = [i \in 1..N |-> u[i]]
      BY <1>2
    <3> HIDE DEF u, N
    <3> QED BY <1>1, <2>3, <3>1
  <2> QED BY <2>1, <2>4
<1>4. Replace(s) = u
  BY DEF Replace, t
<1> HIDE DEF u, N
<1>5. ASSUME NEW i \in 1..N, s[i] \notin {"new line", "period"} PROVE u[i] = s[i]
  BY <1>2, <1>3, <1>5
<1>6. ASSUME NEW i \in 1..N, u[i] \in Lexicon PROVE u[i] = s[i]
  BY <1>2, <1>3, <1>6, Apart
<1>7. \A i \in 1..N : s[i] \in Lexicon \/ u[i] \in Lexicon => s[i] = u[i]
  BY <1>5, <1>6, Apart
<1>8. WordsOf(u) = WordsOf(s)
  BY <1>3, <1>7, WordsSame DEF N
<1>9. ASSUME NEW w, Broken(s, w) PROVE HasLine(u, w)
  <2>1. PICK a, i, p, b \in 1..N : Stands(s, a, i, p, b) /\ WordsTo(s, i) = w
    BY <1>9 DEF Broken, N
  <2>2. u[a] = s[a] /\ u[p] = s[p]
    BY <1>5, <2>1, Apart DEF Stands
  <2>3. t[i] = "nl" /\ u[i] = "nl"
    BY <1>2, <1>3, <2>1, TokensApart DEF Stands
  <2>4. ASSUME NEW j \in (i + 1)..(p - 1) PROVE u[j] \in White
    <3>1. j \in 1..N
      BY <1>1, <2>1
    <3>2. s[j] \in White \cup {"new line"}
      BY <2>1 DEF Stands, Only
    <3>3. t[j] \in White
      BY <1>2, <3>1, <3>2, TokensApart
    <3> QED BY <1>3, <3>1, <3>3, TokensApart
  <2>5. Only(u, White, i + 1, p - 1)
    BY <2>4 DEF Only
  <2>6. Lined(u, a, i, p)
    BY <2>1, <2>2, <2>3, <2>5 DEF Stands, Lined
  <2>7. WordsTo(u, i) = w
    <3>1. i \in Nat /\ i <= N /\ 1..i \subseteq 1..N /\ Len(s) = N
      BY <1>1, <2>1 DEF N
    <3> QED BY <1>3, <1>7, <2>1, <3>1, WordsToSame
  <2> QED BY <1>3, <2>1, <2>6, <2>7 DEF HasLine, N
<1> QED BY <1>3, <1>4, <1>8, <1>9

\* Of the line breaks in a row the first is kept.
LEMMA TidyLinesKept ==
  ASSUME NEW s \in Seq(Tokens)
  PROVE  /\ TidyLines(s) \in Seq(Tokens) /\ WordsOf(TidyLines(s)) = WordsOf(s)
         /\ \A w : HasLine(s, w) => HasLine(TidyLines(s), w)
<1> DEFINE K == {i \in 1..Len(s) : s[i] # "sp" \/ ~ \E j \in 1..Len(s) :
                        /\ s[j] = "nl"
                        /\ \/ i < j /\ Only(s, {"sp"}, i, j - 1)
                           \/ j < i /\ Only(s, {"sp"}, j + 1, i)}
           t == Pick(s, K)
           J == {i \in 1..Len(t) : t[i] # "nl" \/ i < 3 \/ t[i - 1] # "nl" \/ t[i - 2] # "nl"}
<1>1. TidyLines(s) = Pick(t, J)
  BY DEF TidyLines
<1>2. \A i \in 1..Len(s) : s[i] # "sp" => i \in K
  OBVIOUS
<1> HIDE DEF K
<1>3. t \in Seq(Tokens)
  BY PickPlaces
<1>w. WordsAt(s) \subseteq K
  BY <1>2, Apart DEF WordsAt
<1>4. WordsOf(t) = WordsOf(s)
  BY <1>w, WordsKept
<1>5. ASSUME NEW w, HasLine(s, w) PROVE HasLine(t, w)
  <2>1. PICK a, i, p \in 1..Len(s) : Lined(s, a, i, p) /\ WordsTo(s, i) = w
    BY <1>5 DEF HasLine
  <2>2. s[i] # "sp" /\ s[p] # "sp"
    BY <2>1 DEF Lined, White
  <2> QED BY <1>2, <1>w, <2>1, <2>2, PickLined
<1> HIDE DEF t
<1>x. WordsAt(t) \subseteq J
  BY Apart DEF WordsAt
<1>6. Pick(t, J) \in Seq(Tokens) /\ WordsOf(Pick(t, J)) = WordsOf(t)
  <2> HIDE DEF J
  <2> QED BY <1>3, <1>x, WordsKept, PickPlaces
<1>7. ASSUME NEW w, HasLine(t, w) PROVE HasLine(Pick(t, J), w)
  <2>1. PICK a, i, p \in 1..Len(t) : Lined(t, a, i, p) /\ WordsTo(t, i) = w
    BY <1>7 DEF HasLine
  <2>2. Len(t) \in Nat /\ a < i /\ i < p
    BY <1>3, <2>1, LenProperties DEF Lined
  <2> DEFINE T == {k \in (a + 1)..(p - 1) : t[k] = "nl" /\ Only(t, White, k + 1, p - 1)}
  <2>3. i \in T
    <3>1. i \in (a + 1)..(p - 1)
      BY <2>2, <2>1
    <3> QED BY <2>1, <3>1 DEF Lined
  <2>4. T \in SUBSET Nat
    <3>1. (a + 1)..(p - 1) \in SUBSET Nat
      BY <2>1
    <3> QED BY <3>1
  <2>5. PICK k \in T : \A m \in T : k <= m
    <3> HIDE DEF T
    <3> QED BY <2>3, <2>4, LeastElement
  <2>6. k \in (a + 1)..(p - 1) /\ t[k] = "nl" /\ Only(t, White, k + 1, p - 1)
    OBVIOUS
  <2>7. k \in Nat /\ a < k /\ k < p /\ k \in 1..Len(t) /\ k - 1 \in Nat
    BY <2>2, <2>1, <2>6
  <2>8. t[k - 1] # "nl"
    <3> SUFFICES ASSUME t[k - 1] = "nl" PROVE FALSE
      OBVIOUS
    <3>1. t[a] # "nl"
      BY <2>1, Apart DEF Lined
    <3>2. k - 1 # a
      BY <3>1
    <3>3. k - 1 \in (a + 1)..(p - 1)
      BY <2>1, <2>7, <3>2
    <3>4. Only(t, White, (k - 1) + 1, p - 1)
      <4> SUFFICES ASSUME NEW j \in ((k - 1) + 1)..(p - 1) PROVE t[j] \in White
        BY DEF Only
      <4>1. j = k \/ j \in (k + 1)..(p - 1)
        BY <2>1, <2>7
      <4> QED BY <2>6, <4>1, TokensApart DEF Only
    <3>5. k - 1 \in T
      BY <3>3, <3>4
    <3>6. k <= k - 1
      <4> HIDE DEF T
      <4> QED BY <2>5, <3>5
    <3> QED BY <2>7, <3>6
  <2>9. Lined(t, a, k, p)
    BY <2>1, <2>6, <2>7 DEF Lined
  <2>10. p \in J
    BY <2>1, TokensApart DEF Lined
  <2>11. k \in J
    BY <2>7, <2>8
  <2>12. k <= i
    <3> HIDE DEF T
    <3> QED BY <2>1, <2>2, <2>4, <2>5, <2>3
  <2> HIDE DEF J, T
  <2>13. WordsTo(t, k) = w
    <3>1. k \in 0..Len(t) /\ i \in 0..Len(t)
      BY <2>2, <2>1, <2>7
    <3>2. (k + 1)..i \subseteq (k + 1)..(p - 1)
      BY <2>1, <2>2, <2>7
    <3>3. \A j \in (k + 1)..i : t[j] \notin Lexicon
      BY <2>6, <3>2, Apart DEF Only
    <3>4. WordsTo(t, k) = WordsTo(t, i)
      BY <1>3, <2>12, <3>1, <3>3, WordsToStay
    <3> QED BY <2>1, <3>4
  <2> QED BY <1>3, <1>x, <2>1, <2>7, <2>9, <2>10, <2>11, <2>13, PickLined
<1> QED BY <1>1, <1>4, <1>5, <1>6, <1>7

\* A line break between words is not trimmed.
LEMMA StripLined ==
  ASSUME NEW s \in Seq(Tokens), NEW w, HasLine(s, w)
  PROVE  HasLine(Strip(s), w)
<1> DEFINE K == {i \in 1..Len(s) : ~AllWhite(s, i) /\ ~Only(s, White, 1, i)}
<1>1. PICK a, i, p \in 1..Len(s) : Lined(s, a, i, p) /\ WordsTo(s, i) = w
  BY DEF HasLine
<1>2. s[a] \notin White /\ s[p] \notin White /\ a < i /\ i < p
  BY <1>1, Apart DEF Lined
<1>3. a \in K /\ p \in K
  BY <1>1, <1>2, NotWhite
<1>4. Len(s) \in Nat
  BY LenProperties
<1>5. a \in 1..i /\ p \in i..Len(s)
  BY <1>1, <1>2, <1>4
<1>6. i \in K
  BY <1>1, <1>2, <1>5 DEF AllWhite, Only
<1>w. WordsAt(s) \subseteq K
  BY NotWhite, Apart DEF WordsAt
<1> HIDE DEF K
<1>7. HasLine(Pick(s, K), w)
  BY <1>1, <1>3, <1>6, <1>w, PickLined
<1> QED BY <1>7 DEF Strip, K

LEMMA TrimStopsLined ==
  ASSUME NEW s \in Seq(Tokens), NEW w, HasLine(s, w)
  PROVE  HasLine(TrimStops(s), w)
<1> DEFINE K == {i \in 1..Len(s) : s[i] \notin White \/ ~StopNext(s, i)}
<1>1. PICK a, i, p \in 1..Len(s) : Lined(s, a, i, p) /\ WordsTo(s, i) = w
  BY DEF HasLine
<1>2. s[a] \notin White /\ s[p] \notin White \cup {"."} /\ i < p /\ Only(s, White, i + 1, p - 1)
  BY <1>1, Apart DEF Lined
<1>3. a \in K /\ p \in K
  BY <1>1, <1>2
<1>4. ~StopNext(s, i)
  <2> SUFFICES ASSUME NEW j \in (i + 1)..Len(s), s[j] = ".", Only(s, White, i + 1, j - 1)
               PROVE  FALSE
    BY DEF StopNext
  <2>1. Len(s) \in Nat /\ i \in Nat /\ p \in Nat /\ j \in Nat
    BY <1>1, LenProperties
  <2>2. CASE j < p
    <3>1. j \in (i + 1)..(p - 1)
      BY <2>1, <2>2
    <3> QED BY <1>2, <3>1, TokensApart DEF Only
  <2>3. CASE j = p
    BY <1>2, <2>3
  <2>4. CASE p < j
    <3>1. p \in (i + 1)..(j - 1)
      BY <1>2, <2>1, <2>4
    <3> QED BY <1>2, <3>1 DEF Only
  <2> QED BY <2>1, <2>2, <2>3, <2>4
<1>5. i \in K
  BY <1>1, <1>4
<1>w. WordsAt(s) \subseteq K
  BY Apart DEF WordsAt
<1> HIDE DEF K
<1>6. HasLine(Pick(s, K), w)
  BY <1>1, <1>3, <1>5, <1>w, PickLined
<1> QED BY <1>6 DEF TrimStops, K

LEMMA CollapseStopsLined ==
  ASSUME NEW s \in Seq(Tokens), NEW w, HasLine(s, w)
  PROVE  HasLine(CollapseStops(s), w)
<1> DEFINE K == {i \in 1..Len(s) : s[i] # "." \/ i = 1 \/ s[i - 1] # "."}
<1>1. PICK a, i, p \in 1..Len(s) : Lined(s, a, i, p) /\ WordsTo(s, i) = w
  BY DEF HasLine
<1>2. s[a] # "." /\ s[i] # "." /\ s[p] # "."
  BY <1>1, Apart, TokensApart DEF Lined
<1>3. a \in K /\ i \in K /\ p \in K
  BY <1>1, <1>2
<1>w. WordsAt(s) \subseteq K
  BY Apart DEF WordsAt
<1> HIDE DEF K
<1>4. HasLine(Pick(s, K), w) /\ Pick(s, K) \in Seq(Tokens)
  BY <1>1, <1>3, <1>w, PickLined, PickPlaces
<1> QED BY <1>4, TrimStopsLined DEF CollapseStops, K

\* The command shows in the end, after the words in w.
Shows(t, w) == \E k \in 1..Len(t) : t[k] = Break /\ WordsTo(t, k) = w

\* The voice commands keep the words, and put a line break where one was dictated.
LEMMA VoiceCommandsKept ==
  ASSUME NEW s \in Seq(Tokens)
  PROVE  /\ VoiceCommands(s) \in Seq(Tokens) /\ WordsOf(VoiceCommands(s)) = WordsOf(s)
         /\ \A w : Broken(s, w) => Shows(VoiceCommands(s), w)
<1> DEFINE t == Strip(s)
           u == Replace(t)
           v == TidyLines(u)
           y == CollapseStops(v)
           z == Strip(y)
<1>1. VoiceCommands(s) = IF "commands" \notin passes \/ t = <<>> THEN s ELSE z
  BY DEF VoiceCommands
<1>2. Kept(s, t) /\ t \in Seq(Tokens)
  BY StripKept DEF Kept
<1> HIDE DEF t
<1>3. u \in Seq(Tokens) /\ WordsOf(u) = WordsOf(t) /\ \A w : Broken(t, w) => HasLine(u, w)
  BY <1>2, ReplaceKept
<1> HIDE DEF u
<1>4. v \in Seq(Tokens) /\ WordsOf(v) = WordsOf(u) /\ \A w : HasLine(u, w) => HasLine(v, w)
  BY <1>3, TidyLinesKept
<1> HIDE DEF v
<1>5. y \in Seq(Tokens) /\ WordsOf(y) = WordsOf(v) /\ \A w : HasLine(v, w) => HasLine(y, w)
  BY <1>4, CollapseStopsKept, CollapseStopsLined DEF Kept
<1> HIDE DEF y
<1>6. z \in Seq(Tokens) /\ WordsOf(z) = WordsOf(y) /\ \A w : HasLine(y, w) => HasLine(z, w)
  BY <1>5, StripKept, StripLined DEF Kept
<1> HIDE DEF z
<1>7. WordsOf(z) = WordsOf(s)
  BY <1>2, <1>3, <1>4, <1>5, <1>6 DEF Kept
<1>8. ASSUME NEW w, Broken(s, w) PROVE Shows(VoiceCommands(s), w)
  <2>1. Broken(t, w)
    BY <1>2, <1>8 DEF Kept, Carries
  <2>2. t # <<>>
    <3>1. ~Broken(<<>>, w)
      BY DEF Broken
    <3> QED BY <2>1, <3>1
  <2>3. CASE "commands" \in passes
    <3>1. HasLine(z, w)
      BY <1>3, <1>4, <1>5, <1>6, <2>1
    <3>2. Shows(z, w)
      BY <2>3, <3>1 DEF HasLine, Lined, Shows, Break
    <3> QED BY <1>1, <2>2, <2>3, <3>2
  <2>4. CASE "commands" \notin passes
    <3>1. Shows(s, w)
      BY <1>8, <2>4 DEF Broken, Stands, Shows, Break
    <3> QED BY <1>1, <2>4, <3>1
  <2> QED BY <2>3, <2>4
<1> QED BY <1>1, <1>6, <1>7, <1>8

\* Three line breaks in a row.
ThreeLines(s) ==
    \E i \in 1..Len(s) : i + 2 \in 1..Len(s) /\ s[i] = "nl" /\ s[i + 1] = "nl" /\ s[i + 2] = "nl"

\* K drops everything between a and b, and they are line breaks that it keeps.
Abut(s, K, a, b) ==
    /\ a \in 1..Len(s) /\ b \in 1..Len(s) /\ a < b /\ a \in K /\ b \in K
    /\ s[a] = "nl" /\ s[b] = "nl" /\ \A k \in (a + 1)..(b - 1) : k \notin K

\* Three line breaks in a selection come from three that nothing kept separates.
LEMMA PickThree ==
  ASSUME NEW s \in Seq(Tokens), NEW K, ThreeLines(Pick(s, K))
  PROVE  \E a, b, c \in 1..Len(s) : Abut(s, K, a, b) /\ Abut(s, K, b, c)
<1> DEFINE t == Pick(s, K)
<1>1. PICK f : ComesFrom(f, s, K, Len(s), t)
  BY PickPlaces
<1>2. t \in Seq(Tokens) /\ Len(t) \in Nat /\ Len(s) \in Nat
  BY PickPlaces, LenProperties
<1>3. PICK i \in 1..Len(t) : i + 2 \in 1..Len(t) /\ t[i] = "nl" /\ t[i + 1] = "nl" /\ t[i + 2] = "nl"
  BY DEF ThreeLines
<1> HIDE DEF t
<1>4. /\ f \in [1..Len(t) -> 1..Len(s)]
      /\ \A k \in 1..Len(t) : f[k] \in K /\ t[k] = s[f[k]]
      /\ \A k, m \in 1..Len(t) : k < m => f[k] < f[m]
      /\ \A k \in 1..Len(s) : k \in K => \E m \in 1..Len(t) : f[m] = k
  BY <1>1 DEF ComesFrom
<1>5. ASSUME NEW j \in 1..Len(t), NEW n \in 1..Len(t), n = j + 1, t[j] = "nl", t[n] = "nl"
      PROVE  Abut(s, K, f[j], f[n])
  <2>1. f[j] \in 1..Len(s) /\ f[n] \in 1..Len(s) /\ j < n
    BY <1>4, <1>5
  <2>2. f[j] < f[n] /\ f[j] \in K /\ f[n] \in K /\ s[f[j]] = "nl" /\ s[f[n]] = "nl"
    BY <1>4, <1>5, <2>1
  <2>3. ASSUME NEW k \in (f[j] + 1)..(f[n] - 1), k \in K PROVE FALSE
    <3>1. k \in 1..Len(s) /\ f[j] < k /\ k < f[n]
      BY <1>2, <2>1
    <3>2. PICK m \in 1..Len(t) : f[m] = k
      BY <1>4, <2>3, <3>1
    <3>3. j < m /\ m < n
      BY <1>1, <1>2, <3>1, <3>2, PickOrder
    <3> QED BY <1>2, <1>5, <3>3
  <2> QED BY <2>1, <2>2, <2>3 DEF Abut
<1>6. i + 1 \in 1..Len(t) /\ i + 2 = (i + 1) + 1
  BY <1>2, <1>3
<1>7. Abut(s, K, f[i], f[i + 1])
  BY <1>3, <1>5, <1>6
<1>8. Abut(s, K, f[i + 1], f[i + 2])
  BY <1>3, <1>5, <1>6
<1>9. f[i] \in 1..Len(s) /\ f[i + 1] \in 1..Len(s) /\ f[i + 2] \in 1..Len(s)
  BY <1>7, <1>8 DEF Abut
<1> QED BY <1>7, <1>8, <1>9

\* A selection that never brings line breaks together makes no three of them.
LEMMA PickNoThree ==
  ASSUME NEW s \in Seq(Tokens), NEW K, ~ThreeLines(s),
         \A a, b \in 1..Len(s) : Abut(s, K, a, b) => b = a + 1
  PROVE  ~ThreeLines(Pick(s, K))
<1> SUFFICES ASSUME ThreeLines(Pick(s, K)) PROVE FALSE
  OBVIOUS
<1>1. PICK a, b, c \in 1..Len(s) : Abut(s, K, a, b) /\ Abut(s, K, b, c)
  BY PickThree
<1>2. b = a + 1 /\ c = a + 2
  <2>1. b = a + 1 /\ c = b + 1
    BY <1>1
  <2> QED BY <1>1, <2>1
<1> QED BY <1>1, <1>2 DEF Abut, ThreeLines

LEMMA StripNoThree ==
  ASSUME NEW s \in Seq(Tokens), ~ThreeLines(s)
  PROVE  ~ThreeLines(Strip(s))
<1> DEFINE K == {i \in 1..Len(s) : ~AllWhite(s, i) /\ ~Only(s, White, 1, i)}
<1>1. ASSUME NEW a \in 1..Len(s), NEW b \in 1..Len(s), Abut(s, K, a, b), b # a + 1
      PROVE  FALSE
  <2>1. /\ a < b /\ ~Only(s, White, 1, a) /\ ~AllWhite(s, b) /\ a + 1 \notin K
        /\ Len(s) \in Nat /\ a + 1 \in 1..Len(s)
    <3>1. a < b /\ a \in K /\ b \in K /\ \A k \in (a + 1)..(b - 1) : k \notin K
      <4> HIDE DEF K
      <4> QED BY <1>1 DEF Abut
    <3>2. a + 1 \in (a + 1)..(b - 1) /\ Len(s) \in Nat /\ a + 1 \in 1..Len(s)
      BY <1>1, <3>1, LenProperties
    <3>3. a + 1 \notin K
      <4> HIDE DEF K
      <4> QED BY <3>1, <3>2
    <3> QED BY <3>1, <3>2, <3>3
  <2>2. AllWhite(s, a + 1) => AllWhite(s, b)
    <3>1. b..Len(s) \subseteq (a + 1)..Len(s)
      BY <2>1
    <3> QED BY <3>1 DEF AllWhite, Only
  <2>3. Only(s, White, 1, a + 1) => Only(s, White, 1, a)
    <3>1. 1..a \subseteq 1..(a + 1)
      OBVIOUS
    <3> QED BY <3>1 DEF Only
  <2> QED BY <2>1, <2>2, <2>3
<1> HIDE DEF K
<1>2. ~ThreeLines(Pick(s, K))
  BY <1>1, PickNoThree
<1> QED BY <1>2 DEF Strip, K

LEMMA TrimStopsNoThree ==
  ASSUME NEW s \in Seq(Tokens), ~ThreeLines(s)
  PROVE  ~ThreeLines(TrimStops(s))
<1> DEFINE K == {i \in 1..Len(s) : s[i] \notin White \/ ~StopNext(s, i)}
<1>1. ASSUME NEW a \in 1..Len(s), NEW b \in 1..Len(s), Abut(s, K, a, b), b # a + 1
      PROVE  FALSE
  <2>1. /\ a < b /\ b \in K /\ s[b] = "nl" /\ \A k \in (a + 1)..(b - 1) : k \notin K
    <3> HIDE DEF K
    <3> QED BY <1>1 DEF Abut
  <2>2. Len(s) \in Nat /\ a + 1 \in (a + 1)..(b - 1) /\ (a + 1)..(b - 1) \subseteq 1..Len(s)
    BY <1>1, <2>1, LenProperties
  <2>3. \A k \in (a + 1)..(b - 1) : s[k] \in White
    BY <2>1, <2>2
  <2>4. StopNext(s, a + 1)
    BY <2>1, <2>2
  <2>5. PICK j \in ((a + 1) + 1)..Len(s) : s[j] = "." /\ Only(s, White, (a + 1) + 1, j - 1)
    BY <2>4 DEF StopNext
  <2>6. ~StopNext(s, b) /\ s[b] \in White
    BY <2>1, TokensApart
  <2>7. CASE b < j
    <3>1. j \in (b + 1)..Len(s) /\ (b + 1)..(j - 1) \subseteq ((a + 1) + 1)..(j - 1)
      BY <2>1, <2>2, <2>7
    <3>2. Only(s, White, b + 1, j - 1)
      BY <2>5, <3>1 DEF Only
    <3> QED BY <2>5, <2>6, <3>1, <3>2 DEF StopNext
  <2>8. CASE j = b
    BY <2>1, <2>5, <2>8, TokensApart
  <2>9. CASE j < b
    <3>1. j \in (a + 1)..(b - 1)
      BY <2>2, <2>9
    <3> QED BY <2>3, <2>5, <3>1, TokensApart
  <2> QED BY <2>2, <2>7, <2>8, <2>9
<1> HIDE DEF K
<1>2. ~ThreeLines(Pick(s, K))
  BY <1>1, PickNoThree
<1> QED BY <1>2 DEF TrimStops, K

LEMMA CollapseStopsNoThree ==
  ASSUME NEW s \in Seq(Tokens), ~ThreeLines(s)
  PROVE  ~ThreeLines(CollapseStops(s))
<1> DEFINE K == {i \in 1..Len(s) : s[i] # "." \/ i = 1 \/ s[i - 1] # "."}
<1>1. ASSUME NEW a \in 1..Len(s), NEW b \in 1..Len(s), Abut(s, K, a, b), b # a + 1
      PROVE  FALSE
  <2>1. a < b /\ s[a] = "nl" /\ \A k \in (a + 1)..(b - 1) : k \notin K
    <3> HIDE DEF K
    <3> QED BY <1>1 DEF Abut
  <2>2. a + 1 \in (a + 1)..(b - 1) /\ a + 1 \in 1..Len(s) /\ (a + 1) - 1 = a
    BY <1>1, <2>1, LenProperties
  <2>3. a + 1 \notin K
    <3> HIDE DEF K
    <3> QED BY <2>1, <2>2
  <2>4. s[(a + 1) - 1] = "."
    BY <2>2, <2>3
  <2> QED BY <2>1, <2>2, <2>4, TokensApart
<1> HIDE DEF K
<1>2. ~ThreeLines(Pick(s, K)) /\ Pick(s, K) \in Seq(Tokens)
  BY <1>1, PickNoThree, PickPlaces
<1> QED BY <1>2, TrimStopsNoThree DEF CollapseStops, K

\* The third of three line breaks is dropped, and only such a one is.
LEMMA TidyLinesNoThree ==
  ASSUME NEW s \in Seq(Tokens)
  PROVE  ~ThreeLines(TidyLines(s))
<1> DEFINE t == Pick(s, {i \in 1..Len(s) : s[i] # "sp" \/ ~ \E j \in 1..Len(s) :
                        /\ s[j] = "nl"
                        /\ \/ i < j /\ Only(s, {"sp"}, i, j - 1)
                           \/ j < i /\ Only(s, {"sp"}, j + 1, i)})
           J == {i \in 1..Len(t) : t[i] # "nl" \/ i < 3 \/ t[i - 1] # "nl" \/ t[i - 2] # "nl"}
<1>1. TidyLines(s) = Pick(t, J)
  BY DEF TidyLines
<1>2. t \in Seq(Tokens) /\ Len(t) \in Nat
  BY PickPlaces, LenProperties
<1> HIDE DEF t
<1>3. ASSUME NEW a \in 1..Len(t), NEW b \in 1..Len(t), Abut(t, J, a, b)
      PROVE  a < b /\ b \in J /\ \A k \in a..b : t[k] = "nl"
  <2>1. /\ a < b /\ b \in J /\ t[a] = "nl" /\ t[b] = "nl"
        /\ \A k \in (a + 1)..(b - 1) : k \notin J
    <3> HIDE DEF J
    <3> QED BY <1>3 DEF Abut
  <2>2. ASSUME NEW k \in a..b PROVE t[k] = "nl"
    <3>1. k = a \/ k = b \/ (k \in (a + 1)..(b - 1) /\ k \in 1..Len(t))
      BY <1>2
    <3> QED BY <2>1, <3>1
  <2> QED BY <2>1, <2>2
<1>4. ASSUME ThreeLines(Pick(t, J)) PROVE FALSE
  <2>1. PICK a, b, c \in 1..Len(t) : Abut(t, J, a, b) /\ Abut(t, J, b, c)
    <3> HIDE DEF J
    <3> QED BY <1>2, <1>4, PickThree
  <2>2. a < b /\ b < c /\ c \in J /\ (\A k \in a..b : t[k] = "nl") /\ (\A k \in b..c : t[k] = "nl")
    BY <1>3, <2>1
  <2>3. a \in Nat /\ b \in Nat /\ c \in Nat /\ 1 <= a /\ c >= 3
    BY <2>1, <2>2
  <2>4. c \in b..c /\ c - 1 \in b..c /\ (c - 2 \in a..b \/ c - 2 \in b..c)
    BY <2>2, <2>3
  <2>5. t[c] = "nl" /\ t[c - 1] = "nl" /\ t[c - 2] = "nl"
    BY <2>2, <2>4
  <2> QED BY <2>2, <2>3, <2>5
<1> QED BY <1>1, <1>4

\* apply_voice_commands, when it is enabled, leaves no three line breaks in a row, however often a new line
\* was dictated, nor do its last steps bring any together.
THEOREM LinesAlwaysTidy ==
  ASSUME NEW s \in Seq(Tokens), Strip(s) # <<>>, "commands" \in passes
  PROVE  ~ThreeLines(VoiceCommands(s))
<1> DEFINE t == TidyLines(Replace(Strip(s)))
<1>1. VoiceCommands(s) = Strip(CollapseStops(t))
  BY DEF VoiceCommands
<1>2. t \in Seq(Tokens) /\ ~ThreeLines(t)
  <2>1. Strip(s) \in Seq(Tokens)
    BY StripKept DEF Kept
  <2>2. Replace(Strip(s)) \in Seq(Tokens)
    BY <2>1, ReplaceKept
  <2> QED BY <2>2, TidyLinesKept, TidyLinesNoThree
<1> HIDE DEF t
<1>3. CollapseStops(t) \in Seq(Tokens) /\ ~ThreeLines(CollapseStops(t))
  BY <1>2, CollapseStopsKept, CollapseStopsNoThree DEF Kept
<1> QED BY <1>1, <1>3, StripNoThree

\* A transcript, in tokens; an empty one.
LEMMA SpacedType ==
  ASSUME NEW ts \in Seq(Spoken \cup {"."})
  PROVE  Spaced(ts) \in Seq(Tokens) /\ (Len(ts) = 0 => Spaced(ts) = <<>>)
<1> DEFINE Sep(i)  == IF i = 1 \/ ts[i] = "." THEN <<>> ELSE <<"sp">>
           N       == Len(ts)
           Body(f) == [n \in 0..N |-> IF n = 0 THEN <<>> ELSE f[n - 1] \o Sep(n) \o <<ts[n]>>]
           upto    == CHOOSE f : f = Body(f)
           S       == Seq(Tokens)
           F       == [n \in 1..N |-> [t \in S |-> t \o Sep(n) \o <<ts[n]>>]]
<1>1. N \in Nat /\ <<>> \in S
  BY LenProperties
<1>2. ASSUME NEW n \in 1..N, NEW t \in S PROVE t \o Sep(n) \o <<ts[n]>> \in S
  <2>1. ts[n] \in Tokens
    BY ElementOfSeq, TokensKnown DEF Tokens
  <2>2. Sep(n) \in S /\ <<ts[n]>> \in S
    <3>1. "sp" \in Tokens
      BY TokensKnown
    <3>2. <<"sp">> \in S /\ <<>> \in S /\ <<ts[n]>> \in S
      BY <2>1, <3>1
    <3> HIDE DEF S
    <3> QED BY <3>2
  <2> HIDE DEF Sep
  <2>3. t \o Sep(n) \in S
    BY <2>2, ConcatProperties
  <2> QED BY <2>2, <2>3, ConcatProperties
<1> HIDE DEF Sep, S, N
<1>3. F \in [1..N -> [S -> S]]
  BY <1>2
<1>4. \A n \in 1..N : \A t \in S : F[n][t] = t \o Sep(n) \o <<ts[n]>>
  OBVIOUS
<1> HIDE DEF F
<1>5. PICK g \in [0..N -> S] : Recurs(g, N, <<>>, F)
  BY <1>1, <1>3, RecursionExists
<1>6. g = Body(g)
  <2>1. ASSUME NEW n \in 1..N PROVE F[n][g[n - 1]] = g[n - 1] \o Sep(n) \o <<ts[n]>>
    <3>1. n - 1 \in 0..N
      BY <1>1
    <3> QED BY <1>4, <1>5, <3>1
  <2>2. \A n \in 0..N : n = 0 \/ n \in 1..N
    BY <1>1
  <2> QED BY <1>5, <2>1, <2>2 DEF Recurs
<1>7. upto = Body(upto)
  <2> HIDE DEF Body
  <2> QED BY <1>6
<1>8. upto[0] = <<>> /\ \A n \in 1..N : upto[n] = upto[n - 1] \o Sep(n) \o <<ts[n]>>
  <2> HIDE DEF upto
  <2> DEFINE e(n) == upto[n - 1] \o Sep(n) \o <<ts[n]>>
  <2>1. upto = [n \in 0..N |-> IF n = 0 THEN <<>> ELSE e(n)]
    BY <1>7
  <2> HIDE DEF e
  <2>2. upto[0] = <<>> /\ \A n \in 1..N : upto[n] = e(n)
    BY <1>1, <2>1
  <2> QED BY <2>2 DEF e
<1>9. Spaced(ts) = upto[N]
  BY DEF Spaced, Sep, N
<1> HIDE DEF upto
<1> DEFINE T == {n \in Nat : n <= N => upto[n] \in S}
<1>10. 0 \in T
  BY <1>1, <1>8
<1>11. ASSUME NEW n \in T PROVE n + 1 \in T
  <2> SUFFICES ASSUME n + 1 <= N PROVE upto[n + 1] \in S
    OBVIOUS
  <2>1. n \in Nat /\ n + 1 \in 1..N /\ (n + 1) - 1 = n /\ n + 1 # 0 /\ upto[n] \in S
    BY <1>1, <1>11
  <2>2. upto[n + 1] = upto[n] \o Sep(n + 1) \o <<ts[n + 1]>>
    BY <1>8, <2>1
  <2> QED BY <1>2, <2>1, <2>2
<1>12. T = Nat
  <2>1. T \in SUBSET Nat
    OBVIOUS
  <2> HIDE DEF T
  <2> QED BY <1>10, <1>11, <2>1, SetInduction
<1>13. upto[N] \in S
  BY <1>1, <1>12
<1> QED BY <1>9, <1>8, <1>13 DEF S, N

-----------------------------------------------------------------------------
\* Before the voice commands nothing has been lost.
SoFarKept ==
    did # "commands" =>
        /\ did = "none" => text = raw
        /\ AnyBroken(raw) => AnyBroken(text)
        /\ "repeats" \notin passes => WordsOf(text) = WordsOf(raw) /\ Carries(raw, text)

TextInv == TextTypeOK /\ SoFarKept /\ TextIsKept

LEMMA TextInvInit == TextInit => TextInv
<1> SUFFICES ASSUME TextInit PROVE TextInv
  OBVIOUS
<1>1. PICK n \in 0..MaxText : \E ts \in [1..n -> Spoken \cup {"."}] : raw = Spaced(ts)
  BY DEF TextInit
<1>2. PICK ts \in [1..n -> Spoken \cup {"."}] : raw = Spaced(ts)
  BY <1>1
<1>3. ts \in Seq(Spoken \cup {"."})
  <2>1. MaxText \in Nat
    BY TextAssumption
  <2>2. n \in Nat
    BY <2>1
  <2> QED BY <2>2
<1>4. raw \in Seq(Tokens)
  BY <1>2, <1>3, SpacedType
<1>5. text = raw /\ did = "none"
  BY DEF TextInit
<1> QED BY <1>4, <1>5 DEF TextInv, TextTypeOK, SoFarKept, TextIsKept, Carries

LEMMA PostProcessInv == TextInv /\ PostProcess => TextInv'
<1> SUFFICES ASSUME TextInv, PostProcess PROVE TextInv'
  OBVIOUS
<1>1. /\ did = "none" /\ did' = "processed" /\ raw' = raw /\ passes' = passes
      /\ text' \in {text, PostProcessed(text)}
  BY DEF PostProcess
<1>2. raw \in Seq(Tokens) /\ text = raw
  BY <1>1 DEF TextInv, TextTypeOK, SoFarKept
<1>3. /\ text' \in Seq(Tokens) /\ (AnyBroken(raw) => AnyBroken(text'))
      /\ "repeats" \notin passes => Kept(raw, text')
  BY <1>1, <1>2, PostProcessedKept, KeptSame
<1>4. TextTypeOK'
  BY <1>1, <1>2, <1>3 DEF TextTypeOK
<1>5. SoFarKept'
  <2>1. AnyBroken(raw') => AnyBroken(text')
    BY <1>1, <1>3
  <2>2. "repeats" \notin passes' => WordsOf(text') = WordsOf(raw') /\ Carries(raw', text')
    BY <1>1, <1>3 DEF Kept
  <2>3. did' # "none"
    BY <1>1
  <2> QED BY <2>1, <2>2, <2>3 DEF SoFarKept
<1>6. TextIsKept'
  BY <1>1 DEF TextIsKept
<1> QED BY <1>4, <1>5, <1>6 DEF TextInv

LEMMA ApplyCommandsInv == TextInv /\ ApplyCommands => TextInv'
<1> SUFFICES ASSUME TextInv, ApplyCommands PROVE TextInv'
  OBVIOUS
<1>1. /\ did = "processed" /\ did' = "commands" /\ raw' = raw /\ passes' = passes
      /\ text' = VoiceCommands(text)
  BY DEF ApplyCommands
<1>2. /\ raw \in Seq(Tokens) /\ text \in Seq(Tokens) /\ (AnyBroken(raw) => AnyBroken(text))
      /\ "repeats" \notin passes => WordsOf(text) = WordsOf(raw) /\ Carries(raw, text)
  BY <1>1 DEF TextInv, TextTypeOK, SoFarKept
<1>3. /\ text' \in Seq(Tokens) /\ WordsOf(text') = WordsOf(text)
      /\ \A w : Broken(text, w) => Shows(text', w)
  BY <1>1, <1>2, VoiceCommandsKept
<1>4. TextTypeOK'
  BY <1>1, <1>2, <1>3 DEF TextTypeOK
<1>5. SoFarKept'
  BY <1>1 DEF SoFarKept
<1>6. "repeats" \notin passes => WordsOf(text') = WordsOf(raw)
  BY <1>2, <1>3
<1>7. ASSUME NEW i \in 1..Len(raw), Breaks(raw, i)
      PROVE  \E k \in 1..Len(text') :
                text'[k] = Break /\ ("repeats" \notin passes => WordsTo(text', k) = WordsTo(raw, i))
  <2>1. Broken(raw, WordsTo(raw, i))
    BY <1>2, <1>7, BreaksBroken
  <2>2. CASE "repeats" \in passes
    <3>1. PICK w : Broken(text, w)
      BY <1>2, <2>1 DEF AnyBroken
    <3>2. Shows(text', w)
      BY <1>3, <3>1
    <3> QED BY <2>2, <3>2 DEF Shows
  <2>3. CASE "repeats" \notin passes
    <3>1. Shows(text', WordsTo(raw, i))
      BY <1>2, <1>3, <2>1, <2>3 DEF Carries
    <3> QED BY <3>1 DEF Shows
  <2> QED BY <2>2, <2>3
<1>8. TextIsKept'
  <2> SUFFICES /\ "repeats" \notin passes => WordsOf(text') = WordsOf(raw)
               /\ \A i \in 1..Len(raw) : Breaks(raw, i) =>
                    \E k \in 1..Len(text') : text'[k] = Break
                       /\ ("repeats" \notin passes => WordsTo(text', k) = WordsTo(raw, i))
    BY <1>1 DEF TextIsKept, Break
  <2> QED BY <1>6, <1>7
<1> QED BY <1>4, <1>5, <1>8 DEF TextInv

LEMMA TextInvariant == TextSpec => []TextInv
<1>1. TextInv /\ [TextNext]_textVars => TextInv'
  <2> SUFFICES ASSUME TextInv, [TextNext]_textVars PROVE TextInv'
    OBVIOUS
  <2>1. CASE PostProcess
    BY <2>1, PostProcessInv
  <2>2. CASE ApplyCommands
    BY <2>2, ApplyCommandsInv
  <2>3. CASE UNCHANGED textVars
    <3>1. text' = text /\ raw' = raw /\ did' = did /\ passes' = passes
      BY <2>3 DEF textVars
    <3>2. TextTypeOK' /\ SoFarKept'
      BY <3>1 DEF TextInv, TextTypeOK, SoFarKept
    <3>3. TextIsKept'
      BY <3>1 DEF TextInv, TextIsKept, Break
    <3> QED BY <3>2, <3>3 DEF TextInv
  <2> QED BY <2>1, <2>2, <2>3 DEF TextNext
<1> QED BY <1>1, TextInvInit, PTL DEF TextSpec

\* The transcript, on its way to the application, is a sequence of tokens.
THEOREM TextTypeCorrect == TextSpec => []TextTypeOK
<1>1. TextInv => TextTypeOK
  BY DEF TextInv
<1> QED BY <1>1, TextInvariant, PTL

\* process_text and apply_voice_commands, one after the other, with any of the passes:
\* every word is there, in order and once, and a dictated line break stands after the
\* same words, or the words of the command when voice commands are disabled.
THEOREM TextAlwaysKept == TextSpec => []TextIsKept
<1>1. TextInv => TextIsKept
  BY DEF TextInv
<1> QED BY <1>1, TextInvariant, PTL

=============================================================================
