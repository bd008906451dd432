----------------------------- MODULE FilesProofs -----------------------------
(***************************************************************************)
(* Proofs about Save and Load, for any input, any configuration of the two *)
(* modules, any size of a block and any number of stops and restarts.      *)
(***************************************************************************)
EXTENDS Files, FiniteSetTheorems, SequenceTheorems, WellFoundedInduction, TLAPS

(***************************************************************************)
(* Induction over data.  A set of natural numbers has a least element, so  *)
(* that a set with 0 that is closed under the successor has them all.      *)
(***************************************************************************)

\* A set of natural numbers that is not empty has a least element.
LEMMA Least == ASSUME NEW T \in SUBSET Nat, T # {} PROVE \E n \in T : \A m \in T : n <= m
<1>1. PICK R : R = OpToRel(<, Nat)
  OBVIOUS
<1>2. IsWellFoundedOn(R, Nat)
  BY <1>1, NatLessThanWellFounded, Zenon
<1>3. PICK n \in T : \A m \in T : ~(<<m, n>> \in R)
  BY <1>2, WFMin
<1>4. \A m \in T : m < n => <<m, n>> \in R
  BY <1>1 DEF OpToRel
<1>5. ASSUME NEW m \in T PROVE n <= m
  <2>1. n \in Nat /\ m \in Nat /\ ~(m < n)
    BY <1>3, <1>4
  <2>2. QED
    BY <2>1
<1>6. QED
  BY <1>5

\* Induction up to N, for a set.
LEMMA Induction ==
  ASSUME NEW N \in Nat, NEW S, 0 \in S, \A n \in 0..N - 1 : n \in S => n + 1 \in S
  PROVE  \A n \in 0..N : n \in S
<1>1. PICK T : T = {n \in 0..N : n \notin S}
  OBVIOUS
<1>2. T \in SUBSET Nat
  BY <1>1
<1>3. SUFFICES ASSUME T # {} PROVE FALSE
  BY <1>1
<1>4. PICK n \in T : \A m \in T : n <= m
  BY <1>2, <1>3, Least
<1>5. n \in 0..N /\ n \notin S /\ n # 0
  BY <1>1, <1>4
<1>6. n - 1 \in 0..N - 1 /\ n - 1 \in 0..N /\ ~(n <= n - 1) /\ (n - 1) + 1 = n
  BY <1>5
<1>7. n - 1 \in S
  BY <1>1, <1>4, <1>6
<1>8. QED
  BY <1>5, <1>6, <1>7

Closed(g, S, N) == \A j \in 1..N, x \in S : g[<<j, x>>] \in S
Follows(f, a, g, N) == f[0] = a /\ \A j \in 1..N : f[j] = g[<<j, f[j - 1]>>]

\* A function can be defined by recursion on 0..N.
LEMMA Recursion ==
  ASSUME NEW S, NEW a \in S, NEW N \in Nat, NEW g, Closed(g, S, N)
  PROVE  \E f \in [0..N -> S] : Follows(f, a, g, N)
<1> USE DEF Closed, Follows
<1> DEFINE P(n) == \E f \in [0..n -> S] : f[0] = a /\ \A j \in 1..n : f[j] = g[<<j, f[j - 1]>>]
           I == {n \in 0..N : P(n)}
<1>1. 0 \in I
  <2>1. PICK f : f = [j \in 0..0 |-> a]
    OBVIOUS
  <2>2. f \in [0..0 -> S] /\ f[0] = a /\ 1..0 = {}
    BY <2>1
  <2>3. P(0)
    BY <2>2
  <2>4. QED
    BY <2>3
<1>2. ASSUME NEW n \in 0..N - 1, n \in I PROVE n + 1 \in I
  <2>1. PICK f \in [0..n -> S] : f[0] = a /\ \A j \in 1..n : f[j] = g[<<j, f[j - 1]>>]
    BY <1>2
  <2>2. PICK y \in S : y = g[<<n + 1, f[n]>>]
    <3>1. f[n] \in S /\ n + 1 \in 1..N
      BY <2>1
    <3>2. QED
      BY <3>1
  <2>3. PICK h : h = [j \in 0..n + 1 |-> IF j = n + 1 THEN y ELSE f[j]]
    OBVIOUS
  <2>4. h \in [0..n + 1 -> S] /\ h[n + 1] = y /\ \A j \in 0..n : h[j] = f[j]
    BY <2>1, <2>2, <2>3
  <2>5. h[0] = a
    BY <2>1, <2>4
  <2>6. ASSUME NEW j \in 1..n + 1 PROVE h[j] = g[<<j, h[j - 1]>>]
    <3>1. CASE j = n + 1
      <4>1. j - 1 = n /\ n \in 0..n
        BY <3>1
      <4>2. h[j - 1] = f[n]
        BY <2>4, <4>1
      <4>3. QED
        BY <2>2, <2>4, <3>1, <4>2
    <3>2. CASE j # n + 1
      <4>1. j \in 1..n /\ j \in 0..n /\ j - 1 \in 0..n
        BY <3>2
      <4>2. QED
        BY <2>1, <2>4, <4>1
    <3>3. QED
      BY <3>1, <3>2
  <2>7. P(n + 1)
    BY <2>4, <2>5, <2>6
  <2>8. QED
    BY <2>7
<1>3. N \in I
  <2> HIDE DEF I
  <2>1. \A n \in 0..N : n \in I
    BY <1>1, <1>2, Induction
  <2>2. QED
    BY <2>1
<1>4. QED
  BY <1>3

(***************************************************************************)
(* Sums.                                                                   *)
(***************************************************************************)

\* Sum is what its definition says.
LEMMA SumStep ==
  ASSUME NEW w \in Seq(Nat)
  PROVE  /\ Sum(w, 0) = 0
         /\ \A j \in 1..Len(w) : Sum(w, j) = Sum(w, j - 1) + w[j]
         /\ \A j \in 0..Len(w) : Sum(w, j) \in Nat
<1>1. PICK N \in Nat : N = Len(w)
  OBVIOUS
<1>2. PICK g : g = [p \in (1..N) \X Nat |-> p[2] + w[p[1]]]
  OBVIOUS
<1>3. \A j \in 1..N, x \in Nat : g[<<j, x>>] = x + w[j] /\ g[<<j, x>>] \in Nat
  BY <1>1, <1>2
<1>4. PICK f \in [0..N -> Nat] : f[0] = 0 /\ \A j \in 1..N : f[j] = g[<<j, f[j - 1]>>]
  <2>1. 0 \in Nat /\ Closed(g, Nat, N)
    BY <1>3 DEF Closed
  <2>2. PICK f \in [0..N -> Nat] : Follows(f, 0, g, N)
    BY <2>1, Recursion
  <2>3. QED
    BY <2>2 DEF Follows
<1>5. \A j \in 1..N : f[j] = f[j - 1] + w[j]
  <2>1. SUFFICES ASSUME NEW j \in 1..N PROVE f[j] = f[j - 1] + w[j]
    OBVIOUS
  <2>2. f[j - 1] \in Nat
    BY <1>4
  <2>3. QED
    BY <1>3, <1>4, <2>2
<1>6. f = [j \in 0..N |-> IF j = 0 THEN 0 ELSE f[j - 1] + w[j]]
  BY <1>4, <1>5
<1>7. PICK s : s = CHOOSE h : h = [j \in 0..N |-> IF j = 0 THEN 0 ELSE h[j - 1] + w[j]]
  OBVIOUS
<1>8. s = [j \in 0..N |-> IF j = 0 THEN 0 ELSE s[j - 1] + w[j]]
  BY <1>6, <1>7
<1>9. \A j : Sum(w, j) = s[j]
  BY <1>1, <1>7 DEF Sum
<1>10. s[0] = 0 /\ \A j \in 1..N : s[j] = s[j - 1] + w[j]
  BY <1>8
<1>11. \A j \in 0..N : s[j] \in Nat
  <2>1. PICK I : I = {j \in 0..N : s[j] \in Nat}
    OBVIOUS
  <2>2. 0 \in I
    BY <1>10, <2>1
  <2>3. ASSUME NEW n \in 0..N - 1, n \in I PROVE n + 1 \in I
    <3>1. s[n + 1] = s[n] + w[n + 1] /\ w[n + 1] \in Nat
      BY <1>1, <1>10
    <3>2. QED
      BY <2>1, <2>3, <3>1, SMTT(30)
  <2>4. \A n \in 0..N : n \in I
    BY <2>2, <2>3, Induction
  <2>5. QED
    BY <2>1, <2>4
<1>12. QED
  BY <1>1, <1>9, <1>10, <1>11

\* A sum of more numbers is not less.
LEMMA SumGrows ==
  ASSUME NEW w \in Seq(Nat), NEW i \in 0..Len(w), NEW j \in i..Len(w)
  PROVE  Sum(w, i) <= Sum(w, j)
<1>1. PICK N \in Nat : N = Len(w) - i
  OBVIOUS
<1>2. PICK I : I = {n \in 0..N : Sum(w, i) <= Sum(w, i + n)}
  OBVIOUS
<1>3. 0 \in I
  <2>1. Sum(w, i) \in Nat /\ i + 0 = i
    BY SumStep
  <2>2. QED
    BY <1>2, <2>1
<1>4. ASSUME NEW n \in 0..N - 1, n \in I PROVE n + 1 \in I
  <2>1. /\ i + n \in 0..Len(w) /\ i + n + 1 \in 1..Len(w) /\ (i + n + 1) - 1 = i + n
        /\ i + n + 1 = i + (n + 1) /\ n + 1 \in 0..N
    BY <1>1
  <2>2. Sum(w, i + n + 1) = Sum(w, i + n) + w[i + n + 1]
    BY <2>1, SumStep
  <2>3. w[i + n + 1] \in Nat /\ Sum(w, i + n) \in Nat /\ Sum(w, i) \in Nat
    BY <2>1, SumStep
  <2>4. Sum(w, i) <= Sum(w, i + n)
    BY <1>2, <1>4
  <2>5. Sum(w, i) <= Sum(w, i + (n + 1))
    BY <2>1, <2>2, <2>3, <2>4
  <2>6. QED
    BY <1>2, <2>1, <2>5
<1>5. \A n \in 0..N : n \in I
  BY <1>3, <1>4, Induction
<1>6. j - i \in 0..N /\ i + (j - i) = j
  BY <1>1
<1>7. QED
  BY <1>2, <1>5, <1>6

\* The sum of the numbers that come first depends on no others.
LEMMA SumAgrees ==
  ASSUME NEW w \in Seq(Nat), NEW v \in Seq(Nat), NEW N \in 0..Len(w), N <= Len(v),
         \A j \in 1..N : w[j] = v[j]
  PROVE  Sum(w, N) = Sum(v, N)
<1>1. PICK I : I = {n \in 0..N : Sum(w, n) = Sum(v, n)}
  OBVIOUS
<1>2. 0 \in I
  BY <1>1, SumStep
<1>3. ASSUME NEW n \in 0..N - 1, n \in I PROVE n + 1 \in I
  <2>1. n + 1 \in 1..Len(w) /\ n + 1 \in 1..Len(v) /\ n + 1 \in 1..N /\ (n + 1) - 1 = n
    OBVIOUS
  <2>2. Sum(w, n + 1) = Sum(w, n) + w[n + 1]
    BY <2>1, SumStep
  <2>3. Sum(v, n + 1) = Sum(v, n) + v[n + 1]
    BY <2>1, SumStep
  <2>4. Sum(w, n) = Sum(v, n) /\ w[n + 1] = v[n + 1]
    BY <1>1, <1>3, <2>1
  <2>5. QED
    BY <1>1, <2>1, <2>2, <2>3, <2>4
<1>4. N \in Nat
  OBVIOUS
<1>5. \A n \in 0..N : n \in I
  BY <1>2, <1>3, <1>4, Induction
<1>6. QED
  BY <1>1, <1>4, <1>5

(***************************************************************************)
(* Sequences of sequences.                                                 *)
(***************************************************************************)

\* Joined is what its definition says.
LEMMA JoinedStep ==
  ASSUME NEW X, NEW q \in Seq(Seq(X))
  PROVE  /\ Joined(q, 0) = <<>>
         /\ \A j \in 1..Len(q) : Joined(q, j) = Joined(q, j - 1) \o q[j]
         /\ \A j \in 0..Len(q) : Joined(q, j) \in Seq(X)
<1>1. PICK Y : Y = Seq(X)
  OBVIOUS
<1>2. <<>> \in Y /\ \A x, y \in Y : x \o y \in Y
  BY <1>1
<1>3. PICK N \in Nat : N = Len(q) /\ \A j \in 1..N : q[j] \in Y
  BY <1>1
<1>4. PICK g : g = [p \in (1..N) \X Y |-> p[2] \o q[p[1]]]
  OBVIOUS
<1>5. \A j \in 1..N, x \in Y : g[<<j, x>>] = x \o q[j]
  BY <1>4
<1>6. Closed(g, Y, N)
  BY <1>2, <1>3, <1>5 DEF Closed
<1>7. PICK f \in [0..N -> Y] : Follows(f, <<>>, g, N)
  BY <1>2, <1>6, Recursion
<1>8. \A j \in 1..N : f[j] = f[j - 1] \o q[j]
  <2>1. SUFFICES ASSUME NEW j \in 1..N PROVE f[j] = f[j - 1] \o q[j]
    OBVIOUS
  <2>2. j - 1 \in 0..N
    OBVIOUS
  <2>3. f[j - 1] \in Y
    BY <2>2
  <2>4. f[j] = g[<<j, f[j - 1]>>]
    BY <1>7 DEF Follows
  <2>5. QED
    BY <1>5, <2>3, <2>4
<1>9. \A j \in 0..N : f[j] = IF j = 0 THEN <<>> ELSE f[j - 1] \o q[j]
  <2>1. f[0] = <<>>
    BY <1>7 DEF Follows
  <2>2. \A j \in 0..N : j # 0 => j \in 1..N
    OBVIOUS
  <2>3. QED
    BY <1>8, <2>1, <2>2
<1>10. f = [j \in 0..N |-> IF j = 0 THEN <<>> ELSE f[j - 1] \o q[j]]
  BY <1>9
<1>11. PICK s : s = CHOOSE h : h = [j \in 0..N |-> IF j = 0 THEN <<>> ELSE h[j - 1] \o q[j]]
  BY SMTT(30)
<1>12. s = [j \in 0..N |-> IF j = 0 THEN <<>> ELSE s[j - 1] \o q[j]]
  BY <1>10, <1>11, Zenon
<1>13. \A j : Joined(q, j) = s[j]
  BY <1>3, <1>11 DEF Joined
<1>14. s[0] = <<>> /\ \A j \in 1..N : s[j] = s[j - 1] \o q[j]
  <2>1. \A j \in 0..N : s[j] = IF j = 0 THEN <<>> ELSE s[j - 1] \o q[j]
    BY <1>12
  <2>2. 0 \in 0..N /\ \A j \in 1..N : j \in 0..N /\ j # 0
    OBVIOUS
  <2>3. QED
    BY <2>1, <2>2
<1>15. \A j \in 0..N : s[j] \in Y
  <2>1. PICK I : I = {j \in 0..N : s[j] \in Y}
    OBVIOUS
  <2>2. 0 \in I
    BY <1>2, <1>14, <2>1
  <2>3. ASSUME NEW n \in 0..N - 1, n \in I PROVE n + 1 \in I
    <3>1. n + 1 \in 1..N /\ n + 1 \in 0..N /\ (n + 1) - 1 = n
      OBVIOUS
    <3>2. s[n + 1] = s[n] \o q[n + 1] /\ q[n + 1] \in Y /\ s[n] \in Y
      BY <1>3, <1>14, <2>1, <2>3, <3>1
    <3>3. s[n + 1] \in Y
      BY <1>2, <3>2
    <3>4. QED
      BY <2>1, <3>1, <3>3
  <2>4. \A n \in 0..N : n \in I
    BY <2>2, <2>3, Induction
  <2>5. QED
    BY <2>1, <2>4
<1>16. QED
  BY <1>1, <1>3, <1>13, <1>14, <1>15

LEMMA AppendBehind ==
  ASSUME NEW X, NEW x \in X, NEW a \in Seq(X), NEW b \in Seq(X)
  PROVE  a \o Append(b, x) = Append(a \o b, x)
<1>1. PICK c \in Seq(X) : c = Append(b, x)
  BY AppendProperties
<1>2. Len(c) = Len(b) + 1 /\ c[Len(b) + 1] = x /\ \A j \in 1..Len(b) : c[j] = b[j]
  BY <1>1
<1>3. PICK d \in Seq(X) : d = a \o b
  BY ConcatProperties
<1>4. /\ Len(d) = Len(a) + Len(b)
      /\ \A j \in 1..Len(d) : d[j] = IF j <= Len(a) THEN a[j] ELSE b[j - Len(a)]
  BY <1>3
<1>5. PICK e \in Seq(X) : e = a \o c
  BY ConcatProperties
<1>6. /\ Len(e) = Len(a) + Len(c)
      /\ \A j \in 1..Len(e) : e[j] = IF j <= Len(a) THEN a[j] ELSE c[j - Len(a)]
  BY <1>5
<1>7. PICK f \in Seq(X) : f = Append(d, x)
  BY AppendProperties
<1>8. Len(f) = Len(d) + 1 /\ f[Len(d) + 1] = x /\ \A j \in 1..Len(d) : f[j] = d[j]
  BY <1>7
<1>9. Len(e) = Len(f) /\ \A j \in 1..Len(e) : e[j] = f[j]
  <2>1. PICK k \in Nat, l \in Nat : k = Len(a) /\ l = Len(b)
    OBVIOUS
  <2>2. Len(c) = l + 1 /\ Len(d) = k + l /\ Len(e) = k + l + 1 /\ Len(f) = k + l + 1
    BY <1>2, <1>4, <1>6, <1>8, <2>1
  <2>3. ASSUME NEW j \in 1..k + l + 1 PROVE e[j] = f[j]
    <3>1. CASE j <= k
      <4>1. j \in 1..k + l
        BY <3>1
      <4>2. QED
        BY <1>4, <1>6, <1>8, <2>1, <2>2, <3>1, <4>1
    <3>2. CASE j > k /\ j <= k + l
      <4>1. j \in 1..k + l /\ j - k \in 1..l /\ ~(j <= k)
        BY <3>2
      <4>2. e[j] = c[j - k] /\ d[j] = b[j - k] /\ f[j] = d[j]
        BY <1>4, <1>6, <1>8, <2>1, <2>2, <4>1
      <4>3. QED
        BY <1>2, <2>1, <4>1, <4>2
    <3>3. CASE j = k + l + 1
      <4>1. j - k = l + 1 /\ ~(j <= k)
        BY <3>3
      <4>2. e[j] = c[l + 1] /\ f[j] = x
        BY <1>6, <1>8, <2>1, <2>2, <3>3, <4>1
      <4>3. QED
        BY <1>2, <2>1, <4>2
    <3>4. QED
      BY <3>1, <3>2, <3>3
  <2>4. QED
    BY <2>2, <2>3
<1>10. e = f
  BY <1>9, SeqEqual
<1>11. QED
  BY <1>1, <1>3, <1>5, <1>7, <1>10

\* What is put behind the last sequence that is not empty is put behind all.
LEMMA JoinedAppends ==
  ASSUME NEW X, NEW q \in Seq(Seq(X)), NEW r \in Seq(Seq(X)), NEW x \in X,
         NEW t \in 1..Len(q), Len(r) = Len(q), r[t] = Append(q[t], x),
         \A j \in 1..Len(q) : (j # t => r[j] = q[j]) /\ (j > t => q[j] = <<>>)
  PROVE  Joined(r, Len(r)) = Append(Joined(q, Len(q)), x)
<1>1. PICK N \in Nat : N = Len(q)
  OBVIOUS
<1> DEFINE J(n) == Joined(q, n)
           K(n) == Joined(r, n)
<1>2. \A a, b \in Seq(X) : a \o Append(b, x) = Append(a \o b, x)
  BY AppendBehind
<1>3. \A a \in Seq(X) : a \o <<>> = a /\ Append(a, x) \in Seq(X)
  OBVIOUS
<1>4. /\ J(0) = <<>> /\ \A j \in 0..N : J(j) \in Seq(X)
      /\ \A j \in 1..N : J(j) = J(j - 1) \o q[j] /\ q[j] \in Seq(X)
  <2>1. \A j \in 1..N : q[j] \in Seq(X)
    BY <1>1
  <2>2. QED
    BY <1>1, <2>1, JoinedStep
<1>5. K(0) = <<>> /\ \A j \in 1..N : K(j) = K(j - 1) \o r[j]
  BY <1>1, JoinedStep
<1>6. /\ t \in 1..N /\ r[t] = Append(q[t], x)
      /\ \A j \in 1..N : (j # t => r[j] = q[j]) /\ (j > t => q[j] = <<>>)
  BY <1>1
<1> HIDE DEF J, K
<1>7. PICK I : I = {n \in 0..N : K(n) = IF n < t THEN J(n) ELSE Append(J(n), x)}
  OBVIOUS
<1>8. 0 \in I
  BY <1>4, <1>5, <1>6, <1>7
<1>9. ASSUME NEW n \in 0..N - 1, n \in I PROVE n + 1 \in I
  <2>1. n + 1 \in 1..N /\ (n + 1) - 1 = n /\ n + 1 \in 0..N /\ n \in 0..N
    OBVIOUS
  <2>2. PICK a \in Seq(X) : a = J(n)
    BY <1>4, <2>1
  <2>3. PICK b \in Seq(X) : b = q[n + 1]
    BY <1>4, <2>1
  <2>4. J(n + 1) = a \o b
    BY <1>4, <2>1, <2>2, <2>3
  <2>5. K(n + 1) = K(n) \o r[n + 1]
    BY <1>5, <2>1
  <2>6. K(n) = IF n < t THEN a ELSE Append(a, x)
    BY <1>7, <1>9, <2>2
  <2>7. K(n + 1) = IF n + 1 < t THEN a \o b ELSE Append(a \o b, x)
    <3>1. CASE n + 1 < t
      <4>1. r[n + 1] = b /\ K(n) = a
        BY <1>6, <2>1, <2>3, <2>6, <3>1
      <4>2. QED
        BY <2>5, <3>1, <4>1
    <3>2. CASE n + 1 = t
      <4>1. r[n + 1] = Append(b, x) /\ K(n) = a /\ ~(n + 1 < t)
        BY <1>6, <2>1, <2>3, <2>6, <3>2, SMTT(30)
      <4>2. a \o Append(b, x) = Append(a \o b, x)
        BY <1>2
      <4>3. QED
        BY <2>5, <4>1, <4>2
    <3>3. CASE n + 1 > t
      <4>1. n + 1 # t /\ ~(n < t) /\ ~(n + 1 < t)
        BY <1>6, <3>3, SMTT(30)
      <4>2. K(n) = Append(a, x)
        BY <2>6, <4>1
      <4>3. r[n + 1] = <<>> /\ b = <<>>
        BY <1>6, <2>1, <2>3, <3>3, <4>1
      <4>4. Append(a, x) \o <<>> = Append(a, x) /\ a \o <<>> = a
        BY <1>3
      <4>5. QED
        BY <2>5, <4>1, <4>2, <4>3, <4>4
    <3>4. QED
      BY <1>6, <3>1, <3>2, <3>3
  <2>8. QED
    BY <1>7, <2>1, <2>4, <2>7
<1>10. \A n \in 0..N : n \in I
  BY <1>8, <1>9, Induction
<1>11. N \in I /\ ~(N < t)
  BY <1>6, <1>10
<1>12. K(N) = Append(J(N), x)
  BY <1>7, <1>11
<1>13. QED
  BY <1>1, <1>12 DEF J, K

(***************************************************************************)
(* What is always true of Save: its types and how far it is ...            *)
(***************************************************************************)
Inputs == {scene.input[i] : i \in 1..Len(scene.input)}
Recs == {Serialize(r) : r \in Inputs}

SaveTypes ==
  /\ scene \in Scenes
  /\ file \in [FileNo -> Seq(Recs)]
  /\ in \in Seq(Inputs) /\ saved \in Seq(Inputs)
  /\ out \in {"new", "open", "broken", "closed", "crash"}
  /\ fileId \in Nat \ {0} /\ savedItems \in Nat /\ savedSize \in Nat /\ items \in Nat
  /\ fileId + Len(in) <= Len(scene.input) + 1
  /\ savedItems + Len(in) <= Len(scene.input)
  /\ items + Len(in) <= Len(scene.input)

\* ... that the files after the one it writes to are empty ...
Ahead == \A n \in FileNo : n > Target(fileId) => file[n] = <<>>

\* ... and that it knows how full that one is.
Filled ==
  /\ Save.mode = "OUTPUT" /\ Numbered =>
       /\ Save.maxItems > 0 => savedItems = Len(file[fileId])
       /\ Save.maxSize > 0 => savedSize = Sum(Sizes(file[fileId]), Len(file[fileId]))
  /\ Save.mode = "MULTI" /\ Save.maxItems > 0 =>
       Len(file[fileId]) = items % Save.maxItems

\* Before it opens a file all are empty.
Fresh == out = "new" => \A n \in FileNo : file[n] = <<>>

Kept == Ahead /\ Fresh /\ Filled /\ FilesWithinLimits /\ NothingLost
SaveInv == SaveTypes /\ (~Save.text => Kept)

(***************************************************************************)
(* What is always true of Load: its types, where it may be while Save      *)
(* runs, ...                                                               *)
(***************************************************************************)
Delivered == [type : Int, id : Nat, n : Int]

LoadTypes ==
  /\ loading \in {"off", "loop", "call", "gap", "asleep", "woken", "done", "crash"}
  /\ pos \in Nat /\ from \in Nat /\ byteCount \in Nat /\ read \in Seq(Delivered)
  /\ markEmmited \in BOOLEAN /\ running \in BOOLEAN /\ cancel \in BOOLEAN /\ missed \in BOOLEAN
  /\ ctl \in {"idle", "cancel", "signal", "join"}
  /\ restarts \in 0..MaxRestarts /\ stops \in 0..MaxStops

Apart ==
  IF loading = "off"
    THEN /\ pos = 0 /\ from = 0 /\ byteCount = 0 /\ read = <<>>
         /\ check = NoCheck /\ running
    ELSE in = <<>> /\ out # "new"

\* ... how far the byte count may be, ...
Behind ==
  /\ pos <= Size(Source)
  /\ ~Load.text => byteCount <= (pos \div Block) * Block
  /\ check = NoCheck \/ /\ check \in [offset : Nat, at : Nat]
                        /\ ~Load.text => check.offset <= check.at

\* ... and that from record k + 1 on it has read m records, and the marker
\* when there are no more.
HasRead(k, m) ==
  /\ pos = Offset(Source, k + m)
  /\ \A j \in 1..m : read[j] = Deserialize(Source[k + j])
  /\ \/ Len(read) = m
     \/ Len(read) = m + 1 /\ read[m + 1] = Mark /\ markEmmited /\ NoMore
InPlace ==
  \A k \in 0..Len(Source) :
    from = Offset(Source, k) => \E m \in 0..Len(Source) - k : HasRead(k, m)

LoadInv == LoadTypes /\ Apart /\ Behind /\ InPlace
(***************************************************************************)
(* The scene and the records.                                              *)
(***************************************************************************)

LEMMA Setting ==
  ASSUME scene \in Scenes
  PROVE  /\ scene.input \in Seq(Resource) /\ Save \in SaveConfig /\ Load \in LoadConfig
         /\ Save.saveId => Save.saveType
         /\ Load.text = Save.text
         /\ Load.name <= Len(scene.input) + 1
         /\ Load.resourceType = 0 <=> Save.saveType
         /\ \A j \in 1..Len(scene.input) :
              ~Save.saveType => scene.input[j].type = Load.resourceType
         /\ Block \in Nat \ {0}
  BY FilesAssumption DEF Save, Load

LEMMA InputTyped ==
  ASSUME scene \in Scenes, NEW r \in Inputs
  PROVE  r \in Resource /\ (~Save.saveType => r.type = Load.resourceType)
<1>1. PICK j \in 1..Len(scene.input) : r = scene.input[j]
  BY DEF Inputs
<1>2. scene.input \in Seq(Resource)
  BY Setting
<1>3. r \in Resource
  BY <1>1, <1>2
<1>4. QED
  BY <1>1, <1>3, Setting

\* A record has a positive length, and its head is one of three.
LEMMA RecordTyped ==
  ASSUME scene \in Scenes, NEW e \in Recs
  PROVE  /\ e.size \in Nat \ {0} /\ e.n \in Nat
         /\ Length(e) \in Nat \ {0}
<1>1. PICK r \in Inputs : e = Serialize(r)
  BY DEF Recs
<1>2. r \in Resource
  BY <1>1, InputTyped
<1>3. e.size = r.size /\ e.n = r.n /\ e.head = WriteHeader(r)
  BY <1>1 DEF Serialize
<1>4. Len(WriteHeader(r)) \in Nat
  BY DEF WriteHeader
<1>5. r.size \in Nat \ {0} /\ r.n \in Nat
  BY <1>2 DEF Resource
<1>6. QED
  BY <1>3, <1>4, <1>5 DEF Length

\* What DeserializeResource makes of what SerializeResource has written.
LEMMA Faithful ==
  ASSUME scene \in Scenes, NEW e \in Recs
  PROVE  /\ Deserialize(e) \in Delivered /\ Deserialize(e) # Mark
         /\ \E r \in Inputs : /\ r.n = e.n /\ Deserialize(e).n = r.n
                              /\ Deserialize(e).type = r.type
                              /\ Save.saveId => Deserialize(e).id = r.id
<1>1. PICK r \in Inputs : e = Serialize(r)
  BY DEF Recs
<1>2. r \in Resource /\ (~Save.saveType => r.type = Load.resourceType)
  BY <1>1, InputTyped
<1>3. r.type \in 1..127 /\ r.id \in Nat /\ r.n \in Nat
  BY <1>2 DEF Resource
<1>4. e.n = r.n /\ e.head = WriteHeader(r)
  BY <1>1 DEF Serialize
<1>5. (Load.resourceType = 0 <=> Save.saveType) /\ (Save.saveId => Save.saveType)
  BY Setting
<1>6. PICK d : d = Deserialize(e)
  OBVIOUS
<1>7. d = [type |-> r.type, id |-> IF Save.saveId THEN r.id ELSE 0, n |-> r.n]
  <2>1. CASE ~Save.saveType
    BY <1>2, <1>4, <1>5, <1>6, <2>1 DEF Deserialize
  <2>2. CASE Save.saveType /\ Save.saveId
    <3>1. e.head = <<r.type + 128, r.id>>
      BY <1>4, <2>2 DEF WriteHeader
    <3>2. e.head[1] = r.type + 128 /\ e.head[2] = r.id /\ Len(e.head) = 2
      BY <3>1
    <3>3. (r.type + 128) % 128 = r.type /\ r.type + 128 >= 128
      BY <1>3
    <3>4. QED
      BY <1>4, <1>5, <1>6, <2>2, <3>2, <3>3 DEF Deserialize
  <2>3. CASE Save.saveType /\ ~Save.saveId
    <3>1. e.head = <<r.type>>
      BY <1>4, <2>3 DEF WriteHeader
    <3>2. e.head[1] = r.type /\ Len(e.head) = 1
      BY <3>1
    <3>3. r.type % 128 = r.type /\ ~(r.type >= 128)
      BY <1>3
    <3>4. QED
      BY <1>4, <1>5, <1>6, <2>3, <3>2, <3>3 DEF Deserialize
  <2>4. QED
    BY <2>1, <2>2, <2>3
<1>8. d.type = r.type /\ d.n = r.n /\ (Save.saveId => d.id = r.id)
  BY <1>7
<1>9. d \in Delivered
  BY <1>3, <1>7 DEF Delivered
<1>10. d # Mark
  <2>1. d.type # 0 /\ Mark.type = 0
    BY <1>3, <1>8 DEF Mark
  <2>2. QED
    BY <2>1
<1>11. QED
  BY <1>4, <1>6, <1>8, <1>9, <1>10

\* The records of a file start at different places, in their order.
LEMMA Offsets ==
  ASSUME scene \in Scenes, NEW f \in Seq(Recs)
  PROVE  /\ Offset(f, 0) = 0 /\ Size(f) = Offset(f, Len(f)) /\ Size(f) \in Nat
         /\ \A j \in 0..Len(f) : Offset(f, j) \in Nat /\ Offset(f, j) <= Size(f)
         /\ \A i, j \in 0..Len(f) : i < j => Offset(f, i) < Offset(f, j)
<1>1. PICK w : w = Lengths(f)
  OBVIOUS
<1>2. PICK N \in Nat : N = Len(f) /\ \A j \in 1..N : f[j] \in Recs
  OBVIOUS
<1>3. \A j \in 1..N : Length(f[j]) \in Nat \ {0}
  BY <1>2, RecordTyped
<1>4. w \in [1..N -> Nat \ {0}] /\ Len(w) = N
  <2>1. w = [j \in 1..N |-> Length(f[j])]
    BY <1>1, <1>2 DEF Lengths
  <2>2. QED
    BY <1>3, <2>1
<1>5. w \in Seq(Nat) /\ \A j \in 1..N : w[j] \in Nat /\ w[j] > 0
  BY <1>4
<1>6. \A j : Offset(f, j) = Sum(w, j)
  BY <1>1 DEF Offset
<1>7. /\ Sum(w, 0) = 0 /\ \A j \in 1..N : Sum(w, j) = Sum(w, j - 1) + w[j]
      /\ \A j \in 0..N : Sum(w, j) \in Nat
  BY <1>4, <1>5, SumStep
<1>8. \A i \in 0..N : \A j \in i..N : Sum(w, i) <= Sum(w, j)
  BY <1>4, <1>5, SumGrows
<1>9. ASSUME NEW i \in 0..N, NEW j \in 0..N, i < j PROVE Sum(w, i) < Sum(w, j)
  <2>1. j \in 1..N /\ j - 1 \in i..N /\ j - 1 \in 0..N
    BY <1>9
  <2>2. Sum(w, i) <= Sum(w, j - 1)
    BY <1>8, <2>1
  <2>3. Sum(w, j) = Sum(w, j - 1) + w[j] /\ w[j] \in Nat /\ w[j] > 0
    BY <1>5, <1>7, <2>1
  <2>4. Sum(w, i) \in Nat /\ Sum(w, j - 1) \in Nat
    BY <1>7, <2>1
  <2>5. QED
    BY <2>2, <2>3, <2>4
<1>10. \A j \in 0..N : N \in j..N
  OBVIOUS
<1>11. \A j \in 0..N : Sum(w, j) <= Sum(w, N)
  BY <1>8, <1>10
<1>12. QED
  BY <1>2, <1>6, <1>7, <1>9, <1>11 DEF Size

(***************************************************************************)
(* Save.                                                                   *)
(***************************************************************************)

LEMMA SameScene ==
  ASSUME scene' = scene
  PROVE  /\ Save' = Save /\ Load' = Load /\ FileNo' = FileNo
         /\ Inputs' = Inputs /\ Recs' = Recs /\ (Numbered' <=> Numbered)
<1>1. Save' = Save /\ Load' = Load /\ FileNo' = FileNo /\ Inputs' = Inputs
  BY DEF Save, Load, FileNo, Inputs
<1>2. QED
  BY <1>1 DEF Recs, Serialize, WriteHeader, Numbered

\* The first thing in the input is one of the inputs, the rest is shorter.
LEMMA NextInput ==
  ASSUME SaveTypes, in # <<>>
  PROVE  /\ Head(in) \in Inputs /\ Tail(in) \in Seq(Inputs) /\ Len(Tail(in)) = Len(in) - 1
         /\ Len(in) \in Nat \ {0} /\ Len(scene.input) \in Nat
         /\ fileId \in FileNo /\ fileId + 1 \in FileNo
<1>1. in \in Seq(Inputs) /\ fileId \in Nat /\ fileId + Len(in) <= Len(scene.input) + 1
  BY DEF SaveTypes
<1>2. Head(in) \in Inputs /\ Tail(in) \in Seq(Inputs) /\ Len(Tail(in)) = Len(in) - 1
  BY <1>1
<1>3. Len(in) \in Nat \ {0}
  BY <1>1
<1>4. Len(scene.input) \in Nat
  BY Setting DEF SaveTypes
<1>5. QED
  BY <1>1, <1>2, <1>3, <1>4 DEF FileNo

LEMMA TargetTyped == ASSUME scene \in Scenes, NEW id \in FileNo PROVE Target(id) \in FileNo
<1>1. Len(scene.input) \in Nat
  BY Setting
<1>2. QED
  BY <1>1 DEF Target, FileNo

LEMMA OpenedTyped ==
  ASSUME SaveTypes, NEW id \in FileNo
  PROVE  Opened(id) \in [FileNo -> Seq(Recs)]
<1>1. file \in [FileNo -> Seq(Recs)] /\ 0 \in FileNo /\ <<>> \in Seq(Recs)
  <2>1. Len(scene.input) \in Nat
    BY Setting DEF SaveTypes
  <2>2. QED
    BY <2>1 DEF SaveTypes, FileNo
<1>2. PICK n \in FileNo : n = IF Numbered THEN id ELSE 0
  BY <1>1
<1>3. PICK f : f = [file EXCEPT ![n] = IF Save.overwrite THEN <<>> ELSE @]
  OBVIOUS
<1>4. f \in [FileNo -> Seq(Recs)]
  BY <1>1, <1>2, <1>3
<1>5. Opened(id) = IF Save.text THEN [f EXCEPT ![0] = <<>>] ELSE f
  BY <1>2, <1>3 DEF Opened
<1>6. QED
  BY <1>1, <1>4, <1>5

LEMMA WrittenTyped ==
  ASSUME scene \in Scenes, NEW f \in [FileNo -> Seq(Recs)], NEW id \in FileNo, NEW r \in Inputs
  PROVE  /\ Written(f, id, r) \in [FileNo -> Seq(Recs)]
         /\ Written(f, id, r)[Target(id)] = Append(f[Target(id)], Serialize(r))
         /\ \A n \in FileNo : n # Target(id) => Written(f, id, r)[n] = f[n]
<1>1. PICK t \in FileNo : t = Target(id)
  BY TargetTyped
<1>2. PICK e \in Recs : e = Serialize(r)
  BY DEF Recs
<1>3. PICK g \in Seq(Recs) : g = f[t]
  BY <1>1
<1>4. Append(g, e) \in Seq(Recs)
  BY AppendProperties
<1>5. Written(f, id, r) = [f EXCEPT ![t] = Append(g, e)]
  BY <1>1, <1>2, <1>3 DEF Written
<1>6. QED
  BY <1>1, <1>2, <1>3, <1>4, <1>5

\* Opening the next binary file changes nothing: it is empty.
LEMMA OpenedNext ==
  ASSUME SaveTypes, ~Save.text, Ahead, Numbered, fileId + 1 \in FileNo
  PROVE  Opened(fileId + 1) = file
<1>1. file \in [FileNo -> Seq(Recs)] /\ fileId \in Nat
  BY DEF SaveTypes
<1>2. file[fileId + 1] = <<>>
  BY <1>1 DEF Ahead, Target
<1>3. QED
  BY <1>1, <1>2 DEF Opened

LEMMA SaveInitTypes == ASSUME SaveTypes, SaveInit PROVE SaveTypes'
<1>1. scene' = scene /\ UNCHANGED <<in, saved, fileId, savedItems, savedSize, items>>
  BY DEF SaveInit
<1>2. FileNo' = FileNo /\ Inputs' = Inputs /\ Recs' = Recs
  BY <1>1, SameScene
<1>3. fileId \in FileNo
  <2>1. in \in Seq(Inputs) /\ scene.input \in Seq(Resource)
    BY Setting DEF SaveTypes
  <2>2. Len(in) \in Nat /\ Len(scene.input) \in Nat
    BY <2>1
  <2>3. QED
    BY <2>2 DEF SaveTypes, FileNo
<1>4. Opened(fileId) \in [FileNo -> Seq(Recs)]
  BY <1>3, OpenedTyped
<1>5. file' \in [FileNo -> Seq(Recs)] /\ out' \in {"open", "closed"}
  BY <1>4 DEF SaveInit, SaveTypes
<1>6. QED
  BY <1>1, <1>2, <1>5 DEF SaveTypes

LEMMA ProcessOutputTypes == ASSUME SaveTypes, ProcessOutput PROVE SaveTypes'
<1>1. scene' = scene /\ in # <<>> /\ scene \in Scenes
  BY DEF ProcessOutput, SaveTypes
<1>2. FileNo' = FileNo /\ Inputs' = Inputs /\ Recs' = Recs
  BY <1>1, SameScene
<1>3. PICK r \in Inputs : r = Head(in)
  BY <1>1, NextInput
<1>4. /\ Tail(in) \in Seq(Inputs) /\ Len(Tail(in)) = Len(in) - 1
      /\ Len(in) \in Nat \ {0} /\ Len(scene.input) \in Nat
      /\ fileId \in FileNo /\ fileId + 1 \in FileNo
  BY <1>1, NextInput
<1>5. CASE out' = "broken"
  BY <1>1, <1>2, <1>5 DEF ProcessOutput, SaveTypes
<1>6. CASE out' # "broken"
  <2>1. PICK id \in FileNo : id = IF Full(r) THEN NextFile ELSE fileId
    BY <1>4 DEF NextFile
  <2>2. PICK f : f = IF Full(r) THEN Opened(id) ELSE file
    OBVIOUS
  <2>3. f \in [FileNo -> Seq(Recs)]
    BY <2>1, <2>2, OpenedTyped DEF SaveTypes
  <2>4. PICK z \in Nat : z = IF Save.maxSize > 0 THEN r.size ELSE 0
    <3>1. r.size \in Nat
      BY <1>1, InputTyped DEF Resource
    <3>2. QED
      BY <3>1
  <2>5. /\ fileId' = id /\ file' = Written(f, id, r)
        /\ savedItems' = IF Full(r) THEN 1 ELSE savedItems + 1
        /\ savedSize' = IF Full(r) THEN z ELSE savedSize + z
        /\ items' = items + 1 /\ in' = Tail(in) /\ saved' = Append(saved, r) /\ out' = out
    <3>1. \/ /\ fileId' = id /\ file' = Written(f, id, r)
             /\ savedItems' = IF Full(r) THEN 1 ELSE savedItems + 1
             /\ savedSize' = IF Full(r) THEN z ELSE savedSize + z
             /\ items' = items + 1 /\ in' = Tail(in) /\ saved' = Append(saved, r) /\ out' = out
          \/ out' = "broken"
      BY <1>3, <2>1, <2>2, <2>4 DEF ProcessOutput
    <3>2. QED
      BY <1>6, <3>1
  <2>6. file' \in [FileNo -> Seq(Recs)]
    BY <1>1, <2>3, <2>5, WrittenTyped, SMTT(30)
  <2>7. saved' \in Seq(Inputs)
    BY <2>5, AppendProperties DEF SaveTypes
  <2>8. /\ savedItems \in Nat /\ savedSize \in Nat /\ items \in Nat /\ fileId \in Nat \ {0}
        /\ fileId + Len(in) <= Len(scene.input) + 1
        /\ savedItems + Len(in) <= Len(scene.input)
        /\ items + Len(in) <= Len(scene.input)
    BY DEF SaveTypes
  <2>9. id \in Nat \ {0} /\ id <= fileId + 1
    BY <2>1, <2>8 DEF NextFile
  <2>10. /\ fileId' \in Nat \ {0} /\ savedItems' \in Nat /\ savedSize' \in Nat /\ items' \in Nat
         /\ fileId' + (Len(in) - 1) <= Len(scene.input) + 1
         /\ savedItems' + (Len(in) - 1) <= Len(scene.input)
         /\ items' + (Len(in) - 1) <= Len(scene.input)
    <3>1. PICK l \in Nat \ {0}, k \in Nat : l = Len(in) /\ k = Len(scene.input)
      BY <1>4
    <3>2. /\ fileId' = id /\ items' = items + 1
          /\ savedItems' \in {1, savedItems + 1} /\ savedSize' \in {z, savedSize + z}
      BY <2>5
    <3>3. fileId + l <= k + 1 /\ savedItems + l <= k /\ items + l <= k
      BY <2>8, <3>1
    <3>4. /\ fileId' \in Nat \ {0} /\ savedItems' \in Nat /\ savedSize' \in Nat /\ items' \in Nat
          /\ fileId' + (l - 1) <= k + 1 /\ savedItems' + (l - 1) <= k /\ items' + (l - 1) <= k
      <4>1. savedItems \in Nat /\ savedSize \in Nat /\ items \in Nat /\ fileId \in Nat
        BY <2>8
      <4>2. fileId' \in Nat \ {0} /\ fileId' + (l - 1) <= k + 1
        BY <2>9, <3>2, <3>3, <4>1
      <4>3. items' \in Nat /\ items' + (l - 1) <= k
        BY <3>2, <3>3, <4>1
      <4>4. savedItems' \in Nat /\ savedItems' + (l - 1) <= k
        <5>1. CASE savedItems' = 1
          BY <3>3, <4>1, <5>1
        <5>2. CASE savedItems' = savedItems + 1
          BY <3>3, <4>1, <5>2
        <5>3. QED
          BY <3>2, <5>1, <5>2
      <4>5. savedSize' \in Nat
        BY <3>2, <4>1
      <4>6. QED
        BY <4>2, <4>3, <4>4, <4>5
    <3>5. QED
      BY <3>1, <3>4
  <2>11. out' \in {"new", "open", "broken", "closed", "crash"}
    BY <2>5 DEF SaveTypes
  <2>12. QED
    BY <1>1, <1>2, <1>4, <2>5, <2>6, <2>7, <2>10, <2>11 DEF SaveTypes
<1>7. QED
  BY <1>5, <1>6

LEMMA ProcessMultiTypes == ASSUME SaveTypes, ProcessMulti PROVE SaveTypes'
<1>1. scene' = scene /\ in # <<>> /\ scene \in Scenes
  BY DEF ProcessMulti, SaveTypes
<1>2. FileNo' = FileNo /\ Inputs' = Inputs /\ Recs' = Recs
  BY <1>1, SameScene
<1>3. PICK r \in Inputs : r = Head(in)
  BY <1>1, NextInput
<1>4. /\ Tail(in) \in Seq(Inputs) /\ Len(Tail(in)) = Len(in) - 1
      /\ Len(in) \in Nat \ {0} /\ Len(scene.input) \in Nat
      /\ fileId \in FileNo /\ fileId + 1 \in FileNo
  BY <1>1, NextInput
<1>5. PICK f : f = Written(file, fileId, r)
  OBVIOUS
<1>6. f \in [FileNo -> Seq(Recs)]
  BY <1>1, <1>4, <1>5, WrittenTyped DEF SaveTypes
<1>7. in' = Tail(in) /\ savedItems' = savedItems /\ savedSize' = savedSize
  BY DEF ProcessMulti
<1>8. PICK o : o = Opened(fileId + 1)
  OBVIOUS
<1>9. o \in [FileNo -> Seq(Recs)]
  BY <1>4, <1>8, OpenedTyped
<1>10. PICK t \in FileNo, u \in FileNo : t = Target(fileId) /\ u = Target(fileId + 1)
  BY <1>1, <1>4, TargetTyped
<1>11. [o EXCEPT ![t] = IF t = u THEN @ ELSE f[t]] \in [FileNo -> Seq(Recs)]
  BY <1>6, <1>9, <1>10
<1>12. /\ file' \in {file, f, [o EXCEPT ![t] = IF t = u THEN @ ELSE f[t]]}
       /\ saved' \in {saved, Append(saved, r)}
       /\ fileId' \in {fileId, fileId + 1} /\ items' \in {items, items + 1}
       /\ out' \in {"broken", out}
  BY <1>3, <1>5, <1>8, <1>10 DEF ProcessMulti, NextFile
<1>13. file' \in [FileNo -> Seq(Recs)]
  BY <1>6, <1>11, <1>12 DEF SaveTypes
<1>14. saved' \in Seq(Inputs)
  <2>1. saved \in Seq(Inputs)
    BY DEF SaveTypes
  <2>2. Append(saved, r) \in Seq(Inputs)
    BY <2>1, AppendProperties
  <2>3. QED
    BY <1>12, <2>1, <2>2
<1>15. /\ savedItems \in Nat /\ savedSize \in Nat /\ items \in Nat /\ fileId \in Nat \ {0}
       /\ fileId + Len(in) <= Len(scene.input) + 1
       /\ savedItems + Len(in) <= Len(scene.input)
       /\ items + Len(in) <= Len(scene.input)
  BY DEF SaveTypes
<1>16. /\ fileId' \in Nat \ {0} /\ items' \in Nat
       /\ fileId' + (Len(in) - 1) <= Len(scene.input) + 1
       /\ savedItems' + (Len(in) - 1) <= Len(scene.input)
       /\ items' + (Len(in) - 1) <= Len(scene.input)
  <2>1. PICK l \in Nat \ {0}, k \in Nat : l = Len(in) /\ k = Len(scene.input)
    BY <1>4
  <2>2. fileId + l <= k + 1 /\ savedItems + l <= k /\ items + l <= k
    BY <1>15, <2>1
  <2>3. /\ fileId' \in Nat \ {0} /\ items' \in Nat
        /\ fileId' + (l - 1) <= k + 1 /\ savedItems' + (l - 1) <= k /\ items' + (l - 1) <= k
    <3>1. savedItems \in Nat /\ items \in Nat /\ fileId \in Nat \ {0}
      BY <1>15
    <3>2. fileId' \in {fileId, fileId + 1} /\ items' \in {items, items + 1}
      BY <1>12
    <3>3. fileId' \in Nat \ {0} /\ fileId' + (l - 1) <= k + 1
      <4>1. CASE fileId' = fileId
        BY <2>2, <3>1, <4>1
      <4>2. CASE fileId' = fileId + 1
        BY <2>2, <3>1, <4>2
      <4>3. QED
        BY <3>2, <4>1, <4>2
    <3>4. items' \in Nat /\ items' + (l - 1) <= k
      <4>1. CASE items' = items
        BY <2>2, <3>1, <4>1
      <4>2. CASE items' = items + 1
        BY <2>2, <3>1, <4>2
      <4>3. QED
        BY <3>2, <4>1, <4>2
    <3>5. savedItems' + (l - 1) <= k
      BY <1>7, <2>2, <3>1
    <3>6. QED
      BY <3>3, <3>4, <3>5
  <2>4. QED
    BY <2>1, <2>3, SMTT(30)
<1>17. out' \in {"new", "open", "broken", "closed", "crash"}
  BY <1>12 DEF SaveTypes
<1>18. QED
  BY <1>1, <1>2, <1>4, <1>7, <1>13, <1>14, <1>15, <1>16, <1>17 DEF SaveTypes

LEMMA SaveNotTypes == ASSUME SaveTypes, SaveNot PROVE SaveTypes'
<1>1. scene' = scene /\ in # <<>>
  BY DEF SaveNot
<1>2. FileNo' = FileNo /\ Inputs' = Inputs /\ Recs' = Recs
  BY <1>1, SameScene
<1>3. /\ Tail(in) \in Seq(Inputs) /\ Len(Tail(in)) = Len(in) - 1
      /\ Len(in) \in Nat \ {0} /\ Len(scene.input) \in Nat
  BY <1>1, NextInput
<1>4. in' \in {in, Tail(in)} /\ out' \in {out, "crash"}
      /\ UNCHANGED <<file, saved, fileId, savedItems, savedSize, items>>
  BY DEF SaveNot
<1>5. in' \in Seq(Inputs) /\ Len(in') <= Len(in) /\ Len(in') \in Nat
  <2>1. CASE in' = in
    BY <1>3, <2>1 DEF SaveTypes
  <2>2. CASE in' = Tail(in)
    BY <1>3, <2>2
  <2>3. QED
    BY <1>4, <2>1, <2>2
<1>6. QED
  BY <1>1, <1>2, <1>3, <1>4, <1>5 DEF SaveTypes

\* One more record in a file: what that means for its sum ...
LEMMA SizesAppend ==
  ASSUME scene \in Scenes, NEW f \in Seq(Recs), NEW e \in Recs
  PROVE  /\ Sum(Sizes(f), Len(f)) \in Nat
         /\ Len(Append(f, e)) = Len(f) + 1
         /\ Sum(Sizes(Append(f, e)), Len(f) + 1) = Sum(Sizes(f), Len(f)) + e.size
<1>1. PICK N \in Nat : N = Len(f) /\ \A j \in 1..N : f[j] \in Recs
  OBVIOUS
<1>2. PICK g \in Seq(Recs) : g = Append(f, e)
  BY AppendProperties
<1>3. Len(g) = N + 1 /\ g[N + 1] = e /\ \A j \in 1..N : g[j] = f[j]
  BY <1>1, <1>2
<1>4. \A d \in Recs : d.size \in Nat
  BY RecordTyped
<1>5. PICK v, w : v = Sizes(f) /\ w = Sizes(g)
  OBVIOUS
<1>6. v = [j \in 1..N |-> f[j].size] /\ w = [j \in 1..N + 1 |-> g[j].size]
  BY <1>1, <1>3, <1>5 DEF Sizes
<1>7. \A j \in 1..N + 1 : g[j] \in Recs
  BY <1>1, <1>3
<1>8. v \in [1..N -> Nat] /\ w \in [1..N + 1 -> Nat]
  BY <1>1, <1>4, <1>6, <1>7
<1>9. v \in Seq(Nat) /\ w \in Seq(Nat) /\ Len(v) = N /\ Len(w) = N + 1
  BY <1>8, SMTT(30)
<1>10. w[N + 1] = e.size /\ \A j \in 1..N : v[j] = w[j]
  BY <1>3, <1>6
<1>11. Sum(v, N) = Sum(w, N)
  <2>1. N \in 0..Len(v) /\ N <= Len(w)
    BY <1>9
  <2>2. QED
    BY <1>9, <1>10, <2>1, SumAgrees
<1>12. Sum(w, N + 1) = Sum(w, N) + w[N + 1]
  <2>1. N + 1 \in 1..Len(w) /\ (N + 1) - 1 = N
    BY <1>9
  <2>2. QED
    BY <1>9, <2>1, SumStep
<1>13. Sum(v, N) \in Nat
  <2>1. N \in 0..Len(v)
    BY <1>9
  <2>2. QED
    BY <1>9, <2>1, SumStep
<1>14. QED
  BY <1>1, <1>2, <1>3, <1>5, <1>10, <1>11, <1>12, <1>13

LEMMA SizesEmpty ==
  ASSUME scene \in Scenes PROVE Sum(Sizes(<<>>), 0) = 0 /\ Limits(<<>>)
<1>1. Sizes(<<>>) \in Seq(Nat)
  BY DEF Sizes
<1>2. Sum(Sizes(<<>>), 0) = 0
  BY <1>1, SumStep
<1>3. Save.maxItems \in Nat /\ Save.maxSize \in Nat
  BY Setting DEF SaveConfig
<1>4. Len(<<>>) = 0
  OBVIOUS
<1>5. QED
  BY <1>2, <1>3, <1>4 DEF Limits

\* ... and for what is in all files.
LEMMA NothingLostWrites ==
  ASSUME SaveTypes, NothingLost, ~Save.text, scene' = scene,
         NEW r \in Inputs, NEW t \in FileNo, \A n \in FileNo : n > t => file[n] = <<>>,
         file' = [file EXCEPT ![t] = Append(file[t], Serialize(r))], saved' = Append(saved, r)
  PROVE  NothingLost'
<1>1. PICK N \in Nat : N = Len(scene.input) /\ FileNo = 0..N + 1
  BY Setting DEF SaveTypes, FileNo
<1>2. scene \in Scenes /\ file \in [0..N + 1 -> Seq(Recs)] /\ saved \in Seq(Inputs)
  BY <1>1 DEF SaveTypes
<1>3. PICK e \in Recs : e = Serialize(r) /\ e.n = r.n
  BY DEF Recs, Serialize
<1>4. \A d \in Recs : d.n \in Nat
  BY <1>2, RecordTyped
<1>5. \A d \in Inputs : d.n \in Nat
  BY <1>2, InputTyped DEF Resource
<1>6. \A S : (\A d \in S : d.n \in Nat) => \A f \in Seq(S) : Numbers(f) \in Seq(Nat)
  <2>1. SUFFICES ASSUME NEW S, \A d \in S : d.n \in Nat, NEW f \in Seq(S) PROVE Numbers(f) \in Seq(Nat)
    OBVIOUS
  <2>2. PICK k \in Nat : k = Len(f) /\ \A j \in 1..k : f[j] \in S
    OBVIOUS
  <2>3. Numbers(f) \in [1..k -> Nat]
    BY <2>1, <2>2 DEF Numbers
  <2>4. QED
    BY <2>3
<1>7. ASSUME NEW S, \A d \in S : d.n \in Nat, NEW f \in Seq(S), NEW d \in S
      PROVE  Numbers(Append(f, d)) = Append(Numbers(f), d.n)
  <2>1. PICK k \in Nat : k = Len(f) /\ \A j \in 1..k : f[j] \in S
    OBVIOUS
  <2>2. PICK g \in Seq(S) : g = Append(f, d)
    BY AppendProperties
  <2>3. Len(g) = k + 1 /\ g[k + 1] = d /\ \A j \in 1..k : g[j] = f[j]
    BY <2>1, <2>2
  <2>4. PICK v \in Seq(Nat), w \in Seq(Nat) : v = Numbers(f) /\ w = Numbers(g)
    BY <1>6, <1>7
  <2>5. v = [j \in 1..k |-> f[j].n] /\ w = [j \in 1..k + 1 |-> g[j].n]
    BY <2>1, <2>3, <2>4 DEF Numbers
  <2>6. Len(v) = k /\ Len(w) = k + 1 /\ w[k + 1] = d.n /\ \A j \in 1..k : w[j] = v[j]
    BY <2>3, <2>5
  <2>7. PICK u \in Seq(Nat) : u = Append(v, d.n)
    BY <1>7, AppendProperties
  <2>8. Len(u) = k + 1 /\ u[k + 1] = d.n /\ \A j \in 1..k : u[j] = v[j]
    BY <2>6, <2>7
  <2>9. \A j \in 1..k + 1 : w[j] = u[j]
    BY <2>6, <2>8
  <2>10. w = u
    BY <2>6, <2>8, <2>9, SeqEqual
  <2>11. QED
    BY <2>2, <2>4, <2>7, <2>10
<1>8. PICK q, p : /\ q = [n \in 1..N + 2 |-> Numbers(file[n - 1])]
                  /\ p = [n \in 1..N + 2 |-> Numbers(file'[n - 1])]
  OBVIOUS
<1>9. \A n \in 1..N + 2 : n - 1 \in 0..N + 1 /\ file[n - 1] \in Seq(Recs)
  BY <1>2
<1>10. PICK g \in Seq(Recs) : g = file[t]
  BY <1>1, <1>2
<1>11. /\ file'[t] = Append(g, e) /\ Append(g, e) \in Seq(Recs)
       /\ \A n \in 0..N + 1 : n # t => file'[n] = file[n]
  BY <1>1, <1>2, <1>3, <1>10, AppendProperties
<1>12. PICK Y : Y = Seq(Nat)
  OBVIOUS
<1>13. \A n \in 1..N + 2 : q[n] \in Y /\ p[n] \in Y
  <2>1. \A f \in Seq(Recs) : Numbers(f) \in Y
    BY <1>4, <1>6, <1>12
  <2>2. ASSUME NEW n \in 1..N + 2 PROVE q[n] \in Y /\ p[n] \in Y
    <3>1. file[n - 1] \in Seq(Recs) /\ file'[n - 1] \in Seq(Recs)
      BY <1>9, <1>11
    <3>2. QED
      BY <1>8, <2>1, <3>1
  <2>3. QED
    BY <2>2
<1>14. q \in Seq(Y) /\ p \in Seq(Y) /\ Len(q) = N + 2 /\ Len(p) = N + 2
  <2>1. q \in [1..N + 2 -> Y] /\ p \in [1..N + 2 -> Y]
    BY <1>8, <1>13
  <2>2. QED
    BY <2>1
<1>15. p[t + 1] = Append(q[t + 1], r.n)
  <2>1. t + 1 \in 1..N + 2 /\ (t + 1) - 1 = t
    BY <1>1
  <2>2. q[t + 1] = Numbers(g) /\ p[t + 1] = Numbers(Append(g, e))
    BY <1>8, <1>10, <1>11, <2>1
  <2>3. QED
    BY <1>3, <1>4, <1>7, <2>2
<1>16. Numbers(<<>>) = <<>>
  BY DEF Numbers
<1>17. ASSUME NEW j \in 1..N + 2
       PROVE  (j # t + 1 => p[j] = q[j]) /\ (j > t + 1 => q[j] = <<>>)
  <2>1. j - 1 \in 0..N + 1 /\ (j # t + 1 => j - 1 # t) /\ (j > t + 1 => j - 1 > t)
    BY <1>1
  <2>2. q[j] = Numbers(file[j - 1]) /\ p[j] = Numbers(file'[j - 1])
    BY <1>8
  <2>3. j # t + 1 => file'[j - 1] = file[j - 1]
    BY <1>11, <2>1
  <2>4. j > t + 1 => file[j - 1] = <<>>
    BY <1>1, <2>1
  <2>5. QED
    BY <1>16, <2>2, <2>3, <2>4
<1>18. Joined(p, Len(p)) = Append(Joined(q, Len(q)), r.n)
  <2>1. t + 1 \in 1..Len(q) /\ Len(p) = Len(q) /\ r.n \in Nat
    BY <1>1, <1>5, <1>14
  <2>2. \A j \in 1..Len(q) : (j # t + 1 => p[j] = q[j]) /\ (j > t + 1 => q[j] = <<>>)
    BY <1>14, <1>17
  <2>3. q \in Seq(Seq(Nat)) /\ p \in Seq(Seq(Nat))
    BY <1>12, <1>14
  <2>4. QED
    BY <1>15, <2>1, <2>2, <2>3, JoinedAppends, ZenonT(60)
<1>19. AllFiles = Joined(q, Len(q)) /\ AllFiles' = Joined(p, Len(p))
  BY <1>1, <1>8 DEF AllFiles
<1>20. Numbers(saved') = Append(Numbers(saved), r.n)
  BY <1>2, <1>5, <1>7
<1>21. AllFiles = Numbers(saved)
  BY DEF NothingLost
<1>22. QED
  BY <1>18, <1>19, <1>20, <1>21 DEF NothingLost

\* What a step of Save with binary files does to them: nothing, or one record
\* is written to the file with number t, behind which all are empty.
Writes(t, r) ==
  /\ t \in FileNo /\ r \in Inputs /\ \A n \in FileNo : n > t => file[n] = <<>>
  /\ file' = [file EXCEPT ![t] = Append(file[t], Serialize(r))]
  /\ saved' = Append(saved, r)

\* A file with one more record keeps the limits if it has room for it, or was
\* empty.
LEMMA LimitsKept ==
  ASSUME SaveTypes, scene' = scene, FilesWithinLimits, ~Save.text, NEW t, NEW r, Writes(t, r),
         Save.maxItems > 0 => Len(file[t]) < Save.maxItems,
         Save.mode = "OUTPUT" /\ Save.maxSize > 0 =>
           Len(file[t]) = 0 \/ Sum(Sizes(file[t]), Len(file[t])) + r.size <= Save.maxSize
  PROVE  FilesWithinLimits'
<1>1. scene \in Scenes /\ file \in [FileNo -> Seq(Recs)] /\ t \in FileNo /\ r \in Inputs
  BY DEF SaveTypes, Writes
<1>2. Save' = Save /\ FileNo' = FileNo
  BY SameScene
<1>3. PICK g \in Seq(Recs) : g = file[t]
  BY <1>1
<1>4. PICK e \in Recs : e = Serialize(r) /\ e.size = r.size
  <2>1. Serialize(r) \in Recs
    BY <1>1 DEF Recs
  <2>2. Serialize(r).size = r.size
    BY DEF Serialize
  <2>3. QED
    BY <2>1, <2>2
<1>5. file'[t] = Append(g, e) /\ \A n \in FileNo : n # t => file'[n] = file[n]
  BY <1>1, <1>3, <1>4 DEF Writes
<1>6. /\ Sum(Sizes(g), Len(g)) \in Nat /\ Len(Append(g, e)) = Len(g) + 1
      /\ Sum(Sizes(Append(g, e)), Len(g) + 1) = Sum(Sizes(g), Len(g)) + e.size
  BY <1>1, SizesAppend
<1>7. Len(g) \in Nat /\ Save.maxItems \in Nat /\ Save.maxSize \in Nat
  BY <1>1, Setting DEF SaveConfig
<1>8. Limits(Append(g, e))
  <2>1. Save.maxItems > 0 => Len(g) + 1 <= Save.maxItems
    BY <1>3, <1>7
  <2>2. Save.mode = "OUTPUT" /\ Save.maxSize > 0 =>
          Len(g) + 1 = 1 \/ Sum(Sizes(g), Len(g)) + e.size <= Save.maxSize
    BY <1>3, <1>4, <1>7
  <2>3. QED
    BY <1>6, <2>1, <2>2 DEF Limits
<1>9. ASSUME NEW n \in FileNo \ {0} PROVE Limits(file[n])'
  <2>1. PICK h : h = file'[n]
    OBVIOUS
  <2>2. Limits(h)
    BY <1>5, <1>8, <2>1 DEF FilesWithinLimits
  <2>3. QED
    BY <1>2, <2>1, <2>2 DEF Limits
<1>10. QED
  BY <1>2, <1>9 DEF FilesWithinLimits

LEMMA AheadKept ==
  ASSUME SaveTypes, scene' = scene, NEW t, NEW r, Writes(t, r), t <= Target(fileId'),
         fileId' \in Nat
  PROVE  Ahead'
<1>1. file \in [FileNo -> Seq(Recs)] /\ t \in FileNo
  BY DEF SaveTypes, Writes
<1>2. FileNo' = FileNo /\ Target(fileId)' = Target(fileId')
  BY SameScene DEF Target
<1>3. Len(scene.input) \in Nat
  BY Setting DEF SaveTypes
<1>4. t \in Nat /\ Target(fileId') \in Nat /\ \A n \in FileNo : n \in Nat
  BY <1>1, <1>3 DEF FileNo, Target
<1>5. ASSUME NEW n \in FileNo, n > Target(fileId') PROVE file'[n] = <<>>
  <2>1. n > t /\ n # t
    BY <1>4, <1>5
  <2>2. file'[n] = file[n]
    BY <1>1, <2>1 DEF Writes
  <2>3. QED
    BY <2>1, <2>2 DEF Writes
<1>6. QED
  BY <1>2, <1>5 DEF Ahead

\* The file that Save writes to, when there are several.
LEMMA NumberedTarget == ASSUME ~Save.text, Numbered, NEW id PROVE Target(id) = id
  BY DEF Target

\* The record is written to the current file, or when that is full to the next.
LEMMA OutputWrites ==
  ASSUME SaveTypes, Ahead, ~Save.text, ProcessOutput, out' # "broken"
  PROVE  \E r \in Inputs :
           /\ Writes(Target(fileId'), r) /\ out' = out
           /\ fileId' \in FileNo
           /\ fileId' = IF Full(r) THEN fileId + 1 ELSE fileId
           /\ savedItems' = IF Full(r) THEN 1 ELSE savedItems + 1
           /\ Save.maxSize > 0 => savedSize' = IF Full(r) THEN r.size ELSE savedSize + r.size
<1>1. in # <<>> /\ scene \in Scenes /\ file \in [FileNo -> Seq(Recs)] /\ fileId \in Nat
  BY DEF ProcessOutput, SaveTypes
<1>2. PICK r \in Inputs : r = Head(in)
  BY <1>1, NextInput
<1>3. fileId \in FileNo /\ fileId + 1 \in FileNo
  BY <1>1, NextInput
<1>4. PICK id \in FileNo : id = IF Full(r) THEN fileId + 1 ELSE fileId
  BY <1>3
<1>5. PICK f : f = IF Full(r) THEN Opened(id) ELSE file
  OBVIOUS
<1>6. PICK z : z = IF Save.maxSize > 0 THEN r.size ELSE 0
  OBVIOUS
<1>7. /\ fileId' = id /\ file' = Written(f, id, r)
      /\ savedItems' = IF Full(r) THEN 1 ELSE savedItems + 1
      /\ savedSize' = IF Full(r) THEN z ELSE savedSize + z
      /\ saved' = Append(saved, r) /\ out' = out
  <2>1. \/ /\ fileId' = id /\ file' = Written(f, id, r)
           /\ savedItems' = IF Full(r) THEN 1 ELSE savedItems + 1
           /\ savedSize' = IF Full(r) THEN z ELSE savedSize + z
           /\ saved' = Append(saved, r) /\ out' = out
        \/ out' = "broken"
    BY <1>2, <1>4, <1>5, <1>6 DEF ProcessOutput, NextFile
  <2>2. QED
    BY <2>1
<1>8. f = file
  <2>1. CASE Full(r)
    <3>1. Numbered
      BY <2>1 DEF Full, Numbered
    <3>2. QED
      BY <1>3, <1>4, <1>5, <2>1, <3>1, OpenedNext
  <2>2. QED
    BY <1>5, <2>1
<1>9. PICK t \in FileNo : t = Target(id)
  BY <1>1, TargetTyped
<1>10. file' = [file EXCEPT ![t] = Append(file[t], Serialize(r))]
  BY <1>1, <1>7, <1>8, <1>9 DEF Written
<1>11. \A n \in FileNo : n > t => file[n] = <<>>
  <2>1. Len(scene.input) \in Nat
    BY <1>1, Setting
  <2>2. t >= Target(fileId) /\ Target(fileId) \in Nat /\ t \in Nat
    BY <1>1, <1>4, <1>9 DEF Target
  <2>3. \A n \in FileNo : n > t => n > Target(fileId)
    BY <2>1, <2>2 DEF FileNo
  <2>4. QED
    BY <2>3 DEF Ahead
<1>12. Writes(t, r)
  BY <1>7, <1>9, <1>10, <1>11 DEF Writes
<1>13. QED
  BY <1>4, <1>6, <1>7, <1>9, <1>12

LEMMA ProcessOutputKeeps ==
  ASSUME SaveTypes, Kept, ~Save.text, ProcessOutput PROVE Kept'
<1>1. scene' = scene /\ out = "open" /\ Save.mode = "OUTPUT"
  BY DEF ProcessOutput
<1>2. Save' = Save /\ FileNo' = FileNo /\ (Numbered' <=> Numbered)
  BY <1>1, SameScene
<1>3. CASE out' = "broken"
  <2>1. UNCHANGED <<file, saved, fileId, savedItems, savedSize, items>>
    BY <1>1, <1>3 DEF ProcessOutput
  <2>2. Ahead' /\ Fresh'
    BY <1>2, <1>3, <2>1 DEF Kept, Ahead, Fresh, Target
  <2>3. Filled'
    BY <1>2, <2>1 DEF Kept, Filled
  <2>4. FilesWithinLimits' /\ NothingLost'
    BY <1>1, <1>2, <2>1 DEF Kept, FilesWithinLimits, Limits, NothingLost, AllFiles
  <2>5. QED
    BY <2>2, <2>3, <2>4 DEF Kept
<1>4. CASE out' # "broken"
  <2>1. PICK r \in Inputs :
          /\ Writes(Target(fileId'), r) /\ out' = out
          /\ fileId' \in FileNo
          /\ fileId' = IF Full(r) THEN fileId + 1 ELSE fileId
          /\ savedItems' = IF Full(r) THEN 1 ELSE savedItems + 1
          /\ Save.maxSize > 0 => savedSize' = IF Full(r) THEN r.size ELSE savedSize + r.size
    BY <1>4, OutputWrites DEF Kept
  <2>2. PICK t : t = Target(fileId')
    OBVIOUS
  <2>3. scene \in Scenes /\ file \in [FileNo -> Seq(Recs)] /\ fileId \in Nat \ {0}
        /\ savedItems \in Nat /\ savedSize \in Nat
    BY DEF SaveTypes
  <2>4. Save.maxItems \in Nat /\ Save.maxSize \in Nat
    BY <2>3, Setting DEF SaveConfig
  <2>5. r.size \in Nat
    BY <2>3, InputTyped DEF Resource
  <2>6. Writes(t, r) /\ t \in FileNo
    BY <2>1, <2>2 DEF Writes
  <2>7. PICK g \in Seq(Recs) : g = file[t]
    BY <2>3, <2>6
  <2>8. PICK e \in Recs : e = Serialize(r) /\ e.size = r.size
    <3>1. Serialize(r) \in Recs
      BY DEF Recs
    <3>2. Serialize(r).size = r.size
      BY DEF Serialize
    <3>3. QED
      BY <3>1, <3>2
  <2>9. file'[t] = Append(g, e)
    BY <2>3, <2>6, <2>7, <2>8 DEF Writes
  <2>10. PICK l \in Nat, s \in Nat : l = Len(g) /\ s = Sum(Sizes(g), l)
    BY <2>3, SizesAppend
  <2>11. Len(Append(g, e)) = l + 1 /\ Sum(Sizes(Append(g, e)), l + 1) = s + r.size
    BY <2>3, <2>8, <2>10, SizesAppend
  <2>12. Numbered => t = fileId'
    BY <2>2, NumberedTarget
  <2>13. ASSUME Numbered
         PROVE  /\ Save.maxItems > 0 => l < Save.maxItems /\ savedItems' = l + 1
                /\ Save.maxSize > 0 => (l = 0 \/ s + r.size <= Save.maxSize) /\ savedSize' = s + r.size
    <3>1. CASE Full(r)
      <4>1. fileId' = fileId + 1 /\ t = fileId + 1 /\ Target(fileId) = fileId
        BY <2>1, <2>12, <2>13, <3>1, NumberedTarget
      <4>2. g = <<>>
        <5>1. t > Target(fileId)
          BY <2>3, <4>1
        <5>2. QED
          BY <2>6, <2>7, <5>1 DEF Kept, Ahead
      <4>3. l = 0 /\ s = 0
        BY <2>3, <2>10, <4>2, SizesEmpty
      <4>4. savedItems' = 1 /\ (Save.maxSize > 0 => savedSize' = r.size)
        BY <2>1, <3>1
      <4>5. QED
        BY <2>4, <2>5, <4>3, <4>4
    <3>2. CASE ~Full(r)
      <4>1. fileId' = fileId /\ t = fileId
        BY <2>1, <2>12, <2>13, <3>2
      <4>2. /\ Save.maxItems > 0 => savedItems = l
            /\ Save.maxSize > 0 => savedSize = s
        BY <1>1, <2>7, <2>10, <2>13, <4>1 DEF Kept, Filled
      <4>3. Limits(g)
        <5>1. t \in FileNo \ {0}
          BY <2>3, <2>6, <4>1
        <5>2. QED
          BY <2>7, <5>1 DEF Kept, FilesWithinLimits
      <4>4. Save.maxItems > 0 => l <= Save.maxItems
        BY <2>10, <4>3 DEF Limits
      <4>5. /\ Save.maxItems > 0 => savedItems # Save.maxItems
            /\ Save.maxSize > 0 => ~(savedSize + r.size > Save.maxSize)
        BY <3>2 DEF Full
      <4>6. savedItems' = savedItems + 1 /\ (Save.maxSize > 0 => savedSize' = savedSize + r.size)
        BY <2>1, <3>2
      <4>7. QED
        BY <2>3, <2>4, <2>5, <4>2, <4>4, <4>5, <4>6
    <3>3. QED
      BY <3>1, <3>2
  <2>14. Save.maxItems > 0 \/ Save.maxSize > 0 => Numbered
    BY DEF Numbered
  <2>15. FilesWithinLimits'
    <3>1. Save.maxItems > 0 => Len(file[t]) < Save.maxItems
      BY <2>7, <2>10, <2>13, <2>14
    <3>2. Save.mode = "OUTPUT" /\ Save.maxSize > 0 =>
            Len(file[t]) = 0 \/ Sum(Sizes(file[t]), Len(file[t])) + r.size <= Save.maxSize
      BY <2>7, <2>10, <2>13, <2>14
    <3>3. QED
      BY <1>1, <2>6, <3>1, <3>2, LimitsKept DEF Kept
  <2>16. NothingLost'
    <3>1. /\ \A n \in FileNo : n > t => file[n] = <<>>
          /\ file' = [file EXCEPT ![t] = Append(file[t], Serialize(r))] /\ saved' = Append(saved, r)
      BY <2>6 DEF Writes
    <3>2. QED
      BY <1>1, <2>6, <3>1, NothingLostWrites DEF Kept
  <2>17. Ahead'
    <3>1. t <= Target(fileId') /\ fileId' \in Nat
      <4>1. Len(scene.input) \in Nat
        BY <2>3, Setting
      <4>2. QED
        BY <2>1, <2>2, <4>1 DEF FileNo, Target
    <3>2. QED
      BY <1>1, <2>6, <3>1, AheadKept
  <2>18. Fresh'
    BY <1>1, <2>1 DEF Fresh
  <2>19. Filled'
    <3>1. Numbered => /\ Save.maxItems > 0 => savedItems' = Len(file'[fileId'])
                      /\ Save.maxSize > 0 =>
                           savedSize' = Sum(Sizes(file'[fileId']), Len(file'[fileId']))
      BY <2>9, <2>11, <2>12, <2>13
    <3>2. QED
      BY <1>1, <1>2, <3>1 DEF Filled
  <2>20. QED
    BY <2>15, <2>16, <2>17, <2>18, <2>19 DEF Kept
<1>5. QED
  BY <1>3, <1>4

\* Division with remainder.
LEMMA DivMod ==
  ASSUME NEW m \in Nat \ {0}, NEW i \in Nat
  PROVE  \E q \in Nat, a \in 0..m - 1 : i = m * q + a /\ q = i \div m /\ a = i % m
<1>1. PICK k \in Nat, c \in 0..m - 1 : k = i \div m /\ c = i % m
  <2>1. i \div m \in Int
    OBVIOUS
  <2>2. i \div m >= 0
    OBVIOUS
  <2>3. i % m \in 0..m - 1
    OBVIOUS
  <2>4. QED
    BY <2>1, <2>2, <2>3
<1>2. i % m = i - m * (i \div m)
  OBVIOUS
<1>3. c = i - m * k
  BY <1>1, <1>2
<1>4. m * k \in Int
  OBVIOUS
<1>5. i = m * k + c
  BY <1>3, <1>4
<1>6. QED
  BY <1>1, <1>5

\* One more item: the remainder counts on, or starts again.
LEMMA Remainder ==
  ASSUME NEW m \in Nat \ {0}, NEW i \in Nat
  PROVE  /\ i % m \in 0..m - 1
         /\ (i + 1) % m # 0 => (i + 1) % m = (i % m) + 1
<1>1. PICK q \in Nat, a \in 0..m - 1 : i = m * q + a /\ a = i % m
  BY DivMod
<1>2. PICK p \in Nat, b \in 0..m - 1 : i + 1 = m * p + b /\ b = (i + 1) % m
  <2>1. PICK k \in Nat : k = i + 1
    OBVIOUS
  <2>2. PICK u \in Nat, v \in 0..m - 1 : k = m * u + v /\ v = k % m
    BY DivMod
  <2>3. QED
    BY <2>1, <2>2
<1>3. ASSUME b # 0 PROVE b = a + 1
  <2>1. m * (p - q) = a + 1 - b /\ p - q \in Int
    BY <1>1, <1>2
  <2>2. PICK d \in Int : d = p - q
    BY <2>1
  <2>3. m * d = a + 1 - b
    BY <2>1, <2>2
  <2>4. a + 1 - b < m /\ a + 1 - b > -m
    BY <1>3
  <2>5. CASE d >= 1
    <3>1. m * d >= m
      BY <2>5
    <3>2. QED
      BY <2>3, <2>4, <3>1
  <2>6. CASE d <= -1
    <3>1. m * d <= -m
      BY <2>6
    <3>2. QED
      BY <2>3, <2>4, <3>1
  <2>7. CASE d = 0
    BY <2>3, <2>7
  <2>8. QED
    BY <2>5, <2>6, <2>7
<1>4. QED
  BY <1>1, <1>2, <1>3

\* What does not match the filter is skipped, the rest is written to the
\* current file, and then the next one may be opened.
LEMMA MultiWrites ==
  ASSUME SaveTypes, Ahead, ~Save.text, ProcessMulti
  PROVE  \/ UNCHANGED <<file, saved, fileId, items, out>>
         \/ /\ \E r \in Inputs : Writes(Target(fileId), r)
            /\ items' = items + 1 /\ out' \in {out, "broken"}
            /\ fileId' = IF Rotates THEN fileId + 1 ELSE fileId
<1>1. in # <<>> /\ scene \in Scenes /\ file \in [FileNo -> Seq(Recs)] /\ fileId \in Nat
  BY DEF ProcessMulti, SaveTypes
<1>2. PICK r \in Inputs : r = Head(in)
  BY <1>1, NextInput
<1>3. fileId \in FileNo /\ fileId + 1 \in FileNo
  BY <1>1, NextInput
<1>4. PICK t \in FileNo, u \in FileNo : t = Target(fileId) /\ u = Target(fileId + 1)
  BY <1>1, <1>3, TargetTyped
<1>5. PICK f : f = [file EXCEPT ![t] = Append(file[t], Serialize(r))]
  OBVIOUS
<1>6. Written(file, fileId, r) = f
  BY <1>1, <1>4, <1>5 DEF Written
<1>7. PICK o : o = Opened(fileId + 1)
  OBVIOUS
<1>8. Rotates => o = file /\ t # u
  <2>1. Rotates => Numbered
    BY DEF Rotates, Numbered
  <2>2. Numbered => t = fileId /\ u = fileId + 1
    BY <1>4, NumberedTarget
  <2>3. QED
    BY <1>1, <1>3, <1>7, <2>1, <2>2, OpenedNext
<1>9. \A n \in FileNo : n > t => file[n] = <<>>
  BY <1>4 DEF Ahead
<1>10. file' = f /\ saved' = Append(saved, r) => Writes(t, r)
  BY <1>5, <1>9 DEF Writes
<1>11. \/ UNCHANGED <<file, saved, fileId, items, out>>
       \/ /\ items' = items + 1 /\ saved' = Append(saved, r)
          /\ IF ~Rotates THEN file' = f /\ UNCHANGED <<fileId, out>>
             ELSE /\ fileId' = fileId + 1
                  /\ \/ /\ file' = [o EXCEPT ![t] = IF t = u THEN @ ELSE f[t]]
                        /\ UNCHANGED out
                     \/ out' = "broken" /\ file' = f
  BY <1>2, <1>4, <1>6, <1>7 DEF ProcessMulti, NextFile
<1>12. Rotates => [o EXCEPT ![t] = IF t = u THEN @ ELSE f[t]] = f
  BY <1>1, <1>5, <1>8
<1>13. QED
  BY <1>4, <1>10, <1>11, <1>12

LEMMA ProcessMultiKeeps ==
  ASSUME SaveTypes, Kept, ~Save.text, ProcessMulti PROVE Kept'
<1>1. scene' = scene /\ out = "open" /\ Save.mode = "MULTI"
  BY DEF ProcessMulti
<1>2. Save' = Save /\ FileNo' = FileNo /\ (Numbered' <=> Numbered)
  BY <1>1, SameScene
<1>3. CASE UNCHANGED <<file, saved, fileId, items, out>>
  <2>1. Ahead' /\ Fresh'
    BY <1>2, <1>3 DEF Kept, Ahead, Fresh, Target
  <2>2. Filled'
    BY <1>1, <1>2, <1>3 DEF Kept, Filled
  <2>3. FilesWithinLimits' /\ NothingLost'
    BY <1>1, <1>2, <1>3 DEF Kept, FilesWithinLimits, Limits, NothingLost, AllFiles
  <2>4. QED
    BY <2>1, <2>2, <2>3 DEF Kept
<1>4. CASE /\ \E r \in Inputs : Writes(Target(fileId), r)
           /\ items' = items + 1 /\ out' \in {out, "broken"}
           /\ fileId' = IF Rotates THEN fileId + 1 ELSE fileId
  <2>1. PICK r \in Inputs, t \in FileNo : t = Target(fileId) /\ Writes(t, r)
    BY <1>4 DEF Writes
  <2>2. scene \in Scenes /\ file \in [FileNo -> Seq(Recs)] /\ fileId \in Nat \ {0} /\ items \in Nat
    BY DEF SaveTypes
  <2>3. Save.maxItems \in Nat
    BY <2>2, Setting DEF SaveConfig
  <2>4. t \in FileNo
    BY <2>1 DEF Writes
  <2>5. PICK g \in Seq(Recs) : g = file[t]
    BY <2>2, <2>4
  <2>6. PICK e \in Recs : e = Serialize(r)
    BY <2>1 DEF Recs
  <2>7. /\ file'[t] = Append(g, e) /\ Len(Append(g, e)) = Len(g) + 1 /\ Len(g) \in Nat
        /\ \A n \in FileNo : n # t => file'[n] = file[n]
    BY <2>1, <2>2, <2>4, <2>5, <2>6 DEF Writes
  <2>8. ASSUME Save.maxItems > 0
        PROVE  /\ t = fileId /\ fileId + 1 \in FileNo /\ Len(g) < Save.maxItems
               /\ Len(g) = items % Save.maxItems
               /\ ~Rotates => (items + 1) % Save.maxItems = Len(g) + 1
               /\ Rotates => (items + 1) % Save.maxItems = 0
    <3>1. t = fileId
      BY <2>1, <2>8, NumberedTarget DEF Numbered
    <3>2. Len(g) = items % Save.maxItems
      BY <1>1, <2>5, <2>8, <3>1 DEF Kept, Filled
    <3>3. PICK m \in Nat \ {0} : m = Save.maxItems
      BY <2>3, <2>8
    <3>4. items % m \in 0..m - 1 /\ ((items + 1) % m # 0 => (items + 1) % m = (items % m) + 1)
      BY <2>2, Remainder
    <3>5. fileId + 1 \in FileNo
      <4>1. in # <<>>
        BY DEF ProcessMulti
      <4>2. QED
        BY <4>1, NextInput
    <3>6. Rotates <=> (items + 1) % m = 0
      BY <2>8, <3>3 DEF Rotates
    <3>7. QED
      BY <3>1, <3>2, <3>3, <3>4, <3>5, <3>6
  <2>9. FilesWithinLimits'
    <3>1. Save.maxItems > 0 => Len(file[t]) < Save.maxItems
      BY <2>5, <2>8
    <3>2. QED
      BY <1>1, <2>1, <3>1, LimitsKept DEF Kept
  <2>10. NothingLost'
    <3>1. /\ \A n \in FileNo : n > t => file[n] = <<>>
          /\ file' = [file EXCEPT ![t] = Append(file[t], Serialize(r))] /\ saved' = Append(saved, r)
      BY <2>1 DEF Writes
    <3>2. QED
      BY <1>1, <2>1, <2>4, <3>1, NothingLostWrites DEF Kept
  <2>11. Ahead'
    <3>1. t <= Target(fileId') /\ fileId' \in Nat
      BY <1>4, <2>1, <2>2 DEF Target
    <3>2. QED
      BY <1>1, <2>1, <3>1, AheadKept
  <2>12. Fresh'
    BY <1>1, <1>4 DEF Fresh
  <2>13. Filled'
    <3>1. ASSUME Save.maxItems > 0
          PROVE  Len(file'[fileId']) = (items + 1) % Save.maxItems
      <4>1. CASE Rotates
        <5>1. fileId' = fileId + 1 /\ fileId + 1 # t /\ fileId + 1 > Target(fileId)
          BY <1>4, <2>1, <2>2, <2>8, <3>1, <4>1
        <5>2. file'[fileId + 1] = <<>>
          BY <2>7, <2>8, <3>1, <5>1 DEF Kept, Ahead
        <5>3. QED
          BY <2>8, <3>1, <4>1, <5>1, <5>2
      <4>2. CASE ~Rotates
        BY <1>4, <2>7, <2>8, <3>1, <4>2
      <4>3. QED
        BY <4>1, <4>2
    <3>2. QED
      BY <1>1, <1>2, <1>4, <3>1 DEF Filled
  <2>14. QED
    BY <2>9, <2>10, <2>11, <2>12, <2>13 DEF Kept
<1>5. QED
  BY <1>3, <1>4, MultiWrites DEF Kept

LEMMA SameKept ==
  ASSUME Kept, UNCHANGED <<scene, file, saved, fileId, savedItems, savedSize, items>>,
         out' # "new" \/ out' = out
  PROVE  Kept'
<1>1. Save' = Save /\ FileNo' = FileNo /\ (Numbered' <=> Numbered)
  BY SameScene
<1>2. Ahead' /\ Fresh'
  BY <1>1 DEF Kept, Ahead, Fresh, Target
<1>3. Filled'
  BY <1>1 DEF Kept, Filled
<1>4. FilesWithinLimits' /\ NothingLost'
  BY <1>1 DEF Kept, FilesWithinLimits, Limits, NothingLost, AllFiles
<1>5. QED
  BY <1>2, <1>3, <1>4 DEF Kept

LEMMA SaveInitKeeps ==
  ASSUME SaveTypes, Kept, ~Save.text, SaveInit PROVE Kept'
<1>1. \A n \in FileNo : file[n] = <<>>
  BY DEF SaveInit, Kept, Fresh
<1>2. Opened(fileId) = file
  BY <1>1 DEF Opened, SaveTypes
<1>3. QED
  BY <1>2, SameKept DEF SaveInit

LEMMA SaveNotKeeps == ASSUME Kept, SaveNot PROVE Kept'
  BY SameKept DEF SaveNot

LEMMA SaveStepInv == ASSUME SaveInv, SaveStep PROVE SaveInv'
<1>1. SaveTypes /\ (~Save.text => Kept)
  BY DEF SaveInv
<1>2. SaveTypes'
  BY <1>1, SaveInitTypes, ProcessOutputTypes, ProcessMultiTypes, SaveNotTypes DEF SaveStep
<1>3. scene' = scene
  BY DEF SaveStep, SaveInit, ProcessOutput, ProcessMulti, SaveNot
<1>4. ~Save.text => Kept'
  BY <1>1, SaveInitKeeps, ProcessOutputKeeps, ProcessMultiKeeps, SaveNotKeeps DEF SaveStep
<1>5. QED
  BY <1>2, <1>3, <1>4, SameScene DEF SaveInv

LEMMA SaveSame == ASSUME SaveInv, UNCHANGED scene, UNCHANGED saveVars PROVE SaveInv'
<1>1. SaveTypes'
  BY SameScene DEF SaveInv, SaveTypes, saveVars
<1>2. ~Save.text => Kept'
  BY SameKept DEF SaveInv, saveVars
<1>3. QED
  BY <1>1, <1>2, SameScene DEF SaveInv

\* Nothing is in files that are all empty.
LEMMA JoinedEmpty ==
  ASSUME NEW q \in Seq(Seq(Nat)), \A j \in 1..Len(q) : q[j] = <<>>
  PROVE  Joined(q, Len(q)) = <<>>
<1>1. PICK N \in Nat : N = Len(q)
  OBVIOUS
<1>2. Joined(q, 0) = <<>> /\ \A j \in 1..N : Joined(q, j) = Joined(q, j - 1) \o <<>>
  BY <1>1, JoinedStep
<1>3. PICK I : I = {n \in 0..N : Joined(q, n) = <<>>}
  OBVIOUS
<1>4. 0 \in I
  BY <1>2, <1>3
<1>5. ASSUME NEW n \in 0..N - 1, n \in I PROVE n + 1 \in I
  <2>1. n + 1 \in 1..N /\ (n + 1) - 1 = n /\ n + 1 \in 0..N
    OBVIOUS
  <2>2. Joined(q, n + 1) = <<>> \o <<>>
    BY <1>2, <1>3, <1>5, <2>1
  <2>3. <<>> \o <<>> = <<>>
    OBVIOUS
  <2>4. QED
    BY <1>3, <2>1, <2>2, <2>3
<1>6. \A n \in 0..N : n \in I
  BY <1>4, <1>5, Induction
<1>7. QED
  BY <1>1, <1>3, <1>6

LEMMA SaveStarts == ASSUME Init PROVE SaveInv
<1>1. /\ scene \in Scenes /\ file = [n \in FileNo |-> <<>>]
      /\ in = scene.input /\ saved = <<>> /\ out = "new"
      /\ fileId = 1 /\ savedItems = 0 /\ savedSize = 0 /\ items = 0
  BY DEF Init
<1>2. PICK N \in Nat : N = Len(scene.input)
  BY <1>1, Setting
<1>3. scene.input \in Seq(Inputs) /\ saved \in Seq(Inputs)
  <2>1. scene.input \in Seq(Resource)
    BY <1>1, Setting
  <2>2. \A j \in 1..Len(scene.input) : scene.input[j] \in Inputs
    BY DEF Inputs
  <2>3. QED
    BY <1>1, <2>1, <2>2
<1>4. SaveTypes
  BY <1>1, <1>2, <1>3 DEF SaveTypes
<1>5. \A n \in FileNo : file[n] = <<>>
  BY <1>1
<1>6. 1 \in FileNo
  BY <1>2 DEF FileNo
<1>7. Save.maxItems \in Nat /\ Save.maxSize \in Nat
  BY <1>1, Setting DEF SaveConfig
<1>8. Filled
  <2>1. Len(file[fileId]) = 0 /\ Sum(Sizes(file[fileId]), Len(file[fileId])) = 0
    BY <1>1, <1>5, <1>6, SizesEmpty
  <2>2. ASSUME Save.maxItems > 0 PROVE items % Save.maxItems = 0
    <3>1. PICK m \in Nat \ {0} : m = Save.maxItems
      BY <1>7, <2>2
    <3>2. PICK q \in Nat, a \in 0..m - 1 : 0 = m * q + a /\ a = 0 % m
      BY DivMod
    <3>3. m * q \in Nat
      OBVIOUS
    <3>4. a = 0
      BY <3>2, <3>3
    <3>5. QED
      BY <1>1, <3>1, <3>2, <3>4
  <2>3. QED
    BY <1>1, <2>1, <2>2 DEF Filled
<1>9. Ahead /\ Fresh
  BY <1>5 DEF Ahead, Fresh
<1>10. FilesWithinLimits
  BY <1>1, <1>5, SizesEmpty DEF FilesWithinLimits
<1>11. NothingLost
  <2>1. PICK q : q = [n \in 1..N + 2 |-> Numbers(file[n - 1])]
    OBVIOUS
  <2>2. Numbers(<<>>) = <<>>
    BY DEF Numbers
  <2>3. \A n \in 1..N + 2 : file[n - 1] = <<>>
    BY <1>2, <1>5 DEF FileNo
  <2>4. \A n \in 1..N + 2 : q[n] = <<>>
    BY <2>1, <2>2, <2>3
  <2>5. PICK Y : Y = Seq(Nat) /\ <<>> \in Y
    <3>1. <<>> \in Seq(Nat)
      OBVIOUS
    <3>2. QED
      BY <3>1
  <2>6. q \in [1..N + 2 -> Y]
    BY <2>1, <2>4, <2>5
  <2>7. q \in Seq(Y) /\ Len(q) = N + 2
    BY <2>6
  <2>8. Joined(q, Len(q)) = <<>>
    BY <2>4, <2>5, <2>7, JoinedEmpty
  <2>9. AllFiles = Joined(q, Len(q))
    BY <1>2, <2>1 DEF AllFiles
  <2>10. QED
    BY <1>1, <2>2, <2>8, <2>9 DEF NothingLost
<1>12. QED
  BY <1>4, <1>8, <1>9, <1>10, <1>11 DEF SaveInv, Kept

(***************************************************************************)
(* Load.                                                                   *)
(***************************************************************************)

LEMMA SourceTyped == SaveTypes => Source \in Seq(Recs)
<1> HAVE SaveTypes
<1>1. scene \in Scenes /\ file \in [FileNo -> Seq(Recs)] /\ <<>> \in Seq(Recs)
  BY DEF SaveTypes
<1>2. Len(scene.input) \in Nat /\ Load \in LoadConfig /\ Load.name <= Len(scene.input) + 1
  BY <1>1, Setting
<1>3. Load.name \in Nat \cup {NoFile}
  BY <1>2 DEF LoadConfig
<1>4. Load.name # NoFile => Load.name \in FileNo
  BY <1>2, <1>3 DEF FileNo
<1>5. QED
  BY <1>1, <1>4 DEF Source

LEMMA SourceSize == SaveTypes => Size(Source) \in Nat
  BY SourceTyped, Offsets DEF SaveTypes

\* Whole blocks up to p: no more than p, and no fewer further on.
LEMMA BlockGrows ==
  ASSUME Block \in Nat \ {0}, NEW p \in Nat, NEW q \in Nat, p <= q
  PROVE  /\ (p \div Block) * Block \in Nat
         /\ (p \div Block) * Block <= p
         /\ (p \div Block) * Block <= (q \div Block) * Block
         /\ (p \div Block + 1) * Block = (p \div Block) * Block + Block
<1>1. PICK B \in Nat \ {0} : B = Block
  OBVIOUS
<1>2. PICK a \in Nat, c \in 0..B - 1 : p = B * a + c /\ a = p \div B
  BY DivMod
<1>3. PICK b \in Nat, d \in 0..B - 1 : q = B * b + d /\ b = q \div B
  BY DivMod
<1>4. PICK x \in Nat, y \in Nat : x = B * a /\ y = B * b
  OBVIOUS
<1>5. a * B = x /\ b * B = y /\ (a + 1) * B = x + B
  BY <1>4
<1>6. x <= p
  BY <1>2, <1>4
<1>7. x <= y
  <2>1. CASE a <= b
    BY <1>4, <2>1
  <2>2. CASE b + 1 <= a
    <3>1. B * (b + 1) <= B * a
      BY <2>2
    <3>2. y + B <= x
      BY <1>4, <3>1
    <3>3. q < y + B
      BY <1>3, <1>4
    <3>4. QED
      BY <1>6, <3>2, <3>3
  <2>3. QED
    BY <2>1, <2>2
<1>8. QED
  BY <1>1, <1>2, <1>3, <1>5, <1>6, <1>7

\* A resource from p to q: the byte count stays within the whole blocks read.
LEMMA CountBehind ==
  ASSUME scene \in Scenes, Size(Source) \in Nat, NEW p \in Nat, NEW q \in Nat, p < q,
         q <= Size(Source)
  PROVE  /\ Added(p, q) \in Nat
         /\ ~Load.text => \A n \in Nat : n <= (p \div Block) * Block =>
                                        n + Added(p, q) <= (q \div Block) * Block
<1>1. Block \in Nat \ {0} /\ Load.text \in BOOLEAN
  BY Setting DEF LoadConfig
<1>2. CASE Load.text
  BY <1>2 DEF Added, CountAfter, CountBefore
<1>3. CASE ~Load.text
  <2>1. PICK S \in Nat, B \in Nat \ {0} : S = Size(Source) /\ B = Block
    BY <1>1
  <2>2. PICK q1 \in Nat : q1 = q - 1 /\ p <= q1 /\ q1 <= q
    OBVIOUS
  <2>3. PICK x \in Nat, y \in Nat, z \in Nat :
           /\ x = (p \div Block) * Block /\ y = (q1 \div Block) * Block
           /\ z = (q \div Block) * Block
    <3>1. \A i \in Nat : (i \div Block) * Block \in Nat
      BY <1>1, BlockGrows
    <3>2. QED
      BY <3>1, Zenon
  <2>4. x <= y /\ y <= z
    BY <1>1, <2>2, <2>3, BlockGrows
  <2>5. (p \div Block + 1) * Block = x + B /\ (q1 \div Block + 1) * Block = y + B
    BY <1>1, <2>1, <2>3, BlockGrows
  <2>6. /\ Fetched(p) = IF x + B < S THEN x + B ELSE S
        /\ Fetched(q1) = IF y + B < S THEN y + B ELSE S
    BY <2>1, <2>5 DEF Fetched
  <2>7. PICK u \in Nat, v \in Nat : /\ u = Fetched(p) /\ v = Fetched(q1)
                                    /\ u = (IF x + B < S THEN x + B ELSE S)
                                    /\ v = (IF y + B < S THEN y + B ELSE S)
    BY <2>6
  <2>8. Added(p, q) = IF q > u THEN v - u ELSE u - u
    BY <1>3, <2>2, <2>7 DEF Added, CountAfter, CountBefore
  <2>9. q <= S
    BY <2>1
  <2>10. Added(p, q) \in Nat
    BY <2>4, <2>7, <2>8
  <2>11. ASSUME NEW n \in Nat, n <= x PROVE n + Added(p, q) <= z
    <3>1. CASE q > u
      <4>1. u = x + B
        BY <2>7, <2>9, <3>1
      <4>2. v <= y + B
        BY <2>7
      <4>3. QED
        BY <2>4, <2>8, <2>11, <3>1, <4>1, <4>2
    <3>2. CASE ~(q > u)
      BY <2>4, <2>8, <2>11, <3>2
    <3>3. QED
      BY <3>1, <3>2
  <2>12. QED
    BY <2>3, <2>10, <2>11
<1>4. QED
  BY <1>1, <1>2, <1>3

\* What of the place in the file does not depend on the rest.
LEMMA SameFile ==
  ASSUME UNCHANGED <<scene, file>>
  PROVE  Source' = Source /\ Load' = Load
<1>1. Load' = Load
  BY SameScene
<1>2. QED
  BY <1>1 DEF Source

LEMMA SamePlace ==
  ASSUME InPlace, Behind, UNCHANGED <<scene, file, pos, read, from, markEmmited>>
  PROVE  InPlace' /\ pos' <= Size(Source)'
<1>1. Source' = Source /\ Load' = Load
  BY SameFile
<1>2. NoMore' <=> NoMore
  BY <1>1 DEF NoMore, Enough, Items
<1>3. \A k, m : HasRead(k, m)' <=> HasRead(k, m)
  BY <1>1, <1>2 DEF HasRead, Deserialize
<1>4. QED
  BY <1>1, <1>3 DEF InPlace, Behind

\* Nothing has been read yet.
LEMMA NewPlace ==
  ASSUME SaveTypes', pos' = from', read' = <<>>
  PROVE  InPlace'
<1>1. Source' \in Seq(Recs')
  <2>1. (SaveTypes => Source \in Seq(Recs))'
    BY SourceTyped, PTL
  <2>2. QED
    BY <2>1
<1>2. PICK N \in Nat : N = Len(Source')
  BY <1>1
<1>3. SUFFICES ASSUME NEW k \in 0..N, from' = Offset(Source', k)
               PROVE  \E m \in 0..N - k : HasRead(k, m)'
  BY <1>2 DEF InPlace
<1>4. 0 \in 0..N - k /\ k + 0 = k
  OBVIOUS
<1>5. HasRead(k, 0)'
  BY <1>3, <1>4 DEF HasRead
<1>6. QED
  BY <1>4, <1>5

\* Save runs before Load does.
LEMMA SaveStepLoad == ASSUME SaveInv, LoadInv, SaveStep PROVE LoadInv'
<1>1. loading = "off"
  BY DEF LoadInv, Apart, SaveStep, SaveInit, ProcessOutput, ProcessMulti, SaveNot
<1>2. UNCHANGED <<scene, loading, loadVars, ctlVars>>
  BY DEF SaveStep, SaveInit, ProcessOutput, ProcessMulti, SaveNot
<1>3. /\ pos' = 0 /\ from' = 0 /\ byteCount' = 0 /\ read' = <<>> /\ check' = NoCheck
      /\ Apart'
  BY <1>1, <1>2 DEF LoadInv, Apart, loadVars, ctlVars
<1>4. LoadTypes'
  BY <1>2 DEF LoadInv, LoadTypes, loadVars, ctlVars
<1>5. SaveTypes'
  BY SaveStepInv DEF SaveInv
<1>6. InPlace'
  BY <1>3, <1>5, NewPlace
<1>7. Behind'
  <2>1. 0 <= Size(Source)'
    <3>1. (SaveTypes => Size(Source) \in Nat)'
      BY SourceSize, PTL
    <3>2. QED
      BY <1>5, <3>1
  <2>2. 0 <= (0 \div Block) * Block
    <3>1. Block \in Nat \ {0}
      BY Setting DEF SaveInv, SaveTypes
    <3>2. QED
      BY <3>1, BlockGrows
  <2>3. QED
    BY <1>3, <2>1, <2>2 DEF Behind
<1>8. QED
  BY <1>3, <1>4, <1>6, <1>7 DEF LoadInv

\* A step that reads nothing: the place, the count and the checkpoint stay.
LEMMA Rests ==
  ASSUME LoadInv, UNCHANGED <<scene, saveVars, loadVars, check>>,
         IF loading' = "off" THEN loading = "off" /\ running' ELSE in = <<>> /\ out # "new"
  PROVE  Apart' /\ Behind' /\ InPlace'
<1>1. UNCHANGED <<scene, file, pos, read, from, markEmmited, byteCount, check, in, out>>
  BY DEF saveVars, loadVars
<1>2. InPlace' /\ pos' <= Size(Source)'
  BY <1>1, SamePlace DEF LoadInv
<1>3. Load' = Load
  BY <1>1, SameFile
<1>4. Behind'
  BY <1>1, <1>2, <1>3 DEF LoadInv, Behind
<1>5. Apart'
  BY <1>1 DEF LoadInv, Apart
<1>6. QED
  BY <1>2, <1>4, <1>5

LEMMA RestStepsLoad ==
  ASSUME LoadInv,
         \/ LoadInit \/ RunThread \/ ProcessInputEnd \/ ProcessInputWaits \/ WaitSend \/ WaitEnds
         \/ SpuriousWakeup \/ Stopping \/ StopBegin \/ Start
  PROVE  LoadInv' /\ UNCHANGED <<scene, saveVars>>
<1>1. UNCHANGED <<scene, saveVars, loadVars, check>>
  BY DEF LoadInit, RunThread, ProcessInputEnd, ProcessInputWaits, WaitSend, WaitEnds,
         SpuriousWakeup, Stopping, StopSync, StopSignal, StopJoin, StopBegin, Start, ctlVars
<1>2. IF loading' = "off" THEN loading = "off" /\ running' ELSE in = <<>> /\ out # "new"
  <2>1. loading = "off" \/ (in = <<>> /\ out # "new")
    BY DEF LoadInv, Apart
  <2>2. loading = "off" => running
    BY DEF LoadInv, Apart
  <2>3. CASE LoadInit
    BY <2>3 DEF LoadInit
  <2>4. CASE RunThread \/ ProcessInputEnd \/ ProcessInputWaits \/ WaitSend \/ WaitEnds \/ SpuriousWakeup
    BY <2>1, <2>4 DEF RunThread, ProcessInputEnd, ProcessInputWaits, WaitSend, WaitEnds, SpuriousWakeup
  <2>5. CASE Stopping
    BY <2>1, <2>2, <2>5 DEF Stopping, StopSync, StopSignal, StopJoin
  <2>6. CASE StopBegin \/ Start
    BY <2>1, <2>2, <2>6 DEF StopBegin, Start
  <2>7. QED
    BY <2>3, <2>4, <2>5, <2>6
<1>3. Apart' /\ Behind' /\ InPlace'
  BY <1>1, <1>2, Rests
<1>4. LoadTypes'
  <2>1. LoadTypes /\ UNCHANGED <<pos, from, byteCount, read, markEmmited>>
    BY <1>1 DEF LoadInv, loadVars
  <2>2. CASE LoadInit \/ RunThread \/ ProcessInputEnd \/ ProcessInputWaits
    BY <2>1, <2>2 DEF LoadTypes, LoadInit, RunThread, ProcessInputEnd, ProcessInputWaits, ctlVars
  <2>3. CASE WaitSend \/ WaitEnds \/ SpuriousWakeup
    BY <2>1, <2>3 DEF LoadTypes, WaitSend, WaitEnds, SpuriousWakeup, ctlVars
  <2>4. CASE Stopping
    BY <2>1, <2>4 DEF LoadTypes, Stopping, StopSync, StopSignal, StopJoin
  <2>5. CASE StopBegin
    <3>1. stops' \in 0..MaxStops
      BY <2>1, <2>5, FilesAssumption DEF LoadTypes, StopBegin
    <3>2. QED
      BY <2>1, <2>5, <3>1 DEF LoadTypes, StopBegin
  <2>6. CASE Start
    BY <2>1, <2>6 DEF LoadTypes, Start
  <2>7. QED
    BY <2>2, <2>3, <2>4, <2>5, <2>6
<1>5. QED
  BY <1>1, <1>3, <1>4 DEF LoadInv

LEMMA RestartLoad == ASSUME SaveInv, LoadInv, Restart PROVE LoadInv'
<1>1. /\ UNCHANGED <<scene, saveVars, check, stops>> /\ restarts' \in 0..MaxRestarts
      /\ loading' = "loop" /\ pos' = 0 /\ from' = 0 /\ byteCount' = 0 /\ read' = <<>>
      /\ markEmmited' = FALSE /\ running' = TRUE /\ cancel' = FALSE
      /\ missed' = FALSE /\ ctl' = "idle" /\ loading # "off"
  <2>1. restarts' \in 0..MaxRestarts
    BY FilesAssumption DEF Restart, LoadInv, LoadTypes
  <2>2. QED
    BY <2>1 DEF Restart
<1>2. SaveTypes'
  BY <1>1, SaveSame DEF SaveInv
<1>3. InPlace'
  BY <1>1, <1>2, NewPlace
<1>4. Source' = Source /\ Load' = Load
  BY <1>1, SameFile DEF saveVars
<1>5. Behind'
  <2>1. Size(Source) \in Nat
    BY SourceSize DEF SaveInv
  <2>2. 0 <= (0 \div Block) * Block
    <3>1. Block \in Nat \ {0}
      BY Setting DEF SaveInv, SaveTypes
    <3>2. QED
      BY <3>1, BlockGrows
  <2>3. QED
    BY <1>1, <1>4, <2>1, <2>2 DEF LoadInv, Behind
<1>6. Apart'
  BY <1>1 DEF LoadInv, Apart, saveVars
<1>7. LoadTypes'
  <2>1. <<>> \in Seq(Delivered)
    OBVIOUS
  <2>2. QED
    BY <1>1, <2>1 DEF LoadInv, LoadTypes
<1>8. QED
  BY <1>3, <1>5, <1>6, <1>7 DEF LoadInv

LEMMA SaveCheckpointLoad == ASSUME SaveInv, LoadInv, SaveCheckpoint PROVE LoadInv'
<1>1. /\ UNCHANGED <<scene, saveVars, loading, loadVars, running, cancel, ctl, missed, restarts, stops>>
      /\ check' = [offset |-> byteCount, at |-> pos] /\ loading # "off"
  BY DEF SaveCheckpoint
<1>2. UNCHANGED <<scene, file, pos, read, from, markEmmited, byteCount, in, out>>
  BY <1>1 DEF saveVars, loadVars
<1>3. InPlace' /\ pos' <= Size(Source)'
  BY <1>2, SamePlace DEF LoadInv
<1>4. Load' = Load
  BY <1>2, SameFile
<1>5. pos \in Nat /\ byteCount \in Nat /\ (~Load.text => byteCount <= (pos \div Block) * Block)
  BY DEF LoadInv, LoadTypes, Behind
<1>6. (pos \div Block) * Block <= pos /\ (pos \div Block) * Block \in Nat
  <2>1. Block \in Nat \ {0}
    BY Setting DEF SaveInv, SaveTypes
  <2>2. QED
    BY <1>5, <2>1, BlockGrows
<1>7. ~Load.text => byteCount <= pos
  BY <1>5, <1>6
<1>8. check' \in [offset : Nat, at : Nat] /\ check'.offset = byteCount /\ check'.at = pos
  BY <1>1, <1>5
<1>9. Behind'
  BY <1>2, <1>3, <1>4, <1>5, <1>7, <1>8 DEF Behind
<1>10. Apart'
  BY <1>1, <1>2 DEF LoadInv, Apart
<1>11. LoadTypes'
  BY <1>1, <1>2 DEF LoadInv, LoadTypes
<1>12. QED
  BY <1>3, <1>9, <1>10, <1>11 DEF LoadInv

LEMMA RestoreCheckpointLoad == ASSUME SaveInv, LoadInv, RestoreCheckpoint PROVE LoadInv'
<1>1. /\ UNCHANGED <<scene, saveVars, byteCount, read, markEmmited, ctlVars>>
      /\ loading = "loop" /\ loading' \in {"loop", "crash"} /\ read = <<>> /\ pos = 0
      /\ check # NoCheck
  BY DEF RestoreCheckpoint
<1>2. UNCHANGED <<scene, file, read, markEmmited, byteCount, check, in, out>>
  BY <1>1 DEF saveVars, ctlVars
<1>3. Source' = Source /\ Load' = Load
  BY <1>2, SameFile
<1>4. Size(Source) \in Nat
  BY SourceSize DEF SaveInv
<1>5. CASE Load.name = NoFile
  <2>1. UNCHANGED <<pos, from>>
    BY <1>5 DEF RestoreCheckpoint
  <2>2. InPlace' /\ pos' <= Size(Source)'
    BY <1>2, <2>1, SamePlace DEF LoadInv
  <2>3. Behind'
    BY <1>2, <1>3, <2>1, <2>2 DEF LoadInv, Behind
  <2>4. Apart'
    BY <1>1, <1>2 DEF LoadInv, Apart
  <2>5. LoadTypes'
    BY <1>1, <2>1 DEF LoadInv, LoadTypes, ctlVars
  <2>6. QED
    BY <2>2, <2>3, <2>4, <2>5 DEF LoadInv
<1>6. CASE Load.name # NoFile
  <2>1. PICK p : p = check.offset + (IF Load.text THEN 1 ELSE 0)
    OBVIOUS
  <2>2. p \in Nat
    <3>1. check.offset \in Nat
      BY <1>1 DEF LoadInv, Behind
    <3>2. QED
      BY <2>1, <3>1
  <2>3. PICK q \in Nat : q = (IF p <= Size(Source) THEN p ELSE Size(Source)) /\ q <= Size(Source)
    BY <1>4, <2>2
  <2>4. pos' = q /\ from' = q /\ loading' = loading
    BY <1>6, <2>1, <2>3 DEF RestoreCheckpoint
  <2>5. SaveTypes'
    BY <1>1, SaveSame DEF SaveInv
  <2>6. InPlace'
    BY <1>1, <2>4, <2>5, NewPlace
  <2>7. ~Load.text => byteCount <= (q \div Block) * Block
    <3>1. Block \in Nat \ {0}
      BY Setting DEF SaveInv, SaveTypes
    <3>2. PICK x \in Nat, y \in Nat : x = (0 \div Block) * Block /\ y = (q \div Block) * Block
      <4>1. \A i \in Nat : (i \div Block) * Block \in Nat
        BY <3>1, BlockGrows
      <4>2. 0 \in Nat
        OBVIOUS
      <4>3. QED
        BY <4>1, <4>2, Zenon
    <3>3. x <= y
      BY <3>1, <3>2, BlockGrows
    <3>4. (~Load.text => byteCount <= x) /\ byteCount \in Nat
      BY <1>1, <3>2 DEF LoadInv, LoadTypes, Behind
    <3>5. QED
      BY <3>2, <3>3, <3>4
  <2>8. Behind'
    BY <1>2, <1>3, <2>3, <2>4, <2>7 DEF LoadInv, Behind
  <2>9. Apart'
    BY <1>1, <1>2 DEF LoadInv, Apart
  <2>10. LoadTypes'
    BY <1>1, <2>4 DEF LoadInv, LoadTypes, ctlVars
  <2>11. QED
    BY <2>6, <2>8, <2>9, <2>10 DEF LoadInv
<1>7. QED
  BY <1>5, <1>6

\* One record starts behind k records, and none at the end.
LEMMA StartsAt ==
  ASSUME scene \in Scenes, NEW f \in Seq(Recs), NEW k \in 0..Len(f)
  PROVE  /\ k < Len(f) => Starts(f, Offset(f, k)) = {k + 1}
         /\ k = Len(f) => Starts(f, Offset(f, k)) = {} /\ Offset(f, k) = Size(f)
<1>1. PICK N \in Nat : N = Len(f) /\ k \in 0..N
  OBVIOUS
<1>2. /\ Size(f) = Offset(f, N)
      /\ \A j \in 0..N : Offset(f, j) \in Nat
      /\ \A i, j \in 0..N : i < j => Offset(f, i) < Offset(f, j)
  BY <1>1, Offsets
<1>3. ASSUME NEW j \in 1..N PROVE Offset(f, j - 1) = Offset(f, k) <=> j = k + 1
  <2>1. PICK i \in 0..N : i = j - 1
    OBVIOUS
  <2>2. i < k => Offset(f, i) # Offset(f, k)
    BY <1>1, <1>2
  <2>3. k < i => Offset(f, i) # Offset(f, k)
    BY <1>1, <1>2
  <2>4. i = k <=> j = k + 1
    BY <1>1, <2>1
  <2>5. i < k \/ k < i \/ i = k
    BY <1>1
  <2>6. QED
    BY <2>1, <2>2, <2>3, <2>4, <2>5
<1>4. Starts(f, Offset(f, k)) = {j \in 1..N : j = k + 1}
  BY <1>1, <1>3 DEF Starts
<1>5. QED
  BY <1>1, <1>2, <1>4

LEMMA ProcessInputPlace ==
  ASSUME SaveInv, LoadInv, ProcessInput PROVE InPlace'
<1>1. UNCHANGED <<scene, saveVars, markEmmited, from>> /\ ~Enough
  BY DEF ProcessInput
<1>2. Source' = Source /\ Load' = Load
  BY <1>1, SameFile DEF saveVars
<1>3. PICK f \in Seq(Recs) : f = Source
  BY SourceTyped DEF SaveInv
<1>4. PICK N \in Nat : N = Len(f)
  OBVIOUS
<1>5. scene \in Scenes /\ read \in Seq(Delivered)
  BY DEF SaveInv, SaveTypes, LoadInv, LoadTypes
<1>6. SUFFICES ASSUME NEW k \in 0..N, from = Offset(f, k)
               PROVE  \E m \in 0..N - k : HasRead(k, m)'
  BY <1>1, <1>2, <1>3, <1>4 DEF InPlace
<1>7. PICK m \in 0..N - k : HasRead(k, m)
  BY <1>3, <1>4, <1>6 DEF LoadInv, InPlace
<1>8. k + m \in 0..N /\ pos = Offset(f, k + m)
  BY <1>3, <1>7 DEF HasRead
<1>9. k + m < N /\ Starts(f, pos) = {k + m + 1}
  <2>1. CASE k + m = N
    <3>1. Starts(f, pos) = {} /\ pos = Size(f)
      BY <1>4, <1>5, <1>8, <2>1, StartsAt
    <3>2. Size(f) \in Nat
      BY <1>5, Offsets
    <3>3. FALSE
      BY <1>3, <3>1, <3>2 DEF ProcessInput
    <3>4. QED
      BY <3>3
  <2>2. CASE k + m < N
    BY <1>4, <1>5, <1>8, <2>2, StartsAt
  <2>3. QED
    BY <1>8, <2>1, <2>2
<1>10. PICK l \in 1..N : l = k + m + 1
  BY <1>8, <1>9
<1>11. PICK d : d = Deserialize(f[l])
  OBVIOUS
<1>12. pos' = Offset(f, l) /\ read' = Append(read, d)
  BY <1>3, <1>9, <1>10, <1>11 DEF ProcessInput
<1>13. d \in Delivered
  <2>1. f[l] \in Recs
    BY <1>4, <1>10
  <2>2. QED
    BY <1>5, <1>11, <2>1, Faithful
<1>14. Len(read) = m /\ \A j \in 1..m : read[j] = Deserialize(f[k + j])
  <2>1. ~NoMore
    BY <1>1, <1>3, <1>9 DEF NoMore
  <2>2. QED
    BY <1>3, <1>7, <2>1 DEF HasRead
<1>15. /\ Len(read') = m + 1 /\ read'[m + 1] = d
       /\ \A j \in 1..m : read'[j] = read[j]
  BY <1>5, <1>12, <1>13, <1>14, AppendProperties
<1>16. m + 1 \in 0..N - k /\ k + (m + 1) = l
  BY <1>9, <1>10
<1>17. \A j \in 1..m + 1 : read'[j] = Deserialize(f[k + j])
  <2>1. SUFFICES ASSUME NEW j \in 1..m + 1 PROVE read'[j] = Deserialize(f[k + j])
    OBVIOUS
  <2>2. CASE j = m + 1
    BY <1>11, <1>15, <1>16, <2>2
  <2>3. CASE j \in 1..m
    BY <1>14, <1>15, <2>3
  <2>4. QED
    BY <2>2, <2>3
<1>18. HasRead(k, m + 1)'
  <2>1. pos' = Offset(Source', k + (m + 1))
    BY <1>2, <1>3, <1>12, <1>16
  <2>2. \A j \in 1..m + 1 : read'[j] = Deserialize(Source[k + j])'
    BY <1>2, <1>3, <1>17 DEF Deserialize
  <2>3. QED
    BY <1>15, <2>1, <2>2 DEF HasRead
<1>19. QED
  BY <1>16, <1>18

LEMMA ProcessInputLoad == ASSUME SaveInv, LoadInv, ProcessInput PROVE LoadInv'
<1>1. /\ UNCHANGED <<scene, saveVars, from, markEmmited, ctlVars>>
      /\ loading = "call" /\ loading' = "loop"
      /\ byteCount' = byteCount + Added(pos, pos')
  BY DEF ProcessInput
<1>2. Source' = Source /\ Load' = Load
  BY <1>1, SameFile DEF saveVars
<1>3. PICK f \in Seq(Recs) : f = Source
  BY SourceTyped DEF SaveInv
<1>4. /\ scene \in Scenes /\ read \in Seq(Delivered) /\ pos \in Nat /\ byteCount \in Nat
      /\ pos <= Size(f)
  BY <1>3 DEF SaveInv, SaveTypes, LoadInv, LoadTypes, Behind
<1>5. PICK N \in Nat, S \in Nat : N = Len(f) /\ S = Size(f)
  BY <1>4, Offsets
<1>6. pos' \in Nat /\ pos < pos' /\ pos' <= S /\ read' \in Seq(Delivered)
  <2>1. CASE \E k \in Starts(f, pos) :
               pos' = Offset(f, k) /\ read' = Append(read, Deserialize(f[k]))
    <3>1. PICK k \in 1..N : /\ Offset(f, k - 1) = pos /\ pos' = Offset(f, k)
                            /\ read' = Append(read, Deserialize(f[k]))
      BY <1>5, <2>1 DEF Starts
    <3>2. k - 1 \in 0..N /\ k \in 0..N /\ k - 1 < k
      OBVIOUS
    <3>3. pos' \in Nat /\ pos < pos' /\ pos' <= S
      BY <1>4, <1>5, <3>1, <3>2, Offsets
    <3>4. f[k] \in Recs
      BY <1>5
    <3>5. Deserialize(f[k]) \in Delivered
      BY <1>4, <3>4, Faithful
    <3>6. read' \in Seq(Delivered)
      BY <1>4, <3>1, <3>5, AppendProperties
    <3>7. QED
      BY <3>3, <3>6
  <2>2. CASE pos < S /\ pos' = pos + 1 /\ read' = Append(read, Junk)
    <3>1. Junk \in Delivered
      BY DEF Junk, Delivered
    <3>2. read' \in Seq(Delivered)
      BY <1>4, <2>2, <3>1, AppendProperties
    <3>3. QED
      BY <1>4, <2>2, <3>2
  <2>3. QED
    BY <1>3, <1>5, <2>1, <2>2 DEF ProcessInput
<1>7. /\ Added(pos, pos') \in Nat
      /\ ~Load.text => byteCount + Added(pos, pos') <= (pos' \div Block) * Block
  <2>1. /\ Added(pos, pos') \in Nat
        /\ ~Load.text => \A n \in Nat : n <= (pos \div Block) * Block =>
                                       n + Added(pos, pos') <= (pos' \div Block) * Block
    BY <1>3, <1>4, <1>5, <1>6, CountBehind
  <2>2. ~Load.text => byteCount <= (pos \div Block) * Block
    BY DEF LoadInv, Behind
  <2>3. QED
    BY <1>4, <2>1, <2>2
<1>8. byteCount' \in Nat
  BY <1>1, <1>4, <1>7
<1>9. InPlace'
  BY ProcessInputPlace
<1>10. check' = check
  BY <1>1 DEF ctlVars
<1>11. Behind'
  BY <1>1, <1>2, <1>3, <1>5, <1>6, <1>7, <1>10 DEF LoadInv, Behind
<1>12. Apart'
  BY <1>1 DEF LoadInv, Apart, saveVars
<1>13. LoadTypes'
  BY <1>1, <1>6, <1>8 DEF LoadInv, LoadTypes, ctlVars
<1>14. QED
  BY <1>9, <1>11, <1>12, <1>13 DEF LoadInv

LEMMA ProcessInputMarkLoad == ASSUME SaveInv, LoadInv, ProcessInputMark PROVE LoadInv'
<1>1. /\ UNCHANGED <<scene, saveVars, pos, byteCount, from, ctlVars>>
      /\ loading = "call" /\ loading' = "loop" /\ NoMore
      /\ ~markEmmited /\ markEmmited' = TRUE /\ read' = Append(read, Mark)
  BY DEF ProcessInputMark
<1>2. Source' = Source /\ Load' = Load
  BY <1>1, SameFile DEF saveVars
<1>3. read \in Seq(Delivered) /\ Mark \in Delivered
  BY DEF LoadInv, LoadTypes, Mark, Delivered
<1>4. PICK l \in Nat : l = Len(read)
  BY <1>3
<1>5. /\ read' \in Seq(Delivered) /\ Len(read') = l + 1 /\ read'[l + 1] = Mark
      /\ \A j \in 1..l : read'[j] = read[j]
  BY <1>1, <1>3, <1>4, AppendProperties
<1>6. NoMore'
  <2>1. {j \in 1..l + 1 : read'[j] # Mark} = {j \in 1..l : read[j] # Mark}
    BY <1>5
  <2>2. Items' = Items
    BY <1>4, <1>5, <2>1 DEF Items, Mark
  <2>3. QED
    BY <1>1, <1>2, <2>2 DEF NoMore, Enough
<1>7. InPlace'
  <2>1. PICK N : N = Len(Source)
    OBVIOUS
  <2>2. SUFFICES ASSUME NEW k \in 0..N, from = Offset(Source, k)
                 PROVE  \E m \in 0..N - k : HasRead(k, m)'
    BY <1>1, <1>2, <2>1 DEF InPlace
  <2>3. PICK m \in 0..N - k : HasRead(k, m)
    BY <2>1, <2>2 DEF LoadInv, InPlace
  <2>4. /\ l = m /\ pos = Offset(Source, k + m)
        /\ \A j \in 1..m : read[j] = Deserialize(Source[k + j])
    BY <1>1, <1>4, <2>3 DEF HasRead
  <2>5. pos' = Offset(Source', k + m)
    BY <1>1, <1>2, <2>4
  <2>6. \A j \in 1..m : read'[j] = Deserialize(Source[k + j])'
    <3>1. \A j : Deserialize(Source[k + j])' = Deserialize(Source[k + j])
      BY <1>2 DEF Deserialize
    <3>2. \A j \in 1..m : read'[j] = read[j]
      BY <1>5, <2>4
    <3>3. QED
      BY <2>4, <3>1, <3>2
  <2>7. HasRead(k, m)'
    <3>1. Len(read') = m + 1 /\ read'[m + 1] = Mark' /\ markEmmited'
      BY <1>1, <1>5, <2>4 DEF Mark
    <3>2. QED
      BY <1>6, <2>5, <2>6, <3>1 DEF HasRead
  <2>8. QED
    BY <2>7
<1>8. Behind'
  BY <1>1, <1>2 DEF LoadInv, Behind, ctlVars
<1>9. Apart'
  BY <1>1 DEF LoadInv, Apart, saveVars
<1>10. LoadTypes'
  BY <1>1, <1>5 DEF LoadInv, LoadTypes, ctlVars
<1>11. QED
  BY <1>7, <1>8, <1>9, <1>10 DEF LoadInv

LEMMA LoadStarts == ASSUME Init PROVE LoadInv
<1>1. /\ loading = "off" /\ pos = 0 /\ byteCount = 0 /\ read = <<>> /\ from = 0
      /\ markEmmited = FALSE /\ running = TRUE /\ cancel = FALSE
      /\ ctl = "idle" /\ missed = FALSE /\ check = NoCheck
      /\ restarts = 0 /\ stops = 0
  BY DEF Init
<1>2. SaveTypes
  BY SaveStarts DEF SaveInv
<1>3. Source \in Seq(Recs) /\ Size(Source) \in Nat
  BY <1>2, SourceTyped, SourceSize
<1>4. LoadTypes
  <2>1. MaxRestarts \in Nat /\ MaxStops \in Nat
    BY FilesAssumption
  <2>2. <<>> \in Seq(Delivered)
    OBVIOUS
  <2>3. restarts \in 0..MaxRestarts /\ stops \in 0..MaxStops
    BY <1>1, <2>1
  <2>4. QED
    BY <1>1, <2>2, <2>3 DEF LoadTypes
<1>5. Apart
  BY <1>1 DEF Apart
<1>6. Behind
  <2>1. Block \in Nat \ {0}
    BY FilesAssumption
  <2>2. 0 <= (0 \div Block) * Block
    <3>1. (0 \div Block) * Block \in Nat
      BY <2>1, BlockGrows
    <3>2. QED
      BY <3>1
  <2>3. QED
    BY <1>1, <1>3, <2>2 DEF Behind
<1>7. InPlace
  <2>1. PICK N \in Nat : N = Len(Source)
    BY <1>3
  <2>2. SUFFICES ASSUME NEW k \in 0..N, from = Offset(Source, k)
                 PROVE  \E m \in 0..N - k : HasRead(k, m)
    BY <2>1 DEF InPlace
  <2>3. 0 \in 0..N - k /\ k + 0 = k
    OBVIOUS
  <2>4. HasRead(k, 0)
    BY <1>1, <2>2, <2>3 DEF HasRead
  <2>5. QED
    BY <2>3, <2>4
<1>8. QED
  BY <1>4, <1>5, <1>6, <1>7 DEF LoadInv

(***************************************************************************)
(* The invariant and what it means.                                        *)
(***************************************************************************)
FilesInv == SaveInv /\ LoadInv

LEMMA FilesInvInit == Init => FilesInv
  BY SaveStarts, LoadStarts DEF FilesInv

LEMMA FilesInvNext == FilesInv /\ [Next]_vars => FilesInv'
<1>1. SUFFICES ASSUME SaveInv, LoadInv, [Next]_vars PROVE SaveInv' /\ LoadInv'
  BY DEF FilesInv
<1>2. CASE SaveStep
  BY <1>1, <1>2, SaveStepInv, SaveStepLoad
<1>3. CASE \/ LoadInit \/ RunThread \/ ProcessInputEnd \/ ProcessInputWaits \/ WaitSend \/ WaitEnds
           \/ SpuriousWakeup \/ Stopping \/ StopBegin \/ Start
  BY <1>1, <1>3, RestStepsLoad, SaveSame
<1>4. CASE ProcessInput
  BY <1>1, <1>4, ProcessInputLoad, SaveSame DEF ProcessInput
<1>5. CASE ProcessInputMark
  BY <1>1, <1>5, ProcessInputMarkLoad, SaveSame DEF ProcessInputMark
<1>6. CASE SaveCheckpoint
  BY <1>1, <1>6, SaveCheckpointLoad, SaveSame DEF SaveCheckpoint
<1>7. CASE RestoreCheckpoint
  BY <1>1, <1>7, RestoreCheckpointLoad, SaveSame DEF RestoreCheckpoint
<1>8. CASE Restart
  BY <1>1, <1>8, RestartLoad, SaveSame DEF Restart
<1>9. CASE UNCHANGED vars
  <2>1. UNCHANGED <<scene, saveVars, loadVars, check>>
        /\ UNCHANGED <<loading, running, cancel, ctl, missed, restarts, stops>>
    BY <1>9 DEF vars, saveVars, loadVars
  <2>2. SaveInv'
    BY <1>1, <2>1, SaveSame
  <2>3. IF loading' = "off" THEN loading = "off" /\ running' ELSE in = <<>> /\ out # "new"
    BY <1>1, <2>1 DEF LoadInv, Apart
  <2>4. Apart' /\ Behind' /\ InPlace'
    BY <1>1, <2>1, <2>3, Rests
  <2>5. LoadTypes'
    BY <1>1, <2>1 DEF LoadInv, LoadTypes, loadVars
  <2>6. QED
    BY <2>2, <2>4, <2>5 DEF LoadInv
<1>10. QED
  BY <1>1, <1>2, <1>3, <1>4, <1>5, <1>6, <1>7, <1>8, <1>9 DEF Next, Reader, Control

LEMMA InvIsTyped == FilesInv => TypeOK
<1>1. SUFFICES ASSUME SaveTypes, LoadTypes PROVE TypeOK
  BY DEF FilesInv, SaveInv, LoadInv
<1>2. PICK k \in Nat, l \in Nat : k = Len(scene.input) /\ l = Len(in)
  BY <1>1, Setting DEF SaveTypes
<1>3. savedItems \in 0..k /\ items \in 0..k
  <2>1. savedItems \in Nat /\ items \in Nat /\ savedItems + l <= k /\ items + l <= k
    BY <1>1, <1>2 DEF SaveTypes
  <2>2. QED
    BY <2>1
<1>4. DOMAIN file = FileNo
  BY <1>1 DEF SaveTypes
<1>5. QED
  BY <1>1, <1>2, <1>3, <1>4 DEF TypeOK, SaveTypes, LoadTypes

\* What a place in the file says about what was delivered.
LEMMA DeliveredFrom ==
  ASSUME FilesInv, NEW k \in 0..Len(Source), from = Offset(Source, k), NEW j \in 1..Len(read)
  PROVE  /\ read[j] = Mark => j = Len(read)
         /\ read[j] # Mark =>
              /\ k + j <= Len(Source)
              /\ \E r \in Inputs : /\ r.n = Source[k + j].n /\ read[j].n = r.n
                                   /\ read[j].type = r.type
                                   /\ Save.saveId => read[j].id = r.id
<1>1. scene \in Scenes /\ SaveTypes /\ read \in Seq(Delivered) /\ InPlace
  BY DEF FilesInv, SaveInv, SaveTypes, LoadInv, LoadTypes
<1>2. PICK f \in Seq(Recs) : f = Source
  BY <1>1, SourceTyped
<1>3. PICK N \in Nat, l \in Nat : N = Len(f) /\ l = Len(read)
  BY <1>1
<1>4. PICK m \in 0..N - k : HasRead(k, m)
  BY <1>1, <1>2, <1>3 DEF InPlace
<1>5. /\ \A i \in 1..m : read[i] = Deserialize(f[k + i])
      /\ l = m \/ (l = m + 1 /\ read[m + 1] = Mark)
  BY <1>2, <1>3, <1>4 DEF HasRead
<1>6. j \in 1..l /\ k \in 0..N
  BY <1>2, <1>3
<1>7. CASE j \in 1..m
  <2>1. k + j \in 1..N
    BY <1>6, <1>7
  <2>2. f[k + j] \in Recs /\ read[j] = Deserialize(f[k + j])
    BY <1>3, <1>5, <1>7, <2>1
  <2>3. PICK e \in Recs : e = f[k + j]
    BY <2>2
  <2>4. read[j] # Mark
    BY <1>1, <2>2, <2>3, Faithful
  <2>5. \E r \in Inputs : /\ r.n = e.n /\ read[j].n = r.n
                          /\ read[j].type = r.type
                          /\ Save.saveId => read[j].id = r.id
    BY <1>1, <2>2, <2>3, Faithful
  <2>6. QED
    BY <1>2, <1>3, <2>1, <2>3, <2>4, <2>5
<1>8. CASE j \notin 1..m
  <2>1. l = m + 1 /\ j = m + 1 /\ read[j] = Mark
    BY <1>5, <1>6, <1>8
  <2>2. QED
    BY <1>3, <2>1
<1>9. QED
  BY <1>7, <1>8

LEMMA InvMeans == FilesInv => FilesWhole /\ CheckpointNotAhead
<1>1. SUFFICES ASSUME FilesInv PROVE FilesWhole /\ CheckpointNotAhead
  OBVIOUS
<1>2. TypeOK
  BY <1>1, InvIsTyped
<1>3. FilesWithinLimits /\ NothingLost
  BY <1>1 DEF FilesInv, SaveInv, Kept, FilesWithinLimits, NothingLost
<1>4. RoundTrip
  BY <1>1, DeliveredFrom DEF RoundTrip, Inputs
<1>5. MarkIsLast
  BY <1>1, DeliveredFrom DEF MarkIsLast, Aligned
<1>6. CheckpointNotAhead
  BY <1>1 DEF FilesInv, LoadInv, Behind, CheckpointNotAhead
<1>7. QED
  BY <1>2, <1>3, <1>4, <1>5, <1>6 DEF FilesWhole

\* Whatever Save is given, however it is configured and wherever the files are
\* rotated: each file is within its limits, the files together hold exactly
\* what was counted as written, and what Load delivers, in whichever process,
\* is what the file holds from its place on, with one marker behind it.
THEOREM Whole == Spec => []FilesWhole
<1>1. FilesInv => FilesWhole
  BY InvMeans
<1>2. QED
  BY <1>1, FilesInvInit, FilesInvNext, PTL DEF Spec

\* Whatever the size of a block and of the records, a checkpoint of a binary
\* file is not ahead of what had been read when it was saved, although the
\* stream it is made from reads ahead.
THEOREM Checkpoints == Spec => []CheckpointNotAhead
<1>1. FilesInv => CheckpointNotAhead
  BY InvMeans
<1>2. QED
  BY <1>1, FilesInvInit, FilesInvNext, PTL DEF Spec
=============================================================================
