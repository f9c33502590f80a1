---------------------------- MODULE PrintfProofs ----------------------------
(***************************************************************************)
(* Theorems about Printf for every width, every size of the buffers and    *)
(* every program of calls: the buffers for digits never overflow, and what *)
(* the calls are for is what comes out, on the screen and on the line.     *)
(***************************************************************************)
EXTENDS Printf, SequenceTheorems, WellFoundedInduction, TLAPS

-----------------------------------------------------------------------------
(* Recursive definitions: what they are at every place.                    *)

\* A set of numbers that has a member has a least one.
LEMMA LeastOne ==
  ASSUME NEW S, S \subseteq Nat, S # {}
  PROVE  \E x \in S : \A y \in S : x <= y
<1>1. PICK x \in S : \A y \in S : <<y, x>> \notin OpToRel(<, Nat)
  BY WFMin, NatLessThanWellFounded
<1>2. \A y \in S : ~(y < x)
  BY <1>1 DEF OpToRel
<1>. QED
  BY <1>2

\* A set of numbers with 0 in it, and with every number its successor up to n,
\* has all of them up to n.
LEMMA Reaches ==
  ASSUME NEW n \in Nat, NEW S, 0 \in S, \A i \in 0 .. n - 1 : i \in S => i + 1 \in S
  PROVE  \A i \in 0 .. n : i \in S
<1>. SUFFICES ASSUME {i \in 0 .. n : i \notin S} # {} PROVE FALSE
  OBVIOUS
<1>1. PICK i \in {j \in 0 .. n : j \notin S} : \A j \in {j \in 0 .. n : j \notin S} : i <= j
  <2>1. {j \in 0 .. n : j \notin S} \subseteq Nat
    OBVIOUS
  <2>. QED
    BY <2>1, LeastOne
<1>2. i # 0 /\ i - 1 \in 0 .. n - 1 /\ (i - 1) + 1 = i
  BY <1>1
<1>3. i - 1 \in S
  BY <1>1, <1>2
<1>. QED
  BY <1>1, <1>2, <1>3

IsPower(h, b, n) == h = [k \in 0 .. n |-> IF k = 0 THEN 1 ELSE b * h[k - 1]]

\* The recursion of Power has a solution.
LEMMA PowerExists ==
  ASSUME NEW b, NEW n \in Nat
  PROVE  \E h : IsPower(h, b, n)
<1>. DEFINE S == {k \in 0 .. n : \E h : IsPower(h, b, k)}
<1>1. 0 \in S
  <2>. DEFINE g == [k \in 0 .. 0 |-> 1]
  <2>1. IsPower(g, b, 0)
    BY DEF IsPower
  <2>. QED
    BY <2>1
<1>2. ASSUME NEW k \in 0 .. n - 1, k \in S PROVE k + 1 \in S
  <2>1. PICK h : IsPower(h, b, k)
    BY <1>2
  <2>. DEFINE g == [i \in 0 .. k + 1 |-> IF i = k + 1 THEN b * h[k] ELSE h[i]]
  <2>2. ASSUME NEW i \in 0 .. k + 1
        PROVE  g[i] = IF i = 0 THEN 1 ELSE b * g[i - 1]
    <3>1. CASE i = k + 1
      <4>1. i # 0 /\ i - 1 = k /\ k \in 0 .. k + 1 /\ k # k + 1
        BY <3>1
      <4>2. g[k] = h[k]
        BY <4>1
      <4>. QED
        BY <3>1, <4>1, <4>2
    <3>2. CASE i # k + 1
      <4>1. i \in 0 .. k /\ g[i] = h[i]
        BY <3>2
      <4>2. h[i] = IF i = 0 THEN 1 ELSE b * h[i - 1]
        BY <2>1, <4>1 DEF IsPower
      <4>3. i # 0 => i - 1 \in 0 .. k + 1 /\ i - 1 # k + 1
        BY <4>1
      <4>4. i # 0 => g[i - 1] = h[i - 1]
        BY <4>3
      <4>. QED
        BY <4>1, <4>2, <4>4
    <3>. QED
      BY <3>1, <3>2
  <2>3. g = [i \in 0 .. k + 1 |-> g[i]]
    OBVIOUS
  <2>. HIDE DEF g
  <2>4. IsPower(g, b, k + 1)
    BY <2>2, <2>3 DEF IsPower
  <2>5. k + 1 \in 0 .. n
    OBVIOUS
  <2>. QED
    BY <2>4, <2>5
<1>. HIDE DEF S
<1>3. n \in S
  <2>1. \A i \in 0 .. n : i \in S
    BY <1>1, <1>2, Reaches
  <2>. QED
    BY <2>1
<1>. QED
  BY <1>3 DEF S

\* Powers, from one to the next.
LEMMA PowerSteps ==
  ASSUME NEW b, NEW n \in Nat
  PROVE  Power(b, 0) = 1 /\ Power(b, n + 1) = b * Power(b, n)
<1>. DEFINE P(m) == CHOOSE h : IsPower(h, b, m)
<1>1. ASSUME NEW m \in Nat
      PROVE  /\ Power(b, m) = P(m)[m] /\ P(m)[0] = 1
             /\ \A k \in 1 .. m : P(m)[k] = b * P(m)[k - 1]
  <2>1. IsPower(P(m), b, m)
    BY PowerExists
  <2>2. Power(b, m) = P(m)[m]
    BY DEF Power, IsPower
  <2>. DEFINE h == P(m)
  <2>3. IsPower(h, b, m)
    BY <2>1
  <2>. HIDE DEF h
  <2>4. \A k \in 0 .. m : h[k] = IF k = 0 THEN 1 ELSE b * h[k - 1]
    BY <2>3 DEF IsPower
  <2>5. 0 \in 0 .. m /\ \A k \in 1 .. m : k \in 0 .. m /\ k # 0
    OBVIOUS
  <2>6. h[0] = 1 /\ \A k \in 1 .. m : h[k] = b * h[k - 1]
    BY <2>4, <2>5
  <2>. QED
    BY <2>2, <2>6 DEF h
<1>. DEFINE f == P(n)
            g == P(n + 1)
            S == {k \in 0 .. n : g[k] = f[k]}
<1>2. /\ Power(b, n) = f[n] /\ f[0] = 1
      /\ \A k \in 1 .. n : f[k] = b * f[k - 1]
  BY <1>1
<1>3. /\ Power(b, n + 1) = g[n + 1] /\ g[0] = 1
      /\ \A k \in 1 .. n + 1 : g[k] = b * g[k - 1]
  BY <1>1
<1>4. Power(b, 0) = 1
  BY <1>1
<1>. HIDE DEF f, g
<1>5. 0 \in S
  BY <1>2, <1>3
<1>6. ASSUME NEW k \in 0 .. n - 1, k \in S PROVE k + 1 \in S
  <2>1. k + 1 \in 1 .. n /\ k + 1 \in 1 .. n + 1 /\ (k + 1) - 1 = k /\ k + 1 \in 0 .. n
    OBVIOUS
  <2>2. f[k + 1] = b * f[k] /\ g[k + 1] = b * g[k]
    BY <1>2, <1>3, <2>1
  <2>. QED
    BY <1>6, <2>1, <2>2
<1>. HIDE DEF S
<1>7. n \in S
  <2>1. \A k \in 0 .. n : k \in S
    BY <1>5, <1>6, Reaches
  <2>. QED
    BY <2>1
<1>8. n + 1 \in 1 .. n + 1 /\ (n + 1) - 1 = n
  OBVIOUS
<1>9. g[n + 1] = b * f[n]
  BY <1>3, <1>7, <1>8 DEF S
<1>. QED
  BY <1>2, <1>3, <1>4, <1>9

\* A power of a positive number is positive.
LEMMA PowerType ==
  ASSUME NEW b \in Nat \ {0}, NEW n \in Nat
  PROVE  Power(b, n) \in Nat \ {0}
<1>. DEFINE S == {k \in 0 .. n : Power(b, k) \in Nat \ {0}}
<1>1. 0 \in S
  BY PowerSteps
<1>2. ASSUME NEW k \in 0 .. n - 1, k \in S PROVE k + 1 \in S
  <2>1. PICK x \in Nat \ {0} : x = Power(b, k)
    BY <1>2
  <2>2. Power(b, k + 1) = b * x
    BY <2>1, PowerSteps
  <2>3. b * x \in Nat \ {0}
    OBVIOUS
  <2>4. k + 1 \in 0 .. n
    OBVIOUS
  <2>. QED
    BY <2>2, <2>3, <2>4
<1>. HIDE DEF S
<1>3. \A i \in 0 .. n : i \in S
  BY <1>1, <1>2, Reaches
<1>. QED
  BY <1>3 DEF S

\* A higher power is no smaller, and neither is one of a greater base.
LEMMA PowerGrows ==
  ASSUME NEW b \in Nat \ {0}, NEW m \in Nat, NEW n \in Nat, m <= n
  PROVE  Power(b, m) <= Power(b, n)
<1>. DEFINE S == {k \in 0 .. n - m : Power(b, m) <= Power(b, m + k)}
<1>1. 0 \in S
  <2>1. m + 0 = m /\ Power(b, m) <= Power(b, m)
    BY PowerType
  <2>. QED
    BY <2>1
<1>2. ASSUME NEW k \in 0 .. (n - m) - 1, k \in S PROVE k + 1 \in S
  <2>1. PICK x \in Nat \ {0} : x = Power(b, m + k)
    BY PowerType
  <2>2. m + (k + 1) = (m + k) + 1 /\ m + k \in Nat /\ k + 1 \in 0 .. n - m
    OBVIOUS
  <2>3. Power(b, m + (k + 1)) = b * x
    BY <2>1, <2>2, PowerSteps
  <2>4. b * x >= x /\ b * x \in Nat
    OBVIOUS
  <2>5. PICK y \in Nat \ {0} : y = Power(b, m)
    BY PowerType
  <2>6. y <= x
    BY <1>2, <2>1, <2>5
  <2>7. y <= b * x
    BY <2>4, <2>6
  <2>. QED
    BY <2>2, <2>3, <2>5, <2>7
<1>. HIDE DEF S
<1>3. n - m \in Nat /\ m + (n - m) = n
  OBVIOUS
<1>4. n - m \in S
  <2>1. \A i \in 0 .. n - m : i \in S
    BY <1>1, <1>2, <1>3, Reaches
  <2>. QED
    BY <1>3, <2>1
<1>. QED
  BY <1>3, <1>4 DEF S

\* The powers of the greater base are the greater ones.
LEMMA PowerOfMore ==
  ASSUME NEW a \in Nat \ {0}, NEW b \in Nat, a <= b, NEW n \in Nat
  PROVE  Power(a, n) <= Power(b, n)
<1>. DEFINE S == {k \in 0 .. n : Power(a, k) <= Power(b, k)}
<1>1. 0 \in S
  BY PowerSteps
<1>2. ASSUME NEW k \in 0 .. n - 1, k \in S PROVE k + 1 \in S
  <2>1. PICK x \in Nat \ {0} : x = Power(a, k)
    BY PowerType
  <2>2. PICK y \in Nat \ {0} : y = Power(b, k)
    BY PowerType
  <2>3. x <= y
    BY <1>2, <2>1, <2>2
  <2>4. Power(a, k + 1) = a * x /\ Power(b, k + 1) = b * y
    BY <2>1, <2>2, PowerSteps
  <2>5. a * x <= b * y
    <3>1. a * x <= b * x
      OBVIOUS
    <3>2. b * x <= b * y
      BY <2>3
    <3>. QED
      BY <3>1, <3>2
  <2>6. k + 1 \in 0 .. n
    OBVIOUS
  <2>. QED
    BY <2>4, <2>5, <2>6
<1>. HIDE DEF S
<1>3. \A i \in 0 .. n : i \in S
  BY <1>1, <1>2, Reaches
<1>. QED
  BY <1>3 DEF S

-----------------------------------------------------------------------------
(* Sequences one after the other.                                          *)

\* The first k of the parts.
Flat(P, k) == FlattenSeq([j \in 1 .. k |-> P[j]])
IsFlat(h, P, n) == h = [i \in 1 .. n |-> IF i = 1 THEN P[i] ELSE h[i - 1] \o P[i]]

\* The recursion of FlattenSeq has a solution.
LEMMA FlatExists ==
  ASSUME NEW P, NEW n \in Nat
  PROVE  \E h : IsFlat(h, P, n)
<1>. DEFINE S == {k \in 0 .. n : \E h : IsFlat(h, P, k)}
<1>1. 0 \in S
  <2>. DEFINE g == [i \in 1 .. 0 |-> P[i]]
  <2>1. IsFlat(g, P, 0)
    BY DEF IsFlat
  <2>. QED
    BY <2>1
<1>2. ASSUME NEW k \in 0 .. n - 1, k \in S PROVE k + 1 \in S
  <2>1. PICK h : IsFlat(h, P, k)
    BY <1>2
  <2>. DEFINE last == IF k = 0 THEN P[1] ELSE h[k] \o P[k + 1]
              g == [i \in 1 .. k + 1 |-> IF i = k + 1 THEN last ELSE h[i]]
  <2>2. ASSUME NEW i \in 1 .. k + 1
        PROVE  g[i] = IF i = 1 THEN P[i] ELSE g[i - 1] \o P[i]
    <3>1. CASE i = k + 1 /\ k = 0
      BY <3>1
    <3>2. CASE i = k + 1 /\ k # 0
      <4>1. i # 1 /\ i - 1 = k /\ k \in 1 .. k + 1 /\ k # k + 1
        BY <3>2
      <4>2. g[k] = h[k]
        BY <4>1
      <4>3. g[i] = h[k] \o P[k + 1]
        BY <3>2
      <4>. QED
        BY <3>2, <4>1, <4>2, <4>3
    <3>3. CASE i # k + 1
      <4>1. i \in 1 .. k /\ g[i] = h[i]
        BY <3>3
      <4>2. h[i] = IF i = 1 THEN P[i] ELSE h[i - 1] \o P[i]
        BY <2>1, <4>1 DEF IsFlat
      <4>3. i # 1 => i - 1 \in 1 .. k + 1 /\ i - 1 # k + 1
        BY <4>1
      <4>4. i # 1 => g[i - 1] = h[i - 1]
        BY <4>3
      <4>. QED
        BY <4>1, <4>2, <4>4
    <3>. QED
      BY <3>1, <3>2, <3>3
  <2>3. g = [i \in 1 .. k + 1 |-> g[i]]
    OBVIOUS
  <2>. HIDE DEF g
  <2>4. IsFlat(g, P, k + 1)
    BY <2>2, <2>3 DEF IsFlat
  <2>5. k + 1 \in 0 .. n
    OBVIOUS
  <2>. QED
    BY <2>4, <2>5
<1>. HIDE DEF S
<1>3. n \in S
  <2>1. \A i \in 0 .. n : i \in S
    BY <1>1, <1>2, Reaches
  <2>. QED
    BY <2>1
<1>. QED
  BY <1>3 DEF S

\* FlattenSeq is a solution, and there is one only.
LEMMA FlatIs ==
  ASSUME NEW S, NEW P, NEW n \in Nat, \A j \in 1 .. n : P[j] \in Seq(S),
         NEW h, IsFlat(h, P, n), NEW k \in 1 .. n
  PROVE  Flat(P, k) = h[k]
<1>. DEFINE q == [j \in 1 .. k |-> P[j]]
            g == CHOOSE f : IsFlat(f, q, k)
            T == {i \in 0 .. k - 1 : g[i + 1] = h[i + 1]}
<1>1. q \in Seq(Seq(S)) /\ Len(q) = k /\ k # 0
  BY IsASeq, LenProperties
<1>2. IsFlat(g, q, k)
  <2>1. k \in Nat
    OBVIOUS
  <2>2. \E f : IsFlat(f, q, k)
    BY <2>1, FlatExists
  <2>. QED
    BY <2>2
<1>3. Flat(P, k) = g[k]
  BY <1>1 DEF Flat, FlattenSeq, IsFlat
<1>4. \A i \in 1 .. k : q[i] = P[i]
  OBVIOUS
<1>. HIDE DEF q, g
<1>5. \A i \in 1 .. k : g[i] = IF i = 1 THEN P[i] ELSE g[i - 1] \o P[i]
  BY <1>2, <1>4 DEF IsFlat
<1>6. \A i \in 1 .. k : h[i] = IF i = 1 THEN P[i] ELSE h[i - 1] \o P[i]
  <2>1. \A i \in 1 .. n : h[i] = IF i = 1 THEN P[i] ELSE h[i - 1] \o P[i]
    BY DEF IsFlat
  <2>. QED
    BY <2>1
<1>7. 0 \in T
  <2>1. 1 \in 1 .. k /\ 0 + 1 = 1
    OBVIOUS
  <2>2. g[1] = P[1] /\ h[1] = P[1]
    BY <1>5, <1>6, <2>1
  <2>. QED
    BY <2>1, <2>2
<1>8. ASSUME NEW i \in 0 .. (k - 1) - 1, i \in T PROVE i + 1 \in T
  <2>1. (i + 1) + 1 \in 1 .. k /\ (i + 1) + 1 # 1 /\ ((i + 1) + 1) - 1 = i + 1 /\ i + 1 \in 0 .. k - 1
    OBVIOUS
  <2>2. /\ g[(i + 1) + 1] = g[i + 1] \o P[(i + 1) + 1]
        /\ h[(i + 1) + 1] = h[i + 1] \o P[(i + 1) + 1]
    BY <1>5, <1>6, <2>1
  <2>. QED
    BY <1>8, <2>1, <2>2
<1>. HIDE DEF T
<1>9. k - 1 \in T
  <2>1. k - 1 \in Nat /\ k - 1 \in 0 .. k - 1
    OBVIOUS
  <2>2. \A i \in 0 .. k - 1 : i \in T
    BY <1>7, <1>8, <2>1, Reaches
  <2>. QED
    BY <2>1, <2>2
<1>10. (k - 1) + 1 = k
  OBVIOUS
<1>. QED
  BY <1>3, <1>9, <1>10 DEF T

\* None of the parts, and one more of them.
LEMMA FlatNone ==
  ASSUME NEW P
  PROVE  Flat(P, 0) = <<>>
<1>1. [j \in 1 .. 0 |-> P[j]] = <<>> /\ Len(<<>>) = 0
  OBVIOUS
<1>. QED
  BY <1>1 DEF Flat, FlattenSeq

\* What is put together from sequences over S is one.
LEMMA FlatTypes ==
  ASSUME NEW S, NEW P, NEW n \in Nat, \A j \in 1 .. n : P[j] \in Seq(S)
  PROVE  \A k \in 0 .. n : Flat(P, k) \in Seq(S)
<1>1. PICK h : IsFlat(h, P, n)
  BY FlatExists
<1>2. \A i \in 1 .. n : h[i] = IF i = 1 THEN P[i] ELSE h[i - 1] \o P[i]
  BY <1>1 DEF IsFlat
<1>. DEFINE T == {k \in 0 .. n : Flat(P, k) \in Seq(S)}
<1>3. 0 \in T
  <2>1. Flat(P, 0) = <<>> /\ <<>> \in Seq(S) /\ 0 \in 0 .. n
    BY FlatNone
  <2>. QED
    BY <2>1
<1>4. ASSUME NEW k \in 0 .. n - 1, k \in T PROVE k + 1 \in T
  <2>1. k + 1 \in 1 .. n /\ k + 1 \in 0 .. n /\ (k + 1) - 1 = k
    OBVIOUS
  <2>2. Flat(P, k + 1) = h[k + 1]
    BY <1>1, <2>1, FlatIs
  <2>3. CASE k = 0
    <3>1. h[k + 1] = P[k + 1]
      BY <1>2, <2>1, <2>3
    <3>. QED
      BY <2>1, <2>2, <3>1
  <2>4. CASE k # 0
    <3>1. k \in 1 .. n /\ k + 1 # 1
      BY <2>4
    <3>2. h[k + 1] = h[k] \o P[k + 1]
      BY <1>2, <2>1, <3>1
    <3>3. h[k] = Flat(P, k)
      BY <1>1, <3>1, FlatIs
    <3>4. Flat(P, k) \o P[k + 1] \in Seq(S)
      BY <1>4, <2>1, ConcatProperties
    <3>. QED
      BY <2>1, <2>2, <3>2, <3>3, <3>4
  <2>. QED
    BY <2>3, <2>4
<1>. HIDE DEF T
<1>5. \A i \in 0 .. n : i \in T
  BY <1>3, <1>4, Reaches
<1>. QED
  BY <1>5 DEF T

\* One sequence more is appended at the end.
LEMMA FlatOneMore ==
  ASSUME NEW S, NEW P, NEW k \in Nat, \A j \in 1 .. k + 1 : P[j] \in Seq(S)
  PROVE  Flat(P, k + 1) = Flat(P, k) \o P[k + 1]
<1>. DEFINE n == k + 1
<1>1. /\ n \in Nat /\ n \in 1 .. n /\ n - 1 = k /\ k \in 0 .. n
      /\ \A j \in 1 .. n : P[j] \in Seq(S)
  OBVIOUS
<1>2. k # 0 => k \in 1 .. n /\ n # 1
  OBVIOUS
<1>3. k = 0 => n = 1
  OBVIOUS
<1>. HIDE DEF n
<1>4. PICK h : IsFlat(h, P, n)
  BY <1>1, FlatExists
<1>5. \A i \in 1 .. n : h[i] = IF i = 1 THEN P[i] ELSE h[i - 1] \o P[i]
  BY <1>4 DEF IsFlat
<1>6. \A i \in 1 .. n : Flat(P, i) = h[i]
  BY <1>1, <1>4, FlatIs, SMTT(60)
<1>7. CASE k = 0
  <2>1. Flat(P, k) = <<>>
    BY <1>7, FlatNone
  <2>2. Flat(P, n) = P[n]
    BY <1>1, <1>3, <1>5, <1>6, <1>7
  <2>3. <<>> \o P[n] = P[n]
    BY <1>1, ConcatEmptySeq
  <2>. QED
    BY <2>1, <2>2, <2>3 DEF n
<1>8. CASE k # 0
  <2>1. h[n] = h[k] \o P[n]
    BY <1>1, <1>2, <1>5, <1>8
  <2>2. Flat(P, n) = h[n] /\ Flat(P, k) = h[k]
    BY <1>1, <1>2, <1>6, <1>8
  <2>. QED
    BY <2>1, <2>2 DEF n
<1>. QED
  BY <1>7, <1>8

\* Where a part stands in all of them.
LEMMA FlatPlaces ==
  ASSUME NEW S, NEW P, NEW n \in Nat, \A j \in 1 .. n : P[j] \in Seq(S)
  PROVE  \A k \in 1 .. n : \A i \in 1 .. Len(P[k]) :
           /\ Len(Flat(P, k - 1)) + i \in 1 .. Len(Flat(P, n))
           /\ Flat(P, n)[Len(Flat(P, k - 1)) + i] = P[k][i]
<1>. TAKE k \in 1 .. n
<1>. TAKE i \in 1 .. Len(P[k])
<1>. DEFINE f(m) == Flat(P, m)
            z == Len(f(k - 1)) + i
            T == {d \in 0 .. n - k : z \in 1 .. Len(f(k + d)) /\ f(k + d)[z] = P[k][i]}
<1>1. \A m \in 0 .. n : f(m) \in Seq(S) /\ Len(f(m)) \in Nat
  BY FlatTypes, LenProperties
<1>2. \A m \in 0 .. n - 1 : f(m + 1) = f(m) \o P[m + 1]
  <2>. TAKE m \in 0 .. n - 1
  <2>1. \A j \in 1 .. m + 1 : P[j] \in Seq(S)
    OBVIOUS
  <2>. QED
    BY <2>1, FlatOneMore
<1>3. Len(P[k]) \in Nat /\ k - 1 \in 0 .. n - 1 /\ (k - 1) + 1 = k /\ k + 0 = k /\ k - 1 \in 0 .. n
  BY LenProperties
<1>4. z \in Nat /\ z >= 1
  BY <1>1, <1>3
<1>. HIDE DEF f
<1>5. 0 \in T
  <2>1. f(k) = f(k - 1) \o P[k]
    BY <1>2, <1>3
  <2>2. f(k - 1) \in Seq(S) /\ P[k] \in Seq(S) /\ Len(f(k - 1)) \in Nat
    BY <1>1, <1>3
  <2>. DEFINE a == f(k - 1)
              c == P[k]
  <2>3. f(k) = a \o c /\ z = Len(a) + i /\ a \in Seq(S) /\ c \in Seq(S) /\ i \in 1 .. Len(c)
    BY <2>1, <2>2
  <2>. HIDE DEF a, c, z
  <2>4. Len(a) \in Nat /\ Len(c) \in Nat
    BY <2>3, LenProperties
  <2>5. /\ Len(a \o c) = Len(a) + Len(c)
        /\ \A y \in 1 .. Len(a) + Len(c) : (a \o c)[y] = IF y <= Len(a) THEN a[y] ELSE c[y - Len(a)]
    BY <2>3, ConcatProperties
  <2>6. z \in 1 .. Len(a) + Len(c) /\ ~(z <= Len(a)) /\ z - Len(a) = i
    BY <2>3, <2>4
  <2>7. z \in 1 .. Len(f(k)) /\ f(k)[z] = c[i]
    BY <2>3, <2>5, <2>6
  <2>8. f(k + 0) = f(k) /\ 0 \in 0 .. n - k
    BY <1>3
  <2>. QED
    BY <2>7, <2>8 DEF c
<1>6. ASSUME NEW d \in 0 .. (n - k) - 1, d \in T PROVE d + 1 \in T
  <2>1. k + d \in 0 .. n - 1 /\ k + d \in 0 .. n /\ (k + d) + 1 \in 1 .. n /\ k + (d + 1) = (k + d) + 1 /\ d + 1 \in 0 .. n - k
    OBVIOUS
  <2>. DEFINE m == k + d
  <2>2. f(m + 1) = f(m) \o P[m + 1] /\ f(m) \in Seq(S) /\ P[m + 1] \in Seq(S)
    BY <1>1, <1>2, <2>1
  <2>3. z \in 1 .. Len(f(m)) /\ f(m)[z] = P[k][i]
    BY <1>6
  <2>. HIDE DEF m, z
  <2>4. Len(f(m)) \in Nat /\ Len(P[m + 1]) \in Nat
    BY <2>2, LenProperties
  <2>5. /\ Len(f(m + 1)) = Len(f(m)) + Len(P[m + 1])
        /\ \A y \in 1 .. Len(f(m)) + Len(P[m + 1]) : f(m + 1)[y] =
              IF y <= Len(f(m)) THEN f(m)[y] ELSE P[m + 1][y - Len(f(m))]
    BY <2>2, ConcatProperties
  <2>6. z \in 1 .. Len(f(m + 1)) /\ f(m + 1)[z] = P[k][i]
    BY <2>3, <2>4, <2>5
  <2>. QED
    BY <2>1, <2>6 DEF m, z
<1>. HIDE DEF T
<1>7. n - k \in T
  <2>1. n - k \in Nat /\ n - k \in 0 .. n - k
    OBVIOUS
  <2>2. \A d \in 0 .. n - k : d \in T
    BY <1>5, <1>6, <2>1, Reaches
  <2>. QED
    BY <2>1, <2>2
<1>8. k + (n - k) = n
  OBVIOUS
<1>. QED
  BY <1>7, <1>8 DEF T, f, z

-----------------------------------------------------------------------------
(* The digits of a number.                                                 *)

\* The quotient and the remainder of n * a + x.
LEMMA Quotient ==
  ASSUME NEW a \in Nat \ {0}, NEW n \in Nat, NEW x \in 0 .. a - 1
  PROVE  /\ n * a + x \in Nat
         /\ (n * a + x) \div a = n /\ (n * a + x) % a = x
OBVIOUS

\* A number is its quotient times the divisor, and its remainder.
LEMMA Division ==
  ASSUME NEW a \in Nat \ {0}, NEW k \in Nat
  PROVE  /\ k \div a \in Nat /\ k % a \in 0 .. a - 1
         /\ k = (k \div a) * a + (k % a)
OBVIOUS

\* To divide twice is to divide by the product.
LEMMA DividedTwice ==
  ASSUME NEW n \in Nat, NEW a \in Nat \ {0}, NEW b \in Nat \ {0}
  PROVE  (n \div a) \div b = n \div (b * a)
<1>1. PICK q \in Nat, r \in 0 .. a - 1 : q = n \div a /\ n = q * a + r
  BY Division
<1>2. PICK y \in Nat, s \in 0 .. b - 1 : y = q \div b /\ q = y * b + s
  BY Division
<1>3. s * a + r \in Nat /\ s * a + r < b * a
  <2>1. s * a + r <= (b - 1) * a + (a - 1)
    <3>1. s * a <= (b - 1) * a
      OBVIOUS
    <3>. QED
      BY <3>1
  <2>2. (b - 1) * a + (a - 1) = b * a - 1 /\ b * a \in Nat
    OBVIOUS
  <2>3. s * a \in Nat
    OBVIOUS
  <2>. QED
    BY <2>1, <2>2, <2>3
<1>4. n = y * (b * a) + (s * a + r)
  <2>1. n = (y * b + s) * a + r
    BY <1>1, <1>2
  <2>2. (y * b + s) * a = (y * b) * a + s * a
    OBVIOUS
  <2>3. (y * b) * a = y * (b * a)
    OBVIOUS
  <2>4. (y * b) * a \in Int /\ s * a \in Int
    OBVIOUS
  <2>. QED
    BY <2>1, <2>2, <2>3, <2>4
<1>5. b * a \in Nat \ {0}
  OBVIOUS
<1>. DEFINE m == b * a
            x == s * a + r
<1>6. m \in Nat \ {0} /\ x \in 0 .. m - 1 /\ n = y * m + x
  BY <1>3, <1>4, <1>5
<1>. HIDE DEF m, x
<1>7. n \div m = y
  BY <1>6, Quotient
<1>. QED
  BY <1>1, <1>2, <1>7 DEF m

Bases == {10, 16}

\* Dividing once more by the base is dividing by its next power.
LEMMA NextPower ==
  ASSUME NEW n \in Nat, NEW b \in Bases, NEW i \in Nat
  PROVE  /\ Power(b, i) \in Nat \ {0}
         /\ n \div Power(b, i) \in Nat
         /\ (n \div Power(b, i)) \div b = n \div Power(b, i + 1)
<1>1. b \in Nat \ {0}
  BY DEF Bases
<1>2. PICK a \in Nat \ {0} : a = Power(b, i)
  BY <1>1, PowerType
<1>3. Power(b, i + 1) = b * a
  BY <1>2, PowerSteps
<1>4. (n \div a) \div b = n \div (b * a) /\ n \div a \in Nat
  BY <1>1, DividedTwice, Division
<1>. QED
  BY <1>2, <1>3, <1>4

\* What is not yet written of a number still has digits: so there is room.
LEMMA DigitFits ==
  ASSUME NEW n \in 0 .. Power(2, LongBits) - 1, NEW b \in Bases, NEW i \in Nat,
         n \div Power(b, i) > 0
  PROVE  i < BufSize
<1>. SUFFICES ASSUME BufSize <= i PROVE FALSE
  BY WidthAssumption
<1>1. b \in Nat \ {0} /\ 10 <= b /\ BufSize \in Nat /\ LongBits \in Nat
  BY WidthAssumption DEF Bases
<1>2. PICK x \in Nat : x = Power(2, LongBits)
  BY <1>1, PowerType
<1>3. PICK y \in Nat : y = Power(10, BufSize)
  BY <1>1, PowerType
<1>4. PICK z \in Nat : z = Power(b, BufSize)
  BY <1>1, PowerType
<1>5. PICK a \in Nat \ {0} : a = Power(b, i)
  BY <1>1, PowerType
<1>6. x <= y
  BY <1>2, <1>3, WidthAssumption
<1>7. y <= z
  BY <1>1, <1>3, <1>4, PowerOfMore
<1>8. z <= a
  BY <1>1, <1>4, <1>5, PowerGrows
<1>9. n \in Nat /\ n < a
  BY <1>2, <1>6, <1>7, <1>8
<1>10. n = 0 * a + n /\ n \in 0 .. a - 1
  BY <1>9
<1>11. n \div a = 0
  BY <1>10, Quotient
<1>. QED
  BY <1>5, <1>11

\* A number has one length.
LEMMA NumeralIs ==
  ASSUME NEW n \in Nat, NEW b \in Bases, NEW up, NEW len \in 1 .. BufSize,
         n < Power(b, len), len = 1 \/ n >= Power(b, len - 1)
  PROVE  Numeral(n, b, up) = [k \in 1 .. len |-> Digit((n \div Power(b, len - k)) % b, up)]
<1>. DEFINE Fits(k) == n < Power(b, k) /\ (k = 1 \/ n >= Power(b, k - 1))
            l == CHOOSE k \in 1 .. BufSize : Fits(k)
<1>1. BufSize \in Nat /\ b \in Nat \ {0}
  BY WidthAssumption DEF Bases
<1>2. ASSUME NEW j \in 1 .. BufSize, NEW k \in 1 .. BufSize, Fits(j), Fits(k)
      PROVE  ~(j < k)
  <2>. SUFFICES ASSUME j < k PROVE FALSE
    OBVIOUS
  <2>1. j \in Nat /\ k - 1 \in Nat /\ j <= k - 1 /\ k # 1
    BY <1>1
  <2>2. PICK x \in Nat, y \in Nat : x = Power(b, j) /\ y = Power(b, k - 1)
    BY <1>1, <2>1, PowerType
  <2>3. x <= y
    BY <1>1, <2>1, <2>2, PowerGrows
  <2>4. n < x
    BY <1>2, <2>2
  <2>5. n >= y
    BY <1>2, <2>1, <2>2
  <2>. QED
    BY <2>2, <2>3, <2>4, <2>5
<1>3. Fits(len)
  OBVIOUS
<1>4. l \in 1 .. BufSize /\ Fits(l)
  BY <1>3
<1>5. l = len
  <2>1. ~(l < len) /\ ~(len < l)
    BY <1>2, <1>3, <1>4
  <2>. QED
    BY <1>1, <1>4, <2>1
<1>. HIDE DEF l
<1>6. Numeral(n, b, up) = [k \in 1 .. l |-> Digit((n \div Power(b, l - k)) % b, up)]
  BY DEF Numeral, l
<1>. QED
  BY <1>5, <1>6

\* Every digit is a character.
LEMMA DigitType ==
  ASSUME NEW d \in 0 .. 15, NEW up
  PROVE  Digit(d, up) \in Nat
<1>1. Code("0") = 48 /\ Code("A") = 65 /\ Code("a") = 97
  BY DEF Code
<1>. QED
  BY <1>1 DEF Digit

\* The buffer holds the last digits of n, the lowest first.
Lowest(s, n, b, up) == \A i \in 1 .. Len(s) : s[i] = Digit((n \div Power(b, i - 1)) % b, up)
Reversed(s) == [k \in 1 .. Len(s) |-> s[Len(s) + 1 - k]]

\* One pass of the loop of print_unsigned adds the next digit from below.
LEMMA OneDigitMore ==
  ASSUME NEW n \in Nat, NEW b \in Bases, NEW up, NEW s \in Seq(Nat), Lowest(s, n, b, up),
         NEW w, w = n \div Power(b, Len(s))
  PROVE  LET t == Append(s, Digit(w % b, up))
         IN /\ t \in Seq(Nat) /\ Len(t) = Len(s) + 1
            /\ Lowest(t, n, b, up)
            /\ w \div b = n \div Power(b, Len(t))
<1>. DEFINE d == Digit(w % b, up)
            t == Append(s, d)
            l == Len(s)
<1>1. l \in Nat /\ b \in Nat \ {0} /\ b <= 16
  BY LenProperties DEF Bases
<1>2. w \in Nat /\ w \div b = n \div Power(b, l + 1)
  BY <1>1, NextPower
<1>3. d \in Nat
  <2>1. PICK r \in 0 .. b - 1 : r = w % b
    BY <1>1, <1>2, Division
  <2>2. r \in 0 .. 15
    BY <1>1
  <2>. QED
    BY <2>1, <2>2, DigitType
<1>. HIDE DEF d
<1>4. /\ t \in Seq(Nat) /\ Len(t) = l + 1
      /\ \A i \in 1 .. l : t[i] = s[i]
      /\ t[l + 1] = d
  BY <1>3, AppendProperties
<1>5. ASSUME NEW i \in 1 .. Len(t) PROVE t[i] = Digit((n \div Power(b, i - 1)) % b, up)
  <2>1. CASE i = l + 1
    <3>1. i - 1 = l
      BY <1>1, <2>1
    <3>. QED
      BY <1>4, <2>1, <3>1 DEF d
  <2>2. CASE i # l + 1
    <3>1. i \in 1 .. l
      BY <1>1, <1>4, <2>2
    <3>. QED
      BY <1>4, <3>1 DEF Lowest
  <2>. QED
    BY <2>1, <2>2
<1>. QED
  BY <1>2, <1>4, <1>5 DEF d, Lowest

\* When nothing is left of the number the buffer is its numeral, backwards.
LEMMA AllDigits ==
  ASSUME NEW n \in 0 .. Power(2, LongBits) - 1, NEW b \in Bases, NEW up, NEW s \in Seq(Nat),
         Lowest(s, n, b, up), NEW l \in Nat, Len(s) = l + 1,
         n \div Power(b, l) > 0, n \div Power(b, l + 1) = 0
  PROVE  Reversed(s) = Numeral(n, b, up)
<1>1. b \in Nat \ {0} /\ LongBits \in Nat /\ BufSize \in Nat
  BY WidthAssumption DEF Bases
<1>2. n \in Nat
  BY <1>1, PowerType
<1>3. l < BufSize
  BY DigitFits
<1>4. PICK x \in Nat \ {0}, y \in Nat \ {0} : x = Power(b, l) /\ y = Power(b, l + 1)
  <2>1. l + 1 \in Nat
    OBVIOUS
  <2>. QED
    BY <1>1, <2>1, PowerType
<1>5. n >= x
  <2>. SUFFICES ASSUME n < x PROVE FALSE
    BY <1>2
  <2>1. n = 0 * x + n /\ n \in 0 .. x - 1
    BY <1>2
  <2>2. n \div x = 0
    <3>1. (0 * x + n) \div x = 0
      BY <2>1, Quotient
    <3>. QED
      BY <2>1, <3>1
  <2>. QED
    BY <1>4, <2>2
<1>6. n < y
  <2>1. PICK q \in Nat, r \in 0 .. y - 1 : q = n \div y /\ n = q * y + r
    BY <1>2, Division
  <2>2. q = 0
    BY <1>4, <2>1
  <2>. QED
    BY <2>1, <2>2
<1>7. l + 1 \in 1 .. BufSize /\ (l + 1) - 1 = l
  BY <1>1, <1>3
<1>8. Numeral(n, b, up) = [k \in 1 .. l + 1 |-> Digit((n \div Power(b, (l + 1) - k)) % b, up)]
  BY <1>2, <1>4, <1>5, <1>6, <1>7, NumeralIs
<1>9. ASSUME NEW k \in 1 .. l + 1
      PROVE  s[(l + 1) + 1 - k] = Digit((n \div Power(b, (l + 1) - k)) % b, up)
  <2>1. (l + 1) + 1 - k \in 1 .. l + 1 /\ ((l + 1) + 1 - k) - 1 = (l + 1) - k
    OBVIOUS
  <2>. QED
    BY <2>1 DEF Lowest
<1>10. Reversed(s) = [k \in 1 .. l + 1 |-> s[(l + 1) + 1 - k]]
  BY DEF Reversed
<1>. QED
  BY <1>8, <1>9, <1>10

\* The special case of print_unsigned.
LEMMA ZeroDigits ==
  ASSUME NEW b \in Bases, NEW up
  PROVE  Numeral(0, b, up) = <<Code("0")>>
<1>1. 1 \in 1 .. BufSize
  <2>1. BufSize # 0
    <3>. SUFFICES ASSUME BufSize = 0 PROVE FALSE
      OBVIOUS
    <3>1. Power(10, 0) = 1
      BY PowerSteps
    <3>2. LongBits \in Nat \ {0} /\ 1 <= LongBits
      BY WidthAssumption
    <3>3. Power(2, 1) <= Power(2, LongBits)
      BY <3>2, PowerGrows
    <3>4. Power(2, 0) = 1 /\ Power(2, 0 + 1) = 2 * Power(2, 0)
      BY PowerSteps
    <3>5. 2 <= Power(2, LongBits) /\ Power(2, LongBits) \in Nat
      BY <3>2, <3>3, <3>4, PowerType
    <3>. QED
      BY <3>1, <3>5, WidthAssumption
  <2>. QED
    BY <2>1, WidthAssumption
<1>2. Power(b, 0) = 1 /\ Power(b, 0 + 1) = b * Power(b, 0) /\ b \in Nat /\ b > 0
  BY PowerSteps DEF Bases
<1>3. Power(b, 1) = b
  BY <1>2
<1>4. Numeral(0, b, up) = [k \in 1 .. 1 |-> Digit((0 \div Power(b, 1 - k)) % b, up)]
  <2>1. 0 \in Nat /\ 0 < Power(b, 1)
    BY <1>2, <1>3
  <2>. QED
    BY <1>1, <2>1, NumeralIs
<1>5. ASSUME NEW k \in 1 .. 1 PROVE Digit((0 \div Power(b, 1 - k)) % b, up) = Code("0")
  <2>1. 1 - k = 0
    OBVIOUS
  <2>2. 0 \div 1 = 0 /\ 0 % b = 0
    BY DEF Bases
  <2>3. Code("0") + 0 = Code("0")
    BY DEF Code
  <2>4. Digit(0, up) = Code("0")
    BY <2>3 DEF Digit
  <2>. QED
    BY <1>2, <2>1, <2>2, <2>4
<1>6. Numeral(0, b, up) = [k \in 1 .. 1 |-> Code("0")]
  BY <1>4, <1>5
<1>7. PICK z : z = Code("0")
  OBVIOUS
<1>8. [k \in 1 .. 1 |-> z] = <<z>>
  OBVIOUS
<1>. QED
  BY <1>6, <1>7, <1>8

-----------------------------------------------------------------------------
(* The characters of a format and the slots of its arguments.              *)

\* The codes of the characters that printf looks for.
LEMMA Codes ==
  /\ Code("%") = 37 /\ Code("-") = 45 /\ Code("0") = 48 /\ Code("X") = 88 /\ Code("c") = 99
  /\ Code("d") = 100 /\ Code("i") = 105 /\ Code("l") = 108 /\ Code("p") = 112 /\ Code("q") = 113
  /\ Code("s") = 115 /\ Code("u") = 117 /\ Code("x") = 120
BY DEF Code

Convs == Numbers \cup {"s", "c", "%", "q"}

PiecesOK(ps) ==
  /\ Len(ps) \in Nat /\ DOMAIN ps = 1 .. Len(ps)
  /\ \A k \in 1 .. Len(ps) : PieceOK(ps[k]) /\ (ps[k].conv = "end" => k = Len(ps))

\* The letter of a conversion is one character, no l, and no NUL.
LEMMA LetterCode ==
  ASSUME NEW c \in Convs
  PROVE  Code(c) \in Nat /\ Code(c) # Code("l") /\ Code(c) # NUL
BY Codes DEF Convs, Numbers, NUL

\* A piece is a text without % and NUL, a conversion, or a % at the end.
LEMMA PieceKinds ==
  ASSUME NEW pc, PieceOK(pc)
  PROVE  /\ pc.long \in Nat
         /\ \/ /\ pc.conv = "text" /\ pc.val \in Seq(Nat) /\ pc.val # NoText
               /\ \A i \in 1 .. Len(pc.val) : pc.val[i] \notin {Code("%"), NUL}
            \/ pc.conv \in Convs
            \/ pc.conv = "end"
<1>1. CASE pc.conv = "text" /\ pc.val \in Seq(Bytes \ {Code("%")}) /\ pc.val # NoText
  <2>1. pc.val \in Seq(Nat)
    <3>1. Bytes \ {Code("%")} \subseteq Nat
      BY DEF Bytes
    <3>. QED
      BY <1>1, <3>1, SeqMonotonic
  <2>2. \A i \in 1 .. Len(pc.val) : pc.val[i] \in Bytes \ {Code("%")}
    BY <1>1, ElementOfSeq
  <2>3. NUL \notin Bytes
    BY DEF Bytes, NUL
  <2>. QED
    BY <1>1, <2>1, <2>2, <2>3 DEF PieceOK
<1>2. CASE pc.conv # "text"
  BY <1>2 DEF PieceOK, Convs, Numbers
<1>3. pc.conv # "text" \/ (pc.val \in Seq(Bytes \ {Code("%")}) /\ pc.val # NoText)
  BY DEF PieceOK
<1>. QED
  BY <1>1, <1>2, <1>3

\* How a conversion is spelt: %, its l's and its letter.
LEMMA SpeltIs ==
  ASSUME NEW pc, PieceOK(pc), pc.conv # "text"
  PROVE  /\ Spelt(pc) \in Seq(Nat)
         /\ Len(Spelt(pc)) = pc.long + (IF pc.conv = "end" THEN 1 ELSE 2)
         /\ Spelt(pc)[1] = Code("%")
         /\ \A j \in 1 .. pc.long : Spelt(pc)[j + 1] = Code("l")
         /\ pc.conv # "end" => Spelt(pc)[pc.long + 2] = Code(pc.conv)
<1>. DEFINE n == pc.long
            ls == [k \in 1 .. n |-> Code("l")]
            head == <<Code("%")>>
            tail == IF pc.conv = "end" THEN NoText ELSE <<Code(pc.conv)>>
            t == IF pc.conv = "end" THEN 0 ELSE 1
<1>1. n \in Nat /\ (pc.conv \in Convs \/ pc.conv = "end")
  BY PieceKinds
<1>2. ls \in Seq(Nat) /\ Len(ls) = n /\ \A j \in 1 .. n : ls[j] = Code("l")
  <2>1. Code("l") \in Nat
    BY Codes
  <2>2. ls \in [1 .. n -> Nat]
    BY <2>1
  <2>3. ls \in Seq(Nat)
    BY <1>1, <2>2, SeqDef
  <2>. QED
    BY <1>1, <2>3, LenProperties
<1>3. head \in Seq(Nat) /\ Len(head) = 1 /\ head[1] = Code("%")
  BY Codes
<1>4. tail \in Seq(Nat) /\ Len(tail) = t /\ (pc.conv # "end" => tail[1] = Code(pc.conv))
  BY <1>1, LetterCode DEF NoText
<1>5. Spelt(pc) = (head \o ls) \o tail
  BY DEF Spelt
<1>. HIDE DEF n, ls, head, tail
<1>6. /\ head \o ls \in Seq(Nat) /\ Len(head \o ls) = 1 + n
      /\ \A i \in 1 .. 1 + n : (head \o ls)[i] = IF i <= 1 THEN head[i] ELSE ls[i - 1]
  <2>1. /\ head \o ls \in Seq(Nat) /\ Len(head \o ls) = Len(head) + Len(ls)
        /\ \A i \in 1 .. Len(head) + Len(ls) :
             (head \o ls)[i] = IF i <= Len(head) THEN head[i] ELSE ls[i - Len(head)]
    BY <1>2, <1>3, ConcatProperties
  <2>. QED
    BY <1>2, <1>3, <2>1
<1>7. t \in 0 .. 1 /\ (pc.conv # "end" => t = 1)
  OBVIOUS
<1>. DEFINE a == head \o ls
<1>. HIDE DEF t
<1>8. /\ a \o tail \in Seq(Nat) /\ Len(a \o tail) = (1 + n) + t
      /\ \A i \in 1 .. (1 + n) + t : (a \o tail)[i] = IF i <= 1 + n THEN a[i] ELSE tail[i - (1 + n)]
  BY <1>4, <1>6, ConcatProperties
<1>9. (a \o tail)[1] = Code("%")
  <2>1. 1 \in 1 .. 1 + n /\ 1 \in 1 .. (1 + n) + t /\ 1 <= 1 + n
    BY <1>1, <1>7
  <2>2. a[1] = head[1]
    BY <1>6, <2>1
  <2>. QED
    BY <1>3, <1>8, <2>1, <2>2
<1>10. ASSUME NEW j \in 1 .. n PROVE (a \o tail)[j + 1] = Code("l")
  <2>1. j + 1 \in 1 .. 1 + n /\ j + 1 \in 1 .. (1 + n) + t /\ j + 1 <= 1 + n /\ ~(j + 1 <= 1) /\ (j + 1) - 1 = j
    BY <1>1, <1>7
  <2>2. a[j + 1] = ls[j]
    BY <1>6, <2>1
  <2>. QED
    BY <1>2, <1>8, <2>1, <2>2
<1>11. ASSUME pc.conv # "end" PROVE (a \o tail)[n + 2] = Code(pc.conv)
  <2>1. n + 2 \in 1 .. (1 + n) + t /\ ~(n + 2 <= 1 + n) /\ (n + 2) - (1 + n) = 1
    BY <1>1, <1>7, <1>11
  <2>. QED
    BY <1>4, <1>8, <1>11, <2>1
<1>12. (1 + n) + t = n + (IF pc.conv = "end" THEN 1 ELSE 2)
  BY <1>1 DEF n, t
<1>. QED
  BY <1>5, <1>8, <1>9, <1>10, <1>11, <1>12 DEF a, n

Spellings(ps) == [k \in 1 .. Len(ps) |-> Spelt(ps[k])]
FormatOf(ps) == Append(FlattenSeq(Spellings(ps)), NUL)
\* Where the kth piece starts.
Place(ps, k) == Len(Flat(Spellings(ps), k - 1)) + 1

\* A piece is spelt with at least one character.
LEMMA SpellingType ==
  ASSUME NEW ps, PiecesOK(ps), NEW k \in 1 .. Len(ps)
  PROVE  /\ Spellings(ps)[k] = Spelt(ps[k]) /\ Spellings(ps)[k] \in Seq(Nat)
         /\ Len(Spelt(ps[k])) \in Nat \ {0}
<1>1. PieceOK(ps[k])
  BY DEF PiecesOK
<1>2. Spelt(ps[k]) \in Seq(Nat) /\ Spelt(ps[k]) # <<>>
  <2>1. CASE ps[k].conv = "text"
    BY <1>1, <2>1, PieceKinds DEF Spelt, Convs, Numbers, NoText
  <2>2. CASE ps[k].conv # "text"
    <3>1. Spelt(ps[k]) \in Seq(Nat) /\ Len(Spelt(ps[k])) # 0
      BY <1>1, <2>2, SpeltIs, PieceKinds
    <3>. QED
      BY <3>1
  <2>. QED
    BY <2>1, <2>2
<1>3. Len(Spelt(ps[k])) \in Nat \ {0}
  BY <1>2, EmptySeq
<1>. QED
  BY <1>2, <1>3 DEF Spellings

\* Every piece stands where the ones before it end, and NUL after the last.
LEMMA FormatShape ==
  ASSUME NEW ps, PiecesOK(ps)
  PROVE  /\ \A k \in 1 .. Len(ps) + 1 : Place(ps, k) \in Nat \ {0}
         /\ Place(ps, 1) = 1
         /\ Len(FormatOf(ps)) = Place(ps, Len(ps) + 1)
         /\ FormatOf(ps)[Place(ps, Len(ps) + 1)] = NUL
         /\ \A k \in 1 .. Len(ps) :
              /\ Place(ps, k + 1) = Place(ps, k) + Len(Spelt(ps[k]))
              /\ \A i \in 1 .. Len(Spelt(ps[k])) :
                   FormatOf(ps)[Place(ps, k) + i - 1] = Spelt(ps[k])[i]
<1>. DEFINE n == Len(ps)
            P == Spellings(ps)
            f(k) == Flat(P, k)
            F == FormatOf(ps)
<1>1. n \in Nat
  BY DEF PiecesOK
<1>2. \A k \in 1 .. n : P[k] = Spelt(ps[k]) /\ P[k] \in Seq(Nat)
  BY SpellingType
<1>3. \A k \in 0 .. n : f(k) \in Seq(Nat) /\ Len(f(k)) \in Nat
  <2>1. \A k \in 0 .. n : f(k) \in Seq(Nat)
    BY <1>1, <1>2, FlatTypes
  <2>. QED
    BY <2>1, LenProperties
<1>4. \A k \in 1 .. n + 1 : Place(ps, k) = Len(f(k - 1)) + 1 /\ k - 1 \in 0 .. n
  BY <1>1 DEF Place
<1>5. \A k \in 1 .. n + 1 : Place(ps, k) \in Nat \ {0}
  <2>. TAKE k \in 1 .. n + 1
  <2>. DEFINE l == Len(f(k - 1))
  <2>1. l \in Nat /\ Place(ps, k) = l + 1
    BY <1>3, <1>4
  <2>. HIDE DEF l
  <2>. QED
    BY <2>1
<1>6. Place(ps, 1) = 1
  <2>1. 1 \in 1 .. n + 1 /\ 1 - 1 = 0
    BY <1>1
  <2>2. f(0) = <<>>
    BY FlatNone
  <2>. QED
    BY <1>4, <2>1, <2>2
<1>7. F = Append(f(n), NUL)
  <2>1. [k \in 1 .. n |-> P[k]] = P
    BY DEF Spellings
  <2>. QED
    BY <2>1 DEF FormatOf, Flat
<1>8. /\ Len(F) = Len(f(n)) + 1 /\ F[Len(f(n)) + 1] = NUL
      /\ \A i \in 1 .. Len(f(n)) : F[i] = f(n)[i]
  <2>1. f(n) \in Seq(Nat) /\ NUL \in Nat
    BY <1>1, <1>3 DEF NUL
  <2>. HIDE DEF f, F
  <2>. QED
    BY <1>7, <2>1, AppendProperties
<1>9. Place(ps, n + 1) = Len(f(n)) + 1
  <2>1. n + 1 \in 1 .. n + 1 /\ (n + 1) - 1 = n
    BY <1>1
  <2>. QED
    BY <1>4, <2>1
<1>10. ASSUME NEW k \in 1 .. n
       PROVE  /\ Place(ps, k + 1) = Place(ps, k) + Len(Spelt(ps[k]))
              /\ \A i \in 1 .. Len(Spelt(ps[k])) : F[Place(ps, k) + i - 1] = Spelt(ps[k])[i]
  <2>1. k \in Nat /\ k \in 1 .. n + 1 /\ k + 1 \in 1 .. n + 1 /\ (k + 1) - 1 = k /\ k \in 0 .. n
        /\ k - 1 \in Nat /\ k - 1 \in 0 .. n /\ (k - 1) + 1 = k
    BY <1>1
  <2>2. f(k) = f(k - 1) \o P[k]
    <3>1. \A j \in 1 .. (k - 1) + 1 : P[j] \in Seq(Nat)
      BY <1>2, <2>1
    <3>2. f((k - 1) + 1) = f(k - 1) \o P[(k - 1) + 1]
      BY <2>1, <3>1, FlatOneMore
    <3>. QED
      BY <2>1, <3>2
  <2>3. Place(ps, k) = Len(f(k - 1)) + 1 /\ Place(ps, k + 1) = Len(f(k)) + 1
    BY <1>4, <2>1
  <2>4. f(k - 1) \in Seq(Nat) /\ P[k] \in Seq(Nat) /\ P[k] = Spelt(ps[k])
    BY <1>2, <1>3, <2>1
  <2>. DEFINE a == f(k - 1)
              c == P[k]
              l == Len(a)
  <2>5. \A i \in 1 .. Len(c) : l + i \in 1 .. Len(f(n)) /\ f(n)[l + i] = c[i]
    <3>. HIDE DEF P, n
    <3>1. \A j \in 1 .. n : P[j] \in Seq(Nat)
      BY <1>2
    <3>2. \A m \in 1 .. n : \A i \in 1 .. Len(P[m]) :
            /\ Len(Flat(P, m - 1)) + i \in 1 .. Len(Flat(P, n))
            /\ Flat(P, n)[Len(Flat(P, m - 1)) + i] = P[m][i]
      BY <1>1, <3>1, FlatPlaces
    <3>. QED
      BY <3>2
  <2>. HIDE DEF f, P, F
  <2>6. Len(f(k)) = l + Len(c) /\ l \in Nat /\ Len(c) \in Nat
    BY <2>2, <2>4, ConcatProperties, LenProperties
  <2>. HIDE DEF a, c, l
  <2>7. Place(ps, k + 1) = Place(ps, k) + Len(c)
    BY <2>3, <2>6 DEF l, a
  <2>8. ASSUME NEW i \in 1 .. Len(c) PROVE F[Place(ps, k) + i - 1] = c[i]
    <3>1. Place(ps, k) = l + 1
      BY <2>3 DEF l, a
    <3>2. Place(ps, k) + i - 1 = l + i
      BY <2>6, <3>1
    <3>. QED
      BY <1>8, <2>5, <3>2
  <2>. QED
    BY <2>4, <2>7, <2>8 DEF c
<1>. QED
  BY <1>5, <1>6, <1>8, <1>9, <1>10

\* Behind a % the loop over the l's stops at the letter of the conversion.
LetterAt(F, at_) ==
  CHOOSE q \in at_ + 1 .. Len(F) :
    F[q] # Code("l") /\ \A r \in at_ + 1 .. q - 1 : F[r] = Code("l")

\* Behind the % of a piece and its l stands the letter of its conversion.
LEMMA LetterIs ==
  ASSUME NEW ps, PiecesOK(ps), NEW k \in 1 .. Len(ps), ps[k].conv # "text"
  PROVE  LET F == FormatOf(ps)
             q == Place(ps, k) + ps[k].long + 1
         IN /\ F[Place(ps, k)] = Code("%")
            /\ LetterAt(F, Place(ps, k)) = q
            /\ F[q] = IF ps[k].conv = "end" THEN NUL ELSE Code(ps[k].conv)
            /\ ps[k].conv # "end" => q + 1 = Place(ps, k + 1)
<1>. DEFINE n == Len(ps)
            F == FormatOf(ps)
            pc == ps[k]
            x == Place(ps, k)
            l == pc.long
            q == x + l + 1
            len == Len(Spelt(pc))
<1>1. n \in Nat /\ PieceOK(pc) /\ (pc.conv = "end" => k = n)
  BY DEF PiecesOK
<1>2. l \in Nat /\ (pc.conv \in Convs \/ pc.conv = "end")
  BY <1>1, PieceKinds
<1>3. x \in Nat \ {0} /\ Place(ps, k + 1) \in Nat \ {0} /\ Place(ps, n + 1) \in Nat \ {0}
  <2>1. k \in 1 .. n + 1 /\ k + 1 \in 1 .. n + 1 /\ n + 1 \in 1 .. n + 1
    BY <1>1
  <2>. QED
    BY <2>1, FormatShape
<1>4. /\ len = l + (IF pc.conv = "end" THEN 1 ELSE 2)
      /\ Spelt(pc)[1] = Code("%")
      /\ \A j \in 1 .. l : Spelt(pc)[j + 1] = Code("l")
      /\ pc.conv # "end" => Spelt(pc)[l + 2] = Code(pc.conv)
  BY <1>1, SpeltIs
<1>5. Place(ps, k + 1) = x + len /\ \A i \in 1 .. len : F[x + i - 1] = Spelt(pc)[i]
  BY FormatShape
<1>6. /\ Len(F) = Place(ps, n + 1) /\ F[Place(ps, n + 1)] = NUL
  BY FormatShape
<1>. HIDE DEF F, x, l, len, n
<1>7. F[x] = Code("%")
  <2>1. 1 \in 1 .. len /\ x + 1 - 1 = x
    BY <1>2, <1>3, <1>4
  <2>. QED
    BY <1>4, <1>5, <2>1
<1>8. \A r \in x + 1 .. q - 1 : F[r] = Code("l")
  <2>. TAKE r \in x + 1 .. q - 1
  <2>1. PICK j \in 1 .. l : r = x + j
    <3>1. r - x \in 1 .. l /\ r = x + (r - x)
      BY <1>2, <1>3
    <3>. QED
      BY <3>1
  <2>2. j + 1 \in 1 .. len /\ x + (j + 1) - 1 = r
    BY <1>2, <1>3, <1>4, <2>1
  <2>. QED
    BY <1>4, <1>5, <2>2
<1>9. /\ F[q] = IF pc.conv = "end" THEN NUL ELSE Code(pc.conv)
      /\ pc.conv = "end" => q = Place(ps, n + 1)
      /\ pc.conv # "end" => q + 1 = Place(ps, k + 1)
  <2>1. CASE pc.conv = "end"
    <3>1. q = Place(ps, n + 1)
      BY <1>1, <1>2, <1>3, <1>4, <1>5, <2>1
    <3>. QED
      BY <1>6, <2>1, <3>1
  <2>2. CASE pc.conv # "end"
    <3>0. len = l + 2
      BY <1>4, <2>2
    <3>1. l + 2 \in 1 .. len /\ x + (l + 2) - 1 = q /\ q + 1 = x + len
      BY <1>2, <1>3, <3>0
    <3>2. F[q] = Code(pc.conv)
      BY <1>4, <1>5, <2>2, <3>1
    <3>. QED
      BY <1>5, <2>2, <3>1, <3>2
  <2>. QED
    BY <2>1, <2>2
<1>10. F[q] # Code("l")
  <2>1. NUL # Code("l")
    BY Codes DEF NUL
  <2>. QED
    BY <1>2, <1>9, <2>1, LetterCode
<1>11. q \in x + 1 .. Len(F)
  <2>1. q \in Nat /\ q >= x + 1
    BY <1>2, <1>3
  <2>2. CASE pc.conv = "end"
    BY <1>3, <1>6, <1>9, <2>1, <2>2
  <2>3. CASE pc.conv # "end"
    <3>1. Place(ps, k + 1) <= Place(ps, n + 1)
      <4>. DEFINE T == {d \in 0 .. n - k : Place(ps, k + 1) <= Place(ps, (k + d) + 1)}
      <4>1. n - k \in Nat /\ k \in Nat
        BY <1>1 DEF n
      <4>2. \A m \in 1 .. n : Place(ps, m + 1) = Place(ps, m) + Len(Spelt(ps[m]))
        BY FormatShape DEF n
      <4>3. \A m \in 1 .. n + 1 : Place(ps, m) \in Nat
        BY FormatShape DEF n
      <4>4. 0 \in T
        BY <1>3, <4>1
      <4>5. ASSUME NEW d \in 0 .. (n - k) - 1, d \in T PROVE d + 1 \in T
        <5>1. /\ (k + d) + 1 \in 1 .. n /\ (k + d) + 1 \in 1 .. n + 1 /\ d + 1 \in 0 .. n - k
              /\ ((k + d) + 1) + 1 \in 1 .. n + 1 /\ (k + (d + 1)) + 1 = ((k + d) + 1) + 1
          BY <1>1, <4>1 DEF n
        <5>2. PICK m \in 1 .. n : m = (k + d) + 1
          BY <5>1
        <5>3. Place(ps, m + 1) = Place(ps, m) + Len(Spelt(ps[m])) /\ Len(Spelt(ps[m])) \in Nat
          BY <4>2, SpellingType DEF n
        <5>4. Place(ps, m) \in Nat /\ Place(ps, k + 1) <= Place(ps, m)
          BY <4>3, <4>5, <5>1, <5>2
        <5>5. Place(ps, k + 1) <= Place(ps, m + 1)
          BY <1>3, <5>3, <5>4
        <5>. QED
          BY <5>1, <5>2, <5>5
      <4>. HIDE DEF T
      <4>6. n - k \in T
        <5>1. \A d \in 0 .. n - k : d \in T
          BY <4>1, <4>4, <4>5, Reaches
        <5>. QED
          BY <4>1, <5>1
      <4>7. k + (n - k) = n
        BY <1>1, <4>1
      <4>. QED
        BY <4>6, <4>7 DEF T
    <3>2. q + 1 <= Len(F) /\ Len(F) \in Nat
      BY <1>3, <1>6, <1>9, <2>3, <3>1
    <3>. QED
      BY <2>1, <3>2
  <2>. QED
    BY <2>2, <2>3
<1>12. LetterAt(F, x) = q
  <2>. DEFINE IsLetter(y) == F[y] # Code("l") /\ \A r \in x + 1 .. y - 1 : F[r] = Code("l")
              y0 == CHOOSE y \in x + 1 .. Len(F) : IsLetter(y)
  <2>1. IsLetter(q)
    BY <1>8, <1>10
  <2>2. y0 \in x + 1 .. Len(F) /\ IsLetter(y0)
    BY <1>11, <2>1
  <2>. HIDE DEF y0
  <2>3. ~(y0 < q)
    <3>. SUFFICES ASSUME y0 < q PROVE FALSE
      OBVIOUS
    <3>1. y0 \in x + 1 .. q - 1
      BY <1>2, <1>3, <2>2
    <3>. QED
      BY <1>8, <2>2, <3>1
  <2>4. ~(q < y0)
    <3>. SUFFICES ASSUME q < y0 PROVE FALSE
      OBVIOUS
    <3>1. q \in x + 1 .. y0 - 1
      BY <1>2, <1>3, <2>2
    <3>. QED
      BY <1>10, <2>2, <3>1
  <2>5. y0 = q
    <3>1. y0 \in Int /\ q \in Int
      BY <1>2, <1>3, <2>2
    <3>. QED
      BY <2>3, <2>4, <3>1
  <2>6. LetterAt(F, x) = y0
    BY DEF LetterAt, y0
  <2>. QED
    BY <2>5, <2>6
<1>. QED
  BY <1>7, <1>9, <1>12 DEF F, x, l

Passings(ps) == [k \in 1 .. Len(ps) |-> Passed(ps[k])]
SlotsOf(ps) == FlattenSeq(Passings(ps))
\* Which slot is the next when the kth piece is printed.
ArgPlace(ps, k) == Len(Flat(Passings(ps), k - 1)) + 1

\* Every conversion that takes an argument finds its own.
LEMMA SlotIs ==
  ASSUME NEW ps, PiecesOK(ps)
  PROVE  /\ ArgPlace(ps, 1) = 1
         /\ \A k \in 1 .. Len(ps) + 1 : ArgPlace(ps, k) \in Nat
         /\ \A k \in 1 .. Len(ps) :
              IF TakesSlot(ps[k])
              THEN /\ SlotsOf(ps)[ArgPlace(ps, k)] = Slot(ps[k])
                   /\ ArgPlace(ps, k + 1) = ArgPlace(ps, k) + 1
              ELSE ArgPlace(ps, k + 1) = ArgPlace(ps, k)
<1>. DEFINE n == Len(ps)
            P == Passings(ps)
            S == {Slot(ps[k]) : k \in 1 .. n}
            f(k) == Flat(P, k)
<1>1. n \in Nat
  BY DEF PiecesOK
<1>2. \A k \in 1 .. n : P[k] = Passed(ps[k])
  BY DEF Passings
<1>3. \A k \in 1 .. n : P[k] \in Seq(S)
  <2>. TAKE k \in 1 .. n
  <2>1. Slot(ps[k]) \in S
    OBVIOUS
  <2>. HIDE DEF S
  <2>2. <<Slot(ps[k])>> \in Seq(S) /\ <<>> \in Seq(S)
    BY <2>1
  <2>. QED
    BY <1>2, <2>2 DEF Passed
<1>. HIDE DEF S
<1>4. \A k \in 0 .. n : f(k) \in Seq(S) /\ Len(f(k)) \in Nat
  <2>1. \A k \in 0 .. n : f(k) \in Seq(S)
    BY <1>1, <1>3, FlatTypes
  <2>. QED
    BY <2>1, LenProperties
<1>5. \A k \in 1 .. n + 1 : ArgPlace(ps, k) = Len(f(k - 1)) + 1 /\ k - 1 \in 0 .. n
  BY <1>1 DEF ArgPlace
<1>6. ArgPlace(ps, 1) = 1
  <2>1. 1 \in 1 .. n + 1 /\ 1 - 1 = 0
    BY <1>1
  <2>2. f(0) = <<>>
    BY FlatNone
  <2>. QED
    BY <1>5, <2>1, <2>2
<1>7. \A k \in 1 .. n + 1 : ArgPlace(ps, k) \in Nat
  <2>. TAKE k \in 1 .. n + 1
  <2>. DEFINE l == Len(f(k - 1))
  <2>1. l \in Nat /\ ArgPlace(ps, k) = l + 1
    BY <1>4, <1>5
  <2>. HIDE DEF l
  <2>. QED
    BY <2>1
<1>8. SlotsOf(ps) = f(n)
  <2>1. [k \in 1 .. n |-> P[k]] = P
    BY DEF Passings
  <2>. QED
    BY <2>1 DEF SlotsOf, Flat
<1>9. \A m \in 1 .. n : \A i \in 1 .. Len(P[m]) : f(n)[Len(f(m - 1)) + i] = P[m][i]
  <2>. HIDE DEF P, n
  <2>1. \A m \in 1 .. n : \A i \in 1 .. Len(P[m]) :
          /\ Len(Flat(P, m - 1)) + i \in 1 .. Len(Flat(P, n))
          /\ Flat(P, n)[Len(Flat(P, m - 1)) + i] = P[m][i]
    BY <1>1, <1>3, FlatPlaces
  <2>. QED
    BY <2>1
<1>10. ASSUME NEW k \in 1 .. n
       PROVE  IF TakesSlot(ps[k])
              THEN /\ SlotsOf(ps)[ArgPlace(ps, k)] = Slot(ps[k])
                   /\ ArgPlace(ps, k + 1) = ArgPlace(ps, k) + 1
              ELSE ArgPlace(ps, k + 1) = ArgPlace(ps, k)
  <2>1. /\ k \in 1 .. n + 1 /\ k + 1 \in 1 .. n + 1 /\ (k + 1) - 1 = k
        /\ k - 1 \in Nat /\ k - 1 \in 0 .. n /\ (k - 1) + 1 = k
    BY <1>1
  <2>2. f(k) = f(k - 1) \o P[k]
    <3>1. \A j \in 1 .. (k - 1) + 1 : P[j] \in Seq(S)
      BY <1>3, <2>1
    <3>2. f((k - 1) + 1) = f(k - 1) \o P[(k - 1) + 1]
      BY <2>1, <3>1, FlatOneMore
    <3>. QED
      BY <2>1, <3>2
  <2>. DEFINE a == f(k - 1)
              c == P[k]
              s == Slot(ps[k])
  <2>3. /\ ArgPlace(ps, k) = Len(a) + 1 /\ ArgPlace(ps, k + 1) = Len(a \o c) + 1
        /\ a \in Seq(S) /\ c \in Seq(S) /\ Len(a) \in Nat
        /\ c = IF TakesSlot(ps[k]) THEN <<s>> ELSE <<>>
    BY <1>2, <1>3, <1>4, <1>5, <2>1, <2>2 DEF Passed
  <2>4. \A i \in 1 .. Len(c) : f(n)[Len(a) + i] = c[i]
    BY <1>9
  <2>. HIDE DEF a, c, s, f
  <2>5. Len(a \o c) = Len(a) + Len(c)
    BY <2>3, ConcatProperties
  <2>6. CASE TakesSlot(ps[k])
    <3>1. c = <<s>>
      BY <2>3, <2>6
    <3>2. Len(c) = 1 /\ c[1] = s /\ 1 \in 1 .. 1
      BY <3>1
    <3>3. f(n)[Len(a) + 1] = s /\ ArgPlace(ps, k + 1) = ArgPlace(ps, k) + 1
      BY <2>3, <2>4, <2>5, <3>2
    <3>. QED
      BY <1>8, <2>3, <2>6, <3>3 DEF s
  <2>7. CASE ~TakesSlot(ps[k])
    <3>1. c = <<>> /\ Len(<<>>) = 0
      BY <2>3, <2>7
    <3>2. ArgPlace(ps, k + 1) = ArgPlace(ps, k)
      BY <2>3, <2>5, <3>1
    <3>. QED
      BY <2>7, <3>2
  <2>. QED
    BY <2>6, <2>7
<1>. QED
  BY <1>6, <1>7, <1>10

-----------------------------------------------------------------------------
(* The number a conversion prints.                                         *)

\* A number and its representation of a width: m is the next power of two.
LEMMA Remainder ==
  ASSUME NEW m \in Nat \ {0}, NEW x \in Int
  PROVE  /\ x \in 0 .. m - 1 => x % m = x
         /\ x \in -m .. -1 => x % m = x + m
         /\ x % m \in 0 .. m - 1
OBVIOUS

\* What an int leaves above it in its slot does not change its value.
LEMMA HighBits ==
  ASSUME NEW m \in Nat \ {0}, NEW x \in 0 .. m - 1, NEW j \in Nat
  PROVE  (x + j * m) % m = x
<1>1. (j * m + x) % m = x
  BY Quotient
<1>2. j * m + x = x + j * m
  OBVIOUS
<1>. QED
  BY <1>1, <1>2

\* The width of a conversion has bits, and twice as many numbers as without one.
LEMMA WidthIs ==
  ASSUME NEW pc
  PROVE  LET w == WidthOf(pc)
         IN /\ w \in Nat \ {0} /\ w - 1 \in Nat
            /\ Power(2, w - 1) \in Nat \ {0} /\ Power(2, w) = 2 * Power(2, w - 1)
            /\ Power(2, w) <= Power(2, LongBits) /\ Power(2, LongBits) \in Nat
<1>1. WidthOf(pc) \in {IntBits, LongBits} /\ LongBits \in Nat
  BY WidthAssumption DEF WidthOf
<1>2. PICK w \in Nat \ {0} : w = WidthOf(pc) /\ w <= LongBits
  BY <1>1, WidthAssumption
<1>3. w - 1 \in Nat /\ (w - 1) + 1 = w
  OBVIOUS
<1>4. Power(2, w - 1) \in Nat \ {0} /\ Power(2, LongBits) \in Nat
  BY <1>1, <1>3, PowerType
<1>5. Power(2, w) = 2 * Power(2, w - 1)
  BY <1>3, PowerSteps
<1>6. Power(2, w) <= Power(2, LongBits)
  BY <1>1, <1>2, PowerGrows
<1>. QED
  BY <1>2, <1>3, <1>4, <1>5, <1>6

\* What is read of the slot is the value modulo the width, whatever the caller
\* left in the rest of the slot.
LEMMA SlotRead ==
  ASSUME NEW pc, PieceOK(pc), pc.conv \in Numbers
  PROVE  /\ pc.val \in Int
         /\ Unsigned(Slot(pc), WidthOf(pc)) = pc.val % Power(2, WidthOf(pc))
<1>. DEFINE m == Power(2, WidthOf(pc))
<1>1. m \in Nat \ {0}
  <2>1. WidthOf(pc) \in Nat
    BY WidthIs
  <2>. QED
    BY <2>1, PowerType
<1>2. pc.val \in Int /\ pc.junk \in Nat
  <2>1. Power(2, WidthOf(pc) - 1) \in Nat /\ Power(2, WidthOf(pc)) \in Nat
    BY <1>1, WidthIs
  <2>2. pc.junk \in Nat
    BY DEF PieceOK
  <2>3. CASE pc.conv \in {"d", "i"}
    <3>1. pc.val \in -Power(2, WidthOf(pc) - 1) .. Power(2, WidthOf(pc) - 1) - 1
      BY <2>3 DEF PieceOK
    <3>. QED
      BY <2>1, <2>2, <3>1
  <2>4. CASE pc.conv \in {"u", "x", "X", "p"}
    <3>1. pc.val \in 0 .. Power(2, WidthOf(pc)) - 1
      BY <2>4 DEF PieceOK
    <3>. QED
      BY <2>1, <2>2, <3>1
  <2>. QED
    BY <2>3, <2>4 DEF Numbers
<1>3. PICK x \in 0 .. m - 1 : x = pc.val % m
  BY <1>1, <1>2, Remainder
<1>4. x % m = x /\ (x + pc.junk * m) % m = x
  <2>1. x \in Int /\ x \in 0 .. m - 1
    BY <1>1
  <2>2. x % m = x
    BY <1>1, <2>1, Remainder
  <2>3. (x + pc.junk * m) % m = x
    BY <1>1, <1>2, <2>1, HighBits
  <2>. QED
    BY <2>2, <2>3
<1>5. CASE pc.long > 0 \/ pc.conv = "p"
  <2>1. Slot(pc) = pc.val % m
    BY <1>5 DEF Slot, WidthOf
  <2>. QED
    BY <1>2, <1>3, <1>4, <2>1 DEF Unsigned
<1>6. CASE ~(pc.long > 0 \/ pc.conv = "p")
  <2>1. Slot(pc) = (pc.val % m) + pc.junk * m
    BY <1>6 DEF Slot, WidthOf
  <2>. QED
    BY <1>2, <1>3, <1>4, <2>1 DEF Unsigned
<1>. QED
  BY <1>5, <1>6

\* print_signed's detour through -(v + 1) makes no difference.
LEMMA SignedRead ==
  ASSUME NEW pc, PieceOK(pc), pc.conv \in {"d", "i"}
  PROVE  LET n == Signed(Slot(pc), WidthOf(pc))
         IN /\ n = pc.val
            /\ Magnitude(n) = IF pc.val < 0 THEN -pc.val ELSE pc.val
            /\ Magnitude(n) \in 0 .. Power(2, LongBits) - 1
<1>. DEFINE w == WidthOf(pc)
<1>1. PICK h \in Nat \ {0}, m \in Nat, b \in Nat :
        /\ h = Power(2, w - 1) /\ m = Power(2, w) /\ b = Power(2, LongBits)
        /\ m = 2 * h /\ m <= b
  BY WidthIs
<1>2. pc.val \in -h .. h - 1
  <2>1. pc.val \in -Power(2, w - 1) .. Power(2, w - 1) - 1
    BY DEF PieceOK
  <2>. QED
    BY <1>1, <2>1
<1>3. Unsigned(Slot(pc), w) = pc.val % m
  BY <1>1, SlotRead DEF Numbers
<1>4. pc.val % m = IF pc.val < 0 THEN pc.val + m ELSE pc.val
  <2>1. m \in Nat \ {0} /\ pc.val \in Int
    BY <1>1, <1>2
  <2>2. CASE pc.val < 0
    <3>1. pc.val \in -m .. -1
      BY <1>1, <1>2, <2>2
    <3>. QED
      BY <2>1, <2>2, <3>1, Remainder
  <2>3. CASE ~(pc.val < 0)
    <3>1. pc.val \in 0 .. m - 1
      BY <1>1, <1>2, <2>3
    <3>. QED
      BY <2>1, <2>3, <3>1, Remainder
  <2>. QED
    BY <2>2, <2>3
<1>. HIDE DEF w
<1>5. Signed(Slot(pc), w) = pc.val
  <2>1. Signed(Slot(pc), w) = IF pc.val % m < h THEN pc.val % m ELSE (pc.val % m) - m
    BY <1>1, <1>3 DEF Signed
  <2>. QED
    BY <1>1, <1>2, <1>4, <2>1
<1>6. Magnitude(pc.val) = IF pc.val < 0 THEN -pc.val ELSE pc.val
  BY <1>2 DEF Magnitude
<1>7. Magnitude(pc.val) \in 0 .. b - 1
  BY <1>1, <1>2, <1>6
<1>. QED
  BY <1>1, <1>5, <1>6, <1>7 DEF w

\* Every number of the width has a numeral that fits in the buffer.
LEMMA NumeralType ==
  ASSUME NEW n \in 0 .. Power(2, LongBits) - 1, NEW b \in Bases, NEW up
  PROVE  Numeral(n, b, up) \in Seq(Nat)
<1>1. BufSize \in Nat /\ LongBits \in Nat /\ b \in Nat \ {0} /\ 10 <= b /\ b <= 16
  BY WidthAssumption DEF Bases
<1>2. PICK x \in Nat, y \in Nat, z \in Nat :
        x = Power(2, LongBits) /\ y = Power(10, BufSize) /\ z = Power(b, BufSize)
  <2>1. Power(2, LongBits) \in Nat /\ Power(10, BufSize) \in Nat
    BY <1>1, PowerType
  <2>2. Power(b, BufSize) \in Nat
    BY <1>1, PowerType
  <2>. QED
    BY <2>1, <2>2
<1>3. x <= y /\ y <= z
  BY <1>1, <1>2, PowerOfMore, WidthAssumption
<1>4. n \in Nat /\ n < Power(b, BufSize)
  BY <1>2, <1>3
<1>. DEFINE S == {k \in 1 .. BufSize : n < Power(b, k)}
<1>5. BufSize \in S
  <2>1. BufSize # 0
    <3>. SUFFICES ASSUME BufSize = 0 PROVE FALSE
      OBVIOUS
    <3>1. y = 1
      BY <1>2, PowerSteps
    <3>2. 1 <= LongBits
      BY WidthAssumption
    <3>3. Power(2, 1) <= Power(2, LongBits)
      BY <1>1, <3>2, PowerGrows
    <3>4. Power(2, 0) = 1 /\ Power(2, 0 + 1) = 2 * Power(2, 0)
      BY PowerSteps
    <3>5. 2 <= x
      BY <1>2, <3>3, <3>4
    <3>. QED
      BY <1>2, <1>3, <3>1, <3>5, WidthAssumption
  <2>. QED
    BY <1>1, <1>4, <2>1
<1>6. PICK l \in S : \A k \in S : l <= k
  <2>1. S \subseteq Nat /\ S # {}
    BY <1>5
  <2>. HIDE DEF S
  <2>. QED
    BY <2>1, LeastOne
<1>7. l \in 1 .. BufSize /\ n < Power(b, l)
  BY <1>6
<1>8. l = 1 \/ n >= Power(b, l - 1)
  <2>. SUFFICES ASSUME l # 1 PROVE n >= Power(b, l - 1)
    OBVIOUS
  <2>1. l - 1 \in 1 .. BufSize /\ l - 1 \in Nat /\ ~(l <= l - 1)
    BY <1>1, <1>7
  <2>2. l - 1 \notin S
    BY <1>6, <2>1
  <2>3. ~(n < Power(b, l - 1))
    BY <2>1, <2>2
  <2>4. Power(b, l - 1) \in Nat
    BY <1>1, <2>1, PowerType
  <2>. QED
    BY <1>4, <2>3, <2>4
<1>9. Numeral(n, b, up) = [k \in 1 .. l |-> Digit((n \div Power(b, l - k)) % b, up)]
  BY <1>4, <1>7, <1>8, NumeralIs
<1>10. ASSUME NEW k \in 1 .. l PROVE Digit((n \div Power(b, l - k)) % b, up) \in Nat
  <2>1. l - k \in Nat
    BY <1>7
  <2>2. PICK w \in Nat : w = n \div Power(b, l - k)
    BY <1>4, <2>1, NextPower
  <2>3. PICK d \in 0 .. b - 1 : d = w % b
    BY <1>1, Division
  <2>4. d \in 0 .. 15
    BY <1>1
  <2>. QED
    BY <2>2, <2>3, <2>4, DigitType
<1>11. Numeral(n, b, up) \in [1 .. l -> Nat] /\ l \in Nat
  BY <1>7, <1>9, <1>10
<1>. QED
  BY <1>11, SeqDef

\* Which arm of printf's switch a letter takes.
LEMMA SignedArm ==
  ASSUME NEW letter \in {Code("d"), Code("i")}, NEW slot
  PROVE  NumberFor(letter, slot) =
           <<IF Signed(slot, Width) < 0 THEN <<Code("-")>> ELSE NoText,
             Magnitude(Signed(slot, Width)), 10, FALSE>>
<1>. DEFINE n == Signed(slot, Width)
            signed == <<IF n < 0 THEN <<Code("-")>> ELSE NoText, Magnitude(n), 10, FALSE>>
            decimal == <<NoText, Unsigned(slot, Width), 10, FALSE>>
            hexadecimal == <<NoText, Unsigned(slot, Width), 16, letter = Code("X")>>
            pointer == <<<<Code("0"), Code("x")>>, Unsigned(slot, LongBits), 16, FALSE>>
<1>1. NumberFor(letter, slot) =
        CASE letter \in {Code("d"), Code("i")} -> signed
          [] letter = Code("u") -> decimal
          [] letter \in {Code("x"), Code("X")} -> hexadecimal
          [] letter = Code("p") -> pointer
  BY DEF NumberFor
<1>. HIDE DEF signed, decimal, hexadecimal, pointer
<1>2. NumberFor(letter, slot) = signed
  BY <1>1, Codes
<1>. QED
  BY <1>2 DEF signed

\* The other arms: u, x and X, and p.
LEMMA NumberForIs ==
  ASSUME NEW letter, NEW slot
  PROVE  /\ letter = Code("u") =>
              NumberFor(letter, slot) = <<NoText, Unsigned(slot, Width), 10, FALSE>>
         /\ letter \in {Code("x"), Code("X")} =>
              NumberFor(letter, slot) =
                <<NoText, Unsigned(slot, Width), 16, letter = Code("X")>>
         /\ letter = Code("p") =>
              NumberFor(letter, slot) =
                <<<<Code("0"), Code("x")>>, Unsigned(slot, LongBits), 16, FALSE>>
<1>. DEFINE n == Signed(slot, Width)
            signed == <<IF n < 0 THEN <<Code("-")>> ELSE NoText, Magnitude(n), 10, FALSE>>
            decimal == <<NoText, Unsigned(slot, Width), 10, FALSE>>
            hexadecimal == <<NoText, Unsigned(slot, Width), 16, letter = Code("X")>>
            pointer == <<<<Code("0"), Code("x")>>, Unsigned(slot, LongBits), 16, FALSE>>
<1>1. NumberFor(letter, slot) =
        CASE letter \in {Code("d"), Code("i")} -> signed
          [] letter = Code("u") -> decimal
          [] letter \in {Code("x"), Code("X")} -> hexadecimal
          [] letter = Code("p") -> pointer
  BY DEF NumberFor
<1>. HIDE DEF signed, decimal, hexadecimal, pointer
<1>2. /\ letter = Code("u") => NumberFor(letter, slot) = decimal
      /\ letter \in {Code("x"), Code("X")} => NumberFor(letter, slot) = hexadecimal
      /\ letter = Code("p") => NumberFor(letter, slot) = pointer
  BY <1>1, Codes
<1>. QED
  BY <1>2 DEF decimal, hexadecimal, pointer

\* Prefix, value, base and case of a conversion make the text it is there for.
LEMMA NumberText ==
  ASSUME NEW pc, PieceOK(pc), pc.conv \in Numbers, pc.conv # "p" => Width = WidthOf(pc)
  PROVE  \E pre \in Seq(Nat), n \in 0 .. Power(2, LongBits) - 1, b \in Bases, up \in BOOLEAN :
           /\ NumberFor(Code(pc.conv), Slot(pc)) = <<pre, n, b, up>>
           /\ Text(pc) = pre \o Numeral(n, b, up)
<1>. DEFINE m == Power(2, LongBits)
            num(pre, n, b, up) ==
              /\ NumberFor(Code(pc.conv), Slot(pc)) = <<pre, n, b, up>>
              /\ Text(pc) = pre \o Numeral(n, b, up)
<1>1. ASSUME NEW n \in 0 .. m - 1, NEW b \in Bases, NEW up
      PROVE  NoText \o Numeral(n, b, up) = Numeral(n, b, up)
  BY NumeralType, ConcatEmptySeq DEF NoText
<1>2. NoText \in Seq(Nat) /\ <<Code("-")>> \in Seq(Nat) /\ <<Code("0"), Code("x")>> \in Seq(Nat)
  BY Codes DEF NoText
<1>3. CASE pc.conv \in {"d", "i"}
  <2>. DEFINE n == Signed(Slot(pc), Width)
              pre == IF n < 0 THEN <<Code("-")>> ELSE NoText
  <2>1. /\ n = pc.val /\ Magnitude(n) = (IF pc.val < 0 THEN -pc.val ELSE pc.val)
        /\ Magnitude(n) \in 0 .. m - 1
    BY <1>3, SignedRead
  <2>2. NumberFor(Code(pc.conv), Slot(pc)) = <<pre, Magnitude(n), 10, FALSE>>
    <3>1. PICK letter \in {Code("d"), Code("i")} : letter = Code(pc.conv)
      BY <1>3
    <3>2. \A slot : NumberFor(letter, slot) =
            <<IF Signed(slot, Width) < 0 THEN <<Code("-")>> ELSE NoText,
              Magnitude(Signed(slot, Width)), 10, FALSE>>
      BY SignedArm
    <3>. QED
      BY <3>1, <3>2, Zenon
  <2>3. Text(pc) = pre \o Numeral(Magnitude(n), 10, FALSE)
    <3>1. Text(pc) = (IF pc.val < 0 THEN <<Code("-")>> ELSE NoText)
                       \o Numeral(IF pc.val < 0 THEN -pc.val ELSE pc.val, 10, FALSE)
      BY <1>3 DEF Text
    <3>. QED
      BY <2>1, <3>1
  <2>4. pre \in Seq(Nat) /\ 10 \in Bases
    BY <1>2 DEF Bases
  <2>. QED
    BY <2>1, <2>2, <2>3, <2>4
<1>4. ASSUME pc.conv \in {"u", "x", "X", "p"}
      PROVE  /\ pc.val \in 0 .. m - 1
             /\ Unsigned(Slot(pc), WidthOf(pc)) = pc.val
  <2>1. PICK w \in Nat : w = Power(2, WidthOf(pc)) /\ w <= m /\ m \in Nat /\ w # 0
    BY WidthIs
  <2>2. pc.val \in 0 .. w - 1
    BY <1>4, <2>1 DEF PieceOK
  <2>3. pc.val % w = pc.val
    <3>1. w \in Nat \ {0} /\ pc.val \in Int
      BY <2>1, <2>2
    <3>. QED
      BY <2>2, <3>1, Remainder
  <2>. QED
    BY <2>1, <2>2, <2>3, SlotRead
<1>5. CASE pc.conv = "u"
  <2>1. NumberFor(Code(pc.conv), Slot(pc)) = <<NoText, Unsigned(Slot(pc), Width), 10, FALSE>>
    BY <1>5, NumberForIs
  <2>2. Text(pc) = Numeral(pc.val, 10, FALSE) /\ 10 \in Bases /\ pc.val \in 0 .. m - 1
        /\ Unsigned(Slot(pc), Width) = pc.val
    BY <1>4, <1>5 DEF Text, Bases
  <2>3. num(NoText, pc.val, 10, FALSE)
    BY <1>1, <2>1, <2>2
  <2>. QED
    BY <1>2, <2>2, <2>3
<1>6. CASE pc.conv \in {"x", "X"}
  <2>1. /\ Code(pc.conv) \notin {Code("d"), Code("i"), Code("u")}
        /\ Code(pc.conv) \in {Code("x"), Code("X")}
        /\ (Code(pc.conv) = Code("X")) <=> (pc.conv = "X")
    BY <1>6, Codes
  <2>. DEFINE up == pc.conv = "X"
  <2>2. (Code(pc.conv) = Code("X")) = up /\ up \in BOOLEAN
    BY <2>1
  <2>3. NumberFor(Code(pc.conv), Slot(pc)) = <<NoText, Unsigned(Slot(pc), Width), 16, Code(pc.conv) = Code("X")>>
    BY <2>1, NumberForIs
  <2>4. Text(pc) = Numeral(pc.val, 16, up)
    BY <1>6 DEF Text
  <2>5. 16 \in Bases /\ pc.val \in 0 .. m - 1 /\ Unsigned(Slot(pc), Width) = pc.val
    BY <1>4, <1>6 DEF Bases
  <2>. HIDE DEF up
  <2>6. num(NoText, pc.val, 16, up)
    BY <1>1, <2>2, <2>3, <2>4, <2>5
  <2>. QED
    BY <1>2, <2>2, <2>5, <2>6
<1>7. CASE pc.conv = "p"
  <2>1. NumberFor(Code(pc.conv), Slot(pc)) =
          <<<<Code("0"), Code("x")>>, Unsigned(Slot(pc), LongBits), 16, FALSE>>
    BY <1>7, NumberForIs
  <2>2. WidthOf(pc) = LongBits
    BY <1>7 DEF WidthOf
  <2>3. /\ Text(pc) = <<Code("0"), Code("x")>> \o Numeral(pc.val, 16, FALSE) /\ 16 \in Bases
        /\ pc.val \in 0 .. m - 1 /\ Unsigned(Slot(pc), LongBits) = pc.val
    BY <1>4, <1>7, <2>2 DEF Text, Bases
  <2>4. num(<<Code("0"), Code("x")>>, pc.val, 16, FALSE)
    BY <2>1, <2>3
  <2>. QED
    BY <1>2, <2>3, <2>4
<1>. QED
  BY <1>3, <1>5, <1>6, <1>7 DEF Numbers

-----------------------------------------------------------------------------
(* The texts of pieces, of a format and of the calls so far.               *)

\* The text of a piece is a sequence of characters.
LEMMA TextType ==
  ASSUME NEW pc, PieceOK(pc)
  PROVE  Text(pc) \in Seq(Nat)
<1>1. NoText \in Seq(Nat) /\ <<Code("-")>> \in Seq(Nat) /\ <<Code("0"), Code("x")>> \in Seq(Nat)
  BY Codes DEF NoText
<1>2. CASE pc.conv \in {"d", "i"}
  <2>1. PICK n \in 0 .. Power(2, LongBits) - 1 : n = IF pc.val < 0 THEN -pc.val ELSE pc.val
    BY <1>2, SignedRead
  <2>. DEFINE sign == IF pc.val < 0 THEN <<Code("-")>> ELSE NoText
  <2>2. Numeral(n, 10, FALSE) \in Seq(Nat) /\ sign \in Seq(Nat)
    BY <1>1, NumeralType DEF Bases
  <2>3. Text(pc) = sign \o Numeral(n, 10, FALSE)
    BY <1>2, <2>1 DEF Text
  <2>. HIDE DEF sign
  <2>. QED
    BY <2>2, <2>3, ConcatProperties
<1>3. CASE pc.conv \in {"u", "x", "X", "p"}
  <2>1. PICK n \in 0 .. Power(2, LongBits) - 1 : n = pc.val
    <3>1. PICK w \in Nat, m \in Nat : w = Power(2, WidthOf(pc)) /\ m = Power(2, LongBits) /\ w <= m
      BY WidthIs
    <3>2. pc.val \in 0 .. w - 1
      BY <1>3, <3>1 DEF PieceOK
    <3>. QED
      BY <3>1, <3>2
  <2>2. \A b \in Bases, up \in BOOLEAN : Numeral(n, b, up) \in Seq(Nat)
    BY NumeralType
  <2>3. CASE pc.conv = "u"
    <3>1. Text(pc) = Numeral(n, 10, FALSE)
      BY <2>1, <2>3 DEF Text
    <3>. QED
      BY <2>2, <3>1 DEF Bases
  <2>4. CASE pc.conv \in {"x", "X"}
    <3>. DEFINE up == pc.conv = "X"
    <3>1. Text(pc) = Numeral(n, 16, up) /\ up \in BOOLEAN
      BY <2>1, <2>4 DEF Text
    <3>. HIDE DEF up
    <3>. QED
      BY <2>2, <3>1 DEF Bases
  <2>5. CASE pc.conv = "p"
    <3>. DEFINE pre == <<Code("0"), Code("x")>>
    <3>1. Text(pc) = pre \o Numeral(n, 16, FALSE)
      BY <2>1, <2>5 DEF Text
    <3>2. Numeral(n, 16, FALSE) \in Seq(Nat) /\ pre \in Seq(Nat)
      BY <1>1, <2>2 DEF Bases
    <3>. HIDE DEF pre
    <3>. QED
      BY <3>1, <3>2, ConcatProperties
  <2>. QED
    BY <1>3, <2>3, <2>4, <2>5
<1>4. CASE pc.conv = "s"
  <2>1. pc.val \in Seq(Bytes) \/ pc.val = Null
    BY <1>4 DEF PieceOK
  <2>2. pc.val # Null => pc.val \in Seq(Nat)
    <3>1. Bytes \subseteq Nat
      BY DEF Bytes
    <3>. QED
      BY <2>1, <3>1, SeqMonotonic
  <2>3. NullText \in Seq(Nat)
    BY DEF NullText
  <2>4. Text(pc) = IF pc.val = Null THEN NullText ELSE pc.val
    BY <1>4 DEF Text
  <2>. QED
    BY <2>2, <2>3, <2>4
<1>5. CASE pc.conv = "c"
  <2>1. pc.val \in Nat /\ Text(pc) = <<pc.val>>
    BY <1>5 DEF PieceOK, Text
  <2>. QED
    BY <2>1
<1>6. CASE pc.conv \in {"%", "q", "end"}
  <2>1. Text(pc) \in {<<Code("%")>>, <<Code("%"), Code("q")>>, NoText}
    BY <1>6 DEF Text
  <2>2. <<Code("%")>> \in Seq(Nat) /\ <<Code("%"), Code("q")>> \in Seq(Nat)
    BY Codes
  <2>. QED
    BY <1>1, <2>1, <2>2
<1>7. CASE pc.conv = "text"
  BY <1>7, PieceKinds DEF Text, Convs, Numbers
<1>. QED
  BY <1>2, <1>3, <1>4, <1>5, <1>6, <1>7 DEF PieceOK

PieceTexts(ps) == [k \in 1 .. Len(ps) |-> Text(ps[k])]

\* The text of a format, from one piece to the next.
LEMMA PieceByPiece ==
  ASSUME NEW ps, PiecesOK(ps)
  PROVE  /\ Flat(PieceTexts(ps), 0) = <<>>
         /\ \A k \in 0 .. Len(ps) : Flat(PieceTexts(ps), k) \in Seq(Nat)
         /\ \A k \in 0 .. Len(ps) - 1 :
              /\ Text(ps[k + 1]) \in Seq(Nat)
              /\ Flat(PieceTexts(ps), k + 1) = Flat(PieceTexts(ps), k) \o Text(ps[k + 1])
<1>. DEFINE P == PieceTexts(ps)
            n == Len(ps)
<1>1. n \in Nat /\ \A k \in 1 .. n : PieceOK(ps[k])
  BY DEF PiecesOK
<1>2. \A k \in 1 .. n : P[k] = Text(ps[k]) /\ P[k] \in Seq(Nat)
  BY <1>1, TextType DEF PieceTexts
<1>. HIDE DEF P, n
<1>3. \A k \in 1 .. n : P[k] \in Seq(Nat)
  BY <1>2
<1>4. \A k \in 0 .. n : Flat(P, k) \in Seq(Nat)
  BY <1>1, <1>3, FlatTypes
<1>5. ASSUME NEW k \in 0 .. n - 1
      PROVE  Text(ps[k + 1]) \in Seq(Nat) /\ Flat(P, k + 1) = Flat(P, k) \o Text(ps[k + 1])
  <2>1. k \in Nat /\ k + 1 \in 1 .. n /\ \A j \in 1 .. k + 1 : j \in 1 .. n
    BY <1>1
  <2>2. \A j \in 1 .. k + 1 : P[j] \in Seq(Nat)
    BY <1>3, <2>1
  <2>3. Flat(P, k + 1) = Flat(P, k) \o P[k + 1]
    BY <2>1, <2>2, FlatOneMore
  <2>. QED
    BY <1>2, <2>1, <2>3
<1>6. Flat(P, 0) = <<>>
  BY FlatNone
<1>. QED
  BY <1>4, <1>5, <1>6 DEF P, n

\* So is the text of a call; that of a printf is put together from its pieces.
LEMMA CallTextType ==
  ASSUME NEW call, CallOK(call)
  PROVE  /\ TextOf(call) \in Seq(Nat)
         /\ call.fn \in {"serial_init", "serial_puts", "serial_print_num", "printf"}
         /\ call.fn = "printf" =>
              /\ PiecesOK(call.pieces)
              /\ TextOf(call) = Flat(PieceTexts(call.pieces), Len(call.pieces))
<1>1. CASE call.fn = "serial_init"
  BY <1>1 DEF TextOf, NoText
<1>2. CASE call.fn = "serial_puts"
  <2>1. call.text \in Seq(Bytes) /\ Bytes \subseteq Nat /\ TextOf(call) = call.text
    BY <1>2 DEF CallOK, TextOf, Bytes
  <2>2. call.text \in Seq(Nat)
    BY <2>1, SeqMonotonic
  <2>. QED
    BY <1>2, <2>1, <2>2
<1>3. CASE call.fn = "serial_print_num"
  <2>1. PICK n \in 0 .. Power(2, LongBits) - 1 : n = call.n
    BY <1>3 DEF CallOK
  <2>2. TextOf(call) = Numeral(n, 10, FALSE) /\ 10 \in Bases
    BY <1>3, <2>1 DEF TextOf, Bases
  <2>. QED
    BY <1>3, <2>2, NumeralType
<1>4. CASE call.fn = "printf"
  <2>. DEFINE ps == call.pieces
              n == Len(ps)
  <2>1. PiecesOK(ps)
    BY <1>4 DEF CallOK, PiecesOK
  <2>2. n \in Nat /\ DOMAIN ps = 1 .. n
    BY <2>1 DEF PiecesOK
  <2>3. TextOf(call) = FlattenSeq([k \in 1 .. n |-> Text(ps[k])])
    BY <1>4, <2>2 DEF TextOf
  <2>4. [k \in 1 .. n |-> PieceTexts(ps)[k]] = [k \in 1 .. n |-> Text(ps[k])]
    BY DEF PieceTexts
  <2>5. TextOf(call) = Flat(PieceTexts(ps), n)
    BY <2>3, <2>4 DEF Flat
  <2>6. Flat(PieceTexts(ps), n) \in Seq(Nat)
    BY <2>1, <2>2, PieceByPiece
  <2>. QED
    BY <1>4, <2>1, <2>5, <2>6
<1>. QED
  BY <1>1, <1>2, <1>3, <1>4 DEF CallOK

\* What the calls up to the kth are to print, from one call to the next.
LEMMA CallByCall ==
  ASSUME ProgramOK(prog), NEW console \in BOOLEAN
  PROVE  /\ TextUpTo(0, console) = <<>>
         /\ \A k \in 0 .. Len(prog) : TextUpTo(k, console) \in Seq(Nat)
         /\ \A k \in 1 .. Len(prog) :
              TextUpTo(k, console) = TextUpTo(k - 1, console)
                \o (IF (prog[k].fn = "printf") = console THEN TextOf(prog[k]) ELSE NoText)
<1>. DEFINE n == Len(prog)
            P == [j \in 1 .. n |-> IF (prog[j].fn = "printf") = console THEN TextOf(prog[j]) ELSE NoText]
<1>1. n \in Nat /\ \A k \in 1 .. n : CallOK(prog[k])
  BY DEF ProgramOK
<1>2. \A k \in 1 .. n : P[k] \in Seq(Nat)
  BY <1>1, CallTextType DEF NoText
<1>3. \A k \in 0 .. n : TextUpTo(k, console) = Flat(P, k)
  <2>. TAKE k \in 0 .. n
  <2>. DEFINE a == [j \in 1 .. k |-> P[j]]
              c == [j \in 1 .. k |-> IF (prog[j].fn = "printf") = console THEN TextOf(prog[j]) ELSE NoText]
  <2>1. \A j \in 1 .. k : j \in 1 .. n
    BY <1>1
  <2>2. \A j \in 1 .. k : a[j] = c[j]
    BY <2>1
  <2>3. a = c
    BY <2>2
  <2>4. TextUpTo(k, console) = FlattenSeq(c)
    BY DEF TextUpTo
  <2>. QED
    BY <2>3, <2>4 DEF Flat
<1>4. \A k \in 1 .. n :
        P[k] = IF (prog[k].fn = "printf") = console THEN TextOf(prog[k]) ELSE NoText
  OBVIOUS
<1>. HIDE DEF P, n
<1>5. \A k \in 0 .. n : Flat(P, k) \in Seq(Nat)
  BY <1>1, <1>2, FlatTypes
<1>6. ASSUME NEW k \in 1 .. n PROVE Flat(P, k) = Flat(P, k - 1) \o P[k]
  <2>1. k - 1 \in Nat /\ (k - 1) + 1 = k /\ \A j \in 1 .. (k - 1) + 1 : j \in 1 .. n
    BY <1>1
  <2>2. \A j \in 1 .. (k - 1) + 1 : P[j] \in Seq(Nat)
    BY <1>2, <2>1
  <2>3. Flat(P, (k - 1) + 1) = Flat(P, k - 1) \o P[(k - 1) + 1]
    BY <2>1, <2>2, FlatOneMore
  <2>. QED
    BY <2>1, <2>3
<1>7. \A k \in 1 .. n : k \in 0 .. n /\ k - 1 \in 0 .. n
  BY <1>1
<1>8. 0 \in 0 .. n /\ Flat(P, 0) = <<>>
  BY <1>1, FlatNone
<1>9. \A k \in 1 .. n :
        TextUpTo(k, console) = TextUpTo(k - 1, console)
          \o (IF (prog[k].fn = "printf") = console THEN TextOf(prog[k]) ELSE NoText)
  BY <1>3, <1>4, <1>6, <1>7
<1>10. TextUpTo(0, console) = <<>>
  BY <1>3, <1>8
<1>11. \A k \in 0 .. n : TextUpTo(k, console) \in Seq(Nat)
  BY <1>3, <1>5
<1>. QED
  BY <1>9, <1>10, <1>11 DEF n

-----------------------------------------------------------------------------
(* The inductive invariant.                                                *)

\* The calls of a program up to the kth.
Said(pr, k, console) ==
  FlattenSeq([j \in 1 .. k |-> IF (pr[j].fn = "printf") = console THEN TextOf(pr[j]) ELSE NoText])

\* What the string or the number that is being printed has left to print.
IsLeft(r) ==
  \/ at = "format" /\ r = <<>>
  \/ at = "string" /\ r = rest
  \/ at = "digits" /\ buf # <<>> /\ r = Reversed(buf)
  \/ /\ at = "divide" /\ v > 0
     /\ \E n \in 0 .. Power(2, LongBits) - 1 :
          /\ Lowest(buf, n, base, upper) /\ v = n \div Power(base, Len(buf))
          /\ r = Numeral(n, base, upper)

\* printf has read the first k pieces, and i characters of the next one.
Read(k, i) ==
  LET ps == Call.pieces
  IN /\ p = Place(ps, k + 1) + i /\ arg = ArgPlace(ps, k + 1)
     /\ i > 0 => /\ at = "format" /\ k < Len(ps)
                 /\ ps[k + 1].conv = "text" /\ i < Len(ps[k + 1].val)
Part(s, i) == [j \in 1 .. i |-> s[j]]

TypeInv ==
  /\ prog \in Programs
  /\ at \in {"next", "format", "string", "divide", "digits", "init"}
  /\ job \in 1 .. Len(prog) + 1 /\ (at # "next" => job <= Len(prog))
  /\ p \in Nat /\ arg \in Nat /\ rest \in Seq(Nat)
  /\ v \in 0 .. Power(2, LongBits) - 1 /\ base \in Bases /\ upper \in BOOLEAN
  /\ buf \in Seq(Nat) /\ Len(buf) <= BufSize
  /\ screen \in Seq(Nat) /\ line \in Seq(Nat)

HasPort == Len(prog) >= 1 /\ prog[1].fn = "serial_init"
PortInv ==
  /\ uart \in [there : BOOLEAN, dlab : BOOLEAN, low : Nat, high : Nat, format : Nat, thr : Seq(Nat)]
  /\ Len(uart.thr) <= 1 /\ (~uart.there => uart.thr = <<>>)
  /\ HasPort /\ job > 1 /\ uart.there =>
       uart.low = 3 /\ uart.high = 0 /\ uart.format = 3 /\ ~uart.dlab
  /\ ~HasPort \/ job = 1 => line = <<>> /\ uart.thr = <<>>
  /\ at = "init" =>
       /\ job = 1 /\ HasPort /\ p \in 1 .. 8
       /\ uart.there =>
            /\ p \in 3 .. 5 => uart.dlab
            /\ p >= 4 => uart.low = 3
            /\ p >= 5 => uart.high = 0
            /\ p >= 6 => ~uart.dlab /\ uart.format = 3

\* The other end has got the calls up to the kth when r has been sent too.
Sent(k, r) == uart.there => (line \o uart.thr) \o r = Said(prog, k, FALSE)
Shown(k, r) == screen \o r = Said(prog, k, TRUE)

IdleInv == at \in {"next", "init"} => Shown(job - 1, <<>>) /\ Sent(job - 1, <<>>)
ConsoleInv ==
  at \notin {"next", "init"} /\ OnConsole =>
    /\ Sent(job - 1, <<>>)
    /\ \E k \in 0 .. Len(Call.pieces), i \in Nat, r \in Seq(Nat) :
         /\ Read(k, i) /\ IsLeft(r)
         /\ screen \o r = Said(prog, job - 1, TRUE)
                            \o (Flat(PieceTexts(Call.pieces), k) \o Part(Call.pieces[k + 1].val, i))
SerialInv ==
  at \notin {"next", "init"} /\ ~OnConsole =>
    /\ at # "format" /\ HasPort /\ job > 1 /\ Call.fn \in {"serial_puts", "serial_print_num"}
    /\ Shown(job - 1, <<>>)
    /\ \E r \in Seq(Nat) : IsLeft(r) /\ Sent(job, r)

IInv == TypeInv /\ PortInv /\ IdleInv /\ ConsoleInv /\ SerialInv

\* TextUpTo, which speaks of prog, in terms of any program.
LEMMA SaidIs ==
  ASSUME NEW k, NEW console
  PROVE  TextUpTo(k, console) = Said(prog, k, console)
BY DEF TextUpTo, Said

\* What the calls are to print, from one to the next.
LEMMA SaidByCall ==
  ASSUME ProgramOK(prog)
  PROVE  /\ \A c \in BOOLEAN : Said(prog, 0, c) = <<>>
         /\ \A c \in BOOLEAN : \A k \in 0 .. Len(prog) : Said(prog, k, c) \in Seq(Nat)
         /\ \A k \in 1 .. Len(prog) :
              /\ TextOf(prog[k]) \in Seq(Nat)
              /\ prog[k].fn = "printf" =>
                   /\ Said(prog, k, TRUE) = Said(prog, k - 1, TRUE) \o TextOf(prog[k])
                   /\ Said(prog, k, FALSE) = Said(prog, k - 1, FALSE)
              /\ prog[k].fn # "printf" =>
                   /\ Said(prog, k, FALSE) = Said(prog, k - 1, FALSE) \o TextOf(prog[k])
                   /\ Said(prog, k, TRUE) = Said(prog, k - 1, TRUE)
<1>1. \A c \in BOOLEAN : TextUpTo(0, c) = <<>>
  BY CallByCall
<1>2. \A c \in BOOLEAN : \A k \in 0 .. Len(prog) : TextUpTo(k, c) \in Seq(Nat)
  BY CallByCall
<1>3. \A k \in 1 .. Len(prog) : TextOf(prog[k]) \in Seq(Nat)
  BY CallTextType DEF ProgramOK
<1>4. ASSUME NEW k \in 1 .. Len(prog)
      PROVE  /\ prog[k].fn = "printf" =>
                   /\ TextUpTo(k, TRUE) = TextUpTo(k - 1, TRUE) \o TextOf(prog[k])
                   /\ TextUpTo(k, FALSE) = TextUpTo(k - 1, FALSE)
             /\ prog[k].fn # "printf" =>
                   /\ TextUpTo(k, FALSE) = TextUpTo(k - 1, FALSE) \o TextOf(prog[k])
                   /\ TextUpTo(k, TRUE) = TextUpTo(k - 1, TRUE)
  <2>1. k \in 0 .. Len(prog) /\ k - 1 \in 0 .. Len(prog)
    BY DEF ProgramOK
  <2>. DEFINE a(c) == TextUpTo(k - 1, c)
              t == TextOf(prog[k])
  <2>2. a(TRUE) \in Seq(Nat) /\ a(FALSE) \in Seq(Nat)
    BY <1>2, <2>1
  <2>3. a(TRUE) \o NoText = a(TRUE) /\ a(FALSE) \o NoText = a(FALSE)
    BY <2>2, ConcatEmptySeq DEF NoText
  <2>4. TextUpTo(k, TRUE) = a(TRUE) \o (IF prog[k].fn = "printf" THEN t ELSE NoText)
    <3>1. TextUpTo(k, TRUE) = a(TRUE) \o (IF (prog[k].fn = "printf") = TRUE THEN t ELSE NoText)
      BY CallByCall
    <3>. QED
      BY <3>1
  <2>5. TextUpTo(k, FALSE) = a(FALSE) \o (IF prog[k].fn = "printf" THEN NoText ELSE t)
    <3>1. TextUpTo(k, FALSE) = a(FALSE) \o (IF (prog[k].fn = "printf") = FALSE THEN t ELSE NoText)
      BY CallByCall
    <3>. QED
      BY <3>1
  <2>. HIDE DEF a, t
  <2>6. /\ prog[k].fn = "printf" => TextUpTo(k, TRUE) = a(TRUE) \o t /\ TextUpTo(k, FALSE) = a(FALSE)
        /\ prog[k].fn # "printf" => TextUpTo(k, FALSE) = a(FALSE) \o t /\ TextUpTo(k, TRUE) = a(TRUE)
    BY <2>3, <2>4, <2>5
  <2>. QED
    BY <2>6 DEF a, t
<1>. QED
  BY <1>1, <1>2, <1>3, <1>4, SaidIs

\* The state of a call in terms of its pieces.
LEMMA CallFacts ==
  ASSUME TypeInv
  PROVE  /\ ProgramOK(prog) /\ Len(prog) \in Nat
         /\ at # "next" => job \in 1 .. Len(prog) /\ CallOK(Call)
         /\ job \in Nat /\ job - 1 \in 0 .. Len(prog)
<1>1. ProgramOK(prog)
  BY ProgramsAssumption DEF TypeInv
<1>2. Len(prog) \in Nat /\ DOMAIN prog = 1 .. Len(prog) /\ \A j \in 1 .. Len(prog) : CallOK(prog[j])
  BY <1>1 DEF ProgramOK
<1>3. job \in 1 .. Len(prog) + 1 /\ (at # "next" => job <= Len(prog))
  BY DEF TypeInv
<1>4. job \in Nat /\ job - 1 \in 0 .. Len(prog) /\ (at # "next" => job \in 1 .. Len(prog))
  BY <1>2, <1>3
<1>. QED
  BY <1>1, <1>2, <1>4 DEF Call

\* Within a printf, the format and the slots are those of the pieces of its call.
LEMMA FormatFacts ==
  ASSUME TypeInv, at # "next", OnConsole
  PROVE  /\ PiecesOK(Call.pieces) /\ Len(Call.pieces) \in Nat
         /\ Format = FormatOf(Call.pieces) /\ Slots = SlotsOf(Call.pieces)
         /\ Letter = LetterAt(Format, p)
         /\ TextOf(Call) = Flat(PieceTexts(Call.pieces), Len(Call.pieces))
<1>1. CallOK(Call) /\ Call.fn = "printf"
  BY CallFacts DEF OnConsole
<1>2. PiecesOK(Call.pieces) /\ TextOf(Call) = Flat(PieceTexts(Call.pieces), Len(Call.pieces))
  BY <1>1, CallTextType
<1>3. Len(Call.pieces) \in Nat /\ DOMAIN Call.pieces = 1 .. Len(Call.pieces)
  BY <1>2 DEF PiecesOK
<1>4. Format = FormatOf(Call.pieces)
  BY <1>3 DEF Format, FormatOf, Spellings
<1>5. Slots = SlotsOf(Call.pieces)
  BY <1>3 DEF Slots, SlotsOf, Passings
<1>6. Letter = LetterAt(Format, p)
  BY DEF Letter, LetterAt
<1>. QED
  BY <1>2, <1>3, <1>4, <1>5, <1>6

\* One character more of a text.
LEMMA PartSteps ==
  ASSUME NEW s \in Seq(Nat)
  PROVE  /\ Part(s, Len(s)) = s
         /\ \A i \in 0 .. Len(s) : Part(s, i) \in Seq(Nat)
         /\ \A i \in 0 .. Len(s) - 1 : Part(s, i + 1) = Append(Part(s, i), s[i + 1])
<1>1. Len(s) \in Nat /\ s = [j \in 1 .. Len(s) |-> s[j]] /\ \A j \in 1 .. Len(s) : s[j] \in Nat
  BY LenProperties, ElementOfSeq
<1>2. ASSUME NEW i \in 0 .. Len(s) PROVE Part(s, i) \in Seq(Nat) /\ Len(Part(s, i)) = i
  <2>1. i \in Nat /\ Part(s, i) \in [1 .. i -> Nat]
    BY <1>1 DEF Part
  <2>2. Part(s, i) \in Seq(Nat)
    BY <2>1, SeqDef
  <2>. QED
    BY <2>1, <2>2, LenProperties
<1>3. ASSUME NEW i \in 0 .. Len(s) - 1 PROVE Part(s, i + 1) = Append(Part(s, i), s[i + 1])
  <2>1. i \in 0 .. Len(s) /\ i + 1 \in 0 .. Len(s) /\ i + 1 \in 1 .. Len(s) /\ i \in Nat
    BY <1>1
  <2>2. /\ Append(Part(s, i), s[i + 1]) \in Seq(Nat)
        /\ Len(Append(Part(s, i), s[i + 1])) = i + 1
        /\ \A j \in 1 .. i : Append(Part(s, i), s[i + 1])[j] = Part(s, i)[j]
        /\ Append(Part(s, i), s[i + 1])[i + 1] = s[i + 1]
    <3>1. Part(s, i) \in Seq(Nat) /\ Len(Part(s, i)) = i /\ s[i + 1] \in Nat
      BY <1>1, <1>2, <2>1
    <3>. QED
      BY <3>1, AppendProperties
  <2>3. Part(s, i + 1) \in Seq(Nat) /\ Len(Part(s, i + 1)) = i + 1
    BY <1>2, <2>1
  <2>4. \A j \in 1 .. i + 1 : Part(s, i + 1)[j] = Append(Part(s, i), s[i + 1])[j]
    <3>1. \A j \in 1 .. i + 1 : Part(s, i + 1)[j] = s[j]
      BY DEF Part
    <3>2. \A j \in 1 .. i : Part(s, i)[j] = s[j]
      BY DEF Part
    <3>3. \A j \in 1 .. i + 1 : j \in 1 .. i \/ j = i + 1
      BY <2>1
    <3>. QED
      BY <2>2, <3>1, <3>2, <3>3
  <2>. HIDE DEF Part
  <2>. QED
    BY <2>2, <2>3, <2>4, SeqEqual
<1>4. Part(s, Len(s)) = s
  BY <1>1 DEF Part
<1>. QED
  BY <1>2, <1>3, <1>4

\* What printf finds where it reads: the end of the format, a character of a
\* text, or a conversion with its letter and its argument.
LEMMA HereIs ==
  ASSUME TypeInv, at = "format", OnConsole,
         NEW k \in 0 .. Len(Call.pieces), NEW i \in Nat, Read(k, i)
  PROVE  LET ps == Call.pieces
             pc == ps[k + 1]
         IN \/ k = Len(ps) /\ i = 0 /\ Format[p] = NUL
            \/ /\ k < Len(ps) /\ pc.conv = "text"
               /\ pc.val \in Seq(Nat) /\ i + 1 \in 1 .. Len(pc.val)
               /\ Format[p] = pc.val[i + 1] /\ Format[p] \notin {Code("%"), NUL}
               /\ i + 1 = Len(pc.val) => p + 1 = Place(ps, k + 2)
               /\ arg = ArgPlace(ps, k + 2)
            \/ /\ k < Len(ps) /\ i = 0 /\ pc.conv \in Convs \cup {"end"} /\ PieceOK(pc)
               /\ Format[p] = Code("%") /\ Letter \in Nat
               /\ pc.conv = "end" => Format[Letter] = NUL /\ k + 1 = Len(ps)
               /\ pc.conv \in Convs => Format[Letter] = Code(pc.conv) /\ Letter + 1 = Place(ps, k + 2)
               /\ pc.conv # "p" => Width = WidthOf(pc)
               /\ IF TakesSlot(pc)
                  THEN Slots[arg] = Slot(pc) /\ arg + 1 = ArgPlace(ps, k + 2)
                  ELSE arg = ArgPlace(ps, k + 2)
<1>. DEFINE ps == Call.pieces
            n == Len(ps)
            pc == ps[k + 1]
<1>1. /\ PiecesOK(ps) /\ n \in Nat /\ Format = FormatOf(ps) /\ Slots = SlotsOf(ps)
      /\ Letter = LetterAt(Format, p)
  BY FormatFacts
<1>2. /\ p = Place(ps, k + 1) + i /\ arg = ArgPlace(ps, k + 1)
      /\ i > 0 => k < n /\ pc.conv = "text" /\ i < Len(pc.val)
  BY DEF Read
<1>3. /\ Len(FormatOf(ps)) = Place(ps, n + 1) /\ FormatOf(ps)[Place(ps, n + 1)] = NUL
      /\ \A m \in 1 .. n + 1 : Place(ps, m) \in Nat
      /\ \A m \in 1 .. n :
           /\ Place(ps, m + 1) = Place(ps, m) + Len(Spelt(ps[m]))
           /\ \A j \in 1 .. Len(Spelt(ps[m])) : FormatOf(ps)[Place(ps, m) + j - 1] = Spelt(ps[m])[j]
  BY <1>1, FormatShape
<1>4. \A m \in 1 .. n :
        IF TakesSlot(ps[m])
        THEN SlotsOf(ps)[ArgPlace(ps, m)] = Slot(ps[m]) /\ ArgPlace(ps, m + 1) = ArgPlace(ps, m) + 1
        ELSE ArgPlace(ps, m + 1) = ArgPlace(ps, m)
  BY <1>1, SlotIs
<1>5. CASE k = n
  <2>1. i = 0 /\ k + 1 = n + 1 /\ n + 1 \in 1 .. n + 1
    BY <1>1, <1>2, <1>5
  <2>2. p = Place(ps, n + 1)
    BY <1>2, <1>3, <2>1
  <2>. QED
    BY <1>1, <1>3, <1>5, <2>1, <2>2
<1>6. CASE k < n
  <2>1. k + 1 \in 1 .. n /\ k + 1 \in Nat /\ (k + 1) + 1 = k + 2 /\ k + 1 \in 1 .. n + 1
    BY <1>1, <1>6
  <2>2. PieceOK(pc) /\ (pc.conv = "end" => k + 1 = n)
    BY <1>1, <2>1 DEF PiecesOK
  <2>3. /\ Place(ps, k + 1) \in Nat /\ Place(ps, k + 2) = Place(ps, k + 1) + Len(Spelt(pc))
        /\ \A j \in 1 .. Len(Spelt(pc)) : FormatOf(ps)[Place(ps, k + 1) + j - 1] = Spelt(pc)[j]
    BY <1>3, <2>1
  <2>4. IF TakesSlot(pc)
        THEN Slots[arg] = Slot(pc) /\ arg + 1 = ArgPlace(ps, k + 2)
        ELSE arg = ArgPlace(ps, k + 2)
    BY <1>1, <1>2, <1>4, <2>1
  <2>5. CASE pc.conv = "text"
    <3>1. Spelt(pc) = pc.val /\ ~TakesSlot(pc)
      BY <2>5 DEF Spelt, TakesSlot, Numbers
    <3>2. /\ pc.val \in Seq(Nat) /\ pc.val # <<>>
          /\ \A j \in 1 .. Len(pc.val) : pc.val[j] \notin {Code("%"), NUL}
      BY <2>2, <2>5, PieceKinds DEF Convs, Numbers, NoText
    <3>3. Len(pc.val) \in Nat \ {0}
      BY <3>2, EmptySeq, LenProperties
    <3>4. i + 1 \in 1 .. Len(pc.val)
      BY <1>2, <3>3
    <3>. DEFINE x == Place(ps, k + 1)
                l == Len(pc.val)
                F == FormatOf(ps)
    <3>5. x \in Nat /\ p = x + i /\ l \in Nat /\ Place(ps, k + 2) = x + l
          /\ F[x + (i + 1) - 1] = pc.val[i + 1] /\ Format = F
      BY <1>1, <1>2, <2>3, <3>1, <3>3, <3>4
    <3>. HIDE DEF x, l, F, pc, ps, n
    <3>6. x + (i + 1) - 1 = p /\ (i + 1 = l => p + 1 = Place(ps, k + 2))
      BY <3>5
    <3>7. Format[p] = pc.val[i + 1]
      BY <3>5, <3>6
    <3>8. Format[p] \notin {Code("%"), NUL}
      BY <3>2, <3>4, <3>7
    <3>9. arg = ArgPlace(ps, k + 2)
      BY <2>4, <3>1
    <3>. QED
      BY <1>6, <2>5, <3>2, <3>4, <3>6, <3>7, <3>8, <3>9 DEF l, pc, ps, n
  <2>6. CASE pc.conv # "text"
    <3>1. i = 0 /\ p = Place(ps, k + 1)
      BY <1>2, <2>3, <2>6
    <3>2. pc.conv \in Convs \cup {"end"} /\ pc.long \in Nat
      BY <2>2, <2>6, PieceKinds
    <3>3. /\ FormatOf(ps)[Place(ps, k + 1)] = Code("%")
          /\ LetterAt(FormatOf(ps), Place(ps, k + 1)) = Place(ps, k + 1) + pc.long + 1
          /\ FormatOf(ps)[Place(ps, k + 1) + pc.long + 1] = IF pc.conv = "end" THEN NUL ELSE Code(pc.conv)
          /\ pc.conv # "end" => (Place(ps, k + 1) + pc.long + 1) + 1 = Place(ps, (k + 1) + 1)
      BY <1>1, <2>1, <2>6, LetterIs
    <3>4. Letter = p + pc.long + 1 /\ p \in Nat
      BY <1>1, <2>3, <3>1, <3>3
    <3>5. /\ Format[p] = Code("%") /\ Letter \in Nat
          /\ pc.conv = "end" => Format[Letter] = NUL /\ k + 1 = n
          /\ pc.conv # "end" => Format[Letter] = Code(pc.conv) /\ Letter + 1 = Place(ps, k + 2)
      BY <1>1, <2>1, <2>2, <3>1, <3>2, <3>3, <3>4
    <3>6. "end" \notin Convs
      BY DEF Convs, Numbers
    <3>7. pc.conv # "p" => Width = WidthOf(pc)
      <4>1. Letter > p + 1 <=> pc.long > 0
        BY <3>2, <3>4, SMTT(60)
      <4>. QED
        BY <4>1 DEF Width, WidthOf
    <3>. QED
      BY <1>6, <2>2, <2>4, <3>1, <3>2, <3>5, <3>6, <3>7
  <2>. QED
    BY <2>5, <2>6
<1>7. k = n \/ k < n
  BY <1>1
<1>. QED
  BY <1>5, <1>6, <1>7

-----------------------------------------------------------------------------
(* What is left to print, from one step to the next.                       *)

\* The buffer has room for a digit.
LEMMA BufferThere == BufSize \in Nat \ {0}
<1>. SUFFICES ASSUME BufSize = 0 PROVE FALSE
  BY WidthAssumption
<1>1. Power(10, 0) = 1
  BY PowerSteps
<1>2. LongBits \in Nat \ {0} /\ 1 <= LongBits
  BY WidthAssumption
<1>3. Power(2, 1) <= Power(2, LongBits)
  BY <1>2, PowerGrows
<1>4. Power(2, 0) = 1 /\ Power(2, 0 + 1) = 2 * Power(2, 0)
  BY PowerSteps
<1>5. 2 <= Power(2, LongBits) /\ Power(2, LongBits) \in Nat
  BY <1>2, <1>3, <1>4, PowerType
<1>. QED
  BY <1>1, <1>5, WidthAssumption

\* Digits in the other order are digits.
LEMMA ReversedType ==
  ASSUME NEW s \in Seq(Nat)
  PROVE  Reversed(s) \in Seq(Nat) /\ (Len(s) = 0 => Reversed(s) = <<>>)
<1>1. Len(s) \in Nat /\ \A k \in 1 .. Len(s) : s[Len(s) + 1 - k] \in Nat
  <2>1. Len(s) \in Nat
    BY LenProperties
  <2>2. \A k \in 1 .. Len(s) : Len(s) + 1 - k \in 1 .. Len(s)
    BY <2>1
  <2>. QED
    BY <2>1, <2>2, ElementOfSeq
<1>2. Reversed(s) \in [1 .. Len(s) -> Nat]
  BY <1>1 DEF Reversed
<1>3. Reversed(s) \in Seq(Nat) /\ Len(Reversed(s)) = Len(s)
  <2>1. Reversed(s) \in Seq(Nat)
    <3>1. PICK n \in Nat : n = Len(s)
      BY <1>1
    <3>2. Reversed(s) \in [1 .. n -> Nat]
      BY <1>2, <3>1
    <3>. QED
      BY <3>1, <3>2, SeqDef
  <2>. QED
    BY <1>1, <1>2, <2>1, LenProperties
<1>4. Len(s) = 0 => Reversed(s) = <<>>
  BY <1>3, EmptySeq
<1>. QED
  BY <1>3, <1>4

\* The last digit in the buffer is the first that is printed.
LEMMA OneDigitLess ==
  ASSUME NEW s \in Seq(Nat), s # <<>>
  PROVE  /\ Last(s) \in Nat /\ Front(s) \in Seq(Nat) /\ Len(Front(s)) = Len(s) - 1
         /\ Reversed(Front(s)) \in Seq(Nat)
         /\ Reversed(s) = <<Last(s)>> \o Reversed(Front(s))
         /\ Len(s) = 1 => Reversed(Front(s)) = <<>>
         /\ Len(s) # 1 => Front(s) # <<>>
<1>. DEFINE n == Len(s)
            f == Front(s)
<1>1. n \in Nat \ {0}
  BY LenProperties, EmptySeq
<1>2. f = [k \in 1 .. n - 1 |-> s[k]]
  BY <1>1 DEF Front
<1>3. f \in Seq(Nat) /\ Len(f) = n - 1 /\ \A k \in 1 .. n - 1 : f[k] = s[k]
  <2>1. n - 1 \in Nat /\ \A k \in 1 .. n - 1 : s[k] \in Nat
    <3>1. n - 1 \in Nat /\ \A k \in 1 .. n - 1 : k \in 1 .. n
      BY <1>1
    <3>. QED
      BY <3>1, ElementOfSeq
  <2>2. f \in [1 .. n - 1 -> Nat]
    BY <1>2, <2>1
  <2>3. f \in Seq(Nat)
    BY <2>1, <2>2, SeqDef, SMTT(60)
  <2>. QED
    BY <1>2, <2>1, <2>2, <2>3, LenProperties
<1>4. Last(s) = s[n] /\ s[n] \in Nat
  <2>1. n \in 1 .. n
    BY <1>1
  <2>. QED
    BY <2>1, ElementOfSeq DEF Last
<1>. HIDE DEF f, n
<1>5. Reversed(f) \in Seq(Nat) /\ (n = 1 => Reversed(f) = <<>>) /\ (n # 1 => f # <<>>)
  BY <1>1, <1>3, ReversedType
<1>6. Len(Reversed(f)) = n - 1 /\ \A k \in 1 .. n - 1 : Reversed(f)[k] = s[n - k]
  <2>1. Reversed(f) = [k \in 1 .. n - 1 |-> f[(n - 1) + 1 - k]]
    BY <1>3 DEF Reversed
  <2>2. n - 1 \in Nat /\ Len(Reversed(f)) = n - 1
    BY <1>1, <1>5, <2>1, LenProperties
  <2>3. \A k \in 1 .. n - 1 : (n - 1) + 1 - k = n - k /\ n - k \in 1 .. n - 1
    BY <1>1
  <2>. QED
    BY <1>3, <2>1, <2>2, <2>3
<1>. DEFINE a == <<s[n]>>
            c == Reversed(f)
<1>7. a \in Seq(Nat) /\ Len(a) = 1 /\ a[1] = s[n]
  BY <1>4
<1>8. c \in Seq(Nat) /\ Len(c) = n - 1
  BY <1>5, <1>6
<1>9. Reversed(s) \in Seq(Nat) /\ Len(Reversed(s)) = n /\ \A k \in 1 .. n : Reversed(s)[k] = s[n + 1 - k]
  <2>1. Reversed(s) = [k \in 1 .. n |-> s[n + 1 - k]]
    BY DEF Reversed, n
  <2>2. Reversed(s) \in Seq(Nat)
    BY ReversedType
  <2>. QED
    BY <1>1, <2>1, <2>2, LenProperties
<1>. HIDE DEF a, c
<1>10. /\ a \o c \in Seq(Nat) /\ Len(a \o c) = n
       /\ \A k \in 1 .. n : (a \o c)[k] = IF k <= 1 THEN a[k] ELSE c[k - 1]
  <2>1. 1 + (n - 1) = n
    BY <1>1
  <2>2. /\ a \o c \in Seq(Nat) /\ Len(a \o c) = Len(a) + Len(c)
        /\ \A k \in 1 .. Len(a) + Len(c) : (a \o c)[k] = IF k <= Len(a) THEN a[k] ELSE c[k - Len(a)]
    BY <1>7, <1>8, ConcatProperties
  <2>. QED
    BY <1>7, <1>8, <2>1, <2>2
<1>11. ASSUME NEW k \in 1 .. n PROVE (a \o c)[k] = Reversed(s)[k]
  <2>1. CASE k = 1
    <3>1. n + 1 - k = n /\ k <= 1
      BY <1>1, <2>1
    <3>2. (a \o c)[k] = a[k] /\ Reversed(s)[k] = s[n + 1 - k]
      BY <1>9, <1>10, <3>1
    <3>3. a[k] = s[n] /\ s[n + 1 - k] = s[n]
      BY <1>7, <2>1, <3>1
    <3>. QED
      BY <3>2, <3>3
  <2>2. CASE k # 1
    <3>1. ~(k <= 1) /\ k - 1 \in 1 .. n - 1 /\ n - (k - 1) = n + 1 - k
      BY <1>1, <2>2
    <3>2. c[k - 1] = s[n - (k - 1)]
      BY <1>6, <3>1 DEF c
    <3>. QED
      BY <1>9, <1>10, <3>1, <3>2
  <2>. QED
    BY <2>1, <2>2
<1>12. a \o c = Reversed(s)
  BY <1>9, <1>10, <1>11, SeqEqual
<1>. QED
  BY <1>3, <1>4, <1>5, <1>12 DEF a, c, f, n

\* print_unsigned has the whole numeral to print.
LEMMA NumberStarts ==
  ASSUME NEW n \in 0 .. Power(2, LongBits) - 1, NEW b \in Bases, NEW up \in BOOLEAN,
         print_unsigned(n, b, up)
  PROVE  /\ at' \in {"divide", "digits"}
         /\ v' \in 0 .. Power(2, LongBits) - 1 /\ base' \in Bases /\ upper' \in BOOLEAN
         /\ buf' \in Seq(Nat) /\ Len(buf') <= BufSize
         /\ IsLeft(Numeral(n, b, up))'
<1>1. v' = n /\ base' = b /\ upper' = up
  BY DEF print_unsigned
<1>2. BufSize \in Nat \ {0} /\ LongBits \in Nat
  BY BufferThere, WidthAssumption
<1>3. CASE n = 0
  <2>. DEFINE z == <<Code("0")>>
  <2>1. buf' = z /\ at' = "digits"
    BY <1>3 DEF print_unsigned
  <2>2. z \in Seq(Nat) /\ Len(z) = 1 /\ z # <<>> /\ z[1] = Code("0")
    BY Codes
  <2>3. Reversed(z) = <<Code("0")>>
    <3>1. PICK c : c = Code("0")
      OBVIOUS
    <3>2. Reversed(z) = [k \in 1 .. 1 |-> z[1 + 1 - k]]
      BY <2>2 DEF Reversed
    <3>3. \A k \in 1 .. 1 : 1 + 1 - k = 1
      OBVIOUS
    <3>4. Reversed(z) = [k \in 1 .. 1 |-> c]
      BY <2>2, <3>1, <3>2, <3>3
    <3>5. [k \in 1 .. 1 |-> c] = <<c>>
      OBVIOUS
    <3>. QED
      BY <3>1, <3>4, <3>5
  <2>4. Numeral(n, b, up) = Reversed(z)
    BY <1>3, <2>3, ZeroDigits
  <2>. HIDE DEF z
  <2>5. IsLeft(Numeral(n, b, up))'
    BY <2>1, <2>2, <2>4 DEF IsLeft
  <2>. QED
    BY <1>1, <1>2, <2>1, <2>2, <2>5
<1>4. CASE n # 0
  <2>1. buf' = <<>> /\ at' = "divide"
    BY <1>4 DEF print_unsigned
  <2>2. <<>> \in Seq(Nat) /\ Len(<<>>) = 0
    OBVIOUS
  <2>3. n \in Nat /\ n > 0
    <3>1. PICK m \in Nat : m = Power(2, LongBits)
      BY <1>2, PowerType
    <3>2. n \in 0 .. m - 1
      BY <3>1
    <3>. QED
      BY <1>4, <3>1, <3>2
  <2>4. v' = n \div Power(base', Len(buf'))
    <3>1. Power(b, 0) = 1
      BY PowerSteps
    <3>2. n \div 1 = n
      BY <2>3
    <3>. QED
      BY <1>1, <2>1, <2>2, <3>1, <3>2
  <2>5. Lowest(buf', n, base', upper')
    BY <2>1, <2>2 DEF Lowest
  <2>6. IsLeft(Numeral(n, b, up))'
    BY <1>1, <2>1, <2>3, <2>4, <2>5 DEF IsLeft
  <2>. QED
    BY <1>1, <1>2, <2>1, <2>2, <2>6
<1>. QED
  BY <1>3, <1>4

\* A pass of the loop of divisions leaves the same numeral to print.
LEMMA NumberGrows ==
  ASSUME TypeInv, Divide, NEW r, IsLeft(r)
  PROVE  /\ at' \in {"divide", "digits"}
         /\ v' \in 0 .. Power(2, LongBits) - 1
         /\ buf' \in Seq(Nat) /\ Len(buf') <= BufSize
         /\ IsLeft(r)'
<1>1. /\ at = "divide" /\ buf' = Append(buf, Digit(v % base, upper)) /\ v' = v \div base
      /\ base' = base /\ upper' = upper
      /\ at' = IF v \div base > 0 THEN "divide" ELSE "digits"
  BY DEF Divide, More
<1>2. PICK n \in 0 .. Power(2, LongBits) - 1 :
        /\ Lowest(buf, n, base, upper) /\ v = n \div Power(base, Len(buf))
        /\ r = Numeral(n, base, upper) /\ v > 0
  BY <1>1 DEF IsLeft
<1>3. base \in Bases /\ upper \in BOOLEAN /\ buf \in Seq(Nat) /\ Len(buf) \in Nat
  BY LenProperties DEF TypeInv
<1>4. PICK m \in Nat : m = Power(2, LongBits) /\ n \in 0 .. m - 1
  <2>1. LongBits \in Nat
    BY WidthAssumption
  <2>. QED
    BY <2>1, PowerType
<1>5. n \in Nat
  BY <1>4
<1>6. /\ buf' \in Seq(Nat) /\ Len(buf') = Len(buf) + 1
      /\ Lowest(buf', n, base, upper)
      /\ v' = n \div Power(base, Len(buf'))
  BY <1>1, <1>2, <1>3, <1>5, OneDigitMore
<1>7. Len(buf) < BufSize
  BY <1>2, <1>3, DigitFits
<1>8. v' \in 0 .. m - 1
  <2>1. v \in 0 .. m - 1 /\ base \in Nat \ {0}
    BY <1>3, <1>4 DEF TypeInv, Bases
  <2>2. v \div base \in Nat /\ v \div base <= v
    <3>1. PICK a \in Nat \ {0}, k \in Nat : a = base /\ k = v
      BY <2>1
    <3>2. PICK q \in Nat, x \in 0 .. a - 1 : q = k \div a /\ k = q * a + x
      BY Division
    <3>3. q <= q * a
      OBVIOUS
    <3>4. q * a \in Nat
      OBVIOUS
    <3>5. q <= k
      BY <3>2, <3>3, <3>4
    <3>. QED
      BY <3>1, <3>2, <3>5
  <2>. QED
    BY <1>1, <2>1, <2>2
<1>9. v' \in 0 .. Power(2, LongBits) - 1
  BY <1>4, <1>8
<1>10. Len(buf') <= BufSize /\ buf' # <<>>
  <2>1. Len(buf) + 1 <= BufSize
    BY <1>3, <1>7, BufferThere
  <2>2. Len(buf') # 0
    BY <1>3, <1>6
  <2>. QED
    BY <1>6, <2>1, <2>2, EmptySeq
<1>11. CASE v' > 0
  <2>1. at' = "divide"
    BY <1>1, <1>11
  <2>2. IsLeft(r)'
    BY <1>1, <1>2, <1>6, <1>11, <2>1 DEF IsLeft
  <2>. QED
    BY <1>6, <1>9, <1>10, <2>1, <2>2
<1>12. CASE ~(v' > 0)
  <2>1. at' = "digits" /\ v' = 0
    BY <1>1, <1>4, <1>8, <1>12
  <2>2. Reversed(buf') = Numeral(n, base, upper)
    <3>. DEFINE l == Len(buf)
    <3>1. l \in Nat /\ Len(buf') = l + 1 /\ n \div Power(base, l) > 0 /\ n \div Power(base, l + 1) = 0
      BY <1>2, <1>3, <1>6, <2>1
    <3>. HIDE DEF l
    <3>. QED
      BY <1>3, <1>6, <3>1, AllDigits
  <2>3. IsLeft(r)'
    BY <1>2, <1>10, <2>1, <2>2 DEF IsLeft
  <2>. QED
    BY <1>6, <1>9, <1>10, <2>1, <2>3
<1>. QED
  BY <1>11, <1>12

-----------------------------------------------------------------------------
(* A character that is put comes behind those before it, on both ways out. *)

\* A character appended to a text is in front of what is still to come.
LEMMA PutBehind ==
  ASSUME NEW s \in Seq(Nat), NEW c \in Nat, NEW r \in Seq(Nat)
  PROVE  /\ Append(s, c) \in Seq(Nat)
         /\ Append(s, c) \o r = s \o (<<c>> \o r)
         /\ s \o <<>> = s /\ <<>> \o s = s
<1>1. <<c>> \in Seq(Nat) /\ Append(s, c) = s \o <<c>>
  BY AppendIsConcat
<1>2. (s \o <<c>>) \o r = s \o (<<c>> \o r)
  BY <1>1, ConcatAssociative
<1>3. s \o <<c>> \in Seq(Nat)
  BY <1>1, ConcatProperties
<1>. QED
  BY <1>1, <1>2, <1>3, ConcatEmptySeq

\* Three texts one behind the other, whichever two are joined first.
LEMMA Regroup ==
  \A a, b, c \in Seq(Nat) : (a \o b) \o c = a \o (b \o c)
<1>. TAKE a, b, c \in Seq(Nat)
<1>. QED
  BY ConcatAssociative, SMTT(60)

\* A character that printf puts goes from what is left to the screen.
LEMMA PutOnScreen ==
  ASSUME TypeInv, OnConsole, NEW c \in Nat, putc(c), NEW r \in Seq(Nat)
  PROVE  uart' = uart /\ screen' \in Seq(Nat) /\ screen' \o r = screen \o (<<c>> \o r)
<1>1. screen \in Seq(Nat) /\ screen' = Append(screen, c) /\ uart' = uart
  BY DEF TypeInv, putc
<1>. QED
  BY <1>1, PutBehind

\* What the port is set to lasts while no call writes to it.
LEMMA PortKept ==
  ASSUME PortInv, HasPort => job > 1, job \in Nat, prog' = prog, line' = line, uart' = uart,
         job' \in {job, job + 1}, at' # "init"
  PROVE  PortInv'
<1>1. HasPort' = HasPort
  BY DEF HasPort
<1>2. /\ HasPort' /\ job' > 1 /\ uart'.there =>
           uart'.low = 3 /\ uart'.high = 0 /\ uart'.format = 3 /\ ~uart'.dlab
      /\ ~HasPort' \/ job' = 1 => line' = <<>> /\ uart'.thr = <<>>
  BY <1>1 DEF PortInv
<1>. QED
  BY <1>2 DEF PortInv

\* The UART is ready before it is given a character, so none is overwritten.
LEMMA PutOnLine ==
  ASSUME TypeInv, PortInv, HasPort, job > 1, ~OnConsole, NEW c \in Nat, putc(c),
         NEW r \in Seq(Nat),
         prog' = prog, line' = line, job' \in {job, job + 1}, at' # "init"
  PROVE  /\ screen' = screen /\ PortInv' /\ uart'.there = uart.there
         /\ uart.there => (line' \o uart'.thr) \o r = (line \o uart.thr) \o (<<c>> \o r)
<1>. DEFINE U == [there : BOOLEAN, dlab : BOOLEAN, low : Nat, high : Nat, format : Nat, thr : Seq(Nat)]
<1>1. uart \in U /\ Len(uart.thr) <= 1 /\ (~uart.there => uart.thr = <<>>) /\ job \in Nat
  BY CallFacts DEF PortInv
<1>2. screen' = screen /\ tx_ready /\ uart' = Written(0, c)
  BY DEF putc, outb
<1>3. HasPort'
  BY DEF HasPort
<1>4. CASE ~uart.there
  <2>1. uart' = uart
    BY <1>2, <1>4 DEF Written
  <2>2. PortInv'
    BY <1>1, <2>1, PortKept
  <2>. QED
    BY <1>2, <1>4, <2>1, <2>2
<1>5. CASE uart.there
  <2>1. ~uart.dlab /\ uart.low = 3 /\ uart.high = 0 /\ uart.format = 3 /\ uart.thr = <<>>
    BY <1>2, <1>5 DEF PortInv, tx_ready
  <2>2. uart' = [uart EXCEPT !.thr = <<c>>]
    BY <1>2, <1>5, <2>1 DEF Written
  <2>3. <<c>> \in Seq(Nat) /\ Len(<<c>>) = 1
    OBVIOUS
  <2>4. /\ uart' \in U /\ uart'.thr = <<c>> /\ uart'.there
        /\ uart'.low = 3 /\ uart'.high = 0 /\ uart'.format = 3 /\ ~uart'.dlab
    BY <1>1, <1>5, <2>1, <2>2, <2>3
  <2>5. job' > 1 /\ job' # 1
    BY <1>1
  <2>6. PortInv'
    BY <1>3, <2>3, <2>4, <2>5 DEF PortInv
  <2>7. (line' \o uart'.thr) \o r = (line \o uart.thr) \o (<<c>> \o r)
    <3>1. line \in Seq(Nat)
      BY DEF TypeInv
    <3>2. (line \o <<c>>) \o r = line \o (<<c>> \o r) /\ line \o <<>> = line
      BY <2>3, <3>1, ConcatAssociative, ConcatEmptySeq
    <3>. QED
      BY <2>1, <2>4, <3>2
  <2>. QED
    BY <1>2, <1>5, <2>4, <2>6, <2>7
<1>. QED
  BY <1>4, <1>5

\* A call that is printing has set up the port, if there is one.
LEMMA PortReady ==
  ASSUME TypeInv, PortInv, at \notin {"next", "init"}, OnConsole \/ (HasPort /\ job > 1)
  PROVE  HasPort => job > 1
<1>1. job \in 1 .. Len(prog)
  BY CallFacts
<1>2. OnConsole /\ HasPort => job # 1
  BY DEF OnConsole, Call, HasPort
<1>. QED
  BY <1>1, <1>2

-----------------------------------------------------------------------------
(* One step of the printing of a string or a number.                       *)

Printing == {"string", "divide", "digits"}

\* The step prints what r has more than r2, and r2 is left.
Yields(r, r2) ==
  /\ IF OnConsole THEN uart' = uart /\ screen' \o r2 = screen \o r
     ELSE /\ screen' = screen /\ uart'.there = uart.there
          /\ uart.there => (line' \o uart'.thr) \o r2 = (line \o uart.thr) \o r
  /\ \/ job' = job /\ at' \in Printing /\ IsLeft(r2)'
     \/ Resume /\ r2 = <<>>

\* A step within a string or a number keeps the invariant if what it prints was first of what is left.
LEMMA KeepsPrinting ==
  ASSUME IInv, at \in Printing, UNCHANGED <<prog, line, p, arg>>, screen' \in Seq(Nat),
         \A r \in Seq(Nat) : IsLeft(r) => \E r2 \in Seq(Nat) : Yields(r, r2)
  PROVE  IdleInv' /\ ConsoleInv' /\ SerialInv'
<1>1. ProgramOK(prog) /\ job \in 1 .. Len(prog) /\ job \in Nat /\ at \notin {"next", "init", "format"}
  BY CallFacts DEF IInv, Printing
<1>2. prog' = prog /\ line' = line /\ p' = p /\ arg' = arg
  OBVIOUS
<1>3. CASE OnConsole
  <2>1. PICK k \in 0 .. Len(Call.pieces), i \in Nat, r \in Seq(Nat) :
          /\ Read(k, i) /\ IsLeft(r)
          /\ screen \o r = Said(prog, job - 1, TRUE)
                             \o (Flat(PieceTexts(Call.pieces), k) \o Part(Call.pieces[k + 1].val, i))
    BY <1>1, <1>3 DEF IInv, ConsoleInv
  <2>2. PICK r2 \in Seq(Nat) : Yields(r, r2)
    BY <2>1
  <2>3. i = 0 /\ p = Place(Call.pieces, k + 1) + i /\ arg = ArgPlace(Call.pieces, k + 1)
    BY <1>1, <2>1 DEF Read
  <2>4. /\ uart' = uart /\ screen' \o r2 = screen \o r /\ job' = job
        /\ at' \in Printing \cup {"format"} /\ IsLeft(r2)'
    BY <1>3, <2>2 DEF Yields, Resume, IsLeft
  <2>5. Call' = Call /\ OnConsole'
    BY <1>2, <1>3, <2>4 DEF Call, OnConsole
  <2>6. Read(k, i)'
    BY <1>2, <2>3, <2>5 DEF Read
  <2>7. Sent(job - 1, <<>>)'
    <3>1. Sent(job - 1, <<>>)
      BY <1>1, <1>3 DEF IInv, ConsoleInv
    <3>. QED
      BY <1>2, <2>4, <3>1 DEF Sent
  <2>8. at' \notin {"next", "init"}
    BY <2>4 DEF Printing
  <2>9. ConsoleInv'
    BY <1>2, <2>1, <2>4, <2>5, <2>6, <2>7 DEF ConsoleInv
  <2>. QED
    BY <2>5, <2>8, <2>9 DEF IdleInv, SerialInv
<1>4. CASE ~OnConsole
  <2>1. PICK r \in Seq(Nat) : IsLeft(r) /\ Sent(job, r)
    BY <1>1, <1>4 DEF IInv, SerialInv
  <2>2. /\ HasPort /\ job > 1 /\ Call.fn \in {"serial_puts", "serial_print_num"}
        /\ Shown(job - 1, <<>>)
    BY <1>1, <1>4 DEF IInv, SerialInv
  <2>3. PICK r2 \in Seq(Nat) : Yields(r, r2)
    BY <2>1
  <2>4. /\ screen' = screen /\ uart'.there = uart.there
        /\ uart'.there => (line' \o uart'.thr) \o r2 = Said(prog, job, FALSE)
    BY <1>4, <2>1, <2>3 DEF Yields, Sent
  <2>5. CASE job' = job /\ at' \in Printing /\ IsLeft(r2)'
    <3>1. Call' = Call /\ ~OnConsole' /\ HasPort' /\ job' > 1 /\ at' \notin {"next", "init", "format"}
      BY <1>2, <1>4, <2>2, <2>5 DEF Call, OnConsole, HasPort, Printing
    <3>2. Sent(job, r2)' /\ Shown(job - 1, <<>>)'
      BY <1>2, <2>2, <2>4, <2>5 DEF Sent, Shown
    <3>3. SerialInv'
      BY <2>2, <2>5, <3>1, <3>2 DEF SerialInv
    <3>. QED
      BY <3>1, <3>3 DEF IdleInv, ConsoleInv
  <2>6. CASE Resume /\ r2 = <<>>
    <3>1. at' = "next" /\ job' = job + 1 /\ job' - 1 = job
      BY <1>1, <1>4, <2>6 DEF Resume, Return
    <3>2. Said(prog, job, TRUE) = Said(prog, job - 1, TRUE)
      BY <1>1, <2>2, SaidByCall DEF Call
    <3>3. Sent(job - 1, <<>>)' /\ Shown(job - 1, <<>>)'
      BY <1>2, <2>2, <2>4, <2>6, <3>1, <3>2 DEF Sent, Shown
    <3>. QED
      BY <3>1, <3>3 DEF IdleInv, ConsoleInv, SerialInv
  <2>. QED
    BY <2>3, <2>5, <2>6 DEF Yields
<1>. QED
  BY <1>3, <1>4

\* A running call has its way out.
LEMMA WayOut ==
  ASSUME IInv, at \notin {"next", "init"}
  PROVE  /\ OnConsole \/ (HasPort /\ job > 1)
         /\ HasPort => job > 1
         /\ job \in Nat /\ job \in 1 .. Len(prog) /\ Len(prog) \in Nat
<1>1. OnConsole \/ (HasPort /\ job > 1)
  BY DEF IInv, SerialInv
<1>2. HasPort => job > 1
  BY <1>1, PortReady DEF IInv
<1>. QED
  BY <1>1, <1>2, CallFacts DEF IInv

\* A step that puts the first character of what is left.
LEMMA PutFirst ==
  ASSUME IInv, at \in Printing, NEW c \in Nat, putc(c), NEW r2 \in Seq(Nat),
         UNCHANGED <<prog, line>>, job' \in {job, job + 1}, at' # "init"
  PROVE  /\ PortInv' /\ screen' \in Seq(Nat)
         /\ IF OnConsole THEN uart' = uart /\ screen' \o r2 = screen \o (<<c>> \o r2)
            ELSE /\ screen' = screen /\ uart'.there = uart.there
                 /\ uart.there => (line' \o uart'.thr) \o r2 = (line \o uart.thr) \o (<<c>> \o r2)
<1>1. /\ (OnConsole \/ (HasPort /\ job > 1)) /\ (HasPort => job > 1) /\ job \in Nat
      /\ TypeInv /\ PortInv /\ screen \in Seq(Nat)
  <2>1. OnConsole \/ (HasPort /\ job > 1)
    BY WayOut DEF Printing
  <2>. QED
    BY <2>1, WayOut DEF IInv, Printing, TypeInv
<1>2. CASE OnConsole
  <2>1. uart' = uart /\ screen' \in Seq(Nat) /\ screen' \o r2 = screen \o (<<c>> \o r2)
    BY <1>1, <1>2, PutOnScreen
  <2>2. HasPort => job > 1
    BY WayOut DEF Printing
  <2>3. PortInv'
    BY <1>1, <2>1, <2>2, PortKept
  <2>. QED
    BY <1>2, <2>1, <2>3
<1>3. CASE ~OnConsole
  <2>1. HasPort /\ job > 1
    BY <1>1, <1>3
  <2>. QED
    BY <1>1, <1>3, <2>1, PutOnLine
<1>. QED
  BY <1>2, <1>3

\* One character of a string, or its end.
LEMMA StringStep == IInv /\ PrintString => IInv'
<1>. SUFFICES ASSUME IInv, PrintString PROVE IInv'
  OBVIOUS
<1>1. TypeInv /\ PortInv /\ at = "string" /\ at \in Printing /\ rest \in Seq(Nat) /\ screen \in Seq(Nat)
  BY DEF IInv, PrintString, Printing, TypeInv
<1>2. (HasPort => job > 1) /\ job \in Nat /\ job \in 1 .. Len(prog) /\ Len(prog) \in Nat
  BY <1>1, WayOut
<1>3. UNCHANGED <<prog, line, p, arg>> /\ UNCHANGED number
  BY DEF PrintString
<1>4. CASE rest = NoText
  <2>1. Resume /\ rest' = rest /\ screen' = screen /\ uart' = uart
    BY <1>4 DEF PrintString
  <2>2. job' \in {job, job + 1} /\ at' \in {"next", "format"} /\ (at' # "next" => job' = job)
    BY <2>1 DEF Resume, Return
  <2>3. PortInv'
    BY <1>1, <1>2, <1>3, <2>1, <2>2, PortKept
  <2>4. ASSUME NEW r \in Seq(Nat), IsLeft(r) PROVE \E r2 \in Seq(Nat) : Yields(r, r2)
    <3>1. r = <<>>
      BY <1>1, <1>4, <2>4 DEF IsLeft, NoText
    <3>2. Yields(r, <<>>)
      BY <1>3, <2>1, <3>1 DEF Yields
    <3>. QED
      BY <3>1, <3>2
  <2>5. IdleInv' /\ ConsoleInv' /\ SerialInv'
    BY <1>1, <1>3, <2>1, <2>4, KeepsPrinting
  <2>6. TypeInv'
    BY <1>1, <1>2, <1>3, <2>1, <2>2 DEF TypeInv, number
  <2>. QED
    BY <2>3, <2>5, <2>6 DEF IInv
<1>5. CASE rest # NoText
  <2>1. PICK c \in Nat, t \in Seq(Nat) : c = Head(rest) /\ t = Tail(rest) /\ rest = <<c>> \o t
    <3>1. rest \in Seq(Nat) /\ rest # <<>>
      BY <1>1, <1>5 DEF NoText
    <3>2. Head(rest) \in Nat /\ Tail(rest) \in Seq(Nat)
      BY <3>1, HeadTailProperties
    <3>3. <<Head(rest)>> \o Tail(rest) = rest
      BY <3>1
    <3>. QED
      BY <3>2, <3>3
  <2>2. putc(c) /\ rest' = t /\ at' = at /\ job' = job
    BY <1>5, <2>1 DEF PrintString
  <2>3. /\ PortInv' /\ screen' \in Seq(Nat)
        /\ IF OnConsole THEN uart' = uart /\ screen' \o t = screen \o (<<c>> \o t)
           ELSE /\ screen' = screen /\ uart'.there = uart.there
                /\ uart.there => (line' \o uart'.thr) \o t = (line \o uart.thr) \o (<<c>> \o t)
    BY <1>1, <1>3, <2>1, <2>2, PutFirst
  <2>4. ASSUME NEW r \in Seq(Nat), IsLeft(r) PROVE \E r2 \in Seq(Nat) : Yields(r, r2)
    <3>1. r = rest
      BY <1>1, <2>4 DEF IsLeft
    <3>2. IsLeft(t)'
      BY <1>1, <2>2 DEF IsLeft
    <3>3. Yields(r, t)
      BY <1>1, <2>1, <2>2, <2>3, <3>1, <3>2 DEF Yields
    <3>. QED
      BY <2>1, <3>3
  <2>5. IdleInv' /\ ConsoleInv' /\ SerialInv'
    BY <1>1, <1>3, <2>3, <2>4, KeepsPrinting
  <2>6. TypeInv'
    BY <1>1, <1>2, <1>3, <2>1, <2>2, <2>3 DEF TypeInv, number
  <2>. QED
    BY <2>3, <2>5, <2>6 DEF IInv
<1>. QED
  BY <1>4, <1>5

\* One pass of the loop that makes the digits.
LEMMA DivideStep == IInv /\ Divide => IInv'
<1>. SUFFICES ASSUME IInv, Divide PROVE IInv'
  OBVIOUS
<1>1. TypeInv /\ PortInv /\ at = "divide" /\ at \in Printing /\ screen \in Seq(Nat)
  BY DEF IInv, Divide, Printing, TypeInv
<1>2. (HasPort => job > 1) /\ job \in Nat /\ job \in 1 .. Len(prog) /\ Len(prog) \in Nat
  BY <1>1, WayOut
<1>3. /\ UNCHANGED <<prog, line, p, arg>>
      /\ UNCHANGED <<job, rest, base, upper, screen, uart>>
  BY DEF Divide
<1>4. \A r : IsLeft(r) =>
        /\ at' \in {"divide", "digits"} /\ v' \in 0 .. Power(2, LongBits) - 1
        /\ buf' \in Seq(Nat) /\ Len(buf') <= BufSize /\ IsLeft(r)'
  BY <1>1, NumberGrows
<1>5. \E r \in Seq(Nat) : IsLeft(r)
  BY <1>1 DEF IInv, ConsoleInv, SerialInv
<1>6. TypeInv'
  BY <1>1, <1>2, <1>3, <1>4, <1>5 DEF TypeInv
<1>7. PortInv'
  BY <1>1, <1>2, <1>3, <1>4, <1>5, PortKept
<1>8. ASSUME NEW r \in Seq(Nat), IsLeft(r) PROVE \E r2 \in Seq(Nat) : Yields(r, r2)
  <2>1. Yields(r, r)
    BY <1>3, <1>4, <1>8 DEF Yields, Printing
  <2>. QED
    BY <2>1
<1>9. IdleInv' /\ ConsoleInv' /\ SerialInv'
  BY <1>1, <1>3, <1>8, KeepsPrinting
<1>. QED
  BY <1>6, <1>7, <1>9 DEF IInv

\* One pass of the loop that prints them.
LEMMA DigitStep == IInv /\ PrintDigit => IInv'
<1>. SUFFICES ASSUME IInv, PrintDigit PROVE IInv'
  OBVIOUS
<1>1. TypeInv /\ PortInv /\ at = "digits" /\ at \in Printing /\ buf \in Seq(Nat) /\ Len(buf) <= BufSize
  BY DEF IInv, PrintDigit, Printing, TypeInv
<1>2. (HasPort => job > 1) /\ job \in Nat /\ job \in 1 .. Len(prog) /\ Len(prog) \in Nat
  BY <1>1, WayOut
<1>3. UNCHANGED <<prog, line, p, arg>> /\ UNCHANGED <<rest, v, base, upper>>
  BY DEF PrintDigit
<1>4. buf # <<>>
  BY <1>1 DEF IInv, ConsoleInv, SerialInv, IsLeft
<1>5. PICK c \in Nat, t \in Seq(Nat) :
        /\ c = Last(buf) /\ t = Reversed(Front(buf))
        /\ Front(buf) \in Seq(Nat) /\ Len(Front(buf)) = Len(buf) - 1
        /\ Reversed(buf) = <<c>> \o t
        /\ Len(buf) = 1 => t = <<>>
        /\ Len(buf) # 1 => Front(buf) # <<>>
  BY <1>1, <1>4, OneDigitLess
<1>6. putc(c) /\ buf' = Front(buf) /\ (IF Len(buf) = 1 THEN Resume ELSE UNCHANGED <<at, job>>)
  BY <1>5 DEF PrintDigit
<1>7. job' \in {job, job + 1} /\ at' \in {"next", "format", "digits"} /\ (at' # "next" => job' = job)
  BY <1>1, <1>6 DEF Resume, Return
<1>8. Len(buf') <= BufSize
  <2>1. Len(buf) \in Nat /\ BufSize \in Nat
    BY <1>1, LenProperties, BufferThere
  <2>. QED
    BY <1>1, <1>5, <1>6, <2>1
<1>9. (IsLeft(t)' /\ at' = "digits" /\ job' = job) \/ (Resume /\ t = <<>>)
  <2>1. CASE Len(buf) = 1
    BY <1>5, <1>6, <2>1
  <2>2. CASE Len(buf) # 1
    <3>1. at' = "digits" /\ job' = job /\ buf' # <<>> /\ t = Reversed(buf')
      BY <1>1, <1>5, <1>6, <2>2
    <3>. QED
      BY <3>1 DEF IsLeft
  <2>. QED
    BY <2>1, <2>2
<1>10. /\ PortInv' /\ screen' \in Seq(Nat)
       /\ IF OnConsole THEN uart' = uart /\ screen' \o t = screen \o (<<c>> \o t)
          ELSE /\ screen' = screen /\ uart'.there = uart.there
               /\ uart.there => (line' \o uart'.thr) \o t = (line \o uart.thr) \o (<<c>> \o t)
  BY <1>1, <1>3, <1>5, <1>6, <1>7, PutFirst
<1>11. ASSUME NEW r \in Seq(Nat), IsLeft(r) PROVE \E r2 \in Seq(Nat) : Yields(r, r2)
  <2>1. r = <<c>> \o t
    BY <1>1, <1>5, <1>11 DEF IsLeft
  <2>2. Yields(r, t)
    BY <1>9, <1>10, <2>1 DEF Yields, Printing
  <2>. QED
    BY <1>5, <2>2
<1>12. IdleInv' /\ ConsoleInv' /\ SerialInv'
  BY <1>1, <1>3, <1>10, <1>11, KeepsPrinting
<1>13. TypeInv'
  <2>1. /\ prog' \in Programs /\ p' \in Nat /\ arg' \in Nat /\ rest' \in Seq(Nat)
        /\ v' \in 0 .. Power(2, LongBits) - 1 /\ base' \in Bases /\ upper' \in BOOLEAN
        /\ line' \in Seq(Nat)
    BY <1>1, <1>3 DEF TypeInv
  <2>2. job' \in 1 .. Len(prog') + 1 /\ (at' # "next" => job' <= Len(prog'))
    BY <1>2, <1>3, <1>7
  <2>3. buf' \in Seq(Nat)
    BY <1>5, <1>6
  <2>. QED
    BY <1>7, <1>8, <1>10, <2>1, <2>2, <2>3 DEF TypeInv
<1>. QED
  BY <1>10, <1>12, <1>13 DEF IInv

-----------------------------------------------------------------------------
(* One pass of printf's loop over the format.                              *)

\* Where printf is before a pass of its loop: which pieces are on the screen, and how much of the next.
LEMMA FormatStarts ==
  ASSUME IInv, at = "format"
  PROVE  /\ OnConsole /\ Sent(job - 1, <<>>) /\ TypeInv /\ screen \in Seq(Nat)
         /\ PiecesOK(Call.pieces) /\ Len(Call.pieces) \in Nat
         /\ Said(prog, job - 1, TRUE) \in Seq(Nat)
         /\ \E k \in 0 .. Len(Call.pieces), i \in Nat :
              /\ Read(k, i)
              /\ screen = Said(prog, job - 1, TRUE)
                            \o (Flat(PieceTexts(Call.pieces), k) \o Part(Call.pieces[k + 1].val, i))
<1>1. OnConsole /\ Sent(job - 1, <<>>) /\ TypeInv /\ screen \in Seq(Nat)
  BY DEF IInv, SerialInv, ConsoleInv, TypeInv
<1>2. PICK k \in 0 .. Len(Call.pieces), i \in Nat, r \in Seq(Nat) :
        /\ Read(k, i) /\ IsLeft(r)
        /\ screen \o r = Said(prog, job - 1, TRUE)
                           \o (Flat(PieceTexts(Call.pieces), k) \o Part(Call.pieces[k + 1].val, i))
  BY <1>1 DEF IInv, ConsoleInv
<1>3. screen \o r = screen
  <2>1. r = <<>>
    BY <1>2 DEF IsLeft
  <2>. QED
    BY <1>1, <2>1, ConcatEmptySeq
<1>4. PiecesOK(Call.pieces) /\ Len(Call.pieces) \in Nat
  BY <1>1, FormatFacts
<1>5. Said(prog, job - 1, TRUE) \in Seq(Nat)
  BY <1>1, CallFacts, SaidByCall
<1>. QED
  BY <1>1, <1>2, <1>3, <1>4, <1>5

\* Nothing of a piece is printed before its first character.
LEMMA NoPart ==
  ASSUME NEW s \in Seq(Nat), NEW x
  PROVE  s \o Part(x, 0) = s
<1>1. Part(x, 0) = <<>>
  BY DEF Part
<1>. QED
  BY <1>1, ConcatEmptySeq

\* At a % with a letter printf is at a conversion, with its own argument next,
\* and all the pieces before it are on the screen.
LEMMA AtConversion ==
  ASSUME IInv, at = "format", Format[p] = Code("%"), Format[Letter] # NUL
  PROVE  \E k \in 0 .. Len(Call.pieces) - 1 :
           /\ PieceOK(Call.pieces[k + 1]) /\ Call.pieces[k + 1].conv \in Convs
           /\ Format[Letter] = Code(Call.pieces[k + 1].conv)
           /\ Letter \in Nat /\ Letter + 1 = Place(Call.pieces, k + 2)
           /\ Call.pieces[k + 1].conv # "p" => Width = WidthOf(Call.pieces[k + 1])
           /\ IF TakesSlot(Call.pieces[k + 1])
              THEN Slots[arg] = Slot(Call.pieces[k + 1]) /\ arg + 1 = ArgPlace(Call.pieces, k + 2)
              ELSE arg = ArgPlace(Call.pieces, k + 2)
           /\ screen = Said(prog, job - 1, TRUE) \o Flat(PieceTexts(Call.pieces), k)
<1>1. OnConsole /\ TypeInv /\ Len(Call.pieces) \in Nat /\ PiecesOK(Call.pieces)
  BY FormatStarts
<1>2. PICK k \in 0 .. Len(Call.pieces), i \in Nat :
        /\ Read(k, i)
        /\ screen = Said(prog, job - 1, TRUE)
                      \o (Flat(PieceTexts(Call.pieces), k) \o Part(Call.pieces[k + 1].val, i))
  BY FormatStarts
<1>. DEFINE pc == Call.pieces[k + 1]
<1>3. Code("%") # NUL
  BY Codes DEF NUL
<1>4. /\ k < Len(Call.pieces) /\ i = 0 /\ pc.conv \in Convs \cup {"end"} /\ PieceOK(pc)
      /\ Letter \in Nat
      /\ pc.conv = "end" => Format[Letter] = NUL
      /\ pc.conv \in Convs =>
           Format[Letter] = Code(pc.conv) /\ Letter + 1 = Place(Call.pieces, k + 2)
      /\ pc.conv # "p" => Width = WidthOf(pc)
      /\ IF TakesSlot(pc)
         THEN Slots[arg] = Slot(pc) /\ arg + 1 = ArgPlace(Call.pieces, k + 2)
         ELSE arg = ArgPlace(Call.pieces, k + 2)
  BY <1>1, <1>2, <1>3, HereIs
<1>5. Flat(PieceTexts(Call.pieces), k) \o Part(pc.val, i) = Flat(PieceTexts(Call.pieces), k)
  <2>1. Flat(PieceTexts(Call.pieces), k) \in Seq(Nat)
    BY <1>1, <1>2, PieceByPiece
  <2>. QED
    BY <1>4, <2>1, NoPart
<1>6. k \in 0 .. Len(Call.pieces) - 1
  BY <1>1, <1>4
<1>. QED
  BY <1>2, <1>4, <1>5, <1>6

\* At the NUL, after a % too, all the pieces are on the screen.
LEMMA AtTheEnd ==
  ASSUME IInv, at = "format", Format[p] = NUL \/ (Format[p] = Code("%") /\ Format[Letter] = NUL)
  PROVE  screen = Said(prog, job - 1, TRUE) \o TextOf(Call)
<1>1. OnConsole /\ TypeInv /\ Len(Call.pieces) \in Nat /\ PiecesOK(Call.pieces)
  BY FormatStarts
<1>2. PICK k \in 0 .. Len(Call.pieces), i \in Nat :
        /\ Read(k, i)
        /\ screen = Said(prog, job - 1, TRUE)
                      \o (Flat(PieceTexts(Call.pieces), k) \o Part(Call.pieces[k + 1].val, i))
  BY FormatStarts
<1>. DEFINE pc == Call.pieces[k + 1]
            n == Len(Call.pieces)
            f(m) == Flat(PieceTexts(Call.pieces), m)
<1>3. TextOf(Call) = f(n)
  BY <1>1, FormatFacts
<1>4. /\ Code("%") # NUL
      /\ \A c \in Convs : Code(c) # NUL
  BY Codes, LetterCode DEF NUL
<1>5. i = 0 /\ (k = n \/ (k + 1 = n /\ pc.conv = "end"))
  BY <1>1, <1>2, <1>4, HereIs
<1>6. f(k) \in Seq(Nat) /\ f(k) \o Part(pc.val, i) = f(k)
  <2>1. f(k) \in Seq(Nat)
    BY <1>1, <1>2, PieceByPiece
  <2>. QED
    BY <1>5, <2>1, NoPart
<1>7. f(k) = f(n)
  <2>1. CASE k = n
    BY <2>1
  <2>2. CASE k + 1 = n /\ pc.conv = "end"
    <3>1. k \in 0 .. n - 1
      BY <1>1, <2>2
    <3>2. f(k + 1) = f(k) \o Text(pc)
      BY <1>1, <3>1, PieceByPiece
    <3>3. Text(pc) = NoText
      BY <2>2 DEF Text
    <3>4. f(k) \o NoText = f(k)
      BY <1>6, ConcatEmptySeq DEF NoText
    <3>. QED
      BY <2>2, <3>2, <3>3, <3>4
  <2>. QED
    BY <1>5, <2>1, <2>2
<1>. QED
  BY <1>2, <1>3, <1>6, <1>7

\* After a conversion the text of its piece is printed, or begun.
LEMMA PieceDone ==
  ASSUME IInv, at = "format", NEW k \in 0 .. Len(Call.pieces) - 1,
         screen = Said(prog, job - 1, TRUE) \o Flat(PieceTexts(Call.pieces), k),
         UNCHANGED <<prog, job, line, uart>>, at' \in Printing \cup {"format"},
         p' = Place(Call.pieces, k + 2), arg' = ArgPlace(Call.pieces, k + 2),
         NEW r \in Seq(Nat), IsLeft(r)',
         screen' \o r = screen \o Text(Call.pieces[k + 1])
  PROVE  PortInv' /\ IdleInv' /\ ConsoleInv' /\ SerialInv'
<1>1. /\ OnConsole /\ Sent(job - 1, <<>>) /\ PiecesOK(Call.pieces) /\ Len(Call.pieces) \in Nat
      /\ Said(prog, job - 1, TRUE) \in Seq(Nat)
  BY FormatStarts
<1>2. prog' = prog /\ job' = job /\ line' = line /\ uart' = uart
  OBVIOUS
<1>3. Call' = Call /\ OnConsole' /\ at' \notin {"next", "init"}
  BY <1>1, <1>2 DEF Call, OnConsole, Printing
<1>4. Sent(job - 1, <<>>)'
  BY <1>1, <1>2 DEF Sent
<1>. DEFINE n == Len(Call.pieces)
            f(m) == Flat(PieceTexts(Call.pieces), m)
            t == Text(Call.pieces[k + 1])
            s == Said(prog, job - 1, TRUE)
<1>5. /\ k \in 0 .. n /\ k + 1 \in 0 .. n /\ k + 1 \in Nat /\ (k + 1) + 1 = k + 2
      /\ f(k) \in Seq(Nat) /\ f(k + 1) \in Seq(Nat) /\ t \in Seq(Nat) /\ f(k + 1) = f(k) \o t
  <2>1. k \in 0 .. n /\ k + 1 \in 0 .. n /\ k + 1 \in Nat /\ (k + 1) + 1 = k + 2
    BY <1>1
  <2>. QED
    BY <1>1, <2>1, PieceByPiece
<1>6. screen' \o r = s \o (f(k + 1) \o Part(Call.pieces[(k + 1) + 1].val, 0))
  <2>1. f(k + 1) \o Part(Call.pieces[(k + 1) + 1].val, 0) = f(k + 1)
    BY <1>5, NoPart
  <2>2. screen = s \o f(k)
    OBVIOUS
  <2>3. screen' \o r = screen \o t
    OBVIOUS
  <2>. HIDE DEF s, f, t
  <2>4. (s \o f(k)) \o t = s \o (f(k) \o t)
    <3>1. s \in Seq(Nat) /\ f(k) \in Seq(Nat) /\ t \in Seq(Nat)
      BY <1>1, <1>5 DEF s
    <3>. QED
      BY <3>1, Regroup
  <2>. QED
    BY <1>5, <2>1, <2>2, <2>3, <2>4
<1>7. Place(Call.pieces, k + 2) \in Nat
  <2>1. k + 2 \in 1 .. n + 1
    BY <1>1, <1>5
  <2>. QED
    BY <1>1, <2>1, FormatShape
<1>8. Read(k + 1, 0)'
  <2>1. Place(Call.pieces, k + 2) + 0 = Place(Call.pieces, k + 2)
    BY <1>7
  <2>. QED
    BY <1>3, <1>5, <2>1 DEF Read
<1>9. ConsoleInv'
  BY <1>2, <1>3, <1>4, <1>5, <1>6, <1>8 DEF ConsoleInv
<1>10. PortInv'
  <2>1. HasPort => job > 1
    BY WayOut
  <2>2. job \in Nat /\ PortInv
    BY WayOut DEF IInv
  <2>. QED
    BY <1>2, <1>3, <2>1, <2>2, PortKept
<1>. QED
  BY <1>3, <1>9, <1>10 DEF IdleInv, SerialInv

\* No two conversions have the same letter.
LEMMA LettersDiffer ==
  ASSUME NEW c \in Convs, NEW d \in Convs, Code(c) = Code(d)
  PROVE  c = d
<1>1. /\ c \in {"d", "i", "u", "x", "X", "p", "s", "c", "%", "q"}
      /\ d \in {"d", "i", "u", "x", "X", "p", "s", "c", "%", "q"}
  BY DEF Convs, Numbers
<1>. QED
  BY <1>1, Codes

\* A conversion of a number.
LEMMA NumberStep == IInv /\ ConvertNumber => IInv'
<1>. SUFFICES ASSUME IInv, ConvertNumber PROVE IInv'
  OBVIOUS
<1>1. /\ at = "format" /\ Format[p] = Code("%") /\ Format[Letter] \in {Code(c) : c \in Numbers}
      /\ prog' = prog /\ line' = line /\ uart' = uart /\ job' = job /\ rest' = rest
      /\ p' = Letter + 1 /\ arg' = arg + 1
  BY DEF ConvertNumber, Conversion, InFormat
<1>2. OnConsole /\ TypeInv /\ screen \in Seq(Nat) /\ job \in 1 .. Len(prog) /\ Len(prog) \in Nat
  BY <1>1, FormatStarts, CallFacts
<1>3. PICK c \in Numbers : Format[Letter] = Code(c)
  BY <1>1
<1>4. c \in Convs /\ Code(c) # NUL
  BY LetterCode DEF Convs
<1>5. PICK k \in 0 .. Len(Call.pieces) - 1 :
        /\ PieceOK(Call.pieces[k + 1]) /\ Call.pieces[k + 1].conv \in Convs
        /\ Format[Letter] = Code(Call.pieces[k + 1].conv)
        /\ Letter \in Nat /\ Letter + 1 = Place(Call.pieces, k + 2)
        /\ Call.pieces[k + 1].conv # "p" => Width = WidthOf(Call.pieces[k + 1])
        /\ IF TakesSlot(Call.pieces[k + 1])
           THEN Slots[arg] = Slot(Call.pieces[k + 1]) /\ arg + 1 = ArgPlace(Call.pieces, k + 2)
           ELSE arg = ArgPlace(Call.pieces, k + 2)
        /\ screen = Said(prog, job - 1, TRUE) \o Flat(PieceTexts(Call.pieces), k)
  BY <1>1, <1>3, <1>4, AtConversion
<1>. DEFINE pc == Call.pieces[k + 1]
<1>6. pc.conv \in Numbers
  BY <1>3, <1>4, <1>5, LettersDiffer
<1>7. Slots[arg] = Slot(pc) /\ arg + 1 = ArgPlace(Call.pieces, k + 2)
  BY <1>5, <1>6 DEF TakesSlot
<1>8. PICK pre \in Seq(Nat), n \in 0 .. Power(2, LongBits) - 1, b \in Bases, up \in BOOLEAN :
        /\ NumberFor(Code(pc.conv), Slot(pc)) = <<pre, n, b, up>>
        /\ Text(pc) = pre \o Numeral(n, b, up)
  BY <1>5, <1>6, NumberText
<1>9. screen' = screen \o pre /\ print_unsigned(n, b, up)
  <2>. DEFINE w == NumberFor(Format[Letter], Slots[arg])
  <2>1. screen' = screen \o w[1] /\ print_unsigned(w[2], w[3], w[4])
    BY DEF ConvertNumber
  <2>2. w = <<pre, n, b, up>>
    BY <1>5, <1>7, <1>8
  <2>. HIDE DEF w
  <2>3. w[1] = pre /\ w[2] = n /\ w[3] = b /\ w[4] = up
    BY <2>2
  <2>. QED
    BY <2>1, <2>3
<1>10. PICK r \in Seq(Nat) : r = Numeral(n, b, up)
  BY NumeralType
<1>11. /\ at' \in {"divide", "digits"}
       /\ v' \in 0 .. Power(2, LongBits) - 1 /\ base' \in Bases /\ upper' \in BOOLEAN
       /\ buf' \in Seq(Nat) /\ Len(buf') <= BufSize
       /\ IsLeft(r)'
  <2>1. IsLeft(Numeral(n, b, up))'
    BY <1>9, NumberStarts
  <2>. QED
    BY <1>9, <1>10, <2>1, NumberStarts
<1>12. screen' \in Seq(Nat) /\ screen' \o r = screen \o Text(pc)
  <2>1. screen' \in Seq(Nat)
    BY <1>2, <1>9, ConcatProperties
  <2>2. (screen \o pre) \o r = screen \o (pre \o r)
    BY <1>2, Regroup
  <2>3. Text(pc) = pre \o r
    BY <1>8, <1>10
  <2>. QED
    BY <1>9, <2>1, <2>2, <2>3
<1>13. at' \in Printing \cup {"format"}
  BY <1>11 DEF Printing
<1>14. p' = Place(Call.pieces, k + 2) /\ arg' = ArgPlace(Call.pieces, k + 2)
  BY <1>1, <1>5, <1>7
<1>15. PortInv' /\ IdleInv' /\ ConsoleInv' /\ SerialInv'
  BY <1>1, <1>5, <1>11, <1>12, <1>13, <1>14, PieceDone
<1>16. TypeInv'
  <2>1. prog \in Programs /\ arg \in Nat /\ rest \in Seq(Nat) /\ line \in Seq(Nat)
    BY <1>2 DEF TypeInv
  <2>2. p' \in Nat /\ arg' \in Nat
    BY <1>1, <1>5, <2>1
  <2>. QED
    BY <1>1, <1>2, <1>11, <1>12, <2>1, <2>2 DEF TypeInv
<1>. QED
  BY <1>15, <1>16 DEF IInv

\* %% and letters that are no conversion.
LEMMA OtherLetterStep == IInv /\ OtherLetter => IInv'
<1>. SUFFICES ASSUME IInv, OtherLetter PROVE IInv'
  OBVIOUS
<1>1. /\ at = "format" /\ Format[p] = Code("%") /\ Format[Letter] \notin Known \cup {NUL}
      /\ prog' = prog /\ line' = line /\ uart' = uart /\ job' = job /\ rest' = rest
      /\ UNCHANGED <<at, arg>> /\ UNCHANGED <<v, base, upper, buf>>
      /\ p' = Letter + 1
  BY DEF OtherLetter, InFormat, number
<1>2. OnConsole /\ TypeInv /\ screen \in Seq(Nat) /\ job \in 1 .. Len(prog) /\ Len(prog) \in Nat
  BY <1>1, FormatStarts, CallFacts
<1>5. PICK k \in 0 .. Len(Call.pieces) - 1 :
        /\ PieceOK(Call.pieces[k + 1]) /\ Call.pieces[k + 1].conv \in Convs
        /\ Format[Letter] = Code(Call.pieces[k + 1].conv)
        /\ Letter \in Nat /\ Letter + 1 = Place(Call.pieces, k + 2)
        /\ IF TakesSlot(Call.pieces[k + 1])
           THEN Slots[arg] = Slot(Call.pieces[k + 1]) /\ arg + 1 = ArgPlace(Call.pieces, k + 2)
           ELSE arg = ArgPlace(Call.pieces, k + 2)
        /\ screen = Said(prog, job - 1, TRUE) \o Flat(PieceTexts(Call.pieces), k)
  BY <1>1, AtConversion
<1>. DEFINE pc == Call.pieces[k + 1]
<1>6. pc.conv \in {"%", "q"}
  BY <1>1, <1>5 DEF Known, Convs
<1>7. ~TakesSlot(pc)
  BY <1>6 DEF TakesSlot, Numbers
<1>8. screen' = screen \o Text(pc)
  <2>1. screen' = screen \o (IF Format[Letter] = Code("%") THEN <<Code("%")>> ELSE <<Code("%"), Format[Letter]>>)
    BY DEF OtherLetter
  <2>2. CASE pc.conv = "%"
    <3>1. Text(pc) = <<Code("%")>>
      BY <2>2 DEF Text
    <3>. QED
      BY <1>5, <2>1, <2>2, <3>1
  <2>3. CASE pc.conv = "q"
    <3>1. Text(pc) = <<Code("%"), Code("q")>>
      BY <2>3 DEF Text
    <3>2. Format[Letter] = Code("q") /\ Code("q") # Code("%")
      BY <1>5, <2>3, Codes
    <3>. QED
      BY <2>1, <3>1, <3>2
  <2>. QED
    BY <1>6, <2>2, <2>3
<1>9. screen' \in Seq(Nat)
  BY <1>2, <1>5, <1>8, TextType, ConcatProperties
<1>10. screen' \o <<>> = screen \o Text(pc) /\ <<>> \in Seq(Nat)
  BY <1>8, <1>9, ConcatEmptySeq
<1>11. IsLeft(<<>>)' /\ at' \in Printing \cup {"format"}
  BY <1>1 DEF IsLeft
<1>12. p' = Place(Call.pieces, k + 2) /\ arg' = ArgPlace(Call.pieces, k + 2)
  BY <1>1, <1>5, <1>7
<1>13. PortInv' /\ IdleInv' /\ ConsoleInv' /\ SerialInv'
  BY <1>1, <1>5, <1>10, <1>11, <1>12, PieceDone
<1>14. TypeInv'
  <2>1. p' \in Nat
    BY <1>1, <1>5
  <2>. QED
    BY <1>1, <1>2, <1>9, <2>1 DEF TypeInv
<1>. QED
  BY <1>13, <1>14 DEF IInv

\* The conversion s.
LEMMA StringBegins == IInv /\ ConvertString => IInv'
<1>. SUFFICES ASSUME IInv, ConvertString PROVE IInv'
  OBVIOUS
<1>1. /\ at = "format" /\ Format[p] = Code("%") /\ Format[Letter] = Code("s")
      /\ prog' = prog /\ line' = line /\ uart' = uart /\ job' = job /\ screen' = screen
      /\ rest' = StringFor(Slots[arg]) /\ at' = "string"
      /\ UNCHANGED <<v, base, upper, buf>>
      /\ p' = Letter + 1 /\ arg' = arg + 1
  BY DEF ConvertString, Conversion, InFormat, number
<1>2. OnConsole /\ TypeInv /\ screen \in Seq(Nat) /\ job \in 1 .. Len(prog) /\ Len(prog) \in Nat
  BY <1>1, FormatStarts, CallFacts
<1>3. "s" \in Convs /\ Code("s") # NUL
  BY LetterCode DEF Convs
<1>4. PICK k \in 0 .. Len(Call.pieces) - 1 :
        /\ PieceOK(Call.pieces[k + 1]) /\ Call.pieces[k + 1].conv \in Convs
        /\ Format[Letter] = Code(Call.pieces[k + 1].conv)
        /\ Letter \in Nat /\ Letter + 1 = Place(Call.pieces, k + 2)
        /\ IF TakesSlot(Call.pieces[k + 1])
           THEN Slots[arg] = Slot(Call.pieces[k + 1]) /\ arg + 1 = ArgPlace(Call.pieces, k + 2)
           ELSE arg = ArgPlace(Call.pieces, k + 2)
        /\ screen = Said(prog, job - 1, TRUE) \o Flat(PieceTexts(Call.pieces), k)
  BY <1>1, <1>3, AtConversion
<1>. DEFINE pc == Call.pieces[k + 1]
<1>5. pc.conv = "s"
  BY <1>1, <1>3, <1>4, LettersDiffer
<1>6. Slots[arg] = pc.val /\ arg + 1 = ArgPlace(Call.pieces, k + 2)
  BY <1>4, <1>5 DEF TakesSlot, Slot, Numbers
<1>7. PICK t \in Seq(Nat) : t = Text(pc)
  BY <1>4, TextType
<1>8. rest' = t
  BY <1>1, <1>5, <1>6, <1>7 DEF Text, StringFor
<1>9. screen' \o t = screen \o Text(pc) /\ IsLeft(t)' /\ at' \in Printing \cup {"format"}
  BY <1>1, <1>7, <1>8 DEF IsLeft, Printing
<1>10. p' = Place(Call.pieces, k + 2) /\ arg' = ArgPlace(Call.pieces, k + 2)
  BY <1>1, <1>4, <1>6
<1>11. PortInv' /\ IdleInv' /\ ConsoleInv' /\ SerialInv'
  BY <1>1, <1>4, <1>9, <1>10, PieceDone
<1>12. TypeInv'
  <2>1. p' \in Nat /\ arg' \in Nat
    BY <1>1, <1>2, <1>4 DEF TypeInv
  <2>. QED
    BY <1>1, <1>2, <1>8, <2>1 DEF TypeInv
<1>. QED
  BY <1>11, <1>12 DEF IInv

\* The conversion c.
LEMMA CharStep == IInv /\ ConvertChar => IInv'
<1>. SUFFICES ASSUME IInv, ConvertChar PROVE IInv'
  OBVIOUS
<1>1. /\ at = "format" /\ Format[p] = Code("%") /\ Format[Letter] = Code("c")
      /\ prog' = prog /\ line' = line /\ uart' = uart /\ job' = job
      /\ putc(Slots[arg] % 256)
      /\ UNCHANGED <<at, rest>> /\ UNCHANGED <<v, base, upper, buf>>
      /\ p' = Letter + 1 /\ arg' = arg + 1
  BY DEF ConvertChar, Conversion, InFormat, number
<1>2. OnConsole /\ TypeInv /\ screen \in Seq(Nat) /\ job \in 1 .. Len(prog) /\ Len(prog) \in Nat
  BY <1>1, FormatStarts, CallFacts
<1>3. "c" \in Convs /\ Code("c") # NUL
  BY LetterCode DEF Convs
<1>4. PICK k \in 0 .. Len(Call.pieces) - 1 :
        /\ PieceOK(Call.pieces[k + 1]) /\ Call.pieces[k + 1].conv \in Convs
        /\ Format[Letter] = Code(Call.pieces[k + 1].conv)
        /\ Letter \in Nat /\ Letter + 1 = Place(Call.pieces, k + 2)
        /\ IF TakesSlot(Call.pieces[k + 1])
           THEN Slots[arg] = Slot(Call.pieces[k + 1]) /\ arg + 1 = ArgPlace(Call.pieces, k + 2)
           ELSE arg = ArgPlace(Call.pieces, k + 2)
        /\ screen = Said(prog, job - 1, TRUE) \o Flat(PieceTexts(Call.pieces), k)
  BY <1>1, <1>3, AtConversion
<1>. DEFINE pc == Call.pieces[k + 1]
<1>5. pc.conv = "c"
  BY <1>1, <1>3, <1>4, LettersDiffer
<1>6. Slots[arg] = pc.val /\ arg + 1 = ArgPlace(Call.pieces, k + 2)
  BY <1>4, <1>5 DEF TakesSlot, Slot, Numbers
<1>7. PICK c \in 0 .. 255 : c = pc.val
  BY <1>4, <1>5 DEF PieceOK
<1>8. c % 256 = c /\ c \in Nat
  OBVIOUS
<1>9. putc(c) /\ Text(pc) = <<c>>
  BY <1>1, <1>5, <1>6, <1>7, <1>8 DEF Text
<1>10. screen' \in Seq(Nat) /\ screen' \o <<>> = screen \o Text(pc) /\ <<>> \in Seq(Nat)
  <2>1. screen' = Append(screen, c)
    BY <1>2, <1>9 DEF putc
  <2>. QED
    BY <1>2, <1>8, <1>9, <2>1, AppendIsConcat, PutBehind, ConcatEmptySeq
<1>11. IsLeft(<<>>)' /\ at' \in Printing \cup {"format"}
  BY <1>1 DEF IsLeft
<1>12. p' = Place(Call.pieces, k + 2) /\ arg' = ArgPlace(Call.pieces, k + 2)
  BY <1>1, <1>4, <1>6
<1>13. PortInv' /\ IdleInv' /\ ConsoleInv' /\ SerialInv'
  BY <1>1, <1>4, <1>10, <1>11, <1>12, PieceDone
<1>14. TypeInv'
  <2>1. p' \in Nat /\ arg' \in Nat
    BY <1>1, <1>2, <1>4 DEF TypeInv
  <2>. QED
    BY <1>1, <1>2, <1>10, <2>1 DEF TypeInv
<1>. QED
  BY <1>13, <1>14 DEF IInv

\* The end of the format.
LEMMA EndStep == IInv /\ FormatEnds => IInv'
<1>. SUFFICES ASSUME IInv, FormatEnds PROVE IInv'
  OBVIOUS
<1>1. /\ at = "format" /\ (Format[p] = NUL \/ (Format[p] = Code("%") /\ Format[Letter] = NUL))
      /\ prog' = prog /\ line' = line /\ uart' = uart /\ screen' = screen
      /\ at' = "next" /\ job' = job + 1
      /\ UNCHANGED <<p, arg, rest>> /\ UNCHANGED <<v, base, upper, buf>>
  BY DEF FormatEnds, InFormat, Return, number
<1>2. /\ OnConsole /\ Sent(job - 1, <<>>) /\ TypeInv /\ screen \in Seq(Nat)
      /\ ProgramOK(prog) /\ job \in 1 .. Len(prog) /\ Len(prog) \in Nat /\ job \in Nat
  BY <1>1, FormatStarts, CallFacts
<1>3. screen = Said(prog, job - 1, TRUE) \o TextOf(Call)
  BY <1>1, AtTheEnd
<1>4. /\ Said(prog, job, TRUE) = Said(prog, job - 1, TRUE) \o TextOf(prog[job])
      /\ Said(prog, job, FALSE) = Said(prog, job - 1, FALSE)
  BY <1>2, SaidByCall DEF OnConsole, Call
<1>5. job' - 1 = job
  BY <1>1, <1>2
<1>6. Shown(job - 1, <<>>)' /\ Sent(job - 1, <<>>)'
  <2>1. screen \o <<>> = screen
    BY <1>2, ConcatEmptySeq
  <2>2. screen' \o <<>> = Said(prog', job' - 1, TRUE)
    BY <1>1, <1>3, <1>4, <1>5, <2>1 DEF Call
  <2>3. uart'.there => (line' \o uart'.thr) \o <<>> = Said(prog', job' - 1, FALSE)
    BY <1>1, <1>2, <1>4, <1>5 DEF Sent
  <2>. QED
    BY <2>2, <2>3 DEF Shown, Sent
<1>7. IdleInv' /\ ConsoleInv' /\ SerialInv'
  BY <1>1, <1>6 DEF IdleInv, ConsoleInv, SerialInv
<1>8. PortInv'
  <2>1. (HasPort => job > 1) /\ PortInv
    BY <1>1, WayOut DEF IInv
  <2>. QED
    BY <1>1, <1>2, <2>1, PortKept
<1>9. TypeInv'
  BY <1>1, <1>2 DEF TypeInv
<1>. QED
  BY <1>7, <1>8, <1>9 DEF IInv

\* The screen shows what was said before, the pieces read, and part of the next.
Joins(y, a, b, d) == y = a \o (b \o d)
\* A character more at the end of a text is one more at the end of the screen.
LEMMA OneCharacterMore ==
  ASSUME NEW a \in Seq(Nat), NEW b \in Seq(Nat), NEW d \in Seq(Nat), NEW c \in Nat,
         NEW y, Joins(y, a, b, d), NEW z, z = Append(y, c), NEW w, w = Append(d, c)
  PROVE  z \in Seq(Nat) /\ Joins(z, a, b, w)
<1>1. <<c>> \in Seq(Nat) /\ b \o d \in Seq(Nat) /\ a \o (b \o d) \in Seq(Nat)
  BY ConcatProperties
<1>2. z = (a \o (b \o d)) \o <<c>> /\ w = d \o <<c>>
  BY <1>1, AppendIsConcat DEF Joins
<1>3. (a \o (b \o d)) \o <<c>> = a \o ((b \o d) \o <<c>>)
  BY <1>1, Regroup, ZenonT(60)
<1>4. (b \o d) \o <<c>> = b \o (d \o <<c>>)
  BY <1>1, Regroup, SMTT(60)
<1>5. z \in Seq(Nat)
  BY <1>1, PutBehind DEF Joins
<1>. QED
  BY <1>2, <1>3, <1>4, <1>5 DEF Joins

\* A character of a text in the format.
LEMMA PlainStep == IInv /\ PlainCharacter => IInv'
<1>. SUFFICES ASSUME IInv, PlainCharacter PROVE IInv'
  OBVIOUS
<1>1. /\ at = "format" /\ Format[p] \notin {Code("%"), NUL}
      /\ prog' = prog /\ line' = line /\ uart' = uart /\ job' = job
      /\ putc(Format[p]) /\ p' = p + 1
      /\ UNCHANGED <<at, arg, rest>> /\ UNCHANGED <<v, base, upper, buf>>
  BY DEF PlainCharacter, InFormat, number
<1>2. /\ OnConsole /\ Sent(job - 1, <<>>) /\ TypeInv /\ screen \in Seq(Nat)
      /\ PiecesOK(Call.pieces) /\ Len(Call.pieces) \in Nat
      /\ Said(prog, job - 1, TRUE) \in Seq(Nat)
      /\ job \in 1 .. Len(prog) /\ Len(prog) \in Nat
  BY <1>1, FormatStarts, CallFacts
<1>3. PICK k \in 0 .. Len(Call.pieces), i \in Nat :
        /\ Read(k, i)
        /\ screen = Said(prog, job - 1, TRUE)
                      \o (Flat(PieceTexts(Call.pieces), k) \o Part(Call.pieces[k + 1].val, i))
  BY <1>1, FormatStarts
<1>. DEFINE n == Len(Call.pieces)
            pc == Call.pieces[k + 1]
            f(m) == Flat(PieceTexts(Call.pieces), m)
            s == Said(prog, job - 1, TRUE)
<1>4. /\ k < n /\ pc.conv = "text" /\ pc.val \in Seq(Nat) /\ i + 1 \in 1 .. Len(pc.val)
      /\ Format[p] = pc.val[i + 1]
      /\ i + 1 = Len(pc.val) => p + 1 = Place(Call.pieces, k + 2)
      /\ arg = ArgPlace(Call.pieces, k + 2)
  BY <1>1, <1>2, <1>3, HereIs
<1>5. PICK val, c : /\ val = pc.val /\ c = Format[p] /\ c = val[i + 1]
                   /\ val \in Seq(Nat) /\ c \in Nat
  BY <1>4, ElementOfSeq
<1>6. Len(val) \in Nat /\ i \in 0 .. Len(val) /\ i \in 0 .. Len(val) - 1 /\ i + 1 \in 0 .. Len(val)
  BY <1>4, <1>5, LenProperties
<1>7. /\ Part(val, i) \in Seq(Nat) /\ Part(val, i + 1) \in Seq(Nat)
      /\ Part(val, i + 1) = Append(Part(val, i), c) /\ Part(val, Len(val)) = val
  <2>1. /\ Part(val, Len(val)) = val
        /\ \A m \in 0 .. Len(val) : Part(val, m) \in Seq(Nat)
        /\ \A m \in 0 .. Len(val) - 1 : Part(val, m + 1) = Append(Part(val, m), val[m + 1])
    BY <1>5, PartSteps
  <2>. QED
    BY <1>5, <1>6, <2>1
<1>8. /\ k \in 0 .. n - 1 /\ k + 1 \in 0 .. n /\ k + 1 \in Nat /\ (k + 1) + 1 = k + 2
      /\ f(k) \in Seq(Nat) /\ f(k + 1) \in Seq(Nat) /\ f(k + 1) = f(k) \o Text(pc)
  <2>1. k \in 0 .. n - 1 /\ k + 1 \in 0 .. n /\ k + 1 \in Nat /\ (k + 1) + 1 = k + 2
    <3>1. PICK l \in Nat : l = n
      BY <1>2
    <3>2. k \in 0 .. l /\ k < l
      BY <1>4, <3>1
    <3>. QED
      BY <3>1, <3>2
  <2>. QED
    BY <1>2, <1>3, <2>1, PieceByPiece
<1>9. screen' \in Seq(Nat) /\ screen' = s \o (f(k) \o Part(val, i + 1))
  <2>1. screen' = Append(screen, c)
    BY <1>1, <1>2, <1>5 DEF putc
  <2>2. screen = s \o (f(k) \o Part(val, i))
    BY <1>3, <1>5
  <2>3. PICK a, b, d, y, z, w :
          /\ a = s /\ b = f(k) /\ d = Part(val, i) /\ y = screen /\ z = screen' /\ w = Part(val, i + 1)
    OBVIOUS
  <2>4. a \in Seq(Nat) /\ b \in Seq(Nat) /\ d \in Seq(Nat) /\ c \in Nat
    BY <1>2, <1>5, <1>7, <1>8, <2>3
  <2>5. Joins(y, a, b, d) /\ z = Append(y, c) /\ w = Append(d, c)
    BY <1>7, <2>1, <2>2, <2>3 DEF Joins
  <2>6. z \in Seq(Nat) /\ Joins(z, a, b, w)
    BY <2>4, <2>5, OneCharacterMore
  <2>. QED
    BY <2>3, <2>6 DEF Joins
<1>10. screen' \o <<>> = screen' /\ <<>> \in Seq(Nat) /\ IsLeft(<<>>)'
  BY <1>1, <1>9, ConcatEmptySeq DEF IsLeft
<1>11. Call' = Call /\ OnConsole' /\ at' \notin {"next", "init"} /\ at' # "init"
  BY <1>1, <1>2 DEF Call, OnConsole
<1>12. Sent(job - 1, <<>>)'
  BY <1>1, <1>2 DEF Sent
<1>13. /\ p = Place(Call.pieces, k + 1) + i /\ arg = ArgPlace(Call.pieces, k + 1)
       /\ Place(Call.pieces, k + 1) \in Nat /\ p \in Nat
  <2>1. k + 1 \in 1 .. n + 1
    BY <1>2, <1>8
  <2>. QED
    BY <1>2, <1>3, <2>1, FormatShape DEF Read, TypeInv
<1>14. \E m \in 0 .. n, j \in Nat :
         /\ Read(m, j)'
         /\ screen' = s \o (f(m) \o Part(Call.pieces[m + 1].val, j))
  <2>1. CASE i + 1 = Len(val)
    <3>1. Read(k + 1, 0)'
      <4>1. p' = Place(Call.pieces, k + 2) + 0 /\ arg' = ArgPlace(Call.pieces, k + 2)
        BY <1>1, <1>4, <1>5, <1>13, <2>1
      <4>. QED
        BY <1>8, <1>11, <4>1 DEF Read
    <3>2. Text(pc) = val
      BY <1>4, <1>5 DEF Text
    <3>3. f(k + 1) \o Part(Call.pieces[(k + 1) + 1].val, 0) = f(k + 1)
      BY <1>8, NoPart
    <3>4. screen' = s \o (f(k + 1) \o Part(Call.pieces[(k + 1) + 1].val, 0))
      BY <1>7, <1>8, <1>9, <2>1, <3>2, <3>3
    <3>. QED
      BY <1>8, <3>1, <3>4
  <2>2. CASE i + 1 # Len(val)
    <3>1. i + 1 \in Nat /\ i + 1 < Len(val) /\ p' = Place(Call.pieces, k + 1) + (i + 1)
      <4>1. PICK l \in Nat, x \in Nat : l = Len(val) /\ x = Place(Call.pieces, k + 1) /\ p = x + i
        BY <1>6, <1>13
      <4>2. i \in 0 .. l - 1 /\ i + 1 # l /\ p' = p + 1
        BY <1>1, <1>6, <2>2, <4>1
      <4>3. i + 1 \in Nat /\ i + 1 < l /\ p' = x + (i + 1)
        BY <4>1, <4>2
      <4>. QED
        BY <4>1, <4>3
    <3>2. Read(k, i + 1)'
      BY <1>1, <1>4, <1>5, <1>11, <1>13, <3>1 DEF Read
    <3>. QED
      BY <1>5, <1>9, <3>1, <3>2
  <2>. QED
    BY <2>1, <2>2
<1>15. ConsoleInv'
  BY <1>1, <1>10, <1>11, <1>12, <1>14 DEF ConsoleInv
<1>16. IdleInv' /\ SerialInv'
  BY <1>11 DEF IdleInv, SerialInv
<1>17. PortInv'
  <2>1. (HasPort => job > 1) /\ PortInv /\ job \in Nat
    BY <1>1, WayOut DEF IInv
  <2>. QED
    BY <1>1, <1>11, <2>1, PortKept
<1>18. TypeInv'
  <2>1. p' \in Nat
    BY <1>1, <1>13
  <2>2. screen' \in Seq(Nat)
    BY <1>9
  <2>. QED
    BY <1>1, <1>2, <2>1, <2>2 DEF TypeInv
<1>. QED
  BY <1>15, <1>16, <1>17, <1>18 DEF IInv

-----------------------------------------------------------------------------
(* Between the calls, and the port.                                        *)

\* A call of the serial port begins with its whole text to print.
LEMMA SerialBegins ==
  ASSUME IInv, at = "next", job <= Len(prog), Call.fn \in {"serial_puts", "serial_print_num"},
         UNCHANGED <<prog, job, screen, uart, line>>, at' \in Printing, IsLeft(TextOf(Call))'
  PROVE  PortInv' /\ IdleInv' /\ ConsoleInv' /\ SerialInv'
<1>1. /\ ProgramOK(prog) /\ Len(prog) \in Nat /\ job \in Nat /\ job \in 1 .. Len(prog)
      /\ screen \in Seq(Nat)
  BY CallFacts DEF IInv, TypeInv
<1>2. prog' = prog /\ job' = job /\ screen' = screen /\ uart' = uart /\ line' = line
  OBVIOUS
<1>3. /\ Call' = Call /\ ~OnConsole /\ ~OnConsole' /\ HasPort' = HasPort
      /\ at' \notin {"next", "init", "format"} /\ at' # "init"
  BY <1>2 DEF Call, OnConsole, HasPort, Printing
<1>4. HasPort /\ job > 1
  <2>1. DOMAIN prog = 1 .. Len(prog) /\ \A j \in DOMAIN prog :
          prog[j].fn \in {"serial_puts", "serial_print_num"} => prog[1].fn = "serial_init"
    BY <1>1 DEF ProgramOK
  <2>2. prog[1].fn = "serial_init"
    BY <1>1, <2>1 DEF Call
  <2>3. job # 1
    BY <2>2 DEF Call
  <2>. QED
    BY <1>1, <2>2, <2>3 DEF HasPort
<1>5. Shown(job - 1, <<>>) /\ Sent(job - 1, <<>>)
  BY DEF IInv, IdleInv
<1>6. TextOf(Call) \in Seq(Nat) /\ Said(prog, job, FALSE) = Said(prog, job - 1, FALSE) \o TextOf(Call)
  BY <1>1, SaidByCall DEF Call
<1>7. Sent(job, TextOf(Call))
  <2>. SUFFICES ASSUME uart.there PROVE (line \o uart.thr) \o TextOf(Call) = Said(prog, job, FALSE)
    BY DEF Sent
  <2>1. (line \o uart.thr) \o <<>> = Said(prog, job - 1, FALSE)
    BY <1>5 DEF Sent
  <2>2. line \o uart.thr \in Seq(Nat)
    <3>1. line \in Seq(Nat) /\ uart.thr \in Seq(Nat)
      BY DEF IInv, TypeInv, PortInv
    <3>. QED
      BY <3>1, ConcatProperties
  <2>3. (line \o uart.thr) \o <<>> = line \o uart.thr
    BY <2>2, ConcatEmptySeq
  <2>. QED
    BY <1>6, <2>1, <2>3
<1>8. PICK r \in Seq(Nat) : r = TextOf(Call)
  BY <1>6
<1>9. IsLeft(r)' /\ Sent(job, r)' /\ Shown(job - 1, <<>>)'
  <2>1. TextOf(Call)' = TextOf(Call)
    BY <1>3
  <2>2. IsLeft(r)'
    BY <1>8, <2>1
  <2>. QED
    BY <1>2, <1>5, <1>7, <1>8, <2>2 DEF Sent, Shown
<1>10. SerialInv'
  BY <1>2, <1>3, <1>4, <1>9 DEF SerialInv
<1>11. PortInv'
  BY <1>1, <1>2, <1>3, <1>4, PortKept DEF IInv
<1>. QED
  BY <1>3, <1>10, <1>11 DEF IdleInv, ConsoleInv

\* The entry of a call.
LEMMA BeginStep == IInv /\ Begin => IInv'
<1>. SUFFICES ASSUME IInv, Begin PROVE IInv'
  OBVIOUS
<1>1. /\ at = "next" /\ job <= Len(prog) /\ p' = 1 /\ arg' = 1
      /\ prog' = prog /\ job' = job /\ screen' = screen /\ uart' = uart /\ line' = line
  BY DEF Begin
<1>2. /\ TypeInv /\ PortInv /\ ProgramOK(prog) /\ Len(prog) \in Nat /\ job \in Nat
      /\ job \in 1 .. Len(prog) /\ job - 1 \in 0 .. Len(prog)
      /\ screen \in Seq(Nat) /\ Shown(job - 1, <<>>) /\ Sent(job - 1, <<>>)
  BY <1>1, CallFacts DEF IInv, TypeInv, IdleInv
<1>3. CallOK(Call) /\ Call' = Call /\ (OnConsole' <=> OnConsole) /\ HasPort' = HasPort
  BY <1>1, <1>2 DEF ProgramOK, Call, OnConsole, HasPort
<1>4. /\ prog' \in Programs /\ job' \in 1 .. Len(prog') + 1 /\ job' <= Len(prog')
      /\ p' \in Nat /\ arg' \in Nat /\ screen' \in Seq(Nat) /\ line' \in Seq(Nat)
  BY <1>1, <1>2 DEF TypeInv
<1>5. CASE Call.fn = "serial_init"
  <2>1. at' = "init" /\ UNCHANGED rest /\ UNCHANGED <<v, base, upper, buf>>
    BY <1>5 DEF Begin, number
  <2>2. job = 1 /\ HasPort
    <3>1. job = 1
      BY <1>2, <1>5 DEF ProgramOK, Call
    <3>. QED
      BY <1>2, <1>5, <3>1 DEF HasPort, Call
  <2>3. TypeInv'
    BY <1>2, <1>4, <2>1 DEF TypeInv
  <2>4. PortInv'
    <3>1. uart' = uart /\ line' = line /\ job' = 1 /\ p' = 1 /\ HasPort'
      BY <1>1, <1>3, <2>2
    <3>2. line = <<>> /\ uart.thr = <<>>
      BY <1>2, <2>2 DEF PortInv
    <3>. QED
      BY <1>2, <3>1, <3>2 DEF PortInv
  <2>5. IdleInv' /\ ConsoleInv' /\ SerialInv'
    <3>1. Shown(job - 1, <<>>)' /\ Sent(job - 1, <<>>)'
      BY <1>1, <1>2 DEF Shown, Sent
    <3>. QED
      BY <2>1, <3>1 DEF IdleInv, ConsoleInv, SerialInv
  <2>. QED
    BY <2>3, <2>4, <2>5 DEF IInv
<1>6. CASE Call.fn = "serial_puts"
  <2>1. at' = "string" /\ rest' = Call.text /\ UNCHANGED <<v, base, upper, buf>>
    BY <1>6 DEF Begin, number
  <2>2. TextOf(Call) = Call.text /\ Call.text \in Seq(Nat)
    <3>1. TextOf(Call) = Call.text
      BY <1>6 DEF TextOf
    <3>2. TextOf(Call) \in Seq(Nat)
      BY <1>3, CallTextType
    <3>. QED
      BY <3>1, <3>2
  <2>3. IsLeft(TextOf(Call))' /\ at' \in Printing
    BY <1>3, <2>1, <2>2 DEF IsLeft, Printing
  <2>4. PortInv' /\ IdleInv' /\ ConsoleInv' /\ SerialInv'
    BY <1>1, <1>6, <2>3, SerialBegins
  <2>5. TypeInv'
    BY <1>2, <1>4, <2>1, <2>2 DEF TypeInv
  <2>. QED
    BY <2>4, <2>5 DEF IInv
<1>7. CASE Call.fn = "serial_print_num"
  <2>1. print_unsigned(Call.n, 10, FALSE) /\ rest' = rest
    BY <1>7 DEF Begin
  <2>2. PICK n \in 0 .. Power(2, LongBits) - 1 : n = Call.n
    BY <1>3, <1>7 DEF CallOK
  <2>3. TextOf(Call) = Numeral(n, 10, FALSE) /\ 10 \in Bases
    BY <1>7, <2>2 DEF TextOf, Bases
  <2>4. /\ at' \in {"divide", "digits"}
        /\ v' \in 0 .. Power(2, LongBits) - 1 /\ base' \in Bases /\ upper' \in BOOLEAN
        /\ buf' \in Seq(Nat) /\ Len(buf') <= BufSize
        /\ IsLeft(Numeral(n, 10, FALSE))'
    BY <2>1, <2>2, <2>3, NumberStarts
  <2>5. IsLeft(TextOf(Call))' /\ at' \in Printing
    <3>1. TextOf(Call)' = Numeral(n, 10, FALSE)
      BY <1>3, <2>3
    <3>. QED
      BY <2>4, <3>1 DEF Printing
  <2>6. PortInv' /\ IdleInv' /\ ConsoleInv' /\ SerialInv'
    BY <1>1, <1>7, <2>5, SerialBegins
  <2>7. TypeInv'
    BY <1>2, <1>4, <2>1, <2>4 DEF TypeInv
  <2>. QED
    BY <2>6, <2>7 DEF IInv
<1>8. CASE Call.fn = "printf"
  <2>1. at' = "format" /\ UNCHANGED rest /\ UNCHANGED <<v, base, upper, buf>>
    BY <1>8 DEF Begin, number
  <2>2. OnConsole' /\ OnConsole /\ at' \notin {"next", "init"} /\ at' # "init"
    BY <1>3, <1>8, <2>1 DEF OnConsole
  <2>3. TypeInv'
    BY <1>2, <1>4, <2>1 DEF TypeInv
  <2>4. PortInv'
    <3>1. HasPort => job > 1
      BY <1>2, <1>8 DEF HasPort, Call
    <3>. QED
      BY <1>1, <1>2, <2>2, <3>1, PortKept
  <2>5. PiecesOK(Call.pieces) /\ Len(Call.pieces) \in Nat
    <3>1. PiecesOK(Call.pieces)
      BY <1>3, <1>8, CallTextType
    <3>. QED
      BY <3>1 DEF PiecesOK
  <2>6. Read(0, 0)'
    <3>1. Place(Call.pieces, 0 + 1) + 0 = 1 /\ ArgPlace(Call.pieces, 0 + 1) = 1
      BY <2>5, FormatShape, SlotIs
    <3>. QED
      BY <1>1, <1>3, <3>1 DEF Read
  <2>7. Said(prog, job - 1, TRUE)
          \o (Flat(PieceTexts(Call.pieces), 0) \o Part(Call.pieces[0 + 1].val, 0))
        = Said(prog, job - 1, TRUE)
    <3>1. Flat(PieceTexts(Call.pieces), 0) = <<>> /\ <<>> \in Seq(Nat)
      BY FlatNone
    <3>2. Flat(PieceTexts(Call.pieces), 0) \o Part(Call.pieces[0 + 1].val, 0) = <<>>
      BY <3>1, NoPart
    <3>3. Said(prog, job - 1, TRUE) \in Seq(Nat)
      BY <1>2, SaidByCall
    <3>. QED
      BY <3>2, <3>3, ConcatEmptySeq
  <2>8. ConsoleInv'
    <3>1. Sent(job - 1, <<>>)'
      BY <1>1, <1>2 DEF Sent
    <3>2. IsLeft(<<>>)' /\ <<>> \in Seq(Nat) /\ 0 \in Nat /\ 0 \in 0 .. Len(Call.pieces)
      BY <2>1, <2>5 DEF IsLeft
    <3>3. screen' \o <<>> = Said(prog, job - 1, TRUE)
            \o (Flat(PieceTexts(Call.pieces), 0) \o Part(Call.pieces[0 + 1].val, 0))
      BY <1>1, <1>2, <2>7 DEF Shown
    <3>. QED
      BY <1>1, <1>3, <2>6, <3>1, <3>2, <3>3 DEF ConsoleInv
  <2>9. IdleInv' /\ SerialInv'
    BY <2>2 DEF IdleInv, SerialInv
  <2>. QED
    BY <2>3, <2>4, <2>8, <2>9 DEF IInv
<1>. QED
  BY <1>3, <1>5, <1>6, <1>7, <1>8, CallTextType

\* A write to a register other than that of the data sends nothing.
LEMMA WrittenType ==
  ASSUME NEW port, NEW byte \in Nat,
         uart \in [there : BOOLEAN, dlab : BOOLEAN, low : Nat, high : Nat, format : Nat, thr : Seq(Nat)],
         ~uart.there => uart.thr = <<>>, uart.thr = <<>>, port # 0 \/ uart.dlab
  PROVE  /\ Written(port, byte) \in
              [there : BOOLEAN, dlab : BOOLEAN, low : Nat, high : Nat, format : Nat, thr : Seq(Nat)]
         /\ Written(port, byte).thr = <<>>
         /\ Written(port, byte).there = uart.there
<1>1. byte % 128 \in Nat /\ <<>> \in Seq(Nat) /\ (byte >= 128) \in BOOLEAN
  OBVIOUS
<1>2. \/ Written(port, byte) = uart
      \/ Written(port, byte) = [uart EXCEPT !.low = byte]
      \/ Written(port, byte) = [uart EXCEPT !.high = byte]
      \/ Written(port, byte) = [uart EXCEPT !.thr = <<>>]
      \/ Written(port, byte) = [uart EXCEPT !.dlab = byte >= 128, !.format = byte % 128]
  BY DEF Written
<1>. QED
  BY <1>1, <1>2, ZenonT(60)

\* serial_init's seven writes leave the port at 38400 baud, 8N1, with DLAB clear.
LEMMA InitStep == IInv /\ serial_init => IInv'
<1>. SUFFICES ASSUME IInv, serial_init PROVE IInv'
  OBVIOUS
<1>. DEFINE U == [there : BOOLEAN, dlab : BOOLEAN, low : Nat, high : Nat, format : Nat, thr : Seq(Nat)]
<1>1. /\ at = "init" /\ prog' = prog /\ line' = line /\ screen' = screen
      /\ UNCHANGED <<arg, rest>> /\ UNCHANGED <<v, base, upper, buf>>
  BY DEF serial_init, number
<1>2. /\ TypeInv /\ PortInv /\ ProgramOK(prog) /\ Len(prog) \in Nat /\ 1 \in 1 .. Len(prog)
      /\ job = 1 /\ HasPort /\ p \in 1 .. 8 /\ screen \in Seq(Nat)
      /\ line = <<>> /\ uart.thr = <<>> /\ uart \in U
      /\ Shown(job - 1, <<>>) /\ Sent(job - 1, <<>>)
  <2>1. TypeInv /\ PortInv /\ Shown(job - 1, <<>>) /\ Sent(job - 1, <<>>)
    BY <1>1 DEF IInv, IdleInv
  <2>2. ProgramOK(prog) /\ Len(prog) \in Nat /\ job \in 1 .. Len(prog)
    BY <1>1, <2>1, CallFacts
  <2>3. job = 1 /\ HasPort /\ p \in 1 .. 8
    BY <1>1, <2>1 DEF PortInv
  <2>4. line = <<>> /\ uart.thr = <<>> /\ uart \in U
    BY <2>1, <2>3 DEF PortInv
  <2>. QED
    BY <2>1, <2>2, <2>3, <2>4 DEF TypeInv
<1>3. /\ uart.there =>
           /\ p \in 3 .. 5 => uart.dlab
           /\ p >= 4 => uart.low = 3
           /\ p >= 5 => uart.high = 0
           /\ p >= 6 => ~uart.dlab /\ uart.format = 3
  BY <1>1, <1>2 DEF PortInv
<1>4. HasPort' /\ Len(InitWrites) = 7
  BY <1>1, <1>2 DEF HasPort, InitWrites
<1>5. CASE p = 8
  <2>1. p' = p /\ uart' = uart /\ at' = "next" /\ job' = job + 1 /\ job' = 2 /\ job' - 1 = 1
    BY <1>2, <1>4, <1>5 DEF serial_init, Return
  <2>2. PortInv'
    <3>1. uart.there => uart.low = 3 /\ uart.high = 0 /\ uart.format = 3 /\ ~uart.dlab
      BY <1>3, <1>5
    <3>. QED
      BY <1>1, <1>2, <1>4, <2>1, <3>1 DEF PortInv
  <2>3. /\ Said(prog, 1, TRUE) = Said(prog, 0, TRUE) /\ Said(prog, 1, FALSE) = Said(prog, 0, FALSE)
    <3>0. prog[1].fn = "serial_init" /\ 1 - 1 = 0
      BY <1>2 DEF HasPort
    <3>1. Said(prog, 0, FALSE) = <<>> /\ prog[1].fn # "printf"
      BY <1>2, <3>0, SaidByCall
    <3>2. /\ Said(prog, 1, FALSE) = Said(prog, 1 - 1, FALSE) \o TextOf(prog[1])
          /\ Said(prog, 1, TRUE) = Said(prog, 1 - 1, TRUE)
      BY <1>2, <3>1, SaidByCall
    <3>3. TextOf(prog[1]) = <<>>
      BY <3>0 DEF TextOf, NoText
    <3>4. <<>> \o <<>> = <<>>
      OBVIOUS
    <3>. QED
      BY <3>0, <3>1, <3>2, <3>3, <3>4
  <2>4. Shown(job - 1, <<>>)' /\ Sent(job - 1, <<>>)'
    <3>1. Shown(0, <<>>) /\ Sent(0, <<>>)
      BY <1>2
    <3>. QED
      BY <1>1, <2>1, <2>3, <3>1 DEF Shown, Sent
  <2>5. TypeInv'
    BY <1>1, <1>2, <2>1 DEF TypeInv
  <2>. QED
    BY <2>1, <2>2, <2>4, <2>5 DEF IInv, IdleInv, ConsoleInv, SerialInv
<1>6. ASSUME p \in 1 .. 7 PROVE TypeInv'
  <2>1. ~(p > Len(InitWrites))
    BY <1>4, <1>6
  <2>2. p' = p + 1 /\ at' = at /\ job' = job
    BY <2>1 DEF serial_init
  <2>3. p' \in Nat
    BY <1>6, <2>2
  <2>. QED
    BY <1>1, <1>2, <2>2, <2>3 DEF TypeInv
<1>7. CASE p \in 1 .. 7
  <2>1. p' = p + 1 /\ at' = at /\ job' = job /\ uart' = Written(InitWrites[p][1], InitWrites[p][2])
    <3>1. ~(p > Len(InitWrites))
      BY <1>4, <1>7
    <3>. QED
      BY <3>1 DEF serial_init, outb
  <2>2. PICK port, byte \in Nat :
          /\ port = InitWrites[p][1] /\ byte = InitWrites[p][2] /\ uart' = Written(port, byte)
          /\ <<p, port, byte>> \in {<<1, 1, 0>>, <<2, 3, 128>>, <<3, 0, 3>>, <<4, 1, 0>>,
                                    <<5, 3, 3>>, <<6, 2, 199>>, <<7, 4, 11>>}
    <3>1. p = 1 \/ p = 2 \/ p = 3 \/ p = 4 \/ p = 5 \/ p = 6 \/ p = 7
      BY <1>7
    <3>. QED
      BY <2>1, <3>1 DEF InitWrites
  <2>3. CASE ~uart.there
    <3>1. uart' = uart
      BY <2>2, <2>3 DEF Written
    <3>2. PortInv'
      BY <1>1, <1>2, <1>4, <1>7, <2>1, <2>3, <3>1 DEF PortInv
    <3>3. Shown(job - 1, <<>>)' /\ Sent(job - 1, <<>>)'
      BY <1>1, <1>2, <2>1, <3>1 DEF Shown, Sent
    <3>. QED
      BY <1>1, <1>6, <1>7, <2>1, <3>2, <3>3 DEF IInv, IdleInv, ConsoleInv, SerialInv
  <2>4. CASE uart.there
    <3>1. port # 0 \/ uart.dlab
      BY <1>3, <2>2, <2>4
    <3>2. uart' \in U /\ uart'.thr = <<>> /\ uart'.there
      BY <1>2, <2>2, <2>4, <3>1, WrittenType, ZenonT(60)
    <3>3. /\ p' \in 3 .. 5 => uart'.dlab
          /\ p' >= 4 => uart'.low = 3
          /\ p' >= 5 => uart'.high = 0
          /\ p' >= 6 => ~uart'.dlab /\ uart'.format = 3
      <4>1. CASE p = 1
        BY <2>1, <4>1
      <4>2. CASE p = 2
        <5>1. port = 3 /\ byte = 128 /\ p' = 3
          BY <2>1, <2>2, <4>2
        <5>2. uart' = [uart EXCEPT !.dlab = byte >= 128, !.format = byte % 128]
          BY <2>2, <2>4, <5>1 DEF Written
        <5>3. uart'.dlab = (byte >= 128)
          BY <1>2, <5>2
        <5>4. byte >= 128
          BY <5>1
        <5>5. uart'.dlab
          BY <5>3, <5>4
        <5>. QED
          BY <5>1, <5>5
      <4>3. CASE p = 3
        <5>1. port = 0 /\ byte = 3 /\ p' = 4
          BY <2>1, <2>2, <4>3
        <5>2. uart.dlab
          BY <1>3, <2>4, <4>3
        <5>4. uart' = [uart EXCEPT !.low = 3]
          BY <2>2, <2>4, <5>1, <5>2 DEF Written
        <5>5. uart'.dlab /\ uart'.low = 3
          BY <1>2, <5>2, <5>4
        <5>. QED
          BY <5>1, <5>5
      <4>4. CASE p = 4
        <5>1. port = 1 /\ byte = 0 /\ p' = 5
          BY <2>1, <2>2, <4>4
        <5>2. uart.dlab /\ uart.low = 3
          BY <1>3, <2>4, <4>4
        <5>4. uart' = [uart EXCEPT !.high = 0]
          BY <2>2, <2>4, <5>1, <5>2 DEF Written
        <5>5. uart'.dlab /\ uart'.low = 3 /\ uart'.high = 0
          BY <1>2, <5>2, <5>4
        <5>. QED
          BY <5>1, <5>5
      <4>5. CASE p = 5
        <5>1. port = 3 /\ byte = 3 /\ p' = 6
          BY <2>1, <2>2, <4>5
        <5>2. uart.low = 3 /\ uart.high = 0
          BY <1>3, <2>4, <4>5
        <5>3. uart' = [uart EXCEPT !.dlab = byte >= 128, !.format = byte % 128]
          BY <2>2, <2>4, <5>1 DEF Written
        <5>4. uart'.dlab = (byte >= 128) /\ uart'.format = byte % 128 /\ uart'.low = 3 /\ uart'.high = 0
          BY <1>2, <5>2, <5>3
        <5>5. ~uart'.dlab /\ uart'.format = 3 /\ uart'.low = 3 /\ uart'.high = 0
          <6>1. ~(byte >= 128) /\ byte % 128 = 3
            BY <5>1
          <6>. QED
            BY <5>4, <6>1
        <5>. QED
          BY <5>1, <5>5
      <4>6. CASE p = 6
        <5>1. port = 2 /\ byte = 199 /\ p' = 7
          BY <2>1, <2>2, <4>6
        <5>2. uart.low = 3 /\ uart.high = 0 /\ ~uart.dlab /\ uart.format = 3
          BY <1>3, <2>4, <4>6
        <5>4. uart' = [uart EXCEPT !.thr = <<>>]
          BY <2>2, <2>4, <5>1, <5>2 DEF Written
        <5>5. ~uart'.dlab /\ uart'.format = 3 /\ uart'.low = 3 /\ uart'.high = 0
          BY <1>2, <5>2, <5>4
        <5>. QED
          BY <5>1, <5>5
      <4>7. CASE p = 7
        <5>1. port = 4 /\ byte = 11 /\ p' = 8
          BY <2>1, <2>2, <4>7
        <5>2. uart.low = 3 /\ uart.high = 0 /\ ~uart.dlab /\ uart.format = 3
          BY <1>3, <2>4, <4>7
        <5>4. uart' = uart
          BY <2>2, <2>4, <5>1, <5>2 DEF Written
        <5>5. ~uart'.dlab /\ uart'.format = 3 /\ uart'.low = 3 /\ uart'.high = 0
          BY <1>2, <5>2, <5>4
        <5>. QED
          BY <5>1, <5>5
      <4>. QED
        BY <1>7, <4>1, <4>2, <4>3, <4>4, <4>5, <4>6, <4>7
    <3>4. p' \in 1 .. 8 /\ job' = 1 /\ Len(<<>>) = 0
      BY <1>2, <1>7, <2>1
    <3>5. PortInv'
      BY <1>1, <1>2, <1>4, <3>2, <3>3, <3>4 DEF PortInv
    <3>6. Shown(job - 1, <<>>)' /\ Sent(job - 1, <<>>)'
      BY <1>1, <1>2, <2>1, <2>4, <3>2 DEF Shown, Sent
    <3>. QED
      BY <1>1, <1>6, <1>7, <2>1, <3>5, <3>6 DEF IInv, IdleInv, ConsoleInv, SerialInv
  <2>. QED
    BY <2>3, <2>4
<1>. QED
  BY <1>2, <1>5, <1>7

\* What was in the port is on the line: the other end has read it.
LEMMA TransmitStep == IInv /\ Transmit => IInv'
<1>. SUFFICES ASSUME IInv, Transmit PROVE IInv'
  OBVIOUS
<1>. DEFINE U == [there : BOOLEAN, dlab : BOOLEAN, low : Nat, high : Nat, format : Nat, thr : Seq(Nat)]
<1>1. /\ prog' = prog /\ job' = job /\ at' = at /\ p' = p /\ arg' = arg /\ rest' = rest
      /\ v' = v /\ base' = base /\ upper' = upper /\ buf' = buf /\ screen' = screen
      /\ uart.thr # <<>> /\ uart' = [uart EXCEPT !.thr = <<>>]
      /\ line' = line \o (IF uart.low = 3 /\ uart.high = 0 /\ uart.format = 3 THEN uart.thr ELSE <<NUL>>)
  BY DEF Transmit, number
<1>2. TypeInv /\ PortInv /\ uart \in U /\ line \in Seq(Nat) /\ uart.thr \in Seq(Nat) /\ job \in Nat /\ job \in 1 .. Len(prog) + 1
  BY CallFacts DEF IInv, PortInv, TypeInv
<1>3. uart.there /\ HasPort /\ job > 1
  BY <1>1, <1>2 DEF PortInv
<1>4. uart.low = 3 /\ uart.high = 0 /\ uart.format = 3 /\ ~uart.dlab /\ at # "init"
  BY <1>2, <1>3 DEF PortInv
<1>5. line' = line \o uart.thr /\ line' \in Seq(Nat) /\ line' \o <<>> = line'
  <2>1. line' = line \o uart.thr
    BY <1>1, <1>4
  <2>2. line \o uart.thr \in Seq(Nat)
    BY <1>2, ConcatProperties
  <2>. QED
    BY <2>1, <2>2, ConcatEmptySeq
<1>6. /\ uart' \in U /\ uart'.thr = <<>> /\ uart'.there /\ uart'.low = 3 /\ uart'.high = 0
      /\ uart'.format = 3 /\ ~uart'.dlab
  <2>1. <<>> \in Seq(Nat)
    OBVIOUS
  <2>. QED
    BY <1>1, <1>2, <1>3, <1>4, <2>1
<1>7. TypeInv'
  BY <1>1, <1>2, <1>5 DEF TypeInv
<1>8. PortInv'
  <2>1. HasPort' /\ Len(<<>>) = 0
    BY <1>1, <1>3 DEF HasPort
  <2>. QED
    BY <1>1, <1>3, <1>4, <1>6, <2>1 DEF PortInv
<1>9. line' \o uart'.thr = line \o uart.thr
  BY <1>5, <1>6
<1>10. \A k, r : (Sent(k, r) => Sent(k, r)') /\ (Shown(k, r) => Shown(k, r)')
  BY <1>1, <1>3, <1>9 DEF Sent, Shown
<1>11. Call' = Call /\ (OnConsole' <=> OnConsole) /\ HasPort' = HasPort
  BY <1>1 DEF Call, OnConsole, HasPort
<1>12. \A r : IsLeft(r) => IsLeft(r)'
  BY <1>1 DEF IsLeft
<1>13. \A k, i : Read(k, i) => Read(k, i)'
  BY <1>1, <1>11 DEF Read
<1>14. Sent(job - 1, <<>>) => Sent(job - 1, <<>>)'
  BY <1>1, <1>3, <1>9 DEF Sent
<1>15. Shown(job - 1, <<>>) => Shown(job - 1, <<>>)'
  BY <1>1 DEF Shown
<1>16. \A r : Sent(job, r) => Sent(job, r)'
  BY <1>1, <1>3, <1>9 DEF Sent
<1>17. IdleInv'
  BY <1>1, <1>14, <1>15 DEF IInv, IdleInv
<1>18. ConsoleInv'
  BY <1>1, <1>11, <1>12, <1>13, <1>14 DEF IInv, ConsoleInv
<1>19. SerialInv'
  BY <1>1, <1>11, <1>12, <1>15, <1>16 DEF IInv, SerialInv
<1>. QED
  BY <1>7, <1>8, <1>17, <1>18, <1>19 DEF IInv

-----------------------------------------------------------------------------
(* The theorems.                                                           *)

\* The invariant holds before the first call.
LEMMA Starts == Init => IInv
<1>. SUFFICES ASSUME Init PROVE IInv
  OBVIOUS
<1>1. /\ prog \in Programs /\ job = 1 /\ at = "next" /\ p = 1 /\ arg = 1 /\ rest = <<>>
      /\ v = 0 /\ base = 10 /\ upper = FALSE /\ buf = <<>> /\ screen = <<>> /\ line = <<>>
      /\ uart \in [there : BOOLEAN, dlab : BOOLEAN, low : {1}, high : {0}, format : {2}, thr : {<<>>}]
  BY DEF Init, NoText
<1>2. ProgramOK(prog) /\ Len(prog) \in Nat
  BY <1>1, ProgramsAssumption DEF ProgramOK
<1>3. <<>> \in Seq(Nat) /\ Len(<<>>) = 0 /\ BufSize \in Nat \ {0}
  BY BufferThere
<1>4. 0 \in 0 .. Power(2, LongBits) - 1
  <2>1. Power(2, LongBits) \in Nat \ {0}
    BY WidthAssumption, PowerType
  <2>. QED
    BY <2>1
<1>5. TypeInv
  <2>1. job \in 1 .. Len(prog) + 1 /\ p \in Nat /\ arg \in Nat
    BY <1>1, <1>2
  <2>2. /\ rest \in Seq(Nat) /\ buf \in Seq(Nat) /\ Len(buf) <= BufSize
        /\ screen \in Seq(Nat) /\ line \in Seq(Nat)
    BY <1>1, <1>3
  <2>3. v \in 0 .. Power(2, LongBits) - 1 /\ base \in Bases /\ upper \in BOOLEAN
    BY <1>1, <1>4 DEF Bases
  <2>. QED
    BY <1>1, <2>1, <2>2, <2>3 DEF TypeInv
<1>6. uart.thr = <<>> /\ uart \in
        [there : BOOLEAN, dlab : BOOLEAN, low : Nat, high : Nat, format : Nat, thr : Seq(Nat)]
  <2>1. {1} \subseteq Nat /\ {0} \subseteq Nat /\ {2} \subseteq Nat /\ {<<>>} \subseteq Seq(Nat)
    BY <1>3
  <2>2. uart.thr = <<>>
    BY <1>1
  <2>. QED
    BY <1>1, <2>1, <2>2
<1>7. PortInv
  BY <1>1, <1>3, <1>6 DEF PortInv
<1>8. Shown(job - 1, <<>>) /\ Sent(job - 1, <<>>)
  <2>1. \A c \in BOOLEAN : Said(prog, 0, c) = <<>>
    BY <1>2, SaidByCall
  <2>2. job - 1 = 0 /\ <<>> \o <<>> = <<>> /\ TRUE \in BOOLEAN /\ FALSE \in BOOLEAN
    BY <1>1
  <2>. QED
    BY <1>1, <1>6, <2>1, <2>2 DEF Shown, Sent
<1>. QED
  BY <1>1, <1>5, <1>7, <1>8 DEF IInv, IdleInv, ConsoleInv, SerialInv

\* A step that changes nothing keeps the invariant.
LEMMA Stutters == IInv /\ UNCHANGED vars => IInv'
<1>. SUFFICES ASSUME IInv, UNCHANGED vars PROVE IInv'
  OBVIOUS
<1>1. /\ prog' = prog /\ job' = job /\ at' = at /\ p' = p /\ arg' = arg /\ rest' = rest
      /\ v' = v /\ base' = base /\ upper' = upper /\ buf' = buf /\ screen' = screen
      /\ uart' = uart /\ line' = line
  BY DEF vars, number
<1>2. Call' = Call /\ (OnConsole' <=> OnConsole) /\ HasPort' = HasPort
  BY <1>1 DEF Call, OnConsole, HasPort
<1>3. TypeInv' /\ PortInv'
  BY <1>1, <1>2 DEF IInv, TypeInv, PortInv
<1>4. /\ Sent(job - 1, <<>>) => Sent(job - 1, <<>>)'
      /\ Shown(job - 1, <<>>) => Shown(job - 1, <<>>)'
      /\ \A r : Sent(job, r) => Sent(job, r)'
  BY <1>1 DEF Sent, Shown
<1>5. (\A r : IsLeft(r) => IsLeft(r)') /\ (\A k, i : Read(k, i) => Read(k, i)')
  BY <1>1, <1>2 DEF IsLeft, Read
<1>6. IdleInv'
  BY <1>1, <1>4 DEF IInv, IdleInv
<1>7. ConsoleInv'
  BY <1>1, <1>2, <1>4, <1>5 DEF IInv, ConsoleInv
<1>8. SerialInv'
  BY <1>1, <1>2, <1>4, <1>5 DEF IInv, SerialInv
<1>. QED
  BY <1>3, <1>6, <1>7, <1>8 DEF IInv

\* Every step keeps the invariant.
LEMMA Inductive == IInv /\ [Next]_vars => IInv'
<1>1. IInv /\ Printer => IInv'
  BY BeginStep, StringStep, DivideStep, DigitStep, InitStep, PlainStep, NumberStep, StringBegins,
     CharStep, OtherLetterStep, EndStep DEF Printer
<1>. QED
  BY <1>1, TransmitStep, Stutters DEF Next

\* IInv is an invariant of the printing.
LEMMA Invariant == Spec => []IInv
BY Starts, Inductive, PTL DEF Spec

\* For every width of the numbers, every buffer that holds the longest of them
\* and every program of calls: the buffers for digits never overflow, the UART
\* has at most one character, and every variable stays in its type.
THEOREM Typed == Spec => []TypeOK
<1>1. IInv => TypeOK
  BY DEF IInv, TypeInv, PortInv, TypeOK, Bases
<1>. QED
  BY <1>1, Invariant, PTL

\* For every program of calls: between two calls the screen shows, and the
\* other end of the serial line has got, what the calls before say and nothing
\* else, for every format, width, sign and argument.
THEOREM Prints == Spec => []PrintsItsText
<1>1. IInv => PrintsItsText
  <2>. SUFFICES ASSUME IInv, at = "next"
                PROVE  /\ screen = TextUpTo(job - 1, TRUE)
                       /\ uart.there => line \o uart.thr = TextUpTo(job - 1, FALSE)
    BY DEF PrintsItsText
  <2>1. Shown(job - 1, <<>>) /\ Sent(job - 1, <<>>)
    BY DEF IInv, IdleInv
  <2>2. screen \in Seq(Nat) /\ line \in Seq(Nat) /\ uart.thr \in Seq(Nat)
    BY DEF IInv, TypeInv, PortInv
  <2>3. line \o uart.thr \in Seq(Nat)
    BY <2>2, ConcatProperties
  <2>4. screen \o <<>> = screen /\ (line \o uart.thr) \o <<>> = line \o uart.thr
    BY <2>2, <2>3, ConcatEmptySeq
  <2>. QED
    BY <2>1, <2>4, SaidIs DEF Shown, Sent
<1>. QED
  BY <1>1, Invariant, PTL

=============================================================================
