-------------------------- MODULE WebTablesProofs --------------------------
(***************************************************************************)
(* Proofs about WebTables, in two halves.                                  *)
(*                                                                         *)
(* How a fee is printed.  The recursive functions of DigitsOf, ValueOf and *)
(* Power10 are shown to exist, so that their equations may be used; from   *)
(* these follow what concatenation, zeros at the end and the cut into      *)
(* integer and fraction do to a value, and that every fee is printed as it *)
(* is (FeePrinted).                                                        *)
(*                                                                         *)
(* What the lists show.  TablesSound is inductive; LastAnswerShown and     *)
(* TablesInv follow from it and from FeePrinted.                           *)
(***************************************************************************)
EXTENDS WebTables, SequenceTheorems, WellFoundedInduction, TLAPS

(***************************************************************************)
(* Induction over Nat, with a set in place of a predicate, and functions   *)
(* defined by recursion.                                                   *)
(***************************************************************************)
LEMMA SmallestNumber ==
    ASSUME NEW Bad, Bad \subseteq Nat, Bad # {}
    PROVE  \E n \in Bad : \A m \in Bad : ~ (m < n)
<1>1. IsWellFoundedOn(OpToRel(<, Nat), Nat)
  BY NatLessThanWellFounded
<1>2. \E n \in Bad : \A m \in Bad : ~ (<<m, n>> \in OpToRel(<, Nat))
  BY <1>1, WFMin, Zenon
<1>3. QED
  BY <1>2 DEF OpToRel

\* Induction, with the set Good in place of a predicate.
LEMMA NumberInduction ==
    ASSUME NEW Good, \A n \in Nat : (\A m \in Nat : m < n => m \in Good) => n \in Good
    PROVE  \A n \in Nat : n \in Good
<1> DEFINE Bad == Nat \ Good
<1>1. SUFFICES ASSUME Bad # {} PROVE FALSE
  OBVIOUS
<1>2. Bad \subseteq Nat
  OBVIOUS
<1>3. PICK n \in Bad : \A m \in Bad : ~ (m < n)
  <2> HIDE DEF Bad
  <2>1. QED
    BY <1>1, <1>2, SmallestNumber
<1>4. \A m \in Nat : m < n => m \in Good
  BY <1>3
<1>5. QED
  BY <1>4

\* f starts with first and goes on by step.
Iterates(f, first, step) == f[0] = first /\ \A n \in Nat : f[n + 1] = step[n][f[n]]

\* Given where it starts and its steps, an iteration exists.
LEMMA IterationExists ==
    ASSUME NEW S, NEW first \in S, NEW step \in [Nat -> [S -> S]]
    PROVE  \E f \in [Nat -> S] : Iterates(f, first, step)
<1> DEFINE Iter(g, n) == /\ g \in [0 .. n -> S] /\ g[0] = first
                         /\ \A m \in 0 .. n : m # n => g[m + 1] = step[m][g[m]]
           Long == {n \in Nat : \E g : Iter(g, n)}
<1>1. ASSUME NEW n \in Nat, \A m \in Nat : m < n => m \in Long
      PROVE  n \in Long
  <2>1. CASE n = 0
    <3>1. Iter([m \in 0 .. 0 |-> first], 0)
      OBVIOUS
    <3>2. QED
      BY <2>1, <3>1
  <2>2. CASE n # 0
    <3>1. n - 1 \in Nat /\ n - 1 < n
      BY <2>2
    <3>2. n - 1 \in Long
      BY <1>1, <3>1
    <3>3. PICK g : Iter(g, n - 1)
      BY <3>2
    <3> DEFINE h == [m \in 0 .. n |-> IF m = n THEN step[n - 1][g[n - 1]] ELSE g[m]]
    <3>4. g[n - 1] \in S /\ \A m \in 0 .. n - 1 : g[m] \in S
      BY <3>1, <3>3
    <3>5. step[n - 1][g[n - 1]] \in S
      BY <3>1, <3>4
    <3>6. h \in [0 .. n -> S]
      BY <3>4, <3>5
    <3>7. h[0] = first
      BY <2>2, <3>3
    <3>8. \A m \in 0 .. n : m # n => h[m + 1] = step[m][h[m]]
      <4>1. TAKE m \in 0 .. n
      <4>2. CASE m = n - 1
        BY <3>1, <4>2
      <4>3. CASE m # n - 1 /\ m # n
        <5>1. m \in 0 .. n - 1 /\ m + 1 \in 0 .. n /\ m + 1 # n
          BY <4>3
        <5>2. g[m + 1] = step[m][g[m]]
          BY <3>3, <4>3, <5>1
        <5>3. QED
          BY <4>3, <5>1, <5>2
      <4>4. QED
        BY <4>2, <4>3
    <3>9. Iter(h, n)
      BY <3>6, <3>7, <3>8
    <3>10. QED
      BY <3>9
  <2>3. QED
    BY <2>1, <2>2
<1>2. \A n \in Nat : \E g : Iter(g, n)
  <2>1. \A n \in Nat : n \in Long
    <3> HIDE DEF Long
    <3>1. QED
      BY <1>1, NumberInduction
  <2>2. QED
    BY <2>1
<1>3. ASSUME NEW g, NEW h, NEW n \in Nat, NEW k \in Nat, n <= k, Iter(g, n), Iter(h, k)
      PROVE  \A m \in 0 .. n : g[m] = h[m]
  <2> DEFINE Same == {m \in Nat : m <= n => g[m] = h[m]}
  <2>1. ASSUME NEW m \in Nat, \A l \in Nat : l < m => l \in Same PROVE m \in Same
    <3>1. CASE m = 0
      BY <1>3, <3>1
    <3>2. CASE m # 0 /\ m <= n
      <4>1. m - 1 \in Nat /\ m - 1 < m /\ m - 1 <= n /\ m - 1 \in 0 .. n /\ m - 1 # n
            /\ m - 1 \in 0 .. k /\ m - 1 # k /\ (m - 1) + 1 = m
        BY <1>3, <3>2
      <4>2. m - 1 \in Same
        BY <2>1, <4>1
      <4>3. g[m - 1] = h[m - 1]
        BY <4>1, <4>2
      <4>4. g[m] = step[m - 1][g[m - 1]]
        <5>1. \A l \in 0 .. n : l # n => g[l + 1] = step[l][g[l]]
          BY <1>3
        <5>2. g[(m - 1) + 1] = step[m - 1][g[m - 1]]
          BY <4>1, <5>1
        <5>3. QED
          BY <4>1, <5>2
      <4>5. h[m] = step[m - 1][h[m - 1]]
        <5>1. \A l \in 0 .. k : l # k => h[l + 1] = step[l][h[l]]
          BY <1>3
        <5>2. h[(m - 1) + 1] = step[m - 1][h[m - 1]]
          BY <4>1, <5>1
        <5>3. QED
          BY <4>1, <5>2
      <4>6. QED
        BY <4>3, <4>4, <4>5
    <3>3. QED
      BY <3>1, <3>2
  <2>2. \A m \in Nat : m \in Same
    <3> HIDE DEF Same
    <3>1. QED
      BY <2>1, NumberInduction
  <2>3. QED
    BY <2>2
<1>4. PICK it : \A n \in Nat : Iter(it[n], n)
  <2> DEFINE chosen == [n \in Nat |-> CHOOSE g : Iter(g, n)]
  <2>1. ASSUME NEW n \in Nat PROVE Iter(chosen[n], n)
    <3>1. \E g : Iter(g, n)
      BY <1>2
    <3> HIDE DEF Iter
    <3>2. Iter(CHOOSE g : Iter(g, n), n)
      BY <3>1, Zenon
    <3>3. QED
      BY <3>2
  <2>2. QED
    <3> HIDE DEF chosen, Iter
    <3>1. QED
      BY <2>1
<1> DEFINE f == [n \in Nat |-> it[n][n]]
<1>5. f \in [Nat -> S]
  <2>1. ASSUME NEW n \in Nat PROVE it[n][n] \in S
    BY <1>4
  <2>2. QED
    BY <2>1
<1>6. f[0] = first
  BY <1>4
<1>7. ASSUME NEW n \in Nat PROVE f[n + 1] = step[n][f[n]]
  <2>1. Iter(it[n], n) /\ Iter(it[n + 1], n + 1) /\ n + 1 \in Nat /\ n <= n + 1
    BY <1>4
  <2>2. \A m \in 0 .. n : it[n][m] = it[n + 1][m]
    <3> HIDE DEF Iter
    <3>1. QED
      BY <1>3, <2>1
  <2>3. it[n][n] = it[n + 1][n]
    BY <2>2
  <2>4. it[n + 1][n + 1] = step[n][it[n + 1][n]]
    <3>1. \A m \in 0 .. n + 1 : m # n + 1 => it[n + 1][m + 1] = step[m][it[n + 1][m]]
      BY <2>1
    <3>2. n \in 0 .. n + 1 /\ n # n + 1
      OBVIOUS
    <3>3. QED
      BY <3>1, <3>2
  <2>5. f[n] = it[n][n] /\ f[n + 1] = it[n + 1][n + 1]
    BY <2>1
  <2> HIDE DEF f
  <2>6. QED
    BY <2>3, <2>4, <2>5
<1>8. QED
  <2> HIDE DEF f
  <2>1. QED
    BY <1>5, <1>6, <1>7 DEF Iterates

(***************************************************************************)
(* The value of a sequence of digits.                                      *)
(***************************************************************************)
LEMMA PowerTen ==
    /\ Power10[0] = 1
    /\ \A n \in Nat : Power10[n] \in Nat \ {0} /\ Power10[n + 1] = 10 * Power10[n]
<1> DEFINE eq(p) == p = [n \in Nat |-> IF n = 0 THEN 1 ELSE 10 * p[n - 1]]
           times == [n \in Nat |-> [x \in Nat |-> 10 * x]]
<1>1. times \in [Nat -> [Nat -> Nat]]
  OBVIOUS
<1>2. PICK f \in [Nat -> Nat] : Iterates(f, 1, times)
  <2>1. 1 \in Nat
    OBVIOUS
  <2> HIDE DEF times
  <2>2. QED
    BY <1>1, <2>1, IterationExists
<1>3. f[0] = 1 /\ \A n \in Nat : f[n + 1] = 10 * f[n]
  BY <1>2 DEF Iterates
<1>4. \A n \in Nat : f[n] = IF n = 0 THEN 1 ELSE 10 * f[n - 1]
  <2> TAKE n \in Nat
  <2>1. CASE n = 0
    BY <1>3, <2>1
  <2>2. CASE n # 0
    <3>1. n - 1 \in Nat /\ (n - 1) + 1 = n
      BY <2>2
    <3>2. f[(n - 1) + 1] = 10 * f[n - 1]
      BY <1>3, <3>1
    <3>3. QED
      BY <2>2, <3>1, <3>2
  <2>3. QED
    BY <2>1, <2>2
<1>5. f = [n \in Nat |-> IF n = 0 THEN 1 ELSE 10 * f[n - 1]]
  BY <1>2, <1>4
<1>6. \E p : eq(p)
  BY <1>5
<1>7. Power10 = CHOOSE p : eq(p)
  BY Zenon DEF Power10
<1>8. eq(Power10)
  <2> HIDE DEF eq
  <2>1. QED
    BY <1>6, <1>7, Zenon
<1>9. /\ Power10[0] = 1
      /\ \A n \in Nat : Power10[n + 1] = 10 * Power10[n]
  <2> DEFINE p == Power10
  <2>1. p = [n \in Nat |-> IF n = 0 THEN 1 ELSE 10 * p[n - 1]]
    BY <1>8
  <2> HIDE DEF p
  <2>2. p[0] = 1
    BY <2>1
  <2>3. \A n \in Nat : p[n + 1] = 10 * p[n]
    BY <2>1
  <2>4. QED
    BY <2>2, <2>3 DEF p
<1> DEFINE Good == {n \in Nat : Power10[n] \in Nat \ {0}}
<1>10. ASSUME NEW n \in Nat, \A m \in Nat : m < n => m \in Good PROVE n \in Good
  <2>1. CASE n = 0
    BY <1>9, <2>1
  <2>2. CASE n # 0
    <3>1. n - 1 \in Nat /\ n - 1 < n /\ (n - 1) + 1 = n
      BY <2>2
    <3>2. Power10[n - 1] \in Nat \ {0}
      BY <1>10, <3>1
    <3>3. Power10[(n - 1) + 1] = 10 * Power10[n - 1]
      BY <1>9, <3>1
    <3>4. QED
      BY <3>1, <3>2, <3>3
  <2>3. QED
    BY <2>1, <2>2
<1>11. \A n \in Nat : n \in Good
  <2> HIDE DEF Good
  <2>1. QED
    BY <1>10, NumberInduction
<1>12. QED
  BY <1>9, <1>11

\* The values of the beginnings of a sequence.
Values(v, s) == v = [n \in 0 .. Len(s) |-> IF n = 0 THEN 0 ELSE 10 * v[n - 1] + s[n]]

\* They exist: this is what lets the recursive function of ValueOf be used by its equation.
LEMMA ValuesExist ==
    ASSUME NEW s \in Seq(Nat)
    PROVE  \E v : Values(v, s)
<1> DEFINE add == [n \in Nat |-> [x \in Nat |-> 10 * x + IF n + 1 \in 1 .. Len(s) THEN s[n + 1] ELSE 0]]
<1>0. Len(s) \in Nat /\ \A n \in 1 .. Len(s) : s[n] \in Nat
  OBVIOUS
<1>1. add \in [Nat -> [Nat -> Nat]]
  BY <1>0
<1>2. PICK f \in [Nat -> Nat] : Iterates(f, 0, add)
  <2>1. 0 \in Nat
    OBVIOUS
  <2> HIDE DEF add
  <2>2. QED
    BY <1>1, <2>1, IterationExists
<1>3. f[0] = 0 /\ \A n \in Nat : n + 1 \in 1 .. Len(s) => f[n + 1] = 10 * f[n] + s[n + 1]
  BY <1>2 DEF Iterates
<1> DEFINE v == [n \in 0 .. Len(s) |-> f[n]]
<1>4. ASSUME NEW n \in 0 .. Len(s)
      PROVE  v[n] = IF n = 0 THEN 0 ELSE 10 * v[n - 1] + s[n]
  <2>1. CASE n = 0
    BY <1>3, <2>1
  <2>2. CASE n # 0
    <3>1. n - 1 \in Nat /\ (n - 1) + 1 = n /\ n \in 1 .. Len(s) /\ n - 1 \in 0 .. Len(s)
      BY <1>0, <2>2
    <3>2. f[(n - 1) + 1] = 10 * f[n - 1] + s[(n - 1) + 1]
      BY <1>3, <3>1
    <3>3. QED
      BY <2>2, <3>1, <3>2
  <2>3. QED
    BY <2>1, <2>2
<1>5. v = [n \in 0 .. Len(s) |-> v[n]]
  OBVIOUS
<1>6. v = [n \in 0 .. Len(s) |-> IF n = 0 THEN 0 ELSE 10 * v[n - 1] + s[n]]
  <2> HIDE DEF v
  <2>1. QED
    BY <1>4, <1>5
<1>7. QED
  <2> HIDE DEF v
  <2>1. QED
    BY <1>6 DEF Values

\* The value of a sequence is the last of the values of its beginnings.
LEMMA ValueIsLast ==
    ASSUME NEW s \in Seq(Nat)
    PROVE  \E v : Values(v, s) /\ ValueOf(s) = v[Len(s)]
<1> DEFINE eq(v) == v = [n \in 0 .. Len(s) |-> IF n = 0 THEN 0 ELSE 10 * v[n - 1] + s[n]]
<1>1. ValueOf(s) = (CHOOSE v : eq(v))[Len(s)]
  BY Zenon DEF ValueOf
<1>2. \A v : Values(v, s) <=> eq(v)
  BY Zenon DEF Values
<1>3. \E v : eq(v)
  <2> HIDE DEF eq
  <2>1. QED
    BY <1>2, ValuesExist
<1>4. eq(CHOOSE v : eq(v))
  <2> HIDE DEF eq
  <2>1. QED
    BY <1>3, Zenon
<1>5. QED
  <2> DEFINE v == CHOOSE w : eq(w)
  <2>1. Values(v, s) /\ ValueOf(s) = v[Len(s)]
    <3> HIDE DEF eq
    <3>1. QED
      BY <1>1, <1>2, <1>4, Zenon
  <2> HIDE DEF v
  <2>2. QED
    BY <2>1

\* Two sequences that agree up to k have the same value there.
LEMMA ValuesAgree ==
    ASSUME NEW s \in Seq(Nat), NEW t \in Seq(Nat), NEW v, NEW w, Values(v, s), Values(w, t),
           NEW k \in Nat, k <= Len(s), k <= Len(t), \A i \in 1 .. k : s[i] = t[i]
    PROVE  v[k] = w[k]
<1> DEFINE Same == {n \in Nat : n <= k => v[n] = w[n]}
<1>0. Len(s) \in Nat /\ Len(t) \in Nat
  OBVIOUS
<1>1. /\ \A n \in 0 .. Len(s) : v[n] = IF n = 0 THEN 0 ELSE 10 * v[n - 1] + s[n]
      /\ \A n \in 0 .. Len(t) : w[n] = IF n = 0 THEN 0 ELSE 10 * w[n - 1] + t[n]
  BY DEF Values
<1>2. ASSUME NEW n \in Nat, \A m \in Nat : m < n => m \in Same PROVE n \in Same
  <2>1. CASE n = 0
    BY <1>0, <1>1, <2>1
  <2>2. CASE n # 0 /\ n <= k
    <3>1. n - 1 \in Nat /\ n - 1 < n /\ n - 1 <= k
      BY <2>2
    <3>2. v[n - 1] = w[n - 1]
      BY <1>2, <3>1
    <3>3. n \in 0 .. Len(s) /\ n \in 0 .. Len(t) /\ s[n] = t[n]
      BY <1>0, <2>2
    <3>4. v[n] = 10 * v[n - 1] + s[n] /\ w[n] = 10 * w[n - 1] + t[n]
      BY <1>1, <2>2, <3>3
    <3>5. QED
      BY <3>2, <3>3, <3>4
  <2>3. QED
    BY <2>1, <2>2
<1>3. \A n \in Nat : n \in Same
  <2> HIDE DEF Same
  <2>1. QED
    BY <1>2, NumberInduction
<1>4. QED
  BY <1>3

\* A digit more counts for itself, and ten times what was there.
LEMMA ValueAppend ==
    ASSUME NEW s \in Seq(Nat), NEW d \in Nat
    PROVE  ValueOf(Append(s, d)) = 10 * ValueOf(s) + d
<1> DEFINE t == Append(s, d)
<1>1. t \in Seq(Nat) /\ Len(t) = Len(s) + 1 /\ t[Len(s) + 1] = d /\ \A i \in 1 .. Len(s) : s[i] = t[i]
  BY AppendProperties
<1>2. Len(s) \in Nat
  OBVIOUS
<1>3. PICK v : Values(v, s) /\ ValueOf(s) = v[Len(s)]
  BY ValueIsLast
<1>4. PICK w : Values(w, t) /\ ValueOf(t) = w[Len(t)]
  <2> HIDE DEF t
  <2>1. QED
    BY <1>1, ValueIsLast
<1> HIDE DEF t
<1>5. v[Len(s)] = w[Len(s)]
  <2>1. \A k \in Nat : k = Len(s) => k <= Len(s) /\ k <= Len(t) /\ \A i \in 1 .. k : s[i] = t[i]
    BY <1>1, <1>2
  <2>2. \A k \in Nat : k = Len(s) => v[k] = w[k]
    BY <1>1, <1>3, <1>4, <2>1, ValuesAgree
  <2>3. QED
    BY <1>2, <2>2
<1>6. w[Len(t)] = 10 * w[Len(t) - 1] + t[Len(t)]
  <2>1. \A n \in 0 .. Len(t) : w[n] = IF n = 0 THEN 0 ELSE 10 * w[n - 1] + t[n]
    BY <1>4 DEF Values
  <2>2. Len(t) \in 0 .. Len(t) /\ Len(t) # 0
    BY <1>1, <1>2
  <2>3. QED
    BY <2>1, <2>2
<1>7. Len(t) - 1 = Len(s)
  BY <1>1, <1>2
<1>8. QED
  BY <1>1, <1>3, <1>4, <1>5, <1>6, <1>7 DEF t

\* No digits are worth nothing.
LEMMA ValueEmpty == ValueOf(<<>>) = 0
<1>0. <<>> \in Seq(Nat)
  OBVIOUS
<1>1. PICK v : Values(v, <<>>) /\ ValueOf(<<>>) = v[Len(<<>>)]
  BY <1>0, ValueIsLast, Zenon
<1>2. Len(<<>>) = 0
  OBVIOUS
<1>3. v[0] = 0
  <2>1. \A n \in 0 .. 0 : v[n] = IF n = 0 THEN 0 ELSE 10 * v[n - 1] + <<>>[n]
    BY <1>1, <1>2 DEF Values
  <2>2. QED
    BY <2>1
<1>4. QED
  BY <1>1, <1>2, <1>3

\* The value is a number.
LEMMA ValueType ==
    ASSUME NEW s \in Seq(Nat)
    PROVE  ValueOf(s) \in Nat
<1> DEFINE Good == {n \in Nat : \A t \in Seq(Nat) : Len(t) = n => ValueOf(t) \in Nat}
<1>1. ASSUME NEW n \in Nat, \A m \in Nat : m < n => m \in Good PROVE n \in Good
  <2> SUFFICES ASSUME NEW t \in Seq(Nat), Len(t) = n PROVE ValueOf(t) \in Nat
    OBVIOUS
  <2>1. CASE t = <<>>
    BY <2>1, ValueEmpty
  <2>2. CASE t # <<>>
    <3>1. PICK u \in Seq(Nat), d \in Nat : t = Append(u, d)
      BY <2>2, SequenceEmptyOrAppend
    <3>2. Len(t) = Len(u) + 1 /\ Len(u) \in Nat
      BY <3>1, AppendProperties, LenProperties
    <3>3. Len(u) < n
      BY <3>2
    <3>4. Len(u) \in Good
      <4> HIDE DEF Good
      <4>1. QED
        BY <1>1, <3>2, <3>3
    <3>5. ValueOf(u) \in Nat
      BY <3>4
    <3>6. ValueOf(Append(u, d)) = 10 * ValueOf(u) + d
      BY ValueAppend, Zenon
    <3>7. 10 * ValueOf(u) + d \in Nat
      BY <3>5
    <3>8. QED
      BY <3>1, <3>6, <3>7, Zenon
  <2>3. QED
    BY <2>1, <2>2
<1>2. \A n \in Nat : n \in Good
  <2> HIDE DEF Good
  <2>1. QED
    BY <1>1, NumberInduction
<1>3. Len(s) \in Nat
  BY LenProperties
<1>4. QED
  BY <1>2, <1>3

\* Concatenation is associative.
LEMMA ConcatTwice ==
    ASSUME NEW a \in Seq(Nat), NEW b \in Seq(Nat), NEW c \in Seq(Nat)
    PROVE  (a \o b) \o c = a \o (b \o c)
BY ConcatAssociative

\* One digit more, in the value of digits after others.
LEMMA TenTimes ==
    \A a, p, b, d \in Nat : 10 * (a * p + b) + d = a * (10 * p) + (10 * b + d)
OBVIOUS

\* Digits in front count for what the places behind them make of them.
LEMMA ValueConcat ==
    ASSUME NEW s \in Seq(Nat), NEW t \in Seq(Nat)
    PROVE  ValueOf(s \o t) = ValueOf(s) * Power10[Len(t)] + ValueOf(t)
<1> DEFINE P(u) == ValueOf(s \o u) = ValueOf(s) * Power10[Len(u)] + ValueOf(u)
           Good == {n \in Nat : \A u \in Seq(Nat) : Len(u) = n => P(u)}
<1>1. ASSUME NEW n \in Nat, \A m \in Nat : m < n => m \in Good PROVE n \in Good
  <2> SUFFICES ASSUME NEW u \in Seq(Nat), Len(u) = n PROVE P(u)
    OBVIOUS
  <2>0. ValueOf(s) \in Nat
    BY ValueType
  <2>1. CASE u = <<>>
    <3>1. s \o u = s /\ Len(u) = 0
      BY <2>1, ConcatEmptySeq
    <3>2. Power10[Len(u)] = 1
      BY <3>1, PowerTen
    <3>3. ValueOf(u) = 0
      BY <2>1, ValueEmpty
    <3>4. QED
      BY <2>0, <3>1, <3>2, <3>3
  <2>2. CASE u # <<>>
    <3>1. PICK w \in Seq(Nat), d \in Nat : u = Append(w, d)
      BY <2>2, SequenceEmptyOrAppend
    <3>2. Len(u) = Len(w) + 1 /\ Len(w) \in Nat
      BY <3>1, AppendProperties, LenProperties
    <3>3. P(w)
      <4>1. Len(w) < n
        BY <3>2
      <4>2. Len(w) \in Good
        <5> HIDE DEF Good
        <5>1. QED
          BY <1>1, <3>2, <4>1
      <4>3. QED
        BY <4>2
    <3>4. s \o u = Append(s \o w, d) /\ s \o w \in Seq(Nat)
      <4>1. s \o w \in Seq(Nat) /\ <<d>> \in Seq(Nat)
        BY ConcatProperties
      <4>2. u = w \o <<d>> /\ Append(s \o w, d) = (s \o w) \o <<d>>
        BY <3>1, <4>1, AppendIsConcat
      <4>3. (s \o w) \o <<d>> = s \o (w \o <<d>>)
        <5>1. PICK last \in Seq(Nat) : last = <<d>>
          BY <4>1
        <5>2. (s \o w) \o last = s \o (w \o last)
          BY ConcatTwice, Zenon
        <5>3. QED
          BY <5>1, <5>2, Zenon
      <4>4. QED
        BY <3>1, <4>1, <4>2, <4>3, Zenon
    <3>5. ValueOf(s \o u) = 10 * ValueOf(s \o w) + d /\ ValueOf(u) = 10 * ValueOf(w) + d
      BY <3>1, <3>4, ValueAppend
    <3>6. Power10[Len(u)] = 10 * Power10[Len(w)] /\ Power10[Len(w)] \in Nat
      BY <3>2, PowerTen
    <3>7. ValueOf(w) \in Nat
      BY ValueType
    <3>8. 10 * (ValueOf(s) * Power10[Len(w)] + ValueOf(w)) + d
          = ValueOf(s) * (10 * Power10[Len(w)]) + (10 * ValueOf(w) + d)
      BY <2>0, <3>6, <3>7, TenTimes
    <3>9. QED
      BY <3>3, <3>5, <3>6, <3>8
  <2>3. QED
    BY <2>1, <2>2
<1>2. \A n \in Nat : n \in Good
  <2> HIDE DEF Good
  <2>1. QED
    BY <1>1, NumberInduction
<1>3. Len(t) \in Nat
  BY LenProperties
<1>4. QED
  BY <1>2, <1>3

\* Zeros are worth nothing.
LEMMA ZerosValue ==
    ASSUME NEW n \in Nat
    PROVE  Zeros(n) \in Seq(Nat) /\ Len(Zeros(n)) = n /\ ValueOf(Zeros(n)) = 0
<1>1. \A m \in Nat : Zeros(m) \in Seq(Nat) /\ Len(Zeros(m)) = m /\ \A i \in 1 .. m : Zeros(m)[i] = 0
  BY DEF Zeros
<1> DEFINE Good == {m \in Nat : ValueOf(Zeros(m)) = 0}
<1>2. ASSUME NEW m \in Nat, \A l \in Nat : l < m => l \in Good PROVE m \in Good
  <2>1. CASE m = 0
    <3>1. Zeros(m) = <<>>
      BY <1>1, <2>1
    <3>2. QED
      BY <3>1, ValueEmpty
  <2>2. CASE m # 0
    <3>1. PICK l \in Nat : m = l + 1
      <4>1. m - 1 \in Nat /\ m = (m - 1) + 1
        BY <2>2
      <4>2. QED
        BY <4>1
    <3>2. Zeros(m) = Append(Zeros(l), 0)
      <4>1. /\ Append(Zeros(l), 0) \in Seq(Nat) /\ Len(Append(Zeros(l), 0)) = l + 1
            /\ \A i \in 1 .. l : Append(Zeros(l), 0)[i] = 0
            /\ Append(Zeros(l), 0)[l + 1] = 0
        <5>1. Zeros(l) \in Seq(Nat) /\ 0 \in Nat /\ Len(Zeros(l)) = l
              /\ \A i \in 1 .. l : Zeros(l)[i] = 0
          BY <1>1
        <5> DEFINE z == Zeros(l)
                   zero == 0
        <5>2. z \in Seq(Nat) /\ zero \in Nat /\ Len(z) = l /\ \A i \in 1 .. l : z[i] = 0
          BY <5>1
        <5> HIDE DEF z, zero
        <5>3. /\ Append(z, zero) \in Seq(Nat) /\ Len(Append(z, zero)) = l + 1
              /\ \A i \in 1 .. l : Append(z, zero)[i] = 0
              /\ Append(z, zero)[l + 1] = zero
          BY <5>2, AppendProperties
        <5>4. QED
          BY <5>3 DEF z, zero
      <4> DEFINE a == Append(Zeros(l), 0)
                 b == Zeros(m)
      <4>2. /\ a \in Seq(Nat) /\ Len(a) = m
            /\ b \in Seq(Nat) /\ Len(b) = m
            /\ \A i \in 1 .. l : a[i] = 0
            /\ a[l + 1] = 0
            /\ \A i \in 1 .. m : b[i] = 0
        BY <1>1, <3>1, <4>1
      <4> HIDE DEF a, b
      <4>3. \A i \in 1 .. m : a[i] = b[i]
        BY <3>1, <4>2
      <4>4. a = b
        BY <4>2, <4>3, SeqEqual
      <4>5. QED
        BY <4>4 DEF a, b
    <3>3. ValueOf(Zeros(l)) = 0
      BY <1>2, <3>1
    <3>4. ValueOf(Append(Zeros(l), 0)) = 10 * ValueOf(Zeros(l)) + 0
      <4>1. Zeros(l) \in Seq(Nat) /\ 0 \in Nat
        BY <1>1
      <4>2. QED
        BY <4>1, ValueAppend, Zenon
    <3>5. 10 * 0 + 0 = 0
      OBVIOUS
    <3>6. ValueOf(Zeros(m)) = 0
      BY <3>2, <3>3, <3>4, <3>5, Zenon
    <3>7. QED
      BY <3>6
  <2>3. QED
    BY <2>1, <2>2
<1>3. \A m \in Nat : m \in Good
  <2> HIDE DEF Good
  <2>1. QED
    BY <1>2, NumberInduction
<1>4. QED
  BY <1>1, <1>3

\* What replace(/(0+)\b/gi, "") takes off is zeros.
LEMMA StrippedZeros ==
    ASSUME NEW s \in Seq(Nat)
    PROVE  /\ Stripped(s) \in Seq(Nat) /\ Len(s) - Len(Stripped(s)) \in Nat
           /\ s = Stripped(s) \o Zeros(Len(s) - Len(Stripped(s)))
<1> DEFINE kept == {i \in DOMAIN s : s[i] # 0}
           m == IF kept = {} THEN 0 ELSE CHOOSE i \in kept : \A j \in kept : j <= i
<1>1. Len(s) \in Nat /\ DOMAIN s = 1 .. Len(s)
  BY LenProperties
<1>2. m \in 0 .. Len(s) /\ \A i \in m + 1 .. Len(s) : s[i] = 0
  <2>1. CASE kept = {}
    BY <1>1, <2>1
  <2>2. CASE kept # {}
    <3> DEFINE Left == {Len(s) - i : i \in kept}
    <3>1. Left \subseteq Nat /\ Left # {}
      BY <1>1, <2>2
    <3>2. PICK l \in Left : \A k \in Left : ~ (k < l)
      <4> HIDE DEF Left
      <4>1. QED
        BY <3>1, SmallestNumber
    <3>3. PICK i \in kept : l = Len(s) - i
      OBVIOUS
    <3>4. \A j \in kept : j <= i
      <4>1. TAKE j \in kept
      <4>2. Len(s) - j \in Left
        OBVIOUS
      <4>3. ~ (Len(s) - j < Len(s) - i) /\ i \in Nat /\ j \in Nat
        BY <1>1, <3>2, <3>3, <4>2
      <4>4. QED
        BY <1>1, <4>3
    <3>5. m \in kept /\ \A j \in kept : j <= m
      <4> HIDE DEF kept
      <4>1. QED
        BY <2>2, <3>4, Zenon
    <3> HIDE DEF m
    <3>6. m \in 1 .. Len(s)
      BY <1>1, <3>5
    <3>7. ASSUME NEW j \in m + 1 .. Len(s), s[j] # 0 PROVE FALSE
      <4>1. j \in kept /\ j > m
        BY <1>1, <3>6, <3>7
      <4>2. QED
        BY <3>5, <3>6, <4>1
    <3>8. QED
      BY <3>6, <3>7
  <2>3. QED
    BY <2>1, <2>2
<1>3. Stripped(s) = SubSeq(s, 1, m)
  BY Zenon DEF Stripped
<1> HIDE DEF m
<1>4. SubSeq(s, 1, m) \in Seq(Nat) /\ Len(SubSeq(s, 1, m)) = m
  <2>1. \A i \in 1 .. m : s[i] \in Nat
    BY <1>1, <1>2
  <2>2. 1 \in Int /\ m \in Int /\ (1 <= m \/ m = 0)
    BY <1>2
  <2>3. QED
    BY <2>1, <2>2, SubSeqProperties
<1>5. SubSeq(s, m + 1, Len(s)) = Zeros(Len(s) - m)
  <2>1. Len(s) - m \in Nat /\ m + 1 \in Int /\ Len(s) \in Int
    BY <1>1, <1>2
  <2>2. \A i \in m + 1 .. Len(s) : s[i] \in Nat
    BY <1>1, <1>2
  <2>3. /\ SubSeq(s, m + 1, Len(s)) \in Seq(Nat)
        /\ Len(SubSeq(s, m + 1, Len(s))) = IF m + 1 <= Len(s) THEN Len(s) - (m + 1) + 1 ELSE 0
        /\ \A i \in 1 .. Len(s) - (m + 1) + 1 : SubSeq(s, m + 1, Len(s))[i] = s[(m + 1) + i - 1]
    BY <2>1, <2>2, SubSeqProperties
  <2>4. Len(SubSeq(s, m + 1, Len(s))) = Len(s) - m
    <3>1. CASE m + 1 <= Len(s)
      <4>1. Len(SubSeq(s, m + 1, Len(s))) = Len(s) - (m + 1) + 1
        BY <2>3, <3>1, Zenon
      <4>2. Len(s) - (m + 1) + 1 = Len(s) - m
        BY <1>1, <1>2
      <4>3. QED
        BY <4>1, <4>2, Zenon
    <3>2. CASE ~ (m + 1 <= Len(s))
      <4>1. Len(SubSeq(s, m + 1, Len(s))) = 0
        BY <2>3, <3>2
      <4>2. 0 = Len(s) - m
        <5>1. \A l \in Nat : \A k \in 0 .. l : ~ (k + 1 <= l) => 0 = l - k
          OBVIOUS
        <5>2. m \in 0 .. Len(s)
          BY <1>2
        <5>3. QED
          BY <1>1, <3>2, <5>1, <5>2, Zenon
      <4>3. QED
        BY <4>1, <4>2, Zenon
    <3>3. QED
      BY <3>1, <3>2, Zenon
  <2>5. ASSUME NEW i \in 1 .. Len(s) - m PROVE SubSeq(s, m + 1, Len(s))[i] = 0
    <3>1. i \in 1 .. Len(s) - (m + 1) + 1 /\ (m + 1) + i - 1 \in m + 1 .. Len(s)
      BY <1>1, <1>2
    <3>2. QED
      BY <1>2, <2>3, <3>1
  <2>6. Zeros(Len(s) - m) \in Seq(Nat) /\ Len(Zeros(Len(s) - m)) = Len(s) - m
        /\ \A i \in 1 .. Len(s) - m : Zeros(Len(s) - m)[i] = 0
    BY <2>1, ZerosValue DEF Zeros
  <2>7. QED
    BY <2>3, <2>4, <2>5, <2>6, SeqEqual
<1>6. SubSeq(s, 1, m) \o SubSeq(s, m + 1, Len(s)) = s
  <2>1. 1 \in 1 .. Len(s) + 1 /\ m \in 1 - 1 .. Len(s) /\ Len(s) \in m .. Len(s)
    BY <1>1, <1>2
  <2>2. SubSeq(s, 1, m) \o SubSeq(s, m + 1, Len(s)) = SubSeq(s, 1, Len(s))
    BY <2>1, ConcatAdjacentSubSeq
  <2>3. QED
    BY <2>2, SubSeqFull
<1>7. Stripped(s) \in Seq(Nat) /\ Len(Stripped(s)) = m
  BY <1>3, <1>4, Zenon
<1>8. s = Stripped(s) \o Zeros(Len(s) - m)
  BY <1>3, <1>5, <1>6, Zenon
<1>9. Len(s) - m \in Nat
  BY <1>1, <1>2
<1>10. QED
  BY <1>7, <1>8, <1>9, Zenon

(***************************************************************************)
(* How a sequence of digits is printed and read again.                     *)
(***************************************************************************)
LEMMA ReadPrinted ==
    ASSUME NEW int \in Seq(Nat), NEW places \in Seq(Nat), Len(places) = Decimals
    PROVE  Read([int |-> int, frac |-> Stripped(places)]) = ValueOf(int \o places)
<1> DEFINE frac == Stripped(places)
           k == Decimals - Len(frac)
<1>1. frac \in Seq(Nat) /\ k \in Nat /\ places = frac \o Zeros(k)
  BY StrippedZeros
<1>2. Read([int |-> int, frac |-> frac]) = ValueOf(int \o frac) * Power10[k]
  BY Zenon DEF Read
<1> HIDE DEF frac, k
<1>3. Zeros(k) \in Seq(Nat) /\ Len(Zeros(k)) = k /\ ValueOf(Zeros(k)) = 0
  BY <1>1, ZerosValue
<1>4. int \o frac \in Seq(Nat) /\ int \o places = (int \o frac) \o Zeros(k)
  <2>1. int \o frac \in Seq(Nat)
    BY <1>1, ConcatProperties
  <2>2. (int \o frac) \o Zeros(k) = int \o (frac \o Zeros(k))
    BY <1>1, <1>3, ConcatAssociative
  <2>3. QED
    BY <1>1, <2>1, <2>2, Zenon
<1>5. ValueOf((int \o frac) \o Zeros(k)) = ValueOf(int \o frac) * Power10[Len(Zeros(k))] + ValueOf(Zeros(k))
  BY <1>3, <1>4, ValueConcat, Zenon
<1>6. ValueOf(int \o frac) \in Nat /\ Power10[k] \in Nat
  BY <1>1, <1>4, PowerTen, ValueType
<1>7. \A v, w \in Nat : v * w + 0 = v * w
  OBVIOUS
<1>8. ValueOf((int \o frac) \o Zeros(k)) = ValueOf(int \o frac) * Power10[k]
  <2>1. ValueOf((int \o frac) \o Zeros(k)) = ValueOf(int \o frac) * Power10[k] + 0
    BY <1>3, <1>5, Zenon
  <2>2. ValueOf(int \o frac) * Power10[k] + 0 = ValueOf(int \o frac) * Power10[k]
    BY <1>6, <1>7, Zenon
  <2>3. QED
    BY <2>1, <2>2, Zenon
<1>9. QED
  BY <1>2, <1>4, <1>8, Zenon DEF frac

\* A sequence of digits with no more than the decimals is read as its value.
LEMMA FractionReads ==
    ASSUME NEW s \in Seq(Nat), Len(s) <= Decimals
    PROVE  Read(Fraction(s)) = ValueOf(s)
<1> DEFINE n == Len(s)
<1>1. n \in Nat /\ n <= Decimals /\ Decimals \in Nat
  BY ConstantsAssumption, LenProperties
<1> DEFINE z == Zeros(Decimals - n)
           places == z \o s
<1>2. Fraction(s) = [int |-> <<0>>, frac |-> Stripped(places)]
  BY Zenon DEF Fraction
<1>3. Decimals - n \in Nat
  BY <1>1
<1>4. z \in Seq(Nat) /\ Len(z) = Decimals - n /\ ValueOf(z) = 0
  BY <1>3, ZerosValue
<1> HIDE DEF z
<1>5. places \in Seq(Nat) /\ Len(places) = Decimals
  BY <1>1, <1>4, ConcatProperties
<1>6. ValueOf(places) = ValueOf(s)
  <2>1. ValueOf(z \o s) = ValueOf(z) * Power10[Len(s)] + ValueOf(s)
    BY <1>4, ValueConcat
  <2>2. ValueOf(s) \in Nat /\ Power10[Len(s)] \in Nat
    BY <1>1, PowerTen, ValueType
  <2>3. \A v, w \in Nat : 0 * v + w = w
    OBVIOUS
  <2>4. QED
    BY <1>4, <2>1, <2>2, <2>3
<1> HIDE DEF places
<1>7. <<0>> \in Seq(Nat) /\ ValueOf(<<0>>) = 0
  <2>1. <<>> \in Seq(Nat) /\ 0 \in Nat /\ <<0>> = Append(<<>>, 0) /\ <<0>> \in Seq(Nat)
    OBVIOUS
  <2>2. ValueOf(Append(<<>>, 0)) = 10 * ValueOf(<<>>) + 0
    BY <2>1, ValueAppend, Zenon
  <2>3. QED
    BY <2>1, <2>2, ValueEmpty
<1>8. ValueOf(<<0>> \o places) = ValueOf(places)
  <2>1. ValueOf(<<0>> \o places) = ValueOf(<<0>>) * Power10[Len(places)] + ValueOf(places)
    BY <1>5, <1>7, ValueConcat, Zenon
  <2>2. ValueOf(places) \in Nat /\ Power10[Len(places)] \in Nat
    BY <1>1, <1>5, PowerTen, ValueType
  <2>3. \A v, w \in Nat : 0 * v + w = w
    OBVIOUS
  <2>4. QED
    BY <1>7, <2>1, <2>2, <2>3
<1>9. Read([int |-> <<0>>, frac |-> Stripped(places)]) = ValueOf(<<0>> \o places)
  BY <1>5, <1>7, ReadPrinted, Zenon
<1>10. QED
  BY <1>2, <1>6, <1>8, <1>9, Zenon

\* Cut into integer and fraction, a sequence of digits is still read as its value.
LEMMA CutReads ==
    ASSUME NEW s \in Seq(Nat)
    PROVE  Read(Cut(s)) = ValueOf(s)
<1> DEFINE n == Len(s)
<1>1. n \in Nat /\ DOMAIN s = 1 .. n /\ Decimals \in Nat /\ \A i \in 1 .. n : s[i] \in Nat
  BY ConstantsAssumption, LenProperties
<1>2. CASE n > Decimals
  <2> DEFINE int == SubSeq(s, 1, n - Decimals)
             places == SubSeq(s, n - Decimals + 1, n)
  <2>1. Cut(s) = [int |-> int, frac |-> Stripped(places)]
    BY <1>2 DEF Cut
  <2>2. int \in Seq(Nat)
    <3>1. \A i \in 1 .. n - Decimals : s[i] \in Nat
      BY <1>1
    <3>2. 1 \in Int /\ n - Decimals \in Int
      BY <1>1
    <3>3. QED
      BY <3>1, <3>2, SubSeqProperties
  <2>3. places \in Seq(Nat) /\ Len(places) = Decimals
    <3>1. \A i \in n - Decimals + 1 .. n : s[i] \in Nat
      BY <1>1, <1>2
    <3>2. n - Decimals + 1 \in Int /\ n \in Int
      BY <1>1
    <3>3. /\ places \in Seq(Nat)
          /\ Len(places) = IF n - Decimals + 1 <= n THEN n - (n - Decimals + 1) + 1 ELSE 0
      <4> HIDE DEF n
      <4>1. QED
        BY <3>1, <3>2, SubSeqProperties
    <3>4. CASE n - Decimals + 1 <= n
      <4>1. Len(places) = n - (n - Decimals + 1) + 1
        BY <3>3, <3>4, Zenon
      <4>2. n - (n - Decimals + 1) + 1 = Decimals
        <5> HIDE DEF n
        <5>1. QED
          BY <1>1
      <4>3. QED
        BY <3>3, <4>1, <4>2, Zenon
    <3>5. CASE ~ (n - Decimals + 1 <= n)
      <4>1. Len(places) = 0
        BY <3>3, <3>5, Zenon
      <4>2. 0 = Decimals
        <5> HIDE DEF n
        <5>1. QED
          BY <1>1, <3>5
      <4>3. QED
        BY <3>3, <4>1, <4>2, Zenon
    <3>6. QED
      BY <3>4, <3>5, Zenon
  <2>4. int \o places = s
    <3>1. 1 \in 1 .. n + 1 /\ n - Decimals \in 1 - 1 .. n /\ n \in n - Decimals .. n
      BY <1>1, <1>2
    <3>2. int \o places = SubSeq(s, 1, n)
      BY <3>1, ConcatAdjacentSubSeq
    <3>3. QED
      BY <3>2, SubSeqFull
  <2> HIDE DEF int, places
  <2>5. QED
    BY <2>1, <2>2, <2>3, <2>4, ReadPrinted
<1>3. CASE ~ (n > Decimals)
  <2>1. Cut(s) = Fraction(s)
    BY <1>3, Zenon DEF Cut
  <2>2. Len(s) <= Decimals
    BY <1>1, <1>3
  <2>3. QED
    BY <2>1, <2>2, FractionReads
<1>4. QED
  BY <1>2, <1>3

(***************************************************************************)
(* The decimal digits of a number.                                         *)
(***************************************************************************)
LEMMA DivTen ==
    ASSUME NEW m \in Nat
    PROVE  /\ m \div 10 \in Nat /\ m % 10 \in Nat /\ m % 10 < 10
           /\ m = 10 * (m \div 10) + (m % 10)
           /\ m >= 10 => m \div 10 < m
OBVIOUS

\* The recursive function of DigitsOf.
IsDigits(g) == g = [m \in Nat |-> IF m < 10 THEN <<m>> ELSE Append(g[m \div 10], m % 10)]

\* It exists.
LEMMA DigitsExist == \E g \in [Nat -> Seq(Nat)] : IsDigits(g)
<1> DEFINE S == [Nat -> Seq(Nat)]
           longer(g) == [m \in Nat |-> IF m < 10 THEN <<m>> ELSE Append(g[m \div 10], m % 10)]
           first == [m \in Nat |-> <<m>>]
           step == [k \in Nat |-> [g \in S |-> longer(g)]]
<1>1. first \in S
  OBVIOUS
<1>2. ASSUME NEW g \in S PROVE longer(g) \in S
  <2>1. ASSUME NEW m \in Nat PROVE Append(g[m \div 10], m % 10) \in Seq(Nat)
    <3>1. m \div 10 \in Nat /\ m % 10 \in Nat
      BY DivTen
    <3>2. \A a, b \in Nat : Append(g[a], b) \in Seq(Nat)
      OBVIOUS
    <3>3. QED
      BY <3>1, <3>2
  <2>2. \A m \in Nat : <<m>> \in Seq(Nat)
    OBVIOUS
  <2>3. QED
    BY <2>1, <2>2
<1>3. step \in [Nat -> [S -> S]]
  <2> HIDE DEF S, longer
  <2>1. QED
    BY <1>2
<1>4. PICK h \in [Nat -> S] : Iterates(h, first, step)
  <2> HIDE DEF S, step, first
  <2>1. QED
    BY <1>1, <1>3, IterationExists
<1>5. h[0] = first /\ \A k \in Nat : h[k + 1] = longer(h[k])
  <2>1. h[0] = first /\ \A k \in Nat : h[k + 1] = step[k][h[k]]
    <3> HIDE DEF S, step, first
    <3>1. QED
      BY <1>4 DEF Iterates
  <2>2. \A k \in Nat : h[k] \in S /\ step[k][h[k]] = longer(h[k])
    <3> HIDE DEF S, longer
    <3>1. QED
      BY <1>4
  <2>3. QED
    BY <2>1, <2>2, Zenon
<1>6. \A k, m \in Nat : h[k + 1][m] = IF m < 10 THEN <<m>> ELSE Append(h[k][m \div 10], m % 10)
  BY <1>5
<1>7. \A m \in Nat : h[0][m] = <<m>>
  BY <1>5
<1>8. \A m, k \in Nat : m < 10 => h[k][m] = <<m>>
  <2> TAKE m, k \in Nat
  <2>1. CASE k = 0
    BY <1>7, <2>1
  <2>2. CASE k # 0
    <3>1. k - 1 \in Nat /\ (k - 1) + 1 = k
      BY <2>2
    <3>2. h[(k - 1) + 1][m] = IF m < 10 THEN <<m>> ELSE Append(h[k - 1][m \div 10], m % 10)
      BY <1>6, <3>1
    <3>3. QED
      BY <3>1, <3>2
  <2>3. QED
    BY <2>1, <2>2
<1> DEFINE Settled == {m \in Nat : \A k \in Nat : m <= k => h[k][m] = h[m][m]}
<1>9. ASSUME NEW m \in Nat, \A l \in Nat : l < m => l \in Settled PROVE m \in Settled
  <2> SUFFICES ASSUME NEW k \in Nat, m <= k PROVE h[k][m] = h[m][m]
    OBVIOUS
  <2>1. CASE m < 10
    BY <1>8, <2>1
  <2>2. CASE ~ (m < 10)
    <3>1. PICK l \in Nat : l = m \div 10
      BY DivTen
    <3>2. l < m
      BY <2>2, <3>1, DivTen
    <3>3. \A j \in Nat : l <= j => h[j][l] = h[l][l]
      BY <1>9, <3>2
    <3>4. ASSUME NEW j \in Nat, m <= j PROVE h[j][m] = Append(h[l][l], m % 10)
      <4>1. j - 1 \in Nat /\ (j - 1) + 1 = j /\ l <= j - 1
        BY <2>2, <3>2, <3>4
      <4>2. h[(j - 1) + 1][m] = Append(h[j - 1][l], m % 10)
        BY <1>6, <2>2, <3>1, <4>1
      <4>3. h[j - 1][l] = h[l][l]
        BY <3>3, <4>1
      <4>4. QED
        BY <4>1, <4>2, <4>3
    <3>5. m <= m
      OBVIOUS
    <3>6. QED
      BY <3>4, <3>5
  <2>3. QED
    BY <2>1, <2>2
<1>10. \A m \in Nat : m \in Settled
  <2> HIDE DEF Settled
  <2>1. QED
    BY <1>9, NumberInduction
<1> DEFINE g == [m \in Nat |-> h[m][m]]
<1>11. ASSUME NEW m \in Nat
       PROVE  g[m] = IF m < 10 THEN <<m>> ELSE Append(g[m \div 10], m % 10)
  <2>1. CASE m < 10
    BY <1>8, <2>1
  <2>2. CASE ~ (m < 10)
    <3>1. PICK l \in Nat : l = m \div 10
      BY DivTen
    <3>2. m - 1 \in Nat /\ (m - 1) + 1 = m /\ l <= m - 1
      BY <2>2, <3>1, DivTen
    <3>3. h[(m - 1) + 1][m] = Append(h[m - 1][l], m % 10)
      BY <1>6, <2>2, <3>1, <3>2
    <3>4. h[m - 1][l] = h[l][l]
      BY <1>10, <3>2
    <3>5. g[m] = Append(g[l], m % 10)
      BY <3>2, <3>3, <3>4
    <3> HIDE DEF g
    <3>6. QED
      BY <2>2, <3>1, <3>5
  <2>3. QED
    BY <2>1, <2>2
<1>12. g \in [Nat -> Seq(Nat)]
  BY <1>4
<1>13. g = [m \in Nat |-> g[m]]
  OBVIOUS
<1>14. IsDigits(g)
  <2> HIDE DEF g
  <2>1. QED
    BY <1>11, <1>13 DEF IsDigits
<1>15. QED
  <2> HIDE DEF g
  <2>1. QED
    BY <1>12, <1>14

\* All digits but the last are those of the tenth part.
LEMMA DigitsStep ==
    ASSUME NEW n \in Nat
    PROVE  DigitsOf(n) = IF n < 10 THEN <<n>> ELSE Append(DigitsOf(n \div 10), n % 10)
<1> DEFINE eq(g) == g = [m \in Nat |-> IF m < 10 THEN <<m>> ELSE Append(g[m \div 10], m % 10)]
<1>1. \E g : eq(g)
  <2>1. \A g : IsDigits(g) <=> eq(g)
    BY Zenon DEF IsDigits
  <2> HIDE DEF eq
  <2>2. QED
    BY <2>1, DigitsExist
<1>2. \A m : DigitsOf(m) = (CHOOSE g : eq(g))[m]
  BY Zenon DEF DigitsOf
<1>3. PICK g : eq(g) /\ \A m : DigitsOf(m) = g[m]
  <2> HIDE DEF eq
  <2>1. eq(CHOOSE g : eq(g))
    BY <1>1, Zenon
  <2>2. QED
    BY <1>2, <2>1, Zenon
<1>4. g[n] = IF n < 10 THEN <<n>> ELSE Append(g[n \div 10], n % 10)
  <2>1. g = [m \in Nat |-> IF m < 10 THEN <<m>> ELSE Append(g[m \div 10], m % 10)]
    BY <1>3
  <2>2. QED
    BY <2>1
<1>5. QED
  BY <1>3, <1>4, Zenon

\* Digits are numbers.
LEMMA DigitsType ==
    ASSUME NEW n \in Nat
    PROVE  DigitsOf(n) \in Seq(Nat)
<1> DEFINE Good == {m \in Nat : DigitsOf(m) \in Seq(Nat)}
<1>1. ASSUME NEW m \in Nat, \A l \in Nat : l < m => l \in Good PROVE m \in Good
  <2>1. CASE m < 10
    <3>1. <<m>> \in Seq(Nat)
      OBVIOUS
    <3>2. DigitsOf(m) = <<m>>
      BY <2>1, DigitsStep
    <3>3. QED
      BY <3>1, <3>2
  <2>2. CASE ~ (m < 10)
    <3>1. PICK l \in Nat, d \in Nat : l = m \div 10 /\ d = m % 10 /\ l < m
      BY <2>2, DivTen
    <3>2. DigitsOf(m) = Append(DigitsOf(l), d)
      BY <2>2, <3>1, DigitsStep
    <3>3. DigitsOf(l) \in Seq(Nat)
      BY <1>1, <3>1
    <3>4. Append(DigitsOf(l), d) \in Seq(Nat)
      BY <3>1, <3>3
    <3>5. QED
      BY <3>2, <3>4
  <2>3. QED
    BY <2>1, <2>2
<1>2. \A m \in Nat : m \in Good
  <2> HIDE DEF Good
  <2>1. QED
    BY <1>1, NumberInduction
<1>3. QED
  BY <1>2

\* A single digit is its own value.
LEMMA ValueOfOne ==
    ASSUME NEW d \in Nat
    PROVE  <<d>> \in Seq(Nat) /\ ValueOf(<<d>>) = d
<1>1. <<>> \in Seq(Nat) /\ <<d>> \in Seq(Nat) /\ <<d>> = Append(<<>>, d)
  OBVIOUS
<1>2. ValueOf(Append(<<>>, d)) = 10 * ValueOf(<<>>) + d
  BY <1>1, ValueAppend, Zenon
<1>3. 10 * 0 + d = d
  OBVIOUS
<1>4. QED
  BY <1>1, <1>2, <1>3, ValueEmpty, Zenon

\* The digits of a number are worth the number.
LEMMA DigitsValue ==
    ASSUME NEW n \in Nat
    PROVE  ValueOf(DigitsOf(n)) = n
<1> DEFINE Good == {m \in Nat : ValueOf(DigitsOf(m)) = m}
<1>1. ASSUME NEW m \in Nat, \A l \in Nat : l < m => l \in Good PROVE m \in Good
  <2>1. CASE m < 10
    <3>1. DigitsOf(m) = <<m>>
      BY <2>1, DigitsStep
    <3>2. ValueOf(<<m>>) = m
      BY ValueOfOne
    <3>3. QED
      BY <3>1, <3>2
  <2>2. CASE ~ (m < 10)
    <3>1. PICK l \in Nat, d \in Nat : l = m \div 10 /\ d = m % 10 /\ l < m /\ m = 10 * l + d
      BY <2>2, DivTen
    <3>2. DigitsOf(m) = Append(DigitsOf(l), d)
      BY <2>2, <3>1, DigitsStep
    <3>3. ValueOf(DigitsOf(l)) = l
      BY <1>1, <3>1
    <3>4. ValueOf(Append(DigitsOf(l), d)) = 10 * ValueOf(DigitsOf(l)) + d
      BY <3>1, DigitsType, ValueAppend
    <3>5. QED
      BY <3>1, <3>2, <3>3, <3>4
  <2>3. QED
    BY <2>1, <2>2
<1>2. \A m \in Nat : m \in Good
  <2> HIDE DEF Good
  <2>1. QED
    BY <1>1, NumberInduction
<1>3. QED
  BY <1>2

(***************************************************************************)
(* The filters.                                                            *)
(***************************************************************************)
LEMMA NumberType ==
    ASSUME NEW n \in Nat
    PROVE  /\ NumberOf(n) \in Nat
           /\ Len(DigitsOf(n)) <= Digits53 => NumberOf(n) = n
<1> DEFINE e == LargerOf(0, Len(DigitsOf(n)) - Digits53)
           unit == Power10[e]
<1>1. NumberOf(n) = ((n + unit \div 2) \div unit) * unit
  BY Zenon DEF NumberOf
<1>2. Len(DigitsOf(n)) \in Nat /\ Digits53 \in Nat
  BY ConstantsAssumption, DigitsType, LenProperties
<1>3. e \in Nat /\ (Len(DigitsOf(n)) <= Digits53 => e = 0)
  BY <1>2 DEF LargerOf
<1>4. unit \in Nat \ {0} /\ (Len(DigitsOf(n)) <= Digits53 => unit = 1)
  <2> HIDE DEF e
  <2>1. QED
    BY <1>3, PowerTen
<1> HIDE DEF unit
<1>5. ((n + unit \div 2) \div unit) * unit \in Nat
  <2>1. n + unit \div 2 \in Nat
    BY <1>4
  <2>2. \A a \in Nat, b \in Nat \ {0} : a \div b \in Nat
    OBVIOUS
  <2>3. (n + unit \div 2) \div unit \in Nat
    BY <1>4, <2>1, <2>2
  <2>4. \A a, b \in Nat : a * b \in Nat
    OBVIOUS
  <2>5. QED
    BY <1>4, <2>3, <2>4
<1>6. ((n + 1 \div 2) \div 1) * 1 = n
  OBVIOUS
<1>7. QED
  BY <1>1, <1>4, <1>5, <1>6, Zenon

\* The powers of ten grow.
LEMMA PowersGrow ==
    ASSUME NEW m \in Nat, NEW n \in Nat, m <= n
    PROVE  Power10[m] <= Power10[n]
<1> DEFINE Good == {l \in Nat : m <= l => Power10[m] <= Power10[l]}
<1>1. ASSUME NEW l \in Nat, \A k \in Nat : k < l => k \in Good PROVE l \in Good
  <2>1. CASE l <= m
    BY <2>1, PowerTen
  <2>2. CASE m < l
    <3>1. PICK k \in Nat : l = k + 1 /\ k < l /\ m <= k
      <4>1. l - 1 \in Nat /\ l = (l - 1) + 1 /\ l - 1 < l /\ m <= l - 1
        BY <2>2
      <4>2. QED
        BY <4>1
    <3>2. Power10[m] <= Power10[k] /\ Power10[k] \in Nat /\ Power10[m] \in Nat
      BY <1>1, <3>1, PowerTen
    <3>3. Power10[l] = 10 * Power10[k]
      BY <3>1, PowerTen
    <3>4. \A a, b \in Nat : a <= b => a <= 10 * b
      OBVIOUS
    <3>5. QED
      BY <3>2, <3>3, <3>4
  <2>3. QED
    BY <2>1, <2>2
<1>2. \A l \in Nat : l \in Good
  <2> HIDE DEF Good
  <2>1. QED
    BY <1>1, NumberInduction
<1>3. QED
  BY <1>2

\* A number has no more digits than those of a power of ten above it lack.
LEMMA FewDigits ==
    ASSUME NEW n \in Nat, NEW d \in Nat \ {0}, n < Power10[d]
    PROVE  Len(DigitsOf(n)) <= d
<1> DEFINE Good == {m \in Nat : m # 0 => \E l \in Nat : Len(DigitsOf(m)) = l + 1 /\ Power10[l] <= m}
<1>1. ASSUME NEW m \in Nat, \A k \in Nat : k < m => k \in Good PROVE m \in Good
  <2>1. CASE m = 0
    BY <2>1
  <2>2. CASE m # 0 /\ m < 10
    <3>1. DigitsOf(m) = <<m>>
      BY <2>2, DigitsStep
    <3>2. Len(<<m>>) = 0 + 1
      OBVIOUS
    <3>3. Power10[0] <= m
      BY <2>2, PowerTen
    <3>4. QED
      BY <3>1, <3>2, <3>3
  <2>3. CASE m >= 10
    <3>1. PICK k \in Nat : k = m \div 10 /\ k < m /\ k # 0 /\ 10 * k <= m
      <4>1. m \div 10 \in Nat /\ m \div 10 < m /\ m \div 10 # 0 /\ 10 * (m \div 10) <= m
        BY <2>3
      <4>2. QED
        BY <4>1
    <3>2. PICK l \in Nat : Len(DigitsOf(k)) = l + 1 /\ Power10[l] <= k
      BY <1>1, <3>1
    <3>3. DigitsOf(m) = Append(DigitsOf(k), m % 10)
      BY <2>3, <3>1, DigitsStep
    <3>4. Len(DigitsOf(m)) = (l + 1) + 1
      <4>1. DigitsOf(k) \in Seq(Nat) /\ m % 10 \in Nat
        BY DigitsType, DivTen
      <4>2. QED
        BY <3>2, <3>3, <4>1
    <3>5. Power10[l + 1] <= m
      <4>1. Power10[l + 1] = 10 * Power10[l] /\ Power10[l] \in Nat
        BY PowerTen
      <4>2. QED
        BY <3>1, <3>2, <4>1
    <3>6. QED
      BY <3>4, <3>5
  <2>4. QED
    BY <2>1, <2>2, <2>3
<1>2. \A m \in Nat : m \in Good
  <2> HIDE DEF Good
  <2>1. QED
    BY <1>1, NumberInduction
<1>3. CASE n = 0
  <2>1. DigitsOf(n) = <<n>>
    <3>1. n < 10
      BY <1>3
    <3>2. QED
      BY <3>1, DigitsStep
  <2>2. Len(<<n>>) = 1
    OBVIOUS
  <2>3. QED
    BY <2>1, <2>2
<1>4. CASE n # 0
  <2>1. PICK l \in Nat : Len(DigitsOf(n)) = l + 1 /\ Power10[l] <= n
    BY <1>2, <1>4
  <2>2. CASE l < d
    BY <2>1, <2>2
  <2>3. CASE d <= l
    <3>1. Power10[d] <= Power10[l] /\ Power10[d] \in Nat /\ Power10[l] \in Nat
      BY <2>3, PowersGrow, PowerTen
    <3>2. QED
      BY <2>1, <3>1
  <2>4. QED
    BY <2>2, <2>3
<1>5. QED
  BY <1>3, <1>4

\* What is not a fee is printed as 0.
LEMMA NothingPrinted ==
    Read([int |-> <<0>>, frac |-> <<>>]) = 0
<1>1. Read([int |-> <<0>>, frac |-> <<>>]) = ValueOf(<<0>> \o <<>>) * Power10[Decimals - Len(<<>>)]
  BY Zenon DEF Read
<1>2. <<0>> \o <<>> = <<0>> /\ Len(<<>>) = 0 /\ 0 \in Nat
  OBVIOUS
<1>3. ValueOf(<<0>>) = 0
  BY <1>2, ValueOfOne, Zenon
<1>4. Decimals - 0 = Decimals /\ Decimals \in Nat
  BY ConstantsAssumption
<1>5. Power10[Decimals] \in Nat
  BY <1>4, PowerTen
<1>6. 0 * Power10[Decimals] = 0
  BY <1>5
<1>7. QED
  BY <1>1, <1>2, <1>3, <1>4, <1>6, Zenon

\* The filters of uploadFiles/detail/index.vue:383 and billing.vue:438 print a fee that comes as
\* a string as it is, however many digits it has, and one that comes as a Number up to what a
\* Number keeps; but on the detail page only below one FIL, since a Number has no length and the
\* filter tests it (388).  A Number changes no fee of few enough digits.
THEOREM FeePrinted ==
    ASSUME NEW fee \in Nat
    PROVE  /\ Read(NumFormatPrice(fee, "string")) = fee
           /\ NumberOf(fee) < Power10[Decimals] => Read(NumFormatPrice(fee, "number")) = NumberOf(fee)
           /\ Read(balanceFilter(fee)) = NumberOf(fee)
           /\ Len(DigitsOf(fee)) <= Digits53 => NumberOf(fee) = fee
<1>1. CASE fee # 0
  <2>1. Read(Cut(DigitsOf(fee))) = fee
    BY CutReads, DigitsType, DigitsValue
  <2>2. PICK n \in Nat : n = NumberOf(fee)
    BY NumberType
  <2>3. Read(Cut(DigitsOf(n))) = n
    BY CutReads, DigitsType, DigitsValue
  <2>4. n < Power10[Decimals] => Read(Fraction(DigitsOf(n))) = n
    BY ConstantsAssumption, FewDigits, FractionReads, DigitsType, DigitsValue
  <2>5. NumFormatPrice(fee, "string") = Cut(DigitsOf(fee)) /\ balanceFilter(fee) = Cut(DigitsOf(n))
    BY <1>1, <2>2, Zenon DEF NumFormatPrice, balanceFilter
  <2>6. NumFormatPrice(fee, "number") = Fraction(DigitsOf(n))
    BY <1>1, <2>2 DEF NumFormatPrice
  <2>7. Len(DigitsOf(fee)) <= Digits53 => NumberOf(fee) = fee
    BY NumberType
  <2>8. QED
    BY <2>1, <2>2, <2>3, <2>4, <2>5, <2>6, <2>7, Zenon
<1>2. CASE fee = 0
  <2>1. \A type : NumFormatPrice(fee, type) = [int |-> <<0>>, frac |-> <<>>]
    BY <1>2, Zenon DEF NumFormatPrice
  <2>2. Len(DigitsOf(fee)) <= Digits53
    <3>1. DigitsOf(fee) = <<fee>>
      <4>1. fee < 10
        BY <1>2
      <4>2. QED
        BY <4>1, DigitsStep
    <3>2. Len(<<fee>>) = 1
      OBVIOUS
    <3>3. Len(DigitsOf(fee)) = 1
      BY <3>1, <3>2, Zenon
    <3>4. QED
      BY <3>3, ConstantsAssumption
  <2>3. NumberOf(fee) = fee
    BY <2>2, NumberType
  <2>4. balanceFilter(fee) = [int |-> <<0>>, frac |-> <<>>]
    BY <1>2, Zenon DEF balanceFilter
  <2>5. QED
    BY <1>2, <2>1, <2>3, <2>4, NothingPrinted, Zenon
<1>3. QED
  BY <1>1, <1>2

(***************************************************************************)
(* The lists.  Every control that changes the question asks, so the        *)
(* controls always show the question asked last; the rows are always those *)
(* of the answer that came last.                                           *)
(***************************************************************************)
\* The rows shown are those of the answer that came last, with its total.
RowsAgree == latest # 0 /\ table # 0 => table = latest /\ total = Response(kind, asked[table]).total

\* The controls show the question asked last.
ControlsAgree == asked # <<>> => Shows(asked[Len(asked)])

\* The overview asks once, and has no rows until the answer.
AskedOnce == kind = "stats" => Len(asked) = 1 /\ (waiting # {} => table = 0)

TablesSound == TypeOK /\ RowsAgree /\ ControlsAgree /\ MaskHasReason /\ AskedOnce

\* The numbers the pager computes.
LEMMA PageCountType ==
    ASSUME NEW rows \in Nat, NEW limit \in Nat \ {0}
    PROVE  PageCount(rows, limit) \in Int
BY DEF PageCount

\* The constants, by their fields.
LEMMA TablesConstants ==
    /\ \A text \in Texts : Fees[text] \in Seq(Nat)
    /\ \A limit \in Limits : limit \in Nat \ {0}
    /\ Empty \in Texts /\ DefaultLimit \in Limits
<1>1. Fees \in [Texts -> Seq(Nat)]
  BY ConstantsAssumption
<1>2. \A text \in Texts : Fees[text] \in Seq(Nat)
  BY <1>1
<1>3. QED
  BY ConstantsAssumption, <1>2

\* A question keeps its form when a control is changed.
LEMMA QuestionFields ==
    ASSUME NEW q \in Question
    PROVE  /\ q.text \in Texts /\ q.page \in Nat \ {0} /\ q.limit \in Limits
           /\ q.order \in Orders \cup {None} /\ q.address \in Wallets \cup {None}
           /\ \A text \in Texts : [q EXCEPT !.text = text] \in Question
           /\ \A p \in Nat \ {0} : [q EXCEPT !.page = p] \in Question
           /\ \A limit \in Limits : [q EXCEPT !.limit = limit, !.page = 1] \in Question
           /\ \A order \in Orders \cup {None} : [q EXCEPT !.order = order] \in Question
           /\ \A a \in Wallets \cup {None} : [q EXCEPT !.address = a] \in Question
<1>1. /\ q.text \in Texts /\ q.page \in Nat \ {0} /\ q.limit \in Limits
      /\ q.order \in Orders \cup {None} /\ q.address \in Wallets \cup {None}
      /\ q = [text |-> q.text, page |-> q.page, limit |-> q.limit, order |-> q.order,
              address |-> q.address]
  BY DEF Question
<1>2. ASSUME NEW r, r.text \in Texts, r.page \in Nat \ {0}, r.limit \in Limits,
             r.order \in Orders \cup {None}, r.address \in Wallets \cup {None},
             r = [text |-> r.text, page |-> r.page, limit |-> r.limit, order |-> r.order,
                  address |-> r.address]
      PROVE  r \in Question
  BY <1>2 DEF Question
<1>3. \A text \in Texts : [q EXCEPT !.text = text] \in Question
  BY <1>1, <1>2
<1>4. \A p \in Nat \ {0} : [q EXCEPT !.page = p] \in Question
  BY <1>1, <1>2
<1>5. ASSUME NEW limit \in Limits PROVE [q EXCEPT !.limit = limit, !.page = 1] \in Question
  <2>1. [q EXCEPT !.limit = limit] \in Question
    BY <1>1, <1>2
  <2>2. \A s \in Question : [s EXCEPT !.page = 1] \in Question
    BY DEF Question
  <2>3. [q EXCEPT !.limit = limit, !.page = 1] = [[q EXCEPT !.limit = limit] EXCEPT !.page = 1]
    OBVIOUS
  <2>4. QED
    BY <2>1, <2>2, <2>3
<1>6. \A order \in Orders \cup {None} : [q EXCEPT !.order = order] \in Question
  BY <1>1, <1>2
<1>7. \A a \in Wallets \cup {None} : [q EXCEPT !.address = a] \in Question
  BY <1>1, <1>2
<1>8. QED
  BY <1>1, <1>3, <1>4, <1>5, <1>6, <1>7

\* The question of a page just mounted.
LEMMA FreshQuestion ==
    ASSUME NEW text \in Texts, NEW a \in Wallets \cup {None}
    PROVE  Fresh(text, a) \in Question
BY TablesConstants DEF Fresh, Question

\* What is asked is what the controls show.
LEMMA AskSound ==
    ASSUME TablesSound, kind # "stats", NEW c \in Question,
           Ask(c)
    PROVE  TablesSound'
<1> DEFINE n == Len(asked) + 1
<1>1. /\ ctl' = c /\ asked' = Append(asked, c) /\ waiting' = waiting \cup {n}
      /\ loading' = TRUE /\ table' \in {0, table} /\ Len(asked) < MaxAsks
      /\ UNCHANGED <<kind, latest, total, timers, log>>
  BY DEF Ask
<1>2. /\ asked \in Seq(Question) /\ table \in {0} \cup DOMAIN asked
         /\ latest \in {0} \cup DOMAIN asked
      /\ waiting \subseteq DOMAIN asked /\ MaxAsks \in Nat
  BY ConstantsAssumption DEF TablesSound, TypeOK
<1>3. /\ asked' \in Seq(Question) /\ Len(asked') = n
         /\ DOMAIN asked' = DOMAIN asked \cup {n} /\ n \in DOMAIN asked'
      /\ n <= MaxAsks /\ asked'[n] = c
         /\ \A i \in DOMAIN asked : asked'[i] = asked[i]
  BY <1>1, <1>2
<1> HIDE DEF n
<1>4. TypeOK'
  BY <1>1, <1>2, <1>3 DEF TablesSound, TypeOK
<1>5. RowsAgree'
  BY <1>1, <1>2, <1>3 DEF TablesSound, RowsAgree
<1>6. ControlsAgree'
  <2>1. Shows(c)'
    <3>1. [c EXCEPT !.text = c.text, !.address = IF c.address = None THEN None ELSE @] = c
      BY DEF Question
    <3>2. QED
      BY <1>1, <3>1 DEF Shows
  <2>2. QED
    BY <1>3, <2>1 DEF ControlsAgree
<1>7. MaskHasReason'
  <2>1. waiting' # {}
    BY <1>1
  <2>2. QED
    BY <1>1, <2>1 DEF TablesSound, MaskHasReason
<1>8. AskedOnce'
  BY <1>1 DEF AskedOnce
<1>9. QED
  BY <1>4, <1>5, <1>6, <1>7, <1>8 DEF TablesSound

\* A control that asks nothing: the text typed and, signed out, the address.
LEMMA TypedSound ==
    ASSUME TablesSound, kind \in {"billing", "search"},
           NEW c \in Question,
           ctl' = c, kind = "billing" => \/ c = [ctl EXCEPT !.text = c.text]
                                         \/ c = [ctl EXCEPT !.address = None],
           UNCHANGED <<kind, asked, waiting, view, log>>
    PROVE  TablesSound'
<1>1. UNCHANGED <<kind, asked, waiting, table, latest, total, loading, timers, log>>
  BY DEF view
<1>2. TypeOK' /\ RowsAgree' /\ MaskHasReason' /\ AskedOnce'
  BY <1>1 DEF TablesSound, TypeOK, RowsAgree, MaskHasReason, AskedOnce
<1>3. ControlsAgree'
  <2>1. CASE kind = "search"
    BY <1>1, <2>1 DEF ControlsAgree, Shows
  <2>2. CASE kind = "billing" /\ asked # <<>>
    <3>1. ctl \in Question /\ asked[Len(asked)] \in Question
      BY <2>2 DEF TablesSound, TypeOK
    <3>0. PICK q \in Question : q = asked[Len(asked)]
      BY <3>1
    <3>2. [q EXCEPT !.text = ctl.text, !.address = IF ctl.address = None THEN None ELSE @] = ctl
      BY <2>2, <3>0 DEF TablesSound, ControlsAgree, Shows
    <3>3. [q EXCEPT !.text = c.text, !.address = IF c.address = None THEN None ELSE @] = c
      <4>1. /\ ctl.page = q.page /\ ctl.limit = q.limit /\ ctl.order = q.order
            /\ ctl.address = IF ctl.address = None THEN None ELSE q.address
        BY <3>1, <3>2 DEF Question
      <4>2. /\ c.page = q.page /\ c.limit = q.limit /\ c.order = q.order
            /\ c.address = IF c.address = None THEN None ELSE q.address
        <5>1. CASE c = [ctl EXCEPT !.text = c.text]
          BY <3>1, <4>1, <5>1 DEF Question
        <5>2. CASE c = [ctl EXCEPT !.address = None]
          BY <3>1, <4>1, <5>2 DEF Question
        <5>3. QED
          BY <2>2, <5>1, <5>2
      <4>3. QED
        BY <3>1, <4>2 DEF Question
    <3>4. asked'[Len(asked')] = q /\ kind' = "billing"
      BY <1>1, <2>2, <3>0
    <3>5. Shows(q)'
      BY <1>1, <3>3, <3>4 DEF Shows
    <3>6. QED
      BY <3>4, <3>5 DEF ControlsAgree
  <2>3. CASE asked = <<>>
    BY <1>1, <2>3 DEF ControlsAgree
  <2>4. QED
    BY <2>1, <2>2, <2>3
<1>4. QED
  BY <1>2, <1>3 DEF TablesSound

\* Clear empties the table and the field.
LEMMA ClearSound ==
    ASSUME TablesSound, kind = "search", ClearTable
    PROVE  TablesSound'
<1>1. /\ ctl' = Fresh(Empty, ctl.address) /\ table' = 0
      /\ UNCHANGED <<kind, asked, waiting, latest, total, loading, timers, log>>
  BY DEF ClearTable
<1>2. ctl' \in Question
  BY <1>1, TablesConstants, FreshQuestion, QuestionFields DEF TablesSound, TypeOK
<1>3. TypeOK'
  BY <1>1, <1>2 DEF TablesSound, TypeOK
<1>4. RowsAgree' /\ ControlsAgree' /\ MaskHasReason' /\ AskedOnce'
  BY <1>1 DEF TablesSound, RowsAgree, ControlsAgree, Shows, MaskHasReason, AskedOnce
<1>5. QED
  BY <1>3, <1>4 DEF TablesSound

\* The rows of a page, as the backend cuts them, are fees.
LEMMA RowsType ==
    ASSUME NEW q \in Question
    PROVE  GetSourceFiles(q) \in Seq(Nat)
<1> DEFINE fees == Fees[q.text]
           m == (q.page - 1) * q.limit + 1
           n == SmallerOf((q.page - 1) * q.limit + q.limit, Len(fees))
<1>1. fees \in Seq(Nat) /\ Len(fees) \in Nat /\ \A i \in 1 .. Len(fees) : fees[i] \in Nat
  <2>1. fees \in Seq(Nat)
    BY QuestionFields, TablesConstants
  <2> HIDE DEF fees
  <2>2. QED
    BY <2>1, LenProperties
<1>2. q.page \in Nat \ {0} /\ q.limit \in Nat
  <2>1. q.page \in Nat \ {0} /\ q.limit \in Limits
    BY QuestionFields
  <2>2. QED
    BY <2>1, TablesConstants
<1>3. \A a \in Nat \ {0}, b \in Nat : (a - 1) * b + 1 \in Nat \ {0} /\ (a - 1) * b + b \in Nat
  <2> TAKE a \in Nat \ {0}, b \in Nat
  <2>1. \A c, d \in Nat : c * d \in Nat
    OBVIOUS
  <2>2. a - 1 \in Nat /\ a \in Nat
    OBVIOUS
  <2>3. (a - 1) * b \in Nat
    BY <2>1, <2>2
  <2>4. QED
    BY <2>3
<1>4. m \in Nat \ {0} /\ (q.page - 1) * q.limit + q.limit \in Nat
  BY <1>2, <1>3, Zenon
<1>5. n \in Nat /\ n <= Len(fees)
  <2> HIDE DEF fees
  <2>1. QED
    BY <1>1, <1>4 DEF SmallerOf
<1>6. GetSourceFiles(q) = SubSeq(fees, m, n)
  BY Zenon DEF GetSourceFiles, GetOffsetByPagenumber
<1> HIDE DEF fees, m, n
<1>7. \A i \in m .. n : fees[i] \in Nat
  BY <1>1, <1>4, <1>5
<1>8. QED
  BY <1>4, <1>5, <1>6, <1>7, SubSeqProperties

\* What the backend answers: rows of fees, and a total.
LEMMA ResponseType ==
    ASSUME NEW q \in Question, NEW k
    PROVE  /\ Response(k, q).rows \in Seq(Nat) /\ Response(k, q).total \in Nat
           /\ k \in {"files", "billing"} => Response(k, q).total = Len(Response(k, q).rows)
<1>1. CASE k \in {"files", "billing"}
  <2>1. Response(k, q) = [rows |-> GetSourceFiles(q), total |-> Len(GetSourceFiles(q))]
    BY <1>1 DEF Response, GetDealListFromLocal, GetUserBillingHistory, getBillHistoryList
  <2>2. PICK rows \in Seq(Nat) : rows = GetSourceFiles(q)
    BY RowsType
  <2>3. QED
    BY <2>1, <2>2, LenProperties
<1>2. CASE k \notin {"files", "billing"}
  <2>1. Response(k, q) = [rows |-> Fees[q.text], total |-> 0]
    BY <1>2 DEF Response
  <2>2. Fees[q.text] \in Seq(Nat)
    BY QuestionFields, TablesConstants
  <2>3. QED
    BY <1>2, <2>1, <2>2
<1>3. QED
  BY <1>1, <1>2

\* Whatever answer arrives is the one shown, and the one that came last.
LEMMA AnswerSound ==
    ASSUME TablesSound, NEW i \in waiting, Answer(i)
    PROVE  TablesSound'
<1>1. /\ waiting' = waiting \ {i} /\ table' = i /\ latest' = i
         /\ total' = Response(kind, asked[i]).total
      /\ kind = "files" => timers' = timers + 1 /\ loading' = loading
      /\ kind # "files" => loading' = FALSE /\ timers' = timers
      /\ UNCHANGED <<kind, ctl, asked, log>>
  BY DEF Answer
<1>2. /\ i \in DOMAIN asked /\ asked \in Seq(Question)
         /\ asked[i] \in Question /\ i # 0
      /\ timers \in Nat /\ waiting \subseteq DOMAIN asked
  BY DEF TablesSound, TypeOK
<1>3. total' \in Nat
  BY <1>1, <1>2, ResponseType
<1>4. loading' \in BOOLEAN /\ timers' \in Nat
  <2>1. CASE kind = "files"
    BY <1>1, <1>2, <2>1 DEF TablesSound, TypeOK
  <2>2. CASE kind # "files"
    BY <1>1, <1>2, <2>2 DEF TablesSound, TypeOK
  <2>3. QED
    BY <2>1, <2>2
<1>5. TypeOK'
  BY <1>1, <1>2, <1>3, <1>4 DEF TablesSound, TypeOK
<1>6. RowsAgree' /\ ControlsAgree'
  BY <1>1 DEF TablesSound, RowsAgree, ControlsAgree, Shows
<1>7. MaskHasReason'
  <2>1. CASE kind = "files"
    <3>1. timers' > 0
      BY <1>1, <1>2, <2>1
    <3>2. QED
      BY <1>1, <3>1 DEF TablesSound, MaskHasReason
  <2>2. CASE kind # "files"
    BY <1>1, <2>2 DEF TablesSound, MaskHasReason
  <2>3. QED
    BY <2>1, <2>2
<1>8. AskedOnce'
  <2>1. ASSUME kind = "stats" PROVE Len(asked) = 1 /\ waiting' = {}
    <3>1. Len(asked) = 1
      BY <2>1 DEF TablesSound, AskedOnce
    <3>2. \A j \in DOMAIN asked : j = 1
      BY <1>2, <3>1
    <3>3. QED
      BY <1>1, <1>2, <3>1, <3>2
  <2>2. QED
    BY <1>1, <2>1 DEF AskedOnce
<1>9. QED
  BY <1>5, <1>6, <1>7, <1>8 DEF TablesSound

\* A failure is not an answer.
LEMMA FailSound ==
    ASSUME TablesSound, kind # "stats", NEW i \in waiting,
           Fail(i)
    PROVE  TablesSound'
<1>1. /\ waiting' = waiting \ {i} /\ latest' = 0 /\ loading' = FALSE
      /\ UNCHANGED <<kind, ctl, asked, table, total, timers, log>>
  BY DEF Fail
<1>2. TypeOK' /\ RowsAgree' /\ ControlsAgree' /\ AskedOnce'
  BY <1>1 DEF TablesSound, TypeOK, RowsAgree, ControlsAgree, Shows, AskedOnce
<1>3. MaskHasReason'
  BY <1>1 DEF TablesSound, MaskHasReason
<1>4. QED
  BY <1>2, <1>3 DEF TablesSound

\* A timer of My Files takes the mask down.
LEMMA TimerSound ==
    ASSUME TablesSound, TimerRuns
    PROVE  TablesSound'
<1>1. /\ timers > 0 /\ timers' = timers - 1 /\ loading' = FALSE
      /\ UNCHANGED <<kind, ctl, asked, waiting, table, latest, total, log>>
  BY DEF TimerRuns
<1>2. timers' \in Nat
  BY <1>1 DEF TablesSound, TypeOK
<1>3. TypeOK' /\ RowsAgree' /\ ControlsAgree' /\ AskedOnce'
  BY <1>1, <1>2 DEF TablesSound, TypeOK, RowsAgree, ControlsAgree, Shows, AskedOnce
<1>4. MaskHasReason'
  BY <1>1 DEF TablesSound, MaskHasReason
<1>5. QED
  BY <1>3, <1>4 DEF TablesSound

\* A failure of the overview leaves it without rows.
LEMMA StatsSound ==
    ASSUME TablesSound, kind = "stats", StatsFail
    PROVE  TablesSound'
<1>1. /\ waiting # {} /\ waiting' = {}
      /\ UNCHANGED <<kind, ctl, asked, table, latest, total, loading, timers, log>>
  BY DEF StatsFail, view
<1>2. table = 0 /\ Len(asked) = 1
  BY <1>1 DEF TablesSound, AskedOnce
<1>3. TypeOK' /\ RowsAgree' /\ ControlsAgree' /\ AskedOnce'
  BY <1>1, <1>2 DEF TablesSound, TypeOK, RowsAgree, ControlsAgree, Shows, AskedOnce
<1>4. MaskHasReason'
  BY <1>1, <1>2 DEF TablesSound, MaskHasReason
<1>5. QED
  BY <1>3, <1>4 DEF TablesSound

\* The dialog of a deal's log.
LEMMA LogSound ==
    ASSUME TablesSound, ViewLogs \/ LogsAnswered \/ CloseLogs
    PROVE  TablesSound'
<1>1. UNCHANGED <<kind, ctl, asked, waiting, table, latest, total, loading, timers>>
  BY DEF ViewLogs, LogsAnswered, CloseLogs, view
<1>2. log.open \in BOOLEAN /\ log.mask \in BOOLEAN /\ log.waiting \in 0 .. MaxLogs
      /\ MaxLogs \in Nat
      /\ log = [open |-> log.open, mask |-> log.mask, waiting |-> log.waiting]
  BY ConstantsAssumption DEF TablesSound, TypeOK
<1>3. /\ log' \in [open : BOOLEAN, mask : BOOLEAN, waiting : 0 .. MaxLogs]
      /\ log'.open /\ log'.mask => log'.waiting > 0
  <2>1. CASE ViewLogs
    BY <1>2, <2>1 DEF ViewLogs
  <2>2. CASE LogsAnswered
    <3>1. log' = [log EXCEPT !.waiting = log.waiting - 1, !.mask = FALSE]
          /\ log.waiting - 1 \in 0 .. MaxLogs
      BY <1>2, <2>2 DEF LogsAnswered
    <3>2. log' = [open |-> log.open, mask |-> FALSE, waiting |-> log.waiting - 1]
      BY <1>2, <3>1
    <3>3. QED
      BY <1>2, <3>1, <3>2
  <2>3. CASE CloseLogs
    <3>1. log' = [open |-> FALSE, mask |-> log.mask, waiting |-> log.waiting]
      BY <1>2, <2>3 DEF CloseLogs
    <3>2. QED
      BY <1>2, <3>1
  <2>4. QED
    BY <2>1, <2>2, <2>3
<1>4. TypeOK'
  BY <1>1, <1>3 DEF TablesSound, TypeOK
<1>5. RowsAgree' /\ ControlsAgree' /\ AskedOnce' /\ MaskHasReason'
  BY <1>1, <1>3 DEF TablesSound, RowsAgree, ControlsAgree, Shows, AskedOnce,
     MaskHasReason
<1>6. QED
  BY <1>4, <1>5 DEF TablesSound

\* The pager and the headers of the columns ask.
LEMMA PagerSound ==
    ASSUME TablesSound, kind # "stats", Pager
    PROVE  TablesSound'
<1>1. ctl \in Question /\ total \in Nat /\ ctl.limit \in Nat \ {0} /\ MaxAsks \in Nat
  BY ConstantsAssumption, QuestionFields, TablesConstants DEF TablesSound, TypeOK
<1>2. PageCount(total, ctl.limit) \in Int
  BY <1>1, PageCountType
<1>3. ASSUME NEW n \in 0 .. MaxAsks, ClickPage(n) PROVE TablesSound'
  <2>1. n \in Nat \ {0} /\ Ask([ctl EXCEPT !.page = n])
    BY <1>1, <1>2, <1>3 DEF ClickPage
  <2>2. QED
    BY <1>1, <2>1, QuestionFields, AskSound
<1>4. ASSUME NEW n \in 0 .. MaxAsks, Jump(n) PROVE TablesSound'
  <2> DEFINE p == LargerOf(1, SmallerOf(n, PageCount(total, ctl.limit)))
  <2>1. p \in Nat \ {0}
    BY <1>1, <1>2, <1>4 DEF LargerOf, SmallerOf
  <2>2. Ask([ctl EXCEPT !.page = p])
    BY <1>4 DEF Jump
  <2> HIDE DEF p
  <2>3. QED
    BY <1>1, <2>1, <2>2, QuestionFields, AskSound
<1>5. ASSUME NEW limit \in Limits, ClickSize(limit) PROVE TablesSound'
  BY <1>1, <1>5, QuestionFields, AskSound DEF ClickSize
<1>6. ASSUME NEW order \in Orders \cup {None}, Sort(order) PROVE TablesSound'
  BY <1>1, <1>6, QuestionFields, AskSound DEF Sort
<1>7. QED
  BY <1>3, <1>4, <1>5, <1>6 DEF Pager

\* Every step keeps what is true of the lists.
LEMMA TablesStep ==
    ASSUME TablesSound, [Next]_vars
    PROVE  TablesSound'
<1>1. ctl \in Question /\ ctl.text \in Texts /\ ctl.address \in Wallets \cup {None}
      /\ Empty \in Texts
  BY QuestionFields, TablesConstants DEF TablesSound, TypeOK
<1>2. ASSUME NEW text \in Texts, kind # "stats", Search(text) PROVE TablesSound'
  BY <1>1, <1>2, FreshQuestion, AskSound DEF Search
<1>3. ASSUME NEW text \in Texts, kind \in {"files", "billing", "search"}, Type(text)
      PROVE  TablesSound'
  <2>1. CASE kind = "files" \/ (kind = "billing" /\ text = Empty)
    BY <1>2, <1>3, <2>1 DEF Type
  <2>2. CASE ~(kind = "files" \/ (kind = "billing" /\ text = Empty))
    <3>1. ctl' = [ctl EXCEPT !.text = text]
          /\ UNCHANGED <<kind, asked, waiting, view, log>>
      BY <1>3, <2>2 DEF Type, TypeOnly
    <3>2. [ctl EXCEPT !.text = text] \in Question /\ [ctl EXCEPT !.text = text].text = text
      <4>1. [ctl EXCEPT !.text = text].text = text
        BY <1>1 DEF Question
      <4>2. QED
        BY <1>1, <1>3, <4>1, QuestionFields
    <3>3. kind \in {"billing", "search"}
      BY <1>3, <2>2
    <3>4. QED
      BY <3>1, <3>2, <3>3, TypedSound
  <2>3. QED
    BY <2>1, <2>2
<1>4. ASSUME kind # "stats", Arrives PROVE TablesSound'
  BY <1>4, AnswerSound, FailSound DEF Arrives
<1>5. ASSUME NEW a \in Wallets \cup {None}, kind = "billing", SessionChanges(a)
      PROVE  TablesSound'
  <2>1. CASE a # None
    <3>1. [ctl EXCEPT !.address = a] \in Question /\ Ask([ctl EXCEPT !.address = a])
      BY <1>1, <1>5, <2>1, QuestionFields DEF SessionChanges
    <3>2. QED
      BY <1>5, <3>1, AskSound
  <2>2. CASE a = None
    <3>1. ctl' = [ctl EXCEPT !.address = None]
          /\ UNCHANGED <<kind, asked, waiting, view, log>>
      BY <1>5, <2>2 DEF SessionChanges
    <3>2. [ctl EXCEPT !.address = None] \in Question
      BY <1>1, QuestionFields
    <3>3. QED
      BY <1>5, <3>1, <3>2, TypedSound
  <2>3. QED
    BY <2>1, <2>2
<1>6. CASE FilesPage
  <2>1. kind = "files"
    BY <1>6 DEF FilesPage
  <2>2. QED
    BY <1>3, <1>4, <1>6, <2>1, PagerSound, TimerSound DEF FilesPage
<1>7. CASE BillingPage
  <2>1. kind = "billing"
    BY <1>7 DEF BillingPage
  <2>2. QED
    BY <1>1, <1>2, <1>3, <1>4, <1>5, <1>7, <2>1, PagerSound DEF BillingPage
<1>8. CASE SearchPage
  <2>1. kind = "search"
    BY <1>8 DEF SearchPage
  <2>2. QED
    BY <1>1, <1>2, <1>3, <1>4, <1>8, <2>1, ClearSound DEF SearchPage
<1>9. CASE DetailPage
  <2>1. kind = "detail"
    BY <1>9 DEF DetailPage
  <2>2. ASSUME NEW deal \in Texts, ClickTab(deal) PROVE TablesSound'
    <3>1. [ctl EXCEPT !.text = deal] \in Question /\ Ask([ctl EXCEPT !.text = deal])
      BY <1>1, <2>2, QuestionFields DEF ClickTab
    <3>2. QED
      BY <2>1, <3>1, AskSound
  <2>3. QED
    BY <1>4, <1>9, <2>1, <2>2, LogSound DEF DetailPage
<1>10. CASE FilePage
  BY <1>4, <1>10 DEF FilePage
<1>11. CASE StatsPage
  BY <1>11, StatsSound, AnswerSound DEF StatsPage
<1>12. CASE UNCHANGED vars
  <2>1. UNCHANGED <<kind, ctl, asked, waiting, table, latest, total, loading, timers, log>>
    BY <1>12 DEF vars, view
  <2>2. TypeOK' /\ RowsAgree' /\ ControlsAgree' /\ MaskHasReason' /\ AskedOnce'
    BY <2>1 DEF TablesSound, TypeOK, RowsAgree, ControlsAgree, Shows,
       MaskHasReason, AskedOnce
  <2>3. QED
    BY <2>2 DEF TablesSound
<1>13. QED
  BY <1>6, <1>7, <1>8, <1>9, <1>10, <1>11, <1>12 DEF Next

\* So does the page just mounted.
LEMMA TablesInit ==
    ASSUME Init
    PROVE  TablesSound
<1>1. /\ table = 0 /\ latest = 0 /\ total = 0 /\ timers = 0 /\ kind \in Kinds
      /\ log = [open |-> FALSE, mask |-> TRUE, waiting |-> 0]
      /\ waiting = DOMAIN asked /\ loading = (kind # "search")
  BY DEF Init
<1>2. PICK text \in Texts, a \in Wallets : ctl = Fresh(text, a)
  BY DEF Init
<1>3. ctl \in Question
  BY <1>2, FreshQuestion
<1>4. /\ asked \in Seq(Question) /\ Len(asked) <= MaxAsks
      /\ kind # "search" => asked = <<ctl>> /\ Len(asked) = 1 /\ waiting # {}
         /\ asked[Len(asked)] = ctl
  <2>1. CASE kind = "search"
    BY ConstantsAssumption, <2>1 DEF Init
  <2>2. CASE kind # "search"
    <3>1. asked = <<ctl>>
      BY <2>2 DEF Init
    <3>2. 1 <= MaxAsks
      BY ConstantsAssumption
    <3>3. QED
      BY <1>1, <1>3, <3>1, <3>2
  <2>3. QED
    BY <2>1, <2>2
<1>5. log \in [open : BOOLEAN, mask : BOOLEAN, waiting : 0 .. MaxLogs]
  BY ConstantsAssumption, <1>1
<1>6. TypeOK
  BY <1>1, <1>3, <1>4, <1>5 DEF TypeOK
<1>7. RowsAgree /\ MaskHasReason /\ AskedOnce
  BY <1>1, <1>4 DEF RowsAgree, MaskHasReason, AskedOnce
<1>8. ControlsAgree
  <2>1. CASE kind = "search"
    BY <2>1 DEF ControlsAgree, Shows
  <2>2. CASE kind # "search"
    <3>1. [ctl EXCEPT !.text = ctl.text, !.address = IF ctl.address = None THEN None ELSE @] = ctl
      BY <1>3 DEF Question
    <3>2. QED
      BY <1>4, <2>2, <3>1 DEF ControlsAgree, Shows
  <2>3. QED
    BY <2>1, <2>2
<1>9. QED
  BY <1>6, <1>7, <1>8 DEF TablesSound

\* What is true of the lists is always true.
LEMMA AlwaysTablesSound == Spec => []TablesSound
BY TablesInit, TablesStep, PTL DEF Spec

\* For any texts, fees and number of requests: when the answer that came last is the one to the
\* last question (billing.vue:270, 286), the rows are those the controls ask for, and the total
\* of My Files and Billing is the number of them (storage/router.go:433).
THEOREM LastShown == Spec => []LastAnswerShown
<1>1. TablesSound => LastAnswerShown
  <2> SUFFICES ASSUME TablesSound, latest # 0, latest = Len(asked), table # 0
               PROVE  /\ table = latest /\ Shows(asked[table])
                      /\ kind \in {"files", "billing"} => total = Len(Response(kind, asked[table]).rows)
    BY DEF LastAnswerShown
  <2>1. table = latest /\ total = Response(kind, asked[table]).total /\ asked # <<>>
    BY DEF TablesSound, RowsAgree, TypeOK
  <2>2. asked[table] \in Question
    BY DEF TablesSound, TypeOK
  <2>3. kind \in {"files", "billing"} => total = Len(Response(kind, asked[table]).rows)
    BY <2>1, <2>2, ResponseType
  <2>4. QED
    BY <2>1, <2>3 DEF TablesSound, ControlsAgree
<1>2. QED
  BY <1>1, AlwaysTablesSound, PTL

\* For any texts, fees, page sizes and number of requests: a mask has a reason, and so it comes
\* down with the last answer, failure or timer (searchFile/index.vue:226); and every fee shown is
\* printed as FeePrinted says: right, but for storage prices of one FIL and more.
THEOREM TablesKept == Spec => []TablesInv
<1>1. TypeOK => FeesPrintedRight
  <2> SUFFICES ASSUME TypeOK, table # 0, NEW fee \in FeesShown(Response(kind, asked[table]).rows)
               PROVE  /\ Read(NumFormatPrice(fee, "string")) = fee
                      /\ NumberOf(fee) < Power10[Decimals] => Read(NumFormatPrice(fee, "number")) = NumberOf(fee)
                      /\ Read(balanceFilter(fee)) = NumberOf(fee)
                      /\ Len(DigitsOf(fee)) <= Digits53 => NumberOf(fee) = fee
    BY Zenon DEF FeesPrintedRight
  <2>1. PICK rows \in Seq(Nat) : rows = Response(kind, asked[table]).rows
    BY ResponseType DEF TypeOK
  <2>2. fee \in {rows[i] : i \in DOMAIN rows}
    BY <2>1, Zenon DEF FeesShown
  <2>3. fee \in Nat
    BY <2>1, <2>2, LenProperties
  <2>4. QED
    BY <2>3, FeePrinted
<1>2. TablesSound => TypeOK /\ MaskHasReason
  BY DEF TablesSound
<1>3. QED
  BY <1>1, <1>2, AlwaysTablesSound, PTL DEF TablesInv
=============================================================================
