--------------------------- MODULE ContractProofs ---------------------------
(***************************************************************************)
(* Proofs about the two contracts.                                         *)
(*                                                                         *)
(* SwanPayment: the types, what the contract holds, and what a single step *)
(* may do to a payment and to its owner's balance; before them lemmas      *)
(* about sums over finite sets.                                            *)
(*                                                                         *)
(* FilswanOracle, with the consumer it extends: the vote counters, the     *)
(* agreed cid lists, and that with thresholds of a majority an agreed list *)
(* is never replaced.                                                      *)
(***************************************************************************)
EXTENDS SwanPayment, FilswanOracle,
        FiniteSetTheorems, SequenceTheorems, WellFoundedInduction, TLAPS

(***************************************************************************)
(* SumFunctionOnSet of the community modules, by its definition: it obeys  *)
(* its equation, takes the elements in any order, and is linear.           *)
(*                                                                         *)
(* Induction over a finite set is done with the set of its good subsets in *)
(* place of a predicate: strict inclusion is well-founded, so among bad    *)
(* subsets there would be a minimal one.                                   *)
(***************************************************************************)

\* Among sets of subsets of a finite set there is a minimal one.
LEMMA SmallestSubset ==
    ASSUME NEW S, IsFiniteSet(S), NEW Bad, Bad \subseteq SUBSET S, Bad # {}
    PROVE  \E T \in Bad : \A U \in Bad : U \subseteq T => U = T
<1>1. IsWellFoundedOn(StrictSubsetOrdering(S), FiniteSubsetsOf(S))
  BY FS_StrictSubsetOrderingWellFounded
<1>2. FiniteSubsetsOf(S) = SUBSET S
  BY FS_FiniteSubsetsOfFinite
<1>3. \E T \in Bad : \A U \in Bad : ~ (<<U, T>> \in StrictSubsetOrdering(S))
  BY <1>1, <1>2, WFMin, Zenon
<1>4. QED
  BY <1>3 DEF StrictSubsetOrdering

\* Induction over the subsets of a finite set, the set Good in place of a predicate.
LEMMA SubsetInduction ==
    ASSUME NEW S, IsFiniteSet(S), NEW Good,
           \A T \in SUBSET S : (\A U \in SUBSET T : U # T => U \in Good) => T \in Good
    PROVE  \A T \in SUBSET S : T \in Good
<1> DEFINE Bad == (SUBSET S) \ Good
<1>1. SUFFICES ASSUME Bad # {} PROVE FALSE
  OBVIOUS
<1>2. Bad \subseteq SUBSET S
  OBVIOUS
<1>3. PICK T \in Bad : \A U \in Bad : U \subseteq T => U = T
  <2> HIDE DEF Bad
  <2>1. QED
    BY <1>1, <1>2, SmallestSubset
<1>4. T \in SUBSET S /\ T \notin Good
  OBVIOUS
<1>5. \A U \in SUBSET T : U # T => U \in Good
  BY <1>3, <1>4
<1>6. QED
  BY <1>4, <1>5

\* The equation of a sum over the subsets of S, elements taken in the order pick gives.
Sums(sum, f, pick, S) ==
    sum = [s \in SUBSET S |-> IF s = {} THEN 0 ELSE f[pick[s]] + sum[s \ {pick[s]}]]

Picks(pick, S) == \A s \in SUBSET S : s # {} => pick[s] \in s

\* Two such functions agree where both are defined.
LEMMA SumsAgree ==
    ASSUME NEW S, IsFiniteSet(S), NEW f, NEW pick, Picks(pick, S),
           NEW A \in SUBSET S, NEW B \in SUBSET S, NEW g, NEW h,
           Sums(g, f, pick, A), Sums(h, f, pick, B)
    PROVE  \A s \in SUBSET (A \cap B) : g[s] = h[s]
<1> DEFINE Bad == {s \in SUBSET (A \cap B) : g[s] # h[s]}
<1>1. SUFFICES ASSUME Bad # {} PROVE FALSE
  OBVIOUS
<1>2. PICK T \in Bad : \A U \in Bad : U \subseteq T => U = T
  <2>1. Bad \subseteq SUBSET S
    OBVIOUS
  <2> HIDE DEF Bad
  <2>2. QED
    BY <1>1, <2>1, SmallestSubset
<1>3. T \in SUBSET A /\ T \in SUBSET B
  OBVIOUS
<1>4. /\ g[T] = IF T = {} THEN 0 ELSE f[pick[T]] + g[T \ {pick[T]}]
      /\ h[T] = IF T = {} THEN 0 ELSE f[pick[T]] + h[T \ {pick[T]}]
  BY <1>3 DEF Sums
<1>5. CASE T = {}
  BY <1>4, <1>5
<1>6. CASE T # {}
  <2>1. pick[T] \in T
    BY <1>3, <1>6 DEF Picks
  <2>2. g[T \ {pick[T]}] = h[T \ {pick[T]}]
    BY <1>2, <2>1
  <2>3. QED
    BY <1>4, <1>6, <2>2
<1>7. QED
  BY <1>5, <1>6

\* There is such a function: the equation defines SumFunctionOnSet.
LEMMA SumsExist ==
    ASSUME NEW S, IsFiniteSet(S), NEW f, NEW pick, Picks(pick, S)
    PROVE  \E sum : Sums(sum, f, pick, S)
<1> DEFINE Bad == {s \in SUBSET S : ~ \E sum : Sums(sum, f, pick, s)}
<1>1. SUFFICES ASSUME Bad # {} PROVE FALSE
  OBVIOUS
<1>2. PICK T \in Bad : \A U \in Bad : U \subseteq T => U = T
  <2>1. Bad \subseteq SUBSET S
    OBVIOUS
  <2> HIDE DEF Bad
  <2>2. QED
    BY <1>1, <2>1, SmallestSubset
<1> DEFINE part(U) == CHOOSE sum : Sums(sum, f, pick, U)
<1>3. \A U \in SUBSET T : U # T => Sums(part(U), f, pick, U)
  <2>1. SUFFICES ASSUME NEW U \in SUBSET T, U # T PROVE Sums(part(U), f, pick, U)
    OBVIOUS
  <2>2. \E sum : Sums(sum, f, pick, U)
    BY <1>2, <2>1
  <2>3. QED
    BY <2>2, Zenon
<1> DEFINE val(s) == IF s = {} THEN 0 ELSE f[pick[s]] + part(s \ {pick[s]})[s \ {pick[s]}]
           all == [s \in SUBSET T |-> val(s)]
<1>4. ASSUME NEW U \in SUBSET T, U # T PROVE all[U] = part(U)[U]
  <2> HIDE DEF part
  <2>1. CASE U = {}
    <3>1. part(U)[U] = 0
      BY <1>3, <1>4, <2>1 DEF Sums
    <3>2. QED
      BY <2>1, <3>1
  <2>2. CASE U # {}
    <3> DEFINE V == U \ {pick[U]}
    <3>1. pick[U] \in U /\ V \in SUBSET T /\ V # T /\ U \in SUBSET S /\ V \in SUBSET S /\ V \in SUBSET U
      BY <1>4, <2>2 DEF Picks
    <3>2. part(U)[U] = f[pick[U]] + part(U)[V]
      BY <1>3, <1>4, <2>2, <3>1 DEF Sums
    <3>3. part(U)[V] = part(V)[V]
      <4>1. Sums(part(U), f, pick, U) /\ Sums(part(V), f, pick, V)
        BY <1>3, <1>4, <3>1
      <4>2. \A s \in SUBSET (U \cap V) : part(U)[s] = part(V)[s]
        <5> HIDE DEF V
        <5>1. QED
          BY <4>1, <3>1, SumsAgree
      <4>3. QED
        BY <4>2, <3>1
    <3>4. QED
      BY <2>2, <3>2, <3>3
  <2>3. QED
    BY <2>1, <2>2
<1>5. ASSUME NEW s \in SUBSET T
      PROVE  all[s] = IF s = {} THEN 0 ELSE f[pick[s]] + all[s \ {pick[s]}]
  <2>1. CASE s = {}
    BY <2>1
  <2>2. CASE s # {}
    <3>1. pick[s] \in s
      BY <1>5, <2>2 DEF Picks
    <3> DEFINE V == s \ {pick[s]}
    <3>2. V \in SUBSET T /\ V # T
      BY <3>1
    <3>3. all[V] = part(V)[V]
      BY <1>4, <3>2
    <3>4. all[s] = f[pick[s]] + part(V)[V]
      BY <2>2
    <3>5. QED
      BY <2>2, <3>3, <3>4
  <2>3. QED
    BY <2>1, <2>2
<1>6. Sums(all, f, pick, T)
  <2> HIDE DEF val
  <2> DEFINE rec == [s \in SUBSET T |-> IF s = {} THEN 0 ELSE f[pick[s]] + all[s \ {pick[s]}]]
  <2>1. \A s \in SUBSET T : all[s] = rec[s]
    BY <1>5
  <2>2. all = rec
    BY <2>1
  <2>3. QED
    BY <2>2 DEF Sums
<1>7. QED
  BY <1>2, <1>6

\* The order SumFunctionOnSet takes elements in.
Order(S) == [s \in SUBSET S |-> CHOOSE x \in s : TRUE]

LEMMA OrderPicks == ASSUME NEW S PROVE Picks(Order(S), S)
BY DEF Picks, Order

LEMMA SumIsSums ==
    ASSUME NEW f, NEW S, IsFiniteSet(S)
    PROVE  \E sum : Sums(sum, f, Order(S), S) /\ SumFunctionOnSet(f, S) = sum[S]
<1> DEFINE eq(sum) == sum = [s \in SUBSET S |->
                  IF s = {} THEN 0 ELSE f[CHOOSE x \in s : TRUE] + sum[s \ {CHOOSE x \in s : TRUE}]]
<1>1. \A sum : Sums(sum, f, Order(S), S) <=> eq(sum)
  <2> TAKE sum
  <2>1. \A s \in SUBSET S : Order(S)[s] = CHOOSE x \in s : TRUE
    BY DEF Order
  <2>2. [s \in SUBSET S |-> IF s = {} THEN 0 ELSE f[Order(S)[s]] + sum[s \ {Order(S)[s]}]]
        = [s \in SUBSET S |-> IF s = {} THEN 0 ELSE f[CHOOSE x \in s : TRUE] + sum[s \ {CHOOSE x \in s : TRUE}]]
    BY <2>1
  <2>3. QED
    BY <2>2, Zenon DEF Sums
<1>2. SumFunctionOnSet(f, S) = (CHOOSE sum : eq(sum))[S]
  BY Zenon DEF SumFunctionOnSet, FoldFunctionOnSet, MapThenFoldSet
<1>3. \E sum : eq(sum)
  <2> HIDE DEF eq
  <2>1. \E sum : Sums(sum, f, Order(S), S)
    BY OrderPicks, SumsExist
  <2>2. QED
    BY <1>1, <2>1
<1>4. eq(CHOOSE sum : eq(sum))
  <2> HIDE DEF eq
  <2>1. QED
    BY <1>3, Zenon
<1>5. QED
  <2> HIDE DEF eq
  <2>1. QED
    BY <1>1, <1>2, <1>4

\* The equation of SumFunctionOnSet: nothing adds up to 0, and some element can be taken out.
LEMMA SumEmpty == ASSUME NEW f PROVE SumFunctionOnSet(f, {}) = 0
<1>1. IsFiniteSet({})
  BY FS_EmptySet
<1>2. PICK sum : Sums(sum, f, Order({}), {}) /\ SumFunctionOnSet(f, {}) = sum[{}]
  BY <1>1, SumIsSums
<1>3. QED
  BY <1>2 DEF Sums

LEMMA SumStep ==
    ASSUME NEW f, NEW S, IsFiniteSet(S), S # {}
    PROVE  \E x \in S : SumFunctionOnSet(f, S) = f[x] + SumFunctionOnSet(f, S \ {x})
<1> DEFINE x == Order(S)[S]
           T == S \ {x}
<1>1. x \in S /\ T \in SUBSET S
  BY DEF Order
<1>2. IsFiniteSet(T)
  BY <1>1, FS_Subset
<1>3. PICK g : Sums(g, f, Order(S), S) /\ SumFunctionOnSet(f, S) = g[S]
  BY SumIsSums
<1>4. PICK h : Sums(h, f, Order(T), T) /\ SumFunctionOnSet(f, T) = h[T]
  BY <1>2, SumIsSums
<1>5. Sums(h, f, Order(S), T)
  <2>1. \A s \in SUBSET T : Order(T)[s] = Order(S)[s]
    BY <1>1 DEF Order
  <2>2. [s \in SUBSET T |-> IF s = {} THEN 0 ELSE f[Order(T)[s]] + h[s \ {Order(T)[s]}]]
        = [s \in SUBSET T |-> IF s = {} THEN 0 ELSE f[Order(S)[s]] + h[s \ {Order(S)[s]}]]
    BY <2>1
  <2>3. QED
    BY <1>4, <2>2, Zenon DEF Sums
<1>6. \A s \in SUBSET (S \cap T) : g[s] = h[s]
  <2> HIDE DEF T, x
  <2>1. QED
    BY <1>1, <1>3, <1>5, OrderPicks, SumsAgree
<1>7. g[T] = h[T]
  BY <1>6
<1>8. g[S] = f[x] + g[T]
  BY <1>3, <1>1 DEF Sums
<1>9. QED
  BY <1>1, <1>3, <1>4, <1>7, <1>8

\* A sum of integers is an integer, a sum of naturals a natural.
LEMMA SumType ==
    ASSUME NEW N \in {Nat, Int}, NEW S, IsFiniteSet(S), NEW f, \A x \in S : f[x] \in N
    PROVE  SumFunctionOnSet(f, S) \in N
<1> DEFINE Good == {s \in SUBSET S : SumFunctionOnSet(f, s) \in N}
<1>1. ASSUME NEW T \in SUBSET S, \A U \in SUBSET T : U # T => U \in Good
      PROVE  T \in Good
  <2>1. CASE T = {}
    BY <2>1, SumEmpty
  <2>2. CASE T # {}
    <3>1. IsFiniteSet(T)
      BY FS_Subset
    <3>2. PICK x \in T : SumFunctionOnSet(f, T) = f[x] + SumFunctionOnSet(f, T \ {x})
      BY <2>2, <3>1, SumStep
    <3>3. SumFunctionOnSet(f, T \ {x}) \in N /\ f[x] \in N
      BY <1>1
    <3>4. QED
      BY <3>2, <3>3
  <2>3. QED
    BY <2>1, <2>2
<1>2. S \in Good
  <2> HIDE DEF Good
  <2>1. QED
    BY <1>1, SubsetInduction
<1>3. QED
  BY <1>2

\* Any element can be taken out of a sum.
LEMMA SumRemove ==
    ASSUME NEW S, IsFiniteSet(S), NEW f, \A x \in S : f[x] \in Int
    PROVE  \A x \in S : SumFunctionOnSet(f, S) = f[x] + SumFunctionOnSet(f, S \ {x})
<1> DEFINE P(s) == \A x \in s : SumFunctionOnSet(f, s) = f[x] + SumFunctionOnSet(f, s \ {x})
           Good == {s \in SUBSET S : P(s)}
<1>1. ASSUME NEW T \in SUBSET S, \A U \in SUBSET T : U # T => U \in Good, NEW x \in T
      PROVE  SumFunctionOnSet(f, T) = f[x] + SumFunctionOnSet(f, T \ {x})
  <2>1. IsFiniteSet(T)
    BY FS_Subset
  <2>2. PICK y \in T : SumFunctionOnSet(f, T) = f[y] + SumFunctionOnSet(f, T \ {y})
    BY <2>1, SumStep
  <2>3. CASE x = y
    BY <2>2, <2>3
  <2>4. CASE x # y
    <3> DEFINE rest == (T \ {x}) \ {y}
    <3>1. SumFunctionOnSet(f, T \ {y}) = f[x] + SumFunctionOnSet(f, rest)
      <4>1. T \ {y} \in SUBSET T /\ T \ {y} # T /\ x \in T \ {y}
        BY <2>4
      <4>2. P(T \ {y})
        BY <1>1, <4>1
      <4>3. rest = (T \ {y}) \ {x}
        OBVIOUS
      <4>4. QED
        BY <4>1, <4>2, <4>3
    <3>2. SumFunctionOnSet(f, T \ {x}) = f[y] + SumFunctionOnSet(f, rest)
      <4>1. T \ {x} \in SUBSET T /\ T \ {x} # T /\ y \in T \ {x}
        BY <2>4
      <4>2. P(T \ {x})
        BY <1>1, <4>1
      <4>3. QED
        BY <4>1, <4>2
    <3>3. SumFunctionOnSet(f, rest) \in Int
      <4>1. rest \in SUBSET S /\ \A z \in rest : f[z] \in Int
        OBVIOUS
      <4>2. IsFiniteSet(rest)
        BY <4>1, FS_Subset
      <4> HIDE DEF rest
      <4>3. QED
        BY <4>1, <4>2, SumType
    <3>4. f[x] \in Int /\ f[y] \in Int
      OBVIOUS
    <3> HIDE DEF rest
    <3>5. QED
      BY <2>2, <3>1, <3>2, <3>3, <3>4
  <2>5. QED
    BY <2>3, <2>4
<1>2. S \in Good
  <2>1. \A T \in SUBSET S : (\A U \in SUBSET T : U # T => U \in Good) => T \in Good
    BY <1>1
  <2> HIDE DEF Good
  <2>2. QED
    BY <2>1, SubsetInduction
<1>3. QED
  BY <1>2

\* Sums are linear.
LEMMA SumMinus ==
    ASSUME NEW S, IsFiniteSet(S), NEW k \in Int, NEW f, NEW g, NEW h,
           \A x \in S : f[x] \in Int, \A x \in S : h[x] \in Int,
           \A x \in S : g[x] = f[x] - k * h[x]
    PROVE  SumFunctionOnSet(g, S) = SumFunctionOnSet(f, S) - k * SumFunctionOnSet(h, S)
<1> DEFINE Good == {s \in SUBSET S : SumFunctionOnSet(g, s) = SumFunctionOnSet(f, s) - k * SumFunctionOnSet(h, s)}
<1>1. ASSUME NEW T \in SUBSET S, \A U \in SUBSET T : U # T => U \in Good
      PROVE  T \in Good
  <2>1. CASE T = {}
    BY <2>1, SumEmpty
  <2>2. CASE T # {}
    <3> PICK x \in T : TRUE
      BY <2>2
    <3> DEFINE rest == T \ {x}
    <3>1. /\ IsFiniteSet(T) /\ IsFiniteSet(rest)
          /\ \A y \in T : f[y] \in Int /\ h[y] \in Int /\ g[y] \in Int
          /\ rest \in SUBSET T /\ rest # T
      BY FS_Subset
    <3>2. /\ SumFunctionOnSet(f, T) = f[x] + SumFunctionOnSet(f, rest)
          /\ SumFunctionOnSet(g, T) = g[x] + SumFunctionOnSet(g, rest)
          /\ SumFunctionOnSet(h, T) = h[x] + SumFunctionOnSet(h, rest)
      BY <3>1, SumRemove
    <3>3. SumFunctionOnSet(g, rest) = SumFunctionOnSet(f, rest) - k * SumFunctionOnSet(h, rest)
      BY <1>1, <3>1
    <3> HIDE DEF rest
    <3>4. SumFunctionOnSet(f, rest) \in Int /\ SumFunctionOnSet(h, rest) \in Int
      BY <3>1, SumType
    <3>5. SumFunctionOnSet(g, T) = SumFunctionOnSet(f, T) - k * SumFunctionOnSet(h, T)
      <4>1. \A a, b, c, d \in Int : (a - k * b) + (c - k * d) = (a + c) - k * (b + d)
        OBVIOUS
      <4>2. g[x] = f[x] - k * h[x] /\ f[x] \in Int /\ h[x] \in Int
        OBVIOUS
      <4>3. QED
        BY <3>2, <3>3, <3>4, <4>1, <4>2
    <3>6. QED
      BY <3>5
  <2>3. QED
    BY <2>1, <2>2
<1>2. S \in Good
  <2> HIDE DEF Good
  <2>1. QED
    BY <1>1, SubsetInduction
<1>3. QED
  BY <1>2

\* A sum depends on the values it adds up only.
LEMMA SumSame ==
    ASSUME NEW S, IsFiniteSet(S), NEW f, NEW g, \A x \in S : f[x] \in Int /\ g[x] = f[x]
    PROVE  SumFunctionOnSet(g, S) = SumFunctionOnSet(f, S)
<1>1. (\A x \in S : f[x] \in Int) /\ (\A x \in S : g[x] = f[x])
  OBVIOUS
<1>2. PICK k \in Int : k = 0
  OBVIOUS
<1>3. PICK h : h = f
  OBVIOUS
<1>4. (\A x \in S : h[x] \in Int) /\ (\A x \in S : g[x] = f[x] - k * h[x])
  BY <1>1, <1>2, <1>3
<1>5. SumFunctionOnSet(g, S) = SumFunctionOnSet(f, S) - k * SumFunctionOnSet(h, S)
  BY <1>1, <1>4, SumMinus
<1>6. SumFunctionOnSet(f, S) \in Int /\ SumFunctionOnSet(h, S) \in Int
  BY <1>1, <1>4, SumType
<1>7. QED
  BY <1>2, <1>5, <1>6

\* A sum over a set is that over a part of it and that over the rest.
LEMMA SumSplit ==
    ASSUME NEW S, IsFiniteSet(S), NEW f, \A x \in S : f[x] \in Int, NEW R \in SUBSET S
    PROVE  SumFunctionOnSet(f, S) = SumFunctionOnSet(f, R) + SumFunctionOnSet(f, S \ R)
<1> DEFINE Good == {s \in SUBSET R : SumFunctionOnSet(f, S) = SumFunctionOnSet(f, s) + SumFunctionOnSet(f, S \ s)}
<1>1. ASSUME NEW T \in SUBSET R, \A U \in SUBSET T : U # T => U \in Good
      PROVE  T \in Good
  <2>1. CASE T = {}
    <3>1. S \ T = S
      BY <2>1
    <3>2. SumFunctionOnSet(f, S) \in Int
      BY SumType
    <3>3. QED
      BY <2>1, <3>1, <3>2, SumEmpty
  <2>2. CASE T # {}
    <3> PICK x \in T : TRUE
      BY <2>2
    <3> DEFINE less == T \ {x}
               out  == S \ T
               more == S \ less
    <3>1. /\ less \in SUBSET T /\ less # T /\ more \ {x} = out /\ x \in more
          /\ T \in SUBSET S /\ less \in SUBSET S /\ more \in SUBSET S /\ out \in SUBSET S
      OBVIOUS
    <3>2. IsFiniteSet(T) /\ IsFiniteSet(less) /\ IsFiniteSet(more) /\ IsFiniteSet(out)
      BY <3>1, FS_Subset
    <3>3. SumFunctionOnSet(f, S) = SumFunctionOnSet(f, less) + SumFunctionOnSet(f, more)
      BY <1>1, <3>1
    <3>4. SumFunctionOnSet(f, T) = f[x] + SumFunctionOnSet(f, less)
      BY <3>2, SumRemove
    <3>5. SumFunctionOnSet(f, more) = f[x] + SumFunctionOnSet(f, out)
      BY <3>1, <3>2, SumRemove
    <3>6. SumFunctionOnSet(f, less) \in Int /\ SumFunctionOnSet(f, out) \in Int /\ f[x] \in Int
      BY <3>1, <3>2, SumType
    <3>7. SumFunctionOnSet(f, S) = SumFunctionOnSet(f, T) + SumFunctionOnSet(f, S \ T)
      <4> HIDE DEF less, more
      <4>1. QED
        BY <3>3, <3>4, <3>5, <3>6
    <3>8. QED
      BY <3>7
  <2>3. QED
    BY <2>1, <2>2
<1>2. R \in Good
  <2>1. IsFiniteSet(R)
    BY FS_Subset
  <2> HIDE DEF Good
  <2>2. QED
    BY <1>1, <2>1, SubsetInduction
<1>3. QED
  BY <1>2

(***************************************************************************)
(* Fees of a table of payments.                                            *)
(***************************************************************************)
Tables == [Cids -> TxInfo]

LEMMA FiniteCids == ASSUME NEW S \in SUBSET Cids PROVE IsFiniteSet(S)
BY ConstantsAssumption, FS_Subset

LEMMA FeesNat == ASSUME NEW map \in Tables, NEW S \in SUBSET Cids PROVE Fees(map, S) \in Nat
<1> DEFINE fee == [c \in Cids |-> map[c].lockedFee]
<1>1. \A c \in S : fee[c] \in Nat
  BY DEF Tables, TxInfo
<1>2. SumFunctionOnSet(fee, S) \in Nat
  <2> HIDE DEF fee
  <2>1. QED
    BY <1>1, FiniteCids, SumType
<1>3. QED
  BY <1>2 DEF Fees

\* Entries whose fee is the same do not change the sum.
LEMMA FeesSame ==
    ASSUME NEW map \in Tables, NEW new \in Tables, NEW S \in SUBSET Cids,
           \A c \in S : new[c].lockedFee = map[c].lockedFee
    PROVE  Fees(new, S) = Fees(map, S)
<1> DEFINE fee == [c \in Cids |-> map[c].lockedFee]
           newFee == [c \in Cids |-> new[c].lockedFee]
<1>1. \A c \in S : fee[c] \in Int /\ newFee[c] = fee[c]
  BY DEF Tables, TxInfo
<1>2. SumFunctionOnSet(newFee, S) = SumFunctionOnSet(fee, S)
  <2> HIDE DEF fee, newFee
  <2>1. QED
    BY <1>1, FiniteCids, SumSame
<1>3. QED
  BY <1>2 DEF Fees

LEMMA FeesSplit ==
    ASSUME NEW map \in Tables, NEW S \in SUBSET Cids, NEW R \in SUBSET S
    PROVE  Fees(map, S) = Fees(map, R) + Fees(map, S \ R)
<1> DEFINE fee == [c \in Cids |-> map[c].lockedFee]
<1>1. \A c \in S : fee[c] \in Int
  BY DEF Tables, TxInfo
<1>2. SumFunctionOnSet(fee, S) = SumFunctionOnSet(fee, R) + SumFunctionOnSet(fee, S \ R)
  <2> HIDE DEF fee
  <2>1. QED
    BY <1>1, FiniteCids, SumSplit
<1>3. QED
  BY <1>2 DEF Fees

LEMMA FeesEmpty == ASSUME NEW map PROVE Fees(map, {}) = 0
BY SumEmpty DEF Fees

LEMMA FeesRemove ==
    ASSUME NEW map \in Tables, NEW S \in SUBSET Cids, NEW c \in S
    PROVE  Fees(map, S) = map[c].lockedFee + Fees(map, S \ {c})
<1> DEFINE fee == [d \in Cids |-> map[d].lockedFee]
<1>1. \A d \in S : fee[d] \in Int
  BY DEF Tables, TxInfo
<1>2. SumFunctionOnSet(fee, S) = fee[c] + SumFunctionOnSet(fee, S \ {c})
  <2> HIDE DEF fee
  <2>1. QED
    BY <1>1, FiniteCids, SumRemove
<1>3. QED
  BY <1>2 DEF Fees

LEMMA FeesOfOne ==
    ASSUME NEW map \in Tables, NEW c \in Cids
    PROVE  Fees(map, {c}) = map[c].lockedFee
<1>1. Fees(map, {c}) = map[c].lockedFee + Fees(map, {c} \ {c})
  BY FeesRemove
<1>2. Fees(map, {c} \ {c}) = 0
  BY FeesEmpty
<1>3. QED
  BY <1>1, <1>2 DEF Tables, TxInfo

\* A table is a payment richer, or has one payment replaced: its fees grow by the new
\* fee at most.
LEMMA FeesAfterLock ==
    ASSUME NEW map \in Tables, NEW c \in Cids, NEW locked \in TxInfo, locked._isExisted
    PROVE  LET new == [map EXCEPT ![c] = locked]
           IN  /\ new \in Tables
               /\ Fees(new, Existing(new)) <= Fees(map, Existing(map)) + locked.lockedFee
<1> DEFINE new == [map EXCEPT ![c] = locked]
           others == Existing(map) \ {c}
<1>1. new \in Tables
  BY DEF Tables
<1>2. /\ Existing(new) \in SUBSET Cids /\ c \in Existing(new) /\ Existing(new) \ {c} = others
      /\ Existing(map) \in SUBSET Cids /\ others \in SUBSET Cids
      /\ \A d \in others : new[d].lockedFee = map[d].lockedFee
      /\ new[c] = locked
  BY DEF Tables, Existing
<1> HIDE DEF new
<1>3. Fees(new, Existing(new)) = locked.lockedFee + Fees(new, others)
  BY <1>1, <1>2, FeesRemove
<1>4. Fees(new, others) = Fees(map, others)
  BY <1>1, <1>2, FeesSame
<1>5. Fees(map, others) <= Fees(map, Existing(map))
  <2>1. CASE c \in Existing(map)
    <3>1. Fees(map, Existing(map)) = map[c].lockedFee + Fees(map, others)
      BY <2>1, <1>2, FeesRemove
    <3>2. map[c].lockedFee \in Nat
      BY DEF Tables, TxInfo
    <3>3. Fees(map, others) \in Nat
      BY <1>2, FeesNat
    <3>4. QED
      BY <3>1, <3>2, <3>3
  <2>2. CASE c \notin Existing(map)
    <3>1. others = Existing(map)
      BY <2>2
    <3>2. Fees(map, others) \in Nat
      BY <1>2, FeesNat
    <3>3. QED
      BY <3>1, <3>2
  <2>3. QED
    BY <2>1, <2>2
<1>6. /\ Fees(map, others) \in Nat /\ Fees(map, Existing(map)) \in Nat /\ locked.lockedFee \in Nat
  BY <1>2, FeesNat DEF TxInfo
<1>7. Fees(new, Existing(new)) <= Fees(map, Existing(map)) + locked.lockedFee
  BY <1>3, <1>4, <1>5, <1>6
<1>8. QED
  BY <1>1, <1>7 DEF new

\* Payments are closed, the others stay: the fees of the closed ones are gone.
LEMMA FeesAfterClose ==
    ASSUME NEW map \in Tables, NEW new \in Tables, NEW R \in SUBSET Existing(map),
           Existing(new) = Existing(map) \ R,
           \A c \in Existing(new) : new[c].lockedFee = map[c].lockedFee
    PROVE  Fees(new, Existing(new)) = Fees(map, Existing(map)) - Fees(map, R)
<1>1. Existing(map) \in SUBSET Cids /\ Existing(new) \in SUBSET Cids /\ R \in SUBSET Cids
  BY DEF Existing
<1>2. Fees(new, Existing(new)) = Fees(map, Existing(map) \ R)
  BY <1>1, FeesSame
<1>3. Fees(map, Existing(map)) = Fees(map, R) + Fees(map, Existing(map) \ R)
  BY <1>1, FeesSplit
<1>4. Fees(map, R) \in Nat /\ Fees(map, Existing(map) \ R) \in Nat
  BY <1>1, FeesNat
<1>5. QED
  BY <1>2, <1>3, <1>4

(***************************************************************************)
(* The types and what the contract holds.                                  *)
(***************************************************************************)
IInv == TypeOK /\ SolventUpToDust

LEMMA DivideDown ==
    ASSUME NEW a \in Nat, NEW b \in Nat \ {0}
    PROVE  a \div b \in Nat /\ (a \div b) * b <= a
OBVIOUS

LEMMA AccountsApart ==
    /\ Mcs \in Accounts /\ This \in Accounts /\ Mcs # This
    /\ \A u \in Users : u \in Accounts /\ u # This /\ u # Mcs
BY ConstantsAssumption DEF Accounts

\* Between two steps that leave tables, balance of the contract and dust alone nothing changes.
LEMMA SolventSame ==
    ASSUME SolventUpToDust, UNCHANGED <<txMap, txCarMap, dust>>, balance'[This] = balance[This]
    PROVE  SolventUpToDust'
BY DEF SolventUpToDust, Existing

LEMMA InitInv == ASSUME Init PROVE IInv
<1>1. NoTx \in TxInfo
  BY DEF NoTx, TxInfo
<1>2. TypeOK
  BY <1>1, ConstantsAssumption DEF Init, TypeOK
<1>3. Existing(txMap) = {} /\ Existing(txCarMap) = {} /\ balance[This] = 0 /\ dust = 0
  BY AccountsApart, ConstantsAssumption DEF Init, Existing, NoTx
<1>4. SolventUpToDust
  BY <1>3, FeesEmpty DEF SolventUpToDust
<1>5. QED
  BY <1>2, <1>4 DEF IInv

LEMMA ApproveInv ==
    ASSUME IInv, NEW u \in Users, NEW amount \in Amounts, Approve(u, amount)
    PROVE  IInv'
<1>1. TypeOK'
  BY ConstantsAssumption DEF IInv, TypeOK, Approve
<1>2. SolventUpToDust'
  BY SolventSame DEF IInv, Approve
<1>3. QED
  BY <1>1, <1>2 DEF IInv

LEMMA TickInv == ASSUME IInv, Tick PROVE IInv'
<1>1. TypeOK'
  BY DEF IInv, TypeOK, Tick
<1>2. SolventUpToDust'
  BY SolventSame DEF IInv, Tick
<1>3. QED
  BY <1>1, <1>2 DEF IInv

\* The fees of all payments that exist, in both tables, are a natural number.
LEMMA AllFees ==
    ASSUME TypeOK
    PROVE  /\ Fees(txMap, Existing(txMap)) \in Nat /\ Fees(txCarMap, Existing(txCarMap)) \in Nat
           /\ Existing(txMap) \in SUBSET Cids /\ Existing(txCarMap) \in SUBSET Cids
BY FeesNat DEF TypeOK, Tables, Existing

LEMMA LockInv ==
    ASSUME IInv, NEW u \in Users, NEW c \in Cids, NEW amount \in Amounts,
           NEW minPayment \in MinPayments, NEW lockTime \in LockTimes, NEW size \in Sizes,
           LockTokenPayment(u, c, amount, minPayment, lockTime, size)
    PROVE  IInv'
<1> DEFINE locked == [_isExisted |-> TRUE, owner |-> u, lockedFee |-> amount,
                      deadline |-> timestamp + lockTime, size |-> size]
<1>1. locked \in TxInfo /\ locked._isExisted /\ locked.lockedFee = amount /\ amount \in Nat
  BY ConstantsAssumption DEF IInv, TypeOK, TxInfo
<1>2. /\ balance' \in [Accounts -> Nat] /\ allowance' \in [Users -> Nat]
      /\ balance'[This] = balance[This] + amount
  BY <1>1, AccountsApart DEF IInv, TypeOK, LockTokenPayment, TransferFrom
<1>3. \/ txMap' = [txMap EXCEPT ![c] = locked] /\ txCarMap' = txCarMap
      \/ txCarMap' = [txCarMap EXCEPT ![c] = locked] /\ txMap' = txMap
  BY DEF LockTokenPayment
<1> HIDE DEF locked
<1>4. /\ txMap' \in Tables /\ txCarMap' \in Tables
      /\ Fees(txMap', Existing(txMap')) + Fees(txCarMap', Existing(txCarMap'))
           <= Fees(txMap, Existing(txMap)) + Fees(txCarMap, Existing(txCarMap)) + amount
  <2>1. txMap \in Tables /\ txCarMap \in Tables
    BY DEF IInv, TypeOK, Tables
  <2>2. CASE txMap' = [txMap EXCEPT ![c] = locked] /\ txCarMap' = txCarMap
    <3>1. txMap' \in Tables /\ Fees(txMap', Existing(txMap')) <= Fees(txMap, Existing(txMap)) + amount
      BY <1>1, <2>1, <2>2, FeesAfterLock
    <3>2. /\ Fees(txMap', Existing(txMap')) \in Nat /\ Fees(txMap, Existing(txMap)) \in Nat
          /\ Fees(txCarMap, Existing(txCarMap)) \in Nat
      BY <2>1, <3>1, FeesNat DEF Existing
    <3>3. QED
      BY <1>1, <2>1, <2>2, <3>1, <3>2
  <2>3. CASE txCarMap' = [txCarMap EXCEPT ![c] = locked] /\ txMap' = txMap
    <3>1. txCarMap' \in Tables /\ Fees(txCarMap', Existing(txCarMap')) <= Fees(txCarMap, Existing(txCarMap)) + amount
      BY <1>1, <2>1, <2>3, FeesAfterLock
    <3>2. /\ Fees(txCarMap', Existing(txCarMap')) \in Nat /\ Fees(txCarMap, Existing(txCarMap)) \in Nat
          /\ Fees(txMap, Existing(txMap)) \in Nat
      BY <2>1, <3>1, FeesNat DEF Existing
    <3>3. QED
      BY <1>1, <2>1, <2>3, <3>1, <3>2
  <2>4. QED
    BY <1>3, <2>2, <2>3
<1>5. timestamp' = timestamp /\ dust' = dust
  BY DEF LockTokenPayment
<1>6. TypeOK'
  BY <1>2, <1>4, <1>5 DEF IInv, TypeOK, Tables
<1>7. SolventUpToDust'
  <2>1. /\ Fees(txMap', Existing(txMap')) \in Nat /\ Fees(txCarMap', Existing(txCarMap')) \in Nat
    BY <1>4, FeesNat DEF Existing
  <2>2. /\ balance[This] \in Nat /\ dust \in Nat
        /\ balance[This] + dust >= Fees(txMap, Existing(txMap)) + Fees(txCarMap, Existing(txCarMap))
    BY AccountsApart DEF IInv, TypeOK, SolventUpToDust
  <2>3. Fees(txMap, Existing(txMap)) \in Nat /\ Fees(txCarMap, Existing(txCarMap)) \in Nat
    BY AllFees DEF IInv
  <2>4. balance'[This] + dust' >= Fees(txMap', Existing(txMap')) + Fees(txCarMap', Existing(txCarMap'))
    BY <1>1, <1>2, <1>4, <1>5, <2>1, <2>2, <2>3
  <2>5. QED
    BY <2>4 DEF SolventUpToDust, Existing
<1>8. QED
  BY <1>6, <1>7 DEF IInv

LEMMA UnlockTokenInv ==
    ASSUME IInv, NEW u \in Users, NEW c \in Cids, UnlockTokenPayment(u, c)
    PROVE  IInv'
<1> DEFINE fee == txMap[c].lockedFee
<1>1. /\ txMap \in Tables /\ c \in Existing(txMap) /\ fee \in Nat
      /\ balance[This] \in Nat /\ balance[u] \in Nat /\ fee <= balance[This]
  BY AccountsApart DEF IInv, TypeOK, UnlockTokenPayment, Transfer, Tables, TxInfo, Existing
<1>2. /\ txMap' \in Tables /\ Existing(txMap') = Existing(txMap) \ {c}
      /\ \A d \in Existing(txMap') : txMap'[d].lockedFee = txMap[d].lockedFee
  BY DEF IInv, TypeOK, UnlockTokenPayment, Tables, TxInfo, Existing
<1>3. balance' = [balance EXCEPT ![This] = @ - fee, ![u] = @ + fee]
  BY DEF UnlockTokenPayment, Transfer
<1>4. balance' \in [Accounts -> Nat] /\ balance'[This] = balance[This] - fee
  <2> HIDE DEF fee
  <2>1. QED
    BY <1>1, <1>3, AccountsApart DEF IInv, TypeOK
<1>5. UNCHANGED <<txCarMap, allowance, timestamp, dust>>
  BY DEF UnlockTokenPayment
<1>6. TypeOK'
  BY <1>2, <1>4, <1>5 DEF IInv, TypeOK, Tables
<1>7. SolventUpToDust'
  <2>1. Fees(txMap', Existing(txMap')) = Fees(txMap, Existing(txMap)) - Fees(txMap, {c})
    BY <1>1, <1>2, FeesAfterClose
  <2>2. Fees(txMap, {c}) = fee
    BY <1>1, FeesOfOne
  <2>3. /\ balance[This] + dust >= Fees(txMap, Existing(txMap)) + Fees(txCarMap, Existing(txCarMap))
        /\ dust \in Nat
    BY DEF IInv, TypeOK, SolventUpToDust
  <2>4. Fees(txMap, Existing(txMap)) \in Nat /\ Fees(txCarMap, Existing(txCarMap)) \in Nat
    BY AllFees DEF IInv
  <2> HIDE DEF fee
  <2>5. balance'[This] + dust' >= Fees(txMap', Existing(txMap')) + Fees(txCarMap', Existing(txCarMap'))
    BY <1>1, <1>4, <1>5, <2>1, <2>2, <2>3, <2>4
  <2>6. QED
    BY <2>5 DEF SolventUpToDust, Existing
<1>8. QED
  BY <1>6, <1>7 DEF IInv

\* What is charged to the existing payments is unitPrice for each unit of the listed size.
LEMMA ChargesAddUp ==
    ASSUME TypeOK, NEW list \in CidLists, NEW unitPrice \in Nat,
           NEW new \in Tables,
           \A c \in Cids : new[c].lockedFee = txCarMap[c].lockedFee - Charge(c, list, unitPrice)
    PROVE  Fees(new, Existing(txCarMap)) =
               Fees(txCarMap, Existing(txCarMap)) - unitPrice * ListedSize(list)
<1> DEFINE S == Existing(txCarMap)
           fee == [c \in Cids |-> txCarMap[c].lockedFee]
           newFee == [c \in Cids |-> new[c].lockedFee]
           sizes == [c \in Cids |-> list[c] * txCarMap[c].size]
<1>1. S \in SUBSET Cids
  BY DEF Existing
<1>2. \A c \in Cids : list[c] \in Nat /\ txCarMap[c].size \in Nat /\ txCarMap[c].lockedFee \in Nat
  BY DEF TypeOK, TxInfo, CidLists
<1>3. \A c \in S : fee[c] \in Int
  BY <1>1, <1>2
<1>4. \A c \in S : sizes[c] \in Int
  BY <1>1, <1>2
<1>5. \A c \in S : newFee[c] = fee[c] - unitPrice * sizes[c]
  <2>1. SUFFICES ASSUME NEW c \in S PROVE newFee[c] = fee[c] - unitPrice * sizes[c]
    OBVIOUS
  <2>2. c \in Cids
    BY <1>1
  <2>3. \A a, b \in Nat : a * (unitPrice * b) = unitPrice * (a * b)
    OBVIOUS
  <2>4. Charge(c, list, unitPrice) = unitPrice * (list[c] * txCarMap[c].size)
    BY <1>2, <2>2, <2>3 DEF Charge
  <2>5. /\ newFee[c] = txCarMap[c].lockedFee - Charge(c, list, unitPrice)
        /\ fee[c] = txCarMap[c].lockedFee /\ sizes[c] = list[c] * txCarMap[c].size
    BY <2>2
  <2> HIDE DEF fee, newFee, sizes
  <2>6. QED
    BY <2>4, <2>5
<1>6. SumFunctionOnSet(newFee, S) = SumFunctionOnSet(fee, S) - unitPrice * SumFunctionOnSet(sizes, S)
  <2>1. IsFiniteSet(S) /\ unitPrice \in Int
    BY <1>1, FiniteCids
  <2> HIDE DEF S, fee, newFee, sizes
  <2>2. QED
    BY <1>3, <1>4, <1>5, <2>1, SumMinus
<1>7. QED
  BY <1>6 DEF Fees, ListedSize

LEMMA UnlockCarInv ==
    ASSUME IInv, NEW list \in CidLists, NEW tokenAmount \in TokenAmounts,
           UnlockCarPayment(list, tokenAmount)
    PROVE  IInv'
<1> DEFINE size == ListedSize(list)
           unitPrice == tokenAmount \div size
<1>1. tokenAmount \in Nat /\ size \in Nat \ {0}
  BY ConstantsAssumption DEF UnlockCarPayment
<1>2. unitPrice \in Nat /\ unitPrice * size <= tokenAmount /\ unitPrice * size \in Nat
  <2> HIDE DEF size
  <2>1. QED
    BY <1>1, DivideDown
<1>3. /\ Covered(list, unitPrice)
      /\ txCarMap' = [c \in Cids |-> [txCarMap[c] EXCEPT !.lockedFee = @ - Charge(c, list, unitPrice)]]
      /\ Transfer(Mcs, tokenAmount)
      /\ dust' = dust + (tokenAmount - unitPrice * size)
      /\ UNCHANGED <<txMap, allowance, timestamp>>
  BY DEF UnlockCarPayment
<1> HIDE DEF size, unitPrice
<1>4. \A c \in Cids : Charge(c, list, unitPrice) \in Nat
  BY <1>2 DEF IInv, TypeOK, TxInfo, CidLists, Charge
<1>5. txCarMap' \in Tables /\ Existing(txCarMap') = Existing(txCarMap)
  <2>1. ASSUME NEW c \in Cids
        PROVE  /\ txCarMap'[c] \in TxInfo
               /\ txCarMap'[c]._isExisted = txCarMap[c]._isExisted
    <3>1. txCarMap[c] \in TxInfo /\ txCarMap[c].lockedFee - Charge(c, list, unitPrice) \in Nat
      BY <1>3, <1>4 DEF IInv, TypeOK, TxInfo, Covered
    <3>2. txCarMap'[c] = [txCarMap[c] EXCEPT !.lockedFee = @ - Charge(c, list, unitPrice)]
      BY <1>3
    <3>3. QED
      BY <3>1, <3>2 DEF TxInfo
  <2>2. txCarMap' = [c \in Cids |-> txCarMap'[c]]
    BY <1>3
  <2>3. QED
    BY <2>1, <2>2 DEF Tables, Existing
<1>6. \A c \in Cids : txCarMap'[c].lockedFee = txCarMap[c].lockedFee - Charge(c, list, unitPrice)
  BY <1>3 DEF IInv, TypeOK, TxInfo
<1>7. Fees(txCarMap', Existing(txCarMap')) = Fees(txCarMap, Existing(txCarMap)) - unitPrice * size
  BY <1>2, <1>5, <1>6, ChargesAddUp DEF IInv, size
<1>8. balance' \in [Accounts -> Nat] /\ balance'[This] = balance[This] - tokenAmount
      /\ balance[This] \in Nat
  BY <1>1, <1>3, AccountsApart DEF IInv, TypeOK, Transfer
<1>9. dust' \in Nat
  BY <1>1, <1>2, <1>3 DEF IInv, TypeOK
<1>10. TypeOK'
  BY <1>3, <1>5, <1>8, <1>9 DEF IInv, TypeOK, Tables
<1>11. SolventUpToDust'
  <2>1. /\ balance[This] + dust >= Fees(txMap, Existing(txMap)) + Fees(txCarMap, Existing(txCarMap))
        /\ dust \in Nat
    BY DEF IInv, TypeOK, SolventUpToDust
  <2>2. Fees(txMap, Existing(txMap)) \in Nat /\ Fees(txCarMap, Existing(txCarMap)) \in Nat
    BY AllFees DEF IInv
  <2>3. balance'[This] + dust' >= Fees(txMap, Existing(txMap)) + Fees(txCarMap', Existing(txCarMap'))
    BY <1>1, <1>2, <1>3, <1>7, <1>8, <2>1, <2>2
  <2>4. QED
    BY <1>3, <2>3 DEF SolventUpToDust, Existing
<1>12. QED
  BY <1>10, <1>11 DEF IInv

\* Refund closes the listed payments and leaves their fees in the entries.
LEMMA RefundCloses ==
    ASSUME TypeOK, NEW list \in CidLists, Refund(list)
    PROVE  /\ txCarMap' \in Tables /\ Refunded(list) \in SUBSET Existing(txCarMap)
           /\ Existing(txCarMap') = Existing(txCarMap) \ Refunded(list)
           /\ \A c \in Cids : /\ txCarMap'[c].lockedFee = txCarMap[c].lockedFee
                              /\ txCarMap'[c].owner = txCarMap[c].owner
<1>1. txCarMap' = [c \in Cids |-> [txCarMap[c] EXCEPT !._isExisted = @ /\ c \notin Refunded(list)]]
  BY DEF Refund
<1>2. ASSUME NEW c \in Cids
      PROVE  /\ txCarMap'[c] \in TxInfo
             /\ txCarMap'[c].lockedFee = txCarMap[c].lockedFee
             /\ txCarMap'[c].owner = txCarMap[c].owner
             /\ txCarMap'[c]._isExisted = (txCarMap[c]._isExisted /\ c \notin Refunded(list))
  <2>1. txCarMap[c] \in TxInfo
    BY DEF TypeOK
  <2>2. txCarMap'[c] = [txCarMap[c] EXCEPT !._isExisted = @ /\ c \notin Refunded(list)]
    BY <1>1
  <2>3. QED
    BY <2>1, <2>2 DEF TxInfo
<1>3. QED
  BY <1>1, <1>2 DEF Tables, Existing, Refunded

LEMMA RefundInv == ASSUME IInv, NEW list \in CidLists, Refund(list) PROVE IInv'
<1> DEFINE total == Fees(txCarMap, Refunded(list))
<1>1. /\ txCarMap \in Tables /\ txCarMap' \in Tables /\ Refunded(list) \in SUBSET Existing(txCarMap)
      /\ Existing(txCarMap') = Existing(txCarMap) \ Refunded(list)
      /\ Refunded(list) \in SUBSET Cids
      /\ \A c \in Existing(txCarMap') : txCarMap'[c].lockedFee = txCarMap[c].lockedFee
  BY RefundCloses DEF IInv, TypeOK, Tables, Existing
<1>2. total \in Nat
  BY <1>1, FeesNat
<1>3. /\ total <= balance[This]
      /\ balance' = [a \in Accounts |->
            CASE a \in Users -> balance[a] + RefundedTo(a, list)
              [] a = This    -> balance[This] - total
              [] OTHER       -> balance[a]]
      /\ UNCHANGED <<txMap, allowance, timestamp, dust>>
  BY <1>2, AccountsApart DEF Refund, IInv, TypeOK
<1> HIDE DEF total
<1>4. \A u \in Users : RefundedTo(u, list) \in Nat
  <2>1. SUFFICES ASSUME NEW u \in Users PROVE RefundedTo(u, list) \in Nat
    OBVIOUS
  <2>2. {c \in Refunded(list) : txCarMap[c].owner = u} \in SUBSET Cids
    BY <1>1
  <2>3. QED
    BY <1>1, <2>2, FeesNat DEF RefundedTo
<1>5. balance' \in [Accounts -> Nat] /\ balance'[This] = balance[This] - total
  <2>1. ASSUME NEW a \in Accounts PROVE balance'[a] \in Nat
    <3>1. CASE a \in Users
      <4>1. balance'[a] = balance[a] + RefundedTo(a, list)
        BY <1>3, <3>1, AccountsApart
      <4>2. QED
        BY <1>4, <3>1, <4>1 DEF IInv, TypeOK
    <3>2. CASE a = This
      <4>1. balance'[a] = balance[This] - total
        BY <1>3, <3>2, AccountsApart
      <4>2. QED
        BY <1>2, <1>3, <4>1, AccountsApart DEF IInv, TypeOK
    <3>3. CASE a \notin Users /\ a # This
      <4>1. balance'[a] = balance[a]
        BY <1>3, <3>3
      <4>2. QED
        BY <4>1 DEF IInv, TypeOK
    <3>4. QED
      BY <3>1, <3>2, <3>3
  <2>2. balance' = [a \in Accounts |-> balance'[a]]
    BY <1>3
  <2>3. balance'[This] = balance[This] - total
    BY <1>3, AccountsApart
  <2>4. QED
    BY <2>1, <2>2, <2>3
<1>6. TypeOK'
  BY <1>1, <1>3, <1>5 DEF IInv, TypeOK, Tables
<1>7. SolventUpToDust'
  <2>1. Fees(txCarMap', Existing(txCarMap')) = Fees(txCarMap, Existing(txCarMap)) - total
    BY <1>1, FeesAfterClose DEF total
  <2>2. /\ balance[This] + dust >= Fees(txMap, Existing(txMap)) + Fees(txCarMap, Existing(txCarMap))
        /\ dust \in Nat /\ balance[This] \in Nat
    BY AccountsApart DEF IInv, TypeOK, SolventUpToDust
  <2>3. Fees(txMap, Existing(txMap)) \in Nat /\ Fees(txCarMap, Existing(txCarMap)) \in Nat
    BY AllFees DEF IInv
  <2>4. balance'[This] + dust' >= Fees(txMap, Existing(txMap)) + Fees(txCarMap', Existing(txCarMap'))
    BY <1>2, <1>3, <1>5, <2>1, <2>2, <2>3
  <2>5. QED
    BY <1>3, <2>4 DEF SolventUpToDust, Existing
<1>8. QED
  BY <1>6, <1>7 DEF IInv

LEMMA StepInv == ASSUME IInv, [Next]_vars PROVE IInv'
<1>1. CASE UNCHANGED vars
  BY <1>1 DEF vars, IInv, TypeOK, SolventUpToDust, Existing
<1>2. QED
  BY <1>1, ApproveInv, LockInv, UnlockTokenInv, UnlockCarInv, RefundInv, TickInv DEF Next

LEMMA Invariant == Spec => []IInv
<1>1. Init => IInv
  BY InitInv
<1>2. IInv /\ [Next]_vars => IInv'
  BY StepInv
<1>3. QED
  BY <1>1, <1>2, PTL DEF Spec

\* No fee, balance or allowance is ever negative: every subtraction of the contract takes
\* what is there.
THEOREM TypeCorrect == Spec => []TypeOK
<1>1. IInv => TypeOK
  BY DEF IInv
<1>2. QED
  BY <1>1, Invariant, PTL

\* Whatever is locked, unlocked and refunded, and in whatever order, the contract holds the
\* fees of all payments that exist, short of the dust unlockCarPayment paid out.
THEOREM Solvent == Spec => []SolventUpToDust
<1>1. IInv => SolventUpToDust
  BY DEF IInv
<1>2. QED
  BY <1>1, Invariant, PTL

\* README.md's refund step, for every lock, list and price: a car payment that exists is never
\* larger than what the contract holds and the remainders unlockCarPayment paid out (233-244).
\* So refund reverts for want of tokens only after a token amount that its unit price does
\* not divide.
THEOREM PayableUpToDust ==
    Spec => [](/\ \A c \in Existing(txCarMap) : txCarMap[c].lockedFee <= balance[This] + dust
               /\ dust = 0 => RefundPayable)
<1>1. IInv => \A c \in Existing(txCarMap) : txCarMap[c].lockedFee <= balance[This] + dust
  <2> SUFFICES ASSUME IInv, NEW c \in Existing(txCarMap)
               PROVE  txCarMap[c].lockedFee <= balance[This] + dust
    OBVIOUS
  <2>1. txCarMap \in Tables /\ TypeOK /\ txCarMap[c].lockedFee \in Nat
    BY DEF IInv, TypeOK, Tables, TxInfo, Existing
  <2>2. /\ Fees(txMap, Existing(txMap)) \in Nat /\ Existing(txCarMap) \in SUBSET Cids
    BY <2>1, AllFees
  <2>3. Fees(txCarMap, Existing(txCarMap)) = txCarMap[c].lockedFee + Fees(txCarMap, Existing(txCarMap) \ {c})
    BY <2>1, <2>2, FeesRemove
  <2>4. Fees(txCarMap, Existing(txCarMap) \ {c}) \in Nat
    BY <2>1, <2>2, FeesNat
  <2>5. balance[This] \in Nat /\ dust \in Nat
    BY <2>1, AccountsApart DEF TypeOK
  <2>6. balance[This] + dust >= Fees(txMap, Existing(txMap)) + Fees(txCarMap, Existing(txCarMap))
    BY DEF IInv, SolventUpToDust
  <2>7. QED
    BY <2>1, <2>2, <2>3, <2>4, <2>5, <2>6
<1>2. IInv => (dust = 0 => RefundPayable)
  <2> SUFFICES ASSUME IInv, dust = 0, NEW c \in Existing(txCarMap)
               PROVE  txCarMap[c].lockedFee <= balance[This]
    BY DEF RefundPayable
  <2>1. txCarMap[c].lockedFee <= balance[This] + dust
    BY <1>1
  <2>2. balance[This] \in Nat /\ balance[This] + dust = balance[This]
    BY AccountsApart DEF IInv, TypeOK
  <2>3. QED
    BY <2>1, <2>2
<1>3. QED
  BY <1>1, <1>2, Invariant, PTL

(***************************************************************************)
(* What a step may do to a payment and to its owner's balance.             *)
(***************************************************************************)
\* What TokenPaymentHeld says of a step and a content id.
Held(c) ==
    txMap[c]._isExisted /\ txMap'[c] # txMap[c] =>
        /\ timestamp > txMap[c].deadline
        /\ ~txMap'[c]._isExisted
        /\ balance'[txMap[c].owner] = balance[txMap[c].owner] + txMap[c].lockedFee

LEMMA HeldStep ==
    ASSUME TypeOK, [Next]_vars, NEW c \in Cids
    PROVE  Held(c)
<1> USE DEF TypeOK
<1>1. CASE UNCHANGED txMap
  BY <1>1 DEF Held
<1>2. ASSUME NEW u \in Users, NEW d \in Cids, NEW amount \in Amounts, NEW minPayment \in MinPayments,
             NEW lockTime \in LockTimes, NEW size \in Sizes,
             LockTokenPayment(u, d, amount, minPayment, lockTime, size)
      PROVE  Held(c)
  <2>1. ~txMap[d]._isExisted
    BY <1>2 DEF LockTokenPayment
  <2>2. d # c => txMap'[c] = txMap[c]
    BY <1>2 DEF LockTokenPayment
  <2>3. QED
    BY <2>1, <2>2 DEF Held
<1>3. ASSUME NEW u \in Users, NEW d \in Cids, UnlockTokenPayment(u, d) PROVE Held(c)
  <2>1. d # c => txMap'[c] = txMap[c]
    BY <1>3 DEF UnlockTokenPayment
  <2>2. ASSUME d = c PROVE Held(c)
    <3>1. timestamp > txMap[c].deadline /\ txMap[c].owner = u
      BY <1>3, <2>2 DEF UnlockTokenPayment
    <3>2. ~txMap'[c]._isExisted
      BY <1>3, <2>2 DEF UnlockTokenPayment, TxInfo
    <3>3. u # This /\ u \in Accounts
      BY ConstantsAssumption DEF Accounts
    <3>4. balance'[u] = balance[u] + txMap[c].lockedFee
      <4>1. balance' = [balance EXCEPT ![This] = @ - txMap[c].lockedFee, ![u] = @ + txMap[c].lockedFee]
        BY <1>3, <2>2 DEF UnlockTokenPayment, Transfer
      <4>2. QED
        BY <3>3, <4>1
    <3>5. QED
      BY <3>1, <3>2, <3>4 DEF Held
  <2>3. QED
    BY <2>1, <2>2 DEF Held
<1>4. QED
  BY <1>1, <1>2, <1>3 DEF Next, vars, Approve, UnlockCarPayment, Refund, Tick

\* A token payment stays as it is until its deadline; then it goes to its owner at once.
THEOREM TokenHeld == Spec => TokenPaymentHeld
<1>1. TypeOK /\ [Next]_vars =>
         \A c \in Cids : txMap[c]._isExisted /\ txMap'[c] # txMap[c] =>
            /\ timestamp > txMap[c].deadline
            /\ ~txMap'[c]._isExisted
            /\ balance'[txMap[c].owner] = balance[txMap[c].owner] + txMap[c].lockedFee
  BY HeldStep DEF Held
<1>2. QED
  BY <1>1, TypeCorrect, PTL DEF Spec, TokenPaymentHeld

\* What OwnerPaidExactly says of a step and a user.
PaidExactly(u) ==
    (balance'[u] > balance[u] \/ Closed(txMap, u) # {} \/ Closed(txCarMap, u) # {}) =>
        balance'[u] = balance[u] + Fees(txMap, Closed(txMap, u)) + Fees(txCarMap, Closed(txCarMap, u))

\* A step that closes no payment of u and pays u nothing is of no interest.
LEMMA NothingClosed ==
    ASSUME NEW u \in Users, ~ balance'[u] > balance[u],
           \A c \in Cids : /\ txMap[c]._isExisted => txMap'[c]._isExisted
                           /\ txCarMap[c]._isExisted => txCarMap'[c]._isExisted
    PROVE  PaidExactly(u)
<1>1. Closed(txMap, u) = {} /\ Closed(txCarMap, u) = {}
  BY DEF Closed, Existing
<1>2. QED
  BY <1>1 DEF PaidExactly

LEMMA LockPaidExactly ==
    ASSUME TypeOK, NEW u \in Users, NEW v \in Users, NEW c \in Cids, NEW amount \in Amounts,
           NEW minPayment \in MinPayments, NEW lockTime \in LockTimes, NEW size \in Sizes,
           LockTokenPayment(v, c, amount, minPayment, lockTime, size)
    PROVE  PaidExactly(u)
<1> DEFINE locked == [_isExisted |-> TRUE, owner |-> v, lockedFee |-> amount,
                      deadline |-> timestamp + lockTime, size |-> size]
<1>1. ~ balance'[u] > balance[u]
  BY AccountsApart, ConstantsAssumption DEF TypeOK, LockTokenPayment, TransferFrom
<1>2. locked._isExisted
  OBVIOUS
<1>3. \/ txMap' = [txMap EXCEPT ![c] = locked] /\ txCarMap' = txCarMap
      \/ txCarMap' = [txCarMap EXCEPT ![c] = locked] /\ txMap' = txMap
  BY DEF LockTokenPayment
<1> HIDE DEF locked
<1>4. \A d \in Cids : /\ txMap[d]._isExisted => txMap'[d]._isExisted
                      /\ txCarMap[d]._isExisted => txCarMap'[d]._isExisted
  BY <1>2, <1>3 DEF TypeOK
<1>5. QED
  BY <1>1, <1>4, NothingClosed

LEMMA UnlockTokenPaidExactly ==
    ASSUME TypeOK, NEW u \in Users, NEW v \in Users, NEW c \in Cids, UnlockTokenPayment(v, c)
    PROVE  PaidExactly(u)
<1> DEFINE fee == txMap[c].lockedFee
<1>1. /\ c \in Existing(txMap) /\ txMap[c].owner = v /\ fee \in Nat
      /\ balance' = [balance EXCEPT ![This] = @ - fee, ![v] = @ + fee]
      /\ txCarMap' = txCarMap
  BY DEF TypeOK, UnlockTokenPayment, Transfer, TxInfo, Existing
<1>2. \A d \in Cids : txMap'[d]._isExisted = (txMap[d]._isExisted /\ d # c)
  BY DEF TypeOK, UnlockTokenPayment, TxInfo
<1>3. Closed(txCarMap, u) = {}
  BY <1>1 DEF Closed, Existing
<1>4. CASE u # v
  <2>1. ~ balance'[u] > balance[u]
    <3> HIDE DEF fee
    <3>1. QED
      BY <1>1, <1>4, AccountsApart DEF TypeOK
  <2>2. Closed(txMap, u) = {}
    BY <1>1, <1>2, <1>4 DEF Closed, Existing
  <2>3. QED
    BY <1>3, <2>1, <2>2 DEF PaidExactly
<1>5. CASE u = v
  <2>1. balance'[u] = balance[u] + fee
    <3> HIDE DEF fee
    <3>1. QED
      BY <1>1, <1>5, AccountsApart DEF TypeOK
  <2>2. Closed(txMap, u) = {c}
    BY <1>1, <1>2, <1>5 DEF Closed, Existing
  <2>3. Fees(txMap, {c}) = fee
    BY FeesOfOne DEF TypeOK, Tables
  <2>4. Fees(txCarMap, {}) = 0
    BY FeesEmpty
  <2>5. balance[u] \in Nat
    BY AccountsApart DEF TypeOK
  <2> HIDE DEF fee
  <2>6. QED
    BY <1>1, <1>3, <2>1, <2>2, <2>3, <2>4, <2>5 DEF PaidExactly
<1>6. QED
  BY <1>4, <1>5

LEMMA UnlockCarPaidExactly ==
    ASSUME TypeOK, NEW u \in Users, NEW list \in CidLists, NEW tokenAmount \in TokenAmounts,
           UnlockCarPayment(list, tokenAmount)
    PROVE  PaidExactly(u)
<1>1. balance'[u] = balance[u] /\ balance[u] \in Nat
  BY AccountsApart DEF TypeOK, UnlockCarPayment, Transfer
<1>2. ASSUME NEW c \in Cids PROVE txCarMap'[c]._isExisted = txCarMap[c]._isExisted
  <2>1. PICK unitPrice : txCarMap' = [d \in Cids |-> [txCarMap[d] EXCEPT !.lockedFee = @ - Charge(d, list, unitPrice)]]
    BY DEF UnlockCarPayment
  <2>2. txCarMap'[c] = [txCarMap[c] EXCEPT !.lockedFee = @ - Charge(c, list, unitPrice)]
    BY <2>1
  <2>3. txCarMap[c] \in TxInfo
    BY DEF TypeOK
  <2>4. QED
    BY <2>2, <2>3 DEF TxInfo
<1>3. txMap' = txMap
  BY DEF UnlockCarPayment
<1>4. QED
  BY <1>1, <1>2, <1>3, NothingClosed

LEMMA RefundPaidExactly ==
    ASSUME TypeOK, NEW u \in Users, NEW list \in CidLists, Refund(list)
    PROVE  PaidExactly(u)
<1> DEFINE mine == {c \in Refunded(list) : txCarMap[c].owner = u}
<1>1. txMap' = txMap
  BY DEF Refund
<1>2. Closed(txMap, u) = {}
  BY <1>1 DEF Closed, Existing
<1>3. Closed(txCarMap, u) = mine
  BY RefundCloses DEF Closed, Existing
<1>4. balance'[u] = balance[u] + Fees(txCarMap, mine)
  <2>1. balance'[u] = balance[u] + RefundedTo(u, list)
    BY AccountsApart DEF Refund
  <2>2. QED
    BY <2>1 DEF RefundedTo
<1>5. balance[u] \in Nat /\ Fees(txCarMap, mine) \in Nat
  <2>1. mine \in SUBSET Cids /\ txCarMap \in Tables
    BY RefundCloses DEF TypeOK, Tables, Existing
  <2>2. Fees(txCarMap, mine) \in Nat
    BY <2>1, FeesNat
  <2>3. QED
    BY <2>2, AccountsApart DEF TypeOK
<1>6. Fees(txMap, {}) = 0
  BY FeesEmpty
<1> HIDE DEF mine
<1>7. QED
  BY <1>2, <1>3, <1>4, <1>5, <1>6 DEF PaidExactly

LEMMA StepPaidExactly ==
    ASSUME TypeOK, [Next]_vars, NEW u \in Users
    PROVE  PaidExactly(u)
<1>1. CASE UNCHANGED <<txMap, txCarMap, balance>>
  <2>1. balance[u] \in Nat
    BY AccountsApart DEF TypeOK
  <2>2. QED
    BY <1>1, <2>1, NothingClosed
<1>2. QED
  BY <1>1, LockPaidExactly, UnlockTokenPaidExactly, UnlockCarPaidExactly, RefundPaidExactly
  DEF Next, vars, Approve, Tick

\* A user whose payments a step closes receives their fees, each once, however often the
\* list of refund names them, and no step pays a user anything else.
THEOREM PaidToOwner == Spec => OwnerPaidExactly
<1>1. TypeOK /\ [Next]_vars =>
         \A u \in Users :
            (balance'[u] > balance[u] \/ Closed(txMap, u) # {} \/ Closed(txCarMap, u) # {}) =>
                balance'[u] = balance[u] + Fees(txMap, Closed(txMap, u))
                                         + Fees(txCarMap, Closed(txCarMap, u))
  BY StepPaidExactly DEF PaidExactly
<1>2. QED
  BY <1>1, TypeCorrect, PTL DEF Spec, OwnerPaidExactly

(***************************************************************************)
(* FilswanOracle: the types.                                               *)
(***************************************************************************)
\* Asking Chainlink for a price keeps the consumer's tables well typed.
LEMMA RequestType ==
    ASSUME FilinkTypeOK, NEW deal \in Deals, NEW network \in Networks,
           RequestDealInfo(deal, network)
    PROVE  FilinkTypeOK'
<1>1. Concatenate(deal, network) \in DealKeys
  BY DEF Concatenate, DealKeys
<1>2. requests' \in Seq([key : DealKeys, due : BOOLEAN])
  BY <1>1, AppendProperties DEF FilinkTypeOK, RequestDealInfo
<1>3. mapDealPrice' \in [Keys -> Nat]
  BY DEF FilinkTypeOK, RequestDealInfo
<1>4. link' \in 0 .. Link
  BY FilinkAssumption DEF FilinkTypeOK, RequestDealInfo
<1>5. QED
  BY <1>2, <1>3, <1>4 DEF FilinkTypeOK

\* So does the answer.
LEMMA FulfillType ==
    ASSUME FilinkTypeOK, NEW id, NEW price \in Prices, Fulfill(id, price)
    PROVE  FilinkTypeOK'
<1> DEFINE Request == [key : DealKeys, due : BOOLEAN]
<1>1. /\ DOMAIN requests = 1 .. Len(requests)
      /\ requests \in [1 .. Len(requests) -> Request]
  BY LenProperties DEF FilinkTypeOK
<1>2. id \in 1 .. Len(requests) /\ requests[id] \in Request
  BY <1>1 DEF Fulfill
<1>3. requests' \in Seq(Request)
  <2>1. [requests[id] EXCEPT !.due = FALSE] \in Request
    BY <1>2
  <2>2. requests' = [requests EXCEPT ![id] = [requests[id] EXCEPT !.due = FALSE]]
    BY DEF Fulfill
  <2>3. QED
    BY <1>2, <2>1, <2>2, ExceptSeq DEF FilinkTypeOK
<1>4. mapDealPrice' \in [Keys -> Nat]
  BY <1>2, FilinkAssumption DEF FilinkTypeOK, Fulfill
<1>5. link' \in 0 .. Link
  BY DEF FilinkTypeOK, Fulfill
<1>6. QED
  BY <1>3, <1>4, <1>5 DEF FilinkTypeOK

\* The tables of the oracle and of the consumer are well typed in every reachable state.
THEOREM OracleTypeCorrect == OracleSpec => []OracleTypeOK
<1>1. OracleInit => OracleTypeOK
  <2> SUFFICES ASSUME OracleInit PROVE OracleTypeOK
    OBVIOUS
  <2>1. FilinkTypeOK
    BY FilinkAssumption, EmptySeq DEF OracleInit, FilinkInit, FilinkTypeOK
  <2>2. NoSignature \in TxOracleInfo
    BY OracleAssumption DEF NoSignature, TxOracleInfo, Lists
  <2>3. txInfoMap \in [DealKeys -> [Members -> TxOracleInfo]]
    BY <2>2 DEF OracleInit
  <2>4. txVoteMap \in [VoteKeys -> 0 .. MaxUint8]
    BY DEF OracleInit, MaxUint8
  <2>5. QED
    BY <2>1, <2>3, <2>4 DEF OracleInit, OracleTypeOK, Lists
<1>2. OracleTypeOK /\ [OracleNext]_oracleVars => OracleTypeOK'
  <2> SUFFICES ASSUME OracleTypeOK, [OracleNext]_oracleVars PROVE OracleTypeOK'
    OBVIOUS
  <2> USE DEF OracleTypeOK
  <2>1. CASE UNCHANGED oracleVars
    BY <2>1 DEF oracleVars, dao, filink, FilinkTypeOK
  <2>2. ASSUME NEW t \in Thresholds, UpdateThreshold(t) PROVE OracleTypeOK'
    BY <2>2 DEF UpdateThreshold, filink, FilinkTypeOK
  <2>3. ASSUME NEW isSet \in BOOLEAN, SetFilinkOracle(isSet) PROVE OracleTypeOK'
    BY <2>3 DEF SetFilinkOracle, filink, FilinkTypeOK
  <2>4. ASSUME NEW users \in DaoUsers, SetDAOUsers(users) PROVE OracleTypeOK'
    BY <2>4, OracleAssumption DEF SetDAOUsers, filink, FilinkTypeOK
  <2>5. ASSUME NEW m \in Members, RevokeRole(m) PROVE OracleTypeOK'
    BY <2>5 DEF RevokeRole, filink, FilinkTypeOK
  <2>6. ASSUME NEW m \in Members, NEW list \in CarLists, NEW deal \in Deals,
               NEW network \in Networks, NEW recipient \in Recipients,
               SignCarTransaction(m, list, deal, network, recipient)
        PROVE  OracleTypeOK'
    <3> DEFINE key == Concatenate(deal, network)
    <3>1. FilinkTypeOK'
      BY <2>6, RequestType DEF SignCarTransaction, filink, FilinkTypeOK
    <3>2. key \in DealKeys /\ key \in Keys
      BY DEF Concatenate, DealKeys, Keys
    <3>3. txInfoMap' \in [DealKeys -> [Members -> TxOracleInfo]]
      BY <2>6, <3>2 DEF SignCarTransaction, TxOracleInfo, Lists
    <3>4. txVoteMap' \in [VoteKeys -> 0 .. MaxUint8]
      <4> DEFINE v == <<Signed, deal, network, recipient, list>>
      <4>1. v \in VoteKeys
        BY DEF VoteKeys, Lists
      <4>2. txVoteMap' = [txVoteMap EXCEPT ![v] = @ + 1] /\ txVoteMap[v] < MaxUint8
        BY <2>6 DEF SignCarTransaction
      <4>3. txVoteMap[v] + 1 \in 0 .. MaxUint8
        BY <4>1, <4>2 DEF MaxUint8
      <4>4. QED
        BY <4>1, <4>2, <4>3
    <3>5. cidListMap' \in [Keys -> Lists]
      BY <2>6, <3>2 DEF SignCarTransaction, Lists
    <3>6. UNCHANGED dao
      BY <2>6 DEF SignCarTransaction
    <3>7. QED
      BY <3>1, <3>3, <3>4, <3>5, <3>6 DEF dao
  <2>7. ASSUME NEW deal \in Deals, NEW network \in Networks, RequestDealInfo(deal, network),
               UNCHANGED <<dao, txInfoMap, txVoteMap, cidListMap>>
        PROVE  OracleTypeOK'
    BY <2>7, RequestType DEF dao
  <2>8. ASSUME NEW id \in 1 .. Link, NEW price \in Prices, Fulfill(id, price),
               UNCHANGED <<dao, txInfoMap, txVoteMap, cidListMap>>
        PROVE  OracleTypeOK'
    BY <2>8, FulfillType DEF dao
  <2>9. QED
    BY <2>1, <2>2, <2>3, <2>4, <2>5, <2>6, <2>7, <2>8 DEF OracleNext
<1>3. QED
  BY <1>1, <1>2, PTL DEF OracleSpec

(***************************************************************************)
(* The votes are the signers.  The invariant speaks of every signature     *)
(* table and counter together; only signCarTransaction changes either.     *)
(***************************************************************************)
SignedBy(deal, network, recipient, list) == <<Signed, deal, network, recipient, list>>

\* Signers are members: of a finite set, so that they can be counted.
LEMMA SignersFinite ==
    \A deal, network, recipient, list :
        /\ Signers(deal, network, recipient, list) \subseteq Members
        /\ IsFiniteSet(Signers(deal, network, recipient, list))
        /\ Cardinality(Signers(deal, network, recipient, list)) \in Nat
<1> SUFFICES ASSUME NEW deal, NEW network, NEW recipient, NEW list
             PROVE  LET S == Signers(deal, network, recipient, list)
                    IN  S \subseteq Members /\ IsFiniteSet(S) /\ Cardinality(S) \in Nat
  OBVIOUS
<1>1. Signers(deal, network, recipient, list) \subseteq Members
  BY DEF Signers
<1>2. QED
  BY <1>1, OracleAssumption, FS_Subset, FS_CardinalityType

\* What a signature does to the sets of signers: the member is new in one, the others
\* stay as they are.
LEMMA SignersAfterSigning ==
    ASSUME OracleTypeOK,
           NEW m \in Members, NEW list \in CarLists, NEW deal \in Deals,
           NEW network \in Networks, NEW recipient \in Recipients,
           SignCarTransaction(m, list, deal, network, recipient),
           NEW d \in Deals, NEW n \in Networks, NEW r \in Recipients, NEW l \in CarLists
    PROVE  /\ m \notin Signers(deal, network, recipient, list)
           /\ Signers(d, n, r, l)' =
                IF <<d, n, r, l>> = <<deal, network, recipient, list>>
                THEN Signers(d, n, r, l) \cup {m}
                ELSE Signers(d, n, r, l)
<1> DEFINE key == Concatenate(deal, network)
           k == Concatenate(d, n)
<1>1. key \in DealKeys /\ k \in DealKeys /\ (k = key <=> d = deal /\ n = network)
  BY DEF Concatenate, DealKeys
<1>2. ~txInfoMap[key][m].flag
  BY DEF SignCarTransaction, AlreadySigned
<1>3. m \notin Signers(deal, network, recipient, list)
  BY <1>2 DEF Signers
<1>4. \A x \in Members : txInfoMap'[k][x] =
          IF k = key /\ x = m
          THEN [flag |-> TRUE, recipient |-> recipient, cidList |-> list]
          ELSE txInfoMap[k][x]
  BY <1>1 DEF OracleTypeOK, SignCarTransaction
<1>5. CASE k # key
  <2>1. \A x \in Members : txInfoMap'[k][x] = txInfoMap[k][x]
    BY <1>4, <1>5
  <2>2. Signers(d, n, r, l)' = Signers(d, n, r, l)
    BY <2>1 DEF Signers
  <2>3. QED
    BY <1>1, <1>3, <1>5, <2>2
<1>6. CASE k = key
  <2>1. \A x \in Members \ {m} : txInfoMap'[k][x] = txInfoMap[k][x]
    BY <1>4
  <2>2. /\ txInfoMap'[k][m].flag
        /\ txInfoMap'[k][m].recipient = recipient
        /\ txInfoMap'[k][m].cidList = list
    BY <1>4, <1>6
  <2>3. m \notin Signers(d, n, r, l)
    BY <1>2, <1>6 DEF Signers
  <2>4. CASE r = recipient /\ l = list
    <3>1. Signers(d, n, r, l)' = Signers(d, n, r, l) \cup {m}
      BY <2>1, <2>2, <2>4 DEF Signers
    <3>2. QED
      BY <1>1, <1>3, <1>6, <2>4, <3>1
  <2>5. CASE ~(r = recipient /\ l = list)
    <3>1. Signers(d, n, r, l)' = Signers(d, n, r, l)
      BY <2>1, <2>2, <2>3, <2>5 DEF Signers
    <3>2. QED
      BY <1>3, <2>5, <3>1
  <2>6. QED
    BY <2>4, <2>5
<1>7. QED
  BY <1>3, <1>5, <1>6

\* signCarTransaction counts members and not calls.
THEOREM VotesCounted == OracleSpec => []VotesAreSigners
<1>1. OracleInit => VotesAreSigners
  <2> SUFFICES ASSUME OracleInit, NEW deal \in Deals, NEW network \in Networks,
                      NEW recipient \in Recipients, NEW list \in CarLists
               PROVE  txVoteMap[SignedBy(deal, network, recipient, list)] =
                          Cardinality(Signers(deal, network, recipient, list))
    BY DEF VotesAreSigners, SignedBy
  <2>1. SignedBy(deal, network, recipient, list) \in VoteKeys
    BY DEF SignedBy, VoteKeys, Lists
  <2>2. txVoteMap[SignedBy(deal, network, recipient, list)] = 0
    BY <2>1 DEF OracleInit
  <2>3. Concatenate(deal, network) \in DealKeys
    BY DEF Concatenate, DealKeys
  <2>4. Signers(deal, network, recipient, list) = {}
    BY <2>3 DEF OracleInit, Signers, NoSignature
  <2>5. QED
    BY <2>2, <2>4, FS_EmptySet
<1>2. OracleTypeOK /\ VotesAreSigners /\ [OracleNext]_oracleVars => VotesAreSigners'
  <2> SUFFICES ASSUME OracleTypeOK, VotesAreSigners, [OracleNext]_oracleVars PROVE VotesAreSigners'
    OBVIOUS
  <2>1. CASE UNCHANGED <<txInfoMap, txVoteMap>>
    BY <2>1 DEF VotesAreSigners, Signers
  <2>2. ASSUME NEW m \in Members, NEW list \in CarLists, NEW deal \in Deals,
               NEW network \in Networks, NEW recipient \in Recipients,
               SignCarTransaction(m, list, deal, network, recipient)
        PROVE  VotesAreSigners'
    <3> SUFFICES ASSUME NEW d \in Deals, NEW n \in Networks, NEW r \in Recipients,
                        NEW l \in CarLists
                 PROVE  txVoteMap'[SignedBy(d, n, r, l)] = Cardinality(Signers(d, n, r, l)')
      BY DEF VotesAreSigners, SignedBy
    <3> DEFINE v == SignedBy(deal, network, recipient, list)
               w == SignedBy(d, n, r, l)
    <3>1. v \in VoteKeys /\ w \in VoteKeys
          /\ (v = w <=> <<d, n, r, l>> = <<deal, network, recipient, list>>)
      BY DEF SignedBy, VoteKeys, Lists
    <3>2. txVoteMap' = [txVoteMap EXCEPT ![v] = @ + 1]
      BY <2>2 DEF SignCarTransaction, SignedBy
    <3>3. txVoteMap[w] = Cardinality(Signers(d, n, r, l))
      BY DEF VotesAreSigners, SignedBy
    <3>4. CASE v = w
      <4>1. txVoteMap'[w] = txVoteMap[w] + 1
        BY <3>1, <3>2, <3>4 DEF OracleTypeOK
      <4>2. Signers(d, n, r, l)' = Signers(d, n, r, l) \cup {m} /\ m \notin Signers(d, n, r, l)
        BY <2>2, <3>1, <3>4, SignersAfterSigning
      <4>3. QED
        BY <3>3, <4>1, <4>2, SignersFinite, FS_AddElement
    <3>5. CASE v # w
      <4>1. txVoteMap'[w] = txVoteMap[w]
        BY <3>1, <3>2, <3>5 DEF OracleTypeOK
      <4>2. Signers(d, n, r, l)' = Signers(d, n, r, l)
        BY <2>2, <3>1, <3>5, SignersAfterSigning
      <4>3. QED
        BY <3>3, <4>1, <4>2
    <3>6. QED
      BY <3>4, <3>5
  <2>3. QED
    BY <2>1, <2>2 DEF OracleNext, oracleVars, UpdateThreshold, SetFilinkOracle, SetDAOUsers, RevokeRole
<1>3. QED
  BY <1>1, <1>2, OracleTypeCorrect, PTL DEF OracleSpec

(***************************************************************************)
(* Agreed lists.                                                           *)
(***************************************************************************)
\* Nobody takes a signature back: signers only become more.
LEMMA SignersGrow ==
    ASSUME OracleTypeOK, [OracleNext]_oracleVars, NEW d \in Deals, NEW n \in Networks,
           NEW r \in Recipients, NEW l \in CarLists
    PROVE  /\ Signers(d, n, r, l) \subseteq Signers(d, n, r, l)'
           /\ Cardinality(Signers(d, n, r, l)) <= Cardinality(Signers(d, n, r, l)')
<1>1. Signers(d, n, r, l) \subseteq Signers(d, n, r, l)'
  <2>1. CASE UNCHANGED txInfoMap
    BY <2>1 DEF Signers
  <2>2. ASSUME NEW m \in Members, NEW list \in CarLists, NEW deal \in Deals,
               NEW network \in Networks, NEW recipient \in Recipients,
               SignCarTransaction(m, list, deal, network, recipient)
        PROVE  Signers(d, n, r, l) \subseteq Signers(d, n, r, l)'
    BY <2>2, SignersAfterSigning
  <2>3. QED
    BY <2>1, <2>2 DEF OracleNext, oracleVars, UpdateThreshold, SetFilinkOracle, SetDAOUsers, RevokeRole
<1>2. IsFiniteSet(Signers(d, n, r, l)')
  <2>1. Signers(d, n, r, l)' \subseteq Members
    BY DEF Signers
  <2>2. QED
    BY <2>1, OracleAssumption, FS_Subset
<1>3. QED
  BY <1>1, <1>2, FS_Subset

\* A signature that changes the list of a deal leaves it with as many signers, for one
\* recipient, as the threshold says.
LEMMA NewListIsSigned ==
    ASSUME OracleTypeOK, VotesAreSigners, VotesAreSigners', [OracleNext]_oracleVars,
           NEW d \in Deals, NEW n \in Networks,
           cidListMap'[Concatenate(d, n)] # cidListMap[Concatenate(d, n)]
    PROVE  \E l \in CarLists, r \in Recipients :
              /\ cidListMap'[Concatenate(d, n)] = l
              /\ threshold = Cardinality(Signers(d, n, r, l)')
<1>1. PICK m \in Members, l \in CarLists, deal \in Deals, network \in Networks,
           r \in Recipients : SignCarTransaction(m, l, deal, network, r)
  BY DEF OracleNext, oracleVars, UpdateThreshold, SetFilinkOracle, SetDAOUsers, RevokeRole
<1> DEFINE key == Concatenate(deal, network)
<1>2. /\ cidListMap' = [cidListMap EXCEPT ![key] = l]
      /\ txVoteMap'[SignedBy(deal, network, r, l)] = threshold
  BY <1>1 DEF SignCarTransaction, ReachesThreshold, SignedBy
<1>3. key \in Keys /\ Concatenate(d, n) \in Keys
  BY DEF Concatenate, Keys, DealKeys
<1>4. Concatenate(d, n) = key /\ cidListMap'[key] = l
  BY <1>2, <1>3 DEF OracleTypeOK
<1>5. deal = d /\ network = n
  BY <1>4 DEF Concatenate
<1>6. txVoteMap'[SignedBy(d, n, r, l)] = Cardinality(Signers(d, n, r, l)')
  BY DEF VotesAreSigners, SignedBy
<1>7. QED
  BY <1>2, <1>4, <1>5, <1>6

\* A cid list the contract charges by has the signers of some threshold.
THEOREM ListsAgreed == OracleSpec => []ListIsAgreed
<1>1. OracleInit => ListIsAgreed
  BY DEF OracleInit, ListIsAgreed, Keys, DealKeys, Concatenate
<1>2. OracleTypeOK /\ VotesAreSigners /\ VotesAreSigners' /\ ListIsAgreed /\ [OracleNext]_oracleVars => ListIsAgreed'
  <2> SUFFICES ASSUME OracleTypeOK, VotesAreSigners, VotesAreSigners', ListIsAgreed, [OracleNext]_oracleVars,
                      NEW d \in Deals, NEW n \in Networks,
                      NEW l, l = cidListMap'[Concatenate(d, n)], l # EmptyList
               PROVE  \E r \in Recipients, t \in Thresholds :
                         t <= Cardinality(Signers(d, n, r, l)')
    BY DEF ListIsAgreed, Signers
  <2> DEFINE k == Concatenate(d, n)
  <2>1. CASE l = cidListMap[k]
    <3>1. PICK r \in Recipients, t \in Thresholds : t <= Cardinality(Signers(d, n, r, l))
      BY <2>1 DEF ListIsAgreed
    <3>2. l \in CarLists
      BY <2>1 DEF OracleTypeOK, Lists, Keys, DealKeys, Concatenate
    <3>3. Cardinality(Signers(d, n, r, l)) <= Cardinality(Signers(d, n, r, l)')
      BY <3>2, SignersGrow
    <3>4. /\ Cardinality(Signers(d, n, r, l)) \in Nat
          /\ Cardinality(Signers(d, n, r, l)') \in Nat
          /\ t \in Nat
      <4>1. Signers(d, n, r, l)' \subseteq Members
        BY DEF Signers
      <4>2. QED
        BY <4>1, SignersFinite, OracleAssumption, FS_Subset, FS_CardinalityType
    <3>5. QED
      BY <3>1, <3>3, <3>4
  <2>2. CASE l # cidListMap[k]
    <3>1. PICK s \in Recipients : threshold = Cardinality(Signers(d, n, s, l)')
      BY <2>2, NewListIsSigned
    <3>2. threshold \in Thresholds /\ threshold \in Nat
      BY OracleAssumption DEF OracleTypeOK
    <3>3. QED
      BY <3>1, <3>2
  <2>3. QED
    BY <2>1, <2>2
<1>3. QED
  BY <1>1, <1>2, OracleTypeCorrect, VotesCounted, PTL DEF OracleSpec

\* If every threshold is a majority of all who may ever be members, an agreed list stays:
\* the members who signed it are too many for another list to reach a threshold.
THEOREM AgreedStays ==
    ASSUME \A t \in Thresholds : 2 * t > Cardinality(Members)
    PROVE  OracleSpec => AgreedListStays
<1> DEFINE Stays == \A deal \in Deals, network \in Networks :
                       cidListMap[Concatenate(deal, network)] # EmptyList =>
                          cidListMap'[Concatenate(deal, network)] = cidListMap[Concatenate(deal, network)]
<1>1. OracleTypeOK /\ VotesAreSigners /\ VotesAreSigners' /\ ListIsAgreed /\ [OracleNext]_oracleVars => Stays
  <2> SUFFICES ASSUME OracleTypeOK, VotesAreSigners, VotesAreSigners', ListIsAgreed, [OracleNext]_oracleVars,
                      NEW d \in Deals, NEW n \in Networks,
                      cidListMap[Concatenate(d, n)] # EmptyList,
                      cidListMap'[Concatenate(d, n)] # cidListMap[Concatenate(d, n)]
               PROVE  FALSE
    OBVIOUS
  <2> DEFINE k == Concatenate(d, n)
             old == cidListMap[k]
  <2>1. PICK r \in Recipients, t \in Thresholds : t <= Cardinality(Signers(d, n, r, old))
    BY DEF ListIsAgreed
  <2>2. PICK l \in CarLists, s \in Recipients :
           cidListMap'[k] = l /\ threshold = Cardinality(Signers(d, n, s, l)')
    BY NewListIsSigned
  <2>3. old \in CarLists
    BY DEF OracleTypeOK, Lists, Keys, DealKeys, Concatenate
  <2> DEFINE A == {m \in Members : LET info == txInfoMap'[k][m]
                                   IN info.flag /\ info.recipient = r /\ info.cidList = old}
             B == Signers(d, n, s, l)'
  <2>4. Cardinality(Signers(d, n, r, old)) <= Cardinality(A)
    <3>1. PICK o \in CarLists : o = old
      BY <2>3
    <3>2. Signers(d, n, r, o)' = A
      BY <3>1 DEF Signers
    <3>3. QED
      BY <3>1, <3>2, SignersGrow
  <2>5. A \cap B = {}
    BY <2>2 DEF Signers
  <2>6. A \subseteq Members /\ B \subseteq Members
    BY DEF Signers
  <2>7. /\ Cardinality(A) \in Nat /\ Cardinality(B) \in Nat /\ Cardinality(Members) \in Nat
        /\ Cardinality(Signers(d, n, r, old)) \in Nat
    BY <2>6, SignersFinite, OracleAssumption, FS_Subset, FS_CardinalityType
  <2>8. Cardinality(A) + Cardinality(B) > Cardinality(Members)
    BY <2>1, <2>2, <2>4, <2>7, OracleAssumption DEF OracleTypeOK
  <2>9. QED
    BY <2>5, <2>6, <2>8, OracleAssumption, FS_MajoritiesIntersect
<1>2. QED
  BY <1>1, OracleTypeCorrect, VotesCounted, ListsAgreed, PTL DEF OracleSpec, AgreedListStays

(***************************************************************************)
(* What is asked.                                                          *)
(***************************************************************************)
\* No vote is ever counted under the signature that is asked for.
NoVoteAsked ==
    \A deal \in Deals, network \in Networks, recipient \in Recipients, list \in Lists :
        txVoteMap[<<Asked, deal, network, recipient, list>>] = 0

\* The two function signatures that are hashed differ by a space (FilswanOracle.sol:103, 128): as long
\* as the threshold is not 0, isCarPaymentAvailable is false, whoever signs whatever.
THEOREM NeverAvailable ==
    OracleSpec => [](threshold # 0 =>
        \A deal \in Deals, network \in Networks, recipient \in Recipients :
            ~ IsCarPaymentAvailable(deal, network, recipient))
<1>1. ASSUME NEW deal \in Deals, NEW network \in Networks, NEW recipient \in Recipients,
             NEW list \in Lists
      PROVE  <<Asked, deal, network, recipient, list>> \in VoteKeys
  BY DEF VoteKeys
<1>2. OracleInit => NoVoteAsked
  BY <1>1 DEF OracleInit, NoVoteAsked
<1>3. OracleTypeOK /\ NoVoteAsked /\ [OracleNext]_oracleVars => NoVoteAsked'
  <2> SUFFICES ASSUME OracleTypeOK, NoVoteAsked, [OracleNext]_oracleVars PROVE NoVoteAsked'
    OBVIOUS
  <2>1. CASE UNCHANGED txVoteMap
    BY <2>1 DEF NoVoteAsked
  <2>2. ASSUME NEW m \in Members, NEW list \in CarLists, NEW deal \in Deals,
               NEW network \in Networks, NEW recipient \in Recipients,
               SignCarTransaction(m, list, deal, network, recipient)
        PROVE  NoVoteAsked'
    <3> SUFFICES ASSUME NEW d \in Deals, NEW n \in Networks, NEW r \in Recipients, NEW l \in Lists
                 PROVE  txVoteMap'[<<Asked, d, n, r, l>>] = 0
      BY DEF NoVoteAsked
    <3> DEFINE v == SignedBy(deal, network, recipient, list)
               w == <<Asked, d, n, r, l>>
    <3>1. w \in VoteKeys /\ v # w
      BY <1>1 DEF SignedBy, Signed, Asked
    <3>2. txVoteMap' = [txVoteMap EXCEPT ![v] = @ + 1]
      BY <2>2 DEF SignCarTransaction, SignedBy
    <3>3. txVoteMap[w] = 0
      BY DEF NoVoteAsked
    <3>4. txVoteMap \in [VoteKeys -> 0 .. MaxUint8]
      BY DEF OracleTypeOK
    <3> HIDE DEF v, w
    <3>5. txVoteMap'[w] = 0
      BY <3>1, <3>2, <3>3, <3>4
    <3>6. QED
      BY <3>5 DEF w
  <2>3. QED
    BY <2>1, <2>2 DEF OracleNext, oracleVars, UpdateThreshold, SetFilinkOracle, SetDAOUsers, RevokeRole
<1>4. OracleTypeOK /\ NoVoteAsked =>
         (threshold # 0 =>
            \A deal \in Deals, network \in Networks, recipient \in Recipients :
                ~ IsCarPaymentAvailable(deal, network, recipient))
  <2> SUFFICES ASSUME OracleTypeOK, NoVoteAsked, threshold # 0,
                      NEW deal \in Deals, NEW network \in Networks, NEW recipient \in Recipients
               PROVE  ~ IsCarPaymentAvailable(deal, network, recipient)
    OBVIOUS
  <2>1. threshold \in Nat
    BY OracleAssumption DEF OracleTypeOK
  <2>2. PICK list \in Lists : list = cidListMap[deal]
    BY DEF OracleTypeOK, Keys
  <2>3. txVoteMap[<<Asked, deal, network, recipient, cidListMap[deal]>>] = 0
    BY <2>2 DEF NoVoteAsked
  <2>4. QED
    BY <2>1, <2>3 DEF IsCarPaymentAvailable
<1>5. QED
  BY <1>2, <1>3, <1>4, OracleTypeCorrect, PTL DEF OracleSpec
=============================================================================
