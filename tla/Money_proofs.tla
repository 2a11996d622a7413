---------------------------- MODULE Money_proofs ----------------------------
(***************************************************************************)
(* Proofs about Money: rounding, and the sums over the legs of a bundle.   *)
(*                                                                         *)
(* A sum is a fold, and a fold is a recursive function on the sets of      *)
(* positions.  What it returns is proved here with the least number for    *)
(* which it would fail.                                                    *)
(***************************************************************************)
EXTENDS Money, WellFoundedInduction, TLAPS

----------------------------------------------------------------------------
(* Least and greatest elements. *)

\* The least element of a set of naturals.
LEMMA LeastExists ==
  ASSUME NEW S, S \subseteq Nat, S # {}
  PROVE  \E n \in S : \A m \in S : n <= m
<1> DEFINE Below == OpToRel(<, Nat)
<1>1. \A m, n \in Nat : m < n => <<m, n>> \in Below
  BY DEF OpToRel
<1>2. \E n \in S : \A m \in S : ~(<<m, n>> \in Below)
  <2>1. IsWellFoundedOn(Below, Nat)
    BY NatLessThanWellFounded
  <2> HIDE DEF Below
  <2> QED BY <2>1, WFMin
<1>3. PICK n \in S : \A m \in S : ~(<<m, n>> \in Below)
  BY <1>2
<1> HIDE DEF Below
<1>4. ASSUME NEW m \in S PROVE n <= m
  <2>1. m \in Nat /\ n \in Nat
    OBVIOUS
  <2>2. ~(m < n)
    BY <1>1, <1>3, <2>1
  <2> QED BY <2>1, <2>2
<1> QED BY <1>4

\* The greatest position of a set of positions is one of them.
LEMMA MaxBelongs ==
  ASSUME NEW n \in Nat, NEW S, S \subseteq 1..n, S # {}
  PROVE  Max(S) \in S /\ \A m \in S : m <= Max(S)
<1> DEFINE Gaps == {n - m : m \in S}
<1>1. Gaps \subseteq Nat /\ Gaps # {}
  <2>1. \A m \in S : m \in 1..n /\ n - m \in Nat
    OBVIOUS
  <2> QED BY <2>1
<1>2. PICK g \in Gaps : \A h \in Gaps : g <= h
  <2> HIDE DEF Gaps
  <2> QED BY <1>1, LeastExists
<1>3. PICK x \in S : g = n - x
  OBVIOUS
<1>4. ASSUME NEW m \in S PROVE x >= m
  <2>1. n - x <= n - m /\ n \in Nat /\ x \in 1..n /\ m \in 1..n
    BY <1>2, <1>3
  <2> HIDE DEF Gaps
  <2> QED BY <2>1
<1>5. Max(S) \in S /\ \A m \in S : Max(S) >= m
  BY <1>3, <1>4 DEF Max
<1> QED BY <1>5

----------------------------------------------------------------------------
(* Sums. *)

\* it adds up f over every set of positions, the greatest position last.
AddsUp(it, D, f) ==
  it = [s \in SUBSET D |-> IF s = {} THEN 0 ELSE it[s \ {Max(s)}] + f[Max(s)]]

\* The sum of f over the positions D.
Total(D, f) == (CHOOSE it : AddsUp(it, D, f))[D]

\* Equal terms have equal sums.
LEMMA EqualTerms ==
  ASSUME NEW n \in Nat, NEW f, NEW g, \A i \in 1..n : f[i] = g[i]
  PROVE  Total(1..n, f) = Total(1..n, g)
<1>1. \A s \in SUBSET (1..n) : s # {} => f[Max(s)] = g[Max(s)]
  BY MaxBelongs
<1>2. \A it : AddsUp(it, 1..n, f) <=> AddsUp(it, 1..n, g)
  BY <1>1 DEF AddsUp
<1>3. (CHOOSE it : AddsUp(it, 1..n, f)) = (CHOOSE it : AddsUp(it, 1..n, g))
  BY <1>2
<1> QED BY <1>3 DEF Total

\* Some function adds up integers.
LEMMA SumExists ==
  ASSUME NEW n \in Nat, NEW f, \A i \in 1..n : f[i] \in Int
  PROVE  \E it : AddsUp(it, 1..n, f)
<1> DEFINE Stuck == {m \in 0..n : ~ \E it : AddsUp(it, 1..m, f)}
<1>1. SUFFICES ASSUME Stuck # {} PROVE FALSE
  OBVIOUS
<1>2. PICK m \in Stuck : \A k \in Stuck : m <= k
  <2>1. Stuck \subseteq Nat
    OBVIOUS
  <2> HIDE DEF Stuck
  <2> QED BY <1>1, <2>1, LeastExists
<1>3. m # 0
  <2> DEFINE it == [s \in SUBSET (1..0) |-> 0]
  <2>1. AddsUp(it, 1..0, f)
    BY DEF AddsUp
  <2> QED BY <2>1
<1>4. m \in 1..n /\ m - 1 \in 0..n /\ m - 1 \notin Stuck
  BY <1>2, <1>3
<1>5. PICK old : AddsUp(old, 1..(m - 1), f)
  BY <1>4
<1> DEFINE new == [s \in SUBSET (1..m) |-> IF m \in s THEN old[s \ {m}] + f[m] ELSE old[s]]
<1>6. ASSUME NEW s \in SUBSET (1..m)
      PROVE  new[s] = IF s = {} THEN 0 ELSE new[s \ {Max(s)}] + f[Max(s)]
  <2>1. CASE s = {}
    BY <1>5, <2>1 DEF AddsUp
  <2>2. CASE s # {} /\ m \notin s
    <3>1. s \in SUBSET (1..(m - 1)) /\ s \ {Max(s)} \in SUBSET (1..(m - 1))
      <4>1. \A i \in s : i \in 1..m /\ i # m
        BY <2>2
      <4>2. \A i \in s : i \in 1..(m - 1)
        BY <1>4, <4>1
      <4> QED BY <4>2
    <3>2. old[s] = old[s \ {Max(s)}] + f[Max(s)]
      BY <1>5, <2>2, <3>1 DEF AddsUp
    <3> QED BY <2>2, <3>1, <3>2
  <2>3. CASE m \in s
    <3>1. Max(s) = m
      <4>1. s \subseteq 1..m /\ m \in Nat
        BY <1>4
      <4>2. Max(s) \in s /\ m <= Max(s)
        BY <2>3, <4>1, MaxBelongs
      <4>3. Max(s) \in 1..m
        BY <4>1, <4>2
      <4> QED BY <4>1, <4>2, <4>3
    <3> QED BY <2>3, <3>1
  <2> QED BY <2>1, <2>2, <2>3
<1>7. AddsUp(new, 1..m, f)
  <2> HIDE DEF new
  <2>1. new = [s \in SUBSET (1..m) |-> new[s]]
    BY DEF new
  <2> QED BY <1>6, <2>1 DEF AddsUp
<1> QED BY <1>7

\* A sum of integers is an integer.
LEMMA SumIsInt ==
  ASSUME NEW n \in Nat, NEW f, \A i \in 1..n : f[i] \in Int
  PROVE  Total(1..n, f) \in Int
<1>1. PICK it : it = (CHOOSE g : AddsUp(g, 1..n, f)) /\ AddsUp(it, 1..n, f)
  BY SumExists
<1> DEFINE Stuck == {m \in 0..n : \E s \in SUBSET (1..m) : it[s] \notin Int}
<1>2. SUFFICES ASSUME Stuck # {} PROVE FALSE
  <2>1. SUFFICES it[1..n] \in Int
    BY <1>1 DEF Total
  <2>2. n \in 0..n /\ n \notin Stuck
    BY <1>2
  <2> QED BY <2>2
<1>3. PICK m \in Stuck : \A k \in Stuck : m <= k
  <2>1. Stuck \subseteq Nat
    OBVIOUS
  <2> HIDE DEF Stuck
  <2> QED BY <1>2, <2>1, LeastExists
<1>4. m \in 0..n /\ m \in Nat
  OBVIOUS
<1>5. PICK s \in SUBSET (1..m) : it[s] \notin Int
  OBVIOUS
<1>6. \A k \in 0..n : k < m => \A r \in SUBSET (1..k) : it[r] \in Int
  <2>1. ASSUME NEW k \in 0..n, NEW r \in SUBSET (1..k), k < m PROVE it[r] \in Int
    <3>1. ~(m <= k)
      BY <1>4, <2>1
    <3>2. k \notin Stuck
      BY <1>3, <3>1
    <3> QED BY <3>2
  <2> QED BY <2>1
<1> HIDE DEF Stuck
<1>7. s \in SUBSET (1..n)
  BY <1>4
<1>8. it[s] = IF s = {} THEN 0 ELSE it[s \ {Max(s)}] + f[Max(s)]
  BY <1>1, <1>7 DEF AddsUp
<1>9. s # {} /\ Max(s) \in s /\ \A i \in s : i <= Max(s)
  <2>1. s # {}
    BY <1>5, <1>8
  <2> QED BY <1>4, <2>1, MaxBelongs
<1>10. m - 1 \in 0..n /\ s \ {Max(s)} \in SUBSET (1..(m - 1))
  <2>1. \A i \in s \ {Max(s)} : i \in 1..m /\ i <= Max(s) /\ i # Max(s) /\ Max(s) \in 1..m
    BY <1>9
  <2>2. \A i \in s \ {Max(s)} : i \in 1..(m - 1)
    BY <1>4, <2>1
  <2>3. m \in Nat /\ m \in 0..n /\ m # 0
    <3>1. Max(s) \in 1..m
      BY <1>9
    <3> QED BY <1>4, <3>1
  <2>4. m - 1 \in 0..n
    BY <2>3
  <2>5. s \ {Max(s)} \subseteq 1..(m - 1)
    BY <2>2
  <2> QED BY <2>4, <2>5
<1>11. it[s \ {Max(s)}] \in Int
  BY <1>4, <1>6, <1>10
<1>12. f[Max(s)] \in Int
  BY <1>7, <1>9
<1> QED BY <1>5, <1>8, <1>9, <1>11, <1>12

\* Two sums of the legs of a bundle: the total that must cancel, and the movement it is gated by.
LEMMA NormalizedTotalIsASum ==
  ASSUME NEW postings, NEW n \in Nat, DOMAIN postings = 1..n
  PROVE  NormalizedTotal(postings)
           = Total(1..n, [i \in 1..n |-> normalize_amount(postings[i].amount)])
<1> DEFINE f == [i \in 1..n |-> normalize_amount(postings[i].amount)]
           Leg(i) == normalize_amount(postings[i].amount)
           Folds(it) == it = [s \in SUBSET (1..n) |->
                                IF s = {} THEN 0 ELSE it[s \ {Max(s)}] + Leg(Max(s))]
<1>1. NormalizedTotal(postings) = (CHOOSE it : Folds(it))[1..n]
  BY Zenon DEF NormalizedTotal, SumOver, FoldLeft, MapThenFoldSet
<1>2. \A s \in SUBSET (1..n) : s # {} => f[Max(s)] = Leg(Max(s))
  BY MaxBelongs
<1> HIDE DEF f, Leg
<1>3. \A it : Folds(it) <=> AddsUp(it, 1..n, f)
  BY <1>2 DEF AddsUp
<1> HIDE DEF Folds
<1>4. (CHOOSE it : Folds(it)) = (CHOOSE it : AddsUp(it, 1..n, f))
  BY <1>3
<1> QED BY <1>1, <1>4 DEF Total, f, Leg

LEMMA MovementIsASum ==
  ASSUME NEW postings, NEW n \in Nat, DOMAIN postings = 1..n
  PROVE  SumOver(LAMBDA p : AbsValue(normalize_amount(p.amount)), postings)
           = Total(1..n, [i \in 1..n |-> AbsValue(normalize_amount(postings[i].amount))])
<1> DEFINE f == [i \in 1..n |-> AbsValue(normalize_amount(postings[i].amount))]
           Leg(i) == AbsValue(normalize_amount(postings[i].amount))
           Folds(it) == it = [s \in SUBSET (1..n) |->
                                IF s = {} THEN 0 ELSE it[s \ {Max(s)}] + Leg(Max(s))]
<1>1. SumOver(LAMBDA p : AbsValue(normalize_amount(p.amount)), postings)
        = (CHOOSE it : Folds(it))[1..n]
  BY Zenon DEF SumOver, FoldLeft, MapThenFoldSet
<1>2. \A s \in SUBSET (1..n) : s # {} => f[Max(s)] = Leg(Max(s))
  BY MaxBelongs
<1> HIDE DEF f, Leg
<1>3. \A it : Folds(it) <=> AddsUp(it, 1..n, f)
  BY <1>2 DEF AddsUp
<1> HIDE DEF Folds
<1>4. (CHOOSE it : Folds(it)) = (CHOOSE it : AddsUp(it, 1..n, f))
  BY <1>3
<1> QED BY <1>1, <1>4 DEF Total, f, Leg

\* The stored legs add up to what was checked: rounding happens once, before the check.
LEMMA StoredSum ==
  ASSUME NEW postings, NEW n \in Nat, DOMAIN postings = 1..n,
         NEW legs, DOMAIN legs = 1..n,
         \A i \in 1..n : legs[i].amount = normalize_amount(postings[i].amount)
  PROVE  SumOver(LAMBDA p : p.amount, legs) = NormalizedTotal(postings)
<1> DEFINE f == [i \in 1..n |-> normalize_amount(postings[i].amount)]
           Leg(i) == legs[i].amount
           Folds(it) == it = [s \in SUBSET (1..n) |->
                                IF s = {} THEN 0 ELSE it[s \ {Max(s)}] + Leg(Max(s))]
<1>1. SumOver(LAMBDA p : p.amount, legs) = (CHOOSE it : Folds(it))[1..n]
  BY Zenon DEF SumOver, FoldLeft, MapThenFoldSet
<1>2. \A s \in SUBSET (1..n) : s # {} => f[Max(s)] = Leg(Max(s))
  BY MaxBelongs
<1> HIDE DEF Leg
<1>3. \A it : Folds(it) <=> AddsUp(it, 1..n, f)
  <2> HIDE DEF f
  <2> QED BY <1>2 DEF AddsUp
<1> HIDE DEF Folds
<1>4. (CHOOSE it : Folds(it)) = (CHOOSE it : AddsUp(it, 1..n, f))
  BY <1>3
<1> QED BY <1>1, <1>4, NormalizedTotalIsASum DEF Total

----------------------------------------------------------------------------
(* Rounding. *)

\* Division with remainder.
LEMMA Division ==
  ASSUME NEW x \in Int, NEW d \in Nat \ {0}
  PROVE  /\ x \div d \in Int /\ x % d \in Int
         /\ x = d * (x \div d) + (x % d)
         /\ 0 <= x % d /\ x % d < d
OBVIOUS

LEMMA RoundedIsInt ==
  ASSUME NEW x \in Int, NEW d \in Nat \ {0}
  PROVE  RoundHalfEven(x, d) \in Int
BY Division DEF RoundHalfEven

\* Decimal.quantize moves an amount by half a step at most, and by half a step only to an even one.
THEOREM RoundingIsNearest ==
  ASSUME NEW x \in Int, NEW d \in Nat \ {0}
  PROVE  /\ 2 * (x - d * RoundHalfEven(x, d)) <= d
         /\ 2 * (d * RoundHalfEven(x, d) - x) <= d
         /\ 2 * (x - d * RoundHalfEven(x, d)) = d \/ 2 * (d * RoundHalfEven(x, d) - x) = d
              => RoundHalfEven(x, d) % 2 = 0
<1>1. PICK q \in Int, r \in Int : /\ q = x \div d /\ r = x % d
                                 /\ x = d * q + r /\ 0 <= r /\ r < d
  BY Division
<1>2. CASE RoundHalfEven(x, d) = q /\ (2 * r < d \/ (2 * r = d /\ q % 2 = 0))
  <2>1. x - d * q = r /\ d * q - x = -r
    BY <1>1
  <2>2. x - d * RoundHalfEven(x, d) = r /\ d * RoundHalfEven(x, d) - x = -r
    BY <1>2, <2>1
  <2> QED BY <1>1, <1>2, <2>2
<1>3. CASE RoundHalfEven(x, d) = q + 1 /\ (2 * r > d \/ (2 * r = d /\ q % 2 # 0))
  <2>1. d * (q + 1) = d * q + d
    BY <1>1
  <2>2. d * (q + 1) - x = d - r /\ x - d * (q + 1) = r - d
    BY <1>1, <2>1
  <2>3. d * RoundHalfEven(x, d) - x = d - r /\ x - d * RoundHalfEven(x, d) = r - d
    BY <1>3, <2>2
  <2>4. q % 2 # 0 => (q + 1) % 2 = 0
    BY <1>1
  <2> QED BY <1>1, <1>3, <2>3, <2>4
<1>4. \/ RoundHalfEven(x, d) = q /\ (2 * r < d \/ (2 * r = d /\ q % 2 = 0))
      \/ RoundHalfEven(x, d) = q + 1 /\ (2 * r > d \/ (2 * r = d /\ q % 2 # 0))
  BY <1>1 DEF RoundHalfEven
<1> QED BY <1>2, <1>3, <1>4

\* A larger amount never rounds to a smaller one, ties to even included.
THEOREM RoundingIsMonotone ==
  ASSUME NEW x \in Int, NEW y \in Int, NEW d \in Nat \ {0}, x <= y
  PROVE  RoundHalfEven(x, d) <= RoundHalfEven(y, d)
<1>1. PICK q \in Int, r \in Int : /\ q = x \div d /\ r = x % d
                                 /\ x = d * q + r /\ 0 <= r /\ r < d
  BY Division
<1>2. PICK u \in Int, v \in Int : /\ u = y \div d /\ v = y % d
                                 /\ y = d * u + v /\ 0 <= v /\ v < d
  BY Division
<1>3. q <= u
  <2>1. SUFFICES ASSUME u + 1 <= q PROVE FALSE
    BY <1>1, <1>2
  <2>2. d * (u + 1) <= d * q /\ d * (u + 1) = d * u + d
    BY <1>1, <1>2, <2>1
  <2> QED BY <1>1, <1>2, <2>2
<1>4. CASE q = u
  BY <1>1, <1>2, <1>4 DEF RoundHalfEven
<1>5. CASE q + 1 <= u
  BY <1>1, <1>2, <1>5 DEF RoundHalfEven
<1> QED BY <1>1, <1>2, <1>3, <1>4, <1>5

\* An amount that already is a whole number of steps stays what it is: what the ledger has stored
\* and sends back is normalized to itself.
THEOREM RoundingIsExact ==
  ASSUME NEW q \in Int, NEW d \in Nat \ {0}
  PROVE  RoundHalfEven(d * q, d) = q
<1>1. d * q \in Int
  OBVIOUS
<1>2. PICK u \in Int, v \in Int : /\ u = (d * q) \div d /\ v = (d * q) % d
                                 /\ d * q = d * u + v /\ 0 <= v /\ v < d
  BY <1>1, Division
<1>3. u = q /\ v = 0
  <2>1. CASE u + 1 <= q
    <3>1. d * (u + 1) <= d * q /\ d * (u + 1) = d * u + d
      BY <1>2, <2>1
    <3> QED BY <1>2, <3>1
  <2>2. CASE q + 1 <= u
    <3>1. d * (q + 1) <= d * u /\ d * (q + 1) = d * q + d
      BY <1>2, <2>2
    <3> QED BY <1>1, <1>2, <3>1
  <2>3. CASE u = q
    BY <1>1, <1>2, <2>3
  <2> QED BY <1>2, <2>1, <2>2, <2>3
<1> QED BY <1>2, <1>3 DEF RoundHalfEven

\* The impact that the gate compares with a threshold is an integer.
LEMMA ImpactIsInt ==
  ASSUME NEW postings, NEW n \in Nat, DOMAIN postings = 1..n,
         \A i \in 1..n : postings[i].amount \in Int
  PROVE  transaction_impact_amount(postings) \in Int
<1> DEFINE f == [i \in 1..n |-> AbsValue(normalize_amount(postings[i].amount))]
<1>1. ASSUME NEW i \in 1..n PROVE f[i] \in Int
  <2>1. postings[i].amount \in Int /\ 10 \in Nat \ {0}
    OBVIOUS
  <2>2. RoundHalfEven(postings[i].amount, 10) \in Int
    BY <2>1, RoundedIsInt
  <2> QED BY <2>2 DEF AbsValue, normalize_amount, RawPerQuantum
<1>2. Total(1..n, f) \in Int
  <2> HIDE DEF f
  <2> QED BY <1>1, SumIsInt
<1>3. transaction_impact_amount(postings) = RoundHalfEven(Total(1..n, f), 2)
  BY Zenon, MovementIsASum DEF transaction_impact_amount
<1> HIDE DEF f
<1> QED BY <1>2, <1>3, RoundedIsInt
=============================================================================
