------------------------ MODULE AnalysisTools_proofs ------------------------
(***************************************************************************)
(* Proofs about the tools that compute, for any questions they fit.        *)
(*                                                                         *)
(* A sum over a set takes the elements in the order that CHOOSE gives.     *)
(* That the order does not matter, and with it that sums are linear and    *)
(* may be taken group by group, is proved here by induction on finite      *)
(* sets: a family of subsets that has a set whenever it has all the sets   *)
(* with one element less has them all.                                     *)
(***************************************************************************)
EXTENDS AnalysisTools, Money_proofs, FiniteSetTheorems

----------------------------------------------------------------------------
(* Induction on the subsets of a finite set. *)

LEMMA FiniteInduction ==
  ASSUME NEW S, IsFiniteSet(S), NEW P,
         \A s \in SUBSET S : (\A x \in s : s \ {x} \in P) => s \in P
  PROVE  \A s \in SUBSET S : s \in P
<1> DEFINE Sizes == {Cardinality(s) : s \in (SUBSET S) \ P}
<1>1. SUFFICES ASSUME (SUBSET S) \ P # {} PROVE FALSE
  OBVIOUS
<1>2. \A s \in SUBSET S : IsFiniteSet(s) /\ Cardinality(s) \in Nat
  BY FS_Subset, FS_CardinalityType
<1>3. Sizes \subseteq Nat /\ Sizes # {}
  BY <1>1, <1>2
<1>4. PICK n \in Sizes : \A m \in Sizes : n <= m
  <2> HIDE DEF Sizes
  <2> QED BY <1>3, LeastExists
<1>5. PICK s \in (SUBSET S) \ P : Cardinality(s) = n
  OBVIOUS
<1>6. ASSUME NEW x \in s PROVE s \ {x} \in P
  <2>1. Cardinality(s \ {x}) = n - 1 /\ n \in Nat
    BY <1>2, <1>5, FS_RemoveElement
  <2>2. s \ {x} \in SUBSET S
    OBVIOUS
  <2>3. s \ {x} \notin P => n - 1 \in Sizes
    BY <2>1, <2>2
  <2> HIDE DEF Sizes
  <2> QED BY <1>4, <2>1, <2>3
<1> QED BY <1>5, <1>6

----------------------------------------------------------------------------
(* Sums over finite sets. *)

First(s) == CHOOSE x \in s : TRUE

\* it adds up f over every subset of S, as MapThenSumSet does.
Sums(it, S, f) ==
  it = [s \in SUBSET S |-> IF s = {} THEN 0 ELSE f[First(s)] + it[s \ {First(s)}]]

\* The sum of f over S.
SetTotal(S, f) == (CHOOSE it : Sums(it, S, f))[S]

\* Two functions that add up f agree wherever both do.
LEMMA SumsAgree ==
  ASSUME NEW S, NEW T, IsFiniteSet(S), T \subseteq S, NEW f,
         NEW it, Sums(it, S, f), NEW jt, Sums(jt, T, f)
  PROVE  \A s \in SUBSET T : it[s] = jt[s]
<1> DEFINE P == {s \in SUBSET T : it[s] = jt[s]}
<1>1. IsFiniteSet(T)
  BY FS_Subset
<1>2. ASSUME NEW s \in SUBSET T, \A x \in s : s \ {x} \in P PROVE s \in P
  <2>1. it[s] = IF s = {} THEN 0 ELSE f[First(s)] + it[s \ {First(s)}]
    BY DEF Sums
  <2>2. jt[s] = IF s = {} THEN 0 ELSE f[First(s)] + jt[s \ {First(s)}]
    BY DEF Sums
  <2>3. s # {} => First(s) \in s
    BY DEF First
  <2> QED BY <1>2, <2>1, <2>2, <2>3
<1>3. \A s \in SUBSET T : s \in P
  <2> HIDE DEF P
  <2> QED BY <1>1, <1>2, FiniteInduction
<1> QED BY <1>3

\* Some function adds up f.
LEMMA SumsExist ==
  ASSUME NEW S, IsFiniteSet(S), NEW f
  PROVE  \E it : Sums(it, S, f)
<1> DEFINE P == {s \in SUBSET S : \E it : Sums(it, s, f)}
<1>1. ASSUME NEW s \in SUBSET S, \A x \in s : s \ {x} \in P PROVE s \in P
  <2> DEFINE new == [r \in SUBSET s |->
                       IF r = {} THEN 0 ELSE f[First(r)] + SetTotal(r \ {First(r)}, f)]
  <2>1. ASSUME NEW r \in SUBSET s, r # s PROVE r = {} \/ SetTotal(r, f) = new[r]
    <3>1. SUFFICES ASSUME r # {} PROVE SetTotal(r, f) = f[First(r)] + SetTotal(r \ {First(r)}, f)
      OBVIOUS
    <3>2. PICK x \in s : x \notin r
      BY <2>1
    <3>3. IsFiniteSet(r) /\ First(r) \in r
      BY <3>1, FS_Subset DEF First
    <3>4. PICK jt : jt = (CHOOSE it : Sums(it, s \ {x}, f)) /\ Sums(jt, s \ {x}, f)
      BY <1>1, <3>2
    <3>5. ASSUME NEW u \in SUBSET r PROVE SetTotal(u, f) = jt[u]
      <4> DEFINE cut == [v \in SUBSET u |-> jt[v]]
      <4>1. u \subseteq s \ {x} /\ IsFiniteSet(s \ {x})
        BY <3>2, FS_Subset
      <4>2. Sums(cut, u, f)
        <5>1. ASSUME NEW v \in SUBSET u
              PROVE  cut[v] = IF v = {} THEN 0 ELSE f[First(v)] + cut[v \ {First(v)}]
          <6>1. v \in SUBSET (s \ {x}) /\ v \ {First(v)} \in SUBSET u
            BY <4>1
          <6>2. jt[v] = IF v = {} THEN 0 ELSE f[First(v)] + jt[v \ {First(v)}]
            BY <3>4, <6>1 DEF Sums
          <6> QED BY <6>1, <6>2
        <5>2. cut = [v \in SUBSET u |-> cut[v]]
          OBVIOUS
        <5> HIDE DEF cut
        <5> QED BY <5>1, <5>2 DEF Sums
      <4>3. PICK kt : kt = (CHOOSE it : Sums(it, u, f)) /\ Sums(kt, u, f)
        BY <4>2
      <4> HIDE DEF cut
      <4>4. \A v \in SUBSET u : jt[v] = kt[v]
        BY <3>4, <4>1, <4>3, SumsAgree
      <4> QED BY <4>3, <4>4 DEF SetTotal
    <3>6. jt[r] = f[First(r)] + jt[r \ {First(r)}]
      <4>1. r \in SUBSET (s \ {x})
        BY <3>2
      <4> QED BY <3>1, <3>4, <4>1 DEF Sums
    <3> QED BY <3>5, <3>6
  <2>2. ASSUME NEW r \in SUBSET s, r # {}
        PROVE  /\ r \ {First(r)} \in SUBSET s
               /\ SetTotal(r \ {First(r)}, f) = new[r \ {First(r)}]
    <3>1. First(r) \in r /\ r \ {First(r)} # s /\ r \ {First(r)} \in SUBSET s
      BY <2>2 DEF First
    <3>2. SetTotal({}, f) = 0
      <4> DEFINE none == [v \in SUBSET {} |-> 0]
      <4>1. Sums(none, {}, f)
        BY DEF Sums
      <4>2. PICK kt : kt = (CHOOSE it : Sums(it, {}, f)) /\ Sums(kt, {}, f)
        BY <4>1
      <4> QED BY <4>2 DEF SetTotal, Sums
    <3> QED BY <2>1, <3>1, <3>2
  <2>3. Sums(new, s, f)
    BY <2>2 DEF Sums
  <2> QED BY <2>3
<1>2. \A s \in SUBSET S : s \in P
  <2> HIDE DEF P
  <2> QED BY <1>1, FiniteInduction
<1> QED BY <1>2

\* A sum takes First last; all the sums of subsets fit together.
LEMMA SumUnfolds ==
  ASSUME NEW S, IsFiniteSet(S), NEW f
  PROVE  /\ SetTotal({}, f) = 0
         /\ \A s \in SUBSET S : s # {} => SetTotal(s, f) = f[First(s)] + SetTotal(s \ {First(s)}, f)
<1>1. PICK it : it = (CHOOSE g : Sums(g, S, f)) /\ Sums(it, S, f)
  BY SumsExist
<1>2. ASSUME NEW s \in SUBSET S PROVE SetTotal(s, f) = it[s]
  <2>1. PICK jt : jt = (CHOOSE g : Sums(g, s, f)) /\ Sums(jt, s, f)
    BY SumsExist, FS_Subset
  <2>2. s \subseteq S
    OBVIOUS
  <2>3. \A v \in SUBSET s : it[v] = jt[v]
    <3>1. Sums(it, S, f) /\ Sums(jt, s, f) /\ IsFiniteSet(S)
      BY <1>1, <2>1
    <3> QED BY <2>2, <3>1, SumsAgree, Z3
  <2> QED BY <2>1, <2>3 DEF SetTotal
<1>3. \A s \in SUBSET S : it[s] = IF s = {} THEN 0 ELSE f[First(s)] + it[s \ {First(s)}]
  BY <1>1 DEF Sums
<1> QED BY <1>2, <1>3

LEMMA SetSumIsInt ==
  ASSUME NEW S, IsFiniteSet(S), NEW f, \A x \in S : f[x] \in Int
  PROVE  \A s \in SUBSET S : SetTotal(s, f) \in Int
<1> DEFINE P == {s \in SUBSET S : SetTotal(s, f) \in Int}
<1>1. ASSUME NEW s \in SUBSET S, \A x \in s : s \ {x} \in P PROVE s \in P
  <2>1. CASE s = {}
    BY <2>1, SumUnfolds
  <2>2. CASE s # {}
    <3>1. PICK c \in s : c = First(s)
      BY <2>2 DEF First
    <3>2. SetTotal(s, f) = f[c] + SetTotal(s \ {c}, f)
      BY <2>2, <3>1, SumUnfolds
    <3>3. f[c] \in Int /\ SetTotal(s \ {c}, f) \in Int
      BY <1>1, <3>1
    <3> QED BY <3>2, <3>3
  <2> QED BY <2>1, <2>2
<1>2. \A s \in SUBSET S : s \in P
  <2> HIDE DEF P
  <2> QED BY <1>1, FiniteInduction
<1> QED BY <1>2

\* Any element may be taken last.
LEMMA SumTakes ==
  ASSUME NEW S, IsFiniteSet(S), NEW f, \A x \in S : f[x] \in Int
  PROVE  \A s \in SUBSET S : \A y \in s : SetTotal(s, f) = f[y] + SetTotal(s \ {y}, f)
<1> DEFINE P == {s \in SUBSET S : \A y \in s : SetTotal(s, f) = f[y] + SetTotal(s \ {y}, f)}
<1>1. ASSUME NEW s \in SUBSET S, \A x \in s : s \ {x} \in P PROVE s \in P
  <2>1. SUFFICES ASSUME NEW y \in s PROVE SetTotal(s, f) = f[y] + SetTotal(s \ {y}, f)
    OBVIOUS
  <2>2. PICK c \in s : c = First(s)
    BY <2>1 DEF First
  <2>3. SetTotal(s, f) = f[c] + SetTotal(s \ {c}, f)
    BY <2>1, <2>2, SumUnfolds
  <2>4. CASE y = c
    BY <2>3, <2>4
  <2>5. CASE y # c
    <3>1. y \in s \ {c} /\ c \in s \ {y} /\ (s \ {c}) \ {y} = (s \ {y}) \ {c}
      BY <2>1, <2>2, <2>5
    <3>2. SetTotal(s \ {c}, f) = f[y] + SetTotal((s \ {c}) \ {y}, f)
      BY <1>1, <3>1
    <3>3. SetTotal(s \ {y}, f) = f[c] + SetTotal((s \ {y}) \ {c}, f)
      BY <1>1, <3>1
    <3>4. SetTotal((s \ {y}) \ {c}, f) \in Int /\ f[c] \in Int /\ f[y] \in Int
      <4>1. (s \ {y}) \ {c} \in SUBSET S
        OBVIOUS
      <4> QED BY <4>1, <2>1, <2>2, SetSumIsInt
    <3>5. SetTotal(s, f) = f[c] + (f[y] + SetTotal((s \ {y}) \ {c}, f))
      BY <2>3, <3>1, <3>2
    <3> HIDE DEF P
    <3> QED BY <3>3, <3>4, <3>5
  <2> QED BY <2>4, <2>5
<1>2. \A s \in SUBSET S : s \in P
  <2> HIDE DEF P
  <2> QED BY <1>1, FiniteInduction
<1> QED BY <1>2

\* A sum of a linear combination is the combination of the sums.
LEMMA SumIsLinear ==
  ASSUME NEW S, IsFiniteSet(S), NEW f, NEW g, NEW h, NEW a \in Int, NEW b \in Int,
         \A x \in S : f[x] \in Int /\ g[x] \in Int /\ h[x] = a * f[x] + b * g[x]
  PROVE  SetTotal(S, h) = a * SetTotal(S, f) + b * SetTotal(S, g)
<1> DEFINE P == {s \in SUBSET S : SetTotal(s, h) = a * SetTotal(s, f) + b * SetTotal(s, g)}
<1>1. ASSUME NEW s \in SUBSET S, \A x \in s : s \ {x} \in P PROVE s \in P
  <2>1. CASE s = {}
    BY <2>1, SumUnfolds
  <2>2. CASE s # {}
    <3>1. PICK c \in s : c = First(s)
      BY <2>2 DEF First
    <3>2. PICK F, G, H : /\ F = SetTotal(s \ {c}, f) /\ G = SetTotal(s \ {c}, g)
                         /\ H = SetTotal(s \ {c}, h)
      OBVIOUS
    <3>3. /\ SetTotal(s, f) = f[c] + F /\ SetTotal(s, g) = g[c] + G
          /\ SetTotal(s, h) = h[c] + H
      BY <2>2, <3>1, <3>2, SumUnfolds
    <3>4. F \in Int /\ G \in Int /\ f[c] \in Int /\ g[c] \in Int
      BY <3>1, <3>2, SetSumIsInt
    <3>5. H = a * F + b * G /\ h[c] = a * f[c] + b * g[c]
      BY <1>1, <3>1, <3>2
    <3>6. a * (f[c] + F) + b * (g[c] + G) = (a * f[c] + b * g[c]) + (a * F + b * G)
      <4>1. a * (f[c] + F) = a * f[c] + a * F /\ b * (g[c] + G) = b * g[c] + b * G
        BY <3>4
      <4>2. a * f[c] \in Int /\ a * F \in Int /\ b * g[c] \in Int /\ b * G \in Int
        BY <3>4
      <4> QED BY <4>1, <4>2
    <3> QED BY <3>3, <3>5, <3>6
  <2> QED BY <2>1, <2>2
<1>2. \A s \in SUBSET S : s \in P
  <2> HIDE DEF P
  <2> QED BY <1>1, FiniteInduction
<1> QED BY <1>2

\* h is f and g together.
Adds(h, f, g, S) == \A x \in S : f[x] \in Int /\ g[x] \in Int /\ h[x] = f[x] + g[x]

LEMMA SumsAdd ==
  ASSUME NEW S, IsFiniteSet(S), NEW f, NEW g, NEW h, Adds(h, f, g, S)
  PROVE  SetTotal(S, h) = SetTotal(S, f) + SetTotal(S, g)
<1>1. PICK a \in Int, b \in Int : a = 1 /\ b = 1
  OBVIOUS
<1>2. \A x \in S : f[x] \in Int /\ g[x] \in Int /\ h[x] = a * f[x] + b * g[x]
  BY <1>1 DEF Adds
<1>3. SetTotal(S, h) = a * SetTotal(S, f) + b * SetTotal(S, g)
  <2> HIDE <1>1
  <2> QED BY <1>2, SumIsLinear
<1>4. SetTotal(S, f) \in Int /\ SetTotal(S, g) \in Int
  BY <1>2, SetSumIsInt
<1> QED BY <1>1, <1>3, <1>4

\* A sum of terms that are not negative, or all positive.
LEMMA SumKeepsSign ==
  ASSUME NEW S, IsFiniteSet(S), NEW f, \A x \in S : f[x] \in Int /\ f[x] >= 0
  PROVE  /\ SetTotal(S, f) >= 0
         /\ S # {} /\ (\A x \in S : f[x] > 0) => SetTotal(S, f) > 0
<1> DEFINE P == {s \in SUBSET S : SetTotal(s, f) >= 0 /\ (s # {} /\ (\A x \in S : f[x] > 0) => SetTotal(s, f) > 0)}
<1>1. ASSUME NEW s \in SUBSET S, \A x \in s : s \ {x} \in P PROVE s \in P
  <2>1. CASE s = {}
    BY <2>1, SumUnfolds
  <2>2. CASE s # {}
    <3>1. PICK c \in s : c = First(s)
      BY <2>2 DEF First
    <3>2. SetTotal(s, f) = f[c] + SetTotal(s \ {c}, f)
      BY <2>2, <3>1, SumUnfolds
    <3>3. SetTotal(s \ {c}, f) \in Int /\ SetTotal(s \ {c}, f) >= 0 /\ f[c] \in Int
      BY <1>1, <3>1, SetSumIsInt
    <3> QED BY <3>2, <3>3
  <2> QED BY <2>1, <2>2
<1>2. \A s \in SUBSET S : s \in P
  <2> HIDE DEF P
  <2> QED BY <1>1, FiniteInduction
<1> QED BY <1>2

\* What a function makes of a finite set is finite.
LEMMA ImageIsFinite ==
  ASSUME NEW I, IsFiniteSet(I), NEW f
  PROVE  IsFiniteSet({f[i] : i \in I})
<1> DEFINE Image(s) == {f[i] : i \in s}
           P == {s \in SUBSET I : IsFiniteSet(Image(s))}
<1>1. ASSUME NEW s \in SUBSET I, \A x \in s : s \ {x} \in P PROVE s \in P
  <2>1. CASE s = {}
    <3>1. Image(s) = {}
      BY <2>1
    <3> QED BY <3>1, FS_EmptySet
  <2>2. CASE s # {}
    <3>1. PICK c \in s : TRUE
      BY <2>2
    <3>2. Image(s) = Image(s \ {c}) \cup {f[c]}
      BY <3>1
    <3>3. IsFiniteSet(Image(s \ {c}))
      BY <1>1, <3>1
    <3> HIDE DEF Image
    <3>4. IsFiniteSet(Image(s \ {c}) \cup {f[c]})
      BY <3>3, FS_AddElement
    <3> QED BY <3>2, <3>4
  <2> QED BY <2>1, <2>2
<1>2. \A s \in SUBSET I : s \in P
  <2> HIDE DEF P
  <2> QED BY <1>1, FiniteInduction
<1> QED BY <1>2

\* Two disjoint sets have their sums together.
LEMMA SumOfUnion ==
  ASSUME NEW A, IsFiniteSet(A), NEW B, IsFiniteSet(B), A \cap B = {},
         NEW f, \A x \in A \cup B : f[x] \in Int
  PROVE  SetTotal(A \cup B, f) = SetTotal(A, f) + SetTotal(B, f)
<1> DEFINE P == {s \in SUBSET B : SetTotal(A \cup s, f) = SetTotal(A, f) + SetTotal(s, f)}
<1>0. IsFiniteSet(A \cup B) /\ SetTotal(A, f) \in Int
  BY FS_Union, SetSumIsInt
<1>1. ASSUME NEW s \in SUBSET B, \A x \in s : s \ {x} \in P PROVE s \in P
  <2>1. CASE s = {}
    <3>1. A \cup s = A
      BY <2>1
    <3> QED BY <1>0, <2>1, <3>1, SumUnfolds
  <2>2. CASE s # {}
    <3>1. PICK c \in s : TRUE
      BY <2>2
    <3>2. c \in A \cup s /\ (A \cup s) \ {c} = A \cup (s \ {c}) /\ A \cup s \in SUBSET (A \cup B)
      BY <3>1
    <3>3. SetTotal(A \cup s, f) = f[c] + SetTotal((A \cup s) \ {c}, f)
      BY <1>0, <3>2, SumTakes
    <3>4. SetTotal(s, f) = f[c] + SetTotal(s \ {c}, f)
      BY <3>1, SumTakes
    <3>5. SetTotal(A \cup (s \ {c}), f) = SetTotal(A, f) + SetTotal(s \ {c}, f)
      BY <1>1, <3>1
    <3>6. f[c] \in Int /\ SetTotal(s \ {c}, f) \in Int
      BY <3>1, SetSumIsInt
    <3>7. SetTotal(A \cup s, f) = f[c] + (SetTotal(A, f) + SetTotal(s \ {c}, f))
      BY <3>2, <3>3, <3>5
    <3>8. SetTotal(A \cup s, f) = SetTotal(A, f) + SetTotal(s, f)
      <4> HIDE DEF P
      <4> QED BY <1>0, <3>4, <3>6, <3>7
    <3> QED BY <3>8
  <2> QED BY <2>1, <2>2
<1>2. \A s \in SUBSET B : s \in P
  <2> HIDE DEF P
  <2> QED BY <1>1, FiniteInduction
<1> QED BY <1>2

\* net sums up g by the groups that m makes of I.
Groups(net, E, m, I, g) == \A e \in E : net[e] = SetTotal({i \in I : m[i] = e}, g)

\* A sum may be taken group by group.
LEMMA SumByGroups ==
  ASSUME NEW I, IsFiniteSet(I), NEW E, IsFiniteSet(E), NEW m, \A i \in I : m[i] \in E,
         NEW g, \A i \in I : g[i] \in Int,
         NEW net, Groups(net, E, m, I, g)
  PROVE  SetTotal(E, net) = SetTotal(I, g)
<1> DEFINE In(s) == {i \in I : m[i] \in s}
           P == {s \in SUBSET E : SetTotal(s, net) = SetTotal(In(s), g)}
<1>1. ASSUME NEW s \in SUBSET E, \A x \in s : s \ {x} \in P PROVE s \in P
  <2>1. CASE s = {}
    <3>1. In(s) = {}
      BY <2>1
    <3> QED BY <2>1, <3>1, SumUnfolds
  <2>2. CASE s # {}
    <3>1. PICK c \in s : TRUE
      BY <2>2
    <3>2. PICK A, B : A = {i \in I : m[i] = c} /\ B = In(s \ {c})
      OBVIOUS
    <3>3. A \cup B = In(s) /\ A \cap B = {} /\ A \in SUBSET I /\ B \in SUBSET I
      BY <3>1, <3>2
    <3>4. IsFiniteSet(A) /\ IsFiniteSet(B)
      BY <3>3, FS_Subset
    <3>5. SetTotal(A \cup B, g) = SetTotal(A, g) + SetTotal(B, g)
      BY <3>3, <3>4, SumOfUnion
    <3>6. \A e \in E : net[e] \in Int
      <4>1. ASSUME NEW e \in E PROVE net[e] \in Int
        <5>1. PICK J \in SUBSET I : J = {i \in I : m[i] = e}
          OBVIOUS
        <5>2. SetTotal(J, g) \in Int
          BY SetSumIsInt
        <5> QED BY <5>1, <5>2 DEF Groups
      <4> QED BY <4>1
    <3>7. SetTotal(s, net) = net[c] + SetTotal(s \ {c}, net)
      BY <3>1, <3>6, SumTakes
    <3>8. net[c] = SetTotal(A, g) /\ SetTotal(s \ {c}, net) = SetTotal(B, g)
      BY <1>1, <3>1, <3>2 DEF Groups
    <3> QED BY <3>3, <3>5, <3>7, <3>8
  <2> QED BY <2>1, <2>2
<1>2. \A s \in SUBSET E : s \in P
  <2> HIDE DEF P
  <2> QED BY <1>1, FiniteInduction
<1>3. In(E) = I
  OBVIOUS
<1> QED BY <1>2, <1>3

----------------------------------------------------------------------------
(* The sums of the tools. *)

LEMMA NetIsASum ==
  ASSUME NEW q, NEW e, NEW I, I = {i \in DOMAIN q.legs : q.legs[i].entity = e},
         NEW g, \A i \in I : g[i] = IF q.legs[i].direction = "in" THEN normalize_amount(q.legs[i].amount)
                                    ELSE 0 - normalize_amount(q.legs[i].amount)
  PROVE  TransferNet(q, e) = SetTotal(I, g)
<1> DEFINE Term(i) == IF q.legs[i].direction = "in" THEN normalize_amount(q.legs[i].amount)
                      ELSE 0 - normalize_amount(q.legs[i].amount)
           Folds(it) == it = [s \in SUBSET I |->
                                IF s = {} THEN 0 ELSE Term(CHOOSE x \in s : TRUE) + it[s \ {CHOOSE x \in s : TRUE}]]
<1>1. TransferNet(q, e) = (CHOOSE it : Folds(it))[I]
  BY Zenon DEF TransferNet, MapThenSumSet, MapThenFoldSet
<1>2. \A s \in SUBSET I : s # {} => g[First(s)] = Term(First(s))
  BY DEF First
<1> HIDE DEF Term
<1>3. \A it : Folds(it) <=> Sums(it, I, g)
  BY <1>2 DEF Sums, First
<1> HIDE DEF Folds
<1>4. (CHOOSE it : Folds(it)) = (CHOOSE it : Sums(it, I, g))
  BY <1>3
<1> QED BY <1>1, <1>4 DEF SetTotal

LEMMA SummedInputIsASum ==
  ASSUME NEW q, NEW f \in {"liquidity", "minimum_reserve", "volatility_buffer"},
         NEW E, E = DOMAIN q.entities, NEW g, \A e \in E : g[e] = NeutralInputs(q, e)[f]
  PROVE  SummedInputs(q)[f] = SetTotal(E, g)
<1> DEFINE Term(e) == NeutralInputs(q, e)[f]
           Folds(it) == it = [s \in SUBSET E |->
                                IF s = {} THEN 0 ELSE Term(CHOOSE x \in s : TRUE) + it[s \ {CHOOSE x \in s : TRUE}]]
<1>0. SummedInputs(q)[f] = MapThenSumSet(LAMBDA e : NeutralInputs(q, e)[f], DOMAIN q.entities)
  BY Zenon DEF SummedInputs
<1>1. SummedInputs(q)[f] = (CHOOSE it : Folds(it))[E]
  BY <1>0, Zenon DEF MapThenSumSet, MapThenFoldSet
<1>2. \A s \in SUBSET E : s # {} => g[First(s)] = Term(First(s))
  BY DEF First
<1> HIDE DEF Term
<1>3. \A it : Folds(it) <=> Sums(it, E, g)
  BY <1>2 DEF Sums, First
<1> HIDE DEF Folds
<1>4. (CHOOSE it : Folds(it)) = (CHOOSE it : Sums(it, E, g))
  BY <1>3
<1> QED BY <1>1, <1>4 DEF SetTotal

LEMMA OwnLiquidityIsASum ==
  ASSUME NEW entities, NEW E, E = DOMAIN entities,
         NEW g, \A e \in E : g[e] = normalize_amount(entities[e].liquidity)
  PROVE  MapThenSumSet(LAMBDA e : normalize_amount(entities[e].liquidity), DOMAIN entities) = SetTotal(E, g)
<1> DEFINE Term(e) == normalize_amount(entities[e].liquidity)
           Folds(it) == it = [s \in SUBSET E |->
                                IF s = {} THEN 0 ELSE Term(CHOOSE x \in s : TRUE) + it[s \ {CHOOSE x \in s : TRUE}]]
<1>1. MapThenSumSet(LAMBDA e : normalize_amount(entities[e].liquidity), DOMAIN entities)
        = (CHOOSE it : Folds(it))[E]
  BY Zenon DEF MapThenSumSet, MapThenFoldSet
<1>2. \A s \in SUBSET E : s # {} => g[First(s)] = Term(First(s))
  BY DEF First
<1> HIDE DEF Term
<1>3. \A it : Folds(it) <=> Sums(it, E, g)
  BY <1>2 DEF Sums, First
<1> HIDE DEF Folds
<1>4. (CHOOSE it : Folds(it)) = (CHOOSE it : Sums(it, E, g))
  BY <1>3
<1> QED BY <1>1, <1>4 DEF SetTotal

----------------------------------------------------------------------------
(* Transfers between entities. *)

AmountIn(q, i) ==
  IF q.legs[i].direction = "in" THEN normalize_amount(q.legs[i].amount)
  ELSE 0 - normalize_amount(q.legs[i].amount)

\* A question about entities and their transfers, as it is parsed.
IsConsolidation(q) == q \in Questions /\ q.tool = "compute_consolidated_posture"

LEMMA NormalizedIsInt ==
  ASSUME NEW x \in Int
  PROVE  normalize_amount(x) \in Int
<1>1. 10 \in Nat \ {0}
  OBVIOUS
<1> QED BY <1>1, RoundedIsInt DEF normalize_amount, RawPerQuantum

LEMMA AmountsAreInts ==
  ASSUME NEW q, IsConsolidation(q)
  PROVE  /\ IsFiniteSet(DOMAIN q.legs) /\ IsFiniteSet(DOMAIN q.entities) /\ DOMAIN q.entities # {}
         /\ \A i \in DOMAIN q.legs : AmountIn(q, i) \in Int
         /\ \A e \in DOMAIN q.entities :
              \A f \in {"liquidity", "minimum_reserve", "volatility_buffer"} :
                normalize_amount(q.entities[e][f]) \in Int
<1>1. IsFiniteSet(DOMAIN q.legs)
  BY QuestionsAssumption, FS_Interval DEF IsConsolidation
<1>2. ASSUME NEW i \in DOMAIN q.legs PROVE AmountIn(q, i) \in Int
  <2>1. normalize_amount(q.legs[i].amount) \in Int
    BY QuestionsAssumption, NormalizedIsInt DEF IsConsolidation
  <2> QED BY <2>1 DEF AmountIn
<1>3. ASSUME NEW e \in DOMAIN q.entities, NEW f \in {"liquidity", "minimum_reserve", "volatility_buffer"}
      PROVE  normalize_amount(q.entities[e][f]) \in Int
  <2>1. q.entities[e][f] \in Int
    BY QuestionsAssumption DEF IsConsolidation
  <2> QED BY <2>1, NormalizedIsInt
<1> QED BY <1>1, <1>2, <1>3, QuestionsAssumption DEF IsConsolidation

\* The legs of one transfer cancel.
LEMMA LegsCancel ==
  ASSUME NEW q, IsConsolidation(q), TransfersFit(q.legs, DOMAIN q.entities), NEW i \in DOMAIN q.legs,
         NEW g, \A k \in DOMAIN q.legs : g[k] = AmountIn(q, k)
  PROVE  SetTotal({k \in DOMAIN q.legs : q.legs[k].transfer = q.legs[i].transfer}, g) = 0
<1>1. PICK j \in DOMAIN q.legs \ {i} :
        /\ {k \in DOMAIN q.legs : q.legs[k].transfer = q.legs[i].transfer} = {i, j}
        /\ Mirrored(q.legs[i], q.legs[j])
  BY DEF TransfersFit
<1>2. g[i] + g[j] = 0 /\ g[i] \in Int /\ g[j] \in Int
  <2>1. /\ normalize_amount(q.legs[i].amount) = normalize_amount(q.legs[j].amount)
        /\ q.legs[i].direction # q.legs[j].direction
    BY <1>1 DEF Mirrored, SameAmount
  <2>2. /\ q.legs[i].direction \in {"in", "out"} /\ q.legs[j].direction \in {"in", "out"}
        /\ normalize_amount(q.legs[i].amount) \in Int
    BY QuestionsAssumption, NormalizedIsInt DEF IsConsolidation
  <2>3. g[i] = AmountIn(q, i) /\ g[j] = AmountIn(q, j)
    BY <1>1
  <2> HIDE DEF normalize_amount
  <2> QED BY <2>1, <2>2, <2>3 DEF AmountIn
<1>3. PICK S, T : S = {i, j} /\ T = {j}
  OBVIOUS
<1>4. S \ {i} = T /\ T \ {j} = {} /\ j \in T /\ i \in S /\ T \in SUBSET S /\ S \in SUBSET S
  BY <1>1, <1>3
<1>5. IsFiniteSet(S) /\ \A x \in S : g[x] \in Int
  <2>1. IsFiniteSet(DOMAIN q.legs) /\ S \subseteq DOMAIN q.legs
    BY <1>1, <1>3, AmountsAreInts
  <2> QED BY <1>2, <1>3, <2>1, FS_Subset
<1>6. SetTotal(S, g) = g[i] + SetTotal(T, g)
  BY <1>4, <1>5, SumTakes
<1>7. SetTotal(T, g) = g[j] + SetTotal({}, g)
  BY <1>4, <1>5, SumTakes
<1>8. SetTotal({}, g) = 0
  BY <1>5, SumUnfolds
<1>9. {k \in DOMAIN q.legs : q.legs[k].transfer = q.legs[i].transfer} = S
  BY <1>1, <1>3
<1>10. SetTotal(S, g) = 0
  BY <1>2, <1>6, <1>7, <1>8
<1> QED BY <1>9, <1>10

\* What transfers move into the entities sums up to nothing: by entity as by transfer.
LEMMA TransfersCancel ==
  ASSUME NEW q, IsConsolidation(q), TransfersFit(q.legs, DOMAIN q.entities),
         NEW net, \A e \in DOMAIN q.entities : net[e] = TransferNet(q, e)
  PROVE  SetTotal(DOMAIN q.entities, net) = 0
<1>1. PICK I, E : I = DOMAIN q.legs /\ E = DOMAIN q.entities
  OBVIOUS
<1>2. PICK g, m, t, T : /\ g = [i \in I |-> AmountIn(q, i)]
                        /\ m = [i \in I |-> q.legs[i].entity]
                        /\ t = [i \in I |-> q.legs[i].transfer]
                        /\ T = {t[i] : i \in I}
  OBVIOUS
<1>3. IsFiniteSet(I) /\ IsFiniteSet(E) /\ \A i \in I : g[i] \in Int
  BY <1>1, <1>2, AmountsAreInts
<1>4. \A i \in I : m[i] \in E
  BY <1>1, <1>2 DEF TransfersFit
<1>5. ASSUME NEW e \in E PROVE net[e] = SetTotal({i \in I : m[i] = e}, g)
  <2>1. {i \in I : m[i] = e} = {i \in DOMAIN q.legs : q.legs[i].entity = e}
    BY <1>1, <1>2
  <2>2. PICK J : J = {i \in DOMAIN q.legs : q.legs[i].entity = e}
    OBVIOUS
  <2>3. \A i \in J : g[i] = AmountIn(q, i)
    BY <1>1, <1>2, <2>2
  <2>4. TransferNet(q, e) = SetTotal(J, g)
    BY <2>2, <2>3, NetIsASum DEF AmountIn
  <2> QED BY <1>1, <2>1, <2>2, <2>4
<1>6. SetTotal(E, net) = SetTotal(I, g)
  <2>1. Groups(net, E, m, I, g)
    BY <1>5 DEF Groups
  <2> QED BY <1>3, <1>4, <2>1, SumByGroups
<1>7. IsFiniteSet(T)
  BY <1>2, <1>3, ImageIsFinite
<1>8. PICK z : z = [x \in T |-> SetTotal({i \in I : t[i] = x}, g)]
  OBVIOUS
<1>9. ASSUME NEW x \in T PROVE z[x] = 0
  <2>1. PICK i \in I : x = t[i]
    BY <1>2
  <2>2. {k \in I : t[k] = x} = {k \in DOMAIN q.legs : q.legs[k].transfer = q.legs[i].transfer}
    BY <1>1, <1>2, <2>1
  <2>3. SetTotal({k \in DOMAIN q.legs : q.legs[k].transfer = q.legs[i].transfer}, g) = 0
    BY <1>1, <1>2, LegsCancel
  <2> QED BY <1>8, <2>2, <2>3
<1>10. SetTotal(T, z) = SetTotal(I, g)
  <2>1. Groups(z, T, t, I, g) /\ \A i \in I : t[i] \in T
    BY <1>2, <1>8 DEF Groups
  <2> QED BY <1>3, <1>7, <2>1, SumByGroups
<1>11. SetTotal(T, z) = 0
  <2>1. \A x \in T : z[x] \in Int /\ z[x] = 0 * z[x] + 0 * z[x]
    BY <1>9
  <2>2. SetTotal(T, z) = 0 * SetTotal(T, z) + 0 * SetTotal(T, z)
    BY <1>7, <2>1, SumIsLinear
  <2>3. SetTotal(T, z) \in Int
    BY <1>7, <2>1, SetSumIsInt
  <2> QED BY <2>2, <2>3
<1> QED BY <1>1, <1>6, <1>10, <1>11

----------------------------------------------------------------------------
(* The inputs of one entity and of all of them. *)

LEMMA NetIsInt ==
  ASSUME NEW q, IsConsolidation(q), NEW e
  PROVE  TransferNet(q, e) \in Int
<1>1. PICK I : I = {i \in DOMAIN q.legs : q.legs[i].entity = e}
  OBVIOUS
<1>2. PICK g : g = [i \in DOMAIN q.legs |-> AmountIn(q, i)]
  OBVIOUS
<1>3. IsFiniteSet(I) /\ I \in SUBSET I /\ \A i \in I : g[i] \in Int /\ g[i] = AmountIn(q, i)
  BY <1>1, <1>2, AmountsAreInts, FS_Subset
<1>4. TransferNet(q, e) = SetTotal(I, g)
  BY <1>1, <1>3, NetIsASum DEF AmountIn
<1> QED BY <1>3, <1>4, SetSumIsInt

LEMMA NeutralInputsAre ==
  ASSUME NEW q, IsConsolidation(q), NEW e \in DOMAIN q.entities
  PROVE  /\ NeutralInputs(q, e).liquidity
              = normalize_amount(q.entities[e].liquidity) - TransferNet(q, e)
         /\ NeutralInputs(q, e).minimum_reserve = normalize_amount(q.entities[e].minimum_reserve)
         /\ NeutralInputs(q, e).volatility_buffer = normalize_amount(q.entities[e].volatility_buffer)
         /\ \A f \in {"liquidity", "minimum_reserve", "volatility_buffer"} : NeutralInputs(q, e)[f] \in Int
<1>1. DOMAIN q.entities[e] = {"liquidity", "minimum_reserve", "volatility_buffer"}
  BY QuestionsAssumption DEF IsConsolidation
<1>2. TransferNet(q, e) \in Int
  BY NetIsInt
<1>3. \A f \in {"liquidity", "minimum_reserve", "volatility_buffer"} :
         normalize_amount(q.entities[e][f]) \in Int
  BY AmountsAreInts
<1>4. PICK in : in = PostureInputs(q.entities[e])
  OBVIOUS
<1>5. /\ DOMAIN in = {"liquidity", "minimum_reserve", "volatility_buffer"}
      /\ in.liquidity = normalize_amount(q.entities[e].liquidity)
      /\ in.minimum_reserve = normalize_amount(q.entities[e].minimum_reserve)
      /\ in.volatility_buffer = normalize_amount(q.entities[e].volatility_buffer)
      /\ in = [f \in DOMAIN in |-> in[f]]
  BY <1>1, <1>4 DEF PostureInputs
<1>6. NeutralInputs(q, e) = [in EXCEPT !.liquidity = in.liquidity - TransferNet(q, e)]
  BY <1>4 DEF NeutralInputs
<1> HIDE DEF normalize_amount
<1>7. /\ NeutralInputs(q, e).liquidity = in.liquidity - TransferNet(q, e)
      /\ NeutralInputs(q, e).minimum_reserve = in.minimum_reserve
      /\ NeutralInputs(q, e).volatility_buffer = in.volatility_buffer
  BY <1>5, <1>6
<1> QED BY <1>2, <1>3, <1>5, <1>7

\* The liquidity of all the entities together is the sum of their own.
LEMMA LiquidityIsNeutral ==
  ASSUME NEW q, IsConsolidation(q), TransfersFit(q.legs, DOMAIN q.entities)
  PROVE  SummedInputs(q).liquidity
           = MapThenSumSet(LAMBDA e : normalize_amount(q.entities[e].liquidity), DOMAIN q.entities)
<1>1. PICK E : E = DOMAIN q.entities
  OBVIOUS
<1>2. PICK own, net, neutral :
        /\ own = [e \in E |-> normalize_amount(q.entities[e].liquidity)]
        /\ net = [e \in E |-> TransferNet(q, e)]
        /\ neutral = [e \in E |-> NeutralInputs(q, e).liquidity]
  OBVIOUS
<1>3. IsFiniteSet(E)
  BY <1>1, AmountsAreInts
<1>4. \A e \in E : own[e] \in Int /\ net[e] \in Int /\ neutral[e] = 1 * own[e] + (-1) * net[e]
  <2>1. SUFFICES ASSUME NEW e \in E
                 PROVE  own[e] \in Int /\ net[e] \in Int /\ neutral[e] = 1 * own[e] + (-1) * net[e]
    OBVIOUS
  <2>2. normalize_amount(q.entities[e].liquidity) \in Int
    BY <1>1, AmountsAreInts
  <2>3. TransferNet(q, e) \in Int
    BY NetIsInt
  <2>4. neutral[e] = own[e] - net[e]
    BY <1>1, <1>2, NeutralInputsAre
  <2> HIDE DEF normalize_amount
  <2> QED BY <1>2, <2>2, <2>3, <2>4
<1>5. SetTotal(E, neutral) = 1 * SetTotal(E, own) + (-1) * SetTotal(E, net)
  <2>1. \A e \in E : neutral[e] \in Int
    BY <1>4
  <2> QED BY <1>3, <1>4, <2>1, SumIsLinear
<1>6. SetTotal(E, net) = 0
  <2>1. \A e \in DOMAIN q.entities : net[e] = TransferNet(q, e)
    BY <1>1, <1>2
  <2> QED BY <1>1, <2>1, TransfersCancel
<1>7. SetTotal(E, own) \in Int
  <2>1. E \in SUBSET E
    OBVIOUS
  <2> QED BY <1>3, <1>4, <2>1, SetSumIsInt
<1>8. SummedInputs(q).liquidity = SetTotal(E, neutral)
  BY <1>1, <1>2, SummedInputIsASum
<1>9. MapThenSumSet(LAMBDA e : normalize_amount(q.entities[e].liquidity), DOMAIN q.entities)
        = SetTotal(E, own)
  <2>1. \A e \in E : own[e] = normalize_amount(q.entities[e].liquidity)
    BY <1>2
  <2> QED BY <1>1, <2>1, OwnLiquidityIsASum
<1>10. SetTotal(E, neutral) = SetTotal(E, own)
  BY <1>5, <1>6, <1>7
<1> QED BY <1>8, <1>9, <1>10

----------------------------------------------------------------------------
(* Risk bands. *)

\* How many of three steps a number reaches.
LEMMA StepsReached ==
  ASSUME NEW a \in Int, NEW b \in Int, NEW c \in Int, a < b, b < c, NEW r \in Int
  PROVE  Cardinality({t \in {a, b, c} : r >= t}) = IF r >= c THEN 3 ELSE IF r >= b THEN 2 ELSE IF r >= a THEN 1 ELSE 0
<1>1. PICK T : T = {t \in {a, b, c} : r >= t}
  OBVIOUS
<1>2. IsFiniteSet({a}) /\ Cardinality({a}) = 1 /\ IsFiniteSet({}) /\ Cardinality({}) = 0
  BY FS_Singleton, FS_EmptySet
<1>3. IsFiniteSet({a, b}) /\ Cardinality({a, b}) = 2
  <2>1. {a} \cup {b} = {a, b} /\ b \notin {a}
    OBVIOUS
  <2>2. IsFiniteSet({a} \cup {b}) /\ Cardinality({a} \cup {b}) = 1 + 1
    BY <1>2, <2>1, FS_AddElement
  <2> QED BY <2>1, <2>2
<1>4. IsFiniteSet({a, b, c}) /\ Cardinality({a, b, c}) = 3
  <2>1. {a, b} \cup {c} = {a, b, c} /\ c \notin {a, b}
    OBVIOUS
  <2>2. IsFiniteSet({a, b} \cup {c}) /\ Cardinality({a, b} \cup {c}) = 2 + 1
    BY <1>3, <2>1, FS_AddElement
  <2> QED BY <2>1, <2>2
<1>5. CASE r >= c
  <2>1. T = {a, b, c}
    BY <1>1, <1>5
  <2> QED BY <1>1, <1>4, <1>5, <2>1
<1>6. CASE r < c /\ r >= b
  <2>1. T = {a, b}
    BY <1>1, <1>6
  <2> QED BY <1>1, <1>3, <1>6, <2>1
<1>7. CASE r < b /\ r >= a
  <2>1. T = {a}
    BY <1>1, <1>7
  <2> QED BY <1>1, <1>2, <1>7, <2>1
<1>8. CASE r < a
  <2>1. T = {}
    BY <1>1, <1>8
  <2> QED BY <1>1, <1>2, <1>8, <2>1
<1> QED BY <1>5, <1>6, <1>7, <1>8

LEMMA BandSteps ==
  ASSUME NEW r \in Int
  PROVE  RiskBand(r) = IF r >= 15000 THEN 3 ELSE IF r >= 10000 THEN 2 ELSE IF r >= 5000 THEN 1 ELSE 0
<1>1. PICK a, b, c \in Int : a = 5000 /\ b = 10000 /\ c = 15000
  OBVIOUS
<1>2. RiskBand(r) = Cardinality({t \in {a, b, c} : r >= t})
  BY <1>1 DEF RiskBand
<1>3. Cardinality({t \in {a, b, c} : r >= t})
        = IF r >= c THEN 3 ELSE IF r >= b THEN 2 ELSE IF r >= a THEN 1 ELSE 0
  BY <1>1, StepsReached
<1> QED BY <1>1, <1>2, <1>3

\* A rounded ratio reaches an even threshold from half a quantum below it on, ties included.
LEMMA Reaches ==
  ASSUME NEW t \in Int, t % 2 = 0, NEW x \in Int, NEW d \in Nat \ {0}
  PROVE  RoundHalfEven(x, d) >= t <=> 2 * x >= 2 * (t * d) - d
<1>1. PICK q \in Int, r \in Int : /\ q = x \div d /\ r = x % d
                                  /\ x = d * q + r /\ 0 <= r /\ r < d
  BY Division
<1>2. RoundHalfEven(x, d) = IF 2 * r < d \/ (2 * r = d /\ q % 2 = 0) THEN q ELSE q + 1
  BY <1>1 DEF RoundHalfEven
<1>3. CASE q >= t
  <2>1. d * q = t * d + d * (q - t) /\ d * (q - t) >= 0
    BY <1>3
  <2> QED BY <1>1, <1>2, <1>3, <2>1
<1>4. CASE q = t - 1
  <2>1. q % 2 = 1
    BY <1>4
  <2>2. d * q = t * d - d
    BY <1>4
  <2>3. RoundHalfEven(x, d) = IF 2 * r < d THEN q ELSE q + 1
    BY <1>2, <2>1
  <2> QED BY <1>1, <1>4, <2>2, <2>3
<1>5. CASE q < t - 1
  <2>1. d * q = t * d - d * (t - q) /\ d * (t - q) >= 2 * d
    <3>1. d * (t - q) = 2 * d + d * ((t - q) - 2) /\ d * ((t - q) - 2) >= 0
      BY <1>5
    <3> QED BY <3>1
  <2>2. t * d \in Int
    OBVIOUS
  <2> QED BY <1>1, <1>2, <1>5, <2>1, <2>2
<1> QED BY <1>3, <1>4, <1>5

Inputs == {"liquidity", "minimum_reserve", "volatility_buffer"}
Thresholds == {5000, 10000, 15000}

\* What a band compares: positive or zero as far as liquidity reaches a threshold of the target.
Excess(in, t) == 20000 * in.liquidity - (2 * t - 1) * ReserveTarget(in)

LEMMA RatioReaches ==
  ASSUME NEW in, \A f \in Inputs : in[f] \in Int, ReserveTarget(in) > 0, NEW t \in Thresholds
  PROVE  ReserveRatio(in) >= t <=> Excess(in, t) >= 0
<1>1. PICK l \in Int, d \in Int : l = in.liquidity /\ d = ReserveTarget(in)
  BY DEF Inputs, ReserveTarget
<1>2. d \in Nat \ {0} /\ l * One \in Int /\ t \in Int /\ t % 2 = 0
  BY <1>1 DEF Thresholds, One
<1>3. ReserveRatio(in) = RoundHalfEven(l * One, d)
  BY <1>1, <1>2 DEF ReserveRatio
<1>4. RoundHalfEven(l * One, d) >= t <=> 2 * (l * One) >= 2 * (t * d) - d
  BY <1>2, Reaches
<1>5. Excess(in, t) = 20000 * l - (2 * t - 1) * d
  BY <1>1 DEF Excess
<1>6. 2 * (l * One) = 20000 * l /\ (2 * t - 1) * d = 2 * (t * d) - d /\ t * d \in Int
  BY <1>1, <1>2 DEF One, Thresholds
<1> QED BY <1>3, <1>4, <1>5, <1>6

LEMMA RatioIsInt ==
  ASSUME NEW in, \A f \in Inputs : in[f] \in Int, ReserveTarget(in) >= 0
  PROVE  ReserveRatio(in) \in Int
<1>1. PICK l \in Int, d \in Int : l = in.liquidity /\ d = ReserveTarget(in)
  BY DEF Inputs, ReserveTarget
<1>2. CASE d = 0
  BY <1>1, <1>2 DEF ReserveRatio
<1>3. CASE d # 0
  <2>1. d \in Nat \ {0} /\ l * One \in Int
    BY <1>1, <1>3 DEF One
  <2>2. RoundHalfEven(l * One, d) \in Int
    BY <2>1, RoundedIsInt
  <2> QED BY <1>1, <1>3, <2>2 DEF ReserveRatio
<1> QED BY <1>2, <1>3

\* The target and the excess of the whole are the sums of those of the parts.
LEMMA WholeIsSummed ==
  ASSUME NEW q, IsConsolidation(q)
  PROVE  /\ \A f \in Inputs : SummedInputs(q)[f] \in Int
         /\ \A target : (\A e \in DOMAIN q.entities : target[e] = ReserveTarget(NeutralInputs(q, e)))
              => ReserveTarget(SummedInputs(q)) = SetTotal(DOMAIN q.entities, target)
         /\ \A t \in Thresholds : \A excess :
              (\A e \in DOMAIN q.entities : excess[e] = Excess(NeutralInputs(q, e), t))
              => Excess(SummedInputs(q), t) = SetTotal(DOMAIN q.entities, excess)
<1>1. PICK E : E = DOMAIN q.entities
  OBVIOUS
<1>2. PICK liquidity, reserve, buffer, whole :
        /\ liquidity = [e \in E |-> NeutralInputs(q, e).liquidity]
        /\ reserve = [e \in E |-> NeutralInputs(q, e).minimum_reserve]
        /\ buffer = [e \in E |-> NeutralInputs(q, e).volatility_buffer]
        /\ whole = SummedInputs(q)
  OBVIOUS
<1>3. \A e \in E : liquidity[e] \in Int /\ reserve[e] \in Int /\ buffer[e] \in Int
  BY <1>1, <1>2, NeutralInputsAre
<1>4. IsFiniteSet(E) /\ E \in SUBSET E
  BY <1>1, AmountsAreInts
<1>5. /\ whole.liquidity = SetTotal(E, liquidity)
      /\ whole.minimum_reserve = SetTotal(E, reserve)
      /\ whole.volatility_buffer = SetTotal(E, buffer)
  <2>1. whole.liquidity = SetTotal(E, liquidity)
    BY <1>1, <1>2, SummedInputIsASum
  <2>2. whole.minimum_reserve = SetTotal(E, reserve)
    BY <1>1, <1>2, SummedInputIsASum
  <2>3. whole.volatility_buffer = SetTotal(E, buffer)
    BY <1>1, <1>2, SummedInputIsASum
  <2> QED BY <2>1, <2>2, <2>3
<1>6. whole.liquidity \in Int /\ whole.minimum_reserve \in Int /\ whole.volatility_buffer \in Int
  <2>1. SetTotal(E, liquidity) \in Int
    BY <1>3, <1>4, SetSumIsInt
  <2>2. SetTotal(E, reserve) \in Int
    BY <1>3, <1>4, SetSumIsInt
  <2>3. SetTotal(E, buffer) \in Int
    BY <1>3, <1>4, SetSumIsInt
  <2> QED BY <1>5, <2>1, <2>2, <2>3
<1>7. ASSUME NEW target, \A e \in E : target[e] = ReserveTarget(NeutralInputs(q, e))
      PROVE  SetTotal(E, target) = ReserveTarget(whole) /\ \A e \in E : target[e] \in Int
  <2>1. \A e \in E : target[e] = reserve[e] + buffer[e]
    BY <1>2, <1>7 DEF ReserveTarget
  <2>2. PICK a \in Int : a = 1
    OBVIOUS
  <2>3. \A e \in E : target[e] \in Int /\ target[e] = a * reserve[e] + a * buffer[e]
    BY <1>3, <2>1, <2>2
  <2>4. SetTotal(E, target) = a * SetTotal(E, reserve) + a * SetTotal(E, buffer)
    BY <1>3, <1>4, <2>3, SumIsLinear
  <2> QED BY <1>5, <1>6, <2>2, <2>3, <2>4 DEF ReserveTarget
<1>8. ASSUME NEW t \in Thresholds, NEW excess, \A e \in E : excess[e] = Excess(NeutralInputs(q, e), t)
      PROVE  SetTotal(E, excess) = Excess(whole, t)
  <2>1. PICK target : target = [e \in E |-> ReserveTarget(NeutralInputs(q, e))]
    OBVIOUS
  <2>2. PICK b \in Int : b = 0 - (2 * t - 1)
    BY DEF Thresholds
  <2>3. SetTotal(E, target) = ReserveTarget(whole) /\ \A e \in E : target[e] \in Int
    BY <1>7, <2>1
  <2>4. \A e \in E : excess[e] \in Int /\ excess[e] = 20000 * liquidity[e] + b * target[e]
    <3>1. SUFFICES ASSUME NEW e \in E
                   PROVE  excess[e] \in Int /\ excess[e] = 20000 * liquidity[e] + b * target[e]
      OBVIOUS
    <3>2. excess[e] = 20000 * liquidity[e] - (2 * t - 1) * target[e]
      BY <1>2, <1>8, <2>1 DEF Excess
    <3>3. liquidity[e] \in Int /\ target[e] \in Int /\ t \in Int
      BY <1>3, <2>3 DEF Thresholds
    <3> QED BY <2>2, <3>2, <3>3
  <2>5. SetTotal(E, excess) = 20000 * SetTotal(E, liquidity) + b * SetTotal(E, target)
    BY <1>3, <1>4, <2>3, <2>4, SumIsLinear
  <2>6. ReserveTarget(whole) \in Int /\ t \in Int
    BY <1>6 DEF ReserveTarget, Thresholds
  <2> QED BY <1>5, <1>6, <2>2, <2>3, <2>5, <2>6 DEF Excess
<1>9. \A f \in Inputs : SummedInputs(q)[f] \in Int
  BY <1>2, <1>6 DEF Inputs
<1> QED BY <1>1, <1>2, <1>7, <1>8, <1>9

\* Some entity reaches a threshold that the whole reaches, and some entity misses one that it misses.
LEMMA SomePartAgrees ==
  ASSUME NEW q, IsConsolidation(q),
         \A e \in DOMAIN q.entities : ReserveTarget(NeutralInputs(q, e)) > 0
  PROVE  /\ ReserveTarget(SummedInputs(q)) > 0
         /\ \A t \in Thresholds :
              /\ ReserveRatio(SummedInputs(q)) >= t
                   => \E e \in DOMAIN q.entities : ReserveRatio(NeutralInputs(q, e)) >= t
              /\ ~(ReserveRatio(SummedInputs(q)) >= t)
                   => \E e \in DOMAIN q.entities : ~(ReserveRatio(NeutralInputs(q, e)) >= t)
<1>1. PICK E, whole : E = DOMAIN q.entities /\ whole = SummedInputs(q)
  OBVIOUS
<1>2. IsFiniteSet(E) /\ E # {} /\ E \in SUBSET E
  BY <1>1, AmountsAreInts
<1>3. \A e \in E : \A f \in Inputs : NeutralInputs(q, e)[f] \in Int
  BY <1>1, NeutralInputsAre DEF Inputs
<1>4. \A f \in Inputs : whole[f] \in Int
  BY <1>1, WholeIsSummed
<1>5. ReserveTarget(whole) > 0
  <2>1. PICK target : target = [e \in E |-> ReserveTarget(NeutralInputs(q, e))]
    OBVIOUS
  <2>2. ReserveTarget(whole) = SetTotal(E, target)
    BY <1>1, <2>1, WholeIsSummed
  <2>3. \A e \in E : target[e] \in Int /\ target[e] >= 0 /\ target[e] > 0
    BY <1>1, <1>3, <2>1 DEF ReserveTarget, Inputs
  <2>4. SetTotal(E, target) > 0
    BY <1>2, <2>3, SumKeepsSign
  <2> QED BY <2>2, <2>4
<1>6. ASSUME NEW t \in Thresholds
      PROVE  /\ ReserveRatio(whole) >= t => \E e \in E : ReserveRatio(NeutralInputs(q, e)) >= t
             /\ ~(ReserveRatio(whole) >= t) => \E e \in E : ~(ReserveRatio(NeutralInputs(q, e)) >= t)
  <2>1. PICK excess : excess = [e \in E |-> Excess(NeutralInputs(q, e), t)]
    OBVIOUS
  <2>2. Excess(whole, t) = SetTotal(E, excess)
    BY <1>1, <2>1, WholeIsSummed
  <2>3. \A e \in E : excess[e] \in Int
    <3>1. SUFFICES ASSUME NEW e \in E PROVE excess[e] \in Int
      OBVIOUS
    <3>2. NeutralInputs(q, e).liquidity \in Int /\ ReserveTarget(NeutralInputs(q, e)) \in Int /\ t \in Int
      BY <1>3 DEF Inputs, ReserveTarget, Thresholds
    <3> QED BY <2>1, <3>2 DEF Excess
  <2>4. \A e \in E : ReserveRatio(NeutralInputs(q, e)) >= t <=> excess[e] >= 0
    BY <1>1, <1>3, <2>1, RatioReaches
  <2>5. ReserveRatio(whole) >= t <=> SetTotal(E, excess) >= 0
    BY <1>4, <1>5, <2>2, RatioReaches
  <2>6. SetTotal(E, excess) \in Int
    BY <1>2, <2>3, SetSumIsInt
  <2>7. (\A e \in E : excess[e] >= 0) => SetTotal(E, excess) >= 0
    BY <1>2, <2>3, SumKeepsSign
  <2>8. (\A e \in E : ~(excess[e] >= 0)) => ~(SetTotal(E, excess) >= 0)
    <3>1. SUFFICES ASSUME \A e \in E : ~(excess[e] >= 0) PROVE ~(SetTotal(E, excess) >= 0)
      OBVIOUS
    <3>2. PICK lack : lack = [e \in E |-> 0 - excess[e]]
      OBVIOUS
    <3>3. \A e \in E : lack[e] \in Int /\ lack[e] >= 0 /\ lack[e] > 0 /\ lack[e] = (-1) * excess[e] + 0 * excess[e]
      BY <2>3, <3>1, <3>2
    <3>4. SetTotal(E, lack) > 0
      BY <1>2, <3>3, SumKeepsSign
    <3>5. SetTotal(E, lack) = (-1) * SetTotal(E, excess) + 0 * SetTotal(E, excess)
      BY <1>2, <2>3, <3>3, SumIsLinear
    <3> QED BY <2>6, <3>4, <3>5
  <2> QED BY <2>4, <2>5, <2>7, <2>8
<1> QED BY <1>1, <1>5, <1>6

\* The band of the whole lies between those of the parts.
LEMMA BandsEncloseTheWhole ==
  ASSUME NEW q, IsConsolidation(q),
         \A e \in DOMAIN q.entities : ReserveTarget(NeutralInputs(q, e)) > 0
  PROVE  /\ \E e \in DOMAIN q.entities :
              RiskBand(ReserveRatio(NeutralInputs(q, e))) >= RiskBand(ReserveRatio(SummedInputs(q)))
         /\ \E e \in DOMAIN q.entities :
              RiskBand(ReserveRatio(NeutralInputs(q, e))) <= RiskBand(ReserveRatio(SummedInputs(q)))
<1>1. PICK E, R, r : /\ E = DOMAIN q.entities /\ R = ReserveRatio(SummedInputs(q))
                     /\ r = [e \in E |-> ReserveRatio(NeutralInputs(q, e))]
  OBVIOUS
<1>2. R \in Int /\ \A e \in E : r[e] \in Int
  <2>1. R \in Int
    <3>1. ReserveTarget(SummedInputs(q)) \in Int /\ ReserveTarget(SummedInputs(q)) >= 0
      BY SomePartAgrees, WholeIsSummed DEF ReserveTarget, Inputs
    <3> QED BY <1>1, <3>1, WholeIsSummed, RatioIsInt
  <2>2. ASSUME NEW e \in E PROVE r[e] \in Int
    <3>1. \A f \in Inputs : NeutralInputs(q, e)[f] \in Int
      BY <1>1, NeutralInputsAre DEF Inputs
    <3>2. ReserveTarget(NeutralInputs(q, e)) >= 0
      BY <1>1, <3>1 DEF ReserveTarget, Inputs
    <3> QED BY <1>1, <3>1, <3>2, RatioIsInt
  <2> QED BY <2>1, <2>2
<1>3. /\ RiskBand(R) = IF R >= 15000 THEN 3 ELSE IF R >= 10000 THEN 2 ELSE IF R >= 5000 THEN 1 ELSE 0
      /\ \A e \in E : RiskBand(r[e]) = IF r[e] >= 15000 THEN 3 ELSE IF r[e] >= 10000 THEN 2
                                       ELSE IF r[e] >= 5000 THEN 1 ELSE 0
  BY <1>2, BandSteps
<1>4. \A t \in Thresholds : /\ R >= t => \E e \in E : r[e] >= t
                            /\ ~(R >= t) => \E e \in E : ~(r[e] >= t)
  BY <1>1, SomePartAgrees
<1>5. PICK any \in E : TRUE
  BY <1>1, AmountsAreInts
<1>6. \E e \in E : RiskBand(r[e]) >= RiskBand(R)
  <2>1. R >= 15000 => \E e \in E : r[e] >= 15000
    BY <1>4 DEF Thresholds
  <2>2. R >= 10000 => \E e \in E : r[e] >= 10000
    BY <1>4 DEF Thresholds
  <2>3. R >= 5000 => \E e \in E : r[e] >= 5000
    BY <1>4 DEF Thresholds
  <2> QED BY <1>2, <1>3, <1>5, <2>1, <2>2, <2>3
<1>7. \E e \in E : RiskBand(r[e]) <= RiskBand(R)
  <2>1. ~(R >= 15000) => \E e \in E : ~(r[e] >= 15000)
    BY <1>4 DEF Thresholds
  <2>2. ~(R >= 10000) => \E e \in E : ~(r[e] >= 10000)
    BY <1>4 DEF Thresholds
  <2>3. ~(R >= 5000) => \E e \in E : ~(r[e] >= 5000)
    BY <1>4 DEF Thresholds
  <2> QED BY <1>2, <1>3, <1>5, <2>1, <2>2, <2>3
<1> QED BY <1>1, <1>6, <1>7

----------------------------------------------------------------------------
(* Answers about entities. *)

\* What is given as an answer is what was asked for.
ConsolidationInv ==
  /\ question \in Questions
  /\ Answered("compute_consolidated_posture") =>
       ConsolidationFits(question) /\ answer.value = compute_consolidated_posture(question)

\* An answer about a consolidation is what compute_consolidated_posture gives for a request that fits
\* its schema.
THEOREM ConsolidationAnswers == Spec => []ConsolidationInv
<1>1. Init => ConsolidationInv
  BY DEF Init, ConsolidationInv, Answered
<1>2. ConsolidationInv /\ [Next]_vars => ConsolidationInv'
  <2> SUFFICES ASSUME ConsolidationInv, [Next]_vars PROVE ConsolidationInv'
    OBVIOUS
  <2> USE DEF Asked, Gives, ConsolidationInv, Answered
  <2>1. CASE AnswersPosture
    BY <2>1 DEF AnswersPosture
  <2>2. CASE AnswersConsolidation
    <3> HIDE DEF ConsolidationFits, compute_consolidated_posture
    <3>1. CASE ConsolidationFits(question)
      BY <2>2, <3>1 DEF AnswersConsolidation
    <3>2. CASE ~ConsolidationFits(question)
      BY <2>2, <3>2 DEF AnswersConsolidation
    <3> QED BY <3>1, <3>2
  <2>3. CASE AnswersSimulation
    BY <2>3 DEF AnswersSimulation
  <2>4. CASE AnswersDebt
    BY <2>4 DEF AnswersDebt
  <2>5. CASE Reconciling
    BY <2>5 DEF Reconciling
  <2>6. CASE UNCHANGED vars
    BY <2>6 DEF vars
  <2> QED BY <2>1, <2>2, <2>3, <2>4, <2>5, <2>6 DEF Next
<1> QED BY <1>1, <1>2, PTL DEF Spec

\* domain/posture/engine.py: for any entities and any transfers that pass the schema, the liquidity of
\* the whole is the sum of what the entities have of their own: no transfer is counted twice.
THEOREM TransfersAreNeutralHolds == Spec => []TransfersAreNeutral
<1>1. ConsolidationInv => TransfersAreNeutral
  <2> SUFFICES ASSUME ConsolidationInv, Answered("compute_consolidated_posture")
               PROVE  Value.total.liquidity =
                        MapThenSumSet(LAMBDA e : normalize_amount(question.entities[e].liquidity),
                                      DOMAIN question.entities)
    BY Zenon DEF TransfersAreNeutral
  <2>1. IsConsolidation(question) /\ TransfersFit(question.legs, DOMAIN question.entities)
    BY DEF ConsolidationInv, Answered, IsConsolidation, ConsolidationFits
  <2>2. Value.total.liquidity = SummedInputs(question).liquidity
    BY DEF ConsolidationInv, Value, compute_consolidated_posture, compute_posture_metrics
  <2> QED BY <2>1, <2>2, LiquidityIsNeutral, Zenon
<1> QED BY <1>1, ConsolidationAnswers, PTL

\* domain/posture/engine.py: for any entities that have a reserve target, the band of the whole, computed
\* from a rounded ratio, lies between the worst band and the best of the entities.
THEOREM WholeLiesBetweenItsPartsHolds == Spec => []WholeLiesBetweenItsParts
<1>1. ConsolidationInv => WholeLiesBetweenItsParts
  <2> SUFFICES ASSUME ConsolidationInv, Answered("compute_consolidated_posture"),
                      \A e \in DOMAIN Value.entities : Value.entities[e].target > 0
               PROVE  /\ \E e \in DOMAIN Value.entities : Value.entities[e].band >= Value.total.band
                      /\ \E e \in DOMAIN Value.entities : Value.entities[e].band <= Value.total.band
    BY DEF WholeLiesBetweenItsParts
  <2>1. IsConsolidation(question)
    BY DEF ConsolidationInv, Answered, IsConsolidation
  <2>2. Value = compute_consolidated_posture(question)
    BY DEF ConsolidationInv, Value
  <2>3. DOMAIN Value.entities = DOMAIN question.entities
    BY <2>2 DEF compute_consolidated_posture
  <2>4. \A e \in DOMAIN question.entities :
          Value.entities[e] = compute_posture_metrics(NeutralInputs(question, e))
    BY <2>2 DEF compute_consolidated_posture
  <2>5. \A e \in DOMAIN question.entities :
          /\ Value.entities[e].target = ReserveTarget(NeutralInputs(question, e))
          /\ Value.entities[e].band = RiskBand(ReserveRatio(NeutralInputs(question, e)))
    <3>1. SUFFICES ASSUME NEW e \in DOMAIN question.entities
                   PROVE  /\ Value.entities[e].target = ReserveTarget(NeutralInputs(question, e))
                          /\ Value.entities[e].band = RiskBand(ReserveRatio(NeutralInputs(question, e)))
      BY Zenon
    <3>2. PICK in : in = NeutralInputs(question, e) /\ Value.entities[e] = compute_posture_metrics(in)
      BY <2>4
    <3> QED BY <3>2 DEF compute_posture_metrics
  <2>6. Value.total.band = RiskBand(ReserveRatio(SummedInputs(question)))
    BY <2>2 DEF compute_consolidated_posture, compute_posture_metrics
  <2>7. \A e \in DOMAIN question.entities : ReserveTarget(NeutralInputs(question, e)) > 0
    BY <2>3, <2>5
  <2> QED BY <2>1, <2>3, <2>5, <2>6, <2>7, BandsEncloseTheWhole
<1> QED BY <1>1, ConsolidationAnswers, PTL

----------------------------------------------------------------------------
(* One account and its adjustments, for any book and any snapshots. *)

LedgerOf(b, date) == MapThenSumSet(LAMBDA e : e.amount, {e \in b : e.date <= date})
DatesOf(s, date) == {d \in Dates : d <= date /\ s[d] # NULL}
SnapshotOf(s, date) ==
  IF DatesOf(s, date) = {} THEN NULL
  ELSE s[CHOOSE d \in DatesOf(s, date) : \A e \in DatesOf(s, date) : e <= d]
DeltaOf(b, s, date) == IF SnapshotOf(s, date) = NULL THEN NULL ELSE SnapshotOf(s, date) - LedgerOf(b, date)

Posted(e) == e.date \in Int /\ e.amount \in Int

\* What the account keeps is made of numbers, and a suggestion is the difference it was made for.
BookInv ==
  /\ IsFiniteSet(book) /\ \A e \in book : Posted(e)
  /\ snaps \in [Dates -> Int \cup {NULL}]
  /\ IsFiniteSet({d \in Dates : snaps[d] # NULL})
  /\ offered # NULL =>
       /\ offered.posting.date \in Dates
       /\ offered.posting.amount = DeltaOf(offered.book, offered.snaps, offered.posting.date)
       /\ offered.posting.amount \in Int

LEMMA AmountsAreSummed ==
  ASSUME NEW s, NEW g, \A e \in s : g[e] = e.amount
  PROVE  MapThenSumSet(LAMBDA e : e.amount, s) = SetTotal(s, g)
<1> DEFINE Term(e) == e.amount
           Folds(it) == it = [u \in SUBSET s |->
                                IF u = {} THEN 0 ELSE Term(CHOOSE x \in u : TRUE) + it[u \ {CHOOSE x \in u : TRUE}]]
<1>1. MapThenSumSet(LAMBDA e : e.amount, s) = (CHOOSE it : Folds(it))[s]
  BY Zenon DEF MapThenSumSet, MapThenFoldSet
<1>2. \A u \in SUBSET s : u # {} => g[First(u)] = Term(First(u))
  BY DEF First
<1> HIDE DEF Term
<1>3. \A it : Folds(it) <=> Sums(it, s, g)
  BY <1>2 DEF Sums, First
<1> HIDE DEF Folds
<1>4. (CHOOSE it : Folds(it)) = (CHOOSE it : Sums(it, s, g))
  BY <1>3
<1> QED BY <1>1, <1>4 DEF SetTotal

LEMMA LedgerIsInt ==
  ASSUME NEW b, IsFiniteSet(b), \A e \in b : Posted(e), NEW date
  PROVE  LedgerOf(b, date) \in Int
<1>1. PICK s, g : s = {e \in b : e.date <= date} /\ g = [e \in b |-> e.amount]
  OBVIOUS
<1>2. IsFiniteSet(s) /\ s \in SUBSET s /\ \A e \in s : g[e] \in Int /\ g[e] = e.amount
  BY <1>1, FS_Subset DEF Posted
<1>3. LedgerOf(b, date) = SetTotal(s, g)
  <2>1. MapThenSumSet(LAMBDA e : e.amount, s) = SetTotal(s, g)
    BY <1>2, AmountsAreSummed
  <2> QED BY <1>1, <2>1, Zenon DEF LedgerOf
<1> QED BY <1>2, <1>3, SetSumIsInt

\* A posting is added to the balance of its date.
LEMMA LedgerGrows ==
  ASSUME NEW b, IsFiniteSet(b), \A e \in b : Posted(e), NEW p, Posted(p), p \notin b
  PROVE  LedgerOf(b \cup {p}, p.date) = LedgerOf(b, p.date) + p.amount
<1>1. PICK s, t, g : /\ s = {e \in b : e.date <= p.date}
                     /\ t = {e \in b \cup {p} : e.date <= p.date}
                     /\ g = [e \in b \cup {p} |-> e.amount]
  OBVIOUS
<1>2. p \in t /\ t \ {p} = s /\ t \subseteq b \cup {p} /\ t \in SUBSET t
  BY <1>1 DEF Posted
<1>3. IsFiniteSet(t)
  BY <1>2, FS_AddElement, FS_Subset
<1>4. \A e \in t : g[e] \in Int /\ g[e] = e.amount
  BY <1>1 DEF Posted
<1>5. SetTotal(t, g) = g[p] + SetTotal(t \ {p}, g)
  BY <1>2, <1>3, <1>4, SumTakes
<1>6. LedgerOf(b, p.date) = SetTotal(s, g)
  <2>1. \A e \in s : g[e] = e.amount
    BY <1>2, <1>4
  <2>2. MapThenSumSet(LAMBDA e : e.amount, s) = SetTotal(s, g)
    BY <2>1, AmountsAreSummed
  <2> QED BY <1>1, <2>2, Zenon DEF LedgerOf
<1>7. LedgerOf(b \cup {p}, p.date) = SetTotal(t, g)
  <2>1. MapThenSumSet(LAMBDA e : e.amount, t) = SetTotal(t, g)
    BY <1>4, AmountsAreSummed
  <2> QED BY <1>1, <2>1, Zenon DEF LedgerOf
<1>8. SetTotal(s, g) \in Int
  BY <1>2, <1>3, <1>4, SetSumIsInt
<1>9. SetTotal(t, g) = g[p] + SetTotal(s, g) /\ g[p] = p.amount /\ p.amount \in Int
  BY <1>2, <1>4, <1>5
<1> QED BY <1>6, <1>7, <1>8, <1>9

LEMMA LatestExists ==
  ASSUME NEW S, IsFiniteSet(S), S \subseteq Int
  PROVE  \A s \in SUBSET S : s # {} => \E m \in s : \A x \in s : x <= m
<1> DEFINE P == {s \in SUBSET S : s # {} => \E m \in s : \A x \in s : x <= m}
<1>1. ASSUME NEW s \in SUBSET S, \A x \in s : s \ {x} \in P PROVE s \in P
  <2>1. SUFFICES ASSUME s # {} PROVE \E m \in s : \A x \in s : x <= m
    OBVIOUS
  <2>2. PICK c \in s : TRUE
    BY <2>1
  <2>3. s \ {c} # {} => \E m \in s \ {c} : \A x \in s \ {c} : x <= m
    BY <1>1, <2>2
  <2> HIDE DEF P
  <2> QED BY <2>2, <2>3
<1>2. \A s \in SUBSET S : s \in P
  <2> HIDE DEF P
  <2> QED BY <1>1, FiniteInduction
<1> QED BY <1>2

\* The latest snapshot is a number, if there is one.
LEMMA SnapshotIsInt ==
  ASSUME NEW s \in [Dates -> Int \cup {NULL}], IsFiniteSet({d \in Dates : s[d] # NULL}), NEW date
  PROVE  SnapshotOf(s, date) \in Int \cup {NULL}
<1>1. PICK all, S : all = {d \in Dates : s[d] # NULL} /\ S = DatesOf(s, date)
  OBVIOUS
<1>2. IsFiniteSet(all) /\ all \subseteq Int /\ S \in SUBSET all
  BY <1>1, EntriesAssumption DEF DatesOf
<1>3. CASE S = {}
  BY <1>1, <1>3 DEF SnapshotOf
<1>4. CASE S # {}
  <2>1. \E m \in S : \A x \in S : x <= m
    BY <1>2, <1>4, LatestExists
  <2>2. PICK m \in S : m = CHOOSE d \in S : \A e \in S : e <= d
    BY <2>1
  <2>3. SnapshotOf(s, date) = s[m]
    BY <1>1, <1>4, <2>2 DEF SnapshotOf
  <2> QED BY <1>1, <1>2, <2>3
<1> QED BY <1>3, <1>4

LEMMA DeltaIsInt ==
  ASSUME NEW b, IsFiniteSet(b), \A e \in b : Posted(e), NEW date,
         NEW s \in [Dates -> Int \cup {NULL}], IsFiniteSet({d \in Dates : s[d] # NULL})
  PROVE  DeltaOf(b, s, date) \in Int \cup {NULL}
<1>1. LedgerOf(b, date) \in Int /\ SnapshotOf(s, date) \in Int \cup {NULL}
  BY LedgerIsInt, SnapshotIsInt
<1> QED BY <1>1 DEF DeltaOf

\* The account's operators are these, for its book and its snapshots.
LEMMA AccountReads ==
  ASSUME NEW date
  PROVE  /\ LedgerBalance(date) = LedgerOf(book, date)
         /\ SnapshotBalance(date) = SnapshotOf(snaps, date)
         /\ Delta(date) = DeltaOf(book, snaps, date)
         /\ LedgerBalance(date)' = LedgerOf(book', date)
         /\ SnapshotBalance(date)' = SnapshotOf(snaps', date)
         /\ Delta(date)' = DeltaOf(book', snaps', date)
<1>1. LedgerBalance(date) = LedgerOf(book, date) /\ LedgerBalance(date)' = LedgerOf(book', date)
  BY Zenon DEF LedgerBalance, UpTo, LedgerOf, MapThenSumSet, MapThenFoldSet
<1>2. SnapshotBalance(date) = SnapshotOf(snaps, date) /\ SnapshotBalance(date)' = SnapshotOf(snaps', date)
  BY Zenon DEF SnapshotBalance, SnapshotDates, SnapshotOf, DatesOf
<1>3. Delta(date) = DeltaOf(book, snaps, date)
  BY <1>1, <1>2, Zenon DEF Delta, DeltaOf
<1>4. Delta(date)' = DeltaOf(book', snaps', date)
  BY <1>1, <1>2, Zenon DEF Delta, DeltaOf
<1> QED BY <1>1, <1>2, <1>3, <1>4

LEMMA RecordEntryKeepsBook ==
  ASSUME BookInv, NEW e \in Entries, RecordEntry(e) PROVE BookInv'
<1>1. PICK p : p = [e EXCEPT !.amount = normalize_amount(e.amount)]
  OBVIOUS
<1>2. Posted(p)
  <2>1. DOMAIN e = {"key", "date", "amount"} /\ e.date \in Int /\ e.amount \in Int
    BY EntriesAssumption
  <2>2. normalize_amount(e.amount) \in Int
    BY <2>1, NormalizedIsInt
  <2>3. p.date = e.date /\ p.amount = normalize_amount(e.amount)
    <3> HIDE DEF normalize_amount
    <3> QED BY <1>1, <2>1
  <2> QED BY <2>1, <2>2, <2>3 DEF Posted
<1>3. book' = book \cup {p} /\ UNCHANGED <<snaps, offered>>
  BY <1>1 DEF RecordEntry
<1>4. IsFiniteSet(book')
  BY <1>3, FS_AddElement DEF BookInv
<1>5. \A x \in book' : Posted(x)
  BY <1>2, <1>3 DEF BookInv
<1> QED BY <1>3, <1>4, <1>5 DEF BookInv, Posted

LEMMA RecordSnapshotKeepsBook ==
  ASSUME BookInv, NEW d \in Dates, NEW b \in Balances, RecordSnapshot(d, b) PROVE BookInv'
<1>1. PICK n \in Int : n = normalize_amount(b)
  BY EntriesAssumption, NormalizedIsInt
<1>2. snaps' = [snaps EXCEPT ![d] = n] /\ UNCHANGED <<book, offered>>
  BY <1>1 DEF RecordSnapshot
<1>3. snaps' \in [Dates -> Int \cup {NULL}]
  BY <1>2 DEF BookInv
<1>4. IsFiniteSet({x \in Dates : snaps'[x] # NULL})
  <2>1. {x \in Dates : snaps'[x] # NULL} \subseteq {x \in Dates : snaps[x] # NULL} \cup {d}
    BY <1>2 DEF BookInv
  <2>2. IsFiniteSet({x \in Dates : snaps[x] # NULL} \cup {d})
    BY FS_AddElement DEF BookInv
  <2> QED BY <2>1, <2>2, FS_Subset
<1> QED BY <1>2, <1>3, <1>4 DEF BookInv, Posted

LEMMA ReconcilesKeepsBook ==
  ASSUME BookInv, NEW d \in Dates, NEW m \in Methods, Reconciles(d, m) PROVE BookInv'
<1>1. PICK p : p = Suggestion(d, m) /\ p # NULL
  BY DEF Reconciles
<1>2. UNCHANGED <<book, snaps>> /\ offered' = [posting |-> p, book |-> book, snaps |-> snaps]
  BY <1>1 DEF Reconciles
<1>3. Delta(d) = DeltaOf(book, snaps, d)
  BY AccountReads
<1>4. DeltaOf(book, snaps, d) \in Int \cup {NULL}
  BY DeltaIsInt DEF BookInv
<1>5. p.date = d /\ p.amount = Delta(d) /\ Delta(d) # NULL
  BY <1>1 DEF Suggestion
<1>6. /\ offered'.posting.date \in Dates
      /\ offered'.posting.amount = DeltaOf(offered'.book, offered'.snaps, offered'.posting.date)
      /\ offered'.posting.amount \in Int
  BY <1>2, <1>3, <1>4, <1>5
<1> QED BY <1>2, <1>6 DEF BookInv, Posted

LEMMA AdjustsKeepsBook ==
  ASSUME BookInv, Adjusts PROVE BookInv'
<1>1. UNCHANGED snaps /\ offered' = NULL /\ (book' = book \/ book' = book \cup {offered.posting})
  BY DEF Adjusts
<1>2. Posted(offered.posting)
  BY EntriesAssumption DEF Adjusts, BookInv, Posted
<1>3. IsFiniteSet(book')
  BY <1>1, FS_AddElement DEF BookInv
<1>4. \A x \in book' : Posted(x)
  BY <1>1, <1>2 DEF BookInv
<1> QED BY <1>1, <1>3, <1>4 DEF BookInv, Posted

LEMMA BookInvariance == Spec => []BookInv
<1>1. Init => BookInv
  <2> SUFFICES ASSUME Init PROVE BookInv
    OBVIOUS
  <2>1. book = {} /\ snaps = [d \in Dates |-> NULL] /\ offered = NULL
    BY DEF Init, ReconcileInit
  <2>2. {d \in Dates : snaps[d] # NULL} = {}
    BY <2>1
  <2> QED BY <2>1, <2>2, FS_EmptySet DEF BookInv
<1>2. BookInv /\ [Next]_vars => BookInv'
  <2> SUFFICES ASSUME BookInv, [Next]_vars PROVE BookInv'
    OBVIOUS
  <2>1. CASE Reconciling
    BY <2>1, RecordEntryKeepsBook, RecordSnapshotKeepsBook, ReconcilesKeepsBook, AdjustsKeepsBook
       DEF Reconciling, ReconcileStep
  <2>2. CASE UNCHANGED account
    BY <2>2 DEF account, BookInv, Posted
  <2>3. AnswersPosture \/ AnswersConsolidation \/ AnswersSimulation \/ AnswersDebt => UNCHANGED account
    BY Zenon DEF AnswersPosture, AnswersConsolidation, AnswersSimulation, AnswersDebt, Gives
  <2> QED BY <2>1, <2>2, <2>3 DEF Next, vars
<1> QED BY <1>1, <1>2, PTL DEF Spec

\* What a suggestion does to the account that it was made for.
Closes ==
  offered # NULL /\ offered' = NULL /\ offered.book = book /\ offered.snaps = snaps /\ book' # book =>
    \A date \in Dates : date = offered.posting.date =>
      Delta(date)' = 0 /\ \A m \in Methods : AccountBalance(date, m)' = LedgerBalance(date)'

LEMMA AdjustsCloses ==
  ASSUME BookInv, Adjusts PROVE Closes
<1> SUFFICES ASSUME offered # NULL, offered.book = book, offered.snaps = snaps, book' # book,
                    NEW date \in Dates, date = offered.posting.date
             PROVE  Delta(date)' = 0 /\ \A m \in Methods : AccountBalance(date, m)' = LedgerBalance(date)'
  BY DEF Closes
<1>1. PICK p : p = offered.posting
  OBVIOUS
<1>2. book' = book \cup {p} /\ p \notin book /\ snaps' = snaps
  BY <1>1 DEF Adjusts
<1>3. Posted(p) /\ p.date = date /\ p.amount = DeltaOf(book, snaps, date)
  BY <1>1, EntriesAssumption DEF BookInv, Posted
<1>4. PICK l, s : l = LedgerOf(book, date) /\ s = SnapshotOf(snaps, date)
  OBVIOUS
<1>5. l \in Int /\ s \in Int \cup {NULL}
  BY <1>4, LedgerIsInt, SnapshotIsInt DEF BookInv
<1>6. s # NULL /\ p.amount = s - l
  <2>1. p.amount # NULL
    BY <1>3, NullAssumption DEF Posted
  <2> QED BY <1>3, <1>4, <2>1 DEF DeltaOf
<1>7. LedgerOf(book', date) = s
  <2>1. LedgerOf(book \cup {p}, p.date) = LedgerOf(book, p.date) + p.amount
    BY <1>2, <1>3, LedgerGrows DEF BookInv
  <2> QED BY <1>2, <1>3, <1>4, <1>5, <1>6, <2>1
<1>8. DeltaOf(book', snaps', date) = 0
  BY <1>2, <1>4, <1>5, <1>6, <1>7 DEF DeltaOf
<1>9. Delta(date)' = 0
  BY <1>8, AccountReads
<1>10. LedgerBalance(date)' = s /\ SnapshotBalance(date)' = s
  BY <1>2, <1>4, <1>7, AccountReads
<1>11. ASSUME NEW m \in Methods PROVE AccountBalance(date, m)' = LedgerBalance(date)'
  BY <1>10 DEF AccountBalance
<1> QED BY <1>9, <1>11

\* domain/reconciliation/service.py: a suggestion that is recorded while the account is as it was closes
\* the difference it was made for, on its date and under every policy, with any postings and snapshots.
THEOREM AdjustmentsCloseHolds == Spec => AdjustmentsClose
<1>1. BookInv /\ [Next]_vars => [Closes]_account
  <2> SUFFICES ASSUME BookInv, [Next]_vars PROVE Closes \/ UNCHANGED account
    OBVIOUS
  <2>1. CASE Adjusts
    BY <2>1, AdjustsCloses
  <2>2. CASE book' = book
    BY <2>2 DEF Closes
  <2>3. CASE offered' = offered
    BY <2>3 DEF Closes
  <2>4. Reconciling => Adjusts \/ book' = book \/ offered' = offered
    BY Zenon DEF Reconciling, ReconcileStep, RecordEntry, RecordSnapshot, Reconciles
  <2>5. AnswersPosture \/ AnswersConsolidation \/ AnswersSimulation \/ AnswersDebt => UNCHANGED account
    BY Zenon DEF AnswersPosture, AnswersConsolidation, AnswersSimulation, AnswersDebt, Gives
  <2> QED BY <2>1, <2>2, <2>3, <2>4, <2>5 DEF Next, vars
<1>2. Spec => [][Closes]_account
  BY <1>1, BookInvariance, PTL DEF Spec
<1> QED BY <1>2 DEF AdjustmentsClose, Closes

----------------------------------------------------------------------------
(* The calendar. *)

\* The days of a year before its first month, and before its m-th month.
YearStart(y) == 365 * y + (y - 1) \div 4 - (y - 1) \div 100 + (y - 1) \div 400
DaysBefore(y, m) == MapThenSumSet(LAMBDA x : DaysIn(y, x), 1..(m - 1))

LEMMA DaysBeforeIsASum ==
  ASSUME NEW y, NEW m, NEW S, S = 1..(m - 1), NEW g, \A x \in S : g[x] = DaysIn(y, x)
  PROVE  DaysBefore(y, m) = SetTotal(S, g)
<1> DEFINE Term(x) == DaysIn(y, x)
           Folds(it) == it = [s \in SUBSET S |->
                                IF s = {} THEN 0 ELSE Term(CHOOSE x \in s : TRUE) + it[s \ {CHOOSE x \in s : TRUE}]]
<1>1. DaysBefore(y, m) = (CHOOSE it : Folds(it))[S]
  BY Zenon DEF DaysBefore, MapThenSumSet, MapThenFoldSet
<1>2. \A s \in SUBSET S : s # {} => g[First(s)] = Term(First(s))
  BY DEF First
<1> HIDE DEF Term
<1>3. \A it : Folds(it) <=> Sums(it, S, g)
  BY <1>2 DEF Sums, First
<1> HIDE DEF Folds
<1>4. (CHOOSE it : Folds(it)) = (CHOOSE it : Sums(it, S, g))
  BY <1>3
<1> QED BY <1>1, <1>4 DEF SetTotal

LEMMA DaysInIsInt ==
  ASSUME NEW y, NEW m
  PROVE  DaysIn(y, m) \in 28..31
BY DEF DaysIn

\* The months of a year follow each other.
LEMMA MonthsAdd ==
  ASSUME NEW y, NEW m \in Nat \ {0}
  PROVE  /\ DaysBefore(y, m) \in Int
         /\ DaysBefore(y, m + 1) = DaysBefore(y, m) + DaysIn(y, m)
         /\ DaysBefore(y, 1) = 0
<1>1. PICK S, T, g : S = 1..m /\ T = 1..(m - 1) /\ g = [x \in Int |-> DaysIn(y, x)]
  OBVIOUS
<1>2. /\ IsFiniteSet(S) /\ IsFiniteSet(T) /\ m \in S /\ T = S \ {m} /\ S \in SUBSET S /\ T \in SUBSET T
      /\ \A x \in S : g[x] \in Int /\ g[x] = DaysIn(y, x)
      /\ \A x \in T : g[x] \in Int /\ g[x] = DaysIn(y, x)
  <2>1. S \subseteq Int /\ T \subseteq Int /\ m \in S /\ T = S \ {m}
    BY <1>1
  <2>2. \A x \in Int : g[x] = DaysIn(y, x) /\ g[x] \in Int
    BY <1>1, DaysInIsInt
  <2>3. IsFiniteSet(S) /\ IsFiniteSet(T)
    BY <1>1, FS_Interval
  <2> QED BY <2>1, <2>2, <2>3
<1>3. DaysBefore(y, m) = SetTotal(T, g)
  BY <1>1, <1>2, DaysBeforeIsASum
<1>4. DaysBefore(y, m + 1) = SetTotal(S, g)
  <2>1. S = 1..((m + 1) - 1)
    BY <1>1
  <2> QED BY <1>2, <2>1, DaysBeforeIsASum
<1>5. SetTotal(T, g) \in Int
  BY <1>2, SetSumIsInt
<1>6. SetTotal(S, g) = g[m] + SetTotal(T, g)
  BY <1>2, SumTakes
<1>7. DaysBefore(y, 1) = 0
  <2>1. PICK E : E = 1..(1 - 1)
    OBVIOUS
  <2>2. E = {} /\ \A x \in E : g[x] = DaysIn(y, x)
    BY <2>1
  <2>3. DaysBefore(y, 1) = SetTotal(E, g)
    BY <2>1, <2>2, DaysBeforeIsASum
  <2> QED BY <1>2, <2>2, <2>3, SumUnfolds
<1>8. g[m] = DaysIn(y, m) /\ g[m] \in Int
  BY <1>2
<1> QED BY <1>3, <1>4, <1>5, <1>6, <1>7, <1>8

LEMMA OrdinalIs ==
  ASSUME NEW y, NEW m, NEW d
  PROVE  Ordinal(<<y, m, d>>) = YearStart(y) + DaysBefore(y, m) + d
<1>1. PICK t : t = <<y, m, d>>
  OBVIOUS
<1>2. t[1] = y /\ t[2] = m /\ t[3] = d
  BY <1>1
<1>3. Ordinal(t) = YearStart(t[1]) + DaysBefore(t[1], t[2]) + t[3]
  BY Zenon DEF Ordinal, YearStart, DaysBefore
<1> QED BY <1>1, <1>2, <1>3

LEMMA YearIsWhole ==
  ASSUME NEW y \in Int
  PROVE  DaysBefore(y, 13) = IF Leap(y) THEN 366 ELSE 365
<1>1. PICK b : b = [m \in 1..13 |-> DaysBefore(y, m)]
  OBVIOUS
<1>2. PICK l : l = [m \in 1..12 |-> DaysIn(y, m)]
  OBVIOUS
<1>3. b[1] = 0 /\ \A m \in 1..12 : b[m] \in Int /\ b[m + 1] = b[m] + l[m]
  BY <1>1, <1>2, MonthsAdd
<1>4. /\ l[1] = 31 /\ l[3] = 31 /\ l[4] = 30 /\ l[5] = 31 /\ l[6] = 30 /\ l[7] = 31 /\ l[8] = 31
      /\ l[9] = 30 /\ l[10] = 31 /\ l[11] = 30 /\ l[12] = 31
      /\ l[2] = (IF Leap(y) THEN 29 ELSE 28) /\ l[2] \in Int
  BY <1>2 DEF DaysIn
<1>5. /\ b[2] = b[1] + l[1] /\ b[3] = b[2] + l[2] /\ b[4] = b[3] + l[3] /\ b[5] = b[4] + l[4]
      /\ b[6] = b[5] + l[5] /\ b[7] = b[6] + l[6] /\ b[8] = b[7] + l[7] /\ b[9] = b[8] + l[8]
      /\ b[10] = b[9] + l[9] /\ b[11] = b[10] + l[10] /\ b[12] = b[11] + l[11] /\ b[13] = b[12] + l[12]
  BY <1>3
<1>6. b[5] = l[2] + 92
  BY <1>3, <1>4, <1>5
<1>7. b[7] = l[2] + 153
  BY <1>4, <1>5, <1>6
<1>8. b[9] = l[2] + 215
  BY <1>4, <1>5, <1>7
<1>9. b[11] = l[2] + 276
  BY <1>4, <1>5, <1>8
<1>10. b[13] = l[2] + 337
  BY <1>4, <1>5, <1>9
<1> QED BY <1>1, <1>4, <1>10

LEMMA YearsAdd ==
  ASSUME NEW y \in Int
  PROVE  /\ YearStart(y) \in Int
         /\ YearStart(y + 1) = YearStart(y) + IF Leap(y) THEN 366 ELSE 365
<1>1. y \div 4 = (y - 1) \div 4 + IF y % 4 = 0 THEN 1 ELSE 0
  OBVIOUS
<1>2. y \div 100 = (y - 1) \div 100 + IF y % 100 = 0 THEN 1 ELSE 0
  OBVIOUS
<1>3. y \div 400 = (y - 1) \div 400 + IF y % 400 = 0 THEN 1 ELSE 0
  OBVIOUS
<1>4. (y % 100 = 0 => y % 4 = 0) /\ (y % 400 = 0 => y % 100 = 0)
  OBVIOUS
<1>5. PICK a \in Int, b \in Int, c \in Int :
         a = (y - 1) \div 4 /\ b = (y - 1) \div 100 /\ c = (y - 1) \div 400
  OBVIOUS
<1>6. YearStart(y) = 365 * y + a - b + c
  BY <1>5 DEF YearStart
<1>7. YearStart(y + 1) = 365 * (y + 1) + y \div 4 - y \div 100 + y \div 400
  BY DEF YearStart
<1> QED BY <1>1, <1>2, <1>3, <1>4, <1>5, <1>6, <1>7 DEF Leap

----------------------------------------------------------------------------
(* Months in a row. *)

MonthLen(k) == DaysIn(k \div 12, (k % 12) + 1)
MonthStart(k) == Ordinal(<<k \div 12, (k % 12) + 1, 0>>)

LEMMA MonthsFollow ==
  ASSUME NEW k \in Int
  PROVE  /\ MonthStart(k) \in Int /\ MonthLen(k) \in 28..31
         /\ MonthStart(k + 1) = MonthStart(k) + MonthLen(k)
<1>1. PICK y, m : y = k \div 12 /\ m = (k % 12) + 1
  OBVIOUS
<1>2. y \in Int /\ m \in 1..12
  BY <1>1
<1>3. /\ DaysBefore(y, m) \in Int /\ DaysBefore(y, m + 1) = DaysBefore(y, m) + DaysIn(y, m)
      /\ YearStart(y) \in Int
  BY <1>2, MonthsAdd, YearsAdd
<1>4. MonthStart(k) = YearStart(y) + DaysBefore(y, m) + 0
  BY <1>1, OrdinalIs DEF MonthStart
<1>5. MonthLen(k) = DaysIn(y, m) /\ MonthLen(k) \in 28..31
  BY <1>1, DaysInIsInt DEF MonthLen
<1>6. MonthStart(k + 1) = YearStart(y) + DaysBefore(y, m) + DaysIn(y, m)
  <2>1. CASE m < 12
    <3>1. (k + 1) \div 12 = y /\ (((k + 1) % 12) + 1) = m + 1
      BY <1>1, <2>1
    <3>2. MonthStart(k + 1) = YearStart(y) + DaysBefore(y, m + 1) + 0
      BY <3>1, OrdinalIs DEF MonthStart
    <3> QED BY <1>3, <1>5, <3>2
  <2>2. CASE m = 12
    <3>1. (k + 1) \div 12 = y + 1 /\ (((k + 1) % 12) + 1) = 1
      BY <1>1, <2>2
    <3>2. MonthStart(k + 1) = YearStart(y + 1) + DaysBefore(y + 1, 1) + 0
      BY <3>1, OrdinalIs DEF MonthStart
    <3>3. DaysBefore(y + 1, 1) = 0 /\ YearStart(y + 1) = YearStart(y) + DaysBefore(y, 13)
      BY <1>2, MonthsAdd, YearsAdd, YearIsWhole
    <3>4. DaysBefore(y, 13) = DaysBefore(y, m) + DaysIn(y, m)
      BY <1>3, <2>2
    <3> QED BY <1>3, <1>5, <3>2, <3>3, <3>4
  <2> QED BY <1>2, <2>1, <2>2
<1>7. DaysIn(y, m) \in Int
  BY <1>5
<1> QED BY <1>3, <1>4, <1>5, <1>6, <1>7

AtMost(a, b) == IF a > b THEN b ELSE a

\* The day that is n months later, by the months in a row.
LEMMA MonthsLater ==
  ASSUME NEW k \in Int, NEW day \in Int, NEW n \in Int
  PROVE  /\ add_months(<<k \div 12, (k % 12) + 1, day>>, n)
              = <<(k + n) \div 12, (((k + n) % 12) + 1), AtMost(day, MonthLen(k + n))>>
         /\ Ordinal(add_months(<<k \div 12, (k % 12) + 1, day>>, n))
              = MonthStart(k + n) + AtMost(day, MonthLen(k + n))
<1>1. PICK y, m : y = k \div 12 /\ m = (k % 12) + 1
  OBVIOUS
<1>2. /\ y \in Int /\ m \in 1..12
      /\ y + (m - 1 + n) \div 12 = (k + n) \div 12
      /\ (m - 1 + n) % 12 = (k + n) % 12
  BY <1>1
<1>3. PICK later : later = add_months(<<y, m, day>>, n)
  OBVIOUS
<1>4. later = <<(k + n) \div 12, (((k + n) % 12) + 1), AtMost(day, MonthLen(k + n))>>
  BY <1>2, <1>3 DEF add_months, AtMost, MonthLen
<1>5. PICK u, v, d : u = (k + n) \div 12 /\ v = (((k + n) % 12) + 1) /\ d = AtMost(day, MonthLen(k + n))
  OBVIOUS
<1>6. MonthLen(k + n) \in Int /\ d \in Int
  <2>1. k + n \in Int
    OBVIOUS
  <2>2. MonthLen(k + n) \in 28..31
    BY <2>1, MonthsFollow
  <2> QED BY <1>5, <2>2 DEF AtMost
<1>7. Ordinal(<<u, v, d>>) = YearStart(u) + DaysBefore(u, v) + d
  BY OrdinalIs
<1>8. MonthStart(k + n) = YearStart(u) + DaysBefore(u, v) + 0
  BY <1>5, OrdinalIs DEF MonthStart
<1>9. YearStart(u) + DaysBefore(u, v) \in Int
  <2>1. u \in Int /\ v \in Nat \ {0}
    BY <1>5
  <2>2. YearStart(u) \in Int /\ DaysBefore(u, v) \in Int
    BY <2>1, YearsAdd, MonthsAdd
  <2> QED BY <2>2
<1> QED BY <1>1, <1>3, <1>4, <1>5, <1>6, <1>7, <1>8, <1>9

----------------------------------------------------------------------------
(* Spends on sets of days. *)

IsSimulation(q) == q \in Questions /\ q.tool = "simulate_spend"

SpentBy(q, k, days) == q.spends[k].amount * Cardinality(OccurrencesOn(q.spends[k], days))

LEMMA SpentIsASum ==
  ASSUME NEW q, NEW days, NEW K, K = DOMAIN q.spends, NEW g, \A k \in K : g[k] = SpentBy(q, k, days)
  PROVE  SpentOn(q, days) = SetTotal(K, g)
<1> DEFINE Term(k) == q.spends[k].amount * Cardinality(OccurrencesOn(q.spends[k], days))
           Folds(it) == it = [s \in SUBSET K |->
                                IF s = {} THEN 0 ELSE Term(CHOOSE x \in s : TRUE) + it[s \ {CHOOSE x \in s : TRUE}]]
<1>1. SpentOn(q, days) = (CHOOSE it : Folds(it))[K]
  BY Zenon DEF SpentOn, MapThenSumSet, MapThenFoldSet
<1>2. \A s \in SUBSET K : s # {} => g[First(s)] = Term(First(s))
  BY DEF First, SpentBy
<1> HIDE DEF Term
<1>3. \A it : Folds(it) <=> Sums(it, K, g)
  BY <1>2 DEF Sums, First
<1> HIDE DEF Folds
<1>4. (CHOOSE it : Folds(it)) = (CHOOSE it : Sums(it, K, g))
  BY <1>3
<1> QED BY <1>1, <1>4 DEF SetTotal

\* C is A and B, which do not overlap.
Parts(A, B, C) == A \cap B = {} /\ C = A \cup B

\* One spend: an occurrence falls on one day.
LEMMA OccurrencesAdd ==
  ASSUME NEW q, IsSimulation(q), NEW k, k \in DOMAIN q.spends,
         NEW A, NEW B, NEW C, Parts(A, B, C)
  PROVE  /\ SpentBy(q, k, A) \in Nat /\ SpentBy(q, k, B) \in Nat
         /\ SpentBy(q, k, C) = SpentBy(q, k, A) + SpentBy(q, k, B)
<1>1. PICK s, amount : s = q.spends[k] /\ amount = q.spends[k].amount
  OBVIOUS
<1>2. amount \in Nat /\ s.occurrences \in Nat
  BY <1>1, SpendsAssumption DEF IsSimulation
<1>3. PICK N : N = 0..(s.occurrences - 1) /\ IsFiniteSet(N)
  <2>1. 0 \in Int /\ s.occurrences - 1 \in Int
    BY <1>2
  <2> QED BY <2>1, FS_Interval
<1>4. PICK a, b : a = OccurrencesOn(s, A) /\ b = OccurrencesOn(s, B)
  OBVIOUS
<1>5. /\ a \in SUBSET N /\ b \in SUBSET N /\ a \cap b = {}
      /\ OccurrencesOn(s, C) = a \cup b
  BY <1>3, <1>4 DEF OccurrencesOn, Parts
<1>6. IsFiniteSet(a) /\ IsFiniteSet(b) /\ Cardinality(a) \in Nat /\ Cardinality(b) \in Nat
  BY <1>3, <1>5, FS_Subset, FS_CardinalityType
<1>7. Cardinality(a \cup b) = Cardinality(a) + Cardinality(b)
  <2>1. Cardinality(a \cup b) = Cardinality(a) + Cardinality(b) - Cardinality(a \cap b)
    BY <1>6, FS_Union
  <2>2. Cardinality(a \cap b) = 0
    BY <1>5, FS_EmptySet
  <2> QED BY <1>6, <2>1, <2>2
<1>8. /\ SpentBy(q, k, A) = amount * Cardinality(a) /\ SpentBy(q, k, B) = amount * Cardinality(b)
      /\ SpentBy(q, k, C) = amount * (Cardinality(a) + Cardinality(b))
  BY <1>1, <1>4, <1>5, <1>7 DEF SpentBy
<1>9. PICK m \in Nat, n \in Nat : m = Cardinality(a) /\ n = Cardinality(b)
  BY <1>6
<1>10. amount * (m + n) = amount * m + amount * n /\ amount * m \in Nat /\ amount * n \in Nat
  BY <1>2
<1> QED BY <1>8, <1>9, <1>10

\* What is spent on days that do not overlap adds up, and more days do not cost less.
LEMMA SpentAdds ==
  ASSUME NEW q, IsSimulation(q), NEW A, NEW B, A \cap B = {}
  PROVE  /\ SpentOn(q, A) \in Nat /\ SpentOn(q, B) \in Nat
         /\ SpentOn(q, A \cup B) = SpentOn(q, A) + SpentOn(q, B)
<1>1. PICK K, C, f, g, h : /\ K = DOMAIN q.spends /\ C = A \cup B
                           /\ f = [k \in K |-> SpentBy(q, k, A)] /\ g = [k \in K |-> SpentBy(q, k, B)]
                           /\ h = [k \in K |-> SpentBy(q, k, C)]
  <2> HIDE DEF SpentBy
  <2> QED OBVIOUS
<1>2. IsFiniteSet(K) /\ K \in SUBSET K
  BY <1>1, SpendsAssumption DEF IsSimulation
<1>3. ASSUME NEW k \in K PROVE f[k] \in Nat /\ g[k] \in Nat /\ h[k] = f[k] + g[k]
  <2>1. k \in DOMAIN q.spends
    BY <1>1
  <2>2. /\ SpentBy(q, k, A) \in Nat /\ SpentBy(q, k, B) \in Nat
        /\ SpentBy(q, k, C) = SpentBy(q, k, A) + SpentBy(q, k, B)
    <3>1. Parts(A, B, C)
      BY <1>1 DEF Parts
    <3> QED BY <2>1, <3>1, OccurrencesAdd
  <2>3. f[k] = SpentBy(q, k, A) /\ g[k] = SpentBy(q, k, B) /\ h[k] = SpentBy(q, k, C)
    BY <1>1
  <2> QED BY <2>2, <2>3
<1>4. Adds(h, f, g, K)
  BY <1>3 DEF Adds
<1>5. SetTotal(K, h) = SetTotal(K, f) + SetTotal(K, g)
  BY <1>2, <1>4, SumsAdd
<1>6. \A k \in K : f[k] \in Int /\ g[k] \in Int
  BY <1>3
<1>7. SetTotal(K, f) \in Int /\ SetTotal(K, g) \in Int
  BY <1>2, <1>6, SetSumIsInt
<1>8. SetTotal(K, f) >= 0 /\ SetTotal(K, g) >= 0
  BY <1>2, <1>3, SumKeepsSign
<1>9. SpentOn(q, A) = SetTotal(K, f) /\ SpentOn(q, B) = SetTotal(K, g) /\ SpentOn(q, C) = SetTotal(K, h)
  <2>1. \A k \in K : f[k] = SpentBy(q, k, A) /\ g[k] = SpentBy(q, k, B) /\ h[k] = SpentBy(q, k, C)
    BY <1>1
  <2>2. SpentOn(q, A) = SetTotal(K, f)
    BY <1>1, <2>1, SpentIsASum
  <2>3. SpentOn(q, B) = SetTotal(K, g)
    BY <1>1, <2>1, SpentIsASum
  <2>4. SpentOn(q, C) = SetTotal(K, h)
    BY <1>1, <2>1, SpentIsASum
  <2> QED BY <2>2, <2>3, <2>4
<1> QED BY <1>1, <1>5, <1>7, <1>8, <1>9

LEMMA SpentGrows ==
  ASSUME NEW q, IsSimulation(q), NEW A, NEW B, A \subseteq B
  PROVE  SpentOn(q, A) \in Nat /\ SpentOn(q, B) \in Nat /\ SpentOn(q, A) <= SpentOn(q, B)
<1>1. A \cap (B \ A) = {} /\ A \cup (B \ A) = B
  OBVIOUS
<1>2. SpentOn(q, A) \in Nat /\ SpentOn(q, B \ A) \in Nat
  BY <1>1, SpentAdds
<1>3. SpentOn(q, B) = SpentOn(q, A) + SpentOn(q, B \ A)
  BY <1>1, SpentAdds
<1> QED BY <1>2, <1>3

----------------------------------------------------------------------------
(* The periods of a projection. *)

\* The first day of the i-th period, and the day after its last.
PeriodStart(q, i) == Ordinal(add_months(q.start, i))
PeriodEnd(q, i) == Ordinal(add_months(add_months(q.start, i), 1))

\* Periods follow each other, and what lies between two of them is the gap after a shorter month.
LEMMA PeriodsFollow ==
  ASSUME NEW q, IsSimulation(q), NEW i \in Nat
  PROVE  /\ PeriodStart(q, i) \in Int /\ PeriodEnd(q, i) \in Int /\ PeriodStart(q, i + 1) \in Int
         /\ PeriodStart(q, i) <= PeriodEnd(q, i) /\ PeriodEnd(q, i) <= PeriodStart(q, i + 1)
         /\ PeriodDays(q, i) = PeriodStart(q, i)..(PeriodEnd(q, i) - 1)
         /\ GapAfter(q, i) = PeriodEnd(q, i)..(PeriodStart(q, i + 1) - 1)
<1>1. PICK day, k : day = q.start[3] /\ k = 12 * q.start[1] + q.start[2] - 1
  OBVIOUS
<1>2. /\ q.start \in Nat \X (1..12) \X (1..31) /\ q.start[3] <= DaysIn(q.start[1], q.start[2])
      /\ q.horizon \in Nat
  BY SpendsAssumption DEF IsSimulation
<1>3. /\ day \in 1..31 /\ k \in Int
      /\ q.start = <<k \div 12, (k % 12) + 1, day>>
  <2>1. PICK y \in Nat, m \in 1..12 : q.start = <<y, m, day>> /\ y = q.start[1] /\ m = q.start[2]
    BY <1>1, <1>2
  <2>2. k = 12 * y + (m - 1) /\ k \in Int
    BY <1>1, <2>1
  <2>3. k \div 12 = y /\ k % 12 = m - 1
    BY <2>2
  <2>4. (k % 12) + 1 = m
    BY <2>3
  <2> QED BY <1>1, <1>2, <2>1, <2>2, <2>3, <2>4
<1>4. PICK a, b, n : a = MonthLen(k + i) /\ b = MonthLen(k + i + 1) /\ n = k + i
  OBVIOUS
<1>5. /\ n \in Int /\ a \in 28..31 /\ b \in 28..31
      /\ MonthStart(n) \in Int /\ MonthStart(n + 1) \in Int /\ MonthStart(n + 1) = MonthStart(n) + a
  <2>1. n \in Int /\ n + 1 \in Int /\ n + 1 = k + i + 1
    BY <1>3, <1>4
  <2> QED BY <1>4, <2>1, MonthsFollow
<1>6. PICK c : c = AtMost(day, a)
  OBVIOUS
<1>7. /\ add_months(q.start, i) = <<n \div 12, (n % 12) + 1, c>>
      /\ PeriodStart(q, i) = MonthStart(n) + c
  <2>1. PICK date : date = <<k \div 12, (k % 12) + 1, day>>
    OBVIOUS
  <2>2. /\ add_months(date, i) = <<(k + i) \div 12, (((k + i) % 12) + 1), AtMost(day, MonthLen(k + i))>>
        /\ Ordinal(add_months(date, i)) = MonthStart(k + i) + AtMost(day, MonthLen(k + i))
    <3>1. k \in Int /\ day \in Int /\ i \in Int
      BY <1>3
    <3> QED BY <2>1, <3>1, MonthsLater
  <2>3. date = q.start
    BY <1>3, <2>1
  <2> QED BY <1>4, <1>6, <2>2, <2>3 DEF PeriodStart
<1>8. c \in Int /\ c <= a /\ c <= day /\ (c = day \/ c = a)
  BY <1>3, <1>5, <1>6 DEF AtMost
<1>9. PeriodEnd(q, i) = MonthStart(n + 1) + AtMost(c, b)
  <2>1. 1 \in Int /\ MonthLen(n + 1) = b
    BY <1>3, <1>4
  <2>2. Ordinal(add_months(<<n \div 12, (n % 12) + 1, c>>, 1)) = MonthStart(n + 1) + AtMost(c, MonthLen(n + 1))
    BY <1>5, <1>8, <2>1, MonthsLater
  <2> QED BY <1>7, <2>1, <2>2 DEF PeriodEnd
<1>10. /\ add_months(q.start, i + 1) = <<(n + 1) \div 12, (((n + 1) % 12) + 1), AtMost(day, b)>>
       /\ PeriodStart(q, i + 1) = MonthStart(n + 1) + AtMost(day, b)
  <2>1. i + 1 \in Int /\ k + (i + 1) = n + 1 /\ MonthLen(n + 1) = b
    BY <1>3, <1>4
  <2>2. /\ add_months(q.start, i + 1)
             = <<(k + (i + 1)) \div 12, (((k + (i + 1)) % 12) + 1), AtMost(day, MonthLen(k + (i + 1)))>>
        /\ Ordinal(add_months(q.start, i + 1)) = MonthStart(k + (i + 1)) + AtMost(day, MonthLen(k + (i + 1)))
    <3>1. PICK date, j : date = <<k \div 12, (k % 12) + 1, day>> /\ j = i + 1
      OBVIOUS
    <3>2. k \in Int /\ day \in Int /\ j \in Int
      BY <1>3, <3>1
    <3>3. /\ add_months(date, j) = <<(k + j) \div 12, (((k + j) % 12) + 1), AtMost(day, MonthLen(k + j))>>
          /\ Ordinal(add_months(date, j)) = MonthStart(k + j) + AtMost(day, MonthLen(k + j))
      BY <3>1, <3>2, MonthsLater
    <3>4. date = q.start
      BY <1>3, <3>1
    <3> QED BY <3>1, <3>3, <3>4
  <2> QED BY <2>1, <2>2 DEF PeriodStart
<1>11. /\ AtMost(c, b) \in Int /\ AtMost(day, b) \in Int /\ AtMost(c, b) <= AtMost(day, b)
       /\ c <= a + AtMost(c, b)
  BY <1>3, <1>5, <1>8 DEF AtMost
<1>12. PeriodDays(q, i) = PeriodStart(q, i)..(PeriodEnd(q, i) - 1)
  BY Zenon DEF PeriodDays, PeriodStart, PeriodEnd
<1>13. GapAfter(q, i) = PeriodEnd(q, i)..(PeriodStart(q, i + 1) - 1)
  <2>1. PICK short, next : short = add_months(q.start, i) /\ next = add_months(q.start, i + 1)
    OBVIOUS
  <2>2. DaysIn(short[1], short[2]) = a
    BY <1>4, <1>7, <2>1 DEF MonthLen
  <2>3. PICK e, f, first : e = AtMost(c, b) /\ f = AtMost(day, b) /\ first = MonthStart(n + 1)
    OBVIOUS
  <2>4. next[3] = f /\ \A d : Ordinal(<<next[1], next[2], d>>) = first + d
    <3>1. PICK u, v : u = (n + 1) \div 12 /\ v = (((n + 1) % 12) + 1)
      OBVIOUS
    <3>2. next[1] = u /\ next[2] = v /\ next[3] = f
      BY <1>10, <2>1, <2>3, <3>1
    <3>3. YearStart(u) \in Int /\ DaysBefore(u, v) \in Int
      BY <1>5, <3>1, YearsAdd, MonthsAdd
    <3>4. first = YearStart(u) + DaysBefore(u, v) + 0
      BY <2>3, <3>1, OrdinalIs DEF MonthStart
    <3>5. ASSUME NEW d PROVE Ordinal(<<u, v, d>>) = YearStart(u) + DaysBefore(u, v) + d
      BY OrdinalIs
    <3>6. first = YearStart(u) + DaysBefore(u, v)
      BY <3>3, <3>4
    <3> QED BY <3>2, <3>5, <3>6
  <2>5. GapAfter(q, i) = {first + d : d \in a..(f - 1)}
    <3>1. GapAfter(q, i) = {Ordinal(<<next[1], next[2], d>>) : d \in DaysIn(short[1], short[2])..(next[3] - 1)}
      BY <2>1, Zenon DEF GapAfter
    <3> QED BY <2>2, <2>4, <3>1
  <2>6. /\ first \in Int /\ e \in Int /\ f \in Int
        /\ e < f => e = a
        /\ a < f => e = a
    BY <1>3, <1>5, <1>6, <1>8, <1>11, <2>3 DEF AtMost
  <2>7. {first + d : d \in a..(f - 1)} = (first + e)..((first + f) - 1)
    <3>1. CASE e < f
      <4>1. e = a
        BY <2>6, <3>1
      <4>2. ASSUME NEW x \in (first + e)..((first + f) - 1) PROVE x - first \in a..(f - 1) /\ x = first + (x - first)
        BY <2>6, <4>1
      <4>3. ASSUME NEW d \in a..(f - 1) PROVE first + d \in (first + e)..((first + f) - 1)
        BY <2>6, <4>1
      <4> QED BY <4>2, <4>3
    <3>2. CASE ~(e < f)
      <4>1. ~(a < f)
        BY <2>6, <3>2
      <4>2. a..(f - 1) = {} /\ (first + e)..((first + f) - 1) = {}
        BY <1>5, <2>6, <3>2, <4>1
      <4> QED BY <4>2
    <3> QED BY <3>1, <3>2
  <2>8. PeriodEnd(q, i) = first + e /\ PeriodStart(q, i + 1) = first + f
    BY <1>9, <1>10, <2>3
  <2> QED BY <2>5, <2>7, <2>8
<1>14. PeriodStart(q, i) <= PeriodEnd(q, i) /\ PeriodEnd(q, i) <= PeriodStart(q, i + 1)
  BY <1>5, <1>7, <1>8, <1>9, <1>10, <1>11
<1>15. PeriodStart(q, i) \in Int /\ PeriodEnd(q, i) \in Int /\ PeriodStart(q, i + 1) \in Int
  BY <1>5, <1>7, <1>8, <1>9, <1>10, <1>11
<1> QED BY <1>12, <1>13, <1>14, <1>15

----------------------------------------------------------------------------
(* The projection of a question. *)

\* The liquidity left after each period is what the periods up to it take off.
LEMMA ProjectionUnfolds ==
  ASSUME NEW q, IsSimulation(q), NEW I, I = 0..(q.horizon - 1),
         NEW value, value = compute_simulation_projection(q)
  PROVE  \A i \in I : value[i].ending =
           (IF i = 0 THEN q.liquidity ELSE value[i - 1].ending) - SpentOn(q, PeriodDays(q, i))
<1> DEFINE Equation(it) ==
             it = [i \in I |-> (IF i = 0 THEN q.liquidity ELSE it[i - 1]) - SpentOn(q, PeriodDays(q, i))]
<1>1. PICK spent, left : /\ spent = [i \in I |-> SpentOn(q, PeriodDays(q, i))]
                         /\ left = (CHOOSE it : Equation(it))
  OBVIOUS
<1>2. value = [i \in I |-> [total |-> spent[i], ending |-> left[i]]]
  BY <1>1, Zenon DEF compute_simulation_projection
<1>3. Equation(left)
  <2>1. \A i \in I : spent[i] = SpentOn(q, PeriodDays(q, i)) /\ spent[i] \in Int
    <3>1. \A i : SpentOn(q, PeriodDays(q, i)) \in Nat
      BY SpentGrows
    <3> QED BY <1>1, <3>1
  <2>2. q.liquidity \in Int /\ q.horizon \in Nat \ {0}
    BY SpendsAssumption DEF IsSimulation
  <2>3. PICK it : it = [i \in I |-> q.liquidity - SetTotal(0..i, spent)]
    OBVIOUS
  <2>4. ASSUME NEW i \in I
        PROVE  it[i] = (IF i = 0 THEN q.liquidity ELSE it[i - 1]) - SpentOn(q, PeriodDays(q, i))
    <3>1. PICK s, t : s = 0..i /\ t = 0..(i - 1)
      OBVIOUS
    <3>2. /\ i \in Nat /\ s \in SUBSET s /\ t \in SUBSET s /\ i \in s /\ t = s \ {i} /\ s \subseteq I
          /\ (i = 0 => t = {}) /\ (i # 0 => i - 1 \in I)
      BY <2>2, <3>1
    <3>3. IsFiniteSet(s) /\ \A j \in s : spent[j] \in Int
      <4>1. IsFiniteSet(0..i)
        BY <3>2, FS_Interval
      <4> QED BY <2>1, <3>1, <3>2, <4>1
    <3>4. SetTotal(s, spent) = spent[i] + SetTotal(t, spent) /\ SetTotal(t, spent) \in Int
      BY <3>2, <3>3, SumTakes, SetSumIsInt
    <3>5. i = 0 => SetTotal(t, spent) = 0
      BY <3>2, <3>3, SumUnfolds
    <3>6. it[i] = q.liquidity - SetTotal(s, spent)
      BY <2>3, <3>1
    <3>7. i # 0 => it[i - 1] = q.liquidity - SetTotal(t, spent)
      BY <2>3, <3>1, <3>2
    <3>8. spent[i] \in Int /\ spent[i] = SpentOn(q, PeriodDays(q, i))
      BY <2>1
    <3> QED BY <2>2, <3>4, <3>5, <3>6, <3>7, <3>8
  <2>5. Equation(it)
    <3>1. it = [i \in I |-> it[i]]
      BY <2>3
    <3> QED BY <2>4, <3>1, Zenon
  <2> HIDE DEF Equation
  <2> QED BY <1>1, <2>5
<1>4. ASSUME NEW i \in I PROVE value[i].ending = left[i]
  BY <1>2
<1>5. ASSUME NEW i \in I
      PROVE  left[i] = (IF i = 0 THEN q.liquidity ELSE left[i - 1]) - SpentOn(q, PeriodDays(q, i))
  BY <1>3, Zenon
<1>6. ASSUME NEW i \in I, i # 0 PROVE i - 1 \in I
  <2>1. q.horizon \in Nat
    BY SpendsAssumption DEF IsSimulation
  <2> QED BY <1>6, <2>1
<1>7. ASSUME NEW i \in I
      PROVE  value[i].ending =
               (IF i = 0 THEN q.liquidity ELSE value[i - 1].ending) - SpentOn(q, PeriodDays(q, i))
  <2>1. i # 0 => value[i - 1].ending = left[i - 1]
    BY <1>4, <1>6
  <2> QED BY <1>4, <1>5, <2>1
<1> QED BY <1>7

\* The days from the start to the i-th period, the gaps among them, the liquidity that the periods before
\* it leave, and what they take off it.
Horizon(q, i) == PeriodStart(q, 0)..(PeriodStart(q, i) - 1)
GapsUpTo(q, i) == UNION {GapAfter(q, j) : j \in 0..(i - 1)}
Left(q, value, i) == IF i = 0 THEN q.liquidity ELSE value[i - 1].ending
Taken(q, value, i) == q.liquidity - Left(q, value, i)

CountedUpTo(q, value, i) ==
  /\ PeriodStart(q, 0) <= PeriodStart(q, i)
  /\ Left(q, value, i) \in Int
  /\ GapsUpTo(q, i) \subseteq Horizon(q, i)
  /\ Taken(q, value, i) = SpentOn(q, Horizon(q, i) \ GapsUpTo(q, i))

\* One more period takes off what falls on its days, and of the days up to the next one it holds all but the gap.
LEMMA OneMorePeriod ==
  ASSUME NEW q, IsSimulation(q), NEW value, value = compute_simulation_projection(q),
         NEW i \in Nat, i + 1 <= q.horizon, CountedUpTo(q, value, i)
  PROVE  CountedUpTo(q, value, i + 1)
<1>1. PICK H, P, X, N, G, F : /\ H = Horizon(q, i) /\ P = PeriodDays(q, i) /\ N = Horizon(q, i + 1)
                              /\ X = GapAfter(q, i) /\ G = GapsUpTo(q, i) /\ F = GapsUpTo(q, i + 1)
  OBVIOUS
<1>2. /\ PeriodStart(q, 0) \in Int /\ PeriodStart(q, i) \in Int /\ PeriodEnd(q, i) \in Int
      /\ PeriodStart(q, i + 1) \in Int /\ PeriodStart(q, 0) <= PeriodStart(q, i)
      /\ PeriodStart(q, i) <= PeriodEnd(q, i) /\ PeriodEnd(q, i) <= PeriodStart(q, i + 1)
  <2>1. 0 \in Nat
    OBVIOUS
  <2> QED BY <2>1, PeriodsFollow DEF CountedUpTo
<1>3. P = PeriodStart(q, i)..(PeriodEnd(q, i) - 1) /\ X = PeriodEnd(q, i)..(PeriodStart(q, i + 1) - 1)
  BY <1>1, PeriodsFollow
<1>4. N = (H \cup P) \cup X /\ H \cap P = {} /\ H \cap X = {} /\ P \cap X = {}
  BY <1>1, <1>2, <1>3 DEF Horizon
<1>5. F = G \cup X /\ G \subseteq H
  <2>1. 0..((i + 1) - 1) = (0..(i - 1)) \cup {i}
    OBVIOUS
  <2>2. F = UNION {GapAfter(q, j) : j \in (0..(i - 1)) \cup {i}}
    BY <1>1, <2>1 DEF GapsUpTo
  <2>3. G = UNION {GapAfter(q, j) : j \in 0..(i - 1)}
    BY <1>1 DEF GapsUpTo
  <2> QED BY <1>1, <2>2, <2>3 DEF CountedUpTo
<1>6. F \subseteq N /\ N \ F = (H \ G) \cup P /\ (H \ G) \cap P = {}
  BY <1>4, <1>5
<1>7. SpentOn(q, P) \in Nat /\ SpentOn(q, N \ F) = SpentOn(q, H \ G) + SpentOn(q, P)
  <2>1. PICK a, b : a = H \ G /\ b = N \ F
    OBVIOUS
  <2>2. a \cap P = {} /\ b = a \cup P
    BY <1>6, <2>1
  <2>3. SpentOn(q, P) \in Nat /\ SpentOn(q, a \cup P) = SpentOn(q, a) + SpentOn(q, P)
    BY <2>2, SpentAdds
  <2> QED BY <2>1, <2>2, <2>3
<1>8. /\ Left(q, value, i + 1) \in Int /\ Taken(q, value, i) \in Int
      /\ Taken(q, value, i + 1) = Taken(q, value, i) + SpentOn(q, P)
  <2>1. q.liquidity \in Int /\ q.horizon \in Nat
    BY SpendsAssumption DEF IsSimulation
  <2>2. PICK I : I = 0..(q.horizon - 1)
    OBVIOUS
  <2>3. i \in I
    BY <2>1, <2>2
  <2>4. value[i].ending = Left(q, value, i) - SpentOn(q, P)
    BY <1>1, <2>2, <2>3, ProjectionUnfolds DEF Left
  <2>5. Left(q, value, i + 1) = value[i].ending
    BY DEF Left
  <2>6. PICK l, left, p : l = q.liquidity /\ left = Left(q, value, i) /\ p = SpentOn(q, P)
    OBVIOUS
  <2>7. l \in Int /\ left \in Int /\ p \in Int
    BY <1>7, <2>1, <2>6 DEF CountedUpTo
  <2>8. Left(q, value, i + 1) = left - p
    BY <2>4, <2>5, <2>6
  <2>9. Taken(q, value, i + 1) = l - (left - p) /\ Taken(q, value, i) = l - left
    BY <2>6, <2>8 DEF Taken
  <2> QED BY <2>6, <2>7, <2>8, <2>9
<1>9. Taken(q, value, i + 1) = SpentOn(q, N \ F)
  BY <1>1, <1>7, <1>8 DEF CountedUpTo
<1>10. PeriodStart(q, 0) <= PeriodStart(q, i + 1)
  BY <1>2
<1> QED BY <1>1, <1>6, <1>8, <1>9, <1>10 DEF CountedUpTo

LEMMA EverySpendIsCounted ==
  ASSUME NEW q, IsSimulation(q), NEW value, value = compute_simulation_projection(q)
  PROVE  CountedUpTo(q, value, q.horizon) /\ PeriodStart(q, 0) = Ordinal(q.start)
<1> DEFINE Missed == {i \in 0..q.horizon : ~CountedUpTo(q, value, i)}
<1>1. q.horizon \in Nat
  BY SpendsAssumption DEF IsSimulation
<1>2. CountedUpTo(q, value, 0)
  <2>1. PeriodStart(q, 0) \in Int
    <3>1. 0 \in Nat
      OBVIOUS
    <3> QED BY <3>1, PeriodsFollow
  <2>2. PICK E : E = {}
    OBVIOUS
  <2>3. Horizon(q, 0) = E /\ E \cap E = {} /\ E \cup E = E
    BY <2>1, <2>2 DEF Horizon
  <2>4. SpentOn(q, E) \in Nat /\ SpentOn(q, E \cup E) = SpentOn(q, E) + SpentOn(q, E)
    BY <2>3, SpentAdds
  <2>5. SpentOn(q, E) = 0
    <3>1. SpentOn(q, E \cup E) = SpentOn(q, E)
      BY <2>3
    <3>2. PICK spent : spent = SpentOn(q, E)
      OBVIOUS
    <3>3. spent \in Nat /\ spent = spent + spent
      BY <2>4, <3>1, <3>2
    <3>4. spent = 0
      BY <3>3
    <3> QED BY <3>2, <3>4
  <2>6. Left(q, value, 0) = q.liquidity /\ q.liquidity \in Int
    BY SpendsAssumption DEF IsSimulation, Left
  <2>7. Taken(q, value, 0) = 0
    BY <2>6 DEF Taken
  <2>8. GapsUpTo(q, 0) = E /\ E \ E = E
    <3>1. 0..(0 - 1) = {}
      OBVIOUS
    <3> QED BY <2>2, <3>1 DEF GapsUpTo
  <2> QED BY <2>1, <2>3, <2>5, <2>6, <2>7, <2>8 DEF CountedUpTo
<1>3. Missed = {}
  <2>1. SUFFICES ASSUME Missed # {} PROVE FALSE
    OBVIOUS
  <2>2. PICK i \in Missed : \A j \in Missed : i <= j
    <3>1. Missed \subseteq Nat
      BY <1>1
    <3> HIDE DEF Missed
    <3> QED BY <2>1, <3>1, LeastExists
  <2>3. i \in Nat /\ i <= q.horizon /\ ~CountedUpTo(q, value, i)
    BY <1>1
  <2>4. PICK j : j = i - 1
    OBVIOUS
  <2>5. i # 0
    BY <1>2, <2>3
  <2>6. j \in Nat /\ j + 1 = i /\ j \in 0..q.horizon /\ ~(i <= j)
    BY <1>1, <2>3, <2>4, <2>5
  <2>7. CountedUpTo(q, value, j)
    BY <2>2, <2>6
  <2> QED BY <2>3, <2>6, <2>7, OneMorePeriod
<1>4. CountedUpTo(q, value, q.horizon)
  BY <1>1, <1>3
<1>5. add_months(q.start, 0) = q.start
  <2>1. PICK y \in Nat, m \in 1..12, d \in 1..31 : q.start = <<y, m, d>> /\ d <= DaysIn(y, m)
    <3>1. q.start \in Nat \X (1..12) \X (1..31) /\ q.start[3] <= DaysIn(q.start[1], q.start[2])
      BY SpendsAssumption DEF IsSimulation
    <3>2. PICK start : start = q.start
      OBVIOUS
    <3>3. /\ start[1] \in Nat /\ start[2] \in 1..12 /\ start[3] \in 1..31
          /\ start = <<start[1], start[2], start[3]>> /\ start[3] <= DaysIn(start[1], start[2])
      BY <3>1, <3>2
    <3> QED BY <3>2, <3>3
  <2>2. PICK t : t = <<y, m, d>>
    OBVIOUS
  <2>3. t[1] = y /\ t[2] = m /\ t[3] = d
    BY <2>2
  <2>4. y + (m - 1 + 0) \div 12 = y /\ ((m - 1 + 0) % 12) + 1 = m
    OBVIOUS
  <2>5. DaysIn(y, m) \in Int
    BY DaysInIsInt
  <2>6. add_months(t, 0) = <<y, m, IF d > DaysIn(y, m) THEN DaysIn(y, m) ELSE d>>
    BY <2>3, <2>4 DEF add_months
  <2>7. ~(d > DaysIn(y, m))
    BY <2>1, <2>5
  <2> QED BY <2>1, <2>2, <2>6, <2>7
<1> QED BY <1>4, <1>5 DEF PeriodStart

----------------------------------------------------------------------------
(* Answers about spends. *)

SimulationInv ==
  /\ question \in Questions
  /\ Answered("simulate_spend") => answer.value = compute_simulation_projection(question)

LEMMA SimulationAnswers == Spec => []SimulationInv
<1>1. Init => SimulationInv
  BY DEF Init, SimulationInv, Answered
<1>2. SimulationInv /\ [Next]_vars => SimulationInv'
  <2> SUFFICES ASSUME SimulationInv, [Next]_vars PROVE SimulationInv'
    OBVIOUS
  <2> USE DEF Asked, Gives, SimulationInv, Answered
  <2>1. CASE AnswersPosture
    BY <2>1 DEF AnswersPosture
  <2>2. CASE AnswersConsolidation
    BY <2>2 DEF AnswersConsolidation
  <2>3. CASE AnswersSimulation
    <3> HIDE DEF compute_simulation_projection
    <3> QED BY <2>3 DEF AnswersSimulation
  <2>4. CASE AnswersDebt
    BY <2>4 DEF AnswersDebt
  <2>5. CASE Reconciling
    BY <2>5 DEF Reconciling
  <2>6. CASE UNCHANGED vars
    BY <2>6 DEF vars
  <2> QED BY <2>1, <2>2, <2>3, <2>4, <2>5, <2>6 DEF Next
<1> QED BY <1>1, <1>2, PTL DEF Spec

\* domain/simulation/engine.py: for any start, horizon and spends, what the projection takes off the
\* liquidity is every occurrence within the horizon, once, but for those on days that no period holds.
THEOREM SpendsAreCountedOnceHolds == Spec => []SpendsAreCountedOnce
<1>1. SimulationInv => SpendsAreCountedOnce
  <2> SUFFICES ASSUME SimulationInv, Answered("simulate_spend")
               PROVE  LET horizon == Ordinal(question.start)..(Ordinal(add_months(question.start, question.horizon)) - 1)
                          taken == question.liquidity - Value[question.horizon - 1].ending
                      IN  taken = SpentOn(question, horizon \ GapDays(question))
    BY Zenon DEF SpendsAreCountedOnce
  <2>1. PICK q, value, n : q = question /\ value = Value /\ n = q.horizon
    OBVIOUS
  <2>2. IsSimulation(q) /\ value = compute_simulation_projection(q)
    BY <2>1 DEF SimulationInv, Answered, Value, IsSimulation
  <2>3. CountedUpTo(q, value, n) /\ PeriodStart(q, 0) = Ordinal(q.start) /\ n \in Nat \ {0}
    BY <2>1, <2>2, EverySpendIsCounted, SpendsAssumption DEF IsSimulation
  <2>4. PICK taken, days : /\ taken = q.liquidity - value[n - 1].ending
                           /\ days = Ordinal(q.start)..(Ordinal(add_months(q.start, n)) - 1)
    OBVIOUS
  <2>5. Taken(q, value, n) = taken /\ Horizon(q, n) = days
    BY <2>3, <2>4 DEF Taken, Left, Horizon, PeriodStart
  <2>6. GapsUpTo(q, n) = GapDays(q)
    BY <2>1 DEF GapsUpTo, GapDays
  <2>7. taken = SpentOn(q, days \ GapDays(q))
    BY <2>3, <2>5, <2>6 DEF CountedUpTo
  <2> QED BY <2>1, <2>4, <2>7
<1> QED BY <1>1, SimulationAnswers, PTL

----------------------------------------------------------------------------
(* The ranking of liabilities. *)

IsDebt(q) == q \in Questions /\ q.tool = "analyze_debt"

\* The liabilities of a question, as the numbers that its schema lets through.
IsLiability(l) == l.id \in Int /\ l.balance \in Nat /\ l.apr \in Nat /\ l.minimum \in Nat
AreLiabilities(L, D) ==
  /\ D = DOMAIN L /\ \E n \in Nat : D = 1..n
  /\ \A i \in D : IsLiability(L[i])
  /\ \A i, j \in D : L[i].id = L[j].id => i = j

LEMMA DebtsAreLiabilities ==
  ASSUME NEW q, IsDebt(q)
  PROVE  AreLiabilities(q.liabilities, DOMAIN q.liabilities) /\ q.payoff \in Nat
BY LiabilitiesAssumption DEF IsDebt, AreLiabilities, IsLiability

LEMMA ScoreIsInt ==
  ASSUME NEW payoff \in Nat, NEW l, IsLiability(l)
  PROVE  Score(l, payoff) \in Int
<1>1. PICK b \in Nat, a \in Nat, m \in Nat : b = l.balance /\ a = l.apr /\ m = l.minimum
  BY DEF IsLiability
<1>2. InterestOn(b, a) \in Int
  <2>1. b * a \in Int /\ 1000000 \in Nat \ {0}
    OBVIOUS
  <2> QED BY <2>1, RoundedIsInt DEF InterestOn
<1>3. PayoffReadiness(l, payoff) \in Int
  <2>1. CASE payoff # 0 /\ ~(payoff >= b)
    <3>1. b \in Nat \ {0} /\ payoff * 10000 \in Int
      BY <2>1
    <3>2. RoundHalfEven(payoff * 10000, b) \in Int
      BY <3>1, RoundedIsInt
    <3> QED BY <1>1, <2>1, <3>2 DEF PayoffReadiness
  <2>2. CASE payoff = 0 \/ payoff >= b
    BY <1>1, <2>2 DEF PayoffReadiness
  <2> QED BY <2>1, <2>2
<1>4. PICK x \in Int, y \in Int : x = InterestOn(b, a) /\ y = PayoffReadiness(l, payoff)
  BY <1>2, <1>3
<1>5. Score(l, payoff) = x + m + 100 * y
  BY <1>1, <1>4 DEF Score
<1> QED BY <1>5

\* The keys compare one after the other.
LEMMA KeysCompare ==
  ASSUME NEW payoff, NEW l, NEW m
  PROVE  RankedBefore(payoff, l, m) <=>
           \/ Score(l, payoff) > Score(m, payoff)
           \/ Score(l, payoff) = Score(m, payoff) /\ l.apr > m.apr
           \/ Score(l, payoff) = Score(m, payoff) /\ l.apr = m.apr /\ l.minimum > m.minimum
           \/ /\ Score(l, payoff) = Score(m, payoff) /\ l.apr = m.apr /\ l.minimum = m.minimum
              /\ 0 - l.id > 0 - m.id
<1>1. PICK s, t : s = <<Score(l, payoff), l.apr, l.minimum, 0 - l.id>>
                  /\ t = <<Score(m, payoff), m.apr, m.minimum, 0 - m.id>>
  OBVIOUS
<1>2. /\ s[1] = Score(l, payoff) /\ s[2] = l.apr /\ s[3] = l.minimum /\ s[4] = 0 - l.id
      /\ t[1] = Score(m, payoff) /\ t[2] = m.apr /\ t[3] = m.minimum /\ t[4] = 0 - m.id
  BY <1>1
<1>3. RankedBefore(payoff, l, m) <=> \E i \in 1..4 : (\A j \in 1..(i - 1) : s[j] = t[j]) /\ s[i] > t[i]
  BY <1>1 DEF RankedBefore
<1> DEFINE Decides(i) == (\A j \in 1..(i - 1) : s[j] = t[j]) /\ s[i] > t[i]
<1>4. Decides(1) <=> s[1] > t[1]
  OBVIOUS
<1>5. Decides(2) <=> s[1] = t[1] /\ s[2] > t[2]
  OBVIOUS
<1>6. Decides(3) <=> s[1] = t[1] /\ s[2] = t[2] /\ s[3] > t[3]
  OBVIOUS
<1>7. Decides(4) <=> s[1] = t[1] /\ s[2] = t[2] /\ s[3] = t[3] /\ s[4] > t[4]
  OBVIOUS
<1>8. (\E i \in 1..4 : Decides(i)) <=> Decides(1) \/ Decides(2) \/ Decides(3) \/ Decides(4)
  <2> HIDE DEF Decides
  <2> QED OBVIOUS
<1> QED BY <1>2, <1>3, <1>4, <1>5, <1>6, <1>7, <1>8

\* They order liabilities strictly, and two that have not the same id always.
LEMMA KeysOrder ==
  ASSUME NEW payoff \in Nat, NEW k, NEW l, NEW m, IsLiability(k), IsLiability(l), IsLiability(m)
  PROVE  /\ ~RankedBefore(payoff, l, l)
         /\ RankedBefore(payoff, k, l) /\ RankedBefore(payoff, l, m) => RankedBefore(payoff, k, m)
         /\ l.id # m.id => RankedBefore(payoff, l, m) \/ RankedBefore(payoff, m, l)
<1>1. Score(k, payoff) \in Int /\ Score(l, payoff) \in Int /\ Score(m, payoff) \in Int
  BY ScoreIsInt
<1>2. /\ k.apr \in Int /\ k.minimum \in Int /\ k.id \in Int /\ l.apr \in Int /\ l.minimum \in Int /\ l.id \in Int
      /\ m.apr \in Int /\ m.minimum \in Int /\ m.id \in Int
  BY DEF IsLiability
<1>3. ~RankedBefore(payoff, l, l)
  BY <1>1, <1>2, KeysCompare
<1>4. RankedBefore(payoff, k, l) /\ RankedBefore(payoff, l, m) => RankedBefore(payoff, k, m)
  BY <1>1, <1>2, KeysCompare
<1>5. l.id # m.id => RankedBefore(payoff, l, m) \/ RankedBefore(payoff, m, l)
  BY <1>1, <1>2, KeysCompare
<1> QED BY <1>3, <1>4, <1>5

\* The positions whose liabilities come before the i-th.
Better(L, payoff, i) == {j \in DOMAIN L : RankedBefore(payoff, L[j], L[i])}

LEMMA PlaceIs ==
  ASSUME NEW payoff \in Nat, NEW L, NEW D, AreLiabilities(L, D), NEW i \in D
  PROVE  /\ Place(L, payoff, i) = 1 + Cardinality(Better(L, payoff, i))
         /\ Better(L, payoff, i) \in SUBSET (D \ {i}) /\ IsFiniteSet(D)
<1>1. PICK n \in Nat : D = 1..n /\ D = DOMAIN L
  BY DEF AreLiabilities
<1>2. IsFiniteSet(D) /\ D \subseteq Int
  <2>1. IsFiniteSet(1..n)
    BY FS_Interval
  <2> QED BY <1>1, <2>1
<1>3. ASSUME NEW j \in D
      PROVE  (RankedBefore(payoff, L[j], L[i]) \/ (j < i /\ ~RankedBefore(payoff, L[i], L[j])))
               <=> RankedBefore(payoff, L[j], L[i])
  <2>1. IsLiability(L[i]) /\ IsLiability(L[j]) /\ (j # i => L[j].id # L[i].id)
    BY DEF AreLiabilities
  <2>2. j # i => RankedBefore(payoff, L[j], L[i]) \/ RankedBefore(payoff, L[i], L[j])
    BY <2>1, KeysOrder
  <2>3. j < i => j # i
    BY <1>2
  <2> QED BY <2>2, <2>3
<1>4. {j \in DOMAIN L : \/ RankedBefore(payoff, L[j], L[i])
                        \/ j < i /\ ~RankedBefore(payoff, L[i], L[j])} = Better(L, payoff, i)
  BY <1>1, <1>3 DEF Better
<1>5. Place(L, payoff, i) = 1 + Cardinality(Better(L, payoff, i))
  BY <1>4, Zenon DEF Place
<1>6. ~RankedBefore(payoff, L[i], L[i])
  <2>1. IsLiability(L[i])
    BY DEF AreLiabilities
  <2> QED BY <2>1, KeysOrder
<1>7. Better(L, payoff, i) \in SUBSET (D \ {i})
  BY <1>1, <1>6 DEF Better
<1> QED BY <1>2, <1>5, <1>7

\* Every place is taken once.
EachPlaceIsTaken(L, payoff, D) ==
  /\ \A i \in D : Place(L, payoff, i) \in D
  /\ \A i, j \in D : Place(L, payoff, i) = Place(L, payoff, j) => i = j
  /\ \A r \in D : \E i \in D : Place(L, payoff, i) = r

LEMMA PlacesAreTaken ==
  ASSUME NEW payoff \in Nat, NEW L, NEW D, AreLiabilities(L, D)
  PROVE  EachPlaceIsTaken(L, payoff, D)
<1>1. PICK n \in Nat : D = 1..n
  BY DEF AreLiabilities
<1>2. Cardinality(D) = n /\ IsFiniteSet(D)
  <2>1. 1 \in Int /\ n \in Int /\ (IF 1 > n THEN 0 ELSE n - 1 + 1) = n
    OBVIOUS
  <2> QED BY <1>1, <2>1, FS_Interval
<1>3. ASSUME NEW i \in D
      PROVE  /\ IsFiniteSet(Better(L, payoff, i)) /\ Cardinality(Better(L, payoff, i)) \in Nat
             /\ Cardinality(Better(L, payoff, i)) <= n - 1
             /\ Place(L, payoff, i) = 1 + Cardinality(Better(L, payoff, i))
  <2>1. Better(L, payoff, i) \in SUBSET (D \ {i}) /\ Place(L, payoff, i) = 1 + Cardinality(Better(L, payoff, i))
    BY PlaceIs
  <2>2. IsFiniteSet(D \ {i}) /\ Cardinality(D \ {i}) = n - 1
    BY <1>2, FS_RemoveElement
  <2> QED BY <2>1, <2>2, FS_Subset, FS_CardinalityType
<1>4. ASSUME NEW i \in D PROVE Place(L, payoff, i) \in D
  <2>1. PICK c : c = Cardinality(Better(L, payoff, i))
    OBVIOUS
  <2>2. c \in Nat /\ c <= n - 1 /\ Place(L, payoff, i) = 1 + c
    BY <1>3, <2>1
  <2>3. 1 + c \in 1..n
    BY <2>2
  <2> QED BY <1>1, <2>2, <2>3
<1>5. ASSUME NEW i \in D, NEW j \in D, RankedBefore(payoff, L[i], L[j])
      PROVE  Place(L, payoff, i) < Place(L, payoff, j)
  <2>1. i \in Better(L, payoff, j) /\ i \notin Better(L, payoff, i)
    <3>1. i \in Better(L, payoff, j)
      BY <1>5 DEF Better, AreLiabilities
    <3>2. i \notin Better(L, payoff, i)
      BY PlaceIs
    <3> QED BY <3>1, <3>2
  <2>2. Better(L, payoff, i) \subseteq Better(L, payoff, j)
    <3>1. ASSUME NEW k \in D, RankedBefore(payoff, L[k], L[i]) PROVE RankedBefore(payoff, L[k], L[j])
      <4>1. IsLiability(L[i]) /\ IsLiability(L[j]) /\ IsLiability(L[k])
        BY DEF AreLiabilities
      <4> QED BY <1>5, <3>1, <4>1, KeysOrder
    <3> QED BY <3>1 DEF Better, AreLiabilities
  <2>3. /\ Cardinality(Better(L, payoff, i)) <= Cardinality(Better(L, payoff, j))
        /\ Cardinality(Better(L, payoff, i)) # Cardinality(Better(L, payoff, j))
    BY <1>3, <2>1, <2>2, FS_Subset
  <2> QED BY <1>3, <2>3
<1>6. ASSUME NEW i \in D, NEW j \in D, Place(L, payoff, i) = Place(L, payoff, j) PROVE i = j
  <2>1. SUFFICES ASSUME i # j PROVE FALSE
    OBVIOUS
  <2>2. IsLiability(L[i]) /\ IsLiability(L[j]) /\ L[i].id # L[j].id
    BY <2>1 DEF AreLiabilities
  <2>3. RankedBefore(payoff, L[i], L[j]) \/ RankedBefore(payoff, L[j], L[i])
    BY <2>2, KeysOrder
  <2>4. Place(L, payoff, i) \in Int /\ Place(L, payoff, j) \in Int
    BY <1>3
  <2> QED BY <1>5, <1>6, <2>3, <2>4
<1>7. PICK f : f = [i \in D |-> Place(L, payoff, i)]
  OBVIOUS
<1>8. f \in Injection(D, D)
  <2>1. f \in [D -> D]
    BY <1>4, <1>7
  <2>2. \A i, j \in D : f[i] = f[j] => i = j
    BY <1>6, <1>7
  <2> QED BY <2>1, <2>2 DEF Injection, IsInjective
<1>9. f \in Surjection(D, D)
  BY <1>2, <1>8, FS_Injection
<1>10. \A r \in D : \E i \in D : f[i] = r
  BY <1>9 DEF Surjection
<1>11. \A r \in D : \E i \in D : Place(L, payoff, i) = r
  BY <1>7, <1>10
<1> QED BY <1>4, <1>6, <1>11 DEF EachPlaceIsTaken

\* The ranking holds each liability once, at its place.
RanksBy(at, L, payoff, D) ==
  /\ at \in [D -> D] /\ \A r \in D : Place(L, payoff, at[r]) = r
  /\ Ranked(L, payoff) = [r \in D |-> L[at[r]]]

LEMMA RankedIs ==
  ASSUME NEW payoff \in Nat, NEW L, NEW D, AreLiabilities(L, D)
  PROVE  \E at : RanksBy(at, L, payoff, D)
<1>1. PICK at : at = [r \in D |-> CHOOSE i \in D : Place(L, payoff, i) = r]
  OBVIOUS
<1>2. EachPlaceIsTaken(L, payoff, D) /\ D = DOMAIN L
  BY PlacesAreTaken DEF AreLiabilities
<1>3. ASSUME NEW r \in D PROVE at[r] \in D /\ Place(L, payoff, at[r]) = r
  BY <1>1, <1>2 DEF EachPlaceIsTaken
<1>4. at \in [D -> D]
  BY <1>1, <1>3
<1>5. Ranked(L, payoff) = [r \in D |-> L[at[r]]]
  BY <1>1, <1>2 DEF Ranked
<1> QED BY <1>3, <1>4, <1>5 DEF RanksBy

\* The ranking does not depend on the order in which the liabilities are listed.
LEMMA RankingIsCanonical ==
  ASSUME NEW payoff \in Nat, NEW L, NEW D, AreLiabilities(L, D),
         NEW p \in [D -> D], \A i, j \in D : p[i] = p[j] => i = j,
         NEW M, M = [i \in D |-> L[p[i]]]
  PROVE  Ranked(M, payoff) = Ranked(L, payoff)
<1>1. AreLiabilities(M, D) /\ IsFiniteSet(D)
  <2>1. AreLiabilities(M, D)
    BY DEF AreLiabilities
  <2>2. PICK n \in Nat : D = 1..n
    BY DEF AreLiabilities
  <2> QED BY <2>1, <2>2, FS_Interval
<1>2. \A i \in D : \E j \in D : p[j] = i
  <2>1. p \in Injection(D, D)
    BY DEF Injection, IsInjective
  <2>2. p \in Surjection(D, D)
    BY <1>1, <2>1, FS_Injection
  <2> QED BY <2>2 DEF Surjection
<1>3. ASSUME NEW i \in D PROVE Place(M, payoff, i) = Place(L, payoff, p[i])
  <2>1. PICK A, B, f : A = Better(M, payoff, i) /\ B = Better(L, payoff, p[i]) /\ f = [j \in A |-> p[j]]
    OBVIOUS
  <2>2. A = {j \in D : RankedBefore(payoff, L[p[j]], L[p[i]])} /\ B = {j \in D : RankedBefore(payoff, L[j], L[p[i]])}
    BY <2>1 DEF Better, AreLiabilities
  <2>3. f \in [A -> B]
    BY <2>1, <2>2
  <2>4. \A j, k \in A : f[j] = f[k] => j = k
    BY <2>1, <2>2
  <2>5. \A k \in B : \E j \in A : f[j] = k
    BY <1>2, <2>1, <2>2
  <2>6. f \in Bijection(A, B)
    <3>1. f \in Injection(A, B)
      BY <2>3, <2>4 DEF Injection, IsInjective
    <3>2. f \in Surjection(A, B)
      BY <2>3, <2>5 DEF Surjection
    <3> QED BY <3>1, <3>2 DEF Bijection
  <2>7. IsFiniteSet(A)
    BY <1>1, <2>2, FS_Subset
  <2>8. Cardinality(B) = Cardinality(A)
    <3>1. ExistsBijection(A, B)
      BY <2>6 DEF ExistsBijection
    <3> QED BY <2>7, <3>1, FS_Bijection
  <2>9. Place(M, payoff, i) = 1 + Cardinality(A)
    BY <1>1, <2>1, PlaceIs
  <2>10. Place(L, payoff, p[i]) = 1 + Cardinality(B)
    <3>1. p[i] \in D
      OBVIOUS
    <3> QED BY <2>1, <3>1, PlaceIs
  <2> QED BY <2>8, <2>9, <2>10
<1>4. PICK at : RanksBy(at, L, payoff, D)
  BY RankedIs
<1>5. PICK bt : RanksBy(bt, M, payoff, D)
  BY <1>1, RankedIs
<1>6. ASSUME NEW r \in D PROVE M[bt[r]] = L[at[r]]
  <2>1. Place(L, payoff, p[bt[r]]) = r /\ Place(L, payoff, at[r]) = r
    BY <1>3, <1>4, <1>5 DEF RanksBy
  <2>2. p[bt[r]] \in D /\ at[r] \in D /\ EachPlaceIsTaken(L, payoff, D)
    BY <1>4, <1>5, PlacesAreTaken DEF RanksBy
  <2>3. p[bt[r]] = at[r]
    BY <2>1, <2>2 DEF EachPlaceIsTaken
  <2>4. bt[r] \in D
    BY <1>5 DEF RanksBy
  <2> QED BY <2>3, <2>4
<1> QED BY <1>4, <1>5, <1>6 DEF RanksBy

----------------------------------------------------------------------------
(* The payoff. *)

\* What the first r liabilities of a ranking owe, and what they leave of the payoff.
Owed(R, r) == SetTotal(1..r, [i \in DOMAIN R |-> R[i].balance])
Rest(R, payoff, r) == IF payoff >= Owed(R, r) THEN payoff - Owed(R, r) ELSE 0

\* What the r-th draws.
NthDrawn(R, payoff, r) == Drawn(Rest(R, payoff, r - 1), R[r], payoff)

IsRanking(R, n) == n \in Nat /\ DOMAIN R = 1..n /\ \A i \in 1..n : IsLiability(R[i])

LEMMA OwedGrows ==
  ASSUME NEW R, NEW n, IsRanking(R, n)
  PROVE  /\ Owed(R, 0) = 0
         /\ \A r \in 0..n : Owed(R, r) \in Nat
         /\ \A r \in 1..n : Owed(R, r) = Owed(R, r - 1) + R[r].balance
         /\ \A r, s \in 0..n : r <= s => Owed(R, r) <= Owed(R, s)
<1>1. PICK D, bal : D = 1..n /\ bal = [i \in DOMAIN R |-> R[i].balance]
  OBVIOUS
<1>2. n \in Nat /\ IsFiniteSet(D) /\ DOMAIN R = D
  BY <1>1, FS_Interval DEF IsRanking
<1>3. \A i \in D : bal[i] = R[i].balance /\ bal[i] \in Nat
  BY <1>1 DEF IsRanking, IsLiability
<1>4. \A r : Owed(R, r) = SetTotal(1..r, bal)
  BY <1>1 DEF Owed
<1>5. ASSUME NEW A \in SUBSET D PROVE SetTotal(A, bal) \in Nat /\ IsFiniteSet(A)
  <2>1. IsFiniteSet(A) /\ \A i \in A : bal[i] \in Int /\ bal[i] >= 0
    BY <1>2, <1>3, FS_Subset
  <2>2. SetTotal(A, bal) >= 0
    BY <2>1, SumKeepsSign
  <2>3. SetTotal(A, bal) \in Int
    BY <1>2, <1>3, SetSumIsInt
  <2> QED BY <2>1, <2>2, <2>3
<1>6. Owed(R, 0) = 0
  <2>1. 1..0 = {}
    OBVIOUS
  <2> QED BY <1>2, <1>4, <2>1, SumUnfolds
<1>7. ASSUME NEW r \in 0..n PROVE Owed(R, r) \in Nat
  <2>1. 1..r \in SUBSET D
    BY <1>1, <1>2
  <2> QED BY <1>4, <1>5, <2>1
<1>8. ASSUME NEW r \in 1..n PROVE Owed(R, r) = Owed(R, r - 1) + R[r].balance
  <2>1. PICK S, T : S = 1..r /\ T = 1..(r - 1)
    OBVIOUS
  <2>2. S \in SUBSET D /\ r \in S /\ T = S \ {r} /\ T \in SUBSET D /\ r \in D
    BY <1>1, <1>2, <2>1
  <2>3. \A i \in D : bal[i] \in Int
    BY <1>3
  <2>4. SetTotal(S, bal) = bal[r] + SetTotal(S \ {r}, bal)
    BY <1>2, <2>2, <2>3, SumTakes
  <2>5. SetTotal(T, bal) \in Nat
    BY <1>5, <2>2
  <2>6. Owed(R, r) = SetTotal(S, bal) /\ Owed(R, r - 1) = SetTotal(T, bal)
    BY <1>4, <2>1
  <2>7. bal[r] = R[r].balance /\ bal[r] \in Int
    BY <1>3, <2>2
  <2> QED BY <2>2, <2>4, <2>5, <2>6, <2>7
<1>9. ASSUME NEW r \in 0..n, NEW s \in 0..n, r <= s PROVE Owed(R, r) <= Owed(R, s)
  <2>1. PICK A, B, C : A = 1..r /\ B = (r + 1)..s /\ C = 1..s
    OBVIOUS
  <2>2. A \cup B = C /\ A \cap B = {} /\ A \in SUBSET D /\ B \in SUBSET D
    BY <1>1, <1>2, <1>9, <2>1
  <2>3. IsFiniteSet(A) /\ IsFiniteSet(B) /\ \A i \in A \cup B : bal[i] \in Int
    BY <1>3, <1>5, <2>2
  <2>4. SetTotal(A \cup B, bal) = SetTotal(A, bal) + SetTotal(B, bal)
    BY <2>2, <2>3, SumOfUnion
  <2>5. SetTotal(A, bal) \in Nat /\ SetTotal(B, bal) \in Nat
    BY <1>5, <2>2
  <2>6. Owed(R, r) = SetTotal(A, bal) /\ Owed(R, s) = SetTotal(C, bal)
    BY <1>4, <2>1
  <2>7. SetTotal(C, bal) = SetTotal(A, bal) + SetTotal(B, bal)
    BY <2>2, <2>4
  <2>8. PICK a \in Nat, b \in Nat : a = SetTotal(A, bal) /\ b = SetTotal(B, bal)
    BY <2>5
  <2> QED BY <2>6, <2>7, <2>8
<1> QED BY <1>6, <1>7, <1>8, <1>9

\* What the next liability draws of the rest leaves the rest after it.
RestGoesDown(R, n, payoff) ==
  /\ Rest(R, payoff, 0) = payoff
  /\ \A r \in 0..n : Rest(R, payoff, r) \in Nat
  /\ \A r \in 1..n : /\ NthDrawn(R, payoff, r) \in Nat /\ NthDrawn(R, payoff, r) <= R[r].balance
                     /\ Rest(R, payoff, r) = Rest(R, payoff, r - 1) - NthDrawn(R, payoff, r)

LEMMA RestFollows ==
  ASSUME NEW R, NEW n, IsRanking(R, n), NEW payoff \in Nat
  PROVE  RestGoesDown(R, n, payoff)
<1>1. Rest(R, payoff, 0) = payoff
  BY OwedGrows DEF Rest
<1>2. \A r \in 0..n : Rest(R, payoff, r) \in Nat
  BY OwedGrows DEF Rest
<1>3. ASSUME NEW r \in 1..n
      PROVE  /\ NthDrawn(R, payoff, r) \in Nat
             /\ NthDrawn(R, payoff, r) <= R[r].balance
             /\ Rest(R, payoff, r) = Rest(R, payoff, r - 1) - NthDrawn(R, payoff, r)
  <2>1. n \in Nat /\ r - 1 \in 0..n /\ r \in 0..n
    BY DEF IsRanking
  <2>2. PICK o, b, u : o = Owed(R, r - 1) /\ b = R[r].balance /\ u = Owed(R, r)
    OBVIOUS
  <2>3. o \in Nat /\ b \in Nat /\ u = o + b
    BY <2>1, <2>2, OwedGrows DEF IsRanking, IsLiability
  <2>4. /\ Rest(R, payoff, r - 1) = IF payoff >= o THEN payoff - o ELSE 0
        /\ Rest(R, payoff, r) = IF payoff >= u THEN payoff - u ELSE 0
    BY <2>2 DEF Rest
  <2> QED BY <2>2, <2>3, <2>4 DEF Drawn, NthDrawn
<1> QED BY <1>1, <1>2, <1>3 DEF RestGoesDown

LEMMA PaidOffIs ==
  ASSUME NEW R, NEW n, IsRanking(R, n), NEW payoff \in Nat, NEW value, value = PaidOff(R, payoff)
  PROVE  /\ DOMAIN value = 1..n
         /\ \A r \in 1..n :
              /\ value[r].applied = NthDrawn(R, payoff, r)
              /\ value[r].post = R[r].balance - value[r].applied
              /\ value[r].saved = InterestOn(value[r].applied, R[r].apr)
              /\ value[r].interest = InterestOn(R[r].balance, R[r].apr)
<1> DEFINE I == {0} \union DOMAIN R
           Equation(it) ==
             it = [r \in I |-> IF r = 0 THEN payoff ELSE it[r - 1] - Drawn(it[r - 1], R[r], payoff)]
<1>0. RestGoesDown(R, n, payoff)
  BY RestFollows
<1>1. PICK left : left = (CHOOSE it : Equation(it))
  OBVIOUS
<1>2. value = [r \in DOMAIN R |-> RankedLiability(R[r], Drawn(left[r - 1], R[r], payoff), payoff)]
  <2>1. PaidOff(R, payoff) =
          [r \in DOMAIN R |->
             RankedLiability(R[r], Drawn((CHOOSE it : Equation(it))[r - 1], R[r], payoff), payoff)]
    BY Zenon DEF PaidOff
  <2> HIDE DEF Equation
  <2> QED BY <1>1, <2>1
<1>3. \A r \in DOMAIN R : value[r] = RankedLiability(R[r], Drawn(left[r - 1], R[r], payoff), payoff)
  BY <1>2
<1>4. n \in Nat /\ DOMAIN R = 1..n /\ I = 0..n
  BY DEF IsRanking
<1>5. Equation(left)
  <2>1. PICK it : it = [r \in I |-> Rest(R, payoff, r)]
    OBVIOUS
  <2>2. ASSUME NEW r \in I
        PROVE  it[r] = IF r = 0 THEN payoff ELSE it[r - 1] - Drawn(it[r - 1], R[r], payoff)
    <3>1. CASE r = 0
      BY <2>1, <3>1, <1>0 DEF RestGoesDown
    <3>2. CASE r # 0
      <4>1. r \in 1..n /\ r - 1 \in I
        BY <1>4, <3>2
      <4>2. it[r] = Rest(R, payoff, r) /\ it[r - 1] = Rest(R, payoff, r - 1)
        BY <2>1, <4>1
      <4>3. Rest(R, payoff, r) = Rest(R, payoff, r - 1) - NthDrawn(R, payoff, r)
        BY <4>1, <1>0 DEF RestGoesDown
      <4>4. NthDrawn(R, payoff, r) = Drawn(Rest(R, payoff, r - 1), R[r], payoff)
        BY DEF NthDrawn
      <4> QED BY <4>4, <3>2, <4>2, <4>3
    <3> QED BY <3>1, <3>2
  <2>3. Equation(it)
    <3>1. it = [r \in I |-> it[r]]
      BY <2>1
    <3> QED BY <2>2, <3>1, Zenon
  <2> HIDE DEF Equation
  <2> QED BY <1>1, <2>3
<1>6. \A r \in I : left[r] = IF r = 0 THEN payoff ELSE left[r - 1] - Drawn(left[r - 1], R[r], payoff)
  BY <1>5, Zenon
<1> HIDE DEF Equation
<1>7. \A r \in 0..n : left[r] = Rest(R, payoff, r)
  <2> DEFINE Off == {r \in 0..n : left[r] # Rest(R, payoff, r)}
  <2>1. SUFFICES ASSUME Off # {} PROVE FALSE
    OBVIOUS
  <2>2. PICK r \in Off : \A s \in Off : r <= s
    <3>1. Off \subseteq Nat
      OBVIOUS
    <3> HIDE DEF Off
    <3> QED BY <2>1, <3>1, LeastExists
  <2>3. r \in 0..n /\ left[r] # Rest(R, payoff, r)
    OBVIOUS
  <2>4. r # 0
    BY <1>4, <1>6, <2>3, <1>0 DEF RestGoesDown
  <2>5. r \in 1..n /\ r - 1 \in 0..n /\ ~(r <= r - 1)
    BY <1>4, <2>3, <2>4
  <2>6. left[r - 1] = Rest(R, payoff, r - 1)
    BY <2>2, <2>5
  <2>7. left[r] = left[r - 1] - Drawn(left[r - 1], R[r], payoff)
    BY <1>4, <1>6, <2>3, <2>4
  <2>8. Rest(R, payoff, r) = Rest(R, payoff, r - 1) - NthDrawn(R, payoff, r)
    BY <2>5, <1>0 DEF RestGoesDown
  <2> QED BY <2>3, <2>6, <2>7, <2>8 DEF NthDrawn
<1>8. ASSUME NEW r \in 1..n
      PROVE  /\ value[r].applied = NthDrawn(R, payoff, r)
             /\ value[r].post = R[r].balance - value[r].applied
             /\ value[r].saved = InterestOn(value[r].applied, R[r].apr)
             /\ value[r].interest = InterestOn(R[r].balance, R[r].apr)
  <2>1. r \in DOMAIN R /\ r - 1 \in 0..n
    BY <1>4
  <2>2. PICK a : a = NthDrawn(R, payoff, r)
    OBVIOUS
  <2>3. value[r] = RankedLiability(R[r], a, payoff)
    BY <1>3, <1>7, <2>1, <2>2 DEF NthDrawn
  <2> QED BY <2>2, <2>3 DEF RankedLiability
<1>9. DOMAIN value = 1..n
  BY <1>2, <1>4
<1> QED BY <1>8, <1>9

\* The sums of the property.
TotalOwed(L) == MapThenSumSet(LAMBDA i : L[i].balance, DOMAIN L)
TotalApplied(value) == MapThenSumSet(LAMBDA r : value[r].applied, DOMAIN value)

LEMMA OwedIsASum ==
  ASSUME NEW L, NEW D, D = DOMAIN L, NEW g, \A i \in D : g[i] = L[i].balance
  PROVE  TotalOwed(L) = SetTotal(D, g)
<1> DEFINE Term(i) == L[i].balance
           Folds(it) == it = [s \in SUBSET D |->
                                IF s = {} THEN 0 ELSE Term(CHOOSE x \in s : TRUE) + it[s \ {CHOOSE x \in s : TRUE}]]
<1>1. TotalOwed(L) = (CHOOSE it : Folds(it))[D]
  BY Zenon DEF TotalOwed, MapThenSumSet, MapThenFoldSet
<1>2. \A s \in SUBSET D : s # {} => g[First(s)] = Term(First(s))
  BY DEF First
<1> HIDE DEF Term
<1>3. \A it : Folds(it) <=> Sums(it, D, g)
  BY <1>2 DEF Sums, First
<1> HIDE DEF Folds
<1>4. (CHOOSE it : Folds(it)) = (CHOOSE it : Sums(it, D, g))
  BY <1>3
<1> QED BY <1>1, <1>4 DEF SetTotal

LEMMA AppliedIsASum ==
  ASSUME NEW value, NEW D, D = DOMAIN value, NEW g, \A r \in D : g[r] = value[r].applied
  PROVE  TotalApplied(value) = SetTotal(D, g)
<1> DEFINE Term(r) == value[r].applied
           Folds(it) == it = [s \in SUBSET D |->
                                IF s = {} THEN 0 ELSE Term(CHOOSE x \in s : TRUE) + it[s \ {CHOOSE x \in s : TRUE}]]
<1>1. TotalApplied(value) = (CHOOSE it : Folds(it))[D]
  BY Zenon DEF TotalApplied, MapThenSumSet, MapThenFoldSet
<1>2. \A s \in SUBSET D : s # {} => g[First(s)] = Term(First(s))
  BY DEF First
<1> HIDE DEF Term
<1>3. \A it : Folds(it) <=> Sums(it, D, g)
  BY <1>2 DEF Sums, First
<1> HIDE DEF Folds
<1>4. (CHOOSE it : Folds(it)) = (CHOOSE it : Sums(it, D, g))
  BY <1>3
<1> QED BY <1>1, <1>4 DEF SetTotal

\* What is drawn, all together, is what the payoff no longer has.
LEMMA DrawnAddsUp ==
  ASSUME NEW R, NEW n, IsRanking(R, n), NEW payoff \in Nat,
         NEW drawn, \A r \in 1..n : drawn[r] = NthDrawn(R, payoff, r)
  PROVE  SetTotal(1..n, drawn) = payoff - Rest(R, payoff, n)
<1>0. RestGoesDown(R, n, payoff)
  BY RestFollows
<1>1. PICK D : D = 1..n
  OBVIOUS
<1>2. n \in Nat /\ IsFiniteSet(D) /\ \A r \in D : drawn[r] \in Int
  <2>1. n \in Nat /\ IsFiniteSet(1..n)
    BY FS_Interval DEF IsRanking
  <2>2. \A r \in 1..n : drawn[r] \in Nat
    BY <1>0 DEF RestGoesDown
  <2> QED BY <1>1, <2>1, <2>2
<1> DEFINE Off == {r \in 0..n : SetTotal(1..r, drawn) # payoff - Rest(R, payoff, r)}
<1>3. Off = {}
  <2>1. SUFFICES ASSUME Off # {} PROVE FALSE
    OBVIOUS
  <2>2. PICK r \in Off : \A s \in Off : r <= s
    <3>1. Off \subseteq Nat
      OBVIOUS
    <3> HIDE DEF Off
    <3> QED BY <2>1, <3>1, LeastExists
  <2>3. r \in 0..n /\ SetTotal(1..r, drawn) # payoff - Rest(R, payoff, r)
    OBVIOUS
  <2>4. r # 0
    <3>1. 1..0 = {} /\ SetTotal({}, drawn) = 0
      BY <1>2, SumUnfolds
    <3>2. SetTotal(1..0, drawn) = payoff - Rest(R, payoff, 0)
      BY <3>1, <1>0 DEF RestGoesDown
    <3> QED BY <2>3, <3>2
  <2>5. r \in 1..n /\ r - 1 \in 0..n /\ ~(r <= r - 1)
    BY <1>2, <2>3, <2>4
  <2>6. PICK S, T : S = 1..r /\ T = 1..(r - 1)
    OBVIOUS
  <2>7. S \in SUBSET D /\ r \in S /\ T = S \ {r} /\ T \in SUBSET D
    BY <1>1, <1>2, <2>5, <2>6
  <2>8. SetTotal(S, drawn) = drawn[r] + SetTotal(T, drawn)
    BY <1>2, <2>7, SumTakes
  <2>9. SetTotal(T, drawn) = payoff - Rest(R, payoff, r - 1)
    BY <2>2, <2>5, <2>6
  <2>10. PICK x, y, d : x = Rest(R, payoff, r - 1) /\ y = Rest(R, payoff, r) /\ d = drawn[r]
    OBVIOUS
  <2>11. x \in Nat /\ d \in Nat /\ y = x - d
    BY <2>5, <2>10, <1>0 DEF RestGoesDown
  <2>12. SetTotal(S, drawn) = payoff - y
    BY <2>8, <2>9, <2>10, <2>11
  <2> QED BY <2>3, <2>6, <2>10, <2>12
<1>4. n \in 0..n
  BY <1>2
<1> QED BY <1>3, <1>4

\* A ranking owes what its liabilities owe.
LEMMA RankingOwes ==
  ASSUME NEW payoff \in Nat, NEW L, NEW D, AreLiabilities(L, D), NEW n \in Nat, D = 1..n,
         NEW bal, \A i \in D : bal[i] = L[i].balance
  PROVE  IsRanking(Ranked(L, payoff), n) /\ Owed(Ranked(L, payoff), n) = SetTotal(D, bal)
<1>1. PICK at : RanksBy(at, L, payoff, D)
  BY RankedIs
<1>2. PICK R : R = Ranked(L, payoff)
  OBVIOUS
<1>3. at \in [D -> D] /\ DOMAIN R = D /\ \A r \in D : R[r] = L[at[r]]
  BY <1>1, <1>2 DEF RanksBy
<1>4. IsRanking(R, n)
  BY <1>3 DEF IsRanking, AreLiabilities
<1>5. PICK g : g = [r \in D |-> R[r].balance]
  OBVIOUS
<1>6. ASSUME NEW r \in D PROVE g[r] \in Int /\ g[r] = bal[at[r]]
  <2>1. at[r] \in D /\ g[r] = R[r].balance /\ R[r] = L[at[r]]
    BY <1>3, <1>5
  <2>2. R[r].balance \in Nat
    BY <1>4 DEF IsRanking, IsLiability
  <2> QED BY <2>1, <2>2
<1>7. IsFiniteSet(D)
  <2>1. 1 \in Int /\ n \in Int
    OBVIOUS
  <2> QED BY <2>1, FS_Interval
<1>8. Groups(bal, D, at, D, g)
  <2>1. ASSUME NEW i \in D PROVE bal[i] = SetTotal({r \in D : at[r] = i}, g)
    <3>1. EachPlaceIsTaken(L, payoff, D)
      BY PlacesAreTaken
    <3>2. PICK s : s = Place(L, payoff, i)
      OBVIOUS
    <3>3. s \in D /\ at[s] = i
      <4>1. s \in D
        BY <3>1, <3>2 DEF EachPlaceIsTaken
      <4>2. Place(L, payoff, at[s]) = s /\ at[s] \in D
        BY <1>1, <4>1 DEF RanksBy
      <4> QED BY <3>1, <3>2, <4>1, <4>2 DEF EachPlaceIsTaken
    <3>4. \A r \in D : at[r] = i => r = s
      BY <1>1, <3>2 DEF RanksBy
    <3>5. {r \in D : at[r] = i} = {s}
      BY <3>3, <3>4
    <3>6. PICK S : S = {s}
      OBVIOUS
    <3>7. S \in SUBSET D /\ s \in S /\ S \ {s} = {}
      BY <3>3, <3>6
    <3>8. SetTotal(S, g) = g[s] + SetTotal({}, g)
      BY <1>6, <1>7, <3>7, SumTakes
    <3>9. SetTotal({}, g) = 0
      BY <1>7, SumUnfolds
    <3>10. g[s] \in Int /\ g[s] = bal[i]
      BY <1>6, <3>3
    <3>11. SetTotal(S, g) = bal[i]
      BY <3>8, <3>9, <3>10
    <3> QED BY <3>5, <3>6, <3>11
  <2> QED BY <2>1 DEF Groups
<1>9. SetTotal(D, bal) = SetTotal(D, g)
  <2>1. \A r \in D : at[r] \in D
    BY <1>3
  <2>2. \A r \in D : g[r] \in Int
    BY <1>6
  <2>3. PICK I, E : I = D /\ E = D
    OBVIOUS
  <2>4. /\ IsFiniteSet(I) /\ IsFiniteSet(E) /\ \A r \in I : at[r] \in E
        /\ \A r \in I : g[r] \in Int
    BY <1>7, <2>1, <2>2, <2>3
  <2>5. Groups(bal, E, at, I, g)
    BY <1>8, <2>3
  <2>6. SetTotal(E, bal) = SetTotal(I, g)
    BY <2>4, <2>5, SumByGroups
  <2> QED BY <2>3, <2>6
<1>10. Owed(R, n) = SetTotal(D, g)
  BY <1>3, <1>5 DEF Owed
<1> QED BY <1>2, <1>4, <1>9, <1>10

\* Interest saved on a part is at most the interest on the whole.
LEMMA InterestGrows ==
  ASSUME NEW a \in Nat, NEW b \in Nat, NEW apr \in Nat, a <= b
  PROVE  InterestOn(a, apr) <= InterestOn(b, apr)
<1>1. PICK c \in Nat : b = a + c
  <2>1. b - a \in Nat /\ b = a + (b - a)
    OBVIOUS
  <2> QED BY <2>1
<1>2. b * apr = a * apr + c * apr /\ c * apr \in Nat /\ a * apr \in Nat
  BY <1>1
<1>3. a * apr \in Int /\ b * apr \in Int /\ a * apr <= b * apr
  BY <1>2
<1>4. 1000000 \in Nat \ {0}
  OBVIOUS
<1> QED BY <1>3, <1>4, RoundingIsMonotone DEF InterestOn

\* What the property says of an answer.
FollowsTheRanking(L, payoff, value) ==
  /\ TotalApplied(value) = IF payoff < TotalOwed(L) THEN payoff ELSE TotalOwed(L)
  /\ \A j \in DOMAIN value : value[j].post >= 0 /\ value[j].saved <= value[j].interest
  /\ \A j \in DOMAIN value : value[j].applied > 0 => \A i \in 1..(j - 1) : value[i].post = 0
  /\ \A p \in [DOMAIN value -> DOMAIN value] : (\A i, j \in DOMAIN value : p[i] = p[j] => i = j) =>
       analyze_liabilities([i \in DOMAIN value |-> L[p[i]]], payoff) = value

LEMMA PayoffFollows ==
  ASSUME NEW L, NEW D, AreLiabilities(L, D), NEW payoff \in Nat,
         NEW value, value = analyze_liabilities(L, payoff)
  PROVE  FollowsTheRanking(L, payoff, value)
<1>1. PICK n \in Nat : D = 1..n
  BY DEF AreLiabilities
<1>2. PICK R : R = Ranked(L, payoff)
  OBVIOUS
<1>3. PICK bal : bal = [i \in D |-> L[i].balance]
  OBVIOUS
<1>4. IsRanking(R, n) /\ Owed(R, n) = SetTotal(D, bal)
  BY <1>1, <1>2, <1>3, RankingOwes
<1>5. value = PaidOff(R, payoff)
  BY <1>2 DEF analyze_liabilities
<1>6. RestGoesDown(R, n, payoff)
  BY <1>4, RestFollows
<1>7. DOMAIN value = D /\ \A r \in D :
        /\ value[r].applied = NthDrawn(R, payoff, r)
        /\ value[r].post = R[r].balance - value[r].applied
        /\ value[r].saved = InterestOn(value[r].applied, R[r].apr)
        /\ value[r].interest = InterestOn(R[r].balance, R[r].apr)
  BY <1>1, <1>4, <1>5, PaidOffIs
<1>8. \A r \in D :
        /\ value[r].applied \in Nat /\ value[r].applied <= R[r].balance
        /\ value[r].applied = Rest(R, payoff, r - 1) - Rest(R, payoff, r)
        /\ R[r].balance \in Nat /\ R[r].apr \in Nat
  <2>1. SUFFICES ASSUME NEW r \in D
                 PROVE  /\ value[r].applied \in Nat /\ value[r].applied <= R[r].balance
                        /\ value[r].applied = Rest(R, payoff, r - 1) - Rest(R, payoff, r)
                        /\ R[r].balance \in Nat /\ R[r].apr \in Nat
    OBVIOUS
  <2>2. PICK x, y, d : x = Rest(R, payoff, r - 1) /\ y = Rest(R, payoff, r) /\ d = value[r].applied
    OBVIOUS
  <2>3. d \in Nat /\ d <= R[r].balance /\ y = x - d
    BY <1>6, <1>1, <1>7, <2>2 DEF RestGoesDown
  <2>4. x \in Nat
    BY <1>6, <1>1, <2>2 DEF RestGoesDown
  <2>5. R[r].balance \in Nat /\ R[r].apr \in Nat
    BY <1>1, <1>4 DEF IsRanking, IsLiability
  <2> QED BY <2>2, <2>3, <2>4, <2>5
<1>9. TotalApplied(value) = IF payoff < TotalOwed(L) THEN payoff ELSE TotalOwed(L)
  <2>1. PICK drawn : drawn = [r \in D |-> value[r].applied]
    OBVIOUS
  <2>2. TotalApplied(value) = SetTotal(D, drawn)
    <3>1. D = DOMAIN value /\ \A r \in D : drawn[r] = value[r].applied
      BY <1>7, <2>1
    <3> QED BY <3>1, AppliedIsASum
  <2>3. TotalOwed(L) = SetTotal(D, bal)
    <3>1. D = DOMAIN L /\ \A i \in D : bal[i] = L[i].balance
      BY <1>3 DEF AreLiabilities
    <3> QED BY <3>1, OwedIsASum
  <2>4. SetTotal(D, drawn) = payoff - Rest(R, payoff, n)
    BY <1>1, <1>4, <1>7, <2>1, DrawnAddsUp
  <2>5. Owed(R, n) \in Nat
    BY <1>1, <1>4, OwedGrows
  <2>6. Rest(R, payoff, n) = IF payoff >= Owed(R, n) THEN payoff - Owed(R, n) ELSE 0
    BY DEF Rest
  <2>7. payoff - Rest(R, payoff, n) = IF payoff < Owed(R, n) THEN payoff ELSE Owed(R, n)
    BY <2>5, <2>6
  <2> QED BY <1>4, <2>2, <2>3, <2>4, <2>7
<1>10. \A r \in D : value[r].post >= 0 /\ value[r].saved <= value[r].interest
  <2>1. SUFFICES ASSUME NEW r \in D PROVE value[r].post >= 0 /\ value[r].saved <= value[r].interest
    OBVIOUS
  <2>2. PICK a, b, p : a = value[r].applied /\ b = R[r].balance /\ p = R[r].apr
    OBVIOUS
  <2>3. a \in Nat /\ b \in Nat /\ p \in Nat /\ a <= b
    BY <1>8, <2>2
  <2>4. InterestOn(a, p) <= InterestOn(b, p)
    BY <2>3, InterestGrows
  <2>5. value[r].post = b - a /\ value[r].saved = InterestOn(a, p) /\ value[r].interest = InterestOn(b, p)
    BY <1>7, <2>2
  <2> QED BY <2>3, <2>4, <2>5
<1>11. ASSUME NEW j \in D, value[j].applied > 0, NEW i \in 1..(j - 1) PROVE value[i].post = 0
  <2>1. i \in D /\ j - 1 \in 0..n /\ i - 1 \in 0..n /\ i \in 0..n /\ i <= j - 1 /\ i - 1 <= j - 1
    BY <1>1
  <2>2. PICK o, u, w, b : o = Owed(R, i - 1) /\ u = Owed(R, i) /\ w = Owed(R, j - 1) /\ b = R[i].balance
    OBVIOUS
  <2>3. o \in Nat /\ u \in Nat /\ w \in Nat /\ u <= w /\ o <= w
    BY <1>4, <2>1, <2>2, OwedGrows
  <2>4. u = o + b
    BY <1>1, <1>4, <2>1, <2>2, OwedGrows
  <2>5. payoff > w
    <3>1. PICK x, y, a : x = Rest(R, payoff, j - 1) /\ y = Rest(R, payoff, j) /\ a = value[j].applied
      OBVIOUS
    <3>2. a \in Nat /\ a > 0 /\ a = x - y
      BY <1>8, <1>11, <3>1
    <3>3. x \in Nat /\ y \in Nat
      BY <1>6, <1>1, <3>1 DEF RestGoesDown
    <3>4. x > 0
      BY <3>2, <3>3
    <3>5. x = IF payoff >= w THEN payoff - w ELSE 0
      BY <2>2, <3>1 DEF Rest
    <3> QED BY <2>3, <3>4, <3>5
  <2>6. Rest(R, payoff, i - 1) = payoff - o /\ Rest(R, payoff, i) = payoff - u
    BY <2>2, <2>3, <2>5 DEF Rest
  <2>7. value[i].applied = (payoff - o) - (payoff - u)
    BY <1>8, <2>1, <2>6
  <2>8. b \in Nat /\ value[i].post = b - value[i].applied
    BY <1>7, <1>8, <2>1, <2>2
  <2> QED BY <2>3, <2>4, <2>7, <2>8
<1>12. ASSUME NEW p \in [D -> D], \A i, j \in D : p[i] = p[j] => i = j
       PROVE  analyze_liabilities([i \in D |-> L[p[i]]], payoff) = value
  <2>1. PICK M : M = [i \in D |-> L[p[i]]]
    OBVIOUS
  <2>2. Ranked(M, payoff) = R
    BY <1>2, <1>12, <2>1, RankingIsCanonical
  <2> QED BY <1>5, <2>1, <2>2 DEF analyze_liabilities
<1>13. /\ \A j \in D : value[j].applied > 0 => \A i \in 1..(j - 1) : value[i].post = 0
       /\ \A p \in [D -> D] : (\A i, j \in D : p[i] = p[j] => i = j) =>
            analyze_liabilities([i \in D |-> L[p[i]]], payoff) = value
  BY <1>11, <1>12
<1>14. DOMAIN value = D
  BY <1>7
<1> QED BY <1>9, <1>10, <1>13, <1>14, Zenon DEF FollowsTheRanking

----------------------------------------------------------------------------
(* Answers about debts. *)

DebtInv ==
  /\ question \in Questions
  /\ Answered("analyze_debt") => answer.value = analyze_liabilities(question.liabilities, question.payoff)

LEMMA DebtAnswers == Spec => []DebtInv
<1>1. Init => DebtInv
  BY DEF Init, DebtInv, Answered
<1>2. DebtInv /\ [Next]_vars => DebtInv'
  <2> SUFFICES ASSUME DebtInv, [Next]_vars PROVE DebtInv'
    OBVIOUS
  <2> USE DEF Asked, Gives, DebtInv, Answered
  <2>1. CASE AnswersPosture
    BY <2>1 DEF AnswersPosture
  <2>2. CASE AnswersConsolidation
    BY <2>2 DEF AnswersConsolidation
  <2>3. CASE AnswersSimulation
    BY <2>3 DEF AnswersSimulation
  <2>4. CASE AnswersDebt
    <3> HIDE DEF analyze_liabilities
    <3> QED BY <2>4 DEF AnswersDebt
  <2>5. CASE Reconciling
    BY <2>5 DEF Reconciling
  <2>6. CASE UNCHANGED vars
    BY <2>6 DEF vars
  <2> QED BY <2>1, <2>2, <2>3, <2>4, <2>5, <2>6 DEF Next
<1> QED BY <1>1, <1>2, PTL DEF Spec

\* domain/debt/engine.py: for any liabilities and any payoff, the payoff is spent as far as there are debts,
\* in the order of the ranking, and none of the answer depends on the order in which they are listed.
THEOREM PayoffFollowsTheRankingHolds == Spec => []PayoffFollowsTheRanking
<1>1. DebtInv => PayoffFollowsTheRanking
  <2> SUFFICES ASSUME DebtInv, Answered("analyze_debt")
               PROVE  FollowsTheRanking(question.liabilities, question.payoff, Value)
    BY Zenon DEF PayoffFollowsTheRanking, FollowsTheRanking, TotalOwed, TotalApplied
  <2>1. IsDebt(question) /\ Value = analyze_liabilities(question.liabilities, question.payoff)
    BY DEF DebtInv, Answered, Value, IsDebt
  <2> QED BY <2>1, DebtsAreLiabilities, PayoffFollows
<1> QED BY <1>1, DebtAnswers, PTL
=============================================================================
