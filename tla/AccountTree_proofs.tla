------------------------- MODULE AccountTree_proofs -------------------------
(***************************************************************************)
(* The parents of accounts form a forest, whatever creates, imports and    *)
(* patches them.                                                           *)
(*                                                                         *)
(* Chain and TreeAnswer collect accounts round by round.  As many rounds   *)
(* as there are account ids reach the least set that is closed under one   *)
(* more round, which is all the proofs then use of them.                   *)
(***************************************************************************)
EXTENDS RegistryTools, Money_proofs, FiniteSetTheorems

----------------------------------------------------------------------------
(* Rounds. *)

\* Counting up to a bound.
LEMMA UpTo ==
  ASSUME NEW N \in Nat, NEW Good, 0 \in Good,
         \A n \in Nat : n < N /\ n \in Good => n + 1 \in Good
  PROVE  \A n \in 0..N : n \in Good
<1> DEFINE Stuck == {n \in 0..N : n \notin Good}
<1>1. SUFFICES ASSUME Stuck # {} PROVE FALSE
  OBVIOUS
<1>2. PICK n \in Stuck : \A m \in Stuck : n <= m
  <2>1. Stuck \subseteq Nat
    OBVIOUS
  <2> HIDE DEF Stuck
  <2> QED BY <1>1, <2>1, LeastExists
<1>3. n \in 0..N /\ n # 0
  OBVIOUS
<1>4. n - 1 \in 0..N /\ ~(n <= n - 1)
  BY <1>3
<1>5. n - 1 \in Good
  BY <1>2, <1>4
<1>6. (n - 1) + 1 \in Good
  <2>1. n - 1 \in Nat /\ n - 1 < N
    BY <1>3
  <2> QED BY <1>5, <2>1
<1>7. (n - 1) + 1 = n
  BY <1>3
<1> QED BY <1>6, <1>7

\* it collects from S round by round, each round adding what G finds from what is there.
Collects(it, G, S, N) ==
  it = [n \in 0..N |-> IF n = 0 THEN S ELSE it[n - 1] \union G[it[n - 1]]]

\* A round finds more among more elements of U, and nothing from nothing.
Grows(G, U) ==
  /\ G \in [SUBSET U -> SUBSET U]
  /\ G[{}] = {}
  /\ \A X, Y \in SUBSET U : X \subseteq Y => G[X] \subseteq G[Y]

\* C is the least subset of U that holds S and that a round adds nothing to.
IsLeast(C, S, G, U) ==
  /\ C \in SUBSET U /\ S \subseteq C /\ G[C] \subseteq C
  /\ \A D \in SUBSET U : S \subseteq D /\ G[D] \subseteq D => C \subseteq D

\* Some function does.
LEMMA CollectsExists ==
  ASSUME NEW N \in Nat, NEW G, NEW S
  PROVE  \E it : Collects(it, G, S, N)
<1> DEFINE Good == {n \in 0..N : \E it : Collects(it, G, S, n)}
<1>1. 0 \in Good
  <2> DEFINE it == [n \in 0..0 |-> S]
  <2>1. Collects(it, G, S, 0)
    BY DEF Collects
  <2> QED BY <2>1
<1>2. ASSUME NEW n \in Nat, n < N, n \in Good PROVE n + 1 \in Good
  <2>1. PICK old : Collects(old, G, S, n)
    BY <1>2
  <2> DEFINE new == [m \in 0..(n + 1) |-> IF m <= n THEN old[m] ELSE old[n] \union G[old[n]]]
  <2>2. ASSUME NEW m \in 0..(n + 1)
        PROVE  new[m] = IF m = 0 THEN S ELSE new[m - 1] \union G[new[m - 1]]
    <3>1. CASE m <= n
      <4>1. m \in 0..n /\ (m # 0 => m - 1 \in 0..n /\ m - 1 \in 0..(n + 1) /\ m - 1 <= n)
        BY <1>2, <3>1
      <4>2. old[m] = IF m = 0 THEN S ELSE old[m - 1] \union G[old[m - 1]]
        BY <2>1, <4>1 DEF Collects
      <4> QED BY <3>1, <4>1, <4>2
    <3>2. CASE ~(m <= n)
      <4>1. m = n + 1 /\ m # 0 /\ m - 1 = n /\ n \in 0..(n + 1) /\ n <= n
        BY <1>2, <3>2
      <4> QED BY <3>2, <4>1
    <3> QED BY <3>1, <3>2
  <2>3. Collects(new, G, S, n + 1)
    <3> HIDE DEF new
    <3>1. new = [m \in 0..(n + 1) |-> new[m]]
      BY DEF new
    <3> QED BY <2>2, <3>1 DEF Collects
  <2>4. n + 1 \in 0..N
    BY <1>2
  <2> QED BY <2>3, <2>4
<1> HIDE DEF Good
<1>3. \A n \in 0..N : n \in Good
  BY <1>1, <1>2, UpTo
<1> QED BY <1>3 DEF Good

\* What is collected among finitely many elements in that many rounds is the least such set.
LEMMA CollectedIsLeast ==
  ASSUME NEW U, IsFiniteSet(U), NEW S \in SUBSET U, NEW G, Grows(G, U),
         NEW it, Collects(it, G, S, Cardinality(U))
  PROVE  IsLeast(it[Cardinality(U)], S, G, U)
<1>0. /\ G \in [SUBSET U -> SUBSET U] /\ G[{}] = {}
      /\ \A X, Y \in SUBSET U : X \subseteq Y => G[X] \subseteq G[Y]
  BY DEF Grows
<1> DEFINE N == Cardinality(U)
<1>1. N \in Nat
  BY FS_CardinalityType
<1> HIDE DEF N
<1>2. /\ it[0] = S
      /\ \A n \in Nat : n < N => it[n + 1] = it[n] \union G[it[n]]
  <2>1. 0 \in 0..N
    BY <1>1
  <2>2. ASSUME NEW n \in Nat, n < N PROVE n + 1 \in 0..N /\ n + 1 # 0 /\ (n + 1) - 1 = n
    BY <1>1, <2>2
  <2> QED BY <2>1, <2>2 DEF Collects, N
<1>3. \A n \in 0..N : it[n] \in SUBSET U /\ S \subseteq it[n]
  <2> DEFINE Good == {n \in Nat : it[n] \in SUBSET U /\ S \subseteq it[n]}
  <2>1. 0 \in Good
    BY <1>2
  <2>2. \A n \in Nat : n < N /\ n \in Good => n + 1 \in Good
    BY <1>0, <1>2
  <2>3. \A n \in 0..N : n \in Good
    <3> HIDE DEF Good
    <3> QED BY <1>1, <2>1, <2>2, UpTo
  <2> QED BY <2>3
<1>4. ASSUME NEW D \in SUBSET U, S \subseteq D, G[D] \subseteq D PROVE it[N] \subseteq D
  <2> DEFINE Good == {n \in Nat : it[n] \subseteq D}
  <2>1. 0 \in Good
    BY <1>2, <1>4
  <2>2. ASSUME NEW n \in Nat, n < N, n \in Good PROVE n + 1 \in Good
    <3>1. it[n] \in SUBSET U
      BY <1>1, <1>3, <2>2
    <3>2. G[it[n]] \subseteq G[D]
      BY <1>0, <2>2, <3>1
    <3> QED BY <1>2, <1>4, <2>2, <3>2
  <2>3. \A n \in 0..N : n \in Good
    <3> HIDE DEF Good
    <3> QED BY <1>1, <2>1, <2>2, UpTo
  <2> QED BY <1>1, <2>3
\* Every round that does not close the set makes it larger.
<1>5. G[it[N]] \subseteq it[N]
  <2> DEFINE Good == {n \in Nat : \/ G[it[n]] \subseteq it[n]
                                  \/ IsFiniteSet(it[n]) /\ Cardinality(it[n]) >= n + 1}
  <2>1. 0 \in Good
    <3>1. CASE S = {}
      BY <1>0, <1>2, <3>1
    <3>2. CASE S # {}
      <4>1. IsFiniteSet(S)
        BY FS_Subset
      <4>2. Cardinality(S) \in Nat /\ Cardinality(S) # 0
        BY <3>2, <4>1, FS_CardinalityType, FS_EmptySet
      <4> QED BY <1>2, <4>1, <4>2
    <3> QED BY <3>1, <3>2
  <2>2. ASSUME NEW n \in Nat, n < N, n \in Good PROVE n + 1 \in Good
    <3>1. it[n] \in SUBSET U /\ it[n + 1] = it[n] \union G[it[n]] /\ it[n + 1] \in SUBSET U
      <4>1. n \in 0..N /\ n + 1 \in 0..N
        BY <1>1, <2>2
      <4> QED BY <1>2, <1>3, <2>2, <4>1
    <3>2. CASE G[it[n]] \subseteq it[n]
      <4>1. it[n + 1] = it[n]
        BY <3>1, <3>2
      <4> QED BY <3>2, <4>1
    <3>3. CASE ~(G[it[n]] \subseteq it[n])
      <4>1. IsFiniteSet(it[n]) /\ Cardinality(it[n]) >= n + 1
        BY <2>2, <3>3
      <4>2. IsFiniteSet(it[n + 1])
        BY <3>1, FS_Subset
      <4>3. it[n] \in SUBSET it[n + 1] /\ it[n] # it[n + 1]
        BY <3>1, <3>3
      <4>4. Cardinality(it[n]) <= Cardinality(it[n + 1]) /\ Cardinality(it[n]) # Cardinality(it[n + 1])
        BY <4>2, <4>3, FS_Subset
      <4>5. Cardinality(it[n]) \in Nat /\ Cardinality(it[n + 1]) \in Nat
        BY <4>1, <4>2, FS_CardinalityType
      <4>6. Cardinality(it[n + 1]) >= (n + 1) + 1
        BY <4>1, <4>4, <4>5
      <4> QED BY <4>2, <4>6
    <3> QED BY <3>2, <3>3
  <2>3. \A n \in 0..N : n \in Good
    <3> HIDE DEF Good
    <3> QED BY <1>1, <2>1, <2>2, UpTo
  <2>4. N \in Good /\ it[N] \in SUBSET U
    BY <1>1, <1>3, <2>3
  <2>5. Cardinality(it[N]) <= N /\ Cardinality(it[N]) \in Nat
    BY <2>4, FS_Subset, FS_CardinalityType DEF N
  <2>6. ~(Cardinality(it[N]) >= N + 1)
    BY <1>1, <2>5
  <2> QED BY <2>4, <2>6
<1> QED BY <1>1, <1>3, <1>4, <1>5 DEF N, IsLeast
----------------------------------------------------------------------------
(* Chains and trees. *)

LEMMA IdsAreNoNull == NULL \notin AccountIds /\ IsFiniteSet(AccountIds) /\ Cardinality(AccountIds) \in Nat
BY RegistryAssumption, NullAssumption, FS_CardinalityType

\* The chain of a is the least set with a that has the parents of its members.
LEMMA ChainIsLeast ==
  ASSUME NEW parent \in [AccountIds -> OptionalId], NEW a \in AccountIds
  PROVE  /\ Chain(parent, a) \in SUBSET AccountIds /\ a \in Chain(parent, a)
         /\ \A x \in Chain(parent, a) : parent[x] # NULL => parent[x] \in Chain(parent, a)
         /\ \A D \in SUBSET AccountIds :
              a \in D /\ (\A x \in D : parent[x] # NULL => parent[x] \in D) => Chain(parent, a) \subseteq D
<1> DEFINE N == Cardinality(AccountIds)
           Up(met) == {parent[x] : x \in met} \ {NULL}
           Climbs(it) == it = [n \in 0..N |-> IF n = 0 THEN {a} ELSE it[n - 1] \union Up(it[n - 1])]
           G == [met \in SUBSET AccountIds |-> Up(met)]
<1>1. Chain(parent, a) = (CHOOSE it : Climbs(it))[N]
  BY Zenon DEF Chain
<1>2. N \in Nat /\ IsFiniteSet(AccountIds)
  BY IdsAreNoNull
<1>3. Grows(G, AccountIds)
  BY DEF OptionalId, Grows
<1>4. G \in [SUBSET AccountIds -> SUBSET AccountIds]
  BY <1>3 DEF Grows
<1>5. \E it : Climbs(it)
  <2>1. PICK it : Collects(it, G, {a}, N)
    <3> HIDE DEF G, N
    <3> QED BY <1>2, CollectsExists
  <2>2. \A n \in 0..N : it[n] \in SUBSET AccountIds
    <3> DEFINE Good == {n \in 0..N : it[n] \in SUBSET AccountIds}
    <3> HIDE DEF G, N
    <3>1. 0 \in Good
      BY <1>2, <2>1 DEF Collects
    <3>2. ASSUME NEW n \in Nat, n < N, n \in Good PROVE n + 1 \in Good
      <4>1. n + 1 \in 0..N /\ n + 1 # 0 /\ (n + 1) - 1 = n
        BY <1>2, <3>2
      <4>2. it[n + 1] = it[n] \union G[it[n]]
        BY <2>1, <4>1 DEF Collects
      <4> QED BY <1>4, <3>2, <4>1, <4>2
    <3>3. \A n \in 0..N : n \in Good
      <4> HIDE DEF Good
      <4> QED BY <1>2, <3>1, <3>2, UpTo
    <3> QED BY <3>3
  <2>3. \A n \in 0..N : n # 0 => G[it[n - 1]] = Up(it[n - 1])
    <3>1. ASSUME NEW n \in 0..N, n # 0 PROVE it[n - 1] \in SUBSET AccountIds
      <4>1. n - 1 \in 0..N
        BY <1>2, <3>1
      <4> QED BY <2>2, <4>1
    <3> QED BY <3>1
  <2> HIDE DEF G, Up, N
  <2>4. Climbs(it)
    BY <2>1, <2>3 DEF Collects
  <2> QED BY <2>4
<1>6. PICK it : Climbs(it) /\ Chain(parent, a) = it[N]
  <2> HIDE DEF Climbs, N
  <2> QED BY <1>1, <1>5
<1>7. \A n \in 0..N : it[n] \in SUBSET AccountIds
  <2> DEFINE Good == {n \in 0..N : it[n] \in SUBSET AccountIds}
  <2> HIDE DEF N
  <2>1. 0 \in Good
    BY <1>2, <1>6
  <2>2. ASSUME NEW n \in Nat, n < N, n \in Good PROVE n + 1 \in Good
    <3>1. n + 1 \in 0..N /\ n + 1 # 0 /\ (n + 1) - 1 = n
      BY <1>2, <2>2
    <3>2. it[n + 1] = it[n] \union Up(it[n])
      BY <1>6, <3>1
    <3>3. Up(it[n]) \subseteq AccountIds
      BY <2>2 DEF OptionalId
    <3> HIDE DEF Up
    <3> QED BY <2>2, <3>1, <3>2, <3>3
  <2>3. \A n \in 0..N : n \in Good
    <3> HIDE DEF Good
    <3> QED BY <1>2, <2>1, <2>2, UpTo
  <2> QED BY <2>3
<1>8. Collects(it, G, {a}, N)
  <2>1. \A n \in 0..N : n # 0 => G[it[n - 1]] = Up(it[n - 1])
    <3>1. ASSUME NEW n \in 0..N, n # 0 PROVE it[n - 1] \in SUBSET AccountIds
      <4>1. n - 1 \in 0..N
        BY <1>2, <3>1
      <4> QED BY <1>7, <4>1
    <3> QED BY <3>1
  <2> HIDE DEF G, Up, N
  <2> QED BY <1>6, <2>1 DEF Collects
<1>9. IsLeast(it[N], {a}, G, AccountIds)
  <2> HIDE DEF G
  <2> QED BY <1>2, <1>3, <1>8, CollectedIsLeast
<1>10. \A x \in it[N] : parent[x] # NULL => parent[x] \in it[N]
  BY <1>9 DEF IsLeast
<1>11. ASSUME NEW D \in SUBSET AccountIds, a \in D, \A x \in D : parent[x] # NULL => parent[x] \in D
       PROVE  it[N] \subseteq D
  <2>1. G[D] \subseteq D
    BY <1>11
  <2> HIDE DEF G
  <2> QED BY <1>9, <1>11, <2>1 DEF IsLeast
<1> HIDE DEF G, Climbs, N
<1> QED BY <1>6, <1>9, <1>10, <1>11 DEF IsLeast

\* The chain of an account goes on with the chain of its parent.
LEMMA ChainUnfolds ==
  ASSUME NEW parent \in [AccountIds -> OptionalId], NEW a \in AccountIds
  PROVE  Chain(parent, a) = {a} \union (IF parent[a] = NULL THEN {} ELSE Chain(parent, parent[a]))
<1>1. CASE parent[a] = NULL
  <2>1. Chain(parent, a) \subseteq {a}
    <3>1. {a} \in SUBSET AccountIds /\ \A x \in {a} : parent[x] # NULL => parent[x] \in {a}
      BY <1>1
    <3> QED BY <3>1, ChainIsLeast
  <2> QED BY <1>1, <2>1, ChainIsLeast
<1>2. CASE parent[a] # NULL
  <2>1. parent[a] \in AccountIds
    BY <1>2 DEF OptionalId
  <2>2. Chain(parent, a) \subseteq {a} \union Chain(parent, parent[a])
    <3> DEFINE D == {a} \union Chain(parent, parent[a])
    <3>1. D \in SUBSET AccountIds /\ a \in D /\ \A x \in D : parent[x] # NULL => parent[x] \in D
      BY <2>1, ChainIsLeast
    <3> HIDE DEF D
    <3>2. Chain(parent, a) \subseteq D
      BY <3>1, ChainIsLeast
    <3> QED BY <3>2 DEF D
  <2>3. Chain(parent, parent[a]) \subseteq Chain(parent, a)
    <3>1. Chain(parent, a) \in SUBSET AccountIds /\ parent[a] \in Chain(parent, a)
      BY <1>2, ChainIsLeast
    <3>2. \A x \in Chain(parent, a) : parent[x] # NULL => parent[x] \in Chain(parent, a)
      BY ChainIsLeast
    <3> QED BY <2>1, <3>1, <3>2, ChainIsLeast
  <2>4. a \in Chain(parent, a)
    BY ChainIsLeast
  <2> QED BY <1>2, <2>2, <2>3, <2>4
<1> QED BY <1>1, <1>2

\* A tree holds the roots among its rows, and is the least such set with the rows below its members.
LEMMA TreeIsLeast ==
  ASSUME NEW root
  PROVE  LET rows == TreeRows(root) IN
         /\ TreeAnswer(root) \subseteq rows /\ TreeRoots(rows) \subseteq TreeAnswer(root)
         /\ \A b \in rows : accounts[b].parent \in TreeAnswer(root) => b \in TreeAnswer(root)
<1> DEFINE N == Cardinality(AccountIds)
           rows == TreeRows(root)
           roots == TreeRoots(rows)
           Below(hung) == {b \in rows : accounts[b].parent \in hung}
           Hangs(it) == it = [n \in 0..N |-> IF n = 0 THEN roots ELSE it[n - 1] \union Below(it[n - 1])]
           G == [hung \in SUBSET AccountIds |-> Below(hung)]
<1>1. TreeAnswer(root) = (CHOOSE it : Hangs(it))[N]
  BY Zenon DEF TreeAnswer
<1>2. N \in Nat /\ IsFiniteSet(AccountIds)
  BY IdsAreNoNull
<1>3. rows \in SUBSET AccountIds /\ roots \in SUBSET rows /\ \A X : Below(X) \in SUBSET rows
  BY DEF TreeRows, TreeRoots
<1>4. Grows(G, AccountIds)
  <2> HIDE DEF rows, roots
  <2> QED BY <1>3 DEF Grows
<1> HIDE DEF rows, roots
<1>5. \E it : Hangs(it)
  <2>1. PICK it : Collects(it, G, roots, N)
    <3> HIDE DEF G, N
    <3> QED BY <1>2, CollectsExists
  <2>2. \A n \in 0..N : it[n] \in SUBSET AccountIds
    <3> DEFINE Good == {n \in 0..N : it[n] \in SUBSET AccountIds}
    <3>0. G \in [SUBSET AccountIds -> SUBSET AccountIds]
      BY <1>4 DEF Grows
    <3> HIDE DEF G, N
    <3>1. 0 \in Good
      BY <1>2, <1>3, <2>1 DEF Collects
    <3>2. ASSUME NEW n \in Nat, n < N, n \in Good PROVE n + 1 \in Good
      <4>1. n + 1 \in 0..N /\ n + 1 # 0 /\ (n + 1) - 1 = n
        BY <1>2, <3>2
      <4>2. it[n + 1] = it[n] \union G[it[n]]
        BY <2>1, <4>1 DEF Collects
      <4> QED BY <3>0, <3>2, <4>1, <4>2
    <3>3. \A n \in 0..N : n \in Good
      <4> HIDE DEF Good
      <4> QED BY <1>2, <3>1, <3>2, UpTo
    <3> QED BY <3>3
  <2>3. \A n \in 0..N : n # 0 => G[it[n - 1]] = Below(it[n - 1])
    <3>1. ASSUME NEW n \in 0..N, n # 0 PROVE it[n - 1] \in SUBSET AccountIds
      <4>1. n - 1 \in 0..N
        BY <1>2, <3>1
      <4> QED BY <2>2, <4>1
    <3> QED BY <3>1
  <2> HIDE DEF G, Below, N
  <2>4. Hangs(it)
    BY <2>1, <2>3 DEF Collects
  <2> QED BY <2>4
<1>6. PICK it : Hangs(it) /\ TreeAnswer(root) = it[N]
  <2> HIDE DEF Hangs, N
  <2> QED BY <1>1, <1>5
<1>7. \A n \in 0..N : it[n] \in SUBSET AccountIds
  <2> DEFINE Good == {n \in 0..N : it[n] \in SUBSET AccountIds}
  <2> HIDE DEF N
  <2>1. 0 \in Good
    BY <1>2, <1>3, <1>6
  <2>2. ASSUME NEW n \in Nat, n < N, n \in Good PROVE n + 1 \in Good
    <3>1. n + 1 \in 0..N /\ n + 1 # 0 /\ (n + 1) - 1 = n
      BY <1>2, <2>2
    <3>2. it[n + 1] = it[n] \union Below(it[n])
      BY <1>6, <3>1
    <3>3. Below(it[n]) \subseteq AccountIds
      BY <1>3
    <3> HIDE DEF Below
    <3> QED BY <2>2, <3>1, <3>2, <3>3
  <2>3. \A n \in 0..N : n \in Good
    <3> HIDE DEF Good
    <3> QED BY <1>2, <2>1, <2>2, UpTo
  <2> QED BY <2>3
<1>8. Collects(it, G, roots, N)
  <2>1. \A n \in 0..N : n # 0 => G[it[n - 1]] = Below(it[n - 1])
    <3>1. ASSUME NEW n \in 0..N, n # 0 PROVE it[n - 1] \in SUBSET AccountIds
      <4>1. n - 1 \in 0..N
        BY <1>2, <3>1
      <4> QED BY <1>7, <4>1
    <3> QED BY <3>1
  <2> HIDE DEF G, Below, N
  <2> QED BY <1>6, <2>1 DEF Collects
<1>9. IsLeast(it[N], roots, G, AccountIds)
  <2> HIDE DEF G
  <2> QED BY <1>2, <1>3, <1>4, <1>8, CollectedIsLeast
<1>10. G[rows] \subseteq rows /\ G[it[N]] = Below(it[N])
  <2>1. it[N] \in SUBSET AccountIds
    BY <1>9 DEF IsLeast
  <2> QED BY <1>3, <2>1
<1> HIDE DEF G, N, Hangs
<1>11. it[N] \subseteq rows /\ roots \subseteq it[N] /\ G[it[N]] \subseteq it[N]
  BY <1>3, <1>9, <1>10 DEF IsLeast
<1>12. \A b \in rows : accounts[b].parent \in it[N] => b \in it[N]
  BY <1>10, <1>11
<1> QED BY <1>6, <1>11, <1>12 DEF rows, roots

----------------------------------------------------------------------------
(* Forests. *)

\* Every parent is an account of its own and stands higher than its children.
Ranks(rank, table) ==
  /\ rank \in [AccountIds -> Nat]
  /\ \A a \in AccountIds : table[a] # NULL /\ table[a].parent # NULL =>
       table[table[a].parent] # NULL /\ rank[table[a].parent] < rank[a]
Forest(table) == \E rank : Ranks(rank, table)

Tables == [AccountIds -> StoredAccount \union {NULL}]

LEMMA ParentsAreIds ==
  ASSUME NEW table \in Tables
  PROVE  /\ ParentOf(table) \in [AccountIds -> OptionalId]
         /\ \A a \in AccountIds : table[a] # NULL =>
              table[a] \in StoredAccount /\ table[a].parent \in OptionalId /\ ParentOf(table)[a] = table[a].parent
<1>1. ASSUME NEW a \in AccountIds, table[a] # NULL
      PROVE  table[a] \in StoredAccount /\ table[a].parent \in OptionalId
  <2>1. table[a] \in StoredAccount
    BY <1>1 DEF Tables
  <2> QED BY <2>1 DEF StoredAccount
<1> QED BY <1>1 DEF ParentOf, OptionalId

\* A set of accounts that is not empty has one of least rank.
LEMMA LowestRank ==
  ASSUME NEW S \in SUBSET AccountIds, S # {}, NEW rank \in [AccountIds -> Nat]
  PROVE  \E a \in S : \A b \in S : rank[a] <= rank[b]
<1> DEFINE R == {rank[a] : a \in S}
<1>1. R \subseteq Nat /\ R # {}
  OBVIOUS
<1>2. PICK n \in R : \A m \in R : n <= m
  <2> HIDE DEF R
  <2> QED BY <1>1, LeastExists
<1> QED BY <1>2

\* In a forest, the answer to get_account_tree leaves out no account that it is about.
LEMMA TreeIsComplete ==
  ASSUME accounts \in Tables, Forest(accounts), NEW root
  PROVE  TreeAnswer(root) = TreeRows(root)
<1> DEFINE rows == TreeRows(root)
           Missed == {a \in rows : a \notin TreeAnswer(root)}
<1>1. PICK rank : Ranks(rank, accounts)
  BY DEF Forest
<1>2. /\ TreeAnswer(root) \subseteq rows /\ TreeRoots(rows) \subseteq TreeAnswer(root)
      /\ \A b \in rows : accounts[b].parent \in TreeAnswer(root) => b \in TreeAnswer(root)
  BY TreeIsLeast
<1>3. SUFFICES ASSUME Missed # {} PROVE FALSE
  BY <1>2
<1>4. Missed \in SUBSET AccountIds /\ \A a \in rows : a \in AccountIds /\ accounts[a] # NULL
  BY DEF TreeRows, AccountExists
<1>5. PICK a \in Missed : \A b \in Missed : rank[a] <= rank[b]
  <2> HIDE DEF Missed
  <2> QED BY <1>1, <1>3, <1>4, LowestRank DEF Ranks
<1>6. accounts[a].parent \in rows /\ accounts[a].parent \in Missed
  BY <1>2 DEF TreeRoots
<1>7. accounts[a].parent # NULL /\ accounts[a].parent \in AccountIds
  BY <1>4, <1>6, IdsAreNoNull
<1>8. rank[accounts[a].parent] < rank[a]
  BY <1>1, <1>4, <1>7 DEF Ranks
<1>9. rank[a] <= rank[accounts[a].parent]
  BY <1>5, <1>6
<1>10. rank[a] \in Nat /\ rank[accounts[a].parent] \in Nat
  BY <1>1, <1>4, <1>7 DEF Ranks
<1> QED BY <1>8, <1>9, <1>10

\* In a forest, exactly one root is on the way up from an account.
LEMMA OneRootAbove ==
  ASSUME accounts \in Tables, Forest(accounts), NEW a \in Existing(accounts)
  PROVE  \E r : Chain(ParentOf(accounts), a) \intersect TreeRoots(Existing(accounts)) = {r}
<1> DEFINE parent == ParentOf(accounts)
           roots == TreeRoots(Existing(accounts))
           Above(b) == Chain(parent, b) \intersect roots
           Lost == {b \in Existing(accounts) : ~ \E r : Above(b) = {r}}
<1>1. PICK rank : Ranks(rank, accounts)
  BY DEF Forest
<1>2. /\ parent \in [AccountIds -> OptionalId]
      /\ Existing(accounts) = {b \in AccountIds : accounts[b] # NULL}
      /\ \A b \in Existing(accounts) :
           b \in AccountIds /\ accounts[b].parent \in OptionalId /\ parent[b] = accounts[b].parent
  BY ParentsAreIds DEF Existing, Tables
<1>3. SUFFICES ASSUME Lost # {} PROVE FALSE
  OBVIOUS
<1>4. PICK b \in Lost : \A c \in Lost : rank[b] <= rank[c]
  <2>1. Lost \in SUBSET AccountIds
    BY <1>2
  <2> HIDE DEF Lost
  <2> QED BY <1>1, <1>3, <2>1, LowestRank DEF Ranks
<1>5. b \in AccountIds /\ b \in Existing(accounts) /\ accounts[b] # NULL
  BY <1>2
<1>6. Chain(parent, b) = {b} \union (IF parent[b] = NULL THEN {} ELSE Chain(parent, parent[b]))
  <2> HIDE DEF parent
  <2> QED BY <1>2, <1>5, ChainUnfolds
<1>7. CASE parent[b] = NULL
  <2>1. b \in roots
    BY <1>2, <1>5, <1>7, IdsAreNoNull DEF TreeRoots
  <2>2. Above(b) = {b}
    <3> HIDE DEF parent, roots
    <3> QED BY <1>6, <1>7, <2>1
  <2> QED BY <2>2
<1>8. CASE parent[b] # NULL
  <2>1. /\ parent[b] \in AccountIds /\ parent[b] = accounts[b].parent
        /\ accounts[parent[b]] # NULL /\ rank[parent[b]] < rank[b]
    <3> HIDE DEF parent
    <3>1. parent[b] = accounts[b].parent /\ parent[b] \in OptionalId
      BY <1>2, <1>5
    <3> QED BY <1>1, <1>5, <1>8, <3>1 DEF Ranks, OptionalId
  <2>2. parent[b] \in Existing(accounts)
    BY <1>2, <2>1
  <2>3. b \notin roots
    BY <2>1, <2>2 DEF TreeRoots
  <2>4. Above(b) = Above(parent[b])
    <3> HIDE DEF parent, roots
    <3> QED BY <1>6, <1>8, <2>3
  <2>5. parent[b] \in Lost
    BY <2>2, <2>4
  <2>6. rank[b] <= rank[parent[b]] /\ rank[b] \in Nat /\ rank[parent[b]] \in Nat
    <3> HIDE DEF Lost, parent
    <3> QED BY <1>1, <1>4, <1>5, <2>1, <2>5 DEF Ranks
  <2> QED BY <2>1, <2>6
<1> QED BY <1>7, <1>8

\* A forest is what get_account_tree needs.
LEMMA ForestShows ==
  ASSUME accounts \in Tables, Forest(accounts)
  PROVE  TreeShowsEveryAccount
<1>1. PICK rank : Ranks(rank, accounts)
  BY DEF Forest
<1>2. Existing(accounts) = {a \in AccountIds : accounts[a] # NULL}
  BY DEF Existing, Tables
<1>3. TreeAnswer(NULL) = Existing(accounts)
  BY <1>2, TreeIsComplete DEF TreeRows, AccountExists
<1>4. ASSUME NEW a \in Existing(accounts)
      PROVE  /\ accounts[a].parent \in Existing(accounts) \union {NULL}
             /\ TreeAnswer(a) = {b \in Existing(accounts) : a \in Chain(ParentOf(accounts), b)}
             /\ Cardinality(Chain(ParentOf(accounts), a) \intersect TreeRoots(Existing(accounts))) = 1
  <2>1. a \in AccountIds /\ accounts[a] # NULL
    BY <1>2
  <2>2. accounts[a].parent \in Existing(accounts) \union {NULL}
    BY <1>1, <1>2, <2>1, ParentsAreIds DEF Ranks, OptionalId
  <2>3. TreeAnswer(a) = {b \in Existing(accounts) : a \in Chain(ParentOf(accounts), b)}
    BY <1>2, <2>1, TreeIsComplete, IdsAreNoNull DEF TreeRows, AccountExists
  <2>4. PICK r : Chain(ParentOf(accounts), a) \intersect TreeRoots(Existing(accounts)) = {r}
    BY OneRootAbove
  <2>5. Cardinality({r}) = 1
    BY FS_Singleton
  <2> QED BY <2>2, <2>3, <2>4, <2>5
<1> QED BY <1>3, <1>4 DEF TreeShowsEveryAccount

\* The trigger keeps a forest a forest, whether a row is inserted or changed: what hangs below the
\* account moves down with it.
LEMMA WriteKeepsForest ==
  ASSUME NEW table \in Tables, Forest(table), NEW id \in AccountIds, NEW row \in StoredAccount,
         ParentFits(table, id, row.parent)
  PROVE  [table EXCEPT ![id] = row] \in Tables /\ Forest([table EXCEPT ![id] = row])
<1> DEFINE new == [table EXCEPT ![id] = row]
           p == row.parent
           parent == ParentOf(table)
<1>1. PICK rank : Ranks(rank, table)
  BY DEF Forest
<1>2. rank \in [AccountIds -> Nat]
  BY <1>1 DEF Ranks
<1>3. /\ new \in Tables /\ new[id] = row /\ row # NULL
      /\ \A a \in AccountIds : a # id => new[a] = table[a]
  BY NullAssumption DEF Tables
<1>4. p \in OptionalId
  BY DEF StoredAccount
<1>5. p # NULL => p \in AccountIds /\ table[p] # NULL /\ id \notin Chain(parent, p)
  BY <1>4 DEF ParentFits, CycleTrigger, OptionalId
<1>6. /\ parent \in [AccountIds -> OptionalId]
      /\ \A a \in AccountIds : table[a] # NULL => table[a].parent \in OptionalId /\ parent[a] = table[a].parent
  BY ParentsAreIds
<1> HIDE DEF new, parent, p
<1> DEFINE drop == IF p = NULL THEN 0 ELSE rank[p] + 1
           lower == [a \in AccountIds |-> IF id \in Chain(parent, a) THEN rank[a] + drop ELSE rank[a]]
<1>7. drop \in Nat
  BY <1>2, <1>5
<1>8. lower \in [AccountIds -> Nat]
  <2> HIDE DEF drop
  <2> QED BY <1>2, <1>7
<1>9. ASSUME NEW a \in AccountIds, new[a] # NULL, new[a].parent # NULL
      PROVE  new[new[a].parent] # NULL /\ lower[new[a].parent] < lower[a]
  <2>1. CASE a = id
    <3>1. new[a].parent = p /\ p # NULL
      BY <1>3, <1>9, <2>1 DEF p
    <3>2. id \in Chain(parent, id) /\ p # id
      BY <1>5, <1>6, <3>1, ChainIsLeast
    <3>3. new[p] # NULL
      BY <1>3, <1>5, <3>1, <3>2
    <3>4. lower[p] = rank[p] /\ lower[id] = rank[id] + (rank[p] + 1)
      BY <1>5, <3>1, <3>2
    <3>5. rank[p] \in Nat /\ rank[id] \in Nat
      BY <1>2, <1>5, <3>1
    <3> HIDE DEF lower
    <3> QED BY <2>1, <3>1, <3>3, <3>4, <3>5
  <2>2. CASE a # id
    <3> DEFINE q == table[a].parent
    <3>1. new[a] = table[a] /\ table[a] # NULL /\ new[a].parent = q /\ q # NULL /\ q \in OptionalId /\ parent[a] = q
      BY <1>3, <1>6, <1>9, <2>2
    <3> HIDE DEF q
    <3>2. q \in AccountIds /\ table[q] # NULL /\ rank[q] < rank[a]
      BY <1>1, <3>1 DEF Ranks, OptionalId, q
    <3>3. new[q] # NULL
      BY <1>3, <3>2
    <3>4. id \in Chain(parent, a) <=> id \in Chain(parent, q)
      <4>1. Chain(parent, a) = {a} \union Chain(parent, q)
        BY <1>6, <3>1, ChainUnfolds
      <4> QED BY <2>2, <4>1
    <3>5. lower[q] < lower[a]
      <4> HIDE DEF drop
      <4>1. rank[q] \in Nat /\ rank[a] \in Nat
        BY <1>2, <3>2
      <4> QED BY <1>7, <3>2, <3>4, <4>1
    <3> QED BY <3>1, <3>3, <3>5
  <2> QED BY <2>1, <2>2
<1>10. Ranks(lower, new)
  <2> HIDE DEF lower
  <2> QED BY <1>8, <1>9 DEF Ranks
<1> QED BY <1>3, <1>10 DEF Forest, new

\* Names and metadata are no matter to it.
LEMMA SameParents ==
  ASSUME NEW table \in Tables, Forest(table), NEW new \in Tables,
         \A a \in AccountIds : /\ new[a] = NULL <=> table[a] = NULL
                               /\ new[a] # NULL => new[a].parent = table[a].parent
  PROVE  Forest(new)
<1>1. PICK rank : Ranks(rank, table)
  BY DEF Forest
<1>2. ASSUME NEW a \in AccountIds, new[a] # NULL, new[a].parent # NULL
      PROVE  new[new[a].parent] # NULL /\ rank[new[a].parent] < rank[a]
  <2>1. new[a].parent = table[a].parent /\ table[a] # NULL /\ new[a].parent \in OptionalId
    BY <1>2, ParentsAreIds
  <2>2. new[a].parent \in AccountIds
    BY <1>2, <2>1 DEF OptionalId
  <2> QED BY <1>1, <1>2, <2>1, <2>2 DEF Ranks
<1> QED BY <1>1, <1>2 DEF Ranks, Forest

----------------------------------------------------------------------------
(* The turns of an import. *)

Turn(table, existing, file, acc) ==
  IF table = NULL THEN NULL ELSE ImportAccount(table, existing, file, acc)

\* it gives the table after the accounts at a set of positions, the greatest position last.
Turns(it, table, existing, file, accs, D) ==
  it = [s \in SUBSET D |->
          IF s = {} THEN table ELSE Turn(it[s \ {Max(s)}], existing, file, accs[Max(s)])]

\* Some function does.
LEMMA TurnsExist ==
  ASSUME NEW n \in Nat, NEW table, NEW existing, NEW file, NEW accs
  PROVE  \E it : Turns(it, table, existing, file, accs, 1..n)
<1> DEFINE Good == {m \in 0..n : \E it : Turns(it, table, existing, file, accs, 1..m)}
<1>1. 0 \in Good
  <2> DEFINE it == [s \in SUBSET (1..0) |-> table]
  <2>1. Turns(it, table, existing, file, accs, 1..0)
    BY DEF Turns
  <2> QED BY <2>1
<1>2. ASSUME NEW k \in Nat, k < n, k \in Good PROVE k + 1 \in Good
  <2>1. PICK old : Turns(old, table, existing, file, accs, 1..k)
    BY <1>2
  <2> DEFINE m == k + 1
             new == [s \in SUBSET (1..m) |->
                       IF m \in s THEN Turn(old[s \ {m}], existing, file, accs[m]) ELSE old[s]]
  <2>2. m \in Nat /\ \A s \in SUBSET (1..m) : m \notin s => s \in SUBSET (1..k)
    <3>1. ASSUME NEW s \in SUBSET (1..m), m \notin s, NEW i \in s PROVE i \in 1..k
      <4>1. i \in 1..m /\ i # m
        BY <3>1
      <4> QED BY <4>1
    <3> QED BY <3>1
  <2> HIDE DEF m
  <2>3. ASSUME NEW s \in SUBSET (1..m)
        PROVE  new[s] = IF s = {} THEN table ELSE Turn(new[s \ {Max(s)}], existing, file, accs[Max(s)])
    <3>1. CASE s = {}
      BY <2>1, <3>1 DEF Turns
    <3>2. CASE s # {} /\ m \notin s
      <4>1. s \in SUBSET (1..k) /\ s \ {Max(s)} \in SUBSET (1..k) /\ m \notin s \ {Max(s)}
            /\ s \ {Max(s)} \in SUBSET (1..m)
        BY <2>2, <3>2
      <4>2. old[s] = Turn(old[s \ {Max(s)}], existing, file, accs[Max(s)])
        BY <2>1, <3>2, <4>1 DEF Turns
      <4>3. new[s] = old[s] /\ new[s \ {Max(s)}] = old[s \ {Max(s)}]
        BY <3>2, <4>1
      <4> HIDE DEF new
      <4> QED BY <3>2, <4>2, <4>3
    <3>3. CASE m \in s
      <4>1. Max(s) \in s /\ m <= Max(s) /\ s # {}
        BY <2>2, <3>3, MaxBelongs
      <4>2. Max(s) = m
        <5>1. Max(s) \in 1..m
          BY <4>1
        <5> QED BY <2>2, <4>1, <5>1
      <4>3. s \ {m} \in SUBSET (1..m) /\ m \notin s \ {m}
        OBVIOUS
      <4>4. new[s] = Turn(old[s \ {m}], existing, file, accs[m]) /\ new[s \ {m}] = old[s \ {m}]
        BY <3>3, <4>3
      <4> HIDE DEF new
      <4> QED BY <4>1, <4>2, <4>4
    <3> QED BY <3>1, <3>2, <3>3
  <2>4. Turns(new, table, existing, file, accs, 1..m)
    <3> HIDE DEF new
    <3>1. new = [s \in SUBSET (1..m) |-> new[s]]
      BY DEF new
    <3> QED BY <2>3, <3>1 DEF Turns
  <2>5. k + 1 \in 0..n
    BY <1>2
  <2> HIDE DEF new
  <2> QED BY <2>4, <2>5 DEF m
<1> HIDE DEF Good
<1>3. n \in Good
  <2>1. \A m \in 0..n : m \in Good
    BY <1>1, <1>2, UpTo
  <2> QED BY <2>1
<1> QED BY <1>3 DEF Good

\* What every turn takes from one set of tables to the next, unless it fails, is where the import
\* ends.
LEMMA ImportEndsIn ==
  ASSUME NEW table, NEW existing, NEW file, NEW i, NEW n \in Nat,
         NEW accs, accs = SubSeq(file.accounts, i, Len(file.accounts)), DOMAIN accs = 1..n,
         NEW T, table \in T[0],
         \A j \in 1..n : \A t \in T[j - 1] : t # NULL =>
           ImportAccount(t, existing, file, accs[j]) \in T[j] \union {NULL}
  PROVE  ImportRest(table, existing, file, i) \in T[n] \union {NULL}
<1>1. ImportRest(table, existing, file, i) = (CHOOSE it : Turns(it, table, existing, file, accs, 1..n))[1..n]
  <2> DEFINE Next1(t, acc) == IF t = NULL THEN NULL
                              ELSE LET r == ImportAccount(t, existing, file, acc)
                                   IN  IF r = NULL THEN AfterFailure(t) ELSE r
             Folds(it) == it = [s \in SUBSET (1..n) |->
                                  IF s = {} THEN table ELSE Next1(it[s \ {Max(s)}], accs[Max(s)])]
  <2>1. ImportRest(table, existing, file, i) = (CHOOSE it : Folds(it))[1..n]
    BY Zenon DEF ImportRest, FoldLeft, MapThenFoldSet
  <2>2. \A t, acc : Next1(t, acc) = Turn(t, existing, file, acc)
    BY DEF Turn, AfterFailure
  <2> HIDE DEF Next1
  <2>3. \A it : Folds(it) <=> Turns(it, table, existing, file, accs, 1..n)
    BY <2>2 DEF Turns
  <2> HIDE DEF Folds
  <2>4. (CHOOSE it : Folds(it)) = (CHOOSE it : Turns(it, table, existing, file, accs, 1..n))
    BY <2>3
  <2> QED BY <2>1, <2>4
<1>2. PICK it : /\ Turns(it, table, existing, file, accs, 1..n)
                /\ ImportRest(table, existing, file, i) = it[1..n]
  BY <1>1, TurnsExist
<1> DEFINE Good == {m \in 0..n : it[1..m] \in T[m] \union {NULL}}
<1>3. 0 \in Good
  <2>1. 1..0 = {} /\ {} \in SUBSET (1..n)
    OBVIOUS
  <2>2. it[{}] = table
    BY <1>2, <2>1 DEF Turns
  <2> QED BY <2>1, <2>2
<1>4. ASSUME NEW k \in Nat, k < n, k \in Good PROVE k + 1 \in Good
  <2> DEFINE m == k + 1
  <2>1. /\ m \in 1..n /\ m \in 0..n /\ m - 1 = k /\ m \in Nat
        /\ 1..m \in SUBSET (1..n) /\ 1..m # {} /\ (1..m) \ {m} = 1..k
    <3>1. m \in 1..n /\ m \in 0..n /\ m - 1 = k /\ m \in Nat
      BY <1>4
    <3>2. 1..m \in SUBSET (1..n) /\ m \in 1..m
      BY <1>4
    <3>3. (1..m) \ {m} = 1..k
      BY <1>4
    <3> HIDE DEF m
    <3> QED BY <3>1, <3>2, <3>3
  <2>2. Max(1..m) = m
    <3>1. Max(1..m) \in 1..m /\ m <= Max(1..m)
      <4>1. m \in 1..m
        BY <2>1
      <4> QED BY <2>1, <4>1, MaxBelongs
    <3> QED BY <2>1, <3>1
  <2> HIDE DEF m
  <2>3. it[1..m] = Turn(it[1..k], existing, file, accs[m])
    BY <1>2, <2>1, <2>2 DEF Turns
  <2>4. it[1..m] \in T[m] \union {NULL}
    <3>1. CASE it[1..k] = NULL
      BY <2>3, <3>1 DEF Turn
    <3>2. CASE it[1..k] # NULL
      <4>1. it[1..k] \in T[m - 1]
        BY <1>4, <2>1, <3>2
      <4> QED BY <2>1, <2>3, <3>2, <4>1 DEF Turn
    <3> QED BY <3>1, <3>2
  <2> QED BY <2>1, <2>4 DEF m
<1>5. n \in Good
  <2> HIDE DEF Good
  <2>1. \A m \in 0..n : m \in Good
    BY <1>3, <1>4, UpTo
  <2> QED BY <2>1
<1> QED BY <1>2, <1>5

\* What one write to the table amounts to.
LEMMA WriteIsSound ==
  ASSUME NEW table \in Tables, Forest(table), NEW id \in AccountIds, NEW row \in StoredAccount,
         NEW treatment, Written(table, treatment, id, row) # NULL
  PROVE  LET new == Written(table, treatment, id, row) IN
         /\ new \in Tables /\ Forest(new) /\ new[id] = row /\ row # NULL
         /\ \A a \in AccountIds : a # id => new[a] = table[a]
<1>1. /\ Written(table, treatment, id, row) = [table EXCEPT ![id] = row]
      /\ ParentFits(table, id, row.parent)
  BY Zenon DEF Written
<1>2. [table EXCEPT ![id] = row] \in Tables /\ Forest([table EXCEPT ![id] = row])
  BY <1>1, WriteKeepsForest
<1>3. row # NULL
  BY NullAssumption
<1> QED BY <1>1, <1>2, <1>3 DEF Tables

\* The rows of a file that fits are accounts like any other.
LEMMA PatchedIsSound ==
  ASSUME NEW meta \in [MetaKeys -> OptionalText], NEW patch,
         \A k \in DOMAIN patch : patch[k] \in OptionalText
  PROVE  Patched(meta, patch) \in [MetaKeys -> OptionalText]
BY DEF Patched

LEMMA MetadataIsSound ==
  ASSUME NEW file, FileFits(file), NEW i \in DOMAIN file.accounts
  PROVE  LET built == BuildMetadata(file, file.accounts[i]) IN
         \A k \in DOMAIN built : built[k] \in OptionalText
<1> DEFINE acc == file.accounts[i]
           own == [description |-> Or(acc.description, Given(acc.metadata, "description")),
                   is_active |-> Or(acc.active, Or(Given(acc.metadata, "is_active"), "true")),
                   currency |-> Or(Or(acc.currency, file.currency), Given(acc.metadata, "currency"))]
           keys == DOMAIN acc.metadata \union {k \in DOMAIN own : own[k] # NULL}
<1>1. /\ acc.active \in OptionalText /\ acc.description \in OptionalText /\ acc.currency \in OptionalText
      /\ file.currency \in OptionalText /\ NULL \in OptionalText /\ "true" \in OptionalText
      /\ \A k \in DOMAIN acc.metadata : acc.metadata[k] \in OptionalText
  BY RegistryAssumption DEF FileFits, OptionalText
<1> HIDE DEF acc
<1>2. \A k : Given(acc.metadata, k) \in OptionalText
  BY <1>1 DEF Given
<1>3. \A v, d \in OptionalText : Or(v, d) \in OptionalText
  BY DEF Or
<1>4. /\ Or(acc.description, Given(acc.metadata, "description")) \in OptionalText
      /\ Or(acc.active, Or(Given(acc.metadata, "is_active"), "true")) \in OptionalText
      /\ Or(Or(acc.currency, file.currency), Given(acc.metadata, "currency")) \in OptionalText
  BY <1>1, <1>2, <1>3
<1>5. /\ DOMAIN own = {"description", "is_active", "currency"}
      /\ \A k \in DOMAIN own : own[k] \in OptionalText
  BY <1>4
<1>6. BuildMetadata(file, acc) = [k \in keys |-> IF k \in DOMAIN own THEN own[k] ELSE acc.metadata[k]]
  BY DEF BuildMetadata
<1> HIDE DEF own
<1> QED BY <1>1, <1>5, <1>6 DEF acc

LEMMA RowsAreSound ==
  ASSUME NEW file, FileFits(file), NEW i \in DOMAIN file.accounts
  PROVE  /\ NewRow(file, file.accounts[i]) \in StoredAccount
         /\ \A row \in StoredAccount : NextRow(file, file.accounts[i], row) \in StoredAccount
<1> DEFINE acc == file.accounts[i]
           built == BuildMetadata(file, acc)
<1>1. acc.id \in AccountIds /\ acc.id \in Int /\ acc.name \in Texts /\ acc.parent \in OptionalId
  BY RegistryAssumption DEF FileFits
<1>2. \A k \in DOMAIN built : built[k] \in OptionalText
  BY MetadataIsSound
<1> HIDE DEF acc, built
<1>3. Patched([k \in MetaKeys |-> NULL], built) \in [MetaKeys -> OptionalText]
  <2>1. [k \in MetaKeys |-> NULL] \in [MetaKeys -> OptionalText]
    BY DEF OptionalText
  <2> QED BY <1>2, <2>1, PatchedIsSound
<1>4. NewRow(file, acc) \in StoredAccount
  BY <1>1, <1>3 DEF NewRow, StoredAccount, built
<1>5. ASSUME NEW row \in StoredAccount PROVE NextRow(file, acc, row) \in StoredAccount
  <2>1. MergeMetadata(file, row.meta, built) \in [MetaKeys -> OptionalText]
    <3> DEFINE admitted == [k \in Admitted(file, built) |-> built[k]]
    <3>1. \A k \in DOMAIN admitted : admitted[k] \in OptionalText
      BY <1>2 DEF Admitted
    <3>2. row.meta \in [MetaKeys -> OptionalText]
      BY DEF StoredAccount
    <3> HIDE DEF admitted
    <3>3. Patched(row.meta, admitted) \in [MetaKeys -> OptionalText]
      BY <3>1, <3>2, PatchedIsSound
    <3> QED BY <3>3 DEF MergeMetadata, admitted
  <2> QED BY <1>1, <2>1 DEF NextRow, StoredAccount, built
<1> QED BY <1>4, <1>5 DEF acc

\* What one turn of the loop makes of a table: the account of the turn is there, all others are as
\* they were, and the trigger has kept the forest.
TurnLeadsTo(table, new, existing, file, acc) ==
  /\ new \in Tables /\ Forest(new) /\ new[acc.id] # NULL
  /\ \A a \in AccountIds : a # acc.id => new[a] = table[a]
  /\ \/ acc.id \notin existing /\ new[acc.id] = NewRow(file, acc)
     \/ acc.id \in existing /\ file.mode = "create_only" /\ new[acc.id] = table[acc.id]
     \/ acc.id \in existing /\ new[acc.id] = NextRow(file, acc, table[acc.id])

LEMMA TurnIsSound ==
  ASSUME NEW table \in Tables, Forest(table), NEW existing, \A a \in existing : a \in AccountIds /\ table[a] # NULL,
         NEW file, FileFits(file), NEW i \in DOMAIN file.accounts,
         NEW new, new = ImportAccount(table, existing, file, file.accounts[i]), new # NULL
  PROVE  TurnLeadsTo(table, new, existing, file, file.accounts[i])
<1> DEFINE acc == file.accounts[i]
           treatment == Treatment(table, existing, file, acc)
           row == RowFor(treatment, file, acc, table[acc.id])
<1>0. new = ImportAccount(table, existing, file, acc)
  OBVIOUS
<1>1. acc.id \in AccountIds
  BY DEF FileFits
<1>2. NewRow(file, acc) \in StoredAccount /\ \A r \in StoredAccount : NextRow(file, acc, r) \in StoredAccount
  BY RowsAreSound
<1> HIDE DEF acc
<1>3. CASE treatment = "skip"
  <2>1. new = table
    BY <1>0, <1>3 DEF ImportAccount
  <2>2. acc.id \in existing /\ (file.mode = "create_only" \/ NextRow(file, acc, table[acc.id]) = table[acc.id])
    BY <1>3 DEF Treatment, Unchanged
  <2> QED BY <1>1, <2>1, <2>2 DEF acc, TurnLeadsTo
<1>4. CASE treatment # "skip"
  <2>1. new = Written(table, treatment, acc.id, row)
    BY <1>0, <1>4 DEF ImportAccount
  <2>2. /\ treatment = "insert" /\ acc.id \notin existing /\ row = NewRow(file, acc)
        \/ /\ treatment = "update" /\ acc.id \in existing /\ row = NextRow(file, acc, table[acc.id])
    BY <1>4 DEF Treatment, RowFor
  <2>3. row \in StoredAccount
    <3>1. acc.id \in existing => table[acc.id] \in StoredAccount
      BY <1>1, ParentsAreIds
    <3> HIDE DEF row, treatment
    <3> QED BY <1>2, <2>2, <3>1
  <2> HIDE DEF row, treatment
  <2>4. /\ new \in Tables /\ Forest(new) /\ new[acc.id] = row /\ row # NULL
        /\ \A a \in AccountIds : a # acc.id => new[a] = table[a]
    BY <1>1, <2>1, <2>3, WriteIsSound
  <2> QED BY <2>2, <2>4 DEF acc, TurnLeadsTo
<1> QED BY <1>3, <1>4

----------------------------------------------------------------------------
(* The invariant. *)

\* The ids of the first n accounts of a file.
FirstIds(file, n) == {file.accounts[i].id : i \in 1..n}

\* What a call in flight has seen of the accounts and relies on: an account that is there stays.
CallIsPlaced(s) ==
  /\ pc[s] # "idle" => arg[s] \in work.calls
  /\ pc[s] = "create" =>
       arg[s].tool = "create_account" /\ (arg[s].parent # NULL => AccountExists(arg[s].parent))
  /\ pc[s] = "patch" =>
       /\ arg[s].tool = "update_account_metadata" /\ AccountExists(arg[s].account)
       /\ seen[s] \in [MetaKeys -> OptionalText]
  /\ pc[s] = "profile" => arg[s].tool = "update_account_profile"
  /\ pc[s] = "import" => seen[s] = [existing |-> seen[s].existing, next |-> seen[s].next]
  /\ pc[s] = "import_write" =>
       /\ ~arg[s].dry /\ seen[s].row \in StoredAccount
       /\ seen[s].next \in 1..Len(arg[s].file.accounts)
  /\ pc[s] \in {"import", "import_write"} =>
       /\ arg[s].tool = "import_coa"
       /\ seen[s].existing \subseteq ExistingIds
       /\ seen[s].next \in 1..(Len(arg[s].file.accounts) + 1)
       /\ ~arg[s].dry => FirstIds(arg[s].file, seen[s].next - 1) \subseteq ExistingIds

SessionsExist == DOMAIN pc = Sessions /\ DOMAIN arg = Sessions /\ DOMAIN seen = Sessions

AInv ==
  /\ work \in Workloads
  /\ accounts \in Tables /\ Forest(accounts)
  /\ SessionsExist
  /\ \A s \in Sessions : CallIsPlaced(s)

\* Only session s moves.
Alone(s) ==
  /\ work' = work /\ SessionsExist'
  /\ \A o \in Sessions : o # s => pc'[o] = pc[o] /\ arg'[o] = arg[o] /\ seen'[o] = seen[o]

AccountsStay == accounts' \in Tables /\ Forest(accounts') /\ ExistingIds \subseteq ExistingIds'

LEMMA CallsFit ==
  ASSUME work \in Workloads, NEW c \in work.calls
  PROVE  CallFits(c) /\ c \in CallsOf(c.tool)
BY WorkloadsAssumption DEF CallsOf

LEMMA ReadsMoves ==
  ASSUME SessionsExist, NEW s \in Sessions, NEW c, NEW step, NEW value, Reads(s, c, step, value)
  PROVE  /\ Alone(s) /\ accounts' = accounts
         /\ pc'[s] = step /\ arg'[s] = c /\ seen'[s] = value
BY DEF Reads, Alone, SessionsExist, tables

LEMMA EndsMoves ==
  ASSUME SessionsExist, NEW s \in Sessions, Ends(s)
  PROVE  Alone(s) /\ pc'[s] = "idle"
BY DEF Ends, Alone, SessionsExist

LEMMA FailsMoves ==
  ASSUME SessionsExist, NEW s \in Sessions, Fails(s)
  PROVE  Alone(s) /\ pc'[s] = "idle" /\ accounts' = accounts
BY EndsMoves DEF Fails, tables

LEMMA IdleIsPlaced ==
  ASSUME NEW s \in Sessions, pc'[s] = "idle"
  PROVE  CallIsPlaced(s)'
BY DEF CallIsPlaced

LEMMA SameAccounts ==
  ASSUME AInv, accounts' = accounts
  PROVE  AccountsStay
BY DEF AInv, AccountsStay, ExistingIds, AccountExists

\* What other sessions rely on stays.
LEMMA OthersStayPlaced ==
  ASSUME AInv, NEW s \in Sessions, Alone(s), AccountsStay, CallIsPlaced(s)'
  PROVE  AInv'
<1>1. ASSUME NEW o \in Sessions, o # s PROVE CallIsPlaced(o)'
  <2>1. pc'[o] = pc[o] /\ arg'[o] = arg[o] /\ seen'[o] = seen[o] /\ work' = work /\ CallIsPlaced(o)
    BY <1>1 DEF Alone, AInv
  <2>2. ASSUME NEW a, a \in ExistingIds PROVE a \in ExistingIds'
    BY <2>2 DEF AccountsStay
  <2>3. pc[o] = "create" /\ arg[o].parent # NULL =>
          arg[o].parent \in AccountIds /\ arg[o].parent \in ExistingIds
    <3>1. SUFFICES ASSUME pc[o] = "create", arg[o].parent # NULL
                   PROVE  arg[o].parent \in AccountIds /\ arg[o].parent \in ExistingIds
      OBVIOUS
    <3>2. CallFits(arg[o]) /\ arg[o].tool = "create_account"
      BY <2>1, <3>1, CallsFit DEF CallIsPlaced, AInv
    <3>3. arg[o].parent \in AccountIds
      BY <3>1, <3>2 DEF CallFits, OptionalId
    <3> QED BY <2>1, <3>1, <3>3 DEF CallIsPlaced, ExistingIds
  <2>4. pc[o] = "patch" => arg[o].account \in AccountIds /\ arg[o].account \in ExistingIds
    <3>1. SUFFICES ASSUME pc[o] = "patch"
                   PROVE  arg[o].account \in AccountIds /\ arg[o].account \in ExistingIds
      OBVIOUS
    <3>2. CallFits(arg[o]) /\ arg[o].tool = "update_account_metadata"
      BY <2>1, <3>1, CallsFit DEF CallIsPlaced, AInv
    <3>3. arg[o].account \in AccountIds
      BY <3>2 DEF CallFits
    <3> QED BY <2>1, <3>1, <3>3 DEF CallIsPlaced, ExistingIds
  <2>5. \A a \in AccountIds : a \in ExistingIds => AccountExists(a)'
    BY <2>2 DEF ExistingIds
  <2>6. CallIsPlaced(o)' <=>
          /\ pc[o] # "idle" => arg[o] \in work.calls
          /\ pc[o] = "create" =>
               arg[o].tool = "create_account" /\ (arg[o].parent # NULL => accounts'[arg[o].parent] # NULL)
          /\ pc[o] = "patch" =>
               /\ arg[o].tool = "update_account_metadata" /\ accounts'[arg[o].account] # NULL
               /\ seen[o] \in [MetaKeys -> OptionalText]
          /\ pc[o] = "profile" => arg[o].tool = "update_account_profile"
          /\ pc[o] = "import" => seen[o] = [existing |-> seen[o].existing, next |-> seen[o].next]
          /\ pc[o] = "import_write" =>
               /\ ~arg[o].dry /\ seen[o].row \in StoredAccount
               /\ seen[o].next \in 1..Len(arg[o].file.accounts)
          /\ pc[o] \in {"import", "import_write"} =>
               /\ arg[o].tool = "import_coa"
               /\ seen[o].existing \subseteq ExistingIds'
               /\ seen[o].next \in 1..(Len(arg[o].file.accounts) + 1)
               /\ ~arg[o].dry => FirstIds(arg[o].file, seen[o].next - 1) \subseteq ExistingIds'
    BY <2>1 DEF CallIsPlaced, AccountExists, FirstIds
  <2>7. accounts'[arg[o].parent] # NULL \/ ~(pc[o] = "create" /\ arg[o].parent # NULL)
    BY <2>3, <2>5 DEF AccountExists
  <2>8. accounts'[arg[o].account] # NULL \/ pc[o] # "patch"
    BY <2>4, <2>5 DEF AccountExists
  <2>9. \A X : X \subseteq ExistingIds => X \subseteq ExistingIds'
    BY <2>2
  <2> QED BY <2>1, <2>6, <2>7, <2>8, <2>9 DEF CallIsPlaced
<1>2. \A o \in Sessions : CallIsPlaced(o)'
  BY <1>1
<1> QED BY <1>2 DEF AInv, Alone, AccountsStay

AccountSteps == {"create", "patch", "profile", "import", "import_write"}

\* The shapes of the steps that leave the accounts alone.
LEMMA ReadsElsewhere ==
  ASSUME AInv, NEW s \in Sessions, NEW c \in work.calls, NEW step, NEW value,
         Reads(s, c, step, value), step \notin AccountSteps
  PROVE  AInv'
<1>1. SessionsExist
  BY DEF AInv
<1>2. Alone(s) /\ accounts' = accounts /\ pc'[s] = step /\ arg'[s] = c /\ work' = work
  BY <1>1, ReadsMoves DEF Alone
<1>3. CallIsPlaced(s)'
  BY <1>2 DEF CallIsPlaced, AccountSteps
<1> QED BY <1>2, <1>3, SameAccounts, OthersStayPlaced

LEMMA EndsElsewhere ==
  ASSUME AInv, NEW s \in Sessions, Ends(s), accounts' = accounts
  PROVE  AInv'
<1>1. SessionsExist
  BY DEF AInv
<1> QED BY <1>1, EndsMoves, IdleIsPlaced, SameAccounts, OthersStayPlaced

LEMMA NothingMoves ==
  ASSUME AInv, UNCHANGED <<accounts, work, pc, arg, seen>>
  PROVE  AInv'
<1>1. ASSUME NEW s \in Sessions PROVE CallIsPlaced(s)'
  <2>1. CallIsPlaced(s)
    BY DEF AInv
  <2> QED BY <2>1 DEF CallIsPlaced, AccountExists, ExistingIds, FirstIds
<1> QED BY <1>1 DEF AInv, SessionsExist

LEMMA RollbackKeeps ==
  ASSUME AInv, NEW s \in Sessions, Fails(s)
  PROVE  AInv'
BY EndsElsewhere DEF Fails, tables

LEMMA ObligationStepKeeps ==
  ASSUME AInv, NEW s \in Sessions, ObligationStep(s)
  PROVE  AInv'
<1>1. ASSUME NEW c \in work.calls, ObligationReads(s, c) \/ FulfilReads(s, c) \/ SnapshotReads(s, c)
      PROVE  AInv'
  BY <1>1, ReadsElsewhere DEF ObligationReads, FulfilReads, SnapshotReads, AccountSteps
<1>2. ASSUME NEW c \in work.calls, FulfilReplays(s, c) PROVE AInv'
  BY <1>2, NothingMoves DEF FulfilReplays, OnlyObligations
<1>3. CASE ObligationInserts(s) \/ ObligationUpdates(s) \/ FulfilWrites(s)
  BY <1>3, EndsElsewhere DEF ObligationInserts, ObligationUpdates, FulfilWrites, OnlyObligations
<1>4. CASE SnapshotInserts(s) \/ SnapshotUpdates(s)
  BY <1>4, EndsElsewhere DEF SnapshotInserts, SnapshotUpdates, OnlySnapshots
<1>5. CASE ObligationFails(s) \/ SnapshotFails(s)
  BY <1>5, RollbackKeeps DEF ObligationFails, SnapshotFails
<1> QED BY <1>1, <1>2, <1>3, <1>4, <1>5 DEF ObligationStep

LEMMA ConfigStepKeeps ==
  ASSUME AInv, NEW s \in Sessions, ConfigStep(s)
  PROVE  AInv'
<1>1. ASSUME NEW c \in work.calls, ProposeReads(s, c) \/ ApproveReads(s, c) \/ RejectReads(s, c)
      PROVE  AInv'
  BY <1>1, ReadsElsewhere DEF ProposeReads, ApproveReads, RejectReads, AccountSteps
<1>2. ASSUME NEW c \in work.calls, ProposeReplays(s, c) \/ ApproveReplays(s, c) \/ RejectReplays(s, c)
      PROVE  AInv'
  BY <1>2, NothingMoves DEF ProposeReplays, ApproveReplays, RejectReplays, OnlyChanges
<1>3. CASE ApproverReads(s)
  <2>1. pc[s] = "approver"
    BY <1>3 DEF ApproverReads, At
  <2>2. arg[s] \in work.calls
    BY <2>1 DEF AInv, CallIsPlaced
  <2> QED BY <1>3, <2>2, ReadsElsewhere DEF ApproverReads, AccountSteps
<1>4. CASE ProposeInserts(s) \/ ApplyChange(s) \/ ApplyAgain(s) \/ RejectChange(s)
  BY <1>4, EndsElsewhere DEF ProposeInserts, ApplyChange, ApplyAgain, RejectChange, Applies, OnlyChanges
<1>5. CASE ProposeFails(s) \/ ApplyFails(s) \/ RejectFails(s)
  BY <1>5, RollbackKeeps DEF ProposeFails, ApplyFails, RejectFails
<1> QED BY <1>1, <1>2, <1>3, <1>4, <1>5 DEF ConfigStep

LEMMA ListingStepKeeps ==
  ASSUME AInv, NEW s \in Sessions, ListingStep(s)
  PROVE  AInv'
<1>1. \A held : PageStep(held) \notin AccountSteps
  BY DEF PageStep, AccountSteps
<1>2. ASSUME NEW c \in work.calls, ListStarts(s, c) PROVE AInv'
  <2> DEFINE held == AfterPage(c, NULL, {}, Rows(c))
  <2>1. Reads(s, c, PageStep(held), held)
    BY <1>2 DEF ListStarts
  <2> HIDE DEF held
  <2> QED BY <1>1, <2>1, ReadsElsewhere
<1>3. CASE ListContinues(s)
  <2> DEFINE held == AfterPage(arg[s], seen[s].cursor, seen[s].got, seen[s].stayed)
  <2>1. Reads(s, arg[s], PageStep(held), held) /\ pc[s] = "page"
    BY <1>3 DEF ListContinues, At
  <2>2. arg[s] \in work.calls
    BY <2>1 DEF AInv, CallIsPlaced
  <2> HIDE DEF held
  <2> QED BY <1>1, <2>1, <2>2, ReadsElsewhere
<1>4. CASE ListEnds(s)
  BY <1>4, RollbackKeeps DEF ListEnds
<1> QED BY <1>2, <1>3, <1>4 DEF ListingStep

----------------------------------------------------------------------------
(* create_account, update_account_metadata and update_account_profile. *)

\* No chain of parents leads to an id that is not in use.
LEMMA FreshIdIsBelowNothing ==
  ASSUME NEW table \in Tables, Forest(table), NEW id \in AccountIds, table[id] = NULL,
         NEW p \in AccountIds, table[p] # NULL
  PROVE  id \notin Chain(ParentOf(table), p)
<1> DEFINE D == {a \in AccountIds : table[a] # NULL}
           parent == ParentOf(table)
<1>1. parent \in [AccountIds -> OptionalId]
  BY ParentsAreIds
<1>2. ASSUME NEW x \in D, parent[x] # NULL PROVE parent[x] \in D
  <2>1. parent[x] = table[x].parent /\ parent[x] \in AccountIds
    BY <1>1, <1>2, ParentsAreIds DEF OptionalId
  <2> QED BY <1>2, <2>1 DEF Forest, Ranks
<1>3. D \in SUBSET AccountIds /\ p \in D /\ id \notin D
  OBVIOUS
<1> HIDE DEF D, parent
<1>4. Chain(parent, p) \subseteq D
  BY <1>1, <1>2, <1>3, ChainIsLeast
<1> QED BY <1>3, <1>4 DEF parent

LEMMA CreateKeeps ==
  ASSUME AInv, NEW s \in Sessions, CreateInserts(s)
  PROVE  AInv'
<1> DEFINE c == arg[s]
           row == [code |-> c.code, name |-> c.name, parent |-> c.parent, meta |-> c.meta]
           id == FreshId
<1>1. /\ pc[s] = "create" /\ Ends(s) /\ accounts' = [accounts EXCEPT ![id] = row]
      /\ \E a \in Uuids : accounts[a] = NULL
  BY DEF CreateInserts, At, UuidLeft
<1>2. id \in AccountIds /\ accounts[id] = NULL
  BY <1>1, RegistryAssumption DEF FreshId
<1>3. c \in work.calls /\ c.tool = "create_account" /\ (c.parent # NULL => accounts[c.parent] # NULL)
  BY <1>1 DEF AInv, CallIsPlaced, AccountExists
<1>4. CallFits(c)
  BY <1>3, CallsFit DEF AInv
<1>5. row \in StoredAccount /\ row.parent = c.parent /\ c.parent \in OptionalId
  BY <1>3, <1>4 DEF CallFits, StoredAccount
<1>6. accounts \in Tables /\ Forest(accounts) /\ SessionsExist
  BY DEF AInv
<1> HIDE DEF row, id, c
<1>7. ParentFits(accounts, id, row.parent)
  <2>1. c.parent # NULL => id \notin Chain(ParentOf(accounts), c.parent)
    BY <1>2, <1>3, <1>5, <1>6, FreshIdIsBelowNothing DEF OptionalId
  <2> QED BY <1>3, <1>5, <2>1 DEF ParentFits, CycleTrigger
<1>8. accounts' \in Tables /\ Forest(accounts')
  BY <1>1, <1>2, <1>5, <1>6, <1>7, WriteKeepsForest
<1>9. ExistingIds \subseteq ExistingIds'
  BY <1>1, <1>2, <1>6 DEF ExistingIds, AccountExists, Tables
<1>10. Alone(s) /\ pc'[s] = "idle"
  BY <1>1, <1>6, EndsMoves
<1> QED BY <1>8, <1>9, <1>10, IdleIsPlaced, OthersStayPlaced DEF AccountsStay

\* A row that keeps its parent.
LEMMA PatchKeeps ==
  ASSUME AInv, NEW s \in Sessions, Ends(s), NEW a \in AccountIds, accounts[a] # NULL,
         NEW row \in StoredAccount, row.parent = accounts[a].parent, accounts' = [accounts EXCEPT ![a] = row]
  PROVE  AInv'
<1>1. accounts \in Tables /\ Forest(accounts) /\ SessionsExist
  BY DEF AInv
<1>2. row # NULL
  BY NullAssumption
<1>3. accounts' \in Tables /\ accounts'[a] = row /\ \A b \in AccountIds : b # a => accounts'[b] = accounts[b]
  BY <1>1 DEF Tables
<1>4. \A b \in AccountIds : /\ accounts'[b] = NULL <=> accounts[b] = NULL
                            /\ accounts'[b] # NULL => accounts'[b].parent = accounts[b].parent
  BY <1>2, <1>3
<1>5. Forest(accounts')
  BY <1>1, <1>3, <1>4, SameParents
<1>6. ExistingIds \subseteq ExistingIds'
  BY <1>4 DEF ExistingIds, AccountExists
<1> QED BY <1>1, <1>3, <1>5, <1>6, EndsMoves, IdleIsPlaced, OthersStayPlaced DEF AccountsStay

LEMMA MetadataKeeps ==
  ASSUME AInv, NEW s \in Sessions, MetadataWrites(s)
  PROVE  AInv'
<1> DEFINE c == arg[s]
           meta == Patched(seen[s], c.patch)
           row == [accounts[c.account] EXCEPT !.meta = meta]
<1>1. pc[s] = "patch" /\ Ends(s) /\ accounts' = [accounts EXCEPT ![c.account] = row]
  BY DEF MetadataWrites, At
<1>2. /\ c \in work.calls /\ c.tool = "update_account_metadata" /\ accounts[c.account] # NULL
      /\ seen[s] \in [MetaKeys -> OptionalText]
  BY <1>1 DEF AInv, CallIsPlaced, AccountExists
<1>3. CallFits(c)
  BY <1>2, CallsFit DEF AInv
<1>4. c.account \in AccountIds /\ \A k \in DOMAIN c.patch : c.patch[k] \in OptionalText
  BY <1>2, <1>3 DEF CallFits, PatchFits
<1>5. meta \in [MetaKeys -> OptionalText]
  BY <1>2, <1>4, PatchedIsSound
<1>6. accounts[c.account] \in StoredAccount
  BY <1>2, <1>4, ParentsAreIds DEF AInv
<1> HIDE DEF meta, c
<1>7. row \in StoredAccount /\ row.parent = accounts[c.account].parent
  BY <1>5, <1>6 DEF StoredAccount
<1> HIDE DEF row
<1> QED BY <1>1, <1>2, <1>4, <1>7, PatchKeeps

\* What a profile call writes.
LEMMA ProfileIsSound ==
  ASSUME AInv, NEW s \in Sessions, pc[s] = "profile", AccountExists(arg[s].account)
  PROVE  LET c == arg[s]
             a == c.account IN
         /\ c \in work.calls /\ c.tool = "update_account_profile" /\ CallFits(c)
         /\ a \in AccountIds /\ accounts[a] \in StoredAccount
         /\ ProfileMeta(a, c) \in [MetaKeys -> OptionalText] /\ ProfileName(a, c) \in Texts
<1> DEFINE c == arg[s]
           a == c.account
<1>1. c \in work.calls /\ c.tool = "update_account_profile" /\ accounts[a] # NULL
  BY DEF AInv, CallIsPlaced, AccountExists
<1>2. CallFits(c)
  BY <1>1, CallsFit DEF AInv
<1> HIDE DEF c
<1>3. a \in AccountIds /\ c.name \in OptionalText /\ \A k \in DOMAIN c.patch : c.patch[k] \in OptionalText
  BY <1>1, <1>2 DEF CallFits, PatchFits
<1> HIDE DEF a
<1>4. accounts[a] \in StoredAccount
  BY <1>1, <1>3, ParentsAreIds DEF AInv
<1>5. accounts[a].meta \in [MetaKeys -> OptionalText] /\ accounts[a].name \in Texts
  BY <1>4 DEF StoredAccount
<1>6. ProfileMeta(a, c) \in [MetaKeys -> OptionalText]
  BY <1>3, <1>5, PatchedIsSound DEF ProfileMeta
<1>7. ProfileName(a, c) \in Texts
  BY <1>3, <1>5 DEF ProfileName, OptionalText
<1> QED BY <1>1, <1>2, <1>3, <1>4, <1>6, <1>7 DEF c, a

LEMMA ProfileKeeps ==
  ASSUME AInv, NEW s \in Sessions, ProfileWrites(s)
  PROVE  AInv'
<1> DEFINE c == arg[s]
           a == c.account
           name == ProfileName(a, c)
           meta == ProfileMeta(a, c)
           row == [[accounts[a] EXCEPT !.name = name] EXCEPT !.meta = meta]
<1>1. /\ pc[s] = "profile" /\ Ends(s) /\ AccountExists(a)
      /\ accounts' = [accounts EXCEPT ![a].name = name, ![a].meta = meta]
  BY DEF ProfileWrites, At
<1>2. a \in AccountIds /\ accounts[a] \in StoredAccount /\ meta \in [MetaKeys -> OptionalText] /\ name \in Texts
  BY <1>1, ProfileIsSound
<1>3. accounts[a] # NULL /\ accounts \in Tables
  BY <1>1 DEF AccountExists, AInv
<1> HIDE DEF name, meta, a, c
<1>4. row \in StoredAccount /\ row.parent = accounts[a].parent
  BY <1>2 DEF StoredAccount
<1>5. accounts' = [accounts EXCEPT ![a] = row]
  BY <1>1, <1>2, <1>3 DEF Tables
<1> HIDE DEF row
<1> QED BY <1>1, <1>2, <1>3, <1>4, <1>5, PatchKeeps

LEMMA RegistryStepKeeps ==
  ASSUME AInv, NEW s \in Sessions, RegistryStep(s)
  PROVE  AInv'
<1>0. SessionsExist
  BY DEF AInv
<1>1. ASSUME NEW c \in work.calls, CreateReads(s, c) PROVE AInv'
  <2>1. /\ Reads(s, c, "create", NULL) /\ c.tool = "create_account"
        /\ c.parent # NULL => AccountExists(c.parent)
    BY <1>1 DEF CreateReads, Starts
  <2>2. Alone(s) /\ accounts' = accounts /\ pc'[s] = "create" /\ arg'[s] = c /\ work' = work
    BY <1>0, <2>1, ReadsMoves DEF Alone
  <2>3. CallIsPlaced(s)'
    BY <2>1, <2>2 DEF CallIsPlaced, AccountExists
  <2> QED BY <2>2, <2>3, SameAccounts, OthersStayPlaced
<1>2. ASSUME NEW c \in work.calls, MetadataReads(s, c) PROVE AInv'
  <2>1. /\ Reads(s, c, "patch", accounts[c.account].meta) /\ c.tool = "update_account_metadata"
        /\ AccountExists(c.account)
    BY <1>2 DEF MetadataReads, Starts
  <2>2. /\ Alone(s) /\ accounts' = accounts /\ pc'[s] = "patch" /\ arg'[s] = c /\ work' = work
        /\ seen'[s] = accounts[c.account].meta
    BY <1>0, <2>1, ReadsMoves DEF Alone
  <2>3. c.account \in AccountIds
    BY <2>1, CallsFit DEF AInv, CallFits
  <2>4. accounts[c.account].meta \in [MetaKeys -> OptionalText]
    BY <2>1, <2>3, ParentsAreIds DEF AInv, AccountExists, StoredAccount
  <2>5. CallIsPlaced(s)'
    BY <2>1, <2>2, <2>4 DEF CallIsPlaced, AccountExists
  <2> QED BY <2>2, <2>5, SameAccounts, OthersStayPlaced
<1>3. ASSUME NEW c \in work.calls, ProfileReplays(s, c) PROVE AInv'
  BY <1>3, NothingMoves DEF ProfileReplays, accountTables
<1>4. ASSUME NEW c \in work.calls, ProfileReads(s, c) PROVE AInv'
  <2>1. Reads(s, c, "profile", NULL) /\ c.tool = "update_account_profile"
    BY <1>4 DEF ProfileReads, Starts
  <2>2. Alone(s) /\ accounts' = accounts /\ pc'[s] = "profile" /\ arg'[s] = c /\ work' = work
    BY <1>0, <2>1, ReadsMoves DEF Alone
  <2>3. CallIsPlaced(s)'
    BY <2>1, <2>2 DEF CallIsPlaced
  <2> QED BY <2>2, <2>3, SameAccounts, OthersStayPlaced
<1>5. CASE ProfileConflict(s)
  BY <1>5, EndsElsewhere DEF ProfileConflict, accountTables
<1>6. CASE CreateFails(s) \/ ProfileFails(s)
  BY <1>6, RollbackKeeps DEF CreateFails, ProfileFails
<1> QED BY <1>1, <1>2, <1>3, <1>4, <1>5, <1>6, CreateKeeps, MetadataKeeps, ProfileKeeps DEF RegistryStep

----------------------------------------------------------------------------
(* import_coa. *)

\* The account at hand in an import.
LEMMA AtHandIsListed ==
  ASSUME AInv, NEW s \in Sessions, pc[s] \in {"import", "import_write"},
         seen[s].next <= Len(arg[s].file.accounts)
  PROVE  /\ arg[s] \in work.calls /\ FileFits(arg[s].file) /\ Len(arg[s].file.accounts) \in Nat
         /\ seen[s].next \in 1..Len(arg[s].file.accounts) /\ seen[s].next \in DOMAIN arg[s].file.accounts
         /\ \A a \in seen[s].existing : a \in AccountIds /\ accounts[a] # NULL
<1>1. /\ arg[s] \in work.calls /\ arg[s].tool = "import_coa"
      /\ seen[s].existing \subseteq ExistingIds
      /\ seen[s].next \in 1..(Len(arg[s].file.accounts) + 1)
  BY DEF AInv, CallIsPlaced
<1>2. CallFits(arg[s])
  BY <1>1, CallsFit DEF AInv
<1>3. FileFits(arg[s].file)
  BY <1>1, <1>2 DEF CallFits
<1>4. Len(arg[s].file.accounts) \in Nat /\ DOMAIN arg[s].file.accounts = 1..Len(arg[s].file.accounts)
  BY <1>3 DEF FileFits
<1>5. \A a \in seen[s].existing : a \in AccountIds /\ accounts[a] # NULL
  BY <1>1 DEF ExistingIds, AccountExists
<1> QED BY <1>1, <1>3, <1>4, <1>5

LEMMA RestOfFile ==
  ASSUME NEW file, FileFits(file), NEW i \in 1..(Len(file.accounts) + 1)
  PROVE  LET accs == SubSeq(file.accounts, i, Len(file.accounts)) IN
         /\ Len(file.accounts) + 1 - i \in Nat
         /\ DOMAIN accs = 1..(Len(file.accounts) + 1 - i)
         /\ \A j \in 1..(Len(file.accounts) + 1 - i) :
              accs[j] = file.accounts[i + j - 1] /\ i + j - 1 \in DOMAIN file.accounts
<1>1. PICK S : file.accounts \in Seq(S)
  BY DEF FileFits
<1>2. Len(file.accounts) \in Nat /\ DOMAIN file.accounts = 1..Len(file.accounts)
  BY <1>1
<1> DEFINE n == Len(file.accounts)
<1>3. SubSeq(file.accounts, i, n) = [j \in 1..(n + 1 - i) |-> file.accounts[i + j - 1]]
  <2>1. n + 1 - i = 1 + n - i
    BY <1>2
  <2> QED BY <1>1, <1>2
<1> QED BY <1>2, <1>3

\* The tables that the rest of an import may pass through: forests with every account that was there,
\* and those of the file so far.
Passable(file, n) ==
  {t \in Tables : /\ Forest(t)
                  /\ \A a \in ExistingIds : t[a] # NULL
                  /\ \A i \in 1..n : t[file.accounts[i].id] # NULL}

\* The rest of a file, from account i, keeps to them.
LEMMA RestKeepsForest ==
  ASSUME NEW file, FileFits(file), NEW i \in 1..(Len(file.accounts) + 1),
         NEW table \in Passable(file, i - 1), NEW existing \in SUBSET ExistingIds,
         ImportRest(table, existing, file, i) # NULL
  PROVE  ImportRest(table, existing, file, i) \in Passable(file, Len(file.accounts))
<1> DEFINE n == Len(file.accounts) + 1 - i
           accs == SubSeq(file.accounts, i, Len(file.accounts))
           T == [j \in 0..n |-> Passable(file, i - 1 + j)]
<1>1. /\ n \in Nat /\ DOMAIN accs = 1..n
      /\ \A j \in 1..n : accs[j] = file.accounts[i + j - 1] /\ i + j - 1 \in DOMAIN file.accounts
  BY RestOfFile
<1>2. Len(file.accounts) \in Nat /\ i \in Nat
  <2>1. PICK S : file.accounts \in Seq(S)
    BY DEF FileFits
  <2> QED BY <2>1
<1>3. table \in T[0] /\ T[n] = Passable(file, Len(file.accounts))
  <2>1. 0 \in 0..n /\ n \in 0..n /\ i - 1 + 0 = i - 1 /\ i - 1 + n = Len(file.accounts)
    BY <1>1, <1>2
  <2>2. T[0] = Passable(file, i - 1 + 0) /\ T[n] = Passable(file, i - 1 + n)
    <3> HIDE DEF n
    <3> QED BY <2>1
  <2> QED BY <2>1, <2>2
<1> HIDE DEF n, accs
<1>4. ASSUME NEW j \in 1..n, NEW t \in T[j - 1], t # NULL
      PROVE  ImportAccount(t, existing, file, accs[j]) \in T[j] \union {NULL}
  <2> DEFINE m == i + j - 1
             new == ImportAccount(t, existing, file, file.accounts[m])
             id == file.accounts[m].id
  <2>1. /\ accs[j] = file.accounts[m] /\ m \in DOMAIN file.accounts /\ m \in Nat
        /\ t \in Passable(file, m - 1) /\ T[j] = Passable(file, m)
    <3>1. j \in 0..n /\ j - 1 \in 0..n /\ i - 1 + j = m /\ i - 1 + (j - 1) = m - 1 /\ m \in Nat
      <4>1. n \in Nat /\ j \in Nat /\ 1 <= j /\ j <= n /\ i \in Nat /\ 1 <= i
        BY <1>1, <1>2
      <4> QED BY <4>1
    <3>2. T[j - 1] = Passable(file, i - 1 + (j - 1)) /\ T[j] = Passable(file, i - 1 + j)
      BY <3>1
    <3> QED BY <1>1, <1>4, <3>1, <3>2
  <2>2. SUFFICES ASSUME new # NULL PROVE new \in Passable(file, m)
    BY <2>1
  <2> HIDE DEF T, m, new
  <2>3. /\ t \in Tables /\ Forest(t) /\ \A a \in ExistingIds : t[a] # NULL
        /\ \A k \in 1..(m - 1) : t[file.accounts[k].id] # NULL
    BY <2>1 DEF Passable
  <2>4. \A a \in existing : a \in AccountIds /\ t[a] # NULL
    BY <2>3 DEF ExistingIds
  <2>5. /\ new \in Tables /\ Forest(new) /\ new[id] # NULL
        /\ \A a \in AccountIds : a # id => new[a] = t[a]
    <3>1. new = ImportAccount(t, existing, file, file.accounts[m]) /\ m \in DOMAIN file.accounts
      BY <2>1 DEF new
    <3>2. TurnLeadsTo(t, new, existing, file, file.accounts[m])
      BY <2>2, <2>3, <2>4, <3>1, TurnIsSound
    <3> QED BY <3>2 DEF TurnLeadsTo
  <2>6. \A a \in ExistingIds : new[a] # NULL
    BY <2>3, <2>5 DEF ExistingIds
  <2>7. ASSUME NEW k \in 1..m PROVE new[file.accounts[k].id] # NULL
    <3>1. CASE k = m
      BY <2>5, <3>1
    <3>2. CASE k # m
      <4>1. k \in 1..(m - 1)
        BY <2>1, <3>2
      <4>2. k \in DOMAIN file.accounts
        <5>1. PICK S : file.accounts \in Seq(S)
          BY DEF FileFits
        <5> QED BY <2>1, <5>1
      <4>3. file.accounts[k].id \in AccountIds
        BY <4>2 DEF FileFits
      <4> HIDE DEF id
      <4> QED BY <2>3, <2>5, <4>1, <4>3
    <3> QED BY <3>1, <3>2
  <2> QED BY <2>5, <2>6, <2>7 DEF Passable
<1>5. ImportRest(table, existing, file, i) \in T[n] \union {NULL}
  <2> HIDE DEF T
  <2> QED BY <1>1, <1>3, <1>4, ImportEndsIn DEF accs
<1> QED BY <1>3, <1>5

\* An import that goes through leaves such a table, with all accounts of its file.
LEMMA ImportIsSound ==
  ASSUME AInv, NEW s \in Sessions, ImportWrites(s)
  PROVE  accounts' \in Passable(arg[s].file, Len(arg[s].file.accounts)) /\ FileFits(arg[s].file)
<1> DEFINE file == arg[s].file
           next == seen[s].next
           id == AtHand(s).id
           row == seen[s].row
           first == Written(accounts, seen[s].treatment, id, row)
<1>1. pc[s] = "import_write" /\ Outcome(s) # NULL /\ accounts' = Outcome(s)
  BY DEF ImportWrites, At
<1>2. first # NULL /\ Outcome(s) = ImportRest(first, seen[s].existing, file, next + 1)
  BY <1>1 DEF Outcome, AfterFailure
<1>3. /\ row \in StoredAccount /\ next \in 1..Len(file.accounts) /\ ~arg[s].dry
      /\ seen[s].existing \subseteq ExistingIds /\ FirstIds(file, next - 1) \subseteq ExistingIds
  BY <1>1 DEF AInv, CallIsPlaced
<1>4. FileFits(file) /\ next \in DOMAIN file.accounts /\ Len(file.accounts) \in Nat
  <2>1. next <= Len(file.accounts)
    BY <1>3
  <2> QED BY <1>1, <2>1, AtHandIsListed
<1>5. id \in AccountIds /\ id = file.accounts[next].id
  BY <1>4 DEF FileFits, AtHand
<1> HIDE DEF file, id, row
<1>6. /\ first \in Tables /\ Forest(first) /\ first[id] # NULL
      /\ \A a \in AccountIds : a # id => first[a] = accounts[a]
  BY <1>2, <1>3, <1>5, WriteIsSound DEF AInv
<1>7. \A a \in ExistingIds : first[a] # NULL
  BY <1>6 DEF ExistingIds, AccountExists
<1> HIDE DEF first
<1>8. ASSUME NEW i \in 1..next PROVE first[file.accounts[i].id] # NULL
  <2>1. CASE i = next
    BY <1>5, <1>6, <2>1
  <2>2. CASE i # next
    <3>1. i \in 1..(next - 1)
      BY <1>3, <1>4, <2>2
    <3>2. file.accounts[i].id \in ExistingIds
      BY <1>3, <3>1 DEF FirstIds
    <3> QED BY <1>7, <3>2
  <2> QED BY <2>1, <2>2
<1> HIDE DEF next
<1>9. next + 1 \in 1..(Len(file.accounts) + 1) /\ (next + 1) - 1 = next
  BY <1>3, <1>4
<1>10. first \in Passable(file, (next + 1) - 1)
  BY <1>6, <1>7, <1>8, <1>9 DEF Passable
<1> QED BY <1>1, <1>2, <1>3, <1>4, <1>9, <1>10, RestKeepsForest DEF file

LEMMA ImportWriteKeeps ==
  ASSUME AInv, NEW s \in Sessions, ImportWrites(s)
  PROVE  AInv'
<1>1. accounts' \in Passable(arg[s].file, Len(arg[s].file.accounts))
  BY ImportIsSound
<1>2. AccountsStay
  <2>1. \A a \in ExistingIds : a \in AccountIds /\ accounts'[a] # NULL
    BY <1>1 DEF Passable, ExistingIds
  <2> QED BY <1>1, <2>1 DEF Passable, AccountsStay, ExistingIds, AccountExists
<1>3. Alone(s) /\ pc'[s] = "idle"
  BY EndsMoves DEF ImportWrites, AInv
<1> QED BY <1>2, <1>3, IdleIsPlaced, OthersStayPlaced

LEMMA ImportSkipKeeps ==
  ASSUME AInv, NEW s \in Sessions, ImportSkips(s)
  PROVE  AInv'
<1> DEFINE file == arg[s].file
           next == seen[s].next
<1>1. /\ pc[s] = "import" /\ next <= Len(file.accounts) /\ ~Writes(s)
      /\ seen' = [seen EXCEPT ![s].next = @ + 1]
      /\ UNCHANGED <<accounts, work, pc, arg>>
  BY DEF ImportSkips, ImportMore, At, tables
<1>2. /\ arg[s] \in work.calls /\ FileFits(file) /\ Len(file.accounts) \in Nat
      /\ next \in 1..Len(file.accounts)
  BY <1>1, AtHandIsListed
<1>3. /\ seen[s] = [existing |-> seen[s].existing, next |-> next]
      /\ arg[s].tool = "import_coa" /\ seen[s].existing \subseteq ExistingIds
      /\ ~arg[s].dry => FirstIds(file, next - 1) \subseteq ExistingIds
  BY <1>1 DEF AInv, CallIsPlaced
<1>4. SessionsExist /\ SessionsExist'
  BY <1>1 DEF AInv, SessionsExist
<1>5. seen'[s] = [existing |-> seen[s].existing, next |-> next + 1]
  <2>1. seen'[s] = [seen[s] EXCEPT !.next = next + 1]
    BY <1>1, <1>4 DEF SessionsExist
  <2> DEFINE old == seen[s]
  <2> HIDE DEF old, next
  <2> QED BY <1>3, <2>1
<1>6. Alone(s)
  BY <1>1, <1>4 DEF Alone, SessionsExist
<1>7. ~arg[s].dry => FirstIds(file, next) \subseteq ExistingIds
  <2>1. SUFFICES ASSUME ~arg[s].dry PROVE FirstIds(file, next) \subseteq ExistingIds
    OBVIOUS
  <2>2. Wanted(s) = "skip"
    BY <1>1, <2>1 DEF Writes
  <2>3. file.accounts[next].id \in ExistingIds
    BY <1>3, <2>2 DEF Wanted, Treatment, AtHand
  <2>4. ASSUME NEW i \in 1..next PROVE file.accounts[i].id \in ExistingIds
    <3>1. i = next \/ i \in 1..(next - 1)
      BY <1>2
    <3> QED BY <1>3, <2>1, <2>3, <3>1 DEF FirstIds
  <2> QED BY <2>4 DEF FirstIds
<1>8. next + 1 \in 1..(Len(file.accounts) + 1) /\ (next + 1) - 1 = next
  BY <1>2
<1>9. ExistingIds' = ExistingIds
  BY <1>1 DEF ExistingIds, AccountExists
<1>10. CallIsPlaced(s)'
  <2>1. pc'[s] = "import" /\ arg'[s] = arg[s] /\ work' = work
    BY <1>1
  <2>2. seen'[s].next = next + 1 /\ seen'[s].existing = seen[s].existing
        /\ seen'[s] = [existing |-> seen'[s].existing, next |-> seen'[s].next]
    BY <1>5
  <2>3. FirstIds(arg[s].file, seen'[s].next - 1) = FirstIds(file, next)
    BY <1>8, <2>2
  <2> HIDE DEF next, file
  <2> QED BY <1>2, <1>3, <1>7, <1>8, <1>9, <2>1, <2>2, <2>3 DEF CallIsPlaced, FirstIds, file
<1> QED BY <1>1, <1>6, <1>10, SameAccounts, OthersStayPlaced

LEMMA ImportDecisionKeeps ==
  ASSUME AInv, NEW s \in Sessions, ImportDecides(s)
  PROVE  AInv'
<1> DEFINE file == arg[s].file
           next == seen[s].next
           row == RowFor(Wanted(s), file, AtHand(s), accounts[AtHand(s).id])
<1>1. /\ pc[s] = "import" /\ next <= Len(file.accounts) /\ Writes(s)
      /\ pc' = [pc EXCEPT ![s] = "import_write"]
      /\ seen' = [seen EXCEPT ![s] = [existing |-> @.existing, next |-> @.next,
                                      treatment |-> Wanted(s), row |-> row]]
      /\ UNCHANGED <<accounts, work, arg>>
  BY DEF ImportDecides, ImportMore, At, tables
<1>2. /\ arg[s] \in work.calls /\ FileFits(file)
      /\ next \in 1..Len(file.accounts) /\ next \in DOMAIN file.accounts
      /\ \A a \in seen[s].existing : a \in AccountIds /\ accounts[a] # NULL
  BY <1>1, AtHandIsListed
<1>3. /\ arg[s].tool = "import_coa" /\ seen[s].existing \subseteq ExistingIds
      /\ next \in 1..(Len(file.accounts) + 1)
      /\ ~arg[s].dry => FirstIds(file, next - 1) \subseteq ExistingIds
  BY <1>1 DEF AInv, CallIsPlaced
<1>4. ~arg[s].dry /\ Wanted(s) # "skip"
  BY <1>1 DEF Writes
<1>5. row \in StoredAccount
  <2>1. AtHand(s) = file.accounts[next]
    BY DEF AtHand
  <2>2. /\ NewRow(file, AtHand(s)) \in StoredAccount
        /\ \A r \in StoredAccount : NextRow(file, AtHand(s), r) \in StoredAccount
    BY <1>2, <2>1, RowsAreSound
  <2>3. CASE AtHand(s).id \notin seen[s].existing
    <3>1. Wanted(s) = "insert"
      BY <2>3 DEF Wanted, Treatment
    <3> QED BY <2>2, <3>1 DEF RowFor
  <2>4. CASE AtHand(s).id \in seen[s].existing
    <3>1. Wanted(s) = "update"
      BY <1>4, <2>4 DEF Wanted, Treatment
    <3>2. accounts[AtHand(s).id] \in StoredAccount
      BY <1>2, <2>4, ParentsAreIds DEF AInv
    <3> QED BY <2>2, <3>1, <3>2 DEF RowFor
  <2> QED BY <2>3, <2>4
<1>6. SessionsExist /\ SessionsExist'
  BY <1>1 DEF AInv, SessionsExist
<1> HIDE DEF row
<1>7. /\ seen'[s].existing = seen[s].existing /\ seen'[s].next = next /\ seen'[s].row = row
      /\ pc'[s] = "import_write" /\ arg'[s] = arg[s] /\ work' = work
  BY <1>1, <1>6 DEF SessionsExist
<1>8. Alone(s)
  BY <1>1, <1>6 DEF Alone, SessionsExist
<1>9. ExistingIds' = ExistingIds
  BY <1>1 DEF ExistingIds, AccountExists
<1>10. CallIsPlaced(s)'
  <2> HIDE DEF next
  <2>1. FirstIds(file, seen'[s].next - 1) \subseteq ExistingIds'
    BY <1>3, <1>4, <1>7, <1>9
  <2> QED BY <1>2, <1>3, <1>4, <1>5, <1>7, <1>9, <2>1 DEF CallIsPlaced, FirstIds
<1> QED BY <1>1, <1>8, <1>10, SameAccounts, OthersStayPlaced

LEMMA ImportStepKeeps ==
  ASSUME AInv, NEW s \in Sessions, ImportStep(s)
  PROVE  AInv'
<1>1. ASSUME NEW c \in work.calls, ImportReads(s, c) PROVE AInv'
  <2>1. Reads(s, c, "import", [existing |-> ExistingIds, next |-> 1]) /\ c.tool = "import_coa"
    BY <1>1 DEF ImportReads, Starts
  <2>2. /\ Alone(s) /\ accounts' = accounts /\ pc'[s] = "import" /\ arg'[s] = c /\ work' = work
        /\ seen'[s] = [existing |-> ExistingIds, next |-> 1]
    BY <2>1, ReadsMoves DEF AInv, Alone
  <2>3. Len(c.file.accounts) \in Nat
    <3>1. FileFits(c.file)
      BY <2>1, CallsFit DEF AInv, CallFits
    <3>2. PICK S : c.file.accounts \in Seq(S)
      BY <3>1 DEF FileFits
    <3> QED BY <3>2
  <2>4. ExistingIds' = ExistingIds /\ FirstIds(c.file, 1 - 1) = {}
    BY <2>2 DEF ExistingIds, AccountExists, FirstIds
  <2>5. seen'[s].existing = ExistingIds /\ seen'[s].next = 1
        /\ seen'[s] = [existing |-> seen'[s].existing, next |-> seen'[s].next]
    BY <2>2
  <2>6. 1 \in 1..(Len(c.file.accounts) + 1)
    BY <2>3
  <2>7. FirstIds(c.file, seen'[s].next - 1) \subseteq ExistingIds'
    BY <2>4, <2>5
  <2>8. CallIsPlaced(s)'
    BY <2>1, <2>2, <2>4, <2>5, <2>6, <2>7 DEF CallIsPlaced, FirstIds
  <2> QED BY <2>2, <2>8, SameAccounts, OthersStayPlaced
<1>2. CASE ImportFails(s) \/ ImportEnds(s)
  BY <1>2, RollbackKeeps DEF ImportFails, ImportEnds
<1> QED BY <1>1, <1>2, ImportSkipKeeps, ImportDecisionKeeps, ImportWriteKeeps DEF ImportStep

----------------------------------------------------------------------------
(* The theorems. *)

\* Without cycles, an account ranks by the length of its chain.
LEMMA AcyclicIsForest ==
  ASSUME NEW table \in Tables,
         \A a \in AccountIds : LET parent == ParentOf(table) IN
           parent[a] # NULL => table[parent[a]] # NULL /\ a \notin Chain(parent, parent[a])
  PROVE  Forest(table)
<1> DEFINE parent == ParentOf(table)
           rank == [a \in AccountIds |-> Cardinality(Chain(parent, a))]
<1>1. parent \in [AccountIds -> OptionalId]
  BY ParentsAreIds
<1> HIDE DEF parent
<1>2. \A a \in AccountIds : IsFiniteSet(Chain(parent, a)) /\ Cardinality(Chain(parent, a)) \in Nat
  <2>1. ASSUME NEW a \in AccountIds PROVE IsFiniteSet(Chain(parent, a))
    <3>1. Chain(parent, a) \in SUBSET AccountIds
      BY <1>1, ChainIsLeast
    <3> QED BY <3>1, IdsAreNoNull, FS_Subset
  <2> QED BY <2>1, FS_CardinalityType
<1>3. ASSUME NEW a \in AccountIds, table[a] # NULL, table[a].parent # NULL
      PROVE  table[table[a].parent] # NULL /\ rank[table[a].parent] < rank[a]
  <2> DEFINE p == parent[a]
  <2>1. p = table[a].parent /\ p # NULL /\ p \in AccountIds
    BY <1>1, <1>3, ParentsAreIds DEF OptionalId, parent
  <2>2. table[p] # NULL /\ a \notin Chain(parent, p)
    BY <2>1 DEF parent
  <2>3. Chain(parent, a) = Chain(parent, p) \union {a}
    BY <1>1, <2>1, ChainUnfolds
  <2> HIDE DEF p
  <2>4. Cardinality(Chain(parent, a)) = Cardinality(Chain(parent, p)) + 1
    BY <1>2, <2>1, <2>2, <2>3, FS_AddElement
  <2> QED BY <1>2, <2>1, <2>2, <2>4
<1>4. Ranks(rank, table)
  <2>1. rank \in [AccountIds -> Nat]
    BY <1>2
  <2> HIDE DEF rank
  <2> QED BY <1>3, <2>1 DEF Ranks
<1> QED BY <1>4 DEF Forest

LEMMA AInvInit == Init => AInv
<1> SUFFICES ASSUME Init PROVE AInv
  OBVIOUS
<1>1. work \in Workloads /\ accounts = work.accounts
  BY DEF Init
<1>2. accounts \in Tables
  BY <1>1, WorkloadsAssumption DEF Tables
<1>3. Forest(accounts)
  BY <1>1, <1>2, ForestAssumption, AcyclicIsForest
<1>4. \A s \in Sessions : CallIsPlaced(s)
  BY DEF Init, CallIsPlaced
<1> QED BY <1>1, <1>2, <1>3, <1>4 DEF Init, AInv, SessionsExist

LEMMA AInvNext == AInv /\ [Next]_vars => AInv'
<1> SUFFICES ASSUME AInv, [Next]_vars PROVE AInv'
  OBVIOUS
<1>1. ASSUME NEW s \in Sessions, Step(s) PROVE AInv'
  BY <1>1, RegistryStepKeeps, ImportStepKeeps, ObligationStepKeeps, ConfigStepKeeps, ListingStepKeeps,
     RollbackKeeps DEF Step, Rollback
<1>2. CASE UNCHANGED vars
  BY <1>2, NothingMoves DEF vars
<1> QED BY <1>1, <1>2 DEF Next

\* The state that the account tools keep.
THEOREM AccountInvariance == Spec => []AInv
BY AInvInit, AInvNext, PTL DEF Spec

\* However creates, imports, patches and profile calls interleave, the parents form a forest, and
\* get_account_tree leaves no account out and shows none twice.
THEOREM TreeShowsEveryAccountHolds == Spec => []TreeShowsEveryAccount
<1>1. AInv => TreeShowsEveryAccount
  BY ForestShows DEF AInv
<1> QED BY <1>1, AccountInvariance, PTL

\* The steps that write to the accounts.
LEMMA AccountWriters ==
  ASSUME NEW s \in Sessions, Step(s), accounts' # accounts
  PROVE  CreateInserts(s) \/ MetadataWrites(s) \/ ProfileWrites(s) \/ ImportWrites(s)
<1>1. ASSUME NEW o, Fails(o) PROVE accounts' = accounts
  BY <1>1 DEF Fails, tables
<1>2. ASSUME NEW o, NEW c, NEW step, NEW value, Reads(o, c, step, value) PROVE accounts' = accounts
  BY <1>2 DEF Reads, tables
<1>3. ~ObligationStep(s)
  BY <1>1, <1>2 DEF ObligationStep, ObligationReads, FulfilReads, FulfilReplays, SnapshotReads, ObligationInserts,
     ObligationFails, ObligationUpdates, FulfilWrites, SnapshotInserts, SnapshotFails, SnapshotUpdates,
     OnlyObligations, OnlySnapshots
<1>4. ~ConfigStep(s)
  BY <1>1, <1>2 DEF ConfigStep, ProposeReplays, ProposeReads, ApproveReplays, ApproveReads, RejectReplays, RejectReads,
     ProposeInserts, ProposeFails, ApproverReads, ApplyChange, ApplyAgain, ApplyFails, RejectChange, RejectFails,
     Applies, OnlyChanges
<1>5. ~ListingStep(s) /\ ~Rollback(s)
  BY <1>1, <1>2 DEF ListingStep, ListStarts, ListContinues, ListEnds, Rollback
<1>6. ImportStep(s) => ImportWrites(s)
  BY <1>1, <1>2 DEF ImportStep, ImportReads, ImportSkips, ImportDecides, ImportFails, ImportEnds, tables
<1>7. RegistryStep(s) => CreateInserts(s) \/ MetadataWrites(s) \/ ProfileWrites(s)
  BY <1>1, <1>2 DEF RegistryStep, CreateReads, MetadataReads, ProfileReplays, ProfileReads, CreateFails,
     ProfileConflict, ProfileFails, accountTables
<1> QED BY <1>3, <1>4, <1>5, <1>6, <1>7 DEF Step

\* An import that changes anything leaves all accounts of its file in the table.
THEOREM ImportsAreWholeHolds == Spec => ImportsAreWhole
<1> DEFINE Whole(s) == At(s, "import_write") /\ pc'[s] = "idle" /\ accounts' # accounts =>
                         IdsOf(arg[s].file) \subseteq Existing(accounts')
<1>1. ASSUME AInv, Next, NEW s \in Sessions PROVE Whole(s)
  <2>1. SUFFICES ASSUME pc[s] = "import_write", pc'[s] = "idle", accounts' # accounts
                 PROVE  IdsOf(arg[s].file) \subseteq Existing(accounts')
    BY DEF At
  <2>2. PICK o \in Sessions : Step(o)
    BY <1>1 DEF Next
  <2>3. CreateInserts(o) \/ MetadataWrites(o) \/ ProfileWrites(o) \/ ImportWrites(o)
    BY <2>1, <2>2, AccountWriters
  <2>4. Alone(o)
    <3>1. Ends(o)
      BY <2>3 DEF CreateInserts, MetadataWrites, ProfileWrites, ImportWrites
    <3> QED BY <1>1, <3>1, EndsMoves DEF AInv
  <2>5. o = s
    BY <2>1, <2>4 DEF Alone
  <2>6. ImportWrites(s)
    BY <2>1, <2>3, <2>5 DEF CreateInserts, MetadataWrites, ProfileWrites, At
  <2>7. accounts' \in Passable(arg[s].file, Len(arg[s].file.accounts)) /\ FileFits(arg[s].file)
    BY <1>1, <2>6, ImportIsSound
  <2>8. PICK S : arg[s].file.accounts \in Seq(S)
    BY <2>7 DEF FileFits
  <2>9. ASSUME NEW i \in DOMAIN arg[s].file.accounts
        PROVE  arg[s].file.accounts[i].id \in Existing(accounts')
    <3>1. i \in 1..Len(arg[s].file.accounts) /\ arg[s].file.accounts[i].id \in AccountIds
      BY <2>7, <2>8 DEF FileFits
    <3>2. accounts'[arg[s].file.accounts[i].id] # NULL /\ DOMAIN accounts' = AccountIds
      BY <2>7, <3>1 DEF Passable, Tables
    <3> QED BY <3>1, <3>2 DEF Existing
  <2> QED BY <2>9 DEF IdsOf
<1>2. ASSUME AInv, [Next]_vars PROVE [\A s \in Sessions : Whole(s)]_vars
  <2> HIDE DEF Whole
  <2>1. CASE Next
    BY <1>1, <1>2, <2>1
  <2>2. CASE UNCHANGED vars
    BY <2>2
  <2> QED BY <1>2, <2>1, <2>2
<1> QED BY <1>2, AccountInvariance, PTL DEF Spec, ImportsAreWhole

----------------------------------------------------------------------------
(* Imports repeated. *)

\* An account that the file has nothing more to say about.
Settled(table, file, acc) ==
  table[acc.id] # NULL /\ (file.mode = "create_only" \/ NextRow(file, acc, table[acc.id]) = table[acc.id])

LEMMA RowRewritten ==
  ASSUME NEW code, NEW name, NEW parent, NEW meta, NEW name1, NEW parent1, NEW meta1,
         NEW row, row = [code |-> code, name |-> name, parent |-> parent, meta |-> meta]
  PROVE  [row EXCEPT !.name = name1, !.parent = parent1, !.meta = meta1]
           = [code |-> code, name |-> name1, parent |-> parent1, meta |-> meta1]
<1> DEFINE renamed == [code |-> code, name |-> name1, parent |-> parent, meta |-> meta]
           moved == [code |-> code, name |-> name1, parent |-> parent1, meta |-> meta]
<1>1. [row EXCEPT !.name = name1] = renamed
  OBVIOUS
<1>2. [renamed EXCEPT !.parent = parent1] = moved
  OBVIOUS
<1>3. [moved EXCEPT !.meta = meta1]
        = [code |-> code, name |-> name1, parent |-> parent1, meta |-> meta1]
  OBVIOUS
<1>4. [row EXCEPT !.name = name1, !.parent = parent1, !.meta = meta1]
        = [[[row EXCEPT !.name = name1] EXCEPT !.parent = parent1] EXCEPT !.meta = meta1]
  BY Zenon
<1> HIDE DEF renamed, moved
<1> QED BY <1>1, <1>2, <1>3, <1>4, Zenon

\* To patch twice is to patch once, and a part of the patch adds nothing to the whole.
LEMMA PatchedTwice ==
  ASSUME NEW meta, NEW patch, NEW D \in SUBSET DOMAIN patch
  PROVE  Patched(Patched(meta, patch), [k \in D |-> patch[k]]) = Patched(meta, patch)
BY DEF Patched

LEMMA RowsSettle ==
  ASSUME NEW file, NEW acc, FileFits(file), NEW i \in DOMAIN file.accounts, acc = file.accounts[i]
  PROVE  /\ NextRow(file, acc, NewRow(file, acc)) = NewRow(file, acc)
         /\ \A row \in StoredAccount :
              NextRow(file, acc, NextRow(file, acc, row)) = NextRow(file, acc, row)
<1> DEFINE built == BuildMetadata(file, acc)
           part == Admitted(file, built)
           admitted == [k \in part |-> built[k]]
           Name(row) == IF "name" \in file.allow THEN acc.name ELSE row.name
           Parent(row) == IF "parent_id" \in file.allow THEN acc.parent ELSE row.parent
<1>1. part \in SUBSET DOMAIN built
  BY DEF Admitted
<1>2. \A row : NextRow(file, acc, row)
                 = [row EXCEPT !.name = Name(row), !.parent = Parent(row), !.meta = Patched(row.meta, admitted)]
  BY DEF NextRow, MergeMetadata
<1>3. NewRow(file, acc) = [code |-> acc.id, name |-> acc.name, parent |-> acc.parent,
                           meta |-> Patched([k \in MetaKeys |-> NULL], built)]
  BY DEF NewRow
<1> HIDE DEF built, part
<1>4. \A meta : /\ Patched(Patched(meta, built), admitted) = Patched(meta, built)
                /\ Patched(Patched(meta, admitted), admitted) = Patched(meta, admitted)
  <2>1. ASSUME NEW meta PROVE Patched(Patched(meta, built), admitted) = Patched(meta, built)
    BY <1>1, PatchedTwice
  <2>2. ASSUME NEW meta PROVE Patched(Patched(meta, admitted), admitted) = Patched(meta, admitted)
    <3>1. DOMAIN admitted = part /\ admitted = [k \in part |-> admitted[k]]
      OBVIOUS
    <3> HIDE DEF admitted
    <3> QED BY <3>1, PatchedTwice
  <2> QED BY <2>1, <2>2
<1> HIDE DEF admitted
<1>5. NextRow(file, acc, NewRow(file, acc)) = NewRow(file, acc)
  <2> DEFINE new == NewRow(file, acc)
             meta == Patched([k \in MetaKeys |-> NULL], built)
  <2>1. new = [code |-> acc.id, name |-> acc.name, parent |-> acc.parent, meta |-> meta]
    BY <1>3
  <2>2. Patched(meta, admitted) = meta
    BY <1>4
  <2>3. NextRow(file, acc, new)
          = [new EXCEPT !.name = Name(new), !.parent = Parent(new), !.meta = Patched(new.meta, admitted)]
    BY <1>2
  <2> HIDE DEF new, meta
  <2>4. Name(new) = acc.name /\ Parent(new) = acc.parent /\ Patched(new.meta, admitted) = meta
    BY <2>1, <2>2
  <2> HIDE DEF Name, Parent
  <2>5. NextRow(file, acc, new) = new
    BY <2>1, <2>3, <2>4, RowRewritten
  <2> QED BY <2>5 DEF new
<1>6. ASSUME NEW row \in StoredAccount
      PROVE  NextRow(file, acc, NextRow(file, acc, row)) = NextRow(file, acc, row)
  <2> DEFINE new == NextRow(file, acc, row)
  <2>1. row = [code |-> row.code, name |-> row.name, parent |-> row.parent, meta |-> row.meta]
    BY DEF StoredAccount
  <2>2. new = [code |-> row.code, name |-> Name(row), parent |-> Parent(row), meta |-> Patched(row.meta, admitted)]
    <3>1. new = [row EXCEPT !.name = Name(row), !.parent = Parent(row), !.meta = Patched(row.meta, admitted)]
      BY <1>2
    <3> HIDE DEF Name, Parent, new
    <3> QED BY <2>1, <3>1, RowRewritten
  <2>3. Name(new) = Name(row) /\ Parent(new) = Parent(row) /\ Patched(new.meta, admitted) = new.meta
    BY <1>4, <2>2
  <2>4. NextRow(file, acc, new)
          = [new EXCEPT !.name = Name(new), !.parent = Parent(new), !.meta = Patched(new.meta, admitted)]
    BY <1>2
  <2> HIDE DEF new, Name, Parent
  <2>5. NextRow(file, acc, new) = new
    <3>1. new = [code |-> new.code, name |-> new.name, parent |-> new.parent, meta |-> new.meta]
      BY <2>2
    <3>2. /\ Name(new) = new.name /\ Parent(new) = new.parent
          /\ Patched(new.meta, admitted) = new.meta
      BY <2>2, <2>3
    <3>3. NextRow(file, acc, new)
            = [code |-> new.code, name |-> new.name, parent |-> new.parent, meta |-> new.meta]
      BY <2>4, <3>1, <3>2, RowRewritten
    <3> QED BY <3>1, <3>3
  <2> QED BY <2>5 DEF new
<1> QED BY <1>5, <1>6

\* In every database that calls can reach, an import that goes through has nothing left to do when
\* it is repeated.
THEOREM ImportIsIdempotentHolds == Spec => []ImportIsIdempotent
<1>1. ASSUME AInv PROVE ImportIsIdempotent
  <2> SUFFICES ASSUME NEW file \in Files, ImportRest(accounts, ExistingIds, file, 1) # NULL,
                      NEW e \in DOMAIN file.accounts
               PROVE  LET once == ImportRest(accounts, ExistingIds, file, 1)
                      IN  Treatment(once, Existing(once), file, file.accounts[e]) = "skip"
    BY DEF ImportIsIdempotent
  <2> DEFINE once == ImportRest(accounts, ExistingIds, file, 1)
             n == Len(file.accounts)
             accs == SubSeq(file.accounts, 1, n)
             T == [j \in 0..n |-> {t \in Tables : Forest(t) /\ (\A a \in ExistingIds : t[a] # NULL)
                                                  /\ \A k \in 1..j : Settled(t, file, file.accounts[k])}]
  <2>1. FileFits(file) /\ ValidFile(file)
    BY <1>1, CallsFit DEF Files, AInv, CallFits
  <2>2. n \in Nat /\ DOMAIN file.accounts = 1..n
    <3>1. PICK S : file.accounts \in Seq(S)
      BY <2>1 DEF FileFits
    <3> QED BY <3>1
  <2>3. DOMAIN accs = 1..n /\ \A j \in 1..n : accs[j] = file.accounts[j]
    <3>1. 1 \in 1..(n + 1) /\ n + 1 - 1 = n /\ \A j \in 1..n : 1 + j - 1 = j
      BY <2>2
    <3> QED BY <2>1, <3>1, RestOfFile
  <2> HIDE DEF n, accs
  <2>4. accounts \in T[0]
    <3>1. \A a \in ExistingIds : accounts[a] # NULL
      BY DEF ExistingIds, AccountExists
    <3> QED BY <1>1, <2>2, <3>1 DEF AInv
  <2>5. ASSUME NEW j \in 1..n, NEW t \in T[j - 1], t # NULL
        PROVE  ImportAccount(t, ExistingIds, file, accs[j]) \in T[j] \union {NULL}
    <3> DEFINE acc == file.accounts[j]
               new == ImportAccount(t, ExistingIds, file, acc)
    <3>1. j - 1 \in 0..n /\ j \in 0..n /\ j \in DOMAIN file.accounts /\ accs[j] = acc
      BY <2>2, <2>3
    <3>2. /\ t \in Tables /\ Forest(t) /\ \A a \in ExistingIds : t[a] # NULL
          /\ \A k \in 1..(j - 1) : Settled(t, file, file.accounts[k])
      BY <2>5, <3>1
    <3>3. SUFFICES ASSUME new # NULL
                   PROVE  /\ new \in Tables /\ Forest(new) /\ \A a \in ExistingIds : new[a] # NULL
                          /\ \A k \in 1..j : Settled(new, file, file.accounts[k])
      BY <3>1
    <3>4. \A a \in ExistingIds : a \in AccountIds /\ t[a] # NULL
      BY <3>2 DEF ExistingIds
    <3>5. TurnLeadsTo(t, new, ExistingIds, file, acc)
      <4> HIDE DEF T
      <4>1. new = ImportAccount(t, ExistingIds, file, file.accounts[j])
        OBVIOUS
      <4> HIDE DEF new
      <4> QED BY <2>1, <3>1, <3>2, <3>3, <3>4, <4>1, TurnIsSound
    <3> HIDE DEF T, new
    <3>6. /\ new \in Tables /\ Forest(new) /\ new[acc.id] # NULL
          /\ \A a \in AccountIds : a # acc.id => new[a] = t[a]
      BY <3>5 DEF TurnLeadsTo
    <3>7. \A a \in ExistingIds : new[a] # NULL
      BY <3>4, <3>6
    <3>8. Settled(new, file, acc)
      <4>1. acc.id \in ExistingIds => t[acc.id] \in StoredAccount
        BY <3>2, <3>4, ParentsAreIds
      <4> HIDE DEF acc
      <4>2. /\ NextRow(file, acc, NewRow(file, acc)) = NewRow(file, acc)
            /\ \A row \in StoredAccount : NextRow(file, acc, NextRow(file, acc, row)) = NextRow(file, acc, row)
        BY <2>1, <3>1, RowsSettle DEF acc
      <4> QED BY <3>5, <4>1, <4>2 DEF TurnLeadsTo, Settled
    <3>9. ASSUME NEW k \in 1..j PROVE Settled(new, file, file.accounts[k])
      <4>1. CASE k = j
        BY <3>8, <4>1
      <4>2. CASE k # j
        <5>1. k \in 1..(j - 1) /\ k \in DOMAIN file.accounts
          BY <2>2, <4>2
        <5>2. file.accounts[k].id # acc.id /\ file.accounts[k].id \in AccountIds
          BY <2>1, <3>1, <4>2, <5>1 DEF ValidFile, FileFits
        <5> HIDE DEF acc
        <5> QED BY <3>2, <3>6, <5>1, <5>2 DEF Settled
      <4> QED BY <4>1, <4>2
    <3> QED BY <3>6, <3>7, <3>9
  <2>6. once \in T[n] \union {NULL}
    <3> HIDE DEF T, once
    <3> QED BY <2>2, <2>3, <2>4, <2>5, ImportEndsIn DEF accs, once, n
  <2>7. once # NULL
    OBVIOUS
  <2> HIDE DEF once
  <2>8. once \in Tables /\ Settled(once, file, file.accounts[e])
    <3>1. n \in 0..n /\ e \in 1..n
      BY <2>2
    <3> QED BY <2>6, <2>7, <3>1
  <2>9. file.accounts[e].id \in Existing(once)
    <3>1. file.accounts[e].id \in AccountIds
      BY <2>1 DEF FileFits
    <3> QED BY <2>8, <3>1 DEF Tables, Existing, Settled
  <2> QED BY <2>8, <2>9 DEF Treatment, Unchanged, Settled, once
<1> QED BY <1>1, AccountInvariance, PTL
=============================================================================
