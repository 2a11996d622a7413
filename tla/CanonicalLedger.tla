-------------------------- MODULE CanonicalLedger --------------------------
(***************************************************************************)
(* What the ledger promises its clients (CONSTITUTION.md, section 5): a    *)
(* key is committed at most once, and whoever is told of a transaction for *)
(* a key is told the id of that one commit.                                *)
(***************************************************************************)
EXTENDS Naturals, Sequences

CONSTANT Keys

VARIABLES
  book,  \* the keys in the order of their commits; the id is the position
  told   \* the (key, id) pairs that clients were told

Init == book = <<>> /\ told = {}

Commit(k) ==
  /\ \A i \in DOMAIN book : book[i] # k
  /\ book' = Append(book, k)
  /\ told' = told \union {<<k, Len(book) + 1>>}

Tell(i) ==
  /\ told' = told \union {<<book[i], i>>}
  /\ UNCHANGED book

Next == (\E k \in Keys : Commit(k)) \/ (\E i \in DOMAIN book : Tell(i))

Spec == Init /\ [][Next]_<<book, told>>
=============================================================================
