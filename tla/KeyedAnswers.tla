---------------------------- MODULE KeyedAnswers ----------------------------
(***************************************************************************)
(* What the keyed tools promise a client who retries: the first answer for *)
(* a key is kept, and whoever asks for that key later, with whatever       *)
(* payload, is told the same answer or nothing.                            *)
(***************************************************************************)
CONSTANTS Keys, NULL

VARIABLES
  first,  \* the answer of each key, NULL before there is one
  told    \* the (key, answer) pairs that clients were told

Init == first = [k \in Keys |-> NULL] /\ told = {}

\* A call of key k commits: it fixes the answer if there is none, and tells it.
Answer(k) ==
  /\ first'[k] # NULL /\ first[k] \in {NULL, first'[k]}
  /\ first' = [first EXCEPT ![k] = first'[k]]
  /\ told' = told \union {<<k, first'[k]>>}

Next == \E k \in Keys : Answer(k)

Spec == Init /\ [][Next]_<<first, told>>
=============================================================================
