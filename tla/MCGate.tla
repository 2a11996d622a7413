------------------------------- MODULE MCGate -------------------------------
(***************************************************************************)
(* Small instances of TransactionGate.  Amounts are raw (0.00001 USD), so  *)
(* 10 raw is one quantum; Threshold is in quanta.                          *)
(***************************************************************************)
EXTENDS TransactionGate, TLC

First == <<"bank", "1">>
Second == <<"bank", "2">>
Third == <<"bank", "3">>

\* A plain transfer of a raw amount from cash to food.
Transfer(key, date, raw) ==
  [key |-> key, entity |-> "main", date |-> date, category |-> "food", risk |-> "low",
   adjusting |-> FALSE, override |-> FALSE,
   postings |-> <<[account |-> "cash", amount |-> -raw], [account |-> "food", amount |-> raw]>>]

Small == Transfer(First, 0, 10)
Large == Transfer(First, 0, 90)                        \* the key of Small, over every threshold
Twin == Transfer(Second, 0, 10)                        \* a duplicate of Small under another key

\* Raw legs of zero total whose rounded legs are 0, 0 and -1 quantum.
Uneven ==
  [Transfer(Second, 0, 10) EXCEPT !.postings =
     <<[account |-> "cash", amount |-> -10], [account |-> "food", amount |-> 5],
       [account |-> "rent", amount |-> 5]>>]

\* A leg on an account that no row of accounts has.
Unknown ==
  [Transfer(Second, 1, 20) EXCEPT !.postings =
     <<[account |-> "cash", amount |-> -20], [account |-> "lost", amount |-> 20]>>]
LargeUnknown ==
  [Transfer(Second, 1, 90) EXCEPT !.postings =
     <<[account |-> "cash", amount |-> -90], [account |-> "lost", amount |-> 90]>>]

Medium == Transfer(Third, 1, 60)                       \* over Threshold, under the food rule's

\* An entity that no row of entities has.
LargeGhost == [Transfer(Third, 1, 90) EXCEPT !.entity = "ghost"]

Adjusting == [Transfer(Second, 1, 20) EXCEPT !.adjusting = TRUE]
Override == [Transfer(Second, 1, 20) EXCEPT !.override = TRUE]

RecordBundles == {Small, Large, Twin, Uneven, Unknown, LargeUnknown, LargeGhost}
DecisionBundles == {Small, Large}
PeriodBundles == {Small, Adjusting, Override}
SerialBundles == {Small, Large, Twin, Adjusting, Medium}
LockBundles == {Large}
TwinBundles == {Small, Twin}

NoRule == [tool |-> NULL, entity |-> NULL, category |-> NULL, risk |-> NULL,
           limit |-> NULL, window |-> NULL, threshold |-> 5, required |-> 1]

NoRules == <<>>
\* The rule of another tool, a velocity limit, a rule of another entity, and food: two approvers.
GateRules == <<[NoRule EXCEPT !.tool = "propose_config_change", !.threshold = 0],
               [NoRule EXCEPT !.limit = 2, !.window = 1],
               [NoRule EXCEPT !.entity = "other", !.threshold = 0],
               [NoRule EXCEPT !.category = "food", !.threshold = 8, !.required = 2]>>

SessionSymmetry == Permutations(Sessions)
DecisionSymmetry == Permutations(Sessions) \union Permutations(Approvers)
=============================================================================
