--------------------------- MODULE Reconciliation ---------------------------
(***************************************************************************)
(* domain/reconciliation/service.py and the balances of                    *)
(* domain/ledger/repository.py, for one account: its postings and its      *)
(* snapshots, and the client who records the adjustments suggested.        *)
(***************************************************************************)
EXTENDS Money

CONSTANTS
  Dates,     \* days, as numbers
  Entries,   \* postings to the account that clients record, [key, date, amount]
  Balances,  \* balances of the snapshots, as sent
  MaxPostings,  \* the postings that the account may get: its bound
  NULL

ASSUME EntriesAssumption ==
  /\ Dates \subseteq Int /\ Balances \subseteq Int
  /\ \A e \in Entries : DOMAIN e = {"key", "date", "amount"} /\ e.date \in Dates /\ e.amount \in Int
ASSUME NullAssumption == NULL \notin Int

VARIABLES
  book,      \* the account's postings, with normalized amounts, one per key
  snaps,     \* its balance_snapshots by date
  offered    \* the suggestion a client holds, and the book and snapshots it was made for

account == <<book, snaps, offered>>

Methods == {"ledger_only", "snapshot_only", "best_available"}

----------------------------------------------------------------------------
\* fetch_account_balance_context: the sum of the postings up to a date, and the latest snapshot.
\* Bug form: a posting on the date itself is not counted.
UpTo_Before(date) == {e \in book : e.date < date}
UpTo(date) == {e \in book : e.date <= date}
LedgerBalance(date) == MapThenSumSet(LAMBDA e : e.amount, UpTo(date))
SnapshotDates(date) == {d \in Dates : d <= date /\ snaps[d] # NULL}
SnapshotBalance(date) ==
  IF SnapshotDates(date) = {} THEN NULL
  ELSE snaps[CHOOSE d \in SnapshotDates(date) : \A e \in SnapshotDates(date) : e <= d]

\* fetch_account_balances_as_of, by source policy.
AccountBalance(date, policy) ==
  IF policy = "snapshot_only" \/ (policy = "best_available" /\ SnapshotBalance(date) # NULL)
  THEN SnapshotBalance(date) ELSE LedgerBalance(date)

\* reconcile_account: the difference, and the posting that would remove it.  The key names the
\* date, the method and the difference.
Delta(date) == IF SnapshotBalance(date) = NULL THEN NULL ELSE SnapshotBalance(date) - LedgerBalance(date)
Suggestion(date, method) ==
  IF method = "ledger_only" \/ Delta(date) \in {NULL, 0} THEN NULL
  ELSE [key |-> <<date, method, Delta(date)>>, date |-> date, amount |-> Delta(date)]

----------------------------------------------------------------------------
RecordEntry(e) ==
  /\ Cardinality(book) < MaxPostings
  /\ \A b \in book : b.key # e.key
  /\ book' = book \union {[e EXCEPT !.amount = normalize_amount(e.amount)]}
  /\ UNCHANGED <<snaps, offered>>

RecordSnapshot(date, balance) ==
  /\ snaps' = [snaps EXCEPT ![date] = normalize_amount(balance)]
  /\ UNCHANGED <<book, offered>>

Reconciles(date, method) ==
  /\ Suggestion(date, method) # NULL
  /\ offered' = [posting |-> Suggestion(date, method), book |-> book, snaps |-> snaps]
  /\ UNCHANGED <<book, snaps>>

\* The suggestion goes through record_transaction_bundle: a key that is taken is answered as a replay.
Adjusts ==
  /\ offered # NULL
  /\ IF \E b \in book : b.key = offered.posting.key THEN book' = book
     ELSE Cardinality(book) < MaxPostings /\ book' = book \union {offered.posting}
  /\ offered' = NULL /\ UNCHANGED snaps

ReconcileInit == book = {} /\ snaps = [d \in Dates |-> NULL] /\ offered = NULL
ReconcileStep ==
  \/ \E e \in Entries : RecordEntry(e)
  \/ \E d \in Dates, b \in Balances : RecordSnapshot(d, b)
  \/ \E d \in Dates, m \in Methods : Reconciles(d, m)
  \/ Adjusts
=============================================================================
