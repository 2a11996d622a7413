---------------------------- MODULE Obligations ----------------------------
(***************************************************************************)
(* create_or_update_obligation, fulfill_obligation and                     *)
(* record_balance_snapshot (domain/ledger/service.py and repository.py):   *)
(* each reads the row of its key on its own and then inserts or updates.   *)
(***************************************************************************)
EXTENDS RegistryDb, Money

OnlyObligations == UNCHANGED <<accounts, history, profiles, snapshots, changes, verdicts>>
OnlySnapshots == UNCHANGED <<accounts, history, profiles, obligations, changes, verdicts>>

\* Ids are drawn once per row: the n-th row of a table.
NextRowId(table) == Cardinality({k \in DOMAIN table : table[k] # NULL}) + 1

----------------------------------------------------------------------------
ObligationReads(s, c) ==
  /\ Starts(s, "create_or_update_obligation", c)
  /\ Reads(s, c, IF obligations[c.key] = NULL THEN "insert_obligation" ELSE "update_obligation", NULL)

\* Bug form: an INSERT OR REPLACE.
ObligationFits_OrReplace(c) == AccountExists(c.account)
\* The insert is refused when another call has inserted the key meanwhile, or without the account.
ObligationFits(c) == obligations[c.key] = NULL /\ AccountExists(c.account)

ObligationInserts(s) ==
  LET c == arg[s]
      id == NextRowId(obligations) IN
  /\ At(s, "insert_obligation") /\ ObligationFits(c)
  /\ obligations' = [obligations EXCEPT ![c.key] =
       [id |-> id, due |-> c.due, active |-> c.active, by |-> NULL]]
  /\ Tells(c, id) /\ Logs(c) /\ Ends(s) /\ OnlyObligations

ObligationFails(s) == At(s, "insert_obligation") /\ ~ObligationFits(arg[s]) /\ Fails(s)

\* An update sets the active flag the caller sends (true by default) and leaves fulfilled_by alone.
UpdatedObligation(row, c) == [row EXCEPT !.due = c.due, !.active = c.active]
ObligationUpdates(s) ==
  LET c == arg[s] IN
  /\ At(s, "update_obligation")
  /\ obligations' = [obligations EXCEPT ![c.key] = UpdatedObligation(@, c)]
  /\ Tells(c, obligations[c.key].id) /\ Logs(c) /\ Ends(s) /\ OnlyObligations

----------------------------------------------------------------------------
\* An inactive obligation is answered from the row that was read; an active one is updated by id,
\* whatever has happened to it since.
FulfilReads(s, c) ==
  /\ Starts(s, "fulfill_obligation", c)
  /\ obligations[c.key] # NULL
  /\ obligations[c.key].active
  /\ Reads(s, c, "fulfil", NULL)

FulfilReplays(s, c) ==
  /\ Starts(s, "fulfill_obligation", c)
  /\ obligations[c.key] # NULL
  /\ ~obligations[c.key].active
  /\ Logs(c) /\ Keeps
  /\ UNCHANGED <<obligations, work, pc, arg, seen>> /\ OnlyObligations

Fulfilled(row, c) == [row EXCEPT !.active = FALSE, !.by = c.by]
FulfilWrites(s) ==
  LET c == arg[s] IN
  /\ At(s, "fulfil")
  /\ obligations' = [obligations EXCEPT ![c.key] = Fulfilled(@, c)]
  /\ Logs(c) /\ Keeps /\ Ends(s) /\ OnlyObligations

----------------------------------------------------------------------------
SnapshotReads(s, c) ==
  /\ Starts(s, "record_balance_snapshot", c)
  /\ Reads(s, c, IF snapshots[c.key] = NULL THEN "insert_snapshot" ELSE "update_snapshot", NULL)

SnapshotFits(c) == snapshots[c.key] = NULL /\ AccountExists(c.key[1])

SnapshotInserts(s) ==
  LET c == arg[s]
      id == NextRowId(snapshots) IN
  /\ At(s, "insert_snapshot") /\ SnapshotFits(c)
  /\ snapshots' = [snapshots EXCEPT ![c.key] = [id |-> id, balance |-> normalize_amount(c.balance)]]
  /\ Tells(c, id) /\ Logs(c) /\ Ends(s) /\ OnlySnapshots

SnapshotFails(s) == At(s, "insert_snapshot") /\ ~SnapshotFits(arg[s]) /\ Fails(s)

SnapshotUpdates(s) ==
  LET c == arg[s] IN
  /\ At(s, "update_snapshot")
  /\ snapshots' = [snapshots EXCEPT ![c.key].balance = normalize_amount(c.balance)]
  /\ Tells(c, snapshots[c.key].id) /\ Logs(c) /\ Ends(s) /\ OnlySnapshots

ObligationStep(s) ==
  \/ \E c \in work.calls :
       ObligationReads(s, c) \/ FulfilReads(s, c) \/ FulfilReplays(s, c) \/ SnapshotReads(s, c)
  \/ ObligationInserts(s) \/ ObligationFails(s) \/ ObligationUpdates(s)
  \/ FulfilWrites(s)
  \/ SnapshotInserts(s) \/ SnapshotFails(s) \/ SnapshotUpdates(s)
=============================================================================
