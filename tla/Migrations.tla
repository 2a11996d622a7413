----------------------------- MODULE Migrations -----------------------------
(***************************************************************************)
(* The migration runner (db/migrations.py, scripts/apply_migrations.py)    *)
(* and the cycle check (scripts/check_migration_cycle.py), over the        *)
(* scripts of migrations/.  executescript commits each statement on its    *)
(* own, and the row that records a script is a transaction after it.       *)
(*                                                                         *)
(* A schema is a set of objects <<table, part>>: the table itself (part    *)
(* "table"), a column a later script adds, an index, a trigger or a        *)
(* seeded row.  What the base columns and bodies say is left out.          *)
(***************************************************************************)
EXTENDS Naturals, Sequences, SequencesExt

CONSTANT Runners

VARIABLES schema,     \* the objects of the database
          recorded,   \* schema_migrations: the numbers of the recorded scripts
          runner,     \* each run of apply_pending_migrations
          cycle       \* the cycle check on its scratch database

migrationVars == <<schema, recorded, runner, cycle>>

----------------------------------------------------------------------------
\* One statement for each part of a table.
Each(op, table, parts) == [i \in DOMAIN parts |-> [op |-> op, table |-> table, part |-> parts[i]]]
Tables(op, names) == [i \in DOMAIN names |-> [op |-> op, table |-> names[i], part |-> "table"]]

\* "create" is CREATE ... IF NOT EXISTS (or ON CONFLICT DO NOTHING), "make" a plain CREATE, "add" and
\* "unadd" ALTER TABLE ADD and DROP COLUMN, "drop" DROP ... IF EXISTS; "rebuild" is the rename, create,
\* copy and drop that leaves a table with its base columns and one more.
ledger_core ==
  Tables("create", <<"accounts", "ledger_transactions", "ledger_postings", "balance_snapshots",
                     "obligations", "event_log">>)
    \o Each("create", "accounts", <<"cycle_insert", "cycle_update">>)
security_and_append_only ==
  Each("create", "ledger_transactions", <<"no_update", "no_delete">>)
    \o Each("create", "ledger_postings", <<"no_update", "no_delete">>)
    \o Each("create", "event_log", <<"no_update", "no_delete">>)
approval_gates ==
  Tables("create", <<"approval_proposals", "approval_decisions">>)
    \o Each("create", "approval_proposals", <<"set_updated_at", "no_delete">>)
    \o Each("create", "approval_decisions", <<"no_update", "no_delete">>)
read_query_indexes ==
  Each("create", "accounts", <<"by_code", "by_parent">>) \o Each("create", "ledger_transactions", <<"by_date">>)
    \o Each("create", "ledger_postings", <<"by_account">>) \o Each("create", "balance_snapshots", <<"by_account">>)
entity_dimension ==
  Tables("create", <<"entities">>) \o Each("create", "entities", <<"entity-default">>)
    \o Each("add", "accounts", <<"entity_id">>) \o Each("add", "ledger_transactions", <<"entity_id">>)
    \o Each("add", "balance_snapshots", <<"entity_id">>) \o Each("add", "obligations", <<"entity_id">>)
    \o Each("add", "approval_proposals", <<"entity_id">>)
    \o Each("create", "accounts", <<"by_entity">>) \o Each("create", "ledger_transactions", <<"by_entity">>)
    \o Each("create", "balance_snapshots", <<"by_entity">>) \o Each("create", "obligations", <<"by_entity">>)
    \o Each("create", "approval_proposals", <<"by_entity", "entity_fixed">>)
    \o Each("drop", "ledger_transactions", <<"no_update">>) \o Each("make", "ledger_transactions", <<"no_update">>)
periods_policies ==
  Tables("create", <<"accounting_periods">>) \o Each("create", "accounting_periods", <<"set_updated_at">>)
    \o Tables("create", <<"policy_rules">>)
    \o Each("add", "ledger_transactions", <<"is_adjusting_entry", "adjusting_reason_code">>)
    \o Each("add", "approval_proposals", <<"matched_rule_id", "required_approvals">>)
    \o Each("add", "approval_decisions", <<"approver_id">>)
    \o Each("create", "approval_decisions", <<"distinct_approver">>)
    \o Each("create", "accounting_periods", <<"by_period">>) \o Each("create", "policy_rules", <<"by_priority">>)
    \o Each("drop", "ledger_transactions", <<"no_update">>) \o Each("make", "ledger_transactions", <<"no_update">>)
query_surface_indexes ==
  Each("create", "obligations", <<"by_due">>) \o Each("create", "approval_proposals", <<"by_created">>)
    \o Each("create", "ledger_transactions", <<"by_source">>)
api_security_runtime_controls ==
  Each("add", "event_log", <<"actor_id", "authn_method", "authorization_result", "violation_code">>)
    \o Each("create", "event_log", <<"by_actor">>)
obligation_fulfillment ==
  Each("add", "obligations", <<"fulfilled_by_transaction_id", "fulfilled_at">>)
account_identifier_history ==
  Tables("create", <<"account_identifier_history">>)
    \o Each("create", "account_identifier_history", <<"by_account", "one_active", "no_update", "no_delete">>)

Forward ==
  <<ledger_core, security_and_append_only, approval_gates, read_query_indexes,
    entity_dimension, periods_policies, query_surface_indexes,
    api_security_runtime_controls, obligation_fulfillment, account_identifier_history>>

\* The rollback scripts, and the list of them in the order of their files.
ledger_core_rollback ==
  Each("drop", "accounts", <<"cycle_insert", "cycle_update">>)
    \o Tables("drop", <<"event_log", "obligations", "balance_snapshots", "ledger_postings",
                        "ledger_transactions", "accounts", "entities">>)
security_and_append_only_rollback ==
  Each("drop", "event_log", <<"no_delete", "no_update">>) \o Each("drop", "ledger_postings", <<"no_delete", "no_update">>)
    \o Each("drop", "ledger_transactions", <<"no_delete", "no_update">>)
approval_gates_rollback ==
  Each("drop", "approval_proposals", <<"set_updated_at", "no_delete">>)
    \o Each("drop", "approval_decisions", <<"no_update", "no_delete">>)
    \o Tables("drop", <<"approval_decisions", "approval_proposals">>)
read_query_indexes_rollback ==
  Each("drop", "balance_snapshots", <<"by_account">>) \o Each("drop", "ledger_postings", <<"by_account">>)
    \o Each("drop", "ledger_transactions", <<"by_date">>) \o Each("drop", "accounts", <<"by_parent", "by_code">>)
entity_dimension_rollback ==
  Each("drop", "approval_proposals", <<"by_entity">>) \o Each("drop", "obligations", <<"by_entity">>)
    \o Each("drop", "balance_snapshots", <<"by_entity">>) \o Each("drop", "ledger_transactions", <<"by_entity">>)
    \o Each("drop", "accounts", <<"by_entity">>) \o Each("drop", "approval_proposals", <<"entity_fixed">>)
    \o Each("drop", "ledger_transactions", <<"no_update">>) \o Each("create", "ledger_transactions", <<"no_update">>)
periods_policies_rollback ==
  Each("drop", "policy_rules", <<"by_priority">>) \o Each("drop", "accounting_periods", <<"by_period">>)
    \o Each("drop", "approval_decisions", <<"distinct_approver">>)
    \o Each("drop", "accounting_periods", <<"set_updated_at">>)
    \o Tables("drop", <<"policy_rules", "accounting_periods">>)
    \o Each("drop", "ledger_transactions", <<"no_update">>) \o Each("make", "ledger_transactions", <<"no_update">>)
    \o Each("rebuild", "ledger_transactions", <<"entity_id">>)
    \o Each("drop", "ledger_transactions", <<"no_delete">>) \o Each("make", "ledger_transactions", <<"no_delete">>)
    \o Each("drop", "ledger_transactions", <<"no_update">>) \o Each("make", "ledger_transactions", <<"no_update">>)
    \o Each("rebuild", "approval_proposals", <<"entity_id">>) \o Tables("rebuild", <<"approval_decisions">>)
    \o Each("create", "approval_proposals", <<"set_updated_at", "no_delete", "entity_fixed">>)
    \o Each("create", "approval_decisions", <<"no_update", "no_delete">>)
query_surface_indexes_rollback ==
  Each("drop", "ledger_transactions", <<"by_source">>) \o Each("drop", "approval_proposals", <<"by_created">>)
    \o Each("drop", "obligations", <<"by_due">>)
api_security_runtime_controls_rollback ==
  Each("drop", "event_log", <<"by_actor">>)
    \o Each("unadd", "event_log", <<"violation_code", "authorization_result", "authn_method", "actor_id">>)
obligation_fulfillment_rollback ==
  Each("unadd", "obligations", <<"fulfilled_at", "fulfilled_by_transaction_id">>)
account_identifier_history_rollback ==
  Each("drop", "account_identifier_history", <<"no_delete", "no_update", "one_active", "by_account">>)
    \o Tables("drop", <<"account_identifier_history">>)

Rollback ==
  <<ledger_core_rollback, security_and_append_only_rollback, approval_gates_rollback,
    read_query_indexes_rollback, entity_dimension_rollback, periods_policies_rollback,
    query_surface_indexes_rollback, api_security_runtime_controls_rollback,
    obligation_fulfillment_rollback, account_identifier_history_rollback>>

----------------------------------------------------------------------------
Object(s) == <<s.table, s.part>>
TableOf(s) == <<s.table, "table">>

\* A statement raises on a missing table, a second CREATE or ADD COLUMN, or a missing column to drop.
Refused(db, s) ==
  \/ s.op # "drop" /\ TableOf(s) \notin db /\ ~(s.op = "create" /\ s.part = "table")
  \/ s.op \in {"make", "add"} /\ Object(s) \in db
  \/ s.op = "unadd" /\ Object(s) \notin db

\* A table goes with its columns, indexes and triggers.
Removes(s, o) ==
  \/ o[1] = s.table /\ (s.op = "rebuild" \/ (s.op = "drop" /\ s.part = "table"))
  \/ o = Object(s) /\ s.op \in {"drop", "unadd"}

Brings(s) ==
  IF s.op \in {"create", "make", "add"} THEN {Object(s)} ELSE IF s.op = "rebuild" THEN {TableOf(s), Object(s)} ELSE {}

After(db, s) == {o \in db : ~Removes(s, o)} \cup Brings(s)

\* executescript over whole scripts, up to the first statement that raises.
Executed(run, s) ==
  IF run.raised \/ Refused(run.db, s) THEN [run EXCEPT !.raised = TRUE] ELSE [run EXCEPT !.db = After(@, s)]
Execute(db, scripts) == FoldLeft(Executed, [db |-> db, raised |-> FALSE], FlattenSeq(scripts))

\* Of the scripts as they are written down above, and true of them: none is empty.
ASSUME ScriptsAreSequences ==
  /\ DOMAIN Forward = 1..Len(Forward) /\ Len(Forward) \in Nat
  /\ \A m \in DOMAIN Forward : DOMAIN Forward[m] = 1..Len(Forward[m]) /\ Len(Forward[m]) \in Nat \ {0}

----------------------------------------------------------------------------
At(r, pc) == runner[r].pc = pc
RunGoes(r, pc, at, stmt) == runner' = [runner EXCEPT ![r] = [pc |-> pc, at |-> at, stmt |-> stmt]]
RunStmt(r) == Forward[runner[r].at][runner[r].stmt]

ScriptsLeft(r) == runner[r].at <= Len(Forward)

\* The database after the first k scripts, the way a finished run leaves it.
SchemaAt(k) == Execute({}, SubSeq(Forward, 1, k)).db

MigrationInit(k, checks) ==
  /\ schema = SchemaAt(k)
  /\ recorded = 1..k
  /\ runner = [r \in Runners |-> [pc |-> "idle", at |-> 1, stmt |-> 1]]
  /\ cycle = [phase |-> IF checks THEN "new" ELSE "off", db |-> {}, first |-> {}]

\* The connection is opened and schema_migrations created if it is not there.
RunStarts(r) ==
  /\ runner[r].pc \in {"idle", "done", "failed"}
  /\ RunGoes(r, "look", 1, 1) /\ UNCHANGED <<schema, recorded, cycle>>

NextScript(r) == IF runner[r].at \in recorded THEN "look" ELSE "script"
RunLooks(r) ==
  /\ At(r, "look") /\ ScriptsLeft(r)
  /\ RunGoes(r, NextScript(r), IF runner[r].at \in recorded THEN runner[r].at + 1 ELSE runner[r].at, 1)
  /\ UNCHANGED <<schema, recorded, cycle>>

RunEnds(r) ==
  /\ At(r, "look") /\ ~ScriptsLeft(r)
  /\ RunGoes(r, "done", runner[r].at, 1) /\ UNCHANGED <<schema, recorded, cycle>>

\* Bug form: the row is written once the first statement has gone through.
ScriptOver_AtOnce(r) == runner[r].stmt >= 1
ScriptOver(r) == runner[r].stmt = Len(Forward[runner[r].at])

RunExecutes(r) ==
  /\ At(r, "script") /\ ~Refused(schema, RunStmt(r))
  /\ schema' = After(schema, RunStmt(r))
  /\ IF ScriptOver(r) THEN RunGoes(r, "record", runner[r].at, 1)
                      ELSE RunGoes(r, "script", runner[r].at, runner[r].stmt + 1)
  /\ UNCHANGED <<recorded, cycle>>

\* Bug form: a script that raises is logged and the next one tried.
AfterRefusal_NextScript(r) == RunGoes(r, "look", runner[r].at + 1, 1)
AfterRefusal(r) == RunGoes(r, "failed", runner[r].at, 1)
RunRaises(r) ==
  /\ At(r, "script") /\ Refused(schema, RunStmt(r))
  /\ AfterRefusal(r) /\ UNCHANGED <<schema, recorded, cycle>>

RunRecords(r) ==
  /\ At(r, "record") /\ runner[r].at \notin recorded
  /\ recorded' = recorded \cup {runner[r].at}
  /\ RunGoes(r, "look", runner[r].at + 1, 1) /\ UNCHANGED <<schema, cycle>>

\* Another run has recorded the script meanwhile: the primary key refuses the row.
RunLosesRecord(r) ==
  /\ At(r, "record") /\ runner[r].at \in recorded
  /\ RunGoes(r, "failed", runner[r].at, 1) /\ UNCHANGED <<schema, recorded, cycle>>

RunIsKilled(r) ==
  /\ runner[r].pc \in {"look", "script", "record"}
  /\ RunGoes(r, "idle", 1, 1) /\ UNCHANGED <<schema, recorded, cycle>>

RunStep(r) == RunLooks(r) \/ RunEnds(r) \/ RunExecutes(r) \/ RunRaises(r) \/ RunRecords(r) \/ RunLosesRecord(r)

----------------------------------------------------------------------------
\* Bug form: the rollbacks in the order of their files.
RollbackOrder_AsListed == Rollback
RollbackOrder == Reverse(Rollback)

CycleGoes(phase, run, passes) ==
  cycle' = [phase |-> IF run.raised \/ ~passes THEN "failed" ELSE phase, db |-> run.db,
            first |-> IF phase = "applied" THEN run.db ELSE cycle.first]

CycleApplies == cycle.phase = "new" /\ CycleGoes("applied", Execute({}, Forward), TRUE)
\* user_tables must come back empty.
CycleRollsBack ==
  LET run == Execute(cycle.db, RollbackOrder) IN
  cycle.phase = "applied" /\ CycleGoes("rolled_back", run, \A o \in run.db : o[2] # "table")
CycleReapplies == cycle.phase = "rolled_back" /\ CycleGoes("reapplied", Execute(cycle.db, Forward), TRUE)

CycleStep == (CycleApplies \/ CycleRollsBack \/ CycleReapplies) /\ UNCHANGED <<schema, recorded, runner>>

MigrationNext == CycleStep \/ \E r \in Runners : RunStarts(r) \/ RunStep(r) \/ RunIsKilled(r)

----------------------------------------------------------------------------
\* What a script leaves behind for good: no script takes it away again.
Kept(o) == \A m \in DOMAIN Forward : \A s \in ToSet(Forward[m]) : ~Removes(s, o)
LeftBy == [m \in DOMAIN Forward |-> {o \in UNION {Brings(s) : s \in ToSet(Forward[m])} : Kept(o)}]

\* Of the scripts too, read off them as they run: the first k bring and keep what each leaves for good.
ASSUME ScriptsBuildUp == \A k \in 0..Len(Forward) : \A m \in 1..k : LeftBy[m] \subseteq SchemaAt(k)

\* A recorded script has gone through to its last statement, whoever ran it, crashes and a second
\* run at the same time included: a later run skips it for ever (db/migrations.py:61-80).
RecordedIsApplied == \A m \in recorded : LeftBy[m] \subseteq schema

\* Scripts are recorded in order: a failed one is never passed over, since the next one builds on it.
NoScriptIsPassedOver == \A m \in recorded : 1..m \subseteq recorded

\* The scripts and their rollbacks fit each other: apply, rollback and re-apply raise nothing, leave no
\* table in between, and end with the objects of the first apply (scripts/check_migration_cycle.py:56-84).
CycleReturns ==
  /\ cycle.phase # "failed"
  /\ cycle.phase = "reapplied" => cycle.db = cycle.first

\* "If this insert fails the migration will be retried on next run." (db/migrations.py:75), by a run
\* that is "safe to call repeatedly" (line 4): a run by itself does not fail, whatever run came before.
RetriesGoThrough == \A r \in Runners : runner[r].pc # "failed"
=============================================================================
