# Capital OS: a TLA+ verification project

Capital OS is a double-entry ledger behind a set of tools: clients (an HTTP API, a CLI, an MCP
proxy in front of the API) send tool calls, each call runs one handler over one SQLite file. This
directory holds TLA+ models of it, TLC configurations that check them on small instances,
and TLAPS proofs of what matters most. Source paths are relative to the repository (`domain/`, `db/`, `api/` and
so on are under `src/capital_os/`); `PROJECT.json` maps every definition to the lines it models.

To run it: `tlc -config Records.cfg MCGate` (the module of each configuration is in section 3), and
`tlapm X_proofs.tla` for each of the eight proof modules of section 4 (a few minutes each).

## 1. Inventory

### Components

| Component | Source | State it keeps | Operations | What makes it correct | Model |
|---|---|---|---|---|---|
| Money | `domain/ledger/invariants.py`, `domain/approval/policy.py` | none | normalize, balance check, impact | legs cancel as stored, after rounding | `Money` |
| Database sessions | `db/session.py`, `observability/event_log.py`, `migrations/*` | one SQLite file, WAL | transaction, commit, rollback, `log_event` | all or nothing, an ok event with every effect | `CapitalDb`, `RegistryDb` |
| Recording | `domain/ledger/service.py`, `repository.py`, `idempotency.py` | `ledger_transactions`, `ledger_postings`, `approval_proposals` | `record_transaction_bundle` | one row per key, exactly-once answers, no write past a gate | `RecordBundle` |
| Policy engine | `domain/policy/service.py` | reads `policy_rules` and the ledger | evaluate | the first rule that settles decides; velocity limits are not passed | `RecordBundle` |
| Approvals | `domain/approval/service.py`, `repository.py` | `approval_proposals`, `approval_decisions` | approve, reject | no commit without quorum, no quorum without commit, decisions are final | `ApprovalDecisions` |
| Periods | `domain/periods/service.py` | `accounting_periods` | close, lock, enforce | periods only tighten; gated writes | `AccountingPeriods` |
| Accounts | `domain/accounts/*`, migration 0010 | accounts, metadata, identifier history | create, update metadata, update profile | a forest; one active identifier per source; retries repeat their answer; no lost update | `AccountRegistry` |
| COA importer | `db/coa_importer.py`, `scripts/import_coa.py` | accounts | validate, import, re-import, dry run | whole or not at all; idempotent; a forest | `CoaImport` |
| Obligations, snapshots | `domain/ledger/service.py`, `repository.py`, migration 0009 | obligations, `balance_snapshots` | upsert, fulfil | one row per key, and its id told; changes are logged | `Obligations` |
| Reconciliation | `domain/reconciliation`, `domain/ledger/repository.py` | reads postings and snapshots | balances, suggestion | an adjustment closes the difference it was made for | `Reconciliation` |
| Config governance | `tools/propose_config_change.py`, `approve_config_change.py` | proposals, decisions | propose, approve, reject | a decided change carries its verdict | `ConfigGovernance` |
| Queries | `domain/query/*` | none | keyset pages, account tree | no row that stays is missed; the tree shows every account | `Listings`, in part |
| Dispatcher | `runtime/execute_tool.py` | `event_log` | validate, run, log | fail-closed: no change and no write answer without its event | `ToolRuntime` |
| Adapters, auth | `api/app.py`, `cli/tool.py`, `security/*`, `config.py` | none | authenticate, authorize, delegate, answer | no change without its capability; every call is answered | `ToolRuntime`, `Upkeep` |
| Migrations | `db/migrations.py`, `scripts/apply_migrations.py`, `check_migration_cycle.py`, `migrations/*` | the schema, `schema_migrations` | apply pending, the cycle check | what is recorded is applied; scripts and rollbacks fit | `Migrations` |
| Idle shutdown | `scripts/serve_with_idle_shutdown.py` | an activity file | touch, check, signal, stop | stops when idle, not when busy | `IdleShutdown` |
| Posture, consolidation | `domain/posture/*` | none | metrics, bands, transfers | transfers cancel; the whole lies between its parts | `Posture`, in part |
| Simulation | `domain/simulation/engine.py` | none | projection | each spend counted once | `Simulation` |
| Debt | `domain/debt/engine.py` | none | score, rank, pay off | a canonical ranking; the payoff follows it | `Debt` |
| Schemas | `schemas/tools.py` | none | field validation | | in part |
| Hashing, MCP proxy | `observability/hashing.py`, `mcp/*` | none | | | not modelled |

### How they interact

An adapter checks who calls and hands the payload to `execute_tool`, which validates it, calls the handler and
validates what it returns. A handler opens `transaction()`: one connection, one commit at the end, a rollback on any
exception. Components share nothing but the database: recording reads periods, rules and the
ledger before it writes; approval writes what recording stored in a proposal; the policy engine reads
what both wrote; config changes are proposals in the same table and are rejected by the same tool; the importer re-parents
accounts that `create_account` makes. Migrations change the schema under all of them, and `log_event` works only after
0008. The only thread beside the handlers is the server's, under the idle wrapper, and the two share a file.

### What is hard

*Interleaving and stale reads.* `db/session.py` opens `sqlite3` connections with Python's default
transaction control: a SELECT runs by itself and sees the last committed state; the first INSERT
or UPDATE opens the transaction and takes the WAL write lock, held to the commit. A handler
is therefore a sequence of separate reads, each of which may be stale by the time of the next, and
one atomic write section. The API's `run_tool` is an `async def` that calls the handler
synchronously, so one server process runs its calls one after the other; calls overlap when the CLI
runs next to the server, when several workers or processes share the file, or when threads call the services as the
repository's concurrency tests do.

*Recovery.* `record_transaction_bundle` and `update_account_profile` catch an IntegrityError and resolve it in a second
transaction; approvals catch the one of a key that is already in the ledger; the others let it roll the call back.

*Failure.* A busy timeout, a full disk, a failed `log_event` (writes fail closed), a
crash, and the idle wrapper that leaves after five seconds all roll a call's write section back at any point before its
commit. `executescript` commits each statement of a migration on its own.

*Long sequences.* A proposal outlives the checks that were made when it was created; accounts are re-parented and
obligations reactivated by calls years apart; a client walks pages of rows that move.

*Edges of numbers and dates.* Half-even rounding leg by leg, ratios rounded before they meet a threshold, months of
different lengths, ties.

All of these are in `PROJECT.json` under `hazards`, each at its line.

## 2. The models

| Module | What it is |
|---|---|
| `Money` | half-even rounding, balance and impact of a bundle |
| `CapitalDb` | the ledger's tables, constants and assumptions, sessions, begin/end/rollback of a call |
| `RecordBundle`, `ApprovalDecisions`, `AccountingPeriods` | the handlers of the write path |
| `TransactionGate` | their calls from several sessions over one database; the properties |
| `CanonicalLedger` | the abstract ledger: a key commits once, and whoever is told an id is told the id of that commit |
| `RegistryDb` | the tables beside the ledger, and the steps of a call against them |
| `AccountRegistry`, `CoaImport`, `Obligations`, `ConfigGovernance`, `Listings` | the handlers beside the ledger, the importer, pages and the tree |
| `RegistryTools` | their calls from several sessions; the properties |
| `KeyedAnswers` | the abstract promise of the keyed tools: the first answer of a key is kept, and nobody is told another |
| `Posture`, `Simulation`, `Debt`, `Reconciliation` | the tools that compute |
| `AnalysisTools` | a question to one of them, or an account reconciled over time; the properties |
| `ToolRuntime` | one call from client to reply; it is also the abstract specification that `Upkeep` implements |
| `Migrations`, `IdleShutdown` | the migration runner and the cycle check; the idle server |
| `Upkeep` | migrations, calls and the server together |
| `MCGate`, `MCRegistry`, `MCAnalysis`, `MCUpkeep` | small instances for TLC |
| `Money_proofs` | TLAPS proofs about rounding |
| `TransactionGate_proofs`, `GateDecisions_proofs`, `GateEvents_proofs` | the write path: types, rows and refinement; quorums and justifications; events, periods, and calls that do not overlap |
| `AccountTree_proofs`, `Registry_proofs` | the forest of accounts and the importer; the other tables and the listings |
| `AnalysisTools_proofs` | the tools that compute |
| `Upkeep_proofs` | calls, the composition, migrations, the idle server |

### The write path (`TransactionGate`)

**State and code.** `ledger` is `ledger_transactions` with its postings, the transaction id being
the index. `direct` is a history field: did the row come from an ungated record call? `proposals` is
`approval_proposals` by key (one per `(tool_name, source_system, external_id)`, migration 0003).
`decisions` is `approval_decisions`, `periods` is `accounting_periods` by (month, entity), `events` the ok
rows of `event_log`. `answers` is a history variable: every (key, transaction id) pair that a
committed call returned to its client. `pc`, `arg` and `seen` are a call in flight: its next
step, its payload and what it has read.

**One action, one read or one write section.** `ResolveReplay`, `EnforcePeriod`, `EvaluateRule`,
`AllTimeVelocity`, `FindDuplicates` and `FetchProposal` are the reads of a record call in the
order of the code, each a separate step at which other sessions can run. The rule loop takes one step per
rule that matches statically, because a rule may read the ledger twice: a window count, and the
all-time count when the window is empty. `InsertProposal` and
`InsertLedger` are its write sections, `IntegrityError`, `ConflictReplay` and `ConflictProposal` its
recovery. `ReadForApproval` and `CheckApproverDecision` lead to one of four outcomes that the code decides
after its first INSERT, under the write lock: `ApproveBelowQuorum`, `ApproveAndCommit`,
`ApproveAndAdopt` (the key has a row already) and `ApproveFails`. Reject, close and lock are a
read and a write section each. `Rollback` may end any call at any step.

**What is abstracted.**
- An event of a call that writes nothing else is logged in the action of the read it reports. The
  value it reports cannot change its answer any more, and no other call reads `event_log`.
- Response texts, hashes, correlation ids and timestamps. A stored response is the status and the
  transaction id of its proposal.
- Amounts are integers in tenths of the ledger's quantum, so all rounding cases exist; dates are
  days; a month is `MonthLength` days.
- `policy_rules` is a constant sequence in `(priority, rule_id)` order: no code in the repository
  writes the table. Of the two NULL-able velocity columns, a CHECK of migration 0006 wants both or neither.
- Period rows with status `open` exist in the schema but nothing inserts one, so an open period is no row.
- Approver NULL (no `approver_id`) is one member of a set, though a UNIQUE index admits several such rows.
  Counts are compared only where one row suffices, or leave NULL out.
- Calls that raise after a read and change nothing (unknown proposal, approval of a rejected
  one, rejection of a committed one, unbalanced bundle) are guards without an action.
- Error events, which the dispatcher writes in a transaction of its own, are in `ToolRuntime`.

### The tools beside the ledger (`RegistryTools`)

**State and code.** `accounts` is by id, with code, name, parent and metadata; `history` is
`account_identifier_history` in the order of insertion, an instant being the number of the row it opens; `profiles` the
stored responses of `update_account_profile`; `obligations`, `snapshots` and `changes` are tables by their unique key;
`told` is a history variable, what clients were answered. `Reads` and `Ends` are the steps of a call as above.

**Actions.** Every tool is its read (`CreateReads`, `MetadataReads`, ...) and what the write section then finds:
`CreateInserts` or `CreateFails`, `ObligationInserts`, `ObligationUpdates` or `ObligationFails`. What a handler
decides on a read before its write (update the metadata as read, fulfil what was active, apply what was proposed) is
decided in the read action, and what it reads under the lock (the profile's row, its history) in the write action; the
lost updates of the code come out of that alone. An import reads the existing ids, then takes the accounts of its file
one by one until the first that it writes (`ImportSkips`, `ImportDecides`). From the statement of that one on it holds
the lock: `ImportWrites` does the rest of the file, `ImportFails` loses it all. The cycle triggers are `CycleTrigger`.
A client's walk (`ListStarts`, `ListContinues`) holds the cursor, the rows it has got, and the rows that stayed where
they were on every page.

**What is abstracted.** Metadata is a function over the few keys that calls tell apart; the importer compares metadata
as values, not their serialization, so that a row stored with another spelling of the same JSON counts as unchanged. A
page is a set of rows, those with fewer rows before them than it has room for; its sort key is one number and an id.
`created_at` of two proposals falls into one second, so that ids break ties. Pages of transactions, which never
change, and of the other tools go through the same code. The partial UNIQUE index on active history rows
(`migrations/0010_account_identifier_history.sql:19`) is left out: the model can only do more without it, and
`HistoryMirrorsProfiles` shows that no call would meet it.

### The tools that compute (`AnalysisTools`)

Their code keeps no state, so a behaviour asks one question of `Questions` and gets its answer, or a refusal by the
schema. The operators bear the names of the functions: `compute_posture_metrics`, `compute_consolidated_posture`,
`compute_simulation_projection`, `analyze_liabilities`. Amounts, ratios and rates are integers in quanta, so each
rounding is where the code has it; dates are of the Gregorian calendar. The stable sort of `analyze_liabilities` gives
a liability the place after all that have a better key, or the same key earlier in the list. `Reconciliation` is a
state machine of one account: postings, snapshots, and a client who records a suggestion later, through the replay of
`record_transaction_bundle`.

### Calls, migrations and the server (`Upkeep`)

**State and code.** `call[c]` is the request a client has in hand, the phase it is in (`gate`: the route before the
dispatcher; `refuse`: a refusal whose event is to be stored; `dispatch`; `log`: an error to be logged; `reply`) and
the answer; `effect[c]` and `events[c]` say whether its change is committed and what `event_log` holds about it.
`schema` is a set of (table, part), `recorded` is `schema_migrations`, `runner[r]` a run of
`apply_pending_migrations`, `cycle` the scratch database of the cycle check. `server`, `stamp`, `quiet`, `touching`
are the idle wrapper's, in half seconds, the interval of its check; `checker` is where its main thread is between
reading the file and stopping the server, `read` what it read, and `lull`, a history variable, how long no request had
come when it read.

**Actions.** `GateStep` is `run_tool` up to the dispatcher: unknown tool, body, token, capability, header, in that
order. `ExecuteStep` is `execute_tool`: handler and event in one commit (`HandlerCommits`), output validation after it
(`AfterCommit`), an error logged in a transaction of its own that may fail (`LogsError`, `LosesErrorEvent`,
`FailClosed`). `RunExecutes` is one statement of a script, as `executescript` commits it, with the ten scripts and
their rollbacks written down statement by statement; `RunRecords` the row. `RequestTruncates` and `RequestStamps` are
the two halves of rewriting the activity file. The composition adds what joins them: `LogReady` (the columns of 0008
that `log_event` names), `Alone` (the event loop serves one request at a time from its body to its reply),
`JoinTimesOut` and the kills.

**What is abstracted.** What a handler does is one transaction here: its inside is the matter of the other models. The
log is kept per client for its last call. Column types, foreign keys and the bodies of triggers are not part of
`schema`. A script is a constant: the files are read when they are run, and nothing changes them.

**Bounds.** In the modules: `Uuids` (the ids `create_account` may draw), `MaxPostings` (postings of the reconciled
account), `MaxAge` (up to which ages are counted). All other state is finite because the constant sets are: a key has
at most one row, decisions, events and answers are sets.

## 3. What TLC checks

| Run | Module | Question | Instance | Distinct states |
|---|---|---|---|---|
| `Records` | `MCGate` | Whatever two sessions race or crash: do rows balance, do answers name them, is no quorum stranded, does a conflict find its cause, and does the whole implement `CanonicalLedger`? | 2 sessions, 3 keys, 7 bundles, anonymous approvals | 457k |
| `Decisions` | `MCGate` | Does a quorum hold, is a reached one committed, and does every call end? | 2 sessions, 2 named approvers and the anonymous one, 2 required, 2 bundles of one key; liveness | 47k |
| `Periods` | `MCGate` | Do close and lock keep their order and their events while bundles are written? | 2 sessions, 2 actors, 3 bundles | 422k |
| `Serial` | `MCGate` | What more holds when calls do not overlap, only crash? | 1 session, 5 bundles, velocity and quorum rules, 2 approvers | 653k |
| `Registry` | `MCRegistry` | Do the tools beside the ledger and the importer keep accounts, history, obligations, snapshots and config changes sound, do pages miss nothing, and does the whole implement `KeyedAnswers`? | 2 sessions, six workloads | 86k |
| `Analysis` | `MCAnalysis` | Do the tools that compute answer what they promise at the edges of rounding and of the calendar? | 234 postures, 972 consolidations, 576 projections, 960 rankings, one account over time | 29k |
| `Upkeep` | `MCUpkeep` | Do migrations, calls and the idle server hold through kills, lock timeouts and an incomplete schema? | two runs of migrations, 2 HTTP clients, 1 CLI, nine workloads; liveness | 54k |
| `LockThenApprove` | `MCGate` | Is a locked period respected on every path? **violated** | 1 session | |
| `DecisionRace` | `MCGate` | Are decisions final? **violated** | 2 sessions | |
| `TwinRace` | `MCGate` | Is a duplicate always gated? **violated** | 2 sessions | |
| `MigrationCrash` | `MCUpkeep` | Can a migration be repeated after a crash? **violated** | one run at a time | |
| `PatchRace` | `MCRegistry` | Does a patch keep the keys it does not carry? **violated** | 2 sessions | |

**Why the bounds are enough.** Every race of the write path and of the tools beside it is between a read and the write
section of another call, or between two write sections; two sessions make all of them.

- *Write path.* Two keys tell a key's own row from another's. The bundles of `Records` are chosen so that each branch
  happens: a key sent both small (direct) and large (gated), so that a key's proposal and its direct write race; a
  duplicate under another key; legs `-10, 5, 5` whose exact sum is zero and whose rounded sum is not; an unknown account
  or entity on either path, so that an IntegrityError without a cause in the tables occurs. In `Decisions` two
  approvers decide at the same time, in both orders of read and insert, while their key is recorded. In `Serial` the
  dates are such that rows fall inside and outside a velocity window, and one impact lies between the fallback's
  threshold and the rule's.
- *Registry.* A workload is the set of calls that can meet each other: accounts under parents of each other's making
  while a client lists them; profile keys shared by two accounts, by retries with another payload and by metadata
  patches; files that together would close a cycle, a file that only creates, a dry one and three that validation
  refuses, beside patches and an account created with the code of one of theirs; obligations moved, fulfilled, reactivated and withdrawn under two walks;
  snapshots of equal and different keys; changes approved by name and without, and rejected. Tables that a workload
  does not touch stay empty; the code has no reads between them. A page holds one row, so that every boundary between two
  rows is a page boundary.
- *Analysis.* The inputs sit on both sides of each threshold, at zero and below, and at halves of a quantum; transfers
  come in a ring of three entities; horizons start on the 28th to the 31st, in leap years, over a century that is
  none; liabilities tie in every sort key.
- *Upkeep.* The scripts are the repository's ten. A run starts on a new database; two start together at 0004, where both can
  go through, and meet 0005, which only one can; tools are called while 0008 is applied. The requests go each
  way through the route and the dispatcher once. The server idles after two seconds, four ticks of its check:
  once with two clients whose requests come between any two steps of the check, once with one that writes.

Sessions and approvers are only compared for equality, so the symmetry of the safety runs is sound; the liveness runs use
none. `Analysis` and `Upkeep` stop in the end, and so do not check for deadlock: a question is answered once, and the
migrations come to their end.

**Fairness.** `Decisions` assumes weak fairness of each session's `Step`: a call in flight that the OS schedules goes
on, and `busy_timeout` bounds its wait for the lock. Starting a call and rolling one back are not fair. `Upkeep`
assumes it of the clock, the check, the stamp of a request, a CLI process, and the end of a server that was asked to
stop, which `join(timeout=5)` bounds. Steps of a call over HTTP are strongly fair: another request may take the event
loop between two of them, but the loop's queue is first in, first out, so none waits for ever. Nothing need arrive,
start, fail or be killed. The properties are not void: with the bug forms that retry a failed write as it was, that
wait for the event of an error, or that compare the idle time for equality, each of them fails.

**Mutants.** Each property of each passing run is paired with a plausible bug (definitions marked "Bug form") that
violates it in that very run.

### Disagreements between code and documents

1. *A locked period is written to by an approval* (`LockThenApprove`): the approval inserts the stored request
   (`domain/approval/service.py:166`) without reading the period again. Record, lock, approve, no overlap needed.
2. *A decided proposal is decided again* (`DecisionRace`): status is read outside the write section, and
   `persist_proposal_result` updates by id alone. A committed proposal becomes rejected while its row stays in the
   ledger, or a rejected one is committed.
3. *Concurrent duplicates* (`TwinRace`): both searches precede both commits, so neither is gated.
4. *A migration that cannot be repeated* (`MigrationCrash`): `executescript` commits each statement, and a kill between two
   `ALTER TABLE ADD COLUMN` of 0005, 0006, 0008 or 0009, or before the script's record, makes every later run raise.
5. *A lost metadata patch* (`PatchRace`): the metadata is read before the write lock is taken and written back whole.

What the models show beside these, and no run states:

- The period is read before the write lock, so an untagged row of a period can be written after a close that
  commits in between; that is why `RecordsRespectPeriods` belongs to `Serial`. `VelocityLimitsHold` and
  `DirectWritesAreNoDuplicates` rest on such reads as well.
- Two locks that both read `closed` both write: the second overwrites the first's actor.
- Two fulfilments that both read an active obligation both write, although
  `docs/backlog-phase1-prd-closure.md:227` says that a second call mutates nothing.
- The first UPDATE of an import writes back the row its SELECT saw, and loses a patch that was committed between the two
  (`db/coa_importer.py:204`); the accounts after it are read under the lock.
- The idle check reads the activity file, compares and stops the server without a lock
  (`scripts/serve_with_idle_shutdown.py:94-95`), so a request that comes in between is not seen, and its server is asked to
  stop just after it. The request itself is answered or cut off by the join (`CallsAreAnswered`); `StopsOnlyWhenIdle`
  therefore speaks of the time before the read.
- A projection by months that starts on the 29th to the 31st has days after a short month that no period
  holds, so a spend there is not subtracted (`GapDays` in `AnalysisTools`); `SpendsAreCountedOnce` says that it is on
  those days only.
- An update of an obligation takes the caller's `active` flag, true by default (`domain/ledger/repository.py:225`), and
  leaves `fulfilled_by_transaction_id`; `docs/tool-reference.md:217` and `docs/data-model.md:123` say that it sets
  `active = 1`.
- `analyze_debt` accepts `reserve_floor` and never reads it.
- The rollback of 0005 leaves its columns, so that re-applying it alone raises; that of 0006 leaves postings that
  reference a table which is gone. The cycle check rolls back everything, which works (`CycleReturns`).

## 4. What is proved

Every theorem holds for all values of the constants: any sessions, bundles, rules, approvers, clients, requests,
questions and workloads. The last column names the run that checks the property on an instance. Each proof
module EXTENDS the model it is about; `Money_proofs` is shared, and `GateDecisions_proofs` and `GateEvents_proofs` build
on `TransactionGate_proofs`, `Registry_proofs` on `AccountTree_proofs`.

| Module | Theorem | What holds | Run |
|---|---|---|---|
| `Money_proofs` | `RoundingIsNearest` | half-even rounding moves an amount by half a step at most, to an even one at a tie | |
| | `RoundingIsMonotone` | a larger amount never rounds to a smaller one | |
| | `RoundingIsExact` | a whole number of steps is rounded to itself | |
| `TransactionGate_proofs` | `Invariance` | `Safety => []IInv` | |
| | `TypeCorrect` | `Safety => []TypeOK` | `Records` |
| | `OneRowPerKeyHolds` | `Safety => []OneRowPerKey` | |
| | `AnswersNameTheRowHolds` | `Safety => []AnswersNameTheRow` | `Records` |
| | `LedgerIsAppendOnlyHolds` | `Safety => LedgerIsAppendOnly` | |
| | `CallsGoForwardHolds` | `Safety => CallsGoForward` | |
| | `Refinement` | `Safety => ImplementsCanonicalLedger` | `Records` |
| `GateDecisions_proofs` | `DecisionInvariance` | `Safety => [](IInv /\ DInv)` | |
| | `NoStrandedQuorumHolds` | `Safety => []NoStrandedQuorum` | `Records`, `Decisions` |
| | `ProposalsKeepTheirTermsHolds` | `Safety => ProposalsKeepTheirTerms` | |
| | `CommittedHasQuorumAndRowHolds` | `Safety => []CommittedHasQuorumAndRow` | `Decisions` |
| | `EveryRowIsJustifiedHolds` | `Safety => []EveryRowIsJustified` | `Serial` |
| | `LedgerBalancesHolds` | `Safety => []LedgerBalances` | `Records` |
| `GateEvents_proofs` | `EventInvariance` | `Safety => [](IInv /\ DInv /\ EInv)` | |
| | `EffectsAreLoggedHolds` | `Safety => []EffectsAreLogged` | `Periods` |
| | `ConflictFindsItsCauseHolds` | `Safety => []ConflictFindsItsCause` | `Records` |
| | `PeriodsOnlyTightenHolds` | `Safety => PeriodsOnlyTighten` | `Periods` |
| with one session | `SerialInvariance` | `Safety => [](IInv /\ DInv /\ SInv)` | |
| (`Alone`) | `DirectWritesAreNoDuplicatesHolds` | `Safety => []DirectWritesAreNoDuplicates` | `Serial` |
| | `VelocityLimitsAreKept` | `Safety => []VelocityLimitsHold` | `Serial` |
| | `RecordsRespectPeriodsHolds` | `Safety => RecordsRespectPeriods` | `Serial` |
| | `DecidedStaysDecidedHolds` | `Safety => DecidedStaysDecided` | |
| `AccountTree_proofs` | `AccountInvariance` | `Spec => []AInv` | |
| | `TreeShowsEveryAccountHolds` | `Spec => []TreeShowsEveryAccount` | `Registry` |
| | `ImportsAreWholeHolds` | `Spec => ImportsAreWhole` | `Registry` |
| | `ImportIsIdempotentHolds` | `Spec => []ImportIsIdempotent` | `Registry` |
| `Registry_proofs` | `RegistryInvariance` | `Spec => []RInv` | |
| | `ReplaysRepeatTheAnswerHolds` | `Spec => []ReplaysRepeatTheAnswer` | `Registry` |
| | `UpsertAnswersNameTheRowHolds` | `Spec => []UpsertAnswersNameTheRow` | |
| | `ImplementsKeyedAnswersHolds` | `Spec => ImplementsKeyedAnswers` | `Registry` |
| | `RegistryEffectsAreLoggedHolds` | `Spec => []EffectsAreLogged` | `Registry` |
| | `ChangesCarryTheirVerdictHolds` | `Spec => []ChangesCarryTheirVerdict` | `Registry` |
| | `HistoryMirrorsProfilesHolds` | `Spec => []HistoryMirrorsProfiles` | `Registry` |
| | `WalksMissNothingHolds` | `Spec => []WalksMissNothing` | `Registry` |
| | `WalksGoForwardHolds` | `Spec => WalksGoForward` | |
| `Upkeep_proofs` | `RuntimeTypeCorrect` | `RuntimeSpec => []RuntimeTypeOK` | |
| | `CallsAdvanceHolds` | `RuntimeSpec => CallsAdvance` | |
| | `ChangesAreLoggedHolds` | `RuntimeSpec => []ChangesAreLogged` | `Upkeep` |
| | `WriteAnswersAreLoggedHolds` | `RuntimeSpec => []WriteAnswersAreLogged` | `Upkeep` |
| | `ErrorsChangeNothingHolds` | `RuntimeSpec => []ErrorsChangeNothing` | `Upkeep` |
| | `ChangesAreAuthorizedHolds` | `RuntimeSpec => []ChangesAreAuthorized` | `Upkeep` |
| | `UpkeepImplementsToolRuntime` | `Safety => ImplementsToolRuntime` | `Upkeep` |
| | `UpkeepKeepsCallsSound` | the four properties of calls, in the composition | `Upkeep` |
| | `UpkeepAdvancesCalls` | `Safety => CallsAdvance` | |
| | `RequestsAreServedHolds` | `Safety => []RequestsAreServed` | |
| | `NoScriptIsPassedOverHolds` | `Safety => []NoScriptIsPassedOver` | `Upkeep` |
| | `RunsAdvanceHolds` | `Safety => RunsAdvance` | |
| | `RecordedIsAppliedHolds` | `Safety => []RecordedIsApplied` | `Upkeep` |
| | `StopsOnlyWhenIdleHolds` | `Safety => StopsOnlyWhenIdle` | `Upkeep` |
| `AnalysisTools_proofs` | `ConsolidationAnswers` | `Spec => []ConsolidationInv` | |
| | `TransfersAreNeutralHolds` | `Spec => []TransfersAreNeutral` | `Analysis` |
| | `WholeLiesBetweenItsPartsHolds` | `Spec => []WholeLiesBetweenItsParts` | `Analysis` |
| | `AdjustmentsCloseHolds` | `Spec => AdjustmentsClose` | `Analysis` |
| | `SpendsAreCountedOnceHolds` | `Spec => []SpendsAreCountedOnce` | `Analysis` |
| | `PayoffFollowsTheRankingHolds` | `Spec => []PayoffFollowsTheRanking` | `Analysis` |

`Safety` is the specification without fairness.

**Assumptions**, all evaluated by TLC in the runs:

- `CapitalDb`: bundles and rules are records with the fields the code reads. A rule has a velocity limit if and only if it
  has a window, and both are positive then (the CHECK of `migrations/0006_periods_policies.sql:43`). Required approvals
  and the month length are positive, approvers are finitely many, NULL is no approver, no proposal and no period.
- `RegistryDb`: the calls of a workload fit the request schemas (`CallFits`), ids are integers and those of accounts finitely many,
  a page has room for a row, and NULL is no value of a table and no place in a listing. `ForestAssumption`: the accounts
  that calls find already there are a forest; they got there past the same trigger.
- `ToolRuntime`: HTTP and CLI clients are distinct, NULL is no request. `Migrations`: scripts are non-empty sequences of
  statements; and `ScriptsBuildUp`, that the first k scripts, one after another, leave what each of them leaves for good. Both
  are about the ten scripts as written down, without a variable or a constant, so TLC's evaluation settles them. `Upkeep`: a
  workload begins at one of the scripts, with runs, requests and an idle time of the constants.
  `IdleShutdown`: ages are counted up to a positive number, so that a time just written is told from no time.
- `AnalysisTools`: questions that the schemas let through. A consolidation has an entity (`min_length=1` in
  `schemas/tools.py:403`) and amounts that are numbers. A projection starts on a date that exists, over a period at least, with spends
  that are not negative (`domain/simulation/engine.py:39,65`). Liabilities have distinct ids and nothing below zero
  (`domain/debt/engine.py:32,58,67`). `Reconciliation`: dates, balances and amounts are integers.

**The write path.** The inductive invariant is `IInv == TypeOK /\ CallsAreSound /\ ProposalsAreSound /\ OneRowPerKey
/\ AnswersNameTheRow`. The last two are not inductive alone. An approval of a committed proposal, or a record call
that finds its proposal, answers with the stored id, so `ProposalsAreSound` must say that a committed proposal names
the row of its own key and asks for that key. A deciding call writes with `proposals[arg.key].request` long after it
read the proposal, so `CallsAreSound` must say the proposal still exists. The rule loop indexes `Rules` by a number
read steps before, so it must say the number is in range, which rests on the lemma that the first matching rule
exists. All that a step can do to `ledger` and `answers` is one of three effects: `Silent` (nothing), `Told` (an
answer that names an existing row) or `Booked` (a new row for a free key, with its answer). One lemma per action shows
its effect and that calls stay sound; the two invariants, the append-only property and the refinement are then each
proved once, from the effects. They are exactly the stutter, `Tell` and `Commit` of `CanonicalLedger`, with `book` the
keys of the rows and `told` the answers.

`CallsGoForward` is the part of `CallsEnd` that is no liveness. `StepsLeft` counts the steps a call may still take: two for
each rule the loop has not looked at, and the recovery of a conflict, which is entered once and goes back to no insert.
Each lemma about an action shows that its session's count falls and that the others' do not rise. That a step is
always possible, and taken under weak fairness, is what TLC adds.

**Decisions and justifications.** `DInv` says of each key that its status tells whether it has its quorum, of each row
why it may be there, and of each call in flight what it has checked of its own bundle. The quorum counts distinct
approvers, so the proof turns on cardinalities: the count by which an approval decides (`CountWith`) is the one its
insert leaves. A rejection leaves the approvals where they are, and a rejected proposal may have its quorum: the race
that `DecisionRace` shows. For that reason `NoStrandedQuorum` does not ask for the status `committed`: a reached quorum has
its row, and is never `proposed`. `ProposalsKeepTheirTerms` says what a step may do to a proposal, again without
promising more than the code: a rejected proposal may become proposed once more, by an approval below the quorum that
read it before the rejection. A direct row is under its threshold because a call at rule `n` has passed no rule that
would have settled it (`RulesPassed`), which needs no view of the database and so survives every race.

**Events, and one session.** `EInv` ties every row, proposal, decision and period to an event; a row that was approved
has the event of the record call that proposed it. It also knows what the recovery of a conflict will find: since
neither rows nor proposals go away, what refused the insert is still there. `SInv` is stated for one session (`Alone`)
and holds what the run `Serial` relies on: what a call has read of periods, rules, window totals and duplicates is
still so when it writes. A second session breaks each of its parts, as `DecisionRace` and `TwinRace` show for two of
them: the assumption is the limit of these properties, not a convenience of the proof.

**Accounts.** `AInv` says that parents exist and form a forest. A forest is stated by ranks: there is a numbering in
which each parent is below its child, so that one new parent, which the trigger allows only outside the child's own
subtree, leads to another numbering. `Chain` and `TreeAnswer` work in rounds, as many as there are account ids. One
lemma shows that so many rounds reach the least set closed under one more, and the proofs use nothing else of them: in
a forest, the least set that has the roots and the children of its members has every account, and no account has two
roots. The importer's pass over a file is a fold; that a repeated import finds nothing to do is shown by induction
over the file.

**Tables beside the ledger.** `RInv` is one part per table, `Answered` for what clients were told, and `RowIsThere`
for what calls in flight rely on. Frame lemmas (`ProfilesStay`, `ObligationsStay`, ...) say that a step which leaves a
table and its events leaves its part, so each action has only its own part to show. The identifier history is
`Linked`: a row is open if it is the last of its account and source, and closes at the next one otherwise; appending a
row and closing the open one keeps that.

`KeyedAnswers` puts the four keyed tools under one promise. Its `first` is the answer that stands in the row of a key,
the stored response or the row's id; its `told` is what clients were told. A step of the code speaks or is mute: it
commits one call of a keyed tool, whose answer is in the row after it and was there before if the row was, or it leaves
all answers and all that was told alone, whatever it does to due dates, balances, statuses and accounts.
`UpsertAnswersNameTheRow` follows from the promise, and is proved on the way to it, so no run repeats it.

**Listings.** `WalkInv` says that a row which has stood still on every page so far, and which the client's cursor has
passed, is among those it has got. The rows of a page are those with fewer than `limit + 1` rows before them in a
strict total order; the next cursor is the last one shown, and every row that is not shown stands after it. `WalksGoForward` adds
the other half: what a page shows stands after the cursor it was asked with, and the client has got only rows up to it, as the listing
was when they were shown; a cursor that is not the end moves on by a full page.

**Calls.** No two calls share anything in `ToolRuntime`, so the invariant is a predicate `Sound` of one call, its
effect and its events, for every client. It adds to the properties what the phases know: a call that is past the gate
is authorized, one that waits for its error to be logged has changed nothing unless its response did not fit, and a
reply `ok` has its event. One lemma per action gives the client's new values and that they are sound; the others keep
theirs. `CallAdvances` orders the phases by the steps that are left: an error of the error log leads to an answer, never
back to the log.

**The composition.** A step of `Upkeep` is a step of `RuntimeNext` with `ready` decided by the schema, or leaves the
calls alone; the properties of calls follow from the refinement, without looking at the composition again.
`RequestsAreServed` is about both: `ServedInv` says that a call in hand over HTTP has a server, since each way the server ends
cuts its calls off, and that one call at most is between its body and its reply. So one is past the gate and alone, or none is and
all are. This and `CallsAdvance` are what the strong fairness of `HttpSteps` builds on. For the
migrations, `OrderInv` says that a run which is at script `m` has all scripts before `m` recorded: `recorded` only
grows, so what a run has read stays true however late it acts. `AppliedInv` adds that a run at statement `i` of a
script has left the effect of the statements before it in the schema, as far as no script removes it again, and that
no other run's statement can take it back. It holds at the start of every workload, on a new database by
having nothing to say, on one that earlier scripts have built by `ScriptsBuildUp`. `RunsAdvance` follows from the order: a
run that goes on to the next script leaves one that is recorded. `IdleInv` bounds the age in the activity file by
the time since the last request plus the part of a second that the file drops, carries that bound over to what the check
has read, and keeps it for a check that is about to stop the server.

**The tools that compute.** A sum over a set is a fold over elements that `CHOOSE` picks, so its laws (`SumIsLinear`,
`SumByGroups`) are proved by induction over finite sets. What transfers move cancels by legs, then by entities; a band
of the whole lies between those of the parts because the sum's ratio does, and rounding is monotone. `BookInv` keeps
with an offered suggestion the book it was made for. For projections, the calendar's months follow each other without
a gap, and so the periods follow each other with nothing between them but the days after a short month (`GapAfter`). By
induction over the periods, the gaps so far lie before the next period, and what has been taken is exactly what was to
be spent on the days outside them. For the payoff, the sort keys of liabilities with distinct ids are in a strict total order, so
each place of the ranking is taken once and by the same liability in whatever order the list came. What is left of the
payoff before a place is the payoff less the debts ranked before it, or zero.

**Only model-checked:** `CallsEnd`, `CallsAreAnswered` and `IdleServersStop`, which are liveness under fairness: `ENABLED` and
the fairness conditions are out of this prover's reach, and what can be said of them step by step is proved
(`CallsGoForward`, `CallsAdvance`, `RequestsAreServed`). `CycleReturns` is a computation on the ten scripts and their
rollbacks, by folds over all their statements, that TLC carries out in full: an assumption that states its outcome would be the
property itself. The theorems without a run are stated in the proof modules about the same definitions.

## 5. What is not modelled

- *MCP proxy:* it holds no state and sends its calls to the HTTP API.
- *Payload hashing:* a pure function of one payload. The models take two payloads of one key as different or equal.
- *Field validation in `schemas/tools.py`:* the models take inputs that pass it, except where it is part of the
  answer: consolidation's rules about transfers, and the response that does not fit.
- *`posture/service.py`'s* selection of liquidity accounts and burn rates; `list_transactions` (rows that never change,
  in the pages modelled); lookups by id.
- *Wording, exit codes, the pid file* (shell lines of the Makefile read it), and process start-up.
- *Foreign keys, column types and trigger bodies* in `Migrations`; the foreign keys and triggers that handlers run into
  are in the models of those handlers.

## 6. What the plan has left

Every component that keeps state is modelled, and every safety property of a passing run but `CycleReturns` is proved.
What could follow:

1. `posture/service.py`: the selection of liquidity accounts and burn rates from the tables, with `Posture` as what it feeds.
2. That `get_account_tree` below a given root answers that account's subtree.
3. The rollback of a single script, which the cycle check never does, as a state machine of its own.
