---------------------------- MODULE RegistryDb ----------------------------
(***************************************************************************)
(* The tables beside the ledger: accounts and their identifier history,    *)
(* obligations, balance snapshots, and the config changes under approval,  *)
(* with the calls in flight against them.                                  *)
(*                                                                         *)
(* Connections behave as in CapitalDb: a SELECT runs on its own, the first *)
(* write takes the lock to the commit.  So a call is a sequence of reads,  *)
(* one step each, and one atomic write section that log_event is part of.  *)
(* A call that its first read refuses changes nothing and has no step.     *)
(***************************************************************************)
EXTENDS Integers, Sequences, FiniteSets

CONSTANTS
  Sessions,    \* connections that may run a call
  Workloads,   \* the initial accounts and the calls that clients issue, one of them per behaviour
  AccountIds,  \* account ids, those given in files and those create_account draws
  Uuids,       \* the account ids that create_account may draw: its bound
  MetaKeys,    \* the keys of account metadata that calls tell apart
  Entities,    \* rows of the entities table
  ChangeIds,   \* proposal ids of config changes, in uuid order
  Texts,       \* the names, JSON values and transaction ids that calls carry
  PageLimit,   \* limit of the listing tools
  NULL         \* the SQL NULL, for an absent row or an absent column value

VARIABLES
  accounts,     \* accounts, by id
  history,      \* account_identifier_history, in the order of insertion
  profiles,     \* stored responses of update_account_profile, by (source_system, external_id)
  obligations,  \* obligations, by (source_system, name, account_id)
  snapshots,    \* balance_snapshots, by (account_id, snapshot_date)
  changes,      \* approval_proposals of propose_config_change, by (source_system, external_id)
  verdicts,     \* approval_decisions on config changes
  events,       \* event_log rows with status ok, by call
  told,         \* calls with the answers that clients were told
  work,         \* the workload of this behaviour
  pc, arg, seen \* where each session's call is, its payload, and what it has read

tables == <<accounts, history, profiles, obligations, snapshots, changes, verdicts, events, told>>
vars == <<accounts, history, profiles, obligations, snapshots, changes, verdicts, events, told,
          work, pc, arg, seen>>

ASSUME RegistryAssumption ==
  /\ Uuids \subseteq AccountIds /\ AccountIds \subseteq Int /\ IsFiniteSet(AccountIds)
  /\ "institution_suffix" \in MetaKeys /\ "true" \in Texts
  /\ ChangeIds \subseteq Nat /\ PageLimit \in Nat \ {0}

CallsOf(tool) == {c \in UNION {w.calls : w \in Workloads} : c.tool = tool}

\* The unique keys of the tables; a second call with the same key meets the first one's row.
ProfileKeys == {c.key : c \in CallsOf("update_account_profile")}
ObligationKeys == {c.key : c \in CallsOf("create_or_update_obligation")}
SnapshotKeys == {c.key : c \in CallsOf("record_balance_snapshot")}
ChangeKeys == {c.key : c \in CallsOf("propose_config_change")}

\* The rows of the tables.
OptionalText == Texts \union {NULL}
OptionalId == AccountIds \union {NULL}
StoredAccount == [code: Int, name: Texts, parent: OptionalId, meta: [MetaKeys -> OptionalText]]
StoredResponse == [account: AccountIds, name: Texts, suffix: OptionalText]
StoredObligation == [id: Nat, due: Int, active: BOOLEAN, by: OptionalText]
StoredSnapshot == [id: Nat, balance: Int]
StoredChange == [id: ChangeIds, status: {"proposed", "committed", "rejected"}, created: Nat]

\* An absent row is like no row, no number and no place in a listing.
ASSUME NullAssumption ==
  /\ NULL \notin Int \union (Int \X Int)
  /\ NULL \notin StoredAccount /\ NULL \notin StoredResponse
  /\ NULL \notin StoredObligation \union StoredSnapshot \union StoredChange

\* What the request schemas and the importer's validation let through.  A decision or a fulfilment
\* names a row by the id it was given: no other id gets past the first read.
PatchFits(patch) == DOMAIN patch \subseteq MetaKeys /\ \A k \in DOMAIN patch : patch[k] \in OptionalText
FileFits(file) ==
  /\ file.accounts \in Seq({file.accounts[i] : i \in DOMAIN file.accounts})
  /\ file.currency \in OptionalText
  /\ \A i \in DOMAIN file.accounts :
       LET acc == file.accounts[i] IN
       /\ acc.id \in AccountIds /\ acc.name \in Texts /\ acc.parent \in OptionalId
       /\ {acc.active, acc.description, acc.currency} \subseteq OptionalText
       /\ \A k \in DOMAIN acc.metadata : acc.metadata[k] \in OptionalText
CallFits(c) ==
  CASE c.tool = "create_account" ->
         /\ c.code \in Int /\ c.name \in Texts /\ c.parent \in OptionalId
         /\ c.meta \in [MetaKeys -> OptionalText]
    [] c.tool = "update_account_metadata" -> c.account \in AccountIds /\ PatchFits(c.patch)
    [] c.tool = "update_account_profile" ->
         c.account \in AccountIds /\ c.name \in OptionalText /\ c.key = <<c.key[1], c.key[2]>> /\ PatchFits(c.patch)
    [] c.tool = "import_coa" -> FileFits(c.file)
    [] c.tool = "create_or_update_obligation" -> c.account \in AccountIds /\ c.due \in Int /\ c.active \in BOOLEAN
    [] c.tool = "fulfill_obligation" -> c.key \in ObligationKeys /\ c.by \in OptionalText
    [] c.tool = "record_balance_snapshot" -> c.key[1] \in AccountIds /\ c.balance \in Int
    [] c.tool \in {"approve_config_change", "reject_proposed_transaction"} -> c.key \in ChangeKeys
    [] OTHER -> TRUE

ASSUME WorkloadsAssumption ==
  \A w \in Workloads :
    w.accounts \in [AccountIds -> StoredAccount \union {NULL}] /\ \A c \in w.calls : CallFits(c)

----------------------------------------------------------------------------
\* The parent_account_id column, and the accounts met on the way up from a, a included.
ParentOf(table) == [a \in AccountIds |-> IF table[a] = NULL THEN NULL ELSE table[a].parent]
Chain(parent, a) ==
  LET up[n \in 0..Cardinality(AccountIds)] ==
        IF n = 0 THEN {a}
        ELSE LET met == up[n - 1] IN met \union ({parent[x] : x \in met} \ {NULL})
  IN  up[Cardinality(AccountIds)]

\* The accounts that calls find have been through the same foreign key and trigger.
ASSUME ForestAssumption ==
  \A w \in Workloads : \A a \in AccountIds :
    LET parent == ParentOf(w.accounts) IN
    parent[a] # NULL => w.accounts[parent[a]] # NULL /\ a \notin Chain(parent, parent[a])

\* A foreign key to accounts is refused when the row is missing.
AccountExists(a) == accounts[a] # NULL

\* uuid4: one fresh id is like another.
FreshId == CHOOSE a \in Uuids : accounts[a] = NULL
UuidLeft == \E a \in Uuids : accounts[a] = NULL

----------------------------------------------------------------------------
\* Session s starts a call of a tool; a read moves it on with what it has seen, and a commit ends
\* it with its event and, for some tools, the answer.
Starts(s, tool, c) == pc[s] = "idle" /\ c \in work.calls /\ c.tool = tool
At(s, step) == pc[s] = step
Reads(s, c, step, value) ==
  /\ pc' = [pc EXCEPT ![s] = step]
  /\ arg' = [arg EXCEPT ![s] = c]
  /\ seen' = [seen EXCEPT ![s] = value]
  /\ UNCHANGED <<tables, work>>
Ends(s) ==
  /\ pc' = [pc EXCEPT ![s] = "idle"]
  /\ arg' = [arg EXCEPT ![s] = NULL]
  /\ seen' = [seen EXCEPT ![s] = NULL]
  /\ UNCHANGED work
\* Bug form: a tool's event replaces its last one.
Logs_OnePerTool(c) == events' = {e \in events : e.tool # c.tool} \union {c}
Logs(c) == events' = events \union {c}
Tells(c, answer) == told' = told \union {[call |-> c, answer |-> answer]}
Keeps == told' = told

\* An exception rolls the write section back, and so does a crash or a busy timeout at any step.
Fails(s) == Ends(s) /\ UNCHANGED tables
Rollback(s) == pc[s] # "idle" /\ Fails(s)

Init ==
  /\ work \in Workloads
  /\ accounts = work.accounts
  /\ history = <<>>
  /\ profiles = [k \in ProfileKeys |-> NULL]
  /\ obligations = [k \in ObligationKeys |-> NULL]
  /\ snapshots = [k \in SnapshotKeys |-> NULL]
  /\ changes = [k \in ChangeKeys |-> NULL]
  /\ verdicts = {} /\ events = {} /\ told = {}
  /\ pc = [s \in Sessions |-> "idle"]
  /\ arg = [s \in Sessions |-> NULL]
  /\ seen = [s \in Sessions |-> NULL]
=============================================================================
