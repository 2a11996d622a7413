----------------------------- MODULE CapitalDb -----------------------------
(***************************************************************************)
(* The SQLite database that every caller of Capital OS shares, and the     *)
(* calls in flight against it.                                             *)
(*                                                                         *)
(* A caller (an API server process, a CLI run, a thread of a test) opens   *)
(* one connection per call (db/session.py, transaction()).  With Python's  *)
(* default transaction control a SELECT runs on its own and sees the last  *)
(* committed state; the first INSERT or UPDATE opens the transaction and   *)
(* takes the WAL write lock, which is held to the commit.  So a handler is *)
(* a sequence of separate reads, one action each, followed by one atomic   *)
(* write section.  Any exception, a busy timeout or a crash rolls the      *)
(* write section back.                                                     *)
(*                                                                         *)
(* A call's log_event is part of its write section; a call that writes     *)
(* nothing else still commits its event, and that commit is folded into    *)
(* the read it reports, whose value can no longer change the answer.       *)
(***************************************************************************)
EXTENDS Integers, Sequences, FiniteSets, Money

CONSTANTS
  Sessions,     \* connections that may run a call
  Bundles,      \* the bundles clients may send, records of BundleFields
  Accounts,     \* rows of the accounts table
  Entities,     \* rows of the entities table
  Approvers,    \* approver ids
  Actors,       \* actor ids of the period tools
  Rules,        \* active policy_rules, in (priority, rule_id) order
  Threshold,    \* CAPITAL_OS_APPROVAL_THRESHOLD_USD, in quanta
  MonthLength,  \* days of an accounting period
  NULL          \* the SQL NULL, for an absent row or an absent column value

VARIABLES
  ledger,     \* ledger_transactions with their postings; the id is the index
  proposals,  \* approval_proposals of record_transaction_bundle, by key
  decisions,  \* approval_decisions
  periods,    \* accounting_periods, by period key and entity
  events,     \* event_log rows with status ok, by tool and call
  answers,    \* the (key, transaction id) pairs that clients were told
  pc,         \* where each session's call is; "idle" between calls
  arg,        \* the call's payload
  seen        \* what the call has read and carries to its later steps

db == <<ledger, proposals, decisions, periods, events, answers>>
vars == <<ledger, proposals, decisions, periods, events, answers, pc, arg, seen>>

BundleFields == {"key", "entity", "date", "category", "risk", "adjusting", "override", "postings"}
RuleFields == {"tool", "entity", "category", "risk", "limit", "window", "threshold", "required"}

RecordTool == "record_transaction_bundle"
ApproveTool == "approve_proposed_transaction"
RejectTool == "reject_proposed_transaction"
CloseTool == "close_period"
LockTool == "lock_period"

----------------------------------------------------------------------------
\* (source_system, external_id) pairs, and the periods the bundles fall into.
Keys == {b.key : b \in Bundles}

\* _period_key_for_tx_date: the month of the date, per entity.
PeriodOf(b) == <<b.date \div MonthLength, b.entity>>
PeriodKeys == {PeriodOf(b) : b \in Bundles}

ASSUME BundlesAssumption ==
  \A b \in Bundles : /\ DOMAIN b = BundleFields
                     /\ b.date \in Nat
                     /\ b.adjusting \in BOOLEAN /\ b.override \in BOOLEAN
                     /\ Len(b.postings) \in Nat /\ DOMAIN b.postings = 1..Len(b.postings)
                     /\ \A i \in DOMAIN b.postings : b.postings[i].amount \in Int
ASSUME RulesAssumption ==
  /\ Len(Rules) \in Nat /\ DOMAIN Rules = 1..Len(Rules)
  /\ \A i \in DOMAIN Rules :
       /\ DOMAIN Rules[i] = RuleFields
       /\ Rules[i].required \in Nat \ {0} /\ Rules[i].threshold \in Int
       /\ (Rules[i].limit = NULL) = (Rules[i].window = NULL)
       /\ Rules[i].limit # NULL => Rules[i].limit \in Nat \ {0} /\ Rules[i].window \in Nat \ {0}
ASSUME ApproversAssumption == IsFiniteSet(Approvers) /\ NULL \notin Approvers
ASSUME PeriodsAssumption == Threshold \in Nat /\ MonthLength \in Nat \ {0}

----------------------------------------------------------------------------
ApproverIds == Approvers \union {NULL}

\* ledger_postings hold the normalized amounts.
StoredPostings(b) ==
  [i \in DOMAIN b.postings |->
     [account |-> b.postings[i].account, amount |-> normalize_amount(b.postings[i].amount)]]

Row == {[bundle |-> b, direct |-> d, legs |-> StoredPostings(b)] : b \in Bundles, d \in BOOLEAN}
Proposal == [request: Bundles, status: {"proposed", "rejected", "committed"},
             required: Nat \ {0}, tx: Nat]
Decision == [key: Keys, action: {"approve", "reject"}, approver: ApproverIds]
Period == [status: {"closed", "locked"}, actor: Actors]

ASSUME NullAssumption == NULL \notin Proposal \union Period

DecisionCall == [key: Keys, approver: ApproverIds]
PeriodCall == [period: PeriodKeys, actor: Actors, status: {"closed", "locked"}]

Event == [tool: {RecordTool}, subject: Bundles]
           \union [tool: {ApproveTool, RejectTool}, subject: DecisionCall]
           \union [tool: {CloseTool, LockTool}, subject: PeriodCall]

RecordSteps == {"period", "policy", "all_time_velocity", "duplicates", "fetch_proposal",
                "insert_proposal", "insert_ledger", "conflict_replay", "conflict_proposal"}
DecisionSteps == {"approver_decision", "approve", "reject"}
PeriodSteps == {"insert_period", "update_period"}

\* force, gated and required are what a record call has read of periods and policies; rule is the
\* next rule to evaluate.  Between calls a session holds nothing.
Seen == [force: BOOLEAN, rule: Nat \ {0}, gated: BOOLEAN, required: Nat \ {0}]
Nothing == [force |-> FALSE, rule |-> 1, gated |-> FALSE, required |-> 1]

----------------------------------------------------------------------------
RowsOf(k) == {i \in DOMAIN ledger : ledger[i].bundle.key = k}
Committed(k) == RowsOf(k) # {}
TxOf(k) == CHOOSE i \in RowsOf(k) : TRUE

\* The foreign keys of a row and its postings.
ReferencesExist(b) ==
  b.entity \in Entities /\ \A i \in DOMAIN b.postings : b.postings[i].account \in Accounts

\* Bug form: an insert that no UNIQUE (source_system, external_id) guards.
KeyFree_NoUniqueIndex(b) == TRUE
KeyFree(b) == ~Committed(b.key)

\* insert_transaction_bundle and save_transaction_response, when no constraint fails.
InsertRow(b, direct) ==
  ledger' = Append(ledger, [bundle |-> b, direct |-> direct, legs |-> StoredPostings(b)])

ApproversOf(k) ==
  {d.approver : d \in {e \in decisions : e.key = k /\ e.action = "approve"}}

Logged(tool, subject) == events \union {[tool |-> tool, subject |-> subject]}

----------------------------------------------------------------------------
\* Session s moves on inside its call.
Goto(s, step) == pc' = [pc EXCEPT ![s] = step]

\* Session s begins a call with payload x and goes to its first step.
Begin(s, x, step) ==
  /\ Goto(s, step)
  /\ arg' = [arg EXCEPT ![s] = x]
  /\ seen' = [seen EXCEPT ![s] = Nothing]

\* Session s ends its call: answer returned, or error raised.
End(s) ==
  /\ Goto(s, "idle")
  /\ arg' = [arg EXCEPT ![s] = NULL]
  /\ seen' = [seen EXCEPT ![s] = Nothing]

\* The call's only write is its event.
OnlyLog(tool, subject) ==
  /\ events' = Logged(tool, subject)
  /\ UNCHANGED <<ledger, proposals, decisions, periods>>

\* transaction() rolls back and re-raises: busy timeout, full disk, failed log_event, or a crash.
Rollback(s) ==
  /\ pc[s] # "idle"
  /\ End(s)
  /\ UNCHANGED db

Init ==
  /\ ledger = <<>>
  /\ proposals = [k \in Keys |-> NULL]
  /\ decisions = {}
  /\ periods = [p \in PeriodKeys |-> NULL]
  /\ events = {}
  /\ answers = {}
  /\ pc = [s \in Sessions |-> "idle"]
  /\ arg = [s \in Sessions |-> NULL]
  /\ seen = [s \in Sessions |-> Nothing]

DbTypeOK ==
  /\ ledger \in Seq(Row)
  /\ proposals \in [Keys -> Proposal \union {NULL}]
  /\ decisions \subseteq Decision
  /\ periods \in [PeriodKeys -> Period \union {NULL}]
  /\ events \subseteq Event
  /\ answers \subseteq Keys \X Nat

CallsTypeOK ==
  /\ pc \in [Sessions -> {"idle"} \union RecordSteps \union DecisionSteps \union PeriodSteps]
  /\ arg \in [Sessions -> Bundles \union DecisionCall \union PeriodCall \union {NULL}]
  /\ seen \in [Sessions -> Seen]
  /\ \A s \in Sessions :
       /\ pc[s] \in RecordSteps => arg[s] \in Bundles
       /\ pc[s] \in DecisionSteps => arg[s] \in DecisionCall
       /\ pc[s] \in PeriodSteps => arg[s] \in PeriodCall

\* Every table row and every call in flight has its fields, those of the call that is running.
TypeOK == DbTypeOK /\ CallsTypeOK
=============================================================================
