--------------------------- MODULE TransactionGate ---------------------------
(***************************************************************************)
(* The write path of the ledger: record, approve, reject, close and lock   *)
(* calls of several sessions over one database.  A transaction reaches the *)
(* ledger directly when no gate stops it, or through an approved proposal. *)
(***************************************************************************)
EXTENDS RecordBundle, ApprovalDecisions, AccountingPeriods

\* The calls a client may start.
Call(s) ==
  \/ \E b \in Bundles : ResolveReplay(s, b)
  \/ \E k \in Keys, a \in ApproverIds : ReadForApproval(s, k, a) \/ ReadForRejection(s, k, a)
  \/ \E p \in PeriodKeys, actor \in Actors, status \in {"closed", "locked"} :
       ReadPeriod(s, p, actor, status)

\* A step of a call in flight that the code always takes in the end.
Step(s) == RecordStep(s) \/ DecisionStep(s) \/ PeriodStep(s)

Next == \E s \in Sessions : Call(s) \/ Step(s) \/ Rollback(s)

Safety == Init /\ [][Next]_vars

\* A session that runs is scheduled, and busy_timeout bounds its wait for the write lock.
Spec == Safety /\ \A s \in Sessions : WF_vars(Step(s))

----------------------------------------------------------------------------
(* Invariants that hold under every interleaving. *)

\* UNIQUE (source_system, external_id) and the re-read of every conflict: one row for each key.
OneRowPerKey ==
  \A i, j \in DOMAIN ledger : ledger[i].bundle.key = ledger[j].bundle.key => i = j

\* The ledger's legs cancel as stored, after rounding, not only as sent (ledger/invariants.py).
LedgerBalances ==
  \A i \in DOMAIN ledger : SumOver(LAMBDA p : p.amount, ledger[i].legs) = 0

\* Exactly-once for clients: every transaction id ever answered for a key, by a commit, a replay,
\* a conflict or a stored proposal response, is the id of the key's row.
AnswersNameTheRow ==
  \A told \in answers : told[2] \in DOMAIN ledger /\ ledger[told[2]].bundle.key = told[1]

\* The threshold of the first rule without a velocity limit that matches, or the fallback's.  A
\* velocity rule that matches forces an approval, so only these thresholds let a bundle through.
BaseThreshold(b) ==
  LET settling == {i \in DOMAIN Rules : StaticMatch(b, Rules[i]) /\ ~HasVelocity(Rules[i])}
  IN  IF settling = {} THEN Threshold
      ELSE Rules[CHOOSE i \in settling : \A j \in settling : i <= j].threshold

\* A row got there under its threshold without approval, or with the quorum that its own proposal
\* asked for; races between the two paths of a key open no third way.
EveryRowIsJustified ==
  \A i \in DOMAIN ledger :
    LET b == ledger[i].bundle
    IN  IF ledger[i].direct
          THEN transaction_impact_amount(b.postings) <= BaseThreshold(b)
          ELSE /\ proposals[b.key] # NULL
               /\ proposals[b.key].request = b
               /\ ApprovalCount(b.key) >= proposals[b.key].required

\* A committed proposal has its quorum and the row of its key, even when the row came first.
CommittedHasQuorumAndRow ==
  \A k \in Keys :
    proposals[k] # NULL /\ proposals[k].status = "committed" =>
      /\ ApprovalCount(k) >= proposals[k].required
      /\ proposals[k].tx \in DOMAIN ledger
      /\ ledger[proposals[k].tx].bundle.key = k

\* Approvers who decide at the same time cannot leave a reached quorum uncommitted, since the count
\* is taken inside the write section, after the insert; a rejection or another path of the key that
\* races with them takes the status of the proposal, but the row is there.
NoStrandedQuorum ==
  \A k \in Keys :
    proposals[k] # NULL /\ ApprovalCount(k) >= proposals[k].required =>
      proposals[k].status # "proposed" /\ Committed(k)

\* The conflict handler re-raises only for an unknown account or entity: a UNIQUE conflict always finds the
\* row or the proposal that caused it (ledger/service.py:260-285).
ConflictFindsItsCause ==
  \A s \in Sessions :
    pc[s] = "conflict_proposal" /\ ReferencesExist(arg[s]) => proposals[arg[s].key] # NULL

\* Every row and every decision has its ok event in the event log, the event of the call that
\* asked for it: both commit in one transaction.
EffectsAreLogged ==
  /\ \A i \in DOMAIN ledger : [tool |-> RecordTool, subject |-> ledger[i].bundle] \in events
  /\ \A d \in decisions :
       [tool |-> IF d.action = "approve" THEN ApproveTool ELSE RejectTool,
        subject |-> [key |-> d.key, approver |-> d.approver]] \in events
  /\ \A p \in PeriodKeys : periods[p] # NULL =>
       [tool |-> PeriodTool(periods[p].status),
        subject |-> [period |-> p, actor |-> periods[p].actor, status |-> periods[p].status]]
          \in events

----------------------------------------------------------------------------
(* Action properties. *)

\* The append-only trigger of migration 0002 holds of what the code does: no row changes or goes.
LedgerIsAppendOnly ==
  [][/\ Len(ledger') >= Len(ledger)
     /\ SubSeq(ledger', 1, Len(ledger)) = ledger]_ledger

\* A period is only ever tightened: open, closed, locked.
Tightness(p) == IF p = NULL THEN 0 ELSE IF p.status = "closed" THEN 1 ELSE 2
PeriodsOnlyTighten ==
  [][\A p \in PeriodKeys : Tightness(periods[p]) <= Tightness(periods'[p])]_periods

----------------------------------------------------------------------------
(* Properties that hold of one session, and what the documents say of the rest. *)

\* A decided proposal keeps its decision: "committed proposals cannot be rejected" and "rejected
\* proposals cannot be approved" (approval/service.py:230 and :68).
DecidedStaysDecided ==
  [][\A k \in Keys : proposals[k] # NULL /\ proposals[k].status \in {"committed", "rejected"} =>
       proposals'[k] # NULL /\ proposals'[k].status = proposals[k].status]_proposals

\* The row that a step appends to the ledger.
AppendedRow == ledger'[Len(ledger')]

\* docs/tool-reference.md:332, a locked period blocks writes without the override, whatever their path.
LockedPeriodBlocksWrites ==
  [][ledger' # ledger =>
       LET b == AppendedRow.bundle
           p == periods[PeriodOf(b)]
       IN  p # NULL /\ p.status = "locked" => b.override]_ledger

\* A record call writes directly only to an open period, and proposes for a closed or locked one
\* only with the tag or override that it asks for, through all the steps of the call.
RecordsRespectPeriods ==
  [][/\ ledger' # ledger => (AppendedRow.direct => periods[PeriodOf(AppendedRow.bundle)] = NULL)
     /\ \A k \in Keys : proposals[k] = NULL /\ proposals'[k] # NULL =>
          LET b == proposals'[k].request
              p == periods[PeriodOf(b)]
          IN  p # NULL => IF p.status = "closed" THEN b.adjusting ELSE b.override
    ]_<<ledger, proposals>>

\* current-state.md:213: a direct write duplicates no row before it.
DirectWritesAreNoDuplicates ==
  \A j \in DOMAIN ledger : ledger[j].direct =>
    \A i \in 1..(j - 1) : ~DuplicateOf(ledger[j].bundle, ledger[i])

\* A direct write finds fewer rows than the limit of a velocity rule in the window before it: the
\* rules before the one that settles the threshold all had their say.
VelocityLimitsHold ==
  \A j \in DOMAIN ledger, n \in DOMAIN Rules :
    LET b == ledger[j].bundle
        r == Rules[n]
        before == {i \in 1..(j - 1) :
                     /\ ledger[i].bundle.key[1] = b.key[1]
                     /\ ledger[i].bundle.entity = b.entity
                     /\ ledger[i].bundle.date \in (b.date - r.window)..b.date}
    IN  /\ ledger[j].direct
        /\ StaticMatch(b, r) /\ HasVelocity(r)
        /\ \A m \in 1..(n - 1) : StaticMatch(b, Rules[m]) => HasVelocity(Rules[m])
        => Cardinality(before) < r.limit

----------------------------------------------------------------------------
(* The promise behind the gate: CanonicalLedger, for the keys and ids of the rows. *)

Canonical == INSTANCE CanonicalLedger
  WITH book <- [i \in DOMAIN ledger |-> ledger[i].bundle.key], told <- answers

\* Every record and approve call is a commit of its key, an answer about the key's commit, or nothing
\* that a client could tell, whatever races with it.
ImplementsCanonicalLedger == Canonical!Spec

----------------------------------------------------------------------------
(* Liveness. *)

\* No call runs forever: the conflict handler is entered once and always leaves.
CallsEnd == \A s \in Sessions : pc[s] # "idle" ~> pc[s] = "idle"
=============================================================================
