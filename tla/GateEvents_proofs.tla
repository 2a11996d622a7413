-------------------------- MODULE GateEvents_proofs --------------------------
(***************************************************************************)
(* Proofs about what the write path leaves behind: events, periods, and    *)
(* the cause of every conflict.                                            *)
(*                                                                         *)
(* EInv says that what is in the tables is in the event log, a proposal's  *)
(* request included, since an approved row has no record event of its own; *)
(* that a call about to update a period asks for its lock; and that the    *)
(* conflict handler still finds what raised the conflict.                  *)
(*                                                                         *)
(* SInv is the invariant of calls that do not overlap, one session for all *)
(* of them: what a call has read of periods, rules, rows and its proposal  *)
(* is still so when it writes.  Two sessions break each part of it.        *)
(***************************************************************************)
EXTENDS GateDecisions_proofs

----------------------------------------------------------------------------
(* The inductive invariant. *)

BundleLogged(b) == [tool |-> RecordTool, subject |-> b] \in events

DecisionLogged(d) ==
  [tool |-> IF d.action = "approve" THEN ApproveTool ELSE RejectTool,
   subject |-> [key |-> d.key, approver |-> d.approver]] \in events

PeriodLogged(p) ==
  [tool |-> PeriodTool(periods[p].status),
   subject |-> [period |-> p, actor |-> periods[p].actor, status |-> periods[p].status]] \in events

TablesAreLogged ==
  /\ \A i \in DOMAIN ledger : BundleLogged(ledger[i].bundle)
  /\ \A k \in Keys : proposals[k] # NULL => BundleLogged(proposals[k].request)
  /\ \A d \in decisions : DecisionLogged(d)
  /\ \A p \in PeriodKeys : periods[p] # NULL => PeriodLogged(p)

\* What is still true of the tables when a call stands at a step that depends on it.
CallIsPlaced(s) ==
  /\ pc[s] = "update_period" => periods[arg[s].period] # NULL /\ arg[s].status = "locked"
  /\ pc[s] = "conflict_replay" /\ ReferencesExist(arg[s]) =>
       Committed(arg[s].key) \/ proposals[arg[s].key] # NULL
  /\ pc[s] = "conflict_proposal" /\ ReferencesExist(arg[s]) => proposals[arg[s].key] # NULL
CallsArePlaced == \A s \in Sessions : CallIsPlaced(s)

EInv == TablesAreLogged /\ CallsArePlaced

----------------------------------------------------------------------------
(* What a step can do to the tables and the log. *)

RowsEffect ==
  \/ UNCHANGED ledger
  \/ \E b \in Bundles, d \in BOOLEAN : InsertRow(b, d) /\ BundleLogged(b)'

RequestsEffect ==
  \A k \in Keys : proposals'[k] # NULL =>
    \/ proposals[k] # NULL /\ proposals'[k].request = proposals[k].request
    \/ BundleLogged(proposals[k].request)'

DecisionsEffect == \A d \in decisions' : d \in decisions \/ DecisionLogged(d)'

\* A row of periods is written with its event, over no row or as locked.
PeriodsEffect ==
  \A p \in PeriodKeys :
    \/ periods'[p] = periods[p]
    \/ /\ periods'[p] # NULL /\ PeriodLogged(p)'
       /\ periods[p] = NULL \/ periods'[p].status = "locked"

LogEffect ==
  /\ events \subseteq events'
  /\ RowsEffect /\ RequestsEffect /\ DecisionsEffect /\ PeriodsEffect

LEMMA NothingToLog ==
  ASSUME events \subseteq events', UNCHANGED <<ledger, proposals, decisions, periods>>
  PROVE  LogEffect
BY DEF LogEffect, RowsEffect, RequestsEffect, DecisionsEffect, PeriodsEffect

LEMMA OnlyLogged ==
  ASSUME NEW tool, NEW subject, OnlyLog(tool, subject)
  PROVE  LogEffect
BY NothingToLog DEF OnlyLog, Logged

\* What a step can do to the calls: none moves, or s does and stands where it may.
CallEffect(s) ==
  \/ UNCHANGED <<pc, arg>>
  \/ /\ CallIsPlaced(s)'
     /\ \A o \in Sessions \ {s} : pc'[o] = pc[o] /\ arg'[o] = arg[o]

StepIsLogged == LogEffect /\ (UNCHANGED <<pc, arg>> \/ \E s \in Sessions : CallEffect(s))

LEMMA EndPlaced ==
  ASSUME IInv, NEW s \in Sessions, End(s)
  PROVE  CallEffect(s)
BY DEF End, Goto, IInv, TypeOK, CallsTypeOK, CallEffect, CallIsPlaced

LEMMA BeginPlaced ==
  ASSUME IInv, NEW s \in Sessions, NEW x, NEW step, Begin(s, x, step),
         step \notin {"update_period", "conflict_replay", "conflict_proposal"}
  PROVE  CallEffect(s)
BY DEF Begin, Goto, IInv, TypeOK, CallsTypeOK, CallEffect, CallIsPlaced

LEMMA GotoPlaced ==
  ASSUME IInv, NEW s \in Sessions, NEW step, Goto(s, step), UNCHANGED arg,
         step \notin {"update_period", "conflict_replay", "conflict_proposal"}
  PROVE  CallEffect(s)
BY DEF Goto, IInv, TypeOK, CallsTypeOK, CallEffect, CallIsPlaced

----------------------------------------------------------------------------
(* record_transaction_bundle. *)

LEMMA ResolveReplayLogged ==
  ASSUME IInv, NEW s \in Sessions, NEW b \in Bundles, ResolveReplay(s, b)
  PROVE  StepIsLogged
<1>1. CASE Committed(b.key)
  BY <1>1, OnlyLogged DEF ResolveReplay, CallEffect, StepIsLogged
<1>2. CASE ~Committed(b.key)
  BY <1>2, NothingToLog, BeginPlaced DEF ResolveReplay, db, StepIsLogged
<1> QED BY <1>1, <1>2

LEMMA ReadStepsLogged ==
  ASSUME IInv, NEW s \in Sessions,
         EnforcePeriod(s) \/ EvaluateRule(s) \/ AllTimeVelocity(s) \/ FindDuplicates(s)
  PROVE  StepIsLogged
<1>1. LogEffect
  BY NothingToLog DEF EnforcePeriod, EvaluateRule, AllTimeVelocity, FindDuplicates, db
<1>2. CASE EnforcePeriod(s)
  BY <1>1, <1>2, EndPlaced, GotoPlaced DEF EnforcePeriod, StepIsLogged
<1>3. CASE EvaluateRule(s)
  BY <1>1, <1>3, GotoPlaced DEF EvaluateRule, Decide, CountReaches, StepIsLogged
<1>4. CASE AllTimeVelocity(s)
  BY <1>1, <1>4, GotoPlaced DEF AllTimeVelocity, Decide, CountReaches, StepIsLogged
<1>5. CASE FindDuplicates(s)
  BY <1>1, <1>5, GotoPlaced DEF FindDuplicates, StepIsLogged
<1> QED BY <1>2, <1>3, <1>4, <1>5

LEMMA FetchProposalLogged ==
  ASSUME IInv, NEW s \in Sessions, FetchProposal(s)
  PROVE  StepIsLogged
<1>1. CASE proposals[arg[s].key] # NULL
  BY <1>1, EndPlaced, OnlyLogged DEF FetchProposal, StepIsLogged
<1>2. CASE proposals[arg[s].key] = NULL
  BY <1>2, GotoPlaced, NothingToLog DEF FetchProposal, StepIsLogged
<1> QED BY <1>1, <1>2

LEMMA InsertProposalLogged ==
  ASSUME IInv, NEW s \in Sessions, InsertProposal(s)
  PROVE  StepIsLogged
<1>1. arg[s] \in Bundles /\ arg[s].key \in Keys
  BY BundleOfCall DEF InsertProposal, RecordSteps
<1>2. PICK b \in Bundles, key \in Keys : b = arg[s] /\ key = b.key
  BY <1>1
<1> DEFINE new == [request |-> b, status |-> "proposed", required |-> seen[s].required, tx |-> 0]
<1>3. /\ proposals' = [proposals EXCEPT ![key] = new]
      /\ events' = events \union {[tool |-> RecordTool, subject |-> b]}
      /\ End(s)
      /\ UNCHANGED <<ledger, decisions, periods>>
  BY <1>2 DEF InsertProposal, Logged
<1>4. /\ proposals'[key].request = b
      /\ \A k \in Keys \ {key} : proposals'[k] = proposals[k]
  BY <1>3 DEF IInv, TypeOK, DbTypeOK
<1> HIDE DEF new
<1>5. BundleLogged(proposals[key].request)'
  BY <1>3, <1>4 DEF BundleLogged
<1>6. RequestsEffect
  BY <1>4, <1>5 DEF RequestsEffect
<1>7. LogEffect
  BY <1>3, <1>6 DEF LogEffect, RowsEffect, DecisionsEffect, PeriodsEffect
<1> QED BY <1>3, <1>7, EndPlaced DEF StepIsLogged

LEMMA InsertLedgerLogged ==
  ASSUME IInv, NEW s \in Sessions, InsertLedger(s)
  PROVE  StepIsLogged
<1>1. arg[s] \in Bundles
  BY BundleOfCall DEF InsertLedger, RecordSteps
<1>2. PICK b \in Bundles : b = arg[s]
  BY <1>1
<1>3. /\ InsertRow(b, TRUE) /\ End(s)
      /\ events' = events \union {[tool |-> RecordTool, subject |-> b]}
      /\ UNCHANGED <<proposals, decisions, periods>>
  BY <1>2 DEF InsertLedger, Logged
<1>4. RowsEffect
  BY <1>3 DEF RowsEffect, BundleLogged
<1>5. LogEffect
  BY <1>3, <1>4 DEF LogEffect, RequestsEffect, DecisionsEffect, PeriodsEffect
<1> QED BY <1>3, <1>5, EndPlaced DEF StepIsLogged

\* The constraint that failed tells what the handler will find.
LEMMA IntegrityErrorLogged ==
  ASSUME IInv, NEW s \in Sessions, IntegrityError(s)
  PROVE  StepIsLogged
<1>1. LogEffect
  BY NothingToLog DEF IntegrityError
<1>2. /\ pc'[s] = "conflict_replay" /\ arg' = arg
      /\ \A o \in Sessions \ {s} : pc'[o] = pc[o]
  BY DEF IntegrityError, IntegrityErrorRecovery, Goto, IInv, TypeOK, CallsTypeOK
<1>3. UNCHANGED <<ledger, proposals>>
  BY DEF IntegrityError
<1>4. ReferencesExist(arg[s]) => Committed(arg[s].key) \/ proposals[arg[s].key] # NULL
  BY DEF IntegrityError, ReferencesExist, KeyFree
<1>5. CallIsPlaced(s)'
  BY <1>2, <1>3, <1>4 DEF CallIsPlaced, ReferencesExist, Committed, RowsOf
<1> QED BY <1>1, <1>2, <1>5 DEF CallEffect, StepIsLogged

LEMMA ConflictReplayLogged ==
  ASSUME IInv, EInv, NEW s \in Sessions, ConflictReplay(s)
  PROVE  StepIsLogged
<1>1. CASE Committed(arg[s].key)
  BY <1>1, EndPlaced, OnlyLogged DEF ConflictReplay, StepIsLogged
<1>2. CASE ~Committed(arg[s].key)
  <2>1. LogEffect
    BY <1>2, NothingToLog DEF ConflictReplay
  <2>2. /\ pc'[s] = "conflict_proposal" /\ arg' = arg /\ proposals' = proposals
        /\ \A o \in Sessions \ {s} : pc'[o] = pc[o]
    BY <1>2 DEF ConflictReplay, Goto, IInv, TypeOK, CallsTypeOK
  <2>3. ReferencesExist(arg[s]) => proposals[arg[s].key] # NULL
    BY <1>2 DEF ConflictReplay, EInv, CallsArePlaced, CallIsPlaced
  <2>4. CallIsPlaced(s)'
    BY <2>2, <2>3 DEF CallIsPlaced, ReferencesExist
  <2> QED BY <2>1, <2>2, <2>4 DEF CallEffect, StepIsLogged
<1> QED BY <1>1, <1>2

LEMMA ConflictProposalLogged ==
  ASSUME IInv, NEW s \in Sessions, ConflictProposal(s)
  PROVE  StepIsLogged
BY EndPlaced, OnlyLogged, NothingToLog DEF ConflictProposal, db, StepIsLogged

LEMMA RecordStepLogged ==
  ASSUME IInv, EInv, NEW s \in Sessions, RecordStep(s)
  PROVE  StepIsLogged
BY ReadStepsLogged, FetchProposalLogged, InsertProposalLogged, InsertLedgerLogged,
   IntegrityErrorLogged, ConflictReplayLogged, ConflictProposalLogged DEF RecordStep

----------------------------------------------------------------------------
(* approve_proposed_transaction and reject_proposed_transaction. *)

LEMMA RollbackLogged ==
  ASSUME IInv, NEW s \in Sessions, Rollback(s)
  PROVE  StepIsLogged
BY EndPlaced, NothingToLog DEF Rollback, db, StepIsLogged

LEMMA DecisionReadsLogged ==
  ASSUME IInv, NEW s \in Sessions,
         \/ \E k, a : ReadForApproval(s, k, a) \/ ReadForRejection(s, k, a)
         \/ CheckApproverDecision(s)
  PROVE  StepIsLogged
<1>1. ASSUME NEW k, NEW a, ReadForApproval(s, k, a) PROVE StepIsLogged
  BY <1>1, BeginPlaced, OnlyLogged, NothingToLog DEF ReadForApproval, db, CallEffect, StepIsLogged
<1>2. ASSUME NEW k, NEW a, ReadForRejection(s, k, a) PROVE StepIsLogged
  BY <1>2, BeginPlaced, OnlyLogged, NothingToLog DEF ReadForRejection, db, CallEffect, StepIsLogged
<1>3. ASSUME CheckApproverDecision(s) PROVE StepIsLogged
  BY <1>3, EndPlaced, GotoPlaced, OnlyLogged, NothingToLog DEF CheckApproverDecision, StepIsLogged
<1> QED BY <1>1, <1>2, <1>3

\* A decision commits with its event; a row that it writes is a request that was logged before.
LEMMA DecisionLoggedWith ==
  ASSUME IInv, EInv, NEW s \in Sessions, pc[s] \in DecisionSteps, NEW k \in Keys, k = arg[s].key,
         NEW action \in {"approve", "reject"},
         Decided(s, IF action = "approve" THEN ApproveTool ELSE RejectTool,
                 [key |-> k, action |-> action, approver |-> arg[s].approver]),
         NEW status \in {"proposed", "rejected", "committed"}, NEW tx \in Nat, Persist(k, status, tx),
         UNCHANGED ledger \/ InsertRow(proposals[k].request, FALSE)
  PROVE  StepIsLogged
<1> DEFINE d == [key |-> k, action |-> action, approver |-> arg[s].approver]
<1>1. arg[s] \in DecisionCall /\ proposals[k] # NULL
  BY ProposalOfCall
<1>2. arg[s] = [key |-> k, approver |-> arg[s].approver]
  BY <1>1 DEF DecisionCall
<1>3. /\ decisions' = decisions \union {d} /\ UNCHANGED periods /\ End(s)
      /\ events' = events \union {[tool |-> IF action = "approve" THEN ApproveTool ELSE RejectTool,
                                  subject |-> arg[s]]}
  BY DEF Decided, Logged
<1>4. DecisionsEffect
  BY <1>2, <1>3 DEF DecisionsEffect, DecisionLogged
<1>5. RequestsEffect
  BY <1>1, Stamped DEF RequestsEffect
<1>6. RowsEffect
  <2>1. PICK b \in Bundles : b = proposals[k].request
    BY <1>1 DEF IInv, ProposalsAreSound, ProposalIsSound, Proposal
  <2>2. BundleLogged(b)
    BY <1>1, <2>1 DEF EInv, TablesAreLogged
  <2>3. BundleLogged(b)'
    BY <1>3, <2>2 DEF BundleLogged
  <2> QED BY <2>1, <2>3 DEF RowsEffect
<1>7. LogEffect
  BY <1>3, <1>4, <1>5, <1>6 DEF LogEffect, PeriodsEffect
<1> QED BY <1>3, <1>7, EndPlaced DEF StepIsLogged

LEMMA DecisionStepLogged ==
  ASSUME IInv, EInv, NEW s \in Sessions, DecisionStep(s)
  PROVE  StepIsLogged
<1> USE DEF Approval, Rejection
<1>1. CASE ApproveBelowQuorum(s)
  BY <1>1, ProposalOfCall, DecisionLoggedWith DEF ApproveBelowQuorum, DecisionSteps
<1>2. CASE ApproveAndCommit(s)
  <2>1. Len(ledger) + 1 \in Nat
    BY LenProperties DEF IInv, TypeOK, DbTypeOK
  <2> QED BY <1>2, <2>1, ProposalOfCall, DecisionLoggedWith DEF ApproveAndCommit, DecisionSteps
<1>3. CASE ApproveAndAdopt(s)
  <2>1. pc[s] \in DecisionSteps /\ proposals[arg[s].key].request.key = arg[s].key
    BY <1>3, ProposalOfCall DEF ApproveAndAdopt, DecisionSteps, ProposalIsSound
  <2>2. AdoptedTx(arg[s].key) \in Nat
    BY <1>3, <2>1, TxOfNames, LenProperties
       DEF ApproveAndAdopt, KeyFree, Names, AdoptedTx, IInv, TypeOK, DbTypeOK
  <2> QED BY <1>3, <2>1, <2>2, ProposalOfCall, DecisionLoggedWith DEF ApproveAndAdopt
<1>4. CASE Reject(s)
  BY <1>4, ProposalOfCall, DecisionLoggedWith DEF Reject, DecisionSteps
<1> QED BY <1>1, <1>2, <1>3, <1>4, DecisionReadsLogged, RollbackLogged
        DEF DecisionStep, ApproveFails, RejectFails

----------------------------------------------------------------------------
(* close_period and lock_period. *)

LEMMA ReadPeriodLogged ==
  ASSUME IInv, NEW s \in Sessions, NEW p \in PeriodKeys, NEW actor \in Actors,
         NEW status \in {"closed", "locked"}, ReadPeriod(s, p, actor, status)
  PROVE  StepIsLogged
<1> DEFINE call == [period |-> p, actor |-> actor, status |-> status]
<1>1. CASE OnlyLog(PeriodTool(status), call) /\ UNCHANGED <<answers, pc, arg, seen>>
  BY <1>1, OnlyLogged DEF CallEffect, StepIsLogged
<1>2. CASE Begin(s, call, "insert_period") /\ UNCHANGED db
  BY <1>2, NothingToLog, BeginPlaced DEF db, StepIsLogged
<1>3. CASE /\ periods[p] # NULL /\ ~AlreadyThere(p, status)
           /\ Begin(s, call, "update_period") /\ UNCHANGED db
  <2>1. periods[p].status \in {"closed", "locked"}
    BY <1>3 DEF IInv, TypeOK, DbTypeOK, Period
  <2>2. status = "locked"
    BY <1>3, <2>1 DEF AlreadyThere
  <2>3. call.period = p /\ call.status = status
    OBVIOUS
  <2> HIDE DEF call
  <2>4. pc'[s] = "update_period" /\ arg'[s] = call
    BY <1>3 DEF Begin, Goto, IInv, TypeOK, CallsTypeOK
  <2>5. \A o \in Sessions \ {s} : pc'[o] = pc[o] /\ arg'[o] = arg[o]
    BY <1>3 DEF Begin, Goto, IInv, TypeOK, CallsTypeOK
  <2>6. CallIsPlaced(s)'
    BY <1>3, <2>2, <2>3, <2>4 DEF CallIsPlaced, db
  <2> QED BY <1>3, <2>5, <2>6, NothingToLog DEF db, CallEffect, StepIsLogged
<1> QED BY <1>1, <1>2, <1>3 DEF ReadPeriod

LEMMA WritePeriodLogged ==
  ASSUME IInv, NEW s \in Sessions, pc[s] \in PeriodSteps, WritePeriod(s),
         periods[arg[s].period] = NULL \/ arg[s].status = "locked"
  PROVE  StepIsLogged
<1>1. PICK p \in PeriodKeys, actor \in Actors, status \in {"closed", "locked"} :
        arg[s] = [period |-> p, actor |-> actor, status |-> status]
  BY DEF IInv, TypeOK, CallsTypeOK, PeriodCall
<1> DEFINE row == [status |-> status, actor |-> actor]
<1>2. /\ periods' = [periods EXCEPT ![p] = row]
      /\ events' = events \union {[tool |-> PeriodTool(status), subject |-> arg[s]]}
      /\ End(s) /\ UNCHANGED <<ledger, proposals, decisions>>
  BY <1>1 DEF WritePeriod, Logged
<1>3. row \in Period /\ row # NULL /\ row.status = status /\ row.actor = actor
  BY NullAssumption DEF Period
<1> HIDE DEF row
<1>4. periods'[p] = row /\ \A q \in PeriodKeys \ {p} : periods'[q] = periods[q]
  BY <1>2 DEF IInv, TypeOK, DbTypeOK
<1>5. PeriodLogged(p)'
  BY <1>1, <1>2, <1>3, <1>4 DEF PeriodLogged
<1>6. PeriodsEffect
  BY <1>1, <1>3, <1>4, <1>5 DEF PeriodsEffect
<1>7. LogEffect
  BY <1>2, <1>6 DEF LogEffect, RowsEffect, RequestsEffect, DecisionsEffect
<1> QED BY <1>2, <1>7, EndPlaced DEF StepIsLogged

LEMMA PeriodStepLogged ==
  ASSUME IInv, EInv, NEW s \in Sessions, PeriodStep(s)
  PROVE  StepIsLogged
<1>1. CASE InsertPeriod(s)
  BY <1>1, WritePeriodLogged DEF InsertPeriod, PeriodSteps
<1>2. CASE UpdatePeriod(s)
  BY <1>2, WritePeriodLogged
     DEF UpdatePeriod, PeriodSteps, EInv, CallsArePlaced, CallIsPlaced
<1> QED BY <1>1, <1>2, RollbackLogged DEF PeriodStep, InsertPeriodFails

LEMMA NextLogged ==
  ASSUME IInv, EInv, [Next]_vars
  PROVE  StepIsLogged
<1>1. CASE UNCHANGED vars
  BY <1>1, NothingToLog DEF vars, StepIsLogged
<1>2. ASSUME NEW s \in Sessions, Call(s) PROVE StepIsLogged
  BY <1>2, ResolveReplayLogged, DecisionReadsLogged, ReadPeriodLogged DEF Call
<1>3. ASSUME NEW s \in Sessions, Step(s) PROVE StepIsLogged
  BY <1>3, RecordStepLogged, DecisionStepLogged, PeriodStepLogged DEF Step
<1> QED BY <1>1, <1>2, <1>3, RollbackLogged DEF Next

----------------------------------------------------------------------------
(* What the effects keep. *)

\* A BundleLogged, once true, stays true.
LEMMA LoggedStays ==
  ASSUME LogEffect, NEW b, BundleLogged(b)
  PROVE  BundleLogged(b)'
BY DEF LogEffect, BundleLogged

LEMMA TablesKept ==
  ASSUME IInv, EInv, LogEffect
  PROVE  TablesAreLogged'
<1>1. events \subseteq events'
  BY DEF LogEffect
<1>2. ASSUME NEW i \in DOMAIN ledger' PROVE BundleLogged(ledger[i].bundle)'
  <2>1. CASE UNCHANGED ledger
    BY <1>1, <1>2, <2>1 DEF EInv, TablesAreLogged, BundleLogged
  <2>2. CASE \E b \in Bundles, d \in BOOLEAN : InsertRow(b, d) /\ BundleLogged(b)'
    <3>1. PICK b \in Bundles, d \in BOOLEAN : InsertRow(b, d) /\ BundleLogged(b)'
      BY <2>2
    <3>2. /\ Len(ledger) \in Nat /\ DOMAIN ledger = 1..Len(ledger)
          /\ DOMAIN ledger' = 1..(Len(ledger) + 1)
          /\ ledger'[Len(ledger) + 1].bundle = b
          /\ \A j \in DOMAIN ledger : ledger'[j] = ledger[j]
      BY <3>1, RowAppended DEF IInv, TypeOK, DbTypeOK
    <3>3. CASE i \in DOMAIN ledger
      BY <1>1, <3>2, <3>3 DEF EInv, TablesAreLogged, BundleLogged
    <3>4. CASE i = Len(ledger) + 1
      BY <3>1, <3>2, <3>4 DEF BundleLogged
    <3> QED BY <1>2, <3>2, <3>3, <3>4
  <2> QED BY <2>1, <2>2 DEF LogEffect, RowsEffect
<1>3. ASSUME NEW k \in Keys, proposals'[k] # NULL PROVE BundleLogged(proposals[k].request)'
  <2>1. CASE proposals[k] # NULL /\ proposals'[k].request = proposals[k].request
    BY <1>1, <2>1 DEF EInv, TablesAreLogged, BundleLogged
  <2> QED BY <1>3, <2>1 DEF LogEffect, RequestsEffect
<1>4. ASSUME NEW d \in decisions' PROVE DecisionLogged(d)'
  <2>1. CASE d \in decisions
    BY <1>1, <2>1 DEF EInv, TablesAreLogged, DecisionLogged
  <2> QED BY <1>4, <2>1 DEF LogEffect, DecisionsEffect
<1>5. ASSUME NEW p \in PeriodKeys, periods'[p] # NULL PROVE PeriodLogged(p)'
  <2>1. CASE periods'[p] = periods[p]
    BY <1>1, <1>5, <2>1 DEF EInv, TablesAreLogged, PeriodLogged
  <2> QED BY <2>1 DEF LogEffect, PeriodsEffect
<1> QED BY <1>2, <1>3, <1>4, <1>5 DEF TablesAreLogged

\* No row, proposal or period that a call has found is ever gone again.
LEMMA TablesGrow ==
  ASSUME IInv, GateEffect, LogEffect
  PROVE  /\ \A k \in Keys : Committed(k) => Committed(k)'
         /\ \A k \in Keys : proposals[k] # NULL => proposals'[k] # NULL
         /\ \A p \in PeriodKeys : periods[p] # NULL => periods'[p] # NULL
<1>1. ASSUME NEW k \in Keys, Committed(k) PROVE Committed(k)'
  <2>1. PICK i \in DOMAIN ledger : ledger[i].bundle.key = k
    BY <1>1 DEF Committed, RowsOf
  <2>2. i \in DOMAIN ledger' /\ ledger'[i] = ledger[i]
    <3>1. CASE UNCHANGED ledger
      BY <3>1
    <3>2. CASE \E b \in Bundles, d \in BOOLEAN : InsertRow(b, d)
      <4>1. /\ Len(ledger) \in Nat /\ DOMAIN ledger = 1..Len(ledger)
            /\ DOMAIN ledger' = 1..(Len(ledger) + 1)
            /\ \A j \in DOMAIN ledger : ledger'[j] = ledger[j]
        BY <3>2, RowAppended DEF IInv, TypeOK, DbTypeOK
      <4> QED BY <4>1
    <3> QED BY <3>1, <3>2 DEF LogEffect, RowsEffect
  <2> QED BY <2>1, <2>2 DEF Committed, RowsOf
<1> QED BY <1>1, RequestKept DEF LogEffect, PeriodsEffect

LEMMA CallsKept ==
  ASSUME IInv, EInv, GateEffect, StepIsLogged
  PROVE  CallsArePlaced'
<1> SUFFICES ASSUME NEW o \in Sessions, pc'[o] = pc[o], arg'[o] = arg[o]
             PROVE  CallIsPlaced(o)'
  BY DEF StepIsLogged, CallEffect, CallsArePlaced
<1>1. CallIsPlaced(o)
  BY DEF EInv, CallsArePlaced
<1>2. /\ \A k \in Keys : Committed(k) => Committed(k)'
      /\ \A k \in Keys : proposals[k] # NULL => proposals'[k] # NULL
      /\ \A p \in PeriodKeys : periods[p] # NULL => periods'[p] # NULL
  BY TablesGrow DEF StepIsLogged
<1>3. CASE pc[o] = "update_period"
  <2>1. arg[o].period \in PeriodKeys
    BY <1>3 DEF IInv, TypeOK, CallsTypeOK, PeriodSteps, PeriodCall
  <2> QED BY <1>1, <1>2, <1>3, <2>1 DEF CallIsPlaced
<1>4. CASE pc[o] \in {"conflict_replay", "conflict_proposal"}
  <2>1. PICK k \in Keys : k = arg[o].key
    BY <1>4, BundleOfCall DEF RecordSteps
  <2>2. Committed(k) => Committed(k)'
    BY <1>2
  <2>3. ReferencesExist(arg[o])' <=> ReferencesExist(arg[o])
    BY DEF ReferencesExist
  <2>4. Committed(arg[o].key)' <=> Committed(k)'
    BY <2>1 DEF Committed, RowsOf
  <2> QED BY <1>1, <1>2, <1>4, <2>1, <2>2, <2>3, <2>4 DEF CallIsPlaced
<1> QED BY <1>3, <1>4 DEF CallIsPlaced

LEMMA EInvKept ==
  ASSUME IInv, DInv, EInv, [Next]_vars
  PROVE  EInv' /\ LogEffect
<1>1. StepIsLogged
  BY NextLogged
<1>2. GateEffect
  BY NextChecked DEF DInv, StepIsChecked
<1> QED BY <1>1, <1>2, TablesKept, CallsKept DEF StepIsLogged, EInv

LEMMA InitLogged ==
  ASSUME Init
  PROVE  EInv
BY DEF Init, EInv, TablesAreLogged, CallsArePlaced, CallIsPlaced

----------------------------------------------------------------------------
(* The theorems. *)

\* IInv, DInv and EInv hold of every reachable state.
THEOREM EventInvariance == Safety => [](IInv /\ DInv /\ EInv)
<1>1. Init => IInv /\ DInv /\ EInv
  BY InitSound, InitDecided, InitLogged
<1>2. IInv /\ DInv /\ EInv /\ [Next]_vars => (IInv /\ DInv /\ EInv)'
  BY IInvKept, DInvKept, EInvKept
<1> QED BY <1>1, <1>2, PTL DEF Safety

\* Every row, decision and period has the ok event of the call that asked for it, through crashes,
\* rollbacks and races; a row that was approved has the event of the record call that proposed it.
THEOREM EffectsAreLoggedHolds == Safety => []EffectsAreLogged
<1>1. ASSUME EInv PROVE EffectsAreLogged
  BY <1>1 DEF EInv, TablesAreLogged, BundleLogged, DecisionLogged, PeriodLogged, EffectsAreLogged
<1> QED BY <1>1, EventInvariance, PTL

\* A UNIQUE conflict always finds the row or the proposal that caused it: the handler's second
\* transaction re-raises only for an unknown account or entity.
THEOREM ConflictFindsItsCauseHolds == Safety => []ConflictFindsItsCause
<1>1. ASSUME EInv PROVE ConflictFindsItsCause
  BY <1>1 DEF EInv, CallsArePlaced, CallIsPlaced, ConflictFindsItsCause
<1> QED BY <1>1, EventInvariance, PTL

\* No interleaving of close and lock calls loosens a period, although the UPDATE has no condition on
\* the status that was read: only lock calls get as far as the UPDATE.
THEOREM PeriodsOnlyTightenHolds == Safety => PeriodsOnlyTighten
<1> DEFINE Tightens == \A p \in PeriodKeys : Tightness(periods[p]) <= Tightness(periods'[p])
<1>1. ASSUME IInv, DInv, EInv, [Next]_vars PROVE Tightens
  <2>1. LogEffect /\ IInv'
    BY <1>1, EInvKept, IInvKept
  <2>2. SUFFICES ASSUME NEW p \in PeriodKeys PROVE Tightness(periods[p]) <= Tightness(periods'[p])
    OBVIOUS
  <2>3. periods[p] \in Period \union {NULL} /\ periods'[p] \in Period \union {NULL}
    BY <1>1, <2>1 DEF IInv, TypeOK, DbTypeOK
  <2>4. Tightness(periods[p]) \in 0..2 /\ Tightness(periods'[p]) \in 0..2
    BY DEF Tightness
  <2>5. CASE periods'[p] = periods[p]
    BY <2>4, <2>5
  <2>6. CASE periods[p] = NULL
    BY <2>4, <2>6 DEF Tightness
  <2>7. CASE periods'[p] # NULL /\ periods'[p].status = "locked"
    BY <2>4, <2>7 DEF Tightness
  <2> QED BY <2>1, <2>5, <2>6, <2>7 DEF LogEffect, PeriodsEffect
<1>2. IInv /\ DInv /\ EInv /\ [Next]_vars => [Tightens]_periods
  BY <1>1
<1> QED BY <1>2, EventInvariance, PTL DEF Safety, PeriodsOnlyTighten

----------------------------------------------------------------------------
(* One session: what a call has read is still so when it writes. *)

UnderLimit(b, r) == Cardinality(WindowRows(b, r)) < r.limit

\* The rules before the i-th that match b found it under their limits.
LimitsPassed(b, i) == \A n \in 1..(i - 1) : StaticMatch(b, Rules[n]) => UnderLimit(b, Rules[n])

\* The n-th rule limits b: it matches, and no rule before it settles the threshold.
IsLimiting(b, n) ==
  /\ StaticMatch(b, Rules[n]) /\ HasVelocity(Rules[n])
  /\ \A m \in 1..(n - 1) : StaticMatch(b, Rules[m]) => HasVelocity(Rules[m])
WithinLimits(b) == \A n \in DOMAIN Rules : IsLimiting(b, n) => UnderLimit(b, Rules[n])

\* What lets a record call write directly.
MayBeWritten(b) == ~PeriodForces(b) /\ WithinLimits(b) /\ DuplicateMatches(b) = {}

AtRules == {"policy", "all_time_velocity"}
PastPeriod == AtRules \union {"duplicates", "fetch_proposal", "insert_proposal"}

CallHasRead(s) ==
  LET b == arg[s]
  IN  /\ pc[s] \in PastPeriod => ~PeriodRaises(b)
      /\ pc[s] \in AtRules => LimitsPassed(b, seen[s].rule) /\ (PeriodForces(b) => seen[s].force)
      /\ pc[s] = "all_time_velocity" => WindowRows(b, Rules[seen[s].rule]) = {}
      /\ pc[s] = "duplicates" /\ ~seen[s].gated => ~PeriodForces(b) /\ WithinLimits(b)
      /\ pc[s] = "insert_ledger" => MayBeWritten(b)
      /\ pc[s] \in DecisionSteps => proposals[b.key].status = "proposed"

SInv == /\ \A s \in Sessions : CallHasRead(s)
        /\ DirectWritesAreNoDuplicates
        /\ VelocityLimitsHold

\* What a step may write, after what its call has read.
RowsAreRead ==
  \/ UNCHANGED ledger
  \/ \E b \in Bundles : InsertRow(b, FALSE)
  \/ \E b \in Bundles : InsertRow(b, TRUE) /\ MayBeWritten(b)
ProposalsAreRead ==
  \A k \in Keys :
    \/ proposals'[k] = proposals[k]
    \/ proposals[k] = NULL /\ proposals'[k].request \in Bundles /\ ~PeriodRaises(proposals'[k].request)
    \/ proposals[k] # NULL /\ proposals[k].status = "proposed"
WritesAreRead == RowsAreRead /\ ProposalsAreRead
StepHasRead(s) == WritesAreRead /\ CallHasRead(s)'

LEMMA NothingWritten ==
  ASSUME UNCHANGED <<ledger, proposals>>
  PROVE  WritesAreRead
BY DEF WritesAreRead, RowsAreRead, ProposalsAreRead

LEMMA EndRead ==
  ASSUME IInv, NEW s \in Sessions, End(s)
  PROVE  CallHasRead(s)'
<1>1. pc'[s] = "idle"
  BY DEF End, Goto, IInv, TypeOK, CallsTypeOK
<1> QED BY <1>1 DEF CallHasRead, PastPeriod, AtRules, DecisionSteps

LEMMA BeginRead ==
  ASSUME IInv, NEW s \in Sessions, NEW x, NEW step, Begin(s, x, step),
         \/ step \in {"period", "insert_period", "update_period"}
         \/ step \in DecisionSteps /\ proposals'[x.key].status = "proposed"
  PROVE  CallHasRead(s)'
<1>1. pc'[s] = step /\ arg'[s] = x
  BY DEF Begin, Goto, IInv, TypeOK, CallsTypeOK
<1> QED BY <1>1 DEF CallHasRead, PastPeriod, AtRules, DecisionSteps

LEMMA IdleRead ==
  ASSUME NEW s \in Sessions, pc[s] = "idle", UNCHANGED pc
  PROVE  CallHasRead(s)'
BY DEF CallHasRead, PastPeriod, AtRules, DecisionSteps

\* A count of rows is a number, and no row in the window is below every limit.
LEMMA CountOfRows ==
  ASSUME IInv, NEW b, NEW r
  PROVE  /\ Cardinality(WindowRows(b, r)) \in Nat
         /\ WindowRows(b, r) = {} => Cardinality(WindowRows(b, r)) = 0
<1>1. DOMAIN ledger = 1..Len(ledger) /\ Len(ledger) \in Nat
  BY LenProperties DEF IInv, TypeOK, DbTypeOK
<1>2. IsFiniteSet(DOMAIN ledger)
  BY <1>1, FS_Interval
<1>3. IsFiniteSet(WindowRows(b, r))
  BY <1>2, FS_Subset DEF WindowRows, SourceRows
<1> QED BY <1>3, FS_CardinalityType, FS_EmptySet

LEMMA NotReachedIsUnder ==
  ASSUME IInv, NEW b, NEW i \in DOMAIN Rules, HasVelocity(Rules[i]),
         \/ ~LimitReached(Rules[i], Cardinality(WindowRows(b, Rules[i])))
         \/ WindowRows(b, Rules[i]) = {}
  PROVE  UnderLimit(b, Rules[i])
<1>1. Rules[i].limit \in Nat \ {0}
  BY RulesAssumption DEF HasVelocity
<1> QED BY <1>1, CountOfRows DEF LimitReached, UnderLimit

\* Past the last rule, or at one that settles the threshold, every limit has had its say.
LEMMA LimitsHadTheirSay ==
  ASSUME NEW b, NEW i \in 1..(Len(Rules) + 1), LimitsPassed(b, i),
         i <= Len(Rules) => StaticMatch(b, Rules[i]) /\ ~HasVelocity(Rules[i])
  PROVE  WithinLimits(b)
<1>1. Len(Rules) \in Nat /\ DOMAIN Rules = 1..Len(Rules)
  BY RulesAssumption
<1>2. SUFFICES ASSUME NEW n \in DOMAIN Rules, IsLimiting(b, n) PROVE UnderLimit(b, Rules[n])
  BY DEF WithinLimits
<1>3. ~(i <= Len(Rules) /\ i \in 1..(n - 1)) /\ ~(i <= Len(Rules) /\ i = n)
  BY <1>2 DEF IsLimiting
<1>4. n \in 1..(i - 1)
  BY <1>1, <1>3
<1> QED BY <1>2, <1>4 DEF IsLimiting, LimitsPassed

LEMMA EnforcePeriodRead ==
  ASSUME IInv, NEW s \in Sessions, EnforcePeriod(s)
  PROVE  StepHasRead(s)
<1>1. UNCHANGED <<ledger, proposals, periods>>
  BY DEF EnforcePeriod, db
<1>2. CASE PeriodRaises(arg[s])
  BY <1>1, <1>2, NothingWritten, EndRead DEF EnforcePeriod, StepHasRead
<1>3. CASE ~PeriodRaises(arg[s])
  <2>1. PICK b, rule, force : b = arg[s] /\ rule = NextRule(b, 1) /\ force = PeriodForces(b)
    OBVIOUS
  <2>2. /\ rule \in 1..(Len(Rules) + 1)
        /\ \A n \in 1..(rule - 1) : ~StaticMatch(b, Rules[n])
    BY <2>1, NextRuleInRange, RulesAssumption
  <2>3. pc'[s] = "policy" /\ arg'[s] = b
    BY <1>3, <2>1 DEF EnforcePeriod, Goto, IInv, TypeOK, CallsTypeOK
  <2>4. seen'[s].rule = rule /\ seen'[s].force = force
    BY <1>3, <2>1 DEF EnforcePeriod, IInv, TypeOK, CallsTypeOK, Seen
  <2>5. LimitsPassed(b, rule)'
    BY <2>2 DEF LimitsPassed
  <2>6. ~PeriodRaises(b)' /\ (PeriodForces(b)' => force)
    BY <1>1, <1>3, <2>1 DEF PeriodRaises, PeriodForces
  <2>7. CallHasRead(s)'
    BY <2>3, <2>4, <2>5, <2>6
       DEF CallHasRead, PastPeriod, AtRules, DecisionSteps, LimitsPassed, PeriodRaises, PeriodForces
  <2> QED BY <1>1, <2>7, NothingWritten DEF StepHasRead
<1> QED BY <1>2, <1>3

\* The rule that settles a call's policy leaves the limits behind it.
LEMMA DecideRead ==
  ASSUME IInv, UNCHANGED <<ledger, proposals, periods>>, NEW s \in Sessions,
         pc[s] \in AtRules, CallHasRead(s),
         NEW gated \in BOOLEAN, NEW required, Decide(s, gated, required),
         gated \/ WithinLimits(arg[s])
  PROVE  StepHasRead(s)
<1>1. PICK b, force : b = arg[s] /\ force = seen[s].force
  OBVIOUS
<1>2. force \in BOOLEAN
  BY <1>1 DEF IInv, TypeOK, CallsTypeOK, Seen
<1>3. pc'[s] = "duplicates" /\ arg'[s] = b /\ seen'[s].gated = (force \/ gated)
  BY <1>1, <1>2 DEF Decide, Goto, IInv, TypeOK, CallsTypeOK, Seen
<1>4. ~PeriodRaises(b) /\ (PeriodForces(b) => force)
  BY <1>1 DEF CallHasRead, PastPeriod, AtRules
<1>5. PeriodRaises(b)' = PeriodRaises(b) /\ PeriodForces(b)' = PeriodForces(b)
  BY DEF PeriodRaises, PeriodForces
<1>6. WithinLimits(b)' = WithinLimits(b)
  BY DEF WithinLimits, IsLimiting, UnderLimit, WindowRows, SourceRows
<1>7. ~PeriodRaises(arg[s])'
  BY <1>3, <1>4, <1>5 DEF PeriodRaises
<1>8. ~seen'[s].gated => ~PeriodForces(arg[s])' /\ WithinLimits(arg[s])'
  BY <1>1, <1>2, <1>3, <1>4, <1>5, <1>6 DEF PeriodForces, WithinLimits, IsLimiting, UnderLimit, WindowRows, SourceRows
<1>9. CallHasRead(s)'
  BY <1>3, <1>7, <1>8 DEF CallHasRead, PastPeriod, AtRules, DecisionSteps
<1> QED BY <1>9, NothingWritten DEF StepHasRead

\* A limit that is not reached is passed.
LEMMA CountReachesRead ==
  ASSUME IInv, UNCHANGED <<ledger, proposals, periods>>, NEW s \in Sessions,
         pc[s] \in AtRules, CallHasRead(s),
         seen[s].rule \in 1..Len(Rules), HasVelocity(Rules[seen[s].rule]), NEW count,
         CountReaches(s, Rules[seen[s].rule], count),
         count = Cardinality(WindowRows(arg[s], Rules[seen[s].rule]))
           \/ WindowRows(arg[s], Rules[seen[s].rule]) = {}
  PROVE  StepHasRead(s)
<1>1. PICK b, i, next : b = arg[s] /\ i = seen[s].rule /\ next = NextRule(b, i + 1)
  OBVIOUS
<1>2. CASE LimitReached(Rules[i], count)
  BY <1>1, <1>2, DecideRead DEF CountReaches
<1>3. CASE ~LimitReached(Rules[i], count)
  <2>1. Len(Rules) \in Nat /\ i \in DOMAIN Rules /\ i + 1 \in 1..(Len(Rules) + 1) /\ i \in Nat
    BY <1>1, RulesAssumption
  <2>2. /\ next \in (i + 1)..(Len(Rules) + 1)
        /\ \A n \in (i + 1)..(next - 1) : ~StaticMatch(b, Rules[n])
    BY <1>1, <2>1, NextRuleInRange
  <2>3. pc'[s] = "policy" /\ arg'[s] = b /\ seen'[s].rule = next /\ seen'[s].force = seen[s].force
    BY <1>1, <1>3 DEF CountReaches, Goto, IInv, TypeOK, CallsTypeOK, Seen
  <2>4. UnderLimit(b, Rules[i])
    BY <1>1, <1>3, <2>1, NotReachedIsUnder
  <2>5. LimitsPassed(b, i) /\ ~PeriodRaises(b) /\ (PeriodForces(b) => seen[s].force)
    BY <1>1 DEF CallHasRead, PastPeriod, AtRules
  <2>6. ASSUME NEW n \in 1..(next - 1), StaticMatch(b, Rules[n]) PROVE UnderLimit(b, Rules[n])'
    <3>1. n \in 1..(i - 1) \/ n = i
      BY <2>1, <2>2, <2>6
    <3>2. UnderLimit(b, Rules[n])
      BY <2>4, <2>5, <2>6, <3>1 DEF LimitsPassed
    <3> QED BY <3>2 DEF UnderLimit, WindowRows, SourceRows
  <2>7. LimitsPassed(b, next)'
    BY <2>6 DEF LimitsPassed
  <2>8. LimitsPassed(arg[s], seen[s].rule)'
    BY <2>3, <2>7 DEF LimitsPassed, UnderLimit, WindowRows, SourceRows
  <2>9. ~PeriodRaises(arg[s])' /\ (PeriodForces(arg[s])' => seen'[s].force)
    BY <2>3, <2>5 DEF PeriodRaises, PeriodForces
  <2>10. CallHasRead(s)'
    BY <2>3, <2>8, <2>9 DEF CallHasRead, PastPeriod, AtRules, DecisionSteps
  <2> QED BY <2>10, NothingWritten DEF StepHasRead
<1> QED BY <1>2, <1>3

LEMMA EvaluateRuleRead ==
  ASSUME IInv, CallsAreChecked, NEW s \in Sessions, CallHasRead(s), EvaluateRule(s)
  PROVE  StepHasRead(s)
<1>1. PICK b, i : b = arg[s] /\ i = seen[s].rule
  OBVIOUS
<1>2. UNCHANGED <<ledger, proposals, periods>> /\ pc[s] = "policy" /\ pc[s] \in AtRules
  BY DEF EvaluateRule, db, AtRules
<1>3. /\ i \in 1..(Len(Rules) + 1) /\ Len(Rules) \in Nat
      /\ i <= Len(Rules) => StaticMatch(b, Rules[i])
      /\ LimitsPassed(b, i)
  BY <1>1, <1>2, RulesAssumption
     DEF IInv, CallsAreSound, CallIsSound, CallsAreChecked, CallIsChecked, RulesPassed, CallHasRead
<1>4. CASE i > Len(Rules)
  <2>1. Decide(s, OverThreshold(b, Threshold), 1) /\ OverThreshold(b, Threshold) \in BOOLEAN
    BY <1>1, <1>3, <1>4 DEF EvaluateRule, OverThreshold
  <2>2. WithinLimits(b)
    BY <1>3, <1>4, LimitsHadTheirSay
  <2> QED BY <1>1, <1>2, <2>1, <2>2, DecideRead
<1>5. CASE i <= Len(Rules) /\ ~HasVelocity(Rules[i])
  <2>1. /\ Decide(s, OverThreshold(b, Rules[i].threshold), Rules[i].required)
        /\ OverThreshold(b, Rules[i].threshold) \in BOOLEAN
    BY <1>1, <1>3, <1>5 DEF EvaluateRule, OverThreshold
  <2>2. WithinLimits(b)
    BY <1>3, <1>5, LimitsHadTheirSay
  <2> QED BY <1>1, <1>2, <2>1, <2>2, DecideRead
<1>6. CASE /\ i <= Len(Rules) /\ HasVelocity(Rules[i])
           /\ CountReaches(s, Rules[i], Cardinality(WindowRows(b, Rules[i])))
  BY <1>1, <1>2, <1>3, <1>6, CountReachesRead
<1>7. CASE /\ i <= Len(Rules) /\ WindowRows(b, Rules[i]) = {}
           /\ Goto(s, "all_time_velocity") /\ UNCHANGED <<arg, seen>>
  <2>1. pc'[s] = "all_time_velocity"
    BY <1>7 DEF Goto, IInv, TypeOK, CallsTypeOK
  <2>2. ~PeriodRaises(arg[s])' /\ LimitsPassed(arg[s], seen[s].rule)'
    BY <1>2, <1>7 DEF CallHasRead, PastPeriod, AtRules, PeriodRaises, LimitsPassed, UnderLimit,
                      WindowRows, SourceRows
  <2>3. PeriodForces(arg[s])' => seen'[s].force
    BY <1>2, <1>7 DEF CallHasRead, AtRules, PeriodForces
  <2>4. WindowRows(arg[s], Rules[seen[s].rule])' = {}
    BY <1>1, <1>2, <1>7 DEF WindowRows, SourceRows
  <2>5. CallHasRead(s)'
    BY <2>1, <2>2, <2>3, <2>4 DEF CallHasRead, PastPeriod, AtRules, DecisionSteps
  <2> QED BY <1>2, <2>5, NothingWritten DEF StepHasRead
<1> QED BY <1>1, <1>3, <1>4, <1>5, <1>6, <1>7 DEF EvaluateRule

LEMMA AllTimeVelocityRead ==
  ASSUME IInv, CallsAreChecked, NEW s \in Sessions, CallHasRead(s), AllTimeVelocity(s)
  PROVE  StepHasRead(s)
<1>1. UNCHANGED <<ledger, proposals, periods>> /\ pc[s] = "all_time_velocity" /\ pc[s] \in AtRules
  BY DEF AllTimeVelocity, db, AtRules
<1>2. seen[s].rule \in 1..Len(Rules) /\ HasVelocity(Rules[seen[s].rule])
  BY <1>1 DEF IInv, CallsAreSound, CallIsSound, CallsAreChecked, CallIsChecked, RulesPassed
<1>3. WindowRows(arg[s], Rules[seen[s].rule]) = {}
  BY <1>1 DEF CallHasRead
<1> QED BY <1>1, <1>2, <1>3, CountReachesRead DEF AllTimeVelocity

LEMMA FindDuplicatesRead ==
  ASSUME IInv, NEW s \in Sessions, CallHasRead(s), FindDuplicates(s)
  PROVE  StepHasRead(s)
<1>1. UNCHANGED <<ledger, proposals, periods, arg, seen>> /\ pc[s] = "duplicates"
  BY DEF FindDuplicates
<1>2. PICK b : b = arg[s] /\ b = arg'[s]
  BY <1>1
<1>3. ~PeriodRaises(b) /\ (~seen[s].gated => ~PeriodForces(b) /\ WithinLimits(b))
  BY <1>1, <1>2 DEF CallHasRead, PastPeriod
<1>4. CASE seen[s].gated \/ DuplicateMatches(b) # {}
  <2>1. pc'[s] = "fetch_proposal"
    BY <1>2, <1>4 DEF FindDuplicates, Goto, IInv, TypeOK, CallsTypeOK
  <2>2. ~PeriodRaises(arg[s])'
    BY <1>1, <1>2, <1>3 DEF PeriodRaises
  <2>3. CallHasRead(s)'
    BY <2>1, <2>2 DEF CallHasRead, AtRules, DecisionSteps
  <2> QED BY <1>1, <2>3, NothingWritten DEF StepHasRead
<1>5. CASE ~seen[s].gated /\ DuplicateMatches(b) = {}
  <2>1. pc'[s] = "insert_ledger"
    BY <1>2, <1>5 DEF FindDuplicates, Goto, IInv, TypeOK, CallsTypeOK
  <2>2. ~PeriodForces(arg[s])' /\ WithinLimits(arg[s])'
    BY <1>1, <1>2, <1>3, <1>5
       DEF PeriodForces, WithinLimits, IsLimiting, UnderLimit, WindowRows, SourceRows
  <2>3. DuplicateMatches(arg[s])' = {}
    BY <1>1, <1>2, <1>5 DEF DuplicateMatches
  <2>4. CallHasRead(s)'
    BY <2>1, <2>2, <2>3 DEF CallHasRead, MayBeWritten, PastPeriod, AtRules, DecisionSteps
  <2> QED BY <1>1, <2>4, NothingWritten DEF StepHasRead
<1> QED BY <1>4, <1>5

LEMMA ProposalPathRead ==
  ASSUME IInv, NEW s \in Sessions, CallHasRead(s), FetchProposal(s) \/ InsertProposal(s)
  PROVE  StepHasRead(s)
<1>1. ~PeriodRaises(arg[s]) /\ arg[s] \in Bundles /\ arg[s].key \in Keys
  BY BundleOfCall DEF FetchProposal, InsertProposal, CallHasRead, PastPeriod, RecordSteps
<1>2. CASE FetchProposal(s) /\ proposals[arg[s].key] # NULL
  BY <1>2, EndRead, NothingWritten DEF FetchProposal, OnlyLog, StepHasRead
<1>3. CASE FetchProposal(s) /\ proposals[arg[s].key] = NULL
  <2>1. pc'[s] = "insert_proposal" /\ UNCHANGED <<ledger, proposals, periods, arg>>
    BY <1>3 DEF FetchProposal, Goto, IInv, TypeOK, CallsTypeOK
  <2>2. ~PeriodRaises(arg[s])'
    BY <1>1, <2>1 DEF PeriodRaises
  <2>3. CallHasRead(s)'
    BY <2>1, <2>2 DEF CallHasRead, AtRules, DecisionSteps
  <2> QED BY <2>1, <2>3, NothingWritten DEF StepHasRead
<1>4. CASE InsertProposal(s)
  <2>1. PICK b, k, new :
          /\ b = arg[s] /\ k = b.key /\ new.request = b
          /\ new = [request |-> b, status |-> "proposed", required |-> seen[s].required, tx |-> 0]
    OBVIOUS
  <2>2. proposals[k] = NULL /\ proposals' = [proposals EXCEPT ![k] = new] /\ UNCHANGED ledger
    BY <1>4, <2>1 DEF InsertProposal
  <2>3. proposals'[k] = new /\ \A o \in Keys \ {k} : proposals'[o] = proposals[o]
    BY <1>1, <2>1, <2>2 DEF IInv, TypeOK, DbTypeOK
  <2>4. WritesAreRead
    BY <1>1, <2>1, <2>2, <2>3 DEF WritesAreRead, RowsAreRead, ProposalsAreRead
  <2> QED BY <1>4, <2>4, EndRead DEF InsertProposal, StepHasRead
<1> QED BY <1>2, <1>3, <1>4

LEMMA ConflictRead ==
  ASSUME IInv, NEW s \in Sessions, IntegrityError(s) \/ ConflictReplay(s) \/ ConflictProposal(s)
  PROVE  StepHasRead(s)
<1>1. UNCHANGED <<ledger, proposals>>
  BY DEF IntegrityError, ConflictReplay, ConflictProposal, OnlyLog, db
<1>2. End(s) \/ pc'[s] \in {"conflict_replay", "conflict_proposal"}
  BY DEF IntegrityError, IntegrityErrorRecovery, ConflictReplay, ConflictProposal, Goto,
         IInv, TypeOK, CallsTypeOK
<1>3. CallHasRead(s)'
  BY <1>2, EndRead DEF CallHasRead, PastPeriod, AtRules, DecisionSteps
<1> QED BY <1>1, <1>3, NothingWritten DEF StepHasRead

LEMMA RecordStepRead ==
  ASSUME IInv, CallsAreChecked, NEW s \in Sessions, CallHasRead(s), RecordStep(s)
  PROVE  StepHasRead(s)
<1>1. CASE InsertLedger(s)
  <2>1. arg[s] \in Bundles /\ MayBeWritten(arg[s])
    BY <1>1, BundleOfCall DEF InsertLedger, RecordSteps, CallHasRead
  <2>2. WritesAreRead
    BY <1>1, <2>1 DEF InsertLedger, WritesAreRead, RowsAreRead, ProposalsAreRead
  <2> QED BY <1>1, <2>2, EndRead DEF InsertLedger, StepHasRead
<1> QED BY <1>1, EnforcePeriodRead, EvaluateRuleRead, AllTimeVelocityRead, FindDuplicatesRead,
           ProposalPathRead, ConflictRead DEF RecordStep

\* A call decides a proposal that nobody has decided.
LEMMA DecidedRead ==
  ASSUME IInv, NEW s \in Sessions, pc[s] \in DecisionSteps, CallHasRead(s), End(s),
         UNCHANGED ledger \/ InsertRow(proposals[arg[s].key].request, FALSE),
         \A k \in Keys \ {arg[s].key} : proposals'[k] = proposals[k]
  PROVE  StepHasRead(s)
<1>1. PICK k : k = arg[s].key
  OBVIOUS
<1>2. proposals[k] # NULL /\ proposals[k].status = "proposed" /\ proposals[k].request \in Bundles
  BY <1>1, ProposalOfCall DEF CallHasRead, ProposalIsSound, Proposal
<1>3. WritesAreRead
  BY <1>1, <1>2 DEF WritesAreRead, RowsAreRead, ProposalsAreRead
<1> QED BY <1>3, EndRead DEF StepHasRead

LEMMA OnlyKeyPersisted ==
  ASSUME IInv, NEW k \in Keys, NEW status, NEW tx, Persist(k, status, tx)
  PROVE  \A o \in Keys \ {k} : proposals'[o] = proposals[o]
BY DEF Persist, IInv, TypeOK, DbTypeOK

LEMMA DecisionStepRead ==
  ASSUME IInv, NEW s \in Sessions, CallHasRead(s), DecisionStep(s)
  PROVE  StepHasRead(s)
<1>1. pc[s] \in DecisionSteps
  BY DEF DecisionStep, CheckApproverDecision, ApproveBelowQuorum, ApproveAndCommit, ApproveAndAdopt,
         ApproveFails, Reject, RejectFails, DecisionSteps
<1>2. arg[s].key \in Keys
  BY <1>1, ProposalOfCall
<1>3. CASE CheckApproverDecision(s)
  <2>1. UNCHANGED <<ledger, proposals>>
    BY <1>3 DEF CheckApproverDecision, OnlyLog
  <2>2. ASSUME pc'[s] = "approve", UNCHANGED arg PROVE CallHasRead(s)'
    BY <1>1, <2>1, <2>2 DEF CallHasRead, PastPeriod, AtRules, DecisionSteps
  <2>3. End(s) \/ (pc'[s] = "approve" /\ UNCHANGED arg)
    BY <1>3 DEF CheckApproverDecision, Goto, IInv, TypeOK, CallsTypeOK
  <2> QED BY <2>1, <2>2, <2>3, EndRead, NothingWritten DEF StepHasRead
<1>4. CASE ApproveFails(s) \/ RejectFails(s)
  BY <1>4, EndRead, NothingWritten DEF ApproveFails, RejectFails, Rollback, db, StepHasRead
<1>5. CASE ApproveBelowQuorum(s)
  BY <1>1, <1>2, <1>5, OnlyKeyPersisted, DecidedRead DEF ApproveBelowQuorum, Decided
<1>6. CASE ApproveAndCommit(s)
  BY <1>1, <1>2, <1>6, OnlyKeyPersisted, DecidedRead DEF ApproveAndCommit, Decided
<1>7. CASE ApproveAndAdopt(s)
  BY <1>1, <1>2, <1>7, OnlyKeyPersisted, DecidedRead DEF ApproveAndAdopt, Decided
<1>8. CASE Reject(s)
  BY <1>1, <1>2, <1>8, OnlyKeyPersisted, DecidedRead DEF Reject, Decided
<1> QED BY <1>3, <1>4, <1>5, <1>6, <1>7, <1>8 DEF DecisionStep

LEMMA PeriodStepRead ==
  ASSUME IInv, NEW s \in Sessions, PeriodStep(s) \/ Rollback(s)
  PROVE  StepHasRead(s)
<1>1. End(s) /\ UNCHANGED <<ledger, proposals>>
  BY DEF PeriodStep, InsertPeriod, InsertPeriodFails, UpdatePeriod, WritePeriod, Rollback, db
<1> QED BY <1>1, EndRead, NothingWritten DEF StepHasRead

LEMMA CallRead ==
  ASSUME IInv, NEW s \in Sessions, Call(s)
  PROVE  StepHasRead(s)
<1>1. ASSUME NEW b \in Bundles, ResolveReplay(s, b) PROVE StepHasRead(s)
  <2>1. UNCHANGED <<ledger, proposals>>
    BY <1>1 DEF ResolveReplay, OnlyLog, db
  <2> QED BY <1>1, <2>1, BeginRead, IdleRead, NothingWritten DEF ResolveReplay, StepHasRead
<1>2. ASSUME NEW k \in Keys, NEW a \in ApproverIds, ReadForApproval(s, k, a) PROVE StepHasRead(s)
  <2>1. UNCHANGED <<ledger, proposals>> /\ pc[s] = "idle"
    BY <1>2 DEF ReadForApproval, OnlyLog, db
  <2>2. CASE proposals[k].status = "committed"
    BY <1>2, <2>1, <2>2, IdleRead, NothingWritten DEF ReadForApproval, StepHasRead
  <2>3. CASE proposals[k].status # "committed"
    <3>1. PICK step, call : /\ step = (IF a = NULL THEN "approve" ELSE "approver_decision")
                            /\ call = [key |-> k, approver |-> a]
      OBVIOUS
    <3>2. Begin(s, call, step) /\ step \in DecisionSteps /\ call.key = k
      BY <1>2, <2>3, <3>1 DEF ReadForApproval, DecisionSteps
    <3>3. proposals[k] \in Proposal /\ proposals[k].status # "rejected"
      BY <1>2 DEF ReadForApproval, MayBeApproved, IInv, TypeOK, DbTypeOK
    <3>4. proposals'[call.key].status = "proposed"
      BY <2>1, <2>3, <3>2, <3>3 DEF Proposal
    <3> QED BY <2>1, <3>2, <3>4, BeginRead, NothingWritten DEF StepHasRead
  <2> QED BY <2>2, <2>3
<1>3. ASSUME NEW k \in Keys, NEW a \in ApproverIds, ReadForRejection(s, k, a) PROVE StepHasRead(s)
  <2>1. UNCHANGED <<ledger, proposals>> /\ pc[s] = "idle"
    BY <1>3 DEF ReadForRejection, OnlyLog, db
  <2>2. CASE proposals[k].status = "rejected"
    BY <1>3, <2>1, <2>2, IdleRead, NothingWritten DEF ReadForRejection, StepHasRead
  <2>3. CASE proposals[k].status # "rejected"
    <3>1. PICK call : call = [key |-> k, approver |-> a]
      OBVIOUS
    <3>2. Begin(s, call, "reject") /\ call.key = k
      BY <1>3, <2>3, <3>1 DEF ReadForRejection
    <3>3. proposals[k] \in Proposal /\ proposals[k].status # "committed"
      BY <1>3 DEF ReadForRejection, MayBeRejected, IInv, TypeOK, DbTypeOK
    <3>4. proposals'[call.key].status = "proposed"
      BY <2>1, <2>3, <3>2, <3>3 DEF Proposal
    <3> QED BY <2>1, <3>2, <3>4, BeginRead, NothingWritten DEF DecisionSteps, StepHasRead
  <2> QED BY <2>2, <2>3
<1>4. ASSUME NEW p \in PeriodKeys, NEW actor \in Actors, NEW status \in {"closed", "locked"},
             ReadPeriod(s, p, actor, status)
      PROVE  StepHasRead(s)
  <2>1. UNCHANGED <<ledger, proposals>>
    BY <1>4 DEF ReadPeriod, OnlyLog, db
  <2> QED BY <1>4, <2>1, BeginRead, IdleRead, NothingWritten DEF ReadPeriod, StepHasRead
<1> QED BY <1>1, <1>2, <1>3, <1>4 DEF Call

----------------------------------------------------------------------------
(* The rows stay as they were justified. *)

\* The rows that a rule with a limit had seen when the j-th row was written.
Before(j, r) ==
  {i \in 1..(j - 1) : /\ ledger[i].bundle.key[1] = ledger[j].bundle.key[1]
                      /\ ledger[i].bundle.entity = ledger[j].bundle.entity
                      /\ ledger[i].bundle.date \in (ledger[j].bundle.date - r.window)..ledger[j].bundle.date}

RowStands(j) ==
  ledger[j].direct =>
    /\ \A i \in 1..(j - 1) : ~DuplicateOf(ledger[j].bundle, ledger[i])
    /\ \A n \in DOMAIN Rules : IsLimiting(ledger[j].bundle, n) => Cardinality(Before(j, Rules[n])) < Rules[n].limit

LEMMA RowsStandAre ==
  (\A j \in DOMAIN ledger : RowStands(j)) <=> DirectWritesAreNoDuplicates /\ VelocityLimitsHold
BY DEF RowStands, Before, IsLimiting, DirectWritesAreNoDuplicates, VelocityLimitsHold

LEMMA OldRowStands ==
  ASSUME NEW j \in Nat \ {0}, RowStands(j), \A i \in 1..j : ledger'[i] = ledger[i]
  PROVE  RowStands(j)'
<1>1. ledger'[j] = ledger[j] /\ \A i \in 1..(j - 1) : ledger'[i] = ledger[i]
  OBVIOUS
<1>2. ASSUME NEW r PROVE Before(j, r)' = Before(j, r)
  BY <1>1 DEF Before
<1>3. ASSUME NEW b, NEW n PROVE IsLimiting(b, n)' = IsLimiting(b, n)
  BY DEF IsLimiting
<1> QED BY <1>1, <1>2, <1>3 DEF RowStands

\* The row that a write appends comes after every row that its call has read.
LEMMA NewRowStands ==
  ASSUME IInv, NEW b \in Bundles, NEW d \in BOOLEAN, InsertRow(b, d), d => MayBeWritten(b),
         NEW j, j = Len(ledger) + 1
  PROVE  RowStands(j)'
<1>1. /\ Len(ledger) \in Nat /\ DOMAIN ledger = 1..Len(ledger)
      /\ ledger'[Len(ledger) + 1].bundle = b /\ ledger'[Len(ledger) + 1].direct = d
      /\ \A i \in DOMAIN ledger : ledger'[i] = ledger[i]
  BY RowAppended DEF IInv, TypeOK, DbTypeOK
<1>2. 1..(j - 1) = DOMAIN ledger
  BY <1>1
<1>3. ASSUME NEW r PROVE Before(j, r)' = WindowRows(b, r)
  BY <1>1, <1>2 DEF Before, WindowRows, SourceRows
<1>4. ASSUME NEW n PROVE IsLimiting(b, n)' = IsLimiting(b, n)
  BY DEF IsLimiting
<1>5. ASSUME d, NEW i \in DOMAIN ledger PROVE ~DuplicateOf(b, ledger'[i])
  BY <1>1, <1>5 DEF MayBeWritten, DuplicateMatches
<1>6. ASSUME d, NEW n \in DOMAIN Rules, IsLimiting(b, n) PROVE Cardinality(Before(j, Rules[n])') < Rules[n].limit
  BY <1>3, <1>6 DEF MayBeWritten, WithinLimits, UnderLimit
<1> QED BY <1>1, <1>2, <1>4, <1>5, <1>6 DEF RowStands

LEMMA RowsStandKept ==
  ASSUME IInv, RowsAreRead, \A j \in DOMAIN ledger : RowStands(j)
  PROVE  \A j \in DOMAIN ledger' : RowStands(j)'
<1>1. Len(ledger) \in Nat /\ DOMAIN ledger = 1..Len(ledger)
  BY LenProperties DEF IInv, TypeOK, DbTypeOK
<1>2. CASE UNCHANGED ledger
  BY <1>1, <1>2, OldRowStands
<1>3. ASSUME NEW b \in Bundles, NEW d \in BOOLEAN, InsertRow(b, d), d => MayBeWritten(b)
      PROVE  \A j \in DOMAIN ledger' : RowStands(j)'
  <2>1. DOMAIN ledger' = 1..(Len(ledger) + 1) /\ \A i \in DOMAIN ledger : ledger'[i] = ledger[i]
    BY <1>3, RowAppended DEF IInv, TypeOK, DbTypeOK
  <2>2. ASSUME NEW j \in DOMAIN ledger PROVE RowStands(j)'
    <3>1. j \in Nat \ {0} /\ \A i \in 1..j : ledger'[i] = ledger[i]
      BY <1>1, <2>1
    <3> QED BY <3>1, OldRowStands
  <2>3. ASSUME NEW j, j = Len(ledger) + 1 PROVE RowStands(j)'
    BY <1>3, <2>3, NewRowStands
  <2> QED BY <1>1, <2>1, <2>2, <2>3
<1> QED BY <1>2, <1>3 DEF RowsAreRead

\* One session carries every call, so no two of them overlap.
Alone == \E s : Sessions = {s}

LEMMA SInvKept ==
  ASSUME Alone, IInv, DInv, SInv, [Next]_vars
  PROVE  SInv' /\ WritesAreRead
<1>1. CASE UNCHANGED vars
  <2>1. WritesAreRead
    BY <1>1, NothingWritten DEF vars
  <2>2. SInv'
    BY <1>1 DEF vars, SInv, CallHasRead, MayBeWritten, PeriodRaises, PeriodForces, LimitsPassed, WithinLimits,
                IsLimiting, UnderLimit, WindowRows, SourceRows, DuplicateMatches,
                DirectWritesAreNoDuplicates, VelocityLimitsHold
  <2> QED BY <2>1, <2>2
<1>2. CASE Next
  <2>1. PICK s \in Sessions : Call(s) \/ Step(s) \/ Rollback(s)
    BY <1>2 DEF Next
  <2>2. StepHasRead(s)
    BY <2>1, CallRead, RecordStepRead, DecisionStepRead, PeriodStepRead DEF Step, SInv, DInv
  <2>3. \A o \in Sessions : CallHasRead(o)'
    BY <2>2 DEF Alone, StepHasRead
  <2>4. \A j \in DOMAIN ledger : RowStands(j)
    BY RowsStandAre DEF SInv
  <2>5. \A j \in DOMAIN ledger' : RowStands(j)'
    BY <2>2, <2>4, RowsStandKept DEF StepHasRead, WritesAreRead
  <2>6. DirectWritesAreNoDuplicates' /\ VelocityLimitsHold'
    BY <2>5 DEF RowStands, Before, IsLimiting, DirectWritesAreNoDuplicates, VelocityLimitsHold
  <2> QED BY <2>2, <2>3, <2>6 DEF StepHasRead, SInv
<1> QED BY <1>1, <1>2

LEMMA InitRead ==
  ASSUME Init
  PROVE  SInv
BY DEF Init, SInv, CallHasRead, PastPeriod, AtRules, DecisionSteps, DirectWritesAreNoDuplicates,
       VelocityLimitsHold

\* With one session, SInv holds of every reachable state.
THEOREM SerialInvariance == ASSUME Alone PROVE Safety => [](IInv /\ DInv /\ SInv)
<1>1. Init => IInv /\ DInv /\ SInv
  BY InitSound, InitDecided, InitRead
<1>2. IInv /\ DInv /\ SInv /\ [Next]_vars => (IInv /\ DInv /\ SInv)'
  BY IInvKept, DInvKept, SInvKept
<1> QED BY <1>1, <1>2, PTL DEF Safety

\* While calls do not overlap, a direct write duplicates no row before it: the search for duplicates
\* is still right at the insert (two sessions violate this, as TwinRace shows).
THEOREM DirectWritesAreNoDuplicatesHolds == ASSUME Alone PROVE Safety => []DirectWritesAreNoDuplicates
<1>1. SInv => DirectWritesAreNoDuplicates
  BY DEF SInv
<1> QED BY <1>1, SerialInvariance, PTL

\* While calls do not overlap, a direct write finds fewer rows than the limit of every velocity rule
\* that comes before the rule that settles its threshold.
THEOREM VelocityLimitsAreKept == ASSUME Alone PROVE Safety => []VelocityLimitsHold
<1>1. SInv => VelocityLimitsHold
  BY DEF SInv
<1> QED BY <1>1, SerialInvariance, PTL

\* While calls do not overlap, a direct write goes to an open period only, and a proposal for a closed
\* or locked period has the tag or override it asks for.
THEOREM RecordsRespectPeriodsHolds == ASSUME Alone PROVE Safety => RecordsRespectPeriods
<1> DEFINE Respects ==
      /\ ledger' # ledger => (AppendedRow.direct => periods[PeriodOf(AppendedRow.bundle)] = NULL)
      /\ \A k \in Keys : proposals[k] = NULL /\ proposals'[k] # NULL =>
           LET b == proposals'[k].request
               p == periods[PeriodOf(b)]
           IN  p # NULL => IF p.status = "closed" THEN b.adjusting ELSE b.override
<1>1. ASSUME IInv, DInv, SInv, [Next]_vars PROVE Respects
  <2>1. WritesAreRead
    BY <1>1, SInvKept
  <2>2. ASSUME ledger' # ledger, AppendedRow.direct PROVE periods[PeriodOf(AppendedRow.bundle)] = NULL
    <3>1. PICK b \in Bundles, d \in BOOLEAN : InsertRow(b, d) /\ (d => MayBeWritten(b))
      BY <2>1, <2>2 DEF WritesAreRead, RowsAreRead
    <3>2. AppendedRow.bundle = b /\ AppendedRow.direct = d
      BY <1>1, <3>1, RowAppended DEF AppendedRow, IInv, TypeOK, DbTypeOK
    <3> QED BY <2>2, <3>1, <3>2 DEF MayBeWritten, PeriodForces
  <2>3. ASSUME NEW k \in Keys, proposals[k] = NULL, proposals'[k] # NULL,
               NEW b, b = proposals'[k].request, NEW p, p = periods[PeriodOf(b)], p # NULL
        PROVE  IF p.status = "closed" THEN b.adjusting ELSE b.override
    <3>1. b \in Bundles /\ ~PeriodRaises(b)
      BY <2>1, <2>3 DEF WritesAreRead, ProposalsAreRead
    <3>2. p \in Period
      BY <1>1, <2>3, <3>1 DEF IInv, TypeOK, DbTypeOK, PeriodKeys
    <3> QED BY <2>3, <3>1, <3>2 DEF PeriodRaises, Period
  <2> QED BY <2>2, <2>3
<1>2. IInv /\ DInv /\ SInv /\ [Next]_vars => [Respects]_<<ledger, proposals>>
  BY <1>1
<1> QED BY <1>2, SerialInvariance, PTL DEF Safety, RecordsRespectPeriods

\* While calls do not overlap, a decided proposal keeps its decision: the status that a call read is
\* still the status when it decides (two sessions violate this, as DecisionRace shows).
THEOREM DecidedStaysDecidedHolds == ASSUME Alone PROVE Safety => DecidedStaysDecided
<1> DEFINE Stays ==
      \A k \in Keys : proposals[k] # NULL /\ proposals[k].status \in {"committed", "rejected"} =>
        proposals'[k] # NULL /\ proposals'[k].status = proposals[k].status
<1>1. ASSUME IInv, DInv, SInv, [Next]_vars PROVE Stays
  BY <1>1, SInvKept DEF WritesAreRead, ProposalsAreRead
<1>2. IInv /\ DInv /\ SInv /\ [Next]_vars => [Stays]_proposals
  BY <1>1
<1> QED BY <1>2, SerialInvariance, PTL DEF Safety, DecidedStaysDecided
=============================================================================
