----------------------- MODULE TransactionGate_proofs -----------------------
(***************************************************************************)
(* Proofs about TransactionGate, for every set of sessions, bundles,       *)
(* rules, approvers and actors.                                            *)
(*                                                                         *)
(* IInv is inductive.  Beside the types it says where a record call stands *)
(* in the rules, that a deciding call's proposal exists, and that what a   *)
(* proposal stores as its transaction is the row of its own key.  All that *)
(* a step can do to the ledger, to the answers and to the proposals is one *)
(* of the few effects below; each action is shown to have one of them, and *)
(* the invariants, the action properties and the refinement of             *)
(* CanonicalLedger then follow from the effects alone.                     *)
(***************************************************************************)
EXTENDS TransactionGate, Money_proofs, SequenceTheorems

----------------------------------------------------------------------------
(* The inductive invariant. *)

\* Where a record call stands in the rules, and the proposal that a deciding call has read.
CallIsSound(s) ==
  /\ pc[s] = "policy" => seen[s].rule \in 1..(Len(Rules) + 1)
  /\ pc[s] = "all_time_velocity" => seen[s].rule \in 1..Len(Rules)
  /\ pc[s] \in DecisionSteps => proposals[arg[s].key] # NULL
CallsAreSound == \A s \in Sessions : CallIsSound(s)

\* t is the id of the row of key k.
Names(k, t) == t \in DOMAIN ledger /\ ledger[t].bundle.key = k

\* A proposal asks for its own key, and a committed one names that key's row.
ProposalIsSound(k) ==
  /\ proposals[k] \in Proposal
  /\ proposals[k].request.key = k
  /\ proposals[k].status = "committed" => Names(k, proposals[k].tx)
ProposalsAreSound == \A k \in Keys : proposals[k] # NULL => ProposalIsSound(k)

IInv ==
  /\ TypeOK
  /\ CallsAreSound
  /\ ProposalsAreSound
  /\ OneRowPerKey
  /\ AnswersNameTheRow

----------------------------------------------------------------------------
(* The effects a step can have. *)

Silent == UNCHANGED <<ledger, answers>>

Told ==
  /\ UNCHANGED ledger
  /\ \E t \in DOMAIN ledger : answers' = answers \union {<<ledger[t].bundle.key, t>>}

Booked ==
  \E b \in Bundles, d \in BOOLEAN :
    /\ KeyFree(b)
    /\ InsertRow(b, d)
    /\ answers' = answers \union {<<b.key, Len(ledger) + 1>>}

ProposalsEffect == \A k \in Keys : proposals'[k] = proposals[k] \/ ProposalIsSound(k)'

Effect ==
  /\ DbTypeOK'
  /\ Silent \/ Told \/ Booked
  /\ ProposalsEffect

----------------------------------------------------------------------------
(* The rules. *)

\* The rule loop goes forward to the next rule that may match, or one past the last.
LEMMA NextRuleInRange ==
  ASSUME NEW b, NEW i \in 1..(Len(Rules) + 1)
  PROVE  /\ NextRule(b, i) \in i..(Len(Rules) + 1)
         /\ NextRule(b, i) <= Len(Rules) => StaticMatch(b, Rules[NextRule(b, i)])
         /\ \A m \in i..(NextRule(b, i) - 1) : ~StaticMatch(b, Rules[m])
<1> DEFINE Stops == {j \in i..(Len(Rules) + 1) : j <= Len(Rules) => StaticMatch(b, Rules[j])}
<1>1. Len(Rules) \in Nat
  BY RulesAssumption
<1>2. Len(Rules) + 1 \in Stops /\ Stops \subseteq Nat
  BY <1>1
<1>3. PICK n \in Stops : \A m \in Stops : n <= m
  <2> HIDE DEF Stops
  <2> QED BY <1>2, LeastExists
<1>4. n \in i..(Len(Rules) + 1) /\ (n <= Len(Rules) => StaticMatch(b, Rules[n]))
  OBVIOUS
<1>5. ASSUME NEW m \in i..(n - 1) PROVE ~StaticMatch(b, Rules[m])
  BY <1>1, <1>3, <1>4
<1> QED BY <1>1, <1>4, <1>5 DEF NextRule

----------------------------------------------------------------------------
(* A session's call. *)

LEMMA EndTyped ==
  ASSUME CallsTypeOK, NEW s \in Sessions, End(s)
  PROVE  CallsTypeOK'
BY DEF CallsTypeOK, End, Goto, Nothing, Seen, RecordSteps, DecisionSteps, PeriodSteps

LEMMA BeginTyped ==
  ASSUME CallsTypeOK, NEW s \in Sessions, NEW x, NEW step, Begin(s, x, step),
         \/ step \in RecordSteps /\ x \in Bundles
         \/ step \in DecisionSteps /\ x \in DecisionCall
         \/ step \in PeriodSteps /\ x \in PeriodCall
  PROVE  CallsTypeOK'
BY DEF CallsTypeOK, Begin, Goto, Nothing, Seen, RecordSteps, DecisionSteps, PeriodSteps

LEMMA GotoTyped ==
  ASSUME CallsTypeOK, NEW s \in Sessions, NEW step, Goto(s, step), UNCHANGED arg,
         seen' \in [Sessions -> Seen],
         \/ step \in RecordSteps /\ pc[s] \in RecordSteps
         \/ step \in DecisionSteps /\ pc[s] \in DecisionSteps
  PROVE  CallsTypeOK'
BY DEF CallsTypeOK, Goto, RecordSteps, DecisionSteps, PeriodSteps

\* A session that moves leaves the calls of the others as they were.
LEMMA OthersStaySound ==
  ASSUME IInv, ProposalsEffect, NEW s \in Sessions, CallIsSound(s)', CallsTypeOK',
         \A o \in Sessions \ {s} :
           pc'[o] = pc[o] /\ arg'[o] = arg[o] /\ seen'[o] = seen[o]
  PROVE  CallsAreSound'
<1> SUFFICES ASSUME NEW o \in Sessions \ {s} PROVE CallIsSound(o)'
  BY DEF CallsAreSound
<1>1. CallIsSound(o)
  BY DEF IInv, CallsAreSound
<1>2. ASSUME pc[o] \in DecisionSteps PROVE proposals'[arg[o].key] # NULL
  <2>1. arg[o].key \in Keys
    BY <1>2 DEF IInv, TypeOK, CallsTypeOK, DecisionCall
  <2>2. proposals[arg[o].key] # NULL
    BY <1>1, <1>2 DEF CallIsSound
  <2> QED BY <2>1, <2>2, NullAssumption DEF ProposalsEffect, ProposalIsSound
<1> QED BY <1>1, <1>2 DEF CallIsSound

\* Nothing in the database changes.
LEMMA QuietStep ==
  ASSUME IInv, UNCHANGED db
  PROVE  Effect
BY DEF IInv, TypeOK, DbTypeOK, db, Effect, Silent, ProposalsEffect

\* Only an event is written, and the client is told of a row at most.
LEMMA LoggedStep ==
  ASSUME IInv, NEW tool, NEW subject, [tool |-> tool, subject |-> subject] \in Event,
         OnlyLog(tool, subject),
         \/ UNCHANGED answers
         \/ \E k \in Keys, t \in DOMAIN ledger :
              ledger[t].bundle.key = k /\ answers' = answers \union {<<k, t>>}
  PROVE  Effect
<1> USE DEF IInv, TypeOK, DbTypeOK
<1>1. events' \subseteq Event
  BY DEF OnlyLog, Logged
<1>2. UNCHANGED <<ledger, proposals, decisions, periods>>
  BY DEF OnlyLog
<1>3. answers' \subseteq Keys \X Nat
  <2>1. DOMAIN ledger \subseteq Nat
    BY LenProperties
  <2> QED BY <2>1
<1>4. Silent \/ Told
  BY <1>2 DEF Silent, Told
<1>5. ProposalsEffect
  BY <1>2 DEF ProposalsEffect
<1> QED BY <1>1, <1>2, <1>3, <1>4, <1>5 DEF Effect

\* A session that ends its call.
LEMMA EndSound ==
  ASSUME IInv, Effect, NEW s \in Sessions, End(s)
  PROVE  CallsTypeOK' /\ CallsAreSound'
<1>1. CallsTypeOK'
  BY EndTyped DEF IInv, TypeOK
<1>2. CallIsSound(s)'
  BY DEF IInv, TypeOK, CallsTypeOK, End, Goto, CallIsSound, DecisionSteps
<1>3. \A o \in Sessions \ {s} : pc'[o] = pc[o] /\ arg'[o] = arg[o] /\ seen'[o] = seen[o]
  BY DEF IInv, TypeOK, CallsTypeOK, End, Goto
<1> QED BY <1>1, <1>2, <1>3, OthersStaySound DEF Effect

\* What every step is shown to keep.
StepIsSound == Effect /\ CallsTypeOK' /\ CallsAreSound'

LEMMA GotoSound ==
  ASSUME IInv, Effect, NEW s \in Sessions, NEW step, Goto(s, step), UNCHANGED arg,
         seen' \in [Sessions -> Seen],
         \A o \in Sessions \ {s} : seen'[o] = seen[o],
         \/ step \in RecordSteps /\ pc[s] \in RecordSteps
         \/ step \in DecisionSteps /\ pc[s] \in DecisionSteps,
         step = "policy" => seen'[s].rule \in 1..(Len(Rules) + 1),
         step = "all_time_velocity" => seen'[s].rule \in 1..Len(Rules)
  PROVE  StepIsSound
<1>1. CallsTypeOK'
  BY GotoTyped DEF IInv, TypeOK
<1>2. pc'[s] = step /\ \A o \in Sessions \ {s} : pc'[o] = pc[o]
  BY DEF IInv, TypeOK, CallsTypeOK, Goto
<1>3. ASSUME step \in DecisionSteps PROVE proposals'[arg[s].key] # NULL
  <2>1. pc[s] \in DecisionSteps
    BY <1>3 DEF DecisionSteps, RecordSteps
  <2>2. arg[s].key \in Keys /\ proposals[arg[s].key] # NULL
    BY <2>1 DEF IInv, TypeOK, CallsTypeOK, DecisionCall, CallsAreSound, CallIsSound
  <2> QED BY <2>2, NullAssumption DEF Effect, ProposalsEffect, ProposalIsSound
<1>4. CallIsSound(s)'
  BY <1>2, <1>3 DEF CallIsSound
<1> QED BY <1>1, <1>2, <1>4, OthersStaySound DEF Effect, StepIsSound

LEMMA BeginSound ==
  ASSUME IInv, Effect, NEW s \in Sessions, NEW x, NEW step, Begin(s, x, step),
         \/ step \in RecordSteps \ {"policy", "all_time_velocity"} /\ x \in Bundles
         \/ step \in DecisionSteps /\ x \in DecisionCall /\ proposals[x.key] # NULL
         \/ step \in PeriodSteps /\ x \in PeriodCall
  PROVE  StepIsSound
<1>1. CallsTypeOK'
  BY BeginTyped DEF IInv, TypeOK
<1>2. pc'[s] = step /\ arg'[s] = x
  BY DEF IInv, TypeOK, CallsTypeOK, Begin, Goto
<1>3. \A o \in Sessions \ {s} : pc'[o] = pc[o] /\ arg'[o] = arg[o] /\ seen'[o] = seen[o]
  BY DEF IInv, TypeOK, CallsTypeOK, Begin, Goto
<1>4. ASSUME step \in DecisionSteps PROVE proposals'[x.key] # NULL
  <2>1. x.key \in Keys /\ proposals[x.key] # NULL
    BY <1>4 DEF DecisionSteps, RecordSteps, PeriodSteps, DecisionCall
  <2> QED BY <2>1, NullAssumption DEF Effect, ProposalsEffect, ProposalIsSound
<1>5. CallIsSound(s)'
  BY <1>2, <1>4 DEF CallIsSound, DecisionSteps, PeriodSteps
<1> QED BY <1>1, <1>3, <1>5, OthersStaySound DEF Effect, StepIsSound

\* The id that a replay answers with is the id of the key's row.
LEMMA TxOfNames ==
  ASSUME NEW k, Committed(k)
  PROVE  Names(k, TxOf(k))
BY DEF Committed, TxOf, RowsOf, Names

----------------------------------------------------------------------------
(* record_transaction_bundle. *)

LEMMA BundleOfCall ==
  ASSUME IInv, NEW s \in Sessions, pc[s] \in RecordSteps
  PROVE  arg[s] \in Bundles /\ arg[s].key \in Keys
BY DEF IInv, TypeOK, CallsTypeOK, Keys

LEMMA RecordEvent ==
  ASSUME NEW b \in Bundles
  PROVE  [tool |-> RecordTool, subject |-> b] \in Event
BY DEF Event

LEMMA ResolveReplaySound ==
  ASSUME IInv, NEW s \in Sessions, NEW b \in Bundles, ResolveReplay(s, b)
  PROVE  StepIsSound
<1>1. CASE Committed(b.key)
  <2>1. OnlyLog(RecordTool, b) /\ ReplayAnswer(b) /\ UNCHANGED <<pc, arg, seen>>
    BY <1>1 DEF ResolveReplay
  <2>2. Effect
    BY <1>1, <2>1, TxOfNames, RecordEvent, LoggedStep DEF ReplayAnswer, Names, Keys
  <2>3. CallsTypeOK'
    BY <2>1 DEF IInv, TypeOK, CallsTypeOK
  <2>4. CallIsSound(s)'
    BY <2>1 DEF ResolveReplay, CallIsSound, DecisionSteps
  <2> QED BY <2>1, <2>2, <2>3, <2>4, OthersStaySound DEF Effect, StepIsSound
<1>2. CASE ~Committed(b.key)
  <2>1. Effect
    BY <1>2, QuietStep DEF ResolveReplay
  <2> QED BY <1>2, <2>1, BeginSound DEF ResolveReplay, RecordSteps
<1> QED BY <1>1, <1>2

LEMMA EnforcePeriodSound ==
  ASSUME IInv, NEW s \in Sessions, EnforcePeriod(s)
  PROVE  StepIsSound
<1>1. Effect
  BY QuietStep DEF EnforcePeriod
<1>2. CASE PeriodRaises(arg[s])
  BY <1>1, <1>2, EndSound DEF EnforcePeriod, StepIsSound
<1>3. CASE ~PeriodRaises(arg[s])
  <2>1. NextRule(arg[s], 1) \in 1..(Len(Rules) + 1)
    BY NextRuleInRange, RulesAssumption
  <2>2. PeriodForces(arg[s]) \in BOOLEAN
    BY DEF PeriodForces
  <2>3. /\ seen' \in [Sessions -> Seen]
        /\ \A o \in Sessions \ {s} : seen'[o] = seen[o]
        /\ seen'[s].rule = NextRule(arg[s], 1)
    <3> DEFINE rule == NextRule(arg[s], 1)
               force == PeriodForces(arg[s])
    <3>1. rule \in Nat \ {0} /\ force \in BOOLEAN
      BY <2>1, <2>2, RulesAssumption
    <3>2. seen' = [seen EXCEPT ![s].force = force, ![s].rule = rule]
      BY <1>3 DEF EnforcePeriod
    <3>3. seen \in [Sessions -> Seen]
      BY DEF IInv, TypeOK, CallsTypeOK
    <3> HIDE DEF rule, force
    <3>4. /\ seen' \in [Sessions -> Seen]
          /\ \A o \in Sessions \ {s} : seen'[o] = seen[o]
          /\ seen'[s].rule = rule
      BY <3>1, <3>2, <3>3 DEF Seen
    <3> QED BY <3>4 DEF rule
  <2> QED BY <1>1, <1>3, <2>1, <2>3, GotoSound DEF EnforcePeriod, RecordSteps
<1> QED BY <1>2, <1>3

\* A rule that settles the policy asks for a positive number of approvals.
LEMMA DecideSound ==
  ASSUME IInv, Effect, NEW s \in Sessions, pc[s] \in RecordSteps,
         NEW gated \in BOOLEAN, NEW required \in Nat \ {0}, Decide(s, gated, required)
  PROVE  StepIsSound
<1>1. /\ seen' \in [Sessions -> Seen]
      /\ \A o \in Sessions \ {s} : seen'[o] = seen[o]
  <2> DEFINE force == seen[s].force \/ gated
  <2>1. seen \in [Sessions -> Seen] /\ seen[s] \in Seen
    BY DEF IInv, TypeOK, CallsTypeOK
  <2>2. seen' = [seen EXCEPT ![s].gated = force, ![s].required = required]
    BY DEF Decide
  <2>3. force \in BOOLEAN
    OBVIOUS
  <2> HIDE DEF force
  <2> QED BY <2>1, <2>2, <2>3 DEF Seen
<1> QED BY <1>1, GotoSound DEF Decide, RecordSteps

LEMMA CountReachesSound ==
  ASSUME IInv, Effect, NEW s \in Sessions, pc[s] \in RecordSteps,
         seen[s].rule \in 1..Len(Rules), NEW count,
         CountReaches(s, Rules[seen[s].rule], count)
  PROVE  StepIsSound
<1> DEFINE r == Rules[seen[s].rule]
<1>1. CASE LimitReached(r, count)
  <2>1. r.required \in Nat \ {0}
    BY RulesAssumption
  <2>2. Decide(s, TRUE, r.required)
    BY <1>1 DEF CountReaches
  <2> QED BY <2>1, <2>2, DecideSound
<1>2. CASE ~LimitReached(r, count)
  <2> DEFINE next == NextRule(arg[s], seen[s].rule + 1)
  <2>1. next \in (seen[s].rule + 1)..(Len(Rules) + 1)
    BY NextRuleInRange, RulesAssumption
  <2>2. next \in Nat \ {0} /\ next \in 1..(Len(Rules) + 1)
    BY <2>1, RulesAssumption
  <2>3. Goto(s, "policy") /\ seen' = [seen EXCEPT ![s].rule = next] /\ UNCHANGED arg
    BY <1>2 DEF CountReaches
  <2>a. seen \in [Sessions -> Seen]
    BY DEF IInv, TypeOK, CallsTypeOK
  <2> HIDE DEF next
  <2>4. /\ seen' \in [Sessions -> Seen]
        /\ \A o \in Sessions \ {s} : seen'[o] = seen[o]
        /\ seen'[s].rule = next
    BY <2>2, <2>3, <2>a DEF Seen
  <2> QED BY <2>2, <2>3, <2>4, GotoSound DEF RecordSteps
<1> QED BY <1>1, <1>2

LEMMA EvaluateRuleSound ==
  ASSUME IInv, NEW s \in Sessions, EvaluateRule(s)
  PROVE  StepIsSound
<1> DEFINE i == seen[s].rule
<1>1. Effect
  BY QuietStep DEF EvaluateRule
<1>2. pc[s] = "policy" /\ pc[s] \in RecordSteps
  BY DEF EvaluateRule, RecordSteps
<1>3. i \in 1..(Len(Rules) + 1) /\ Len(Rules) \in Nat
  BY <1>2, RulesAssumption DEF IInv, CallsAreSound, CallIsSound
<1>4. CASE i > Len(Rules)
  <2>1. Decide(s, OverThreshold(arg[s], Threshold), 1)
    BY <1>3, <1>4 DEF EvaluateRule
  <2>2. OverThreshold(arg[s], Threshold) \in BOOLEAN
    BY DEF OverThreshold
  <2> QED BY <1>1, <1>2, <2>1, <2>2, DecideSound
<1>5. CASE i <= Len(Rules) /\ ~HasVelocity(Rules[i])
  <2>1. Decide(s, OverThreshold(arg[s], Rules[i].threshold), Rules[i].required)
    BY <1>3, <1>5 DEF EvaluateRule
  <2>2. OverThreshold(arg[s], Rules[i].threshold) \in BOOLEAN
    BY DEF OverThreshold
  <2>3. Rules[i].required \in Nat \ {0}
    BY <1>3, <1>5, RulesAssumption
  <2> QED BY <1>1, <1>2, <2>1, <2>2, <2>3, DecideSound
<1>6. CASE /\ i <= Len(Rules) /\ HasVelocity(Rules[i])
           /\ CountReaches(s, Rules[i], Cardinality(WindowRows(arg[s], Rules[i])))
  BY <1>1, <1>2, <1>3, <1>6, CountReachesSound
<1>7. CASE /\ i <= Len(Rules) /\ HasVelocity(Rules[i])
           /\ Goto(s, "all_time_velocity") /\ UNCHANGED <<arg, seen>>
  <2>1. seen' \in [Sessions -> Seen]
    BY <1>7 DEF IInv, TypeOK, CallsTypeOK
  <2> QED BY <1>1, <1>2, <1>3, <1>7, <2>1, GotoSound DEF RecordSteps
<1> QED BY <1>3, <1>4, <1>5, <1>6, <1>7 DEF EvaluateRule

LEMMA AllTimeVelocitySound ==
  ASSUME IInv, NEW s \in Sessions, AllTimeVelocity(s)
  PROVE  StepIsSound
<1>1. Effect
  BY QuietStep DEF AllTimeVelocity
<1>2. pc[s] \in RecordSteps /\ seen[s].rule \in 1..Len(Rules)
  BY DEF AllTimeVelocity, RecordSteps, IInv, CallsAreSound, CallIsSound
<1> QED BY <1>1, <1>2, CountReachesSound DEF AllTimeVelocity

\* A step to another read or to the write section, which changes no table and nothing it carries.
LEMMA ReadOnSound ==
  ASSUME IInv, NEW s \in Sessions, pc[s] \in RecordSteps,
         NEW step \in RecordSteps \ {"policy", "all_time_velocity"}, Goto(s, step),
         UNCHANGED <<ledger, proposals, decisions, periods, events, answers, arg, seen>>
  PROVE  StepIsSound
<1>1. Effect
  BY QuietStep DEF db
<1>2. seen' \in [Sessions -> Seen]
  BY DEF IInv, TypeOK, CallsTypeOK
<1> QED BY <1>1, <1>2, GotoSound

LEMMA FindDuplicatesSound ==
  ASSUME IInv, NEW s \in Sessions, FindDuplicates(s)
  PROVE  StepIsSound
BY ReadOnSound DEF FindDuplicates, RecordSteps

LEMMA IntegrityErrorSound ==
  ASSUME IInv, NEW s \in Sessions, IntegrityError(s)
  PROVE  StepIsSound
BY ReadOnSound DEF IntegrityError, IntegrityErrorRecovery, RecordSteps

\* A stored response names the row of the proposal's key or no row.
LEMMA StoredResponseSound ==
  ASSUME IInv, NEW s \in Sessions, NEW b \in Bundles, proposals[b.key] # NULL,
         End(s), OnlyLog(RecordTool, b), StoredResponse(b.key)
  PROVE  StepIsSound
<1>1. b.key \in Keys
  BY DEF Keys
<1>2. ProposalIsSound(b.key)
  BY <1>1 DEF IInv, ProposalsAreSound
<1>3. Effect
  BY <1>1, <1>2, RecordEvent, LoggedStep DEF StoredResponse, ProposalIsSound, Names
<1> QED BY <1>3, EndSound DEF StepIsSound

LEMMA FetchProposalSound ==
  ASSUME IInv, NEW s \in Sessions, FetchProposal(s)
  PROVE  StepIsSound
<1>1. pc[s] \in RecordSteps /\ arg[s] \in Bundles
  BY BundleOfCall DEF FetchProposal, RecordSteps
<1>2. CASE proposals[arg[s].key] # NULL
  BY <1>1, <1>2, StoredResponseSound DEF FetchProposal
<1>3. CASE proposals[arg[s].key] = NULL
  BY <1>1, <1>3, ReadOnSound DEF FetchProposal, RecordSteps
<1> QED BY <1>2, <1>3

LEMMA ConflictReplaySound ==
  ASSUME IInv, NEW s \in Sessions, ConflictReplay(s)
  PROVE  StepIsSound
<1>1. pc[s] \in RecordSteps /\ arg[s] \in Bundles /\ arg[s].key \in Keys
  BY BundleOfCall DEF ConflictReplay, RecordSteps
<1>2. CASE Committed(arg[s].key)
  <2>1. Effect
    BY <1>1, <1>2, TxOfNames, RecordEvent, LoggedStep DEF ConflictReplay, ReplayAnswer, Names
  <2> QED BY <1>2, <2>1, EndSound DEF ConflictReplay, StepIsSound
<1>3. CASE ~Committed(arg[s].key)
  BY <1>1, <1>3, ReadOnSound DEF ConflictReplay, RecordSteps
<1> QED BY <1>2, <1>3

LEMMA ConflictProposalSound ==
  ASSUME IInv, NEW s \in Sessions, ConflictProposal(s)
  PROVE  StepIsSound
<1>1. arg[s] \in Bundles
  BY BundleOfCall DEF ConflictProposal, RecordSteps
<1>2. CASE proposals[arg[s].key] # NULL
  BY <1>1, <1>2, StoredResponseSound DEF ConflictProposal
<1>3. CASE proposals[arg[s].key] = NULL
  BY <1>3, QuietStep, EndSound DEF ConflictProposal, StepIsSound
<1> QED BY <1>2, <1>3

LEMMA InsertProposalSound ==
  ASSUME IInv, NEW s \in Sessions, InsertProposal(s)
  PROVE  StepIsSound
<1> DEFINE b == arg[s]
           new == [request |-> b, status |-> "proposed", required |-> seen[s].required, tx |-> 0]
<1>1. b \in Bundles /\ b.key \in Keys
  BY BundleOfCall DEF InsertProposal, RecordSteps
<1>2. new \in Proposal
  BY <1>1 DEF Proposal, IInv, TypeOK, CallsTypeOK, Seen
<1>3. /\ proposals' = [proposals EXCEPT ![b.key] = new]
      /\ events' = Logged(RecordTool, b)
      /\ End(s)
      /\ UNCHANGED <<ledger, decisions, periods, answers>>
  BY DEF InsertProposal
<1> HIDE DEF new
<1>4. DbTypeOK'
  BY <1>1, <1>2, <1>3, RecordEvent DEF IInv, TypeOK, DbTypeOK, Logged
<1>5. ProposalsEffect
  <2>1. proposals' \in [Keys -> Proposal \union {NULL}] /\ proposals'[b.key] = new
    BY <1>1, <1>2, <1>3 DEF IInv, TypeOK, DbTypeOK
  <2>2. new.request.key = b.key /\ new.status # "committed"
    BY DEF new
  <2> QED BY <1>1, <1>2, <1>3, <2>1, <2>2 DEF ProposalsEffect, ProposalIsSound, IInv, TypeOK, DbTypeOK
<1> QED BY <1>3, <1>4, <1>5, EndSound DEF Effect, Silent, StepIsSound

\* The appended row has the next id, and the rows before it stay.
LEMMA RowAppended ==
  ASSUME ledger \in Seq(Row), NEW b \in Bundles, NEW d \in BOOLEAN, InsertRow(b, d)
  PROVE  /\ ledger' \in Seq(Row)
         /\ Len(ledger) \in Nat /\ Len(ledger') = Len(ledger) + 1
         /\ DOMAIN ledger = 1..Len(ledger) /\ DOMAIN ledger' = 1..(Len(ledger) + 1)
         /\ ledger'[Len(ledger) + 1].bundle = b /\ ledger'[Len(ledger) + 1].direct = d
         /\ \A i \in DOMAIN ledger : ledger'[i] = ledger[i]
<1> DEFINE row == [bundle |-> b, direct |-> d, legs |-> StoredPostings(b)]
<1>1. row \in Row
  BY DEF Row
<1>2. ledger' = Append(ledger, row) /\ row.bundle = b /\ row.direct = d
  BY DEF InsertRow
<1> HIDE DEF row
<1> QED BY <1>1, <1>2, LenProperties, AppendProperties

LEMMA InsertLedgerSound ==
  ASSUME IInv, NEW s \in Sessions, InsertLedger(s)
  PROVE  StepIsSound
<1> DEFINE b == arg[s]
<1>1. b \in Bundles /\ b.key \in Keys
  BY BundleOfCall DEF InsertLedger, RecordSteps
<1>2. /\ KeyFree(b) /\ InsertRow(b, TRUE)
      /\ events' = Logged(RecordTool, b)
      /\ answers' = answers \union {<<b.key, Len(ledger) + 1>>}
      /\ End(s)
      /\ UNCHANGED <<proposals, decisions, periods>>
  BY DEF InsertLedger
<1>3. ledger' \in Seq(Row) /\ Len(ledger) \in Nat
  BY <1>1, <1>2, RowAppended DEF IInv, TypeOK, DbTypeOK
<1> HIDE DEF b
<1>4. events' \subseteq Event
  BY <1>1, <1>2, RecordEvent DEF IInv, TypeOK, DbTypeOK, Logged
<1>5. DbTypeOK'
  BY <1>1, <1>2, <1>3, <1>4 DEF IInv, TypeOK, DbTypeOK
<1>6. Effect
  BY <1>1, <1>2, <1>5 DEF Effect, Booked, ProposalsEffect
<1> QED BY <1>2, <1>6, EndSound DEF StepIsSound

LEMMA RecordStepSound ==
  ASSUME IInv, NEW s \in Sessions, RecordStep(s)
  PROVE  StepIsSound
BY EnforcePeriodSound, EvaluateRuleSound, AllTimeVelocitySound, FindDuplicatesSound,
   FetchProposalSound, InsertProposalSound, InsertLedgerSound, IntegrityErrorSound,
   ConflictReplaySound, ConflictProposalSound DEF RecordStep

----------------------------------------------------------------------------
(* approve_proposed_transaction and reject_proposed_transaction. *)

\* A deciding call has read a proposal, and it is still there.
LEMMA ProposalOfCall ==
  ASSUME IInv, NEW s \in Sessions, pc[s] \in DecisionSteps
  PROVE  /\ arg[s] \in DecisionCall /\ arg[s].key \in Keys /\ arg[s].approver \in ApproverIds
         /\ proposals[arg[s].key] # NULL /\ ProposalIsSound(arg[s].key)
BY DEF IInv, TypeOK, CallsTypeOK, DecisionCall, CallsAreSound, CallIsSound, ProposalsAreSound

LEMMA DecisionEvent ==
  ASSUME NEW call \in DecisionCall
  PROVE  /\ [tool |-> ApproveTool, subject |-> call] \in Event
         /\ [tool |-> RejectTool, subject |-> call] \in Event
BY DEF Event

\* A call whose answer is known after one read, and which only logs it.
LEMMA AnsweredAtOnce ==
  ASSUME IInv, Effect, UNCHANGED <<pc, arg, seen>>
  PROVE  StepIsSound
<1>1. CallsTypeOK'
  BY DEF IInv, TypeOK, CallsTypeOK
<1>2. ASSUME NEW s \in Sessions PROVE CallIsSound(s)'
  <2>1. ASSUME pc[s] \in DecisionSteps PROVE proposals'[arg[s].key] # NULL
    BY <2>1, ProposalOfCall, NullAssumption DEF Effect, ProposalsEffect, ProposalIsSound
  <2> QED BY <2>1 DEF IInv, CallsAreSound, CallIsSound
<1> QED BY <1>1, <1>2 DEF CallsAreSound, StepIsSound

LEMMA ReadForApprovalSound ==
  ASSUME IInv, NEW s \in Sessions, NEW k \in Keys, NEW a \in ApproverIds,
         ReadForApproval(s, k, a)
  PROVE  StepIsSound
<1> DEFINE call == [key |-> k, approver |-> a]
<1>1. call \in DecisionCall /\ proposals[k] # NULL /\ ProposalIsSound(k)
  BY DEF DecisionCall, ReadForApproval, IInv, ProposalsAreSound
<1>2. CASE proposals[k].status = "committed"
  <2>1. Effect
    BY <1>1, <1>2, DecisionEvent, LoggedStep DEF ReadForApproval, ProposalIsSound, Names
  <2> QED BY <1>2, <2>1, AnsweredAtOnce DEF ReadForApproval
<1>3. CASE proposals[k].status # "committed"
  <2>1. Effect
    BY <1>3, QuietStep DEF ReadForApproval
  <2> QED BY <1>1, <1>3, <2>1, BeginSound DEF ReadForApproval, DecisionSteps
<1> QED BY <1>2, <1>3

LEMMA CheckApproverDecisionSound ==
  ASSUME IInv, NEW s \in Sessions, CheckApproverDecision(s)
  PROVE  StepIsSound
<1> DEFINE decision == Approval(arg[s].key, arg[s].approver)
<1>1. pc[s] \in DecisionSteps
  BY DEF CheckApproverDecision, DecisionSteps
<1>2. CASE decision \in decisions
  <2>1. Effect
    BY <1>1, <1>2, ProposalOfCall, DecisionEvent, LoggedStep DEF CheckApproverDecision
  <2> QED BY <1>2, <2>1, EndSound DEF CheckApproverDecision, StepIsSound
<1>3. CASE decision \notin decisions
  <2>1. Effect
    BY <1>3, QuietStep DEF CheckApproverDecision, db
  <2>2. seen' \in [Sessions -> Seen]
    BY <1>3 DEF CheckApproverDecision, IInv, TypeOK, CallsTypeOK
  <2> QED BY <1>1, <1>3, <2>1, <2>2, GotoSound DEF CheckApproverDecision, DecisionSteps
<1> QED BY <1>2, <1>3

LEMMA ReadForRejectionSound ==
  ASSUME IInv, NEW s \in Sessions, NEW k \in Keys, NEW a \in ApproverIds,
         ReadForRejection(s, k, a)
  PROVE  StepIsSound
<1> DEFINE call == [key |-> k, approver |-> a]
<1>1. call \in DecisionCall /\ proposals[k] # NULL
  BY DEF DecisionCall, ReadForRejection
<1>2. CASE proposals[k].status = "rejected"
  <2>1. Effect
    BY <1>1, <1>2, DecisionEvent, LoggedStep DEF ReadForRejection
  <2> QED BY <1>2, <2>1, AnsweredAtOnce DEF ReadForRejection
<1>3. CASE proposals[k].status # "rejected"
  <2>1. Effect
    BY <1>3, QuietStep DEF ReadForRejection
  <2> QED BY <1>1, <1>3, <2>1, BeginSound DEF ReadForRejection, DecisionSteps
<1> QED BY <1>2, <1>3

LEMMA RollbackSound ==
  ASSUME IInv, NEW s \in Sessions, Rollback(s)
  PROVE  StepIsSound
BY QuietStep, EndSound DEF Rollback, StepIsSound

\* Persist puts a status and an id into the one proposal and leaves its other fields.
LEMMA Persisted ==
  ASSUME IInv, NEW k \in Keys, ProposalIsSound(k), NEW status, NEW tx \in Nat,
         status \in {"proposed", "rejected", "committed"}, Persist(k, status, tx)
  PROVE  /\ proposals' \in [Keys -> Proposal \union {NULL}]
         /\ proposals'[k] \in Proposal
         /\ proposals'[k].request = proposals[k].request
         /\ proposals'[k].required = proposals[k].required
         /\ proposals'[k].status = status /\ proposals'[k].tx = tx
         /\ \A other \in Keys \ {k} : proposals'[other] = proposals[other]
BY DEF Persist, ProposalIsSound, Proposal, IInv, TypeOK, DbTypeOK

\* The write section of a decision, whatever it does to the ledger.
LEMMA DecidedSound ==
  ASSUME IInv, NEW s \in Sessions, pc[s] \in DecisionSteps, NEW k \in Keys, k = arg[s].key,
         NEW tool \in {ApproveTool, RejectTool}, NEW action \in {"approve", "reject"},
         Decided(s, tool, [key |-> k, action |-> action, approver |-> arg[s].approver]),
         NEW status \in {"proposed", "rejected", "committed"}, NEW tx \in Nat,
         Persist(k, status, tx),
         ledger' \in Seq(Row), answers' \subseteq Keys \X Nat,
         Silent \/ Told \/ Booked,
         status = "committed" => Names(k, tx)'
  PROVE  StepIsSound
<1> DEFINE decision == [key |-> k, action |-> action, approver |-> arg[s].approver]
<1>1. arg[s].approver \in ApproverIds /\ ProposalIsSound(k)
  BY ProposalOfCall
<1>2. decisions' = decisions \union {decision} /\ decision \in Decision
  BY <1>1 DEF Decided, Decision
<1>3. events' \subseteq Event
  BY ProposalOfCall, DecisionEvent DEF Decided, Logged, IInv, TypeOK, DbTypeOK
<1>4. periods' = periods /\ End(s)
  BY DEF Decided
<1> HIDE DEF decision
<1>5. DbTypeOK'
  BY <1>1, <1>2, <1>3, <1>4, Persisted DEF IInv, TypeOK, DbTypeOK
<1>6. ProposalIsSound(k)'
  BY <1>1, Persisted DEF ProposalIsSound
<1>7. \A other \in Keys \ {k} : proposals'[other] = proposals[other]
  BY <1>1, Persisted
<1>8. Effect
  BY <1>5, <1>6, <1>7 DEF Effect, ProposalsEffect
<1> QED BY <1>4, <1>8, EndSound DEF StepIsSound

LEMMA ApproveBelowQuorumSound ==
  ASSUME IInv, NEW s \in Sessions, ApproveBelowQuorum(s)
  PROVE  StepIsSound
<1>1. pc[s] \in DecisionSteps
  BY DEF ApproveBelowQuorum, DecisionSteps
<1>2. PICK k \in Keys : k = arg[s].key
  BY <1>1, ProposalOfCall
<1>3. /\ Persist(k, "proposed", 0)
      /\ Decided(s, ApproveTool, Approval(k, arg[s].approver))
      /\ UNCHANGED <<ledger, answers>>
  BY <1>2 DEF ApproveBelowQuorum
<1>4. ledger' \in Seq(Row) /\ answers' \subseteq Keys \X Nat /\ Silent
  BY <1>3 DEF IInv, TypeOK, DbTypeOK, Silent
<1> QED BY <1>1, <1>2, <1>3, <1>4, DecidedSound DEF Approval

LEMMA RejectSound ==
  ASSUME IInv, NEW s \in Sessions, Reject(s)
  PROVE  StepIsSound
<1>1. pc[s] \in DecisionSteps
  BY DEF Reject, DecisionSteps
<1>2. PICK k \in Keys : k = arg[s].key
  BY <1>1, ProposalOfCall
<1>3. /\ Persist(k, "rejected", 0)
      /\ Decided(s, RejectTool, Rejection(k, arg[s].approver))
      /\ UNCHANGED <<ledger, answers>>
  BY <1>2 DEF Reject
<1>4. ledger' \in Seq(Row) /\ answers' \subseteq Keys \X Nat /\ Silent
  BY <1>3 DEF IInv, TypeOK, DbTypeOK, Silent
<1> QED BY <1>1, <1>2, <1>3, <1>4, DecidedSound DEF Rejection

LEMMA ApproveAndCommitSound ==
  ASSUME IInv, NEW s \in Sessions, ApproveAndCommit(s)
  PROVE  StepIsSound
<1>1. pc[s] \in DecisionSteps
  BY DEF ApproveAndCommit, DecisionSteps
<1>2. PICK k \in Keys : k = arg[s].key
  BY <1>1, ProposalOfCall
<1>3. PICK b \in Bundles : b = proposals[k].request /\ b.key = k
  BY <1>1, <1>2, ProposalOfCall DEF ProposalIsSound, Proposal
<1>4. PICK tx \in Nat : tx = Len(ledger) + 1
  BY LenProperties DEF IInv, TypeOK, DbTypeOK
<1>5. /\ KeyFree(b) /\ InsertRow(b, FALSE)
      /\ Persist(k, "committed", tx)
      /\ answers' = answers \union {<<k, tx>>}
      /\ Decided(s, ApproveTool, Approval(k, arg[s].approver))
  BY <1>2, <1>3, <1>4 DEF ApproveAndCommit
<1>6. ledger' \in Seq(Row) /\ Names(k, tx)'
  <2>1. ledger \in Seq(Row)
    BY DEF IInv, TypeOK, DbTypeOK
  <2>2. /\ ledger' \in Seq(Row)
        /\ DOMAIN ledger' = 1..(Len(ledger) + 1) /\ Len(ledger) \in Nat
        /\ ledger'[Len(ledger) + 1].bundle = b
    BY <1>5, <2>1, RowAppended
  <2> QED BY <1>3, <1>4, <2>2 DEF Names
<1>7. answers' \subseteq Keys \X Nat
  BY <1>5 DEF IInv, TypeOK, DbTypeOK
<1>8. Booked
  BY <1>3, <1>4, <1>5 DEF Booked
<1> QED BY <1>1, <1>2, <1>5, <1>6, <1>7, <1>8, DecidedSound DEF Approval

LEMMA ApproveAndAdoptSound ==
  ASSUME IInv, NEW s \in Sessions, ApproveAndAdopt(s)
  PROVE  StepIsSound
<1>1. pc[s] \in DecisionSteps
  BY DEF ApproveAndAdopt, DecisionSteps
<1>2. PICK k \in Keys : k = arg[s].key
  BY <1>1, ProposalOfCall
<1>3. proposals[k].request.key = k
  BY <1>1, <1>2, ProposalOfCall DEF ProposalIsSound
<1>4. Names(k, TxOf(k))
  BY <1>2, <1>3, TxOfNames DEF ApproveAndAdopt, KeyFree
<1>5. PICK tx \in Nat : tx = TxOf(k)
  BY <1>4, LenProperties DEF IInv, TypeOK, DbTypeOK, Names
<1>6. /\ Persist(k, "committed", tx)
      /\ answers' = answers \union {<<k, tx>>}
      /\ Decided(s, ApproveTool, Approval(k, arg[s].approver))
      /\ UNCHANGED ledger
  BY <1>2, <1>5 DEF ApproveAndAdopt, AdoptedTx
<1>7. ledger' \in Seq(Row) /\ Names(k, tx)'
  BY <1>4, <1>5, <1>6 DEF IInv, TypeOK, DbTypeOK, Names
<1>8. answers' \subseteq Keys \X Nat
  BY <1>6 DEF IInv, TypeOK, DbTypeOK
<1>9. Told
  BY <1>4, <1>5, <1>6 DEF Told, Names
<1> QED BY <1>1, <1>2, <1>6, <1>7, <1>8, <1>9, DecidedSound DEF Approval

LEMMA DecisionStepSound ==
  ASSUME IInv, NEW s \in Sessions, DecisionStep(s)
  PROVE  StepIsSound
BY CheckApproverDecisionSound, ApproveBelowQuorumSound, ApproveAndCommitSound,
   ApproveAndAdoptSound, RejectSound, RollbackSound DEF DecisionStep, ApproveFails, RejectFails

----------------------------------------------------------------------------
(* close_period and lock_period. *)

LEMMA PeriodEvent ==
  ASSUME NEW call \in PeriodCall, NEW status
  PROVE  [tool |-> PeriodTool(status), subject |-> call] \in Event
BY DEF Event, PeriodTool

LEMMA ReadPeriodSound ==
  ASSUME IInv, NEW s \in Sessions, NEW p \in PeriodKeys, NEW actor \in Actors,
         NEW status \in {"closed", "locked"}, ReadPeriod(s, p, actor, status)
  PROVE  StepIsSound
<1> DEFINE call == [period |-> p, actor |-> actor, status |-> status]
<1>1. call \in PeriodCall
  BY DEF PeriodCall
<1> HIDE DEF call
<1>2. CASE /\ OnlyLog(PeriodTool(status), call)
           /\ UNCHANGED <<answers, pc, arg, seen>>
  <2>1. Effect
    BY <1>1, <1>2, PeriodEvent, LoggedStep
  <2> QED BY <1>2, <2>1, AnsweredAtOnce
<1>3. CASE /\ Begin(s, call, "insert_period") \/ Begin(s, call, "update_period")
           /\ UNCHANGED db
  BY <1>1, <1>3, QuietStep, BeginSound DEF PeriodSteps
<1> QED BY <1>2, <1>3 DEF ReadPeriod, call

LEMMA WritePeriodSound ==
  ASSUME IInv, NEW s \in Sessions, pc[s] \in PeriodSteps, WritePeriod(s)
  PROVE  StepIsSound
<1>1. arg[s] \in PeriodCall
  BY DEF IInv, TypeOK, CallsTypeOK
<1>2. events' \subseteq Event
  BY <1>1, PeriodEvent DEF WritePeriod, Logged, IInv, TypeOK, DbTypeOK
<1>3. periods' \in [PeriodKeys -> Period \union {NULL}]
  BY <1>1 DEF WritePeriod, PeriodCall, Period, IInv, TypeOK, DbTypeOK
<1>4. UNCHANGED <<ledger, proposals, decisions, answers>> /\ End(s)
  BY DEF WritePeriod
<1>5. Effect
  BY <1>2, <1>3, <1>4 DEF Effect, Silent, ProposalsEffect, IInv, TypeOK, DbTypeOK
<1> QED BY <1>4, <1>5, EndSound DEF StepIsSound

LEMMA PeriodStepSound ==
  ASSUME IInv, NEW s \in Sessions, PeriodStep(s)
  PROVE  StepIsSound
BY WritePeriodSound, RollbackSound
   DEF PeriodStep, InsertPeriod, InsertPeriodFails, UpdatePeriod, PeriodSteps

----------------------------------------------------------------------------
(* Every step. *)

LEMMA NextSound ==
  ASSUME IInv, [Next]_vars
  PROVE  StepIsSound
<1>1. CASE UNCHANGED vars
  BY <1>1, QuietStep, AnsweredAtOnce DEF vars, db
<1>2. ASSUME NEW s \in Sessions, Call(s) PROVE StepIsSound
  BY <1>2, ResolveReplaySound, ReadForApprovalSound, ReadForRejectionSound, ReadPeriodSound DEF Call
<1>3. ASSUME NEW s \in Sessions, Step(s) PROVE StepIsSound
  BY <1>3, RecordStepSound, DecisionStepSound, PeriodStepSound DEF Step
<1> QED BY <1>1, <1>2, <1>3, RollbackSound DEF Next

\* What the three effects on the ledger and the answers keep.
LEMMA RowsAndAnswersKept ==
  ASSUME IInv, Effect
  PROVE  OneRowPerKey' /\ AnswersNameTheRow'
<1>1. ledger \in Seq(Row) /\ answers \subseteq Keys \X Nat
  BY DEF IInv, TypeOK, DbTypeOK
<1>2. CASE Silent
  BY <1>2 DEF IInv, Silent, OneRowPerKey, AnswersNameTheRow
<1>3. CASE Told
  BY <1>3 DEF IInv, Told, OneRowPerKey, AnswersNameTheRow
<1>4. CASE Booked
  <2>1. PICK b \in Bundles, d \in BOOLEAN :
          /\ KeyFree(b) /\ InsertRow(b, d)
          /\ answers' = answers \union {<<b.key, Len(ledger) + 1>>}
    BY <1>4 DEF Booked
  <2>2. /\ Len(ledger) \in Nat /\ DOMAIN ledger = 1..Len(ledger)
        /\ DOMAIN ledger' = 1..(Len(ledger) + 1)
        /\ ledger'[Len(ledger) + 1].bundle = b
        /\ \A i \in DOMAIN ledger : ledger'[i] = ledger[i]
    BY <1>1, <2>1, RowAppended
  <2>3. \A i \in DOMAIN ledger : ledger[i].bundle.key # b.key
    BY <2>1 DEF KeyFree, Committed, RowsOf
  <2>4. OneRowPerKey'
    <3> SUFFICES ASSUME NEW i \in DOMAIN ledger', NEW j \in DOMAIN ledger',
                        ledger'[i].bundle.key = ledger'[j].bundle.key
                 PROVE  i = j
      BY DEF OneRowPerKey
    <3>1. i \in DOMAIN ledger \/ i = Len(ledger) + 1
      BY <2>2
    <3>2. j \in DOMAIN ledger \/ j = Len(ledger) + 1
      BY <2>2
    <3> QED BY <2>2, <2>3, <3>1, <3>2 DEF IInv, OneRowPerKey
  <2>5. AnswersNameTheRow'
    <3> SUFFICES ASSUME NEW told \in answers'
                 PROVE  told[2] \in DOMAIN ledger' /\ ledger'[told[2]].bundle.key = told[1]
      BY DEF AnswersNameTheRow
    <3>1. CASE told \in answers
      BY <2>2, <3>1 DEF IInv, AnswersNameTheRow
    <3>2. CASE told = <<b.key, Len(ledger) + 1>>
      BY <2>2, <3>2
    <3> QED BY <2>1, <3>1, <3>2
  <2> QED BY <2>4, <2>5
<1> QED BY <1>2, <1>3, <1>4 DEF Effect

\* A row stays the row of its key.
LEMMA NamesKept ==
  ASSUME IInv, Effect, NEW k, NEW t, Names(k, t)
  PROVE  Names(k, t)'
<1>1. CASE UNCHANGED ledger
  BY <1>1 DEF Names
<1>2. CASE Booked
  <2>1. PICK b \in Bundles, d \in BOOLEAN : InsertRow(b, d)
    BY <1>2 DEF Booked
  <2>2. /\ Len(ledger) \in Nat /\ DOMAIN ledger = 1..Len(ledger)
        /\ DOMAIN ledger' = 1..(Len(ledger) + 1)
        /\ \A i \in DOMAIN ledger : ledger'[i] = ledger[i]
    BY <2>1, RowAppended DEF IInv, TypeOK, DbTypeOK
  <2> QED BY <2>2 DEF Names
<1> QED BY <1>1, <1>2 DEF Effect, Silent, Told

LEMMA ProposalsKept ==
  ASSUME IInv, Effect
  PROVE  ProposalsAreSound'
<1> SUFFICES ASSUME NEW k \in Keys, proposals'[k] # NULL, proposals'[k] = proposals[k]
             PROVE  ProposalIsSound(k)'
  BY DEF Effect, ProposalsEffect, ProposalsAreSound
<1>1. ProposalIsSound(k)
  BY DEF IInv, ProposalsAreSound
<1>2. ASSUME proposals[k].status = "committed" PROVE Names(k, proposals[k].tx)'
  <2>1. PICK t : t = proposals[k].tx
    OBVIOUS
  <2>2. Names(k, t)'
    BY <1>1, <1>2, <2>1, NamesKept DEF ProposalIsSound
  <2> QED BY <2>1, <2>2 DEF Names
<1> QED BY <1>1, <1>2 DEF ProposalIsSound

LEMMA InitSound ==
  ASSUME Init
  PROVE  IInv
<1>1. DbTypeOK
  BY EmptySeq DEF Init, DbTypeOK
<1>2. CallsTypeOK
  BY DEF Init, CallsTypeOK, Nothing, Seen, RecordSteps, DecisionSteps, PeriodSteps
<1>3. CallsAreSound
  BY DEF Init, CallsAreSound, CallIsSound, DecisionSteps
<1>4. ProposalsAreSound
  BY DEF Init, ProposalsAreSound
<1>5. OneRowPerKey /\ AnswersNameTheRow
  BY DEF Init, OneRowPerKey, AnswersNameTheRow
<1> QED BY <1>1, <1>2, <1>3, <1>4, <1>5 DEF IInv, TypeOK

LEMMA IInvKept ==
  ASSUME IInv, [Next]_vars
  PROVE  IInv' /\ Effect
<1>1. StepIsSound
  BY NextSound
<1> QED BY <1>1, RowsAndAnswersKept, ProposalsKept DEF StepIsSound, Effect, IInv, TypeOK

----------------------------------------------------------------------------
(* The theorems. *)

\* IInv holds of every reachable state.
THEOREM Invariance == Safety => []IInv
<1>1. Init => IInv
  BY InitSound
<1>2. IInv /\ [Next]_vars => IInv'
  BY IInvKept
<1> QED BY <1>1, <1>2, PTL DEF Safety

\* Every table row and every call in flight keeps its fields, for any number of sessions and rules:
\* no step runs past the rules or decides on a proposal that is not there.
THEOREM TypeCorrect == Safety => []TypeOK
<1>1. IInv => TypeOK
  BY DEF IInv
<1> QED BY <1>1, Invariance, PTL

\* However the record and approve calls of a key race, its key has one row.
THEOREM OneRowPerKeyHolds == Safety => []OneRowPerKey
<1>1. IInv => OneRowPerKey
  BY DEF IInv
<1> QED BY <1>1, Invariance, PTL

\* Exactly-once for clients: whatever id a call was answered with, by a commit, a replay, a conflict
\* or a stored proposal response, is the id of the key's row.
THEOREM AnswersNameTheRowHolds == Safety => []AnswersNameTheRow
<1>1. IInv => AnswersNameTheRow
  BY DEF IInv
<1> QED BY <1>1, Invariance, PTL

\* No step changes or removes a row of the ledger.
THEOREM LedgerIsAppendOnlyHolds == Safety => LedgerIsAppendOnly
<1> DEFINE Kept == Len(ledger') >= Len(ledger) /\ SubSeq(ledger', 1, Len(ledger)) = ledger
<1>1. ASSUME IInv, [Next]_vars PROVE [Kept]_ledger
  <2>1. CASE UNCHANGED ledger
    BY <2>1
  <2>2. CASE Booked
    <3>1. PICK b \in Bundles, d \in BOOLEAN : InsertRow(b, d)
      BY <2>2 DEF Booked
    <3>2. ledger \in Seq(Row)
      BY <1>1 DEF IInv, TypeOK, DbTypeOK
    <3>3. /\ ledger' \in Seq(Row) /\ Len(ledger) \in Nat /\ Len(ledger') = Len(ledger) + 1
          /\ DOMAIN ledger = 1..Len(ledger)
          /\ \A i \in DOMAIN ledger : ledger'[i] = ledger[i]
      BY <3>1, <3>2, RowAppended
    <3>4. \A i \in 1..Len(ledger) : ledger'[i] \in Row
      BY <3>3, ElementOfSeq
    <3>5. /\ SubSeq(ledger', 1, Len(ledger)) \in Seq(Row)
          /\ Len(SubSeq(ledger', 1, Len(ledger))) = Len(ledger)
          /\ \A i \in 1..Len(ledger) : SubSeq(ledger', 1, Len(ledger))[i] = ledger[i]
      BY <3>3, <3>4, SubSeqProperties
    <3>6. SubSeq(ledger', 1, Len(ledger)) = ledger
      BY <3>2, <3>5, SeqEqual
    <3> QED BY <3>3, <3>6
  <2> QED BY <1>1, <2>1, <2>2, IInvKept DEF Effect, Silent, Told
<1> QED BY <1>1, Invariance, PTL DEF Safety, LedgerIsAppendOnly

----------------------------------------------------------------------------
(* The refinement of CanonicalLedger: silent steps stutter, the others tell or commit. *)

\* The keys of the rows, in the order of their commits.
BookOf(rows) == [i \in DOMAIN rows |-> rows[i].bundle.key]

LEMMA BookAppended ==
  ASSUME ledger \in Seq(Row), NEW b \in Bundles, NEW d \in BOOLEAN, InsertRow(b, d)
  PROVE  /\ BookOf(ledger)' = Append(BookOf(ledger), b.key)
         /\ Len(BookOf(ledger)) = Len(ledger)
<1>1. /\ Len(ledger) \in Nat /\ DOMAIN ledger = 1..Len(ledger)
      /\ DOMAIN ledger' = 1..(Len(ledger) + 1)
      /\ ledger'[Len(ledger) + 1].bundle = b
      /\ \A i \in DOMAIN ledger : ledger'[i] = ledger[i]
  BY RowAppended
<1>2. \A i \in DOMAIN ledger : ledger[i].bundle.key \in Keys
  BY ElementOfSeq, <1>1 DEF Row, Keys
<1>3. BookOf(ledger) \in Seq(Keys) /\ Len(BookOf(ledger)) = Len(ledger)
  BY <1>1, <1>2 DEF BookOf
<1>4. /\ Append(BookOf(ledger), b.key) \in Seq(Keys)
      /\ Len(Append(BookOf(ledger), b.key)) = Len(ledger) + 1
      /\ \A i \in 1..Len(ledger) : Append(BookOf(ledger), b.key)[i] = ledger[i].bundle.key
      /\ Append(BookOf(ledger), b.key)[Len(ledger) + 1] = b.key
  BY <1>1, <1>3, AppendProperties DEF BookOf, Keys
<1>5. BookOf(ledger)' \in Seq(Keys) /\ Len(BookOf(ledger)') = Len(ledger) + 1
  BY <1>1, <1>2 DEF BookOf, Keys
<1>6. \A i \in 1..(Len(ledger) + 1) : BookOf(ledger)'[i] = Append(BookOf(ledger), b.key)[i]
  BY <1>1, <1>4 DEF BookOf
<1> QED BY <1>3, <1>4, <1>5, <1>6, SeqEqual

LEMMA StepImplements ==
  ASSUME IInv, [Next]_vars
  PROVE  [Canonical!Next]_<<BookOf(ledger), answers>>
<1>1. CASE Silent
  BY <1>1 DEF Silent, BookOf
<1>2. CASE Told
  <2>1. PICK t \in DOMAIN ledger : answers' = answers \union {<<ledger[t].bundle.key, t>>}
    BY <1>2 DEF Told
  <2>2. Canonical!Tell(t)
    BY <1>2, <2>1 DEF Told, Canonical!Tell
  <2> QED BY <2>1, <2>2 DEF Canonical!Next
<1>3. CASE Booked
  <2>1. PICK b \in Bundles, d \in BOOLEAN :
          /\ KeyFree(b) /\ InsertRow(b, d)
          /\ answers' = answers \union {<<b.key, Len(ledger) + 1>>}
    BY <1>3 DEF Booked
  <2>2. /\ BookOf(ledger)' = Append(BookOf(ledger), b.key)
        /\ Len(BookOf(ledger)) = Len(ledger)
    BY <2>1, BookAppended DEF IInv, TypeOK, DbTypeOK
  <2>3. \A i \in DOMAIN ledger : ledger[i].bundle.key # b.key
    BY <2>1 DEF KeyFree, Committed, RowsOf
  <2>4. Canonical!Commit(b.key) /\ b.key \in Keys
    BY <2>1, <2>2, <2>3 DEF Canonical!Commit, BookOf, Keys
  <2> QED BY <2>4 DEF Canonical!Next
<1> QED BY <1>1, <1>2, <1>3, IInvKept DEF Effect

\* Every record and approve call is, to the clients, a commit of its key, an answer about the key's
\* one commit, or nothing: the write path implements the ledger the constitution promises.
THEOREM Refinement == Safety => ImplementsCanonicalLedger
<1>1. Init => Canonical!Init
  BY DEF Init, Canonical!Init
<1>2. IInv /\ [Next]_vars => [Canonical!Next]_<<BookOf(ledger), answers>>
  BY StepImplements
<1> QED BY <1>1, <1>2, Invariance, PTL DEF Safety, ImplementsCanonicalLedger, Canonical!Spec, BookOf

----------------------------------------------------------------------------
(* Calls go forward: what CallsEnd rests on beside fairness. *)

RulesLeft(s) == Len(Rules) + 1 - seen[s].rule

\* The steps that a call may still take; each rule takes two, a window count and an all-time count.
StepsLeft(s) ==
  CASE pc[s] = "idle" -> 0
    [] pc[s] \in {"approve", "reject", "insert_period", "update_period", "conflict_proposal"} -> 1
    [] pc[s] \in {"approver_decision", "conflict_replay"} -> 2
    [] pc[s] \in {"insert_proposal", "insert_ledger"} -> 3
    [] pc[s] = "fetch_proposal" -> 4
    [] pc[s] = "duplicates" -> 5
    [] pc[s] = "all_time_velocity" -> 6 + 2 * RulesLeft(s)
    [] pc[s] = "policy" -> 7 + 2 * RulesLeft(s)
    [] pc[s] = "period" -> 8 + 2 * Len(Rules)

\* Every step of a call has fewer steps after it, and no step of another session gives it more: the
\* rule loop ends, and the recovery of a conflict is entered once (ledger/service.py:260).
Advances(s) == Step(s) => StepsLeft(s)' < StepsLeft(s)
StaysPut(s) == pc[s] # "idle" => StepsLeft(s)' <= StepsLeft(s)
CallsGoForward == [][\A s \in Sessions : Advances(s) /\ StaysPut(s)]_vars

LEMMA StepsLeftIsNat ==
  ASSUME IInv, NEW s \in Sessions
  PROVE  StepsLeft(s) \in Nat /\ (pc[s] # "idle" => StepsLeft(s) >= 1)
<1>1. pc[s] \in {"idle"} \union RecordSteps \union DecisionSteps \union PeriodSteps
  BY DEF IInv, TypeOK, CallsTypeOK
<1>2. Len(Rules) \in Nat
  BY RulesAssumption
<1>3. pc[s] \in {"policy", "all_time_velocity"} => RulesLeft(s) \in Nat
  BY <1>2 DEF IInv, CallsAreSound, CallIsSound, RulesLeft
<1> QED BY <1>1, <1>2, <1>3 DEF StepsLeft, RecordSteps, DecisionSteps, PeriodSteps

\* A session's own step: fewer steps to go, and the calls of the others as they were.
Forward(s) ==
  /\ StepsLeft(s)' < StepsLeft(s) /\ StepsLeft(s)' <= StepsLeft(s)
  /\ \A o \in Sessions \ {s} : StepsLeft(o)' = StepsLeft(o) /\ pc'[o] = pc[o]

LEMMA OthersWait ==
  ASSUME IInv, NEW s \in Sessions, NEW step, Goto(s, step),
         \A o \in Sessions \ {s} : seen'[o] = seen[o],
         StepsLeft(s)' < StepsLeft(s), StepsLeft(s)' <= StepsLeft(s)
  PROVE  Forward(s)
<1>1. \A o \in Sessions \ {s} : pc'[o] = pc[o]
  BY DEF Goto, IInv, TypeOK, CallsTypeOK
<1> QED BY <1>1 DEF Forward, StepsLeft, RulesLeft

LEMMA EndForward ==
  ASSUME IInv, NEW s \in Sessions, pc[s] # "idle", End(s)
  PROVE  Forward(s)
<1>1. pc'[s] = "idle" /\ \A o \in Sessions \ {s} : seen'[o] = seen[o]
  BY DEF End, Goto, IInv, TypeOK, CallsTypeOK
<1>2. StepsLeft(s)' = 0
  BY <1>1 DEF StepsLeft
<1>3. StepsLeft(s) \in Nat /\ StepsLeft(s) >= 1
  BY StepsLeftIsNat
<1> QED BY <1>1, <1>2, <1>3, OthersWait DEF End

\* A step outside the rule loop.
LEMMA GotoForward ==
  ASSUME IInv, NEW s \in Sessions, NEW step, Goto(s, step), UNCHANGED seen,
         \/ pc[s] = "duplicates" /\ step \in {"fetch_proposal", "insert_ledger"}
         \/ pc[s] = "fetch_proposal" /\ step = "insert_proposal"
         \/ pc[s] \in {"insert_proposal", "insert_ledger"} /\ step = "conflict_replay"
         \/ pc[s] = "conflict_replay" /\ step = "conflict_proposal"
         \/ pc[s] = "approver_decision" /\ step = "approve"
  PROVE  Forward(s)
<1>1. pc'[s] = step
  BY DEF Goto, IInv, TypeOK, CallsTypeOK
<1>2. StepsLeft(s)' < StepsLeft(s) /\ StepsLeft(s)' <= StepsLeft(s)
  BY <1>1 DEF StepsLeft
<1> QED BY <1>2, OthersWait

\* A step of the rule loop: to a later rule, to the second count of this one, or out.
LEMMA RuleForward ==
  ASSUME IInv, NEW s \in Sessions, NEW step, Goto(s, step), NEW rule \in 1..(Len(Rules) + 1),
         seen'[s].rule = rule, \A o \in Sessions \ {s} : seen'[o] = seen[o],
         \/ pc[s] = "period" /\ step = "policy"
         \/ pc[s] \in {"policy", "all_time_velocity"} /\ step = "policy" /\ rule > seen[s].rule
         \/ pc[s] = "policy" /\ step = "all_time_velocity" /\ rule = seen[s].rule
         \/ pc[s] \in {"policy", "all_time_velocity"} /\ step = "duplicates"
  PROVE  Forward(s)
<1>1. pc'[s] = step
  BY DEF Goto, IInv, TypeOK, CallsTypeOK
<1>2. Len(Rules) \in Nat
  BY RulesAssumption
<1>3. pc[s] \in {"policy", "all_time_velocity"} => seen[s].rule \in 1..(Len(Rules) + 1)
  BY <1>2 DEF IInv, CallsAreSound, CallIsSound
<1> DEFINE left == Len(Rules) + 1 - rule
<1>4. left \in Nat /\ left <= Len(Rules) /\ RulesLeft(s)' = left
  BY <1>2 DEF RulesLeft
<1>5. CASE pc[s] = "period"
  <2>1. StepsLeft(s) = 8 + 2 * Len(Rules) /\ StepsLeft(s)' = 7 + 2 * left
    BY <1>1, <1>4, <1>5 DEF StepsLeft
  <2> QED BY <1>2, <1>4, <2>1, OthersWait
<1>6. CASE pc[s] # "period"
  <2>1. RulesLeft(s) \in Nat /\ (rule > seen[s].rule => left < RulesLeft(s))
        /\ (rule = seen[s].rule => left = RulesLeft(s))
    BY <1>2, <1>3, <1>6 DEF RulesLeft
  <2>2. StepsLeft(s) = (IF pc[s] = "policy" THEN 7 ELSE 6) + 2 * RulesLeft(s)
    BY <1>6 DEF StepsLeft
  <2>3. StepsLeft(s)' = IF step = "policy" THEN 7 + 2 * left
                        ELSE IF step = "duplicates" THEN 5 ELSE 6 + 2 * left
    BY <1>1, <1>4, <1>6 DEF StepsLeft
  <2>4. StepsLeft(s)' < StepsLeft(s) /\ StepsLeft(s)' <= StepsLeft(s)
    <3> HIDE DEF left
    <3> QED BY <1>4, <1>6, <2>1, <2>2, <2>3
  <2> QED BY <2>4, OthersWait
<1> QED BY <1>5, <1>6

LEMMA DecideForward ==
  ASSUME IInv, NEW s \in Sessions, pc[s] \in {"policy", "all_time_velocity"},
         NEW gated, NEW required, Decide(s, gated, required)
  PROVE  Forward(s)
<1>1. seen \in [Sessions -> Seen]
  BY DEF IInv, TypeOK, CallsTypeOK
<1>2. /\ seen'[s].rule = seen[s].rule
      /\ \A o \in Sessions \ {s} : seen'[o] = seen[o]
  BY <1>1 DEF Decide, Seen
<1>3. seen[s].rule \in 1..(Len(Rules) + 1)
  BY RulesAssumption DEF IInv, CallsAreSound, CallIsSound
<1> QED BY <1>2, <1>3, RuleForward DEF Decide

LEMMA CountReachesForward ==
  ASSUME IInv, NEW s \in Sessions, pc[s] \in {"policy", "all_time_velocity"},
         seen[s].rule \in 1..Len(Rules), NEW count,
         CountReaches(s, Rules[seen[s].rule], count)
  PROVE  Forward(s)
<1> DEFINE i == seen[s].rule
           next == NextRule(arg[s], i + 1)
<1>1. CASE LimitReached(Rules[i], count)
  BY <1>1, DecideForward DEF CountReaches
<1>2. CASE ~LimitReached(Rules[i], count)
  <2>1. i \in Nat /\ Len(Rules) \in Nat /\ i + 1 \in 1..(Len(Rules) + 1)
    BY RulesAssumption
  <2>2. next \in (i + 1)..(Len(Rules) + 1)
    BY <2>1, NextRuleInRange
  <2>3. Goto(s, "policy") /\ seen' = [seen EXCEPT ![s].rule = next]
    BY <1>2 DEF CountReaches
  <2>4. seen \in [Sessions -> Seen]
    BY DEF IInv, TypeOK, CallsTypeOK
  <2> HIDE DEF next
  <2>5. /\ \A o \in Sessions \ {s} : seen'[o] = seen[o]
        /\ seen'[s].rule = next
    BY <2>3, <2>4 DEF Seen
  <2>6. next \in 1..(Len(Rules) + 1) /\ next > i
    BY <2>1, <2>2
  <2> QED BY <2>3, <2>5, <2>6, RuleForward
<1> QED BY <1>1, <1>2

LEMMA EnforcePeriodForward ==
  ASSUME IInv, NEW s \in Sessions, EnforcePeriod(s)
  PROVE  Forward(s)
<1>1. CASE PeriodRaises(arg[s])
  BY <1>1, EndForward DEF EnforcePeriod
<1>2. CASE ~PeriodRaises(arg[s])
  <2> DEFINE rule == NextRule(arg[s], 1)
             force == PeriodForces(arg[s])
  <2>1. rule \in 1..(Len(Rules) + 1)
    BY NextRuleInRange, RulesAssumption
  <2>2. /\ pc[s] = "period" /\ Goto(s, "policy")
        /\ seen' = [seen EXCEPT ![s].force = force, ![s].rule = rule]
    BY <1>2 DEF EnforcePeriod
  <2>3. seen \in [Sessions -> Seen]
    BY DEF IInv, TypeOK, CallsTypeOK
  <2> HIDE DEF rule, force
  <2>4. /\ \A o \in Sessions \ {s} : seen'[o] = seen[o]
        /\ seen'[s].rule = rule
    BY <2>2, <2>3 DEF Seen
  <2> QED BY <2>1, <2>2, <2>4, RuleForward
<1> QED BY <1>1, <1>2

LEMMA EvaluateRuleForward ==
  ASSUME IInv, NEW s \in Sessions, EvaluateRule(s)
  PROVE  Forward(s)
<1> DEFINE i == seen[s].rule
<1>1. pc[s] = "policy" /\ i \in 1..(Len(Rules) + 1) /\ Len(Rules) \in Nat
  BY RulesAssumption DEF EvaluateRule, IInv, CallsAreSound, CallIsSound
<1>2. CASE \E gated, required : Decide(s, gated, required)
  BY <1>1, <1>2, DecideForward
<1>3. CASE i <= Len(Rules) /\ \E count : CountReaches(s, Rules[i], count)
  <2>1. i \in 1..Len(Rules)
    BY <1>1, <1>3
  <2> QED BY <1>1, <1>3, <2>1, CountReachesForward
<1>4. CASE Goto(s, "all_time_velocity") /\ UNCHANGED seen
  BY <1>1, <1>4, RuleForward
<1> QED BY <1>1, <1>2, <1>3, <1>4 DEF EvaluateRule

LEMMA RecordStepForward ==
  ASSUME IInv, NEW s \in Sessions, RecordStep(s)
  PROVE  Forward(s)
<1>1. CASE AllTimeVelocity(s)
  <2>1. pc[s] = "all_time_velocity" /\ seen[s].rule \in 1..Len(Rules)
    BY <1>1 DEF AllTimeVelocity, IInv, CallsAreSound, CallIsSound
  <2> QED BY <1>1, <2>1, CountReachesForward DEF AllTimeVelocity
<1>2. CASE FindDuplicates(s) \/ FetchProposal(s)
  BY <1>2, EndForward, GotoForward DEF FindDuplicates, FetchProposal
<1>3. CASE InsertProposal(s) \/ InsertLedger(s)
  BY <1>3, EndForward DEF InsertProposal, InsertLedger
<1>4. CASE IntegrityError(s)
  BY <1>4, GotoForward DEF IntegrityError, IntegrityErrorRecovery
<1>5. CASE ConflictReplay(s) \/ ConflictProposal(s)
  BY <1>5, EndForward, GotoForward DEF ConflictReplay, ConflictProposal
<1> QED BY <1>1, <1>2, <1>3, <1>4, <1>5, EnforcePeriodForward, EvaluateRuleForward DEF RecordStep

LEMMA RollbackForward ==
  ASSUME IInv, NEW s \in Sessions, Rollback(s)
  PROVE  Forward(s)
BY EndForward DEF Rollback

LEMMA DecisionStepForward ==
  ASSUME IInv, NEW s \in Sessions, DecisionStep(s)
  PROVE  Forward(s)
<1>1. CASE CheckApproverDecision(s)
  BY <1>1, EndForward, GotoForward DEF CheckApproverDecision
<1>2. CASE ApproveBelowQuorum(s) \/ ApproveAndCommit(s) \/ ApproveAndAdopt(s) \/ Reject(s)
  BY <1>2, EndForward DEF ApproveBelowQuorum, ApproveAndCommit, ApproveAndAdopt, Reject, Decided
<1> QED BY <1>1, <1>2, RollbackForward DEF DecisionStep, ApproveFails, RejectFails

LEMMA StepForward ==
  ASSUME IInv, NEW s \in Sessions, Step(s)
  PROVE  Forward(s)
<1>1. ASSUME PeriodStep(s) PROVE Forward(s)
  BY <1>1, EndForward, RollbackForward
     DEF PeriodStep, InsertPeriod, InsertPeriodFails, UpdatePeriod, WritePeriod
<1> QED BY <1>1, RecordStepForward, DecisionStepForward DEF Step

\* A call begins at a session that has none, so it gives no other call a step.
LEMMA CallLeavesOthers ==
  ASSUME IInv, NEW s \in Sessions, Call(s)
  PROVE  /\ pc[s] = "idle"
         /\ \A o \in Sessions \ {s} : StepsLeft(o)' = StepsLeft(o)
<1>1. pc[s] = "idle"
  BY DEF Call, ResolveReplay, ReadForApproval, ReadForRejection, ReadPeriod
<1>2. UNCHANGED <<pc, arg, seen>> \/ \E x, step : Begin(s, x, step)
  BY DEF Call, ResolveReplay, ReadForApproval, ReadForRejection, ReadPeriod
<1>3. \A o \in Sessions \ {s} : pc'[o] = pc[o] /\ seen'[o] = seen[o]
  BY <1>2 DEF Begin, Goto, IInv, TypeOK, CallsTypeOK
<1> QED BY <1>1, <1>3 DEF StepsLeft, RulesLeft

\* No call runs on and on: each of its steps leaves fewer, and what others do leaves it no more.  With
\* the fairness of Spec, and a step always possible, this is why CallsEnd holds.
THEOREM CallsGoForwardHolds == Safety => CallsGoForward
<1> DEFINE Go == \A s \in Sessions : Advances(s) /\ StaysPut(s)
<1>1. ASSUME IInv, [Next]_vars PROVE [Go]_vars
  <2> SUFFICES ASSUME NEW s \in Sessions PROVE UNCHANGED vars \/ (Advances(s) /\ StaysPut(s))
    BY Zenon
  <2>1. Advances(s)
    BY <1>1, StepForward DEF Advances, Forward
  <2>2. ASSUME NEW o \in Sessions, Call(o) \/ Step(o) \/ Rollback(o) PROVE StaysPut(s)
    <3>1. CASE Call(o)
      <4>1. pc[o] = "idle" /\ (o # s => StepsLeft(s)' = StepsLeft(s))
        BY <1>1, <3>1, CallLeavesOthers
      <4> QED BY <1>1, <4>1, StepsLeftIsNat DEF StaysPut
    <3>2. CASE Step(o) \/ Rollback(o)
      <4>1. Forward(o)
        BY <1>1, <3>2, StepForward, RollbackForward
      <4> QED BY <1>1, <4>1, IInvKept, StepsLeftIsNat DEF Forward, StaysPut
    <3> QED BY <2>2, <3>1, <3>2
  <2> QED BY <1>1, <2>1, <2>2 DEF Next
<1> QED BY <1>1, Invariance, PTL DEF Safety, CallsGoForward
=============================================================================
