------------------------ MODULE GateDecisions_proofs ------------------------
(***************************************************************************)
(* Proofs about what lets a bundle into the ledger: its balance, its       *)
(* threshold, and the quorum of its proposal.                              *)
(*                                                                         *)
(* DInv adds to IInv what a record call has established by the step it     *)
(* stands at, and what decisions mean for a proposal.  It is inductive     *)
(* because the approvals of a key are counted under the write lock, only   *)
(* ever grow, and are counted against a number that never changes; and     *)
(* because a call carries its bundle and its policy unchanged to the       *)
(* write.                                                                  *)
(***************************************************************************)
EXTENDS TransactionGate_proofs, FiniteSetTheorems

----------------------------------------------------------------------------
(* The inductive invariant. *)

Balanced(b) == ensure_balanced(b.postings)
UnderThreshold(b) == transaction_impact_amount(b.postings) <= BaseThreshold(b)

\* A record call at its rule has passed no rule that would have settled its threshold.
RulesPassed(s) ==
  /\ \A m \in 1..(seen[s].rule - 1) : StaticMatch(arg[s], Rules[m]) => HasVelocity(Rules[m])
  /\ seen[s].rule <= Len(Rules) => StaticMatch(arg[s], Rules[seen[s].rule])
  /\ pc[s] = "all_time_velocity" => HasVelocity(Rules[seen[s].rule])

\* What a record call has checked when it stands at a step.
CallIsChecked(s) ==
  /\ pc[s] \in RecordSteps => Balanced(arg[s])
  /\ pc[s] \in {"policy", "all_time_velocity"} => RulesPassed(s)
  /\ pc[s] = "duplicates" /\ ~seen[s].gated => UnderThreshold(arg[s])
  /\ pc[s] = "insert_ledger" => UnderThreshold(arg[s])
CallsAreChecked == \A s \in Sessions : CallIsChecked(s)

HasQuorum(k) == ApprovalCount(k) >= proposals[k].required

\* Decisions are about proposals, and the status of a proposal tells whether it has its quorum.
KeyIsDecided(k) ==
  /\ proposals[k] = NULL => \A d \in decisions : d.key # k
  /\ proposals[k] # NULL =>
       /\ Balanced(proposals[k].request)
       /\ HasQuorum(k) => proposals[k].status # "proposed" /\ Committed(k)
       /\ proposals[k].status = "committed" => HasQuorum(k)
KeysAreDecided == \A k \in Keys : KeyIsDecided(k)

\* Why a row may be in the ledger.
RowIsJustified(row) ==
  /\ Balanced(row.bundle)
  /\ IF row.direct
       THEN UnderThreshold(row.bundle)
       ELSE /\ proposals[row.bundle.key] # NULL
            /\ proposals[row.bundle.key].request = row.bundle
            /\ HasQuorum(row.bundle.key)
RowsAreJustified == \A i \in DOMAIN ledger : RowIsJustified(ledger[i])

DInv == CallsAreChecked /\ KeysAreDecided /\ RowsAreJustified

----------------------------------------------------------------------------
(* Counting approvals. *)

LEMMA ApproversAreFinite ==
  ASSUME NEW T, T \subseteq ApproverIds
  PROVE  /\ IsFiniteSet(T) /\ Cardinality(T) \in Nat
         /\ IsFiniteSet(T \ {NULL}) /\ Cardinality(T \ {NULL}) \in Nat
<1>1. IsFiniteSet(ApproverIds)
  BY ApproversAssumption, FS_AddElement DEF ApproverIds
<1>2. T \in SUBSET ApproverIds /\ T \ {NULL} \in SUBSET ApproverIds
  OBVIOUS
<1>3. IsFiniteSet(T) /\ IsFiniteSet(T \ {NULL})
  BY <1>1, <1>2, FS_Subset
<1> QED BY <1>3, FS_CardinalityType

LEMMA ApproversAreTyped ==
  ASSUME TypeOK, NEW k
  PROVE  ApproversOf(k) \subseteq ApproverIds
BY DEF ApproversOf, TypeOK, DbTypeOK, Decision

LEMMA CountIsNat ==
  ASSUME TypeOK, NEW k \in Keys
  PROVE  ApprovalCount(k) \in Nat
BY ApproversAreFinite, ApproversAreTyped DEF ApprovalCount

\* Decisions are never withdrawn and the number asked for is fixed: approvals only add up.
LEMMA CountGrows ==
  ASSUME TypeOK, TypeOK', NEW k \in Keys, decisions \subseteq decisions',
         proposals'[k].required = proposals[k].required
  PROVE  /\ ApprovalCount(k) <= ApprovalCount(k)'
         /\ ApprovalCount(k)' \in Nat
<1>1. ApproversOf(k) \subseteq ApproversOf(k)'
  BY DEF ApproversOf
<1>a. ApproversOf(k)' \subseteq ApproverIds
  BY DEF ApproversOf, TypeOK, DbTypeOK, Decision
<1>2. PICK T : T = ApproversOf(k)' /\ T \subseteq ApproverIds
  BY <1>a
<1>3. /\ IsFiniteSet(T) /\ Cardinality(T) \in Nat
      /\ IsFiniteSet(T \ {NULL}) /\ Cardinality(T \ {NULL}) \in Nat
  BY <1>2, ApproversAreFinite
<1>4. /\ Cardinality(ApproversOf(k)) <= Cardinality(T)
      /\ Cardinality(ApproversOf(k) \ {NULL}) <= Cardinality(T \ {NULL})
  <2>1. ApproversOf(k) \in SUBSET T /\ ApproversOf(k) \ {NULL} \in SUBSET (T \ {NULL})
    BY <1>1, <1>2
  <2> QED BY <1>3, <2>1, FS_Subset
<1> QED BY <1>2, <1>3, <1>4 DEF ApprovalCount

\* What a call counts under the lock is what is there after its decision.
LEMMA CountAfterApproval ==
  ASSUME NEW k, NEW a, decisions' = decisions \union {Approval(k, a)},
         proposals'[k].required = proposals[k].required
  PROVE  ApprovalCount(k)' = CountWith(k, a)
<1>1. ApproversOf(k)' = ApproversOf(k) \union {a}
  <2>1. Approval(k, a).key = k /\ Approval(k, a).action = "approve" /\ Approval(k, a).approver = a
    BY DEF Approval
  <2>2. {e \in decisions' : e.key = k /\ e.action = "approve"}
          = {e \in decisions : e.key = k /\ e.action = "approve"} \union {Approval(k, a)}
    BY <2>1
  <2> QED BY <2>1, <2>2 DEF ApproversOf
<1> QED BY <1>1 DEF ApprovalCount, CountWith

\* Without a new approval of the key its count stays.
LEMMA CountStays ==
  ASSUME NEW k, proposals'[k].required = proposals[k].required,
         \A d : d.key = k /\ d.action = "approve" => (d \in decisions <=> d \in decisions')
  PROVE  ApprovalCount(k)' = ApprovalCount(k)
<1>1. ApproversOf(k)' = ApproversOf(k)
  BY DEF ApproversOf
<1> QED BY <1>1 DEF ApprovalCount

----------------------------------------------------------------------------
(* What a step can do to the rows, the proposals and the decisions. *)

NoGate == UNCHANGED <<ledger, proposals, decisions>>

DirectWrite ==
  \E b \in Bundles :
    /\ Balanced(b) /\ UnderThreshold(b)
    /\ InsertRow(b, TRUE)
    /\ UNCHANGED <<proposals, decisions>>

Proposed ==
  \E b \in Bundles, n \in Nat \ {0} :
    /\ Balanced(b)
    /\ proposals[b.key] = NULL
    /\ proposals' = [proposals EXCEPT ![b.key] =
         [request |-> b, status |-> "proposed", required |-> n, tx |-> 0]]
    /\ UNCHANGED <<ledger, decisions>>

Short(k, a) == ~QuorumReached(k, a) /\ Persist(k, "proposed", 0) /\ UNCHANGED ledger

Reached(k, a) ==
  /\ QuorumReached(k, a)
  /\ \E tx \in Nat : Persist(k, "committed", tx)
  /\ (UNCHANGED ledger /\ Committed(k)) \/ InsertRow(proposals[k].request, FALSE)

Approved(k) ==
  \E a \in ApproverIds :
    decisions' = decisions \union {Approval(k, a)} /\ (Short(k, a) \/ Reached(k, a))

Rejected(k) ==
  \E a \in ApproverIds :
    /\ decisions' = decisions \union {Rejection(k, a)}
    /\ Persist(k, "rejected", 0)
    /\ UNCHANGED ledger

GateEffect ==
  \/ NoGate
  \/ DirectWrite
  \/ Proposed
  \/ \E k \in Keys : proposals[k] # NULL /\ (Approved(k) \/ Rejected(k))

----------------------------------------------------------------------------
(* The call of a session. *)

LEMMA EndChecked ==
  ASSUME IInv, CallsAreChecked, NEW s \in Sessions, End(s)
  PROVE  CallsAreChecked'
<1> SUFFICES ASSUME NEW o \in Sessions PROVE CallIsChecked(o)'
  BY DEF CallsAreChecked
<1>1. CASE o = s
  <2>1. pc'[s] = "idle"
    BY DEF End, Goto, IInv, TypeOK, CallsTypeOK
  <2> QED BY <1>1, <2>1 DEF CallIsChecked, RecordSteps
<1>2. CASE o # s
  <2>1. pc'[o] = pc[o] /\ arg'[o] = arg[o] /\ seen'[o] = seen[o]
    BY <1>2 DEF End, Goto, IInv, TypeOK, CallsTypeOK
  <2> QED BY <2>1 DEF CallsAreChecked, CallIsChecked, RulesPassed
<1> QED BY <1>1, <1>2

LEMMA BeginChecked ==
  ASSUME IInv, CallsAreChecked, NEW s \in Sessions, NEW x, NEW step, Begin(s, x, step),
         \/ step = "period" /\ Balanced(x)
         \/ step \in DecisionSteps \union PeriodSteps
  PROVE  CallsAreChecked'
<1> SUFFICES ASSUME NEW o \in Sessions PROVE CallIsChecked(o)'
  BY DEF CallsAreChecked
<1>1. CASE o = s
  <2>1. pc'[s] = step /\ arg'[s] = x
    BY DEF Begin, Goto, IInv, TypeOK, CallsTypeOK
  <2> QED BY <1>1, <2>1 DEF CallIsChecked, RecordSteps, DecisionSteps, PeriodSteps
<1>2. CASE o # s
  <2>1. pc'[o] = pc[o] /\ arg'[o] = arg[o] /\ seen'[o] = seen[o]
    BY <1>2 DEF Begin, Goto, IInv, TypeOK, CallsTypeOK
  <2> QED BY <2>1 DEF CallsAreChecked, CallIsChecked, RulesPassed
<1> QED BY <1>1, <1>2

LEMMA GotoChecked ==
  ASSUME IInv, CallsAreChecked, NEW s \in Sessions, NEW step, Goto(s, step), UNCHANGED arg,
         \A o \in Sessions \ {s} : seen'[o] = seen[o],
         CallIsChecked(s)'
  PROVE  CallsAreChecked'
<1> SUFFICES ASSUME NEW o \in Sessions \ {s} PROVE CallIsChecked(o)'
  BY DEF CallsAreChecked
<1>1. pc'[o] = pc[o] /\ arg'[o] = arg[o] /\ seen'[o] = seen[o]
  BY DEF Goto, IInv, TypeOK, CallsTypeOK
<1> QED BY <1>1 DEF CallsAreChecked, CallIsChecked, RulesPassed

LEMMA SameCallsChecked ==
  ASSUME CallsAreChecked, UNCHANGED <<pc, arg, seen>>
  PROVE  CallsAreChecked'
BY DEF CallsAreChecked, CallIsChecked, RulesPassed

\* A step to a step that asks for nothing more than the balance.
LEMMA PlainGotoChecked ==
  ASSUME IInv, CallsAreChecked, NEW s \in Sessions, NEW step, Goto(s, step), UNCHANGED <<arg, seen>>,
         pc[s] \in RecordSteps \union DecisionSteps,
         step \in RecordSteps => pc[s] \in RecordSteps,
         step \notin {"policy", "all_time_velocity", "duplicates", "insert_ledger"}
  PROVE  CallsAreChecked'
<1>1. pc'[s] = step
  BY DEF Goto, IInv, TypeOK, CallsTypeOK
<1>2. CallIsChecked(s)'
  BY <1>1 DEF CallsAreChecked, CallIsChecked
<1> QED BY <1>2, GotoChecked

----------------------------------------------------------------------------
(* The policy. *)

\* The rule that settles the threshold is the first of those that match without a velocity limit.
LEMMA ThresholdOfRule ==
  ASSUME NEW b, NEW i \in 1..Len(Rules), StaticMatch(b, Rules[i]), ~HasVelocity(Rules[i]),
         \A m \in 1..(i - 1) : StaticMatch(b, Rules[m]) => HasVelocity(Rules[m])
  PROVE  BaseThreshold(b) = Rules[i].threshold
<1> DEFINE settling == {m \in DOMAIN Rules : StaticMatch(b, Rules[m]) /\ ~HasVelocity(Rules[m])}
<1>1. Len(Rules) \in Nat /\ DOMAIN Rules = 1..Len(Rules)
  BY RulesAssumption
<1>2. i \in settling /\ settling # {}
  BY <1>1
<1>3. \A m \in settling : m \in Nat /\ i <= m
  BY <1>1
<1>4. (CHOOSE m \in settling : \A j \in settling : m <= j) = i
  <2> HIDE DEF settling
  <2>1. \E m \in settling : \A j \in settling : m <= j
    BY <1>2, <1>3
  <2>2. \A m \in settling : (\A j \in settling : m <= j) => m = i
    BY <1>2, <1>3
  <2> QED BY <2>1, <2>2
<1> QED BY <1>2, <1>4 DEF BaseThreshold

LEMMA ThresholdOfNoRule ==
  ASSUME NEW b, \A m \in 1..Len(Rules) : StaticMatch(b, Rules[m]) => HasVelocity(Rules[m])
  PROVE  BaseThreshold(b) = Threshold
BY RulesAssumption DEF BaseThreshold

LEMMA NotOverIsUnder ==
  ASSUME NEW b \in Bundles, NEW threshold \in Int, ~OverThreshold(b, threshold),
         BaseThreshold(b) = threshold
  PROVE  UnderThreshold(b)
<1>1. transaction_impact_amount(b.postings) \in Int
  BY BundlesAssumption, ImpactIsInt
<1> QED BY <1>1 DEF OverThreshold, UnderThreshold

----------------------------------------------------------------------------
(* record_transaction_bundle. *)

\* What a step keeps of the calls and does to the gate.
StepIsChecked == GateEffect /\ CallsAreChecked'

LEMMA ResolveReplayChecked ==
  ASSUME IInv, CallsAreChecked, NEW s \in Sessions, NEW b \in Bundles, ResolveReplay(s, b)
  PROVE  StepIsChecked
<1>1. CASE Committed(b.key)
  BY <1>1, SameCallsChecked DEF ResolveReplay, OnlyLog, NoGate, GateEffect, StepIsChecked
<1>2. CASE ~Committed(b.key)
  BY <1>2, BeginChecked DEF ResolveReplay, Balanced, db, NoGate, GateEffect, StepIsChecked
<1> QED BY <1>1, <1>2

LEMMA EnforcePeriodChecked ==
  ASSUME IInv, CallsAreChecked, NEW s \in Sessions, EnforcePeriod(s)
  PROVE  StepIsChecked
<1>1. GateEffect
  BY DEF EnforcePeriod, db, NoGate, GateEffect
<1>2. CASE PeriodRaises(arg[s])
  BY <1>1, <1>2, EndChecked DEF EnforcePeriod, StepIsChecked
<1>3. CASE ~PeriodRaises(arg[s])
  <2> DEFINE rule == NextRule(arg[s], 1)
             force == PeriodForces(arg[s])
  <2>1. /\ rule \in 1..(Len(Rules) + 1)
        /\ rule <= Len(Rules) => StaticMatch(arg[s], Rules[rule])
        /\ \A m \in 1..(rule - 1) : ~StaticMatch(arg[s], Rules[m])
    BY NextRuleInRange, RulesAssumption
  <2>2. /\ pc[s] = "period" /\ Goto(s, "policy") /\ UNCHANGED arg
        /\ seen' = [seen EXCEPT ![s].force = force, ![s].rule = rule]
    BY <1>3 DEF EnforcePeriod
  <2>3. seen \in [Sessions -> Seen] /\ pc \in [Sessions -> {"idle"} \union RecordSteps \union DecisionSteps \union PeriodSteps]
    BY DEF IInv, TypeOK, CallsTypeOK
  <2> HIDE DEF rule, force
  <2>4. /\ \A o \in Sessions \ {s} : seen'[o] = seen[o]
        /\ seen'[s].rule = rule
        /\ pc'[s] = "policy" /\ arg'[s] = arg[s]
    BY <2>2, <2>3 DEF Goto, Seen
  <2>5. Balanced(arg[s])
    BY <2>2 DEF CallsAreChecked, CallIsChecked, RecordSteps
  <2>6. CallIsChecked(s)'
    BY <2>1, <2>4, <2>5 DEF CallIsChecked, RulesPassed, Balanced
  <2> QED BY <1>1, <2>2, <2>4, <2>6, GotoChecked DEF StepIsChecked
<1> QED BY <1>2, <1>3

\* A rule that lets the bundle through, or forces a proposal.
LEMMA DecideChecked ==
  ASSUME IInv, CallsAreChecked, GateEffect, NEW s \in Sessions,
         pc[s] \in {"policy", "all_time_velocity"},
         NEW gated \in BOOLEAN, NEW required, Decide(s, gated, required),
         gated \/ UnderThreshold(arg[s])
  PROVE  StepIsChecked
<1>1. seen \in [Sessions -> Seen] /\ pc \in [Sessions -> {"idle"} \union RecordSteps \union DecisionSteps \union PeriodSteps]
  BY DEF IInv, TypeOK, CallsTypeOK
<1>2. /\ \A o \in Sessions \ {s} : seen'[o] = seen[o]
      /\ gated => seen'[s].gated
      /\ pc'[s] = "duplicates" /\ arg'[s] = arg[s]
  BY <1>1 DEF Decide, Goto, Seen
<1>3. Balanced(arg[s])
  BY DEF CallsAreChecked, CallIsChecked, RecordSteps
<1>4. CallIsChecked(s)'
  BY <1>2, <1>3 DEF CallIsChecked, Balanced, UnderThreshold
<1> QED BY <1>2, <1>4, GotoChecked DEF Decide, StepIsChecked

LEMMA CountReachesChecked ==
  ASSUME IInv, CallsAreChecked, GateEffect, NEW s \in Sessions,
         pc[s] \in {"policy", "all_time_velocity"}, RulesPassed(s),
         seen[s].rule \in 1..Len(Rules), HasVelocity(Rules[seen[s].rule]), NEW count,
         CountReaches(s, Rules[seen[s].rule], count)
  PROVE  StepIsChecked
<1> DEFINE i == seen[s].rule
           next == NextRule(arg[s], i + 1)
<1>1. CASE LimitReached(Rules[i], count)
  BY <1>1, DecideChecked DEF CountReaches
<1>2. CASE ~LimitReached(Rules[i], count)
  <2>1. i \in Nat /\ i + 1 \in 1..(Len(Rules) + 1)
    BY RulesAssumption
  <2>2. /\ next \in (i + 1)..(Len(Rules) + 1)
        /\ next <= Len(Rules) => StaticMatch(arg[s], Rules[next])
        /\ \A m \in (i + 1)..(next - 1) : ~StaticMatch(arg[s], Rules[m])
    BY <2>1, NextRuleInRange
  <2>3. Goto(s, "policy") /\ seen' = [seen EXCEPT ![s].rule = next] /\ UNCHANGED arg
    BY <1>2 DEF CountReaches
  <2>4. seen \in [Sessions -> Seen] /\ pc \in [Sessions -> {"idle"} \union RecordSteps \union DecisionSteps \union PeriodSteps]
    BY DEF IInv, TypeOK, CallsTypeOK
  <2>5. \A m \in 1..(next - 1) : StaticMatch(arg[s], Rules[m]) => HasVelocity(Rules[m])
    <3> HIDE DEF next
    <3>1. ASSUME NEW m \in 1..(next - 1), StaticMatch(arg[s], Rules[m]) PROVE HasVelocity(Rules[m])
      <4>1. m \in 1..(i - 1) \/ m = i
        BY <2>1, <2>2, <3>1, RulesAssumption
      <4> QED BY <3>1, <4>1 DEF RulesPassed
    <3> QED BY <3>1
  <2> HIDE DEF next
  <2>6. /\ \A o \in Sessions \ {s} : seen'[o] = seen[o]
        /\ seen'[s].rule = next
        /\ pc'[s] = "policy" /\ arg'[s] = arg[s]
    BY <2>3, <2>4 DEF Goto, Seen
  <2>7. Balanced(arg[s])
    BY DEF CallsAreChecked, CallIsChecked, RecordSteps
  <2>8. CallIsChecked(s)'
    BY <2>2, <2>5, <2>6, <2>7 DEF CallIsChecked, RulesPassed, Balanced
  <2> QED BY <2>3, <2>6, <2>8, GotoChecked DEF StepIsChecked
<1> QED BY <1>1, <1>2

LEMMA EvaluateRuleChecked ==
  ASSUME IInv, CallsAreChecked, NEW s \in Sessions, EvaluateRule(s)
  PROVE  StepIsChecked
<1> DEFINE i == seen[s].rule
           b == arg[s]
<1>1. GateEffect
  BY DEF EvaluateRule, db, NoGate, GateEffect
<1>2. pc[s] = "policy" /\ RulesPassed(s) /\ b \in Bundles
  BY BundleOfCall DEF EvaluateRule, CallsAreChecked, CallIsChecked, RecordSteps
<1>3. i \in 1..(Len(Rules) + 1) /\ Len(Rules) \in Nat
  BY <1>2, RulesAssumption DEF IInv, CallsAreSound, CallIsSound
<1>4. CASE i > Len(Rules)
  <2>1. Decide(s, OverThreshold(b, Threshold), 1)
    BY <1>3, <1>4 DEF EvaluateRule
  <2>2. OverThreshold(b, Threshold) \/ UnderThreshold(b)
    <3>1. \A m \in 1..Len(Rules) : StaticMatch(b, Rules[m]) => HasVelocity(Rules[m])
      BY <1>2, <1>3, <1>4 DEF RulesPassed
    <3> QED BY <1>2, <3>1, ThresholdOfNoRule, NotOverIsUnder, PeriodsAssumption
  <2>3. OverThreshold(b, Threshold) \in BOOLEAN
    BY DEF OverThreshold
  <2> QED BY <1>1, <1>2, <2>1, <2>2, <2>3, DecideChecked
<1>5. CASE i <= Len(Rules) /\ ~HasVelocity(Rules[i])
  <2>1. Decide(s, OverThreshold(b, Rules[i].threshold), Rules[i].required)
    BY <1>3, <1>5 DEF EvaluateRule
  <2>2. OverThreshold(b, Rules[i].threshold) \/ UnderThreshold(b)
    <3>1. i \in 1..Len(Rules) /\ Rules[i].threshold \in Int
      BY <1>3, <1>5, RulesAssumption
    <3>2. BaseThreshold(b) = Rules[i].threshold
      BY <1>2, <1>5, <3>1, ThresholdOfRule DEF RulesPassed
    <3> QED BY <1>2, <3>1, <3>2, NotOverIsUnder
  <2>3. OverThreshold(b, Rules[i].threshold) \in BOOLEAN
    BY DEF OverThreshold
  <2> QED BY <1>1, <1>2, <2>1, <2>2, <2>3, DecideChecked
<1>6. CASE /\ i <= Len(Rules) /\ HasVelocity(Rules[i])
           /\ CountReaches(s, Rules[i], Cardinality(WindowRows(b, Rules[i])))
  BY <1>1, <1>2, <1>3, <1>6, CountReachesChecked
<1>7. CASE /\ i <= Len(Rules) /\ HasVelocity(Rules[i])
           /\ Goto(s, "all_time_velocity") /\ UNCHANGED <<arg, seen>>
  <2>1. pc'[s] = "all_time_velocity" /\ Balanced(b)
    BY <1>2, <1>7 DEF Goto, IInv, TypeOK, CallsTypeOK, CallsAreChecked, CallIsChecked, RecordSteps
  <2>2. CallIsChecked(s)'
    BY <1>2, <1>7, <2>1 DEF CallIsChecked, RulesPassed, Balanced
  <2> QED BY <1>1, <1>7, <2>2, GotoChecked DEF StepIsChecked
<1> QED BY <1>3, <1>4, <1>5, <1>6, <1>7 DEF EvaluateRule

LEMMA AllTimeVelocityChecked ==
  ASSUME IInv, CallsAreChecked, NEW s \in Sessions, AllTimeVelocity(s)
  PROVE  StepIsChecked
<1>1. GateEffect
  BY DEF AllTimeVelocity, db, NoGate, GateEffect
<1>2. /\ pc[s] = "all_time_velocity" /\ seen[s].rule \in 1..Len(Rules)
      /\ RulesPassed(s) /\ HasVelocity(Rules[seen[s].rule])
  BY DEF AllTimeVelocity, IInv, CallsAreSound, CallIsSound, CallsAreChecked, CallIsChecked, RulesPassed
<1> QED BY <1>1, <1>2, CountReachesChecked DEF AllTimeVelocity

LEMMA FindDuplicatesChecked ==
  ASSUME IInv, CallsAreChecked, NEW s \in Sessions, FindDuplicates(s)
  PROVE  StepIsChecked
<1>1. GateEffect
  BY DEF FindDuplicates, NoGate, GateEffect
<1>2. Balanced(arg[s]) /\ (~seen[s].gated => UnderThreshold(arg[s]))
  BY DEF FindDuplicates, CallsAreChecked, CallIsChecked, RecordSteps
<1>3. pc'[s] = IF seen[s].gated \/ DuplicateMatches(arg[s]) # {} THEN "fetch_proposal" ELSE "insert_ledger"
  BY DEF FindDuplicates, Goto, IInv, TypeOK, CallsTypeOK
<1>4. CallIsChecked(s)'
  BY <1>2, <1>3 DEF FindDuplicates, CallIsChecked, Balanced, UnderThreshold
<1> QED BY <1>1, <1>4, GotoChecked DEF FindDuplicates, StepIsChecked

LEMMA FetchProposalChecked ==
  ASSUME IInv, CallsAreChecked, NEW s \in Sessions, FetchProposal(s)
  PROVE  StepIsChecked
<1>1. GateEffect
  BY DEF FetchProposal, OnlyLog, NoGate, GateEffect
<1> QED BY <1>1, EndChecked, PlainGotoChecked DEF FetchProposal, RecordSteps, StepIsChecked

LEMMA IntegrityErrorChecked ==
  ASSUME IInv, CallsAreChecked, NEW s \in Sessions, IntegrityError(s)
  PROVE  StepIsChecked
<1>1. GateEffect
  BY DEF IntegrityError, NoGate, GateEffect
<1> QED BY <1>1, PlainGotoChecked
        DEF IntegrityError, IntegrityErrorRecovery, RecordSteps, StepIsChecked

LEMMA ConflictReplayChecked ==
  ASSUME IInv, CallsAreChecked, NEW s \in Sessions, ConflictReplay(s)
  PROVE  StepIsChecked
<1>1. GateEffect
  BY DEF ConflictReplay, OnlyLog, NoGate, GateEffect
<1> QED BY <1>1, EndChecked, PlainGotoChecked DEF ConflictReplay, RecordSteps, StepIsChecked

LEMMA ConflictProposalChecked ==
  ASSUME IInv, CallsAreChecked, NEW s \in Sessions, ConflictProposal(s)
  PROVE  StepIsChecked
<1>1. GateEffect
  BY DEF ConflictProposal, OnlyLog, db, NoGate, GateEffect
<1> QED BY <1>1, EndChecked DEF ConflictProposal, StepIsChecked

LEMMA InsertProposalChecked ==
  ASSUME IInv, CallsAreChecked, NEW s \in Sessions, InsertProposal(s)
  PROVE  StepIsChecked
<1>1. arg[s] \in Bundles /\ Balanced(arg[s])
  BY BundleOfCall DEF InsertProposal, RecordSteps, CallsAreChecked, CallIsChecked
<1>2. seen[s].required \in Nat \ {0}
  BY DEF IInv, TypeOK, CallsTypeOK, Seen
<1>3. Proposed
  BY <1>1, <1>2 DEF InsertProposal, Proposed
<1> QED BY <1>3, EndChecked DEF InsertProposal, GateEffect, StepIsChecked

LEMMA InsertLedgerChecked ==
  ASSUME IInv, CallsAreChecked, NEW s \in Sessions, InsertLedger(s)
  PROVE  StepIsChecked
<1>1. arg[s] \in Bundles /\ Balanced(arg[s]) /\ UnderThreshold(arg[s])
  BY BundleOfCall DEF InsertLedger, RecordSteps, CallsAreChecked, CallIsChecked
<1>2. DirectWrite
  BY <1>1 DEF InsertLedger, DirectWrite
<1> QED BY <1>2, EndChecked DEF InsertLedger, GateEffect, StepIsChecked

LEMMA RecordStepChecked ==
  ASSUME IInv, CallsAreChecked, NEW s \in Sessions, RecordStep(s)
  PROVE  StepIsChecked
BY EnforcePeriodChecked, EvaluateRuleChecked, AllTimeVelocityChecked, FindDuplicatesChecked,
   FetchProposalChecked, InsertProposalChecked, InsertLedgerChecked, IntegrityErrorChecked,
   ConflictReplayChecked, ConflictProposalChecked DEF RecordStep

----------------------------------------------------------------------------
(* approve_proposed_transaction and reject_proposed_transaction. *)

LEMMA ReadForApprovalChecked ==
  ASSUME IInv, CallsAreChecked, NEW s \in Sessions, NEW k, NEW a, ReadForApproval(s, k, a)
  PROVE  StepIsChecked
<1>1. GateEffect
  BY DEF ReadForApproval, OnlyLog, db, NoGate, GateEffect
<1> QED BY <1>1, BeginChecked, SameCallsChecked DEF ReadForApproval, DecisionSteps, StepIsChecked

LEMMA CheckApproverDecisionChecked ==
  ASSUME IInv, CallsAreChecked, NEW s \in Sessions, CheckApproverDecision(s)
  PROVE  StepIsChecked
<1>1. GateEffect
  BY DEF CheckApproverDecision, OnlyLog, NoGate, GateEffect
<1> QED BY <1>1, EndChecked, PlainGotoChecked
        DEF CheckApproverDecision, DecisionSteps, RecordSteps, StepIsChecked

LEMMA ReadForRejectionChecked ==
  ASSUME IInv, CallsAreChecked, NEW s \in Sessions, NEW k, NEW a, ReadForRejection(s, k, a)
  PROVE  StepIsChecked
<1>1. GateEffect
  BY DEF ReadForRejection, OnlyLog, db, NoGate, GateEffect
<1> QED BY <1>1, BeginChecked, SameCallsChecked DEF ReadForRejection, DecisionSteps, StepIsChecked

LEMMA ApproveBelowQuorumChecked ==
  ASSUME IInv, CallsAreChecked, NEW s \in Sessions, ApproveBelowQuorum(s)
  PROVE  StepIsChecked
<1>1. pc[s] \in DecisionSteps
  BY DEF ApproveBelowQuorum, DecisionSteps
<1>2. PICK k \in Keys, a \in ApproverIds : k = arg[s].key /\ a = arg[s].approver
  BY <1>1, ProposalOfCall
<1>3. /\ Short(k, a) /\ decisions' = decisions \union {Approval(k, a)} /\ End(s)
      /\ proposals[k] # NULL
  BY <1>1, <1>2, ProposalOfCall DEF ApproveBelowQuorum, Decided, Short
<1> QED BY <1>3, EndChecked DEF Approved, GateEffect, StepIsChecked

LEMMA ApproveAndCommitChecked ==
  ASSUME IInv, CallsAreChecked, NEW s \in Sessions, ApproveAndCommit(s)
  PROVE  StepIsChecked
<1>1. pc[s] \in DecisionSteps
  BY DEF ApproveAndCommit, DecisionSteps
<1>2. PICK k \in Keys, a \in ApproverIds : k = arg[s].key /\ a = arg[s].approver
  BY <1>1, ProposalOfCall
<1>3. Len(ledger) + 1 \in Nat
  BY LenProperties DEF IInv, TypeOK, DbTypeOK
<1>4. /\ Reached(k, a) /\ decisions' = decisions \union {Approval(k, a)} /\ End(s)
      /\ proposals[k] # NULL
  BY <1>1, <1>2, <1>3, ProposalOfCall DEF ApproveAndCommit, Decided, Reached
<1> QED BY <1>4, EndChecked DEF Approved, GateEffect, StepIsChecked

LEMMA ApproveAndAdoptChecked ==
  ASSUME IInv, CallsAreChecked, NEW s \in Sessions, ApproveAndAdopt(s)
  PROVE  StepIsChecked
<1>1. pc[s] \in DecisionSteps
  BY DEF ApproveAndAdopt, DecisionSteps
<1>2. PICK k \in Keys, a \in ApproverIds : k = arg[s].key /\ a = arg[s].approver
  BY <1>1, ProposalOfCall
<1>3. proposals[k].request.key = k
  BY <1>1, <1>2, ProposalOfCall DEF ProposalIsSound
<1>4. Names(k, TxOf(k)) /\ Committed(k)
  BY <1>2, <1>3, TxOfNames DEF ApproveAndAdopt, KeyFree
<1>5. AdoptedTx(k) \in Nat
  BY <1>4, LenProperties DEF IInv, TypeOK, DbTypeOK, Names, AdoptedTx
<1>6. /\ Reached(k, a) /\ decisions' = decisions \union {Approval(k, a)} /\ End(s)
      /\ proposals[k] # NULL
  BY <1>1, <1>2, <1>4, <1>5, ProposalOfCall DEF ApproveAndAdopt, Decided, Reached
<1> QED BY <1>6, EndChecked DEF Approved, GateEffect, StepIsChecked

LEMMA RejectChecked ==
  ASSUME IInv, CallsAreChecked, NEW s \in Sessions, Reject(s)
  PROVE  StepIsChecked
<1>1. pc[s] \in DecisionSteps
  BY DEF Reject, DecisionSteps
<1>2. PICK k \in Keys, a \in ApproverIds : k = arg[s].key /\ a = arg[s].approver
  BY <1>1, ProposalOfCall
<1>3. /\ Rejected(k) /\ End(s) /\ proposals[k] # NULL
  BY <1>1, <1>2, ProposalOfCall DEF Reject, Decided, Rejected
<1> QED BY <1>3, EndChecked DEF GateEffect, StepIsChecked

LEMMA RollbackChecked ==
  ASSUME IInv, CallsAreChecked, NEW s \in Sessions, Rollback(s)
  PROVE  StepIsChecked
BY EndChecked DEF Rollback, db, NoGate, GateEffect, StepIsChecked

LEMMA DecisionStepChecked ==
  ASSUME IInv, CallsAreChecked, NEW s \in Sessions, DecisionStep(s)
  PROVE  StepIsChecked
BY CheckApproverDecisionChecked, ApproveBelowQuorumChecked, ApproveAndCommitChecked,
   ApproveAndAdoptChecked, RejectChecked, RollbackChecked DEF DecisionStep, ApproveFails, RejectFails

----------------------------------------------------------------------------
(* close_period and lock_period decide on nothing. *)

LEMMA ReadPeriodChecked ==
  ASSUME IInv, CallsAreChecked, NEW s \in Sessions, NEW p, NEW actor, NEW status,
         ReadPeriod(s, p, actor, status)
  PROVE  StepIsChecked
<1>1. GateEffect
  BY DEF ReadPeriod, OnlyLog, db, NoGate, GateEffect
<1> QED BY <1>1, BeginChecked, SameCallsChecked DEF ReadPeriod, PeriodSteps, StepIsChecked

LEMMA PeriodStepChecked ==
  ASSUME IInv, CallsAreChecked, NEW s \in Sessions, PeriodStep(s)
  PROVE  StepIsChecked
<1>1. ASSUME WritePeriod(s) PROVE StepIsChecked
  BY <1>1, EndChecked DEF WritePeriod, NoGate, GateEffect, StepIsChecked
<1> QED BY <1>1, RollbackChecked DEF PeriodStep, InsertPeriod, InsertPeriodFails, UpdatePeriod

LEMMA NextChecked ==
  ASSUME IInv, CallsAreChecked, [Next]_vars
  PROVE  StepIsChecked
<1>1. CASE UNCHANGED vars
  BY <1>1, SameCallsChecked DEF vars, NoGate, GateEffect, StepIsChecked
<1>2. ASSUME NEW s \in Sessions, Call(s) PROVE StepIsChecked
  BY <1>2, ResolveReplayChecked, ReadForApprovalChecked, ReadForRejectionChecked, ReadPeriodChecked
     DEF Call
<1>3. ASSUME NEW s \in Sessions, Step(s) PROVE StepIsChecked
  BY <1>3, RecordStepChecked, DecisionStepChecked, PeriodStepChecked DEF Step
<1> QED BY <1>1, <1>2, <1>3, RollbackChecked DEF Next

----------------------------------------------------------------------------
(* What the effects keep. *)

\* The read proposal of a deciding call, with its new status.
LEMMA Stamped ==
  ASSUME IInv, NEW k \in Keys, proposals[k] # NULL,
         NEW status \in {"proposed", "rejected", "committed"}, NEW tx \in Nat, Persist(k, status, tx)
  PROVE  /\ proposals'[k] # NULL
         /\ proposals'[k].request = proposals[k].request
         /\ proposals'[k].required = proposals[k].required
         /\ proposals'[k].status = status
         /\ \A other \in Keys \ {k} : proposals'[other] = proposals[other]
<1>1. ProposalIsSound(k)
  BY DEF IInv, ProposalsAreSound
<1> QED BY <1>1, Persisted, NullAssumption

\* A proposal stays, and asks for the same bundle and the same number of approvals; decisions stay.
LEMMA RequestKept ==
  ASSUME IInv, GateEffect
  PROVE  /\ decisions \subseteq decisions'
         /\ \A k \in Keys : proposals[k] # NULL =>
              /\ proposals'[k] # NULL
              /\ proposals'[k].request = proposals[k].request
              /\ proposals'[k].required = proposals[k].required
<1>1. CASE NoGate \/ DirectWrite
  BY <1>1 DEF NoGate, DirectWrite
<1>2. CASE Proposed
  <2>1. PICK b \in Bundles, n \in Nat \ {0} :
          /\ proposals[b.key] = NULL
          /\ proposals' = [proposals EXCEPT ![b.key] =
               [request |-> b, status |-> "proposed", required |-> n, tx |-> 0]]
          /\ UNCHANGED decisions
    BY <1>2 DEF Proposed
  <2>2. \A k \in Keys : proposals[k] # NULL => proposals'[k] = proposals[k]
    BY <2>1 DEF IInv, TypeOK, DbTypeOK
  <2> QED BY <2>1, <2>2
<1>3. CASE \E k \in Keys : proposals[k] # NULL /\ (Approved(k) \/ Rejected(k))
  <2>1. PICK k \in Keys : proposals[k] # NULL /\ (Approved(k) \/ Rejected(k))
    BY <1>3
  <2>2. decisions \subseteq decisions'
    BY <2>1 DEF Approved, Rejected
  <2>3. \E status \in {"proposed", "rejected", "committed"}, tx \in Nat : Persist(k, status, tx)
    BY <2>1 DEF Approved, Rejected, Short, Reached
  <2> QED BY <2>1, <2>2, <2>3, Stamped
<1> QED BY <1>1, <1>2, <1>3 DEF GateEffect

\* A quorum once reached is never lost.
LEMMA QuorumKept ==
  ASSUME IInv, IInv', GateEffect, NEW k \in Keys, proposals[k] # NULL, HasQuorum(k)
  PROVE  HasQuorum(k)'
<1>1. proposals'[k].required = proposals[k].required /\ decisions \subseteq decisions'
  BY RequestKept
<1>2. TypeOK /\ TypeOK'
  BY DEF IInv
<1>3. ApprovalCount(k) <= ApprovalCount(k)' /\ ApprovalCount(k)' \in Nat
  BY <1>1, <1>2, CountGrows
<1>4. ApprovalCount(k) \in Nat
  BY <1>2, CountIsNat
<1>5. proposals[k].required \in Nat
  BY DEF IInv, ProposalsAreSound, ProposalIsSound, Proposal
<1> QED BY <1>1, <1>3, <1>4, <1>5 DEF HasQuorum

\* A key that has a row keeps it, and the row that a step inserts is a row of its key.
LEMMA RowOfKeyKept ==
  ASSUME IInv, NEW k \in Keys,
         \/ Committed(k) /\ (UNCHANGED ledger \/ \E b \in Bundles, d \in BOOLEAN : InsertRow(b, d))
         \/ \E b \in Bundles, d \in BOOLEAN : b.key = k /\ InsertRow(b, d)
  PROVE  Committed(k)'
<1>1. CASE UNCHANGED ledger /\ Committed(k)
  BY <1>1 DEF Committed, RowsOf
<1>2. ASSUME NEW b \in Bundles, NEW d \in BOOLEAN, InsertRow(b, d), Committed(k) \/ b.key = k
      PROVE  Committed(k)'
  <2>1. /\ Len(ledger) \in Nat
        /\ DOMAIN ledger = 1..Len(ledger) /\ DOMAIN ledger' = 1..(Len(ledger) + 1)
        /\ ledger'[Len(ledger) + 1].bundle = b
        /\ \A i \in DOMAIN ledger : ledger'[i] = ledger[i]
    BY <1>2, RowAppended DEF IInv, TypeOK, DbTypeOK
  <2>2. \E i \in DOMAIN ledger' : ledger'[i].bundle.key = k
    BY <1>2, <2>1 DEF Committed, RowsOf
  <2> QED BY <2>2 DEF Committed, RowsOf
<1> QED BY <1>1, <1>2

\* What a step does to the ledger, in the form of the lemma above.
LEMMA LedgerGrows ==
  ASSUME IInv, GateEffect
  PROVE  UNCHANGED ledger \/ \E b \in Bundles, d \in BOOLEAN : InsertRow(b, d)
<1>1. \A k \in Keys : proposals[k] # NULL => proposals[k].request \in Bundles
  BY DEF IInv, ProposalsAreSound, ProposalIsSound, Proposal
<1> QED BY <1>1 DEF GateEffect, NoGate, DirectWrite, Proposed, Approved, Rejected, Short, Reached

\* Another key's step leaves a key's decisions and proposal alone.
LEMMA OtherKeyKept ==
  ASSUME IInv, GateEffect, NEW k \in Keys, KeyIsDecided(k), proposals'[k] = proposals[k],
         \A d : d.key = k => (d \in decisions <=> d \in decisions')
  PROVE  KeyIsDecided(k)'
<1>1. ApprovalCount(k)' = ApprovalCount(k)
  BY CountStays
<1>3. Committed(k) => Committed(k)'
  BY RowOfKeyKept, LedgerGrows
<1>2. proposals[k] = NULL => \A d \in decisions' : d.key # k
  BY DEF KeyIsDecided
<1> QED BY <1>1, <1>2, <1>3 DEF KeyIsDecided, HasQuorum, Balanced

LEMMA KeysKept ==
  ASSUME IInv, IInv', DInv, GateEffect
  PROVE  KeysAreDecided'
<1> SUFFICES ASSUME NEW k \in Keys PROVE KeyIsDecided(k)'
  BY DEF KeysAreDecided
<1>1. KeyIsDecided(k)
  BY DEF DInv, KeysAreDecided
<1>2. CASE NoGate \/ DirectWrite
  BY <1>1, <1>2, OtherKeyKept DEF NoGate, DirectWrite
<1>3. CASE Proposed
  <2>1. PICK b \in Bundles, n \in Nat \ {0} :
          /\ Balanced(b)
          /\ proposals[b.key] = NULL
          /\ proposals' = [proposals EXCEPT ![b.key] =
               [request |-> b, status |-> "proposed", required |-> n, tx |-> 0]]
          /\ UNCHANGED decisions
    BY <1>3 DEF Proposed
  <2>2. CASE k # b.key
    <3>1. proposals'[k] = proposals[k]
      BY <2>1, <2>2 DEF IInv, TypeOK, DbTypeOK
    <3> QED BY <1>1, <2>1, <3>1, OtherKeyKept
  <2>3. CASE k = b.key
    <3>1. /\ proposals'[k].request = b /\ proposals'[k].status = "proposed"
          /\ proposals'[k].required = n
      BY <2>1, <2>3 DEF IInv, TypeOK, DbTypeOK
    <3>2. proposals'[k] # NULL
      BY <2>1, <2>3, NullAssumption DEF IInv, TypeOK, DbTypeOK, Proposal
    <3>3. ApproversOf(k)' = {}
      BY <1>1, <2>1, <2>3 DEF KeyIsDecided, ApproversOf
    <3>4. ApprovalCount(k)' = 0
      BY <3>3, FS_EmptySet DEF ApprovalCount
    <3>5. ~HasQuorum(k)'
      BY <3>1, <3>4 DEF HasQuorum
    <3> QED BY <2>1, <3>1, <3>2, <3>5 DEF KeyIsDecided, Balanced
  <2> QED BY <2>2, <2>3
<1>4. ASSUME NEW key \in Keys, proposals[key] # NULL, Approved(key)
      PROVE  KeyIsDecided(k)'
  <2>1. PICK a \in ApproverIds :
          decisions' = decisions \union {Approval(key, a)} /\ (Short(key, a) \/ Reached(key, a))
    BY <1>4 DEF Approved
  <2>2. PICK status \in {"proposed", "committed"}, tx \in Nat :
          Persist(key, status, tx) /\ (status = "committed" <=> QuorumReached(key, a))
    BY <2>1 DEF Short, Reached
  <2>3. /\ proposals'[key] # NULL
        /\ proposals'[key].request = proposals[key].request
        /\ proposals'[key].required = proposals[key].required
        /\ proposals'[key].status = status
        /\ \A other \in Keys \ {key} : proposals'[other] = proposals[other]
    BY <1>4, <2>2, Stamped
  <2>4. CASE k # key
    <3>1. \A d : d.key = k => (d \in decisions <=> d \in decisions')
      BY <2>1, <2>4 DEF Approval
    <3> QED BY <1>1, <2>3, <2>4, <3>1, OtherKeyKept
  <2>5. CASE k = key
    <3>4. QuorumReached(k, a) => Committed(k)'
      <4>1. proposals[k].request \in Bundles /\ proposals[k].request.key = k
        BY <1>4, <2>5 DEF IInv, ProposalsAreSound, ProposalIsSound, Proposal
      <4> QED BY <2>1, <2>5, <4>1, RowOfKeyKept DEF Short, Reached
    <3>1. ApprovalCount(k)' = CountWith(k, a)
      BY <2>1, <2>3, <2>5, CountAfterApproval
    <3>2. HasQuorum(k)' <=> QuorumReached(k, a)
      BY <2>3, <2>5, <3>1 DEF HasQuorum, QuorumReached
    <3>3. Balanced(proposals'[k].request)
      BY <1>1, <1>4, <2>3, <2>5 DEF KeyIsDecided, Balanced
    <3> QED BY <2>2, <2>3, <2>5, <3>2, <3>3, <3>4 DEF KeyIsDecided, Balanced
  <2> QED BY <2>4, <2>5
<1>5. ASSUME NEW key \in Keys, proposals[key] # NULL, Rejected(key)
      PROVE  KeyIsDecided(k)'
  <2>1. PICK a \in ApproverIds :
          decisions' = decisions \union {Rejection(key, a)} /\ Persist(key, "rejected", 0)
    BY <1>5 DEF Rejected
  <2>2. /\ proposals'[key] # NULL
        /\ proposals'[key].request = proposals[key].request
        /\ proposals'[key].required = proposals[key].required
        /\ proposals'[key].status = "rejected"
        /\ \A other \in Keys \ {key} : proposals'[other] = proposals[other]
    BY <1>5, <2>1, Stamped
  <2>3. CASE k # key
    <3>1. \A d : d.key = k => (d \in decisions <=> d \in decisions')
      BY <2>1, <2>3 DEF Rejection
    <3> QED BY <1>1, <2>2, <2>3, <3>1, OtherKeyKept
  <2>4. CASE k = key
    <3>1. ApprovalCount(k)' = ApprovalCount(k)
      BY <2>1, <2>2, <2>4, CountStays DEF Rejection
    <3>2. HasQuorum(k)' => HasQuorum(k) /\ Committed(k)
      BY <1>1, <1>5, <2>2, <2>4, <3>1 DEF HasQuorum, KeyIsDecided
    <3>3. HasQuorum(k)' => Committed(k)'
      BY <3>2, RowOfKeyKept, LedgerGrows
    <3> QED BY <1>1, <1>5, <2>2, <2>4, <3>3 DEF KeyIsDecided, Balanced
  <2> QED BY <2>3, <2>4
<1> QED BY <1>2, <1>3, <1>4, <1>5 DEF GateEffect

\* A row's reason stays its reason.
LEMMA JustificationKept ==
  ASSUME IInv, IInv', GateEffect, NEW row \in Row, RowIsJustified(row)
  PROVE  RowIsJustified(row)'
<1>1. row.bundle.key \in Keys
  BY DEF Row, Keys
<1>2. CASE row.direct
  BY <1>2 DEF RowIsJustified, Balanced, UnderThreshold
<1>3. CASE ~row.direct
  <2>1. PICK k \in Keys : k = row.bundle.key
    BY <1>1
  <2>2. proposals[k] # NULL /\ proposals[k].request = row.bundle /\ HasQuorum(k)
    BY <1>3, <2>1 DEF RowIsJustified
  <2>3. proposals'[k] # NULL /\ proposals'[k].request = row.bundle /\ HasQuorum(k)'
    BY <2>2, RequestKept, QuorumKept
  <2> QED BY <1>3, <2>1, <2>3 DEF RowIsJustified, Balanced, HasQuorum
<1> QED BY <1>2, <1>3

LEMMA RowsKept ==
  ASSUME IInv, IInv', DInv, GateEffect, KeysAreDecided'
  PROVE  RowsAreJustified'
<1>1. ledger \in Seq(Row)
  BY DEF IInv, TypeOK, DbTypeOK
<1>2. ASSUME NEW i \in DOMAIN ledger
      PROVE  \E row : row = ledger[i] /\ RowIsJustified(row)'
  <2>1. PICK row \in Row : row = ledger[i]
    BY <1>1, ElementOfSeq, LenProperties
  <2>2. RowIsJustified(row)
    BY <2>1 DEF DInv, RowsAreJustified
  <2>3. RowIsJustified(row)'
    BY <2>2, JustificationKept
  <2> QED BY <2>1, <2>3
<1>3. CASE UNCHANGED ledger
  BY <1>2, <1>3 DEF RowsAreJustified, RowIsJustified, Balanced, UnderThreshold, HasQuorum
<1>4. ASSUME NEW b \in Bundles, NEW d \in BOOLEAN, InsertRow(b, d), Balanced(b),
             IF d THEN UnderThreshold(b)
                  ELSE /\ proposals'[b.key] # NULL /\ proposals'[b.key].request = b
                       /\ HasQuorum(b.key)'
      PROVE  RowsAreJustified'
  <2> SUFFICES ASSUME NEW i \in DOMAIN ledger' PROVE RowIsJustified(ledger[i])'
    BY DEF RowsAreJustified
  <2>1. /\ Len(ledger) \in Nat /\ DOMAIN ledger = 1..Len(ledger)
        /\ DOMAIN ledger' = 1..(Len(ledger) + 1)
        /\ ledger'[Len(ledger) + 1].bundle = b /\ ledger'[Len(ledger) + 1].direct = d
        /\ \A j \in DOMAIN ledger : ledger'[j] = ledger[j]
    BY <1>1, <1>4, RowAppended
  <2>2. CASE i \in DOMAIN ledger
    <3>1. PICK row : row = ledger[i] /\ RowIsJustified(row)'
      BY <1>2, <2>2
    <3>2. ledger'[i] = row
      BY <2>1, <2>2, <3>1
    <3> QED BY <3>1, <3>2 DEF RowIsJustified, Balanced, UnderThreshold, HasQuorum
  <2>3. CASE i = Len(ledger) + 1
    <3>1. ledger'[i].bundle = b /\ ledger'[i].direct = d
      BY <2>1, <2>3
    <3> QED BY <1>4, <3>1 DEF RowIsJustified, Balanced, UnderThreshold, HasQuorum
  <2> QED BY <2>1, <2>2, <2>3
<1>5. CASE NoGate \/ Proposed
  BY <1>3, <1>5 DEF NoGate, Proposed
<1>6. CASE DirectWrite
  BY <1>4, <1>6 DEF DirectWrite
<1>7. ASSUME NEW k \in Keys, proposals[k] # NULL, Rejected(k) PROVE RowsAreJustified'
  BY <1>3, <1>7 DEF Rejected
<1>8. ASSUME NEW k \in Keys, proposals[k] # NULL, Approved(k) PROVE RowsAreJustified'
  <2>1. CASE UNCHANGED ledger
    BY <1>3, <2>1
  <2>2. CASE ledger' # ledger
    <3>1. /\ InsertRow(proposals[k].request, FALSE)
          /\ \E tx \in Nat : Persist(k, "committed", tx)
      BY <1>8, <2>2 DEF Approved, Short, Reached
    <3>2. PICK b \in Bundles : b = proposals[k].request /\ b.key = k
      BY <1>8 DEF IInv, ProposalsAreSound, ProposalIsSound, Proposal
    <3>3. /\ proposals'[k] # NULL /\ proposals'[k].request = b
          /\ proposals'[k].status = "committed"
      BY <1>8, <3>1, <3>2, Stamped
    <3>4. HasQuorum(k)'
      BY <3>3 DEF KeysAreDecided, KeyIsDecided
    <3>5. Balanced(b)
      BY <1>8, <3>2 DEF DInv, KeysAreDecided, KeyIsDecided
    <3> QED BY <1>4, <3>1, <3>2, <3>3, <3>4, <3>5
  <2> QED BY <2>1, <2>2
<1> QED BY <1>5, <1>6, <1>7, <1>8 DEF GateEffect

LEMMA DInvKept ==
  ASSUME IInv, DInv, [Next]_vars
  PROVE  DInv'
<1>1. IInv'
  BY IInvKept
<1>2. GateEffect /\ CallsAreChecked'
  BY NextChecked DEF DInv, StepIsChecked
<1>3. KeysAreDecided'
  BY <1>1, <1>2, KeysKept
<1>4. RowsAreJustified'
  BY <1>1, <1>2, <1>3, RowsKept
<1> QED BY <1>2, <1>3, <1>4 DEF DInv

LEMMA InitDecided ==
  ASSUME Init
  PROVE  DInv
<1>1. CallsAreChecked
  BY DEF Init, CallsAreChecked, CallIsChecked, RecordSteps
<1>2. KeysAreDecided
  BY DEF Init, KeysAreDecided, KeyIsDecided
<1>3. RowsAreJustified
  BY DEF Init, RowsAreJustified
<1> QED BY <1>1, <1>2, <1>3 DEF DInv

----------------------------------------------------------------------------
(* The theorems. *)

\* IInv and DInv hold of every reachable state.
THEOREM DecisionInvariance == Safety => [](IInv /\ DInv)
<1>1. Init => IInv /\ DInv
  BY InitSound, InitDecided
<1>2. IInv /\ DInv /\ [Next]_vars => (IInv /\ DInv)'
  BY IInvKept, DInvKept
<1> QED BY <1>1, <1>2, PTL DEF Safety

\* However approvals, rejections and records of a key race, a proposal that has the approvals it asks
\* for does not wait as proposed, and the ledger has the row of its key: the last approval always
\* writes it, or finds it, whatever a rejection made of the status since.
THEOREM NoStrandedQuorumHolds == Safety => []NoStrandedQuorum
<1>1. ASSUME IInv, DInv PROVE NoStrandedQuorum
  BY <1>1 DEF DInv, NoStrandedQuorum, KeysAreDecided, KeyIsDecided, HasQuorum
<1> QED BY <1>1, DecisionInvariance, PTL

\* What a client may rely on of a proposal whatever races with it: it stays, its request and the
\* number of approvals it asks for never change, decisions are never withdrawn, and once committed
\* it is at most rejected (by a decision that read it before), never proposed again.
TermsKept(k) ==
  /\ proposals'[k] # NULL
  /\ proposals'[k].request = proposals[k].request
  /\ proposals'[k].required = proposals[k].required
  /\ proposals[k].status = "committed" => proposals'[k].status # "proposed"
KeepTerms ==
  decisions \subseteq decisions' /\ \A k \in Keys : proposals[k] # NULL => TermsKept(k)
ProposalsKeepTheirTerms == [][KeepTerms]_vars

\* The terms of a proposal hold: a step inserts a proposal where there is none, or stamps a status on
\* one; and the approvals that committed it are still there, so no count falls short again.
THEOREM ProposalsKeepTheirTermsHolds == Safety => ProposalsKeepTheirTerms
<1>1. IInv /\ DInv /\ [Next]_vars => KeepTerms
  <2> SUFFICES ASSUME IInv, DInv, [Next]_vars PROVE KeepTerms
    OBVIOUS
  <2>1. GateEffect
    BY NextChecked DEF DInv, StepIsChecked
  <2>2. IInv' /\ DInv'
    BY IInvKept, DInvKept
  <2>3. ASSUME NEW k \in Keys, proposals[k] # NULL, proposals[k].status = "committed"
        PROVE  proposals'[k].status # "proposed"
    <3>1. HasQuorum(k)
      BY <2>3 DEF DInv, KeysAreDecided, KeyIsDecided
    <3>2. HasQuorum(k)'
      BY <2>1, <2>2, <2>3, <3>1, QuorumKept
    <3>3. proposals'[k] # NULL
      BY <2>1, <2>3, RequestKept
    <3> QED BY <2>2, <3>2, <3>3 DEF DInv, KeysAreDecided, KeyIsDecided
  <2> QED BY <2>1, <2>3, RequestKept DEF KeepTerms, TermsKept
<1> QED BY <1>1, DecisionInvariance, PTL DEF Safety, ProposalsKeepTheirTerms

\* A committed proposal has its approvals and names the row of its key, also when another path wrote
\* the row and the approval adopted it.
THEOREM CommittedHasQuorumAndRowHolds == Safety => []CommittedHasQuorumAndRow
<1>1. ASSUME IInv, DInv PROVE CommittedHasQuorumAndRow
  BY <1>1 DEF IInv, DInv, CommittedHasQuorumAndRow, KeysAreDecided, KeyIsDecided, HasQuorum,
              ProposalsAreSound, ProposalIsSound, Names
<1> QED BY <1>1, DecisionInvariance, PTL

\* There is no third way into the ledger: a row without an approval was under the threshold that the
\* policy settles on, and any other row is the request of a proposal with its approvals.
THEOREM EveryRowIsJustifiedHolds == Safety => []EveryRowIsJustified
<1>1. ASSUME IInv, DInv PROVE EveryRowIsJustified
  BY <1>1 DEF DInv, EveryRowIsJustified, RowsAreJustified, RowIsJustified, UnderThreshold, HasQuorum
<1> QED BY <1>1, DecisionInvariance, PTL

\* The stored legs of every row cancel exactly, whatever the bundle's decimals and whichever path
\* wrote it.
THEOREM LedgerBalancesHolds == Safety => []LedgerBalances
<1>1. ASSUME IInv, DInv PROVE LedgerBalances
  <2> SUFFICES ASSUME NEW i \in DOMAIN ledger
               PROVE  SumOver(LAMBDA p : p.amount, ledger[i].legs) = 0
    BY DEF LedgerBalances
  <2>1. ledger \in Seq(Row)
    BY <1>1 DEF IInv, TypeOK, DbTypeOK
  <2>2. ledger[i] \in Row
    BY <2>1, ElementOfSeq, LenProperties
  <2>3. PICK b \in Bundles : ledger[i].bundle = b /\ ledger[i].legs = StoredPostings(b)
    BY <2>2 DEF Row
  <2>4. NormalizedTotal(b.postings) = 0
    BY <1>1, <2>3 DEF DInv, RowsAreJustified, RowIsJustified, Balanced, ensure_balanced
  <2>5. PICK n \in Nat : DOMAIN b.postings = 1..n
    BY BundlesAssumption
  <2> DEFINE legs == StoredPostings(b)
  <2>6. DOMAIN legs = 1..n /\ \A j \in 1..n : legs[j].amount = normalize_amount(b.postings[j].amount)
    BY <2>5 DEF StoredPostings
  <2> HIDE DEF legs
  <2>7. SumOver(LAMBDA p : p.amount, legs) = NormalizedTotal(b.postings)
    BY <2>5, <2>6, StoredSum
  <2> QED BY <2>3, <2>4, <2>7 DEF legs
<1> QED BY <1>1, DecisionInvariance, PTL
=============================================================================
