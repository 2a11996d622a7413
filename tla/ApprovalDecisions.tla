------------------------- MODULE ApprovalDecisions -------------------------
(***************************************************************************)
(* approve_proposed_transaction and reject_proposed_transaction            *)
(* (domain/approval/service.py).  A proposal is named by its key: the      *)
(* UNIQUE (tool_name, source_system, external_id) makes it unique.  Calls  *)
(* on a missing proposal, approvals of a rejected one and rejections of a  *)
(* committed one raise after a read and change nothing, so they are no     *)
(* action here.                                                            *)
(***************************************************************************)
EXTENDS CapitalDb

Approval(k, a) == [key |-> k, action |-> "approve", approver |-> a]
Rejection(k, a) == [key |-> k, action |-> "reject", approver |-> a]

\* _approval_count: rows for a single approval, distinct approvers for a quorum.  A NULL approver
\* has at most one member here and any number of rows there; only zero or not is compared.
ApprovalCount(k) ==
  IF proposals[k].required <= 1
    THEN Cardinality(ApproversOf(k))
    ELSE Cardinality(ApproversOf(k) \ {NULL})

\* The count after insert_decision, which an approver's second decision leaves alone.
\* Bug form: the count is taken before the insert.
CountWith_BeforeInsert(k, a) == ApprovalCount(k)
CountWith(k, a) ==
  IF proposals[k].required <= 1
    THEN Cardinality(ApproversOf(k) \union {a})
    ELSE Cardinality((ApproversOf(k) \union {a}) \ {NULL})

\* Bug form: one approval short passes.
QuorumReached_OffByOne(k, a) == CountWith(k, a) + 1 >= proposals[k].required
QuorumReached(k, a) == CountWith(k, a) >= proposals[k].required

\* persist_proposal_result: status, response and transaction id together.
Persist(k, status, tx) ==
  proposals' = [proposals EXCEPT ![k].status = status, ![k].tx = tx]

\* The status checks of the two calls.
MayBeApproved(p) == p.status # "rejected"
MayBeRejected(p) == p.status # "committed"

----------------------------------------------------------------------------
\* The read of the proposal and the checks of its status (lines 62-88).
ReadForApproval(s, k, a) ==
  /\ pc[s] = "idle"
  /\ proposals[k] # NULL
  /\ MayBeApproved(proposals[k])
  /\ proposals[k].required > 1 => a # NULL
  /\ IF proposals[k].status = "committed"
       THEN /\ answers' = answers \union {<<k, proposals[k].tx>>}
            /\ OnlyLog(ApproveTool, [key |-> k, approver |-> a])
            /\ UNCHANGED <<pc, arg, seen>>
       ELSE /\ Begin(s, [key |-> k, approver |-> a],
                     IF a = NULL THEN "approve" ELSE "approver_decision")
            /\ UNCHANGED db

\* has_approver_decision: an approver who already approved gets the count again (lines 90-115).
CheckApproverDecision(s) ==
  LET k == arg[s].key
      a == arg[s].approver
  IN  /\ pc[s] = "approver_decision"
      /\ IF Approval(k, a) \in decisions
           THEN /\ End(s)
                /\ OnlyLog(ApproveTool, arg[s])
                /\ UNCHANGED answers
           ELSE /\ Goto(s, "approve")
                /\ UNCHANGED <<ledger, proposals, decisions, periods, events, answers, arg, seen>>

\* What every deciding write section does beside its effect.
Decided(s, tool, decision) ==
  /\ decisions' = decisions \union {decision}
  /\ events' = Logged(tool, arg[s])
  /\ End(s)
  /\ UNCHANGED periods

\* Short of the quorum: the decision is kept and the proposal stays proposed (lines 117-159).
ApproveBelowQuorum(s) ==
  LET k == arg[s].key
      a == arg[s].approver
  IN  /\ pc[s] = "approve"
      /\ ~QuorumReached(k, a)
      /\ Persist(k, "proposed", 0)
      /\ Decided(s, ApproveTool, Approval(k, a))
      /\ UNCHANGED <<ledger, answers>>

\* Quorum: the request is written to the ledger and the proposal committed (lines 161-217).
ApproveAndCommit(s) ==
  LET k == arg[s].key
      a == arg[s].approver
      b == proposals[k].request
  IN  /\ pc[s] = "approve"
      /\ QuorumReached(k, a)
      /\ KeyFree(b) /\ ReferencesExist(b)
      /\ InsertRow(b, FALSE)
      /\ Persist(k, "committed", Len(ledger) + 1)
      /\ answers' = answers \union {<<k, Len(ledger) + 1>>}
      /\ Decided(s, ApproveTool, Approval(k, a))

\* Quorum, but the key has a row already: the proposal adopts it (lines 179-217).
\* Bug form: the id is the one the failed insert would have had.
AdoptedTx_NextId(k) == Len(ledger) + 1
AdoptedTx(k) == TxOf(k)
ApproveAndAdopt(s) ==
  LET k == arg[s].key
      a == arg[s].approver
  IN  /\ pc[s] = "approve"
      /\ QuorumReached(k, a)
      /\ ~KeyFree(proposals[k].request)
      /\ Persist(k, "committed", AdoptedTx(k))
      /\ answers' = answers \union {<<k, AdoptedTx(k)>>}
      /\ Decided(s, ApproveTool, Approval(k, a))
      /\ UNCHANGED ledger

\* Bug form: the IntegrityError is swallowed and the decision committed.
ApproveFails_KeepsDecision(s) ==
  /\ pc[s] = "approve"
  /\ QuorumReached(arg[s].key, arg[s].approver)
  /\ KeyFree(proposals[arg[s].key].request) /\ ~ReferencesExist(proposals[arg[s].key].request)
  /\ Decided(s, ApproveTool, Approval(arg[s].key, arg[s].approver))
  /\ UNCHANGED <<ledger, proposals, answers>>

\* Quorum, no row, and an unknown account or entity: the IntegrityError rolls back the decision too.
ApproveFails(s) ==
  LET k == arg[s].key
      a == arg[s].approver
      b == proposals[k].request
  IN  /\ pc[s] = "approve"
      /\ QuorumReached(k, a)
      /\ KeyFree(b) /\ ~ReferencesExist(b)
      /\ Rollback(s)

----------------------------------------------------------------------------
\* The read of the proposal (lines 224-245).
ReadForRejection(s, k, a) ==
  /\ pc[s] = "idle"
  /\ proposals[k] # NULL
  /\ MayBeRejected(proposals[k])
  /\ IF proposals[k].status = "rejected"
       THEN /\ OnlyLog(RejectTool, [key |-> k, approver |-> a])
            /\ UNCHANGED <<answers, pc, arg, seen>>
       ELSE /\ Begin(s, [key |-> k, approver |-> a], "reject")
            /\ UNCHANGED db

\* An approver's second rejection fails the unique index (migration 0006).
AlreadyRejectedBy(k, a) == a # NULL /\ Rejection(k, a) \in decisions

\* The write section of a rejection (lines 247-280).
Reject(s) ==
  LET k == arg[s].key
      a == arg[s].approver
  IN  /\ pc[s] = "reject"
      /\ ~AlreadyRejectedBy(k, a)
      /\ Persist(k, "rejected", 0)
      /\ Decided(s, RejectTool, Rejection(k, a))
      /\ UNCHANGED <<ledger, answers>>

RejectFails(s) ==
  /\ pc[s] = "reject"
  /\ AlreadyRejectedBy(arg[s].key, arg[s].approver)
  /\ Rollback(s)

DecisionStep(s) ==
  \/ CheckApproverDecision(s)
  \/ ApproveBelowQuorum(s)
  \/ ApproveAndCommit(s)
  \/ ApproveAndAdopt(s)
  \/ ApproveFails(s)
  \/ Reject(s)
  \/ RejectFails(s)
=============================================================================
