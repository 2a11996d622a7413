-------------------------- MODULE ConfigGovernance --------------------------
(***************************************************************************)
(* tools/propose_config_change.py and approve_config_change.py, and        *)
(* reject_proposed_transaction on their proposals.  One approval applies a *)
(* change; applying it only marks the proposal committed.                  *)
(***************************************************************************)
EXTENDS RegistryDb

OnlyChanges == UNCHANGED <<accounts, history, profiles, obligations, snapshots>>

----------------------------------------------------------------------------
\* A key that was proposed before is answered with its proposal id.
ProposeReplays(s, c) ==
  /\ Starts(s, "propose_config_change", c)
  /\ changes[c.key] # NULL
  /\ Tells(c, changes[c.key].id) /\ Logs(c)
  /\ UNCHANGED <<changes, verdicts, work, pc, arg, seen>> /\ OnlyChanges

ProposeReads(s, c) ==
  /\ Starts(s, "propose_config_change", c)
  /\ changes[c.key] = NULL
  /\ Reads(s, c, "propose", NULL)

\* created_at counts seconds, and several proposals fall into one; uuids come in any order.
CreatedAt == Cardinality({k \in ChangeKeys : changes[k] # NULL}) \div 2
ChangeKeyFree(key) == changes[key] = NULL

ProposeInserts(s) ==
  LET c == arg[s] IN
  /\ At(s, "propose") /\ ChangeKeyFree(c.key)
  /\ \E id \in ChangeIds \ {changes[k].id : k \in {k \in ChangeKeys : changes[k] # NULL}} :
       /\ changes' = [changes EXCEPT ![c.key] =
                        [id |-> id, status |-> "proposed", created |-> CreatedAt]]
       /\ Tells(c, id)
  /\ Logs(c) /\ Ends(s)
  /\ UNCHANGED verdicts /\ OnlyChanges

\* Nothing handles the IntegrityError of a key proposed meanwhile.
ProposeFails(s) == At(s, "propose") /\ ~ChangeKeyFree(arg[s].key) /\ Fails(s)

----------------------------------------------------------------------------
Verdict(c, action) == [key |-> c.key, action |-> action, approver |-> c.approver]
\* idx_approval_decisions_distinct_approver: a named approver decides once each way.
VerdictFits(c, action) == c.approver # NULL => Verdict(c, action) \notin verdicts
\* Bug form: any decision of the approver counts.
HasDecision_EitherWay(c) == \E v \in verdicts : v.key = c.key /\ v.approver = c.approver
HasDecision(c) == c.approver # NULL /\ Verdict(c, "approve") \in verdicts
Persisted(key, status) == [changes EXCEPT ![key].status = status]

\* A decided change answers with its status and is left alone.
ApproveReplays(s, c) ==
  /\ Starts(s, "approve_config_change", c)
  /\ changes[c.key] # NULL /\ changes[c.key].status # "proposed"
  /\ Logs(c) /\ Keeps
  /\ UNCHANGED <<changes, verdicts, work, pc, arg, seen>> /\ OnlyChanges

ApproveReads(s, c) ==
  /\ Starts(s, "approve_config_change", c)
  /\ changes[c.key] # NULL /\ changes[c.key].status = "proposed"
  /\ Reads(s, c, "approver", NULL)

ApproverReads(s) ==
  At(s, "approver") /\ Reads(s, arg[s], IF HasDecision(arg[s]) THEN "apply_again" ELSE "apply", NULL)

\* The change is committed on the status read before; the decision row goes in with it, unless the
\* approver's own is there.
Applies(s, newVerdicts) ==
  /\ changes' = Persisted(arg[s].key, "committed")
  /\ verdicts' = newVerdicts
  /\ Logs(arg[s]) /\ Keeps /\ Ends(s) /\ OnlyChanges

ApplyChange(s) ==
  At(s, "apply") /\ VerdictFits(arg[s], "approve")
    /\ Applies(s, verdicts \union {Verdict(arg[s], "approve")})
ApplyAgain(s) == At(s, "apply_again") /\ Applies(s, verdicts)
ApplyFails(s) == At(s, "apply") /\ ~VerdictFits(arg[s], "approve") /\ Fails(s)

----------------------------------------------------------------------------
\* reject_proposed_transaction finds config proposals by id like any other; a committed one raises.
RejectReplays(s, c) ==
  /\ Starts(s, "reject_proposed_transaction", c)
  /\ changes[c.key] # NULL /\ changes[c.key].status = "rejected"
  /\ Logs(c) /\ Keeps
  /\ UNCHANGED <<changes, verdicts, work, pc, arg, seen>> /\ OnlyChanges

RejectReads(s, c) ==
  /\ Starts(s, "reject_proposed_transaction", c)
  /\ changes[c.key] # NULL /\ changes[c.key].status = "proposed"
  /\ Reads(s, c, "reject", NULL)

RejectChange(s) ==
  LET c == arg[s] IN
  /\ At(s, "reject") /\ VerdictFits(c, "reject")
  /\ changes' = Persisted(c.key, "rejected")
  /\ verdicts' = verdicts \union {Verdict(c, "reject")}
  /\ Logs(c) /\ Keeps /\ Ends(s) /\ OnlyChanges
RejectFails(s) == At(s, "reject") /\ ~VerdictFits(arg[s], "reject") /\ Fails(s)

ConfigStep(s) ==
  \/ \E c \in work.calls : \/ ProposeReplays(s, c) \/ ProposeReads(s, c)
                           \/ ApproveReplays(s, c) \/ ApproveReads(s, c)
                           \/ RejectReplays(s, c) \/ RejectReads(s, c)
  \/ ProposeInserts(s) \/ ProposeFails(s)
  \/ ApproverReads(s) \/ ApplyChange(s) \/ ApplyAgain(s) \/ ApplyFails(s)
  \/ RejectChange(s) \/ RejectFails(s)
=============================================================================
