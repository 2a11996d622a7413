\* Two sessions and two approvers decide on a proposal that takes two approvals, and record under its key.
SPECIFICATION Spec
CONSTANTS
  Sessions = {s1, s2}
  Bundles <- DecisionBundles
  Accounts = {"cash", "food", "rent"}
  Entities = {"main"}
  Approvers = {alice, bob}
  Actors = {}
  Rules <- GateRules
  Threshold = 5
  MonthLength = 2
  NULL = NULL
INVARIANTS
  CommittedHasQuorumAndRow
  NoStrandedQuorum
PROPERTIES
  CallsEnd
