\* One session: what holds when calls do not overlap.
SPECIFICATION Safety
CONSTANTS
  Sessions = {s1}
  Bundles <- SerialBundles
  Accounts = {"cash", "food", "rent"}
  Entities = {"main"}
  Approvers = {alice, bob}
  Actors = {ann}
  Rules <- GateRules
  Threshold = 5
  MonthLength = 2
  NULL = NULL
INVARIANTS
  DirectWritesAreNoDuplicates
  VelocityLimitsHold
  EveryRowIsJustified
PROPERTIES
  RecordsRespectPeriods
SYMMETRY DecisionSymmetry
