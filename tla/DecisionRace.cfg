\* An approval and a rejection that both read the proposal before either decides it.
SPECIFICATION Safety
CONSTANTS
  Sessions = {s1, s2}
  Bundles <- LockBundles
  Accounts = {"cash", "food", "rent"}
  Entities = {"main"}
  Approvers = {}
  Actors = {}
  Rules <- NoRules
  Threshold = 5
  MonthLength = 2
  NULL = NULL
PROPERTIES
  DecidedStaysDecided
