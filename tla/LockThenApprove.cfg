\* A proposal approved after its period was locked.
SPECIFICATION Safety
CONSTANTS
  Sessions = {s1}
  Bundles <- LockBundles
  Accounts = {"cash", "food", "rent"}
  Entities = {"main"}
  Approvers = {}
  Actors = {ann}
  Rules <- NoRules
  Threshold = 5
  MonthLength = 2
  NULL = NULL
PROPERTIES
  LockedPeriodBlocksWrites
