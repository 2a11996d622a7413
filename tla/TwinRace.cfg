\* Two duplicates whose searches both precede the commits.
SPECIFICATION Safety
CONSTANTS
  Sessions = {s1, s2}
  Bundles <- TwinBundles
  Accounts = {"cash", "food", "rent"}
  Entities = {"main"}
  Approvers = {}
  Actors = {}
  Rules <- NoRules
  Threshold = 5
  MonthLength = 2
  NULL = NULL
INVARIANTS
  DirectWritesAreNoDuplicates
