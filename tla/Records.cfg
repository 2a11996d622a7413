\* Two sessions, four keys: small and large, duplicate, rounding uneven, unknown account or entity; anonymous approvals.
SPECIFICATION Safety
CONSTANTS
  Sessions = {s1, s2}
  Bundles <- RecordBundles
  Accounts = {"cash", "food", "rent"}
  Entities = {"main"}
  Approvers = {}
  Actors = {}
  Rules <- NoRules
  Threshold = 5
  MonthLength = 2
  NULL = NULL
INVARIANTS
  TypeOK
  LedgerBalances
  AnswersNameTheRow
  NoStrandedQuorum
  ConflictFindsItsCause
PROPERTIES
  ImplementsCanonicalLedger
SYMMETRY SessionSymmetry
