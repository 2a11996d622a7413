\* Two sessions call the tools beside the ledger, one workload per behaviour.
SPECIFICATION Spec
CONSTANTS
  Sessions = {s1, s2}
  Workloads <- MCWorkloads
  AccountIds = {1, 2, 3, 4, 5, 6, 7, 9}
  Uuids = {6, 7}
  MetaKeys <- MCMetaKeys
  Entities = {"main"}
  ChangeIds = {1, 2, 3}
  Texts <- MCTexts
  PageLimit = 1
  NULL = NULL
INVARIANTS
  TreeShowsEveryAccount
  HistoryMirrorsProfiles
  ReplaysRepeatTheAnswer
  EffectsAreLogged
  ChangesCarryTheirVerdict
  ImportIsIdempotent
  WalksMissNothing
PROPERTIES
  ImportsAreWhole
  ImplementsKeyedAnswers
SYMMETRY SessionSymmetry
