\* Two metadata patches of one account, of which one is read before and written after the other.
SPECIFICATION Spec
CONSTANTS
  Sessions = {s1, s2}
  Workloads <- PatchWorkloads
  AccountIds = {1, 2, 3, 4, 5, 6, 7, 9}
  Uuids = {6, 7}
  MetaKeys <- MCMetaKeys
  Entities = {"main"}
  ChangeIds = {1, 2, 3}
  Texts <- MCTexts
  PageLimit = 1
  NULL = NULL
PROPERTIES
  UnmentionedKeysArePreserved
SYMMETRY SessionSymmetry
