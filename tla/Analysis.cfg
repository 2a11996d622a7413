\* One question per behaviour, or one account reconciled over time.
SPECIFICATION Spec
CONSTANTS
  Questions <- MCQuestions
  Dates = {1, 2}
  Entries <- MCEntries
  Balances = {0, 105}
  MaxPostings = 3
  NULL = NULL
INVARIANTS
  TransfersAreNeutral
  WholeLiesBetweenItsParts
  SpendsAreCountedOnce
  PayoffFollowsTheRanking
PROPERTIES
  AdjustmentsClose
CHECK_DEADLOCK FALSE
