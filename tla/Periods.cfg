\* Two sessions, close and lock by two actors against records with and without overrides.
SPECIFICATION Safety
CONSTANTS
  Sessions = {s1, s2}
  Bundles <- PeriodBundles
  Accounts = {"cash", "food", "rent"}
  Entities = {"main"}
  Approvers = {}
  Actors = {ann, ben}
  Rules <- NoRules
  Threshold = 5
  MonthLength = 2
  NULL = NULL
INVARIANTS
  EffectsAreLogged
PROPERTIES
  PeriodsOnlyTighten
SYMMETRY SessionSymmetry
