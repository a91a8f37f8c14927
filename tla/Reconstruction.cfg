SPECIFICATION MCSpec

CONSTANTS
  Texts <- MCTexts
  Positions = {0, 1, 3, 10, 20}
  MaxFragments = 4
  None = None
  Meaningful = {"a", "b"}
  MinOverlap = 1
  MaxGap = 2
  Budgets = {0, 16}
  MaxPending = 5
  Break = Break
  BestMinimum = 2
  Window = 2
  Comparisons = 14

INVARIANTS
  PassedStayIneligible
  DeadEndsTrue
  StatusTrue
  EveryFragmentOnce
  SectionsPreserved

PROPERTIES
  ImplementsGreedy
