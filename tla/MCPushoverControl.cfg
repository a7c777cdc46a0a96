SPECIFICATION Spec
CONSTANTS
  None = None
  Options <- MCOptions
  NSteps = 1
  GravitySteps = 2
  Attempts = 3
  Extension = 3
  BudgetFactor = 3
  DispSteps = 2
  ArcSteps = 2
  Grid = 4
  MaxLambda = 12
  MaxRoof = 4
CHECK_DEADLOCK FALSE
INVARIANTS
  ResultShowsLatestRecord
  PrematureEndNamesCommittedFactor
  EndIsExplained
PROPERTIES
  StepsAdvance
  AnalysisEnds
  ImplementsEquilibriumPath
