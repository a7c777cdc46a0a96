SPECIFICATION Spec
CONSTANTS
  dl = dl
  ex = ex
  gl = gl
  gs = gs
  None = None
  Cases = {dl, ex}
  EX = ex
  Names = {gl, gs}
  Terms <- MCTerms
  ShortTerm = {gs}
  MaxRuns = 2
  MaxEdits = 1
CHECK_DEADLOCK FALSE
INVARIANTS
  SelectionShowsItsResult
  ChecksMatchOrReported
  FailureTakesDependents
