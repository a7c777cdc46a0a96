CONSTANTS
  x = x
  y = y
  Combos = {x, y}
  MaxCombos = 3
  MaxUndo = 2
  MaxRevision = 8
  Models <- MCModels
  Commands <- MCCommands
  Execute <- MCExecute
  Requests <- MCRequests
  Noop <- MCNoop
  InitModels <- MCInit
SPECIFICATION Spec
PROPERTIES RevisionNamesModel HistoryRefined
CHECK_DEADLOCK FALSE
