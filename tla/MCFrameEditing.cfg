CONSTANTS
  None = None
  Views = {"nodes", "members", "isolators", "sections", "materials", "cases", "floors", "joists"}
  MaxNodes = 4
  MaxElems = 3
  MaxSections = 3
  MaxMaterials = 3
  MaxCases = 3
  MaxLoads = 2
  MaxRegionId = 6
  MaxJoists = 3
  MaxJoistId = 4
  Faces <- MCFaces
  Document <- MCDocument
  Requests <- MCRequests
SPECIFICATION Spec
INVARIANTS ReferencesHold CommandsReversible DeletionsRewireNothing
CHECK_DEADLOCK FALSE
