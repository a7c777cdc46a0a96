CONSTANTS
  None = None
  Sizes = {3}
  Models <- MCModels
SPECIFICATION Spec
INVARIANTS CarriersComeLater LeftOutForARing LoadsArrive
CHECK_DEADLOCK FALSE
