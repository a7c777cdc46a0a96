SPECIFICATION MCSpec
CONSTANTS
  None = None
  Kinds = {"static", "pushover", "eigen"}
  Dirs = {"X"}
  Zones = {z1, z2}
  Zone1 = z1
  Regions = {r1}
  MaxEdits = 2
  MaxHistory = 2
INVARIANTS
  NothingForeign
  PreparationIsCurrent
  NothingUnsavedUnmarked
  SavedPreparationIsCurrent
  JobsRunOnSyncedModels
