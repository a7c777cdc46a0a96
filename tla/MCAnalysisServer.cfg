\* Two jobs on one load case; one model edit or one kill, anywhere.
CONSTANTS
  Cases = {0}
  MaxJobs = 2
  MaxEvents = 1
  None = None
  Torn = Torn
  Free = Free
  Batch <- MCBatch
SPECIFICATION Spec
INVARIANTS
  PendingBelongsToHolder
  DiskManifestTracksMemory
PROPERTIES
  DonePublishesOwnRows
  ImplementsJobService
  EveryJobEnds
\* The bounded client has nothing left to ask once both jobs are reported.
CHECK_DEADLOCK FALSE
