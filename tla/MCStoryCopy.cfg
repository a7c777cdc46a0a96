CONSTANTS
    None = None
    Base = 0
    Bay = 6
    MaxCopies = 1
    SunkenStories = {2, 3}
    From = {2, 3, 4}
    Elevation <- Levels
    Documents <- AllDocs
    Commands <- AllRequests
SPECIFICATION Spec
INVARIANTS
    NothingElseChanges
    TwiceIsOnce
    TargetsMatchSource
CHECK_DEADLOCK FALSE
