SPECIFICATION Spec
CONSTANTS
    NSteps = 3
    MaxIter = 2
    GravitySteps = 2
    MaxAttempts = 3
    Grid = 4
    Everys = {1, 2}
    Corrections <- MCCorrections
    Starts <- MCStarts
INVARIANTS DampingFollowsVelocity RecordingShowsHistory
PROPERTIES IterationsLeaveNoTrace AnalysisEnds
CHECK_DEADLOCK FALSE
