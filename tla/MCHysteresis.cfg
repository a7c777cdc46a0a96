SPECIFICATION Spec
CONSTANTS
    Springs <- MCSprings
    Reach = 6
    MaxCommits = 3
INVARIANTS RegularWithinStrength NoJump StepIndependent
