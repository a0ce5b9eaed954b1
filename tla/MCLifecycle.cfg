CONSTANTS
    Commands = {c1, c2, c3}
    Old = Old
    None = None
    Missing = Missing
    MaxCrashes = 1

SPECIFICATION Spec

SYMMETRY CommandSymmetry
VIEW Remembered
CONSTRAINT Explored

INVARIANTS
    OneAtATime
    OwnerIsRecorded
    UninstallsIdle
    EngineIsThere
    PortRecoverable

\* A command ends.
CHECK_DEADLOCK FALSE
