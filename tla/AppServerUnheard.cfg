CONSTANTS
    Reads = {r1}
    MaxOutput = 2

SPECIFICATION Spec

INVARIANTS
    UnexpectedCloseReported

\* A provider that is closed is not used again.
CHECK_DEADLOCK FALSE
