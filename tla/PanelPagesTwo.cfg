\* Two pages, one trouble.
CONSTANTS
    Targets = {t1, t2}
    MaxRevision = 1
    MaxFailures = 1
    MaxTroubles = 1
    Hung = {}

SPECIFICATION Spec

SYMMETRY PageSymmetry

INVARIANTS
    ReadyPagesShowLatest

\* A watcher that has closed stops.
CHECK_DEADLOCK FALSE
