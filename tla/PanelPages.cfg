\* One page, two publications, of which two things go wrong at any point.
CONSTANTS
    Targets = {t1}
    MaxRevision = 2
    MaxFailures = 1
    MaxTroubles = 2
    Hung = {}

SPECIFICATION Spec

INVARIANTS
    ClosedForgets
    PanelsCleaned

PROPERTIES
    InjectedIntoMainOnly
    NeverShowsOlder

\* A watcher that has closed stops.
CHECK_DEADLOCK FALSE
