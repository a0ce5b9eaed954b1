\* One page that may answer nothing, one publication, one trouble.
CONSTANTS
    Targets = {t1}
    MaxRevision = 1
    MaxFailures = 1
    MaxTroubles = 1
    Hung = {t1}

SPECIFICATION FairSpec

PROPERTIES
    MainPagesCatchUp
    ClosingTerminates

\* A watcher that has closed stops.
CHECK_DEADLOCK FALSE
