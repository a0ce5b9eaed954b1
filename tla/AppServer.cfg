\* Two reads, so that the answer of one may come during the next.
CONSTANTS
    Reads = {r1, r2}
    MaxOutput = 2

SPECIFICATION FairSpec

INVARIANTS
    NoRequestOutlivesClient
    EndIsAnnounced
    ChildIsEnded

PROPERTIES
    QuietAfterEnd
    CallsSettle

\* A provider that is closed is not used again.
CHECK_DEADLOCK FALSE
