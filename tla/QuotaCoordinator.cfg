\* Three retry delays, as the daemon leaves them; auth.json changes twice, so
\* that a read can see its account move before and after the answer.
CONSTANTS
    RetryDelays = 3
    MaxAccount = 2
    NoContext = NoContext

SPECIFICATION FairSpec

INVARIANTS
    NoChangeLost
    RetryChain
    NobodyWaitsForever
    StopQuiesces
    PublishedForItsAccount
    UnavailableOnlyWhenStale

PROPERTIES
    ImplementsFeed
    StreakEnds
    StaleIsReported
