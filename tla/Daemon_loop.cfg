\* A daemon that watches, pushes, pulls and polls, with failures and a restart.
SPECIFICATION FairLoopSpec
CONSTANTS
    Debounce = 1
    MaxDebounce = 2
    PullEvery = 2
    ApprovalsEvery = 2
    BackoffMin = 1
    BackoffMax = 2
    QueueSize = 1
    Requests = {r1}
    MaxWrites = 1
    MaxFailures = 2
    MaxRestarts = 1
INVARIANTS WritesAreRemembered NeverStarved
PROPERTY NothingIsForgotten
