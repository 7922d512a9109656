CONSTANTS
    MaxInventory = 2
    RcvBuf = 1
    MaxFailures = 1
    MaxStops = 1
SPECIFICATION FairSpec
INVARIANTS TypeOK NothingMissed ReadyOnlyWhileRunning
PROPERTIES RefinesPromise ShutdownCompletes ScanNotPostponed PollRepairs
