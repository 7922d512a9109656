CONSTANTS
    Paths = {"p1", "p2"}
    Firmware = {"f1", "f2"}
    MaxChanges = 2
    MaxRequests = 1
    MaxFaults = 1
SPECIFICATION FairSpec
INVARIANTS TypeOK GaugesConsistent
PROPERTIES EventuallyExported
