CONSTANTS
    MaxInput = 6
    ArgKinds = {"ok", "unknown"}
    CanKill = TRUE
    MaxChanges = 3
SPECIFICATION FairSpec
INVARIANTS TypeOK LateRunFails DataWasReadable AbsentIsNotUnsupported MissingWasAway QuotedArgsReadBack SpaceSeparates
PROPERTIES CollectReturns
CHECK_DEADLOCK FALSE
