CONSTANTS
    MaxInput = 0
    ArgKinds = {"ok"}
    CanKill = FALSE
    MaxChanges = 0
SPECIFICATION Spec
INVARIANTS KilledIsNotMissing
CHECK_DEADLOCK FALSE
