CONSTANTS
    Disks = {d1}
    Foreign = {f}
    Shared = {d1}
    Places = {sda}
    Workers = {"scan", "rec"}
    ExcludedDisks = {}
    ExcludedPlaces = {}
    Args = {a, b}
    UserOps = {"edit", "delete", "unlabel", "create"}
    MaxHost = 2
    MaxUser = 2
    MaxFault = 1
    MaxRestart = 1
    MaxTotal = 5
SPECIFICATION Spec
INVARIANTS TypeOK SucceededIsAssessed HealthMatchesUnlessRaced
PROPERTIES MarkingKeepsTheRest ForeignOnlyByName KnownHealthPreserved TransitionReportedOnce
