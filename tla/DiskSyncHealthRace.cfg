CONSTANTS
    Disks = {d1}
    Foreign = {}
    Shared = {}
    Places = {sda}
    Workers = {"scan", "rec"}
    ExcludedDisks = {}
    ExcludedPlaces = {}
    Args = {a, b}
    UserOps = {"edit"}
    MaxHost = 1
    MaxUser = 1
    MaxFault = 1
    MaxRestart = 0
    MaxTotal = 3
SPECIFICATION Spec
INVARIANTS HealthMatchesDegraded
