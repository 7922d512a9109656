CONSTANTS
    Disks = {d1, d2}
    Foreign = {}
    Shared = {}
    Places = {sda, sdb}
    Workers = {"scan", "rec"}
    ExcludedDisks = {d2}
    ExcludedPlaces = {}
    Args = {a, b}
    UserOps = {"edit", "delete", "unlabel"}
    MaxHost = 2
    MaxUser = 2
    MaxFault = 1
    MaxRestart = 1
    MaxTotal = 3
SPECIFICATION FairSpec
PROPERTIES EventuallyInSync EventuallyRemoved
