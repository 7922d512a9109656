CONSTANTS
    Disks = {d1}
    Foreign = {}
    Shared = {}
    Places = {sda}
    Workers = {"scan"}
    ExcludedDisks = {}
    ExcludedPlaces = {}
    Args = {a, b}
    UserOps = {"delete"}
    MaxHost = 1
    MaxUser = 1
    MaxFault = 0
    MaxRestart = 0
    MaxTotal = 2
SPECIFICATION FairSpec
PROPERTIES EventuallyPruned
