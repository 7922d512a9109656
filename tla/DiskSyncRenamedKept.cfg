CONSTANTS
    Disks = {d1, d2}
    Foreign = {}
    Shared = {}
    Places = {sda, sdb}
    Workers = {"scan"}
    ExcludedDisks = {}
    ExcludedPlaces = {sda}
    Args = {a, b}
    UserOps = {}
    MaxHost = 0
    MaxUser = 0
    MaxFault = 0
    MaxRestart = 1
    MaxTotal = 1
SPECIFICATION FairSpec
PROPERTIES EventuallyRemoved
