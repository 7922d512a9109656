CONSTANTS
    Entries = {1, 2, 3}
    VirtualNames = {1}
    Numbers = {n1, n2, n3}
    Disks = {d1, d2, part, loop, iscsi, raid}
    Virtual = {loop}
    Partitions = {part}
    Remote = {iscsi}
    RuleNames = {3}
    RuleDisks = {raid}
    Excluded <- ByRule
    MaxHotplug = 2
    MaxLen = 6
    HashLen = 2
SYMMETRY NumberSymmetry
SPECIFICATION MCSpec
INVARIANTS TypeOK SteadyEntriesExact FailsWithoutDatabase StaleIsAnnounced PathIgnoresLinkOrder NamesWellFormed NamesTellApart CommaMeansAnd
