SPECIFICATION Spec
CONSTANTS
    Zones = {z1, z2}
    NoZone = NoZone
    Absent = Absent
    nil = nil
    Names = {}
    AlnumNames = {}
    Controllers = {"op"}
    Class <- NoOption
    Runtime <- NoOption
    Shared = Shared
    SameCluster = FALSE
    FixedNamespace = FALSE
    KubeDNS = FALSE
    HostNames = {}
    Interval = TRUE
    MaxEdits = 3
    MaxFailures = 0
    MaxCrashes = 1
INVARIANTS NamespaceUnused
CHECK_DEADLOCK FALSE
