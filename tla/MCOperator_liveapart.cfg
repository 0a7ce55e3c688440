SPECIFICATION FairSpec
CONSTANTS
    Zones = {z1, z2}
    NoZone = NoZone
    Absent = Absent
    nil = nil
    Names = {}
    AlnumNames = {}
    Controllers = {"op"}
    Class <- NoOption
    Runtime <- NoOption
    Shared = Shared
    SameCluster = FALSE
    FixedNamespace = FALSE
    KubeDNS = TRUE
    HostNames = {z1}
    Interval = TRUE
    MaxEdits = 3
    MaxFailures = 1
    MaxCrashes = 0
INVARIANTS NamespaceUnused
PROPERTIES NameserverPublished
CHECK_DEADLOCK FALSE
