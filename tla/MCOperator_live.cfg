SPECIFICATION FairSpec
CONSTANTS
    Zones = {z1, z2}
    NoZone = NoZone
    Absent = Absent
    nil = nil
    Names = {}
    AlnumNames = {}
    Controllers = {"op"}
    Class <- NoOption
    Runtime <- NoOption
    Shared = Shared
    SameCluster = TRUE
    FixedNamespace = FALSE
    KubeDNS = FALSE
    HostNames = {}
    Interval = TRUE
    MaxEdits = 3
    MaxFailures = 1
    MaxCrashes = 1
PROPERTIES RootServed NestedUndeployed DeletionCompletes
CHECK_DEADLOCK FALSE
