SPECIFICATION FairSpec
CONSTANTS
    Zones = {z1, z2}
    NoZone = NoZone
    Absent = Absent
    nil = nil
    Names = {}
    AlnumNames = {}
    Controllers = {"op"}
    Class <- NoOption
    Runtime <- NoOption
    Shared = Shared
    SameCluster = TRUE
    FixedNamespace = TRUE
    KubeDNS = FALSE
    HostNames = {}
    Interval = TRUE
    MaxEdits = 3
    MaxFailures = 0
    MaxCrashes = 0
PROPERTIES RootServedAgain
CHECK_DEADLOCK FALSE
