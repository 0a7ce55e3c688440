SPECIFICATION Spec
CONSTANTS
    Zones = {z1}
    NoZone = NoZone
    Absent = Absent
    nil = nil
    Names = {"r1", "r2"}
    AlnumNames = {"r1", "r2"}
    Controllers = {"r1", "r2"}
    Class <- NoOption
    Runtime <- OwnName
    Shared = Shared
    SameCluster = FALSE
    FixedNamespace = TRUE
    KubeDNS = FALSE
    HostNames = {}
    Interval = FALSE
    MaxEdits = 2
    MaxFailures = 0
    MaxCrashes = 0
PROPERTIES RegistrationStable
CHECK_DEADLOCK FALSE
