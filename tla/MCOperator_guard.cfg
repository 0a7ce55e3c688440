SPECIFICATION Spec
CONSTANTS
    Zones = {z1, z2}
    NoZone = NoZone
    Absent = Absent
    nil = nil
    Names = {}
    AlnumNames = {}
    Controllers = {"op"}
    Class <- NoOption
    Runtime <- NoOption
    Shared = Shared
    SameCluster = FALSE
    FixedNamespace = FALSE
    KubeDNS = FALSE
    HostNames = {}
    Interval = FALSE
    MaxEdits = 3
    MaxFailures = 2
    MaxCrashes = 1
SYMMETRY ZoneSymmetry
INVARIANTS TypeOK ResourcesGuarded ValidationSettled
PROPERTIES FinalizerProtocol
CHECK_DEADLOCK FALSE
