SPECIFICATION FairSpec
CONSTANTS
    Zones = {z1}
    Entries = {e1}
    NoZone = NoZone
    Absent = Absent
    nil = nil
    Names = {"a"}
    AlnumNames = {"a"}
    Controllers = {}
    Class <- NoOption
    Runtime <- NoOption
    OwnClass = nil
    TargetClass = nil
    MaxEdits = 3
    MaxFailures = 1
    MaxCrashes = 1
INVARIANTS TypeOK ReplicaGuarded RootsSettled
PROPERTIES DeletionCompletes FinalizerProtocol
CHECK_DEADLOCK FALSE
