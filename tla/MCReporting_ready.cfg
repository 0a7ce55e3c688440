SPECIFICATION FairSpec
CONSTANTS
    z1 = z1
    z2 = z2
    e1 = e1
    Zones = {z1, z2}
    Entries = {}
    NoZone = NoZone
    Absent = Absent
    nil = nil
    Names = {}
    AlnumNames = {}
    Controllers = {}
    Class <- NoOption
    Runtime <- NoOption
    Workers = {"operator.zone", "server.zone"}
    OwnClass = nil
    OwnRuntime = nil
    ServerClass = nil
    Slave = TRUE
    SameCluster = FALSE
    Inputs <- Written
    MaxObjects = 2
    MaxEdits = 1
    MaxFailures = 0
PROPERTIES StatusRests ZoneReady
CHECK_DEADLOCK FALSE
