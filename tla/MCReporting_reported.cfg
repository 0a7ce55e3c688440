SPECIFICATION Spec
CONSTANTS
    z1 = z1
    z2 = z2
    e1 = e1
    Zones = {z1, z2}
    Entries = {e1}
    NoZone = NoZone
    Absent = Absent
    nil = nil
    Names = {}
    AlnumNames = {}
    Controllers = {}
    Class <- NoOption
    Runtime <- NoOption
    Workers = {"operator.zone", "operator.entry", "server.zone", "server.entry"}
    OwnClass = nil
    OwnRuntime = nil
    ServerClass = nil
    Slave = TRUE
    SameCluster = TRUE
    Inputs <- Written
    MaxObjects = 2
    MaxEdits = 1
    MaxFailures = 1
INVARIANTS TypeOK ZonesSettled EntriesSettled
PROPERTIES NoReportLost
CHECK_DEADLOCK FALSE
VIEW Effective
