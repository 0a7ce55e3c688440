SPECIFICATION Spec
CONSTANTS
    Zones = {z1, z2}
    NoZone = NoZone
    Absent = Absent
    nil = nil
    Names = {"c1"}
    AlnumNames = {"c1"}
    Controllers = {}
    Class <- NoOption
    Runtime <- NoOption
    Obj = {o1, o2, o3}
    ServerClass = nil
    Master = TRUE
    MaxEdits = 3
    MaxRestarts = 1
SYMMETRY ServerSymmetry
INVARIANTS TypeOK ModelSettled
CHECK_DEADLOCK FALSE
