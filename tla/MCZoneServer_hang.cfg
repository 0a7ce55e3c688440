SPECIFICATION Spec
CONSTANTS
    Zones = {z1, z2}
    NoZone = NoZone
    Absent = Absent
    nil = nil
    Names = {}
    AlnumNames = {}
    Controllers = {}
    Class <- NoOption
    Runtime <- NoOption
    Obj = {o1, o2}
    ServerClass = nil
    Master = TRUE
    MaxEdits = 4
    MaxRestarts = 0
SYMMETRY ServerSymmetry
INVARIANTS CallsEnd
CHECK_DEADLOCK FALSE
