SPECIFICATION Spec
CONSTANTS
    Zones <- MCZones
    NoZone = NoZone
    nil = nil
    Obj = {o1, o2, o3}
    DomainNames <- MCDomainNames
    Entries <- MCEntries
    Queries <- MCQueries
SYMMETRY ObjSymmetry
INVARIANTS TypeOK ParentCurrent ChainsEnd  AddressesResolved
CHECK_DEADLOCK FALSE
