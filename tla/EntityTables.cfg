SPECIFICATION Spec
CONSTANTS
    MAX_ENTITY_INDEX = 3
    LARGE_TABLE = 1
    PhysRequests = {0, 1, 3}
    LogRequests = {0}
    ClassOf <- PortsInside
    MaxPhys = 3
    MaxLog = 1
    MaxPairs = 2
CONSTRAINT
    NothingUnhandled
INVARIANTS
    TypeOK
    ListsInOrder
    RowsNameLiveEntities
    ParentIsLowest
    ContainsAcyclic
