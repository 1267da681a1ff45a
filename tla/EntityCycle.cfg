SPECIFICATION Spec
CONSTANTS
    MAX_ENTITY_INDEX = 4
    LARGE_TABLE = 200
    PhysRequests = {0}
    LogRequests = {}
    ClassOf <- PortsInside
    MaxPhys = 3
    MaxLog = 0
    MaxPairs = 2
INVARIANTS
    NothingContainsItself
