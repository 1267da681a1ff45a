SPECIFICATION Spec
CONSTANTS
    Period = 10
    MaxOverdue = 3
INVARIANTS
    SuppressedIsCovered
PROPERTIES
    EveryChangeIsReported
    TrapsStop
