SPECIFICATION Spec
CONSTANTS
    Numbers = {1}
    Programs <- AllPrograms
INVARIANTS
    TypeOK
    DepthCounts
    ThisIsOwn
PROPERTIES
    ImplementsCalls
CHECK_DEADLOCK FALSE
