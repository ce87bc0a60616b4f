SPECIFICATION Spec
CONSTANTS
    MaxGenerators = 2
    MaxRequests = 5
    Bodies <- SomeBodies

INVARIANTS NoRequestForgotten
CHECK_DEADLOCK FALSE
