SPECIFICATION Spec
CONSTANTS
    MaxGenerators = 2
    MaxRequests = 5
    Bodies <- SomeBodies
INVARIANTS RecordsAgree AnsweredInOrder
PROPERTIES NeverReplays
CHECK_DEADLOCK FALSE
