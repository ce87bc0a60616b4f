SPECIFICATION Spec
CONSTANTS
    Plain = {undef}
    Undefined = undef
    HostError = hostError
    CycleError = cycleError
    Programs <- ConstructorPrograms
    MaxPromises = 2
    MaxReactions = 2
PROPERTIES
    FirstResolvingCallWins
CHECK_DEADLOCK FALSE
