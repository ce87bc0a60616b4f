SPECIFICATION FairSpec
CONSTANTS
    Plain = {undef}
    Undefined = undef
    HostError = hostError
    CycleError = cycleError
    Programs <- AllPrograms
    MaxPromises = 4
    MaxReactions = 3
INVARIANTS
    FulfilledNeverPromise
    OneDriver
    ResumedOnce
    RejectionsSurface
PROPERTIES
    SettledOnce
    ImplementsContract
    JobsRun
CHECK_DEADLOCK FALSE
