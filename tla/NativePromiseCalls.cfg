SPECIFICATION FairSpec
CONSTANTS
    Promise = {p1, p2, p3}
    Plain = {undef}
    Undefined = undef
    Handler = {h}
    NullHandler = null
    MaxReactions = 2
INVARIANTS
    FulfilledNeverPromise
    JobCarriesSettlement
    OneDriver
PROPERTIES
    SettledOnce
    ImplementsContract
    JobsRun
CHECK_DEADLOCK FALSE
