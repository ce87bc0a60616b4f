SPECIFICATION FairSpec
CONSTANTS
    undefined = undefined
    MaxTokens = 26
    ScriptTokens = 3
    Plain = {undefined}
    Names <- EveryName
    Program <- EveryFunction
    Result <- EveryResult
    Uses = {"pending", "adopt", "then", "catch", "finally", "async", "chained", "celled"}
INVARIANTS InlinedOnce SettlementsFollow DrainComplete
PROPERTIES CompilerTerminates OrderKept
CHECK_DEADLOCK FALSE
