SPECIFICATION FairSpec
CONSTANTS
    MaxModules = 3
    Name <- Names
    Sanitized <- Sanitize
    Programs <- AllPrograms
INVARIANTS DependenciesFirst RenamedApart ImportsMeetExports NamespacesMeetExports
PROPERTIES LoadingEnds
CHECK_DEADLOCK FALSE
