SPECIFICATION Spec
CONSTANTS
    Keys <- MCKeys
    Values = {"listed", "v1", "v2"}
    Allowed <- MCAllowed
    None = "none"
    Files <- MCFiles
    Profiles = {"profile"}
    Owner <- MCOwner
    Contents = {"generated"}
    Authored = "authored"
    Rank <- MCRank
    LegacyExtension = "pi-subagents"
    LegacyDependencies = {"chalk"}
    Sources <- MCSources
    Legacy = TRUE
    Edits = 2
    MaxKills = 1
    MaxFaults = 1
INVARIANTS
    AuthorsKept
    RootIsExact
    CheckAgrees
