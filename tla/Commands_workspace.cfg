SPECIFICATION Spec
CONSTANTS
    Targets = {"claude", "codex"}
    Packages = {"core", "extra"}
    Versions <- MCVersions
    Broken = "broken"
    Unsupported <- MCUnsupported
    RootManifests = {{}, {"claude"}}
    Checks = {"claude"}
    None = None
    Foreign = Foreign
    MaxCommands = 2
    MaxEdits = 1
    MaxFaults = 1
    MaxKills = 1
INVARIANTS
    OutputIsWholeSelection
    ExitTellsState
PROPERTIES
    RootComesFromOutput
    ArchivesComeFromOutput
CHECK_DEADLOCK FALSE
