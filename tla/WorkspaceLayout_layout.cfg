SPECIFICATION Spec
CONSTANTS
    Dirs <- MCDirs
    Root = "root"
    Spare = {"new1", "new2"}
    Names <- MCNames
    Lower <- MCLower
    Trees <- MCTrees
    Requests <- MCRequests
    Edits <- MCEdits
    MaxLinks = 4
    MaxEdits = 1
CHECK_DEADLOCK FALSE
PROPERTIES
    GuardSeparatesRoots
    WriteSparesSources
    ArchivesStayApart
