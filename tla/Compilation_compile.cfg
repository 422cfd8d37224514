SPECIFICATION Spec
CONSTANTS
    BadNames = {"", "bad name"}
    BadSegments = {"", ".", ".."}
    Blank = {"", " "}
    Kebab = {"p", "q", "c"}
    Scripts = {"x.ts"}
    Null = "null"
    MarkdownStem <- MCMarkdownStem
    JsonStem <- MCJsonStem
    IgnoredFiles = {"SKILL.bak"}
    IgnoredDirs = {"node_modules"}
    PluginNames = {"p", "q"}
    AntigravityNames = {"p", "q"}
    NameOrder <- MCNameOrder
    Malformed = {"?"}
    Requests <- MCRequests
    TargetOrder <- MCTargetOrder
INVARIANTS
    NothingIsLost
    OthersStayOut
    LossIsAcknowledged
    HookManifestIsExact
    SectionsAreExact
    ProvenanceIsComplete
    CatalogsFindPackages
