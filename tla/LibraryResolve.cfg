SPECIFICATION Spec
CONSTANTS
    Root = "root"
    OwnName = "main"
    Libs <- MCLibs
    Sonames <- MCSonames
    Soname <- MCSoname
    Dirs = {"local", "sys"}
    RootDir = "local"
    Kind <- MCKind
    Rpath <- MCRpath
    Runpath <- MCRunpath
    LdLibraryPath <- NoPath
    SystemPath <- MCSystem
    CustomPath <- NoPath
    NeededLists <- MCNeededLists
    ExcludeChoices <- MCExclude
INVARIANTS TypeOK OutputCoversNeeds SortPermutes DependentsFirst SonameRoundTrip
    CopyOfFirstNeeder OnlyMainLinkedTwice
PROPERTY Terminates
CHECK_DEADLOCK FALSE
