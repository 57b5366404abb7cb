SPECIFICATION Spec
CONSTANTS
    Page = 8
    Machines = {"x86_64", "aarch64"}
    Regions <- MCRegions
    Bases = {0, 160}
    Piece = 16
    Garbage <- MCGarbage
    NBins = 3
    Binaries <- MCBinaries
    ExcludeChoices <- MCExclude
    HashWidth = 16
    Objects <- MCObjects
    MappingFiles <- MCMappings
    Strays <- MCStrays
    CommandLines <- MCCommandLines
INVARIANTS TypeOK RelroProtected ArraysRun EverythingRenamed CheckDecides
CHECK_DEADLOCK FALSE
