SPECIFICATION Spec
CONSTANTS
    NBins = 3
    MaxSyms = 2
    MaxRels = 4
    Names = {"f", "g", "t"}
    Versions = {"V1", "V2"}
    Filenames <- MCFilenames
    Sonames <- MCSonames
    FilenameToSoname <- MCFilenameToSoname
    SonameToFilename <- MCSonameToFilename
    DynSyms <- OrderedDynSyms
    Verneed <- NoVersions
    Verdef <- NoVersions
INVARIANTS BindsFirstDefinition TableReflectsInputs
PROPERTY ImplementsScope
CHECK_DEADLOCK FALSE
