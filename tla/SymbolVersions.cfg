SPECIFICATION Spec
CONSTANTS
    NBins = 2
    MaxSyms = 3
    MaxRels = 3
    Names = {"f", "g", "t"}
    Versions = {"V1", "V2"}
    Filenames <- MCFilenames
    Sonames <- MCSonames
    FilenameToSoname <- MCFilenameToSoname
    SonameToFilename <- MCSonameToFilename
    DynSyms <- VersionedDynSyms
    Verneed <- VersionedVerneed
    Verdef <- VersionedVerdef
INVARIANTS TypeOK IndexDenotesKey ExposedOnce VersymNamesVersion MainExported AbortsOnlyOnUnregisteredVersion
CHECK_DEADLOCK FALSE
