SPECIFICATION Spec
CONSTANTS
    Entries <- MCEntries
    MaxEntries = 4
    Remainders = {0, 8}
    InSegments <- MCInSegments
    Outputs <- MCOutputs
    HashWidth = 16
    Names <- MCNames
    HashFiles <- MCHashFiles
    Filenames = {"libf.so", "libg.so"}
    Sonames = {"libf.so.1", "libg.so.1"}
    Versions = {"V1", "V2"}
    FilenameToSoname <- MCToSoname
    SonameToFilename <- MCToFilename
    MaxAdds = 4
    VersionFiles <- MCVersionFiles
    Mems <- MCMems
    Binaries <- MCBinaries
    Base = 256
    Page = 16
    Width = 10
    Systems <- MCSystems
    MaxOpen = 3
INVARIANTS TypeOK OutputReadBack DynamicUnderstood SymbolsFound FramesFound DirectoriesInOrder
PROPERTY EveryReaderEnds
CHECK_DEADLOCK FALSE
