SPECIFICATION Spec
CONSTANTS
    NBins = 3
    Binaries <- MCBinaries
    Growth <- MCGrowth
    Executable = TRUE
    ExcludedFini <- MCNone
    SectionHeaders = TRUE
INVARIANTS TypeOK RecordedIsWritten SlotsRelocated LinkSucceeds SegmentsMap
    RelocationsLand HeadersFound
CHECK_DEADLOCK FALSE
