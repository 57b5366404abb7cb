SPECIFICATION Spec
CONSTANTS
    NBins = 3
    Binaries <- MCBinaries
    Growth <- MCGrowth
    Executable = FALSE
    ExcludedFini <- MCExcluded
    SectionHeaders = FALSE
INVARIANT LinkSucceeds
CHECK_DEADLOCK FALSE
