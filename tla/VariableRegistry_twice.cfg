CONSTANTS
    Vars <- MCVars
    PlainVars <- MCPlainVars
    Names <- MCNames
    Prefix <- MCPrefix
    Separator <- MCSeparator
    SUB_MAP_COUNT = 4
    MaxExposes = 3
    Recorders = {1}
    RecPrefixes <- MCRecPrefixes
    PercentileValues = {70, 80, 90, 99}
    SaveSeries = TRUE
    SigarThreads = {1, 2}
    SigarGauges <- MCSigarGauges
    SigarNames <- MCSigarNames
    SysPrefix <- MCSysPrefix
SPECIFICATION ClientsSpec
INVARIANT ReportedAtMostOnce
