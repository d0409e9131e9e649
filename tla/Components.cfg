\* Names of up to four characters: every branch of to_underscored_name and
\* every pair of adjacent branches, and wildcard lists with up to two
\* patterns, a leading, inner or trailing '*' and '?', as the white list
\* beside every black list of up to two characters, against names of up
\* to three characters.  Two scope builders with two calls each over the
\* requests of MC_Components, which share ids in three ways.
\* The combiner bounds are explained in MC_Components.
CONSTANTS
    MaxLen = 4
    NameLen = 3
    BlackLen = 2
    Builders = {1, 2}
    MaxBuilds = 2
    Requests <- MCScopeRequests
    RootName <- MCRootName
    SysName <- MCSysName
    FlagName <- MCFlagName
    ScopeSep <- MCScopeSep
    RootTagsFlag <- MCRootTags
    SysTagsFlag <- MCSysTags
    FlagTagsFlag <- MCFlagTags
    Threads = {t1, t2}
    Calls <- MCCalls
    Values <- MCValues
    DBL_MAX = 100
    MaxRecords = 1
    Inputs <- MCInputs
    WordBits = 6
    SumBits = 4
    IntBits = 3
    MaxWrites = 4
    RedValues <- MCRedValues
    LimitsMin <- MCLimitsMin
    LimitsMax = 7
    RedWrites = 3
SPECIFICATION Spec
\* An input of the name algorithms has no step, and a builder thread stops
\* after MaxBuilds calls; no thread of this run ever waits on another.
CHECK_DEADLOCK FALSE
INVARIANT CombinerTypeOK
INVARIANT NoLostUpdates
INVARIANT CombineCountLinearizable
INVARIANT HeldIsReference
INVARIANT CombineLinearizable
INVARIANT MatchesReference
INVARIANT FilterIsGlob
INVARIANT HistogramTypeOK
INVARIANT QuietSnapshotConsistent
 
PROPERTY ScopeRefinesRegistry
