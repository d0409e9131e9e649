CONSTANTS
    Threads = {t1}
    Calls <- MCCalls
    Values <- MCMaxValues
    DBL_MAX = 100
    MaxRecords = 1
SPECIFICATION Spec
INVARIANT NoRecordPastEnd
