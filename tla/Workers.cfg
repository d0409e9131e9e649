\* Timer mode: timers due now or one tick later, one-shot or with period 1,
\* on a clock of 0..2 with three add_impl calls: enough for an id to be
\* freed and reused, a periodic timer to be reinserted, and remove() to
\* meet every worker phase.  Dumper mode: one caller making three start()
\* or stop() calls and two thread slots, so a start after a stop creates a
\* second dump thread.  Registry mode: two threads making four calls in
\* all, so a register or remove can wait on a run_all of the other thread
\* and a run_all can meet one, two or three registered reporters.  An idle timer and a dumper nobody calls stop.
SPECIFICATION Spec
CONSTANTS
    Delays = {0, 1}
    Periods = {0, 1}
    MaxTime = 2
    MaxAdds = 3
    Callers = {c1}
    DumpThreads = {1, 2}
    MaxCalls = 3
    RCallers = {r1, r2}
    EmptyName = ""
    Builtins = {"json", "prometheus"}
    MaxRCalls = 3
    NoRep = NoRep
INVARIANT TypeOK
INVARIANT IdAccounting
INVARIANT RunAllCoversRegistry
PROPERTY DueTimerFires
PROPERTY StopReturns
PROPERTY RunningDumps
PROPERTY ExclusiveCallsReturn
CHECK_DEADLOCK FALSE
