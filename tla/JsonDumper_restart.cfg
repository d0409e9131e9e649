\* One caller: start(), stop(), start().  The dump thread the second
\* start() creates finds _stop still set.  The calls end, so the system
\* may stop.
SPECIFICATION Spec
CONSTANTS
    Callers = {c1}
    DumpThreads = {1, 2}
    MaxCalls = 3
INVARIANT StartedIsRunning
CHECK_DEADLOCK FALSE
