\* One timer, due at once: remove() lands between the worker erasing the
\* Time_event and calling the handler.
SPECIFICATION Spec
CONSTANTS
    Delays = {0}
    Periods = {0}
    MaxTime = 0
    MaxAdds = 1
INVARIANT NoEmptyHandlerCall
CHECK_DEADLOCK FALSE
