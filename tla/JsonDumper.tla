------------------------------ MODULE JsonDumper ------------------------------
(***************************************************************************)
(* JsonDumper (src/tally/reporters/json_dumper.cc, json_dumper.h): the    *)
(* singleton that start() gives a dump thread and stop() joins.  The      *)
(* thread sleeps the start delay, then loops while !_stop: one            *)
(* DumpJsonStatsReporter sweep appended to the dump file (ReportDispatch  *)
(* models what a sweep writes), then a sleep to the next interval.        *)
(* running() is _created && !_stop.                                        *)
(*                                                                         *)
(* Application threads call start() and stop(); a dump thread is named   *)
(* by the slot of DumpThreads pthread_create gave it.  _stop is a plain   *)
(* bool written by stop() and read by the thread; the model takes the     *)
(* write as seen at the thread's next loop test, as the build does.       *)
(***************************************************************************)
EXTENDS Naturals

CONSTANTS
    Callers,        \* application threads calling start() and stop()
    DumpThreads,    \* slots for the threads pthread_create may start
    MaxCalls        \* bound on start() and stop() calls, all callers together

None == 0

VARIABLES
    created,    \* _created
    stopf,      \* _stop
    tid,        \* _tid: the slot of the last thread created, None before
    dt,         \* dt[i]: "none" | "delay" | "check" | "report" | "sleep"
                \*        | "exited" | "joined"
    cpc,        \* cpc[c]: "idle" | "create" | "join" | "clear"
    last,       \* last[c]: what c's last call returned: "none" | "startOK"
                \*          | "startErr" | "stop"
    calls,      \* calls made so far
    dumped      \* ghost: a sweep was written since the last thread started

vars == <<created, stopf, tid, dt, cpc, last, calls, dumped>>

TypeOK ==
    /\ created \in BOOLEAN /\ stopf \in BOOLEAN /\ dumped \in BOOLEAN
    /\ tid \in DumpThreads \cup {None}
    /\ dt \in [DumpThreads -> {"none", "delay", "check", "report", "sleep",
                                "exited", "joined"}]
    /\ cpc \in [Callers -> {"idle", "create", "join", "clear"}]
    /\ last \in [Callers -> {"none", "startOK", "startErr", "stop"}]
    /\ calls \in 0 .. MaxCalls

Init ==
    /\ created = FALSE /\ stopf = FALSE /\ tid = None
    /\ dt = [i \in DumpThreads |-> "none"]
    /\ cpc = [c \in Callers |-> "idle"]
    /\ last = [c \in Callers |-> "none"]
    /\ calls = 0 /\ dumped = FALSE

\* JsonDumper::running()
Running == created /\ ~stopf

-----------------------------------------------------------------------------
\* start(): if (_created) return OK; otherwise go on to pthread_create.
Start(c) ==
    /\ cpc[c] = "idle" /\ calls < MaxCalls
    /\ calls' = calls + 1
    /\ IF created
         THEN last' = [last EXCEPT ![c] = "startOK"] /\ UNCHANGED cpc
         ELSE cpc' = [cpc EXCEPT ![c] = "create"] /\ UNCHANGED last
    /\ UNCHANGED <<created, stopf, tid, dt, dumped>>

\* pthread_create(&_tid, ...) succeeds: the thread starts, _created = true.
StartCreate(c) ==
    /\ cpc[c] = "create"
    /\ \E i \in DumpThreads :
         /\ dt[i] = "none"
         /\ dt' = [dt EXCEPT ![i] = "delay"]
         /\ tid' = i
    /\ created' = TRUE
    /\ dumped' = FALSE
    /\ cpc' = [cpc EXCEPT ![c] = "idle"]
    /\ last' = [last EXCEPT ![c] = "startOK"]
    /\ UNCHANGED <<stopf, calls>>

\* pthread_create fails: "Fail to create sampling_thread".
StartFail(c) ==
    /\ cpc[c] = "create"
    /\ cpc' = [cpc EXCEPT ![c] = "idle"]
    /\ last' = [last EXCEPT ![c] = "startErr"]
    /\ UNCHANGED <<created, stopf, tid, dt, calls, dumped>>

\* A stop() that forgets to raise _stop.
StopNoFlag(c) ==
    /\ cpc[c] = "idle" /\ calls < MaxCalls
    /\ calls' = calls + 1
    /\ IF created
         THEN cpc' = [cpc EXCEPT ![c] = "join"] /\ UNCHANGED last
         ELSE last' = [last EXCEPT ![c] = "stop"] /\ UNCHANGED cpc
    /\ UNCHANGED <<created, stopf, tid, dt, dumped>>

\* stop(): if (_created) { _stop = true; then join }, else return.
Stop(c) ==
    /\ cpc[c] = "idle" /\ calls < MaxCalls
    /\ calls' = calls + 1
    /\ IF created
         THEN /\ stopf' = TRUE
              /\ cpc' = [cpc EXCEPT ![c] = "join"] /\ UNCHANGED last
         ELSE /\ last' = [last EXCEPT ![c] = "stop"]
              /\ UNCHANGED <<stopf, cpc>>
    /\ UNCHANGED <<created, tid, dt, dumped>>

\* pthread_join(_tid): returns once that thread has left run().
StopJoin(c) ==
    /\ cpc[c] = "join" /\ dt[tid] = "exited"
    /\ dt' = [dt EXCEPT ![tid] = "joined"]
    /\ cpc' = [cpc EXCEPT ![c] = "clear"]
    /\ UNCHANGED <<created, stopf, tid, last, calls, dumped>>

\* _created = false; stop() returns.
StopClear(c) ==
    /\ cpc[c] = "clear"
    /\ created' = FALSE
    /\ cpc' = [cpc EXCEPT ![c] = "idle"]
    /\ last' = [last EXCEPT ![c] = "stop"]
    /\ UNCHANGED <<stopf, tid, dt, calls, dumped>>

-----------------------------------------------------------------------------
\* run(): usleep(tally_sampler_thread_start_delay_us).
DumpDelay(i) ==
    /\ dt[i] = "delay"
    /\ dt' = [dt EXCEPT ![i] = "check"]
    /\ UNCHANGED <<created, stopf, tid, cpc, last, calls, dumped>>

\* A loop test that reads the flag the wrong way round.
DumpCheckInverted(i) ==
    /\ dt[i] = "check"
    /\ dt' = [dt EXCEPT ![i] = IF stopf THEN "report" ELSE "exited"]
    /\ UNCHANGED <<created, stopf, tid, cpc, last, calls, dumped>>

\* while (!_stop): go on to a sweep, or leave run().
DumpCheck(i) ==
    /\ dt[i] = "check"
    /\ dt' = [dt EXCEPT ![i] = IF stopf THEN "exited" ELSE "report"]
    /\ UNCHANGED <<created, stopf, tid, cpc, last, calls, dumped>>

\* One round: build the filter options, Variable::report into a new
\* DumpJsonStatsReporter, append_dump its lines.
DumpRound(i) ==
    /\ dt[i] = "report"
    /\ dt' = [dt EXCEPT ![i] = "sleep"]
    /\ dumped' = TRUE
    /\ UNCHANGED <<created, stopf, tid, cpc, last, calls>>

\* Sleep until abstime + tally_dump_interval_s, then test the loop again.
DumpSleep(i) ==
    /\ dt[i] = "sleep"
    /\ dt' = [dt EXCEPT ![i] = "check"]
    /\ UNCHANGED <<created, stopf, tid, cpc, last, calls, dumped>>

Caller(c) ==
    Start(c) \/ StartCreate(c) \/ StartFail(c) \/ Stop(c) \/ StopJoin(c)
    \/ StopClear(c)

Dumper(i) == DumpDelay(i) \/ DumpCheck(i) \/ DumpRound(i) \/ DumpSleep(i)

Next ==
    \/ \E c \in Callers : Caller(c)
    \/ \E i \in DumpThreads : Dumper(i)

(***************************************************************************)
(* Threads are scheduled fairly: a dump thread that can take a step       *)
(* eventually does, and so does a caller inside stop().  No caller is     *)
(* obliged to call start() or stop().                                      *)
(***************************************************************************)
Fairness ==
    /\ \A i \in DumpThreads : WF_vars(Dumper(i))
    /\ \A c \in Callers : WF_vars(StopJoin(c) \/ StopClear(c))

Spec == Init /\ [][Next]_vars /\ Fairness

-----------------------------------------------------------------------------
(***************************************************************************)
(* No dump thread is leaked: every thread pthread_create started and      *)
(* pthread_join has not yet reaped is the one _tid names, the only one a  *)
(* later stop() can join.  It rests on stop() joining before it clears    *)
(* _created, and on start() creating a thread only when _created is      *)
(* false; two start() calls that both see _created false each create one, *)
(* and the first is lost.  No run checks it: it holds for one caller and  *)
(* is violated with two (hazard at json_dumper.cc:63).                     *)
(***************************************************************************)
NoLeakedDumper ==
    \A i \in DumpThreads : dt[i] \notin {"none", "joined"} => i = tid

(***************************************************************************)
(* A stop() that found the dumper created eventually returns: the dump    *)
(* thread sees _stop at its next loop test, leaves, and is joined.        *)
(***************************************************************************)
StopReturns ==
    \A c \in Callers : (cpc[c] = "join") ~> (cpc[c] = "idle")

(***************************************************************************)
(* While the dumper is running() it eventually writes a sweep, unless it  *)
(* is stopped first.                                                       *)
(***************************************************************************)
RunningDumps ==
    Running ~> (dumped \/ ~Running)

(***************************************************************************)
(* A caller whose start() returned OK has a running dumper: running() is  *)
(* true until some stop().  After a stop(), _stop stays true, so a later  *)
(* start() creates a thread that leaves run() at once and still returns   *)
(* OK.                                                                     *)
(***************************************************************************)
StartedIsRunning ==
    \A c \in Callers : (cpc[c] = "idle" /\ last[c] = "startOK") => Running
=============================================================================
