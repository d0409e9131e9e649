----------------------------- MODULE MC_Workers -----------------------------
(***************************************************************************)
(* The library's two background threads with a start/stop life, checked  *)
(* in one run: the TaskTimer worker with the threads that add and remove  *)
(* timers (mode "timer"), and the JsonDumper's dump thread with the       *)
(* application threads that call start() and stop() (mode "dumper"), and *)
(* the Reporter registry with threads that register, remove, look up and *)
(* run reporters (mode "registry").  The                                  *)
(* modes share nothing; outside its mode a module's variables keep their  *)
(* initial values and its actions are disabled, so the fairness of one    *)
(* mode constrains nothing in the other.                                  *)
(***************************************************************************)
EXTENDS Naturals

CONSTANTS
    Delays, Periods, MaxTime, MaxAdds,
    Callers, DumpThreads, MaxCalls,
    RCallers, EmptyName, Builtins, MaxRCalls, NoRep

VARIABLES
    mode,
    events, timeEvents, freeIds, now, wpc, cur, done, adds, fired,
    created, stopf, tid, dt, cpc, last, calls, dumped,
    reporters, readers, rrpc, rarg, todo, running, ran, answer, rcalls

\* Reporters: two named "a" (the second registration of the name fails),
\* one named like a builtin, one whose name was never set.
MCRObjs == {"a1", "a2", "j", "e"}
MCRNameOf == [o \in MCRObjs |-> CASE o \in {"a1", "a2"} -> "a"
                                  [] o = "j" -> "json"
                                  [] o = "e" -> EmptyName]

T == INSTANCE TaskTimer
D == INSTANCE JsonDumper
R == INSTANCE ReporterRegistry WITH RObjs <- MCRObjs, RNameOf <- MCRNameOf

timerVars == <<events, timeEvents, freeIds, now, wpc, cur, done, adds, fired>>
dumperVars == <<created, stopf, tid, dt, cpc, last, calls, dumped>>
regVars == <<reporters, readers, rrpc, rarg, todo, running, ran, answer, rcalls>>
vars == <<mode, timerVars, dumperVars, regVars>>

Init == mode \in {"timer", "dumper", "registry"} /\ T!Init /\ D!Init /\ R!RInit

TimerStep(A) == mode = "timer" /\ A /\ UNCHANGED <<mode, dumperVars, regVars>>
DumperStep(A) == mode = "dumper" /\ A /\ UNCHANGED <<mode, timerVars, regVars>>
RegStep(A) == mode = "registry" /\ A /\ UNCHANGED <<mode, timerVars, dumperVars>>

Next ==
    \/ TimerStep(T!Add) \/ TimerStep(T!RemoveId) \/ TimerStep(T!Stop)
    \/ TimerStep(T!Tick)
    \/ TimerStep(T!Fire) \/ TimerStep(T!Call) \/ TimerStep(T!Return)
    \/ TimerStep(T!Exit)
    \/ \E c \in Callers :
          \/ DumperStep(D!Start(c)) \/ DumperStep(D!StartCreate(c))
          \/ DumperStep(D!StartFail(c)) \/ DumperStep(D!Stop(c))
          \/ DumperStep(D!StopJoin(c)) \/ DumperStep(D!StopClear(c))
    \/ \E i \in DumpThreads :
          \/ DumperStep(D!DumpDelay(i)) \/ DumperStep(D!DumpCheck(i))
          \/ DumperStep(D!DumpRound(i)) \/ DumperStep(D!DumpSleep(i))
    \/ \E c \in RCallers :
          \/ RegStep(R!CallRegister(c)) \/ RegStep(R!CallRemove(c))
          \/ RegStep(R!CallGet(c)) \/ RegStep(R!HasReporter(c))
          \/ RegStep(R!ReporterSize(c)) \/ RegStep(R!ListReporterNames(c))
          \/ RegStep(R!ListReporterPtrs(c))
          \/ RegStep(R!RunAllBegin(c)) \/ RegStep(R!RegisterReporter(c))
          \/ RegStep(R!RemoveReporter(c)) \/ RegStep(R!GetReporter(c))
          \/ RegStep(R!RunReport(c)) \/ RegStep(R!RunFlush(c))
          \/ RegStep(R!RunAllEnd(c))

(***************************************************************************)
(* Each module's fairness, on its own steps: the timer's worker and clock, *)
(* the dump threads, a caller inside stop(), a caller inside a Reporter   *)
(* call.                                                                   *)
(***************************************************************************)
Fairness ==
    /\ WF_vars(TimerStep(T!Worker)) /\ WF_vars(TimerStep(T!Tick))
    /\ \A i \in DumpThreads : WF_vars(DumperStep(D!Dumper(i)))
    /\ \A c \in Callers : WF_vars(DumperStep(D!StopJoin(c) \/ D!StopClear(c)))
    /\ \A c \in RCallers : WF_vars(RegStep(R!RCallerProgress(c)))

Spec == Init /\ [][Next]_vars /\ Fairness

\* The type invariants of the three modules.
TypeOK == T!TypeOK /\ D!TypeOK /\ R!RTypeOK

\* TaskTimer: every id is in exactly one of free_ids, time_events, the worker.
IdAccounting == T!IdAccounting

\* TaskTimer: a due timer's handler is eventually called unless removed.
DueTimerFires == T!DueTimerFires

\* JsonDumper: a stop() that found the dumper created eventually returns.
StopReturns == D!StopReturns

\* JsonDumper: a running dumper eventually writes a sweep unless stopped.
RunningDumps == D!RunningDumps

\* Reporter: a finished run_all_reporter ran exactly the registered reporters.
RunAllCoversRegistry == R!RunAllCoversRegistry

\* Reporter: a call waiting for the exclusive lock eventually returns.
ExclusiveCallsReturn == R!ExclusiveCallsReturn
=============================================================================
