----------------------------- MODULE SigarMetric -----------------------------
(***************************************************************************)
(* SigarMetric::expose and hide (src/tally/sigar_metric.cc) over the      *)
(* registry of VariableRegistry.  The singleton's FuncGauges (memory,     *)
(* swap, cpu, load and disk readings) are exposed into the sys scope      *)
(* under fixed names, one after another, a failure being only logged.     *)
(* expose() is guarded by the static atomic is_exposed, checked once      *)
(* without and once with expose_mutex held, and set before the first      *)
(* gauge is exposed; hide() takes no lock and does not clear is_exposed.  *)
(* Callers are init_sigar_metric, MetricInitialize's constructor and      *)
(* destructor, and finish_sigar_metric, from any thread.                  *)
(*                                                                         *)
(* The gauges are the variables SigarGauges[1..n]; which value each reads *)
(* from sigar is not modelled.                                             *)
(***************************************************************************)
EXTENDS VariableRegistry

CONSTANTS
    SigarThreads,   \* threads calling expose or hide, integers > 0
    SigarGauges,    \* <<gauge variable>>, in the order expose() takes them
    SigarNames,     \* <<name>>, the name each gauge is exposed under
    SysPrefix       \* the sys scope's prefix (FLAGS_tally_sys_scope_name)

VARIABLES
    isExposed,      \* SigarMetric::is_exposed
    exposeMutex,    \* the thread holding expose_mutex, or NoThread
    spc,            \* spc[t]: "idle" | "lock" | "expose" | "hide"
    sk,             \* sk[t]: the gauge expose or hide is at
    attempts        \* ghost: attempts[i] = expose calls made on gauge i

sigarVars == <<isExposed, exposeMutex, spc, sk, attempts>>

NoThread == 0
NumGauges == Len(SigarGauges)

ASSUME /\ NoThread \notin SigarThreads
       /\ {SigarGauges[i] : i \in 1 .. NumGauges} \subseteq Vars
       /\ Len(SigarNames) = NumGauges

SigarTypeOK ==
    /\ isExposed \in BOOLEAN
    /\ exposeMutex \in SigarThreads \cup {NoThread}
    /\ spc \in [SigarThreads -> {"idle", "lock", "expose", "hide"}]
    /\ sk \in [SigarThreads -> 1 .. NumGauges]
    /\ attempts \in [1 .. NumGauges -> Nat]

SigarInit ==
    /\ isExposed = FALSE /\ exposeMutex = NoThread
    /\ spc = [t \in SigarThreads |-> "idle"]
    /\ sk = [t \in SigarThreads |-> 1]
    /\ attempts = [i \in 1 .. NumGauges |-> 0]

-----------------------------------------------------------------------------
\* expose(): `is_exposed.load(acquire)'; if set, return at once.
SigarExpose(t) ==
    /\ spc[t] = "idle"
    /\ spc' = IF isExposed THEN spc ELSE [spc EXCEPT ![t] = "lock"]
    /\ UNCHANGED <<isExposed, exposeMutex, sk, attempts>>
    /\ UNCHANGED vars

\* A second check under the lock that trusts the first load.
SigarLockNoRecheck(t) ==
    /\ spc[t] = "lock" /\ exposeMutex = NoThread
    /\ exposeMutex' = t /\ isExposed' = TRUE
    /\ spc' = [spc EXCEPT ![t] = "expose"] /\ sk' = [sk EXCEPT ![t] = 1]
    /\ UNCHANGED attempts
    /\ UNCHANGED vars

\* `std::unique_lock lk(expose_mutex); if (is_exposed) return;
\*  is_exposed = true;' (the return unlocks).
SigarLock(t) ==
    /\ spc[t] = "lock" /\ exposeMutex = NoThread
    /\ IF isExposed
         THEN spc' = [spc EXCEPT ![t] = "idle"] /\ UNCHANGED <<exposeMutex, isExposed, sk>>
         ELSE /\ exposeMutex' = t /\ isExposed' = TRUE
              /\ spc' = [spc EXCEPT ![t] = "expose"] /\ sk' = [sk EXCEPT ![t] = 1]
    /\ UNCHANGED attempts
    /\ UNCHANGED vars

\* `rs = gauge.expose(name, help, scope)' up to its insert.
SigarExposeGauge(t) ==
    /\ spc[t] = "expose"
    /\ vpc[SigarGauges[sk[t]]] = "idle"
    /\ ExposeBeginAs(SigarGauges[sk[t]], SigarNames[sk[t]], SysPrefix)
    /\ attempts' = [attempts EXCEPT ![sk[t]] = @ + 1]
    /\ UNCHANGED <<isExposed, exposeMutex, spc, sk>>
    /\ UNCHANGED <<exposes, sweeping, rpc, reported>>

\* The insert; a failure is logged and the loop goes on.  After the last
\* gauge expose() returns and releases expose_mutex.
SigarInsertGauge(t) ==
    /\ spc[t] = "expose"
    /\ vpc[SigarGauges[sk[t]]] = "insert"
    /\ ExposeInsert(SigarGauges[sk[t]])
    /\ IF sk[t] < NumGauges
         THEN sk' = [sk EXCEPT ![t] = @ + 1] /\ UNCHANGED <<spc, exposeMutex>>
         ELSE /\ spc' = [spc EXCEPT ![t] = "idle"] /\ exposeMutex' = NoThread
              /\ UNCHANGED sk
    /\ UNCHANGED <<isExposed, attempts>>

\* hide(): begin, without expose_mutex.
SigarHide(t) ==
    /\ spc[t] = "idle"
    /\ spc' = [spc EXCEPT ![t] = "hide"] /\ sk' = [sk EXCEPT ![t] = 1]
    /\ UNCHANGED <<isExposed, exposeMutex, attempts>>
    /\ UNCHANGED vars

\* One `gauge.hide()'; is_exposed is left as it is.
SigarHideGauge(t) ==
    /\ spc[t] = "hide"
    /\ HideVar(SigarGauges[sk[t]])
    /\ IF sk[t] < NumGauges
         THEN sk' = [sk EXCEPT ![t] = @ + 1] /\ UNCHANGED spc
         ELSE spc' = [spc EXCEPT ![t] = "idle"] /\ UNCHANGED sk
    /\ UNCHANGED <<vpc, exposes, sweeping, rpc, reported>>
    /\ UNCHANGED <<isExposed, exposeMutex, attempts>>

-----------------------------------------------------------------------------
(***************************************************************************)
(* However many threads call expose(), and whatever hide() calls come in *)
(* between, each gauge goes through Variable::expose at most once in the *)
(* process: the unlocked fast path, the re-check under expose_mutex and  *)
(* setting is_exposed before the first gauge together admit a single     *)
(* exposing thread.                                                        *)
(***************************************************************************)
SigarExposedAtMostOnce == \A i \in 1 .. NumGauges : attempts[i] <= 1

=============================================================================
