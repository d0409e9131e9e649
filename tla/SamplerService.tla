---------------------------- MODULE SamplerService ----------------------------
(***************************************************************************)
(* What the sampling machinery promises the metrics that own samplers,    *)
(* with no list, no lock and no loop: a sampler is handed to the service  *)
(* once (schedule), is sampled any number of times while its owner still  *)
(* uses it, is retired by its owner (destroy), and once retired is        *)
(* deleted at most once.  A sample is one atomic event here; that no      *)
(* retirement can fall inside it is what the detailed SamplerCollector    *)
(* has to achieve with the sampler mutex.                                 *)
(***************************************************************************)
CONSTANTS
    Metrics,    \* metric objects that may own samplers
    Samplers,   \* sampler objects
    NULL

VARIABLES
    sowner,     \* [Samplers -> Metrics \cup {NULL}]: who scheduled it
    inUse,      \* [Samplers -> BOOLEAN]: not yet retired by its owner
    reaped,     \* samplers deleted
    visited     \* samplers sampled at least once

svars == <<sowner, inUse, reaped, visited>>

SInit ==
    /\ sowner = [s \in Samplers |-> NULL]
    /\ inUse = [s \in Samplers |-> FALSE]
    /\ reaped = {}
    /\ visited = {}

\* A metric hands a fresh sampler to the service.
Register(s, m) ==
    /\ sowner[s] = NULL
    /\ sowner' = [sowner EXCEPT ![s] = m]
    /\ inUse' = [inUse EXCEPT ![s] = TRUE]
    /\ UNCHANGED <<reaped, visited>>

\* An owner retires some of its samplers (possibly none).
Retire(S) ==
    /\ \A s \in S : sowner[s] # NULL
    /\ inUse' = [s \in Samplers |-> IF s \in S THEN FALSE ELSE inUse[s]]
    /\ UNCHANGED <<sowner, reaped, visited>>

\* The service samples a sampler its owner still uses.
Sample(s) ==
    /\ sowner[s] # NULL /\ inUse[s] /\ s \notin reaped
    /\ visited' = visited \cup {s}
    /\ UNCHANGED <<sowner, inUse, reaped>>

\* The service deletes a retired sampler, once.
Reap(s) ==
    /\ sowner[s] # NULL /\ ~inUse[s] /\ s \notin reaped
    /\ reaped' = reaped \cup {s}
    /\ UNCHANGED <<sowner, inUse, visited>>

SNext ==
    \/ \E s \in Samplers, m \in Metrics : Register(s, m)
    \/ \E S \in SUBSET Samplers : Retire(S)
    \/ \E s \in Samplers : Sample(s) \/ Reap(s)

SSpec == SInit /\ [][SNext]_svars

=============================================================================
