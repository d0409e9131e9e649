--------------------------- MODULE SamplerCollector ---------------------------
(***************************************************************************)
(* The background sampling thread of tally (src/tally/impl/sampler.cc) and *)
(* the lifecycle of the samplers it visits, as the metrics that own them   *)
(* drive it (Reducer::get_sampler and ~Reducer, src/tally/impl/reducer.h;  *)
(* the same pattern is repeated by FuncGauge, PassiveStatus, AverageGauge). *)
(*                                                                         *)
(* A metric lazily allocates one sampler and schedules it: schedule()      *)
(* folds the sampler into the SamplerCollector, itself a Reducer whose     *)
(* per-thread agents hold lists of new samplers.  Once per second the      *)
(* sampling thread drains those agents (reset()), splices what it got into *)
(* a list `root' local to run(), and walks `root': for each sampler it     *)
(* takes the sampler's mutex, deletes it when its owner has called         *)
(* destroy(), and calls take_sample() otherwise.  The owner never deletes  *)
(* its sampler; ~Reducer only calls destroy(), which takes the same mutex. *)
(*                                                                         *)
(* A metric owns up to two samplers: the window sampler get_sampler()     *)
(* creates for a Window, and the series sampler its expose_impl creates    *)
(* when tally_save_series is set.  Which of the two exist depends on the   *)
(* class of the metric (its Kind).                                        *)
(*                                                                         *)
(* fork() is modelled from the child's point of view: the at-fork hook     *)
(* starts a new sampling thread, whose run() begins with an empty `root'.  *)
(***************************************************************************)
EXTENDS Naturals, Sequences, SequencesExt

CONSTANTS
    Metrics,        \* metric objects that may own a sampler
    Threads,        \* application threads calling get_sampler()
    Samplers,       \* heap objects `new sampler_type(this)' may return
    EnableSampling, \* FLAGS_tally_enable_sampling, read by schedule()
    SaveSeries,     \* FLAGS_tally_save_series, read by expose_impl()
    Kind,           \* Kind[m]: the class the metric object m is of
    MaxForks,       \* bound on the number of fork() calls
    NULL

ASSUME EnableSampling \in BOOLEAN /\ SaveSeries \in BOOLEAN /\ MaxForks \in Nat
ASSUME NULL \notin Metrics \cup Samplers

VARIABLES
    metric,    \* [Metrics -> {"alive", "dead"}]: has ~Reducer run
    samplerOf, \* [Metrics -> Samplers \cup {NULL}]: the field Reducer::_sampler
    owner,     \* [Samplers -> Metrics \cup {NULL}]: NULL until allocated
    used,      \* [Samplers -> BOOLEAN]: Sampler::_used
    locked,    \* [Samplers -> BOOLEAN]: Sampler::_mutex is held
    deleted,   \* samplers the sampling thread has deleted
    pending,   \* Seq(Samplers): samplers folded into the collector's agents
    root,      \* Seq(Samplers): the list local to SamplerCollector::run()
    cpc,       \* where the sampling thread is in run()
    cursor,    \* index in root of the node p being visited
    inGet,     \* [Threads -> Metrics \cup {NULL}]: get_sampler() saw nullptr
    forks,     \* fork() calls so far
    sampled,   \* samplers whose take_sample() has run at least once
    seriesOf,  \* [Metrics -> Samplers \cup {NULL}]: the field _series_sampler
    exposed    \* [Metrics -> BOOLEAN]: the metric is in the registry

ownerVars == <<seriesOf, exposed>>
vars == <<metric, samplerOf, owner, used, locked, deleted, pending, root,
          cpc, cursor, inGet, forks, sampled, ownerVars>>

(***************************************************************************)
(* The classes of metric.  A class's destructor destroys exactly the      *)
(* sampler fields the class has ("window" for _sampler, which             *)
(* get_sampler() fills, "series" for _series_sampler, which expose_impl   *)
(* fills); its expose_impl says when it creates the series sampler.       *)
(*   "Adder"  Reducer with an inverse op (Counter, AdderStatus);           *)
(*   "Maxer"  Reducer with VoidOp (MaxerGauge, MinerGauge, Maxer-, Miner-   *)
(*            Status);                                                     *)
(*   "PassiveStatusVector" / "PassiveStatus"  PassiveStatus<Tp> with       *)
(*            ADDITIVE true / false;                                      *)
(*   "PassiveString"  PassiveStatus<std::string>;                          *)
(*   "Gauge", "FuncGauge", "AverageGauge", "Status" themselves.           *)
(***************************************************************************)
Classes == {"Adder", "Maxer", "Gauge", "FuncGauge", "PassiveStatusVector",
            "PassiveStatus", "PassiveString", "AverageGauge", "Status"}
ASSUME Kind \in [Metrics -> Classes]

\* ~Reducer: hide(); destroy _sampler, then _series_sampler.
ReducerFields == {"window", "series"}
\* ~Gauge: hide(); destroy _series_sampler only.
GaugeFields == {"series"}
\* ~FuncGauge: hide(); destroy _sampler, then _series_sampler.
FuncGaugeFields == {"window", "series"}
\* ~PassiveStatus<Tp>: hide(); destroy _sampler, then _series_sampler.
PassiveStatusFields == {"window", "series"}
\* ~PassiveStatus<std::string>: hide() only.
PassiveStringFields == {}
\* ~AverageGauge: hide(); destroy _sampler only.
AverageGaugeFields == {"window"}
\* ~Status: hide() only.
StatusFields == {}

ClassFields(k) ==
    CASE k \in {"Adder", "Maxer"}                      -> ReducerFields
      [] k = "Gauge"                                   -> GaugeFields
      [] k = "FuncGauge"                               -> FuncGaugeFields
      [] k \in {"PassiveStatusVector", "PassiveStatus"} -> PassiveStatusFields
      [] k = "PassiveString"                           -> PassiveStringFields
      [] k = "AverageGauge"                            -> AverageGaugeFields
      [] k = "Status"                                  -> StatusFields

\* Reducer::expose_impl: a series sampler only when InvOp is not VoidOp
\* (T is integral, so never std::string here).
ReducerSeriesOnExpose(hasInvOp) == hasInvOp
\* PassiveStatus<Tp>::expose_impl: a series sampler only when ADDITIVE.
PassiveStatusSeriesOnExpose(additive) == additive
\* Gauge::expose_impl and FuncGauge::expose_impl test no class condition.
GaugeSeriesOnExpose == TRUE

SeriesOnExpose(k) ==
    CASE k = "Adder"               -> ReducerSeriesOnExpose(TRUE)
      [] k = "Maxer"               -> ReducerSeriesOnExpose(FALSE)
      [] k = "PassiveStatusVector" -> PassiveStatusSeriesOnExpose(TRUE)
      [] k = "PassiveStatus"       -> PassiveStatusSeriesOnExpose(FALSE)
      [] k \in {"Gauge", "FuncGauge"} -> GaugeSeriesOnExpose
      [] OTHER                     -> FALSE

\* The class has get_sampler(), i.e. a _sampler field.
HasGetSampler(k) == "window" \in ClassFields(k)
\* The class's expose_impl may create a series sampler.
HasSeries(k) == "series" \in ClassFields(k) /\ SeriesOnExpose(k)

TypeOK ==
    /\ metric \in [Metrics -> {"alive", "dead"}]
    /\ samplerOf \in [Metrics -> Samplers \cup {NULL}]
    /\ owner \in [Samplers -> Metrics \cup {NULL}]
    /\ used \in [Samplers -> BOOLEAN]
    /\ locked \in [Samplers -> BOOLEAN]
    /\ deleted \subseteq Samplers
    /\ pending \in Seq(Samplers)
    /\ root \in Seq(Samplers)
    /\ cpc \in {"drain", "walk", "sample"}
    /\ cursor \in 1 .. Len(root) + 1
    /\ inGet \in [Threads -> Metrics \cup {NULL}]
    /\ forks \in 0 .. MaxForks
    /\ sampled \subseteq Samplers
    /\ seriesOf \in [Metrics -> Samplers \cup {NULL}]
    /\ exposed \in [Metrics -> BOOLEAN]

Init ==
    /\ metric = [m \in Metrics |-> "alive"]
    /\ samplerOf = [m \in Metrics |-> NULL]
    /\ owner = [s \in Samplers |-> NULL]
    /\ used = [s \in Samplers |-> FALSE]
    /\ locked = [s \in Samplers |-> FALSE]
    /\ deleted = {}
    /\ pending = <<>>
    /\ root = <<>>
    /\ cpc = "drain"
    /\ cursor = 1
    /\ inGet = [t \in Threads |-> NULL]
    /\ forks = 0
    /\ sampled = {}
    /\ seriesOf = [m \in Metrics |-> NULL]
    /\ exposed = [m \in Metrics |-> FALSE]

-----------------------------------------------------------------------------
(* Owners of samplers.                                                     *)

\* Seeded fault: schedule() that never registers the sampler.
ScheduleDropped(s) == UNCHANGED pending

\* Sampler::schedule(): `*collector << this' when sampling is enabled.
Schedule(s) ==
    IF EnableSampling THEN pending' = Append(pending, s)
                      ELSE UNCHANGED pending

\* A sampler object not yet handed out by `new'.
FreeSamplers == {x \in Samplers : owner[x] = NULL}

\* `new ...Sampler(this)': the Sampler constructor sets _used to true;
\* then schedule().
Allocate(s, m) ==
    /\ owner' = [owner EXCEPT ![s] = m]
    /\ used' = [used EXCEPT ![s] = TRUE]
    /\ Schedule(s)

\* get_sampler() (Reducer, FuncGauge, PassiveStatus, AverageGauge), the
\* test `nullptr == _sampler' finding no sampler.
GetSamplerRead(t, m) ==
    /\ inGet[t] = NULL
    /\ metric[m] = "alive"
    /\ HasGetSampler(Kind[m])
    /\ samplerOf[m] = NULL
    /\ inGet' = [inGet EXCEPT ![t] = m]
    /\ UNCHANGED <<metric, samplerOf, owner, used, locked, deleted, pending,
                   root, cpc, cursor, forks, sampled, ownerVars>>

\* get_sampler(), then `_sampler = new sampler_type(this); _sampler->schedule()'.
GetSamplerCreate(t) ==
    /\ inGet[t] # NULL
    /\ \E s \in FreeSamplers :
          /\ Allocate(s, inGet[t])
          /\ samplerOf' = [samplerOf EXCEPT ![inGet[t]] = s]
    /\ inGet' = [inGet EXCEPT ![t] = NULL]
    /\ UNCHANGED <<metric, locked, deleted, root, cpc, cursor, forks, sampled,
                   ownerVars>>

\* Seeded fault: expose_impl without the `_series_sampler == nullptr' test.
ExposeImplNoNullCheck(m) ==
    /\ metric[m] = "alive"
    /\ \E ok \in BOOLEAN :
         /\ exposed' = [exposed EXCEPT ![m] = ok]
         /\ IF ok /\ SaveSeries /\ HasSeries(Kind[m])
              THEN \E s \in FreeSamplers :
                     Allocate(s, m) /\ seriesOf' = [seriesOf EXCEPT ![m] = s]
              ELSE UNCHANGED <<owner, used, pending, seriesOf>>
    /\ UNCHANGED <<metric, samplerOf, locked, deleted, root, cpc, cursor,
                   inGet, forks, sampled>>

\* expose() of Reducer, Gauge, FuncGauge or PassiveStatus: the overridden
\* expose_impl runs Variable::expose_impl (which hides the metric first and
\* fails when the name is taken, so `ok' is either outcome) and, when that
\* succeeded, no series sampler exists yet, tally_save_series is set and
\* the class keeps series, creates and schedules the series sampler.  A
\* metric constructed with a name runs the same expose.
ExposeImpl(m) ==
    /\ metric[m] = "alive"
    /\ \E ok \in BOOLEAN :
         /\ exposed' = [exposed EXCEPT ![m] = ok]
         /\ IF ok /\ seriesOf[m] = NULL /\ SaveSeries /\ HasSeries(Kind[m])
              THEN \E s \in FreeSamplers :
                     Allocate(s, m) /\ seriesOf' = [seriesOf EXCEPT ![m] = s]
              ELSE UNCHANGED <<owner, used, pending, seriesOf>>
    /\ UNCHANGED <<metric, samplerOf, locked, deleted, root, cpc, cursor,
                   inGet, forks, sampled>>

\* Variable::hide(): the metric leaves the registry; its samplers stay.
Hide(m) ==
    /\ metric[m] = "alive" /\ exposed[m]
    /\ exposed' = [exposed EXCEPT ![m] = FALSE]
    /\ UNCHANGED <<metric, samplerOf, owner, used, locked, deleted, pending,
                   root, cpc, cursor, inGet, forks, sampled, seriesOf>>

\* Seeded fault: destroy() that clears _used without taking _mutex.
DestroyUnlocked(S) == used' = [s \in Samplers |-> IF s \in S THEN FALSE ELSE used[s]]

\* Sampler::destroy() on each sampler of S: lock _mutex, _used = false,
\* unlock.  It waits while the sampling thread holds the mutex.
Destroy(S) ==
    /\ \A s \in S : ~locked[s]
    /\ used' = [s \in Samplers |-> IF s \in S THEN FALSE ELSE used[s]]

\* The destructor of every class above: hide(); then `if (_sampler)
\* { _sampler->destroy(); _sampler = nullptr; }' and the same for
\* _series_sampler; after which the metric's memory is released.  No thread
\* may still be inside one of the metric's member functions.  The two
\* destroy() calls are one step: the sampling thread holds at most one
\* sampler mutex, and both must be free before the memory goes.
ReducerDtor(m) ==
    /\ metric[m] = "alive"
    /\ \A t \in Threads : inGet[t] # m
    /\ Destroy({samplerOf[m], seriesOf[m]} \ {NULL})
    /\ metric' = [metric EXCEPT ![m] = "dead"]
    /\ samplerOf' = [samplerOf EXCEPT ![m] = NULL]
    /\ seriesOf' = [seriesOf EXCEPT ![m] = NULL]
    /\ exposed' = [exposed EXCEPT ![m] = FALSE]
    /\ UNCHANGED <<owner, locked, deleted, pending, root, cpc, cursor, inGet,
                   forks, sampled>>

-----------------------------------------------------------------------------
(* The sampling thread, SamplerCollector::run().                           *)

\* `Sampler* s = this->reset(); if (s) s->InsertBeforeAsList(&root);'
CollectorDrain ==
    /\ cpc = "drain"
    /\ root' = root \o pending
    /\ pending' = <<>>
    /\ cursor' = 1
    /\ cpc' = "walk"
    /\ UNCHANGED <<metric, samplerOf, owner, used, locked, deleted, inGet,
                   forks, sampled,
                   ownerVars>>

\* Seeded fault: the unused sampler is deleted but left in the list.
CollectorReapNoUnlink ==
    /\ cpc = "walk"
    /\ cursor <= Len(root)
    /\ ~locked[root[cursor]]
    /\ ~used[root[cursor]]
    /\ deleted' = deleted \cup {root[cursor]}
    /\ cursor' = cursor + 1
    /\ UNCHANGED <<metric, samplerOf, owner, used, locked, pending, cpc,
                   root, inGet, forks, sampled,
                   ownerVars>>

\* `s->_mutex.lock(); if (!s->_used) { s->_mutex.unlock();
\*  p->RemoveFromList(); delete s; }', then p = saved_next.
CollectorReap ==
    /\ cpc = "walk"
    /\ cursor <= Len(root)
    /\ ~locked[root[cursor]]
    /\ ~used[root[cursor]]
    /\ root' = RemoveAt(root, cursor)
    /\ deleted' = deleted \cup {root[cursor]}
    /\ UNCHANGED <<metric, samplerOf, owner, used, locked, pending, cpc,
                   cursor, inGet, forks, sampled,
                   ownerVars>>

\* Seeded fault: the sampler is locked for take_sample() without _used
\* being looked at.
CollectorLockNoUsedCheck ==
    /\ cpc = "walk"
    /\ cursor <= Len(root)
    /\ ~locked[root[cursor]]
    /\ locked' = [locked EXCEPT ![root[cursor]] = TRUE]
    /\ cpc' = "sample"
    /\ UNCHANGED <<metric, samplerOf, owner, used, deleted, pending, root,
                   cursor, inGet, forks, sampled, ownerVars>>

\* `s->_mutex.lock()' finding the sampler used: take_sample() begins.
CollectorLock ==
    /\ cpc = "walk"
    /\ cursor <= Len(root)
    /\ ~locked[root[cursor]]
    /\ used[root[cursor]]
    /\ locked' = [locked EXCEPT ![root[cursor]] = TRUE]
    /\ cpc' = "sample"
    /\ UNCHANGED <<metric, samplerOf, owner, used, deleted, pending, root,
                   cursor, inGet, forks, sampled,
                   ownerVars>>

\* Seeded fault: the walk steps over saved_next as well.
CollectorTakeSampleSkip ==
    /\ cpc = "sample"
    /\ sampled' = sampled \cup {root[cursor]}
    /\ locked' = [locked EXCEPT ![root[cursor]] = FALSE]
    /\ cursor' = cursor + 2
    /\ cpc' = "walk"
    /\ UNCHANGED <<metric, samplerOf, owner, used, deleted, pending, root,
                   inGet, forks,
                   ownerVars>>

\* `s->take_sample(); s->_mutex.unlock();', then p = saved_next.
CollectorTakeSample ==
    /\ cpc = "sample"
    /\ sampled' = sampled \cup {root[cursor]}
    /\ locked' = [locked EXCEPT ![root[cursor]] = FALSE]
    /\ cursor' = cursor + 1
    /\ cpc' = "walk"
    /\ UNCHANGED <<metric, samplerOf, owner, used, deleted, pending, root,
                   inGet, forks,
                   ownerVars>>

\* Seeded fault: the loop walks root again without calling reset().
CollectorSleepNoDrain ==
    /\ cpc = "walk"
    /\ cursor > Len(root)
    /\ cursor' = 1
    /\ UNCHANGED <<metric, samplerOf, owner, used, locked, deleted, pending,
                   root, cpc, inGet, forks, sampled,
                   ownerVars>>

\* The walk reached root again: sleep out the second, back to the loop top.
CollectorSleep ==
    /\ cpc = "walk"
    /\ cursor > Len(root)
    /\ cpc' = "drain"
    /\ UNCHANGED <<metric, samplerOf, owner, used, locked, deleted, pending,
                   root, cursor, inGet, forks, sampled,
                   ownerVars>>

\* fork(), followed into the child.  child_callback_atfork() runs
\* after_forked_as_child(), which starts a new sampling thread; its run()
\* starts with an empty local `root'.  Heap objects and mutex states are
\* copied; threads other than the forking one, and what they were doing,
\* do not exist in the child.
Fork ==
    /\ forks < MaxForks
    /\ forks' = forks + 1
    /\ root' = <<>>
    /\ cpc' = "drain"
    /\ cursor' = 1
    /\ inGet' = [t \in Threads |-> NULL]
    /\ UNCHANGED <<metric, samplerOf, owner, used, locked, deleted, pending,
                   sampled,
                   ownerVars>>

CollectorStep ==
    \/ CollectorDrain
    \/ CollectorReap
    \/ CollectorLock
    \/ CollectorTakeSample
    \/ CollectorSleep

Next ==
    \/ \E t \in Threads, m \in Metrics : GetSamplerRead(t, m)
    \/ \E t \in Threads : GetSamplerCreate(t)
    \/ \E m \in Metrics : ExposeImpl(m)
    \/ \E m \in Metrics : Hide(m)
    \/ \E m \in Metrics : ReducerDtor(m)
    \/ CollectorStep
    \/ Fork

\* The sampling thread is a dedicated thread that loops forever; the
\* application threads owe the collector nothing and are not fair.
Spec == Init /\ [][Next]_vars /\ WF_vars(CollectorStep)

-----------------------------------------------------------------------------
(* Properties.                                                             *)

\* take_sample() reads the owning metric (ReducerSampler calls
\* get_value()/reset() on it), so it may only run while that metric is
\* alive: ~Reducer's destroy() must wait for a take_sample() in progress
\* and the sampling thread must never find a used sampler whose owner is gone.
NoUseAfterFree ==
    cpc = "sample" => metric[owner[root[cursor]]] = "alive"

\* Every sampler still in use is held by its metric's _sampler or
\* _series_sampler field, so the metric's destructor will destroy() it:
\* no call sequence of get_sampler, expose, hide and expose again leaves a
\* used sampler that the destructor cannot reach and that the sampling
\* thread would go on sampling after the metric is freed.
NoOrphanSampler ==
    \A s \in Samplers :
        used[s] => s \in {samplerOf[owner[s]], seriesOf[owner[s]]}

\* Every allocated, scheduled sampler not yet deleted is reachable by the
\* sampling thread exactly once, in the collector's agents or in run()'s
\* root list, and a deleted sampler is in neither (no double visit, no
\* access after delete, no sampler dropped by the splicing).
SamplerTracked ==
    \A s \in Samplers :
        LET copies == Len(SelectSeq(pending, LAMBDA x : x = s))
                      + Len(SelectSeq(root, LAMBDA x : x = s))
        IN  copies = IF owner[s] # NULL /\ s \notin deleted /\ EnableSampling
                     THEN 1 ELSE 0

\* SamplerTracked in every state reached without a fork(): the splicing,
\* reaping and deleting of run() never lose or duplicate a sampler.
SamplerTrackedUntilFork == forks = 0 => SamplerTracked

\* A sampler whose owner has called destroy() is eventually deleted by the
\* sampling thread: the memory of destroyed metrics' samplers does not leak
\* (unless a fork() has dropped it, which sampler_fork shows).
DestroyedEventuallyDeleted ==
    \A s \in Samplers : (owner[s] # NULL /\ ~used[s]) ~> (s \in deleted \/ forks > 0)

\* A scheduled sampler is eventually sampled, unless destroyed first:
\* every Window built on a live metric receives its periodic snapshots
\* (again unless a fork() has intervened).
LiveEventuallySampled ==
    \A s \in Samplers :
        (owner[s] # NULL /\ used[s]) ~> (s \in sampled \/ ~used[s] \/ forks > 0)

\* The service SamplerCollector provides, seen through its own variables:
\* a sampler is registered when allocated, in use while _used is set,
\* sampled when take_sample() has run and reaped when deleted.
Service == INSTANCE SamplerService WITH
    sowner <- owner, inUse <- used, reaped <- deleted, visited <- sampled

(***************************************************************************)
(* The collector implements SamplerService: every take_sample() is of a   *)
(* sampler its owner had not destroyed at that point, and every delete is *)
(* of a destroyed sampler that had not been deleted before, whatever the  *)
(* interleaving of get_sampler, expose, the destructors, the walk and     *)
(* fork().  The sampler mutex is what makes a take_sample() atomic with   *)
(* respect to destroy().                                                  *)
(***************************************************************************)
SamplerRefinesService == Service!SSpec

=============================================================================
