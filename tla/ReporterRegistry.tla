--------------------------- MODULE ReporterRegistry ---------------------------
(***************************************************************************)
(* The registry of user StatsReporters (class Reporter, src/tally/        *)
(* reporter.cc and reportor.h): a flat_hash_map from name to reporter,     *)
(* guarded by one shared_mutex.  register_reporter, remove_reporter and    *)
(* get_reporter take it exclusively; has_reporter, reporter_size,          *)
(* list_reporter and run_all_reporter take it shared.  run_all_reporter    *)
(* holds its shared lock while it runs every reporter, each as             *)
(* Variable::report(r) followed by r->flush(); those are the only calls   *)
(* that take more than one step.  A call that needs the exclusive lock     *)
(* first waits (rrpc = its operation) until no run_all holds the lock.    *)
(*                                                                         *)
(* A reporter object's name is fixed (RNameOf); EmptyName is the name of  *)
(* a reporter whose name was never set.  What a reporter does with the    *)
(* variables it is given is ReportDispatch's business.                    *)
(***************************************************************************)
EXTENDS Naturals, FiniteSets, Bags

CONSTANTS
    RCallers,   \* application threads calling the Reporter statics
    RObjs,      \* StatsReporter objects (shared_ptr targets)
    RNameOf,    \* RNameOf[o]: o->name()
    EmptyName,  \* the empty string
    Builtins,   \* {"json", "prometheus"}: names list_reporter appends
    MaxRCalls,  \* bound on the calls made by all callers together
    NoRep       \* nullptr

RNames == {RNameOf[o] : o \in RObjs} \cup {EmptyName}

VARIABLES
    reporters, \* [RNames -> RObjs \cup {NoRep}]: Reporter::_reporters
    readers,   \* callers holding _mutex shared across steps (run_all)
    rrpc,      \* [RCallers -> ...]: the call a caller is in, "idle" if none
    rarg,      \* [RCallers -> RObjs \cup RNames]: that call's argument
    todo,      \* [RCallers -> SUBSET RNames]: map entries run_all has left
    running,   \* [RCallers -> RObjs \cup {NoRep}]: reported, not yet flushed
    ran,       \* [RCallers -> SUBSET RObjs]: reporters this run_all flushed
    answer,    \* [RCallers -> ...]: what the caller's calls last returned, by kind
    rcalls     \* calls made so far

regVars == <<reporters, readers, rrpc, rarg, todo, running, ran, answer, rcalls>>

\* The names with an entry in the map, and the reporters registered.
Keys == {n \in RNames : reporters[n] # NoRep}
Registered == {reporters[n] : n \in Keys}

ExclusiveOps == {"register", "remove", "get"}

RTypeOK ==
    /\ reporters \in [RNames -> RObjs \cup {NoRep}]
    /\ readers \subseteq RCallers
    /\ rrpc \in [RCallers -> {"idle", "run"} \cup ExclusiveOps]
    /\ todo \in [RCallers -> SUBSET RNames]
    /\ running \in [RCallers -> RObjs \cup {NoRep}]
    /\ ran \in [RCallers -> SUBSET RObjs]
    /\ rcalls \in 0 .. MaxRCalls

\* No call has returned anything yet.
NoAnswer == [status |-> "none", has |-> FALSE, rep |-> NoRep, size |-> 0,
             names |-> EmptyBag, ptrs |-> {}]

RInit ==
    /\ reporters = [n \in RNames |-> NoRep]
    /\ readers = {}
    /\ rrpc = [c \in RCallers |-> "idle"]
    /\ rarg = [c \in RCallers |-> EmptyName]
    /\ todo = [c \in RCallers |-> {}]
    /\ running = [c \in RCallers |-> NoRep]
    /\ ran = [c \in RCallers |-> {}]
    /\ answer = [c \in RCallers |-> NoAnswer]
    /\ rcalls = 0

\* A new call by an idle caller, counted against the bound.
Call(c) == rrpc[c] = "idle" /\ rcalls < MaxRCalls /\ rcalls' = rcalls + 1

\* The exclusive lock is free once no run_all holds it shared.
ExclusiveFree == readers = {}

-----------------------------------------------------------------------------
\* register_reporter(r): data_loss for a reporter without a name, before
\* the lock; otherwise wait for the exclusive lock.
CallRegister(c) ==
    /\ Call(c)
    /\ \E o \in RObjs :
         IF RNameOf[o] = EmptyName
           THEN answer' = [answer EXCEPT ![c].status = "data_loss"] /\ UNCHANGED <<rrpc, rarg>>
           ELSE rrpc' = [rrpc EXCEPT ![c] = "register"] /\ rarg' = [rarg EXCEPT ![c] = o]
                /\ UNCHANGED answer
    /\ UNCHANGED <<reporters, readers, todo, running, ran>>

\* remove_reporter(n): nothing for the empty name; otherwise wait.
CallRemove(c) ==
    /\ Call(c)
    /\ \E n \in RNames :
         IF n = EmptyName
           THEN UNCHANGED <<rrpc, rarg>>
           ELSE rrpc' = [rrpc EXCEPT ![c] = "remove"] /\ rarg' = [rarg EXCEPT ![c] = n]
    /\ UNCHANGED <<reporters, readers, todo, running, ran, answer>>

\* get_reporter(n): nullptr for the empty name; otherwise wait.
CallGet(c) ==
    /\ Call(c)
    /\ \E n \in RNames :
         IF n = EmptyName
           THEN answer' = [answer EXCEPT ![c].rep = NoRep] /\ UNCHANGED <<rrpc, rarg>>
           ELSE rrpc' = [rrpc EXCEPT ![c] = "get"] /\ rarg' = [rarg EXCEPT ![c] = n]
                /\ UNCHANGED answer
    /\ UNCHANGED <<reporters, readers, todo, running, ran>>

\* Seeded fault: register_reporter without taking the lock.
RegisterReporterNoLock(c) ==
    /\ rrpc[c] = "register"
    /\ LET o == rarg[c] IN
       IF reporters[RNameOf[o]] # NoRep
         THEN answer' = [answer EXCEPT ![c].status = "already_exists"] /\ UNCHANGED reporters
         ELSE /\ reporters' = [reporters EXCEPT ![RNameOf[o]] = o]
              /\ answer' = [answer EXCEPT ![c].status = "ok"]
    /\ rrpc' = [rrpc EXCEPT ![c] = "idle"]
    /\ UNCHANGED <<readers, rarg, todo, running, ran, rcalls>>

\* register_reporter under unique_lock: already_exists when the name is
\* taken, otherwise insert.
RegisterReporter(c) ==
    /\ rrpc[c] = "register" /\ ExclusiveFree
    /\ LET o == rarg[c] IN
       IF reporters[RNameOf[o]] # NoRep
         THEN answer' = [answer EXCEPT ![c].status = "already_exists"] /\ UNCHANGED reporters
         ELSE /\ reporters' = [reporters EXCEPT ![RNameOf[o]] = o]
              /\ answer' = [answer EXCEPT ![c].status = "ok"]
    /\ rrpc' = [rrpc EXCEPT ![c] = "idle"]
    /\ UNCHANGED <<readers, rarg, todo, running, ran, rcalls>>

\* remove_reporter under unique_lock: erase the entry if there is one.
RemoveReporter(c) ==
    /\ rrpc[c] = "remove" /\ ExclusiveFree
    /\ reporters' = [reporters EXCEPT ![rarg[c]] = NoRep]
    /\ rrpc' = [rrpc EXCEPT ![c] = "idle"]
    /\ UNCHANGED <<readers, rarg, todo, running, ran, answer, rcalls>>

\* get_reporter under unique_lock: the entry's reporter or nullptr.
GetReporter(c) ==
    /\ rrpc[c] = "get" /\ ExclusiveFree
    /\ answer' = [answer EXCEPT ![c].rep = reporters[rarg[c]]]
    /\ rrpc' = [rrpc EXCEPT ![c] = "idle"]
    /\ UNCHANGED <<reporters, readers, rarg, todo, running, ran, rcalls>>

(***************************************************************************)
(* The lookups under a shared lock, each one step: a writer's lock is     *)
(* never held across steps, so a shared lock is always granted at once.   *)
(***************************************************************************)
Lookup(c, field, value) ==
    /\ Call(c)
    /\ answer' = [answer EXCEPT ![c][field] = value]
    /\ UNCHANGED <<reporters, readers, rrpc, rarg, todo, running, ran>>

\* has_reporter(n): false for the empty name, else whether n is a key.
HasReporter(c) == \E n \in RNames : Lookup(c, "has", n # EmptyName /\ n \in Keys)

\* reporter_size(exclude_builtin): the map's size, plus 2 for the builtins.
ReporterSize(c) ==
    \E ex \in BOOLEAN : Lookup(c, "size", Cardinality(Keys) + (IF ex THEN 0 ELSE 2))

\* list_reporter(names, exclude_builtin): the keys, then "json" and
\* "prometheus" unless excluded; the vector is kept as a bag of names.
ListReporterNames(c) ==
    \E ex \in BOOLEAN :
        Lookup(c, "names", SetToBag(Keys) (+) (IF ex THEN EmptyBag ELSE SetToBag(Builtins)))

\* list_reporter(reporters, exclude_builtin): the registered reporters,
\* whatever exclude_builtin says.
ListReporterPtrs(c) == Lookup(c, "ptrs", Registered)

-----------------------------------------------------------------------------
(* run_all_reporter                                                        *)

\* Take _mutex shared and start the loop over the map.
RunAllBegin(c) ==
    /\ Call(c)
    /\ readers' = readers \cup {c}
    /\ rrpc' = [rrpc EXCEPT ![c] = "run"]
    /\ todo' = [todo EXCEPT ![c] = Keys]
    /\ ran' = [ran EXCEPT ![c] = {}]
    /\ UNCHANGED <<reporters, rarg, running, answer>>

\* run_reporter(it.second), first half: Variable::report(r, ct) of the
\* next entry (the map's iteration order is unspecified).
RunReport(c) ==
    /\ rrpc[c] = "run" /\ running[c] = NoRep
    /\ \E n \in todo[c] :
         /\ running' = [running EXCEPT ![c] = reporters[n]]
         /\ todo' = [todo EXCEPT ![c] = @ \ {n}]
    /\ UNCHANGED <<reporters, readers, rrpc, rarg, ran, answer, rcalls>>

\* run_reporter, second half: r->flush().
RunFlush(c) ==
    /\ running[c] # NoRep
    /\ ran' = [ran EXCEPT ![c] = @ \cup {running[c]}]
    /\ running' = [running EXCEPT ![c] = NoRep]
    /\ UNCHANGED <<reporters, readers, rrpc, rarg, todo, answer, rcalls>>

\* Seeded fault: the shared lock is not released on return.
RunAllEndNoUnlock(c) ==
    /\ rrpc[c] = "run" /\ todo[c] = {} /\ running[c] = NoRep
    /\ UNCHANGED readers
    /\ rrpc' = [rrpc EXCEPT ![c] = "idle"]
    /\ UNCHANGED <<reporters, rarg, todo, running, ran, answer, rcalls>>

\* The loop is done: the shared_lock goes out of scope.
RunAllEnd(c) ==
    /\ rrpc[c] = "run" /\ todo[c] = {} /\ running[c] = NoRep
    /\ readers' = readers \ {c}
    /\ rrpc' = [rrpc EXCEPT ![c] = "idle"]
    /\ UNCHANGED <<reporters, rarg, todo, running, ran, answer, rcalls>>

\* The steps of a caller that is inside a call and can go on.
RCallerProgress(c) ==
    \/ RegisterReporter(c) \/ RemoveReporter(c) \/ GetReporter(c)
    \/ RunReport(c) \/ RunFlush(c) \/ RunAllEnd(c)

RNext ==
    \E c \in RCallers :
        \/ CallRegister(c) \/ CallRemove(c) \/ CallGet(c)
        \/ HasReporter(c) \/ ReporterSize(c) \/ ListReporterNames(c)
        \/ ListReporterPtrs(c) \/ RunAllBegin(c)
        \/ RCallerProgress(c)

\* A thread inside a call is runnable whenever its lock is free.
RFairness == \A c \in RCallers : WF_regVars(RCallerProgress(c))

RSpec == RInit /\ [][RNext]_regVars /\ RFairness

-----------------------------------------------------------------------------
(***************************************************************************)
(* A run_all_reporter that has finished its loop has run (reported and    *)
(* flushed) exactly the reporters registered now, which are the ones that *)
(* were registered when it started: its shared lock keeps register and    *)
(* remove of other threads out until it returns.                          *)
(***************************************************************************)
RunAllCoversRegistry ==
    \A c \in RCallers :
        rrpc[c] = "run" /\ todo[c] = {} /\ running[c] = NoRep => ran[c] = Registered

(***************************************************************************)
(* Every register_reporter, remove_reporter and get_reporter that waits    *)
(* for the exclusive lock eventually gets it and returns: every            *)
(* run_all_reporter releases its shared lock.                             *)
(***************************************************************************)
ExclusiveCallsReturn ==
    \A c \in RCallers : rrpc[c] \in ExclusiveOps ~> rrpc[c] = "idle"
=============================================================================
