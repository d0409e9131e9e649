--------------------------- MODULE VariableRegistry ---------------------------
(***************************************************************************)
(* The registry of exposed variables (src/tally/variable.cc).             *)
(*                                                                         *)
(* Exposed variables live in SUB_MAP_COUNT hash maps keyed by full name,   *)
(* each guarded by its own shared_mutex; the shard of a name is           *)
(* sub_map_index(name).  expose_impl first hide()s the variable (erase    *)
(* under the old shard's lock), then computes the new name outside any    *)
(* lock, then inserts under the new shard's lock; a duplicate name makes  *)
(* it reset() the variable and fail.  report() visits the shards one at a *)
(* time, each under its shared lock.  A variable is used by one thread    *)
(* at a time (its expose, hide and destructor are not thread-safe         *)
(* against each other); different variables and the reporter interleave.  *)
(*                                                                         *)
(* The union of all shards is the set `entries` of <<name, variable>>      *)
(* pairs: a pair lives in shard SubMapIndex(name).  All variables are      *)
(* exposed in one scope whose prefix and separator are constants.          *)
(***************************************************************************)
EXTENDS Naturals, Sequences, FiniteSets, Bitwise, NormalizeName

CONSTANTS
    Vars,            \* Variable objects
    Names,           \* requested names (character-code sequences)
    Prefix,          \* the scope's _prefix
    Separator,       \* the scope's _separator
    SUB_MAP_COUNT,   \* number of shards, a power of two (32 in the code)
    MaxExposes       \* bound on expose calls

VARIABLES
    entries,    \* the union of the shard maps: <<full name, variable>>
    exposed,    \* exposed[v]: v->_exposed
    vname,      \* vname[v]: v->_name
    fullName,   \* fullName[v]: v->_full_name
    vpc,        \* vpc[v]: "idle" | "insert" (inside expose_impl) | "dead"
    exposes,    \* expose calls made so far
    sweeping,   \* the reporter is inside report()
    rpc,        \* the next shard report() visits
    reported,   \* reported[v]: times the current sweep reported v
    steady      \* ghost: variables exposed throughout the current sweep

vars == <<entries, exposed, vname, fullName, vpc, exposes, sweeping, rpc,
          reported, steady>>

Shards == 0 .. (SUB_MAP_COUNT - 1)

\* sub_map_index: h = h * 5 + c over the characters in a size_t, masked to
\* the shard count; the empty name goes to shard 0.  Only the low bits of h
\* survive the mask and 2^16 divides 2^64, so h is kept modulo 2^16 (TLC's
\* integers are 32-bit), which gives the same shard.
HashWidth == 2^16

\* A mask with the shard count instead of the shard count minus one.
SubMapIndexWrongMask(str) ==
    IF str = <<>> THEN 0
    ELSE LET RECURSIVE H(_)
             H(i) == IF i = 0 THEN 0 ELSE (H(i - 1) * 5 + str[i]) % HashWidth
         IN H(Len(str)) & SUB_MAP_COUNT

SubMapIndex(str) ==
    IF str = <<>> THEN 0
    ELSE LET RECURSIVE H(_)
             H(i) == IF i = 0 THEN 0 ELSE (H(i - 1) * 5 + str[i]) % HashWidth
         IN H(Len(str)) & (SUB_MAP_COUNT - 1)

\* Scope::fully_qualified_name of a scope with prefix pre.
ScopedName(pre, name) ==
    IF pre = <<>> THEN name ELSE pre \o Separator \o name

\* The default scope's fully_qualified_name.
FullyQualifiedName(name) == ScopedName(Prefix, name)

\* The variables map shard i holds.
InShard(i) == {e[2] : e \in {f \in entries : SubMapIndex(f[1]) = i}}

TypeOK ==
    /\ entries \subseteq (Seq(Nat) \X Vars)
    /\ exposed \in [Vars -> BOOLEAN]
    /\ vpc \in [Vars -> {"idle", "insert", "dead"}]
    /\ exposes \in 0 .. MaxExposes
    /\ sweeping \in BOOLEAN /\ rpc \in 0 .. SUB_MAP_COUNT
    /\ reported \in [Vars -> Nat]
    /\ steady \subseteq Vars

Init ==
    /\ entries = {}
    /\ exposed = [v \in Vars |-> FALSE]
    /\ vname = [v \in Vars |-> <<>>]
    /\ fullName = [v \in Vars |-> <<>>]
    /\ vpc = [v \in Vars |-> "idle"]
    /\ exposes = 0
    /\ sweeping = FALSE /\ rpc = 0
    /\ reported = [v \in Vars |-> 0]
    /\ steady = {}

-----------------------------------------------------------------------------
\* Variable::reset: clear the names and the exposed flag.
Reset(v) ==
    /\ vname' = [vname EXCEPT ![v] = <<>>]
    /\ fullName' = [fullName EXCEPT ![v] = <<>>]
    /\ exposed' = [exposed EXCEPT ![v] = FALSE]
    /\ steady' = steady \ {v}

\* The erase of hide(), under the lock of the shard of _full_name.
Erase(v) == entries' = {e \in entries : e[1] # fullName[v]}

\* Variable::hide: nothing if not exposed; otherwise erase and reset().
HideVar(v) ==
    IF ~exposed[v]
      THEN UNCHANGED <<entries, exposed, vname, fullName, steady>>
      ELSE Erase(v) /\ Reset(v)

\* expose_impl without the leading hide().
ExposeBeginAsNoHide(v, nm, pre) ==
    /\ vpc[v] = "idle"
    /\ UNCHANGED <<entries, exposed, steady>>
    /\ LET name == ToUnderscoredName(<<>>, nm)
       IN /\ vname' = [vname EXCEPT ![v] = name]
          /\ fullName' = [fullName EXCEPT ![v] = ScopedName(pre, name)]
    /\ vpc' = [vpc EXCEPT ![v] = "insert"]

\* expose_impl(name, help, scope) up to the insert: hide(), then
\* to_underscored_name(&_name, name), which appends to the _name hide() left
\* (empty unless a reset was missed), and scope->fully_qualified_name.
ExposeBeginAs(v, nm, pre) ==
    /\ vpc[v] = "idle"
    /\ IF exposed[v]
         THEN /\ Erase(v)
              /\ exposed' = [exposed EXCEPT ![v] = FALSE]
              /\ steady' = steady \ {v}
         ELSE UNCHANGED <<entries, exposed, steady>>
    /\ LET name == ToUnderscoredName(IF exposed[v] THEN <<>> ELSE vname[v], nm)
       IN /\ vname' = [vname EXCEPT ![v] = name]
          /\ fullName' = [fullName EXCEPT ![v] = ScopedName(pre, name)]
    /\ vpc' = [vpc EXCEPT ![v] = "insert"]

\* Variable::expose(name) of a plain variable into the default scope; the
\* empty-name early return is a guard.
ExposeBegin(v) ==
    /\ exposes < MaxExposes
    /\ \E nm \in Names : nm # <<>> /\ ExposeBeginAs(v, nm, Prefix)
    /\ exposes' = exposes + 1
    /\ UNCHANGED <<sweeping, rpc, reported>>

\* An insert that overwrites the owner of a taken name.
ExposeInsertOverwrite(v) ==
    /\ vpc[v] = "insert"
    /\ entries' = {e \in entries : e[1] # fullName[v]} \cup {<<fullName[v], v>>}
    /\ exposed' = [exposed EXCEPT ![v] = TRUE]
    /\ UNCHANGED <<vname, fullName, steady>>
    /\ vpc' = [vpc EXCEPT ![v] = "idle"]
    /\ UNCHANGED <<exposes, sweeping, rpc, reported>>

\* expose_impl under the new shard's lock: insert, which fails if the name
\* is taken; on failure reset() and return already_exists, on success set
\* _exposed.
ExposeInsert(v) ==
    /\ vpc[v] = "insert"
    /\ IF \E e \in entries : e[1] = fullName[v]
         THEN /\ Reset(v)
              /\ UNCHANGED entries
         ELSE /\ entries' = entries \cup {<<fullName[v], v>>}
              /\ exposed' = [exposed EXCEPT ![v] = TRUE]
              /\ UNCHANGED <<vname, fullName, steady>>
    /\ vpc' = [vpc EXCEPT ![v] = "idle"]
    /\ UNCHANGED <<exposes, sweeping, rpc, reported>>

\* A public hide() call.
Hide(v) ==
    /\ vpc[v] = "idle"
    /\ exposed[v]
    /\ HideVar(v)
    /\ UNCHANGED <<vpc, exposes, sweeping, rpc, reported>>

\* A subclass destructor: hide(), then the object is gone.
Destroy(v) ==
    /\ vpc[v] = "idle"
    /\ HideVar(v)
    /\ vpc' = [vpc EXCEPT ![v] = "dead"]
    /\ UNCHANGED <<exposes, sweeping, rpc, reported>>

(***************************************************************************)
(* Variable::report: for each shard in turn, under its shared lock, report *)
(* every variable of the shard.                                            *)
(***************************************************************************)
ReportBegin ==
    /\ ~sweeping
    /\ sweeping' = TRUE /\ rpc' = 0
    /\ reported' = [v \in Vars |-> 0]
    /\ steady' = {v \in Vars : exposed[v]}
    /\ UNCHANGED <<entries, exposed, vname, fullName, vpc, exposes>>

\* A shard loop whose bound is one too large.
ReportShardPastEnd ==
    /\ sweeping /\ rpc <= SUB_MAP_COUNT
    /\ reported' = [v \in Vars |-> IF v \in InShard(rpc) THEN reported[v] + 1
                                                          ELSE reported[v]]
    /\ rpc' = rpc + 1
    /\ UNCHANGED <<entries, exposed, vname, fullName, vpc, exposes, sweeping,
                   steady>>

ReportShard ==
    /\ sweeping /\ rpc \in Shards
    /\ reported' = [v \in Vars |-> IF v \in InShard(rpc) THEN reported[v] + 1
                                                          ELSE reported[v]]
    /\ rpc' = rpc + 1
    /\ UNCHANGED <<entries, exposed, vname, fullName, vpc, exposes, sweeping,
                   steady>>

ReportEnd ==
    /\ sweeping /\ rpc = SUB_MAP_COUNT
    /\ sweeping' = FALSE /\ rpc' = 0
    /\ UNCHANGED <<entries, exposed, vname, fullName, vpc, exposes, reported,
                   steady>>

Next ==
    \/ \E v \in Vars : ExposeBegin(v) \/ ExposeInsert(v) \/ Hide(v) \/ Destroy(v)
    \/ ReportBegin \/ ReportShard \/ ReportEnd

Spec == Init /\ [][Next]_vars

-----------------------------------------------------------------------------
(***************************************************************************)
(* A destroyed variable is never left in a shard map, so report() never   *)
(* calls report_variable on a freed object.  This rests on expose_impl    *)
(* hiding the old name before taking a new one and on the destructors     *)
(* calling hide().                                                         *)
(***************************************************************************)
NoDanglingEntry == \A e \in entries : vpc[e[2]] # "dead"

(***************************************************************************)
(* Between calls, a variable's _exposed flag and _full_name agree with the *)
(* maps: it is exposed iff the map of its shard holds it under its full   *)
(* name, and no map holds it under another name.  A failed expose leaves  *)
(* the owner of the name in place.                                         *)
(***************************************************************************)
RegistryConsistent ==
    \A v \in Vars : vpc[v] = "idle" =>
        /\ exposed[v] <=> <<fullName[v], v>> \in entries
        /\ \A e \in entries : e[2] = v => e[1] = fullName[v]

(***************************************************************************)
(* report() reports every variable that stayed exposed for the whole sweep *)
(* exactly once (spec.md section 5: the sweep "visits every exposed metric *)
(* exactly once per call").                                                *)
(***************************************************************************)
SteadyReportedOnce ==
    sweeping /\ rpc = SUB_MAP_COUNT => \A v \in steady : reported[v] = 1

(***************************************************************************)
(* No variable is reported twice by one sweep, even one that is re-exposed *)
(* under another name while the sweep runs.                                *)
(***************************************************************************)
ReportedAtMostOnce == \A v \in Vars : reported[v] <= 1
=============================================================================
