--------------------------- MODULE ReportDispatch ---------------------------
(***************************************************************************)
(* How a report sweep turns each exposed variable into exported samples    *)
(* (src/tally/reporters/prometheus_stats_reporter.cc and                  *)
(* json_stats_reporter.cc), from the variable's VariableType bits          *)
(* (variable.h) and its get_metric / get_value.                           *)
(*                                                                         *)
(* A variable's class fixes the attribute it is constructed with and      *)
(* whether it overrides get_metric.  FlagStatus::expose_impl registers    *)
(* the variable through Variable::expose_impl and only then, for a        *)
(* numeric flag, set_type(flag | gauge): a sweep may fall between the two. *)
(* A Prometheus sweep (Reporter::get_prometheus_reporting) and a JSON     *)
(* sweep (get_json_reporting) and a dump sweep (JsonDumper's            *)
(* DumpJsonStatsReporter, reporters/dump_json_stats_reporter.cc) are      *)
(* independent reporters that may run concurrently with each other and    *)
(* with expose/hide; each visits the                                       *)
(* variables registered at the time, in the maps' order (any order here). *)
(*                                                                         *)
(* Values are abstracted to where they come from: "own" is the variable's *)
(* current value (its counter, gauge, histogram, flag value or            *)
(* description), "zero" the constant 0.0 of a get_metric that does not    *)
(* read the variable.                                                      *)
(***************************************************************************)
EXTENDS Naturals, Bitwise

CONSTANTS
    Vars,       \* Variable objects
    Class,      \* Class[v]: the class v was constructed as
    FlagKind    \* FlagKind[v]: for a flag class, the turbo flag it names

\* VariableType bits.
kCounter == 1
kGauge == 2
kHistogram == 4
kFlag == 8
kMetric == kCounter + kGauge + kHistogram
kCDF == 2^26
kStatus == 2^30
kEmpty == 0

\* VariableType::is_*: the bit test type & k, as a bool.
Is(t, k) == (t & k) # 0

\* Counter; Gauge, Maxer/Miner/Func/AverageGauge; Histogram; Status,
\* PassiveStatus, Maxer/Miner/AdderStatus; FlagStatus; FlagGauge; the
\* latency recorder's CDF.
Classes == {"counter", "gauge", "histogram", "status", "flag", "flaggauge", "cdf"}
FlagKinds == {"numeric", "string", "missing"}

ASSUME Class \in [Vars -> Classes] /\ FlagKind \in [Vars -> FlagKinds]

\* The VariableAttr each class's constructor passes to Variable.
Attr(c) ==
    CASE c = "counter" -> kCounter
      [] c = "gauge" -> kGauge
      [] c = "histogram" -> kHistogram
      [] c = "status" -> kStatus
      [] c \in {"flag", "flaggauge"} -> kFlag
      [] c = "cdf" -> kCDF

\* get_metric: the overrides of Counter, the gauges and Histogram read the
\* variable; FlagGauge's returns gauge 0.0; the rest inherit Variable's,
\* which returns empty_type and 0.0.
GetMetric(v) ==
    CASE Class[v] \in {"counter", "gauge", "histogram"} -> "own"
      [] OTHER -> "zero"

IsFlag(v) == Class[v] \in {"flag", "flaggauge"}

VARIABLES
    vtype,      \* vtype[v]: v->_attr.type
    exposed,    \* exposed[v]: v is in the variable maps
    fpc,        \* fpc[v]: "idle" | "settype" (a flag inside expose_impl)
    ptodo,      \* variables the Prometheus sweep has still to visit
    pout,       \* the Prometheus sweep's samples: [var, kind, value]
    jtodo,      \* variables the JSON sweep has still to visit
    jout,       \* the JSON sweep's entries: [var, section, value]
    dtodo,      \* variables the dump sweep has still to visit
    dout        \* the dump sweep's lines: [var, type, value]

vars == <<vtype, exposed, fpc, ptodo, pout, jtodo, jout, dtodo, dout>>
sweepVars == <<ptodo, pout, jtodo, jout, dtodo, dout>>

TypeOK ==
    /\ vtype \in [Vars -> {Attr(c) : c \in Classes} \cup {kFlag + kGauge}]
    /\ exposed \in [Vars -> BOOLEAN]
    /\ fpc \in [Vars -> {"idle", "settype"}]
    /\ ptodo \subseteq Vars /\ jtodo \subseteq Vars /\ dtodo \subseteq Vars

Init ==
    /\ vtype = [v \in Vars |-> Attr(Class[v])]
    /\ exposed = [v \in Vars |-> FALSE]
    /\ fpc = [v \in Vars |-> "idle"]
    /\ ptodo = {} /\ pout = {} /\ jtodo = {} /\ jout = {}
    /\ dtodo = {} /\ dout = {}

-----------------------------------------------------------------------------
\* Variable::expose of a variable that is not a flag.
Expose(v) ==
    /\ ~IsFlag(v) /\ ~exposed[v]
    /\ exposed' = [exposed EXCEPT ![v] = TRUE]
    /\ UNCHANGED <<vtype, fpc, sweepVars>>

\* FlagStatus::expose_impl: not_found for an unknown flag; otherwise
\* Variable::expose_impl registers the variable, and a numeric flag still
\* has its set_type to come.
FlagExpose(v) ==
    /\ IsFlag(v) /\ ~exposed[v] /\ fpc[v] = "idle"
    /\ FlagKind[v] # "missing"
    /\ exposed' = [exposed EXCEPT ![v] = TRUE]
    /\ fpc' = [fpc EXCEPT ![v] = IF FlagKind[v] = "numeric" THEN "settype" ELSE "idle"]
    /\ UNCHANGED <<vtype, sweepVars>>

\* The rest of expose_impl for a numeric flag: t = flag_type(); t |= gauge_type().
FlagSetType(v) ==
    /\ fpc[v] = "settype"
    /\ vtype' = [vtype EXCEPT ![v] = kFlag + kGauge]
    /\ fpc' = [fpc EXCEPT ![v] = "idle"]
    /\ UNCHANGED <<exposed, sweepVars>>

\* Variable::hide; the type a flag was given stays.
Hide(v) ==
    /\ exposed[v] /\ fpc[v] = "idle"
    /\ exposed' = [exposed EXCEPT ![v] = FALSE]
    /\ UNCHANGED <<vtype, fpc, sweepVars>>

-----------------------------------------------------------------------------
(***************************************************************************)
(* PrometheusStatsReporter::report_variable: nothing unless is_metric();   *)
(* report_gauge if is_gauge(), else report_counter if is_counter(); then   *)
(* report_histogram if is_histogram().  Each writes the value of           *)
(* v->get_metric().                                                         *)
(***************************************************************************)
PromKinds(t) ==
    IF ~Is(t, kMetric) THEN {}
    ELSE (IF Is(t, kGauge) THEN {"gauge"}
          ELSE IF Is(t, kCounter) THEN {"counter"} ELSE {})
         \cup (IF Is(t, kHistogram) THEN {"histogram"} ELSE {})

PromSamples(v) ==
    {[var |-> v, kind |-> k, value |-> GetMetric(v)] : k \in PromKinds(vtype[v])}

(***************************************************************************)
(* JsonStatsReporter::report_variable: discard if is_empty(); report_flag  *)
(* (the flag's current_value from get_value) if is_flag(); else the       *)
(* counter, histogram or gauge entry of get_metric(); else a "variable"    *)
(* entry holding get_description().                                        *)
(***************************************************************************)
JsonEntries(v) ==
    LET t == vtype[v]
    IN CASE Is(t, kEmpty) -> {}
         [] Is(t, kFlag) -> {[var |-> v, section |-> "flag", value |-> "own"]}
         [] Is(t, kCounter) \/ Is(t, kHistogram) \/ Is(t, kGauge) ->
                {[var |-> v, section |-> "metric", value |-> GetMetric(v)]}
         [] OTHER -> {[var |-> v, section |-> "variable", value |-> "own"]}

(***************************************************************************)
(* DumpJsonStatsReporter::report_variable: discard if is_empty();          *)
(* report_flag (get_value's FlagSample) if is_flag(); else report_counter, *)
(* report_histogram or report_gauge, in that order, each the value of     *)
(* get_metric(); else get_description().                                  *)
(***************************************************************************)
DumpEntries(v) ==
    LET t == vtype[v]
        line(k, x) == {[var |-> v, type |-> k, value |-> x]}
    IN CASE Is(t, kEmpty) -> {}
         [] Is(t, kFlag) -> line("flag", "own")
         [] Is(t, kCounter) -> line("counter", GetMetric(v))
         [] Is(t, kHistogram) -> line("is_histogram", GetMetric(v))
         [] Is(t, kGauge) -> line("gauge", GetMetric(v))
         [] OTHER -> line("variable", "own")

\* Reporter::get_prometheus_reporting: a fresh reporter starts a sweep.
PromBegin ==
    /\ ptodo = {}
    /\ ptodo' = {v \in Vars : exposed[v]} /\ pout' = {}
    /\ UNCHANGED <<vtype, exposed, fpc, jtodo, jout, dtodo, dout>>

\* Variable::report calls report_variable on a variable still registered.
PromReport(v) ==
    /\ v \in ptodo
    /\ ptodo' = ptodo \ {v}
    /\ pout' = IF exposed[v] THEN pout \cup PromSamples(v) ELSE pout
    /\ UNCHANGED <<vtype, exposed, fpc, jtodo, jout, dtodo, dout>>

JsonBegin ==
    /\ jtodo = {}
    /\ jtodo' = {v \in Vars : exposed[v]} /\ jout' = {}
    /\ UNCHANGED <<vtype, exposed, fpc, ptodo, pout, dtodo, dout>>

JsonReport(v) ==
    /\ v \in jtodo
    /\ jtodo' = jtodo \ {v}
    /\ jout' = IF exposed[v] THEN jout \cup JsonEntries(v) ELSE jout
    /\ UNCHANGED <<vtype, exposed, fpc, ptodo, pout, dtodo, dout>>

\* JsonDumper::run: each round a new DumpJsonStatsReporter goes through
\* Variable::report, and append_dump writes its lines.
DumpBegin ==
    /\ dtodo = {}
    /\ dtodo' = {v \in Vars : exposed[v]} /\ dout' = {}
    /\ UNCHANGED <<vtype, exposed, fpc, ptodo, pout, jtodo, jout>>

DumpReport(v) ==
    /\ v \in dtodo
    /\ dtodo' = dtodo \ {v}
    /\ dout' = IF exposed[v] THEN dout \cup DumpEntries(v) ELSE dout
    /\ UNCHANGED <<vtype, exposed, fpc, ptodo, pout, jtodo, jout>>

Next ==
    \/ \E v \in Vars : \/ Expose(v) \/ FlagExpose(v) \/ FlagSetType(v) \/ Hide(v)
                       \/ PromReport(v) \/ JsonReport(v) \/ DumpReport(v)
    \/ PromBegin \/ JsonBegin \/ DumpBegin

Spec == Init /\ [][Next]_vars

-----------------------------------------------------------------------------
(***************************************************************************)
(* The three exporters agree on every variable they export: a value one  *)
(* of Prometheus, the JSON export and the dump file writes for a variable *)
(* is the one the others hold for it, so a numeric flag that JSON reports *)
(* with its current value is not exported by Prometheus as a constant.    *)
(***************************************************************************)
Exported ==
    {[var |-> e.var, value |-> e.value] : e \in pout \cup jout \cup dout}

ExportsAgree ==
    \A a, b \in Exported : a.var = b.var => a.value = b.value
=============================================================================
