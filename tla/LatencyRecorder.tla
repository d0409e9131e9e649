--------------------------- MODULE LatencyRecorder ---------------------------
(***************************************************************************)
(* LatencyRecorder::expose and hide (src/tally/latency_recorder.cc) over  *)
(* the registry of VariableRegistry.  A recorder owns eleven variables    *)
(* (the latency and max windows, count, qps, the three configured         *)
(* percentiles, the 99.9 and 99.99 percentiles, the percentile vector and *)
(* the cdf) and exposes them one after another under prefix + suffix,     *)
(* returning on the first failure.  The three configured percentiles are  *)
(* the flags tally_latency_p1/p2/p3 (config.cc), each read when its name  *)
(* is formatted and settable at any time through its validator.  Only the *)
(* recorder's own thread touches its variables; other threads expose      *)
(* other variables and set flags.                                          *)
(*                                                                         *)
(* Names are character-code sequences in which each word of a suffix is  *)
(* abstracted to one letter (latency -> l, max -> m, count -> c,          *)
(* qps -> q, percentiles -> p, cdf -> f) and numbers keep their decimal   *)
(* digits, so prefixes and suffixes concatenate and collide as in the     *)
(* code; ends_with_ignore_case(prefix, "latency") becomes a last letter   *)
(* l or L and remove_suffix(7) drops it.  Sub(r, k) is the variable of    *)
(* the k-th expose of recorder r.                                          *)
(***************************************************************************)
EXTENDS VariableRegistry

CONSTANTS
    Recorders,        \* LatencyRecorder objects, small integers
    RecPrefixes,      \* prefixes passed to expose
    PercentileValues, \* values the percentile flags may be set to
    SaveSeries        \* FLAGS_tally_save_series

VARIABLES
    p1, p2, p3,   \* FLAGS_tally_latency_p1/p2/p3
    recOp,        \* recOp[r]: "idle" | "expose" | "hide"
    recK,         \* recK[r]: the step of expose or hide in progress
    recPrefix,    \* recPrefix[r]: the prefix after the suffix strip
    recResult,    \* recResult[r]: what the last expose or hide returned
    hasSeries,    \* hasSeries[r]: _latency_percentiles has a _series_sampler
    aborted       \* a KCHECK has failed: the process is gone

recVars == <<p1, p2, p3, recOp, recK, recPrefix, recResult, hasSeries, aborted>>

\* The letters standing for the words of the suffixes ('_' is US).
LATENCY == 108
LATENCY_UC == 76
MAX == 109
COUNT == 99
QPS == 113
PCTLS == 112
CDF == 102

NumSubs == 11
Sub(r, k) == 100 * r + k
RecorderVars == {Sub(r, k) : r \in Recorders, k \in 1 .. NumSubs}
PercentilesIdx == 10

ASSUME RecorderVars \subseteq Vars

\* turbo::str_format("%d", n) for n >= 0.
RECURSIVE Digits(_)
Digits(n) == IF n < 10 THEN <<48 + n>> ELSE Digits(n \div 10) \o <<48 + (n % 10)>>

LatencyWord == <<US, LATENCY>>

\* The suffix of the k-th expose, with the percentile flags read now.
SubSuffix(k) ==
    << LatencyWord, <<US, MAX>> \o LatencyWord, <<US, COUNT>>, <<US, QPS>>,
       LatencyWord \o <<US>> \o Digits(p1),
       LatencyWord \o <<US>> \o Digits(p2),
       LatencyWord \o <<US>> \o Digits(p3),
       LatencyWord \o <<US>> \o Digits(999),
       LatencyWord \o <<US>> \o Digits(9999),
       LatencyWord \o <<US, PCTLS>>, LatencyWord \o <<US, CDF>> >>[k]

\* hide() order: the cdf before the percentile vector.
HideOrder == <<1, 2, 3, 4, 5, 6, 7, 8, 9, 11, 10>>

EndsWithLatency(pre) == pre # <<>> /\ pre[Len(pre)] \in {LATENCY, LATENCY_UC}
StripLatency(pre) == IF EndsWithLatency(pre) THEN SubSeq(pre, 1, Len(pre) - 1) ELSE pre

RecTypeOK ==
    /\ {p1, p2, p3} \subseteq PercentileValues
    /\ recOp \in [Recorders -> {"idle", "expose", "hide"}]
    /\ recK \in [Recorders -> 1 .. NumSubs]
    /\ recResult \in [Recorders -> {"none", "ok", "invalid", "exists", "hidden"}]
    /\ hasSeries \in [Recorders -> BOOLEAN] /\ aborted \in BOOLEAN

\* The flag defaults 80, 90, 99 and fresh recorders.
RecInit ==
    /\ p1 = 80 /\ p2 = 90 /\ p3 = 99
    /\ recOp = [r \in Recorders |-> "idle"]
    /\ recK = [r \in Recorders |-> 1]
    /\ recPrefix = [r \in Recorders |-> <<>>]
    /\ recResult = [r \in Recorders |-> "none"]
    /\ hasSeries = [r \in Recorders |-> FALSE]
    /\ aborted = FALSE

-----------------------------------------------------------------------------
(* The percentile flags' on_validate callbacks: a value is accepted if it  *)
(* lies in (0, 100) and keeps the order against the other flags' current  *)
(* values (p1 against p2 only, p3 against p2 only).                        *)

SetP1 == \E v \in PercentileValues : 0 < v /\ v < 100 /\ v < p2 /\ p1' = v
           /\ UNCHANGED <<p2, p3>>
SetP2 == \E v \in PercentileValues : 0 < v /\ v < 100 /\ v < p3 /\ v > p1
           /\ p2' = v /\ UNCHANGED <<p1, p3>>
SetP3 == \E v \in PercentileValues : 0 < v /\ v < 100 /\ v > p2 /\ p3' = v
           /\ UNCHANGED <<p1, p2>>

SetFlag ==
    /\ SetP1 \/ SetP2 \/ SetP3
    /\ UNCHANGED <<recOp, recK, recPrefix, recResult, hasSeries, aborted>>
    /\ UNCHANGED vars

-----------------------------------------------------------------------------
\* expose(prefix): strip a trailing "latency"; a prefix that was only that
\* returns invalid_argument before anything is exposed.
RecExpose(r) ==
    /\ recOp[r] = "idle"
    /\ \E pre \in RecPrefixes :
         IF EndsWithLatency(pre) /\ Len(pre) = 1
           THEN /\ recResult' = [recResult EXCEPT ![r] = "invalid"]
                /\ UNCHANGED <<recOp, recK, recPrefix>>
           ELSE /\ recPrefix' = [recPrefix EXCEPT ![r] = StripLatency(pre)]
                /\ recOp' = [recOp EXCEPT ![r] = "expose"]
                /\ recK' = [recK EXCEPT ![r] = 1]
                /\ recResult' = [recResult EXCEPT ![r] = "none"]
    /\ UNCHANGED <<p1, p2, p3, hasSeries, aborted>>
    /\ UNCHANGED vars

\* The k-th `rs = _x.expose(prefix + suffix, help, scope)' up to its insert.
RecExposeSub(r) ==
    /\ recOp[r] = "expose"
    /\ vpc[Sub(r, recK[r])] = "idle"
    /\ ExposeBeginAs(Sub(r, recK[r]), recPrefix[r] \o SubSuffix(recK[r]), Prefix)
    /\ UNCHANGED <<exposes, sweeping, rpc, reported>>
    /\ UNCHANGED recVars

\* PassiveStatus<Vector>::expose_impl: after an OK Variable::expose_impl a
\* series sampler is created if there is none and tally_save_series is set.
SeriesAfterExpose(r, k, taken) ==
    hasSeries[r] \/ (k = PercentilesIdx /\ ~taken /\ SaveSeries)

\* PassiveStatus::set_vector_names: 0 with a series sampler, else -1.
SetVectorNames(series) == IF series THEN 0 ELSE 0 - 1

\* An expose loop that goes on to the next variable after a failed one.
RecInsertSubIgnoreFail(r) ==
    LET k == recK[r]
        v == Sub(r, k)
    IN /\ recOp[r] = "expose" /\ vpc[v] = "insert"
       /\ ExposeInsert(v)
       /\ hasSeries' = hasSeries
       /\ IF k < NumSubs
            THEN recK' = [recK EXCEPT ![r] = k + 1] /\ UNCHANGED <<recOp, recResult>>
            ELSE /\ recOp' = [recOp EXCEPT ![r] = "idle"]
                 /\ recResult' = [recResult EXCEPT ![r] = "ok"]
                 /\ UNCHANGED recK
       /\ UNCHANGED <<p1, p2, p3, recPrefix, aborted>>

(***************************************************************************)
(* The k-th expose's insert, then `if (!rs.ok()) return rs;'.  An insert  *)
(* of the percentile vector (PassiveStatus<Vector>::expose_impl) creates  *)
(* its SeriesSampler when tally_save_series is set and there is none.     *)
(* After the last one, KCHECK_EQ(0, set_vector_names(...)): the call      *)
(* returns -1 without a SeriesSampler, and the process aborts.            *)
(***************************************************************************)
RecInsertSub(r) ==
    LET k == recK[r]
        v == Sub(r, k)
        taken == \E e \in entries : e[1] = fullName[v]
        series == SeriesAfterExpose(r, k, taken)
    IN /\ recOp[r] = "expose" /\ vpc[v] = "insert"
       /\ ExposeInsert(v)
       /\ hasSeries' = [hasSeries EXCEPT ![r] = series]
       /\ CASE taken ->
                 /\ recOp' = [recOp EXCEPT ![r] = "idle"]
                 /\ recResult' = [recResult EXCEPT ![r] = "exists"]
                 /\ UNCHANGED <<recK, aborted>>
             [] k < NumSubs ->
                 /\ recK' = [recK EXCEPT ![r] = k + 1]
                 /\ UNCHANGED <<recOp, recResult, aborted>>
             [] OTHER ->
                 /\ recOp' = [recOp EXCEPT ![r] = "idle"]
                 /\ recResult' = [recResult EXCEPT ![r] = "ok"]
                 /\ aborted' = (SetVectorNames(series) # 0)
                 /\ UNCHANGED recK
       /\ UNCHANGED <<p1, p2, p3, recPrefix>>

\* hide() (also the first thing ~LatencyRecorder does): begin.
RecHide(r) ==
    /\ recOp[r] = "idle"
    /\ recOp' = [recOp EXCEPT ![r] = "hide"]
    /\ recK' = [recK EXCEPT ![r] = 1]
    /\ UNCHANGED <<p1, p2, p3, recPrefix, recResult, hasSeries, aborted>>
    /\ UNCHANGED vars

\* One `_x.hide()' of hide(), each under its own shard's lock.
RecHideSub(r) ==
    LET k == recK[r]
    IN /\ recOp[r] = "hide"
       /\ HideVar(Sub(r, HideOrder[k]))
       /\ IF k < NumSubs
            THEN recK' = [recK EXCEPT ![r] = k + 1] /\ UNCHANGED <<recOp, recResult>>
            ELSE /\ recOp' = [recOp EXCEPT ![r] = "idle"]
                 /\ recResult' = [recResult EXCEPT ![r] = "hidden"]
                 /\ UNCHANGED recK
       /\ UNCHANGED <<vpc, exposes, sweeping, rpc, reported>>
       /\ UNCHANGED <<p1, p2, p3, recPrefix, hasSeries, aborted>>

-----------------------------------------------------------------------------
(***************************************************************************)
(* When expose() has returned OK, all eleven variables are in the        *)
(* registry under their own full names, and when hide() has returned,    *)
(* none is: a failure of any one expose is returned, never swallowed, and *)
(* no other thread's expose, hide or flag change can take a recorder's   *)
(* name from it between its inserts.                                       *)
(***************************************************************************)
RecorderExposeComplete ==
    \A r \in Recorders : recOp[r] = "idle" =>
        /\ recResult[r] = "ok" =>
              \A k \in 1 .. NumSubs :
                  exposed[Sub(r, k)] /\ <<fullName[Sub(r, k)], Sub(r, k)>> \in entries
        /\ recResult[r] = "hidden" =>
              \A k \in 1 .. NumSubs : \A e \in entries : e[2] # Sub(r, k)

(***************************************************************************)
(* expose() never takes the process down: spec.md section 5 makes a      *)
(* registration conflict a recoverable result, and section 3 lists        *)
(* save-series on/off among the options the core must honour.             *)
(***************************************************************************)
RecorderNeverAborts == ~aborted

=============================================================================
