----------------------------- MODULE MC_Components -----------------------------
(***************************************************************************)
(* The component checks, each state of a mode one input or one run:       *)
(*  - to_underscored_name on every string of at most MaxLen characters    *)
(*    over a lower case letter, two upper case letters, a digit, '-' and  *)
(*    '_' (mode "normalize");                                              *)
(*  - ReportOptions::build_filter of every white list of at most MaxLen   *)
(*    characters and every black list of at most BlackLen characters over *)
(*    'a', '*', '?' and ',', asked allow_report for every name of at most  *)
(*    NameLen characters over 'a' and 'b' (mode "match");                 *)
(*  - two threads each making two scope requests (mode "scope"), with the *)
(*    root scope "k" tagged a=1 by its flag, the sys scope "k_s" and a    *)
(*    flag scope whose tag flag ";b:" parses to no tags.  The requests:   *)
(*    build "t" and "T" (both normalise to the id "t"), build "" (nullptr), *)
(*    build "k_t" with a=1 and root->sub_scope("t", {a=2}) (both the id   *)
(*    "k_t+a=1"), sys->tagged({b=1}), and build "k_s" with a=1, which is  *)
(*    the sys scope's id.                                                  *)
(*  - two threads recording into a Histogram while get_metric reads it     *)
(*    (mode "histogram"), over the layouts and values of HistogramCalls.  *)
(*  - two AverageGauge writers with get_value and reset beside them (mode  *)
(*    "average"): a 6-bit word with a 4-bit sum field and a 2-bit count   *)
(*    field, and 3-bit ints; -5 and 4 are clamped to -4 and 3, three of   *)
(*    them of one sign overflow the sum field, four samples of 1 in one   *)
(*    agent overflow the count field;                                      *)
(*  - a Reducer of each of the six classes (the mode is the class's       *)
(*    name): two writers, get_value, reset and get_sampler, with T's      *)
(*    limits -8 and 7 and values -2 and 3, which make max, min and sum    *)
(*    all differ from any single write.                                   *)
(* Outside its mode a module's variables keep their initial values.       *)
(***************************************************************************)
EXTENDS NormalizeName, WildcardMatcher, Scope, HistogramCalls

CONSTANTS MaxLen, NameLen, BlackLen
CONSTANTS Threads, Calls, Values, DBL_MAX, MaxRecords
CONSTANTS Inputs, WordBits, SumBits, IntBits, MaxWrites,
          RedValues, LimitsMin, LimitsMax, RedWrites

VARIABLES bounds, counts, sampleCount, sampleSum, wpc, wval, nrec, hist,
          rpc, rbuckets, rsum, rcount, rquiet

histVars == <<bounds, counts, sampleCount, sampleSum, wpc, wval, nrec, hist,
              rpc, rbuckets, rsum, rcount, rquiet>>

H == INSTANCE Histogram

VARIABLES element, global, pc, n, num, sum, sample, writes, arpc, racc, rleft,
          rstart, recorded, taken
VARIABLES linked, agent, gresult, tstate, nwrites, sampler, cpc, cacc, cleft,
          cfrom, since

avgVars == <<element, global, pc, n, num, sum, sample, writes, arpc, racc,
             rleft, rstart, recorded, taken>>
redVars == <<linked, agent, gresult, tstate, nwrites, sampler, cpc, cacc, cleft,
             cfrom, since>>

Avg == INSTANCE AverageGauge WITH rpc <- arpc
R(c) == INSTANCE Reducer WITH Class <- c, Values <- RedValues, MaxWrites <- RedWrites

MCInputs == {-5, 1, 4}
MCRedValues == {-2, 3}
MCLimitsMin == -8

RedClasses == {"counter", "adderstatus", "maxergauge", "maxerstatus",
               "minergauge", "minerstatus"}

\* The combiner variables outside their modes: AverageGauge's and the
\* Counter's initial state.
CombinersIdle == Avg!Init /\ R("counter")!Init

\* The histogram variables outside mode "histogram": no layout, no call.
HistIdle ==
    /\ bounds = <<>> /\ counts = <<>> /\ sampleCount = 0 /\ sampleSum = 0
    /\ wpc = [t \in Threads |-> "idle"] /\ wval = [t \in Threads |-> 0]
    /\ nrec = [t \in Threads |-> 0] /\ hist = <<>>
    /\ rpc = "idle" /\ rbuckets = <<>> /\ rsum = 0 /\ rcount = 0
    /\ rquiet = TRUE

Alphabet == {97, 65, 66, 49, 45, 95}   \* a A B 1 - _
WildAlphabet == {97, 42, 63, 44}       \* a * ? ,
NameAlphabet == {97, 98}               \* a b
QuestionMark == 63                     \* build_filter's default '?'

MCRootName == <<107>>             \* k
MCSysName == <<115>>              \* s
MCFlagName == <<102>>             \* f
MCScopeSep == <<95>>              \* _
MCRootTags == <<97, 58, 49>>      \* a:1
MCFlagTags == <<59, 98, 58>>      \* ;b:
MCSysTags == <<>>
Rq(kind, parent, name, tags) == [kind |-> kind, parent |-> parent, name |-> name, tags |-> tags]
MCScopeRequests ==
    { Rq("build", 0, <<116>>, NoTags), Rq("build", 0, <<84>>, NoTags),
      Rq("build", 0, <<>>, NoTags),
      Rq("build", 0, <<107, 95, 116>>, <<97>> :> <<49>>),
      Rq("sub", RootIdx, <<116>>, <<97>> :> <<50>>),
      Rq("tagged", SysIdx, <<>>, <<98>> :> <<49>>),
      Rq("build", 0, <<107, 95, 115>>, <<97>> :> <<49>>) }

VARIABLES mode, src, wildcards, black
nameVars == <<mode, src, wildcards, black>>
vars == <<nameVars, scopeVars, histVars, avgVars, redVars>>

Init ==
    \/ /\ mode = "normalize" /\ src \in BoundedSeq(Alphabet, MaxLen)
       /\ wildcards = <<>> /\ black = <<>> /\ ScopeInit /\ HistIdle /\ CombinersIdle
    \/ /\ mode = "match" /\ src = <<>>
       /\ wildcards \in BoundedSeq(WildAlphabet, MaxLen) /\ black \in BoundedSeq(WildAlphabet, BlackLen)
       /\ ScopeInit /\ HistIdle /\ CombinersIdle
    \/ /\ mode = "scope" /\ src = <<>> /\ wildcards = <<>> /\ black = <<>>
       /\ ScopeInit /\ HistIdle /\ CombinersIdle
    \/ /\ mode = "histogram" /\ src = <<>> /\ wildcards = <<>> /\ black = <<>>
       /\ ScopeInit /\ H!Init /\ CombinersIdle
    \/ /\ mode = "average" /\ src = <<>> /\ wildcards = <<>> /\ black = <<>>
       /\ ScopeInit /\ HistIdle /\ CombinersIdle
    \/ /\ \E c \in RedClasses : mode = c /\ R(c)!Init
       /\ src = <<>> /\ wildcards = <<>> /\ black = <<>>
       /\ ScopeInit /\ HistIdle /\ Avg!Init

\* A step of the Histogram, taken in mode "histogram" only.
HistStep(A) == mode = "histogram" /\ A /\ UNCHANGED <<nameVars, scopeVars, avgVars, redVars>>

\* Steps of AverageGauge, and of the Reducer of class c, in their modes.
AvgStep(A) == mode = "average" /\ A /\ UNCHANGED <<nameVars, scopeVars, histVars, redVars>>
RedStep(c, A) == mode = c /\ A /\ UNCHANGED <<nameVars, scopeVars, histVars, avgVars>>

\* Scopes are built in mode "scope" only.
Next ==
    \/ \E t \in Builders : mode = "scope" /\ Build(t) /\ UNCHANGED <<nameVars, histVars, avgVars, redVars>>
    \/ \E t \in Builders : AddScope(t) /\ UNCHANGED <<nameVars, histVars, avgVars, redVars>>
    \/ \E t \in Threads : \/ HistStep(H!RecordBucket(t))
                         \/ HistStep(H!RecordCount(t))
                         \/ HistStep(H!RecordSum(t))
    \/ HistStep(H!ReadBegin) \/ HistStep(H!ReadBucket) \/ HistStep(H!ReadSum)
    \/ HistStep(H!ReadCount) \/ HistStep(H!ReadEnd)
    \/ \E t \in Threads :
          \/ AvgStep(Avg!Write(t)) \/ AvgStep(Avg!Decode(t))
          \/ AvgStep(Avg!Flush(t)) \/ AvgStep(Avg!Cas(t))
          \/ AvgStep(Avg!ThreadExit(t))
          \/ \E c \in RedClasses :
                \/ RedStep(c, \E x \in RedValues : R(c)!Write(t, x))
                \/ RedStep(c, R(c)!ThreadExit(t))
                \/ RedStep(c, R(c)!CombineAgent(t))
    \/ AvgStep(Avg!CombineBegin) \/ AvgStep(Avg!CombineAgent)
    \/ AvgStep(Avg!CombineEnd) \/ AvgStep(Avg!ResetAllAgents)
    \/ \E c \in RedClasses :
          \/ RedStep(c, R(c)!GetSampler) \/ RedStep(c, R(c)!CombineBegin)
          \/ RedStep(c, R(c)!CombineEnd) \/ RedStep(c, R(c)!Reset)
Spec == Init /\ [][Next]_vars

-----------------------------------------------------------------------------
(***************************************************************************)
(* The reference, written from the header comment of normalize_name.h     *)
(* ("only lowercased alphabets / digits / underscores"; FooBar -> foo_bar, *)
(* RPCTest -> rpctest, foo::bar::Apple -> foo_bar_apple): map every       *)
(* character to its lower case, digit or '_', put a '_' in front of each  *)
(* upper case letter that starts a word (follows a character that is not *)
(* upper case), then squeeze every run of '_' to one.                      *)
(***************************************************************************)
Mapped(c) == IF IsAlpha(c) THEN (IF IsUpper(c) THEN ToLower(c) ELSE c)
             ELSE IF IsDigit(c) THEN c ELSE US

WordStart(s, i) == i > 1 /\ IsUpper(s[i]) /\ ~IsUpper(s[i - 1])

Spread(s) ==
    FlattenSeq([i \in DOMAIN s |->
                  (IF WordStart(s, i) THEN <<US>> ELSE <<>>) \o <<Mapped(s[i])>>])

Squeezed(s) ==
    [j \in 1 .. Cardinality({i \in DOMAIN s : ~(i > 1 /\ s[i] = US /\ s[i - 1] = US)}) |->
        LET keep == {i \in DOMAIN s : ~(i > 1 /\ s[i] = US /\ s[i - 1] = US)}
        IN s[CHOOSE i \in keep : Cardinality({k \in keep : k <= i}) = j]]

Reference(s) == Squeezed(Spread(s))

\* to_underscored_name into an empty string returns the reference
\* normalisation of the name (the header comment's contract).
MatchesReference == mode = "normalize" => ToUnderscoredName(<<>>, src) = Reference(src)

-----------------------------------------------------------------------------
(***************************************************************************)
(* The reference glob, written from the filter's contract in              *)
(* stats_reporter.h (names matched by the wildcards or the exact names):  *)
(* '*' matches any run of characters, the question mark any one           *)
(* character, anything else itself.                                       *)
(***************************************************************************)
RECURSIVE Glob(_, _)
Glob(p, s) ==
    CASE p = <<>> -> s = <<>>
      [] Head(p) = Star -> Glob(Tail(p), s) \/ (s # <<>> /\ Glob(p, Tail(s)))
      [] OTHER -> /\ s # <<>>
                  /\ Head(p) \in {Head(s), QuestionMark}
                  /\ Glob(Tail(p), Tail(s))

\* Some comma-separated pattern of a non-empty list globs the name.
GlobsAny(list, name) == \E p \in ToSet(SplitAny(list)) : Glob(p, name)

\* A filter built from a white and a black list reports a name iff the
\* white list is empty or globs it, and the black list does not.
FilterReference(name) ==
    /\ wildcards = <<>> \/ GlobsAny(wildcards, name)
    /\ ~(black # <<>> /\ GlobsAny(black, name))

(***************************************************************************)
(* ReportOptions::allow_report, through build_filter's two matchers, the  *)
(* constructor's split into exact names and wildcards and wild_cmp's      *)
(* backtracking scan, accepts exactly the names the reference glob        *)
(* filter accepts.                                                         *)
(***************************************************************************)
FilterIsGlob ==
    mode = "match" =>
        LET f == BuildFilter(wildcards, black, QuestionMark)
        IN \A name \in BoundedSeq(NameAlphabet, NameLen) :
               AllowReport(f, name) = FilterReference(name)

-----------------------------------------------------------------------------
(* The Histogram properties, checked in mode "histogram".                  *)

\* The histogram's counters and the reader's phase keep their types.
HistogramTypeOK == mode = "histogram" => H!TypeOK

\* A get_metric that no concurrent record() overlapped returns buckets
\* adding up to its count, and the count and sum of the values recorded.
QuietSnapshotConsistent == H!QuietSnapshotConsistent

-----------------------------------------------------------------------------
(* The combiner properties, checked in modes "average" and the Reducer     *)
(* classes'.                                                               *)

\* The type invariants of AverageGauge and of each Reducer class.
CombinerTypeOK == Avg!TypeOK /\ \A c \in RedClasses : R(c)!TypeOK

\* AverageGauge: no sample is lost through overflow flushes, exits or resets.
NoLostUpdates == Avg!NoLostUpdates

\* AverageGauge: get_value's count lies between the counts at its start and end.
CombineCountLinearizable == Avg!CombineCountLinearizable

\* Reducer: the combiner holds the reduction of the values written since reset().
HeldIsReference ==
    \A c \in RedClasses : mode = c => R(c)!HeldIsReference

\* Reducer: get_value returns a per-thread prefix of the writes, with all
\* writes completed before it began.
CombineLinearizable ==
    \A c \in RedClasses : mode = c => R(c)!CombineLinearizable
=============================================================================
