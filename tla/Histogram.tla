------------------------------ MODULE Histogram ------------------------------
(***************************************************************************)
(* Histogram (src/tally/histogram.cc) with its bucket layout (buckets.cc,  *)
(* buckets_iterator.cc, impl/buckets_calculator.cc).                      *)
(*                                                                         *)
(* A Buckets object is built by linear_values / exponential_values; its   *)
(* i-th bound is BucketsCalculator::calculate(i).  create_buckets turns   *)
(* the bounds into HistogramBuckets 0 .. num, bucket i ending at bound i  *)
(* and bucket num a catch-all ending at DBL_MAX.  record(v) finds a       *)
(* bucket with std::upper_bound (a binary search with v < upper_bound),   *)
(* then increments the bucket's counter, the sample count and the sample  *)
(* sum: three separate counters.  get_metric reads every bucket, then the *)
(* sum, then the count.                                                    *)
(*                                                                         *)
(* Doubles are abstracted to integers: every bound and value of the runs  *)
(* is an integer and DBL_MAX is an integer above all of them.  Each       *)
(* counter is a Counter over the agent combiner, whose reads and          *)
(* increments are atomic (see AverageGauge), so it is a single integer.   *)
(***************************************************************************)
EXTENDS Integers, Sequences, FiniteSets

CONSTANTS
    Threads,      \* threads calling record()
    Calls,        \* Buckets factory calls: [growth, start, update, num]
    Values,       \* values a thread may record
    DBL_MAX,      \* std::numeric_limits<double>::max()
    MaxRecords    \* bound on record() calls per thread

VARIABLES
    bounds,       \* the Buckets' bounds, calculate(0) .. calculate(num - 1)
    counts,       \* counts[b]: buckets_value_[b]
    sampleCount,  \* sample_count_
    sampleSum,    \* sample_sum_
    wpc,          \* wpc[t]: "idle" | "count" | "sum"
    wval,         \* wval[t]: the value t is recording
    nrec,         \* nrec[t]: record() calls started by t
    hist,         \* ghost: <<value, bucket>> of every record()
    rpc,          \* get_metric: "idle" | "buckets" | "sum" | "count" | "done"
    rbuckets,     \* the bucket values get_metric has read
    rsum, rcount, \* the sum and count get_metric has read
    rquiet        \* ghost: no record() was in progress at any point of the
                  \* current get_metric

vars == <<bounds, counts, sampleCount, sampleSum, wpc, wval, nrec, hist,
          rpc, rbuckets, rsum, rcount, rquiet>>

-----------------------------------------------------------------------------
(* Buckets.                                                                *)

\* Buckets::linear_values / exponential_values throw on these arguments;
\* the Buckets constructor throws on num = 0.
ValidCall(c) ==
    /\ c.num > 0
    /\ c.growth = "linear" => c.update > 0
    /\ c.growth = "exponential" => c.update > 1

\* BucketsCalculator::calculate
Calculate(c, i) ==
    IF c.growth = "exponential" THEN c.start * c.update ^ i
    ELSE c.start + c.update * i

\* Iterating the Buckets from begin() to end().
BoundsOf(c) == [i \in 1 .. c.num |-> Calculate(c, i - 1)]

NumBuckets == Len(bounds) + 1   \* the explicit buckets and the catch-all
BucketIds == 0 .. (NumBuckets - 1)

\* create_buckets: bucket b ends at bound b; the catch-all at DBL_MAX.
Upper(b) == IF b < Len(bounds) THEN bounds[b + 1] ELSE DBL_MAX

\* record()'s comparator: lhs < rhs.upper_bound.
Before(v, b) == v < Upper(b)

(***************************************************************************)
(* std::upper_bound(first, last, v, comp) over the buckets: the libstdc++ *)
(* binary search.  It returns NumBuckets (end()) if no bucket's upper      *)
(* bound exceeds v.  It assumes the buckets sorted; on unsorted ones it   *)
(* returns whatever the search reaches.                                   *)
(***************************************************************************)
UpperBoundIndex(v) ==
    LET RECURSIVE Search(_, _)
        Search(first, count) ==
            IF count = 0 THEN first
            ELSE LET step == count \div 2
                     it == first + step
                 IN IF ~Before(v, it)
                      THEN Search(it + 1, count - step - 1)
                      ELSE Search(first, step)
    IN Search(0, NumBuckets)

-----------------------------------------------------------------------------
TypeOK ==
    /\ bounds \in Seq(Int)
    /\ counts \in [BucketIds -> Nat]
    /\ sampleCount \in Nat /\ sampleSum \in Int
    /\ wpc \in [Threads -> {"idle", "count", "sum"}]
    /\ nrec \in [Threads -> 0 .. MaxRecords]
    /\ rpc \in {"idle", "buckets", "sum", "count", "done"}

\* create_buckets without the catch-all bucket past the last bound.
InitNoCatchAll ==
    /\ \E c \in Calls : ValidCall(c) /\ bounds = BoundsOf(c)
    /\ counts = [b \in 0 .. (Len(bounds) - 1) |-> 0]
    /\ sampleCount = 0 /\ sampleSum = 0
    /\ wpc = [t \in Threads |-> "idle"]
    /\ wval = [t \in Threads |-> 0]
    /\ nrec = [t \in Threads |-> 0]
    /\ hist = <<>>
    /\ rpc = "idle" /\ rbuckets = <<>> /\ rsum = 0 /\ rcount = 0
    /\ rquiet = TRUE

\* A histogram constructed from one valid Buckets factory call:
\* create_buckets makes one counter per bound plus the catch-all.
Init ==
    /\ \E c \in Calls : ValidCall(c) /\ bounds = BoundsOf(c)
    /\ counts = [b \in 0 .. Len(bounds) |-> 0]
    /\ sampleCount = 0 /\ sampleSum = 0
    /\ wpc = [t \in Threads |-> "idle"]
    /\ wval = [t \in Threads |-> 0]
    /\ nrec = [t \in Threads |-> 0]
    /\ hist = <<>>
    /\ rpc = "idle" /\ rbuckets = <<>> /\ rsum = 0 /\ rcount = 0
    /\ rquiet = TRUE

\* Every record() step ends the quiet period of a get_metric in progress.
Noisy == rquiet' = FALSE

(***************************************************************************)
(* record(v): the bucket search and buckets_value_[it->bucket_id]          *)
(* .increment(1).  When the search returns end() the code dereferences    *)
(* the past-the-end iterator; the model records the index and increments *)
(* nothing.                                                                *)
(***************************************************************************)
RecordBucket(t) ==
    /\ wpc[t] = "idle" /\ nrec[t] < MaxRecords
    /\ \E v \in Values :
         LET b == UpperBoundIndex(v)
         IN /\ counts' = IF b \in BucketIds THEN [counts EXCEPT ![b] = @ + 1]
                                            ELSE counts
            /\ wval' = [wval EXCEPT ![t] = v]
            /\ hist' = Append(hist, <<v, b>>)
    /\ nrec' = [nrec EXCEPT ![t] = @ + 1]
    /\ wpc' = [wpc EXCEPT ![t] = "count"]
    /\ Noisy
    /\ UNCHANGED <<bounds, sampleCount, sampleSum, rpc, rbuckets, rsum, rcount>>

\* sample_count_.increment(1)
RecordCount(t) ==
    /\ wpc[t] = "count"
    /\ sampleCount' = sampleCount + 1
    /\ wpc' = [wpc EXCEPT ![t] = "sum"]
    /\ Noisy
    /\ UNCHANGED <<bounds, counts, sampleSum, wval, nrec, hist, rpc, rbuckets,
                   rsum, rcount>>

\* sample_sum_.increment(val): a record() that forgets the sum.
RecordSumSkip(t) ==
    /\ wpc[t] = "sum"
    /\ wpc' = [wpc EXCEPT ![t] = "idle"]
    /\ Noisy
    /\ UNCHANGED <<bounds, counts, sampleCount, sampleSum, wval, nrec, hist,
                   rpc, rbuckets, rsum, rcount>>

\* sample_sum_.increment(val)
RecordSum(t) ==
    /\ wpc[t] = "sum"
    /\ sampleSum' = sampleSum + wval[t]
    /\ wpc' = [wpc EXCEPT ![t] = "idle"]
    /\ Noisy
    /\ UNCHANGED <<bounds, counts, sampleCount, wval, nrec, hist, rpc,
                   rbuckets, rsum, rcount>>

(***************************************************************************)
(* get_metric: get_value() copies the buckets reading one counter at a    *)
(* time, then sample_sum_.get_value(), then sample_count_.get_value().    *)
(***************************************************************************)
ReadBegin ==
    /\ rpc = "idle"
    /\ rpc' = "buckets" /\ rbuckets' = <<>>
    /\ rquiet' = \A t \in Threads : wpc[t] = "idle"
    /\ UNCHANGED <<bounds, counts, sampleCount, sampleSum, wpc, wval, nrec,
                   hist, rsum, rcount>>

ReadBucket ==
    /\ rpc = "buckets"
    /\ rbuckets' = Append(rbuckets, counts[Len(rbuckets)])
    /\ rpc' = IF Len(rbuckets) + 1 < NumBuckets THEN "buckets" ELSE "sum"
    /\ UNCHANGED <<bounds, counts, sampleCount, sampleSum, wpc, wval, nrec,
                   hist, rsum, rcount, rquiet>>

ReadSum ==
    /\ rpc = "sum"
    /\ rsum' = sampleSum /\ rpc' = "count"
    /\ UNCHANGED <<bounds, counts, sampleCount, sampleSum, wpc, wval, nrec,
                   hist, rbuckets, rcount, rquiet>>

ReadCount ==
    /\ rpc = "count"
    /\ rcount' = sampleCount /\ rpc' = "done"
    /\ UNCHANGED <<bounds, counts, sampleCount, sampleSum, wpc, wval, nrec,
                   hist, rbuckets, rsum, rquiet>>

\* The exporter has consumed the sample.
ReadEnd ==
    /\ rpc = "done"
    /\ rpc' = "idle" /\ rbuckets' = <<>> /\ rsum' = 0 /\ rcount' = 0
    /\ UNCHANGED <<bounds, counts, sampleCount, sampleSum, wpc, wval, nrec,
                   hist, rquiet>>

Next ==
    \/ \E t \in Threads : RecordBucket(t) \/ RecordCount(t) \/ RecordSum(t)
    \/ ReadBegin \/ ReadBucket \/ ReadSum \/ ReadCount \/ ReadEnd

Spec == Init /\ [][Next]_vars

-----------------------------------------------------------------------------
SumSeq(s) ==
    LET RECURSIVE S(_)
        S(i) == IF i = 0 THEN 0 ELSE S(i - 1) + s[i]
    IN S(Len(s))

RecordedValues == [i \in DOMAIN hist |-> hist[i][1]]

(***************************************************************************)
(* record(v) counts v in the first bucket whose upper bound exceeds v      *)
(* (spec.md 4: "increments the first bucket whose upper bound exceeds v"). *)
(* The binary search finds that bucket only if the bounds the factory     *)
(* produced are increasing.                                                *)
(***************************************************************************)
RecordedInFirstExceedingBucket ==
    \A i \in DOMAIN hist :
        LET v == hist[i][1]  b == hist[i][2]
        IN /\ b \in BucketIds
           /\ v < Upper(b)
           /\ \A c \in 0 .. (b - 1) : ~(v < Upper(c))

(***************************************************************************)
(* A get_metric that no record() call overlapped reports a consistent      *)
(* sample: its buckets add up to its count, and its count and sum are     *)
(* those of the values recorded so far.                                    *)
(***************************************************************************)
QuietSnapshotConsistent ==
    (rpc = "done" /\ rquiet) =>
        /\ SumSeq(rbuckets) = rcount
        /\ rcount = Len(hist)
        /\ rsum = SumSeq(RecordedValues)

(***************************************************************************)
(* record() never increments past the last bucket: the search always      *)
(* finds a bucket, the catch-all at worst.                                 *)
(***************************************************************************)
NoRecordPastEnd == \A i \in DOMAIN hist : hist[i][2] \in BucketIds

=============================================================================
