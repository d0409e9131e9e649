---------------------------- MODULE AverageGauge ----------------------------
(***************************************************************************)
(* AverageGauge (src/tally/gauge.h) over its AgentCombiner.                *)
(*                                                                         *)
(* Every writer thread owns one agent whose element is a single machine    *)
(* word packing a count and a two's complement sum:                       *)
(*     | num : WordBits - SumBits bits | sum : SumBits bits |              *)
(* operator<< loads the word, and in a compare_exchange_weak loop either   *)
(* adds (1, sample) to it or, when the count or the sum field would        *)
(* overflow, first commits the agent into the combiner's global Stat and   *)
(* restarts from zero.  Readers call get_value() (combine_agents: global   *)
(* plus every agent decoded by AddToStat) and reset() (reset_all_agents).  *)
(*                                                                         *)
(* The widths are scaled down: WordBits and SumBits stand for 64 and       *)
(* SUM_BIT_WIDTH = 44, IntBits for the 32 bits of `int` that a sample is  *)
(* clamped to.  All bit operations are modelled by what they do on words  *)
(* of WordBits bits.                                                       *)
(*                                                                         *)
(* The combiner (impl/combiner.h) is not part of src/; its operations are *)
(* modelled from spec.md section 4.1: commit_and_clear, combine_agents and *)
(* reset_all_agents exclude each other (one combiner lock), while an      *)
(* agent's owner writes its element without any lock.                     *)
(***************************************************************************)
EXTENDS Integers, Bitwise

CONSTANTS
    Threads,        \* writer threads, one agent each
    Inputs,         \* int64 samples a writer may pass to operator<<
    WordBits,       \* width of the agent element (64 in the code)
    SumBits,        \* SUM_BIT_WIDTH (44 in the code)
    IntBits,        \* width of `int` (32 in the code)
    MaxWrites       \* bound on operator<< calls, all threads together

ASSUME SumBits < WordBits /\ IntBits < SumBits

VARIABLES
    element,   \* element[t]: the packed word of t's agent
    global,    \* the combiner's Stat of retired / committed contributions
    pc,        \* pc[t]: "idle" | "loop" | "cas" | "exited"
    n,         \* n[t]: the local copy of the element operator<< compares with
    num, sum,  \* num[t], sum[t]: the fields operator<< computed from n[t]
    sample,    \* sample[t]: the clamped sample being added
    writes,    \* operator<< calls started so far
    rpc,       \* the reader: "idle" | "walk" (combine_agents holding the lock)
    racc,      \* the reader's accumulator
    rleft,     \* agents combine_agents has not folded yet
    rstart,    \* ghost: recorded count when combine_agents began
    recorded,  \* ghost: Stat of all samples whose CAS succeeded
    taken      \* ghost: Stat returned by all reset() calls

vars == <<element, global, pc, n, num, sum, sample, writes,
          rpc, racc, rleft, rstart, recorded, taken>>

-----------------------------------------------------------------------------
(* Word arithmetic.                                                        *)

Word == 0 .. (2^WordBits - 1)
MAX_SUM_PER_THREAD == 2^SumBits - 1
MAX_NUM_PER_THREAD == 2^(WordBits - SumBits) - 1
IntMax == 2^(IntBits - 1) - 1
IntMin == -(2^(IntBits - 1))

\* The signed value of an unsigned word (an int64 cast).
AsSigned(u) == IF u >= 2^(WordBits - 1) THEN u - 2^WordBits ELSE u
\* The word holding a signed value (a uint64 cast).
AsWord(i) == i % 2^WordBits

Stat(s, c) == [sum |-> s, num |-> c]
Zero == Stat(0, 0)
Plus(a, b) == Stat(a.sum + b.sum, a.num + b.num)

\* _get_sum, _get_num
GetSum(w) == w & MAX_SUM_PER_THREAD
GetNum(w) == w \div 2^SumBits

\* _extend_sign_bit: fill the bits above the sign bit of the sum field.
ExtendSignBit(s) ==
    AsSigned((AsWord((2^(WordBits - SumBits + 1) - 1)
                      * (2^(SumBits - 1) & s))) | s)

\* _get_complement: the low SumBits bits of a signed value.
GetComplement(i) == AsWord(i) & MAX_SUM_PER_THREAD

\* _compress: shifted count or-ed with the truncated sum, in one word.
Compress(c, s) == AsWord(c * 2^SumBits) | (AsWord(s) & MAX_SUM_PER_THREAD)

\* A plausible slip: the bound taken as the unsigned field maximum.
WillOverflowUnsignedBound(lhs, rhs) ==
    \/ lhs > 0 /\ rhs > 0 /\ lhs + rhs > MAX_SUM_PER_THREAD
    \/ lhs < 0 /\ rhs < 0 /\ lhs + rhs < -(MAX_SUM_PER_THREAD \div 2) - 1

\* _will_overflow
WillOverflow(lhs, rhs) ==
    \/ lhs > 0 /\ rhs > 0 /\ lhs + rhs > MAX_SUM_PER_THREAD \div 2
    \/ lhs < 0 /\ rhs < 0 /\ lhs + rhs < -(MAX_SUM_PER_THREAD \div 2) - 1

\* AddToStat: fold one packed element into a Stat.
AddToStat(st, w) == Stat(st.sum + ExtendSignBit(GetSum(w)), st.num + GetNum(w))

\* A clamp that forgets the underflow branch.
ClampUpperOnly(x) == IF x > IntMax THEN IntMax ELSE x

\* The int clamp at the top of operator<<.
Clamp(x) == IF x > IntMax THEN IntMax ELSE IF x < IntMin THEN IntMin ELSE x

-----------------------------------------------------------------------------
TypeOK ==
    /\ element \in [Threads -> Word]
    /\ n \in [Threads -> Word]
    /\ pc \in [Threads -> {"idle", "loop", "cas", "exited"}]
    /\ sample \in [Threads -> IntMin .. IntMax]
    /\ writes \in 0 .. MaxWrites
    /\ rpc \in {"idle", "walk"}
    /\ rleft \subseteq Threads
    /\ global.num \in Nat /\ recorded.num \in Nat

Init ==
    /\ element = [t \in Threads |-> 0]
    /\ global = Zero
    /\ pc = [t \in Threads |-> "idle"]
    /\ n = [t \in Threads |-> 0]
    /\ num = [t \in Threads |-> 0]
    /\ sum = [t \in Threads |-> 0]
    /\ sample = [t \in Threads |-> 0]
    /\ writes = 0
    /\ rpc = "idle" /\ racc = Zero /\ rleft = {} /\ rstart = 0
    /\ recorded = Zero /\ taken = Zero

\* The combiner lock is free when no combine_agents walk holds it.
LockFree == rpc = "idle"

(***************************************************************************)
(* operator<<, lines up to the do-loop: clamp, get_or_create_tls_agent,   *)
(* element.load(&n).  A fresh agent holds 0, the identity, so every agent *)
(* exists from the start.                                                 *)
(***************************************************************************)
Write(t) ==
    /\ pc[t] = "idle" /\ writes < MaxWrites
    /\ \E x \in Inputs : sample' = [sample EXCEPT ![t] = Clamp(x)]
    /\ n' = [n EXCEPT ![t] = element[t]]
    /\ pc' = [pc EXCEPT ![t] = "loop"]
    /\ writes' = writes + 1
    /\ UNCHANGED <<element, global, num, sum, rpc, racc, rleft, rstart,
                   recorded, taken>>

\* A check that only looks at the sum field.
OverflowsSumOnly(t) == WillOverflow(ExtendSignBit(GetSum(n[t])), sample[t])

\* The condition of the loop body: adding one more sample to the fields
\* decoded from n would overflow the count or the sum.
Overflows(t) ==
    \/ GetNum(n[t]) + 1 > MAX_NUM_PER_THREAD
    \/ WillOverflow(ExtendSignBit(GetSum(n[t])), sample[t])

\* The loop body when neither field overflows: decode n and go to the CAS.
Decode(t) ==
    /\ pc[t] = "loop"
    /\ ~Overflows(t)
    /\ num' = [num EXCEPT ![t] = GetNum(n[t])]
    /\ sum' = [sum EXCEPT ![t] = GetSum(n[t])]
    /\ pc' = [pc EXCEPT ![t] = "cas"]
    /\ UNCHANGED <<element, global, n, sample, writes, rpc, racc, rleft,
                   rstart, recorded, taken>>

\* commit_and_clear without waiting for the combiner lock.
CommitAndClearNoLock(t) ==
    /\ global' = AddToStat(global, element[t])
    /\ element' = [element EXCEPT ![t] = 0]

\* commit_and_clear (spec-modelled): under the combiner lock, fold the
\* agent's element into global and clear it.
CommitAndClear(t) ==
    /\ LockFree
    /\ global' = AddToStat(global, element[t])
    /\ element' = [element EXCEPT ![t] = 0]

\* The loop body when a field would overflow: commit_and_clear, then
\* sum = num = n = 0.
Flush(t) ==
    /\ pc[t] = "loop"
    /\ Overflows(t)
    /\ CommitAndClear(t)
    /\ num' = [num EXCEPT ![t] = 0]
    /\ sum' = [sum EXCEPT ![t] = 0]
    /\ n' = [n EXCEPT ![t] = 0]
    /\ pc' = [pc EXCEPT ![t] = "cas"]
    /\ UNCHANGED <<sample, writes, rpc, racc, rleft, rstart, recorded, taken>>

\* compare_exchange_weak(n, _compress(num + 1, sum + complement)): on
\* success operator<< returns; on failure n receives the current element
\* and the loop body runs again.  A spurious failure leaves n as it is,
\* which is the failure branch with an unchanged element.
Cas(t) ==
    /\ pc[t] = "cas"
    /\ IF element[t] = n[t]
         THEN /\ element' = [element EXCEPT ![t] =
                   Compress(num[t] + 1, sum[t] + GetComplement(sample[t]))]
              /\ pc' = [pc EXCEPT ![t] = "idle"]
              /\ recorded' = Plus(recorded, Stat(sample[t], 1))
              \* the locals of operator<< go out of scope
              /\ n' = [n EXCEPT ![t] = 0]
              /\ num' = [num EXCEPT ![t] = 0]
              /\ sum' = [sum EXCEPT ![t] = 0]
              /\ sample' = [sample EXCEPT ![t] = 0]
         ELSE /\ n' = [n EXCEPT ![t] = element[t]]
              /\ pc' = [pc EXCEPT ![t] = "loop"]
              /\ UNCHANGED <<element, recorded, num, sum, sample>>
    /\ UNCHANGED <<global, writes, rpc, racc, rleft, rstart, taken>>

\* Thread exit (spec-modelled): the agent is retired with commit-and-clear.
ThreadExit(t) ==
    /\ pc[t] = "idle"
    /\ CommitAndClear(t)
    /\ pc' = [pc EXCEPT ![t] = "exited"]
    /\ UNCHANGED <<n, num, sum, sample, writes, rpc, racc, rleft, rstart,
                   recorded, taken>>

(***************************************************************************)
(* get_value() = combine_agents() (spec-modelled): take the lock, start   *)
(* from global, fold the live agents one at a time, release the lock.     *)
(* Writers keep CAS-ing their elements while the walk is in progress.     *)
(***************************************************************************)
CombineBegin ==
    /\ rpc = "idle"
    /\ rpc' = "walk" /\ racc' = global /\ rleft' = Threads
    /\ rstart' = recorded.num
    /\ UNCHANGED <<element, global, pc, n, num, sum, sample, writes,
                   recorded, taken>>

CombineAgent ==
    /\ rpc = "walk"
    /\ \E t \in rleft :
         /\ racc' = AddToStat(racc, element[t])
         /\ rleft' = rleft \ {t}
    /\ UNCHANGED <<element, global, pc, n, num, sum, sample, writes, rpc,
                   rstart, recorded, taken>>

CombineEnd ==
    /\ rpc = "walk" /\ rleft = {}
    /\ rpc' = "idle" /\ racc' = Zero /\ rstart' = 0
    /\ UNCHANGED <<element, global, pc, n, num, sum, sample, writes,
                   rleft, recorded, taken>>

\* The Stat all contributions currently held by the combiner add up to:
\* global folded with every agent by AddToStat.
Held ==
    LET S[T \in SUBSET Threads] ==
          IF T = {} THEN global
          ELSE LET u == CHOOSE u \in T : TRUE
               IN AddToStat(S[T \ {u}], element[u])
    IN S[Threads]

\* reset() = reset_all_agents() (spec-modelled): under the lock, exchange
\* every element with 0 and global with the identity, returning the total.
ResetAllAgents ==
    /\ LockFree
    /\ taken' = Plus(taken, Held)
    /\ element' = [t \in Threads |-> 0]
    /\ global' = Zero
    /\ UNCHANGED <<pc, n, num, sum, sample, writes, rpc, racc, rleft,
                   rstart, recorded>>

Writer(t) == Write(t) \/ Decode(t) \/ Flush(t) \/ Cas(t) \/ ThreadExit(t)

Next ==
    \/ \E t \in Threads : Writer(t)
    \/ CombineBegin \/ CombineAgent \/ CombineEnd
    \/ ResetAllAgents

Spec == Init /\ [][Next]_vars

-----------------------------------------------------------------------------
(***************************************************************************)
(* No lost updates (spec.md section 8): global plus every agent decoded by *)
(* AddToStat plus everything reset() has returned equals, in count and in *)
(* sum, the samples whose compare_exchange succeeded.  This fails if the  *)
(* packed fields of operator<< ever wrap (a wrong _will_overflow bound or  *)
(* count check), if commit_and_clear is followed by a CAS of the old      *)
(* fields, or if a retired agent is not merged.                           *)
(***************************************************************************)
NoLostUpdates == Plus(Held, taken) = recorded

(***************************************************************************)
(* combine_agents runs concurrently with the writers' CAS loops: the count *)
(* it returns lies between the count recorded when it began and the count *)
(* recorded now, i.e. it never misses a sample that completed before the  *)
(* call and never sees one that has not completed.  Holds only when no   *)
(* commit_and_clear or reset moves a value while the walk is under way.  *)
(***************************************************************************)
CombineCountLinearizable ==
    (rpc = "walk" /\ rleft = {}) =>
        rstart <= racc.num + taken.num /\ racc.num + taken.num <= recorded.num

=============================================================================
