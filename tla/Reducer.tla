------------------------------- MODULE Reducer -------------------------------
(***************************************************************************)
(* The value path of a Reducer<T, Op, InvOp> (src/tally/impl/reducer.h)    *)
(* and of the classes built on it: Counter (counter.h, AddTo/MinusFrom,   *)
(* identity T()), AdderStatus (status.h, the same ops), MaxerGauge and    *)
(* MaxerStatus (gauge.h, status.h, MaxTo, identity numeric_limits<T>::    *)
(* min()) and MinerGauge and MinerStatus (MinTo, identity numeric_limits  *)
(* <T>::max()).                                                            *)
(*                                                                         *)
(* operator<< finds or creates the calling thread's agent and applies Op  *)
(* to its element; get_value() combines the agents, reset() resets them,  *)
(* get_sampler() attaches the sampler a Window uses.  The combiner        *)
(* (impl/combiner.h) is not in src/: as in AverageGauge its operations are *)
(* modelled from spec.md section 4.1.  The constructor passes the same    *)
(* identity as the global result's and the agents' initial value; a new   *)
(* agent is linked into the combiner's list under the combiner lock, and  *)
(* an element's modify is one atomic step of its own thread.              *)
(*                                                                         *)
(* T is an integral type here; LimitsMin and LimitsMax stand for          *)
(* numeric_limits<T>::min() and max().  Sums stay far inside T's range at *)
(* these bounds, so + is not reduced modulo 2^64.                         *)
(***************************************************************************)
EXTENDS Integers, Sequences, Folds

CONSTANTS
    Class,          \* the class the reducer was constructed as
    Threads,        \* threads calling operator<<
    Values,         \* values they pass
    LimitsMin,      \* numeric_limits<T>::min()
    LimitsMax,      \* numeric_limits<T>::max()
    MaxWrites       \* bound on operator<< calls, all threads together

\* The Op template argument of each class's Reducer base.
OpOf(c) ==
    CASE c \in {"counter", "adderstatus"} -> "AddTo"
      [] c \in {"maxergauge", "maxerstatus"} -> "MaxTo"
      [] c \in {"minergauge", "minerstatus"} -> "MinTo"

Op == OpOf(Class)

\* The identity each constructor passes to Reducer(attr, identity).
Identity ==
    CASE Op = "AddTo" -> 0
      [] Op = "MaxTo" -> LimitsMin
      [] Op = "MinTo" -> LimitsMax

\* InvOp is detail::VoidOp for the Maxer and Miner classes.
VoidInvOp == Op # "AddTo"

\* AddTo (lhs += rhs), MaxTo (if (lhs < rhs) lhs = rhs) and MinTo (if
\* (rhs < lhs) lhs = rhs): the new value of lhs.
Apply(lhs, rhs) ==
    CASE Op = "AddTo" -> lhs + rhs
      [] Op = "MaxTo" -> IF lhs < rhs THEN rhs ELSE lhs
      [] Op = "MinTo" -> IF rhs < lhs THEN rhs ELSE lhs

VARIABLES
    linked,     \* threads whose agent is in the combiner's list
    agent,      \* agent[t]: the element of t's agent (if linked)
    gresult,    \* the combiner's global result (retired agents)
    tstate,     \* tstate[t]: "live" | "exited"
    nwrites,    \* operator<< calls so far
    sampler,    \* _sampler != nullptr
    cpc,        \* the reader: "idle" | "walk" (combine_agents under the lock)
    cacc,       \* combine_agents' accumulator
    cleft,      \* agents combine_agents has not folded yet
    cfrom,      \* ghost: cfrom[t] = Len(since[t]) when combine_agents began
    since       \* ghost: since[t], the values t wrote since the last reset

vars == <<linked, agent, gresult, tstate, nwrites, sampler, cpc, cacc, cleft, cfrom,
          since>>

TypeOK ==
    /\ linked \subseteq Threads /\ agent \in [Threads -> Int]
    /\ gresult \in Int
    /\ tstate \in [Threads -> {"live", "exited"}]
    /\ nwrites \in 0 .. MaxWrites
    /\ sampler \in BOOLEAN
    /\ cpc \in {"idle", "walk"} /\ cleft \subseteq Threads
    /\ since \in [Threads -> Seq(Values)]

\* Reducer(attr, identity): AgentCombiner(identity, identity, op).
Init ==
    /\ linked = {} /\ agent = [t \in Threads |-> Identity]
    /\ gresult = Identity
    /\ tstate = [t \in Threads |-> "live"]
    /\ nwrites = 0
    /\ sampler = FALSE
    /\ cpc = "idle" /\ cacc = Identity /\ cleft = {}
    /\ cfrom = [t \in Threads |-> 0]
    /\ since = [t \in Threads |-> <<>>]

\* The combiner lock is free when no combine_agents walk holds it.
LockFree == cpc = "idle"

-----------------------------------------------------------------------------
(***************************************************************************)
(* operator<<: get_or_create_tls_agent (creating the agent, with the      *)
(* identity as its element, links it under the combiner lock), then       *)
(* agent->element.modify(op, value).                                      *)
(***************************************************************************)
Write(t, x) ==
    /\ tstate[t] = "live" /\ nwrites < MaxWrites
    /\ t \notin linked => LockFree
    /\ linked' = linked \cup {t}
    /\ agent' = [agent EXCEPT ![t] = Apply(@, x)]
    /\ since' = [since EXCEPT ![t] = Append(@, x)]
    /\ nwrites' = nwrites + 1
    /\ UNCHANGED <<gresult, tstate, sampler, cpc, cacc, cleft, cfrom>>

\* A retired agent dropped without commit_and_clear.
ThreadExitNoCommit(t) ==
    /\ tstate[t] = "live" /\ LockFree
    /\ linked' = linked \ {t}
    /\ tstate' = [tstate EXCEPT ![t] = "exited"]
    /\ agent' = [agent EXCEPT ![t] = Identity]
    /\ UNCHANGED <<gresult, nwrites, sampler, cpc, cacc, cleft, cfrom, since>>

\* Thread exit (spec-modelled): under the lock, commit_and_clear folds the
\* agent's element into the global result and the agent is unlinked.
ThreadExit(t) ==
    /\ tstate[t] = "live" /\ LockFree
    /\ gresult' = IF t \in linked THEN Apply(gresult, agent[t]) ELSE gresult
    /\ agent' = [agent EXCEPT ![t] = Identity]
    /\ linked' = linked \ {t}
    /\ tstate' = [tstate EXCEPT ![t] = "exited"]
    /\ UNCHANGED <<nwrites, sampler, cpc, cacc, cleft, cfrom, since>>

\* get_sampler: create and schedule the sampler on first use.
GetSampler ==
    /\ ~sampler
    /\ sampler' = TRUE
    /\ UNCHANGED <<linked, agent, gresult, tstate, nwrites, cpc, cacc, cleft,
                   cfrom, since>>

\* A walk that starts from the identity rather than the global result.
CombineBeginFromIdentity ==
    /\ cpc = "idle"
    /\ ~(VoidInvOp /\ sampler)
    /\ cpc' = "walk" /\ cacc' = Identity
    /\ cleft' = linked
    /\ cfrom' = [t \in Threads |-> Len(since[t])]
    /\ UNCHANGED <<linked, agent, gresult, tstate, nwrites, sampler, since>>

(***************************************************************************)
(* get_value(): KCHECK that no Window's sampler is attached when InvOp is *)
(* VoidOp (the check aborts otherwise), then combine_agents: under the    *)
(* lock start from the global result and fold the linked agents one at a *)
(* time, while their owners keep modifying them.                          *)
(***************************************************************************)
CombineBegin ==
    /\ cpc = "idle"
    /\ ~(VoidInvOp /\ sampler)
    /\ cpc' = "walk" /\ cacc' = gresult
    /\ cleft' = linked
    /\ cfrom' = [t \in Threads |-> Len(since[t])]
    /\ UNCHANGED <<linked, agent, gresult, tstate, nwrites, sampler, since>>

CombineAgent(t) ==
    /\ cpc = "walk" /\ t \in cleft
    /\ cacc' = Apply(cacc, agent[t])
    /\ cleft' = cleft \ {t}
    /\ UNCHANGED <<linked, agent, gresult, tstate, nwrites, sampler, cpc, cfrom,
                   since>>

CombineEnd ==
    /\ cpc = "walk" /\ cleft = {}
    /\ cpc' = "idle" /\ cacc' = Identity
    /\ cfrom' = [t \in Threads |-> 0]
    /\ UNCHANGED <<linked, agent, gresult, tstate, nwrites, sampler, cleft,
                   since>>

\* reset() = reset_all_agents() (spec-modelled): under the lock, exchange
\* the global result and every linked element with the identity and
\* return what they held.
Reset ==
    /\ LockFree
    /\ gresult' = Identity
    /\ agent' = [t \in Threads |-> Identity]
    /\ since' = [t \in Threads |-> <<>>]
    /\ UNCHANGED <<linked, tstate, nwrites, sampler, cpc, cacc, cleft, cfrom>>

Next ==
    \/ \E t \in Threads :
          \/ \E x \in Values : Write(t, x)
          \/ ThreadExit(t)
          \/ CombineAgent(t)
    \/ GetSampler \/ CombineBegin \/ CombineEnd \/ Reset

Spec == Init /\ [][Next]_vars

-----------------------------------------------------------------------------
\* What a reducer over the values of the writes W (pairs <<t, i>>: the i-th
\* value t wrote since the last reset) should report: Op over them, and
\* the identity when there are none.
Reference(W) ==
    IF W = {} THEN Identity
    ELSE LET w0 == CHOOSE w \in W : TRUE
         IN MapThenFoldSet(LAMBDA v, acc : Apply(acc, v), since[w0[1]][w0[2]],
                           LAMBDA w : since[w[1]][w[2]],
                           LAMBDA S : CHOOSE w \in S : TRUE, W \ {w0})

\* The first k[t] writes of each thread t.
Prefixes(k) == UNION {{<<t, i>> : i \in 1 .. k[t]} : t \in Threads}

\* What the combiner holds: the global result folded with every linked agent.
Held ==
    MapThenFoldSet(LAMBDA v, acc : Apply(acc, v), gresult,
                   LAMBDA t : agent[t], LAMBDA S : CHOOSE t \in S : TRUE,
                   linked)

(***************************************************************************)
(* The combiner holds the reduction of exactly the values written since   *)
(* the last reset(): none is lost when its thread exits and its agent is  *)
(* retired, none survives a reset, and the identity the class passes is   *)
(* neutral for its Op, so it never shows through as a value of its own    *)
(* (numeric_limits<double>::min() for MaxerGauge<double> is not).         *)
(***************************************************************************)
HeldIsReference ==
    Held = Reference(Prefixes([t \in Threads |-> Len(since[t])]))

(***************************************************************************)
(* combine_agents runs beside the writers' modify: the value it returns   *)
(* is the reduction of, for every thread, a prefix of its writes that     *)
(* contains every write completed before get_value() began.  Writes by    *)
(* threads that exited before it are included through the global result.  *)
(***************************************************************************)
CombineLinearizable ==
    (cpc = "walk" /\ cleft = {}) =>
        \E k \in [Threads -> 0 .. MaxWrites] :
            /\ \A t \in Threads : cfrom[t] <= k[t] /\ k[t] <= Len(since[t])
            /\ cacc = Reference(Prefixes(k))
=============================================================================
