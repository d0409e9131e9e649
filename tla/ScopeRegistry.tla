---------------------------- MODULE ScopeRegistry ----------------------------
(***************************************************************************)
(* What ScopeBuilder::build() promises its callers, as an abstract        *)
(* specification: the scopes form a map from id to scope, and a call for  *)
(* a non-empty prefix returns the scope with the id it asks for, creating *)
(* and registering it first if there is none, all at one point between    *)
(* the call's start and its return.  A call may take effect at once       *)
(* (BuildAtomic) or start (Call) and take effect when it returns          *)
(* (Return); no other thread can tell its start apart from a stutter.     *)
(***************************************************************************)
EXTENDS ScopeNames

CONSTANTS
    Builders,       \* threads calling build(), sub_scope() or tagged()
    Requests,       \* [kind, parent, name, tags]: what one such call asks for
    MaxBuilds       \* calls per thread

VARIABLES
    aobjs,      \* the scopes allocated
    areg,       \* id -> scope
    apc,        \* apc[t]: "idle" | "busy" | "done"
    areq,       \* areq[t]: the request of t's current or last call
    ares,       \* ares[t]: what t's last call returned
    abuilds     \* abuilds[t]: calls t has made

avars == <<aobjs, areg, apc, areq, ares, abuilds>>

AInit ==
    /\ aobjs = Defaults
    /\ areg = NoScopes
    /\ apc = [t \in Builders |-> "idle"]
    /\ areq = [t \in Builders |-> CHOOSE rq \in Requests : TRUE]
    /\ ares = [t \in Builders |-> NullScope]
    /\ abuilds = [t \in Builders |-> 0]

\* The call takes effect: nullptr for an empty prefix, else the scope with
\* the requested id, registered under that id if there was none.
TakeEffect(t, rq) ==
    LET s == Wanted(rq)
        found == GetScope(areg, s.id)
        k == Len(aobjs) + 1
    IN /\ apc' = [apc EXCEPT ![t] = "done"]
       /\ IF BuildPrefix(rq) = <<>> \/ found # NullScope
            THEN /\ ares' = [ares EXCEPT ![t] = IF BuildPrefix(rq) = <<>> THEN NullScope ELSE found]
                 /\ UNCHANGED <<aobjs, areg>>
            ELSE /\ aobjs' = Append(aobjs, s)
                 /\ areg' = (s.id :> k) @@ areg
                 /\ ares' = [ares EXCEPT ![t] = k]

Begin(t, rq) ==
    /\ apc[t] \in {"idle", "done"} /\ abuilds[t] < MaxBuilds
    /\ areq' = [areq EXCEPT ![t] = rq]
    /\ abuilds' = [abuilds EXCEPT ![t] = @ + 1]

BuildAtomic(t) == \E rq \in Requests : Begin(t, rq) /\ TakeEffect(t, rq)

Call(t) ==
    /\ \E rq \in Requests : Begin(t, rq)
    /\ apc' = [apc EXCEPT ![t] = "busy"]
    /\ UNCHANGED <<aobjs, areg, ares>>

Return(t) ==
    /\ apc[t] = "busy"
    /\ TakeEffect(t, areq[t])
    /\ UNCHANGED <<areq, abuilds>>

ANext == \E t \in Builders : BuildAtomic(t) \/ Call(t) \/ Return(t)

ASpec == AInit /\ [][ANext]_avars

=============================================================================
