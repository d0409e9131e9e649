-------------------------------- MODULE Scope --------------------------------
(***************************************************************************)
(* The scope registry (src/tally/scope.cc, scope_builder.cc) as threads   *)
(* run it.  ScopeBuilder::build() (also behind sub_scope and tagged)      *)
(* looks the id up with get_scope under the registry's shared lock and,   *)
(* if it finds nothing, allocates a scope and calls add_scope under the   *)
(* unique lock, which returns a scope registered in the meantime instead. *)
(* The two locks are taken one after the other, so other threads' builds *)
(* run in between.  Any thread may build.                                  *)
(***************************************************************************)
EXTENDS ScopeNames

CONSTANTS
    Builders,       \* threads calling build(), sub_scope() or tagged()
    Requests,       \* [kind, parent, name, tags]: what one such call asks for
    MaxBuilds       \* calls per thread

VARIABLES
    objs,       \* objs[k]: [prefix, id, tags] of the k-th scope allocated
    registry,   \* ScopeInstance::_registry: id -> scope
    bpc,        \* bpc[t]: "idle" | "add" | "done"
    breq,       \* breq[t]: the request of t's current or last call
    bres,       \* bres[t]: the scope that call returned
    builds      \* builds[t]: calls t has made

scopeVars == <<objs, registry, bpc, breq, bres, builds>>

ASSUME MaxBuilds \in Nat

\* ScopeInstance::instance(): init_once has built the default scopes.
ScopeInit ==
    /\ objs = Defaults
    /\ registry = NoScopes
    /\ bpc = [t \in Builders |-> "idle"]
    /\ breq = [t \in Builders |-> CHOOSE rq \in Requests : TRUE]
    /\ bres = [t \in Builders |-> NullScope]
    /\ builds = [t \in Builders |-> 0]

-----------------------------------------------------------------------------
\* build(): nullptr for an empty prefix; otherwise normalise, compute the
\* id and return get_scope(id) if it finds one.
Build(t) ==
    /\ bpc[t] \in {"idle", "done"} /\ builds[t] < MaxBuilds
    /\ \E rq \in Requests :
         LET p == BuildPrefix(rq)
             found == GetScope(registry, Wanted(rq).id)
         IN /\ breq' = [breq EXCEPT ![t] = rq]
            /\ IF p # <<>> /\ found = NullScope
                 THEN bpc' = [bpc EXCEPT ![t] = "add"] /\ UNCHANGED bres
                 ELSE /\ bpc' = [bpc EXCEPT ![t] = "done"]
                      /\ bres' = [bres EXCEPT ![t] = IF p = <<>> THEN NullScope ELSE found]
    /\ builds' = [builds EXCEPT ![t] = @ + 1]
    /\ UNCHANGED <<objs, registry>>

\* add_scope that stores its argument without looking first.
AddScopeOverwrite(t) ==
    LET s == Wanted(breq[t])
        k == Len(objs) + 1
    IN /\ bpc[t] = "add"
       /\ objs' = Append(objs, s)
       /\ registry' = (s.id :> k) @@ registry
       /\ bres' = [bres EXCEPT ![t] = k]
       /\ bpc' = [bpc EXCEPT ![t] = "done"]
       /\ UNCHANGED <<breq, builds>>

\* `new Scope(...)' and add_scope under the unique lock: a scope another
\* thread registered since the lookup wins, and the new one is dropped.
AddScope(t) ==
    LET s == Wanted(breq[t])
        k == Len(objs) + 1
    IN /\ bpc[t] = "add"
       /\ IF s.id \in DOMAIN registry
            THEN /\ bres' = [bres EXCEPT ![t] = registry[s.id]]
                 /\ UNCHANGED <<objs, registry>>
            ELSE /\ objs' = Append(objs, s)
                 /\ registry' = (s.id :> k) @@ registry
                 /\ bres' = [bres EXCEPT ![t] = k]
       /\ bpc' = [bpc EXCEPT ![t] = "done"]
       /\ UNCHANGED <<breq, builds>>

-----------------------------------------------------------------------------
Registry == INSTANCE ScopeRegistry WITH
    aobjs <- objs, areg <- registry,
    apc <- [t \in Builders |-> IF bpc[t] = "add" THEN "busy" ELSE bpc[t]],
    areq <- breq, ares <- bres, abuilds <- builds

(***************************************************************************)
(* build() is linearizable: every behaviour of the two-lock build, seen   *)
(* through the mapping, is one of ScopeRegistry, where a call takes       *)
(* effect at a single point (its get_scope hit or its add_scope).          *)
(***************************************************************************)
ScopeRefinesRegistry == Registry!ASpec

=============================================================================
