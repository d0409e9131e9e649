---------------------------- MODULE ExposeClients ----------------------------
(***************************************************************************)
(* The registry of exposed variables together with the clients that      *)
(* expose groups of variables into it: plain variables exposed, hidden   *)
(* and destroyed by their own threads (VariableRegistry), LatencyRecorder *)
(* objects with the percentile flags that name their variables, the      *)
(* SigarMetric singleton called from several threads, and the reporter's *)
(* report() sweep.  Each client's variables are touched only by it; the  *)
(* clients meet in the shard maps, where a name one of them holds makes   *)
(* another's insert fail.  A failed KCHECK ends every thread.              *)
(*                                                                         *)
(* The recorders and the SigarMetric singleton never meet: their names    *)
(* are in different scopes.  The reporter only reads the maps, so it      *)
(* changes nothing a client does, and what report() does with a variable  *)
(* does not depend on which client exposed it.  A behaviour therefore     *)
(* runs one group (the variable client) beside the plain variables: the   *)
(* reporter ("plain"), the recorders and the flags ("recorder"), or the   *)
(* SigarMetric callers ("sigar").  A behaviour with several groups is an  *)
(* interleaving of such behaviours that no property tells apart.          *)
(***************************************************************************)
EXTENDS LatencyRecorder, SigarMetric

CONSTANT PlainVars   \* variables exposed through Variable::expose directly

ASSUME PlainVars \subseteq Vars /\ PlainVars \cap RecorderVars = {}

VARIABLE client   \* "plain" | "recorder" | "sigar": the group this behaviour runs

allVars == <<vars, recVars, sigarVars, client>>

ClientsTypeOK ==
    TypeOK /\ RecTypeOK /\ SigarTypeOK /\ client \in {"plain", "recorder", "sigar"}

ClientsInit ==
    Init /\ RecInit /\ SigarInit /\ client \in {"plain", "recorder", "sigar"}

\* What a step of each group leaves alone.
PlainFrame == UNCHANGED <<recVars, sigarVars, client>>
RecFrame == client = "recorder" /\ UNCHANGED <<sigarVars, client>>
SigarFrame == client = "sigar" /\ UNCHANGED <<recVars, client>>

\* After a failed KCHECK (aborted) the process is gone; the property that
\* looks at it fails in that state, and none looks further.
ClientsNext ==
    \/ \E v \in PlainVars : ExposeBegin(v) /\ PlainFrame
    \/ \E v \in PlainVars : ExposeInsert(v) /\ PlainFrame
    \/ \E v \in PlainVars : Hide(v) /\ PlainFrame
    \/ \E v \in PlainVars : Destroy(v) /\ PlainFrame
    \/ client = "plain" /\ ReportBegin /\ PlainFrame
    \/ client = "plain" /\ ReportShard /\ PlainFrame
    \/ client = "plain" /\ ReportEnd /\ PlainFrame
    \/ SetFlag /\ RecFrame
    \/ \E r \in Recorders : RecExpose(r) /\ RecFrame
    \/ \E r \in Recorders : RecExposeSub(r) /\ RecFrame
    \/ \E r \in Recorders : RecInsertSub(r) /\ RecFrame
    \/ \E r \in Recorders : RecHide(r) /\ RecFrame
    \/ \E r \in Recorders : RecHideSub(r) /\ RecFrame
    \/ \E t \in SigarThreads : SigarExpose(t) /\ SigarFrame
    \/ \E t \in SigarThreads : SigarLock(t) /\ SigarFrame
    \/ \E t \in SigarThreads : SigarExposeGauge(t) /\ SigarFrame
    \/ \E t \in SigarThreads : SigarInsertGauge(t) /\ SigarFrame
    \/ \E t \in SigarThreads : SigarHide(t) /\ SigarFrame
    \/ \E t \in SigarThreads : SigarHideGauge(t) /\ SigarFrame

ClientsSpec == ClientsInit /\ [][ClientsNext]_allVars

=============================================================================
