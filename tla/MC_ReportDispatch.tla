------------------------- MODULE MC_ReportDispatch -------------------------
(* A FlagStatus and a FlagGauge over numeric flags, a Counter and a        *)
(* PassiveStatus, reported by a Prometheus and a JSON sweep.               *)
EXTENDS ReportDispatch, TLC

CONSTANTS f1, f2, c1, s1

MCClass == (f1 :> "flag") @@ (f2 :> "flaggauge") @@ (c1 :> "counter") @@ (s1 :> "status")
MCFlagKind == (f1 :> "numeric") @@ (f2 :> "numeric") @@ (c1 :> "missing") @@ (s1 :> "missing")
=============================================================================
