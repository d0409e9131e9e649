------------------------- MODULE MC_SamplerCollector -------------------------
(* Model-checking instance of SamplerCollector: the constants are model     *)
(* values given in the .cfg files; MaxForks = 0 gives the runs without fork(). *)
(* m1 is a Counter-like reducer, owning a window and a series sampler; m2  *)
(* is an atomic Gauge, owning a series sampler only.                        *)
EXTENDS SamplerCollector, TLC

CONSTANTS m1, m2

MCKind == (m1 :> "Adder") @@ (m2 :> "Gauge")
=============================================================================
