------------------------- MODULE MC_VariableRegistry -------------------------
(***************************************************************************)
(* Two plain variables (1, 2) exposed in the scope "x" with separator "_" *)
(* under the requested names "a", "A", "b" and "a_q": "a" and "A"         *)
(* normalise to the same full name x_a (a duplicate), x_a and x_b hash to *)
(* different shards of four, so a re-expose can move a variable across the *)
(* sweep, and x_a_q is the name of the qps variable of a recorder exposed *)
(* as "a".  One LatencyRecorder (variables 101 .. 111) is exposed as    *)
(* "aL" (stripped to "a") or as "l" (invalid), with the percentile flags  *)
(* settable to 70, 80, 90 or 99.  The SigarMetric singleton has one gauge *)
(* (201) named "r" in the sys scope "s", called by two threads.           *)
(***************************************************************************)
EXTENDS ExposeClients

MCPlainVars == {1, 2}
MCSigarGauges == <<201>>
MCVars == MCPlainVars \cup {Sub(1, k) : k \in 1 .. NumSubs} \cup {201}
MCNames == {<<97>>, <<65>>, <<98>>, <<97, 95, 113>>}
MCPrefix == <<120>>
MCSeparator == <<95>>
MCRecPrefixes == {<<97, 76>>, <<108>>}
MCSigarNames == <<<<114>>>>
MCSysPrefix == <<115>>
=============================================================================
