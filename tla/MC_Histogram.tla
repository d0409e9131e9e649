---------------------------- MODULE MC_Histogram ----------------------------
(* The Histogram spec over the layouts and values of HistogramCalls.       *)
EXTENDS Histogram, HistogramCalls
=============================================================================
