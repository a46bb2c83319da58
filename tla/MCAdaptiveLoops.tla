-------------------------- MODULE MCAdaptiveLoops --------------------------
(* Two threads, two executions; every adaptive schedule.                   *)
EXTENDS AdaptiveLoops

AllSchedules == {"awf", "awf_b", "awf_c", "awf_d", "awf_e", "bold", "af", "af_a"}
===========================================================================
