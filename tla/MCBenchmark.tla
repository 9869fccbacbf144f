---------------------------- MODULE MCBenchmark ----------------------------
(***************************************************************************)
(* The benchmark the submission service starts: 30 seconds, of which 3 are *)
(* warmup, 6 ramp (steps of 2), 12 peak, 6 burst and 3 cooldown.           *)
(***************************************************************************)
EXTENDS Benchmark

Durations == <<3, 6, 12, 6, 3>>

\* A shorter one with the same phases: the ramp has three steps.
ShortDurations == <<1, 2, 3, 2, 1>>
=============================================================================
