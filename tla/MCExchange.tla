----------------------------- MODULE MCExchange -----------------------------
(***************************************************************************)
(* Three interchangeable handler threads: a submission and two cancels, or *)
(* two submissions and a cancel, in every interleaving of their critical   *)
(* sections.  Symmetry is sound here, the run checks invariants only.      *)
(***************************************************************************)
EXTENDS Exchange

Symmetry == Permutations(Handler)
=============================================================================
