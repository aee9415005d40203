----------------------------- MODULE MCJobLane -----------------------------
(* Model checking of JobLane: single jobs and comparisons on a small lane. *)
EXTENDS JobLane, TLC

(* Comparison ids are interchangeable. Used by runs without liveness only. *)
Symmetry == Permutations(Comparisons)

=============================================================================
