---------------------------- MODULE MCAskSession ---------------------------
(* Model checking of AskSession. *)
EXTENDS AskSession, TLC

(* Request threads are interchangeable. Used by runs without liveness only. *)
Symmetry == Permutations(Threads)

=============================================================================
