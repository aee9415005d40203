--------------------------- MODULE MCAnswerMemory ---------------------------
(* Model checking of AnswerMemory. *)
EXTENDS AnswerMemory, TLC

(* Contexts are interchangeable; no liveness is checked. *)
Symmetry == Permutations(Contexts)

=============================================================================
