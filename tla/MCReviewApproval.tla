-------------------------- MODULE MCReviewApproval -------------------------
(* Model checking of ReviewApproval. *)
EXTENDS ReviewApproval, TLC

(* Handlers, snapshots and controls are interchangeable; no liveness is checked. *)
Symmetry == Permutations(Threads) \union Permutations(Snapshots)
                \union Permutations(Controls)

=============================================================================
