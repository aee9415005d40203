--------------------------- MODULE ExclusiveLane ---------------------------
(***************************************************************************)
(* What the workbench promises about its single GPU lane, with no          *)
(* scheduler, dashboard or lock in sight: at most one model job uses the   *)
(* GPU at a time, and a job gets its turn at most once, whatever crashes.  *)
(* "Single native model-job lane" (jobs.py), "a restarted scheduler cannot *)
(* overlap an orphan GPU job" (worker.py).                                 *)
(***************************************************************************)
CONSTANT Job

VARIABLES
    inside,     \* the jobs now using the GPU
    done        \* the jobs whose turn is over, or will never come

laneVars == <<inside, done>>

Init ==
    /\ inside = {}
    /\ done = {}

(* A job that never had its turn starts using the free lane. *)
Enter(j) ==
    /\ inside = {}
    /\ j \notin done
    /\ inside' = {j}
    /\ UNCHANGED done

(* The job on the lane ends, by itself or killed. *)
Leave(j) ==
    /\ j \in inside
    /\ inside' = inside \ {j}
    /\ done' = done \union {j}

(* A worker is killed, or dies, while it still waits for the lane. *)
Forgo(j) ==
    /\ j \notin inside
    /\ j \notin done
    /\ done' = done \union {j}
    /\ UNCHANGED inside

Next == \E j \in Job : Enter(j) \/ Leave(j) \/ Forgo(j)

Spec == Init /\ [][Next]_laneVars

=============================================================================
