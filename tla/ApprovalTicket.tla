-------------------------- MODULE ApprovalTicket --------------------------
(***************************************************************************)
(* What the SQL review promises of one approval, without requests, stores  *)
(* or snapshots: it is asked for, granted or refused, may be withdrawn     *)
(* until it is spent, and shows rows once. "Each approval allows one       *)
(* execution. Rejected, stale and replayed revisions fail closed."         *)
(* (README.md)                                                             *)
(***************************************************************************)
EXTENDS Naturals

CONSTANT Ticket

VARIABLES
    right,      \* where each ticket stands
    uses        \* how often rows were shown for it

ticketVars == <<right, uses>>

Init ==
    /\ right = [r \in Ticket |-> "none"]
    /\ uses = [r \in Ticket |-> 0]

Moves(r, from, to) ==
    /\ right[r] \in from
    /\ right' = [right EXCEPT ![r] = to]
    /\ UNCHANGED uses

Ask(r) == Moves(r, {"none"}, "pending")
Grant(r) == Moves(r, {"pending"}, "approved")
Refuse(r) == Moves(r, {"pending", "approved"}, "rejected")
Spend(r) == Moves(r, {"approved"}, "consumed")

Show(r) ==
    /\ right[r] = "consumed"
    /\ uses[r] = 0
    /\ uses' = [uses EXCEPT ![r] = 1]
    /\ UNCHANGED right

Next == \E r \in Ticket : Ask(r) \/ Grant(r) \/ Refuse(r) \/ Spend(r) \/ Show(r)

Spec == Init /\ [][Next]_ticketVars

=============================================================================
