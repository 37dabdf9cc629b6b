--------------------------- MODULE GatedExecution ---------------------------
(***************************************************************************)
(* What the mission platform promises about running a plan, whichever      *)
(* component drives it: the executor is called for the steps of the plan   *)
(* in order and at most once each; a consequential step is called only     *)
(* while a human clearance for exactly that step is held, and the call     *)
(* uses the clearance up; nothing is called once the mission is over.      *)
(*                                                                         *)
(* `calls' is the sequence of positions the executor was called for,       *)
(* `cleared' the position the clearance is for (0 when there is none).     *)
(***************************************************************************)
EXTENDS Naturals, Sequences

CONSTANT Plans        \* the plans a mission may be given (non-empty sequences of flags)

VARIABLES plan, calls, cleared, over

vars == <<plan, calls, cleared, over>>

Position == Len(calls) + 1
InPlan   == Position <= Len(plan)
Gated    == InPlan /\ plan[Position]

Init == plan = <<>> /\ calls = <<>> /\ cleared = 0 /\ over = FALSE

\* A plan is stored, or replaced: a clearance given under the old one is void.
Adopt == /\ ~over
         /\ plan' \in Plans
         /\ cleared' = 0
         /\ UNCHANGED <<calls, over>>

\* A human clears the gate the mission is waiting at.
Clear == /\ ~over
         /\ Gated
         /\ cleared' = Position
         /\ UNCHANGED <<plan, calls, over>>

\* A clearance may be lost unused (its process died), never transferred.
Lapse == /\ cleared' = 0
         /\ UNCHANGED <<plan, calls, over>>

Call == /\ ~over
        /\ InPlan
        /\ Gated => cleared = Position
        /\ calls' = Append(calls, Position)
        /\ cleared' = 0
        /\ UNCHANGED <<plan, over>>

\* The mission completes, fails or is cancelled, for good (a client may cancel
\* the mission it was just re-planning).
Stop == /\ over' = TRUE
        /\ cleared' = 0
        /\ plan' \in Plans \union {plan}
        /\ UNCHANGED calls

Next == Adopt \/ Clear \/ Lapse \/ Call \/ Stop

Spec == Init /\ [][Next]_vars

=============================================================================
