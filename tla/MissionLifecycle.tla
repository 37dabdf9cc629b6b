-------------------------- MODULE MissionLifecycle --------------------------
(***************************************************************************)
(* The Mission aggregate (v2/packages/mission-engine): the lifecycle table *)
(* and one operator per method of the aggregate.  A method that may raise  *)
(* is a pair: CanX(m) is the condition under which it returns, X(m) is the *)
(* mission it leaves behind.                                               *)
(*                                                                         *)
(* A plan is the sequence of its steps' "consequential" flags; the empty   *)
(* sequence is `plan is None' (a Plan has at least one step).  A mission's *)
(* step_results are kept as their number, since the driver only reads how  *)
(* many there are.  An approval request is known by the step whose gate it *)
(* was built for; step 0 with the decision "none" is `approval is None'.   *)
(***************************************************************************)
EXTENDS Naturals, Sequences

NonTerminal == {"created", "planned", "executing", "awaiting", "resumed"}
Terminal    == {"completed", "failed", "cancelled", "archived"}
Status      == NonTerminal \union Terminal

Legal == [s \in Status |->
    CASE s = "created"   -> {"planned", "cancelled", "failed"}
      [] s = "planned"   -> {"executing", "cancelled", "failed"}
      [] s = "executing" -> {"awaiting", "completed", "failed", "cancelled"}
      [] s = "awaiting"  -> {"resumed", "cancelled", "failed"}
      [] s = "resumed"   -> {"planned", "executing", "cancelled", "failed"}
      [] s = "archived"  -> {}
      [] OTHER           -> {"archived"}]

CanTransition(src, dst) == dst \in Legal[src]

-----------------------------------------------------------------------------

NoPlan == <<>>
IsPlan(p) == p \in Seq(BOOLEAN) /\ p # NoPlan

NoApproval == [step |-> 0, decision |-> "none"]
Approval   == [step : Nat, decision : {"none", "pending", "approved", "rejected"}]

Mission == [status   : Status,
            plan     : Seq(BOOLEAN),
            version  : Nat,
            results  : Nat,
            approval : Approval]

NewMission == [status   |-> "created",
               plan     |-> NoPlan,
               version  |-> 0,
               results  |-> 0,
               approval |-> NoApproval]

\* What a store returns for a mission that does not exist.
Absent == [NewMission EXCEPT !.status = "absent"]

Request(step) == [step |-> step, decision |-> "pending"]

\* The step the driver takes next, and whether it is behind a human gate.
NextStep(m)   == m.results + 1
StepsLeft(m)  == m.results < Len(m.plan)
AtGate(m)     == StepsLeft(m) /\ m.plan[NextStep(m)]

HasActiveApproval(m) == m.approval.decision = "pending"
IsApproved(m)        == m.approval.decision = "approved"
IsTerminal(m)        == m.status \in Terminal

-----------------------------------------------------------------------------

Move(m, dst) == [m EXCEPT !.status = dst]

CanSetPlan(m) == m.status \in {"created", "resumed"}
SetPlan(m, p) == [m EXCEPT !.status = "planned", !.plan = p, !.version = 1]

CanBeginExecution(m) == m.plan # NoPlan /\ CanTransition(m.status, "executing")
BeginExecution(m)    == Move(m, "executing")

CanRecordStep(m) == m.status = "executing"
RecordStep(m)    == [m EXCEPT !.results = @ + 1]

CanComplete(m) == CanTransition(m.status, "completed")
Complete(m)    == Move(m, "completed")

CanAwaitApproval(m) == /\ ~HasActiveApproval(m)
                       /\ CanTransition(m.status, "awaiting")
\* [mutant] the pause is recorded without its request
AwaitApproval_Bare(m) == Move(m, "awaiting")
AwaitApproval(m)    == [m EXCEPT !.status = "awaiting",
                                 !.approval = Request(NextStep(m))]

CanResume(m) == CanTransition(m.status, "resumed")
Resume(m)    == Move(m, "resumed")

CanDecide(m, dst)       == HasActiveApproval(m) /\ CanTransition(m.status, dst)
Decide(m, dst, verdict) == [m EXCEPT !.status = dst, !.approval.decision = verdict]

CanApprove(m) == CanDecide(m, "resumed")
Approve(m)    == Decide(m, "resumed", "approved")
CanReject(m)  == CanDecide(m, "cancelled")
\* [mutant] a rejection has a status of its own
Reject_Status(m) == Decide(m, "rejected", "rejected")
Reject(m)     == Decide(m, "cancelled", "rejected")

CanReplan(m) == m.status = "resumed" /\ m.plan # NoPlan
Replan(m, p) == [m EXCEPT !.status = "planned", !.plan = p, !.version = @ + 1]

CanFail(m)    == CanTransition(m.status, "failed")
Fail(m)       == Move(m, "failed")
\* [mutant] cancelling is not checked against the lifecycle
CanCancel_Always(m) == TRUE
CanCancel(m)  == CanTransition(m.status, "cancelled")
Cancel(m)     == Move(m, "cancelled")
CanArchive(m) == IsTerminal(m) /\ CanTransition(m.status, "archived")
Archive(m)    == Move(m, "archived")

=============================================================================
