----------------------- MODULE MissionLifecycleProofs -----------------------
(***************************************************************************)
(* What the methods of the Mission aggregate return, as lemmas: cited by   *)
(* the proofs about the engine and about the service.                      *)
(***************************************************************************)
EXTENDS MissionLifecycle, TLAPS

\* The terminal states are not among the others, and an absent mission is in none.
LEMMA Statuses ==
    /\ NonTerminal \cap Terminal = {}
    /\ NonTerminal \subseteq Status /\ Terminal \subseteq Status
    /\ "absent" \notin Status
    /\ Absent \notin Mission
    /\ Absent.status = "absent" /\ Absent.results = 0
    /\ Absent.plan = <<>> /\ Absent.approval = NoApproval
  BY DEF NonTerminal, Terminal, Status, Absent, NewMission, Mission, NoPlan

\* Moves the driver and the clients depend on: where each status comes from.
LEMMA Moves ==
    ASSUME NEW s \in Status
    PROVE  /\ CanTransition(s, "executing") => s \in {"planned", "resumed"}
           /\ CanTransition(s, "resumed")   => s = "awaiting"
           /\ CanTransition(s, "awaiting")  => s = "executing"
           /\ CanTransition(s, "completed") => s = "executing"
           /\ CanTransition(s, "cancelled") => s \in NonTerminal
           /\ CanTransition(s, "failed")    => s \in NonTerminal
           /\ CanTransition(s, "archived")  => s \in Terminal
  BY DEF CanTransition, Legal, Status, NonTerminal, Terminal

\* What a method that moves the status, and nothing else, returns.
LEMMA MovesReturnMissions ==
    ASSUME NEW m \in Mission
    PROVE  /\ BeginExecution(m) \in Mission /\ Resume(m) \in Mission
           /\ Complete(m) \in Mission /\ Fail(m) \in Mission
           /\ Cancel(m) \in Mission /\ Archive(m) \in Mission
<1>1. \A dst \in Status : Move(m, dst) \in Mission
  BY DEF Move, Mission
<1> QED
  BY <1>1 DEF BeginExecution, Resume, Complete, Fail, Cancel, Archive, Status, NonTerminal,
              Terminal

\* What the other methods return.
LEMMA MethodsReturnMissions ==
    ASSUME NEW m \in Mission
    PROVE  /\ \A p \in Seq(BOOLEAN) : SetPlan(m, p) \in Mission /\ Replan(m, p) \in Mission
           /\ RecordStep(m) \in Mission
           /\ AwaitApproval(m) \in Mission
           /\ Approve(m) \in Mission /\ Reject(m) \in Mission
<1> USE DEF Mission
<1>0. /\ {"planned", "awaiting", "resumed", "cancelled"} \subseteq Status
      /\ m.version + 1 \in Nat /\ m.results + 1 \in Nat
  BY DEF Status, NonTerminal, Terminal
<1>1. ASSUME NEW p \in Seq(BOOLEAN) PROVE SetPlan(m, p) \in Mission
  BY <1>0 DEF SetPlan
<1>2. ASSUME NEW p \in Seq(BOOLEAN) PROVE Replan(m, p) \in Mission
  BY <1>0 DEF Replan
<1>3. RecordStep(m) \in Mission
  BY <1>0 DEF RecordStep
<1>4. AwaitApproval(m) \in Mission
  <2>1. Request(NextStep(m)) \in Approval
    BY <1>0 DEF Request, NextStep, Approval
  <2> QED
    BY <1>0, <2>1 DEF AwaitApproval
<1>5. ASSUME NEW dst \in Status, NEW verdict \in {"approved", "rejected"}
      PROVE  Decide(m, dst, verdict) \in Mission
  <2>1. [m.approval EXCEPT !.decision = verdict] \in Approval
    BY DEF Approval
  <2> QED
    BY <2>1 DEF Decide
<1>6. Approve(m) \in Mission /\ Reject(m) \in Mission
  BY <1>0, <1>5 DEF Approve, Reject
<1> QED
  BY <1>1, <1>2, <1>3, <1>4, <1>6

\* What each method leaves of the mission it is called on.
LEMMA MoveFields ==
    ASSUME NEW m \in Mission, NEW dst \in Status
    PROVE  /\ Move(m, dst).status = dst
           /\ Move(m, dst).plan = m.plan
           /\ Move(m, dst).results = m.results
           /\ Move(m, dst).approval = m.approval
  BY DEF Move, Mission

LEMMA PlanFields ==
    ASSUME NEW m \in Mission, NEW p, NEW n \in {SetPlan(m, p), Replan(m, p)}
    PROVE  /\ n.status = "planned" /\ n.plan = p
           /\ n.results = m.results /\ n.approval = m.approval
  BY DEF SetPlan, Replan, Mission

LEMMA DecideFields ==
    ASSUME NEW m \in Mission
    PROVE  /\ Approve(m).status = "resumed" /\ Reject(m).status = "cancelled"
           /\ \A n \in {Approve(m), Reject(m)} :
                /\ n.plan = m.plan /\ n.results = m.results
                /\ ~HasActiveApproval(n) /\ n.approval.step = m.approval.step
           /\ IsApproved(Approve(m))
  BY DEF Approve, Reject, Decide, Mission, Approval, HasActiveApproval, IsApproved

LEMMA DriveFields ==
    ASSUME NEW m \in Mission
    PROVE  /\ RecordStep(m).status = m.status /\ RecordStep(m).plan = m.plan
           /\ RecordStep(m).approval = m.approval
           /\ RecordStep(m).results = m.results + 1
           /\ AwaitApproval(m).status = "awaiting"
           /\ AwaitApproval(m).plan = m.plan
           /\ AwaitApproval(m).results = m.results
           /\ AwaitApproval(m).approval = Request(NextStep(m))
  BY DEF RecordStep, AwaitApproval, Mission

\* Which status each method is legal in.
LEMMA Guards ==
    ASSUME NEW m \in Mission
    PROVE  /\ CanSetPlan(m) => m.status \in {"created", "resumed"}
           /\ CanBeginExecution(m) => m.status \in {"planned", "resumed"}
           /\ CanAwaitApproval(m) => m.status = "executing"
           /\ CanResume(m) => m.status = "awaiting"
           /\ CanApprove(m) => m.status = "awaiting" /\ HasActiveApproval(m)
           /\ CanReject(m) => m.status \in NonTerminal /\ HasActiveApproval(m)
           /\ CanComplete(m) => m.status = "executing"
           /\ CanFail(m) => m.status \in NonTerminal
           /\ CanCancel(m) => m.status \in NonTerminal
           /\ CanArchive(m) => m.status \in Terminal
<1>1. m.status \in Status
  BY DEF Mission
<1> QED
  BY <1>1, Moves DEF CanSetPlan, CanBeginExecution, CanAwaitApproval, CanResume, CanApprove,
     CanReject, CanDecide, CanComplete, CanFail, CanCancel, CanArchive, IsTerminal

=============================================================================
