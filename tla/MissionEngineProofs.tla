------------------------ MODULE MissionEngineProofs -------------------------
(***************************************************************************)
(* Theorems about MissionEngine, for every set of plans and every bound on *)
(* plan versions: the invariants, that a terminal mission is final, and    *)
(* that the engine implements GatedExecution.                              *)
(***************************************************************************)
EXTENDS MissionEngine, MissionLifecycleProofs

-----------------------------------------------------------------------------
(* Type correctness. *)

LEMMA PlansAreSequences == \A p \in Plans : p \in Seq(BOOLEAN) /\ p # <<>>
  BY PlansAssumption

\* The types alone are not inductive: a drive must hold a mission, for the
\* lifecycle table says nothing of one that does not exist.
Typed == TypeOK /\ (drive.on => mission # Absent)

LEMMA TypedStep == Typed /\ [Next]_vars => Typed'
<1> SUFFICES ASSUME Typed, [Next]_vars PROVE Typed'
  OBVIOUS
<1> USE DEF Typed, TypeOK, Event, Idle
<1>m. mission # Absent => mission \in Mission
  OBVIOUS
<1>n. Mission \subseteq Mission \union {Absent} /\ Absent \notin Mission
  BY Statuses
<1>i. Idle \in [on : BOOLEAN, resuming : BOOLEAN, start : Nat, called : BOOLEAN]
  OBVIOUS
\* What an operation saves, or leaves in the client's hands, is typed as soon as the
\* mission is.
<1>v. ASSUME NEW m \in Mission, NEW event \in Event, Save(m, event)
      PROVE  /\ mission' \in Mission /\ stored' \in Mission /\ owed' \in Event
             /\ trail' = trail /\ gaps' \in [newest : BOOLEAN, step : BOOLEAN]
  BY <1>v DEF Save
<1>s. ASSUME NEW m \in Mission, NEW event \in Event, NEW after, Saves(m, event, after),
             after \in [on : BOOLEAN, resuming : BOOLEAN, start : Nat, called : BOOLEAN],
             UNCHANGED calls
      PROVE  Typed'
  <2>1. CASE SaveRaises(m) /\ drive' = Idle
    BY <1>s, <1>n, <2>1 DEF SaveRaises
  <2>2. CASE Save(m, event) /\ drive' = after
    BY <1>s, <1>v, <1>n, <2>2
  <2> QED
    BY <1>s, <2>1, <2>2 DEF Saves
<1>0. CASE UNCHANGED vars
  BY <1>0 DEF vars
<1>1. CASE Create
  <2>1. NewMission \in Mission
    BY DEF NewMission, Mission, Status, NonTerminal, NoPlan, Approval, NoApproval
  <2> QED
    BY <1>1, <1>v, <1>n, <2>1 DEF Create
<1>2. ASSUME NEW p \in Plans, PlanMission(p) PROVE Typed'
  <2>1. SetPlan(mission, p) \in Mission
    BY <1>2, <1>m, PlansAreSequences, MethodsReturnMissions DEF PlanMission, Calling
  <2> QED
    BY <1>2, <1>i, <1>s, <2>1 DEF PlanMission
<1>3. CASE ExecuteMission \/ ResumeMission
  <2>1. BeginExecution(mission) \in Mission /\ mission.results \in Nat
    BY <1>3, <1>m, MovesReturnMissions DEF ExecuteMission, ResumeMission, Calling, Mission
  <2>2. \A b \in BOOLEAN : Start(b) \in [on : BOOLEAN, resuming : BOOLEAN, start : Nat,
                                        called : BOOLEAN]
    BY <2>1 DEF Start
  <2> QED
    BY <1>3, <1>s, <2>1, <2>2 DEF ExecuteMission, ResumeMission
<1>4. CASE ApproveGate \/ RejectGate
  <2>1. Approve(mission) \in Mission /\ Reject(mission) \in Mission
    BY <1>4, <1>m, MethodsReturnMissions DEF ApproveGate, RejectGate, Calling
  <2> QED
    BY <1>4, <1>i, <1>s, <2>1 DEF ApproveGate, RejectGate
<1>5. CASE CancelMission \/ StepFails \/ Finish
  <2>1. /\ Cancel(mission) \in Mission /\ Fail(mission) \in Mission
        /\ Complete(mission) \in Mission
    BY <1>5, <1>m, MovesReturnMissions DEF CancelMission, StepFails, Finish, Calling, Driving
  <2> QED
    BY <1>5, <1>i, <1>s, <2>1 DEF CancelMission, StepFails, Finish
<1>6. CASE BareResume \/ ArchiveMission
  BY <1>6, <1>m, <1>n, MovesReturnMissions DEF BareResume, ArchiveMission, Unsaved, Calling
<1>7. ASSUME NEW p \in Plans, ReplanMission(p) PROVE Typed'
  BY <1>7, <1>m, <1>n, PlansAreSequences, MethodsReturnMissions
     DEF ReplanMission, Unsaved, Calling
<1>8. CASE Reload \/ EmitRaises
  <2>1. /\ owed' = "none"
        /\ gaps' = [newest |-> gaps.newest \/ owed # "none",
                    step   |-> gaps.step \/ owed = "StepCompleted"]
    BY <1>8 DEF Reload, EmitRaises, Drop
  <2>2. gaps' \in [newest : BOOLEAN, step : BOOLEAN]
    BY <2>1
  <2>3. /\ mission' \in {mission, stored} /\ drive' = Idle
        /\ UNCHANGED <<stored, trail, calls>>
    BY <1>8 DEF Reload, EmitRaises
  <2> QED
    BY <1>i, <2>1, <2>2, <2>3
<1>9. CASE EmitEvent
  BY <1>9 DEF EmitEvent
\* The steps of the drive loop.
<1>10. CASE Pause
  <2>1. AwaitApproval(mission) \in Mission
    BY <1>10, <1>m, MethodsReturnMissions DEF Pause, Driving
  <2> QED
    BY <1>10, <1>i, <1>s, <2>1 DEF Pause
<1>11. CASE PauseRaises
  BY <1>11 DEF PauseRaises
<1>12. CASE CallTool
  <2>1. mission.results + 1 \in Nat
    BY <1>12, <1>m DEF CallTool, Driving, Mission
  <2>2. calls' \in Seq(Nat)
    BY <1>12, <2>1 DEF CallTool, NextStep
  <2>3. /\ drive' \in [on : BOOLEAN, resuming : BOOLEAN, start : Nat, called : BOOLEAN]
        /\ drive.on /\ UNCHANGED <<mission, stored, owed, trail, gaps>>
    BY <1>12 DEF CallTool, Driving
  <2> QED
    BY <2>2, <2>3
<1>13. CASE StepSucceeds
  <2>1. RecordStep(mission) \in Mission
    BY <1>13, <1>m, MethodsReturnMissions DEF StepSucceeds, Driving
  <2>2. [drive EXCEPT !.called = FALSE] \in [on : BOOLEAN, resuming : BOOLEAN, start : Nat,
                                            called : BOOLEAN]
    OBVIOUS
  <2> QED
    BY <1>13, <1>s, <2>1, <2>2 DEF StepSucceeds
<1> QED
  BY <1>0, <1>1, <1>2, <1>3, <1>4, <1>5, <1>6, <1>7, <1>8, <1>9, <1>10, <1>11, <1>12,
     <1>13 DEF Next

\* The engine's state keeps its types: every method of the aggregate returns a
\* mission, and no path of the engine leaves anything else in the store.
THEOREM TypeCorrect == Spec => []TypeOK
<1>1. Init => Typed
  BY DEF Init, Typed, TypeOK, Event, Idle
<1>2. Typed => TypeOK
  BY DEF Typed
<1> QED
  BY <1>1, <1>2, TypedStep, PTL DEF Spec

-----------------------------------------------------------------------------
(* The inductive invariant. *)

\* A paused mission that can be decided, wherever it is held.
Decidable(m) == m.status = "awaiting" => /\ HasActiveApproval(m)
                                         /\ AtGate(m)
                                         /\ m.approval.step = NextStep(m)

\* What the client may hold of the stored mission, or be about to save: operations whose
\* save raised, and the methods that are never saved, have changed it.  It is never
\* behind the store, and it waits or is resumed only on the stored plan.
CopyOK(m) ==
    /\ m.plan \in Plans \union {NoPlan}
    /\ m.plan # stored.plan => m.plan \in Plans
    /\ stored.status \in Terminal => m.status \in Terminal
    /\ m.results # stored.results => /\ m.results = stored.results + 1
                                     /\ m.status \in Terminal \union {"executing"}
    /\ m.status \in {"awaiting", "resumed"} => m.plan = stored.plan
    /\ Decidable(m)
    /\ m.status = "resumed" /\ IsApproved(m) => AtGate(m)
    /\ m.status \notin Terminal \union {"executing"} => Len(calls) = m.results

CopyOfStored == /\ (mission = Absent) <=> (stored = Absent)
                /\ CopyOK(mission)
                /\ CopyOK(stored)
                /\ mission.results # stored.results => gaps.step

\* A drive works on the stored mission, which is executing.  The executor was called once
\* for every recorded step, and once more while its answer is outstanding.
DriveHoldsStored ==
    /\ drive.on => /\ mission = stored
                   /\ stored.status = "executing"
                   /\ drive.start <= stored.results
                   /\ Len(calls) = stored.results + (IF drive.called THEN 1 ELSE 0)
    /\ drive.called => drive.on

\* No event comes after the one of an end, and none before there is a mission.
OwedIsNewest == owed # "none" => stored # Absent /\ trail.last \notin Ends

IInv == /\ Typed
        /\ CopyOfStored
        /\ DriveHoldsStored
        /\ OwedIsNewest
        /\ TrailExplainsStore

\* A save that returns keeps the invariant, if what is saved may be held, the event tells
\* of its status and of its step, and a drive starts only on the progress of the calls.
LEMMA SaveKeeps ==
    ASSUME IInv, Typed', NEW m \in Mission, CopyOK(m),
           NEW event \in Event, Save(m, event), owed = "none", UNCHANGED calls,
           m.results = (IF event = "StepCompleted" THEN stored.results + 1
                                                  ELSE mission.results),
           event = "StepCompleted" => mission = stored,
           IF event = "none" THEN m.status = "executing" /\ stored \in Mission
                             ELSE m.status \in Explained(event),
           stored.status \notin Terminal,
           drive'.on => /\ m.status = "executing"
                        /\ drive'.start <= m.results
                        /\ Len(calls) = m.results,
           ~drive'.called
    PROVE  IInv'
<1>1. mission' = m /\ stored' = m /\ owed' = event /\ trail' = trail
  BY DEF Save
<1>2. /\ gaps'.step = gaps.step
      /\ gaps'.newest = (gaps.newest /\ event = "none")
  BY DEF Save, IInv, Typed, TypeOK
<1>n. /\ m.results \in Nat /\ trail.steps \in Nat /\ trail.last \in Event
      /\ m # Absent /\ stored.results \in Nat
  BY Statuses DEF IInv, Typed, TypeOK, Mission
<1>3. CopyOfStored'
  <2>1. CopyOK(m)'
    BY <1>1, <1>n DEF CopyOK
  <2> QED
    BY <1>1, <1>n, <2>1 DEF CopyOfStored
<1>4. DriveHoldsStored'
  BY <1>1, <1>n DEF DriveHoldsStored
<1>e. trail.last \notin Ends
  BY DEF IInv, TrailExplainsStore, Newest, Ends, Explained, Terminal
<1>6. OwedIsNewest'
  BY <1>1, <1>n, <1>e DEF OwedIsNewest
<1>5. TrailExplainsStore'
  <2>1. StepsTold = trail.steps
    BY DEF StepsTold
  <2>2. StepsTold' = IF event = "StepCompleted" THEN trail.steps + 1 ELSE trail.steps
    BY <1>1 DEF StepsTold
  <2>3. (StepsTold <= stored.results)' /\ (~gaps.step => StepsTold = stored.results)'
    BY <1>1, <1>2, <1>n, <2>1, <2>2 DEF IInv, TrailExplainsStore, CopyOfStored, CopyOK
  <2>4. CASE event # "none"
    BY <1>1, <2>3, <2>4 DEF TrailExplainsStore, Newest
  \* A silent start of execution: whatever was told last, the start may follow it.
  <2>5. CASE event = "none"
    <3>1. Newest' = trail.last /\ Newest = trail.last
      BY <1>1, <2>5 DEF Newest
    <3>3. ~gaps.newest => "executing" \in Explained(trail.last)
      <4>1. trail.last # "none" \/ gaps.newest
        BY <2>5, <3>1, Statuses DEF IInv, TrailExplainsStore, Explained, Mission
      <4> QED
        BY <1>n, <1>e, <4>1 DEF Ends, Explained, Event
    <3> QED
      BY <1>1, <1>2, <1>e, <2>3, <2>5, <3>1, <3>3 DEF TrailExplainsStore
  <2> QED
    BY <2>4, <2>5
<1> QED
  BY <1>3, <1>4, <1>5, <1>6 DEF IInv

\* A change that stays with the client keeps it, if the change may be held and a step that
\* it holds beyond the stored ones is on record as one whose event is missing.
LEMMA HeldKeeps ==
    ASSUME IInv, Typed', NEW m \in Mission, CopyOK(m),
           mission # Absent, mission' = m, UNCHANGED <<stored, owed, trail, calls>>,
           gaps'.newest = gaps.newest,
           gaps'.step = (gaps.step \/ m.results # mission.results),
           drive' = Idle \/ (UNCHANGED drive /\ ~drive.on)
    PROVE  IInv'
<1>1. CopyOfStored'
  <2>1. CopyOK(m)' /\ CopyOK(stored)'
    BY DEF CopyOK, IInv, CopyOfStored
  <2> QED
    BY <2>1, Statuses DEF IInv, CopyOfStored
<1>2. DriveHoldsStored'
  BY DEF IInv, DriveHoldsStored, Idle
<1>3. TrailExplainsStore'
  <2>1. StepsTold' = StepsTold /\ Newest' = Newest
    BY DEF StepsTold, Newest, Ends
  <2> QED
    BY <2>1 DEF IInv, TrailExplainsStore
<1> QED
  BY <1>1, <1>2, <1>3 DEF IInv, OwedIsNewest

LEMMA SavesKeep ==
    ASSUME IInv, Typed', NEW m \in Mission, CopyOK(m), mission # Absent,
           NEW event \in Event, NEW after, Saves(m, event, after),
           owed = "none", UNCHANGED calls,
           m.results = (IF event = "StepCompleted" THEN stored.results + 1
                                                  ELSE mission.results),
           event = "StepCompleted" => mission = stored,
           IF event = "none" THEN m.status = "executing"
                             ELSE m.status \in Explained(event),
           stored.status \notin Terminal,
           after.on => /\ m.status = "executing"
                       /\ after.start <= m.results
                       /\ Len(calls) = m.results,
           ~after.called
    PROVE  IInv'
<1>1. stored \in Mission
  BY DEF IInv, CopyOfStored, Typed, TypeOK
<1>2. CASE Save(m, event) /\ drive' = after
  BY <1>1, <1>2, SaveKeeps
<1>3. CASE SaveRaises(m) /\ drive' = Idle
  <2>1. /\ gaps'.newest = gaps.newest
        /\ gaps'.step = (gaps.step \/ m.results # mission.results)
    BY <1>3 DEF SaveRaises, IInv, Typed, TypeOK
  <2> QED
    BY <1>3, <2>1, HeldKeeps DEF SaveRaises
<1> QED
  BY <1>2, <1>3 DEF Saves

\* A method that moves the status only makes a copy that may be held, if its status is
\* neither paused nor resumed.
LEMMA MovedCopy ==
    ASSUME IInv, mission \in Mission, NEW dst \in Terminal \union {"executing"},
           stored.status \in Terminal => dst \in Terminal
    PROVE  CopyOK(Move(mission, dst))
<1>1. /\ Move(mission, dst).status = dst /\ Move(mission, dst).plan = mission.plan
      /\ Move(mission, dst).results = mission.results
  BY MoveFields DEF Status, NonTerminal
<1> QED
  BY <1>1 DEF IInv, CopyOfStored, CopyOK, Decidable, Terminal

LEMMA IInvStep == IInv /\ [Next]_vars => IInv'
<1> SUFFICES ASSUME IInv, [Next]_vars PROVE IInv'
  OBVIOUS
<1>t. Typed'
  BY TypedStep DEF IInv
<1>m. /\ mission # Absent => mission \in Mission /\ stored \in Mission
      /\ drive.on => mission \in Mission /\ mission # Absent
  BY DEF IInv, Typed, TypeOK, CopyOfStored
\* A client that may still change its copy holds one that is not over, and so is the store.
<1>l. mission.status \in NonTerminal => stored.status \notin Terminal
  BY Statuses DEF IInv, CopyOfStored, CopyOK
<1>i. ~Idle.on /\ ~Idle.called
  BY DEF Idle
<1>0. CASE UNCHANGED vars
  <2>1. CopyOfStored'
    BY <1>0 DEF vars, IInv, CopyOfStored, CopyOK
  <2> QED
    BY <1>0, <1>t, <2>1
       DEF vars, IInv, DriveHoldsStored, TrailExplainsStore, StepsTold, Newest, OwedIsNewest
<1>1. CASE Create
  <2>1. NewMission \in Mission /\ NewMission.status = "created" /\ NewMission.results = 0
    BY DEF NewMission, Mission, Status, NonTerminal, NoPlan, Approval, NoApproval
  <2>2. ~drive.on /\ ~drive.called
    BY <1>1, Statuses DEF Create, IInv, Typed, DriveHoldsStored
  <2>3. Len(calls) = 0 /\ mission.results = 0
    BY <1>1, Statuses DEF Create, IInv, CopyOfStored, CopyOK, Terminal
  <2>4. CopyOfStored'
    <3>1. CopyOK(NewMission)'
      BY <1>1, <2>1, <2>3
         DEF Create, Save, CopyOK, Decidable, Terminal, NewMission
    <3> QED
      BY <1>1, <2>1, <3>1, Statuses DEF Create, Save, CopyOfStored
  <2>5. DriveHoldsStored'
    BY <1>1, <2>2 DEF Create, DriveHoldsStored
  <2>6. TrailExplainsStore'
    <3>1. StepsTold' = trail.steps /\ Newest' = "Created" /\ stored'.status = "created"
          /\ stored'.results = 0 /\ gaps'.step = gaps.step
      BY <1>1, <2>1 DEF Create, Save, StepsTold, Newest, IInv, Typed, TypeOK
    <3>2. trail.steps = 0
      BY <1>1, <2>3, Statuses
         DEF Create, IInv, Typed, TypeOK, OwedIsNewest, TrailExplainsStore, StepsTold
    <3> QED
      BY <3>1, <3>2 DEF TrailExplainsStore, Explained
  <2>7. OwedIsNewest'
    <3>1. trail.last \notin Ends
      BY <1>1, Statuses DEF Create, IInv, OwedIsNewest, TrailExplainsStore, Newest, Ends, Explained
    <3> QED
      BY <1>1, <2>1, <3>1, Statuses DEF Create, Save, OwedIsNewest
  <2> QED
    BY <1>t, <2>4, <2>5, <2>6, <2>7 DEF IInv
<1>2. ASSUME NEW p \in Plans, PlanMission(p) PROVE IInv'
  <2>1. /\ mission \in Mission /\ mission.status \in {"created", "resumed"}
        /\ owed = "none" /\ mission # Absent
    BY <1>2, <1>m, Guards DEF PlanMission, Calling
  <2>2. /\ SetPlan(mission, p).status = "planned" /\ SetPlan(mission, p).plan = p
        /\ SetPlan(mission, p).results = mission.results
        /\ SetPlan(mission, p) \in Mission
    <3>1. SetPlan(mission, p) \in Mission
      BY <2>1, PlansAreSequences, MethodsReturnMissions
    <3> QED
      BY <2>1, <3>1, PlanFields
  <2>3. CopyOK(SetPlan(mission, p))
    BY <2>1, <2>2 DEF IInv, CopyOfStored, CopyOK, Decidable, Terminal
  <2> QED
    BY <1>2, <1>t, <1>l, <1>i, <2>1, <2>2, <2>3, SavesKeep
       DEF PlanMission, Explained, Event, NonTerminal
\* A drive starts on the mission it has just saved.
<1>3. CASE ExecuteMission \/ ResumeMission
  <2>1. /\ mission \in Mission /\ mission.status \in {"planned", "resumed"}
        /\ owed = "none" /\ mission # Absent /\ UNCHANGED calls
    BY <1>3, <1>m, Guards DEF ExecuteMission, ResumeMission, Calling
  <2>2. /\ BeginExecution(mission).status = "executing"
        /\ BeginExecution(mission).results = mission.results
        /\ BeginExecution(mission) \in Mission
    BY <2>1, MoveFields, MovesReturnMissions DEF BeginExecution, Status, NonTerminal
  <2>3. stored.status \notin Terminal
    BY <1>l, <2>1 DEF NonTerminal
  <2>4. CopyOK(BeginExecution(mission))
    BY <2>1, <2>3, MovedCopy DEF BeginExecution
  <2>5. Len(calls) = mission.results
    BY <2>1 DEF IInv, CopyOfStored, CopyOK, Terminal
  <2>6. \A b \in BOOLEAN : Start(b).start <= mission.results /\ ~Start(b).called
    BY <2>1 DEF Start, Mission
  <2>7. CASE ExecuteMission
    BY <1>t, <2>1, <2>2, <2>3, <2>4, <2>5, <2>6, <2>7, SavesKeep DEF ExecuteMission, Event
  <2>8. CASE ResumeMission
    BY <1>t, <2>1, <2>2, <2>3, <2>4, <2>5, <2>6, <2>8, SavesKeep
       DEF ResumeMission, Event, Explained
  <2> QED
    BY <1>3, <2>7, <2>8
<1>4. CASE ApproveGate \/ RejectGate
  <2>1. /\ mission \in Mission /\ owed = "none" /\ mission # Absent /\ UNCHANGED calls
        /\ mission.status \in NonTerminal
        /\ ApproveGate => mission.status = "awaiting"
    BY <1>4, <1>m, Guards DEF ApproveGate, RejectGate, Calling, NonTerminal
  <2>2. /\ Approve(mission) \in Mission /\ Reject(mission) \in Mission
        /\ Approve(mission).status = "resumed" /\ Reject(mission).status = "cancelled"
        /\ \A n \in {Approve(mission), Reject(mission)} :
             n.plan = mission.plan /\ n.results = mission.results
    BY <2>1, DecideFields, MethodsReturnMissions
  <2>3. CASE ApproveGate
    <3>1. CopyOK(Approve(mission))
      <4>1. AtGate(mission)
        BY <2>1, <2>3 DEF IInv, CopyOfStored, CopyOK, Decidable
      <4>2. AtGate(Approve(mission))
        BY <2>2, <4>1 DEF AtGate, StepsLeft, NextStep
      <4> QED
        BY <2>1, <2>2, <2>3, <4>2 DEF IInv, CopyOfStored, CopyOK, Decidable, Terminal
    <3> QED
      BY <1>t, <1>l, <1>i, <2>1, <2>2, <2>3, <3>1, SavesKeep
         DEF ApproveGate, Explained, Event
  <2>4. CASE RejectGate
    <3>1. CopyOK(Reject(mission))
      BY <2>2 DEF IInv, CopyOfStored, CopyOK, Decidable, Terminal
    <3> QED
      BY <1>t, <1>l, <1>i, <2>1, <2>2, <2>4, <3>1, SavesKeep DEF RejectGate, Explained, Event
  <2> QED
    BY <1>4, <2>3, <2>4
\* The mission ends: the client cancels it, a step fails, or the loop is through.
<1>5. CASE CancelMission \/ StepFails \/ Finish
  <2>1. /\ mission \in Mission /\ owed = "none" /\ mission # Absent /\ UNCHANGED calls
        /\ mission.status \in NonTerminal
    BY <1>5, <1>m, Guards
       DEF CancelMission, StepFails, Finish, Calling, Driving, NonTerminal
  <2>2. ASSUME NEW dst \in {"cancelled", "failed", "completed"}
        PROVE  /\ CopyOK(Move(mission, dst)) /\ Move(mission, dst) \in Mission
               /\ Move(mission, dst).status = dst
               /\ Move(mission, dst).results = mission.results
    <3>1. dst \in Terminal /\ dst \in Status
      BY DEF Terminal, Status
    <3>2. Move(mission, dst) \in Mission
      BY <2>1, <3>1 DEF Move, Mission
    <3> QED
      BY <2>1, <3>1, <3>2, MovedCopy, MoveFields
  <2>3. /\ Cancel(mission) = Move(mission, "cancelled")
        /\ Fail(mission) = Move(mission, "failed")
        /\ Complete(mission) = Move(mission, "completed")
    BY DEF Cancel, Fail, Complete
  <2>4. CASE CancelMission
    BY <1>t, <1>l, <1>i, <2>1, <2>2, <2>3, <2>4, SavesKeep DEF CancelMission, Explained, Event
  <2>5. CASE StepFails
    BY <1>t, <1>l, <1>i, <2>1, <2>2, <2>3, <2>5, SavesKeep DEF StepFails, Explained, Event
  <2>6. CASE Finish
    BY <1>t, <1>l, <1>i, <2>1, <2>2, <2>3, <2>6, SavesKeep DEF Finish, Explained, Event
  <2> QED
    BY <1>5, <2>4, <2>5, <2>6
\* The unsaved methods.
<1>6. CASE BareResume \/ ArchiveMission \/ \E p \in Plans : ReplanMission(p)
  <2>1. ASSUME NEW m \in Mission, CopyOK(m), Unsaved(m), mission # Absent, ~drive.on,
               m.results = mission.results
        PROVE  IInv'
    <3>1. gaps'.newest = gaps.newest /\ gaps'.step = (gaps.step \/ m.results # mission.results)
      BY <2>1 DEF Unsaved, IInv, Typed, TypeOK
    <3> QED
      BY <1>t, <2>1, <3>1, HeldKeeps DEF Unsaved
  <2>2. mission \in Mission /\ mission # Absent /\ ~drive.on
    BY <1>6, <1>m DEF BareResume, ArchiveMission, ReplanMission, Calling
  <2>3. CASE BareResume
    <3>1. mission.status = "awaiting"
      BY <2>2, <2>3, Guards DEF BareResume
    <3>2. /\ Resume(mission).status = "resumed" /\ Resume(mission).plan = mission.plan
          /\ Resume(mission).results = mission.results
          /\ Resume(mission).approval = mission.approval /\ Resume(mission) \in Mission
      BY <2>2, MoveFields, MovesReturnMissions DEF Resume, Status, NonTerminal
    <3>3. CopyOK(Resume(mission))
      BY <3>1, <3>2
         DEF IInv, CopyOfStored, CopyOK, Decidable, HasActiveApproval, IsApproved, Terminal
    <3> QED
      BY <2>1, <2>2, <2>3, <3>2, <3>3 DEF BareResume
  <2>4. CASE ArchiveMission
    <3>1. CopyOK(Archive(mission))
      BY <2>2, MovedCopy DEF Archive, Terminal
    <3>2. Archive(mission).results = mission.results /\ Archive(mission) \in Mission
      BY <2>2, MoveFields, MovesReturnMissions DEF Archive, Status, Terminal
    <3> QED
      BY <2>1, <2>2, <2>4, <3>1, <3>2 DEF ArchiveMission
  <2>5. ASSUME NEW p \in Plans, ReplanMission(p) PROVE IInv'
    <3>1. mission.status = "resumed"
      BY <2>5 DEF ReplanMission, CanReplan
    <3>2. /\ Replan(mission, p).status = "planned" /\ Replan(mission, p).plan = p
          /\ Replan(mission, p).results = mission.results /\ Replan(mission, p) \in Mission
      BY <2>2, PlanFields, PlansAreSequences, MethodsReturnMissions
    <3>3. CopyOK(Replan(mission, p))
      BY <3>1, <3>2 DEF IInv, CopyOfStored, CopyOK, Decidable, Terminal
    <3> QED
      BY <2>1, <2>2, <2>5, <3>2, <3>3 DEF ReplanMission
  <2> QED
    BY <1>6, <2>3, <2>4, <2>5
\* An event that is dropped: it was the newest one, and perhaps a step's.
<1>7. CASE Reload \/ EmitRaises
  <2>1. /\ owed' = "none" /\ UNCHANGED <<stored, trail, calls>> /\ drive' = Idle
        /\ mission' \in {mission, stored}
        /\ gaps'.newest = (gaps.newest \/ owed # "none")
        /\ gaps'.step = (gaps.step \/ owed = "StepCompleted")
    BY <1>7 DEF Reload, EmitRaises, Drop
  <2>2. CopyOfStored'
    <3>1. CopyOK(stored)' /\ CopyOK(mission)'
      BY <2>1 DEF IInv, CopyOfStored, CopyOK
    <3>2. (mission' = Absent) <=> (stored' = Absent)
      BY <2>1 DEF IInv, CopyOfStored
    <3> QED
      BY <2>1, <3>1, <3>2 DEF IInv, CopyOfStored
  <2>3. DriveHoldsStored'
    BY <1>i, <2>1 DEF DriveHoldsStored
  <2>4. TrailExplainsStore'
    <3>1. StepsTold' = trail.steps /\ Newest' = trail.last
      BY <2>1 DEF StepsTold, Newest
    <3>2. StepsTold = IF owed = "StepCompleted" THEN trail.steps + 1 ELSE trail.steps
      BY DEF StepsTold
    <3>3. CASE owed = "none"
      BY <2>1, <3>1, <3>2, <3>3 DEF IInv, TrailExplainsStore, Newest, Ends
    \* While an event is owed, the one before it announced no end.
    <3>4. CASE owed # "none"
      <4>1. trail.last \notin Ends
        BY <3>4 DEF IInv, OwedIsNewest
      <4>2. trail.steps <= stored.results /\ (~gaps'.step => trail.steps = stored.results)
        <5>1. trail.steps \in Nat /\ stored.results \in Nat
          BY <3>4 DEF IInv, OwedIsNewest, Typed, TypeOK, Mission
        <5>2. StepsTold <= stored.results /\ (~gaps.step => StepsTold = stored.results)
          BY DEF IInv, TrailExplainsStore
        <5>3. CASE owed = "StepCompleted"
          <6>1. trail.steps + 1 <= stored.results
            BY <3>2, <5>2, <5>3
          <6>2. gaps'.step
            BY <2>1, <5>3
          <6> QED
            BY <5>1, <6>1, <6>2
        <5>4. CASE owed # "StepCompleted"
          <6>1. StepsTold = trail.steps
            BY <3>2, <5>4
          <6>2. ~gaps'.step => ~gaps.step
            BY <2>1
          <6> QED
            BY <5>2, <6>1, <6>2
        <5> QED
          BY <5>3, <5>4
      <4> QED
        BY <2>1, <3>1, <3>4, <4>1, <4>2 DEF TrailExplainsStore, Ends
    <3> QED
      BY <3>3, <3>4
  <2> QED
    BY <1>t, <2>1, <2>2, <2>3, <2>4 DEF IInv, OwedIsNewest
<1>8. CASE EmitEvent
  <2>1. CopyOfStored' /\ DriveHoldsStored'
    BY <1>8 DEF EmitEvent, IInv, CopyOfStored, CopyOK, DriveHoldsStored
  <2>2. StepsTold' = StepsTold /\ Newest' = Newest
    BY <1>8 DEF EmitEvent, StepsTold, Newest
  <2> QED
    BY <1>8, <1>t, <2>1, <2>2 DEF EmitEvent, IInv, OwedIsNewest, TrailExplainsStore
\* The steps of the drive loop.
<1>10. CASE Pause
  <2>1. /\ mission \in Mission /\ mission # Absent /\ owed = "none" /\ UNCHANGED calls
        /\ AtGate(mission) /\ mission = stored /\ mission.status = "executing"
        /\ Len(calls) = mission.results
    BY <1>10, <1>m DEF Pause, Driving, Blocked, IInv, DriveHoldsStored, Mission
  <2>2. /\ AwaitApproval(mission) \in Mission
        /\ AwaitApproval(mission).status = "awaiting"
        /\ AwaitApproval(mission).plan = mission.plan
        /\ AwaitApproval(mission).results = mission.results
        /\ AwaitApproval(mission).approval = Request(NextStep(mission))
    BY <2>1, DriveFields, MethodsReturnMissions
  <2>3. CopyOK(AwaitApproval(mission))
    <3>1. AtGate(AwaitApproval(mission)) /\ NextStep(AwaitApproval(mission)) = NextStep(mission)
      BY <2>1, <2>2 DEF AtGate, StepsLeft, NextStep
    <3>2. Decidable(AwaitApproval(mission))
      BY <2>2, <3>1 DEF Decidable, HasActiveApproval, Request
    <3> QED
      BY <2>1, <2>2, <3>2 DEF IInv, CopyOfStored, CopyOK, Terminal
  <2> QED
    BY <1>10, <1>t, <1>l, <1>i, <2>1, <2>2, <2>3, SavesKeep
       DEF Pause, Explained, Event, NonTerminal
<1>11. CASE PauseRaises
  <2>1. CopyOfStored'
    BY <1>11 DEF PauseRaises, IInv, CopyOfStored, CopyOK
  <2> QED
    BY <1>11, <1>t, <1>i, <2>1
       DEF PauseRaises, IInv, DriveHoldsStored, TrailExplainsStore, StepsTold, Newest,
           OwedIsNewest
<1>12. CASE CallTool
  <2>1. /\ Len(calls') = Len(calls) + 1 /\ mission = stored /\ stored.status = "executing"
        /\ Len(calls) = stored.results /\ stored.results \in Nat
    BY <1>12, <1>m DEF CallTool, Driving, Typed, TypeOK, IInv, DriveHoldsStored, Mission
  <2>2. CopyOfStored'
    BY <1>12, <2>1 DEF CallTool, IInv, CopyOfStored, CopyOK
  <2>3. DriveHoldsStored'
    <3>1. drive'.on /\ drive'.called /\ drive'.start = drive.start
      BY <1>12 DEF CallTool, Driving, IInv, Typed, TypeOK
    <3> QED
      BY <1>12, <2>1, <3>1 DEF CallTool, Driving, IInv, DriveHoldsStored
  <2> QED
    BY <1>12, <1>t, <2>2, <2>3
       DEF CallTool, IInv, TrailExplainsStore, StepsTold, Newest, OwedIsNewest
<1>13. CASE StepSucceeds
  <2>1. /\ mission \in Mission /\ mission # Absent /\ owed = "none" /\ UNCHANGED calls
        /\ mission = stored /\ mission.status = "executing" /\ drive.start <= stored.results
        /\ Len(calls) = mission.results + 1 /\ mission.results \in Nat /\ drive.start \in Nat
    BY <1>13, <1>m
       DEF StepSucceeds, Driving, IInv, Typed, TypeOK, DriveHoldsStored, Mission
  <2>2. /\ RecordStep(mission) \in Mission
        /\ RecordStep(mission).status = "executing"
        /\ RecordStep(mission).plan = mission.plan
        /\ RecordStep(mission).results = mission.results + 1
    BY <2>1, DriveFields, MethodsReturnMissions
  <2>3. CopyOK(RecordStep(mission))
    BY <2>1, <2>2 DEF IInv, CopyOfStored, CopyOK, Decidable, Terminal
  <2> PICK after : after = [drive EXCEPT !.called = FALSE]
    OBVIOUS
  <2>4. after.start = drive.start /\ ~after.called
    BY DEF IInv, Typed, TypeOK
  <2>5. Saves(RecordStep(mission), "StepCompleted", after)
    BY <1>13 DEF StepSucceeds
  <2>6. stored.status \notin Terminal /\ "StepCompleted" \in Event
        /\ "executing" \in Explained("StepCompleted")
    BY <1>l, <2>1 DEF NonTerminal, Event, Explained
  <2>7. /\ after.start <= mission.results + 1
        /\ mission.results + 1 = stored.results + 1
    BY <2>1, <2>4
  <2> QED
    BY <1>t, <2>1, <2>2, <2>3, <2>4, <2>5, <2>6, <2>7, SavesKeep
<1> QED
  BY <1>0, <1>1, <1>2, <1>3, <1>4, <1>5, <1>6, <1>7, <1>8, <1>10, <1>11, <1>12, <1>13 DEF Next

LEMMA IInvHolds == Spec => []IInv
<1>1. Init => IInv
  BY Statuses
     DEF Init, IInv, Typed, TypeOK, Event, Idle, CopyOfStored, CopyOK, Decidable, Terminal,
         DriveHoldsStored, OwedIsNewest, TrailExplainsStore, StepsTold, Newest, Explained, Ends,
         NoPlan
<1> QED
  BY <1>1, IInvStep, PTL DEF Spec

\* Whatever the client does, and whatever saves raise, a paused mission in the store can be
\* decided, and the request it waits on is the one of its next step (engine.py, _drive and
\* _build_request).
THEOREM PausedMissionsAreDecidable == Spec => []PausedIsDecidable
<1>1. IInv => PausedIsDecidable
  BY DEF IInv, CopyOfStored, CopyOK, Decidable, PausedIsDecidable
<1> QED
  BY <1>1, IInvHolds, PTL

\* The events never tell more than is stored, and less only where one was dropped between
\* a save and its emission, or its save raised (engine.py: every operation saves, then
\* emits).
THEOREM EventsAccountForTheStore == Spec => []TrailExplainsStore
<1>1. IInv => TrailExplainsStore
  BY DEF IInv
<1> QED
  BY <1>1, IInvHolds, PTL

-----------------------------------------------------------------------------
(* Terminal missions. *)

\* A stored terminal mission is never changed and its executor never called,
\* from any copy of it a client may hold.
THEOREM TerminalMissionsAreFinal == Spec => TerminalIsFinal
<1>1. IInv /\ [Next]_vars =>
        [stored.status \in Terminal => UNCHANGED <<stored, calls>>]_vars
  <2> SUFFICES ASSUME IInv, [Next]_vars, stored.status \in Terminal
               PROVE  UNCHANGED <<stored, calls>>
    OBVIOUS
  <2>1. mission.status \in Terminal /\ ~drive.on /\ ~drive.called
    BY Statuses DEF IInv, CopyOfStored, CopyOK, DriveHoldsStored, Terminal
  <2>2. mission.status \notin NonTerminal
    BY <2>1, Statuses
  <2>3. mission \in Mission
    BY <2>1, Statuses DEF IInv, Typed, TypeOK
  <2>4. /\ ~CanSetPlan(mission) /\ ~CanBeginExecution(mission) /\ ~CanResume(mission)
        /\ ~CanApprove(mission) /\ ~CanReject(mission) /\ ~CanCancel(mission)
        /\ ~CanReplan(mission)
    BY <2>2, <2>3, Guards DEF CanReplan, NonTerminal
  <2>5. stored # Absent
    BY Statuses
  <2> QED
    BY <2>1, <2>4, <2>5
       DEF Next, vars, Create, PlanMission, ExecuteMission, ResumeMission, Pause,
           PauseRaises, CallTool, StepSucceeds, StepFails, Finish, ApproveGate, RejectGate,
           CancelMission, BareResume, ArchiveMission, ReplanMission, Unsaved, Reload,
           EmitEvent, EmitRaises, Driving
<1> QED
  BY <1>1, IInvHolds, PTL DEF Spec, TerminalIsFinal

-----------------------------------------------------------------------------
(* Refinement of GatedExecution. *)

\* Every step of the engine is a step of the contract, or changes nothing of it.
LEMMA RefinementStep == IInv /\ IInv' /\ [Next]_vars => [Contract!Next]_(Contract!vars)
<1> SUFFICES ASSUME IInv, IInv', [Next]_vars
             PROVE  Contract!Next \/ UNCHANGED Contract!vars
  OBVIOUS
<1> USE DEF Contract!Next, Contract!vars
<1>m. /\ mission # Absent => mission \in Mission /\ stored \in Mission
      /\ drive.on => mission \in Mission /\ mission = stored
  BY DEF IInv, Typed, TypeOK, CopyOfStored, DriveHoldsStored
<1>0. CASE UNCHANGED vars
  BY <1>0 DEF vars, Cleared, NextStep
\* The steps that leave what is stored alone: a clearance they change is dropped.
<1>1. ASSUME UNCHANGED <<stored, calls>>, Cleared' \in {0, Cleared}
      PROVE  Contract!Next \/ UNCHANGED Contract!vars
  BY <1>1 DEF Contract!Lapse
<1>i. ASSUME UNCHANGED <<stored, calls>>, drive' = Idle \/ UNCHANGED drive
      PROVE  Contract!Next \/ UNCHANGED Contract!vars
  <2>1. Cleared' \in {0, Cleared}
    BY <1>i DEF Cleared, Idle, NextStep
  <2> QED
    BY <1>1, <1>i, <2>1
\* A save that raises is one of them.
<1>s. ASSUME NEW m, NEW event, NEW after, Saves(m, event, after), UNCHANGED calls
      PROVE  \/ stored' = m /\ drive' = after
             \/ Contract!Next \/ UNCHANGED Contract!vars
  BY <1>s, <1>i DEF Saves, Save, SaveRaises
\* A mission that may still change is not over in the store either.
<1>o. mission.status \in NonTerminal => stored.status \notin Terminal
  BY Statuses DEF IInv, CopyOfStored, CopyOK
<1>p. /\ mission.plan \in Plans \union {stored.plan}
      /\ mission.status \in {"planned", "resumed"} /\ mission.plan # <<>> => mission.plan \in Plans
  BY DEF IInv, CopyOfStored, CopyOK, NoPlan
<1>2. CASE Create
  BY <1>2, Statuses
     DEF Create, Save, NewMission, NoPlan, NoApproval, IsApproved, Cleared, NextStep,
         Terminal
<1>3. ASSUME NEW p \in Plans, PlanMission(p)
      PROVE  Contract!Next \/ UNCHANGED Contract!vars
  <2>1. /\ ~drive.on /\ UNCHANGED calls /\ Saves(SetPlan(mission, p), "Planned", Idle)
        /\ mission \in Mission /\ mission.status \in {"created", "resumed"}
    BY <1>3, <1>m, Guards DEF PlanMission, Calling
  <2>2. stored.status \notin Terminal
    BY <1>o, <2>1 DEF NonTerminal
  <2>3. CASE stored' = SetPlan(mission, p) /\ drive' = Idle
    <3>1. stored'.status = "planned" /\ stored'.plan = p
      BY <2>1, <2>3, PlanFields
    <3>2. Cleared' = 0
      BY <2>3, <3>1 DEF Cleared, Idle
    <3> QED
      BY <2>1, <2>2, <3>1, <3>2 DEF Contract!Adopt, Terminal
  <2> QED
    BY <1>s, <2>1, <2>3
\* Starting to execute drops a clearance; resuming takes up the one of the copy, on the
\* stored plan, be the approval saved or not.
<1>4. CASE ExecuteMission \/ ResumeMission
  <2>1. /\ mission \in Mission /\ stored \in Mission
        /\ mission.status \in {"planned", "resumed"}
        /\ UNCHANGED calls /\ ~drive.on /\ mission.plan # NoPlan
    BY <1>4, <1>m, Guards DEF ExecuteMission, ResumeMission, Calling, CanBeginExecution
  <2>2. stored.status \notin Terminal
    BY <1>o, <2>1 DEF NonTerminal
  <2>3. /\ Len(calls) = mission.results /\ mission.results = stored.results
        /\ mission.plan \in Plans
    BY <1>p, <2>1 DEF IInv, CopyOfStored, CopyOK, Terminal, NoPlan
  <2>4. ASSUME NEW b \in BOOLEAN, stored' = BeginExecution(mission), drive' = Start(b),
               b => ResumeMission
        PROVE  Contract!Next \/ UNCHANGED Contract!vars
    <3>1. /\ stored'.status = "executing" /\ stored'.plan = mission.plan
          /\ stored'.results = mission.results /\ stored'.approval = mission.approval
      BY <2>1, <2>4, MoveFields DEF BeginExecution, Status, NonTerminal
    <3>2. CASE Cleared' = 0
      BY <2>1, <2>2, <2>3, <3>1, <3>2 DEF Contract!Adopt, Terminal
    <3>3. CASE Cleared' # 0
      <4>1. IsApproved(mission) /\ b
        BY <2>4, <3>1, <3>3 DEF Cleared, IsApproved, Start
      <4>2. AtGate(mission) /\ mission.plan = stored.plan
        BY <2>4, <4>1 DEF ResumeMission, IInv, CopyOfStored, CopyOK
      <4>3. Contract!Position = NextStep(mission)
        BY <2>3 DEF Contract!Position, NextStep
      <4>4. Contract!Gated
        <5>1. NextStep(mission) <= Len(stored.plan)
          BY <2>1, <4>2 DEF AtGate, StepsLeft, NextStep, Mission
        <5> QED
          BY <4>2, <4>3, <5>1, Zenon DEF Contract!Gated, Contract!InPlan, AtGate
      <4>5. Cleared' = NextStep(mission)
        BY <3>1, <3>3 DEF Cleared, NextStep
      <4> QED
        BY <2>1, <2>2, <3>1, <4>2, <4>3, <4>4, <4>5 DEF Contract!Clear, Terminal
    <3> QED
      BY <3>2, <3>3
  <2>5. CASE ExecuteMission
    BY <1>s, <2>1, <2>4, <2>5 DEF ExecuteMission
  <2>6. CASE ResumeMission
    BY <1>s, <2>1, <2>4, <2>6 DEF ResumeMission
  <2> QED
    BY <1>4, <2>5, <2>6
<1>5. CASE ApproveGate
  <2>1. /\ mission \in Mission /\ stored \in Mission /\ mission.status = "awaiting"
        /\ UNCHANGED calls /\ ~drive.on /\ Saves(Approve(mission), "Approved", Idle)
    BY <1>5, <1>m, Guards DEF ApproveGate, Calling
  <2>2. stored.status \notin Terminal
    BY <1>o, <2>1 DEF NonTerminal
  <2>3. /\ AtGate(mission) /\ Len(calls) = mission.results /\ mission.plan = stored.plan
    BY <2>1 DEF IInv, CopyOfStored, CopyOK, Decidable, Terminal
  <2>4. Contract!Gated /\ Contract!Position = NextStep(mission)
    <3>1. Contract!Position = NextStep(mission)
      BY <2>3 DEF Contract!Position, NextStep
    <3>2. NextStep(mission) <= Len(stored.plan)
      BY <2>1, <2>3 DEF AtGate, StepsLeft, NextStep, Mission
    <3> QED
      BY <2>3, <3>1, <3>2, Zenon DEF Contract!Gated, Contract!InPlan, AtGate
  <2>5. CASE stored' = Approve(mission) /\ drive' = Idle
    <3>1. /\ stored'.status = "resumed" /\ stored'.plan = stored.plan
          /\ stored'.results = mission.results /\ IsApproved(stored')
      BY <2>1, <2>3, <2>5, DecideFields
    <3>2. Cleared' = NextStep(mission)
      BY <3>1 DEF Cleared, NextStep
    <3> QED
      BY <2>1, <2>2, <2>4, <3>1, <3>2 DEF Contract!Clear, Terminal
  <2> QED
    BY <1>s, <2>1, <2>5
<1>6. CASE RejectGate \/ CancelMission \/ StepFails \/ Finish
  <2>1. mission \in Mission /\ UNCHANGED calls
    BY <1>6, <1>m
       DEF RejectGate, CancelMission, StepFails, Finish, Calling, Driving
  <2>2. ASSUME stored' \in {Reject(mission), Cancel(mission), Fail(mission), Complete(mission)},
               drive' = Idle
        PROVE  Contract!Next \/ UNCHANGED Contract!vars
    <3>1. /\ stored'.status \in {"cancelled", "failed", "completed"}
          /\ stored'.plan = mission.plan
      BY <2>1, <2>2, DecideFields, MoveFields DEF Cancel, Fail, Complete, Status, Terminal
    <3>2. Cleared' = 0
      BY <2>2, <3>1 DEF Cleared, Idle
    <3> QED
      BY <1>p, <2>1, <3>1, <3>2 DEF Contract!Stop, Terminal
  <2>3. CASE RejectGate
    BY <1>s, <2>1, <2>2, <2>3 DEF RejectGate
  <2>4. CASE CancelMission
    BY <1>s, <2>1, <2>2, <2>4 DEF CancelMission
  <2>5. CASE StepFails
    BY <1>s, <2>1, <2>2, <2>5 DEF StepFails
  <2>6. CASE Finish
    BY <1>s, <2>1, <2>2, <2>6 DEF Finish
  <2> QED
    BY <1>6, <2>3, <2>4, <2>5, <2>6
\* The unsaved methods, a lost process, the events and a pause that raises.
<1>8. CASE BareResume \/ ArchiveMission \/ \E p \in Plans : ReplanMission(p)
  BY <1>8, <1>i DEF BareResume, ArchiveMission, ReplanMission, Unsaved
<1>9. CASE Reload \/ PauseRaises \/ EmitEvent \/ EmitRaises
  BY <1>9, <1>i DEF Reload, PauseRaises, EmitEvent, EmitRaises
<1>10. CASE Pause
  <2>1. /\ mission \in Mission /\ mission = stored /\ UNCHANGED calls
        /\ Saves(AwaitApproval(mission), "AwaitingApproval", Idle)
        /\ stored.status = "executing"
    BY <1>10, <1>m, Guards DEF Pause, Driving
  <2>2. CASE stored' = AwaitApproval(mission) /\ drive' = Idle
    <3>1. stored'.status = "awaiting" /\ stored'.plan = stored.plan
      BY <2>1, <2>2, DriveFields
    <3> QED
      BY <2>1, <2>2, <3>1 DEF Contract!Lapse, Cleared, Idle, Terminal
  <2> QED
    BY <1>s, <2>1, <2>2
<1>11. CASE CallTool
  <2>1. /\ mission \in Mission /\ mission = stored /\ drive.on /\ ~drive.called
        /\ stored.status = "executing" /\ StepsLeft(stored) /\ ~Blocked
        /\ calls' = Append(calls, NextStep(stored)) /\ UNCHANGED stored
        /\ drive'.called
    BY <1>11, <1>m DEF CallTool, Driving, IInv, DriveHoldsStored, Typed, TypeOK
  <2>2. Contract!Position = NextStep(stored)
    BY <2>1 DEF Contract!Position, NextStep, IInv, DriveHoldsStored, Mission
  <2>3. Contract!InPlan
    BY <2>1, <2>2 DEF Contract!InPlan, StepsLeft, NextStep, Mission
  <2>4. Contract!Gated => AtGate(stored)
    BY <2>1, <2>2, Zenon DEF Contract!Gated, AtGate
  <2>5. AtGate(stored) => Cleared = NextStep(stored)
    BY <2>1 DEF Blocked, GateIsApproved, Cleared
  <2>6. Cleared' = 0
    BY <2>1 DEF Cleared
  <2> QED
    BY <2>1, <2>2, <2>3, <2>4, <2>5, <2>6 DEF Contract!Call, Terminal
\* Recording a step moves past the gate the clearance was for.
<1>12. CASE StepSucceeds
  <2>1. /\ mission \in Mission /\ mission = stored /\ UNCHANGED calls /\ drive.called
        /\ stored.status = "executing" /\ drive.start <= stored.results
        /\ Saves(RecordStep(mission), "StepCompleted", [drive EXCEPT !.called = FALSE])
    BY <1>12, <1>m DEF StepSucceeds, Driving, IInv, DriveHoldsStored, Typed, TypeOK
  <2>2. CASE stored' = RecordStep(stored) /\ drive' = [drive EXCEPT !.called = FALSE]
    <3>1. /\ stored'.status = "executing" /\ stored'.plan = stored.plan
          /\ stored'.results = stored.results + 1
      BY <2>1, <2>2, DriveFields
    <3>2. stored'.results # drive'.start
      BY <2>1, <2>2, <3>1 DEF IInv, Typed, TypeOK, Mission
    <3>3. Cleared = 0 /\ Cleared' = 0
      BY <2>1, <3>1, <3>2 DEF Cleared
    <3> QED
      BY <2>1, <3>1, <3>3
  <2> QED
    BY <1>s, <2>1, <2>2
<1> QED
  BY <1>0, <1>2, <1>3, <1>4, <1>5, <1>6, <1>8, <1>9, <1>10, <1>11, <1>12 DEF Next

\* The engine implements gated execution: for every set of plans, every order of
\* client calls, and crashes between any two of its steps, the executor is called
\* for the plan's steps in order, at most once each, and behind its clearance.
THEOREM EngineImplementsGatedExecution == Spec => ImplementsGatedExecution
<1>1. Init => Contract!Init
  BY Statuses DEF Init, Contract!Init, Cleared, IsApproved, NoApproval, Terminal, Idle
<1>2. IInv /\ IInv' /\ [Next]_vars => [Contract!Next]_(Contract!vars)
  BY RefinementStep
<1> QED
  BY <1>1, <1>2, IInvHolds, PTL DEF Spec, ImplementsGatedExecution, Contract!Spec

=============================================================================
