--------------------------- MODULE MissionEngine ----------------------------
(***************************************************************************)
(* mission_engine/engine.py: the synchronous engine that plans, drives,    *)
(* pauses, resumes and ends one mission.  A client holds the aggregate     *)
(* (`mission'), calls one engine operation at a time, and may lose what it *)
(* holds and read the store again.  An operation changes the aggregate,    *)
(* saves it, and only then emits its event: the save may raise, which      *)
(* leaves the change in the client's hands alone, and the process may die, *)
(* or the event's sink raise, between the save and the event.              *)
(***************************************************************************)
EXTENDS MissionLifecycle

CONSTANTS Plans,        \* the plans the client may set
          MaxVersion    \* bound: plan versions a client makes by re-planning

ASSUME PlansAssumption == Plans \subseteq (Seq(BOOLEAN) \ {<<>>})
ASSUME MaxVersionAssumption == MaxVersion \in Nat

VARIABLES
    mission,    \* the aggregate in the client's hands
    stored,     \* the snapshot the store returns for it
    owed,       \* the event of the last save, until it is emitted
    trail,      \* what the emitted events tell: the last one, and how many steps completed
    drive,      \* the _drive loop: running?, resuming?, from which progress, tool called?
    calls,      \* history: the steps executor.execute was called for
    gaps        \* history: is the newest event missing, is a step's event missing?

vars == <<mission, stored, owed, trail, drive, calls, gaps>>

Idle == [on |-> FALSE, resuming |-> FALSE, start |-> 0, called |-> FALSE]

Event == {"none", "Created", "Planned", "StepCompleted", "AwaitingApproval", "Approved",
          "Rejected", "Resumed", "Completed", "Failed", "Cancelled"}

Init == /\ mission = Absent
        /\ stored = Absent
        /\ owed = "none"
        /\ trail = [last |-> "none", steps |-> 0]
        /\ drive = Idle
        /\ calls = <<>>
        /\ gaps = [newest |-> FALSE, step |-> FALSE]

\* The client may call an operation, or the loop take its next step: no event of an
\* earlier one is still to be emitted.
Calling == ~drive.on /\ owed = "none" /\ mission # Absent
Driving == drive.on /\ owed = "none"

\* store.save returns: the aggregate is stored, and its event ("none": it has none) owed.
Save(m, event) == /\ mission' = m
                  /\ stored' = m
                  /\ owed' = event
                  /\ gaps' = [gaps EXCEPT !.newest = @ /\ event = "none"]
                  /\ UNCHANGED trail

\* store.save raises, out of the operation: what the method did to the aggregate stays
\* with the client, and its event is never emitted.
SaveRaises(m) == /\ mission' = m
                 /\ gaps' = [gaps EXCEPT !.step = @ \/ m.results # mission.results]
                 /\ UNCHANGED <<stored, owed, trail>>

\* What an operation ends with; `after' is the drive loop when the save returns.
Saves(m, event, after) == \/ Save(m, event) /\ drive' = after
                          \/ SaveRaises(m)  /\ drive' = Idle

\* _emit returns.
EmitEvent == /\ owed # "none"
             /\ owed' = "none"
             /\ trail' = [last  |-> owed,
                          steps |-> IF owed = "StepCompleted"
                                    THEN trail.steps + 1 ELSE trail.steps]
             /\ UNCHANGED <<mission, stored, drive, calls, gaps>>

\* The event that is owed will never be emitted.
Drop == /\ owed' = "none"
        /\ gaps' = [newest |-> gaps.newest \/ owed # "none",
                    step   |-> gaps.step \/ owed = "StepCompleted"]

\* What is subscribed to the bus raises, out of the operation.
EmitRaises == /\ owed # "none"
              /\ Drop
              /\ drive' = Idle
              /\ UNCHANGED <<mission, stored, trail, calls>>

-----------------------------------------------------------------------------
(* Operations that do not drive.  A `create' whose save raises leaves no   *)
(* mission to anyone.                                                      *)

Create == /\ mission = Absent
          /\ stored = Absent
          /\ Save(NewMission, "Created")
          /\ UNCHANGED <<drive, calls>>

PlanMission(p) == /\ Calling
                  /\ CanSetPlan(mission)
                  /\ Saves(SetPlan(mission, p), "Planned", Idle)
                  /\ UNCHANGED calls

ApproveGate == /\ Calling
               /\ CanApprove(mission)
               /\ Saves(Approve(mission), "Approved", Idle)
               /\ UNCHANGED calls

RejectGate == /\ Calling
              /\ CanReject(mission)
              /\ Saves(Reject(mission), "Rejected", Idle)
              /\ UNCHANGED calls

CancelMission == /\ Calling
                 /\ CanCancel(mission)
                 /\ Saves(Cancel(mission), "Cancelled", Idle)
                 /\ UNCHANGED calls

-----------------------------------------------------------------------------
(* The drive loop. *)

Start(resuming) == [on |-> TRUE, resuming |-> resuming,
                    start |-> mission.results, called |-> FALSE]

\* execute: the only save without an event.  A RESUMED mission may be executed
\* as well as resumed: it is then driven without its clearance.
ExecuteMission == /\ Calling
                  /\ CanBeginExecution(mission)
                  /\ Saves(BeginExecution(mission), "none", Start(FALSE))
                  /\ UNCHANGED calls

ResumeMission == /\ Calling
                 /\ mission.status = "resumed"
                 /\ CanBeginExecution(mission)
                 /\ Saves(BeginExecution(mission), "Resumed", Start(TRUE))
                 /\ UNCHANGED calls

\* [mutant] an approval opens every gate the resumed drive comes to
GateIsApproved_All == drive.resuming /\ IsApproved(mission)

\* _gate_is_approved: the one gate a resume was approved to pass.
GateIsApproved == /\ drive.resuming
                  /\ mission.results = drive.start
                  /\ IsApproved(mission)

Blocked == AtGate(mission) /\ ~GateIsApproved

Pause == /\ Driving /\ ~drive.called
         /\ Blocked
         /\ CanAwaitApproval(mission)
         /\ Saves(AwaitApproval(mission), "AwaitingApproval", Idle)
         /\ UNCHANGED calls

\* await_approval raises out of the operation when a request is still pending.
PauseRaises == /\ Driving /\ ~drive.called
               /\ Blocked
               /\ ~CanAwaitApproval(mission)
               /\ drive' = Idle
               /\ UNCHANGED <<mission, stored, owed, trail, calls, gaps>>

CallTool == /\ Driving /\ ~drive.called
            /\ StepsLeft(mission) /\ ~Blocked
            /\ calls' = Append(calls, NextStep(mission))
            /\ drive' = [drive EXCEPT !.called = TRUE]
            /\ UNCHANGED <<mission, stored, owed, trail, gaps>>

\* [mutant] the step's event is emitted before its result is saved
StepSucceeds_EmitFirst == /\ Driving /\ drive.called
                          /\ CanRecordStep(mission)
                          /\ trail' = [last |-> "StepCompleted", steps |-> trail.steps + 1]
                          /\ mission' = RecordStep(mission)
                          /\ \/ /\ stored' = RecordStep(mission)
                                /\ drive' = [drive EXCEPT !.called = FALSE]
                             \/ UNCHANGED stored /\ drive' = Idle
                          /\ UNCHANGED <<owed, calls, gaps>>

StepSucceeds == /\ Driving /\ drive.called
                /\ CanRecordStep(mission)
                /\ Saves(RecordStep(mission), "StepCompleted", [drive EXCEPT !.called = FALSE])
                /\ UNCHANGED calls

\* The executor raised, or returned a result that is not ok.
StepFails == /\ Driving /\ drive.called
             /\ CanFail(mission)
             /\ Saves(Fail(mission), "Failed", Idle)
             /\ UNCHANGED calls

\* [mutant] the loop ends where the progress equals the length of the plan
Finish_AtLength == /\ Driving /\ ~drive.called
                   /\ mission.results = Len(mission.plan)
                   /\ CanComplete(mission)
                   /\ Saves(Complete(mission), "Completed", Idle)
                   /\ UNCHANGED calls

Finish == /\ Driving /\ ~drive.called
          /\ ~StepsLeft(mission)
          /\ CanComplete(mission)
          /\ Saves(Complete(mission), "Completed", Idle)
          /\ UNCHANGED calls

-----------------------------------------------------------------------------
(* The aggregate's methods no engine operation calls: they change what the *)
(* client holds, and reach the store with the next save.                   *)

Unsaved(m) == mission' = m /\ UNCHANGED <<stored, owed, trail, drive, calls, gaps>>

BareResume == /\ Calling
              /\ CanResume(mission)
              /\ Unsaved(Resume(mission))

ReplanMission(p) == /\ Calling
                    /\ CanReplan(mission)
                    /\ mission.version < MaxVersion
                    /\ Unsaved(Replan(mission, p))

ArchiveMission == /\ Calling
                  /\ CanArchive(mission)
                  /\ Unsaved(Archive(mission))

\* The client's process dies, in an operation or between two, and reads the
\* mission back (MissionEngine.get).
Reload == /\ mission # Absent
          /\ mission' = stored
          /\ Drop
          /\ drive' = Idle
          /\ UNCHANGED <<stored, trail, calls>>

-----------------------------------------------------------------------------

Next == \/ Create
        \/ \E p \in Plans : PlanMission(p)
        \/ ExecuteMission \/ ResumeMission
        \/ Pause \/ PauseRaises \/ CallTool \/ StepSucceeds \/ StepFails \/ Finish
        \/ ApproveGate \/ RejectGate \/ CancelMission
        \/ EmitEvent \/ EmitRaises
        \/ BareResume \/ ArchiveMission
        \/ \E p \in Plans : ReplanMission(p)
        \/ Reload

Spec == Init /\ [][Next]_vars

\* The drive loop is a synchronous call: it is not left half-way for ever.
DriveStep == \/ EmitEvent \/ EmitRaises
             \/ Pause \/ PauseRaises \/ CallTool \/ StepSucceeds \/ StepFails \/ Finish
FairDrive == Spec /\ WF_vars(DriveStep)

-----------------------------------------------------------------------------
(* Properties. *)

TypeOK ==
    /\ mission \in Mission \union {Absent}
    /\ stored \in Mission \union {Absent}
    /\ owed \in Event
    /\ trail \in [last : Event, steps : Nat]
    /\ drive \in [on : BOOLEAN, resuming : BOOLEAN, start : Nat, called : BOOLEAN]
    /\ calls \in Seq(Nat)
    /\ gaps \in [newest : BOOLEAN, step : BOOLEAN]

\* A stored mission that is paused can be decided: it holds a pending request,
\* and the request was built for the gate of the step it would run next.
PausedIsDecidable ==
    stored.status = "awaiting" =>
        /\ HasActiveApproval(stored)
        /\ AtGate(stored)
        /\ stored.approval.step = NextStep(stored)

\* The newest event of what is stored, emitted or about to be.
Newest == IF owed = "none" THEN trail.last ELSE owed

\* The statuses an auditor who sees `last' as the newest event must expect: only
\* the start of execution is silent.
Explained(last) ==
    CASE last = "none"             -> {"absent"}
      [] last = "Created"          -> {"created", "executing"}
      [] last = "Planned"          -> {"planned", "executing"}
      [] last = "StepCompleted"    -> {"executing"}
      [] last = "AwaitingApproval" -> {"awaiting", "executing"}
      [] last = "Approved"         -> {"resumed", "executing"}
      [] last = "Rejected"         -> {"cancelled"}
      [] last = "Resumed"          -> {"executing"}
      [] last = "Completed"        -> {"completed"}
      [] last = "Failed"           -> {"failed"}
      [] last = "Cancelled"        -> {"cancelled"}

Ends == {"Rejected", "Completed", "Failed", "Cancelled"}

StepsTold == IF owed = "StepCompleted" THEN trail.steps + 1 ELSE trail.steps

\* The events, with the one about to be emitted, never tell more than is stored: no step
\* that is not recorded, no end that is not stored.  They tell less only where an event
\* was dropped: a missing event hides the status until the next one is emitted, and a
\* missing step, whose event or save failed, stays missing (engine.py:185-196; the death
\* between the save and the event is the limitation launch.py:91-95 admits).
TrailExplainsStore ==
    /\ StepsTold <= stored.results
    /\ ~gaps.step => StepsTold = stored.results
    /\ ~gaps.newest \/ Newest \in Ends => stored.status \in Explained(Newest)

\* A stored terminal mission is immutable: no operation on it, or on an unsaved
\* copy of it, changes what is stored or calls the executor again.
TerminalIsFinal == [][stored.status \in Terminal => UNCHANGED <<stored, calls>>]_vars

\* The clearance the stored mission, or the drive that took it up, still holds.
Cleared == IF /\ IsApproved(stored)
              /\ \/ stored.status = "resumed"
                 \/ /\ drive.on /\ drive.resuming /\ ~drive.called
                    /\ stored.results = drive.start
           THEN NextStep(stored) ELSE 0

Contract == INSTANCE GatedExecution
    WITH plan <- stored.plan, calls <- calls, cleared <- Cleared,
         over <- stored.status \in Terminal

\* The engine keeps the contract of gated execution, under every order of calls
\* a client may make, re-planning and crashes included.
ImplementsGatedExecution == Contract!Spec

\* Every drive ends, at a gate or at the end of the mission.
DriveEnds == drive.on ~> ~drive.on

=============================================================================
