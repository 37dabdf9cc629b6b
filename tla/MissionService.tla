--------------------------- MODULE MissionService ---------------------------
(***************************************************************************)
(* The durable grc-api: HTTP workers (threads of any number of processes)  *)
(* that create, start, approve and reject one mission over one Postgres    *)
(* database, and drive it.                                                 *)
(*                                                                         *)
(* A request runs its command in one transaction (UnitOfWork): it loads    *)
(* the mission with a plain SELECT, applies one engine operation, writes   *)
(* the mission row (an upsert of the whole row), the event and the read    *)
(* model, and commits.  What it asked to launch is launched after the      *)
(* commit by the same worker, on an autocommit connection, where every     *)
(* statement is a transaction of its own.  Isolation is READ COMMITTED: a  *)
(* read takes no lock and sees what is committed, a write waits for the    *)
(* transaction that wrote the row and then replaces what it left.          *)
(*                                                                         *)
(* The one mission stands for the tenant's idempotency key: a row lock is  *)
(* also the wait on the unique index two creations of it meet at.  The     *)
(* database (rows, locks, commit) is external and modelled from its use.   *)
(***************************************************************************)
EXTENDS MissionLifecycle, FiniteSets

CONSTANTS Workers,
          NoWorker,       \* who holds a lock nobody holds
          Plans,          \* the plans the mission catalog may build
          MaxRequests,    \* bound: requests the clients send
          MaxFailures     \* bound: requests that die at some statement

ASSUME NoWorkerAssumption == NoWorker \notin Workers
ASSUME PlansAssumption == Plans \subseteq (Seq(BOOLEAN) \ {<<>>})
ASSUME BoundsAssumption == MaxRequests \in Nat /\ MaxFailures \in Nat

VARIABLES
    row,        \* the committed mission row
    view,       \* the committed status in the read model
    events,     \* the committed outbox rows
    rowLock,    \* the worker whose transaction has written the mission row
    viewLock,   \* the worker whose transaction has written the read-model row
    pc,         \* where each worker is
    cmd,        \* the operation it serves
    copy,       \* the aggregate in its hands
    run,        \* its drive: resuming?, and the progress it started from
    owed,       \* the event its launch has yet to write
    requests, failures,   \* how much of the bounds is used
    calls,      \* history: the steps the executor was called for
    decisions   \* history: the committed decisions, in order

db      == <<row, view, events, rowLock, viewLock>>
locals  == <<pc, cmd, copy, run, owed>>
budget  == <<requests, failures>>
history == <<calls, decisions>>
vars    == <<db, locals, budget, history>>

NoRun == [resuming |-> FALSE, start |-> 0]

Event == {"Created", "Planned", "StepCompleted", "AwaitingApproval", "Approved",
          "Rejected", "Resumed", "Completed", "Failed"}

PC == {"idle", "write", "show", "commit", "launch", "begin", "emit", "drive", "called",
       "project"}

Init == /\ row = Absent /\ view = "none" /\ events = <<>>
        /\ rowLock = NoWorker /\ viewLock = NoWorker
        /\ pc = [w \in Workers |-> "idle"]
        /\ cmd = [w \in Workers |-> "none"]
        /\ copy = [w \in Workers |-> Absent]
        /\ run = [w \in Workers |-> NoRun]
        /\ owed = [w \in Workers |-> "none"]
        /\ requests = 0 /\ failures = 0
        /\ calls = <<>> /\ decisions = <<>>

Goto(w, where) == pc' = [pc EXCEPT ![w] = where]
Hold(w, m)     == copy' = [copy EXCEPT ![w] = m]
Owe(w, event)  == owed' = [owed EXCEPT ![w] = event]

\* A request ends, and what its worker held is gone.
Leave(w) == /\ Goto(w, "idle")
            /\ cmd' = [cmd EXCEPT ![w] = "none"]
            /\ Hold(w, Absent)
            /\ run' = [run EXCEPT ![w] = NoRun]
            /\ Owe(w, "none")

\* A write waits for the other transaction that wrote the row.
Free(lock, w) == lock \in {NoWorker, w}

-----------------------------------------------------------------------------
(* A command, in its transaction. *)

\* A request arrives and its command reads the mission: no lock is taken, and what
\* the command then does rests on this copy.
Arrive(w, op, where) ==
    /\ pc[w] = "idle"
    /\ requests < MaxRequests
    /\ requests' = requests + 1
    /\ cmd' = [cmd EXCEPT ![w] = op]
    /\ Goto(w, where)
    /\ UNCHANGED <<db, run, owed, failures, history>>

\* create: find_by_idempotency_key first.
CreateNew(w) == /\ row = Absent
                /\ \E p \in Plans : Hold(w, SetPlan(NewMission, p))
                /\ Arrive(w, "create", "write")

CreateRepeat(w) == /\ row # Absent
                   /\ Hold(w, row)
                   /\ Arrive(w, "repeat", "show")

StartMission(w) == /\ row.status \in {"created", "planned"}
                   /\ Hold(w, row)
                   /\ Arrive(w, "start", "show")

\* The step a request names is not looked at: the decision is for the gate that is
\* pending.
ApproveStep(w) == /\ HasActiveApproval(row) /\ CanApprove(row)
                  /\ Hold(w, Approve(row))
                  /\ Arrive(w, "approve", "write")

RejectStep(w) == /\ HasActiveApproval(row) /\ CanReject(row)
                 /\ Hold(w, Reject(row))
                 /\ Arrive(w, "reject", "write")

\* [mutant] the idempotency key has no unique index
WriteRow_AnyKey(w) ==
    /\ pc[w] = "write"
    /\ Free(rowLock, w)
    /\ rowLock' = w
    /\ Goto(w, "show")
    /\ UNCHANGED <<row, view, events, viewLock, cmd, copy, run, owed, budget, history>>

\* PostgresMissionStore.save and OutboxSink.write: both become visible at commit.
WriteRow(w) ==
    /\ pc[w] = "write"
    /\ Free(rowLock, w)
    /\ cmd[w] = "create" => row = Absent
    /\ rowLock' = w
    /\ Goto(w, "show")
    /\ UNCHANGED <<row, view, events, viewLock, cmd, copy, run, owed, budget, history>>

\* IdempotencyConflict: the key was taken since find_by_idempotency_key read it.
ConflictingCreate(w) ==
    /\ pc[w] = "write"
    /\ Free(rowLock, w)
    /\ cmd[w] = "create" /\ row # Absent
    /\ Leave(w)
    /\ UNCHANGED <<db, budget, history>>

\* The projection: a decision updates the read-model row that exists, a creation
\* records one.
ShowView(w) ==
    /\ pc[w] = "show"
    /\ \/ /\ cmd[w] \in {"create", "repeat"} \/ view # "none"
          /\ Free(viewLock, w)
          /\ viewLock' = w
       \/ /\ cmd[w] \notin {"create", "repeat"} /\ view = "none"
          /\ UNCHANGED viewLock
    /\ Goto(w, "commit")
    /\ UNCHANGED <<row, view, events, rowLock, cmd, copy, run, owed, budget, history>>

Written(op) == CASE op = "create"  -> <<"Created", "Planned">>
                 [] op = "approve" -> <<"Approved">>
                 [] op = "reject"  -> <<"Rejected">>
                 [] OTHER          -> <<>>

\* [mutant] an approval waits for a start request to be driven
Launches_Start(op) == op = "start"

Launches(op) == op \in {"start", "approve"}

Decision(w) == IF cmd[w] \notin {"approve", "reject"} THEN <<>>
               ELSE <<[verdict |-> copy[w].approval.decision,
                       gate    |-> copy[w].approval.step]>>

\* [mutant] the read-model row stays locked
Release_RowOnly(w) == /\ rowLock' = IF rowLock = w THEN NoWorker ELSE rowLock
                      /\ UNCHANGED viewLock

Release(w) == /\ rowLock' = IF rowLock = w THEN NoWorker ELSE rowLock
              /\ viewLock' = IF viewLock = w THEN NoWorker ELSE viewLock

\* What the command asked to launch is launched now.
Return(w) == IF Launches(cmd[w]) THEN Goto(w, "launch") /\ UNCHANGED <<cmd, copy, run, owed>>
             ELSE Leave(w)

\* [mutant] the event is written outside the transaction, and lost
Commit_NoEvent(w) ==
    /\ pc[w] = "commit"
    /\ row' = IF rowLock = w THEN copy[w] ELSE row
    /\ view' = IF viewLock = w THEN copy[w].status ELSE view
    /\ Release(w)
    /\ decisions' = decisions \o Decision(w)
    /\ Return(w)
    /\ UNCHANGED <<events, budget, calls>>

\* [mutant] the upsert overwrites the status of the row that is there, nothing else
Commit_StatusOnly(w) ==
    /\ pc[w] = "commit"
    /\ row' = CASE rowLock # w   -> row
                [] row = Absent  -> copy[w]
                [] OTHER         -> Move(row, copy[w].status)
    /\ view' = IF viewLock = w THEN copy[w].status ELSE view
    /\ events' = events \o Written(cmd[w])
    /\ Release(w)
    /\ decisions' = decisions \o Decision(w)
    /\ Return(w)
    /\ UNCHANGED <<budget, calls>>

\* The transaction commits: its row, its events and its projection together.
Commit(w) ==
    /\ pc[w] = "commit"
    /\ row' = IF rowLock = w THEN copy[w] ELSE row
    /\ view' = IF viewLock = w THEN copy[w].status ELSE view
    /\ events' = events \o Written(cmd[w])
    /\ Release(w)
    /\ decisions' = decisions \o Decision(w)
    /\ Return(w)
    /\ UNCHANGED <<budget, calls>>

-----------------------------------------------------------------------------
(* The launch, after the commit: every statement commits by itself. *)

\* The launch reads the mission again; only a startable or approved one is driven.
LaunchLoad(w) ==
    /\ pc[w] = "launch"
    /\ Hold(w, row)
    /\ Goto(w, IF row.status \in {"created", "planned", "resumed"} THEN "begin" ELSE "project")
    /\ UNCHANGED <<db, cmd, run, owed, budget, history>>

\* store.save on the autocommit connection.
SaveNow(w, m) == /\ Free(rowLock, w)
                 /\ row' = m
                 /\ Hold(w, m)
                 /\ UNCHANGED <<view, events, rowLock, viewLock>>

\* execute and resume both start from the aggregate the launch has read.
BeginDrive(w) ==
    /\ pc[w] = "begin"
    /\ CanBeginExecution(copy[w])
    /\ SaveNow(w, BeginExecution(copy[w]))
    /\ run' = [run EXCEPT ![w] = [resuming |-> copy[w].status = "resumed",
                                  start    |-> copy[w].results]]
    /\ IF copy[w].status = "resumed"
       THEN Owe(w, "Resumed") /\ Goto(w, "emit")
       ELSE Goto(w, "drive") /\ UNCHANGED owed
    /\ UNCHANGED <<cmd, budget, history>>

\* OutboxSink.write on the same connection: a statement after the save.
EmitEvent(w) ==
    /\ pc[w] = "emit"
    /\ events' = Append(events, owed[w])
    /\ Owe(w, "none")
    /\ Goto(w, IF copy[w].status = "executing" THEN "drive" ELSE "project")
    /\ UNCHANGED <<row, view, rowLock, viewLock, cmd, copy, run, budget, history>>

\* [mutant] an approval opens every gate the resumed drive comes to
GateIsApproved_All(w) == run[w].resuming /\ IsApproved(copy[w])

GateIsApproved(w) == /\ run[w].resuming
                     /\ copy[w].results = run[w].start
                     /\ IsApproved(copy[w])

Blocked(w) == AtGate(copy[w]) /\ ~GateIsApproved(w)

\* A step of the drive that saves m, then has an event to write.
DriveSaves(w, m, event) == /\ SaveNow(w, m)
                           /\ Owe(w, event)
                           /\ Goto(w, "emit")
                           /\ UNCHANGED <<cmd, run, budget, history>>

PauseAtGate(w) == /\ pc[w] = "drive"
                  /\ Blocked(w)
                  /\ CanAwaitApproval(copy[w])
                  /\ DriveSaves(w, AwaitApproval(copy[w]), "AwaitingApproval")

CallTool(w) == /\ pc[w] = "drive"
               /\ StepsLeft(copy[w]) /\ ~Blocked(w)
               /\ calls' = Append(calls, NextStep(copy[w]))
               /\ Goto(w, "called")
               /\ UNCHANGED <<db, cmd, copy, run, owed, budget, decisions>>

StepSucceeds(w) == /\ pc[w] = "called"
                   /\ CanRecordStep(copy[w])
                   /\ DriveSaves(w, RecordStep(copy[w]), "StepCompleted")

StepFails(w) == /\ pc[w] = "called"
                /\ CanFail(copy[w])
                /\ DriveSaves(w, Fail(copy[w]), "Failed")

FinishMission(w) == /\ pc[w] = "drive"
                    /\ ~StepsLeft(copy[w])
                    /\ CanComplete(copy[w])
                    /\ DriveSaves(w, Complete(copy[w]), "Completed")

\* [mutant] only the command projects
LaunchProject_Skip(w) ==
    /\ pc[w] = "project"
    /\ Free(viewLock, w)
    /\ Leave(w)
    /\ UNCHANGED <<db, budget, history>>

\* The launch projects the mission it holds, driven or not.
LaunchProject(w) ==
    /\ pc[w] = "project"
    /\ Free(viewLock, w)
    /\ view' = IF view = "none" THEN view ELSE copy[w].status
    /\ Leave(w)
    /\ UNCHANGED <<row, events, rowLock, viewLock, budget, history>>

-----------------------------------------------------------------------------

\* The request dies before its next statement: its process crashes, the database
\* refuses the statement, or the pool gives the launch no connection.  What is not
\* committed is rolled back.
FailRequest(w) ==
    /\ pc[w] # "idle"
    /\ failures < MaxFailures
    /\ failures' = failures + 1
    /\ Release(w)
    /\ Leave(w)
    /\ UNCHANGED <<row, view, events, requests, history>>

\* Every request was served; there is nothing left to do.
Quiescent == requests = MaxRequests /\ \A w \in Workers : pc[w] = "idle"
Done      == Quiescent /\ UNCHANGED vars

Command(w) == WriteRow(w) \/ ConflictingCreate(w) \/ ShowView(w) \/ Commit(w)
Launch(w)  == \/ LaunchLoad(w) \/ BeginDrive(w) \/ EmitEvent(w) \/ PauseAtGate(w)
              \/ CallTool(w) \/ StepSucceeds(w) \/ StepFails(w) \/ FinishMission(w)
              \/ LaunchProject(w)
Accept(w)  == \/ CreateNew(w) \/ CreateRepeat(w) \/ StartMission(w)
              \/ ApproveStep(w) \/ RejectStep(w)

Next == \/ \E w \in Workers : Accept(w) \/ Command(w) \/ Launch(w) \/ FailRequest(w)
        \/ Done

Spec == Init /\ [][Next]_vars

\* A worker that was given a request does not stop in it for ever.
FairWorkers == Spec /\ \A w \in Workers : WF_vars(Command(w) \/ Launch(w))

-----------------------------------------------------------------------------
(* Properties. *)

Decisions == [verdict : {"approved", "rejected"}, gate : Nat]

TypeOK ==
    /\ row \in Mission \union {Absent}
    /\ view \in Status \union {"none"}
    /\ events \in Seq(Event)
    /\ rowLock \in Workers \union {NoWorker} /\ viewLock \in Workers \union {NoWorker}
    /\ pc \in [Workers -> PC]
    /\ cmd \in [Workers -> {"none", "create", "repeat", "start", "approve", "reject"}]
    /\ copy \in [Workers -> Mission \union {Absent}]
    /\ run \in [Workers -> [resuming : BOOLEAN, start : Nat]]
    /\ owed \in [Workers -> Event \union {"none"}]
    /\ requests \in Nat /\ failures \in Nat
    /\ calls \in Seq(Nat) /\ decisions \in Seq(Decisions)

Approvals(s) == {i \in DOMAIN decisions : /\ decisions[i].verdict = "approved"
                                          /\ decisions[i].gate = s}
Count(event) == Cardinality({i \in DOMAIN events : events[i] = event})

\* A consequential step is called only if a human's approval of that very gate was
\* committed, however the requests interleave, overwrite each other or die.
GateRespected ==
    \A i \in DOMAIN calls : row.plan[calls[i]] => Approvals(calls[i]) # {}

\* Each gate that was passed is on record: at least as many approvals were announced
\* as different consequential steps were called, whatever was rolled back.
ClearancesAreOnRecord ==
    Cardinality({s \in 1..Len(row.plan) : row.plan[s] /\ \E i \in DOMAIN calls : calls[i] = s})
        <= Count("Approved")

\* Writers overwrite each other's rows and never mix them: a paused row holds the
\* request of its next step, an approved one the approval of it.
RowIsCoherent ==
    row.status \in {"awaiting", "resumed"} =>
        /\ AtGate(row)
        /\ row.approval = [step     |-> NextStep(row),
                           decision |-> IF row.status = "awaiting" THEN "pending"
                                        ELSE "approved"]

\* However many creations of one key race or fail, one mission exists: announced
\* once, and in the read model from the moment it exists.
OneCreation == /\ Count("Created") = IF row = Absent THEN 0 ELSE 1
               /\ (view = "none") <=> (row = Absent)

\* A request ends: no set of requests waits for each other's rows.
RequestsEnd == \A w \in Workers : pc[w] # "idle" ~> pc[w] = "idle"

\* An approved mission is taken up again, unless a request died: its launch follows the
\* commit.
ApprovalIsTakenUp == row.status = "resumed" ~> row.status # "resumed" \/ failures > 0

\* The clearance the row, or the launch that took it up, still holds.
Cleared == IF \/ row.status = "resumed"
              \/ \E w \in Workers : /\ pc[w] \in {"emit", "drive"}
                                    /\ copy[w].status = "executing"
                                    /\ GateIsApproved(w)
           THEN NextStep(row) ELSE 0

Contract == INSTANCE GatedExecution
    WITH plan <- row.plan, calls <- calls, cleared <- Cleared,
         over <- row.status \in Terminal

\* With one request at a time the service keeps the contract of gated execution,
\* through every failure between two statements.
ImplementsGatedExecution == Contract!Spec

\* With one request at a time, and none that dies, the read model shows the mission
\* as it is whenever no request is being served.
ViewIsCurrent ==
    failures = 0 /\ row # Absent /\ (\A w \in Workers : pc[w] = "idle") => view = row.status

-----------------------------------------------------------------------------
(* What the documents say and the code does not do. *)

\* launch.py:49-51: a stray launch does nothing; ADR 0042: no side effect twice.
NoStepTwice == \A i, j \in DOMAIN calls : calls[i] = calls[j] => i = j

\* mission.py:216: the rejected action never runs.
RejectedNeverRuns ==
    [][\A i \in DOMAIN decisions :
         decisions[i].verdict = "rejected" => calls' # Append(calls, decisions[i].gate)]_vars

=============================================================================
