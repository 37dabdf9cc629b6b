------------------------ MODULE MissionServiceProofs ------------------------
(***************************************************************************)
(* Theorems about MissionService, for every set of workers and of plans    *)
(* and every number of requests and failures: types, the coherence of the  *)
(* row, and that no gate is passed without a committed approval.           *)
(*                                                                         *)
(* The invariant has one part per worker.  A step of one worker touches    *)
(* what another one's part says only through the database, and there only  *)
(* monotonically: `Grows' says so, and the other workers' parts follow.    *)
(*                                                                         *)
(* Then what the events account for: one creation, and an approval of each *)
(* gate that was passed.  Last the service with one worker, which keeps    *)
(* the read model current and implements GatedExecution.                   *)
(***************************************************************************)
EXTENDS MissionService, MissionLifecycleProofs, SequenceTheorems, FiniteSetTheorems

\* An approval a mission holds was committed.
Recorded(m) == IsApproved(m) => Approvals(m.approval.step) # {}

\* What RowIsCoherent says, of any mission.
Coherent(m) ==
    m.status \in {"awaiting", "resumed"} =>
        /\ AtGate(m)
        /\ m.approval = [step     |-> NextStep(m),
                         decision |-> IF m.status = "awaiting" THEN "pending"
                                      ELSE "approved"]

Commanding == {"write", "show", "commit"}
Launching  == {"launch", "begin", "emit", "drive", "called", "project"}
Driving    == {"emit", "drive", "called"}

WritesRow(op) == op \in {"create", "approve", "reject"}

\* The request a worker serves: which command is where.
Protocol(w) ==
    /\ pc[w] = "idle" <=> cmd[w] = "none"
    /\ pc[w] = "write" => WritesRow(cmd[w])
    /\ pc[w] \in Launching => cmd[w] \in {"start", "approve"}
    /\ pc[w] = "emit" => owed[w] \in Event

\* The copy it holds: a coherent mission, of the row's plan unless it creates it.  What
\* it was approved for is committed, or is what its own command is about to commit.
CopyOK(w) ==
    /\ cmd[w] # "none" => /\ copy[w] \in Mission
                          /\ copy[w].plan # NoPlan
                          /\ Coherent(copy[w])
    /\ cmd[w] \notin {"none", "create"} => row # Absent /\ copy[w].plan = row.plan
    /\ cmd[w] = "create" => copy[w].approval = NoApproval
    /\ cmd[w] = "approve" /\ pc[w] \in Commanding => IsApproved(copy[w])
    /\ cmd[w] = "reject" => copy[w].approval.decision = "rejected"
    /\ Recorded(copy[w]) \/ (cmd[w] = "approve" /\ pc[w] \in Commanding)

\* A drive holds an executing mission, and the clearance it has is for its next step.
DriveOK(w) ==
    /\ pc[w] \in {"drive", "called"} => copy[w].status = "executing"
    /\ pc[w] \in Driving =>
         /\ run[w].start <= copy[w].results
         /\ GateIsApproved(w) => copy[w].approval.step = NextStep(copy[w])

WorkerOK(w) == Protocol(w) /\ CopyOK(w) /\ DriveOK(w)

RowOK == /\ row # Absent => row.plan # NoPlan
         /\ Coherent(row)
         /\ Recorded(row)
         /\ calls # <<>> => row # Absent

\* The row is locked exactly by a command that has written it, and a mission that is
\* being created does not exist yet.
LocksOK ==
    \A w \in Workers :
        /\ rowLock = w <=> WritesRow(cmd[w]) /\ pc[w] \in {"show", "commit"}
        /\ rowLock = w /\ cmd[w] = "create" => row = Absent

IInv == /\ TypeOK
        /\ \A w \in Workers : WorkerOK(w)
        /\ RowOK
        /\ LocksOK
        /\ GateRespected

-----------------------------------------------------------------------------
(* What one worker's step does to the others. *)

\* The database changes for the others: a mission that exists keeps its plan, and a
\* committed decision stays.
Grows == /\ row # Absent => row' # Absent /\ row'.plan = row.plan
         /\ \A s : Approvals(s) # {} => Approvals(s)' # {}

Same(v) == /\ pc'[v] = pc[v] /\ cmd'[v] = cmd[v] /\ copy'[v] = copy[v]
           /\ run'[v] = run[v] /\ owed'[v] = owed[v]

LEMMA OthersKeep ==
    ASSUME NEW v \in Workers, WorkerOK(v), Grows, Same(v)
    PROVE  WorkerOK(v)'
<1>1. Protocol(v)'
  BY DEF WorkerOK, Protocol, Same
<1>2. Recorded(copy[v]) => Recorded(copy[v])'
  BY DEF Recorded, Grows, Same, IsApproved
<1>3. CopyOK(v)'
  BY <1>2 DEF WorkerOK, CopyOK, Same, Grows, Coherent, IsApproved, AtGate, StepsLeft, NextStep
<1>4. DriveOK(v)'
  BY DEF WorkerOK, DriveOK, Same, GateIsApproved, IsApproved, NextStep
<1> QED
  BY <1>1, <1>3, <1>4 DEF WorkerOK

\* Nothing is committed.
LEMMA NothingCommitted ==
    ASSUME UNCHANGED <<row, decisions>>
    PROVE  Grows
  BY DEF Grows, Approvals

\* One worker's step: the others keep their parts.
LEMMA OneMoves ==
    ASSUME NEW w \in Workers, \A v \in Workers : WorkerOK(v), Grows,
           \A v \in Workers \ {w} : Same(v), WorkerOK(w)'
    PROVE  \A v \in Workers : WorkerOK(v)'
  BY OthersKeep

\* Nothing that the parts about the database speak of changes.
LEMMA QuietKeeps ==
    ASSUME RowOK, GateRespected, UNCHANGED <<row, calls, decisions>>
    PROVE  RowOK' /\ GateRespected'
  BY DEF RowOK, GateRespected, Coherent, Recorded, IsApproved, Approvals, AtGate, StepsLeft,
         NextStep

\* The row is replaced by a coherent mission of the same plan, whose approval is recorded.
LEMMA ReplaceKeeps ==
    ASSUME RowOK, GateRespected, row # Absent, row' \in Mission, row'.plan = row.plan,
           Coherent(row'), Recorded(row'), UNCHANGED <<calls, decisions>>
    PROVE  Grows /\ RowOK' /\ GateRespected'
<1>1. row' # Absent
  BY Statuses
<1>2. Grows
  BY <1>1 DEF Grows, Approvals
<1>3. Coherent(row)' /\ Recorded(row)'
  BY DEF Coherent, Recorded, Approvals, IsApproved, AtGate, StepsLeft, NextStep
<1>4. RowOK'
  BY <1>1, <1>3 DEF RowOK
<1>5. GateRespected'
  BY DEF GateRespected, Approvals
<1> QED
  BY <1>2, <1>4, <1>5

-----------------------------------------------------------------------------
(* Requests arrive. *)

\* An absent mission is coherent and holds no approval.
LEMMA AbsentIsFine == Coherent(Absent) /\ ~IsApproved(Absent)
  BY Statuses DEF Coherent, IsApproved, NoApproval

LEMMA ArriveKeeps ==
    ASSUME IInv, NEW w \in Workers, NEW m \in Mission, NEW op, NEW where,
           Hold(w, m), Arrive(w, op, where),
           <<op, where>> \in {<<"create", "write">>, <<"repeat", "show">>, <<"start", "show">>,
                              <<"approve", "write">>, <<"reject", "write">>},
           m.plan # NoPlan, Coherent(m),
           op # "create" => row # Absent /\ m.plan = row.plan,
           op = "create" => m.approval = NoApproval,
           op = "approve" => IsApproved(m),
           op = "reject" => m.approval.decision = "rejected",
           op # "approve" => Recorded(m)
    PROVE  IInv'
<1>1. /\ pc[w] = "idle"
      /\ pc'[w] = where /\ cmd'[w] = op /\ copy'[w] = m /\ run'[w] = run[w]
      /\ \A v \in Workers \ {w} : Same(v)
      /\ UNCHANGED <<row, view, events, rowLock, viewLock, run, owed, failures, calls, decisions>>
  BY DEF IInv, TypeOK, Hold, Arrive, Goto, Same, db, history
<1>2. TypeOK'
  BY DEF IInv, TypeOK, Hold, Arrive, Goto, PC, db, history
<1>3. Grows
  BY <1>1, NothingCommitted
<1>4. Recorded(m) => Recorded(copy[w])'
  BY <1>1 DEF Recorded, IsApproved, Approvals
<1>5. WorkerOK(w)'
  <2>1. Protocol(w)' /\ DriveOK(w)'
    BY <1>1 DEF Protocol, DriveOK, WritesRow, Launching, Driving
  <2>2. CopyOK(w)'
    BY <1>1, <1>4 DEF CopyOK, Commanding, IsApproved, Coherent, AtGate, StepsLeft, NextStep
  <2> QED
    BY <2>1, <2>2 DEF WorkerOK
<1>6. \A v \in Workers : WorkerOK(v)'
  BY <1>1, <1>3, <1>5, OneMoves DEF IInv
<1>7. LocksOK'
  BY <1>1 DEF IInv, LocksOK, Same, WritesRow
<1>8. RowOK' /\ GateRespected'
  BY <1>1, QuietKeeps DEF IInv
<1> QED
  BY <1>2, <1>6, <1>7, <1>8 DEF IInv

\* The row, as the invariant describes it.
LEMMA RowFacts ==
    ASSUME IInv
    PROVE  /\ row # Absent => row \in Mission /\ row.plan # NoPlan
           /\ Coherent(row) /\ Recorded(row)
           /\ HasActiveApproval(row) => row # Absent
           /\ row.status \in Status => row # Absent
  BY Statuses DEF IInv, RowOK, TypeOK, HasActiveApproval, NoApproval

LEMMA AcceptKeeps ==
    ASSUME IInv, NEW w \in Workers, Accept(w)
    PROVE  IInv'
<1>1. CASE CreateNew(w)
  <2>1. PICK p \in Plans : Hold(w, SetPlan(NewMission, p)) /\ Arrive(w, "create", "write")
    BY <1>1 DEF CreateNew
  <2>2. NewMission \in Mission
    BY DEF NewMission, Mission, Status, NonTerminal, NoPlan, Approval, NoApproval
  <2>3. p \in Seq(BOOLEAN) /\ p # NoPlan
    BY PlansAssumption DEF NoPlan
  <2> DEFINE m == SetPlan(NewMission, p)
  <2>4. m \in Mission
    BY <2>2, <2>3, MethodsReturnMissions
  <2>5. m.plan = p /\ m.status = "planned" /\ m.approval = NoApproval
    BY <2>2, PlanFields DEF NewMission
  <2>6. Coherent(m) /\ Recorded(m)
    BY <2>5 DEF Coherent, Recorded, IsApproved, NoApproval
  <2> QED
    BY <2>1, <2>3, <2>4, <2>5, <2>6, ArriveKeeps
<1>2. CASE CreateRepeat(w) \/ StartMission(w)
  <2>1. row # Absent /\ Hold(w, row)
    BY <1>2, RowFacts DEF CreateRepeat, StartMission, Status, NonTerminal
  <2>2. Arrive(w, "repeat", "show") \/ Arrive(w, "start", "show")
    BY <1>2 DEF CreateRepeat, StartMission
  <2> QED
    BY <2>1, <2>2, RowFacts, ArriveKeeps
\* A decision is made on a paused mission: its request is the one of the gate it is at.
<1>3. CASE ApproveStep(w) \/ RejectStep(w)
  <2>1. row \in Mission /\ row.plan # NoPlan /\ HasActiveApproval(row)
    BY <1>3, RowFacts DEF ApproveStep, RejectStep
  <2>2. CASE ApproveStep(w)
    <3>1. row.status = "awaiting"
      BY <2>1, <2>2, Guards DEF ApproveStep
    <3>2. AtGate(row) /\ row.approval = [step |-> NextStep(row), decision |-> "pending"]
      BY <3>1, RowFacts DEF Coherent
    <3> DEFINE m == Approve(row)
    <3>3. m.approval = [step |-> NextStep(row), decision |-> "approved"]
      BY <2>1, <3>2 DEF Approve, Decide, Mission
    <3>4. /\ m \in Mission /\ m.plan = row.plan /\ m.status = "resumed"
          /\ NextStep(m) = NextStep(row) /\ AtGate(m)
      BY <2>1, <3>2, MethodsReturnMissions, DecideFields DEF NextStep, AtGate, StepsLeft
    <3>5. Coherent(m) /\ IsApproved(m)
      BY <3>3, <3>4 DEF Coherent, IsApproved
    <3> QED
      BY <2>1, <2>2, <3>4, <3>5, RowFacts, ArriveKeeps DEF ApproveStep
  <2>3. CASE RejectStep(w)
    <3> DEFINE m == Reject(row)
    <3>1. m.approval.decision = "rejected" /\ m.status = "cancelled"
      BY <2>1 DEF Reject, Decide, Mission, Approval
    <3>2. m \in Mission /\ m.plan = row.plan
      BY <2>1, MethodsReturnMissions, DecideFields
    <3>3. Coherent(m) /\ Recorded(m)
      BY <3>1 DEF Coherent, Recorded, IsApproved
    <3> QED
      BY <2>1, <2>3, <3>1, <3>2, <3>3, RowFacts, ArriveKeeps DEF RejectStep
  <2> QED
    BY <1>3, <2>2, <2>3
<1> QED
  BY <1>1, <1>2, <1>3 DEF Accept

-----------------------------------------------------------------------------
(* Commands. *)

\* A worker that leaves holds nothing the invariant speaks of.
LEMMA LeaveKeeps ==
    ASSUME IInv, NEW w \in Workers, Leave(w)
    PROVE  /\ WorkerOK(w)'
           /\ \A v \in Workers \ {w} : Same(v)
           /\ pc' \in [Workers -> PC]
           /\ cmd' \in [Workers -> {"none", "create", "repeat", "start", "approve", "reject"}]
           /\ copy' \in [Workers -> Mission \union {Absent}]
           /\ run' \in [Workers -> [resuming : BOOLEAN, start : Nat]]
           /\ owed' \in [Workers -> Event \union {"none"}]
           /\ pc'[w] = "idle" /\ cmd'[w] = "none"
<1> USE DEF IInv, TypeOK, Leave, Goto, Hold, Owe
<1>1. /\ pc'[w] = "idle" /\ cmd'[w] = "none" /\ copy'[w] = Absent
      /\ \A v \in Workers \ {w} : Same(v)
  BY DEF Same
<1>2. Protocol(w)' /\ DriveOK(w)'
  BY <1>1 DEF Protocol, DriveOK, Launching, Driving
<1>3. CopyOK(w)'
  BY <1>1, AbsentIsFine DEF CopyOK, Recorded, IsApproved
<1> QED
  BY <1>1, <1>2, <1>3 DEF WorkerOK, PC, NoRun

LEMMA WriteRowKeeps ==
    ASSUME IInv, NEW w \in Workers, WriteRow(w)
    PROVE  IInv'
<1>1. /\ pc[w] = "write" /\ pc'[w] = "show" /\ rowLock' = w /\ rowLock \in {NoWorker, w}
      /\ cmd[w] = "create" => row = Absent
      /\ \A v \in Workers \ {w} : Same(v)
      /\ cmd'[w] = cmd[w] /\ copy'[w] = copy[w] /\ run'[w] = run[w] /\ owed'[w] = owed[w]
      /\ UNCHANGED <<row, view, events, viewLock, cmd, copy, run, owed, requests, failures,
                     calls, decisions>>
  BY DEF IInv, TypeOK, WriteRow, Goto, Same, Free, budget, history
<1>2. TypeOK'
  BY <1>1 DEF IInv, TypeOK, WriteRow, Goto, PC
<1>3. Grows
  BY <1>1, NothingCommitted
<1>4. WorkerOK(w) /\ WritesRow(cmd[w])
  BY <1>1 DEF IInv, WorkerOK, Protocol
<1>5. Recorded(copy[w]) => Recorded(copy[w])'
  BY <1>1 DEF Recorded, IsApproved, Approvals
<1>6. WorkerOK(w)'
  <2>1. Protocol(w)' /\ DriveOK(w)'
    BY <1>1, <1>4 DEF WorkerOK, Protocol, DriveOK, Launching, Driving
  <2>2. CopyOK(w)'
    BY <1>1, <1>4, <1>5
       DEF WorkerOK, CopyOK, Commanding, IsApproved, Coherent, AtGate, StepsLeft, NextStep
  <2> QED
    BY <2>1, <2>2 DEF WorkerOK
<1>7. \A v \in Workers : WorkerOK(v)'
  BY <1>1, <1>3, <1>6, OneMoves DEF IInv
<1>8. LocksOK'
  BY <1>1, <1>4, NoWorkerAssumption DEF IInv, LocksOK, Same
<1>9. RowOK' /\ GateRespected'
  BY <1>1, QuietKeeps DEF IInv
<1> QED
  BY <1>2, <1>7, <1>8, <1>9 DEF IInv

LEMMA ConflictingCreateKeeps ==
    ASSUME IInv, NEW w \in Workers, ConflictingCreate(w)
    PROVE  IInv'
<1>1. /\ Leave(w) /\ pc[w] = "write"
      /\ UNCHANGED <<row, view, events, rowLock, viewLock, requests, failures, calls, decisions>>
  BY DEF ConflictingCreate, db, budget, history
<1>2. TypeOK'
  BY <1>1, LeaveKeeps DEF IInv, TypeOK
<1>3. \A v \in Workers : WorkerOK(v)'
  BY <1>1, LeaveKeeps, NothingCommitted, OneMoves DEF IInv
<1>4. LocksOK'
  BY <1>1, LeaveKeeps DEF IInv, LocksOK, Same, WritesRow
<1>5. RowOK' /\ GateRespected'
  BY <1>1, QuietKeeps DEF IInv
<1> QED
  BY <1>2, <1>3, <1>4, <1>5 DEF IInv

LEMMA ShowViewKeeps ==
    ASSUME IInv, NEW w \in Workers, ShowView(w)
    PROVE  IInv'
<1>1. /\ pc[w] = "show" /\ pc'[w] = "commit" /\ viewLock' \in {viewLock, w}
      /\ \A v \in Workers \ {w} : Same(v)
      /\ cmd'[w] = cmd[w] /\ copy'[w] = copy[w] /\ run'[w] = run[w] /\ owed'[w] = owed[w]
      /\ UNCHANGED <<row, view, events, rowLock, cmd, copy, run, owed, requests, failures,
                     calls, decisions>>
  BY DEF IInv, TypeOK, ShowView, Goto, Same, budget, history
<1>2. TypeOK'
  BY <1>1 DEF IInv, TypeOK, ShowView, Goto, PC
<1>3. Grows
  BY <1>1, NothingCommitted
<1>4. WorkerOK(w)
  BY DEF IInv
<1>5. Recorded(copy[w]) => Recorded(copy[w])'
  BY <1>1 DEF Recorded, IsApproved, Approvals
<1>6. WorkerOK(w)'
  <2>1. Protocol(w)' /\ DriveOK(w)'
    BY <1>1, <1>4 DEF WorkerOK, Protocol, DriveOK, Launching, Driving
  <2>2. CopyOK(w)'
    BY <1>1, <1>4, <1>5
       DEF WorkerOK, CopyOK, Commanding, IsApproved, Coherent, AtGate, StepsLeft, NextStep
  <2> QED
    BY <2>1, <2>2 DEF WorkerOK
<1>7. \A v \in Workers : WorkerOK(v)'
  BY <1>1, <1>3, <1>6, OneMoves DEF IInv
<1>8. LocksOK'
  BY <1>1 DEF IInv, LocksOK, Same
<1>9. RowOK' /\ GateRespected'
  BY <1>1, QuietKeeps DEF IInv
<1> QED
  BY <1>2, <1>7, <1>8, <1>9 DEF IInv

LEMMA OneElement == ASSUME NEW S, NEW x \in S PROVE <<x>> \in Seq(S)
  OBVIOUS

\* What a command commits to the history of decisions: nothing that was there goes, and a
\* decision is there at once.
LEMMA DecisionsCommitted ==
    ASSUME IInv, NEW w \in Workers, pc[w] = "commit", decisions' = decisions \o Decision(w)
    PROVE  /\ decisions' \in Seq(Decisions)
           /\ \A t : Approvals(t) # {} => Approvals(t)' # {}
           /\ cmd[w] \notin {"approve", "reject"} => decisions' = decisions
           /\ \A t : cmd[w] = "approve" /\ t = copy[w].approval.step => Approvals(t)' # {}
<1> DEFINE d == Decision(w)
<1>1. /\ decisions \in Seq(Decisions)
      /\ cmd[w] # "none" /\ copy[w] \in Mission
      /\ cmd[w] = "approve" => copy[w].approval.decision = "approved"
      /\ cmd[w] = "reject" => copy[w].approval.decision = "rejected"
  BY DEF IInv, TypeOK, WorkerOK, Protocol, CopyOK, Commanding, IsApproved
<1>2. cmd[w] \notin {"approve", "reject"} => d = <<>>
  BY DEF Decision
<1> DEFINE e == [verdict |-> copy[w].approval.decision, gate |-> copy[w].approval.step]
<1>3. cmd[w] \in {"approve", "reject"} => d = <<e>> /\ e \in Decisions
  <2>1. copy[w].approval.step \in Nat
    BY <1>1 DEF Mission, Approval
  <2> QED
    BY <1>1, <2>1 DEF Decision, Decisions
<1>4. d \in Seq(Decisions)
  <2> HIDE DEF d, e
  <2>1. CASE cmd[w] \notin {"approve", "reject"}
    BY <1>2, <2>1, EmptySeq
  <2>2. CASE cmd[w] \in {"approve", "reject"}
    BY <1>3, <2>2, OneElement
  <2> QED
    BY <2>1, <2>2
<1>5. /\ decisions' \in Seq(Decisions)
      /\ Len(decisions') = Len(decisions) + Len(d)
      /\ Len(decisions) \in Nat /\ Len(d) \in Nat
      /\ DOMAIN decisions = 1..Len(decisions) /\ DOMAIN decisions' = 1..Len(decisions')
      /\ \A i \in 1..(Len(decisions) + Len(d)) :
           decisions'[i] = IF i <= Len(decisions) THEN decisions[i] ELSE d[i - Len(decisions)]
  <2> HIDE DEF d
  <2>1. decisions' = decisions \o d
    BY DEF d
  <2> QED
    BY <1>1, <1>4, <2>1, ConcatProperties, LenProperties
<1>6. \A i \in DOMAIN decisions : i \in DOMAIN decisions' /\ decisions'[i] = decisions[i]
  <2> HIDE DEF d
  <2> QED
    BY <1>5
<1>7. \A t : Approvals(t) # {} => Approvals(t)' # {}
  BY <1>6 DEF Approvals
<1>8. cmd[w] \notin {"approve", "reject"} => decisions' = decisions
  BY <1>1, <1>2, ConcatEmptySeq
<1>9. ASSUME NEW t, cmd[w] = "approve", t = copy[w].approval.step
      PROVE  Approvals(t)' # {}
  <2>1. d = <<e>> /\ e.verdict = "approved" /\ e.gate = t
    BY <1>1, <1>3, <1>9
  <2> HIDE DEF d, e
  <2>2. Len(decisions) + 1 \in DOMAIN decisions' /\ decisions'[Len(decisions) + 1] = e
    BY <1>5, <2>1
  <2> QED
    BY <2>1, <2>2 DEF Approvals
<1> QED
  BY <1>5, <1>7, <1>8, <1>9

LEMMA WrittenEvents == ASSUME NEW op PROVE Written(op) \in Seq(Event)
<1>1. {"Created", "Planned", "Approved", "Rejected"} \subseteq Event
  BY DEF Event
<1>2. \A x, y \in Event : <<x, y>> \in Seq(Event)
  OBVIOUS
<1>3. CASE op = "create"
  BY <1>1, <1>2, <1>3 DEF Written
<1>4. CASE op \in {"approve", "reject"}
  BY <1>1, <1>4, OneElement DEF Written
<1>5. CASE op \notin {"create", "approve", "reject"}
  BY <1>5, EmptySeq DEF Written
<1> QED
  BY <1>3, <1>4, <1>5

LEMMA CommitKeeps ==
    ASSUME IInv, NEW w \in Workers, Commit(w)
    PROVE  IInv'
<1> USE DEF IInv
<1>1. /\ pc[w] = "commit" /\ cmd[w] # "none"
      /\ copy[w] \in Mission /\ copy[w].plan # NoPlan /\ Coherent(copy[w])
      /\ rowLock = w <=> WritesRow(cmd[w])
  BY DEF Commit, WorkerOK, Protocol, CopyOK, LocksOK
<1>2. /\ row' = IF rowLock = w THEN copy[w] ELSE row
      /\ view' = IF viewLock = w THEN copy[w].status ELSE view
      /\ events' = events \o Written(cmd[w])
      /\ decisions' = decisions \o Decision(w)
      /\ rowLock' = IF rowLock = w THEN NoWorker ELSE rowLock
      /\ viewLock' = IF viewLock = w THEN NoWorker ELSE viewLock
      /\ UNCHANGED <<requests, failures, calls>>
  BY DEF Commit, Release, budget
<1>3. /\ decisions' \in Seq(Decisions)
      /\ \A t : Approvals(t) # {} => Approvals(t)' # {}
      /\ cmd[w] \notin {"approve", "reject"} => decisions' = decisions
      /\ \A t : cmd[w] = "approve" /\ t = copy[w].approval.step => Approvals(t)' # {}
  BY <1>1, <1>2, DecisionsCommitted
\* The worker goes on to its launch, or leaves.
<1>4. \/ Leave(w)
      \/ /\ cmd[w] \in {"start", "approve"} /\ pc' = [pc EXCEPT ![w] = "launch"]
         /\ UNCHANGED <<cmd, copy, run, owed>>
  BY DEF Commit, Return, Launches, Goto
<1>5. /\ \A v \in Workers \ {w} : Same(v)
      /\ pc'[w] \in {"idle", "launch"}
      /\ pc' \in [Workers -> PC]
      /\ cmd' \in [Workers -> {"none", "create", "repeat", "start", "approve", "reject"}]
      /\ copy' \in [Workers -> Mission \union {Absent}]
      /\ run' \in [Workers -> [resuming : BOOLEAN, start : Nat]]
      /\ owed' \in [Workers -> Event \union {"none"}]
  <2>1. CASE Leave(w)
    BY <2>1, LeaveKeeps
  <2>2. CASE ~Leave(w)
    BY <1>4, <2>2 DEF TypeOK, Same, PC
  <2> QED
    BY <2>1, <2>2
<1>6. TypeOK'
  <2>1. events' \in Seq(Event)
    BY <1>2, WrittenEvents, ConcatProperties DEF TypeOK
  <2>2. row' \in Mission \union {Absent} /\ view' \in Status \union {"none"}
    BY <1>1, <1>2 DEF TypeOK, Mission
  <2> QED
    BY <1>2, <1>3, <1>5, <2>1, <2>2 DEF TypeOK
\* What became of the row: left alone, created, or replaced with a decision on it.
<1>7. Grows /\ RowOK' /\ GateRespected'
  <2>1. CASE ~WritesRow(cmd[w])
    <3>1. UNCHANGED <<row, decisions>>
      BY <1>1, <1>2, <1>3, <2>1 DEF WritesRow
    <3> QED
      BY <1>2, <3>1, QuietKeeps, NothingCommitted
  <2>2. CASE cmd[w] = "create"
    <3>1. row = Absent /\ row' = copy[w] /\ copy[w].approval = NoApproval /\ decisions' = decisions
      BY <1>1, <1>2, <1>3, <2>2 DEF LocksOK, WritesRow, WorkerOK, CopyOK
    <3>2. calls = <<>> /\ calls' = <<>>
      BY <1>2, <3>1 DEF RowOK
    <3>3. Grows /\ GateRespected'
      BY <1>3, <3>1, <3>2 DEF Grows, GateRespected
    <3>4. Coherent(row)' /\ Recorded(row)'
      BY <1>1, <3>1 DEF Coherent, Recorded, IsApproved, NoApproval, AtGate, StepsLeft, NextStep
    <3> QED
      BY <1>1, <3>1, <3>2, <3>3, <3>4 DEF RowOK
  <2>3. CASE cmd[w] \in {"approve", "reject"}
    <3>1. /\ row # Absent /\ row' = copy[w] /\ copy[w].plan = row.plan /\ row' # Absent
          /\ row.plan # NoPlan
      BY <1>1, <1>2, <2>3, Statuses DEF WritesRow, WorkerOK, CopyOK, RowOK
    <3>2. Grows
      BY <1>3, <3>1 DEF Grows
    <3>3. GateRespected'
      BY <1>2, <1>3, <3>1 DEF GateRespected
    <3>4. Coherent(row)'
      BY <1>1, <3>1 DEF Coherent, AtGate, StepsLeft, NextStep
    <3>5. Recorded(row)'
      <4>1. CASE cmd[w] = "approve"
        BY <1>3, <3>1, <4>1 DEF Recorded
      <4>2. CASE cmd[w] = "reject"
        BY <3>1, <4>2 DEF Recorded, IsApproved, WorkerOK, CopyOK
      <4> QED
        BY <2>3, <4>1, <4>2
    <3> QED
      BY <3>1, <3>2, <3>3, <3>4, <3>5 DEF RowOK
  <2> QED
    BY <2>1, <2>2, <2>3 DEF WritesRow
<1>8. WorkerOK(w)'
  <2>1. CASE Leave(w)
    BY <2>1, LeaveKeeps
  <2>2. CASE ~Leave(w)
    <3>1. /\ cmd[w] \in {"start", "approve"} /\ pc'[w] = "launch"
          /\ cmd'[w] = cmd[w] /\ copy'[w] = copy[w] /\ run'[w] = run[w]
      BY <1>4, <2>2 DEF TypeOK
    <3>2. Protocol(w)' /\ DriveOK(w)'
      BY <3>1 DEF Protocol, DriveOK, Launching, Driving
    <3>3. Recorded(copy[w])'
      <4>1. CASE cmd[w] = "approve"
        BY <1>3, <3>1, <4>1 DEF Recorded
      <4>2. CASE cmd[w] = "start"
        BY <1>3, <3>1, <4>2 DEF Recorded, IsApproved, WorkerOK, CopyOK
      <4> QED
        BY <3>1, <4>1, <4>2
    <3>4. CopyOK(w)'
      BY <1>1, <1>7, <3>1, <3>3
         DEF WorkerOK, CopyOK, Grows, Commanding, Coherent, AtGate, StepsLeft, NextStep
    <3> QED
      BY <3>2, <3>4 DEF WorkerOK
  <2> QED
    BY <2>1, <2>2
<1>9. \A v \in Workers : WorkerOK(v)'
  BY <1>5, <1>7, <1>8, OneMoves
\* A creation that is about to commit still finds no mission: who locks the row is alone.
<1>10. LocksOK'
  <2> SUFFICES ASSUME NEW v \in Workers
               PROVE  /\ (rowLock = v)' <=> WritesRow(cmd[v])' /\ pc'[v] \in {"show", "commit"}
                      /\ rowLock' = v /\ cmd'[v] = "create" => row' = Absent
    BY DEF LocksOK
  <2>1. CASE v = w
    BY <1>2, <1>5, <2>1, NoWorkerAssumption
  <2>2. CASE v # w
    <3>1. Same(v) /\ (rowLock' = v <=> rowLock = v)
      BY <1>2, <1>5, <2>2, NoWorkerAssumption
    <3>2. rowLock = v => row' = row
      BY <1>2, <2>2
    <3> QED
      BY <3>1, <3>2 DEF LocksOK, Same, WritesRow
  <2> QED
    BY <2>1, <2>2
<1> QED
  BY <1>6, <1>7, <1>9, <1>10

-----------------------------------------------------------------------------
(* Launches. *)

\* The worker of a launch holds a mission that exists, and no lock on its row.
LEMMA LaunchFacts ==
    ASSUME IInv, NEW w \in Workers, pc[w] \in Launching
    PROVE  /\ cmd[w] \in {"start", "approve"}
           /\ copy[w] \in Mission /\ copy[w].plan # NoPlan /\ Coherent(copy[w])
           /\ row \in Mission /\ row # Absent /\ copy[w].plan = row.plan
           /\ Recorded(copy[w])
           /\ rowLock # w
  BY DEF IInv, TypeOK, WorkerOK, Protocol, CopyOK, LocksOK, Launching, Commanding

\* The parts of the invariant, for a step of a launch that writes no lock.
LEMMA LaunchKeeps ==
    ASSUME IInv, NEW w \in Workers, pc[w] \in Launching, TypeOK',
           \A v \in Workers \ {w} : Same(v), WorkerOK(w)',
           pc'[w] \notin {"show", "commit"},
           rowLock' = rowLock \/ (rowLock = w /\ rowLock' = NoWorker),
           Grows, RowOK', GateRespected'
    PROVE  IInv'
<1>1. \A v \in Workers : WorkerOK(v)'
  BY OneMoves DEF IInv
<1>2. LocksOK'
  BY LaunchFacts DEF IInv, LocksOK, Same, WritesRow
<1> QED
  BY <1>1, <1>2 DEF IInv

\* What a save of the launch does to the row.
LEMMA SaveKeeps ==
    ASSUME IInv, NEW w \in Workers, pc[w] \in Launching, NEW m \in Mission,
           m.plan = copy[w].plan, Coherent(m), Recorded(m), SaveNow(w, m),
           UNCHANGED <<calls, decisions>>
    PROVE  Grows /\ RowOK' /\ GateRespected'
<1>1. row' = m
  BY DEF SaveNow
<1> QED
  BY <1>1, LaunchFacts, ReplaceKeeps DEF IInv

LEMMA LaunchLoadKeeps ==
    ASSUME IInv, NEW w \in Workers, LaunchLoad(w)
    PROVE  IInv'
<1>1. /\ pc[w] \in Launching /\ pc'[w] \in {"begin", "project"}
      /\ copy'[w] = row /\ cmd'[w] = cmd[w]
      /\ \A v \in Workers \ {w} : Same(v)
      /\ UNCHANGED <<row, view, events, rowLock, viewLock, cmd, run, owed, requests, failures,
                     calls, decisions>>
  BY DEF IInv, TypeOK, LaunchLoad, Hold, Goto, Same, Launching, db, budget, history
<1>2. TypeOK'
  BY <1>1 DEF IInv, TypeOK, LaunchLoad, Hold, Goto, PC
<1>3. Grows /\ RowOK' /\ GateRespected'
  BY <1>1, QuietKeeps, NothingCommitted DEF IInv
<1>4. WorkerOK(w)'
  <2>1. Protocol(w)' /\ DriveOK(w)'
    BY <1>1, LaunchFacts DEF Protocol, DriveOK, Launching, Driving
  <2>2. CopyOK(w)'
    BY <1>1, <1>3, LaunchFacts
       DEF RowOK, CopyOK, Commanding, Coherent, Recorded, IsApproved, AtGate, StepsLeft,
           NextStep, Approvals
  <2> QED
    BY <2>1, <2>2 DEF WorkerOK
<1> QED
  BY <1>1, <1>2, <1>3, <1>4, LaunchKeeps

\* The copy a launch has just saved.
LEMMA HeldCopyOK ==
    ASSUME IInv, NEW w \in Workers, pc[w] \in Launching, NEW m \in Mission,
           m.plan = copy[w].plan, Coherent(copy[w])', Recorded(copy[w])',
           copy'[w] = m, row' = m, cmd'[w] = cmd[w], pc'[w] \in Launching
    PROVE  CopyOK(w)'
<1>1. /\ cmd'[w] \in {"start", "approve"} /\ m.plan # NoPlan
      /\ row' # Absent /\ pc'[w] \notin Commanding'
  BY LaunchFacts, Statuses DEF Launching, Commanding
<1> QED
  BY <1>1 DEF CopyOK

LEMMA BeginDriveKeeps ==
    ASSUME IInv, NEW w \in Workers, BeginDrive(w)
    PROVE  IInv'
<1> DEFINE m == BeginExecution(copy[w])
<1>1. /\ pc[w] \in Launching /\ CanBeginExecution(copy[w]) /\ SaveNow(w, m)
      /\ copy[w] \in Mission
  BY LaunchFacts DEF BeginDrive, Launching
<1>2. /\ m \in Mission /\ m.status = "executing" /\ m.plan = copy[w].plan
      /\ m.results = copy[w].results /\ m.approval = copy[w].approval
  <2>1. m \in Mission
    BY <1>1, MovesReturnMissions
  <2>2. "executing" \in Status
    BY DEF Status, NonTerminal
  <2> QED
    BY <1>1, <2>1, <2>2, MoveFields DEF BeginExecution
<1> HIDE DEF m
<1>3. Coherent(m) /\ Recorded(m)
  BY <1>1, <1>2, LaunchFacts DEF Coherent, Recorded, IsApproved
<1>4. /\ pc'[w] \in {"emit", "drive"} /\ (pc'[w] = "emit" => owed'[w] = "Resumed")
      /\ copy'[w] = m /\ cmd'[w] = cmd[w]
      /\ \A v \in Workers \ {w} : Same(v)
      /\ row' = m
      /\ UNCHANGED <<view, events, rowLock, viewLock, cmd, requests, failures, calls, decisions>>
  BY DEF IInv, TypeOK, BeginDrive, SaveNow, Hold, Goto, Owe, Same, budget, history, m
<1>5. TypeOK'
  <2>1. copy[w].results \in Nat
    BY <1>1, LaunchFacts DEF Mission
  <2>2. run' \in [Workers -> [resuming : BOOLEAN, start : Nat]]
    BY <2>1 DEF IInv, TypeOK, BeginDrive
  <2>3. /\ copy' \in [Workers -> Mission \union {Absent}]
        /\ pc' \in [Workers -> PC]
        /\ owed' \in [Workers -> Event \union {"none"}]
    BY <1>2 DEF IInv, TypeOK, BeginDrive, SaveNow, Hold, Goto, Owe, PC, Event, m
  <2> QED
    BY <1>2, <1>4, <2>2, <2>3 DEF IInv, TypeOK
<1>6. Grows /\ RowOK' /\ GateRespected'
  BY <1>1, <1>2, <1>3, <1>4, SaveKeeps
<1>7. WorkerOK(w)'
  <2>1. Protocol(w)'
    BY <1>1, <1>4, LaunchFacts DEF Protocol, Launching, Event
  <2>2. CopyOK(w)'
    <3>1. Coherent(copy[w])' /\ Recorded(copy[w])'
      BY <1>2, <1>3, <1>4
         DEF Coherent, Recorded, IsApproved, Approvals, AtGate, StepsLeft, NextStep
    <3> QED
      BY <1>1, <1>2, <1>4, <3>1, HeldCopyOK DEF Launching
  \* The clearance the launch takes up was built for the gate it stands before.
  <2>3. copy[w].status = "resumed" => copy[w].approval.step = NextStep(copy[w])
    <3>1. copy[w].status = "resumed" =>
            copy[w].approval = [step |-> NextStep(copy[w]), decision |-> "approved"]
      BY <1>1, LaunchFacts DEF Coherent
    <3> QED
      BY <3>1
  <2>4. DriveOK(w)'
    <3>1. copy[w].results \in Nat
      BY <1>1 DEF Mission
    <3>2. run'[w] = [resuming |-> copy[w].status = "resumed", start |-> copy[w].results]
      BY DEF IInv, TypeOK, BeginDrive
    <3>3. run'[w].start = copy[w].results
      BY <3>2
    <3>4. CASE copy[w].status = "resumed"
      BY <1>2, <1>4, <2>3, <3>1, <3>3, <3>4 DEF DriveOK, GateIsApproved, NextStep
    <3>5. CASE copy[w].status # "resumed"
      <4>1. run'[w] = [resuming |-> FALSE, start |-> copy[w].results]
        BY <3>2, <3>5
      <4> QED
        BY <1>2, <1>4, <3>1, <3>3, <4>1 DEF DriveOK, GateIsApproved
    <3> QED
      BY <3>4, <3>5
  <2> QED
    BY <2>1, <2>2, <2>4 DEF WorkerOK
<1> QED
  BY <1>1, <1>4, <1>5, <1>6, <1>7, LaunchKeeps

LEMMA EmitEventKeeps ==
    ASSUME IInv, NEW w \in Workers, EmitEvent(w)
    PROVE  IInv'
<1>1. /\ pc[w] = "emit" /\ pc[w] \in Launching /\ owed[w] \in Event
      /\ pc'[w] = IF copy[w].status = "executing" THEN "drive" ELSE "project"
      /\ copy'[w] = copy[w] /\ cmd'[w] = cmd[w] /\ run'[w] = run[w]
      /\ \A v \in Workers \ {w} : Same(v)
      /\ events' = Append(events, owed[w])
      /\ UNCHANGED <<row, view, rowLock, viewLock, cmd, copy, run, requests, failures, calls,
                     decisions>>
  BY DEF IInv, TypeOK, WorkerOK, Protocol, EmitEvent, Owe, Goto, Same, Launching, budget, history
<1>2. TypeOK'
  BY <1>1 DEF IInv, TypeOK, EmitEvent, Owe, Goto, PC
<1>3. Grows /\ RowOK' /\ GateRespected'
  BY <1>1, QuietKeeps, NothingCommitted DEF IInv
<1>4. WorkerOK(w)'
  <2>1. Protocol(w)'
    BY <1>1, LaunchFacts DEF Protocol, Launching
  <2>2. CopyOK(w)'
    BY <1>1, <1>3, LaunchFacts
       DEF CopyOK, Grows, Commanding, Coherent, Recorded, IsApproved, AtGate, StepsLeft, NextStep
  <2>3. DriveOK(w)'
    BY <1>1 DEF IInv, WorkerOK, DriveOK, Driving, GateIsApproved, IsApproved, NextStep
  <2> QED
    BY <2>1, <2>2, <2>3 DEF WorkerOK
<1> QED
  BY <1>1, <1>2, <1>3, <1>4, LaunchKeeps

\* A step of a drive that saves m and has an event to write.
LEMMA DriveSavesKeeps ==
    ASSUME IInv, NEW w \in Workers, pc[w] \in {"drive", "called"}, NEW m \in Mission,
           m.plan = copy[w].plan, Coherent(m), Recorded(m), run[w].start <= m.results,
           run[w].resuming /\ m.results = run[w].start /\ IsApproved(m)
             => m.approval.step = NextStep(m),
           NEW event \in Event, DriveSaves(w, m, event)
    PROVE  IInv'
<1>1. /\ pc[w] \in Launching /\ pc'[w] = "emit" /\ owed'[w] = event
      /\ copy'[w] = m /\ cmd'[w] = cmd[w] /\ run'[w] = run[w] /\ row' = m
      /\ SaveNow(w, m)
      /\ \A v \in Workers \ {w} : Same(v)
      /\ UNCHANGED <<view, events, rowLock, viewLock, cmd, run, requests, failures, calls,
                     decisions>>
  BY DEF IInv, TypeOK, DriveSaves, SaveNow, Hold, Goto, Owe, Same, Launching, budget, history
<1>2. TypeOK'
  <2>1. /\ copy' \in [Workers -> Mission \union {Absent}]
        /\ pc' \in [Workers -> PC]
        /\ owed' \in [Workers -> Event \union {"none"}]
    BY DEF IInv, TypeOK, DriveSaves, SaveNow, Hold, Goto, Owe, PC
  <2> QED
    BY <1>1, <2>1 DEF IInv, TypeOK
<1>3. Grows /\ RowOK' /\ GateRespected'
  BY <1>1, SaveKeeps
<1>4. WorkerOK(w)'
  <2>1. Protocol(w)'
    BY <1>1, LaunchFacts DEF Protocol, Launching
  <2>2. Coherent(copy[w])' /\ Recorded(copy[w])'
    BY <1>1 DEF Coherent, Recorded, IsApproved, Approvals, AtGate, StepsLeft, NextStep
  <2>3. CopyOK(w)'
    BY <1>1, <2>2, HeldCopyOK DEF Launching
  <2>4. DriveOK(w)'
    BY <1>1 DEF DriveOK, GateIsApproved, NextStep
  <2> QED
    BY <2>1, <2>3, <2>4 DEF WorkerOK
<1> QED
  BY <1>1, <1>2, <1>3, <1>4, LaunchKeeps

\* What a worker holds in its drive.
LEMMA DriveFacts ==
    ASSUME IInv, NEW w \in Workers, pc[w] \in {"drive", "called"}
    PROVE  /\ copy[w] \in Mission /\ copy[w].status = "executing" /\ Recorded(copy[w])
           /\ copy[w].plan = row.plan
           /\ copy[w].results \in Nat /\ run[w].start \in Nat
           /\ run[w].start <= copy[w].results
           /\ GateIsApproved(w) => copy[w].approval.step = NextStep(copy[w])
<1>1. copy[w] \in Mission /\ Recorded(copy[w]) /\ copy[w].plan = row.plan
  BY LaunchFacts DEF Launching
<1>2. /\ copy[w].status = "executing" /\ run[w].start <= copy[w].results
      /\ GateIsApproved(w) => copy[w].approval.step = NextStep(copy[w])
  BY DEF IInv, WorkerOK, DriveOK, Driving
<1>3. copy[w].results \in Nat /\ run[w].start \in Nat
  BY <1>1 DEF Mission, IInv, TypeOK
<1> QED
  BY <1>1, <1>2, <1>3

LEMMA PauseAtGateKeeps ==
    ASSUME IInv, NEW w \in Workers, PauseAtGate(w)
    PROVE  IInv'
<1> DEFINE m == AwaitApproval(copy[w])
<1>1. pc[w] = "drive" /\ AtGate(copy[w]) /\ DriveSaves(w, m, "AwaitingApproval")
  BY DEF PauseAtGate, Blocked
<1>2. /\ m \in Mission /\ m.status = "awaiting" /\ m.plan = copy[w].plan
      /\ m.results = copy[w].results /\ m.approval = Request(NextStep(copy[w]))
  BY <1>1, DriveFacts, MethodsReturnMissions, DriveFields
<1> HIDE DEF m
<1>3. Coherent(m) /\ ~IsApproved(m)
  BY <1>1, <1>2 DEF Coherent, IsApproved, Request, AtGate, StepsLeft, NextStep
<1> QED
  BY <1>1, <1>2, <1>3, DriveFacts, DriveSavesKeeps DEF Recorded, Event

LEMMA StepSucceedsKeeps ==
    ASSUME IInv, NEW w \in Workers, StepSucceeds(w)
    PROVE  IInv'
<1> DEFINE m == RecordStep(copy[w])
<1>1. pc[w] = "called" /\ DriveSaves(w, m, "StepCompleted")
  BY DEF StepSucceeds
<1>2. /\ m \in Mission /\ m.status = "executing" /\ m.plan = copy[w].plan
      /\ m.results = copy[w].results + 1 /\ m.approval = copy[w].approval
  BY <1>1, DriveFacts, MethodsReturnMissions, DriveFields
<1> HIDE DEF m
<1>3. Coherent(m) /\ Recorded(m)
  BY <1>1, <1>2, DriveFacts DEF Coherent, Recorded, IsApproved
<1>4. run[w].start <= m.results /\ m.results # run[w].start
  BY <1>1, <1>2, DriveFacts
<1> QED
  BY <1>1, <1>2, <1>3, <1>4, DriveSavesKeeps DEF Event

\* Moves that end the mission leave its progress and its approval alone.
LEMMA EndKeeps ==
    ASSUME IInv, NEW w \in Workers, pc[w] \in {"drive", "called"},
           NEW dst \in {"completed", "failed"}, NEW event \in Event,
           DriveSaves(w, Move(copy[w], dst), event)
    PROVE  IInv'
<1> DEFINE m == Move(copy[w], dst)
<1>1. dst \in Status /\ copy[w] \in Mission
  BY DriveFacts DEF Status, Terminal
<1>2. /\ m \in Mission /\ m.status = dst /\ m.plan = copy[w].plan
      /\ m.results = copy[w].results /\ m.approval = copy[w].approval
  <2>1. m \in Mission
    BY <1>1 DEF Move, Mission
  <2> QED
    BY <1>1, <2>1, MoveFields
<1>3. DriveSaves(w, m, event)
  OBVIOUS
<1> HIDE DEF m
<1>4. Coherent(m) /\ Recorded(m)
  BY <1>2, DriveFacts DEF Coherent, Recorded, IsApproved
<1>5. /\ run[w].start <= m.results
      /\ run[w].resuming /\ m.results = run[w].start /\ IsApproved(m)
           => m.approval.step = NextStep(m)
  BY <1>2, DriveFacts DEF GateIsApproved, IsApproved, NextStep
<1> QED
  BY <1>2, <1>3, <1>4, <1>5, DriveSavesKeeps

LEMMA StepFailsKeeps ==
    ASSUME IInv, NEW w \in Workers, StepFails(w)
    PROVE  IInv'
  BY EndKeeps DEF StepFails, Fail, Event

LEMMA FinishMissionKeeps ==
    ASSUME IInv, NEW w \in Workers, FinishMission(w)
    PROVE  IInv'
  BY EndKeeps DEF FinishMission, Complete, Event

\* The step that is taken at a gate is the one whose approval was committed.
LEMMA CallToolKeeps ==
    ASSUME IInv, NEW w \in Workers, CallTool(w)
    PROVE  IInv'
<1> DEFINE s == NextStep(copy[w])
<1>1. /\ pc[w] = "drive" /\ pc[w] \in Launching /\ pc'[w] = "called"
      /\ StepsLeft(copy[w]) /\ ~Blocked(w)
      /\ calls' = Append(calls, s)
      /\ copy'[w] = copy[w] /\ cmd'[w] = cmd[w] /\ run'[w] = run[w]
      /\ \A v \in Workers \ {w} : Same(v)
      /\ UNCHANGED <<row, view, events, rowLock, viewLock, cmd, copy, run, owed, requests,
                     failures, decisions>>
  BY DEF IInv, TypeOK, CallTool, Goto, Same, Launching, db, budget
<1>2. s \in Nat /\ calls \in Seq(Nat)
  BY <1>1, DriveFacts DEF NextStep, IInv, TypeOK
<1>3. row.plan[s] => Approvals(s) # {}
  BY <1>1, DriveFacts DEF Blocked, GateIsApproved, AtGate, Recorded, NextStep
<1> HIDE DEF s
<1>4. TypeOK'
  BY <1>1, <1>2 DEF IInv, TypeOK, CallTool, Goto, PC
<1>5. Grows
  BY <1>1, NothingCommitted
<1>6. RowOK'
  BY <1>1, LaunchFacts
     DEF IInv, RowOK, Coherent, Recorded, IsApproved, Approvals, AtGate, StepsLeft, NextStep
<1>7. GateRespected'
  <2>1. /\ \A t : Approvals(t)' = Approvals(t)
        /\ row' = row
    BY <1>1 DEF Approvals
  <2>2. \A i \in DOMAIN calls' : calls'[i] = s \/ (i \in DOMAIN calls /\ calls'[i] = calls[i])
    BY <1>1, <1>2
  <2> QED
    BY <1>3, <2>1, <2>2 DEF IInv, GateRespected
<1>8. WorkerOK(w)'
  <2>1. Protocol(w)'
    BY <1>1, LaunchFacts DEF Protocol, Launching
  <2>2. CopyOK(w)'
    BY <1>1, <1>5, LaunchFacts
       DEF CopyOK, Grows, Commanding, Coherent, Recorded, IsApproved, AtGate, StepsLeft, NextStep
  <2>3. DriveOK(w)'
    BY <1>1 DEF IInv, WorkerOK, DriveOK, Driving, GateIsApproved, IsApproved, NextStep
  <2> QED
    BY <2>1, <2>2, <2>3 DEF WorkerOK
<1> QED
  BY <1>1, <1>4, <1>5, <1>6, <1>7, <1>8, LaunchKeeps

-----------------------------------------------------------------------------
(* Requests end. *)

LEMMA LaunchProjectKeeps ==
    ASSUME IInv, NEW w \in Workers, LaunchProject(w)
    PROVE  IInv'
<1>1. /\ pc[w] \in Launching /\ Leave(w)
      /\ view' = IF view = "none" THEN view ELSE copy[w].status
      /\ UNCHANGED <<row, events, rowLock, viewLock, requests, failures, calls, decisions>>
  BY DEF LaunchProject, Launching, budget, history
<1>2. copy[w].status \in Status
  BY <1>1, LaunchFacts DEF Mission
<1>3. TypeOK'
  BY <1>1, <1>2, LeaveKeeps DEF IInv, TypeOK
<1>4. Grows /\ RowOK' /\ GateRespected'
  BY <1>1, QuietKeeps, NothingCommitted DEF IInv
<1> QED
  BY <1>1, <1>3, <1>4, LeaveKeeps, LaunchKeeps

LEMMA FailRequestKeeps ==
    ASSUME IInv, NEW w \in Workers, FailRequest(w)
    PROVE  IInv'
<1>1. /\ Leave(w) /\ failures' = failures + 1
      /\ rowLock' = IF rowLock = w THEN NoWorker ELSE rowLock
      /\ viewLock' = IF viewLock = w THEN NoWorker ELSE viewLock
      /\ UNCHANGED <<row, view, events, requests, calls, decisions>>
  BY DEF FailRequest, Release, history
<1>2. TypeOK'
  BY <1>1, LeaveKeeps DEF IInv, TypeOK
<1>3. \A v \in Workers : WorkerOK(v)'
  BY <1>1, LeaveKeeps, NothingCommitted, OneMoves DEF IInv
<1>4. LocksOK'
  BY <1>1, LeaveKeeps, NoWorkerAssumption DEF IInv, LocksOK, Same, WritesRow
<1>5. RowOK' /\ GateRespected'
  BY <1>1, QuietKeeps DEF IInv
<1> QED
  BY <1>2, <1>3, <1>4, <1>5 DEF IInv

-----------------------------------------------------------------------------
(* The invariant, and what follows from it. *)

LEMMA InitIInv == Init => IInv
<1> SUFFICES ASSUME Init PROVE IInv
  OBVIOUS
<1>1. TypeOK
  BY EmptySeq DEF Init, TypeOK, PC, NoRun
<1>2. \A w \in Workers : WorkerOK(w)
  BY AbsentIsFine DEF Init, WorkerOK, Protocol, CopyOK, DriveOK, Recorded, Launching, Driving
<1>3. RowOK
  BY AbsentIsFine DEF Init, RowOK, Recorded
<1>4. LocksOK
  BY NoWorkerAssumption DEF Init, LocksOK, WritesRow
<1>5. GateRespected
  BY DEF Init, GateRespected
<1> QED
  BY <1>1, <1>2, <1>3, <1>4, <1>5 DEF IInv

LEMMA StepIInv == IInv /\ [Next]_vars => IInv'
<1> SUFFICES ASSUME IInv, [Next]_vars PROVE IInv'
  OBVIOUS
<1>1. CASE UNCHANGED vars
  <2>1. UNCHANGED <<row, view, events, rowLock, viewLock, pc, cmd, copy, run, owed, requests,
                    failures, calls, decisions>>
    BY <1>1 DEF vars, db, locals, budget, history
  <2>2. TypeOK'
    BY <2>1 DEF IInv, TypeOK
  <2>3. Grows /\ RowOK' /\ GateRespected'
    BY <2>1, QuietKeeps, NothingCommitted DEF IInv
  <2>4. \A v \in Workers : WorkerOK(v)'
    BY <2>1, <2>3, OthersKeep DEF IInv, Same
  <2>5. LocksOK'
    BY <2>1 DEF IInv, LocksOK, WritesRow
  <2> QED
    BY <2>2, <2>3, <2>4, <2>5 DEF IInv
<1>2. ASSUME NEW w \in Workers, Accept(w) PROVE IInv'
  BY <1>2, AcceptKeeps
<1>3. ASSUME NEW w \in Workers, Command(w) PROVE IInv'
  BY <1>3, WriteRowKeeps, ConflictingCreateKeeps, ShowViewKeeps, CommitKeeps DEF Command
<1>4. ASSUME NEW w \in Workers, Launch(w) PROVE IInv'
  BY <1>4, LaunchLoadKeeps, BeginDriveKeeps, EmitEventKeeps, PauseAtGateKeeps, CallToolKeeps,
     StepSucceedsKeeps, StepFailsKeeps, FinishMissionKeeps, LaunchProjectKeeps DEF Launch
<1>5. ASSUME NEW w \in Workers, FailRequest(w) PROVE IInv'
  BY <1>5, FailRequestKeeps
<1> QED
  BY <1>1, <1>2, <1>3, <1>4, <1>5 DEF Next, Done

LEMMA SpecIInv == Spec => []IInv
  BY InitIInv, StepIInv, PTL DEF Spec

\* Every variable keeps its type.
THEOREM ServiceTypes == Spec => []TypeOK
<1>1. IInv => TypeOK
  BY DEF IInv
<1> QED
  BY <1>1, SpecIInv, PTL

\* No consequential step is called without a committed approval of its own gate, for any
\* number of workers, requests and failures: launch and command interleave at every
\* statement, and rows overwrite each other.
THEOREM ServiceRespectsGates == Spec => []GateRespected
<1>1. IInv => GateRespected
  BY DEF IInv
<1> QED
  BY <1>1, SpecIInv, PTL

\* A paused row holds the request of its next step and an approved one its approval,
\* although the whole-row upsert is last-writer-wins.
THEOREM RowsStayCoherent == Spec => []RowIsCoherent
<1>1. IInv => RowIsCoherent
  BY DEF IInv, RowOK, Coherent, RowIsCoherent
<1> QED
  BY <1>1, SpecIInv, PTL

-----------------------------------------------------------------------------
(* The accounts: what the events and the read model tell of the row. *)

Tally(q, P) == Cardinality({i \in DOMAIN q : q[i] \in P})

LEMMA TallyIsNat ==
    ASSUME NEW S, NEW q \in Seq(S), NEW P
    PROVE  IsFiniteSet({i \in DOMAIN q : q[i] \in P}) /\ Tally(q, P) \in Nat
<1> PICK n \in Nat : n = Len(q)
  BY LenProperties
<1>1. DOMAIN q = 1..n
  BY LenProperties
<1>2. IsFiniteSet(1..n)
  BY FS_Interval
<1>3. {i \in DOMAIN q : q[i] \in P} \subseteq 1..n
  BY <1>1
<1>4. IsFiniteSet({i \in DOMAIN q : q[i] \in P})
  BY <1>2, <1>3, FS_Subset
<1> QED
  BY <1>4, FS_CardinalityType DEF Tally

\* One element more is counted if it is one of those that are counted.
LEMMA TallyAppend ==
    ASSUME NEW S, NEW q \in Seq(S), NEW x \in S, NEW P
    PROVE  /\ Append(q, x) \in Seq(S)
           /\ x \in P => Tally(Append(q, x), P) = Tally(q, P) + 1
           /\ x \notin P => Tally(Append(q, x), P) = Tally(q, P)
<1> PICK A : A = {i \in DOMAIN q : q[i] \in P}
  OBVIOUS
<1> PICK B : B = {i \in DOMAIN Append(q, x) : Append(q, x)[i] \in P}
  OBVIOUS
<1> PICK n \in Nat : n = Len(q)
  BY LenProperties
<1>1. /\ Append(q, x) \in Seq(S)
      /\ DOMAIN q = 1..n /\ DOMAIN Append(q, x) = 1..(n + 1)
      /\ \A i \in 1..n : Append(q, x)[i] = q[i]
      /\ Append(q, x)[n + 1] = x
  BY AppendProperties, LenProperties
<1>2. n + 1 \notin A
  BY <1>1
<1>3. IsFiniteSet(A)
  BY TallyIsNat
<1>4. CASE x \in P
  <2>1. B = A \union {n + 1}
    BY <1>1, <1>4
  <2>2. Cardinality(B) = Cardinality(A) + 1
    BY <1>2, <1>3, <2>1, FS_AddElement
  <2> QED
    BY <1>1, <1>4, <2>2 DEF Tally
<1>5. CASE x \notin P
  <2>1. B = A
    BY <1>1, <1>5
  <2> QED
    BY <1>1, <1>5, <2>1 DEF Tally
<1> QED
  BY <1>4, <1>5

\* The committed decisions that are approvals.
Approving == {d \in Decisions : d.verdict = "approved"}

\* A mission is announced once, by the commit that creates it and shows it; approvals are
\* announced by the commits that decide them.  A drive announces neither.
Account ==
    /\ Tally(events, {"Created"}) = IF row = Absent THEN 0 ELSE 1
    /\ view = "none" <=> row = Absent
    /\ Tally(events, {"Approved"}) = Tally(decisions, Approving)
    /\ \A w \in Workers :
         /\ owed[w] \notin {"Created", "Approved"}
         /\ pc[w] = "commit" /\ cmd[w] \in {"create", "repeat"} => viewLock = w

\* A step that adds to no account.
LEMMA AsideKeeps ==
    ASSUME Account, NEW w \in Workers, UNCHANGED <<events, decisions>>,
           row' = Absent <=> row = Absent, view' = "none" <=> view = "none",
           \A v \in Workers \ {w} : Same(v) /\ (viewLock = v => viewLock' = v),
           owed'[w] \notin {"Created", "Approved"},
           pc'[w] = "commit" /\ cmd'[w] \in {"create", "repeat"} => viewLock' = w
    PROVE  Account'
<1>1. \A v \in Workers :
        /\ owed'[v] \notin {"Created", "Approved"}
        /\ pc'[v] = "commit" /\ cmd'[v] \in {"create", "repeat"} => viewLock' = v
  BY DEF Account, Same
<1>2. /\ Tally(events, {"Created"})' = Tally(events, {"Created"})
      /\ Tally(events, {"Approved"})' = Tally(events, {"Approved"})
      /\ Tally(decisions, Approving)' = Tally(decisions, Approving)
  BY DEF Tally
<1> QED
  BY <1>1, <1>2 DEF Account

LEMMA AcceptAccounts ==
    ASSUME IInv, Account, NEW w \in Workers, Accept(w)
    PROVE  Account'
<1>1. /\ UNCHANGED <<row, view, events, viewLock, owed, decisions>>
      /\ pc'[w] \in {"write", "show"}
      /\ \A v \in Workers \ {w} : Same(v)
  BY DEF Accept, CreateNew, CreateRepeat, StartMission, ApproveStep, RejectStep, Arrive, Hold,
         Goto, Same, IInv, TypeOK, db, history
<1>2. owed'[w] \notin {"Created", "Approved"}
  BY <1>1 DEF Account
<1> QED
  BY <1>1, <1>2, AsideKeeps

LEMMA LeaveOwesNothing ==
    ASSUME IInv, NEW w \in Workers, Leave(w)
    PROVE  owed'[w] = "none" /\ pc'[w] = "idle" /\ \A v \in Workers \ {w} : Same(v)
<1>1. pc'[w] = "idle" /\ \A v \in Workers \ {w} : Same(v)
  BY LeaveKeeps
<1> QED
  BY <1>1 DEF Leave, Owe, IInv, TypeOK

LEMMA CommandAccounts ==
    ASSUME IInv, Account, NEW w \in Workers,
           WriteRow(w) \/ ConflictingCreate(w) \/ ShowView(w)
    PROVE  Account'
<1>1. CASE WriteRow(w)
  <2>1. /\ UNCHANGED <<row, view, events, viewLock, owed, decisions>>
        /\ pc'[w] = "show" /\ \A v \in Workers \ {w} : Same(v)
    BY <1>1 DEF WriteRow, Goto, Same, IInv, TypeOK, history
  <2> QED
    BY <2>1, AsideKeeps DEF Account
<1>2. CASE ConflictingCreate(w)
  <2>1. UNCHANGED <<row, view, events, viewLock, decisions>> /\ Leave(w)
    BY <1>2 DEF ConflictingCreate, db, history
  <2>2. owed'[w] = "none" /\ pc'[w] = "idle" /\ \A v \in Workers \ {w} : Same(v)
    BY <2>1, LeaveOwesNothing
  <2> QED
    BY <2>1, <2>2, AsideKeeps
\* The projection of a creation holds its row, until it commits.
<1>3. CASE ShowView(w)
  <2>1. /\ UNCHANGED <<row, view, events, cmd, owed, decisions>>
        /\ \A v \in Workers \ {w} : Same(v)
    BY <1>3 DEF ShowView, Goto, Same, IInv, TypeOK, history
  <2>2. /\ viewLock' = viewLock \/ (viewLock \in {NoWorker, w} /\ viewLock' = w)
        /\ cmd[w] \in {"create", "repeat"} => viewLock' = w
    BY <1>3 DEF ShowView, Free
  <2>3. \A v \in Workers \ {w} : viewLock = v => viewLock' = v
    BY <2>2, NoWorkerAssumption
  <2> QED
    BY <2>1, <2>2, <2>3, AsideKeeps DEF Account
<1> QED
  BY <1>1, <1>2, <1>3

LEMMA TwoMore ==
    ASSUME NEW S, NEW q \in Seq(S), NEW x \in S, NEW y \in S
    PROVE  q \o <<x, y>> = Append(Append(q, x), y)
  OBVIOUS

LEMMA OneMore ==
    ASSUME NEW S, NEW q \in Seq(S), NEW x \in S
    PROVE  q \o <<x>> = Append(q, x)
  OBVIOUS

\* What a commit adds to the accounts.
LEMMA CommitTallies ==
    ASSUME IInv, NEW w \in Workers, pc[w] = "commit",
           events' = events \o Written(cmd[w]), decisions' = decisions \o Decision(w)
    PROVE  /\ Tally(events, {"Created"})' =
                IF cmd[w] = "create" THEN Tally(events, {"Created"}) + 1
                ELSE Tally(events, {"Created"})
           /\ Tally(events, {"Approved"})' =
                IF cmd[w] = "approve" THEN Tally(events, {"Approved"}) + 1
                ELSE Tally(events, {"Approved"})
           /\ Tally(decisions, Approving)' =
                IF cmd[w] = "approve" THEN Tally(decisions, Approving) + 1
                ELSE Tally(decisions, Approving)
<1>1. /\ events \in Seq(Event) /\ decisions \in Seq(Decisions)
      /\ cmd[w] # "none" /\ copy[w] \in Mission
      /\ cmd[w] \in {"create", "repeat", "start", "approve", "reject"}
      /\ cmd[w] = "approve" => copy[w].approval.decision = "approved"
      /\ cmd[w] = "reject" => copy[w].approval.decision = "rejected"
  BY DEF IInv, TypeOK, WorkerOK, Protocol, CopyOK, Commanding, IsApproved
<1>2. {"Created", "Planned", "Approved", "Rejected"} \subseteq Event
  BY DEF Event
<1>3. CASE cmd[w] = "create"
  <2>1. events' = Append(Append(events, "Created"), "Planned")
    BY <1>1, <1>2, <1>3, TwoMore DEF Written
  <2>2. PICK q \in Seq(Event) : q = Append(events, "Created")
    BY <1>1, <1>2, AppendProperties
  <2>3. /\ Tally(events', {"Created"}) = Tally(events, {"Created"}) + 1
        /\ Tally(events', {"Approved"}) = Tally(events, {"Approved"})
    <3>1. /\ Tally(q, {"Created"}) = Tally(events, {"Created"}) + 1
          /\ Tally(q, {"Approved"}) = Tally(events, {"Approved"})
      <4>1. "Created" \in {"Created"} /\ "Created" \notin {"Approved"}
        OBVIOUS
      <4> QED
        BY <1>1, <1>2, <2>2, <4>1, TallyAppend
    <3>2. /\ Tally(Append(q, "Planned"), {"Created"}) = Tally(q, {"Created"})
          /\ Tally(Append(q, "Planned"), {"Approved"}) = Tally(q, {"Approved"})
      <4>1. "Planned" \notin {"Created"} /\ "Planned" \notin {"Approved"}
        OBVIOUS
      <4> QED
        BY <1>2, <4>1, TallyAppend
    <3> QED
      BY <2>1, <2>2, <3>1, <3>2
  <2>4. decisions' = decisions
    BY <1>3, DecisionsCommitted
  <2>5. /\ Tally(events, {"Created"})' = Tally(events', {"Created"})
        /\ Tally(events, {"Approved"})' = Tally(events', {"Approved"})
        /\ Tally(decisions, Approving)' = Tally(decisions, Approving)
    BY <2>4 DEF Tally
  <2> QED
    BY <1>3, <2>3, <2>5
<1>4. CASE cmd[w] \in {"approve", "reject"}
  <2> DEFINE e == [verdict |-> copy[w].approval.decision, gate |-> copy[w].approval.step]
  <2>1. e \in Decisions /\ (e \in Approving <=> cmd[w] = "approve")
    <3>1. copy[w].approval.step \in Nat
      BY <1>1 DEF Mission, Approval
    <3> QED
      BY <1>1, <1>4, <3>1 DEF Decisions, Approving
  <2>2. Decision(w) = <<e>>
    BY <1>4 DEF Decision
  <2> HIDE DEF e
  <2>3. decisions' = Append(decisions, e)
    BY <1>1, <2>1, <2>2, OneMore
  <2>4. Tally(decisions', Approving) = IF cmd[w] = "approve" THEN Tally(decisions, Approving) + 1
                                       ELSE Tally(decisions, Approving)
    BY <1>1, <2>1, <2>3, TallyAppend
  <2>5. PICK x \in {"Approved", "Rejected"} :
          Written(cmd[w]) = <<x>> /\ (x = "Approved" <=> cmd[w] = "approve")
    BY <1>4 DEF Written
  <2>6. events' = Append(events, x)
    BY <1>1, <1>2, <2>5, OneMore
  <2>7. /\ Tally(events', {"Created"}) = Tally(events, {"Created"})
        /\ Tally(events', {"Approved"}) = IF cmd[w] = "approve"
                                          THEN Tally(events, {"Approved"}) + 1
                                          ELSE Tally(events, {"Approved"})
    <3>1. /\ \A P : x \in P => Tally(Append(events, x), P) = Tally(events, P) + 1
          /\ \A P : x \notin P => Tally(Append(events, x), P) = Tally(events, P)
      BY <1>1, <1>2, TallyAppend
    <3>2. x \notin {"Created"} /\ (x \in {"Approved"} <=> cmd[w] = "approve")
      BY <2>5
    <3> QED
      BY <2>6, <3>1, <3>2
  <2>8. /\ Tally(events, {"Created"})' = Tally(events', {"Created"})
        /\ Tally(events, {"Approved"})' = Tally(events', {"Approved"})
        /\ Tally(decisions, Approving)' = Tally(decisions', Approving)
    BY DEF Tally
  <2> QED
    BY <1>4, <2>4, <2>7, <2>8
<1>5. CASE cmd[w] \in {"repeat", "start"}
  <2>1. Written(cmd[w]) = <<>> /\ Decision(w) = <<>>
    BY <1>5 DEF Written, Decision
  <2>2. events' = events /\ decisions' = decisions
    BY <1>1, <2>1, ConcatEmptySeq
  <2> QED
    BY <1>5, <2>2 DEF Tally
<1> QED
  BY <1>1, <1>3, <1>4, <1>5

LEMMA CommitAccounts ==
    ASSUME IInv, IInv', Account, NEW w \in Workers, Commit(w)
    PROVE  Account'
<1>1. /\ pc[w] = "commit" /\ cmd[w] # "none" /\ copy[w] \in Mission
      /\ rowLock = w <=> WritesRow(cmd[w])
      /\ cmd[w] \notin {"none", "create"} => row # Absent
      /\ rowLock = w /\ cmd[w] = "create" => row = Absent
      /\ cmd[w] \in {"create", "repeat", "start", "approve", "reject"}
  BY DEF Commit, IInv, TypeOK, WorkerOK, Protocol, CopyOK, LocksOK
<1>2. /\ row' = IF rowLock = w THEN copy[w] ELSE row
      /\ view' = IF viewLock = w THEN copy[w].status ELSE view
      /\ events' = events \o Written(cmd[w])
      /\ decisions' = decisions \o Decision(w)
      /\ viewLock' = IF viewLock = w THEN NoWorker ELSE viewLock
  BY DEF Commit, Release
<1>3. /\ copy[w] # Absent /\ copy[w].status # "none"
      /\ "none" \notin Status
  BY <1>1, Statuses DEF Mission, Status, NonTerminal, Terminal
<1>4. /\ \A v \in Workers \ {w} : Same(v)
      /\ pc'[w] \in {"idle", "launch"}
      /\ owed'[w] \in {"none", owed[w]}
  <2>1. CASE Leave(w)
    BY <2>1, LeaveOwesNothing
  <2>2. CASE ~Leave(w)
    BY <2>2 DEF Commit, Return, Goto, Same, IInv, TypeOK
  <2> QED
    BY <2>1, <2>2
<1>5. \A v \in Workers :
        /\ owed'[v] \notin {"Created", "Approved"}
        /\ pc'[v] = "commit" /\ cmd'[v] \in {"create", "repeat"} => viewLock' = v
  <2> SUFFICES ASSUME NEW v \in Workers
               PROVE  /\ owed'[v] \notin {"Created", "Approved"}
                      /\ pc'[v] = "commit" /\ cmd'[v] \in {"create", "repeat"} => viewLock' = v
    OBVIOUS
  <2>1. CASE v = w
    BY <1>4, <2>1 DEF Account
  <2>2. CASE v # w
    BY <1>2, <1>4, <2>2 DEF Account, Same
  <2> QED
    BY <2>1, <2>2
\* The mission exists after a commit: it did, or it is created and shown.
<1>6. row' # Absent /\ view' # "none"
  <2>1. CASE cmd[w] = "create"
    BY <1>1, <1>2, <1>3, <2>1 DEF WritesRow, Account
  <2>2. CASE cmd[w] # "create"
    BY <1>1, <1>2, <1>3, <2>2 DEF Account
  <2> QED
    BY <2>1, <2>2
<1>7. IF cmd[w] = "create" THEN row = Absent ELSE row # Absent
  BY <1>1 DEF WritesRow
<1>8. Tally(events, {"Created"})' = 1
  BY <1>1, <1>2, <1>7, CommitTallies DEF Account
<1>9. Tally(events, {"Approved"})' = Tally(decisions, Approving)'
  BY <1>1, <1>2, CommitTallies DEF Account
<1> QED
  BY <1>5, <1>6, <1>8, <1>9 DEF Account

LEMMA EmitAccounts ==
    ASSUME IInv, Account, NEW w \in Workers, EmitEvent(w)
    PROVE  Account'
<1>1. /\ owed[w] \in Event \ {"Created", "Approved"} /\ events \in Seq(Event)
      /\ events' = Append(events, owed[w]) /\ owed'[w] = "none"
      /\ pc'[w] \in {"drive", "project"}
      /\ \A v \in Workers \ {w} : Same(v)
      /\ UNCHANGED <<row, view, viewLock, decisions>>
  BY DEF EmitEvent, Owe, Goto, Same, Account, IInv, TypeOK, WorkerOK, Protocol, history
<1>2. /\ \A P : owed[w] \notin P => Tally(Append(events, owed[w]), P) = Tally(events, P)
      /\ owed[w] \notin {"Created"} /\ owed[w] \notin {"Approved"}
  BY <1>1, TallyAppend
<1>3. /\ Tally(events, {"Created"})' = Tally(events, {"Created"})
      /\ Tally(events, {"Approved"})' = Tally(events, {"Approved"})
      /\ Tally(decisions, Approving)' = Tally(decisions, Approving)
  <2>1. /\ Tally(events', {"Created"}) = Tally(events, {"Created"})
        /\ Tally(events', {"Approved"}) = Tally(events, {"Approved"})
    BY <1>1, <1>2
  <2> QED
    BY <1>1, <2>1 DEF Tally
<1>4. \A v \in Workers :
        /\ owed'[v] \notin {"Created", "Approved"}
        /\ pc'[v] = "commit" /\ cmd'[v] \in {"create", "repeat"} => viewLock' = v
  BY <1>1 DEF Account, Same
<1> QED
  BY <1>1, <1>3, <1>4 DEF Account

\* The statements of a launch: a mission that exists is replaced by one, and what the
\* drive owes is neither announcement.
LEMMA LaunchAccounts ==
    ASSUME IInv, IInv', Account, NEW w \in Workers, Launch(w)
    PROVE  Account'
<1>1. CASE EmitEvent(w)
  BY <1>1, EmitAccounts
<1>2. CASE LaunchLoad(w) \/ CallTool(w)
  <2>1. /\ UNCHANGED <<row, view, events, viewLock, owed, decisions>>
        /\ pc'[w] \in {"begin", "project", "called"} /\ \A v \in Workers \ {w} : Same(v)
    BY <1>2 DEF LaunchLoad, CallTool, Hold, Goto, Same, IInv, TypeOK, db, history
  <2> QED
    BY <2>1, AsideKeeps DEF Account
<1>3. CASE LaunchProject(w)
  <2>1. /\ UNCHANGED <<row, events, viewLock, decisions>> /\ Leave(w)
        /\ view' = IF view = "none" THEN view ELSE copy[w].status
        /\ pc[w] \in Launching
    BY <1>3 DEF LaunchProject, Launching, history
  <2>2. copy[w].status # "none"
    BY <2>1, LaunchFacts DEF Mission, Status, NonTerminal, Terminal
  <2>3. owed'[w] = "none" /\ pc'[w] = "idle" /\ \A v \in Workers \ {w} : Same(v)
    BY <2>1, LeaveOwesNothing
  <2> QED
    BY <2>1, <2>2, <2>3, AsideKeeps
<1>4. CASE \/ BeginDrive(w) \/ PauseAtGate(w) \/ StepSucceeds(w) \/ StepFails(w)
           \/ FinishMission(w)
  <2>1. /\ pc[w] \in Launching /\ row' = copy'[w] /\ cmd'[w] = cmd[w]
        /\ pc'[w] \in {"emit", "drive"}
        /\ owed'[w] \in {owed[w], "Resumed", "AwaitingApproval", "StepCompleted", "Failed",
                         "Completed"}
        /\ UNCHANGED <<view, events, viewLock, decisions>>
        /\ \A v \in Workers \ {w} : Same(v)
    <3> USE DEF SaveNow, Hold, Goto, Owe, Same, IInv, TypeOK, Launching, history
    <3>1. CASE BeginDrive(w)
      BY <3>1 DEF BeginDrive
    <3>2. CASE PauseAtGate(w) \/ StepSucceeds(w) \/ StepFails(w) \/ FinishMission(w)
      BY <3>2 DEF PauseAtGate, StepSucceeds, StepFails, FinishMission, DriveSaves
    <3> QED
      BY <1>4, <3>1, <3>2
  <2>2. row # Absent /\ cmd[w] # "none"
    BY <2>1, LaunchFacts
  <2>3. row' # Absent
    BY <2>1, <2>2, Statuses DEF IInv, WorkerOK, CopyOK
  <2>4. owed'[w] \notin {"Created", "Approved"}
    BY <2>1 DEF Account
  <2> QED
    BY <2>1, <2>2, <2>3, <2>4, AsideKeeps
<1> QED
  BY <1>1, <1>2, <1>3, <1>4 DEF Launch

LEMMA FailAccounts ==
    ASSUME IInv, Account, NEW w \in Workers, FailRequest(w)
    PROVE  Account'
<1>1. /\ UNCHANGED <<row, view, events, decisions>> /\ Leave(w)
      /\ viewLock' = IF viewLock = w THEN NoWorker ELSE viewLock
  BY DEF FailRequest, Release, history
<1>2. owed'[w] = "none" /\ pc'[w] = "idle" /\ \A v \in Workers \ {w} : Same(v)
  BY <1>1, LeaveOwesNothing
<1> QED
  BY <1>1, <1>2, AsideKeeps

LEMMA InitAccount == Init => Account
<1> SUFFICES ASSUME Init PROVE Account
  OBVIOUS
<1>1. \A P : Tally(<<>>, P) = 0
  <2> SUFFICES ASSUME NEW P PROVE Tally(<<>>, P) = 0
    OBVIOUS
  <2>1. {i \in DOMAIN <<>> : <<>>[i] \in P} = {}
    OBVIOUS
  <2> QED
    BY <2>1, FS_EmptySet DEF Tally
<1>2. events = <<>> /\ decisions = <<>> /\ row = Absent /\ view = "none"
  BY DEF Init
<1> QED
  BY <1>1, <1>2 DEF Init, Account

LEMMA StepAccount == IInv /\ IInv' /\ Account /\ [Next]_vars => Account'
<1> SUFFICES ASSUME IInv, IInv', Account, [Next]_vars PROVE Account'
  OBVIOUS
<1>1. CASE UNCHANGED vars
  BY <1>1 DEF vars, db, locals, budget, history, Account, Tally
<1>2. ASSUME NEW w \in Workers, Accept(w) \/ Command(w) \/ Launch(w) \/ FailRequest(w)
      PROVE  Account'
  BY <1>2, AcceptAccounts, CommandAccounts, CommitAccounts, LaunchAccounts, FailAccounts
     DEF Command
<1> QED
  BY <1>1, <1>2 DEF Next, Done

LEMMA SpecAccount == Spec => []Account
  BY InitIInv, StepIInv, InitAccount, StepAccount, PTL DEF Spec

\* However many creations of one key race, repeat or die, at most one mission exists: its
\* "Created" was written once, and the read model knows it exactly while it exists.
THEOREM CreatedOnce == Spec => []OneCreation
<1>1. Account => OneCreation
  <2>1. Tally(events, {"Created"}) = Count("Created")
    BY DEF Tally, Count
  <2> QED
    BY <2>1 DEF Account, OneCreation
<1> QED
  BY <1>1, SpecAccount, PTL

\* No launch, retry or lost request calls a consequential step without an approval that the
\* events announce: different gates were passed no more often than approvals are on record.
THEOREM ClearancesStayOnRecord == Spec => []ClearancesAreOnRecord
<1>1. IInv /\ Account => ClearancesAreOnRecord
  <2> SUFFICES ASSUME IInv, Account PROVE ClearancesAreOnRecord
    OBVIOUS
  <2> PICK passed : passed = {s \in 1..Len(row.plan) :
                                row.plan[s] /\ \E i \in DOMAIN calls : calls[i] = s}
    OBVIOUS
  <2> PICK given : given = {i \in DOMAIN decisions : decisions[i] \in Approving}
    OBVIOUS
  <2> PICK gates : gates = {decisions[i].gate : i \in given}
    OBVIOUS
  <2>1. decisions \in Seq(Decisions)
    BY DEF IInv, TypeOK
  \* Each gate that was passed is one that was approved.
  <2>2. passed \subseteq gates
    <3> SUFFICES ASSUME NEW s \in passed PROVE s \in gates
      OBVIOUS
    <3>1. PICK i \in DOMAIN calls : calls[i] = s /\ row.plan[s]
      OBVIOUS
    <3>2. PICK d \in DOMAIN decisions : decisions[d].verdict = "approved" /\ decisions[d].gate = s
      BY <3>1 DEF IInv, GateRespected, Approvals
    <3>3. decisions[d] \in Approving
      BY <2>1, <3>2 DEF Approving
    <3> QED
      BY <3>2, <3>3
  <2>3. IsFiniteSet(given) /\ Cardinality(given) = Tally(decisions, Approving)
    BY <2>1, TallyIsNat DEF Tally
  <2>4. IsFiniteSet(gates) /\ Cardinality(gates) <= Cardinality(given)
    <3> PICK f : f = [i \in given |-> decisions[i].gate]
      OBVIOUS
    <3>1. f \in Surjection(given, gates)
      BY DEF Surjection
    <3> QED
      BY <2>3, <3>1, FS_Surjection
  <2>5. Cardinality(passed) <= Cardinality(gates)
    BY <2>2, <2>4, FS_Subset
  <2>6. Count("Approved") = Cardinality(given)
    <3>1. Tally(events, {"Approved"}) = Count("Approved")
      BY DEF Tally, Count
    <3> QED
      BY <2>3, <3>1 DEF Account
  <2>7. Cardinality(passed) \in Nat /\ Cardinality(gates) \in Nat /\ Cardinality(given) \in Nat
    BY <2>2, <2>3, <2>4, FS_Subset, FS_CardinalityType
  <2>8. Cardinality(passed) <= Count("Approved")
    BY <2>4, <2>5, <2>6, <2>7
  <2> QED
    BY <2>8 DEF ClearancesAreOnRecord
<1> QED
  BY <1>1, SpecIInv, SpecAccount, PTL

-----------------------------------------------------------------------------
(* One request at a time. *)

\* What a command is about to commit comes from the row as it still is.
Derived(w) ==
    \/ /\ cmd[w] = "create" /\ row = Absent
       /\ copy[w].plan \in Plans /\ copy[w].status = "planned" /\ copy[w].results = 0
    \/ cmd[w] \in {"repeat", "start"} /\ copy[w] = row
    \/ /\ cmd[w] = "approve" /\ row.status = "awaiting"
       /\ copy[w].status = "resumed" /\ copy[w].results = row.results
    \/ cmd[w] = "reject" /\ copy[w].status = "cancelled"

\* A launch that has read the row holds it.
InStep(w) ==
    /\ pc[w] \in Commanding => Derived(w)
    /\ pc[w] \in Launching \ {"launch"} => copy[w] = row
    /\ pc[w] = "begin" => row.status \in {"created", "planned", "resumed"}

\* The read model lags behind the row only while a drive runs, or after a lost request.
Shown(w) ==
    /\ pc[w] = "commit" => viewLock = w
    /\ failures = 0 /\ row # Absent /\ pc[w] \in {"idle", "launch"} \union Commanding
         => view = row.status

\* Where the mission can be driven on, the executor was called for the steps it records.
Progress(w) ==
    /\ (\/ row.status \in {"created", "planned", "awaiting", "resumed"}
        \/ pc[w] = "drive"
        \/ pc[w] = "emit" /\ row.status = "executing") => Len(calls) = row.results
    /\ pc[w] = "called" => Len(calls) = row.results + 1

Serial(w) == InStep(w) /\ Shown(w) /\ Progress(w)

\* A row that a worker has locked, or nobody has, in the hands of the only worker.
LEMMA AloneIsFree ==
    ASSUME NEW w, Workers = {w}, IInv
    PROVE  Free(rowLock, w) /\ Free(viewLock, w)
  BY DEF IInv, TypeOK, Free

LEMMA AcceptSerial ==
    ASSUME NEW w, Workers = {w}, IInv, Serial(w), Accept(w)
    PROVE  Serial(w)'
<1>1. /\ UNCHANGED <<row, view, viewLock, failures, calls>>
      /\ pc[w] = "idle" /\ pc'[w] \in {"write", "show"}
  BY DEF Accept, CreateNew, CreateRepeat, StartMission, ApproveStep, RejectStep, Arrive, Goto,
         IInv, TypeOK, db, history
<1>2. Derived(w)'
  <2>1. CASE CreateNew(w)
    <3>1. PICK p \in Plans : copy'[w] = SetPlan(NewMission, p)
      BY <2>1 DEF CreateNew, Hold, IInv, TypeOK
    <3>2. cmd'[w] = "create" /\ row' = Absent
      BY <1>1, <2>1 DEF CreateNew, Arrive, IInv, TypeOK
    <3>3. /\ copy'[w].plan = p /\ copy'[w].status = "planned" /\ copy'[w].results = 0
      BY <3>1 DEF SetPlan, NewMission
    <3> QED
      BY <3>2, <3>3 DEF Derived
  <2>2. CASE CreateRepeat(w) \/ StartMission(w)
    BY <1>1, <2>2 DEF CreateRepeat, StartMission, Arrive, Hold, Derived, IInv, TypeOK
  <2>3. CASE ApproveStep(w)
    <3>1. row \in Mission
      BY <2>3, RowFacts DEF ApproveStep
    <3>2. row.status = "awaiting"
      BY <2>3, <3>1, Guards DEF ApproveStep
    <3>3. copy'[w] = Approve(row) /\ cmd'[w] = "approve"
      BY <2>3 DEF ApproveStep, Arrive, Hold, IInv, TypeOK
    <3>4. Approve(row).status = "resumed" /\ Approve(row).results = row.results
      BY <3>1, DecideFields
    <3> QED
      BY <1>1, <3>2, <3>3, <3>4 DEF Derived
  <2>4. CASE RejectStep(w)
    <3>1. row \in Mission
      BY <2>4, RowFacts DEF RejectStep
    <3>2. copy'[w] = Reject(row) /\ cmd'[w] = "reject"
      BY <2>4 DEF RejectStep, Arrive, Hold, IInv, TypeOK
    <3> QED
      BY <3>1, <3>2, DecideFields DEF Derived
  <2> QED
    BY <2>1, <2>2, <2>3, <2>4 DEF Accept
<1> QED
  BY <1>1, <1>2 DEF Serial, InStep, Shown, Progress, Commanding, Launching

LEMMA CommandSerial ==
    ASSUME NEW w, Workers = {w}, IInv, Account, Serial(w),
           WriteRow(w) \/ ConflictingCreate(w) \/ ShowView(w)
    PROVE  Serial(w)'
<1>1. CASE WriteRow(w) \/ ShowView(w)
  <2>1. /\ UNCHANGED <<row, view, failures, calls, cmd, copy>>
        /\ pc[w] \in {"write", "show"} /\ pc'[w] \in {"show", "commit"}
        /\ pc'[w] = "commit" => ShowView(w)
    BY <1>1 DEF WriteRow, ShowView, Goto, IInv, TypeOK, budget, history
  <2>2. Derived(w)'
    BY <2>1 DEF Serial, InStep, Derived, Commanding
  <2>3. ShowView(w) => viewLock' = w
    <3>1. cmd[w] \notin {"create", "repeat"} => row # Absent
      BY <2>1 DEF IInv, WorkerOK, Protocol, CopyOK
    <3> QED
      BY <3>1 DEF ShowView, Account
  <2> QED
    BY <2>1, <2>2, <2>3 DEF Serial, InStep, Shown, Progress, Commanding, Launching
\* Who is alone meets no other creation.
<1>2. CASE ConflictingCreate(w)
  BY <1>2 DEF ConflictingCreate, Serial, InStep, Derived, Commanding
<1> QED
  BY <1>1, <1>2

\* What a commit leaves, when nothing else has moved since its command read the row.
LEMMA CommitFacts ==
    ASSUME NEW w, Workers = {w}, IInv, Serial(w), Commit(w)
    PROVE  /\ pc[w] = "commit" /\ pc'[w] \in {"idle", "launch"} /\ Derived(w)
           /\ copy[w] \in Mission
           /\ row' = copy[w] /\ view' = copy[w].status
           /\ UNCHANGED <<calls, failures>>
<1>1. /\ pc[w] = "commit" /\ Derived(w) /\ viewLock = w
      /\ copy[w] \in Mission
      /\ rowLock = w <=> WritesRow(cmd[w])
  BY DEF Commit, Serial, InStep, Shown, Commanding, IInv, WorkerOK, Protocol, CopyOK, LocksOK
<1>2. /\ row' = IF rowLock = w THEN copy[w] ELSE row
      /\ view' = IF viewLock = w THEN copy[w].status ELSE view
      /\ UNCHANGED <<calls, failures>>
  BY DEF Commit, budget
<1>3. row' = copy[w]
  BY <1>1, <1>2 DEF Derived, WritesRow
<1>4. pc'[w] \in {"idle", "launch"}
  <2>1. Leave(w) => pc'[w] = "idle"
    BY LeaveKeeps
  <2> QED
    BY <2>1 DEF Commit, Return, Goto, IInv, TypeOK
<1> QED
  BY <1>1, <1>2, <1>3, <1>4

LEMMA CommitSerial ==
    ASSUME NEW w, Workers = {w}, IInv, Serial(w), Commit(w)
    PROVE  Serial(w)'
<1>1. /\ pc'[w] \in {"idle", "launch"} /\ row' = copy[w] /\ view' = copy[w].status
      /\ UNCHANGED calls /\ Derived(w)
  BY CommitFacts
<1>2. row'.status \in {"created", "planned", "awaiting", "resumed"} => Len(calls) = row'.results
  <2>1. CASE cmd[w] = "create"
    <3>1. calls = <<>> /\ row'.results = 0
      BY <1>1, <2>1 DEF Derived, IInv, RowOK
    <3> QED
      BY <3>1
  <2>2. CASE cmd[w] \in {"repeat", "start"}
    BY <1>1, <2>2 DEF Derived, Serial, Progress
  <2>3. CASE cmd[w] = "approve"
    <3>1. row'.results = row.results /\ row.status = "awaiting"
      BY <1>1, <2>3 DEF Derived
    <3>2. Len(calls) = row.results
      BY <3>1 DEF Serial, Progress
    <3> QED
      BY <3>1, <3>2
  <2>4. CASE cmd[w] = "reject"
    BY <1>1, <2>4 DEF Derived
  <2> QED
    BY <1>1, <2>1, <2>2, <2>3, <2>4 DEF Derived
<1> QED
  BY <1>1, <1>2 DEF Serial, InStep, Shown, Progress, Commanding, Launching

\* What a launch's save leaves.
LEMMA SaveFacts ==
    ASSUME IInv, NEW w \in Workers, NEW m, SaveNow(w, m)
    PROVE  row' = m /\ copy'[w] = m
  BY DEF SaveNow, Hold, IInv, TypeOK

LEMMA LaunchSerial ==
    ASSUME NEW w, Workers = {w}, IInv, Account, Serial(w), Launch(w)
    PROVE  Serial(w)'
<1> USE DEF Serial, InStep, Shown, Progress, Commanding, Launching
<1>0. pc[w] \in Launching
  BY DEF Launch, LaunchLoad, BeginDrive, EmitEvent, PauseAtGate, CallTool, StepSucceeds,
         StepFails, FinishMission, LaunchProject
<1>1. CASE LaunchLoad(w)
  <2>1. /\ UNCHANGED <<row, view, failures, calls>> /\ copy'[w] = row
        /\ pc'[w] = IF row.status \in {"created", "planned", "resumed"} THEN "begin"
                    ELSE "project"
    BY <1>1 DEF LaunchLoad, Hold, Goto, IInv, TypeOK, db, budget, history
  <2> QED
    BY <2>1
<1>2. CASE BeginDrive(w)
  <2> DEFINE m == BeginExecution(row)
  <2>1. /\ row' = m /\ copy'[w] = m /\ UNCHANGED <<view, viewLock, calls>>
        /\ pc[w] = "begin" /\ pc'[w] \in {"emit", "drive"}
    BY <1>2, SaveFacts DEF BeginDrive, SaveNow, Goto, IInv, TypeOK, history
  <2>2. m.status = "executing" /\ m.results = row.results
    BY <1>0, LaunchFacts, MoveFields DEF BeginExecution, Status, NonTerminal
  <2> HIDE DEF m
  <2>3. Len(calls) = row.results
    BY <2>1
  <2>4. Len(calls') = row'.results
    BY <2>1, <2>2, <2>3
  <2> QED
    BY <2>1, <2>2, <2>4
<1>3. CASE EmitEvent(w)
  <2>1. /\ UNCHANGED <<row, view, copy, calls>> /\ pc[w] = "emit" /\ copy[w] = row
        /\ pc'[w] = IF row.status = "executing" THEN "drive" ELSE "project"
    BY <1>3 DEF EmitEvent, Goto, IInv, TypeOK, history
  <2> QED
    BY <2>1
<1>4. CASE PauseAtGate(w)
  <2> DEFINE m == AwaitApproval(row)
  <2>1. /\ row' = m /\ copy'[w] = m /\ UNCHANGED calls
        /\ pc[w] = "drive" /\ pc'[w] = "emit"
    BY <1>4, SaveFacts DEF PauseAtGate, DriveSaves, Goto, IInv, TypeOK, history
  <2>2. m.results = row.results
    BY <1>0, LaunchFacts, DriveFields
  <2> HIDE DEF m
  <2>3. Len(calls) = row.results
    BY <2>1
  <2>4. Len(calls') = row'.results
    BY <2>1, <2>2, <2>3
  <2> QED
    BY <2>1, <2>4
<1>5. CASE CallTool(w)
  <2>1. /\ UNCHANGED <<row, copy>> /\ pc[w] = "drive" /\ pc'[w] = "called"
        /\ calls' = Append(calls, NextStep(copy[w])) /\ calls \in Seq(Nat)
        /\ copy[w].status = "executing" /\ copy[w] \in Mission
    BY <1>5, DriveFacts DEF CallTool, Goto, IInv, TypeOK, db
  <2>2. Len(calls') = Len(calls) + 1
    BY <2>1, DriveFacts, AppendProperties DEF NextStep
  <2> QED
    BY <2>1, <2>2
<1>6. CASE StepSucceeds(w)
  <2> DEFINE m == RecordStep(row)
  <2>1. /\ row' = m /\ copy'[w] = m /\ UNCHANGED calls
        /\ pc[w] = "called" /\ pc'[w] = "emit"
    BY <1>6, SaveFacts DEF StepSucceeds, DriveSaves, Goto, IInv, TypeOK, history
  <2>2. m.results = row.results + 1
    BY <1>0, LaunchFacts, DriveFields
  <2> HIDE DEF m
  <2> QED
    BY <2>1, <2>2
<1>7. CASE StepFails(w) \/ FinishMission(w)
  <2>1. PICK dst \in {"failed", "completed"} :
          /\ row' = Move(row, dst) /\ copy'[w] = row' /\ pc'[w] = "emit"
    BY <1>7, SaveFacts
       DEF StepFails, FinishMission, Fail, Complete, DriveSaves, Goto, IInv, TypeOK
  <2>2. row'.status = dst
    BY <1>0, <2>1, LaunchFacts, MoveFields DEF Status, Terminal
  <2> QED
    BY <2>1, <2>2
<1>8. CASE LaunchProject(w)
  <2>1. /\ UNCHANGED <<row, calls>> /\ pc[w] = "project" /\ Leave(w)
        /\ view' = IF view = "none" THEN view ELSE copy[w].status
    BY <1>8 DEF LaunchProject, history
  <2>2. pc'[w] = "idle"
    BY <2>1, LeaveKeeps
  <2>3. view # "none"
    BY <1>0, LaunchFacts DEF Account
  <2> QED
    BY <2>1, <2>2, <2>3
<1> QED
  BY <1>1, <1>2, <1>3, <1>4, <1>5, <1>6, <1>7, <1>8 DEF Launch

LEMMA FailSerial ==
    ASSUME NEW w, Workers = {w}, IInv, Serial(w), FailRequest(w)
    PROVE  Serial(w)'
<1>1. /\ UNCHANGED <<row, calls>> /\ Leave(w) /\ failures' = failures + 1
      /\ failures \in Nat
  BY DEF FailRequest, history, IInv, TypeOK
<1>2. pc'[w] = "idle"
  BY <1>1, LeaveKeeps
<1>3. failures' # 0
  BY <1>1
<1> QED
  BY <1>1, <1>2, <1>3 DEF Serial, InStep, Shown, Progress, Commanding, Launching

LEMMA InitSerial ==
    ASSUME NEW w, Workers = {w}
    PROVE  Init => Serial(w)
  BY Statuses DEF Init, Serial, InStep, Shown, Progress, Commanding, Launching

LEMMA StepSerial ==
    ASSUME NEW w, Workers = {w}
    PROVE  IInv /\ Account /\ Serial(w) /\ [Next]_vars => Serial(w)'
<1> SUFFICES ASSUME IInv, Account, Serial(w), [Next]_vars PROVE Serial(w)'
  OBVIOUS
<1>1. CASE UNCHANGED vars
  BY <1>1
     DEF vars, db, locals, budget, history, Serial, InStep, Derived, Shown, Progress
<1>2. CASE Accept(w) \/ Command(w) \/ Launch(w) \/ FailRequest(w)
  BY <1>2, AcceptSerial, CommandSerial, CommitSerial, LaunchSerial, FailSerial DEF Command
<1> QED
  BY <1>1, <1>2 DEF Next, Done

LEMMA SpecSerial ==
    ASSUME NEW w, Workers = {w}
    PROVE  Spec => []Serial(w)
<1>1. Init => Serial(w)
  BY InitSerial
<1>2. IInv /\ Account /\ Serial(w) /\ [Next]_vars => Serial(w)'
  BY StepSerial
<1> QED
  BY <1>1, <1>2, SpecIInv, SpecAccount, PTL DEF Spec

\* With one worker, whatever it was asked and for every plan: between two requests, as long as
\* none has died, the read model shows the status of the row.
THEOREM SerialViewIsCurrent ==
    ASSUME NEW w, Workers = {w}
    PROVE  Spec => []ViewIsCurrent
<1>1. Serial(w) => ViewIsCurrent
  BY DEF Serial, Shown, ViewIsCurrent
<1> QED
  BY <1>1, SpecSerial, PTL

\* The clearance, in the hands of the only worker.
InDrive(w) == /\ pc[w] \in {"emit", "drive"}
              /\ copy[w].status = "executing"
              /\ GateIsApproved(w)

LEMMA ClearedAlone ==
    ASSUME NEW w, Workers = {w}
    PROVE  /\ Cleared = IF row.status = "resumed" \/ InDrive(w) THEN NextStep(row) ELSE 0
           /\ Cleared' = IF row'.status = "resumed" \/ InDrive(w)' THEN NextStep(row') ELSE 0
<1>1. (\E v \in Workers : InDrive(v)) <=> InDrive(w)
  OBVIOUS
<1>2. (\E v \in Workers : InDrive(v)') <=> InDrive(w)'
  OBVIOUS
<1>3. Cleared = IF row.status = "resumed" \/ \E v \in Workers : InDrive(v)
                THEN NextStep(row) ELSE 0
  BY DEF Cleared, InDrive
<1>4. Cleared' = IF row'.status = "resumed" \/ \E v \in Workers : InDrive(v)'
                 THEN NextStep(row') ELSE 0
  BY DEF Cleared, InDrive, NextStep
<1> QED
  BY <1>1, <1>2, <1>3, <1>4

\* A step that leaves the row and the calls alone, in a worker that is in no drive before or
\* after it, is none of the contract.
LEMMA OutsideDrive ==
    ASSUME NEW w, Workers = {w}, UNCHANGED <<row, calls>>, ~InDrive(w), ~InDrive(w)'
    PROVE  UNCHANGED Contract!vars
<1>1. Cleared' = Cleared
  BY ClearedAlone
<1> QED
  BY <1>1 DEF Contract!vars

LEMMA RequestRefines ==
    ASSUME NEW w, Workers = {w}, IInv, Serial(w),
           \/ Accept(w) \/ WriteRow(w) \/ ConflictingCreate(w) \/ ShowView(w)
           \/ LaunchLoad(w) \/ LaunchProject(w)
    PROVE  UNCHANGED Contract!vars
<1>1. CASE Accept(w)
  BY <1>1, OutsideDrive
     DEF Accept, CreateNew, CreateRepeat, StartMission, ApproveStep, RejectStep, Arrive, Goto,
         IInv, TypeOK, InDrive, db, history
<1>2. CASE WriteRow(w) \/ ShowView(w)
  BY <1>2, OutsideDrive DEF WriteRow, ShowView, Goto, IInv, TypeOK, InDrive, history
<1>3. CASE ConflictingCreate(w) \/ LaunchProject(w)
  <2>1. UNCHANGED <<row, calls>> /\ pc[w] \in {"write", "project"} /\ Leave(w)
    BY <1>3 DEF ConflictingCreate, LaunchProject, db, history
  <2>2. pc'[w] = "idle"
    BY <2>1, LeaveKeeps
  <2> QED
    BY <2>1, <2>2, OutsideDrive DEF InDrive
<1>4. CASE LaunchLoad(w)
  BY <1>4, OutsideDrive DEF LaunchLoad, Goto, IInv, TypeOK, InDrive, db, history
<1> QED
  BY <1>1, <1>2, <1>3, <1>4

\* A commit adopts the plan of a mission, clears the gate it waits at, or stops it.
LEMMA CommitRefines ==
    ASSUME NEW w, Workers = {w}, IInv, Serial(w), Commit(w)
    PROVE  Contract!Next \/ UNCHANGED Contract!vars
<1> USE DEF Contract!Next, Contract!vars
<1>1. /\ pc[w] = "commit" /\ pc'[w] \in {"idle", "launch"} /\ Derived(w)
      /\ copy[w] \in Mission /\ row' = copy[w] /\ UNCHANGED calls
  BY CommitFacts
<1>2. ~InDrive(w) /\ ~InDrive(w)'
  BY <1>1 DEF InDrive
<1>3. /\ Cleared = IF row.status = "resumed" THEN NextStep(row) ELSE 0
      /\ Cleared' = IF row'.status = "resumed" THEN NextStep(row') ELSE 0
  BY <1>2, ClearedAlone
<1>4. CASE cmd[w] = "create"
  <2>1. row = Absent /\ row'.plan \in Plans /\ row'.status = "planned"
    BY <1>1, <1>4 DEF Derived
  <2> QED
    BY <1>1, <1>3, <2>1, Statuses DEF Contract!Adopt, Terminal
<1>5. CASE cmd[w] \in {"repeat", "start"}
  <2>1. row' = row
    BY <1>1, <1>5 DEF Derived
  <2> QED
    BY <1>1, <1>2, <2>1, OutsideDrive
<1>6. CASE cmd[w] = "approve"
  <2>1. /\ row.status = "awaiting" /\ row'.status = "resumed" /\ row'.results = row.results
        /\ row'.plan = row.plan /\ row \in Mission
    BY <1>1, <1>6 DEF Derived, IInv, TypeOK, WorkerOK, CopyOK
  <2>2. AtGate(row) /\ Len(calls) = row.results
    BY <2>1 DEF IInv, RowOK, Coherent, Serial, Progress
  <2>3. Contract!Position = NextStep(row)
    BY <2>2 DEF Contract!Position, NextStep
  <2>4. Contract!Position <= Len(row.plan)
    BY <2>1, <2>2, <2>3 DEF AtGate, StepsLeft, NextStep, Mission
  <2>5. Contract!Gated
    BY <2>2, <2>3, <2>4, Zenon DEF Contract!Gated, Contract!InPlan, AtGate
  <2>6. Cleared' = Contract!Position
    BY <1>3, <2>1, <2>3 DEF NextStep
  <2>7. (row.status \in Terminal) = FALSE /\ (row'.status \in Terminal) = FALSE
    BY <2>1 DEF Terminal
  <2> QED
    BY <1>1, <2>1, <2>5, <2>6, <2>7 DEF Contract!Clear
<1>7. CASE cmd[w] = "reject"
  <2>1. row'.status = "cancelled" /\ row'.plan = row.plan
    BY <1>1, <1>7 DEF Derived, IInv, WorkerOK, CopyOK
  <2>2. (row'.status \in Terminal) = TRUE /\ Cleared' = 0
    BY <1>3, <2>1 DEF Terminal
  <2> QED
    BY <1>1, <2>1, <2>2 DEF Contract!Stop
<1> QED
  BY <1>1, <1>4, <1>5, <1>6, <1>7 DEF Derived

\* Starting a drive keeps the clearance there is: the one that resumed the mission.
LEMMA BeginDriveRefines ==
    ASSUME NEW w, Workers = {w}, IInv, Serial(w), BeginDrive(w)
    PROVE  UNCHANGED Contract!vars
<1> PICK m : m = BeginExecution(row)
  OBVIOUS
<1>1. /\ pc[w] = "begin" /\ copy[w] = row /\ row \in Mission
      /\ row' = m /\ copy'[w] = m /\ UNCHANGED calls
      /\ pc'[w] \in {"emit", "drive"}
      /\ run'[w] = [resuming |-> row.status = "resumed", start |-> row.results]
  <2>1. pc[w] = "begin" /\ copy[w] = row /\ row \in Mission
    BY LaunchFacts DEF BeginDrive, Serial, InStep, Launching
  <2> QED
    BY <2>1, SaveFacts DEF BeginDrive, Goto, IInv, TypeOK, history
<1>2. row.status \in {"planned", "resumed"}
  BY <1>1, Guards DEF BeginDrive
<1>3. /\ m.status = "executing" /\ m.plan = row.plan /\ m.results = row.results
      /\ m.approval = row.approval
  BY <1>1, MoveFields DEF BeginExecution, Status, NonTerminal
<1>4. ~InDrive(w)
  BY <1>1 DEF InDrive
<1>5. InDrive(w)' <=> row.status = "resumed"
  <2>1. CASE row.status = "resumed"
    <3>1. IsApproved(row)
      BY <2>1 DEF IInv, RowOK, Coherent, IsApproved
    <3>2. run'[w] = [resuming |-> TRUE, start |-> row.results]
      BY <1>1, <2>1
    <3> QED
      BY <1>1, <1>3, <2>1, <3>1, <3>2 DEF InDrive, GateIsApproved, IsApproved
  <2>2. CASE row.status # "resumed"
    <3>1. run'[w] = [resuming |-> FALSE, start |-> row.results]
      BY <1>1, <2>2
    <3> QED
      BY <2>2, <3>1 DEF InDrive, GateIsApproved
  <2> QED
    BY <2>1, <2>2
<1>6. Cleared' = Cleared
  BY <1>1, <1>3, <1>4, <1>5, ClearedAlone DEF NextStep
<1>7. row'.plan = row.plan /\ (row'.status \in Terminal) = (row.status \in Terminal)
  BY <1>1, <1>2, <1>3 DEF Terminal
<1> QED
  BY <1>1, <1>6, <1>7 DEF Contract!vars

LEMMA EmitEventRefines ==
    ASSUME NEW w, Workers = {w}, IInv, Serial(w), EmitEvent(w)
    PROVE  UNCHANGED Contract!vars
<1>1. /\ UNCHANGED <<row, copy, run, calls>> /\ pc[w] = "emit"
      /\ pc'[w] = IF copy[w].status = "executing" THEN "drive" ELSE "project"
  BY DEF EmitEvent, Goto, IInv, TypeOK, history
<1>2. InDrive(w)' <=> InDrive(w)
  BY <1>1 DEF InDrive, GateIsApproved
<1>3. Cleared' = Cleared
  BY <1>1, <1>2, ClearedAlone
<1> QED
  BY <1>1, <1>3 DEF Contract!vars

\* The step at a gate is called with its clearance, and uses it up.
LEMMA CallToolRefines ==
    ASSUME NEW w, Workers = {w}, IInv, Serial(w), CallTool(w)
    PROVE  Contract!Call
<1>1. /\ pc[w] = "drive" /\ pc'[w] = "called" /\ UNCHANGED row
      /\ StepsLeft(row) /\ ~Blocked(w) /\ copy[w] = row
      /\ calls' = Append(calls, NextStep(row))
      /\ row \in Mission /\ row.status = "executing"
  <2>1. pc[w] = "drive" /\ copy[w] = row /\ row \in Mission /\ row.status = "executing"
    BY DriveFacts DEF CallTool, Serial, InStep, Launching
  <2> QED
    BY <2>1 DEF CallTool, Goto, IInv, TypeOK, db
<1>2. Contract!Position = NextStep(row)
  BY <1>1 DEF Contract!Position, NextStep, Serial, Progress
<1>3. Contract!InPlan
  BY <1>1, <1>2 DEF Contract!InPlan, StepsLeft, NextStep, Mission
<1>4. Contract!Gated => AtGate(row)
  BY <1>1, <1>2, Zenon DEF Contract!Gated, AtGate
<1>5. AtGate(row) => Cleared = NextStep(row)
  BY <1>1, ClearedAlone DEF Blocked, InDrive
<1>6. Cleared' = 0
  BY <1>1, ClearedAlone DEF InDrive
<1>7. (row.status \in Terminal) = FALSE
  BY <1>1 DEF Terminal
<1> QED
  BY <1>1, <1>2, <1>3, <1>4, <1>5, <1>6, <1>7 DEF Contract!Call

\* The saves of a drive: a pause drops the clearance, a step that is recorded has none left,
\* and the end of the mission stops it.
LEMMA DriveRefines ==
    ASSUME NEW w, Workers = {w}, IInv, Serial(w),
           PauseAtGate(w) \/ StepSucceeds(w) \/ StepFails(w) \/ FinishMission(w)
    PROVE  Contract!Next \/ UNCHANGED Contract!vars
<1> USE DEF Contract!Next, Contract!vars
<1>1. /\ pc[w] \in {"drive", "called"} /\ copy[w] = row
      /\ row \in Mission /\ row.status = "executing"
      /\ run[w].start <= row.results /\ row.results \in Nat /\ run[w].start \in Nat
      /\ (row.status \in Terminal) = FALSE
  <2>1. pc[w] \in {"drive", "called"} /\ copy[w] = row
    BY DEF PauseAtGate, StepSucceeds, StepFails, FinishMission, Serial, InStep, Launching
  <2> QED
    BY <2>1, DriveFacts DEF Terminal
<1>2. CASE PauseAtGate(w)
  <2> PICK m : m = AwaitApproval(row)
    OBVIOUS
  <2>1. row' = m /\ copy'[w] = m /\ UNCHANGED calls
    BY <1>1, <1>2, SaveFacts DEF PauseAtGate, DriveSaves, history
  <2>2. m.status = "awaiting" /\ m.plan = row.plan
    BY <1>1, DriveFields
  <2>3. Cleared' = 0 /\ (row'.status \in Terminal) = FALSE
    BY <2>1, <2>2, ClearedAlone DEF InDrive, Terminal
  <2> QED
    BY <1>1, <2>1, <2>2, <2>3 DEF Contract!Lapse
<1>3. CASE StepSucceeds(w)
  <2> PICK m : m = RecordStep(row)
    OBVIOUS
  <2>1. /\ row' = m /\ copy'[w] = m /\ UNCHANGED <<calls, run>> /\ pc[w] = "called"
    BY <1>1, <1>3, SaveFacts DEF StepSucceeds, DriveSaves, history
  <2>2. m.status = "executing" /\ m.plan = row.plan /\ m.results = row.results + 1
    BY <1>1, DriveFields
  <2>3. m.results # run[w].start
    BY <1>1, <2>2
  <2>4. ~InDrive(w) /\ ~InDrive(w)'
    BY <2>1, <2>3 DEF InDrive, GateIsApproved
  <2>5. Cleared = 0 /\ Cleared' = 0
    BY <1>1, <2>1, <2>2, <2>4, ClearedAlone
  <2>6. (row'.status \in Terminal) = FALSE
    BY <2>1, <2>2 DEF Terminal
  <2> QED
    BY <1>1, <2>1, <2>2, <2>5, <2>6
<1>4. CASE StepFails(w) \/ FinishMission(w)
  <2>1. PICK dst \in {"failed", "completed"} :
          row' = Move(row, dst) /\ copy'[w] = row' /\ UNCHANGED calls
    BY <1>1, <1>4, SaveFacts
       DEF StepFails, FinishMission, Fail, Complete, DriveSaves, history
  <2>2. row'.status = dst /\ row'.plan = row.plan
    BY <1>1, <2>1, MoveFields DEF Status, Terminal
  <2>3. Cleared' = 0 /\ (row'.status \in Terminal) = TRUE
    BY <2>1, <2>2, ClearedAlone DEF InDrive, Terminal
  <2> QED
    BY <2>1, <2>2, <2>3 DEF Contract!Stop
<1> QED
  BY <1>2, <1>3, <1>4

\* A lost request may take a clearance with it.
LEMMA FailRefines ==
    ASSUME NEW w, Workers = {w}, IInv, FailRequest(w)
    PROVE  Contract!Lapse \/ UNCHANGED Contract!vars
<1>1. UNCHANGED <<row, calls>> /\ Leave(w)
  BY DEF FailRequest, history
<1>2. ~InDrive(w)'
  BY <1>1, LeaveKeeps DEF InDrive
<1>3. Cleared' = Cleared \/ Cleared' = 0
  BY <1>1, <1>2, ClearedAlone
<1> QED
  BY <1>1, <1>3 DEF Contract!Lapse, Contract!vars

LEMMA SerialRefinement ==
    ASSUME NEW w, Workers = {w}
    PROVE  IInv /\ Serial(w) /\ [Next]_vars => [Contract!Next]_(Contract!vars)
<1> SUFFICES ASSUME IInv, Serial(w), [Next]_vars
             PROVE  Contract!Next \/ UNCHANGED Contract!vars
  OBVIOUS
<1>1. CASE UNCHANGED vars
  BY <1>1 DEF vars, db, locals, history, Contract!vars, Cleared, GateIsApproved, NextStep
<1>2. CASE Accept(w) \/ Command(w)
  BY <1>2, RequestRefines, CommitRefines DEF Command
<1>3. CASE Launch(w) \/ FailRequest(w)
  BY <1>3, RequestRefines, BeginDriveRefines, EmitEventRefines, CallToolRefines, DriveRefines,
     FailRefines DEF Launch, Contract!Next
<1> QED
  BY <1>1, <1>2, <1>3 DEF Next, Done

\* A service that serves one request at a time implements gated execution, for every plan and
\* through every failure between two statements: the executor is called for the plan's steps
\* in order, at most once each, a consequential one with its clearance, and none once the
\* mission is over.
THEOREM SerialServiceImplementsGatedExecution ==
    ASSUME NEW w, Workers = {w}
    PROVE  Spec => ImplementsGatedExecution
<1>1. Init => Contract!Init
  <2> SUFFICES ASSUME Init PROVE Contract!Init
    OBVIOUS
  <2>1. /\ row.plan = <<>> /\ calls = <<>> /\ row.status = "absent"
        /\ (row.status \in Terminal) = FALSE
    BY Statuses DEF Init, Terminal
  <2>2. Cleared = 0
    BY <2>1, ClearedAlone DEF Init, InDrive
  <2> QED
    BY <2>1, <2>2 DEF Contract!Init
<1>2. IInv /\ Serial(w) /\ [Next]_vars => [Contract!Next]_(Contract!vars)
  BY SerialRefinement
<1> QED
  BY <1>1, <1>2, SpecIInv, SpecSerial, PTL DEF Spec, ImplementsGatedExecution, Contract!Spec

=============================================================================
