--------------------------- MODULE ProblemLifecycle ---------------------------
(***************************************************************************)
(* The organization's worker and the problems it drives to closure: a pass *)
(* of the daemon observes the connectors' signals, drains the approval     *)
(* decisions and notifies the coordinator of each, advances every active   *)
(* problem, and publishes a snapshot.  The worker may die between any two  *)
(* steps; started again it recovers the snapshot, and only that.           *)
(*                                                                         *)
(* A consequential remediation waits for a person: its gate is a request   *)
(* in the shared approvals file (ApprovalStore), which the Approval API    *)
(* decides while the daemon works.                                         *)
(*                                                                         *)
(* Remediation missions run to their end inside the call that opens them   *)
(* (run_mission), so the latest attempt is always finished when the driver *)
(* looks at it.  That call may raise instead, before the mission exists or *)
(* while it runs: nothing of it is recorded and the pass is over, as it is *)
(* when an escalation raises.  Connectors and missions are external: the   *)
(* evidence of a problem changes on its own.                               *)
(***************************************************************************)
EXTENDS ApprovalStore, FiniteSets

CONSTANTS Consequential,  \* problems whose strategy is gated
          Critical,       \* problems that escalate straight to the CEO
          NoProblem,      \* no problem is being closed
          MaxAttempts,    \* LifecycleDriver.max_attempts
          MaxRaised,      \* bound: missions of one episode that raise once they are opened
          MaxChanges,     \* bound: changes of the evidence
          MaxCrashes      \* bound: deaths of the worker

ASSUME ProblemsAssumption == /\ IsFiniteSet(Problems)
                             /\ Consequential \subseteq Problems
                             /\ Critical \subseteq Problems
                             /\ NoProblem \notin Problems
ASSUME MaxAttemptsAssumption == MaxAttempts \in Nat \ {0}
ASSUME LimitsAssumption == MaxRaised \in Nat /\ MaxChanges \in Nat /\ MaxCrashes \in Nat

VARIABLES
    evidence,   \* what the connectors would report of each problem
    overdue,    \* the Supervisor's grace on each problem has passed
    ledger,     \* ProblemLedger: the active problems, oldest first
    state,      \* LifecycleCoordinator._state, "none" where there is no entry
    attempts,   \* AttemptStore.count
    tiers,      \* EscalationLedger.raised
    emitted, processed,  \* decisions the adapter emitted, the coordinator handled
    pc,         \* where the pass is
    agenda,     \* what the pass has yet to advance
    closing,    \* the problem whose gate is being cleared
    doomed,     \* the requests of it still to delete
    snapshot,   \* lifecycle.json: the exported problems with their states
    changes, crashes,    \* how much of the bounds is used
    missions,   \* history: missions opened for the problem since it last closed
    raised,     \* history: those of them that raised
    cleared     \* history: requests created before the problem last closed

engine  == <<ledger, state, attempts, tiers, overdue>>
pass    == <<pc, agenda, closing, doomed>>
world   == <<evidence, changes>>
ids     == <<emitted, processed>>
past    == <<missions, raised, cleared>>
vars    == <<storeVars, engine, pass, world, ids, snapshot, crashes, past>>

Tiers == {"supervisor", "ceo"}

State == {"none", "new", "in_progress", "escalated", "closed"}

\* verify(): "present" is not resolved; "gone" is cleared with its execution proven;
\* "unclear" is any reading in between, where nothing is emitted and nothing closes.
Evidence == {"present", "gone", "unclear"}

\* VERIFIED is passed through on the way to CLOSED, within one advance.
Legal == {<<"none", "new">>, <<"new", "in_progress">>, <<"new", "escalated">>,
          <<"in_progress", "escalated">>, <<"escalated", "in_progress">>,
          <<"new", "closed">>, <<"in_progress", "closed">>, <<"escalated", "closed">>}

\* A move that is not legal is ignored.
To(p, s) == IF <<state[p], s>> \in Legal THEN [state EXCEPT ![p] = s] ELSE state

Active(p) == \E i \in DOMAIN ledger : ledger[i] = p

Init == /\ StoreInit
        /\ evidence = [p \in Problems |-> "gone"]
        /\ overdue = [p \in Problems |-> FALSE]
        /\ ledger = <<>> /\ state = [p \in Problems |-> "none"]
        /\ attempts = [p \in Problems |-> 0]
        /\ tiers = [p \in Problems |-> {}]
        /\ emitted = {} /\ processed = {}
        /\ pc = "observe" /\ agenda = <<>> /\ closing = NoProblem /\ doomed = {}
        /\ snapshot = <<>>
        /\ changes = 0 /\ crashes = 0
        /\ missions = [p \in Problems |-> 0]
        /\ raised = [p \in Problems |-> 0]
        /\ cleared = [p \in Problems |-> 0]

-----------------------------------------------------------------------------
(* The world. *)

EvidenceChanges(p, e) == /\ changes < MaxChanges
                         /\ evidence[p] # e
                         /\ changes' = changes + 1
                         /\ evidence' = [evidence EXCEPT ![p] = e]
                         /\ UNCHANGED <<storeVars, engine, pass, ids, snapshot, crashes, past>>

GraceElapses(p) == /\ "supervisor" \in tiers[p]
                   /\ ~overdue[p]
                   /\ overdue' = [overdue EXCEPT ![p] = TRUE]
                   /\ UNCHANGED <<storeVars, ledger, state, attempts, tiers, pass, world, ids,
                                  snapshot, crashes, past>>

-----------------------------------------------------------------------------
(* A pass of the daemon, up to the problems it advances. *)

New == {p \in Problems : evidence[p] = "present" /\ ~Active(p)}

\* emit_all, and observe for every signal: a problem that is active is only refreshed.
Observe == /\ pc = "observe"
           /\ ledger' = ledger \o SetToSeq(New)
           /\ state' = [p \in Problems |-> IF p \in New THEN To(p, "new")[p] ELSE state[p]]
           /\ pc' = "drain"
           /\ UNCHANGED <<storeVars, attempts, tiers, overdue, agenda, closing, doomed, world,
                          ids, snapshot, crashes, past>>

Event(id, p) == [id |-> id, target |-> p]

\* The id of what the tick does: no decision has it.
Tick == 0

Undelivered == SelectSeq(file, LAMBDA r : r.status # "pending" /\ r.decision \notin emitted)

\* The decisions of the file not yet emitted by this process, marked emitted first.
Drain == /\ pc = "drain"
         /\ agenda' = [i \in DOMAIN Undelivered |->
                         Event(Undelivered[i].decision, Undelivered[i].target)]
         /\ emitted' = emitted \cup {Undelivered[i].decision : i \in DOMAIN Undelivered}
         /\ pc' = "notify"
         /\ UNCHANGED <<storeVars, engine, closing, doomed, world, processed, snapshot,
                        crashes, past>>

\* The pass is free to take the next item: no edit of the file is under way.
Ready == stage[Daemon] = "idle" /\ closing = NoProblem

\* [mutant] only events advance a problem
Reconcile_EventsOnly == /\ pc = "notify" /\ Ready /\ agenda = <<>>
                        /\ pc' = "tick"
                        /\ UNCHANGED <<storeVars, engine, agenda, closing, doomed, world, ids,
                                       snapshot, crashes, past>>

Reconcile == /\ pc = "notify" /\ Ready /\ agenda = <<>>
             /\ agenda' = [i \in DOMAIN ledger |-> Event(Tick, ledger[i])]
             /\ pc' = "tick"
             /\ UNCHANGED <<storeVars, engine, closing, doomed, world, ids, snapshot,
                            crashes, past>>

\* notify: a duplicate, or an event on a problem that is not active, is dropped.
Ignore == /\ pc = "notify" /\ Ready /\ agenda # <<>>
          /\ \/ Head(agenda).id \in processed
             \/ ~Active(Head(agenda).target)
          /\ agenda' = Tail(agenda)
          /\ processed' = processed \cup {Head(agenda).id}
          /\ UNCHANGED <<storeVars, engine, pc, closing, doomed, world, emitted, snapshot,
                         crashes, past>>

\* Problem p is the next to advance, on an event (whose id is recorded first) or on
\* the tick.
Due(p) == /\ pc \in {"notify", "tick"} /\ Ready /\ agenda # <<>>
          /\ p = Head(agenda).target
          /\ Active(p)
          /\ Head(agenda).id \notin processed
          /\ processed' = IF pc = "notify" THEN processed \cup {Head(agenda).id} ELSE processed
          /\ UNCHANGED <<world, emitted, snapshot, crashes>>

Turn(p) == Due(p) /\ agenda' = Tail(agenda) /\ UNCHANGED pc

\* An exception leaves the coordinator as it is and ends the pass, which logs it: the
\* problems behind this one are not advanced.
PassEnds == /\ pc' = "publish" /\ agenda' = <<>>
            /\ closing' = NoProblem /\ doomed' = {}

-----------------------------------------------------------------------------
(* What advancing a problem does: LifecycleDriver.advance and _apply. *)

\* [mutant] the ladder keeps what was raised in the last episode
Resolve_KeepLadder(p) ==
    /\ Turn(p)
    /\ evidence[p] = "gone"
    /\ state' = To(p, "closed")
    /\ closing' = p
    /\ doomed' = IF state[p] = "closed" THEN {} ELSE {file[i].id : i \in Gating(p)}
    /\ UNCHANGED <<storeVars, ledger, attempts, tiers, overdue, past>>

\* Resolved: the ladder is reset, the problem goes to CLOSED, and the sink of that
\* transition lists the requests of the problem to delete them.  A problem that is
\* CLOSED already (its clearing raised) makes no transition.
Resolve(p) == /\ Turn(p)
              /\ evidence[p] = "gone"
              /\ tiers' = [tiers EXCEPT ![p] = {}]
              /\ overdue' = [overdue EXCEPT ![p] = FALSE]
              /\ state' = To(p, "closed")
              /\ closing' = p
              /\ doomed' = IF state[p] = "closed" THEN {} ELSE {file[i].id : i \in Gating(p)}
              /\ UNCHANGED <<storeVars, ledger, attempts, past>>

\* clear_target deletes them one by one, each a read and a write of the whole file.
ClearOne == /\ stage[Daemon] = "idle"
            /\ \E id \in doomed : /\ BeginEdit(Daemon, Delete(id))
                                  /\ doomed' = doomed \ {id}
            /\ UNCHANGED <<disk, buffer, created, decisions, grants, engine, pc, agenda,
                           closing, world, ids, snapshot, crashes, past>>

\* deactivate and _reset.
Deactivate == /\ stage[Daemon] = "idle" /\ closing # NoProblem /\ doomed = {}
              /\ ledger' = RemoveAt(ledger, CHOOSE i \in DOMAIN ledger : ledger[i] = closing)
              /\ state' = [state EXCEPT ![closing] = "none"]
              /\ attempts' = [attempts EXCEPT ![closing] = 0]
              /\ closing' = NoProblem
              /\ missions' = [missions EXCEPT ![closing] = 0]
              /\ raised' = [raised EXCEPT ![closing] = 0]
              /\ cleared' = [cleared EXCEPT ![closing] = created]
              /\ UNCHANGED <<storeVars, tiers, overdue, pc, agenda, doomed, world, ids, snapshot,
                             crashes>>

\* [mutant] the cap is off by one
UnderCap_OneMore(p) == evidence[p] # "gone" /\ attempts[p] <= MaxAttempts

UnderCap(p) == evidence[p] # "gone" /\ attempts[p] < MaxAttempts

\* [mutant] the attempt is recorded for the pass only, and lost with it
OpenMission_Unrecorded(p) ==
    /\ state' = To(p, "in_progress")
    /\ missions' = [missions EXCEPT ![p] = @ + 1]
    /\ UNCHANGED <<storeVars, ledger, attempts, tiers, overdue, closing, doomed, raised, cleared>>

\* open_now: the mission runs, and the attempt is recorded.
OpenMission(p) == /\ attempts' = [attempts EXCEPT ![p] = @ + 1]
                  /\ state' = To(p, "in_progress")
                  /\ missions' = [missions EXCEPT ![p] = @ + 1]
                  /\ UNCHANGED <<storeVars, ledger, tiers, overdue, closing, doomed, raised,
                                 cleared>>

\* open_now raises: the mission may have been opened by then, or not; the attempt is
\* not recorded.
MissionRaises(p) == /\ PassEnds
                    /\ \/ /\ raised[p] < MaxRaised
                          /\ missions' = [missions EXCEPT ![p] = @ + 1]
                          /\ raised' = [raised EXCEPT ![p] = @ + 1]
                          /\ UNCHANGED cleared
                       \/ UNCHANGED past
                    /\ UNCHANGED <<storeVars, engine>>

OpenFreely(p) == /\ Turn(p) /\ UnderCap(p)
                 /\ p \notin Consequential
                 /\ OpenMission(p)

\* [mutant] a decided gate is an open gate
OpenGranted_AnyDecision(p) ==
    /\ Turn(p) /\ UnderCap(p)
    /\ p \in Consequential
    /\ Gating(p) # {} /\ ForTarget(p).status # "pending"
    /\ OpenMission(p)

OpenGranted(p) == /\ Turn(p) /\ UnderCap(p)
                  /\ p \in Consequential
                  /\ Gating(p) # {} /\ ForTarget(p).status = "granted"
                  /\ OpenMission(p)

OpenRaises(p) == /\ Due(p) /\ UnderCap(p)
                 /\ p \in Consequential =>
                      Gating(p) # {} /\ ForTarget(p).status = "granted"
                 /\ MissionRaises(p)

\* The gate has no request yet: one is created, and the problem waits.
OpenGate(p) == /\ Turn(p) /\ UnderCap(p)
               /\ p \in Consequential
               /\ Gating(p) = {}
               /\ created' = created + 1
               /\ BeginEdit(Daemon, Put(NewRequest(created + 1, p)))
               /\ UNCHANGED <<disk, buffer, decisions, grants, engine, closing, doomed, past>>

\* Pending, or rejected: nothing opens, and nothing else happens.
Wait(p) == /\ Turn(p) /\ UnderCap(p)
           /\ p \in Consequential
           /\ Gating(p) # {} /\ ForTarget(p).status # "granted"
           /\ UNCHANGED <<storeVars, engine, closing, doomed, past>>

Exhausted(p) == evidence[p] # "gone" /\ attempts[p] >= MaxAttempts

RaiseTier(p, tier) == /\ tiers' = [tiers EXCEPT ![p] = @ \cup {tier}]
                      /\ state' = To(p, "escalated")
                      /\ UNCHANGED <<storeVars, ledger, attempts, overdue, closing, doomed, past>>

\* [mutant] the grace is never looked at
TierDue_NoGrace(p, tier) == /\ "ceo" \notin tiers[p]
                            /\ \/ tier = "supervisor" /\ tiers[p] = {} /\ p \notin Critical
                               \/ tier = "ceo" /\ p \in Critical

\* The Supervisor first, unless the problem is critical; the CEO after his grace.
TierDue(p, tier) ==
    /\ "ceo" \notin tiers[p]
    /\ \/ tier = "supervisor" /\ tiers[p] = {} /\ p \notin Critical
       \/ tier = "ceo" /\ (p \in Critical \/ ("supervisor" \in tiers[p] /\ overdue[p]))

Escalate(p) == /\ Turn(p) /\ Exhausted(p)
               /\ \E tier \in Tiers : TierDue(p, tier) /\ RaiseTier(p, tier)

\* The escalation's mission raises: the tier is not recorded.
EscalationRaises(p) == /\ Due(p) /\ Exhausted(p)
                       /\ \E tier \in Tiers : TierDue(p, tier)
                       /\ PassEnds
                       /\ UNCHANGED <<storeVars, engine, past>>

\* A person owns the problem now, or the Supervisor's grace still runs.
StayEscalated(p) == /\ Turn(p) /\ Exhausted(p)
                    /\ \A tier \in Tiers : ~TierDue(p, tier)
                    /\ UNCHANGED <<storeVars, engine, closing, doomed, past>>

Advance(p) == \/ Resolve(p) \/ OpenFreely(p) \/ OpenGranted(p) \/ OpenGate(p) \/ Wait(p)
              \/ Escalate(p) \/ StayEscalated(p) \/ OpenRaises(p) \/ EscalationRaises(p)

-----------------------------------------------------------------------------
(* The daemon's edits of the file, the end of its pass, and its restarts. *)

Save == /\ Prepare(Daemon) \/ ReplaceFile(Daemon)
        /\ UNCHANGED <<engine, pass, world, ids, snapshot, crashes, past>>

SaveRaises == /\ ReplaceRaises(Daemon)
              /\ PassEnds
              /\ UNCHANGED <<engine, world, ids, snapshot, crashes, past>>

TickDone == /\ pc = "tick" /\ Ready /\ agenda = <<>>
            /\ pc' = "publish"
            /\ UNCHANGED <<storeVars, engine, agenda, closing, doomed, world, ids, snapshot,
                           crashes, past>>

\* write_text cuts the snapshot to nothing before it writes it.
CutSnapshot == /\ pc = "publish"
               /\ snapshot' = <<>>
               /\ pc' = "write"
               /\ UNCHANGED <<storeVars, engine, agenda, closing, doomed, world, ids, crashes, past>>

WriteSnapshot == /\ pc = "write"
                 /\ snapshot' = [i \in DOMAIN ledger |->
                                    [problem |-> ledger[i], state |-> state[ledger[i]]]]
                 /\ pc' = "observe"
                 /\ UNCHANGED <<storeVars, engine, agenda, closing, doomed, world, ids,
                                crashes, past>>

\* What the process held is gone, its attempts and escalations with it.
Crash == /\ crashes < MaxCrashes
         /\ crashes' = crashes + 1
         /\ pc' = "recover" /\ agenda' = <<>> /\ closing' = NoProblem /\ doomed' = {}
         /\ stage' = [stage EXCEPT ![Daemon] = "idle"]
         /\ edit' = [edit EXCEPT ![Daemon] = NoEdit]
         /\ buffer' = [buffer EXCEPT ![Daemon] = <<>>]
         /\ handle' = [handle EXCEPT ![Daemon] = "closed"]
         /\ ledger' = <<>> /\ state' = [p \in Problems |-> "none"]
         /\ attempts' = [p \in Problems |-> 0]
         /\ tiers' = [p \in Problems |-> {}]
         /\ overdue' = [p \in Problems |-> FALSE]
         /\ emitted' = {} /\ processed' = {}
         /\ UNCHANGED <<file, tmp, created, decisions, grants, evidence, changes, snapshot, past>>

Recovered(p) == {i \in DOMAIN snapshot : snapshot[i].problem = p}

\* [mutant] the problems are restored without their states
Recover_LedgerOnly ==
    /\ pc = "recover"
    /\ ledger' = [i \in DOMAIN snapshot |-> snapshot[i].problem]
    /\ pc' = "publish"
    /\ UNCHANGED <<storeVars, state, attempts, tiers, overdue, agenda, closing, doomed, world,
                   ids, snapshot, crashes, past>>

Recover == /\ pc = "recover"
           /\ ledger' = [i \in DOMAIN snapshot |-> snapshot[i].problem]
           /\ state' = [p \in Problems |->
                          IF Recovered(p) = {} THEN "none"
                          ELSE snapshot[CHOOSE i \in Recovered(p) : TRUE].state]
           /\ pc' = "publish"
           /\ UNCHANGED <<storeVars, attempts, tiers, overdue, agenda, closing, doomed, world,
                          ids, snapshot, crashes, past>>

DaemonStep == \/ Observe \/ Drain \/ Reconcile \/ Ignore
              \/ \E p \in Problems : Advance(p)
              \/ ClearOne \/ Deactivate \/ Save \/ SaveRaises
              \/ TickDone \/ CutSnapshot \/ WriteSnapshot \/ Recover

Approve == /\ \E a \in Approvers : ApproverStep(a)
           /\ UNCHANGED <<engine, pass, world, ids, snapshot, crashes, past>>

Next == \/ DaemonStep
        \/ Approve
        \/ \E p \in Problems, e \in Evidence : EvidenceChanges(p, e)
        \/ \E p \in Problems : GraceElapses(p)
        \/ Crash

\* The daemon's loop never ends, and time passes.
Spec == /\ Init /\ [][Next]_vars
        /\ WF_vars(DaemonStep)
        /\ \A p \in Problems : WF_vars(GraceElapses(p))

-----------------------------------------------------------------------------
TypeOK == /\ state \in [Problems -> State]
          /\ attempts \in [Problems -> 0..MaxAttempts]
          /\ tiers \in [Problems -> SUBSET Tiers]
          /\ evidence \in [Problems -> Evidence]
          /\ overdue \in [Problems -> BOOLEAN]
          /\ file \in Seq(Request) /\ ledger \in Seq(Problems)
          /\ tmp = NoFile \/ tmp \in Seq(Request)
          /\ stage \in [Writers -> Stages]
          /\ missions \in [Problems -> Nat] /\ raised \in [Problems -> 0..MaxRaised]
          /\ cleared \in [Problems -> Nat]
          /\ pc \in {"observe", "drain", "notify", "tick", "publish", "write", "recover"}
          /\ closing \in Problems \cup {NoProblem}

\* A problem has a state exactly while it is active, whatever raised in between and
\* whatever a restart recovered (coordinator.py: _state and the ledger).
StateFollowsLedger == \A p \in Problems : Active(p) <=> state[p] # "none"

\* The ladder is climbed only over a spent cap: after a close, or a restart, it starts
\* again with the attempts (driver.py: _escalate_ladder, EscalationLedger.clear).
EscalatedAfterCap == \A p \in Problems : tiers[p] # {} =>
                       attempts[p] = MaxAttempts

\* However often events and ticks advance a problem, one life of the worker opens at
\* most max_attempts missions for it until it closes (ADR 0065 D3), and one more for
\* each that raised: driver.py records an attempt only when run_mission returned.
AttemptsCapped == \A p \in Problems :
                    missions[p] <= MaxAttempts * (1 + crashes) + raised[p]

\* A consequential remediation runs only on a request that a person granted, whatever
\* the writers of the file do to each other (lifecycle_host.py: build_approval_gate).
OnlyOnGrant == [][\A p \in Consequential : missions'[p] > missions[p] =>
                     \E i \in DOMAIN file : file[i].target = p /\ file[i].id \in grants]_vars

\* The gate that a mission passes was opened for this episode of the problem: the
\* request is cleared when the problem closes, "so a recurrence re-gates"
\* (lifecycle_host.py:115).
RecurrenceReGates == [][\A p \in Consequential : missions'[p] > missions[p] =>
                          ForTarget(p).id > cleared[p]]_vars

\* From some time on the missions that the driver opens come to an end without raising.
NothingRaises == <>[][\A p \in Problems : ~OpenRaises(p) /\ ~EscalationRaises(p)]_vars

\* Once its evidence stays gone a problem is closed, whatever was lost on the way:
\* events, a pass cut short, the worker itself (coordinator.py: tick).  A mission that
\* raises in every pass keeps those behind it in the ledger from their turn.
ClosesWhenGone == NothingRaises =>
    \A p \in Problems : <>[](evidence[p] = "gone") => <>[]~Active(p)

Granted(p) == Gating(p) # {} /\ ForTarget(p).status = "granted"

\* A problem that stays is brought before the CEO: its attempts are spent and the
\* ladder is climbed to the top, unless its gate keeps it waiting, or its missions (or
\* those of a problem before it) go on raising, which no attempt counts.
EscalatesWhenPresent == NothingRaises =>
    \A p \in Problems :
        <>[](evidence[p] = "present" /\ (p \in Consequential => Granted(p)))
            => <>[]("ceo" \in tiers[p])
=============================================================================
