# Verification of the governed-mission platform

This directory is a TLA+ development kept beside the code of this repository. It models
the parts of the system in which a mistake would be worst and hardest to find by testing,
because several actors change shared state and any of them may die between two steps:

* the *missions* of `v2`: a goal with a plan of steps, some of them *consequential*, which a
  human has to approve before their tool is called; stored in Postgres, served over HTTP by
  several workers, announced through a transactional outbox;
* the *governance store* of `v2`: a tenant's interviews, the reviewers' knowledge releases, the
  analyses that are recorded, and the plans made from them;
* the *problem lifecycle* of `devteam`: a daemon that drives problems to closure, asks people
  for approval through a shared file, and recovers from a snapshot.

TLC checks every module on small instances. TLAPS proves every safety
property of the passing runs for every value of the constants (two of the service's: for one worker). `PROJECT.json` maps every definition to the lines it models.

All source paths below are relative to the repository's root; `P/` abbreviates
`v2/packages/`, `API/` abbreviates `v2/apps/grc-api/grc_api/` and `ORG/` abbreviates
`devteam/packages/devteam-organization/devteam_organization/`.

## 1. Inventory

### Modelled, wholly or in part

**The Mission aggregate** (`P/mission-engine/mission_engine/mission.py`, `lifecycle.py`,
`plan.py`, `approval.py`). State: a status, an immutable versioned plan, the results of the
steps that ran, at most one approval request. Operations: `set_plan`, `begin_execution`,
`record_step`, `await_approval`, `resume`, `approve`, `reject`, `replan`, `complete`,
`fail`, `cancel`, `archive`. Each checks the lifecycle table and raises, or changes the
aggregate. Correct when: terminal states are never left except to the archive, and a
paused mission always carries a request that a human can decide.

**The engine** (`P/mission-engine/mission_engine/engine.py`). It keeps no state between
calls. An operation applies one aggregate method, saves, and emits an event;
`execute` and `resume` then run the *drive loop*, which calls the executor for one step
after another, saves after each, and pauses at gates. Hard: a save and its event are two steps, and
either may raise or the process die between them; the loop goes on from
`len(step_results)` of whatever copy it was given; an approval must open one gate and no other, also
after a re-plan, a crash or a `resume` nobody decided on. Correct when: steps are called
in order, at most once each, consequential ones behind an approval of exactly that step, and
the events never tell more than is stored.

**The service** (`API/adapters.py`, `API/launch.py`, `API/composition.py`,
`P/mission-application`, `P/mission-store/mission_store/store.py`, `unit_of_work.py`,
`P/mission-read-model`, `P/mission-projection`). State: the mission row, the read-model row,
the outbox rows, and what each HTTP worker has in hand. A request runs its *command* in one
READ COMMITTED transaction; what the command asked to start is *launched* after the commit, on an
autocommit connection where every statement is a transaction of its own. Hard: loads take no lock (`load_for_update`
is a plain SELECT), saves replace the whole row without comparing revisions, and the process
may die between any two statements. Correct when: no interleaving carries a step past its gate, the row is always some
writer's whole mission, one idempotency key makes one mission, requests end, and
what was approved is taken up.

**The outbox and its relay** (`P/mission-store/mission_store/outbox*.py`, `API/relay.py`,
`P/event-bus`). State: rows with an id from a sequence, a payload version and a published mark; the
relay process's loop and its one connection. Hard: ids are given at insert and visible at
commit, so id order is not commit order; publish and mark are two steps; a deployment
overlaps an old and a new relay; a row may be undecodable. Correct when: a marked
row was delivered, only committed rows are, a cause comes before its effect, and in the end
everything is delivered.

**The discovery interview** (`P/governance-session/governance_session/service.py`,
`P/governance-discovery`). State: a session row (status and signals), an append-only log of answers, the tenant's
baseline, the versions of the analysis. Operations: start, answer, skip. The session is loaded and
saved whole, without a lock; an answer is committed before the session is saved; the conclusion is one
transaction. Hard: two answers of one session race, or a request dies between the log and the session.
Correct when: nothing is recorded that was not answered, and a conclusion is whole or absent.

**Knowledge releases** (`P/governance-store/governance_store/knowledge_store.py`, `knowledge_services.py`,
migrations 0004 to 0009). State: the status of each release, the pointer to the one live in an industry, the
history of the pointer. Operations: register, generate, submit, approve, reject, publish, activate, retire.
Correct when: only what was released is ever live, or cited by way of the pointer, whatever order reviewers act in.

**The sector interview** (`knowledge_services.py`, `knowledge_store.py`, `API/sector_conclusion.py`,
`P/governance-discovery/governance_discovery/resolution.py`). State: assessments, their
answers, and the versions they lead to. Operations: open from a session, post on releases of the caller's
choice, save an answer, conclude. Hard: the pointer may move under the opening; the route concludes on an autocommit connection, so the
conclusion is six statements that commit alone. Correct when: an assessment has one version, computed from
answers that were given, in which the core's signals stand and a disagreement decides nothing.

**Plans** (`P/governance-plan-tools`, `P/governance-plan-execution`, `governance_store/store.py`). State: plans with their
status, version and predecessor; items with an audit trail. Operations: draft, finalize (three or four
commits), and the moves of an item under an optimistic lock. Correct when: one plan has one successor, and an
item's trail tells its life.

**The problem lifecycle** (`ORG/lifecycle/`, `ORG/lifecycle_host.py`, `ORG/monitor.py`). State: the ledger of
active problems, a state per problem, attempts and escalations in memory, a snapshot on disk. A pass
observes, drains decisions, notifies, ticks and publishes. Hard: an event is marked handled before it is; the
daemon may die anywhere, and only the snapshot survives; one failing step ends the pass, and a mission that raises is
not counted. Correct when: the missions that ran are bounded, a gated remediation runs on a person's grant, and, while
missions do not go on raising, what is gone is closed and what stays reaches the CEO.

**The approvals file** (`devteam/packages/devteam-approval`, `devteam-approval-api`). One JSON
file that the daemon and the API's threads each read, change and replace through one temporary name,
without a lock. Hard: every system call of one writer interleaves with those of another.

### How they interact

```
HTTP worker --command (one transaction)--> mission row + outbox rows + read-model row
     |                                          ^                 |
     +--launch after commit (autocommit)--------+                 v
            MissionEngine.execute / resume                 relay: fetch, publish, mark
            executor called once per step                         |
                                                                  v  synchronous event bus
                                                              consumers

core interview --conclusion--> version 1 --opens--> sector interview --conclusion--> version n
                                                       ^ cites                          |
reviewers --> releases --> active pointer -------------+          drafts and finalizes  v
                                                          plan n supersedes plan n-1, items

connectors --signals--> daemon --gate--> approvals file <--decision-- Approval API
                          |  ^--------------decided requests-----+
                          +--> snapshot
```

The engine is called by the service through the aggregate's copy a worker has loaded. The
service and the relay share only the outbox table. The governance requests share only the database, the
daemon and the Approval API only the file. The draft and finalize tools run as steps of a mission; the
daemon's remediations are missions too, run to their end inside one call.

### Not modelled yet

| Component | State and operations | What is hard |
|---|---|---|
| connection pools of `API/composition.py` | two pools of five; a launch borrows from one while its scope holds the other | exhaustion and the ten-second wait |
| `P/mission-integration` | a second composition of the engine, one transaction per drive | a rollback undoes the record of a call that was made (`runtime.py:137`); an approval is loaded on one connection and decided on another (`runtime.py:178`) |
| translations of knowledge (`knowledge_store.py`) | saved, reviewed, published beside a release | a publish whose check and update see different rows (`knowledge_store.py:661`) |
| scheduling of `devteam` jobs and connectors | a single-threaded loop | backoff and missed runs |

### Not modelled, and not planned

Stateless or batch code, whose correctness is about data: the HTTP surface, the answer
pipeline (decision, retrieval, context, prompt, generation, validation), the tools and their
registry (an executor call that returns or raises is all the engine sees of them),
importers, document readers, deliverables, framework library, knowledge runtime; the v3 extractors and graph
writers; the devteam agents, harness, observability and dashboard; the previous generation
(`apps/`, `packages/`), which is kept and not extended; the web applications.
`PROJECT.json` lists each with its files.

## 2. Modules

| Module | Models | Kind |
|---|---|---|
| `MissionLifecycle` | the aggregate | one operator per method; a method that may raise is a pair `CanX`/`X` |
| `GatedExecution` | nothing in particular: what the platform promises | the abstract specification |
| `MissionEngine` | `engine.py`, one client | sequential, with re-planning and crashes |
| `MissionService` | commands, launch, store, read model | concurrent workers over one database |
| `OutboxRelay` | outbox and relay | writers, relays and failures |
| `ApprovalStore` | the approvals file | its writers, a system call at a time |
| `ProblemLifecycle` | the daemon, extends `ApprovalStore` | one worker, people and the world around it; carries its own instances |
| `SignalResolution` | `resolution.py` | pure operators |
| `DiscoverySession` | the core interview, extends `SignalResolution` | concurrent requests, a statement at a time |
| `KnowledgeReleases` | releases and the pointer | one action per operation |
| `SectorAssessment` | the sector interview, extends the two above | concurrent requests |
| `GovernancePlans` | plans and items, extends `SectorAssessment` | concurrent requests |
| `GovernanceStore` | all of it over one store | the composition, its deaths and its properties |
| `MC*` | | instances for TLC |
| `*Proofs` | | theorems and their proofs |

`MissionEngine` and `MissionService` both extend `MissionLifecycle`, and both are compared with
`GatedExecution` by a refinement mapping.

### MissionLifecycle

A mission is a record of its status, plan, plan version, number of results and
approval. A plan is the sequence of its steps' `consequential` flags: nothing else of a step
decides what the engine does. Step results are their number, as the driver reads only
`len(step_results)`. A request is the step it was built for and its decision. Names, goals,
comments, tenants and times are left out.

### GatedExecution

Four variables: the plan, the steps called, the clearance held (a position, or 0), and
whether the mission is over. `Call` appends the next position, needs the clearance when the step
is gated, and uses it up. `Adopt`, `Clear`, `Lapse` and `Stop` are the only other steps. It
fixes what "one approval opens one gate" means, without a word about copies, rows or events.

### MissionEngine

`mission` is the copy the client holds, `stored` the snapshot in the store: they differ
because `resume`, `replan` and `archive` on the aggregate are not saved by any engine
operation. `trail` summarises the emitted events (the last one, and how many steps they report), `drive` is
the loop's local state, and `calls` is a history variable. An operation is a save and then an event: `Save` stores
the aggregate and leaves its event in `owed`, and only `EmitEvent` puts it on the trail; the client and the loop wait for that.
`SaveRaises` leaves the change on the client's copy alone, `EmitRaises` is a subscriber that raises, and both end the
drive. In a drive the tool call and the save of its result are separate too, and `Reload` (a crash, or a client that starts
from the store again) may come between any two of these steps. `gaps` is a history variable: whether the newest
event, or a step's, was lost. `GateIsApproved` is `_gate_is_approved`: resuming, at the progress
the resume started from, with an approved request.

`Cleared` in the refinement mapping is derived: the position of the next step, while the stored mission is approved and
either waits to be resumed or is in the hands of the drive that resumed it and has not called yet.

### MissionService

One mission, which stands for its idempotency key. Database: `row`, `view`, `events` (all
committed), `rowLock`, `viewLock` (who has written without committing). A worker goes

```
idle --> write --> show --> commit --> launch --> begin --> [emit] --> drive <--> called
                                          |                              |  ^ save, then emit
                                          +--> project <-----------------+--+
```

`Arrive` is the plain SELECT a command starts with: it takes no lock, so whatever follows rests on a
copy. `WriteRow` waits for the transaction that wrote the row (`Free`) and then replaces it; the write becomes visible at `Commit` with the
events and the read model. A creation that waited finds the key taken and raises `IdempotencyConflict`. `LaunchLoad` reads again, and each later
save and each event is a step of its own. `FailRequest` may end a request
before any of its statements: a crash of the process, a refused statement, a launch that got no
connection. It releases the locks and loses what is not committed.

The model starts from what Postgres does, read from the way the code uses it: a read sees what is
committed; an upsert waits for the lock and then overwrites. Deadlock detection is not modelled;
`RequestsEnd` shows there is no cycle of waits for it to break.

### OutboxRelay

A row is its position in `rows`, which is its id. `WriteEvent` takes the id, `EndTxn` makes
the row visible or not. A relay fetches a batch (`Pages`: what ORDER BY id LIMIT returns of the unpublished rows it
can see), then for each row publishes, then marks.
`Block` is `UnsupportedEventType`, the one error that ends `run_relay`; `Misread` is another
payload version, which raises the plain `OutboxError` and is retried like a lost connection. `linked` says
whether the relay's only connection is alive: nothing in the process replaces it. `Crash`, `Shutdown`,
`PublishFails` and `LoseConnection` may come at any statement. `Restart` is the
platform starting the process again. `after` records, for a row, the rows its writer could have known of.

### ApprovalStore and ProblemLifecycle

A save or a delete of the file is five steps: read and change (`ReadFile`), open the temporary name
(`OpenTmp`), write (`FillTmp`), rename (`ReplaceFile`), or find it gone (`ReplaceRaises`). `handle` says where the
inode a writer has open is by now, because `os.replace` moves it under the writer's hands. A missing, empty or cut file reads
as no requests, in the code and here.

`pc` is where the daemon's pass is, `agenda` what it has yet to advance. One `Advance` of a problem is one
step, except that it may leave an edit of the file under way (`OpenGate`, `ClearOne`): `Ready` then makes the
pass wait for `Save`. `SaveRaises` ends the pass as the exception does. `CutSnapshot` and `WriteSnapshot` are
`write_text`. `Crash` forgets all but the two files, `Recover` restores the ledger and the states. The call that opens a
mission runs it to its end, and may raise before or after it was opened: `OpenRaises` and `EscalationRaises` then record
nothing and end the pass (`PassEnds`), so whatever was behind the problem in the agenda waits for the next one. `missions`, `raised`,
`cleared` and `grants` are history variables. Connectors and missions are external: `evidence` changes on its own, and a
mission of a remediation has ended when the driver looks again.

### The governance modules

`pc[c]` is the next statement of request `c` and `held[c]` what it learned from the earlier ones. `Goes`,
`Ends` and `Begins` are the only ways a request moves, so `Die` can come between any two statements; what a request
had committed stays. `Turning`, `Opening`, `Recording`, `Concluding` and `Planning` are the statements of one answer, one opening,
one saved sector answer, one sector conclusion, and of plans and items.

A question of the core writes one signal and names it. `Needs` are the conditions of the packs, `Required` and
`Decisive` what may not be skipped and what the conclusion waits for. Version `i` of a session is position `i` of
`versions[s]`. A uniqueness constraint, a trigger or a foreign key of the migrations is a guard (`Accepts`,
`UpsertAnswer`, `Activate`), and its violation is an action of its own (`AppendRaises`, `ConcludeRaises`, `RecordRaises`).
`UpsertAnswer` and `CommitAnswer` are the two ends of the transaction that saves an answer: while it is open its row is
locked, and for a new row the assessment's too, which is what a conclusion waits for. `PostAssessment` is the route that opens an assessment on whatever release its caller names, in any status
(`"absent"` stands for an id of no release), and on any session or none; `chosen` is a history field that tells such an assessment from one
that `ReadActive` opened. A conclusion without a session behind it goes straight to its end. A release's life and its pointer
are single guarded statements or one locked transaction, so each operation is one action. `plans` is the
table in the order of creation; an item's lock is the length of its trail.

## 3. Runs

| Run | Instance | Properties |
|---|---|---|
| `engine` | plans of one and two steps with every choice of gates, and gate–plain–gate; versions up to 3 | `TypeOK`, `PausedIsDecidable`, `TrailExplainsStore`, `TerminalIsFinal`, `ImplementsGatedExecution`, `DriveEnds` |
| `service` | 2 workers, two gates in a row, 5 requests, 1 death | `TypeOK`, `GateRespected`, `ClearancesAreOnRecord`, `RowIsCoherent`, `OneCreation`, `RequestsEnd`, `ApprovalIsTakenUp` |
| `service_serial` | 1 worker, four plans, 6 requests, 2 deaths | `ImplementsGatedExecution`, `ViewIsCurrent` |
| `outbox` | 2 transactions, 3 rows, 2 relays, batches of 2, 2 faults | `TypeOK`, `PublishedWasDelivered`, `OnlyCommittedDelivered`, `CausalOrder`, `EveryEventDelivered` |
| `problems` | a gated, critical problem and a free one, 2 attempts, 1 opened mission of each that raises, 3 changes of the evidence, 2 decisions, 1 death | `TypeOK`, `StateFollowsLedger`, `EscalatedAfterCap`, `AttemptsCapped`, `OnlyOnGrant`, `ClosesWhenGone`, `EscalatesWhenPresent` |
| `governance` | 2 requests at once, 1 session of 3 questions, 2 sector questions, 2 assessments, 1 industry and release, 7 acts of reviewers, 1 death | `TypeOK`, `SignalsAreAnswers`, `ConcludedIsRecorded`, `SectorOnlyAdds`, `OneVersionPerAssessment`, `CitedWasReleased`, `ActiveIsReleased`, `OneSuccessor`, `TrailIsLegal` |
| `service_twice` | 2 workers, gate last, 5 requests | refutes `NoStepTwice` |
| `service_rejected` | the same | refutes `RejectedNeverRuns` |
| `outbox_loud` | 1 relay, 2 rows, 1 fault | refutes `UndecodableRowIsLoud` |
| `outbox_outage` | 1 relay, 2 rows, 1 fault | refutes `DeliversAfterOutage` |
| `problems_regate` | 1 gated problem, 1 attempt, 1 decision, no death | refutes `RecurrenceReGates` |
| `governance_conclude` | 1 request at a time, 1 assessment, 1 death | refutes `ConcludesAsOne` |

**What they show.** `engine`: whatever order a client calls the engine in, and wherever it
crashes, the mission it stores is decidable when paused, final when terminal, and its execution is gated. Its events never
tell of a step or an end that is not stored; they tell of everything that is as long as none was lost
between its save and its emission, which a crash, a save or a subscriber that raises can do (`gaps`). `service`: two requests in flight may
overwrite each other's rows, but no gated step is called before an approval of
that step is committed, the row never mixes two writers' missions, the audit events cover every gate that was
passed, racing creations make one mission, no two requests wait for each
other, and an approval that commits is taken up unless a request died. `service_serial`: with one request at a time the service
keeps the whole contract, deaths included, and the read model is exact when none
died. `outbox`: at-least-once delivery in causal order, by any number of relays that
overlap, and delivery of everything that nothing hinders. `problems`: races on the approvals file, lost
events, passes cut short and a death of the daemon delay its work but open no gate nobody
granted. The missions of an episode are at most the cap for each life of the worker and one more for each that raised: the code does not count
those, so it keeps no absolute cap. If missions do not go on raising for ever (`NothingRaises`), no problem that is gone, and none that stays, is left
where it is; without that premise both liveness properties are false. `governance`: with every
statement of two requests interleaved and one of them dying anywhere, what is recorded was answered, a
conclusion is whole, an assessment has one version that only adds to the core, nothing is live that is not released, and no interview that
a session opened cites what was never released (a posted one may cite a draft), one plan has one successor, and every item's trail is a legal life.

**Why the bounds are enough.** *Engine*: gate followed by gate shows whether an approval opens a second gate, gate–plain–gate whether it survives a
plain step; the client may re-plan up to version 3, so a plan
replaces a replacement. Saves, subscribers and the process may fail at every save, without a bound. *Service*: two workers are what every race here needs (each pair of statements in either order),
and five requests let a creation, a start, two decisions of one gate and a late start overlap; one
death per behaviour can fall at each statement of each request. Three workers
and other plans are covered by the proofs. *Serial*: six requests
take a mission over two gates to its end with two that die on the way. *Outbox*: the properties speak of
single rows or of pairs; three rows are one more than a batch, two transactions
commit in both orders against their ids, and two relays hold overlapping batches. Two faults let one
failure follow another, such as a crash after a lost connection. *Problems*: three changes of the evidence are an
episode, its end and a recurrence; two decisions let one be saved while the gate it decides is cleared; the death may
fall in the first episode or the second. A mission that raised counts against `MaxRaised`, one that raised before it
was opened and an escalation that raised do not, and so recur without a bound; that the cap holds for every `MaxRaised` is proved. The gated problem is critical and the free one is not, so both ways up the
ladder are taken. *Governance*: two requests are what every race of pairs of statements needs. `MCLoads` says
which requests of each kind come together: three turns that race; a turn to a conclusion, then two openings, two answers and two
conclusions; two turns, then an opening, two answers and a conclusion; an opening against a posted assessment; three drafts that
finalize; a plan and three moves of its item; and one of each in a row. `q1` alone concludes a "retail" session, so the second turn
may answer the signal that both sector questions declare, or leave it open: a claim meets a silent core, one that agrees and one that contradicts it,
and two claims agree or disagree. Seven
acts take a release to the pointer with one act left to disturb it. Other sizes are covered by the proofs.

The runs of missions, the outbox and problems keep TLC's deadlock check on: a stop in which nothing is left to do
is a named stuttering step (`Done`, `Drained`), and the daemon never stops. The two governance runs turn it off: clients may
stop sending requests, and at the end of the bounds nothing is left.

Every property has a mutant in `PROJECT.json`: a definition with a bug a developer could
make, such as a dropped check or a wrong order, that the same run then reports. Their definitions are
marked `[mutant]` in the modules and are not used by the specifications.

## 4. Fairness

* `FairDrive` (engine): the drive loop is one synchronous call, so a step of it that stays possible
  is taken. Nothing else is fair: a client need not call, decide or re-plan. Because
  `Reload` may come at any time, `DriveEnds` holds by ending in a gate, an end, an
  exception or a crash.
* `FairWorkers` (service): a worker that has a request runs its next statement when that stays
  possible. Requests need not arrive and need not die. The database's
  lock queue is covered: a lock is held only up to a commit or rollback that is fair itself, and
  the finite number of requests bounds how often a waiting writer is overtaken.
* `FairRelay` (outbox): a transaction ends, since a request does; a relay goes on with its loop; a
  platform restarts an exited process. Faults are not fair. `EveryEventDelivered` says that the relays catch up again
  and again (with a bounded number of rows: for good), and excuses
  an undecodable row, which blocks the queue by design, and the loss of all
  connections, which `outbox_outage` shows to be for good.
* `Spec` of ProblemLifecycle: the daemon's loop (`OrganizationMonitor.run_forever`) never ends, so `DaemonStep` is
  weakly fair, and the Supervisor's grace is wall-clock time, so `GraceElapses` is. People need not decide anything, the
  evidence need not change and the worker need not die: `EscalatesWhenPresent` therefore speaks of a gated problem only
  once its request is granted for good. A mission may raise whenever it is opened, so the two liveness properties have `NothingRaises` as
  their premise: from some time on no opened mission and no escalation raises. The code gives no more than that.
* None for the governance store: a client need not send its next request, and the code promises no end to a
  sequence of them. Only safety is stated.

## 5. Proofs

`MissionLifecycleProofs` has the facts about the aggregate that both other proofs cite: every method
returns a mission (`MethodsReturnMissions`, `MovesReturnMissions`), which fields a method leaves
alone (`MoveFields`, `PlanFields`, `DecideFields`, `DriveFields`), and what
the lifecycle table says about each guard (`Guards`). After them no proof opens the table again.

`MissionEngineProofs`, from `PlansAssumption` (plans are non-empty sequences of flags) and `MaxVersionAssumption`:

| Theorem | Says |
|---|---|
| `TypeCorrect` | `Spec => []TypeOK` |
| `PausedMissionsAreDecidable` | `Spec => []PausedIsDecidable` |
| `EventsAccountForTheStore` | `Spec => []TrailExplainsStore` |
| `TerminalMissionsAreFinal` | `Spec => TerminalIsFinal` |
| `EngineImplementsGatedExecution` | `Spec => ImplementsGatedExecution` |

None of these is inductive, because the client acts on a copy that may differ from what is
stored, further still once a save has raised. The inductive invariant `IInv` says of the copy and of the store, each by itself, what a
request and an approval are for; that they exist together (`CopyOfStored`); that a running
drive holds what is stored (`DriveHoldsStored`: a save that raises ends it); and that an event which is owed is the
newest (`OwedIsNewest`). A copy that is neither executing nor at an end records every call that was made: a result whose save
raised is left on an executing copy, which nothing drives on. Refinement is proved step by
step: each engine action is one abstract action under `Cleared`, or leaves the
four abstract variables alone.

`MissionServiceProofs`, from `NoWorkerAssumption`, `PlansAssumption` and `BoundsAssumption`:

| Theorem | Says |
|---|---|
| `ServiceTypes` | `Spec => []TypeOK` |
| `ServiceRespectsGates` | `Spec => []GateRespected` |
| `RowsStayCoherent` | `Spec => []RowIsCoherent` |
| `CreatedOnce` | `Spec => []OneCreation` |
| `ClearancesStayOnRecord` | `Spec => []ClearancesAreOnRecord` |
| `SerialViewIsCurrent` | with one worker, `Spec => []ViewIsCurrent` |
| `SerialServiceImplementsGatedExecution` | with one worker, `Spec => ImplementsGatedExecution` |

The first five hold for any set of workers, finite or not, any plans, and any number of requests and
deaths. The invariant is one part per worker and one about the database. `WorkerOK(w)` is
`Protocol` (which command is where), `CopyOK` (the copy is a coherent mission of the row's plan, and
an approval it holds is committed or about to be committed by this very
command) and `DriveOK` (the clearance of a drive is for its next step). `RowOK` says the same of
the row and `LocksOK` ties the row lock to the command that wrote. The argument that
replaces the missing lock is *monotonicity*: what one worker's part says about the database is
that a mission exists with a certain plan and that an approval is committed. Plans are never replaced once the row exists, and
committed decisions stay, so another worker's step (`Grows`) cannot falsify it
(`OthersKeep`). Each action then has one lemma about the worker that takes it. This also
shows why the two refuted properties fail: nothing monotone says that a decision has *not* been taken.

`CreatedOnce` and `ClearancesStayOnRecord` count, so they need `Account` beside that invariant: the number of events
of a kind (`Tally`) against the row, against the read model, and against the decisions. It adds the two facts the counts rest on: a drive never owes
a "Created" or an "Approved", and a creation that is about to commit holds the lock of the read model's row. A
passed gate is then mapped to the decision that opened it (`GateRespected` gives one), and a finite set has no more images than
elements.

The last two theorems are about one worker, because with two they are false (section 6). Their invariant `Serial`
is what two workers would break: what a command is about to commit still comes from the row as it is (`Derived`), a launch holds the row as it is
(`InStep`), the read model lags only while a drive runs or after a death (`Shown`), and a mission that can be driven on
records as many steps as were called (`Progress`). A commit is then `Adopt`, `Clear` or `Stop` of the contract, a
call is `Call`, a pause or a death is `Lapse` at most, and every other statement changes nothing of it.

`OutboxRelayProofs`, from `KindsAssumption`, `LimitAssumption` and `BoundsAssumption`, for any writers, relays,
rows, batch size and faults:

| Theorem | Says |
|---|---|
| `RelayTypes` | `Spec => []TypeOK` |
| `MarkedWasDelivered` | `Spec => []PublishedWasDelivered` |
| `NothingUncommittedLeaves` | `Spec => []OnlyCommittedDelivered` |
| `EventsFollowTheirCauses` | `Spec => []CausalOrder` |

A relay works on a page it once read. `BatchFollows` says of the page only what nobody can undo: its rows are
committed, and whatever an event of it follows was delivered or stands before it in the page. It holds of a page that is
read now because an event follows only rows with smaller ids of transactions that had committed or of its own
(`FollowsEarlier`), so a page in id order that is full or complete leaves out no cause of what it has.

`GovernanceStoreProofs`, from `LatticeAssumption`, `PrimaryAssumption`, `NoAssessmentAssumption`, `NoReleaseAssumption` and the
other assumptions of the modules it extends, for any sets, any number of requests at once and any number of deaths:

| Theorem | Says |
|---|---|
| `NoFactIsMadeUp` | `Spec => []SignalsAreAnswers` |
| `ConclusionIsWhole` | `Spec => []ConcludedIsRecorded` |
| `AssessmentHasOneVersion` | `Spec => []OneVersionPerAssessment` |
| `OnlyReleasedIsCited` | `Spec => []CitedWasReleased` |
| `OnlyReleasedIsLive` | `Spec => []ActiveIsReleased` |
| `OneMissionReplaces` | `Spec => []OneSuccessor` |

Given `Types` (what rows and requests hold), the invariant has three parts, each kept on its own: `ReleasesInv`,
`InterviewInv` and `PlansInv`. The difficulty is the same everywhere: what a request holds was true when it
was read. So each part says of a held value only what no other request can undo. A release about to be cited by way of the pointer is `Vetted`:
no reviewer's act takes a release out of released and deprecated. A signal in hand was `Told`: the log only grows. A
request that concludes an assessment holds its session: an assessment never changes it. A request about to
create a plan holds a predecessor that is superseded, and it is alone with it: nobody supersedes a superseded
plan. Every statement that writes nothing is then one case (`NothingWritten`, `NoPlanWritten`, `ElsewhereKeeps`), and each that
writes has a lemma of its own.

`SignalResolutionProofs`: `JoinIsASemilattice` (joining claims is idempotent, commutative and associative, so the
order in which packs and answers are folded cannot matter), `FoldOfClaims` (what the fold over any set of answered
questions computes: nothing, the value all of them claim, or a conflict) and `CoreStands` (resolving never changes what the core
knows, and never writes a conflict as a value).

`GovernanceRecordsProofs` continues both, on what is recorded:

| Theorem | Says |
|---|---|
| `AnalysisAddsOnlyClaims` | `Spec => []SectorOnlyAdds` |
| `StoreTypes` | `Spec => []TypeOK` |
| `TrailLeavesLastMove` | the status a trail of any length folds to is the one its last move other than evidence left |
| `TrailTellsItsLife` | `Spec => []TrailIsLegal` |

`RecordsInv` says that every version is `Derived` from its own core and claims: by `FoldOfClaims`, what the
conclusion computes has that form, and a version is never changed. `TrailInv` says that every item is `Legal`
and that a request which is about to write a move read an item that was no longer than it is now (`Meant`): if it
still has that length, it is the item that was read, and the move that was meaningful then is so now. That is the optimistic lock. It also
says that no two requests are about to open one item.

`ProblemLifecycleProofs`, from the assumptions of `ProblemLifecycle` and `ApprovalStore`, for any finite set of problems, any
approvers, attempts and deaths:

| Theorem | Says |
|---|---|
| `LadderStandsOnCap` | `Spec => []EscalatedAfterCap` |
| `MissionsAreCapped` | `Spec => []AttemptsCapped` |
| `GatedRunsOnGrant` | `Spec => OnlyOnGrant` |
| `StateIsThatOfLedger` | `Spec => []StateFollowsLedger` |
| `LifecycleTypes` | `Spec => []TypeOK` |

`CapInv` adds to the first two that the missions since the last close are at
most the attempts counted, those that raised, and a cap for each death, and that the ladder of a problem that is closing is down: the
ladder is reset before the attempts, and the states between the two resets are what the invariant is about.
`StoreInv` is about every content that may yet become the approvals file (the file, the temporary file, what
each writer is to write, and the request it is to save): it is `Sound`, so an id occurs once and nothing in it is granted
that no person granted. Lost updates, cut files and an `os.replace` under another writer's hands choose between sound contents and never
make an unsound one. `LedgerInv` says that a problem is in the ledger once and that the one being closed is in it, so that taking it
out leaves no second entry; the snapshot needs only its type, since a recovery rebuilds ledger and states together.

*What a fold computes.* `Joined` and `StatusAfter` are folds of the community modules, and the library's induction theorems
take an operator and cannot be used. The proofs get by without: the closed form (`Agreed`, `LastStatus`) satisfies the fold's
equation, and two functions that satisfy it are equal, since a smallest set on which they differ does not
exist (the strict subsets of a finite set are well-founded). This is why `Problems` and `SectorQuestion` are assumed finite:
the code goes through both in a loop. No module with a proof uses a RECURSIVE operator.

*Only model-checked.* Every invariant and every action property of the passing runs is proved. What stays with TLC is
liveness (`DriveEnds`, `RequestsEnd`, `ApprovalIsTakenUp`, `EveryEventDelivered`, `ClosesWhenGone`,
`EscalatesWhenPresent`): it needs fairness and ENABLED, which the prover does not handle. The six properties of
section 6 have no theorem, because they do not hold.

## 6. Where the code and its documents disagree

Shown by a run:

1. **A step's tool can be called twice** (`service_twice`). `API/launch.py:49-51` promises that a stray
   launch "does nothing (idempotent at the boundary)". Two start requests whose launches both read the
   mission before either saves `EXECUTING` both drive it. Neither the read nor the save would notice.
2. **A rejected step can run** (`service_rejected`). `mission.py:216`: "The rejected action never runs".
   An approval and a rejection of one gate both find it pending and both commit; the later one replaces
   the row, and if it is the approval its launch calls the step although `MissionRejected` is on record.
3. **An undecodable row is not always loud** (`outbox_loud`). `API/relay.py:26-27` wants the relay to "stop and be
   loud". A row of another payload version raises an error of a class that is taken for transient and is
   retried for ever.
4. **The relay does not survive an outage** (`outbox_outage`). `API/relay.py:53-54` backs off "after a database
   error, so a Postgres outage does not become a hot loop", but the connection that was lost is never
   replaced and every retry fails.
5. **A recurrence may not be gated again** (`problems_regate`). `ORG/lifecycle_host.py:115`: the request is cleared when
   the problem closes "so a recurrence re-gates". A decision is saved on a copy of the file read before: a grant that is saved
   while the daemon clears the gate brings the request back, granted, and the next episode's remediation runs on it.
6. **A sector conclusion is not one transaction** (`governance_conclude`). `API/sector_conclusion.py:16-19` and
   ADR 0068:163 say so. `API/routers/knowledge.py:548` hands it the store's autocommit connection and opens no transaction.
   A death between the version and the conclusion leaves an assessment that can never be concluded: every retry meets the
   unique index on its version.

Met while modelling, and visible in the modules:

* `engine.py:136-137`: `execute` saves without an event; ADR 0042:272 says each transition emits. Every other operation saves first and
  emits after: a death in between (which `API/launch.py:91-95` admits), or a subscriber that raises, loses the event for
  good. (`TrailExplainsStore` allows for both, and for nothing else.)
* `engine.py:343`: `cancel` leaves a pending request on the cancelled mission; ADR 0044:100-106 knows
  requests only while a mission is paused.
* `API/launch.py:52-56`: a mission stored as `executing` is not taken up by any launch; ADR 0043:427-430
  says a restart resumes it. Likewise a mission whose process died between an approval's commit and its launch
  waits as `resumed` until somebody sends a start or an approval (`ApprovalIsTakenUp` excuses deaths).
* `API/adapters.py:69-80`: the step named in an approval request is ignored; the gate that is pending is decided.
* `API/launch.py:126-127`: the read model "never goes stale"; two launches may project in either order,
  and the older copy may come last. (`ViewIsCurrent` is stated for one request at a time.)
* `outbox_schema.py:31`: the id "IS the publish order"; ids are taken before the commit. (`CausalOrder`
  is the order that does hold.)
* Answers: two answers of one session race and the later save drops the earlier one's signal, although both are in the
  log (`service.py:196-230`); a death between the append and the save loses the signal as well. A save of a session that was read
  before its conclusion takes the session back to in progress, and its next conclusion always raises, because version 1 exists.
* Assessments: an answer may be saved into an assessment that is concluded by the time it commits, against
  `knowledge_store.py:866-869`, since the trigger's read takes no lock on the assessment; `save_sector_answers` says there is
  "no second writer to race" (`:824-825`). Two openings of one session make two assessments, where
  `knowledge_services.py:469` says the one there is "returned, not duplicated".
* Posted assessments: `POST /knowledge/assessments` (`API/routers/knowledge.py:471-489`) opens one on the release ids its caller sends, drafts and
  ids of nothing included; no status is looked at and no foreign key holds the array (migration 0012). (`CitedWasReleased` is
  stated for the interviews that a session opens.)
* Releases: activation looks neither at the industry's status nor at whose pack the release is, so a
  retired industry may be served again; retiring one whose release is live in another industry too is refused by
  the foreign key; clearing a pointer writes no history, so `list_activation_history` cannot tell what was live afterwards.
* Plans: two first finalizations leave two active plans, and a death between superseding and creating leaves none,
  where `finalize_tool.py:105-107` says "at most one active plan per tenant".
* Problems: two writers of the approvals file lose each other's updates (`file_store.py:5-7` admits it), and a reader
  may meet a cut file, although the rename is there so that nobody does; attempts and escalations start again at
  zero after a restart (ADR 0065 D3; `AttemptsCapped` allows a cap for each life); a rejected problem waits for ever. A `run_mission` that
  raises leaves its attempt uncounted and ends the pass (`driver.py:200-204`, `237-238`): a problem whose missions go on raising is tried
  once in every pass, never reaches the cap or the CEO, and starves every problem behind it in the ledger; an escalation that raises
  is raised again in the next pass. (`AttemptsCapped` counts what raised beside the cap, `NothingRaises` is the premise of the
  liveness properties.)

## 7. Plan

Done: missions, outbox, problems and approvals, and the governance store (sections 2 to 4), and the proofs of everything the
passing runs check but liveness (section 5). Next, in this order:

1. Translations, beside `KnowledgeReleases`: their publish reads and updates different rows.
2. A second composition of the engine, `P/mission-integration`, whose transaction spans a whole drive: a rollback forgets
   a call that was made.
3. The step from the engine to the service: with one worker, `MissionService` should implement `MissionEngine` statement by
   statement, beside implementing the same contract.

## 8. Not modelled

In the components that are modelled: steering, cancelling and archiving over HTTP (no command reaches the engine);
the in-memory store; tenant guards, which concern one caller; a translation's life; a posted selection of several releases,
which stands here as one; the backfill of sessions that concluded before versions were recorded, so the
draft's "no version" branch is written but never taken; the rules that derive facts from signals and the analysis itself,
functions of what is modelled; resuming and going back in an interview, which only read; expiry and cancellation
of approvals, which have no caller; the two connection pools, of one size, whose only effect here is a borrow that times out (`FailRequest`); the capacity of the log of processed ids (10,000); and anything that concerns
wording, identity or time. Of the database: isolation below READ COMMITTED, deadlock detection, and replication.
