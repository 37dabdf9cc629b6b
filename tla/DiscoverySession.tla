--------------------------- MODULE DiscoverySession ---------------------------
(***************************************************************************)
(* The core interview of a tenant (DiscoverySessionService): a session row  *)
(* that every answer rewrites whole, and an append-only log of the answers. *)
(* The store is autocommit, so the statements of one answer interleave with *)
(* those of another, and a request may die between any two; only the       *)
(* conclusion is one transaction: the session, the tenant's baseline and   *)
(* version 1 of the analysis.                                              *)
(*                                                                         *)
(* The packs are external: which questions there are, which count towards  *)
(* the conclusion, and on which signals each depends.  What the rules infer *)
(* from the signals, and the analysis itself, are a function of the signals *)
(* and are left out.                                                       *)
(***************************************************************************)
EXTENDS SignalResolution, Naturals, Sequences

CONSTANTS Client,        \* the requests that may be under way at once
          Session,       \* ids of discovery sessions
          Required,      \* questions that cannot be skipped
          Decisive,      \* required questions whose priority is over the threshold
          Needs,         \* what must be signalled for a question to apply
          NoAssessment,  \* a version that the core concluded
          Kind, Loads    \* bound: how many requests of each kind there may be

ASSUME PacksAssumption == /\ Required \subseteq Question /\ Decisive \subseteq Required
                          /\ Needs \in [Question -> SUBSET (Question \X Value)]
ASSUME RequestsAssumption == Loads \subseteq [Kind -> Nat]

VARIABLES
    sessions,  \* discovery_sessions: status and signals
    log,       \* discovery_answers of each session, by sequence
    baseline,  \* organization_profiles.signals of the tenant
    versions,  \* session_applicability_versions of each session, by version
    pc,        \* the statement each client's request is to run next
    held,      \* what it holds between two statements
    used       \* how much of the bounds is used

interview == <<sessions, log, baseline, versions>>

Nothing == [nothing |-> TRUE]

Turning == {"history", "sequence", "append", "save"}

requests == <<pc, held, used>>

\* What a request holds, and what its next statement learns.
With(r, more) == [f \in DOMAIN r \cup DOMAIN more |->
                    IF f \in DOMAIN more THEN more[f] ELSE r[f]]

\* A request goes on to a statement, ends, or begins.
Goes(c, to, r) == /\ pc' = [pc EXCEPT ![c] = to]
                  /\ held' = [held EXCEPT ![c] = r]
                  /\ UNCHANGED used
Ends(c) == Goes(c, "idle", Nothing)
Begins(c, kind, to, r) == /\ pc[c] = "idle"
                          /\ used' = [used EXCEPT ![kind] = @ + 1]
                          /\ \E load \in Loads : \A k \in Kind : used'[k] <= load[k]
                          /\ pc' = [pc EXCEPT ![c] = to]
                          /\ held' = [held EXCEPT ![c] = r]

NewSession == [status |-> "in_progress", signals |-> NoSignals]
AbsentSession == [status |-> "absent", signals |-> NoSignals]

InterviewInit == /\ sessions = [s \in Session |-> AbsentSession]
                 /\ log = [s \in Session |-> <<>>]
                 /\ baseline = NoSignals
                 /\ versions = [s \in Session |-> <<>>]

-----------------------------------------------------------------------------
(* Which questions are left (DiscoveryEngine). *)

Applies(q, signals) == \A need \in Needs[q] : signals[need[1]] = need[2]

Eligible(signals, answered) == {q \in Question \ answered : Applies(q, signals)}

IsConcluded(signals, answered) == Eligible(signals, answered) \cap Decisive = {}

Answered(s) == {log[s][i].question : i \in DOMAIN log[s]}

\* Every value the tenant gave for a signal.
Given(s, q) == {log[s][i].value : i \in {j \in DOMAIN log[s] : log[s][j].question = q}}

-----------------------------------------------------------------------------
(* One answer, or one skip (NoValue), a statement at a time. *)

Start(s) == /\ sessions[s].status = "absent"
            /\ sessions' = [sessions EXCEPT ![s] = NewSession]
            /\ UNCHANGED <<log, baseline, versions, requests>>

Skips(v) == v = NoValue

LoadSession(c, s, q, v) ==
    /\ sessions[s].status = "in_progress"
    /\ Skips(v) => q \notin Required
    /\ Begins(c, "turn", "history", [session |-> s, question |-> q, value |-> v,
                                     signals |-> sessions[s].signals])
    /\ UNCHANGED interview

\* The questions answered so far come from the log.  One that does not apply, and was
\* never answered, is refused.
ReadHistory(c) ==
    /\ pc[c] = "history"
    /\ LET r == held[c]
           answered == Answered(r.session)
       IN IF r.question \in Eligible(r.signals, answered) \cup answered
            THEN Goes(c, "sequence", With(r, [answered |-> answered]))
            ELSE Ends(c)
    /\ UNCHANGED interview

NextSequence(c) == /\ pc[c] = "sequence"
                   /\ Goes(c, "append",
                           With(held[c], [next |-> Len(log[held[c].session]) + 1]))
                   /\ UNCHANGED interview

\* The sequence is free: the answer is durable from here on.
AppendAnswer(c) ==
    /\ pc[c] = "append"
    /\ LET r == held[c]
       IN /\ r.next = Len(log[r.session]) + 1
          /\ log' = [log EXCEPT ![r.session] =
                       Append(@, [question |-> r.question, value |-> r.value])]
          /\ Goes(c, "save", r)
    /\ UNCHANGED <<sessions, baseline, versions>>

\* [mutant] the unique violation is swallowed
AppendRaises_Ignored(c) == /\ pc[c] = "append"
                           /\ held[c].next # Len(log[held[c].session]) + 1
                           /\ Goes(c, "save", held[c])
                           /\ UNCHANGED interview

\* Another request of the session took the sequence: the unique index refuses this one.
AppendRaises(c) == /\ pc[c] = "append"
                   /\ held[c].next # Len(log[held[c].session]) + 1
                   /\ Ends(c)
                   /\ UNCHANGED interview

\* The session as it was loaded, with this answer: a skip leaves the signals alone.
Signalled(r) == IF Skips(r.value) THEN r.signals
                ELSE [r.signals EXCEPT ![r.question] = r.value]

Finished(r) == IsConcluded(Signalled(r), r.answered \cup {r.question})

SaveTurn(c) ==
    /\ pc[c] = "save"
    /\ LET r == held[c]
       IN /\ ~Finished(r)
          /\ sessions' = [sessions EXCEPT ![r.session] =
                            [status |-> "in_progress", signals |-> Signalled(r)]]
    /\ Ends(c)
    /\ UNCHANGED <<log, baseline, versions>>

CoreVersion(signals) == [assessment |-> NoAssessment, core |-> signals, signals |-> signals,
                         answers |-> NoAnswers, conflicts |-> {}]

\* [mutant] the conclusion is not one transaction: it may stop after the session
Conclude_Session(c) ==
    /\ pc[c] = "save"
    /\ LET r == held[c]
       IN /\ Finished(r)
          /\ sessions' = [sessions EXCEPT ![r.session] =
                            [status |-> "concluded", signals |-> Signalled(r)]]
    /\ Ends(c)
    /\ UNCHANGED <<log, baseline, versions>>

\* One transaction: the session, the baseline and version 1.
Conclude(c) ==
    /\ pc[c] = "save"
    /\ LET r == held[c]
       IN /\ Finished(r)
          /\ versions[r.session] = <<>>
          /\ sessions' = [sessions EXCEPT ![r.session] =
                            [status |-> "concluded", signals |-> Signalled(r)]]
          /\ baseline' = Signalled(r)
          /\ versions' = [versions EXCEPT ![r.session] = <<CoreVersion(Signalled(r))>>]
    /\ Ends(c)
    /\ UNCHANGED log

\* Version 1 exists: all of the conclusion is rolled back, the answer stays in the log.
ConcludeRaises(c) == /\ pc[c] = "save"
                     /\ Finished(held[c])
                     /\ versions[held[c].session] # <<>>
                     /\ Ends(c)
                     /\ UNCHANGED interview

TurnStep(c) == \/ \E s \in Session, q \in Question, v \in Value \cup {NoValue} :
                     LoadSession(c, s, q, v)
               \/ ReadHistory(c) \/ NextSequence(c) \/ AppendAnswer(c) \/ AppendRaises(c)
               \/ SaveTurn(c) \/ Conclude(c) \/ ConcludeRaises(c)
=============================================================================
