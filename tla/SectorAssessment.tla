--------------------------- MODULE SectorAssessment ---------------------------
(***************************************************************************)
(* The sector interview: an assessment, which a concluded session opens on  *)
(* the release then live in the tenant's industry, or a client posts on the *)
(* releases it names, its answers, and its conclusion, which merges what    *)
(* the answers declare into the signals of the session and records the     *)
(* analysis as the next version.                                           *)
(*                                                                         *)
(* The route concludes over a connection in autocommit, so every statement  *)
(* of conclude_sector_assessment commits alone: the row lock it takes on    *)
(* the assessment waits only for first answers being saved (their foreign   *)
(* key holds the row), and is gone when the statement ends.                *)
(*                                                                         *)
(* An answer set is one answer, as the client sends them, and a selection   *)
(* one release.                                                            *)
(***************************************************************************)
EXTENDS DiscoverySession, KnowledgeReleases

CONSTANTS Assessment,  \* ids of assessments
          NoSession,   \* a posted assessment need not name a session
          Primary      \* the signal that names the tenant's industry

ASSUME PrimaryAssumption == Primary \in Question
ASSUME NoSessionAssumption == NoSession \notin Session
ASSUME NoAssessmentAssumption == NoAssessment \notin Assessment

VARIABLES
    asmt,   \* assessments: status, source session and the release selected; history: by
            \* whom it was chosen, the live "pointer" or the "caller" of the route
    given   \* sector_answers of each assessment, as committed

sector == <<asmt, given>>

Opening    == {"concluded", "pointer", "start"}
Recording  == {"commit"}
Concluding == {"answers", "core", "version", "insert", "complete"}

AbsentAssessment == [status |-> "absent"]

SectorInit == /\ asmt = [a \in Assessment |-> AbsentAssessment]
              /\ given = [a \in Assessment |-> NoAnswers]

Exists(a) == asmt[a].status # "absent"

-----------------------------------------------------------------------------
(* Opening the interview: OpenSectorInterview, the posted route, StartAssessment. *)

\* A session that has an assessment is given it back.
FindAssessment(c, s) ==
    /\ \A a \in Assessment : Exists(a) => asmt[a].session # s
    /\ Begins(c, "open", "concluded", [session |-> s])
    /\ UNCHANGED <<interview, sector>>

\* Refused before the session concluded.  No industry of ours: there is no sector pack.
ReadConcluded(c) ==
    /\ pc[c] = "concluded"
    /\ LET session == sessions[held[c].session]
       IN IF session.status = "concluded" /\ session.signals[Primary] \in Industry
            THEN Goes(c, "pointer", [session |-> held[c].session,
                                     industry |-> session.signals[Primary]])
            ELSE Ends(c)
    /\ UNCHANGED <<interview, sector>>

ReadActive(c) ==
    /\ pc[c] = "pointer"
    /\ LET live == active[held[c].industry]
       IN IF live # NoRelease
            THEN Goes(c, "start", [session |-> held[c].session, release |-> live,
                                   chosen |-> "pointer"])
            ELSE Ends(c)
    /\ UNCHANGED <<interview, sector>>

\* The selection is the caller's: neither the release's status nor the session's is looked
\* at, and no foreign key does it later.  "absent" is an id of no release.
PostAssessment(c, s, r) ==
    /\ s # NoSession => sessions[s].status # "absent"
    /\ Begins(c, "post", "start", [session |-> s, release |-> r, chosen |-> "caller"])
    /\ UNCHANGED <<interview, sector>>

\* One transaction: the assessment and its selection.
StartAssessment(c) ==
    /\ pc[c] = "start"
    /\ \E a \in Assessment :
         /\ ~Exists(a)
         /\ asmt' = [asmt EXCEPT ![a] = [status |-> "open", session |-> held[c].session,
                                         release |-> held[c].release,
                                         chosen |-> held[c].chosen]]
    /\ Ends(c)
    /\ UNCHANGED <<interview, given>>

-----------------------------------------------------------------------------
(* Saving an answer: RecordSectorAnswers. *)

Saves(c, a) == pc[c] = "commit" /\ held[c].assessment = a

\* The trigger sees the assessment open.  The upsert waits for another one of the row;
\* only a new row has its foreign key checked, which holds the assessment's.
UpsertAnswer(c, a, q, v) ==
    /\ asmt[a].status = "open"
    /\ \A d \in Client : Saves(d, a) => held[d].question # q
    /\ Begins(c, "record", "commit", [assessment |-> a, question |-> q, value |-> v,
                                      new |-> given[a][q] = NoRow])
    /\ UNCHANGED <<interview, sector>>

CommitAnswer(c) ==
    /\ pc[c] = "commit"
    /\ given' = [given EXCEPT ![held[c].assessment][held[c].question] = held[c].value]
    /\ Ends(c)
    /\ UNCHANGED <<interview, asmt>>

-----------------------------------------------------------------------------
(* Concluding it: conclude_sector_assessment, a statement at a time. *)

AskToConclude(c, a) ==
    /\ asmt[a].status = "open"
    /\ \A d \in Client : Saves(d, a) => ~held[d].new
    /\ Begins(c, "conclude", "answers", [assessment |-> a, session |-> asmt[a].session])
    /\ UNCHANGED <<interview, sector>>

\* Without a session behind it there is nothing to recompute.
ReadAnswers(c) == /\ pc[c] = "answers"
                  /\ Goes(c, IF held[c].session = NoSession THEN "complete" ELSE "core",
                          With(held[c], [answers |-> given[held[c].assessment]]))
                  /\ UNCHANGED <<interview, sector>>

\* No answer that declared a signal: the analysis stays where the core left it.
ReadCore(c) == /\ pc[c] = "core"
               /\ Goes(c, IF HasClaims(held[c].answers) THEN "version" ELSE "complete",
                       With(held[c], [core |-> sessions[held[c].session].signals]))
               /\ UNCHANGED <<interview, sector>>

NextVersion(c) == /\ pc[c] = "version"
                  /\ Goes(c, "insert",
                          With(held[c], [next |-> Len(versions[held[c].session]) + 1]))
                  /\ UNCHANGED <<interview, sector>>

SectorVersion(r) == [assessment |-> r.assessment, core |-> r.core, answers |-> r.answers,
                     signals |-> Resolve(r.core, r.answers),
                     conflicts |-> Conflicts(r.core, r.answers)]

\* [mutant] an assessment may have several versions
Accepts_Again(s, a, next) == next = Len(versions[s]) + 1 /\ next # 1

\* Of an assessment there is one version, and version 1 is the core's.
Accepts(s, a, next) == /\ next = Len(versions[s]) + 1
                       /\ next # 1
                       /\ \A i \in DOMAIN versions[s] : versions[s][i].assessment # a

RecordVersion(c) ==
    /\ pc[c] = "insert"
    /\ LET r == held[c]
       IN /\ Accepts(r.session, r.assessment, r.next)
          /\ versions' = [versions EXCEPT ![r.session] = Append(@, SectorVersion(r))]
          /\ Goes(c, "complete", r)
    /\ UNCHANGED <<sessions, log, baseline, sector>>

RecordRaises(c) ==
    /\ pc[c] = "insert"
    /\ ~Accepts(held[c].session, held[c].assessment, held[c].next)
    /\ Ends(c)
    /\ UNCHANGED <<interview, sector>>

CompleteAssessment(c) ==
    /\ pc[c] = "complete"
    /\ asmt' = [asmt EXCEPT ![held[c].assessment].status = "concluded"]
    /\ Ends(c)
    /\ UNCHANGED <<interview, given>>

SectorStep(c) == \/ \E s \in Session : FindAssessment(c, s)
                 \/ ReadConcluded(c) \/ ReadActive(c)
                 \/ \E s \in Session \cup {NoSession}, r \in Release : PostAssessment(c, s, r)
                 \/ StartAssessment(c)
                 \/ \E a \in Assessment, q \in SectorQuestion, v \in Value \cup {NoValue} :
                      UpsertAnswer(c, a, q, v)
                 \/ CommitAnswer(c)
                 \/ \E a \in Assessment : AskToConclude(c, a)
                 \/ ReadAnswers(c) \/ ReadCore(c) \/ NextVersion(c)
                 \/ RecordVersion(c) \/ RecordRaises(c) \/ CompleteAssessment(c)
=============================================================================
