-------------------------- MODULE GovernanceStoreProofs --------------------------
(***************************************************************************)
(* Theorems about GovernanceStore, for any number of requests at once, any  *)
(* number of deaths, and all sets of sessions, questions and releases.     *)
(*                                                                         *)
(* What a request holds was true when it was read and may not be any more. *)
(* Each invariant therefore says of a held value only what no other request *)
(* can undo: a release that was live stays released or deprecated, a value *)
(* that was given stays in the log, an assessment stays its session's.     *)
(***************************************************************************)
EXTENDS GovernanceStore, SequenceTheorems, TLAPS

Proper == DOMAIN pc = Client /\ DOMAIN held = Client

\* Only c's request moves, to this statement, with this in hand.
Moved(c, to, r) == /\ Proper'
                   /\ pc'[c] = to /\ held'[c] = r
                   /\ \A d \in Client \ {c} : pc'[d] = pc[d] /\ held'[d] = held[d]

LEMMA GoesMoves ==
    ASSUME Proper, NEW c \in Client, NEW to, NEW r, Goes(c, to, r)
    PROVE  Moved(c, to, r)
  BY DEF Proper, Goes, Moved

LEMMA BeginsMoves ==
    ASSUME Proper, NEW c \in Client, NEW kind, NEW to, NEW r, Begins(c, kind, to, r)
    PROVE  Moved(c, to, r) /\ pc[c] = "idle"
  BY DEF Proper, Begins, Moved

LEMMA EndsMoves ==
    ASSUME Proper, NEW c \in Client, Ends(c)
    PROVE  Moved(c, "idle", Nothing)
  BY GoesMoves DEF Ends

\* What it held is kept, and what it learned is added.
LEMMA WithKeeps ==
    ASSUME NEW r, NEW more
    PROVE  /\ DOMAIN With(r, more) = DOMAIN r \cup DOMAIN more
           /\ \A f \in DOMAIN r \ DOMAIN more : With(r, more)[f] = r[f]
           /\ \A f \in DOMAIN more : With(r, more)[f] = more[f]
  BY DEF With

LEMMA TurnMoves ==
    ASSUME Proper, NEW c \in Client, TurnStep(c)
    PROVE  \E to \in Turning \cup {"idle"} : \E r : Moved(c, to, r)
<1>1. ASSUME NEW s \in Session, NEW q \in Question, NEW v \in Value \cup {NoValue},
             LoadSession(c, s, q, v)
      PROVE  \E r : Moved(c, "history", r)
  BY <1>1, BeginsMoves DEF LoadSession
<1>2. CASE ReadHistory(c)
  BY <1>2, GoesMoves, EndsMoves DEF ReadHistory, Turning
<1>3. CASE NextSequence(c) \/ AppendAnswer(c) \/ AppendRaises(c)
  BY <1>3, GoesMoves, EndsMoves DEF NextSequence, AppendAnswer, AppendRaises, Turning
<1>4. CASE SaveTurn(c) \/ Conclude(c) \/ ConcludeRaises(c)
  BY <1>4, EndsMoves DEF SaveTurn, Conclude, ConcludeRaises
<1> QED
  BY <1>1, <1>2, <1>3, <1>4 DEF TurnStep, Turning

LEMMA PlanMoves ==
    ASSUME Proper, NEW c \in Client, PlanStep(c)
    PROVE  \E to \in Planning \cup {"idle"} : \E r : Moved(c, to, r)
<1>1. ASSUME NEW s \in Session, DraftFromSession(c, s)
      PROVE  \E r : Moved(c, "draft", r)
  BY <1>1, BeginsMoves DEF DraftFromSession
<1>2. CASE DraftFromVersion(c)
  BY <1>2, GoesMoves, EndsMoves DEF DraftFromVersion, Planning
<1>3. CASE ReadPrior(c)
  BY <1>3, GoesMoves DEF ReadPrior, Planning
<1>4. CASE Supersede(c)
  BY <1>4, GoesMoves, EndsMoves DEF Supersede, Planning
<1>5. CASE CreatePlan(c) \/ BindPlan(c) \/ CreateItem(c) \/ WriteItem(c)
  BY <1>5, GoesMoves, EndsMoves DEF CreatePlan, BindPlan, CreateItem, WriteItem, Planning
<1>6. ASSUME NEW p \in DOMAIN plans, NEW move \in ItemMove, LoadItem(c, p, move)
      PROVE  \E r : Moved(c, "write", r)
  BY <1>6, BeginsMoves DEF LoadItem
<1> QED
  BY <1>1, <1>2, <1>3, <1>4, <1>5, <1>6 DEF PlanStep, Planning

LEMMA SectorMoves ==
    ASSUME Proper, NEW c \in Client, SectorStep(c)
    PROVE  \E to \in Opening \cup Recording \cup Concluding \cup {"idle"} : \E r : Moved(c, to, r)
<1> DEFINE Reached == \E to \in Opening \cup Recording \cup Concluding \cup {"idle"} :
                        \E r : Moved(c, to, r)
<1>1. ASSUME NEW s \in Session, FindAssessment(c, s) PROVE Reached
  BY <1>1, BeginsMoves DEF FindAssessment, Opening
<1>2. CASE ReadConcluded(c) \/ ReadActive(c) \/ StartAssessment(c)
  BY <1>2, GoesMoves, EndsMoves DEF ReadConcluded, ReadActive, StartAssessment, Opening
<1>posts. ASSUME NEW s \in Session \cup {NoSession}, NEW r \in Release, PostAssessment(c, s, r)
          PROVE  Reached
  BY <1>posts, BeginsMoves DEF PostAssessment, Opening
<1>3. ASSUME NEW a \in Assessment, NEW q \in SectorQuestion, NEW v \in Value \cup {NoValue},
             UpsertAnswer(c, a, q, v)
      PROVE  Reached
  BY <1>3, BeginsMoves DEF UpsertAnswer, Recording
<1>4. CASE CommitAnswer(c) \/ RecordRaises(c) \/ CompleteAssessment(c)
  BY <1>4, EndsMoves DEF CommitAnswer, RecordRaises, CompleteAssessment
<1>5. ASSUME NEW a \in Assessment, AskToConclude(c, a) PROVE Reached
  BY <1>5, BeginsMoves DEF AskToConclude, Concluding
<1>6. CASE ReadAnswers(c) \/ ReadCore(c) \/ NextVersion(c) \/ RecordVersion(c)
  BY <1>6, GoesMoves DEF ReadAnswers, ReadCore, NextVersion, RecordVersion, Concluding
<1> QED
  BY <1>1, <1>2, <1>3, <1>4, <1>5, <1>6, <1>posts DEF SectorStep

-----------------------------------------------------------------------------
(* What the rows and the requests hold. *)

SessionRow == [status : {"absent", "in_progress", "concluded"}, signals : Signals]
Interviewed == [status : {"open", "concluded"}, session : Session \cup {NoSession},
                release : Release, chosen : {"pointer", "caller"}]
Answer == [question : Question, value : Value \cup {NoValue}]

TurnTyped(r) == /\ {"session", "question", "value", "signals"} \subseteq DOMAIN r
                /\ r.session \in Session /\ r.question \in Question
                /\ r.value \in Value \cup {NoValue} /\ r.signals \in Signals

\* The assessment a request concludes exists, and is its session's.
ConcludingTyped(r) == /\ {"session", "assessment"} \subseteq DOMAIN r
                      /\ r.assessment \in Assessment /\ Exists(r.assessment)
                      /\ r.session = asmt[r.assessment].session

\* Where a conclusion has come to only because there is a session behind the assessment.
Recomputing == {"core", "version", "insert"}

Typed(c) == /\ pc[c] \in Turning => TurnTyped(held[c])
            /\ pc[c] \in {"concluded", "pointer"} \cup Recomputing => held[c].session \in Session
            /\ pc[c] = "pointer" => held[c].industry \in Industry
            /\ pc[c] = "start" => /\ held[c].session \in Session \cup {NoSession}
                                  /\ held[c].release \in Release
                                  /\ held[c].chosen \in {"pointer", "caller"}
            /\ pc[c] \in Concluding => ConcludingTyped(held[c])

Types == /\ Proper
         /\ sessions \in [Session -> SessionRow]
         /\ log \in [Session -> Seq(Answer)]
         /\ DOMAIN versions = Session
         /\ active \in [Industry -> Release \cup {NoRelease}]
         /\ release \in [Release -> ReleaseStatus]
         /\ asmt \in [Assessment -> Interviewed \cup {AbsentAssessment}]
         /\ \A c \in Client : Typed(c)

LEMMA TypesInit == Init => Types
<1> SUFFICES ASSUME Init PROVE Types
  OBVIOUS
<1>1. NoSignals \in Signals
  BY DEF NoSignals, Signals
<1>2. Proper /\ \A c \in Client : Typed(c)
  BY DEF Init, Proper, Typed, Turning, Opening, Concluding, Recomputing
<1> QED
  BY <1>1, <1>2 DEF Init, InterviewInit, SectorInit, KnowledgeInit, Types, SessionRow, AbsentSession,
     ReleaseStatus

\* An assessment that exists is never another session's.
LEMMA StayTyped ==
    ASSUME Types, NEW c \in Client, NEW to, NEW r, Moved(c, to, r), Typed(c)',
           \A a \in Assessment : Exists(a) => Exists(a)' /\ asmt'[a].session = asmt[a].session
    PROVE  Proper' /\ \A d \in Client : Typed(d)'
<1>1. ASSUME NEW d \in Client \ {c} PROVE Typed(d)'
  <2>1. pc'[d] = pc[d] /\ held'[d] = held[d] /\ Typed(d)
    BY <1>1 DEF Types, Moved
  <2>2. TurnTyped(held[d]) => TurnTyped(held[d])'
    BY <2>1 DEF TurnTyped
  <2>3. ConcludingTyped(held[d]) => ConcludingTyped(held[d])'
    BY <2>1 DEF ConcludingTyped
  <2> QED
    BY <2>1, <2>2, <2>3 DEF Typed, TurnTyped, ConcludingTyped
<1> QED
  BY <1>1 DEF Moved

LEMMA WithField ==
    ASSUME NEW r, NEW more, NEW f
    PROVE  /\ f \in DOMAIN r \ DOMAIN more => With(r, more)[f] = r[f]
           /\ f \in DOMAIN more => With(r, more)[f] = more[f]
           /\ f \in DOMAIN r \cup DOMAIN more => f \in DOMAIN With(r, more)
  BY DEF With

LEMMA WithTyped ==
    ASSUME NEW r, NEW more,
           DOMAIN more \subseteq {"answered", "next", "answers", "core"}
    PROVE  /\ TurnTyped(r) => TurnTyped(With(r, more))
           /\ ConcludingTyped(r) => ConcludingTyped(With(r, more))
<1> DEFINE w == With(r, more)
<1>1. DOMAIN r \subseteq DOMAIN w
  BY WithKeeps
<1>2. \A f \in DOMAIN r \ {"answered", "next", "answers", "core"} : w[f] = r[f]
  BY WithKeeps
<1>3. ASSUME TurnTyped(r) PROVE TurnTyped(w)
  <2>1. w.session = r.session /\ w.question = r.question /\ w.value = r.value
        /\ w.signals = r.signals
    BY <1>2, <1>3 DEF TurnTyped
  <2> HIDE DEF w
  <2> QED
    BY <1>1, <1>3, <2>1 DEF TurnTyped
<1>4. ASSUME ConcludingTyped(r) PROVE ConcludingTyped(w)
  <2>1. w.session = r.session /\ w.assessment = r.assessment
    BY <1>2, <1>4 DEF ConcludingTyped
  <2> HIDE DEF w
  <2> QED
    BY <1>1, <1>4, <2>1 DEF ConcludingTyped
<1> QED
  BY <1>3, <1>4

\* A step of an interview: c's request is at a statement with what it needs there.
LEMMA InterviewTypes ==
    ASSUME Types, NEW c \in Client, NEW to \in Turning \cup {"idle"}, NEW r, Moved(c, to, r),
           to \in Turning => TurnTyped(r),
           sessions' \in [Session -> SessionRow], log' \in [Session -> Seq(Answer)],
           DOMAIN versions' = Session, UNCHANGED <<active, release, asmt>>
    PROVE  Types'
<1>1. Typed(c)'
  BY DEF Moved, Typed, Turning, Opening, Concluding, Recomputing, TurnTyped
<1> QED
  BY <1>1, StayTyped DEF Types, Exists

LEMMA TurnTypes ==
    ASSUME Types, NEW c \in Client, TurnStep(c), UNCHANGED <<knowledge, sector>>
    PROVE  Types'
<1> USE DEF Types
<1>1. UNCHANGED <<active, release, asmt>>
  BY DEF knowledge, sector
<1>2. \A r : TurnTyped(r) => Signalled(r) \in Signals
  BY DEF TurnTyped, Signalled, Signals, Skips
<1>3. ASSUME NEW s \in Session, NEW q \in Question, NEW v \in Value \cup {NoValue},
             LoadSession(c, s, q, v)
      PROVE  Types'
  <2> DEFINE r == [session |-> s, question |-> q, value |-> v, signals |-> sessions[s].signals]
  <2>1. Moved(c, "history", r)
    BY <1>3, BeginsMoves DEF LoadSession
  <2>2. TurnTyped(r)
    BY DEF TurnTyped, SessionRow
  <2> QED
    BY <1>1, <1>3, <2>1, <2>2, InterviewTypes DEF LoadSession, interview, Turning
<1>4. CASE ReadHistory(c)
  <2>1. TurnTyped(held[c])
    BY <1>4 DEF ReadHistory, Typed, Turning
  <2>2. UNCHANGED <<sessions, log, versions>>
    BY <1>4 DEF ReadHistory, interview
  <2>3. CASE Ends(c)
    BY <1>1, <2>2, <2>3, EndsMoves, InterviewTypes DEF Turning
  <2> DEFINE more == [answered |-> Answered(held[c].session)]
  <2>4. CASE Goes(c, "sequence", With(held[c], more))
    <3>1. TurnTyped(With(held[c], more))
      BY <2>1, WithTyped
    <3> QED
      BY <1>1, <2>2, <2>4, <3>1, GoesMoves, InterviewTypes DEF Turning
  <2> QED
    BY <1>4, <2>3, <2>4 DEF ReadHistory
<1>5. CASE NextSequence(c)
  <2>1. TurnTyped(held[c])
    BY <1>5 DEF NextSequence, Typed, Turning
  <2>2. PICK n : Goes(c, "append", With(held[c], [next |-> n]))
    BY <1>5 DEF NextSequence
  <2>3. TurnTyped(With(held[c], [next |-> n]))
    BY <2>1, WithTyped
  <2> QED
    BY <1>1, <1>5, <2>2, <2>3, GoesMoves, InterviewTypes
       DEF NextSequence, interview, Turning
<1>6. CASE AppendAnswer(c)
  <2>1. TurnTyped(held[c]) /\ Moved(c, "save", held[c])
    BY <1>6, GoesMoves DEF AppendAnswer, Typed, Turning
  <2>2. log' \in [Session -> Seq(Answer)]
    <3> DEFINE a == [question |-> held[c].question, value |-> held[c].value]
    <3>1. a \in Answer /\ held[c].session \in Session
      BY <2>1 DEF TurnTyped, Answer
    <3>2. log' = [log EXCEPT ![held[c].session] = Append(log[held[c].session], a)]
      BY <1>6 DEF AppendAnswer
    <3>3. Append(log[held[c].session], a) \in Seq(Answer)
      BY <3>1
    <3> QED
      BY <3>1, <3>2, <3>3
  <2> QED
    BY <1>1, <1>6, <2>1, <2>2, InterviewTypes DEF AppendAnswer, Turning
<1>7. CASE AppendRaises(c) \/ ConcludeRaises(c)
  BY <1>1, <1>7, EndsMoves, InterviewTypes DEF AppendRaises, ConcludeRaises, interview, Turning
<1>8. CASE SaveTurn(c) \/ Conclude(c)
  <2>1. TurnTyped(held[c]) /\ Moved(c, "idle", Nothing)
    BY <1>8, EndsMoves DEF SaveTurn, Conclude, Typed, Turning
  <2>2. sessions' \in [Session -> SessionRow] /\ log' = log /\ DOMAIN versions' = Session
    <3>1. held[c].session \in Session /\ Signalled(held[c]) \in Signals
      BY <1>2, <2>1 DEF TurnTyped
    <3>2. CASE SaveTurn(c)
      BY <3>1, <3>2 DEF SaveTurn, SessionRow
    <3>3. CASE Conclude(c)
      BY <3>1, <3>3 DEF Conclude, SessionRow
    <3> QED
      BY <1>8, <3>2, <3>3
  <2> QED
    BY <1>1, <2>1, <2>2, InterviewTypes DEF Turning
<1> QED
  BY <1>3, <1>4, <1>5, <1>6, <1>7, <1>8 DEF TurnStep

LEMMA KnowledgeTypes ==
    ASSUME Types, Knowledge
    PROVE  Types'
<1>1. UNCHANGED <<pc, held, sessions, log, versions, asmt>>
  BY DEF Knowledge, interview, sector, requests
<1>2. /\ active' \in [Industry -> Release \cup {NoRelease}]
      /\ release' \in [Release -> ReleaseStatus]
  BY DEF Knowledge, KnowledgeStep, Types, ReleaseStatus, Register, RetireIndustry, Generate, Submit,
     Approve, Reject, Publish, Activate, Moves
<1> QED
  BY <1>1, <1>2 DEF Types, Typed, Proper, TurnTyped, ConcludingTyped, Exists

\* A step of the sector interview: the same, and the assessments there are stay.
LEMMA AssessingTypes ==
    ASSUME Types, NEW c \in Client, NEW to, NEW r, Moved(c, to, r), Typed(c)',
           asmt' \in [Assessment -> Interviewed \cup {AbsentAssessment}],
           \A a \in Assessment : Exists(a) => Exists(a)' /\ asmt'[a].session = asmt[a].session,
           DOMAIN versions' = Session, UNCHANGED <<active, release, sessions, log>>
    PROVE  Types'
  BY StayTyped DEF Types

LEMMA SectorTypes ==
    ASSUME Types, Sector
    PROVE  Types'
<1> USE DEF Types
<1>1. PICK c \in Client : SectorStep(c) /\ UNCHANGED <<active, release>>
  BY DEF Sector, knowledge
<1> DEFINE Stay == UNCHANGED <<asmt, versions, sessions, log>>
<1>2. ASSUME NEW to, NEW r, Moved(c, to, r), Stay,
             to \in {"concluded", "pointer"} \cup Recomputing => r.session \in Session,
             to = "pointer" => r.industry \in Industry,
             to = "start" => /\ r.session \in Session \cup {NoSession} /\ r.release \in Release
                             /\ r.chosen \in {"pointer", "caller"},
             to \in Concluding => ConcludingTyped(r),
             to \notin Turning
      PROVE  Types'
  <2>1. Typed(c)'
    BY <1>2 DEF Moved, Typed, ConcludingTyped, Exists
  <2> QED
    BY <1>1, <1>2, <2>1, AssessingTypes DEF Exists
<1>3. ASSUME Moved(c, "idle", Nothing), Stay PROVE Types'
  BY <1>2, <1>3 DEF Turning, Opening, Concluding, Recomputing
<1>opens. ASSUME NEW r, Moved(c, "start", r), Stay,
                 r.session \in Session \cup {NoSession}, r.release \in Release,
                 r.chosen \in {"pointer", "caller"}
          PROVE  Types'
  BY <1>2, <1>opens DEF Turning, Opening, Concluding, Recomputing
<1>concludes. ASSUME NEW to \in Concluding, NEW r, Moved(c, to, r), Stay, ConcludingTyped(r),
                     to \in Recomputing => r.session \in Session
              PROVE  Types'
  BY <1>2, <1>concludes DEF Turning, Opening, Concluding, Recomputing
<1>4. ASSUME NEW s \in Session, FindAssessment(c, s) PROVE Types'
  <2>1. Moved(c, "concluded", [session |-> s]) /\ Stay
    BY <1>4, BeginsMoves DEF FindAssessment, interview, sector
  <2> QED
    BY <1>2, <2>1 DEF Turning, Opening, Concluding, Recomputing
<1>5. CASE ReadConcluded(c)
  <2>1. Stay /\ held[c].session \in Session
    BY <1>5 DEF ReadConcluded, interview, sector, Typed, Opening
  <2> DEFINE r == [session |-> held[c].session,
                   industry |-> sessions[held[c].session].signals[Primary]]
  <2>2. CASE Goes(c, "pointer", r) /\ r.industry \in Industry
    <3>1. Moved(c, "pointer", r)
      BY <2>2, GoesMoves
    <3> QED
      BY <1>2, <2>1, <2>2, <3>1 DEF Turning, Opening, Concluding, Recomputing
  <2> QED
    BY <1>3, <1>5, <2>1, <2>2, EndsMoves DEF ReadConcluded
<1>6. CASE ReadActive(c)
  <2>1. Stay /\ held[c].session \in Session /\ held[c].industry \in Industry
    BY <1>6 DEF ReadActive, interview, sector, Typed, Opening
  <2> DEFINE r == [session |-> held[c].session, release |-> active[held[c].industry],
                   chosen |-> "pointer"]
  <2>2. CASE Goes(c, "start", r) /\ r.release # NoRelease
    <3>1. Moved(c, "start", r)
      BY <2>2, GoesMoves
    <3>2. r.session = held[c].session /\ r.chosen = "pointer" /\ r.release \in Release
      BY <2>1, <2>2
    <3> HIDE DEF r
    <3> QED
      BY <1>opens, <2>1, <3>1, <3>2
  <2> QED
    BY <1>3, <1>6, <2>1, <2>2, EndsMoves DEF ReadActive
<1>posts. ASSUME NEW s \in Session \cup {NoSession}, NEW rel \in Release,
                 PostAssessment(c, s, rel)
          PROVE  Types'
  <2> DEFINE r == [session |-> s, release |-> rel, chosen |-> "caller"]
  <2>1. Moved(c, "start", r) /\ Stay
    BY <1>posts, BeginsMoves DEF PostAssessment, interview, sector
  <2>2. r.session = s /\ r.release = rel /\ r.chosen = "caller"
    OBVIOUS
  <2> HIDE DEF r
  <2> QED
    BY <1>opens, <2>1, <2>2
<1>7. CASE StartAssessment(c)
  <2>1. /\ held[c].session \in Session \cup {NoSession} /\ held[c].release \in Release
        /\ held[c].chosen \in {"pointer", "caller"}
    BY <1>7 DEF StartAssessment, Typed, Opening
  <2>2. Moved(c, "idle", Nothing)
    BY <1>7, EndsMoves DEF StartAssessment
  <2>3. Typed(c)'
    BY <2>2 DEF Moved, Typed, Turning, Opening, Concluding, Recomputing
  <2>4. PICK a \in Assessment : /\ ~Exists(a)
                                /\ asmt' = [asmt EXCEPT ![a] = [status |-> "open",
                                      session |-> held[c].session, release |-> held[c].release,
                                      chosen |-> held[c].chosen]]
    BY <1>7 DEF StartAssessment
  <2>5. /\ asmt' \in [Assessment -> Interviewed \cup {AbsentAssessment}]
        /\ \A b \in Assessment : Exists(b) => Exists(b)' /\ asmt'[b].session = asmt[b].session
    BY <2>1, <2>4 DEF Exists, Interviewed
  <2> QED
    BY <1>1, <1>7, <2>2, <2>3, <2>5, AssessingTypes DEF StartAssessment, interview
<1>8. ASSUME NEW a \in Assessment, NEW q \in SectorQuestion, NEW v \in Value \cup {NoValue},
             UpsertAnswer(c, a, q, v)
      PROVE  Types'
  <2>1. PICK r : Moved(c, "commit", r)
    BY <1>8, BeginsMoves DEF UpsertAnswer
  <2> QED
    BY <1>2, <1>8, <2>1 DEF UpsertAnswer, interview, sector, Turning, Opening, Concluding, Recomputing
<1>9. CASE CommitAnswer(c) \/ RecordRaises(c)
  BY <1>3, <1>9, EndsMoves DEF CommitAnswer, RecordRaises, interview, sector
<1>10. ASSUME NEW a \in Assessment, AskToConclude(c, a) PROVE Types'
  <2> DEFINE r == [assessment |-> a, session |-> asmt[a].session]
  <2>1. Moved(c, "answers", r) /\ Stay /\ Exists(a)
    BY <1>10, BeginsMoves DEF AskToConclude, interview, sector, Exists
  <2>2. ConcludingTyped(r)
    BY <2>1 DEF ConcludingTyped
  <2> HIDE DEF r
  <2> QED
    BY <1>concludes, <2>1, <2>2 DEF Concluding, Recomputing
<1>11. CASE ReadAnswers(c) \/ ReadCore(c) \/ NextVersion(c)
  <2>1. ConcludingTyped(held[c]) /\ Stay
    BY <1>11 DEF ReadAnswers, ReadCore, NextVersion, interview, sector, Typed, Concluding
  <2>2. PICK to, more : /\ to \in Concluding /\ Goes(c, to, With(held[c], more))
                        /\ DOMAIN more \subseteq {"answers", "core", "next"}
    BY <1>11 DEF ReadAnswers, ReadCore, NextVersion, Concluding
  <2>3. Moved(c, to, With(held[c], more))
    BY <2>2, GoesMoves
  <2>4. to \in Recomputing => held[c].session \in Session
    <3>1. CASE ReadAnswers(c)
      <4>1. held[c].session \in Session \cup {NoSession}
        BY <2>1 DEF ConcludingTyped, Exists, Interviewed, AbsentAssessment
      <4>2. held[c].session = NoSession => pc'[c] = "complete"
        BY <3>1 DEF ReadAnswers, Goes, Proper
      <4> QED
        BY <2>3, <4>1, <4>2 DEF Moved, Recomputing
    <3>2. CASE ReadCore(c) \/ NextVersion(c)
      BY <3>2 DEF ReadCore, NextVersion, Typed, Recomputing
    <3> QED
      BY <1>11, <3>1, <3>2
  <2>5. PICK w : w = With(held[c], more)
    OBVIOUS
  <2>6. ConcludingTyped(w)
    BY <2>1, <2>2, <2>5, WithTyped
  <2>7. w["session"] = held[c]["session"]
    <3>1. "session" \in DOMAIN held[c] \ DOMAIN more
      BY <2>1, <2>2 DEF ConcludingTyped
    <3> QED
      BY <2>5, <3>1, WithField
  <2> QED
    BY <1>concludes, <2>1, <2>2, <2>3, <2>4, <2>5, <2>6, <2>7
<1>12. CASE RecordVersion(c)
  <2>1. ConcludingTyped(held[c]) /\ Moved(c, "complete", held[c])
    BY <1>12, GoesMoves DEF RecordVersion, Typed, Concluding
  <2>2. UNCHANGED <<asmt, sessions, log>> /\ DOMAIN versions' = Session
    BY <1>12 DEF RecordVersion, sector
  <2>3. Typed(c)'
    BY <2>1, <2>2 DEF Moved, Typed, Turning, Opening, Concluding, Recomputing, ConcludingTyped, Exists
  <2> QED
    BY <1>1, <2>1, <2>2, <2>3, AssessingTypes DEF Exists
<1>13. CASE CompleteAssessment(c)
  <2>1. ConcludingTyped(held[c]) /\ Moved(c, "idle", Nothing)
    BY <1>13, EndsMoves DEF CompleteAssessment, Typed, Concluding
  <2>2. Typed(c)'
    BY <2>1 DEF Moved, Typed, Turning, Opening, Concluding, Recomputing
  <2>3. asmt[held[c].assessment] \in Interviewed
    BY <2>1 DEF ConcludingTyped, Exists, AbsentAssessment
  <2>4. /\ asmt' \in [Assessment -> Interviewed \cup {AbsentAssessment}]
        /\ \A b \in Assessment : Exists(b) => Exists(b)' /\ asmt'[b].session = asmt[b].session
    BY <1>13, <2>1, <2>3 DEF CompleteAssessment, ConcludingTyped, Exists, Interviewed
  <2> QED
    BY <1>1, <1>13, <2>1, <2>2, <2>4, AssessingTypes DEF CompleteAssessment, interview
<1> QED
  BY <1>1, <1>4, <1>5, <1>6, <1>7, <1>8, <1>9, <1>10, <1>11, <1>12, <1>13, <1>posts
     DEF SectorStep

\* A step that is neither an interview's nor the sector's leaves what Types speaks of.
LEMMA ElsewhereTypes ==
    ASSUME Types, NEW c \in Client, NEW to \in Planning \cup {"idle"}, NEW r, Moved(c, to, r),
           UNCHANGED <<sessions, log, versions, active, release, asmt>>
    PROVE  Types'
<1>1. Typed(c)'
  BY DEF Moved, Typed, Turning, Opening, Concluding, Recomputing, Planning
<1> QED
  BY <1>1, StayTyped DEF Types, Exists

LEMMA OthersTypes ==
    ASSUME Types, Plan \/ (\E c \in Client : Die(c))
    PROVE  Types'
<1>1. UNCHANGED <<sessions, log, versions, active, release, asmt>>
  BY DEF Plan, Die, interview, knowledge, sector
<1>2. CASE Plan
  <2>1. PICK c \in Client : PlanStep(c)
    BY <1>2 DEF Plan
  <2> QED
    BY <1>1, <2>1, PlanMoves, ElsewhereTypes DEF Types
<1>3. ASSUME NEW c \in Client, Die(c) PROVE Types'
  BY <1>1, <1>3, EndsMoves, ElsewhereTypes DEF Types, Die
<1> QED
  BY <1>2, <1>3

LEMMA InterviewTypesKept ==
    ASSUME Types, Interview
    PROVE  Types'
<1>1. ASSUME NEW s \in Session, Start(s), UNCHANGED <<knowledge, sector>> PROVE Types'
  <2>1. NewSession \in SessionRow
    BY DEF NewSession, SessionRow, NoSignals, Signals
  <2>2. sessions' \in [Session -> SessionRow]
    BY <1>1, <2>1 DEF Start, Types
  <2>3. UNCHANGED <<pc, held, log, versions, active, release, asmt>>
    BY <1>1 DEF Start, requests, knowledge, sector
  <2> QED
    BY <2>2, <2>3 DEF Types, Typed, Proper, TurnTyped, ConcludingTyped, Exists
<1> QED
  BY <1>1, TurnTypes DEF Interview

LEMMA TypesStep == Types /\ [Next]_vars => Types'
<1> SUFFICES ASSUME Types, [Next]_vars PROVE Types'
  OBVIOUS
<1>1. CASE UNCHANGED vars
  BY <1>1 DEF vars, interview, knowledge, sector, requests, Types, Typed, Proper, TurnTyped,
     ConcludingTyped, Exists
<1> QED
  BY <1>1, InterviewTypesKept, KnowledgeTypes, SectorTypes, OthersTypes DEF Next

-----------------------------------------------------------------------------
(* Releases. *)

\* An assessment that OpenSectorInterview opened.
Pointed(a) == Exists(a) /\ asmt[a].chosen = "pointer"

\* A release a customer may be asked about, now and for good.
Vetted(r) == release[r] \in {"released", "deprecated"}

\* A request about to open an assessment on what it found live.
Citing(c) == pc[c] = "start" /\ held[c].chosen = "pointer"

\* What is live is released; what is cited by way of the pointer, or is about to be, was.
ReleasesInv == /\ ActiveIsReleased
               /\ \A a \in Assessment : Pointed(a) => Vetted(asmt[a].release)
               /\ \A c \in Client : Citing(c) => Vetted(held[c].release)

LEMMA ReleasesInit == Init => ReleasesInv
  BY DEF Init, SectorInit, KnowledgeInit, AbsentAssessment, Exists, Pointed, Citing, ReleasesInv,
     ActiveIsReleased

\* The reviewers' acts: nothing vetted is taken back.
LEMMA ReviewersKeep ==
    ASSUME Types, ReleasesInv, Knowledge
    PROVE  ReleasesInv'
<1>1. UNCHANGED <<pc, held, asmt>>
  BY DEF Knowledge, requests, sector
<1>2. SUFFICES (\A r \in Release : Vetted(r) => Vetted(r)') /\ ActiveIsReleased'
  <2>1. \A a \in Assessment : Exists(a) => asmt[a].release \in Release
    BY DEF Types, Interviewed, Exists, AbsentAssessment
  <2>2. \A c \in Client : Citing(c) => held[c].release \in Release
    BY DEF Types, Typed, Citing
  <2> QED
    BY <1>1, <1>2, <2>1, <2>2 DEF ReleasesInv, Exists, Pointed, Citing
<1> USE DEF Types, ReleasesInv, Vetted, ActiveIsReleased
<1>3. CASE \E i \in Industry : Register(i)
  BY <1>3 DEF Register
<1>4. CASE \E i \in Industry : RetireIndustry(i)
  <2>1. PICK i \in Industry : RetireIndustry(i)
    BY <1>4
  <2>2. \A r \in Release : Vetted(r) => Vetted(r)'
    BY <2>1 DEF RetireIndustry
  <2>3. ASSUME NEW j \in Industry, active'[j] # NoRelease PROVE release'[active'[j]] = "released"
    <3>1. j # i /\ active'[j] = active[j]
      BY <2>1, <2>3 DEF RetireIndustry
    <3>2. active[j] # active[i]
      BY <2>1, <2>3, <3>1 DEF RetireIndustry
    <3> QED
      BY <2>1, <2>3, <3>1, <3>2, NoReleaseAssumption DEF RetireIndustry
  <2> QED
    BY <2>2, <2>3
<1>5. CASE \E r \in Release : Generate(r) \/ Submit(r) \/ Approve(r) \/ Reject(r) \/ Publish(r)
  <2>1. PICK r \in Release, from \in SUBSET {"absent", "draft", "in_review", "approved"},
             to \in {"draft", "in_review", "approved", "released"} : Moves(r, from, to)
    BY <1>5 DEF Generate, Submit, Approve, Reject, Publish
  <2> QED
    BY <2>1 DEF Moves
<1>6. CASE \E i \in Industry, r \in Release : Activate(i, r)
  BY <1>6 DEF Activate
<1> QED
  BY <1>3, <1>4, <1>5, <1>6 DEF Knowledge, KnowledgeStep

\* A request that is not about to cite what it found live, while the releases are as they were.
LEMMA ElsewhereKeeps ==
    ASSUME ReleasesInv, NEW c \in Client, NEW to, NEW r, Moved(c, to, r),
           to = "start" /\ r.chosen = "pointer" => Vetted(r.release),
           UNCHANGED <<release, active>>,
           \A a \in Assessment : Pointed(a)' => Vetted(asmt'[a].release)
    PROVE  ReleasesInv'
<1>1. \A d \in Client : Citing(d)' => Vetted(held'[d].release)
  BY DEF ReleasesInv, Moved, Citing
<1> QED
  BY <1>1 DEF ReleasesInv, ActiveIsReleased, Vetted

LEMMA AssessmentsCite ==
    ASSUME Types, ReleasesInv, Sector
    PROVE  ReleasesInv'
<1>1. PICK c \in Client : SectorStep(c) /\ UNCHANGED <<release, active>>
  BY DEF Sector, knowledge
<1>2. \A a \in Assessment : Pointed(a) => Vetted(asmt[a].release)
  BY DEF ReleasesInv
<1>3. Proper
  BY DEF Types
<1>4. ASSUME UNCHANGED asmt PROVE \A a \in Assessment : Pointed(a)' => Vetted(asmt'[a].release)
  BY <1>2, <1>4 DEF Exists, Pointed
<1>5. CASE ReadActive(c)
  <2>1. UNCHANGED asmt
    BY <1>5 DEF ReadActive, sector
  <2> DEFINE r == [session |-> held[c].session, release |-> active[held[c].industry],
                   chosen |-> "pointer"]
  <2>2. CASE Goes(c, "start", r) /\ r.release # NoRelease
    <3>1. held[c].industry \in Industry
      BY <1>5 DEF ReadActive, Types, Typed
    <3>2. Vetted(r.release)
      BY <2>2, <3>1 DEF Vetted, ReleasesInv, ActiveIsReleased
    <3> QED
      BY <1>1, <1>3, <1>4, <2>1, <2>2, <3>2, GoesMoves, ElsewhereKeeps
  <2> QED
    BY <1>1, <1>3, <1>4, <1>5, <2>1, <2>2, EndsMoves, ElsewhereKeeps DEF ReadActive
<1>6. CASE StartAssessment(c)
  <2>1. held[c].chosen = "pointer" => Vetted(held[c].release)
    BY <1>6 DEF StartAssessment, ReleasesInv, Citing
  <2>2. \A a \in Assessment : Pointed(a)' => Vetted(asmt'[a].release)
    BY <1>2, <1>6, <2>1 DEF StartAssessment, Exists, Pointed, Types
  <2> QED
    BY <1>1, <1>3, <1>6, <2>2, EndsMoves, ElsewhereKeeps DEF StartAssessment
<1>7. CASE CompleteAssessment(c)
  <2>1. ConcludingTyped(held[c])
    BY <1>7 DEF CompleteAssessment, Types, Typed, Concluding
  <2>2. asmt[held[c].assessment] \in Interviewed
    BY <2>1 DEF ConcludingTyped, Types, Exists, AbsentAssessment
  <2>3. \A a \in Assessment : Pointed(a)' => Vetted(asmt'[a].release)
    BY <1>2, <1>7, <2>1, <2>2
       DEF CompleteAssessment, ConcludingTyped, Exists, Pointed, Types, Interviewed
  <2> QED
    BY <1>1, <1>3, <1>7, <2>3, EndsMoves, ElsewhereKeeps DEF CompleteAssessment
<1>posts. ASSUME NEW s \in Session \cup {NoSession}, NEW rel \in Release,
                 PostAssessment(c, s, rel)
          PROVE  ReleasesInv'
  <2> DEFINE r == [session |-> s, release |-> rel, chosen |-> "caller"]
  <2>1. Moved(c, "start", r) /\ UNCHANGED asmt
    BY <1>3, <1>posts, BeginsMoves DEF PostAssessment, sector
  <2> QED
    BY <1>1, <1>4, <2>1, ElsewhereKeeps
\* The other statements come to no opening, and leave the assessments alone.
<1> DEFINE NoOpening == UNCHANGED asmt /\ \E to, r : Moved(c, to, r) /\ to # "start"
<1>8. CASE NoOpening
  BY <1>1, <1>4, <1>8, ElsewhereKeeps
<1>9. ASSUME NEW s \in Session, FindAssessment(c, s) PROVE NoOpening
  BY <1>3, <1>9, BeginsMoves DEF FindAssessment, sector
<1>10. ASSUME NEW a \in Assessment, NEW q \in SectorQuestion, NEW v \in Value \cup {NoValue},
              UpsertAnswer(c, a, q, v)
       PROVE  NoOpening
  BY <1>3, <1>10, BeginsMoves DEF UpsertAnswer, sector
<1>11. ASSUME NEW a \in Assessment, AskToConclude(c, a) PROVE NoOpening
  BY <1>3, <1>11, BeginsMoves DEF AskToConclude, sector
<1>12. ASSUME ReadConcluded(c) \/ ReadAnswers(c) \/ ReadCore(c) \/ NextVersion(c)
              \/ RecordVersion(c)
       PROVE  NoOpening
  BY <1>3, <1>12, GoesMoves, EndsMoves DEF ReadConcluded, ReadAnswers, ReadCore, NextVersion,
     RecordVersion, sector
<1>13. ASSUME CommitAnswer(c) \/ RecordRaises(c) PROVE NoOpening
  BY <1>3, <1>13, EndsMoves DEF CommitAnswer, RecordRaises, sector
<1> QED
  BY <1>1, <1>5, <1>6, <1>7, <1>8, <1>9, <1>10, <1>11, <1>12, <1>13, <1>posts
     DEF SectorStep

\* Interviews, plans and deaths come to no opening.
LEMMA OthersCiteNothing ==
    ASSUME Types, ReleasesInv, Interview \/ Plan \/ (\E c \in Client : Die(c))
    PROVE  ReleasesInv'
<1>1. UNCHANGED <<release, active, asmt>>
  BY DEF Interview, Plan, Die, knowledge, sector
<1>2. \A a \in Assessment : Pointed(a)' => Vetted(asmt'[a].release)
  BY <1>1 DEF ReleasesInv, Exists, Pointed, Vetted
<1> DEFINE ComesTo(c, S) == \E to \in S \cup {"idle"} : \E r : Moved(c, to, r)
<1>3. CASE \E c \in Client : ComesTo(c, Turning \cup Planning)
  BY <1>1, <1>2, <1>3, ElsewhereKeeps DEF Turning, Planning, Vetted
<1>4. CASE UNCHANGED <<pc, held>>
  BY <1>1, <1>4 DEF ReleasesInv, ActiveIsReleased, Exists, Pointed, Citing, Vetted
<1>5. Interview => \/ UNCHANGED <<pc, held>>
                   \/ \E c \in Client : ComesTo(c, Turning)
  BY TurnMoves DEF Types, Interview, Start, requests
<1>6. Plan => \E c \in Client : ComesTo(c, Planning)
  BY PlanMoves DEF Types, Plan
<1>7. (\E c \in Client : Die(c)) => \E c \in Client : ComesTo(c, {})
  BY EndsMoves DEF Types, Die
<1> QED
  BY <1>3, <1>4, <1>5, <1>6, <1>7

LEMMA ReleasesStep == Types /\ ReleasesInv /\ [Next]_vars => ReleasesInv'
<1> SUFFICES ASSUME Types, ReleasesInv, [Next]_vars PROVE ReleasesInv'
  OBVIOUS
<1>1. CASE UNCHANGED vars
  BY <1>1 DEF vars, knowledge, sector, requests, ReleasesInv, ActiveIsReleased, Exists, Pointed,
     Citing, Vetted
<1> QED
  BY <1>1, ReviewersKeep, AssessmentsCite, OthersCiteNothing DEF Next

\* The interview a session opens only ever asks what reviewers released, however long ago
\* the pointer was read (knowledge_services.py: OpenSectorInterview; 0009: the pointer).
THEOREM OnlyReleasedIsCited == Spec => []CitedWasReleased
<1>1. Init => Types /\ ReleasesInv
  BY TypesInit, ReleasesInit
<1>2. Types /\ ReleasesInv /\ [Next]_vars => (Types /\ ReleasesInv)'
  BY TypesStep, ReleasesStep
<1>3. ReleasesInv => CitedWasReleased
  BY DEF ReleasesInv, CitedWasReleased, Pointed, Vetted
<1> QED
  BY <1>1, <1>2, <1>3, PTL DEF Spec

\* What is live in an industry is released, through replacement, rollback and retirement
\* (knowledge_store.py: set_active_release; knowledge_services.py: RetireIndustry).
THEOREM OnlyReleasedIsLive == Spec => []ActiveIsReleased
<1>1. Init => Types /\ ReleasesInv
  BY TypesInit, ReleasesInit
<1>2. Types /\ ReleasesInv /\ [Next]_vars => (Types /\ ReleasesInv)'
  BY TypesStep, ReleasesStep
<1>3. ReleasesInv => ActiveIsReleased
  BY DEF ReleasesInv
<1> QED
  BY <1>1, <1>2, <1>3, PTL DEF Spec

-----------------------------------------------------------------------------
(* Facts and versions. *)

IsSeq(q) == \E S : q \in Seq(S)

LEMMA AppendAny ==
    ASSUME NEW q, IsSeq(q), NEW x
    PROVE  /\ IsSeq(Append(q, x)) /\ Len(q) \in Nat
           /\ DOMAIN q = 1..Len(q) /\ DOMAIN Append(q, x) = 1..(Len(q) + 1)
           /\ \A i \in 1..Len(q) : Append(q, x)[i] = q[i]
           /\ Append(q, x)[Len(q) + 1] = x
<1>1. PICK S : q \in Seq(S)
  BY DEF IsSeq
<1> DEFINE T == S \cup {x}
<1>2. q \in Seq(T)
  BY <1>1, SeqMonotonic
<1> HIDE DEF T
<1>3. x \in T
  BY DEF T
<1>4. Append(q, x) \in Seq(T)
  BY <1>2, <1>3, AppendProperties
<1> QED
  BY <1>2, <1>3, <1>4, AppendProperties, LenProperties DEF IsSeq

Told(s, q) == Given(s, q) \cup {NoValue}

\* What a request holds of the tenant was told to the session it works for.
HoldsFacts(c) ==
    /\ pc[c] \in Turning => \A q \in Question : held[c].signals[q] \in Told(held[c].session, q)
    /\ pc[c] = "save" => held[c].value \in Told(held[c].session, held[c].question)
    /\ pc[c] \in {"version", "insert"} =>
         /\ "core" \in DOMAIN held[c]
         /\ \A q \in Question : held[c].core[q] \in Told(held[c].session, q)

\* Version 1 is the core's; any other is of one of the session's assessments, its only one.
Numbered(s) ==
    /\ IsSeq(versions[s])
    /\ \A i \in DOMAIN versions[s] :
         LET a == versions[s][i].assessment
         IN /\ (i = 1) = (a = NoAssessment)
            /\ i # 1 => a \in Assessment /\ Exists(a) /\ asmt[a].session = s
            /\ \A j \in DOMAIN versions[s] : a = versions[s][j].assessment => i = j

InterviewInv == /\ SignalsAreAnswers
                /\ ConcludedIsRecorded
                /\ \A s \in Session : Numbered(s)
                /\ \A c \in Client : HoldsFacts(c)

LEMMA InterviewStart == Init => InterviewInv
<1> SUFFICES ASSUME Init PROVE InterviewInv
  OBVIOUS
<1>1. <<>> \in Seq({}) /\ DOMAIN <<>> = {}
  OBVIOUS
<1>2. \A s \in Session : versions[s] = <<>>
  BY DEF Init, InterviewInit
<1>3. \A s \in Session : Numbered(s)
  BY <1>1, <1>2 DEF Numbered, IsSeq
<1>4. ConcludedIsRecorded
  BY DEF Init, InterviewInit, AbsentSession, ConcludedIsRecorded
<1>5. SignalsAreAnswers
  BY <1>1, <1>2 DEF Init, InterviewInit, AbsentSession, NoSignals, SignalsAreAnswers
<1> QED
  BY <1>3, <1>4, <1>5 DEF Init, InterviewInv, HoldsFacts, Turning

Accounts == <<sessions, log, baseline, versions>>

\* Nothing is written; c's request goes on with what was told.
LEMMA NothingWritten ==
    ASSUME InterviewInv, NEW c \in Client, NEW to, NEW r, Moved(c, to, r), HoldsFacts(c)',
           UNCHANGED Accounts,
           \A a \in Assessment : Exists(a) => Exists(a)' /\ asmt'[a].session = asmt[a].session
    PROVE  InterviewInv'
<1>1. /\ sessions' = sessions /\ log' = log /\ baseline' = baseline /\ versions' = versions
  BY DEF Accounts
<1>2. \A s \in Session : Numbered(s)'
  BY <1>1 DEF InterviewInv, Numbered
<1>3. ASSUME NEW d \in Client \ {c} PROVE HoldsFacts(d)'
  <2>1. pc'[d] = pc[d] /\ held'[d] = held[d]
    BY <1>3 DEF Moved
  <2>2. \A s, q : Told(s, q)' = Told(s, q)
    BY <1>1 DEF Told, Given
  <2> QED
    BY <1>3, <2>1, <2>2 DEF InterviewInv, HoldsFacts
<1>4. SignalsAreAnswers' /\ ConcludedIsRecorded'
  BY <1>1 DEF InterviewInv, SignalsAreAnswers, ConcludedIsRecorded, Given
<1> QED
  BY <1>2, <1>3, <1>4 DEF InterviewInv

LEMMA StartKeeps ==
    ASSUME Types, InterviewInv, NEW s \in Session, Start(s), UNCHANGED <<knowledge, sector>>
    PROVE  InterviewInv'
<1>1. /\ UNCHANGED <<log, baseline, versions, pc, held, asmt>>
      /\ sessions' = [sessions EXCEPT ![s] = NewSession]
  BY DEF Start, requests, sector
<1>2. \A t \in Session : Numbered(t)'
  BY <1>1 DEF InterviewInv, Numbered, Exists
<1>3. \A c \in Client : HoldsFacts(c)'
  <2>1. \A t, q : Told(t, q)' = Told(t, q)
    BY <1>1 DEF Told, Given
  <2> QED
    BY <1>1, <2>1 DEF InterviewInv, HoldsFacts
<1>4. \A t \in Session : sessions'[t] = IF t = s THEN NewSession ELSE sessions[t]
  BY <1>1 DEF Types
<1>5. ConcludedIsRecorded'
  BY <1>1, <1>4 DEF InterviewInv, ConcludedIsRecorded, NewSession
<1>6. SignalsAreAnswers'
  <2>1. \A q \in Question : NewSession.signals[q] = NoValue
    BY DEF NewSession, NoSignals
  <2>2. \A t, q : Given(t, q)' = Given(t, q)
    BY <1>1 DEF Given
  <2> QED
    BY <1>1, <1>4, <2>1, <2>2 DEF InterviewInv, SignalsAreAnswers
<1> QED
  BY <1>2, <1>3, <1>5, <1>6 DEF InterviewInv

\* An answer in the log is told from then on, and nothing told is forgotten.
LEMMA LogGrows ==
    ASSUME Types, NEW s \in Session, NEW a \in Answer,
           log' = [log EXCEPT ![s] = Append(log[s], a)]
    PROVE  /\ \A t \in Session : \A q : Given(t, q) \subseteq Given(t, q)'
           /\ \A q : a.question = q => a.value \in Given(s, q)'
<1>1. log[s] \in Seq(Answer)
  BY DEF Types
<1>2. /\ log'[s] = Append(log[s], a) /\ \A t \in Session \ {s} : log'[t] = log[t]
  BY DEF Types
<1>3. /\ Len(log[s]) \in Nat /\ DOMAIN log[s] = 1..Len(log[s])
      /\ DOMAIN log'[s] = 1..(Len(log[s]) + 1)
      /\ \A i \in 1..Len(log[s]) : log'[s][i] = log[s][i]
      /\ log'[s][Len(log[s]) + 1] = a
  BY <1>1, <1>2, AppendAny DEF IsSeq
<1> QED
  BY <1>2, <1>3 DEF Given

LEMMA AppendKeeps ==
    ASSUME Types, InterviewInv, NEW c \in Client, AppendAnswer(c), UNCHANGED <<knowledge, sector>>
    PROVE  InterviewInv'
<1> DEFINE r == held[c]
           a == [question |-> r.question, value |-> r.value]
<1>1. TurnTyped(r)
  BY DEF AppendAnswer, Types, Typed, Turning
<1>2. a \in Answer /\ r.session \in Session
  BY <1>1 DEF TurnTyped, Answer
<1>3. /\ UNCHANGED <<sessions, baseline, versions, asmt>>
      /\ log' = [log EXCEPT ![r.session] = Append(log[r.session], a)]
  BY DEF AppendAnswer, sector
<1>4. Moved(c, "save", r) /\ pc[c] = "append"
  BY GoesMoves DEF AppendAnswer, Types
<1>5. /\ \A t \in Session : \A q : Given(t, q) \subseteq Given(t, q)'
      /\ \A s, q : r.session = s /\ r.question = q => r.value \in Given(s, q)'
  <2>1. a.value = r.value /\ a.question = r.question
    OBVIOUS
  <2> HIDE DEF a
  <2>2. /\ \A t \in Session : \A q : Given(t, q) \subseteq Given(t, q)'
        /\ \A s, q : r.session = s /\ a.question = q => a.value \in Given(s, q)'
    BY <1>2, <1>3, LogGrows
  <2> QED
    BY <2>1, <2>2
<1>6. SignalsAreAnswers'
  BY <1>3, <1>5 DEF InterviewInv, SignalsAreAnswers
<1>7. ConcludedIsRecorded' /\ \A s \in Session : Numbered(s)'
  BY <1>3 DEF InterviewInv, ConcludedIsRecorded, Numbered, Exists
<1>8. HoldsFacts(c)'
  BY <1>1, <1>4, <1>5 DEF InterviewInv, HoldsFacts, Moved, Told, Turning, TurnTyped
<1>9. ASSUME NEW d \in Client \ {c} PROVE HoldsFacts(d)'
  <2>1. pc'[d] = pc[d] /\ held'[d] = held[d]
    BY <1>4, <1>9 DEF Moved
  <2>2. /\ pc[d] \in Turning => held[d].session \in Session
        /\ pc[d] \in {"version", "insert"} => held[d].session \in Session
    BY <1>9 DEF Types, Typed, TurnTyped, Recomputing
  <2> QED
    BY <1>5, <1>9, <2>1, <2>2 DEF InterviewInv, HoldsFacts, Told, Turning
<1> QED
  BY <1>6, <1>7, <1>8, <1>9 DEF InterviewInv

\* A request that ends holds nothing.
LEMMA EndHoldsFacts ==
    ASSUME NEW c \in Client, Moved(c, "idle", Nothing)
    PROVE  HoldsFacts(c)'
  BY DEF Moved, HoldsFacts, Turning

LEMMA EndKeepsFacts ==
    ASSUME \A d \in Client : HoldsFacts(d), NEW c \in Client, Moved(c, "idle", Nothing),
           UNCHANGED log
    PROVE  \A d \in Client : HoldsFacts(d)'
<1>1. ASSUME NEW d \in Client \ {c} PROVE HoldsFacts(d)'
  <2>1. pc'[d] = pc[d] /\ held'[d] = held[d]
    BY <1>1 DEF Moved
  <2>2. \A s, q : Told(s, q)' = Told(s, q)
    BY DEF Told, Given
  <2> QED
    BY <1>1, <2>1, <2>2 DEF HoldsFacts
<1> QED
  BY <1>1, EndHoldsFacts

\* A session is saved with signals that were told.
LEMMA SavedIsTold ==
    ASSUME Types, InterviewInv, NEW c \in Client, pc[c] = "save"
    PROVE  /\ TurnTyped(held[c]) /\ Signalled(held[c]) \in Signals
           /\ \A q \in Question : Signalled(held[c])[q] \in Told(held[c].session, q)
<1>1. TurnTyped(held[c])
  BY DEF Types, Typed, Turning
<1>2. /\ \A q \in Question : held[c].signals[q] \in Told(held[c].session, q)
      /\ held[c].value \in Told(held[c].session, held[c].question)
  BY DEF InterviewInv, HoldsFacts, Turning
<1> QED
  BY <1>1, <1>2 DEF TurnTyped, Signalled, Signals, Skips

LEMMA SaveKeeps ==
    ASSUME Types, InterviewInv, NEW c \in Client, SaveTurn(c), UNCHANGED <<knowledge, sector>>
    PROVE  InterviewInv'
<1> DEFINE r == held[c]
           row == [status |-> "in_progress", signals |-> Signalled(r)]
<1>1. /\ UNCHANGED <<log, baseline, versions, asmt>>
      /\ sessions' = [sessions EXCEPT ![r.session] = row]
  BY DEF SaveTurn, sector
<1>2. Moved(c, "idle", Nothing) /\ pc[c] = "save"
  BY EndsMoves DEF SaveTurn, Types
<1>3. r.session \in Session /\ \A q \in Question : row.signals[q] \in Told(r.session, q)
  BY <1>2, SavedIsTold DEF TurnTyped
<1>4. \A t \in Session : sessions'[t] = IF t = r.session THEN row ELSE sessions[t]
  BY <1>1, <1>3 DEF Types
<1>5. SignalsAreAnswers'
  <2>1. \A t, q : Given(t, q)' = Given(t, q)
    BY <1>1 DEF Given
  <2> HIDE DEF row
  <2> QED
    BY <1>1, <1>3, <1>4, <2>1 DEF InterviewInv, SignalsAreAnswers, Told
<1>6. ConcludedIsRecorded'
  BY <1>1, <1>4 DEF InterviewInv, ConcludedIsRecorded
<1>7. \A s \in Session : Numbered(s)'
  BY <1>1 DEF InterviewInv, Numbered, Exists
<1>8. \A d \in Client : HoldsFacts(d)'
  BY <1>1, <1>2, EndKeepsFacts DEF InterviewInv
<1> QED
  BY <1>5, <1>6, <1>7, <1>8 DEF InterviewInv

LEMMA ConcludeKeeps ==
    ASSUME Types, InterviewInv, NEW c \in Client, Conclude(c), UNCHANGED <<knowledge, sector>>
    PROVE  InterviewInv'
<1> DEFINE r == held[c]
           row == [status |-> "concluded", signals |-> Signalled(r)]
           v == CoreVersion(Signalled(r))
<1>1. /\ UNCHANGED <<log, asmt>>
      /\ sessions' = [sessions EXCEPT ![r.session] = row]
      /\ baseline' = Signalled(r)
      /\ versions' = [versions EXCEPT ![r.session] = <<v>>]
      /\ versions[r.session] = <<>>
  BY DEF Conclude, sector
<1>2. Moved(c, "idle", Nothing) /\ pc[c] = "save"
  BY EndsMoves DEF Conclude, Types
<1>3. r.session \in Session /\ \A q \in Question : Signalled(r)[q] \in Told(r.session, q)
  BY <1>2, SavedIsTold DEF TurnTyped
<1>4. /\ \A t \in Session : sessions'[t] = IF t = r.session THEN row ELSE sessions[t]
      /\ \A t \in Session : versions'[t] = IF t = r.session THEN <<v>> ELSE versions[t]
  BY <1>1, <1>3 DEF Types
<1>5. /\ DOMAIN <<v>> = {1} /\ <<v>>[1] = v /\ <<v>> \in Seq({v}) /\ <<v>> # <<>>
      /\ v.assessment = NoAssessment /\ v.core = Signalled(r) /\ v.signals = Signalled(r)
  BY DEF CoreVersion
<1>6. SignalsAreAnswers'
  <2>1. \A s, q : Given(s, q)' = Given(s, q)
    BY <1>1 DEF Given
  <2>2. ASSUME NEW s \in Session, NEW q \in Question
        PROVE  /\ sessions'[s].signals[q] \in Told(s, q)
               /\ \A i \in DOMAIN versions'[s] : versions'[s][i].core[q] \in Told(s, q)
    <3>1. CASE s # r.session
      BY <1>4, <3>1 DEF InterviewInv, SignalsAreAnswers, Told
    <3>2. CASE s = r.session
      BY <1>3, <1>4, <1>5, <3>2
    <3> QED
      BY <3>1, <3>2
  <2>3. ASSUME NEW q \in Question
        PROVE  baseline'[q] \in {NoValue} \cup UNION {Given(t, q) : t \in Session}
    BY <1>1, <1>3 DEF Told
  <2> QED
    BY <2>1, <2>2, <2>3 DEF SignalsAreAnswers, Told
<1>7. ConcludedIsRecorded'
  BY <1>1, <1>3, <1>4, <1>5 DEF InterviewInv, ConcludedIsRecorded
<1>8. ASSUME NEW s \in Session PROVE Numbered(s)'
  <2>1. CASE s = r.session
    <3>1. versions'[s] = <<v>> /\ IsSeq(<<v>>)
      BY <1>4, <1>5, <2>1 DEF IsSeq
    <3> HIDE DEF v
    <3> QED
      BY <1>5, <3>1 DEF Numbered
  <2>2. CASE s # r.session
    BY <1>1, <1>4, <2>2 DEF InterviewInv, Numbered, Exists
  <2> QED
    BY <2>1, <2>2
<1>9. \A d \in Client : HoldsFacts(d)'
  BY <1>1, <1>2, EndKeepsFacts DEF InterviewInv
<1> QED
  BY <1>6, <1>7, <1>8, <1>9 DEF InterviewInv

\* The statements of a turn that only read.
LEMMA TurnReads ==
    ASSUME Types, InterviewInv, NEW c \in Client, UNCHANGED <<knowledge, sector>>, UNCHANGED interview,
           \/ \E s \in Session, q \in Question, v \in Value \cup {NoValue} : LoadSession(c, s, q, v)
           \/ ReadHistory(c) \/ NextSequence(c) \/ AppendRaises(c) \/ ConcludeRaises(c)
    PROVE  InterviewInv'
<1>1. UNCHANGED Accounts /\ UNCHANGED asmt /\ UNCHANGED log
  BY DEF interview, sector, Accounts
<1>2. ASSUME NEW to, NEW r, Moved(c, to, r), HoldsFacts(c)' PROVE InterviewInv'
  BY <1>1, <1>2, NothingWritten DEF Exists
<1>3. \A s, q : Told(s, q)' = Told(s, q)
  BY <1>1 DEF Told, Given
<1>4. ASSUME Ends(c) PROVE InterviewInv'
  BY <1>2, <1>4, EndsMoves, EndHoldsFacts DEF Types
<1>5. ASSUME NEW s \in Session, NEW q \in Question, NEW v \in Value \cup {NoValue},
             LoadSession(c, s, q, v)
      PROVE  InterviewInv'
  <2> DEFINE r == [session |-> s, question |-> q, value |-> v, signals |-> sessions[s].signals]
  <2>1. Moved(c, "history", r)
    BY <1>5, BeginsMoves DEF LoadSession, Types
  <2>2. \A p \in Question : r.signals[p] \in Told(r.session, p)
    BY DEF InterviewInv, SignalsAreAnswers, Told
  <2> HIDE DEF r
  <2>3. HoldsFacts(c)'
    BY <1>3, <2>1, <2>2 DEF HoldsFacts, Moved
  <2> QED
    BY <1>2, <2>1, <2>3
<1>6. ASSUME NEW to \in {"sequence", "append"}, NEW more, DOMAIN more \subseteq {"answered", "next"},
             pc[c] \in Turning, Goes(c, to, With(held[c], more))
      PROVE  InterviewInv'
  <2> DEFINE w == With(held[c], more)
  <2>1. TurnTyped(held[c]) /\ Moved(c, to, w)
    BY <1>6, GoesMoves DEF Types, Typed
  <2>2. w.signals = held[c].signals /\ w.session = held[c].session
    <3>1. {"signals", "session"} \subseteq DOMAIN held[c] \ DOMAIN more
      BY <1>6, <2>1 DEF TurnTyped
    <3>2. \A f \in {"signals", "session"} : w[f] = held[c][f]
      BY <3>1, WithField
    <3> HIDE DEF w
    <3> QED
      BY <3>2
  <2> HIDE DEF w
  <2>3. HoldsFacts(c)'
    BY <1>3, <1>6, <2>1, <2>2 DEF InterviewInv, HoldsFacts, Moved
  <2> QED
    BY <1>2, <2>1, <2>3
<1>7. CASE ReadHistory(c)
  <2> DEFINE more == [answered |-> Answered(held[c].session)]
  <2>1. pc[c] \in Turning /\ (Ends(c) \/ Goes(c, "sequence", With(held[c], more)))
    BY <1>7 DEF ReadHistory, Turning
  <2> QED
    BY <1>4, <1>6, <2>1
<1>8. CASE NextSequence(c)
  <2> DEFINE more == [next |-> Len(log[held[c].session]) + 1]
  <2>1. pc[c] \in Turning /\ Goes(c, "append", With(held[c], more))
    BY <1>8 DEF NextSequence, Turning
  <2> QED
    BY <1>6, <2>1
<1>9. CASE AppendRaises(c) \/ ConcludeRaises(c)
  BY <1>4, <1>9 DEF AppendRaises, ConcludeRaises
<1> QED
  BY <1>5, <1>7, <1>8, <1>9

\* A version of an assessment is the next one, and the assessment's first.
LEMMA RecordKeeps ==
    ASSUME Types, InterviewInv, NEW c \in Client, RecordVersion(c)
    PROVE  InterviewInv'
<1> DEFINE r == held[c]
           v == SectorVersion(r)
<1>1. /\ UNCHANGED <<sessions, log, baseline, asmt>>
      /\ versions' = [versions EXCEPT ![r.session] = Append(versions[r.session], v)]
      /\ Accepts(r.session, r.assessment, r.next)
  BY DEF RecordVersion, sector
<1>2. Moved(c, "complete", r) /\ pc[c] = "insert"
  BY GoesMoves DEF RecordVersion, Types
<1>3. ConcludingTyped(r)
  BY <1>2 DEF Types, Typed, Concluding
<1>4. r.session \in Session /\ \A q \in Question : r.core[q] \in Told(r.session, q)
  BY <1>2 DEF InterviewInv, HoldsFacts, Types, Typed, Recomputing
<1>5. \A t \in Session : versions'[t] = IF t = r.session THEN Append(versions[t], v) ELSE versions[t]
  BY <1>1, <1>4 DEF Types
<1>6. v.assessment = r.assessment /\ v.core = r.core
  BY DEF SectorVersion
<1> HIDE DEF v
<1> DEFINE was == versions[r.session]
           n == Len(was) + 1
<1>7. /\ IsSeq(Append(was, v)) /\ Len(was) \in Nat /\ DOMAIN was = 1..Len(was)
      /\ DOMAIN Append(was, v) = 1..n
      /\ \A i \in 1..Len(was) : Append(was, v)[i] = was[i]
      /\ Append(was, v)[n] = v
  BY <1>4, AppendAny DEF InterviewInv, Numbered
<1>8. n # 1 /\ \A i \in DOMAIN was : was[i].assessment # r.assessment
  BY <1>1 DEF Accepts
<1>9. SignalsAreAnswers'
  <2>1. \A s \in Session, q \in Question : \A i \in DOMAIN versions'[s] :
           versions'[s][i].core[q] \in Told(s, q)
    <3> TAKE s \in Session, q \in Question
    <3>1. CASE s # r.session
      BY <1>5, <3>1 DEF InterviewInv, SignalsAreAnswers, Told
    <3>2. CASE s = r.session
      <4>1. versions'[s] = Append(was, v) /\ v.core[q] \in Told(s, q)
        BY <1>4, <1>5, <1>6, <3>2
      <4>2. \A i \in 1..Len(was) : was[i].core[q] \in Told(s, q)
        BY <1>7, <3>2 DEF InterviewInv, SignalsAreAnswers, Told
      <4> HIDE DEF was
      <4> QED
        BY <1>7, <4>1, <4>2
    <3> QED
      BY <3>1, <3>2
  <2>2. \A s, q : Given(s, q)' = Given(s, q)
    BY <1>1 DEF Given
  <2>3. \A s \in Session, q \in Question :
           /\ sessions'[s].signals[q] \in Told(s, q)
           /\ baseline'[q] \in {NoValue} \cup UNION {Given(t, q) : t \in Session}
    BY <1>1 DEF InterviewInv, SignalsAreAnswers, Told
  <2> QED
    BY <2>1, <2>2, <2>3 DEF SignalsAreAnswers, Told
<1>10. ConcludedIsRecorded'
  <2>1. was # <<>> /\ Append(was, v) # <<>> /\ Append(was, v)[1] = was[1]
    <3>1. 1 \in DOMAIN was
      BY <1>7, <1>8
    <3> QED
      BY <1>7, <3>1
  <2> HIDE DEF was
  <2>2. \A t \in Session : versions[t] # <<>> =>
           versions'[t] # <<>> /\ versions'[t][1] = versions[t][1]
    BY <1>5, <2>1 DEF was
  <2> QED
    BY <1>1, <2>2 DEF InterviewInv, ConcludedIsRecorded
<1>11. ASSUME NEW s \in Session PROVE Numbered(s)'
  <2>1. CASE s # r.session
    BY <1>1, <1>5, <2>1 DEF InterviewInv, Numbered, Exists
  <2>2. CASE s = r.session
    <3> DEFINE a == r.assessment
    <3>1. /\ a \in Assessment /\ asmt'[a].status # "absent" /\ asmt'[a].session = s
          /\ a # NoAssessment
      BY <1>1, <1>3, <2>2, NoAssessmentAssumption DEF ConcludingTyped, Exists
    <3>2. versions'[s] = Append(was, v)
      BY <1>5, <2>2
    <3>3. \A i \in 1..Len(was) :
             /\ versions'[s][i] = was[i]
             /\ (i = 1) = (was[i].assessment = NoAssessment)
             /\ i # 1 => /\ was[i].assessment \in Assessment
                         /\ asmt'[was[i].assessment].status # "absent"
                         /\ asmt'[was[i].assessment].session = s
             /\ was[i].assessment # a
             /\ \A j \in 1..Len(was) : was[i].assessment = was[j].assessment => i = j
      <4>1. Numbered(s) /\ was = versions[s] /\ asmt' = asmt
        BY <1>1, <2>2 DEF InterviewInv
      <4>2. \A i \in 1..Len(was) : versions'[s][i] = was[i] /\ was[i].assessment # a
        BY <1>7, <1>8, <3>2
      <4> QED
        BY <1>7, <4>1, <4>2 DEF Numbered, Exists
    <3>4. versions'[s][n].assessment = a /\ IsSeq(versions'[s]) /\ DOMAIN versions'[s] = 1..n
      BY <1>6, <1>7, <3>2
    <3> HIDE DEF was, n, a
    <3>5. \A i \in 1..n : i \in 1..Len(was) \/ i = n
      BY <1>7 DEF n
    <3>6. ASSUME NEW i \in 1..n
          PROVE  LET b == versions'[s][i].assessment
                 IN /\ (i = 1) = (b = NoAssessment)
                    /\ i # 1 => b \in Assessment /\ asmt'[b].status # "absent" /\ asmt'[b].session = s
                    /\ \A j \in 1..n : b = versions'[s][j].assessment => i = j
      BY <1>8, <3>1, <3>3, <3>4, <3>5
    <3> QED
      BY <3>4, <3>6 DEF Numbered, Exists
  <2> QED
    BY <2>1, <2>2
<1>12. \A d \in Client : HoldsFacts(d)'
  <2>1. \A s, q : Told(s, q)' = Told(s, q)
    BY <1>1 DEF Told, Given
  <2>2. ASSUME NEW d \in Client \ {c} PROVE HoldsFacts(d)'
    BY <1>2, <2>1, <2>2 DEF InterviewInv, HoldsFacts, Moved
  <2> QED
    BY <1>2, <2>2 DEF HoldsFacts, Moved, Turning
<1> QED
  BY <1>9, <1>10, <1>11, <1>12 DEF InterviewInv

\* Every other statement of the sector interview leaves the accounts alone.
LEMMA SectorReads ==
    ASSUME Types, InterviewInv, NEW c \in Client, SectorStep(c)
    PROVE  InterviewInv'
<1> DEFINE Stay == /\ UNCHANGED Accounts
                   /\ \A a \in Assessment : Exists(a) => Exists(a)' /\ asmt'[a].session = asmt[a].session
           Elsewhere == Turning \cup {"version", "insert"}
<1>1. ASSUME Stay, NEW to, NEW r, Moved(c, to, r), HoldsFacts(c)' PROVE InterviewInv'
  BY <1>1, NothingWritten
<1>2. ASSUME Stay, NEW to, NEW r, Moved(c, to, r), to \notin Elsewhere PROVE InterviewInv'
  <2>1. HoldsFacts(c)'
    BY <1>2 DEF HoldsFacts, Moved, Turning
  <2> QED
    BY <1>1, <1>2, <2>1
<1>3. ASSUME UNCHANGED <<interview, sector>> PROVE Stay
  BY <1>3 DEF interview, sector, Accounts, Exists
<1>4. ASSUME UNCHANGED interview PROVE UNCHANGED Accounts
  BY <1>4 DEF interview, Accounts
<1>5. Proper
  BY DEF Types
<1>6. ASSUME NEW s \in Session, FindAssessment(c, s) PROVE InterviewInv'
  BY <1>2, <1>3, <1>5, <1>6, BeginsMoves DEF FindAssessment, Turning
<1>7. CASE ReadConcluded(c)
  <2>1. \E r : Moved(c, "pointer", r) \/ Moved(c, "idle", r)
    BY <1>5, <1>7, GoesMoves, EndsMoves DEF ReadConcluded
  <2> QED
    BY <1>2, <1>3, <1>7, <2>1 DEF ReadConcluded, Turning
<1>8. CASE ReadActive(c)
  <2>1. \E r : Moved(c, "start", r) \/ Moved(c, "idle", r)
    BY <1>5, <1>8, GoesMoves, EndsMoves DEF ReadActive
  <2> QED
    BY <1>2, <1>3, <1>8, <2>1 DEF ReadActive, Turning
<1>posts. ASSUME NEW s \in Session \cup {NoSession}, NEW r \in Release, PostAssessment(c, s, r)
       PROVE  InterviewInv'
  BY <1>2, <1>3, <1>5, <1>posts, BeginsMoves DEF PostAssessment, Turning
<1>9. CASE StartAssessment(c)
  <2>1. Stay
    BY <1>4, <1>9 DEF StartAssessment, Exists, Types
  <2> QED
    BY <1>2, <1>5, <1>9, <2>1, EndsMoves DEF StartAssessment, Turning
<1>10. ASSUME NEW a \in Assessment, NEW q \in SectorQuestion, NEW v \in Value \cup {NoValue},
              UpsertAnswer(c, a, q, v)
       PROVE  InterviewInv'
  BY <1>2, <1>3, <1>5, <1>10, BeginsMoves DEF UpsertAnswer, Turning
<1>11. CASE CommitAnswer(c)
  <2>1. Stay
    BY <1>4, <1>11 DEF CommitAnswer, Exists
  <2> QED
    BY <1>2, <1>5, <1>11, <2>1, EndsMoves DEF CommitAnswer, Turning
<1>12. ASSUME NEW a \in Assessment, AskToConclude(c, a) PROVE InterviewInv'
  BY <1>2, <1>3, <1>5, <1>12, BeginsMoves DEF AskToConclude, Turning
<1>13. CASE ReadAnswers(c)
  <2>1. \E r : Moved(c, "core", r) \/ Moved(c, "complete", r)
    BY <1>5, <1>13, GoesMoves DEF ReadAnswers
  <2> QED
    BY <1>2, <1>3, <1>13, <2>1 DEF ReadAnswers, Turning
<1>14. CASE ReadCore(c)
  <2> DEFINE more == [core |-> sessions[held[c].session].signals]
             w == With(held[c], more)
  <2>1. ConcludingTyped(held[c]) /\ Stay
    BY <1>3, <1>14 DEF ReadCore, Types, Typed, Concluding
  <2>2. held[c].session \in Session
    BY <1>14 DEF ReadCore, Types, Typed, Recomputing
  <2>3. /\ w.core = sessions[held[c].session].signals /\ w.session = held[c].session
        /\ "core" \in DOMAIN w
    <3>1. /\ "session" \in DOMAIN held[c] \ DOMAIN more
          /\ "core" \in DOMAIN more /\ more["core"] = sessions[held[c].session].signals
      BY <2>1 DEF ConcludingTyped
    <3> HIDE DEF more
    <3>2. w["session"] = held[c]["session"] /\ w["core"] = more["core"] /\ "core" \in DOMAIN w
      BY <3>1, WithField
    <3> HIDE DEF w
    <3> QED
      BY <3>1, <3>2
  <2>4. Moved(c, "version", w) \/ Moved(c, "complete", w)
    BY <1>5, <1>14, GoesMoves DEF ReadCore
  <2> HIDE DEF w
  <2>5. \A q \in Question : w.core[q] \in Told(w.session, q)
    BY <2>2, <2>3 DEF InterviewInv, SignalsAreAnswers, Told
  <2>6. \A s, q : Told(s, q)' = Told(s, q)
    BY <2>1 DEF Accounts, Told, Given
  <2>7. CASE Moved(c, "version", w)
    <3>1. HoldsFacts(c)'
      BY <2>3, <2>5, <2>6, <2>7 DEF HoldsFacts, Moved, Turning
    <3> QED
      BY <1>1, <2>1, <2>7, <3>1
  <2>8. CASE Moved(c, "complete", w)
    BY <1>2, <2>1, <2>8 DEF Turning
  <2> QED
    BY <2>4, <2>7, <2>8
<1>15. CASE NextVersion(c)
  <2> DEFINE more == [next |-> Len(versions[held[c].session]) + 1]
             w == With(held[c], more)
  <2>1. ConcludingTyped(held[c]) /\ Stay
    BY <1>3, <1>15 DEF NextVersion, Types, Typed, Concluding
  <2>2. w.session = held[c].session /\ w.core = held[c].core /\ "core" \in DOMAIN w
    <3>1. {"session", "core"} \subseteq DOMAIN held[c] \ DOMAIN more
      BY <1>15, <2>1 DEF ConcludingTyped, NextVersion, InterviewInv, HoldsFacts
    <3> HIDE DEF more
    <3>2. \A f \in {"session", "core"} : w[f] = held[c][f] /\ f \in DOMAIN w
      BY <3>1, WithField
    <3> HIDE DEF w
    <3> QED
      BY <3>2
  <2>3. Moved(c, "insert", w)
    BY <1>5, <1>15, GoesMoves DEF NextVersion
  <2> HIDE DEF w
  <2>5. \A s, q : Told(s, q)' = Told(s, q)
    BY <2>1 DEF Accounts, Told, Given
  <2>6. HoldsFacts(c)'
    BY <1>15, <2>2, <2>3, <2>5 DEF InterviewInv, HoldsFacts, Moved, Turning, NextVersion
  <2> QED
    BY <1>1, <2>1, <2>3, <2>6
<1>16. CASE RecordVersion(c)
  BY <1>16, RecordKeeps
<1>17. CASE RecordRaises(c)
  BY <1>2, <1>3, <1>5, <1>17, EndsMoves DEF RecordRaises, Turning
<1>18. CASE CompleteAssessment(c)
  <2>1. ConcludingTyped(held[c])
    BY <1>18 DEF CompleteAssessment, Types, Typed, Concluding
  <2>2. asmt[held[c].assessment] \in Interviewed
    BY <2>1 DEF ConcludingTyped, Types, Exists, AbsentAssessment
  <2>3. Stay
    BY <1>4, <1>18, <2>1, <2>2 DEF CompleteAssessment, ConcludingTyped, Exists, Types, Interviewed
  <2> QED
    BY <1>2, <1>5, <1>18, <2>3, EndsMoves DEF CompleteAssessment, Turning
<1> QED
  BY <1>6, <1>7, <1>8, <1>9, <1>10, <1>11, <1>12, <1>13, <1>14, <1>15, <1>16, <1>17, <1>18,
     <1>posts DEF SectorStep

\* Reviewers, plans and deaths write none of it.
LEMMA OthersWriteNothing ==
    ASSUME Types, InterviewInv, Knowledge \/ Plan \/ (\E c \in Client : Die(c)) \/ UNCHANGED vars
    PROVE  InterviewInv'
<1>1. UNCHANGED Accounts /\ UNCHANGED asmt
  BY DEF Knowledge, Plan, Die, vars, interview, sector, Accounts
<1>2. CASE UNCHANGED <<pc, held>>
  <2>1. \A s, q : Told(s, q)' = Told(s, q) /\ Given(s, q)' = Given(s, q)
    BY <1>1 DEF Told, Given, Accounts
  <2>2. SignalsAreAnswers' /\ ConcludedIsRecorded'
    BY <1>1, <2>1 DEF Accounts, InterviewInv, SignalsAreAnswers, ConcludedIsRecorded
  <2>3. \A s \in Session : Numbered(s)'
    BY <1>1 DEF Accounts, InterviewInv, Numbered, Exists
  <2>4. \A c \in Client : HoldsFacts(c)'
    BY <1>2, <2>1 DEF InterviewInv, HoldsFacts
  <2> QED
    BY <2>2, <2>3, <2>4 DEF InterviewInv
<1>3. CASE \E c \in Client : \E to \in Planning \cup {"idle"} : \E r : Moved(c, to, r)
  <2>1. PICK c \in Client, to \in Planning \cup {"idle"} : \E r : Moved(c, to, r)
    BY <1>3
  <2>2. HoldsFacts(c)'
    BY <2>1 DEF HoldsFacts, Moved, Turning, Planning
  <2> QED
    BY <1>1, <2>1, <2>2, NothingWritten DEF Exists
<1>4. Knowledge \/ UNCHANGED vars => UNCHANGED <<pc, held>>
  BY DEF Knowledge, vars, requests
<1>5. Plan => \E c \in Client : \E to \in Planning \cup {"idle"} : \E r : Moved(c, to, r)
  BY PlanMoves DEF Types, Plan
<1>6. (\E c \in Client : Die(c)) =>
         \E c \in Client : \E to \in Planning \cup {"idle"} : \E r : Moved(c, to, r)
  BY EndsMoves DEF Types, Die
<1> QED
  BY <1>2, <1>3, <1>4, <1>5, <1>6

LEMMA InterviewStep == Types /\ InterviewInv /\ [Next]_vars => InterviewInv'
<1> SUFFICES ASSUME Types, InterviewInv, [Next]_vars PROVE InterviewInv'
  OBVIOUS
<1>1. CASE Interview
  <2>1. UNCHANGED <<knowledge, sector>>
    BY <1>1 DEF Interview
  <2>2. ASSUME NEW c \in Client, TurnStep(c) PROVE InterviewInv'
    <3>1. CASE AppendAnswer(c) \/ SaveTurn(c) \/ Conclude(c)
      BY <2>1, <3>1, AppendKeeps, SaveKeeps, ConcludeKeeps
    <3>2. CASE ~(AppendAnswer(c) \/ SaveTurn(c) \/ Conclude(c))
      BY <2>1, <2>2, <3>2, TurnReads
         DEF TurnStep, LoadSession, ReadHistory, NextSequence, AppendRaises, ConcludeRaises
    <3> QED
      BY <3>1, <3>2
  <2> QED
    BY <1>1, <2>1, <2>2, StartKeeps DEF Interview
<1>2. CASE Sector
  BY <1>2, SectorReads DEF Sector
<1> QED
  BY <1>1, <1>2, OthersWriteNothing DEF Next

\* The invariants the interview's theorems rest on, of every reachable state.
LEMMA InterviewHolds == Spec => [](Types /\ InterviewInv)
<1>1. Init => Types /\ InterviewInv
  BY TypesInit, InterviewStart
<1>2. Types /\ InterviewInv /\ [Next]_vars => (Types /\ InterviewInv)'
  BY TypesStep, InterviewStep
<1> QED
  BY <1>1, <1>2, PTL DEF Spec

\* No fact of the tenant is made up, however requests race, fail and die between the
\* statements of service.py: answer.
THEOREM NoFactIsMadeUp == Spec => []SignalsAreAnswers
<1>1. InterviewInv => SignalsAreAnswers
  BY DEF InterviewInv
<1> QED
  BY <1>1, InterviewHolds, PTL

\* A concluded session has its analysis, and the tenant a baseline that is one session's
\* conclusion (service.py: _conclude, one transaction).
THEOREM ConclusionIsWhole == Spec => []ConcludedIsRecorded
<1>1. InterviewInv => ConcludedIsRecorded
  BY DEF InterviewInv
<1> QED
  BY <1>1, InterviewHolds, PTL

\* However many requests conclude it at once, an assessment has one version, of its own
\* session, and version 1 is the core's (sector_conclusion.py; 0018).
THEOREM AssessmentHasOneVersion == Spec => []OneVersionPerAssessment
<1>1. InterviewInv => OneVersionPerAssessment
  BY DEF InterviewInv, Numbered, OneVersionPerAssessment
<1> QED
  BY <1>1, InterviewHolds, PTL

-----------------------------------------------------------------------------
(* Plans. *)

Lineage(i) == {"status", "prior"} \subseteq DOMAIN plans[i]

\* A plan that has been replaced, or is about to be.
Replaced(i) == i \in DOMAIN plans /\ plans[i].status # "active"

\* The plan c's request is to replace, having superseded it.
Replacing(c, i) == pc[c] = "create" /\ held[c].prior = i /\ i # 0

\* A plan is superseded before it has a successor, and only by the request that then
\* creates it.
PlansInv == /\ IsSeq(plans)
            /\ \A i \in DOMAIN plans :
                 Lineage(i) /\ \A j : j = plans[i].prior /\ j # 0 => Replaced(j)
            /\ OneSuccessor
            /\ \A c \in Client : pc[c] = "supersede" => held[c].prior \in DOMAIN plans
            /\ \A c \in Client : \A j : Replacing(c, j) =>
                 /\ Replaced(j) /\ \A i \in DOMAIN plans : plans[i].prior # j
                 /\ \A d \in Client : Replacing(d, j) => c = d

LEMMA ExceptAny ==
    ASSUME NEW q, IsSeq(q), NEW i, NEW x
    PROVE  /\ IsSeq([q EXCEPT ![i] = x])
           /\ DOMAIN [q EXCEPT ![i] = x] = DOMAIN q
           /\ \A j \in DOMAIN q : [q EXCEPT ![i] = x][j] = IF j = i THEN x ELSE q[j]
<1>1. PICK S : q \in Seq(S)
  BY DEF IsSeq
<1> DEFINE T == S \cup {x}
<1>2. q \in Seq(T) /\ x \in T
  BY <1>1, SeqMonotonic
<1> HIDE DEF T
<1>3. [q EXCEPT ![i] = x] \in Seq(T)
  <2>1. CASE i \in DOMAIN q
    <3>1. i \in 1..Len(q)
      BY <1>2, <2>1
    <3> QED
      BY <1>2, <3>1, ExceptSeq
  <2>2. CASE i \notin DOMAIN q
    <3>1. [q EXCEPT ![i] = x] = q
      BY <1>2, <2>2
    <3> QED
      BY <1>2, <3>1
  <2> QED
    BY <2>1, <2>2
<1> QED
  BY <1>3 DEF IsSeq

LEMMA PlansStart == Init => PlansInv
<1> SUFFICES ASSUME Init PROVE PlansInv
  OBVIOUS
<1>1. plans = <<>> /\ <<>> \in Seq({}) /\ DOMAIN <<>> = {}
  BY DEF Init, PlansInit
<1>2. \A c \in Client : pc[c] = "idle"
  BY DEF Init
<1> QED
  BY <1>1, <1>2 DEF PlansInv, IsSeq, OneSuccessor, Replacing

\* The plans keep their statuses and what they replaced, and c's request has none to
\* replace.
LEMMA LineageKept ==
    ASSUME PlansInv, NEW c \in Client, NEW to, NEW r, Moved(c, to, r),
           to = "supersede" => r.prior \in DOMAIN plans,
           to = "create" => r.prior = 0,
           IsSeq(plans'), DOMAIN plans' = DOMAIN plans,
           \A i \in DOMAIN plans : /\ DOMAIN plans'[i] = DOMAIN plans[i]
                                   /\ plans'[i].status = plans[i].status
                                   /\ plans'[i].prior = plans[i].prior
    PROVE  PlansInv'
<1>1. \A i \in DOMAIN plans : Lineage(i)'
  BY DEF PlansInv, Lineage
<1>2. \A i : Replaced(i)' <=> Replaced(i)
  BY DEF Replaced
<1>3. OneSuccessor'
  BY DEF PlansInv, OneSuccessor
<1>4. \A d \in Client : \A j : Replacing(d, j)' => Replacing(d, j)
  BY DEF Moved, Replacing
<1>5. \A d \in Client : pc'[d] = "supersede" => held'[d].prior \in DOMAIN plans
  BY DEF Moved, PlansInv
<1> QED
  BY <1>1, <1>2, <1>3, <1>4, <1>5 DEF PlansInv

\* What changes of one plan is neither its status nor what it replaced.
LEMMA ElseOfPlanKept ==
    ASSUME PlansInv, NEW c \in Client, Moved(c, "idle", Nothing) \/ \E r : Moved(c, "item", r),
           NEW i, NEW f \in {"basis", "item"}, NEW x, plans' = [plans EXCEPT ![i][f] = x]
    PROVE  PlansInv'
<1> DEFINE row == [plans[i] EXCEPT ![f] = x]
<1>1. plans' = [plans EXCEPT ![i] = row]
  OBVIOUS
<1>2. i \in DOMAIN plans => DOMAIN row = DOMAIN plans[i] /\ row.status = plans[i].status
                            /\ row.prior = plans[i].prior
  BY DEF PlansInv, Lineage
<1> HIDE DEF row
<1>3. /\ IsSeq(plans') /\ DOMAIN plans' = DOMAIN plans
      /\ \A j \in DOMAIN plans : plans'[j] = IF j = i THEN row ELSE plans[j]
  <2> DEFINE new == [plans EXCEPT ![i] = row]
  <2>1. IsSeq(plans)
    BY DEF PlansInv
  <2>2. /\ IsSeq(new) /\ DOMAIN new = DOMAIN plans
        /\ \A j \in DOMAIN plans : new[j] = IF j = i THEN row ELSE plans[j]
    BY ONLY <2>1, ExceptAny
  <2> QED
    BY ONLY <1>1, <2>2
<1>4. \A j \in DOMAIN plans : /\ DOMAIN plans'[j] = DOMAIN plans[j]
                              /\ plans'[j].status = plans[j].status
                              /\ plans'[j].prior = plans[j].prior
  BY <1>2, <1>3
<1> QED
  BY <1>3, <1>4, LineageKept

LEMMA SupersedeKeeps ==
    ASSUME Proper, PlansInv, NEW c \in Client, Supersede(c)
    PROVE  PlansInv'
<1> DEFINE k == held[c].prior
           row == [plans[k] EXCEPT !.status = "superseded"]
<1>1. CASE Ends(c) /\ UNCHANGED plans
  BY <1>1, EndsMoves, LineageKept DEF PlansInv
<1>2. CASE /\ plans[k].status = "active" /\ plans' = [plans EXCEPT ![k].status = "superseded"]
           /\ Goes(c, "create", held[c])
  <2>1. k \in DOMAIN plans
    BY DEF Supersede, PlansInv
  <2>2. Moved(c, "create", held[c])
    BY <1>2, GoesMoves
  <2>3. DOMAIN row = DOMAIN plans[k] /\ row.status = "superseded" /\ row.prior = plans[k].prior
    BY <2>1 DEF PlansInv, Lineage
  <2>4. plans' = [plans EXCEPT ![k] = row]
    BY <1>2
  <2> HIDE DEF row
  <2>5. /\ IsSeq(plans') /\ DOMAIN plans' = DOMAIN plans
        /\ \A j \in DOMAIN plans : plans'[j] = IF j = k THEN row ELSE plans[j]
    BY <2>4, ExceptAny DEF PlansInv
  <2>6. /\ \A i \in DOMAIN plans : plans'[i].prior = plans[i].prior /\ Lineage(i)'
        /\ \A i : Replaced(i) \/ i = k => Replaced(i)'
    BY <2>1, <2>3, <2>5 DEF Replaced, Lineage, PlansInv
  <2>7. ~Replaced(k)
    BY <1>2 DEF Replaced
  <2>8. \A i \in DOMAIN plans : plans[i].prior = k => k = 0
    BY <2>7 DEF PlansInv
  <2>9. \A d \in Client : ~Replacing(d, k)
    BY <2>7 DEF PlansInv
  <2>10. \A d \in Client : \A j : Replacing(d, j)' => Replacing(d, j) \/ (d = c /\ j = k)
    BY <2>2 DEF Moved, Replacing
  <2>11. OneSuccessor'
    BY <2>5, <2>6 DEF PlansInv, OneSuccessor
  <2>12. \A d \in Client : pc'[d] = "supersede" => held'[d].prior \in DOMAIN plans
    BY <2>2 DEF Moved, PlansInv
  <2>13. \A i \in DOMAIN plans : \A j : j = plans'[i].prior /\ j # 0 => Replaced(j)'
    BY <2>6 DEF PlansInv
  <2>14. \A j : j = k => Replaced(j)'
    BY <2>6
  <2>15. ASSUME NEW d \in Client, NEW j, Replacing(d, j)'
         PROVE  /\ Replaced(j)' /\ \A i \in DOMAIN plans : plans'[i].prior # j
                /\ \A e \in Client : Replacing(e, j)' => d = e
    <3>1. CASE j = k
      <4>1. j # 0
        BY <2>15 DEF Replacing
      <4>2. \A e \in Client : Replacing(e, j)' => e = c
        BY <2>9, <2>10, <3>1
      <4> QED
        BY <2>6, <2>8, <2>14, <2>15, <3>1, <4>1, <4>2
    <3>2. CASE j # k
      BY <2>6, <2>10, <2>15, <3>2 DEF PlansInv
    <3> QED
      BY <3>1, <3>2
  <2> QED
    BY <2>5, <2>6, <2>11, <2>12, <2>13, <2>15 DEF PlansInv
<1> QED
  BY <1>1, <1>2 DEF Supersede

LEMMA CreateKeeps ==
    ASSUME Proper, PlansInv, NEW c \in Client, CreatePlan(c)
    PROVE  PlansInv'
<1> DEFINE k == held[c].prior
           n == Len(plans) + 1
<1>1. PICK row : /\ plans' = Append(plans, row) /\ {"status", "prior"} \subseteq DOMAIN row
                 /\ row.prior = k
  <2> DEFINE row == [status |-> "active", version |-> held[c].version, prior |-> k,
                     session |-> held[c].session, basis |-> 0, item |-> NoItem]
  <2>1. plans' = Append(plans, row)
    BY DEF CreatePlan
  <2>2. {"status", "prior"} \subseteq DOMAIN row /\ row.prior = k
    OBVIOUS
  <2> QED
    BY <2>1, <2>2
<1>2. (\E r : Moved(c, "bind", r)) /\ pc[c] = "create"
  BY GoesMoves DEF CreatePlan
<1>3. /\ IsSeq(plans') /\ Len(plans) \in Nat /\ DOMAIN plans = 1..Len(plans)
      /\ DOMAIN plans' = 1..n
      /\ \A i \in 1..Len(plans) : plans'[i] = plans[i]
      /\ plans'[n] = row
  BY <1>1, AppendAny DEF PlansInv
<1>4. /\ \A i \in DOMAIN plans' : i \in DOMAIN plans \/ i = n
      /\ DOMAIN plans \subseteq DOMAIN plans' /\ n \notin DOMAIN plans
      /\ \A i \in DOMAIN plans : plans'[i] = plans[i]
  BY <1>3
<1> HIDE DEF n
<1>5. k # 0 => /\ Replaced(k) /\ \A i \in DOMAIN plans : plans[i].prior # k
               /\ \A d \in Client : Replacing(d, k) => c = d
  BY <1>2 DEF PlansInv, Replacing
<1>6. \A i : Replaced(i) => Replaced(i)'
  BY <1>4 DEF Replaced
<1>7. \A i \in DOMAIN plans' :
        Lineage(i)' /\ \A j : j = plans'[i].prior /\ j # 0 => Replaced(j)'
  BY <1>1, <1>3, <1>4, <1>5, <1>6 DEF PlansInv, Lineage
<1>8. OneSuccessor'
  BY <1>1, <1>3, <1>4, <1>5 DEF PlansInv, OneSuccessor
<1>9. \A d \in Client : \A j : Replacing(d, j)' => Replacing(d, j) /\ d # c
  BY <1>2 DEF Moved, Replacing
<1>10. \A d \in Client : pc'[d] = "supersede" => held'[d].prior \in DOMAIN plans'
  BY <1>2, <1>4 DEF Moved, PlansInv
<1>11. ASSUME NEW d \in Client, NEW j, Replacing(d, j)'
       PROVE  /\ Replaced(j)' /\ \A i \in DOMAIN plans' : plans'[i].prior # j
              /\ \A e \in Client : Replacing(e, j)' => d = e
  <2>1. Replacing(d, j) /\ d # c /\ j # 0
    BY <1>9, <1>11 DEF Replacing
  <2>2. j # k
    BY <1>5, <2>1
  <2> QED
    BY <1>1, <1>3, <1>4, <1>6, <1>9, <2>1, <2>2 DEF PlansInv
<1> QED
  BY <1>3, <1>7, <1>8, <1>10, <1>11 DEF PlansInv

\* No plan is written, and c's request has none to replace.
LEMMA NoPlanWritten ==
    ASSUME PlansInv, NEW c \in Client, NEW to, NEW r, Moved(c, to, r), UNCHANGED plans,
           to \notin {"supersede", "create"}
    PROVE  PlansInv'
  BY LineageKept DEF PlansInv

LEMMA PlanKeeps ==
    ASSUME Proper, PlansInv, NEW c \in Client, PlanStep(c)
    PROVE  PlansInv'
<1>1. ASSUME NEW s \in Session, DraftFromSession(c, s) PROVE PlansInv'
  BY <1>1, BeginsMoves, NoPlanWritten DEF DraftFromSession
<1>2. CASE DraftFromVersion(c)
  <2>1. (\E r : Moved(c, "idle", r)) \/ (\E r : Moved(c, "prior", r))
    BY <1>2, GoesMoves, EndsMoves DEF DraftFromVersion
  <2> QED
    BY <1>2, <2>1, NoPlanWritten DEF DraftFromVersion
<1>3. CASE ReadPrior(c)
  <2>1. PICK i \in Priors : \E v :
          Goes(c, IF i = 0 THEN "create" ELSE "supersede", With(held[c], [prior |-> i, version |-> v]))
    BY <1>3 DEF ReadPrior
  <2>0. PICK v :
          Goes(c, IF i = 0 THEN "create" ELSE "supersede", With(held[c], [prior |-> i, version |-> v]))
    BY <2>1
  <2> DEFINE more == [prior |-> i, version |-> v]
             to == IF i = 0 THEN "create" ELSE "supersede"
  <2>2. i = 0 \/ i \in DOMAIN plans
    BY DEF Priors, ActivePlans
  <2>3. "prior" \in DOMAIN more /\ more.prior = i
    OBVIOUS
  <2>4. Moved(c, to, With(held[c], more))
    BY <2>0, GoesMoves
  <2> HIDE DEF more
  <2>5. With(held[c], more)["prior"] = more["prior"]
    BY <2>3, WithField
  <2>6. With(held[c], more).prior = i
    BY <2>3, <2>5
  <2>7. UNCHANGED plans
    BY <1>3 DEF ReadPrior
  <2> QED
    BY <2>2, <2>4, <2>6, <2>7, LineageKept DEF PlansInv
<1>4. CASE Supersede(c)
  BY <1>4, SupersedeKeeps
<1>5. CASE CreatePlan(c)
  BY <1>5, CreateKeeps
<1>6. CASE BindPlan(c)
  <2>1. PICK i, x : plans' = [plans EXCEPT ![i]["basis"] = x]
    BY <1>6 DEF BindPlan
  <2>2. \E r : Moved(c, "item", r)
    BY <1>6, GoesMoves DEF BindPlan
  <2> QED
    BY <2>1, <2>2, ElseOfPlanKept
<1>7. CASE CreateItem(c)
  <2>1. PICK i, x : plans' = [plans EXCEPT ![i]["item"] = x]
    BY <1>7 DEF CreateItem
  <2> QED
    BY <1>7, <2>1, EndsMoves, ElseOfPlanKept DEF CreateItem
<1>8. ASSUME NEW p \in DOMAIN plans, NEW move \in ItemMove, LoadItem(c, p, move) PROVE PlansInv'
  BY <1>8, BeginsMoves, NoPlanWritten DEF LoadItem
<1>9. CASE WriteItem(c)
  <2>1. UNCHANGED plans \/ \E i, x : plans' = [plans EXCEPT ![i]["item"] = x]
    BY <1>9 DEF WriteItem
  <2> QED
    BY <1>9, <2>1, EndsMoves, NoPlanWritten, ElseOfPlanKept DEF WriteItem
<1> QED
  BY <1>1, <1>2, <1>3, <1>4, <1>5, <1>6, <1>7, <1>8, <1>9 DEF PlanStep

\* Interviews, reviewers and deaths write no plan.
LEMMA OthersPlanNothing ==
    ASSUME Proper, PlansInv,
           Interview \/ Knowledge \/ Sector \/ (\E c \in Client : Die(c)) \/ UNCHANGED vars
    PROVE  PlansInv'
<1>1. UNCHANGED plans
  BY DEF Interview, Knowledge, Sector, Die, vars
<1> DEFINE Reached == Turning \cup Opening \cup Recording \cup Concluding \cup {"idle"}
<1>2. CASE UNCHANGED <<pc, held>>
  BY <1>1, <1>2 DEF PlansInv, Lineage, Replaced, Replacing, OneSuccessor
<1>3. CASE \E c \in Client : \E to \in Reached : \E r : Moved(c, to, r)
  BY <1>1, <1>3, NoPlanWritten DEF Turning, Opening, Recording, Concluding
<1>4. Interview => \/ UNCHANGED <<pc, held>>
                   \/ \E c \in Client : \E to \in Reached : \E r : Moved(c, to, r)
  BY TurnMoves DEF Interview, Start, requests
<1>5. Sector => \E c \in Client : \E to \in Reached : \E r : Moved(c, to, r)
  BY SectorMoves DEF Sector
<1>6. Knowledge \/ UNCHANGED vars => UNCHANGED <<pc, held>>
  BY DEF Knowledge, vars, requests
<1>7. (\E c \in Client : Die(c)) => \E c \in Client : \E to \in Reached : \E r : Moved(c, to, r)
  BY EndsMoves DEF Die
<1> QED
  BY <1>2, <1>3, <1>4, <1>5, <1>6, <1>7

LEMMA PlansStep == Types /\ PlansInv /\ [Next]_vars => PlansInv'
  BY OthersPlanNothing, PlanKeeps DEF Next, Plan, Types

\* Of any number of finalizing missions that read the same plan as the active one, one
\* replaces it (store.py: supersede_plan, an update only of a plan that is active).
THEOREM OneMissionReplaces == Spec => []OneSuccessor
<1>1. Init => Types /\ PlansInv
  BY TypesInit, PlansStart
<1>2. Types /\ PlansInv /\ [Next]_vars => (Types /\ PlansInv)'
  BY TypesStep, PlansStep
<1>3. PlansInv => OneSuccessor
  BY DEF PlansInv
<1> QED
  BY <1>1, <1>2, <1>3, PTL DEF Spec
=============================================================================
