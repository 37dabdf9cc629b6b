------------------------ MODULE GovernanceRecordsProofs ------------------------
(***************************************************************************)
(* Theorems about what the governance store records, for any number of      *)
(* requests at once and any number of deaths: the versions of an analysis,  *)
(* each derived from the answers it cites, and the trails of plan items.    *)
(*                                                                         *)
(* They rest on what GovernanceStoreProofs shows of every reachable state,  *)
(* and on what SignalResolutionProofs shows of the fold over the claims.    *)
(***************************************************************************)
EXTENDS GovernanceStoreProofs, SignalResolutionProofs

Statement == {"idle"} \cup Turning \cup Opening \cup Recording \cup Concluding \cup Planning

Places(c) == \E to \in Statement : pc' = [pc EXCEPT ![c] = to]

\* Whatever a request does, it comes to a statement there is.
LEMMA RequestsArePlaced ==
    ASSUME NEW c \in Client
    PROVE  TurnStep(c) \/ SectorStep(c) \/ PlanStep(c) \/ Die(c) => Places(c)
<1> USE DEF Statement, Places, Begins, Goes, Ends
<1>1. TurnStep(c) => Places(c)
  BY DEF TurnStep, LoadSession, ReadHistory, NextSequence, AppendAnswer, AppendRaises, SaveTurn,
     Conclude, ConcludeRaises, Turning
<1>2. SectorStep(c) => Places(c)
  BY DEF SectorStep, FindAssessment, ReadConcluded, ReadActive, PostAssessment,
     StartAssessment, UpsertAnswer, CommitAnswer, AskToConclude, ReadAnswers, ReadCore, NextVersion, RecordVersion, RecordRaises,
     CompleteAssessment, Opening, Recording, Concluding
<1>3. PlanStep(c) => Places(c)
  BY DEF PlanStep, DraftFromSession, DraftFromVersion, ReadPrior, Supersede, CreatePlan, BindPlan,
     CreateItem, LoadItem, WriteItem, Planning
<1>4. Die(c) => Places(c)
  BY DEF Die
<1> QED
  BY <1>1, <1>2, <1>3, <1>4

LEMMA PlacesKept ==
    ASSUME pc \in [Client -> Statement], [Next]_vars
    PROVE  pc' \in [Client -> Statement]
<1>1. ASSUME NEW c \in Client, Places(c) PROVE pc' \in [Client -> Statement]
  BY <1>1 DEF Places
<1>2. CASE UNCHANGED pc
  BY <1>2
<1>3. UNCHANGED vars \/ Knowledge \/ (\E s \in Session : Start(s)) => UNCHANGED pc
  BY DEF vars, Knowledge, Start, requests
<1> QED
  BY <1>1, <1>2, <1>3, RequestsArePlaced DEF Next, Interview, Sector, Plan

-----------------------------------------------------------------------------
(* What a version says, and the answers it is derived from. *)

\* A version adds to its core what its claims agree on, and names what they do not.
Derived(v) ==
    /\ v.signals \in Signals
    /\ \A q \in Question :
         LET said == Said(v.answers, Claims(v.answers, q))
         IN /\ v.signals[q] = IF v.core[q] # NoValue THEN v.core[q]
                              ELSE IF \E x \in Value : said = {x} THEN CHOOSE x \in Value : said = {x}
                              ELSE NoValue
            /\ q \in v.conflicts <=> said \notin {{}, {v.signals[q]}}

\* An answer about to be saved is one; the core a conclusion read is a session's signals.
Carries(c) ==
    /\ pc[c] = "commit" => /\ held[c].assessment \in Assessment
                           /\ held[c].question \in SectorQuestion
                           /\ held[c].value \in Value \cup {NoValue}
    /\ pc[c] \in {"version", "insert"} => "core" \in DOMAIN held[c] /\ held[c].core \in Signals

RecordsInv == /\ baseline \in Signals
              /\ given \in [Assessment -> Answers]
              /\ \A s \in Session : \A i \in DOMAIN versions[s] : Derived(versions[s][i])
              /\ \A c \in Client : Carries(c)

\* Version 1 is the core as it stands: no answer is cited.
LEMMA CoreIsDerived ==
    ASSUME NEW signals \in Signals
    PROVE  Derived(CoreVersion(signals))
<1>1. PICK v : v = CoreVersion(signals)
  OBVIOUS
<1>2. v.signals = signals /\ v.core = signals /\ v.answers = NoAnswers /\ v.conflicts = {}
  BY <1>1 DEF CoreVersion
<1>3. ASSUME NEW q \in Question PROVE Said(NoAnswers, Claims(NoAnswers, q)) = {}
  BY NoRowAssumption DEF Said, Claims, NoAnswers
<1>4. \A q \in Question : signals[q] \in Value \cup {NoValue}
  BY DEF Signals
<1>5. ASSUME NEW q \in Question, NEW said, said = Said(v.answers, Claims(v.answers, q))
      PROVE  /\ v.signals[q] = IF v.core[q] # NoValue THEN v.core[q]
                               ELSE IF \E x \in Value : said = {x} THEN CHOOSE x \in Value : said = {x}
                               ELSE NoValue
             /\ q \in v.conflicts <=> said \notin {{}, {v.signals[q]}}
  BY <1>2, <1>3, <1>4, <1>5
<1> QED
  BY <1>1, <1>2, <1>5 DEF Derived

\* A later version is what resolving its core with its answers writes.
LEMMA SectorIsDerived ==
    ASSUME NEW r, r.core \in Signals
    PROVE  Derived(SectorVersion(r))
<1>1. PICK v : v = SectorVersion(r)
  OBVIOUS
<1>2. /\ v.core = r.core /\ v.answers = r.answers
      /\ v.signals = Resolve(r.core, r.answers) /\ v.conflicts = Conflicts(r.core, r.answers)
  BY <1>1 DEF SectorVersion
<1>3. v.signals \in Signals
  BY <1>2, ResolveTyped
<1>4. ASSUME NEW q \in Question, NEW said, said = Said(v.answers, Claims(v.answers, q))
      PROVE  /\ v.signals[q] = IF v.core[q] # NoValue THEN v.core[q]
                               ELSE IF \E x \in Value : said = {x} THEN CHOOSE x \in Value : said = {x}
                               ELSE NoValue
             /\ q \in v.conflicts <=> said \notin {{}, {v.signals[q]}}
  BY <1>2, <1>4, ResolveAdds
<1> QED
  BY <1>1, <1>3, <1>4 DEF Derived

LEMMA RecordsStart == Init => RecordsInv
<1> SUFFICES ASSUME Init PROVE RecordsInv
  OBVIOUS
<1>1. NoSignals \in Signals /\ NoAnswers \in Answers
  BY DEF NoSignals, Signals, NoAnswers, Answers
<1>2. \A s \in Session : DOMAIN versions[s] = {}
  BY DEF Init, InterviewInit
<1> QED
  BY <1>1, <1>2 DEF Init, InterviewInit, SectorInit, RecordsInv, Carries

\* Nothing is recorded; c's request goes on with what it may carry.
LEMMA NothingRecorded ==
    ASSUME RecordsInv, NEW c \in Client, NEW to, NEW r, Moved(c, to, r),
           to \notin {"commit", "version", "insert"} \/ Carries(c)',
           UNCHANGED <<baseline, given, versions>>
    PROVE  RecordsInv'
<1>1. Carries(c)'
  BY DEF Moved, Carries
<1>2. ASSUME NEW d \in Client \ {c} PROVE Carries(d)'
  <2>1. pc'[d] = pc[d] /\ held'[d] = held[d] /\ Carries(d)
    BY <1>2 DEF Moved, RecordsInv
  <2> QED
    BY <2>1 DEF Carries
<1>3. \A s \in Session : \A i \in DOMAIN versions'[s] : Derived(versions'[s][i])
  BY DEF RecordsInv
<1> QED
  BY <1>1, <1>2, <1>3 DEF RecordsInv

\* A version is recorded, and c's request is done with its core.
LEMMA VersionRecorded ==
    ASSUME RecordsInv, NEW c \in Client, NEW to \in {"idle", "complete"}, NEW r, Moved(c, to, r),
           UNCHANGED given, baseline' \in Signals,
           \A s \in Session : \A i \in DOMAIN versions'[s] : Derived(versions'[s][i])
    PROVE  RecordsInv'
<1>1. Carries(c)'
  BY DEF Moved, Carries
<1>2. ASSUME NEW d \in Client \ {c} PROVE Carries(d)'
  <2>1. pc'[d] = pc[d] /\ held'[d] = held[d] /\ Carries(d)
    BY <1>2 DEF Moved, RecordsInv
  <2> QED
    BY <2>1 DEF Carries
<1> QED
  BY <1>1, <1>2 DEF RecordsInv

LEMMA InterviewRecords ==
    ASSUME Types, InterviewInv, RecordsInv, Interview
    PROVE  RecordsInv'
<1>1. UNCHANGED given
  BY DEF Interview, sector
<1>2. ASSUME NEW s \in Session, Start(s) PROVE RecordsInv'
  <2>1. UNCHANGED <<baseline, versions, pc, held>>
    BY <1>2 DEF Start, requests
  <2> QED
    BY <1>1, <2>1 DEF RecordsInv, Carries
<1>3. ASSUME NEW c \in Client, TurnStep(c), ~Conclude(c) PROVE RecordsInv'
  <2>1. UNCHANGED <<baseline, given, versions>>
    BY <1>1, <1>3 DEF TurnStep, LoadSession, ReadHistory, NextSequence, AppendAnswer, AppendRaises,
       SaveTurn, ConcludeRaises, interview
  <2>2. PICK to \in Turning \cup {"idle"} : \E r : Moved(c, to, r)
    BY <1>3, TurnMoves DEF Types
  <2> QED
    BY <2>1, <2>2, NothingRecorded DEF Turning
<1>4. ASSUME NEW c \in Client, Conclude(c) PROVE RecordsInv'
  <2>1. Moved(c, "idle", Nothing) /\ pc[c] = "save"
    BY <1>4, EndsMoves DEF Conclude, Types
  <2>2. PICK signals : signals = Signalled(held[c])
    OBVIOUS
  <2>3. signals \in Signals /\ held[c].session \in Session
    BY <2>1, <2>2, SavedIsTold DEF TurnTyped
  <2>4. PICK v : v = CoreVersion(signals)
    OBVIOUS
  <2>5. Derived(v) /\ baseline' = signals
        /\ versions' = [versions EXCEPT ![held[c].session] = <<v>>]
    BY <1>4, <2>2, <2>3, <2>4, CoreIsDerived DEF Conclude
  <2>6. \A s \in Session : \A i \in DOMAIN versions'[s] : Derived(versions'[s][i])
    <3> TAKE s \in Session
    <3>1. CASE s = held[c].session
      <4>1. versions'[s] = <<v>>
        BY <2>3, <2>5, <3>1 DEF Types
      <4> QED
        BY <2>5, <4>1
    <3>2. CASE s # held[c].session
      BY <2>5, <3>2 DEF Types, RecordsInv
    <3> QED
      BY <3>1, <3>2
  <2> QED
    BY <1>1, <2>1, <2>3, <2>5, <2>6, VersionRecorded
<1> QED
  BY <1>2, <1>3, <1>4 DEF Interview

LEMMA SectorRecords ==
    ASSUME Types, InterviewInv, RecordsInv, Sector
    PROVE  RecordsInv'
<1>1. PICK c \in Client : SectorStep(c)
  BY DEF Sector
<1>2. PICK to \in Opening \cup Recording \cup Concluding \cup {"idle"} : \E r : Moved(c, to, r)
  BY <1>1, SectorMoves DEF Types
<1>3. ASSUME NEW a \in Assessment, NEW q \in SectorQuestion, NEW v \in Value \cup {NoValue},
             UpsertAnswer(c, a, q, v)
      PROVE  RecordsInv'
  <2> DEFINE r == [assessment |-> a, question |-> q, value |-> v, new |-> given[a][q] = NoRow]
  <2>1. Moved(c, "commit", r) /\ UNCHANGED <<baseline, given, versions>>
    BY <1>3, BeginsMoves DEF UpsertAnswer, Types, interview, sector
  <2>2. r.assessment = a /\ r.question = q /\ r.value = v
    OBVIOUS
  <2> HIDE DEF r
  <2>3. Carries(c)'
    BY <2>1, <2>2 DEF Moved, Carries
  <2> QED
    BY <2>1, <2>3, NothingRecorded
<1>4. CASE CommitAnswer(c)
  <2>1. Moved(c, "idle", Nothing) /\ UNCHANGED <<baseline, versions>>
    BY <1>4, EndsMoves DEF CommitAnswer, Types, interview
  <2>2. given' \in [Assessment -> Answers]
    BY <1>4 DEF CommitAnswer, RecordsInv, Carries, Answers
  <2>3. \A d \in Client : Carries(d)'
    BY <2>1 DEF Moved, RecordsInv, Carries
  <2> QED
    BY <2>1, <2>2, <2>3 DEF RecordsInv
<1>5. CASE ReadCore(c)
  <2> DEFINE more == [core |-> sessions[held[c].session].signals]
             w == With(held[c], more)
  <2>1. ConcludingTyped(held[c]) /\ UNCHANGED <<baseline, given, versions>>
    BY <1>5 DEF ReadCore, Types, Typed, Concluding, interview, sector
  <2>2. sessions[held[c].session].signals \in Signals
    <3>1. held[c].session \in Session
      BY <1>5 DEF ReadCore, Types, Typed, Recomputing
    <3> QED
      BY <3>1 DEF Types, SessionRow
  <2>3. Moved(c, "version", w) \/ Moved(c, "complete", w)
    BY <1>5, GoesMoves DEF ReadCore, Types
  <2>4. "core" \in DOMAIN w /\ w.core \in Signals
    <3>1. "core" \in DOMAIN more /\ more["core"] \in Signals
      BY <2>2
    <3> HIDE DEF more
    <3>2. w["core"] = more["core"] /\ "core" \in DOMAIN w
      BY <3>1, WithField
    <3> HIDE DEF w
    <3> QED
      BY <3>1, <3>2
  <2> HIDE DEF w
  <2>5. Carries(c)'
    BY <2>3, <2>4 DEF Moved, Carries
  <2> QED
    BY <2>1, <2>3, <2>5, NothingRecorded
<1>6. CASE NextVersion(c)
  <2> DEFINE more == [next |-> Len(versions[held[c].session]) + 1]
             w == With(held[c], more)
  <2>1. /\ "core" \in DOMAIN held[c] /\ held[c].core \in Signals
        /\ UNCHANGED <<baseline, given, versions>>
    BY <1>6 DEF NextVersion, RecordsInv, Carries, interview, sector
  <2>2. Moved(c, "insert", w)
    BY <1>6, GoesMoves DEF NextVersion, Types
  <2>3. "core" \in DOMAIN w /\ w.core \in Signals
    <3>1. "core" \in DOMAIN held[c] \ DOMAIN more
      BY <2>1
    <3> HIDE DEF more
    <3>2. w["core"] = held[c]["core"] /\ "core" \in DOMAIN w
      BY <3>1, WithField
    <3> HIDE DEF w
    <3> QED
      BY <2>1, <3>2
  <2> HIDE DEF w
  <2>4. Carries(c)'
    BY <2>2, <2>3 DEF Moved, Carries
  <2> QED
    BY <2>1, <2>2, <2>4, NothingRecorded
<1>7. CASE RecordVersion(c)
  <2>1. Moved(c, "complete", held[c]) /\ pc[c] = "insert" /\ UNCHANGED <<baseline, given>>
    BY <1>7, GoesMoves DEF RecordVersion, Types, sector
  <2>2. held[c].session \in Session
    BY <2>1 DEF Types, Typed, Recomputing
  <2>3. PICK v : v = SectorVersion(held[c])
    OBVIOUS
  <2>4. Derived(v)
    BY <2>1, <2>3, SectorIsDerived DEF RecordsInv, Carries
  <2>5. PICK was : was = versions[held[c].session]
    OBVIOUS
  <2>6. versions' = [versions EXCEPT ![held[c].session] = Append(was, v)]
    BY <1>7, <2>3, <2>5 DEF RecordVersion
  <2>7. IsSeq(was) /\ \A i \in DOMAIN was : Derived(was[i])
    BY <2>2, <2>5 DEF InterviewInv, Numbered, RecordsInv
  <2>8. \A i \in DOMAIN Append(was, v) : Derived(Append(was, v)[i])
    <3>1. /\ Len(was) \in Nat /\ DOMAIN was = 1..Len(was)
          /\ DOMAIN Append(was, v) = 1..(Len(was) + 1)
          /\ \A i \in 1..Len(was) : Append(was, v)[i] = was[i]
          /\ Append(was, v)[Len(was) + 1] = v
      BY <2>7, AppendAny
    <3>2. \A i \in 1..(Len(was) + 1) : i \in 1..Len(was) \/ i = Len(was) + 1
      BY <3>1
    <3> QED
      BY <2>4, <2>7, <3>1, <3>2
  <2>9. \A s \in Session : \A i \in DOMAIN versions'[s] : Derived(versions'[s][i])
    BY <2>2, <2>6, <2>8 DEF Types, RecordsInv
  <2>10. baseline' \in Signals
    BY <2>1 DEF RecordsInv
  <2> QED
    BY <2>1, <2>9, <2>10, VersionRecorded
\* The other statements record nothing, and carry no core.
<1>8. CASE \/ \E s \in Session : FindAssessment(c, s)
           \/ \E s \in Session \cup {NoSession}, r \in Release : PostAssessment(c, s, r)
           \/ \E a \in Assessment : AskToConclude(c, a)
           \/ ReadConcluded(c) \/ ReadActive(c) \/ StartAssessment(c)
           \/ ReadAnswers(c) \/ RecordRaises(c) \/ CompleteAssessment(c)
  <2>1. UNCHANGED <<baseline, given, versions>>
    BY <1>8 DEF FindAssessment, PostAssessment, ReadConcluded, ReadActive, StartAssessment,
       AskToConclude, ReadAnswers, RecordRaises, CompleteAssessment, interview, sector
  <2>2. pc'[c] \notin {"commit", "version", "insert"}
    BY <1>8 DEF FindAssessment, PostAssessment, ReadConcluded, ReadActive, StartAssessment,
       AskToConclude, ReadAnswers, RecordRaises, CompleteAssessment, Begins, Goes, Ends, Types, Proper
  <2> QED
    BY <1>2, <2>1, <2>2, NothingRecorded DEF Moved
<1> QED
  BY <1>1, <1>3, <1>4, <1>5, <1>6, <1>7, <1>8 DEF SectorStep

LEMMA RecordsStep == Types /\ InterviewInv /\ RecordsInv /\ [Next]_vars => RecordsInv'
<1> SUFFICES ASSUME Types, InterviewInv, RecordsInv, [Next]_vars PROVE RecordsInv'
  OBVIOUS
<1>1. CASE UNCHANGED vars \/ Knowledge
  <2>1. UNCHANGED <<baseline, given, versions, pc, held>>
    BY <1>1 DEF vars, Knowledge, interview, sector, requests
  <2> QED
    BY <2>1 DEF RecordsInv, Carries
<1>2. ASSUME NEW c \in Client, PlanStep(c) \/ Die(c), UNCHANGED <<interview, sector>> PROVE RecordsInv'
  <2>1. \E to \in Planning \cup {"idle"} : \E r : Moved(c, to, r)
    BY <1>2, PlanMoves, EndsMoves DEF Types, Die
  <2>2. UNCHANGED <<baseline, given, versions>>
    BY <1>2 DEF interview, sector
  <2> QED
    BY <2>1, <2>2, NothingRecorded DEF Planning
<1>3. CASE Plan \/ \E c \in Client : Die(c)
  BY <1>2, <1>3 DEF Plan, Die
<1> QED
  BY <1>1, <1>3, InterviewRecords, SectorRecords DEF Next

RecordedInv == Types /\ InterviewInv /\ RecordsInv /\ pc \in [Client -> Statement]

LEMMA RecordsHold == Spec => []RecordedInv
<1>1. Init => RecordedInv
  BY TypesInit, InterviewStart, RecordsStart DEF RecordedInv, Init, Statement
<1>2. RecordedInv /\ [Next]_vars => RecordedInv'
  BY TypesStep, InterviewStep, RecordsStep, PlacesKept DEF RecordedInv
<1> QED
  BY <1>1, <1>2, PTL DEF Spec

\* A sector version takes nothing from the core and adds exactly what every claim it cites
\* agrees on, however many requests conclude at once (resolution.py; sector_conclusion.py).
THEOREM AnalysisAddsOnlyClaims == Spec => []SectorOnlyAdds
<1>1. RecordedInv => SectorOnlyAdds
  BY DEF RecordedInv, RecordsInv, Derived, Said, SectorOnlyAdds
<1> QED
  BY <1>1, RecordsHold, PTL

\* Every row and every request of the tenant's store keeps its type.
THEOREM StoreTypes == Spec => []TypeOK
<1>1. ASSUME RecordedInv PROVE TypeOK
  <2>1. \A a \in Assessment : asmt[a].status \in {"absent", "open", "concluded"}
    BY <1>1 DEF RecordedInv, Types, Interviewed, AbsentAssessment
  <2> QED
    BY <1>1, <2>1 DEF RecordedInv, Types, SessionRow, RecordsInv, Derived, Statement, TypeOK
<1> QED
  BY <1>1, RecordsHold, PTL

-----------------------------------------------------------------------------
(* What a trail leaves an item in. *)

\* The status that the moves in s leave: the last one that is more than evidence decides.
LastStatus(trail, s) ==
    LET moves == {i \in s : trail[i] # "evidence_attached"}
    IN IF moves = {} THEN "not_started" ELSE After(trail[Max(moves)], "not_started")

\* The equation of the fold over the moves in the subsets of S.
TrailFoldsTo(trail, S, f) ==
    f = [s \in SUBSET S |-> IF s = {} THEN "not_started"
                            ELSE LET i == Max(s)
                                 IN  After(trail[i], f[s \ {i}])]

LEMMA LatestExists ==
    ASSUME NEW n \in Nat, NEW s \in SUBSET (1..n), s # {}
    PROVE  Max(s) \in s /\ \A i \in s : i <= Max(s)
<1> DEFINE Ages == {n - i : i \in s}
<1>1. Ages \in SUBSET Nat /\ Ages # {}
  <2>1. \A i \in s : i \in 1..n /\ n - i \in Nat
    OBVIOUS
  <2>2. \E i \in s : n - i \in Ages
    OBVIOUS
  <2> QED
    BY <2>1, <2>2
<1>2. PICK age \in Ages : \A b \in Ages : <<b, age>> \notin OpToRel(<, Nat)
  BY <1>1, NatLessThanWellFounded, WFMin, Zenon
<1>3. \A b \in Ages : ~(b < age)
  BY <1>1, <1>2 DEF OpToRel
<1>4. PICK m \in s : age = n - m
  OBVIOUS
<1>5. \A i \in s : i <= m
  <2> TAKE i \in s
  <2>1. n - i \in Ages
    OBVIOUS
  <2> QED
    BY <1>3, <1>4, <2>1
<1>6. \E x \in s : \A y \in s : x >= y
  BY <1>4, <1>5
<1> QED
  BY <1>6 DEF Max

LEMMA LatestIs ==
    ASSUME NEW n \in Nat, NEW s \in SUBSET (1..n), NEW m \in s, \A i \in s : i <= m
    PROVE  Max(s) = m
<1>1. PICK x : x = Max(s)
  OBVIOUS
<1>2. x \in s /\ \A i \in s : i <= x
  BY <1>1, LatestExists
<1>3. x \in Int /\ m \in Int /\ x <= m /\ m <= x
  BY <1>2
<1>4. x = m
  BY <1>3
<1> QED
  BY <1>1, <1>4

\* Without its last move, a trail leaves what that move started from.
LEMMA LastStatusStep ==
    ASSUME NEW n \in Nat, NEW trail, \A i \in 1..n : trail[i] \in ItemMove,
           NEW s \in SUBSET (1..n), s # {}
    PROVE  LastStatus(trail, s) = After(trail[Max(s)], LastStatus(trail, s \ {Max(s)}))
<1>1. PICK m : m = Max(s)
  OBVIOUS
<1>2. m \in s /\ \A i \in s : i <= m
  BY <1>1, LatestExists
<1>3. PICK moves : moves = {i \in s : trail[i] # "evidence_attached"}
  OBVIOUS
<1>4. moves \in SUBSET (1..n) /\ moves \subseteq s
  BY <1>3
<1>5. CASE trail[m] = "evidence_attached"
  <2>1. {i \in s \ {m} : trail[i] # "evidence_attached"} = moves
    BY <1>3, <1>5
  <2>2. LastStatus(trail, s \ {m}) = LastStatus(trail, s)
    BY <1>3, <2>1 DEF LastStatus
  <2> QED
    BY <1>1, <1>5, <2>2 DEF After
<1>6. CASE trail[m] # "evidence_attached"
  <2>1. m \in moves
    BY <1>2, <1>3, <1>6
  <2>2. Max(moves) = m
    BY <1>2, <1>4, <2>1, LatestIs
  <2>3. LastStatus(trail, s) = After(trail[m], "not_started")
    BY <1>3, <2>1, <2>2 DEF LastStatus
  <2>4. trail[m] \in {"started", "completed", "reopened"}
    BY <1>2, <1>6 DEF ItemMove
  <2>5. After(trail[m], "not_started") = After(trail[m], LastStatus(trail, s \ {m}))
    BY <2>4 DEF After
  <2> QED
    BY <1>1, <2>3, <2>5
<1> QED
  BY <1>5, <1>6

LEMMA TrailFoldIsUnique ==
    ASSUME NEW n \in Nat, NEW trail, NEW f, NEW g,
           TrailFoldsTo(trail, 1..n, f), TrailFoldsTo(trail, 1..n, g)
    PROVE  f[1..n] = g[1..n]
<1> DEFINE Differ == {s \in SUBSET (1..n) : f[s] # g[s]}
<1>1. SUFFICES ASSUME Differ # {} PROVE FALSE
  BY <1>1
<1>2. PICK R : R = StrictSubsetOrdering(1..n)
  OBVIOUS
<1>3. IsWellFoundedOn(R, SUBSET (1..n))
  <2>1. PICK S : S = 1..n
    OBVIOUS
  <2>2. IsFiniteSet(S)
    <3>1. n \in Int /\ 1 \in Int
      OBVIOUS
    <3> QED
      BY <2>1, <3>1, FS_Interval
  <2>3. IsWellFoundedOn(StrictSubsetOrdering(S), SUBSET S)
    BY <2>2, FS_StrictSubsetOrderingWellFounded, FS_FiniteSubsetsOfFinite
  <2> QED
    BY <1>2, <2>1, <2>3
<1>4. PICK s \in Differ : \A t \in Differ : <<t, s>> \notin R
  BY <1>1, <1>3, WFMin, Zenon
<1>5. s # {}
  BY DEF TrailFoldsTo
<1>6. PICK m : m = Max(s)
  OBVIOUS
<1>7. m \in s /\ s \in SUBSET (1..n) /\ s \ {m} \in SUBSET (1..n)
  BY <1>5, <1>6, LatestExists
<1>8. <<s \ {m}, s>> \in R
  BY <1>2, <1>7 DEF StrictSubsetOrdering
<1>9. f[s \ {m}] = g[s \ {m}]
  BY <1>4, <1>7, <1>8
<1>10. f[s] = After(trail[m], f[s \ {m}]) /\ g[s] = After(trail[m], g[s \ {m}])
  BY <1>5, <1>6, <1>7 DEF TrailFoldsTo
<1> QED
  BY <1>9, <1>10

\* An item is where its last move other than evidence left it, however long its trail.
THEOREM TrailLeavesLastMove ==
    ASSUME NEW trail \in Seq(ItemMove)
    PROVE  StatusAfter(trail) = LastStatus(trail, DOMAIN trail)
<1>1. PICK n \in Nat : n = Len(trail)
  OBVIOUS
<1>2. DOMAIN trail = 1..n /\ \A i \in 1..n : trail[i] \in ItemMove
  BY <1>1
<1>3. PICK f : f = CHOOSE g : TrailFoldsTo(trail, 1..n, g)
  OBVIOUS
<1>4. StatusAfter(trail) = f[1..n]
  BY <1>2, <1>3 DEF StatusAfter, FoldLeft, MapThenFoldSet, TrailFoldsTo
<1>5. PICK g : g = [s \in SUBSET (1..n) |-> LastStatus(trail, s)]
  OBVIOUS
<1>6. TrailFoldsTo(trail, 1..n, g)
  <2>1. ASSUME NEW s \in SUBSET (1..n), s # {}, NEW m, m = Max(s)
        PROVE  g[s] = After(trail[m], g[s \ {m}])
    <3>1. s \ {m} \in SUBSET (1..n)
      OBVIOUS
    <3>2. LastStatus(trail, s) = After(trail[m], LastStatus(trail, s \ {m}))
      BY <1>2, <2>1, LastStatusStep
    <3> QED
      BY <1>5, <3>1, <3>2
  <2>2. g[{}] = "not_started"
    BY <1>5 DEF LastStatus
  <2>3. g = [s \in SUBSET (1..n) |-> g[s]]
    BY <1>5
  <2> QED
    BY <2>1, <2>2, <2>3 DEF TrailFoldsTo
<1>7. TrailFoldsTo(trail, 1..n, f)
  BY <1>3, <1>6
<1>8. f[1..n] = g[1..n]
  BY <1>6, <1>7, TrailFoldIsUnique
<1> QED
  BY <1>2, <1>4, <1>5, <1>8

LEMMA NothingMoved == StatusAfter(<<>>) = "not_started"
<1>1. <<>> \in Seq(ItemMove) /\ DOMAIN <<>> = {}
  OBVIOUS
<1>2. LastStatus(<<>>, {}) = "not_started"
  BY DEF LastStatus
<1> QED
  BY <1>1, <1>2, TrailLeavesLastMove

LEMMA OneMoreMove ==
    ASSUME NEW trail \in Seq(ItemMove), NEW move \in ItemMove
    PROVE  StatusAfter(Append(trail, move)) = After(move, StatusAfter(trail))
<1>1. PICK longer : longer = Append(trail, move)
  OBVIOUS
<1>2. PICK n \in Nat : n = Len(trail)
  OBVIOUS
<1>3. PICK m \in Nat : m = n + 1
  BY <1>2
<1>4. /\ longer \in Seq(ItemMove) /\ DOMAIN trail = 1..n /\ DOMAIN longer = 1..m
      /\ longer[m] = move /\ \A i \in 1..n : longer[i] = trail[i]
      /\ \A i \in 1..m : longer[i] \in ItemMove
  BY <1>1, <1>2, <1>3
<1>5. m \in 1..m /\ (1..m) \ {m} = 1..n /\ \A i \in 1..m : i <= m
  BY <1>3
<1>6. PICK all : all = 1..m
  OBVIOUS
<1>7. LastStatus(longer, all) = After(longer[m], LastStatus(longer, all \ {m}))
  <2>1. all \in SUBSET (1..m) /\ m \in all /\ all # {} /\ \A i \in all : i <= m
    BY <1>5, <1>6
  <2>2. Max(all) = m
    BY <2>1, LatestIs
  <2>3. \A i \in 1..m : longer[i] \in ItemMove
    BY <1>4
  <2>4. LastStatus(longer, all) = After(longer[Max(all)], LastStatus(longer, all \ {Max(all)}))
    BY <2>1, <2>3, LastStatusStep
  <2> QED
    BY <2>2, <2>4
<1>8. LastStatus(longer, 1..n) = LastStatus(trail, 1..n)
  <2>1. PICK moves : moves = {i \in 1..n : trail[i] # "evidence_attached"}
    OBVIOUS
  <2>2. {i \in 1..n : longer[i] # "evidence_attached"} = moves
    BY <1>4, <2>1
  <2>3. moves # {} => longer[Max(moves)] = trail[Max(moves)]
    <3>1. moves \in SUBSET (1..n)
      BY <2>1
    <3>2. moves # {} => Max(moves) \in 1..n
      BY <3>1, LatestExists
    <3> QED
      BY <1>4, <3>2
  <2> QED
    BY <2>1, <2>2, <2>3 DEF LastStatus
<1> QED
  BY <1>1, <1>4, <1>5, <1>6, <1>7, <1>8, TrailLeavesLastMove

-----------------------------------------------------------------------------
(* The life of an item. *)

ItemStatus == {"none", "not_started", "in_progress", "done"}

Item == [status : ItemStatus, trail : Seq(ItemMove)]

\* Every move was allowed where it was made, and the item is where its trail leaves it.
Legal(item) ==
    /\ item \in Item
    /\ item.status = "none" => item.trail = <<>>
    /\ \A i \in DOMAIN item.trail : Meaningful(item.trail[i], StatusAfter(SubSeq(item.trail, 1, i - 1)))
    /\ item.status # "none" => item.status = StatusAfter(item.trail)

\* c's request is to open the item of a plan it created.
Opens(c) == pc[c] \in {"bind", "item"}

\* The request is to write a move that was meaningful when the item was as it read it.
Meant(r, item) ==
    /\ r.plan \in DOMAIN plans /\ r.move \in ItemMove
    /\ r.seen \in Nat /\ r.seen <= Len(item.trail)
    /\ item.status # "none"
    /\ r.seen = Len(item.trail) => r.status = item.status /\ Meaningful(r.move, r.status)

ItemHeld(c) ==
    /\ Opens(c) => held[c].plan \in DOMAIN plans /\ plans[held[c].plan].item = NoItem
    /\ pc[c] = "write" => Meant(held[c], plans[held[c].plan].item)

\* No two requests open one item, and none is written before it is open.
TrailInv ==
    /\ \A p \in DOMAIN plans : "item" \in DOMAIN plans[p] /\ Legal(plans[p].item)
    /\ \A c \in Client : ItemHeld(c)
    /\ \A c, d \in Client : Opens(c) /\ Opens(d) /\ held[c].plan = held[d].plan => c = d

LEMMA UnopenedIsLegal == Legal(NoItem)
<1>1. <<>> \in Seq(ItemMove) /\ DOMAIN <<>> = {}
  OBVIOUS
<1> QED
  BY <1>1 DEF Legal, NoItem, Item, ItemStatus

LEMMA OpenedIsLegal ==
    ASSUME NEW item, item = [status |-> "not_started", trail |-> <<>>]
    PROVE  Legal(item)
<1>1. <<>> \in Seq(ItemMove) /\ DOMAIN <<>> = {}
  OBVIOUS
<1> QED
  BY <1>1, NothingMoved DEF Legal, Item, ItemStatus

LEMMA MovedIsLegal ==
    ASSUME NEW was, Legal(was), was.status # "none",
           NEW move \in ItemMove, Meaningful(move, was.status),
           NEW item, item = [status |-> After(move, was.status), trail |-> Append(was.trail, move)]
    PROVE  Legal(item) /\ item.status # "none" /\ Len(item.trail) = Len(was.trail) + 1
<1>1. PICK trail \in Seq(ItemMove) : trail = was.trail
  BY DEF Legal, Item
<1>2. PICK longer : longer = Append(trail, move)
  OBVIOUS
<1>3. PICK n \in Nat : n = Len(trail)
  OBVIOUS
<1>4. /\ longer \in Seq(ItemMove) /\ Len(longer) = n + 1
      /\ DOMAIN trail = 1..n /\ DOMAIN longer = 1..(n + 1)
      /\ longer[n + 1] = move /\ \A i \in 1..n : longer[i] = trail[i]
  BY <1>2, <1>3
<1>5. was.status \in ItemStatus \ {"none"} /\ was.status = StatusAfter(trail)
  BY <1>1 DEF Legal, Item
<1>6. After(move, was.status) \in ItemStatus \ {"none"}
  BY <1>5 DEF After, ItemStatus
<1>7. StatusAfter(longer) = After(move, was.status)
  BY <1>2, <1>5, OneMoreMove
<1>8. ASSUME NEW i \in 1..(n + 1)
      PROVE  Meaningful(longer[i], StatusAfter(SubSeq(longer, 1, i - 1)))
  <2>1. PICK k \in 0..n : k = i - 1
    OBVIOUS
  <2>2. SubSeq(longer, 1, k) = SubSeq(trail, 1, k)
    <3>1. k <= Len(longer) /\ k <= Len(trail)
      BY <1>3, <1>4
    <3>2. \A j \in 1..k : longer[j] = trail[j]
      BY <1>4
    <3> QED
      BY <1>4, <3>1, <3>2
  <2>3. CASE i = n + 1
    <3>1. SubSeq(trail, 1, n) = trail
      BY <1>3
    <3>2. k = n
      BY <2>1, <2>3
    <3> QED
      BY <1>4, <1>5, <2>1, <2>2, <2>3, <3>1, <3>2
  <2>4. CASE i # n + 1
    <3>1. i \in DOMAIN was.trail
      BY <1>1, <1>4, <2>4
    <3>2. Meaningful(trail[i], StatusAfter(SubSeq(trail, 1, i - 1)))
      BY <1>1, <3>1 DEF Legal
    <3>3. longer[i] = trail[i]
      BY <1>1, <1>4, <3>1
    <3> QED
      BY <2>1, <2>2, <3>2, <3>3
  <2> QED
    BY <2>3, <2>4
<1>9. item.status = After(move, was.status) /\ item.trail = longer /\ item \in Item
  BY <1>1, <1>2, <1>4, <1>6 DEF Item
<1> QED
  BY <1>1, <1>3, <1>4, <1>6, <1>7, <1>8, <1>9 DEF Legal

LEMMA FieldRewritten ==
    ASSUME NEW rows, IsSeq(rows), NEW i, NEW f, NEW x, NEW new, new = [rows EXCEPT ![i][f] = x]
    PROVE  /\ DOMAIN new = DOMAIN rows
           /\ \A j \in DOMAIN rows :
                /\ DOMAIN new[j] = DOMAIN rows[j]
                /\ \A g \in DOMAIN rows[j] : new[j][g] = IF j = i /\ g = f THEN x ELSE rows[j][g]
<1>1. PICK row : row = [rows[i] EXCEPT ![f] = x]
  OBVIOUS
<1>2. new = [rows EXCEPT ![i] = row]
  BY <1>1
<1>3. DOMAIN new = DOMAIN rows /\ \A j \in DOMAIN rows : new[j] = IF j = i THEN row ELSE rows[j]
  BY <1>2, ExceptAny
<1>4. /\ DOMAIN row = DOMAIN rows[i]
      /\ \A g \in DOMAIN rows[i] : row[g] = IF g = f THEN x ELSE rows[i][g]
  BY <1>1
<1> QED
  BY <1>3, <1>4

LEMMA TrailStart == Init => TrailInv
<1> SUFFICES ASSUME Init PROVE TrailInv
  OBVIOUS
<1>1. DOMAIN plans = {} /\ \A c \in Client : pc[c] = "idle"
  BY DEF Init, PlansInit
<1> QED
  BY <1>1 DEF TrailInv, ItemHeld, Opens

\* No item changes, and c's request opens only what it was to open.
LEMMA ItemsKept ==
    ASSUME TrailInv, NEW c \in Client, NEW to, NEW r, Moved(c, to, r),
           DOMAIN plans' = DOMAIN plans,
           \A p \in DOMAIN plans : "item" \in DOMAIN plans'[p] /\ plans'[p].item = plans[p].item,
           to \in {"bind", "item"} => Opens(c) /\ r.plan = held[c].plan,
           to = "write" => r.plan \in DOMAIN plans /\ Meant(r, plans[r.plan].item)
    PROVE  TrailInv'
<1>1. \A p \in DOMAIN plans' : "item" \in DOMAIN plans'[p] /\ Legal(plans'[p].item)
  BY DEF TrailInv
<1>2. \A d \in Client : Opens(d)' => Opens(d) /\ held'[d].plan = held[d].plan
  BY DEF Moved, Opens
<1>3. ASSUME NEW d \in Client PROVE ItemHeld(d)'
  <2>1. ItemHeld(d)
    BY DEF TrailInv
  <2>2. Opens(d)' => held'[d].plan \in DOMAIN plans' /\ plans'[held'[d].plan].item = NoItem
    BY <1>2, <2>1 DEF ItemHeld
  <2>3. ASSUME pc'[d] = "write" PROVE Meant(held[d], plans[held[d].plan].item)'
    <3>1. PICK w : w = held'[d]
      OBVIOUS
    <3>2. w.plan \in DOMAIN plans /\ Meant(w, plans[w.plan].item)
      BY <2>1, <2>3, <3>1 DEF ItemHeld, Meant, Moved
    <3>3. Meant(w, plans[w.plan].item)'
      BY <3>2 DEF Meant
    <3> QED
      BY <3>1, <3>3 DEF Meant
  <2> QED
    BY <2>2, <2>3 DEF ItemHeld
<1>4. \A d, e \in Client : Opens(d)' /\ Opens(e)' /\ held'[d].plan = held'[e].plan => d = e
  BY <1>2 DEF TrailInv
<1> QED
  BY <1>1, <1>3, <1>4 DEF TrailInv

\* The item of p changes; who read it before will find it has.
LEMMA ItemWritten ==
    ASSUME IsSeq(plans), TrailInv, NEW c \in Client, Moved(c, "idle", Nothing),
           NEW p \in DOMAIN plans, NEW item, plans' = [plans EXCEPT ![p]["item"] = item],
           Legal(item),
           \A d \in Client \ {c} : Opens(d) => held[d].plan # p,
           plans[p].item.status # "none" =>
             item.status # "none" /\ Len(item.trail) = Len(plans[p].item.trail) + 1
    PROVE  TrailInv'
<1>1. PICK new : new = plans'
  OBVIOUS
<1>2. /\ DOMAIN new = DOMAIN plans
      /\ \A q \in DOMAIN plans : /\ "item" \in DOMAIN new[q]
                                 /\ new[q].item = IF q = p THEN item ELSE plans[q].item
  BY <1>1, FieldRewritten DEF TrailInv
<1>3. \A q \in DOMAIN plans : "item" \in DOMAIN new[q] /\ Legal(new[q].item)
  BY <1>2 DEF TrailInv
<1>4. \A d \in Client : Opens(d)' => d # c /\ Opens(d) /\ held'[d] = held[d]
  BY DEF Moved, Opens
<1>5. ASSUME NEW d \in Client PROVE ItemHeld(d)'
  <2>1. ItemHeld(d)
    BY DEF TrailInv
  <2>2. Opens(d)' => held'[d].plan \in DOMAIN new /\ new[held'[d].plan].item = NoItem
    BY <1>2, <1>4, <2>1 DEF ItemHeld
  <2>3. ASSUME pc'[d] = "write" PROVE Meant(held[d], plans[held[d].plan].item)'
    <3>1. PICK w : w = held[d]
      OBVIOUS
    <3>2. held'[d] = w /\ Meant(w, plans[w.plan].item) /\ w.plan \in DOMAIN plans
      BY <2>1, <2>3, <3>1 DEF Moved, ItemHeld, Meant
    <3>3. CASE w.plan # p
      BY <1>1, <1>2, <3>2, <3>3 DEF Meant
    <3>4. CASE w.plan = p
      <4>1. PICK n : n = Len(plans[p].item.trail)
        OBVIOUS
      <4>2. n \in Nat /\ w.seen \in Nat /\ w.seen <= n /\ item.status # "none"
            /\ Len(item.trail) = n + 1 /\ w.move \in ItemMove
        <5>1. plans[p].item.trail \in Seq(ItemMove)
          BY DEF TrailInv, Legal, Item
        <5> QED
          BY <3>2, <3>4, <4>1, <5>1 DEF Meant
      <4>3. w.seen # n + 1 /\ w.seen <= n + 1
        BY <4>2
      <4> QED
        BY <1>1, <1>2, <3>2, <3>4, <4>2, <4>3 DEF Meant
    <3> QED
      BY <3>3, <3>4
  <2> QED
    BY <1>1, <2>2, <2>3 DEF ItemHeld
<1>6. \A d, e \in Client : Opens(d)' /\ Opens(e)' /\ held'[d].plan = held'[e].plan => d = e
  BY <1>4 DEF TrailInv
<1> QED
  BY <1>1, <1>2, <1>3, <1>5, <1>6 DEF TrailInv

\* The plan that c's request creates is no one else's to open.
LEMMA CreateTrails ==
    ASSUME Types, PlansInv, TrailInv, NEW c \in Client, CreatePlan(c)
    PROVE  TrailInv'
<1> DEFINE more == [plan |-> Len(plans) + 1]
           w == With(held[c], more)
<1>1. PICK n : n = Len(plans) + 1
  OBVIOUS
<1>2. Moved(c, "bind", w)
  BY GoesMoves DEF CreatePlan, Types
<1>3. w.plan = n
  <2>1. "plan" \in DOMAIN more /\ more["plan"] = n
    BY <1>1
  <2> HIDE DEF more
  <2>2. w["plan"] = more["plan"]
    BY <2>1, WithField
  <2> HIDE DEF w
  <2> QED
    BY <2>1, <2>2
<1> HIDE DEF w
<1>4. PICK row : plans' = Append(plans, row) /\ "item" \in DOMAIN row /\ row.item = NoItem
  <2> DEFINE row == [status |-> "active", version |-> held[c].version, prior |-> held[c].prior,
                     session |-> held[c].session, basis |-> 0, item |-> NoItem]
  <2>1. plans' = Append(plans, row)
    BY DEF CreatePlan
  <2>2. "item" \in DOMAIN row /\ row.item = NoItem
    OBVIOUS
  <2> QED
    BY <2>1, <2>2
<1>5. /\ DOMAIN plans \subseteq DOMAIN plans' /\ n \notin DOMAIN plans /\ n \in DOMAIN plans'
      /\ \A p \in DOMAIN plans' : p \in DOMAIN plans \/ p = n
      /\ \A p \in DOMAIN plans : plans'[p] = plans[p]
      /\ plans'[n] = row
  <2>1. /\ Len(plans) \in Nat /\ DOMAIN plans = 1..Len(plans) /\ DOMAIN plans' = 1..n
        /\ \A p \in 1..Len(plans) : plans'[p] = plans[p]
        /\ plans'[n] = row
    BY <1>1, <1>4, AppendAny DEF PlansInv
  <2> QED
    BY <1>1, <2>1
<1>6. \A p \in DOMAIN plans' : "item" \in DOMAIN plans'[p] /\ Legal(plans'[p].item)
  BY <1>4, <1>5, UnopenedIsLegal DEF TrailInv
<1>7. ASSUME NEW d \in Client \ {c} PROVE pc'[d] = pc[d] /\ held'[d] = held[d] /\ ItemHeld(d)
  BY <1>2, <1>7 DEF Moved, TrailInv
<1>8. ASSUME NEW d \in Client \ {c} PROVE ItemHeld(d)'
  BY <1>5, <1>7 DEF ItemHeld, Opens, Meant
<1>9. ItemHeld(c)'
  BY <1>2, <1>3, <1>4, <1>5 DEF Moved, ItemHeld, Opens
<1>10. ASSUME NEW d \in Client, NEW e \in Client, Opens(d)', Opens(e)',
              held'[d].plan = held'[e].plan
       PROVE  d = e
  <2>1. \A k \in Client \ {c} : Opens(k)' => Opens(k) /\ held'[k].plan \in DOMAIN plans
    BY <1>7 DEF Opens, ItemHeld
  <2>2. held'[c].plan = n
    BY <1>2, <1>3 DEF Moved
  <2> QED
    BY <1>5, <1>7, <1>10, <2>1, <2>2 DEF TrailInv
<1> QED
  BY <1>6, <1>8, <1>9, <1>10 DEF TrailInv

LEMMA PlanTrails ==
    ASSUME Types, PlansInv, TrailInv, NEW c \in Client, PlanStep(c)
    PROVE  TrailInv'
<1>1. Proper /\ IsSeq(plans)
  BY DEF Types, PlansInv
<1>2. \A p \in DOMAIN plans : "item" \in DOMAIN plans[p]
  BY DEF TrailInv
\* No item changes, and the request opens and writes none.
<1>3. ASSUME NEW to, NEW r, Moved(c, to, r), to \notin {"bind", "item", "write"}, UNCHANGED plans
      PROVE  TrailInv'
  BY <1>2, <1>3, ItemsKept
<1>4. ASSUME NEW s \in Session, DraftFromSession(c, s) PROVE TrailInv'
  BY <1>1, <1>3, <1>4, BeginsMoves DEF DraftFromSession
<1>5. CASE DraftFromVersion(c)
  <2>1. \E r : Moved(c, "idle", r) \/ Moved(c, "prior", r)
    BY <1>1, <1>5, GoesMoves, EndsMoves DEF DraftFromVersion
  <2> QED
    BY <1>3, <1>5, <2>1 DEF DraftFromVersion
<1>6. CASE ReadPrior(c)
  <2>1. \E r : Moved(c, "create", r) \/ Moved(c, "supersede", r)
    BY <1>1, <1>6, GoesMoves DEF ReadPrior
  <2> QED
    BY <1>3, <1>6, <2>1 DEF ReadPrior
<1>7. CASE Supersede(c)
  <2>1. CASE Ends(c) /\ UNCHANGED plans
    BY <1>1, <1>3, <2>1, EndsMoves
  <2>2. CASE ~(Ends(c) /\ UNCHANGED plans)
    <3>1. PICK i : plans' = [plans EXCEPT ![i]["status"] = "superseded"]
      BY <1>7, <2>2 DEF Supersede
    <3>2. Moved(c, "create", held[c])
      BY <1>1, <1>7, <2>2, GoesMoves DEF Supersede
    <3>3. PICK new : new = plans'
      OBVIOUS
    <3>4. /\ DOMAIN new = DOMAIN plans
          /\ \A p \in DOMAIN plans : "item" \in DOMAIN new[p] /\ new[p].item = plans[p].item
      BY <1>1, <1>2, <3>1, <3>3, FieldRewritten
    <3> QED
      BY <3>2, <3>3, <3>4, ItemsKept
  <2> QED
    BY <2>1, <2>2
<1>8. CASE CreatePlan(c)
  BY <1>8, CreateTrails
<1>9. CASE BindPlan(c)
  <2>1. PICK i, x : plans' = [plans EXCEPT ![i]["basis"] = x]
    BY <1>9 DEF BindPlan
  <2>2. Moved(c, "item", held[c]) /\ Opens(c)
    BY <1>1, <1>9, GoesMoves DEF BindPlan, Opens
  <2>3. PICK new : new = plans'
    OBVIOUS
  <2>4. /\ DOMAIN new = DOMAIN plans
        /\ \A p \in DOMAIN plans : "item" \in DOMAIN new[p] /\ new[p].item = plans[p].item
    BY <1>1, <1>2, <2>1, <2>3, FieldRewritten
  <2> QED
    BY <2>2, <2>3, <2>4, ItemsKept
<1>10. CASE CreateItem(c)
  <2>1. PICK p : p = held[c].plan
    OBVIOUS
  <2>2. Moved(c, "idle", Nothing) /\ Opens(c)
    BY <1>1, <1>10, EndsMoves DEF CreateItem, Opens
  <2>3. p \in DOMAIN plans /\ plans[p].item = NoItem
    BY <2>1, <2>2 DEF TrailInv, ItemHeld
  <2>4. PICK item : item = [status |-> "not_started", trail |-> <<>>]
    OBVIOUS
  <2>5. plans' = [plans EXCEPT ![p]["item"] = item]
    <3>1. plans' = [plans EXCEPT ![p]["item"] = [plans[p]["item"] EXCEPT !["status"] = "not_started"]]
      BY <1>10, <2>1 DEF CreateItem
    <3>2. [NoItem EXCEPT !["status"] = "not_started"] = item
      BY <2>4 DEF NoItem
    <3> QED
      BY <2>3, <3>1, <3>2
  <2>6. Legal(item)
    BY <2>4, OpenedIsLegal
  <2>7. \A d \in Client \ {c} : Opens(d) => held[d].plan # p
    BY <2>1, <2>2 DEF TrailInv
  <2>8. plans[p].item.status = "none"
    BY <2>3 DEF NoItem
  <2> QED
    BY <1>1, <2>2, <2>3, <2>5, <2>6, <2>7, <2>8, ItemWritten
<1>11. ASSUME NEW p \in DOMAIN plans, NEW move \in ItemMove, LoadItem(c, p, move) PROVE TrailInv'
  <2>1. PICK item : item = plans[p].item
    OBVIOUS
  <2>2. PICK r : r = [plan |-> p, move |-> move, status |-> item.status, seen |-> Len(item.trail)]
    OBVIOUS
  <2>3. Moved(c, "write", r) /\ UNCHANGED plans
    BY <1>1, <1>11, <2>1, <2>2, BeginsMoves DEF LoadItem
  <2>4. r.plan = p /\ r.move = move /\ r.status = item.status /\ r.seen = Len(item.trail)
    BY <2>2
  <2>5. Len(item.trail) \in Nat
    BY <2>1 DEF TrailInv, Legal, Item
  <2>6. item.status # "none" /\ Meaningful(move, item.status)
    BY <1>11, <2>1 DEF LoadItem
  <2>7. Meant(r, plans[r.plan].item)
    BY <2>1, <2>4, <2>5, <2>6 DEF Meant
  <2> QED
    BY <1>2, <2>3, <2>4, <2>7, ItemsKept
<1>12. CASE WriteItem(c)
  <2>1. PICK r : r = held[c]
    OBVIOUS
  <2>2. PICK was : was = plans[r.plan].item
    OBVIOUS
  <2>3. Meant(r, was)
    BY <1>12, <2>1, <2>2 DEF WriteItem, TrailInv, ItemHeld
  <2>4. Moved(c, "idle", Nothing)
    BY <1>1, <1>12, EndsMoves DEF WriteItem
  <2>5. CASE UNCHANGED plans
    BY <1>3, <2>4, <2>5
  <2>6. CASE ~UNCHANGED plans
    <3>1. PICK item : item = [status |-> After(r.move, r.status), trail |-> Append(was.trail, r.move)]
      OBVIOUS
    <3>2. Len(was.trail) = r.seen /\ plans' = [plans EXCEPT ![r.plan]["item"] = item]
      BY <1>12, <2>1, <2>2, <2>6, <3>1 DEF WriteItem
    <3>3. /\ r.plan \in DOMAIN plans /\ r.move \in ItemMove /\ was.status # "none"
          /\ r.status = was.status /\ Meaningful(r.move, was.status)
      BY <2>3, <3>2 DEF Meant
    <3>4. Legal(was)
      BY <2>2, <3>3 DEF TrailInv
    <3>5. Legal(item) /\ item.status # "none" /\ Len(item.trail) = Len(was.trail) + 1
      BY <3>1, <3>3, <3>4, MovedIsLegal
    <3>6. \A d \in Client : Opens(d) => held[d].plan # r.plan
      BY <2>2, <3>3 DEF TrailInv, ItemHeld, NoItem
    <3> QED
      BY <1>1, <2>2, <2>4, <3>2, <3>3, <3>5, <3>6, ItemWritten
  <2> QED
    BY <2>5, <2>6
<1> QED
  BY <1>4, <1>5, <1>6, <1>7, <1>8, <1>9, <1>10, <1>11, <1>12 DEF PlanStep

\* Interviews, reviewers and deaths come to no item.
LEMMA OthersTrailNothing ==
    ASSUME Types, TrailInv,
           Interview \/ Knowledge \/ Sector \/ (\E c \in Client : Die(c)) \/ UNCHANGED vars
    PROVE  TrailInv'
<1>1. UNCHANGED plans
  BY DEF Interview, Knowledge, Sector, Die, vars
<1> DEFINE Reached == Turning \cup Opening \cup Recording \cup Concluding \cup {"idle"}
<1>2. CASE UNCHANGED <<pc, held>>
  BY <1>1, <1>2 DEF TrailInv, ItemHeld, Opens, Meant
<1>3. CASE \E c \in Client : \E to \in Reached : \E r : Moved(c, to, r)
  <2>1. \A p \in DOMAIN plans : "item" \in DOMAIN plans[p]
    BY DEF TrailInv
  <2>2. \A to \in Reached : to \notin {"bind", "item", "write"}
    BY DEF Turning, Opening, Recording, Concluding
  <2> HIDE DEF Reached
  <2>3. PICK c \in Client, to \in Reached : \E r : Moved(c, to, r)
    BY <1>3
  <2> QED
    BY <1>1, <2>1, <2>2, <2>3, ItemsKept
<1>4. Interview => \/ UNCHANGED <<pc, held>>
                   \/ \E c \in Client : \E to \in Reached : \E r : Moved(c, to, r)
  BY TurnMoves DEF Interview, Start, requests, Types
<1>5. Sector => \E c \in Client : \E to \in Reached : \E r : Moved(c, to, r)
  BY SectorMoves DEF Sector, Types
<1>6. Knowledge \/ UNCHANGED vars => UNCHANGED <<pc, held>>
  BY DEF Knowledge, vars, requests
<1>7. (\E c \in Client : Die(c)) => \E c \in Client : \E to \in Reached : \E r : Moved(c, to, r)
  BY EndsMoves DEF Die, Types
<1> QED
  BY <1>2, <1>3, <1>4, <1>5, <1>6, <1>7

\* The trail of an item tells its life, however many practitioners race to move it: what
\* was read is written only if nothing was written since (store.py:349-412).
THEOREM TrailTellsItsLife == Spec => []TrailIsLegal
<1> DEFINE Inv == Types /\ PlansInv /\ TrailInv
<1>1. Init => Inv
  BY TypesInit, PlansStart, TrailStart
<1>2. Inv /\ [Next]_vars => Inv'
  <2>1. TrailInv /\ Types /\ PlansInv /\ [Next]_vars => TrailInv'
    BY PlanTrails, OthersTrailNothing DEF Next, Plan
  <2> QED
    BY <2>1, TypesStep, PlansStep
<1>3. Inv => TrailIsLegal
  BY DEF TrailInv, Legal, TrailIsLegal
<1> QED
  BY <1>1, <1>2, <1>3, PTL DEF Spec
=============================================================================
