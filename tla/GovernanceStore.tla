---------------------------- MODULE GovernanceStore ----------------------------
(***************************************************************************)
(* The governance side of one tenant as a whole: its core interview, the    *)
(* reviewers' releases, the sector interview and the plans, over one store, *)
(* with several requests under way at once.  Each runs on a connection of   *)
(* its own, and the process that serves it may die between two statements.  *)
(***************************************************************************)
EXTENDS GovernancePlans, SequencesExt

CONSTANTS MaxCrashes  \* bound: requests that die

ASSUME MaxCrashesAssumption == MaxCrashes \in Nat

VARIABLES crashes

vars == <<interview, knowledge, sector, plans, requests, crashes>>

Init == /\ InterviewInit /\ KnowledgeInit /\ SectorInit /\ PlansInit
        /\ pc = [c \in Client |-> "idle"]
        /\ held = [c \in Client |-> Nothing]
        /\ used = [k \in Kind |-> 0]
        /\ crashes = 0

\* What it committed stays, what it held is gone: an open transaction is rolled back.
Die(c) == /\ crashes < MaxCrashes
          /\ crashes' = crashes + 1
          /\ pc[c] # "idle"
          /\ Ends(c)
          /\ UNCHANGED <<interview, knowledge, sector, plans>>

Interview == /\ \/ \E s \in Session : Start(s)
                \/ \E c \in Client : TurnStep(c)
             /\ UNCHANGED <<knowledge, sector, plans, crashes>>

Knowledge == /\ KnowledgeStep
             /\ UNCHANGED <<interview, sector, plans, requests, crashes>>

Sector == /\ \E c \in Client : SectorStep(c)
          /\ UNCHANGED <<knowledge, plans, crashes>>

Plan == /\ \E c \in Client : PlanStep(c)
        /\ UNCHANGED <<interview, knowledge, sector, crashes>>

Next == Interview \/ Knowledge \/ Sector \/ Plan \/ \E c \in Client : Die(c)

Spec == Init /\ [][Next]_vars

-----------------------------------------------------------------------------
TypeOK == /\ sessions \in [Session -> [status : {"absent", "in_progress", "concluded"},
                                       signals : Signals]]
          /\ baseline \in Signals
          /\ release \in [Release -> ReleaseStatus]
          /\ active \in [Industry -> Release \cup {NoRelease}]
          /\ given \in [Assessment -> Answers]
          /\ \A a \in Assessment : asmt[a].status \in {"absent", "open", "concluded"}
          /\ \A s \in Session : \A i \in DOMAIN versions[s] : versions[s][i].signals \in Signals
          /\ pc \in [Client -> {"idle"} \cup Turning \cup Opening \cup Recording
                                \cup Concluding \cup Planning]

\* No fact of the tenant is made up: however answers race, fail and are lost, what a
\* session, the baseline or a core analysis holds was answered (service.py: answer, ADR
\* 0066: the log is the audit of every signal).
SignalsAreAnswers ==
    \A s \in Session, q \in Question :
      /\ sessions[s].signals[q] \in Given(s, q) \cup {NoValue}
      /\ \A i \in DOMAIN versions[s] : versions[s][i].core[q] \in Given(s, q) \cup {NoValue}
      /\ baseline[q] \in {NoValue} \cup UNION {Given(t, q) : t \in Session}

\* A session is concluded together with its analysis and the tenant's baseline: "a session cannot end
\* up concluded with no version recorded" (service.py:97-98).
ConcludedIsRecorded ==
    \A s \in Session : sessions[s].status = "concluded" =>
      /\ versions[s] # <<>>
      /\ \E t \in Session : versions[t] # <<>> /\ baseline = versions[t][1].signals

\* A sector version adds to the core only what every claim it cites agrees on, and takes
\* nothing away (resolution.py: the core stands, disagreement leaves a signal unset).
SectorOnlyAdds ==
    \A s \in Session : \A i \in DOMAIN versions[s] :
      LET v == versions[s][i]
      IN \A q \in Question :
           LET said == {v.answers[k] : k \in Claims(v.answers, q)}
           IN /\ v.signals[q] = IF v.core[q] # NoValue THEN v.core[q]
                                ELSE IF \E x \in Value : said = {x} THEN CHOOSE x \in Value : said = {x}
                                ELSE NoValue
              /\ q \in v.conflicts <=> said \notin {{}, {v.signals[q]}}

\* Version 1 is the core's, every later one is of an assessment of this session, and no
\* assessment has two (0018: the constraints on the versions).
OneVersionPerAssessment ==
    \A s \in Session : \A i \in DOMAIN versions[s] :
      /\ (i = 1) = (versions[s][i].assessment = NoAssessment)
      /\ i # 1 => asmt[versions[s][i].assessment].session = s
      /\ \A j \in DOMAIN versions[s] :
           versions[s][i].assessment = versions[s][j].assessment => i = j

\* What the interview a session opens asks was approved, and stays so: a release cited by
\* way of the live pointer never goes back to a draft, whatever the reviewers do while it is
\* cited (ADR 0067).  Of a posted assessment nothing is said: its caller may cite a draft.
CitedWasReleased ==
    \A a \in Assessment : Exists(a) /\ asmt[a].chosen = "pointer" =>
      release[asmt[a].release] \in {"released", "deprecated"}

\* Interviews are only ever handed what is released, and a retired release serves no
\* one (0009: a release cannot be demoted while it is the active one).
ActiveIsReleased == \A i \in Industry : active[i] # NoRelease => release[active[i]] = "released"

\* Of the missions that finalize against one plan, one replaces it (finalize_tool.py).
OneSuccessor == \A i, j \in DOMAIN plans :
                  plans[i].prior = plans[j].prior /\ plans[i].prior # 0 => i = j

StatusAfter(trail) == FoldLeft(LAMBDA status, move : After(move, status), "not_started", trail)

\* The audit trail of an item tells its life: each event is one that the status left by
\* those before it allows, and the last leaves the status it has (store.py:349-412).
TrailIsLegal ==
    \A p \in DOMAIN plans :
      LET item == plans[p].item
      IN /\ \A i \in DOMAIN item.trail :
              Meaningful(item.trail[i], StatusAfter(SubSeq(item.trail, 1, i - 1)))
         /\ item.status # "none" => item.status = StatusAfter(item.trail)

\* "All of it is one transaction, a failure anywhere leaves neither a version nor a
\* concluded assessment" (sector_conclusion.py:16-19): where no request is concluding an
\* assessment, it has a version only if it is concluded.
ConcludesAsOne ==
    \A a \in Assessment, s \in Session :
      (\E i \in DOMAIN versions[s] : versions[s][i].assessment = a) =>
        \/ asmt[a].status = "concluded"
        \/ \E c \in Client : pc[c] \in Concluding /\ held[c].assessment = a
=============================================================================
