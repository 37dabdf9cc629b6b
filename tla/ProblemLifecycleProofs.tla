------------------------- MODULE ProblemLifecycleProofs -------------------------
(***************************************************************************)
(* Theorems about ProblemLifecycle, for any number of problems, approvers,  *)
(* attempts and deaths of the worker.  First the counters that bound what   *)
(* it does to one problem: they hold at every step of a pass, also between  *)
(* the reset of the ladder and the reset of the attempts when a problem     *)
(* closes.  Then the approvals file, whatever its writers do to each other: *)
(* what it says was granted, a person granted.  Last the states of the      *)
(* problems, which follow the ledger through the worker's deaths.           *)
(***************************************************************************)
EXTENDS ProblemLifecycle, FiniteSetTheorems, SequenceTheorems, WellFoundedInduction,
        TLAPS

counters == <<attempts, tiers, missions, raised, crashes, closing>>

Counted == /\ attempts \in [Problems -> 0..MaxAttempts]
           /\ tiers \in [Problems -> SUBSET Tiers]
           /\ missions \in [Problems -> Nat]
           /\ raised \in [Problems -> 0..MaxRaised]
           /\ crashes \in Nat
           /\ closing \in Problems \cup {NoProblem}

\* The missions of the lives of the worker that have ended, at the most.
Before == MaxAttempts * crashes

\* The missions since the problem last closed are those the worker has counted, those
\* that raised, and at most a cap for each death; the ladder stands only on a spent cap, and is down while
\* the problem closes.
CapInv == /\ Counted
          /\ \A p \in Problems : missions[p] <= attempts[p] + Before + raised[p]
          /\ EscalatedAfterCap
          /\ closing # NoProblem => tiers[closing] = {}

LEMMA BeforeIsNat ==
    ASSUME Counted
    PROVE  Before \in Nat /\ MaxAttempts * (crashes + 1) = Before + MaxAttempts
  BY MaxAttemptsAssumption DEF Counted, Before

LEMMA CapInit == Init => CapInv
<1> SUFFICES ASSUME Init PROVE CapInv
  OBVIOUS
<1>1. Counted
  BY MaxAttemptsAssumption, LimitsAssumption DEF Init, Counted
<1>2. Before \in Nat
  BY <1>1, BeforeIsNat
<1> QED
  BY <1>1, <1>2 DEF Init, CapInv, EscalatedAfterCap

LEMMA CountersKept == CapInv /\ UNCHANGED counters => CapInv'
  BY DEF counters, CapInv, Counted, EscalatedAfterCap, Before

\* A problem that closes loses its ladder first.
LEMMA ResolveKeeps == ASSUME CapInv, NEW p \in Problems, Resolve(p) PROVE CapInv'
<1>1. /\ tiers' = [tiers EXCEPT ![p] = {}] /\ closing' = p
      /\ UNCHANGED <<attempts, missions, raised, crashes>>
  BY DEF Resolve, Turn, Due, past
<1> QED
  BY <1>1 DEF CapInv, Counted, EscalatedAfterCap, Before

\* A mission is opened under the cap, so on no ladder, and is counted.
LEMMA OpenKeeps ==
    ASSUME CapInv, NEW p \in Problems, UnderCap(p), OpenMission(p), UNCHANGED crashes
    PROVE  CapInv'
<1>1. /\ attempts' = [attempts EXCEPT ![p] = attempts[p] + 1]
      /\ missions' = [missions EXCEPT ![p] = missions[p] + 1]
      /\ UNCHANGED <<tiers, closing, raised, crashes>>
  BY DEF OpenMission
<1>2. attempts[p] \in Nat /\ attempts[p] < MaxAttempts /\ tiers[p] = {}
  BY MaxAttemptsAssumption DEF UnderCap, CapInv, Counted, EscalatedAfterCap
<1>3. Counted'
  BY <1>1, <1>2, MaxAttemptsAssumption DEF CapInv, Counted
<1>4. Before \in Nat /\ Before' = Before
  BY <1>1, BeforeIsNat DEF CapInv, Before
<1>5. \A q \in Problems : missions'[q] <= attempts'[q] + Before + raised'[q]
  BY <1>1, <1>2, <1>4, LimitsAssumption DEF CapInv, Counted
<1>6. EscalatedAfterCap' /\ (closing' # NoProblem => tiers'[closing'] = {})
  BY <1>1, <1>2 DEF CapInv, Counted, EscalatedAfterCap
<1> QED
  BY <1>3, <1>4, <1>5, <1>6 DEF CapInv

\* A tier is raised over a spent cap, of a problem that is not closing.
LEMMA RaiseKeeps ==
    ASSUME CapInv, NEW p \in Problems, NEW tier \in Tiers,
           Turn(p), Exhausted(p), RaiseTier(p, tier)
    PROVE  CapInv'
<1>1. /\ tiers' = [tiers EXCEPT ![p] = tiers[p] \cup {tier}]
      /\ UNCHANGED <<attempts, missions, raised, crashes, closing>> /\ closing = NoProblem
  BY DEF RaiseTier, Turn, Due, Ready, past
<1>2. attempts[p] = MaxAttempts
  BY MaxAttemptsAssumption DEF Exhausted, CapInv, Counted
<1> QED
  BY <1>1, <1>2 DEF CapInv, Counted, EscalatedAfterCap, Before

\* What raises leaves the attempts and the ladder as they are; a mission that was opened
\* by then is among those that raised.
LEMMA RaisingKeeps ==
    ASSUME CapInv, NEW p \in Problems, OpenRaises(p) \/ EscalationRaises(p)
    PROVE  CapInv'
<1>1. UNCHANGED <<attempts, tiers, crashes>> /\ closing' = NoProblem
  BY DEF OpenRaises, EscalationRaises, Due, MissionRaises, PassEnds, engine
<1>2. Before \in Nat /\ Before' = Before
  BY <1>1, BeforeIsNat DEF CapInv, Before
<1>3. CASE UNCHANGED <<missions, raised>>
  BY <1>1, <1>2, <1>3 DEF CapInv, Counted, EscalatedAfterCap
<1>4. CASE /\ raised[p] < MaxRaised
           /\ missions' = [missions EXCEPT ![p] = missions[p] + 1]
           /\ raised' = [raised EXCEPT ![p] = raised[p] + 1]
  <2>1. raised[p] \in Nat /\ raised[p] + 1 \in 0..MaxRaised
    BY <1>4, LimitsAssumption DEF CapInv, Counted
  <2>2. Counted'
    BY <1>1, <1>4, <2>1 DEF CapInv, Counted
  <2>3. \A q \in Problems : missions'[q] <= attempts'[q] + Before + raised'[q]
    BY <1>1, <1>2, <1>4, <2>1, LimitsAssumption, MaxAttemptsAssumption DEF CapInv, Counted
  <2> QED
    BY <1>1, <1>2, <2>2, <2>3 DEF CapInv, EscalatedAfterCap
<1> QED
  BY <1>3, <1>4 DEF OpenRaises, EscalationRaises, MissionRaises, past

LEMMA AdvanceKeeps == ASSUME CapInv, NEW p \in Problems, Advance(p) PROVE CapInv'
<1>1. CASE Resolve(p)
  BY <1>1, ResolveKeeps
<1>2. CASE OpenFreely(p) \/ OpenGranted(p)
  BY <1>2, OpenKeeps DEF OpenFreely, OpenGranted, Turn, Due
<1>3. CASE OpenGate(p) \/ Wait(p) \/ StayEscalated(p)
  BY <1>3, CountersKept DEF OpenGate, Wait, StayEscalated, Turn, Due, counters, engine, past
<1>4. CASE Escalate(p)
  BY <1>4, RaiseKeeps DEF Escalate
<1> QED
  BY <1>1, <1>2, <1>3, <1>4, RaisingKeeps DEF Advance

\* The attempts of a closed problem are reset, its ladder is down already.
LEMMA DeactivateKeeps == ASSUME CapInv, Deactivate PROVE CapInv'
<1>1. /\ attempts' = [attempts EXCEPT ![closing] = 0]
      /\ missions' = [missions EXCEPT ![closing] = 0]
      /\ raised' = [raised EXCEPT ![closing] = 0]
      /\ closing \in Problems /\ tiers[closing] = {} /\ closing' = NoProblem
      /\ UNCHANGED <<tiers, crashes>>
  BY DEF Deactivate, CapInv, Counted
<1>2. Counted'
  BY <1>1, MaxAttemptsAssumption, LimitsAssumption DEF CapInv, Counted
<1>3. Before \in Nat /\ Before' = Before
  BY <1>1, BeforeIsNat DEF CapInv, Before
<1>4. \A q \in Problems : missions'[q] <= attempts'[q] + Before + raised'[q]
  BY <1>1, <1>3 DEF CapInv, Counted
<1>5. EscalatedAfterCap'
  BY <1>1 DEF CapInv, Counted, EscalatedAfterCap
<1> QED
  BY <1>1, <1>2, <1>3, <1>4, <1>5 DEF CapInv

\* What the dead worker had counted goes into its cap.
LEMMA CrashKeeps == ASSUME CapInv, Crash PROVE CapInv'
<1>1. /\ attempts' = [q \in Problems |-> 0] /\ tiers' = [q \in Problems |-> {}]
      /\ crashes' = crashes + 1 /\ closing' = NoProblem /\ UNCHANGED <<missions, raised>>
  BY DEF Crash, past
<1>2. Counted'
  BY <1>1, MaxAttemptsAssumption DEF CapInv, Counted
<1>3. Before \in Nat /\ Before' = Before + MaxAttempts
  BY <1>1, BeforeIsNat DEF CapInv, Before
<1>4. \A q \in Problems : missions'[q] <= attempts'[q] + Before' + raised'[q]
  BY <1>1, <1>3, MaxAttemptsAssumption, LimitsAssumption DEF CapInv, Counted
<1> QED
  BY <1>1, <1>2, <1>4 DEF CapInv, EscalatedAfterCap

LEMMA CapStep == CapInv /\ [Next]_vars => CapInv'
<1> SUFFICES ASSUME CapInv, [Next]_vars PROVE CapInv'
  OBVIOUS
<1>1. CASE \/ UNCHANGED vars \/ Approve
           \/ \E p \in Problems, e \in Evidence : EvidenceChanges(p, e)
           \/ \E p \in Problems : GraceElapses(p)
  BY <1>1, CountersKept
     DEF vars, Approve, EvidenceChanges, GraceElapses, counters, engine, pass, past
<1>2. CASE Observe \/ Drain \/ Reconcile \/ Ignore \/ ClearOne \/ Save \/ TickDone
           \/ CutSnapshot \/ WriteSnapshot \/ Recover
  BY <1>2, CountersKept
     DEF Observe, Drain, Reconcile, Ignore, ClearOne, Save, TickDone, CutSnapshot, WriteSnapshot,
         Recover, counters, engine, pass, past
<1>3. CASE SaveRaises
  BY <1>3 DEF SaveRaises, PassEnds, engine, past, CapInv, Counted, EscalatedAfterCap, Before
<1> QED
  BY <1>1, <1>2, <1>3, AdvanceKeeps, DeactivateKeeps, CrashKeeps DEF Next, DaemonStep

\* The ladder is climbed only over a spent cap: a close takes it down before the
\* attempts are reset, a death takes both (driver.py: _escalate_ladder, _resolve).
THEOREM LadderStandsOnCap == Spec => []EscalatedAfterCap
<1>1. CapInv => EscalatedAfterCap
  BY DEF CapInv
<1> QED
  BY <1>1, CapInit, CapStep, PTL DEF Spec

\* Events and ticks together open at most max_attempts missions for a problem in one
\* life of the worker, beside those that raised, which no attempt counts; a death
\* forgets at most as many (ADR 0065 D3; driver.py: advance).  MaxRaised is any number.
THEOREM MissionsAreCapped == Spec => []AttemptsCapped
<1>1. ASSUME CapInv PROVE AttemptsCapped
  <2>1. /\ MaxAttempts * (crashes + 1) = Before + MaxAttempts /\ Before \in Nat
        /\ crashes \in Nat /\ crashes + 1 = 1 + crashes
    BY <1>1, BeforeIsNat DEF CapInv, Counted
  <2>2. \A p \in Problems : missions[p] <= Before + MaxAttempts + raised[p]
    BY <1>1, <2>1, MaxAttemptsAssumption, LimitsAssumption DEF CapInv, Counted
  <2> QED
    BY <2>1, <2>2 DEF AttemptsCapped
<1> QED
  BY <1>1, CapInit, CapStep, PTL DEF Spec
-----------------------------------------------------------------------------
(* Sequences: an element taken out, and a set put in a sequence. *)

LEMMA RemoveFacts ==
    ASSUME NEW S, NEW s \in Seq(S), NEW i \in DOMAIN s
    PROVE  /\ RemoveAt(s, i) \in Seq(S)
           /\ DOMAIN RemoveAt(s, i) = 1..(Len(s) - 1)
           /\ \A k \in 1..(Len(s) - 1) : RemoveAt(s, i)[k] = IF k < i THEN s[k] ELSE s[k + 1]
<1> DEFINE front == SubSeq(s, 1, i - 1)
           back  == SubSeq(s, i + 1, Len(s))
<1>1. Len(s) \in Nat /\ i \in 1..Len(s) /\ \A k \in 1..Len(s) : s[k] \in S
  BY LenProperties, ElementOfSeq
<1>2. /\ front \in Seq(S) /\ Len(front) = i - 1
      /\ \A k \in 1..(i - 1) : front[k] = s[k]
  BY <1>1, SubSeqProperties
<1>3. /\ back \in Seq(S) /\ Len(back) = Len(s) - i
      /\ \A k \in 1..(Len(s) - i) : back[k] = s[i + k]
  <2>1. CASE i = Len(s)
    BY <1>1, <2>1, SubSeqProperties, EmptySeq
  <2>2. CASE i < Len(s)
    <3>1. PICK m \in Int : m = i + 1 /\ m <= Len(s) /\ \A j \in m..Len(s) : s[j] \in S
      BY <1>1, <2>2
    <3>2. /\ back \in Seq(S) /\ Len(back) = Len(s) - m + 1
          /\ \A k \in 1..(Len(s) - m + 1) : back[k] = s[m + k - 1]
      BY <1>1, <3>1, SubSeqProperties
    <3>3. \A k \in 1..(Len(s) - i) : k \in 1..(Len(s) - m + 1) /\ m + k - 1 = i + k
      BY <1>1, <2>2, <3>1
    <3>4. Len(back) = Len(s) - i
      BY <1>1, <3>1, <3>2
    <3> HIDE DEF back
    <3> QED
      BY <3>2, <3>3, <3>4
  <2> QED
    BY <1>1, <2>1, <2>2
<1>4. PICK t : t = front \o back
  OBVIOUS
<1>5. /\ t \in Seq(S) /\ Len(t) = Len(front) + Len(back)
      /\ \A k \in 1..(Len(front) + Len(back)) :
            t[k] = IF k <= Len(front) THEN front[k] ELSE back[k - Len(front)]
  BY <1>2, <1>3, <1>4, ConcatProperties
<1> HIDE DEF front, back
<1>6. Len(front) = i - 1 /\ Len(front) + Len(back) = Len(s) - 1
  BY <1>1, <1>2, <1>3
<1>7. \A k \in 1..(Len(s) - 1) : t[k] = IF k < i THEN s[k] ELSE s[k + 1]
  <2> TAKE k \in 1..(Len(s) - 1)
  <2>1. CASE k < i
    <3>1. k \in 1..(i - 1) /\ k <= Len(front)
      BY <1>1, <1>6, <2>1
    <3> QED
      BY <1>2, <1>5, <1>6, <2>1, <3>1
  <2>2. CASE ~(k < i)
    <3>1. /\ k - (i - 1) \in 1..(Len(s) - i) /\ i + (k - (i - 1)) = k + 1
          /\ ~ (k <= i - 1)
      BY <1>1, <2>2
    <3>2. t[k] = back[k - (i - 1)]
      BY <1>5, <1>6, <3>1
    <3> QED
      BY <1>3, <2>2, <3>1, <3>2
  <2> QED
    BY <2>1, <2>2
<1>8. DOMAIN t = 1..(Len(s) - 1)
  BY <1>5, <1>6, LenProperties
<1> QED
  BY <1>4, <1>5, <1>7, <1>8 DEF RemoveAt, front, back

LEMMA SetInSequence ==
    ASSUME NEW S, IsFiniteSet(S)
    PROVE  /\ SetToSeq(S) \in Seq(S)
           /\ \A i, j \in DOMAIN SetToSeq(S) : SetToSeq(S)[i] = SetToSeq(S)[j] => i = j
           /\ \A x \in S : \E i \in DOMAIN SetToSeq(S) : SetToSeq(S)[i] = x
<1> DEFINE n == Cardinality(S)
           f == SetToSeq(S)
<1>1. n \in Nat /\ ExistsBijection(1..n, S)
  BY FS_CardinalityType
<1>2. \E g \in [1..n -> S] : IsInjective(g)
  BY <1>1 DEF ExistsBijection, Bijection, Injection
<1>3. f \in [1..n -> S] /\ IsInjective(f)
  BY <1>2 DEF SetToSeq
<1>4. f \in Injection(1..n, S)
  BY <1>3 DEF Injection
<1>5. f \in Surjection(1..n, S)
  BY <1>1, <1>4, FS_Injection, FS_Interval
<1> QED
  BY <1>1, <1>3, <1>5, IsASeq DEF IsInjective, Surjection

-----------------------------------------------------------------------------
(* The approvals file: what its writers hold, on disk and in memory. *)

\* A content of the file, with G the requests granted so far: an id once at the most,
\* and nothing granted that no person granted.
Consented(r, G) == r.status = "granted" => r.id \in G

Sound(content, G) == /\ content \in Seq(Request)
                     /\ \A i, j \in DOMAIN content : content[i].id = content[j].id => i = j
                     /\ \A i \in DOMAIN content : Consented(content[i], G)

StoreTypes == /\ stage \in [Writers -> Stages] /\ edit \in [Writers -> Edit]
              /\ buffer \in [Writers -> Seq(Request)]
              /\ created \in Nat /\ decisions \in Nat /\ doomed \in SUBSET Nat

\* Sound is every content that may still become the file: the file, the temporary file,
\* what a writer is to write, and the request it is to save.
StoreInv == /\ StoreTypes
            /\ Sound(file, grants)
            /\ tmp = NoFile \/ Sound(tmp, grants)
            /\ \A w \in Writers : /\ Sound(buffer[w], grants)
                                  /\ edit[w].op = "put" => Consented(edit[w].request, grants)

LEMMA EmptyIsSound == ASSUME NEW G PROVE Sound(<<>>, G)
  BY EmptySeq DEF Sound

LEMMA SoundGrows ==
    ASSUME NEW c, NEW G, NEW H, G \subseteq H, Sound(c, G)
    PROVE  Sound(c, H)
  BY DEF Sound, Consented

LEMMA SavedIsSound ==
    ASSUME NEW c, NEW G, Sound(c, G), NEW r \in Request, Consented(r, G)
    PROVE  Sound(Saved(c, r), G)
<1>1. c \in Seq(Request) /\ Len(c) \in Nat /\ DOMAIN c = 1..Len(c)
      /\ \A i \in 1..Len(c) : c[i] \in Request
  BY LenProperties, ElementOfSeq DEF Sound
<1>2. CASE \E i \in DOMAIN c : c[i].id = r.id
  <2> DEFINE d == [i \in DOMAIN c |-> IF c[i].id = r.id THEN r ELSE c[i]]
  <2>1. Saved(c, r) = d
    BY <1>2 DEF Saved
  <2>2. d \in Seq(Request)
    BY <1>1, IsASeq
  <2>3. \A i \in DOMAIN d : d[i].id = c[i].id /\ Consented(d[i], G)
    BY DEF Sound
  <2>4. DOMAIN d = DOMAIN c
    OBVIOUS
  <2> HIDE DEF d
  <2>5. Sound(d, G)
    BY <2>2, <2>3, <2>4 DEF Sound
  <2> QED
    BY <2>1, <2>5
<1>3. CASE ~ \E i \in DOMAIN c : c[i].id = r.id
  <2> DEFINE d == Append(c, r)
  <2>1. Saved(c, r) = d
    BY <1>3 DEF Saved
  <2>2. /\ d \in Seq(Request) /\ Len(d) = Len(c) + 1
        /\ \A i \in 1..Len(c) : d[i] = c[i]
        /\ d[Len(c) + 1] = r
    BY <1>1, AppendProperties
  <2> HIDE DEF d
  <2>3. DOMAIN d = 1..(Len(c) + 1)
    BY <2>2, LenProperties
  <2>4. \A i \in DOMAIN d : i = Len(c) + 1 \/ i \in DOMAIN c
    BY <1>1, <2>3
  <2>5. \A i, j \in DOMAIN d : d[i].id = d[j].id => i = j
    BY <1>1, <1>3, <2>2, <2>4 DEF Sound
  <2>6. \A i \in DOMAIN d : Consented(d[i], G)
    BY <1>1, <2>2, <2>4 DEF Sound
  <2> QED
    BY <2>1, <2>2, <2>5, <2>6 DEF Sound
<1> QED
  BY <1>2, <1>3

LEMMA WithoutIsSound == ASSUME NEW c, NEW G, Sound(c, G), NEW id PROVE Sound(Without(c, id), G)
<1>1. CASE ~ \E i \in DOMAIN c : c[i].id = id
  BY <1>1 DEF Without
<1>2. CASE \E i \in DOMAIN c : c[i].id = id
  <2>1. PICK k : k = CHOOSE i \in DOMAIN c : c[i].id = id
    OBVIOUS
  <2>2. k \in DOMAIN c /\ Without(c, id) = RemoveAt(c, k)
    BY <1>2, <2>1 DEF Without
  <2>3. c \in Seq(Request) /\ Len(c) \in Nat /\ DOMAIN c = 1..Len(c)
    BY LenProperties DEF Sound
  <2>4. PICK d : d = RemoveAt(c, k)
    OBVIOUS
  <2>5. /\ d \in Seq(Request) /\ DOMAIN d = 1..(Len(c) - 1)
        /\ \A i \in DOMAIN d : d[i] = IF i < k THEN c[i] ELSE c[i + 1]
    BY <2>2, <2>3, <2>4, RemoveFacts
  <2>6. \A i, j \in DOMAIN d : d[i].id = d[j].id => i = j
    <3> SUFFICES ASSUME NEW i \in DOMAIN d, NEW j \in DOMAIN d, d[i].id = d[j].id PROVE i = j
      OBVIOUS
    <3>1. PICK m \in DOMAIN c : d[i] = c[m] /\ m = IF i < k THEN i ELSE i + 1
      BY <2>2, <2>3, <2>5
    <3>2. PICK n \in DOMAIN c : d[j] = c[n] /\ n = IF j < k THEN j ELSE j + 1
      BY <2>2, <2>3, <2>5
    <3>3. m = n
      BY <3>1, <3>2 DEF Sound
    <3> QED
      BY <2>2, <2>3, <2>5, <3>1, <3>2, <3>3
  <2>7. \A i \in DOMAIN d : Consented(d[i], G)
    <3> TAKE i \in DOMAIN d
    <3>1. PICK m \in DOMAIN c : d[i] = c[m]
      BY <2>2, <2>3, <2>5
    <3> QED
      BY <3>1 DEF Sound
  <2> QED
    BY <2>2, <2>4, <2>5, <2>6, <2>7 DEF Sound
<1> QED
  BY <1>1, <1>2

LEMMA AppliedIsSound ==
    ASSUME NEW c, NEW G, Sound(c, G), NEW e \in Edit, e.op = "put" => Consented(e.request, G)
    PROVE  Sound(Applied(c, e), G)
<1>1. CASE e.op = "put"
  <2>1. e.request \in Request
    BY <1>1 DEF Edit, NoEdit
  <2> QED
    BY <1>1, <2>1, SavedIsSound DEF Applied
<1>2. CASE e.op # "put"
  BY <1>2, WithoutIsSound DEF Applied
<1> QED
  BY <1>1, <1>2

LEMMA StoreInitially == Init => StoreInv
<1> SUFFICES ASSUME Init PROVE StoreInv
  OBVIOUS
<1>1. /\ file = <<>> /\ tmp = NoFile /\ buffer = [w \in Writers |-> <<>>]
      /\ edit = [w \in Writers |-> NoEdit] /\ stage = [w \in Writers |-> "idle"]
      /\ created = 0 /\ decisions = 0 /\ doomed = {}
  BY DEF Init, StoreInit
<1>2. StoreTypes
  BY <1>1, EmptySeq DEF StoreTypes, Stages, Edit
<1>3. NoEdit.op # "put"
  BY DEF NoEdit
<1> QED
  BY <1>1, <1>2, <1>3, EmptyIsSound DEF StoreInv

LEMMA StoreKept == StoreInv /\ UNCHANGED <<storeVars, doomed>> => StoreInv'
  BY DEF storeVars, disk, saves, StoreInv, StoreTypes

\* A read takes the whole file and applies the one change to it.
LEMMA ReadKeeps ==
    ASSUME StoreInv, NEW w \in Writers, ReadFile(w), UNCHANGED doomed
    PROVE  StoreInv'
<1>1. PICK c : c = Applied(file, edit[w])
  OBVIOUS
<1>2. /\ buffer' = [buffer EXCEPT ![w] = c] /\ edit' = [edit EXCEPT ![w] = NoEdit]
      /\ stage' = [stage EXCEPT ![w] = "open"]
      /\ UNCHANGED <<file, tmp, grants, created, decisions, doomed>>
  BY <1>1 DEF ReadFile, disk
<1>3. Sound(c, grants)
  BY <1>1, AppliedIsSound DEF StoreInv, StoreTypes
<1>4. NoEdit \in Edit /\ NoEdit.op # "put"
  BY DEF Edit, NoEdit
<1>5. StoreTypes'
  BY <1>2, <1>3, <1>4 DEF StoreInv, StoreTypes, Stages, Sound
<1>6. \A v \in Writers : /\ Sound(buffer'[v], grants)
                         /\ edit'[v].op = "put" => Consented(edit'[v].request, grants)
  BY <1>2, <1>3, <1>4 DEF StoreInv, StoreTypes
<1> QED
  BY <1>2, <1>5, <1>6 DEF StoreInv

LEMMA OpenTmpKeeps ==
    ASSUME StoreInv, NEW w \in Writers, OpenTmp(w), UNCHANGED doomed
    PROVE  StoreInv'
<1>1. /\ tmp' = <<>> /\ stage' = [stage EXCEPT ![w] = "fill"]
      /\ UNCHANGED <<file, grants, edit, buffer, created, decisions, doomed>>
  BY DEF OpenTmp
<1> QED
  BY <1>1, EmptyIsSound DEF StoreInv, StoreTypes, Stages

\* Wherever the handle points by now, what is written there is the buffer or nothing.
LEMMA FillKeeps ==
    ASSUME StoreInv, NEW w \in Writers, FillTmp(w), UNCHANGED doomed
    PROVE  StoreInv'
<1>1. /\ buffer' = [buffer EXCEPT ![w] = <<>>] /\ stage' = [stage EXCEPT ![w] = "replace"]
      /\ UNCHANGED <<edit, grants, created, decisions, doomed>>
  BY DEF FillTmp
<1>2. \A c, d : d \in Filled(w, c) => Sound(d, grants)
  BY EmptyIsSound DEF Filled, StoreInv
<1>3. Sound(file', grants) /\ (tmp' = NoFile \/ Sound(tmp', grants))
  BY <1>2 DEF FillTmp, StoreInv
<1>4. StoreTypes'
  BY <1>1, EmptySeq DEF StoreInv, StoreTypes, Stages
<1>5. \A v \in Writers : Sound(buffer'[v], grants)
  BY <1>1, EmptyIsSound DEF StoreInv, StoreTypes
<1> QED
  BY <1>1, <1>3, <1>4, <1>5 DEF StoreInv

LEMMA ReplaceKeeps ==
    ASSUME StoreInv, NEW w \in Writers, ReplaceFile(w) \/ ReplaceRaises(w), UNCHANGED doomed
    PROVE  StoreInv'
<1>1. /\ stage' = [stage EXCEPT ![w] = "idle"]
      /\ UNCHANGED <<edit, buffer, grants, created, decisions, doomed>>
  BY DEF ReplaceFile, ReplaceRaises
<1>2. Sound(file', grants) /\ (tmp' = NoFile \/ Sound(tmp', grants))
  BY DEF ReplaceFile, ReplaceRaises, disk, StoreInv
<1> QED
  BY <1>1, <1>2 DEF StoreInv, StoreTypes, Stages

\* The decision is a grant before anything of it is saved.
LEMMA DecideKeeps ==
    ASSUME StoreInv, NEW a \in Approvers, NEW outcome \in {"granted", "rejected"},
           Decide(a, outcome), UNCHANGED doomed
    PROVE  StoreInv'
<1>1. PICK i \in DOMAIN file :
         /\ BeginEdit(a, Put(Decided(file[i], outcome)))
         /\ grants' = IF outcome = "granted" THEN grants \cup {file[i].id} ELSE grants
  BY DEF Decide
<1>2. PICK r : r = Decided(file[i], outcome)
  OBVIOUS
<1>3. a \in Writers
  BY DEF Writers
<1>4. /\ edit' = [edit EXCEPT ![a] = Put(r)] /\ stage' = [stage EXCEPT ![a] = "read"]
      /\ decisions' = decisions + 1
      /\ UNCHANGED <<file, tmp, buffer, created, doomed>>
  BY <1>1, <1>2 DEF Decide, BeginEdit, disk
<1>5. file[i] \in Request
  BY LenProperties, ElementOfSeq DEF StoreInv, Sound
<1>6. r \in Request /\ r.status = outcome /\ r.id = file[i].id
  <2>1. decisions + 1 \in Nat
    BY DEF StoreInv, StoreTypes
  <2> QED
    BY <1>2, <1>5, <2>1 DEF Decided, Request, Status
<1>7. grants \subseteq grants' /\ Consented(r, grants')
  BY <1>1, <1>6 DEF Consented
<1>8. Put(r) \in Edit /\ Put(r).request = r
  BY <1>6 DEF Edit, Put
<1>9. StoreTypes'
  <2>1. decisions' \in Nat
    BY <1>4 DEF StoreInv, StoreTypes
  <2>2. edit' \in [Writers -> Edit] /\ stage' \in [Writers -> Stages]
    BY <1>4, <1>8 DEF StoreInv, StoreTypes, Stages
  <2> QED
    BY <1>4, <2>1, <2>2 DEF StoreInv, StoreTypes
<1>10. /\ Sound(file', grants') /\ (tmp' = NoFile \/ Sound(tmp', grants'))
       /\ \A v \in Writers : Sound(buffer'[v], grants')
  BY <1>4, <1>7, SoundGrows DEF StoreInv
<1>11. \A v \in Writers : edit'[v].op = "put" => Consented(edit'[v].request, grants')
  BY <1>3, <1>4, <1>7, <1>8 DEF StoreInv, StoreTypes, Consented
<1> QED
  BY <1>9, <1>10, <1>11 DEF StoreInv

\* A new request is pending.
LEMMA OpenGateKeeps == ASSUME StoreInv, NEW p \in Problems, OpenGate(p) PROVE StoreInv'
<1>1. PICK r : r = NewRequest(created + 1, p)
  OBVIOUS
<1>2. r \in Request /\ Consented(r, grants)
  BY <1>1 DEF NewRequest, Request, Status, Consented, StoreInv, StoreTypes
<1>3. Daemon \in Writers
  BY DEF Writers
<1>4. /\ edit' = [edit EXCEPT ![Daemon] = Put(r)] /\ stage' = [stage EXCEPT ![Daemon] = "read"]
      /\ created' = created + 1
      /\ UNCHANGED <<file, tmp, buffer, decisions, grants, doomed>>
  BY <1>1 DEF OpenGate, BeginEdit, disk
<1>5. Put(r) \in Edit /\ Put(r).request = r
  BY <1>2 DEF Edit, Put
<1>6. StoreTypes'
  <2>1. created' \in Nat
    BY <1>4 DEF StoreInv, StoreTypes
  <2>2. edit' \in [Writers -> Edit] /\ stage' \in [Writers -> Stages]
    BY <1>4, <1>5 DEF StoreInv, StoreTypes, Stages
  <2> QED
    BY <1>4, <2>1, <2>2 DEF StoreInv, StoreTypes
<1>7. \A v \in Writers : edit'[v].op = "put" => Consented(edit'[v].request, grants)
  BY <1>2, <1>3, <1>4, <1>5 DEF StoreInv, StoreTypes
<1> QED
  BY <1>4, <1>6, <1>7 DEF StoreInv

LEMMA ResolveKeepsStore == ASSUME StoreInv, NEW p \in Problems, Resolve(p) PROVE StoreInv'
<1>1. /\ UNCHANGED storeVars
      /\ doomed' = IF state[p] = "closed" THEN {} ELSE {file[i].id : i \in Gating(p)}
  BY DEF Resolve
<1>2. \A i \in DOMAIN file : file[i] \in Request
  BY LenProperties, ElementOfSeq DEF StoreInv, Sound
<1>3. doomed' \in SUBSET Nat
  BY <1>1, <1>2 DEF Gating, Request
<1> QED
  BY <1>1, <1>3 DEF StoreInv, StoreTypes, storeVars, disk, saves

LEMMA ClearOneKeeps == ASSUME StoreInv, ClearOne PROVE StoreInv'
<1>1. PICK id \in doomed : BeginEdit(Daemon, Delete(id)) /\ doomed' = doomed \ {id}
  BY DEF ClearOne
<1>2. /\ edit' = [edit EXCEPT ![Daemon] = Delete(id)] /\ stage' = [stage EXCEPT ![Daemon] = "read"]
      /\ UNCHANGED <<file, tmp, buffer, created, decisions, grants>>
  BY <1>1 DEF ClearOne, BeginEdit, disk
<1>3. Delete(id) \in Edit /\ Delete(id).op # "put"
  BY DEF StoreInv, StoreTypes, Edit, Delete
<1>4. StoreTypes'
  BY <1>1, <1>2, <1>3 DEF StoreInv, StoreTypes, Stages
<1>5. \A v \in Writers : edit'[v].op = "put" => Consented(edit'[v].request, grants)
  BY <1>2, <1>3 DEF StoreInv, StoreTypes
<1> QED
  BY <1>2, <1>4, <1>5 DEF StoreInv

\* What the dead worker was to write is gone; what it had written stays.
LEMMA CrashKeepsStore == ASSUME StoreInv, Crash PROVE StoreInv'
<1>1. /\ stage' = [stage EXCEPT ![Daemon] = "idle"] /\ edit' = [edit EXCEPT ![Daemon] = NoEdit]
      /\ buffer' = [buffer EXCEPT ![Daemon] = <<>>] /\ doomed' = {}
      /\ UNCHANGED <<file, tmp, created, decisions, grants>>
  BY DEF Crash
<1>2. NoEdit \in Edit /\ NoEdit.op # "put"
  BY DEF Edit, NoEdit
<1>3. StoreTypes'
  BY <1>1, <1>2, EmptySeq DEF StoreInv, StoreTypes, Stages
<1>4. \A v \in Writers : /\ Sound(buffer'[v], grants)
                         /\ edit'[v].op = "put" => Consented(edit'[v].request, grants)
  BY <1>1, <1>2, EmptyIsSound DEF StoreInv, StoreTypes
<1> QED
  BY <1>1, <1>3, <1>4 DEF StoreInv

LEMMA AdvanceKeepsStore == ASSUME StoreInv, NEW p \in Problems, Advance(p) PROVE StoreInv'
<1>1. CASE OpenFreely(p) \/ OpenGranted(p) \/ Wait(p) \/ StayEscalated(p)
           \/ Escalate(p)
  BY <1>1, StoreKept
     DEF OpenFreely, OpenGranted, OpenMission, Wait, StayEscalated, Escalate, RaiseTier
<1>2. CASE OpenRaises(p) \/ EscalationRaises(p)
  <2>1. UNCHANGED storeVars /\ doomed' = {}
    BY <1>2 DEF OpenRaises, EscalationRaises, MissionRaises, PassEnds
  <2> QED
    BY <2>1 DEF storeVars, disk, saves, StoreInv, StoreTypes
<1> QED
  BY <1>1, <1>2, ResolveKeepsStore, OpenGateKeeps DEF Advance

LEMMA StoreStep == StoreInv /\ [Next]_vars => StoreInv'
<1> SUFFICES ASSUME StoreInv, [Next]_vars PROVE StoreInv'
  OBVIOUS
<1>1. CASE \/ UNCHANGED vars
           \/ \E p \in Problems, e \in Evidence : EvidenceChanges(p, e)
           \/ \E p \in Problems : GraceElapses(p)
  BY <1>1, StoreKept DEF vars, EvidenceChanges, GraceElapses, pass
<1>2. CASE Observe \/ Drain \/ Reconcile \/ Ignore \/ Deactivate \/ TickDone \/ CutSnapshot
           \/ WriteSnapshot \/ Recover
  BY <1>2, StoreKept
     DEF Observe, Drain, Reconcile, Ignore, Deactivate, TickDone, CutSnapshot, WriteSnapshot,
         Recover
<1>3. CASE Save
  BY <1>3, ReadKeeps, OpenTmpKeeps, FillKeeps, ReplaceKeeps DEF Save, Prepare, pass, Writers
<1>4. CASE SaveRaises
  <2>1. /\ stage' = [stage EXCEPT ![Daemon] = "idle"] /\ doomed' = {}
        /\ UNCHANGED <<file, tmp, edit, buffer, created, decisions, grants>>
    BY <1>4 DEF SaveRaises, PassEnds, ReplaceRaises, disk
  <2> QED
    BY <2>1 DEF StoreInv, StoreTypes, Stages
<1>5. CASE Approve
  <2>1. PICK a \in Approvers : ApproverStep(a)
    BY <1>5 DEF Approve
  <2>2. a \in Writers /\ UNCHANGED doomed
    BY <1>5 DEF Approve, pass, Writers
  <2> QED
    BY <2>1, <2>2, DecideKeeps, ReadKeeps, OpenTmpKeeps, FillKeeps, ReplaceKeeps
       DEF ApproverStep, Prepare
<1> QED
  BY <1>1, <1>2, <1>3, <1>4, <1>5, AdvanceKeepsStore, ClearOneKeeps, CrashKeepsStore
     DEF Next, DaemonStep
-----------------------------------------------------------------------------
(* A mission behind a gate. *)

LEMMA LeastExists ==
    ASSUME NEW S \in SUBSET Nat, S # {}
    PROVE  \E i \in S : \A j \in S : i <= j
<1>1. PICK R : R = OpToRel(<, Nat)
  OBVIOUS
<1>2. IsWellFoundedOn(R, Nat)
  BY <1>1, NatLessThanWellFounded
<1>3. \A m, n \in Nat : m < n => <<m, n>> \in R
  BY <1>1 DEF OpToRel
<1>4. PICK i \in S : \A j \in S : <<j, i>> \notin R
  BY <1>2, WFMin, Zenon
<1>5. \A j \in S : ~ (j < i)
  BY <1>3, <1>4
<1> QED
  BY <1>5

\* What for_target finds is a request of the target.
LEMMA ForTargetFinds ==
    ASSUME file \in Seq(Request), NEW p, Gating(p) # {}
    PROVE  \E i \in DOMAIN file : ForTarget(p) = file[i] /\ file[i].target = p
<1>1. Gating(p) \in SUBSET Nat
  BY LenProperties DEF Gating
<1>2. \E i \in Gating(p) : \A j \in Gating(p) : i <= j
  BY <1>1, LeastExists
<1>3. PICK i : i = CHOOSE k \in Gating(p) : \A j \in Gating(p) : k <= j
  OBVIOUS
<1>4. i \in Gating(p)
  BY <1>2, <1>3
<1> QED
  BY <1>3, <1>4 DEF ForTarget, Gating

\* A gated problem gets a mission, also one that raises, behind a granted gate alone, and
\* a count taken back is no mission.
LEMMA GatedMission ==
    ASSUME CapInv, [Next]_vars, NEW p \in Consequential, missions'[p] > missions[p]
    PROVE  Gating(p) # {} /\ ForTarget(p).status = "granted"
<1>1. /\ missions \in [Problems -> Nat] /\ p \in Problems
      /\ missions[p] \in Nat /\ ~ (missions[p] > missions[p]) /\ ~ (0 > missions[p])
  BY ProblemsAssumption DEF CapInv, Counted
<1>2. missions' # missions
  BY <1>1
<1>3. ASSUME Deactivate PROVE FALSE
  <2>1. missions' = [missions EXCEPT ![closing] = 0]
    BY <1>3 DEF Deactivate
  <2>2. missions'[p] = missions[p] \/ missions'[p] = 0
    BY <1>1, <2>1
  <2> QED
    BY <1>1, <2>2
<1>4. ~UNCHANGED vars /\ ~Approve /\ ~Crash
      /\ ~ (\E q \in Problems, e \in Evidence : EvidenceChanges(q, e))
      /\ ~ (\E q \in Problems : GraceElapses(q))
  BY <1>2 DEF vars, Approve, Crash, EvidenceChanges, GraceElapses, past
<1>5. ~ (Observe \/ Drain \/ Reconcile \/ Ignore \/ ClearOne \/ Save \/ SaveRaises \/ TickDone
         \/ CutSnapshot \/ WriteSnapshot \/ Recover)
  BY <1>2 DEF Observe, Drain, Reconcile, Ignore, ClearOne, Save, SaveRaises, TickDone,
              CutSnapshot, WriteSnapshot, Recover, past
<1>6. PICK q \in Problems : Advance(q)
  BY <1>3, <1>4, <1>5 DEF Next, DaemonStep
<1>7. OpenFreely(q) \/ OpenGranted(q) \/ OpenRaises(q)
  BY <1>2, <1>6
     DEF Advance, Resolve, OpenGate, Wait, Escalate, RaiseTier, StayEscalated,
         EscalationRaises, past
<1>8. missions' = [missions EXCEPT ![q] = missions[q] + 1]
  BY <1>2, <1>7 DEF OpenFreely, OpenGranted, OpenMission, OpenRaises, MissionRaises, past
<1>9. q = p
  BY <1>1, <1>8
<1> QED
  BY <1>7, <1>9 DEF OpenFreely, OpenGranted, OpenRaises

\* A consequential remediation runs only on a request that a person granted, however
\* the writers of the file overwrite each other, and whatever a crash leaves half
\* written (lifecycle_host.py: build_approval_gate).
THEOREM GatedRunsOnGrant == Spec => OnlyOnGrant
<1>1. ASSUME CapInv, StoreInv, [Next]_vars, NEW p \in Consequential, missions'[p] > missions[p]
      PROVE  \E i \in DOMAIN file : file[i].target = p /\ file[i].id \in grants
  <2>1. Gating(p) # {} /\ ForTarget(p).status = "granted"
    BY <1>1, GatedMission
  <2>2. PICK i \in DOMAIN file : ForTarget(p) = file[i] /\ file[i].target = p
    BY <1>1, <2>1, ForTargetFinds DEF StoreInv, Sound
  <2> QED
    BY <1>1, <2>1, <2>2 DEF StoreInv, Sound, Consented
<1>2. CapInv /\ StoreInv /\ [Next]_vars =>
        [\A p \in Consequential : missions'[p] > missions[p] =>
           \E i \in DOMAIN file : file[i].target = p /\ file[i].id \in grants]_vars
  BY <1>1
<1> QED
  BY <1>2, CapInit, CapStep, StoreInitially, StoreStep, PTL DEF Spec, OnlyOnGrant
-----------------------------------------------------------------------------
(* The states of the problems and the ledger. *)

Entry == [problem : Problems, state : State \ {"none"}]

OnePerProblem == /\ \A i, j \in DOMAIN ledger : ledger[i] = ledger[j] => i = j
                 /\ \A i, j \in DOMAIN snapshot : snapshot[i].problem = snapshot[j].problem => i = j

\* The snapshot holds problems that had a state, so recovering it restores the two
\* together; what closes is still in the ledger, and a worker that recovers closes
\* nothing.
LedgerInv == /\ ledger \in Seq(Problems) /\ state \in [Problems -> State]
             /\ snapshot \in Seq(Entry)
             /\ OnePerProblem
             /\ StateFollowsLedger
             /\ closing # NoProblem => closing \in Problems /\ Active(closing)
             /\ pc = "recover" => closing = NoProblem

LEMMA LedgerInitially == Init => LedgerInv
<1> SUFFICES ASSUME Init PROVE LedgerInv
  OBVIOUS
<1>1. /\ ledger = <<>> /\ snapshot = <<>> /\ state = [p \in Problems |-> "none"]
      /\ closing = NoProblem
  BY DEF Init
<1>2. ledger \in Seq(Problems) /\ snapshot \in Seq(Entry)
  BY <1>1, EmptySeq
<1> QED
  BY <1>1, <1>2 DEF LedgerInv, OnePerProblem, StateFollowsLedger, Active, State

LEMMA LedgerKept ==
    LedgerInv /\ UNCHANGED <<ledger, state, snapshot, closing>> /\ pc' # "recover" => LedgerInv'
  BY DEF LedgerInv, OnePerProblem, StateFollowsLedger, Active

\* A problem that is active moves on to a state other than none.
LEMMA MoveKeeps ==
    ASSUME LedgerInv, NEW p \in Problems, Active(p), pc' # "recover",
           NEW s \in State \ {"none"}, state' = To(p, s),
           closing' = closing \/ closing' = p, UNCHANGED <<ledger, snapshot>>
    PROVE  LedgerInv'
<1>1. state[p] # "none" /\ state[p] \in State
  BY DEF LedgerInv, StateFollowsLedger
<1>2. state' \in [Problems -> State] /\ \A q \in Problems : state'[q] # "none" <=> state[q] # "none"
  BY <1>1 DEF To, LedgerInv, State
<1>3. StateFollowsLedger' /\ OnePerProblem'
  BY <1>2 DEF LedgerInv, StateFollowsLedger, OnePerProblem, Active
<1>4. closing' # NoProblem => closing' \in Problems /\ Active(closing)'
  BY DEF LedgerInv, Active
<1> QED
  BY <1>2, <1>3, <1>4 DEF LedgerInv

LEMMA AdvanceKeepsLedger == ASSUME LedgerInv, NEW p \in Problems, Advance(p) PROVE LedgerInv'
<1>1. PICK q \in Problems : q = p /\ Due(q) /\ Active(q)
  BY DEF Advance, Resolve, OpenFreely, OpenGranted, OpenGate, Wait, Escalate, StayEscalated,
         OpenRaises, EscalationRaises, Turn, Due
<1>2. pc' # "recover" /\ UNCHANGED snapshot
  BY <1>1 DEF Advance, Resolve, OpenFreely, OpenGranted, OpenGate, Wait, Escalate,
              StayEscalated, OpenRaises, EscalationRaises, MissionRaises, PassEnds, Turn, Due
<1>3. CASE OpenGate(p) \/ Wait(p) \/ StayEscalated(p)
  BY <1>2, <1>3, LedgerKept DEF OpenGate, Wait, StayEscalated, engine
<1>4. CASE Resolve(p)
  <2>1. state' = To(p, "closed") /\ closing' = p /\ UNCHANGED ledger
    BY <1>4 DEF Resolve
  <2> QED
    BY <1>1, <1>2, <2>1, MoveKeeps DEF State
<1>5. CASE OpenFreely(p) \/ OpenGranted(p)
  <2>1. state' = To(p, "in_progress") /\ UNCHANGED <<closing, ledger>>
    BY <1>5 DEF OpenFreely, OpenGranted, OpenMission
  <2> QED
    BY <1>1, <1>2, <2>1, MoveKeeps DEF State
<1>6. CASE Escalate(p)
  <2>1. state' = To(p, "escalated") /\ UNCHANGED <<closing, ledger>>
    BY <1>6 DEF Escalate, RaiseTier
  <2> QED
    BY <1>1, <1>2, <2>1, MoveKeeps DEF State
<1>7. CASE OpenRaises(p) \/ EscalationRaises(p)
  <2>1. UNCHANGED <<ledger, state>> /\ closing' = NoProblem
    BY <1>7 DEF OpenRaises, EscalationRaises, MissionRaises, PassEnds, engine
  <2> QED
    BY <1>2, <2>1 DEF LedgerInv, OnePerProblem, StateFollowsLedger, Active
<1> QED
  BY <1>3, <1>4, <1>5, <1>6, <1>7 DEF Advance

\* What a pass observes is put in the ledger once, and only what is not there.
LEMMA ObserveKeeps == ASSUME LedgerInv, Observe PROVE LedgerInv'
<1>1. PICK new : new = SetToSeq(New)
  OBVIOUS
<1>2. IsFiniteSet(New) /\ New \subseteq Problems
  BY ProblemsAssumption, FS_Subset DEF New
<1>3. /\ new \in Seq(New)
      /\ \A i, j \in DOMAIN new : new[i] = new[j] => i = j
      /\ \A p \in New : \E i \in DOMAIN new : new[i] = p
  BY <1>1, <1>2, SetInSequence
<1>4. /\ Len(new) \in Nat /\ DOMAIN new = 1..Len(new) /\ \A i \in 1..Len(new) : new[i] \in New
      /\ Len(ledger) \in Nat /\ DOMAIN ledger = 1..Len(ledger)
  BY <1>3, LenProperties, ElementOfSeq DEF LedgerInv
<1>5. new \in Seq(Problems)
  BY <1>2, <1>4, <1>3, SeqMonotonic
<1>6. /\ ledger' \in Seq(Problems) /\ DOMAIN ledger' = 1..(Len(ledger) + Len(new))
      /\ \A i \in 1..(Len(ledger) + Len(new)) :
            ledger'[i] = IF i <= Len(ledger) THEN ledger[i] ELSE new[i - Len(ledger)]
  <2>1. ledger' = ledger \o new
    BY <1>1 DEF Observe
  <2> QED
    BY <1>5, <2>1, ConcatProperties, LenProperties DEF LedgerInv
<1>7. \A i \in DOMAIN ledger : i \in DOMAIN ledger' /\ ledger'[i] = ledger[i]
  BY <1>4, <1>6
<1>8. \A j \in DOMAIN new : /\ Len(ledger) + j \in DOMAIN ledger'
                            /\ ledger'[Len(ledger) + j] = new[j]
  BY <1>4, <1>6
<1>9. \A i \in DOMAIN ledger' :
         \/ i \in DOMAIN ledger /\ ledger'[i] = ledger[i] /\ ledger'[i] \notin New
         \/ \E j \in DOMAIN new : i = Len(ledger) + j /\ ledger'[i] = new[j] /\ ledger'[i] \in New
  <2> TAKE i \in DOMAIN ledger'
  <2>1. CASE i <= Len(ledger)
    BY <1>4, <1>6, <2>1 DEF New, Active
  <2>2. CASE ~ (i <= Len(ledger))
    <3>1. i - Len(ledger) \in DOMAIN new /\ i = Len(ledger) + (i - Len(ledger))
      BY <1>4, <1>6, <2>2
    <3> QED
      BY <1>4, <1>6, <2>2, <3>1
  <2> QED
    BY <2>1, <2>2
<1>10. \A i, j \in DOMAIN ledger' : ledger'[i] = ledger'[j] => i = j
  BY <1>3, <1>9 DEF LedgerInv, OnePerProblem
<1>11. \A p \in Problems : Active(p)' <=> Active(p) \/ p \in New
  BY <1>3, <1>7, <1>8, <1>9 DEF Active
<1>12. \A p \in Problems : state'[p] = IF p \in New THEN "new" ELSE state[p]
  <2>1. \A p \in New : p \in Problems /\ state[p] = "none"
    BY <1>2 DEF New, LedgerInv, StateFollowsLedger
  <2>2. \A p \in New : To(p, "new")[p] = "new"
    BY <2>1 DEF To, Legal, LedgerInv
  <2> QED
    BY <2>2 DEF Observe
<1>13. state' \in [Problems -> State] /\ StateFollowsLedger'
  <2>1. state' = [p \in Problems |-> state'[p]]
    BY DEF Observe
  <2> QED
    BY <1>11, <1>12, <2>1 DEF LedgerInv, StateFollowsLedger, State
<1>14. closing' = closing /\ pc' # "recover" /\ UNCHANGED snapshot
  BY DEF Observe
<1> QED
  BY <1>6, <1>10, <1>11, <1>13, <1>14 DEF LedgerInv, OnePerProblem

\* The one entry of the problem that closes leaves the ledger, and its state goes.
LEMMA DeactivateKeepsLedger == ASSUME LedgerInv, Deactivate PROVE LedgerInv'
<1>1. /\ closing \in Problems /\ Active(closing) /\ closing' = NoProblem
      /\ state' = [state EXCEPT ![closing] = "none"] /\ UNCHANGED <<snapshot, pc>>
  BY DEF Deactivate, LedgerInv
<1>2. PICK k : k = CHOOSE i \in DOMAIN ledger : ledger[i] = closing
  OBVIOUS
<1>3. k \in DOMAIN ledger /\ ledger[k] = closing /\ ledger' = RemoveAt(ledger, k)
  BY <1>1, <1>2 DEF Active, Deactivate
<1>4. Len(ledger) \in Nat /\ DOMAIN ledger = 1..Len(ledger)
  BY LenProperties DEF LedgerInv
<1>5. /\ ledger' \in Seq(Problems) /\ DOMAIN ledger' = 1..(Len(ledger) - 1)
      /\ \A i \in DOMAIN ledger' : ledger'[i] = IF i < k THEN ledger[i] ELSE ledger[i + 1]
  BY <1>3, RemoveFacts DEF LedgerInv
<1>6. \A i \in DOMAIN ledger' :
         \E m \in DOMAIN ledger : /\ ledger'[i] = ledger[m] /\ m # k
                                  /\ m = IF i < k THEN i ELSE i + 1
  BY <1>3, <1>4, <1>5
<1>7. \A i, j \in DOMAIN ledger' : ledger'[i] = ledger'[j] => i = j
  <2> SUFFICES ASSUME NEW i \in DOMAIN ledger', NEW j \in DOMAIN ledger', ledger'[i] = ledger'[j]
               PROVE  i = j
    OBVIOUS
  <2>1. PICK m \in DOMAIN ledger : ledger'[i] = ledger[m] /\ m = IF i < k THEN i ELSE i + 1
    BY <1>6
  <2>2. PICK n \in DOMAIN ledger : ledger'[j] = ledger[n] /\ n = IF j < k THEN j ELSE j + 1
    BY <1>6
  <2>3. m = n
    BY <2>1, <2>2 DEF LedgerInv, OnePerProblem
  <2> QED
    BY <1>3, <1>4, <1>5, <2>1, <2>2, <2>3
<1>8. \A m \in DOMAIN ledger : m # k => \E i \in DOMAIN ledger' : ledger'[i] = ledger[m]
  <2> SUFFICES ASSUME NEW m \in DOMAIN ledger, m # k
               PROVE  \E i \in DOMAIN ledger' : ledger'[i] = ledger[m]
    OBVIOUS
  <2>1. CASE m < k
    <3>1. m \in DOMAIN ledger' /\ ledger'[m] = ledger[m]
      BY <1>3, <1>4, <1>5, <2>1
    <3> QED
      BY <3>1
  <2>2. CASE m > k
    <3>1. m - 1 \in DOMAIN ledger' /\ ~ (m - 1 < k) /\ m - 1 + 1 = m
      BY <1>3, <1>4, <1>5, <2>2
    <3>2. ledger'[m - 1] = ledger[m]
      BY <1>5, <3>1
    <3> QED
      BY <3>1, <3>2
  <2> QED
    BY <1>3, <1>4, <2>1, <2>2
<1>9. \A p \in Problems : Active(p)' <=> Active(p) /\ p # closing
  BY <1>3, <1>6, <1>8 DEF Active, LedgerInv, OnePerProblem
<1>10. state' \in [Problems -> State] /\ StateFollowsLedger'
  BY <1>1, <1>9 DEF LedgerInv, StateFollowsLedger, State
<1> QED
  BY <1>1, <1>5, <1>7, <1>10 DEF LedgerInv, OnePerProblem

\* What is written has an entry for every problem of the ledger, with its state.
LEMMA WriteSnapshotKeeps == ASSUME LedgerInv, WriteSnapshot PROVE LedgerInv'
<1>1. /\ snapshot' = [i \in DOMAIN ledger |-> [problem |-> ledger[i], state |-> state[ledger[i]]]]
      /\ pc' = "observe" /\ UNCHANGED <<ledger, state, closing>>
  BY DEF WriteSnapshot, engine
<1>2. Len(ledger) \in Nat /\ DOMAIN ledger = 1..Len(ledger) /\ \A i \in 1..Len(ledger) : ledger[i] \in Problems
  BY LenProperties, ElementOfSeq DEF LedgerInv
<1>3. \A i \in 1..Len(ledger) : [problem |-> ledger[i], state |-> state[ledger[i]]] \in Entry
  BY <1>2 DEF LedgerInv, StateFollowsLedger, Active, Entry
<1>4. snapshot' \in Seq(Entry)
  BY <1>1, <1>2, <1>3, IsASeq
<1>5. \A i, j \in DOMAIN snapshot' : snapshot'[i].problem = snapshot'[j].problem => i = j
  BY <1>1 DEF LedgerInv, OnePerProblem
<1> QED
  BY <1>1, <1>4, <1>5 DEF LedgerInv, OnePerProblem, StateFollowsLedger, Active

LEMMA RecoverKeeps == ASSUME LedgerInv, Recover PROVE LedgerInv'
<1>1. /\ ledger' = [i \in DOMAIN snapshot |-> snapshot[i].problem]
      /\ state' = [p \in Problems |->
                     IF Recovered(p) = {} THEN "none"
                     ELSE snapshot[CHOOSE i \in Recovered(p) : TRUE].state]
      /\ closing = NoProblem /\ closing' = closing /\ pc' = "publish" /\ UNCHANGED snapshot
  BY DEF Recover, LedgerInv
<1>2. /\ Len(snapshot) \in Nat /\ DOMAIN snapshot = 1..Len(snapshot)
      /\ \A i \in 1..Len(snapshot) : snapshot[i] \in Entry
  BY LenProperties, ElementOfSeq DEF LedgerInv
<1>3. \A i \in DOMAIN snapshot : /\ snapshot[i].problem \in Problems
                                 /\ snapshot[i].state \in State /\ snapshot[i].state # "none"
  BY <1>2 DEF Entry
<1>4. ledger' \in Seq(Problems)
  BY <1>1, <1>2, <1>3, IsASeq
<1>5. \A p \in Problems : Active(p)' <=> Recovered(p) # {}
  BY <1>1 DEF Active, Recovered
<1>6. \A p \in Problems : Recovered(p) # {} =>
         \E i \in DOMAIN snapshot : state'[p] = snapshot[i].state
  <2> SUFFICES ASSUME NEW p \in Problems, Recovered(p) # {}
               PROVE  \E i \in DOMAIN snapshot : state'[p] = snapshot[i].state
    OBVIOUS
  <2>1. PICK k : k = CHOOSE i \in Recovered(p) : TRUE
    OBVIOUS
  <2>2. k \in Recovered(p)
    BY <2>1
  <2> QED
    BY <1>1, <2>1, <2>2 DEF Recovered
<1>7. state' \in [Problems -> State] /\ StateFollowsLedger'
  <2>1. \A p \in Problems : Recovered(p) = {} => state'[p] = "none"
    BY <1>1
  <2>2. \A p \in Problems : state'[p] \in State
    BY <1>3, <1>6, <2>1 DEF State
  <2>3. state' = [p \in Problems |-> state'[p]]
    BY <1>1
  <2>4. state' \in [Problems -> State]
    BY <2>2, <2>3
  <2> QED
    BY <1>3, <1>5, <1>6, <2>1, <2>4 DEF StateFollowsLedger
<1>8. OnePerProblem'
  BY <1>1 DEF LedgerInv, OnePerProblem
<1> QED
  BY <1>1, <1>4, <1>7, <1>8 DEF LedgerInv

LEMMA CrashKeepsLedger == ASSUME LedgerInv, Crash PROVE LedgerInv'
<1>1. /\ ledger' = <<>> /\ state' = [p \in Problems |-> "none"] /\ closing' = NoProblem
      /\ UNCHANGED snapshot
  BY DEF Crash
<1>2. ledger' \in Seq(Problems)
  BY <1>1, EmptySeq
<1> QED
  BY <1>1, <1>2 DEF LedgerInv, OnePerProblem, StateFollowsLedger, Active, State

LEMMA LedgerStep == LedgerInv /\ [Next]_vars => LedgerInv'
<1> SUFFICES ASSUME LedgerInv, [Next]_vars PROVE LedgerInv'
  OBVIOUS
<1>1. CASE \/ UNCHANGED vars \/ Approve
           \/ \E p \in Problems, e \in Evidence : EvidenceChanges(p, e)
           \/ \E p \in Problems : GraceElapses(p)
           \/ ClearOne \/ Save
  <2>1. UNCHANGED <<ledger, state, snapshot, closing, pc>>
    BY <1>1 DEF vars, Approve, EvidenceChanges, GraceElapses, ClearOne, Save, engine, pass
  <2> QED
    BY <2>1 DEF LedgerInv, OnePerProblem, StateFollowsLedger, Active
<1>2. CASE Drain \/ Reconcile \/ Ignore \/ TickDone
  BY <1>2, LedgerKept DEF Drain, Reconcile, Ignore, TickDone, engine
<1>3. CASE SaveRaises
  <2>1. UNCHANGED <<ledger, state, snapshot>> /\ closing' = NoProblem
    BY <1>3 DEF SaveRaises, PassEnds, engine
  <2> QED
    BY <2>1 DEF LedgerInv, OnePerProblem, StateFollowsLedger, Active
<1>4. CASE CutSnapshot
  <2>1. snapshot' = <<>> /\ pc' = "write" /\ UNCHANGED <<ledger, state, closing>>
    BY <1>4 DEF CutSnapshot, engine
  <2>2. snapshot' \in Seq(Entry)
    BY <2>1, EmptySeq
  <2> QED
    BY <2>1, <2>2 DEF LedgerInv, OnePerProblem, StateFollowsLedger, Active
<1> QED
  BY <1>1, <1>2, <1>3, <1>4, ObserveKeeps, AdvanceKeepsLedger, DeactivateKeepsLedger,
     WriteSnapshotKeeps, RecoverKeeps, CrashKeepsLedger
     DEF Next, DaemonStep

\* A problem has a state exactly while it is in the ledger, whatever raised in between
\* and whatever a restart recovered (coordinator.py: observe, _apply, recover).
THEOREM StateIsThatOfLedger == Spec => []StateFollowsLedger
<1>1. LedgerInv => StateFollowsLedger
  BY DEF LedgerInv
<1> QED
  BY <1>1, LedgerInitially, LedgerStep, PTL DEF Spec
-----------------------------------------------------------------------------
(* Type correctness, of which the invariants above have the larger part. *)

WorldTypes == /\ evidence \in [Problems -> Evidence] /\ overdue \in [Problems -> BOOLEAN]
              /\ cleared \in [Problems -> Nat]
              /\ pc \in {"observe", "drain", "notify", "tick", "publish", "write", "recover"}

LEMMA WorldInitially == Init => WorldTypes
  BY DEF Init, WorldTypes, Evidence

LEMMA AdvanceKeepsWorld == ASSUME WorldTypes, NEW p \in Problems, Advance(p) PROVE WorldTypes'
<1>1. UNCHANGED evidence /\ (pc' = pc \/ pc' = "publish")
  BY DEF Advance, Resolve, OpenFreely, OpenGranted, OpenGate, Wait, Escalate, StayEscalated,
         OpenRaises, EscalationRaises, MissionRaises, PassEnds, Turn, Due, world
<1>2. UNCHANGED cleared
  BY DEF Advance, Resolve, OpenFreely, OpenGranted, OpenMission, OpenGate, Wait, Escalate,
         RaiseTier, StayEscalated, OpenRaises, MissionRaises, EscalationRaises, past
<1>3. overdue' = overdue \/ overdue' = [overdue EXCEPT ![p] = FALSE]
  BY DEF Advance, Resolve, OpenFreely, OpenGranted, OpenMission, OpenGate, Wait, Escalate,
         RaiseTier, StayEscalated, OpenRaises, MissionRaises, EscalationRaises, engine
<1>4. overdue' \in [Problems -> BOOLEAN]
  BY <1>3 DEF WorldTypes
<1> QED
  BY <1>1, <1>2, <1>4 DEF WorldTypes

LEMMA WorldStep == WorldTypes /\ StoreInv /\ [Next]_vars => WorldTypes'
<1> SUFFICES ASSUME WorldTypes, StoreInv, [Next]_vars PROVE WorldTypes'
  OBVIOUS
<1>1. CASE UNCHANGED vars \/ Approve \/ ClearOne \/ Save
  <2>1. UNCHANGED <<evidence, overdue, cleared, pc>>
    BY <1>1 DEF vars, Approve, ClearOne, Save, engine, pass, world, past
  <2> QED
    BY <2>1 DEF WorldTypes
<1>2. CASE Observe \/ Drain \/ Reconcile \/ Ignore \/ TickDone \/ CutSnapshot \/ WriteSnapshot
           \/ Recover \/ SaveRaises
  <2>1. UNCHANGED <<evidence, overdue, cleared>>
    BY <1>2 DEF Observe, Drain, Reconcile, Ignore, TickDone, CutSnapshot, WriteSnapshot, Recover,
                SaveRaises, engine, world, past
  <2>2. pc' = pc \/ pc' \in {"drain", "notify", "tick", "publish", "write", "observe"}
    BY <1>2 DEF Observe, Drain, Reconcile, Ignore, TickDone, CutSnapshot, WriteSnapshot, Recover,
                SaveRaises, PassEnds
  <2> QED
    BY <2>1, <2>2 DEF WorldTypes
<1>3. CASE Deactivate
  <2>1. /\ cleared' = [cleared EXCEPT ![closing] = created]
        /\ UNCHANGED <<evidence, overdue, pc>>
    BY <1>3 DEF Deactivate, world
  <2>2. cleared' \in [Problems -> Nat]
    BY <2>1 DEF WorldTypes, StoreInv, StoreTypes
  <2> QED
    BY <2>1, <2>2 DEF WorldTypes
<1>4. CASE \E p \in Problems, e \in Evidence : EvidenceChanges(p, e)
  BY <1>4 DEF EvidenceChanges, engine, pass, past, WorldTypes
<1>5. CASE \E p \in Problems : GraceElapses(p)
  <2>1. PICK p \in Problems : overdue' = [overdue EXCEPT ![p] = TRUE]
    BY <1>5 DEF GraceElapses
  <2>2. UNCHANGED <<evidence, cleared, pc>>
    BY <1>5 DEF GraceElapses, pass, world, past
  <2>3. overdue' \in [Problems -> BOOLEAN]
    BY <2>1 DEF WorldTypes
  <2> QED
    BY <2>2, <2>3 DEF WorldTypes
<1>6. CASE Crash
  <2>1. /\ overdue' = [p \in Problems |-> FALSE] /\ pc' = "recover"
        /\ UNCHANGED <<evidence, cleared>>
    BY <1>6 DEF Crash, past
  <2>2. overdue' \in [Problems -> BOOLEAN]
    BY <2>1
  <2> QED
    BY <2>1, <2>2 DEF WorldTypes
<1> QED
  BY <1>1, <1>2, <1>3, <1>4, <1>5, <1>6, AdvanceKeepsWorld DEF Next, DaemonStep

\* Every variable keeps its type: the counters by what bounds them, the file and its
\* writers' buffers by what every save keeps of it, the ledger by the snapshot's form.
THEOREM LifecycleTypes == Spec => []TypeOK
<1>1. CapInv /\ StoreInv /\ LedgerInv /\ WorldTypes => TypeOK
  BY DEF TypeOK, CapInv, Counted, StoreInv, StoreTypes, Sound, LedgerInv, WorldTypes
<1>2. Init => CapInv /\ StoreInv /\ LedgerInv /\ WorldTypes
  BY CapInit, StoreInitially, LedgerInitially, WorldInitially
<1>3. CapInv /\ StoreInv /\ LedgerInv /\ WorldTypes /\ [Next]_vars
        => (CapInv /\ StoreInv /\ LedgerInv /\ WorldTypes)'
  BY CapStep, StoreStep, LedgerStep, WorldStep
<1> QED
  BY <1>1, <1>2, <1>3, PTL DEF Spec
=============================================================================
