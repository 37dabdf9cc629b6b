--------------------------- MODULE SignalResolution ---------------------------
(***************************************************************************)
(* How the answers of a sector interview are merged into the signals of the *)
(* core interview: values form a flat lattice with NoValue at the bottom   *)
(* and Conflict at the top, every declared claim on a signal is joined, and *)
(* a value of the core always stands.                                      *)
(*                                                                         *)
(* A question of the core interview writes one signal, so a signal is      *)
(* named by its question.  Values carry no confidence here: every signal   *)
(* the interviews write is certain.                                        *)
(***************************************************************************)
EXTENDS Functions, FiniteSets

CONSTANTS Question,        \* the core interview's questions, and their signals
          SectorQuestion,  \* the questions of the sector packs
          Declares,        \* the signal a sector question declares, or NoSignal
          Value,           \* what a signal may be
          NoValue,         \* nothing is known: the key is absent, a claim is None
          NoRow,           \* the sector question has not been answered
          Conflict,        \* claims that disagree
          NoSignal         \* the pack declares no signal for the question

ASSUME LatticeAssumption == NoValue \notin Value /\ Conflict \notin Value /\ NoValue # Conflict
ASSUME NoRowAssumption == NoRow \notin Value
ASSUME DeclaresAssumption == /\ IsFiniteSet(SectorQuestion)
                             /\ NoSignal \notin Question
                             /\ Declares \in [SectorQuestion -> Question \cup {NoSignal}]

Signals == [Question -> Value \cup {NoValue}]
Answers == [SectorQuestion -> Value \cup {NoValue, NoRow}]
Lattice == Value \cup {NoValue, Conflict}

NoSignals == [q \in Question |-> NoValue]
NoAnswers == [q \in SectorQuestion |-> NoRow]

Join(left, right) == IF left = NoValue THEN right
                     ELSE IF right \in {left, NoValue} THEN left
                     ELSE Conflict

\* The answers that declare a signal s: one that carries no value is no claim.
Claims(answers, s) == {q \in SectorQuestion : Declares[q] = s /\ answers[q] \in Value}

HasClaims(answers) == \E s \in Question : Claims(answers, s) # {}

Joined(answers, s) == FoldFunctionOnSet(Join, NoValue, answers, Claims(answers, s))

\* [mutant] what the claims agree on replaces what the core said
Filled_CoreYields(core, joined) == IF joined \notin {NoValue, Conflict} THEN joined ELSE core

\* [mutant] a disagreement is a value like any other
Filled_Conflict(core, joined) == IF core # NoValue THEN core ELSE joined

\* The core stands; what it left open is filled by what every claim agrees on.
Filled(core, joined) == IF core # NoValue THEN core
                        ELSE IF joined = Conflict THEN NoValue ELSE joined

Resolve(core, answers) == [s \in Question |-> Filled(core[s], Joined(answers, s))]

\* ResolvedSignal.is_conflict.
Conflicts(core, answers) ==
    {s \in Question : /\ Claims(answers, s) # {}
                      /\ Joined(answers, s) = Conflict \/ core[s] \notin {NoValue, Joined(answers, s)}}
=============================================================================
