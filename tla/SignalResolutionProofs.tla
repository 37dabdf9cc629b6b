------------------------- MODULE SignalResolutionProofs -------------------------
(***************************************************************************)
(* The lattice that claims are joined in, for every set of values, and what *)
(* folding any finite set of claims with Join computes: the value they all  *)
(* agree on, or a conflict, in whatever order the claims are taken.         *)
(*                                                                         *)
(* A fold is a recursive function on the subsets of what is folded.  The    *)
(* value agreed on satisfies its equation, and two functions that do are    *)
(* the same: of the sets they differ on none could be the smallest.         *)
(***************************************************************************)
EXTENDS SignalResolution, FiniteSetTheorems, WellFoundedInduction, TLAPS

\* Claims may be joined in any order (resolution.py:159-161, "Commutative, associative,
\* idempotent").
THEOREM JoinIsASemilattice ==
    ASSUME NEW x \in Lattice, NEW y \in Lattice, NEW z \in Lattice
    PROVE  /\ Join(x, y) \in Lattice
           /\ Join(x, x) = x
           /\ Join(x, y) = Join(y, x)
           /\ Join(x, Join(y, z)) = Join(Join(x, y), z)
<1>1. NoValue # Conflict
  BY LatticeAssumption
<1>2. Join(x, y) \in Lattice /\ Join(x, x) = x /\ Join(x, y) = Join(y, x)
  BY DEF Join, Lattice
<1>3. Join(x, Join(y, z)) = Join(Join(x, y), z)
  BY <1>1 DEF Join
<1> QED
  BY <1>2, <1>3

\* NoValue says nothing, and nothing comes back from a disagreement.
LEMMA JoinBounds ==
    ASSUME NEW x \in Lattice
    PROVE  Join(NoValue, x) = x /\ Join(x, NoValue) = x
           /\ Join(Conflict, x) = Conflict /\ Join(x, Conflict) = Conflict
  BY LatticeAssumption DEF Join, Lattice

\* A value of the core stands, whatever the sector's answers say (resolution.py:203-209),
\* and no conflict is ever written as a value.
THEOREM CoreStands ==
    ASSUME NEW core \in Signals, NEW answers, NEW s \in Question
    PROVE  /\ core[s] # NoValue => Resolve(core, answers)[s] = core[s]
           /\ Resolve(core, answers)[s] # Conflict
<1>1. core[s] \in Value \cup {NoValue}
  BY DEF Signals
<1> QED
  BY <1>1, LatticeAssumption DEF Resolve, Filled

-----------------------------------------------------------------------------
(* What a fold of claims computes. *)

\* The equation of the fold over the subsets of S.
FoldsTo(answers, S, f) ==
    f = [T \in SUBSET S |-> IF T = {} THEN NoValue
                            ELSE LET q == CHOOSE x \in T : TRUE
                                 IN  Join(answers[q], f[T \ {q}])]

Said(answers, T) == {answers[q] : q \in T}

\* What the claims of T agree on: nothing if there are none, a conflict if they differ.
Agreed(answers, T) == IF T = {} THEN NoValue
                      ELSE IF \E x \in Value : Said(answers, T) = {x}
                        THEN CHOOSE x \in Value : Said(answers, T) = {x}
                        ELSE Conflict

LEMMA AgreedOnOne ==
    ASSUME NEW answers, NEW T, NEW x \in Value, Said(answers, T) = {x}
    PROVE  Agreed(answers, T) = x /\ T # {}
<1>1. T # {}
  BY DEF Said
<1>2. \A y \in Value : Said(answers, T) = {y} => y = x
  OBVIOUS
<1>3. (CHOOSE y \in Value : Said(answers, T) = {y}) = x
  BY <1>2
<1> QED
  BY <1>1, <1>3 DEF Agreed

LEMMA AgreedOnNone ==
    ASSUME NEW answers, NEW T, T # {}, ~ \E x \in Value : Said(answers, T) = {x}
    PROVE  Agreed(answers, T) = Conflict
  BY DEF Agreed

LEMMA AgreedStep ==
    ASSUME NEW answers, NEW T, \A x \in T : answers[x] \in Value, NEW q \in T
    PROVE  Agreed(answers, T) = Join(answers[q], Agreed(answers, T \ {q}))
<1>1. PICK U : U = T \ {q}
  OBVIOUS
<1>2. Said(answers, T) = Said(answers, U) \cup {answers[q]}
  BY <1>1 DEF Said
<1>3. answers[q] \in Value /\ answers[q] # NoValue /\ answers[q] # Conflict
  BY LatticeAssumption
<1>4. CASE U = {}
  <2>1. Said(answers, T) = {answers[q]} /\ Agreed(answers, U) = NoValue
    BY <1>2, <1>4 DEF Said, Agreed
  <2>2. Agreed(answers, T) = answers[q]
    BY <1>3, <2>1, AgreedOnOne
  <2> QED
    BY <1>1, <1>3, <2>1, <2>2 DEF Join
<1>5. CASE U # {} /\ \E x \in Value : Said(answers, U) = {x}
  <2>1. PICK x \in Value : Said(answers, U) = {x}
    BY <1>5
  <2>2. Agreed(answers, U) = x /\ x # NoValue /\ Said(answers, T) = {x, answers[q]}
    BY <1>2, <2>1, AgreedOnOne, LatticeAssumption
  <2>3. CASE x = answers[q]
    <3>1. Agreed(answers, T) = x
      BY <2>2, <2>3, AgreedOnOne
    <3> QED
      BY <1>1, <1>3, <2>2, <2>3, <3>1 DEF Join
  <2>4. CASE x # answers[q]
    <3>1. ~ \E y \in Value : Said(answers, T) = {y}
      BY <2>2, <2>4
    <3>2. Agreed(answers, T) = Conflict
      BY <3>1, AgreedOnNone
    <3> QED
      BY <1>1, <1>3, <2>2, <2>4, <3>2 DEF Join
  <2> QED
    BY <2>3, <2>4
<1>6. CASE U # {} /\ ~ \E x \in Value : Said(answers, U) = {x}
  <2>1. Agreed(answers, U) = Conflict
    BY <1>6, AgreedOnNone
  <2>2. PICK r \in U : TRUE
    BY <1>6
  <2>3. \A y : Said(answers, T) = {y} => Said(answers, U) = {y}
    BY <1>2, <2>2 DEF Said
  <2>4. Agreed(answers, T) = Conflict
    BY <1>6, <2>3, AgreedOnNone
  <2> QED
    BY <1>1, <1>3, <2>1, <2>4, LatticeAssumption DEF Join
<1> QED
  BY <1>4, <1>5, <1>6

LEMMA AgreedFolds ==
    ASSUME NEW answers, NEW S, \A q \in S : answers[q] \in Value
    PROVE  FoldsTo(answers, S, [T \in SUBSET S |-> Agreed(answers, T)])
<1> DEFINE f == [T \in SUBSET S |-> Agreed(answers, T)]
<1>1. ASSUME NEW T \in SUBSET S, T # {}, NEW q, q = CHOOSE x \in T : TRUE
      PROVE  f[T] = Join(answers[q], f[T \ {q}])
  <2>1. q \in T /\ T \ {q} \in SUBSET S /\ \A x \in T : answers[x] \in Value
    BY <1>1
  <2>2. Agreed(answers, T) = Join(answers[q], Agreed(answers, T \ {q}))
    BY <2>1, AgreedStep
  <2> QED
    BY <2>1, <2>2
<1>2. f[{}] = NoValue
  BY DEF Agreed
<1>3. DOMAIN f = SUBSET S
  OBVIOUS
<1>4. f = [T \in SUBSET S |-> f[T]]
  OBVIOUS
<1> HIDE DEF f
<1> QED
  BY <1>1, <1>2, <1>4 DEF FoldsTo, f

LEMMA FoldIsUnique ==
    ASSUME NEW answers, NEW S, IsFiniteSet(S), NEW f, NEW g,
           FoldsTo(answers, S, f), FoldsTo(answers, S, g)
    PROVE  f[S] = g[S]
<1> DEFINE Differ == {T \in SUBSET S : f[T] # g[T]}
<1>1. SUFFICES ASSUME Differ # {} PROVE FALSE
  BY <1>1
<1>2. PICK R : R = StrictSubsetOrdering(S)
  OBVIOUS
<1>3. IsWellFoundedOn(R, SUBSET S)
  BY <1>2, FS_StrictSubsetOrderingWellFounded, FS_FiniteSubsetsOfFinite
<1>4. PICK T \in Differ : \A U \in Differ : <<U, T>> \notin R
  BY <1>1, <1>3, WFMin, Zenon
<1>5. T # {}
  BY DEF FoldsTo
<1>6. PICK q : q = CHOOSE x \in T : TRUE
  OBVIOUS
<1>7. q \in T /\ T \in SUBSET S /\ T \ {q} \in SUBSET S
  BY <1>5, <1>6
<1>8. <<T \ {q}, T>> \in R
  BY <1>2, <1>7 DEF StrictSubsetOrdering
<1>9. f[T \ {q}] = g[T \ {q}]
  BY <1>4, <1>7, <1>8
<1>10. f[T] = Join(answers[q], f[T \ {q}]) /\ g[T] = Join(answers[q], g[T \ {q}])
  BY <1>5, <1>6, <1>7 DEF FoldsTo
<1> QED
  BY <1>9, <1>10

\* However many answers declare a signal, and in whatever order their claims are joined,
\* the fold is what they agree on (resolution.py:171-190, _join over the claims).
THEOREM FoldOfClaims ==
    ASSUME NEW answers, NEW s
    PROVE  Joined(answers, s) = Agreed(answers, Claims(answers, s))
<1>1. PICK S : S = Claims(answers, s)
  OBVIOUS
<1>2. PICK f : f = CHOOSE g : FoldsTo(answers, S, g)
  OBVIOUS
<1>3. Joined(answers, s) = f[S]
  BY <1>1, <1>2 DEF Joined, FoldFunctionOnSet, MapThenFoldSet, FoldsTo
<1>4. IsFiniteSet(S) /\ \A q \in S : answers[q] \in Value
  BY <1>1, DeclaresAssumption, FS_Subset DEF Claims
<1>5. PICK g : g = [T \in SUBSET S |-> Agreed(answers, T)]
  OBVIOUS
<1>6. FoldsTo(answers, S, g)
  BY <1>4, <1>5, AgreedFolds
<1>7. FoldsTo(answers, S, f)
  BY <1>2, <1>6
<1>8. f[S] = g[S]
  BY <1>4, <1>6, <1>7, FoldIsUnique
<1> QED
  BY <1>1, <1>3, <1>5, <1>8

\* What the conclusion writes of one signal, and when it calls it a conflict.
LEMMA ResolveAdds ==
    ASSUME NEW core \in Signals, NEW answers, NEW s \in Question,
           NEW said, said = Said(answers, Claims(answers, s)),
           NEW signal, signal = Resolve(core, answers)[s]
    PROVE  /\ signal = IF core[s] # NoValue THEN core[s]
                       ELSE IF \E x \in Value : said = {x} THEN CHOOSE x \in Value : said = {x}
                       ELSE NoValue
           /\ s \in Conflicts(core, answers) <=> said \notin {{}, {signal}}
           /\ signal \in Value \cup {NoValue}
<1>1. PICK T : T = Claims(answers, s)
  OBVIOUS
<1>2. PICK joined : joined = Joined(answers, s)
  OBVIOUS
<1>3. /\ core[s] \in Value \cup {NoValue}
      /\ signal = Filled(core[s], joined)
      /\ s \in Conflicts(core, answers) <=>
           T # {} /\ (joined = Conflict \/ core[s] \notin {NoValue, joined})
  BY <1>1, <1>2 DEF Signals, Resolve, Conflicts
<1>4. joined = Agreed(answers, T) /\ said = Said(answers, T) /\ (said = {} <=> T = {})
  BY <1>1, <1>2, FoldOfClaims DEF Said
<1>5. CASE T = {}
  <2>1. joined = NoValue /\ said = {}
    BY <1>4, <1>5 DEF Agreed
  <2>2. signal = core[s]
    BY <1>3, <2>1, LatticeAssumption DEF Filled
  <2> QED
    BY <1>3, <1>5, <2>1, <2>2
<1>6. CASE \E x \in Value : said = {x}
  <2>1. PICK x \in Value : said = {x}
    BY <1>6
  <2>2. joined = x /\ T # {} /\ x # NoValue /\ x # Conflict
    BY <1>4, <2>1, AgreedOnOne, LatticeAssumption
  <2>3. (CHOOSE y \in Value : said = {y}) = x
    BY <2>1
  <2>4. signal = IF core[s] # NoValue THEN core[s] ELSE x
    BY <1>3, <2>2 DEF Filled
  <2>5. said \notin {{}, {signal}} <=> x # signal
    BY <2>1
  <2> QED
    BY <1>3, <1>6, <2>2, <2>3, <2>4, <2>5
<1>7. CASE T # {} /\ ~ \E x \in Value : said = {x}
  <2>1. joined = Conflict
    BY <1>4, <1>7, AgreedOnNone
  <2>2. signal = core[s]
    BY <1>3, <2>1 DEF Filled
  <2>3. said # {} /\ said # {signal}
    <3>1. CASE signal \in Value
      BY <1>4, <1>7, <3>1
    <3>2. CASE signal = NoValue
      <4>1. \A k \in T : answers[k] \in Value
        BY <1>1 DEF Claims
      <4>2. NoValue \notin said
        BY <1>4, <4>1, LatticeAssumption DEF Said
      <4> QED
        BY <1>4, <1>7, <3>2, <4>2
    <3> QED
      BY <1>3, <2>2, <3>1, <3>2
  <2> QED
    BY <1>3, <1>7, <2>1, <2>2, <2>3
<1> QED
  BY <1>4, <1>5, <1>6, <1>7

LEMMA ResolveTyped == ASSUME NEW core \in Signals, NEW answers PROVE Resolve(core, answers) \in Signals
<1>1. \A s \in Question : Resolve(core, answers)[s] \in Value \cup {NoValue}
  BY ResolveAdds
<1> QED
  BY <1>1 DEF Resolve, Signals
=============================================================================
