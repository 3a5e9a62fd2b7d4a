---------------------------- MODULE Gates_proofs ----------------------------
(***************************************************************************)
(* What the methods of gates.go return and preserve, for every gate.       *)
(***************************************************************************)
EXTENDS Gates, TLAPS

\* NewGate makes a gate that is sound: nobody has passed it (NewGate).
LEMMA NewGateType ==
    ASSUME NEW n \in Nat
    PROVE  NewGate(n) \in Gate /\ Sound(NewGate(n)) /\ NewGate(n).canceled = FALSE
BY DEF NewGate, Gate, Sound, NoErr, CancelErrors

\* SetCount leaves a gate that no more parties have passed than it expects, although
\* it may lower the count, and it leaves the cancellation alone (SetCount).
LEMMA SetCountType ==
    ASSUME NEW g \in Gate, NEW n \in Nat
    PROVE  /\ SetCount(g, n) \in Gate
           /\ Sound(g) => Sound(SetCount(g, n))
           /\ SetCount(g, n).canceled = g.canceled
BY DEF Gate, SetCount, SetCountOK, Sound

\* Reset, before an invoke, keeps soundness and does not take a cancellation back (Reset).
LEMMA ResetType ==
    ASSUME NEW g \in Gate
    PROVE  /\ Reset(g) \in Gate
           /\ Sound(g) => Sound(Reset(g))
           /\ Reset(g).canceled = g.canceled
BY DEF Gate, Reset, Sound

\* WalkThrough refuses the one party too many (WalkThrough).
LEMMA WalkThroughType ==
    ASSUME NEW g \in Gate
    PROVE  /\ WalkThrough(g) \in Gate
           /\ Sound(g) => Sound(WalkThrough(g))
           /\ WalkThrough(g).canceled = g.canceled
BY DEF Gate, WalkThrough, WalkOK, Sound

\* CancelWithError cancels and leaves the counts alone (CancelWithError).
LEMMA CancelType ==
    ASSUME NEW g \in Gate, NEW e \in CancelErrors
    PROVE  /\ CancelWithError(g, e) \in Gate
           /\ Sound(g) => Sound(CancelWithError(g, e))
           /\ CancelWithError(g, e).canceled = TRUE
BY DEF Gate, CancelWithError, Sound

\* Clear takes the cancellation back and keeps soundness (Clear).
LEMMA ClearType ==
    ASSUME NEW g \in Gate
    PROVE  /\ Clear(g) \in Gate
           /\ Sound(Clear(g))
           /\ Clear(g).canceled = FALSE
<1>1. Clear(g) \in Gate
  BY DEF Gate, Clear, CancelErrors
<1>2. Sound(Clear(g)) /\ Clear(g).canceled = FALSE
  BY DEF Gate, Clear, Sound
<1> QED
  BY <1>1, <1>2

\* A canceled wait fails with the error of the cancellation or, when that was nil, with
\* ErrGateCanceled (AwaitGateCondition).
LEMMA AwaitErrorType ==
    ASSUME NEW g \in Gate
    PROVE  AwaitError(g) \in {"reset", "exit", "ErrGateCanceled"}
BY DEF Gate, AwaitError, NoErr, CancelErrors
=============================================================================
