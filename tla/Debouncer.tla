------------------------------ MODULE Debouncer ------------------------------
(***************************************************************************)
(* The debouncer of MomentaryButton as a value: Fresh is reset(), Sampled  *)
(* is update(), both with the polarity of the input already applied.       *)
(* MomentaryButton is one such value and a clock; the other switches are   *)
(* built from several.                                                     *)
(*                                                                         *)
(* Time is the uint32_t millisecond counter, here modulo TimeModulus.      *)
(***************************************************************************)
EXTENDS Naturals

CONSTANTS
    TimeModulus,   \* 2^32: the width of nowMs
    DebounceTime,  \* config_.debounceTimeMs
    CountModulus,  \* 2^32: the width of transitionCount
    MaxGap         \* bound: milliseconds between two calls

(***************************************************************************)
(* A gap that comes within the debounce time of the counter's period is    *)
(* indistinguishable from a short one: 49 days without a call.             *)
(***************************************************************************)
ButtonAssumption ==
    /\ TimeModulus \in Nat \ {0}
    /\ DebounceTime \in Nat
    /\ CountModulus \in Nat \ {0}
    /\ MaxGap \in Nat
    /\ MaxGap + DebounceTime <= TimeModulus

Time == 0 .. TimeModulus - 1
Later(t, gap) == (t + gap) % TimeModulus
Elapsed(t, since) == IF t >= since THEN t - since ELSE t + TimeModulus - since

Button == [initialized : BOOLEAN, candidatePressed : BOOLEAN,
           candidateSinceMs : Time, pressedSinceMs : Time,
           pressed : BOOLEAN, justPressed : BOOLEAN, justReleased : BOOLEAN,
           heldForMs : Time, lastPressDurationMs : Time,
           transitionCount : 0 .. CountModulus - 1]

(***************************************************************************)
(* The constructor, and reset().                                           *)
(***************************************************************************)
Constructed ==
    [initialized |-> FALSE, candidatePressed |-> FALSE,
     candidateSinceMs |-> 0, pressedSinceMs |-> 0,
     pressed |-> FALSE, justPressed |-> FALSE, justReleased |-> FALSE,
     heldForMs |-> 0, lastPressDurationMs |-> 0, transitionCount |-> 0]

Fresh(logicalPressed, t) ==
    [Constructed EXCEPT !.initialized = TRUE,
                        !.candidatePressed = logicalPressed,
                        !.candidateSinceMs = t,
                        !.pressedSinceMs = t,
                        !.pressed = logicalPressed]

(***************************************************************************)
(* update(): the candidate, the stable transition, and the durations.      *)
(***************************************************************************)
Candidate(b, logicalPressed, t) ==
    [b EXCEPT !.justPressed = FALSE, !.justReleased = FALSE,
              !.candidatePressed = logicalPressed,
              !.candidateSinceMs =
                  IF logicalPressed # b.candidatePressed THEN t ELSE @]

\* Faulty: ages compared without regard to wraparound.
StableBeforeWrap(b, t) ==
    /\ b.candidatePressed # b.pressed
    /\ t >= b.candidateSinceMs + DebounceTime
TransitionIsStable(b, t) ==
    /\ b.candidatePressed # b.pressed
    /\ Elapsed(t, b.candidateSinceMs) >= DebounceTime

Count(b) == (b.transitionCount + 1) % CountModulus

PressStart(b, t) == IF b.candidatePressed THEN t ELSE b.pressedSinceMs

Accepted(b, t) ==
    [b EXCEPT !.pressed = b.candidatePressed,
              !.transitionCount = Count(b),
              !.justPressed = b.candidatePressed,
              !.justReleased = ~b.candidatePressed,
              !.pressedSinceMs = PressStart(b, t),
              !.lastPressDurationMs = IF b.candidatePressed THEN @
                                      ELSE Elapsed(t, b.pressedSinceMs)]

Held(b, t) ==
    [b EXCEPT !.heldForMs = IF b.pressed THEN Elapsed(t, b.pressedSinceMs)
                                         ELSE 0]

Sampled(b, logicalPressed, t) ==
    IF ~b.initialized
    THEN Fresh(logicalPressed, t)
    ELSE LET c == Candidate(b, logicalPressed, t) IN
         Held(IF TransitionIsStable(c, t) THEN Accepted(c, t) ELSE c, t)
=============================================================================
