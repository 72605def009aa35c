--------------------------------- MODULE Knob ---------------------------------
(***************************************************************************)
(* A rotary encoder, decoded by RotaryEncoder, that drives an              *)
(* EncoderValue.  The shaft turns in quarter steps, one Gray code          *)
(* transition each; the program samples the two contacts and may miss      *)
(* states, up to MaxMissed between two samples.  The application passes    *)
(* each delta on to applyDetents(), and calls that with counts of its own. *)
(***************************************************************************)
EXTENDS Integers, Sequences

CONSTANTS
    TransitionsPerDetent,  \* config_.transitionsPerDetent, 0 counting as 1
    Minimum, Maximum,      \* of the EncoderValue, in this order
    Step,                  \* config_.step, 0 counting as 1
    MaxTurn,               \* bound: quarter steps from the position at reset()
    MaxMissed,             \* bound: states missed between two samples
    MaxInvalid,            \* bound: invalid transitions counted
    Detents                \* bound: what the application passes to applyDetents()

(***************************************************************************)
(* More than 127 transitions would turn negative in the int8_t, and bounds *)
(* that are further apart make delta overflow its int32_t.  More than one  *)
(* missed state looks like a turn the other way, or like none.             *)
(***************************************************************************)
KnobAssumption ==
    /\ TransitionsPerDetent \in 1 .. 127
    /\ Minimum \in Int /\ Maximum \in Int
    /\ Minimum <= Maximum /\ Maximum - Minimum <= 2147483647
    /\ Step \in Int \ {0}
    /\ MaxTurn \in Nat /\ MaxInvalid \in Nat /\ MaxMissed \in 0 .. 1
    /\ Detents \subseteq Int

VARIABLES
    encoder,    \* the RotaryEncoder object
    inverted,   \* config_.inverted
    shaft,      \* where the shaft is, in quarter steps
    start,      \* history: shaft at the last reset(), or first update()
    knob,       \* the EncoderValue object
    mode,       \* config_.boundaryMode
    total       \* history: all that was asked of the value since its reset(), or
                \* since it was last clamped, counted from Minimum; modulo the
                \* span if it wraps

knobVars == <<encoder, inverted, shaft, start, knob, mode, total>>

Encoder == [initialized : BOOLEAN, previousState : 0 .. 3,
            accumulator : -127 .. 127, position : Int, delta : -1 .. 1,
            invalidTransitionCount : 0 .. MaxInvalid]
Value == [value : Minimum .. Maximum, delta : Int,
          wrapped : BOOLEAN, clamped : BOOLEAN]

Span == Maximum - Minimum + 1

KnobTypeOK ==
    /\ encoder \in Encoder
    /\ inverted \in BOOLEAN
    /\ shaft \in Int /\ start \in Int
    /\ knob \in Value
    /\ mode \in {"Clamp", "Wrap"}
    /\ total \in Int

-----------------------------------------------------------------------------
(***************************************************************************)
(* The contacts at a position of the shaft: 2 for A and 1 for B.           *)
(***************************************************************************)
Levels(at) == <<0, 2, 3, 1>>[(at % 4) + 1]

T == <<0, -1, 1, 0,  1, 0, 0, -1,  -1, 0, 0, 1,  0, 1, -1, 0>>

Transition(from, to) == T[4 * from + to + 1]
TwoBitJump(from, to) == from # to /\ from + to = 3

Reset(levels, position) ==
    [initialized |-> TRUE, previousState |-> levels, accumulator |-> 0,
     position |-> position, delta |-> 0, invalidTransitionCount |-> 0]

\* Faulty: an invalid transition is not remembered as the previous state.
DecodedFromOldState(e, levels) ==
    IF TwoBitJump(e.previousState, levels)
    THEN [e EXCEPT !.invalidTransitionCount = @ + 1, !.accumulator = 0]
    ELSE [e EXCEPT !.accumulator = @ + Transition(e.previousState, levels),
                   !.previousState = levels]
Decoded(e, levels) ==
    IF TwoBitJump(e.previousState, levels)
    THEN [e EXCEPT !.invalidTransitionCount = @ + 1, !.accumulator = 0,
                   !.previousState = levels]
    ELSE [e EXCEPT !.accumulator = @ + Transition(e.previousState, levels),
                   !.previousState = levels]

Direction(e) == IF (e.accumulator > 0) # inverted THEN 1 ELSE -1

Detent(e) ==
    IF e.accumulator >= TransitionsPerDetent \/ e.accumulator <= -TransitionsPerDetent
    THEN [e EXCEPT !.delta = Direction(e), !.position = @ + Direction(e), !.accumulator = 0]
    ELSE [e EXCEPT !.delta = 0]

-----------------------------------------------------------------------------
(***************************************************************************)
(* The remainder of C++, which has the sign of the dividend.               *)
(***************************************************************************)
Remainder(a, n) == IF a >= 0 THEN a % n ELSE -((-a) % n)

Clamped(candidate) ==
    IF candidate < Minimum THEN Minimum ELSE IF candidate > Maximum THEN Maximum ELSE candidate

Wrapped(candidate) ==
    Minimum + Remainder(Remainder(candidate - Minimum, Span) + Span, Span)

Outside(candidate) == candidate < Minimum \/ candidate > Maximum

Normalized(candidate) ==
    [value   |-> IF mode = "Clamp" THEN Clamped(candidate) ELSE Wrapped(candidate),
     delta   |-> 0,
     wrapped |-> mode = "Wrap" /\ Outside(candidate),
     clamped |-> mode = "Clamp" /\ Outside(candidate)]

Applied(detents) ==
    IF detents = 0
    THEN [knob EXCEPT !.delta = 0, !.wrapped = FALSE, !.clamped = FALSE]
    ELSE LET next == Normalized(knob.value + detents * Step)
         IN  [next EXCEPT !.delta = next.value - knob.value]

Asked(detents) ==
    total' = CASE mode = "Wrap"                     -> (total + detents * Step) % Span
               [] mode = "Clamp" /\ knob'.clamped   -> knob'.value - Minimum
               [] mode = "Clamp" /\ ~knob'.clamped  -> total + detents * Step

-----------------------------------------------------------------------------
KnobInit ==
    /\ encoder = [initialized |-> FALSE, previousState |-> 0, accumulator |-> 0,
                  position |-> 0, delta |-> 0, invalidTransitionCount |-> 0]
    /\ inverted \in BOOLEAN
    /\ shaft \in 0 .. 3 /\ start = 0
    /\ mode \in {"Clamp", "Wrap"}
    /\ knob = [Normalized(0) EXCEPT !.wrapped = FALSE, !.clamped = FALSE]
    /\ total = knob.value - Minimum

(***************************************************************************)
(* The shaft has turned by a number of quarter steps since the last        *)
(* sample; update(), and what it found is passed on.                       *)
(***************************************************************************)
update(quarters) ==
    /\ shaft' = shaft + quarters
    /\ shaft' - start \in -MaxTurn .. MaxTurn
    /\ IF encoder.initialized
       THEN /\ encoder' = Detent(Decoded(encoder, Levels(shaft')))
            /\ start' = start
       ELSE /\ encoder' = Reset(Levels(shaft'), encoder.position)
            /\ start' = shaft'
    /\ encoder'.invalidTransitionCount <= MaxInvalid
    /\ knob' = Applied(encoder'.delta)
    /\ Asked(encoder'.delta)
    /\ UNCHANGED <<inverted, mode>>

\* The shaft is numbered anew, which its period of four allows.
resetEncoder ==
    /\ shaft' = shaft % 4 /\ start' = shaft'
    /\ encoder' = Reset(Levels(shaft'), 0)
    /\ UNCHANGED <<inverted, knob, mode, total>>

applyDetents(detents) ==
    /\ knob' = Applied(detents)
    /\ Asked(detents)
    /\ UNCHANGED <<encoder, inverted, shaft, start, mode>>

resetValue(value) ==
    /\ knob' = [Normalized(value) EXCEPT !.wrapped = FALSE, !.clamped = FALSE]
    /\ total' = IF mode = "Wrap" THEN (value - Minimum) % Span ELSE knob'.value - Minimum
    /\ UNCHANGED <<encoder, inverted, shaft, start, mode>>

KnobNext ==
    \/ \E quarters \in -(MaxMissed + 1) .. MaxMissed + 1 : update(quarters)
    \/ \E detents \in Detents : applyDetents(detents)
    \/ \E value \in Minimum - 1 .. Maximum + 1 : resetValue(value)
    \/ resetEncoder

-----------------------------------------------------------------------------
(***************************************************************************)
(* "Invalid transitions are counted so that missed samples [...] remain    *)
(* observable" (rotary_encoder.hpp).  Position and accumulator account for *)
(* every quarter step the shaft has made, back and forth, except for those *)
(* that invalid transitions have cost: two missed ones and an incomplete   *)
(* detent each.  With a count of zero the position is exact.               *)
(***************************************************************************)
Counted ==
    TransitionsPerDetent * (IF inverted THEN -encoder.position ELSE encoder.position)
        + encoder.accumulator

Distance(a, b) == IF a >= b THEN a - b ELSE b - a

LossIsCounted ==
    encoder.initialized =>
        Distance(shaft - start, Counted)
            <= (TransitionsPerDetent + 1) * encoder.invalidTransitionCount

(***************************************************************************)
(* A wrapping value is at every moment the sum of all the detents it was   *)
(* given, modulo its span, whatever their sign and size.  A clamped one is *)
(* the sum since it was last clamped, and is clamped only at a bound.      *)
(***************************************************************************)
ValueIsTotal ==
    /\ knob.value = Minimum + total
    /\ knob.clamped => knob.value \in {Minimum, Maximum}
=============================================================================
