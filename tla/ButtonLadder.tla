----------------------------- MODULE ButtonLadder -----------------------------
(***************************************************************************)
(* AnalogButtonLadder: several buttons on one analog input, told apart by  *)
(* the voltage each one makes, and debounced together.  Buttons are        *)
(* numbered from 0; Open, which is -1 in the code, is no button.           *)
(***************************************************************************)
EXTENDS Integers, Sequences, FiniteSets

CONSTANTS
    TimeModulus,       \* 2^32: the width of nowMs
    expectedCodes,     \* config_.expectedCodes
    openThreshold,     \* config_.openThreshold
    acceptanceWindow,  \* config_.acceptanceWindow
    stableTimeMs,      \* config_.stableTimeMs
    MaxCode,           \* the largest sample of the converter
    MaxLadderGap       \* bound: milliseconds between two calls

LadderAssumption ==
    /\ TimeModulus \in Nat \ {0} /\ stableTimeMs \in Nat /\ MaxLadderGap \in Nat
    /\ MaxCode \in Nat /\ openThreshold \in Nat /\ acceptanceWindow \in Nat
    /\ expectedCodes \in Seq(Nat)

VARIABLES
    now,      \* nowMs of the last call
    ladder,   \* the AnalogButtonLadder object
    noted,    \* history: the button an application has been told is down
    paired,   \* history: no event has contradicted an earlier one
    seen,     \* history: what the last valid sample was
    age       \* history: true time since the first of the valid samples that
              \* were the same as the last one, counted up to TimeModulus

ladderVars == <<now, ladder, noted, paired, seen, age>>

Open == -1
Button == 0 .. Len(expectedCodes) - 1
Time == 0 .. TimeModulus - 1
Later(t, gap) == (t + gap) % TimeModulus
Elapsed(t, since) == (t - since) % TimeModulus

Ladder == [initialized : BOOLEAN, candidate : Button \cup {Open},
           candidateSinceMs : Time, pressedIndex : Button \cup {Open},
           justPressedIndex : Button \cup {Open},
           justReleasedIndex : Button \cup {Open}, validSample : BOOLEAN]

LadderTypeOK ==
    /\ now \in Time
    /\ ladder \in Ladder
    /\ noted \in Button \cup {Open}
    /\ paired \in BOOLEAN
    /\ seen \in Button \cup {Open}
    /\ age \in 0 .. TimeModulus

(***************************************************************************)
(* decode(): the nearest button, the first of several as near.             *)
(***************************************************************************)
Distance(raw, b) ==
    LET expected == expectedCodes[b + 1]
    IN  IF raw > expected THEN raw - expected ELSE expected - raw

Nearest(raw) ==
    CHOOSE b \in Button :
        \A other \in Button :
            \/ Distance(raw, b) < Distance(raw, other)
            \/ Distance(raw, b) = Distance(raw, other) /\ b <= other

IsOpen(raw) == raw >= openThreshold
Accepted(raw) ==
    Button # {} /\ Distance(raw, Nearest(raw)) <= acceptanceWindow
IsValid(raw) == IsOpen(raw) \/ Accepted(raw)
Decoded(raw) == IF ~IsOpen(raw) /\ Accepted(raw) THEN Nearest(raw) ELSE Open

(***************************************************************************)
(* reset() and update().                                                   *)
(***************************************************************************)
Fresh(raw, t) ==
    [initialized |-> TRUE, candidate |-> Decoded(raw), candidateSinceMs |-> t,
     pressedIndex |-> Decoded(raw), justPressedIndex |-> Open,
     justReleasedIndex |-> Open, validSample |-> IsValid(raw)]

Quiet(raw) ==
    [ladder EXCEPT !.justPressedIndex = Open, !.justReleasedIndex = Open,
                   !.validSample = IsValid(raw)]

\* Faulty: the time is not restarted when one button is exchanged for another.
OnlyFromOrToOpen(raw) ==
    /\ Decoded(raw) # ladder.candidate
    /\ Open \in {Decoded(raw), ladder.candidate}
IsNewCandidate(raw) == Decoded(raw) # ladder.candidate

IsStable(raw, t) ==
    /\ Decoded(raw) # ladder.pressedIndex
    /\ Elapsed(t, ladder.candidateSinceMs) >= stableTimeMs

Committed(raw) ==
    [Quiet(raw) EXCEPT !.pressedIndex = Decoded(raw),
                       !.justReleasedIndex = ladder.pressedIndex,
                       !.justPressedIndex = Decoded(raw)]

Sampled(raw, t) ==
    CASE ~ladder.initialized                    -> Fresh(raw, t)
      [] ladder.initialized /\ ~IsValid(raw)    -> Quiet(raw)
      [] ladder.initialized /\ IsValid(raw) /\ IsNewCandidate(raw)
            -> [Quiet(raw) EXCEPT !.candidate = Decoded(raw), !.candidateSinceMs = t]
      [] ladder.initialized /\ IsValid(raw) /\ ~IsNewCandidate(raw) /\ IsStable(raw, t)
            -> Committed(raw)
      [] OTHER                                  -> Quiet(raw)

LadderInit ==
    /\ now \in Time
    /\ ladder = [initialized |-> FALSE, candidate |-> Open, candidateSinceMs |-> 0,
                 pressedIndex |-> Open, justPressedIndex |-> Open,
                 justReleasedIndex |-> Open, validSample |-> TRUE]
    /\ noted = Open /\ paired = TRUE
    /\ seen = Open /\ age = 0

(***************************************************************************)
(* What reset(), or the first update(), means for the history.             *)
(***************************************************************************)
Restarted(raw) ==
    /\ noted' = ladder'.pressedIndex /\ UNCHANGED paired
    /\ seen' = Decoded(raw) /\ age' = 0

reset(raw, gap) ==
    /\ now' = Later(now, gap)
    /\ ladder' = Fresh(raw, now')
    /\ Restarted(raw)

(***************************************************************************)
(* As long as a candidate waits, a valid sample comes within one period of *)
(* the clock; otherwise no difference of two times means anything.         *)
(***************************************************************************)
WithinOnePeriod(gap) ==
    ladder.candidate # ladder.pressedIndex => age + gap < TimeModulus

Aged(gap) == IF age + gap > TimeModulus THEN TimeModulus ELSE age + gap

Reported == ladder'.justPressedIndex # Open \/ ladder'.justReleasedIndex # Open

update(raw, gap) ==
    /\ WithinOnePeriod(gap)
    /\ now' = Later(now, gap)
    /\ ladder' = Sampled(raw, now')
    /\ IF ~ladder.initialized
       THEN Restarted(raw)
       ELSE /\ noted' = IF Reported THEN ladder'.justPressedIndex ELSE noted
            /\ paired' = (paired /\ (Reported => ladder'.justReleasedIndex = noted))
            /\ seen' = IF IsValid(raw) THEN Decoded(raw) ELSE seen
            /\ age' = IF IsValid(raw) /\ Decoded(raw) # seen THEN 0 ELSE Aged(gap)

LadderNext ==
    \E raw \in 0 .. MaxCode, gap \in 0 .. MaxLadderGap : reset(raw, gap) \/ update(raw, gap)

-----------------------------------------------------------------------------
(***************************************************************************)
(* However samples bounce between buttons, open and invalid voltages, and  *)
(* wherever the clock wraps around: an event is reported only after the    *)
(* valid samples have agreed for the stable time, and at the first valid   *)
(* one after it; and the events tell the truth: each button reported       *)
(* released is the one that was reported pressed, no two are down at once, *)
(* and what the events say is what pressedIndex says.                      *)
(***************************************************************************)
LadderEventsAreTrue ==
    ladder.initialized =>
        /\ noted = ladder.pressedIndex /\ paired
        /\ (ladder.justPressedIndex # Open \/ ladder.justReleasedIndex # Open)
                => age >= stableTimeMs
        /\ (ladder.validSample /\ ladder.pressedIndex # seen) => age < stableTimeMs
=============================================================================
