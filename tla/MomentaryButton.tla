--------------------------- MODULE MomentaryButton ---------------------------
(***************************************************************************)
(* MomentaryButton: one debouncer that is given one electrical sample and  *)
(* the current time per call.  The calls may be any number of milliseconds *)
(* apart, up to MaxGap, and a bouncing contact may show any level.         *)
(***************************************************************************)
EXTENDS Debouncer

VARIABLES
    now,       \* nowMs of the last call
    button,    \* the MomentaryButton object
    level,     \* history: the last sample, as a logical level
    run,       \* history: for how long the samples have had that level,
               \* counted up to DebounceTime
    held       \* history: time since the press or the reset, as a sum of gaps

vars == <<now, button, level, run, held>>

TypeOK ==
    /\ now \in Time
    /\ button \in Button
    /\ level \in BOOLEAN
    /\ run \in 0 .. DebounceTime
    /\ held \in Time

Init ==
    /\ now \in Time
    /\ button = Constructed
    /\ level = FALSE
    /\ run = 0
    /\ held = 0

UpTo(duration) == IF duration > DebounceTime THEN DebounceTime ELSE duration

(***************************************************************************)
(* What reset(), or the first update(), means for the history.             *)
(***************************************************************************)
Restarted(logicalPressed) ==
    /\ level' = logicalPressed
    /\ run' = 0
    /\ held' = 0

reset(logicalPressed, gap) ==
    /\ now' = Later(now, gap)
    /\ button' = Fresh(logicalPressed, now')
    /\ Restarted(logicalPressed)

update(logicalPressed, gap) ==
    /\ now' = Later(now, gap)
    /\ button' = Sampled(button, logicalPressed, now')
    /\ IF ~button.initialized
       THEN Restarted(logicalPressed)
       ELSE /\ level' = logicalPressed
            /\ run' = IF logicalPressed # level THEN 0 ELSE UpTo(run + gap)
            /\ held' = IF button'.justPressed THEN 0 ELSE Later(held, gap)

Next == \E logicalPressed \in BOOLEAN, gap \in 0 .. MaxGap :
            reset(logicalPressed, gap) \/ update(logicalPressed, gap)

Spec == Init /\ [][Next]_vars

-----------------------------------------------------------------------------
(***************************************************************************)
(* A change is accepted by the first call at which the samples have had    *)
(* the new level for the debounce time, and by no earlier one, whatever    *)
(* the gaps between the calls and wherever the clock wraps around.         *)
(***************************************************************************)
Debounced ==
    button.initialized =>
        /\ (button.justPressed \/ button.justReleased) => run = DebounceTime
        /\ button.pressed # level => run < DebounceTime

(***************************************************************************)
(* The durations reported are the time that has really passed since the    *)
(* press was accepted, up to whole periods of the clock.                   *)
(***************************************************************************)
DurationsAreElapsed ==
    button.initialized =>
        /\ button.heldForMs = IF button.pressed THEN held ELSE 0
        /\ button.justReleased => button.lastPressDurationMs = held
=============================================================================
