--------------------------- MODULE PressClassifier ---------------------------
(***************************************************************************)
(* PressClassifier: turns a debounced press/release stream into gestures,  *)
(* at most one per call of update() or poll().  Time is the uint32_t       *)
(* millisecond counter modulo TimeModulus.                                 *)
(***************************************************************************)
EXTENDS Integers

CONSTANTS
    TimeModulus,       \* 2^32
    LongPressMs,       \* config_.longPressMs
    DoublePressMs,     \* config_.doublePressMs
    RepeatDelayMs,     \* config_.repeatDelayMs
    RepeatIntervalMs,  \* config_.repeatIntervalMs; 0 disables auto-repeat
    MaxGap,            \* bound: milliseconds between two calls
    MaxUnreported      \* bound: clicks without a gesture, lost ones included

ClassifierAssumption ==
    /\ TimeModulus \in Nat \ {0} /\ MaxGap \in Nat /\ MaxUnreported \in Nat
    /\ LongPressMs \in Nat /\ DoublePressMs \in Nat
    /\ RepeatDelayMs \in Nat /\ RepeatIntervalMs \in Nat
    /\ MaxGap + LongPressMs <= TimeModulus

VARIABLES
    now,           \* nowMs of the last call
    pressed,       \* pressed_
    longEmitted,   \* longEmitted_
    pendingShort,  \* pendingShort_
    pressedAt,     \* pressedAt_
    releasedAt,    \* releasedAt_
    nextRepeatAt,  \* nextRepeatAt_
    event,         \* what the last call returned
    hold,          \* history: true time since the last press, counted up to
                   \* the longest delay that matters
    gap,           \* history: true time since the last click's release,
                   \* counted up to TimeModulus
    sinceLong,     \* history: true time since the last LongPress or Repeat,
                   \* counted up to RepeatIntervalMs
    between,       \* history: gap or sinceLong when the last event happened
    unreported     \* history: clicks, that is releases of presses that were
                   \* not long, for which no gesture has been returned

object == <<pressed, longEmitted, pendingShort, pressedAt, releasedAt, nextRepeatAt>>
history == <<hold, gap, sinceLong, between, unreported>>
vars == <<now, object, event, history>>

Time == 0 .. TimeModulus - 1
Later(t, duration) == (t + duration) % TimeModulus
Since(t) == (now' - t) % TimeModulus

elapsed(since, duration) == Since(since) >= duration

(***************************************************************************)
(* The sign of the int32_t difference.                                     *)
(***************************************************************************)
reached(deadline) == Since(deadline) < TimeModulus \div 2

Capped(duration, cap) == IF duration > cap THEN cap ELSE duration
HoldCap == 1 + Capped(LongPressMs + RepeatDelayMs, TimeModulus)

TypeOK ==
    /\ now \in Time
    /\ pressed \in BOOLEAN /\ longEmitted \in BOOLEAN /\ pendingShort \in BOOLEAN
    /\ pressedAt \in Time /\ releasedAt \in Time /\ nextRepeatAt \in Time
    /\ event \in {"None", "ShortPress", "DoublePress", "LongPress", "Repeat"}
    /\ hold \in 0 .. HoldCap
    /\ gap \in 0 .. TimeModulus
    /\ sinceLong \in 0 .. RepeatIntervalMs
    /\ between \in Nat
    /\ unreported \in Int

(***************************************************************************)
(* The objects a program starts with: default member initializers, or the  *)
(* state after reset().                                                    *)
(***************************************************************************)
Init ==
    /\ now \in Time
    /\ pressed = FALSE /\ longEmitted = FALSE /\ pendingShort = FALSE
    /\ pressedAt = 0 /\ releasedAt = 0 /\ nextRepeatAt = 0
    /\ event = "None"
    /\ hold = HoldCap /\ gap = TimeModulus /\ sinceLong = RepeatIntervalMs
    /\ between = 0
    /\ unreported = 0

(***************************************************************************)
(* The clock moves on, and the ages in the history with it.                *)
(***************************************************************************)
HoldNow(d) == Capped(hold + d, HoldCap)
GapNow(d) == Capped(gap + d, TimeModulus)
SinceLongNow(d) == Capped(sinceLong + d, RepeatIntervalMs)

reset(level, d) ==
    /\ now' = Later(now, d)
    /\ pressed' = level
    /\ longEmitted' = FALSE /\ pendingShort' = FALSE
    /\ pressedAt' = now' /\ releasedAt' = now'
    /\ nextRepeatAt' = Later(now', RepeatDelayMs)
    /\ event' = "None"
    /\ hold' = 0 /\ gap' = 0 /\ sinceLong' = SinceLongNow(d)
    /\ between' = 0
    /\ unreported' = 0

(***************************************************************************)
(* update() at a press.                                                    *)
(***************************************************************************)
Press(d) ==
    /\ ~pressed
    /\ pressed' = TRUE
    /\ longEmitted' = FALSE
    /\ pressedAt' = now'
    /\ nextRepeatAt' = Later(now', RepeatDelayMs)
    /\ event' = "None"
    /\ hold' = 0 /\ gap' = GapNow(d) /\ sinceLong' = SinceLongNow(d)
    /\ UNCHANGED <<pendingShort, releasedAt, between, unreported>>

(***************************************************************************)
(* update() at a release: of a long press, of the second of two clicks, or *)
(* of a click that waits for a second one.                                 *)
(***************************************************************************)
ReleaseLong(d) ==
    /\ pressed /\ longEmitted
    /\ pressed' = FALSE
    /\ event' = "None"
    /\ hold' = HoldNow(d) /\ gap' = GapNow(d) /\ sinceLong' = SinceLongNow(d)
    /\ UNCHANGED <<longEmitted, pendingShort, pressedAt, releasedAt,
                   nextRepeatAt, between, unreported>>

ReleaseSecond(d) ==
    /\ pressed /\ ~longEmitted
    /\ pendingShort /\ ~elapsed(releasedAt, DoublePressMs)
    /\ pressed' = FALSE
    /\ pendingShort' = FALSE
    /\ event' = "DoublePress"
    /\ hold' = HoldNow(d) /\ gap' = GapNow(d) /\ sinceLong' = SinceLongNow(d)
    /\ between' = gap'
    /\ unreported' = unreported - 1
    /\ UNCHANGED <<longEmitted, pressedAt, releasedAt, nextRepeatAt>>

ReleaseClick(d) ==
    /\ pressed /\ ~longEmitted
    /\ ~pendingShort \/ elapsed(releasedAt, DoublePressMs)
    /\ unreported < MaxUnreported
    /\ pressed' = FALSE
    /\ pendingShort' = TRUE
    /\ releasedAt' = now'
    /\ event' = "None"
    /\ hold' = HoldNow(d) /\ gap' = 0 /\ sinceLong' = SinceLongNow(d)
    /\ unreported' = unreported + 1
    /\ UNCHANGED <<longEmitted, pressedAt, nextRepeatAt, between>>

(***************************************************************************)
(* update() while the button stays down.                                   *)
(***************************************************************************)
LongIsDue == pressed /\ ~longEmitted /\ elapsed(pressedAt, LongPressMs)
RepeatIsDue == pressed /\ longEmitted /\ RepeatIntervalMs > 0
                 /\ reached(nextRepeatAt)

LongPress(d) ==
    /\ LongIsDue
    /\ longEmitted' = TRUE
    /\ nextRepeatAt' = Later(now', RepeatIntervalMs)
    /\ event' = "LongPress"
    /\ hold' = HoldNow(d) /\ gap' = GapNow(d) /\ sinceLong' = 0
    /\ between' = 0
    /\ UNCHANGED <<pressed, pendingShort, pressedAt, releasedAt, unreported>>

\* Faulty: the deadline is taken from the old one, so that late calls bunch.
RepeatFromDeadline(d) ==
    /\ RepeatIsDue
    /\ nextRepeatAt' = Later(nextRepeatAt, RepeatIntervalMs)
    /\ event' = "Repeat"
    /\ hold' = HoldNow(d) /\ gap' = GapNow(d) /\ sinceLong' = 0
    /\ between' = SinceLongNow(d)
    /\ UNCHANGED <<pressed, longEmitted, pendingShort, pressedAt, releasedAt,
                   unreported>>

Repeat(d) ==
    /\ RepeatIsDue
    /\ nextRepeatAt' = Later(now', RepeatIntervalMs)
    /\ event' = "Repeat"
    /\ hold' = HoldNow(d) /\ gap' = GapNow(d) /\ sinceLong' = 0
    /\ between' = SinceLongNow(d)
    /\ UNCHANGED <<pressed, longEmitted, pendingShort, pressedAt, releasedAt,
                   unreported>>

(***************************************************************************)
(* poll(), also as the end of update(): the click whose window has closed. *)
(***************************************************************************)
ShortIsDue == pendingShort /\ elapsed(releasedAt, DoublePressMs)

poll(d) ==
    /\ IF ShortIsDue
       THEN /\ event' = "ShortPress" /\ pendingShort' = FALSE
            /\ between' = GapNow(d)
            /\ unreported' = unreported - 1
       ELSE event' = "None" /\ UNCHANGED <<pendingShort, between, unreported>>
    /\ hold' = HoldNow(d) /\ gap' = GapNow(d) /\ sinceLong' = SinceLongNow(d)
    /\ UNCHANGED <<pressed, longEmitted, pressedAt, releasedAt, nextRepeatAt>>

Call(d) ==
    /\ now' = Later(now, d)
    /\ \/ Press(d)
       \/ ReleaseLong(d) \/ ReleaseSecond(d) \/ ReleaseClick(d)
       \/ LongPress(d) \/ Repeat(d)
       \/ ~LongIsDue /\ ~RepeatIsDue /\ poll(d)

(***************************************************************************)
(* poll() called by itself, whatever the button does.                      *)
(***************************************************************************)
PollOnly(d) == now' = Later(now, d) /\ poll(d)

(***************************************************************************)
(* Bound: a click is not left unpolled for a whole period of the clock, 49 *)
(* days in which every single call is a press, a release, a LongPress or a *)
(* Repeat.                                                                 *)
(***************************************************************************)
WithinOnePeriod(d) == pendingShort => gap + d < TimeModulus

Next == \E d \in 0 .. MaxGap :
            \/ WithinOnePeriod(d) /\ (Call(d) \/ PollOnly(d))
            \/ \E level \in BOOLEAN : reset(level, d)

Spec == Init /\ [][Next]_vars

-----------------------------------------------------------------------------
(***************************************************************************)
(* No gesture is invented: over any sequence of presses, releases and      *)
(* polls, each ShortPress uses up one click and each DoublePress two, and  *)
(* a press that was reported as long is not a click.                       *)
(***************************************************************************)
NothingInvented ==
    /\ unreported >= 0
    /\ pendingShort => unreported >= 1

(***************************************************************************)
(* The gestures keep their times, across wraparound and late calls: a      *)
(* LongPress is reported only after longPressMs of holding, a ShortPress   *)
(* only after doublePressMs without a second click, a DoublePress only     *)
(* within them, and two Repeats, or the LongPress and the first Repeat,    *)
(* are at least repeatIntervalMs apart.                                    *)
(***************************************************************************)
GesturesKeepTheirTimes ==
    /\ event = "LongPress" => hold >= LongPressMs
    /\ event = "ShortPress" => between >= DoublePressMs
    /\ event = "DoublePress" => between < DoublePressMs
    /\ event = "Repeat" => between = RepeatIntervalMs

(***************************************************************************)
(* "Maximum gap ... between two releases for the second to be classified   *)
(* as DoublePress rather than two separate ShortPress gestures"            *)
(* (press_classifier.hpp): every click is reported or still pending.       *)
(***************************************************************************)
EveryClickReported ==
    unreported = IF pendingShort THEN 1 ELSE 0
=============================================================================
