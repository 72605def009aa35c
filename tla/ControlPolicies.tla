--------------------------- MODULE ControlPolicies ---------------------------
(***************************************************************************)
(* The two policies between a physical control and the value it sets:      *)
(* SoftTakeover, which keeps a potentiometer from making a recalled value  *)
(* jump, and EncoderAcceleration, which multiplies detents that follow     *)
(* each other quickly.  They are independent; both are here because each   *)
(* is a few lines that decide from what they remember of earlier calls.    *)
(***************************************************************************)
EXTENDS Integers, TLAPS

CONSTANTS
    MaxPosition,                      \* 65535: of the physical control
    tolerance,                        \* tolerance_
    TimeModulus,                      \* 2^32: the width of nowMs
    fastThresholdMs, mediumThresholdMs,
    fastMultiplier, mediumMultiplier,
    DetentCounts,                     \* bound: detents of one event
    MaxPause                          \* bound: milliseconds between events

ASSUME PolicyAssumption ==
    /\ MaxPosition \in Nat /\ tolerance \in Nat
    /\ TimeModulus \in Nat \ {0} /\ MaxPause \in Nat
    /\ fastThresholdMs \in Nat /\ mediumThresholdMs \in Nat
    /\ fastMultiplier \in Int /\ mediumMultiplier \in Int
    /\ DetentCounts \subseteq Int

VARIABLES
    target, previous, active,   \* of SoftTakeover
    lowest, highest,            \* history: the positions since arm(), its own
                                \* position included
    near,                       \* history: a sample since arm() was within
                                \* the tolerance of the target
    clock,                      \* nowMs of the last event
    lastMs, initialized,        \* of EncoderAcceleration
    multiplier,                 \* the factor the last event was given
    waiting,                    \* history: time since the last event, counted
                                \* up to a whole period
    waited,                     \* history: waiting, when the last event came
    first                       \* history: it was the first since reset()

takeoverVars == <<target, previous, active, lowest, highest, near>>
speedVars == <<clock, lastMs, initialized, multiplier, waiting, waited, first>>
policyVars == <<takeoverVars, speedVars>>

Position == 0 .. MaxPosition
Time == 0 .. TimeModulus - 1

PolicyTypeOK ==
    /\ target \in Position /\ previous \in Position /\ active \in BOOLEAN
    /\ lowest \in Position /\ highest \in Position /\ near \in BOOLEAN
    /\ clock \in Time /\ lastMs \in Time
    /\ initialized \in BOOLEAN /\ first \in BOOLEAN
    /\ multiplier \in {1, fastMultiplier, mediumMultiplier}
    /\ waiting \in 0 .. TimeModulus /\ waited \in 0 .. TimeModulus

TakeoverInit ==
    /\ target = 0 /\ previous = 0 /\ active = FALSE
    /\ lowest = 0 /\ highest = 0 /\ near = FALSE

SpeedInit ==
    /\ clock \in Time
    /\ lastMs = 0 /\ initialized = FALSE
    /\ multiplier = 1 /\ waiting = 0 /\ waited = 0 /\ first = TRUE

-----------------------------------------------------------------------------
(***************************************************************************)
(* SoftTakeover.                                                           *)
(***************************************************************************)
arm(value, physical) ==
    /\ target' = value
    /\ previous' = physical
    /\ active' = FALSE
    /\ lowest' = physical /\ highest' = physical
    /\ near' = FALSE
    /\ UNCHANGED speedVars

Near(physical) ==
    IF physical > target THEN physical - target <= tolerance
                         ELSE target - physical <= tolerance

\* Faulty: only a rising control crosses.
CrossedUpwards(physical) == previous < target /\ physical >= target
Crossed(physical) == \/ previous < target /\ physical >= target
                     \/ previous > target /\ physical <= target

updatePosition(physical) ==
    /\ active' = (active \/ Near(physical) \/ Crossed(physical))
    /\ previous' = physical
    /\ lowest' = IF physical < lowest THEN physical ELSE lowest
    /\ highest' = IF physical > highest THEN physical ELSE highest
    /\ near' = (near \/ Near(physical))
    /\ UNCHANGED <<target, speedVars>>

-----------------------------------------------------------------------------
(***************************************************************************)
(* EncoderAcceleration.                                                    *)
(***************************************************************************)
Later(t, pause) == (t + pause) % TimeModulus
Since(t, s) == IF t >= s THEN t - s ELSE t + TimeModulus - s

Factor(t) ==
    IF ~initialized THEN 1
    ELSE IF Since(t, lastMs) <= fastThresholdMs THEN fastMultiplier
    ELSE IF Since(t, lastMs) <= mediumThresholdMs THEN mediumMultiplier
    ELSE 1

\* Faulty: only a quick event is remembered.
OfQuickEvents(t) == IF initialized /\ Factor(t) = 1 THEN lastMs ELSE t
Remembered(t) == t

Waited(pause) == IF waiting + pause > TimeModulus THEN TimeModulus ELSE waiting + pause

apply(detents, pause) ==
    /\ clock' = Later(clock, pause)
    /\ IF detents = 0
       THEN /\ waiting' = Waited(pause)
            /\ UNCHANGED <<lastMs, initialized, multiplier, waited, first>>
       ELSE /\ multiplier' = Factor(clock')
            /\ lastMs' = Remembered(clock')
            /\ initialized' = TRUE
            /\ waiting' = 0 /\ waited' = Waited(pause)
            /\ first' = ~initialized
    /\ UNCHANGED takeoverVars

resetSpeed ==
    /\ initialized' = FALSE
    /\ lastMs' = 0
    /\ UNCHANGED <<clock, multiplier, waiting, waited, first, takeoverVars>>

TakeoverNext == \E physical \in Position :
                    \/ updatePosition(physical)
                    \/ \E value \in Position : arm(value, physical)

SpeedNext == \/ resetSpeed
             \/ \E detents \in DetentCounts, pause \in 0 .. MaxPause : apply(detents, pause)

-----------------------------------------------------------------------------
(***************************************************************************)
(* A control owns the value exactly when, since the value was recalled, it *)
(* has come within the tolerance of it or has been on both sides of it:    *)
(* the comparison with the previous sample alone misses no crossing,       *)
(* however far apart the samples, and the position at which the value was  *)
(* recalled counts for a crossing and not for the tolerance.               *)
(***************************************************************************)
PickupIsEarned == active <=> near \/ (lowest < target /\ target < highest)

(***************************************************************************)
(* An event is multiplied by what really passed since the one before it:   *)
(* calls without detents and the wraparound of the clock change nothing,   *)
(* and only a pause of a whole period can be taken for a short one.        *)
(***************************************************************************)
SpeedIsReal ==
    /\ first => multiplier = 1
    /\ ~first /\ waited < TimeModulus =>
           multiplier = IF waited <= fastThresholdMs THEN fastMultiplier
                        ELSE IF waited <= mediumThresholdMs THEN mediumMultiplier
                        ELSE 1

-----------------------------------------------------------------------------
(***************************************************************************)
(* PickupIsEarned holds for every tolerance and every width of positions.  *)
(* As long as the control does not own the value, all positions since the  *)
(* value was recalled lie on one side of it: a sample on the value itself  *)
(* would be near, so that only the position given to arm() can be there.   *)
(***************************************************************************)
TakeoverSpec == TakeoverInit /\ [][TakeoverNext]_takeoverVars

PositionsOK ==
    /\ target \in Position /\ previous \in Position
    /\ lowest \in Position /\ highest \in Position
    /\ active \in BOOLEAN /\ near \in BOOLEAN

OnOneSide ==
    ~active => /\ previous = target => lowest = target /\ highest = target
               /\ previous < target => highest <= target
               /\ previous > target => lowest >= target

TakeoverInv ==
    /\ PositionsOK
    /\ lowest <= previous /\ previous <= highest
    /\ OnOneSide /\ PickupIsEarned

LEMMA ArmKeepsInv ==
    ASSUME NEW physical \in Position, NEW value \in Position, arm(value, physical)
    PROVE  TakeoverInv'
  <1>1. ~active' /\ ~near'
    BY DEF arm
  <1>2. active' \in BOOLEAN /\ near' \in BOOLEAN
    BY DEF arm
  <1>3. /\ target' = value /\ previous' = physical
        /\ lowest' = physical /\ highest' = physical
    BY DEF arm
  <1>4. physical \in Int /\ value \in Int
    BY DEF Position
  <1>5. /\ target' \in Position /\ previous' \in Position
        /\ lowest' \in Position /\ highest' \in Position
    BY <1>3
  <1>6. /\ previous' = target' => lowest' = target' /\ highest' = target'
        /\ previous' < target' => highest' <= target'
        /\ previous' > target' => lowest' >= target'
        /\ lowest' <= previous' /\ previous' <= highest'
        /\ ~(lowest' < target' /\ target' < highest')
    BY <1>3, <1>4
  <1>. QED
    BY <1>1, <1>2, <1>5, <1>6 DEF TakeoverInv, PositionsOK, OnOneSide, PickupIsEarned

LEMMA UpdateKeepsInv ==
    ASSUME TakeoverInv, NEW physical \in Position, updatePosition(physical)
    PROVE  TakeoverInv'
  <1>1. /\ target \in Int /\ previous \in Int /\ lowest \in Int /\ highest \in Int
        /\ physical \in Int /\ tolerance \in Nat
    BY PolicyAssumption DEF TakeoverInv, PositionsOK, Position
  <1>2. /\ target' = target /\ previous' = physical
        /\ lowest' = IF physical < lowest THEN physical ELSE lowest
        /\ highest' = IF physical > highest THEN physical ELSE highest
    BY DEF updatePosition
  <1>3. /\ active' \in BOOLEAN /\ near' \in BOOLEAN
        /\ active' <=> active \/ Near(physical) \/ Crossed(physical)
        /\ near' <=> near \/ Near(physical)
    BY DEF updatePosition
  <1>4. lowest <= previous /\ previous <= highest
    BY DEF TakeoverInv
  <1>5. /\ target' \in Position /\ previous' \in Position
        /\ lowest' \in Position /\ highest' \in Position
    BY <1>2 DEF TakeoverInv, PositionsOK
  <1>6. lowest' <= previous' /\ previous' <= highest'
    BY <1>1, <1>2
  <1>7. physical = target => Near(physical)
    BY <1>1 DEF Near
  <1>8. ASSUME ~active
        PROVE  /\ previous = target => lowest = target /\ highest = target
               /\ previous < target => highest <= target
               /\ previous > target => lowest >= target
    BY <1>8 DEF TakeoverInv, OnOneSide
  <1>9. ASSUME ~active'
        PROVE  /\ previous' = target' => lowest' = target' /\ highest' = target'
               /\ previous' < target' => highest' <= target'
               /\ previous' > target' => lowest' >= target'
    <2>1. ~active /\ ~Crossed(physical) /\ physical # target
      BY <1>3, <1>7, <1>9
    <2>. QED
      BY <1>1, <1>2, <1>4, <1>8, <2>1 DEF Crossed
  <1>10. active' <=> near' \/ (lowest' < target' /\ target' < highest')
    <2>1. CASE active
      <3>1. near \/ (lowest < target /\ target < highest)
        BY <2>1 DEF TakeoverInv, PickupIsEarned
      <3>2. lowest < target /\ target < highest => lowest' < target' /\ target' < highest'
        BY <1>1, <1>2
      <3>. QED
        BY <1>3, <2>1, <3>1, <3>2
    <2>2. CASE ~active
      <3>1. ~near
        BY <2>2 DEF TakeoverInv, PickupIsEarned
      <3>2. CASE Near(physical)
        BY <1>3, <3>2
      <3>3. CASE ~Near(physical) /\ Crossed(physical)
        <4>1. lowest' < target' /\ target' < highest'
          BY <1>1, <1>2, <1>4, <1>7, <3>3 DEF Crossed
        <4>. QED
          BY <1>3, <3>3, <4>1
      <3>4. CASE ~Near(physical) /\ ~Crossed(physical)
        <4>1. ~(lowest' < target' /\ target' < highest')
          BY <1>1, <1>2, <1>4, <1>7, <1>8, <2>2, <3>4 DEF Crossed
        <4>. QED
          BY <1>3, <2>2, <3>1, <3>4, <4>1
      <3>. QED
        BY <3>2, <3>3, <3>4
    <2>. QED
      BY <2>1, <2>2
  <1>. QED
    BY <1>3, <1>5, <1>6, <1>9, <1>10 DEF TakeoverInv, PositionsOK, OnOneSide, PickupIsEarned

LEMMA TakeoverInvNext ==
    ASSUME TakeoverInv, [TakeoverNext]_takeoverVars PROVE TakeoverInv'
  <1>1. CASE UNCHANGED takeoverVars
    BY <1>1 DEF takeoverVars, TakeoverInv, PositionsOK, OnOneSide, PickupIsEarned
  <1>2. CASE TakeoverNext
    BY <1>2, ArmKeepsInv, UpdateKeepsInv DEF TakeoverNext
  <1>. QED
    BY <1>1, <1>2

(***************************************************************************)
(* A control takes a recalled value over exactly when it has come near it  *)
(* or has been on both sides of it.                                        *)
(***************************************************************************)
THEOREM OwnershipIsEarned == TakeoverSpec => []PickupIsEarned
  <1>1. TakeoverInit => TakeoverInv
    <2>. SUFFICES ASSUME TakeoverInit PROVE TakeoverInv
      OBVIOUS
    <2>1. target = 0 /\ previous = 0 /\ lowest = 0 /\ highest = 0
      BY DEF TakeoverInit
    <2>2. ~active /\ ~near /\ active \in BOOLEAN /\ near \in BOOLEAN
      BY DEF TakeoverInit
    <2>3. 0 \in Position
      BY PolicyAssumption DEF Position
    <2>4. 0 <= 0 /\ ~(0 < 0) /\ ~(0 > 0)
      OBVIOUS
    <2>. QED
      BY <2>1, <2>2, <2>3, <2>4 DEF TakeoverInv, PositionsOK, OnOneSide, PickupIsEarned
  <1>2. TakeoverInv => PickupIsEarned
    BY DEF TakeoverInv
  <1>. QED
    BY <1>1, <1>2, TakeoverInvNext, PTL DEF TakeoverSpec

-----------------------------------------------------------------------------
(***************************************************************************)
(* SpeedIsReal holds for every period of the clock and every threshold.    *)
(* As long as less than a period has passed since the last event, the      *)
(* difference of the two times is what has passed.                         *)
(***************************************************************************)
SpeedSpec == SpeedInit /\ [][SpeedNext]_speedVars

SpeedInv ==
    /\ clock \in Time /\ lastMs \in Time
    /\ waiting \in 0 .. TimeModulus
    /\ initialized \in BOOLEAN
    /\ initialized /\ waiting < TimeModulus => Since(clock, lastMs) = waiting
    /\ SpeedIsReal

(***************************************************************************)
(* Time goes on, around the end of the counter's range and further.        *)
(***************************************************************************)
LEMMA LaterIsSince ==
    ASSUME NEW t \in Time, NEW pause \in Nat
    PROVE  /\ Later(t, pause) \in Time
           /\ Since(t, t) = 0
           /\ \A s \in Time : Since(t, s) + pause < TimeModulus =>
                  Since(Later(t, pause), s) = Since(t, s) + pause
  <1>. DEFINE u == Later(t, pause)
  <1>1. /\ TimeModulus \in Nat /\ TimeModulus > 0 /\ t + pause \in Nat
        /\ t \in Int /\ 0 <= t /\ t < TimeModulus
    BY PolicyAssumption DEF Time
  <1>2. u \in 0 .. TimeModulus - 1
    BY <1>1 DEF Later
  <1>3. ASSUME pause < TimeModulus
        PROVE  u = IF t + pause < TimeModulus THEN t + pause
                                              ELSE t + pause - TimeModulus
    BY <1>1, <1>3 DEF Later
  <1>4. ASSUME NEW s \in Time, Since(t, s) + pause < TimeModulus
        PROVE  Since(u, s) = Since(t, s) + pause
    <2>1. s \in Int /\ 0 <= s /\ s < TimeModulus
      BY <1>1 DEF Time
    <2>2. pause < TimeModulus
      BY <1>1, <1>4, <2>1 DEF Since
    <2>. QED
      BY <1>1, <1>3, <1>4, <2>1, <2>2 DEF Since
  <1>. QED
    BY <1>1, <1>2, <1>4 DEF Since, Time

LEMMA SpeedInvNext ==
    ASSUME SpeedInv, [SpeedNext]_speedVars PROVE SpeedInv'
  <1>1. CASE UNCHANGED speedVars
    BY <1>1 DEF speedVars, SpeedInv, SpeedIsReal
  <1>2. CASE resetSpeed
    <2>1. /\ UNCHANGED <<clock, multiplier, waiting, waited, first>>
          /\ initialized' = FALSE /\ lastMs' = 0
      BY <1>2 DEF resetSpeed
    <2>2. SpeedIsReal'
      BY <2>1 DEF SpeedInv, SpeedIsReal
    <2>3. 0 \in Time
      BY PolicyAssumption DEF Time
    <2>. QED
      BY <2>1, <2>2, <2>3 DEF SpeedInv
  <1>3. ASSUME NEW detents \in DetentCounts, NEW pause \in 0 .. MaxPause,
               apply(detents, pause)
        PROVE  SpeedInv'
    <2>0. /\ clock \in Time /\ lastMs \in Time /\ waiting \in 0 .. TimeModulus
          /\ TimeModulus \in Nat \ {0} /\ pause \in Nat
      BY PolicyAssumption DEF SpeedInv
    <2>1. clock' = Later(clock, pause) /\ clock' \in Time
      BY <1>3, <2>0, LaterIsSince DEF apply
    <2>2. /\ Waited(pause) \in 0 .. TimeModulus
          /\ initialized /\ Waited(pause) < TimeModulus =>
                 Since(clock', lastMs) = Waited(pause)
      <3>1. Waited(pause) \in 0 .. TimeModulus
        BY <2>0 DEF Waited
      <3>2. ASSUME initialized, Waited(pause) < TimeModulus
            PROVE  Since(clock', lastMs) = Waited(pause)
        <4>1. /\ Waited(pause) = waiting + pause
              /\ waiting + pause < TimeModulus /\ waiting < TimeModulus
          BY <2>0, <3>2 DEF Waited
        <4>2. Since(clock, lastMs) = waiting
          BY <3>2, <4>1 DEF SpeedInv
        <4>. QED
          BY <2>0, <2>1, <4>1, <4>2, LaterIsSince
      <3>. QED
        BY <3>1, <3>2
    <2>3. CASE detents = 0
      BY <1>3, <2>0, <2>1, <2>2, <2>3 DEF apply, SpeedInv, SpeedIsReal
    <2>4. CASE detents # 0
      <3>1. /\ multiplier' = Factor(clock') /\ lastMs' = clock'
            /\ initialized' = TRUE /\ waiting' = 0
            /\ waited' = Waited(pause) /\ first' = ~initialized
        BY <1>3, <2>4 DEF apply, Remembered
      <3>2. Since(clock', clock') = 0
        BY <2>0, <2>1, LaterIsSince
      <3>3. SpeedIsReal'
        BY <2>2, <3>1 DEF SpeedIsReal, Factor
      <3>. QED
        BY <2>0, <2>1, <3>1, <3>2, <3>3 DEF SpeedInv
    <2>. QED
      BY <2>3, <2>4
  <1>. QED
    BY <1>1, <1>2, <1>3 DEF SpeedNext

(***************************************************************************)
(* However often the clock wraps around and whatever is called in between, *)
(* an event is multiplied by what has really passed since the one before.  *)
(***************************************************************************)
THEOREM AccelerationIsReal == SpeedSpec => []SpeedIsReal
  <1>1. SpeedInit => SpeedInv
    <2>. SUFFICES ASSUME SpeedInit PROVE SpeedInv
      OBVIOUS
    <2>1. 0 \in Time /\ 0 \in 0 .. TimeModulus
      BY PolicyAssumption DEF Time
    <2>2. first = TRUE /\ multiplier = 1 /\ initialized = FALSE
      BY DEF SpeedInit
    <2>3. SpeedIsReal
      BY <2>2 DEF SpeedIsReal
    <2>. QED
      BY <2>1, <2>2, <2>3 DEF SpeedInit, SpeedInv
  <1>2. SpeedInv => SpeedIsReal
    BY DEF SpeedInv
  <1>. QED
    BY <1>1, <1>2, SpeedInvNext, PTL DEF SpeedSpec
=============================================================================
