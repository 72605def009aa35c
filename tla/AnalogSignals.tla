---------------------------- MODULE AnalogSignals ----------------------------
(***************************************************************************)
(* Voltages on their way into and out of the framework.                    *)
(*                                                                         *)
(* The position of a control: AnalogInput normalizes a raw ADC code,       *)
(* Potentiometer (and Fader, which is one with a named direction)          *)
(* normalizes, smooths and applies a deadband.  A normalized position is a *)
(* multiple of 1 / Unit; smoothing, whose result falls between two         *)
(* multiples, yields either of them.                                       *)
(*                                                                         *)
(* A control voltage: AnalogInputJack and CvInput clamp it to their        *)
(* ranges, CvOutput and AnalogOutputJack clamp what is sent, and           *)
(* LinearCodeCalibration turns it into a converter's code and back.  Volts *)
(* are integers, so that codeToVolts is exact; only voltsToCode rounds.    *)
(***************************************************************************)
EXTENDS Integers

CONSTANTS
    MaxRaw,        \* bound: the largest ADC code
    Unit,          \* the normalized position 1.0
    Controls,      \* bound: configurations of a potentiometer
    Settled,       \* bound: samples counted of a control at rest
    Volts,         \* bound: the voltages applied
    Ranges,        \* bound: ranges of a jack and of a CV
    Calibrations   \* bound: codes and voltages of two measured points

Magnitude(n) == IF n < 0 THEN -n ELSE n

(***************************************************************************)
(* A configuration has rawMaximum > rawMinimum, with a span that divides   *)
(* Unit, and a smoothingFactor of 1 / slowness; its deadband may be 0.  A  *)
(* calibration's two points lie on a line of integer slope.                *)
(***************************************************************************)
SignalAssumption ==
    /\ MaxRaw \in Nat /\ Unit \in Nat \ {0} /\ Settled \in Nat
    /\ \A c \in Controls :
           /\ c.rawMinimum \in Nat /\ c.rawMaximum \in Nat
           /\ c.rawMinimum < c.rawMaximum
           /\ Unit % (c.rawMaximum - c.rawMinimum) = 0
           /\ c.deadband \in 0 .. Unit /\ c.slowness \in Nat \ {0}
           /\ c.inverted \in BOOLEAN
    /\ Volts \subseteq Int
    /\ \A r \in Ranges : r.minimum \in Int /\ r.maximum \in Int /\ r.minimum <= r.maximum
    /\ \A c \in Calibrations :
           /\ c.maximumCode \in Nat /\ c.first \in Nat /\ c.second \in Nat
           /\ c.firstVolts \in Int /\ c.secondVolts \in Int
           /\ c.first # c.second =>
                  (c.secondVolts - c.firstVolts) % Magnitude(c.second - c.first) = 0

VARIABLES
    control,       \* Potentiometer::config_
    input,         \* AnalogInput::snapshot_.normalized
    knob,          \* Potentiometer::snapshot_.normalized and changed,
                   \* and initialized_
    least, most,   \* history: the extremes of input since the last reset()
    still,         \* history: samples since input changed, up to Settled
    jackRange, cvRange, calibration,
    jack,          \* AnalogInputJack, and the AnalogOutputJack that sends back
    volts,         \* CvInput::snapshot_.volts, and CvOutput's effectiveVolts
    applied,       \* the voltage at the jack
    code           \* the result of voltsToCode()

positionVars == <<control, input, knob, least, most, still>>
voltageVars == <<jackRange, cvRange, calibration, jack, volts, applied, code>>
signalVars == <<positionVars, voltageVars>>

-----------------------------------------------------------------------------
(***************************************************************************)
(* Positions.  The two classes clamp and normalize each in its own code.   *)
(***************************************************************************)
Between(low, value, high) ==
    IF value < low THEN low ELSE IF value > high THEN high ELSE value

AnalogInputNormalized(raw) ==
    LET clamped == Between(control.rawMinimum, raw, control.rawMaximum)
        span    == control.rawMaximum - control.rawMinimum
        upwards == ((clamped - control.rawMinimum) * Unit) \div span
    IN  IF control.inverted THEN Unit - upwards ELSE upwards

normalize(raw) ==
    LET maximum == IF control.rawMaximum > control.rawMinimum
                   THEN control.rawMaximum ELSE control.rawMinimum + 1
        clamped == Between(control.rawMinimum, raw, maximum)
        upwards == ((clamped - control.rawMinimum) * Unit)
                       \div (maximum - control.rawMinimum)
    IN  IF control.inverted THEN Unit - upwards ELSE upwards

PositionInit ==
    /\ control \in Controls
    /\ input = 0
    /\ knob = [normalized |-> 0, changed |-> FALSE, initialized |-> FALSE]
    /\ least = 0 /\ most = 0 /\ still = 0

\* Faulty: the first sample is smoothed from the constructor's position.
SmoothedFromZero(raw) ==
    [knob EXCEPT !.initialized = TRUE, !.normalized = normalize(raw) \div control.slowness]
Reset(raw) ==
    [normalized |-> normalize(raw), changed |-> FALSE, initialized |-> TRUE]

\* The neighbours of (target - normalized) * smoothingFactor.
Movements(target) ==
    LET way == target - knob.normalized
        down == way \div control.slowness
    IN  IF way % control.slowness = 0 THEN {down} ELSE {down, down + 1}

Moves(movement) == Magnitude(movement) >= control.deadband

Observed(raw, restarted) ==
    LET now == AnalogInputNormalized(raw) IN
    /\ input' = now
    /\ least' = IF restarted \/ now < least THEN now ELSE least
    /\ most' = IF restarted \/ now > most THEN now ELSE most
    /\ still' = IF restarted \/ now # input THEN 0
                ELSE IF still = Settled THEN still ELSE still + 1

resetKnob(raw) ==
    /\ knob' = Reset(raw)
    /\ Observed(raw, TRUE)
    /\ UNCHANGED <<control, voltageVars>>

updateKnob(raw) ==
    /\ IF ~knob.initialized
       THEN knob' = Reset(raw)
       ELSE \E movement \in Movements(normalize(raw)) :
                LET moves == Moves(movement) IN
                knob' = [knob EXCEPT !.changed = moves,
                                     !.normalized = IF moves THEN @ + movement ELSE @]
    /\ Observed(raw, ~knob.initialized)
    /\ UNCHANGED <<control, voltageVars>>

PositionNext == \E raw \in 0 .. MaxRaw : resetKnob(raw) \/ updateKnob(raw)

-----------------------------------------------------------------------------
(***************************************************************************)
(* Voltages.                                                               *)
(***************************************************************************)
clamp(range, v) == Between(range.minimum, v, range.maximum)

fromTwoPoints(c) ==
    LET slope == IF c.first = c.second THEN 1
                 ELSE LET rise == c.secondVolts - c.firstVolts
                          run  == c.second - c.first
                      IN  IF run > 0 THEN rise \div run ELSE (-rise) \div (-run)
    IN  [maximumCode |-> c.maximumCode,
         voltsPerCode |-> IF slope = 0 THEN 1 ELSE slope,
         offsetVolts |-> c.firstVolts - slope * c.first]

codeToVolts(line, n) ==
    (IF n > line.maximumCode THEN line.maximumCode ELSE n) * line.voltsPerCode
        + line.offsetVolts

Ends(line) == {codeToVolts(line, 0), codeToVolts(line, line.maximumCode)}
minimumVolts(line) == CHOOSE v \in Ends(line) : \A w \in Ends(line) : v <= w
maximumVolts(line) == CHOOSE v \in Ends(line) : \A w \in Ends(line) : v >= w

\* Faulty: the quotient is truncated.
Truncated(numerator, denominator) == numerator \div denominator
Rounded(numerator, denominator) == (2 * numerator + denominator) \div (2 * denominator)

voltsToCode(line, v) ==
    LET way == Between(minimumVolts(line), v, maximumVolts(line)) - line.offsetVolts
        raw == IF line.voltsPerCode > 0 THEN Rounded(way, line.voltsPerCode)
                                        ELSE Rounded(-way, -line.voltsPerCode)
    IN  [belowRange |-> v < minimumVolts(line),
         aboveRange |-> v > maximumVolts(line),
         code |-> Between(0, raw, line.maximumCode)]

VoltageInit ==
    /\ jackRange \in Ranges /\ cvRange \in Ranges
    /\ \E c \in Calibrations : calibration = fromTwoPoints(c)
    /\ jack = [effective |-> 0, changed |-> FALSE, belowRange |-> FALSE, aboveRange |-> FALSE]
    /\ volts = 0 /\ applied = 0
    /\ code = [belowRange |-> FALSE, aboveRange |-> FALSE, code |-> 0]

(***************************************************************************)
(* AnalogInputJack::update and AnalogOutputJack::setVolts.                 *)
(***************************************************************************)
throughJack(v) ==
    jack' = [effective |-> clamp(jackRange, v),
             changed |-> clamp(jackRange, v) # jack.effective,
             belowRange |-> v < jackRange.minimum,
             aboveRange |-> v > jackRange.maximum]

\* CvInput::update and CvOutput::setVolts.
throughCv(v) == volts' = clamp(cvRange, v)

\* One pass of an application: jack, CV, converter.
Convert(v) ==
    /\ applied' = v
    /\ throughJack(v)
    /\ throughCv(jack'.effective)
    /\ code' = voltsToCode(calibration, volts')
    /\ UNCHANGED <<jackRange, cvRange, calibration, positionVars>>

VoltageNext == \E v \in Volts : Convert(v)

-----------------------------------------------------------------------------
(***************************************************************************)
(* A potentiometer never reports a position outside of what its input, as  *)
(* AnalogInput computes it, has been since the first sample: smoothing     *)
(* overshoots nowhere, not even while it starts.  At rest it has come as   *)
(* near to the input as the smoothed deadband allows (the endpoints are    *)
(* reached exactly only without one).                                      *)
(***************************************************************************)
KnobFollowsInput ==
    knob.initialized =>
        /\ least <= knob.normalized /\ knob.normalized <= most
        /\ still = Settled =>
               LET away == Magnitude(input - knob.normalized) IN
               \/ away <= control.deadband * control.slowness
               \/ away < control.slowness

(***************************************************************************)
(* The code that is sent is the one whose voltage is nearest to the        *)
(* applied voltage, limited to both ranges, among all codes there are, for *)
(* rising and falling calibrations alike; and a limit is reported by the   *)
(* stage that imposed it.                                                  *)
(***************************************************************************)
CodeIsNearest ==
    applied # 0 =>
        LET wanted == clamp(cvRange, clamp(jackRange, applied))
            off(n) == Magnitude(codeToVolts(calibration, n) - wanted)
        IN  /\ \A n \in 0 .. calibration.maximumCode : off(code.code) <= off(n)
            /\ wanted = applied <=> ~(jack.belowRange \/ jack.aboveRange) /\ volts = jack.effective
            /\ code.belowRange \/ code.aboveRange =>
                   \A n \in 0 .. calibration.maximumCode : codeToVolts(calibration, n) # wanted
=============================================================================
