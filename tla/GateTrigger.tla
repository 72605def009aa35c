----------------------------- MODULE GateTrigger -----------------------------
(***************************************************************************)
(* A trigger on its way from one module to another: the TriggerOutput of   *)
(* the sender drives a DigitalOutputJack, a cable carries the voltage to a *)
(* DigitalInputJack and a GateInput of the receiver.  Sender and receiver  *)
(* run their loops independently of each other.  What the receiver         *)
(* measures of a level is any voltage that a definite level may droop to:  *)
(* it can enter the band between the thresholds, but not cross it.         *)
(***************************************************************************)
EXTENDS Naturals

CONSTANTS
    TimeModulus,              \* 2^32: the width of nowMs
    PulseMs,                  \* pulseMs_
    MaxPulseGap,              \* bound: milliseconds between two calls
    Volts,                    \* bound: the voltages measured
    lowMaximum, highMinimum,  \* the thresholds of the inputs
    lowVolts, highVolts       \* the levels of the output jack

(***************************************************************************)
(* The thresholds as isValid(FrameworkConfig) wants them, levels that are  *)
(* definite, and no gap that takes a pulse within its length of a period.  *)
(***************************************************************************)
GateAssumption ==
    /\ TimeModulus \in Nat \ {0} /\ PulseMs \in Nat /\ MaxPulseGap \in Nat
    /\ MaxPulseGap + PulseMs <= TimeModulus
    /\ Volts \subseteq Nat /\ lowVolts \in Nat /\ highVolts \in Nat
    /\ lowMaximum \in Nat /\ highMinimum \in Nat
    /\ lowVolts <= lowMaximum /\ lowMaximum < highMinimum
    /\ highMinimum <= highVolts

VARIABLES
    now,      \* nowMs of the sender's last call
    trigger,  \* TriggerOutput::snapshot_
    output,   \* DigitalOutputJack::snapshot_
    input,    \* DigitalInputJack::snapshot_
    gate,     \* GateInput::snapshot_
    age,      \* history: time since the last trigger(), up to PulseMs
    sent,     \* history: the output rose since the input last accepted an edge
    earned    \* history: sent, when the input last accepted an edge

gateVars == <<now, trigger, output, input, gate, age, sent, earned>>

Time == 0 .. TimeModulus - 1
Later(t, gap) == (t + gap) % TimeModulus
Elapsed(t, since) == IF t >= since THEN t - since ELSE t + TimeModulus - since

Trigger == [high : BOOLEAN, started : BOOLEAN, ended : BOOLEAN, startedAtMs : Time]
Gate == [high : BOOLEAN, rising : BOOLEAN, falling : BOOLEAN, volts : Volts]
Jack == [high : BOOLEAN, rising : BOOLEAN, falling : BOOLEAN, volts : Nat]

GateTypeOK ==
    /\ now \in Time
    /\ trigger \in Trigger
    /\ output \in Jack /\ input \in Jack /\ gate \in Gate
    /\ age \in 0 .. PulseMs
    /\ sent \in BOOLEAN /\ earned \in BOOLEAN

Resting(volts) == [high |-> FALSE, rising |-> FALSE, falling |-> FALSE, volts |-> volts]

GateInit ==
    /\ now \in Time
    /\ trigger = [high |-> FALSE, started |-> FALSE, ended |-> FALSE, startedAtMs |-> 0]
    /\ output = Resting(lowVolts)
    /\ input = Resting(0) /\ gate = Resting(0)
    /\ age = 0 /\ sent = FALSE /\ earned = TRUE

-----------------------------------------------------------------------------
(***************************************************************************)
(* The sender.  After every call its loop hands the level to the jack.     *)
(***************************************************************************)
setHigh(high) ==
    /\ output' = [high |-> high,
                  rising |-> ~output.high /\ high,
                  falling |-> output.high /\ ~high,
                  volts |-> IF high THEN highVolts ELSE lowVolts]
    /\ sent' = (sent \/ output'.rising)

UpTo(duration) == IF duration > PulseMs THEN PulseMs ELSE duration

StartPulse(gap) ==
    /\ now' = Later(now, gap)
    /\ trigger' = [high |-> TRUE, started |-> TRUE, ended |-> FALSE,
                   startedAtMs |-> now']
    /\ age' = 0
    /\ setHigh(trigger'.high)
    /\ UNCHANGED <<input, gate, earned>>

PulseIsOver(t) == trigger.high /\ Elapsed(t, trigger.startedAtMs) >= PulseMs

UpdatePulse(gap) ==
    /\ now' = Later(now, gap)
    /\ trigger' = [trigger EXCEPT !.started = FALSE,
                                  !.ended = PulseIsOver(now'),
                                  !.high = @ /\ ~PulseIsOver(now')]
    /\ age' = UpTo(age + gap)
    /\ setHigh(trigger'.high)
    /\ UNCHANGED <<input, gate, earned>>

-----------------------------------------------------------------------------
(***************************************************************************)
(* The receiver.  The jack and the gate input have the same hysteresis,    *)
(* each with a state of its own.                                           *)
(***************************************************************************)
\* Faulty: one threshold for both directions.
Comparator(high, volts) == volts >= highMinimum
Hysteretic(high, volts) ==
    IF high THEN volts > lowMaximum ELSE volts >= highMinimum

Sampled(snapshot, volts) ==
    LET high == Hysteretic(snapshot.high, volts) IN
    [high |-> high, rising |-> high /\ ~snapshot.high,
     falling |-> snapshot.high /\ ~high, volts |-> volts]

updateJack(volts) == input' = Sampled(input, volts)
updateGate(volts) == gate' = Sampled(gate, volts)

\* What may arrive of the level that the output has.
Measurable(volts) ==
    IF output.high THEN volts > lowMaximum ELSE volts < highMinimum

Measure(volts) ==
    /\ Measurable(volts)
    /\ updateJack(volts) /\ updateGate(volts)
    /\ sent' = (sent /\ ~input'.rising)
    /\ earned' = IF input'.rising THEN sent ELSE earned
    /\ UNCHANGED <<now, trigger, output, age>>

GateNext ==
    \/ \E gap \in 0 .. MaxPulseGap : StartPulse(gap) \/ UpdatePulse(gap)
    \/ \E volts \in Volts : Measure(volts)

-----------------------------------------------------------------------------
(***************************************************************************)
(* A pulse lasts until the first update() at which its time has passed     *)
(* since the last trigger(), and ends at no earlier one: a retrigger       *)
(* extends it, and the wraparound of the clock does not disturb it.        *)
(***************************************************************************)
PulseKeepsItsTime ==
    /\ trigger.ended => age = PulseMs
    /\ trigger.high /\ ~trigger.started => age < PulseMs

(***************************************************************************)
(* The receiver accepts an edge only for a pulse that was sent since the   *)
(* edge before: however the voltage droops between the thresholds, one     *)
(* pulse is never received twice.  And the jack and the gate input, which  *)
(* implement the hysteresis separately, agree.                             *)
(***************************************************************************)
EdgesArriveOnce ==
    /\ earned
    /\ gate = input
=============================================================================
