-------------------------------- MODULE Panel --------------------------------
(***************************************************************************)
(* What a module's front panel is made of: its controls, its jacks and its *)
(* lamps.  They share the clock and nothing else: none calls another, and  *)
(* the mainline updates them in turn.  A behaviour therefore follows one   *)
(* of them, chosen at the start, among all its calls and all its inputs;   *)
(* interleaving them would only multiply their states.                     *)
(***************************************************************************)
EXTENDS EventQueue, ControlPolicies

CONSTANTS
    CountModulus,                  \* 2^32, the width of counts
    DebounceTime, MaxGap,          \* of the debounced contacts
    Pole,                          \* of a bank of switches
    LongPressMs, DoublePressMs, RepeatDelayMs, RepeatIntervalMs,
    MaxPressGap, MaxUnreported,    \* of the press classifier
    TransitionsPerDetent, Minimum, Maximum, Step,
    MaxTurn, MaxMissed, MaxInvalid, Detents,   \* of the encoder and its value
    expectedCodes, openThreshold, acceptanceWindow, stableTimeMs,
    MaxCode, MaxLadderGap,         \* of the button ladder
    PulseMs, MaxPulseGap, GateVolts,
    lowMaximum, highMinimum, lowVolts, highVolts,   \* of gates and triggers
    MaxRaw, Unit, Controls, Settled, Volts, Ranges, Calibrations,  \* of signals
    Full, Channel, Colors, MaxTransitions                          \* of LEDs

VARIABLES
    component,                     \* the part this behaviour follows
    now,                           \* nowMs of its last call
    button, level, run, held,
    debouncer, snapshot, contacts, steady, overlapped,
    debouncers, switches, levels, steadyFor, maskBefore, origin,
    pressed, longEmitted, pendingShort, pressedAt, releasedAt, nextRepeatAt,
    event, hold, gap, sinceLong, between, unreported,
    encoder, inverted, shaft, start, knob, mode, total,
    ladder, noted, paired, seen, age,
    trigger, output, input, gate, pulseAge, sent, earned,
    control, position, potentiometer, least, most, still,
    jackRange, cvRange, calibration, jack, volts, applied, code,
    kind, wiring, led, pins, announced, asked

momentary == <<button, level, run, held>>
onOff == <<debouncer, snapshot, contacts, steady, overlapped>>
maintained == <<debouncers, switches, levels, steadyFor, maskBefore, origin>>
presses == <<pressed, longEmitted, pendingShort, pressedAt, releasedAt,
             nextRepeatAt, event, hold, gap, sinceLong, between, unreported>>
turning == <<encoder, inverted, shaft, start, knob, mode, total>>
ladders == <<ladder, noted, paired, seen, age>>
gates == <<trigger, output, input, gate, pulseAge, sent, earned>>
positions == <<control, position, potentiometer, least, most, still>>
voltages == <<jackRange, cvRange, calibration, jack, volts, applied, code>>
lamps == <<kind, wiring, led, pins, announced, asked>>

contactVars == <<momentary, onOff, maintained, presses>>
dialVars == <<turning, ladders, policyVars>>
signalVars == <<gates, positions, voltages, lamps>>
panelVars == <<vars, component, now, contactVars, dialVars, signalVars>>

Momentary == INSTANCE MomentaryButton
Switches == INSTANCE Switches WITH level <- contacts
Presses == INSTANCE PressClassifier WITH MaxGap <- MaxPressGap
Turning == INSTANCE Knob
Buttons == INSTANCE ButtonLadder
Gates == INSTANCE GateTrigger WITH Volts <- GateVolts, age <- pulseAge
Signals == INSTANCE AnalogSignals WITH input <- position, knob <- potentiometer
Lamps == INSTANCE Illumination WITH seen <- announced

ASSUME PanelAssumption ==
    /\ Momentary!ButtonAssumption /\ Presses!ClassifierAssumption
    /\ Turning!KnobAssumption /\ Buttons!LadderAssumption
    /\ Gates!GateAssumption /\ Signals!SignalAssumption
    /\ Lamps!IlluminationAssumption

Component == {"queue", "momentary", "onOff", "maintained", "presses", "knob", "ladder",
              "gates", "takeover", "speed", "positions", "voltages", "lamps"}

(***************************************************************************)
(* Every part starts as its constructor leaves it, with any configuration  *)
(* and at any time; what a component does not use has one value.           *)
(***************************************************************************)
Start(part, varied, fixed) == varied /\ (component = part \/ fixed)

PanelInit ==
    /\ component \in Component
    /\ Init
    /\ Momentary!Init
    /\ component \in {"momentary", "onOff", "maintained", "presses", "ladder", "gates"}
           \/ now = 0
    /\ Switches!OnOffInit /\ Switches!SwitchInit /\ Presses!Init
    /\ Buttons!LadderInit /\ Gates!GateInit /\ TakeoverInit
    /\ Start("knob", Turning!KnobInit, mode = "Clamp" /\ inverted = FALSE /\ shaft = 0)
    /\ Start("speed", SpeedInit, clock = 0)
    /\ Start("positions", Signals!PositionInit, control = CHOOSE c \in Controls : TRUE)
    /\ Start("voltages", Signals!VoltageInit,
             /\ jackRange = CHOOSE r \in Ranges : TRUE
             /\ cvRange = jackRange
             /\ calibration = Signals!fromTwoPoints(CHOOSE c \in Calibrations : TRUE))
    /\ Start("lamps", Lamps!LedInit,
             kind = "digital" /\ wiring = [initiallyOn |-> FALSE, activeHigh |-> TRUE])

ContactNext ==
    /\ \/ /\ component = "momentary" /\ Momentary!Next
          /\ UNCHANGED <<onOff, maintained, presses>>
       \/ /\ component = "onOff" /\ Switches!OnOffNext
          /\ UNCHANGED <<momentary, maintained, presses>>
       \/ /\ component = "maintained" /\ Switches!SwitchNext
          /\ UNCHANGED <<momentary, onOff, presses>>
       \/ /\ component = "presses" /\ Presses!Next
          /\ UNCHANGED <<momentary, onOff, maintained>>
    /\ UNCHANGED <<vars, dialVars, signalVars>>

DialNext ==
    /\ \/ /\ component = "knob" /\ Turning!KnobNext
          /\ UNCHANGED <<now, ladders, policyVars>>
       \/ /\ component = "ladder" /\ Buttons!LadderNext
          /\ UNCHANGED <<turning, policyVars>>
       \/ /\ component = "takeover" /\ TakeoverNext
          /\ UNCHANGED <<now, turning, ladders>>
       \/ /\ component = "speed" /\ SpeedNext
          /\ UNCHANGED <<now, turning, ladders>>
    /\ UNCHANGED <<vars, contactVars, signalVars>>

SignalNext ==
    /\ \/ /\ component = "gates" /\ Gates!GateNext
          /\ UNCHANGED <<positions, voltages, lamps>>
       \/ /\ component = "positions" /\ Signals!PositionNext
          /\ UNCHANGED <<now, gates, lamps>>
       \/ /\ component = "voltages" /\ Signals!VoltageNext
          /\ UNCHANGED <<now, gates, lamps>>
       \/ /\ component = "lamps" /\ Lamps!LedNext
          /\ UNCHANGED <<now, gates, positions, voltages>>
    /\ UNCHANGED <<vars, contactVars, dialVars>>

PanelNext ==
    /\ UNCHANGED component
    /\ \/ /\ component = "queue" /\ Next
          /\ UNCHANGED <<now, contactVars, dialVars, signalVars>>
       \/ ContactNext
       \/ DialNext
       \/ SignalNext

PanelSpec == PanelInit /\ [][PanelNext]_panelVars

-----------------------------------------------------------------------------
(***************************************************************************)
(* A button accepts a change at the first call at which the samples have   *)
(* had the new level for the debounce time, and no earlier; the durations  *)
(* it reports are the time that has really passed.                         *)
(***************************************************************************)
ButtonIsTrue == Momentary!Debounced /\ Momentary!DurationsAreElapsed

(***************************************************************************)
(* A three-position switch reports Invalid only if both contacts were seen *)
(* closed together, and steady contacts determine its position.            *)
(***************************************************************************)
PositionIsTrue == Switches!InvalidNeedsOverlap /\ Switches!PositionSettles

(***************************************************************************)
(* The mask of a bank of switches settles, and changes with an event.      *)
(***************************************************************************)
MaskIsAnnounced == Switches!MaskIsAnnounced

(***************************************************************************)
(* The press classifier reports no gesture that was not made, and keeps    *)
(* the configured times, across wraparound and late calls.                 *)
(***************************************************************************)
GesturesAreTrue == Presses!NothingInvented /\ Presses!GesturesKeepTheirTimes

(***************************************************************************)
(* What an encoder has lost of a rotation, its count of invalid            *)
(* transitions accounts for; and a value driven by detents is the sum of   *)
(* them, within its bounds.                                                *)
(***************************************************************************)
TurnsAreAccountedFor == Turning!LossIsCounted /\ Turning!ValueIsTotal

(***************************************************************************)
(* The events of a button ladder are stable, paired and complete.          *)
(***************************************************************************)
LadderEventsAreTrue == Buttons!LadderEventsAreTrue

(***************************************************************************)
(* A trigger lasts for its time, and arrives at another module once.       *)
(***************************************************************************)
TriggersArriveOnce == Gates!PulseKeepsItsTime /\ Gates!EdgesArriveOnce

(***************************************************************************)
(* A potentiometer stays between its inputs and comes to rest near them.   *)
(***************************************************************************)
KnobFollowsInput == Signals!KnobFollowsInput

(***************************************************************************)
(* A voltage is sent as the code that is nearest to it within the ranges.  *)
(***************************************************************************)
CodeIsNearest == Signals!CodeIsNearest

(***************************************************************************)
(* What a consumer of an LED model writes lights what was asked of it.     *)
(***************************************************************************)
PinsShowTheLed == Lamps!PinsShowTheLed
=============================================================================
