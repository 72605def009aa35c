---------------------------- MODULE OledController ----------------------------
(***************************************************************************)
(* The firmware nano-r3-oled-controller: setup() and loop() as a sequence  *)
(* of bus accesses.  The gate jack and the bicolor status LED hang on an   *)
(* MCP23017; every result of the bus is thrown away, so that the only      *)
(* repair there is are the writes of the next pass, and setDirection() is  *)
(* not among them.  What the OLED shows is left out: a flush that fails or *)
(* succeeds changes nothing else.                                          *)
(***************************************************************************)
EXTENDS ChipDriver, Integers

CONSTANTS
    MUX_CHANNELS_USED,
    MuxCode,      \* the codes the multiplexed input can have
    MaxOutages    \* bound: interruptions of the expander's supply

ControllerAssumption ==
    MUX_CHANNELS_USED \in Nat \ {0} /\ 0 \in MuxCode /\ MaxOutages \in Nat

VARIABLES
    shadow, inputs, registers, reported, sampled,   \* of the expander
    at,            \* the step of setup() or loop() that comes next
    pressed,       \* pressed of the encoder button's debounced snapshot
    gate,          \* high of the gate jack's snapshot
    statusLed,     \* the color requested of the status LED
    g_muxChannel, g_muxChannelCodes,
    controls,      \* what the inputs of the multiplexer carry
    outages

expander == <<shadow, inputs, registers, reported, sampled>>
program == <<at, pressed, gate, statusLed, g_muxChannel, g_muxChannelCodes>>
controller == <<program, controls, outages>>

Wired == {"gate", "red", "green"}   \* pins 0 to 2, all in bank A
Expander == INSTANCE PortExpander WITH
    Pin <- Wired, BankA <- Wired, Mask <- {}, MaxUnreported <- 4

MuxChannel == 0 .. MUX_CHANNELS_USED - 1

ControllerTypeOK ==
    /\ Expander!PortTypeOK
    /\ at \in {"oled", "expander", "direction", "pullups",
               "inputs", "gate", "red", "green", "draw"}
    /\ pressed \in BOOLEAN /\ gate \in BOOLEAN
    /\ statusLed \in {"ColorA", "ColorB"}
    /\ g_muxChannel \in MuxChannel
    /\ g_muxChannelCodes \in [MuxChannel -> MuxCode]
    /\ controls \in [MuxChannel -> MuxCode]
    /\ outages \in 0 .. MaxOutages

ControllerInit ==
    /\ Expander!PortInit
    /\ at = "oled" /\ pressed = FALSE /\ gate = FALSE /\ statusLed = "ColorA"
    /\ g_muxChannel = 0 /\ g_muxChannelCodes = [c \in MuxChannel |-> 0]
    /\ controls \in [MuxChannel -> MuxCode]
    /\ outages = 0

(***************************************************************************)
(* A bus access of step here, after which the program goes on at there     *)
(* whatever the answer is.                                                 *)
(***************************************************************************)
Answers == {"Success", "Error"}

Access(here, there, call(_)) ==
    /\ at = here /\ at' = there
    /\ \E answer \in Answers : call(answer) /\ result' = answer
    /\ UNCHANGED <<chip, pc, controls, outages>>

untouched(answer) == UNCHANGED expander

(***************************************************************************)
(* setup(): pins 0 to 2 become outputs, the pull-ups of the others are not *)
(* among the pins modelled.                                                *)
(***************************************************************************)
setDirection(answer) == Expander!set("direction", {}, answer)
setPullUps(answer) == Expander!set("pullups", {}, answer)

setup ==
    /\ \/ Access("oled", "expander", untouched)
       \/ Access("expander", "direction", Expander!initialize)
       \/ Access("direction", "pullups", setDirection)
       \/ Access("pullups", "inputs", setPullUps)
    /\ UNCHANGED <<pressed, gate, statusLed, g_muxChannel, g_muxChannelCodes>>

(***************************************************************************)
(* loop() up to its first access to the bus: the button, one channel of    *)
(* the multiplexer, the gate jack.                                         *)
(***************************************************************************)
\* Faulty: the channel after the last one used is read before the wrap.
NextChannelTooFar == IF g_muxChannel = MUX_CHANNELS_USED - 1 THEN 1 ELSE g_muxChannel + 1
NextChannel == (g_muxChannel + 1) % MUX_CHANNELS_USED

readInputs ==
    /\ at = "inputs" /\ at' = "gate"
    /\ \E level \in BOOLEAN : pressed' = level /\ gate' = level
    /\ g_muxChannelCodes' = [g_muxChannelCodes EXCEPT ![g_muxChannel] = controls[g_muxChannel]]
    /\ g_muxChannel' = NextChannel
    /\ UNCHANGED <<driver, expander, statusLed, controls, outages>>

(***************************************************************************)
(* The pins: the LED is wired with a common anode, a lit die pulls its pin *)
(* low.                                                                    *)
(***************************************************************************)
LedColor == IF gate THEN "ColorB" ELSE "ColorA"
pinA == LedColor # "ColorA"
pinB == LedColor # "ColorB"

writeGate(answer) == Expander!writePin("gate", gate, answer)
writeRed(answer) == Expander!writePin("red", pinA, answer)
writeGreen(answer) == Expander!writePin("green", pinB, answer)

writeOutputs ==
    /\ \/ Access("gate", "red", writeGate) /\ UNCHANGED statusLed
       \/ Access("red", "green", writeRed) /\ statusLed' = LedColor
       \/ Access("green", "draw", writeGreen) /\ UNCHANGED statusLed
    /\ UNCHANGED <<pressed, gate, g_muxChannel, g_muxChannelCodes>>

redrawDisplay ==
    /\ Access("draw", "inputs", untouched)
    /\ UNCHANGED <<pressed, gate, statusLed, g_muxChannel, g_muxChannelCodes>>

ControllerStep == setup \/ readInputs \/ writeOutputs \/ redrawDisplay

(***************************************************************************)
(* The surroundings: a control is moved, the expander loses its supply.    *)
(***************************************************************************)
MoveControl ==
    /\ \E c \in MuxChannel, code \in MuxCode : controls' = [controls EXCEPT ![c] = code]
    /\ UNCHANGED <<driver, expander, program, outages>>

Outage ==
    /\ outages < MaxOutages /\ outages' = outages + 1
    /\ Expander!DevicePowerOn
    /\ UNCHANGED <<driver, program, controls>>

-----------------------------------------------------------------------------
(***************************************************************************)
(* Nothing looks at a result of the bus.  Once the button rests and the    *)
(* bus works, the output latches of the expander come to agree with the    *)
(* button and stay so, whatever was lost of earlier writes or with the     *)
(* supply of the device; and the three pins are driven, so that gate and   *)
(* LED show what the latches hold, provided that setDirection() was        *)
(* answered with a success and the device has had its supply since.  And   *)
(* once the controls rest, the round robin has read all of them.           *)
(***************************************************************************)
Displayed(level) == IF level THEN {"gate", "red"} ELSE {"green"}

DirectionWasSet == "direction" \in reported

OutputsFollowButton ==
    \/ []<><<pressed' # pressed>>_pressed
    \/ []<>(result = "Error")
    \/ <>[](/\ registers.outputs = Displayed(pressed)
            /\ DirectionWasSet => registers.direction = {})

ControlsAreRead ==
    \/ []<><<controls' # controls>>_controls
    \/ <>[](g_muxChannelCodes = controls)

(***************************************************************************)
(* A direction that was lost is not repaired: from the end of setup() on,  *)
(* a pin that floats goes on floating.                                     *)
(***************************************************************************)
FloatingPinsStay == at # "direction" => registers.direction \subseteq registers'.direction
=============================================================================
