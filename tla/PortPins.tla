------------------------------- MODULE PortPins -------------------------------
(***************************************************************************)
(* A pin of the microcontroller under ArduinoDigitalInput,                 *)
(* ArduinoDigitalOutput or ArduinoBidirectionalPin, compared with the      *)
(* VirtualBidirectionalPin that stands for it in tests.  A pin of the port *)
(* has a direction bit and a latch bit; the latch is the driven level of   *)
(* an output and switches the pull-up of an input, and the Arduino core    *)
(* changes both in pinMode().                                              *)
(***************************************************************************)
EXTENDS ChipDriver

VARIABLES
    pin,       \* pin_'s object: direction_, usePullup_, activeLow_, lastHigh_
    port,      \* the bits of the port: is an output, latch
    wire,      \* what the outside does with the pin: "Low", "High", "Floating"
    virtual    \* the VirtualBidirectionalPin that was called in the same way

pinState == <<pin, port, wire, virtual>>

Direction == {"Input", "Output"}
PinObject == [direction : Direction, usePullup : BOOLEAN, activeLow : BOOLEAN, lastHigh : BOOLEAN]

PinTypeOK ==
    /\ pin \in PinObject
    /\ port \in [output : BOOLEAN, latch : BOOLEAN]
    /\ wire \in {"Low", "High", "Floating"}
    /\ virtual \in [direction : Direction, outputHigh : BOOLEAN, externalHigh : BOOLEAN]

\* digitalWrite() and pinMode() of the Arduino core.
digitalWrite(bits, high) == [bits EXCEPT !.latch = high]

pinMode(bits, mode) ==
    CASE mode = "OUTPUT"       -> [bits EXCEPT !.output = TRUE]
      [] mode = "INPUT"        -> [output |-> FALSE, latch |-> FALSE]
      [] mode = "INPUT_PULLUP" -> [output |-> FALSE, latch |-> TRUE]

\* The physical level of a logical one, and the reverse.
PinLevel(object, high) == high # object.activeLow

(***************************************************************************)
(* writeHigh() and applyDirection() on the port.  An output takes up the   *)
(* last level written, also one written while it was an input.             *)
(***************************************************************************)
\* Faulty: only the mode is set.
AppliedMode(object, bits) ==
    pinMode(bits, IF object.direction = "Output" THEN "OUTPUT"
                  ELSE IF object.usePullup THEN "INPUT_PULLUP" ELSE "INPUT")

Applied(object, bits) ==
    IF object.direction = "Output"
    THEN digitalWrite(pinMode(bits, "OUTPUT"), PinLevel(object, object.lastHigh))
    ELSE pinMode(bits, IF object.usePullup THEN "INPUT_PULLUP" ELSE "INPUT")

(***************************************************************************)
(* The constructors: an output has its initial level, the bidirectional    *)
(* pin a low one.                                                          *)
(***************************************************************************)
PinInit ==
    /\ pin \in PinObject
    /\ chip # "Pin" => pin = CHOOSE object \in PinObject : ~object.lastHigh
    /\ port = Applied(pin, [output |-> FALSE, latch |-> FALSE])
    /\ wire = "Floating"
    /\ virtual = [direction |-> pin.direction, outputHigh |-> pin.lastHigh, externalHigh |-> FALSE]

writeHigh(high) ==
    /\ pin' = [pin EXCEPT !.lastHigh = high]
    /\ port' = digitalWrite(port, PinLevel(pin, high))
    /\ virtual' = [virtual EXCEPT !.outputHigh = high]
    /\ UNCHANGED wire

setDirection(direction) ==
    /\ pin' = [pin EXCEPT !.direction = direction]
    /\ port' = Applied(pin', port)
    /\ virtual' = [virtual EXCEPT !.direction = direction]
    /\ UNCHANGED wire

\* The test drives the virtual pin as the outside drives the real one.
Drive(level) ==
    /\ wire' = level
    /\ virtual' = [virtual EXCEPT !.externalHigh = PinLevel(pin, level = "High")]
    /\ UNCHANGED <<pin, port>>

PinNext ==
    /\ chip = "Pin" /\ UNCHANGED driver
    /\ \/ \E high \in BOOLEAN : writeHigh(high)
       \/ \E direction \in Direction : setDirection(direction)
       \/ \E level \in {"Low", "High", "Floating"} : Drive(level)

\* The physical level: the latch of an output, the wire of an input.
Physical == IF port.output THEN port.latch ELSE wire = "High"

readHigh == PinLevel(pin, Physical)

VirtualReadHigh == IF virtual.direction = "Output" THEN virtual.outputHigh
                                                   ELSE virtual.externalHigh

-----------------------------------------------------------------------------
(***************************************************************************)
(* Code tested with a virtual pin sees the same on the board: whatever was *)
(* written in which direction, an output has the last level, and an input  *)
(* that is driven from outside has that one's, with either polarity.       *)
(***************************************************************************)
ReadsLikeVirtualPin ==
    port.output \/ wire # "Floating" => readHigh = VirtualReadHigh
=============================================================================
