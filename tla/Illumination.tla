---------------------------- MODULE Illumination ----------------------------
(***************************************************************************)
(* The LED models: DigitalLed, BiColorLed and MulticolorLed, and the two   *)
(* composites that drive a MulticolorLed from a control, IlluminatedButton *)
(* and IlluminatedFader.  They touch no hardware: after every call, a      *)
(* consumer looks at the event flags and the transition count, and writes  *)
(* the outputs when either of them says that something has changed.  pins  *)
(* is what such a consumer has written.                                    *)
(***************************************************************************)
EXTENDS Naturals

CONSTANTS
    Full,              \* 65535: MAX_BRIGHTNESS
    Channel,           \* red, green, blue
    Colors,            \* bound: the colors requested
    MaxTransitions     \* bound: transitions counted since reset(), far
                       \* below 2^32

IlluminationAssumption ==
    /\ Full \in Nat \ {0} /\ MaxTransitions \in Nat
    /\ Colors \subseteq [Channel -> 0 .. Full] /\ Colors # {}

BiColor == {"Off", "ColorA", "ColorB", "Mixed"}
Topology == {"CommonAnode", "CommonCathode", "Bipolar"}
Mode == {"Manual", "ButtonLit", "ButtonDark", "FaderUp", "FaderDown"}

VARIABLES
    kind,        \* the LED this behaviour follows
    wiring,      \* DigitalLedConfig, BiColorLedConfig or the composite's
    led,         \* its snapshot_, and what the calculation has left in it
    pins,        \* what the consumer has written
    seen,        \* the transition count it has seen
    asked        \* history: the state or color last asked of the LED

ledVars == <<kind, wiring, led, pins, seen, asked>>

-----------------------------------------------------------------------------
(***************************************************************************)
(* DigitalLed.  Its outputs are one raw level.                             *)
(***************************************************************************)
toRawOutputHigh(on, activeHigh) == on = activeHigh

DigitalReset ==
    [on |-> wiring.initiallyOn, event |-> FALSE,
     outputs |-> toRawOutputHigh(wiring.initiallyOn, wiring.activeHigh), count |-> 0]

setOn(on) ==
    IF led.on = on THEN [led EXCEPT !.event = FALSE]
    ELSE [on |-> on, event |-> TRUE,
          outputs |-> toRawOutputHigh(on, wiring.activeHigh), count |-> led.count + 1]

-----------------------------------------------------------------------------
(***************************************************************************)
(* BiColorLed.  Its outputs are the drives of the two pins; no topology    *)
(* asks for HighImpedance.                                                 *)
(***************************************************************************)
recalculatePins(color) ==
    LET a == color \in {"ColorA", "Mixed"}
        b == color \in {"ColorB", "Mixed"}
    IN  CASE wiring.topology = "CommonAnode"   -> [a |-> ~a, b |-> ~b]
          [] wiring.topology = "CommonCathode" -> [a |-> a, b |-> b]
          [] OTHER -> [a |-> color = "ColorA", b |-> color = "ColorB"]

effectiveColor(color) ==
    IF wiring.topology = "Bipolar" /\ color = "Mixed" THEN "Off" ELSE color

BiColorState(color, event, count) ==
    [requested |-> color, effective |-> effectiveColor(color), event |-> event,
     outputs |-> recalculatePins(color), count |-> count]

BiColorReset == BiColorState(wiring.initialColor, FALSE, 0)

Changed(color) == BiColorState(color, TRUE, led.count + 1)

setBiColor(color) ==
    IF led.requested = color THEN [led EXCEPT !.event = FALSE] ELSE Changed(color)

-----------------------------------------------------------------------------
(***************************************************************************)
(* MulticolorLed.  Its outputs are the effective channels.  The product of *)
(* two 16-bit values and the rounding fit 32 bits.                         *)
(***************************************************************************)
scaleChannel(channel, master) == (channel * master + (Full - 1) \div 2) \div Full

Effective(color, master) == [c \in Channel |-> scaleChannel(color[c], master)]

RgbReset ==
    [requested |-> wiring.initialColor, master |-> wiring.initialMaster,
     event |-> FALSE, count |-> 0,
     outputs |-> Effective(wiring.initialColor, wiring.initialMaster)]

recalculate(state, color, master) ==
    LET effective == Effective(color, master)
        changed   == effective # state.outputs
    IN  [requested |-> color, master |-> master, event |-> changed,
         outputs |-> effective,
         count |-> IF changed THEN state.count + 1 ELSE state.count]

setColor(state, color) == recalculate(state, color, state.master)
setMasterBrightness(state, brightness) == recalculate(state, state.requested, brightness)

(***************************************************************************)
(* updateAutomaticLed() of the button, pressed, and of the fader, at a     *)
(* position of Full steps; lround rounds halves up.                        *)
(***************************************************************************)
Low == IF wiring.minimum < wiring.maximum THEN wiring.minimum ELSE wiring.maximum
High == IF wiring.minimum < wiring.maximum THEN wiring.maximum ELSE wiring.minimum
Travelled(position) == Low + (2 * position * (High - Low) + Full) \div (2 * Full)

Automatic(state, pressed, position) ==
    CASE wiring.mode = "Manual"     -> state
      [] wiring.mode = "ButtonLit"  ->
             setColor(state, IF pressed THEN wiring.active ELSE wiring.initialColor)
      [] wiring.mode = "ButtonDark" ->
             setColor(state, IF pressed THEN wiring.initialColor ELSE wiring.active)
      [] wiring.mode = "FaderUp"    -> setMasterBrightness(state, Travelled(position))
      [] wiring.mode = "FaderDown"  -> setMasterBrightness(state, Travelled(Full - position))

-----------------------------------------------------------------------------
(***************************************************************************)
(* The calls, each followed by the consumer.                               *)
(***************************************************************************)
\* Faulty: a consumer's view that the event flag alone is enough.
OnlyEvents(next) == next.event
Announced(next) == next.event \/ next.count # seen

Called(next, color) ==
    /\ next.count <= MaxTransitions
    /\ led' = next
    /\ pins' = IF Announced(next) THEN next.outputs ELSE pins
    /\ seen' = next.count
    /\ asked' = color
    /\ UNCHANGED <<kind, wiring>>

LedInit ==
    /\ \/ /\ kind = "digital"
          /\ wiring \in [initiallyOn : BOOLEAN, activeHigh : BOOLEAN]
          /\ led = DigitalReset /\ asked = wiring.initiallyOn
       \/ /\ kind = "bicolor"
          /\ wiring \in [topology : Topology, initialColor : BiColor]
          /\ led = BiColorReset /\ asked = wiring.initialColor
       \/ /\ kind = "rgb"
          /\ wiring \in [mode : Mode, initialColor : Colors, initialMaster : {0, Full},
                         active : Colors, minimum : {0, Full}, maximum : {1, Full}]
          /\ wiring.initialMaster =
                 CASE wiring.mode \in {"FaderUp", "FaderDown"} -> wiring.minimum
                   [] wiring.mode \in {"ButtonLit", "ButtonDark"} -> Full
                   [] OTHER -> wiring.initialMaster
          /\ led = RgbReset /\ asked = wiring.initialColor
    /\ pins = led.outputs
    /\ seen = 0

DigitalCall ==
    /\ kind = "digital"
    /\ \/ Called(DigitalReset, wiring.initiallyOn)
       \/ \E on \in BOOLEAN : Called(setOn(on), on)      \* turnOn, turnOff, toggle

BiColorCall ==
    /\ kind = "bicolor"
    /\ \/ Called(BiColorReset, wiring.initialColor)
       \/ \E color \in BiColor : Called(setBiColor(color), color)

RgbCall ==
    /\ kind = "rgb"
    /\ \/ \E color \in Colors : Called(setColor(led, color), color)
       \/ \E brightness \in 0 .. Full :
              Called(setMasterBrightness(led, brightness), asked)

Sample ==
    /\ kind = "rgb"
    /\ \E pressed \in BOOLEAN, position \in 0 .. Full, restart \in BOOLEAN :
           LET next == Automatic(IF restart THEN RgbReset ELSE led, pressed, position)
           IN  Called(next, next.requested)

LedNext == DigitalCall \/ BiColorCall \/ RgbCall \/ Sample

-----------------------------------------------------------------------------
(***************************************************************************)
(* The event flags and the transition count of an LED together announce    *)
(* every change of its outputs, those of a reset() included: what the      *)
(* consumer has written lights what was last asked, for every wiring.  A   *)
(* digital LED is on or off by the parity of its count; full brightness    *)
(* and no brightness scale a color to itself and to black.                 *)
(***************************************************************************)
PinsShowTheLed ==
    CASE kind = "digital" ->
             /\ (pins = wiring.activeHigh) <=> asked
             /\ (led.count % 2 = 0) <=> (asked = wiring.initiallyOn)
      [] kind = "bicolor" ->
             LET lit == CASE wiring.topology = "CommonAnode"   -> [a |-> ~pins.a, b |-> ~pins.b]
                          [] wiring.topology = "CommonCathode" -> pins
                          [] OTHER -> [a |-> pins.a /\ ~pins.b, b |-> pins.b /\ ~pins.a]
                 shown == IF wiring.topology = "Bipolar" /\ asked = "Mixed" THEN "Off" ELSE asked
             IN  /\ lit.a <=> shown \in {"ColorA", "Mixed"}
                 /\ lit.b <=> shown \in {"ColorB", "Mixed"}
                 /\ led.effective = shown
      [] kind = "rgb" ->
             /\ pins = led.outputs
             /\ led.master = Full => pins = asked
             /\ led.master = 0 => \A c \in Channel : pins[c] = 0
=============================================================================
