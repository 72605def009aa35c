----------------------------- MODULE Applications -----------------------------
(***************************************************************************)
(* One program at a time, run over the drivers: a caller that uses a       *)
(* driver in every way there is (module Drivers), the firmwares            *)
(* nano-r3-attenuverter and nano-r3-oled-controller, and an application    *)
(* that draws on a canvas, primitives or widgets.                          *)
(***************************************************************************)
EXTENDS Drivers

CONSTANTS
    ADC_MAX_CODE, DAC_MAX_CODE, DeadZone, LedThreshold, LedRoundsToZero,
    OVERSAMPLE_COUNT, CvCode, PotCode, LOOP_PERIOD_US, ReadTime,
    ClockRange,                                                 \* of the attenuverter
    MUX_CHANNELS_USED, MuxCode, MaxOutages,                     \* of the controller
    CanvasWidth, CanvasHeight, Bits, GlyphWidth, GlyphHeight, horizontalSpacing,
    Shapes, Clips, Texts, MaxDrawn,                             \* of the canvas
    Boxes, Lengths, Messages, Space, MaxItems, rowHeight, Quarters  \* of the widgets

VARIABLES
    app,     \* the program; it does not change
    at, lag, level, reading, led,
    pressed, gate, statusLed, g_muxChannel, g_muxChannelCodes, controls, outages,
    lit, clip, call, drawn,
    menu, painted

Firmware == INSTANCE Attenuverter
Panel == INSTANCE OledController
Screen == INSTANCE Widgets

attenuverterState == <<lag, level, reading, led>>
controllerState ==
    <<pressed, gate, statusLed, g_muxChannel, g_muxChannelCodes, controls, outages>>
screenState == <<lit, clip, call, drawn, menu, painted>>
programs == <<app, at, attenuverterState, controllerState, screenState>>

vars == <<driver, outputChips, otherChips, programs>>

ASSUME ProgramsAssumption ==
    /\ Firmware!AttenuverterAssumption /\ Panel!ControllerAssumption
    /\ Screen!WidgetsAssumption

(***************************************************************************)
(* What belongs to the programs that do not run has one value.             *)
(***************************************************************************)
NoAttenuverter ==
    /\ lag = 0 /\ led = "dark"
    /\ level = [i \in Firmware!Input |-> 0] /\ reading = level
NoController ==
    /\ pressed = FALSE /\ gate = FALSE /\ statusLed = "ColorA" /\ g_muxChannel = 0 /\ outages = 0
    /\ controls = [c \in Panel!MuxChannel |-> 0] /\ g_muxChannelCodes = controls
NoSketch == lit = {} /\ clip = Screen!bounds /\ call = Screen!NoCall /\ drawn = 0
NoWidgets ==
    /\ menu = [count |-> 0, selected |-> 0, first |-> 0, label |-> 0, value |-> 0]
    /\ painted = Screen!Nothing

NoDriver ==
    /\ chip = "MCP4922" /\ pc = "Idle"
    /\ Leds!LedInit /\ Display!DisplayInit /\ Readers!InputInit /\ Pins!PinInit
    /\ canvas = CHOOSE drawing \in Drawing : TRUE
NoDac == result = "None" /\ Dac!DacInit /\ ldac = FALSE

RigInit ==
    \/ /\ app = "caller" /\ at = "wait"
       /\ Init
       /\ NoAttenuverter /\ NoController /\ NoSketch /\ NoWidgets
    \/ /\ app = "attenuverter"
       /\ Firmware!AttenuverterInit /\ NoDriver /\ Expander!PortInit
       /\ NoController /\ NoSketch /\ NoWidgets
    \/ /\ app = "controller"
       /\ Panel!ControllerInit /\ NoDriver /\ NoDac
       /\ NoAttenuverter /\ NoSketch /\ NoWidgets
    \/ /\ app = "sketch" /\ at = "wait"
       /\ Screen!SketchInit /\ NoDriver /\ NoDac /\ Expander!PortInit
       /\ NoAttenuverter /\ NoController /\ NoWidgets
    \/ /\ app = "widgets" /\ at = "wait"
       /\ Screen!WidgetsInit /\ NoDriver /\ NoDac /\ Expander!PortInit
       /\ NoAttenuverter /\ NoController /\ NoSketch

CallerNext == app = "caller" /\ Next /\ UNCHANGED programs

AttenuverterNext ==
    /\ app = "attenuverter" /\ Firmware!AttenuverterStep
    /\ UNCHANGED <<ledState, displayState, initialized, otherChips,
                   app, controllerState, screenState>>

ControllerRuns ==
    UNCHANGED <<outputChips, readerState, pinState, app, attenuverterState, screenState>>

ControllerStep == app = "controller" /\ Panel!ControllerStep /\ ControllerRuns
ControllerSurroundings ==
    app = "controller" /\ (Panel!MoveControl \/ Panel!Outage) /\ ControllerRuns

ScreenNext ==
    /\ \/ app = "sketch" /\ Screen!SketchNext /\ UNCHANGED <<menu, painted>>
       \/ app = "widgets" /\ Screen!WidgetsNext /\ UNCHANGED <<lit, clip, call, drawn>>
    /\ UNCHANGED <<driver, outputChips, otherChips, app, at, attenuverterState, controllerState>>

RigNext ==
    CallerNext \/ AttenuverterNext \/ ControllerStep \/ ControllerSurroundings \/ ScreenNext

(***************************************************************************)
(* The core of Arduino calls loop() for ever, and no call of a firmware    *)
(* waits for anything but hardware that answers in bounded time: a program *)
(* that can take a step takes one.  Nothing is assumed of the bus, of the  *)
(* controls, or of a caller.                                               *)
(***************************************************************************)
RigSpec ==
    RigInit /\ [][RigNext]_vars /\ WF_vars(AttenuverterNext) /\ WF_vars(ControllerStep)

-----------------------------------------------------------------------------
(***************************************************************************)
(* A lit LED of the attenuverter tells the polarity of its output.         *)
(***************************************************************************)
LedTellsPolarity == app = "attenuverter" => Firmware!LedTellsPolarity

(***************************************************************************)
(* The attenuverter repairs what failing transfers have left: once its     *)
(* inputs rest and the bus works, its output and LED follow its inputs.    *)
(***************************************************************************)
OutputFollowsInputs == app = "attenuverter" => Firmware!OutputFollowsInputs

(***************************************************************************)
(* The latches of the controller's gate and LED follow its button once the *)
(* bus works and the button rests, their pins too unless the one write of  *)
(* their direction was lost, which nothing repairs; and every control      *)
(* behind its multiplexer is read again and again.                         *)
(***************************************************************************)
ControlsAreFollowed ==
    /\ app = "controller" => Panel!OutputsFollowButton /\ Panel!ControlsAreRead
    /\ [][app = "controller" => Panel!FloatingPinsStay]_registers

(***************************************************************************)
(* A primitive draws its shape, every pixel of it once, inside the clip.   *)
(***************************************************************************)
DrawsTheShape == Screen!DrawsTheShape

(***************************************************************************)
(* The selected item of a menu is on the screen, without idle scrolling.   *)
(***************************************************************************)
MenuShowsSelection == Screen!MenuShowsSelection

(***************************************************************************)
(* A widget with room for what it draws paints nothing outside its box     *)
(* but, with a round knob in a box of even width, one column on the right; *)
(* and a wrapped message loses no letter.                                  *)
(***************************************************************************)
PaintsWhatItShould == app = "widgets" => Screen!PaintsWhatItShould

(***************************************************************************)
(* "Signed subtraction is the conventional wrap-safe deadline test"        *)
(* (nano-r3-attenuverter/src/main.cpp): an update that is overdue is due.  *)
(***************************************************************************)
OverdueIsDue == app = "attenuverter" => Firmware!OverdueIsDue

(***************************************************************************)
(* "Each visible item is drawn with MenuItemView::label left-aligned and   *)
(* MenuItemView::value right-aligned" (widgets.hpp): a menu does not fill  *)
(* over what it has written.                                               *)
(***************************************************************************)
MenuItemsAreLegible == app = "widgets" => Screen!MenuItemsAreLegible
=============================================================================
