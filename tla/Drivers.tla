------------------------------- MODULE Drivers -------------------------------
(***************************************************************************)
(* The drivers of the chips and pins.  Their objects share nothing but the *)
(* bus, which carries one transaction at a time and keeps nothing of it: a *)
(* behaviour follows one driver, for the chip chosen at the start.         *)
(***************************************************************************)
EXTENDS ChipDriver, Naturals

CONSTANTS
    Cells, Level, Dark, Startup, Noise,              \* of the LED chains
    LastChannel, Code, PowerOnCode,                  \* of the converters
    Pages, Width, MaxChunk, ColumnOffset, Drawing,   \* of the displays
    Pin, BankA, Mask, MaxUnreported,                 \* of the port expander
    Answer, Silence, MaxQueued, MuxChannels, Connected  \* of the input chips

VARIABLES
    values, shift, latched, blank, config, stage, channel, complete,
    codes, input, output, ldac, next, before,
    canvas, memory, pointer, window, page, offset,
    initialized,       \* of the LED chains and of the displays
    shadow, inputs, registers, reported, sampled,
    spi, borrowed, cache, answered, lines, currentChannel,
    pin, port, wire, virtual

Leds == INSTANCE LedChain
Dac == INSTANCE DacOutputs
Display == INSTANCE PagedDisplay
Expander == INSTANCE PortExpander
Readers == INSTANCE InputChips
Pins == INSTANCE PortPins

ledState == <<values, shift, latched, blank, config, stage, channel, complete>>
dacState == <<codes, input, output, ldac, next, before>>
displayState == <<canvas, memory, pointer, window, page, offset>>
expanderState == <<shadow, inputs, registers, reported, sampled>>
readerState == <<spi, borrowed, cache, answered, lines, currentChannel>>
pinState == <<pin, port, wire, virtual>>
outputChips == <<ledState, dacState, displayState, initialized>>
otherChips == <<expanderState, readerState, pinState>>

ASSUME DriversAssumption ==
    /\ Leds!LedAssumption /\ Dac!DacAssumption /\ Display!DisplayAssumption
    /\ Expander!PortAssumption /\ Readers!InputAssumption

Init ==
    /\ chip \in Leds!LedChips \cup Dac!DacChips \cup Display!DisplayChips
                \cup {"MCP23017", "Pin"} \cup Readers!InputChipNames
    /\ pc = "Idle" /\ result = "None"
    /\ Leds!LedInit /\ Dac!DacInit /\ Display!DisplayInit
    /\ Expander!PortInit /\ Readers!InputInit /\ Pins!PinInit
    \* What belongs to the other drivers has one value.
    /\ chip \notin Leds!LedChips =>
            config = [startup |-> "Silent", enable |-> TRUE]
    /\ chip \notin Dac!DacChips => ~ldac
    /\ chip \notin Display!DisplayChips => canvas = CHOOSE drawing \in Drawing : TRUE

Next ==
    \/ /\ UNCHANGED otherChips
       /\ \/ Leds!LedNext /\ UNCHANGED <<dacState, displayState>>
          \/ Dac!DacNext /\ UNCHANGED <<ledState, displayState, initialized>>
          \/ Display!DisplayNext /\ UNCHANGED <<ledState, dacState>>
    \/ /\ UNCHANGED outputChips
       /\ \/ Expander!PortNext /\ UNCHANGED <<readerState, pinState>>
          \/ Readers!InputNext /\ UNCHANGED <<expanderState, pinState>>
          \/ Pins!PinNext /\ UNCHANGED <<expanderState, readerState>>

Spec == Init /\ [][Next]_<<driver, outputChips, otherChips>>

-----------------------------------------------------------------------------
(***************************************************************************)
(* Registers, buffers, pointers and program counters of all drivers keep   *)
(* their types; the address pointer of a display stays inside its memory.  *)
(***************************************************************************)
TypeOK ==
    /\ pc \in {"Idle", "Begin", "Transfer", "Latch", "Frame", "Pulse", "Address", "Data"}
    /\ result \in IoResult
    /\ Leds!LedTypeOK /\ Dac!DacTypeOK /\ Display!DisplayTypeOK
    /\ Expander!PortTypeOK /\ Readers!InputTypeOK /\ Pins!PinTypeOK

(***************************************************************************)
(* A TLC5947 shows nothing but what was latched into it, from the moment   *)
(* its outputs are switched on; and a transfer that failed half way mixes  *)
(* nothing into what the LEDs of any chain show.                           *)
(***************************************************************************)
LampsShowWholeFrames == Leds!VisibleIsKnown /\ Leds!LampsShowWholeFrames

(***************************************************************************)
(* The outputs of a converter change together or not at all.               *)
(***************************************************************************)
FlushIsAllOrNothing == Dac!FlushIsAllOrNothing

(***************************************************************************)
(* A display shows the canvas after a flush that succeeded, and never a    *)
(* byte at a wrong place.                                                  *)
(***************************************************************************)
DisplayFollowsCanvas == Display!DisplayFollowsCanvas

(***************************************************************************)
(* What the port expander driver reported as written is what the device    *)
(* holds, and its inputs are one complete answer.                          *)
(***************************************************************************)
ReportedIsEffective == Expander!ReportedIsEffective

(***************************************************************************)
(* A chip that is read leaves the bus to its owner, and hands out the      *)
(* answer that was due to it.                                              *)
(***************************************************************************)
AnswersAreOwn == Readers!AnswersAreOwn

(***************************************************************************)
(* A pin of the board reads like the virtual pin that replaces it.         *)
(***************************************************************************)
ReadsLikeVirtualPin == Pins!ReadsLikeVirtualPin

(***************************************************************************)
(* "pulses the latch only after the complete chain has been transferred"   *)
(* (shift_register_74hc595.cpp): the 74HC595 latches complete chains only. *)
(***************************************************************************)
LatchesOnlyCompleteChains == Leds!LatchesOnlyCompleteChains
=============================================================================
