------------------------------- MODULE LedChain -------------------------------
(***************************************************************************)
(* Chains of shift registers with an output latch: the 74HC595, and the    *)
(* TLC5916 and TLC5947 LED drivers.  A frame is shifted through the chain  *)
(* cell by cell, and a pulse on the latch pin copies the shift registers   *)
(* to the outputs.  A cell stands for what one device holds; order in a    *)
(* sequence is the order of shifting, so the first cell is the farthest.   *)
(* The output-enable pin is connected.                                     *)
(***************************************************************************)
EXTENDS ChipDriver, Naturals, Sequences, SequencesExt

CONSTANTS
    Cells,      \* cells in the chain
    Level,      \* values a caller may set, Dark among them
    Dark,       \* the value 0
    Startup,    \* config_.startupBrightness
    Noise       \* what the registers hold when power comes up

LedAssumption == Cells \in Nat \ {0} /\ Dark \in Level /\ Noise \notin Level \cup {Startup}

VARIABLES
    values,       \* values_, or buffer_ of the 74HC595
    shift,        \* the shift registers
    latched,      \* the output registers
    blank,        \* the outputs are switched off
    config,       \* startupMode and enableAfterInitialize of config_
    initialized,  \* initialized_
    stage,        \* who called flush(): the application, or a stage of initialize()
    channel,      \* the channel of the startup sequence
    complete      \* history: the last frame latched that was shifted as a whole

LedChips == {"74HC595", "TLC5916", "TLC5947"}
Channel == 1 .. Cells
AllAt(v) == [c \in Channel |-> v]
Frames == [Channel -> Level \cup {Startup, Noise}]

LedTypeOK ==
    /\ values \in [Channel -> Level \cup {Startup}]
    /\ shift \in Frames /\ latched \in Frames /\ complete \in Frames
    /\ blank \in BOOLEAN /\ initialized \in BOOLEAN
    /\ config \in [startup : {"Silent", "Sequential", "AllFlash"}, enable : BOOLEAN]
    /\ stage \in {"Flush", "Zero", "Flash", "Clear"}
    /\ channel \in Channel

LedInit ==
    /\ values = AllAt(Dark)
    /\ shift = AllAt(Noise) /\ latched = AllAt(Noise) /\ complete = AllAt(Noise)
    /\ blank = (chip = "TLC5947")
    /\ config \in [startup : {"Silent", "Sequential", "AllFlash"}, enable : BOOLEAN]
    /\ chip # "TLC5947" => config = [startup |-> "Silent", enable |-> TRUE]
    /\ initialized = FALSE
    /\ stage = "Flush" /\ channel = 1

(***************************************************************************)
(* What the application calls.                                             *)
(***************************************************************************)
setBrightness(c, v) ==
    /\ Idle
    /\ values' = [values EXCEPT ![c] = v]
    /\ UNCHANGED <<driver, shift, latched, blank, config, initialized, stage, channel, complete>>

clear ==
    /\ Idle
    /\ values' = AllAt(Dark)
    /\ UNCHANGED <<driver, shift, latched, blank, config, initialized, stage, channel, complete>>

(***************************************************************************)
(* An application switches the TLC5947 on only after an initialize() that  *)
(* returned Success.                                                       *)
(***************************************************************************)
setEnabled(enabled) ==
    /\ Idle
    /\ enabled /\ chip = "TLC5947" => initialized
    /\ blank' = ~enabled
    /\ UNCHANGED <<driver, values, shift, latched, config, initialized, stage, channel, complete>>

flush ==
    /\ Idle
    /\ pc' = "Begin" /\ stage' = "Flush"
    /\ UNCHANGED <<chip, result, values, shift, latched, blank, config, initialized, channel,
                   complete>>

initialize ==
    /\ Idle /\ chip = "TLC5947"
    /\ blank' = TRUE
    /\ values' = AllAt(Dark)
    /\ pc' = "Begin" /\ stage' = "Zero" /\ channel' = 1
    /\ UNCHANGED <<chip, result, shift, latched, config, initialized, complete>>

(***************************************************************************)
(* flush() has returned to runStartupSequence() or initialize().           *)
(***************************************************************************)
Finished ==
    /\ initialized' = TRUE
    /\ blank' = ~config.enable
    /\ Return("Success")
    /\ UNCHANGED <<values, stage, channel>>

StartupValues(c) ==
    IF config.startup = "Sequential"
    THEN [AllAt(Dark) EXCEPT ![c] = Startup]
    ELSE AllAt(Startup)

Flash(c) ==
    /\ values' = StartupValues(c)
    /\ channel' = c
    /\ pc' = "Begin" /\ stage' = "Flash"
    /\ blank' = FALSE
    /\ UNCHANGED <<result, initialized>>

LastFlash == config.startup = "AllFlash" \/ channel = Cells

ClearAgain ==
    /\ values' = AllAt(Dark)
    /\ pc' = "Begin" /\ stage' = "Clear"
    /\ UNCHANGED <<result, blank, initialized, channel>>

Succeeded ==
    \/ /\ stage = "Flush"
       /\ Return("Success") /\ UNCHANGED <<values, blank, initialized, stage, channel>>
    \/ stage = "Zero" /\ config.startup = "Silent" /\ Finished
    \/ stage = "Zero" /\ config.startup # "Silent" /\ Flash(1)
    \/ stage = "Flash" /\ ~LastFlash /\ Flash(channel + 1)
    \/ stage = "Flash" /\ LastFlash /\ ClearAgain
    \/ stage = "Clear" /\ Finished

Failed ==
    /\ Return("Error")
    /\ blank' = (blank \/ stage \in {"Flash", "Clear"})
    /\ UNCHANGED <<values, initialized, stage, channel>>

(***************************************************************************)
(* The steps of flush().  The TLC5947 packs its last channel first.        *)
(***************************************************************************)
Frame == IF chip = "TLC5947" THEN Reverse(values) ELSE values

Shifted(count) == SubSeq(shift, count + 1, Cells) \o SubSeq(Frame, 1, count)

BeginTransaction ==
    /\ pc = "Begin"
    /\ \/ pc' = "Transfer" /\ UNCHANGED <<result, values, blank, initialized, stage, channel>>
       \/ Failed
    /\ UNCHANGED <<chip, shift, latched, config, complete>>

\* Faulty: the latch is pulsed whatever the bus answered.
LatchAlways == TRUE
LatchAfterError == chip # "TLC5947"

Transfer ==
    /\ pc = "Transfer"
    /\ shift' = Shifted(Cells)
    /\ pc' = "Latch" /\ result' = "Success"
    /\ UNCHANGED <<chip, values, latched, blank, config, initialized, stage, channel, complete>>

TransferFails(count) ==
    /\ pc = "Transfer"
    /\ shift' = Shifted(count)
    /\ IF LatchAfterError
       THEN /\ pc' = "Latch" /\ result' = "Error"
            /\ UNCHANGED <<values, blank, initialized, stage, channel>>
       ELSE Failed
    /\ UNCHANGED <<chip, latched, config, complete>>

Latch ==
    /\ pc = "Latch"
    /\ latched' = shift
    /\ complete' = IF result = "Success" THEN Frame ELSE complete
    /\ IF result = "Success" THEN Succeeded ELSE Failed
    /\ UNCHANGED <<chip, shift, config>>

LedNext ==
    /\ chip \in LedChips
    /\ \/ \E c \in Channel, v \in Level : setBrightness(c, v)
       \/ \E enabled \in BOOLEAN : setEnabled(enabled)
       \/ clear \/ flush \/ initialize
       \/ BeginTransaction \/ Transfer \/ Latch
       \/ \E count \in 0 .. Cells : TransferFails(count)

-----------------------------------------------------------------------------
(***************************************************************************)
(* "The implementation keeps outputs blanked until a complete zero frame   *)
(* has been shifted and latched" (tlc5947.cpp): while the LEDs are on they *)
(* never show what the registers held at power-up, however initialize(),   *)
(* its startup sequence and later flushes failed.                          *)
(***************************************************************************)
VisibleIsKnown ==
    chip = "TLC5947" /\ ~blank => \A c \in Channel : latched[c] # Noise

(***************************************************************************)
(* The outputs of a TLC5947 are always those of the last flush() whose     *)
(* frame reached the chain as a whole: a transfer that failed half way     *)
(* mixes nothing into them, now or at a later flush().  Of the other two   *)
(* chips this is only so from a flush() that succeeds to the next one.     *)
(***************************************************************************)
LampsShowWholeFrames ==
    chip = "TLC5947" \/ (Idle /\ result = "Success") => latched = complete

(***************************************************************************)
(* "pulses the latch only after the complete chain has been transferred"   *)
(* (shift_register_74hc595.cpp).  It does not: the latch is pulsed         *)
(* whatever transfer() returned.                                           *)
(***************************************************************************)
LatchesOnlyCompleteChains == chip = "74HC595" => latched = complete
=============================================================================
