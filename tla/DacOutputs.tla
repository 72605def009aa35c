------------------------------ MODULE DacOutputs ------------------------------
(***************************************************************************)
(* D/A converters with an input register and an output register for each   *)
(* channel.  The MCP4822 and the MCP4922 copy input to output for both     *)
(* channels at a pulse on their LDAC pin, or at once where that pin is     *)
(* tied low.  The DAC8568 has frames that write one input register and     *)
(* then copy that register, or all of them.  Every frame is a transaction  *)
(* of its own.  Gain, shutdown and reference bits travel in the same frame *)
(* as the code and are part of it; what a caller does with them apart from *)
(* the code is left out, and so are the power commands of the DAC8568.     *)
(***************************************************************************)
EXTENDS ChipDriver, Naturals

CONSTANTS
    LastChannel,  \* channels are numbered 1 .. LastChannel
    Code,         \* the codes a caller may set
    PowerOnCode   \* what registers and buffers hold at the start, and after reset()

DacAssumption == LastChannel \in Nat \ {0} /\ PowerOnCode \in Code

VARIABLES
    codes,    \* codes_
    input,    \* the input registers
    output,   \* the output registers, that is the voltages
    ldac,     \* the LDAC pin is connected to the driver
    next,     \* the channel whose frame a running flush sends next
    before    \* history: the outputs when the running flush was called

dac == <<codes, input, output, ldac, next, before>>

DacChips == {"MCP4822", "MCP4922", "DAC8568"}
DacChannel == 1 .. LastChannel
Codes == [DacChannel -> Code]
PoweredOn == [c \in DacChannel |-> PowerOnCode]

DacTypeOK ==
    /\ codes \in Codes /\ input \in Codes /\ output \in Codes /\ before \in Codes
    /\ ldac \in BOOLEAN
    /\ next \in DacChannel

DacInit ==
    /\ codes = PoweredOn /\ input = PoweredOn /\ output = PoweredOn /\ before = PoweredOn
    /\ ldac \in BOOLEAN
    /\ chip = "DAC8568" => ~ldac
    /\ next = 1

setCode(c, v) ==
    /\ Idle
    /\ codes' = [codes EXCEPT ![c] = v]
    /\ UNCHANGED <<driver, input, output, ldac, next, before>>

(***************************************************************************)
(* The frames: each writes the input register of channel c.  A transfer    *)
(* that fails may have delivered the frame or not; a frame that is cut     *)
(* short is ignored by the chip.                                           *)
(***************************************************************************)
Delivered(c, command) ==
    /\ input' = [input EXCEPT ![c] = codes[c]]
    /\ output' = CASE command = "WriteInput"              -> output
                   [] command = "WriteInputUpdateChannel" -> [output EXCEPT ![c] = codes[c]]
                   [] command = "WriteInputUpdateAll"     -> input'

transferFrame(c, command, r) ==
    \/ r \in {"Success", "Error"} /\ Delivered(c, command)
    \/ r = "Error" /\ UNCHANGED <<input, output>>

(***************************************************************************)
(* The frame of one channel of an MCP4822 or MCP4922, by itself.  Without  *)
(* LDAC its input register is transparent.                                 *)
(***************************************************************************)
PlainCommand == IF chip = "DAC8568" \/ ldac THEN "WriteInput" ELSE "WriteInputUpdateChannel"

flushChannel(c) ==
    /\ Idle /\ chip # "DAC8568"
    /\ \E r \in {"Success", "Error"} : transferFrame(c, PlainCommand, r) /\ Return(r)
    /\ UNCHANGED <<chip, codes, ldac, next, before>>

latchOutputs ==
    /\ Idle /\ ldac
    /\ output' = input
    /\ UNCHANGED <<driver, codes, input, ldac, next, before>>

(***************************************************************************)
(* The single frames of the DAC8568: writeInput(), writeAndUpdate() and    *)
(* writeAndUpdateAll(), and its reset(), which leaves codes_ as it is.     *)
(***************************************************************************)
writeFrame(c, command) ==
    /\ Idle /\ chip = "DAC8568"
    /\ \E r \in {"Success", "Error"} : transferFrame(c, command, r) /\ Return(r)
    /\ UNCHANGED <<chip, codes, ldac, next, before>>

reset ==
    /\ Idle /\ chip = "DAC8568"
    /\ \/ /\ input' = PoweredOn /\ output' = PoweredOn
          /\ \E r \in {"Success", "Error"} : Return(r)
       \/ UNCHANGED <<input, output>> /\ Return("Error")
    /\ UNCHANGED <<chip, codes, ldac, next, before>>

(***************************************************************************)
(* flushBoth() and flushAll(): one frame after the other, the first error  *)
(* ends it.                                                                *)
(***************************************************************************)
flushAll ==
    /\ Idle
    /\ pc' = "Frame" /\ next' = 1 /\ before' = output
    /\ UNCHANGED <<chip, result, codes, input, output, ldac>>

Command(c) ==
    IF chip = "DAC8568" /\ c = LastChannel THEN "WriteInputUpdateAll" ELSE PlainCommand

\* Faulty: LDAC is pulsed also after an error.
PulseAfterError(r) == chip # "DAC8568" /\ (next = LastChannel \/ r = "Error")
LatchAfter(r) == chip # "DAC8568" /\ next = LastChannel /\ r = "Success"

FlushFrame ==
    /\ pc = "Frame"
    /\ \E r \in {"Success", "Error"} :
        /\ transferFrame(next, Command(next), r)
        /\ \/ /\ LatchAfter(r)
              /\ pc' = "Pulse" /\ result' = r /\ UNCHANGED next
           \/ /\ ~LatchAfter(r) /\ r = "Success" /\ next < LastChannel
              /\ next' = next + 1 /\ UNCHANGED <<pc, result>>
           \/ /\ ~LatchAfter(r) /\ (r = "Error" \/ next = LastChannel)
              /\ Return(r) /\ UNCHANGED next
    /\ UNCHANGED <<chip, codes, ldac, before>>

Pulse ==
    /\ pc = "Pulse"
    /\ output' = IF ldac THEN input ELSE output
    /\ Return(result)
    /\ UNCHANGED <<chip, codes, input, ldac, next, before>>

DacNext ==
    /\ chip \in DacChips
    /\ \/ \E c \in DacChannel, v \in Code : setCode(c, v)
       \/ \E c \in DacChannel : flushChannel(c)
       \/ \E c \in DacChannel,
             command \in {"WriteInput", "WriteInputUpdateChannel", "WriteInputUpdateAll"} :
                writeFrame(c, command)
       \/ latchOutputs \/ reset \/ flushAll \/ FlushFrame \/ Pulse

-----------------------------------------------------------------------------
(***************************************************************************)
(* "a partial failure never latches a mismatched pair of outputs"          *)
(* (mcp4822.cpp, mcp4922.cpp), and the eight outputs of a DAC8568 change   *)
(* together: from the call of flushBoth() or flushAll() to its return the  *)
(* outputs are what they were before it or the buffered codes, whatever    *)
(* earlier calls have left in the input registers and whatever fails, and  *)
(* the codes if it returns Success.  An MCP chip needs its LDAC pin for    *)
(* this, as its header says.                                               *)
(***************************************************************************)
Synchronous == chip = "DAC8568" \/ (chip \in DacChips /\ ldac)

FlushIsAllOrNothing ==
    [][ (Synchronous /\ pc \in {"Frame", "Pulse"}) =>
           /\ output' \in {before, codes}
           /\ (pc' = "Idle" /\ result' = "Success") => output' = codes ]_<<driver, dac>>
=============================================================================
