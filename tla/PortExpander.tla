----------------------------- MODULE PortExpander -----------------------------
(***************************************************************************)
(* The MCP23017 driver.  It keeps a copy of the four register pairs it     *)
(* writes, changes the copy first and then writes the pair in one I2C      *)
(* transaction, bank A before bank B; a transaction that fails may have    *)
(* delivered none, the first or both of the bytes.  A mask is the set of   *)
(* the pins whose bit is set.                                              *)
(***************************************************************************)
EXTENDS ChipDriver, FiniteSets, Integers

CONSTANTS
    Pin,    \* the pins that are used, of the sixteen
    BankA,  \* those of them in the low byte
    Mask,   \* the masks callers pass to the setters
    MaxUnreported  \* bound: the registers whose last write failed

PortAssumption ==
    BankA \subseteq Pin /\ Mask \subseteq SUBSET Pin /\ MaxUnreported \in 0 .. 4

VARIABLES
    shadow,    \* direction_, pullups_, polarity_, outputs_
    inputs,    \* inputs_
    registers, \* the registers of the device
    reported,  \* history: the registers whose last write was reported as a
               \* success, or that have not been written; a loss of power
               \* of the device takes out those it changes
    sampled    \* history: what the device answered to the last sample
               \* that was reported as a success

port == <<shadow, inputs, registers, reported, sampled>>

Order == <<"direction", "pullups", "polarity", "outputs">>
Register == {"direction", "pullups", "polarity", "outputs"}
Bank == [Register -> SUBSET Pin]

PortTypeOK ==
    /\ shadow \in Bank /\ registers \in Bank
    /\ inputs \in SUBSET Pin /\ sampled \in SUBSET Pin
    /\ reported \subseteq Register

PowerOnBank == [r \in Register |-> IF r = "direction" THEN Pin ELSE {}]

PortInit ==
    /\ shadow = PowerOnBank /\ registers = PowerOnBank
    /\ inputs = {} /\ sampled = {}
    /\ reported = Register

(***************************************************************************)
(* writeRegister16(): what the device holds after it.                      *)
(***************************************************************************)
Written(bank, r, mask) == [bank EXCEPT ![r] = mask]

CutShort(bank, r, mask) ==
    {Written(bank, r, m) : m \in {bank[r], (mask \cap BankA) \cup (bank[r] \ BankA), mask}}

writeRegister16(r, mask, answer) ==
    \/ /\ answer = "Success"
       /\ registers' = Written(registers, r, mask)
       /\ reported' = reported \cup {r}
    \/ /\ answer = "Error"
       /\ registers' \in CutShort(registers, r, mask)
       /\ reported' = reported \ {r}

(***************************************************************************)
(* setDirection(), setPullUps(), setInputPolarity() and writeOutputs().    *)
(***************************************************************************)
set(r, mask, answer) ==
    /\ shadow' = Written(shadow, r, mask)
    /\ writeRegister16(r, mask, answer)
    /\ UNCHANGED <<inputs, sampled>>

\* Faulty: nothing is sent for a bit that has the level already.
writePinIfChanged(p, high, answer) ==
    IF high <=> p \in shadow.outputs
    THEN answer = "Success" /\ reported' = reported \cup {"outputs"}
         /\ UNCHANGED <<shadow, inputs, registers, sampled>>
    ELSE set("outputs", IF high THEN shadow.outputs \cup {p} ELSE shadow.outputs \ {p}, answer)

writePin(p, high, answer) ==
    set("outputs", IF high THEN shadow.outputs \cup {p} ELSE shadow.outputs \ {p}, answer)

(***************************************************************************)
(* initialize(): all pairs in order, up to the first that fails.           *)
(***************************************************************************)
Restored(n) ==
    LET done == {Order[i] : i \in 1 .. n}
    IN  [r \in Register |-> IF r \in done THEN shadow[r] ELSE registers[r]]

initialize(answer) ==
    /\ \/ /\ answer = "Success"
          /\ registers' = Restored(4) /\ reported' = Register
       \/ /\ answer = "Error"
          /\ \E n \in 0 .. 3 :
                LET failing == Order[n + 1] IN
                /\ registers' \in CutShort(Restored(n), failing, shadow[failing])
                /\ reported' = (reported \cup {Order[i] : i \in 1 .. n}) \ {failing}
    /\ UNCHANGED <<shadow, inputs, sampled>>

(***************************************************************************)
(* sampleInputs(): GPIO with the polarity the device has; an output pin    *)
(* reads its latch.  After a failure the bytes are not used.               *)
(***************************************************************************)
Sampled(answer, gpio) == IF answer = "Success" THEN gpio ELSE inputs

Gpio(levels) ==
    {p \in Pin : (IF p \in registers.direction THEN p \in levels ELSE p \in registers.outputs)
                 # (p \in registers.polarity)}

sampleInputs(levels, answer) ==
    /\ \E arrived \in IF answer = "Success" THEN {Gpio(levels)}
                                            ELSE {Gpio(levels) \cap BankA} :
          inputs' = Sampled(answer, arrived)
    /\ sampled' = IF answer = "Success" THEN Gpio(levels) ELSE sampled
    /\ UNCHANGED <<shadow, registers, reported>>

\* Pins from 16 on.
writeRejected == UNCHANGED port

\* The supply of the device is interrupted; the driver does not notice.
DevicePowerOn ==
    /\ registers' = PowerOnBank
    /\ reported' = {r \in reported : PowerOnBank[r] = shadow[r]}
    /\ UNCHANGED <<shadow, inputs, sampled>>

PortNext ==
    /\ chip = "MCP23017" /\ Idle /\ UNCHANGED chip
    /\ \/ \E answer \in {"Success", "Error"} :
             /\ Return(answer)
             /\ \/ \E r \in Register, mask \in Mask : set(r, mask, answer)
                \/ \E p \in Pin, high \in BOOLEAN : writePin(p, high, answer)
                \/ initialize(answer)
                \/ \E levels \in SUBSET Pin : sampleInputs(levels, answer)
       \/ Return("Error") /\ writeRejected
       \/ UNCHANGED <<pc, result>> /\ DevicePowerOn
    /\ Cardinality(Register \ reported') <= MaxUnreported

-----------------------------------------------------------------------------
(***************************************************************************)
(* The copy changes before the bus is asked and stays changed when the bus *)
(* fails.  Still, what the driver last reported as written is what the     *)
(* device holds, pin by pin, over all failures of other writes; and the    *)
(* inputs are one complete answer of the device, never a part of one.      *)
(***************************************************************************)
ReportedIsEffective ==
    /\ \A r \in reported : registers[r] = shadow[r]
    /\ inputs = sampled
=============================================================================
