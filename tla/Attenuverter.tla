----------------------------- MODULE Attenuverter -----------------------------
(***************************************************************************)
(* The firmware nano-r3-attenuverter: every LOOP_PERIOD_US microseconds it *)
(* reads a CV and two potentiometers, computes an output voltage, writes   *)
(* it to channel A of an MCP4922 without LDAC, and shows its polarity on   *)
(* an LED.  Voltages, gains and codes are exact fractions with the common  *)
(* denominators below, where the code has floats.                          *)
(***************************************************************************)
EXTENDS DacOutputs, Integers

CONSTANTS
    ADC_MAX_CODE, DAC_MAX_CODE,
    DeadZone,         \* ATTENUATION_DEAD_ZONE and BALANCE_DEAD_ZONE, in 1 / ADC_MAX_CODE
    LedThreshold,     \* LED_ZERO_THRESHOLD_VOLTS, in 1 / Whole of 5 volts
    LedRoundsToZero,  \* the largest magnitude whose PWM value is rounded to 0, likewise
    OVERSAMPLE_COUNT,
    CvCode, PotCode,  \* the codes the jack and the potentiometers have
    LOOP_PERIOD_US,
    ReadTime,         \* the time to read one input, in the unit of the period
    ClockRange        \* the period of micros(), 2^32 in the code

Channel == 1   \* Mcp4922Channel::A

Span == ADC_MAX_CODE - DeadZone
Whole == ADC_MAX_CODE * Span * Span    \* 5 volts

AttenuverterAssumption ==
    /\ ADC_MAX_CODE \in Nat /\ DAC_MAX_CODE \in Nat
    /\ CvCode \cup PotCode \subseteq 0 .. ADC_MAX_CODE
    /\ DeadZone \in 0 .. ADC_MAX_CODE - 1
    /\ LedThreshold \in 0 .. Whole /\ LedRoundsToZero \in 0 .. Whole
    /\ OVERSAMPLE_COUNT \in Nat \ {0}
    /\ LOOP_PERIOD_US \in 1 .. ClockRange \div 2 /\ ClockRange % 2 = 0

VARIABLES
    at,       \* "wait" in front of loop()'s deadline test, or the step after it
    lag,      \* micros() - nextUpdateUs, before it wraps
    level,    \* what the three inputs carry
    reading,  \* cvCode, attenuationCode and balanceCode
    led       \* the polarity the LED shows: its green die, its red die, or none

attenuverter == <<at, lag, level, reading, led>>

Input == {"cv", "attenuation", "balance"}
Levels == [cv : CvCode, attenuation : PotCode, balance : PotCode]

AttenuverterTypeOK ==
    /\ at \in {"wait", "cv", "attenuation", "balance", "set", "flush", "safe", "retry"}
    /\ lag \in -LOOP_PERIOD_US .. ClockRange + 3 * ReadTime
    /\ level \in Levels
    /\ reading \in [Input -> 0 .. ADC_MAX_CODE]
    /\ led \in {"green", "red", "dark"}

-----------------------------------------------------------------------------
(***************************************************************************)
(* The arithmetic: applyCenteredDeadZone() of a bipolar value in           *)
(* 1 / ADC_MAX_CODE, the scales and the output of process(), the 12-bit    *)
(* code.                                                                   *)
(***************************************************************************)
Bipolar(code) == 2 * code - ADC_MAX_CODE

applyCenteredDeadZone(value) ==
    IF value \in -DeadZone .. DeadZone THEN 0
    ELSE IF value > 0 THEN value - DeadZone ELSE value + DeadZone

positiveScale(balance) == IF balance < 0 THEN Span + balance ELSE Span
negativeScale(balance) == IF balance > 0 THEN Span - balance ELSE Span

process(volts, attenuation, balance) ==
    LET attenuated == volts * attenuation
    IN  attenuated * (IF attenuated >= 0 THEN positiveScale(balance) ELSE negativeScale(balance))

Requested(codesRead) ==
    process(Bipolar(codesRead.cv),
            applyCenteredDeadZone(Bipolar(codesRead.attenuation)),
            applyCenteredDeadZone(Bipolar(codesRead.balance)))

\* lround() of a number that is not negative: a half is rounded up.
outputVoltsToDacCode(volts) ==
    ((volts + Whole) * DAC_MAX_CODE + Whole) \div (2 * Whole)

(***************************************************************************)
(* The PWM value is 255 * (magnitude / 5 volts) ^ 1.8, rounded: also above *)
(* the threshold of 25 mV it is 0, and the LED dark, up to about 157 mV.   *)
(***************************************************************************)
LedLights(magnitude) == magnitude > LedThreshold /\ magnitude > LedRoundsToZero

Polarity(volts) ==
    CASE LedLights(volts)  -> "green"
      [] LedLights(-volts) -> "red"
      [] OTHER             -> "dark"

-----------------------------------------------------------------------------
(***************************************************************************)
(* setup() up to the first loop().                                         *)
(***************************************************************************)
AttenuverterInit ==
    /\ chip = "MCP4922" /\ ldac = FALSE
    /\ codes = [PoweredOn EXCEPT ![Channel] = outputVoltsToDacCode(0)]
    /\ input \in {PoweredOn, codes} /\ output = input
    /\ result \in IF input = codes THEN {"Success", "Error"} ELSE {"Error"}
    /\ pc = "Idle" /\ next = 1 /\ before = PoweredOn
    /\ at = "wait" /\ lag = 0 /\ led = "dark"
    /\ level \in Levels /\ reading = [i \in Input |-> 0]

(***************************************************************************)
(* The deadline test of loop(), on the difference as a signed 32-bit       *)
(* number; a pass that comes too early takes a unit of time.  A whole      *)
(* period of the clock that has gone by is not seen by any later test.     *)
(***************************************************************************)
Wrapped(difference) == difference % ClockRange
Due == Wrapped(lag) < ClockRange \div 2

tooEarly ==
    /\ at = "wait" /\ ~Due
    /\ lag' = lag + 1
    /\ UNCHANGED <<driver, dac, at, level, reading, led>>

begin ==
    /\ at = "wait" /\ Due
    /\ at' = "cv"
    /\ lag' = Wrapped(lag) - LOOP_PERIOD_US
    /\ UNCHANGED <<driver, dac, level, reading, led>>

(***************************************************************************)
(* readAveragedAdc(); an input may change in the middle of it.             *)
(***************************************************************************)
After == [cv |-> "attenuation", attenuation |-> "balance", balance |-> "set"]

\* Faulty: one sample too few is added up.
AveragedOneShort(early, was, now) ==
    (early * was + (OVERSAMPLE_COUNT - early - 1) * now) \div OVERSAMPLE_COUNT
Averaged(early, was, now) ==
    (early * was + (OVERSAMPLE_COUNT - early) * now) \div OVERSAMPLE_COUNT

readAveragedAdc(i) ==
    /\ at = i /\ at' = After[i]
    /\ \E changed \in Levels, early \in 0 .. OVERSAMPLE_COUNT :
          /\ early = OVERSAMPLE_COUNT => changed = level
          /\ \A j \in Input \ {i} : changed[j] = level[j]
          /\ level' = changed
          /\ reading' = [reading EXCEPT ![i] = Averaged(early, level[i], changed[i])]
    /\ lag' = lag + ReadTime
    /\ UNCHANGED <<driver, dac, led>>

(***************************************************************************)
(* The rest of loop(): the code goes into the buffer, its frame to the     *)
(* converter, and the LED follows if that succeeded; if not, the code of   *)
(* 0 volts is tried, and the LED goes out whatever comes of it.            *)
(***************************************************************************)
Resume(there) ==
    /\ at' = there
    /\ reading' = IF there = "wait" THEN [i \in Input |-> 0] ELSE reading
    /\ UNCHANGED <<lag, level>>

setOutput ==
    /\ at = "set" /\ setCode(Channel, outputVoltsToDacCode(Requested(reading)))
    /\ Resume("flush") /\ UNCHANGED led

Shown(r, volts) == IF r = "Success" THEN Polarity(volts) ELSE led

\* Faulty: the LED goes out only if the code of 0 volts was written.
PutOutIfWritten(r) == Shown(r, 0)
PutOut(r) == Polarity(0)

flushOutput ==
    /\ at = "flush" /\ flushChannel(Channel)
    /\ led' = Shown(result', Requested(reading))
    /\ Resume(IF result' = "Success" THEN "wait" ELSE "safe")

enterSafeState ==
    \/ /\ at = "safe" /\ setCode(Channel, outputVoltsToDacCode(0))
       /\ Resume("retry") /\ UNCHANGED led
    \/ /\ at = "retry" /\ flushChannel(Channel)
       /\ led' = PutOut(result')
       /\ Resume("wait")

AttenuverterStep ==
    \/ tooEarly \/ begin \/ setOutput \/ flushOutput \/ enterSafeState
    \/ \E i \in Input : readAveragedAdc(i)

-----------------------------------------------------------------------------
(***************************************************************************)
(* The LED is no feedback from the jack, but between two passes of loop()  *)
(* it never lies: a lit die tells the polarity of the voltage the          *)
(* converter holds, also after writes of which nobody knows whether they   *)
(* arrived, in the loop and in the attempt to reach the safe state.  A     *)
(* dark LED tells nothing: a weak voltage does not light it.               *)
(***************************************************************************)
LedTellsPolarity ==
    (chip = "MCP4922" /\ at = "wait") =>
        /\ led = "green" => 2 * output[Channel] > DAC_MAX_CODE
        /\ led = "red" => 2 * output[Channel] < DAC_MAX_CODE

(***************************************************************************)
(* Once the inputs rest and the bus works, the output becomes what the     *)
(* inputs ask for and the LED shows it, as far as its brightness is not    *)
(* rounded to 0, from then on; also if a pass takes longer than            *)
(* LOOP_PERIOD_US, so that the deadline test is wrong for half a period of *)
(* the clock.                                                              *)
(***************************************************************************)
OutputFollowsInputs ==
    \/ []<><<level' # level>>_level
    \/ []<>(result = "Error")
    \/ <>[](/\ output[Channel] = outputVoltsToDacCode(Requested(level))
            /\ led = Polarity(Requested(level)))

(***************************************************************************)
(* "Signed subtraction is the conventional wrap-safe deadline test"        *)
(* (main.cpp): an update that is overdue is due.                           *)
(***************************************************************************)
OverdueIsDue == (at = "wait" /\ lag >= 0) => Due
=============================================================================
