-------------------------- MODULE ApplicationsProofs --------------------------
(***************************************************************************)
(* The drivers under every program of module Applications, for chains,     *)
(* converters, expanders and multiplexers of any size and every failure of *)
(* the bus: what their chips hold, show and answer.  And the programs: the *)
(* LED of the attenuverter, the scrolling of menus, the boxes of widgets,  *)
(* and the shapes that are drawn on a canvas of any size.                  *)
(*                                                                         *)
(* A behaviour follows one driver, and a firmware that brings its own chip *)
(* leaves the other drivers alone: each invariant below is about one       *)
(* driver's state, and says in its first part what holds of it while       *)
(* another one runs.                                                       *)
(***************************************************************************)
EXTENDS Applications, Integers, SequenceTheorems, FiniteSetTheorems, WellFoundedInduction,
        TLAPS

(***************************************************************************)
(* The chip and the program stay what they were at the start.              *)
(***************************************************************************)
Chips ==
    chip \in {"74HC595", "TLC5916", "TLC5947", "MCP4822", "MCP4922", "DAC8568",
              "SSD1306", "SH1106", "MCP23017", "Pin", "MCP3208", "74HC165", "Multiplexer"}
Programs == app \in {"caller", "attenuverter", "controller", "sketch", "widgets"}

ChipInv ==
    Chips /\ Programs /\ (app # "caller" => chip = "MCP4922")
          /\ (app = "attenuverter" => ldac = FALSE)

LEMMA ChipStays == RigNext => UNCHANGED <<chip, app>>
<1>1. ASSUME Leds!LedNext PROVE chip' = chip
  BY <1>1
  DEF Leds!LedNext, Leds!setBrightness, Leds!setEnabled, Leds!clear, Leds!flush,
      Leds!initialize, Leds!BeginTransaction, Leds!Transfer, Leds!Latch,
      Leds!TransferFails, Leds!driver
<1>2. ASSUME Dac!DacNext PROVE chip' = chip
  BY <1>2
  DEF Dac!DacNext, Dac!setCode, Dac!flushChannel, Dac!writeFrame, Dac!latchOutputs,
      Dac!reset, Dac!flushAll, Dac!FlushFrame, Dac!Pulse, Dac!driver
<1>3. ASSUME Display!DisplayNext PROVE chip' = chip
  BY <1>3
  DEF Display!DisplayNext, Display!draw, Display!InitializeFailsEarly, Display!Busy,
      Display!flush, Display!InitializeEnds, Display!Address, Display!AddressFails,
      Display!Data, Display!PageDone, Display!DataFails, Display!driver
<1>4. ASSUME Expander!PortNext PROVE chip' = chip
  BY <1>4 DEF Expander!PortNext
<1>5. ASSUME Readers!InputNext PROVE chip' = chip
  BY <1>5 DEF Readers!InputNext
<1>6. ASSUME Pins!PinNext PROVE chip' = chip
  BY <1>6 DEF Pins!PinNext, Pins!driver
<1>7. ASSUME Firmware!AttenuverterStep PROVE chip' = chip
  BY <1>7
  DEF Firmware!AttenuverterStep, Firmware!tooEarly, Firmware!begin, Firmware!setOutput,
      Firmware!flushOutput, Firmware!enterSafeState, Firmware!readAveragedAdc,
      Firmware!setCode, Firmware!flushChannel, Firmware!driver
<1>8. ASSUME Panel!ControllerStep \/ Panel!MoveControl \/ Panel!Outage PROVE chip' = chip
  BY <1>8
  DEF Panel!ControllerStep, Panel!setup, Panel!readInputs, Panel!writeOutputs,
      Panel!redrawDisplay, Panel!Access, Panel!MoveControl, Panel!Outage, Panel!driver
<1> QED
  BY <1>1, <1>2, <1>3, <1>4, <1>5, <1>6, <1>7, <1>8
  DEF RigNext, CallerNext, Next, AttenuverterNext, ControllerStep,
      ControllerSurroundings, ControllerRuns, ScreenNext, programs, driver

LEMMA ChipsInvariant == RigSpec => []ChipInv
<1>1. RigInit => ChipInv
  BY DEF RigInit, ChipInv, Chips, Programs, Init, Leds!LedChips, Dac!DacChips,
         Display!DisplayChips, Readers!InputChipNames, NoDriver,
         Firmware!AttenuverterInit
<1>2. ChipInv /\ [RigNext]_vars => ChipInv'
  <2> SUFFICES ASSUME ChipInv, [RigNext]_vars PROVE ChipInv'
    OBVIOUS
  <2>1. UNCHANGED <<chip, app>>
    BY ChipStays DEF vars, driver, programs
  <2>2. app = "attenuverter" => ldac' = ldac
    <3> SUFFICES ASSUME app = "attenuverter" PROVE ldac' = ldac
      OBVIOUS
    <3>1. CASE UNCHANGED vars
      BY <3>1 DEF vars, outputChips, dacState
    <3>2. CASE Firmware!AttenuverterStep
      BY <3>2
      DEF Firmware!AttenuverterStep, Firmware!tooEarly, Firmware!begin,
          Firmware!setOutput, Firmware!flushOutput, Firmware!enterSafeState,
          Firmware!readAveragedAdc, Firmware!setCode, Firmware!flushChannel, Firmware!dac
    <3> QED
      BY <3>1, <3>2 DEF RigNext, CallerNext, AttenuverterNext, ControllerStep,
                        ControllerSurroundings, ScreenNext
  <2> QED
    BY <2>1, <2>2 DEF ChipInv, Chips, Programs
<1> QED
  BY <1>1, <1>2, PTL DEF RigSpec

-----------------------------------------------------------------------------
(***************************************************************************)
(* Pins.  A pin of the port is driven by its latch exactly while the       *)
(* object is an output, and the latch then has the level written last.     *)
(***************************************************************************)
PinInv ==
    /\ pin \in Pins!PinObject
    /\ port \in [output : BOOLEAN, latch : BOOLEAN]
    /\ virtual \in [direction : Pins!Direction, outputHigh : BOOLEAN, externalHigh : BOOLEAN]
    /\ port.output <=> pin.direction = "Output"
    /\ port.output => port.latch = Pins!PinLevel(pin, pin.lastHigh)
    /\ virtual.direction = pin.direction /\ virtual.outputHigh = pin.lastHigh
    /\ wire # "Floating" => virtual.externalHigh = Pins!PinLevel(pin, wire = "High")

LEMMA PinInvInit == RigInit => PinInv
<1> SUFFICES ASSUME RigInit PROVE PinInv
  OBVIOUS
<1>1. Pins!PinInit
  BY DEF RigInit, Init, Firmware!AttenuverterInit, NoDriver
<1>2. pin \in Pins!PinObject
  BY <1>1 DEF Pins!PinInit
<1> QED
  BY <1>1, <1>2
  DEF Pins!PinInit, PinInv, Pins!PinObject, Pins!Direction, Pins!Applied, Pins!pinMode,
      Pins!digitalWrite, Pins!PinLevel

LEMMA PinInvNext == PinInv /\ [RigNext]_vars => PinInv'
<1> SUFFICES ASSUME PinInv, [RigNext]_vars PROVE PinInv'
  OBVIOUS
<1>1. CASE UNCHANGED <<pin, port, wire, virtual>>
  BY <1>1 DEF PinInv, Pins!PinLevel
<1> USE DEF PinInv, Pins!PinObject, Pins!Direction, Pins!PinLevel
<1>2. ASSUME NEW high \in BOOLEAN, Pins!writeHigh(high) PROVE PinInv'
  BY <1>2 DEF Pins!writeHigh, Pins!digitalWrite
<1>3. ASSUME NEW direction \in Pins!Direction, Pins!setDirection(direction) PROVE PinInv'
  <2>1. CASE direction = "Output"
    BY <1>3, <2>1 DEF Pins!setDirection, Pins!Applied, Pins!pinMode, Pins!digitalWrite
  <2>2. CASE direction = "Input"
    BY <1>3, <2>2 DEF Pins!setDirection, Pins!Applied, Pins!pinMode, Pins!digitalWrite
  <2> QED
    BY <2>1, <2>2
<1>4. ASSUME NEW level_ \in {"Low", "High", "Floating"}, Pins!Drive(level_) PROVE PinInv'
  BY <1>4 DEF Pins!Drive
<1>5. Pins!PinNext \/ UNCHANGED <<pin, port, wire, virtual>>
  BY DEF RigNext, CallerNext, Next, AttenuverterNext, ControllerStep,
         ControllerSurroundings, ControllerRuns, ScreenNext, vars, otherChips, pinState
<1> QED
  BY <1>1, <1>2, <1>3, <1>4, <1>5 DEF Pins!PinNext

(***************************************************************************)
(* Whatever was written in which direction, and with either polarity, a    *)
(* pin of the board reads like the virtual pin that replaces it in tests.  *)
(***************************************************************************)
THEOREM PinsReadAlike == RigSpec => []ReadsLikeVirtualPin
<1>1. PinInv => ReadsLikeVirtualPin
  BY DEF PinInv, ReadsLikeVirtualPin, Pins!ReadsLikeVirtualPin, Pins!readHigh, Pins!Physical,
         Pins!VirtualReadHigh, Pins!PinLevel, Pins!PinObject, Pins!Direction
<1> QED
  BY <1>1, PinInvInit, PinInvNext, PTL DEF RigSpec

-----------------------------------------------------------------------------
(***************************************************************************)
(* The port expander, of a caller and of the controller.  A register pair  *)
(* that was reported as written has not changed since, in the copy or in   *)
(* the device; which is so because a write that fails takes exactly its    *)
(* own pair out of those that were reported.                               *)
(***************************************************************************)
PortInv ==
    /\ shadow = [r \in Expander!Register |-> shadow[r]]
    /\ registers = [r \in Expander!Register |-> registers[r]]
    /\ reported \subseteq Expander!Register
    /\ inputs = sampled
    /\ \A r \in reported : registers[r] = shadow[r]

LEMMA PortInvInit == RigInit => PortInv
<1> SUFFICES ASSUME RigInit PROVE PortInv
  OBVIOUS
<1>1. Expander!PortInit \/ Panel!Expander!PortInit
  BY DEF RigInit, Init, Panel!ControllerInit
<1>2. CASE Expander!PortInit
  BY <1>2 DEF Expander!PortInit, Expander!PowerOnBank, PortInv
<1>3. CASE Panel!Expander!PortInit
  BY <1>3 DEF Panel!Expander!PortInit, Panel!Expander!PowerOnBank, PortInv,
              Panel!Expander!Register, Expander!Register
<1> QED
  BY <1>1, <1>2, <1>3

LEMMA SetKeepsPort ==
    ASSUME PortInv, NEW r \in Expander!Register, NEW mask, NEW answer,
           Expander!set(r, mask, answer) \/ Panel!Expander!set(r, mask, answer)
    PROVE  PortInv'
<1>1. /\ shadow' = [shadow EXCEPT ![r] = mask]
      /\ UNCHANGED <<inputs, sampled>>
      /\ \/ registers' = [registers EXCEPT ![r] = mask] /\ reported' = reported \cup {r}
         \/ /\ \E m : registers' = [registers EXCEPT ![r] = m]
            /\ reported' = reported \ {r}
  BY DEF Expander!set, Expander!writeRegister16, Expander!Written, Expander!CutShort,
         Panel!Expander!set, Panel!Expander!writeRegister16, Panel!Expander!Written,
         Panel!Expander!CutShort
<1>2. /\ shadow' = [s \in Expander!Register |-> shadow'[s]]
      /\ registers' = [s \in Expander!Register |-> registers'[s]]
      /\ \A s \in Expander!Register \ {r} :
            shadow'[s] = shadow[s] /\ registers'[s] = registers[s]
      /\ shadow'[r] = mask
  BY <1>1 DEF PortInv
<1>3. r \in reported' => registers'[r] = mask
  BY <1>1 DEF PortInv
<1>4. reported' \subseteq reported \cup {r}
  BY <1>1
<1> QED
  BY <1>1, <1>2, <1>3, <1>4 DEF PortInv

LEMMA InitializeKeepsPort ==
    ASSUME PortInv, NEW answer,
           Expander!initialize(answer) \/ Panel!Expander!initialize(answer)
    PROVE  PortInv'
<1> DEFINE Done(n) == {Expander!Order[i] : i \in 1 .. n}
           Restored(n) == [r \in Expander!Register |->
                              IF r \in Done(n) THEN shadow[r] ELSE registers[r]]
<1>1. \A n : Expander!Restored(n) = Restored(n) /\ Panel!Expander!Restored(n) = Restored(n)
  BY DEF Expander!Restored, Panel!Expander!Restored, Expander!Order, Panel!Expander!Order,
         Expander!Register, Panel!Expander!Register
<1>2. /\ UNCHANGED <<shadow, inputs, sampled>>
      /\ \/ registers' = Restored(4) /\ reported' = Expander!Register
         \/ \E n \in 0 .. 3 : \E m : LET failing == Expander!Order[n + 1] IN
               /\ registers' = [Restored(n) EXCEPT ![failing] = m]
               /\ reported' = (reported \cup Done(n)) \ {failing}
  <2> HIDE DEF Restored
  <2> QED
    BY <1>1
    DEF Expander!initialize, Expander!Written, Expander!CutShort,
        Panel!Expander!initialize, Panel!Expander!Written, Panel!Expander!CutShort,
        Expander!Order, Panel!Expander!Order, Expander!Register, Panel!Expander!Register
<1>3. \A n \in 0 .. 4 : Done(n) \subseteq Expander!Register
  BY DEF Expander!Order, Expander!Register
<1>4. Done(4) = Expander!Register
  <2>1. \A r \in Expander!Register : \E i \in 1 .. 4 : Expander!Order[i] = r
    BY DEF Expander!Order, Expander!Register
  <2> QED
    BY <2>1, <1>3
<1> HIDE DEF Done
<1>5. CASE registers' = Restored(4) /\ reported' = Expander!Register
  BY <1>2, <1>4, <1>5 DEF PortInv
<1>6. ASSUME NEW n \in 0 .. 3, NEW m,
             registers' = [Restored(n) EXCEPT ![Expander!Order[n + 1]] = m],
             reported' = (reported \cup Done(n)) \ {Expander!Order[n + 1]}
      PROVE  PortInv'
  <2> DEFINE failing == Expander!Order[n + 1]
  <2>1. Done(n) \subseteq Expander!Register
    BY <1>3
  <2> HIDE DEF failing
  <2>2. \A r \in Expander!Register \ {failing} : registers'[r] = Restored(n)[r]
    BY <1>6 DEF failing
  <2>3. registers' = [r \in Expander!Register |-> registers'[r]]
    BY <1>6
  <2>4. reported' \subseteq Expander!Register /\ failing \notin reported'
        /\ reported' \subseteq reported \cup Done(n)
    BY <1>6, <2>1 DEF PortInv, failing
  <2> QED
    BY <1>2, <2>2, <2>3, <2>4 DEF PortInv
<1> QED
  BY <1>2, <1>5, <1>6

LEMMA PowerOnKeepsPort ==
    ASSUME PortInv, Expander!DevicePowerOn \/ Panel!Expander!DevicePowerOn
    PROVE  PortInv'
BY DEF PortInv, Expander!DevicePowerOn, Panel!Expander!DevicePowerOn, Expander!PowerOnBank,
       Panel!Expander!PowerOnBank, Expander!Register, Panel!Expander!Register

LEMMA PortInvNext == PortInv /\ [RigNext]_vars => PortInv'
<1> SUFFICES ASSUME PortInv, [RigNext]_vars PROVE PortInv'
  OBVIOUS
<1>1. CASE UNCHANGED expanderState
  BY <1>1 DEF expanderState, PortInv
<1>2. CASE Expander!PortNext
  <2>1. ASSUME NEW answer, NEW r \in Expander!Register, NEW mask, Expander!set(r, mask, answer)
        PROVE  PortInv'
    BY <2>1, SetKeepsPort
  <2>2. ASSUME NEW answer, NEW p, NEW high, Expander!writePin(p, high, answer) PROVE PortInv'
    BY <2>2, SetKeepsPort DEF Expander!writePin, Expander!Register
  <2>3. ASSUME NEW answer, Expander!initialize(answer) PROVE PortInv'
    BY <2>3, InitializeKeepsPort
  <2>4. ASSUME NEW answer, NEW levels, Expander!sampleInputs(levels, answer) PROVE PortInv'
    BY <2>4 DEF Expander!sampleInputs, Expander!Sampled, PortInv
  <2>5. CASE Expander!writeRejected
    BY <2>5, <1>1 DEF Expander!writeRejected, Expander!port, expanderState
  <2>6. CASE Expander!DevicePowerOn
    BY <2>6, PowerOnKeepsPort
  <2> QED
    BY <1>2, <2>1, <2>2, <2>3, <2>4, <2>5, <2>6 DEF Expander!PortNext
<1>3. CASE Panel!ControllerStep \/ Panel!MoveControl \/ Panel!Outage
  <2>1. ASSUME NEW answer, NEW r \in Expander!Register, NEW mask,
               Panel!Expander!set(r, mask, answer)
        PROVE  PortInv'
    BY <2>1, SetKeepsPort
  <2>2. ASSUME NEW answer, NEW p, NEW high, Panel!Expander!writePin(p, high, answer)
        PROVE  PortInv'
    BY <2>2, SetKeepsPort DEF Panel!Expander!writePin, Expander!Register
  <2>3. ASSUME NEW answer, Panel!Expander!initialize(answer) PROVE PortInv'
    BY <2>3, InitializeKeepsPort
  <2>4. CASE Panel!setup
    BY <2>1, <2>3, <2>4, <1>1
    DEF Panel!setup, Panel!Access, Panel!untouched, Panel!expander, expanderState,
        Panel!setDirection, Panel!setPullUps, Expander!Register
  <2>5. CASE Panel!readInputs \/ Panel!MoveControl
    BY <2>5, <1>1 DEF Panel!readInputs, Panel!MoveControl, Panel!expander, expanderState
  <2>6. CASE Panel!writeOutputs
    BY <2>6, <2>2
    DEF Panel!writeOutputs, Panel!Access, Panel!writeGate, Panel!writeRed, Panel!writeGreen
  <2>7. CASE Panel!redrawDisplay
    BY <2>7, <1>1 DEF Panel!redrawDisplay, Panel!Access, Panel!untouched, Panel!expander,
                      expanderState
  <2>8. CASE Panel!Outage
    BY <2>8, PowerOnKeepsPort DEF Panel!Outage
  <2> QED
    BY <1>3, <2>4, <2>5, <2>6, <2>7, <2>8 DEF Panel!ControllerStep
<1>4. Expander!PortNext \/ Panel!ControllerStep \/ Panel!MoveControl \/ Panel!Outage
      \/ UNCHANGED expanderState
  BY DEF RigNext, CallerNext, Next, AttenuverterNext, ControllerStep,
         ControllerSurroundings, ControllerRuns, ScreenNext, vars, otherChips
<1> QED
  BY <1>1, <1>2, <1>3, <1>4

(***************************************************************************)
(* Whichever writes failed, and whether none, one or both of their bytes   *)
(* arrived, a pair that was last reported as written is in the device what *)
(* it is in the copy; and the inputs are those of one complete sample.     *)
(***************************************************************************)
THEOREM ReportedWritesHold == RigSpec => []ReportedIsEffective
<1>1. PortInv => ReportedIsEffective
  BY DEF PortInv, ReportedIsEffective, Expander!ReportedIsEffective
<1> QED
  BY <1>1, PortInvInit, PortInvNext, PTL DEF RigSpec

-----------------------------------------------------------------------------
(***************************************************************************)
(* Quotients and remainders.                                               *)
(***************************************************************************)
LEMMA Division ==
    ASSUME NEW a \in Int, NEW n \in Nat \ {0}
    PROVE  /\ a \div n \in Int /\ a % n \in 0 .. n - 1
           /\ a = n * (a \div n) + (a % n)
<1>1. a \div n \in Int
  BY SMT
<1>2. a % n \in 0 .. n - 1
  BY SMT
<1>3. a = (a \div n) * n + (a % n)
  BY SMTT(20)
<1>4. (a \div n) * n = n * (a \div n)
  BY <1>1, SMT
<1> QED
  BY <1>1, <1>2, <1>3, <1>4

LEMMA DivisionIsUnique ==
    ASSUME NEW n \in Nat \ {0}, NEW q \in Int, NEW p \in Int,
           NEW r \in 0 .. n - 1, NEW s \in 0 .. n - 1, n * q + r = n * p + s
    PROVE  q = p /\ r = s
<1>1. ~(q < p)
  <2> SUFFICES ASSUME q < p PROVE FALSE
    OBVIOUS
  <2>1. n * (p - q) >= n
    BY SMT
  <2>2. n * (p - q) = n * p - n * q
    BY SMT
  <2> QED
    BY <2>1, <2>2, SMT
<1>2. ~(p < q)
  <2> SUFFICES ASSUME p < q PROVE FALSE
    OBVIOUS
  <2>1. n * (q - p) >= n
    BY SMT
  <2>2. n * (q - p) = n * q - n * p
    BY SMT
  <2> QED
    BY <2>1, <2>2, SMT
<1> QED
  BY <1>1, <1>2, SMT

LEMMA QuotientOf ==
    ASSUME NEW n \in Nat \ {0}, NEW q \in Int, NEW r \in 0 .. n - 1
    PROVE  (n * q + r) \div n = q /\ (n * q + r) % n = r
<1>1. n * q + r \in Int
  BY SMT
<1> QED
  BY <1>1, Division, DivisionIsUnique

-----------------------------------------------------------------------------
(***************************************************************************)
(* The chips that are read.  The number of a channel is masked to the      *)
(* channels there are; the bits of the connected select lines are below    *)
(* that mask, so that they are the same with and without it.               *)
(***************************************************************************)
LEMMA MaskKeepsBits ==
    ASSUME NEW n \in Nat, NEW m \in Nat \ {0}, NEW place \in Nat \ {0}, m % (2 * place) = 0
    PROVE  Readers!Bit(n % m, place) = Readers!Bit(n, place)
<1> DEFINE k == m \div (2 * place)
           q == n \div m
           b == n % m
           d == b \div place
           s == b % place
           e == d \div 2
           f == d % 2
<1>1. 2 * place \in Nat \ {0}
  OBVIOUS
<1>2. k \in Int /\ m = (2 * place) * k
  <2>1. \A w \in Nat \ {0} : m \div w \in Int /\ m = w * (m \div w) + (m % w)
    BY Division
  <2>2. k \in Int /\ m = (2 * place) * k + (m % (2 * place))
    BY <2>1, <1>1, Zenon
  <2> HIDE DEF k
  <2> QED
    BY <2>2
<1>3. q \in Int /\ b \in Int /\ n = m * q + b
  BY Division
<1>4. d \in Int /\ s \in 0 .. place - 1 /\ b = place * d + s
  BY <1>3, Division
<1>5. e \in Int /\ f \in 0 .. 1 /\ d = 2 * e + f
  BY <1>4, Division
<1>6. /\ Readers!Bit(b, place) = f
      /\ Readers!Bit(n, place) = (n \div place) % 2
  BY DEF Readers!Bit
<1> HIDE DEF k, q, b, d, s, e, f
<1>7. k * q \in Int
  BY <1>2, <1>3
<1> DEFINE kq == k * q
<1>8. ((2 * place) * k) * q = place * (2 * kq)
  BY <1>2, <1>3
<1>9. n = place * (2 * kq) + (place * d + s)
  BY <1>2, <1>3, <1>4, <1>8
<1> HIDE DEF kq
<1>10. kq \in Int
  BY <1>7 DEF kq
<1>11. place * (2 * kq) + (place * d + s) = place * (2 * kq + d) + s
  BY <1>4, <1>10
<1>12. n \div place = 2 * kq + d
  <2>1. 2 * kq + d \in Int
    BY <1>4, <1>10
  <2> QED
    BY <2>1, <1>4, <1>9, <1>11, QuotientOf
<1>13. 2 * kq + d = 2 * (kq + e) + f
  BY <1>5, <1>10
<1>14. (2 * (kq + e) + f) % 2 = f
  <2>1. kq + e \in Int /\ f \in 0 .. 2 - 1
    BY <1>5, <1>10
  <2> QED
    BY <2>1, QuotientOf
<1> QED
  BY <1>6, <1>12, <1>13, <1>14 DEF b

LEMMA ConnectedPlaces ==
    /\ MuxChannels \in Nat \ {0}
    /\ \A place \in Connected : place \in Nat \ {0} /\ MuxChannels % (2 * place) = 0
BY DriversAssumption DEF Readers!InputAssumption

ReaderInv ==
    /\ spi = [active |-> spi.active, nextResult |-> spi.nextResult, responses |-> spi.responses]
    /\ spi.active \in BOOLEAN /\ borrowed \in BOOLEAN
    /\ spi.active <=> borrowed
    /\ chip # "74HC165" \/ result = "Success" => cache = answered
    /\ \A place \in Connected : lines[place] = Readers!Bit(currentChannel, place)

LEMMA ReaderInvInit == RigInit => ReaderInv
<1> SUFFICES ASSUME RigInit PROVE ReaderInv
  OBVIOUS
<1>1. Readers!InputInit
  BY DEF RigInit, Init, NoDriver, Firmware!AttenuverterInit
<1>2. \A place \in Connected : Readers!Bit(0, place) = 0
  <2> SUFFICES ASSUME NEW place \in Connected PROVE Readers!Bit(0, place) = 0
    OBVIOUS
  <2>1. (place * 0 + 0) \div place = 0 /\ (2 * 0 + 0) % 2 = 0
    BY ConnectedPlaces, QuotientOf
  <2> QED
    BY <2>1, ConnectedPlaces DEF Readers!Bit
<1> QED
  BY <1>1, <1>2 DEF Readers!InputInit, ReaderInv

LEMMA ReaderInvNext == ReaderInv /\ ChipInv /\ [RigNext]_vars => ReaderInv'
<1> SUFFICES ASSUME ReaderInv, ChipInv, [RigNext]_vars PROVE ReaderInv'
  OBVIOUS
<1>1. chip' = chip
  BY ChipStays DEF vars, driver
<1>2. ASSUME UNCHANGED readerState, chip = "74HC165" => UNCHANGED result PROVE ReaderInv'
  BY <1>1, <1>2 DEF readerState, ReaderInv
<1>3. Readers!InputNext
      \/ (UNCHANGED readerState /\ (chip = "74HC165" => UNCHANGED result))
  BY DEF RigNext, CallerNext, Next, AttenuverterNext, ControllerStep,
         ControllerSurroundings, ControllerRuns, ScreenNext, vars, otherChips, driver, ChipInv,
         Leds!LedNext, Leds!LedChips, Dac!DacNext, Dac!DacChips, Display!DisplayNext,
         Display!DisplayChips, Expander!PortNext, Pins!PinNext
<1>4. CASE Readers!Busy \/ Readers!readRejected
  <2>1. UNCHANGED readerState /\ result' = "Error"
    BY <1>4 DEF Readers!Busy, Readers!readRejected, Readers!Return, Readers!inputChip,
                readerState
  <2> QED
    BY <2>1, <1>1 DEF readerState, ReaderInv
<1>5. CASE Readers!read \/ Readers!sample
  <2>1. /\ ~spi.active /\ spi' = Readers!Ended
        /\ result' = spi.nextResult
        /\ answered' = IF spi.nextResult = "Success" THEN Readers!Front ELSE answered
        /\ \/ chip = "MCP3208" /\ cache' = Readers!ReceivedValue
           \/ chip = "74HC165" /\ cache' = Readers!Front
        /\ UNCHANGED <<borrowed, lines, currentChannel>>
    BY <1>5 DEF Readers!read, Readers!sample, Readers!Call, Readers!Return
  <2>2. /\ spi'.active = FALSE
        /\ spi' = [active |-> spi'.active, nextResult |-> spi'.nextResult,
                   responses |-> spi'.responses]
    BY <2>1 DEF Readers!Ended, Readers!Transferred, ReaderInv
  <2>3. chip # "74HC165" \/ result' = "Success" => cache' = answered'
    BY <2>1 DEF Readers!ReceivedValue, ReaderInv
  <2> QED
    BY <1>1, <2>1, <2>2, <2>3 DEF ReaderInv
<1>6. ASSUME NEW n \in 0 .. 2 * MuxChannels, Readers!readChannel(n), UNCHANGED result
      PROVE  ReaderInv'
  <2>1. \A place \in Connected : Readers!Bit(n % MuxChannels, place) = Readers!Bit(n, place)
    <3> SUFFICES ASSUME NEW place \in Connected
                 PROVE  Readers!Bit(n % MuxChannels, place) = Readers!Bit(n, place)
      OBVIOUS
    <3>1. n \in Nat
      BY ConnectedPlaces
    <3> QED
      BY <3>1, ConnectedPlaces, MaskKeepsBits
  <2>2. \A place \in Connected : lines'[place] = Readers!Bit(currentChannel', place)
    BY <1>6, <2>1 DEF Readers!readChannel, Readers!selectChannel, Readers!Lines
  <2> QED
    BY <1>1, <1>6, <2>2 DEF Readers!readChannel, ReaderInv
<1>7. ASSUME UNCHANGED result,
             \/ \E a \in Answer : Readers!queueResponse(a)
             \/ \E r \in {"Success", "Error"} : Readers!setNextResult(r)
             \/ Readers!Borrow \/ Readers!GiveBack
      PROVE  ReaderInv'
  <2>1. /\ UNCHANGED <<cache, answered, lines, currentChannel>>
        /\ spi' = [active |-> spi'.active, nextResult |-> spi'.nextResult,
                   responses |-> spi'.responses]
    BY <1>7 DEF Readers!queueResponse, Readers!setNextResult, Readers!Borrow,
                Readers!GiveBack, ReaderInv
  <2>2. spi'.active \in BOOLEAN /\ borrowed' \in BOOLEAN /\ (spi'.active <=> borrowed')
    <3>1. CASE Readers!Borrow \/ Readers!GiveBack
      BY <3>1 DEF Readers!Borrow, Readers!GiveBack, ReaderInv
    <3>2. CASE \/ \E a \in Answer : Readers!queueResponse(a)
               \/ \E r \in {"Success", "Error"} : Readers!setNextResult(r)
      BY <3>2 DEF Readers!queueResponse, Readers!setNextResult, ReaderInv
    <3> QED
      BY <3>1, <3>2, <1>7
  <2> QED
    BY <1>1, <1>7, <2>1, <2>2 DEF ReaderInv
<1>8. CASE Readers!InputNext
  BY <1>8, <1>4, <1>5, <1>6, <1>7 DEF Readers!InputNext
<1> QED
  BY <1>2, <1>3, <1>8

(***************************************************************************)
(* Whatever failed before, the bus is left to whoever took it; what a      *)
(* converter or a chain hands out is the answer to its last successful     *)
(* read; and the select lines stand at the channel that is reported.       *)
(***************************************************************************)
THEOREM AnswersComeFromTheirCall == RigSpec => []AnswersAreOwn
<1>1. ReaderInv => AnswersAreOwn
  BY DEF ReaderInv, AnswersAreOwn, Readers!AnswersAreOwn
<1> QED
  BY <1>1, ReaderInvInit, ReaderInvNext, ChipsInvariant, PTL DEF RigSpec

-----------------------------------------------------------------------------
(***************************************************************************)
(* The converters.  While a flush runs its outputs have not changed yet,   *)
(* and the input registers of the channels it has been through hold the    *)
(* codes, so that the copy of all of them which ends it is a copy of the   *)
(* codes.                                                                  *)
(***************************************************************************)
OverChannels(f) == f = [c \in Dac!DacChannel |-> f[c]]

DacTypes ==
    /\ OverChannels(codes) /\ OverChannels(input) /\ OverChannels(output)
    /\ next \in Dac!DacChannel

FlushInv ==
    Dac!Synchronous =>
        /\ pc = "Frame" => output = before
                           /\ \A c \in Dac!DacChannel : c < next => input[c] = codes[c]
        /\ pc = "Pulse" => output = before /\ input = codes /\ ldac

DacInv == DacTypes /\ FlushInv

LEMMA DacInvInit == RigInit => DacInv
<1> SUFFICES ASSUME RigInit PROVE DacInv
  OBVIOUS
<1>1. pc = "Idle" /\ next = 1
  BY DEF RigInit, Init, NoDriver, NoDac, Firmware!AttenuverterInit, Dac!DacInit
<1>2. OverChannels(codes) /\ OverChannels(input) /\ OverChannels(output)
  BY DEF RigInit, Init, NoDac, Firmware!AttenuverterInit, Dac!DacInit, OverChannels,
         Dac!PoweredOn, Firmware!PoweredOn, Dac!DacChannel, Firmware!DacChannel
<1> QED
  BY <1>1, <1>2, DriversAssumption
  DEF DacInv, DacTypes, FlushInv, Dac!DacChannel, Dac!DacAssumption

(***************************************************************************)
(* What one frame does.                                                    *)
(***************************************************************************)
LEMMA FrameDelivered ==
    ASSUME DacTypes, NEW c \in Dac!DacChannel,
           NEW command \in {"WriteInput", "WriteInputUpdateChannel", "WriteInputUpdateAll"},
           NEW r, Dac!transferFrame(c, command, r)
    PROVE  /\ OverChannels(input)' /\ OverChannels(output)'
           /\ command = "WriteInput" => output' = output
           /\ command = "WriteInputUpdateAll" => output' \in {output, input'}
           /\ \A d \in Dac!DacChannel \ {c} : input'[d] = input[d]
           /\ r = "Success" => input'[c] = codes[c]
           /\ r = "Success" /\ command = "WriteInputUpdateAll" => output' = input'
           /\ output' # output => input'[c] = codes[c]
<1>1. CASE UNCHANGED <<input, output>> /\ r = "Error"
  BY <1>1 DEF DacTypes, OverChannels
<1>2. CASE Dac!Delivered(c, command)
  <2>1. /\ input' = [input EXCEPT ![c] = codes[c]]
        /\ \/ command = "WriteInput" /\ output' = output
           \/ command = "WriteInputUpdateChannel" /\ output' = [output EXCEPT ![c] = codes[c]]
           \/ command = "WriteInputUpdateAll" /\ output' = input'
    BY <1>2 DEF Dac!Delivered
  <2> QED
    BY <2>1 DEF DacTypes, OverChannels
<1> QED
  BY <1>1, <1>2 DEF Dac!transferFrame

LEMMA FlushFrameStep ==
    ASSUME DacInv, Dac!FlushFrame
    PROVE  /\ DacInv'
           /\ Dac!Synchronous =>
                 /\ output' \in {before, codes}
                 /\ pc' = "Idle" /\ result' = "Success" => output' = codes
<1>1. /\ LastChannel \in Nat \ {0} /\ Dac!DacChannel = 1 .. LastChannel
      /\ next \in Dac!DacChannel
  BY DriversAssumption DEF Dac!DacAssumption, Dac!DacChannel, DacInv, DacTypes
<1>2. PICK r \in {"Success", "Error"} :
         /\ Dac!transferFrame(next, Dac!Command(next), r)
         /\ \/ /\ Dac!LatchAfter(r)
               /\ pc' = "Pulse" /\ result' = r /\ UNCHANGED next
            \/ /\ ~Dac!LatchAfter(r) /\ r = "Success" /\ next < LastChannel
               /\ next' = next + 1 /\ UNCHANGED <<pc, result>>
            \/ /\ ~Dac!LatchAfter(r) /\ (r = "Error" \/ next = LastChannel)
               /\ pc' = "Idle" /\ result' = r /\ UNCHANGED next
  BY DEF Dac!FlushFrame, Dac!Return
<1>3. pc = "Frame" /\ UNCHANGED <<chip, codes, ldac, before>>
  BY DEF Dac!FlushFrame
<1> DEFINE command == Dac!Command(next)
<1>4. /\ command \in {"WriteInput", "WriteInputUpdateChannel", "WriteInputUpdateAll"}
      /\ Dac!Synchronous /\ chip # "DAC8568" => command = "WriteInput"
      /\ chip = "DAC8568" /\ next # LastChannel => command = "WriteInput"
      /\ chip = "DAC8568" /\ next = LastChannel => command = "WriteInputUpdateAll"
  BY DEF Dac!Command, Dac!PlainCommand, Dac!Synchronous
<1> HIDE DEF command
<1>5. /\ OverChannels(input)' /\ OverChannels(output)'
      /\ command = "WriteInput" => output' = output
      /\ command = "WriteInputUpdateAll" => output' \in {output, input'}
      /\ \A d \in Dac!DacChannel \ {next} : input'[d] = input[d]
      /\ r = "Success" => input'[next] = codes[next]
      /\ r = "Success" /\ command = "WriteInputUpdateAll" => output' = input'
      /\ output' # output => input'[next] = codes[next]
  BY <1>1, <1>2, <1>4, FrameDelivered DEF DacInv, command
<1>6. DacTypes'
  BY <1>1, <1>2, <1>3, <1>5 DEF DacInv, DacTypes, OverChannels, Dac!DacChannel
<1>7. ASSUME Dac!Synchronous, next = LastChannel, input'[next] = codes[next]
      PROVE  input' = codes
  <2>1. \A c \in Dac!DacChannel : input'[c] = codes[c]
    BY <1>1, <1>3, <1>5, <1>7 DEF DacInv, FlushInv
  <2> QED
    BY <2>1, <1>5 DEF DacInv, DacTypes, OverChannels
<1>8. ASSUME Dac!Synchronous
      PROVE  /\ output' \in {before, codes}
             /\ pc' = "Idle" /\ result' = "Success" => output' = codes
             /\ pc' = "Frame" => output' = before
                                 /\ \A c \in Dac!DacChannel : c < next' => input'[c] = codes[c]
             /\ pc' = "Pulse" => output' = before /\ input' = codes /\ ldac
  <2>1. output = before /\ \A c \in Dac!DacChannel : c < next => input[c] = codes[c]
    BY <1>3, <1>8 DEF DacInv, FlushInv
  <2>2. CASE Dac!LatchAfter(r)
    <3>1. pc' = "Pulse" /\ r = "Success" /\ next = LastChannel /\ chip # "DAC8568"
      BY <1>2, <2>2 DEF Dac!LatchAfter
    <3>2. ldac
      BY <3>1, <1>8 DEF Dac!Synchronous
    <3> QED
      BY <3>1, <3>2, <2>1, <1>4, <1>5, <1>7, <1>8
  <2>3. CASE ~Dac!LatchAfter(r) /\ r = "Success" /\ next < LastChannel
    <3>1. /\ pc' = "Frame" /\ next' = next + 1
          /\ command = "WriteInput"
      BY <1>1, <1>2, <1>3, <1>4, <1>8, <2>3
    <3>2. \A c \in Dac!DacChannel : c < next' => input'[c] = codes[c]
      BY <3>1, <2>1, <2>3, <1>1, <1>5
    <3> QED
      BY <3>1, <3>2, <2>1, <1>5
  <2>4. CASE ~Dac!LatchAfter(r) /\ (r = "Error" \/ next = LastChannel)
    <3>1. pc' = "Idle" /\ result' = r
      BY <1>1, <1>2, <2>4
    <3>2. r = "Success" => chip = "DAC8568" /\ next = LastChannel
      BY <2>4 DEF Dac!LatchAfter
    <3>3. output' # output => chip = "DAC8568" /\ next = LastChannel /\ output' = input'
      BY <1>4, <1>5, <1>8
    <3> QED
      BY <3>1, <3>2, <3>3, <2>1, <1>4, <1>5, <1>7, <1>8
  <2> QED
    BY <1>2, <2>2, <2>3, <2>4
<1>9. Dac!Synchronous' <=> Dac!Synchronous
  BY <1>3 DEF Dac!Synchronous
<1> QED
  BY <1>3, <1>6, <1>8, <1>9 DEF DacInv, FlushInv

LEMMA PulseStep ==
    ASSUME DacInv, Dac!Pulse
    PROVE  DacInv' /\ (Dac!Synchronous => output' = codes)
<1>1. /\ pc = "Pulse" /\ pc' = "Idle" /\ output' = IF ldac THEN input ELSE output
      /\ UNCHANGED <<chip, codes, input, ldac, next, before>>
  BY DEF Dac!Pulse, Dac!Return
<1>2. DacInv'
  BY <1>1 DEF DacInv, DacTypes, FlushInv, OverChannels
<1> QED
  BY <1>1, <1>2 DEF DacInv, FlushInv

(***************************************************************************)
(* A step of the attenuverter changes codes and registers only between two *)
(* flushes, and one channel at a time.                                     *)
(***************************************************************************)
LEMMA AttenuverterKeepsDac ==
    ASSUME DacInv, Firmware!AttenuverterStep
    PROVE  /\ DacInv'
           /\ \/ UNCHANGED <<pc, output>>
              \/ pc = "Idle"
<1>1. ASSUME UNCHANGED <<driver, dacState>> PROVE DacInv' /\ UNCHANGED <<pc, output>>
  BY <1>1 DEF DacInv, DacTypes, FlushInv, OverChannels, driver, dacState, Dac!Synchronous
<1>2. ASSUME NEW v, Firmware!setCode(1, v) PROVE DacInv' /\ UNCHANGED <<pc, output>>
  <2>1. /\ pc = "Idle" /\ pc' = "Idle"
        /\ codes' = [codes EXCEPT ![1] = v]
        /\ UNCHANGED <<input, output, next>>
    BY <1>2 DEF Firmware!setCode, Firmware!driver, Firmware!Idle
  <2> QED
    BY <2>1 DEF DacInv, DacTypes, FlushInv, OverChannels
<1>3. ASSUME Firmware!flushChannel(1) PROVE DacInv' /\ pc = "Idle"
  <2>1. pc = "Idle" /\ pc' = "Idle" /\ UNCHANGED <<codes, next>>
    BY <1>3 DEF Firmware!flushChannel, Firmware!Return, Firmware!Idle
  <2>2. OverChannels(input)' /\ OverChannels(output)'
    <3>1. PICK r : Firmware!transferFrame(1, Firmware!PlainCommand, r)
      BY <1>3 DEF Firmware!flushChannel
    <3>2. CASE UNCHANGED <<input, output>>
      BY <3>2 DEF DacInv, DacTypes, OverChannels
    <3>3. CASE Firmware!Delivered(1, Firmware!PlainCommand)
      <4>1. /\ input' = [input EXCEPT ![1] = codes[1]]
            /\ \/ output' = output
               \/ output' = [output EXCEPT ![1] = codes[1]]
        BY <3>3 DEF Firmware!Delivered, Firmware!PlainCommand
      <4> QED
        BY <4>1 DEF DacInv, DacTypes, OverChannels
    <3> QED
      BY <3>1, <3>2, <3>3 DEF Firmware!transferFrame
  <2> QED
    BY <2>1, <2>2 DEF DacInv, DacTypes, FlushInv
<1>4. CASE Firmware!tooEarly \/ Firmware!begin \/ \E i \in Firmware!Input : Firmware!readAveragedAdc(i)
  BY <1>4, <1>1
  DEF Firmware!tooEarly, Firmware!begin, Firmware!readAveragedAdc, Firmware!driver,
      Firmware!dac, driver, dacState
<1>5. CASE Firmware!setOutput \/ Firmware!flushOutput \/ Firmware!enterSafeState
  BY <1>5, <1>2, <1>3
  DEF Firmware!setOutput, Firmware!flushOutput, Firmware!enterSafeState, Firmware!Channel
<1> QED
  BY <1>4, <1>5 DEF Firmware!AttenuverterStep

LEMMA DacStep ==
    ASSUME DacInv, [RigNext]_vars
    PROVE  /\ DacInv'
           /\ (Dac!Synchronous /\ pc \in {"Frame", "Pulse"}) =>
                 /\ output' \in {before, codes}
                 /\ (pc' = "Idle" /\ result' = "Success") => output' = codes
<1> DEFINE Whole ==
        (Dac!Synchronous /\ pc \in {"Frame", "Pulse"}) =>
            /\ output' \in {before, codes}
            /\ (pc' = "Idle" /\ result' = "Success") => output' = codes
<1>1. chip' = chip
  BY ChipStays DEF vars, driver
<1>2. CASE UNCHANGED dacState /\ (chip \in Dac!DacChips => UNCHANGED pc)
  BY <1>1, <1>2
  DEF dacState, DacInv, DacTypes, FlushInv, OverChannels, Dac!Synchronous, Dac!DacChips
<1>3. CASE Firmware!AttenuverterStep
  <2>1. DacInv' /\ (UNCHANGED <<pc, output>> \/ pc = "Idle")
    BY <1>3, AttenuverterKeepsDac
  <2> QED
    BY <2>1 DEF DacInv, FlushInv
<1>4. CASE Dac!DacNext
  <2>1. ASSUME NEW c \in Dac!DacChannel, NEW v, Dac!setCode(c, v) PROVE DacInv' /\ pc = "Idle"
    <3>1. /\ pc = "Idle" /\ pc' = "Idle"
          /\ codes' = [codes EXCEPT ![c] = v]
          /\ UNCHANGED <<input, output, next>>
      BY <2>1 DEF Dac!setCode, Dac!driver, Dac!Idle
    <3> QED
      BY <3>1 DEF DacInv, DacTypes, FlushInv, OverChannels
  <2>2. ASSUME NEW c \in Dac!DacChannel, Dac!flushChannel(c) PROVE DacInv' /\ pc = "Idle"
    <3>1. pc = "Idle" /\ pc' = "Idle" /\ UNCHANGED <<codes, next>>
      BY <2>2 DEF Dac!flushChannel, Dac!Return, Dac!Idle
    <3>2. OverChannels(input)' /\ OverChannels(output)'
      <4>1. PICK r : Dac!transferFrame(c, Dac!PlainCommand, r)
        BY <2>2 DEF Dac!flushChannel
      <4> QED
        BY <4>1, FrameDelivered DEF DacInv, Dac!PlainCommand
    <3> QED
      BY <3>1, <3>2 DEF DacInv, DacTypes, FlushInv
  <2>3. ASSUME NEW c \in Dac!DacChannel,
               NEW command \in {"WriteInput", "WriteInputUpdateChannel", "WriteInputUpdateAll"},
               Dac!writeFrame(c, command)
        PROVE  DacInv' /\ pc = "Idle"
    <3>1. pc = "Idle" /\ pc' = "Idle" /\ UNCHANGED <<codes, next>>
      BY <2>3 DEF Dac!writeFrame, Dac!Return, Dac!Idle
    <3>2. OverChannels(input)' /\ OverChannels(output)'
      <4>1. PICK r : Dac!transferFrame(c, command, r)
        BY <2>3 DEF Dac!writeFrame
      <4> QED
        BY <4>1, FrameDelivered DEF DacInv
    <3> QED
      BY <3>1, <3>2 DEF DacInv, DacTypes, FlushInv
  <2>4. CASE Dac!latchOutputs
    <3>1. pc = "Idle" /\ pc' = "Idle" /\ output' = input /\ UNCHANGED <<codes, input, next>>
      BY <2>4 DEF Dac!latchOutputs, Dac!driver, Dac!Idle
    <3> QED
      BY <3>1 DEF DacInv, DacTypes, FlushInv, OverChannels
  <2>5. CASE Dac!reset
    <3>1. /\ pc = "Idle" /\ pc' = "Idle" /\ UNCHANGED <<codes, next>>
          /\ \/ input' = Dac!PoweredOn /\ output' = Dac!PoweredOn
             \/ UNCHANGED <<input, output>>
      BY <2>5 DEF Dac!reset, Dac!Return, Dac!Idle
    <3> QED
      BY <3>1 DEF DacInv, DacTypes, FlushInv, OverChannels, Dac!PoweredOn
  <2>6. CASE Dac!flushAll
    <3>1. /\ pc = "Idle" /\ pc' = "Frame" /\ next' = 1 /\ before' = output
          /\ UNCHANGED <<codes, input, output>>
      BY <2>6 DEF Dac!flushAll, Dac!Idle
    <3>2. 1 \in Dac!DacChannel /\ \A c \in Dac!DacChannel : ~(c < 1)
      BY DriversAssumption DEF Dac!DacAssumption, Dac!DacChannel
    <3> QED
      BY <3>1, <3>2 DEF DacInv, DacTypes, FlushInv, OverChannels
  <2>7. CASE Dac!FlushFrame
    BY <2>7, FlushFrameStep
  <2>8. CASE Dac!Pulse
    BY <2>8, PulseStep DEF DacInv, FlushInv
  <2>9. pc = "Idle" => Whole
    OBVIOUS
  <2> QED
    BY <1>4, <2>1, <2>2, <2>3, <2>4, <2>5, <2>6, <2>7, <2>8, <2>9 DEF Dac!DacNext
<1>5. \/ Dac!DacNext
      \/ Firmware!AttenuverterStep
      \/ UNCHANGED dacState /\ (chip \in Dac!DacChips => UNCHANGED pc)
  BY DEF RigNext, CallerNext, Next, AttenuverterNext, ControllerStep, ControllerSurroundings,
         ControllerRuns, ScreenNext, vars, otherChips, outputChips, driver,
         Leds!LedNext, Leds!LedChips, Dac!DacChips, Display!DisplayNext, Display!DisplayChips,
         Expander!PortNext, Readers!InputNext, Readers!InputChipNames, Pins!PinNext,
         Panel!ControllerStep, Panel!setup, Panel!readInputs, Panel!writeOutputs,
         Panel!redrawDisplay, Panel!Access, Panel!MoveControl, Panel!Outage, Panel!driver
<1> QED
  BY <1>2, <1>3, <1>4, <1>5

LEMMA DacInvariant == RigSpec => []DacInv
<1>1. DacInv /\ [RigNext]_vars => DacInv'
  BY DacStep
<1> QED
  BY <1>1, DacInvInit, PTL DEF RigSpec

(***************************************************************************)
(* However many channels there are, whatever the calls before have left in *)
(* the input registers, and whichever frame fails: a flush of all channels *)
(* changes all outputs together, to the codes, or none.                    *)
(***************************************************************************)
THEOREM OutputsChangeTogether == RigSpec => FlushIsAllOrNothing
<1>1. DacInv /\ [RigNext]_vars =>
         [ (Dac!Synchronous /\ pc \in {"Frame", "Pulse"}) =>
              /\ output' \in {before, codes}
              /\ (pc' = "Idle" /\ result' = "Success") => output' = codes
         ]_<<Dac!driver, Dac!dac>>
  BY DacStep
<1> QED
  BY <1>1, DacInvariant, PTL DEF RigSpec, FlushIsAllOrNothing, Dac!FlushIsAllOrNothing

-----------------------------------------------------------------------------
(***************************************************************************)
(* The LED chains.  What is about to be latched after a success is the     *)
(* frame of the current values; a TLC5947 latches nothing else, and has    *)
(* latched once when its outputs are switched on.                          *)
(***************************************************************************)
Known == Level \cup {Startup}

LedInv ==
    /\ values \in [Leds!Channel -> Known]
    /\ chip \notin Leds!LedChips \/ chip = "TLC5947" => latched = complete
    /\ chip = "TLC5947" /\ (initialized \/ ~blank) => \A c \in Leds!Channel : latched[c] # Noise
    /\ chip \in Leds!LedChips =>
          /\ pc = "Latch" /\ result = "Success" => shift = Leds!Frame
          /\ pc = "Latch" /\ chip = "TLC5947" => result = "Success"
          /\ pc = "Idle" /\ result = "Success" => latched = complete

LEMMA LedConstants ==
    Cells \in Nat \ {0} /\ Dark \in Level /\ Noise \notin Known
BY DriversAssumption DEF Leds!LedAssumption, Known

LEMMA FrameIsWhole ==
    ASSUME values \in [Leds!Channel -> Known]
    PROVE  Leds!Frame \in [Leds!Channel -> Known] /\ Leds!Shifted(Cells) = Leds!Frame
<1>1. Cells \in Nat
  BY LedConstants
<1>2. \A f \in [1 .. Cells -> Known] : f \in Seq(Known) /\ Len(f) = Cells
  BY <1>1, SeqDef, LenProperties
<1>3. Leds!Reverse(values) \in [1 .. Cells -> Known]
  <2>1. Len(values) = Cells
    BY <1>2 DEF Leds!Channel
  <2>2. \A i \in 1 .. Cells : Cells - i + 1 \in 1 .. Cells
    BY <1>1
  <2>3. Leds!Reverse(values) = [i \in 1 .. Cells |-> values[(Cells - i) + 1]]
    BY <2>1 DEF Leds!Reverse
  <2>4. \A i \in 1 .. Cells : values[(Cells - i) + 1] \in Known
    BY <2>2 DEF Leds!Channel
  <2> QED
    BY <2>3, <2>4
<1>4. Leds!Frame \in [1 .. Cells -> Known]
  BY <1>3 DEF Leds!Frame, Leds!Channel
<1>5. Leds!Frame \in Seq(Known) /\ Len(Leds!Frame) = Cells
  BY <1>2, <1>4
<1>6. SubSeq(Leds!Frame, 1, Cells) = Leds!Frame
  BY <1>5, SubSeqFull
<1>7. SubSeq(shift, Cells + 1, Cells) = <<>>
  BY <1>1, SubSeqEmpty
<1>8. <<>> \o Leds!Frame = Leds!Frame
  BY <1>5, ConcatEmptySeq
<1> QED
  BY <1>4, <1>6, <1>7, <1>8 DEF Leds!Shifted, Leds!Channel

LEMMA LedInvInit == RigInit => LedInv
<1> SUFFICES ASSUME RigInit PROVE LedInv
  OBVIOUS
<1>1. Leds!LedInit /\ pc = "Idle"
  BY DEF RigInit, Init, NoDriver, Firmware!AttenuverterInit
<1>2. blank = (chip = "TLC5947") /\ initialized = FALSE /\ latched = complete
  BY <1>1 DEF Leds!LedInit
<1>3. values \in [Leds!Channel -> Known]
  BY <1>1, LedConstants DEF Leds!LedInit, Leds!AllAt, Known
<1> QED
  BY <1>1, <1>2, <1>3 DEF LedInv

LEMMA LatchKeepsLeds == ASSUME LedInv, chip \in Leds!LedChips, Leds!Latch PROVE LedInv'
<1>1. /\ pc = "Latch" /\ latched' = shift /\ UNCHANGED <<chip, shift>>
      /\ complete' = IF result = "Success" THEN Leds!Frame ELSE complete
      /\ IF result = "Success" THEN Leds!Succeeded ELSE Leds!Failed
  BY DEF Leds!Latch
<1>2. CASE result = "Success"
  <2>1. latched' = complete' /\ shift = Leds!Frame
    BY <1>1, <1>2 DEF LedInv
  <2>2. \A c \in Leds!Channel : latched'[c] # Noise
    BY <1>1, <2>1, FrameIsWhole, LedConstants DEF LedInv
  <2>3. pc' # "Latch" /\ values' \in [Leds!Channel -> Known]
    <3>1. \A c : Leds!StartupValues(c) \in [Leds!Channel -> Known]
      BY LedConstants DEF Leds!StartupValues, Leds!AllAt, Known
    <3>2. Leds!AllAt(Dark) \in [Leds!Channel -> Known]
      BY LedConstants DEF Leds!AllAt, Known
    <3> QED
      BY <1>1, <1>2, <3>1, <3>2
      DEF Leds!Succeeded, Leds!Return, Leds!Finished, Leds!Flash, Leds!ClearAgain, LedInv
  <2> QED
    BY <1>1, <2>1, <2>2, <2>3 DEF LedInv
<1>3. CASE result # "Success"
  <2>1. chip # "TLC5947" /\ pc' = "Idle" /\ result' = "Error" /\ values' = values
    BY <1>1, <1>3 DEF Leds!Failed, Leds!Return, LedInv
  <2> QED
    BY <1>1, <2>1 DEF LedInv
<1> QED
  BY <1>2, <1>3

LEMMA LedInvNext == LedInv /\ ChipInv /\ [RigNext]_vars => LedInv'
<1> SUFFICES ASSUME LedInv, ChipInv, [RigNext]_vars PROVE LedInv'
  OBVIOUS
<1>1. chip' = chip
  BY ChipStays DEF vars, driver
<1>2. CASE UNCHANGED ledState /\ (chip \in Leds!LedChips => UNCHANGED <<pc, result, initialized>>)
  <2>1. Leds!Frame' = Leds!Frame
    BY <1>1, <1>2 DEF ledState, Leds!Frame, Leds!Reverse
  <2>2. UNCHANGED <<values, shift, latched, complete, blank>>
    BY <1>2 DEF ledState
  <2>3. chip = "TLC5947" => chip \in Leds!LedChips
    BY DEF Leds!LedChips
  <2> QED
    BY <1>1, <1>2, <2>1, <2>2, <2>3 DEF LedInv
<1>3. CASE chip \in Leds!LedChips /\ Leds!LedNext
  <2>1. ASSUME NEW c \in Leds!Channel, NEW v \in Level, Leds!setBrightness(c, v) PROVE LedInv'
    <3>1. values' \in [Leds!Channel -> Known]
      BY <2>1 DEF Leds!setBrightness, LedInv, Known
    <3> QED
      BY <2>1, <3>1 DEF Leds!setBrightness, Leds!driver, Leds!Idle, LedInv
  <2>2. ASSUME NEW enabled \in BOOLEAN, Leds!setEnabled(enabled) PROVE LedInv'
    BY <2>2, <1>1 DEF Leds!setEnabled, Leds!driver, Leds!Idle, LedInv
  <2>3. CASE Leds!clear \/ Leds!initialize
    <3>1. Leds!AllAt(Dark) \in [Leds!Channel -> Known]
      BY LedConstants DEF Leds!AllAt, Known
    <3>2. CASE Leds!clear
      BY <3>1, <3>2 DEF Leds!clear, Leds!driver, Leds!Idle, LedInv
    <3>3. CASE Leds!initialize
      BY <3>1, <3>3 DEF Leds!initialize, LedInv
    <3> QED
      BY <2>3, <3>2, <3>3
  <2>4. CASE Leds!flush
    BY <2>4 DEF Leds!flush, LedInv
  <2>5. CASE Leds!BeginTransaction
    <3>1. CASE pc' = "Transfer"
               /\ UNCHANGED <<result, values, blank, initialized, stage, channel>>
      BY <3>1, <2>5 DEF Leds!BeginTransaction, LedInv
    <3>2. CASE Leds!Failed
      BY <3>2, <2>5 DEF Leds!BeginTransaction, Leds!Failed, Leds!Return, LedInv
    <3> QED
      BY <2>5, <3>1, <3>2 DEF Leds!BeginTransaction
  <2>6. CASE Leds!Transfer
    <3>1. shift' = Leds!Frame /\ Leds!Frame' = Leds!Frame
      BY <2>6, FrameIsWhole DEF Leds!Transfer, Leds!Frame, Leds!Reverse, LedInv
    <3> QED
      BY <2>6, <3>1 DEF Leds!Transfer, LedInv
  <2>7. ASSUME NEW count, Leds!TransferFails(count) PROVE LedInv'
    <3>1. CASE chip # "TLC5947"
      BY <2>7, <3>1 DEF Leds!TransferFails, Leds!LatchAfterError, LedInv
    <3>2. CASE chip = "TLC5947"
      BY <2>7, <3>2 DEF Leds!TransferFails, Leds!LatchAfterError, Leds!Failed, Leds!Return, LedInv
    <3> QED
      BY <3>1, <3>2
  <2>8. CASE Leds!Latch
    BY <1>3, <2>8, LatchKeepsLeds
  <2> QED
    BY <1>3, <2>1, <2>2, <2>3, <2>4, <2>5, <2>6, <2>7, <2>8 DEF Leds!LedNext
<1>4. \/ chip \in Leds!LedChips /\ Leds!LedNext
      \/ UNCHANGED ledState /\ (chip \in Leds!LedChips => UNCHANGED <<pc, result, initialized>>)
  <2>1. CASE UNCHANGED vars
    BY <2>1 DEF vars, outputChips, driver
  <2>2. CASE CallerNext
    BY <2>2
    DEF CallerNext, Next, outputChips, driver, Leds!LedNext, Leds!LedChips, Dac!DacNext,
        Dac!DacChips, Display!DisplayNext, Display!DisplayChips, Expander!PortNext,
        Readers!InputNext, Readers!InputChipNames, Pins!PinNext
  <2>3. CASE AttenuverterNext \/ ControllerStep \/ ControllerSurroundings \/ ScreenNext
    BY <2>3
    DEF AttenuverterNext, ControllerStep, ControllerSurroundings, ControllerRuns,
        ScreenNext, outputChips, driver, Leds!LedChips, ChipInv
  <2> QED
    BY <2>1, <2>2, <2>3 DEF RigNext
<1> QED
  BY <1>2, <1>3, <1>4

(***************************************************************************)
(* However a chain was switched on, flushed and interrupted, a lit TLC5947 *)
(* shows what was latched into it and never what it held at power-up; and  *)
(* no chain shows, after a flush that succeeded, anything but the frame of *)
(* a transfer that was complete.                                           *)
(***************************************************************************)
THEOREM LampsShowFrames == RigSpec => []LampsShowWholeFrames
<1>1. LedInv => LampsShowWholeFrames
  BY DEF LedInv, LampsShowWholeFrames, Leds!VisibleIsKnown, Leds!LampsShowWholeFrames, Leds!Idle
<1> QED
  BY <1>1, LedInvInit, LedInvNext, ChipsInvariant, PTL DEF RigSpec

-----------------------------------------------------------------------------
(***************************************************************************)
(* The attenuverter.  A voltage that lights the LED is more than half a    *)
(* step of the converter away from 0, so that rounding does not bring its  *)
(* code to the middle or beyond it.                                        *)
(***************************************************************************)
LEMMA AttenuverterConstants ==
    /\ ADC_MAX_CODE \in Nat \ {0} /\ DAC_MAX_CODE \in Nat
    /\ CvCode \cup PotCode \subseteq Nat
    /\ DeadZone \in Nat /\ OVERSAMPLE_COUNT \in Nat \ {0}
    /\ Firmware!Span \in Nat \ {0} /\ Firmware!Whole \in Nat \ {0}
    /\ LedThreshold \in Nat /\ LedRoundsToZero \in Nat
<1>1. /\ ADC_MAX_CODE \in Nat \ {0} /\ DAC_MAX_CODE \in Nat
      /\ CvCode \cup PotCode \subseteq Nat
      /\ DeadZone \in Nat /\ OVERSAMPLE_COUNT \in Nat \ {0}
      /\ Firmware!Span \in Nat \ {0} /\ LedThreshold \in 0 .. Firmware!Whole
      /\ LedRoundsToZero \in 0 .. Firmware!Whole
  BY ProgramsAssumption DEF Firmware!AttenuverterAssumption, Firmware!Span
<1>2. \A a, b \in Nat \ {0} : (a * b) * b \in Nat \ {0}
  <2>1. \A a, b \in Nat \ {0} : a * b \in Nat \ {0}
    OBVIOUS
  <2> QED
    BY <2>1
<1>3. Firmware!Whole \in Nat \ {0}
  BY <1>1, <1>2 DEF Firmware!Whole
<1> QED
  BY <1>1, <1>3

LitIsMoreThanHalfAStep == (LedThreshold + 1) * DAC_MAX_CODE > Firmware!Whole

LEMMA CodeTellsPolarity ==
    ASSUME LitIsMoreThanHalfAStep, NEW volts \in Int
    PROVE  /\ Firmware!Polarity(volts) = "green" =>
                  2 * Firmware!outputVoltsToDacCode(volts) > DAC_MAX_CODE
           /\ Firmware!Polarity(volts) = "red" =>
                  2 * Firmware!outputVoltsToDacCode(volts) < DAC_MAX_CODE
<1> DEFINE W == Firmware!Whole
           D == DAC_MAX_CODE
           T == LedThreshold
           x == (volts + W) * D + W
           code == x \div (2 * W)
           rest == x % (2 * W)
<1>1. W \in Nat \ {0} /\ D \in Nat /\ T \in Nat /\ (T + 1) * D > W
  BY AttenuverterConstants DEF LitIsMoreThanHalfAStep
<1>2. Firmware!outputVoltsToDacCode(volts) = code
  BY DEF Firmware!outputVoltsToDacCode
<1>3. /\ Firmware!Polarity(volts) = "green" => volts > T
      /\ Firmware!Polarity(volts) = "red" => volts < -T
  BY AttenuverterConstants DEF Firmware!Polarity, Firmware!LedLights
<1> HIDE DEF W, D, T
<1>4. code \in Int /\ rest \in 0 .. 2 * W - 1 /\ x = (2 * W) * code + rest
  <2>1. 2 * W \in Nat \ {0} /\ x \in Int
    BY <1>1
  <2> HIDE DEF x
  <2>2. \A w \in Nat \ {0} : x \div w \in Int /\ x % w \in 0 .. w - 1
                             /\ x = w * (x \div w) + (x % w)
    BY <2>1, Division
  <2> QED
    BY <2>1, <2>2, Zenon
<1> HIDE DEF code, rest
<1>5. x = volts * D + W * D + W
  BY <1>1
<1> HIDE DEF x
<1>6. volts * D \in Int /\ W * D \in Int /\ W * code \in Int /\ (2 * W) * code = 2 * (W * code)
  BY <1>1, <1>4
<1> DEFINE vD == volts * D
           WD == W * D
           Wc == W * code
<1>7. vD \in Int /\ WD \in Int /\ Wc \in Int /\ 2 * Wc + rest = vD + WD + W
  BY <1>4, <1>5, <1>6
<1>8. volts > T => vD > W
  <2> SUFFICES ASSUME volts > T PROVE vD > W
    OBVIOUS
  <2>1. \A a, b, d \in Int : a >= b /\ d >= 0 => a * d >= b * d
    OBVIOUS
  <2>2. volts * D >= (T + 1) * D
    BY <2>1, <1>1
  <2> QED
    BY <2>2, <1>1, <1>6
<1>9. volts < -T => vD < -W
  <2> SUFFICES ASSUME volts < -T PROVE vD < -W
    OBVIOUS
  <2>1. \A a, b, d \in Int : a >= b /\ d >= 0 => a * d >= b * d
    OBVIOUS
  <2>2. (-volts) * D >= (T + 1) * D
    BY <2>1, <1>1
  <2>3. (-volts) * D = -(volts * D)
    BY <1>1
  <2> QED
    BY <2>2, <2>3, <1>1, <1>6
<1> HIDE DEF vD
<1>10. volts > T => 2 * Wc > WD
  BY <1>1, <1>4, <1>7, <1>8
<1>11. volts < -T => 2 * Wc < WD
  BY <1>1, <1>4, <1>7, <1>9
<1>12. 2 * Wc = W * (2 * code)
  BY <1>1, <1>4
<1>13. \A a, b \in Int : (W * a > W * b => a > b) /\ (W * a < W * b => a < b)
  BY <1>1
<1>14. 2 * code \in Int
  BY <1>4
<1> HIDE DEF Wc
<1>15. volts > T => 2 * code > D
  BY <1>1, <1>10, <1>12, <1>13, <1>14
<1>16. volts < -T => 2 * code < D
  BY <1>1, <1>11, <1>12, <1>13, <1>14
<1> QED
  BY <1>2, <1>3, <1>15, <1>16 DEF D

LEMMA RequestedIsInteger ==
    ASSUME NEW r \in [Firmware!Input -> Int]
    PROVE  Firmware!Requested(r) \in Int
<1>1. r.cv \in Int /\ r.attenuation \in Int /\ r.balance \in Int
  BY DEF Firmware!Input
<1>2. \A code \in Int : Firmware!Bipolar(code) \in Int
  BY AttenuverterConstants DEF Firmware!Bipolar
<1>3. \A value \in Int : Firmware!applyCenteredDeadZone(value) \in Int
  BY AttenuverterConstants DEF Firmware!applyCenteredDeadZone
<1>4. \A balance \in Int :
         Firmware!positiveScale(balance) \in Int /\ Firmware!negativeScale(balance) \in Int
  BY AttenuverterConstants DEF Firmware!positiveScale, Firmware!negativeScale
<1>5. \A volts, attenuation, balance \in Int :
         Firmware!process(volts, attenuation, balance) \in Int
  BY <1>4 DEF Firmware!process
<1> QED
  BY <1>1, <1>2, <1>3, <1>5 DEF Firmware!Requested

(***************************************************************************)
(* Between the failure of a write and the end of the attempt to reach the  *)
(* safe state nothing is known of the voltage; everywhere else in loop()   *)
(* the LED tells the truth, and in front of the write the buffer holds the *)
(* code of the voltage that the LED is going to tell the polarity of.      *)
(***************************************************************************)
LedIsTrue ==
    /\ led = "green" => 2 * output[1] > DAC_MAX_CODE
    /\ led = "red" => 2 * output[1] < DAC_MAX_CODE

LedStateInv ==
    app = "attenuverter" =>
        /\ level \in Firmware!Levels /\ reading \in [Firmware!Input -> Int]
        /\ at = "flush" => codes[1] = Firmware!outputVoltsToDacCode(Firmware!Requested(reading))
        /\ at \notin {"safe", "retry"} => LedIsTrue

LEMMA LedStateInvInit == RigInit => LedStateInv
<1> SUFFICES ASSUME RigInit, app = "attenuverter" PROVE LedStateInv
  BY DEF LedStateInv
<1>1. Firmware!AttenuverterInit
  BY DEF RigInit
<1> QED
  BY <1>1 DEF Firmware!AttenuverterInit, LedStateInv, LedIsTrue

LEMMA ReadingKeepsLed ==
    ASSUME LedStateInv, app = "attenuverter", app' = app,
           NEW i \in Firmware!Input, Firmware!readAveragedAdc(i)
    PROVE  LedStateInv'
<1>1. PICK changed \in Firmware!Levels, early \in 0 .. OVERSAMPLE_COUNT :
         /\ at = i /\ at' = Firmware!After[i]
         /\ level' = changed
         /\ reading' = [reading EXCEPT ![i] = Firmware!Averaged(early, level[i], changed[i])]
         /\ UNCHANGED <<led, output>>
  BY DEF Firmware!readAveragedAdc, Firmware!dac
<1>2. i \in {"cv", "attenuation", "balance"}
  BY DEF Firmware!Input
<1>3. \A l \in Firmware!Levels : l[i] \in Nat
  BY <1>2, AttenuverterConstants DEF Firmware!Levels
<1>4. \A was, now \in Nat : Firmware!Averaged(early, was, now) \in Int
  <2> SUFFICES ASSUME NEW was \in Nat, NEW now \in Nat
               PROVE  Firmware!Averaged(early, was, now) \in Int
    OBVIOUS
  <2>1. early \in Int /\ OVERSAMPLE_COUNT - early \in Int
    BY AttenuverterConstants
  <2>2. early * was + (OVERSAMPLE_COUNT - early) * now \in Int
    BY <2>1
  <2> QED
    BY <2>2, AttenuverterConstants, Division DEF Firmware!Averaged
<1>5. reading' \in [Firmware!Input -> Int]
  BY <1>1, <1>3, <1>4 DEF LedStateInv
<1>6. at' \notin {"flush", "safe", "retry"} /\ at \notin {"safe", "retry"}
  BY <1>1, <1>2 DEF Firmware!After
<1> QED
  BY <1>1, <1>5, <1>6 DEF LedStateInv, LedIsTrue

LEMMA WritingKeepsLed ==
    ASSUME LitIsMoreThanHalfAStep, LedStateInv, ChipInv, DacInv,
           app = "attenuverter", app' = app,
           Firmware!setOutput \/ Firmware!flushOutput \/ Firmware!enterSafeState
    PROVE  LedStateInv'
<1>1. 1 \in Dac!DacChannel /\ chip = "MCP4922" /\ ldac = FALSE
  BY DriversAssumption DEF Dac!DacAssumption, Dac!DacChannel, ChipInv
<1>2. ASSUME NEW there, Firmware!Resume(there)
      PROVE  /\ at' = there /\ level' = level
             /\ reading' \in [Firmware!Input -> Int]
             /\ there # "wait" => reading' = reading
  BY <1>2 DEF Firmware!Resume, LedStateInv
<1>3. CASE Firmware!setOutput
  <2>1. /\ at = "set" /\ UNCHANGED <<led, output>>
        /\ codes' = [codes EXCEPT
              ![1] = Firmware!outputVoltsToDacCode(Firmware!Requested(reading))]
        /\ Firmware!Resume("flush")
    BY <1>3 DEF Firmware!setOutput, Firmware!setCode, Firmware!Channel
  <2>2. codes'[1] = Firmware!outputVoltsToDacCode(Firmware!Requested(reading))
    BY <2>1, <1>1 DEF DacInv, DacTypes, OverChannels
  <2> QED
    BY <2>1, <2>2, <1>2 DEF LedStateInv, LedIsTrue
<1>4. CASE Firmware!flushOutput
  <2>1. PICK r \in {"Success", "Error"} :
           /\ at = "flush" /\ result' = r
           /\ Firmware!transferFrame(1, Firmware!PlainCommand, r)
           /\ led' = Firmware!Shown(r, Firmware!Requested(reading))
           /\ Firmware!Resume(IF r = "Success" THEN "wait" ELSE "safe")
    BY <1>4 DEF Firmware!flushOutput, Firmware!flushChannel, Firmware!Return, Firmware!Channel
  <2>2. CASE r = "Error"
    BY <2>1, <2>2, <1>2 DEF LedStateInv
  <2>3. CASE r = "Success"
    <3>1. output' = [output EXCEPT ![1] = codes[1]]
      BY <2>1, <2>3, <1>1 DEF Firmware!transferFrame, Firmware!Delivered, Firmware!PlainCommand
    <3>2. output'[1] = Firmware!outputVoltsToDacCode(Firmware!Requested(reading))
      BY <3>1, <2>1, <1>1 DEF DacInv, DacTypes, OverChannels, LedStateInv
    <3>3. led' = Firmware!Polarity(Firmware!Requested(reading))
      BY <2>1, <2>3 DEF Firmware!Shown
    <3>4. LedIsTrue'
      <4>1. Firmware!Requested(reading) \in Int
        BY RequestedIsInteger DEF LedStateInv
      <4> QED
        BY <3>2, <3>3, <4>1, CodeTellsPolarity DEF LedIsTrue
    <3> QED
      BY <3>4, <2>1, <2>3, <1>2 DEF LedStateInv
  <2> QED
    BY <2>2, <2>3
<1>5. CASE Firmware!enterSafeState
  <2>1. CASE at = "safe" /\ Firmware!Resume("retry")
    BY <2>1, <1>2 DEF LedStateInv
  <2>2. CASE led' = Firmware!PutOut(result') /\ Firmware!Resume("wait")
    <3>1. led' = "dark"
      BY <2>2, AttenuverterConstants DEF Firmware!PutOut, Firmware!Polarity,
            Firmware!LedLights
    <3> QED
      BY <3>1, <2>2, <1>2 DEF LedStateInv, LedIsTrue
  <2> QED
    BY <1>5, <2>1, <2>2 DEF Firmware!enterSafeState
<1> QED
  BY <1>3, <1>4, <1>5

LEMMA LedStateInvNext ==
    ASSUME LitIsMoreThanHalfAStep
    PROVE  LedStateInv /\ ChipInv /\ DacInv /\ [RigNext]_vars => LedStateInv'
<1> SUFFICES ASSUME LedStateInv, ChipInv, DacInv, [RigNext]_vars PROVE LedStateInv'
  OBVIOUS
<1>1. app' = app
  BY ChipStays DEF vars, programs
<1>2. CASE app # "attenuverter"
  BY <1>1, <1>2 DEF LedStateInv
<1>3. CASE app = "attenuverter" /\ UNCHANGED vars
  BY <1>3 DEF vars, programs, attenuverterState, outputChips, dacState, LedStateInv, LedIsTrue
<1>4. CASE app = "attenuverter" /\ Firmware!AttenuverterStep
  <2>1. CASE Firmware!tooEarly \/ Firmware!begin
    <3>1. /\ UNCHANGED <<level, reading, led, output>>
          /\ at = "wait" /\ at' # "flush"
      BY <2>1 DEF Firmware!tooEarly, Firmware!begin, Firmware!dac
    <3> QED
      BY <1>1, <3>1 DEF LedStateInv, LedIsTrue
  <2> QED
    BY <1>1, <1>4, <2>1, ReadingKeepsLed, WritingKeepsLed DEF Firmware!AttenuverterStep
<1>5. app = "attenuverter" => UNCHANGED vars \/ Firmware!AttenuverterStep
  BY DEF RigNext, CallerNext, AttenuverterNext, ControllerStep, ControllerSurroundings, ScreenNext
<1> QED
  BY <1>2, <1>3, <1>4, <1>5

(***************************************************************************)
(* A lit LED of the attenuverter tells the polarity of the voltage that    *)
(* the converter holds, also after writes of which nobody knows whether    *)
(* they arrived: provided that the threshold of the LED is not finer than  *)
(* half a step of the converter (25 mV against 1.2 mV in the firmware).    *)
(***************************************************************************)
THEOREM LedNeverLies ==
    ASSUME LitIsMoreThanHalfAStep
    PROVE  RigSpec => []LedTellsPolarity
<1>1. LedStateInv => LedTellsPolarity
  BY DEF LedStateInv, LedIsTrue, LedTellsPolarity, Firmware!LedTellsPolarity, Firmware!Channel
<1> QED
  BY <1>1, LedStateInvInit, LedStateInvNext, ChipsInvariant, DacInvariant, PTL DEF RigSpec

-----------------------------------------------------------------------------
(***************************************************************************)
(* Menus.                                                                  *)
(***************************************************************************)
MenuInv ==
    menu = [count |-> menu.count, selected |-> menu.selected, first |-> menu.first,
            label |-> menu.label, value |-> menu.value]
    /\ menu.count \in Nat /\ menu.selected \in Nat /\ menu.first \in Nat

(***************************************************************************)
(* The arithmetic of scrolling: of every row count, however the number of  *)
(* items and the selection have changed since the list was drawn last.     *)
(***************************************************************************)
LEMMA ScrollShowsSelection ==
    ASSUME NEW selected \in Nat, NEW first \in Nat, NEW count \in Nat \ {0},
           NEW rows \in Nat \ {0}
    PROVE  LET scrolled == Screen!ensureMenuSelectionVisible(selected, first, count, rows)
               most == Screen!maximumFirst(count, rows)
               Seen(top) == Screen!Least(selected, count - 1) \in top .. top + rows - 1
           IN  /\ scrolled \in Nat /\ Seen(scrolled) /\ scrolled <= most
               /\ first <= most /\ Seen(first) => scrolled = first
BY DEF Screen!ensureMenuSelectionVisible, Screen!maximumFirst, Screen!Clamped, Screen!Least

LEMMA MenuInvInit == RigInit => MenuInv
<1> SUFFICES ASSUME RigInit PROVE MenuInv
  OBVIOUS
<1>1. PICK label, value :
         menu = [count |-> 0, selected |-> 0, first |-> 0, label |-> label, value |-> value]
  BY DEF RigInit, NoWidgets, Screen!WidgetsInit
<1> QED
  BY <1>1 DEF MenuInv

LEMMA MenuInvNext ==
    MenuInv /\ [RigNext]_vars =>
        /\ MenuInv'
        /\ [ \A r \in Boxes :
                (menu.count > 0 /\ Screen!visibleMenuRowCount(r) > 0
                   /\ painted' # painted /\ painted'.widget = "menu" /\ painted'.box = r) =>
                    LET rows == Screen!visibleMenuRowCount(r)
                        most == Screen!maximumFirst(menu.count, rows)
                    IN  /\ Screen!Seen(menu, menu'.first, rows)
                        /\ menu'.first <= most
                        /\ (menu.first <= most /\ Screen!Seen(menu, menu.first, rows)) =>
                                menu'.first = menu.first ]_(Screen!widgets)
<1> DEFINE Scrolls(r) ==
        LET rows == Screen!visibleMenuRowCount(r)
            most == Screen!maximumFirst(menu.count, rows)
        IN  /\ Screen!Seen(menu, menu'.first, rows)
            /\ menu'.first <= most
            /\ (menu.first <= most /\ Screen!Seen(menu, menu.first, rows)) =>
                    menu'.first = menu.first
<1> SUFFICES ASSUME MenuInv, [RigNext]_vars
             PROVE  /\ MenuInv'
                    /\ \A r \in Boxes :
                          (menu.count > 0 /\ Screen!visibleMenuRowCount(r) > 0
                             /\ painted' # painted /\ painted'.widget = "menu"
                             /\ painted'.box = r) => Scrolls(r)
  BY Zenon
<1> HIDE DEF Scrolls
<1>1. \A r \in Boxes : Screen!visibleMenuRowCount(r) \in Nat
  <2> SUFFICES ASSUME NEW r \in Boxes PROVE Screen!visibleMenuRowCount(r) \in Nat
    OBVIOUS
  <2>1. r.height \in Int /\ rowHeight \in Nat \ {0}
    BY ProgramsAssumption DEF Screen!WidgetsAssumption
  <2>2. r.height > 0 => r.height \div rowHeight \in Nat
    BY <2>1
  <2> QED
    BY <2>1, <2>2 DEF Screen!visibleMenuRowCount
<1>2. CASE UNCHANGED <<menu, painted>>
  BY <1>2 DEF MenuInv
<1>3. ASSUME UNCHANGED menu, painted'.widget # "menu" \/ painted' = painted
      PROVE  MenuInv' /\ (painted' # painted => painted'.widget # "menu")
  BY <1>3 DEF MenuInv
<1>4. CASE Screen!moveSelection \/ Screen!changeItems
  <2>1. painted' = painted
    BY <1>4 DEF Screen!moveSelection, Screen!changeItems
  <2>2. CASE Screen!moveSelection
    <3>1. PICK i \in 0 .. menu.count - 1 : menu' = [menu EXCEPT !.selected = i]
      BY <2>2 DEF Screen!moveSelection
    <3> QED
      BY <2>1, <3>1 DEF MenuInv
  <2>3. CASE Screen!changeItems
    <3>1. PICK n \in 0 .. MaxItems : menu' = [menu EXCEPT !.count = n]
      BY <2>3 DEF Screen!changeItems
    <3>2. n \in Nat
      BY ProgramsAssumption DEF Screen!WidgetsAssumption
    <3> QED
      BY <2>1, <3>1, <3>2 DEF MenuInv
  <2> QED
    BY <1>4, <2>2, <2>3
<1>5. ASSUME NEW r \in Boxes, Screen!showMenu(r)
      PROVE  /\ MenuInv'
             /\ painted'.box = r
             /\ menu.count > 0 /\ Screen!visibleMenuRowCount(r) > 0 => Scrolls(r)
  <2> DEFINE rows == Screen!visibleMenuRowCount(r)
             scrolled == Screen!ensureMenuSelectionVisible(
                            menu.selected, menu.first, menu.count, rows)
  <2>1. menu' = [menu EXCEPT !.first = scrolled] /\ painted'.box = r
    BY <1>5 DEF Screen!showMenu, Screen!Painting
  <2>2. rows \in Nat
    BY <1>1
  <2> HIDE DEF rows
  <2>3. menu.count = 0 \/ rows = 0 => scrolled = 0
    BY DEF Screen!ensureMenuSelectionVisible
  <2>4. menu.count \in Nat \ {0} /\ rows \in Nat \ {0} =>
           /\ scrolled \in Nat
           /\ Screen!Seen(menu, scrolled, rows)
           /\ scrolled <= Screen!maximumFirst(menu.count, rows)
           /\ (menu.first <= Screen!maximumFirst(menu.count, rows)
                 /\ Screen!Seen(menu, menu.first, rows)) => scrolled = menu.first
    BY ScrollShowsSelection DEF MenuInv, Screen!Seen
  <2>5. scrolled \in Nat
    BY <2>2, <2>3, <2>4 DEF MenuInv
  <2> HIDE DEF scrolled
  <2>6. menu'.first = scrolled /\ MenuInv'
    BY <2>1, <2>5 DEF MenuInv
  <2> QED
    BY <2>1, <2>2, <2>4, <2>6 DEF rows, MenuInv, Scrolls
<1>6. \/ UNCHANGED <<menu, painted>>
      \/ Screen!moveSelection \/ Screen!changeItems \/ \E r \in Boxes : Screen!showMenu(r)
      \/ UNCHANGED menu /\ (painted'.widget # "menu" \/ painted' = painted)
  <2>1. CASE Screen!WidgetsNext
    <3>1. ASSUME NEW w, NEW r, NEW marks, NEW message, w # "menu",
                 Screen!Painting(w, r, marks, message)
          PROVE  painted'.widget # "menu"
      BY <3>1 DEF Screen!Painting
    <3>2. ASSUME NEW r, NEW v, Screen!show(r, v)
          PROVE  UNCHANGED menu /\ painted'.widget # "menu"
      BY <3>1, <3>2 DEF Screen!show
    <3>3. ASSUME NEW r, NEW v, NEW message, Screen!showOverlay(r, v, message)
          PROVE  UNCHANGED menu /\ painted'.widget # "menu"
      BY <3>1, <3>3 DEF Screen!showOverlay
    <3>4. CASE Screen!closeWidget
      BY <3>4 DEF Screen!closeWidget, Screen!Nothing
    <3> QED
      BY <2>1, <3>2, <3>3, <3>4 DEF Screen!WidgetsNext
  <2> QED
    BY <2>1
    DEF RigNext, CallerNext, AttenuverterNext, ControllerStep, ControllerSurroundings,
        ControllerRuns, ScreenNext, vars, programs, screenState
<1> QED
  BY <1>2, <1>3, <1>4, <1>5, <1>6 DEF Screen!moveSelection, Screen!changeItems

(***************************************************************************)
(* Whatever happened to the items and to the selection since the menu was  *)
(* drawn last, and however many rows fit: the selected item is on the      *)
(* screen, no row stays empty that an item could fill, and the list does   *)
(* not scroll while the selection can be seen without.                     *)
(***************************************************************************)
THEOREM SelectionIsOnScreen == RigSpec => MenuShowsSelection
BY MenuInvInit, MenuInvNext, PTL DEF RigSpec, MenuShowsSelection, Screen!MenuShowsSelection

-----------------------------------------------------------------------------
(***************************************************************************)
(* Induction over sets of numbers, from the fact that the order of the     *)
(* numbers is well-founded.                                                *)
(***************************************************************************)
LEMMA LeastElement ==
    ASSUME NEW T, T \subseteq Nat, T # {}
    PROVE  \E n \in T : \A m \in T : n <= m
<1> DEFINE Less == {p \in Nat \X Nat : p[1] < p[2]}
<1>1. IsWellFoundedOn(Less, Nat)
  <2>1. OpToRel(<, Nat) = Less
    BY DEF OpToRel
  <2> QED
    BY NatLessThanWellFounded, <2>1
<1>2. \A m, n \in Nat : <<m, n>> \in Less <=> m < n
  OBVIOUS
<1> HIDE DEF Less
<1>3. \E n \in T : \A m \in T : ~ (<<m, n>> \in Less)
  BY <1>1, WFMin
<1>4. PICK n \in T : \A m \in T : ~ (<<m, n>> \in Less)
  BY <1>3
<1>5. \A m \in T : ~ (m < n)
  BY <1>2, <1>4
<1> QED
  BY <1>5

LEMMA SetInduction ==
    ASSUME NEW T, 0 \in T, \A n \in Nat : n \in T => n + 1 \in T
    PROVE  Nat \subseteq T
<1> SUFFICES ASSUME Nat \ T # {} PROVE FALSE
  OBVIOUS
<1>1. PICK n \in Nat \ T : \A m \in Nat \ T : n <= m
  BY LeastElement
<1>2. n # 0 /\ n - 1 \in Nat
  BY <1>1
<1>3. n - 1 \in T
  BY <1>1, <1>2
<1> QED
  BY <1>1, <1>2, <1>3

-----------------------------------------------------------------------------
(***************************************************************************)
(* The displays.  Whatever an earlier call has left in the controller, the *)
(* address of a page is set before its data, so that from there on the     *)
(* pointer stands at the byte that is sent next; and what is sent is the   *)
(* canvas, because it is not drawn on before the flush returns.            *)
(***************************************************************************)
LEMMA DisplayConstants ==
    /\ Pages \in Nat \ {0} /\ Width \in Nat \ {0} /\ MaxChunk \in Nat \ {0}
    /\ ColumnOffset \in Nat
BY DriversAssumption DEF Display!DisplayAssumption

Spot(n) == [page |-> page, column |-> IF chip = "SH1106" THEN ColumnOffset + n ELSE n % Width]

WindowIsPage ==
    chip = "SSD1306" =>
        window = [first |-> 0, last |-> Width - 1, top |-> page, bottom |-> page]

Current(p, column) ==
    Display!Visible(p, column) = [drawing |-> canvas, page |-> p, column |-> column]

DisplayInv ==
    chip \in Display!DisplayChips =>
        /\ Display!NothingMisplaced
        /\ pc \in {"Address", "Data"} =>
              /\ page \in Display!Page
              /\ \A p \in 0 .. page - 1, column \in 0 .. Width - 1 : Current(p, column)
        /\ pc = "Data" =>
              /\ offset \in 0 .. Width /\ pointer = Spot(offset) /\ WindowIsPage
              /\ \A column \in 0 .. offset - 1 : Current(page, column)

LEMMA AdvancesOnPage ==
    ASSUME chip \in Display!DisplayChips, WindowIsPage, page \in Nat, NEW n \in Nat
    PROVE  Display!Advance(Spot(n)) = Spot(n + 1)
<1>1. CASE chip = "SH1106"
  BY <1>1, DisplayConstants DEF Display!Advance, Spot
<1>2. CASE chip # "SH1106"
  <2> DEFINE q == n \div Width
             r == n % Width
  <2>1. q \in Int /\ r \in 0 .. Width - 1 /\ n = Width * q + r
    BY DisplayConstants, Division
  <2>2. Spot(n) = [page |-> page, column |-> r]
    BY <1>2 DEF Spot
  <2>3. window.last = Width - 1 /\ window.first = 0 /\ window.top = page /\ window.bottom = page
    BY <1>2 DEF WindowIsPage, Display!DisplayChips
  <2>4. Spot(n + 1) = [page |-> page, column |-> (n + 1) % Width]
    BY <1>2 DEF Spot
  <2> HIDE DEF q, r
  <2>5. CASE r < Width - 1
    <3>1. n + 1 = Width * q + (r + 1) /\ r + 1 \in 0 .. Width - 1
      BY <2>1, <2>5, DisplayConstants
    <3>2. (n + 1) % Width = r + 1
      BY <3>1, <2>1, DisplayConstants, QuotientOf
    <3> QED
      BY <2>2, <2>3, <2>4, <2>5, <3>2, <1>2 DEF Display!Advance
  <2>6. CASE ~(r < Width - 1)
    <3>1. n + 1 = Width * (q + 1) + 0 /\ 0 \in 0 .. Width - 1 /\ q + 1 \in Int
      BY <2>1, <2>6, DisplayConstants
    <3>2. (n + 1) % Width = 0
      BY <3>1, DisplayConstants, QuotientOf
    <3> QED
      BY <2>2, <2>3, <2>4, <2>6, <3>2, <1>2 DEF Display!Advance
  <2> QED
    BY <2>5, <2>6
<1> QED
  BY <1>1, <1>2

LEMMA PlaceIsSpot ==
    ASSUME chip \in Display!DisplayChips, WindowIsPage, page \in Nat, offset \in Nat,
           pointer = Spot(offset)
    PROVE  \A n \in Nat : Display!Place[n] = Spot(offset + n)
<1> DEFINE walk == [n \in Nat |-> Spot(offset + n)]
<1>1. \A n \in Nat : Display!Advance(Spot(n)) = Spot(n + 1)
  BY AdvancesOnPage
<1>2. walk = [n \in Nat |-> IF n = 0 THEN pointer ELSE Display!Advance(walk[n - 1])]
  <2>1. ASSUME NEW n \in Nat \ {0} PROVE Spot(offset + n) = Display!Advance(walk[n - 1])
    <3>1. /\ n - 1 \in Nat /\ offset + (n - 1) \in Nat
          /\ (offset + (n - 1)) + 1 = offset + n
      OBVIOUS
    <3>2. walk[n - 1] = Spot(offset + (n - 1))
      BY <3>1
    <3> HIDE DEF walk
    <3> QED
      BY <3>1, <3>2, <1>1
  <2>2. Spot(offset + 0) = pointer
    OBVIOUS
  <2>3. \A n \in Nat :
           Spot(offset + n) = IF n = 0 THEN pointer ELSE Display!Advance(walk[n - 1])
    BY <2>1, <2>2
  <2>4. walk = [n \in Nat |-> Spot(offset + n)]
    OBVIOUS
  <2> HIDE DEF walk
  <2> QED
    BY <2>3, <2>4
<1> HIDE DEF walk
<1>3. Display!Place = [n \in Nat |->
                          IF n = 0 THEN pointer ELSE Display!Advance(Display!Place[n - 1])]
  BY <1>2 DEF Display!Place
<1> DEFINE same == {n \in Nat : Display!Place[n] = walk[n]}
<1>4. 0 \in same
  BY <1>2, <1>3
<1>5. ASSUME NEW n \in Nat, n \in same PROVE n + 1 \in same
  <2>1. n + 1 \in Nat /\ n + 1 # 0 /\ (n + 1) - 1 = n
    OBVIOUS
  <2>2. /\ walk[n + 1] = Display!Advance(walk[n])
        /\ Display!Place[n + 1] = Display!Advance(Display!Place[n])
    BY <1>2, <1>3, <2>1
  <2> QED
    BY <1>5, <2>1, <2>2
<1>6. Nat \subseteq same
  <2> HIDE DEF same
  <2> QED
    BY <1>4, <1>5, SetInduction
<1> QED
  BY <1>6 DEF walk

(***************************************************************************)
(* A packet of data, whole or cut short: what it stores of the page that   *)
(* is sent, and that it touches nothing else.                              *)
(***************************************************************************)
LEMMA PacketIsStored ==
    ASSUME chip \in Display!DisplayChips, WindowIsPage, page \in Display!Page,
           offset \in 0 .. Width, pointer = Spot(offset),
           NEW count \in 0 .. Width - offset,
           NEW p \in Display!Page, NEW column \in 0 .. Width - 1
    PROVE  Display!Stored(count)[<<p, column + Display!Offset>>] =
               IF p = page /\ column \in offset .. offset + count - 1
               THEN [drawing |-> canvas, page |-> p, column |-> column]
               ELSE memory[<<p, column + Display!Offset>>]
<1> DEFINE a == <<p, column + Display!Offset>>
           hits == {n \in 0 .. count - 1 :
                       Display!Place[n] = [page |-> a[1], column |-> a[2]]}
<1>1. Width \in Nat \ {0} /\ ColumnOffset \in Nat /\ page \in Nat /\ p \in Nat
      /\ offset \in Nat /\ count \in Nat
  BY DisplayConstants DEF Display!Page
<1>2. a \in Display!Page \X Display!RamColumn /\ a[1] = p /\ a[2] = column + Display!Offset
  BY <1>1 DEF Display!RamColumn, Display!Offset
<1>3. \A n \in 0 .. count - 1 :
         Display!Place[n] = [page |-> page, column |-> (offset + n) + Display!Offset]
  <2> SUFFICES ASSUME NEW n \in 0 .. count - 1
               PROVE  Spot(offset + n) =
                          [page |-> page, column |-> (offset + n) + Display!Offset]
    BY <1>1, PlaceIsSpot
  <2>1. offset + n \in 0 .. Width - 1
    BY <1>1
  <2>2. (offset + n) % Width = offset + n
    <3>1. \A m \in 0 .. Width - 1 : (Width * 0 + m) % Width = m
      BY <1>1, QuotientOf
    <3>2. \A m \in 0 .. Width - 1 : Width * 0 + m = m
      BY <1>1
    <3> QED
      BY <3>1, <3>2, <2>1
  <2> QED
    BY <2>2, <1>1 DEF Spot, Display!Offset
<1>4. \A n \in 0 .. count - 1 : n \in hits <=> p = page /\ column = offset + n
  <2> SUFFICES ASSUME NEW n \in 0 .. count - 1
               PROVE  [page |-> page, column |-> (offset + n) + Display!Offset]
                         = [page |-> p, column |-> column + Display!Offset]
                      <=> p = page /\ column = offset + n
    BY <1>2, <1>3
  <2>1. Display!Offset \in Nat
    BY <1>1 DEF Display!Offset
  <2> QED
    BY <2>1, <1>1
<1>5. Display!Stored(count)[a] =
         IF hits = {} THEN memory[a]
         ELSE Display!Content(offset + CHOOSE n \in hits : \A m \in hits : m <= n)
  BY <1>2 DEF Display!Stored
<1>6. CASE p = page /\ column \in offset .. offset + count - 1
  <2>1. column - offset \in 0 .. count - 1 /\ offset + (column - offset) = column
    BY <1>1, <1>6
  <2>2. \A n \in 0 .. count - 1 : n \in hits <=> n = column - offset
    BY <1>1, <1>4, <1>6
  <2>3. hits = {column - offset}
    BY <2>1, <2>2
  <2> HIDE DEF hits
  <2>4. (CHOOSE n \in hits : \A m \in hits : m <= n) = column - offset
    BY <2>1, <2>3
  <2> QED
    BY <1>5, <1>6, <2>1, <2>3, <2>4 DEF Display!Content
<1>7. CASE ~(p = page /\ column \in offset .. offset + count - 1)
  <2>1. hits = {}
    BY <1>1, <1>4, <1>7
  <2> HIDE DEF hits
  <2> QED
    BY <1>5, <1>7, <2>1
<1> QED
  BY <1>6, <1>7

LEMMA DataKeepsDisplay ==
    ASSUME DisplayInv, chip \in Display!DisplayChips, pc = "Data",
           NEW count \in 0 .. Width - offset,
           memory' = Display!Stored(count), UNCHANGED <<chip, canvas, page, window>>,
           \/ pc' = "Data" /\ offset' = offset + count /\ pointer' = Display!Place[count]
           \/ pc' = "Idle"
    PROVE  DisplayInv'
<1>1. /\ page \in Display!Page /\ page \in Nat /\ offset \in 0 .. Width
      /\ pointer = Spot(offset) /\ WindowIsPage
      /\ Width \in Nat \ {0} /\ Pages \in Nat \ {0}
  BY DisplayConstants DEF DisplayInv, Display!Page
<1>2. \A p \in Display!Page, column \in 0 .. Width - 1 :
         Display!Visible(p, column)' =
             IF p = page /\ column \in offset .. offset + count - 1
             THEN [drawing |-> canvas, page |-> p, column |-> column]
             ELSE Display!Visible(p, column)
  BY <1>1, PacketIsStored DEF Display!Visible, Display!Offset
<1>3. Display!NothingMisplaced'
  BY <1>2 DEF Display!NothingMisplaced, DisplayInv
<1>4. \A p \in Display!Page, column \in 0 .. Width - 1 :
         Current(p, column) \/ (p = page /\ column \in offset .. offset + count - 1)
             => Current(p, column)'
  BY <1>2 DEF Current
<1>5. CASE pc' = "Idle"
  BY <1>3, <1>5 DEF DisplayInv
<1>6. CASE pc' = "Data" /\ offset' = offset + count /\ pointer' = Display!Place[count]
  <2>1. offset' \in 0 .. Width
    BY <1>1, <1>6
  <2>2. (pointer = Spot(offset))'
    <3>1. Display!Place[count] = Spot(offset + count)
      BY <1>1, PlaceIsSpot
    <3> QED
      BY <3>1, <1>6 DEF Spot
  <2>3. WindowIsPage'
    BY <1>1 DEF WindowIsPage
  <2>4. \A p \in 0 .. page - 1, column \in 0 .. Width - 1 : Current(p, column)'
    BY <1>1, <1>4 DEF DisplayInv, Display!Page
  <2>5. \A column \in 0 .. (offset + count) - 1 : Current(page, column)'
    <3> SUFFICES ASSUME NEW column \in 0 .. (offset + count) - 1 PROVE Current(page, column)'
      OBVIOUS
    <3>1. column \in 0 .. Width - 1
      BY <1>1
    <3>2. column \in 0 .. offset - 1 \/ column \in offset .. offset + count - 1
      BY <1>1
    <3> QED
      BY <1>1, <1>4, <3>1, <3>2 DEF DisplayInv
  <2>6. Display!Page' = Display!Page /\ page' = page /\ pc' = "Data"
    BY <1>6 DEF Display!Page
  <2> QED
    BY <1>1, <1>3, <1>6, <2>1, <2>2, <2>3, <2>4, <2>5, <2>6 DEF DisplayInv
<1> QED
  BY <1>5, <1>6

LEMMA DisplayInvInit == RigInit => DisplayInv
<1> SUFFICES ASSUME RigInit PROVE DisplayInv
  OBVIOUS
<1>1. Display!DisplayInit /\ pc = "Idle"
  BY DEF RigInit, Init, NoDriver, Firmware!AttenuverterInit
<1>2. Display!NothingMisplaced
  <2> SUFFICES ASSUME NEW p \in Display!Page, NEW column \in 0 .. Width - 1
               PROVE  Display!Visible(p, column) = Display!Undefined
    BY DEF Display!NothingMisplaced
  <2>1. column + Display!Offset \in Display!RamColumn
    BY DisplayConstants DEF Display!RamColumn, Display!Offset
  <2> QED
    BY <1>1, <2>1 DEF Display!DisplayInit, Display!Visible
<1> QED
  BY <1>1, <1>2 DEF DisplayInv

LEMMA DisplayInvNext == DisplayInv /\ ChipInv /\ [RigNext]_vars => DisplayInv'
<1> SUFFICES ASSUME DisplayInv, ChipInv, [RigNext]_vars PROVE DisplayInv'
  OBVIOUS
<1>1. chip' = chip
  BY ChipStays DEF vars, driver
<1>2. CASE chip \notin Display!DisplayChips
  BY <1>1, <1>2 DEF DisplayInv, Display!DisplayChips
<1>3. ASSUME chip \in Display!DisplayChips, UNCHANGED <<displayState, pc>> PROVE DisplayInv'
  <2>1. UNCHANGED <<canvas, memory, pointer, window, page, offset, pc>>
    BY <1>3 DEF displayState
  <2>2. UNCHANGED <<Spot(offset), WindowIsPage, Display!NothingMisplaced, Display!Page>>
    BY <1>1, <2>1 DEF Spot, WindowIsPage, Display!NothingMisplaced, Display!Visible,
                      Display!Offset, Display!Page
  <2>3. \A p, column : Current(p, column)' <=> Current(p, column)
    BY <1>1, <2>1 DEF Current, Display!Visible, Display!Offset
  <2> QED
    BY <1>1, <1>3, <2>1, <2>2, <2>3 DEF DisplayInv
<1>4. ASSUME chip \in Display!DisplayChips, UNCHANGED <<memory, canvas>>, pc' = "Idle"
      PROVE  DisplayInv'
  <2>1. Display!NothingMisplaced'
    BY <1>1, <1>4 DEF DisplayInv, Display!NothingMisplaced, Display!Visible, Display!Offset
  <2> QED
    BY <1>4, <2>1 DEF DisplayInv
<1>5. CASE chip \in Display!DisplayChips /\ Display!DisplayNext
  <2> DEFINE Kept == UNCHANGED memory
  <2>1. Kept => /\ Display!NothingMisplaced'
                /\ \A p, column : UNCHANGED canvas => (Current(p, column)' <=> Current(p, column))
    BY <1>1, <1>5
    DEF DisplayInv, Display!NothingMisplaced, Display!Visible, Display!Offset, Current
  <2> HIDE DEF Kept
  <2>2. ASSUME NEW drawing, Display!draw(drawing) PROVE DisplayInv'
    <3>1. Kept /\ pc' = "Idle"
      BY <2>2 DEF Display!draw, Display!driver, Display!Idle, Kept
    <3> QED
      BY <2>1, <3>1 DEF DisplayInv
  <2>3. CASE \/ Display!InitializeFailsEarly \/ Display!Busy \/ Display!AddressFails
             \/ \E r \in {"Success", "Error"} : Display!InitializeEnds(r)
    BY <1>4, <1>5, <2>3
    DEF Display!InitializeFailsEarly, Display!Busy, Display!AddressFails,
        Display!InitializeEnds, Display!Return, Display!display
  <2>4. CASE Display!flush
    <3>1. Kept /\ pc' = "Address" /\ page' = 0
      BY <2>4 DEF Display!flush, Kept
    <3>2. 0 \in Display!Page
      BY DisplayConstants DEF Display!Page
    <3> QED
      BY <2>1, <3>1, <3>2 DEF DisplayInv, Display!Page
  <2>5. CASE Display!Address
    <3>1. /\ Kept /\ UNCHANGED <<canvas, page>> /\ pc = "Address" /\ pc' = "Data"
          /\ offset' = 0 /\ Display!SetAddress(page)
      BY <2>5 DEF Display!Address, Kept
    <3>2. (pointer = Spot(offset))' /\ WindowIsPage'
      <4>1. CASE chip = "SSD1306"
        <5>1. 0 % Width = 0
          <6>1. (Width * 0 + 0) % Width = 0 /\ Width * 0 + 0 = 0
            BY DisplayConstants, QuotientOf
          <6> QED
            BY <6>1
        <5>2. /\ pointer' = [page |-> page, column |-> 0]
              /\ window' = [first |-> 0, last |-> Width - 1, top |-> page, bottom |-> page]
          BY <3>1, <4>1 DEF Display!SetAddress, Display!SetWindow
        <5> QED
          BY <1>1, <3>1, <4>1, <5>1, <5>2 DEF Spot, WindowIsPage
      <4>2. CASE chip = "SH1106"
        BY <1>1, <3>1, <4>2, DisplayConstants
        DEF Display!SetAddress, Display!SetPointer, Spot, WindowIsPage
      <4> QED
        BY <1>5, <4>1, <4>2 DEF Display!DisplayChips
    <3>3. /\ page \in Display!Page
          /\ \A p \in 0 .. page - 1, column \in 0 .. Width - 1 : Current(p, column)
      BY <1>5, <3>1 DEF DisplayInv
    <3>4. offset' \in 0 .. Width /\ Display!Page' = Display!Page
      BY <3>1, DisplayConstants DEF Display!Page
    <3> QED
      BY <2>1, <3>1, <3>2, <3>3, <3>4 DEF DisplayInv
  <2>6. CASE Display!Data
    <3>1. /\ pc = "Data" /\ pc' = "Data" /\ memory' = Display!Stored(Display!Chunk)
          /\ pointer' = Display!Place[Display!Chunk] /\ offset' = offset + Display!Chunk
          /\ UNCHANGED <<canvas, page, window>>
      BY <2>6 DEF Display!Data, Display!driver
    <3>2. Display!Chunk \in 0 .. Width - offset
      BY <1>5, <2>6, <3>1, DisplayConstants DEF DisplayInv, Display!Chunk, Display!Data
    <3> QED
      BY <1>1, <1>5, <3>1, <3>2, DataKeepsDisplay
  <2>7. ASSUME NEW count \in 0 .. MaxChunk, Display!DataFails(count) PROVE DisplayInv'
    <3>1. /\ pc = "Data" /\ pc' = "Idle" /\ memory' = Display!Stored(count)
          /\ UNCHANGED <<canvas, page, window>>
          /\ offset < Width /\ count <= Display!Chunk
      BY <2>7 DEF Display!DataFails, Display!Return
    <3>2. count \in 0 .. Width - offset
      BY <1>5, <3>1, DisplayConstants DEF DisplayInv, Display!Chunk
    <3> QED
      BY <1>1, <1>5, <3>1, <3>2, DataKeepsDisplay
  <2>8. CASE Display!PageDone
    <3>1. /\ Kept /\ UNCHANGED canvas /\ pc = "Data" /\ offset = Width
          /\ \/ page < Pages - 1 /\ page' = page + 1 /\ pc' = "Address"
             \/ pc' = "Idle"
      BY <2>8 DEF Display!PageDone, Display!Return, Kept
    <3>2. CASE pc' = "Idle"
      BY <2>1, <3>1, <3>2 DEF DisplayInv
    <3>3. CASE page < Pages - 1 /\ page' = page + 1 /\ pc' = "Address"
      <4>1. page \in Display!Page /\ page \in Nat
        BY <1>5, <3>1, DisplayConstants DEF DisplayInv, Display!Page
      <4>2. (page \in Display!Page)'
        BY <3>3, <4>1, DisplayConstants DEF Display!Page
      <4>3. \A p \in 0 .. page, column \in 0 .. Width - 1 : Current(p, column)
        BY <1>5, <3>1, <4>1 DEF DisplayInv
      <4>4. (page + 1) - 1 = page
        BY <4>1
      <4>5. \A p \in 0 .. page' - 1, column \in 0 .. Width - 1 : Current(p, column)'
        BY <2>1, <3>1, <3>3, <4>3, <4>4
      <4> QED
        BY <2>1, <3>1, <3>3, <4>2, <4>5 DEF DisplayInv
    <3> QED
      BY <3>1, <3>2, <3>3
  <2> QED
    BY <1>5, <2>2, <2>3, <2>4, <2>5, <2>6, <2>7, <2>8 DEF Display!DisplayNext
<1>6. \/ chip \notin Display!DisplayChips
      \/ chip \in Display!DisplayChips /\ Display!DisplayNext
      \/ UNCHANGED <<displayState, pc>>
  <2>1. CASE UNCHANGED vars
    BY <2>1 DEF vars, outputChips, driver
  <2>2. CASE CallerNext
    BY <2>2
    DEF CallerNext, Next, outputChips, Leds!LedNext, Leds!LedChips, Dac!DacNext, Dac!DacChips,
        Display!DisplayNext, Display!DisplayChips, Expander!PortNext, Readers!InputNext,
        Readers!InputChipNames, Pins!PinNext
  <2>3. CASE AttenuverterNext \/ ControllerStep \/ ControllerSurroundings \/ ScreenNext
    BY <2>3
    DEF AttenuverterNext, ControllerStep, ControllerSurroundings, ScreenNext,
        Display!DisplayChips, ChipInv
  <2> QED
    BY <2>1, <2>2, <2>3 DEF RigNext
<1> QED
  BY <1>2, <1>3, <1>5, <1>6

(***************************************************************************)
(* However many pages and columns there are, however long the packets, and *)
(* wherever an earlier call has left the address pointer: no visible byte  *)
(* is ever at a wrong place, and a flush that returns Success has brought  *)
(* the canvas to the panel, all of it.                                     *)
(***************************************************************************)
THEOREM PanelShowsCanvas == RigSpec => DisplayFollowsCanvas
<1>1. DisplayInv /\ DisplayInv' /\ ChipInv /\ [RigNext]_vars =>
         [(chip \in Display!DisplayChips) =>
             Display!NothingMisplaced'
             /\ (Display!FlushSucceeds => Display!ShowsCanvas')]_<<Display!driver, Display!display>>
  <2> SUFFICES ASSUME DisplayInv, DisplayInv', ChipInv, [RigNext]_vars,
                      chip \in Display!DisplayChips
               PROVE  /\ Display!NothingMisplaced'
                      /\ Display!FlushSucceeds => Display!ShowsCanvas'
    BY Zenon
  <2>1. chip' = chip /\ Display!DisplayChips' = Display!DisplayChips
    BY ChipStays DEF vars, driver, Display!DisplayChips
  <2>2. Display!NothingMisplaced'
    BY <2>1 DEF DisplayInv
  <2>3. ASSUME Display!FlushSucceeds PROVE Display!ShowsCanvas'
    <3>1. pc = "Data" /\ pc' = "Idle" /\ result' = "Success"
      BY <2>3 DEF Display!FlushSucceeds
    <3>2. Display!PageDone
      <4>1. Display!DisplayNext
        <5>1. CASE CallerNext
          BY <3>1, <5>1
          DEF CallerNext, Next, Leds!LedNext, Leds!LedChips, Dac!DacNext, Dac!DacChips,
              Display!DisplayChips, Expander!PortNext, Readers!InputNext,
              Readers!InputChipNames, Pins!PinNext
        <5>2. CASE UNCHANGED vars
          BY <3>1, <5>2 DEF vars, driver
        <5>3. CASE AttenuverterNext \/ ControllerStep \/ ControllerSurroundings \/ ScreenNext
          BY <5>3
          DEF AttenuverterNext, ControllerStep, ControllerSurroundings, ScreenNext,
              Display!DisplayChips, ChipInv
        <5> QED
          BY <5>1, <5>2, <5>3 DEF RigNext
      <4> QED
        BY <3>1, <4>1
        DEF Display!DisplayNext, Display!draw, Display!driver, Display!Idle,
            Display!InitializeFailsEarly, Display!Busy, Display!flush, Display!InitializeEnds,
            Display!Address, Display!AddressFails, Display!Data, Display!DataFails,
            Display!Return
    <3>3. /\ offset = Width /\ page = Pages - 1
          /\ UNCHANGED <<chip, canvas, memory>>
      BY <3>1, <3>2 DEF Display!PageDone
    <3>4. \A p \in Display!Page, column \in 0 .. Width - 1 : Current(p, column)
      BY <3>1, <3>3, DisplayConstants DEF DisplayInv, Display!Page
    <3> QED
      BY <3>3, <3>4 DEF Current, Display!ShowsCanvas, Display!Visible, Display!Offset
  <2> QED
    BY <2>2, <2>3
<1>2. RigSpec => []DisplayInv
  BY DisplayInvInit, DisplayInvNext, ChipsInvariant, PTL DEF RigSpec
<1> QED
  BY <1>1, <1>2, ChipsInvariant, PTL DEF RigSpec, DisplayFollowsCanvas, Display!DisplayFollowsCanvas

-----------------------------------------------------------------------------
(***************************************************************************)
(* Recursive functions on an initial segment of the numbers: there is one  *)
(* for every first value and every step.                                   *)
(***************************************************************************)
Iterates(S, N, base, step) ==
    {f \in [0 .. N -> S] : f[0] = base /\ \A n \in 1 .. N : f[n] = step[n][f[n - 1]]}

LEMMA RecursionExists ==
    ASSUME NEW S, NEW N \in Nat, NEW base \in S, NEW step \in [1 .. N -> [S -> S]]
    PROVE  Iterates(S, N, base, step) # {}
<1> DEFINE Upto(m, f) == f[0] = base /\ \A n \in 1 .. m : f[n] = step[n][f[n - 1]]
           T == {m \in Nat : m <= N => \E f \in [0 .. m -> S] : Upto(m, f)}
<1>1. 0 \in T
  <2>1. [n \in 0 .. 0 |-> base] \in [0 .. 0 -> S] /\ Upto(0, [n \in 0 .. 0 |-> base])
    OBVIOUS
  <2> QED
    BY <2>1
<1>2. ASSUME NEW m \in Nat, m \in T PROVE m + 1 \in T
  <2> SUFFICES ASSUME m + 1 <= N PROVE \E f \in [0 .. m + 1 -> S] : Upto(m + 1, f)
    OBVIOUS
  <2>1. PICK f \in [0 .. m -> S] : Upto(m, f)
    BY <1>2
  <2> DEFINE g == [n \in 0 .. m + 1 |-> IF n <= m THEN f[n] ELSE step[m + 1][f[m]]]
  <2>2. g \in [0 .. m + 1 -> S]
    OBVIOUS
  <2>3. Upto(m + 1, g)
    BY <2>1
  <2> QED
    BY <2>2, <2>3
<1>3. N \in T
  <2> HIDE DEF T
  <2> QED
    BY <1>1, <1>2, SetInduction
<1> QED
  BY <1>3 DEF Iterates

(***************************************************************************)
(* FlattenSeq puts its sequences after each other, one at a time.          *)
(***************************************************************************)
LEMMA FlattenSteps ==
    ASSUME NEW S, NEW seqs \in Seq(Seq(S))
    PROVE  \E f \in [0 .. Len(seqs) -> Seq(S)] :
              /\ f[0] = <<>>
              /\ \A i \in 1 .. Len(seqs) : f[i] = f[i - 1] \o seqs[i]
              /\ Screen!FlattenSeq(seqs) = f[Len(seqs)]
<1>1. PICK N \in Nat : N = Len(seqs)
  OBVIOUS
<1>2. \A i \in 1 .. N : seqs[i] \in Seq(S)
  BY <1>1
<1> DEFINE Steps(f) == f[0] = <<>> /\ \A i \in 1 .. N : f[i] = f[i - 1] \o seqs[i]
<1> SUFFICES \E f \in [0 .. N -> Seq(S)] : Steps(f) /\ Screen!FlattenSeq(seqs) = f[N]
  BY <1>1, Zenon
<1>3. \E f \in [0 .. N -> Seq(S)] : Steps(f)
  <2> DEFINE step == [n \in 1 .. N |-> [s \in Seq(S) |-> s \o seqs[n]]]
  <2>1. step \in [1 .. N -> [Seq(S) -> Seq(S)]]
    BY <1>2
  <2>2. <<>> \in Seq(S)
    OBVIOUS
  <2>3. \A n \in 1 .. N, s \in Seq(S) : step[n][s] = s \o seqs[n]
    OBVIOUS
  <2> HIDE DEF step
  <2>4. PICK f : f \in Iterates(Seq(S), N, <<>>, step)
    <3>1. Iterates(Seq(S), N, <<>>, step) # {}
      BY <2>1, <2>2, RecursionExists
    <3> QED
      BY <3>1
  <2>5. /\ f \in [0 .. N -> Seq(S)] /\ f[0] = <<>>
        /\ \A n \in 1 .. N : f[n] = step[n][f[n - 1]]
    BY <2>4, Zenon DEF Iterates
  <2>6. \A n \in 1 .. N : f[n - 1] \in Seq(S)
    BY <2>5
  <2>7. \A n \in 1 .. N : f[n] = f[n - 1] \o seqs[n]
    BY <2>3, <2>5, <2>6, Zenon
  <2> QED
    BY <2>5, <2>7
<1>4. PICK f \in [0 .. N -> Seq(S)] : Steps(f)
  BY <1>3, Zenon
<1>5. Screen!FlattenSeq(seqs) = f[N]
  <2>1. CASE N = 0
    <3>1. Screen!FlattenSeq(seqs) = seqs
      BY <1>1, <2>1 DEF Screen!FlattenSeq
    <3>2. seqs = <<>>
      <4>1. Len(seqs) = 0
        BY <1>1, <2>1
      <4> QED
        BY <4>1
    <3> QED
      BY <1>4, <2>1, <3>1, <3>2
  <2>2. CASE N # 0
    <3> DEFINE Equation(h) ==
                  h = [i \in 1 .. N |-> IF i = 1 THEN seqs[i] ELSE h[i - 1] \o seqs[i]]
               flatten == CHOOSE h : Equation(h)
               g == [i \in 1 .. N |-> f[i]]
    <3>1. f[1] = seqs[1]
      <4>1. 1 \in 1 .. N /\ 1 - 1 = 0
        BY <2>2
      <4>2. f[1] = f[0] \o seqs[1] /\ seqs[1] \in Seq(S)
        BY <1>2, <1>4, <4>1
      <4> QED
        BY <1>4, <4>2
    <3>2. \A i \in 1 .. N : f[i] = IF i = 1 THEN seqs[i] ELSE g[i - 1] \o seqs[i]
      <4> SUFFICES ASSUME NEW i \in 1 .. N, i # 1 PROVE f[i] = g[i - 1] \o seqs[i]
        BY <3>1
      <4>1. i - 1 \in 1 .. N
        OBVIOUS
      <4> QED
        BY <1>4, <4>1
    <3>3. Equation(g)
      BY <3>2, Zenon
    <3> HIDE DEF g
    <3>4. Equation(flatten)
      BY <3>3, Zenon
    <3>5. Screen!FlattenSeq(seqs) = flatten[N]
      <4>1. Len(seqs) # 0 /\ seqs # <<>>
        BY <1>1, <2>2
      <4> QED
        BY <1>1, <4>1 DEF Screen!FlattenSeq
    <3> HIDE DEF flatten
    <3>6. flatten[1] = seqs[1] /\ \A i \in 2 .. N : flatten[i] = flatten[i - 1] \o seqs[i]
      <4>1. \A i \in 1 .. N : flatten[i] = IF i = 1 THEN seqs[i] ELSE flatten[i - 1] \o seqs[i]
        BY <3>4, Zenon
      <4>2. 1 \in 1 .. N /\ \A i \in 2 .. N : i \in 1 .. N /\ i # 1
        BY <2>2
      <4> QED
        BY <4>1, <4>2, Zenon
    <3> DEFINE T == {n \in Nat : n + 1 <= N => flatten[n + 1] = f[n + 1]}
    <3>7. 0 \in T
      BY <3>1, <3>6
    <3>8. ASSUME NEW n \in Nat, n \in T PROVE n + 1 \in T
      <4> SUFFICES ASSUME n + 2 <= N PROVE flatten[n + 2] = f[n + 2]
        OBVIOUS
      <4>1. flatten[n + 1] = f[n + 1]
        BY <3>8
      <4>2. flatten[n + 2] = flatten[n + 1] \o seqs[n + 2]
        <5>1. n + 2 \in 2 .. N /\ (n + 2) - 1 = n + 1
          OBVIOUS
        <5> QED
          BY <3>6, <5>1
      <4>3. f[n + 2] = f[n + 1] \o seqs[n + 2]
        <5>1. n + 2 \in 1 .. N /\ (n + 2) - 1 = n + 1
          OBVIOUS
        <5> QED
          BY <1>4, <5>1
      <4> QED
        BY <4>1, <4>2, <4>3
    <3>9. N - 1 \in T
      <4>1. N - 1 \in Nat
        BY <2>2
      <4> HIDE DEF T
      <4>2. Nat \subseteq T
        BY <3>7, <3>8, SetInduction
      <4> QED
        BY <4>1, <4>2
    <3> QED
      BY <2>2, <3>5, <3>9
  <2> QED
    BY <2>1, <2>2
<1> QED
  BY <1>4, <1>5

LEMMA FlattenType ==
    ASSUME NEW S, NEW seqs \in Seq(Seq(S)) PROVE Screen!FlattenSeq(seqs) \in Seq(S)
<1>1. PICK f \in [0 .. Len(seqs) -> Seq(S)] : Screen!FlattenSeq(seqs) = f[Len(seqs)]
  BY FlattenSteps
<1> QED
  BY <1>1

-----------------------------------------------------------------------------
(***************************************************************************)
(* Widgets.  What is painted into a part of a box stays in the box.        *)
(***************************************************************************)
Area == [x : Int, y : Int, width : Int, height : Int]
Kinds == {"fill", "frame", "text", "circle", "glyph"}
Parts ==
    {"background", "frame", "title", "label", "value", "line", "left", "center", "right",
     "row", "track", "thumb", "knob", "arrow", "bar", "rest", "cross", "Yes", "Cancel", "action"}
Mark(r) == {m \in [kind : Kinds, box : Area, what : Parts] :
               Screen!Within(Screen!Reach(r, m.what), m.box)}

Stays(r, box) == box \in Area /\ (Screen!valid(box) => Screen!Within(r, box))

LEMMA Joined ==
    ASSUME NEW S, NEW s \in Seq(S), NEW t \in Seq(S) PROVE s \o t \in Seq(S)
OBVIOUS

LEMMA SixJoined ==
    ASSUME NEW S, NEW a \in Seq(S), NEW b \in Seq(S), NEW c \in Seq(S), NEW d \in Seq(S),
           NEW e \in Seq(S), NEW f \in Seq(S)
    PROVE  a \o b \o c \o d \o e \o f \in Seq(S)
<1>1. a \o b \o c \in Seq(S)
  BY Joined
<1>2. a \o b \o c \o d \o e \in Seq(S)
  BY <1>1, Joined
<1> QED
  BY <1>2, Joined

LEMMA ReachIsWider ==
    ASSUME NEW r \in Area, NEW what
    PROVE  /\ Screen!Reach(r, what) \in Area
           /\ \A box \in Area : Screen!Within(r, box) => Screen!Within(Screen!Reach(r, what), box)
<1>1. PICK x \in Int, y \in Int, width \in Int, height \in Int :
         r = [x |-> x, y |-> y, width |-> width, height |-> height]
  BY DEF Area
<1>2. \/ Screen!Reach(r, what) = r
      \/ Screen!Reach(r, what) = [x |-> x, y |-> y, width |-> width + 1, height |-> height]
  BY <1>1 DEF Screen!Reach
<1>3. CASE Screen!Reach(r, what) = r
  BY <1>3
<1>4. CASE Screen!Reach(r, what) = [x |-> x, y |-> y, width |-> width + 1, height |-> height]
  <2>1. [x |-> x, y |-> y, width |-> width + 1, height |-> height] \in Area
    BY DEF Area
  <2>2. ASSUME NEW box \in Area, Screen!Within(r, box)
        PROVE  Screen!Within([x |-> x, y |-> y, width |-> width + 1, height |-> height], box)
    <3>1. PICK a \in Int, b \in Int, w \in Int, h \in Int :
             box = [x |-> a, y |-> b, width |-> w, height |-> h]
      BY DEF Area
    <3> QED
      BY <1>1, <2>2, <3>1 DEF Screen!Within, Screen!right, Screen!bottom
  <2> QED
    BY <1>4, <2>1, <2>2
<1> QED
  BY <1>2, <1>3, <1>4

LEMMA PaintReaches ==
    ASSUME NEW r, NEW kind \in Kinds, NEW what \in Parts,
           NEW box, Stays(Screen!Reach(r, what), box)
    PROVE  Screen!Paint(kind, box, what) \in Seq(Mark(r))
<1> DEFINE m == [kind |-> kind, box |-> box, what |-> what]
<1>1. CASE Screen!valid(box)
  <2>1. m \in Mark(r)
    BY <1>1 DEF Stays, Mark
  <2> HIDE DEF m
  <2>2. <<m>> \in Seq(Mark(r))
    BY <2>1
  <2> QED
    BY <1>1, <2>2 DEF Screen!Paint, m
<1>2. CASE ~Screen!valid(box)
  BY <1>2 DEF Screen!Paint
<1> QED
  BY <1>1, <1>2

LEMMA PaintFits ==
    ASSUME NEW r \in Area, NEW box, Stays(r, box), NEW kind \in Kinds, NEW what \in Parts
    PROVE  Screen!Paint(kind, box, what) \in Seq(Mark(r))
<1>1. Stays(Screen!Reach(r, what), box)
  BY ReachIsWider DEF Stays
<1> QED
  BY <1>1, PaintReaches

LEMMA PartStays ==
    ASSUME NEW r \in Area, NEW room \in Area, Screen!Within(r, room),
           NEW x \in Int, NEW y \in Int, NEW width \in Int, NEW height \in Int,
           x >= room.x, x + width <= room.x + room.width,
           y >= room.y, y + height <= room.y + room.height
    PROVE  Stays(r, [x |-> x, y |-> y, width |-> width, height |-> height])
<1>1. PICK rx \in Int, ry \in Int, rw \in Int, rh \in Int :
         rx = r.x /\ ry = r.y /\ rw = r.width /\ rh = r.height
  BY DEF Area
<1>2. PICK px \in Int, py \in Int, pw \in Int, ph \in Int :
         px = room.x /\ py = room.y /\ pw = room.width /\ ph = room.height
  BY DEF Area
<1>3. x >= rx /\ x + width <= rx + rw /\ y >= ry /\ y + height <= ry + rh
  BY <1>1, <1>2 DEF Screen!Within, Screen!right, Screen!bottom
<1> QED
  BY <1>1, <1>3 DEF Stays, Area, Screen!Within, Screen!right, Screen!bottom

LEMMA InsetIsInside ==
    ASSUME NEW r \in Area, NEW amount \in Nat
    PROVE  /\ Screen!inset(r, amount) \in Area
           /\ r.width >= 2 * amount /\ r.height >= 2 * amount =>
                  Screen!inset(r, amount) =
                      [x |-> r.x + amount, y |-> r.y + amount,
                       width |-> r.width - 2 * amount, height |-> r.height - 2 * amount]
BY DEF Screen!inset, Screen!Rectangle, Screen!Greatest, Area

LEMMA InsetStays ==
    ASSUME NEW r \in Area, NEW box \in Area, Stays(r, box)
    PROVE  Screen!inset(box, 1) \in Area /\ Stays(r, Screen!inset(box, 1))
<1>1. Screen!inset(box, 1) \in Area
  BY InsetIsInside
<1>2. ASSUME Screen!valid(Screen!inset(box, 1))
      PROVE  Screen!Within(r, Screen!inset(box, 1))
  <2>1. PICK x \in Int, y \in Int, width \in Int, height \in Int :
           box = [x |-> x, y |-> y, width |-> width, height |-> height]
    BY DEF Area
  <2>2. Screen!inset(box, 1) =
           [x |-> x + 1, y |-> y + 1, width |-> Screen!Greatest(0, width - 2),
            height |-> Screen!Greatest(0, height - 2)]
    BY <2>1 DEF Screen!inset, Screen!Rectangle
  <2>3. width > 2 /\ height > 2
    BY <1>2, <2>2 DEF Screen!valid, Screen!Greatest
  <2>4. Screen!inset(box, 1) =
           [x |-> x + 1, y |-> y + 1, width |-> width - 2, height |-> height - 2]
    BY <2>2, <2>3 DEF Screen!Greatest
  <2>5. Screen!Within(r, box)
    BY <2>1, <2>3 DEF Stays, Screen!valid
  <2>6. Stays(r, [x |-> x + 1, y |-> y + 1, width |-> width - 2, height |-> height - 2])
    <3>1. PICK a \in Int, b \in Int, w \in Int, h \in Int :
             a = x + 1 /\ b = y + 1 /\ w = width - 2 /\ h = height - 2
      OBVIOUS
    <3>2. /\ a >= box.x /\ a + w <= box.x + box.width
          /\ b >= box.y /\ b + h <= box.y + box.height
      BY <2>1, <3>1
    <3>3. Stays(r, [x |-> a, y |-> b, width |-> w, height |-> h])
      BY <2>5, <3>2, PartStays
    <3> QED
      BY <3>1, <3>3
  <2> QED
    BY <1>2, <2>4, <2>6 DEF Stays
<1> QED
  BY <1>1, <1>2 DEF Stays

LEMMA PartOfPartStays ==
    ASSUME NEW r \in Area, NEW room \in Area, Stays(r, room),
           NEW x \in Int, NEW y \in Int, NEW width \in Int, NEW height \in Int,
           x >= room.x, x + width <= room.x + room.width,
           y >= room.y, y + height <= room.y + room.height
    PROVE  Stays(r, [x |-> x, y |-> y, width |-> width, height |-> height])
<1>1. CASE width > 0 /\ height > 0
  <2>1. PICK a \in Int, b \in Int, w \in Int, h \in Int :
           room = [x |-> a, y |-> b, width |-> w, height |-> h]
    BY DEF Area
  <2>2. w > 0 /\ h > 0
    BY <1>1, <2>1
  <2>3. Screen!Within(r, room)
    BY <2>1, <2>2 DEF Stays, Screen!valid
  <2> QED
    BY <2>3, PartStays
<1>2. CASE ~(width > 0 /\ height > 0)
  BY <1>2 DEF Stays, Screen!valid, Area
<1> QED
  BY <1>1, <1>2

\* The box inside the frame of a selected widget, and the whole box of another.
LEMMA InnerStays ==
    ASSUME NEW r \in Area, r.width >= 0, r.height >= 0, NEW selected \in BOOLEAN
    PROVE  LET inner == Screen!inset(r, IF selected THEN 1 ELSE 0) IN
           /\ inner \in Area /\ Stays(r, inner)
           /\ inner.width >= 0 /\ inner.height >= 0
<1>1. PICK x \in Int, y \in Int, width \in Nat, height \in Nat :
         r = [x |-> x, y |-> y, width |-> width, height |-> height]
  BY DEF Area
<1>2. Stays(r, r)
  BY DEF Stays, Screen!Within, Screen!right, Screen!bottom, Area
<1>3. Screen!inset(r, 0) = r
  BY <1>1 DEF Screen!inset, Screen!Rectangle, Screen!Greatest
<1>4. /\ Screen!inset(r, 1) \in Area /\ Stays(r, Screen!inset(r, 1))
      /\ Screen!inset(r, 1).width >= 0 /\ Screen!inset(r, 1).height >= 0
  <2>1. /\ Screen!inset(r, 1).width = Screen!Greatest(0, width - 2)
        /\ Screen!inset(r, 1).height = Screen!Greatest(0, height - 2)
    BY <1>1 DEF Screen!inset, Screen!Rectangle
  <2>2. Screen!Greatest(0, width - 2) >= 0 /\ Screen!Greatest(0, height - 2) >= 0
    BY DEF Screen!Greatest
  <2> QED
    BY <1>2, <2>1, <2>2, InsetStays
<1> QED
  BY <1>1, <1>2, <1>3, <1>4

LEMMA TextFits ==
    ASSUME NEW r \in Area, NEW box, Stays(r, box), NEW length \in Nat, NEW what \in Parts,
           NEW horizontal \in {"Left", "Center", "Right"},
           NEW vertical \in {"Top", "Middle", "Bottom"}, NEW inverted \in BOOLEAN
    PROVE  Screen!Text(box, length, Screen!Style(horizontal, vertical, inverted), what)
               \in Seq(Mark(r))
<1> DEFINE style == Screen!Style(horizontal, vertical, inverted)
           width == Screen!measureText(length)
           origin == Screen!alignedOrigin(box, width, style)
           text == Screen!intersect(box, Screen!Rectangle(origin.x, origin.y, width, GlyphHeight))
<1>1. GlyphWidth = 5 /\ GlyphHeight = 7 /\ horizontalSpacing = 1
  BY ProgramsAssumption DEF Screen!WidgetsAssumption
<1>2. width \in Int
  BY <1>1 DEF Screen!measureText
<1>3. \A n \in Int : Screen!Half(n) \in Int
  BY DEF Screen!Half
<1>4. origin.x \in Int /\ origin.y \in Int
  <2>1. box.x \in Int /\ box.y \in Int /\ box.width \in Int /\ box.height \in Int
    BY DEF Stays, Area
  <2>2. style.horizontal = horizontal /\ style.vertical = vertical
    BY DEF Screen!Style
  <2> HIDE DEF width, style
  <2> QED
    BY <1>1, <1>2, <1>3, <2>1, <2>2 DEF Screen!alignedOrigin, Screen!Point
<1> HIDE DEF origin, width, style
<1>5. Stays(r, text)
  BY <1>1, <1>2, <1>4
  DEF Stays, Area, Screen!intersect, Screen!Rectangle, Screen!Greatest, Screen!Least,
      Screen!right, Screen!bottom, Screen!valid, Screen!Within
<1> HIDE DEF text
<1>6. /\ Screen!Paint("fill", box, what) \in Seq(Mark(r))
      /\ Screen!Paint("text", text, what) \in Seq(Mark(r))
  <2>1. "fill" \in Kinds /\ "text" \in Kinds
    BY DEF Kinds
  <2> QED
    BY <1>5, <2>1, PaintFits
<1>7. (IF style.mode = "Inverted" THEN Screen!Paint("fill", box, what) ELSE <<>>)
          \o Screen!Paint("text", text, what) \in Seq(Mark(r))
  BY <1>6
<1> QED
  BY <1>7 DEF Screen!Text, text, origin, width, style

LEMMA FrameFits ==
    ASSUME NEW r \in Area, NEW selected \in BOOLEAN
    PROVE  Screen!drawSelectionFrame(r, selected) \in Seq(Mark(r))
<1>1. Stays(r, r) /\ "frame" \in Kinds /\ "frame" \in Parts
  BY DEF Stays, Screen!Within, Screen!right, Screen!bottom, Area, Kinds, Parts
<1>2. Screen!Paint("frame", r, "frame") \in Seq(Mark(r))
  BY <1>1, PaintFits
<1> QED
  BY <1>2 DEF Screen!drawSelectionFrame

LEMMA ParameterFits ==
    ASSUME NEW r \in Area, Screen!HasRoom("parameter", r), NEW v, v.label \in Nat,
           v.value \in Nat, v.selected \in BOOLEAN
    PROVE  Screen!drawParameter(r, v) \in Seq(Mark(r))
<1> DEFINE amount == IF v.selected THEN 1 ELSE 0
           inner == Screen!inset(r, amount)
           height == Screen!Least(8, inner.height)
           top == Screen!Rectangle(inner.x, inner.y, inner.width, height)
           rest == Screen!Rectangle(inner.x, inner.y + height, inner.width, inner.height - height)
<1>1. inner \in Area /\ Stays(r, inner) /\ inner.width >= 0 /\ inner.height >= 0
  BY InnerStays DEF Screen!HasRoom
<1> HIDE DEF inner, amount
<1>2. Stays(r, top) /\ Stays(r, rest)
  <2>1. PICK x \in Int, y \in Int, w \in Int, h \in Int :
           inner = [x |-> x, y |-> y, width |-> w, height |-> h]
    BY <1>1 DEF Area
  <2>2. height \in 0 .. h
    BY <1>1, <2>1 DEF Screen!Least
  <2> HIDE DEF height
  <2>3. PICK b \in Int, d \in Int : b = y + height /\ d = h - height
    BY <2>2
  <2>4. /\ Stays(r, [x |-> x, y |-> y, width |-> w, height |-> height])
        /\ Stays(r, [x |-> x, y |-> b, width |-> w, height |-> d])
    <3>1. /\ x >= inner.x /\ x + w <= inner.x + inner.width
          /\ y >= inner.y /\ y + height <= inner.y + inner.height
          /\ b >= inner.y /\ b + d <= inner.y + inner.height
      BY <2>1, <2>2, <2>3
    <3> QED
      BY <1>1, <2>2, <3>1, PartOfPartStays
  <2> QED
    BY <2>1, <2>3, <2>4 DEF Screen!Rectangle
<1> HIDE DEF top, rest, height
<1>3. /\ Screen!Text(top, v.label, Screen!Style("Center", "Top", FALSE), "label") \in Seq(Mark(r))
      /\ Screen!Text(rest, Screen!Least(31, v.value),
                     Screen!Style("Center", "Middle", v.selected), "value") \in Seq(Mark(r))
  <2>1. Screen!Least(31, v.value) \in Nat /\ "label" \in Parts /\ "value" \in Parts
    BY DEF Screen!Least, Parts
  <2> QED
    BY <1>2, <2>1, TextFits
<1>4. Screen!drawSelectionFrame(r, v.selected) \in Seq(Mark(r))
  BY FrameFits
<1> QED
  BY <1>3, <1>4, Joined, Zenon DEF Screen!drawParameter, top, rest, height, inner, amount

LEMMA PotentiometerFits ==
    ASSUME NEW r \in Area, Screen!HasRoom("potentiometer", r), NEW v, v.label \in Nat, v.value \in Nat,
           v.selected \in BOOLEAN
    PROVE  Screen!drawPotentiometer(r, v) \in Seq(Mark(r))
<1> DEFINE amount == IF v.selected THEN 1 ELSE 0
           inner == Screen!inset(r, amount)
           diameter == Screen!Greatest(5, Screen!Least(inner.width,
                                            Screen!Greatest(5, inner.height - 9)))
           radius == diameter \div 2
           cx == inner.x + inner.width \div 2
           cy == inner.y + radius + 1
           below == cy + radius + 1
           knob == Screen!Rectangle(cx - radius, cy - radius, 2 * radius + 1, 2 * radius + 1)
           rest == Screen!Rectangle(inner.x, below, inner.width,
                                    Screen!Greatest(0, Screen!bottom(inner) - below))
<1>1. PICK x \in Int, y \in Int, width \in Int, height \in Int :
         /\ r = [x |-> x, y |-> y, width |-> width, height |-> height]
         /\ width >= 7 /\ height >= 8
  BY DEF Screen!HasRoom, Area
<1>2. amount \in {0, 1}
  OBVIOUS
<1> HIDE DEF amount
<1>3. inner = [x |-> x + amount, y |-> y + amount,
               width |-> width - 2 * amount, height |-> height - 2 * amount]
  <2>1. amount \in Nat /\ r.width >= 2 * amount /\ r.height >= 2 * amount
    BY <1>1, <1>2
  <2> QED
    BY <1>1, <2>1, InsetIsInside
<1> HIDE DEF inner
<1>4. PICK w \in Int, h \in Int :
         /\ w = width - 2 * amount /\ h = height - 2 * amount /\ w >= 5 /\ h >= 6
         /\ inner.width = w /\ inner.height = h
  BY <1>1, <1>2, <1>3
<1>5. /\ diameter \in Int /\ diameter >= 5 /\ diameter <= w
      /\ diameter = 5 \/ diameter <= h - 9
  BY <1>4 DEF Screen!Greatest, Screen!Least
<1> HIDE DEF diameter
<1>6. /\ radius \in Int /\ radius >= 2 /\ 2 * radius <= diameter
      /\ radius <= w \div 2 /\ w \div 2 + radius + 1 <= w + 1
      /\ w % 2 = 1 \/ diameter < w => w \div 2 + radius + 1 <= w
      /\ w \div 2 \in Int
  <2>1. PICK half \in Int : half = w \div 2 /\ (w = 2 * half \/ w = 2 * half + 1)
    BY <1>4
  <2>2. PICK k \in Int : k = diameter \div 2 /\ (diameter = 2 * k \/ diameter = 2 * k + 1)
    BY <1>5
  <2>3. w % 2 = 1 => w = 2 * half + 1
    BY <2>1
  <2>4. k = radius
    BY <2>2
  <2> HIDE DEF radius
  <2>5. /\ k >= 2 /\ 2 * k <= diameter /\ k <= half /\ half + k + 1 <= w + 1
        /\ w = 2 * half + 1 \/ diameter < w => half + k + 1 <= w
    BY <1>4, <1>5, <2>1, <2>2
  <2> QED
    BY <2>1, <2>3, <2>4, <2>5
<1> HIDE DEF radius
<1>7. PICK a \in Int, b \in Int, k \in Int :
         /\ a = x + amount + w \div 2 - radius /\ b = y + amount + 1 /\ k = 2 * radius + 1
         /\ a >= x + amount /\ b >= y /\ b + k <= y + height
         /\ a + k <= x + amount + w + 1
         /\ w % 2 = 1 \/ diameter < w => a + k <= x + amount + w
  BY <1>2, <1>4, <1>5, <1>6
<1>8. knob = [x |-> a, y |-> b, width |-> k, height |-> k]
  <2>1. cx - radius = a /\ cy - radius = b
    BY <1>2, <1>3, <1>4, <1>6, <1>7
  <2> HIDE DEF cx, cy
  <2> QED
    BY <1>7, <2>1 DEF Screen!Rectangle
<1>9. Stays(Screen!Reach(r, "knob"), knob)
  <2>1. CASE a + k <= x + width
    <3>1. /\ a >= r.x /\ a + k <= r.x + r.width /\ b >= r.y /\ b + k <= r.y + r.height
      BY <1>1, <1>2, <1>7, <2>1
    <3>2. Screen!Within(r, r)
      BY DEF Screen!Within, Screen!right, Screen!bottom, Area
    <3>3. Stays(r, knob)
      BY <1>8, <3>1, <3>2, PartStays
    <3> QED
      BY <3>3, ReachIsWider DEF Stays
  <2>2. CASE ~(a + k <= x + width)
    <3>1. amount = 0 /\ w = width /\ h = height
      BY <1>2, <1>4, <1>7, <2>2
    <3>2. w % 2 # 1 /\ diameter = w
      BY <1>5, <1>7, <2>2, <3>1
    <3>3. width % 2 = 0 /\ width <= height - 9
      BY <1>1, <1>5, <3>1, <3>2
    <3>4. Screen!Reach(r, "knob") = [x |-> x, y |-> y, width |-> width + 1, height |-> height]
      BY <1>1, <3>3 DEF Screen!Reach, Screen!KnobSticksOut
    <3>5. PICK room \in Area : room = Screen!Reach(r, "knob")
      BY <3>4 DEF Area
    <3>6. /\ a >= room.x /\ a + k <= room.x + room.width
          /\ b >= room.y /\ b + k <= room.y + room.height
      BY <1>1, <1>7, <3>1, <3>4, <3>5
    <3>7. Screen!Within(room, room)
      BY DEF Screen!Within, Screen!right, Screen!bottom, Area
    <3>8. Stays(room, [x |-> a, y |-> b, width |-> k, height |-> k])
      BY <3>6, <3>7, PartStays
    <3> QED
      BY <1>8, <3>5, <3>8
  <2> QED
    BY <2>1, <2>2
<1>10. Stays(r, rest)
  <2>1. PICK u \in Int, t \in Int :
           /\ u = below /\ t = Screen!Greatest(0, Screen!bottom(inner) - below)
           /\ u >= y /\ t >= 0
           /\ t > 0 => u + t <= y + height
    <3>1. PICK u \in Int, e \in Int : u = below /\ e = Screen!bottom(inner) /\ u >= y
                                   /\ e <= y + height
      BY <1>1, <1>2, <1>3, <1>4, <1>6 DEF Screen!bottom
    <3> HIDE DEF below
    <3> QED
      BY <3>1 DEF Screen!Greatest
  <2>2. PICK c \in Int : c = x + amount /\ c >= x /\ c + w <= x + width
    BY <1>2, <1>4
  <2>3. rest = [x |-> c, y |-> u, width |-> w, height |-> t]
    <3> HIDE DEF below
    <3> QED
      BY <1>3, <1>4, <2>1, <2>2 DEF Screen!Rectangle
  <2>4. CASE t > 0
    <3>1. /\ c >= r.x /\ c + w <= r.x + r.width /\ u >= r.y /\ u + t <= r.y + r.height
      BY <1>1, <2>1, <2>2, <2>4
    <3>2. Screen!Within(r, r)
      BY DEF Screen!Within, Screen!right, Screen!bottom, Area
    <3> QED
      BY <2>3, <3>1, <3>2, PartStays
  <2>5. CASE ~(t > 0)
    BY <2>3, <2>5 DEF Stays, Screen!valid, Area
  <2> QED
    BY <2>4, <2>5
<1> HIDE DEF knob, rest, below, cx, cy
<1>11. /\ Screen!Paint("circle", knob, "knob") \in Seq(Mark(r))
       /\ Screen!Text(rest, IF v.value = 0 THEN v.label ELSE v.value,
                      Screen!Style("Center", "Bottom", FALSE), "label") \in Seq(Mark(r))
  <2>1. "circle" \in Kinds /\ "knob" \in Parts /\ "label" \in Parts
    BY DEF Kinds, Parts
  <2>2. (IF v.value = 0 THEN v.label ELSE v.value) \in Nat
    OBVIOUS
  <2> QED
    BY <1>9, <1>10, <2>1, <2>2, TextFits, PaintReaches
<1>12. Screen!drawSelectionFrame(r, v.selected) \in Seq(Mark(r))
  BY FrameFits
<1> QED
  <2>1. Screen!drawPotentiometer(r, v) =
            Screen!drawSelectionFrame(r, v.selected)
            \o Screen!Paint("circle", knob, "knob")
            \o Screen!Text(rest, IF v.value = 0 THEN v.label ELSE v.value,
                           Screen!Style("Center", "Bottom", FALSE), "label")
    BY Zenon DEF Screen!drawPotentiometer, knob, rest, below, cx, cy, radius, diameter, inner, amount
  <2> QED
    BY <1>11, <1>12, <2>1, Joined, Zenon

LEMMA EncoderFits ==
    ASSUME NEW r \in Area, Screen!HasRoom("encoder", r), NEW v \in Screen!View
    PROVE  Screen!drawEncoder(r, v) \in Seq(Mark(r))
<1> DEFINE arrow == Screen!Rectangle(Screen!right(r) - 7, r.y, 7, 7)
           turned == [v EXCEPT !.value = 0]
<1>1. v.label \in Nat /\ v.selected \in BOOLEAN
  BY ProgramsAssumption DEF Screen!WidgetsAssumption, Screen!View
<1>2. turned.label = v.label /\ turned.value = 0 /\ turned.selected = v.selected
  BY DEF Screen!View
<1> HIDE DEF turned
<1>3. Screen!drawPotentiometer(r, turned) \in Seq(Mark(r))
  BY <1>1, <1>2, PotentiometerFits DEF Screen!HasRoom
<1>4. Stays(r, arrow) /\ "glyph" \in Kinds /\ "arrow" \in Parts
  BY DEF Stays, Area, Screen!HasRoom, Screen!Rectangle, Screen!right, Screen!bottom,
      Screen!valid, Screen!Within, Kinds, Parts
<1> HIDE DEF arrow
<1>5. Screen!Paint("glyph", arrow, "arrow") \in Seq(Mark(r))
  BY <1>4, PaintFits
<1> QED
  BY <1>3, <1>5 DEF Screen!drawEncoder, arrow, turned

LEMMA ProgressBarFits ==
    ASSUME NEW r \in Area, Screen!HasRoom("progress", r), NEW v \in Screen!View
    PROVE  Screen!drawProgressBar(r, v) \in Seq(Mark(r))
<1> DEFINE inner == IF v.selected THEN Screen!inset(r, 1) ELSE r
           n == Screen!clampNormalized(v.normalized)
           filled == (2 * n * inner.width + 4) \div 8
           full == Screen!Rectangle(inner.x, inner.y, filled, inner.height)
           rest == Screen!Rectangle(inner.x + filled, inner.y, inner.width - filled, inner.height)
<1>1. v.normalized \in Int /\ v.selected \in BOOLEAN
  BY ProgramsAssumption DEF Screen!WidgetsAssumption, Screen!View
<1>2. inner \in Area /\ inner.width >= 0 /\ Stays(r, inner)
  <2>1. r.width >= 0 /\ r.height >= 0
    BY DEF Screen!HasRoom
  <2>2. /\ Screen!inset(r, 1) \in Area /\ Stays(r, Screen!inset(r, 1))
        /\ Screen!inset(r, 1).width >= 0
    BY <2>1, InnerStays
  <2>3. Stays(r, r)
    BY DEF Stays, Screen!Within, Screen!right, Screen!bottom, Area
  <2> QED
    BY <2>1, <2>2, <2>3
<1> HIDE DEF inner
<1>3. n \in 0 .. 4
  BY <1>1 DEF Screen!clampNormalized, Screen!Greatest, Screen!Least
<1> HIDE DEF n
<1>4. filled \in Int /\ 0 <= filled /\ filled <= inner.width
  <2>1. PICK w \in Nat : w = inner.width
    BY <1>2 DEF Area
  <2>2. n = 0 \/ n = 1 \/ n = 2 \/ n = 3 \/ n = 4
    BY <1>3
  <2>3. \A m \in {0, 1, 2, 3, 4} : LET part == (2 * m * w + 4) \div 8 IN part \in 0 .. w
    OBVIOUS
  <2> QED
    BY <2>1, <2>2, <2>3
<1> HIDE DEF filled
<1>5. Stays(r, full) /\ Stays(r, rest)
  <2>1. PICK x \in Int, y \in Int, w \in Int, h \in Int :
           inner = [x |-> x, y |-> y, width |-> w, height |-> h]
    BY <1>2 DEF Area
  <2>2. PICK a \in Int, d \in Int : a = x + filled /\ d = w - filled
    BY <1>4
  <2>3. /\ x >= inner.x /\ x + filled <= inner.x + inner.width
        /\ a >= inner.x /\ a + d <= inner.x + inner.width
        /\ y >= inner.y /\ y + h <= inner.y + inner.height
    BY <1>4, <2>1, <2>2
  <2>4. /\ Stays(r, [x |-> x, y |-> y, width |-> filled, height |-> h])
        /\ Stays(r, [x |-> a, y |-> y, width |-> d, height |-> h])
    BY <1>2, <1>4, <2>3, PartOfPartStays
  <2> QED
    BY <2>1, <2>2, <2>4 DEF Screen!Rectangle
<1> HIDE DEF full, rest
<1>6. /\ Screen!Paint("fill", inner, "bar") \in Seq(Mark(r))
      /\ Screen!Paint("fill", full, "bar") \in Seq(Mark(r))
      /\ Screen!Paint("fill", rest, "rest") \in Seq(Mark(r))
  <2>1. "fill" \in Kinds /\ "bar" \in Parts /\ "rest" \in Parts
    BY DEF Kinds, Parts
  <2> QED
    BY <1>2, <1>5, <2>1, PaintFits
<1>7. Screen!drawSelectionFrame(r, v.selected) \in Seq(Mark(r))
  BY <1>1, FrameFits
<1>8. (IF v.wrap THEN Screen!Paint("fill", inner, "bar") \o Screen!Paint("fill", rest, "rest")
                 ELSE Screen!Paint("fill", full, "bar")) \in Seq(Mark(r))
  BY <1>6, Joined
<1> QED
  BY <1>7, <1>8, Joined, Zenon DEF Screen!drawProgressBar, rest, full, filled, n, inner

LEMMA BarsFit ==
    ASSUME NEW r \in Area, r.width >= 0, NEW v \in Screen!View
    PROVE  /\ Screen!drawTopBar(r, v) \in Seq(Mark(r))
           /\ Screen!drawFooterBar(r, v) \in Seq(Mark(r))
<1>1. v.label \in Nat /\ v.value \in Nat /\ v.selected \in BOOLEAN
  BY ProgramsAssumption DEF Screen!WidgetsAssumption, Screen!View
<1>2. Stays(r, r)
  BY DEF Stays, Screen!Within, Screen!right, Screen!bottom, Area
<1>3. Screen!drawTopBar(r, v) \in Seq(Mark(r))
  <2> DEFINE half == r.width \div 2
             first == Screen!Rectangle(r.x, r.y, half, r.height)
             second == Screen!Rectangle(r.x + half, r.y, r.width - half, r.height)
  <2>1. half \in Int /\ 0 <= half /\ half <= r.width
    BY DEF Area
  <2> HIDE DEF half
  <2>2. Stays(r, first) /\ Stays(r, second)
    BY <2>1
    DEF Stays, Area, Screen!Rectangle, Screen!right, Screen!bottom, Screen!valid, Screen!Within
  <2> HIDE DEF first, second
  <2>3. "label" \in Parts /\ "value" \in Parts
    BY DEF Parts
  <2>4. /\ Screen!Text(first, v.label, Screen!Style("Left", "Middle", v.selected), "label")
             \in Seq(Mark(r))
        /\ Screen!Text(second, v.value, Screen!Style("Right", "Middle", v.selected), "value")
             \in Seq(Mark(r))
    BY <1>1, <2>2, <2>3, TextFits
  <2> QED
    BY <2>4, Joined, Zenon DEF Screen!drawTopBar, Screen!drawLabelAndValue, first, second, half
<1>4. Screen!drawFooterBar(r, v) \in Seq(Mark(r))
  <2>1. "fill" \in Kinds /\ "bar" \in Parts /\ "left" \in Parts /\ "center" \in Parts
        /\ "right" \in Parts
    BY DEF Kinds, Parts
  <2>2. (IF v.selected THEN Screen!Paint("fill", r, "bar") ELSE <<>>) \in Seq(Mark(r))
    BY <1>1, <1>2, <2>1, PaintFits
  <2>3. /\ Screen!Text(r, v.label, Screen!Style("Left", "Middle", v.selected), "left")
             \in Seq(Mark(r))
        /\ Screen!Text(r, v.value, Screen!Style("Center", "Middle", v.selected), "center")
             \in Seq(Mark(r))
        /\ Screen!Text(r, v.label, Screen!Style("Right", "Middle", v.selected), "right")
             \in Seq(Mark(r))
    BY <1>1, <1>2, <2>1, TextFits
  <2> QED
    BY <2>2, <2>3, Joined, Zenon DEF Screen!drawFooterBar
<1> QED
  BY <1>3, <1>4

LEMMA ButtonFits ==
    ASSUME NEW r \in Area, NEW box, Stays(r, box), NEW length \in Nat, NEW selected \in BOOLEAN,
           NEW what \in Parts
    PROVE  Screen!drawButton(box, length, selected, what) \in Seq(Mark(r))
<1>1. (IF selected THEN <<>> ELSE Screen!Paint("frame", box, what)) \in Seq(Mark(r))
  <2>1. "frame" \in Kinds
    BY DEF Kinds
  <2> QED
    BY <2>1, PaintFits
<1>2. Screen!Text(box, length, Screen!Style("Center", "Middle", selected), what) \in Seq(Mark(r))
  BY TextFits
<1> QED
  BY <1>1, <1>2, Joined, Zenon DEF Screen!drawButton

-----------------------------------------------------------------------------
(***************************************************************************)
(* Wrapped messages.                                                       *)
(***************************************************************************)
LEMMA GreatestElement ==
    ASSUME NEW n \in Int, NEW T, T \subseteq Int, \A m \in T : m <= n, T # {}
    PROVE  \E k \in T : \A m \in T : m <= k
<1> DEFINE Below == {n - m : m \in T}
<1>0. \A m \in T : m \in Int /\ m <= n
  OBVIOUS
<1>1. Below \subseteq Nat /\ Below # {}
  <2>1. \A m \in T : n - m \in Nat
    BY <1>0
  <2>2. PICK m : m \in T
    OBVIOUS
  <2>3. n - m \in Below
    BY <2>2
  <2> QED
    BY <2>1, <2>3
<1>2. PICK l \in Below : \A m \in Below : l <= m
  <2> HIDE DEF Below
  <2> QED
    BY <1>1, LeastElement
<1>3. PICK k \in T : l = n - k
  BY <1>2
<1>4. ASSUME NEW m \in T PROVE m <= k
  <2>1. l <= n - m
    BY <1>2
  <2> QED
    BY <1>0, <1>3, <2>1
<1> QED
  BY <1>4

LEMMA LineIsShort ==
    ASSUME NEW message, Len(message) \in Nat, NEW columns \in Nat \ {0},
           NEW start \in 0 .. Len(message) - 1
    PROVE  /\ Screen!LineLength(message, start, columns) \in 1 .. columns
           /\ start + Screen!LineLength(message, start, columns) <= Len(message)
<1> DEFINE slice == Screen!Least(columns, Len(message) - start)
           spaces == {k \in 1 .. slice - 1 : Screen!SpaceAt(message, start + k)}
<1>1. slice \in 1 .. columns /\ start + slice <= Len(message)
  BY DEF Screen!Least
<1> HIDE DEF slice
<1> DEFINE break == CHOOSE k \in spaces : \A m \in spaces : m <= k
<1>2. ASSUME spaces # {} PROVE break \in 1 .. slice - 1
  <2>1. \E k \in spaces : \A m \in spaces : m <= k
    <3>1. spaces \subseteq Int /\ (\A k \in spaces : k <= slice - 1) /\ slice - 1 \in Int
      BY <1>1
    <3> HIDE DEF spaces
    <3> QED
      BY <1>2, <3>1, GreatestElement
  <2>2. break \in spaces
    BY <2>1
  <2> QED
    BY <2>2
<1>3. \/ Screen!LineLength(message, start, columns) = slice
      \/ spaces # {} /\ Screen!LineLength(message, start, columns) = break
  BY DEF Screen!LineLength, slice
<1> HIDE DEF spaces, break
<1> QED
  BY <1>1, <1>2, <1>3

LEMMA SkippedAreSpaces ==
    ASSUME NEW message, Len(message) \in Nat, NEW from \in 0 .. Len(message)
    PROVE  /\ Screen!Skipped(message, from) \in from .. Len(message)
           /\ \A i \in from .. Screen!Skipped(message, from) - 1 : Screen!SpaceAt(message, i)
<1> DEFINE Ends == {i \in from .. Len(message) : i < Len(message) => ~Screen!SpaceAt(message, i)}
           P(i) == /\ i < Len(message) => ~Screen!SpaceAt(message, i)
                   /\ \A j \in from .. i - 1 : Screen!SpaceAt(message, j)
<1>1. \E i \in from .. Len(message) : P(i)
  <2>1. Ends \subseteq Nat /\ Len(message) \in Ends
    OBVIOUS
  <2>2. PICK i \in Ends : \A j \in Ends : i <= j
    <3> HIDE DEF Ends
    <3> QED
      BY <2>1, LeastElement
  <2>3. \A j \in from .. i - 1 : Screen!SpaceAt(message, j)
    BY <2>2
  <2> QED
    BY <2>2, <2>3
<1>2. Screen!Skipped(message, from) = CHOOSE i \in from .. Len(message) : P(i)
  BY DEF Screen!Skipped
<1> HIDE DEF P
<1>3. /\ Screen!Skipped(message, from) \in from .. Len(message)
      /\ P(Screen!Skipped(message, from))
  BY <1>1, <1>2
<1> QED
  BY <1>3 DEF P

(***************************************************************************)
(* The starts of the lines: each line begins behind the one before it, and *)
(* what lies between them are spaces.                                      *)
(***************************************************************************)
Continues(message, columns, was, upto) ==
    IF was >= Len(message) THEN upto = Len(message)
    ELSE LET end == was + Screen!LineLength(message, was, columns) IN
         /\ end \in was + 1 .. was + columns /\ end <= upto
         /\ \A i \in end .. upto - 1 : Screen!SpaceAt(message, i)

LEMMA LinesContinue ==
    ASSUME NEW message, Len(message) \in Nat, NEW columns \in Nat \ {0}
    PROVE  LET starts == Screen!Starts(message, columns)
               length == Len(message)
           IN  /\ starts \in [0 .. length -> 0 .. length]
               /\ starts[0] = 0
               /\ \A n \in 1 .. length : Continues(message, columns, starts[n - 1], starts[n])
               /\ \A n \in 1 .. length : starts[n - 1] <= starts[n]
<1> DEFINE starts == Screen!Starts(message, columns)
           length == Len(message)
           Next1(s) == IF s >= length THEN length
                       ELSE Screen!Skipped(message, s + Screen!LineLength(message, s, columns))
           step == [n \in 1 .. length |-> [s \in 0 .. length |-> Next1(s)]]
<1>1. ASSUME NEW s \in 0 .. length
      PROVE  /\ Next1(s) \in 0 .. length
             /\ Continues(message, columns, s, Next1(s))
             /\ s <= Next1(s)
  <2>1. CASE s >= length
    BY <2>1 DEF Continues
  <2>2. CASE s < length
    <3> DEFINE end == s + Screen!LineLength(message, s, columns)
    <3>1. end \in s + 1 .. s + columns /\ end <= length
      BY <2>2, LineIsShort
    <3>2. end \in 0 .. length
      BY <3>1
    <3>3. Next1(s) = Screen!Skipped(message, end)
      BY <2>2
    <3> HIDE DEF end
    <3>4. /\ Screen!Skipped(message, end) \in end .. length
          /\ \A i \in end .. Screen!Skipped(message, end) - 1 : Screen!SpaceAt(message, i)
      BY <3>2, SkippedAreSpaces
    <3> HIDE DEF Next1
    <3> QED
      BY <2>2, <3>1, <3>3, <3>4 DEF Continues, end
  <2> QED
    BY <2>1, <2>2
<1>2. \A n \in 1 .. length, s \in 0 .. length : step[n][s] = Next1(s)
  OBVIOUS
<1>3. step \in [1 .. length -> [0 .. length -> 0 .. length]]
  BY <1>1
<1> HIDE DEF step
<1> DEFINE Equation(h) == h = [n \in 0 .. length |-> IF n = 0 THEN 0 ELSE Next1(h[n - 1])]
<1>4. \E f : Equation(f)
  <2>1. Iterates(0 .. length, length, 0, step) # {}
    <3>1. 0 \in 0 .. length
      OBVIOUS
    <3> QED
      BY <1>3, <3>1, RecursionExists
  <2>2. PICK f : f \in Iterates(0 .. length, length, 0, step)
    BY <2>1
  <2>3. /\ f \in [0 .. length -> 0 .. length] /\ f[0] = 0
        /\ \A n \in 1 .. length : f[n] = step[n][f[n - 1]]
    BY <2>2, Zenon DEF Iterates
  <2> HIDE DEF Next1
  <2>4. \A n \in 0 .. length : f[n] = IF n = 0 THEN 0 ELSE Next1(f[n - 1])
    <3>0. \A n \in 0 .. length : n = 0 \/ n \in 1 .. length
      OBVIOUS
    <3> SUFFICES ASSUME NEW n \in 1 .. length PROVE f[n] = Next1(f[n - 1])
      BY <2>3, <3>0
    <3>1. f[n - 1] \in 0 .. length
      BY <2>3
    <3> QED
      BY <1>2, <2>3, <3>1
  <2>5. Equation(f)
    BY <2>3, <2>4
  <2> QED
    BY <2>5, Zenon
<1>5. starts = CHOOSE h : Equation(h)
  BY Zenon DEF Screen!Starts
<1> HIDE DEF Next1, starts
<1>6. Equation(starts)
  BY <1>4, <1>5, Zenon
<1>7. starts[0] = 0 /\ \A n \in 1 .. length : starts[n] = Next1(starts[n - 1])
  BY <1>6
<1> DEFINE T == {n \in Nat : n <= length => starts[n] \in 0 .. length}
<1>8. Nat \subseteq T
  <2>1. 0 \in T
    BY <1>7
  <2>2. ASSUME NEW n \in Nat, n \in T PROVE n + 1 \in T
    <3> SUFFICES ASSUME n + 1 <= length PROVE starts[n + 1] \in 0 .. length
      OBVIOUS
    <3>1. n + 1 \in 1 .. length /\ (n + 1) - 1 = n /\ starts[n] \in 0 .. length
      BY <2>2
    <3>2. starts[n + 1] = Next1(starts[n])
      BY <1>7, <3>1
    <3> QED
      BY <1>1, <3>1, <3>2
  <2> HIDE DEF T
  <2> QED
    BY <2>1, <2>2, SetInduction
<1>9. starts \in [0 .. length -> 0 .. length]
  <2>1. \A n \in 0 .. length : starts[n] \in 0 .. length
    BY <1>8
  <2>2. starts = [n \in 0 .. length |-> starts[n]]
    BY <1>6
  <2> QED
    BY <2>1, <2>2
<1>10. ASSUME NEW n \in 1 .. length
       PROVE  Continues(message, columns, starts[n - 1], starts[n]) /\ starts[n - 1] <= starts[n]
  <2>1. starts[n - 1] \in 0 .. length /\ starts[n] = Next1(starts[n - 1])
    BY <1>7, <1>9
  <2> QED
    BY <1>1, <2>1
<1> QED
  BY <1>7, <1>9, <1>10 DEF starts

(***************************************************************************)
(* The lines that are written: the first ones, as many as there is room    *)
(* for, or all.                                                            *)
(***************************************************************************)
LEMMA ScreenCardinality == ASSUME NEW S PROVE Screen!Cardinality(S) = Cardinality(S)
BY Zenon DEF Screen!Cardinality, Cardinality

LEMMA LinesWritten ==
    ASSUME NEW message, Len(message) \in Nat, NEW r \in Area, r.width >= 6
    PROVE  LET columns == r.width \div 6
               starts == Screen!Starts(message, columns)
           IN  \E c \in 0 .. Len(message) :
                  /\ c <= Screen!Rows(r.height)
                  /\ \A m \in 0 .. c - 1 : starts[m] < Len(message)
                  /\ c < Screen!Rows(r.height) => starts[c] = Len(message)
                  /\ Screen!Lines(r, message) =
                         [n \in 1 .. c |->
                             [from |-> starts[n - 1],
                              length |-> Screen!LineLength(message, starts[n - 1], columns)]]
<1> DEFINE columns == r.width \div 6
           starts == Screen!Starts(message, columns)
           length == Len(message)
           rows == Screen!Rows(r.height)
           most == Screen!Least(rows, length)
           Begun == {m \in 0 .. most - 1 : starts[m] < length}
<1>1. columns \in Nat \ {0}
  BY DEF Area
<1>2. rows \in Nat
  BY DEF Screen!Rows, Area
<1>3. Screen!Lines(r, message) =
          [n \in 1 .. Cardinality(Begun) |->
              [from |-> starts[n - 1],
               length |-> Screen!LineLength(message, starts[n - 1], columns)]]
  <2>1. (r.width <= 0 \/ columns = 0) = FALSE
    BY <1>1 DEF Area
  <2> QED
    BY <2>1, ScreenCardinality, Zenon DEF Screen!Lines
<1> HIDE DEF columns, rows
<1>4. /\ starts \in [0 .. length -> 0 .. length] /\ starts[0] = 0
      /\ \A n \in 1 .. length : Continues(message, columns, starts[n - 1], starts[n])
      /\ \A n \in 1 .. length : starts[n - 1] <= starts[n]
  BY <1>1, LinesContinue
<1> HIDE DEF starts
<1>5. most \in Nat /\ most <= rows /\ most <= length
      /\ (most = rows \/ most = length)
  BY <1>2 DEF Screen!Least
<1> HIDE DEF most
<1>6. starts[length] = length
  <2> DEFINE T == {n \in Nat : n <= length => (starts[n] >= n \/ starts[n] = length)}
  <2>1. 0 \in T
    BY <1>4
  <2>2. ASSUME NEW n \in Nat, n \in T PROVE n + 1 \in T
    <3> SUFFICES ASSUME n + 1 <= length PROVE starts[n + 1] >= n + 1 \/ starts[n + 1] = length
      OBVIOUS
    <3>1. n + 1 \in 1 .. length /\ (n + 1) - 1 = n
      OBVIOUS
    <3>2. starts[n] \in 0 .. length /\ starts[n + 1] \in 0 .. length
          /\ (starts[n] >= n \/ starts[n] = length)
      BY <1>4, <2>2
    <3>3. Continues(message, columns, starts[n], starts[n + 1])
      BY <1>4, <3>1
    <3>4. starts[n] >= length \/ starts[n + 1] >= starts[n] + 1
      BY <1>1, <3>2, <3>3 DEF Continues
    <3>5. starts[n] >= length => starts[n + 1] = length
      BY <3>3 DEF Continues
    <3> QED
      BY <3>2, <3>4, <3>5
  <2>3. length \in T
    <3> HIDE DEF T
    <3> QED
      BY <2>1, <2>2, SetInduction
  <2> QED
    BY <1>4, <2>3
<1>7. PICK c \in 0 .. most : (c = most \/ starts[c] >= length)
                              /\ \A m \in 0 .. c - 1 : starts[m] < length
  <2> DEFINE Stops == {m \in 0 .. most : m = most \/ starts[m] >= length}
  <2>1. Stops \subseteq Nat /\ most \in Stops
    BY <1>5
  <2>2. PICK c \in Stops : \A m \in Stops : c <= m
    <3> HIDE DEF Stops
    <3> QED
      BY <2>1, LeastElement
  <2>3. ASSUME NEW m \in 0 .. c - 1 PROVE starts[m] < length
    <3>1. m \in 0 .. most /\ m # most /\ m \notin Stops
      BY <1>5, <2>2
    <3>2. m \in 0 .. length
      BY <1>5, <3>1
    <3> QED
      BY <1>4, <3>1, <3>2
  <2> QED
    BY <2>2, <2>3
<1>8. starts[c] >= length => \A m \in c .. length : starts[m] = length
  <2> SUFFICES ASSUME starts[c] >= length PROVE \A m \in c .. length : starts[m] = length
    OBVIOUS
  <2> DEFINE T == {k \in Nat : c + k <= length => starts[c + k] = length}
  <2>1. 0 \in T
    BY <1>4, <1>5
  <2>2. ASSUME NEW k \in Nat, k \in T PROVE k + 1 \in T
    <3> SUFFICES ASSUME c + k + 1 <= length PROVE starts[c + (k + 1)] = length
      OBVIOUS
    <3>1. c + k + 1 \in 1 .. length /\ (c + k + 1) - 1 = c + k /\ c + (k + 1) = c + k + 1
      OBVIOUS
    <3>2. starts[c + k] <= starts[c + k + 1] /\ starts[c + k] = length
          /\ starts[c + k + 1] \in 0 .. length
      BY <1>4, <2>2, <3>1
    <3> QED
      BY <3>1, <3>2
  <2>3. Nat \subseteq T
    <3> HIDE DEF T
    <3> QED
      BY <2>1, <2>2, SetInduction
  <2>4. ASSUME NEW m \in c .. length PROVE starts[m] = length
    <3>1. m - c \in Nat /\ c + (m - c) = m /\ m <= length
      BY <1>5
    <3>2. m - c \in T
      BY <2>3, <3>1
    <3> QED
      BY <3>1, <3>2
  <2> QED
    BY <2>4
<1>9. Begun = 0 .. c - 1
  <2>1. ASSUME NEW m \in 0 .. most - 1 PROVE starts[m] < length <=> m <= c - 1
    <3>1. CASE m <= c - 1
      BY <1>7, <3>1
    <3>2. CASE m >= c
      <4>1. starts[c] >= length /\ m \in c .. length
        BY <1>5, <1>7, <3>2
      <4> QED
        BY <1>8, <3>2, <4>1
    <3> QED
      BY <3>1, <3>2
  <2> QED
    BY <1>5, <2>1
<1>10. Cardinality(Begun) = c
  <2>1. Cardinality(0 .. c - 1) = IF 0 > c - 1 THEN 0 ELSE (c - 1) - 0 + 1
    BY FS_Interval
  <2>2. c \in Nat
    BY <1>5
  <2>3. Cardinality(0 .. c - 1) = c
    BY <2>1, <2>2
  <2> HIDE DEF Begun
  <2> QED
    BY <1>9, <2>3
<1>11. c \in 0 .. length /\ c <= rows /\ (c < rows => starts[c] = length)
  <2>1. c \in 0 .. length /\ c <= rows
    BY <1>2, <1>5
  <2>2. c < rows => c = length \/ starts[c] >= length
    BY <1>5, <1>7
  <2>3. starts[c] \in 0 .. length
    BY <1>4, <2>1
  <2> QED
    BY <1>6, <2>1, <2>2, <2>3
<1> HIDE DEF Begun
<1> QED
  BY <1>3, <1>7, <1>10, <1>11 DEF columns, starts, rows

(***************************************************************************)
(* Nothing of a message is lost but spaces, and the end when there is no   *)
(* room for it.                                                            *)
(***************************************************************************)
LEMMA NoLetterIsLost ==
    ASSUME NEW message, Len(message) \in Nat, NEW r \in Area, r.width >= 6
    PROVE  Screen!LosesNoLetter(Screen!Lines(r, message), message, Screen!Rows(r.height))
<1> DEFINE columns == r.width \div 6
           starts == Screen!Starts(message, columns)
           length == Len(message)
           rows == Screen!Rows(r.height)
           pieces == Screen!Lines(r, message)
           Line(n) == [from |-> starts[n - 1],
                       length |-> Screen!LineLength(message, starts[n - 1], columns)]
<1>1. columns \in Nat \ {0}
  BY DEF Area
<1>2. PICK c \in 0 .. length :
         /\ \A m \in 0 .. c - 1 : starts[m] < length
         /\ c < rows => starts[c] = length
         /\ pieces = [n \in 1 .. c |-> Line(n)]
  BY LinesWritten
<1> HIDE DEF columns
<1>3. /\ starts \in [0 .. length -> 0 .. length] /\ starts[0] = 0
      /\ \A n \in 1 .. length : Continues(message, columns, starts[n - 1], starts[n])
      /\ \A n \in 1 .. length : starts[n - 1] <= starts[n]
  BY <1>1, LinesContinue
<1> HIDE DEF starts
<1>4. ASSUME NEW n \in 1 .. c
      PROVE  /\ starts[n - 1] \in 0 .. length - 1 /\ starts[n] \in 0 .. length
             /\ Line(n).from = starts[n - 1]
             /\ Screen!End(Line(n)) \in Int
             /\ starts[n - 1] < Screen!End(Line(n)) /\ Screen!End(Line(n)) <= starts[n]
             /\ \A i \in Screen!End(Line(n)) .. starts[n] - 1 : Screen!SpaceAt(message, i)
  <2>1. n - 1 \in 0 .. c - 1 /\ n - 1 \in 0 .. length /\ n \in 1 .. length
    OBVIOUS
  <2>2. starts[n - 1] \in 0 .. length /\ starts[n - 1] < length /\ starts[n] \in 0 .. length
    BY <1>2, <1>3, <2>1
  <2>3. Screen!End(Line(n)) = starts[n - 1] + Screen!LineLength(message, starts[n - 1], columns)
    BY DEF Screen!End
  <2>4. Continues(message, columns, starts[n - 1], starts[n])
    BY <1>3, <2>1
  <2>5. ~(starts[n - 1] >= length)
    BY <2>2
  <2>6. /\ Screen!End(Line(n)) \in starts[n - 1] + 1 .. starts[n - 1] + columns
        /\ Screen!End(Line(n)) <= starts[n]
        /\ \A i \in Screen!End(Line(n)) .. starts[n] - 1 : Screen!SpaceAt(message, i)
    BY <2>3, <2>4, <2>5 DEF Continues
  <2> QED
    BY <1>1, <2>2, <2>6
<1>5. \A n \in 1 .. c : pieces[n] = Line(n)
  BY <1>2
<1>6. DOMAIN pieces = 1 .. c /\ Len(pieces) = c
  BY <1>2
<1> HIDE DEF Line, pieces
<1>7. \A m, n \in 0 .. length : m <= n => starts[m] <= starts[n]
  <2> SUFFICES ASSUME NEW m \in 0 .. length PROVE \A n \in 0 .. length : m <= n => starts[m] <= starts[n]
    OBVIOUS
  <2> DEFINE T == {k \in Nat : m + k <= length => starts[m] <= starts[m + k]}
  <2>1. 0 \in T
    BY <1>3
  <2>2. ASSUME NEW k \in Nat, k \in T PROVE k + 1 \in T
    <3> SUFFICES ASSUME m + k + 1 <= length PROVE starts[m] <= starts[m + (k + 1)]
      OBVIOUS
    <3>1. m + k + 1 \in 1 .. length /\ (m + k + 1) - 1 = m + k /\ m + (k + 1) = m + k + 1
      OBVIOUS
    <3>2. starts[m + k] <= starts[m + k + 1] /\ starts[m] <= starts[m + k]
      BY <1>3, <2>2, <3>1
    <3>3. starts[m] \in Int /\ starts[m + k] \in Int /\ starts[m + k + 1] \in Int
      <4>1. m + k \in 0 .. length /\ m + k + 1 \in 0 .. length
        OBVIOUS
      <4> QED
        BY <1>3, <4>1
    <3> QED
      BY <3>1, <3>2, <3>3
  <2>3. Nat \subseteq T
    <3> HIDE DEF T
    <3> QED
      BY <2>1, <2>2, SetInduction
  <2>4. ASSUME NEW n \in 0 .. length, m <= n PROVE starts[m] <= starts[n]
    <3>1. n - m \in Nat /\ m + (n - m) = n /\ n <= length
      BY <2>4
    <3>2. n - m \in T
      BY <2>3, <3>1
    <3> QED
      BY <3>1, <3>2
  <2> QED
    BY <2>4
<1>8. \A n \in DOMAIN pieces : Screen!End(pieces[n]) <= length
  <2> SUFFICES ASSUME NEW n \in 1 .. c PROVE Screen!End(Line(n)) <= length
    BY <1>5, <1>6
  <2>1. /\ Screen!End(Line(n)) \in Int /\ Screen!End(Line(n)) <= starts[n]
        /\ starts[n] \in 0 .. length
    BY <1>4
  <2> QED
    BY <2>1
<1>9. \A m, n \in DOMAIN pieces : m < n => Screen!End(pieces[m]) <= pieces[n].from
  <2> SUFFICES ASSUME NEW m \in 1 .. c, NEW n \in 1 .. c, m < n
               PROVE  Screen!End(Line(m)) <= Line(n).from
    BY <1>5, <1>6
  <2>1. m \in 0 .. length /\ n - 1 \in 0 .. length /\ m <= n - 1
    OBVIOUS
  <2>2. starts[m] <= starts[n - 1]
    BY <1>7, <2>1
  <2>3. /\ Screen!End(Line(m)) <= starts[m] /\ Line(n).from = starts[n - 1]
        /\ Screen!End(Line(m)) \in Int /\ starts[m] \in Int /\ starts[n - 1] \in Int
    BY <1>4
  <2> QED
    BY <2>2, <2>3
<1>10. ASSUME NEW i \in 0 .. length - 1, ~Screen!SpaceAt(message, i),
              Len(pieces) < rows \/ \E n \in DOMAIN pieces : i < Screen!End(pieces[n])
       PROVE  \E n \in DOMAIN pieces : i \in pieces[n].from .. Screen!End(pieces[n]) - 1
  <2>1. i < starts[c]
    <3>1. CASE Len(pieces) < rows
      BY <1>2, <1>6, <3>1
    <3>2. ASSUME NEW n \in 1 .. c, i < Screen!End(Line(n)) PROVE i < starts[c]
      <4>1. n \in 0 .. length /\ c \in 0 .. length /\ n <= c
        OBVIOUS
      <4>2. starts[n] <= starts[c] /\ starts[c] \in Int
        <5>1. starts[n] <= starts[c]
          <6> HIDE DEF length
          <6> QED
            BY <1>7, <4>1, Zenon
        <5>2. starts[c] \in 0 .. length
          BY <1>3, <4>1
        <5> QED
          BY <5>1, <5>2
      <4>3. Screen!End(Line(n)) \in Int /\ Screen!End(Line(n)) <= starts[n] /\ starts[n] \in Int
        BY <1>4
      <4> QED
        BY <3>2, <4>2, <4>3
    <3> QED
      BY <1>5, <1>6, <1>10, <3>1, <3>2
  <2> DEFINE Past == {n \in 0 .. c : i < starts[n]}
  <2>2. PICK n \in Past : \A m \in Past : n <= m
    <3>1. Past \subseteq Nat /\ c \in Past
      BY <2>1
    <3> HIDE DEF Past
    <3> QED
      BY <3>1, LeastElement
  <2>3. n \in 1 .. c
    <3>1. n # 0
      BY <1>3, <2>2
    <3> QED
      BY <2>2, <3>1
  <2>4. starts[n - 1] <= i
    <3>1. n - 1 \notin Past /\ n - 1 \in 0 .. c
      BY <2>2, <2>3
    <3>2. starts[n - 1] \in Int
      BY <1>4, <2>3
    <3> QED
      BY <3>1, <3>2
  <2>5. i < starts[n]
    BY <2>2
  <2>6. i < Screen!End(Line(n))
    <3> SUFFICES ASSUME ~(i < Screen!End(Line(n))) PROVE FALSE
      OBVIOUS
    <3>1. i \in Screen!End(Line(n)) .. starts[n] - 1
      BY <1>4, <2>3, <2>5
    <3> QED
      BY <1>4, <1>10, <2>3, <3>1
  <2>7. i \in Line(n).from .. Screen!End(Line(n)) - 1
    BY <1>4, <2>3, <2>4, <2>6
  <2> QED
    BY <1>5, <1>6, <2>3, <2>7
<1> QED
  BY <1>8, <1>9, <1>10 DEF Screen!LosesNoLetter, pieces

LEMMA WrappedFits ==
    ASSUME NEW r \in Area, NEW room \in Area, Stays(r, room), room.width >= 6, room.height >= 0,
           NEW message, Len(message) \in Nat
    PROVE  Screen!drawWrappedMessage(room, message) \in Seq(Mark(r))
<1> DEFINE columns == room.width \div 6
           starts == Screen!Starts(message, columns)
           pieces == Screen!Lines(room, message)
           length == Len(message)
           Box(n) == Screen!Rectangle(room.x, room.y + 8 * (n - 1),
                                      Screen!measureText(pieces[n].length), GlyphHeight)
           texts == [n \in DOMAIN pieces |-> Screen!Paint("text", Box(n), "line")]
<1>1. columns \in Nat \ {0} /\ 6 * columns <= room.width
  BY DEF Area
<1>2. GlyphWidth = 5 /\ GlyphHeight = 7 /\ horizontalSpacing = 1
  BY ProgramsAssumption DEF Screen!WidgetsAssumption
<1>3. PICK c \in 0 .. length :
         /\ c <= Screen!Rows(room.height)
         /\ \A m \in 0 .. c - 1 : starts[m] < length
         /\ pieces = [n \in 1 .. c |->
                        [from |-> starts[n - 1],
                         length |-> Screen!LineLength(message, starts[n - 1], columns)]]
  BY LinesWritten
<1> HIDE DEF columns
<1>4. starts \in [0 .. length -> 0 .. length]
  BY <1>1, LinesContinue
<1> HIDE DEF starts
<1>5. ASSUME NEW n \in 1 .. c PROVE pieces[n].length \in 1 .. columns
  <2>1. n - 1 \in 0 .. c - 1 /\ n - 1 \in 0 .. length
    OBVIOUS
  <2>2. starts[n - 1] \in 0 .. length - 1
    BY <1>3, <1>4, <2>1
  <2>3. pieces[n].length = Screen!LineLength(message, starts[n - 1], columns)
    BY <1>3
  <2> HIDE DEF pieces
  <2> QED
    BY <1>1, <2>2, <2>3, LineIsShort
<1>6. DOMAIN pieces = 1 .. c
  BY <1>3
<1> HIDE DEF pieces
<1>7. ASSUME NEW n \in 1 .. c PROVE Stays(r, Box(n))
  <2>1. PICK l \in 1 .. columns : l = pieces[n].length
    BY <1>5
  <2>2. Screen!measureText(pieces[n].length) = 6 * l - 1
    BY <1>1, <1>2, <2>1 DEF Screen!measureText
  <2>3. 6 * l - 1 \in Int /\ 6 * l - 1 <= room.width
    <3>1. columns \in Int /\ l \in Int /\ l <= columns /\ room.width \in Int
          /\ 6 * columns <= room.width
      BY <1>1, <2>1 DEF Area
    <3> QED
      BY <3>1
  <2>4. 8 * (n - 1) + 7 <= room.height
    <3>1. room.height \in Nat
      BY DEF Area
    <3>2. room.height >= 7 /\ n - 1 <= (room.height - 7) \div 8
      BY <1>3, <3>1 DEF Screen!Rows
    <3> QED
      BY <3>1, <3>2
  <2>5. Screen!Within(r, room) /\ 8 * (n - 1) >= 0
    <3>1. room.height > 0 /\ room.width > 0
      BY <2>4 DEF Area
    <3> QED
      BY <3>1 DEF Stays, Screen!valid
  <2>6. Box(n) = [x |-> room.x, y |-> room.y + 8 * (n - 1), width |-> 6 * l - 1, height |-> 7]
    BY <1>2, <2>2 DEF Screen!Rectangle
  <2>7. PICK x \in Int, y \in Int, width \in Int, height \in Int :
           x = room.x /\ y = room.y /\ width = room.width /\ height = room.height
    BY DEF Area
  <2>8. PICK w \in Int, down \in Int : w = 6 * l - 1 /\ down = 8 * (n - 1)
    BY <2>3, <1>3
  <2>9. w <= width /\ down >= 0 /\ down + 7 <= height
    BY <2>3, <2>4, <2>5, <2>7, <2>8
  <2>10. Stays(r, [x |-> x, y |-> y + down, width |-> w, height |-> 7])
    <3>1. PICK top \in Int : top = y + down
      OBVIOUS
    <3>2. /\ x >= room.x /\ x + w <= room.x + room.width
          /\ top >= room.y /\ top + 7 <= room.y + room.height /\ 7 \in Int
      <4>1. /\ x >= x /\ x + w <= x + width
            /\ top >= y /\ top + 7 <= y + height /\ 7 \in Int
        BY <2>9, <3>1
      <4> QED
        BY <2>7, <4>1, Zenon
    <3>3. Stays(r, [x |-> x, y |-> top, width |-> w, height |-> 7])
      BY <2>5, <3>2, PartStays
    <3> QED
      BY <3>1, <3>3
  <2> QED
    BY <2>6, <2>7, <2>8, <2>10
<1> HIDE DEF Box
<1>8. texts \in Seq(Seq(Mark(r)))
  <2>1. "text" \in Kinds /\ "line" \in Parts
    BY DEF Kinds, Parts
  <2>2. \A n \in 1 .. c : Screen!Paint("text", Box(n), "line") \in Seq(Mark(r))
    BY <1>7, <2>1, PaintFits
  <2> QED
    BY <1>6, <2>2
<1> HIDE DEF texts
<1>9. Screen!FlattenSeq(texts) \in Seq(Mark(r))
  BY <1>8, FlattenType
<1> QED
  BY <1>9, Zenon DEF Screen!drawWrappedMessage, texts, Box, pieces

-----------------------------------------------------------------------------
(***************************************************************************)
(* Menus: rows, track and thumb.                                           *)
(***************************************************************************)
LEMMA ShareIsSmaller ==
    ASSUME NEW a \in Nat, NEW b \in Nat, NEW k \in Nat \ {0}, b <= k
    PROVE  (a * b) \div k \in 0 .. a
<1>1. PICK p \in Nat : p = a * b
  OBVIOUS
<1>2. PICK q \in Int, rest \in Int : q = p \div k /\ rest \in 0 .. k - 1 /\ p = k * q + rest
  BY Division
<1>3. q >= 0
  <2> SUFFICES ASSUME q <= -1 PROVE FALSE
    BY <1>2
  <2>1. k * q <= -k
    OBVIOUS
  <2> QED
    BY <1>1, <1>2, <2>1
<1>4. q <= a
  <2> SUFFICES ASSUME q >= a + 1 PROVE FALSE
    BY <1>2
  <2>1. k * q >= k * (a + 1)
    BY <1>2
  <2>2. k * (a + 1) = k * a + k
    OBVIOUS
  <2>3. a * b <= a * k
    OBVIOUS
  <2>4. a * k = k * a
    OBVIOUS
  <2> QED
    BY <1>1, <1>2, <2>1, <2>2, <2>3, <2>4
<1> QED
  BY <1>1, <1>2, <1>3, <1>4

LEMMA MenuFits ==
    ASSUME NEW r \in Area, Screen!HasRoom("menu", r), NEW m, m.count \in Nat,
           m.selected \in Nat, m.first \in Nat, m.label \in Nat, m.value \in Nat
    PROVE  Screen!drawMenuList(r, m) \in Seq(Mark(r))
<1> DEFINE bar == IF m.count > 1 THEN 3 ELSE 0
           rows == Screen!visibleMenuRowCount(r)
           first == Screen!ensureMenuSelectionVisible(m.selected, m.first, m.count, rows)
           last == Screen!Least(m.count, first + rows) - 1
           RowBox(i) == Screen!Rectangle(r.x, r.y + (i - first) * rowHeight, r.width - bar, rowHeight)
           Row(i) ==
               (IF i = m.selected THEN Screen!Paint("fill", RowBox(i), "row") ELSE <<>>)
               \o Screen!Text(Screen!inset(RowBox(i), 1), m.label,
                              Screen!Style("Left", "Middle", i = m.selected), "label")
               \o Screen!Text(Screen!inset(RowBox(i), 1), m.value,
                              Screen!Style("Right", "Middle", i = m.selected), "value")
           thumb == Screen!Greatest(2, (r.height * rows) \div m.count)
           lowered == (Screen!Greatest(0, r.height - thumb) * first) \div (m.count - rows)
           track == Screen!Rectangle(Screen!right(r) - 2, r.y, 2, r.height)
           handle == Screen!Rectangle(Screen!right(r) - 2, r.y + lowered, 2, thumb)
           list == [n \in 1 .. last - first + 1 |-> Row(first + n - 1)]
<1>1. CASE m.count = 0 \/ rows = 0
  BY <1>1 DEF Screen!drawMenuList
<1>2. CASE ~(m.count = 0 \/ rows = 0)
  <2>1. rowHeight \in Nat \ {0}
    BY ProgramsAssumption DEF Screen!WidgetsAssumption
  <2>2. PICK x \in Int, y \in Int, width \in Int, height \in Int :
           r = [x |-> x, y |-> y, width |-> width, height |-> height]
    BY DEF Area
  <2>3. width >= 2 /\ height >= 2
    BY <2>2 DEF Screen!HasRoom
  <2>4. rows \in Nat \ {0} /\ rowHeight * rows <= height
    <3>1. rows = height \div rowHeight
      BY <2>2, <2>3 DEF Screen!visibleMenuRowCount
    <3>2. /\ height \div rowHeight \in Int /\ height % rowHeight \in 0 .. rowHeight - 1
          /\ height = rowHeight * (height \div rowHeight) + (height % rowHeight)
      BY <2>1, Division
    <3>3. rows \in Nat
      <4>1. height \in Nat
        BY <2>3
      <4> QED
        BY <2>1, <3>1, <4>1
    <3>4. rowHeight * (height \div rowHeight) \in Int
      BY <2>1, <3>2
    <3>5. rowHeight * (height \div rowHeight) <= height
      BY <2>1, <3>2, <3>4
    <3> HIDE DEF rows
    <3> QED
      BY <1>2, <3>1, <3>3, <3>5
  <2>5. first \in Nat /\ first <= Screen!maximumFirst(m.count, rows)
    <3>1. m.count \in Nat \ {0}
      BY <1>2
    <3> HIDE DEF rows
    <3> QED
      BY <2>4, <3>1, ScrollShowsSelection
  <2> HIDE DEF rows, first
  <2>6. last - first + 1 \in Int /\ last - first + 1 <= rows
    BY <2>4, <2>5 DEF Screen!Least
  <2> HIDE DEF last
  <2>7. ASSUME NEW n \in 1 .. last - first + 1
        PROVE  Row(first + n - 1) \in Seq(Mark(r))
    <3> DEFINE i == first + n - 1
               top == y + (n - 1) * rowHeight
    <3>1. bar \in 0 .. 3
      OBVIOUS
    <3>2. PICK down \in Nat : down = (n - 1) * rowHeight
      BY <2>1
    <3>3. down + rowHeight <= height
      <4>1. n <= rows /\ n \in Nat
        BY <2>4, <2>6
      <4>2. rowHeight * n <= rowHeight * rows
        BY <2>1, <2>4, <4>1
      <4>3. (n - 1) * rowHeight + rowHeight = rowHeight * n
        BY <2>1, <4>1
      <4>4. rowHeight * n \in Int /\ rowHeight * rows \in Int
        BY <2>1, <2>4, <4>1
      <4> QED
        BY <2>4, <3>2, <4>2, <4>3, <4>4
    <3>4. (i - first) * rowHeight = down
      <4>1. i - first = n - 1
        BY <2>5
      <4> HIDE DEF i
      <4> QED
        BY <3>2, <4>1
    <3>5. PICK w \in Int : w = width - bar /\ w <= width
      BY <3>1
    <3>6. PICK a \in Int : a = y + down
      OBVIOUS
    <3>7. RowBox(i) = [x |-> x, y |-> a, width |-> w, height |-> rowHeight]
      <4> HIDE DEF i, bar
      <4> QED
        BY <2>2, <3>4, <3>5, <3>6, Zenon DEF Screen!Rectangle
    <3>8. RowBox(i) \in Area /\ Stays(r, RowBox(i))
      <4>1. /\ x >= r.x /\ x + w <= r.x + r.width
            /\ a >= r.y /\ a + rowHeight <= r.y + r.height
        BY <2>1, <2>2, <3>3, <3>5, <3>6
      <4>2. Screen!Within(r, r)
        BY DEF Screen!Within, Screen!right, Screen!bottom, Area
      <4>3. rowHeight \in Int
        BY <2>1
      <4>4. Stays(r, [x |-> x, y |-> a, width |-> w, height |-> rowHeight])
        BY <4>1, <4>2, <4>3, PartStays
      <4> HIDE DEF RowBox
      <4> QED
        BY <3>7, <4>4 DEF Stays
    <3> HIDE DEF RowBox, i
    <3>9. Screen!inset(RowBox(i), 1) \in Area /\ Stays(r, Screen!inset(RowBox(i), 1))
      BY <3>8, InsetStays
    <3>10. "fill" \in Kinds /\ "row" \in Parts /\ "label" \in Parts /\ "value" \in Parts
      BY DEF Kinds, Parts
    <3>11. (IF i = m.selected THEN Screen!Paint("fill", RowBox(i), "row") ELSE <<>>)
              \in Seq(Mark(r))
      BY <3>8, <3>10, PaintFits
    <3>12. ASSUME NEW chosen \in BOOLEAN
           PROVE  /\ Screen!Text(Screen!inset(RowBox(i), 1), m.label,
                                 Screen!Style("Left", "Middle", chosen), "label") \in Seq(Mark(r))
                  /\ Screen!Text(Screen!inset(RowBox(i), 1), m.value,
                                 Screen!Style("Right", "Middle", chosen), "value") \in Seq(Mark(r))
      BY <3>9, <3>10, TextFits
    <3>13. (i = m.selected) \in BOOLEAN
      OBVIOUS
    <3>14. /\ Screen!Text(Screen!inset(RowBox(i), 1), m.label,
                          Screen!Style("Left", "Middle", i = m.selected), "label") \in Seq(Mark(r))
           /\ Screen!Text(Screen!inset(RowBox(i), 1), m.value,
                          Screen!Style("Right", "Middle", i = m.selected), "value") \in Seq(Mark(r))
      BY <3>12, <3>13, Zenon
    <3>15. Row(i) \in Seq(Mark(r))
      BY <3>11, <3>14, Joined, Zenon
    <3> HIDE DEF Row
    <3> QED
      BY <3>15 DEF i
  <2>8. list \in Seq(Seq(Mark(r)))
    <3> HIDE DEF Row
    <3>1. CASE last - first + 1 \in Nat
      BY <2>7, <3>1
    <3>2. CASE last - first + 1 < 0
      <4>1. 1 .. last - first + 1 = 1 .. 0
        BY <2>6, <3>2
      <4>2. list = [n \in 1 .. 0 |-> Row(first + n - 1)]
        BY <4>1, Zenon
      <4> HIDE DEF list
      <4> QED
        BY <4>2
    <3> QED
      BY <2>6, <3>1, <3>2
  <2> HIDE DEF list, Row
  <2>9. Screen!FlattenSeq(list) \in Seq(Mark(r))
    BY <2>8, FlattenType
  <2>10. ASSUME ~(m.count <= rows)
         PROVE  /\ Screen!Paint("frame", track, "track") \in Seq(Mark(r))
                /\ Screen!Paint("fill", handle, "thumb") \in Seq(Mark(r))
    <3>1. PICK k \in Nat \ {0} : k = m.count - rows /\ first <= k
      BY <2>4, <2>5, <2>10 DEF Screen!maximumFirst
    <3>2. thumb \in Nat /\ 2 <= thumb /\ thumb <= height
      <4>1. (height * rows) \div m.count \in 0 .. height
        <5>1. height \in Nat /\ rows \in Nat /\ m.count \in Nat \ {0} /\ rows <= m.count
          BY <1>2, <2>3, <2>4, <2>10
        <5> QED
          BY <5>1, ShareIsSmaller
      <4>2. r.height = height
        BY <2>2
      <4>3. (r.height * rows) \div m.count \in 0 .. height
        BY <4>1, <4>2, Zenon
      <4> QED
        BY <2>3, <4>3 DEF Screen!Greatest
    <3> HIDE DEF thumb
    <3>3. lowered \in Nat /\ lowered + thumb <= height
      <4>1. r.height = height
        BY <2>2
      <4>2. Screen!Greatest(0, r.height - thumb) = height - thumb /\ height - thumb \in Nat
        BY <3>2, <4>1 DEF Screen!Greatest
      <4>3. ((height - thumb) * first) \div k \in 0 .. height - thumb
        BY <2>5, <3>1, <4>2, ShareIsSmaller
      <4>4. lowered \in 0 .. height - thumb
        BY <3>1, <4>2, <4>3, Zenon
      <4> HIDE DEF lowered
      <4> QED
        BY <3>2, <4>4
    <3> HIDE DEF lowered
    <3>4. Stays(r, track) /\ Stays(r, handle)
      <4>1. Screen!Within(r, r)
        BY DEF Screen!Within, Screen!right, Screen!bottom, Area
      <4>2. PICK a \in Int, b \in Int : a = x + width - 2 /\ b = y + lowered
        BY <3>3
      <4>3. /\ track = [x |-> a, y |-> y, width |-> 2, height |-> height]
            /\ handle = [x |-> a, y |-> b, width |-> 2, height |-> thumb]
        BY <2>2, <4>2 DEF Screen!Rectangle, Screen!right
      <4>4. /\ a >= r.x /\ a + 2 <= r.x + r.width
            /\ y >= r.y /\ y + height <= r.y + r.height
            /\ b >= r.y /\ b + thumb <= r.y + r.height
        BY <2>2, <2>3, <3>2, <3>3, <4>2
      <4>5. /\ Stays(r, [x |-> a, y |-> y, width |-> 2, height |-> height])
            /\ Stays(r, [x |-> a, y |-> b, width |-> 2, height |-> thumb])
        BY <3>2, <4>1, <4>4, PartStays
      <4> QED
        BY <4>3, <4>5
    <3>5. "frame" \in Kinds /\ "fill" \in Kinds /\ "track" \in Parts /\ "thumb" \in Parts
      BY DEF Kinds, Parts
    <3> QED
      BY <3>4, <3>5, PaintFits
  <2>11. Screen!drawMenuList(r, m) =
             Screen!FlattenSeq(list)
             \o IF m.count <= rows THEN <<>>
                ELSE Screen!Paint("frame", track, "track") \o Screen!Paint("fill", handle, "thumb")
    BY <1>2, Zenon
    DEF Screen!drawMenuList, list, Row, RowBox, last, first, rows, bar, thumb, lowered, track, handle
  <2> HIDE DEF track, handle
  <2>12. (IF m.count <= rows THEN <<>>
          ELSE Screen!Paint("frame", track, "track") \o Screen!Paint("fill", handle, "thumb"))
             \in Seq(Mark(r))
    BY <2>10, Joined
  <2> QED
    BY <2>9, <2>11, <2>12, Joined, Zenon
<1> QED
  BY <1>1, <1>2

-----------------------------------------------------------------------------
(***************************************************************************)
(* Overlays, and what the widgets of an application have painted.          *)
(***************************************************************************)
LEMMA OverlaysFit ==
    ASSUME NEW r \in Area, Screen!HasRoom("confirmation", r), NEW v \in Screen!View,
           NEW message, Len(message) \in Nat
    PROVE  /\ Screen!drawConfirmationOverlay(r, v, message) \in Seq(Mark(r))
           /\ Screen!drawErrorOverlay(r, v, message) \in Seq(Mark(r))
           /\ \A title \in {10, 11} :
                 LET inner == Screen!inset(r, 2)
                     room == Screen!Rectangle(inner.x, inner.y + title, inner.width,
                                              Screen!Greatest(0, inner.height - 10 - title))
                 IN  Screen!LosesNoLetter(Screen!Lines(room, message), message,
                                          Screen!Rows(room.height))
<1> DEFINE inner == Screen!inset(r, 2)
           half == (inner.width - 2) \div 2
           low == Screen!bottom(inner) - 10
           head == Screen!Rectangle(inner.x, inner.y, inner.width, 9)
           roomC == Screen!Rectangle(inner.x, inner.y + 10, inner.width,
                                     Screen!Greatest(0, inner.height - 20))
           roomE == Screen!Rectangle(inner.x, inner.y + 11, inner.width,
                                     Screen!Greatest(0, inner.height - 21))
           yes == Screen!Rectangle(inner.x, low, half, 10)
           no == Screen!Rectangle(inner.x + half + 2, low, half, 10)
           cross == Screen!Rectangle(inner.x, inner.y, 9, 9)
           name == Screen!Rectangle(inner.x + 11, inner.y, inner.width - 11, 9)
           action == Screen!Rectangle(inner.x, low, inner.width, 10)
<1>1. PICK x \in Int, y \in Int, width \in Int, height \in Int :
         /\ inner = [x |-> x, y |-> y, width |-> width, height |-> height]
         /\ width >= 9 /\ height >= 10 /\ Screen!Within(r, inner)
  <2>1. PICK a \in Int, b \in Int, c \in Int, d \in Int :
           r = [x |-> a, y |-> b, width |-> c, height |-> d]
    BY DEF Area
  <2>2. c >= 13 /\ d >= 14
    BY <2>1 DEF Screen!HasRoom
  <2>3. inner = [x |-> a + 2, y |-> b + 2, width |-> c - 4, height |-> d - 4]
    BY <2>1, <2>2 DEF Screen!inset, Screen!Rectangle, Screen!Greatest
  <2> HIDE DEF inner
  <2>4. Screen!Within(r, inner)
    BY <2>1, <2>3 DEF Screen!Within, Screen!right, Screen!bottom
  <2>5. /\ a + 2 \in Int /\ b + 2 \in Int /\ c - 4 \in Int /\ d - 4 \in Int
        /\ c - 4 >= 9 /\ d - 4 >= 10
    BY <2>2
  <2> QED
    BY <2>3, <2>4, <2>5, Zenon
<1> HIDE DEF inner
<1>2. half \in Int /\ 0 <= half /\ 2 * half + 2 <= width
  BY <1>1
<1> HIDE DEF half
<1>3. ASSUME NEW a \in Int, NEW b \in Int, NEW w \in Int, NEW h \in Int,
             a >= x, a + w <= x + width, b >= y, b + h <= y + height
      PROVE  Stays(r, Screen!Rectangle(a, b, w, h))
  <2>1. /\ a >= inner.x /\ a + w <= inner.x + inner.width
        /\ b >= inner.y /\ b + h <= inner.y + inner.height /\ inner \in Area
    BY <1>1, <1>3 DEF Area
  <2> QED
    BY <1>1, <2>1, PartStays DEF Screen!Rectangle
<1>4. low = y + height - 10 /\ low \in Int /\ low >= y
  BY <1>1 DEF Screen!bottom
<1> HIDE DEF low
<1>5. /\ Stays(r, head) /\ Stays(r, yes) /\ Stays(r, no) /\ Stays(r, cross) /\ Stays(r, action)
  <2>1. head = Screen!Rectangle(x, y, width, 9) /\ yes = Screen!Rectangle(x, low, half, 10)
        /\ no = Screen!Rectangle(x + half + 2, low, half, 10)
        /\ cross = Screen!Rectangle(x, y, 9, 9) /\ action = Screen!Rectangle(x, low, width, 10)
    BY <1>1
  <2>2. Stays(r, Screen!Rectangle(x, y, width, 9))
    BY <1>1, <1>3
  <2>3. Stays(r, Screen!Rectangle(x, low, half, 10))
    BY <1>1, <1>2, <1>3, <1>4
  <2>4. Stays(r, Screen!Rectangle(x + half + 2, low, half, 10))
    <3>1. PICK a \in Int : a = x + half + 2
      BY <1>2
    <3>2. a >= x /\ a + half <= x + width /\ low + 10 <= y + height
      BY <1>2, <1>4, <3>1
    <3>3. Stays(r, Screen!Rectangle(a, low, half, 10))
      BY <1>2, <1>3, <1>4, <3>2
    <3> QED
      BY <3>1, <3>3
  <2>5. Stays(r, Screen!Rectangle(x, y, 9, 9))
    BY <1>1, <1>3
  <2>6. Stays(r, Screen!Rectangle(x, low, width, 10))
    BY <1>3, <1>4
  <2> QED
    BY <2>1, <2>2, <2>3, <2>4, <2>5, <2>6
<1>6. Stays(r, name)
  <2>1. PICK a \in Int, w \in Int : a = x + 11 /\ w = width - 11
    OBVIOUS
  <2>2. name = Screen!Rectangle(a, y, w, 9)
    BY <1>1, <2>1
  <2>3. Stays(r, Screen!Rectangle(a, y, w, 9))
    BY <1>1, <1>3, <2>1
  <2> QED
    BY <2>2, <2>3
<1>7. ASSUME NEW title \in {10, 11}
      PROVE  LET room == Screen!Rectangle(x, y + title, width,
                                          Screen!Greatest(0, height - 10 - title))
             IN  /\ room \in Area /\ Stays(r, room) /\ room.width >= 6 /\ room.height >= 0
  <2>1. PICK b \in Int, h \in Nat :
           /\ b = y + title /\ h = Screen!Greatest(0, height - 10 - title)
           /\ h = 0 \/ h = height - 10 - title
    <3>1. PICK b \in Int, d \in Int : b = y + title /\ d = height - 10 - title
      OBVIOUS
    <3>2. PICK h \in Nat : h = Screen!Greatest(0, d) /\ (h = 0 \/ h = d)
      BY DEF Screen!Greatest
    <3> QED
      BY <3>1, <3>2, Zenon
  <2>2. h # 0 => b >= y /\ b + h <= y + height
    BY <2>1
  <2>3. Screen!Rectangle(x, b, width, h) \in Area
    BY DEF Screen!Rectangle, Area
  <2>4. h # 0 => Stays(r, Screen!Rectangle(x, b, width, h))
    BY <1>3, <2>2
  <2>5. h = 0 => ~Screen!valid(Screen!Rectangle(x, b, width, h))
    BY DEF Screen!valid, Screen!Rectangle
  <2>6. Stays(r, Screen!Rectangle(x, b, width, h))
    BY <2>3, <2>4, <2>5 DEF Stays
  <2>7. Screen!Rectangle(x, b, width, h).width >= 6 /\ Screen!Rectangle(x, b, width, h).height >= 0
    BY <1>1 DEF Screen!Rectangle
  <2> QED
    BY <2>1, <2>3, <2>6, <2>7, Zenon
<1>8. /\ roomC \in Area /\ Stays(r, roomC) /\ roomC.width >= 6 /\ roomC.height >= 0
      /\ roomE \in Area /\ Stays(r, roomE) /\ roomE.width >= 6 /\ roomE.height >= 0
  <2>1. height - 10 - 10 = height - 20 /\ height - 10 - 11 = height - 21
    OBVIOUS
  <2>2. inner.x = x /\ inner.y = y /\ inner.width = width /\ inner.height = height
    BY <1>1
  <2> QED
    BY <1>7, <2>1, <2>2, Zenon
<1> HIDE DEF head, roomC, roomE, yes, no, cross, name, action
<1>9. /\ Screen!drawWrappedMessage(roomC, message) \in Seq(Mark(r))
      /\ Screen!drawWrappedMessage(roomE, message) \in Seq(Mark(r))
  BY <1>8, WrappedFits
<1>10. /\ "fill" \in Kinds /\ "frame" \in Kinds /\ "glyph" \in Kinds
       /\ "background" \in Parts /\ "frame" \in Parts /\ "title" \in Parts /\ "cross" \in Parts
       /\ "Yes" \in Parts /\ "Cancel" \in Parts /\ "action" \in Parts
  BY DEF Kinds, Parts
<1>11. /\ v.label \in Nat /\ v.value \in Nat /\ v.selected \in BOOLEAN
       /\ (~v.selected) \in BOOLEAN
  BY ProgramsAssumption DEF Screen!WidgetsAssumption, Screen!View
<1>12. Stays(r, r)
  BY DEF Stays, Screen!Within, Screen!right, Screen!bottom, Area
<1>13. /\ Screen!Paint("fill", r, "background") \in Seq(Mark(r))
       /\ Screen!Paint("frame", r, "frame") \in Seq(Mark(r))
       /\ Screen!Paint("glyph", cross, "cross") \in Seq(Mark(r))
  BY <1>5, <1>10, <1>12, PaintFits
<1>14. /\ Screen!Text(head, v.label, Screen!Style("Center", "Top", TRUE), "title") \in Seq(Mark(r))
       /\ Screen!Text(name, v.label, Screen!Style("Left", "Middle", TRUE), "title") \in Seq(Mark(r))
  BY <1>5, <1>6, <1>10, <1>11, TextFits
<1>15. /\ Screen!drawButton(yes, 3, v.selected, "Yes") \in Seq(Mark(r))
       /\ Screen!drawButton(no, 6, ~v.selected, "Cancel") \in Seq(Mark(r))
       /\ Screen!drawButton(action, v.value, TRUE, "action") \in Seq(Mark(r))
  <2>1. 3 \in Nat /\ 6 \in Nat /\ TRUE \in BOOLEAN
    OBVIOUS
  <2>2. \A length \in Nat, selected \in BOOLEAN :
           /\ Screen!drawButton(yes, length, selected, "Yes") \in Seq(Mark(r))
           /\ Screen!drawButton(no, length, selected, "Cancel") \in Seq(Mark(r))
           /\ Screen!drawButton(action, length, selected, "action") \in Seq(Mark(r))
    BY <1>5, <1>10, ButtonFits
  <2> QED
    BY <1>11, <2>1, <2>2, Zenon
<1>16. Screen!drawConfirmationOverlay(r, v, message) \in Seq(Mark(r))
  <2>1. Screen!drawConfirmationOverlay(r, v, message) =
            Screen!Paint("fill", r, "background") \o Screen!Paint("frame", r, "frame")
            \o Screen!Text(head, v.label, Screen!Style("Center", "Top", TRUE), "title")
            \o Screen!drawWrappedMessage(roomC, message)
            \o Screen!drawButton(yes, 3, v.selected, "Yes")
            \o Screen!drawButton(no, 6, ~v.selected, "Cancel")
    BY Zenon DEF Screen!drawConfirmationOverlay, head, roomC, yes, no, inner, half, low
  <2>2. Screen!Paint("fill", r, "background") \o Screen!Paint("frame", r, "frame")
        \o Screen!Text(head, v.label, Screen!Style("Center", "Top", TRUE), "title")
        \o Screen!drawWrappedMessage(roomC, message)
        \o Screen!drawButton(yes, 3, v.selected, "Yes")
        \o Screen!drawButton(no, 6, ~v.selected, "Cancel")
            \in Seq(Mark(r))
    BY <1>9, <1>13, <1>14, <1>15, SixJoined
  <2> QED
    BY <2>1, <2>2, Zenon
<1>17. Screen!drawErrorOverlay(r, v, message) \in Seq(Mark(r))
  <2>1. Screen!drawErrorOverlay(r, v, message) =
            Screen!Paint("fill", r, "background") \o Screen!Paint("frame", r, "frame")
            \o Screen!Paint("glyph", cross, "cross")
            \o Screen!Text(name, v.label, Screen!Style("Left", "Middle", TRUE), "title")
            \o Screen!drawWrappedMessage(roomE, message)
            \o Screen!drawButton(action, v.value, TRUE, "action")
    BY Zenon DEF Screen!drawErrorOverlay, name, roomE, cross, action, inner, low
  <2>2. Screen!Paint("fill", r, "background") \o Screen!Paint("frame", r, "frame")
        \o Screen!Paint("glyph", cross, "cross")
        \o Screen!Text(name, v.label, Screen!Style("Left", "Middle", TRUE), "title")
        \o Screen!drawWrappedMessage(roomE, message)
        \o Screen!drawButton(action, v.value, TRUE, "action")
            \in Seq(Mark(r))
    BY <1>9, <1>13, <1>14, <1>15, SixJoined
  <2> QED
    BY <2>1, <2>2, Zenon
<1>18. \A title \in {10, 11} :
          LET room == Screen!Rectangle(x, y + title, width,
                                       Screen!Greatest(0, height - 10 - title))
          IN  Screen!LosesNoLetter(Screen!Lines(room, message), message, Screen!Rows(room.height))
  BY <1>7, NoLetterIsLost
<1> QED
  <2>1. inner.x = x /\ inner.y = y /\ inner.width = width /\ inner.height = height
    BY <1>1
  <2> QED
    BY <1>16, <1>17, <1>18, <2>1, Zenon DEF inner

FitsAndIsWhole(p) ==
    /\ p.marks \in Seq(Mark(p.box))
    /\ p.widget \in {"confirmation", "error"} =>
           LET inner == Screen!inset(p.box, 2)
               title == IF p.widget = "confirmation" THEN 10 ELSE 11
               room == Screen!Rectangle(inner.x, inner.y + title, inner.width,
                                        Screen!Greatest(0, inner.height - 10 - title))
           IN  Screen!LosesNoLetter(Screen!Lines(room, p.message), p.message,
                                    Screen!Rows(room.height))

PaintInv ==
    app = "widgets" =>
        /\ menu.label \in Nat /\ menu.value \in Nat
        /\ Screen!HasRoom(painted.widget, painted.box) => FitsAndIsWhole(painted)

LEMMA NothingIsPainted ==
    ASSUME painted = Screen!Nothing
    PROVE  FitsAndIsWhole(painted)
<1>1. painted.marks = <<>> /\ painted.widget = "none"
  BY DEF Screen!Nothing
<1> QED
  BY <1>1 DEF FitsAndIsWhole

LEMMA PaintInvInit == RigInit => PaintInv
<1> SUFFICES ASSUME RigInit, app = "widgets" PROVE PaintInv
  BY DEF PaintInv
<1>1. Screen!WidgetsInit
  BY DEF RigInit
<1>2. menu.label \in Nat /\ menu.value \in Nat
  BY <1>1, ProgramsAssumption DEF Screen!WidgetsInit, Screen!WidgetsAssumption
<1>3. painted = Screen!Nothing
  BY <1>1 DEF Screen!WidgetsInit
<1> QED
  BY <1>2, <1>3, NothingIsPainted DEF PaintInv

LEMMA WidgetsFit ==
    ASSUME NEW r \in Area, NEW v \in Screen!View
    PROVE  /\ Screen!HasRoom("parameter", r) => Screen!drawParameter(r, v) \in Seq(Mark(r))
           /\ Screen!HasRoom("potentiometer", r) => Screen!drawPotentiometer(r, v) \in Seq(Mark(r))
           /\ Screen!HasRoom("encoder", r) => Screen!drawEncoder(r, v) \in Seq(Mark(r))
           /\ Screen!HasRoom("progress", r) => Screen!drawProgressBar(r, v) \in Seq(Mark(r))
           /\ Screen!HasRoom("top bar", r) => Screen!drawTopBar(r, v) \in Seq(Mark(r))
           /\ Screen!HasRoom("footer", r) => Screen!drawFooterBar(r, v) \in Seq(Mark(r))
<1>1. v.label \in Nat /\ v.value \in Nat /\ v.selected \in BOOLEAN
  BY ProgramsAssumption DEF Screen!WidgetsAssumption, Screen!View
<1>2. \A widget : Screen!HasRoom(widget, r) => r.width >= 0
  BY DEF Screen!HasRoom
<1>3. r.width >= 0 =>
          Screen!drawTopBar(r, v) \in Seq(Mark(r)) /\ Screen!drawFooterBar(r, v) \in Seq(Mark(r))
  BY BarsFit
<1>4. /\ Screen!HasRoom("parameter", r) => Screen!drawParameter(r, v) \in Seq(Mark(r))
      /\ Screen!HasRoom("potentiometer", r) => Screen!drawPotentiometer(r, v) \in Seq(Mark(r))
      /\ Screen!HasRoom("encoder", r) => Screen!drawEncoder(r, v) \in Seq(Mark(r))
      /\ Screen!HasRoom("progress", r) => Screen!drawProgressBar(r, v) \in Seq(Mark(r))
  BY <1>1, ParameterFits, PotentiometerFits, EncoderFits, ProgressBarFits
<1> QED
  BY <1>2, <1>3, <1>4, Zenon

LEMMA PaintInvNext ==
    ASSUME MenuInv, PaintInv, [RigNext]_vars
    PROVE  PaintInv'
<1> SUFFICES ASSUME app' = "widgets" PROVE PaintInv'
  BY DEF PaintInv
<1>1. app = "widgets"
  BY ChipStays DEF vars, programs
<1>2. CASE UNCHANGED <<menu, painted>>
  BY <1>1, <1>2 DEF PaintInv
<1>3. CASE Screen!WidgetsNext
  <2>1. ASSUME UNCHANGED menu, NEW r, NEW widget, NEW marks,
               Screen!HasRoom(widget, r) => marks \in Seq(Mark(r)),
               Screen!Painting(widget, r, marks, <<>>), widget \notin {"confirmation", "error"}
        PROVE  PaintInv'
    BY <1>1, <2>1 DEF PaintInv, FitsAndIsWhole, Screen!Painting
  <2>2. ASSUME NEW r \in Boxes PROVE r \in Area
    BY ProgramsAssumption DEF Screen!WidgetsAssumption, Area
  <2>3. CASE Screen!moveSelection \/ Screen!changeItems
    <3>1. UNCHANGED painted /\ menu'.label = menu.label /\ menu'.value = menu.value
      BY <2>3 DEF Screen!moveSelection, Screen!changeItems, MenuInv
    <3> QED
      BY <1>1, <3>1 DEF PaintInv
  <2>4. CASE Screen!closeWidget
    <3>1. (painted = Screen!Nothing)' /\ UNCHANGED menu
      BY <2>4 DEF Screen!closeWidget, Screen!Nothing, Screen!bounds, Screen!Rectangle
    <3>2. painted'.marks = <<>> /\ painted'.widget = "none"
      BY <3>1 DEF Screen!Nothing
    <3> QED
      BY <1>1, <3>1, <3>2 DEF PaintInv, FitsAndIsWhole
  <2>5. ASSUME NEW r \in Boxes, Screen!showMenu(r) PROVE PaintInv'
    <3>1. Screen!HasRoom("menu", r) => Screen!drawMenuList(r, menu) \in Seq(Mark(r))
      BY <1>1, <2>2, MenuFits DEF PaintInv, MenuInv
    <3>2. menu'.label = menu.label /\ menu'.value = menu.value
      BY <2>5 DEF Screen!showMenu, MenuInv
    <3>3. /\ painted'.marks = Screen!drawMenuList(r, menu) /\ painted'.box = r
          /\ painted'.widget = "menu"
      BY <2>5 DEF Screen!showMenu, Screen!Painting
    <3> QED
      BY <1>1, <3>1, <3>2, <3>3 DEF PaintInv, FitsAndIsWhole
  <2>6. ASSUME NEW r \in Boxes, NEW v \in Screen!View, Screen!show(r, v) PROVE PaintInv'
    <3>1. /\ Screen!HasRoom("parameter", r) => Screen!drawParameter(r, v) \in Seq(Mark(r))
          /\ Screen!HasRoom("potentiometer", r) => Screen!drawPotentiometer(r, v) \in Seq(Mark(r))
          /\ Screen!HasRoom("encoder", r) => Screen!drawEncoder(r, v) \in Seq(Mark(r))
          /\ Screen!HasRoom("progress", r) => Screen!drawProgressBar(r, v) \in Seq(Mark(r))
          /\ Screen!HasRoom("top bar", r) => Screen!drawTopBar(r, v) \in Seq(Mark(r))
          /\ Screen!HasRoom("footer", r) => Screen!drawFooterBar(r, v) \in Seq(Mark(r))
      BY <2>2, WidgetsFit, Zenon
    <3>2. UNCHANGED menu
      BY <2>6, Zenon DEF Screen!show
    <3>3. /\ "parameter" \notin {"confirmation", "error"}
          /\ "potentiometer" \notin {"confirmation", "error"}
          /\ "encoder" \notin {"confirmation", "error"}
          /\ "progress" \notin {"confirmation", "error"}
          /\ "top bar" \notin {"confirmation", "error"}
          /\ "footer" \notin {"confirmation", "error"}
      OBVIOUS
    <3> QED
      BY <2>1, <2>6, <3>1, <3>2, <3>3, Zenon DEF Screen!show
  <2>7. ASSUME NEW r \in Boxes, NEW v \in Screen!View, NEW message \in Messages,
               Screen!showOverlay(r, v, message)
        PROVE  PaintInv'
    <3>1. Len(message) \in Nat
      BY ProgramsAssumption DEF Screen!WidgetsAssumption
    <3>2. UNCHANGED menu
      BY <2>7 DEF Screen!showOverlay
    <3>3. ASSUME Screen!HasRoom("confirmation", r)
          PROVE  /\ Screen!drawConfirmationOverlay(r, v, message) \in Seq(Mark(r))
                 /\ Screen!drawErrorOverlay(r, v, message) \in Seq(Mark(r))
                 /\ \A title \in {10, 11} :
                       LET inner == Screen!inset(r, 2)
                           room == Screen!Rectangle(inner.x, inner.y + title, inner.width,
                                                    Screen!Greatest(0, inner.height - 10 - title))
                       IN  Screen!LosesNoLetter(Screen!Lines(room, message), message,
                                                Screen!Rows(room.height))
      BY <2>2, <3>1, <3>3, OverlaysFit
    <3>4. /\ painted'.box = r /\ painted'.message = message
          /\ \/ /\ painted'.widget = "confirmation"
                /\ painted'.marks = Screen!drawConfirmationOverlay(r, v, message)
             \/ /\ painted'.widget = "error"
                /\ painted'.marks = Screen!drawErrorOverlay(r, v, message)
      BY <2>7 DEF Screen!showOverlay, Screen!Painting
    <3>5. Screen!HasRoom(painted'.widget, painted'.box) => Screen!HasRoom("confirmation", r)
      BY <3>4 DEF Screen!HasRoom
    <3>6. ASSUME Screen!HasRoom("confirmation", r) PROVE FitsAndIsWhole(painted')
      <4>1. painted'.marks \in Seq(Mark(painted'.box))
        BY <3>3, <3>4, <3>6
      <4>2. (IF painted'.widget = "confirmation" THEN 10 ELSE 11) \in {10, 11}
        OBVIOUS
      <4> QED
        BY <3>3, <3>4, <3>6, <4>1, <4>2, Zenon DEF FitsAndIsWhole
    <3> QED
      BY <1>1, <3>2, <3>5, <3>6, Zenon DEF PaintInv
  <2> QED
    BY <1>3, <2>3, <2>4, <2>5, <2>6, <2>7 DEF Screen!WidgetsNext
<1>4. UNCHANGED <<menu, painted>> \/ Screen!WidgetsNext
  BY <1>1
  DEF RigNext, CallerNext, AttenuverterNext, ControllerStep, ControllerSurroundings,
      ControllerRuns, ScreenNext, vars, programs, screenState
<1> QED
  BY <1>2, <1>3, <1>4

(***************************************************************************)
(* In every box that has room for what it draws, a widget paints nothing   *)
(* outside the box, but for the one column that a round knob takes in a    *)
(* box of even width, whatever it is given to show; and a wrapped message  *)
(* loses no letter.                                                        *)
(***************************************************************************)
THEOREM WidgetsStayInTheirBoxes == RigSpec => []PaintsWhatItShould
<1>1. PaintInv => PaintsWhatItShould
  <2> SUFFICES ASSUME PaintInv, app = "widgets", Screen!HasRoom(painted.widget, painted.box)
               PROVE  Screen!PaintsWhatItShould
    BY DEF PaintsWhatItShould, Screen!PaintsWhatItShould
  <2>1. FitsAndIsWhole(painted)
    BY DEF PaintInv
  <2>2. \A i \in DOMAIN painted.marks :
           Screen!Within(Screen!Reach(painted.box, painted.marks[i].what), painted.marks[i].box)
    <3> SUFFICES ASSUME NEW i \in DOMAIN painted.marks
                 PROVE  Screen!Within(Screen!Reach(painted.box, painted.marks[i].what),
                                      painted.marks[i].box)
      OBVIOUS
    <3>1. painted.marks[i] \in Mark(painted.box)
      BY <2>1 DEF FitsAndIsWhole
    <3> QED
      BY <3>1 DEF Mark
  <2> QED
    BY <2>1, <2>2, Zenon DEF FitsAndIsWhole, Screen!PaintsWhatItShould
<1>2. MenuInv /\ [RigNext]_vars => MenuInv'
  BY MenuInvNext
<1> QED
  BY <1>1, <1>2, MenuInvInit, PaintInvInit, PaintInvNext, PTL DEF RigSpec

-----------------------------------------------------------------------------
(***************************************************************************)
(* Shapes on a canvas, as sequences of points: the points of a sequence,   *)
(* and whether it touches each of them once.                               *)
(***************************************************************************)
Points == [x : Int, y : Int]
Covered(s) == {s[i] : i \in DOMAIN s}
Simple(s) == \A i, j \in DOMAIN s : s[i] = s[j] => i = j

LEMMA JoinedPoints ==
    ASSUME NEW S, NEW s \in Seq(S), NEW t \in Seq(S)
    PROVE  /\ s \o t \in Seq(S)
           /\ Covered(s \o t) = Covered(s) \cup Covered(t)
           /\ Simple(s) /\ Simple(t) /\ Covered(s) \cap Covered(t) = {} => Simple(s \o t)
<1> DEFINE m == Len(s)
           n == Len(t)
<1>1. /\ m \in Nat /\ n \in Nat
      /\ DOMAIN s = 1 .. m /\ DOMAIN t = 1 .. n /\ DOMAIN (s \o t) = 1 .. m + n
      /\ \A i \in 1 .. m : (s \o t)[i] = s[i]
      /\ \A i \in 1 .. n : (s \o t)[m + i] = t[i]
  OBVIOUS
<1> DEFINE u == s \o t
<1>2. u \in Seq(S)
  OBVIOUS
<1> HIDE DEF u, m, n
<1>3. \A i \in 1 .. m + n : i \in 1 .. m \/ (i - m \in 1 .. n /\ m + (i - m) = i)
  BY <1>1
<1>4. \A i \in 1 .. m : i \in 1 .. m + n
  BY <1>1
<1>5. \A i \in 1 .. n : m + i \in 1 .. m + n
  BY <1>1
<1>6. \A p : p \in Covered(u) <=> p \in Covered(s) \/ p \in Covered(t)
  <2> TAKE p
  <2>1. ASSUME p \in Covered(u) PROVE p \in Covered(s) \/ p \in Covered(t)
    <3>1. PICK i \in 1 .. m + n : p = u[i]
      BY <1>1, <2>1 DEF Covered, u
    <3>2. CASE i \in 1 .. m
      BY <1>1, <3>1, <3>2 DEF Covered, u
    <3>3. CASE i - m \in 1 .. n /\ m + (i - m) = i
      <4>1. p = t[i - m]
        BY <1>1, <3>1, <3>3 DEF u
      <4> QED
        BY <1>1, <3>3, <4>1 DEF Covered
    <3> QED
      BY <1>3, <3>2, <3>3
  <2>2. ASSUME p \in Covered(s) PROVE p \in Covered(u)
    <3>1. PICK i \in 1 .. m : p = s[i]
      BY <1>1, <2>2 DEF Covered
    <3>2. p = u[i] /\ i \in DOMAIN u
      BY <1>1, <1>4, <3>1 DEF u
    <3> QED
      BY <3>2 DEF Covered
  <2>3. ASSUME p \in Covered(t) PROVE p \in Covered(u)
    <3>1. PICK i \in 1 .. n : p = t[i]
      BY <1>1, <2>3 DEF Covered
    <3>2. p = u[m + i] /\ m + i \in DOMAIN u
      BY <1>1, <1>5, <3>1 DEF u
    <3> QED
      BY <3>2 DEF Covered
  <2> QED
    BY <2>1, <2>2, <2>3
<1>7. ASSUME Simple(s), Simple(t), Covered(s) \cap Covered(t) = {} PROVE Simple(u)
  <2> SUFFICES ASSUME NEW i \in 1 .. m + n, NEW j \in 1 .. m + n, u[i] = u[j] PROVE i = j
    BY <1>1 DEF Simple, u
  <2>1. CASE i \in 1 .. m /\ j \in 1 .. m
    BY <1>1, <1>7, <2>1 DEF Simple, u
  <2>2. ASSUME NEW k \in 1 .. m + n, NEW l \in 1 .. m + n, k \in 1 .. m, l - m \in 1 .. n,
               m + (l - m) = l
        PROVE  u[k] \in Covered(s) /\ u[l] \in Covered(t)
    <3>1. u[k] = s[k] /\ u[l] = t[l - m]
      BY <1>1, <2>2 DEF u
    <3> QED
      BY <1>1, <2>2, <3>1 DEF Covered
  <2>3. CASE /\ i - m \in 1 .. n /\ m + (i - m) = i
             /\ j - m \in 1 .. n /\ m + (j - m) = j
    <3>1. t[i - m] = t[j - m]
      BY <1>1, <2>3 DEF u
    <3>2. i - m = j - m
      BY <1>1, <1>7, <2>3, <3>1 DEF Simple
    <3> QED
      BY <2>3, <3>2
  <2> QED
    BY <1>3, <1>7, <2>1, <2>2, <2>3
<1> QED
  BY <1>2, <1>6, <1>7 DEF u

(***************************************************************************)
(* FlattenSeq keeps the points of its sequences, and touches each once if  *)
(* each of them does and no two have a point in common.                    *)
(***************************************************************************)
LEMMA FlattenPoints ==
    ASSUME NEW S, NEW n \in Nat, NEW seqs \in [1 .. n -> Seq(S)]
    PROVE  LET flat == Screen!FlattenSeq(seqs) IN
           /\ flat \in Seq(S)
           /\ \A p : p \in Covered(flat) <=> \E i \in 1 .. n : p \in Covered(seqs[i])
           /\ (/\ \A i \in 1 .. n : Simple(seqs[i])
               /\ \A i, j \in 1 .. n : i # j => Covered(seqs[i]) \cap Covered(seqs[j]) = {})
                 => Simple(flat)
<1>1. seqs \in Seq(Seq(S)) /\ Len(seqs) = n
  OBVIOUS
<1>2. PICK f \in [0 .. n -> Seq(S)] :
         /\ f[0] = <<>>
         /\ \A i \in 1 .. n : f[i] = f[i - 1] \o seqs[i]
         /\ Screen!FlattenSeq(seqs) = f[n]
  BY <1>1, FlattenSteps
<1> DEFINE Single == /\ \A i \in 1 .. n : Simple(seqs[i])
                     /\ \A i, j \in 1 .. n : i # j => Covered(seqs[i]) \cap Covered(seqs[j]) = {}
           Upto(k) == /\ \A p : p \in Covered(f[k]) <=> \E i \in 1 .. k : p \in Covered(seqs[i])
                      /\ Single => Simple(f[k])
           T == {k \in Nat : k <= n => Upto(k)}
<1>3. 0 \in T
  <2>1. Covered(f[0]) = {} /\ Simple(f[0])
    BY <1>2 DEF Covered, Simple
  <2> QED
    BY <2>1
<1>4. ASSUME NEW k \in Nat, Upto(k), k + 1 <= n PROVE Upto(k + 1)
  <2>1. k + 1 \in 1 .. n /\ (k + 1) - 1 = k /\ k \in 0 .. n
    BY <1>4
  <2>2. f[k + 1] = f[k] \o seqs[k + 1] /\ f[k] \in Seq(S) /\ seqs[k + 1] \in Seq(S)
    BY <1>2, <2>1
  <2>3. Upto(k)
    BY <1>4, Zenon
  <2> DEFINE a == f[k]
             b == seqs[k + 1]
  <2>4. /\ Covered(f[k + 1]) = Covered(a) \cup Covered(b)
        /\ Simple(a) /\ Simple(b) /\ Covered(a) \cap Covered(b) = {} => Simple(f[k + 1])
    <3> HIDE DEF a, b
    <3>1. a \in Seq(S) /\ b \in Seq(S) /\ f[k + 1] = a \o b
      BY <2>2 DEF a, b
    <3> QED
      BY <3>1, JoinedPoints
  <2>5. \A i \in 1 .. k + 1 : i \in 1 .. k \/ i = k + 1
    OBVIOUS
  <2>6. \A i \in 1 .. k : i \in 1 .. k + 1 /\ i \in 1 .. n /\ i # k + 1
    BY <1>4
  <2>7. k + 1 \in 1 .. k + 1
    OBVIOUS
  <2>8. ASSUME NEW p
        PROVE  p \in Covered(f[k + 1]) <=> \E i \in 1 .. k + 1 : p \in Covered(seqs[i])
    BY <2>3, <2>4, <2>5, <2>6, <2>7, Zenon
  <2>9. ASSUME Single PROVE Simple(f[k + 1])
    <3>1. Covered(a) \cap Covered(b) = {}
      <4> SUFFICES ASSUME NEW p, p \in Covered(f[k]), p \in Covered(seqs[k + 1]) PROVE FALSE
        OBVIOUS
      <4>1. PICK i \in 1 .. k : p \in Covered(seqs[i])
        BY <2>3
      <4>2. Covered(seqs[i]) \cap Covered(seqs[k + 1]) = {}
        BY <2>1, <2>6, <2>9
      <4> QED
        BY <4>1, <4>2
    <3>2. Simple(a) /\ Simple(b)
      BY <2>1, <2>3, <2>9
    <3> QED
      BY <2>4, <3>1, <3>2
  <2> QED
    BY <2>8, <2>9
<1>5. n \in T
  <2> HIDE DEF Upto
  <2>1. \A k \in T : k + 1 \in T
    <3> SUFFICES ASSUME NEW k \in Nat, k <= n => Upto(k), k + 1 <= n
                 PROVE  Upto(k + 1)
      OBVIOUS
    <3> k <= n
      OBVIOUS
    <3> QED
      BY <1>4
  <2>2. T \subseteq Nat
    OBVIOUS
  <2> HIDE DEF T
  <2> QED
    BY <1>3, <2>1, <2>2, SetInduction
<1>6. Upto(n)
  BY <1>5
<1>7. f[n] \in Seq(S)
  OBVIOUS
<1> HIDE DEF T
<1> QED
  BY <1>2, <1>6, <1>7, Zenon

LEMMA CoveredArePoints == ASSUME NEW S, NEW s \in Seq(S) PROVE Covered(s) \subseteq S
BY DEF Covered

(***************************************************************************)
(* Rows and columns of points.                                             *)
(***************************************************************************)
LEMMA HorizontalLine ==
    ASSUME NEW x \in Int, NEW y \in Int, NEW length \in Int
    PROVE  LET s == Screen!drawHorizontalLine(x, y, length) IN
           /\ s \in Seq(Points) /\ Simple(s)
           /\ length >= 0 =>
                 \A p \in Points :
                    p \in Covered(s) <=> p.y = y /\ x <= p.x /\ p.x < x + length
<1> DEFINE s == Screen!drawHorizontalLine(x, y, length)
           first == IF length < 0 THEN x + length + 1 ELSE x
           n == Screen!Absolute(length)
<1>1. n \in Nat /\ first \in Int /\ (length >= 0 => n = length /\ first = x)
  BY DEF Screen!Absolute
<1>2. s = [i \in 1 .. n |-> [x |-> first + i - 1, y |-> y]]
  BY DEF Screen!drawHorizontalLine, Screen!Point
<1> HIDE DEF s, n, first
<1>3. \A i \in 1 .. n : first + i - 1 \in Int
  BY <1>1
<1>4. s \in [1 .. n -> Points]
  BY <1>2, <1>3 DEF Points
<1>5. s \in Seq(Points) /\ DOMAIN s = 1 .. n
  BY <1>1, <1>4
<1>6. \A i \in 1 .. n : s[i].x = first + i - 1 /\ s[i].y = y
  BY <1>2
<1>7. Simple(s)
  <2> SUFFICES ASSUME NEW i \in 1 .. n, NEW j \in 1 .. n, s[i] = s[j] PROVE i = j
    BY <1>5 DEF Simple
  <2>1. first + i - 1 = first + j - 1
    BY <1>6
  <2> QED
    BY <1>1, <2>1
<1>8. ASSUME length >= 0, NEW p \in Points
      PROVE  p \in Covered(s) <=> p.y = y /\ x <= p.x /\ p.x < x + length
  <2>1. ASSUME p \in Covered(s) PROVE p.y = y /\ x <= p.x /\ p.x < x + length
    <3>1. PICK i \in 1 .. n : p = s[i]
      BY <1>5, <2>1 DEF Covered
    <3>2. p.x = first + i - 1 /\ p.y = y
      BY <1>6, <3>1
    <3> QED
      BY <1>1, <1>8, <3>2
  <2>2. ASSUME p.y = y, x <= p.x, p.x < x + length PROVE p \in Covered(s)
    <3> DEFINE i == p.x - x + 1
    <3>1. p.x \in Int
      BY DEF Points
    <3>2. i \in 1 .. n /\ first + i - 1 = p.x
      BY <1>1, <1>8, <2>2, <3>1
    <3> HIDE DEF i
    <3>3. s[i] = [x |-> p.x, y |-> p.y]
      BY <1>2, <2>2, <3>2
    <3>4. s[i] = p
      BY <3>3 DEF Points
    <3> QED
      BY <1>5, <3>2, <3>4 DEF Covered
  <2> QED
    BY <2>1, <2>2
<1> QED
  BY <1>5, <1>7, <1>8 DEF s

LEMMA VerticalLine ==
    ASSUME NEW x \in Int, NEW y \in Int, NEW length \in Int
    PROVE  LET s == Screen!drawVerticalLine(x, y, length) IN
           /\ s \in Seq(Points) /\ Simple(s)
           /\ length >= 0 =>
                 \A p \in Points :
                    p \in Covered(s) <=> p.x = x /\ y <= p.y /\ p.y < y + length
<1> DEFINE s == Screen!drawVerticalLine(x, y, length)
           first == IF length < 0 THEN y + length + 1 ELSE y
           n == Screen!Absolute(length)
<1>1. n \in Nat /\ first \in Int /\ (length >= 0 => n = length /\ first = y)
  BY DEF Screen!Absolute
<1>2. s = [i \in 1 .. n |-> [x |-> x, y |-> first + i - 1]]
  BY DEF Screen!drawVerticalLine, Screen!Point
<1> HIDE DEF s, n, first
<1>3. \A i \in 1 .. n : first + i - 1 \in Int
  BY <1>1
<1>4. s \in [1 .. n -> Points]
  BY <1>2, <1>3 DEF Points
<1>5. s \in Seq(Points) /\ DOMAIN s = 1 .. n
  BY <1>1, <1>4
<1>6. \A i \in 1 .. n : s[i].x = x /\ s[i].y = first + i - 1
  BY <1>2
<1>7. Simple(s)
  <2> SUFFICES ASSUME NEW i \in 1 .. n, NEW j \in 1 .. n, s[i] = s[j] PROVE i = j
    BY <1>5 DEF Simple
  <2>1. first + i - 1 = first + j - 1
    BY <1>6
  <2> QED
    BY <1>1, <2>1
<1>8. ASSUME length >= 0, NEW p \in Points
      PROVE  p \in Covered(s) <=> p.x = x /\ y <= p.y /\ p.y < y + length
  <2>1. ASSUME p \in Covered(s) PROVE p.x = x /\ y <= p.y /\ p.y < y + length
    <3>1. PICK i \in 1 .. n : p = s[i]
      BY <1>5, <2>1 DEF Covered
    <3>2. p.x = x /\ p.y = first + i - 1
      BY <1>6, <3>1
    <3> QED
      BY <1>1, <1>8, <3>2
  <2>2. ASSUME p.x = x, y <= p.y, p.y < y + length PROVE p \in Covered(s)
    <3> DEFINE i == p.y - y + 1
    <3>1. p.y \in Int
      BY DEF Points
    <3>2. i \in 1 .. n /\ first + i - 1 = p.y
      BY <1>1, <1>8, <2>2, <3>1
    <3> HIDE DEF i
    <3>3. s[i] = [x |-> p.x, y |-> p.y]
      BY <1>2, <2>2, <3>2
    <3>4. s[i] = p
      BY <3>3 DEF Points
    <3> QED
      BY <1>5, <3>2, <3>4 DEF Covered
  <2> QED
    BY <2>1, <2>2
<1> QED
  BY <1>5, <1>7, <1>8 DEF s

LEMMA NothingDrawn == <<>> \in Seq(Points) /\ Covered(<<>>) = {} /\ Simple(<<>>)
BY DEF Covered, Simple

(***************************************************************************)
(* A filled rectangle is its box, row by row; a rectangle is the border of *)
(* it, of which the vertical edges leave out the corners.                  *)
(***************************************************************************)
LEMMA BoxPoints ==
    ASSUME NEW r \in Area
    PROVE  /\ Screen!Box(r) \subseteq Points
           /\ \A p \in Points : p \in Screen!Box(r) <=>
                 r.x <= p.x /\ p.x < r.x + r.width /\ r.y <= p.y /\ p.y < r.y + r.height
<1>1. \A p : p \in Screen!Box(r) <=>
         \E x \in r.x .. (r.x + r.width) - 1, y \in r.y .. (r.y + r.height) - 1 :
            p = [x |-> x, y |-> y]
  <2> DEFINE X == r.x .. Screen!right(r) - 1
             Y == r.y .. Screen!bottom(r) - 1
  <2>1. Screen!Box(r) = {Screen!Point(x, y) : x \in X, y \in Y}
    BY DEF Screen!Box
  <2> HIDE DEF X, Y
  <2>2. \A p : p \in Screen!Box(r) <=> \E x \in X, y \in Y : p = Screen!Point(x, y)
    BY <2>1
  <2>3. \A p : p \in Screen!Box(r) <=> \E x \in X, y \in Y : p = [x |-> x, y |-> y]
    BY <2>2 DEF Screen!Point
  <2> QED
    BY <2>3 DEF X, Y, Screen!right, Screen!bottom
<1>2. PICK x0 \in Int, y0 \in Int, w \in Int, h \in Int :
         r.x = x0 /\ r.y = y0 /\ r.width = w /\ r.height = h
  BY DEF Area
<1>3. \A p : p \in Screen!Box(r) <=>
         \E x \in x0 .. (x0 + w) - 1, y \in y0 .. (y0 + h) - 1 : p = [x |-> x, y |-> y]
  BY <1>1, <1>2
<1>4. \A x \in x0 .. x0 + w - 1 : x \in Int
  OBVIOUS
<1>5. \A y \in y0 .. y0 + h - 1 : y \in Int
  OBVIOUS
<1>6. Screen!Box(r) \subseteq Points
  BY <1>3, <1>4, <1>5 DEF Points
<1>7. ASSUME NEW p \in Points
      PROVE  p \in Screen!Box(r) <=> x0 <= p.x /\ p.x < x0 + w /\ y0 <= p.y /\ p.y < y0 + h
  <2>1. p.x \in Int /\ p.y \in Int /\ p = [x |-> p.x, y |-> p.y]
    BY DEF Points
  <2>2. p \in Screen!Box(r) <=> p.x \in x0 .. x0 + w - 1 /\ p.y \in y0 .. y0 + h - 1
    BY <1>3, <2>1
  <2> QED
    BY <2>1, <2>2
<1> QED
  BY <1>2, <1>6, <1>7

LEMMA FilledRectangle ==
    ASSUME NEW r \in Area
    PROVE  LET s == Screen!fillRectangle(r) IN
           s \in Seq(Points) /\ Simple(s) /\ Covered(s) = Screen!Box(r)
<1> DEFINE s == Screen!fillRectangle(r)
<1>1. PICK x0 \in Int, y0 \in Int, w \in Int, h \in Int :
         r.x = x0 /\ r.y = y0 /\ r.width = w /\ r.height = h
  BY DEF Area
<1>2. /\ Screen!Box(r) \subseteq Points
      /\ \A p \in Points : p \in Screen!Box(r) <=>
            x0 <= p.x /\ p.x < x0 + w /\ y0 <= p.y /\ p.y < y0 + h
  BY <1>1, BoxPoints
<1>3. CASE ~(w > 0 /\ h > 0)
  <2>1. s = <<>>
    BY <1>1, <1>3 DEF Screen!fillRectangle, Screen!valid
  <2>2. \A p \in Points : p \notin Screen!Box(r)
    BY <1>2, <1>3 DEF Points
  <2>3. Screen!Box(r) = {}
    BY <1>2, <2>2
  <2> QED
    BY <2>1, <2>3, NothingDrawn
<1>4. CASE w > 0 /\ h > 0
  <2> DEFINE Row(i) == Screen!drawHorizontalLine(x0, y0 + i - 1, w)
             rows == [i \in 1 .. h |-> Row(i)]
  <2>1. s = Screen!FlattenSeq(rows)
    BY <1>1, <1>4 DEF Screen!fillRectangle, Screen!valid
  <2>2. ASSUME NEW i \in 1 .. h
        PROVE  /\ Row(i) \in Seq(Points) /\ Simple(Row(i))
               /\ \A p \in Points : p \in Covered(Row(i)) <=> p.y = y0 + i - 1 /\ x0 <= p.x /\ p.x < x0 + w
    <3>1. y0 + i - 1 \in Int /\ w >= 0
      BY <1>4
    <3> QED
      BY <3>1, HorizontalLine
  <2>3. h \in Nat /\ rows \in [1 .. h -> Seq(Points)] /\ \A i \in 1 .. h : rows[i] = Row(i)
    <3> HIDE DEF Row
    <3> QED
      BY <1>4, <2>2
  <2> HIDE DEF rows, Row
  <2>4. /\ s \in Seq(Points)
        /\ \A p : p \in Covered(s) <=> \E i \in 1 .. h : p \in Covered(rows[i])
        /\ (/\ \A i \in 1 .. h : Simple(rows[i])
            /\ \A i, j \in 1 .. h : i # j => Covered(rows[i]) \cap Covered(rows[j]) = {}) => Simple(s)
    BY <2>1, <2>3, FlattenPoints
  <2>5. ASSUME NEW i \in 1 .. h, NEW j \in 1 .. h, i # j
        PROVE  Covered(rows[i]) \cap Covered(rows[j]) = {}
    <3> SUFFICES ASSUME NEW p \in Points, p \in Covered(Row(i)), p \in Covered(Row(j)) PROVE FALSE
      BY <2>2, <2>3, CoveredArePoints
    <3>1. p.y = y0 + i - 1 /\ p.y = y0 + j - 1
      BY <2>2
    <3> QED
      BY <2>5, <3>1
  <2>6. Simple(s)
    BY <2>2, <2>3, <2>4, <2>5
  <2>7. Covered(s) \subseteq Points
    BY <2>4, CoveredArePoints
  <2>8. ASSUME NEW p \in Points PROVE p \in Covered(s) <=> p \in Screen!Box(r)
    <3>1. p.x \in Int /\ p.y \in Int
      BY DEF Points
    <3>2. p \in Covered(s) <=> \E i \in 1 .. h : p.y = y0 + i - 1 /\ x0 <= p.x /\ p.x < x0 + w
      BY <2>2, <2>3, <2>4
    <3>3. (\E i \in 1 .. h : p.y = y0 + i - 1) <=> y0 <= p.y /\ p.y < y0 + h
      <4>1. ASSUME y0 <= p.y, p.y < y0 + h PROVE \E i \in 1 .. h : p.y = y0 + i - 1
        <5>1. p.y - y0 + 1 \in 1 .. h /\ p.y = y0 + (p.y - y0 + 1) - 1
          BY <3>1, <4>1
        <5> QED
          BY <5>1
      <4> QED
        BY <3>1, <4>1
    <3> QED
      BY <1>2, <3>2, <3>3
  <2> QED
    BY <1>2, <2>4, <2>6, <2>7, <2>8
<1> QED
  BY <1>3, <1>4

LEMMA FourJoined ==
    ASSUME NEW S, NEW a \in Seq(S), NEW b \in Seq(S), NEW c \in Seq(S), NEW d \in Seq(S)
    PROVE  LET s == a \o b \o c \o d IN
           /\ s \in Seq(S)
           /\ Covered(s) = Covered(a) \cup Covered(b) \cup Covered(c) \cup Covered(d)
           /\ (/\ Simple(a) /\ Simple(b) /\ Simple(c) /\ Simple(d)
               /\ Covered(a) \cap Covered(b) = {} /\ Covered(a) \cap Covered(c) = {}
               /\ Covered(a) \cap Covered(d) = {} /\ Covered(b) \cap Covered(c) = {}
               /\ Covered(b) \cap Covered(d) = {} /\ Covered(c) \cap Covered(d) = {}) => Simple(s)
<1> DEFINE t == a \o b
           u == t \o c
           s == u \o d
<1>1. /\ t \in Seq(S) /\ Covered(t) = Covered(a) \cup Covered(b)
      /\ Simple(a) /\ Simple(b) /\ Covered(a) \cap Covered(b) = {} => Simple(t)
  BY JoinedPoints
<1> HIDE DEF t
<1>2. /\ u \in Seq(S) /\ Covered(u) = Covered(t) \cup Covered(c)
      /\ Simple(t) /\ Simple(c) /\ Covered(t) \cap Covered(c) = {} => Simple(u)
  BY <1>1, JoinedPoints
<1> HIDE DEF u
<1>3. /\ s \in Seq(S) /\ Covered(s) = Covered(u) \cup Covered(d)
      /\ Simple(u) /\ Simple(d) /\ Covered(u) \cap Covered(d) = {} => Simple(s)
  BY <1>2, JoinedPoints
<1>4. s = a \o b \o c \o d
  BY DEF t, u
<1> HIDE DEF s
<1>5. Covered(s) = Covered(a) \cup Covered(b) \cup Covered(c) \cup Covered(d)
  BY <1>1, <1>2, <1>3
<1>6. ASSUME Simple(a), Simple(b), Simple(c), Simple(d),
             Covered(a) \cap Covered(b) = {}, Covered(a) \cap Covered(c) = {},
             Covered(a) \cap Covered(d) = {}, Covered(b) \cap Covered(c) = {},
             Covered(b) \cap Covered(d) = {}, Covered(c) \cap Covered(d) = {}
      PROVE  Simple(s)
  <2>1. Simple(t)
    BY <1>1, <1>6
  <2>2. Covered(t) \cap Covered(c) = {}
    BY <1>1, <1>6
  <2>3. Covered(u) \cap Covered(d) = {}
    BY <1>1, <1>2, <1>6
  <2> QED
    BY <1>2, <1>3, <1>6, <2>1, <2>2, <2>3
<1> QED
  BY <1>3, <1>4, <1>5, <1>6, Zenon

LEMMA RectangleBorder ==
    ASSUME NEW r \in Area
    PROVE  LET s == Screen!drawRectangle(r) IN
           s \in Seq(Points) /\ Simple(s) /\ Covered(s) = Screen!Border(r)
<1> DEFINE s == Screen!drawRectangle(r)
<1>1. PICK x0 \in Int, y0 \in Int, w \in Int, h \in Int :
         r.x = x0 /\ r.y = y0 /\ r.width = w /\ r.height = h
  BY DEF Area
<1>2. /\ Screen!Box(r) \subseteq Points
      /\ \A p \in Points : p \in Screen!Box(r) <=>
            x0 <= p.x /\ p.x < x0 + w /\ y0 <= p.y /\ p.y < y0 + h
  BY <1>1, BoxPoints
<1>3. \A p : p \in Screen!Border(r) <=>
         /\ p \in Screen!Box(r)
         /\ p.x \in {x0, (x0 + w) - 1} \/ p.y \in {y0, (y0 + h) - 1}
  BY <1>1 DEF Screen!Border, Screen!right, Screen!bottom
<1>4. CASE ~(w > 0 /\ h > 0)
  <2>1. s = <<>>
    BY <1>1, <1>4 DEF Screen!drawRectangle, Screen!valid
  <2>2. \A p \in Points : p \notin Screen!Box(r)
    BY <1>2, <1>4 DEF Points
  <2>3. Screen!Border(r) = {}
    BY <1>2, <1>3, <2>2
  <2> QED
    BY <2>1, <2>3, NothingDrawn
<1>5. CASE w > 0 /\ h > 0
  <2> DEFINE a == Screen!drawHorizontalLine(x0, y0, w)
             b == IF h > 1 THEN Screen!drawHorizontalLine(x0, (y0 + h) - 1, w) ELSE <<>>
             c == IF h > 2 THEN Screen!drawVerticalLine(x0, y0 + 1, h - 2) ELSE <<>>
             d == IF h > 2 /\ w > 1
                  THEN Screen!drawVerticalLine((x0 + w) - 1, y0 + 1, h - 2) ELSE <<>>
  <2>1. s = a \o b \o c \o d
    <3>1. /\ Screen!valid(r) /\ Screen!bottom(r) - 1 = (y0 + h) - 1
          /\ Screen!right(r) - 1 = (x0 + w) - 1
      BY <1>1, <1>5 DEF Screen!valid, Screen!bottom, Screen!right
    <3> QED
      BY <1>1, <3>1, Zenon DEF Screen!drawRectangle
  <2>2. /\ a \in Seq(Points) /\ Simple(a)
        /\ \A p \in Points : p \in Covered(a) <=> p.y = y0 /\ x0 <= p.x /\ p.x < x0 + w
    BY <1>5, HorizontalLine
  <2>3. /\ b \in Seq(Points) /\ Simple(b)
        /\ \A p \in Points :
              p \in Covered(b) <=> h > 1 /\ p.y = (y0 + h) - 1 /\ x0 <= p.x /\ p.x < x0 + w
    <3>1. CASE h > 1
      <4> DEFINE line == Screen!drawHorizontalLine(x0, (y0 + h) - 1, w)
      <4>1. (y0 + h) - 1 \in Int /\ w >= 0
        BY <1>5
      <4>2. /\ line \in Seq(Points) /\ Simple(line)
            /\ \A p \in Points :
                  p \in Covered(line) <=> p.y = (y0 + h) - 1 /\ x0 <= p.x /\ p.x < x0 + w
        BY <4>1, HorizontalLine
      <4>3. b = line
        BY <3>1
      <4> HIDE DEF line, b
      <4> QED
        BY <3>1, <4>2, <4>3
    <3>2. CASE ~(h > 1)
      BY <3>2, NothingDrawn
    <3> QED
      BY <3>1, <3>2
  <2>4. /\ c \in Seq(Points) /\ Simple(c)
        /\ \A p \in Points :
              p \in Covered(c) <=> h > 2 /\ p.x = x0 /\ y0 + 1 <= p.y /\ p.y < (y0 + 1) + (h - 2)
    <3>1. CASE h > 2
      <4>1. PICK x \in Int, y \in Int, n \in Int :
               x = x0 /\ y = y0 + 1 /\ n = h - 2
        BY <3>1
      <4>4. n >= 0
        BY <3>1, <4>1
      <4> DEFINE line == Screen!drawVerticalLine(x, y, n)
      <4>2. /\ line \in Seq(Points) /\ Simple(line)
            /\ \A p \in Points :
                  p \in Covered(line) <=> p.x = x /\ y <= p.y /\ p.y < y + n
        BY <4>4, VerticalLine
      <4>3. c = line
        BY <3>1, <4>1
      <4> HIDE DEF line, c
      <4> QED
        BY <3>1, <4>1, <4>2, <4>3
    <3>2. CASE ~(h > 2)
      BY <3>2, NothingDrawn
    <3> QED
      BY <3>1, <3>2
  <2>5. /\ d \in Seq(Points) /\ Simple(d)
        /\ \A p \in Points :
              p \in Covered(d) <=> h > 2 /\ w > 1 /\ p.x = (x0 + w) - 1
                                   /\ y0 + 1 <= p.y /\ p.y < (y0 + 1) + (h - 2)
    <3>1. CASE h > 2 /\ w > 1
      <4>1. PICK x \in Int, y \in Int, n \in Int :
               x = (x0 + w) - 1 /\ y = y0 + 1 /\ n = h - 2
        BY <3>1
      <4>4. n >= 0
        BY <3>1, <4>1
      <4> DEFINE line == Screen!drawVerticalLine(x, y, n)
      <4>2. /\ line \in Seq(Points) /\ Simple(line)
            /\ \A p \in Points :
                  p \in Covered(line) <=> p.x = x /\ y <= p.y /\ p.y < y + n
        BY <4>4, VerticalLine
      <4>3. d = line
        BY <3>1, <4>1
      <4> HIDE DEF line, d
      <4> QED
        BY <3>1, <4>1, <4>2, <4>3
    <3>2. CASE ~(h > 2 /\ w > 1)
      BY <3>2, NothingDrawn
    <3> QED
      BY <3>1, <3>2
  <2> HIDE DEF a, b, c, d, s
  <2>6. /\ Covered(a) \subseteq Points /\ Covered(b) \subseteq Points
        /\ Covered(c) \subseteq Points /\ Covered(d) \subseteq Points
    BY <2>2, <2>3, <2>4, <2>5, CoveredArePoints
  <2>7. \A p \in Points : p.x \in Int /\ p.y \in Int
    BY DEF Points
  <2>8. /\ Covered(a) \cap Covered(b) = {} /\ Covered(a) \cap Covered(c) = {}
        /\ Covered(a) \cap Covered(d) = {} /\ Covered(b) \cap Covered(c) = {}
        /\ Covered(b) \cap Covered(d) = {} /\ Covered(c) \cap Covered(d) = {}
    <3> SUFFICES ASSUME NEW p \in Points
                 PROVE  /\ ~(p \in Covered(a) /\ p \in Covered(b))
                        /\ ~(p \in Covered(a) /\ p \in Covered(c))
                        /\ ~(p \in Covered(a) /\ p \in Covered(d))
                        /\ ~(p \in Covered(b) /\ p \in Covered(c))
                        /\ ~(p \in Covered(b) /\ p \in Covered(d))
                        /\ ~(p \in Covered(c) /\ p \in Covered(d))
      BY <2>6
    <3>1. PICK i \in Int, j \in Int : i = p.x /\ j = p.y
      BY <2>7
    <3>2. /\ p \in Covered(a) => j = y0
          /\ p \in Covered(b) => h > 1 /\ j = (y0 + h) - 1
          /\ p \in Covered(c) => i = x0 /\ y0 + 1 <= j /\ j < (y0 + 1) + (h - 2)
          /\ p \in Covered(d) => /\ w > 1 /\ i = (x0 + w) - 1
                                 /\ y0 + 1 <= j /\ j < (y0 + 1) + (h - 2)
      BY <2>2, <2>3, <2>4, <2>5, <3>1
    <3> QED
      BY <3>2
  <2>9. /\ s \in Seq(Points) /\ Simple(s)
        /\ Covered(s) = Covered(a) \cup Covered(b) \cup Covered(c) \cup Covered(d)
    <3>1. /\ a \in Seq(Points) /\ b \in Seq(Points) /\ c \in Seq(Points) /\ d \in Seq(Points)
          /\ Simple(a) /\ Simple(b) /\ Simple(c) /\ Simple(d)
      BY <2>2, <2>3, <2>4, <2>5
    <3>2. s \in Seq(Points)
      BY <2>1, <3>1, FourJoined, Zenon
    <3>4. Covered(s) = Covered(a) \cup Covered(b) \cup Covered(c) \cup Covered(d)
      <4>1. Covered(a \o b \o c \o d)
               = Covered(a) \cup Covered(b) \cup Covered(c) \cup Covered(d)
        BY <3>1, FourJoined
      <4> QED
        BY <2>1, <4>1, Zenon
    <3>3. Simple(s)
      BY <2>1, <2>8, <3>1, FourJoined, Zenon
    <3> QED
      BY <3>2, <3>3, <3>4
  <2>10. ASSUME NEW p \in Points PROVE p \in Covered(s) <=> p \in Screen!Border(r)
    <3>1. p \in Covered(s) <=> \/ p \in Covered(a) \/ p \in Covered(b)
                               \/ p \in Covered(c) \/ p \in Covered(d)
      BY <2>9
    <3>2. p \in Screen!Border(r) <=>
             /\ x0 <= p.x /\ p.x < x0 + w /\ y0 <= p.y /\ p.y < y0 + h
             /\ p.x \in {x0, (x0 + w) - 1} \/ p.y \in {y0, (y0 + h) - 1}
      BY <1>2, <1>3
    <3>3. PICK i \in Int, j \in Int : i = p.x /\ j = p.y
      BY <2>7
    <3>4. \/ j = y0 /\ x0 <= i /\ i < x0 + w
          \/ h > 1 /\ j = (y0 + h) - 1 /\ x0 <= i /\ i < x0 + w
          \/ h > 2 /\ i = x0 /\ y0 + 1 <= j /\ j < (y0 + 1) + (h - 2)
          \/ h > 2 /\ w > 1 /\ i = (x0 + w) - 1 /\ y0 + 1 <= j /\ j < (y0 + 1) + (h - 2)
          <=> /\ x0 <= i /\ i < x0 + w /\ y0 <= j /\ j < y0 + h
              /\ i \in {x0, (x0 + w) - 1} \/ j \in {y0, (y0 + h) - 1}
      BY <1>5
    <3> QED
      BY <2>2, <2>3, <2>4, <2>5, <3>1, <3>2, <3>3, <3>4
  <2>11. Covered(s) \subseteq Points /\ Screen!Border(r) \subseteq Points
    BY <1>2, <1>3, <2>9, CoveredArePoints
  <2> QED
    BY <2>9, <2>10, <2>11 DEF s
<1> QED
  BY <1>4, <1>5

-----------------------------------------------------------------------------
(***************************************************************************)
(* Lines.  The walk of drawLine() goes one step in the longer direction    *)
(* every time, and in the other one when the error says so: it is then     *)
(* never farther than half a pixel from the straight line.                 *)
(***************************************************************************)
Walker == [x : Int, y : Int, error : Int]

StepTowards(a, b) == IF a < b THEN 1 ELSE -1

LEMMA WalkSteps ==
    ASSUME NEW start \in Points, NEW end \in Points
    PROVE  LET W == Screen!Walk(start, end)
               dx == Screen!Absolute(end.x - start.x)
               dy == Screen!Absolute(end.y - start.y)
               N == Screen!Steps(start, end)
           IN  /\ dx \in Nat /\ dy \in Nat /\ N = dx + dy
               /\ W \in [0 .. N -> Walker]
               /\ W[0] = [x |-> start.x, y |-> start.y, error |-> dx + -dy]
               /\ \A n \in 1 .. N :
                     W[n] = Screen!Advance(W[n - 1], end, dx, -dy,
                                           StepTowards(start.x, end.x), StepTowards(start.y, end.y))
<1> DEFINE W == Screen!Walk(start, end)
           dx == Screen!Absolute(end.x - start.x)
           dy == Screen!Absolute(end.y - start.y)
           N == Screen!Steps(start, end)
           stepX == StepTowards(start.x, end.x)
           stepY == StepTowards(start.y, end.y)
           Ahead(w) == Screen!Advance(w, end, dx, -dy, stepX, stepY)
           base == [x |-> start.x, y |-> start.y, error |-> dx + -dy]
           Equation(h) == h = [n \in 0 .. N |-> IF n = 0 THEN base ELSE Ahead(h[n - 1])]
           step == [n \in 1 .. N |-> [w \in Walker |-> Ahead(w)]]
<1>1. /\ start.x \in Int /\ start.y \in Int /\ end.x \in Int /\ end.y \in Int
      /\ dx \in Nat /\ dy \in Nat /\ N = dx + dy /\ N \in Nat
      /\ stepX \in Int /\ stepY \in Int
  BY DEF Points, Screen!Absolute, Screen!Steps, StepTowards
<1>2. W = CHOOSE h : Equation(h)
  BY Zenon DEF Screen!Walk, StepTowards
<1> HIDE DEF W, dx, dy, N, stepX, stepY
<1>3. base \in Walker
  BY <1>1 DEF Walker
<1>4. ASSUME NEW w \in Walker PROVE Ahead(w) \in Walker
  <2>1. PICK x \in Int, y \in Int, e \in Int : w = [x |-> x, y |-> y, error |-> e]
    BY DEF Walker
  <2>2. w.x = x /\ w.y = y /\ w.error = e
    BY <2>1
  <2>3. /\ (IF 2 * w.error >= -dy THEN w.x + stepX ELSE w.x) \in Int
        /\ (IF 2 * w.error <= dx THEN w.y + stepY ELSE w.y) \in Int
        /\ w.error + (IF 2 * w.error >= -dy THEN -dy ELSE 0)
                   + (IF 2 * w.error <= dx THEN dx ELSE 0) \in Int
    BY <1>1, <2>2
  <2> QED
    BY <2>3 DEF Walker, Screen!Advance
<1> HIDE DEF Ahead, base
<1>5. step \in [1 .. N -> [Walker -> Walker]]
  BY <1>4
<1>6. \A n \in 1 .. N, w \in Walker : step[n][w] = Ahead(w)
  OBVIOUS
<1> HIDE DEF step
<1>7. \E f : Equation(f)
  <2>1. Iterates(Walker, N, base, step) # {}
    BY <1>1, <1>3, <1>5, RecursionExists
  <2>2. PICK f : f \in Iterates(Walker, N, base, step)
    BY <2>1
  <2>3. /\ f \in [0 .. N -> Walker] /\ f[0] = base
        /\ \A n \in 1 .. N : f[n] = step[n][f[n - 1]]
    BY <2>2, Zenon DEF Iterates
  <2>4. \A n \in 0 .. N : f[n] = IF n = 0 THEN base ELSE Ahead(f[n - 1])
    <3>0. \A n \in 0 .. N : n = 0 \/ (n \in 1 .. N /\ n # 0)
      BY <1>1
    <3> SUFFICES ASSUME NEW n \in 1 .. N PROVE f[n] = Ahead(f[n - 1])
      BY <2>3, <3>0
    <3>1. f[n - 1] \in Walker
      BY <1>1, <2>3
    <3> QED
      BY <1>6, <2>3, <3>1
  <2>5. Equation(f)
    BY <2>3, <2>4
  <2> QED
    BY <2>5, Zenon
<1>8. Equation(W)
  BY <1>2, <1>7, Zenon
<1>9. W[0] = base /\ \A n \in 1 .. N : W[n] = Ahead(W[n - 1])
  BY <1>1, <1>8
<1> DEFINE T == {n \in Nat : n <= N => W[n] \in Walker}
<1>10. Nat \subseteq T
  <2>1. 0 \in T
    BY <1>3, <1>9
  <2>2. ASSUME NEW n \in Nat, n \in T PROVE n + 1 \in T
    <3> SUFFICES ASSUME n + 1 <= N PROVE W[n + 1] \in Walker
      OBVIOUS
    <3>1. n + 1 \in 1 .. N /\ (n + 1) - 1 = n /\ W[n] \in Walker
      BY <1>1, <2>2
    <3>2. W[n + 1] = Ahead(W[n])
      BY <1>9, <3>1
    <3> QED
      BY <1>4, <3>1, <3>2
  <2> HIDE DEF T
  <2> QED
    BY <2>1, <2>2, SetInduction
<1>11. W \in [0 .. N -> Walker]
  <2>1. \A n \in 0 .. N : W[n] \in Walker
    BY <1>1, <1>10
  <2>2. W = [n \in 0 .. N |-> W[n]]
    BY <1>8
  <2> QED
    BY <2>1, <2>2
<1> QED
  BY <1>1, <1>9, <1>11, Zenon DEF W, dx, dy, N, stepX, stepY, Ahead, base

(***************************************************************************)
(* The arithmetic of one step, k the steps in the longer direction and j   *)
(* those in the other one, and of the last step.                           *)
(***************************************************************************)
LEMMA HalfAPixel ==
    ASSUME NEW long \in Nat, NEW short \in Nat, short <= long, NEW k \in Nat, NEW j \in Int,
           NEW a \in Int, a = k * short - j * long, -long <= 2 * a, 2 * a <= long
    PROVE  /\ 2 * a <= 2 * long - short
           /\ 2 * (a + short) >= long =>
                 /\ a + short - long = (k + 1) * short - (j + 1) * long
                 /\ -long <= 2 * (a + short - long) /\ 2 * (a + short - long) <= long
           /\ ~(2 * (a + short) >= long) =>
                 /\ a + short = (k + 1) * short - j * long
                 /\ -long <= 2 * (a + short) /\ 2 * (a + short) <= long
<1>1. (k + 1) * short = k * short + short
  OBVIOUS
<1>2. (j + 1) * long = j * long + long
  OBVIOUS
<1>3. PICK p \in Int, q \in Int : p = k * short /\ q = j * long
  OBVIOUS
<1> QED
  BY <1>1, <1>2, <1>3

LEMMA BetweenTheEnds ==
    ASSUME NEW long \in Nat, NEW short \in Nat, short <= long, NEW k \in 0 .. long, NEW j \in 0 .. k,
           NEW a \in Int, a = k * short - j * long, -long <= 2 * a, 2 * a <= long
    PROVE  j \in 0 .. short /\ (k = long => j = short)
<1>1. CASE long = 0
  <2>1. k = 0 /\ short = 0
    BY <1>1
  <2> QED
    BY <1>1, <2>1
<1>2. CASE long > 0
  <2>1. 0 <= k * short /\ k * short <= long * short
    OBVIOUS
  <2>2. 2 * (j * long) <= 2 * (long * short) + long
    BY <2>1
  <2>4. j <= short
    <3> SUFFICES ASSUME j >= short + 1 PROVE FALSE
      OBVIOUS
    <3>1. j * long >= (short + 1) * long
      OBVIOUS
    <3>2. (short + 1) * long = long * short + long
      OBVIOUS
    <3> QED
      BY <1>2, <2>2, <3>1, <3>2
  <2>5. ASSUME k = long PROVE j = short
    <3> SUFFICES ASSUME j <= short - 1 PROVE FALSE
      BY <2>4
    <3>1. j * long <= (short - 1) * long
      OBVIOUS
    <3>2. (short - 1) * long = long * short - long /\ k * short = long * short
      BY <2>5
    <3> QED
      BY <1>2, <3>1, <3>2
  <2> QED
    BY <2>4, <2>5
<1> QED
  BY <1>1, <1>2

LEMMA FlatWalk ==
    ASSUME NEW start \in Points, NEW end \in Points,
           Screen!Absolute(end.x - start.x) >= Screen!Absolute(end.y - start.y)
    PROVE  LET W == Screen!Walk(start, end)
               dx == Screen!Absolute(end.x - start.x)
               dy == Screen!Absolute(end.y - start.y)
           IN  \A k \in 0 .. dx : \E j \in 0 .. dy :
                  /\ W[k].x = start.x + StepTowards(start.x, end.x) * k
                  /\ W[k].y = start.y + StepTowards(start.y, end.y) * j
                  /\ -dx <= 2 * (k * dy - j * dx) /\ 2 * (k * dy - j * dx) <= dx
                  /\ k = dx => j = dy
<1> DEFINE W == Screen!Walk(start, end)
           dx == Screen!Absolute(end.x - start.x)
           dy == Screen!Absolute(end.y - start.y)
           N == Screen!Steps(start, end)
           sx == StepTowards(start.x, end.x)
           sy == StepTowards(start.y, end.y)
<1>1. /\ dx \in Nat /\ dy \in Nat /\ N = dx + dy /\ W \in [0 .. N -> Walker]
      /\ W[0] = [x |-> start.x, y |-> start.y, error |-> dx + -dy]
      /\ \A n \in 1 .. N : W[n] = Screen!Advance(W[n - 1], end, dx, -dy, sx, sy)
  BY WalkSteps
<1>2. PICK x0 \in Int, y0 \in Int : x0 = start.x /\ y0 = start.y
  BY DEF Points
<1>3. sx \in Int /\ sy \in Int /\ dy <= dx
  BY DEF StepTowards
<1> HIDE DEF W, dx, dy, N, sx, sy
<1> DEFINE Good(k, j) ==
              /\ W[k] = [x |-> x0 + sx * k, y |-> y0 + sy * j, error |-> dx - dy - (k * dy - j * dx)]
              /\ -dx <= 2 * (k * dy - j * dx) /\ 2 * (k * dy - j * dx) <= dx
           T == {k \in Nat : k <= N => \E j \in 0 .. k : Good(k, j)}
<1>4. 0 \in T
  <2>1. Good(0, 0)
    <3>1. /\ x0 + sx * 0 = x0 /\ y0 + sy * 0 = y0 /\ 0 * dy - 0 * dx = 0
          /\ dx - dy - 0 = dx + -dy
      BY <1>1, <1>3
    <3> QED
      BY <1>1, <1>2, <3>1
  <2> HIDE DEF Good
  <2> QED
    BY <2>1
<1>5. ASSUME NEW k \in Nat, k + 1 <= N, NEW j \in 0 .. k, Good(k, j)
      PROVE  \E i \in 0 .. k + 1 : Good(k + 1, i)
  <2>1. PICK a \in Int : a = k * dy - j * dx
    BY <1>1
  <2>2. -dx <= 2 * a /\ 2 * a <= dx
    BY <1>5, <2>1
  <2>3. /\ W[k].x = x0 + sx * k /\ W[k].y = y0 + sy * j /\ W[k].error = dx - dy - a
    BY <1>5, <2>1
  <2>4. /\ 2 * a <= 2 * dx - dy
        /\ 2 * (a + dy) >= dx =>
              /\ a + dy - dx = (k + 1) * dy - (j + 1) * dx
              /\ -dx <= 2 * (a + dy - dx) /\ 2 * (a + dy - dx) <= dx
        /\ ~(2 * (a + dy) >= dx) =>
              /\ a + dy = (k + 1) * dy - j * dx
              /\ -dx <= 2 * (a + dy) /\ 2 * (a + dy) <= dx
    <3>1. j \in Int
      OBVIOUS
    <3> QED
      BY <1>1, <1>3, <2>1, <2>2, <3>1, HalfAPixel
  <2>5. W[k + 1] = Screen!Advance(W[k], end, dx, -dy, sx, sy)
    <3>1. k + 1 \in 1 .. N /\ (k + 1) - 1 = k
      BY <1>1, <1>5
    <3> QED
      BY <1>1, <3>1
  <2>6. 2 * W[k].error >= -dy
    BY <1>1, <2>3, <2>4
  <2>7. 2 * W[k].error <= dx <=> 2 * (a + dy) >= dx
    BY <1>1, <2>3
  <2>8. (x0 + sx * k) + sx = x0 + sx * (k + 1) /\ (y0 + sy * j) + sy = y0 + sy * (j + 1)
    BY <1>3
  <2>9. CASE 2 * (a + dy) >= dx
    <3>1. W[k + 1] = [x |-> W[k].x + sx, y |-> W[k].y + sy, error |-> W[k].error + (-dy) + dx]
      BY <2>5, <2>6, <2>7, <2>9 DEF Screen!Advance
    <3>2. W[k].error + (-dy) + dx = dx - dy - ((k + 1) * dy - (j + 1) * dx)
      BY <1>1, <2>3, <2>4, <2>9
    <3>3. j + 1 \in 0 .. k + 1
      OBVIOUS
    <3>4. W[k + 1] = [x |-> x0 + sx * (k + 1), y |-> y0 + sy * (j + 1),
                      error |-> dx - dy - ((k + 1) * dy - (j + 1) * dx)]
      BY <2>3, <2>8, <3>1, <3>2, Zenon
    <3>5. /\ -dx <= 2 * ((k + 1) * dy - (j + 1) * dx)
          /\ 2 * ((k + 1) * dy - (j + 1) * dx) <= dx
      BY <2>4, <2>9, Zenon
    <3> QED
      BY <3>3, <3>4, <3>5, Zenon
  <2>10. CASE ~(2 * (a + dy) >= dx)
    <3>1. W[k + 1] = [x |-> W[k].x + sx, y |-> W[k].y, error |-> W[k].error + (-dy) + 0]
      BY <2>5, <2>6, <2>7, <2>10 DEF Screen!Advance
    <3>2. W[k].error + (-dy) + 0 = dx - dy - ((k + 1) * dy - j * dx)
      BY <1>1, <2>3, <2>4, <2>10
    <3>3. j \in 0 .. k + 1
      OBVIOUS
    <3>4. W[k + 1] = [x |-> x0 + sx * (k + 1), y |-> y0 + sy * j,
                      error |-> dx - dy - ((k + 1) * dy - j * dx)]
      BY <2>3, <2>8, <3>1, <3>2, Zenon
    <3>5. /\ -dx <= 2 * ((k + 1) * dy - j * dx)
          /\ 2 * ((k + 1) * dy - j * dx) <= dx
      BY <2>4, <2>10, Zenon
    <3> QED
      BY <3>3, <3>4, <3>5, Zenon
  <2> QED
    BY <2>9, <2>10
<1>6. Nat \subseteq T
  <2> HIDE DEF Good
  <2>1. ASSUME NEW k \in Nat, k \in T PROVE k + 1 \in T
    <3> SUFFICES ASSUME k + 1 <= N PROVE \E i \in 0 .. k + 1 : Good(k + 1, i)
      OBVIOUS
    <3>1. k <= N
      BY <1>1
    <3>2. PICK j \in 0 .. k : Good(k, j)
      BY <2>1, <3>1, Zenon
    <3> QED
      BY <1>5, <3>2
  <2> HIDE DEF T
  <2> QED
    BY <1>4, <2>1, SetInduction
<1>7. ASSUME NEW k \in 0 .. dx
      PROVE  \E j \in 0 .. dy :
                /\ W[k].x = x0 + sx * k /\ W[k].y = y0 + sy * j
                /\ -dx <= 2 * (k * dy - j * dx) /\ 2 * (k * dy - j * dx) <= dx
                /\ k = dx => j = dy
  <2>1. k \in Nat /\ k <= N
    BY <1>1
  <2>2. PICK j \in 0 .. k : Good(k, j)
    BY <1>6, <2>1, Zenon
  <2>3. PICK a \in Int : a = k * dy - j * dx
    BY <1>1
  <2>4. -dx <= 2 * a /\ 2 * a <= dx
    BY <2>2, <2>3
  <2>5. j \in 0 .. dy /\ (k = dx => j = dy)
    <3>1. dx \in Nat /\ dy \in Nat /\ dy <= dx
      BY <1>1, <1>3
    <3> QED
      BY <3>1, <2>3, <2>4, BetweenTheEnds
  <2>6. W[k].x = x0 + sx * k /\ W[k].y = y0 + sy * j
    BY <2>2
  <2> QED
    BY <2>3, <2>4, <2>5, <2>6, Zenon
<1> QED
  BY <1>2, <1>7, Zenon DEF W, dx, dy, sx, sy

LEMMA SteepWalk ==
    ASSUME NEW start \in Points, NEW end \in Points,
           Screen!Absolute(end.y - start.y) >= Screen!Absolute(end.x - start.x)
    PROVE  LET W == Screen!Walk(start, end)
               dx == Screen!Absolute(end.x - start.x)
               dy == Screen!Absolute(end.y - start.y)
           IN  \A k \in 0 .. dy : \E j \in 0 .. dx :
                  /\ W[k].y = start.y + StepTowards(start.y, end.y) * k
                  /\ W[k].x = start.x + StepTowards(start.x, end.x) * j
                  /\ -dy <= 2 * (k * dx - j * dy) /\ 2 * (k * dx - j * dy) <= dy
                  /\ k = dy => j = dx
<1> DEFINE W == Screen!Walk(start, end)
           dx == Screen!Absolute(end.x - start.x)
           dy == Screen!Absolute(end.y - start.y)
           N == Screen!Steps(start, end)
           sx == StepTowards(start.x, end.x)
           sy == StepTowards(start.y, end.y)
<1>1. /\ dx \in Nat /\ dy \in Nat /\ N = dx + dy /\ W \in [0 .. N -> Walker]
      /\ W[0] = [x |-> start.x, y |-> start.y, error |-> dx + -dy]
      /\ \A n \in 1 .. N : W[n] = Screen!Advance(W[n - 1], end, dx, -dy, sx, sy)
  BY WalkSteps
<1>2. PICK x0 \in Int, y0 \in Int : x0 = start.x /\ y0 = start.y
  BY DEF Points
<1>3. sx \in Int /\ sy \in Int /\ dx <= dy
  BY DEF StepTowards
<1> HIDE DEF W, dx, dy, N, sx, sy
<1> DEFINE Good(k, j) ==
              /\ W[k] = [x |-> x0 + sx * j, y |-> y0 + sy * k, error |-> dx - dy + (k * dx - j * dy)]
              /\ -dy <= 2 * (k * dx - j * dy) /\ 2 * (k * dx - j * dy) <= dy
           T == {k \in Nat : k <= N => \E j \in 0 .. k : Good(k, j)}
<1>4. 0 \in T
  <2>1. Good(0, 0)
    <3>1. /\ x0 + sx * 0 = x0 /\ y0 + sy * 0 = y0 /\ 0 * dx - 0 * dy = 0
          /\ dx - dy + 0 = dx + -dy
      BY <1>1, <1>3
    <3> QED
      BY <1>1, <1>2, <3>1
  <2> HIDE DEF Good
  <2> QED
    BY <2>1
<1>5. ASSUME NEW k \in Nat, k + 1 <= N, NEW j \in 0 .. k, Good(k, j)
      PROVE  \E i \in 0 .. k + 1 : Good(k + 1, i)
  <2>1. PICK a \in Int : a = k * dx - j * dy
    BY <1>1
  <2>2. -dy <= 2 * a /\ 2 * a <= dy
    BY <1>5, <2>1
  <2>3. /\ W[k].x = x0 + sx * j /\ W[k].y = y0 + sy * k /\ W[k].error = dx - dy + a
    BY <1>5, <2>1
  <2>4. /\ 2 * a <= 2 * dy - dx
        /\ 2 * (a + dx) >= dy =>
              /\ a + dx - dy = (k + 1) * dx - (j + 1) * dy
              /\ -dy <= 2 * (a + dx - dy) /\ 2 * (a + dx - dy) <= dy
        /\ ~(2 * (a + dx) >= dy) =>
              /\ a + dx = (k + 1) * dx - j * dy
              /\ -dy <= 2 * (a + dx) /\ 2 * (a + dx) <= dy
    <3>1. j \in Int
      OBVIOUS
    <3> QED
      BY <1>1, <1>3, <2>1, <2>2, <3>1, HalfAPixel
  <2>5. W[k + 1] = Screen!Advance(W[k], end, dx, -dy, sx, sy)
    <3>1. k + 1 \in 1 .. N /\ (k + 1) - 1 = k
      BY <1>1, <1>5
    <3> QED
      BY <1>1, <3>1
  <2>6. 2 * W[k].error <= dx
    BY <1>1, <2>3, <2>4
  <2>7. 2 * W[k].error >= -dy <=> 2 * (a + dx) >= dy
    BY <1>1, <2>3
  <2>8. (x0 + sx * j) + sx = x0 + sx * (j + 1) /\ (y0 + sy * k) + sy = y0 + sy * (k + 1)
    BY <1>3
  <2>9. CASE 2 * (a + dx) >= dy
    <3>1. W[k + 1] = [x |-> W[k].x + sx, y |-> W[k].y + sy, error |-> W[k].error + (-dy) + dx]
      BY <2>5, <2>6, <2>7, <2>9 DEF Screen!Advance
    <3>2. W[k].error + (-dy) + dx = dx - dy + ((k + 1) * dx - (j + 1) * dy)
      BY <1>1, <2>3, <2>4, <2>9
    <3>3. j + 1 \in 0 .. k + 1
      OBVIOUS
    <3>4. W[k + 1] = [x |-> x0 + sx * (j + 1), y |-> y0 + sy * (k + 1),
                      error |-> dx - dy + ((k + 1) * dx - (j + 1) * dy)]
      BY <2>3, <2>8, <3>1, <3>2, Zenon
    <3>5. /\ -dy <= 2 * ((k + 1) * dx - (j + 1) * dy)
          /\ 2 * ((k + 1) * dx - (j + 1) * dy) <= dy
      BY <2>4, <2>9, Zenon
    <3> QED
      BY <3>3, <3>4, <3>5, Zenon
  <2>10. CASE ~(2 * (a + dx) >= dy)
    <3>1. W[k + 1] = [x |-> W[k].x, y |-> W[k].y + sy, error |-> W[k].error + 0 + dx]
      BY <2>5, <2>6, <2>7, <2>10 DEF Screen!Advance
    <3>2. W[k].error + 0 + dx = dx - dy + ((k + 1) * dx - j * dy)
      BY <1>1, <2>3, <2>4, <2>10
    <3>3. j \in 0 .. k + 1
      OBVIOUS
    <3>4. W[k + 1] = [x |-> x0 + sx * j, y |-> y0 + sy * (k + 1),
                      error |-> dx - dy + ((k + 1) * dx - j * dy)]
      BY <2>3, <2>8, <3>1, <3>2, Zenon
    <3>5. /\ -dy <= 2 * ((k + 1) * dx - j * dy)
          /\ 2 * ((k + 1) * dx - j * dy) <= dy
      BY <2>4, <2>10, Zenon
    <3> QED
      BY <3>3, <3>4, <3>5, Zenon
  <2> QED
    BY <2>9, <2>10
<1>6. Nat \subseteq T
  <2> HIDE DEF Good
  <2>1. ASSUME NEW k \in Nat, k \in T PROVE k + 1 \in T
    <3> SUFFICES ASSUME k + 1 <= N PROVE \E i \in 0 .. k + 1 : Good(k + 1, i)
      OBVIOUS
    <3>1. k <= N
      BY <1>1
    <3>2. PICK j \in 0 .. k : Good(k, j)
      BY <2>1, <3>1, Zenon
    <3> QED
      BY <1>5, <3>2
  <2> HIDE DEF T
  <2> QED
    BY <1>4, <2>1, SetInduction
<1>7. ASSUME NEW k \in 0 .. dy
      PROVE  \E j \in 0 .. dx :
                /\ W[k].y = y0 + sy * k /\ W[k].x = x0 + sx * j
                /\ -dy <= 2 * (k * dx - j * dy) /\ 2 * (k * dx - j * dy) <= dy
                /\ k = dy => j = dx
  <2>1. k \in Nat /\ k <= N
    BY <1>1
  <2>2. PICK j \in 0 .. k : Good(k, j)
    BY <1>6, <2>1, Zenon
  <2>3. PICK a \in Int : a = k * dx - j * dy
    BY <1>1
  <2>4. -dy <= 2 * a /\ 2 * a <= dy
    BY <2>2, <2>3
  <2>5. j \in 0 .. dx /\ (k = dy => j = dx)
    <3>1. dx \in Nat /\ dy \in Nat /\ dx <= dy
      BY <1>1, <1>3
    <3> QED
      BY <3>1, <2>3, <2>4, BetweenTheEnds
  <2>6. W[k].y = y0 + sy * k /\ W[k].x = x0 + sx * j
    BY <2>2
  <2> QED
    BY <2>3, <2>4, <2>5, <2>6, Zenon
<1> QED
  BY <1>2, <1>7, Zenon DEF W, dx, dy, sx, sy

(***************************************************************************)
(* The points of a line are those of the first steps, one for each, up to  *)
(* the step that reaches the end.                                          *)
(***************************************************************************)
Spotted(start, end, k) ==
    Screen!Point(Screen!Walk(start, end)[k].x, Screen!Walk(start, end)[k].y)

LongerSide(start, end) ==
    Screen!Greatest(Screen!Absolute(end.x - start.x), Screen!Absolute(end.y - start.y))

LEMMA WalkEnds ==
    ASSUME NEW start \in Points, NEW end \in Points
    PROVE  LET long == LongerSide(start, end) IN
           /\ long \in 0 .. Screen!Steps(start, end)
           /\ \A k \in 0 .. long : Spotted(start, end, k) \in Points
           /\ \A k, l \in 0 .. long : Spotted(start, end, k) = Spotted(start, end, l) => k = l
           /\ Spotted(start, end, long) = end
<1> DEFINE W == Screen!Walk(start, end)
           dx == Screen!Absolute(end.x - start.x)
           dy == Screen!Absolute(end.y - start.y)
           sx == StepTowards(start.x, end.x)
           sy == StepTowards(start.y, end.y)
           long == LongerSide(start, end)
<1>1. PICK x0 \in Int, y0 \in Int, x1 \in Int, y1 \in Int :
         start = [x |-> x0, y |-> y0] /\ end = [x |-> x1, y |-> y1]
  BY DEF Points
<1>2. /\ dx \in Nat /\ dy \in Nat /\ sx \in {1, -1} /\ sy \in {1, -1}
      /\ x0 + sx * dx = x1 /\ y0 + sy * dy = y1
      /\ start.x = x0 /\ start.y = y0
  <2>1. start.x = x0 /\ start.y = y0 /\ end.x = x1 /\ end.y = y1
    BY <1>1
  <2>2. /\ dx \in Nat /\ sx \in {1, -1} /\ x0 + sx * dx = x1
    BY <2>1 DEF Screen!Absolute, StepTowards
  <2>3. /\ dy \in Nat /\ sy \in {1, -1} /\ y0 + sy * dy = y1
    BY <2>1 DEF Screen!Absolute, StepTowards
  <2> QED
    BY <2>1, <2>2, <2>3
<1>3. Screen!Steps(start, end) = dx + dy
  BY WalkSteps
<1>4. \A k : Spotted(start, end, k) = [x |-> W[k].x, y |-> W[k].y]
  BY DEF Spotted, Screen!Point
<1>5. CASE dx >= dy
  <2>1. long = dx
    BY <1>2, <1>5 DEF LongerSide, Screen!Greatest
  <2>2. \A k \in 0 .. dx : \E j \in 0 .. dy :
           W[k].x = x0 + sx * k /\ W[k].y = y0 + sy * j /\ (k = dx => j = dy)
    BY <1>2, <1>5, FlatWalk
  <2> HIDE DEF W, dx, dy, sx, sy
  <2>3. \A k \in 0 .. dx : W[k].x = x0 + sx * k /\ W[k].y \in Int
    BY <1>2, <2>2
  <2>4. W[dx].y = y0 + sy * dy
    <3>1. dx \in 0 .. dx
      BY <1>2
    <3> QED
      BY <2>2, <3>1
  <2>5. \A k \in 0 .. dx : [x |-> W[k].x, y |-> W[k].y] \in Points
    BY <1>2, <2>3 DEF Points
  <2>6. ASSUME NEW k \in 0 .. dx, NEW l \in 0 .. dx,
               [x |-> W[k].x, y |-> W[k].y] = [x |-> W[l].x, y |-> W[l].y]
        PROVE  k = l
    <3>1. W[k].x = W[l].x
      BY <2>6
    <3>2. x0 + sx * k = x0 + sx * l
      BY <2>3, <3>1
    <3> QED
      BY <1>2, <3>2
  <2>7. [x |-> W[dx].x, y |-> W[dx].y] = end
    <3>1. W[dx].x = x0 + sx * dx
      BY <1>2, <2>3
    <3> QED
      BY <1>1, <1>2, <2>4, <3>1, Zenon
  <2>8. dx \in 0 .. dx + dy
    BY <1>2
  <2> QED
    BY <1>3, <1>4, <2>1, <2>5, <2>6, <2>7, <2>8
<1>6. CASE dy > dx
  <2>1. long = dy
    BY <1>2, <1>6 DEF LongerSide, Screen!Greatest
  <2>2. \A k \in 0 .. dy : \E j \in 0 .. dx :
           W[k].y = y0 + sy * k /\ W[k].x = x0 + sx * j /\ (k = dy => j = dx)
    <3>1. dy >= dx
      BY <1>2, <1>6
    <3> QED
      BY <1>2, <3>1, SteepWalk
  <2> HIDE DEF W, dx, dy, sx, sy
  <2>3. \A k \in 0 .. dy : W[k].y = y0 + sy * k /\ W[k].x \in Int
    BY <1>2, <2>2
  <2>4. W[dy].x = x0 + sx * dx
    <3>1. dy \in 0 .. dy
      BY <1>2
    <3> QED
      BY <2>2, <3>1
  <2>5. \A k \in 0 .. dy : [x |-> W[k].x, y |-> W[k].y] \in Points
    BY <1>2, <2>3 DEF Points
  <2>6. ASSUME NEW k \in 0 .. dy, NEW l \in 0 .. dy,
               [x |-> W[k].x, y |-> W[k].y] = [x |-> W[l].x, y |-> W[l].y]
        PROVE  k = l
    <3>1. W[k].y = W[l].y
      BY <2>6
    <3>2. y0 + sy * k = y0 + sy * l
      BY <2>3, <3>1
    <3> QED
      BY <1>2, <3>2
  <2>7. [x |-> W[dy].x, y |-> W[dy].y] = end
    <3>1. W[dy].y = y0 + sy * dy
      BY <1>2, <2>3
    <3> QED
      BY <1>1, <1>2, <2>4, <3>1, Zenon
  <2>8. dy \in 0 .. dx + dy
    BY <1>2
  <2> QED
    BY <1>3, <1>4, <2>1, <2>5, <2>6, <2>7, <2>8
<1> QED
  BY <1>2, <1>5, <1>6

LEMMA LinePoints ==
    ASSUME NEW start \in Points, NEW end \in Points, NEW on \in Nat, NEW off \in Nat
    PROVE  LET s == Screen!drawLine(start, end, on, off) IN
           /\ s \in Seq(Points) /\ Simple(s)
           /\ \A p : p \in Covered(s) <=>
                 \E k \in 0 .. LongerSide(start, end) :
                    Screen!patternDraws(on, off, k) /\ p = Spotted(start, end, k)
<1> DEFINE s == Screen!drawLine(start, end, on, off)
           Spot1(k) == Spotted(start, end, k)
           N == Screen!Steps(start, end)
           long == LongerSide(start, end)
           Arrived(n) == Spot1(n) = end /\ \A m \in 0 .. n - 1 : Spot1(m) # end
           last == CHOOSE n \in 0 .. N : Arrived(n)
           Drawn(k) == Screen!patternDraws(on, off, k)
           Piece(i) == IF Drawn(i - 1) THEN <<Spot1(i - 1)>> ELSE <<>>
           pieces == [i \in 1 .. last + 1 |-> Piece(i)]
<1>1. /\ long \in 0 .. N /\ N \in Nat
      /\ \A k \in 0 .. long : Spot1(k) \in Points
      /\ \A k, l \in 0 .. long : Spot1(k) = Spot1(l) => k = l
      /\ Spot1(long) = end
  <2>1. N \in Nat
    <3>1. PICK dx \in Nat, dy \in Nat : N = dx + dy
      BY WalkSteps
    <3> QED
      BY <3>1
  <2> QED
    BY <2>1, WalkEnds
<1>2. s = Screen!FlattenSeq(pieces)
  BY Zenon DEF Screen!drawLine, Spotted
<1> HIDE DEF s, Spot1, N, long, Drawn
<1>3. last = long
  <2>1. Arrived(long)
    BY <1>1
  <2>2. \A n \in 0 .. N : Arrived(n) => n = long
    <3> SUFFICES ASSUME NEW n \in 0 .. N, Arrived(n), n # long PROVE FALSE
      OBVIOUS
    <3>1. CASE n < long
      <4>1. n \in 0 .. long /\ long \in 0 .. long
        BY <1>1, <3>1
      <4> QED
        BY <1>1, <4>1
    <3>2. CASE n > long
      <4>1. long \in 0 .. n - 1
        BY <1>1, <3>2
      <4> QED
        BY <1>1, <4>1
    <3> QED
      BY <1>1, <3>1, <3>2
  <2> HIDE DEF Arrived
  <2> QED
    BY <1>1, <2>1, <2>2
<1> HIDE DEF last
<1>4. \A i \in 1 .. long + 1 : i - 1 \in 0 .. long
  BY <1>1
<1>5. \A i \in 1 .. long + 1 :
         /\ Piece(i) \in Seq(Points) /\ Simple(Piece(i))
         /\ \A p : p \in Covered(Piece(i)) <=> Drawn(i - 1) /\ p = Spot1(i - 1)
  <2> TAKE i \in 1 .. long + 1
  <2>1. Spot1(i - 1) \in Points
    BY <1>1, <1>4
  <2>2. CASE Drawn(i - 1)
    <3> DEFINE one == Spot1(i - 1)
    <3>1. Piece(i) = <<one>>
      BY <2>2
    <3> HIDE DEF one
    <3>2. DOMAIN <<one>> = {1} /\ <<one>>[1] = one
      OBVIOUS
    <3>3. <<one>> \in Seq(Points)
      BY <2>1 DEF one
    <3>4. Simple(<<one>>) /\ Covered(<<one>>) = {one}
      BY <3>2 DEF Simple, Covered
    <3> HIDE DEF Piece
    <3>5. \A p : p \in Covered(Piece(i)) <=> p = one
      BY <3>1, <3>4
    <3> QED
      BY <2>2, <3>1, <3>3, <3>4, <3>5 DEF one
  <2>3. CASE ~Drawn(i - 1)
    <3>1. Piece(i) = <<>>
      BY <2>3
    <3> HIDE DEF Piece
    <3> QED
      BY <2>3, <3>1, NothingDrawn
  <2> QED
    BY <2>2, <2>3
<1> HIDE DEF Piece
<1>6. /\ long + 1 \in Nat /\ pieces \in [1 .. long + 1 -> Seq(Points)]
      /\ \A i \in 1 .. long + 1 : pieces[i] = Piece(i)
  BY <1>1, <1>3, <1>5
<1> HIDE DEF pieces
<1>7. /\ s \in Seq(Points)
      /\ \A p : p \in Covered(s) <=> \E i \in 1 .. long + 1 : p \in Covered(pieces[i])
      /\ (/\ \A i \in 1 .. long + 1 : Simple(pieces[i])
          /\ \A i, j \in 1 .. long + 1 : i # j => Covered(pieces[i]) \cap Covered(pieces[j]) = {})
            => Simple(s)
  BY <1>2, <1>6, FlattenPoints
<1>8. Simple(s)
  <2>1. ASSUME NEW i \in 1 .. long + 1, NEW j \in 1 .. long + 1, i # j
        PROVE  Covered(pieces[i]) \cap Covered(pieces[j]) = {}
    <3> SUFFICES ASSUME NEW p, p \in Covered(Piece(i)), p \in Covered(Piece(j)) PROVE FALSE
      BY <1>6
    <3>1. p = Spot1(i - 1) /\ p = Spot1(j - 1)
      BY <1>5
    <3>2. i - 1 = j - 1
      BY <1>1, <1>4, <3>1
    <3> QED
      BY <1>1, <2>1, <3>2
  <2> QED
    BY <1>5, <1>6, <1>7, <2>1
<1>9. ASSUME NEW p
      PROVE  p \in Covered(s) <=> \E k \in 0 .. long : Drawn(k) /\ p = Spot1(k)
  <2>1. p \in Covered(s) <=> \E i \in 1 .. long + 1 : Drawn(i - 1) /\ p = Spot1(i - 1)
    BY <1>5, <1>6, <1>7
  <2>2. \A k \in 0 .. long : k + 1 \in 1 .. long + 1 /\ (k + 1) - 1 = k
    BY <1>1
  <2> QED
    BY <1>4, <2>1, <2>2
<1> QED
  BY <1>7, <1>8, <1>9, Zenon DEF s, Spot1, long, Drawn

LEMMA SignedSides ==
    ASSUME NEW x0 \in Int, NEW x1 \in Int
    PROVE  LET d == Screen!Absolute(x1 - x0)
               s == StepTowards(x0, x1)
               side == IF x1 - x0 < 0 THEN -1 ELSE 1
           IN  /\ d \in Nat /\ s \in {1, -1} /\ x1 - x0 = s * d
               /\ \A k \in 0 .. d : (s * k) * side = k
<1>1. CASE x0 < x1
  BY <1>1 DEF Screen!Absolute, StepTowards
<1>2. CASE x0 = x1
  BY <1>2 DEF Screen!Absolute, StepTowards
<1>3. CASE x0 > x1
  BY <1>3 DEF Screen!Absolute, StepTowards
<1> QED
  BY <1>1, <1>2, <1>3

LEMMA NearTheLine ==
    ASSUME NEW k \in Int, NEW j \in Int, NEW long \in Nat, NEW short \in Nat,
           NEW s \in {1, -1}, NEW t \in {1, -1},
           -long <= 2 * (k * short - j * long), 2 * (k * short - j * long) <= long
    PROVE  /\ 2 * Screen!Absolute((s * k) * (t * short) - (t * j) * (s * long)) <= long
           /\ 2 * Screen!Absolute((t * j) * (s * long) - (s * k) * (t * short)) <= long
<1>1. PICK p \in Int, q \in Int : p = k * short /\ q = j * long
  OBVIOUS
<1>2. /\ (s * k) * (t * short) = (s * t) * (k * short)
      /\ (t * j) * (s * long) = (s * t) * (j * long)
  OBVIOUS
<1>3. PICK u \in {1, -1} : u = s * t
  OBVIOUS
<1>4. /\ (s * k) * (t * short) = u * p
      /\ (t * j) * (s * long) = u * q
      /\ -long <= 2 * (p - q) /\ 2 * (p - q) <= long
  BY <1>1, <1>2, <1>3
<1>5. /\ 2 * Screen!Absolute(u * p - u * q) <= long
      /\ 2 * Screen!Absolute(u * q - u * p) <= long
  <2>1. CASE u = 1
    BY <1>4, <2>1 DEF Screen!Absolute
  <2>2. CASE u = -1
    BY <1>4, <2>2 DEF Screen!Absolute
  <2> QED
    BY <2>1, <2>2
<1> QED
  BY <1>4, <1>5

Lines == [kind : {"line"}, from : Points, to : Points, on : Nat, off : Nat]

LEMMA LineIsLine ==
    ASSUME NEW shape \in Lines
    PROVE  Screen!IsLine(shape, Covered(Screen!drawLine(shape.from, shape.to, shape.on, shape.off)))
<1> DEFINE area == Covered(Screen!drawLine(shape.from, shape.to, shape.on, shape.off))
           start == shape.from
           end == shape.to
           W == Screen!Walk(start, end)
           dx == Screen!Absolute(end.x - start.x)
           dy == Screen!Absolute(end.y - start.y)
           sx == StepTowards(start.x, end.x)
           sy == StepTowards(start.y, end.y)
           sideX == IF end.x - start.x < 0 THEN -1 ELSE 1
           sideY == IF end.y - start.y < 0 THEN -1 ELSE 1
           long == LongerSide(start, end)
           Away(p) == (p.x - start.x) * (end.y - start.y) - (p.y - start.y) * (end.x - start.x)
           Along(p) == IF dx >= dy THEN (p.x - start.x) * sideX ELSE (p.y - start.y) * sideY
           Drawn(k) == Screen!patternDraws(shape.on, shape.off, k)
           Wanted == {k \in 0 .. long : Drawn(k)}
           Spot1(k) == Spotted(start, end, k)
<1>1. start \in Points /\ end \in Points /\ shape.on \in Nat /\ shape.off \in Nat
  BY DEF Lines
<1>2. \A p : p \in area <=> \E k \in 0 .. long : Drawn(k) /\ p = Spot1(k)
  BY <1>1, LinePoints
<1>3. PICK x0 \in Int, y0 \in Int, x1 \in Int, y1 \in Int :
         start.x = x0 /\ start.y = y0 /\ end.x = x1 /\ end.y = y1
  BY <1>1 DEF Points
<1>4. /\ dx \in Nat /\ sx \in {1, -1} /\ x1 - x0 = sx * dx
      /\ \A k \in 0 .. dx : (sx * k) * sideX = k
  BY <1>3, SignedSides
<1>5. /\ dy \in Nat /\ sy \in {1, -1} /\ y1 - y0 = sy * dy
      /\ \A k \in 0 .. dy : (sy * k) * sideY = k
  BY <1>3, SignedSides
<1>6. ASSUME NEW k \in 0 .. long
      PROVE  2 * Screen!Absolute(Away(Spot1(k))) <= long /\ Along(Spot1(k)) = k
  <2>1. Spot1(k).x = W[k].x /\ Spot1(k).y = W[k].y
    BY DEF Spotted, Screen!Point
  <2>2. CASE dx >= dy
    <3>1. long = dx
      BY <1>4, <1>5, <2>2 DEF LongerSide, Screen!Greatest
    <3>2. PICK j \in 0 .. dy :
             /\ W[k].x = start.x + sx * k /\ W[k].y = start.y + sy * j
             /\ -dx <= 2 * (k * dy - j * dx) /\ 2 * (k * dy - j * dx) <= dx
      BY <1>1, <2>2, <3>1, FlatWalk
    <3> HIDE DEF W, dx, dy, sx, sy, sideX, sideY, long, Spot1
    <3>3. Spot1(k).x - start.x = sx * k /\ Spot1(k).y - start.y = sy * j
      <4>1. sx * k \in Int /\ sy * j \in Int
        BY <1>4, <1>5, <3>1
      <4> QED
        BY <1>3, <2>1, <3>2, <4>1
    <3>4. 2 * Screen!Absolute((sx * k) * (sy * dy) - (sy * j) * (sx * dx)) <= dx
      <4>1. k \in Int /\ j \in Int
        BY <1>4, <1>5, <3>1
      <4> QED
        BY <1>4, <1>5, <3>2, <4>1, NearTheLine
    <3>5. Away(Spot1(k)) = (sx * k) * (sy * dy) - (sy * j) * (sx * dx)
      BY <1>3, <1>4, <1>5, <3>3
    <3>6. Along(Spot1(k)) = (sx * k) * sideX
      BY <2>2, <3>3
    <3> HIDE DEF Away, Along
    <3>7. (sx * k) * sideX = k
      BY <1>4, <3>1
    <3> QED
      BY <3>1, <3>4, <3>5, <3>6, <3>7
  <2>3. CASE dy > dx
    <3>1. long = dy /\ dy >= dx /\ ~(dx >= dy)
      BY <1>4, <1>5, <2>3 DEF LongerSide, Screen!Greatest
    <3>2. PICK j \in 0 .. dx :
             /\ W[k].y = start.y + sy * k /\ W[k].x = start.x + sx * j
             /\ -dy <= 2 * (k * dx - j * dy) /\ 2 * (k * dx - j * dy) <= dy
      BY <1>1, <3>1, SteepWalk
    <3> HIDE DEF W, dx, dy, sx, sy, sideX, sideY, long, Spot1
    <3>3. Spot1(k).y - start.y = sy * k /\ Spot1(k).x - start.x = sx * j
      <4>1. sy * k \in Int /\ sx * j \in Int
        BY <1>4, <1>5, <3>1
      <4> QED
        BY <1>3, <2>1, <3>2, <4>1
    <3>4. 2 * Screen!Absolute((sx * j) * (sy * dy) - (sy * k) * (sx * dx)) <= dy
      <4>1. k \in Int /\ j \in Int
        BY <1>4, <1>5, <3>1
      <4> QED
        BY <1>4, <1>5, <3>2, <4>1, NearTheLine
    <3>5. Away(Spot1(k)) = (sx * j) * (sy * dy) - (sy * k) * (sx * dx)
      BY <1>3, <1>4, <1>5, <3>3
    <3>6. Along(Spot1(k)) = (sy * k) * sideY
      BY <3>1, <3>3
    <3> HIDE DEF Away, Along
    <3>7. (sy * k) * sideY = k
      BY <1>5, <3>1
    <3> QED
      BY <3>1, <3>4, <3>5, <3>6, <3>7
  <2> QED
    BY <1>4, <1>5, <2>2, <2>3
<1> HIDE DEF Away, Along, Spot1, Drawn, long, area
<1>7. \A p \in area : 2 * Screen!Absolute(Away(p)) <= long
  BY <1>2, <1>6, Zenon
<1>8. {Along(p) : p \in area} = Wanted
  BY <1>2, <1>6
<1>9. \A p, q \in area : Along(p) = Along(q) => p = q
  <2> SUFFICES ASSUME NEW k \in 0 .. long, NEW l \in 0 .. long, Along(Spot1(k)) = Along(Spot1(l))
               PROVE  k = l
    BY <1>2
  <2> QED
    BY <1>6
<1>10. Wanted = {k \in 0 .. long : shape.on > 0
                   /\ (shape.off = 0 \/ k % (shape.on + shape.off) < shape.on)}
  BY <1>1 DEF Drawn, Screen!patternDraws
<1> HIDE DEF Wanted
<1>11. area = Covered(Screen!drawLine(shape.from, shape.to, shape.on, shape.off))
  BY DEF area
<1> QED
  BY <1>7, <1>8, <1>9, <1>10, <1>11, Zenon
  DEF Screen!IsLine, Screen!Flat, Away, Along, long, LongerSide

-----------------------------------------------------------------------------
(***************************************************************************)
(* Circles.  The error of a point of the arc tells how far the point is    *)
(* from the circle, and the next one goes inwards just when it is needed.  *)
(***************************************************************************)
NextOnArc(w, n) ==
    IF w.error < 0
    THEN [x |-> w.x, y |-> n, error |-> w.error + 2 * n + 1]
    ELSE [x |-> w.x - 1, y |-> n, error |-> w.error + 2 * (n - w.x + 1) + 1]

LEMMA ArcSteps ==
    ASSUME NEW r \in Nat
    PROVE  /\ Screen!Arc(r) \in [0 .. r -> Walker]
           /\ Screen!Arc(r)[0] = [x |-> r, y |-> 0, error |-> 1 - r]
           /\ \A n \in 1 .. r : Screen!Arc(r)[n] = NextOnArc(Screen!Arc(r)[n - 1], n)
<1> DEFINE A == Screen!Arc(r)
           Ahead(was, n) ==
               IF was.error < 0
               THEN [was EXCEPT !.y = n, !.error = @ + 2 * n + 1]
               ELSE [x |-> was.x - 1, y |-> n, error |-> was.error + 2 * (n - was.x + 1) + 1]
           base == [x |-> r, y |-> 0, error |-> 1 - r]
           Equation(h) == h = [n \in 0 .. r |-> IF n = 0 THEN base ELSE Ahead(h[n - 1], n)]
           step == [n \in 1 .. r |-> [w \in Walker |-> NextOnArc(w, n)]]
<1>2. A = CHOOSE h : Equation(h)
  BY Zenon DEF Screen!Arc
<1> HIDE DEF A
<1>3. base \in Walker
  BY DEF Walker
<1>4. ASSUME NEW w \in Walker, NEW n \in 1 .. r
      PROVE  NextOnArc(w, n) \in Walker /\ Ahead(w, n) = NextOnArc(w, n)
  <2>1. PICK x \in Int, y \in Int, e \in Int : w = [x |-> x, y |-> y, error |-> e]
    BY DEF Walker
  <2>2. w.x = x /\ w.y = y /\ w.error = e
    BY <2>1
  <2>3. [w EXCEPT !.y = n, !.error = @ + 2 * n + 1] = [x |-> x, y |-> n, error |-> e + 2 * n + 1]
    <3>1. PICK later : later = e + 2 * n + 1
      OBVIOUS
    <3>2. w.error + 2 * n + 1 = later
      BY <2>2, <3>1
    <3>3. [w EXCEPT !.y = n] = [x |-> x, y |-> n, error |-> e]
      BY <2>1
    <3>4. PICK g : g = [w EXCEPT !.y = n]
      OBVIOUS
    <3>5. g = [x |-> x, y |-> n, error |-> e]
      BY <3>3, <3>4
    <3>6. [g EXCEPT !.error = later] = [x |-> x, y |-> n, error |-> later]
      BY <3>5
    <3> QED
      BY <3>1, <3>2, <3>4, <3>6, Zenon
  <2>4. x - 1 \in Int /\ e + 2 * n + 1 \in Int /\ e + 2 * (n - x + 1) + 1 \in Int /\ n \in Int
    OBVIOUS
  <2>5. Ahead(w, n) = NextOnArc(w, n)
    BY <2>2, <2>3 DEF NextOnArc
  <2>6. NextOnArc(w, n) \in Walker
    BY <2>2, <2>4 DEF NextOnArc, Walker
  <2> QED
    BY <2>5, <2>6
<1> HIDE DEF Ahead, base
<1>5. step \in [1 .. r -> [Walker -> Walker]]
  BY <1>4
<1>6. \A n \in 1 .. r, w \in Walker : step[n][w] = Ahead(w, n)
  BY <1>4
<1> HIDE DEF step
<1>7. \E f : Equation(f)
  <2>1. Iterates(Walker, r, base, step) # {}
    BY <1>3, <1>5, RecursionExists
  <2>2. PICK f : f \in Iterates(Walker, r, base, step)
    BY <2>1
  <2>3. /\ f \in [0 .. r -> Walker] /\ f[0] = base
        /\ \A n \in 1 .. r : f[n] = step[n][f[n - 1]]
    BY <2>2, Zenon DEF Iterates
  <2>4. \A n \in 0 .. r : f[n] = IF n = 0 THEN base ELSE Ahead(f[n - 1], n)
    <3>0. \A n \in 0 .. r : n = 0 \/ (n \in 1 .. r /\ n # 0)
      OBVIOUS
    <3> SUFFICES ASSUME NEW n \in 1 .. r PROVE f[n] = Ahead(f[n - 1], n)
      BY <2>3, <3>0
    <3>1. f[n - 1] \in Walker
      BY <2>3
    <3> QED
      BY <1>6, <2>3, <3>1
  <2>5. Equation(f)
    BY <2>3, <2>4
  <2> QED
    BY <2>5, Zenon
<1>8. Equation(A)
  BY <1>2, <1>7, Zenon
<1>9. A[0] = base /\ \A n \in 1 .. r : A[n] = Ahead(A[n - 1], n)
  BY <1>8
<1> DEFINE T == {n \in Nat : n <= r => A[n] \in Walker}
<1>10. Nat \subseteq T
  <2>1. 0 \in T
    BY <1>3, <1>9
  <2>2. ASSUME NEW n \in Nat, n \in T PROVE n + 1 \in T
    <3> SUFFICES ASSUME n + 1 <= r PROVE A[n + 1] \in Walker
      OBVIOUS
    <3>1. n + 1 \in 1 .. r /\ (n + 1) - 1 = n /\ A[n] \in Walker
      BY <2>2
    <3>2. A[n + 1] = Ahead(A[n], n + 1)
      BY <1>9, <3>1
    <3> QED
      BY <1>4, <3>1, <3>2
  <2> HIDE DEF T
  <2> QED
    BY <2>1, <2>2, SetInduction
<1>11. A \in [0 .. r -> Walker]
  <2>1. \A n \in 0 .. r : A[n] \in Walker
    BY <1>10
  <2>2. A = [n \in 0 .. r |-> A[n]]
    BY <1>8
  <2> QED
    BY <2>1, <2>2
<1>12. \A n \in 1 .. r : A[n] = NextOnArc(A[n - 1], n)
  <2> SUFFICES ASSUME NEW n \in 1 .. r PROVE A[n] = NextOnArc(A[n - 1], n)
    OBVIOUS
  <2>1. A[n - 1] \in Walker
    BY <1>11
  <2> QED
    BY <1>4, <1>9, <2>1
<1> QED
  BY <1>9, <1>11, <1>12, Zenon DEF A, base

(***************************************************************************)
(* One step of the arc, from (x, n) with e = x^2 + n^2 - r^2.              *)
(***************************************************************************)
LEMMA ArcStep ==
    ASSUME NEW r \in Nat, NEW n \in Nat, NEW x \in Int, NEW error \in Int,
           error = (x * x + n * n - r * r) + 2 * n + 1 - x
    PROVE  /\ error + 2 * (n + 1) + 1
                 = (x * x + (n + 1) * (n + 1) - r * r) + 2 * (n + 1) + 1 - x
           /\ error + 2 * ((n + 1) - x + 1) + 1
                 = ((x - 1) * (x - 1) + (n + 1) * (n + 1) - r * r) + 2 * (n + 1) + 1 - (x - 1)
           /\ (/\ n <= x /\ -x <= x * x + n * n - r * r /\ x * x + n * n - r * r <= x) =>
              /\ error < 0 => /\ -x <= x * x + (n + 1) * (n + 1) - r * r
                              /\ x * x + (n + 1) * (n + 1) - r * r <= x
              /\ error >= 0 /\ n + 1 <= x - 1 =>
                    /\ -(x - 1) <= (x - 1) * (x - 1) + (n + 1) * (n + 1) - r * r
                    /\ (x - 1) * (x - 1) + (n + 1) * (n + 1) - r * r <= x - 1
<1>1. /\ (n + 1) * (n + 1) = n * n + 2 * n + 1
      /\ (x - 1) * (x - 1) = x * x - 2 * x + 1
  OBVIOUS
<1>2. PICK nn \in Int, xx \in Int, rr \in Int : nn = n * n /\ xx = x * x /\ rr = r * r
  OBVIOUS
<1> QED
  BY <1>1, <1>2

(***************************************************************************)
(* The octant of radius r: on every row from 0 to m one point (X[n], n),   *)
(* not above the diagonal and within half a pixel of the circle; and every *)
(* column from the diagonal to r has a point from which the arc went on    *)
(* inwards, because the one above it was too far outside.                  *)
(***************************************************************************)
IsOctant(r, m, X) ==
    /\ m \in 0 .. r /\ X \in [0 .. m -> Int]
    /\ \A n \in 0 .. m : /\ n <= X[n] /\ X[n] <= r
                         /\ -X[n] <= X[n] * X[n] + n * n - r * r
                         /\ X[n] * X[n] + n * n - r * r <= X[n]
    /\ \A v \in m + 1 .. r : \E n \in 0 .. m :
          X[n] = v /\ v * v + (n + 1) * (n + 1) >= r * r + v

LEMMA OctantPoints ==
    ASSUME NEW r \in Nat
    PROVE  \E m, X : /\ IsOctant(r, m, X)
                     /\ DOMAIN Screen!Octant(r) = 1 .. m + 1
                     /\ \A i \in 1 .. m + 1 : /\ Screen!Octant(r)[i].x = X[i - 1]
                                              /\ Screen!Octant(r)[i].y = i - 1
<1> DEFINE A == Screen!Arc(r)
           x(n) == A[n].x
           error(n) == A[n].error
           E(n) == x(n) * x(n) + n * n - r * r
<1>1. /\ A \in [0 .. r -> Walker] /\ A[0] = [x |-> r, y |-> 0, error |-> 1 - r]
      /\ \A n \in 1 .. r : A[n] = NextOnArc(A[n - 1], n)
  BY ArcSteps
<1>2. Screen!Octant(r) =
         LET last == CHOOSE n \in 0 .. r : A[n].x >= n /\ (n < r => A[n + 1].x < n + 1)
         IN  [i \in 1 .. last + 1 |-> A[i - 1]]
  BY Zenon DEF Screen!Octant
<1> HIDE DEF A
<1>3. \A n \in 0 .. r : x(n) \in Int /\ error(n) \in Int
  BY <1>1 DEF Walker
<1>4. ASSUME NEW n \in Nat, n + 1 <= r
      PROVE  /\ A[n + 1].y = n + 1
             /\ error(n) < 0 => /\ x(n + 1) = x(n)
                                /\ error(n + 1) = error(n) + 2 * (n + 1) + 1
             /\ error(n) >= 0 => /\ x(n + 1) = x(n) - 1
                                 /\ error(n + 1) = error(n) + 2 * ((n + 1) - x(n) + 1) + 1
  <2>1. n + 1 \in 1 .. r /\ (n + 1) - 1 = n /\ n \in 0 .. r
    BY <1>4
  <2>2. A[n + 1] = NextOnArc(A[n], n + 1)
    BY <1>1, <2>1
  <2>3. error(n) \in Int
    BY <1>3, <2>1
  <2> QED
    BY <2>2, <2>3 DEF NextOnArc
<1> DEFINE Good(n) == /\ A[n].y = n /\ x(n) <= r
                      /\ error(n) = E(n) + 2 * n + 1 - x(n)
                      /\ n <= x(n) => -x(n) <= E(n) /\ E(n) <= x(n)
           T == {n \in Nat : n <= r => Good(n)}
<1>5. 0 \in T
  <2>1. x(0) = r /\ A[0].y = 0 /\ error(0) = 1 - r
    BY <1>1
  <2>2. E(0) = 0
    BY <2>1
  <2> QED
    BY <2>1, <2>2
<1>6. ASSUME NEW n \in Nat, n + 1 <= r, Good(n) PROVE Good(n + 1)
  <2>1. PICK u \in Int, d \in Int : u = x(n) /\ d = error(n)
    <3>1. n \in 0 .. r
      BY <1>6
    <3> QED
      BY <1>3, <3>1
  <2>2. d = (u * u + n * n - r * r) + 2 * n + 1 - u
    BY <1>6, <2>1
  <2>3. /\ d + 2 * (n + 1) + 1
              = (u * u + (n + 1) * (n + 1) - r * r) + 2 * (n + 1) + 1 - u
        /\ d + 2 * ((n + 1) - u + 1) + 1
              = ((u - 1) * (u - 1) + (n + 1) * (n + 1) - r * r) + 2 * (n + 1) + 1 - (u - 1)
        /\ (/\ n <= u /\ -u <= u * u + n * n - r * r /\ u * u + n * n - r * r <= u) =>
              /\ d < 0 => /\ -u <= u * u + (n + 1) * (n + 1) - r * r
                          /\ u * u + (n + 1) * (n + 1) - r * r <= u
              /\ d >= 0 /\ n + 1 <= u - 1 =>
                    /\ -(u - 1) <= (u - 1) * (u - 1) + (n + 1) * (n + 1) - r * r
                    /\ (u - 1) * (u - 1) + (n + 1) * (n + 1) - r * r <= u - 1
    BY <2>2, ArcStep
  <2>4. u <= r /\ (n <= u => -u <= u * u + n * n - r * r /\ u * u + n * n - r * r <= u)
    BY <1>6, <2>1
  <2> HIDE DEF x, error, E
  <2>5. CASE d < 0
    <3>1. /\ A[n + 1].y = n + 1 /\ x(n + 1) = u /\ error(n + 1) = d + 2 * (n + 1) + 1
      BY <1>4, <1>6, <2>1, <2>5
    <3>2. E(n + 1) = u * u + (n + 1) * (n + 1) - r * r
      BY <3>1 DEF E
    <3>3. n + 1 <= u => n <= u
      OBVIOUS
    <3> QED
      BY <2>3, <2>4, <2>5, <3>1, <3>2, <3>3
  <2>6. CASE d >= 0
    <3>1. /\ A[n + 1].y = n + 1 /\ x(n + 1) = u - 1
          /\ error(n + 1) = d + 2 * ((n + 1) - u + 1) + 1
      BY <1>4, <1>6, <2>1, <2>6
    <3>2. E(n + 1) = (u - 1) * (u - 1) + (n + 1) * (n + 1) - r * r
      BY <3>1 DEF E
    <3>3. (n + 1 <= u - 1 => n <= u) /\ u - 1 <= r
      BY <2>4
    <3> QED
      BY <2>3, <2>4, <2>6, <3>1, <3>2, <3>3
  <2> QED
    BY <2>5, <2>6
<1>7. \A n \in 0 .. r : Good(n)
  <2> HIDE DEF Good
  <2>1. ASSUME NEW n \in Nat, n \in T PROVE n + 1 \in T
    <3> SUFFICES ASSUME n + 1 <= r PROVE Good(n + 1)
      OBVIOUS
    <3>1. Good(n)
      BY <2>1
    <3> QED
      BY <1>6, <3>1
  <2>2. Nat \subseteq T
    <3> HIDE DEF T
    <3> QED
      BY <1>5, <2>1, SetInduction
  <2> QED
    BY <2>2
<1>8. \A n \in Nat : n + 1 <= r => x(n + 1) \in {x(n), x(n) - 1} /\ x(n + 1) <= x(n)
  <2> SUFFICES ASSUME NEW n \in Nat, n + 1 <= r
               PROVE  x(n + 1) \in {x(n), x(n) - 1} /\ x(n + 1) <= x(n)
    OBVIOUS
  <2>1. x(n) \in Int /\ error(n) \in Int
    BY <1>3
  <2> HIDE DEF x, error
  <2> QED
    BY <1>4, <2>1
<1> HIDE DEF x, error
<1> DEFINE Ends(n) == x(n) >= n /\ (n < r => x(n + 1) < n + 1)
           m == CHOOSE n \in 0 .. r : Ends(n)
           X == [n \in 0 .. m |-> x(n)]
<1>9. m \in 0 .. r /\ Ends(m)
  <2> DEFINE Inner == {n \in 0 .. r : x(n) >= n}
  <2>1. 0 \in Inner
    BY <1>1 DEF x
  <2>2. \E n \in Inner : \A k \in Inner : k <= n
    <3>1. Inner \subseteq Int /\ (\A k \in Inner : k <= r) /\ Inner # {} /\ r \in Int
      BY <2>1
    <3> HIDE DEF Inner
    <3> QED
      BY <3>1, GreatestElement
  <2>3. PICK n \in Inner : \A k \in Inner : k <= n
    BY <2>2
  <2>4. Ends(n)
    <3> SUFFICES ASSUME n < r, ~(x(n + 1) < n + 1) PROVE FALSE
      BY <2>3
    <3>1. n + 1 \in 0 .. r /\ x(n + 1) \in Int
      BY <1>3 DEF x
    <3>2. n + 1 \in Inner
      BY <3>1
    <3> QED
      BY <2>3, <3>2
  <2> HIDE DEF Ends
  <2> QED
    BY <2>3, <2>4
<1>10. /\ DOMAIN Screen!Octant(r) = 1 .. m + 1
       /\ \A i \in 1 .. m + 1 : Screen!Octant(r)[i] = A[i - 1]
  <2>1. Screen!Octant(r) = [i \in 1 .. m + 1 |-> A[i - 1]]
    BY <1>2, Zenon DEF x
  <2> HIDE DEF m
  <2> QED
    BY <2>1
<1> HIDE DEF m
<1>11. \A n \in 0 .. m : n \in 0 .. r /\ n \in Nat /\ X[n] = x(n) /\ x(n) \in Int
  BY <1>3, <1>9 DEF x
<1>12. \A i \in 1 .. m + 1 : /\ Screen!Octant(r)[i].x = X[i - 1]
                             /\ Screen!Octant(r)[i].y = i - 1
  <2> TAKE i \in 1 .. m + 1
  <2>1. i - 1 \in 0 .. m
    BY <1>9
  <2> QED
    BY <1>7, <1>10, <1>11, <2>1 DEF x
<1>13. \A n \in 0 .. m : x(m) <= x(n)
  <2> DEFINE U == {k \in Nat : k <= m => x(m) <= x(m - k)}
  <2>1. 0 \in U
    BY <1>9, <1>11
  <2>2. ASSUME NEW k \in Nat, k \in U PROVE k + 1 \in U
    <3> SUFFICES ASSUME k + 1 <= m PROVE x(m) <= x(m - (k + 1))
      OBVIOUS
    <3>1. /\ m - (k + 1) \in Nat /\ (m - (k + 1)) + 1 = m - k /\ (m - (k + 1)) + 1 <= r
          /\ m \in 0 .. m /\ m - k \in 0 .. m /\ m - (k + 1) \in 0 .. m
      BY <1>9
    <3>2. x(m - k) <= x(m - (k + 1))
      BY <1>8, <3>1
    <3>3. x(m) <= x(m - k)
      BY <1>9, <2>2
    <3>4. x(m) \in Int /\ x(m - k) \in Int /\ x(m - (k + 1)) \in Int
      BY <1>11, <3>1
    <3> QED
      BY <3>2, <3>3, <3>4
  <2>3. Nat \subseteq U
    <3> HIDE DEF U
    <3> QED
      BY <2>1, <2>2, SetInduction
  <2>4. \A n \in 0 .. m : m - n \in Nat /\ m - (m - n) = n /\ m - n <= m
    BY <1>9
  <2> QED
    BY <2>3, <2>4
<1>14. \A n \in 0 .. m : n <= x(n)
  <2> TAKE n \in 0 .. m
  <2>1. n <= m /\ m <= x(m) /\ x(m) <= x(n) /\ m \in 0 .. m
    BY <1>9, <1>13
  <2>2. x(m) \in Int /\ x(n) \in Int
    BY <1>11, <2>1
  <2> QED
    BY <1>9, <2>1, <2>2
<1>15. ASSUME NEW v \in m + 1 .. r
       PROVE  \E n \in 0 .. m : x(n) = v /\ error(n) >= 0
  <2> DEFINE Outer == {n \in 0 .. m : x(n) >= v}
  <2>1. 0 \in Outer
    BY <1>1, <1>9 DEF x
  <2>2. \E n \in Outer : \A k \in Outer : k <= n
    <3>1. Outer \subseteq Int /\ (\A k \in Outer : k <= m) /\ Outer # {} /\ m \in Int
      BY <1>9, <2>1
    <3> HIDE DEF Outer
    <3> QED
      BY <3>1, GreatestElement
  <2>3. PICK n \in Outer : \A k \in Outer : k <= n
    BY <2>2
  <2>4. /\ n \in 0 .. m /\ n \in Nat /\ n + 1 <= r /\ n \in 0 .. r /\ n + 1 \in 0 .. r
        /\ x(n) >= v /\ v \in Int
    BY <1>9, <2>3
  <2>5. x(n) \in Int /\ x(n + 1) \in Int /\ error(n) \in Int
    BY <1>3, <2>4 DEF x, error
  <2>6. x(n + 1) < v
    <3>1. CASE n < m
      <4>1. n + 1 \in 0 .. m /\ ~(n + 1 <= n)
        BY <1>9, <2>4, <3>1
      <4> QED
        BY <2>3, <2>5, <4>1
    <3>2. CASE n = m
      <4>1. m < r /\ m + 1 <= v
        BY <1>9
      <4>2. x(m + 1) < m + 1
        BY <1>9, <4>1
      <4> QED
        BY <1>9, <2>5, <3>2, <4>1, <4>2
    <3> QED
      BY <1>9, <2>4, <3>1, <3>2
  <2>7. error(n) >= 0
    <3> SUFFICES ASSUME error(n) < 0 PROVE FALSE
      BY <2>5
    <3>1. x(n + 1) = x(n)
      BY <1>4, <2>4 DEF x, error
    <3> QED
      BY <2>4, <2>5, <2>6, <3>1
  <2>8. x(n) = v
    <3>1. x(n + 1) = x(n) - 1
      BY <1>4, <2>4, <2>7 DEF x, error
    <3> QED
      BY <2>4, <2>5, <2>6, <3>1
  <2> QED
    BY <2>4, <2>7, <2>8
<1>16. ASSUME NEW n \in 0 .. m
       PROVE  /\ n <= X[n] /\ X[n] <= r
              /\ -X[n] <= X[n] * X[n] + n * n - r * r
              /\ X[n] * X[n] + n * n - r * r <= X[n]
  <2>1. Good(n) /\ n <= x(n)
    BY <1>7, <1>11, <1>14 DEF x, error
  <2>2. X[n] = x(n)
    BY <1>11
  <2> HIDE DEF X
  <2> QED
    BY <2>1, <2>2, Zenon DEF x
<1>17. ASSUME NEW v \in m + 1 .. r
       PROVE  \E n \in 0 .. m : X[n] = v /\ v * v + (n + 1) * (n + 1) >= r * r + v
  <2>1. PICK n \in 0 .. m : x(n) = v /\ error(n) >= 0
    BY <1>15
  <2>2. error(n) = (v * v + n * n - r * r) + 2 * n + 1 - v
    <3>1. Good(n)
      BY <1>7, <1>11 DEF x, error
    <3> QED
      BY <2>1, <3>1, Zenon DEF x, error
  <2>3. X[n] = v /\ v \in Int /\ n \in Int
    BY <1>9, <1>11, <2>1
  <2>4. (n + 1) * (n + 1) = n * n + 2 * n + 1
    BY <2>3
  <2>5. PICK vv \in Int, nn \in Int, rr \in Int : vv = v * v /\ nn = n * n /\ rr = r * r
    BY <2>3
  <2>6. v * v + (n + 1) * (n + 1) >= r * r + v
    BY <2>1, <2>2, <2>3, <2>4, <2>5
  <2> QED
    BY <2>3, <2>6
<1>18. X \in [0 .. m -> Int]
  BY <1>11
<1> HIDE DEF X
<1>19. IsOctant(r, m, X)
  BY <1>9, <1>16, <1>17, <1>18 DEF IsOctant
<1> QED
  BY <1>10, <1>12, <1>19

LEMMA LargerSquare == ASSUME NEW a \in Nat, NEW b \in Nat, a <= b PROVE a * a <= b * b
<1>1. a * a <= a * b /\ a * b <= b * b
  OBVIOUS
<1>2. a * a \in Int /\ a * b \in Int /\ b * b \in Int
  OBVIOUS
<1> QED
  BY <1>1, <1>2

(***************************************************************************)
(* The points of a circle and of a disc, from those of the octant.         *)
(***************************************************************************)
Signs == {1, -1}

LEMMA SignedSquare ==
    ASSUME NEW s \in Signs, NEW k \in Nat
    PROVE  (s * k) * (s * k) = k * k /\ Screen!Absolute(s * k) = k
<1>1. CASE s = 1
  BY <1>1 DEF Screen!Absolute
<1>2. CASE s = -1
  BY <1>2 DEF Screen!Absolute
<1> QED
  BY <1>1, <1>2 DEF Signs

OnCircle(c, m, X, p) ==
    \E n \in 0 .. m, s \in Signs, t \in Signs :
       \/ p.x = c.x + s * X[n] /\ p.y = c.y + t * n
       \/ p.x = c.x + s * n /\ p.y = c.y + t * X[n]

LEMMA ReflectedPoints ==
    ASSUME NEW c \in Points, NEW x \in Int, NEW y \in Int
    PROVE  /\ Screen!Reflected(c, x, y) \in Seq(Points)
           /\ \A p \in Points : p \in Covered(Screen!Reflected(c, x, y)) <=>
                 \E s \in Signs, t \in Signs :
                    \/ p.x = c.x + s * x /\ p.y = c.y + t * y
                    \/ p.x = c.x + s * y /\ p.y = c.y + t * x
<1> DEFINE S == Screen!Reflected(c, x, y)
<1>1. PICK x0 \in Int, y0 \in Int : c.x = x0 /\ c.y = y0
  BY DEF Points
<1>2. S = <<[x |-> x0 + x, y |-> y0 + y], [x |-> x0 + y, y |-> y0 + x],
            [x |-> x0 - y, y |-> y0 + x], [x |-> x0 - x, y |-> y0 + y],
            [x |-> x0 - x, y |-> y0 - y], [x |-> x0 - y, y |-> y0 - x],
            [x |-> x0 + y, y |-> y0 - x], [x |-> x0 + x, y |-> y0 - y]>>
  BY <1>1, Zenon DEF Screen!Reflected, Screen!Point
<1> HIDE DEF S
<1>3. /\ DOMAIN S = 1 .. 8
      /\ S[1] = [x |-> x0 + x, y |-> y0 + y] /\ S[2] = [x |-> x0 + y, y |-> y0 + x]
      /\ S[3] = [x |-> x0 - y, y |-> y0 + x] /\ S[4] = [x |-> x0 - x, y |-> y0 + y]
      /\ S[5] = [x |-> x0 - x, y |-> y0 - y] /\ S[6] = [x |-> x0 - y, y |-> y0 - x]
      /\ S[7] = [x |-> x0 + y, y |-> y0 - x] /\ S[8] = [x |-> x0 + x, y |-> y0 - y]
  BY <1>2
<1>4. \A i \in 1 .. 8 : i = 1 \/ i = 2 \/ i = 3 \/ i = 4 \/ i = 5 \/ i = 6 \/ i = 7 \/ i = 8
  OBVIOUS
<1>5. /\ x0 + x \in Int /\ x0 - x \in Int /\ x0 + y \in Int /\ x0 - y \in Int
      /\ y0 + x \in Int /\ y0 - x \in Int /\ y0 + y \in Int /\ y0 - y \in Int
  OBVIOUS
<1>6. S \in Seq(Points)
  BY <1>2, <1>5 DEF Points
<1>7. ASSUME NEW p \in Points
      PROVE  p \in Covered(S) <=>
                 \/ p.x = x0 + x /\ p.y = y0 + y
                 \/ p.x = x0 + y /\ p.y = y0 + x
                 \/ p.x = x0 - y /\ p.y = y0 + x
                 \/ p.x = x0 - x /\ p.y = y0 + y
                 \/ p.x = x0 - x /\ p.y = y0 - y
                 \/ p.x = x0 - y /\ p.y = y0 - x
                 \/ p.x = x0 + y /\ p.y = y0 - x
                 \/ p.x = x0 + x /\ p.y = y0 - y
  <2> DEFINE At(a, b) == [x |-> a, y |-> b]
  <2>1. \A a, b : p = At(a, b) <=> p.x = a /\ p.y = b
    BY DEF Points
  <2>4. /\ S[1] = At(x0 + x, y0 + y) /\ S[2] = At(x0 + y, y0 + x)
        /\ S[3] = At(x0 - y, y0 + x) /\ S[4] = At(x0 - x, y0 + y)
        /\ S[5] = At(x0 - x, y0 - y) /\ S[6] = At(x0 - y, y0 - x)
        /\ S[7] = At(x0 + y, y0 - x) /\ S[8] = At(x0 + x, y0 - y)
    BY <1>3
  <2>2. p \in Covered(S) <=> \/ p = S[1] \/ p = S[2] \/ p = S[3] \/ p = S[4]
                             \/ p = S[5] \/ p = S[6] \/ p = S[7] \/ p = S[8]
    <3>1. p \in Covered(S) <=> \E i \in 1 .. 8 : p = S[i]
      BY <1>3 DEF Covered
    <3>2. /\ 1 \in 1 .. 8 /\ 2 \in 1 .. 8 /\ 3 \in 1 .. 8 /\ 4 \in 1 .. 8
          /\ 5 \in 1 .. 8 /\ 6 \in 1 .. 8 /\ 7 \in 1 .. 8 /\ 8 \in 1 .. 8
      OBVIOUS
    <3> QED
      BY <1>4, <3>1, <3>2, Zenon
  <2>3. /\ p = S[1] <=> p.x = x0 + x /\ p.y = y0 + y
        /\ p = S[2] <=> p.x = x0 + y /\ p.y = y0 + x
        /\ p = S[3] <=> p.x = x0 - y /\ p.y = y0 + x
        /\ p = S[4] <=> p.x = x0 - x /\ p.y = y0 + y
        /\ p = S[5] <=> p.x = x0 - x /\ p.y = y0 - y
        /\ p = S[6] <=> p.x = x0 - y /\ p.y = y0 - x
        /\ p = S[7] <=> p.x = x0 + y /\ p.y = y0 - x
        /\ p = S[8] <=> p.x = x0 + x /\ p.y = y0 - y
    <3> HIDE DEF At
    <3> QED
      BY <2>1, <2>4
  <2> QED
    BY <2>2, <2>3
<1>8. ASSUME NEW p \in Points
      PROVE  p \in Covered(S) <=>
                 \E s \in Signs, t \in Signs :
                    \/ p.x = x0 + s * x /\ p.y = y0 + t * y
                    \/ p.x = x0 + s * y /\ p.y = y0 + t * x
  <2>1. PICK a \in Int, b \in Int : a = p.x /\ b = p.y
    BY DEF Points
  <2>2. /\ 1 * x = x /\ 1 * y = y /\ x0 + (-1) * x = x0 - x /\ x0 + (-1) * y = x0 - y
        /\ y0 + (-1) * x = y0 - x /\ y0 + (-1) * y = y0 - y
    OBVIOUS
  <2> QED
    BY <1>7, <2>1, <2>2 DEF Signs
<1> QED
  BY <1>1, <1>6, <1>8 DEF S

LEMMA CirclePoints ==
    ASSUME NEW c \in Points, NEW r \in Nat
    PROVE  /\ Screen!drawCircle(c, r) \in Seq(Points)
           /\ \E m, X : /\ IsOctant(r, m, X)
                        /\ \A p \in Points : p \in Covered(Screen!drawCircle(c, r)) <=>
                                                OnCircle(c, m, X, p)
<1>1. PICK m, X : /\ IsOctant(r, m, X)
                  /\ DOMAIN Screen!Octant(r) = 1 .. m + 1
                  /\ \A i \in 1 .. m + 1 : /\ Screen!Octant(r)[i].x = X[i - 1]
                                           /\ Screen!Octant(r)[i].y = i - 1
  BY OctantPoints
<1>2. m \in 0 .. r /\ m \in Nat /\ \A n \in 0 .. m : X[n] \in Int /\ n \in Int
  BY <1>1 DEF IsOctant
<1> DEFINE S == Screen!drawCircle(c, r)
<1>3. CASE r = 0
  <2>1. S = <<c>>
    BY <1>3 DEF Screen!drawCircle
  <2>2. m = 0 /\ X[0] = 0
    <3>1. m = 0 /\ 0 \in 0 .. m
      BY <1>2, <1>3
    <3> QED
      BY <1>1, <1>2, <1>3, <3>1 DEF IsOctant
  <2>3. S \in Seq(Points) /\ Covered(S) = {c}
    <3> DEFINE one == <<c>>
    <3>1. one \in Seq(Points) /\ DOMAIN one = {1} /\ one[1] = c
      OBVIOUS
    <3> HIDE DEF one, S
    <3> QED
      BY <2>1, <3>1 DEF Covered, one
  <2>4. PICK x0 \in Int, y0 \in Int : c.x = x0 /\ c.y = y0
    BY DEF Points
  <2>5. ASSUME NEW p \in Points PROVE OnCircle(c, m, X, p) <=> p = c
    <3>1. p = c <=> p.x = x0 /\ p.y = y0
      BY <2>4 DEF Points
    <3>2. \A n \in 0 .. m : n = 0
      BY <2>2
    <3>3. \A s \in Signs : s * 0 = 0
      BY DEF Signs
    <3>4. 0 \in 0 .. m /\ 1 \in Signs
      BY <2>2 DEF Signs
    <3>5. OnCircle(c, m, X, p) <=> p.x = x0 + 0 /\ p.y = y0 + 0
      BY <2>2, <2>4, <3>2, <3>3, <3>4, Zenon DEF OnCircle
    <3> QED
      BY <3>1, <3>5
  <2> QED
    BY <1>1, <2>3, <2>5
<1>4. CASE r > 0
  <2> DEFINE Piece(i) == Screen!Reflected(c, Screen!Octant(r)[i].x, Screen!Octant(r)[i].y)
             pieces == [i \in DOMAIN Screen!Octant(r) |-> Piece(i)]
  <2>1. S = Screen!FlattenSeq(pieces)
    <3>1. ~(r < 0) /\ ~(r = 0)
      BY <1>4
    <3> QED
      BY <1>4, <3>1, Zenon DEF Screen!drawCircle
  <2>2. ASSUME NEW i \in 1 .. m + 1
        PROVE  /\ i - 1 \in 0 .. m
               /\ Piece(i) \in Seq(Points)
               /\ \A p \in Points : p \in Covered(Piece(i)) <=>
                     \E s \in Signs, t \in Signs :
                        \/ p.x = c.x + s * X[i - 1] /\ p.y = c.y + t * (i - 1)
                        \/ p.x = c.x + s * (i - 1) /\ p.y = c.y + t * X[i - 1]
    <3>1. i - 1 \in 0 .. m
      BY <1>2
    <3>2. Piece(i) = Screen!Reflected(c, X[i - 1], i - 1)
      BY <1>1
    <3>3. X[i - 1] \in Int /\ i - 1 \in Int
      BY <1>2, <3>1
    <3> HIDE DEF Piece
    <3> QED
      BY <3>1, <3>2, <3>3, ReflectedPoints
  <2> HIDE DEF Piece
  <2>3. /\ m + 1 \in Nat /\ pieces \in [1 .. m + 1 -> Seq(Points)]
        /\ \A i \in 1 .. m + 1 : pieces[i] = Piece(i)
    BY <1>1, <1>2, <2>2
  <2> HIDE DEF pieces, S
  <2>4. /\ S \in Seq(Points)
        /\ \A p : p \in Covered(S) <=> \E i \in 1 .. m + 1 : p \in Covered(pieces[i])
    BY <2>1, <2>3, FlattenPoints
  <2>5. \A n \in 0 .. m : n + 1 \in 1 .. m + 1 /\ (n + 1) - 1 = n
    BY <1>2
  <2>6. ASSUME NEW p \in Points PROVE p \in Covered(S) <=> OnCircle(c, m, X, p)
    <3>1. p \in Covered(S) <=> \E i \in 1 .. m + 1 : p \in Covered(Piece(i))
      BY <2>3, <2>4
    <3> DEFINE On(n) == \E s \in Signs, t \in Signs :
                           \/ p.x = c.x + s * X[n] /\ p.y = c.y + t * n
                           \/ p.x = c.x + s * n /\ p.y = c.y + t * X[n]
    <3>2. \A i \in 1 .. m + 1 : p \in Covered(Piece(i)) <=> On(i - 1)
      BY <2>2, Zenon
    <3>3. OnCircle(c, m, X, p) <=> \E n \in 0 .. m : On(n)
      BY Zenon DEF OnCircle
    <3> HIDE DEF On
    <3>4. ASSUME NEW n \in 0 .. m, On(n) PROVE p \in Covered(S)
      <4>1. n + 1 \in 1 .. m + 1 /\ On((n + 1) - 1)
        BY <2>5, <3>4
      <4> QED
        BY <3>1, <3>2, <4>1
    <3>5. ASSUME NEW i \in 1 .. m + 1, p \in Covered(Piece(i)) PROVE \E n \in 0 .. m : On(n)
      BY <2>2, <3>2, <3>5
    <3> QED
      BY <3>1, <3>3, <3>4, <3>5
  <2> QED
    BY <1>1, <2>4, <2>6 DEF S
<1> QED
  BY <1>3, <1>4

LEMMA CircleIsCircle ==
    ASSUME NEW shape \in [kind : {"circle"}, at : Points, radius : Nat]
    PROVE  Screen!IsCircle(shape, Covered(Screen!drawCircle(shape.at, shape.radius)))
<1> DEFINE c == shape.at
           r == shape.radius
           area == Covered(Screen!drawCircle(c, r))
<1>1. c \in Points /\ r \in Nat
  OBVIOUS
<1>2. area \subseteq Points
  BY <1>1, CirclePoints, CoveredArePoints
<1>3. PICK m, X : IsOctant(r, m, X) /\ \A p \in Points : p \in area <=> OnCircle(c, m, X, p)
  BY <1>1, CirclePoints
<1>4. PICK x0 \in Int, y0 \in Int : c.x = x0 /\ c.y = y0
  BY <1>1 DEF Points
<1> HIDE DEF c, r, area
<1>5. m \in 0 .. r /\ m \in Nat /\ \A n \in 0 .. m : X[n] \in Int /\ n \in Int
  BY <1>1, <1>3 DEF IsOctant
<1>6. ASSUME NEW p \in area
      PROVE  Screen!Absolute(Screen!Distance(shape, p) - r * r)
                 <= Screen!Greatest(Screen!Absolute(p.x - c.x), Screen!Absolute(p.y - c.y))
  <2>1. PICK n \in 0 .. m, s \in Signs, t \in Signs :
           \/ p.x = c.x + s * X[n] /\ p.y = c.y + t * n
           \/ p.x = c.x + s * n /\ p.y = c.y + t * X[n]
    BY <1>2, <1>3 DEF OnCircle
  <2>2. PICK x \in Nat : /\ x = X[n] /\ n <= x
                         /\ -x <= x * x + n * n - r * r /\ x * x + n * n - r * r <= x
    <3>1. X[n] \in Int /\ n <= X[n] /\ n \in Nat
      BY <1>1, <1>3, <1>5 DEF IsOctant
    <3>2. X[n] \in Nat
      BY <3>1
    <3> QED
      BY <1>3, <3>1, <3>2 DEF IsOctant
  <2>3. PICK i \in Int, j \in Int :
           /\ i = p.x - c.x /\ j = p.y - c.y
           /\ (i = s * x /\ j = t * n) \/ (i = s * n /\ j = t * x)
    <3>1. PICK a \in Int, b \in Int : a = p.x /\ b = p.y
      BY <1>2 DEF Points
    <3>2. n \in Int /\ s \in Int /\ t \in Int
      BY <1>5 DEF Signs
    <3>3. \/ a = x0 + s * x /\ b = y0 + t * n
          \/ a = x0 + s * n /\ b = y0 + t * x
      BY <1>4, <2>1, <2>2, <3>1
    <3>4. \/ a - x0 = s * x /\ b - y0 = t * n
          \/ a - x0 = s * n /\ b - y0 = t * x
      BY <3>2, <3>3
    <3> QED
      BY <1>4, <3>1, <3>4
  <2>4. Screen!Distance(shape, p) = i * i + j * j
    BY <2>3 DEF Screen!Distance, c
  <2>5. /\ i * i + j * j = x * x + n * n
        /\ Screen!Greatest(Screen!Absolute(i), Screen!Absolute(j)) = x
    <3>1. n \in Nat
      BY <1>5
    <3>2. /\ (s * x) * (s * x) = x * x /\ Screen!Absolute(s * x) = x
          /\ (s * n) * (s * n) = n * n /\ Screen!Absolute(s * n) = n
          /\ (t * x) * (t * x) = x * x /\ Screen!Absolute(t * x) = x
          /\ (t * n) * (t * n) = n * n /\ Screen!Absolute(t * n) = n
      BY <3>1, SignedSquare
    <3>3. Screen!Greatest(x, n) = x /\ Screen!Greatest(n, x) = x
      BY <2>2, <3>1 DEF Screen!Greatest
    <3>4. x * x + n * n = n * n + x * x
      BY <3>1
    <3> QED
      BY <2>3, <3>2, <3>3, <3>4, Zenon
  <2>6. Screen!Absolute((x * x + n * n) - r * r) <= x
    <3>1. n \in Nat
      BY <1>5
    <3>2. PICK e \in Int : e = x * x + n * n - r * r /\ e = (x * x + n * n) - r * r
      BY <1>1, <3>1
    <3>3. Screen!Absolute(e) <= x
      BY <2>2, <3>2 DEF Screen!Absolute
    <3> QED
      BY <3>2, <3>3
  <2> QED
    BY <2>3, <2>4, <2>5, <2>6, Zenon
<1>7. ASSUME NEW k \in -r .. r
      PROVE  \E p, q \in area : p.x = c.x + k /\ q.y = c.y + k
  <2>1. PICK v \in 0 .. r, s \in Signs : k = s * v
    <3>1. CASE k >= 0
      BY <1>1, <3>1 DEF Signs
    <3>2. CASE k < 0
      <4>1. -k \in 0 .. r /\ k = (-1) * (-k) /\ -1 \in Signs
        BY <1>1, <3>2 DEF Signs
      <4> QED
        BY <4>1
    <3> QED
      BY <3>1, <3>2
  <2>2. PICK n \in 0 .. m : v = n \/ v = X[n]
    <3>1. CASE v <= m
      <4>1. v \in 0 .. m
        BY <1>1, <1>5, <3>1
      <4> QED
        BY <4>1
    <3>2. CASE v > m
      <4>1. v \in m + 1 .. r
        BY <1>1, <1>5, <3>2
      <4> QED
        BY <1>3, <4>1 DEF IsOctant
    <3> QED
      BY <1>1, <1>5, <3>1, <3>2
  <2> DEFINE w == IF v = n THEN X[n] ELSE n
             p == [x |-> x0 + s * v, y |-> y0 + s * w]
             q == [x |-> x0 + s * w, y |-> y0 + s * v]
  <2>3. v \in Int /\ w \in Int /\ s \in Int /\ ((v = n /\ w = X[n]) \/ (v = X[n] /\ w = n))
    BY <1>1, <1>5, <2>2 DEF Signs
  <2> HIDE DEF w
  <2>4. p \in Points /\ q \in Points
    <3>1. /\ x0 + s * v \in Int /\ y0 + s * w \in Int /\ x0 + s * w \in Int
          /\ y0 + s * v \in Int
      BY <2>3
    <3> QED
      BY <3>1 DEF Points
  <2>5. OnCircle(c, m, X, p) /\ OnCircle(c, m, X, q)
    <3>1. p.x = c.x + s * v /\ p.y = c.y + s * w /\ q.x = c.x + s * w /\ q.y = c.y + s * v
      BY <1>4
    <3> HIDE DEF p, q
    <3> QED
      BY <2>3, <3>1, Zenon DEF OnCircle
  <2>6. p.x = c.x + k /\ q.y = c.y + k
    BY <1>4, <2>1
  <2> QED
    BY <1>3, <2>4, <2>5, <2>6
<1> QED
  BY <1>6, <1>7, Zenon DEF Screen!IsCircle, c, r, area

OnChord(c, x, y, p) ==
    \/ (p.y = c.y + y \/ p.y = c.y - y) /\ c.x - x <= p.x /\ p.x <= c.x + x
    \/ (p.y = c.y + x \/ p.y = c.y - x) /\ c.x - y <= p.x /\ p.x <= c.x + y

LEMMA ChordPoints ==
    ASSUME NEW c \in Points, NEW x \in Nat, NEW y \in Nat
    PROVE  /\ Screen!Chords(c, x, y) \in Seq(Points)
           /\ \A p \in Points : p \in Covered(Screen!Chords(c, x, y)) <=> OnChord(c, x, y, p)
<1>1. PICK x0 \in Int, y0 \in Int : c.x = x0 /\ c.y = y0
  BY DEF Points
<1> DEFINE Row(z, v) == Screen!drawHorizontalLine(x0 - z, v, 2 * z + 1)
           S == Screen!Chords(c, x, y)
<1>2. S = Row(x, y0 + y) \o Row(x, y0 - y) \o Row(y, y0 + x) \o Row(y, y0 - x)
  BY <1>1, Zenon DEF Screen!Chords
<1>3. ASSUME NEW z \in Nat, NEW v \in Int
      PROVE  /\ Row(z, v) \in Seq(Points)
             /\ \A p \in Points :
                   p \in Covered(Row(z, v)) <=> p.y = v /\ x0 - z <= p.x /\ p.x <= x0 + z
  <2>1. PICK left \in Int, length \in Int : left = x0 - z /\ length = 2 * z + 1
    OBVIOUS
  <2>2. length >= 0
    BY <2>1
  <2>3. /\ Screen!drawHorizontalLine(left, v, length) \in Seq(Points)
        /\ \A p \in Points : p \in Covered(Screen!drawHorizontalLine(left, v, length)) <=>
                                p.y = v /\ left <= p.x /\ p.x < left + length
    BY <2>2, HorizontalLine
  <2>4. Row(z, v) = Screen!drawHorizontalLine(left, v, length)
    BY <2>1
  <2> HIDE DEF Row
  <2>5. \A p \in Points : p.x \in Int
    BY DEF Points
  <2>6. \A i \in Int : left <= i /\ i < left + length <=> x0 - z <= i /\ i <= x0 + z
    BY <2>1
  <2> QED
    BY <2>3, <2>4, <2>5, <2>6
<1> HIDE DEF Row, S
<1>4. y0 + y \in Int /\ y0 - y \in Int /\ y0 + x \in Int /\ y0 - x \in Int
  OBVIOUS
<1> DEFINE a1 == Row(x, y0 + y)
           a2 == Row(x, y0 - y)
           a3 == Row(y, y0 + x)
           a4 == Row(y, y0 - x)
<1>5. a1 \in Seq(Points) /\ a2 \in Seq(Points) /\ a3 \in Seq(Points) /\ a4 \in Seq(Points)
  BY <1>3, <1>4
<1>6. \A p \in Points :
         /\ p \in Covered(a1) <=> p.y = y0 + y /\ x0 - x <= p.x /\ p.x <= x0 + x
         /\ p \in Covered(a2) <=> p.y = y0 - y /\ x0 - x <= p.x /\ p.x <= x0 + x
         /\ p \in Covered(a3) <=> p.y = y0 + x /\ x0 - y <= p.x /\ p.x <= x0 + y
         /\ p \in Covered(a4) <=> p.y = y0 - x /\ x0 - y <= p.x /\ p.x <= x0 + y
  BY <1>3, <1>4
<1>7. S = a1 \o a2 \o a3 \o a4
  BY <1>2
<1> HIDE DEF a1, a2, a3, a4
<1>8. S \in Seq(Points)
  BY <1>5, <1>7, FourJoined, Zenon
<1>9. Covered(S) = Covered(a1) \cup Covered(a2) \cup Covered(a3) \cup Covered(a4)
  <2>1. Covered(a1 \o a2 \o a3 \o a4)
           = Covered(a1) \cup Covered(a2) \cup Covered(a3) \cup Covered(a4)
    BY <1>5, FourJoined
  <2> QED
    BY <1>7, <2>1, Zenon
<1>10. \A p \in Points : p \in Covered(S) <=> OnChord(c, x, y, p)
  <2> TAKE p \in Points
  <2>1. p \in Covered(S) <=> \/ p \in Covered(a1) \/ p \in Covered(a2)
                             \/ p \in Covered(a3) \/ p \in Covered(a4)
    BY <1>9
  <2>2. OnChord(c, x, y, p) <=>
           \/ (p.y = y0 + y \/ p.y = y0 - y) /\ x0 - x <= p.x /\ p.x <= x0 + x
           \/ (p.y = y0 + x \/ p.y = y0 - x) /\ x0 - y <= p.x /\ p.x <= x0 + y
    BY <1>1, Zenon DEF OnChord
  <2> QED
    BY <1>6, <2>1, <2>2
<1> QED
  BY <1>8, <1>10 DEF S

LEMMA DiscPoints ==
    ASSUME NEW c \in Points, NEW r \in Nat
    PROVE  /\ Screen!fillCircle(c, r) \in Seq(Points)
           /\ \E m, X : /\ IsOctant(r, m, X)
                        /\ \A p \in Points : p \in Covered(Screen!fillCircle(c, r)) <=>
                                                \E n \in 0 .. m : OnChord(c, X[n], n, p)
<1>1. PICK m, X : /\ IsOctant(r, m, X)
                  /\ DOMAIN Screen!Octant(r) = 1 .. m + 1
                  /\ \A i \in 1 .. m + 1 : /\ Screen!Octant(r)[i].x = X[i - 1]
                                           /\ Screen!Octant(r)[i].y = i - 1
  BY OctantPoints
<1>2. m \in Nat /\ \A n \in 0 .. m : X[n] \in Nat /\ n \in Nat
  <2>1. m \in Nat /\ \A n \in 0 .. m : X[n] \in Int /\ n \in Nat /\ n <= X[n]
    BY <1>1 DEF IsOctant
  <2> QED
    BY <2>1
<1> DEFINE S == Screen!fillCircle(c, r)
           Piece(i) == Screen!Chords(c, Screen!Octant(r)[i].x, Screen!Octant(r)[i].y)
           pieces == [i \in DOMAIN Screen!Octant(r) |-> Piece(i)]
<1>3. S = Screen!FlattenSeq(pieces)
  <2>1. ~(r < 0)
    OBVIOUS
  <2> QED
    BY <2>1, Zenon DEF Screen!fillCircle
<1>4. ASSUME NEW i \in 1 .. m + 1
      PROVE  /\ i - 1 \in 0 .. m
             /\ Piece(i) \in Seq(Points)
             /\ \A p \in Points : p \in Covered(Piece(i)) <=> OnChord(c, X[i - 1], i - 1, p)
  <2>1. i - 1 \in 0 .. m
    BY <1>2
  <2>2. Piece(i) = Screen!Chords(c, X[i - 1], i - 1)
    BY <1>1
  <2>3. X[i - 1] \in Nat /\ i - 1 \in Nat
    BY <1>2, <2>1
  <2> HIDE DEF Piece
  <2> QED
    BY <2>1, <2>2, <2>3, ChordPoints
<1> HIDE DEF Piece
<1>5. /\ m + 1 \in Nat /\ pieces \in [1 .. m + 1 -> Seq(Points)]
      /\ \A i \in 1 .. m + 1 : pieces[i] = Piece(i)
  BY <1>1, <1>2, <1>4
<1> HIDE DEF pieces, S
<1>6. /\ S \in Seq(Points)
      /\ \A p : p \in Covered(S) <=> \E i \in 1 .. m + 1 : p \in Covered(pieces[i])
  BY <1>3, <1>5, FlattenPoints
<1>7. \A n \in 0 .. m : n + 1 \in 1 .. m + 1 /\ (n + 1) - 1 = n
  BY <1>2
<1>8. ASSUME NEW p \in Points
      PROVE  p \in Covered(S) <=> \E n \in 0 .. m : OnChord(c, X[n], n, p)
  <2>1. \A i \in 1 .. m + 1 : p \in Covered(pieces[i]) <=> OnChord(c, X[i - 1], i - 1, p)
    BY <1>4, <1>5
  <2>2. ASSUME NEW n \in 0 .. m, OnChord(c, X[n], n, p) PROVE p \in Covered(S)
    <3>1. n + 1 \in 1 .. m + 1 /\ p \in Covered(pieces[n + 1])
      BY <1>7, <2>1, <2>2
    <3> QED
      BY <1>6, <3>1
  <2> QED
    BY <1>4, <1>6, <2>1, <2>2
<1> QED
  BY <1>1, <1>6, <1>8 DEF S

LEMMA DiscIsDisc ==
    ASSUME NEW shape \in [kind : {"disc"}, at : Points, radius : Nat]
    PROVE  Screen!IsDisc(shape, Covered(Screen!fillCircle(shape.at, shape.radius)))
<1> DEFINE c == shape.at
           r == shape.radius
           area == Covered(Screen!fillCircle(c, r))
<1>1. c \in Points /\ r \in Nat
  OBVIOUS
<1>3. PICK m, X : /\ IsOctant(r, m, X)
                  /\ \A p \in Points : p \in area <=> \E n \in 0 .. m : OnChord(c, X[n], n, p)
  BY <1>1, DiscPoints
<1>4. PICK x0 \in Int, y0 \in Int : c.x = x0 /\ c.y = y0
  BY <1>1 DEF Points
<1> HIDE DEF c, r, area
<1>5. m \in 0 .. r /\ m \in Nat /\ \A n \in 0 .. m : X[n] \in Nat /\ n \in Nat
  <2>1. m \in 0 .. r /\ \A n \in 0 .. m : X[n] \in Int /\ n \in Nat /\ n <= X[n]
    BY <1>1, <1>3 DEF IsOctant
  <2> QED
    BY <1>1, <2>1
<1>6. PICK rr \in Nat : rr = r * r
  BY <1>1
<1>7. r * (r - 1) = rr - r /\ r * (r + 1) = rr + r
  BY <1>1, <1>6
<1> SUFFICES ASSUME NEW x \in Int, NEW y \in Int
             PROVE  LET p == Screen!Point(x, y) IN
                    /\ Screen!Distance(shape, p) <= rr - r => p \in area
                    /\ p \in area => Screen!Distance(shape, p) <= rr + r
  <2>1. \A x \in c.x - r - 1 .. c.x + r + 1, y \in c.y - r - 1 .. c.y + r + 1 :
           x \in Int /\ y \in Int
    BY <1>1, <1>4
  <2> QED
    BY <1>7, <2>1, Zenon DEF Screen!IsDisc, c, r, area
<1> DEFINE p == Screen!Point(x, y)
           u == Screen!Absolute(x - x0)
           v == Screen!Absolute(y - y0)
<1>8. p \in Points /\ p.x = x /\ p.y = y
  BY DEF Points, Screen!Point
<1>9. /\ u \in Nat /\ v \in Nat
      /\ (x - x0) * (x - x0) = u * u /\ (y - y0) * (y - y0) = v * v
  BY DEF Screen!Absolute
<1>10. Screen!Distance(shape, p) = u * u + v * v
  BY <1>4, <1>8, <1>9 DEF Screen!Distance, c
<1>11. \A a \in Nat, b \in Nat :
          OnChord(c, a, b, p) <=> (v = b /\ u <= a) \/ (v = a /\ u <= b)
  <2> TAKE a \in Nat, b \in Nat
  <2>3. OnChord(c, a, b, p) <=>
           \/ (y = y0 + b \/ y = y0 - b) /\ x0 - a <= x /\ x <= x0 + a
           \/ (y = y0 + a \/ y = y0 - a) /\ x0 - b <= x /\ x <= x0 + b
    <3> HIDE DEF p
    <3> QED
      BY <1>4, <1>8 DEF OnChord
  <2>1. \A k \in Nat : (v = k <=> y = y0 + k \/ y = y0 - k)
    BY DEF Screen!Absolute
  <2>2. \A k \in Nat : (u <= k <=> x0 - k <= x /\ x <= x0 + k)
    BY DEF Screen!Absolute
  <2> HIDE DEF u, v
  <2> QED
    BY <2>1, <2>2, <2>3
<1>12. p \in area <=> \E n \in 0 .. m : (v = n /\ u <= X[n]) \/ (v = X[n] /\ u <= n)
  BY <1>3, <1>5, <1>8, <1>11
<1> HIDE DEF p, u, v
<1>13. ASSUME p \in area PROVE u * u + v * v <= rr + r
  <2>1. PICK n \in 0 .. m : (v = n /\ u <= X[n]) \/ (v = X[n] /\ u <= n)
    BY <1>12, <1>13
  <2>2. PICK z \in Nat, k \in Nat : z = X[n] /\ k = n
    BY <1>5
  <2>3. z * z + k * k - rr <= z /\ z <= r
    BY <1>3, <1>6, <2>2 DEF IsOctant
  <2>4. u * u + v * v <= z * z + k * k
    <3>1. CASE v = k /\ u <= z
      <4>1. u * u <= z * z
        BY <1>9, <3>1, LargerSquare
      <4> QED
        BY <1>9, <3>1, <4>1
    <3>2. CASE v = z /\ u <= k
      <4>1. u * u <= k * k
        BY <1>9, <3>2, LargerSquare
      <4> QED
        BY <1>9, <3>2, <4>1
    <3> QED
      BY <2>1, <2>2, <3>1, <3>2
  <2>5. PICK a \in Int, b \in Int : a = u * u + v * v /\ b = z * z + k * k
    BY <1>9
  <2> QED
    BY <1>1, <2>3, <2>4, <2>5
<1>14. ASSUME u * u + v * v <= rr - r PROVE p \in area
  <2>0. PICK uu \in Nat, vv \in Nat : uu = u * u /\ vv = v * v
    BY <1>9
  <2>1. v <= r
    <3> SUFFICES ASSUME v >= r + 1 PROVE FALSE
      BY <1>1, <1>9
    <3>1. r * r <= v * v
      BY <1>1, <1>9, LargerSquare
    <3>2. r = 0
      BY <1>1, <1>6, <1>14, <2>0, <3>1
    <3>3. vv = 0
      BY <1>1, <1>6, <1>14, <2>0, <3>2
    <3>4. 1 * 1 <= v * v
      BY <1>9, <3>2, LargerSquare
    <3> QED
      BY <2>0, <3>3, <3>4
  <2>2. CASE v <= m
    <3>1. v \in 0 .. m
      BY <1>5, <1>9, <2>2
    <3>2. PICK z \in Nat : z = X[v]
      BY <1>5, <3>1
    <3>3. -z <= z * z + v * v - rr
      BY <1>3, <1>6, <3>1, <3>2 DEF IsOctant
    <3>4. u <= z
      <4> SUFFICES ASSUME u >= z + 1 PROVE FALSE
        BY <1>9
      <4>1. (z + 1) * (z + 1) <= u * u
        BY <1>9, LargerSquare
      <4>2. (z + 1) * (z + 1) = z * z + 2 * z + 1
        OBVIOUS
      <4>3. PICK zz \in Nat : zz = z * z
        OBVIOUS
      <4> QED
        BY <1>1, <1>14, <2>0, <3>3, <4>1, <4>2, <4>3
    <3> QED
      BY <1>12, <3>1, <3>2, <3>4
  <2>3. CASE v > m
    <3>1. v \in m + 1 .. r
      BY <1>1, <1>5, <1>9, <2>1, <2>3
    <3>2. PICK n \in 0 .. m : X[n] = v /\ v * v + (n + 1) * (n + 1) >= r * r + v
      BY <1>3, <3>1 DEF IsOctant
    <3>3. u <= n
      <4>0. n \in Nat
        BY <1>5
      <4> SUFFICES ASSUME u >= n + 1 PROVE FALSE
        BY <1>9, <4>0
      <4>1. (n + 1) * (n + 1) <= u * u
        BY <1>9, <4>0, LargerSquare
      <4>2. PICK nn \in Int : nn = (n + 1) * (n + 1)
        BY <4>0
      <4>3. vv + nn >= rr + v /\ nn <= uu /\ uu + vv <= rr - r
        BY <1>6, <1>14, <2>0, <3>2, <4>1, <4>2
      <4>4. v > 0
        BY <1>5, <1>9, <2>3
      <4> QED
        BY <1>1, <1>9, <4>3, <4>4
    <3> QED
      BY <1>12, <3>2, <3>3
  <2> QED
    BY <1>5, <1>9, <2>2, <2>3
<1> QED
  BY <1>10, <1>13, <1>14 DEF p

-----------------------------------------------------------------------------
(***************************************************************************)
(* Glyphs: their lines have both ends in the box, and so all their points. *)
(***************************************************************************)
LEMMA BetweenBoth ==
    ASSUME NEW a \in Int, NEW b \in Int, NEW low \in Int, NEW high \in Int,
           low <= a, a < high, low <= b, b < high,
           NEW k \in 0 .. Screen!Absolute(b - a)
    PROVE  low <= a + StepTowards(a, b) * k /\ a + StepTowards(a, b) * k < high
<1>1. CASE a < b
  BY <1>1 DEF Screen!Absolute, StepTowards
<1>2. CASE a >= b
  BY <1>2 DEF Screen!Absolute, StepTowards
<1> QED
  BY <1>1, <1>2

In(r, p) == p \in Points /\ Screen!contains(r, p)

LEMMA InBox ==
    ASSUME NEW r \in Area, NEW x \in Int, NEW y \in Int
    PROVE  In(r, Screen!Point(x, y)) <=>
              /\ r.width > 0 /\ r.height > 0
              /\ r.x <= x /\ x < r.x + r.width /\ r.y <= y /\ y < r.y + r.height
<1>1. PICK x0 \in Int, y0 \in Int, w \in Int, h \in Int :
         r.x = x0 /\ r.y = y0 /\ r.width = w /\ r.height = h
  BY DEF Area
<1>2. Screen!Point(x, y) \in Points /\ Screen!Point(x, y).x = x /\ Screen!Point(x, y).y = y
  BY DEF Screen!Point, Points
<1>3. In(r, Screen!Point(x, y)) <=>
         /\ w > 0 /\ h > 0 /\ x \in x0 .. (x0 + w) - 1 /\ y \in y0 .. (y0 + h) - 1
  BY <1>1, <1>2 DEF In, Screen!contains, Screen!valid, Screen!right, Screen!bottom
<1> QED
  BY <1>1, <1>3

LEMMA LineIsInside ==
    ASSUME NEW r \in Area, NEW start, NEW end, In(r, start), In(r, end)
    PROVE  LET s == Screen!drawLine(start, end, 1, 0) IN
           s \in Seq(Points) /\ Screen!Inside(r, Covered(s))
<1> DEFINE s == Screen!drawLine(start, end, 1, 0)
           W == Screen!Walk(start, end)
           dx == Screen!Absolute(end.x - start.x)
           dy == Screen!Absolute(end.y - start.y)
           sx == StepTowards(start.x, end.x)
           sy == StepTowards(start.y, end.y)
<1>1. start \in Points /\ end \in Points /\ 1 \in Nat /\ 0 \in Nat
  BY DEF In
<1>2. /\ s \in Seq(Points)
      /\ \A p : p \in Covered(s) =>
            \E k \in 0 .. LongerSide(start, end) : p = Spotted(start, end, k)
  BY <1>1, LinePoints
<1>3. PICK x0 \in Int, y0 \in Int, x1 \in Int, y1 \in Int :
         start = [x |-> x0, y |-> y0] /\ end = [x |-> x1, y |-> y1]
  BY <1>1 DEF Points
<1>4. start.x = x0 /\ start.y = y0 /\ end.x = x1 /\ end.y = y1
  BY <1>3
<1>5. PICK l \in Int, t \in Int, w \in Int, h \in Int :
         r.x = l /\ r.y = t /\ r.width = w /\ r.height = h
  BY DEF Area
<1>6. /\ w > 0 /\ h > 0
      /\ l <= x0 /\ x0 < l + w /\ t <= y0 /\ y0 < t + h
      /\ l <= x1 /\ x1 < l + w /\ t <= y1 /\ y1 < t + h
  <2>1. In(r, Screen!Point(x0, y0)) /\ In(r, Screen!Point(x1, y1))
    BY <1>3 DEF Screen!Point
  <2> QED
    BY <1>5, <2>1, InBox
<1>7. dx \in Nat /\ dy \in Nat
  BY <1>4 DEF Screen!Absolute
<1>8. \A k \in 0 .. dx : /\ x0 + sx * k \in Int /\ l <= x0 + sx * k /\ x0 + sx * k < l + w
  <2> TAKE k \in 0 .. dx
  <2>1. PICK high \in Int : high = l + w
    OBVIOUS
  <2>2. k \in 0 .. Screen!Absolute(x1 - x0) /\ sx = StepTowards(x0, x1)
    BY <1>4
  <2>3. l <= x0 + StepTowards(x0, x1) * k /\ x0 + StepTowards(x0, x1) * k < high
    BY <1>6, <2>1, <2>2, BetweenBoth
  <2>4. StepTowards(x0, x1) * k \in Int
    BY <1>7 DEF StepTowards
  <2> HIDE DEF sx
  <2> QED
    BY <2>1, <2>2, <2>3, <2>4
<1>9. \A k \in 0 .. dy : /\ y0 + sy * k \in Int /\ t <= y0 + sy * k /\ y0 + sy * k < t + h
  <2> TAKE k \in 0 .. dy
  <2>1. PICK high \in Int : high = t + h
    OBVIOUS
  <2>2. k \in 0 .. Screen!Absolute(y1 - y0) /\ sy = StepTowards(y0, y1)
    BY <1>4
  <2>3. t <= y0 + StepTowards(y0, y1) * k /\ y0 + StepTowards(y0, y1) * k < high
    BY <1>6, <2>1, <2>2, BetweenBoth
  <2>4. StepTowards(y0, y1) * k \in Int
    BY <1>7 DEF StepTowards
  <2> HIDE DEF sy
  <2> QED
    BY <2>1, <2>2, <2>3, <2>4
<1>10. ASSUME NEW k \in 0 .. LongerSide(start, end)
       PROVE  \E i \in 0 .. dx, j \in 0 .. dy : W[k].x = x0 + sx * i /\ W[k].y = y0 + sy * j
  <2>1. CASE dx >= dy
    <3>1. LongerSide(start, end) = dx
      BY <1>7, <2>1 DEF LongerSide, Screen!Greatest
    <3>2. PICK j \in 0 .. dy : W[k].x = start.x + sx * k /\ W[k].y = start.y + sy * j
      BY <1>1, <2>1, <3>1, FlatWalk
    <3> HIDE DEF W, dx, dy, sx, sy
    <3> QED
      BY <1>4, <3>1, <3>2
  <2>2. CASE dy > dx
    <3>1. LongerSide(start, end) = dy /\ dy >= dx
      BY <1>7, <2>2 DEF LongerSide, Screen!Greatest
    <3>2. PICK j \in 0 .. dx : W[k].y = start.y + sy * k /\ W[k].x = start.x + sx * j
      BY <1>1, <3>1, SteepWalk
    <3> HIDE DEF W, dx, dy, sx, sy
    <3> QED
      BY <1>4, <3>1, <3>2
  <2> QED
    BY <1>7, <2>1, <2>2
<1>11. ASSUME NEW p \in Covered(s) PROVE Screen!contains(r, p)
  <2>1. PICK k \in 0 .. LongerSide(start, end) : p = Spotted(start, end, k)
    BY <1>2
  <2>2. PICK i \in 0 .. dx, j \in 0 .. dy : W[k].x = x0 + sx * i /\ W[k].y = y0 + sy * j
    BY <1>10
  <2>3. p = Screen!Point(x0 + sx * i, y0 + sy * j)
    BY <2>1, <2>2, Zenon DEF Spotted
  <2>4. PICK a \in Int, b \in Int : a = x0 + sx * i /\ b = y0 + sy * j
    BY <1>8, <1>9
  <2>5. l <= a /\ a < l + w /\ t <= b /\ b < t + h
    BY <1>8, <1>9, <2>4
  <2>6. In(r, Screen!Point(a, b))
    BY <1>5, <1>6, <2>5, InBox
  <2> QED
    BY <2>3, <2>4, <2>6, Zenon DEF In
<1> QED
  BY <1>2, <1>11 DEF Screen!Inside

Glyphs == {"ArrowLeft", "ArrowRight", "ArrowUp", "ArrowDown", "Check", "Cross", "Plus", "Minus"}

LEMMA GlyphIsInside ==
    ASSUME NEW r \in Area, NEW glyph \in Glyphs
    PROVE  LET s == Screen!drawGlyph(r, glyph) IN
           s \in Seq(Points) /\ Screen!Inside(r, Covered(s))
<1> DEFINE s == Screen!drawGlyph(r, glyph)
           Fine(a) == a \in Seq(Points) /\ Screen!Inside(r, Covered(a))
           l == r.x
           t == r.y
           e == r.x + Screen!Greatest(r.width - 1, 0)
           b == r.y + Screen!Greatest(r.height - 1, 0)
           cx == r.x + r.width \div 2
           cy == r.y + r.height \div 2
           Line(x1, y1, x2, y2) == Screen!drawLine(Screen!Point(x1, y1), Screen!Point(x2, y2), 1, 0)
           Across == Screen!drawHorizontalLine(l, cy, r.width)
           Down == Screen!drawVerticalLine(cx, t, r.height)
<1>1. PICK x0 \in Int, y0 \in Int, w \in Int, h \in Int :
         r.x = x0 /\ r.y = y0 /\ r.width = w /\ r.height = h
  BY DEF Area
<1>2. CASE ~Screen!valid(r)
  <2>1. s = <<>>
    BY <1>2 DEF Screen!drawGlyph
  <2> QED
    BY <2>1, NothingDrawn DEF Screen!Inside
<1>3. CASE Screen!valid(r)
  <2>1. w > 0 /\ h > 0
    BY <1>1, <1>3 DEF Screen!valid
  <2>2. /\ l \in Int /\ e \in Int /\ cx \in Int /\ t \in Int /\ b \in Int /\ cy \in Int
        /\ \A x \in {l, cx, e}, y \in {t, cy, b} : In(r, Screen!Point(x, y))
    <3>1. w \div 2 \in 0 .. w - 1 /\ h \div 2 \in 0 .. h - 1
      BY <2>1
    <3>2. \A x \in {l, cx, e} : x \in Int /\ x0 <= x /\ x < x0 + w
      BY <1>1, <2>1, <3>1 DEF Screen!Greatest
    <3>3. \A y \in {t, cy, b} : y \in Int /\ y0 <= y /\ y < y0 + h
      BY <1>1, <2>1, <3>1 DEF Screen!Greatest
    <3> HIDE DEF l, t, e, b, cx, cy
    <3>4. \A x \in {l, cx, e}, y \in {t, cy, b} : In(r, Screen!Point(x, y))
      BY <1>1, <2>1, <3>2, <3>3, InBox
    <3> QED
      BY <3>2, <3>3, <3>4
  <2>3. Fine(Across)
    <3>1. l = x0 /\ cy \in Int /\ r.width = w /\ w >= 0
      BY <1>1, <2>1, <2>2
    <3> HIDE DEF l, cy, Across
    <3>2. /\ Across \in Seq(Points)
          /\ \A p \in Points : p \in Covered(Across) => p.y = cy /\ x0 <= p.x /\ p.x < x0 + w
      BY <3>1, HorizontalLine DEF Across
    <3>3. y0 <= cy /\ cy < y0 + h
      <4>1. In(r, Screen!Point(l, cy)) /\ l \in Int
        BY <2>2
      <4> QED
        BY <1>1, <3>1, <4>1, InBox
    <3>4. ASSUME NEW p \in Covered(Across) PROVE Screen!contains(r, p)
      <4>1. p \in Points
        BY <3>2, CoveredArePoints
      <4>2. PICK x \in Int, y \in Int : p = [x |-> x, y |-> y] /\ x = p.x /\ y = p.y
        BY <4>1 DEF Points
      <4>3. x0 <= x /\ x < x0 + w /\ y0 <= y /\ y < y0 + h
        BY <3>2, <3>3, <4>1, <4>2
      <4>4. In(r, Screen!Point(x, y))
        BY <1>1, <2>1, <4>3, InBox
      <4> QED
        BY <4>2, <4>4 DEF In, Screen!Point
    <3> QED
      BY <3>2, <3>4 DEF Screen!Inside
  <2>4. Fine(Down)
    <3>1. t = y0 /\ cx \in Int /\ r.height = h /\ h >= 0
      BY <1>1, <2>1, <2>2
    <3> HIDE DEF t, cx, Down
    <3>2. /\ Down \in Seq(Points)
          /\ \A p \in Points : p \in Covered(Down) => p.x = cx /\ y0 <= p.y /\ p.y < y0 + h
      BY <3>1, VerticalLine DEF Down
    <3>3. x0 <= cx /\ cx < x0 + w
      <4>1. In(r, Screen!Point(cx, t)) /\ t \in Int
        BY <2>2
      <4> QED
        BY <1>1, <3>1, <4>1, InBox
    <3>4. ASSUME NEW p \in Covered(Down) PROVE Screen!contains(r, p)
      <4>1. p \in Points
        BY <3>2, CoveredArePoints
      <4>2. PICK x \in Int, y \in Int : p = [x |-> x, y |-> y] /\ x = p.x /\ y = p.y
        BY <4>1 DEF Points
      <4>3. x0 <= x /\ x < x0 + w /\ y0 <= y /\ y < y0 + h
        BY <3>2, <3>3, <4>1, <4>2
      <4>4. In(r, Screen!Point(x, y))
        BY <1>1, <2>1, <4>3, InBox
      <4> QED
        BY <4>2, <4>4 DEF In, Screen!Point
    <3> QED
      BY <3>2, <3>4 DEF Screen!Inside
  <2> HIDE DEF l, t, e, b, cx, cy, Across, Down
  <2>5. ASSUME NEW x1 \in {l, cx, e}, NEW y1 \in {t, cy, b},
               NEW x2 \in {l, cx, e}, NEW y2 \in {t, cy, b}
        PROVE  Fine(Line(x1, y1, x2, y2))
    BY <2>2, LineIsInside
  <2>6. ASSUME NEW p, NEW q, Fine(p), Fine(q) PROVE Fine(p \o q)
    BY <2>6, JoinedPoints DEF Screen!Inside
  <2> HIDE DEF Fine, Line
  <2>7. /\ Fine(Line(e, cy, l, cy)) /\ Fine(Line(l, cy, cx, t)) /\ Fine(Line(l, cy, cx, b))
        /\ Fine(Line(l, cy, e, cy)) /\ Fine(Line(e, cy, cx, t)) /\ Fine(Line(e, cy, cx, b))
        /\ Fine(Line(cx, b, cx, t)) /\ Fine(Line(cx, t, l, cy)) /\ Fine(Line(cx, t, e, cy))
        /\ Fine(Line(cx, t, cx, b)) /\ Fine(Line(cx, b, l, cy)) /\ Fine(Line(cx, b, e, cy))
        /\ Fine(Line(cx, b, e, t)) /\ Fine(Line(l, t, e, b)) /\ Fine(Line(l, b, e, t))
    <3> DEFINE X == {l, cx, e}
               Y == {t, cy, b}
    <3>1. l \in X /\ cx \in X /\ e \in X /\ t \in Y /\ cy \in Y /\ b \in Y
      OBVIOUS
    <3>2. \A x1, x2 \in X, y1, y2 \in Y : Fine(Line(x1, y1, x2, y2))
      BY <2>5
    <3> HIDE DEF X, Y
    <3> QED
      BY <3>1, <3>2
  <2>8. \/ s = Line(e, cy, l, cy) \o Line(l, cy, cx, t) \o Line(l, cy, cx, b)
        \/ s = Line(l, cy, e, cy) \o Line(e, cy, cx, t) \o Line(e, cy, cx, b)
        \/ s = Line(cx, b, cx, t) \o Line(cx, t, l, cy) \o Line(cx, t, e, cy)
        \/ s = Line(cx, t, cx, b) \o Line(cx, b, l, cy) \o Line(cx, b, e, cy)
        \/ s = Line(l, cy, cx, b) \o Line(cx, b, e, t)
        \/ s = Line(l, t, e, b) \o Line(l, b, e, t)
        \/ s = Across \o Down
        \/ s = Across
    BY <1>3, Zenon DEF Screen!drawGlyph, Glyphs, Line, Across, Down, l, t, e, b, cx, cy
  <2> HIDE DEF s
  <2>9. Fine(s)
    BY <2>3, <2>4, <2>6, <2>7, <2>8, Zenon
  <2> QED
    BY <2>9 DEF Fine, s
<1> QED
  BY <1>2, <1>3

(***************************************************************************)
(* Every shape a caller can ask for is drawn as what it is named for, and  *)
(* touches each of its points once unless it is round or a glyph.          *)
(***************************************************************************)
LEMMA KindsOfShapes ==
    ASSUME NEW shape \in Shapes
    PROVE  \/ shape \in Lines
           \/ shape \in [kind : {"across", "down"}, at : Points, length : Int]
           \/ shape \in [kind : {"rectangle", "filled"}, box : Area]
           \/ shape \in [kind : {"circle", "disc"}, at : Points, radius : Int]
           \/ shape \in [kind : {"glyph"}, box : Area, glyph : Glyphs]
BY ProgramsAssumption
   DEF Screen!WidgetsAssumption, Screen!DrawingAssumption, Lines, Points, Area, Glyphs

Drawn(shape) ==
    LET s == Screen!Touched(shape) IN
    /\ s \in Seq(Points) /\ Screen!IsShape(shape, Covered(s))
    /\ shape.kind \notin {"circle", "disc", "glyph"} => Simple(s)

LEMMA ShapeIsDrawn ==
    ASSUME NEW shape \in Shapes
    PROVE  Drawn(shape)
<1> DEFINE s == Screen!Touched(shape)
<1>1. CASE shape \in Lines
  <2>1. shape.kind = "line" /\ shape.from \in Points /\ shape.to \in Points
        /\ shape.on \in Nat /\ shape.off \in Nat
    BY <1>1 DEF Lines
  <2>2. s = Screen!drawLine(shape.from, shape.to, shape.on, shape.off)
    BY <2>1, Zenon DEF Screen!Touched
  <2>3. s \in Seq(Points) /\ Simple(s)
    BY <2>1, <2>2, LinePoints, Zenon
  <2>4. Screen!IsLine(shape, Covered(s))
    BY <1>1, <2>2, LineIsLine, Zenon
  <2> HIDE DEF s
  <2>5. Screen!IsShape(shape, Covered(s))
    BY <2>1, <2>4, Zenon DEF Screen!IsShape
  <2> QED
    BY <2>3, <2>5, Zenon DEF Drawn, s
<1>2. CASE shape \in [kind : {"across", "down"}, at : Points, length : Int]
  <2>1. /\ shape.at.x \in Int /\ shape.at.y \in Int /\ shape.length \in Int
        /\ shape.kind = "across" \/ shape.kind = "down"
    BY <1>2 DEF Points
  <2>2. CASE shape.kind = "across"
    <3>1. s = Screen!drawHorizontalLine(shape.at.x, shape.at.y, shape.length)
      BY <2>2 DEF Screen!Touched
    <3>2. s \in Seq(Points) /\ Simple(s)
      <4>1. PICK x \in Int, y \in Int, n \in Int : s = Screen!drawHorizontalLine(x, y, n)
        BY <2>1, <3>1, Zenon
      <4> HIDE DEF s
      <4> QED
        BY <4>1, HorizontalLine
    <3> HIDE DEF s
    <3>3. Screen!IsShape(shape, Covered(s))
      BY <2>2 DEF Screen!IsShape
    <3> QED
      BY <3>2, <3>3, Zenon DEF Drawn, s
  <2>3. CASE shape.kind = "down"
    <3>1. s = Screen!drawVerticalLine(shape.at.x, shape.at.y, shape.length)
      BY <2>3 DEF Screen!Touched
    <3>2. s \in Seq(Points) /\ Simple(s)
      <4>1. PICK x \in Int, y \in Int, n \in Int : s = Screen!drawVerticalLine(x, y, n)
        BY <2>1, <3>1, Zenon
      <4> HIDE DEF s
      <4> QED
        BY <4>1, VerticalLine
    <3> HIDE DEF s
    <3>3. Screen!IsShape(shape, Covered(s))
      BY <2>3 DEF Screen!IsShape
    <3> QED
      BY <3>2, <3>3, Zenon DEF Drawn, s
  <2> QED
    BY <2>1, <2>2, <2>3
<1>3. CASE shape \in [kind : {"rectangle", "filled"}, box : Area]
  <2>1. shape.box \in Area /\ (shape.kind = "rectangle" \/ shape.kind = "filled")
    BY <1>3
  <2>2. CASE shape.kind = "rectangle"
    <3>1. s = Screen!drawRectangle(shape.box)
      BY <2>2 DEF Screen!Touched
    <3>2. s \in Seq(Points) /\ Simple(s) /\ Covered(s) = Screen!Border(shape.box)
      BY <2>1, <3>1, RectangleBorder, Zenon
    <3> HIDE DEF s
    <3>3. Screen!IsShape(shape, Covered(s))
      BY <2>2, <3>2 DEF Screen!IsShape
    <3> QED
      BY <3>2, <3>3, Zenon DEF Drawn, s
  <2>3. CASE shape.kind = "filled"
    <3>1. s = Screen!fillRectangle(shape.box)
      BY <2>3 DEF Screen!Touched
    <3>2. s \in Seq(Points) /\ Simple(s) /\ Covered(s) = Screen!Box(shape.box)
      BY <2>1, <3>1, FilledRectangle, Zenon
    <3> HIDE DEF s
    <3>3. Screen!IsShape(shape, Covered(s))
      BY <2>3, <3>2 DEF Screen!IsShape
    <3> QED
      BY <3>2, <3>3, Zenon DEF Drawn, s
  <2> QED
    BY <2>1, <2>2, <2>3
<1>4. CASE shape \in [kind : {"circle", "disc"}, at : Points, radius : Int]
  <2>1. /\ shape.at \in Points /\ shape.radius \in Int
        /\ shape.kind = "circle" \/ shape.kind = "disc"
    BY <1>4
  <2>2. CASE shape.kind = "circle"
    <3>1. s = Screen!drawCircle(shape.at, shape.radius)
      BY <2>2 DEF Screen!Touched
    <3>2. CASE shape.radius < 0
      <4>1. s = <<>>
        BY <2>1, <3>1, <3>2 DEF Screen!drawCircle
      <4> HIDE DEF s
      <4>2. Screen!IsShape(shape, Covered(s))
        BY <2>2, <3>2, <4>1, NothingDrawn DEF Screen!IsShape
      <4> QED
        BY <2>2, <4>1, <4>2, NothingDrawn DEF Drawn, s
    <3>3. CASE shape.radius \in Nat
      <4>1. shape \in [kind : {"circle"}, at : Points, radius : Nat]
        BY <1>4, <2>2, <3>3
      <4>2. s \in Seq(Points)
        BY <2>1, <3>1, <3>3, CirclePoints, Zenon
      <4>3. Screen!IsCircle(shape, Covered(s))
        BY <3>1, <4>1, CircleIsCircle, Zenon
      <4> HIDE DEF s
      <4>4. Screen!IsShape(shape, Covered(s))
        BY <2>2, <3>3, <4>3 DEF Screen!IsShape
      <4> QED
        BY <2>2, <4>2, <4>4 DEF Drawn, s
    <3> QED
      BY <2>1, <3>2, <3>3
  <2>3. CASE shape.kind = "disc"
    <3>1. s = Screen!fillCircle(shape.at, shape.radius)
      BY <2>3 DEF Screen!Touched
    <3>2. CASE shape.radius < 0
      <4>1. s = <<>>
        BY <3>1, <3>2 DEF Screen!fillCircle
      <4> HIDE DEF s
      <4>2. Screen!IsShape(shape, Covered(s))
        BY <2>3, <3>2, <4>1, NothingDrawn DEF Screen!IsShape
      <4> QED
        BY <2>3, <4>1, <4>2, NothingDrawn DEF Drawn, s
    <3>3. CASE shape.radius \in Nat
      <4>1. shape \in [kind : {"disc"}, at : Points, radius : Nat]
        BY <1>4, <2>3, <3>3
      <4>2. s \in Seq(Points)
        BY <2>1, <3>1, <3>3, DiscPoints, Zenon
      <4>3. Screen!IsDisc(shape, Covered(s))
        BY <3>1, <4>1, DiscIsDisc, Zenon
      <4> HIDE DEF s
      <4>4. Screen!IsShape(shape, Covered(s))
        BY <2>3, <3>3, <4>3 DEF Screen!IsShape
      <4> QED
        BY <2>3, <4>2, <4>4 DEF Drawn, s
    <3> QED
      BY <2>1, <3>2, <3>3
  <2> QED
    BY <2>1, <2>2, <2>3
<1>5. CASE shape \in [kind : {"glyph"}, box : Area, glyph : Glyphs]
  <2>1. shape.kind = "glyph" /\ shape.box \in Area /\ shape.glyph \in Glyphs
    BY <1>5
  <2>2. s = Screen!drawGlyph(shape.box, shape.glyph)
    BY <2>1 DEF Screen!Touched
  <2>3. s \in Seq(Points) /\ Screen!Inside(shape.box, Covered(s))
    BY <2>1, <2>2, GlyphIsInside, Zenon
  <2> HIDE DEF s
  <2>4. Screen!IsShape(shape, Covered(s))
    BY <2>1, <2>3 DEF Screen!IsShape
  <2> QED
    BY <2>1, <2>3, <2>4 DEF Drawn, s
<1> QED
  BY <1>1, <1>2, <1>3, <1>4, <1>5, KindsOfShapes

(***************************************************************************)
(* applyPixel() changes only points that are touched inside the clip, and  *)
(* each of those as the operation says, Invert if they are touched once.   *)
(***************************************************************************)
LEMMA AppliedInside ==
    ASSUME NEW buffer, NEW s, NEW within, NEW operation \in {"Clear", "Set", "Invert"}, NEW p,
           (p \in buffer) # (p \in Screen!Applied(buffer, s, operation, within))
    PROVE  p \in Covered(s) /\ Screen!contains(within, p)
BY DEF Screen!Applied, Screen!ToSet, Covered

LEMMA AppliedOnce ==
    ASSUME NEW s \in Seq(Points), NEW within, NEW operation \in {"Clear", "Set", "Invert"},
           operation # "Invert" \/ Simple(s)
    PROVE  Screen!Applied(lit, s, operation, within)
               = Screen!PixelWise({p \in Covered(s) : Screen!contains(within, p)}, operation)
<1> DEFINE area == {p \in Covered(s) : Screen!contains(within, p)}
           odd == {p \in area :
                     Screen!Cardinality({i \in DOMAIN s : s[i] = p}) % 2 = 1}
<1>1. ASSUME Simple(s) PROVE odd = area
  <2> SUFFICES ASSUME NEW p \in area
               PROVE  Screen!Cardinality({i \in DOMAIN s : s[i] = p}) % 2 = 1
    OBVIOUS
  <2>1. PICK i \in DOMAIN s : p = s[i]
    BY DEF Covered
  <2> DEFINE places == {j \in DOMAIN s : s[j] = p}
  <2>2. places = {i}
    BY <1>1, <2>1 DEF Simple
  <2> HIDE DEF places
  <2>3. Cardinality(places) = 1
    BY <2>2, FS_Singleton
  <2>4. Screen!Cardinality(places) = 1
    BY <2>3, ScreenCardinality
  <2>5. Screen!Cardinality(places) % 2 = 1
    BY <2>4
  <2> QED
    BY <2>5, Zenon DEF places
<1>2. Screen!ToSet(s) = Covered(s)
  BY DEF Screen!ToSet, Covered
<1>3. Screen!Applied(lit, s, operation, within)
          = CASE operation = "Clear"  -> lit \ area
              [] operation = "Set"    -> lit \cup area
              [] operation = "Invert" -> (lit \ odd) \cup (odd \ lit)
  BY <1>2, Zenon DEF Screen!Applied
<1> HIDE DEF area, odd
<1>4. Screen!Applied(lit, s, operation, within) = Screen!PixelWise(area, operation)
  BY <1>1, <1>3 DEF Screen!PixelWise
<1> QED
  BY <1>4 DEF area

(***************************************************************************)
(* A clip inside the bounds of the canvas lets through pixels only, and    *)
(* intersect() makes such a clip of every rectangle.                       *)
(***************************************************************************)
Clipped(r) == \A p \in Points : Screen!contains(r, p) => p \in Screen!Pixels

LEMMA BoundsAreClipped == Clipped(Screen!bounds)
<1> SUFFICES ASSUME NEW p \in Points, Screen!contains(Screen!bounds, p)
             PROVE  p \in Screen!Pixels
  BY DEF Clipped
<1>1. PICK x \in Int, y \in Int : p = [x |-> x, y |-> y] /\ p.x = x /\ p.y = y
  BY DEF Points
<1>2. /\ CanvasWidth \in Nat /\ CanvasHeight \in Nat /\ Bits \in Nat \ {0}
  BY ProgramsAssumption DEF Screen!WidgetsAssumption, Screen!DrawingAssumption
<1>3. x \in 0 .. CanvasWidth - 1 /\ y \in 0 .. CanvasHeight - 1
  BY <1>1, <1>2
  DEF Screen!contains, Screen!bounds, Screen!Rectangle, Screen!right, Screen!bottom
<1>4. Screen!RowStride \in Nat /\ CanvasWidth <= Screen!RowStride * Bits
  <2> DEFINE a == CanvasWidth + Bits - 1
             q == a \div Bits
             c == a % Bits
  <2>1. a \in Nat /\ q \in Nat /\ c \in 0 .. Bits - 1 /\ a = Bits * q + c
    <3>1. a \in Nat
      BY <1>2
    <3> HIDE DEF a
    <3> QED
      BY <1>2, <3>1
  <2>2. CanvasWidth + (Bits - 1) = Bits * q + c
    BY <1>2, <2>1
  <2> HIDE DEF a, q, c
  <2>3. Bits * q \in Nat /\ Bits * q = q * Bits
    BY <1>2, <2>1
  <2>4. CanvasWidth <= Bits * q
    BY <1>2, <2>1, <2>2, <2>3
  <2> QED
    BY <2>1, <2>3, <2>4 DEF Screen!RowStride, a, q
<1>5. x \in 0 .. Screen!RowStride * Bits - 1
  BY <1>2, <1>3, <1>4
<1>6. p = Screen!Point(x, y)
  BY <1>1 DEF Screen!Point
<1>7. p \in Screen!Buffer
  <2> DEFINE X == 0 .. Screen!RowStride * Bits - 1
             Y == 0 .. CanvasHeight - 1
  <2>1. Screen!Buffer = {Screen!Point(a, b) : a \in X, b \in Y}
    BY DEF Screen!Buffer
  <2>2. x \in X /\ y \in Y
    BY <1>3, <1>5
  <2> HIDE DEF X, Y
  <2> QED
    BY <1>6, <2>1, <2>2
<1> QED
  BY <1>7 DEF Screen!Pixels

LEMMA BoundsAreArea == Screen!bounds \in Area
BY ProgramsAssumption
   DEF Screen!WidgetsAssumption, Screen!DrawingAssumption, Screen!bounds, Screen!Rectangle, Area

LEMMA IntersectionIsClipped ==
    ASSUME NEW r \in Area
    PROVE  LET both == Screen!intersect(Screen!bounds, r) IN
           /\ both \in Area /\ Clipped(both)
           /\ \A p \in Points : Screen!contains(both, p) => p \in Screen!Box(r)
<1> DEFINE both == Screen!intersect(Screen!bounds, r)
<1>1. PICK x0 \in Int, y0 \in Int, w \in Int, h \in Int :
         r = [x |-> x0, y |-> y0, width |-> w, height |-> h]
         /\ r.x = x0 /\ r.y = y0 /\ r.width = w /\ r.height = h
  BY DEF Area
<1>2. PICK W \in Nat, H \in Nat :
         /\ CanvasWidth = W /\ CanvasHeight = H
         /\ Screen!bounds = [x |-> 0, y |-> 0, width |-> W, height |-> H]
  BY ProgramsAssumption
  DEF Screen!WidgetsAssumption, Screen!DrawingAssumption, Screen!bounds, Screen!Rectangle
<1> DEFINE left == Screen!Greatest(0, x0)
           top == Screen!Greatest(0, y0)
           wide == Screen!Greatest(Screen!Least(W, x0 + w) - left, 0)
           high == Screen!Greatest(Screen!Least(H, y0 + h) - top, 0)
<1>3. both = [x |-> left, y |-> top, width |-> wide, height |-> high]
  <2>1. /\ Screen!right(Screen!bounds) = W /\ Screen!bottom(Screen!bounds) = H
        /\ Screen!right(r) = x0 + w /\ Screen!bottom(r) = y0 + h
        /\ Screen!bounds.x = 0 /\ Screen!bounds.y = 0
    BY <1>1, <1>2 DEF Screen!right, Screen!bottom
  <2> QED
    BY <1>1, <2>1, Zenon DEF Screen!intersect, Screen!Rectangle
<1>4. left \in Int /\ top \in Int /\ wide \in Int /\ high \in Int
  BY DEF Screen!Greatest, Screen!Least
<1> HIDE DEF both
<1>5. ASSUME NEW p \in Points, Screen!contains(both, p)
      PROVE  Screen!contains(Screen!bounds, p) /\ p \in Screen!Box(r)
  <2>1. PICK x \in Int, y \in Int : p.x = x /\ p.y = y
    BY DEF Points
  <2>2. x \in left .. (left + wide) - 1 /\ y \in top .. (top + high) - 1
    <3> HIDE DEF left, top, wide, high
    <3> QED
      BY <1>3, <1>4, <1>5, <2>1 DEF Screen!contains, Screen!right, Screen!bottom
  <2>3. /\ 0 <= x /\ x < W /\ 0 <= y /\ y < H
        /\ x0 <= x /\ x < x0 + w /\ y0 <= y /\ y < y0 + h
    BY <2>2 DEF Screen!Greatest, Screen!Least
  <2>4. p \in Screen!Box(r)
    BY <1>1, <2>1, <2>3, BoxPoints
  <2>5. Screen!contains(Screen!bounds, p)
    BY <1>2, <2>1, <2>3 DEF Screen!contains, Screen!valid, Screen!right, Screen!bottom
  <2> QED
    BY <2>4, <2>5
<1>6. both \in Area
  <2> HIDE DEF left, top, wide, high
  <2> QED
    BY <1>3, <1>4 DEF Area
<1>7. Clipped(both)
  BY <1>5, BoundsAreClipped DEF Clipped
<1> QED
  BY <1>5, <1>6, <1>7 DEF both

(***************************************************************************)
(* A text is points, wherever its alignment puts it, and writing it changes*)
(* only what its clip lets through.                                        *)
(***************************************************************************)
Aligned == [horizontal : {"Left", "Center", "Right"}, vertical : {"Top", "Middle", "Bottom"},
            mode : {"Normal", "Inverted"}, clipToBounds : BOOLEAN]

LEMMA CharactersArePoints ==
    ASSUME NEW r \in Area, NEW length \in Nat, NEW style \in Aligned
    PROVE  Screen!Characters(Screen!alignedOrigin(r, Screen!measureText(length), style), length)
               \in Seq(Points)
<1> DEFINE width == Screen!measureText(length)
           origin == Screen!alignedOrigin(r, width, style)
<1>1. PICK x0 \in Int, y0 \in Int, w \in Int, h \in Int :
         r.x = x0 /\ r.y = y0 /\ r.width = w /\ r.height = h
  BY DEF Area
<1>2. PICK a \in Nat, b \in Nat, c \in Nat :
         GlyphWidth = a /\ GlyphHeight = b /\ horizontalSpacing = c
  BY ProgramsAssumption DEF Screen!WidgetsAssumption, Screen!DrawingAssumption
<1>3. width \in Int
  <2>1. length * (a + c) \in Nat
    OBVIOUS
  <2> QED
    BY <1>2, <2>1 DEF Screen!measureText
<1> HIDE DEF width
<1>4. PICK v \in Int : width = v
  BY <1>3
<1>5. ASSUME NEW n \in Int PROVE Screen!Half(n) \in Int
  BY DEF Screen!Half
<1>6. /\ style.horizontal \in {"Left", "Center", "Right"}
      /\ style.vertical \in {"Top", "Middle", "Bottom"}
  BY DEF Aligned
<1>7. PICK x \in Int, y \in Int : origin.x = x /\ origin.y = y
  <2>1. /\ w - v \in Int /\ h - b \in Int
        /\ Screen!Half(w - v) \in Int /\ Screen!Half(h - b) \in Int
    BY <1>5
  <2> DEFINE X == CASE style.horizontal = "Left"   -> 0
                    [] style.horizontal = "Center" -> Screen!Half(w - v)
                    [] style.horizontal = "Right"  -> w - v
             Y == CASE style.vertical = "Top"    -> 0
                    [] style.vertical = "Middle" -> Screen!Half(h - b)
                    [] style.vertical = "Bottom" -> h - b
  <2>2. X \in Int /\ Y \in Int
    BY <1>6, <2>1
  <2>3. origin = Screen!Point(x0 + X, y0 + Y)
    BY <1>1, <1>2, <1>4, Zenon DEF Screen!alignedOrigin
  <2> HIDE DEF X, Y, origin
  <2> QED
    BY <2>2, <2>3 DEF Screen!Point
<1> HIDE DEF origin
<1> DEFINE Cell(i) == Screen!Rectangle(x + (i - 1) * (a + c), y, a, b)
           cells == [i \in 1 .. length |-> Screen!fillRectangle(Cell(i))]
<1>8. ASSUME NEW i \in 1 .. length PROVE Screen!fillRectangle(Cell(i)) \in Seq(Points)
  <2>1. PICK k \in Int : k = x + (i - 1) * (a + c)
    OBVIOUS
  <2>2. Cell(i) = [x |-> k, y |-> y, width |-> a, height |-> b]
    BY <2>1, Zenon DEF Screen!Rectangle
  <2> HIDE DEF Cell
  <2>3. Cell(i) \in Area
    BY <2>2 DEF Area
  <2> QED
    BY <2>3, FilledRectangle
<1>9. Screen!Characters(origin, length) = Screen!FlattenSeq(cells)
  BY <1>2, <1>7 DEF Screen!Characters
<1>10. cells \in [1 .. length -> Seq(Points)]
  BY <1>8
<1> HIDE DEF cells
<1>11. Screen!FlattenSeq(cells) \in Seq(Points)
  BY <1>10, FlattenPoints, Zenon
<1> QED
  BY <1>9, <1>11 DEF origin, width

LEMMA WritingStaysInClip ==
    ASSUME NEW r \in Area, NEW length \in Nat, NEW style \in Aligned,
           NEW p, (p \in lit) # (p \in Screen!Written(r, length, style))
    PROVE  p \in Points /\ Screen!contains(Screen!TextClip(r, style), p)
<1> DEFINE text == Screen!Characters(Screen!alignedOrigin(r, Screen!measureText(length), style),
                                     length)
           within == Screen!TextClip(r, style)
           paper == Screen!Applied(lit, Screen!fillRectangle(r), "Set", within)
           dark == Screen!Applied(paper, text, "Clear", within)
           light == Screen!Applied(lit, text, "Set", within)
<1>1. Covered(text) \subseteq Points
  BY CharactersArePoints, CoveredArePoints, Zenon
<1>2. Covered(Screen!fillRectangle(r)) \subseteq Points
  BY FilledRectangle, CoveredArePoints, Zenon
<1>3. Screen!Written(r, length, style) = IF style.mode = "Inverted" THEN dark ELSE light
  BY Zenon DEF Screen!Written
<1> HIDE DEF text, within
<1>4. (p \in lit) # (p \in paper) => p \in Points /\ Screen!contains(within, p)
  BY <1>2, AppliedInside
<1>5. (p \in lit) # (p \in light) => p \in Points /\ Screen!contains(within, p)
  BY <1>1, AppliedInside
<1> HIDE DEF paper
<1>6. (p \in paper) # (p \in dark) => p \in Points /\ Screen!contains(within, p)
  BY <1>1, AppliedInside
<1> HIDE DEF dark, light
<1>7. p \in Points /\ Screen!contains(within, p)
  BY <1>3, <1>4, <1>5, <1>6
<1> QED
  BY <1>7 DEF within

(***************************************************************************)
(* What every call leaves: no bit is set outside the bounds, and the clip  *)
(* is inside them.                                                         *)
(***************************************************************************)
SketchInv ==
    app = "sketch" => lit \subseteq Screen!Pixels /\ clip \in Area /\ Clipped(clip)

LEMMA SketchInvInit == RigInit => SketchInv
<1> SUFFICES ASSUME RigInit, app = "sketch" PROVE SketchInv
  BY DEF SketchInv
<1>1. Screen!SketchInit
  BY DEF RigInit
<1> QED
  BY <1>1, BoundsAreArea, BoundsAreClipped DEF Screen!SketchInit, SketchInv

DrawsIt ==
    /\ (call'.of = "shape" /\ Screen!Once(call'.shape, call'.operation)) =>
           \E area \in {{Screen!Touched(call'.shape)[i] :
                            i \in DOMAIN Screen!Touched(call'.shape)}} :
               /\ Screen!IsShape(call'.shape, area)
               /\ lit' = Screen!PixelWise({p \in area : Screen!contains(clip, p)}, call'.operation)
    /\ (call'.of = "text" /\ call'.text.style.clipToBounds) =>
           (lit' \ lit) \cup (lit \ lit') \subseteq Screen!Box(call'.text.box)
    /\ lit' \subseteq Screen!Pixels

(***************************************************************************)
(* One case per call.                                                      *)
(***************************************************************************)
LEMMA SketchInvNext ==
    ASSUME SketchInv, [RigNext]_vars
    PROVE  SketchInv' /\ (drawn' # drawn => DrawsIt)
<1>1. app' = app
  BY ChipStays DEF vars, programs
<1>2. UNCHANGED <<lit, clip, call, drawn>> \/ (app = "sketch" /\ Screen!SketchNext)
  BY DEF RigNext, CallerNext, AttenuverterNext, ControllerStep, ControllerSurroundings,
         ControllerRuns, ScreenNext, vars, programs, screenState
<1>3. CASE UNCHANGED <<lit, clip, call, drawn>>
  BY <1>1, <1>3 DEF SketchInv, Clipped
<1>4. CASE app = "sketch" /\ Screen!SketchNext
  <2>1. lit \subseteq Screen!Pixels /\ clip \in Area /\ Clipped(clip)
    BY <1>4 DEF SketchInv
  <2>2. ASSUME NEW image, NEW how, Screen!DrawCall(image, how), DrawsIt
        PROVE  SketchInv'
    <3>1. clip' = clip /\ lit' \subseteq Screen!Pixels
      BY <2>2 DEF Screen!DrawCall, DrawsIt
    <3> QED
      BY <2>1, <3>1 DEF SketchInv, Clipped
  <2>3. ASSUME NEW s \in Shapes, NEW operation \in {"Clear", "Set", "Invert"},
               Screen!draw(s, operation)
        PROVE  SketchInv' /\ DrawsIt
    <3> DEFINE touched == Screen!Touched(s)
               how == [of |-> "shape", shape |-> s, operation |-> operation]
               now == Screen!Applied(lit, touched, operation, clip)
    <3>1. Screen!DrawCall(now, how) /\ lit' = now /\ call' = how
      BY <2>3 DEF Screen!draw, Screen!DrawCall
    <3>2. touched \in Seq(Points) /\ Screen!IsShape(s, Covered(touched))
          /\ (s.kind \notin {"circle", "disc", "glyph"} => Simple(touched))
      BY ShapeIsDrawn DEF Drawn
    <3>3. call'.of = "shape" /\ call'.shape = s /\ call'.operation = operation
      BY <3>1
    <3> HIDE DEF touched, how
    <3>4. Screen!Once(s, operation) =>
             now = Screen!PixelWise({p \in Covered(touched) : Screen!contains(clip, p)}, operation)
      BY <3>2, AppliedOnce DEF Screen!Once
    <3>5. now \subseteq Screen!Pixels
      <4> SUFFICES ASSUME NEW p \in now, p \notin lit PROVE p \in Screen!Pixels
        BY <2>1
      <4>1. p \in Covered(touched) /\ Screen!contains(clip, p)
        BY AppliedInside
      <4>2. p \in Points
        BY <3>2, <4>1, CoveredArePoints
      <4> QED
        BY <2>1, <4>1, <4>2 DEF Clipped
    <3> HIDE DEF now
    <3>6. DrawsIt
      <4>1. Screen!Once(s, operation) =>
               \E area \in {{touched[i] : i \in DOMAIN touched}} :
                  /\ Screen!IsShape(s, area)
                  /\ lit' = Screen!PixelWise({p \in area : Screen!contains(clip, p)}, operation)
        BY <3>1, <3>2, <3>4, Zenon DEF Covered
      <4>2. call'.of # "text"
        BY <3>3
      <4>3. Screen!Once(call'.shape, call'.operation) =>
               \E area \in {{Screen!Touched(call'.shape)[i] :
                                i \in DOMAIN Screen!Touched(call'.shape)}} :
                  /\ Screen!IsShape(call'.shape, area)
                  /\ lit' = Screen!PixelWise({p \in area : Screen!contains(clip, p)},
                                             call'.operation)
        BY <3>3, <4>1, Zenon DEF touched
      <4>4. lit' \subseteq Screen!Pixels
        BY <3>1, <3>5, Zenon
      <4> QED
        BY <4>2, <4>3, <4>4, Zenon DEF DrawsIt
    <3> QED
      BY <2>2, <3>1, <3>6
  <2>4. ASSUME NEW t \in Texts, Screen!drawText(t)
        PROVE  SketchInv' /\ DrawsIt
    <3> DEFINE now == Screen!Written(t.box, t.length, t.style)
               how == [of |-> "text", text |-> t]
    <3>1. t.box \in Area /\ t.length \in Nat /\ t.style \in Aligned
      BY ProgramsAssumption DEF Screen!WidgetsAssumption, Screen!DrawingAssumption, Area, Aligned
    <3>2. Screen!DrawCall(now, how) /\ lit' = now /\ call' = how
      BY <2>4 DEF Screen!drawText, Screen!DrawCall
    <3>3. call'.of = "text" /\ call'.text = t /\ call'.of # "shape"
      BY <3>2
    <3>4. ASSUME NEW p, (p \in lit) # (p \in now)
          PROVE  /\ p \in Screen!Pixels
                 /\ t.style.clipToBounds => p \in Screen!Box(t.box)
      <4>1. p \in Points /\ Screen!contains(Screen!TextClip(t.box, t.style), p)
        BY <3>1, <3>4, WritingStaysInClip
      <4>2. CASE t.style.clipToBounds
        <5>1. Screen!contains(Screen!intersect(Screen!bounds, t.box), p)
          BY <4>1, <4>2 DEF Screen!TextClip
        <5> QED
          BY <3>1, <4>1, <5>1, IntersectionIsClipped DEF Clipped
      <4>3. CASE ~t.style.clipToBounds
        <5>1. Screen!contains(clip, p)
          BY <4>1, <4>3 DEF Screen!TextClip
        <5> QED
          BY <2>1, <4>1, <4>3, <5>1 DEF Clipped
      <4> QED
        BY <4>2, <4>3
    <3> HIDE DEF now, how
    <3>5. DrawsIt
      BY <2>1, <3>2, <3>3, <3>4 DEF DrawsIt
    <3> QED
      BY <2>2, <3>2, <3>5
  <2>5. ASSUME NEW now, now \subseteq Screen!Pixels, Screen!DrawCall(now, Screen!NoCall)
        PROVE  SketchInv' /\ DrawsIt
    <3>1. call'.of = "canvas" /\ lit' = now
      BY <2>5 DEF Screen!DrawCall, Screen!NoCall
    <3>2. DrawsIt
      BY <2>5, <3>1 DEF DrawsIt
    <3> QED
      BY <2>2, <2>5, <3>2
  <2>6. CASE Screen!clear \/ Screen!fill \/ Screen!invert
    <3>1. (Screen!Buffer \ lit) \cap Screen!Pixels \subseteq Screen!Pixels
      OBVIOUS
    <3> QED
      BY <2>5, <2>6, <3>1 DEF Screen!clear, Screen!fill, Screen!invert
  <2>7. ASSUME NEW r \in Clips, Screen!setClipRect(r) PROVE SketchInv' /\ drawn' = drawn
    <3>1. r \in Area
      BY ProgramsAssumption DEF Screen!WidgetsAssumption, Screen!DrawingAssumption, Area
    <3>2. lit' = lit /\ drawn' = drawn /\ clip' = Screen!intersect(Screen!bounds, r)
      BY <2>7 DEF Screen!setClipRect
    <3>3. clip' \in Area /\ Clipped(clip')
      BY <3>1, <3>2, IntersectionIsClipped
    <3> QED
      BY <2>1, <3>2, <3>3 DEF SketchInv, Clipped
  <2>8. CASE Screen!resetClipRect
    <3>1. lit' = lit /\ drawn' = drawn /\ clip' = Screen!bounds
      BY <2>8 DEF Screen!resetClipRect
    <3> QED
      BY <2>1, <3>1, BoundsAreArea, BoundsAreClipped DEF SketchInv, Clipped
  <2> QED
    BY <1>4, <2>3, <2>4, <2>6, <2>7, <2>8 DEF Screen!SketchNext
<1> QED
  BY <1>2, <1>3, <1>4

(***************************************************************************)
(* Every primitive draws the shape it is named for, every pixel of it      *)
(* once, the part that is inside the clip and nothing else; a text changes *)
(* nothing outside its rectangle; and no bit is set beyond the last pixel  *)
(* of a row.                                                               *)
(***************************************************************************)
THEOREM EveryShapeIsDrawn == RigSpec => DrawsTheShape
<1>1. SketchInv /\ [RigNext]_vars => SketchInv'
  BY SketchInvNext
<1>2. SketchInv /\ [RigNext]_vars =>
      [ drawn' # drawn =>
        /\ (call'.of = "shape" /\ Screen!Once(call'.shape, call'.operation)) =>
               \E area \in {{Screen!Touched(call'.shape)[i] :
                                i \in DOMAIN Screen!Touched(call'.shape)}} :
                   /\ Screen!IsShape(call'.shape, area)
                   /\ lit' = Screen!PixelWise({p \in area : Screen!contains(clip, p)},
                                              call'.operation)
        /\ (call'.of = "text" /\ call'.text.style.clipToBounds) =>
               Screen!PixelWise(lit', "Invert") \subseteq Screen!Box(call'.text.box)
        /\ lit' \subseteq Screen!Pixels ]_(Screen!sketch)
  <2> SUFFICES ASSUME SketchInv, [RigNext]_vars, drawn' # drawn
               PROVE  /\ (call'.of = "shape" /\ Screen!Once(call'.shape, call'.operation)) =>
                             \E area \in {{Screen!Touched(call'.shape)[i] :
                                              i \in DOMAIN Screen!Touched(call'.shape)}} :
                                 /\ Screen!IsShape(call'.shape, area)
                                 /\ lit' = Screen!PixelWise(
                                              {p \in area : Screen!contains(clip, p)},
                                              call'.operation)
                      /\ (call'.of = "text" /\ call'.text.style.clipToBounds) =>
                             Screen!PixelWise(lit', "Invert") \subseteq Screen!Box(call'.text.box)
                      /\ lit' \subseteq Screen!Pixels
    BY Zenon
  <2>1. DrawsIt
    BY SketchInvNext
  <2>2. Screen!PixelWise(lit', "Invert") = (lit \ lit') \cup (lit' \ lit)
    BY DEF Screen!PixelWise
  <2>3. Screen!PixelWise(lit', "Invert") = (lit' \ lit) \cup (lit \ lit')
    BY <2>2
  <2> QED
    BY <2>1, <2>3, Zenon DEF DrawsIt
<1> QED
  BY <1>1, <1>2, SketchInvInit, PTL
  DEF RigSpec, DrawsTheShape, Screen!DrawsTheShape
=============================================================================
