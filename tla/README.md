# eurorack-framework: specifications, model checking and proofs

This directory holds TLA+ modules of the parts of eurorack-framework in which
something can go wrong between two steps: storage that loses power, interrupt
handlers that run between two machine instructions, contacts that bounce, clocks
that wrap around, queues that are full, bus transfers that fail half way, programs
that must recover from all of it. Every module is a translation of code under
`src/libraries/` or `src/examples/projects/`; `PROJECT.json` gives, for each
definition, the file and the lines it stands for ("map"), the runs of the model
checker, a faulty variant for each property that the run must refute ("mutants"),
the hazards the properties are for, and the theorems. Source paths below are
relative to `src/libraries/` unless they begin with `examples/`.

## 1. Inventory

The framework is a set of small libraries for synthesizer modules. It has no
scheduler and no threads: on AVR there is one main loop and a handful of
interrupt handlers, everywhere else the program calls the libraries one after
the other and gives each call the time (`nowMs`). What the parts share are the
interfaces of `eurorack-io*` and `eurorack-storage-interface`, whose every call
may fail with an `IoResult`. Two of the examples are complete firmwares.

| Component | State | Operations | Interacts with | What is hard |
|---|---|---|---|---|
| Record store (`eurorack-storage-record-store`) | none of its own; two slots on the media: header (magic, schema version, payload size, sequence, two CRCs) and payload | `load`, `store`, `clear` | calls read/write/erase/commit of a `PersistentStorage` | loss of power or an error between any two backend calls; wraparound of the sequence; records of another firmware |
| File storage (`eurorack-storage-file-storage`) | image `bytes_`, `dirty_`, `ready_`; the file and its `.tmp` sibling | constructor (loads), `read`, `write`, `erase`, `commit` | file system; backend of both stores | commit is a sequence of file operations, each of which may fail or be the last one |
| Fixed slot (`eurorack-storage-fixed-slot`) | a marker byte and a payload on the media | `store`, `load`, `clear`, `valid` | any `PersistentStorage` | no checksum: the order of the writes is the only protection |
| Timer2 tick (`eurorack-platform-avr-timer2*`) | `pending_`, `overruns_`; timer registers | `initialize1kHz`, `stop`, `consumePending`, `overrunCount`; handler `onCompareMatch` | hardware timer, interrupt flag | handler between two loads; saturation; stale compare flag |
| External edge latch (`eurorack-platform-avr-external-edge*`) | `count_`, `overflow_` per input; interrupt registers | `initializeRisingEdges`, `stop`, `consume0/1`, `overflow0/1`; handlers `on0/on1` | pins, interrupt flag | as above, for two inputs |
| ADC scanner (`eurorack-platform-avr-adc-scanner*`) | three samples per channel, channel, index, discard flag, ready flag | `initialize`, `snapshot`; handler `onConversionComplete` | free-running converter, multiplexer | the converter is one conversion ahead of the multiplexer; late handlers; torn snapshot |
| Momentary button, toggle switch, DIP switch | candidate level and its time, accepted level, event flags, durations, count | `reset`, `update`, mask of a bank | the caller's clock | bounce, late calls, wrapping clock, first sample |
| On-off-momentary switch | two debounced contacts, position, previous position, flags, count | `reset`, `update` | two momentary buttons inside | the two contacts are accepted at different calls |
| Press classifier | pressed, pending click, long-press flag, three times | `reset`, `update`, `poll` | fed with a debounced level | one call reports at most one gesture; windows race with releases |
| Event queue | ring, head, size, dropped | `push`, `pop`, `clear` | producer and consumer in one thread | full, wrapped, cleared |
| Rotary encoder, encoder value, acceleration | previous Gray state, accumulator, position; bounded value; time of last detent | `reset`, `update`; `applyDetents`; `apply` | in that order | missed states, direction changes, wrapping values, narrow integers |
| Soft takeover, analog button ladder | target, previous sample and ownership; candidate and its time | `arm`, `update`; `reset`, `update` | the caller's samples | jumps over the target, noise |
| Gate input, trigger output, digital jacks | hysteresis state; start of the pulse | `update`, `trigger`, `setHigh` | a cable to another module | droop, retriggering, wrapping clock |
| Analog input, potentiometer, fader; CV, analog jacks, calibration | smoothed position; clamped voltage; a line | `reset`, `update`; `setVolts`, `voltsToCode` | one another | deadband, rounding, falling slopes, several limits |
| LEDs, illuminated button and fader | requested and effective color, change flag, count | `reset`, `setOn`, `setColor`, `setMasterBrightness`, `update` | a consumer that writes pins | changes that are not announced |
| Shift-register and LED drivers, D/A converters | shadow buffer, and the device's own shift, input and output registers | setters, `flush*`, `setEnabled`, `initialize` | SPI bus, latch and enable pins | a transfer that fails half way; what the device shows then |
| MCP23017 | four shadow register pairs, and the device's | setters, `writePin`, `initialize`, `sampleInputs` | I2C bus | half a transaction; a device that lost its supply |
| MCP3208, 74HC165, analog multiplexer, pins | caller's value, cache, selected channel; direction and latch of a pin | `read`, `sample`, `selectChannel`, `readChannel`; `setDirection`, `writeHigh`, `readHigh` | SPI bus, Arduino core, virtual doubles | who owns the bus; stale answers; shared port bits |
| SSD1306, SH1106 | `initialized_`; the controller's memory and address pointer | `initialize`, `flush`, contrast and power commands | I2C, canvas | a packet that fails in the middle of a page |
| Display geometry, canvas, glyphs, drawing, text, widgets | a bitmap and its clip; a menu's scroll position with the caller | drawing primitives, `draw...` of each widget | each other | clipping, rounding, pixels touched twice, fields that share a box |
| `examples/projects/nano-r3-attenuverter` | deadline, controls, converter, LED | `setup`, `loop` | ADC, MCP4922 | a loop longer than its period; failing transfers; the safe state |
| `examples/projects/nano-r3-oled-controller` | button, gate, LED, multiplexer channel | `setup`, `loop` | MCP23017, SSD1306, multiplexer | no result of the bus is looked at |
| I/O interfaces, other Arduino adapters, byte codec, CRC-32, simulation, compatibility headers, umbrella libraries | little or none | forwarding, encoding | everything | little that is not I/O |

What makes each component correct is stated by its properties (section 4).
`PROJECT.json` lists the components with their status and the hazards with their
lines.

## 2. Modules

```
AtomicRecord <-refines- RecordStore <-instance- RecordStoreOnFile -extends-> FileStorage
                                        Storages -extends-> RecordStoreOnFile, FixedSlot
AvrMainline <-extends- Timer2Tick, ExternalEdgeLatch
                                        AvrInterrupts = both + AdcScanner3
BoundedFifo <-refines- EventQueue       Panel -extends-> EventQueue, ControlPolicies; and has
Debouncer <-extends- the switches         MomentaryButton, Switches, PressClassifier, Knob,
                                          ButtonLadder, GateTrigger, AnalogSignals, Illumination
ChipDriver <-extends- every driver      Drivers = LedChain + DacOutputs + PagedDisplay
                                          + PortExpander + InputChips + PortPins
Drawing <-extends- Widgets              Applications = Drivers + Attenuverter (over DacOutputs)
                                          + OledController (over PortExpander) + Widgets
RecordStoreProofs, StoragesProofs, AvrProofs, PanelProofs, ApplicationsProofs
                                        -extends-> the module they are named after
```

The modules with MC in their name give the constants of a run their values.
FileStorage, FixedSlot and ControlPolicies carry their own proofs. Where
components are put under one specification and share nothing but a clock or a
bus that carries one transaction at a time, a behaviour follows one of them:
interleaving them would multiply states and add no behaviour of any one.

### Storage

**RecordStore** models `record_store.cpp`. Each erase, payload write, header
write and commit of `store()` and `clear()` is a step (`StoreErase`,
`StorePayload`, `StoreHeader`, `Commit`, `ClearErase`); `Store` and `Clear` are the
code before the first of them (argument checks, both `inspectSlot()` calls,
selection of slot and sequence). `BackendFails` is the error return after any of
them, `PowerLoss` the loss of power inside any of them; both use `Incomplete`,
what a backend call that did not complete may have done. `Load` is the whole of
`load()`, because it only reads. `image` is what `read()` returns and `media`
what survives; in a write-through backend (`MemoryStorage`, EEPROM on AVR) they
are one, in a staged one (`FileStorage`, EEPROM emulation) `commit()` copies one
to the other. A slot is abstracted to what `inspectSlot()` distinguishes: the
CRC comparisons become "the header is intact" and "the payload bytes are the
ones the CRC was computed from". This takes CRC-32 to detect every partial write.

**AtomicRecord** is what the store promises: one record, replaced in one step;
a call that fails or is cut has happened or has not. `clear()` promises less,
because it erases the two slots one after the other: when it does not complete,
the older record may be the one that is left.

**FileStorage** models `file_storage.cpp`: every file operation of `commit()` is
a step with its failure. The file system is external: create, remove and rename
are indivisible and take effect in order, and the contents of a file being
written may be partial. (Whether a power failure can reorder them is a question
about the file system, not about this code.) `Open` is the constructor:
`loadExisting()` reads the whole file (`OpenWhole`), cannot read it and leaves the
object not ready (`OpenFails`), or reads a part of it, fills the rest with the erased
value and is ready all the same (`OpenInPart`, lines 215-232). **RecordStoreOnFile**
composes the two: the store's `image` is `bytes_`, its `media` are what the next
`FileStorage` object would load if it reads all of it (`Restart`), and its one
`Commit` step becomes the steps of `FileStorage::commit()`. What a part of a file
is, it says in terms of slots (`PartlyRead`): everything before the place where the
reading stopped, erased bytes behind it.

**FixedSlot** models `fixed_slot.cpp` in the same way, over a write-through
backend and over a staged one whose commit is atomic and whose image is the media
when the program starts. A slot over a `FileStorage`, with the steps of its commit
and files read in part, is not composed. **Storages** is the record store on a file,
or the slot.

### Interrupts

**AvrMainline** is the `ATOMIC_BLOCK` and the program counter of the one main
loop. **Timer2Tick** and **ExternalEdgeLatch** model the counters with one step
per load or store of a counter, because an AVR handler can run between any two
machine instructions; the compare flag, the edge flags and the timer are
hardware, modelled from how the code uses them. **AdcScanner3** models the
converter's pipeline: a conversion uses the multiplexer setting of the moment it
starts, and the next starts when the last one ends. A sample is abstracted to the
channel it was converted from. **AvrInterrupts** is the firmware that uses tick
source and edge latch, with one main loop and one interrupt flag, or the firmware
that uses the scanner; a handler of the one would only delay those of the other,
which late handlers stand for.

### Front panel

**Debouncer** has the debounce step of `momentary_button.cpp` as an operator on a
button object; **MomentaryButton** and **Switches** (the on-off-momentary switch,
and toggle switch, DIP switch and a bank of them) are state machines over it. **PressClassifier** and **EventQueue** model the classes of these
names, **ButtonLadder** models `AnalogButtonLadder`. **Knob** is the chain from
shaft to value: `RotaryEncoder` samples the contacts of a shaft that may have
turned past one state since the last sample, and its `delta` goes to
`EncoderValue::applyDetents()`. **ControlPolicies** has `SoftTakeover` and
`EncoderAcceleration`. **GateTrigger** follows a trigger from one module to another:
`TriggerOutput`, `DigitalOutputJack`, a cable on which a level may droop as far as
it stays definite, `DigitalInputJack` and `GateInput`. **AnalogSignals** has the
positions (`AnalogInput`, `Potentiometer`, `Fader`) as fractions of one denominator,
where smoothing may round either way, and the voltages (`AnalogInputJack`,
`AnalogOutputJack`, `CvInput`, `CvOutput`, `LinearCodeCalibration`) as integers, of
which only `voltsToCode` rounds. **Illumination** has `DigitalLed`, `BiColorLed`,
`MulticolorLed` and the illuminated button and fader, each followed by a consumer
that writes the pins when the snapshot announces a change. **Panel** puts them under
one specification. History variables (marked "history") count true time and true
events beside the code's wrapping counters.

### Drivers and applications

**ChipDriver** holds what the drivers have in common: which chip, where the
running call stands, its result so far. **LedChain** models `flush()` of 74HC595,
TLC5916 and TLC5947 as begin, transfer and latch pulse, against the chain's shift
and output registers, and `Tlc5947::initialize()` with its startup sequence as a
loop of flushes (`stage`, `channel`). **DacOutputs** models the frames of MCP4822,
MCP4922 and DAC8568 against their input and output registers; `flushBoth()` and
`flushAll()` are one loop (`flushAll`, `FlushFrame`, `Pulse`). **PagedDisplay**
models `flush()` of SSD1306 and SH1106 packet by packet against the display
memory and the controller's address pointer. In each, the chip is external, and a
bus call that fails may have delivered nothing, a part, or everything.

**PortExpander** models the MCP23017's shadow registers against the device; a
transaction that fails has delivered none, the first or both of the bytes.
**InputChips** models `Mcp3208::read`, the sampling of the 74HC165 and the
multiplexer's select lines, over a bus that hands out one transaction at a time;
the virtual bus, which answers with what was queued and fails where it is told to,
stands for everything a wire may do. The select lines are levels, one for each
line that is connected. **PortPins** puts the Arduino pin objects on a
port with a direction bit and a latch bit and compares them with the virtual pin
that stands for them in tests. **Drivers** is a caller that makes any call of one
driver.

**Attenuverter** and **OledController** are the two firmwares, step by step from
`setup()` on. The first has the arithmetic of `attenuverter_model.hpp` on exact
fractions, inputs that may change in the middle of an average, and the deadline of
`loop()` as `lag`, the time since the update was due. The gamma correction and
rounding of the LED's brightness (lines 167-184) are monotonic; what they decide is
up to which magnitude the LED stays dark, the constant `LedRoundsToZero`, which lies
above the threshold of the code. The second is a sequence of
bus accesses, each of which may fail unnoticed, over an expander that may lose its
supply; latches and directions of the expander are both followed, and every
multiplexer channel has a code of its own. **Drawing** computes each primitive as the sequence of points the code
touches, repetitions included. **Widgets** computes each widget as the sequence of
areas it fills, frames and writes on, in the order of the code. **Applications** is
one program at a time: the caller, a firmware, or a program that draws.

## 3. Plan

Done, in this order: storage and its proofs, interrupts, input controls, output
drivers; then the remaining controls, jacks and LEDs, the remaining drivers, the
display code, the two firmwares with their liveness; then the proofs of all safety
and action properties of the runs (section 6).

Left, should the project grow:

1. *Abstract specifications*: the committed frame, shown entirely or not at all,
   which the TLC5947 and the synchronous converters implement.
2. *Drivers*: power, reference and clear-code commands of the DAC8568; contrast,
   inversion and power of the displays.
3. *Display*: `drawBitmap()`, the symbols that are not modelled.

## 4. Runs

Deadlock is checked in every run. State counts are of distinct states.

| Run | Result | What it shows |
|---|---|---|
| `record_store` | holds, 497 000 states | `SlotsAreNeighbours`: two valid slots always carry neighbouring sequence numbers, also across the wraparound, so `sequenceNewer()` is never asked what it cannot answer. `AcknowledgedIsDurable`: after Success the media hold the payload until the next call. `ReadYourWrites`: what `load()` reports agrees with it, also after a firmware change. `StoreKeepsLastGood`: no failure or loss of power in `store()` touches the last good record. `ImplementsAtomicRecord`: all of it together, step by step. |
| `record_store_read_faults` | **violation** of `StoreKeepsLastGood` | A read that fails once makes `store()` erase the newest slot (finding 1). |
| `storages` | holds, 616 000 states | `AcknowledgedSurvives` over the real commit of a file and for the slot, but for a `clear()` in a session whose file was read only in part; `CleanMeansOnDisk`: an object that believes it has nothing to commit is right, also after failed commits, or shows a part of the file if that is all it read; `NeverTorn`: a restart never reads a half-written file; `StoreNeverRollsBack`: an interrupted `store()` may lose the record (finding 2) but never brings back an older one; `MarkerMeansWhole`: a valid marker stands before a whole payload at every moment power may be lost; `NoResurrection`: an invalidated payload does not come back. |
| `record_store_on_file_loss` | **violation** of `StoreKeepsLastGood` | An interruption between remove and rename loses both slots (finding 2). |
| `avr_interrupts` | holds, 4 640 000 states | `TicksAccounted`: every counted tick is pending, handed out or an overrun, once; `OverrunReadIsWhole`: the two-byte count is never torn; `NoEdgeLostUnflagged`: from the first edge that is lost until the flag is cleared it is set, and it is raised only after as many edges as the counter holds have been counted without a `consume()`; `MedianIsOwn`: with handlers that are not late every sample belongs to its channel, however late they are at most one of three is foreign, which the median discards, and a snapshot is one state. |
| `timer2_tick_phantom` | **violation** of `TicksSinceInitialize` | A compare flag left set is counted after `initialize1kHz()` (finding 3). |
| `panel` | holds, 347 000 states | `ButtonIsTrue`: a change is accepted at the first call at which the level has been steady for the debounce time, no earlier, and reported durations are true times; `PositionIsTrue`: a break-before-make switch is never reported as invalid and steady contacts decide its position; `MaskIsAnnounced`: the mask of a bank changes by exactly the poles that report an event; `GesturesAreTrue`: gestures correspond to clicks and to the configured times; `TurnsAreAccountedFor`: an encoder that misses states is wrong by no more than its invalid-transition count admits, and a bounded value is the sum of its detents, however it wraps; `LadderEventsAreTrue`: presses and releases pair up and come after the stable time, through noise and from button to button; `TriggersArriveOnce`: a pulse keeps its time and is received once; `PickupIsEarned`: a control owns a recalled value exactly when it has met it; `SpeedIsReal`: detents are multiplied by the time that really passed; `KnobFollowsInput`: no overshoot, and rest near the input; `CodeIsNearest`: the code sent is the best there is; `PinsShowTheLed`: a consumer of change flags misses no change; `ImplementsFifo`: the ring is a bounded queue. |
| `applications` | holds, 383 000 states | Drivers: `LampsShowWholeFrames`: a TLC5947 that is switched on never shows what its registers held at power-up, and no failed transfer mixes two frames in it, nor, after a flush that succeeded, in the other chains; `FlushIsAllOrNothing`: between call and return of `flushBoth()` and `flushAll()` all outputs are old or all are new; `DisplayFollowsCanvas`: after a flush that succeeds the panel shows the canvas, and no byte is ever at a wrong place; `ReportedIsEffective`: what was reported as written is what the expander holds, and its inputs are one answer; `AnswersAreOwn`: the bus stays with its owner and a value is the answer to the last successful read; `ReadsLikeVirtualPin`: code tested with a virtual pin sees the same on the board. Firmwares: `LedTellsPolarity`: a lit LED of the attenuverter tells the polarity of what the converter holds, whatever failed; `OutputFollowsInputs` and `ControlsAreFollowed` (liveness): once inputs rest and the bus works, the outputs come to follow them, the latches of the expander hold gate and LED and its pins drive them if the one write of the directions arrived and was not undone by an outage, and all multiplexed controls are read, each from its own channel; a direction that was lost is never set again. Display: `DrawsTheShape`: primitives draw the shapes they are named for, each pixel once, inside the clip; `MenuShowsSelection`: the selected item is on the screen, without idle scrolling; `PaintsWhatItShould`: in a box that has room for what it draws no widget paints outside it, but for the one column a potentiometer's circle takes in a box of even width that it fills, and a wrapped message loses no letter. |
| `latched_chain_failed_transfer` | **violation** of `LatchesOnlyCompleteChains` | A 74HC595 chain latches a frame that was cut short (finding 5). |
| `press_classifier_lost_click` | **violation** of `EveryClickReported` | A second click released as the window has closed overwrites the first (finding 4). |
| `attenuverter_deadline` | **violation** of `OverdueIsDue` | A loop that takes longer than its period falls behind until an overdue update is not taken for due (finding 6). |
| `widgets_erased_text` | **violation** of `MenuItemsAreLegible` | The value of a selected menu item erases its label (finding 7). |

Each property of a passing run has a faulty variant of a mapped definition, kept
next to the definition in the module (comment "Faulty"), under which the same
run violates it.

### Fairness

The libraries have no scheduler: whether a program makes the next call is the
program's affair, and their properties are safety. The firmwares are programs: the
Arduino core calls `loop()` for ever, and no call in them waits for anything but
hardware that answers in bounded time. So `RigSpec` states weak fairness of their
steps (`AttenuverterNext`, `ControllerStep`) and of nothing else: not of the bus,
which may fail for ever, not of the controls, which may move for ever, and not of
an arbitrary caller. The two liveness properties therefore say what happens *if*
controls rest and failures stop; no fairness makes them do so. `OutputFollowsInputs`
holds although `OverdueIsDue` does not: after half a period of the clock the
deadline test is right again.

### Bounds, and why they are enough

- *Record store*: two payloads that matter (interchangeable, so symmetric), an
  empty one, for which the payload write is skipped and the CRC is trivial, and
  one that is too large; two schema versions; sequences of two bits, so that
  every behaviour goes around the counter: the code only looks at differences of
  one. No bound on the number of calls or power losses.
- *File storage and slot*: the images are those the record store can produce, whole
  or read up to any point; two payloads that can be stored, one of them empty, and
  one that is too large; no bound on calls, failures, restarts or part-read files.
  One schema version, since versions only matter to `load()`, which the run above
  covers.
- *AVR*: pending ticks saturate at 1, overruns at 3 and are read as two bytes of
  base 2, so saturation, carry between the bytes, and both together are reached;
  edges saturate at 1; the two edge channels are symmetric. `Horizon` and
  `EdgeHorizon` bound how many ticks and edges are serviced after an
  initialization; they lie beyond saturation. The scanner has three channels and
  three samples, as in the code, and no bound.
- *Panel*: clock modulo 7, a debounce time of 2 and gaps between calls up to 5,
  so that calls are late and no multiple of anything divides the period; the
  transition counter modulo 2; gestures of 2 to 4 time units; queue of 3 events
  with a drop counter that saturates at 2. `MaxUnreported` bounds how many clicks
  may be lost to finding 4. A call of the classifier comes at least once per period
  of the clock (`WithinOnePeriod`), otherwise no difference of two times means
  anything, and so do the samples of a ladder while a candidate waits and the
  updates of a pulse. A pause between detents may be longer than a period.
- *Knob*: 4 transitions per detent; 5 quarter steps either way, so that a detent
  and part of the next are reached in both directions; one missed state between
  two samples (with two, the decoder sees a turn the other way, which no count
  can admit) and two invalid transitions in all; a value of span 3 moved by steps
  of -5, so that one detent wraps more than once and in the negative.
  `KnobAssumption` excludes what does not fit the integers: more than 127
  transitions per detent, and bounds further apart than an `int32_t` reaches.
- *Ladder*: a converter of 7 codes with two buttons, two invalid codes and open.
- *Signals*: 20 steps of position, and an input is taken to have stood still for
  `Settled` = 20 samples, since smoothing may need a sample for each step (with
  fewer, `KnobFollowsInput` asks more than the code can do); five definite or
  indefinite levels; 7 raw codes of which two lie
  outside a range of 4; controls with and without deadband, smoothing and
  inversion; calibrations that rise, fall and are degenerate, over 19 voltages.
  `SignalAssumption` excludes a range that is reversed: `AnalogInput` divides by an
  unsigned difference there.
- *LEDs*: two color channels of four levels; three transitions, so that the count
  passes both parities.
- *Drivers*: chains of 2 cells, which can be half shifted; channels up to 3, so
  that a flush has a first, middle frames and a last; 2 pages of 3 columns in
  packets of 2, so that a packet is full, short, or cut; one pin in each bank of
  the expander; two queued answers; a multiplexer with one select line that is not
  connected. No bound on calls or failures. Taken from the chips, not from the
  code: a converter ignores a frame that is cut, a display controller a command
  whose arguments are cut. Taken from the use of the TLC5947: the application
  enables its outputs only after an `initialize()` that succeeded.
- *Firmwares*: a converter of 6 codes in and 10 out, with one code below, in and
  above each dead zone; averages of 2; a clock of 8 units with a period of 2 and
  three readings of 1, so that a loop is too long and the lag goes around; an LED that
  is dark for magnitudes the threshold admits; two
  multiplexed controls; one outage of the expander.
- *Display*: a canvas of 9 by 4 pixels, which has a row that ends inside a byte;
  shapes and clips that lie inside, across and outside of each other; one call per
  behaviour after any clip, from an empty and a striped canvas; widgets in boxes of
  50 x 58, 31 x 27, 32 x 48 (which the circle of a potentiometer leaves by a column),
  13 x 14, 7 x 8 and 2 x 9, the last two too small for some widgets; menus of up to 6 items, messages with long words,
  leading, double and trailing spaces.

## 5. Findings

1. `record_store.cpp:202-211`: `inspectSlot()` takes a slot it cannot read for an
   empty one. `store()` may then erase the newest record, which
   `record_store.hpp:159-160` says it cannot.
2. `file_storage.cpp:167-170`: remove, then rename. The comment there knows that
   this "is therefore weaker than POSIX rename replacement", but `file_storage.hpp:106`
   says "atomically", and both slots of a record store lie in that one file,
   so the promise of `record_store.hpp:159-160` is gone.
3. `timer2_tick.hpp:77-91`: the compare flag is not cleared (the edge latch does
   clear its own), so a tick may be counted that no millisecond stands for.
4. `press_classifier.cpp:40-48`: the release of a second click after the window,
   with no call in between that could report the first, replaces it.
5. `shift_register_74hc595.cpp:62-64`: the latch is pulsed whatever `transfer()`
   returned; lines 6-7 of that file say only after the complete chain has been
   transferred. `tlc5916.cpp` does the same without saying so; `tlc5947.cpp` tests
   the result.
6. `examples/projects/nano-r3-attenuverter/src/main.cpp:252`: the deadline advances
   by 1000 us per pass, and a pass makes 24 conversions of about 112 us. It falls
   behind by about 1.7 ms per pass, so that after about an hour the signed difference
   of line 249 has changed its sign, and no update is made for about half of the
   clock's period. Lines 246-247 call the test wrap-safe.
7. `widgets.cpp:403-404`: label and value of a selected menu item are written in
   inverted mode into the same box, and an inverted text fills its box first
   (`eurorack-display-text/src/display/text.cpp:223-225`), so that the label is
   never seen; `widgets.hpp:311-313` says that both are drawn. The fields of an
   inverted footer bar (lines 351-353) erase each other in the same way.

Seen while modelling, without a run:

- After a failed commit of a staged backend `load()` returns the record that was
  not committed (`record_store.cpp:183`); the next successful commit publishes it.
- FixedSlot relies on a commit that is atomic; where a commit may be cut between
  two pages of emulated EEPROM, a valid marker can stand before a partial payload.
- `sticky_overflow_edge_counter.hpp:83-84` says that `overflowed()` is true if 255
  edges or more have accumulated since the last `consume()`; line 52 sets the flag
  with the 256th. No edge is lost before that, so `NoEdgeLostUnflagged` asks for the
  flag only when one is.
- `loadExisting()` takes a read that fails after `gcount()` bytes for the end of a
  short file (`file_storage.cpp:215-232`): the object is ready and clean, and its
  image is not the disk. A `load()` in that session may return an older record or
  none; a `clear()` that finds the image erased already has nothing to commit, is
  acknowledged, and the record is there after the next start. A `store()` that is
  acknowledged does survive, because its commit writes the whole image.
- `repeatDelayMs` has no effect when it is shorter than the long press, and is
  overwritten at the long press otherwise (`press_classifier.cpp:53`): with the
  defaults the first repeat comes 720 ms after the press, not 750.
- The EEPROM adapter computes its capacity before `begin()`
  (`arduino_eeprom_storage.hpp:57`).
- `tlc5947.cpp:5-6` says that the startup diagnostics clear their temporary values
  before returning; on the error paths (lines 61-64, 72-75) they return without,
  so that the next `flush()` shows startup brightness.
- `ssd1306.cpp:77` initializes 25 commands with 24 values, so that a 0x00 is sent last.
- A potentiometer whose deadband is 0 reports `changed` at every sample
  (`potentiometer.cpp:79`), and with smoothing one stops up to
  deadband / smoothingFactor away from its input.
- On AVR, `writeHigh()` of a bidirectional pin in input mode changes the port latch
  and with it the pull-up (`arduino_gpio.hpp:170`); a floating input may then read
  low. `ReadsLikeVirtualPin` speaks of inputs that are driven.
- The attenuverter's gamma makes the PWM value of outputs below about 0.16 V round
  to 0, so that the LED is dark above its threshold of 0.025 V too (`LedLights`); a
  dark LED tells nothing.
- The controller firmware sets the expander's directions once
  (`examples/projects/nano-r3-oled-controller/src/main.cpp:135`) and looks at no
  result: if that write fails, or the expander's supply is interrupted, its latches
  come to follow the button and its pins stay inputs for ever, gate and LED
  floating. `ControlsAreFollowed` says both: pins that were set drive, pins that
  were lost go on floating.
- The controller firmware never clears its canvas
  (`examples/projects/nano-r3-oled-controller/src/main.cpp:110-123`): texts in normal
  mode are written over one another, and after the button has been pressed once the
  inverted area of the value stays filled.
- `drawMenuList()` compares rows with the unclamped `selectedIndex`
  (`widgets.cpp:385`), so that no row is highlighted when the selection is stale;
  `widgets.hpp:147-149` says that it is clamped.
- `drawText()` replaces the clip of its caller by its bounds instead of
  intersecting the two (`text.cpp:219-221`).
- Circles, discs and some glyphs touch pixels twice, so that under `Invert` they
  come out with gaps; `DrawsTheShape` claims single pixels for the others only.
- `drawPotentiometer()` (`widgets.cpp:254-260`) halves the diameter and draws a circle
  `2 * radius + 1` wide: where the inner width is the diameter and even, one column of
  it is outside the box, although `widgets.hpp:231` says "Draws a circle sized to fit
  `bounds`". `KnobSticksOut` names these boxes; the run has one of them (32 x 48), and
  `PaintsWhatItShould` allows the circle, and nothing else, that one column.
- `mcp3208.cpp:28-31` sends the start bit last in the first byte, as an MCP3008
  expects; the frames of an MCP3208's datasheet start two bits earlier. What the chip
  answers to it is outside the repository and not modelled.

## 6. Proofs

TLC shows the properties for the instances above; the proofs show them for every
value of the constants. They are checked by tlapm. Of the 40 properties of the
passing runs, 38 are theorems, all but the two about liveness; each is about the specification the run checks
(`Spec`, `StoragesSpec`, `AvrSpec`, `PanelSpec`, `RigSpec`). Hardly one is inductive
as it stands; what is added to it is the reason for which it holds.

**RecordStoreProofs.** `TypeCorrect`, `SequencesStayNeighbours`, `Durability`,
`LastGoodRecordSurvives`, `LoadReturnsWhatWasStored` and `StoreIsAtomic`, for all
payload sets, sizes, versions and sequence widths. That the newest record survives
depends on what the running call has already written. `IInv` adds, for each program
counter, that the target slot is the spare one (`TargetIsSpare`: erasing it leaves
`Current` as it is), what it contains by now (`TargetIsPrepared`), that the image of a
call about to commit holds what the call asked for (`ImageIsReady`), and that image
and media agree in a write-through backend. The key lemmas are `SuccessorIsNewer`
(signed comparison of neighbours across wraparound), `SpareCanBeOverwritten`,
`HeaderMakesCurrent` and `EveryWriteIsSafe`, which covers complete and incomplete
backend calls at once. `LoadInv` adds that image and media agree while a call is
acknowledged and that no result of `load()` outlives the start of a call; `RInv`, for
the refinement of `AtomicRecord`, that every valid slot holds a payload stored since
the last clear, which bounds the outcome of an interrupted `clear()`.

**StoragesProofs.** `DataSurvive` and `NoRollBack`: the record store where commit is
a sequence of file operations. The proof does not repeat the one above; it shows
that each step on the file is a step of the record store over its abstract backend
(`RecordStep`), a stutter, or the end of a `commit()` that did not complete, and
uses `IInv` through an instance of RecordStoreProofs (`Proved`), `CommitInv` of
FileStorage and `InStep`: an object exists exactly while the program runs, commit
runs only where the store called it, and an object that is not ready lets no call
past its first access. What a program sees whose file was read only in part has no record that the disk
does not have, and no two slots that are not neighbours (`PartIsSound`, from `DiskOK`:
the disk's own slots are neighbours), so that what it stores is in order; and since
the header of `store()` always changes the image, only a `clear()` can find nothing to
commit. From such a `clear()` to the next commit the store believes an empty disk
(`Believed`); the steps are shown to be steps of the store on the disk it believes
in.

**FileStorage.** `CleanIsOnDisk` and `DiskIsWhole`, for every set of images. The
invariant `CommitInv` adds to the two properties that an object in the middle of a
commit is ready and dirty, and that from the removal of the target on the temporary
file holds the image: so the file that is renamed is whole, and the flag is cleared
only when it is in place. The proof needs that a file that is missing and one that
is torn are different things, which is part of `ImageAssumption`.

**FixedSlot.** `MarkerIsHonest`, `AcknowledgedStays` and `NothingComesBack`, for all
payloads, sizes and both kinds of backend. `SlotInv` adds what each step of the
call has done by now (`StepOK`) and that image and media agree where writes go
through.

**AvrProofs.** `TypeCorrect`, `NoTickLost`, `OverrunReadWhole`, `LossIsFlagged` and
`MediansAreOwn`, for all widths of the counters, in the composition. `TickInv` and
`EdgeInv` say that interrupts are masked inside a call and that what the mainline
has loaded is current, and relate the flag to the edges counted since the last
`consume()`. `ScanInv` counts conversions: at least as many have ended
since the multiplexer was switched as the state of the handler says (`Ended`), so
that the second of them is the first of the channel itself (`Pipeline`); hence only
the first of the three places of a window can be foreign (`Windows`). `OnTime` is the
stronger pipeline of handlers that are never late, `Copies` what a snapshot has
copied by now.

**ControlPolicies.** `OwnershipIsEarned`: that a crossing is seen by comparing with
the previous sample alone rests on `OnOneSide`: as long as the control does not own
the value, all its samples since `arm()` lie on the side of the previous one.
`AccelerationIsReal`: the difference of two times modulo the period is the time that
was waited, as long as it is less than a period.

**PanelProofs.**
- `TypeCorrect`, `QueueIsFifo`: the ring implements `BoundedFifo` for every capacity,
  by the mapping of the ring onto a sequence.
- `ButtonNeverBounces`: while a level is awaited, the age of the candidate modulo the
  period is the time for which the samples have shown it, and short of the debounce
  time (`ButtonInv`). `PositionComesFromContacts`: of two contacts without overlap the
  one that opened is accepted no later than the one that closed, because its
  candidate is at least as old (`BreakFirst`). `MaskNeverChangesSilently`: the same
  for each pole of a bank (`PoleInv`).
- `NoTriggerArrivesTwice`: an output that is high and not noticed yet has risen since
  the last edge at the other end (`GateInv`).
- `LampsShowWhatWasAsked`: `DigitalInv`, `BiColorInv`, `RgbInv` relate what was asked,
  what is effective, the outputs and the count; a consumer that has seen a count has
  written the outputs of that count.
- `LadderTellsTheTruth`: a candidate that waits is never a whole period old
  (`LadderInv`). With a stable time of 0 a change is reported only by the second call
  that sees it, and the property does not hold: the theorem assumes
  `stableTimeMs > 0`.
- `GesturesAreMade`: the ages of the press, the pending click and the last repeat are
  the differences of the clock as long as these mean anything (`GestureAges`). It
  assumes `2 * RepeatIntervalMs <= TimeModulus`, because the deadline of a longer
  interval counts as reached at once (`press_classifier.hpp:144-146`); for the
  firmware's 32-bit milliseconds that is 24 days.
- `TurnsAreCounted`: the decoder has seen where the shaft is, and has less than a
  detent to account for (`EncoderInv`); one missed state is a jump of two bits and
  adds 1 to the count (lemma `Quarters` on the Gray code); the value is the
  total taken modulo the span, C++'s remainder of negative numbers included
  (`ValueInv`).
- `CodesAreNearest`: rounding to the nearest integer on a rising, falling or
  degenerate line, and clamping twice. It assumes that the ranges of jack and CV
  overlap: of two that do not, the second can bring the voltage back to where it was
  before the first limited it.
- `KnobFollows`: each sample of an input that stands still brings the position at
  least one step nearer, unless it is at rest (`FollowInv`). It assumes
  `Unit <= Settled`, that is, as many samples as there are steps, which is what the
  worst way to round takes.

**ApplicationsProofs.** The drivers, firmwares and widgets.
- `LampsShowFrames`: what is about to be latched after a success is the frame of the
  current values; a TLC5947 latches nothing else, and has latched once when its
  outputs are switched on (`LedInv`).
- `OutputsChangeTogether`: while `flushAll()` runs the outputs are the old ones and the
  input registers up to the next channel hold the buffered codes (`FlushInv`).
- `ReportedWritesHold`: a write that fails takes exactly its own register pair out of
  those reported (`PortInv`). `PinsReadAlike`: the port drives the pin exactly while
  the object is an output, with the level written last (`PinInv`).
  `AnswersComeFromTheirCall`: also the arithmetic of select lines: the bit of a
  channel number does not depend on the modulus (`ReaderInv`).
- `PanelShowsCanvas`: of a running flush, all pages before the current one and the
  columns before `offset` show the canvas, and the address pointer stands at the next
  column (`DisplayInv`), for every packet size.
- `LedNeverLies`: in front of the write the buffer holds the code of the voltage whose
  polarity the LED is going to tell, and only between the failure of a write and the
  end of the attempt to reach the safe state nothing is known (`LedStateInv`). It
  assumes `LitIsMoreThanHalfAStep`: a threshold finer than half a step of the
  converter would light the LED at the code in the middle. In the firmware it is
  25 mV against 1.2 mV.
- `SelectionIsOnScreen`: the arithmetic of `ensureMenuSelectionVisible()` for every
  number of items, rows and stale positions (`ScrollShowsSelection`).
- `WidgetsStayInTheirBoxes`: what is painted is a sequence of marks inside the box
  (`PaintInv`), shown widget by widget (`ParameterFits` to `OverlaysFit`). Most marks
  are clipped or inset; those that are not (the thumb and handle of a scrollbar, a
  circle around the middle, the line under a bar) need arithmetic. No letter of a wrapped
  message is lost because each line starts where the one before it ended, behind
  nothing but spaces (`Continues`, `LinesContinue`), so that every letter before the
  last line that is written is on a line (`NoLetterIsLost`). The theorem is about every
  box; what a box needs to have room for the widget is in the property (`HasRoom`: 13
  by 14 for a title and a button, 7 by 8 for a circle, 2 by 2 for a scroll bar), and
  so is the column by which a circle leaves a box of even width (`Reach`). It assumes
  the metrics of the built-in font, which are
  those widgets are drawn with.
- `EveryShapeIsDrawn`: for a canvas, shapes, clips and texts of every size, and patterns
  of every period. What the loops compute is shown by induction:
  - *Lines*: the error term of `drawLine()` is the distance from the true line, in units
    that make half a pixel `n`, the longer side (`HalfAPixel`): it stays within half a pixel
    if at most one of the two steps is taken per column, so that the walk is at column `k`
    after `k` steps (`FlatWalk`, `SteepWalk`), and arrives after `n` (`WalkEnds`).
  - *Circles*: the error term is `x*x + y*y - r*r + 2*y + 1 - x` (`ArcStep`), so that each
    point of the octant is within half a pixel of the circle (`IsOctant`,
    `OctantPoints`), and `x` takes every value from the radius down to where the
    octant meets its mirror image: hence no gaps (`CircleIsCircle`), and no holes in
    the disc (`DiscIsDisc`).
  - *Rectangles, glyphs*: the four edges have no point in common
    (`RectangleBorder`); the lines of a glyph join points of its box, and every line
    between two such points stays inside (`LineIsInside`).
  - *Canvas*: every clip a caller can set lets through pixels only
    (`SketchInv`, `IntersectionIsClipped`), and a sequence that touches each point once
    inverts each once (`AppliedOnce`).

The hypotheses of single theorems are named above; TLC's instances satisfy them.
The proofs of the record store, and through it of the store on a file, assume
`~ReadFaults`, and finding 1 is the reason. The other assumptions are those the
modules name on their constants (`PayloadAssumption`, `OnFileAssumption`,
`SignalAssumption`, ...): types, order of limits, and what the code itself cannot
work without, such as a pulse that is shorter than a period of the clock; TLC
evaluates them in the runs.

*Only model-checked*:
- `OutputFollowsInputs` and `ControlsAreFollowed`: liveness under fairness needs
  ENABLED, which the prover does not have.
- The properties of the runs that end in a violation are false.

No module declares a RECURSIVE operator; recursion is written as functions and folds.
Induction over data, for which the library's theorems take an operator as a parameter
that the provers cannot instantiate, is had from the well-foundedness of the numbers
instead, as induction over a *set* of numbers (`LeastElement`, `SetInduction` in
ApplicationsProofs): a recursive function exists and is the one that satisfies its equation
(`RecursionExists`), FlattenSeq is the concatenation of its sequences (`FlattenSteps`,
`FlattenPoints`), and the loops of `drawLine()`, `drawCircle()` and the wrapping of
messages follow from their single steps.

## 7. Not modelled

See `PROJECT.json` for each component. CRC-32 and the byte codec keep no state that
two calls could disagree about; the CRC is abstracted to what it is for. Floating
point is replaced by exact fractions, with rounding where the code rounds. The
shapes of letters and most symbols are tables. Interfaces have no behaviour; of the
adapters for EEPROM and I2C and of the memory storage only what a write does to its
bytes, and how it ends, is in the models of those who call them; the Arduino adapters
for analog inputs and time forward single calls; the
rest of the simulation libraries is test equipment. What the chips do is taken from
how the drivers use them.
