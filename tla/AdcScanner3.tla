----------------------------- MODULE AdcScanner3 -----------------------------
(***************************************************************************)
(* The free-running ADC scanner of the AVR platform (AdcScanner3 over      *)
(* MedianOfThreeScanner): three channels in rotation, four conversions     *)
(* each, of which the first is discarded.  A sample is abstracted to the   *)
(* channel it was converted from, which is what the rotation must keep     *)
(* straight: the converter is a pipeline one conversion deep.              *)
(*                                                                         *)
(* The converter is hardware, external to the code: it takes ADMUX over    *)
(* when a conversion starts, stores the result and sets ADIF when the      *)
(* conversion ends, and starts the next one at once.                       *)
(***************************************************************************)
EXTENDS AvrMainline, Integers, Sequences

CONSTANT None  \* no sample since the last reset

channelCount == 3
AdcChannel == 0 .. channelCount - 1
NoneAssumption == None \notin AdcChannel

VARIABLES
    converting,  \* the channel of the conversion in progress, None when off
    adc,         \* ADC: the channel the last result was converted from
    adif,        \* ADIF: a result waits to be serviced
    admux,       \* the channel selected in ADMUX
    samples,     \* samples_
    channel,     \* channel_
    sampleIndex, \* sampleIndex_
    discard,     \* discard_ # 0
    ready,       \* ready_
    handler,     \* the handler's next step: "none", "record" or "select"
    copied,      \* snapshot(): the rows copied so far, in order
    late         \* history: a conversion has ended while the handler of the
                 \* one before ran or waited, or initialize() was called
                 \* while the scan ran

vars == <<converting, adc, adif, admux, samples, channel, sampleIndex, discard,
          ready, handler, masked, pc, copied, late>>

hardware == <<converting, adc, adif, admux>>
scanner == <<samples, channel, sampleIndex, discard, ready>>
mainline == <<masked, pc, copied>>

Sample == AdcChannel \cup {None}
Row == [0 .. 2 -> Sample]

TypeOK ==
    /\ converting \in Sample /\ adc \in Sample
    /\ adif \in BOOLEAN
    /\ admux \in AdcChannel
    /\ samples \in [AdcChannel -> Row]
    /\ channel \in AdcChannel
    /\ sampleIndex \in 0 .. 2
    /\ discard \in BOOLEAN
    /\ ready \in BOOLEAN
    /\ handler \in {"none", "record", "select"}
    /\ masked \in BOOLEAN
    /\ pc \in {"idle", "reset", "mux", "start", "copy", "exit"}
    /\ copied \in Seq(Row)
    /\ late \in BOOLEAN

NoRow == [i \in 0 .. 2 |-> None]
NoRows == [c \in AdcChannel |-> NoRow]

Init ==
    /\ converting = None
    /\ adc = None
    /\ adif = FALSE
    /\ admux = 0
    /\ samples = NoRows
    /\ channel = 0
    /\ sampleIndex = 0
    /\ discard = TRUE
    /\ ready = FALSE
    /\ handler = "none"
    /\ masked = FALSE
    /\ pc = "idle"
    /\ copied = <<>>
    /\ late = FALSE

-----------------------------------------------------------------------------
(***************************************************************************)
(* Hardware: a conversion ends and the next one starts.                    *)
(***************************************************************************)
ConversionEnds ==
    /\ converting # None
    /\ adc' = converting
    /\ adif' = TRUE
    /\ converting' = admux
    /\ late' = (late \/ adif \/ handler # "none")
    /\ UNCHANGED <<admux, scanner, handler, mainline>>

(***************************************************************************)
(* ISR(ADC_vect) is entered, which clears ADIF.                            *)
(***************************************************************************)
EnterHandler ==
    /\ adif /\ handler = "none" /\ ~masked
    /\ adif' = FALSE
    /\ handler' = "record"
    /\ UNCHANGED <<converting, adc, admux, scanner, mainline, late>>

(***************************************************************************)
(* MedianOfThreeScanner::recordSample(ADC).                                *)
(***************************************************************************)
recordSample ==
    \/ /\ discard
       /\ discard' = FALSE
       /\ UNCHANGED <<samples, channel, sampleIndex, ready>>
    \/ /\ ~discard
       /\ samples' = [samples EXCEPT ![channel][sampleIndex] = adc]
       /\ sampleIndex' = (sampleIndex + 1) % 3
       /\ channel' = IF sampleIndex = 2 THEN (channel + 1) % channelCount
                                        ELSE channel
       /\ discard' = (sampleIndex = 2)
       /\ ready' = (ready \/ (sampleIndex = 2 /\ channel = channelCount - 1))

(***************************************************************************)
(* onConversionComplete(): after a switch ADMUX is reprogrammed.           *)
(***************************************************************************)
Record ==
    /\ handler = "record"
    /\ recordSample
    /\ handler' = IF channel' # channel THEN "select" ELSE "none"
    /\ UNCHANGED <<hardware, mainline, late>>

Select ==
    /\ handler = "select"
    /\ admux' = channel
    /\ handler' = "none"
    /\ UNCHANGED <<converting, adc, adif, scanner, mainline, late>>

-----------------------------------------------------------------------------
(***************************************************************************)
(* The ATOMIC_BLOCK of initialize() and of snapshot().  The mainline does  *)
(* not run while the handler does.                                         *)
(***************************************************************************)
\* Faulty: without the atomic block.
EnterUnmasked(next) ==
    /\ pc = "idle" /\ handler = "none"
    /\ pc' = next
    /\ UNCHANGED <<hardware, scanner, handler, masked, copied>>

Enter(next) ==
    /\ handler = "none"
    /\ BlockBegins(next)
    /\ UNCHANGED <<hardware, scanner, handler, copied>>

Exit ==
    /\ pc = "exit" /\ handler = "none"
    /\ BlockEnds
    /\ copied' = <<>>
    /\ UNCHANGED <<hardware, scanner, handler, late>>

Initialize ==
    /\ Enter("reset")
    /\ late' = (late \/ converting # None)

(***************************************************************************)
(* initialize(): the model is reset, the first channel selected, and the   *)
(* converter started; one that runs already goes on with its conversion.   *)
(***************************************************************************)
reset ==
    /\ pc = "reset" /\ handler = "none"
    /\ samples' = NoRows
    /\ channel' = 0
    /\ sampleIndex' = 0
    /\ discard' = TRUE
    /\ ready' = FALSE
    /\ pc' = "mux"
    /\ UNCHANGED <<hardware, handler, masked, copied, late>>

SelectFirst ==
    /\ pc = "mux" /\ handler = "none"
    /\ admux' = 0
    /\ pc' = "start"
    /\ UNCHANGED <<converting, adc, adif, scanner, handler, masked, copied,
                    late>>

Start ==
    /\ pc = "start" /\ handler = "none"
    /\ converting' = IF converting = None THEN admux ELSE converting
    /\ pc' = "exit"
    /\ UNCHANGED <<adc, adif, admux, scanner, handler, masked, copied, late>>

(***************************************************************************)
(* snapshot(): the rows are read one after the other.                      *)
(***************************************************************************)
Snapshot == Enter("copy") /\ UNCHANGED late

CopyRow ==
    /\ pc = "copy" /\ handler = "none"
    /\ copied' = Append(copied, samples[Len(copied)])
    /\ pc' = IF Len(copied) = channelCount - 1 THEN "exit" ELSE "copy"
    /\ UNCHANGED <<hardware, scanner, handler, masked, late>>

Next ==
    \/ ConversionEnds
    \/ EnterHandler \/ Record \/ Select
    \/ Initialize \/ reset \/ SelectFirst \/ Start
    \/ Snapshot \/ CopyRow
    \/ Exit

Spec == Init /\ [][Next]_vars

-----------------------------------------------------------------------------
Own(c) == {i \in 0 .. 2 : samples[c][i] = c}

(***************************************************************************)
(* Once the scanner is ready, each channel's window holds three samples    *)
(* taken since initialize(), of which at most one was converted from       *)
(* another channel, so that the median lies between two samples of the     *)
(* channel itself: however late the handler runs, and also when            *)
(* initialize() is called while a conversion is in progress.               *)
(***************************************************************************)
MedianIsOwn ==
    ready => \A c \in AdcChannel :
                 /\ \E i, j \in Own(c) : i # j
                 /\ \A i \in 0 .. 2 : samples[c][i] # None

(***************************************************************************)
(* As long as each handler has finished before the next conversion ended   *)
(* and the scan has been started once, every recorded sample was converted *)
(* from its own channel: the one sample discarded after a switch is the    *)
(* one in the pipeline.                                                    *)
(***************************************************************************)
SamplesAreOwn ==
    ~late => \A c \in AdcChannel, i \in 0 .. 2 : samples[c][i] \in {c, None}

(***************************************************************************)
(* A snapshot shows one state of the scanner: rows already copied are      *)
(* still what the scanner holds when the last one is.                      *)
(***************************************************************************)
SnapshotIsOneState ==
    \A i \in 1 .. Len(copied) : copied[i] = samples[i - 1]
=============================================================================
