------------------------------ MODULE AvrProofs ------------------------------
(***************************************************************************)
(* The firmware of AvrInterrupts, for every limit of the counters, any     *)
(* number of channels, ticks, edges and conversions: the tick source       *)
(* neither loses nor duplicates a tick and never returns a torn overrun    *)
(* count, the edge latch raises its overflow flag if an edge is lost and   *)
(* not before the count is full, and the scanner's medians are those of    *)
(* their channels.                                                         *)
(*                                                                         *)
(* Each component has an invariant of its own.  They meet in the flag and  *)
(* the program counter that the components share: a handler runs only with *)
(* masked = FALSE, that is, between the calls of the mainline, where       *)
(* nothing that was read is still to be used; and a call of one component  *)
(* never passes through a step of another.                                 *)
(***************************************************************************)
EXTENDS AvrInterrupts, Integers, Sequences, TLAPS

MaskedInside == pc # "idle" => masked

-----------------------------------------------------------------------------
(***************************************************************************)
(* The tick source.  What the mainline has read still holds while it is    *)
(* inside its block.                                                       *)
(***************************************************************************)
PendingIsCurrent ==
    /\ pc = "clear" => value = pending
    /\ pc = "high" => bytes[1] = overruns % Byte

TickInv ==
    FlagsOK /\ CountsOK /\ MaskedInside /\ PendingIsCurrent
        /\ TicksAccounted /\ OverrunReadIsWhole

LEMMA TickStepsKeepInv == TickInv /\ [Next]_vars => TickInv'
<1> SUFFICES ASSUME TickInv, [Next]_vars PROVE TickInv'
  OBVIOUS
<1> USE TickAssumption
<1> USE DEF TickInv, FlagsOK, CountsOK, BlockBegins, BlockEnds,
            MaskedInside, PendingIsCurrent, TicksAccounted,
            OverrunReadIsWhole, OnItsWay
<1>1. ASSUME CompareMatch PROVE TickInv'
  <2>1. FlagsOK'
    BY <1>1 DEF CompareMatch, FlagsOK, timer
  <2> QED
    BY <1>1, <2>1 DEF CompareMatch, timer, counter
<1>2. ASSUME onCompareMatch PROVE TickInv'
  <2>1. FlagsOK' /\ ~masked /\ pc = "idle"
    BY <1>2 DEF onCompareMatch, FlagsOK, timer
  <2>2. CountsOK' /\ pc' = pc
    BY <1>2 DEF onCompareMatch, onTick
  <2>3. TicksAccounted'
    BY <1>2, <2>1 DEF onCompareMatch, onTick
  <2> QED
    BY <1>2, <2>1, <2>2, <2>3 DEF onCompareMatch
<1>3. ASSUME NEW next \in {"initialize", "stop", "read", "low"}, Enter(next)
      PROVE  TickInv'
  <2>1. FlagsOK'
    BY <1>3 DEF Enter, FlagsOK, timer
  <2> QED
    BY <1>3, <2>1 DEF Enter, timer, counter, history
<1>4. ASSUME initialize1kHz PROVE TickInv'
  <2>1. FlagsOK'
    BY <1>4 DEF initialize1kHz, FlagsOK
  <2> QED
    BY <1>4, <2>1 DEF initialize1kHz
<1>5. ASSUME stop PROVE TickInv'
  <2>1. FlagsOK'
    BY <1>5 DEF stop, FlagsOK
  <2> QED
    BY <1>5, <2>1 DEF stop, counter, history
<1>6. ASSUME Exit PROVE TickInv'
  <2>1. FlagsOK'
    BY <1>6 DEF Exit, FlagsOK, timer
  <2> QED
    BY <1>6, <2>1 DEF Exit, timer, counter, history
<1>7. ASSUME ConsumeRead PROVE TickInv'
  <2>1. FlagsOK'
    BY <1>7 DEF ConsumeRead, FlagsOK, timer
  <2> QED
    BY <1>7, <2>1 DEF ConsumeRead, timer, counter, history
<1>8. ASSUME ConsumeClear PROVE TickInv'
  <2>1. FlagsOK'
    BY <1>8 DEF ConsumeClear, FlagsOK, timer
  <2> QED
    BY <1>8, <2>1 DEF ConsumeClear, timer, history
<1>9. ASSUME ConsumeReturn PROVE TickInv'
  <2>1. FlagsOK'
    BY <1>9 DEF ConsumeReturn, FlagsOK, timer
  <2> QED
    BY <1>9, <2>1 DEF ConsumeReturn, timer, counter
<1>10. ASSUME OverrunLow PROVE TickInv'
  <2>1. FlagsOK'
    BY <1>10 DEF OverrunLow, FlagsOK, timer
  <2>2. overruns % Byte \in Nat
    OBVIOUS
  <2> QED
    BY <1>10, <2>1, <2>2 DEF OverrunLow, timer, counter, history
<1>11. ASSUME OverrunHigh PROVE TickInv'
  <2>1. FlagsOK'
    BY <1>11 DEF OverrunHigh, FlagsOK, timer
  <2>2. overruns \div Byte \in Nat
    OBVIOUS
  <2> QED
    BY <1>11, <2>1, <2>2 DEF OverrunHigh, timer, counter, history
<1>12. ASSUME OverrunReturn PROVE TickInv'
  <2>1. FlagsOK'
    BY <1>12 DEF OverrunReturn, FlagsOK, timer
  <2> QED
    BY <1>12, <2>1 DEF OverrunReturn, timer, counter, history
<1>13. CASE UNCHANGED vars
  BY <1>13 DEF vars, FlagsOK
<1> QED
  BY <1>1, <1>2, <1>3, <1>4, <1>5, <1>6, <1>7, <1>8, <1>9, <1>10, <1>11,
     <1>12, <1>13 DEF Next

-----------------------------------------------------------------------------
(***************************************************************************)
(* The edge latch.  The mainline is masked wherever it has read a count    *)
(* that it has not handed out, and what it has read is still true.         *)
(***************************************************************************)
CountIsCurrent == pc = "edgeClear" => edgeValue = count[channel]

EdgeInv ==
    EdgesOK /\ masked \in BOOLEAN /\ MaskedInside /\ CountIsCurrent /\ NoEdgeLostUnflagged

LEMMA EdgeStepsKeepInv == EdgeInv /\ [EdgeNext]_edgeVars => EdgeInv'
<1> SUFFICES ASSUME EdgeInv, [EdgeNext]_edgeVars PROVE EdgeInv'
  OBVIOUS
<1> USE EdgeAssumption
         DEF EdgeInv, EdgesOK, MaskedInside, CountIsCurrent,
             NoEdgeLostUnflagged, Known, InHand, edgeCall, edgeHistory
<1>1. ASSUME NEW c \in Channel, Edge(c) PROVE EdgeInv'
  BY <1>1 DEF Edge
<1>2. ASSUME NEW c \in Channel, on(c) PROVE EdgeInv'
  <2>1. pc = "idle" /\ pc' = "idle" /\ masked' = masked
    BY <1>2 DEF on
  <2>0. /\ saturated' \in [Channel -> BOOLEAN]
        /\ \A d \in Channel : saturated[d] => saturated'[d]
        /\ count'[c] = MaxCount => saturated'[c]
    BY <1>2, Zenon DEF on
  <2>2. EdgesOK'
    <3>1. eifr' \in [Channel -> BOOLEAN] /\ eimsk' \in BOOLEAN
      BY <1>2 DEF on
    <3>2. overflow' \in [Channel -> BOOLEAN]
      BY <1>2 DEF on, onEdge
    <3>3. count' \in [Channel -> 0 .. MaxCount]
      <4>1. CASE count[c] = MaxCount
        BY <1>2, <4>1 DEF on, onEdge
      <4>2. CASE count[c] # MaxCount
        <5>1. count[c] + 1 \in 0 .. MaxCount
          BY <4>2
        <5>2. count' = [count EXCEPT ![c] = count[c] + 1]
          BY <1>2, <4>2 DEF on, onEdge
        <5> QED
          BY <5>1, <5>2
      <4> QED
        BY <4>1, <4>2
    <3> QED
      BY <1>2, <2>0, <3>1, <3>2, <3>3 DEF on
  <2>3. ASSUME NEW d \in Channel
        PROVE  /\ edgesServiced'[d] >= Known(d)'
               /\ edgesServiced'[d] > Known(d)' => overflow'[d]
               /\ overflow'[d] => saturated'[d]
    <3>1. CASE d # c
      BY <1>2, <2>0, <2>1, <3>1 DEF on, onEdge
    <3>2. CASE d = c /\ count[c] = MaxCount
      BY <1>2, <2>0, <2>1, <3>2 DEF on, onEdge
    <3>3. CASE d = c /\ count[c] # MaxCount
      <4>1. /\ count'[d] = count[d] + 1 /\ overflow'[d] = overflow[d]
            /\ edgesServiced'[d] = edgesServiced[d] + 1
            /\ edgesConsumed'[d] = edgesConsumed[d]
        BY <1>2, <3>3 DEF on, onEdge
      <4>2. Known(d)' = Known(d) + 1
        BY <2>1, <4>1
      <4> QED
        BY <2>0, <4>1, <4>2
    <3> QED
      BY <3>1, <3>2, <3>3
  <2> QED
    BY <2>1, <2>2, <2>3
<1>3. ASSUME NEW next \in {"initializeRisingEdges", "stopEdges", "edgeRead"},
             NEW c \in Channel, EnterEdgeCall(next, c)
      PROVE  EdgeInv'
  BY <1>3 DEF EnterEdgeCall, BlockBegins
<1>4. CASE initializeRisingEdges
  BY <1>4 DEF initializeRisingEdges
<1>5. CASE resetCounters
  BY <1>5 DEF resetCounters
<1>6. CASE stopEdges
  BY <1>6 DEF stopEdges
<1>7. CASE ExitEdgeCall
  BY <1>7 DEF ExitEdgeCall, BlockEnds
<1>8. CASE consumeRead
  BY <1>8 DEF consumeRead
<1>9. CASE consumeClear
  BY <1>9 DEF consumeClear
<1>10. CASE consumeReturn
  <2>1. EdgesOK' /\ pc' = "idle" /\ masked' = FALSE
    BY <1>10 DEF consumeReturn, BlockEnds
  <2>2. ASSUME NEW d \in Channel PROVE Known(d)' = Known(d)
    BY <1>10 DEF consumeReturn, BlockEnds
  <2>3. NoEdgeLostUnflagged'
    BY <1>10, <2>2 DEF consumeReturn
  <2> QED
    BY <2>1, <2>3
<1>11. CASE UNCHANGED edgeVars
  BY <1>11 DEF edgeVars
<1> QED
  BY <1>1, <1>2, <1>3, <1>4, <1>5, <1>6, <1>7, <1>8, <1>9, <1>10, <1>11 DEF EdgeNext

-----------------------------------------------------------------------------
(***************************************************************************)
(* The scanner.  A sample to be recorded has waited for the converter's    *)
(* pipeline: of the conversions that ended since ADMUX was switched, the   *)
(* first was started before, so that the second is the first of the        *)
(* channel itself.  Each run of the handler takes one, and one more waits  *)
(* if ADIF is set or the handler runs, however many have ended unserviced. *)
(***************************************************************************)
ScannerTypes ==
    /\ converting \in Scanner!Sample /\ adc \in Scanner!Sample
    /\ adif \in BOOLEAN
    /\ admux \in Scanner!AdcChannel
    /\ samples \in [Scanner!AdcChannel -> Scanner!Row]
    /\ scannedChannel \in Scanner!AdcChannel
    /\ sampleIndex \in 0 .. 2
    /\ discard \in BOOLEAN
    /\ ready \in BOOLEAN
    /\ handler \in {"none", "record", "select"}
    /\ masked \in BOOLEAN
    /\ late \in BOOLEAN

\* At least so many conversions have ended since ADMUX was switched.
Ended ==
    (IF adif THEN 1 ELSE 0) + (IF handler = "record" THEN 1 ELSE 0)
        + (IF discard THEN -1 ELSE sampleIndex)

Alternation ==
    /\ MaskedInside
    /\ pc # "idle" => handler = "none"
    /\ pc = "mux" => scannedChannel = 0 /\ discard
    /\ discard => sampleIndex = 0
    /\ handler = "select" => discard

Pipeline ==
    /\ handler # "select" /\ pc # "mux" => admux = scannedChannel
    /\ adif \/ handler = "record" => adc # None
    /\ Ended >= 1 => converting = scannedChannel
    /\ Ended >= 2 => adc = scannedChannel

Windows ==
    /\ \A c \in Scanner!AdcChannel : \A i \in 1 .. 2 : samples[c][i] \in {c, None}
    /\ \A c \in Scanner!AdcChannel : \A i \in 0 .. 2 :
           ready \/ c < scannedChannel \/ (c = scannedChannel /\ i < sampleIndex)
               => samples[c][i] # None

Copies ==
    /\ copied \in Seq(Scanner!Row)
    /\ copied # <<>> => pc \in {"copy", "exit"}
    /\ pc = "copy" => Len(copied) <= 2
    /\ Scanner!SnapshotIsOneState

(***************************************************************************)
(* Without a late handler each conversion is recorded before the next one  *)
(* ends, and the scan was started once.                                    *)
(***************************************************************************)
OnTime ==
    ~late =>
        /\ \A c \in Scanner!AdcChannel : \A i \in 0 .. 2 : samples[c][i] \in {c, None}
        /\ converting = None => ~adif /\ handler = "none" /\ discard
        /\ pc \in {"reset", "mux", "start"} => converting = None
        /\ adif => handler = "none"
        /\ (adif \/ handler = "record") /\ ~discard => adc = scannedChannel
        /\ adif \/ handler = "record" \/ ~discard => converting = scannedChannel

ScanInv == ScannerTypes /\ Alternation /\ Pipeline /\ Windows /\ Copies /\ OnTime

LEMMA ScanTypes ==
    /\ Scanner!AdcChannel = {0, 1, 2}
    /\ None \notin {0, 1, 2}
    /\ Scanner!Sample = {0, 1, 2, None}
    /\ Scanner!Row = [0 .. 2 -> {0, 1, 2, None}]
<1>1. Scanner!AdcChannel = {0, 1, 2}
  BY DEF Scanner!AdcChannel, Scanner!channelCount
<1> QED
  BY <1>1, ScannerAssumption DEF Scanner!NoneAssumption, Scanner!Sample, Scanner!Row

LEMMA ScanTypesKept == ScannerTypes /\ [Scanner!Next]_Scanner!vars => ScannerTypes'
<1> SUFFICES ASSUME ScannerTypes, [Scanner!Next]_Scanner!vars PROVE ScannerTypes'
  OBVIOUS
<1> USE ScanTypes DEF ScannerTypes
<1>1. CASE Scanner!ConversionEnds
  BY <1>1 DEF Scanner!ConversionEnds, Scanner!scanner, Scanner!mainline
<1>2. CASE Scanner!EnterHandler
  BY <1>2 DEF Scanner!EnterHandler, Scanner!scanner, Scanner!mainline
<1>3. CASE Scanner!Record
  <2>1. /\ UNCHANGED <<converting, adc, adif, admux, masked, late>>
        /\ handler' \in {"none", "record", "select"}
    BY <1>3 DEF Scanner!Record, Scanner!hardware, Scanner!mainline
  <2>2. CASE discard
    BY <1>3, <2>1, <2>2 DEF Scanner!Record, Scanner!recordSample
  <2>3. CASE ~discard
    <3>1. /\ samples' = [samples EXCEPT ![scannedChannel][sampleIndex] = adc]
          /\ sampleIndex' = (sampleIndex + 1) % 3
          /\ scannedChannel' = IF sampleIndex = 2 THEN (scannedChannel + 1) % 3
                                                  ELSE scannedChannel
          /\ discard' = (sampleIndex = 2)
          /\ ready' = (ready \/ (sampleIndex = 2 /\ scannedChannel = 2))
      BY <1>3, <2>3 DEF Scanner!Record, Scanner!recordSample, Scanner!channelCount
    <3>2. sampleIndex' \in 0 .. 2 /\ scannedChannel' \in {0, 1, 2}
      BY <3>1
    <3>3. samples' \in [{0, 1, 2} -> [0 .. 2 -> {0, 1, 2, None}]]
      BY <3>1
    <3>4. discard' \in BOOLEAN /\ ready' \in BOOLEAN
      BY <3>1
    <3> QED
      BY <2>1, <3>2, <3>3, <3>4
  <2> QED
    BY <2>2, <2>3
<1>4. CASE Scanner!Select
  BY <1>4 DEF Scanner!Select, Scanner!scanner, Scanner!mainline
<1>5. CASE Scanner!Initialize \/ Scanner!Snapshot
  BY <1>5 DEF Scanner!Initialize, Scanner!Snapshot, Scanner!Enter, Scanner!BlockBegins,
              Scanner!hardware, Scanner!scanner
<1>6. CASE Scanner!reset
  <2>1. Scanner!NoRows \in [{0, 1, 2} -> [0 .. 2 -> {0, 1, 2, None}]]
    BY DEF Scanner!NoRows, Scanner!NoRow
  <2>2. samples' \in [{0, 1, 2} -> [0 .. 2 -> {0, 1, 2, None}]]
    BY <1>6, <2>1 DEF Scanner!reset
  <2>3. scannedChannel' \in {0, 1, 2} /\ sampleIndex' \in 0 .. 2
    BY <1>6 DEF Scanner!reset
  <2>4. discard' \in BOOLEAN /\ ready' \in BOOLEAN
    BY <1>6 DEF Scanner!reset
  <2>5. UNCHANGED <<converting, adc, adif, admux, handler, masked, late>>
    BY <1>6 DEF Scanner!reset, Scanner!hardware
  <2> QED
    BY <2>2, <2>3, <2>4, <2>5
<1>7. CASE Scanner!SelectFirst
  BY <1>7 DEF Scanner!SelectFirst, Scanner!scanner
<1>8. CASE Scanner!Start
  BY <1>8 DEF Scanner!Start, Scanner!scanner
<1>9. CASE Scanner!CopyRow
  BY <1>9 DEF Scanner!CopyRow, Scanner!hardware, Scanner!scanner
<1>10. CASE Scanner!Exit
  BY <1>10 DEF Scanner!Exit, Scanner!BlockEnds, Scanner!hardware, Scanner!scanner
<1>11. CASE UNCHANGED Scanner!vars
  BY <1>11 DEF Scanner!vars
<1> QED
  BY <1>1, <1>2, <1>3, <1>4, <1>5, <1>6, <1>7, <1>8, <1>9, <1>10, <1>11
  DEF Scanner!Next

LEMMA RecordEffects ==
    ASSUME ScannerTypes, Alternation, Scanner!Record
    PROVE  /\ handler = "record" /\ pc = "idle"
           /\ UNCHANGED <<converting, adc, adif, admux, masked, pc, copied, late>>
           /\ \/ /\ discard /\ discard' = FALSE /\ handler' = "none"
                 /\ UNCHANGED <<samples, scannedChannel, sampleIndex, ready>>
              \/ /\ ~discard /\ sampleIndex \in {0, 1} /\ sampleIndex' = sampleIndex + 1
                 /\ discard' = FALSE /\ handler' = "none"
                 /\ samples' = [samples EXCEPT ![scannedChannel][sampleIndex] = adc]
                 /\ UNCHANGED <<scannedChannel, ready>>
              \/ /\ ~discard /\ sampleIndex = 2 /\ sampleIndex' = 0
                 /\ discard' = TRUE /\ handler' = "select"
                 /\ samples' = [samples EXCEPT ![scannedChannel][sampleIndex] = adc]
                 /\ scannedChannel' = IF scannedChannel = 2 THEN 0 ELSE scannedChannel + 1
                 /\ ready' = (ready \/ scannedChannel = 2)
<1> USE ScanTypes DEF ScannerTypes, Alternation
<1>1. /\ handler = "record" /\ pc = "idle"
      /\ UNCHANGED <<converting, adc, adif, admux, masked, pc, copied, late>>
      /\ handler' = IF scannedChannel' # scannedChannel THEN "select" ELSE "none"
  BY DEF Scanner!Record, Scanner!hardware, Scanner!mainline
<1>2. CASE discard
  BY <1>1, <1>2 DEF Scanner!Record, Scanner!recordSample
<1>3. CASE ~discard
  <2>1. /\ samples' = [samples EXCEPT ![scannedChannel][sampleIndex] = adc]
        /\ sampleIndex' = (sampleIndex + 1) % 3
        /\ scannedChannel' = IF sampleIndex = 2 THEN (scannedChannel + 1) % 3
                                                ELSE scannedChannel
        /\ discard' = (sampleIndex = 2)
        /\ ready' = (ready \/ (sampleIndex = 2 /\ scannedChannel = 2))
    BY <1>3 DEF Scanner!Record, Scanner!recordSample, Scanner!channelCount
  <2>2. CASE sampleIndex = 2
    <3>1. (2 + 1) % 3 = 0 /\ (0 + 1) % 3 = 1 /\ (1 + 1) % 3 = 2
      OBVIOUS
    <3>2. sampleIndex' = 0 /\ discard' = TRUE /\ ready' = (ready \/ scannedChannel = 2)
      BY <2>1, <2>2, <3>1
    <3>3. scannedChannel' = IF scannedChannel = 2 THEN 0 ELSE scannedChannel + 1
      BY <2>1, <2>2, <3>1
    <3>4. handler' = "select"
      BY <1>1, <3>3
    <3> QED
      BY <1>1, <1>3, <2>1, <2>2, <3>2, <3>3, <3>4
  <2>3. CASE sampleIndex # 2
    <3>1. sampleIndex \in {0, 1} /\ sampleIndex' = sampleIndex + 1
      BY <2>1, <2>3
    <3>2. discard' = FALSE /\ scannedChannel' = scannedChannel /\ ready' = ready
      BY <2>1, <2>3
    <3> QED
      BY <1>1, <1>3, <2>1, <3>1, <3>2
  <2> QED
    BY <2>2, <2>3
<1> QED
  BY <1>2, <1>3

LEMMA AlternationKept ==
    ScanInv /\ [Scanner!Next]_Scanner!vars => Alternation'
<1> SUFFICES ASSUME ScanInv, [Scanner!Next]_Scanner!vars PROVE Alternation'
  OBVIOUS
<1>0. ScannerTypes /\ Alternation
  BY DEF ScanInv
<1> USE <1>0, ScanTypes DEF ScannerTypes, Alternation, MaskedInside
<1>1. CASE Scanner!ConversionEnds
  BY <1>1 DEF Scanner!ConversionEnds, Scanner!scanner, Scanner!mainline
<1>2. CASE Scanner!EnterHandler
  BY <1>2 DEF Scanner!EnterHandler, Scanner!scanner, Scanner!mainline
<1>3. CASE Scanner!Record
  BY <1>3, RecordEffects
<1>4. CASE Scanner!Select
  BY <1>4 DEF Scanner!Select, Scanner!scanner, Scanner!mainline
<1>5. CASE Scanner!Initialize
  BY <1>5 DEF Scanner!Initialize, Scanner!Enter, Scanner!BlockBegins,
              Scanner!hardware, Scanner!scanner
<1>6. CASE Scanner!Snapshot
  BY <1>6 DEF Scanner!Snapshot, Scanner!Enter, Scanner!BlockBegins,
              Scanner!hardware, Scanner!scanner
<1>7. CASE Scanner!reset
  BY <1>7 DEF Scanner!reset, Scanner!hardware
<1>8. CASE Scanner!SelectFirst
  BY <1>8 DEF Scanner!SelectFirst, Scanner!scanner
<1>9. CASE Scanner!Start
  BY <1>9 DEF Scanner!Start, Scanner!scanner
<1>10. CASE Scanner!CopyRow
  BY <1>10 DEF Scanner!CopyRow, Scanner!hardware, Scanner!scanner
<1>11. CASE Scanner!Exit
  BY <1>11 DEF Scanner!Exit, Scanner!BlockEnds, Scanner!hardware,
              Scanner!scanner
<1>12. CASE UNCHANGED Scanner!vars
  BY <1>12 DEF Scanner!vars
<1> QED
  BY <1>1, <1>2, <1>3, <1>4, <1>5, <1>6, <1>7, <1>8,
     <1>9, <1>10, <1>11, <1>12
  DEF Scanner!Next

LEMMA PipelineKept ==
    ScanInv /\ [Scanner!Next]_Scanner!vars => Pipeline'
<1> SUFFICES ASSUME ScanInv, [Scanner!Next]_Scanner!vars PROVE Pipeline'
  OBVIOUS
<1>0. ScannerTypes /\ Alternation /\ Pipeline
  BY DEF ScanInv
<1> USE <1>0, ScanTypes DEF ScannerTypes, Alternation, MaskedInside, Pipeline, Ended
<1>1. CASE Scanner!ConversionEnds
  BY <1>1 DEF Scanner!ConversionEnds, Scanner!scanner, Scanner!mainline
<1>2. CASE Scanner!EnterHandler
  BY <1>2 DEF Scanner!EnterHandler, Scanner!scanner, Scanner!mainline
<1>3. CASE Scanner!Record
  <2>1. /\ handler = "record" /\ pc' = "idle"
        /\ UNCHANGED <<converting, adc, adif, admux>>
    BY <1>3, RecordEffects
  <2>2. CASE discard /\ discard' = FALSE /\ handler' = "none"
             /\ UNCHANGED <<scannedChannel, sampleIndex>>
    BY <2>1, <2>2
  <2>3. CASE ~discard /\ sampleIndex \in {0, 1} /\ sampleIndex' = sampleIndex + 1
             /\ discard' = FALSE /\ handler' = "none" /\ UNCHANGED scannedChannel
    BY <2>1, <2>3
  <2>4. CASE discard' = TRUE /\ handler' = "select"
    BY <2>1, <2>4
  <2> QED
    BY <1>3, <2>2, <2>3, <2>4, RecordEffects
<1>4. CASE Scanner!Select
  BY <1>4 DEF Scanner!Select, Scanner!scanner, Scanner!mainline
<1>5. CASE Scanner!Initialize
  BY <1>5 DEF Scanner!Initialize, Scanner!Enter, Scanner!BlockBegins,
              Scanner!hardware, Scanner!scanner
<1>6. CASE Scanner!Snapshot
  BY <1>6 DEF Scanner!Snapshot, Scanner!Enter, Scanner!BlockBegins,
              Scanner!hardware, Scanner!scanner
<1>7. CASE Scanner!reset
  BY <1>7 DEF Scanner!reset, Scanner!hardware
<1>8. CASE Scanner!SelectFirst
  BY <1>8 DEF Scanner!SelectFirst, Scanner!scanner
<1>9. CASE Scanner!Start
  BY <1>9 DEF Scanner!Start, Scanner!scanner
<1>10. CASE Scanner!CopyRow
  BY <1>10 DEF Scanner!CopyRow, Scanner!hardware, Scanner!scanner
<1>11. CASE Scanner!Exit
  BY <1>11 DEF Scanner!Exit, Scanner!BlockEnds, Scanner!hardware,
              Scanner!scanner
<1>12. CASE UNCHANGED Scanner!vars
  BY <1>12 DEF Scanner!vars
<1> QED
  BY <1>1, <1>2, <1>3, <1>4, <1>5, <1>6, <1>7, <1>8,
     <1>9, <1>10, <1>11, <1>12
  DEF Scanner!Next

LEMMA WindowsKept ==
    ScanInv /\ [Scanner!Next]_Scanner!vars => Windows'
<1> SUFFICES ASSUME ScanInv, [Scanner!Next]_Scanner!vars PROVE Windows'
  OBVIOUS
<1>0. ScannerTypes /\ Alternation /\ Windows /\ Pipeline
  BY DEF ScanInv
<1> USE <1>0, ScanTypes DEF ScannerTypes, Alternation, MaskedInside, Windows
<1>1. CASE Scanner!ConversionEnds
  BY <1>1 DEF Scanner!ConversionEnds, Scanner!scanner, Scanner!mainline
<1>2. CASE Scanner!EnterHandler
  BY <1>2 DEF Scanner!EnterHandler, Scanner!scanner, Scanner!mainline
<1>3. CASE Scanner!Record
  <2>1. /\ handler = "record" /\ adc # None
        /\ sampleIndex \in 1 .. 2 /\ ~discard => adc = scannedChannel
    <3>1. handler = "record"
      BY <1>3, RecordEffects
    <3>2. adc # None
      BY <3>1 DEF Pipeline
    <3>3. sampleIndex \in 1 .. 2 /\ ~discard => Ended >= 2
      BY <3>1 DEF Ended
    <3> QED
      BY <3>1, <3>2, <3>3 DEF Pipeline
  <2>2. CASE UNCHANGED <<samples, scannedChannel, sampleIndex, ready>>
    BY <2>2
  <2>3. CASE /\ ~discard /\ sampleIndex \in {0, 1} /\ sampleIndex' = sampleIndex + 1
             /\ samples' = [samples EXCEPT ![scannedChannel][sampleIndex] = adc]
             /\ UNCHANGED <<scannedChannel, ready>>
    BY <2>1, <2>3
  <2>4. CASE /\ ~discard /\ sampleIndex = 2 /\ sampleIndex' = 0
             /\ samples' = [samples EXCEPT ![scannedChannel][sampleIndex] = adc]
             /\ scannedChannel' = IF scannedChannel = 2 THEN 0 ELSE scannedChannel + 1
             /\ ready' = (ready \/ scannedChannel = 2)
    BY <2>1, <2>4
  <2> QED
    BY <1>3, <2>2, <2>3, <2>4, RecordEffects
<1>4. CASE Scanner!Select
  BY <1>4 DEF Scanner!Select, Scanner!scanner, Scanner!mainline
<1>5. CASE Scanner!Initialize
  BY <1>5 DEF Scanner!Initialize, Scanner!Enter, Scanner!BlockBegins,
              Scanner!hardware, Scanner!scanner
<1>6. CASE Scanner!Snapshot
  BY <1>6 DEF Scanner!Snapshot, Scanner!Enter, Scanner!BlockBegins,
              Scanner!hardware, Scanner!scanner
<1>7. CASE Scanner!reset
  <2>1. \A c \in {0, 1, 2}, i \in 0 .. 2 : Scanner!NoRows[c][i] = None
    BY DEF Scanner!NoRows, Scanner!NoRow
  <2> QED
    BY <1>7, <2>1 DEF Scanner!reset
<1>8. CASE Scanner!SelectFirst
  BY <1>8 DEF Scanner!SelectFirst, Scanner!scanner
<1>9. CASE Scanner!Start
  BY <1>9 DEF Scanner!Start, Scanner!scanner
<1>10. CASE Scanner!CopyRow
  BY <1>10 DEF Scanner!CopyRow, Scanner!hardware, Scanner!scanner
<1>11. CASE Scanner!Exit
  BY <1>11 DEF Scanner!Exit, Scanner!BlockEnds, Scanner!hardware,
              Scanner!scanner
<1>12. CASE UNCHANGED Scanner!vars
  BY <1>12 DEF Scanner!vars
<1> QED
  BY <1>1, <1>2, <1>3, <1>4, <1>5, <1>6, <1>7, <1>8,
     <1>9, <1>10, <1>11, <1>12
  DEF Scanner!Next

LEMMA OnTimeKept ==
    ScanInv /\ [Scanner!Next]_Scanner!vars => OnTime'
<1> SUFFICES ASSUME ScanInv, [Scanner!Next]_Scanner!vars PROVE OnTime'
  OBVIOUS
<1>0. ScannerTypes /\ Alternation /\ OnTime /\ Pipeline
  BY DEF ScanInv
<1> USE <1>0, ScanTypes DEF ScannerTypes, Alternation, MaskedInside, OnTime, Pipeline
<1>1. CASE Scanner!ConversionEnds
  BY <1>1 DEF Scanner!ConversionEnds, Scanner!scanner, Scanner!mainline
<1>2. CASE Scanner!EnterHandler
  BY <1>2 DEF Scanner!EnterHandler, Scanner!scanner, Scanner!mainline
<1>3. CASE Scanner!Record
  <2>1. /\ handler = "record" /\ pc' = "idle"
        /\ UNCHANGED <<converting, adc, adif, admux, late>>
    BY <1>3, RecordEffects
  <2>2. CASE /\ discard /\ discard' = FALSE /\ handler' = "none"
             /\ UNCHANGED <<samples, scannedChannel, sampleIndex>>
    BY <2>1, <2>2
  <2>3. CASE /\ ~discard /\ discard' = FALSE /\ handler' = "none"
             /\ samples' = [samples EXCEPT ![scannedChannel][sampleIndex] = adc]
             /\ UNCHANGED scannedChannel
    BY <2>1, <2>3
  <2>4. CASE /\ ~discard /\ discard' = TRUE /\ handler' = "select"
             /\ samples' = [samples EXCEPT ![scannedChannel][sampleIndex] = adc]
    BY <2>1, <2>4
  <2> QED
    BY <1>3, <2>2, <2>3, <2>4, RecordEffects
<1>4. CASE Scanner!Select
  BY <1>4 DEF Scanner!Select, Scanner!scanner, Scanner!mainline
<1>5. CASE Scanner!Initialize
  BY <1>5 DEF Scanner!Initialize, Scanner!Enter, Scanner!BlockBegins,
              Scanner!hardware, Scanner!scanner
<1>6. CASE Scanner!Snapshot
  BY <1>6 DEF Scanner!Snapshot, Scanner!Enter, Scanner!BlockBegins,
              Scanner!hardware, Scanner!scanner
<1>7. CASE Scanner!reset
  <2>1. \A c \in {0, 1, 2}, i \in 0 .. 2 : Scanner!NoRows[c][i] = None
    BY DEF Scanner!NoRows, Scanner!NoRow
  <2> QED
    BY <1>7, <2>1 DEF Scanner!reset, Scanner!hardware
<1>8. CASE Scanner!SelectFirst
  BY <1>8 DEF Scanner!SelectFirst, Scanner!scanner
<1>9. CASE Scanner!Start
  BY <1>9 DEF Scanner!Start, Scanner!scanner
<1>10. CASE Scanner!CopyRow
  BY <1>10 DEF Scanner!CopyRow, Scanner!hardware, Scanner!scanner
<1>11. CASE Scanner!Exit
  BY <1>11 DEF Scanner!Exit, Scanner!BlockEnds, Scanner!hardware,
              Scanner!scanner
<1>12. CASE UNCHANGED Scanner!vars
  BY <1>12 DEF Scanner!vars
<1> QED
  BY <1>1, <1>2, <1>3, <1>4, <1>5, <1>6, <1>7, <1>8,
     <1>9, <1>10, <1>11, <1>12
  DEF Scanner!Next

LEMMA CopiesKept ==
    ScanInv /\ [Scanner!Next]_Scanner!vars => Copies'
<1> SUFFICES ASSUME ScanInv, [Scanner!Next]_Scanner!vars PROVE Copies'
  OBVIOUS
<1>0. ScannerTypes /\ Alternation /\ Copies
  BY DEF ScanInv
<1>1. ASSUME copied = <<>>, copied' = copied PROVE Copies'
  <2>1. <<>> \in Seq(Scanner!Row) /\ Len(<<>>) = 0
    OBVIOUS
  <2>2. copied' \in Seq(Scanner!Row) /\ Len(copied') = 0 /\ copied' = <<>>
    BY <1>1, <2>1
  <2>3. Scanner!SnapshotIsOneState'
    BY <2>2 DEF Scanner!SnapshotIsOneState
  <2> QED
    BY <2>2, <2>3 DEF Copies
<1>2. ASSUME UNCHANGED <<copied, samples>>, pc' = pc \/ (pc = "idle" /\ copied = <<>>)
      PROVE  Copies'
  <2>1. CASE pc' = pc
    BY <1>0, <1>2, <2>1 DEF Copies, Scanner!SnapshotIsOneState
  <2>2. CASE copied = <<>>
    BY <1>1, <1>2, <2>2
  <2> QED
    BY <1>2, <2>1, <2>2
<1>3. CASE Scanner!ConversionEnds \/ Scanner!EnterHandler \/ Scanner!Select
           \/ UNCHANGED Scanner!vars
  BY <1>2, <1>3 DEF Scanner!ConversionEnds, Scanner!EnterHandler, Scanner!Select,
                    Scanner!scanner, Scanner!mainline, Scanner!vars
<1>4. CASE Scanner!Record
  <2>1. pc = "idle" /\ UNCHANGED copied
    BY <1>0, <1>4, RecordEffects
  <2>2. copied = <<>>
    BY <1>0, <2>1 DEF Copies
  <2> QED
    BY <1>1, <2>1, <2>2
<1>5. CASE Scanner!Initialize \/ Scanner!Snapshot \/ Scanner!reset
           \/ Scanner!SelectFirst \/ Scanner!Start
  <2>1. pc \notin {"copy", "exit"} /\ UNCHANGED copied
    BY <1>5 DEF Scanner!Initialize, Scanner!Snapshot, Scanner!Enter, Scanner!BlockBegins,
                Scanner!reset, Scanner!SelectFirst, Scanner!Start
  <2>2. copied = <<>>
    BY <1>0, <2>1 DEF Copies
  <2> QED
    BY <1>1, <2>1, <2>2
<1>6. CASE Scanner!CopyRow
  <2>1. /\ pc = "copy" /\ UNCHANGED samples
        /\ copied' = Append(copied, samples[Len(copied)])
        /\ pc' = IF Len(copied) = 2 THEN "exit" ELSE "copy"
    <3>1. Scanner!channelCount - 1 = 2
      BY DEF Scanner!channelCount
    <3> QED
      BY <1>6, <3>1 DEF Scanner!CopyRow, Scanner!scanner
  <2>2. copied \in Seq(Scanner!Row) /\ Len(copied) <= 2
    BY <1>0, <2>1 DEF Copies
  <2>3. Len(copied) \in Nat
    BY <2>2
  <2>4. Len(copied) \in Scanner!AdcChannel
    <3>1. \A n \in Nat : n <= 2 => n \in {0, 1, 2}
      OBVIOUS
    <3>2. Len(copied) \in {0, 1, 2}
      BY <2>2, <2>3, <3>1
    <3> QED
      BY <3>2, ScanTypes
  <2>5. samples[Len(copied)] \in Scanner!Row
    BY <1>0, <2>4 DEF ScannerTypes
  <2>6. /\ copied' \in Seq(Scanner!Row) /\ Len(copied') = Len(copied) + 1
        /\ \A i \in 1 .. Len(copied) : copied'[i] = copied[i]
        /\ copied'[Len(copied) + 1] = samples[Len(copied)]
    BY <2>1, <2>2, <2>5
  <2>7. \A i \in 1 .. Len(copied) : copied[i] = samples[i - 1]
    BY <1>0 DEF Copies, Scanner!SnapshotIsOneState
  <2>8. ASSUME NEW i \in 1 .. Len(copied') PROVE copied'[i] = samples'[i - 1]
    <3>1. CASE i = Len(copied) + 1
      <4>1. i - 1 = Len(copied)
        BY <2>3, <3>1
      <4> QED
        BY <2>1, <2>6, <3>1, <4>1
    <3>2. CASE i # Len(copied) + 1
      <4>1. i \in 1 .. Len(copied)
        BY <2>3, <2>6, <3>2
      <4> QED
        BY <2>1, <2>6, <2>7, <4>1
    <3> QED
      BY <3>1, <3>2
  <2>9. pc' \in {"copy", "exit"} /\ (pc' = "copy" => Len(copied') <= 2)
    <3>1. \A n \in Nat : n <= 2 /\ n # 2 => n + 1 <= 2
      OBVIOUS
    <3>2. Len(copied) # 2 => Len(copied) + 1 <= 2
      BY <2>2, <2>3, <3>1
    <3>3. pc' \in {"copy", "exit"} /\ (pc' = "copy" => Len(copied) # 2)
      BY <2>1
    <3> QED
      BY <2>6, <3>2, <3>3
  <2> QED
    BY <2>6, <2>8, <2>9 DEF Copies, Scanner!SnapshotIsOneState
<1>7. CASE Scanner!Exit
  <2>1. copied' = <<>>
    BY <1>7 DEF Scanner!Exit
  <2>2. <<>> \in Seq(Scanner!Row) /\ Len(<<>>) = 0
    OBVIOUS
  <2>3. copied' \in Seq(Scanner!Row) /\ Len(copied') = 0
    BY <2>1, <2>2
  <2>4. Scanner!SnapshotIsOneState'
    BY <2>3 DEF Scanner!SnapshotIsOneState
  <2> QED
    BY <2>1, <2>3, <2>4 DEF Copies
<1> QED
  BY <1>3, <1>4, <1>5, <1>6, <1>7 DEF Scanner!Next

LEMMA ScannerStepsKeepInv ==
    ScanInv /\ [Scanner!Next]_Scanner!vars => ScanInv'
<1> SUFFICES ASSUME ScanInv, [Scanner!Next]_Scanner!vars PROVE ScanInv'
  OBVIOUS
<1>1. ScannerTypes'
  BY ScanTypesKept DEF ScanInv
<1> QED
  BY <1>1, AlternationKept, PipelineKept, WindowsKept, CopiesKept, OnTimeKept DEF ScanInv

-----------------------------------------------------------------------------
(***************************************************************************)
(* The firmware: while one component's mainline call or handler runs, what *)
(* the others have read stands.                                            *)
(***************************************************************************)
ScannerStep == {"idle", "reset", "mux", "start", "copy", "exit"}

LEMMA MainlineSteps ==
    /\ Next => pc' = pc \/ (pc \in TickStep /\ pc' \in TickStep)
    /\ EdgeNext => pc' = pc \/ (pc \in EdgeStep /\ pc' \in EdgeStep)
    /\ Scanner!Next => pc' = pc \/ (pc \in ScannerStep /\ pc' \in ScannerStep)
<1>1. ASSUME Next PROVE pc' = pc \/ (pc \in TickStep /\ pc' \in TickStep)
  BY <1>1
  DEF Next, TickStep, CompareMatch, onCompareMatch, Enter, BlockBegins, BlockEnds,
      initialize1kHz, stop, Exit, ConsumeRead, ConsumeClear, ConsumeReturn,
      OverrunLow, OverrunHigh, OverrunReturn
<1>2. ASSUME EdgeNext PROVE pc' = pc \/ (pc \in EdgeStep /\ pc' \in EdgeStep)
  BY <1>2
  DEF EdgeNext, EdgeStep, Edge, on, EnterEdgeCall, BlockBegins, BlockEnds, edgeCall,
      initializeRisingEdges, resetCounters, stopEdges, ExitEdgeCall,
      consumeRead, consumeClear, consumeReturn
<1>3. ASSUME Scanner!Next
      PROVE  pc' = pc \/ (pc \in ScannerStep /\ pc' \in ScannerStep)
  BY <1>3
  DEF Scanner!Next, ScannerStep, Scanner!ConversionEnds, Scanner!EnterHandler,
      Scanner!Record, Scanner!Select, Scanner!Initialize, Scanner!Snapshot,
      Scanner!Enter, Scanner!BlockBegins, Scanner!BlockEnds, Scanner!reset,
      Scanner!SelectFirst, Scanner!Start, Scanner!CopyRow, Scanner!Exit,
      Scanner!mainline
<1> QED
  BY <1>1, <1>2, <1>3

(***************************************************************************)
(* A firmware without the scanner leaves it as it was constructed.         *)
(***************************************************************************)
Asleep ==
    ~scans => /\ handler = "none" /\ converting = None /\ copied = <<>>
              /\ admux = 0 /\ scannedChannel = 0 /\ sampleIndex = 0 /\ discard = TRUE

AvrInv == scans \in BOOLEAN /\ Asleep /\ TickInv /\ EdgeInv /\ ScanInv

avrVars == <<scans, vars, edgeVars, scannerOnly>>

LEMMA AvrInvInit == AvrInit => AvrInv
<1> SUFFICES ASSUME AvrInit PROVE AvrInv
  OBVIOUS
<1>1. Init /\ EdgeInit /\ Scanner!Init /\ scans \in BOOLEAN
  BY DEF AvrInit
<1>2. Asleep
  BY <1>1 DEF Asleep, Scanner!Init
<1>3. TickInv
  <2> USE TickAssumption, <1>1 DEF Init
  <2>1. FlagsOK
    BY DEF FlagsOK
  <2>2. CountsOK
    BY DEF CountsOK
  <2>3. MaskedInside /\ PendingIsCurrent /\ OverrunReadIsWhole
    BY DEF MaskedInside, PendingIsCurrent, OverrunReadIsWhole
  <2>4. TicksAccounted
    BY DEF TicksAccounted, OnItsWay
  <2> QED
    BY <2>1, <2>2, <2>3, <2>4 DEF TickInv
<1>4. EdgeInv
  <2> USE EdgeAssumption, <1>1
  <2>1. EdgesOK
    <3>1. overflow \in [Channel -> BOOLEAN] /\ eimsk \in BOOLEAN
      BY Zenon DEF EdgeInit
    <3> QED
      BY <3>1, SMT DEF EdgesOK, EdgeInit
  <2>2. ASSUME NEW c \in Channel
        PROVE  Known(c) = 0 /\ edgesServiced[c] = 0 /\ ~overflow[c]
    BY DEF EdgeInit, Known, InHand
  <2>3. NoEdgeLostUnflagged
    BY <2>2 DEF NoEdgeLostUnflagged
  <2> QED
    BY <2>1, <2>3 DEF EdgeInit, EdgeInv, MaskedInside, CountIsCurrent
<1>5. ScanInv
  <2> USE <1>1, ScanTypes
  <2>1. samples = Scanner!NoRows /\ copied = <<>>
    BY DEF Scanner!Init
  <2>2. /\ samples \in [{0, 1, 2} -> [0 .. 2 -> {0, 1, 2, None}]]
        /\ \A c \in {0, 1, 2}, i \in 0 .. 2 : samples[c][i] = None
    BY <2>1 DEF Scanner!NoRows, Scanner!NoRow
  <2>3. ScannerTypes
    BY <2>2 DEF ScannerTypes, Scanner!Init
  <2>4. Alternation
    BY DEF Alternation, MaskedInside, Scanner!Init
  <2>5. Pipeline
    BY DEF Pipeline, Ended, Scanner!Init
  <2>6. Windows
    BY <2>2 DEF Windows, Scanner!Init
  <2>7. OnTime
    BY <2>2 DEF OnTime, Scanner!Init
  <2>8. Copies
    <3>1. <<>> \in Seq(Scanner!Row) /\ Len(<<>>) = 0
      OBVIOUS
    <3>2. copied \in Seq(Scanner!Row) /\ Len(copied) = 0
      BY <2>1, <3>1
    <3>3. Scanner!SnapshotIsOneState
      BY <3>2 DEF Scanner!SnapshotIsOneState
    <3> QED
      BY <2>1, <3>2, <3>3 DEF Copies
  <2> QED
    BY <2>3, <2>4, <2>5, <2>6, <2>7, <2>8 DEF ScanInv
<1> QED
  BY <1>1, <1>2, <1>3, <1>4, <1>5 DEF AvrInv

(***************************************************************************)
(* What a component's invariant needs of a step of another.                *)
(***************************************************************************)
LEMMA TicksUndisturbed ==
    ASSUME TickInv, UNCHANGED timerOnly, masked' \in BOOLEAN, MaskedInside',
           pc' = pc \/ {pc, pc'} \cap {"clear", "high", "exitConsume", "exitOverrun"} = {}
    PROVE  TickInv'
<1>1. CASE pc' = pc
  BY <1>1
  DEF TickInv, timerOnly, FlagsOK, CountsOK, PendingIsCurrent, TicksAccounted, OnItsWay,
      OverrunReadIsWhole
<1>2. CASE {pc, pc'} \cap {"clear", "high", "exitConsume", "exitOverrun"} = {}
  <2>1. /\ pc \notin {"clear", "high", "exitConsume", "exitOverrun"}
        /\ pc' \notin {"clear", "high", "exitConsume", "exitOverrun"}
    BY <1>2
  <2> QED
    BY <2>1
    DEF TickInv, timerOnly, FlagsOK, CountsOK, PendingIsCurrent, TicksAccounted, OnItsWay,
        OverrunReadIsWhole
<1> QED
  BY <1>1, <1>2

LEMMA EdgesUndisturbed ==
    ASSUME EdgeInv, UNCHANGED edgesOnly, masked' \in BOOLEAN, MaskedInside',
           pc' = pc \/ {pc, pc'} \cap {"edgeClear", "edgeExitConsume"} = {}
    PROVE  EdgeInv'
<1>1. EdgesOK'
  BY DEF EdgeInv, EdgesOK, edgesOnly
<1>2. CountIsCurrent'
  BY DEF EdgeInv, CountIsCurrent, edgesOnly
<1>3. ASSUME NEW c \in Channel PROVE Known(c)' = Known(c)
  BY DEF Known, InHand, edgesOnly
<1>4. NoEdgeLostUnflagged'
  BY <1>3 DEF EdgeInv, NoEdgeLostUnflagged, edgesOnly
<1> QED
  BY <1>1, <1>2, <1>4 DEF EdgeInv

LEMMA ScannerUndisturbed ==
    ASSUME ScanInv, UNCHANGED scannerOnly, masked' \in BOOLEAN, MaskedInside',
           Asleep, ~scans
    PROVE  ScanInv'
<1> USE ScanTypes DEF scannerOnly, ScanInv, Asleep
<1>1. ScannerTypes'
  BY DEF ScannerTypes
<1>2. Alternation'
  BY DEF Alternation
<1>3. Pipeline'
  <2>1. Ended' <= 0
    BY DEF Ended, ScannerTypes
  <2>2. Ended' = Ended
    BY DEF Ended
  <2> QED
    BY <2>1, <2>2 DEF Pipeline, Ended, ScannerTypes
<1>4. Windows'
  BY DEF Windows
<1>5. Copies'
  <2>1. <<>> \in Seq(Scanner!Row) /\ Len(<<>>) = 0
    OBVIOUS
  <2>2. copied' \in Seq(Scanner!Row) /\ Len(copied') = 0 /\ copied' = <<>>
    BY <2>1
  <2>3. Scanner!SnapshotIsOneState'
    BY <2>2 DEF Scanner!SnapshotIsOneState
  <2> QED
    BY <2>2, <2>3 DEF Copies
<1>6. OnTime'
  BY DEF OnTime
<1> QED
  BY <1>1, <1>2, <1>3, <1>4, <1>5, <1>6

LEMMA AvrInvNext == AvrInv /\ [AvrNext]_avrVars => AvrInv'
<1> SUFFICES ASSUME AvrInv, [AvrNext]_avrVars PROVE AvrInv'
  OBVIOUS
<1>1. CASE UNCHANGED avrVars
  <2>1. /\ UNCHANGED <<scans, masked, pc>> /\ UNCHANGED vars /\ UNCHANGED edgeVars
        /\ UNCHANGED scannerOnly
    BY <1>1 DEF avrVars, vars
  <2>2. UNCHANGED Scanner!vars
    BY <2>1 DEF scannerOnly, Scanner!vars
  <2>3. TickInv' /\ EdgeInv' /\ ScanInv'
    BY <2>1, <2>2, TickStepsKeepInv, EdgeStepsKeepInv, ScannerStepsKeepInv DEF AvrInv
  <2> QED
    BY <2>1, <2>3 DEF AvrInv, Asleep, scannerOnly
<1>2. CASE ~scans /\ Next /\ UNCHANGED <<scans, edgesOnly, scannerOnly>>
  <2>1. TickInv'
    BY <1>2, TickStepsKeepInv DEF AvrInv
  <2>2. masked' \in BOOLEAN /\ MaskedInside'
    BY <2>1 DEF TickInv, FlagsOK
  <2>3. pc' = pc \/ {pc, pc'} \cap {"edgeClear", "edgeExitConsume"} = {}
    BY <1>2, MainlineSteps DEF TickStep
  <2>4. EdgeInv'
    BY <1>2, <2>2, <2>3, EdgesUndisturbed DEF AvrInv
  <2>5. ScanInv'
    BY <1>2, <2>2, ScannerUndisturbed DEF AvrInv
  <2> QED
    BY <1>2, <2>1, <2>4, <2>5 DEF AvrInv, Asleep, scannerOnly
<1>3. CASE ~scans /\ EdgeNext /\ UNCHANGED <<scans, timerOnly, scannerOnly>>
  <2>1. EdgeInv'
    BY <1>3, EdgeStepsKeepInv DEF AvrInv
  <2>2. masked' \in BOOLEAN /\ MaskedInside'
    BY <2>1 DEF EdgeInv
  <2>3. pc' = pc \/ {pc, pc'} \cap {"clear", "high", "exitConsume", "exitOverrun"} = {}
    BY <1>3, MainlineSteps DEF EdgeStep
  <2>4. TickInv'
    BY <1>3, <2>2, <2>3, TicksUndisturbed DEF AvrInv
  <2>5. ScanInv'
    BY <1>3, <2>2, ScannerUndisturbed DEF AvrInv
  <2> QED
    BY <1>3, <2>1, <2>4, <2>5 DEF AvrInv, Asleep, scannerOnly
<1>4. CASE scans /\ Scanner!Next /\ UNCHANGED <<scans, timerOnly, edgesOnly>>
  <2>1. ScanInv'
    BY <1>4, ScannerStepsKeepInv DEF AvrInv
  <2>2. masked' \in BOOLEAN /\ MaskedInside'
    BY <2>1 DEF ScanInv, ScannerTypes, Alternation
  <2>3. \/ pc' = pc
        \/ /\ {pc, pc'} \cap {"clear", "high", "exitConsume", "exitOverrun"} = {}
           /\ {pc, pc'} \cap {"edgeClear", "edgeExitConsume"} = {}
    BY <1>4, MainlineSteps DEF ScannerStep
  <2>4. TickInv' /\ EdgeInv'
    BY <1>4, <2>2, <2>3, TicksUndisturbed, EdgesUndisturbed DEF AvrInv
  <2> QED
    BY <1>4, <2>1, <2>4 DEF AvrInv, Asleep
<1> QED
  BY <1>1, <1>2, <1>3, <1>4 DEF AvrNext

LEMMA AvrInvariant == AvrSpec => []AvrInv
BY AvrInvInit, AvrInvNext, PTL DEF AvrSpec, avrVars

(***************************************************************************)
(* Counters, flags and samples stay in their ranges: the handlers          *)
(* saturate.                                                               *)
(***************************************************************************)
THEOREM TypeCorrect == AvrSpec => [](FlagsOK /\ CountsOK /\ EdgesOK /\ ScannerTypes)
<1>1. AvrInv => FlagsOK /\ CountsOK /\ EdgesOK /\ ScannerTypes
  BY DEF AvrInv, TickInv, EdgeInv, ScanInv
<1> QED
  BY <1>1, AvrInvariant, PTL

(***************************************************************************)
(* Every tick is pending, consumed or an overrun, exactly once, also while *)
(* the edge latch's calls hold its handler back.                           *)
(***************************************************************************)
THEOREM NoTickLost == AvrSpec => []TicksAccounted
<1>1. AvrInv => TicksAccounted
  BY DEF AvrInv, TickInv
<1> QED
  BY <1>1, AvrInvariant, PTL

(***************************************************************************)
(* overrunCount() returns a value that overruns_ really had.               *)
(***************************************************************************)
THEOREM OverrunReadWhole == AvrSpec => []OverrunReadIsWhole
<1>1. AvrInv => OverrunReadIsWhole
  BY DEF AvrInv, TickInv
<1> QED
  BY <1>1, AvrInvariant, PTL

(***************************************************************************)
(* No edge is lost without the overflow flag, and no flag is raised before *)
(* the count was full, also while the tick source's calls hold the         *)
(* handlers back.                                                          *)
(***************************************************************************)
THEOREM LossIsFlagged == AvrSpec => []NoEdgeLostUnflagged
<1>1. AvrInv => NoEdgeLostUnflagged
  BY DEF AvrInv, EdgeInv
<1> QED
  BY <1>1, AvrInvariant, PTL

(***************************************************************************)
(* However late its handler runs and whenever initialize() is called, each *)
(* median that the scanner reports lies between two samples of its own     *)
(* channel: of the three in a window only the first can be foreign.  With  *)
(* a handler that is never late none is, and a snapshot shows one state.   *)
(***************************************************************************)
THEOREM MediansAreOwn == AvrSpec => []MedianIsOwn
<1>1. AvrInv => MedianIsOwn
  <2> SUFFICES ASSUME AvrInv PROVE MedianIsOwn
    OBVIOUS
  <2>1. ScannerTypes /\ Windows /\ OnTime /\ Copies
    BY DEF AvrInv, ScanInv
  <2>2. Scanner!SamplesAreOwn
    BY <2>1 DEF OnTime, Scanner!SamplesAreOwn
  <2>3. Scanner!SnapshotIsOneState
    BY <2>1 DEF Copies
  <2>4. ASSUME ready, NEW c \in Scanner!AdcChannel
        PROVE  /\ \E i, j \in Scanner!Own(c) : i # j
               /\ \A i \in 0 .. 2 : samples[c][i] # None
    <3>1. \A i \in 0 .. 2 : samples[c][i] # None
      BY <2>1, <2>4 DEF Windows
    <3>2. samples[c][1] = c /\ samples[c][2] = c
      BY <2>1, <3>1 DEF Windows
    <3>3. 1 \in Scanner!Own(c) /\ 2 \in Scanner!Own(c)
      BY <3>2 DEF Scanner!Own
    <3> QED
      BY <3>1, <3>3
  <2>5. Scanner!MedianIsOwn
    BY <2>4 DEF Scanner!MedianIsOwn
  <2> QED
    BY <2>2, <2>3, <2>5 DEF MedianIsOwn
<1> QED
  BY <1>1, AvrInvariant, PTL
=============================================================================
