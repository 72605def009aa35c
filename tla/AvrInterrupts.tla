---------------------------- MODULE AvrInterrupts ----------------------------
(***************************************************************************)
(* An AVR firmware that uses the tick source and the edge latch together:  *)
(* one mainline calls both, one global interrupt flag masks both, and the  *)
(* ATOMIC_BLOCK of either holds back the handlers of the other.  And a     *)
(* firmware that uses the ADC scanner, alone: its handler and its block    *)
(* only delay theirs, as any other handler does, and theirs its, which the *)
(* late handlers of each module stand for.                                 *)
(***************************************************************************)
EXTENDS Timer2Tick, ExternalEdgeLatch, TLC

CONSTANT None

VARIABLES
    scans,  \* the firmware is the one with the ADC scanner
    converting, adc, adif, admux, samples, scannedChannel, sampleIndex, discard,
    ready, handler, copied, late

Scanner == INSTANCE AdcScanner3 WITH channel <- scannedChannel

ASSUME ScannerAssumption == Scanner!NoneAssumption

timerOnly == <<running, flag, enabled, pending, overruns, value, bytes, matches,
               serviced, consumed>>
edgesOnly == <<eifr, eimsk, count, overflow, channel, edgeValue, edgesServiced,
               edgesConsumed, saturated>>
scannerOnly == <<converting, adc, adif, admux, samples, scannedChannel, sampleIndex,
                 discard, ready, handler, copied, late>>

AvrInit == scans \in BOOLEAN /\ Init /\ EdgeInit /\ Scanner!Init

AvrNext ==
    /\ UNCHANGED scans
    /\ \/ ~scans /\ Next /\ UNCHANGED <<edgesOnly, scannerOnly>>
       \/ ~scans /\ EdgeNext /\ UNCHANGED <<timerOnly, scannerOnly>>
       \/ scans /\ Scanner!Next /\ UNCHANGED <<timerOnly, edgesOnly>>

AvrSpec == AvrInit /\ [][AvrNext]_<<scans, vars, edgeVars, scannerOnly>>

\* The two edge channels are interchangeable.
ChannelSymmetry == Permutations(Channel)

-----------------------------------------------------------------------------
(***************************************************************************)
(* What snapshot() returns is one state of the scanner, in which each      *)
(* median lies between samples of its own channel.                         *)
(***************************************************************************)
MedianIsOwn ==
    Scanner!SamplesAreOwn /\ Scanner!MedianIsOwn /\ Scanner!SnapshotIsOneState
=============================================================================
