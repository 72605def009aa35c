-------------------------- MODULE ExternalEdgeLatch --------------------------
(***************************************************************************)
(* The edge counters of the AVR platform (ExternalEdgeLatch over two       *)
(* StickyOverflowEdgeCounter objects).  A rising edge on INT0 or INT1 sets *)
(* a hardware flag; the handler counts; the mainline consumes counts and   *)
(* reads the overflow flags, a machine step at a time.                     *)
(*                                                                         *)
(* The pins, EIFR and EIMSK are hardware, external to the code.            *)
(***************************************************************************)
EXTENDS AvrMainline, Naturals

CONSTANTS
    Channel,     \* the two interrupt channels
    MaxCount,    \* 255, where count_ saturates
    EdgeHorizon  \* bound: edges serviced per channel

ASSUME EdgeAssumption ==
    /\ MaxCount \in Nat \ {0}
    /\ EdgeHorizon \in Nat

VARIABLES
    eifr,           \* EIFR: an edge of the channel waits to be serviced
    eimsk,          \* EIMSK: the two interrupts are enabled
    count,          \* count_ of each channel
    overflow,       \* overflow_ of each channel
    channel,        \* the channel the mainline call is about
    edgeValue,      \* consume(): value
    edgesServiced,  \* history: edges counted since initialization
    edgesConsumed,  \* history: sum of what consume() has returned since
    saturated       \* history: MaxCount edges were counted without a consume()

edgeVars == <<masked, pc, eifr, eimsk, count, overflow, channel, edgeValue,
              edgesServiced, edgesConsumed, saturated>>

edgeCall == <<pc, channel, edgeValue>>
edgeHistory == <<edgesServiced, edgesConsumed, saturated>>

EdgesOK ==
    /\ eifr \in [Channel -> BOOLEAN]
    /\ eimsk \in BOOLEAN
    /\ count \in [Channel -> 0 .. MaxCount]
    /\ overflow \in [Channel -> BOOLEAN]
    /\ channel \in Channel
    /\ edgeValue \in 0 .. MaxCount
    /\ edgesServiced \in [Channel -> Nat]
    /\ edgesConsumed \in [Channel -> Nat]
    /\ saturated \in [Channel -> BOOLEAN]

EdgeStep == {"idle", "initializeRisingEdges", "resetCounters", "stopEdges",
             "edgeRead", "edgeClear", "edgeExit", "edgeExitConsume"}

EdgeTypeOK == EdgesOK /\ masked \in BOOLEAN /\ pc \in EdgeStep

EdgeInit ==
    /\ eifr \in [Channel -> BOOLEAN]
    /\ eimsk = FALSE
    /\ masked = FALSE
    /\ count = [c \in Channel |-> 0]
    /\ overflow = [c \in Channel |-> FALSE]
    /\ pc = "idle"
    /\ channel \in Channel
    /\ edgeValue = 0
    /\ edgesServiced = [c \in Channel |-> 0]
    /\ edgesConsumed = [c \in Channel |-> 0]
    /\ saturated = [c \in Channel |-> FALSE]

-----------------------------------------------------------------------------
(***************************************************************************)
(* Hardware: a rising edge sets the flag of its channel, set or not.       *)
(***************************************************************************)
Edge(c) ==
    /\ eifr' = [eifr EXCEPT ![c] = TRUE]
    /\ UNCHANGED <<eimsk, masked, count, overflow, edgeCall, edgeHistory>>

(***************************************************************************)
(* StickyOverflowEdgeCounter::onEdge().                                    *)
(***************************************************************************)
onEdge(c) ==
    IF count[c] = MaxCount
    THEN /\ overflow' = [overflow EXCEPT ![c] = TRUE]
         /\ UNCHANGED count
    ELSE /\ count' = [count EXCEPT ![c] = @ + 1]
         /\ UNCHANGED overflow

(***************************************************************************)
(* ISR(INT0_vect) and ISR(INT1_vect), which clear the flag when entered.   *)
(***************************************************************************)
on(c) ==
    /\ eifr[c] /\ eimsk /\ ~masked
    /\ edgesServiced[c] < EdgeHorizon
    /\ eifr' = [eifr EXCEPT ![c] = FALSE]
    /\ onEdge(c)
    /\ edgesServiced' = [edgesServiced EXCEPT ![c] = @ + 1]
    /\ saturated' = [saturated EXCEPT ![c] = @ \/ count'[c] = MaxCount]
    /\ UNCHANGED <<eimsk, masked, edgeCall, edgesConsumed>>

-----------------------------------------------------------------------------
(***************************************************************************)
(* The ATOMIC_BLOCK around the mainline calls.                             *)
(***************************************************************************)
\* Faulty: without the atomic block.
EnterEdgeCallUnmasked(next, c) ==
    /\ pc = "idle"
    /\ pc' = next
    /\ channel' = c
    /\ UNCHANGED <<masked, eifr, eimsk, count, overflow, edgeValue,
                    edgeHistory>>

EnterEdgeCall(next, c) ==
    /\ BlockBegins(next)
    /\ channel' = c
    /\ UNCHANGED <<eifr, eimsk, count, overflow, edgeValue, edgeHistory>>

ExitEdgeCall ==
    /\ pc = "edgeExit"
    /\ BlockEnds
    /\ UNCHANGED <<eifr, eimsk, count, overflow, channel, edgeValue,
                    edgeHistory>>

(***************************************************************************)
(* initializeRisingEdges(): stale flags are cleared before the interrupts  *)
(* are enabled; an edge may still come before the counters are reset.      *)
(***************************************************************************)
initializeRisingEdges ==
    /\ pc = "initializeRisingEdges"
    /\ eifr' = [c \in Channel |-> FALSE]
    /\ eimsk' = TRUE
    /\ pc' = "resetCounters"
    /\ UNCHANGED <<masked, count, overflow, channel, edgeValue, edgeHistory>>

resetCounters ==
    /\ pc = "resetCounters"
    /\ count' = [c \in Channel |-> 0]
    /\ overflow' = [c \in Channel |-> FALSE]
    /\ edgesServiced' = [c \in Channel |-> 0]
    /\ edgesConsumed' = [c \in Channel |-> 0]
    /\ saturated' = [c \in Channel |-> FALSE]
    /\ pc' = "edgeExit"
    /\ UNCHANGED <<eifr, eimsk, masked, channel, edgeValue>>

stopEdges ==
    /\ pc = "stopEdges"
    /\ eimsk' = FALSE
    /\ pc' = "edgeExit"
    /\ UNCHANGED <<eifr, masked, count, overflow, channel, edgeValue,
                    edgeHistory>>

(***************************************************************************)
(* consume0() and consume1(): the count is read, then cleared.             *)
(***************************************************************************)
consumeRead ==
    /\ pc = "edgeRead"
    /\ edgeValue' = count[channel]
    /\ pc' = "edgeClear"
    /\ UNCHANGED <<eifr, eimsk, masked, count, overflow, channel, edgeHistory>>

consumeClear ==
    /\ pc = "edgeClear"
    /\ count' = [count EXCEPT ![channel] = 0]
    /\ pc' = "edgeExitConsume"
    /\ UNCHANGED <<eifr, eimsk, masked, overflow, channel, edgeValue,
                    edgeHistory>>

consumeReturn ==
    /\ pc = "edgeExitConsume"
    /\ BlockEnds
    /\ edgesConsumed' = [edgesConsumed EXCEPT ![channel] = @ + edgeValue]
    /\ edgeValue' = 0
    /\ UNCHANGED <<eifr, eimsk, count, overflow, channel, edgesServiced,
                    saturated>>

EdgeNext ==
    \/ \E c \in Channel : Edge(c) \/ on(c)
    \/ \E next \in {"initializeRisingEdges", "stopEdges", "edgeRead"},
          c \in Channel : EnterEdgeCall(next, c)
    \/ initializeRisingEdges \/ resetCounters \/ stopEdges \/ ExitEdgeCall
    \/ consumeRead \/ consumeClear \/ consumeReturn

EdgeSpec == EdgeInit /\ [][EdgeNext]_edgeVars

-----------------------------------------------------------------------------
InHand(c) == IF pc = "edgeExitConsume" /\ c = channel THEN edgeValue ELSE 0

(***************************************************************************)
(* overflow0() and overflow1(): an edge that the handler has serviced      *)
(* since initialization is handed out by consume(), is still counted, or   *)
(* the flag says that edges were lost.  Neither a consume() that the       *)
(* handler interrupts nor a saturated count loses one unnoticed; and no    *)
(* flag is raised before MaxCount edges have piled up without a consume(). *)
(***************************************************************************)
Known(c) == edgesConsumed[c] + count[c] + InHand(c)

NoEdgeLostUnflagged ==
    \A c \in Channel : /\ edgesServiced[c] >= Known(c)
                       /\ edgesServiced[c] > Known(c) => overflow[c]
                       /\ overflow[c] => saturated[c]
=============================================================================
