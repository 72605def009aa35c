------------------------------ MODULE InputChips ------------------------------
(***************************************************************************)
(* The chips that are only read: the MCP3208 converter and chains of       *)
(* 74HC165 on an SPI bus, and a converter behind an analog multiplexer.    *)
(*                                                                         *)
(* The bus is ArduinoSpiBus or VirtualSpiBus.  Both hand out one           *)
(* transaction at a time; the virtual bus answers with what was queued and *)
(* fails where a test asked it to, and stands for everything a wire may    *)
(* do.  Bytes are abstracted to the answer they are from.                  *)
(***************************************************************************)
EXTENDS ChipDriver, Sequences, Naturals

CONSTANTS
    Answer,        \* what a chip may answer
    Silence,       \* the zeros received without an answer
    MaxQueued,     \* bound: the answers queued ahead
    MuxChannels,   \* channelCount, a power of two
    Connected      \* the place values of the select lines that are not null

InputAssumption ==
    /\ Silence \notin Answer /\ MaxQueued \in Nat /\ MuxChannels \in Nat \ {0}
    /\ \A place \in Connected : place \in Nat \ {0} /\ MuxChannels % (2 * place) = 0

VARIABLES
    spi,            \* transactionActive_, nextResult_ and responses_ of the bus
    borrowed,       \* another driver is between beginTransaction() and endTransaction()
    cache,          \* the caller's value of read(), or buffer_ of the 74HC165
    answered,       \* history: the answer that was due to the last call
    lines,          \* the level of each connected select line of the multiplexer
    currentChannel  \* currentChannel_

inputChip == <<spi, borrowed, cache, answered, lines, currentChannel>>

InputChipNames == {"MCP3208", "74HC165", "Multiplexer"}
Received == Answer \cup {Silence}
Channel == 0 .. MuxChannels - 1

InputTypeOK ==
    /\ spi \in [active : BOOLEAN, nextResult : {"Success", "Error"},
                responses : UNION {[1 .. n -> Answer] : n \in 0 .. MaxQueued}]
    /\ borrowed \in BOOLEAN
    /\ cache \in Received /\ answered \in Received
    /\ lines \in [Connected -> 0 .. 1] /\ currentChannel \in Channel

InputInit ==
    /\ spi = [active |-> FALSE, nextResult |-> "Success", responses |-> <<>>]
    /\ borrowed = FALSE
    /\ cache = Silence /\ answered = Silence
    /\ lines = [place \in Connected |-> 0] /\ currentChannel = 0

-----------------------------------------------------------------------------
\* queueResponse() and setNextResult().
queueResponse(a) ==
    /\ Len(spi.responses) < MaxQueued
    /\ spi' = [spi EXCEPT !.responses = Append(@, a)]
    /\ UNCHANGED <<borrowed, cache, answered, lines, currentChannel>>

setNextResult(r) ==
    /\ spi' = [spi EXCEPT !.nextResult = r]
    /\ UNCHANGED <<borrowed, cache, answered, lines, currentChannel>>

(***************************************************************************)
(* Another driver on the same bus, in a transaction of its own.            *)
(***************************************************************************)
Borrow ==
    /\ ~spi.active
    /\ spi' = [spi EXCEPT !.active = TRUE] /\ borrowed' = TRUE
    /\ UNCHANGED <<cache, answered, lines, currentChannel>>

GiveBack ==
    /\ borrowed
    /\ spi' = [spi EXCEPT !.active = FALSE] /\ borrowed' = FALSE
    /\ UNCHANGED <<cache, answered, lines, currentChannel>>

(***************************************************************************)
(* A transaction of one transfer: the answer at the head of the queue is   *)
(* used up, and so is the result that was set, whether it fails or not.    *)
(***************************************************************************)
Front == IF spi.responses = <<>> THEN Silence ELSE Head(spi.responses)

Transferred ==
    [spi EXCEPT !.nextResult = "Success",
                !.responses = IF @ = <<>> THEN @ ELSE Tail(@)]

\* Faulty: a transfer that fails leaves the transaction open.
EndedOnSuccess == [Transferred EXCEPT !.active = (spi.nextResult # "Success")]

Ended == [Transferred EXCEPT !.active = FALSE]

\* The Busy answer of beginTransaction().
Busy ==
    /\ spi.active
    /\ Return("Error")
    /\ UNCHANGED inputChip

(***************************************************************************)
(* Mcp3208::read(): the caller's value changes only with a success.        *)
(* ShiftRegister74Hc165::sample(): the bytes go into buffer_ directly.     *)
(***************************************************************************)
Call(received) ==
    /\ ~spi.active
    /\ spi' = Ended
    /\ cache' = received
    /\ answered' = IF spi.nextResult = "Success" THEN Front ELSE answered
    /\ Return(spi.nextResult)
    /\ UNCHANGED <<borrowed, lines, currentChannel>>

ReceivedValue == IF spi.nextResult = "Success" THEN Front ELSE cache

read == chip = "MCP3208" /\ Call(ReceivedValue)

sample == chip = "74HC165" /\ Call(Front)

\* A channel above 7.
readRejected ==
    /\ chip = "MCP3208"
    /\ Return("Error")
    /\ UNCHANGED inputChip

(***************************************************************************)
(* The multiplexer: each connected select line takes the bit of its place, *)
(* and the number is masked to the channels there are.  Callers may pass   *)
(* any number.                                                             *)
(***************************************************************************)
Bit(n, place) == (n \div place) % 2

Lines(n) == [place \in Connected |-> Bit(n, place)]

selectChannel(n) ==
    /\ lines' = Lines(n)
    /\ currentChannel' = n % MuxChannels

\* readChannel() selects and then reads; readRaw() reads what is selected.
readChannel(n) ==
    /\ selectChannel(n)
    /\ UNCHANGED <<spi, borrowed, cache, answered>>

InputNext ==
    /\ chip \in InputChipNames /\ Idle /\ UNCHANGED chip
    /\ \/ chip # "Multiplexer" /\ (Busy \/ read \/ sample \/ readRejected)
       \/ /\ UNCHANGED <<pc, result>>
          /\ IF chip = "Multiplexer"
             THEN \E n \in 0 .. 2 * MuxChannels : readChannel(n)
             ELSE \/ \E a \in Answer : queueResponse(a)
                  \/ \E r \in {"Success", "Error"} : setNextResult(r)
                  \/ Borrow \/ GiveBack

-----------------------------------------------------------------------------
(***************************************************************************)
(* Whatever failed before, a driver that is not running leaves the bus to  *)
(* whoever took it and to nobody else; a converter's value is the answer   *)
(* to its last successful read, and so are the inputs of a chain after a   *)
(* success; the select lines that are connected stand at the channel that  *)
(* is reported.                                                            *)
(***************************************************************************)
AnswersAreOwn ==
    /\ spi.active = borrowed
    /\ chip = "MCP3208" \/ result = "Success" => cache = answered
    /\ \A place \in Connected : lines[place] = Bit(currentChannel, place)
=============================================================================
