----------------------------- MODULE Timer2Tick -----------------------------
(***************************************************************************)
(* The 1 kHz tick source of the AVR platform (Timer2Tick over              *)
(* SaturatingTickCounter): a timer whose compare matches set a flag, an    *)
(* interrupt handler that counts, and mainline calls that read the counts  *)
(* a byte at a time inside an ATOMIC_BLOCK.                                *)
(*                                                                         *)
(* The timer and its flag OCF2A are hardware, external to the code.        *)
(***************************************************************************)
EXTENDS AvrMainline, Naturals

CONSTANTS
    MaxPending,   \* 255, where pending_ saturates
    MaxOverruns,  \* 65535, where overruns_ saturates
    Byte,         \* 256: overruns_ is read as two bytes
    Horizon       \* bound: compare matches and ticks counted in a behaviour

ASSUME TickAssumption ==
    /\ MaxPending \in Nat
    /\ MaxOverruns \in Nat
    /\ Byte \in Nat \ {0}
    /\ Horizon \in Nat

VARIABLES
    running,   \* TCCR2B selects a clock
    flag,      \* TIFR2.OCF2A: a compare match waits to be serviced
    enabled,   \* TIMSK2.OCIE2A
    pending,   \* pending_
    overruns,  \* overruns_
    value,     \* consumePending(): value; what the call returns
    bytes,     \* overrunCount(): low and high byte of the value read so far
    matches,   \* history: compare matches since initialize1kHz()
    serviced,  \* history: ticks counted since initialize1kHz()
    consumed   \* history: sum of what consumePending() has returned since

vars == <<running, flag, enabled, masked, pending, overruns, pc, value, bytes,
          matches, serviced, consumed>>

timer == <<running, enabled>>
counter == <<pending, overruns>>
history == <<matches, serviced, consumed>>

FlagsOK ==
    /\ running \in BOOLEAN /\ flag \in BOOLEAN
    /\ enabled \in BOOLEAN /\ masked \in BOOLEAN

CountsOK ==
    /\ pending \in 0 .. MaxPending
    /\ overruns \in 0 .. MaxOverruns
    /\ value \in 0 .. MaxPending
    /\ bytes \in Nat \X Nat
    /\ matches \in Nat /\ serviced \in Nat /\ consumed \in Nat

TickStep == {"idle", "initialize", "stop", "read", "clear", "low", "high",
             "exit", "exitConsume", "exitOverrun"}

TypeOK == FlagsOK /\ CountsOK /\ pc \in TickStep

(***************************************************************************)
(* Startup code may have left the timer running and its flag set.          *)
(***************************************************************************)
Init ==
    /\ running \in BOOLEAN
    /\ flag \in BOOLEAN
    /\ enabled = FALSE
    /\ masked = FALSE
    /\ pending = 0
    /\ overruns = 0
    /\ pc = "idle"
    /\ value = 0
    /\ bytes = <<0, 0>>
    /\ matches = 0
    /\ serviced = 0
    /\ consumed = 0

-----------------------------------------------------------------------------
(***************************************************************************)
(* Hardware: a compare match sets the flag, set or not.                    *)
(***************************************************************************)
CompareMatch ==
    /\ running
    /\ matches < Horizon
    /\ flag' = TRUE
    /\ matches' = matches + 1
    /\ UNCHANGED <<timer, masked, counter, pc, value, bytes, serviced, consumed>>

\* Faulty: the counter starts again at zero.
onTickWrapping ==
    /\ pending' = IF pending = MaxPending THEN 0 ELSE pending + 1
    /\ UNCHANGED overruns

(***************************************************************************)
(* SaturatingTickCounter::onTick().                                        *)
(***************************************************************************)
onTick ==
    IF pending = MaxPending
    THEN /\ overruns' = IF overruns # MaxOverruns THEN overruns + 1 ELSE overruns
         /\ UNCHANGED pending
    ELSE /\ pending' = pending + 1
         /\ UNCHANGED overruns

(***************************************************************************)
(* ISR(TIMER2_COMPA_vect), which clears the flag when it is entered.       *)
(***************************************************************************)
onCompareMatch ==
    /\ flag /\ enabled /\ ~masked
    /\ serviced < Horizon
    /\ flag' = FALSE
    /\ onTick
    /\ serviced' = serviced + 1
    /\ UNCHANGED <<timer, masked, pc, value, bytes, matches, consumed>>

-----------------------------------------------------------------------------
(***************************************************************************)
(* The ATOMIC_BLOCK around every mainline call.                            *)
(***************************************************************************)
\* Faulty: without the atomic block.
EnterUnmasked(next) ==
    /\ pc = "idle"
    /\ pc' = next
    /\ UNCHANGED <<masked, timer, flag, counter, value, bytes, history>>

Enter(next) ==
    /\ BlockBegins(next)
    /\ UNCHANGED <<timer, flag, counter, value, bytes, history>>

Exit ==
    /\ pc = "exit"
    /\ BlockEnds
    /\ UNCHANGED <<timer, flag, counter, value, bytes, history>>

initialize1kHz ==
    /\ pc = "initialize"
    /\ running' = TRUE
    /\ pending' = 0
    /\ overruns' = 0
    /\ enabled' = TRUE
    /\ pc' = "exit"
    /\ matches' = 0
    /\ serviced' = 0
    /\ consumed' = 0
    /\ UNCHANGED <<flag, masked, value, bytes>>

stop ==
    /\ pc = "stop"
    /\ running' = FALSE
    /\ enabled' = FALSE
    /\ pc' = "exit"
    /\ UNCHANGED <<flag, masked, counter, value, bytes, history>>

(***************************************************************************)
(* consumePending(): the count is read, then cleared.                      *)
(***************************************************************************)
ConsumeRead ==
    /\ pc = "read"
    /\ value' = pending
    /\ pc' = "clear"
    /\ UNCHANGED <<timer, flag, masked, counter, bytes, history>>

ConsumeClear ==
    /\ pc = "clear"
    /\ pending' = 0
    /\ pc' = "exitConsume"
    /\ UNCHANGED <<timer, flag, masked, overruns, value, bytes, history>>

ConsumeReturn ==
    /\ pc = "exitConsume"
    /\ BlockEnds
    /\ consumed' = consumed + value
    /\ value' = 0
    /\ UNCHANGED <<timer, flag, counter, bytes, matches, serviced>>

(***************************************************************************)
(* overrunCount(): two single-byte loads.                                  *)
(***************************************************************************)
OverrunLow ==
    /\ pc = "low"
    /\ bytes' = <<overruns % Byte, 0>>
    /\ pc' = "high"
    /\ UNCHANGED <<timer, flag, masked, counter, value, history>>

OverrunHigh ==
    /\ pc = "high"
    /\ bytes' = <<bytes[1], overruns \div Byte>>
    /\ pc' = "exitOverrun"
    /\ UNCHANGED <<timer, flag, masked, counter, value, history>>

OverrunReturn ==
    /\ pc = "exitOverrun"
    /\ BlockEnds
    /\ bytes' = <<0, 0>>
    /\ UNCHANGED <<timer, flag, counter, value, history>>

Next ==
    \/ CompareMatch
    \/ onCompareMatch
    \/ \E next \in {"initialize", "stop", "read", "low"} : Enter(next)
    \/ initialize1kHz \/ stop \/ Exit
    \/ ConsumeRead \/ ConsumeClear \/ ConsumeReturn
    \/ OverrunLow \/ OverrunHigh \/ OverrunReturn

Spec == Init /\ [][Next]_vars

-----------------------------------------------------------------------------
(***************************************************************************)
(* Every tick the handler has counted is either still pending, handed out  *)
(* by consumePending() (or on its way out), or reported as an overrun,     *)
(* exactly once, for as long as the overrun count has not saturated: no    *)
(* interleaving of handler and mainline loses or duplicates a tick.        *)
(***************************************************************************)
OnItsWay == IF pc = "exitConsume" THEN value ELSE 0

TicksAccounted ==
    overruns < MaxOverruns =>
        serviced = consumed + pending + overruns + OnItsWay

(***************************************************************************)
(* overrunCount() never combines the low byte of one value with the high   *)
(* byte of the next.                                                       *)
(***************************************************************************)
OverrunReadIsWhole ==
    pc = "exitOverrun" => bytes = <<overruns % Byte, overruns \div Byte>>

(***************************************************************************)
(* "Number of 1 millisecond ticks since the previous consumePending() call *)
(* (or since initialize1kHz(), if this is the first call)"                 *)
(* (timer2_tick.hpp, consumePending()): no more ticks are counted than     *)
(* compare matches have happened since then.                               *)
(***************************************************************************)
TicksSinceInitialize ==
    enabled => serviced <= matches
=============================================================================
