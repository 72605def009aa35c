----------------------------- MODULE BoundedFifo -----------------------------
(***************************************************************************)
(* What EventQueue promises: a first-in first-out queue that refuses an    *)
(* event when it is full, and counts the refusals up to a limit.           *)
(***************************************************************************)
EXTENDS Naturals, Sequences

CONSTANTS Event,       \* the events
          NoEvent,     \* what a call that returns none delivers
          Capacity,    \* the number of events that fit
          MaxDropped   \* where the count of refused events saturates

VARIABLES queue,       \* the events queued, oldest first
          dropped,     \* the refused events
          returned     \* [ok, event]: what the last call returned

vars == <<queue, dropped, returned>>

Init == /\ queue = <<>>
        /\ dropped = 0
        /\ returned = [ok |-> FALSE, event |-> NoEvent]

Push(e) ==
    /\ Len(queue) < Capacity
    /\ queue' = Append(queue, e)
    /\ returned' = [ok |-> TRUE, event |-> NoEvent]
    /\ UNCHANGED dropped

Refuse ==
    /\ Len(queue) = Capacity
    /\ dropped' = IF dropped < MaxDropped THEN dropped + 1 ELSE dropped
    /\ returned' = [ok |-> FALSE, event |-> NoEvent]
    /\ UNCHANGED queue

Pop ==
    /\ queue # <<>>
    /\ queue' = Tail(queue)
    /\ returned' = [ok |-> TRUE, event |-> Head(queue)]
    /\ UNCHANGED dropped

PopNothing ==
    /\ queue = <<>>
    /\ returned' = [ok |-> FALSE, event |-> NoEvent]
    /\ UNCHANGED <<queue, dropped>>

Clear ==
    /\ queue' = <<>>
    /\ UNCHANGED <<dropped, returned>>

Next == \/ \E e \in Event : Push(e)
        \/ Refuse \/ Pop \/ PopNothing \/ Clear

Spec == Init /\ [][Next]_vars
=============================================================================
