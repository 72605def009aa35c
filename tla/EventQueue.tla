------------------------------ MODULE EventQueue ------------------------------
(***************************************************************************)
(* EventQueue: a ring of Capacity events.  The index (head_ + k) %         *)
(* Capacity is written without the remainder, for both summands are at     *)
(* most Capacity.                                                          *)
(***************************************************************************)
EXTENDS Naturals

CONSTANTS
    Event,       \* the events the program uses
    NoEvent,     \* a value-initialized element of storage_
    Capacity,    \* the template argument
    MaxDropped   \* the largest std::size_t

ASSUME QueueAssumption ==
    /\ NoEvent \notin Event
    /\ Capacity \in Nat \ {0}      \* the static_assert
    /\ MaxDropped \in Nat

VARIABLES
    storage,   \* storage_
    head,      \* head_
    size,      \* size_
    dropped,   \* dropped_
    returned   \* [ok, event]: what the last push() or pop() returned

vars == <<storage, head, size, dropped, returned>>

Slot == 0 .. Capacity - 1

TypeOK ==
    /\ storage \in [Slot -> Event \cup {NoEvent}]
    /\ head \in Slot
    /\ size \in 0 .. Capacity
    /\ dropped \in 0 .. MaxDropped
    /\ returned \in [ok : BOOLEAN, event : Event \cup {NoEvent}]

Init ==
    /\ storage = [i \in Slot |-> NoEvent]
    /\ head = 0
    /\ size = 0
    /\ dropped = 0
    /\ returned = [ok |-> FALSE, event |-> NoEvent]

(***************************************************************************)
(* The slot k places behind the head.                                      *)
(***************************************************************************)
Behind(k) == IF head + k < Capacity THEN head + k ELSE head + k - Capacity

\* Faulty: the oldest event is overwritten when the queue is full.
PushOverwriting(e) ==
    /\ storage' = [storage EXCEPT ![Behind(size)] = e]
    /\ size' = IF size = Capacity THEN size ELSE size + 1
    /\ returned' = [ok |-> TRUE, event |-> NoEvent]
    /\ UNCHANGED <<head, dropped>>

push(e) ==
    /\ size # Capacity
    /\ storage' = [storage EXCEPT ![Behind(size)] = e]
    /\ size' = size + 1
    /\ returned' = [ok |-> TRUE, event |-> NoEvent]
    /\ UNCHANGED <<head, dropped>>

pushRefused ==
    /\ size = Capacity
    /\ dropped' = IF dropped # MaxDropped THEN dropped + 1 ELSE dropped
    /\ returned' = [ok |-> FALSE, event |-> NoEvent]
    /\ UNCHANGED <<storage, head, size>>

pop ==
    /\ size # 0
    /\ returned' = [ok |-> TRUE, event |-> storage[head]]
    /\ head' = Behind(1)
    /\ size' = size - 1
    /\ UNCHANGED <<storage, dropped>>

popNothing ==
    /\ size = 0
    /\ returned' = [ok |-> FALSE, event |-> NoEvent]
    /\ UNCHANGED <<storage, head, size, dropped>>

clear ==
    /\ head' = 0
    /\ size' = 0
    /\ UNCHANGED <<storage, dropped, returned>>

Next ==
    \/ \E e \in Event : push(e)
    \/ pushRefused
    \/ pop \/ popNothing
    \/ clear

Spec == Init /\ [][Next]_vars

-----------------------------------------------------------------------------
(***************************************************************************)
(* The ring is a bounded first-in first-out queue: wherever the head is,   *)
(* events leave in the order they came, none is lost but those push()      *)
(* refuses, and the refusals are counted.                                  *)
(***************************************************************************)
Queued == [k \in 1 .. size |-> storage[Behind(k - 1)]]

Fifo == INSTANCE BoundedFifo WITH queue <- Queued

ImplementsFifo == Fifo!Spec
=============================================================================
