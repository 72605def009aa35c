---------------------------- MODULE AtomicRecord ----------------------------
(***************************************************************************)
(* What RecordStore promises to its caller: one durable record that a      *)
(* store() replaces in a single indivisible step.  A call that fails, or   *)
(* that a loss of power interrupts, has either happened or not happened;   *)
(* a call that reports success has happened.                               *)
(*                                                                         *)
(* clear() promises less: it erases two records one after the other, so a  *)
(* clear() that does not complete may leave a record that an earlier       *)
(* store() had already replaced.                                           *)
(***************************************************************************)
CONSTANTS Payload,    \* the payloads a caller may store
          NoPayload   \* stands for "no valid record"

VARIABLES value,      \* the record that load() finds after a restart
          call,       \* the last mutating call and its outcome
          attempted   \* payloads given to store() since the last clear()
                      \* that succeeded

vars == <<value, call, attempted>>

Outcome == {"pending", "success", "unknown"}

Call == [op : {"store", "clear"}, payload : Payload \cup {NoPayload},
         outcome : Outcome]

TypeOK == /\ value \in Payload \cup {NoPayload}
          /\ call \in Call
          /\ attempted \subseteq Payload

(***************************************************************************)
(* The records a call in progress may leave behind.                        *)
(***************************************************************************)
Effects == IF call.op = "store" THEN {call.payload}
                                ELSE attempted \cup {NoPayload}

Init == /\ value = NoPayload
        /\ call = [op |-> "clear", payload |-> NoPayload,
                   outcome |-> "unknown"]
        /\ attempted = {}

BeginStore(p) ==
    /\ call.outcome # "pending"
    /\ call' = [op |-> "store", payload |-> p, outcome |-> "pending"]
    /\ attempted' = attempted \cup {p}
    /\ UNCHANGED value

BeginClear ==
    /\ call.outcome # "pending"
    /\ call' = [op |-> "clear", payload |-> NoPayload, outcome |-> "pending"]
    /\ UNCHANGED <<value, attempted>>

TakeEffect ==
    /\ call.outcome = "pending"
    /\ value' \in Effects
    /\ UNCHANGED <<call, attempted>>

(***************************************************************************)
(* The call reports success: it has taken effect.                          *)
(***************************************************************************)
Succeed ==
    /\ call.outcome = "pending"
    /\ value' = call.payload
    /\ call' = [call EXCEPT !.outcome = "success"]
    /\ attempted' = IF call.op = "clear" THEN {} ELSE attempted

(***************************************************************************)
(* The call reports an error, or the power is lost while it runs.          *)
(***************************************************************************)
GiveUp ==
    /\ call.outcome = "pending"
    /\ value' \in {value} \cup Effects
    /\ call' = [call EXCEPT !.outcome = "unknown"]
    /\ UNCHANGED attempted

Next == \/ \E p \in Payload : BeginStore(p)
        \/ BeginClear
        \/ TakeEffect
        \/ Succeed
        \/ GiveUp

Spec == Init /\ [][Next]_vars
=============================================================================
