------------------------------- MODULE Storages -------------------------------
(***************************************************************************)
(* The two ways to keep data over a loss of power: a record store on a     *)
(* file, or a fixed slot on a backend of its own.  They share nothing, so  *)
(* that a behaviour follows one of them.                                   *)
(***************************************************************************)
EXTENDS RecordStoreOnFile, FixedSlot

VARIABLE kept  \* what the program uses, "records" or "slot"; it does not change

StoragesInit ==
    /\ kept \in {"records", "slot"}
    /\ Init /\ SlotInit
    /\ kept = "records" => slotWriteThrough

StoragesNext ==
    \/ kept = "records" /\ Next /\ UNCHANGED <<kept, slotVars>>
    \/ kept = "slot" /\ SlotNext /\ UNCHANGED <<kept, vars>>

StoragesSpec == StoragesInit /\ [][StoragesNext]_<<kept, slotVars, vars>>

-----------------------------------------------------------------------------
(***************************************************************************)
(* What store() or clear() acknowledged, of records or of the slot, is     *)
(* what every restart finds until the next call begins, but for the        *)
(* clear() of a file that was read only in part (AcknowledgedIsDurable).   *)
(***************************************************************************)
AcknowledgedSurvives == AcknowledgedIsDurable /\ SlotAcknowledged
=============================================================================
