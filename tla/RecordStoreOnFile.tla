-------------------------- MODULE RecordStoreOnFile --------------------------
(***************************************************************************)
(* A RecordStore whose backend is a FileStorage, as in the simulator and   *)
(* the native tools.  The store's image is the file's bytes_, its media    *)
(* are what the next FileStorage object would load, and its one commit()   *)
(* is the sequence of file operations of FileStorage::commit().            *)
(***************************************************************************)
EXTENDS FileStorage, Naturals

CONSTANTS Payload, NoPayload, Size, MaximumPayloadSize, SignBit, Version,
          Capacity

VARIABLES pc, target, nextSequence, schemaVersion, call, attempted, result,
          writeThrough, \* FALSE: the backend is a staged one
          misread       \* history: the last call that succeeded was a clear()
                        \* that found nothing to erase in a part of the file

callVars == <<pc, target, nextSequence, schemaVersion, call, attempted, result,
              writeThrough, misread>>
vars == <<fileVars, callVars>>

Record == INSTANCE RecordStore WITH image <- bytes, media <- Restart,
            ReadFaults <- FALSE

(***************************************************************************)
(* What a read of the slots leaves that stops in the first header, in its  *)
(* payload, after it, or in the payload of the second slot.  A header that *)
(* arrived in part stands for an erased one: neither validates.            *)
(***************************************************************************)
PartlyRead(slots) ==
    LET WithoutPayload(slot) == [slot EXCEPT !.payload = NoPayload]
        FirstOnly(slot) == [i \in Record!SlotIndex |->
                               IF i = 0 THEN slot ELSE Record!ErasedSlot]
    IN  {Record!AfterClear, FirstOnly(WithoutPayload(slots[0])),
         FirstOnly(slots[0]), [slots EXCEPT ![1] = WithoutPayload(@)]}

(***************************************************************************)
(* What RecordStore assumes of its constants; an image of the file is a    *)
(* pair of slots, and the erased bytes of a new one are two erased slots.  *)
(***************************************************************************)
ASSUME OnFileAssumption ==
    /\ NoPayload \notin Payload
    /\ Size \in [Payload -> Nat] /\ MaximumPayloadSize \in Nat
    /\ SignBit \in Nat /\ SignBit >= 2
    /\ Version \subseteq Nat /\ Version # {}
    /\ Capacity \subseteq Nat
    /\ Image = [Record!SlotIndex -> Record!Slot]
    /\ Blank = Record!AfterClear
    /\ \A slots \in Image : PartOf(slots) \subseteq PartlyRead(slots)

-----------------------------------------------------------------------------
Init ==
    /\ FileInit
    /\ pc = "off"
    /\ target = 0
    /\ nextSequence = 1
    /\ schemaVersion \in Version
    /\ call = [op |-> "clear", payload |-> NoPayload, outcome |-> "unknown"]
    /\ attempted = {}
    /\ result = Record!NoResult
    /\ writeThrough = FALSE
    /\ misread = FALSE

(***************************************************************************)
(* The program starts: FileStorage's constructor, then RecordStore's.      *)
(***************************************************************************)
Start ==
    /\ pc = "off"
    /\ Open
    /\ pc' = "idle"
    /\ schemaVersion' \in Version
    /\ UNCHANGED <<target, nextSequence, call, attempted, result, writeThrough,
                   misread>>

(***************************************************************************)
(* The calls, up to their first access that changes the image.             *)
(***************************************************************************)
Call ==
    /\ ready
    /\ UNCHANGED <<fileVars, misread>>
    /\ \/ \E p \in Payload : Record!Store(p) \/ Record!StoreRejected(p)
       \/ Record!Clear
       \/ \E capacity \in Capacity : Record!Load(capacity)
       \/ Record!NullArgument

(***************************************************************************)
(* Every read(), erase() and write() of an object that is not ready fails: *)
(* load() finds no valid record, store() and clear() stop at the erase.    *)
(***************************************************************************)
CallNotReady ==
    /\ ~ready /\ pc = "idle"
    /\ \/ /\ result' = [status |-> "NoValidRecord", payload |-> NoPayload]
          /\ UNCHANGED <<call, attempted>>
       \/ /\ result' = [status |-> "StorageError", payload |-> NoPayload]
          /\ \/ \E p \in Payload :
                   /\ Size[p] <= MaximumPayloadSize
                   /\ call' = [op |-> "store", payload |-> p,
                               outcome |-> "unknown"]
                   /\ attempted' = attempted \cup {p}
             \/ /\ call' = [op |-> "clear", payload |-> NoPayload,
                            outcome |-> "unknown"]
                /\ UNCHANGED attempted
    /\ Refused
    /\ UNCHANGED <<pc, target, nextSequence, schemaVersion, writeThrough, misread>>

(***************************************************************************)
(* The erase() and write() calls of the record store change bytes_.        *)
(***************************************************************************)
Stage ==
    /\ UNCHANGED <<disk, misread>>
    /\ \/ Record!StoreErase
       \/ Record!StorePayload
       \/ Record!StoreHeader
       \/ Record!ClearErase
    /\ Write(bytes')

(***************************************************************************)
(* commit(): its steps that do not return, the two ways it succeeds, and   *)
(* its failures.                                                           *)
(***************************************************************************)
CommitRuns ==
    /\ pc \in {"commit", "clearCommit"}
    /\ \/ CommitBegin
       \/ OpenTemporary
       \/ WriteTemporary
       \/ RemoveTarget
       \/ RenameFails
    /\ UNCHANGED callVars

CommitSucceeds ==
    /\ Record!ReturnSuccess
    /\ \/ CommitClean /\ misread' = readInPart
       \/ Rename /\ misread' = FALSE

CommitFails ==
    /\ pc \in {"commit", "clearCommit"}
    /\ WriteFails \/ Cleanup
    /\ Record!BackendFails
    /\ UNCHANGED misread

(***************************************************************************)
(* The program ends or is stopped anywhere.                                *)
(***************************************************************************)
ProgramStops ==
    /\ pc # "off"
    /\ Stop
    /\ pc' = "off"
    /\ call' = [call EXCEPT !.outcome =
                    IF @ = "pending" THEN "unknown" ELSE @]
    /\ result' = Record!NoResult
    /\ Record!NoLocals
    /\ UNCHANGED <<schemaVersion, writeThrough, attempted, misread>>

Next == Start \/ Call \/ CallNotReady \/ Stage
          \/ CommitRuns \/ CommitSucceeds \/ CommitFails \/ ProgramStops

Spec == Init /\ [][Next]_vars

-----------------------------------------------------------------------------
(***************************************************************************)
(* What store() acknowledged survives any number of restarts, until the    *)
(* next call begins.  What clear() acknowledged does so too, but for a     *)
(* clear() that found nothing to erase because the file had been read only *)
(* in part: the record it was asked to erase is still on the disk.         *)
(***************************************************************************)
AcknowledgedIsDurable ==
    call.outcome = "success" =>
        \/ Record!Current(Restart) = call.payload
        \/ misread /\ call.op = "clear"

(***************************************************************************)
(* What a store() interrupted in the middle of commit() can do to the      *)
(* record is to lose it; it never brings back the record before it.        *)
(***************************************************************************)
StoreNeverRollsBack ==
    [][call.op = "store" /\ call.outcome = "pending" =>
        Record!Current(Restart')
            \in {Record!Current(Restart), call.payload, NoPayload}]_vars

(***************************************************************************)
(* "A failure or power loss during this call cannot destroy the last good  *)
(* record" (record_store.hpp, store()).                                    *)
(***************************************************************************)
StoreKeepsLastGood ==
    [][call.op = "store" /\ call.outcome = "pending" =>
        Record!Current(Restart')
            \in {Record!Current(Restart), call.payload}]_vars
=============================================================================
