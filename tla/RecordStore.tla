----------------------------- MODULE RecordStore -----------------------------
(***************************************************************************)
(* The dual-slot record store (eurorack::storage::RecordStore) over any    *)
(* PersistentStorage backend.  Every backend call of store() and clear()   *)
(* is a step of its own: it may succeed, fail with part of its work done,  *)
(* or be cut by a loss of power.  load() calls nothing but read() and is   *)
(* one step.                                                               *)
(*                                                                         *)
(* Two kinds of backend exist.  In a write-through one (MemoryStorage, the *)
(* AVR EEPROM) a write is durable at once and commit() does nothing; in a  *)
(* staged one (FileStorage, the ESP EEPROM emulation) writes reach an      *)
(* image in memory that commit() makes durable.  Here commit() is atomic;  *)
(* RecordStoreOnFile replaces it by what FileStorage really does.          *)
(*                                                                         *)
(* A slot is abstracted to what inspectSlot() tells apart: whether magic   *)
(* and header CRC match ("intact"), the header's fields, the payload its   *)
(* payloadCrc32 was computed from ("crcOf"), and the payload bytes really  *)
(* there (NoPayload for erased or partly written ones).  Two different     *)
(* payloads are taken to have different CRC-32 values.                     *)
(***************************************************************************)
EXTENDS Naturals

CONSTANTS
    Payload,             \* payloads the callers use
    NoPayload,           \* erased, or partly written, payload bytes
    Size,                \* [Payload -> Nat], the payload's size in bytes
    MaximumPayloadSize,  \* slotSize - sizeof(RecordHeader)
    SignBit,             \* 2^31 in the code: half the range of a sequence
    Version,             \* schema versions the firmware has had
    Capacity,            \* destination capacities the callers of load() use
    ReadFaults           \* TRUE: a read() of the backend may fail

ASSUME PayloadAssumption == NoPayload \notin Payload
ASSUME SizeAssumption == Size \in [Payload -> Nat] /\ MaximumPayloadSize \in Nat
ASSUME SignBitAssumption == SignBit \in Nat /\ SignBit >= 2
ASSUME VersionAssumption == Version \subseteq Nat /\ Version # {}
ASSUME CapacityAssumption == Capacity \subseteq Nat
ASSUME BackendAssumption == ReadFaults \in BOOLEAN

VARIABLES
    media,          \* [SlotIndex -> Slot]: what a loss of power leaves
    image,          \* [SlotIndex -> Slot]: what read() returns
    pc,             \* the next backend call of the method that is running
    target,         \* store(): targetSlot
    nextSequence,   \* store(): nextSequence
    schemaVersion,  \* config_.schemaVersion of the running firmware
    writeThrough,   \* the kind of backend: TRUE when writes are durable at once
    call,           \* history: the last store() or clear() and its outcome
    attempted,      \* history: payloads stored since the last clear()
    result          \* what the last load() returned

vars == <<media, image, pc, target, nextSequence, schemaVersion, writeThrough,
          call, attempted, result>>

-----------------------------------------------------------------------------
SequenceModulus == 2 * SignBit
Sequence == 0 .. SequenceModulus - 1
SlotIndex == {0, 1}
\* Faulty: the newest slot itself is taken for the inactive one.
OtherIsTheSame(i) == i
Other(i) == 1 - i

Slot == [intact : BOOLEAN, schemaVersion : Version \cup {0},
         sequence : Sequence, crcOf : Payload \cup {NoPayload},
         payload : Payload \cup {NoPayload}]

(***************************************************************************)
(* A slot whose header does not validate; its fields are never looked at.  *)
(***************************************************************************)
Unreadable(bytes) == [intact |-> FALSE, schemaVersion |-> 0, sequence |-> 0,
                      crcOf |-> NoPayload, payload |-> bytes]
ErasedSlot == Unreadable(NoPayload)

(***************************************************************************)
(* candidate - reference in uint32_t arithmetic, and its int32_t sign.     *)
(***************************************************************************)
Distance(candidate, reference) ==
    IF candidate >= reference THEN candidate - reference
                              ELSE candidate + SequenceModulus - reference
\* Faulty: no allowance for wraparound.
UnsignedNewer(candidate, reference) == candidate > reference
sequenceNewer(candidate, reference) ==
    Distance(candidate, reference) \in 1 .. SignBit - 1

\* Faulty: a counter that saturates.
SaturatingSuccessor(s) == IF s = SequenceModulus - 1 THEN s ELSE s + 1
Successor(s) == IF s = SequenceModulus - 1 THEN 0 ELSE s + 1

(***************************************************************************)
(* inspectSlot(): header validated, payload read, CRC compared.  The CRC   *)
(* of an empty payload does not depend on any byte.                        *)
(***************************************************************************)
Valid(slot) == /\ slot.intact
               /\ \/ Size[slot.crcOf] = 0
                  \/ slot.payload = slot.crcOf

(***************************************************************************)
(* The slot the selection of load() and of store() takes for the current   *)
(* one, given the slots whose reads succeed; 2 when there is none.         *)
(***************************************************************************)
\* Faulty: records of another schema version are passed over.
ValidOfThisVersion(slots, readable) ==
    {i \in readable : /\ Valid(slots[i])
                      /\ slots[i].schemaVersion = schemaVersion}
ValidAmong(slots, readable) == {i \in readable : Valid(slots[i])}
Newest(slots, readable) ==
    LET good == ValidAmong(slots, readable) IN
    CASE good = {}       -> 2
      [] good = {0}      -> 0
      [] good = {1}      -> 1
      [] good = SlotIndex ->
            IF sequenceNewer(slots[1].sequence, slots[0].sequence)
            THEN 1 ELSE 0

(***************************************************************************)
(* The payload load() would select if every read succeeded.                *)
(***************************************************************************)
Current(slots) == LET i == Newest(slots, SlotIndex) IN
                  IF i = 2 THEN NoPayload ELSE slots[i].crcOf

-----------------------------------------------------------------------------
(***************************************************************************)
(* What an erase() or a write() that does not complete may leave.  An      *)
(* erase goes through the addresses upwards: the header first.             *)
(***************************************************************************)
PartlyErased(slot) == {slot, Unreadable(slot.payload), ErasedSlot}

PartlyCleared(slots) ==
    {[slots EXCEPT ![0] = s] : s \in PartlyErased(slots[0])}
      \cup {[i \in SlotIndex |-> IF i = 0 THEN ErasedSlot ELSE s] :
                s \in PartlyErased(slots[1])}

Record == [intact |-> TRUE, schemaVersion |-> schemaVersion,
           sequence |-> nextSequence, crcOf |-> call.payload,
           payload |-> image[target].payload]

AfterErase   == [image EXCEPT ![target] = ErasedSlot]
AfterPayload == [image EXCEPT ![target] = Unreadable(call.payload)]
AfterHeader  == [image EXCEPT ![target] = Record]
AfterClear   == [i \in SlotIndex |-> ErasedSlot]

(***************************************************************************)
(* The images the backend call at pc may leave when it does not complete.  *)
(***************************************************************************)
Incomplete ==
    CASE pc = "erase"      -> {[image EXCEPT ![target] = s] :
                                   s \in PartlyErased(image[target])}
      [] pc = "payload"    -> {image, AfterPayload}
      [] pc = "header"     -> {image, AfterHeader}
      [] pc = "clearErase" -> PartlyCleared(image)
      [] OTHER             -> {image}

(***************************************************************************)
(* A write or an erase: the staged image changes, and in a write-through   *)
(* backend the media with it.                                              *)
(***************************************************************************)
Put(slots) == /\ image' = slots
              /\ media' = IF writeThrough THEN slots ELSE media

(***************************************************************************)
(* The local variables of store() outside a call.                          *)
(***************************************************************************)
NoLocals == target' = 0 /\ nextSequence' = 1

NoResult == [status |-> "None", payload |-> NoPayload]

Status == {"None", "Success", "NoValidRecord", "InvalidArgument",
           "VersionMismatch", "PayloadTooLarge", "StorageError"}

TypeOK ==
    /\ media \in [SlotIndex -> Slot]
    /\ image \in [SlotIndex -> Slot]
    /\ pc \in {"idle", "erase", "payload", "header", "commit",
               "clearErase", "clearCommit", "off"}
    /\ target \in SlotIndex
    /\ nextSequence \in Sequence
    /\ schemaVersion \in Version
    /\ writeThrough \in BOOLEAN
    /\ call \in [op : {"store", "clear"}, payload : Payload \cup {NoPayload},
                 outcome : {"pending", "success", "unknown"}]
    /\ attempted \subseteq Payload
    /\ result \in [status : Status, payload : Payload \cup {NoPayload}]

Init ==
    /\ media = [i \in SlotIndex |-> ErasedSlot]
    /\ image = media
    /\ pc = "idle"
    /\ target = 0
    /\ nextSequence = 1
    /\ schemaVersion \in Version
    /\ writeThrough \in BOOLEAN
    /\ call = [op |-> "clear", payload |-> NoPayload, outcome |-> "unknown"]
    /\ attempted = {}
    /\ result = NoResult

-----------------------------------------------------------------------------
Readable == IF ReadFaults THEN SUBSET SlotIndex ELSE {SlotIndex}

(***************************************************************************)
(* store(): the argument checks, both inspectSlot() calls and the choice   *)
(* of slot and sequence.  A slot that cannot be read counts as invalid.    *)
(***************************************************************************)
StoreRejected(p) ==
    /\ pc = "idle"
    /\ Size[p] > MaximumPayloadSize
    /\ result' = [status |-> "PayloadTooLarge", payload |-> NoPayload]
    /\ UNCHANGED <<media, image, pc, target, nextSequence, schemaVersion,
                   writeThrough, call, attempted>>

Store(p) ==
    /\ pc = "idle"
    /\ Size[p] <= MaximumPayloadSize
    /\ \E readable \in Readable :
          LET newest == Newest(image, readable) IN
          /\ target' = IF newest = 2 THEN 0 ELSE Other(newest)
          /\ nextSequence' = IF newest = 2 THEN 1
                             ELSE Successor(image[newest].sequence)
    /\ pc' = "erase"
    /\ call' = [op |-> "store", payload |-> p, outcome |-> "pending"]
    /\ attempted' = attempted \cup {p}
    /\ result' = NoResult
    /\ UNCHANGED <<media, image, schemaVersion, writeThrough>>

StoreErase ==
    /\ pc = "erase"
    /\ Put(AfterErase)
    /\ pc' = IF Size[call.payload] > 0 THEN "payload" ELSE "header"
    /\ UNCHANGED <<target, nextSequence, schemaVersion, writeThrough, call,
                   attempted, result>>

StorePayload ==
    /\ pc = "payload"
    /\ Put(AfterPayload)
    /\ pc' = "header"
    /\ UNCHANGED <<target, nextSequence, schemaVersion, writeThrough, call,
                   attempted, result>>

StoreHeader ==
    /\ pc = "header"
    /\ Put(AfterHeader)
    /\ pc' = "commit"
    /\ UNCHANGED <<target, nextSequence, schemaVersion, writeThrough, call,
                   attempted, result>>

(***************************************************************************)
(* clear(): one erase() over both slots, then commit().                    *)
(***************************************************************************)
Clear ==
    /\ pc = "idle"
    /\ pc' = "clearErase"
    /\ call' = [op |-> "clear", payload |-> NoPayload, outcome |-> "pending"]
    /\ result' = NoResult
    /\ UNCHANGED <<media, image, target, nextSequence, schemaVersion,
                   writeThrough, attempted>>

ClearErase ==
    /\ pc = "clearErase"
    /\ Put(AfterClear)
    /\ pc' = "clearCommit"
    /\ UNCHANGED <<target, nextSequence, schemaVersion, writeThrough, call,
                   attempted, result>>

(***************************************************************************)
(* store() and clear() return Success, which they do only after commit().  *)
(***************************************************************************)
ReturnSuccess ==
    /\ pc \in {"commit", "clearCommit"}
    /\ pc' = "idle"
    /\ call' = [call EXCEPT !.outcome = "success"]
    /\ attempted' = IF call.op = "clear" THEN {} ELSE attempted
    /\ NoLocals
    /\ UNCHANGED <<schemaVersion, writeThrough, result>>

\* Faulty: success is reported without a commit().
CommitForgotten == ReturnSuccess /\ UNCHANGED <<media, image>>

(***************************************************************************)
(* The commit() that ends store() and clear() succeeds: they do, too.      *)
(***************************************************************************)
Commit ==
    /\ media' = image
    /\ ReturnSuccess
    /\ UNCHANGED image

(***************************************************************************)
(* A backend call fails, whatever it had done: the method returns          *)
(* StorageError at once.                                                   *)
(***************************************************************************)
BackendFails ==
    /\ pc \notin {"idle", "off"}
    /\ \/ \E slots \in Incomplete : Put(slots)
       \/ pc \in {"commit", "clearCommit"} /\ media' = image /\ UNCHANGED image
    /\ pc' = "idle"
    /\ call' = [call EXCEPT !.outcome = "unknown"]
    /\ NoLocals
    /\ UNCHANGED <<schemaVersion, writeThrough, attempted, result>>

(***************************************************************************)
(* load() with a destination of the given capacity: the first conditions   *)
(* that fail decide the status, and the payload is read again at the end.  *)
(***************************************************************************)
LoadStatus(newest, capacity, readOk) ==
    CASE newest = 2                                     -> "NoValidRecord"
      [] newest # 2 /\ image[newest].schemaVersion # schemaVersion
                                                        -> "VersionMismatch"
      [] newest # 2 /\ image[newest].schemaVersion = schemaVersion
           /\ capacity < Size[image[newest].crcOf]      -> "PayloadTooLarge"
      [] OTHER -> IF readOk THEN "Success" ELSE "StorageError"

Load(capacity) ==
    /\ pc = "idle"
    /\ \E readable \in Readable, readOk \in {TRUE, ~ReadFaults} :
          LET newest == Newest(image, readable)
              status == LoadStatus(newest, capacity, readOk)
          IN  result' = [status  |-> status,
                         payload |-> IF status = "Success"
                                     THEN image[newest].crcOf ELSE NoPayload]
    /\ UNCHANGED <<media, image, pc, target, nextSequence, schemaVersion,
                   writeThrough, call, attempted>>

(***************************************************************************)
(* store() and load() called with a null pointer and a non-zero size.      *)
(***************************************************************************)
NullArgument ==
    /\ pc = "idle"
    /\ result' = [status |-> "InvalidArgument", payload |-> NoPayload]
    /\ UNCHANGED <<media, image, pc, target, nextSequence, schemaVersion,
                   writeThrough, call, attempted>>

(***************************************************************************)
(* Power is lost at any moment, in the middle of a backend call too.  The  *)
(* staged image is gone; the next session may be a firmware with another   *)
(* schema version.                                                         *)
(***************************************************************************)
PowerLoss ==
    /\ pc # "off"
    /\ media' \in IF writeThrough THEN Incomplete
                  ELSE IF pc \in {"commit", "clearCommit"} THEN {media, image}
                  ELSE {media}
    /\ image' = media'
    /\ pc' = "off"
    /\ call' = [call EXCEPT !.outcome =
                    IF @ = "pending" THEN "unknown" ELSE @]
    /\ result' = NoResult
    /\ NoLocals
    /\ UNCHANGED <<schemaVersion, writeThrough, attempted>>

PowerOn ==
    /\ pc = "off"
    /\ pc' = "idle"
    /\ schemaVersion' \in Version
    /\ UNCHANGED <<media, image, target, nextSequence, writeThrough, call,
                   attempted, result>>

Next ==
    \/ \E p \in Payload : StoreRejected(p) \/ Store(p)
    \/ StoreErase \/ StorePayload \/ StoreHeader
    \/ Clear \/ ClearErase
    \/ Commit \/ BackendFails
    \/ \E capacity \in Capacity : Load(capacity)
    \/ NullArgument
    \/ PowerLoss \/ PowerOn

Spec == Init /\ [][Next]_vars

-----------------------------------------------------------------------------
(***************************************************************************)
(* Two valid slots always carry neighbouring sequence numbers, so that the *)
(* signed comparison of sequenceNewer() is decided also where the counter  *)
(* wraps around; on the media and in the staged image alike.               *)
(***************************************************************************)
Neighbours(slots) ==
    (\A i \in SlotIndex : Valid(slots[i])) =>
        \/ Distance(slots[1].sequence, slots[0].sequence) = 1
        \/ Distance(slots[0].sequence, slots[1].sequence) = 1

SlotsAreNeighbours == Neighbours(media) /\ Neighbours(image)

(***************************************************************************)
(* "A failure or power loss during this call cannot destroy the last good  *)
(* record" (record_store.hpp, store()): while store() runs, each step      *)
(* leaves the record a restart would find unchanged or replaces it by the  *)
(* one being stored.                                                       *)
(***************************************************************************)
StoreKeepsLastGood ==
    [][call.op = "store" /\ call.outcome = "pending"
         => Current(media') \in {Current(media), call.payload}]_vars

(***************************************************************************)
(* Once store() or clear() has returned Success, the media hold what it    *)
(* asked for until the next mutating call begins, through any number of    *)
(* power losses and restarts with any firmware.                            *)
(***************************************************************************)
AcknowledgedIsDurable ==
    call.outcome = "success" => Current(media) = call.payload

(***************************************************************************)
(* After an acknowledged call, a load() that reports Success returns that  *)
(* payload, also in a later session, and NoValidRecord is reported only    *)
(* after an acknowledged clear(): a record of another schema version never *)
(* makes load() fall back to the older slot.                               *)
(***************************************************************************)
ReadYourWrites ==
    call.outcome = "success" =>
        /\ result.status = "Success" => result.payload = call.payload
        /\ result.status = "NoValidRecord" => call.op = "clear"

(***************************************************************************)
(* The abstract record: what a restart would find.                         *)
(***************************************************************************)
Abstract == INSTANCE AtomicRecord WITH value <- Current(media)

ImplementsAtomicRecord == Abstract!Spec
=============================================================================
