---------------------------- MODULE StoragesProofs ----------------------------
(***************************************************************************)
(* The record store keeps what it acknowledges also where commit() is the  *)
(* sequence of file operations of FileStorage, each of which may fail or   *)
(* be the last one before the program is stopped.                          *)
(***************************************************************************)
EXTENDS Storages

(***************************************************************************)
(* What the record store takes to be durable: after a clear() of a file    *)
(* that was read only in part, nothing, whatever is on the disk.           *)
(***************************************************************************)
Believed == IF misread THEN Blank ELSE Restart

Proved == INSTANCE RecordStoreProofs WITH image <- bytes, media <- Believed,
            ReadFaults <- FALSE

(***************************************************************************)
(* How the two components stand to each other: there is a FileStorage      *)
(* object exactly while the program runs, commit() runs only where the     *)
(* record store called it, and an object that is not ready lets no call    *)
(* past its first access.  The header of store() always changes the image, *)
(* so that only a clear() can find nothing to commit in a part of a file.  *)
(***************************************************************************)
InStep ==
    /\ writeThrough = FALSE
    /\ step = "closed" <=> pc = "off"
    /\ step \notin {"closed", "none"} => pc \in {"commit", "clearCommit"}
    /\ ~ready => pc \in {"off", "idle"}
    /\ pc = "commit" => dirty
    /\ pc = "clearCommit" => bytes = Blank
    /\ misread /\ call.outcome = "success" => call.op = "clear"

DiskOK == Proved!WellFormed(Restart) /\ Proved!Neighbours(Restart)

OnFileInv == CommitInv /\ Proved!IInv /\ InStep /\ DiskOK

-----------------------------------------------------------------------------
(***************************************************************************)
(* Both instances are of the same definitions.                             *)
(***************************************************************************)
LEMMA SameNewest ==
    ASSUME NEW slots, NEW readable
    PROVE  /\ Record!Newest(slots, readable) = Proved!Newest(slots, readable)
           /\ Record!Current(slots) = Proved!Current(slots)
<1>1. ASSUME NEW r PROVE Record!Newest(slots, r) = Proved!Newest(slots, r)
  BY DEF Record!Newest, Proved!Newest, Record!ValidAmong, Proved!ValidAmong,
     Record!Valid, Proved!Valid, Record!SlotIndex, Proved!SlotIndex,
     Record!sequenceNewer, Proved!sequenceNewer, Record!Distance,
     Proved!Distance, Record!SequenceModulus, Proved!SequenceModulus
<1> QED
  BY <1>1 DEF Record!Current, Proved!Current, Record!SlotIndex, Proved!SlotIndex

LEMMA SameConstants ==
    /\ Record!SlotIndex = Proved!SlotIndex
    /\ Record!Slot = Proved!Slot
    /\ Record!AfterClear = Proved!AfterClear
    /\ Record!NoResult = Proved!NoResult
BY DEF Record!SlotIndex, Proved!SlotIndex, Record!Slot, Proved!Slot,
   Record!Sequence, Proved!Sequence, Record!SequenceModulus,
   Proved!SequenceModulus, Record!AfterClear, Proved!AfterClear,
   Record!ErasedSlot, Proved!ErasedSlot, Record!Unreadable, Proved!Unreadable,
   Record!NoResult, Proved!NoResult

LEMMA Untouched ==
    ASSUME UNCHANGED <<disk, misread>>
    PROVE  Restart' = Restart /\ Believed' = Believed
BY DEF Restart, Believed

LEMMA SameCalls ==
    ASSUME UNCHANGED <<disk, misread>>
    PROVE
    /\ \A p \in Payload : /\ Record!Store(p) <=> Proved!Store(p)
                          /\ Record!StoreRejected(p) <=> Proved!StoreRejected(p)
    /\ Record!Clear <=> Proved!Clear
    /\ \A capacity \in Capacity : Record!Load(capacity) <=> Proved!Load(capacity)
    /\ Record!NullArgument <=> Proved!NullArgument
<1> USE Untouched
<1>1. Record!Readable = {Proved!SlotIndex} /\ Proved!Readable = {Proved!SlotIndex}
  BY SameConstants DEF Record!Readable, Proved!Readable
<1>2. \A p \in Payload : Record!Store(p) <=> Proved!Store(p)
  BY <1>1, SameConstants, SameNewest
     DEF Record!Store, Proved!Store, Record!Other, Proved!Other,
         Record!Successor, Proved!Successor, Record!SequenceModulus,
         Proved!SequenceModulus
<1>3. \A capacity \in Capacity : Record!Load(capacity) <=> Proved!Load(capacity)
  <2>1. \A newest, capacity, readOk :
          Record!LoadStatus(newest, capacity, readOk)
            = Proved!LoadStatus(newest, capacity, readOk)
    BY DEF Record!LoadStatus, Proved!LoadStatus
  <2> SUFFICES ASSUME NEW capacity \in Capacity
               PROVE  Record!Load(capacity) <=> Proved!Load(capacity)
    OBVIOUS
  <2> DEFINE Found(newest, status) ==
               [status  |-> status, payload |-> IF status = "Success"
                                    THEN bytes[newest].crcOf ELSE NoPayload]
             RecordFinds(readable, readOk) ==
               LET newest == Record!Newest(bytes, readable) IN
               Found(newest, Record!LoadStatus(newest, capacity, readOk))
             ProvedFinds(readable, readOk) ==
               LET newest == Proved!Newest(bytes, readable) IN
               Found(newest, Proved!LoadStatus(newest, capacity, readOk))
  <2>2. \A readable, readOk :
          RecordFinds(readable, readOk) = ProvedFinds(readable, readOk)
    BY <2>1, SameNewest
  <2>3. /\ (\E readable \in Record!Readable, readOk \in {TRUE, ~FALSE} :
               result' = RecordFinds(readable, readOk))
           <=> (\E readable \in Proved!Readable, readOk \in {TRUE, ~FALSE} :
                  result' = ProvedFinds(readable, readOk))
    <3> HIDE DEF RecordFinds, ProvedFinds
    <3> QED
      BY <1>1, <2>2, Zenon
  <2> QED
    BY <2>3, Zenon DEF Record!Load, Proved!Load
<1> QED
  BY <1>2, <1>3, SameConstants
     DEF Record!StoreRejected, Proved!StoreRejected, Record!Clear,
         Proved!Clear, Record!NullArgument, Proved!NullArgument

LEMMA SameWrites ==
    ASSUME UNCHANGED <<disk, misread>>, writeThrough = FALSE
    PROVE
    /\ Record!StoreErase <=> Proved!StoreErase
    /\ Record!StorePayload <=> Proved!StorePayload
    /\ Record!StoreHeader <=> Proved!StoreHeader
    /\ Record!ClearErase <=> Proved!ClearErase
BY Untouched, SameConstants DEF Record!StoreErase, Proved!StoreErase, Record!StorePayload,
   Proved!StorePayload, Record!StoreHeader, Proved!StoreHeader,
   Record!ClearErase, Proved!ClearErase, Record!Put, Proved!Put,
   Record!AfterErase, Proved!AfterErase, Record!AfterPayload,
   Proved!AfterPayload, Record!AfterHeader, Proved!AfterHeader,
   Record!ErasedSlot, Proved!ErasedSlot, Record!Unreadable, Proved!Unreadable,
   Record!Record, Proved!Record

LEMMA SameReturns ==
    /\ Record!ReturnSuccess <=> Proved!ReturnSuccess
    /\ Record!NoLocals <=> Proved!NoLocals
BY DEF Record!ReturnSuccess, Proved!ReturnSuccess, Record!NoLocals,
   Proved!NoLocals

-----------------------------------------------------------------------------
(***************************************************************************)
(* What a new or a removed file holds: two slots without a record.         *)
(***************************************************************************)
LEMMA BlankHasNoRecord ==
    /\ Blank \in [Proved!SlotIndex -> Proved!Slot] /\ Image = [Proved!SlotIndex -> Proved!Slot]
    /\ Proved!WellFormed(Blank) /\ Proved!Neighbours(Blank)
    /\ Proved!Current(Blank) = NoPayload
<1>1. Blank = [i \in Proved!SlotIndex |-> Proved!ErasedSlot]
  BY OnFileAssumption, SameConstants DEF Proved!AfterClear
<1>2. Image = [Proved!SlotIndex -> Proved!Slot]
  BY OnFileAssumption, SameConstants
<1>3. \A i \in Proved!SlotIndex :
        ~Blank[i].intact /\ ~Proved!Valid(Blank[i])
  BY <1>1 DEF Proved!ErasedSlot, Proved!Unreadable, Proved!Valid
<1>4. Proved!WellFormed(Blank)
  BY <1>2, <1>3, ImageAssumption DEF Proved!WellFormed
<1>5. Proved!Neighbours(Blank)
  BY <1>3 DEF Proved!Neighbours, Proved!SlotIndex
<1>6. Proved!Current(Blank) = NoPayload
  BY <1>3, OnFileAssumption, Proved!CurrentOfNone DEF Proved!SlotIndex
<1> QED
  BY <1>2, <1>4, <1>5, <1>6, ImageAssumption

(***************************************************************************)
(* A read that stops part-way makes no record valid that was not, and      *)
(* leaves the sequence numbers of those that still are.                    *)
(***************************************************************************)
LEMMA PartIsSound ==
    ASSUME DiskOK, disk \in Image, NEW slots \in PartOf(disk)
    PROVE  Proved!WellFormed(slots) /\ Proved!Neighbours(slots)
<1> DEFINE Cut(slot) == [slot EXCEPT !.payload = NoPayload]
           First(slot) == [i \in Proved!SlotIndex |->
                              IF i = 0 THEN slot ELSE Proved!ErasedSlot]
<1>1. Restart = disk /\ disk \in [Proved!SlotIndex -> Proved!Slot]
  BY BlankHasNoRecord, ImageAssumption DEF Restart
<1>2. slots \in {Blank, First(Cut(disk[0])), First(disk[0]),
                 [disk EXCEPT ![1] = Cut(@)]}
  BY OnFileAssumption, SameConstants
     DEF PartlyRead, Record!ErasedSlot, Proved!ErasedSlot, Record!Unreadable,
         Proved!Unreadable
<1>3. /\ Proved!ErasedSlot \in Proved!Slot
      /\ ~Proved!ErasedSlot.intact /\ ~Proved!Valid(Proved!ErasedSlot)
  BY OnFileAssumption
     DEF Proved!ErasedSlot, Proved!Unreadable, Proved!Slot, Proved!Valid,
         Proved!Sequence, Proved!SequenceModulus
<1>4. ASSUME NEW slot \in Proved!Slot
      PROVE  /\ Cut(slot) \in Proved!Slot
             /\ Cut(slot).intact = slot.intact /\ Cut(slot).crcOf = slot.crcOf
             /\ Cut(slot).sequence = slot.sequence
             /\ Cut(slot).payload = NoPayload
  BY DEF Proved!Slot
<1>5. /\ disk[0] \in Proved!Slot /\ disk[1] \in Proved!Slot
      /\ \A i \in {0, 1} : disk[i].intact => disk[i].crcOf \in Payload
  BY <1>1 DEF DiskOK, Proved!WellFormed, Proved!SlotIndex
<1>6. Proved!Valid(Cut(disk[1])) => Proved!Valid(disk[1])
  BY <1>4, <1>5, OnFileAssumption DEF Proved!Valid
<1>7. CASE slots = Blank
  BY <1>7, BlankHasNoRecord
<1>8. ASSUME NEW slot \in Proved!Slot, slot.intact => slot.crcOf \in Payload,
             slots = First(slot)
      PROVE  Proved!WellFormed(slots) /\ Proved!Neighbours(slots)
  <2>1. slots \in [Proved!SlotIndex -> Proved!Slot]
    BY <1>3, <1>8 DEF Proved!SlotIndex
  <2>2. slots[0] = slot /\ slots[1] = Proved!ErasedSlot
    BY <1>8 DEF Proved!SlotIndex
  <2>3. Proved!WellFormed(slots)
    BY <1>3, <1>8, <2>1, <2>2 DEF Proved!WellFormed, Proved!SlotIndex
  <2>4. Proved!Neighbours(slots)
    BY <1>3, <2>2 DEF Proved!Neighbours, Proved!SlotIndex
  <2> QED
    BY <2>3, <2>4
<1>9. CASE slots = [disk EXCEPT ![1] = Cut(@)]
  <2>1. /\ slots \in [Proved!SlotIndex -> Proved!Slot]
        /\ slots[0] = disk[0] /\ slots[1] = Cut(disk[1])
    <3> HIDE DEF Cut
    <3> QED
      BY <1>1, <1>4, <1>5, <1>9 DEF Proved!SlotIndex
  <2>2. Proved!WellFormed(slots)
    <3> HIDE DEF Cut
    <3> QED
      BY <1>4, <1>5, <2>1 DEF Proved!WellFormed, Proved!SlotIndex
  <2>3. Proved!Neighbours(slots)
    <3> HIDE DEF Cut
    <3> QED
      BY <1>1, <1>4, <1>5, <1>6, <2>1
         DEF DiskOK, Proved!Neighbours, Proved!SlotIndex
  <2> QED
    BY <2>2, <2>3
<1> QED
  <2>1. Cut(disk[0]) \in Proved!Slot
        /\ (Cut(disk[0]).intact => Cut(disk[0]).crcOf \in Payload)
    BY <1>4, <1>5
  <2> HIDE DEF Cut, First
  <2> QED
    BY <1>2, <1>5, <1>7, <1>8, <1>9, <2>1

(***************************************************************************)
(* Every step that the record store takes on its own is one of RecordStore *)
(* over a staged backend whose reads succeed.                              *)
(***************************************************************************)
RecordStep ==
    \/ \E p \in Payload : Proved!StoreRejected(p) \/ Proved!Store(p)
    \/ Proved!StoreErase \/ Proved!StorePayload \/ Proved!StoreHeader
    \/ Proved!Clear \/ Proved!ClearErase
    \/ Proved!Commit \/ Proved!BackendFails
    \/ \E capacity \in Capacity : Proved!Load(capacity)
    \/ Proved!NullArgument

LEMMA RecordInvariant ==
    ASSUME Proved!IInv, RecordStep \/ UNCHANGED vars
    PROVE  Proved!IInv'
<1>1. UNCHANGED vars => UNCHANGED Proved!vars
  BY DEF vars, Proved!vars, fileVars, callVars, Restart, Believed
<1>2. [Proved!Next]_(Proved!vars)
  BY <1>1 DEF RecordStep, Proved!Next
<1> QED
  BY <1>2, OnFileAssumption, Proved!Inductive

(***************************************************************************)
(* Each step of the program, as the record store sees it.                  *)
(***************************************************************************)
LEMMA CallIsRecordStep == ASSUME Call PROVE RecordStep
BY SameCalls DEF Call, RecordStep, fileVars

LEMMA StageIsRecordStep == ASSUME Stage, InStep PROVE RecordStep
BY SameWrites DEF Stage, RecordStep, InStep

LEMMA SuccessIsRecordStep ==
    ASSUME CommitInv, InStep, CommitSucceeds
    PROVE  Proved!Commit
<1>1. pc \in {"commit", "clearCommit"} /\ Proved!ReturnSuccess
  BY SameReturns DEF CommitSucceeds, Proved!ReturnSuccess
<1>2. CASE Rename /\ misread' = FALSE
  <2>1. Believed' = bytes /\ bytes' = bytes
    BY <1>2, ImageAssumption
       DEF Rename, CommitInv, FileTypeOK, Restart, Believed
  <2> QED
    BY <1>1, <2>1 DEF Proved!Commit
<1>3. CASE CommitClean /\ misread' = readInPart
  <2>1. Believed' = bytes /\ bytes' = bytes
    BY <1>1, <1>3
       DEF CommitClean, CommitInv, FileTypeOK, CleanMeansOnDisk, Restart,
           Believed, InStep
  <2> QED
    BY <1>1, <2>1 DEF Proved!Commit
<1> QED
  BY <1>2, <1>3 DEF CommitSucceeds

LEMMA FailureIsRecordStep ==
    ASSUME CommitFails, InStep
    PROVE  RecordStep /\ UNCHANGED <<disk, misread>>
<1>1. /\ pc \in {"commit", "clearCommit"}
      /\ UNCHANGED <<disk, misread, bytes>>
  BY DEF CommitFails, WriteFails, Cleanup
<1>2. Proved!Incomplete = {bytes}
  BY <1>1 DEF Proved!Incomplete
<1>3. Proved!Put(bytes)
  BY <1>1, Untouched DEF Proved!Put, InStep
<1>4. Proved!BackendFails
  BY <1>1, <1>2, <1>3, SameReturns
     DEF CommitFails, Record!BackendFails, Proved!BackendFails
<1> QED
  BY <1>1, <1>4 DEF RecordStep

(***************************************************************************)
(* The steps of commit() that do not return leave the record that was on   *)
(* the media, or no record.                                                *)
(***************************************************************************)
LEMMA CommitRunsSafely ==
    ASSUME Proved!IInv, InStep, CommitRuns
    PROVE  Proved!IInv' /\ Restart' \in {Restart, Blank}
<1>0. Restart' \in {Restart, Blank} /\ UNCHANGED <<bytes, misread>>
  BY DEF callVars, CommitRuns, CommitBegin, OpenTemporary, WriteTemporary, RemoveTarget,
     RenameFails, Restart
<1>1. Believed' \in {Believed, Blank} /\ UNCHANGED bytes
  BY <1>0 DEF Believed
<1>2. /\ UNCHANGED <<pc, target, nextSequence, schemaVersion, call, attempted,
                     result, writeThrough>>
      /\ pc \in {"commit", "clearCommit"}
  BY DEF CommitRuns, callVars
<1>3. call.outcome = "pending"
  BY <1>2 DEF Proved!IInv, Proved!CallOK, Proved!Storing, Proved!Clearing
<1>4. /\ Proved!WellFormed(Believed') /\ Proved!Neighbours(Believed')
      /\ Believed' \in [Proved!SlotIndex -> Proved!Slot]
  BY <1>1, BlankHasNoRecord
     DEF Proved!IInv, Proved!TypeOK, Proved!SlotsAreNeighbours
<1>5. Proved!TypeOK'
  BY <1>1, <1>2, <1>4 DEF Proved!IInv, Proved!TypeOK
<1>6. Proved!CallOK' /\ Proved!AcknowledgedIsDurable'
  BY <1>2, <1>3
     DEF Proved!IInv, Proved!CallOK, Proved!Storing, Proved!Clearing,
         Proved!AcknowledgedIsDurable
<1>7. /\ Proved!TargetIsSpare' /\ Proved!TargetIsPrepared'
      /\ Proved!ImageIsReady'
  BY <1>1, <1>2 DEF Proved!IInv, Proved!TargetIsSpare, Proved!TargetIsPrepared,
     Proved!ImageIsReady
<1>8. /\ Proved!WellFormed(Believed)' /\ Proved!WellFormed(bytes)'
      /\ Proved!SlotsAreNeighbours'
  BY <1>1, <1>4 DEF Proved!IInv, Proved!WellFormed, Proved!SlotsAreNeighbours
<1>9. ~writeThrough'
  BY <1>2 DEF InStep
<1> QED
  BY <1>0, <1>1, <1>5, <1>6, <1>7, <1>8, <1>9 DEF Proved!IInv

(***************************************************************************)
(* To the file every step of the program is one of its own.                *)
(***************************************************************************)
LEMMA FileInvariant ==
    ASSUME CommitInv, Proved!IInv', [Next]_vars
    PROVE  CommitInv'
<1>1. bytes' \in Image
  BY BlankHasNoRecord DEF Proved!IInv, Proved!TypeOK
<1>2. [FileNext]_fileVars
  BY <1>1 DEF Next, Start, Call, CallNotReady, Stage, CommitRuns,
     CommitSucceeds, CommitFails, ProgramStops, FileNext, CommitStep, vars
<1> QED
  BY <1>2, CommitInvNext

LEMMA InStepInvariant ==
    ASSUME OnFileInv, [Next]_vars
    PROVE  InStep'
<1>0. CommitInv /\ Proved!IInv /\ InStep
  BY DEF OnFileInv
<1>1. CASE Start
  BY <1>0, <1>1 DEF Start, Open, InStep
<1>2. CASE Call
  <2> DEFINE Going ==
               /\ UNCHANGED <<fileVars, misread, writeThrough>> /\ ready
               /\ pc = "idle" /\ pc' \in {"idle", "erase", "clearErase"}
               /\ UNCHANGED call \/ call'.outcome = "pending"
  <2>1. Going
    <3>1. UNCHANGED <<fileVars, misread>> /\ ready
      BY <1>2 DEF Call
    <3>2. ASSUME NEW p \in Payload, Record!Store(p) PROVE Going
      BY <3>1, <3>2 DEF Record!Store
    <3>3. ASSUME NEW p \in Payload, Record!StoreRejected(p) PROVE Going
      BY <3>1, <3>3 DEF Record!StoreRejected
    <3>4. CASE Record!Clear \/ Record!NullArgument
      BY <3>1, <3>4 DEF Record!Clear, Record!NullArgument
    <3>5. ASSUME NEW capacity \in Capacity, Record!Load(capacity) PROVE Going
      BY <3>1, <3>5 DEF Record!Load
    <3> QED
      BY <1>2, <3>2, <3>3, <3>4, <3>5 DEF Call
  <2> QED
    BY <1>0, <2>1 DEF InStep, fileVars
<1>3. CASE CallNotReady
  BY <1>0, <1>3 DEF CallNotReady, Refused, InStep
<1>4. CASE Stage
  <2>0. UNCHANGED <<disk, misread>> /\ writeThrough = FALSE
    BY <1>0, <1>4 DEF Stage, InStep
  <2>1. /\ step = "none" /\ ready /\ UNCHANGED <<ready, step>>
        /\ bytes' # bytes => dirty'
    BY <1>4 DEF Stage, Write
  <2>2. CASE Proved!StoreErase \/ Proved!StorePayload
    BY <1>0, <2>0, <2>1, <2>2
       DEF Proved!StoreErase, Proved!StorePayload, InStep
  <2>3. CASE Proved!StoreHeader
    <3>1. /\ pc = "header" /\ pc' = "commit" /\ bytes' = Proved!AfterHeader
          /\ UNCHANGED <<call, writeThrough>>
      BY <2>3 DEF Proved!StoreHeader, Proved!Put
    <3>2. ~bytes[target].intact /\ bytes'[target].intact
      BY <1>0, <3>1 DEF Proved!IInv, Proved!TargetIsPrepared, Proved!TypeOK,
         Proved!AfterHeader, Proved!Record
    <3> QED
      BY <1>0, <2>0, <2>1, <3>1, <3>2 DEF InStep
  <2>4. CASE Proved!ClearErase
    <3>1. /\ pc' = "clearCommit" /\ bytes' = Proved!AfterClear
          /\ pc = "clearErase" /\ UNCHANGED <<call, writeThrough>>
      BY <2>4 DEF Proved!ClearErase, Proved!Put
    <3> QED
      BY <1>0, <2>0, <2>1, <3>1, OnFileAssumption, SameConstants DEF InStep
  <2> QED
    BY <1>4, <2>0, <2>2, <2>3, <2>4, SameWrites DEF Stage
<1>5. CASE CommitRuns
  BY <1>0, <1>5 DEF CommitRuns, callVars, CommitBegin, OpenTemporary,
     WriteTemporary, RemoveTarget, RenameFails, InStep
<1>6. CASE CommitSucceeds
  <2>1. /\ pc' = "idle" /\ pc \in {"commit", "clearCommit"} /\ step' = "none"
        /\ UNCHANGED <<ready, writeThrough>>
        /\ call'.op = call.op
        /\ misread' => pc = "clearCommit"
    BY <1>0, <1>6, SameReturns
       DEF CommitSucceeds, Proved!ReturnSuccess, CommitClean, Rename, InStep,
           Proved!IInv, Proved!TypeOK
  <2>2. pc = "clearCommit" => call.op = "clear"
    BY <1>0 DEF Proved!IInv, Proved!CallOK, Proved!Clearing
  <2>3. ready
    BY <1>0, <2>1 DEF InStep
  <2> QED
    BY <1>0, <2>1, <2>2, <2>3 DEF InStep
<1>7. CASE CommitFails
  <2>1. call'.outcome = "unknown"
    BY <1>0, <1>7 DEF CommitFails, Record!BackendFails, Proved!IInv,
       Proved!TypeOK
  <2> QED
    BY <1>0, <1>7, <2>1 DEF CommitFails, Record!BackendFails, WriteFails,
       Cleanup, InStep
<1>8. CASE ProgramStops
  <2>1. call'.outcome = "success" => call' = call
    BY <1>0, <1>8 DEF ProgramStops, Proved!IInv, Proved!TypeOK
  <2> QED
    BY <1>0, <1>8, <2>1 DEF ProgramStops, Stop, InStep
<1>9. CASE UNCHANGED vars
  BY <1>0, <1>9 DEF vars, fileVars, callVars, InStep
<1> QED
  BY <1>1, <1>2, <1>3, <1>4, <1>5, <1>6, <1>7, <1>8, <1>9 DEF Next

(***************************************************************************)
(* The slots on the disk are sound, also those that are not believed to be *)
(* there: the file changes only to the image, or goes.                     *)
(***************************************************************************)
LEMMA DiskInvariant ==
    ASSUME OnFileInv, [Next]_vars
    PROVE  DiskOK'
<1>1. Restart' \in {Restart, Blank, bytes}
  BY DEF Next, Start, Open, Call, CallNotReady, Refused, Stage, CommitRuns,
     CommitBegin, OpenTemporary, WriteTemporary, RemoveTarget, RenameFails,
     CommitSucceeds, CommitClean, Rename, CommitFails, WriteFails, Cleanup,
     ProgramStops, Stop, vars, fileVars, Restart, OnFileInv, CommitInv
<1>2. /\ Proved!WellFormed(bytes) /\ Proved!Neighbours(bytes)
      /\ Proved!WellFormed(Restart) /\ Proved!Neighbours(Restart)
  BY DEF OnFileInv, DiskOK, Proved!IInv, Proved!SlotsAreNeighbours
<1>3. Proved!WellFormed(Restart') /\ Proved!Neighbours(Restart')
  BY <1>1, <1>2, BlankHasNoRecord
<1> QED
  BY <1>3 DEF DiskOK, Proved!WellFormed

(***************************************************************************)
(* The invariant of the record store holds although its media now change   *)
(* inside commit().                                                        *)
(***************************************************************************)
LEMMA StoreInvariant ==
    ASSUME OnFileInv, [Next]_vars
    PROVE  Proved!IInv'
<1>0. CommitInv /\ Proved!IInv /\ InStep /\ DiskOK
  BY DEF OnFileInv
<1>2. ASSUME pc' \in {"idle", "off"},
             Proved!WellFormed(bytes'), Proved!Neighbours(bytes'),
             UNCHANGED <<Believed, writeThrough>>,
             Proved!TypeOK', Proved!CallOK', Proved!AcknowledgedIsDurable'
      PROVE  Proved!IInv'
  <2>1. /\ Proved!WellFormed(Believed)' /\ Proved!WellFormed(bytes)'
        /\ Proved!SlotsAreNeighbours'
    BY <1>0, <1>2, BlankHasNoRecord
       DEF Proved!IInv, Proved!WellFormed, Proved!SlotsAreNeighbours
  <2> QED
    BY <1>0, <1>2, <2>1 DEF InStep, Proved!IInv, Proved!TargetIsSpare,
       Proved!TargetIsPrepared, Proved!ImageIsReady
<1>3. CASE Start
  <2>0. UNCHANGED <<disk, misread>>
    BY <1>3 DEF Start, Open
  <2>1. /\ pc = "off" /\ pc' = "idle"
        /\ schemaVersion' \in Version
        /\ UNCHANGED <<Believed, target, nextSequence, call, attempted, result,
                       writeThrough>>
    BY <1>3, <2>0, Untouched DEF Start, Open
  <2>3. Proved!WellFormed(bytes') /\ Proved!Neighbours(bytes')
    <3>1. CASE bytes' \in {Restart, Blank}
      BY <1>0, <3>1, BlankHasNoRecord DEF DiskOK
    <3>2. CASE disk # Missing /\ bytes' \in PartOf(disk)
      BY <1>0, <3>2, PartIsSound DEF CommitInv, FileTypeOK, NeverTorn
    <3> QED
      BY <1>3, <3>1, <3>2 DEF Start, Open, OpenWhole, OpenFails, OpenInPart
  <2>4. bytes' \in [Proved!SlotIndex -> Proved!Slot]
    BY <2>3 DEF Proved!WellFormed
  <2>2. /\ Proved!TypeOK' /\ Proved!CallOK'
        /\ Proved!AcknowledgedIsDurable'
    BY <1>0, <2>1, <2>4
       DEF Proved!IInv, Proved!TypeOK, Proved!CallOK, Proved!Storing,
           Proved!Clearing, Proved!AcknowledgedIsDurable
  <2> QED
    BY <1>2, <2>1, <2>2, <2>3
<1>4. CASE Call \/ Stage
  BY <1>0, <1>4, CallIsRecordStep, StageIsRecordStep, RecordInvariant
<1>5. CASE CallNotReady
  <2>1. /\ pc = "idle" /\ pc' = "idle" /\ bytes' = bytes
        /\ UNCHANGED <<Believed, target, nextSequence, schemaVersion,
                       writeThrough>>
    BY <1>5, Untouched DEF CallNotReady, Refused
  <2>2. /\ result' \in [status : Proved!Status, payload : Payload \cup {NoPayload}]
        /\ attempted' \subseteq Payload
        /\ \/ UNCHANGED call
           \/ call' \in [op : {"store"}, payload : Payload, outcome : {"unknown"}]
           \/ call' \in [op : {"clear"}, payload : {NoPayload},
                        outcome : {"unknown"}]
    BY <1>0, <1>5
       DEF CallNotReady, Proved!Status, Proved!IInv, Proved!TypeOK
  <2>3. Proved!TypeOK' /\ Proved!CallOK' /\ Proved!AcknowledgedIsDurable'
    BY <1>0, <2>1, <2>2
       DEF Proved!IInv, Proved!TypeOK, Proved!CallOK, Proved!Storing,
           Proved!Clearing, Proved!AcknowledgedIsDurable
  <2> QED
    BY <1>0, <1>2, <2>1, <2>3 DEF Proved!IInv, Proved!SlotsAreNeighbours
<1>6. CASE CommitRuns
  BY <1>0, <1>6, CommitRunsSafely
<1>7. CASE CommitSucceeds
  BY <1>0, <1>7, SuccessIsRecordStep, RecordInvariant DEF RecordStep
<1>8. CASE CommitFails
  BY <1>0, <1>8, FailureIsRecordStep, RecordInvariant
<1>9. CASE ProgramStops
  <2>1. /\ pc' = "off" /\ bytes' = Blank
        /\ call' = [call EXCEPT !.outcome =
                        IF @ = "pending" THEN "unknown" ELSE @]
        /\ result' = Proved!NoResult /\ target' = 0 /\ nextSequence' = 1
        /\ UNCHANGED <<Believed, schemaVersion, writeThrough, attempted>>
    BY <1>9, SameReturns, SameConstants, Untouched
       DEF ProgramStops, Stop, Proved!NoLocals
  <2>2. /\ target' \in Proved!SlotIndex /\ nextSequence' \in Proved!Sequence
        /\ result' \in [status : Proved!Status, payload : Payload \cup {NoPayload}]
    BY <2>1, OnFileAssumption
       DEF Proved!SlotIndex, Proved!Sequence, Proved!SequenceModulus,
           Proved!NoResult, Proved!Status
  <2>3. Proved!TypeOK' /\ Proved!CallOK' /\ Proved!AcknowledgedIsDurable'
    BY <1>0, <2>1, <2>2, BlankHasNoRecord
       DEF Proved!IInv, Proved!TypeOK, Proved!CallOK, Proved!Storing,
           Proved!Clearing, Proved!AcknowledgedIsDurable
  <2> QED
    BY <1>2, <2>1, <2>3, BlankHasNoRecord
<1>10. CASE UNCHANGED vars
  BY <1>0, <1>10, RecordInvariant
<1> QED
  BY <1>3, <1>4, <1>5, <1>6, <1>7, <1>8, <1>9, <1>10 DEF Next

LEMMA OnFileInductive ==
    ASSUME OnFileInv, [Next]_vars
    PROVE  OnFileInv'
<1>1. Proved!IInv'
  BY StoreInvariant
<1> QED
  BY <1>1, FileInvariant, InStepInvariant, DiskInvariant DEF OnFileInv

LEMMA OnFileInitial == Init => OnFileInv
<1> SUFFICES ASSUME Init PROVE OnFileInv
  OBVIOUS
<1>1. CommitInv
  BY CommitInvInit DEF Init
<1>2. Restart = Blank /\ Believed = Blank /\ bytes = Blank /\ pc = "off"
  BY DEF Init, FileInit, Restart, Believed
<1>3. Proved!TypeOK
  <2>1. /\ target \in Proved!SlotIndex /\ nextSequence \in Proved!Sequence
        /\ result \in [status : Proved!Status, payload : Payload \cup {NoPayload}]
    BY OnFileAssumption, SameConstants
       DEF Init, Proved!SlotIndex, Proved!Sequence, Proved!SequenceModulus,
           Proved!NoResult, Proved!Status
  <2> QED
    BY <1>2, <2>1, BlankHasNoRecord DEF Init, Proved!TypeOK
<1>4. Proved!CallOK /\ Proved!AcknowledgedIsDurable
  BY <1>2 DEF Init, Proved!CallOK, Proved!Storing, Proved!Clearing,
     Proved!AcknowledgedIsDurable
<1>5. Proved!IInv
  BY <1>2, <1>3, <1>4, BlankHasNoRecord
     DEF Proved!IInv, Proved!TargetIsSpare, Proved!TargetIsPrepared,
         Proved!ImageIsReady, Proved!SlotsAreNeighbours
<1>6. InStep
  BY <1>2 DEF Init, FileInit, InStep
<1>7. DiskOK
  BY <1>2, BlankHasNoRecord DEF DiskOK
<1> QED
  BY <1>1, <1>5, <1>6, <1>7 DEF OnFileInv

-----------------------------------------------------------------------------
(***************************************************************************)
(* A behaviour follows one of the two ways to keep data; the other one     *)
(* stands still.                                                           *)
(***************************************************************************)
LEMMA BothInvariants == StoragesSpec => [](OnFileInv /\ SlotInv)
<1>1. StoragesInit => OnFileInv /\ SlotInv
  BY OnFileInitial, SlotInvInit DEF StoragesInit
<1>2. OnFileInv /\ SlotInv /\ [StoragesNext]_<<kept, slotVars, vars>>
        => (OnFileInv /\ SlotInv)'
  <2> SUFFICES ASSUME OnFileInv, SlotInv, [StoragesNext]_<<kept, slotVars, vars>>
               PROVE  OnFileInv' /\ SlotInv'
    OBVIOUS
  <2>1. [Next]_vars /\ [SlotNext]_slotVars
    BY DEF StoragesNext
  <2> QED
    BY <2>1, OnFileInductive, SlotInvNext
<1> QED
  BY <1>1, <1>2, PTL DEF StoragesSpec

(***************************************************************************)
(* Whatever a program keeps its data in, what store() or clear()           *)
(* acknowledged is what every restart finds until the next call begins,    *)
(* but for a clear() of a file that had been read only in part.            *)
(***************************************************************************)
THEOREM DataSurvive == StoragesSpec => []AcknowledgedSurvives
<1>1. OnFileInv /\ SlotInv => AcknowledgedSurvives
  BY SameNewest DEF OnFileInv, InStep, SlotInv, AcknowledgedSurvives,
     AcknowledgedIsDurable, Believed, Proved!IInv, Proved!AcknowledgedIsDurable
<1> QED
  BY <1>1, BothInvariants, PTL

(***************************************************************************)
(* Wherever a store() on a file stops, a restart finds the record before   *)
(* it, the new one, or none: never an older one.                           *)
(***************************************************************************)
THEOREM NoRollBack == StoragesSpec => StoreNeverRollsBack
<1>1. OnFileInv /\ [StoragesNext]_<<kept, slotVars, vars>> =>
        [call.op = "store" /\ call.outcome = "pending" =>
            Record!Current(Restart')
                \in {Record!Current(Restart), call.payload, NoPayload}]_vars
  <2> SUFFICES ASSUME OnFileInv, Next
               PROVE  \/ Proved!Current(Restart')
                           \in {Proved!Current(Restart), call.payload, NoPayload}
                      \/ UNCHANGED vars
    BY SameNewest DEF StoragesNext
  <2>0. CommitInv /\ Proved!IInv /\ InStep
    BY DEF OnFileInv
  <2>1. CASE Start \/ Call \/ CallNotReady \/ Stage \/ ProgramStops
    BY <2>1 DEF Start, Open, Call, fileVars, CallNotReady, Refused, Stage,
       ProgramStops, Stop, Restart
  <2>2. CASE CommitRuns
    BY <2>0, <2>2, CommitRunsSafely, BlankHasNoRecord
  <2>3. CASE CommitSucceeds
    <3>1. Restart' \in {Restart, bytes} /\ pc \in {"commit", "clearCommit"}
      BY <2>0, <2>3, ImageAssumption
         DEF CommitSucceeds, CommitClean, Rename, CommitInv, FileTypeOK,
             Restart, Record!ReturnSuccess
    <3> QED
      BY <2>0, <3>1 DEF Proved!IInv, Proved!ImageIsReady
  <2>4. CASE CommitFails
    BY <2>0, <2>4, FailureIsRecordStep, Untouched
  <2> QED
    BY <2>1, <2>2, <2>3, <2>4 DEF Next
<1> QED
  BY <1>1, BothInvariants, PTL DEF StoragesSpec, StoreNeverRollsBack
=============================================================================
