-------------------------- MODULE RecordStoreProofs --------------------------
(***************************************************************************)
(* RecordStore keeps its promises over every backend whose reads succeed,  *)
(* write-through or staged, for every set of payloads and of firmware      *)
(* versions and every width of the sequence number.                        *)
(***************************************************************************)
EXTENDS RecordStore, TLAPS

(***************************************************************************)
(* Only a header that was written for a payload validates.                 *)
(***************************************************************************)
WellFormed(slots) ==
    /\ slots \in [SlotIndex -> Slot]
    /\ \A i \in SlotIndex : slots[i].intact => slots[i].crcOf \in Payload

(***************************************************************************)
(* Where the running method is in its sequence of backend calls, and what  *)
(* the caller asked for.                                                   *)
(***************************************************************************)
Storing == pc \in {"erase", "payload", "header", "commit"}
Clearing == pc \in {"clearErase", "clearCommit"}

CallOK ==
    /\ Storing => /\ call.op = "store" /\ call.outcome = "pending"
                  /\ call.payload \in Payload
    /\ Clearing => call.op = "clear" /\ call.outcome = "pending"
    /\ ~Storing /\ ~Clearing => call.outcome # "pending"
    /\ call.op = "clear" => call.payload = NoPayload

(***************************************************************************)
(* Until the new header is there, either no slot is valid, or the slot     *)
(* that is left alone is the current one and the new record's sequence     *)
(* number follows it.                                                      *)
(***************************************************************************)
TargetIsSpare ==
    pc \in {"erase", "payload", "header"} =>
        \/ ~Valid(image[target]) /\ ~Valid(image[Other(target)])
        \/ /\ Valid(image[Other(target)])
           /\ Newest(image, SlotIndex) = Other(target)
           /\ nextSequence = Successor(image[Other(target)].sequence)

TargetIsPrepared ==
    /\ pc \in {"payload", "header"} => ~image[target].intact
    /\ pc = "header" /\ Size[call.payload] # 0 =>
           image[target].payload = call.payload

(***************************************************************************)
(* What commit() is about to make durable is what the caller asked for.    *)
(***************************************************************************)
ImageIsReady == pc \in {"commit", "clearCommit"} => Current(image) = call.payload

IInv ==
    /\ TypeOK
    /\ WellFormed(media) /\ WellFormed(image)
    /\ writeThrough => media = image
    /\ CallOK
    /\ TargetIsSpare /\ TargetIsPrepared /\ ImageIsReady
    /\ SlotsAreNeighbours
    /\ AcknowledgedIsDurable

-----------------------------------------------------------------------------
(***************************************************************************)
(* Successor() stays within uint32_t, and sequenceNewer() orders two       *)
(* neighbouring numbers, also where the counter wraps around.              *)
(***************************************************************************)
LEMMA SuccessorIsNewer ==
    ASSUME NEW s \in Sequence
    PROVE  /\ Successor(s) \in Sequence
           /\ sequenceNewer(Successor(s), s)
           /\ ~sequenceNewer(s, Successor(s))
           /\ Distance(Successor(s), s) = 1
BY SignBitAssumption DEF Sequence, SequenceModulus, Successor, sequenceNewer,
   Distance

(***************************************************************************)
(* The selection returns a slot that was read and is valid, if any is.     *)
(***************************************************************************)
LEMMA NewestIsValid ==
    ASSUME NEW slots, NEW readable \in SUBSET SlotIndex
    PROVE  /\ Newest(slots, readable) \in {0, 1, 2}
           /\ Newest(slots, readable) # 2 =>
                /\ Newest(slots, readable) \in readable
                /\ Valid(slots[Newest(slots, readable)])
           /\ Newest(slots, readable) = 2 =>
                \A i \in readable : ~Valid(slots[i])
<1> DEFINE good == ValidAmong(slots, readable)
<1>1. /\ good \in {{}, {0}, {1}, {0, 1}}
      /\ \A i \in good : i \in readable /\ Valid(slots[i])
      /\ \A i \in readable : Valid(slots[i]) => i \in good
  BY DEF ValidAmong, SlotIndex
<1>2. CASE good = {}
  <2>0. good # {0} /\ good # {1} /\ good # SlotIndex
    BY <1>2 DEF SlotIndex
  <2>1. Newest(slots, readable) = 2
    BY <1>2, <2>0 DEF Newest
  <2> QED
    BY <1>1, <1>2, <2>1
<1>3. CASE good = {0}
  <2>0. good # {} /\ good # {1} /\ good # SlotIndex
    BY <1>3 DEF SlotIndex
  <2>1. Newest(slots, readable) = 0
    BY <1>3, <2>0 DEF Newest
  <2> QED
    BY <1>1, <1>3, <2>1
<1>4. CASE good = {1}
  <2>0. good # {} /\ good # {0} /\ good # SlotIndex
    BY <1>4 DEF SlotIndex
  <2>1. Newest(slots, readable) = 1
    BY <1>4, <2>0 DEF Newest
  <2> QED
    BY <1>1, <1>4, <2>1
<1>5. CASE good = {0, 1}
  <2>1. Newest(slots, readable) \in {0, 1}
    BY <1>5 DEF Newest, SlotIndex
  <2> QED
    BY <1>1, <1>5, <2>1
<1> QED
  BY <1>1, <1>2, <1>3, <1>4, <1>5

(***************************************************************************)
(* If only one slot is valid it is the current one; of two neighbours it   *)
(* is the successor.                                                       *)
(***************************************************************************)
LEMMA NewestOfOne ==
    ASSUME NEW slots, NEW i \in SlotIndex,
           Valid(slots[i]), ~Valid(slots[Other(i)])
    PROVE  Newest(slots, SlotIndex) = i
BY NewestIsValid DEF SlotIndex, Other

LEMMA NewestOfTwo ==
    ASSUME NEW slots \in [SlotIndex -> Slot], NEW i \in SlotIndex,
           Valid(slots[0]), Valid(slots[1]),
           slots[i].sequence = Successor(slots[Other(i)].sequence)
    PROVE  Newest(slots, SlotIndex) = i
<1>1. ValidAmong(slots, SlotIndex) = SlotIndex
  BY DEF ValidAmong, SlotIndex
<1>2. Newest(slots, SlotIndex) =
        IF sequenceNewer(slots[1].sequence, slots[0].sequence) THEN 1 ELSE 0
  BY <1>1 DEF Newest, SlotIndex
<1>3. /\ slots[0].sequence \in Sequence /\ slots[1].sequence \in Sequence
  BY DEF Slot, SlotIndex
<1>4. CASE i = 0
  BY <1>2, <1>3, <1>4, SuccessorIsNewer DEF Other
<1>5. CASE i = 1
  BY <1>2, <1>3, <1>5, SuccessorIsNewer DEF Other
<1> QED
  BY <1>4, <1>5 DEF SlotIndex

(***************************************************************************)
(* What is current when no slot is valid, and when one is selected.        *)
(***************************************************************************)
LEMMA CurrentOfNone ==
    ASSUME NEW slots, ~Valid(slots[0]), ~Valid(slots[1])
    PROVE  Current(slots) = NoPayload
BY NewestIsValid DEF Current, SlotIndex

LEMMA CurrentOfNewest ==
    ASSUME NEW slots, NEW i \in SlotIndex, Newest(slots, SlotIndex) = i
    PROVE  Current(slots) = slots[i].crcOf
BY DEF Current, SlotIndex

-----------------------------------------------------------------------------
(***************************************************************************)
(* What a backend call writes is a pair of slots, complete or not.         *)
(***************************************************************************)
LEMMA ErasedIsSlot ==
    /\ \A bytes \in Payload \cup {NoPayload} : Unreadable(bytes) \in Slot
    /\ ErasedSlot \in Slot
    /\ \A slot \in Slot : PartlyErased(slot) \subseteq Slot
BY SignBitAssumption DEF Unreadable, ErasedSlot, PartlyErased, Slot, Sequence,
   SequenceModulus

LEMMA WritesAreSlots ==
    ASSUME TypeOK
    PROVE  /\ {AfterErase, AfterPayload, AfterHeader, AfterClear}
                 \subseteq [SlotIndex -> Slot]
           /\ Incomplete \subseteq [SlotIndex -> Slot]
<1> USE DEF TypeOK
<1>1. Record \in Slot
  BY DEF Record, Slot
<1>2. call.payload \in Payload \cup {NoPayload}
  OBVIOUS
<1>3. /\ AfterErase \in [SlotIndex -> Slot]
      /\ AfterPayload \in [SlotIndex -> Slot]
      /\ AfterHeader \in [SlotIndex -> Slot]
      /\ AfterClear \in [SlotIndex -> Slot]
  BY <1>1, <1>2, ErasedIsSlot
     DEF AfterErase, AfterPayload, AfterHeader, AfterClear
<1>4. PartlyCleared(image) \subseteq [SlotIndex -> Slot]
  BY ErasedIsSlot DEF PartlyCleared, SlotIndex
<1>5. ASSUME NEW s \in PartlyErased(image[target])
      PROVE  [image EXCEPT ![target] = s] \in [SlotIndex -> Slot]
  BY <1>5, ErasedIsSlot
<1>6. Incomplete \subseteq [SlotIndex -> Slot]
  BY <1>3, <1>4, <1>5 DEF Incomplete
<1> QED
  BY <1>3, <1>6

LEMMA TypeInductive == TypeOK /\ [Next]_vars => TypeOK'
<1> SUFFICES ASSUME TypeOK, [Next]_vars PROVE TypeOK'
  OBVIOUS
<1> USE DEF TypeOK
<1>1. 1 \in Sequence /\ 0 \in SlotIndex
  BY SignBitAssumption DEF Sequence, SequenceModulus, SlotIndex
<1>2. NoResult \in [status : Status, payload : Payload \cup {NoPayload}]
  BY DEF NoResult, Status
<1>3. ASSUME NEW p \in Payload, StoreRejected(p) PROVE TypeOK'
  BY <1>3 DEF StoreRejected, Status
<1>4. ASSUME NEW p \in Payload, Store(p) PROVE TypeOK'
  <2>1. PICK readable \in Readable :
          LET newest == Newest(image, readable) IN
          /\ target' = IF newest = 2 THEN 0 ELSE Other(newest)
          /\ nextSequence' = IF newest = 2 THEN 1
                             ELSE Successor(image[newest].sequence)
    BY <1>4 DEF Store
  <2> DEFINE newest == Newest(image, readable)
  <2>2. newest \in {0, 1, 2}
    BY NewestIsValid DEF Readable
  <2>3. newest # 2 => image[newest].sequence \in Sequence
    BY <2>2 DEF Slot, SlotIndex
  <2>4. target' \in SlotIndex /\ nextSequence' \in Sequence
    BY <1>1, <2>1, <2>2, <2>3, SuccessorIsNewer DEF SlotIndex, Other
  <2> QED
    BY <1>2, <1>4, <2>4 DEF Store
<1>5. CASE StoreErase
  BY <1>5, WritesAreSlots DEF StoreErase, Put
<1>6. CASE StorePayload
  BY <1>6, WritesAreSlots DEF StorePayload, Put
<1>7. CASE StoreHeader
  BY <1>7, WritesAreSlots DEF StoreHeader, Put
<1>8. CASE Clear
  BY <1>2, <1>8 DEF Clear
<1>9. CASE ClearErase
  BY <1>9, WritesAreSlots DEF ClearErase, Put
<1>10. CASE Commit
  BY <1>1, <1>10 DEF Commit, ReturnSuccess, NoLocals
<1>11. CASE BackendFails
  <2>1. media' \in [SlotIndex -> Slot] /\ image' \in [SlotIndex -> Slot]
    BY <1>11, WritesAreSlots DEF BackendFails, Put
  <2> QED
    BY <1>1, <1>11, <2>1 DEF BackendFails, NoLocals
<1>12. ASSUME NEW capacity \in Capacity, Load(capacity) PROVE TypeOK'
  <2>1. PICK readable \in Readable, readOk \in {TRUE, ~ReadFaults} :
          LET newest == Newest(image, readable)
              status == LoadStatus(newest, capacity, readOk)
          IN  result' = [status  |-> status,
                         payload |-> IF status = "Success"
                                     THEN image[newest].crcOf ELSE NoPayload]
    BY <1>12 DEF Load
  <2> DEFINE newest == Newest(image, readable)
             status == LoadStatus(newest, capacity, readOk)
  <2>2. newest \in {0, 1, 2}
    BY NewestIsValid DEF Readable
  <2>3. status \in Status /\ (newest = 2 => status # "Success")
    BY DEF LoadStatus, Status
  <2>4. newest # 2 => image[newest].crcOf \in Payload \cup {NoPayload}
    BY <2>2 DEF Slot, SlotIndex
  <2>5. result' \in [status : Status, payload : Payload \cup {NoPayload}]
    BY <2>1, <2>3, <2>4
  <2> QED
    BY <1>12, <2>5 DEF Load
<1>13. CASE NullArgument
  BY <1>13 DEF NullArgument, Status
<1>14. CASE PowerLoss
  <2>1. media' \in [SlotIndex -> Slot] /\ image' \in [SlotIndex -> Slot]
    BY <1>14, WritesAreSlots DEF PowerLoss
  <2> QED
    BY <1>1, <1>2, <1>14, <2>1 DEF PowerLoss, NoLocals
<1>15. CASE PowerOn
  BY <1>15 DEF PowerOn
<1>16. CASE UNCHANGED vars
  BY <1>16 DEF vars
<1> QED
  BY <1>3, <1>4, <1>5, <1>6, <1>7, <1>8, <1>9, <1>10, <1>11, <1>12, <1>13,
     <1>14, <1>15, <1>16 DEF Next

LEMMA InitialTypes == Init => TypeOK
<1> SUFFICES ASSUME Init PROVE TypeOK
  OBVIOUS
<1>1. media \in [SlotIndex -> Slot] /\ image \in [SlotIndex -> Slot]
  BY ErasedIsSlot DEF Init
<1>2. target \in SlotIndex /\ nextSequence \in Sequence
  BY SignBitAssumption DEF Init, SlotIndex, Sequence, SequenceModulus
<1> QED
  BY <1>1, <1>2 DEF Init, TypeOK, NoResult, Status

(***************************************************************************)
(* Every variable keeps its range, whatever the backend does, also when    *)
(* its reads fail: the sequence number stays within its width, and store() *)
(* never addresses a slot that does not exist.                             *)
(***************************************************************************)
THEOREM TypeCorrect == Spec => []TypeOK
BY InitialTypes, TypeInductive, PTL DEF Spec

-----------------------------------------------------------------------------
LEMMA OtherSlot ==
    ASSUME NEW i \in SlotIndex
    PROVE  /\ Other(i) \in SlotIndex /\ Other(i) # i /\ Other(Other(i)) = i
           /\ \A j \in SlotIndex : j = i \/ j = Other(i)
BY DEF SlotIndex, Other

LEMMA UnreadableIsInvalid ==
    /\ \A bytes : ~Unreadable(bytes).intact /\ ~Valid(Unreadable(bytes))
    /\ ~ErasedSlot.intact /\ ~Valid(ErasedSlot)
BY DEF Unreadable, ErasedSlot, Valid

(***************************************************************************)
(* As long as what stands in the target slot does not validate, the record *)
(* that was current stays current.                                         *)
(***************************************************************************)
LEMMA SpareCanBeOverwritten ==
    ASSUME IInv, pc \in {"erase", "payload", "header"},
           NEW s \in Slot, ~s.intact
    PROVE  LET slots == [image EXCEPT ![target] = s] IN
           /\ WellFormed(slots) /\ Neighbours(slots)
           /\ Current(slots) = Current(image)
<1> DEFINE slots == [image EXCEPT ![target] = s]
           other == Other(target)
<1>1. /\ image \in [SlotIndex -> Slot] /\ target \in SlotIndex
      /\ other \in SlotIndex /\ other # target /\ Other(other) = target
      /\ \A j \in SlotIndex : j = target \/ j = other
  BY OtherSlot DEF IInv, TypeOK
<1>2. slots[target] = s /\ slots[other] = image[other] /\ ~Valid(slots[target])
  BY <1>1 DEF Valid
<1>3. WellFormed(slots)
  BY <1>1, <1>2 DEF IInv, WellFormed
<1>4. Neighbours(slots)
  BY <1>1, <1>2 DEF Neighbours
<1>5. Current(slots) = Current(image)
  <2>1. CASE ~Valid(image[target]) /\ ~Valid(image[other])
    <3>1. ~Valid(slots[0]) /\ ~Valid(slots[1])
      BY <1>1, <1>2, <2>1 DEF SlotIndex
    <3>2. ~Valid(image[0]) /\ ~Valid(image[1])
      BY <1>1, <2>1 DEF SlotIndex
    <3> QED
      BY <3>1, <3>2, CurrentOfNone
  <2>2. CASE Valid(image[other]) /\ Newest(image, SlotIndex) = other
    <3>1. Newest(slots, SlotIndex) = other
      BY <1>1, <1>2, <2>2, NewestOfOne
    <3> QED
      BY <1>1, <1>2, <2>2, <3>1, CurrentOfNewest
  <2> QED
    BY <2>1, <2>2 DEF IInv, TargetIsSpare
<1> QED
  BY <1>3, <1>4, <1>5

(***************************************************************************)
(* With its header the new record becomes the current one.                 *)
(***************************************************************************)
LEMMA HeaderMakesCurrent ==
    ASSUME IInv, pc = "header"
    PROVE  /\ WellFormed(AfterHeader) /\ Neighbours(AfterHeader)
           /\ Current(AfterHeader) = call.payload
<1> DEFINE slots == AfterHeader
           other == Other(target)
<1>1. /\ image \in [SlotIndex -> Slot] /\ target \in SlotIndex
      /\ other \in SlotIndex /\ other # target /\ Other(other) = target
      /\ \A j \in SlotIndex : j = target \/ j = other
  BY OtherSlot DEF IInv, TypeOK
<1>2. slots \in [SlotIndex -> Slot]
  BY WritesAreSlots DEF IInv
<1>3. slots[target] = Record /\ slots[other] = image[other]
  BY <1>1 DEF AfterHeader
<1>4. Record.intact /\ Record.crcOf = call.payload /\ call.payload \in Payload
  BY DEF Record, IInv, CallOK, Storing
<1>5. Valid(slots[target])
  BY <1>3 DEF Record, Valid, IInv, TargetIsPrepared
<1>6. WellFormed(slots)
  BY <1>1, <1>2, <1>3, <1>4 DEF IInv, WellFormed
<1>7. Neighbours(slots) /\ Newest(slots, SlotIndex) = target
  <2>1. CASE ~Valid(image[other])
    BY <1>1, <1>3, <1>5, <2>1, NewestOfOne DEF Neighbours
  <2>2. CASE Valid(image[other])
    <3>1. slots[target].sequence = Successor(slots[other].sequence)
      BY <1>3, <2>2 DEF IInv, TargetIsSpare, Record
    <3>2. Valid(slots[0]) /\ Valid(slots[1])
      BY <1>1, <1>3, <1>5, <2>2 DEF SlotIndex
    <3>3. Newest(slots, SlotIndex) = target
      BY <1>1, <1>2, <3>1, <3>2, NewestOfTwo
    <3>4. slots[other].sequence \in Sequence
      BY <1>1, <1>2 DEF Slot
    <3>5. Distance(slots[target].sequence, slots[other].sequence) = 1
      BY <3>1, <3>4, SuccessorIsNewer
    <3>6. Neighbours(slots)
      BY <1>1, <3>5 DEF Neighbours, SlotIndex, Other
    <3> QED
      BY <3>3, <3>6
  <2> QED
    BY <2>1, <2>2
<1>8. Current(slots) = call.payload
  BY <1>1, <1>3, <1>4, <1>7, CurrentOfNewest
<1> QED
  BY <1>6, <1>7, <1>8

(***************************************************************************)
(* However far a backend call gets, two valid slots stay neighbours, and   *)
(* during store() the current record is the one before or the new one.     *)
(***************************************************************************)
Safe(slots) ==
    /\ WellFormed(slots) /\ Neighbours(slots)
    /\ Storing => Current(slots) \in {Current(image), call.payload}

LEMMA CompleteIsIncomplete ==
    ASSUME IInv
    PROVE  /\ pc = "erase" => AfterErase \in Incomplete
           /\ pc = "payload" => AfterPayload \in Incomplete
           /\ pc = "header" => AfterHeader \in Incomplete
           /\ pc = "clearErase" => AfterClear \in Incomplete
<1>1. pc = "erase" => AfterErase \in Incomplete
  BY DEF Incomplete, AfterErase, PartlyErased
<1>2. /\ pc = "payload" => AfterPayload \in Incomplete
      /\ pc = "header" => AfterHeader \in Incomplete
  BY DEF Incomplete
<1>3. AfterClear \in PartlyCleared(image)
  <2>1. AfterClear = [i \in SlotIndex |-> IF i = 0 THEN ErasedSlot ELSE ErasedSlot]
    BY DEF AfterClear
  <2> QED
    BY <2>1 DEF PartlyCleared, PartlyErased
<1>4. pc = "clearErase" => AfterClear \in Incomplete
  BY <1>3 DEF Incomplete
<1> QED
  BY <1>1, <1>2, <1>4

LEMMA EveryWriteIsSafe ==
    ASSUME IInv, NEW slots \in Incomplete
    PROVE  Safe(slots)
<1>0. /\ image \in [SlotIndex -> Slot] /\ target \in SlotIndex
      /\ WellFormed(image) /\ Neighbours(image)
  BY DEF IInv, TypeOK, SlotsAreNeighbours
<1>1. Safe(image)
  BY <1>0 DEF Safe
<1>2. CASE pc = "erase"
  <2>1. PICK s \in PartlyErased(image[target]) :
                slots = [image EXCEPT ![target] = s]
    BY <1>2 DEF Incomplete
  <2>2. CASE s = image[target]
    <3>1. slots = image
      BY <1>0, <2>1, <2>2
    <3> QED
      BY <1>1, <3>1
  <2>3. CASE s # image[target]
    <3>1. ~s.intact /\ s \in Slot
      BY <1>0, <2>3, ErasedIsSlot, UnreadableIsInvalid DEF PartlyErased
    <3> QED
      BY <1>2, <2>1, <3>1, SpareCanBeOverwritten DEF Safe
  <2> QED
    BY <2>2, <2>3
<1>3. CASE pc = "payload"
  <2>1. /\ Unreadable(call.payload) \in Slot
        /\ ~Unreadable(call.payload).intact
    BY ErasedIsSlot, UnreadableIsInvalid DEF IInv, TypeOK
  <2>2. Safe(AfterPayload)
    BY <1>3, <2>1, SpareCanBeOverwritten DEF Safe, AfterPayload
  <2> QED
    BY <1>1, <1>3, <2>2 DEF Incomplete
<1>4. CASE pc = "header"
  BY <1>1, <1>4, HeaderMakesCurrent DEF Incomplete, Safe
<1>5. CASE pc = "clearErase"
  <2>1. ~Storing /\ slots \in PartlyCleared(image)
    BY <1>5 DEF Storing, Incomplete
  <2>2. slots \in [SlotIndex -> Slot]
    BY WritesAreSlots DEF IInv
  <2>3. CASE slots[0] = image[0] /\ slots[1] = image[1]
    <3>1. slots = image
      BY <1>0, <2>2, <2>3 DEF SlotIndex
    <3> QED
      BY <1>1, <3>1
  <2>4. CASE ~slots[0].intact /\ slots[1] \in PartlyErased(image[1])
    BY <1>0, <2>1, <2>2, <2>4, UnreadableIsInvalid
       DEF Safe, WellFormed, Neighbours, PartlyErased, Valid, SlotIndex
  <2>5. \/ slots[0] = image[0] /\ slots[1] = image[1]
        \/ ~slots[0].intact /\ slots[1] \in PartlyErased(image[1])
    BY <1>0, <2>1, UnreadableIsInvalid DEF PartlyCleared, PartlyErased, SlotIndex
  <2> QED
    BY <2>3, <2>4, <2>5
<1>6. CASE pc \notin {"erase", "payload", "header", "clearErase"}
  <2>1. slots = image
    BY <1>6 DEF Incomplete
  <2> QED
    BY <1>1, <2>1
<1> QED
  BY <1>2, <1>3, <1>4, <1>5, <1>6

-----------------------------------------------------------------------------
(***************************************************************************)
(* A backend call that writes leaves the slots safe, where reads find them *)
(* and where a loss of power leaves them.                                  *)
(***************************************************************************)
LEMMA PutIsSafe ==
    ASSUME IInv, NEW slots \in Incomplete, Put(slots)
    PROVE  /\ WellFormed(media)' /\ WellFormed(image)' /\ SlotsAreNeighbours'
           /\ writeThrough => media' = image'
           /\ Storing => Current(media') \in {Current(media), call.payload}
<1>1. Safe(slots)
  BY EveryWriteIsSafe
<1>2. image' = slots /\ media' \in {slots, media}
  BY DEF Put
<1>3. writeThrough => media' = slots /\ media = image
  BY DEF Put, IInv
<1>4. ~writeThrough => media' = media
  BY DEF Put
<1> QED
  BY <1>1, <1>2, <1>3, <1>4 DEF Safe, IInv, SlotsAreNeighbours

(***************************************************************************)
(* Steps that concern neither the slots nor the method that is running.    *)
(***************************************************************************)
LEMMA QuietStep ==
    ASSUME IInv, TypeOK',
           UNCHANGED <<media, image, pc, target, nextSequence, writeThrough,
                       call>>
    PROVE  IInv'
BY DEF IInv, WellFormed, CallOK, Storing, Clearing, TargetIsSpare,
   TargetIsPrepared, ImageIsReady, SlotsAreNeighbours, AcknowledgedIsDurable

(***************************************************************************)
(* Between the calls nothing is claimed of target and image.               *)
(***************************************************************************)
LEMMA IdleStep ==
    ASSUME TypeOK', pc' \in {"idle", "off", "clearErase"},
           WellFormed(media)', WellFormed(image)', SlotsAreNeighbours',
           UNCHANGED writeThrough, writeThrough => media' = image',
           CallOK', AcknowledgedIsDurable'
    PROVE  IInv'
BY DEF IInv, TargetIsSpare, TargetIsPrepared, ImageIsReady

LEMMA Inductive == ~ReadFaults /\ IInv /\ [Next]_vars => IInv'
<1> SUFFICES ASSUME ~ReadFaults, IInv, [Next]_vars PROVE IInv'
  OBVIOUS
<1>0. UNCHANGED writeThrough
  BY DEF Next, vars, StoreRejected, Store, StoreErase, StorePayload,
     StoreHeader, Clear, ClearErase, Commit, ReturnSuccess, BackendFails,
     Load, NullArgument, PowerLoss, PowerOn
<1>1. TypeOK'
  BY TypeInductive DEF IInv
<1>2. ASSUME NEW p \in Payload, StoreRejected(p) PROVE IInv'
  BY <1>0, <1>1, <1>2, QuietStep DEF StoreRejected
<1>3. ASSUME NEW p \in Payload, Store(p) PROVE IInv'
  <2> DEFINE newest == Newest(image, SlotIndex)
  <2>1. /\ target' = IF newest = 2 THEN 0 ELSE Other(newest)
        /\ nextSequence' = IF newest = 2 THEN 1
                           ELSE Successor(image[newest].sequence)
    BY <1>3 DEF Store, Readable
  <2>2. /\ pc' = "erase" /\ UNCHANGED <<media, image>>
        /\ call' = [op |-> "store", payload |-> p, outcome |-> "pending"]
    BY <1>3 DEF Store
  <2>3. CallOK' /\ AcknowledgedIsDurable' /\ SlotsAreNeighbours'
    BY <2>2 DEF CallOK, Storing, Clearing, AcknowledgedIsDurable, IInv,
       SlotsAreNeighbours
  <2>4. TargetIsSpare'
    <3>1. CASE newest = 2
      <4>1. ~Valid(image[0]) /\ ~Valid(image[1])
        BY <3>1, NewestIsValid DEF SlotIndex
      <4> QED
        BY <2>1, <2>2, <3>1, <4>1 DEF TargetIsSpare, Other
    <3>2. CASE newest # 2
      <4>1. newest \in SlotIndex /\ Valid(image[newest])
        BY <3>2, NewestIsValid
      <4>2. target' = Other(newest) /\ Other(target') = newest
        BY <2>1, <3>2, <4>1, OtherSlot
      <4> QED
        BY <2>1, <2>2, <3>2, <4>1, <4>2 DEF TargetIsSpare
    <3> QED
      BY <3>1, <3>2
  <2> QED
    BY <1>0, <1>1, <2>2, <2>3, <2>4
       DEF IInv, WellFormed, TargetIsPrepared, ImageIsReady
<1>4. CASE StoreErase
  <2>1. pc = "erase" /\ Put(AfterErase) /\ AfterErase \in Incomplete
    BY <1>4, CompleteIsIncomplete DEF StoreErase
  <2>2. /\ pc' = IF Size[call.payload] > 0 THEN "payload" ELSE "header"
        /\ UNCHANGED <<target, nextSequence, call>>
    BY <1>4 DEF StoreErase
  <2>3. /\ target \in SlotIndex /\ image \in [SlotIndex -> Slot]
        /\ image' = AfterErase
    BY <2>1 DEF IInv, TypeOK, Put
  <2>4. /\ image'[target] = ErasedSlot
        /\ image'[Other(target)] = image[Other(target)]
    BY <2>3, OtherSlot DEF AfterErase
  <2>5. ~image'[target].intact /\ ~Valid(image'[target])
    BY <2>4, UnreadableIsInvalid
  <2>6. CallOK' /\ AcknowledgedIsDurable' /\ call.payload \in Payload
    BY <2>1, <2>2 DEF IInv, CallOK, Storing, Clearing, AcknowledgedIsDurable
  <2>7. TargetIsSpare'
    <3>1. CASE ~Valid(image[Other(target)])
      BY <2>2, <2>4, <2>5, <3>1 DEF TargetIsSpare
    <3>2. CASE Valid(image[Other(target)])
      <4>1. Newest(image', SlotIndex) = Other(target)
        BY <2>3, <2>4, <2>5, <3>2, OtherSlot, NewestOfOne
      <4> QED
        BY <2>1, <2>2, <2>4, <3>2, <4>1 DEF IInv, TargetIsSpare
    <3> QED
      BY <3>1, <3>2
  <2>8. TargetIsPrepared'
    <3>1. pc' = "header" => Size[call.payload] = 0
      BY <2>2, <2>6, SizeAssumption
    <3> QED
      BY <2>2, <2>5, <3>1 DEF TargetIsPrepared
  <2>9. ImageIsReady'
    BY <2>2 DEF ImageIsReady
  <2> QED
    BY <1>0, <1>1, <2>1, <2>6, <2>7, <2>8, <2>9, PutIsSafe DEF IInv
<1>5. CASE StorePayload
  <2>1. pc = "payload" /\ Put(AfterPayload) /\ AfterPayload \in Incomplete
    BY <1>5, CompleteIsIncomplete DEF StorePayload
  <2>2. pc' = "header" /\ UNCHANGED <<target, nextSequence, call>>
    BY <1>5 DEF StorePayload
  <2>3. /\ target \in SlotIndex /\ image \in [SlotIndex -> Slot]
        /\ image' = AfterPayload
    BY <2>1 DEF IInv, TypeOK, Put
  <2>4. /\ image'[target] = Unreadable(call.payload)
        /\ image'[Other(target)] = image[Other(target)]
    BY <2>3, OtherSlot DEF AfterPayload
  <2>5. ~image'[target].intact /\ ~Valid(image'[target])
    BY <2>4, UnreadableIsInvalid
  <2>6. CallOK' /\ AcknowledgedIsDurable'
    BY <2>1, <2>2 DEF IInv, CallOK, Storing, Clearing, AcknowledgedIsDurable
  <2>7. TargetIsSpare'
    <3>1. CASE ~Valid(image[Other(target)])
      BY <2>2, <2>4, <2>5, <3>1 DEF TargetIsSpare
    <3>2. CASE Valid(image[Other(target)])
      <4>1. Newest(image', SlotIndex) = Other(target)
        BY <2>3, <2>4, <2>5, <3>2, OtherSlot, NewestOfOne
      <4> QED
        BY <2>1, <2>2, <2>4, <3>2, <4>1 DEF IInv, TargetIsSpare
    <3> QED
      BY <3>1, <3>2
  <2>8. TargetIsPrepared'
    BY <2>2, <2>4, <2>5 DEF TargetIsPrepared, Unreadable
  <2>9. ImageIsReady'
    BY <2>2 DEF ImageIsReady
  <2> QED
    BY <1>0, <1>1, <2>1, <2>6, <2>7, <2>8, <2>9, PutIsSafe DEF IInv
<1>6. CASE StoreHeader
  <2>1. pc = "header" /\ Put(AfterHeader) /\ AfterHeader \in Incomplete
    BY <1>6, CompleteIsIncomplete DEF StoreHeader
  <2>2. pc' = "commit" /\ UNCHANGED call /\ image' = AfterHeader
    BY <1>6 DEF StoreHeader, Put
  <2>3. CallOK' /\ AcknowledgedIsDurable'
    BY <2>1, <2>2 DEF IInv, CallOK, Storing, Clearing, AcknowledgedIsDurable
  <2>4. ImageIsReady'
    BY <2>1, <2>2, HeaderMakesCurrent DEF ImageIsReady
  <2> QED
    BY <1>0, <1>1, <2>1, <2>2, <2>3, <2>4, PutIsSafe
       DEF IInv, TargetIsSpare, TargetIsPrepared
<1>7. CASE Clear
  <2>1. /\ pc' = "clearErase" /\ UNCHANGED <<media, image>>
        /\ call' = [op |-> "clear", payload |-> NoPayload,
                    outcome |-> "pending"]
    BY <1>7 DEF Clear
  <2>2. CallOK' /\ AcknowledgedIsDurable' /\ SlotsAreNeighbours'
    BY <2>1 DEF CallOK, Storing, Clearing, AcknowledgedIsDurable, IInv,
       SlotsAreNeighbours
  <2> QED
    BY <1>0, <1>1, <2>1, <2>2, IdleStep DEF IInv, WellFormed
<1>8. CASE ClearErase
  <2>1. pc = "clearErase" /\ Put(AfterClear) /\ AfterClear \in Incomplete
    BY <1>8, CompleteIsIncomplete DEF ClearErase
  <2>2. pc' = "clearCommit" /\ UNCHANGED call /\ image' = AfterClear
    BY <1>8 DEF ClearErase, Put
  <2>3. CallOK' /\ AcknowledgedIsDurable' /\ call.payload = NoPayload
    BY <2>1, <2>2 DEF IInv, CallOK, Storing, Clearing, AcknowledgedIsDurable
  <2>4. Current(AfterClear) = NoPayload
    BY UnreadableIsInvalid, CurrentOfNone DEF AfterClear, SlotIndex
  <2>5. ImageIsReady'
    BY <2>2, <2>3, <2>4 DEF ImageIsReady
  <2> QED
    BY <1>0, <1>1, <2>1, <2>2, <2>3, <2>5, PutIsSafe
       DEF IInv, TargetIsSpare, TargetIsPrepared
<1>9. CASE Commit
  <2>1. /\ pc \in {"commit", "clearCommit"} /\ pc' = "idle"
        /\ media' = image /\ image' = image
        /\ call' = [call EXCEPT !.outcome = "success"]
    BY <1>9 DEF Commit, ReturnSuccess
  <2>2. Current(media') = call'.payload
    BY <2>1 DEF IInv, TypeOK, ImageIsReady
  <2>3. CallOK'
    BY <2>1 DEF IInv, TypeOK, CallOK, Storing, Clearing
  <2> QED
    BY <1>0, <1>1, <2>1, <2>2, <2>3, IdleStep
       DEF IInv, WellFormed, SlotsAreNeighbours, AcknowledgedIsDurable
<1>10. CASE BackendFails
  <2>1. /\ pc' = "idle" /\ pc \notin {"idle", "off"}
        /\ call' = [call EXCEPT !.outcome = "unknown"]
    BY <1>10 DEF BackendFails
  <2>2. CallOK' /\ AcknowledgedIsDurable'
    BY <2>1 DEF IInv, TypeOK, CallOK, Storing, Clearing, AcknowledgedIsDurable
  <2>3. CASE \E slots \in Incomplete : Put(slots)
    BY <1>0, <1>1, <2>1, <2>2, <2>3, PutIsSafe, IdleStep
  <2>4. CASE media' = image /\ UNCHANGED image
    BY <1>0, <1>1, <2>1, <2>2, <2>4, IdleStep
       DEF IInv, WellFormed, SlotsAreNeighbours
  <2> QED
    BY <1>10, <2>3, <2>4 DEF BackendFails
<1>11. ASSUME NEW capacity \in Capacity, Load(capacity) PROVE IInv'
  BY <1>0, <1>1, <1>11, QuietStep DEF Load
<1>12. CASE NullArgument
  BY <1>0, <1>1, <1>12, QuietStep DEF NullArgument
<1>13. CASE PowerLoss
  <2>1. /\ pc' = "off" /\ image' = media'
        /\ call' = [call EXCEPT !.outcome =
                        IF @ = "pending" THEN "unknown" ELSE @]
        /\ media' \in IF writeThrough THEN Incomplete
                      ELSE IF pc \in {"commit", "clearCommit"} THEN {media, image}
                      ELSE {media}
    BY <1>13 DEF PowerLoss
  <2>2. WellFormed(media') /\ Neighbours(media')
    BY <2>1, EveryWriteIsSafe DEF IInv, SlotsAreNeighbours, Safe
  <2>3. call.outcome = "success" => media' = media
    BY <2>1 DEF IInv, TypeOK, CallOK, Storing, Clearing, Incomplete
  <2>4. CallOK' /\ AcknowledgedIsDurable'
    BY <2>1, <2>3 DEF IInv, TypeOK, CallOK, Storing, Clearing,
       AcknowledgedIsDurable
  <2> QED
    BY <1>0, <1>1, <2>1, <2>2, <2>4, IdleStep DEF WellFormed, SlotsAreNeighbours
<1>14. CASE PowerOn
  <2>1. /\ pc = "off" /\ pc' = "idle" /\ UNCHANGED <<media, image, call>>
    BY <1>14 DEF PowerOn
  <2> QED
    BY <1>0, <1>1, <2>1, IdleStep
       DEF IInv, WellFormed, CallOK, Storing, Clearing, SlotsAreNeighbours,
           AcknowledgedIsDurable
<1>15. CASE UNCHANGED vars
  BY <1>0, <1>1, <1>15, QuietStep DEF vars
<1> QED
  BY <1>2, <1>3, <1>4, <1>5, <1>6, <1>7, <1>8, <1>9, <1>10, <1>11, <1>12,
     <1>13, <1>14, <1>15 DEF Next

-----------------------------------------------------------------------------
LEMMA Invariant == ASSUME ~ReadFaults PROVE Spec => []IInv
<1>1. Init => IInv
  <2> SUFFICES ASSUME Init PROVE IInv
    OBVIOUS
  <2>1. \A i \in SlotIndex : media[i] = ErasedSlot /\ image[i] = ErasedSlot
    BY DEF Init
  <2>2. /\ media \in [SlotIndex -> Slot] /\ image \in [SlotIndex -> Slot]
        /\ WellFormed(media) /\ WellFormed(image) /\ SlotsAreNeighbours
    BY <2>1, ErasedIsSlot, UnreadableIsInvalid
       DEF Init, WellFormed, SlotsAreNeighbours, Neighbours, SlotIndex
  <2>3. TypeOK
    BY InitialTypes
  <2> QED
    BY <2>2, <2>3
       DEF Init, IInv, CallOK, Storing, Clearing, TargetIsSpare,
           TargetIsPrepared, ImageIsReady, AcknowledgedIsDurable
<1>2. IInv /\ [Next]_vars => IInv'
  BY Inductive
<1> QED
  BY <1>1, <1>2, PTL DEF Spec

(***************************************************************************)
(* However calls, failures and losses of power follow each other, the      *)
(* sequence numbers of two valid slots are neighbours, so sequenceNewer()  *)
(* is never asked about numbers that are half the range apart.             *)
(***************************************************************************)
THEOREM SequencesStayNeighbours ==
    ASSUME ~ReadFaults PROVE Spec => []SlotsAreNeighbours
<1>1. IInv => SlotsAreNeighbours
  BY DEF IInv
<1> QED
  BY <1>1, Invariant, PTL

(***************************************************************************)
(* What store() and clear() acknowledge survives any loss of power.        *)
(***************************************************************************)
THEOREM Durability == ASSUME ~ReadFaults PROVE Spec => []AcknowledgedIsDurable
<1>1. IInv => AcknowledgedIsDurable
  BY DEF IInv
<1> QED
  BY <1>1, Invariant, PTL

(***************************************************************************)
(* A store() that fails or is interrupted does not destroy the last good   *)
(* record: at every step the record a restart would find is the old one or *)
(* the new one.                                                            *)
(***************************************************************************)
THEOREM LastGoodRecordSurvives ==
    ASSUME ~ReadFaults PROVE Spec => StoreKeepsLastGood
<1>1. IInv /\ [Next]_vars =>
        [call.op = "store" /\ call.outcome = "pending"
           => Current(media') \in {Current(media), call.payload}]_vars
  <2> SUFFICES ASSUME IInv, Next, call.op = "store", call.outcome = "pending"
               PROVE  Current(media') \in {Current(media), call.payload}
    OBVIOUS
  <2>1. Storing /\ pc \notin {"idle", "off"}
    BY DEF IInv, CallOK, Storing, Clearing
  <2>2. CASE UNCHANGED media
    BY <2>2
  <2>3. CASE \E slots \in Incomplete : Put(slots)
    BY <2>1, <2>3, PutIsSafe
  <2>4. CASE media' = image /\ pc \in {"commit", "clearCommit"}
    BY <2>4 DEF IInv, ImageIsReady
  <2>5. CASE StoreErase \/ StorePayload \/ StoreHeader \/ ClearErase
    BY <2>3, <2>5, CompleteIsIncomplete
       DEF StoreErase, StorePayload, StoreHeader, ClearErase
  <2>6. CASE Commit
    BY <2>4, <2>6 DEF Commit, ReturnSuccess
  <2>7. CASE BackendFails
    BY <2>3, <2>4, <2>7 DEF BackendFails
  <2>8. CASE PowerLoss
    <3>1. CASE writeThrough
      <4>1. media' \in Incomplete /\ media = image
        BY <2>8, <3>1 DEF PowerLoss, IInv
      <4> QED
        BY <2>1, <4>1, EveryWriteIsSafe DEF Safe
    <3>2. CASE ~writeThrough
      BY <2>2, <2>4, <2>8, <3>2 DEF PowerLoss
    <3> QED
      BY <3>1, <3>2
  <2> QED
    BY <2>2, <2>5, <2>6, <2>7, <2>8
       DEF Next, StoreRejected, Store, Clear, Load, NullArgument, PowerOn
<1> QED
  BY <1>1, Invariant, PTL DEF Spec, StoreKeepsLastGood

-----------------------------------------------------------------------------
(***************************************************************************)
(* While a call is acknowledged the image load() reads is what the media   *)
(* hold, and no result of an earlier load() outlives the start of a call.  *)
(***************************************************************************)
LoadInv ==
    /\ Storing \/ Clearing => result = NoResult
    /\ call.outcome = "success" => image = media
    /\ call.op = "store" => call.payload \in Payload
    /\ ReadYourWrites

(***************************************************************************)
(* What load() finds in slots whose current record is known.               *)
(***************************************************************************)
LEMMA LoadFindsCurrent ==
    ASSUME ~ReadFaults, NEW capacity \in Capacity, Load(capacity)
    PROVE  /\ result'.status = "Success" => result'.payload = Current(image)
           /\ result'.status = "NoValidRecord" => Current(image) = NoPayload
<1> DEFINE newest == Newest(image, SlotIndex)
<1>1. PICK readOk \in {TRUE, ~ReadFaults} :
        LET status == LoadStatus(newest, capacity, readOk) IN
        result' = [status  |-> status,
                   payload |-> IF status = "Success"
                               THEN image[newest].crcOf ELSE NoPayload]
  BY DEF Load, Readable
<1> DEFINE status == LoadStatus(newest, capacity, readOk)
<1>2. result'.status = status
  BY <1>1
<1>3. CASE newest = 2
  <2>1. status = "NoValidRecord"
    BY <1>3 DEF LoadStatus
  <2> QED
    BY <1>2, <1>3, <2>1 DEF Current
<1>4. CASE newest # 2
  <2>1. status # "NoValidRecord"
    BY <1>4 DEF LoadStatus
  <2>2. Current(image) = image[newest].crcOf
    BY <1>4 DEF Current
  <2> QED
    BY <1>1, <1>2, <2>1, <2>2
<1> QED
  BY <1>3, <1>4

LEMMA LoadInductive == ~ReadFaults /\ IInv /\ LoadInv /\ [Next]_vars => LoadInv'
<1> SUFFICES ASSUME ~ReadFaults, IInv, LoadInv, [Next]_vars PROVE LoadInv'
  OBVIOUS
<1> USE DEF LoadInv, ReadYourWrites, Storing, Clearing
<1>1. ASSUME result'.status \notin {"Success", "NoValidRecord"},
             UNCHANGED <<media, image, pc, call>>, pc = "idle"
      PROVE  LoadInv'
  BY <1>1
<1>2. ASSUME NEW p \in Payload, StoreRejected(p) PROVE LoadInv'
  BY <1>1, <1>2 DEF StoreRejected
<1>3. ASSUME NEW p \in Payload, Store(p) PROVE LoadInv'
  BY <1>3 DEF Store, NoResult
<1>4. CASE StoreErase \/ StorePayload \/ StoreHeader \/ ClearErase
  BY <1>4 DEF StoreErase, StorePayload, StoreHeader, ClearErase, IInv, CallOK
<1>5. CASE Clear
  BY <1>5 DEF Clear, NoResult
<1>6. CASE Commit
  BY <1>6 DEF Commit, ReturnSuccess, NoResult, IInv, TypeOK
<1>7. CASE BackendFails
  BY <1>7 DEF BackendFails, NoResult, IInv, TypeOK
<1>8. ASSUME NEW capacity \in Capacity, Load(capacity) PROVE LoadInv'
  <2>1. pc = "idle" /\ UNCHANGED <<media, image, pc, call>>
    BY <1>8 DEF Load
  <2>2. call.outcome = "success" => Current(image) = call.payload
    BY DEF IInv, AcknowledgedIsDurable
  <2>3. call.payload = NoPayload => call.op = "clear"
    BY PayloadAssumption DEF IInv, TypeOK
  <2> QED
    BY <1>8, <2>1, <2>2, <2>3, LoadFindsCurrent
<1>9. CASE NullArgument
  BY <1>1, <1>9 DEF NullArgument
<1>10. CASE PowerLoss
  <2>1. call'.outcome = "success" => call.outcome = "success"
    BY <1>10 DEF PowerLoss, IInv, TypeOK
  <2> QED
    BY <1>10, <2>1 DEF PowerLoss, NoResult, IInv, TypeOK
<1>11. CASE PowerOn
  BY <1>11 DEF PowerOn
<1>12. CASE UNCHANGED vars
  BY <1>12 DEF vars
<1> QED
  BY <1>2, <1>3, <1>4, <1>5, <1>6, <1>7, <1>8, <1>9, <1>10, <1>11, <1>12
     DEF Next

(***************************************************************************)
(* A load() after an acknowledged store() never returns another payload    *)
(* and never says that there is none, in whatever session and whatever     *)
(* slot the record is in.                                                  *)
(***************************************************************************)
THEOREM LoadReturnsWhatWasStored ==
    ASSUME ~ReadFaults PROVE Spec => []ReadYourWrites
<1>1. Init => LoadInv
  BY DEF Init, LoadInv, ReadYourWrites, NoResult, Storing, Clearing
<1>2. IInv /\ LoadInv /\ [Next]_vars => LoadInv'
  BY LoadInductive
<1>3. LoadInv => ReadYourWrites
  BY DEF LoadInv
<1> QED
  BY <1>1, <1>2, <1>3, Invariant, PTL DEF Spec

-----------------------------------------------------------------------------
(***************************************************************************)
(* RecordStore implements AtomicRecord: to its caller, store() replaces    *)
(* one durable record in an indivisible step, although it takes four       *)
(* backend calls, each of which may fail or be cut by a loss of power.     *)
(***************************************************************************)
(***************************************************************************)
(* Every record in a slot was given to store() since the last clear() that *)
(* succeeded, also one that is half erased or was replaced long ago: what  *)
(* an interrupted clear() may bring back.                                  *)
(***************************************************************************)
Known(slots) == \A i \in SlotIndex : slots[i].intact => slots[i].crcOf \in attempted

RInv ==
    /\ Known(media) /\ Known(image)
    /\ Storing => call.payload \in attempted
    /\ pc = "clearCommit" => image = AfterClear

LEMMA IncompleteIsKnown ==
    ASSUME IInv, RInv, NEW slots \in Incomplete
    PROVE  Known(slots)
<1>1. image \in [SlotIndex -> Slot] /\ target \in SlotIndex /\ Known(image)
  BY DEF IInv, TypeOK, RInv
<1>2. \A i \in SlotIndex : \A s \in PartlyErased(image[i]) :
        s.intact => s.crcOf \in attempted
  BY <1>1, UnreadableIsInvalid DEF PartlyErased, Known
<1>3. CASE pc = "erase"
  <2>1. PICK s \in PartlyErased(image[target]) :
                slots = [image EXCEPT ![target] = s]
    BY <1>3 DEF Incomplete
  <2> QED
    BY <1>1, <1>2, <2>1 DEF Known
<1>4. CASE pc = "payload"
  BY <1>1, <1>4, UnreadableIsInvalid DEF Incomplete, AfterPayload, Known
<1>5. CASE pc = "header"
  <2>1. Record.crcOf \in attempted
    BY <1>5 DEF Record, RInv, Storing
  <2> QED
    BY <1>1, <1>5, <2>1 DEF Incomplete, AfterHeader, Known
<1>6. CASE pc = "clearErase"
  <2>1. slots \in PartlyCleared(image)
    BY <1>6 DEF Incomplete
  <2>2. CASE \E s \in PartlyErased(image[0]) : slots = [image EXCEPT ![0] = s]
    BY <1>1, <1>2, <2>2 DEF Known, SlotIndex
  <2>3. CASE \E s \in PartlyErased(image[1]) :
               slots = [i \in SlotIndex |-> IF i = 0 THEN ErasedSlot ELSE s]
    BY <1>2, <2>3, UnreadableIsInvalid DEF Known, SlotIndex
  <2> QED
    BY <2>1, <2>2, <2>3 DEF PartlyCleared
<1>7. CASE pc \notin {"erase", "payload", "header", "clearErase"}
  BY <1>1, <1>7 DEF Incomplete
<1> QED
  BY <1>3, <1>4, <1>5, <1>6, <1>7

LEMMA PutIsKnown ==
    ASSUME IInv, RInv, NEW slots \in Incomplete, Put(slots)
    PROVE  Known(media') /\ Known(image')
BY IncompleteIsKnown DEF Put, RInv

LEMMA ErasedIsKnown == Known(AfterClear)
BY UnreadableIsInvalid DEF Known, AfterClear

(***************************************************************************)
(* Known speaks of attempted: what it says of slots stays true when that   *)
(* set grows.                                                              *)
(***************************************************************************)
LEMMA KnownInductive ==
    ~ReadFaults /\ IInv /\ IInv' /\ RInv /\ [Next]_vars => RInv'
<1> SUFFICES ASSUME ~ReadFaults, IInv, IInv', RInv, [Next]_vars PROVE RInv'
  OBVIOUS
<1>1. ASSUME UNCHANGED <<media, image, pc, call, attempted>> PROVE RInv'
  BY <1>1 DEF RInv, Known, Storing, AfterClear
<1>2. ASSUME NEW p \in Payload, Store(p) PROVE RInv'
  BY <1>2 DEF Store, RInv, Known, Storing
<1>3. ASSUME NEW slots \in Incomplete, Put(slots), UNCHANGED <<call, attempted>>,
             Storing' => Storing, pc' # "clearCommit"
      PROVE  RInv'
  <2>1. Known(media') /\ Known(image')
    BY <1>3, PutIsKnown
  <2> QED
    BY <1>3, <2>1 DEF RInv, Known
<1>4. CASE StoreErase \/ StorePayload \/ StoreHeader
  BY <1>3, <1>4, CompleteIsIncomplete
     DEF StoreErase, StorePayload, StoreHeader, Storing
<1>5. CASE Clear
  BY <1>5 DEF Clear, RInv, Known, Storing
<1>6. CASE ClearErase
  <2>1. Known(media') /\ Known(image')
    BY <1>6, CompleteIsIncomplete, PutIsKnown DEF ClearErase
  <2>2. image' = AfterClear /\ pc' = "clearCommit" /\ UNCHANGED attempted
    BY <1>6 DEF ClearErase, Put
  <2> QED
    BY <2>1, <2>2 DEF RInv, Known, Storing, AfterClear
<1>7. CASE Commit
  <2>1. media' = image /\ image' = image /\ pc' = "idle"
    BY <1>7 DEF Commit, ReturnSuccess
  <2>2. CASE call.op = "store"
    BY <1>7, <2>1, <2>2 DEF Commit, ReturnSuccess, RInv, Known, Storing
  <2>3. CASE call.op = "clear"
    <3>1. image = AfterClear
      BY <1>7, <2>3 DEF Commit, ReturnSuccess, RInv, IInv, CallOK, Storing
    <3>2. Known(media)' /\ Known(image)'
      BY <2>1, <3>1, UnreadableIsInvalid DEF Known, AfterClear
    <3> QED
      BY <2>1, <3>2 DEF RInv, Storing
  <2> QED
    BY <2>2, <2>3 DEF IInv, TypeOK
<1>8. CASE BackendFails
  <2>1. Known(media') /\ Known(image')
    <3>1. CASE \E slots \in Incomplete : Put(slots)
      BY <3>1, PutIsKnown
    <3>2. CASE media' = image /\ UNCHANGED image
      BY <3>2 DEF RInv
    <3> QED
      BY <1>8, <3>1, <3>2 DEF BackendFails
  <2>2. pc' = "idle" /\ UNCHANGED attempted
    BY <1>8 DEF BackendFails
  <2> QED
    BY <2>1, <2>2 DEF RInv, Known, Storing
<1>9. CASE PowerLoss
  <2>1. Known(media')
    BY <1>9, IncompleteIsKnown DEF PowerLoss, RInv
  <2>2. image' = media' /\ pc' = "off" /\ UNCHANGED attempted
    BY <1>9 DEF PowerLoss
  <2> QED
    BY <2>1, <2>2 DEF RInv, Known, Storing
<1>10. CASE PowerOn
  BY <1>10 DEF PowerOn, RInv, Known, Storing
<1> QED
  BY <1>1, <1>2, <1>4, <1>5, <1>6, <1>7, <1>8, <1>9, <1>10
     DEF Next, StoreRejected, Load, NullArgument, vars

-----------------------------------------------------------------------------
(***************************************************************************)
(* A known pair of slots holds a record that clear() may leave behind.     *)
(***************************************************************************)
LEMMA CurrentIsKnown ==
    ASSUME NEW slots, Known(slots)
    PROVE  Current(slots) \in attempted \cup {NoPayload}
<1>1. CASE Newest(slots, SlotIndex) = 2
  BY <1>1 DEF Current
<1>2. CASE Newest(slots, SlotIndex) # 2
  BY <1>2, NewestIsValid DEF Current, Known, Valid
<1> QED
  BY <1>1, <1>2

(***************************************************************************)
(* Where the record of a call in progress may be, whatever it has done.    *)
(***************************************************************************)
LEMMA PendingEffect ==
    ASSUME IInv, RInv, Storing \/ Clearing,
           Known(media'), Storing => Current(media') \in {Current(media), call.payload}
    PROVE  Current(media') \in {Current(media)} \cup Abstract!Effects
BY CurrentIsKnown DEF IInv, CallOK, Abstract!Effects

LEMMA StepRefines ==
    ASSUME ~ReadFaults, IInv, RInv, [Next]_vars
    PROVE  [Abstract!Next]_(Abstract!vars)
<1> USE DEF Abstract!vars
<1>1. ASSUME UNCHANGED <<media, call, attempted>>
      PROVE  UNCHANGED Abstract!vars
  BY <1>1
<1>2. ASSUME NEW p \in Payload, Store(p) PROVE Abstract!BeginStore(p)
  BY <1>2 DEF Store, Abstract!BeginStore, IInv, CallOK, Storing, Clearing
<1>3. CASE Clear
  BY <1>3 DEF Clear, Abstract!Next, Abstract!BeginClear, IInv, CallOK, Storing,
     Clearing
<1>4. ASSUME NEW slots \in Incomplete, Put(slots), Storing \/ Clearing
      PROVE  Current(media') \in {Current(media)} \cup Abstract!Effects
  BY <1>4, PutIsSafe, PutIsKnown, PendingEffect
<1>5. ASSUME NEW slots \in Incomplete, Put(slots), Storing \/ Clearing,
             UNCHANGED <<call, attempted>>
      PROVE  Abstract!TakeEffect \/ UNCHANGED Abstract!vars
  BY <1>4, <1>5 DEF Abstract!TakeEffect, IInv, CallOK
<1>6. CASE StoreErase \/ StorePayload \/ StoreHeader \/ ClearErase
  BY <1>5, <1>6, CompleteIsIncomplete
     DEF StoreErase, StorePayload, StoreHeader, ClearErase, Storing, Clearing,
         Abstract!Next
<1>7. CASE Commit
  <2>1. Current(media') = call.payload /\ call.outcome = "pending"
    BY <1>7 DEF Commit, ReturnSuccess, IInv, ImageIsReady, CallOK, Storing, Clearing
  <2> QED
    BY <1>7, <2>1 DEF Commit, ReturnSuccess, Abstract!Next, Abstract!Succeed
<1>8. CASE BackendFails
  <2>1. Storing \/ Clearing
    BY <1>8 DEF BackendFails, IInv, TypeOK, Storing, Clearing
  <2>2. Current(media') \in {Current(media)} \cup Abstract!Effects
    <3>1. CASE \E slots \in Incomplete : Put(slots)
      BY <1>4, <2>1, <3>1
    <3>2. CASE media' = image /\ pc \in {"commit", "clearCommit"}
      BY <2>1, <3>2, PendingEffect DEF IInv, ImageIsReady, RInv
    <3> QED
      BY <1>8, <3>1, <3>2 DEF BackendFails
  <2> QED
    BY <1>8, <2>1, <2>2
       DEF BackendFails, Abstract!Next, Abstract!GiveUp, IInv, CallOK
<1>9. CASE PowerLoss
  <2>1. /\ UNCHANGED attempted
        /\ call' = [call EXCEPT !.outcome =
                        IF @ = "pending" THEN "unknown" ELSE @]
        /\ media' \in IF writeThrough THEN Incomplete
                      ELSE IF pc \in {"commit", "clearCommit"} THEN {media, image}
                      ELSE {media}
    BY <1>9 DEF PowerLoss
  <2>2. CASE Storing \/ Clearing
    <3>1. Known(media')
      BY <2>1, IncompleteIsKnown DEF RInv
    <3>2. Storing => Current(media') \in {Current(media), call.payload}
      <4>1. CASE writeThrough
        BY <2>1, <4>1, EveryWriteIsSafe DEF Safe, IInv
      <4>2. CASE ~writeThrough
        BY <2>1, <4>2 DEF IInv, ImageIsReady
      <4> QED
        BY <4>1, <4>2
    <3>3. Current(media') \in {Current(media)} \cup Abstract!Effects
      BY <2>2, <3>1, <3>2, PendingEffect
    <3> QED
      BY <2>1, <2>2, <3>3
         DEF Abstract!Next, Abstract!GiveUp, IInv, CallOK
  <2>3. CASE ~Storing /\ ~Clearing
    <3>1. media' = media
      BY <2>1, <2>3 DEF Storing, Clearing, Incomplete, IInv
    <3>2. call' = call
      BY <2>1, <2>3 DEF IInv, TypeOK, CallOK
    <3> QED
      BY <1>1, <2>1, <3>1, <3>2
  <2> QED
    BY <2>2, <2>3
<1> QED
  BY <1>1, <1>2, <1>3, <1>6, <1>7, <1>8, <1>9
     DEF Next, StoreRejected, Load, NullArgument, PowerOn, vars, Abstract!Next

(***************************************************************************)
(* To its callers the record store is one atomic durable record            *)
(* (ImplementsAtomicRecord).                                               *)
(***************************************************************************)
THEOREM StoreIsAtomic == ASSUME ~ReadFaults PROVE Spec => ImplementsAtomicRecord
<1>1. Init => RInv
  BY UnreadableIsInvalid DEF Init, RInv, Known, Storing
<1>2. IInv /\ IInv' /\ RInv /\ [Next]_vars => RInv'
  BY KnownInductive
<1>3. Init => Abstract!Init
  <2> SUFFICES ASSUME Init PROVE Abstract!Init
    OBVIOUS
  <2>1. Current(media) = NoPayload
    BY UnreadableIsInvalid, CurrentOfNone DEF Init, SlotIndex
  <2> QED
    BY <2>1 DEF Init, Abstract!Init
<1>4. IInv /\ RInv /\ [Next]_vars => [Abstract!Next]_(Abstract!vars)
  BY StepRefines
<1> QED
  BY <1>1, <1>2, <1>3, <1>4, Invariant, PTL
     DEF Spec, ImplementsAtomicRecord, Abstract!Spec
=============================================================================
