------------------------------ MODULE FixedSlot ------------------------------
(***************************************************************************)
(* The heap-free single slot (eurorack::storage::FixedSlot): one payload   *)
(* behind one marker byte.  Every backend call is a step that may succeed, *)
(* fail with part of its work done, or be cut by a loss of power.          *)
(*                                                                         *)
(* Two kinds of backend: a write-through one (AVR EEPROM, MemoryStorage),  *)
(* where a write is durable at once, and a staged one, whose commit() is   *)
(* taken to be indivisible.                                                *)
(***************************************************************************)
EXTENDS Naturals, TLAPS

CONSTANTS
    SlotPayload,  \* payloads of the configured size
    Mixed,        \* bytes that are no payload: erased or partly written
    PayloadSize,  \* config_.payloadSize
    Marker,       \* config_.marker
    ErasedValue   \* erasedValue() of the backend

(***************************************************************************)
(* The marker differs from the byte that store() and clear() write to      *)
(* invalidate, and from an erased byte: unstated in the code, and needed.  *)
(***************************************************************************)
ASSUME SlotAssumption ==
    /\ Mixed \notin SlotPayload /\ PayloadSize \in Nat
    /\ {Marker, ErasedValue} \subseteq 0 .. 255
    /\ Marker \notin {0, ErasedValue}

VARIABLES
    slotMedia,        \* what a loss of power leaves
    slotImage,        \* what read() returns
    slotPc,           \* the next backend call of the method that is running
    slotCall,         \* history: the last store() or clear() and its outcome
    slotResult,       \* what the last load() returned
    slotWriteThrough  \* the kind of backend: TRUE when writes are durable at once

slotVars == <<slotMedia, slotImage, slotPc, slotCall, slotResult, slotWriteThrough>>

Slot == [marker : {0, Marker, ErasedValue}, payload : SlotPayload \cup {Mixed}]

slotValid(slot) == slot.marker = Marker

NoResult == [status |-> "None", payload |-> Mixed]

SlotTypeOK ==
    /\ slotMedia \in Slot
    /\ slotImage \in Slot
    /\ slotPc \in {"idle", "invalidate", "payload", "validate", "commit",
                   "clearMarker", "clearCommit", "off"}
    /\ slotCall \in [op : {"store", "clear"}, payload : SlotPayload \cup {Mixed},
                     outcome : {"pending", "success", "unknown"}]
    /\ slotResult \in [status : {"None", "Success", "Busy", "InvalidArgument",
                                 "DataError"},
                       payload : SlotPayload \cup {Mixed}]
    /\ slotWriteThrough \in BOOLEAN

SlotInit ==
    /\ slotMedia = [marker |-> ErasedValue, payload |-> Mixed]
    /\ slotImage = slotMedia
    /\ slotPc = "idle"
    /\ slotCall = [op |-> "clear", payload |-> Mixed, outcome |-> "unknown"]
    /\ slotResult = NoResult
    /\ slotWriteThrough \in BOOLEAN

Put(slot) == /\ slotImage' = slot
             /\ slotMedia' = IF slotWriteThrough THEN slot ELSE slotMedia

-----------------------------------------------------------------------------
(***************************************************************************)
(* Faulty: store() without its first write.                                *)
(***************************************************************************)
StoreOverValid(p) ==
    /\ slotPc = "idle"
    /\ slotPc' = "payload"
    /\ slotCall' = [op |-> "store", payload |-> p, outcome |-> "pending"]
    /\ slotResult' = NoResult
    /\ UNCHANGED <<slotMedia, slotImage, slotWriteThrough>>

Store(p) ==
    /\ slotPc = "idle"
    /\ slotPc' = "invalidate"
    /\ slotCall' = [op |-> "store", payload |-> p, outcome |-> "pending"]
    /\ slotResult' = NoResult
    /\ UNCHANGED <<slotMedia, slotImage, slotWriteThrough>>

(***************************************************************************)
(* Faulty: the marker is made valid before the payload is written.         *)
(***************************************************************************)
InvalidateMarkerFirst ==
    /\ slotPc = "invalidate"
    /\ Put([slotImage EXCEPT !.marker = Marker])
    /\ slotPc' = IF PayloadSize > 0 THEN "payload" ELSE "validate"
    /\ UNCHANGED <<slotCall, slotResult, slotWriteThrough>>

Invalidate ==
    /\ slotPc = "invalidate"
    /\ Put([slotImage EXCEPT !.marker = 0])
    /\ slotPc' = IF PayloadSize > 0 THEN "payload" ELSE "validate"
    /\ UNCHANGED <<slotCall, slotResult, slotWriteThrough>>

WritePayload ==
    /\ slotPc = "payload"
    /\ Put([slotImage EXCEPT !.payload = slotCall.payload])
    /\ slotPc' = "validate"
    /\ UNCHANGED <<slotCall, slotResult, slotWriteThrough>>

Validate ==
    /\ slotPc = "validate"
    /\ Put([slotImage EXCEPT !.marker = Marker])
    /\ slotPc' = "commit"
    /\ UNCHANGED <<slotCall, slotResult, slotWriteThrough>>

Clear ==
    /\ slotPc = "idle"
    /\ slotPc' = "clearMarker"
    /\ slotCall' = [op |-> "clear", payload |-> Mixed, outcome |-> "pending"]
    /\ slotResult' = NoResult
    /\ UNCHANGED <<slotMedia, slotImage, slotWriteThrough>>

ClearMarker ==
    /\ slotPc = "clearMarker"
    /\ Put([slotImage EXCEPT !.marker = 0])
    /\ slotPc' = "clearCommit"
    /\ UNCHANGED <<slotCall, slotResult, slotWriteThrough>>

Commit ==
    /\ slotPc \in {"commit", "clearCommit"}
    /\ slotMedia' = slotImage
    /\ slotPc' = "idle"
    /\ slotCall' = [slotCall EXCEPT !.outcome = "success"]
    /\ UNCHANGED <<slotImage, slotResult, slotWriteThrough>>

(***************************************************************************)
(* What a backend call that does not complete may leave: of one byte the   *)
(* old or the new value, of a payload also a mixture of the two.           *)
(***************************************************************************)
Incomplete ==
    CASE slotPc \in {"invalidate", "clearMarker"} ->
                           {slotImage, [slotImage EXCEPT !.marker = 0]}
      [] slotPc = "payload" -> {[slotImage EXCEPT !.payload = b] :
                                b \in {slotImage.payload, Mixed, slotCall.payload}}
      [] slotPc = "validate" -> {slotImage, [slotImage EXCEPT !.marker = Marker]}
      [] OTHER -> {slotImage}

(***************************************************************************)
(* The first backend error ends the method.                                *)
(***************************************************************************)
BackendFails ==
    /\ slotPc \notin {"idle", "off"}
    /\ \/ \E slot \in Incomplete : Put(slot)
       \/ /\ slotPc \in {"commit", "clearCommit"}
          /\ slotMedia' \in {slotMedia, slotImage}
          /\ UNCHANGED slotImage
    /\ slotPc' = "idle"
    /\ slotCall' = [slotCall EXCEPT !.outcome = "unknown"]
    /\ UNCHANGED <<slotResult, slotWriteThrough>>

(***************************************************************************)
(* load() of a slot whose two reads succeed, and of one where a read       *)
(* fails.                                                                  *)
(***************************************************************************)
Load ==
    /\ slotPc = "idle"
    /\ slotResult' \in {IF slotValid(slotImage)
                    THEN [status |-> "Success", payload |-> slotImage.payload]
                    ELSE [status |-> "Busy", payload |-> Mixed],
                    [status |-> "DataError", payload |-> Mixed]}
    /\ UNCHANGED <<slotMedia, slotImage, slotPc, slotCall, slotWriteThrough>>

(***************************************************************************)
(* store() with another size or without a payload, load() into a smaller   *)
(* buffer or none.                                                         *)
(***************************************************************************)
BadArgument ==
    /\ slotPc = "idle"
    /\ slotResult' = [status |-> "InvalidArgument", payload |-> Mixed]
    /\ UNCHANGED <<slotMedia, slotImage, slotPc, slotCall, slotWriteThrough>>

PowerLoss ==
    /\ slotPc # "off"
    /\ slotMedia' \in IF slotWriteThrough THEN Incomplete
                  ELSE IF slotPc \in {"commit", "clearCommit"} THEN {slotMedia, slotImage}
                  ELSE {slotMedia}
    /\ slotImage' = slotMedia'
    /\ slotPc' = "off"
    /\ slotCall' = [slotCall EXCEPT !.outcome =
                    IF @ = "pending" THEN "unknown" ELSE @]
    /\ slotResult' = NoResult
    /\ UNCHANGED slotWriteThrough

PowerOn ==
    /\ slotPc = "off"
    /\ slotPc' = "idle"
    /\ UNCHANGED <<slotMedia, slotImage, slotCall, slotResult, slotWriteThrough>>

SlotNext ==
    \/ \E p \in SlotPayload : Store(p)
    \/ Invalidate \/ WritePayload \/ Validate
    \/ Clear \/ ClearMarker
    \/ Commit \/ BackendFails
    \/ Load \/ BadArgument
    \/ PowerLoss \/ PowerOn

SlotSpec == SlotInit /\ [][SlotNext]_slotVars

-----------------------------------------------------------------------------
(***************************************************************************)
(* A valid marker never stands before bytes that are no payload, neither   *)
(* on the media at any moment power may be lost, nor in what the firmware  *)
(* reads after an error: there is no checksum that would notice.           *)
(***************************************************************************)
MarkerMeansWhole ==
    PayloadSize > 0 => /\ slotValid(slotMedia) => slotMedia.payload # Mixed
                       /\ slotValid(slotImage) => slotImage.payload # Mixed

(***************************************************************************)
(* After store() has returned Success the media hold that payload, after   *)
(* clear() no valid one, through restarts and until the next call.         *)
(***************************************************************************)
SlotAcknowledged ==
    slotCall.outcome = "success" =>
        IF slotCall.op = "clear" THEN ~slotValid(slotMedia)
        ELSE slotValid(slotMedia) /\ (PayloadSize > 0 => slotMedia.payload = slotCall.payload)

(***************************************************************************)
(* A payload that was invalidated on the media does not come back: the     *)
(* slot becomes valid again only with the payload of the store() that is   *)
(* running.                                                                *)
(***************************************************************************)
NoResurrection ==
    [][~slotValid(slotMedia) /\ slotValid(slotMedia') =>
          /\ slotCall.op = "store" /\ slotCall.outcome = "pending"
          /\ PayloadSize > 0 => slotMedia'.payload = slotCall.payload]_slotVars

-----------------------------------------------------------------------------
(***************************************************************************)
(* All three hold for every payload and marker.  The invariant says what   *)
(* is in the image at each step of a method: the marker is invalid from    *)
(* the first write of store() to the last, which comes when the payload is *)
(* whole; what commit() publishes is what was asked for.                   *)
(***************************************************************************)
Storing == slotPc \in {"invalidate", "payload", "validate", "commit"}
Clearing == slotPc \in {"clearMarker", "clearCommit"}

StepOK ==
    /\ Storing => /\ slotCall.op = "store" /\ slotCall.outcome = "pending"
                  /\ slotCall.payload \in SlotPayload
    /\ Clearing => slotCall.op = "clear" /\ slotCall.outcome = "pending"
    /\ ~Storing /\ ~Clearing => slotCall.outcome # "pending"
    /\ slotPc \in {"payload", "validate", "clearCommit"} => ~slotValid(slotImage)
    /\ slotPc = "commit" => slotValid(slotImage)
    /\ slotPc \in {"validate", "commit"} /\ PayloadSize > 0 =>
           slotImage.payload = slotCall.payload

SlotInv ==
    /\ SlotTypeOK /\ StepOK
    /\ slotWriteThrough => slotMedia = slotImage
    /\ MarkerMeansWhole /\ SlotAcknowledged

\* The step of a run that brings a payload back.
Resurrects ==
    /\ ~slotValid(slotMedia) /\ slotValid(slotMedia')
    /\ ~(/\ slotCall.op = "store" /\ slotCall.outcome = "pending"
         /\ PayloadSize > 0 => slotMedia'.payload = slotCall.payload)

LEMMA SlotInvInit == SlotInit => SlotInv
  BY SlotAssumption DEF SlotInit, SlotInv, SlotTypeOK, StepOK, Storing, Clearing, Slot,
         slotValid, NoResult, MarkerMeansWhole, SlotAcknowledged

LEMMA SlotInvNext ==
    ASSUME SlotInv, [SlotNext]_slotVars PROVE SlotInv' /\ ~Resurrects
  <1>. USE SlotAssumption DEF SlotInv, SlotTypeOK, StepOK, Storing, Clearing, Slot,
               slotValid, NoResult, MarkerMeansWhole, SlotAcknowledged, Resurrects, Put
  <1>1. CASE \E p \in SlotPayload : Store(p)
    BY <1>1 DEF Store
  <1>2. CASE Invalidate
    BY <1>2 DEF Invalidate
  <1>3. CASE WritePayload
    BY <1>3 DEF WritePayload
  <1>4. CASE Validate
    BY <1>4 DEF Validate
  <1>5. CASE Clear
    BY <1>5 DEF Clear
  <1>6. CASE ClearMarker
    BY <1>6 DEF ClearMarker
  <1>7. CASE Commit
    BY <1>7 DEF Commit
  <1>8. CASE BackendFails
    BY <1>8 DEF BackendFails, Incomplete
  <1>9. CASE Load \/ BadArgument
    BY <1>9 DEF Load, BadArgument
  <1>10. CASE PowerLoss
    BY <1>10 DEF PowerLoss, Incomplete
  <1>11. CASE PowerOn
    BY <1>11 DEF PowerOn
  <1>12. CASE UNCHANGED slotVars
    BY <1>12 DEF slotVars
  <1>. QED
    BY <1>1, <1>2, <1>3, <1>4, <1>5, <1>6, <1>7, <1>8, <1>9, <1>10, <1>11, <1>12 DEF SlotNext

LEMMA SlotInvHolds == SlotSpec => []SlotInv
  BY SlotInvInit, SlotInvNext, PTL DEF SlotSpec

(***************************************************************************)
(* A valid marker stands before a whole payload, at every moment at which  *)
(* power may be lost.                                                      *)
(***************************************************************************)
THEOREM MarkerIsHonest == SlotSpec => []MarkerMeansWhole
  <1>1. SlotInv => MarkerMeansWhole
    BY DEF SlotInv
  <1>. QED
    BY <1>1, SlotInvHolds, PTL

(***************************************************************************)
(* What store() or clear() acknowledged is what the media hold.            *)
(***************************************************************************)
THEOREM AcknowledgedStays == SlotSpec => []SlotAcknowledged
  <1>1. SlotInv => SlotAcknowledged
    BY DEF SlotInv
  <1>. QED
    BY <1>1, SlotInvHolds, PTL

(***************************************************************************)
(* Nothing but the running store() makes the slot valid again.             *)
(***************************************************************************)
THEOREM NothingComesBack == SlotSpec => NoResurrection
  <1>1. SlotInv /\ [SlotNext]_slotVars => [~Resurrects]_slotVars
    BY SlotInvNext
  <1>2. [~Resurrects]_slotVars =>
            [~slotValid(slotMedia) /\ slotValid(slotMedia') =>
                /\ slotCall.op = "store" /\ slotCall.outcome = "pending"
                /\ PayloadSize > 0 => slotMedia'.payload = slotCall.payload]_slotVars
    BY DEF Resurrects
  <1>. QED
    BY <1>1, <1>2, SlotInvHolds, PTL DEF SlotSpec, NoResurrection
=============================================================================
