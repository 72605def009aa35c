----------------------------- MODULE FileStorage -----------------------------
(***************************************************************************)
(* The file-backed storage backend (eurorack::storage::FileStorage).       *)
(* read(), write() and erase() work on an image in memory; commit() writes *)
(* it to <path>.tmp, removes <path> and renames the one to the other.  The *)
(* program may be stopped between any two of these calls, and each of them *)
(* may fail.  The file system itself is external: create, remove and       *)
(* rename are taken to be indivisible and ordered, and only the contents   *)
(* of a file being written can be partial.                                 *)
(*                                                                         *)
(* The bytes of an image are abstracted to a member of Image.              *)
(***************************************************************************)
EXTENDS TLAPS

CONSTANTS Image,    \* the contents the region may have
          Blank,    \* every byte has erasedValue
          Missing,  \* no such file
          Torn,     \* a file whose contents were not completely written
          PartOf(_) \* the images a read of this one that stops part-way leaves

ASSUME ImageAssumption ==
    Blank \in Image /\ {Missing, Torn} \cap Image = {} /\ Missing # Torn

ASSUME PartOfAssumption == \A image \in Image : PartOf(image) \subseteq Image

VARIABLES
    disk,       \* the file at path_
    temporary,  \* the file at path_ + ".tmp"
    bytes,      \* bytes_: the staged image
    dirty,      \* dirty_
    ready,      \* ready_
    readInPart, \* history: bytes_ comes from a read that stopped part-way,
                \* and nothing has been saved since
    step,       \* "none", or what commit() is about to do; "closed" when
                \* there is no FileStorage object
    outcome     \* what the last operation that returned reported

fileVars == <<disk, temporary, bytes, dirty, ready, readInPart, step, outcome>>

FileTypeOK ==
    /\ disk \in Image \cup {Missing, Torn}
    /\ temporary \in Image \cup {Missing, Torn}
    /\ bytes \in Image
    /\ dirty \in BOOLEAN
    /\ ready \in BOOLEAN
    /\ readInPart \in BOOLEAN
    /\ step \in {"closed", "none", "open", "write", "remove", "rename", "cleanup"}
    /\ outcome \in {"None", "Success", "InvalidArgument", "DataError"}

(***************************************************************************)
(* What loadExisting() finds: a file that does not exist is a blank image. *)
(* The temporary file is never looked at.                                  *)
(***************************************************************************)
Restart == IF disk = Missing THEN Blank ELSE disk

FileInit ==
    /\ disk = Missing
    /\ temporary = Missing
    /\ bytes = Blank
    /\ dirty = FALSE
    /\ ready = FALSE
    /\ readInPart = FALSE
    /\ step = "closed"
    /\ outcome = "None"

(***************************************************************************)
(* The constructor.  An error before the file is open makes an object that *)
(* is not ready; its image is blank.  An error while the open file is read *)
(* is not looked for: the object is ready, with the bytes that arrived and *)
(* erased ones for the others, as if the file were that short.             *)
(***************************************************************************)
OpenWhole == ready' = TRUE /\ bytes' = Restart /\ readInPart' = FALSE
OpenFails == ready' = FALSE /\ bytes' = Blank /\ readInPart' = FALSE
OpenInPart == /\ disk # Missing
              /\ ready' = TRUE /\ bytes' \in PartOf(disk) /\ readInPart' = TRUE

Open ==
    /\ step = "closed"
    /\ step' = "none"
    /\ dirty' = FALSE
    /\ outcome' = "None"
    /\ OpenWhole \/ OpenFails \/ OpenInPart
    /\ UNCHANGED <<disk, temporary>>

(***************************************************************************)
(* Faulty: a call that changes nothing makes a dirty image clean.          *)
(***************************************************************************)
WriteForgetsDirty(image) ==
    /\ step = "none" /\ ready
    /\ bytes' = image
    /\ dirty' = (image # bytes)
    /\ outcome' = "Success"
    /\ UNCHANGED <<disk, temporary, ready, readInPart, step>>

(***************************************************************************)
(* write() and erase(): the image becomes dirty only when a byte changes.  *)
(***************************************************************************)
Write(image) ==
    /\ step = "none" /\ ready
    /\ bytes' = image
    /\ dirty' = (dirty \/ image # bytes)
    /\ outcome' = "Success"
    /\ UNCHANGED <<disk, temporary, ready, readInPart, step>>

(***************************************************************************)
(* Any operation on an object that is not ready, and a write() or erase()  *)
(* outside the region or from a null pointer.                              *)
(***************************************************************************)
Refused ==
    /\ step = "none"
    /\ outcome' = IF ready THEN "InvalidArgument" ELSE "DataError"
    /\ UNCHANGED <<disk, temporary, bytes, dirty, ready, readInPart, step>>

(***************************************************************************)
(* commit() of an image that is not dirty touches no file.                 *)
(***************************************************************************)
CommitClean ==
    /\ step = "none" /\ ready /\ ~dirty
    /\ outcome' = "Success"
    /\ UNCHANGED <<disk, temporary, bytes, dirty, ready, readInPart, step>>

CommitBegin ==
    /\ step = "none" /\ ready /\ dirty
    /\ step' = "open"
    /\ outcome' = "None"
    /\ UNCHANGED <<disk, temporary, bytes, dirty, ready, readInPart>>

(***************************************************************************)
(* Faulty: a complete temporary file of an earlier commit is used again.  *)
(***************************************************************************)
OpenReusingTemporary ==
    /\ step = "open"
    /\ temporary' = IF temporary \in Image THEN temporary ELSE Torn
    /\ step' = IF temporary \in Image THEN "remove" ELSE "write"
    /\ UNCHANGED <<disk, bytes, dirty, ready, readInPart, outcome>>

(***************************************************************************)
(* create_directories() and the opening of the temporary file, which       *)
(* truncates it.                                                           *)
(***************************************************************************)
OpenTemporary ==
    /\ step = "open"
    /\ temporary' = Torn
    /\ step' = "write"
    /\ UNCHANGED <<disk, bytes, dirty, ready, readInPart, outcome>>

(***************************************************************************)
(* Faulty: the stream is not flushed before the file is renamed.           *)
(***************************************************************************)
WriteUnflushed ==
    /\ step = "write"
    /\ temporary' = Torn
    /\ step' = "remove"
    /\ UNCHANGED <<disk, bytes, dirty, ready, readInPart, outcome>>

WriteTemporary ==
    /\ step = "write"
    /\ temporary' = bytes
    /\ step' = "remove"
    /\ UNCHANGED <<disk, bytes, dirty, ready, readInPart, outcome>>

(***************************************************************************)
(* Faulty: the image counts as clean although it was not saved.            *)
(***************************************************************************)
WriteFailsClean ==
    /\ step \in {"open", "write"}
    /\ step' = "none"
    /\ outcome' = "DataError"
    /\ dirty' = FALSE
    /\ UNCHANGED <<disk, temporary, bytes, ready, readInPart>>

(***************************************************************************)
(* Creating, opening or writing the temporary file fails.                  *)
(***************************************************************************)
WriteFails ==
    /\ step \in {"open", "write"}
    /\ step' = "none"
    /\ outcome' = "DataError"
    /\ UNCHANGED <<disk, temporary, bytes, dirty, ready, readInPart>>

(***************************************************************************)
(* remove(target): its error is ignored.                                   *)
(***************************************************************************)
RemoveTarget ==
    /\ step = "remove"
    /\ disk' \in {disk, Missing}
    /\ step' = "rename"
    /\ UNCHANGED <<temporary, bytes, dirty, ready, readInPart, outcome>>

Rename ==
    /\ step = "rename"
    /\ disk' = temporary
    /\ temporary' = Missing
    /\ dirty' = FALSE
    /\ readInPart' = FALSE
    /\ step' = "none"
    /\ outcome' = "Success"
    /\ UNCHANGED <<bytes, ready>>

RenameFails ==
    /\ step = "rename"
    /\ step' = "cleanup"
    /\ UNCHANGED <<disk, temporary, bytes, dirty, ready, readInPart, outcome>>

(***************************************************************************)
(* The temporary file is removed too; the error of that is ignored.        *)
(***************************************************************************)
Cleanup ==
    /\ step = "cleanup"
    /\ temporary' \in {temporary, Missing}
    /\ step' = "none"
    /\ outcome' = "DataError"
    /\ UNCHANGED <<disk, bytes, dirty, ready, readInPart>>

(***************************************************************************)
(* The program ends or is stopped, inside commit() too; there is no        *)
(* destructor that commits.                                                *)
(***************************************************************************)
Stop ==
    /\ step # "closed"
    /\ step' = "closed"
    /\ bytes' = Blank
    /\ dirty' = FALSE
    /\ ready' = FALSE
    /\ readInPart' = FALSE
    /\ outcome' = "None"
    /\ UNCHANGED <<disk, temporary>>

CommitStep == \/ OpenTemporary \/ WriteTemporary \/ WriteFails
              \/ RemoveTarget \/ Rename \/ RenameFails \/ Cleanup

FileNext == \/ Open
            \/ \E image \in Image : Write(image)
            \/ Refused
            \/ CommitClean \/ CommitBegin \/ CommitStep
            \/ Stop

FileSpec == FileInit /\ [][FileNext]_fileVars

-----------------------------------------------------------------------------
(***************************************************************************)
(* The object's idea of "nothing to commit": a ready object that is not    *)
(* dirty shows exactly what a restart would load, unless its constructor's *)
(* read of the file stopped part-way; then it shows the part that arrived, *)
(* and nothing but a commit() of a changed image puts an end to that.  It  *)
(* is what makes it right, after a whole read, for commit() to return at   *)
(* once, and it must survive failed commits, which have touched the files. *)
(***************************************************************************)
CleanMeansOnDisk ==
    ready /\ ~dirty => IF readInPart THEN bytes \in PartOf(disk)
                                     ELSE bytes = Restart

(***************************************************************************)
(* A restart never loads a half-written image: whatever was interrupted,   *)
(* path_ names a complete image or nothing.                                *)
(***************************************************************************)
NeverTorn == disk # Torn

-----------------------------------------------------------------------------
(***************************************************************************)
(* Both hold for every set of images.  What makes them inductive is where  *)
(* commit() stands: as long as it runs the object is dirty, and from the   *)
(* moment path_ is touched the temporary file is the whole staged image.   *)
(***************************************************************************)
CommitInv ==
    /\ FileTypeOK /\ NeverTorn /\ CleanMeansOnDisk
    /\ step \notin {"closed", "none"} => ready /\ dirty
    /\ step \in {"remove", "rename"} => temporary = bytes

LEMMA CommitInvInit == FileInit => CommitInv
  BY ImageAssumption
     DEF FileInit, CommitInv, FileTypeOK, NeverTorn, CleanMeansOnDisk, Restart

LEMMA CommitInvNext == CommitInv /\ [FileNext]_fileVars => CommitInv'
  <1>. SUFFICES ASSUME CommitInv, [FileNext]_fileVars PROVE CommitInv'
    OBVIOUS
  <1>. USE ImageAssumption
           DEF CommitInv, FileTypeOK, NeverTorn, CleanMeansOnDisk, Restart
  <1>1. CASE Open
    BY <1>1, PartOfAssumption DEF Open, OpenWhole, OpenFails, OpenInPart
  <1>2. CASE \E image \in Image : Write(image)
    <2>1. PICK image \in Image : Write(image)
      BY <1>2
    <2>2. ~dirty' => ~dirty /\ bytes' = bytes
      BY <2>1 DEF Write
    <2>3. step = "none" /\ bytes' \in Image /\ dirty' \in BOOLEAN
          /\ outcome' = "Success"
          /\ UNCHANGED <<disk, temporary, ready, readInPart, step>>
      BY <2>1 DEF Write
    <2>. QED
      BY <2>2, <2>3
  <1>3. CASE Refused
    BY <1>3 DEF Refused
  <1>4. CASE CommitClean \/ CommitBegin
    BY <1>4 DEF CommitClean, CommitBegin
  <1>5. CASE OpenTemporary
    BY <1>5 DEF OpenTemporary
  <1>6. CASE WriteTemporary
    BY <1>6 DEF WriteTemporary
  <1>7. CASE WriteFails
    BY <1>7 DEF WriteFails
  <1>8. CASE RemoveTarget
    BY <1>8 DEF RemoveTarget
  <1>9. CASE Rename
    BY <1>9 DEF Rename
  <1>10. CASE RenameFails \/ Cleanup
    BY <1>10 DEF RenameFails, Cleanup
  <1>11. CASE Stop
    BY <1>11 DEF Stop
  <1>12. CASE UNCHANGED fileVars
    BY <1>12 DEF fileVars
  <1>. QED
    BY <1>1, <1>2, <1>3, <1>4, <1>5, <1>6, <1>7, <1>8, <1>9, <1>10, <1>11, <1>12
       DEF FileNext, CommitStep

LEMMA CommitInvHolds == FileSpec => []CommitInv
  BY CommitInvInit, CommitInvNext, PTL DEF FileSpec

(***************************************************************************)
(* A ready object that is not dirty shows what a restart would load, or    *)
(* the part of it that its constructor read, for every size of the storage *)
(* and whatever steps of commit() fail.                                    *)
(***************************************************************************)
THEOREM CleanIsOnDisk == FileSpec => []CleanMeansOnDisk
  <1>1. CommitInv => CleanMeansOnDisk
    BY DEF CommitInv
  <1>. QED
    BY <1>1, CommitInvHolds, PTL

(***************************************************************************)
(* No restart loads a half-written image, wherever commit() was stopped.   *)
(***************************************************************************)
THEOREM DiskIsWhole == FileSpec => []NeverTorn
  <1>1. CommitInv => NeverTorn
    BY DEF CommitInv
  <1>. QED
    BY <1>1, CommitInvHolds, PTL
=============================================================================
