------------------------------ MODULE MCStorages ------------------------------
(***************************************************************************)
(* Storages with an empty payload, one of one byte and one that is too     *)
(* large, one schema version and sequence numbers of two bits; the slot    *)
(* with two payloads of one byte.                                          *)
(***************************************************************************)
EXTENDS Storages

CONSTANTS none, p, q, empty, big

MCPayload == {p, empty, big}
MCSize == [x \in MCPayload |-> CASE x = empty -> 0 [] x = big -> 2 [] OTHER -> 1]
MCVersion == {1}
MCCapacity == {0, 1}
MCSlotPayload == {p, q}

MCSlot == [intact : BOOLEAN, schemaVersion : MCVersion \cup {0},
           sequence : 0 .. 3, crcOf : MCPayload \cup {none},
           payload : MCPayload \cup {none}]
MCErased == [intact |-> FALSE, schemaVersion |-> 0, sequence |-> 0,
             crcOf |-> none, payload |-> none]
MCImage == [{0, 1} -> MCSlot]
MCPartOf(image) == PartlyRead(image)
MCBlank == [i \in {0, 1} |-> MCErased]
=============================================================================
