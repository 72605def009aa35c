---------------------------- MODULE MCRecordStore ----------------------------
(***************************************************************************)
(* RecordStore with an empty payload, two of one byte and one that is      *)
(* larger than a slot; two schema versions; sequence numbers of two bits.  *)
(***************************************************************************)
EXTENDS RecordStore, TLC

CONSTANTS none, p, q, big, empty

MCPayload == {p, q, big, empty}
MCSymmetry == Permutations({p, q})
MCSize == [x \in MCPayload |-> CASE x = empty -> 0 [] x = big -> 2 [] OTHER -> 1]
MCVersion == {1, 2}
MCCapacity == {0, 1}
=============================================================================
