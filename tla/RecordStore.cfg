SPECIFICATION Spec
CONSTANTS
    none = none
    p = p
    q = q
    big = big
    empty = empty
    Payload <- MCPayload
    NoPayload = none
    Size <- MCSize
    MaximumPayloadSize = 1
    SignBit = 2
    Version <- MCVersion
    Capacity <- MCCapacity
    ReadFaults = FALSE
SYMMETRY MCSymmetry
INVARIANTS SlotsAreNeighbours AcknowledgedIsDurable ReadYourWrites
PROPERTIES StoreKeepsLastGood ImplementsAtomicRecord
