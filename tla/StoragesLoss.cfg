SPECIFICATION StoragesSpec
CONSTANTS
    none = none
    p = p
    q = q
    empty = empty
    big = big
    Payload <- MCPayload
    NoPayload = none
    Size <- MCSize
    MaximumPayloadSize = 1
    SignBit = 2
    Version <- MCVersion
    Capacity <- MCCapacity
    Image <- MCImage
    Blank <- MCBlank
    PartOf <- MCPartOf
    Missing = Missing
    Torn = Torn
    SlotPayload <- MCSlotPayload
    Mixed = Mixed
    PayloadSize = 1
    Marker = 170
    ErasedValue = 255
PROPERTY StoreKeepsLastGood
