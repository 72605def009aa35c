SPECIFICATION AvrSpec
CONSTANTS
    MaxPending = 1
    MaxOverruns = 3
    Byte = 2
    Horizon = 4
    Channel = {INT0, INT1}
    MaxCount = 1
    EdgeHorizon = 3
    None = 3
SYMMETRY ChannelSymmetry
INVARIANTS TicksAccounted OverrunReadIsWhole NoEdgeLostUnflagged MedianIsOwn
