SPECIFICATION PanelSpec
CONSTANTS
    Event = {1, 2}
    NoEvent = NoEvent
    Capacity = 3
    MaxDropped = 2
    TimeModulus = 7
    CountModulus = 2
    DebounceTime = 2
    MaxGap = 5
    LongPressMs = 3
    DoublePressMs = 2
    RepeatDelayMs = 4
    RepeatIntervalMs = 2
    MaxPressGap = 2
    MaxUnreported = 2
    TransitionsPerDetent = 4
    Minimum <- LowestValue
    Maximum = 1
    Step <- StepSize
    MaxTurn = 5
    MaxMissed = 1
    MaxInvalid = 2
    Detents <- SomeDetents
    expectedCodes <- LadderCodes
    openThreshold = 6
    acceptanceWindow = 1
    stableTimeMs = 2
    MaxCode = 6
    MaxLadderGap = 3
    Pole = {0, 1}
    PulseMs = 3
    MaxPulseGap = 4
    GateVolts = {0, 1, 2, 3, 4}
    lowMaximum = 1
    highMinimum = 3
    lowVolts = 0
    highVolts = 4
    MaxPosition = 6
    tolerance = 1
    fastThresholdMs = 1
    mediumThresholdMs = 3
    fastMultiplier = 8
    mediumMultiplier = 3
    DetentCounts = {0, 1}
    MaxPause = 8
    MaxRaw = 6
    Unit = 20
    Controls <- SomeControls
    Settled = 20
    Volts <- SomeVolts
    Ranges <- SomeRanges
    Calibrations <- SomeCalibrations
    Full = 3
    Channel = {red, blue}
    red = red
    blue = blue
    Colors <- SomeColors
    MaxTransitions = 3
INVARIANTS
    ButtonIsTrue PositionIsTrue MaskIsAnnounced
    GesturesAreTrue TurnsAreAccountedFor
    LadderEventsAreTrue TriggersArriveOnce PickupIsEarned SpeedIsReal
    KnobFollowsInput CodeIsNearest PinsShowTheLed
PROPERTY ImplementsFifo
