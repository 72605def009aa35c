SPECIFICATION Spec
CONSTANTS
    TimeModulus = 8
    LongPressMs = 3
    DoublePressMs = 2
    RepeatDelayMs = 4
    RepeatIntervalMs = 2
    MaxGap = 1
    MaxUnreported = 2
INVARIANT EveryClickReported
