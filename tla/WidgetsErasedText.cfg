SPECIFICATION RigSpec
CONSTANTS
    Cells = 2
    Level = {0, 1}
    Dark = 0
    Startup = 2
    Noise = 9
    LastChannel = 3
    Code = {0, 1}
    PowerOnCode = 0
    Pages = 2
    Width = 3
    MaxChunk = 2
    ColumnOffset = 1
    Drawing = {d1, d2}
    Pin = {lowPin, highPin}
    BankA = {lowPin}
    Mask <- SomeMasks
    MaxUnreported = 2
    Answer = {a1, a2}
    Silence = Silence
    MaxQueued = 2
    MuxChannels = 4
    Connected = {1, 2}
    ADC_MAX_CODE = 5
    DAC_MAX_CODE = 9
    DeadZone = 1
    LedThreshold = 8
    LedRoundsToZero = 12
    OVERSAMPLE_COUNT = 2
    CvCode = {0, 4}
    PotCode = {0, 3, 4}
    LOOP_PERIOD_US = 2
    ReadTime = 1
    ClockRange = 8
    MUX_CHANNELS_USED = 2
    MuxCode = {0, 1}
    MaxOutages = 1
    CanvasWidth = 9
    CanvasHeight = 4
    Bits = 8
    GlyphWidth = 5
    GlyphHeight = 7
    horizontalSpacing = 1
    Shapes <- SomeShapes
    Clips <- SomeClips
    Texts <- SomeTexts
    MaxDrawn = 1
    Boxes <- SomeBoxes
    Lengths = {0, 4, 9}
    Messages <- SomeMessages
    Space = 0
    MaxItems = 6
    rowHeight = 9
    Quarters <- SomeQuarters
INVARIANT MenuItemsAreLegible
