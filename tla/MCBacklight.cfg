SPECIFICATION FairSpec
CONSTANTS
    NONE = NONE
    AUTO = AUTO
    Devices <- MCDevices
    Rank <- MCRank
    NameOrder <- MCNameOrder
    MaxRaw = 4
    Percents <- MCPercents
    Tunings <- MCTunings
INVARIANTS BrightnessComesBack DimsWithinBounds
PROPERTIES CallsReturn
CHECK_DEADLOCK FALSE
