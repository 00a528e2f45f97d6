SPECIFICATION Spec
CONSTANTS
    Tanks = {1, 2, 3}
    Configs <- MCConfigs
    SensorsConfirmed = TRUE
    ExpanderFailureLimit = 2
INVARIANTS
    TypeOK
    LatchedMeansOff
    OnlySelectedEnergised
    AuxiliaryInterlock
    MainPumpHasLine
    SafeAfterCheck
    TimeoutNeverMasked
