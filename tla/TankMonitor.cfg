SPECIFICATION FairSpec
CONSTANTS
    Timeout = 1
    Validade = 2
    EmVoo = 2
    Operadores = {o1, o2}
    TempoEstabilizacao = 2
    LeiturasMinimas = 2
    Janelas = 2
    Cenarios <- Supervisao
INVARIANTS
    TypeOK
    SupervisedOrAlarmed
    StagnationAlarmAgrees
PROPERTIES
    StabilisedWasSteady
    SilentSensorIsAlarmed
    SteadyTankStabilises
