SPECIFICATION Spec
SYMMETRY CallerSymmetry
CONSTANTS
    Ids = {a}
    Callers = {c1, c2}
    NoId = NoId
    MaxRecentAcks = 1
    RecentCommandCount = 1
    MaxTentativas = 2
    Falhas = {"queda", "restart"}
    MaxFalhas = 2
    FinalAcks = {"EXECUTADO", "RECUSADO"}
INVARIANTS
    TypeOK
    SuccessMeansExecuted
    PublicationsWithinAttempts
    AtMostOncePerBoot
PROPERTIES
    NoAttemptOverFinalAck
    ImplementsChannel
