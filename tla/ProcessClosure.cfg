SPECIFICATION FairSpec
CONSTANTS
    t1 = t1
    t2 = t2
    Tanques <- DoisTanques
    Nenhum = nenhum
    Cenarios <- Processos
INVARIANTS
    TypeOK
    RetentionIsIsolatedUndisturbed
PROPERTIES
    ConclusionIsSafe
    EndedProcessKeepsTanks
    IsolationSettlesUnaided
CHECK_DEADLOCK FALSE
