SPECIFICATION Spec
CONSTANTS
    p1 = p1
    p2 = p2
    r1 = r1
    r2 = r2
    Processos <- DoisProcessos
    NenhumProcesso = nenhum
    Requests <- DoisPedidos
    Recuperador = recuperador
    Encerrador = encerrador
    Cenarios <- Operacao
SYMMETRY ProcessAndRequestSymmetry
INVARIANTS
    TypeOK
    PumpHasOwner
PROPERTIES
    FailedStartupIsSafe
    EmergencyPersists
    StartedAsConfirmedUndisturbed
