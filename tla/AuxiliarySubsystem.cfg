SPECIFICATION FairSpec
CONSTANTS
    t1 = t1
    t2 = t2
    u1 = u1
    Tanques <- DoisTanques
    Nenhum = Nenhum
    Usuarios <- UmUsuario
    Ninguem = Ninguem
    Escalonador = Escalonador
    Eventos = {"perda", "queda", "silencio", "vencimento", "pausa", "encerramento"}
    Regimes <- TresModos
INVARIANTS
    TypeOK
    OneTankOnTheLine

PROPERTIES
    ClosureNotUndone
    StrayLineCloses
CHECK_DEADLOCK FALSE
