SPECIFICATION Spec
CONSTANTS
    t1 = t1
    t2 = t2
    u1 = u1
    Tanques <- DoisTanques
    Nenhum = Nenhum
    Usuarios <- UmUsuario
    Ninguem = Ninguem
    Escalonador = Escalonador
    Eventos = {}
    Regimes <- Assistido
INVARIANTS
    SingleValveInService
CHECK_DEADLOCK FALSE
