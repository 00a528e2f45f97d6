SPECIFICATION Spec
CONSTANTS
  p1 = p1
  p2 = p2
  Pedidos = {p1, p2}
  Inicio = Inicio
  Nenhum = Nenhum
  Antiga = Antiga
  Nova = Nova
  DoBackup = DoBackup
  CredAntiga = CredAntiga
  CredNova = CredNova
  Cenarios <- Todas
  MaxEventos = 2
SYMMETRY Simetria
INVARIANTS TypeOK VerifiedWasAccepted LeaseSparesProcess QuietStatusAgrees
PROPERTIES UpdateConfirmed FailedUpdateKeepsConfig
