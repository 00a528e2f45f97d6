------------------------ MODULE MCAuxiliarySubsystem ------------------------
(* Model values for the runs of AuxiliarySubsystem. *)
EXTENDS AuxiliarySubsystem, TLC

CONSTANTS t1, t2, u1

DoisTanques == {t1, t2}
UmUsuario == {u1}
Simetria == Permutations(DoisTanques)

Regime(m, e, p) == [modo |-> m, eventos |-> e, pedidos |-> p]
TresModos == {Regime("AUTOMATICO", 1, 0), Regime("ASSISTIDO", 0, 1), Regime("MANUAL", 1, 2), Regime("AUTOMATICO", 0, 1)}
\* A person takes a valve and opens it, while the automation serves the queue.
Assistido == {Regime("ASSISTIDO", 0, 2)}
=============================================================================
