--------------------------- MODULE MCTankMonitor ---------------------------
(* The scenarios of the run of TankMonitor. *)
EXTENDS TankMonitor, TLC

Cenario(ks, ops, p, f, s) ==
    [leituras |-> ks, operacoes |-> ops, pausas |-> p, falhas |-> f, passos |-> s]
Supervisao == {
    \* Readings in and out of tolerance, with a pause and a failure of the monitor.
    Cenario({"fora", "faixa"}, {"pausa"}, 1, 1, 0),
    \* A calibration that is renewed, or expires.
    Cenario({"fora"}, {"calibracao", "vencimento"}, 0, 0, 0),
    \* Readings that fail their assessment, and a technician at work around the start
    \* and, where it is interrupted meanwhile, around a resume.
    Cenario({"anomala", "diagnostico"}, {"calibracao", "fim"}, 0, 0, 0),
    Cenario({"anomala"}, {"desativacao", "fim", "pausa"}, 1, 0, 0),
    \* A tank that makes no progress, with a pause, with the ends of the process, and
    \* with the stages of its closure.
    Cenario({"fora"}, {"detector", "pausa"}, 1, 0, 0),
    Cenario({"fora"}, {"detector", "fim", "emergencia"}, 0, 0, 0),
    Cenario({"fora", "faixa"}, {"detector"}, 0, 0, 4)}
=============================================================================
