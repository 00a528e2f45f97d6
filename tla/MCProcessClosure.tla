-------------------------- MODULE MCProcessClosure --------------------------
(* Model values and scenarios for the runs of ProcessClosure. *)
EXTENDS ProcessClosure, TLC

CONSTANTS t1, t2

DoisTanques == {t1, t2}

Cenario(ts, c, a, n, ops) ==
    [tanques |-> ts, controlador |-> c, automatico |-> a, eventos |-> n, operacoes |-> ops]
\* On the ESP32 and on the simulator, one tank that meets failures and requests;
\* a manual closure whose telemetry stops; two tanks that close side by side; a
\* main valve moved by hand.
Processos ==
    {Cenario({t1}, "esp32", TRUE, 2, {"pausa", "retomada", "interrupcao", "perda", "queda"}),
     Cenario({t1}, "simulador", TRUE, 2, {"pausa", "retomada", "auxilio", "perda", "queda"}),
     Cenario({t1}, "simulador", FALSE, 3, {"perda", "queda", "silencio"}),
     Cenario({t1, t2}, "simulador", TRUE, 1, {"conclusao", "emergencia"}),
     Cenario({t1}, "esp32", TRUE, 1, {"valvula"}),
     Cenario({t1}, "simulador", TRUE, 1, {"valvula"})}
=============================================================================
