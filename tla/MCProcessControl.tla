-------------------------- MODULE MCProcessControl --------------------------
(* ProcessControl for TLC: processes are interchangeable, and so are the    *)
(* concurrent requests; the scenarios of its runs.                          *)
EXTENDS ProcessControl, TLC

CONSTANTS p1, p2, r1, r2

DoisProcessos == {p1, p2}
DoisPedidos == {r1, r2}
ProcessAndRequestSymmetry == Permutations(Processos) \cup Permutations(Requests)

Cenario(ps, rs, n, ops, falhas, restam) ==
    [processos |-> ps, requests |-> rs, tanques |-> n, operacoes |-> ops,
     falhas |-> falhas, restam |-> restam]

\* Two processes that contend for the controller and for the update lease; two
\* requests on one process and an emergency; every lifecycle request, one at
\* a time, with every kind of failure; a process edited while it starts; the
\* emergencies of clients and of the controller, recorded or not.
Operacao ==
    {Cenario({p1, p2}, {r1, r2}, 2, {"partida", "mqtt"}, {"queda", "perda"}, 3),
     Cenario({p1}, {r1, r2}, 2, {"partida", "emergencia"}, {"queda", "perda"}, 3),
     Cenario({p1, p2}, {r1}, 1, {"partida", "emergencia", "pausa", "retomada", "conclusao",
                                 "interrupcao"}, {"perda", "reset", "local", "queda"}, 1),
     Cenario({p1}, {r1}, 2, {"partida", "edicao"}, {"queda", "perda"}, 1),
     Cenario({p1}, {r1, r2}, 1, {"partida", "emergencia", "geral", "controlador"},
             {"botao", "banco", "queda"}, 1)}

\* One startup that loses two commands; one process paused and resumed without a
\* failure; an interruption beside an emergency.
UmaPartida == {Cenario({p1}, {r1}, 1, {"partida"}, {"perda"}, 2)}
UmaPausa == {Cenario({p1}, {r1}, 1, {"partida", "pausa", "retomada"}, {}, 0)}
Interrompida == {Cenario({p1}, {r1, r2}, 1, {"partida", "interrupcao", "emergencia"}, {}, 0)}
=============================================================================
