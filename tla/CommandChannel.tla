--------------------------- MODULE CommandChannel ---------------------------
(***************************************************************************)
(* What publishAndAwaitAck promises to its callers, whatever happens to    *)
(* the table, the broker and the two memories in between: a call under an  *)
(* idempotent id ends or is forgotten with the API, it ends well only if   *)
(* the controller has executed the id, and the controller executes an id   *)
(* at most once between two boots, however often it is retried.            *)
(*                                                                         *)
(* CommandLedger implements this module (its ImplementsChannel).           *)
(***************************************************************************)
EXTENDS Naturals

CONSTANTS Ids, Callers, NoId

VARIABLES
    chamada,     \* [Callers -> the id it asks for, and how far the call is]
    executados,  \* the ids that the controller has ever executed
    vezes        \* [Ids -> executions since the controller booted]

canal == <<chamada, executados, vezes>>

Livre == [id |-> NoId, estado |-> "livre"]

Init ==
    /\ chamada = [c \in Callers |-> Livre]
    /\ executados = {}
    /\ vezes = [i \in Ids |-> 0]

\* A caller that is not waiting asks for id i, new or retried.
Chamar(c, i) ==
    /\ chamada[c].estado # "em_curso"
    /\ chamada' = [chamada EXCEPT ![c] = [id |-> i, estado |-> "em_curso"]]
    /\ UNCHANGED <<executados, vezes>>

Executar(i) ==
    /\ vezes[i] = 0
    /\ vezes' = [vezes EXCEPT ![i] = 1]
    /\ executados' = executados \cup {i}
    /\ UNCHANGED chamada

Responder(c) ==
    /\ chamada[c].estado = "em_curso" /\ chamada[c].id \in executados
    /\ chamada' = [chamada EXCEPT ![c].estado = "executado"]
    /\ UNCHANGED <<executados, vezes>>

\* A refusal, a timeout, a lost connection: the caller does not know.
Falhar(c) ==
    /\ chamada[c].estado = "em_curso"
    /\ chamada' = [chamada EXCEPT ![c] = Livre]
    /\ UNCHANGED <<executados, vezes>>

ApiReinicia ==
    /\ chamada' = [c \in Callers |-> Livre]
    /\ UNCHANGED <<executados, vezes>>

ControladorReinicia ==
    /\ vezes' = [i \in Ids |-> 0]
    /\ UNCHANGED <<chamada, executados>>

Next ==
    \/ \E c \in Callers : Responder(c) \/ Falhar(c) \/ \E i \in Ids : Chamar(c, i)
    \/ \E i \in Ids : Executar(i)
    \/ ApiReinicia \/ ControladorReinicia

Spec == Init /\ [][Next]_canal
=============================================================================
