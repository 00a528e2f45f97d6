--------------------------- MODULE ProcessControl ---------------------------
(***************************************************************************)
(* The control of the processes: the safe startup and its recovery         *)
(* scheduler, the lifecycle requests (pause, resume, finish, interrupt),   *)
(* the persisted emergency stop and the MQTT update lease that excludes a  *)
(* startup, all acting on the table `processos` and, through the MQTT      *)
(* orchestrator, on one ESP32.                                             *)
(*                                                                         *)
(* Every await of the code is a boundary between two actions: a database   *)
(* write, one MQTT command, one wait for telemetry.  The optimistic        *)
(* version partida_versao is modelled by the set `lido` of the actors      *)
(* whose expected version is the row's: a write that increments the        *)
(* version leaves in it only its author.  The ESP32 is reduced to its      *)
(* outputs, its latch and its process context (module Esp32Firmware has    *)
(* it in full), the command ledger to the answers that an id reused by a   *)
(* retry would find (module CommandLedger).                                *)
(***************************************************************************)
EXTENDS Naturals, FiniteSets

CONSTANTS Processos,      \* ids of the processes
          NenhumProcesso, \* no process
          Requests,       \* concurrent HTTP requests
          Recuperador,    \* the cron processo-startup-recovery
          Encerrador,     \* the cron of the general closure, for emergencies
          Cenarios        \* the bounds of a behaviour: the processes and requests
                          \* there are, how many tanks the line has, which requests
                          \* clients and the controller make, which failures happen
                          \* and how many

ASSUME ControlAssumption ==
    /\ NenhumProcesso \notin Processos
    /\ Recuperador \notin Requests /\ Encerrador \notin Requests
    /\ Recuperador # Encerrador
    /\ Cenarios \subseteq
         [processos : (SUBSET Processos) \ {{}}, requests : SUBSET Requests, tanques : Nat \ {0},
          operacoes : SUBSET {"partida", "retomada", "pausa", "conclusao", "interrupcao",
                              "emergencia", "geral", "controlador", "mqtt",
                              "edicao"},
          falhas : SUBSET {"queda", "perda", "reset", "local", "botao", "banco", "lentidao"},
          restam : Nat]

Actors == Requests \cup {Recuperador, Encerrador}

VARIABLES
    cenario,     \* the scenario; only `restam`, the failures left, changes
    processos,   \* [Processos -> the row of the table]
    exec,        \* [Actors -> what the request or scheduler is doing]
    esp,         \* the ESP32
    telemetria,  \* the last HARDWARE_STATUS the API has stored
    respostas,   \* the shutdown answers a reused correlation id would find
    mqttLease    \* credenciais_atualizacao_bloqueada_ate lies in the future

vars == <<cenario, processos, exec, esp, telemetria, respostas, mqttLease>>

\* The tanks, and the selections ProcessoConfigValidator accepts.
Tanques == 1..cenario.tanques
\* Mutant: a process without tanks is accepted.
SelecaoSemMinimo == SUBSET Tanques
Selecao == (SUBSET Tanques) \ {{}}

Row == [status : {"CONFIGURADO", "EM_EXECUCAO", "PAUSADO", "CONCLUIDO", "INTERROMPIDO"},
        partida : {"INATIVA", "EM_ANDAMENTO", "CONCLUIDA", "FALHA"},
        lease : BOOLEAN, lido : SUBSET Actors, emergencia : BOOLEAN,
        tanques : (SUBSET Tanques) \ {{}},
        encerramento : {"INATIVO", "ENCERRANDO", "CONFIRMANDO_HARDWARE", "CONCLUIDO", "FALHA"}]

\* `alvos`: the tanks of the context a request has read whose main valve it has
\* still to open.
Etapas == {"SINCRONIZANDO_HARDWARE", "CARREGANDO_PROCESSO",
           "ABRINDO_VALVULAS_PRINCIPAIS", "LIGANDO_BOMBA_PRINCIPAL",
           "CONFIRMANDO_TELEMETRIA"}
Exec == [pc : {"livre", "bombas", "valvulas", "tocar", "esperar", "comando",
               "concluir", "gravar", "reivindicar", "consultar", "finalizar",
               "agendar", "assumir", "reconciliar", "parada_emergencia",
               "fechar_emergencia", "registrar_emergencia"},
         p : Processos \cup {NenhumProcesso},
         modo : {"nenhum", "partida", "retomada", "pausa", "conclusao",
                 "interrupcao", "recuperacao", "emergencia"},
         etapa : Etapas, fase : {"prepare", "interno", "rollback", "race", "parada", "avulsa"},
         alvos : SUBSET Tanques, falhou : BOOLEAN]

Livre == [pc |-> "livre", p |-> NenhumProcesso, modo |-> "nenhum",
          etapa |-> "SINCRONIZANDO_HARDWARE", fase |-> "prepare",
          alvos |-> {}, falhou |-> FALSE]

\* The correlation prefixes whose shutdown ids are used more than once, and
\* the two commands of a shutdown.
Ids == {"rollback", "recovery"} \X {"bombas", "valvulas"}
Resposta == {"nenhuma", "EXECUTADO", "RECUSADO", "ESP_EXECUTADO", "ESP_RECUSADO"}
Marcadores == {"partida", "emergencia", "reset"} \X Processos

EspDesligado == [bomba |-> FALSE, abertas |-> {}, latch |-> FALSE,
                 carregado |-> NenhumProcesso, selecionados |-> {}, sincronizado |-> FALSE]
SemProcesso(e) == [e EXCEPT !.carregado = NenhumProcesso, !.selecionados = {}]

Init ==
    /\ cenario \in Cenarios
    /\ processos = [p \in Processos |->
                      [status |-> "CONFIGURADO", partida |-> "INATIVA", lease |-> FALSE,
                       lido |-> {}, emergencia |-> FALSE, encerramento |-> "INATIVO",
                       tanques |-> Tanques]]
    /\ exec = [a \in Actors |-> Livre]
    /\ esp = EspDesligado
    /\ telemetria = [bomba |-> FALSE, abertas |-> {}, latch |-> FALSE, apos |-> Marcadores]
    /\ respostas = [p \in Processos |-> [i \in Ids |-> "nenhuma"]]
    /\ mqttLease = FALSE

----------------------------------------------------------------------------
(* The table *)

\* The predicate of the partial index uq_processos_operacao_unica.
EmOperacao(row) == row.partida = "EM_ANDAMENTO" \/ row.status \in {"EM_EXECUCAO", "PAUSADO"}

\* The index accepts the row for p.
IndiceAceita(p, row) ==
    EmOperacao(row) => \A q \in Processos \ {p} : ~EmOperacao(processos[q])

\* An emergency stop without confirmation of the controller.
EmergenciaPendente(row) == row.emergencia /\ row.encerramento # "CONCLUIDO"

\* The compare-and-set of the startup: EM_ANDAMENTO at a's expected version.
Dono(a, p) == processos[p].partida = "EM_ANDAMENTO" /\ a \in processos[p].lido

Gravar(p, row) == processos' = [processos EXCEPT ![p] = row]
Vai(a, pc) == exec' = [exec EXCEPT ![a].pc = pc]
Termina(a) == exec' = [exec EXCEPT ![a] = Livre]
IniciaParada(a, fase) ==
    exec' = [exec EXCEPT ![a].pc = "bombas", ![a].fase = fase, ![a].falhou = FALSE]

Fail(f) == /\ f \in cenario.falhas /\ cenario.restam > 0
           /\ cenario' = [cenario EXCEPT !.restam = @ - 1]
\* A client makes the request op of process p in a's place.
Pede(op, a, p) == /\ op \in cenario.operacoes /\ a \in cenario.requests /\ p \in cenario.processos
                  /\ exec[a].pc = "livre"

\* A marker is the present: the telemetry stored so far is not after it.
Marca(kind, p) == telemetria' = [telemetria EXCEPT !.apos = @ \ {<<kind, p>>}]
Nova(kind, p) == <<kind, p>> \in telemetria.apos

----------------------------------------------------------------------------
(* MQTT commands and the ESP32 *)

Seguro == ~esp.bomba /\ esp.abertas = {}

\* The refusals of handleGenericCommand, handleSyncConfig, handleStartProcess.
Primeiro(S) == CHOOSE t \in S : \A u \in S : t <= u
EspAceita(cmd, a) ==
    LET operacional == esp.sincronizado /\ ~esp.latch
        vazio == esp.carregado = NenhumProcesso
    IN  \/ cmd = "bombas"
        \/ cmd = "valvulas" /\ ~esp.bomba
        \/ cmd = "SINCRONIZANDO_HARDWARE" /\ vazio /\ Seguro
        \/ cmd = "CARREGANDO_PROCESSO" /\ operacional /\ vazio /\ Seguro
        \/ cmd = "ABRINDO_VALVULAS_PRINCIPAIS" /\ operacional /\ ~vazio
           /\ Primeiro(exec[a].alvos) \in esp.selecionados
        \/ cmd = "LIGANDO_BOMBA_PRINCIPAL" /\ operacional /\ ~vazio
           /\ esp.selecionados \subseteq esp.abertas

EspExecuta(cmd, a) ==
    CASE cmd = "bombas" -> [esp EXCEPT !.bomba = FALSE]
      [] cmd = "valvulas" -> [esp EXCEPT !.abertas = {}]
      [] cmd = "SINCRONIZANDO_HARDWARE" -> [esp EXCEPT !.sincronizado = TRUE]
      [] cmd = "CARREGANDO_PROCESSO" -> [esp EXCEPT !.carregado = exec[a].p,
                                                      !.selecionados = exec[a].alvos]
      [] cmd = "ABRINDO_VALVULAS_PRINCIPAIS" -> [esp EXCEPT !.abertas = @ \cup {Primeiro(exec[a].alvos)}]
      [] cmd = "LIGANDO_BOMBA_PRINCIPAL" -> [esp EXCEPT !.bomba = TRUE]

\* The stored answer of the command of a, "nenhuma" for a fresh id.  The
\* orchestrator's own rollback and the startup's rollback build the same ids.
Prefixo(a) == IF exec[a].modo = "recuperacao" THEN "recovery" ELSE "rollback"
Repetido(a, cmd) ==
    /\ exec[a].fase \in {"interno", "rollback"} /\ exec[a].modo # "retomada"
    /\ cmd \in {"bombas", "valvulas"}
Memoria(a, cmd) ==
    IF Repetido(a, cmd) THEN respostas[exec[a].p][<<Prefixo(a), cmd>>] ELSE "nenhuma"
Lembra(a, cmd, r) ==
    respostas' = IF Repetido(a, cmd)
                 THEN [respostas EXCEPT ![exec[a].p][<<Prefixo(a), cmd>>] = r]
                 ELSE respostas

\* One command of actor a: publishAndAwaitAck.  ok is what the caller sees.
\* An answer that the ledger or the ESP32 remembers for the id is given
\* again and nothing is executed; otherwise the ESP32 executes or refuses.
\* The command or its ACK may be lost: the caller times out.
Comando(a, cmd, ok) ==
    LET m == Memoria(a, cmd)
        executado == IF m = "nenhuma" THEN EspAceita(cmd, a)
                     ELSE m \in {"EXECUTADO", "ESP_EXECUTADO"}
        chega == esp' = IF m = "nenhuma" /\ EspAceita(cmd, a) THEN EspExecuta(cmd, a) ELSE esp
    IN  \/ /\ ok = executado
           /\ chega
           /\ Lembra(a, cmd, IF executado THEN "EXECUTADO" ELSE "RECUSADO")
           /\ UNCHANGED cenario
        \/ /\ ~ok /\ m \notin {"EXECUTADO", "RECUSADO"}
           /\ Fail("perda")
           /\ \/ chega /\ Lembra(a, cmd, IF executado THEN "ESP_EXECUTADO" ELSE "ESP_RECUSADO")
              \/ UNCHANGED <<esp, respostas>>

\* runShutdownCommands: both commands are always tried, pumps first.
DesligarTodasBombas(a) ==
    /\ exec[a].pc = "bombas"
    /\ \E ok \in BOOLEAN :
          /\ Comando(a, "bombas", ok)
          /\ exec' = [exec EXCEPT ![a].pc = "valvulas", ![a].falhou = ~ok]
    /\ UNCHANGED <<processos, telemetria, mqttLease>>

\* The shutdown succeeds when both commands do; what its caller does next.
SoBombas(a, ok) == ~exec[a].falhou
Tentada(a, ok) == TRUE
ParadaConfirmada(a, ok) == ok /\ ~exec[a].falhou
DepoisDaParada(a, ok) ==
    LET fase == exec[a].fase
        partida == exec[a].modo = "partida"
    IN  CASE fase = "prepare" /\ ok ->
                exec' = [exec EXCEPT ![a].pc = IF partida THEN "tocar" ELSE "comando",
                                     ![a].etapa = "SINCRONIZANDO_HARDWARE"]
          [] fase \in {"prepare", "interno"} /\ partida /\ (fase = "interno" \/ ~ok) ->
                Vai(a, "reivindicar")
          [] fase = "rollback" -> Vai(a, IF ok THEN "finalizar" ELSE "agendar")
          [] fase = "parada" /\ ok -> Vai(a, "gravar")
          [] OTHER -> Termina(a)

FecharTodasValvulas(a) ==
    /\ exec[a].pc = "valvulas"
    /\ \E ok \in BOOLEAN :
          Comando(a, "valvulas", ok) /\ DepoisDaParada(a, ParadaConfirmada(a, ok))
    /\ UNCHANGED <<processos, telemetria, mqttLease>>

----------------------------------------------------------------------------
(* Startup *)

\* assertNoMqttUpdateInProgress.
MqttLivre == ~mqttLease

\* assertNoUnconfirmedEmergencyStop and assertEmergencyLatchWasReset: the stop
\* is confirmed and a later snapshot shows the latch released.
EmergenciaSuperada(q) ==
    processos[q].encerramento = "CONCLUIDO" /\ Nova("reset", q) /\ ~telemetria.latch

\* beginStartup, one serializable transaction.  The context of the commands was
\* read before it, and the selection may have been edited since, any number of times.
ContextoLido(p) == IF "edicao" \in cenario.operacoes THEN Selecao ELSE {processos[p].tanques}
Begin(a, p) ==
    LET row == [processos[p] EXCEPT !.partida = "EM_ANDAMENTO", !.lease = TRUE, !.lido = {a}]
    IN  /\ Pede("partida", a, p)
        /\ MqttLivre
        /\ \A q \in Processos : processos[q].emergencia => EmergenciaSuperada(q)
        /\ processos[p].status = "CONFIGURADO" /\ processos[p].partida # "EM_ANDAMENTO"
        /\ IndiceAceita(p, row)
        /\ Gravar(p, row)
        /\ \E S \in ContextoLido(p) :
             exec' = [exec EXCEPT ![a] = [Livre EXCEPT !.pc = "bombas", !.p = p,
                                                       !.modo = "partida", !.alvos = S]]
        /\ respostas' = [respostas EXCEPT ![p] = [i \in Ids |-> "nenhuma"]]
        /\ Marca("partida", p)
        /\ UNCHANGED <<esp, mqttLease, cenario>>

\* touchStage; where it fails decides who stops the actuators.
Tocar(a) ==
    LET p == exec[a].p
        confere == exec[a].etapa \in {"SINCRONIZANDO_HARDWARE", "CONFIRMANDO_TELEMETRIA"}
    IN  /\ exec[a].pc = "tocar"
        /\ \/ /\ Dono(a, p)
              /\ Gravar(p, [processos[p] EXCEPT !.lease = TRUE, !.lido = {a}])
              /\ Vai(a, IF confere THEN "esperar" ELSE "comando")
           \/ /\ ~Dono(a, p)
              /\ IF confere THEN Vai(a, "reivindicar") ELSE IniciaParada(a, "interno")
              /\ UNCHANGED processos
        /\ UNCHANGED <<esp, telemetria, respostas, mqttLease, cenario>>

\* hardwareStateMatches on the telemetry after the marker of the claim, for the
\* tanks that the row has now.
EstadoConfere(a) ==
    /\ Nova("partida", exec[a].p)
    /\ IF exec[a].etapa = "SINCRONIZANDO_HARDWARE"
       THEN ~telemetria.bomba /\ telemetria.abertas = {}
       ELSE telemetria.bomba /\ processos[exec[a].p].tanques \subseteq telemetria.abertas

\* waitForHardwareState, or its timeout.
Esperar(a) ==
    /\ exec[a].pc = "esperar"
    /\ \/ /\ EstadoConfere(a)
          /\ Vai(a, IF exec[a].etapa = "SINCRONIZANDO_HARDWARE" THEN "comando" ELSE "concluir")
       \/ Vai(a, "reivindicar")
    /\ UNCHANGED <<processos, esp, telemetria, respostas, mqttLease, cenario>>

\* The commands of runSafePreparationCommands and runStartSequence.
Proxima(etapa) ==
    CASE etapa = "SINCRONIZANDO_HARDWARE" -> "CARREGANDO_PROCESSO"
      [] etapa = "CARREGANDO_PROCESSO" -> "ABRINDO_VALVULAS_PRINCIPAIS"
      [] etapa = "ABRINDO_VALVULAS_PRINCIPAIS" -> "LIGANDO_BOMBA_PRINCIPAL"
      [] OTHER -> "CONFIRMANDO_TELEMETRIA"

\* The loop over the selected tanks opens one main valve per command.
OutroTanque(a) == Cardinality(exec[a].alvos) > 1
DepoisDoComando(a, ok) ==
    LET etapa == exec[a].etapa
        partida == exec[a].modo = "partida"
        abrindo == etapa = "ABRINDO_VALVULAS_PRINCIPAIS"
        outra == abrindo /\ OutroTanque(a)
    IN  \/ /\ ok /\ outra
           /\ exec' = [exec EXCEPT ![a].alvos = @ \ {Primeiro(@)}]
        \/ /\ ok /\ ~outra
           /\ exec' = [exec EXCEPT
                 ![a].pc = IF partida THEN "tocar"
                           ELSE IF etapa = "LIGANDO_BOMBA_PRINCIPAL" THEN "gravar" ELSE "comando",
                 ![a].etapa = Proxima(etapa),
                 ![a].alvos = IF abrindo THEN {} ELSE @]
        \/ /\ ~ok /\ etapa # "SINCRONIZANDO_HARDWARE"
           /\ IniciaParada(a, "interno")
        \/ /\ ~ok /\ etapa = "SINCRONIZANDO_HARDWARE"
           /\ IF partida THEN Vai(a, "reivindicar") ELSE Termina(a)

ComandoDaEtapa(a) ==
    /\ exec[a].pc = "comando"
    /\ \E ok \in BOOLEAN : Comando(a, exec[a].etapa, ok) /\ DepoisDoComando(a, ok)
    /\ UNCHANGED <<processos, telemetria, mqttLease>>

\* applyLifecycleTransition with startupCompletion.
Concluir(a) ==
    LET p == exec[a].p IN
    /\ exec[a].pc = "concluir"
    /\ \/ /\ Dono(a, p)
          /\ Gravar(p, [processos[p] EXCEPT !.status = "EM_EXECUCAO", !.partida = "CONCLUIDA",
                                            !.lease = FALSE, !.lido = {}, !.emergencia = FALSE])
          /\ Termina(a)
       \/ ~Dono(a, p) /\ Vai(a, "reivindicar") /\ UNCHANGED processos
    /\ UNCHANGED <<esp, telemetria, respostas, mqttLease, cenario>>

\* claimRollback.
Reivindicar(a) ==
    LET p == exec[a].p IN
    /\ exec[a].pc = "reivindicar"
    /\ \/ /\ Dono(a, p)
          /\ Gravar(p, [processos[p] EXCEPT !.lease = TRUE, !.lido = {a}])
          /\ IniciaParada(a, "rollback")
       \/ ~Dono(a, p) /\ Vai(a, "consultar") /\ UNCHANGED processos
    /\ UNCHANGED <<esp, telemetria, respostas, mqttLease, cenario>>

\* isEmergencyStopPersisted: an emergency took the process, so the actuators
\* are stopped once more; any other loss of the row only throws.
Consultar(a) ==
    LET row == processos[exec[a].p] IN
    /\ exec[a].pc = "consultar"
    /\ IF row.emergencia /\ row.status = "INTERROMPIDO"
       THEN IniciaParada(a, "race") ELSE Termina(a)
    /\ UNCHANGED <<processos, esp, telemetria, respostas, mqttLease, cenario>>

\* finishFailedStartup.
FinishFailedStartup(a) ==
    LET p == exec[a].p IN
    /\ exec[a].pc = "finalizar"
    /\ IF Dono(a, p)
       THEN Gravar(p, [processos[p] EXCEPT !.partida = "FALHA", !.lease = FALSE, !.lido = {}])
       ELSE UNCHANGED processos
    /\ Termina(a)
    /\ UNCHANGED <<esp, telemetria, respostas, mqttLease, cenario>>

\* scheduleRollbackRetry.
ScheduleRollbackRetry(a) ==
    LET p == exec[a].p IN
    /\ exec[a].pc = "agendar"
    /\ IF Dono(a, p)
       THEN Gravar(p, [processos[p] EXCEPT !.lease = TRUE, !.lido = {}])
       ELSE UNCHANGED processos
    /\ Termina(a)
    /\ UNCHANGED <<esp, telemetria, respostas, mqttLease, cenario>>

\* recoverExpiredStartups reads an expired startup ...
RecoverRead(p) ==
    /\ exec[Recuperador].pc = "livre"
    /\ processos[p].partida = "EM_ANDAMENTO" /\ ~processos[p].lease
    /\ Gravar(p, [processos[p] EXCEPT !.lido = @ \cup {Recuperador}])
    /\ exec' = [exec EXCEPT ![Recuperador] =
                  [Livre EXCEPT !.pc = "assumir", !.p = p, !.modo = "recuperacao"]]
    /\ UNCHANGED <<esp, telemetria, respostas, mqttLease, cenario>>

\* ... and takes it over at the version it has read.
RecoverClaim ==
    LET a == Recuperador
        p == exec[a].p
    IN  /\ exec[a].pc = "assumir"
        /\ \/ /\ Dono(a, p) /\ ~processos[p].lease
              /\ Gravar(p, [processos[p] EXCEPT !.lease = TRUE, !.lido = {a}])
              /\ Vai(a, "reivindicar")
           \/ /\ ~(Dono(a, p) /\ ~processos[p].lease)
              /\ Termina(a) /\ UNCHANGED processos
        /\ UNCHANGED <<esp, telemetria, respostas, mqttLease, cenario>>

----------------------------------------------------------------------------
(* Lifecycle requests *)

\* updateConfig with other tanks, in one transaction: it looks at the status and
\* not at the startup.
UpdateConfig(p) ==
    /\ "edicao" \in cenario.operacoes /\ p \in cenario.processos
    /\ processos[p].status = "CONFIGURADO"
    /\ \E S \in Selecao : Gravar(p, [processos[p] EXCEPT !.tanques = S])
    /\ UNCHANGED <<exec, esp, telemetria, respostas, mqttLease, cenario>>

\* resume: only checks the status before its commands.
Resume(a, p) ==
    /\ Pede("retomada", a, p)
    /\ processos[p].status = "PAUSADO"
    /\ exec' = [exec EXCEPT ![a] = [Livre EXCEPT !.pc = "bombas", !.p = p, !.modo = "retomada",
                                             !.alvos = processos[p].tanques]]
    /\ UNCHANGED <<processos, esp, telemetria, respostas, mqttLease, cenario>>

\* pause, finish and interrupt: check the status, then stop the actuators.
Aceita(op, row) ==
    \/ op = "pausa" /\ row.status = "EM_EXECUCAO"
                    /\ row.encerramento \notin {"ENCERRANDO", "CONFIRMANDO_HARDWARE"}
    \/ op = "conclusao" /\ row.status = "EM_EXECUCAO"
    \/ op = "interrupcao" /\ row.status \in {"CONFIGURADO", "EM_EXECUCAO", "PAUSADO"}

StopRequest(a, p, op) ==
    /\ Pede(op, a, p)
    /\ Aceita(op, processos[p])
    /\ exec' = [exec EXCEPT ![a] =
                  [Livre EXCEPT !.pc = "bombas", !.p = p, !.modo = op, !.fase = "parada"]]
    /\ UNCHANGED <<processos, esp, telemetria, respostas, mqttLease, cenario>>

\* applyLifecycleTransition without startupCompletion: the status is written
\* whatever it has become; only the unique index can refuse it.
Transicao(modo, row) ==
    CASE modo = "retomada" -> [row EXCEPT !.status = "EM_EXECUCAO"]
      [] modo = "pausa" -> [row EXCEPT !.status = "PAUSADO"]
      [] modo = "conclusao" -> [row EXCEPT !.status = "CONCLUIDO"]
      [] OTHER -> [row EXCEPT !.status = "INTERROMPIDO", !.emergencia = FALSE]

ApplyLifecycleTransition(a) ==
    LET p == exec[a].p
        row == Transicao(exec[a].modo, processos[p])
    IN  /\ exec[a].pc = "gravar"
        /\ IF IndiceAceita(p, row) THEN Gravar(p, row) ELSE UNCHANGED processos
        /\ Termina(a)
        /\ UNCHANGED <<esp, telemetria, respostas, mqttLease, cenario>>

----------------------------------------------------------------------------
(* Emergency stop *)

\* enqueueProcess: one emergency sequence of a process at a time.
FilaLivre(p) == \A b \in Actors : exec[b].modo = "emergencia" => exec[b].p # p

SequenciaDe(p) == [Livre EXCEPT !.pc = "parada_emergencia", !.p = p, !.modo = "emergencia"]

\* claimEmergencyStop, one serializable transaction; a confirmed stop, or one
\* whose next attempt is not due, is only read.
PartidaIntacta(row) == row
InvalidaPartida(row) ==
    IF row.partida = "EM_ANDAMENTO"
    THEN [row EXCEPT !.partida = "FALHA", !.lease = FALSE, !.lido = {}] ELSE row
RowEmEmergencia(row) ==
    [InvalidaPartida(row) EXCEPT !.status = "INTERROMPIDO", !.emergencia = TRUE,
                                 !.encerramento = "ENCERRANDO"]
Parada(row) == row.emergencia /\ row.status = "INTERROMPIDO"
Recusada(row) == row.status = "CONCLUIDO" \/ (Parada(row) /\ row.encerramento = "CONCLUIDO")
ClaimEmergencyStop(a, p) ==
    /\ FilaLivre(p)
    /\ ~Recusada(processos[p])
    /\ Gravar(p, RowEmEmergencia(processos[p]))
    /\ exec' = [exec EXCEPT ![a] = SequenciaDe(p)]
    /\ Marca("emergencia", p)
    /\ UNCHANGED <<esp, respostas, mqttLease, cenario>>

\* The commands of a stop that no row records.
SequenciaAvulsa(p) == [SequenciaDe(p) EXCEPT !.fase = "avulsa"]

\* The database does not take the claim: the commands are sent all the same.
ClaimFails(a, p) ==
    /\ FilaLivre(p)
    /\ Fail("banco")
    /\ exec' = [exec EXCEPT ![a] = SequenciaAvulsa(p)]
    /\ UNCHANGED <<processos, esp, telemetria, respostas, mqttLease>>

\* findEmergencyTargetProcessId; more than one target is refused.
AlvosDaEmergencia ==
    {p \in Processos : EmOperacao(processos[p]) \/ EmergenciaPendente(processos[p])}

\* requestEmergencyStopForCurrent: a stop of the equipment, with no process to stop.
RequestEmergencyStopForCurrent(a) ==
    /\ \E p \in Processos : Pede("geral", a, p)
    /\ AlvosDaEmergencia = {}
    /\ exec' = [exec EXCEPT ![a] = SequenciaAvulsa(NenhumProcesso)]
    /\ UNCHANGED <<processos, esp, telemetria, respostas, mqttLease, cenario>>

\* reconcileControllerEmergency: the handler of a HARDWARE_STATUS with the latch set
\* reads which process there is to stop ...
ReconcileControllerEmergency(a, p) ==
    /\ Pede("controlador", a, p)
    /\ telemetria.latch
    /\ AlvosDaEmergencia = {p}
    /\ exec' = [exec EXCEPT ![a] = [Livre EXCEPT !.pc = "reconciliar", !.p = p]]
    /\ UNCHANGED <<processos, esp, telemetria, respostas, mqttLease, cenario>>

\* ... and claims its stop, when its turn comes in the queue and whatever the process
\* has become; nothing is done for a stop whose next attempt is not due.
RequestEmergencyStop(a) ==
    LET p == exec[a].p
        row == processos[p]
    IN  /\ exec[a].pc = "reconciliar"
        /\ \/ ClaimEmergencyStop(a, p)
           \/ ClaimFails(a, p)
           \/ /\ FilaLivre(p)
              /\ \/ Recusada(row)
                 \/ Parada(row) /\ row.encerramento \in {"ENCERRANDO", "CONFIRMANDO_HARDWARE"}
              /\ Termina(a)
              /\ UNCHANGED <<processos, esp, telemetria, respostas, mqttLease, cenario>>

\* claimEmergencySequence: the scheduler takes up a pending stop.
ClaimEmergencySequence(p) ==
    LET row == processos[p] IN
    /\ exec[Encerrador].pc = "livre" /\ FilaLivre(p)
    /\ row.status = "INTERROMPIDO" /\ row.emergencia
    /\ row.encerramento \in {"ENCERRANDO", "CONFIRMANDO_HARDWARE"}
    /\ Gravar(p, [row EXCEPT !.encerramento = "ENCERRANDO"])
    /\ exec' = [exec EXCEPT ![Encerrador] = SequenciaDe(p)]
    /\ Marca("emergencia", p)
    /\ UNCHANGED <<esp, respostas, mqttLease, cenario>>

\* dispatchEmergencyCommands: PARADA_EMERGENCIA and DESLIGAR_TODAS_BOMBAS
\* together, whatever is lost of them ...
ParadaEmergencia(a) ==
    /\ exec[a].pc = "parada_emergencia"
    /\ \/ /\ esp' = SemProcesso([esp EXCEPT !.bomba = FALSE, !.abertas = {}, !.latch = TRUE])
          /\ UNCHANGED cenario
       \/ /\ Fail("perda")
          /\ esp' \in {esp, [esp EXCEPT !.bomba = FALSE]}
    /\ Vai(a, "fechar_emergencia")
    /\ UNCHANGED <<processos, telemetria, respostas, mqttLease>>

\* ... then FECHAR_TODAS_VALVULAS.
FecharEmergencia(a) ==
    /\ exec[a].pc = "fechar_emergencia"
    /\ \/ /\ esp' = IF esp.bomba THEN esp ELSE [esp EXCEPT !.abertas = {}]
          /\ UNCHANGED cenario
       \/ Fail("perda") /\ UNCHANGED esp
    /\ IF exec[a].fase = "avulsa" THEN Termina(a) ELSE Vai(a, "registrar_emergencia")
    /\ UNCHANGED <<processos, telemetria, respostas, mqttLease>>

\* executeEmergencyCommandSequence after its commands, ACKs or not.
RegistrarEmergencia(a) ==
    LET p == exec[a].p
        row == processos[p]
    IN  /\ exec[a].pc = "registrar_emergencia"
        /\ IF row.status = "INTERROMPIDO" /\ row.emergencia /\ row.encerramento = "ENCERRANDO"
           THEN /\ Gravar(p, [row EXCEPT !.encerramento = "CONFIRMANDO_HARDWARE"])
                /\ Marca("emergencia", p)
           ELSE UNCHANGED <<processos, telemetria>>
        /\ Termina(a)
        /\ UNCHANGED <<esp, respostas, mqttLease, cenario>>

\* runEmergencyOnce on a row that waits for telemetry: confirmed by a
\* snapshot after the marker, or given up after the last attempt.
EmergenciaConfirmada(p) ==
    Nova("emergencia", p) /\ telemetria.latch /\ ~telemetria.bomba /\ telemetria.abertas = {}
ConfirmEmergencyHardware(p) ==
    /\ exec[Encerrador].pc = "livre" /\ FilaLivre(p)
    /\ processos[p].status = "INTERROMPIDO" /\ processos[p].emergencia
    /\ processos[p].encerramento = "CONFIRMANDO_HARDWARE"
    /\ \/ /\ EmergenciaConfirmada(p)
          /\ Gravar(p, [processos[p] EXCEPT !.encerramento = "CONCLUIDO"])
          /\ Marca("reset", p)
       \/ /\ ~EmergenciaConfirmada(p)
          /\ Gravar(p, [processos[p] EXCEPT !.encerramento = "FALHA"])
          /\ UNCHANGED telemetria
    /\ UNCHANGED <<exec, esp, respostas, mqttLease, cenario>>

----------------------------------------------------------------------------
(* MQTT update lease *)

\* claimMqttUpdateLease, one serializable transaction.
ClaimMqttUpdateLease ==
    /\ "mqtt" \in cenario.operacoes /\ ~mqttLease
    /\ \A p \in Processos : ~EmOperacao(processos[p]) /\ ~EmergenciaPendente(processos[p])
    /\ mqttLease' = TRUE
    /\ UNCHANGED <<processos, exec, esp, telemetria, respostas, cenario>>

\* The update ends, or its lease expires.
ReleaseMqttUpdateLease ==
    /\ mqttLease
    /\ mqttLease' = FALSE
    /\ UNCHANGED <<processos, exec, esp, telemetria, respostas, cenario>>

----------------------------------------------------------------------------
(* Time, telemetry and failures *)

\* A HARDWARE_STATUS is published, received and stored.
Telemetria ==
    /\ telemetria' = [bomba |-> esp.bomba, abertas |-> esp.abertas, latch |-> esp.latch,
                      apos |-> Marcadores]
    /\ UNCHANGED <<processos, exec, esp, respostas, mqttLease, cenario>>

\* The lease of a startup expires: nobody is renewing it, or its owner is
\* slower than STARTUP_LEASE_MS.
LeaseExpires(p) ==
    /\ processos[p].partida = "EM_ANDAMENTO" /\ processos[p].lease
    /\ \/ \A a \in processos[p].lido : exec[a].p # p
       \/ "lentidao" \in cenario.falhas
    /\ Gravar(p, [processos[p] EXCEPT !.lease = FALSE])
    /\ UNCHANGED <<exec, esp, telemetria, respostas, mqttLease, cenario>>

\* An instance of the API dies with the requests and schedulers S it runs.
ApiCrash(S) ==
    /\ Fail("queda")
    /\ \E a \in S : exec[a].pc # "livre"
    /\ exec' = [a \in Actors |-> IF a \in S THEN Livre ELSE exec[a]]
    /\ processos' = [p \in Processos |-> [processos[p] EXCEPT !.lido = @ \ S]]
    /\ UNCHANGED <<esp, telemetria, respostas, mqttLease>>

\* The ESP32 restarts; its command cache is empty again.
EspReset ==
    /\ esp' = EspDesligado
    /\ respostas' = [p \in Processos |-> [i \in Ids |->
                       IF respostas[p][i] \in {"ESP_EXECUTADO", "ESP_RECUSADO"}
                       THEN "nenhuma" ELSE respostas[p][i]]]
    /\ UNCHANGED <<processos, exec, telemetria, mqttLease>>

\* The conscious physical reset after an emergency, and an accidental one.  A
\* person resets the controller later than a startup that the emergency has
\* invalidated finds that out, unless requests may be slow.
EspResetAposEmergencia ==
    /\ esp.latch
    /\ \/ \A a \in Requests : exec[a].modo = "partida" => ~processos[exec[a].p].emergencia
       \/ "lentidao" \in cenario.falhas
    /\ EspReset
    /\ UNCHANGED cenario
EspResetAcidental == ~esp.latch /\ Fail("reset") /\ EspReset

\* enterSafeFault: local safety stops the outputs and drops the context.
EspFalhaLocal ==
    /\ esp.carregado # NenhumProcesso
    /\ Fail("local")
    /\ esp' = SemProcesso([esp EXCEPT !.bomba = FALSE, !.abertas = {}])
    /\ UNCHANGED <<processos, exec, telemetria, respostas, mqttLease>>

\* enforceLocalSafety: somebody presses the physical emergency stop.
EspEmergenciaFisica ==
    /\ ~esp.latch
    /\ Fail("botao")
    /\ esp' = SemProcesso([esp EXCEPT !.bomba = FALSE, !.abertas = {}, !.latch = TRUE])
    /\ UNCHANGED <<processos, exec, telemetria, respostas, mqttLease>>

----------------------------------------------------------------------------
ActorStep(a) ==
    \/ DesligarTodasBombas(a) \/ FecharTodasValvulas(a)
    \/ Tocar(a) \/ Esperar(a) \/ ComandoDaEtapa(a) \/ Concluir(a)
    \/ Reivindicar(a) \/ Consultar(a) \/ FinishFailedStartup(a) \/ ScheduleRollbackRetry(a)
    \/ ApplyLifecycleTransition(a)
    \/ RequestEmergencyStop(a)
    \/ ParadaEmergencia(a) \/ FecharEmergencia(a) \/ RegistrarEmergencia(a)

Recovery == RecoverClaim \/ \E p \in Processos : RecoverRead(p)

EmergencyScheduler ==
    \E p \in Processos : ClaimEmergencySequence(p) \/ ConfirmEmergencyHardware(p)

Client(a) ==
    \E p \in Processos : \/ Begin(a, p) \/ Resume(a, p)
                         \/ Pede("emergencia", a, p) /\ (ClaimEmergencyStop(a, p) \/ ClaimFails(a, p))
                         \/ ReconcileControllerEmergency(a, p)
                         \/ \E op \in {"pausa", "conclusao", "interrupcao"} : StopRequest(a, p, op)

Next ==
    \/ \E a \in Actors : ActorStep(a)
    \/ \E a \in Requests : Client(a) \/ RequestEmergencyStopForCurrent(a)
    \/ Recovery \/ EmergencyScheduler
    \/ ClaimMqttUpdateLease \/ ReleaseMqttUpdateLease
    \/ Telemetria
    \/ \E p \in Processos : LeaseExpires(p) \/ UpdateConfig(p)
    \/ \E S \in SUBSET Actors : ApiCrash(S)
    \/ EspResetAposEmergencia \/ EspResetAcidental \/ EspFalhaLocal \/ EspEmergenciaFisica

Spec == Init /\ [][Next]_vars

\* The steps of a started request, the schedulers, the leases and the
\* periodic telemetry go on by themselves; requests are up to the clients.
Fairness ==
    /\ \A a \in Actors : WF_vars(ActorStep(a))
    /\ WF_vars(Recovery) /\ WF_vars(EmergencyScheduler)
    /\ WF_vars(Telemetria)
    /\ \A p \in Processos : WF_vars(LeaseExpires(p))

FairSpec == Spec /\ Fairness

\* Liveness under operators who keep resuming a paused process.
ResumeSpec == FairSpec /\ \A a \in Requests, p \in Processos : WF_vars(Resume(a, p))

----------------------------------------------------------------------------
(* Properties *)

\* Type correctness of every variable.
TypeOK ==
    /\ processos \in [Processos -> Row]
    /\ exec \in [Actors -> Exec]
    /\ esp \in [bomba : BOOLEAN, abertas : SUBSET Tanques, latch : BOOLEAN,
                carregado : Processos \cup {NenhumProcesso}, selecionados : SUBSET Tanques,
                sincronizado : BOOLEAN]
    /\ telemetria \in [bomba : BOOLEAN, abertas : SUBSET Tanques, latch : BOOLEAN,
                       apos : SUBSET Marcadores]
    /\ respostas \in [Processos -> [Ids -> Resposta]]
    /\ mqttLease \in BOOLEAN
    /\ cenario.restam \in Nat

\* How far the control is meant to be safe: clients make lifecycle requests one at a time,
\* or none, since these check a status and write it seconds later whatever it has become;
\* and nobody is slower than the lease of a startup.
Ciclo == {"pausa", "retomada", "conclusao", "interrupcao"}
Serial ==
    /\ "lentidao" \notin cenario.falhas
    /\ cenario.operacoes \cap Ciclo = {} \/ \A a, b \in cenario.requests : a = b

\* A pump runs only for a process that the table holds in startup, execution
\* or pause, or for which an emergency stop is still being confirmed: while
\* Serial, no crash, lost ACK, replayed answer or race leaves it running unowned.
PumpHasOwner ==
    esp.bomba => \E p \in Processos : EmOperacao(processos[p]) \/ EmergenciaPendente(processos[p])

\* A startup is marked FALHA, other than by an emergency, only when the pumps
\* are off and the valves closed, whoever ran the rollback and however often;
\* this, too, while Serial.
FailedStartupIsSafe ==
    [][\A p \in Processos :
          /\ processos[p].partida = "EM_ANDAMENTO" /\ processos'[p].partida = "FALHA"
          /\ ~processos'[p].emergencia
          => Seguro]_vars

\* A persisted emergency stop stays on its process, INTERROMPIDO, until the
\* controller confirms it: while Serial, no writer that started before it erases it.
EmergencyPersists ==
    [][\A p \in Processos :
          processos[p].status = "INTERROMPIDO" /\ EmergenciaPendente(processos[p])
          => processos'[p].status = "INTERROMPIDO" /\ processos'[p].emergencia]_vars

\* The contract: a process comes to EM_EXECUCAO out of its startup with the main
\* pump on and a main valve open for each tank selected, at the controller.
Iniciou(p) == processos[p].partida = "EM_ANDAMENTO" /\ processos'[p].partida = "CONCLUIDA"
StartedAsConfirmed ==
    [][\A p \in Processos : Iniciou(p) => esp.bomba /\ processos[p].tanques = esp.abertas]_vars

\* The same, for a process that is neither edited nor interrupted during its startup, while
\* no other is stopped, recorded or not, on a controller that does not fail between the
\* confirmation and the completion.
StartedAsConfirmedUndisturbed ==
    [][/\ Serial
       /\ cenario.operacoes \cap {"edicao", "interrupcao", "geral"} = {}
       /\ cenario.falhas \cap {"reset", "local", "botao", "banco"} = {}
       => \A p \in Processos :
            Iniciou(p) /\ (\A q \in Processos \ {p} : ~processos[q].emergencia)
            => esp.bomba /\ processos[p].tanques = esp.abertas]_vars

\* The contract: a failed startup stays EM_ANDAMENTO while the recovery
\* scheduler tries again; with a controller that answers, it ends.
StartupSettles ==
    \A p \in Processos :
        processos[p].partida = "EM_ANDAMENTO" ~> processos[p].partida # "EM_ANDAMENTO"

\* A paused process that the operator keeps resuming, with the controller
\* online and nothing failing, runs again.
ResumeCompletes ==
    \A p \in Processos : processos[p].status = "PAUSADO" ~> processos[p].status = "EM_EXECUCAO"
=============================================================================
