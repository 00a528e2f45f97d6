-------------------------- MODULE SensorIntegrity --------------------------
(***************************************************************************)
(* The vacuum sensor of one tank of a process: the row of sensores and the *)
(* alarm of its link.  Four parties write it and none waits for another:   *)
(* the readings, each handled without waiting for the one before; the      *)
(* timeout monitor, which runs every five seconds; the technician who      *)
(* calibrates, releases or deactivates the device; and the process that    *)
(* starts on what the pre-check has read of it.                            *)
(*                                                                         *)
(* A tick is the interval between two readings (one second).  Ages are     *)
(* capped where no comparison tells them apart any more.                   *)
(***************************************************************************)
EXTENDS Naturals

CONSTANTS
    Timeout,        \* encerramento_timeout_leitura_sensor_ms, in ticks
    Validade,       \* PROCESSO_PRECHECK_SENSOR_RECENCIA_SEGUNDOS, in ticks
    EmVoo,          \* readings that may arrive, or be in their handlers, in one tick
    Operadores,     \* those who make requests of the process, each one at a time
    Cenarios        \* what may happen besides the readings, and how often

ASSUME SensorAssumption ==
    /\ Timeout \in Nat \ {0} /\ Validade \in Nat /\ Timeout <= Validade
    /\ EmVoo \in Nat \ {0}
    /\ Cenarios \subseteq
         [leituras : SUBSET {"fora", "faixa", "anomala", "diagnostico"},
          operacoes : SUBSET {"pausa", "fim", "emergencia", "calibracao", "desativacao",
                              "vencimento", "detector"},
          pausas : Nat, falhas : Nat, passos : Nat]

VARIABLES
    cenario,    \* what may happen; only its counts change
    processo,   \* status_processo
    pedido,     \* how far the request of each operator has come
    linha,      \* the controller's main pump is on and the main valves are open
    sensor,     \* the row of sensores
    alarme,     \* an ATIVO alarm of type SENSOR exists for the link
    chegadas,   \* [kind -> readings accepted by their handler and not yet written]
    noTick,     \* readings accepted since the last tick
    cron,       \* monitorTimeouts has found the last reading too old
    mexido      \* history: the equipment was changed, or its alarm closed, behind
                \* the back of a start or of a resume that had been validated

sensorVars == <<cenario, processo, pedido, linha, sensor, alarme, chegadas, noTick, cron, mexido>>

Antiga == Validade + 1
Min2(a, b) == IF a <= b THEN a ELSE b
Mais(idade) == Min2(idade + 1, Antiga)
Leituras == {"fora", "faixa", "anomala", "diagnostico"}
Finais == {"CONCLUIDO", "INTERROMPIDO"}
Partidas == {"partida", "partida_ligada"}
Retomadas == {"retomada", "retomada_ligada"}
Paradas == {"pausa"} \cup Finais

SensorTypeOK ==
    /\ processo \in {"CONFIGURADO", "EM_EXECUCAO", "PAUSADO"} \cup Finais
    /\ pedido \in [Operadores -> {"nenhum", "validado", "emergencia", "resolucao"}
                                   \cup Partidas \cup Retomadas \cup Paradas]
    /\ linha \in BOOLEAN /\ alarme \in BOOLEAN /\ cron \in BOOLEAN /\ mexido \in BOOLEAN
    /\ sensor \in [status : {"ATIVO", "INATIVO", "FALHA", "DESCONECTADO"},
                   integridade : {"VALIDO", "PENDENTE_CALIBRACAO", "TIMEOUT", "REPROVADA"},
                   modo_calibracao_ativo : BOOLEAN, calibrado : BOOLEAN,
                   liberado : BOOLEAN, idade : 0..Antiga]
    /\ chegadas \in [Leituras -> 0..EmVoo] /\ noTick \in 0..EmVoo

SensorInit ==
    /\ cenario \in Cenarios
    /\ processo = "CONFIGURADO" /\ pedido = [o \in Operadores |-> "nenhum"]
    /\ linha = FALSE /\ alarme = FALSE /\ cron = FALSE /\ mexido = FALSE
    /\ sensor = [status |-> "ATIVO", integridade |-> "VALIDO", modo_calibracao_ativo |-> FALSE,
                 calibrado |-> TRUE, liberado |-> TRUE, idade |-> 0]
    /\ chegadas = [k \in Leituras |-> 0] /\ noTick = 0

Em(status) == processo = status
EmExecucao == Em("EM_EXECUCAO")
EmCurso(ps) == \E o \in Operadores : pedido[o] \in ps
Passa(o, de, para) == pedido[o] \in de /\ pedido' = [pedido EXCEPT ![o] = para]
\* findOperationalProcess, as far as this process goes.
Operacional == processo \in {"EM_EXECUCAO", "PAUSADO"} \/ EmCurso(Partidas \cup {"emergencia"})
Permite(op) == op \in cenario.operacoes
Disponivel == sensor.status = "ATIVO" /\ sensor.integridade = "VALIDO"

----------------------------------------------------------------------------
(* The gate of a start *)

\* buildSensorItem with buildVacuumSensorCalibrationItem: what the pre-check says
\* of the sensor, the corrective action it offers or its approval.
ItemDoSensor ==
    IF sensor.status = "FALHA" THEN "DIAGNOSTICAR_SENSOR"
    ELSE IF sensor.modo_calibracao_ativo THEN "CONTINUAR_CALIBRACAO_SENSOR"
    ELSE IF sensor.integridade = "PENDENTE_CALIBRACAO" \/ ~sensor.calibrado THEN "CALIBRAR_SENSOR"
    ELSE IF sensor.integridade # "VALIDO" THEN "DIAGNOSTICAR_SENSOR"
    ELSE IF ~sensor.liberado THEN "LIBERAR_SENSOR"
    ELSE IF sensor.status = "INATIVO" THEN "ATIVAR_SENSOR"
    ELSE IF sensor.status = "DESCONECTADO" \/ sensor.idade > Validade
         THEN "AGUARDAR_TELEMETRIA_SENSOR"
    ELSE "APROVADO"

\* getStartBlockingReasons, of the sensor and of the alarms of the process.
SemBloqueio == Disponivel /\ sensor.calibrado /\ sensor.liberado /\ ~alarme

\* start: the mandatory pre-check, then validateCanStart on a context read again.
ValidarInicio(o) ==
    /\ Em("CONFIGURADO") /\ Passa(o, {"nenhum"}, "validado")
    /\ ItemDoSensor = "APROVADO" /\ SemBloqueio
    /\ mexido' = FALSE
    /\ UNCHANGED <<cenario, processo, linha, sensor, alarme, chegadas, noTick, cron>>

\* beginStartup claims the row, or refuses; it looks at no sensor any more.
BeginStartup(o) ==
    /\ Passa(o, {"validado"}, IF Em("CONFIGURADO") /\ ~EmCurso(Partidas) THEN "partida" ELSE "nenhum")
    /\ UNCHANGED <<cenario, processo, linha, sensor, alarme, chegadas, noTick, cron, mexido>>

\* resume: validateCanResume, then the commands.
Retomar(o) ==
    /\ Em("PAUSADO") /\ Passa(o, {"nenhum"}, "retomada") /\ SemBloqueio
    /\ mexido' = FALSE
    /\ UNCHANGED <<cenario, processo, linha, sensor, alarme, chegadas, noTick, cron>>

\* The main valves are open and the main pump on.
LigarLinha(o) ==
    /\ \/ Passa(o, {"partida"}, "partida_ligada")
       \/ Passa(o, {"retomada"}, "retomada_ligada")
    /\ linha' = TRUE
    /\ UNCHANGED <<cenario, processo, sensor, alarme, chegadas, noTick, cron, mexido>>

\* A command fails: the startup is rolled back, the resume stops the actuators, and
\* a request that stops them already ends there.
FalharPedido(o) ==
    /\ Passa(o, Partidas \cup Retomadas \cup Paradas, "nenhum")
    /\ linha' = (linha /\ pedido[o] \in Paradas)
    /\ UNCHANGED <<cenario, processo, sensor, alarme, chegadas, noTick, cron, mexido>>

\* The transition to EM_EXECUCAO that ends a startup, which an emergency has not
\* invalidated, or a resume, which asks for nothing of the row.
Executar(o, ligada) ==
    /\ Passa(o, {ligada}, "nenhum")
    /\ processo' = "EM_EXECUCAO"
    /\ UNCHANGED <<cenario, linha, sensor, alarme, chegadas, noTick, cron, mexido>>

\* pause, finish and interrupt check the status and stop the actuators ...
PedirParada(o, parada) ==
    /\ \/ /\ parada = "pausa" /\ Permite("pausa") /\ cenario.pausas > 0 /\ EmExecucao
          /\ cenario' = [cenario EXCEPT !.pausas = @ - 1]
       \/ /\ parada = "CONCLUIDO" /\ Permite("fim") /\ EmExecucao
          /\ UNCHANGED cenario
       \/ /\ parada = "INTERROMPIDO" /\ Permite("fim")
          /\ processo \in {"CONFIGURADO", "EM_EXECUCAO", "PAUSADO"}
          /\ UNCHANGED cenario
    /\ Passa(o, {"nenhum"}, parada)
    /\ linha' = FALSE
    /\ UNCHANGED <<processo, sensor, alarme, chegadas, noTick, cron, mexido>>

\* ... and write the new one afterwards, over whatever another request has written
\* meanwhile.  The conclusion of the general closure writes like a finish.
Parar(o, parada) ==
    /\ Passa(o, {parada}, "nenhum")
    /\ processo' = IF parada = "pausa" THEN "PAUSADO" ELSE parada
    /\ UNCHANGED <<cenario, linha, sensor, alarme, chegadas, noTick, cron, mexido>>

\* claimEmergencyStop ends the process first, and a startup with it ...
ClaimEmergencyStop(o) ==
    /\ Permite("emergencia") /\ ~Em("CONCLUIDO") /\ pedido[o] = "nenhum"
    /\ processo' = "INTERROMPIDO"
    /\ pedido' = [p \in Operadores |-> IF p = o THEN "emergencia"
                                       ELSE IF pedido[p] \in Partidas THEN "nenhum" ELSE pedido[p]]
    /\ UNCHANGED <<cenario, linha, sensor, alarme, chegadas, noTick, cron, mexido>>

\* ... and the hardware is confirmed later.
ConfirmarEmergencia(o) ==
    /\ Passa(o, {"emergencia"}, "nenhum")
    /\ linha' = FALSE
    /\ UNCHANGED <<cenario, processo, sensor, alarme, chegadas, noTick, cron, mexido>>

----------------------------------------------------------------------------
(* Readings *)

\* canRegisterReading.
CanRegisterReading == Disponivel /\ ~sensor.modo_calibracao_ativo /\ sensor.calibrado

\* The first reads of handle.  The controller publishes process readings while
\* its line is ready, and diagnostic ones always; a diagnostic one counts only in
\* calibration mode and with no process in operation.
Chega(k) ==
    /\ k \in cenario.leituras /\ noTick < EmVoo
    /\ IF k = "diagnostico"
       THEN sensor.modo_calibracao_ativo /\ ~Operacional
       ELSE linha /\ CanRegisterReading
    /\ chegadas' = [chegadas EXCEPT ![k] = @ + 1]
    /\ noTick' = noTick + 1
    /\ UNCHANGED <<cenario, processo, pedido, linha, sensor, alarme, cron, mexido>>

Atendida(k) == chegadas[k] > 0 /\ chegadas' = [chegadas EXCEPT ![k] = @ - 1]

\* createReadingAndUpdateSensor, whatever the sensor has become meanwhile.
CreateReading(k) ==
    /\ k \in {"fora", "faixa"} /\ Atendida(k)
    /\ sensor' = [sensor EXCEPT !.idade = 0]
    /\ UNCHANGED <<cenario, processo, pedido, linha, alarme, noTick, cron, mexido>>

\* The write of handleDiagnosticReading.
UpdateDiagnostic ==
    /\ Atendida("diagnostico")
    /\ sensor' = [sensor EXCEPT !.idade = 0]
    /\ UNCHANGED <<cenario, processo, pedido, linha, alarme, noTick, cron, mexido>>

\* markSensorFault after assessProcessReading: out of range, abrupt, stuck or
\* oscillating.  A new alarm only where the link has no active one.
MarkSensorFault ==
    /\ Atendida("anomala")
    /\ sensor' = [sensor EXCEPT !.status = "FALHA", !.integridade = "REPROVADA", !.liberado = FALSE]
    /\ alarme' = TRUE
    /\ UNCHANGED <<cenario, processo, pedido, linha, noTick, cron, mexido>>

\* Mutant: the query asks for a valid calibration as well.
FindTimeoutCalibrado ==
    /\ ~cron /\ EmExecucao /\ CanRegisterReading /\ sensor.idade > Timeout
    /\ cron' = TRUE
    /\ UNCHANGED <<cenario, processo, pedido, linha, sensor, alarme, chegadas, noTick, mexido>>

\* monitorTimeouts finds the link of a running process silent ...
FindTimeout ==
    /\ ~cron /\ EmExecucao /\ Disponivel /\ sensor.idade > Timeout
    /\ cron' = TRUE
    /\ UNCHANGED <<cenario, processo, pedido, linha, sensor, alarme, chegadas, noTick, mexido>>

\* ... and writes, on condition that the sensor is still available.
WriteTimeout ==
    /\ cron /\ cron' = FALSE
    /\ IF Disponivel
       THEN /\ sensor' = [sensor EXCEPT !.status = "DESCONECTADO", !.integridade = "TIMEOUT",
                                        !.liberado = FALSE]
            /\ alarme' = TRUE
       ELSE UNCHANGED <<sensor, alarme>>
    /\ UNCHANGED <<cenario, processo, pedido, linha, chegadas, noTick, mexido>>

----------------------------------------------------------------------------
(* The technician and the operator *)

\* executeProtectedEquipmentMutation.
Mutacao(op) ==
    /\ Permite(op) /\ ~Operacional
    /\ mexido' = (mexido \/ EmCurso({"validado"} \cup Retomadas))
    /\ UNCHANGED <<cenario, processo, pedido, linha, chegadas, noTick, cron>>

IniciarCalibracao ==
    /\ Mutacao("calibracao")
    /\ sensor' = [sensor EXCEPT !.status = "INATIVO", !.integridade = "PENDENTE_CALIBRACAO",
                                !.modo_calibracao_ativo = TRUE]
    /\ UNCHANGED alarme

Calibrar ==
    /\ Mutacao("calibracao") /\ sensor.modo_calibracao_ativo
    /\ sensor' = [sensor EXCEPT !.status = "INATIVO", !.integridade = "VALIDO",
                                !.modo_calibracao_ativo = FALSE,
                                !.calibrado = TRUE, !.liberado = FALSE]
    /\ UNCHANGED alarme

\* ativar releases the device and normalises the active alarms of its links.
Ativar ==
    /\ Mutacao("calibracao")
    /\ ~sensor.modo_calibracao_ativo /\ sensor.integridade = "VALIDO" /\ sensor.calibrado
    /\ sensor' = [sensor EXCEPT !.status = "ATIVO", !.liberado = TRUE]
    /\ alarme' = FALSE

\* desativar, or an update to another status than ATIVO.
Desativar ==
    /\ Mutacao("desativacao")
    /\ \E s \in {"INATIVO", "DESCONECTADO", "FALHA"} : sensor' = [sensor EXCEPT !.status = s]
    /\ UNCHANGED alarme

\* calibracao_valida_ate passes.
Vencer ==
    /\ Permite("vencimento") /\ sensor.calibrado
    /\ sensor' = [sensor EXCEPT !.calibrado = FALSE]
    /\ UNCHANGED <<cenario, processo, pedido, linha, alarme, chegadas, noTick, cron, mexido>>

\* AlarmResolutionPolicyService: an ATIVO alarm is closed by an operator only
\* once its process has ended ...
PodeResolverParado == ~Operacional    \* Mutant: a CONFIGURADO process is forgotten.
PodeResolver == processo \in Finais

DecidirAlarme(o) ==
    /\ alarme /\ PodeResolver /\ Passa(o, {"nenhum"}, "resolucao")
    /\ UNCHANGED <<cenario, processo, linha, sensor, alarme, chegadas, noTick, cron, mexido>>

\* ... and the write asks for nothing any more.  Its alarm may be normalised by then
\* and another one active.
ResolverAlarme(o) ==
    /\ Passa(o, {"resolucao"}, "nenhum")
    /\ alarme' \in {alarme, FALSE}
    /\ mexido' = (mexido \/ EmExecucao \/ EmCurso(Partidas \cup Retomadas))
    /\ UNCHANGED <<cenario, processo, linha, sensor, chegadas, noTick, cron>>

\* A second passes; a handler takes less.
Tick ==
    /\ \A k \in Leituras : chegadas[k] = 0
    /\ sensor' = [sensor EXCEPT !.idade = Mais(@)]
    /\ noTick' = 0
    /\ UNCHANGED <<cenario, processo, pedido, linha, alarme, chegadas, cron, mexido>>

----------------------------------------------------------------------------
(* Properties *)

\* A running process whose sensor no longer counts has an active alarm that says
\* so, whatever the order of readings, timeout monitor, technician and requests that
\* overtake each other, unless the equipment was changed, or the alarm closed, after
\* the validation of the start or of the resume that brought it there: neither is
\* rechecked, and an interruption in between opens the equipment to the technician
\* and the alarm to the operator (applyLifecycleTransition, markSensorFault).
SupervisedOrAlarmed == EmExecucao /\ ~mexido => Disponivel \/ alarme

\* The same without the condition, which does not hold.
SupervisedOrAlarmedAlways == EmExecucao => Disponivel \/ alarme

\* A sensor that goes silent while its process runs, because its readings stop,
\* are refused or its calibration expires, is alarmed, reads again or sees the
\* process leave EM_EXECUCAO.
SilentSensorIsAlarmed ==
    (EmExecucao /\ ~mexido /\ sensor.idade > Timeout)
        ~> (alarme \/ sensor.idade <= Timeout \/ ~EmExecucao)

\* The pre-check asks to wait for telemetry, and the telemetry comes.  It does not
\* hold: diagnostic readings are refused outside of the calibration mode and
\* process readings need a running line.
AwaitedTelemetryArrives ==
    (Em("CONFIGURADO") /\ ItemDoSensor = "AGUARDAR_TELEMETRIA_SENSOR")
        ~> (ItemDoSensor # "AGUARDAR_TELEMETRIA_SENSOR" \/ ~Em("CONFIGURADO"))
=============================================================================
