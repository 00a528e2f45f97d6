---------------------------- MODULE TankMonitor ----------------------------
(***************************************************************************)
(* What the readings of a running process decide about its tank: the       *)
(* target, its stabilisation and the detector of stagnation, composed with *)
(* the sensor that delivers the readings (SensorIntegrity).                *)
(*                                                                         *)
(* A reading is stored in one transaction and monitored in another, from   *)
(* the queue of its tank.  The monitor does not look at the reading that   *)
(* called it but at the one with the latest date, which need not be the    *)
(* last one stored; it reads, decides, and writes under the state it has   *)
(* read.  The table of readings is kept as what the monitor computes of    *)
(* it: the latest reading and, while the tank is at its target, the        *)
(* evidence accumulated since VACUO_ALVO_ATINGIDO.  Of the closure of the  *)
(* tank the module has the stages that write what the monitor writes.      *)
(***************************************************************************)
EXTENDS SensorIntegrity

CONSTANTS
    TempoEstabilizacao,   \* encerramento_tempo_estabilizacao_segundos, in ticks
    LeiturasMinimas,      \* the readings of the minimum coverage
    Janelas               \* estagnacao_janelas_consecutivas

ASSUME MonitorAssumption ==
    /\ TempoEstabilizacao \in Nat /\ LeiturasMinimas \in Nat \ {0}
    /\ Janelas \in Nat \ {0}

VARIABLES
    tanque,       \* status_tanque_processo
    ultima,       \* the latest reading; `lida` (history): the monitor has seen it
    ultrapassadas,   \* readings in their handlers that are older than the latest one
    antigas,      \* readings in their handlers that are older than the last resume
    alvo,         \* at the target, by an event of the current run
    desde,        \* the evidence since that event
    fila,         \* calls of monitorReading that wait in the queue of the tank
    monitor,      \* the transaction of processReading
    estagnacao,   \* the detector's columns
    alarmeEstagnacao,  \* an ATIVO alarm of type ESTAGNACAO exists for the tank
    etapa,        \* etapa_encerramento, from the claim of the isolation on
    retrocesso    \* history: the detector was reset and its alarm left active

leituraVars == <<ultima, ultrapassadas, antigas, fila>>
alvoVars == <<alvo, desde>>
estagnacaoVars == <<estagnacao, alarmeEstagnacao, retrocesso>>
tankVars == <<tanque, etapa, leituraVars, alvoVars, monitor, estagnacaoVars>>
vars == <<sensorVars, tankVars>>

Valores == {"fora", "faixa"}
Tanques == {"CONFIGURADO", "GERANDO_VACUO", "VACUO_ATINGIDO", "VACUO_ESTABILIZADO"} \cup Finais

\* Readings and time since the target event, whether no gap was longer than the
\* timeout; and, as history, whether every reading was within tolerance and
\* whether one that was not lost its evaluation.
Evidencia == [leituras : 0..LeiturasMinimas, duracao : 0..TempoEstabilizacao,
              continua : BOOLEAN, firme : BOOLEAN, perdida : BOOLEAN]
Nenhuma == [leituras |-> 0, duracao |-> 0, continua |-> TRUE, firme |-> TRUE, perdida |-> FALSE]
Primeira == [Nenhuma EXCEPT !.leituras = 1]

Detector == [status : {"NORMAL", "SUSPEITA", "DETECTADA"}, janelas : 0..Janelas,
             avaliada : {"nunca", "antes", "nesta"}]
Normal == [status |-> "NORMAL", janelas |-> 0, avaliada |-> "nunca"]

Livre == [fase |-> "livre"]
Lido == [fase : {"lido"}, tanque : Tanques, estagnacao : Detector,
         ativo : BOOLEAN, versao : BOOLEAN,
         para : Tanques, evento : BOOLEAN, detector : Detector,
         valor : Valores, antiga : BOOLEAN, limpa : BOOLEAN, novas : Evidencia]

TypeOK ==
    /\ SensorTypeOK
    /\ tanque \in Tanques
    /\ ultima \in [valor : Valores \cup {"nenhuma"}, antiga : BOOLEAN, lida : BOOLEAN]
    /\ ultrapassadas \in [Valores -> 0..EmVoo] /\ antigas \in [Valores -> 0..EmVoo]
    /\ alvo \in BOOLEAN /\ desde \in Evidencia /\ fila \in Nat
    /\ monitor \in {Livre} \cup Lido
    /\ estagnacao \in Detector /\ alarmeEstagnacao \in BOOLEAN /\ retrocesso \in BOOLEAN
    /\ etapa \in {"NENHUMA", "RETENDO", "REABRINDO", "CONCLUIDA", "FALHA"}

Init ==
    /\ SensorInit
    /\ tanque = "CONFIGURADO" /\ etapa = "NENHUMA"
    /\ ultima = [valor |-> "nenhuma", antiga |-> FALSE, lida |-> TRUE]
    /\ ultrapassadas = [v \in Valores |-> 0] /\ antigas = [v \in Valores |-> 0]
    /\ alvo = FALSE /\ desde = Nenhuma /\ fila = 0 /\ monitor = Livre
    /\ estagnacao = Normal /\ alarmeEstagnacao = FALSE /\ retrocesso = FALSE

----------------------------------------------------------------------------
(* The evidence *)

\* Mutant: the readings are counted past the expected ones.
AcrescentaSemLimite(e, valor) ==
    [leituras |-> e.leituras + 1,
     duracao  |-> Min2(e.duracao + sensor.idade, TempoEstabilizacao),
     continua |-> e.continua /\ sensor.idade <= Timeout,
     firme    |-> e.firme /\ valor = "faixa",
     perdida  |-> e.perdida \/ (ultima.valor = "fora" /\ ~ultima.lida)]

\* stabilizationReadings and calculateMaximumReadingGap, one later reading more.  The
\* age of ultima_leitura is that of the last one: during a process no diagnostic
\* reading is accepted.
Acrescenta(e, valor) ==
    [leituras |-> Min2(e.leituras + 1, LeiturasMinimas),
     duracao  |-> Min2(e.duracao + sensor.idade, TempoEstabilizacao),
     continua |-> e.continua /\ sensor.idade <= Timeout,
     firme    |-> e.firme /\ valor = "faixa",
     perdida  |-> e.perdida \/ (ultima.valor = "fora" /\ ~ultima.lida)]

\* The same, of a reading that a later one has overtaken: of the same second.  It is
\* never judged, and does not count where it is older than the event itself.
Intercala(e, valor) ==
    {e, [e EXCEPT !.leituras = Min2(@ + 1, LeiturasMinimas), !.firme = @ /\ valor = "faixa",
                  !.perdida = @ \/ valor = "fora"]}

\* buildStabilizationEvidence: duration, coverage and continuity.
PodeEstabilizar ==
    /\ alvo
    /\ desde.duracao >= TempoEstabilizacao
    /\ desde.leituras >= LeiturasMinimas
    /\ desde.continua

\* buildTankReadingTransition, of the latest reading.
TankTransition ==
    IF ultima.valor # "faixa" THEN "GERANDO_VACUO"
    ELSE IF tanque = "VACUO_ESTABILIZADO" \/ PodeEstabilizar THEN "VACUO_ESTABILIZADO"
    ELSE "VACUO_ATINGIDO"

\* Mutant: each reading within tolerance registers the event anew.
TodaLeituraNaFaixa == TankTransition = "VACUO_ATINGIDO"
\* VACUO_ALVO_ATINGIDO is registered again where the last one is of an earlier run.
TargetEvent == TankTransition = "VACUO_ATINGIDO" /\ ~alvo

----------------------------------------------------------------------------
(* The detector of stagnation *)

\* An evaluation of before retomado_em (belongsToPreviousRun).
AntesDaRetomada(d) == [d EXCEPT !.avaliada = IF @ = "nunca" THEN @ ELSE "antes"]

\* normalProgress and noProgress.  The time limit without progress counts from the
\* first such window, and stays reached while the detection lasts.
NormalProgress == [Normal EXCEPT !.avaliada = "nesta"]
NoProgress ==
    LET n == Min2(estagnacao.janelas + 1, Janelas)
        conta(s) == [status |-> s, janelas |-> n, avaliada |-> "nesta"]
    IN  IF estagnacao.status = "DETECTADA" \/ estagnacao.janelas + 1 >= Janelas
        THEN {conta("DETECTADA")}
        ELSE {conta("SUSPEITA")}
             \cup (IF estagnacao.janelas > 0 THEN {conta("DETECTADA")} ELSE {})

\* evaluate.  Whether the window is due and covered, and what progress its
\* readings show, is data: any of the three outcomes, in the scenarios whose
\* windows are covered; that of a reading older than the run is empty.
Evaluate(para) ==
    IF para # "GERANDO_VACUO" \/ estagnacao.avaliada = "antes"
    THEN {Normal}
    ELSE {estagnacao} \cup (IF Permite("detector") /\ ~ultima.antiga
                            THEN {NormalProgress} \cup NoProgress ELSE {})

----------------------------------------------------------------------------
(* processReading *)

\* The monitor has conditions of its own: the calibration mode is not among them.
Ignora == \/ ~Disponivel \/ ~sensor.calibrado
          \/ ~EmExecucao
          \/ tanque \in Finais

\* The reads of the transaction, and what they decide.
MonitorLe ==
    /\ monitor = Livre /\ fila > 0
    /\ fila' = fila - 1
    /\ ultima' = [ultima EXCEPT !.lida = TRUE]
    /\ IF Ignora
       THEN UNCHANGED monitor
       ELSE \E d \in Evaluate(TankTransition) :
              monitor' = [fase |-> "lido", tanque |-> tanque, estagnacao |-> estagnacao,
                          ativo |-> alarmeEstagnacao, versao |-> TRUE,
                          para |-> TankTransition, evento |-> TargetEvent, detector |-> d,
                          valor |-> ultima.valor, antiga |-> ultima.antiga,
                          limpa |-> desde.firme \/ desde.perdida,
                          novas |-> Primeira]
    /\ UNCHANGED <<sensorVars, tanque, etapa, ultrapassadas, antigas, alvoVars, estagnacaoVars>>

\* Mutant: the alarm is never normalised.
SoDetecta(d) == alarmeEstagnacao' = (alarmeEstagnacao \/ (d.status = "DETECTADA" /\ ~monitor.ativo))
\* syncStagnationAlarm, on the alarm that was read with the rest.
SyncStagnationAlarm(d) ==
    alarmeEstagnacao' = CASE d.status = "DETECTADA" -> alarmeEstagnacao \/ ~monitor.ativo
                          [] d.status = "SUSPEITA"  -> alarmeEstagnacao
                          [] d.status = "NORMAL"    -> alarmeEstagnacao /\ ~monitor.ativo

\* A reading out of tolerance whose evaluation comes to nothing.
Perdida == desde' = IF alvo THEN [desde EXCEPT !.perdida = @ \/ monitor.valor = "fora"] ELSE desde

\* The conditional update, the event and the alarm.  `versao`: encerramento_versao is
\* still the one read.
Confere == /\ tanque = monitor.tanque /\ estagnacao.status = monitor.estagnacao.status
           /\ monitor.versao /\ EmExecucao
MonitorGrava ==
    /\ monitor # Livre /\ monitor' = Livre
    /\ IF Confere
       THEN /\ tanque' = monitor.para
            /\ estagnacao' = monitor.detector
            /\ SyncStagnationAlarm(monitor.detector)
            /\ retrocesso' = (retrocesso /\ monitor.detector.status = "SUSPEITA")
            /\ alvo' = (monitor.para = "VACUO_ATINGIDO"
                           /\ IF monitor.evento THEN ~monitor.antiga ELSE alvo)
            /\ desde' = IF ~alvo' THEN Nenhuma ELSE IF monitor.evento THEN monitor.novas ELSE desde
       ELSE Perdida /\ UNCHANGED <<tanque, alvo, estagnacaoVars>>
    /\ UNCHANGED <<sensorVars, etapa, leituraVars>>

\* The transaction fails; the reading stays stored and nobody repeats it.
MonitorFalha ==
    /\ monitor # Livre /\ cenario.falhas > 0
    /\ cenario' = [cenario EXCEPT !.falhas = @ - 1]
    /\ monitor' = Livre /\ Perdida
    /\ UNCHANGED <<processo, pedido, linha, sensor, alarme, chegadas, noTick, cron, mexido,
                   tanque, etapa, leituraVars, alvo, estagnacaoVars>>

\* Writers of the row of the tank, the monitor aside, count encerramento_versao on.
Versiona == monitor' = IF monitor = Livre THEN Livre ELSE [monitor EXCEPT !.versao = FALSE]
SemAlvo == alvo' = FALSE /\ desde' = Nenhuma
AlarmeNormalizado == alarmeEstagnacao' = FALSE /\ retrocesso' = FALSE

----------------------------------------------------------------------------
(* The closure of the tank (processo-tanque-closure.service.ts).  Its own     *)
(* writes are conditional on the version as well, so each is one step here;   *)
(* module ProcessClosure follows its commands.                                *)

Encerra(de, para) ==
    /\ etapa = de /\ etapa' = para
    /\ cenario.passos > 0 /\ cenario' = [cenario EXCEPT !.passos = @ - 1]
    /\ Versiona
    /\ UNCHANGED <<processo, pedido, linha, sensor, alarme, chegadas, noTick, cron, mexido, leituraVars>>

\* claimIsolation of a stabilised tank; its main valve is closed, and a reading
\* starts the retention.
ClaimIsolation ==
    /\ tanque = "VACUO_ESTABILIZADO" /\ EmExecucao
    /\ Encerra("NENHUMA", "RETENDO")
    /\ UNCHANGED <<tanque, alvoVars, estagnacaoVars>>

\* evaluateRetention: within the limit so far, rejected, or a failure.
EvaluateRetention ==
    /\ \E para \in {"RETENDO", "REABRINDO", "FALHA"} : Encerra("RETENDO", para)
    /\ UNCHANGED <<tanque, alvoVars, estagnacaoVars>>

\* rollbackRetention, where its command or its safety check fails.
RollbackFails ==
    /\ \E para \in {"REABRINDO", "FALHA"} : Encerra("REABRINDO", para)
    /\ UNCHANGED <<tanque, alvoVars, estagnacaoVars>>

\* completeTankClosure.
CompleteTankClosure ==
    /\ EmExecucao /\ Encerra("RETENDO", "CONCLUIDA")
    /\ tanque' = "CONCLUIDO" /\ estagnacao' = Normal /\ AlarmeNormalizado /\ SemAlvo

\* rollbackRetention, once the main valve is open again: the detector is reset and
\* its alarm is not.
RollbackRetention ==
    /\ Encerra("REABRINDO", "NENHUMA")
    /\ tanque' = "GERANDO_VACUO" /\ estagnacao' = Normal /\ SemAlvo
    /\ retrocesso' = alarmeEstagnacao /\ UNCHANGED alarmeEstagnacao

----------------------------------------------------------------------------
(* The steps of the sensor and of the process, with what they do to the tank *)

\* handleReadingMessage: store, then call the monitor.
StoreReading(k) ==
    /\ CreateReading(k)
    /\ fila' = fila + 1
    /\ UNCHANGED <<tanque, etapa, alvo, estagnacaoVars>>

\* The readings that would be older than the one stored become overtaken.
Ultrapassa(fica) ==
    \E n \in [Valores -> 0..EmVoo] :
        /\ \A v \in Valores : /\ ultrapassadas[v] + antigas[v] - fica[v] <= n[v]
                              /\ n[v] + fica[v] <= chegadas'[v]
        /\ ultrapassadas' = n /\ antigas' = fica

\* It is the latest one, by leitura_em, and of the current run.
StoreNova(k) ==
    /\ StoreReading(k) /\ chegadas[k] > ultrapassadas[k] + antigas[k]
    /\ Ultrapassa([v \in Valores |-> 0])
    /\ ultima' = [valor |-> k, antiga |-> FALSE, lida |-> FALSE]
    /\ desde' = IF alvo THEN Acrescenta(desde, k) ELSE desde
    /\ monitor' = IF monitor = Livre \/ ~monitor.evento THEN monitor
                  ELSE [monitor EXCEPT !.novas = Acrescenta(@, k)]

\* It is the latest one, of before the last resume.
StoreAntiga(k) ==
    /\ StoreReading(k) /\ antigas[k] > 0
    /\ \E fica \in [Valores -> 0..EmVoo] :
         /\ \A v \in Valores : fica[v] <= (IF v = k THEN antigas[v] - 1 ELSE antigas[v])
         /\ antigas' = fica
         /\ ultrapassadas' = [v \in Valores |->
               ultrapassadas[v] + (IF v = k THEN antigas[v] - 1 ELSE antigas[v]) - fica[v]]
    /\ ultima' = [valor |-> k, antiga |-> TRUE, lida |-> FALSE]
    /\ UNCHANGED <<desde, monitor>>

\* It is not the latest one.
StoreUltrapassada(k) ==
    /\ StoreReading(k) /\ ultrapassadas[k] > 0
    /\ ultrapassadas' = [ultrapassadas EXCEPT ![k] = @ - 1]
    /\ \E e \in Intercala(desde, k) : desde' = IF alvo THEN e ELSE desde
    /\ IF monitor = Livre \/ ~monitor.evento THEN UNCHANGED monitor
       ELSE \E e \in Intercala(monitor.novas, k) : monitor' = [monitor EXCEPT !.novas = e]
    /\ UNCHANGED <<ultima, antigas>>

\* buildStartTransition.
StartTransition(o) ==
    /\ Executar(o, "partida_ligada")
    /\ tanque' = "GERANDO_VACUO" /\ etapa' = "NENHUMA" /\ estagnacao' = Normal
    /\ Versiona
    /\ UNCHANGED <<leituraVars, alvoVars, alarmeEstagnacao, retrocesso>>

\* Mutant: an event of before the pause still counts.
RetomadaComAlvo(o) ==
    /\ Executar(o, "retomada_ligada")
    /\ estagnacao' = AntesDaRetomada(estagnacao)
    /\ UNCHANGED <<tanque, etapa, leituraVars, alvoVars, monitor, alarmeEstagnacao, retrocesso>>

\* buildResumeTransition: whatever was received, registered or evaluated so far
\* is earlier than retomado_em.
ResumeTransition(o) ==
    /\ Executar(o, "retomada_ligada")
    /\ SemAlvo
    /\ ultima' = [ultima EXCEPT !.antiga = TRUE]
    /\ antigas' = [v \in Valores |-> chegadas[v] - ultrapassadas[v]]
    /\ monitor' = IF monitor = Livre THEN Livre
                  ELSE [monitor EXCEPT !.antiga = TRUE, !.detector = AntesDaRetomada(@)]
    /\ estagnacao' = AntesDaRetomada(estagnacao)
    /\ UNCHANGED <<tanque, etapa, ultrapassadas, fila, alarmeEstagnacao, retrocesso>>

\* buildPauseTransition touches no tank.
PauseTransition(o) == Parar(o, "pausa") /\ UNCHANGED tankVars

\* buildFinalTransition with buildStagnationReset, every tank whatever its state, and
\* the alarms of stagnation in the same transaction (applyLifecycleTransition).
FinalTransition(o, final) ==
    /\ Parar(o, final)
    /\ tanque' = final /\ etapa' = (IF final = "CONCLUIDO" THEN "CONCLUIDA" ELSE "NENHUMA")
    /\ estagnacao' = Normal /\ AlarmeNormalizado /\ SemAlvo
    /\ Versiona
    /\ UNCHANGED leituraVars

\* claimEmergencyStop normalises the alarm and leaves the detector as it is.
EmergencyStop(o) ==
    /\ ClaimEmergencyStop(o)
    /\ tanque' = "INTERROMPIDO" /\ etapa' = "NENHUMA" /\ AlarmeNormalizado /\ SemAlvo
    /\ Versiona
    /\ UNCHANGED <<leituraVars, estagnacao>>

\* The queue of the tank empties within the second, too.
Segundo == Tick /\ fila = 0 /\ monitor = Livre /\ UNCHANGED tankVars

----------------------------------------------------------------------------

Monitor == MonitorLe \/ MonitorGrava
Escreve(k) ==
    \/ StoreNova(k) \/ StoreAntiga(k) \/ StoreUltrapassada(k)
    \/ k = "diagnostico" /\ UpdateDiagnostic /\ UNCHANGED tankVars
    \/ k = "anomala" /\ MarkSensorFault /\ UNCHANGED tankVars
Encerramento ==
    \/ ClaimIsolation \/ EvaluateRetention \/ CompleteTankClosure
    \/ RollbackFails \/ RollbackRetention
Pedidos(o) ==
    \/ ValidarInicio(o) /\ UNCHANGED tankVars
    \/ BeginStartup(o) /\ UNCHANGED tankVars
    \/ Retomar(o) /\ UNCHANGED tankVars
    \/ LigarLinha(o) /\ UNCHANGED tankVars
    \/ FalharPedido(o) /\ UNCHANGED tankVars
    \/ ConfirmarEmergencia(o) /\ UNCHANGED tankVars
    \/ DecidirAlarme(o) /\ UNCHANGED tankVars
    \/ ResolverAlarme(o) /\ UNCHANGED tankVars
    \/ \E p \in Paradas : PedirParada(o, p) /\ UNCHANGED tankVars
    \/ StartTransition(o) \/ ResumeTransition(o) \/ PauseTransition(o) \/ EmergencyStop(o)
    \/ \E p \in Finais : FinalTransition(o, p)
Tecnico ==
    \/ IniciarCalibracao /\ UNCHANGED tankVars
    \/ Calibrar /\ UNCHANGED tankVars
    \/ Ativar /\ UNCHANGED tankVars
    \/ Desativar /\ UNCHANGED tankVars
    \/ Vencer /\ UNCHANGED tankVars
Cron ==
    \/ FindTimeout /\ UNCHANGED tankVars
    \/ WriteTimeout /\ UNCHANGED tankVars

Next ==
    \/ \E k \in Leituras : (Chega(k) /\ UNCHANGED tankVars) \/ Escreve(k)
    \/ Monitor \/ MonitorFalha
    \/ \E o \in Operadores : Pedidos(o)
    \/ Encerramento \/ Tecnico \/ Cron
    \/ Segundo

Spec == Init /\ [][Next]_vars

\* The handlers end, the queue of the tank advances, the scheduler runs every five
\* seconds, time passes, and the controller publishes while its line is ready.
Fairness ==
    /\ WF_vars(Segundo) /\ WF_vars(Monitor) /\ WF_vars(Cron)
    /\ \A k \in Leituras : WF_vars(Escreve(k))
    /\ WF_vars(\E k \in Valores : Chega(k) /\ UNCHANGED tankVars)
FairSpec == Spec /\ Fairness

----------------------------------------------------------------------------
(* Properties *)

\* A tank becomes VACUO_ESTABILIZADO only if every reading received since the
\* event of the target was within tolerance, in one run of the process; readings
\* out of tolerance that were never judged are the exception: those a later one had
\* overtaken, or was stored before they were monitored, and those whose monitoring
\* failed or was refused by its conditional update (processReading,
\* buildTankReadingTransition).
StabilisedWasSteady ==
    [][tanque # "VACUO_ESTABILIZADO" /\ tanque' = "VACUO_ESTABILIZADO" => monitor.limpa]_vars

\* A tank that has reached its target and whose readings leave no gap longer than
\* the timeout is stabilised in the end, unless it leaves the band, its sensor
\* fails, its calibration expires or the process is not running any more.
SteadyTankStabilises ==
    (EmExecucao /\ alvo)
        ~> (~alvo \/ ~desde.continua
            \/ ~EmExecucao \/ ~CanRegisterReading)

\* The same without the clause on gaps.  It does not hold: the largest gap since
\* the event is never forgotten, so one late reading keeps a tank within its band
\* from ever being stabilised.
InBandTankStabilises ==
    (EmExecucao /\ alvo)
        ~> (~alvo \/ ~desde.firme \/ ~EmExecucao \/ ~CanRegisterReading)

\* A tank that is not terminal has an active alarm of stagnation where its detector
\* says DETECTADA, a terminal one has none, and an active alarm has such a detector
\* behind it, unless the retention was rolled back, which resets the detector alone:
\* over pauses, resumes, emergencies, closures and the transactions in flight
\* (syncStagnationAlarm, evaluate, applyLifecycleTransition, rollbackRetention).
StagnationAlarmAgrees ==
    /\ tanque \notin Finais /\ estagnacao.status = "DETECTADA" => alarmeEstagnacao
    /\ alarmeEstagnacao => /\ tanque \notin Finais
                           /\ estagnacao.status = "DETECTADA" \/ retrocesso
=============================================================================
