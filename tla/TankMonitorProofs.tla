------------------------- MODULE TankMonitorProofs -------------------------
(***************************************************************************)
(* Proofs of the safety of TankMonitor and of its sensor, for every        *)
(* timeout, every number of readings in flight and of requests under way,  *)
(* every detector and every set of scenarios.                              *)
(***************************************************************************)
EXTENDS TankMonitor, TLAPS

----------------------------------------------------------------------------
(* The inductive invariant: of the sensor and the requests *)

\* A reading in its handler arrived since the last tick.
Contagem == \A k \in Leituras : chegadas[k] <= noTick

\* What may be under way beside a startup, of which there is one.
PedidoDoStatus ==
    /\ EmCurso(Partidas) => processo \in {"CONFIGURADO", "INTERROMPIDO"}
    /\ Em("CONFIGURADO") \/ EmCurso(Partidas) => ~EmCurso(Retomadas \cup {"pausa", "CONCLUIDO"})
    /\ Em("CONFIGURADO") => ~EmCurso({"resolucao"})
    /\ \A o, p \in Operadores : pedido[o] \in Partidas /\ pedido[p] \in Partidas => o = p

\* SupervisedOrAlarmed, and the same of a request that has passed its validation.
Supervisionado ==
    (\/ EmExecucao \/ EmCurso(Partidas \cup Retomadas)
     \/ Em("CONFIGURADO") /\ EmCurso({"validado"})) /\ ~mexido
        => Disponivel \/ alarme

SensorInv == SensorTypeOK /\ Contagem /\ PedidoDoStatus /\ Supervisionado

----------------------------------------------------------------------------
(* The inductive invariant: of the tank and its monitor *)

TankTypeOK ==
    /\ tanque \in Tanques
    /\ ultima \in [valor : Valores \cup {"nenhuma"}, antiga : BOOLEAN, lida : BOOLEAN]
    /\ ultrapassadas \in [Valores -> 0..EmVoo] /\ antigas \in [Valores -> 0..EmVoo]
    /\ alvo \in BOOLEAN /\ desde \in Evidencia /\ fila \in Nat
    /\ monitor \in {Livre} \cup Lido
    /\ estagnacao \in Detector /\ alarmeEstagnacao \in BOOLEAN /\ retrocesso \in BOOLEAN
    /\ etapa \in {"NENHUMA", "RETENDO", "REABRINDO", "CONCLUIDA", "FALHA"}

\* Of the readings in their handlers, those that will not be the latest or not of the
\* current run; and what a resume leaves behind.
Ordem ==
    /\ \A v \in Valores : ultrapassadas[v] + antigas[v] <= chegadas[v]
    /\ \A v \in Valores : ultrapassadas[v] > 0 => ultima.valor # "nenhuma"
    /\ \A v \in Valores : antigas[v] > 0 => ultima.antiga
    /\ ultima.antiga => ~alvo /\ (monitor # Livre => monitor.antiga)

PorComecar == Em("CONFIGURADO") \/ EmCurso(Partidas)

\* A call in the queue comes from a reading; before the start nothing has happened.
Comeco ==
    /\ fila > 0 => ultima.valor # "nenhuma"
    /\ PorComecar => ~alvo /\ ~alarmeEstagnacao /\ monitor = Livre
    /\ alvo => tanque \notin Finais

\* What a transaction in flight has decided, and what it will find: the row as it
\* read it, unless another writer has counted the version on.
EmVooConfere ==
    monitor # Livre =>
        /\ monitor.tanque \notin Finais /\ monitor.para \notin Finais
        /\ monitor.valor = "fora" <=> monitor.para = "GERANDO_VACUO"
        /\ monitor.detector.status = "SUSPEITA" => monitor.estagnacao.status # "DETECTADA"
        /\ monitor.versao => /\ tanque = monitor.tanque /\ alarmeEstagnacao = monitor.ativo
                             /\ estagnacao.status = monitor.estagnacao.status

\* A reading out of tolerance is still to be monitored.
ForaPendente == ultima.valor = "fora" /\ ~ultima.lida
SensorFora == ~Disponivel \/ ~sensor.calibrado
Limpa(e) == e.firme \/ e.perdida

\* Evidence that is neither steady nor marked cannot stabilise the tank: its last
\* reading is not monitored yet, or its monitor is about to take the target away,
\* or the sensor does not count any more.
Sustenta ==
    /\ EmExecucao /\ alvo => \/ Limpa(desde) \/ ForaPendente \/ SensorFora
                             \/ monitor # Livre /\ monitor.para = "GERANDO_VACUO"
    /\ monitor # Livre =>
         /\ monitor.evento /\ ~monitor.antiga => Limpa(monitor.novas) \/ ForaPendente
         /\ monitor.para = "VACUO_ESTABILIZADO" /\ monitor.tanque # "VACUO_ESTABILIZADO"
              => monitor.limpa

TankInv ==
    TankTypeOK /\ Ordem /\ Comeco /\ EmVooConfere /\ StagnationAlarmAgrees /\ Sustenta

IInv == SensorInv /\ TankInv

----------------------------------------------------------------------------
(* Steps of the sensor and of the requests *)

\* A step that leaves the status, the requests, the device in service and its alarm
\* as they are keeps SensorInv, if it keeps the types.
LEMMA Quiet ==
    ASSUME SensorInv, SensorTypeOK', Contagem',
           UNCHANGED <<processo, pedido, mexido, alarme>>,
           sensor'.status = sensor.status, sensor'.integridade = sensor.integridade
    PROVE  SensorInv'
BY DEF SensorInv, PedidoDoStatus, Supervisionado, Em, EmCurso, EmExecucao, Disponivel

PedidoTipado ==
    pedido \in [Operadores -> {"nenhum", "validado", "emergencia", "resolucao"}
                               \cup Partidas \cup Retomadas \cup Paradas]

\* A request moves on and is still typed.
LEMMA Pedido ==
    ASSUME SensorInv, NEW o \in Operadores, NEW de, NEW para, Passa(o, de, para),
           para \in {"nenhum", "validado", "emergencia", "resolucao"}
                      \cup Partidas \cup Retomadas \cup Paradas
    PROVE  /\ pedido[o] \in de /\ PedidoTipado'
           /\ \A p \in Operadores : pedido'[p] = IF p = o THEN para ELSE pedido[p]
BY DEF Passa, SensorInv, SensorTypeOK, PedidoTipado

\* What a request writes is typed.
LEMMA RequestTyped ==
    ASSUME SensorInv, PedidoTipado',
           processo' \in {"CONFIGURADO", "EM_EXECUCAO", "PAUSADO"} \cup Finais,
           linha' = linha \/ linha' \in BOOLEAN, alarme' = alarme \/ alarme' \in BOOLEAN,
           mexido' = mexido \/ mexido' \in BOOLEAN,
           UNCHANGED <<sensor, chegadas, noTick, cron>>
    PROVE  SensorTypeOK' /\ Contagem'
BY DEF SensorInv, SensorTypeOK, Contagem, PedidoTipado

\* The requests that start or resume the process.
LEMMA StartStep ==
    ASSUME SensorInv, NEW o \in Operadores,
           ValidarInicio(o) \/ BeginStartup(o) \/ Retomar(o) \/ LigarLinha(o) \/ FalharPedido(o)
    PROVE  SensorInv'
<1> USE DEF Partidas, Retomadas, Paradas, Finais
<1>1. CASE ValidarInicio(o)
  <2>1. /\ processo = "CONFIGURADO" /\ pedido[o] = "nenhum" /\ Disponivel /\ mexido' = FALSE
        /\ PedidoTipado' /\ \A p \in Operadores : pedido'[p] = IF p = o THEN "validado" ELSE pedido[p]
        /\ UNCHANGED <<cenario, processo, linha, sensor, alarme, chegadas, noTick, cron>>
    BY <1>1, Pedido DEF ValidarInicio, SemBloqueio, Em
  <2>2. SensorTypeOK' /\ Contagem'
    BY <2>1, RequestTyped DEF SensorInv, SensorTypeOK
  <2>3. PedidoDoStatus'
    BY <2>1 DEF SensorInv, PedidoDoStatus, Em, EmCurso
  <2>4. Supervisionado'
    BY <2>1 DEF Supervisionado, Disponivel
  <2> QED BY <2>2, <2>3, <2>4 DEF SensorInv
<1>2. CASE BeginStartup(o)
  <2>1. PICK q \in {"partida", "nenhum"} :
          /\ q = "partida" => processo = "CONFIGURADO" /\ ~EmCurso(Partidas)
          /\ Passa(o, {"validado"}, q)
    BY <1>2 DEF BeginStartup, Em
  <2>2. /\ pedido[o] = "validado"
        /\ PedidoTipado' /\ \A p \in Operadores : pedido'[p] = IF p = o THEN q ELSE pedido[p]
        /\ UNCHANGED <<cenario, processo, linha, sensor, alarme, chegadas, noTick, cron, mexido>>
    BY <1>2, <2>1, Pedido DEF BeginStartup
  <2>3. SensorTypeOK' /\ Contagem'
    BY <2>1, <2>2, RequestTyped DEF SensorInv, SensorTypeOK
  <2>4. PedidoDoStatus'
    BY <2>1, <2>2 DEF SensorInv, PedidoDoStatus, Em, EmCurso
  <2>5. Supervisionado'
    BY <2>1, <2>2 DEF SensorInv, Supervisionado, Em, EmExecucao, EmCurso, Disponivel
  <2> QED BY <2>3, <2>4, <2>5 DEF SensorInv
<1>3. CASE Retomar(o)
  <2>1. /\ processo = "PAUSADO" /\ pedido[o] = "nenhum" /\ Disponivel /\ mexido' = FALSE
        /\ PedidoTipado' /\ \A p \in Operadores : pedido'[p] = IF p = o THEN "retomada" ELSE pedido[p]
        /\ UNCHANGED <<cenario, processo, linha, sensor, alarme, chegadas, noTick, cron>>
    BY <1>3, Pedido DEF Retomar, SemBloqueio, Em
  <2>2. SensorTypeOK' /\ Contagem'
    BY <2>1, RequestTyped DEF SensorInv, SensorTypeOK
  <2>3. PedidoDoStatus'
    BY <2>1 DEF SensorInv, PedidoDoStatus, Em, EmCurso
  <2>4. Supervisionado'
    BY <2>1 DEF Supervisionado, Disponivel
  <2> QED BY <2>2, <2>3, <2>4 DEF SensorInv
<1>4. CASE LigarLinha(o)
  <2>1. PICK d \in {"partida", "retomada"}, q \in {"partida_ligada", "retomada_ligada"} :
          /\ d = "partida" <=> q = "partida_ligada"
          /\ Passa(o, {d}, q)
    BY <1>4 DEF LigarLinha
  <2>2. /\ pedido[o] = d /\ linha' = TRUE
        /\ PedidoTipado' /\ \A p \in Operadores : pedido'[p] = IF p = o THEN q ELSE pedido[p]
        /\ UNCHANGED <<cenario, processo, sensor, alarme, chegadas, noTick, cron, mexido>>
    BY <1>4, <2>1, Pedido DEF LigarLinha
  <2>3. SensorTypeOK' /\ Contagem'
    BY <2>1, <2>2, RequestTyped DEF SensorInv, SensorTypeOK
  <2>4. PedidoDoStatus'
    BY <2>1, <2>2 DEF SensorInv, PedidoDoStatus, Em, EmCurso
  <2>5. Supervisionado'
    BY <2>1, <2>2 DEF SensorInv, Supervisionado, Em, EmExecucao, EmCurso, Disponivel
  <2> QED BY <2>3, <2>4, <2>5 DEF SensorInv
<1>5. CASE FalharPedido(o)
  <2>1. /\ linha' \in BOOLEAN
        /\ PedidoTipado' /\ \A p \in Operadores : pedido'[p] = IF p = o THEN "nenhum" ELSE pedido[p]
        /\ UNCHANGED <<cenario, processo, sensor, alarme, chegadas, noTick, cron, mexido>>
    BY <1>5, Pedido DEF FalharPedido, SensorInv, SensorTypeOK
  <2>2. SensorTypeOK' /\ Contagem'
    BY <2>1, RequestTyped DEF SensorInv, SensorTypeOK
  <2>3. PedidoDoStatus'
    BY <2>1 DEF SensorInv, PedidoDoStatus, Em, EmCurso
  <2>4. Supervisionado'
    BY <2>1 DEF SensorInv, Supervisionado, Em, EmExecucao, EmCurso, Disponivel
  <2> QED BY <2>2, <2>3, <2>4 DEF SensorInv
<1> QED BY <1>1, <1>2, <1>3, <1>4, <1>5

\* The writes of a start or of a resume.
LEMMA RunStep ==
    ASSUME SensorInv, NEW o \in Operadores, NEW q \in {"partida_ligada", "retomada_ligada"},
           Executar(o, q)
    PROVE  /\ SensorInv' /\ processo' = "EM_EXECUCAO" /\ ~EmCurso(Partidas)'
           /\ q = "partida_ligada" => EmCurso(Partidas)
<1> USE DEF Partidas, Retomadas, Paradas, Finais
<1>1. /\ pedido[o] = q /\ processo' = "EM_EXECUCAO"
      /\ PedidoTipado' /\ \A p \in Operadores : pedido'[p] = IF p = o THEN "nenhum" ELSE pedido[p]
      /\ UNCHANGED <<cenario, linha, sensor, alarme, chegadas, noTick, cron, mexido>>
  BY Pedido DEF Executar
<1>2. SensorTypeOK' /\ Contagem'
  BY <1>1, RequestTyped DEF SensorInv, SensorTypeOK
<1>3. ~EmCurso(Partidas)'
  BY <1>1 DEF SensorInv, PedidoDoStatus, EmCurso
<1>4. PedidoDoStatus'
  BY <1>1, <1>3 DEF SensorInv, PedidoDoStatus, Em, EmCurso
<1>5. Supervisionado'
  BY <1>1 DEF SensorInv, Supervisionado, EmCurso, Disponivel
<1> QED BY <1>1, <1>2, <1>3, <1>4, <1>5 DEF SensorInv, EmCurso

\* The requests that stop it, the emergency and the alarms closed by hand.
LEMMA StopStep ==
    ASSUME SensorInv, NEW o \in Operadores,
           \/ \E p \in Paradas : PedirParada(o, p) \/ Parar(o, p)
           \/ ClaimEmergencyStop(o) \/ ConfirmarEmergencia(o)
           \/ DecidirAlarme(o) \/ ResolverAlarme(o)
    PROVE  SensorInv'
<1> USE DEF Partidas, Retomadas, Paradas, Finais
<1>1. ASSUME NEW q \in Paradas, PedirParada(o, q) PROVE SensorInv'
  <2>1. /\ q \in {"pausa", "CONCLUIDO"} => processo = "EM_EXECUCAO"
        /\ linha' = FALSE
        /\ PedidoTipado' /\ \A p \in Operadores : pedido'[p] = IF p = o THEN q ELSE pedido[p]
        /\ UNCHANGED <<processo, sensor, alarme, chegadas, noTick, cron, mexido>>
    BY <1>1, Pedido DEF PedirParada, EmExecucao, Em
  <2>2. SensorTypeOK' /\ Contagem'
    BY <2>1, RequestTyped DEF SensorInv, SensorTypeOK
  <2>3. PedidoDoStatus'
    BY <2>1 DEF SensorInv, PedidoDoStatus, Em, EmCurso
  <2>4. Supervisionado'
    BY <2>1 DEF SensorInv, Supervisionado, Em, EmExecucao, EmCurso, Disponivel
  <2> QED BY <2>2, <2>3, <2>4 DEF SensorInv
<1>2. ASSUME NEW q \in Paradas, Parar(o, q) PROVE SensorInv'
  <2>1. /\ pedido[o] = q /\ processo' = IF q = "pausa" THEN "PAUSADO" ELSE q
        /\ PedidoTipado' /\ \A p \in Operadores : pedido'[p] = IF p = o THEN "nenhum" ELSE pedido[p]
        /\ UNCHANGED <<cenario, linha, sensor, alarme, chegadas, noTick, cron, mexido>>
    BY <1>2, Pedido DEF Parar
  <2>2. SensorTypeOK' /\ Contagem'
    BY <2>1, RequestTyped DEF SensorInv, SensorTypeOK
  <2>3. PedidoDoStatus'
    BY <2>1 DEF SensorInv, PedidoDoStatus, Em, EmCurso
  <2>4. Supervisionado'
    BY <2>1 DEF SensorInv, Supervisionado, Em, EmExecucao, EmCurso, Disponivel
  <2> QED BY <2>2, <2>3, <2>4 DEF SensorInv
<1>3. CASE ClaimEmergencyStop(o)
  <2>1. /\ processo' = "INTERROMPIDO"
        /\ PedidoTipado'
        /\ \A p \in Operadores : pedido'[p] = IF p = o THEN "emergencia"
                                              ELSE IF pedido[p] \in Partidas THEN "nenhum"
                                              ELSE pedido[p]
        /\ UNCHANGED <<cenario, linha, sensor, alarme, chegadas, noTick, cron, mexido>>
    BY <1>3 DEF ClaimEmergencyStop, PedidoTipado, SensorInv, SensorTypeOK
  <2>2. SensorTypeOK' /\ Contagem'
    BY <2>1, RequestTyped DEF SensorInv, SensorTypeOK
  <2>3. PedidoDoStatus'
    BY <2>1 DEF SensorInv, PedidoDoStatus, Em, EmCurso
  <2>4. Supervisionado'
    BY <2>1 DEF SensorInv, Supervisionado, Em, EmExecucao, EmCurso, Disponivel
  <2> QED BY <2>2, <2>3, <2>4 DEF SensorInv
<1>4. CASE ConfirmarEmergencia(o)
  <2>1. /\ linha' = FALSE
        /\ PedidoTipado' /\ \A p \in Operadores : pedido'[p] = IF p = o THEN "nenhum" ELSE pedido[p]
        /\ UNCHANGED <<cenario, processo, sensor, alarme, chegadas, noTick, cron, mexido>>
    BY <1>4, Pedido DEF ConfirmarEmergencia
  <2>2. SensorTypeOK' /\ Contagem'
    BY <2>1, RequestTyped DEF SensorInv, SensorTypeOK
  <2>3. PedidoDoStatus'
    BY <2>1 DEF SensorInv, PedidoDoStatus, Em, EmCurso
  <2>4. Supervisionado'
    BY <2>1 DEF SensorInv, Supervisionado, Em, EmExecucao, EmCurso, Disponivel
  <2> QED BY <2>2, <2>3, <2>4 DEF SensorInv
<1>5. CASE DecidirAlarme(o)
  <2>1. /\ processo \in Finais
        /\ PedidoTipado' /\ \A p \in Operadores : pedido'[p] = IF p = o THEN "resolucao" ELSE pedido[p]
        /\ UNCHANGED <<cenario, processo, linha, sensor, alarme, chegadas, noTick, cron, mexido>>
    BY <1>5, Pedido DEF DecidirAlarme, PodeResolver
  <2>2. SensorTypeOK' /\ Contagem'
    BY <2>1, RequestTyped DEF SensorInv, SensorTypeOK
  <2>3. PedidoDoStatus'
    BY <2>1 DEF SensorInv, PedidoDoStatus, Em, EmCurso
  <2>4. Supervisionado'
    BY <2>1 DEF SensorInv, Supervisionado, Em, EmExecucao, EmCurso, Disponivel
  <2> QED BY <2>2, <2>3, <2>4 DEF SensorInv
<1>6. CASE ResolverAlarme(o)
  <2>0. alarme' \in BOOLEAN /\ mexido' \in BOOLEAN
    BY <1>6 DEF ResolverAlarme, SensorInv, SensorTypeOK, EmCurso, EmExecucao, Em
  <2>1. /\ pedido[o] = "resolucao"
        /\ PedidoTipado' /\ \A p \in Operadores : pedido'[p] = IF p = o THEN "nenhum" ELSE pedido[p]
        /\ UNCHANGED <<cenario, processo, linha, sensor, chegadas, noTick, cron>>
    BY <1>6, Pedido DEF ResolverAlarme
  <2>2. SensorTypeOK' /\ Contagem'
    BY <2>0, <2>1, RequestTyped DEF SensorInv, SensorTypeOK
  <2>3. PedidoDoStatus'
    BY <2>1 DEF SensorInv, PedidoDoStatus, Em, EmCurso
  <2>4. ~Em("CONFIGURADO")
    BY <2>1 DEF SensorInv, PedidoDoStatus, EmCurso
  <2>5. mexido' = (mexido \/ EmExecucao \/ EmCurso(Partidas \cup Retomadas))
    BY <1>6 DEF ResolverAlarme
  <2>6. EmCurso(Partidas \cup Retomadas)' => EmCurso(Partidas \cup Retomadas)
    BY <2>1 DEF EmCurso
  <2>7. Supervisionado'
    BY <2>1, <2>4, <2>5, <2>6 DEF Supervisionado, Em, EmExecucao
  <2> QED BY <2>2, <2>3, <2>7 DEF SensorInv
<1> QED BY <1>1, <1>2, <1>3, <1>4, <1>5, <1>6

\* Readings, their writes and the clock.
LEMMA ReadingStep ==
    ASSUME SensorInv,
           \/ \E k \in Leituras : Chega(k) \/ CreateReading(k)
           \/ UpdateDiagnostic \/ MarkSensorFault \/ Tick
    PROVE  SensorInv'
<1>a. Antiga \in Nat /\ 0 \in 0..Antiga /\ EmVoo \in Nat
  BY SensorAssumption DEF Antiga
<1>1. ASSUME NEW k \in Leituras, Atendida(k), noTick' = noTick
      PROVE  Contagem' /\ chegadas' \in [Leituras -> 0..EmVoo]
  <2>1. chegadas[k] - 1 \in 0..EmVoo /\ chegadas[k] - 1 <= noTick /\ noTick \in Nat
    BY <1>1, <1>a DEF SensorInv, SensorTypeOK, Contagem, Atendida
  <2>2. chegadas \in [Leituras -> 0..EmVoo] /\ \A j \in Leituras : chegadas[j] <= noTick
    BY DEF SensorInv, SensorTypeOK, Contagem
  <2> QED BY <1>1, <2>1, <2>2 DEF Contagem, Atendida
<1>2. ASSUME NEW k \in Leituras, Chega(k) PROVE SensorInv'
  <2>1. SensorTypeOK' /\ Contagem'
    BY <1>2, <1>a DEF Chega, SensorInv, SensorTypeOK, Contagem
  <2> QED BY <1>2, <2>1, Quiet DEF Chega
<1>3. ASSUME NEW k \in Leituras, CreateReading(k) PROVE SensorInv'
  <2>1. SensorTypeOK' /\ Contagem'
    BY <1>3, <1>1, <1>a DEF CreateReading, SensorInv, SensorTypeOK
  <2> QED BY <1>3, <2>1, Quiet DEF CreateReading, SensorInv, SensorTypeOK
<1>4. CASE UpdateDiagnostic
  <2>1. SensorTypeOK' /\ Contagem'
    BY <1>4, <1>1, <1>a DEF UpdateDiagnostic, SensorInv, SensorTypeOK, Leituras
  <2> QED BY <1>4, <2>1, Quiet DEF UpdateDiagnostic, SensorInv, SensorTypeOK
<1>5. CASE MarkSensorFault
  <2>1. SensorTypeOK' /\ Contagem'
    BY <1>5, <1>1, <1>a DEF MarkSensorFault, SensorInv, SensorTypeOK, Leituras
  <2> QED BY <1>5, <2>1 DEF MarkSensorFault, SensorInv, PedidoDoStatus, Supervisionado,
                             Em, EmCurso, EmExecucao
<1>6. CASE Tick
  <2>1. SensorTypeOK' /\ Contagem'
    BY <1>6, <1>a DEF Tick, Mais, Min2, SensorInv, SensorTypeOK, Contagem, Leituras
  <2> QED BY <1>6, <2>1, Quiet DEF Tick, SensorInv, SensorTypeOK
<1> QED BY <1>2, <1>3, <1>4, <1>5, <1>6

\* The technician and the timeout monitor.
LEMMA DeviceStep ==
    ASSUME SensorInv,
           \/ IniciarCalibracao \/ Calibrar \/ Ativar \/ Desativar
           \/ Vencer \/ FindTimeout \/ WriteTimeout
    PROVE  SensorInv'
<1>0. SensorTypeOK /\ Contagem /\ mexido \in BOOLEAN
  BY DEF SensorInv, SensorTypeOK
<1>1. ASSUME NEW op, Mutacao(op), SensorTypeOK', alarme' = alarme \/ (alarme' = FALSE /\ Disponivel')
      PROVE  SensorInv'
  <2>1. /\ ~EmExecucao /\ ~EmCurso(Partidas)
        /\ mexido' = (mexido \/ EmCurso({"validado"} \cup Retomadas))
        /\ UNCHANGED <<processo, pedido, chegadas, noTick>>
    BY <1>1 DEF Mutacao, Operacional, EmExecucao, Em, EmCurso
  <2>2. PedidoDoStatus' /\ Contagem'
    BY <2>1, <1>0 DEF SensorInv, PedidoDoStatus, Contagem, Em, EmCurso
  <2>3. Supervisionado'
    BY <2>1 DEF Supervisionado, EmExecucao, Em, EmCurso
  <2> QED BY <1>1, <2>2, <2>3 DEF SensorInv
<1>2. CASE IniciarCalibracao
  <2>1. SensorTypeOK'
    BY <1>0, <1>2 DEF IniciarCalibracao, Mutacao, EmCurso, SensorTypeOK
  <2> QED BY <1>1, <1>2, <2>1 DEF IniciarCalibracao
<1>3. CASE Calibrar
  <2>1. SensorTypeOK'
    BY <1>0, <1>3 DEF Calibrar, Mutacao, EmCurso, SensorTypeOK
  <2> QED BY <1>1, <1>3, <2>1 DEF Calibrar
<1>4. CASE Ativar
  <2>1. SensorTypeOK' /\ Disponivel' /\ alarme' = FALSE
    BY <1>0, <1>4 DEF Ativar, Mutacao, EmCurso, SensorTypeOK, Disponivel
  <2> QED BY <1>1, <1>4, <2>1 DEF Ativar
<1>5. CASE Desativar
  <2>1. SensorTypeOK'
    BY <1>0, <1>5 DEF Desativar, Mutacao, EmCurso, SensorTypeOK
  <2> QED BY <1>1, <1>5, <2>1 DEF Desativar
<1>6. CASE Vencer
  <2>1. SensorTypeOK' /\ Contagem' /\ UNCHANGED <<sensor.status, sensor.integridade>>
    BY <1>0, <1>6 DEF Vencer, SensorTypeOK, Contagem
  <2> QED BY <1>6, <2>1, Quiet DEF Vencer
<1>7. CASE FindTimeout
  <2>1. SensorTypeOK' /\ Contagem'
    BY <1>0, <1>7 DEF FindTimeout, SensorTypeOK, Contagem
  <2> QED BY <1>7, <2>1, Quiet DEF FindTimeout
<1>8. CASE WriteTimeout
  <2>1. SensorTypeOK' /\ Contagem' /\ (alarme' = TRUE \/ UNCHANGED <<sensor, alarme>>)
    BY <1>0, <1>8 DEF WriteTimeout, SensorTypeOK, Contagem
  <2> QED BY <1>8, <2>1 DEF WriteTimeout, SensorInv, PedidoDoStatus, Supervisionado,
                            Em, EmCurso, EmExecucao, Disponivel
<1> QED BY <1>2, <1>3, <1>4, <1>5, <1>6, <1>7, <1>8

\* Steps that leave the sensor alone.
LEMMA SensorSpared ==
    ASSUME SensorInv, UNCHANGED sensorVars
    PROVE  SensorInv'
BY DEF SensorInv, SensorTypeOK, Contagem, PedidoDoStatus, Supervisionado, sensorVars,
       Em, EmCurso, EmExecucao, Disponivel

----------------------------------------------------------------------------
(* Steps of the tank *)

\* What moves the sensor and the requests leaves the tank alone, as long as no process
\* is begun or running that was not, no reading has left its handler and a sensor
\* that does not count still does not.
LEMMA TankKept ==
    ASSUME TankInv, UNCHANGED tankVars,
           \A v \in Valores : chegadas[v] <= chegadas'[v], chegadas \in [Leituras -> Nat],
           chegadas' \in [Leituras -> Nat],
           PorComecar' => PorComecar, EmExecucao' => EmExecucao,
           EmExecucao' /\ SensorFora => SensorFora'
    PROVE  TankInv'
<1>0. /\ UNCHANGED <<tanque, ultima, ultrapassadas, antigas, alvo, desde, fila, monitor>>
      /\ UNCHANGED <<estagnacao, alarmeEstagnacao, etapa, retrocesso>>
  BY DEF tankVars, leituraVars, alvoVars, estagnacaoVars
<1>1. TankTypeOK'
  BY <1>0 DEF TankInv, TankTypeOK
<1>2. Ordem'
  <2>1. ASSUME NEW v \in Valores
        PROVE  ultrapassadas'[v] + antigas'[v] <= chegadas'[v]
    <3>1. /\ ultrapassadas[v] + antigas[v] <= chegadas[v] /\ chegadas[v] <= chegadas'[v]
          /\ ultrapassadas[v] \in Nat /\ antigas[v] \in Nat
          /\ chegadas[v] \in Nat /\ chegadas'[v] \in Nat
      BY SensorAssumption DEF TankInv, TankTypeOK, Ordem, Valores, Leituras
    <3> QED BY <1>0, <3>1
  <2> QED BY <1>0, <2>1 DEF TankInv, Ordem
<1>3. Comeco' /\ EmVooConfere' /\ StagnationAlarmAgrees'
  BY <1>0 DEF TankInv, Comeco, EmVooConfere, StagnationAlarmAgrees
<1>4. Sustenta'
  BY <1>0 DEF TankInv, Sustenta, ForaPendente, Limpa
<1> QED BY <1>1, <1>2, <1>3, <1>4 DEF TankInv

\* A transaction that has read is not a free monitor.
LEMMA LidoNotLivre == \A m \in Lido : m # Livre
BY DEF Lido, Livre

\* The evidence stays typed when a reading is added.
LEMMA EvidenceTyped ==
    ASSUME SensorInv, TankInv, NEW e \in Evidencia, NEW k \in Valores
    PROVE  Acrescenta(e, k) \in Evidencia /\ Intercala(e, k) \subseteq Evidencia
<1>1. /\ TempoEstabilizacao \in Nat /\ LeiturasMinimas \in Nat /\ Antiga \in Nat
      /\ sensor.idade \in 0..Antiga
  BY SensorAssumption, MonitorAssumption DEF SensorInv, SensorTypeOK, Antiga
<1>2. /\ Min2(e.leituras + 1, LeiturasMinimas) \in 0..LeiturasMinimas
      /\ Min2(e.duracao + sensor.idade, TempoEstabilizacao) \in 0..TempoEstabilizacao
  BY <1>1 DEF Evidencia, Min2
<1>3. /\ (e.continua /\ sensor.idade <= Timeout) \in BOOLEAN
      /\ (e.firme /\ k = "faixa") \in BOOLEAN
      /\ (e.perdida \/ (ultima.valor = "fora" /\ ~ultima.lida)) \in BOOLEAN
      /\ (e.perdida \/ k = "fora") \in BOOLEAN
  BY DEF Evidencia
<1>4. Acrescenta(e, k) \in Evidencia
  BY <1>2, <1>3 DEF Acrescenta, Evidencia
<1>5. [e EXCEPT !.leituras = Min2(e.leituras + 1, LeiturasMinimas),
                !.firme = e.firme /\ k = "faixa", !.perdida = e.perdida \/ k = "fora"] \in Evidencia
  BY <1>2, <1>3 DEF Evidencia
<1> QED BY <1>4, <1>5 DEF Intercala

\* Its history is kept: what was not clean stays so only behind a new reading, and an
\* overtaken one out of tolerance is marked.
LEMMA EvidenceKept ==
    ASSUME NEW e \in Evidencia, NEW k \in Valores
    PROVE  /\ Limpa(e) \/ ForaPendente => Limpa(Acrescenta(e, k)) \/ k = "fora"
           /\ \A d \in Intercala(e, k) : Limpa(e) => Limpa(d)
<1>1. Limpa(e) \/ ForaPendente => Limpa(Acrescenta(e, k)) \/ k = "fora"
  BY DEF Limpa, Acrescenta, ForaPendente, Valores
<1>2. ASSUME NEW d \in Intercala(e, k), Limpa(e) PROVE Limpa(d)
  <2>1. CASE d = e
    BY <1>2, <2>1
  <2>2. CASE d # e
    <3>1. d.firme = (e.firme /\ k = "faixa") /\ d.perdida = (e.perdida \/ k = "fora")
      BY <1>2, <2>2 DEF Intercala, Evidencia
    <3> QED BY <1>2, <3>1 DEF Limpa, Valores
  <2> QED BY <2>1, <2>2
<1> QED BY <1>1, <1>2

\* The decision of a transaction in flight, as far as it is a fact about the rest.
LEMMA Decided ==
    ASSUME TankInv,
           \/ monitor' = Livre
           \/ /\ monitor # Livre /\ monitor' # Livre
              /\ monitor'.tanque = monitor.tanque /\ monitor'.para = monitor.para
              /\ monitor'.valor = monitor.valor /\ monitor'.ativo = monitor.ativo
              /\ monitor'.estagnacao = monitor.estagnacao
              /\ monitor'.detector.status = monitor.detector.status
              /\ monitor'.versao => /\ monitor.versao /\ UNCHANGED <<tanque, alarmeEstagnacao>>
                                    /\ estagnacao'.status = estagnacao.status
    PROVE  EmVooConfere'
BY DEF TankInv, EmVooConfere

\* A reading received while the monitor is between its reads and its write.
LEMMA NovasKept ==
    ASSUME TankInv, NEW e \in Evidencia, monitor # Livre,
           monitor' = [monitor EXCEPT !.novas = e]
    PROVE  /\ monitor' \in Lido /\ monitor' # Livre /\ monitor'.novas = e
           /\ monitor'.tanque = monitor.tanque /\ monitor'.para = monitor.para
           /\ monitor'.valor = monitor.valor /\ monitor'.ativo = monitor.ativo
           /\ monitor'.estagnacao = monitor.estagnacao /\ monitor'.detector = monitor.detector
           /\ monitor'.versao = monitor.versao /\ monitor'.evento = monitor.evento
           /\ monitor'.antiga = monitor.antiga /\ monitor'.limpa = monitor.limpa
<1>1. monitor \in Lido
  BY DEF TankInv, TankTypeOK
<1>2. /\ monitor' \in Lido /\ monitor'.novas = e
      /\ monitor'.tanque = monitor.tanque /\ monitor'.para = monitor.para
      /\ monitor'.valor = monitor.valor /\ monitor'.ativo = monitor.ativo
      /\ monitor'.estagnacao = monitor.estagnacao /\ monitor'.detector = monitor.detector
      /\ monitor'.versao = monitor.versao /\ monitor'.evento = monitor.evento
      /\ monitor'.antiga = monitor.antiga /\ monitor'.limpa = monitor.limpa
  BY <1>1 DEF Lido
<1> QED BY <1>2, LidoNotLivre

\* What storing a reading does, whichever the latest one is.
LEMMA StoreFacts ==
    ASSUME SensorInv, TankInv, NEW k \in Leituras, StoreReading(k)
    PROVE  /\ k \in Valores /\ fila' = fila + 1 /\ fila' \in Nat
           /\ UNCHANGED <<processo, pedido, tanque, etapa, alvo,
                          estagnacao, alarmeEstagnacao, retrocesso>>
           /\ chegadas[k] \in Nat /\ chegadas[k] > 0
           /\ \A v \in Valores : /\ chegadas[v] \in 0..EmVoo /\ chegadas'[v] \in 0..EmVoo
                                 /\ chegadas'[v] = IF v = k THEN chegadas[v] - 1 ELSE chegadas[v]
           /\ (SensorFora' <=> SensorFora) /\ (EmExecucao' <=> EmExecucao)
           /\ PorComecar' <=> PorComecar
<1>1. k \in Valores /\ Atendida(k) /\ UNCHANGED <<processo, pedido>>
      /\ sensor' = [sensor EXCEPT !.idade = 0]
  BY DEF StoreReading, CreateReading, Valores
<1>2. /\ fila' = fila + 1 /\ fila \in Nat
      /\ UNCHANGED <<tanque, etapa, alvo, estagnacao, alarmeEstagnacao, retrocesso>>
  BY DEF StoreReading, estagnacaoVars, TankInv, TankTypeOK
<1>3. SensorFora' <=> SensorFora
  BY <1>1 DEF SensorFora, Disponivel, SensorInv, SensorTypeOK
<1>4. /\ chegadas[k] > 0 /\ chegadas \in [Leituras -> 0..EmVoo] /\ EmVoo \in Nat
      /\ chegadas' = [chegadas EXCEPT ![k] = chegadas[k] - 1]
  BY <1>1, SensorAssumption DEF Atendida, SensorInv, SensorTypeOK
<1>5. \A v \in Valores : /\ chegadas[v] \in 0..EmVoo /\ chegadas'[v] \in 0..EmVoo
                         /\ chegadas'[v] = IF v = k THEN chegadas[v] - 1 ELSE chegadas[v]
  BY <1>4 DEF Valores, Leituras
<1> QED BY <1>1, <1>2, <1>3, <1>4, <1>5 DEF EmExecucao, Em, PorComecar, EmCurso

\* The reading stored is the latest one, and of the current run.
LEMMA StoreNewStep ==
    ASSUME SensorInv, TankInv, NEW k \in Leituras, StoreNova(k)
    PROVE  TankInv'
<1>1. StoreReading(k)
  BY DEF StoreNova
<1>2. /\ k \in Valores /\ fila' = fila + 1 /\ fila' \in Nat
      /\ UNCHANGED <<processo, pedido, tanque, etapa, alvo,
                     estagnacao, alarmeEstagnacao, retrocesso>>
      /\ \A v \in Valores : chegadas'[v] \in 0..EmVoo
      /\ (SensorFora' <=> SensorFora) /\ (EmExecucao' <=> EmExecucao)
      /\ PorComecar' <=> PorComecar
  BY <1>1, StoreFacts
<1>3. /\ ultima' = [valor |-> k, antiga |-> FALSE, lida |-> FALSE]
      /\ desde' = IF alvo THEN Acrescenta(desde, k) ELSE desde
  BY DEF StoreNova
<1>4. /\ ultima' \in [valor : Valores \cup {"nenhuma"}, antiga : BOOLEAN, lida : BOOLEAN]
      /\ ultima'.valor = k /\ ultima'.valor # "nenhuma" /\ ~ultima'.antiga /\ ~ultima'.lida
  BY <1>2, <1>3 DEF Valores
<1>5. PICK n \in [Valores -> 0..EmVoo] :
        /\ \A v \in Valores : n[v] + 0 <= chegadas'[v]
        /\ ultrapassadas' = n /\ antigas' = [v \in Valores |-> 0]
  BY DEF StoreNova, Ultrapassa
<1>6. antigas' \in [Valores -> 0..EmVoo] /\ \A v \in Valores : antigas'[v] = 0
  BY <1>5, SensorAssumption
<1>7. Ordem'
  <2>1. ASSUME NEW v \in Valores PROVE ultrapassadas'[v] + antigas'[v] <= chegadas'[v]
    BY <1>5, <1>6
  <2> QED BY <1>4, <1>6, <2>1 DEF Ordem
<1>8. desde \in Evidencia /\ desde' \in Evidencia
  BY <1>2, <1>3, EvidenceTyped DEF TankInv, TankTypeOK
<1>9. EmExecucao /\ alvo => \/ Limpa(desde') \/ k = "fora" \/ SensorFora
                            \/ monitor # Livre /\ monitor.para = "GERANDO_VACUO"
  BY <1>2, <1>3, <1>8, EvidenceKept DEF TankInv, Sustenta
<1>10. ForaPendente' <=> k = "fora"
  BY <1>4 DEF ForaPendente
<1>11. Comeco' /\ StagnationAlarmAgrees'
  <2>1. monitor = Livre => monitor' = Livre
    BY DEF StoreNova
  <2> QED BY <1>2, <1>4, <2>1 DEF TankInv, Comeco, StagnationAlarmAgrees
<1>12. CASE monitor = Livre \/ ~monitor.evento
  <2>1. monitor' = monitor
    BY <1>12 DEF StoreNova
  <2>2. TankTypeOK'
    BY <1>2, <1>4, <1>5, <1>6, <1>8, <2>1 DEF TankInv, TankTypeOK
  <2>3. EmVooConfere'
    BY <1>2, <2>1 DEF TankInv, EmVooConfere
  <2>4. Sustenta'
    BY <1>2, <1>9, <1>10, <1>12, <2>1 DEF TankInv, Sustenta
  <2> QED BY <1>7, <1>11, <2>2, <2>3, <2>4 DEF TankInv
<1>13. CASE monitor # Livre /\ monitor.evento
  <2>1. monitor.novas \in Evidencia
    BY <1>13 DEF TankInv, TankTypeOK, Lido
  <2>2. PICK e \in Evidencia : e = Acrescenta(monitor.novas, k)
    BY <1>2, <2>1, EvidenceTyped
  <2>3. monitor' = [monitor EXCEPT !.novas = e]
    BY <1>13, <2>2 DEF StoreNova
  <2>4. TankTypeOK'
    BY <1>2, <1>4, <1>5, <1>6, <1>8, <1>13, <2>3, NovasKept DEF TankInv, TankTypeOK
  <2>5. EmVooConfere'
    BY <1>2, <1>13, <2>3, NovasKept, Decided
  <2>6. Limpa(monitor.novas) \/ ForaPendente => Limpa(e) \/ k = "fora"
    BY <1>2, <2>1, <2>2, EvidenceKept
  <2>7. Sustenta'
    BY <1>2, <1>9, <1>10, <1>13, <2>3, <2>6, NovasKept DEF TankInv, Sustenta
  <2> QED BY <1>7, <1>11, <2>4, <2>5, <2>7 DEF TankInv
<1> QED BY <1>12, <1>13

\* It is the latest one, of before the last resume.
LEMMA StoreOldStep ==
    ASSUME SensorInv, TankInv, NEW k \in Leituras, StoreAntiga(k)
    PROVE  TankInv'
<1>1. StoreReading(k) /\ UNCHANGED <<desde, monitor>> /\ antigas[k] > 0
      /\ ultima' = [valor |-> k, antiga |-> TRUE, lida |-> FALSE]
  BY DEF StoreAntiga
<1>2. /\ k \in Valores /\ fila' = fila + 1 /\ fila' \in Nat
      /\ UNCHANGED <<processo, pedido, tanque, etapa, alvo,
                     estagnacao, alarmeEstagnacao, retrocesso>>
      /\ \A v \in Valores : /\ chegadas[v] \in 0..EmVoo /\ chegadas'[v] \in 0..EmVoo
                            /\ chegadas'[v] = IF v = k THEN chegadas[v] - 1 ELSE chegadas[v]
      /\ (SensorFora' <=> SensorFora) /\ (EmExecucao' <=> EmExecucao)
      /\ PorComecar' <=> PorComecar
  BY <1>1, StoreFacts
<1>3. ultima.antiga /\ ~alvo /\ (monitor # Livre => monitor.antiga)
  BY <1>1, <1>2 DEF TankInv, Ordem
<1>4. /\ ultima' \in [valor : Valores \cup {"nenhuma"}, antiga : BOOLEAN, lida : BOOLEAN]
      /\ ultima'.valor # "nenhuma" /\ ultima'.antiga
  BY <1>1, <1>2 DEF Valores
<1>5. PICK fica \in [Valores -> 0..EmVoo] :
        /\ \A v \in Valores : fica[v] <= (IF v = k THEN antigas[v] - 1 ELSE antigas[v])
        /\ antigas' = fica
        /\ ultrapassadas' = [v \in Valores |->
              ultrapassadas[v] + (IF v = k THEN antigas[v] - 1 ELSE antigas[v]) - fica[v]]
  BY DEF StoreAntiga
<1>6. ASSUME NEW v \in Valores
      PROVE  /\ ultrapassadas'[v] \in 0..EmVoo
             /\ ultrapassadas'[v] + antigas'[v] <= chegadas'[v]
  <2>1. /\ ultrapassadas[v] \in Nat /\ antigas[v] \in Nat /\ fica[v] \in Nat /\ EmVoo \in Nat
        /\ chegadas[v] \in 0..EmVoo
        /\ ultrapassadas[v] + antigas[v] <= chegadas[v]
    BY <1>2, SensorAssumption DEF TankInv, TankTypeOK, Ordem
  <2>2. /\ ultrapassadas'[v] = ultrapassadas[v]
                               + (IF v = k THEN antigas[v] - 1 ELSE antigas[v]) - fica[v]
        /\ antigas'[v] = fica[v]
        /\ fica[v] <= (IF v = k THEN antigas[v] - 1 ELSE antigas[v])
        /\ chegadas'[v] = IF v = k THEN chegadas[v] - 1 ELSE chegadas[v]
    BY <1>2, <1>5
  <2>3. CASE v = k
    BY <2>1, <2>2, <2>3
  <2>4. CASE v # k
    BY <2>1, <2>2, <2>4
  <2> QED BY <2>3, <2>4
<1>7. ultrapassadas' \in [Valores -> 0..EmVoo] /\ antigas' \in [Valores -> 0..EmVoo]
  BY <1>5, <1>6
<1>8. TankTypeOK'
  BY <1>1, <1>2, <1>4, <1>7 DEF TankInv, TankTypeOK
<1>9. Ordem'
  BY <1>1, <1>2, <1>3, <1>4, <1>6 DEF Ordem
<1>10. Comeco' /\ EmVooConfere' /\ StagnationAlarmAgrees'
  BY <1>1, <1>2, <1>4 DEF TankInv, Comeco, EmVooConfere, StagnationAlarmAgrees
<1>11. Sustenta'
  BY <1>1, <1>2, <1>3 DEF TankInv, Sustenta
<1> QED BY <1>8, <1>9, <1>10, <1>11 DEF TankInv

\* It is not the latest one: nobody will judge it.
LEMMA StoreOvertakenStep ==
    ASSUME SensorInv, TankInv, NEW k \in Leituras, StoreUltrapassada(k)
    PROVE  TankInv'
<1>1. StoreReading(k) /\ UNCHANGED <<ultima, antigas>> /\ ultrapassadas[k] > 0
      /\ ultrapassadas' = [ultrapassadas EXCEPT ![k] = ultrapassadas[k] - 1]
  BY DEF StoreUltrapassada
<1>2. /\ k \in Valores /\ fila' = fila + 1 /\ fila' \in Nat
      /\ UNCHANGED <<processo, pedido, tanque, etapa, alvo,
                     estagnacao, alarmeEstagnacao, retrocesso>>
      /\ \A v \in Valores : /\ chegadas[v] \in 0..EmVoo /\ chegadas'[v] \in 0..EmVoo
                            /\ chegadas'[v] = IF v = k THEN chegadas[v] - 1 ELSE chegadas[v]
      /\ (SensorFora' <=> SensorFora) /\ (EmExecucao' <=> EmExecucao)
      /\ PorComecar' <=> PorComecar
  BY <1>1, StoreFacts
<1>3. ASSUME NEW v \in Valores
      PROVE  /\ ultrapassadas'[v] \in 0..EmVoo
             /\ ultrapassadas'[v] + antigas[v] <= chegadas'[v]
  <2>1. /\ ultrapassadas \in [Valores -> 0..EmVoo] /\ antigas[v] \in Nat /\ EmVoo \in Nat
        /\ chegadas[v] \in 0..EmVoo
        /\ ultrapassadas[v] + antigas[v] <= chegadas[v]
    BY <1>2, SensorAssumption DEF TankInv, TankTypeOK, Ordem
  <2>2. /\ ultrapassadas'[v] = IF v = k THEN ultrapassadas[v] - 1 ELSE ultrapassadas[v]
        /\ chegadas'[v] = IF v = k THEN chegadas[v] - 1 ELSE chegadas[v]
        /\ ultrapassadas[v] \in 0..EmVoo
    BY <1>1, <1>2, <2>1
  <2>3. CASE v = k
    BY <1>1, <2>1, <2>2, <2>3
  <2>4. CASE v # k
    BY <2>1, <2>2, <2>4
  <2> QED BY <2>3, <2>4
<1>4. ultrapassadas' \in [Valores -> 0..EmVoo]
  BY <1>1, <1>3 DEF TankInv, TankTypeOK
<1>5. desde \in Evidencia /\ desde' \in Evidencia /\ (Limpa(desde) => Limpa(desde'))
  <2>1. desde \in Evidencia
    BY DEF TankInv, TankTypeOK
  <2>2. PICK e \in Intercala(desde, k) : desde' = IF alvo THEN e ELSE desde
    BY DEF StoreUltrapassada
  <2> QED BY <1>2, <2>1, <2>2, EvidenceTyped, EvidenceKept
<1>6. /\ ForaPendente' <=> ForaPendente
      /\ monitor = Livre => monitor' = Livre
      /\ ultima.valor # "nenhuma"
  BY <1>1, <1>2 DEF StoreUltrapassada, ForaPendente, TankInv, Ordem
<1>7. Comeco' /\ StagnationAlarmAgrees'
  BY <1>1, <1>2, <1>6 DEF TankInv, Comeco, StagnationAlarmAgrees
<1>8. CASE monitor = Livre \/ ~monitor.evento
  <2>1. monitor' = monitor
    BY <1>8 DEF StoreUltrapassada
  <2>2. TankTypeOK'
    BY <1>1, <1>2, <1>4, <1>5, <2>1 DEF TankInv, TankTypeOK
  <2>3. Ordem'
    BY <1>1, <1>2, <1>3, <1>6, <2>1 DEF TankInv, Ordem
  <2>4. EmVooConfere'
    BY <1>2, <2>1 DEF TankInv, EmVooConfere
  <2>5. Sustenta'
    BY <1>2, <1>5, <1>6, <1>8, <2>1 DEF TankInv, Sustenta
  <2> QED BY <1>7, <2>2, <2>3, <2>4, <2>5 DEF TankInv
<1>9. CASE monitor # Livre /\ monitor.evento
  <2>1. monitor.novas \in Evidencia
    BY <1>9 DEF TankInv, TankTypeOK, Lido
  <2>2. PICK e \in Intercala(monitor.novas, k) : monitor' = [monitor EXCEPT !.novas = e]
    BY <1>9 DEF StoreUltrapassada
  <2>3. e \in Evidencia /\ (Limpa(monitor.novas) => Limpa(e))
    BY <1>2, <2>1, EvidenceTyped, EvidenceKept
  <2>4. TankTypeOK'
    BY <1>1, <1>2, <1>4, <1>5, <1>9, <2>2, <2>3, NovasKept DEF TankInv, TankTypeOK
  <2>5. Ordem'
    BY <1>1, <1>2, <1>3, <1>6, <1>9, <2>2, <2>3, NovasKept DEF TankInv, Ordem
  <2>6. EmVooConfere'
    BY <1>2, <1>9, <2>2, <2>3, NovasKept, Decided
  <2>7. Sustenta'
    BY <1>2, <1>5, <1>6, <1>9, <2>2, <2>3, NovasKept DEF TankInv, Sustenta
  <2> QED BY <1>7, <2>4, <2>5, <2>6, <2>7 DEF TankInv
<1> QED BY <1>8, <1>9

\* What the detector may answer.
LEMMA EvaluateTyped ==
    ASSUME TankInv, NEW para \in Tanques, NEW d \in Evaluate(para)
    PROVE  d \in Detector /\ (d.status = "SUSPEITA" => estagnacao.status # "DETECTADA")
<1>1. estagnacao \in Detector /\ Janelas \in Nat \ {0} /\ estagnacao.janelas \in 0..Janelas
  BY MonitorAssumption DEF TankInv, TankTypeOK, Detector
<1>2. Min2(estagnacao.janelas + 1, Janelas) \in 0..Janelas
  BY <1>1 DEF Min2
<1>3. Normal \in Detector /\ NormalProgress \in Detector
      /\ Normal.status = "NORMAL" /\ NormalProgress.status = "NORMAL"
  BY <1>1 DEF Normal, NormalProgress, Detector
<1>4. ASSUME d \in NoProgress
      PROVE  d \in Detector /\ (d.status = "SUSPEITA" => estagnacao.status # "DETECTADA")
  BY <1>1, <1>2, <1>4 DEF NoProgress, Detector
<1>5. d = Normal \/ d = estagnacao \/ d = NormalProgress \/ d \in NoProgress
  BY DEF Evaluate
<1> QED BY <1>1, <1>3, <1>4, <1>5

\* The reads of the monitor.
LEMMA MonitorReads ==
    ASSUME SensorInv, TankInv, MonitorLe
    PROVE  TankInv'
<1>1. /\ monitor = Livre /\ fila \in Nat /\ fila > 0 /\ fila' = fila - 1
      /\ ultima' = [ultima EXCEPT !.lida = TRUE]
      /\ UNCHANGED <<processo, pedido, sensor, chegadas, tanque, etapa, ultrapassadas, antigas>>
      /\ UNCHANGED <<alvo, desde, estagnacao, alarmeEstagnacao, retrocesso>>
  BY DEF MonitorLe, TankInv, TankTypeOK, sensorVars, alvoVars, estagnacaoVars
<1>2. /\ ultima.valor \in Valores /\ ultima.antiga \in BOOLEAN
      /\ ultima' \in [valor : Valores \cup {"nenhuma"}, antiga : BOOLEAN, lida : BOOLEAN]
      /\ ultima'.valor = ultima.valor /\ ultima'.antiga = ultima.antiga /\ ~ForaPendente'
  BY <1>1 DEF TankInv, TankTypeOK, Comeco, ForaPendente
<1>3. /\ (EmExecucao' <=> EmExecucao) /\ (SensorFora' <=> SensorFora)
      /\ (PorComecar' <=> PorComecar)
      /\ (Limpa(desde)' <=> Limpa(desde))
  BY <1>1 DEF EmExecucao, Em, EmCurso, PorComecar, SensorFora, Disponivel, Limpa
<1>4. StagnationAlarmAgrees'
  BY <1>1 DEF TankInv, StagnationAlarmAgrees
<1>5. CASE Ignora
  <2>1. monitor' = Livre
    BY <1>1, <1>5 DEF MonitorLe
  <2>2. EmExecucao /\ alvo => SensorFora
    BY <1>5 DEF Ignora, SensorFora, TankInv, Comeco
  <2>3. TankTypeOK'
    BY <1>1, <1>2, <2>1 DEF TankInv, TankTypeOK
  <2>4. Ordem' /\ Comeco' /\ EmVooConfere'
    BY <1>1, <1>2, <1>3, <2>1 DEF TankInv, Ordem, Comeco, EmVooConfere
  <2>5. Sustenta'
    BY <1>1, <1>3, <2>1, <2>2 DEF Sustenta
  <2> QED BY <1>4, <2>3, <2>4, <2>5 DEF TankInv
<1>6. CASE ~Ignora
  <2>1. PICK d \in Evaluate(TankTransition) :
          monitor' = [fase |-> "lido", tanque |-> tanque, estagnacao |-> estagnacao,
                      ativo |-> alarmeEstagnacao, versao |-> TRUE,
                      para |-> TankTransition, evento |-> TargetEvent, detector |-> d,
                      valor |-> ultima.valor, antiga |-> ultima.antiga,
                      limpa |-> desde.firme \/ desde.perdida,
                      novas |-> Primeira]
    BY <1>6 DEF MonitorLe
  <2>2. /\ TankTransition \in {"GERANDO_VACUO", "VACUO_ATINGIDO", "VACUO_ESTABILIZADO"}
        /\ TankTransition = "GERANDO_VACUO" <=> ultima.valor = "fora"
        /\ TankTransition = "VACUO_ESTABILIZADO" => tanque = "VACUO_ESTABILIZADO" \/ alvo
    BY <1>2 DEF TankTransition, PodeEstabilizar, Valores
  <2>3. d \in Detector /\ (d.status = "SUSPEITA" => estagnacao.status # "DETECTADA")
    BY <2>2, EvaluateTyped DEF Tanques
  <2>4. Primeira \in Evidencia /\ Limpa(Primeira) /\ TargetEvent \in BOOLEAN
    <3>1. 0 \in 0..LeiturasMinimas /\ 1 \in 0..LeiturasMinimas /\ 0 \in 0..TempoEstabilizacao
      BY MonitorAssumption
    <3>2. Nenhuma \in Evidencia /\ Nenhuma.firme
      BY <3>1 DEF Nenhuma, Evidencia
    <3>3. Primeira \in Evidencia /\ Primeira.firme = Nenhuma.firme
      BY <3>1, <3>2 DEF Primeira, Evidencia
    <3>4. TargetEvent \in BOOLEAN
      BY DEF TargetEvent, TankInv, TankTypeOK
    <3> QED BY <3>2, <3>3, <3>4 DEF Limpa
  <2>5. tanque \in Tanques /\ estagnacao \in Detector /\ desde \in Evidencia
        /\ alarmeEstagnacao \in BOOLEAN /\ (desde.firme \/ desde.perdida) \in BOOLEAN
    BY DEF TankInv, TankTypeOK, Evidencia
  <2>6. TankTransition \in Tanques
    BY <2>2 DEF Tanques
  <2>7. monitor' \in Lido
    BY <1>2, <2>1, <2>3, <2>4, <2>5, <2>6 DEF Lido
  <2>8. EmExecucao /\ ~SensorFora /\ tanque \notin Finais
    BY <1>6 DEF Ignora, SensorFora
  <2>9. TankTypeOK'
    BY <1>1, <1>2, <2>7 DEF TankInv, TankTypeOK
  <2>10. ~PorComecar
    BY <2>8 DEF SensorInv, PedidoDoStatus, PorComecar, EmExecucao, Em
  <2>11. Comeco'
    BY <1>1, <1>2, <1>3, <2>10 DEF TankInv, Comeco
  <2>12. Ordem'
    BY <1>1, <1>2, <2>1 DEF TankInv, Ordem
  <2>13. EmVooConfere'
    BY <1>1, <2>1, <2>2, <2>3, <2>8 DEF EmVooConfere, Finais
  <2>14. monitor'.para = "VACUO_ESTABILIZADO" /\ monitor'.tanque # "VACUO_ESTABILIZADO"
           => monitor'.limpa
    <3>1. HAVE monitor'.para = "VACUO_ESTABILIZADO" /\ monitor'.tanque # "VACUO_ESTABILIZADO"
    <3>2. alvo /\ ultima.valor # "fora"
      BY <2>1, <2>2, <3>1
    <3>3. Limpa(desde)
      BY <1>1, <2>8, <3>2 DEF TankInv, Sustenta, ForaPendente
    <3> QED BY <2>1, <3>3 DEF Limpa
  <2>15. Limpa(monitor'.novas)
    BY <2>1, <2>4
  <2>16. EmExecucao' /\ alvo' => \/ Limpa(desde)' \/ SensorFora'
                                 \/ monitor' # Livre /\ monitor'.para = "GERANDO_VACUO"
    <3>1. HAVE EmExecucao' /\ alvo'
    <3>2. CASE ultima.valor = "fora"
      BY <2>1, <2>2, <2>7, <3>2, LidoNotLivre
    <3>3. CASE ultima.valor # "fora"
      BY <1>1, <1>3, <2>8, <3>1, <3>3 DEF TankInv, Sustenta, ForaPendente
    <3> QED BY <3>2, <3>3
  <2>17. Sustenta'
    BY <2>14, <2>15, <2>16 DEF Sustenta, Limpa
  <2> QED BY <1>4, <2>9, <2>11, <2>12, <2>13, <2>17 DEF TankInv
<1> QED BY <1>5, <1>6

\* A transaction that writes nothing marks a reading out of tolerance as lost.
LEMMA Lost ==
    ASSUME SensorInv, TankInv, monitor # Livre, monitor' = Livre, Perdida,
           UNCHANGED <<processo, pedido, sensor, chegadas, tanque, etapa, alvo>>,
           UNCHANGED <<leituraVars, estagnacaoVars>>
    PROVE  TankInv'
<1>1. /\ monitor \in Lido /\ desde \in Evidencia
      /\ UNCHANGED <<ultima, ultrapassadas, antigas, fila>>
      /\ UNCHANGED <<estagnacao, alarmeEstagnacao, retrocesso>>
      /\ desde' = IF alvo THEN [desde EXCEPT !.perdida = desde.perdida \/ monitor.valor = "fora"]
                  ELSE desde
  BY DEF TankInv, TankTypeOK, Perdida, leituraVars, estagnacaoVars
<1>2. desde' \in Evidencia
  <2>1. (desde.perdida \/ monitor.valor = "fora") \in BOOLEAN
    BY <1>1 DEF Evidencia
  <2> QED BY <1>1, <2>1 DEF Evidencia
<1>3. TankTypeOK'
  BY <1>1, <1>2 DEF TankInv, TankTypeOK
<1>4. Ordem' /\ Comeco' /\ EmVooConfere' /\ StagnationAlarmAgrees'
  BY <1>1 DEF TankInv, Ordem, Comeco, EmVooConfere, StagnationAlarmAgrees, PorComecar, Em, EmCurso
<1>5. ASSUME EmExecucao', alvo' PROVE Limpa(desde)' \/ ForaPendente' \/ SensorFora'
  <2>1. EmExecucao /\ alvo
    BY <1>5 DEF EmExecucao, Em
  <2>2. desde'.firme = desde.firme /\ desde'.perdida = (desde.perdida \/ monitor.valor = "fora")
    BY <1>1, <2>1 DEF Evidencia
  <2>3. Limpa(desde) \/ ForaPendente \/ SensorFora \/ monitor.valor = "fora"
    BY <2>1 DEF TankInv, Sustenta, EmVooConfere
  <2> QED BY <1>1, <2>2, <2>3 DEF Limpa, ForaPendente, SensorFora, Disponivel
<1>6. Sustenta'
  BY <1>5 DEF Sustenta, Limpa
<1> QED BY <1>3, <1>4, <1>6 DEF TankInv

\* Its conditional writes.
LEMMA MonitorWrites ==
    ASSUME SensorInv, TankInv, MonitorGrava
    PROVE  TankInv'
<1>1. /\ monitor # Livre /\ monitor \in Lido /\ monitor' = Livre
      /\ UNCHANGED <<processo, pedido, sensor, chegadas, etapa>>
      /\ UNCHANGED <<ultima, ultrapassadas, antigas, fila>>
  BY DEF MonitorGrava, TankInv, TankTypeOK, sensorVars, leituraVars
<1>2. /\ (EmExecucao' <=> EmExecucao) /\ (SensorFora' <=> SensorFora)
      /\ (PorComecar' <=> PorComecar) /\ (ForaPendente' <=> ForaPendente)
  BY <1>1 DEF EmExecucao, Em, EmCurso, PorComecar, SensorFora, Disponivel, ForaPendente
<1>3. CASE Confere
  <2>1. /\ tanque' = monitor.para /\ estagnacao' = monitor.detector
        /\ SyncStagnationAlarm(monitor.detector)
        /\ retrocesso' = (retrocesso /\ monitor.detector.status = "SUSPEITA")
        /\ alvo' = (monitor.para = "VACUO_ATINGIDO"
                      /\ IF monitor.evento THEN ~monitor.antiga ELSE alvo)
        /\ desde' = IF ~alvo' THEN Nenhuma ELSE IF monitor.evento THEN monitor.novas ELSE desde
    BY <1>3 DEF MonitorGrava
  <2>2. /\ monitor.para \in Tanques /\ monitor.detector \in Detector
        /\ monitor.novas \in Evidencia /\ monitor.evento \in BOOLEAN
        /\ monitor.antiga \in BOOLEAN
    BY <1>1 DEF Lido
  <2>3. alvo \in BOOLEAN /\ desde \in Evidencia /\ Nenhuma \in Evidencia
    BY MonitorAssumption DEF TankInv, TankTypeOK, Nenhuma, Evidencia
  <2>4. monitor.detector.status \in {"NORMAL", "SUSPEITA", "DETECTADA"}
    BY <2>2 DEF Detector
  <2>5. alarmeEstagnacao = monitor.ativo
    BY <1>1, <1>3 DEF Confere, TankInv, EmVooConfere
  <2>6. alarmeEstagnacao' = (\/ monitor.detector.status = "DETECTADA"
                             \/ monitor.detector.status = "SUSPEITA" /\ alarmeEstagnacao)
    BY <2>1, <2>4, <2>5 DEF SyncStagnationAlarm, TankInv, TankTypeOK
  <2>7. alvo' \in BOOLEAN /\ desde' \in Evidencia
    BY <2>1, <2>2, <2>3
  <2>8. alarmeEstagnacao' \in BOOLEAN /\ retrocesso' \in BOOLEAN
    BY <2>1, <2>6
  <2>9. TankTypeOK'
    BY <1>1, <2>1, <2>2, <2>7, <2>8 DEF TankInv, TankTypeOK
  <2>10. Ordem'
    BY <1>1, <2>1 DEF TankInv, Ordem
  <2>11. ~PorComecar
    BY <1>3 DEF Confere, SensorInv, PedidoDoStatus, PorComecar, EmExecucao, Em
  <2>12. Comeco' /\ EmVooConfere'
    BY <1>1, <1>2, <2>1, <2>11 DEF TankInv, Comeco, EmVooConfere
  <2>13. monitor.tanque \notin Finais /\ monitor.para \notin Finais
         /\ (monitor.detector.status = "SUSPEITA" => monitor.estagnacao.status # "DETECTADA")
    BY <1>1 DEF TankInv, EmVooConfere
  <2>14. StagnationAlarmAgrees'
    BY <1>3, <2>1, <2>6, <2>13 DEF TankInv, StagnationAlarmAgrees, Confere
  <2>15. ASSUME EmExecucao', alvo' PROVE Limpa(desde)' \/ ForaPendente' \/ SensorFora'
    <3>1. CASE monitor.evento
      BY <1>1, <1>2, <2>1, <2>15, <3>1 DEF TankInv, Sustenta, Limpa
    <3>2. CASE ~monitor.evento
      BY <1>1, <1>2, <2>1, <2>15, <3>2 DEF TankInv, Sustenta, Limpa
    <3> QED BY <3>1, <3>2
  <2>16. Sustenta'
    BY <1>1, <2>15 DEF Sustenta, Limpa
  <2> QED BY <2>9, <2>10, <2>12, <2>14, <2>16 DEF TankInv
<1>4. CASE ~Confere
  <2>1. Perdida /\ UNCHANGED <<tanque, alvo, estagnacaoVars>>
    BY <1>4 DEF MonitorGrava
  <2> QED BY <1>1, <2>1, Lost DEF leituraVars, estagnacaoVars
<1> QED BY <1>3, <1>4

\* Its failure.
LEMMA MonitorFails ==
    ASSUME SensorInv, TankInv, MonitorFalha
    PROVE  SensorInv' /\ TankInv'
<1>1. /\ monitor # Livre /\ monitor' = Livre /\ Perdida
      /\ UNCHANGED <<processo, pedido, linha, sensor, alarme, chegadas, noTick, cron, mexido>>
      /\ UNCHANGED <<tanque, etapa, leituraVars, alvo, estagnacaoVars>>
  BY DEF MonitorFalha
<1>2. SensorTypeOK' /\ Contagem'
  BY <1>1 DEF SensorInv, SensorTypeOK, Contagem
<1>3. SensorInv'
  BY <1>1, <1>2, Quiet
<1> QED BY <1>1, <1>3, Lost DEF leituraVars, estagnacaoVars

\* A transaction in flight behind which the version was counted on.
LEMMA Versioned ==
    ASSUME TankInv, Versiona
    PROVE  /\ monitor' \in {Livre} \cup Lido /\ (monitor' = Livre <=> monitor = Livre)
           /\ monitor # Livre =>
                /\ monitor'.tanque = monitor.tanque /\ monitor'.para = monitor.para
                /\ monitor'.valor = monitor.valor /\ monitor'.ativo = monitor.ativo
                /\ monitor'.estagnacao = monitor.estagnacao
                /\ monitor'.detector = monitor.detector /\ monitor'.evento = monitor.evento
                /\ monitor'.antiga = monitor.antiga /\ monitor'.limpa = monitor.limpa
                /\ monitor'.novas = monitor.novas /\ ~monitor'.versao
<1>1. CASE monitor = Livre
  BY <1>1 DEF Versiona
<1>2. CASE monitor # Livre
  <2>1. monitor \in Lido /\ monitor' = [monitor EXCEPT !.versao = FALSE]
    BY <1>2 DEF Versiona, TankInv, TankTypeOK
  <2>2. /\ monitor' \in Lido
        /\ monitor'.tanque = monitor.tanque /\ monitor'.para = monitor.para
        /\ monitor'.valor = monitor.valor /\ monitor'.ativo = monitor.ativo
        /\ monitor'.estagnacao = monitor.estagnacao
        /\ monitor'.detector = monitor.detector /\ monitor'.evento = monitor.evento
        /\ monitor'.antiga = monitor.antiga /\ monitor'.limpa = monitor.limpa
        /\ monitor'.novas = monitor.novas /\ ~monitor'.versao
    BY <2>1 DEF Lido
  <2> QED BY <1>2, <2>2, LidoNotLivre
<1> QED BY <1>1, <1>2

\* A writer that counts the version on, and leaves the target as it is or takes it away.
LEMMA VersionedStep ==
    ASSUME SensorInv, TankInv, Versiona, UNCHANGED leituraVars, UNCHANGED <<sensor, chegadas>>,
           tanque' \in Tanques, estagnacao' \in Detector,
           alarmeEstagnacao' \in BOOLEAN, retrocesso' \in BOOLEAN,
           etapa' \in {"NENHUMA", "RETENDO", "REABRINDO", "CONCLUIDA", "FALHA"},
           \/ SemAlvo
           \/ UNCHANGED alvoVars /\ (alvo => tanque' \notin Finais /\ (EmExecucao' => EmExecucao)),
           PorComecar' => PorComecar /\ (~alarmeEstagnacao => ~alarmeEstagnacao'),
           StagnationAlarmAgrees'
    PROVE  TankInv'
<1>1. UNCHANGED <<ultima, ultrapassadas, antigas, fila>> /\ UNCHANGED <<sensor, chegadas>>
  BY DEF leituraVars
<1>2. /\ alvo' \in BOOLEAN /\ desde' \in Evidencia
      /\ alvo' => alvo /\ desde' = desde /\ tanque' \notin Finais
      /\ EmExecucao' /\ alvo' => EmExecucao
  <2>1. Nenhuma \in Evidencia /\ alvo \in BOOLEAN /\ desde \in Evidencia
    BY MonitorAssumption DEF Nenhuma, Evidencia, TankInv, TankTypeOK
  <2>2. CASE SemAlvo
    BY <2>1, <2>2 DEF SemAlvo
  <2>3. CASE UNCHANGED alvoVars /\ (alvo => tanque' \notin Finais /\ (EmExecucao' => EmExecucao))
    BY <2>1, <2>3 DEF alvoVars
  <2> QED BY <2>2, <2>3
<1>3. TankTypeOK'
  BY <1>1, <1>2, Versioned DEF TankInv, TankTypeOK
<1>4. Ordem'
  BY <1>1, <1>2, Versioned DEF TankInv, Ordem
<1>5. Comeco'
  BY <1>1, <1>2, Versioned DEF TankInv, Comeco
<1>6. EmVooConfere'
  BY Versioned, Decided
<1>7. (ForaPendente' <=> ForaPendente) /\ (SensorFora' <=> SensorFora)
  BY <1>1 DEF ForaPendente, SensorFora, Disponivel
<1>8. EmExecucao' /\ alvo' => \/ Limpa(desde') \/ ForaPendente' \/ SensorFora'
                              \/ monitor' # Livre /\ monitor'.para = "GERANDO_VACUO"
  BY <1>2, <1>7, Versioned DEF TankInv, Sustenta
<1>9. Sustenta'
  BY <1>7, <1>8, Versioned DEF TankInv, Sustenta
<1> QED BY <1>3, <1>4, <1>5, <1>6, <1>9 DEF TankInv

\* The stages of the closure.
LEMMA ClosureStep ==
    ASSUME SensorInv, TankInv, Encerramento
    PROVE  SensorInv' /\ TankInv'
<1>1. PICK de, para \in {"NENHUMA", "RETENDO", "REABRINDO", "CONCLUIDA", "FALHA"} : Encerra(de, para)
  BY DEF Encerramento, ClaimIsolation, EvaluateRetention, CompleteTankClosure,
         RollbackFails, RollbackRetention
<1>2. /\ Versiona /\ UNCHANGED leituraVars /\ etapa' = para
      /\ UNCHANGED <<processo, pedido, linha, sensor, alarme, chegadas, noTick, cron, mexido>>
  BY <1>1 DEF Encerra
<1>3. SensorInv'
  <2>1. SensorTypeOK' /\ Contagem'
    BY <1>2 DEF SensorInv, SensorTypeOK, Contagem
  <2> QED BY <1>2, <2>1, Quiet
<1>4. (EmExecucao' <=> EmExecucao) /\ (PorComecar' <=> PorComecar)
  BY <1>2 DEF EmExecucao, Em, PorComecar, EmCurso
<1>5. /\ tanque \in Tanques /\ estagnacao \in Detector /\ Normal \in Detector
      /\ Normal.status = "NORMAL"
      /\ alarmeEstagnacao \in BOOLEAN /\ retrocesso \in BOOLEAN
      /\ alvo => tanque \notin Finais
      /\ StagnationAlarmAgrees
  BY MonitorAssumption DEF TankInv, TankTypeOK, Comeco, Normal, Detector
<1>6. CASE UNCHANGED <<tanque, alvoVars, estagnacaoVars>>
  <2>1. UNCHANGED <<tanque, estagnacao, alarmeEstagnacao, retrocesso>>
    BY <1>6 DEF estagnacaoVars
  <2>2. StagnationAlarmAgrees'
    BY <1>5, <2>1 DEF StagnationAlarmAgrees
  <2> QED BY <1>2, <1>3, <1>4, <1>5, <1>6, <2>1, <2>2, VersionedStep
<1>7. CASE CompleteTankClosure
  <2>1. tanque' = "CONCLUIDO" /\ estagnacao' = Normal /\ SemAlvo
        /\ alarmeEstagnacao' = FALSE /\ retrocesso' = FALSE
    BY <1>7 DEF CompleteTankClosure, AlarmeNormalizado
  <2>2. StagnationAlarmAgrees'
    BY <1>5, <2>1 DEF StagnationAlarmAgrees
  <2> QED BY <1>2, <1>3, <1>4, <1>5, <2>1, <2>2, VersionedStep DEF Tanques, Finais
<1>8. CASE RollbackRetention
  <2>1. tanque' = "GERANDO_VACUO" /\ estagnacao' = Normal /\ SemAlvo
        /\ alarmeEstagnacao' = alarmeEstagnacao /\ retrocesso' = alarmeEstagnacao
    BY <1>8 DEF RollbackRetention
  <2>2. StagnationAlarmAgrees'
    BY <1>5, <2>1 DEF StagnationAlarmAgrees, Finais
  <2> QED BY <1>2, <1>3, <1>4, <1>5, <2>1, <2>2, VersionedStep DEF Tanques
<1> QED BY <1>6, <1>7, <1>8 DEF Encerramento, ClaimIsolation, EvaluateRetention, RollbackFails

\* The end of a startup.
LEMMA StartedTank ==
    ASSUME SensorInv, TankInv, NEW o \in Operadores, StartTransition(o)
    PROVE  SensorInv' /\ TankInv'
<1>1. /\ Executar(o, "partida_ligada") /\ Versiona /\ UNCHANGED leituraVars
      /\ tanque' = "GERANDO_VACUO" /\ etapa' = "NENHUMA" /\ estagnacao' = Normal
      /\ UNCHANGED alvoVars /\ UNCHANGED <<alarmeEstagnacao, retrocesso>>
  BY DEF StartTransition
<1>2. /\ UNCHANGED <<sensor, chegadas>> /\ SensorInv'
      /\ PorComecar /\ processo' = "EM_EXECUCAO" /\ ~EmCurso(Partidas)'
  BY <1>1, RunStep DEF Executar, PorComecar
<1>3. ~alvo /\ ~alarmeEstagnacao /\ ~PorComecar'
  BY <1>2 DEF TankInv, Comeco, PorComecar, Em
<1>4. /\ Normal \in Detector /\ Normal.status = "NORMAL"
      /\ alarmeEstagnacao' \in BOOLEAN /\ retrocesso' \in BOOLEAN
  BY <1>1, MonitorAssumption DEF Normal, Detector, TankInv, TankTypeOK
<1>5. StagnationAlarmAgrees'
  BY <1>1, <1>3, <1>4 DEF StagnationAlarmAgrees
<1> QED BY <1>1, <1>2, <1>3, <1>4, <1>5, VersionedStep DEF Tanques

\* The end of a finish or of an interruption.
LEMMA FinishedTank ==
    ASSUME SensorInv, TankInv, NEW o \in Operadores, NEW p \in Finais, FinalTransition(o, p)
    PROVE  SensorInv' /\ TankInv'
<1>1. /\ Parar(o, p) /\ Versiona /\ UNCHANGED leituraVars /\ SemAlvo
      /\ tanque' = p /\ estagnacao' = Normal /\ alarmeEstagnacao' = FALSE /\ retrocesso' = FALSE
      /\ etapa' \in {"NENHUMA", "CONCLUIDA"}
  BY DEF FinalTransition, AlarmeNormalizado
<1>2. SensorInv'
  BY <1>1, StopStep DEF Paradas
<1>3. UNCHANGED <<sensor, chegadas>> /\ (PorComecar' => PorComecar)
  <2>1. processo' = p /\ \A r \in Operadores : pedido'[r] = IF r = o THEN "nenhum" ELSE pedido[r]
    BY <1>1, Pedido DEF Parar, Finais
  <2> QED BY <1>1, <2>1 DEF Parar, PorComecar, Em, EmCurso, Finais, Partidas
<1>4. Normal \in Detector /\ tanque' \in Tanques /\ StagnationAlarmAgrees'
  BY <1>1, MonitorAssumption DEF Normal, Detector, Tanques, StagnationAlarmAgrees
<1> QED BY <1>1, <1>2, <1>3, <1>4, VersionedStep

\* An emergency.
LEMMA EmergencyTank ==
    ASSUME SensorInv, TankInv, NEW o \in Operadores, EmergencyStop(o)
    PROVE  SensorInv' /\ TankInv'
<1>1. /\ ClaimEmergencyStop(o) /\ Versiona /\ UNCHANGED leituraVars /\ SemAlvo
      /\ tanque' = "INTERROMPIDO" /\ etapa' = "NENHUMA"
      /\ alarmeEstagnacao' = FALSE /\ retrocesso' = FALSE /\ UNCHANGED estagnacao
  BY DEF EmergencyStop, AlarmeNormalizado
<1>2. SensorInv'
  BY <1>1, StopStep
<1>3. UNCHANGED <<sensor, chegadas>> /\ ~PorComecar'
  BY <1>1 DEF ClaimEmergencyStop, PorComecar, Em, EmCurso, Partidas
<1>4. estagnacao' \in Detector /\ tanque' \in Tanques /\ StagnationAlarmAgrees'
  BY <1>1 DEF TankInv, TankTypeOK, Tanques, StagnationAlarmAgrees, Finais
<1> QED BY <1>1, <1>2, <1>3, <1>4, VersionedStep

\* The end of a resume: what was received, decided or evaluated before it is old.
LEMMA ResumedTank ==
    ASSUME SensorInv, TankInv, NEW o \in Operadores, ResumeTransition(o)
    PROVE  SensorInv' /\ TankInv'
<1>1. /\ Executar(o, "retomada_ligada") /\ alvo' = FALSE /\ desde' = Nenhuma
      /\ ultima' = [ultima EXCEPT !.antiga = TRUE]
      /\ antigas' = [v \in Valores |-> chegadas[v] - ultrapassadas[v]]
      /\ estagnacao' = AntesDaRetomada(estagnacao)
      /\ UNCHANGED <<tanque, etapa, ultrapassadas, fila, alarmeEstagnacao, retrocesso>>
  BY DEF ResumeTransition, SemAlvo
<1>2. /\ UNCHANGED <<sensor, chegadas>> /\ SensorInv'
      /\ processo' = "EM_EXECUCAO" /\ ~EmCurso(Partidas)'
  BY <1>1, RunStep DEF Executar
<1>3. ~PorComecar'
  BY <1>2 DEF PorComecar, Em
<1>4. Nenhuma \in Evidencia
  BY MonitorAssumption DEF Nenhuma, Evidencia
<1>5. /\ ultima' \in [valor : Valores \cup {"nenhuma"}, antiga : BOOLEAN, lida : BOOLEAN]
      /\ ultima'.valor = ultima.valor /\ ultima'.lida = ultima.lida /\ ultima'.antiga
  BY <1>1 DEF TankInv, TankTypeOK
<1>6. ASSUME NEW d \in Detector
      PROVE  AntesDaRetomada(d) \in Detector /\ AntesDaRetomada(d).status = d.status
  BY DEF AntesDaRetomada, Detector
<1>7. estagnacao' \in Detector /\ estagnacao'.status = estagnacao.status
  BY <1>1, <1>6 DEF TankInv, TankTypeOK
<1>8. ASSUME NEW v \in Valores
      PROVE  antigas'[v] \in 0..EmVoo /\ ultrapassadas[v] + antigas'[v] <= chegadas[v]
  <2>1. /\ ultrapassadas[v] \in Nat /\ antigas[v] \in Nat /\ EmVoo \in Nat
        /\ chegadas[v] \in 0..EmVoo /\ ultrapassadas[v] + antigas[v] <= chegadas[v]
    BY SensorAssumption DEF SensorInv, SensorTypeOK, TankInv, TankTypeOK, Ordem, Valores, Leituras
  <2>2. antigas'[v] = chegadas[v] - ultrapassadas[v]
    BY <1>1
  <2> QED BY <2>1, <2>2
<1>9. antigas' \in [Valores -> 0..EmVoo]
  BY <1>1, <1>8
<1>10. StagnationAlarmAgrees'
  BY <1>1, <1>7 DEF TankInv, StagnationAlarmAgrees
<1>11. ForaPendente' <=> ForaPendente
  BY <1>5 DEF ForaPendente
<1>12. CASE monitor = Livre
  <2>1. monitor' = Livre
    BY <1>12 DEF ResumeTransition
  <2>2. TankTypeOK'
    BY <1>1, <1>4, <1>5, <1>7, <1>9, <2>1 DEF TankInv, TankTypeOK
  <2>3. Ordem'
    BY <1>1, <1>2, <1>5, <1>8, <2>1 DEF TankInv, Ordem
  <2>4. Comeco' /\ EmVooConfere' /\ Sustenta'
    BY <1>1, <1>3, <1>5, <2>1 DEF TankInv, Comeco, EmVooConfere, Sustenta
  <2> QED BY <1>2, <1>10, <2>2, <2>3, <2>4 DEF TankInv
<1>13. CASE monitor # Livre
  <2>1. /\ monitor \in Lido /\ monitor.detector \in Detector
        /\ monitor' = [monitor EXCEPT !.antiga = TRUE, !.detector = AntesDaRetomada(monitor.detector)]
    BY <1>13 DEF ResumeTransition, TankInv, TankTypeOK, Lido
  <2>2. PICK d \in Detector : d = AntesDaRetomada(monitor.detector) /\ d.status = monitor.detector.status
    BY <1>6, <2>1
  <2>3. /\ monitor' \in Lido /\ monitor'.antiga /\ monitor'.detector = d
        /\ monitor'.tanque = monitor.tanque /\ monitor'.para = monitor.para
        /\ monitor'.valor = monitor.valor /\ monitor'.ativo = monitor.ativo
        /\ monitor'.estagnacao = monitor.estagnacao /\ monitor'.versao = monitor.versao
        /\ monitor'.limpa = monitor.limpa
    BY <2>1, <2>2 DEF Lido
  <2>4. monitor' # Livre
    BY <2>3, LidoNotLivre
  <2>5. TankTypeOK'
    BY <1>1, <1>4, <1>5, <1>7, <1>9, <2>3 DEF TankInv, TankTypeOK
  <2>6. Ordem'
    BY <1>1, <1>2, <1>5, <1>8, <2>3 DEF TankInv, Ordem
  <2>7. Comeco'
    BY <1>1, <1>3, <1>5 DEF TankInv, Comeco
  <2>8. EmVooConfere'
    BY <1>1, <1>7, <1>13, <2>2, <2>3, <2>4, Decided
  <2>9. Sustenta'
    BY <1>1, <1>13, <2>3 DEF TankInv, Sustenta
  <2> QED BY <1>2, <1>10, <2>5, <2>6, <2>7, <2>8, <2>9 DEF TankInv
<1> QED BY <1>12, <1>13

\* Steps of the sensor and of the requests that do not reach the tank.
LEMMA TankSpared ==
    ASSUME SensorInv, SensorInv', TankInv, UNCHANGED tankVars,
           \/ \E k \in Leituras : Chega(k)
           \/ UpdateDiagnostic \/ MarkSensorFault \/ Tick
           \/ \E o \in Operadores :
                \/ ValidarInicio(o) \/ BeginStartup(o) \/ Retomar(o) \/ LigarLinha(o)
                \/ FalharPedido(o) \/ ConfirmarEmergencia(o) \/ DecidirAlarme(o) \/ ResolverAlarme(o)
                \/ \E p \in Paradas : PedirParada(o, p)
                \/ Parar(o, "pausa")
           \/ IniciarCalibracao \/ Calibrar \/ Ativar \/ Desativar
           \/ Vencer \/ FindTimeout \/ WriteTimeout
    PROVE  TankInv'
<1>0. /\ sensor \in [status : {"ATIVO", "INATIVO", "FALHA", "DESCONECTADO"},
                     integridade : {"VALIDO", "PENDENTE_CALIBRACAO", "TIMEOUT", "REPROVADA"},
                     modo_calibracao_ativo : BOOLEAN, calibrado : BOOLEAN,
                     liberado : BOOLEAN, idade : 0..Antiga]
      /\ chegadas \in [Leituras -> Nat] /\ chegadas' \in [Leituras -> Nat]
      /\ \A v \in Valores : v \in Leituras /\ chegadas[v] \in Nat
  BY SensorAssumption DEF SensorInv, SensorTypeOK, Valores, Leituras
<1> DEFINE Mesmas == \A v \in Valores : chegadas[v] <= chegadas'[v]
<1>a. UNCHANGED chegadas => Mesmas
  BY <1>0
<1> HIDE DEF Mesmas
<1>b. ASSUME Mesmas, UNCHANGED <<processo, pedido>>, EmExecucao /\ SensorFora => SensorFora'
      PROVE  TankInv'
  BY <1>0, <1>b, TankKept DEF Mesmas, EmExecucao, Em, PorComecar, EmCurso
<1>c. ASSUME NEW o \in Operadores, UNCHANGED <<sensor, chegadas>>,
             PorComecar' => PorComecar, EmExecucao' => EmExecucao
      PROVE  TankInv'
  BY <1>0, <1>a, <1>c, TankKept DEF Mesmas, SensorFora, Disponivel
<1>1. ASSUME NEW k \in Leituras, Chega(k) PROVE TankInv'
  <2>1. Mesmas
    BY <1>0, <1>1 DEF Mesmas, Chega
  <2> QED BY <1>1, <1>b, <2>1 DEF Chega, SensorFora, Disponivel
<1>2. CASE UpdateDiagnostic
  <2>1. Mesmas
    BY <1>0, <1>2 DEF Mesmas, UpdateDiagnostic, Atendida, Valores, Leituras
  <2> QED BY <1>0, <1>2, <1>b, <2>1 DEF UpdateDiagnostic, SensorFora, Disponivel
<1>3. CASE MarkSensorFault
  <2>1. Mesmas
    BY <1>0, <1>3 DEF Mesmas, MarkSensorFault, Atendida, Valores, Leituras
  <2> QED BY <1>0, <1>3, <1>b, <2>1 DEF MarkSensorFault, SensorFora, Disponivel
<1>4. CASE Tick
  BY <1>0, <1>4, <1>a, <1>b DEF Tick, SensorFora, Disponivel
<1>5. ASSUME NEW o \in Operadores,
             \/ ValidarInicio(o) \/ BeginStartup(o) \/ Retomar(o) \/ LigarLinha(o)
             \/ FalharPedido(o) \/ ConfirmarEmergencia(o) \/ DecidirAlarme(o) \/ ResolverAlarme(o)
             \/ \E p \in Paradas : PedirParada(o, p)
      PROVE  TankInv'
  <2> USE DEF Partidas, Retomadas, Paradas, Finais
  <2>1. UNCHANGED <<processo, sensor, chegadas>>
    BY <1>5 DEF ValidarInicio, BeginStartup, Retomar, LigarLinha, FalharPedido,
                ConfirmarEmergencia, DecidirAlarme, ResolverAlarme, PedirParada
  <2>2. PorComecar' => PorComecar
    <3>1. CASE BeginStartup(o)
      <4>1. CASE Em("CONFIGURADO")
        BY <4>1 DEF PorComecar
      <4>2. CASE ~Em("CONFIGURADO")
        <5>1. \A r \in Operadores : pedido'[r] = IF r = o THEN "nenhum" ELSE pedido[r]
          BY <3>1, <4>2, Pedido DEF BeginStartup
        <5> QED BY <2>1, <5>1 DEF PorComecar, Em, EmCurso
      <4> QED BY <4>1, <4>2
    <3>2. CASE LigarLinha(o)
      <4>1. \/ pedido[o] = "partida"
            \/ \A r \in Operadores : pedido'[r] = IF r = o THEN "retomada_ligada" ELSE pedido[r]
        BY <3>2, Pedido DEF LigarLinha
      <4> QED BY <2>1, <4>1 DEF PorComecar, Em, EmCurso
    <3>3. ASSUME NEW q \in {"nenhum", "validado", "retomada", "resolucao"} \cup Paradas, NEW de,
                 Passa(o, de, q)
          PROVE  PorComecar' => PorComecar
      <4>1. \A r \in Operadores : pedido'[r] = IF r = o THEN q ELSE pedido[r]
        BY <3>3, Pedido
      <4> QED BY <2>1, <4>1 DEF PorComecar, Em, EmCurso
    <3> QED BY <1>5, <3>1, <3>2, <3>3 DEF ValidarInicio, Retomar, FalharPedido,
                ConfirmarEmergencia, DecidirAlarme, ResolverAlarme, PedirParada
  <2> QED BY <1>c, <2>1, <2>2 DEF EmExecucao, Em
<1>6. ASSUME NEW o \in Operadores, Parar(o, "pausa") PROVE TankInv'
  <2>1. /\ processo' = "PAUSADO" /\ UNCHANGED <<sensor, chegadas>>
        /\ \A r \in Operadores : pedido'[r] = IF r = o THEN "nenhum" ELSE pedido[r]
    BY <1>6, Pedido DEF Parar
  <2> QED BY <1>c, <2>1 DEF EmExecucao, Em, PorComecar, EmCurso, Partidas
<1>7. CASE IniciarCalibracao \/ Calibrar \/ Ativar \/ Desativar
  <2>1. UNCHANGED <<processo, pedido, chegadas>> /\ ~EmExecucao
    BY <1>7 DEF IniciarCalibracao, Calibrar, Ativar, Desativar, Mutacao, Operacional, EmExecucao, Em
  <2> QED BY <1>a, <1>b, <2>1
<1>8. CASE Vencer
  <2>1. UNCHANGED <<processo, pedido, chegadas>> /\ sensor'.calibrado = FALSE
    BY <1>0, <1>8 DEF Vencer
  <2> QED BY <1>a, <1>b, <2>1 DEF SensorFora
<1>9. CASE FindTimeout
  BY <1>9, <1>a, <1>b DEF FindTimeout, SensorFora, Disponivel
<1>10. CASE WriteTimeout
  <2>1. /\ UNCHANGED <<processo, pedido, chegadas>>
        /\ sensor'.status = "DESCONECTADO" \/ UNCHANGED sensor
    BY <1>0, <1>10 DEF WriteTimeout
  <2> QED BY <1>a, <1>b, <2>1 DEF SensorFora, Disponivel
<1> QED BY <1>1, <1>2, <1>3, <1>4, <1>5, <1>6, <1>7, <1>8, <1>9, <1>10

----------------------------------------------------------------------------
(* The invariant *)

\* The initial states satisfy it.
LEMMA InitIInv == Init => IInv
<1> SUFFICES ASSUME Init PROVE IInv
  OBVIOUS
<1>1. Antiga \in Nat /\ 0 \in 0..Antiga /\ 0 \in 0..EmVoo /\ EmVoo \in Nat
  BY SensorAssumption DEF Antiga
<1>2. SensorInv
  <2>1. SensorTypeOK
    BY <1>1 DEF Init, SensorInit, SensorTypeOK
  <2>2. Contagem
    BY DEF Init, SensorInit, Contagem
  <2>3. PedidoDoStatus /\ Supervisionado
    BY DEF Init, SensorInit, PedidoDoStatus, Supervisionado, Em, EmCurso, EmExecucao, Disponivel,
           Partidas, Retomadas
  <2> QED BY <2>1, <2>2, <2>3 DEF SensorInv
<1>3. Nenhuma \in Evidencia /\ Normal \in Detector
  BY MonitorAssumption DEF Nenhuma, Evidencia, Normal, Detector
<1>4. TankInv
  <2>1. TankTypeOK
    BY <1>1, <1>3 DEF Init, TankTypeOK, Tanques
  <2>2. Ordem
    <3>1. \A v \in Valores : ultrapassadas[v] = 0 /\ antigas[v] = 0 /\ chegadas[v] = 0
      BY DEF Init, SensorInit, Valores, Leituras
    <3> QED BY <3>1 DEF Init, Ordem
  <2>3. Comeco /\ EmVooConfere /\ Sustenta
    BY DEF Init, Comeco, EmVooConfere, Sustenta
  <2>4. StagnationAlarmAgrees
    BY DEF Init, StagnationAlarmAgrees, Normal
  <2> QED BY <2>1, <2>2, <2>3, <2>4 DEF TankInv
<1> QED BY <1>2, <1>4 DEF IInv

\* Every step preserves it.
LEMMA NextIInv == IInv /\ [Next]_vars => IInv'
<1> SUFFICES ASSUME SensorInv, TankInv, [Next]_vars PROVE SensorInv' /\ TankInv'
  BY DEF IInv
<1>1. ASSUME NEW k \in Leituras, Chega(k) /\ UNCHANGED tankVars PROVE SensorInv' /\ TankInv'
  BY <1>1, ReadingStep, TankSpared
<1>2. ASSUME NEW k \in Leituras, Escreve(k) PROVE SensorInv' /\ TankInv'
  <2>1. CASE StoreNova(k) \/ StoreAntiga(k) \/ StoreUltrapassada(k)
    <3>1. CreateReading(k)
      BY <2>1 DEF StoreNova, StoreAntiga, StoreUltrapassada, StoreReading
    <3> QED BY <2>1, <3>1, ReadingStep, StoreNewStep, StoreOldStep, StoreOvertakenStep
  <2>2. CASE UpdateDiagnostic /\ UNCHANGED tankVars
    BY <2>2, ReadingStep, TankSpared
  <2>3. CASE MarkSensorFault /\ UNCHANGED tankVars
    BY <2>3, ReadingStep, TankSpared
  <2> QED BY <1>2, <2>1, <2>2, <2>3 DEF Escreve
<1>3. CASE Monitor
  <2>1. UNCHANGED sensorVars
    BY <1>3 DEF Monitor, MonitorLe, MonitorGrava
  <2>2. SensorInv'
    BY <2>1, SensorSpared
  <2> QED BY <1>3, <2>2, MonitorReads, MonitorWrites DEF Monitor
<1>4. CASE MonitorFalha
  BY <1>4, MonitorFails
<1>5. ASSUME NEW o \in Operadores, Pedidos(o) PROVE SensorInv' /\ TankInv'
  <2>1. CASE (ValidarInicio(o) \/ BeginStartup(o) \/ Retomar(o) \/ LigarLinha(o) \/ FalharPedido(o))
               /\ UNCHANGED tankVars
    BY <2>1, StartStep, TankSpared
  <2>2. CASE (ConfirmarEmergencia(o) \/ DecidirAlarme(o) \/ ResolverAlarme(o)) /\ UNCHANGED tankVars
    BY <2>2, StopStep, TankSpared
  <2>3. ASSUME NEW p \in Paradas, PedirParada(o, p) /\ UNCHANGED tankVars
        PROVE  SensorInv' /\ TankInv'
    BY <2>3, StopStep, TankSpared
  <2>4. CASE PauseTransition(o)
    <3>1. "pausa" \in Paradas /\ Parar(o, "pausa") /\ UNCHANGED tankVars
      BY <2>4 DEF PauseTransition, Paradas
    <3> QED BY <3>1, StopStep, TankSpared
  <2> QED BY <1>5, <2>1, <2>2, <2>3, <2>4, StartedTank, ResumedTank, FinishedTank, EmergencyTank
          DEF Pedidos
<1>6. CASE Tecnico
  BY <1>6, DeviceStep, TankSpared DEF Tecnico
<1>7. CASE Encerramento
  BY <1>7, ClosureStep
<1>8. CASE Cron
  BY <1>8, DeviceStep, TankSpared DEF Cron
<1>9. CASE Segundo
  BY <1>9, ReadingStep, TankSpared DEF Segundo
<1>10. CASE UNCHANGED vars
  <2>1. UNCHANGED sensorVars /\ UNCHANGED tankVars /\ UNCHANGED <<processo, pedido, sensor, chegadas>>
    BY <1>10 DEF vars, sensorVars
  <2>2. SensorInv'
    BY <2>1, SensorSpared
  <2>3. /\ chegadas \in [Leituras -> Nat] /\ chegadas' \in [Leituras -> Nat]
        /\ \A v \in Valores : chegadas[v] <= chegadas'[v]
    BY <2>1, SensorAssumption DEF SensorInv, SensorTypeOK, Valores, Leituras
  <2>4. TankInv'
    BY <2>1, <2>3, TankKept DEF SensorFora, Disponivel, EmExecucao, Em, PorComecar, EmCurso
  <2> QED BY <2>2, <2>4
<1> QED BY <1>1, <1>2, <1>3, <1>4, <1>5, <1>6, <1>7, <1>8, <1>9, <1>10 DEF Next

\* It holds always.
THEOREM Invariance == Spec => []IInv
BY InitIInv, NextIInv, PTL DEF Spec

----------------------------------------------------------------------------
(* The properties *)

\* Every variable keeps its type: the counts of readings stay within what may be in
\* flight, those overtaken among them, the evidence and the detector within their
\* limits.
THEOREM Typing == Spec => []TypeOK
<1>1. IInv => TypeOK
  BY DEF IInv, SensorInv, TankInv, TankTypeOK, TypeOK
<1> QED BY <1>1, Invariance, PTL

\* A process runs with an available sensor or an active alarm, however many requests
\* overtake each other, unless the equipment was changed or the alarm closed behind a
\* validation.
THEOREM SupervisionTheorem == Spec => []SupervisedOrAlarmed
<1>1. IInv => SupervisedOrAlarmed
  BY DEF IInv, SensorInv, Supervisionado, SupervisedOrAlarmed
<1> QED BY <1>1, Invariance, PTL

\* The alarm of stagnation says what the detector of a tank that is not terminal says,
\* but for a retention rolled back, and a terminal tank has none.
THEOREM StagnationTheorem == Spec => []StagnationAlarmAgrees
<1>1. IInv => StagnationAlarmAgrees
  BY DEF IInv, TankInv
<1> QED BY <1>1, Invariance, PTL

\* A tank is stabilised only by steady readings of one run, but for those out of
\* tolerance that were never judged.
THEOREM StabilisedTheorem == Spec => StabilisedWasSteady
<1>1. IInv /\ [Next]_vars
        => [tanque # "VACUO_ESTABILIZADO" /\ tanque' = "VACUO_ESTABILIZADO" => monitor.limpa]_vars
  <2> SUFFICES ASSUME IInv, Next, tanque # "VACUO_ESTABILIZADO", tanque' = "VACUO_ESTABILIZADO"
               PROVE  monitor.limpa
    BY DEF vars, tankVars
  <2>1. MonitorGrava
    <3>1. ASSUME NEW k \in Leituras, (Chega(k) /\ UNCHANGED tankVars) \/ Escreve(k) PROVE FALSE
      BY <3>1 DEF Escreve, StoreNova, StoreAntiga, StoreUltrapassada, StoreReading, tankVars
    <3>2. ASSUME NEW o \in Operadores, Pedidos(o) PROVE FALSE
      BY <3>2 DEF Pedidos, StartTransition, ResumeTransition, PauseTransition, EmergencyStop,
                  FinalTransition, tankVars, Finais
    <3>3. ~Encerramento
      BY DEF Encerramento, ClaimIsolation, EvaluateRetention, CompleteTankClosure,
         RollbackFails, RollbackRetention
    <3> QED BY <3>1, <3>2, <3>3 DEF Next, Monitor, MonitorLe, MonitorFalha, Tecnico, Cron, Segundo,
                                    tankVars
  <2>2. monitor # Livre /\ tanque' = monitor.para /\ tanque = monitor.tanque
    BY <2>1 DEF MonitorGrava, Confere
  <2> QED BY <2>2 DEF IInv, TankInv, Sustenta
<1> QED BY <1>1, Invariance, PTL DEF Spec, StabilisedWasSteady
=============================================================================
