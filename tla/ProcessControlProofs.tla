------------------------ MODULE ProcessControlProofs ------------------------
(***************************************************************************)
(* Theorems of ProcessControl, for any processes, requests, tanks and      *)
(* failures: types first, then the inductive invariant Controle of the     *)
(* control while Serial, and from it the properties of the pump, of failed *)
(* startups and of emergencies; last, over it, what an undisturbed startup *)
(* leaves at the controller.                                               *)
(***************************************************************************)
EXTENDS ProcessControl, FiniteSetTheorems, TLAPS

----------------------------------------------------------------------------
(* Types.  Of the scenario only the failures left change, so that the      *)
(* tanks of the line are the same in every state.                          *)

Operacoes == {"partida", "retomada", "pausa", "conclusao", "interrupcao", "emergencia", "geral",
              "controlador", "mqtt", "edicao"}
Falhas == {"queda", "perda", "reset", "local", "botao", "banco", "lentidao"}
CenarioRec ==
    [processos : (SUBSET Processos) \ {{}}, requests : SUBSET Requests, tanques : Nat \ {0},
     operacoes : SUBSET Operacoes, falhas : SUBSET Falhas, restam : Nat]
Saidas == [bomba : BOOLEAN, abertas : SUBSET Tanques, latch : BOOLEAN,
           carregado : Processos \cup {NenhumProcesso}, selecionados : SUBSET Tanques,
           sincronizado : BOOLEAN]
Snapshot == [bomba : BOOLEAN, abertas : SUBSET Tanques, latch : BOOLEAN, apos : SUBSET Marcadores]

Typed ==
    /\ cenario \in CenarioRec
    /\ processos \in [Processos -> Row]
    /\ exec \in [Actors -> Exec]
    /\ esp \in Saidas
    /\ telemetria \in Snapshot
    /\ respostas \in [Processos -> [Ids -> Resposta]]
    /\ mqttLease \in BOOLEAN

\* What a step keeps of the scenario.
Mesma == cenario' \in CenarioRec /\ Tanques' = Tanques /\ Row' = Row /\ Exec' = Exec
         /\ Saidas' = Saidas /\ Snapshot' = Snapshot

\* A failure is one less of those left: Fail.
LEMMA FalhaTipo ==
    ASSUME cenario \in CenarioRec, UNCHANGED cenario \/ \E f \in Falhas : Fail(f)
    PROVE  Mesma
  <1>1. cenario' \in CenarioRec /\ cenario'.tanques = cenario.tanques
    <2>1. CASE UNCHANGED cenario
      BY <2>1
    <2>2. CASE \E f \in Falhas : Fail(f)
      <3>1. cenario' = [cenario EXCEPT !.restam = @ - 1] /\ cenario.restam > 0
        BY <2>2 DEF Fail
      <3>2. cenario.restam - 1 \in Nat
        BY <3>1 DEF CenarioRec
      <3> DEFINE n == cenario.restam - 1
      <3>3. cenario' = [cenario EXCEPT !.restam = n]
        BY <3>1
      <3> HIDE DEF n
      <3> QED BY <3>2, <3>3 DEF CenarioRec, n
    <2> QED BY <2>1, <2>2
  <1>2. Tanques' = Tanques
    BY <1>1 DEF Tanques
  <1> QED BY <1>1, <1>2 DEF Mesma, Row, Exec, Saidas, Snapshot

\* A row is written: Gravar.
LEMMA GravarTipo ==
    ASSUME processos \in [Processos -> Row], NEW p, NEW row, p \in Processos => row \in Row,
           Gravar(p, row)
    PROVE  processos' \in [Processos -> Row]
  BY DEF Gravar

\* An actor goes on to another step, or ends: Vai, IniciaParada, Termina.
Passos == {"livre", "bombas", "valvulas", "tocar", "esperar", "comando",
           "concluir", "gravar", "reivindicar", "consultar", "finalizar",
           "agendar", "assumir", "reconciliar", "parada_emergencia",
           "fechar_emergencia", "registrar_emergencia"}
Fases == {"prepare", "interno", "rollback", "race", "parada", "avulsa"}
\* An actor goes on to its next step: Vai.
LEMMA VaiTipo ==
    ASSUME exec \in [Actors -> Exec], NEW a \in Actors, NEW pc \in Passos, Vai(a, pc)
    PROVE  exec' \in [Actors -> Exec]
  <1> DEFINE e == [exec[a] EXCEPT !.pc = pc]
  <1>1. e \in Exec
    BY DEF Exec, Passos
  <1>2. exec' = [exec EXCEPT ![a] = e]
    BY DEF Vai
  <1> HIDE DEF e
  <1> QED BY <1>1, <1>2

\* An actor begins a shutdown: IniciaParada.
LEMMA ParadaTipo ==
    ASSUME exec \in [Actors -> Exec], NEW a \in Actors, NEW fase \in Fases, IniciaParada(a, fase)
    PROVE  exec' \in [Actors -> Exec]
  <1> DEFINE e == [exec[a] EXCEPT !.pc = "bombas", !.fase = fase, !.falhou = FALSE]
  <1>1. e \in Exec
    BY DEF Exec, Fases
  <1>2. exec' = [exec EXCEPT ![a] = e]
    BY DEF IniciaParada
  <1> HIDE DEF e
  <1> QED BY <1>1, <1>2

\* The record of an actor that is doing nothing.
LEMMA LivreTipo == Livre \in Exec /\ Livre.p = NenhumProcesso
  BY DEF Livre, Exec, Etapas

\* An actor ends: Termina.
LEMMA TerminaTipo ==
    ASSUME exec \in [Actors -> Exec], NEW a \in Actors, Termina(a)
    PROVE  exec' \in [Actors -> Exec]
  BY LivreTipo DEF Termina

\* A marker takes a telemetry away from those that are after it: Marca.
LEMMA MarcaTipo ==
    ASSUME telemetria \in Snapshot, NEW kind, NEW p, Marca(kind, p)
    PROVE  telemetria' \in Snapshot
  BY DEF Marca, Snapshot

\* A command, answered, lost or refused: Comando.
LEMMA ComandoTipo ==
    ASSUME Typed, NEW a \in Actors, NEW cmd \in Etapas \cup {"bombas", "valvulas"},
           NEW ok \in BOOLEAN, Comando(a, cmd, ok)
    PROVE  Mesma /\ esp' \in Saidas /\ respostas' \in [Processos -> [Ids -> Resposta]]
  <1>0. exec[a] \in Exec /\ esp \in Saidas
    BY DEF Typed
  <1>1. UNCHANGED cenario \/ Fail("perda")
    BY DEF Comando
  <1>2. Mesma
    BY <1>1, FalhaTipo DEF Typed, Falhas
  <1>3. EspAceita(cmd, a) => EspExecuta(cmd, a) \in Saidas
    <2> SUFFICES ASSUME EspAceita(cmd, a) PROVE EspExecuta(cmd, a) \in Saidas
      OBVIOUS
    <2>1. cmd = "ABRINDO_VALVULAS_PRINCIPAIS" => Primeiro(exec[a].alvos) \in Tanques
      BY <1>0 DEF EspAceita, Saidas
    <2> HIDE DEF Primeiro, Tanques
    <2>2. CASE cmd = "ABRINDO_VALVULAS_PRINCIPAIS"
      BY <1>0, <2>1, <2>2 DEF EspExecuta, Saidas
    <2>3. CASE cmd = "CARREGANDO_PROCESSO"
      BY <1>0, <2>3 DEF EspExecuta, Saidas, Exec
    <2>4. CASE cmd \in {"bombas", "valvulas", "SINCRONIZANDO_HARDWARE", "LIGANDO_BOMBA_PRINCIPAL"}
      BY <1>0, <2>4 DEF EspExecuta, Saidas
    <2>5. cmd # "CONFIRMANDO_TELEMETRIA"
      BY DEF EspAceita
    <2> QED BY <2>2, <2>3, <2>4, <2>5 DEF Etapas
  <1>4. esp' \in Saidas
    <2>1. esp' = esp \/ (EspAceita(cmd, a) /\ esp' = EspExecuta(cmd, a))
      BY DEF Comando
    <2> QED BY <1>0, <1>3, <2>1
  <1>5. respostas' \in [Processos -> [Ids -> Resposta]]
    <2>1. ASSUME NEW r \in Resposta, Lembra(a, cmd, r)
          PROVE  respostas' \in [Processos -> [Ids -> Resposta]]
      <3>1. CASE ~ Repetido(a, cmd)
        BY <2>1, <3>1 DEF Lembra, Typed
      <3>2. CASE Repetido(a, cmd)
        <4> DEFINE p == exec[a].p
        <4> DEFINE f == [respostas[p] EXCEPT ![<<Prefixo(a), cmd>>] = r]
        <4>1. p \in Processos => f \in [Ids -> Resposta]
          BY DEF Typed
        <4>2. respostas' = [respostas EXCEPT ![p] = f]
          BY <2>1, <3>2 DEF Lembra, Typed
        <4> HIDE DEF f, p
        <4> QED BY <4>1, <4>2 DEF Typed
      <3> QED BY <3>1, <3>2
    <2>2. \/ UNCHANGED respostas
          \/ \E r \in Resposta : Lembra(a, cmd, r)
      BY DEF Comando, Resposta
    <2> QED BY <2>1, <2>2 DEF Typed
  <1> QED BY <1>2, <1>4, <1>5

\* What happens to the row of the actor's process, when the actor writes it.
RowDe(a) == exec[a].p \in Processos => processos[exec[a].p] \in Row

\* The two commands of a shutdown: DesligarTodasBombas and FecharTodasValvulas.
LEMMA ParadaTyped ==
    ASSUME Typed, NEW a \in Actors, DesligarTodasBombas(a) \/ FecharTodasValvulas(a)
    PROVE  Typed'
  <1>1. ASSUME DesligarTodasBombas(a) PROVE Typed'
    <2>1. PICK ok \in BOOLEAN :
            /\ Comando(a, "bombas", ok)
            /\ exec' = [exec EXCEPT ![a].pc = "valvulas", ![a].falhou = ~ok]
      BY <1>1 DEF DesligarTodasBombas
    <2>2. Mesma /\ esp' \in Saidas /\ respostas' \in [Processos -> [Ids -> Resposta]]
      BY <2>1, ComandoTipo
    <2>3. exec' \in [Actors -> Exec]
      <3> DEFINE e == [exec[a] EXCEPT !.pc = "valvulas", !.falhou = ~ok]
      <3>1. e \in Exec
        BY DEF Exec, Typed
      <3>2. exec' = [exec EXCEPT ![a] = e]
        BY <2>1 DEF Typed
      <3> HIDE DEF e
      <3> QED BY <3>1, <3>2 DEF Typed
    <2> QED BY <1>1, <2>2, <2>3 DEF DesligarTodasBombas, Typed, Mesma
  <1>2. ASSUME FecharTodasValvulas(a) PROVE Typed'
    <2>1. PICK ok \in BOOLEAN :
            Comando(a, "valvulas", ok) /\ DepoisDaParada(a, ParadaConfirmada(a, ok))
      BY <1>2 DEF FecharTodasValvulas
    <2>2. Mesma /\ esp' \in Saidas /\ respostas' \in [Processos -> [Ids -> Resposta]]
      BY <2>1, ComandoTipo
    <2>3. exec' \in [Actors -> Exec]
      <3> DEFINE conf == ParadaConfirmada(a, ok)
      <3> HIDE DEF conf
      <3>0. DepoisDaParada(a, conf)
        BY <2>1 DEF conf
      <3>1. ASSUME NEW pc \in {"tocar", "comando"},
                   exec' = [exec EXCEPT ![a].pc = pc, ![a].etapa = "SINCRONIZANDO_HARDWARE"]
            PROVE  exec' \in [Actors -> Exec]
        <4> DEFINE e == [exec[a] EXCEPT !.pc = pc, !.etapa = "SINCRONIZANDO_HARDWARE"]
        <4>0. exec[a] \in Exec /\ "SINCRONIZANDO_HARDWARE" \in Etapas
          BY DEF Typed, Etapas
        <4>1. e \in Exec
          BY <4>0 DEF Exec
        <4>2. exec' = [exec EXCEPT ![a] = e]
          BY <3>1 DEF Typed
        <4> HIDE DEF e
        <4> QED BY <4>1, <4>2 DEF Typed
      <3>2. \/ \E pc \in {"tocar", "comando"} :
                 exec' = [exec EXCEPT ![a].pc = pc, ![a].etapa = "SINCRONIZANDO_HARDWARE"]
            \/ \E pc \in {"reivindicar", "finalizar", "agendar", "gravar"} : Vai(a, pc)
            \/ Termina(a)
        BY <3>0 DEF DepoisDaParada
      <3> QED BY <3>1, <3>2, VaiTipo, TerminaTipo DEF Typed, Passos
    <2> QED BY <1>2, <2>2, <2>3 DEF FecharTodasValvulas, Typed, Mesma
  <1> QED BY <1>1, <1>2

\* A stage of a startup: the touch, the wait and the command.
LEMMA EtapaTyped ==
    ASSUME Typed, NEW a \in Actors, Tocar(a) \/ Esperar(a) \/ ComandoDaEtapa(a)
    PROVE  Typed'
  <1>0. exec[a] \in Exec /\ RowDe(a)
    BY DEF Typed, RowDe
  <1>1. ASSUME Tocar(a) PROVE Typed'
    <2>1. exec' \in [Actors -> Exec]
      BY <1>1, VaiTipo, ParadaTipo DEF Tocar, Typed, Passos, Fases
    <2>2. processos' \in [Processos -> Row]
      <3>1. exec[a].p \in Processos =>
              [processos[exec[a].p] EXCEPT !.lease = TRUE, !.lido = {a}] \in Row
        BY <1>0 DEF RowDe, Row
      <3> QED BY <1>1, <3>1, GravarTipo DEF Tocar, Typed
    <2>3. Mesma
      BY <1>1, FalhaTipo DEF Tocar, Typed
    <2> QED BY <1>1, <2>1, <2>2, <2>3 DEF Tocar, Typed, Mesma
  <1>2. ASSUME Esperar(a) PROVE Typed'
    <2>1. exec' \in [Actors -> Exec]
      BY <1>2, VaiTipo DEF Esperar, Typed, Passos
    <2>2. Mesma
      BY <1>2, FalhaTipo DEF Esperar, Typed
    <2> QED BY <1>2, <2>1, <2>2 DEF Esperar, Typed, Mesma
  <1>3. ASSUME ComandoDaEtapa(a) PROVE Typed'
    <2>1. PICK ok \in BOOLEAN : Comando(a, exec[a].etapa, ok) /\ DepoisDoComando(a, ok)
      BY <1>3 DEF ComandoDaEtapa
    <2>2. Mesma /\ esp' \in Saidas /\ respostas' \in [Processos -> [Ids -> Resposta]]
      BY <1>0, <2>1, ComandoTipo DEF Exec
    <2>3. exec' \in [Actors -> Exec]
      <3>1. CASE exec' = [exec EXCEPT ![a].alvos = @ \ {Primeiro(@)}]
        <4> DEFINE e == [exec[a] EXCEPT !.alvos = @ \ {Primeiro(@)}]
        <4>1. e \in Exec
          BY <1>0 DEF Exec
        <4>2. exec' = [exec EXCEPT ![a] = e]
          BY <3>1 DEF Typed
        <4> HIDE DEF e
        <4> QED BY <4>1, <4>2 DEF Typed
      <3>2. ASSUME NEW pc \in {"tocar", "gravar", "comando"}, NEW alvos \in SUBSET Tanques,
                   exec' = [exec EXCEPT ![a].pc = pc, ![a].etapa = Proxima(exec[a].etapa),
                                        ![a].alvos = alvos]
            PROVE  exec' \in [Actors -> Exec]
        <4>1. Proxima(exec[a].etapa) \in Etapas
          BY DEF Proxima, Etapas
        <4> DEFINE e == [exec[a] EXCEPT !.pc = pc, !.etapa = Proxima(exec[a].etapa), !.alvos = alvos]
        <4>2. e \in Exec
          BY <1>0, <4>1 DEF Exec
        <4>3. exec' = [exec EXCEPT ![a] = e]
          BY <3>2 DEF Typed
        <4> HIDE DEF e
        <4> QED BY <4>2, <4>3 DEF Typed
      <3> DEFINE abrindo == exec[a].etapa = "ABRINDO_VALVULAS_PRINCIPAIS"
      <3> DEFINE segue == [exec EXCEPT
                 ![a].pc = IF exec[a].modo = "partida" THEN "tocar"
                           ELSE IF exec[a].etapa = "LIGANDO_BOMBA_PRINCIPAL" THEN "gravar" ELSE "comando",
                 ![a].etapa = Proxima(exec[a].etapa),
                 ![a].alvos = IF abrindo THEN {} ELSE @]
      <3>3. CASE exec' = segue
        <4>1. PICK pc \in {"tocar", "gravar", "comando"} :
                pc = IF exec[a].modo = "partida" THEN "tocar"
                     ELSE IF exec[a].etapa = "LIGANDO_BOMBA_PRINCIPAL" THEN "gravar" ELSE "comando"
          OBVIOUS
        <4>2. PICK alvos \in SUBSET Tanques : alvos = IF abrindo THEN {} ELSE exec[a].alvos
          BY <1>0 DEF Exec
        <4>3. exec' = [exec EXCEPT ![a].pc = pc, ![a].etapa = Proxima(exec[a].etapa),
                                   ![a].alvos = alvos]
          BY <3>3, <4>1, <4>2 DEF Typed
        <4> QED BY <3>2, <4>3
      <3>4. \/ exec' = [exec EXCEPT ![a].alvos = @ \ {Primeiro(@)}]
            \/ exec' = segue
            \/ IniciaParada(a, "interno") \/ Vai(a, "reivindicar") \/ Termina(a)
        BY <2>1 DEF DepoisDoComando
      <3> QED BY <3>1, <3>3, <3>4, VaiTipo, ParadaTipo, TerminaTipo DEF Typed, Passos, Fases
    <2> QED BY <1>3, <2>2, <2>3 DEF ComandoDaEtapa, Typed, Mesma
  <1> QED BY <1>1, <1>2, <1>3

\* The end of a startup, confirmed, rolled back or left to the recovery.
LEMMA FimTyped ==
    ASSUME Typed, NEW a \in Actors,
           \/ Concluir(a) \/ Reivindicar(a) \/ Consultar(a)
           \/ FinishFailedStartup(a) \/ ScheduleRollbackRetry(a) \/ ApplyLifecycleTransition(a)
    PROVE  Typed'
  <1>0. exec[a] \in Exec /\ RowDe(a)
    BY DEF Typed, RowDe
  <1>1. UNCHANGED <<esp, telemetria, respostas, mqttLease, cenario>>
    BY DEF Concluir, Reivindicar, Consultar, FinishFailedStartup, ScheduleRollbackRetry,
           ApplyLifecycleTransition
  <1>2. Mesma
    BY <1>1, FalhaTipo DEF Typed
  <1>3. exec' \in [Actors -> Exec]
    BY VaiTipo, ParadaTipo, TerminaTipo
       DEF Typed, Passos, Fases, Concluir, Reivindicar, Consultar, FinishFailedStartup,
           ScheduleRollbackRetry, ApplyLifecycleTransition
  <1>4. processos' \in [Processos -> Row]
    <2> DEFINE p == exec[a].p
    <2> DEFINE row == processos[p]
    <2>0. row \in Row \/ p \notin Processos
      BY <1>0 DEF RowDe
    <2>1. CASE UNCHANGED processos
      BY <2>1 DEF Typed
    <2>2. ASSUME NEW r, p \in Processos => r \in Row, Gravar(p, r) PROVE processos' \in [Processos -> Row]
      BY <2>2, GravarTipo DEF Typed
    <2> HIDE DEF row
    <2>3. CASE Concluir(a)
      <3>1. row \in Row => [row EXCEPT !.status = "EM_EXECUCAO", !.partida = "CONCLUIDA",
                                       !.lease = FALSE, !.lido = {}, !.emergencia = FALSE] \in Row
        BY DEF Row
      <3> QED BY <2>0, <2>1, <2>2, <2>3, <3>1 DEF Concluir, row
    <2>4. CASE Reivindicar(a)
      <3>1. row \in Row => [row EXCEPT !.lease = TRUE, !.lido = {a}] \in Row
        BY DEF Row
      <3> QED BY <2>0, <2>1, <2>2, <2>4, <3>1 DEF Reivindicar, row
    <2>5. CASE FinishFailedStartup(a)
      <3>1. row \in Row => [row EXCEPT !.partida = "FALHA", !.lease = FALSE, !.lido = {}] \in Row
        BY DEF Row
      <3> QED BY <2>0, <2>1, <2>2, <2>5, <3>1 DEF FinishFailedStartup, row
    <2>6. CASE ScheduleRollbackRetry(a)
      <3>1. row \in Row => [row EXCEPT !.lease = TRUE, !.lido = {}] \in Row
        BY DEF Row
      <3> QED BY <2>0, <2>1, <2>2, <2>6, <3>1 DEF ScheduleRollbackRetry, row
    <2>7. CASE ApplyLifecycleTransition(a)
      <3>1. row \in Row => Transicao(exec[a].modo, row) \in Row
        BY DEF Row, Transicao
      <3> QED BY <2>0, <2>1, <2>2, <2>7, <3>1 DEF ApplyLifecycleTransition, row
    <2> QED BY <2>1, <2>3, <2>4, <2>5, <2>6, <2>7 DEF Consultar
  <1> QED BY <1>1, <1>2, <1>3, <1>4 DEF Typed, Mesma

\* The rows that an emergency writes, and the sequence of its commands.
LEMMA EmergenciaTipo ==
    /\ \A row \in Row : RowEmEmergencia(row) \in Row
    /\ \A row \in Row : [row EXCEPT !.encerramento = "ENCERRANDO"] \in Row
    /\ \A row \in Row : [row EXCEPT !.encerramento = "CONFIRMANDO_HARDWARE"] \in Row
    /\ \A row \in Row : [row EXCEPT !.encerramento = "CONCLUIDO"] \in Row
    /\ \A row \in Row : [row EXCEPT !.encerramento = "FALHA"] \in Row
    /\ \A p \in Processos \cup {NenhumProcesso} :
         SequenciaDe(p) \in Exec /\ SequenciaAvulsa(p) \in Exec
  <1>1. \A row \in Row : InvalidaPartida(row) \in Row
    <2> SUFFICES ASSUME NEW row \in Row PROVE InvalidaPartida(row) \in Row
      OBVIOUS
    <2>1. [row EXCEPT !.partida = "FALHA", !.lease = FALSE, !.lido = {}] \in Row
      BY DEF Row
    <2> QED BY <2>1 DEF InvalidaPartida
  <1>2. \A row \in Row : RowEmEmergencia(row) \in Row
    <2> SUFFICES ASSUME NEW row \in Row PROVE RowEmEmergencia(row) \in Row
      OBVIOUS
    <2>1. PICK r \in Row : r = InvalidaPartida(row)
      BY <1>1
    <2>2. [r EXCEPT !.status = "INTERROMPIDO", !.emergencia = TRUE,
                    !.encerramento = "ENCERRANDO"] \in Row
      BY DEF Row
    <2> QED BY <2>1, <2>2 DEF RowEmEmergencia
  <1>3. \A p \in Processos \cup {NenhumProcesso} : SequenciaDe(p) \in Exec
    BY LivreTipo DEF SequenciaDe, Exec
  <1>4. \A p \in Processos \cup {NenhumProcesso} : SequenciaAvulsa(p) \in Exec
    BY <1>3 DEF SequenciaAvulsa, Exec
  <1> QED BY <1>2, <1>3, <1>4 DEF Row

\* An emergency stop is claimed for a process, or the claim fails.
LEMMA ClaimTyped ==
    ASSUME Typed, NEW a \in Actors, NEW p \in Processos \cup {NenhumProcesso},
           ClaimEmergencyStop(a, p) \/ ClaimFails(a, p)
    PROVE  Typed'
  <1>1. CASE ClaimEmergencyStop(a, p)
    <2>1. Mesma
      BY <1>1, FalhaTipo DEF ClaimEmergencyStop, Typed
    <2>2. p \in Processos => RowEmEmergencia(processos[p]) \in Row
      BY EmergenciaTipo DEF Typed
    <2>3. processos' \in [Processos -> Row]
      BY <1>1, <2>2, GravarTipo DEF ClaimEmergencyStop, Typed
    <2>4. exec' \in [Actors -> Exec]
      BY <1>1, EmergenciaTipo DEF ClaimEmergencyStop, Typed
    <2>5. telemetria' \in Snapshot
      BY <1>1, MarcaTipo DEF ClaimEmergencyStop, Typed
    <2> QED BY <1>1, <2>1, <2>3, <2>4, <2>5 DEF ClaimEmergencyStop, Typed, Mesma
  <1>2. CASE ClaimFails(a, p)
    <2>1. Mesma
      BY <1>2, FalhaTipo DEF ClaimFails, Typed, Falhas
    <2>2. exec' \in [Actors -> Exec]
      BY <1>2, EmergenciaTipo DEF ClaimFails, Typed
    <2> QED BY <1>2, <2>1, <2>2 DEF ClaimFails, Typed, Mesma
  <1> QED BY <1>1, <1>2

\* The commands of an emergency, the row after them, and its scheduler.
LEMMA EmergencyTyped ==
    ASSUME Typed, NEW a \in Actors,
           \/ RequestEmergencyStop(a) \/ ParadaEmergencia(a) \/ FecharEmergencia(a)
           \/ RegistrarEmergencia(a) \/ EmergencyScheduler
    PROVE  Typed'
  <1>0. exec[a] \in Exec /\ esp \in Saidas /\ Encerrador \in Actors
    BY DEF Typed, Actors
  <1>1. CASE RequestEmergencyStop(a)
    <2>1. CASE ClaimEmergencyStop(a, exec[a].p) \/ ClaimFails(a, exec[a].p)
      BY <1>0, <2>1, ClaimTyped DEF Exec
    <2>2. CASE /\ Termina(a)
               /\ UNCHANGED <<processos, esp, telemetria, respostas, mqttLease, cenario>>
      BY <2>2, FalhaTipo, TerminaTipo DEF Typed, Mesma
    <2> QED BY <1>1, <2>1, <2>2 DEF RequestEmergencyStop
  <1>2. CASE ParadaEmergencia(a)
    <2>1. Mesma
      BY <1>2, FalhaTipo DEF ParadaEmergencia, Typed, Falhas
    <2>2. esp' \in Saidas
      <3>1. [esp EXCEPT !.bomba = FALSE] \in Saidas
        BY <1>0 DEF Saidas
      <3>2. SemProcesso([esp EXCEPT !.bomba = FALSE, !.abertas = {}, !.latch = TRUE]) \in Saidas
        BY <1>0 DEF Saidas, SemProcesso
      <3> QED BY <1>0, <1>2, <3>1, <3>2 DEF ParadaEmergencia
    <2>3. exec' \in [Actors -> Exec]
      BY <1>2, VaiTipo DEF ParadaEmergencia, Typed, Passos
    <2> QED BY <1>2, <2>1, <2>2, <2>3 DEF ParadaEmergencia, Typed, Mesma
  <1>3. CASE FecharEmergencia(a)
    <2>1. Mesma
      BY <1>3, FalhaTipo DEF FecharEmergencia, Typed, Falhas
    <2>2. esp' \in Saidas
      BY <1>0, <1>3 DEF FecharEmergencia, Saidas
    <2>3. exec' \in [Actors -> Exec]
      BY <1>3, VaiTipo, TerminaTipo DEF FecharEmergencia, Typed, Passos
    <2> QED BY <1>3, <2>1, <2>2, <2>3 DEF FecharEmergencia, Typed, Mesma
  <1>4. CASE RegistrarEmergencia(a)
    <2>1. Mesma
      BY <1>4, FalhaTipo DEF RegistrarEmergencia, Typed
    <2>2. exec' \in [Actors -> Exec]
      BY <1>4, TerminaTipo DEF RegistrarEmergencia, Typed
    <2>3. processos' \in [Processos -> Row]
      <3>1. exec[a].p \in Processos =>
              [processos[exec[a].p] EXCEPT !.encerramento = "CONFIRMANDO_HARDWARE"] \in Row
        BY EmergenciaTipo DEF Typed
      <3> QED BY <1>4, <3>1, GravarTipo DEF RegistrarEmergencia, Typed
    <2>4. telemetria' \in Snapshot
      BY <1>4, MarcaTipo DEF RegistrarEmergencia, Typed
    <2> QED BY <1>4, <2>1, <2>2, <2>3, <2>4 DEF RegistrarEmergencia, Typed, Mesma
  <1>5. ASSUME NEW p \in Processos, ClaimEmergencySequence(p) PROVE Typed'
    <2>1. Mesma
      BY <1>5, FalhaTipo DEF ClaimEmergencySequence, Typed
    <2>2. exec' \in [Actors -> Exec]
      BY <1>5, EmergenciaTipo DEF ClaimEmergencySequence, Typed
    <2>3. processos' \in [Processos -> Row]
      BY <1>5, GravarTipo, EmergenciaTipo DEF ClaimEmergencySequence, Typed
    <2>4. telemetria' \in Snapshot
      BY <1>5, MarcaTipo DEF ClaimEmergencySequence, Typed
    <2> QED BY <1>5, <2>1, <2>2, <2>3, <2>4 DEF ClaimEmergencySequence, Typed, Mesma
  <1>6. ASSUME NEW p \in Processos, ConfirmEmergencyHardware(p) PROVE Typed'
    <2>1. Mesma
      BY <1>6, FalhaTipo DEF ConfirmEmergencyHardware, Typed
    <2>2. processos' \in [Processos -> Row]
      BY <1>6, GravarTipo, EmergenciaTipo DEF ConfirmEmergencyHardware, Typed
    <2>3. telemetria' \in Snapshot
      BY <1>6, MarcaTipo DEF ConfirmEmergencyHardware, Typed
    <2> QED BY <1>6, <2>1, <2>2, <2>3 DEF ConfirmEmergencyHardware, Typed, Mesma
  <1> QED BY <1>1, <1>2, <1>3, <1>4, <1>5, <1>6 DEF EmergencyScheduler

\* What the clients ask for.
LEMMA ClientTyped ==
    ASSUME Typed, NEW a \in Requests, Client(a) \/ RequestEmergencyStopForCurrent(a)
    PROVE  Typed'
  <1>0. a \in Actors
    BY DEF Actors
  <1>1. ASSUME NEW p \in Processos, Begin(a, p) PROVE Typed'
    <2>0. processos[p] \in Row
      BY DEF Typed
    <2>1. Mesma
      BY <1>1, FalhaTipo DEF Begin, Typed
    <2>2. processos' \in [Processos -> Row]
      <3>1. [processos[p] EXCEPT !.partida = "EM_ANDAMENTO", !.lease = TRUE, !.lido = {a}] \in Row
        BY <1>0, <2>0 DEF Row
      <3> QED BY <1>1, <3>1, GravarTipo DEF Begin, Typed
    <2>3. exec' \in [Actors -> Exec]
      <3>1. ContextoLido(p) \subseteq SUBSET Tanques
        BY <2>0 DEF ContextoLido, Selecao, Row
      <3>2. PICK S \in SUBSET Tanques :
              exec' = [exec EXCEPT ![a] = [Livre EXCEPT !.pc = "bombas", !.p = p,
                                                        !.modo = "partida", !.alvos = S]]
        BY <1>1, <3>1 DEF Begin
      <3>3. [Livre EXCEPT !.pc = "bombas", !.p = p, !.modo = "partida", !.alvos = S] \in Exec
        BY LivreTipo DEF Exec
      <3> QED BY <3>2, <3>3 DEF Typed
    <2>4. respostas' \in [Processos -> [Ids -> Resposta]]
      BY <1>1 DEF Begin, Typed, Resposta
    <2>5. telemetria' \in Snapshot
      BY <1>1, MarcaTipo DEF Begin, Typed
    <2> QED BY <1>1, <2>1, <2>2, <2>3, <2>4, <2>5 DEF Begin, Typed, Mesma
  <1>2. ASSUME NEW p \in Processos, Resume(a, p) PROVE Typed'
    <2>1. [Livre EXCEPT !.pc = "bombas", !.p = p, !.modo = "retomada",
                        !.alvos = processos[p].tanques] \in Exec
      <3>1. processos[p].tanques \in SUBSET Tanques
        BY DEF Typed, Row
      <3> QED BY <3>1, LivreTipo DEF Exec
    <2>2. exec' \in [Actors -> Exec]
      BY <1>2, <2>1 DEF Resume, Typed
    <2>3. Mesma
      BY <1>2, FalhaTipo DEF Resume, Typed
    <2> QED BY <1>2, <2>2, <2>3 DEF Resume, Typed, Mesma
  <1>3. ASSUME NEW p \in Processos, ReconcileControllerEmergency(a, p) PROVE Typed'
    <2>1. [Livre EXCEPT !.pc = "reconciliar", !.p = p] \in Exec
      BY LivreTipo DEF Exec
    <2>2. exec' \in [Actors -> Exec]
      BY <1>3, <2>1 DEF ReconcileControllerEmergency, Typed
    <2>3. Mesma
      BY <1>3, FalhaTipo DEF ReconcileControllerEmergency, Typed
    <2> QED BY <1>3, <2>2, <2>3 DEF ReconcileControllerEmergency, Typed, Mesma
  <1>4. ASSUME NEW p \in Processos, NEW op \in {"pausa", "conclusao", "interrupcao"},
               StopRequest(a, p, op)
        PROVE  Typed'
    <2>1. [Livre EXCEPT !.pc = "bombas", !.p = p, !.modo = op, !.fase = "parada"] \in Exec
      BY LivreTipo DEF Exec
    <2>2. exec' \in [Actors -> Exec]
      BY <1>4, <2>1 DEF StopRequest, Typed
    <2>3. Mesma
      BY <1>4, FalhaTipo DEF StopRequest, Typed
    <2> QED BY <1>4, <2>2, <2>3 DEF StopRequest, Typed, Mesma
  <1>5. CASE RequestEmergencyStopForCurrent(a)
    <2>1. exec' \in [Actors -> Exec]
      BY <1>5, EmergenciaTipo DEF RequestEmergencyStopForCurrent, Typed
    <2>2. Mesma
      BY <1>5, FalhaTipo DEF RequestEmergencyStopForCurrent, Typed
    <2> QED BY <1>5, <2>1, <2>2 DEF RequestEmergencyStopForCurrent, Typed, Mesma
  <1> QED BY <1>0, <1>1, <1>2, <1>3, <1>4, <1>5, ClaimTyped DEF Client

\* The recovery scheduler, the edition of a selection, and the leases.
LEMMA RecoveryTyped ==
    ASSUME Typed,
           \/ Recovery \/ ClaimMqttUpdateLease \/ ReleaseMqttUpdateLease
           \/ \E p \in Processos : LeaseExpires(p) \/ UpdateConfig(p)
    PROVE  Typed'
  <1>0. Recuperador \in Actors
    BY DEF Actors
  <1>1. UNCHANGED <<esp, telemetria, respostas, cenario>> /\ Mesma
    <2>1. UNCHANGED <<esp, telemetria, respostas, cenario>>
      BY DEF Recovery, RecoverClaim, RecoverRead, ClaimMqttUpdateLease, ReleaseMqttUpdateLease,
             LeaseExpires, UpdateConfig
    <2> QED BY <2>1, FalhaTipo DEF Typed
  <1>2. ASSUME NEW p \in Processos, RecoverRead(p) PROVE Typed'
    <2>1. [Livre EXCEPT !.pc = "assumir", !.p = p, !.modo = "recuperacao"] \in Exec
      BY LivreTipo DEF Exec
    <2>2. exec' \in [Actors -> Exec]
      BY <1>2, <2>1 DEF RecoverRead, Typed
    <2>3. processos[p] \in Row
      BY DEF Typed
    <2>4. [processos[p] EXCEPT !.lido = @ \cup {Recuperador}] \in Row
      BY <1>0, <2>3 DEF Row
    <2>5. processos' \in [Processos -> Row]
      BY <1>2, <2>4, GravarTipo DEF RecoverRead, Typed
    <2> QED BY <1>1, <1>2, <2>2, <2>5 DEF RecoverRead, Typed, Mesma
  <1>3. CASE RecoverClaim
    <2>1. exec' \in [Actors -> Exec]
      BY <1>0, <1>3, VaiTipo, TerminaTipo DEF RecoverClaim, Typed, Passos
    <2>2. processos' \in [Processos -> Row]
      <3> DEFINE p == exec[Recuperador].p
      <3>1. p \in Processos =>
              [processos[p] EXCEPT !.lease = TRUE, !.lido = {Recuperador}] \in Row
        <4>1. p \in Processos => processos[p] \in Row
          BY DEF Typed
        <4> QED BY <1>0, <4>1 DEF Row
      <3> QED BY <1>3, <3>1, GravarTipo DEF RecoverClaim, Typed
    <2> QED BY <1>1, <1>3, <2>1, <2>2 DEF RecoverClaim, Typed, Mesma
  <1>4. CASE ClaimMqttUpdateLease \/ ReleaseMqttUpdateLease
    BY <1>1, <1>4 DEF ClaimMqttUpdateLease, ReleaseMqttUpdateLease, Typed, Mesma
  <1>5. ASSUME NEW p \in Processos, LeaseExpires(p) PROVE Typed'
    <2>1. [processos[p] EXCEPT !.lease = FALSE] \in Row
      BY DEF Typed, Row
    <2>2. processos' \in [Processos -> Row]
      BY <1>5, <2>1, GravarTipo DEF LeaseExpires, Typed
    <2> QED BY <1>1, <1>5, <2>2 DEF LeaseExpires, Typed, Mesma
  <1>6. ASSUME NEW p \in Processos, UpdateConfig(p) PROVE Typed'
    <2>1. \A S \in Selecao : [processos[p] EXCEPT !.tanques = S] \in Row
      BY DEF Typed, Row, Selecao
    <2>2. processos' \in [Processos -> Row]
      BY <1>6, <2>1, GravarTipo DEF UpdateConfig, Typed
    <2> QED BY <1>1, <1>6, <2>2 DEF UpdateConfig, Typed, Mesma
  <1> QED BY <1>2, <1>3, <1>4, <1>5, <1>6 DEF Recovery

\* Telemetry, a crash of the API and what happens to the controller.
LEMMA AmbienteTyped ==
    ASSUME Typed,
           \/ Telemetria \/ \E S \in SUBSET Actors : ApiCrash(S)
           \/ EspResetAposEmergencia \/ EspResetAcidental \/ EspFalhaLocal \/ EspEmergenciaFisica
    PROVE  Typed'
  <1>0. Mesma
    BY FalhaTipo DEF Typed, Falhas, Telemetria, ApiCrash, EspResetAposEmergencia,
       EspResetAcidental, EspFalhaLocal, EspEmergenciaFisica
  <1>1. esp \in Saidas
    BY DEF Typed
  <1>2. CASE Telemetria
    <2>1. telemetria' \in Snapshot
      BY <1>1, <1>2 DEF Telemetria, Snapshot, Saidas
    <2> QED BY <1>0, <1>2, <2>1 DEF Telemetria, Typed, Mesma
  <1>3. ASSUME NEW S \in SUBSET Actors, ApiCrash(S) PROVE Typed'
    <2>1. exec' \in [Actors -> Exec]
      BY <1>3, LivreTipo DEF ApiCrash, Typed
    <2>2. \A p \in Processos : [processos[p] EXCEPT !.lido = @ \ S] \in Row
      BY DEF Typed, Row
    <2>3. processos' \in [Processos -> Row]
      BY <1>3, <2>2 DEF ApiCrash
    <2> QED BY <1>0, <1>3, <2>1, <2>3 DEF ApiCrash, Typed, Mesma
  <1>4. CASE EspResetAposEmergencia \/ EspResetAcidental
    <2>1. EspReset
      BY <1>4 DEF EspResetAposEmergencia, EspResetAcidental
    <2>2. esp' \in Saidas
      BY <2>1 DEF EspReset, EspDesligado, Saidas
    <2>3. respostas' \in [Processos -> [Ids -> Resposta]]
      BY <2>1 DEF EspReset, Typed, Resposta
    <2> QED BY <1>0, <2>1, <2>2, <2>3 DEF EspReset, Typed, Mesma
  <1>5. CASE EspFalhaLocal \/ EspEmergenciaFisica
    <2>1. esp' \in Saidas
      BY <1>1, <1>5 DEF EspFalhaLocal, EspEmergenciaFisica, SemProcesso, Saidas
    <2> QED BY <1>0, <1>5, <2>1 DEF EspFalhaLocal, EspEmergenciaFisica, Typed, Mesma
  <1> QED BY <1>2, <1>3, <1>4, <1>5

\* Every line starts with at least one tank.
LEMMA InitTyped == Init => Typed
  <1> SUFFICES ASSUME Init PROVE Typed
    OBVIOUS
  <1>1. cenario \in CenarioRec
    BY ControlAssumption DEF Init, CenarioRec, Operacoes, Falhas
  <1>2. Tanques # {} /\ {} \subseteq Tanques
    BY <1>1 DEF CenarioRec, Tanques
  <1>3. processos \in [Processos -> Row]
    BY <1>2 DEF Init, Row
  <1>4. esp \in Saidas /\ telemetria \in Snapshot
    BY DEF Init, EspDesligado, Saidas, Snapshot
  <1> QED BY <1>1, <1>3, <1>4, LivreTipo DEF Init, Typed, Resposta

\* Every step keeps the types.
LEMMA StepTyped == Typed /\ [Next]_vars => Typed'
  <1> SUFFICES ASSUME Typed, [Next]_vars PROVE Typed'
    OBVIOUS
  <1>1. CASE UNCHANGED vars
    BY <1>1, FalhaTipo DEF vars, Typed, Mesma
  <1>2. ASSUME NEW a \in Actors, ActorStep(a) PROVE Typed'
    BY <1>2, ParadaTyped, EtapaTyped, FimTyped, EmergencyTyped DEF ActorStep
  <1>3. ASSUME NEW a \in Requests, Client(a) \/ RequestEmergencyStopForCurrent(a) PROVE Typed'
    BY <1>3, ClientTyped
  <1>4. CASE EmergencyScheduler
    BY <1>4, EmergencyTyped DEF Actors
  <1> QED BY <1>1, <1>2, <1>3, <1>4, RecoveryTyped, AmbienteTyped DEF Next

\* Every variable keeps its type, whatever the requests, schedulers and failures do
\* (processos.repository.ts, the orchestrator and the sketch of the ESP32).
THEOREM Typing == Spec => []TypeOK
  <1>1. Typed => TypeOK
    BY DEF Typed, TypeOK, Saidas, Snapshot, CenarioRec
  <1> QED BY <1>1, InitTyped, StepTyped, PTL DEF Spec

----------------------------------------------------------------------------
(* Safety.  The argument is about who may energise the equipment: a live    *)
(* startup or a live resume.  A live startup owns its row, or an emergency  *)
(* has taken the row from it and then no startup begins until the latch of  *)
(* the controller, which refuses every command of the live one, has shown   *)
(* and been released; a live resume holds the only process in operation.    *)

Em(p) == processos[p].partida = "EM_ANDAMENTO"
Transita(a) == exec[a].modo \in Ciclo
\* A startup, or the recovery of one that it has taken over.
Trabalha(a) == exec[a].modo \in {"partida", "recuperacao"} /\ exec[a].pc # "assumir"
Pendente(p) == EmergenciaPendente(processos[p])

\* Who may be at which step, and for what.
Papel(a) ==
    LET e == exec[a] IN
    /\ e.pc = "livre" => e = Livre
    /\ e.pc \in {"livre", "reconciliar"} <=> e.modo = "nenhum"
    /\ e.pc \in {"tocar", "esperar", "concluir"} => e.modo = "partida" /\ e.fase = "prepare"
    /\ e.pc = "comando" => e.modo \in {"partida", "retomada"} /\ e.fase = "prepare"
    /\ e.pc \in {"reivindicar", "consultar"} => e.modo \in {"partida", "recuperacao"}
    /\ e.pc \in {"finalizar", "agendar"} => e.modo \in {"partida", "recuperacao"}
    /\ e.pc = "assumir" => e.modo = "recuperacao"
    /\ e.pc = "gravar" => e.modo \in Ciclo
    /\ e.pc \in {"parada_emergencia", "fechar_emergencia", "registrar_emergencia"}
         <=> e.modo = "emergencia"
    /\ e.pc \in {"bombas", "valvulas"} =>
         \/ e.modo = "partida" /\ e.fase \in {"prepare", "interno", "rollback", "race"}
         \/ e.modo = "recuperacao" /\ e.fase \in {"rollback", "race"}
         \/ e.modo = "retomada" /\ e.fase \in {"prepare", "interno"}
         \/ e.modo \in Ciclo \ {"retomada"} /\ e.fase = "parada"
    /\ e.fase = "parada" <=> e.modo \in Ciclo \ {"retomada"}
    /\ e.pc = "reconciliar" \/ e.modo \notin {"nenhum", "emergencia"} => e.p \in Processos
    /\ e.modo = "recuperacao" => a = Recuperador
    /\ e.pc = "reconciliar" \/ e.modo \in Ciclo \cup {"partida"} => a \in Requests
    /\ e.pc # "livre" /\ a \in Requests => a \in cenario.requests
    /\ e.modo \in Ciclo => e.modo \in cenario.operacoes

\* The unique index, and what a row never holds together.
Linha(p) ==
    /\ \A q \in Processos : EmOperacao(processos[p]) /\ EmOperacao(processos[q]) => p = q
    /\ Em(p) => processos[p].status \in {"CONFIGURADO", "INTERROMPIDO"}
    /\ processos[p].emergencia => processos[p].status = "INTERROMPIDO" /\ ~Em(p)

\* A lifecycle request is alone, on a row that nobody else writes.
CicloDe(a) ==
    LET row == processos[exec[a].p] IN
    Transita(a) =>
      /\ \A b \in Requests \ {a} : exec[b] = Livre
      /\ ~row.emergencia
      /\ exec[a].modo # "interrupcao" => row.status \in {"EM_EXECUCAO", "PAUSADO"}
      /\ exec[a].modo = "retomada" => row.status = "PAUSADO"

\* A startup in progress belongs to who works on it; only an emergency takes it away.
DonoDe(a) ==
    LET p == exec[a].p IN
    Trabalha(a) => IF Em(p) THEN processos[p].lease /\ processos[p].lido = {a}
                   ELSE processos[p].emergencia

\* While a startup lives whose row an emergency has taken, no other begins: the stop
\* is pending, or the latch is set and the telemetry stored since shows it.
PerdidaDe(a) ==
    LET p == exec[a].p IN
    exec[a].modo = "partida" /\ processos[p].emergencia =>
      /\ Pendente(p) \/ esp.latch
      /\ Nova("emergencia", p) /\ telemetria.latch => esp.latch
      /\ processos[p].encerramento = "CONCLUIDO" /\ Nova("reset", p) => telemetria.latch
      /\ \A q \in Processos : ~Em(q)

\* The answers that the repeated ids of a startup would find: none before its first
\* shutdown, and afterwards an executed one says how the outputs still are.
Feito == {"EXECUTADO", "ESP_EXECUTADO"}
LimpaDe(a) ==
    LET p == exec[a].p IN
    exec[a].modo = "partida" /\ exec[a].fase = "prepare" /\ Em(p) =>
      \A i \in Ids : respostas[p][i] = "nenhuma"
MemoriaDe(p) ==
    Em(p) => \A x \in {"rollback", "recovery"} :
               /\ respostas[p][<<x, "bombas">>] \in Feito => ~esp.bomba
               /\ respostas[p][<<x, "valvulas">>] \in Feito => Seguro

\* What a shutdown has confirmed is still so when it is written.
ParadaDe(a) ==
    /\ Trabalha(a) /\ Em(exec[a].p) /\ exec[a].fase = "rollback" /\ exec[a].pc = "valvulas"
         => exec[a].falhou \/ ~esp.bomba
    /\ Trabalha(a) /\ Em(exec[a].p) /\ exec[a].pc = "finalizar" => Seguro
    /\ exec[a].fase = "parada" /\ exec[a].pc = "valvulas" => exec[a].falhou \/ ~esp.bomba
    /\ exec[a].fase = "parada" /\ exec[a].pc = "gravar" => ~esp.bomba

\* A running pump has an owner that the telemetry does not show as stopped.
ComDono(p) == EmOperacao(processos[p]) \/ (Pendente(p) /\ ~EmergenciaConfirmada(p))
Bomba == esp.bomba => \E p \in Processos : ComDono(p)

Ator(a) == Papel(a) /\ CicloDe(a) /\ DonoDe(a) /\ PerdidaDe(a) /\ LimpaDe(a) /\ ParadaDe(a)
Controle ==
    /\ Typed /\ Serial
    /\ \A a \in Actors : Ator(a)
    /\ \A p \in Processos : Linha(p) /\ MemoriaDe(p)
    /\ Bomba

----------------------------------------------------------------------------
(* What steps have in common.                                              *)

\* Each actor stays where it is, goes on with the same work, or ends; nobody begins, but
\* a scheduler that is not yet at work on a startup.
Frente ==
    \A b \in Actors :
      \/ exec'[b] = exec[b]
      \/ exec'[b] = Livre
      \/ b \notin Requests /\ exec'[b].modo \notin Ciclo \cup {"partida"} /\ ~Trabalha(b)'
      \/ /\ exec[b].pc # "livre" /\ exec'[b].pc # "livre"
         /\ exec'[b].modo = exec[b].modo /\ exec'[b].p = exec[b].p
\* Nobody but a moves.
Outros(a) == \A b \in Actors \ {a} : exec'[b] = exec[b]

MesmasLinhas ==
    \A p \in Processos :
      /\ processos'[p].status = processos[p].status
      /\ processos'[p].partida = processos[p].partida
      /\ processos'[p].emergencia = processos[p].emergencia
      /\ processos'[p].encerramento = processos[p].encerramento
MesmosDonos ==
    \A p \in Processos :
      processos'[p].lease = processos[p].lease /\ processos'[p].lido = processos[p].lido

\* No output is switched on.
Acalma == (esp'.bomba => esp.bomba) /\ esp'.abertas \subseteq esp.abertas
MesmoCenario ==
    /\ cenario'.operacoes = cenario.operacoes /\ cenario'.falhas = cenario.falhas
    /\ cenario'.requests = cenario.requests /\ cenario'.processos = cenario.processos

\* Of a scenario only the failures left change.
LEMMA SerialFica ==
    ASSUME cenario \in CenarioRec, Serial, UNCHANGED cenario \/ \E f \in Falhas : Fail(f)
    PROVE  Serial' /\ MesmoCenario
  <1>1. MesmoCenario
    <2>1. CASE UNCHANGED cenario
      BY <2>1 DEF MesmoCenario
    <2>2. CASE \E f \in Falhas : Fail(f)
      <3>1. cenario' = [cenario EXCEPT !.restam = @ - 1]
        BY <2>2 DEF Fail
      <3> QED BY <3>1 DEF MesmoCenario, CenarioRec
    <2> QED BY <2>1, <2>2
  <1> QED BY <1>1 DEF Serial, MesmoCenario

\* Rows whose status, startup, emergency and closure stay the same.
LEMMA LinhasFicam ==
    ASSUME MesmasLinhas, NEW p \in Processos
    PROVE  /\ Em(p)' <=> Em(p)
           /\ EmOperacao(processos[p])' <=> EmOperacao(processos[p])
           /\ Pendente(p)' <=> Pendente(p)
           /\ Linha(p) => Linha(p)'
  BY DEF MesmasLinhas, Em, EmOperacao, Pendente, EmergenciaPendente, Linha

\* A lifecycle request stays alone while nobody begins.
LEMMA CicloFica ==
    ASSUME Typed, \A b \in Actors : Papel(b) /\ CicloDe(b), Frente, MesmasLinhas,
           NEW a \in Actors
    PROVE  CicloDe(a)'
  <1> SUFFICES ASSUME Transita(a)' PROVE CicloDe(a)'
    BY DEF CicloDe
  <1>1. exec'[a].modo = exec[a].modo /\ exec'[a].p = exec[a].p
    BY DEF Frente, Transita, Livre, Ciclo
  <1>2. Transita(a) /\ exec[a].p \in Processos
    BY <1>1 DEF Transita, Papel, Ciclo
  <1>3. \A b \in Requests \ {a} : exec[b] = Livre
    BY <1>2 DEF CicloDe
  <1>4. \A b \in Requests \ {a} : exec'[b] = Livre
    <2>1. Livre.pc = "livre"
      BY DEF Livre
    <2> QED BY <1>3, <2>1 DEF Frente, Actors
  <1> QED BY <1>1, <1>2, <1>4 DEF CicloDe, MesmasLinhas

\* A startup without its row goes on as long as no emergency is confirmed or reset.
LEMMA PerdidaFica ==
    ASSUME Typed, \A b \in Actors : Papel(b) /\ PerdidaDe(b), Frente, MesmasLinhas,
           UNCHANGED telemetria, esp.latch => esp'.latch, NEW a \in Actors
    PROVE  PerdidaDe(a)'
  <1> SUFFICES ASSUME (exec[a].modo = "partida" /\ processos[exec[a].p].emergencia)' 
               PROVE  PerdidaDe(a)'
    BY DEF PerdidaDe
  <1>1. exec'[a].modo = exec[a].modo /\ exec'[a].p = exec[a].p
    BY DEF Frente, Livre
  <1>2. exec[a].p \in Processos
    BY <1>1 DEF Papel
  <1>3. \A q \in Processos : Em(q)' <=> Em(q)
    BY LinhasFicam
  <1>4. Pendente(exec[a].p)' <=> Pendente(exec[a].p)
    BY <1>1, <1>2 DEF Pendente, EmergenciaPendente, MesmasLinhas
  <1> QED BY <1>1, <1>2, <1>3, <1>4 DEF PerdidaDe, MesmasLinhas, Nova

\* A pump keeps its owner.
LEMMA BombaFica ==
    ASSUME Bomba, MesmasLinhas, UNCHANGED telemetria, esp'.bomba => esp.bomba
    PROVE  Bomba'
  BY LinhasFicam DEF Bomba, ComDono, EmergenciaConfirmada, Nova

\* Who works on a startup keeps it when nobody writes its lease.
LEMMA DonoFica ==
    ASSUME Typed, \A b \in Actors : Papel(b) /\ DonoDe(b), Frente, MesmasLinhas, MesmosDonos,
           \A b \in Actors : Trabalha(b)' => Trabalha(b), NEW a \in Actors
    PROVE  DonoDe(a)'
  <1> SUFFICES ASSUME Trabalha(a)' PROVE DonoDe(a)'
    BY DEF DonoDe
  <1>1. exec'[a].modo = exec[a].modo /\ exec'[a].p = exec[a].p
    BY DEF Frente, Trabalha, Livre
  <1>2. Trabalha(a) /\ exec[a].p \in Processos
    BY DEF Trabalha, Papel
  <1> QED BY <1>1, <1>2, LinhasFicam DEF DonoDe, MesmasLinhas, MesmosDonos, Em

\* How an actor goes on, ends, or begins a shutdown.
LEMMA VaiPasso ==
    ASSUME Typed, NEW a \in Actors, exec[a].pc # "livre", NEW pc \in Passos \ {"livre"}, Vai(a, pc)
    PROVE  /\ Outros(a) /\ Frente
           /\ exec'[a].pc = pc /\ exec'[a].modo = exec[a].modo /\ exec'[a].p = exec[a].p
           /\ exec'[a].fase = exec[a].fase /\ exec'[a].falhou = exec[a].falhou
  <1>1. exec[a] \in Exec
    BY DEF Typed
  <1> DEFINE e == [exec[a] EXCEPT !.pc = pc]
  <1>2. exec' = [exec EXCEPT ![a] = e]
    BY DEF Vai, Typed
  <1>3. /\ e.pc = pc /\ e.modo = exec[a].modo /\ e.p = exec[a].p
        /\ e.fase = exec[a].fase /\ e.falhou = exec[a].falhou
    BY <1>1 DEF Exec
  <1> HIDE DEF e
  <1>4. exec'[a] = e /\ Outros(a)
    BY <1>2 DEF Typed, Outros
  <1> QED BY <1>3, <1>4 DEF Frente, Outros

\* What Termina does to the actors.
LEMMA TerminaPasso ==
    ASSUME Typed, NEW a \in Actors, Termina(a)
    PROVE  Outros(a) /\ Frente /\ exec'[a] = Livre
  BY DEF Typed, Termina, Outros, Frente

\* What IniciaParada does to the actors.
LEMMA ParadaPasso ==
    ASSUME Typed, NEW a \in Actors, exec[a].pc # "livre", NEW fase \in Fases, IniciaParada(a, fase)
    PROVE  /\ Outros(a) /\ Frente
           /\ exec'[a].pc = "bombas" /\ exec'[a].modo = exec[a].modo /\ exec'[a].p = exec[a].p
           /\ exec'[a].fase = fase /\ exec'[a].falhou = FALSE
  <1>1. exec[a] \in Exec
    BY DEF Typed
  <1> DEFINE e == [exec[a] EXCEPT !.pc = "bombas", !.fase = fase, !.falhou = FALSE]
  <1>2. exec' = [exec EXCEPT ![a] = e]
    BY DEF IniciaParada, Typed
  <1>3. /\ e.pc = "bombas" /\ e.modo = exec[a].modo /\ e.p = exec[a].p
        /\ e.fase = fase /\ e.falhou = FALSE
    BY <1>1 DEF Exec
  <1> HIDE DEF e
  <1>4. exec'[a] = e /\ Outros(a)
    BY <1>2 DEF Typed, Outros
  <1> QED BY <1>3, <1>4 DEF Frente, Outros

\* Who has ended asks nothing of the state.
LEMMA LivreAtor ==
    ASSUME NEW a \in Actors, exec'[a] = Livre
    PROVE  Ator(a)'
  <1>1. /\ Livre.pc = "livre" /\ Livre.modo = "nenhum" /\ Livre.fase = "prepare"
    BY DEF Livre
  <1>2. Papel(a)'
    BY <1>1 DEF Papel, Ciclo
  <1> QED BY <1>1, <1>2 DEF Ator, CicloDe, DonoDe, PerdidaDe, LimpaDe, ParadaDe, Transita, Trabalha,
                           Ciclo

\* What actor b keeps when others act: its shutdown, and what its ids would find.
LEMMA ParadaFica ==
    ASSUME NEW b \in Actors, Papel(b), ParadaDe(b), exec'[b] = exec[b], MesmasLinhas, Acalma
    PROVE  ParadaDe(b)'
  BY LinhasFicam DEF ParadaDe, Papel, Trabalha, Seguro, Acalma

\* LimpaDe of an actor that has not moved, while the rows keep what it reads.
LEMMA LimpaFica ==
    ASSUME NEW b \in Actors, Papel(b), LimpaDe(b), exec'[b] = exec[b], MesmasLinhas,
           UNCHANGED respostas
    PROVE  LimpaDe(b)'
  BY LinhasFicam DEF LimpaDe, Papel

\* MemoriaDe of a process, while its row keeps what it reads and nothing is energised.
LEMMA MemoriaFica ==
    ASSUME NEW p \in Processos, MemoriaDe(p), MesmasLinhas, Acalma, UNCHANGED respostas
    PROVE  MemoriaDe(p)'
  BY LinhasFicam DEF MemoriaDe, Acalma, Seguro

\* A step of actor a on the lease of a startup that is its own or has expired: of what
\* the invariant says, only what it says of a is left to see.
LEMMA PassoDeUm ==
    ASSUME Controle, NEW a \in Actors, Outros(a), Frente, MesmasLinhas,
           UNCHANGED <<esp, telemetria, respostas, cenario>>,
           \A p \in Processos :
              \/ processos'[p].lease = processos[p].lease /\ processos'[p].lido = processos[p].lido
              \/ a \in processos[p].lido \/ ~processos[p].lease
    PROVE  /\ \A b \in Actors \ {a} : Ator(b)'
           /\ CicloDe(a)' /\ PerdidaDe(a)'
           /\ \A p \in Processos : Linha(p)' /\ MemoriaDe(p)'
           /\ Bomba' /\ Serial' /\ MesmoCenario
  <1>0. Typed /\ \A b \in Actors : Papel(b) /\ CicloDe(b) /\ DonoDe(b) /\ PerdidaDe(b) /\ LimpaDe(b) /\ ParadaDe(b)
    BY DEF Controle, Ator
  <1>1. \A b \in Actors : CicloDe(b)'
    BY <1>0, CicloFica
  <1>2. \A b \in Actors : PerdidaDe(b)'
    BY <1>0, PerdidaFica
  <1>3. Acalma
    BY DEF Acalma
  <1>4. \A p \in Processos : Linha(p)' /\ MemoriaDe(p)'
    BY <1>3, LinhasFicam, MemoriaFica DEF Controle
  <1>5. Bomba'
    BY BombaFica DEF Controle
  <1>6. Serial' /\ MesmoCenario
    BY <1>0, SerialFica DEF Controle, Typed
  <1>7. ASSUME NEW b \in Actors \ {a} PROVE Ator(b)'
    <2>1. exec'[b] = exec[b]
      BY DEF Outros
    <2>2. Papel(b)'
      BY <1>0, <1>6, <2>1 DEF Papel, MesmoCenario
    <2>3. DonoDe(b)'
      <3> SUFFICES ASSUME Trabalha(b)' PROVE DonoDe(b)'
        BY DEF DonoDe
      <3>1. Trabalha(b) /\ exec[b].p \in Processos
        BY <1>0, <2>1 DEF Trabalha, Papel
      <3> QED BY <1>0, <2>1, <3>1 DEF DonoDe, Em, MesmasLinhas
    <2> QED BY <1>0, <1>1, <1>2, <1>3, <2>1, <2>2, <2>3, ParadaFica, LimpaFica DEF Ator
  <1> QED BY <1>1, <1>2, <1>4, <1>5, <1>6, <1>7

\* A step of a startup or of its recovery on its own row: the touch, the wait, the claim
\* of a rollback, what is read after a lost one and what is left to the next attempt.
LEMMA DonoAnda ==
    ASSUME Controle, NEW a \in Actors,
           \/ Tocar(a) \/ Esperar(a) \/ Reivindicar(a) \/ Consultar(a)
           \/ ScheduleRollbackRetry(a) \/ (a = Recuperador /\ RecoverClaim)
           \/ ~Dono(a, exec[a].p) /\ (Concluir(a) \/ FinishFailedStartup(a))
    PROVE  Controle'
  <1>0. Typed /\ Ator(a) /\ exec[a] \in Exec /\ exec[a].pc # "livre"
    BY DEF Controle, Typed, Tocar, Esperar, Reivindicar, Consultar, ScheduleRollbackRetry, RecoverClaim,
       Concluir, FinishFailedStartup
  <1>1. PICK p \in Processos : p = exec[a].p
    BY <1>0 DEF Ator, Papel, Ciclo, Tocar, Esperar, Reivindicar, Consultar, ScheduleRollbackRetry,
                RecoverClaim, Concluir, FinishFailedStartup
  <1>2. Typed'
    <2>1. RecoverClaim => Typed'
      BY <1>0, RecoveryTyped DEF Recovery
    <2> QED BY <1>0, <2>1, EtapaTyped, FimTyped
  <1>3. UNCHANGED <<esp, telemetria, respostas, cenario>>
    BY DEF Tocar, Esperar, Reivindicar, Consultar, ScheduleRollbackRetry, RecoverClaim, Concluir,
       FinishFailedStartup
  \* What is written, and when.
  <1>4. \/ UNCHANGED processos
        \/ /\ Em(p) /\ a \in processos[p].lido
           /\ \E lido \in {{}, {a}} :
                /\ Gravar(p, [processos[p] EXCEPT !.lease = TRUE, !.lido = lido])
                /\ lido = {} => exec'[a] = Livre
                /\ Trabalha(a) \/ ~processos[p].lease
    <2>1. CASE Tocar(a)
      BY <2>1, <1>0, <1>1 DEF Tocar, Dono, Em, Ator, Papel, Trabalha
    <2>2. CASE Reivindicar(a)
      BY <2>2, <1>0, <1>1 DEF Reivindicar, Dono, Em, Ator, Papel, Trabalha
    <2>3. CASE ScheduleRollbackRetry(a)
      <3>1. exec'[a] = Livre
        BY <2>3, <1>0, TerminaPasso DEF ScheduleRollbackRetry
      <3> QED BY <2>3, <1>0, <1>1, <3>1 DEF ScheduleRollbackRetry, Dono, Em, Ator, Papel, Trabalha
    <2>4. CASE a = Recuperador /\ RecoverClaim
      BY <2>4, <1>1 DEF RecoverClaim, Dono, Em
    <2> QED BY <2>1, <2>2, <2>3, <2>4 DEF Esperar, Consultar, Concluir, FinishFailedStartup
  <1>5. processos[p] \in Row
    BY <1>0, <1>1 DEF Typed
  <1>6. MesmasLinhas
    <2>1. ASSUME NEW lido,
                 processos' = [processos EXCEPT ![p] = [processos[p] EXCEPT !.lease = TRUE, !.lido = lido]]
          PROVE  MesmasLinhas
      <3> DEFINE r == [processos[p] EXCEPT !.lease = TRUE, !.lido = lido]
      <3>1. /\ r.status = processos[p].status /\ r.partida = processos[p].partida
            /\ r.emergencia = processos[p].emergencia /\ r.encerramento = processos[p].encerramento
        BY <1>5 DEF Row
      <3>2. processos' = [processos EXCEPT ![p] = r]
        BY <2>1
      <3> HIDE DEF r
      <3> QED BY <1>0, <3>1, <3>2 DEF MesmasLinhas, Typed
    <2> QED BY <1>4, <2>1 DEF MesmasLinhas, Gravar
  <1>7. \A q \in Processos :
              \/ processos'[q].lease = processos[q].lease /\ processos'[q].lido = processos[q].lido
              \/ a \in processos[q].lido \/ ~processos[q].lease
    BY <1>0, <1>1, <1>4, <1>5 DEF Gravar, Typed, Row
  \* Where the actor goes.
  <1>8. /\ Outros(a) /\ Frente
        /\ \/ exec'[a] = Livre
           \/ /\ exec'[a].modo = exec[a].modo /\ exec'[a].p = p
              /\ \/ /\ exec[a].pc \in {"tocar", "esperar", "concluir"} /\ exec'[a].fase = exec[a].fase
                    /\ exec'[a].pc \in {"esperar", "comando", "concluir", "reivindicar"}
                 \/ /\ exec[a].pc \in {"reivindicar", "assumir"} /\ exec'[a].fase = exec[a].fase
                    /\ exec'[a].pc \in {"reivindicar", "consultar"}
                    /\ exec[a].pc = "assumir" =>
                         processos'[p].lease /\ processos'[p].lido = {a} /\ Em(p)
                 \/ /\ exec[a].pc \in {"tocar", "reivindicar", "consultar"}
                    /\ exec'[a].pc = "bombas"
                    /\ exec'[a].fase \in {"interno", "rollback", "race"}
                    /\ exec'[a].fase = "interno" => exec[a].modo = "partida"
    <2>1. CASE Tocar(a)
      <3>1. \/ Vai(a, "esperar") \/ Vai(a, "comando") \/ Vai(a, "reivindicar")
            \/ IniciaParada(a, "interno")
        BY <2>1 DEF Tocar
      <3>2. exec[a].pc = "tocar" /\ exec[a].modo = "partida"
        BY <2>1, <1>0 DEF Tocar, Ator, Papel
      <3> QED BY <1>0, <1>1, <3>1, <3>2, VaiPasso, ParadaPasso DEF Passos, Fases
    <2>2. CASE Esperar(a)
      <3>1. \/ Vai(a, "concluir") \/ Vai(a, "comando") \/ Vai(a, "reivindicar")
        BY <2>2 DEF Esperar
      <3> QED BY <1>0, <1>1, <2>2, <3>1, VaiPasso DEF Passos, Esperar
    <2>3. CASE Reivindicar(a)
      BY <1>0, <1>1, <2>3, VaiPasso, ParadaPasso DEF Passos, Fases, Reivindicar
    <2>4. CASE Consultar(a)
      BY <1>0, <1>1, <2>4, TerminaPasso, ParadaPasso DEF Fases, Consultar
    <2>5. CASE ScheduleRollbackRetry(a)
      BY <1>0, <2>5, TerminaPasso DEF ScheduleRollbackRetry
    <2>6. CASE a = Recuperador /\ RecoverClaim
      <3>1. CASE Termina(a)
        BY <1>0, <3>1, TerminaPasso
      <3>2. CASE ~ Termina(a)
        <4>1. /\ Vai(a, "reivindicar") /\ exec[a].pc = "assumir" /\ Em(p)
              /\ Gravar(p, [processos[p] EXCEPT !.lease = TRUE, !.lido = {a}])
          BY <2>6, <3>2, <1>1 DEF RecoverClaim, Dono, Em
        <4>2. processos'[p].lease /\ processos'[p].lido = {a}
          BY <1>0, <1>1, <1>5, <4>1 DEF Gravar, Typed, Row
        <4> QED BY <1>0, <1>1, <4>1, <4>2, VaiPasso DEF Passos
      <3> QED BY <3>1, <3>2
    <2>7. CASE ~Dono(a, p) /\ (Concluir(a) \/ FinishFailedStartup(a))
      BY <1>0, <1>1, <2>7, VaiPasso, TerminaPasso DEF Passos, Concluir, FinishFailedStartup
    <2> QED BY <1>1, <2>1, <2>2, <2>3, <2>4, <2>5, <2>6, <2>7
  <1>9. /\ \A b \in Actors \ {a} : Ator(b)'
        /\ CicloDe(a)' /\ PerdidaDe(a)'
        /\ \A q \in Processos : Linha(q)' /\ MemoriaDe(q)'
        /\ Bomba' /\ Serial' /\ MesmoCenario
    BY <1>3, <1>6, <1>7, <1>8, PassoDeUm
  <1>10. Ator(a)'
    <2>1. CASE exec'[a] = Livre
      BY <2>1, LivreAtor
    <2>2. CASE exec'[a] # Livre
      <3>1. Papel(a)'
        BY <1>0, <1>1, <1>8, <1>9, <2>2 DEF Ator, Papel, Ciclo, MesmoCenario
      <3>2. DonoDe(a)'
        <4> SUFFICES ASSUME Trabalha(a)' PROVE DonoDe(a)'
          BY DEF DonoDe
        <4>1. Em(p)' <=> Em(p)
          BY <1>1, <1>6, LinhasFicam
        <4>2. CASE exec[a].pc = "assumir"
          BY <1>1, <1>8, <2>2, <4>1, <4>2 DEF DonoDe, Em
        <4>3. CASE exec[a].pc # "assumir"
          <5>1. Trabalha(a)
            BY <1>8, <2>2, <4>3 DEF Trabalha
          <5>2. CASE UNCHANGED processos
            BY <1>0, <1>1, <1>8, <2>2, <5>1, <5>2 DEF DonoDe, Ator, Em
          <5>3. CASE ~ UNCHANGED processos
            <6>1. Gravar(p, [processos[p] EXCEPT !.lease = TRUE, !.lido = {a}]) /\ Em(p)
              BY <1>4, <2>2, <5>3
            <6>2. processos'[p].lease /\ processos'[p].lido = {a}
              BY <1>0, <1>1, <1>5, <6>1 DEF Gravar, Typed, Row
            <6> QED BY <1>1, <1>8, <2>2, <4>1, <6>1, <6>2 DEF DonoDe, Em
          <5> QED BY <5>2, <5>3
        <4> QED BY <4>2, <4>3
      <3>3. LimpaDe(a)'
        BY <1>0, <1>1, <1>3, <1>6, <1>8, <2>2, LinhasFicam DEF Ator, Papel, LimpaDe
      <3>4. ParadaDe(a)'
        BY <1>0, <1>8, <2>2 DEF Ator, Papel, ParadaDe, Ciclo
      <3> QED BY <1>9, <3>1, <3>2, <3>3, <3>4 DEF Ator
    <2> QED BY <2>1, <2>2
  <1> QED BY <1>2, <1>9, <1>10 DEF Controle

\* The startup ends: it is confirmed, or its rollback is.
LEMMA PartidaAcaba ==
    ASSUME Controle, NEW a \in Actors, Dono(a, exec[a].p), Concluir(a) \/ FinishFailedStartup(a)
    PROVE  Controle'
  <1>0. /\ Typed /\ Serial /\ Ator(a) /\ Bomba
        /\ \A b \in Actors : Ator(b)
        /\ \A q \in Processos : Linha(q) /\ MemoriaDe(q)
    BY DEF Controle
  <1>1. exec[a].pc \in {"concluir", "finalizar"} /\ Trabalha(a)
    BY <1>0 DEF Concluir, FinishFailedStartup, Ator, Papel, Trabalha
  <1>2. PICK p \in Processos : p = exec[a].p
    BY <1>0, <1>1 DEF Ator, Papel, Trabalha, Ciclo
  <1>3. Typed'
    BY <1>0, FimTyped
  <1>4. UNCHANGED <<esp, telemetria, respostas, cenario>> /\ Outros(a) /\ exec'[a] = Livre
    <2>1. Termina(a)
      BY DEF Concluir, FinishFailedStartup
    <2> QED BY <1>0, <2>1, TerminaPasso DEF Concluir, FinishFailedStartup
  <1>5. Em(p) /\ a \in processos[p].lido /\ processos[p] \in Row
    BY <1>0, <1>2 DEF Dono, Em, Typed
  <1>6. PICK r : processos' = [processos EXCEPT ![p] = r] /\ r.partida # "EM_ANDAMENTO" /\ ~r.emergencia
                 /\ \/ Concluir(a) /\ r.status = "EM_EXECUCAO"
                    \/ FinishFailedStartup(a) /\ r.status = processos[p].status
    <2>1. CASE Concluir(a)
      <3> DEFINE s == [processos[p] EXCEPT !.status = "EM_EXECUCAO", !.partida = "CONCLUIDA",
                                           !.lease = FALSE, !.lido = {}, !.emergencia = FALSE]
      <3>1. s.status = "EM_EXECUCAO" /\ s.partida = "CONCLUIDA" /\ ~ s.emergencia
        BY <1>5 DEF Row
      <3>2. processos' = [processos EXCEPT ![p] = s]
        BY <1>2, <2>1 DEF Concluir, Gravar
      <3> HIDE DEF s
      <3> QED BY <2>1, <3>1, <3>2
    <2>2. CASE FinishFailedStartup(a)
      <3>1. ~ processos[p].emergencia
        BY <1>0, <1>5 DEF Linha
      <3> DEFINE s == [processos[p] EXCEPT !.partida = "FALHA", !.lease = FALSE, !.lido = {}]
      <3>2. s.status = processos[p].status /\ s.partida = "FALHA" /\ ~ s.emergencia
        BY <1>5, <3>1 DEF Row
      <3>3. processos' = [processos EXCEPT ![p] = s]
        BY <1>2, <2>2 DEF FinishFailedStartup, Gravar
      <3> HIDE DEF s
      <3> QED BY <2>2, <3>2, <3>3
    <2> QED BY <2>1, <2>2
  <1>7. processos'[p] = r /\ \A q \in Processos \ {p} : processos'[q] = processos[q]
    BY <1>0, <1>6 DEF Typed
  <1>8. Serial' /\ MesmoCenario
    BY <1>0, <1>4, SerialFica DEF Typed
  <1>9. ASSUME NEW q \in Processos PROVE Linha(q)' /\ MemoriaDe(q)'
    <2>1. EmOperacao(processos[p]) /\ \A s \in Processos : EmOperacao(processos[s]) => s = p
      BY <1>0, <1>5 DEF EmOperacao, Em, Linha
    <2>2. \A s \in Processos : EmOperacao(processos'[s]) => s = p
      BY <1>7, <2>1
    <2>3. ~ Em(p)'
      BY <1>6, <1>7 DEF Em
    <2>4. CASE q = p
      BY <1>6, <1>7, <2>2, <2>3, <2>4 DEF Linha, MemoriaDe
    <2>5. CASE q # p
      BY <1>0, <1>4, <1>7, <2>2, <2>5 DEF Linha, MemoriaDe, Em, Seguro
    <2> QED BY <2>4, <2>5
  <1>10. ASSUME NEW b \in Actors \ {a} PROVE Ator(b)'
    <2>1. exec'[b] = exec[b] /\ Ator(b)
      BY <1>0, <1>4 DEF Outros
    <2>2. Papel(b)'
      BY <1>8, <2>1 DEF Ator, Papel, MesmoCenario
    <2>3. CicloDe(b)'
      <3>1. Transita(b)' => Transita(b) /\ exec[b].p \in Processos
        BY <2>1 DEF Transita, Ator, Papel, Ciclo
      <3>2. \A c \in Requests \ {b} : exec[c] = Livre => exec'[c] = Livre
        BY <1>4 DEF Outros, Actors
      <3>3. Transita(b) => ~ Concluir(a)
        <4>1. Livre.pc = "livre"
          BY DEF Livre
        <4> QED BY <1>0, <2>1, <4>1 DEF Ator, CicloDe, Concluir, Papel
      <3>4. Transita(b) => /\ processos'[exec[b].p].status = processos[exec[b].p].status
                           /\ processos'[exec[b].p].emergencia => processos[exec[b].p].emergencia
        BY <1>6, <1>7, <3>1, <3>3, <2>1 DEF Transita
      <3> QED BY <2>1, <3>1, <3>2, <3>4 DEF Ator, CicloDe
    <2>4. ASSUME Trabalha(b)' PROVE exec[b].p \in Processos \ {p} /\ Trabalha(b)
      <3>1. Trabalha(b) /\ exec[b].p \in Processos
        BY <2>1, <2>4 DEF Trabalha, Ator, Papel, Ciclo
      <3> QED BY <1>5, <2>1, <3>1 DEF Ator, DonoDe
    <2>5. DonoDe(b)'
      BY <1>7, <2>1, <2>4 DEF DonoDe, Ator, Em
    <2>6. PerdidaDe(b)'
      <3> SUFFICES ASSUME (exec[b].modo = "partida" /\ processos[exec[b].p].emergencia)'
                   PROVE  PerdidaDe(b)'
        BY DEF PerdidaDe
      <3>1. exec[b].modo = "partida" /\ exec[b].p \in Processos \ {p}
        BY <1>6, <1>7, <2>1 DEF Ator, Papel, Ciclo
      <3>2. ~ Em(p)
        BY <1>7, <2>1, <3>1 DEF Ator, PerdidaDe
      <3> QED BY <1>5, <3>2
    <2>7. LimpaDe(b)'
      <3>1. exec[b].modo = "partida" => exec[b].p \in Processos
        BY <2>1 DEF Ator, Papel
      <3> QED BY <1>4, <1>6, <1>7, <2>1, <3>1 DEF Ator, LimpaDe, Em
    <2>8. ParadaDe(b)'
      BY <1>4, <1>7, <2>1, <2>4 DEF Ator, ParadaDe, Em, Seguro, Trabalha
    <2> QED BY <2>2, <2>3, <2>5, <2>6, <2>7, <2>8 DEF Ator
  <1>11. Bomba'
    <2>1. CASE Concluir(a)
      <3>1. exec[a].pc = "concluir"
        BY <2>1 DEF Concluir
      <3>2. processos'[p].status = "EM_EXECUCAO"
        BY <1>6, <1>7, <3>1 DEF FinishFailedStartup
      <3>3. ComDono(p)'
        BY <3>2 DEF ComDono, EmOperacao
      <3> QED BY <3>3 DEF Bomba
    <2>2. CASE FinishFailedStartup(a)
      BY <1>0, <1>1, <1>2, <1>4, <1>5, <2>2 DEF FinishFailedStartup, Ator, ParadaDe, Bomba, Seguro
    <2> QED BY <2>1, <2>2
  <1> QED BY <1>3, <1>4, <1>8, <1>9, <1>10, <1>11, LivreAtor DEF Controle

\* A lifecycle request writes its status.
LEMMA TransicaoAnda ==
    ASSUME Controle, NEW a \in Actors, ApplyLifecycleTransition(a)
    PROVE  Controle'
  <1>0. /\ Typed /\ Serial /\ Ator(a) /\ Bomba
        /\ \A b \in Actors : Ator(b)
        /\ \A q \in Processos : Linha(q) /\ MemoriaDe(q)
    BY DEF Controle
  <1>1. exec[a].pc = "gravar" /\ Transita(a)
    BY <1>0 DEF ApplyLifecycleTransition, Ator, Papel, Transita
  <1>2. PICK p \in Processos : p = exec[a].p
    BY <1>0, <1>1 DEF Ator, Papel, Transita, Ciclo
  <1>3. Typed'
    BY <1>0, FimTyped
  <1>4. UNCHANGED <<esp, telemetria, respostas, cenario>> /\ Outros(a) /\ exec'[a] = Livre /\ Frente
    <2>1. Termina(a)
      BY DEF ApplyLifecycleTransition
    <2> QED BY <1>0, <2>1, TerminaPasso DEF ApplyLifecycleTransition
  <1>5. CASE UNCHANGED processos
    <2>1. MesmasLinhas
      BY <1>5 DEF MesmasLinhas
    <2> QED BY <1>3, <1>4, <1>5, <2>1, PassoDeUm, LivreAtor DEF Controle
  <1>6. CASE ~ UNCHANGED processos
    <2>1. PICK r : r = Transicao(exec[a].modo, processos[p])
      OBVIOUS
    <2>2. processos' = [processos EXCEPT ![p] = r] /\ IndiceAceita(p, r)
      BY <1>2, <1>6, <2>1 DEF ApplyLifecycleTransition, Gravar
    <2>3. processos'[p] = r /\ \A q \in Processos \ {p} : processos'[q] = processos[q]
      BY <1>0, <2>2 DEF Typed
    <2>4. processos[p] \in Row /\ ~ processos[p].emergencia
      BY <1>0, <1>1, <1>2 DEF Typed, Ator, CicloDe
    <2>5. /\ r.partida = processos[p].partida /\ r.lease = processos[p].lease
          /\ r.lido = processos[p].lido /\ ~ r.emergencia
          /\ r.status = CASE exec[a].modo = "retomada" -> "EM_EXECUCAO"
                          [] exec[a].modo = "pausa" -> "PAUSADO"
                          [] exec[a].modo = "conclusao" -> "CONCLUIDO"
                          [] OTHER -> "INTERROMPIDO"
      BY <2>1, <2>4 DEF Transicao, Row
    <2>6. \A q \in Processos : Em(q)' <=> Em(q)
      BY <2>3, <2>5 DEF Em
    <2>7. Serial' /\ MesmoCenario
      BY <1>0, <1>4, SerialFica DEF Typed
    <2>8. \A b \in Requests \ {a} : exec[b] = Livre
      BY <1>0, <1>1 DEF Ator, CicloDe
    <2>9. Livre.pc = "livre" /\ Livre.modo = "nenhum"
      BY DEF Livre
    <2>10. a \in Requests
      BY <1>0, <1>1 DEF Ator, Papel, Transita, Ciclo
    <2>11. ASSUME NEW b \in Actors \ {a}
           PROVE  /\ exec'[b] = exec[b] /\ Ator(b)
                  /\ exec[b].modo # "partida" /\ ~ Transita(b) /\ exec[b].fase # "parada"
      <3>1. exec'[b] = exec[b] /\ Ator(b)
        BY <1>0, <1>4 DEF Outros
      <3>2. b \in Requests => exec[b].modo = "nenhum"
        BY <2>8, <2>9
      <3>3. exec[b].modo # "partida" /\ ~ Transita(b)
        BY <3>1, <3>2 DEF Ator, Papel, Transita, Ciclo
      <3> QED BY <3>1, <3>3 DEF Ator, Papel, Transita
    <2>12. ASSUME NEW b \in Actors \ {a} PROVE Ator(b)'
      <3>1. Papel(b)'
        BY <2>7, <2>11 DEF Ator, Papel, MesmoCenario
      <3>2. CicloDe(b)' /\ PerdidaDe(b)' /\ LimpaDe(b)'
        BY <2>11 DEF CicloDe, PerdidaDe, LimpaDe, Transita
      <3>3. DonoDe(b)'
        <4> SUFFICES ASSUME Trabalha(b)' PROVE DonoDe(b)'
          BY DEF DonoDe
        <4>1. Trabalha(b) /\ exec[b].p \in Processos /\ exec'[b].p = exec[b].p
          BY <2>11 DEF Trabalha, Ator, Papel, Ciclo
        <4> QED BY <2>3, <2>4, <2>5, <2>11, <4>1 DEF DonoDe, Ator, Em
      <3>4. ParadaDe(b)'
        <4>1. Trabalha(b) => exec[b].p \in Processos
          BY <2>11 DEF Trabalha, Ator, Papel, Ciclo
        <4> QED BY <1>4, <2>3, <2>5, <2>11, <4>1 DEF Ator, ParadaDe, Em, Seguro, Trabalha
      <3> QED BY <3>1, <3>2, <3>3, <3>4 DEF Ator
    <2>13. ASSUME NEW q \in Processos PROVE Linha(q)'
      <3>1. Em(p) => exec[a].modo = "interrupcao"
        BY <1>0, <1>1, <1>2 DEF Ator, CicloDe, Linha
      <3>2. r.partida = "EM_ANDAMENTO" => r.status = "INTERROMPIDO"
        BY <2>5, <3>1 DEF Em
      <3>3. EmOperacao(r) => \A s \in Processos \ {p} : ~ EmOperacao(processos[s])
        BY <2>2 DEF IndiceAceita
      <3> QED BY <1>0, <2>3, <2>5, <3>2, <3>3 DEF Linha, Em
    <2>14. \A q \in Processos : MemoriaDe(q)'
      BY <1>0, <1>4, <2>6 DEF MemoriaDe, Seguro
    <2>15. Bomba'
      <3>1. CASE exec[a].modo = "retomada"
        <4>1. ComDono(p)'
          BY <2>3, <2>5, <3>1 DEF ComDono, EmOperacao
        <4> QED BY <4>1 DEF Bomba
      <3>2. CASE exec[a].modo # "retomada"
        BY <1>0, <1>1, <1>4, <3>2 DEF Ator, Papel, ParadaDe, Transita, Bomba
      <3> QED BY <3>1, <3>2
    <2> QED BY <1>3, <1>4, <2>7, <2>12, <2>13, <2>14, <2>15, LivreAtor DEF Controle
  <1> QED BY <1>5, <1>6

----------------------------------------------------------------------------
(* The commands of startups and of lifecycle requests.                     *)

\* What the shutdown command cmd leaves behind when it is executed.
Feita(cmd) == (cmd = "bombas" => ~esp.bomba) /\ (cmd = "valvulas" => Seguro)
Energizantes == {"ABRINDO_VALVULAS_PRINCIPAIS", "LIGANDO_BOMBA_PRINCIPAL"}

\* What a command may do to the outputs, and what its answer says of them.
LEMMA ComandoEfeito ==
    ASSUME Typed, NEW a \in Actors, NEW cmd \in Etapas \cup {"bombas", "valvulas"},
           NEW ok \in BOOLEAN, Comando(a, cmd, ok)
    PROVE  /\ esp'.latch = esp.latch
           /\ cmd \notin Energizantes => Acalma
           /\ esp' = esp \/ cmd \notin Energizantes \/ ~esp.latch
           /\ cmd # "LIGANDO_BOMBA_PRINCIPAL" => (esp'.bomba => esp.bomba)
           /\ ok => (Memoria(a, cmd) \in Feito /\ esp' = esp) \/ Feita(cmd)'
           /\ \/ respostas' = respostas
              \/ /\ Repetido(a, cmd)
                 /\ \E r : /\ respostas' = [respostas EXCEPT ![exec[a].p][<<Prefixo(a), cmd>>] = r]
                           /\ r \in Feito => (Memoria(a, cmd) \in Feito /\ esp' = esp) \/ Feita(cmd)'
  <1>0. esp \in Saidas
    BY DEF Typed
  <1> DEFINE m == Memoria(a, cmd)
  <1>1. esp' = esp \/ (m = "nenhuma" /\ EspAceita(cmd, a) /\ esp' = EspExecuta(cmd, a))
    BY DEF Comando
  <1>2. EspAceita(cmd, a) /\ esp' = EspExecuta(cmd, a) =>
           /\ esp'.latch = esp.latch
           /\ cmd \notin Energizantes => Acalma
           /\ cmd \in Energizantes => ~esp.latch
           /\ cmd # "LIGANDO_BOMBA_PRINCIPAL" => (esp'.bomba => esp.bomba)
           /\ Feita(cmd)'
    <2> SUFFICES ASSUME EspAceita(cmd, a), esp' = EspExecuta(cmd, a)
                 PROVE  /\ esp'.latch = esp.latch
                        /\ cmd \notin Energizantes => Acalma
                        /\ cmd \in Energizantes => ~esp.latch
                        /\ cmd # "LIGANDO_BOMBA_PRINCIPAL" => (esp'.bomba => esp.bomba)
                        /\ Feita(cmd)'
      OBVIOUS
    <2> HIDE DEF Primeiro
    <2>1. CASE cmd = "bombas"
      BY <1>0, <2>1 DEF EspExecuta, Saidas, Acalma, Energizantes, Feita
    <2>2. CASE cmd = "valvulas"
      BY <1>0, <2>2 DEF EspAceita, EspExecuta, Saidas, Acalma, Energizantes, Feita, Seguro
    <2>3. CASE cmd = "SINCRONIZANDO_HARDWARE"
      BY <1>0, <2>3 DEF EspExecuta, Saidas, Acalma, Energizantes, Feita
    <2>4. CASE cmd = "CARREGANDO_PROCESSO"
      BY <1>0, <2>4 DEF EspExecuta, Saidas, Acalma, Energizantes, Feita
    <2>5. CASE cmd = "ABRINDO_VALVULAS_PRINCIPAIS"
      BY <1>0, <2>5 DEF EspAceita, EspExecuta, Saidas, Energizantes, Feita
    <2>6. CASE cmd = "LIGANDO_BOMBA_PRINCIPAL"
      BY <1>0, <2>6 DEF EspAceita, EspExecuta, Saidas, Energizantes, Feita
    <2>7. cmd # "CONFIRMANDO_TELEMETRIA"
      BY DEF EspAceita
    <2> QED BY <2>1, <2>2, <2>3, <2>4, <2>5, <2>6, <2>7 DEF Etapas
  <1>3. ASSUME m = "nenhuma" \/ m \in Feito, m = "nenhuma" => EspAceita(cmd, a),
               esp' = IF m = "nenhuma" /\ EspAceita(cmd, a) THEN EspExecuta(cmd, a) ELSE esp
        PROVE  (m \in Feito /\ esp' = esp) \/ Feita(cmd)'
    BY <1>2, <1>3 DEF Feito
  <1> DEFINE executado == IF m = "nenhuma" THEN EspAceita(cmd, a) ELSE m \in Feito
  <1> DEFINE chega == esp' = IF m = "nenhuma" /\ EspAceita(cmd, a) THEN EspExecuta(cmd, a) ELSE esp
  <1>4. executado /\ chega => (m \in Feito /\ esp' = esp) \/ Feita(cmd)'
    BY <1>3
  <1>5. \/ ok = executado /\ chega /\ Lembra(a, cmd, IF executado THEN "EXECUTADO" ELSE "RECUSADO")
        \/ /\ ~ ok
           /\ \/ chega /\ Lembra(a, cmd, IF executado THEN "ESP_EXECUTADO" ELSE "ESP_RECUSADO")
              \/ UNCHANGED respostas
    BY DEF Comando, Feito
  <1> HIDE DEF executado, chega, m
  <1>6. ASSUME NEW sim \in Feito, NEW nao, nao \notin Feito, chega,
               Lembra(a, cmd, IF executado THEN sim ELSE nao)
        PROVE  \/ respostas' = respostas
               \/ /\ Repetido(a, cmd)
                  /\ \E r : /\ respostas' = [respostas EXCEPT ![exec[a].p][<<Prefixo(a), cmd>>] = r]
                            /\ r \in Feito => (m \in Feito /\ esp' = esp) \/ Feita(cmd)'
    BY <1>4, <1>6 DEF Lembra
  <1>7. \/ respostas' = respostas
        \/ /\ Repetido(a, cmd)
           /\ \E r : /\ respostas' = [respostas EXCEPT ![exec[a].p][<<Prefixo(a), cmd>>] = r]
                     /\ r \in Feito => (m \in Feito /\ esp' = esp) \/ Feita(cmd)'
    <2>1. "EXECUTADO" \in Feito /\ "ESP_EXECUTADO" \in Feito
          /\ "RECUSADO" \notin Feito /\ "ESP_RECUSADO" \notin Feito
      BY DEF Feito
    <2> QED BY <1>5, <1>6, <2>1
  <1>8. ok => (m \in Feito /\ esp' = esp) \/ Feita(cmd)'
    BY <1>4, <1>5
  <1> QED BY <1>1, <1>2, <1>7, <1>8 DEF Acalma, m

\* Who repeats ids works on a startup: the answers that others would find are not touched.
LEMMA RespostasFicam ==
    ASSUME Controle, NEW a \in Actors, exec[a].pc \in {"bombas", "valvulas"},
           NEW cmd \in {"bombas", "valvulas"}, NEW ok \in BOOLEAN, Comando(a, cmd, ok),
           UNCHANGED processos, Outros(a),
           \/ exec'[a] = Livre
           \/ exec'[a].modo = exec[a].modo /\ exec'[a].p = exec[a].p /\ exec'[a].fase = exec[a].fase
    PROVE  /\ \A b \in Actors : LimpaDe(b)'
           /\ \A q \in Processos : MemoriaDe(q)'
  <1>0. Typed /\ (\A b \in Actors : Ator(b)) /\ \A q \in Processos : MemoriaDe(q)
    BY DEF Controle
  <1>1. Acalma
    BY <1>0, ComandoEfeito DEF Energizantes
  <1>2. \/ respostas' = respostas
        \/ /\ Repetido(a, cmd)
           /\ \E r : /\ respostas' = [respostas EXCEPT ![exec[a].p][<<Prefixo(a), cmd>>] = r]
                     /\ r \in Feito => (Memoria(a, cmd) \in Feito /\ esp' = esp) \/ Feita(cmd)'
    BY <1>0, ComandoEfeito
  <1>3. CASE respostas' = respostas
    <2>1. ASSUME NEW b \in Actors PROVE LimpaDe(b)'
      <3> SUFFICES ASSUME (exec[b].modo = "partida" /\ exec[b].fase = "prepare")' PROVE LimpaDe(b)'
        BY DEF LimpaDe
      <3>1. exec'[b].modo = exec[b].modo /\ exec'[b].p = exec[b].p /\ exec'[b].fase = exec[b].fase
        BY DEF Outros, Livre
      <3> QED BY <1>0, <1>3, <3>1 DEF Ator, LimpaDe, Em
    <2>2. \A q \in Processos : MemoriaDe(q)'
      BY <1>0, <1>1, <1>3 DEF MemoriaDe, Em, Acalma, Seguro
    <2> QED BY <2>1, <2>2
  <1>4. CASE respostas' # respostas
    <2>1. PICK r : /\ respostas' = [respostas EXCEPT ![exec[a].p][<<Prefixo(a), cmd>>] = r]
                   /\ r \in Feito => (Memoria(a, cmd) \in Feito /\ esp' = esp) \/ Feita(cmd)'
      BY <1>2, <1>4
    <2>2. Repetido(a, cmd)
      BY <1>2, <1>4
    <2>3. exec[a].fase \in {"interno", "rollback"} /\ Trabalha(a)
      BY <1>0, <2>2 DEF Repetido, Ator, Papel, Trabalha
    <2>4. PICK p \in Processos : p = exec[a].p
      BY <1>0, <2>3 DEF Ator, Papel, Trabalha, Ciclo
    <2>5. PICK x \in {"rollback", "recovery"} : x = Prefixo(a)
      BY DEF Prefixo
    <2>6. /\ \A q \in Processos \ {p} : respostas'[q] = respostas[q]
          /\ \A i \in Ids : i # <<x, cmd>> => respostas'[p][i] = respostas[p][i]
          /\ respostas'[p][<<x, cmd>>] = r
      BY <1>0, <2>1, <2>4, <2>5 DEF Typed, Ids
    <2>7. Memoria(a, cmd) = respostas[p][<<x, cmd>>]
      BY <2>2, <2>4, <2>5 DEF Memoria
    <2>8. ASSUME NEW b \in Actors PROVE LimpaDe(b)'
      <3> SUFFICES ASSUME (exec[b].modo = "partida" /\ exec[b].fase = "prepare" /\ Em(exec[b].p))'
                   PROVE  LimpaDe(b)'
        BY DEF LimpaDe
      <3>1. exec'[b].modo = exec[b].modo /\ exec'[b].p = exec[b].p /\ exec'[b].fase = exec[b].fase
        BY DEF Outros, Livre
      <3>2. exec[b].p \in Processos /\ Em(exec[b].p) /\ Trabalha(b)
        BY <1>0, <3>1 DEF Ator, Papel, Em, Trabalha
      <3>3. exec[b].p # p
        <4> SUFFICES ASSUME exec[b].p = p PROVE FALSE
          OBVIOUS
        <4>1. processos[p].lido = {a} /\ processos[p].lido = {b}
          BY <1>0, <2>3, <2>4, <3>2 DEF Ator, DonoDe
        <4> QED BY <2>3, <3>1, <4>1
      <3>4. \A i \in Ids : respostas[exec[b].p][i] = "nenhuma"
        BY <1>0, <3>1, <3>2 DEF Ator, LimpaDe
      <3>5. respostas'[exec'[b].p] = respostas[exec[b].p]
        BY <2>6, <3>1, <3>2, <3>3
      <3> QED BY <3>4, <3>5 DEF LimpaDe
    <2>9. ASSUME NEW q \in Processos PROVE MemoriaDe(q)'
      <3> SUFFICES ASSUME Em(q), NEW y \in {"rollback", "recovery"}
                   PROVE  /\ respostas'[q][<<y, "bombas">>] \in Feito => ~esp'.bomba
                          /\ respostas'[q][<<y, "valvulas">>] \in Feito => Seguro'
        BY DEF MemoriaDe, Em
      <3>0. <<y, "bombas">> \in Ids /\ <<y, "valvulas">> \in Ids
        BY DEF Ids
      <3>1. /\ respostas[q][<<y, "bombas">>] \in Feito => ~esp.bomba
            /\ respostas[q][<<y, "valvulas">>] \in Feito => Seguro
        BY <1>0 DEF MemoriaDe
      <3>2. /\ respostas[q][<<y, "bombas">>] \in Feito => ~esp'.bomba
            /\ respostas[q][<<y, "valvulas">>] \in Feito => Seguro'
        BY <1>1, <3>1 DEF Acalma, Seguro
      <3>3. CASE q # p \/ y # x
        BY <2>6, <3>0, <3>2, <3>3
      <3>4. CASE q = p /\ y = x
        <4>1. r \in Feito /\ cmd = "bombas" => ~esp'.bomba
          BY <2>1, <2>7, <3>1, <3>4 DEF Feita
        <4>2. r \in Feito /\ cmd = "valvulas" => Seguro'
          BY <2>1, <2>7, <3>1, <3>4 DEF Feita, Seguro
        <4> QED BY <2>6, <3>0, <3>2, <3>4, <4>1, <4>2
      <3> QED BY <3>3, <3>4
    <2> QED BY <2>8, <2>9
  <1> QED BY <1>3, <1>4

\* A shutdown: the pumps, then the valves, and what its caller does next.
LEMMA ParadaAnda ==
    ASSUME Controle, NEW a \in Actors, DesligarTodasBombas(a) \/ FecharTodasValvulas(a)
    PROVE  Controle'
  <1>0. /\ Typed /\ Serial /\ Ator(a) /\ Bomba /\ exec[a] \in Exec
        /\ \A b \in Actors : Ator(b) /\ Papel(b) /\ CicloDe(b) /\ PerdidaDe(b) /\ DonoDe(b)
        /\ \A q \in Processos : Linha(q) /\ MemoriaDe(q)
    BY DEF Controle, Ator, Typed
  <1>1. Typed'
    BY <1>0, ParadaTyped
  <1>2. PICK cmd \in {"bombas", "valvulas"}, ok \in BOOLEAN :
          /\ exec[a].pc = cmd /\ Comando(a, cmd, ok)
          /\ cmd = "bombas" => exec' = [exec EXCEPT ![a].pc = "valvulas", ![a].falhou = ~ok]
          /\ cmd = "valvulas" => DepoisDaParada(a, ParadaConfirmada(a, ok))
    BY DEF DesligarTodasBombas, FecharTodasValvulas
  <1>3. UNCHANGED <<processos, telemetria>>
    BY DEF DesligarTodasBombas, FecharTodasValvulas
  <1>4. MesmasLinhas /\ MesmosDonos
    BY <1>3 DEF MesmasLinhas, MesmosDonos
  <1>5. /\ esp'.latch = esp.latch /\ Acalma
        /\ ok => (Memoria(a, cmd) \in Feito /\ esp' = esp) \/ Feita(cmd)'
    BY <1>0, <1>2, ComandoEfeito DEF Energizantes
  <1>6. Serial' /\ MesmoCenario
    <2>1. UNCHANGED cenario \/ Fail("perda")
      BY <1>2 DEF Comando
    <2> QED BY <1>0, <2>1, SerialFica DEF Typed, Falhas
  <1>7. /\ Outros(a) /\ Frente
        /\ \/ exec'[a] = Livre
           \/ /\ exec'[a].modo = exec[a].modo /\ exec'[a].p = exec[a].p /\ exec'[a].fase = exec[a].fase
              /\ \/ cmd = "bombas" /\ exec'[a].pc = "valvulas" /\ exec'[a].falhou = ~ok
                 \/ /\ cmd = "valvulas"
                    /\ \/ exec'[a].pc = "tocar" /\ exec[a].fase = "prepare" /\ exec[a].modo = "partida"
                       \/ exec'[a].pc = "comando" /\ exec[a].fase = "prepare" /\ exec[a].modo # "partida"
                       \/ exec'[a].pc = "reivindicar" /\ exec[a].modo = "partida"
                       \/ exec'[a].pc = "finalizar" /\ exec[a].fase = "rollback" /\ ok /\ ~exec[a].falhou
                       \/ exec'[a].pc = "agendar" /\ exec[a].fase = "rollback"
                       \/ exec'[a].pc = "gravar" /\ exec[a].fase = "parada" /\ ok /\ ~exec[a].falhou
    <2>0. exec[a].pc # "livre"
      BY <1>2
    <2>1. CASE cmd = "bombas"
      <3> DEFINE e == [exec[a] EXCEPT !.pc = "valvulas", !.falhou = ~ok]
      <3>1. /\ e.pc = "valvulas" /\ e.falhou = ~ok /\ e.modo = exec[a].modo /\ e.p = exec[a].p
            /\ e.fase = exec[a].fase
        BY <1>0 DEF Exec
      <3>2. exec' = [exec EXCEPT ![a] = e]
        BY <1>0, <1>2, <2>1 DEF Typed
      <3> HIDE DEF e
      <3>3. exec'[a] = e /\ Outros(a)
        BY <1>0, <3>2 DEF Typed, Outros
      <3> QED BY <2>0, <2>1, <3>1, <3>3 DEF Frente, Outros
    <2>2. CASE cmd = "valvulas"
      <3> DEFINE conf == ParadaConfirmada(a, ok)
      <3>1. conf = (ok /\ ~exec[a].falhou)
        BY DEF ParadaConfirmada
      <3> HIDE DEF conf
      <3>2. DepoisDaParada(a, conf)
        BY <1>2, <2>2 DEF conf
      <3>3. CASE exec[a].fase = "prepare" /\ conf
        <4> PICK pc \in {"tocar", "comando"} :
              pc = IF exec[a].modo = "partida" THEN "tocar" ELSE "comando"
          OBVIOUS
        <4> DEFINE e == [exec[a] EXCEPT !.pc = pc, !.etapa = "SINCRONIZANDO_HARDWARE"]
        <4>1. /\ e.pc = pc /\ e.modo = exec[a].modo /\ e.p = exec[a].p /\ e.fase = exec[a].fase
          BY <1>0 DEF Exec
        <4>2. exec' = [exec EXCEPT ![a] = e]
          BY <1>0, <3>2, <3>3 DEF Typed, DepoisDaParada
        <4> HIDE DEF e
        <4>3. exec'[a] = e /\ Outros(a)
          BY <1>0, <4>2 DEF Typed, Outros
        <4> QED BY <2>0, <2>2, <3>3, <4>1, <4>3 DEF Frente, Outros
      <3>4. CASE ~(exec[a].fase = "prepare" /\ conf)
        <4>1. \/ Vai(a, "reivindicar") /\ exec[a].modo = "partida"
              \/ Vai(a, "finalizar") /\ exec[a].fase = "rollback" /\ conf
              \/ Vai(a, "agendar") /\ exec[a].fase = "rollback"
              \/ Vai(a, "gravar") /\ exec[a].fase = "parada" /\ conf
              \/ Termina(a)
          BY <3>2, <3>4 DEF DepoisDaParada
        <4> QED BY <1>0, <2>0, <2>2, <3>1, <4>1, VaiPasso, TerminaPasso DEF Passos
      <3> QED BY <3>3, <3>4
    <2> QED BY <2>1, <2>2
  <1>8. (\A b \in Actors : LimpaDe(b)') /\ \A q \in Processos : MemoriaDe(q)'
    BY <1>2, <1>3, <1>7, RespostasFicam
  <1>9. \A b \in Actors : CicloDe(b)' /\ PerdidaDe(b)'
    BY <1>0, <1>3, <1>4, <1>5, <1>7, CicloFica, PerdidaFica
  <1>10. \A b \in Actors : DonoDe(b)'
    <2>1. \A b \in Actors : Trabalha(b)' => Trabalha(b)
      BY <1>2, <1>7 DEF Trabalha, Outros, Livre
    <2> QED BY <1>0, <1>4, <1>7, <2>1, DonoFica
  <1>11. \A b \in Actors : Papel(b)'
    <2>1. Livre.pc = "livre" => Papel(a)' \/ exec'[a] # Livre
      BY LivreAtor DEF Ator
    <2>2. Livre.pc = "livre"
      BY DEF Livre
    <2>3. CASE exec'[a] # Livre
      <3>1. Papel(a)'
        BY <1>0, <1>2, <1>6, <1>7, <2>3 DEF Papel, Ciclo, MesmoCenario
      <3> QED BY <1>0, <1>6, <1>7, <3>1 DEF Papel, Outros, MesmoCenario
    <2>4. CASE exec'[a] = Livre
      BY <1>0, <1>6, <1>7, <2>1, <2>2, <2>4 DEF Papel, Outros, MesmoCenario
    <2> QED BY <2>3, <2>4
  <1>12. ParadaDe(a)'
    <2>1. CASE exec'[a] = Livre
      BY <2>1, LivreAtor DEF Ator
    <2>2. CASE exec'[a] # Livre
      <3>1. exec'[a].pc = "valvulas" /\ exec[a].fase = "parada" /\ ok => ~esp'.bomba
        BY <1>2, <1>5, <1>7, <2>2 DEF Memoria, Repetido, Feito, Feita
      <3>2. exec'[a].pc = "gravar" => ~esp'.bomba
        BY <1>2, <1>5, <1>7, <2>2 DEF Memoria, Repetido, Feito, Feita, Seguro
      <3>3. exec[a].fase = "rollback" /\ Em(exec[a].p) =>
              /\ exec'[a].pc = "valvulas" /\ ok => ~esp'.bomba
              /\ exec'[a].pc = "finalizar" => Seguro'
        <4> SUFFICES ASSUME exec[a].fase = "rollback", Em(exec[a].p), ok
                     PROVE  /\ exec'[a].pc = "valvulas" => ~esp'.bomba
                            /\ exec'[a].pc = "finalizar" => Seguro'
          BY <1>7, <2>2
        <4>1. exec[a].modo \in {"partida", "recuperacao"}
          BY <1>0, <1>2 DEF Ator, Papel
        <4>2. PICK p \in Processos : p = exec[a].p
          BY <1>0, <4>1 DEF Ator, Papel
        <4>3. Memoria(a, cmd) \in Feito => (cmd = "bombas" => ~esp.bomba) /\ (cmd = "valvulas" => Seguro)
          BY <1>0, <4>2 DEF Memoria, MemoriaDe, Prefixo, Feito
        <4>4. (cmd = "bombas" => ~esp'.bomba) /\ (cmd = "valvulas" => Seguro')
          BY <1>5, <4>3 DEF Feita, Seguro
        <4> QED BY <1>2, <1>7, <2>2, <4>4
      <3> QED BY <1>3, <1>7, <2>2, <3>1, <3>2, <3>3 DEF ParadaDe, Em, Trabalha
    <2> QED BY <2>1, <2>2
  <1>13. \A b \in Actors : ParadaDe(b)'
    BY <1>0, <1>4, <1>5, <1>7, <1>12, ParadaFica DEF Outros, Ator
  <1>14. Bomba'
    BY <1>0, <1>3, <1>4, <1>5, BombaFica DEF Acalma
  <1>15. \A q \in Processos : Linha(q)'
    BY <1>0, <1>4, LinhasFicam
  <1> QED BY <1>1, <1>6, <1>8, <1>9, <1>10, <1>11, <1>13, <1>14, <1>15 DEF Controle, Ator

\* A command that energises the equipment meets no startup in progress but its own.
LEMMA EnergizaSozinha ==
    ASSUME Controle, NEW a \in Actors, exec[a].pc = "comando", ~esp.latch
    PROVE  /\ \A q \in Processos : Em(q) => exec[a].modo = "partida" /\ exec[a].p = q
           /\ ComDono(exec[a].p) /\ exec[a].p \in Processos
  <1>0. Typed /\ Ator(a) /\ \A q \in Processos : Linha(q)
    BY DEF Controle
  <1>1. exec[a].modo \in {"partida", "retomada"}
    BY <1>0 DEF Ator, Papel
  <1>2. PICK p \in Processos : p = exec[a].p
    BY <1>0, <1>1 DEF Ator, Papel
  <1>3. CASE exec[a].modo = "retomada"
    <2>1. processos[p].status = "PAUSADO"
      BY <1>0, <1>2, <1>3 DEF Ator, CicloDe, Transita, Ciclo
    <2>2. EmOperacao(processos[p]) /\ ~ Em(p)
      BY <1>0, <2>1 DEF EmOperacao, Linha
    <2>3. \A q \in Processos : Em(q) => EmOperacao(processos[q])
      BY DEF Em, EmOperacao
    <2>4. \A q \in Processos : Em(q) => q = p
      BY <1>0, <2>2, <2>3 DEF Linha
    <2> QED BY <1>2, <2>2, <2>4 DEF ComDono
  <1>4. CASE exec[a].modo = "partida" /\ Em(p)
    <2>1. EmOperacao(processos[p]) /\ \A q \in Processos : Em(q) => EmOperacao(processos[q])
      BY <1>4 DEF Em, EmOperacao
    <2>2. \A q \in Processos : Em(q) => q = p
      BY <1>0, <2>1 DEF Linha
    <2> QED BY <1>2, <1>4, <2>1, <2>2 DEF ComDono
  <1>5. CASE exec[a].modo = "partida" /\ ~ Em(p)
    <2>1. processos[p].emergencia
      BY <1>0, <1>2, <1>5 DEF Ator, DonoDe, Trabalha
    <2>2. /\ Pendente(p) /\ ~(Nova("emergencia", p) /\ telemetria.latch)
          /\ \A q \in Processos : ~ Em(q)
      BY <1>0, <1>2, <1>5, <2>1 DEF Ator, PerdidaDe
    <2> QED BY <1>2, <2>2 DEF ComDono, EmergenciaConfirmada
  <1> QED BY <1>1, <1>3, <1>4, <1>5

\* A command of a stage of a startup or of a resume.
LEMMA EtapaAnda ==
    ASSUME Controle, NEW a \in Actors, ComandoDaEtapa(a)
    PROVE  Controle'
  <1>0. /\ Typed /\ Serial /\ Ator(a) /\ Bomba /\ exec[a] \in Exec
        /\ \A b \in Actors : Ator(b) /\ Papel(b) /\ CicloDe(b) /\ PerdidaDe(b) /\ DonoDe(b)
        /\ \A q \in Processos : Linha(q) /\ MemoriaDe(q)
    BY DEF Controle, Ator, Typed
  <1>1. Typed'
    BY <1>0, EtapaTyped
  <1>2. PICK ok \in BOOLEAN : Comando(a, exec[a].etapa, ok) /\ DepoisDoComando(a, ok)
    BY DEF ComandoDaEtapa
  <1>3. UNCHANGED <<processos, telemetria>> /\ exec[a].pc = "comando"
    BY DEF ComandoDaEtapa
  <1>4. exec[a].modo \in {"partida", "retomada"} /\ exec[a].fase = "prepare"
    BY <1>0, <1>3 DEF Papel
  <1>5. MesmasLinhas /\ MesmosDonos
    BY <1>3 DEF MesmasLinhas, MesmosDonos
  <1>6. PICK cmd \in Etapas : cmd = exec[a].etapa
    BY <1>0 DEF Exec
  <1>7. /\ esp'.latch = esp.latch
        /\ Acalma \/ ~esp.latch
        /\ respostas' = respostas
    <2>1. ~ Repetido(a, cmd)
      BY DEF Repetido, Etapas
    <2> QED BY <1>0, <1>2, <1>6, <2>1, ComandoEfeito DEF Acalma
  <1>8. Serial' /\ MesmoCenario
    <2>1. UNCHANGED cenario \/ Fail("perda")
      BY <1>2 DEF Comando
    <2> QED BY <1>0, <2>1, SerialFica DEF Typed, Falhas
  <1>9. /\ Outros(a) /\ Frente
        /\ \/ exec'[a] = Livre
           \/ /\ exec'[a].modo = exec[a].modo /\ exec'[a].p = exec[a].p
              /\ \/ exec'[a].pc = "comando" /\ exec'[a].fase = "prepare"
                 \/ /\ exec'[a].pc \in {"tocar", "reivindicar"} /\ exec'[a].fase = "prepare"
                    /\ exec[a].modo = "partida"
                 \/ exec'[a].pc = "gravar" /\ exec'[a].fase = "prepare" /\ exec[a].modo # "partida"
                 \/ exec'[a].pc = "bombas" /\ exec'[a].fase = "interno"
    <2>0. exec[a].pc # "livre"
      BY <1>3
    <2>1. ASSUME NEW pc \in Passos \ {"livre"}, NEW etapa, NEW alvos,
                 exec' = [exec EXCEPT ![a].pc = pc, ![a].etapa = etapa, ![a].alvos = alvos]
          PROVE  /\ Outros(a) /\ Frente /\ exec'[a].pc = pc /\ exec'[a].fase = exec[a].fase
                 /\ exec'[a].modo = exec[a].modo /\ exec'[a].p = exec[a].p
      <3> DEFINE e == [exec[a] EXCEPT !.pc = pc, !.etapa = etapa, !.alvos = alvos]
      <3>1. e.pc = pc /\ e.modo = exec[a].modo /\ e.p = exec[a].p /\ e.fase = exec[a].fase
        BY <1>0 DEF Exec
      <3>2. exec' = [exec EXCEPT ![a] = e]
        BY <1>0, <2>1 DEF Typed
      <3> HIDE DEF e
      <3>3. exec'[a] = e /\ Outros(a)
        BY <1>0, <3>2 DEF Typed, Outros
      <3> QED BY <2>0, <2>1, <3>1, <3>3 DEF Frente, Outros, Passos
    <2>2. CASE exec' = [exec EXCEPT ![a].alvos = @ \ {Primeiro(@)}]
      <3> DEFINE e == [exec[a] EXCEPT !.alvos = @ \ {Primeiro(@)}]
      <3>1. e.pc = exec[a].pc /\ e.modo = exec[a].modo /\ e.p = exec[a].p /\ e.fase = exec[a].fase
        BY <1>0 DEF Exec
      <3>2. exec' = [exec EXCEPT ![a] = e]
        BY <1>0, <2>2 DEF Typed
      <3> HIDE DEF e
      <3>3. exec'[a] = e /\ Outros(a)
        BY <1>0, <3>2 DEF Typed, Outros
      <3> QED BY <1>3, <1>4, <3>1, <3>3 DEF Frente, Outros
    <2>3. ASSUME NEW alvos,
                 exec' = [exec EXCEPT
                   ![a].pc = IF exec[a].modo = "partida" THEN "tocar"
                             ELSE IF exec[a].etapa = "LIGANDO_BOMBA_PRINCIPAL" THEN "gravar" ELSE "comando",
                   ![a].etapa = Proxima(exec[a].etapa),
                   ![a].alvos = alvos]
          PROVE  /\ Outros(a) /\ Frente
                 /\ exec'[a].modo = exec[a].modo /\ exec'[a].p = exec[a].p
                 /\ exec'[a].fase = "prepare"
                 /\ \/ exec'[a].pc = "comando"
                    \/ exec'[a].pc = "tocar" /\ exec[a].modo = "partida"
                    \/ exec'[a].pc = "gravar" /\ exec[a].modo # "partida"
      <3>1. PICK pc \in {"tocar", "gravar", "comando"} :
              pc = IF exec[a].modo = "partida" THEN "tocar"
                   ELSE IF exec[a].etapa = "LIGANDO_BOMBA_PRINCIPAL" THEN "gravar" ELSE "comando"
        OBVIOUS
      <3>2. PICK etapa : etapa = Proxima(exec[a].etapa)
        OBVIOUS
      <3>3. exec' = [exec EXCEPT ![a].pc = pc, ![a].etapa = etapa, ![a].alvos = alvos]
        BY <1>0, <2>3, <3>1, <3>2 DEF Typed
      <3>4. pc \in Passos \ {"livre"}
        BY DEF Passos
      <3>5. /\ Outros(a) /\ Frente /\ exec'[a].pc = pc /\ exec'[a].fase = exec[a].fase
            /\ exec'[a].modo = exec[a].modo /\ exec'[a].p = exec[a].p
        BY <2>1, <3>3, <3>4
      <3> QED BY <1>4, <3>1, <3>5
    <2> DEFINE abrindo == exec[a].etapa = "ABRINDO_VALVULAS_PRINCIPAIS"
    <2> DEFINE segue == [exec EXCEPT
                 ![a].pc = IF exec[a].modo = "partida" THEN "tocar"
                           ELSE IF exec[a].etapa = "LIGANDO_BOMBA_PRINCIPAL" THEN "gravar" ELSE "comando",
                 ![a].etapa = Proxima(exec[a].etapa),
                 ![a].alvos = IF abrindo THEN {} ELSE @]
    <2>4. CASE exec' = segue
      <3>1. PICK alvos : alvos = IF abrindo THEN {} ELSE exec[a].alvos
        OBVIOUS
      <3>2. exec' = [exec EXCEPT
                   ![a].pc = IF exec[a].modo = "partida" THEN "tocar"
                             ELSE IF exec[a].etapa = "LIGANDO_BOMBA_PRINCIPAL" THEN "gravar" ELSE "comando",
                   ![a].etapa = Proxima(exec[a].etapa),
                   ![a].alvos = alvos]
        BY <1>0, <2>4, <3>1 DEF Typed
      <3> HIDE DEF segue, abrindo
      <3> QED BY <2>3, <3>2
    <2>5. \/ exec' = [exec EXCEPT ![a].alvos = @ \ {Primeiro(@)}]
          \/ exec' = segue
          \/ IniciaParada(a, "interno") \/ Termina(a)
          \/ Vai(a, "reivindicar") /\ exec[a].modo = "partida"
      BY <1>2 DEF DepoisDoComando
    <2> HIDE DEF segue
    <2>6. CASE IniciaParada(a, "interno") \/ Termina(a)
      BY <1>0, <2>0, <2>6, ParadaPasso, TerminaPasso DEF Fases
    <2>7. CASE Vai(a, "reivindicar") /\ exec[a].modo = "partida"
      BY <1>0, <1>4, <2>0, <2>7, VaiPasso DEF Passos
    <2> QED BY <2>2, <2>4, <2>5, <2>6, <2>7
  <1>10. Acalma \/ \A q \in Processos : Em(q) => exec[a].modo = "partida" /\ exec[a].p = q
    BY <1>3, <1>7, EnergizaSozinha
  <1>11. \A b \in Actors : CicloDe(b)' /\ PerdidaDe(b)'
    BY <1>0, <1>3, <1>5, <1>7, <1>9, CicloFica, PerdidaFica
  <1>12. \A b \in Actors : DonoDe(b)'
    <2>1. \A b \in Actors : Trabalha(b)' => Trabalha(b)
      BY <1>3, <1>9 DEF Trabalha, Outros, Livre
    <2> QED BY <1>0, <1>5, <1>9, <2>1, DonoFica
  <1>13. \A b \in Actors : Papel(b)'
    <2>1. Papel(a)'
      <3>1. exec'[a] = Livre => Papel(a)'
        BY LivreAtor DEF Ator
      <3>2. exec'[a] # Livre => Papel(a)'
        BY <1>0, <1>4, <1>8, <1>9 DEF Papel, Ciclo, MesmoCenario
      <3> QED BY <3>1, <3>2
    <2> QED BY <1>0, <1>8, <1>9, <2>1 DEF Papel, Outros, MesmoCenario
  <1>14. ASSUME NEW b \in Actors PROVE LimpaDe(b)'
    <2> SUFFICES ASSUME (exec[b].modo = "partida" /\ exec[b].fase = "prepare")' PROVE LimpaDe(b)'
      BY DEF LimpaDe
    <2>1. exec'[b].modo = exec[b].modo /\ exec'[b].p = exec[b].p /\ exec[b].fase = "prepare"
      BY <1>4, <1>9 DEF Outros, Livre
    <2> QED BY <1>0, <1>3, <1>7, <2>1 DEF Ator, LimpaDe, Em
  <1>15. ASSUME NEW q \in Processos PROVE MemoriaDe(q)'
    <2>1. CASE Acalma
      BY <1>0, <1>5, <1>7, <2>1, MemoriaFica
    <2>2. CASE ~ Acalma /\ Em(q)
      <3>1. exec[a].modo = "partida" /\ exec[a].p = q
        BY <1>10, <2>2
      <3>2. \A i \in Ids : respostas'[q][i] = "nenhuma"
        BY <1>0, <1>4, <1>7, <2>2, <3>1 DEF Ator, LimpaDe
      <3> QED BY <3>2 DEF MemoriaDe, Ids, Feito
    <2>3. CASE ~ Em(q)
      BY <1>3, <2>3 DEF MemoriaDe, Em
    <2> QED BY <2>1, <2>2, <2>3
  <1>16. ASSUME NEW b \in Actors PROVE ParadaDe(b)'
    <2>1. CASE b = a
      <3>1. exec'[a] = Livre => ParadaDe(a)'
        BY LivreAtor DEF Ator
      <3>2. exec'[a] # Livre => ParadaDe(a)'
        BY <1>9 DEF ParadaDe
      <3> QED BY <2>1, <3>1, <3>2
    <2>2. CASE b # a
      <3>1. exec'[b] = exec[b]
        BY <1>9, <2>2 DEF Outros
      <3>2. CASE Acalma
        BY <1>0, <1>5, <3>1, <3>2, ParadaFica DEF Ator
      <3>3. CASE ~ Acalma
        <4>1. exec[b].fase # "parada"
          <5>1. exec[b].fase = "parada" => Transita(b) /\ a \in Requests
            BY <1>0, <1>4 DEF Papel, Transita, Ciclo
          <5>2. Livre.pc = "livre"
            BY DEF Livre
          <5> QED BY <1>0, <1>3, <2>2, <5>1, <5>2 DEF CicloDe
        <4>2. Trabalha(b) => exec[b].p \in Processos
          BY <1>0 DEF Trabalha, Papel
        <4>3. ~ (Trabalha(b) /\ Em(exec[b].p))
          <5> SUFFICES ASSUME Trabalha(b), Em(exec[b].p) PROVE FALSE
            OBVIOUS
          <5>1. exec[a].modo = "partida" /\ exec[a].p = exec[b].p
            BY <1>10, <3>3, <4>2
          <5>2. Trabalha(a)
            BY <1>3, <5>1 DEF Trabalha
          <5>3. processos[exec[b].p].lido = {a} /\ processos[exec[b].p].lido = {b}
            BY <1>0, <5>1, <5>2 DEF DonoDe
          <5> QED BY <2>2, <5>3
        <4> QED BY <1>3, <3>1, <4>1, <4>3 DEF ParadaDe, Trabalha, Em
      <3> QED BY <3>2, <3>3
    <2> QED BY <2>1, <2>2
  <1>17. Bomba'
    <2>1. CASE esp.latch
      <3>1. Acalma
        BY <1>7, <2>1
      <3> QED BY <1>0, <1>3, <1>5, <3>1, BombaFica DEF Acalma
    <2>2. CASE ~ esp.latch
      <3>1. PICK p \in Processos : ComDono(p)
        BY <1>3, <2>2, EnergizaSozinha
      <3>2. ComDono(p)'
        BY <1>3, <3>1 DEF ComDono, Pendente, EmergenciaConfirmada, Nova
      <3> QED BY <3>2 DEF Bomba
    <2> QED BY <2>1, <2>2
  <1>18. \A q \in Processos : Linha(q)'
    BY <1>0, <1>5, LinhasFicam
  <1> QED BY <1>1, <1>8, <1>11, <1>12, <1>13, <1>14, <1>15, <1>16, <1>17, <1>18 DEF Controle, Ator

----------------------------------------------------------------------------
(* Emergencies, schedulers, leases and the environment.                    *)

\* While a lifecycle request is at work no other client is, so that who is at something
\* else knows that there is none.
LEMMA SemCiclo ==
    ASSUME Controle, NEW a \in Requests \cap cenario.requests, ~Transita(a)
    PROVE  \A b \in Actors : ~Transita(b)
  <1> SUFFICES ASSUME NEW b \in Actors, Transita(b) PROVE FALSE
    OBVIOUS
  <1>1. Papel(b) /\ Serial
    BY DEF Controle, Ator
  <1>2. exec[b].pc # "livre"
    <2>1. Livre.modo \notin Ciclo
      BY DEF Livre, Ciclo
    <2> QED BY <1>1, <2>1 DEF Papel, Transita
  <1>3. b \in cenario.requests /\ exec[b].modo \in cenario.operacoes \cap Ciclo
    BY <1>1, <1>2 DEF Papel, Transita
  <1>4. a = b
    BY <1>1, <1>3 DEF Serial
  <1> QED BY <1>4

\* A step that changes no row but its selection and energises nothing, of an actor that
\* is not at a startup nor at a lifecycle request.
LEMMA SemLinhas ==
    ASSUME Controle, Typed', NEW a \in Actors, Outros(a),
           \/ exec'[a] = exec[a]
           \/ /\ exec'[a].modo \in {"nenhum", "emergencia"} /\ Papel(a)'
              /\ \/ exec'[a] = Livre \/ a \notin Requests \/ exec[a] # Livre
                 \/ \A b \in Actors : ~Transita(b),
           MesmasLinhas, MesmosDonos, UNCHANGED <<telemetria, respostas>>,
           Acalma, esp.latch => esp'.latch,
           UNCHANGED cenario \/ \E f \in Falhas : Fail(f)
    PROVE  Controle'
  <1>0. /\ Typed /\ Serial /\ Bomba /\ \A q \in Processos : Linha(q) /\ MemoriaDe(q)
        /\ \A b \in Actors : /\ Papel(b) /\ CicloDe(b) /\ DonoDe(b) /\ PerdidaDe(b)
                             /\ LimpaDe(b) /\ ParadaDe(b)
    BY DEF Controle, Ator
  <1>1. Serial' /\ MesmoCenario
    BY <1>0, SerialFica DEF Typed
  <1>2. \A q \in Processos : Linha(q)' /\ MemoriaDe(q)'
    BY <1>0, LinhasFicam, MemoriaFica
  <1>3. Bomba'
    BY <1>0, BombaFica DEF Acalma
  <1>4. ASSUME NEW b \in Actors, exec'[b] = exec[b] PROVE Ator(b)'
    <2>1. Papel(b)'
      BY <1>0, <1>1, <1>4 DEF Papel, MesmoCenario
    <2>2. CicloDe(b)'
      <3> SUFFICES ASSUME Transita(b) PROVE CicloDe(b)'
        BY <1>4 DEF CicloDe, Transita
      <3>1. exec[b].p \in Processos /\ \A c \in Requests \ {b} : exec[c] = Livre
        BY <1>0 DEF Papel, CicloDe, Transita, Ciclo
      <3>2. \A c \in Requests \ {b} : exec'[c] = Livre
        BY <1>4, <3>1 DEF Outros, Actors
      <3> QED BY <1>0, <1>4, <3>1, <3>2 DEF CicloDe, MesmasLinhas
    <2>3. DonoDe(b)'
      <3> SUFFICES ASSUME Trabalha(b) PROVE DonoDe(b)'
        BY <1>4 DEF DonoDe, Trabalha
      <3>1. exec[b].p \in Processos
        BY <1>0 DEF Papel, Trabalha
      <3> QED BY <1>0, <1>4, <3>1 DEF DonoDe, Em, MesmasLinhas, MesmosDonos
    <2>4. PerdidaDe(b)'
      <3> SUFFICES ASSUME exec[b].modo = "partida" PROVE PerdidaDe(b)'
        BY <1>4 DEF PerdidaDe
      <3>1. PICK q \in Processos : q = exec[b].p
        BY <1>0 DEF Papel
      <3>2. (Pendente(q)' <=> Pendente(q)) /\ \A s \in Processos : Em(s)' <=> Em(s)
        BY LinhasFicam
      <3> QED BY <1>0, <1>4, <3>1, <3>2 DEF PerdidaDe, MesmasLinhas, Nova
    <2>5. LimpaDe(b)' /\ ParadaDe(b)'
      BY <1>0, <1>4, LimpaFica, ParadaFica
    <2> QED BY <2>1, <2>2, <2>3, <2>4, <2>5 DEF Ator
  <1>5. ASSUME exec'[a].modo \in {"nenhum", "emergencia"}, Papel(a)' PROVE Ator(a)'
    <2>1. exec'[a].fase # "parada" /\ exec'[a].modo \notin Ciclo \cup {"partida", "recuperacao"}
      BY <1>5 DEF Papel, Ciclo
    <2> QED BY <1>5, <2>1 DEF Ator, CicloDe, Transita, DonoDe, Trabalha, PerdidaDe, LimpaDe, ParadaDe
  <1> QED BY <1>0, <1>1, <1>2, <1>3, <1>4, <1>5 DEF Controle, Outros

\* The commands of an emergency, which only switch outputs off and set the latch.
LEMMA ComandosDeEmergencia ==
    ASSUME Controle, NEW a \in Actors, ParadaEmergencia(a) \/ FecharEmergencia(a)
    PROVE  Controle'
  <1>0. Typed /\ Papel(a) /\ esp \in Saidas /\ exec[a] \in Exec
    BY DEF Controle, Ator, Typed
  <1>1. Typed'
    BY <1>0, EmergencyTyped
  <1>2. /\ exec[a].pc \in {"parada_emergencia", "fechar_emergencia"}
        /\ UNCHANGED <<processos, telemetria, respostas>>
        /\ UNCHANGED cenario \/ Fail("perda")
    BY DEF ParadaEmergencia, FecharEmergencia
  <1>3. MesmasLinhas /\ MesmosDonos
    BY <1>2 DEF MesmasLinhas, MesmosDonos
  <1>4. Acalma /\ (esp.latch => esp'.latch)
    <2>1. CASE ParadaEmergencia(a)
      <3>1. PICK e \in Saidas : e = [esp EXCEPT !.bomba = FALSE, !.abertas = {}, !.latch = TRUE]
        BY <1>0 DEF Saidas
      <3>2. ~e.bomba /\ e.abertas = {} /\ e.latch
        BY <1>0, <3>1 DEF Saidas
      <3>3. ~SemProcesso(e).bomba /\ SemProcesso(e).abertas = {} /\ SemProcesso(e).latch
        BY <3>1, <3>2 DEF SemProcesso, Saidas
      <3>4. PICK f \in Saidas : f = [esp EXCEPT !.bomba = FALSE]
        BY <1>0 DEF Saidas
      <3>5. ~f.bomba /\ f.abertas = esp.abertas /\ f.latch = esp.latch
        BY <1>0, <3>4 DEF Saidas
      <3>6. esp' = SemProcesso(e) \/ esp' = esp \/ esp' = f
        BY <2>1, <3>1, <3>4 DEF ParadaEmergencia
      <3> QED BY <3>3, <3>5, <3>6 DEF Acalma
    <2>2. CASE FecharEmergencia(a)
      BY <1>0, <2>2 DEF FecharEmergencia, Acalma, Saidas
    <2> QED BY <2>1, <2>2
  <1>5. /\ Outros(a)
        /\ exec'[a].modo \in {"nenhum", "emergencia"} /\ Papel(a)' /\ exec[a] # Livre
    <2>1. Livre.pc = "livre" /\ exec[a].pc # "livre" /\ exec[a].modo = "emergencia"
      BY <1>0, <1>2 DEF Livre, Papel
    <2>2. CASE Termina(a)
      <3>1. Outros(a) /\ exec'[a] = Livre /\ Livre.modo = "nenhum"
        BY <1>0, <2>2, TerminaPasso DEF Livre
      <3> QED BY <2>1, <3>1, LivreAtor DEF Ator
    <2>3. ASSUME NEW pc \in {"fechar_emergencia", "registrar_emergencia"}, Vai(a, pc)
          PROVE  Outros(a) /\ exec'[a].modo = "emergencia" /\ Papel(a)'
      <3>1. pc \in Passos \ {"livre"}
        BY DEF Passos
      <3>2. /\ Outros(a) /\ exec'[a].pc = pc /\ exec'[a].modo = "emergencia"
            /\ exec'[a].fase = exec[a].fase /\ exec'[a].p = exec[a].p
        BY <1>0, <2>1, <2>3, <3>1, VaiPasso
      <3>3. MesmoCenario
        BY <1>0, <1>2, SerialFica DEF Controle, Typed, Falhas
      <3> QED BY <1>0, <2>1, <3>2, <3>3 DEF Papel, Ciclo, MesmoCenario
    <2> QED BY <2>1, <2>2, <2>3 DEF ParadaEmergencia, FecharEmergencia
  <1> QED BY <1>1, <1>2, <1>3, <1>4, <1>5, SemLinhas DEF Falhas

\* The sequence of an emergency, as it begins.
LEMMA SequenciaPapel ==
    ASSUME NEW a \in Actors, NEW p \in Processos \cup {NenhumProcesso},
           exec'[a] = SequenciaDe(p) \/ exec'[a] = SequenciaAvulsa(p),
           a \in Requests => (a \in cenario.requests)'
    PROVE  exec'[a].modo = "emergencia" /\ Papel(a)'
  <1>1. exec'[a].pc = "parada_emergencia" /\ exec'[a].modo = "emergencia" /\ exec'[a].fase # "parada"
    BY DEF SequenciaDe, SequenciaAvulsa, Livre
  <1> QED BY <1>1 DEF Papel, Ciclo

\* The database does not take the claim of an emergency stop.
LEMMA ClaimFalha ==
    ASSUME Controle, NEW a \in Requests \cap cenario.requests, ~Transita(a),
           NEW p \in Processos, ClaimFails(a, p)
    PROVE  Controle'
  <1>0. Typed /\ a \in Actors
    BY DEF Controle, Actors
  <1>1. Typed'
    BY <1>0, ClaimTyped
  <1>2. UNCHANGED <<processos, esp, telemetria, respostas>> /\ Fail("banco")
    BY DEF ClaimFails
  <1>3. MesmasLinhas /\ MesmosDonos /\ Acalma
    BY <1>2 DEF MesmasLinhas, MesmosDonos, Acalma
  <1>4. MesmoCenario
    BY <1>0, <1>2, SerialFica DEF Controle, Typed, Falhas
  <1>5. Outros(a) /\ exec'[a] = SequenciaAvulsa(p)
    BY <1>0 DEF ClaimFails, Typed, Outros
  <1>6. exec'[a].modo = "emergencia" /\ Papel(a)'
    BY <1>0, <1>4, <1>5, SequenciaPapel DEF MesmoCenario
  <1> QED BY <1>0, <1>1, <1>2, <1>3, <1>5, <1>6, SemCiclo, SemLinhas DEF Falhas

\* A row enters an emergency, or goes on in it: from then on it is stopped, its startup
\* is over, and the telemetry stored so far does not confirm it.
LEMMA EmergenciaNaLinha ==
    ASSUME Controle, Typed', NEW a \in Actors, NEW p \in Processos, NEW r, Outros(a),
           exec'[a] = Livre \/ (exec'[a].modo = "emergencia" /\ Papel(a)'),
           \/ \A b \in Actors : ~Transita(b)
           \/ processos[p].emergencia /\ (a \notin Requests \/ exec[a] # Livre),
           processos' = [processos EXCEPT ![p] = r], Marca("emergencia", p),
           UNCHANGED <<esp, respostas, cenario>>,
           r.status = "INTERROMPIDO", r.emergencia, r.partida # "EM_ANDAMENTO",
           r.encerramento \in {"ENCERRANDO", "CONFIRMANDO_HARDWARE"}
    PROVE  Controle'
  <1>0. /\ Typed /\ Serial /\ Bomba /\ \A q \in Processos : Linha(q) /\ MemoriaDe(q)
        /\ \A b \in Actors : /\ Papel(b) /\ CicloDe(b) /\ DonoDe(b) /\ PerdidaDe(b)
                             /\ LimpaDe(b) /\ ParadaDe(b)
    BY DEF Controle, Ator
  <1>1. processos'[p] = r /\ \A q \in Processos \ {p} : processos'[q] = processos[q]
    BY <1>0 DEF Typed
  <1>2. Serial' /\ MesmoCenario
    BY <1>0, SerialFica DEF Typed
  <1>3. ~EmOperacao(r) /\ EmergenciaPendente(r)
    BY DEF EmOperacao, EmergenciaPendente
  <1>4. /\ telemetria'.latch = telemetria.latch /\ telemetria'.bomba = telemetria.bomba
        /\ telemetria'.abertas = telemetria.abertas
        /\ telemetria'.apos = telemetria.apos \ {<<"emergencia", p>>}
    BY <1>0 DEF Marca, Typed, Snapshot
  <1>5. ASSUME NEW q \in Processos PROVE Linha(q)' /\ MemoriaDe(q)'
    <2>1. \A s \in Processos : EmOperacao(processos'[s]) => EmOperacao(processos[s]) /\ s # p
      BY <1>1, <1>3
    <2>2. \A s, t \in Processos : EmOperacao(processos[s]) /\ EmOperacao(processos[t]) => s = t
      BY <1>0 DEF Linha
    <2>3. Linha(q)'
      BY <1>0, <1>1, <2>1, <2>2 DEF Linha, Em
    <2> QED BY <1>0, <1>1, <2>3 DEF MemoriaDe, Em, Seguro
  \* Nobody keeps this startup, and no other begins.
  <1>6. \A q \in Processos : Em(q)' => Em(q) /\ q # p
    BY <1>1 DEF Em
  <1>7. ASSUME NEW b \in Actors, exec'[b] = exec[b] PROVE Ator(b)'
    <2>1. Papel(b)'
      BY <1>0, <1>2, <1>7 DEF Papel, MesmoCenario
    <2>2. CicloDe(b)'
      <3> SUFFICES ASSUME Transita(b) PROVE CicloDe(b)'
        BY <1>7 DEF CicloDe, Transita
      <3>1. exec[b].p \in Processos \ {p} /\ \A c \in Requests \ {b} : exec[c] = Livre
        BY <1>0 DEF Papel, CicloDe, Transita, Ciclo
      <3>2. \A c \in Requests \ {b} : exec'[c] = Livre
        BY <1>7, <3>1 DEF Outros, Actors
      <3> QED BY <1>0, <1>1, <1>7, <3>1, <3>2 DEF CicloDe
    <2>3. DonoDe(b)'
      <3> SUFFICES ASSUME Trabalha(b) PROVE DonoDe(b)'
        BY <1>7 DEF DonoDe, Trabalha
      <3>1. exec[b].p \in Processos
        BY <1>0 DEF Papel, Trabalha
      <3> QED BY <1>0, <1>1, <1>7, <3>1 DEF DonoDe, Em
    <2>4. PerdidaDe(b)'
      <3> SUFFICES ASSUME exec[b].modo = "partida", processos'[exec[b].p].emergencia
                   PROVE  PerdidaDe(b)'
        BY <1>7 DEF PerdidaDe
      <3>1. PICK q \in Processos : q = exec[b].p
        BY <1>0 DEF Papel
      <3>2. Trabalha(b)
        BY <1>0 DEF Papel, Trabalha
      <3>3. CASE q = p
        <4>1. CASE Em(p)
          <5>1. \A s \in Processos : Em(s) => s = p
            BY <1>0, <4>1 DEF Linha, Em, EmOperacao
          <5> QED BY <1>1, <1>3, <1>4, <1>6, <1>7, <3>1, <3>3, <5>1 DEF PerdidaDe, Pendente, Nova
        <4>2. CASE ~Em(p)
          <5>1. processos[p].emergencia
            BY <1>0, <3>1, <3>2, <3>3, <4>2 DEF DonoDe
          <5>2. \A s \in Processos : ~Em(s)
            BY <1>0, <3>1, <3>3, <5>1 DEF PerdidaDe
          <5> QED BY <1>1, <1>3, <1>4, <1>6, <1>7, <3>1, <3>3, <5>2 DEF PerdidaDe, Pendente, Nova
        <4> QED BY <4>1, <4>2
      <3>4. CASE q # p
        <4>1. processos'[q] = processos[q] /\ processos[q].emergencia
          BY <1>1, <3>1, <3>4
        <4>2. /\ Nova("emergencia", q)' <=> Nova("emergencia", q)
              /\ Nova("reset", q)' <=> Nova("reset", q)
          BY <1>4, <3>4 DEF Nova
        <4> QED BY <1>0, <1>4, <1>6, <1>7, <3>1, <4>1, <4>2 DEF PerdidaDe, Pendente
      <3> QED BY <3>3, <3>4
    <2>5. LimpaDe(b)'
      <3>1. exec[b].modo = "partida" => exec[b].p \in Processos
        BY <1>0 DEF Papel
      <3> QED BY <1>0, <1>6, <1>7, <3>1 DEF LimpaDe
    <2>6. ParadaDe(b)'
      <3>1. Trabalha(b) => exec[b].p \in Processos
        BY <1>0 DEF Papel, Trabalha
      <3> QED BY <1>0, <1>6, <1>7, <3>1 DEF ParadaDe, Trabalha, Seguro
    <2> QED BY <2>1, <2>2, <2>3, <2>4, <2>5, <2>6 DEF Ator
  <1>8. Ator(a)'
    <2>1. CASE exec'[a] = Livre
      BY <2>1, LivreAtor
    <2>2. CASE exec'[a].modo = "emergencia" /\ Papel(a)'
      <3>1. exec'[a].fase # "parada"
        BY <2>2 DEF Papel, Ciclo
      <3> QED BY <2>2, <3>1 DEF Ator, CicloDe, Transita, DonoDe, Trabalha, PerdidaDe, LimpaDe,
                                ParadaDe, Ciclo
    <2> QED BY <2>1, <2>2
  <1>9. Bomba'
    <2> SUFFICES ASSUME esp.bomba PROVE Bomba'
      BY DEF Bomba
    <2>1. PICK q \in Processos : ComDono(q)
      BY <1>0 DEF Bomba
    <2>2. CASE q = p
      BY <1>1, <1>3, <1>4, <2>2 DEF Bomba, ComDono, Pendente, EmergenciaConfirmada, Nova
    <2>3. CASE q # p
      <3>1. EmergenciaConfirmada(q)' <=> EmergenciaConfirmada(q)
        BY <1>4, <2>3 DEF EmergenciaConfirmada, Nova
      <3>2. ComDono(q)'
        BY <1>1, <2>1, <2>3, <3>1 DEF ComDono, Pendente
      <3> QED BY <3>2 DEF Bomba
    <2> QED BY <2>2, <2>3
  <1> QED BY <1>2, <1>5, <1>7, <1>8, <1>9 DEF Controle, Outros

\* An emergency stop is claimed for a process.
LEMMA ClaimAnda ==
    ASSUME Controle, NEW a \in Requests \cap cenario.requests, ~Transita(a),
           NEW p \in Processos, ClaimEmergencyStop(a, p)
    PROVE  Controle'
  <1>0. Typed /\ a \in Actors /\ processos[p] \in Row
    BY DEF Controle, Actors, Typed
  <1>1. Typed'
    BY <1>0, ClaimTyped
  <1>2. /\ processos' = [processos EXCEPT ![p] = RowEmEmergencia(processos[p])]
        /\ Marca("emergencia", p) /\ UNCHANGED <<esp, respostas, cenario>>
    BY DEF ClaimEmergencyStop, Gravar
  <1>3. Outros(a) /\ exec'[a] = SequenciaDe(p)
    BY <1>0 DEF ClaimEmergencyStop, Typed, Outros
  <1>4. exec'[a].modo = "emergencia" /\ Papel(a)'
    BY <1>0, <1>2, <1>3, SequenciaPapel
  <1>5. PICK s \in Row : s = InvalidaPartida(processos[p])
    <2>1. [processos[p] EXCEPT !.partida = "FALHA", !.lease = FALSE, !.lido = {}] \in Row
      BY <1>0 DEF Row
    <2> QED BY <1>0, <2>1 DEF InvalidaPartida
  <1>6. s.partida # "EM_ANDAMENTO"
    BY <1>0, <1>5 DEF InvalidaPartida, Row
  <1>7. PICK r : r = RowEmEmergencia(processos[p])
    OBVIOUS
  <1>8. /\ r.status = "INTERROMPIDO" /\ r.emergencia /\ r.partida # "EM_ANDAMENTO"
        /\ r.encerramento = "ENCERRANDO"
    BY <1>5, <1>6, <1>7 DEF RowEmEmergencia, Row
  <1> QED BY <1>0, <1>1, <1>2, <1>3, <1>4, <1>7, <1>8, SemCiclo, EmergenciaNaLinha

\* The stop of a process whose controller reports the latch, when its turn comes.
LEMMA ReconciliaAnda ==
    ASSUME Controle, NEW a \in Actors, RequestEmergencyStop(a)
    PROVE  Controle'
  <1>0. Typed /\ Papel(a) /\ exec[a].pc = "reconciliar"
    BY DEF Controle, Ator, RequestEmergencyStop
  <1>1. a \in Requests \cap cenario.requests /\ ~Transita(a) /\ exec[a].p \in Processos
    BY <1>0 DEF Papel, Transita, Ciclo
  <1>2. CASE ClaimEmergencyStop(a, exec[a].p)
    <2>1. PICK p \in Processos : p = exec[a].p
      BY <1>1
    <2> QED BY <1>1, <1>2, <2>1, ClaimAnda
  <1>3. CASE ClaimFails(a, exec[a].p)
    <2>1. PICK p \in Processos : p = exec[a].p
      BY <1>1
    <2> QED BY <1>1, <1>3, <2>1, ClaimFalha
  <1>4. CASE Termina(a) /\ UNCHANGED <<processos, esp, telemetria, respostas, mqttLease, cenario>>
    <2>1. Typed'
      BY <1>0, EmergencyTyped
    <2>2. Outros(a) /\ exec'[a] = Livre
      BY <1>0, <1>4, TerminaPasso
    <2>3. exec'[a].modo = "nenhum" /\ Papel(a)'
      <3>1. Livre.modo = "nenhum"
        BY DEF Livre
      <3> QED BY <2>2, <3>1, LivreAtor DEF Ator
    <2>4. MesmasLinhas /\ MesmosDonos /\ Acalma
      BY <1>4 DEF MesmasLinhas, MesmosDonos, Acalma
    <2> QED BY <1>4, <2>1, <2>2, <2>3, <2>4, SemLinhas
  <1> QED BY <1>2, <1>3, <1>4 DEF RequestEmergencyStop

\* The row after the commands of an emergency.
LEMMA RegistroAnda ==
    ASSUME Controle, NEW a \in Actors, RegistrarEmergencia(a)
    PROVE  Controle'
  <1>0. Typed /\ Papel(a) /\ exec[a].pc = "registrar_emergencia" /\ Livre.pc = "livre"
    BY DEF Controle, Ator, RegistrarEmergencia, Livre
  <1>1. Typed'
    BY <1>0, EmergencyTyped
  <1>2. Outros(a) /\ exec'[a] = Livre /\ exec[a] # Livre
    <2>1. Termina(a)
      BY DEF RegistrarEmergencia
    <2> QED BY <1>0, <2>1, TerminaPasso
  <1>3. UNCHANGED <<esp, respostas, cenario>>
    BY DEF RegistrarEmergencia
  <1>4. CASE UNCHANGED <<processos, telemetria>>
    <2>1. exec'[a].modo = "nenhum" /\ Papel(a)'
      <3>1. Livre.modo = "nenhum"
        BY DEF Livre
      <3> QED BY <1>2, <3>1, LivreAtor DEF Ator
    <2>2. MesmasLinhas /\ MesmosDonos /\ Acalma
      BY <1>3, <1>4 DEF MesmasLinhas, MesmosDonos, Acalma
    <2> QED BY <1>1, <1>2, <1>3, <1>4, <2>1, <2>2, SemLinhas
  <1>5. CASE ~ UNCHANGED <<processos, telemetria>>
    <2>1. PICK p : p = exec[a].p
      OBVIOUS
    <2>2. /\ processos[p].status = "INTERROMPIDO" /\ processos[p].emergencia
          /\ Gravar(p, [processos[p] EXCEPT !.encerramento = "CONFIRMANDO_HARDWARE"])
          /\ Marca("emergencia", p)
      BY <1>5, <2>1 DEF RegistrarEmergencia
    <2>3. CASE p \notin Processos
      <3>1. processos' = processos
        BY <1>0, <2>2, <2>3 DEF Gravar, Typed
      <3>2. p = NenhumProcesso /\ <<"emergencia", p>> \notin Marcadores
        BY <1>0, <2>1, <2>3 DEF Typed, Exec, Marcadores
      <3>3. telemetria \in Snapshot /\ telemetria.apos \ {<<"emergencia", p>>} = telemetria.apos
        BY <1>0, <3>2 DEF Typed, Snapshot
      <3>4. telemetria' = telemetria
        BY <2>2, <3>3 DEF Marca, Snapshot
      <3> QED BY <1>5, <3>1, <3>4
    <2>4. CASE p \in Processos
      <3>1. processos[p] \in Row
        BY <1>0, <2>4 DEF Typed
      <3> DEFINE r == [processos[p] EXCEPT !.encerramento = "CONFIRMANDO_HARDWARE"]
      <3>2. /\ r.status = "INTERROMPIDO" /\ r.emergencia /\ r.partida = processos[p].partida
            /\ r.encerramento = "CONFIRMANDO_HARDWARE"
        BY <2>2, <3>1 DEF Row
      <3>3. processos' = [processos EXCEPT ![p] = r]
        BY <2>2 DEF Gravar
      <3>4. r.partida # "EM_ANDAMENTO"
        BY <2>2, <2>4, <3>2 DEF Controle, Linha, Em
      <3> HIDE DEF r
      <3> QED BY <1>1, <1>2, <1>3, <2>2, <2>4, <3>2, <3>3, <3>4, EmergenciaNaLinha
    <2> QED BY <2>3, <2>4
  <1> QED BY <1>4, <1>5

\* The scheduler takes up a pending stop.
LEMMA SequenciaAnda ==
    ASSUME Controle, NEW p \in Processos, ClaimEmergencySequence(p)
    PROVE  Controle'
  <1>0. Typed /\ Encerrador \in Actors \ Requests /\ processos[p] \in Row
    BY ControlAssumption DEF Controle, Actors, Typed
  <1>1. Typed'
    BY <1>0, EmergencyTyped DEF EmergencyScheduler
  <1> DEFINE r == [processos[p] EXCEPT !.encerramento = "ENCERRANDO"]
  <1>2. /\ r.status = "INTERROMPIDO" /\ r.emergencia /\ r.partida = processos[p].partida
        /\ r.encerramento = "ENCERRANDO"
    BY <1>0 DEF ClaimEmergencySequence, Row
  <1>3. processos' = [processos EXCEPT ![p] = r] /\ processos[p].emergencia
    BY DEF ClaimEmergencySequence, Gravar
  <1>4. r.partida # "EM_ANDAMENTO"
    BY <1>2, <1>3 DEF Controle, Linha, Em
  <1> HIDE DEF r
  <1>5. Marca("emergencia", p) /\ UNCHANGED <<esp, respostas, cenario>>
    BY DEF ClaimEmergencySequence
  <1>6. Outros(Encerrador) /\ exec'[Encerrador] = SequenciaDe(p)
    BY <1>0 DEF ClaimEmergencySequence, Typed, Outros
  <1>7. exec'[Encerrador].modo = "emergencia" /\ Papel(Encerrador)'
    BY <1>0, <1>6, SequenciaPapel
  <1> QED BY <1>0, <1>1, <1>2, <1>3, <1>4, <1>5, <1>6, <1>7, EmergenciaNaLinha

\* A stop is confirmed by telemetry that is newer than its commands, or given up.
LEMMA ConfirmacaoAnda ==
    ASSUME Controle, NEW p \in Processos, ConfirmEmergencyHardware(p)
    PROVE  Controle'
  <1>0. /\ Typed /\ Serial /\ Bomba /\ \A q \in Processos : Linha(q) /\ MemoriaDe(q)
        /\ \A b \in Actors : /\ Papel(b) /\ CicloDe(b) /\ DonoDe(b) /\ PerdidaDe(b)
                             /\ LimpaDe(b) /\ ParadaDe(b)
        /\ processos[p] \in Row
    BY DEF Controle, Ator, Typed
  <1>1. Typed'
    BY <1>0, EmergencyTyped DEF EmergencyScheduler, Actors
  <1>2. /\ UNCHANGED <<exec, esp, respostas, cenario>>
        /\ processos[p].status = "INTERROMPIDO" /\ processos[p].emergencia
        /\ processos[p].encerramento = "CONFIRMANDO_HARDWARE"
    BY DEF ConfirmEmergencyHardware
  <1>3. PICK r : /\ processos' = [processos EXCEPT ![p] = r]
                 /\ r.status = "INTERROMPIDO" /\ r.emergencia /\ r.partida = processos[p].partida
                 /\ r.lease = processos[p].lease /\ r.lido = processos[p].lido
                 /\ \/ /\ EmergenciaConfirmada(p) /\ r.encerramento = "CONCLUIDO"
                       /\ Marca("reset", p)
                    \/ /\ ~EmergenciaConfirmada(p) /\ r.encerramento = "FALHA"
                       /\ UNCHANGED telemetria
    <2> DEFINE s == [processos[p] EXCEPT !.encerramento = "CONCLUIDO"]
    <2> DEFINE t == [processos[p] EXCEPT !.encerramento = "FALHA"]
    <2>1. /\ s.status = "INTERROMPIDO" /\ s.emergencia /\ s.partida = processos[p].partida
          /\ s.lease = processos[p].lease /\ s.lido = processos[p].lido
          /\ s.encerramento = "CONCLUIDO"
      BY <1>0, <1>2 DEF Row
    <2>2. /\ t.status = "INTERROMPIDO" /\ t.emergencia /\ t.partida = processos[p].partida
          /\ t.lease = processos[p].lease /\ t.lido = processos[p].lido
          /\ t.encerramento = "FALHA"
      BY <1>0, <1>2 DEF Row
    <2>3. \/ /\ EmergenciaConfirmada(p) /\ processos' = [processos EXCEPT ![p] = s]
             /\ Marca("reset", p)
          \/ /\ ~EmergenciaConfirmada(p) /\ processos' = [processos EXCEPT ![p] = t]
             /\ UNCHANGED telemetria
      BY DEF ConfirmEmergencyHardware, Gravar
    <2> HIDE DEF s, t
    <2> QED BY <2>1, <2>2, <2>3
  <1>4. processos'[p] = r /\ \A q \in Processos \ {p} : processos'[q] = processos[q]
    BY <1>0, <1>3 DEF Typed
  <1>5. Serial' /\ MesmoCenario
    BY <1>0, <1>2, SerialFica DEF Typed
  <1>6. /\ telemetria'.latch = telemetria.latch /\ telemetria'.bomba = telemetria.bomba
        /\ telemetria'.abertas = telemetria.abertas
        /\ \A q \in Processos : /\ Nova("emergencia", q)' <=> Nova("emergencia", q)
                                /\ q # p => (Nova("reset", q)' <=> Nova("reset", q))
        /\ r.encerramento = "CONCLUIDO" => ~Nova("reset", p)'
    BY <1>0, <1>3 DEF Marca, Typed, Snapshot, Nova
  <1>7. \A q \in Processos : /\ Em(q)' <=> Em(q)
                             /\ EmOperacao(processos[q])' <=> EmOperacao(processos[q])
                             /\ processos'[q].status = processos[q].status
                             /\ processos'[q].lease = processos[q].lease
                             /\ processos'[q].lido = processos[q].lido
                             /\ processos'[q].emergencia <=> processos[q].emergencia
    BY <1>2, <1>3, <1>4 DEF Em, EmOperacao
  <1>8. \A q \in Processos : Linha(q)' /\ MemoriaDe(q)'
    BY <1>0, <1>2, <1>7 DEF Linha, MemoriaDe, Seguro
  <1>9. ASSUME NEW b \in Actors PROVE Ator(b)'
    <2>1. Papel(b)'
      BY <1>0, <1>2, <1>5 DEF Papel, MesmoCenario
    <2>2. CicloDe(b)'
      <3>1. Transita(b) => exec[b].p \in Processos
        BY <1>0 DEF Papel, Transita, Ciclo
      <3> QED BY <1>0, <1>2, <1>7, <3>1 DEF CicloDe, Transita
    <2>3. DonoDe(b)'
      <3>1. Trabalha(b) => exec[b].p \in Processos
        BY <1>0 DEF Papel, Trabalha
      <3> QED BY <1>0, <1>2, <1>7, <3>1 DEF DonoDe, Trabalha
    <2>4. PerdidaDe(b)'
      <3> SUFFICES ASSUME exec[b].modo = "partida", processos[exec[b].p].emergencia
                   PROVE  PerdidaDe(b)'
        <4>1. exec[b].modo = "partida" => exec[b].p \in Processos
          BY <1>0 DEF Papel
        <4> QED BY <1>2, <1>7, <4>1 DEF PerdidaDe
      <3>1. PICK q \in Processos : q = exec[b].p
        BY <1>0 DEF Papel
      <3>2. \A s \in Processos : ~Em(s)'
        BY <1>0, <1>7 DEF PerdidaDe
      <3>3. CASE q = p
        BY <1>0, <1>2, <1>3, <1>4, <1>6, <3>1, <3>2, <3>3
           DEF PerdidaDe, Pendente, EmergenciaPendente, EmergenciaConfirmada
      <3>4. CASE q # p
        BY <1>0, <1>2, <1>4, <1>6, <3>1, <3>2, <3>4 DEF PerdidaDe, Pendente
      <3> QED BY <3>3, <3>4
    <2>5. LimpaDe(b)'
      <3>1. exec[b].modo = "partida" => exec[b].p \in Processos
        BY <1>0 DEF Papel
      <3> QED BY <1>0, <1>2, <1>7, <3>1 DEF LimpaDe
    <2>6. ParadaDe(b)'
      <3>1. Trabalha(b) => exec[b].p \in Processos
        BY <1>0 DEF Papel, Trabalha
      <3> QED BY <1>0, <1>2, <1>7, <3>1 DEF ParadaDe, Trabalha, Seguro
    <2> QED BY <2>1, <2>2, <2>3, <2>4, <2>5, <2>6 DEF Ator
  <1>10. Bomba'
    <2> SUFFICES ASSUME esp.bomba PROVE Bomba'
      BY <1>2 DEF Bomba
    <2>1. PICK q \in Processos : ComDono(q)
      BY <1>0 DEF Bomba
    <2>2. EmergenciaConfirmada(q)' <=> EmergenciaConfirmada(q)
      BY <1>6 DEF EmergenciaConfirmada
    <2>3. CASE q = p
      <3>1. ~EmOperacao(processos[p])
        BY <1>0, <1>2 DEF Linha, EmOperacao, Em
      <3>2. r.encerramento = "FALHA"
        BY <1>3, <2>1, <2>3, <3>1 DEF ComDono
      <3>3. ComDono(q)'
        BY <1>3, <1>4, <2>1, <2>2, <2>3, <3>1, <3>2 DEF ComDono, Pendente, EmergenciaPendente
      <3> QED BY <3>3 DEF Bomba
    <2>4. CASE q # p
      <3>1. ComDono(q)'
        BY <1>4, <2>1, <2>2, <2>4 DEF ComDono, Pendente
      <3> QED BY <3>1 DEF Bomba
    <2> QED BY <2>3, <2>4
  <1> QED BY <1>1, <1>5, <1>8, <1>9, <1>10 DEF Controle

\* A startup begins: no other is in progress, and none lives that has lost its row.
LEMMA PartidaComeca ==
    ASSUME Controle, NEW a \in Requests, NEW p \in Processos, Begin(a, p)
    PROVE  Controle'
  <1>0. /\ Typed /\ Serial /\ Bomba /\ \A q \in Processos : Linha(q) /\ MemoriaDe(q)
        /\ \A b \in Actors : /\ Papel(b) /\ CicloDe(b) /\ DonoDe(b) /\ PerdidaDe(b)
                             /\ LimpaDe(b) /\ ParadaDe(b)
        /\ processos[p] \in Row /\ a \in Actors
    BY DEF Controle, Ator, Typed, Actors
  <1>1. Typed'
    <2>1. Client(a)
      BY DEF Client
    <2> QED BY <1>0, <2>1, ClientTyped
  <1>2. a \in cenario.requests /\ exec[a] = Livre /\ UNCHANGED <<esp, cenario>>
    BY <1>0 DEF Begin, Pede, Papel
  <1>3. \A b \in Actors : ~Transita(b)
    <2>1. ~Transita(a)
      BY <1>2 DEF Transita, Livre, Ciclo
    <2> QED BY <1>2, <2>1, SemCiclo
  <1> DEFINE r == [processos[p] EXCEPT !.partida = "EM_ANDAMENTO", !.lease = TRUE, !.lido = {a}]
  <1>4. /\ r.status = "CONFIGURADO" /\ r.partida = "EM_ANDAMENTO" /\ r.lease /\ r.lido = {a}
        /\ r.emergencia = processos[p].emergencia
    BY <1>0 DEF Begin, Row
  <1>5. /\ processos' = [processos EXCEPT ![p] = r] /\ IndiceAceita(p, r)
        /\ processos[p].status = "CONFIGURADO" /\ ~Em(p)
        /\ \A q \in Processos : processos[q].emergencia => EmergenciaSuperada(q)
        /\ respostas' = [respostas EXCEPT ![p] = [i \in Ids |-> "nenhuma"]]
        /\ Marca("partida", p)
    BY DEF Begin, Gravar, Em
  <1> HIDE DEF r
  <1>6. processos'[p] = r /\ \A q \in Processos \ {p} : processos'[q] = processos[q]
    BY <1>0, <1>5 DEF Typed
  <1>7. /\ \A i \in Ids : respostas'[p][i] = "nenhuma"
        /\ \A q \in Processos \ {p} : respostas'[q] = respostas[q]
    BY <1>0, <1>5 DEF Typed
  <1>8. ~r.emergencia
    BY <1>0, <1>4, <1>5 DEF Linha
  <1>9. /\ Outros(a) /\ exec'[a].pc = "bombas" /\ exec'[a].p = p /\ exec'[a].modo = "partida"
        /\ exec'[a].fase = "prepare"
    <2>1. PICK S : exec' = [exec EXCEPT ![a] = [Livre EXCEPT !.pc = "bombas", !.p = p,
                                                             !.modo = "partida", !.alvos = S]]
      BY DEF Begin
    <2> DEFINE e == [Livre EXCEPT !.pc = "bombas", !.p = p, !.modo = "partida", !.alvos = S]
    <2>2. e.pc = "bombas" /\ e.p = p /\ e.modo = "partida" /\ e.fase = "prepare"
      BY DEF Livre
    <2>3. exec' = [exec EXCEPT ![a] = e]
      BY <2>1
    <2> HIDE DEF e
    <2>4. exec'[a] = e /\ Outros(a)
      BY <1>0, <2>3 DEF Typed, Outros
    <2> QED BY <2>2, <2>4
  <1>10. Serial' /\ MesmoCenario
    BY <1>0, <1>2, SerialFica DEF Typed
  <1>11. /\ telemetria'.latch = telemetria.latch /\ telemetria'.bomba = telemetria.bomba
         /\ telemetria'.abertas = telemetria.abertas
         /\ \A q \in Processos : Nova("emergencia", q)' <=> Nova("emergencia", q)
    BY <1>0, <1>5 DEF Marca, Typed, Snapshot, Nova
  <1>12. ASSUME NEW q \in Processos PROVE Linha(q)' /\ MemoriaDe(q)'
    <2>1. EmOperacao(r)
      BY <1>4 DEF EmOperacao
    <2>2. \A s \in Processos : EmOperacao(processos'[s]) => s = p
      BY <1>5, <1>6, <2>1 DEF IndiceAceita
    <2>3. Linha(q)'
      BY <1>0, <1>4, <1>6, <1>8, <2>2 DEF Linha, Em
    <2>4. MemoriaDe(q)'
      <3>1. CASE q = p
        BY <1>7, <3>1 DEF MemoriaDe, Ids, Feito
      <3>2. CASE q # p
        BY <1>0, <1>2, <1>6, <1>7, <3>2 DEF MemoriaDe, Em, Seguro
      <3> QED BY <3>1, <3>2
    <2> QED BY <2>3, <2>4
  <1>13. ASSUME NEW b \in Actors \ {a} PROVE Ator(b)'
    <2>1. exec'[b] = exec[b]
      BY <1>9 DEF Outros
    <2>2. Papel(b)'
      BY <1>0, <1>10, <2>1 DEF Papel, MesmoCenario
    <2>3. CicloDe(b)'
      BY <1>3, <2>1 DEF CicloDe, Transita
    <2>4. Trabalha(b) => exec[b].p \in Processos \ {p}
      <3> SUFFICES ASSUME Trabalha(b) PROVE exec[b].p \in Processos \ {p}
        OBVIOUS
      <3>1. exec[b].p \in Processos
        BY <1>0 DEF Papel, Trabalha
      <3>2. ~processos[p].emergencia
        BY <1>0, <1>5 DEF Linha
      <3> QED BY <1>0, <1>5, <3>1, <3>2 DEF DonoDe
    <2>5. DonoDe(b)'
      BY <1>0, <1>6, <2>1, <2>4 DEF DonoDe, Trabalha, Em
    <2>6. exec[b].modo = "partida" => Trabalha(b)
      BY <1>0 DEF Papel, Trabalha
    <2>7. PerdidaDe(b)'
      <3> SUFFICES ASSUME exec[b].modo = "partida", processos[exec[b].p].emergencia PROVE FALSE
        BY <1>6, <2>1, <2>4, <2>6 DEF PerdidaDe
      <3>1. exec[b].p \in Processos
        BY <2>4, <2>6
      <3> QED BY <1>0, <1>5, <3>1 DEF PerdidaDe, EmergenciaSuperada
    <2>8. LimpaDe(b)'
      BY <1>0, <1>6, <1>7, <2>1, <2>4, <2>6 DEF LimpaDe, Em
    <2>9. ParadaDe(b)'
      BY <1>0, <1>2, <1>6, <2>1, <2>4 DEF ParadaDe, Trabalha, Em, Seguro
    <2> QED BY <2>2, <2>3, <2>5, <2>7, <2>8, <2>9 DEF Ator
  <1>14. Ator(a)'
    <2>1. Papel(a)'
      BY <1>2, <1>9 DEF Papel, Ciclo
    <2>2. CicloDe(a)' /\ ParadaDe(a)'
      BY <1>9 DEF CicloDe, Transita, Ciclo, ParadaDe
    <2>3. DonoDe(a)' /\ PerdidaDe(a)'
      BY <1>4, <1>6, <1>8, <1>9 DEF DonoDe, PerdidaDe, Em
    <2>4. LimpaDe(a)'
      BY <1>7, <1>9 DEF LimpaDe
    <2> QED BY <2>1, <2>2, <2>3, <2>4 DEF Ator
  <1>15. Bomba'
    <2> SUFFICES ASSUME esp.bomba PROVE Bomba'
      BY <1>2 DEF Bomba
    <2>1. PICK q \in Processos : ComDono(q)
      BY <1>0 DEF Bomba
    <2>2. CASE q = p
      BY <1>4, <1>6 DEF Bomba, ComDono, EmOperacao
    <2>3. CASE q # p
      <3>1. EmergenciaConfirmada(q)' <=> EmergenciaConfirmada(q)
        BY <1>11 DEF EmergenciaConfirmada
      <3>2. ComDono(q)'
        BY <1>6, <2>1, <2>3, <3>1 DEF ComDono, Pendente
      <3> QED BY <3>2 DEF Bomba
    <2> QED BY <2>2, <2>3
  <1> QED BY <1>1, <1>10, <1>12, <1>13, <1>14, <1>15 DEF Controle

\* A lifecycle request begins, alone.
LEMMA CicloComeca ==
    ASSUME Controle, NEW a \in Requests, NEW p \in Processos,
           Resume(a, p) \/ \E op \in {"pausa", "conclusao", "interrupcao"} : StopRequest(a, p, op)
    PROVE  Controle'
  <1>0. /\ Typed /\ Serial /\ Bomba /\ \A q \in Processos : Linha(q) /\ MemoriaDe(q)
        /\ \A b \in Actors : /\ Papel(b) /\ CicloDe(b) /\ DonoDe(b) /\ PerdidaDe(b)
                             /\ LimpaDe(b) /\ ParadaDe(b)
        /\ processos[p] \in Row /\ a \in Actors
    BY DEF Controle, Ator, Typed, Actors
  <1>1. Typed'
    <2>1. Client(a)
      BY DEF Client
    <2> QED BY <1>0, <2>1, ClientTyped
  <1>2. UNCHANGED <<processos, esp, telemetria, respostas, cenario>>
    BY DEF Resume, StopRequest
  <1>3. PICK op \in Ciclo : /\ op \in cenario.operacoes /\ a \in cenario.requests /\ exec[a].pc = "livre"
                            /\ op = "retomada" => Resume(a, p)
                            /\ op # "retomada" => StopRequest(a, p, op)
    BY DEF Resume, StopRequest, Pede, Ciclo
  <1>4. /\ Outros(a) /\ exec'[a].pc = "bombas" /\ exec'[a].p = p /\ exec'[a].modo = op
        /\ exec'[a].fase = IF op = "retomada" THEN "prepare" ELSE "parada"
    <2>1. CASE op = "retomada"
      <3> DEFINE e == [Livre EXCEPT !.pc = "bombas", !.p = p, !.modo = "retomada",
                                    !.alvos = processos[p].tanques]
      <3>1. e.pc = "bombas" /\ e.p = p /\ e.modo = "retomada" /\ e.fase = "prepare"
        BY DEF Livre
      <3>2. exec' = [exec EXCEPT ![a] = e]
        BY <1>3, <2>1 DEF Resume
      <3> HIDE DEF e
      <3>3. exec'[a] = e /\ Outros(a)
        BY <1>0, <3>2 DEF Typed, Outros
      <3> QED BY <2>1, <3>1, <3>3
    <2>2. CASE op # "retomada"
      <3> DEFINE e == [Livre EXCEPT !.pc = "bombas", !.p = p, !.modo = op, !.fase = "parada"]
      <3>1. e.pc = "bombas" /\ e.p = p /\ e.modo = op /\ e.fase = "parada"
        BY DEF Livre
      <3>2. exec' = [exec EXCEPT ![a] = e]
        BY <1>3, <2>2 DEF StopRequest
      <3> HIDE DEF e
      <3>3. exec'[a] = e /\ Outros(a)
        BY <1>0, <3>2 DEF Typed, Outros
      <3> QED BY <2>2, <3>1, <3>3
    <2> QED BY <2>1, <2>2
  <1>5. \A b \in Actors : ~Transita(b)
    <2>1. exec[a] = Livre
      BY <1>0, <1>3 DEF Papel
    <2>2. ~Transita(a)
      BY <2>1 DEF Transita, Livre, Ciclo
    <2> QED BY <1>3, <2>2, SemCiclo
  <1>6. Serial' /\ MesmoCenario
    BY <1>0, <1>2, SerialFica DEF Typed
  <1>7. \A q \in Processos : Linha(q)' /\ MemoriaDe(q)'
    BY <1>0, <1>2 DEF Linha, MemoriaDe, Em, Seguro
  <1>8. ASSUME NEW b \in Actors \ {a} PROVE Ator(b)'
    <2>1. exec'[b] = exec[b]
      BY <1>4 DEF Outros
    <2>2. Papel(b)' /\ CicloDe(b)'
      BY <1>0, <1>5, <1>6, <2>1 DEF Papel, MesmoCenario, CicloDe, Transita
    <2>3. DonoDe(b)' /\ PerdidaDe(b)' /\ LimpaDe(b)' /\ ParadaDe(b)'
      BY <1>0, <1>2, <2>1
         DEF DonoDe, PerdidaDe, LimpaDe, ParadaDe, Trabalha, Em, Seguro, Pendente, Nova
    <2> QED BY <2>2, <2>3 DEF Ator
  <1>9. Ator(a)'
    <2>1. Papel(a)'
      BY <1>2, <1>3, <1>4 DEF Papel, Ciclo
    <2>2. CicloDe(a)'
      <3>1. ASSUME NEW b \in Requests \ {a} PROVE exec'[b] = Livre
        <4>1. \A c, d \in cenario.requests : c = d
          BY <1>0, <1>3 DEF Serial
        <4>2. b \notin cenario.requests /\ b \in Actors
          BY <1>3, <4>1 DEF Actors
        <4>3. exec[b] = Livre
          BY <1>0, <4>2 DEF Papel
        <4> QED BY <1>4, <4>2, <4>3 DEF Outros
      <3>2. /\ op # "interrupcao" => processos[p].status \in {"EM_EXECUCAO", "PAUSADO"}
            /\ op = "retomada" => processos[p].status = "PAUSADO"
            /\ processos[p].status # "INTERROMPIDO"
        BY <1>3 DEF Resume, StopRequest, Aceita, Ciclo
      <3>3. ~processos[p].emergencia
        BY <1>0, <3>2 DEF Linha
      <3> QED BY <1>2, <1>4, <3>1, <3>2, <3>3 DEF CicloDe
    <2>3. DonoDe(a)' /\ PerdidaDe(a)' /\ LimpaDe(a)' /\ ParadaDe(a)'
      BY <1>4 DEF DonoDe, PerdidaDe, LimpaDe, ParadaDe, Trabalha, Ciclo
    <2> QED BY <2>1, <2>2, <2>3 DEF Ator
  <1>10. Bomba'
    BY <1>0, <1>2 DEF Bomba, ComDono, Pendente, EmergenciaConfirmada, Nova
  <1> QED BY <1>1, <1>6, <1>7, <1>8, <1>9, <1>10 DEF Controle

\* What else the clients begin: the stop of the equipment, and the reading of the process
\* that the latch of the controller stops.
LEMMA ClienteAnda ==
    ASSUME Controle, NEW a \in Requests, Client(a) \/ RequestEmergencyStopForCurrent(a)
    PROVE  Controle'
  <1>0. Typed /\ Papel(a) /\ a \in Actors
    BY DEF Controle, Ator, Actors
  <1>1. ASSUME exec[a].pc = "livre", a \in cenario.requests
        PROVE  ~Transita(a) /\ \A b \in Actors : ~Transita(b)
    <2>1. exec[a] = Livre
      BY <1>0, <1>1 DEF Papel
    <2>2. ~Transita(a)
      BY <2>1 DEF Transita, Livre, Ciclo
    <2> QED BY <1>1, <2>2, SemCiclo
  <1>2. ASSUME NEW p \in Processos, Pede("emergencia", a, p),
               ClaimEmergencyStop(a, p) \/ ClaimFails(a, p)
        PROVE  Controle'
    BY <1>1, <1>2, ClaimAnda, ClaimFalha DEF Pede
  <1>3. ASSUME NEW p \in Processos, ReconcileControllerEmergency(a, p) PROVE Controle'
    <2>1. Typed'
      BY <1>0, <1>3, ClientTyped DEF Client
    <2>2. exec[a].pc = "livre" /\ a \in cenario.requests
          /\ UNCHANGED <<processos, esp, telemetria, respostas, cenario>>
      BY <1>3 DEF ReconcileControllerEmergency, Pede
    <2> DEFINE e == [Livre EXCEPT !.pc = "reconciliar", !.p = p]
    <2>3. e.pc = "reconciliar" /\ e.p = p /\ e.modo = "nenhum" /\ e.fase = "prepare"
      BY DEF Livre
    <2>4. exec' = [exec EXCEPT ![a] = e]
      BY <1>3 DEF ReconcileControllerEmergency
    <2> HIDE DEF e
    <2>5. exec'[a] = e /\ Outros(a)
      BY <1>0, <2>4 DEF Typed, Outros
    <2>6. Papel(a)'
      BY <2>2, <2>3, <2>5 DEF Papel, Ciclo
    <2>7. MesmasLinhas /\ MesmosDonos /\ Acalma
      BY <2>2 DEF MesmasLinhas, MesmosDonos, Acalma
    <2> QED BY <1>0, <1>1, <2>1, <2>2, <2>3, <2>5, <2>6, <2>7, SemLinhas
  <1>4. CASE RequestEmergencyStopForCurrent(a)
    <2>1. Typed'
      BY <1>0, <1>4, ClientTyped
    <2>2. exec[a].pc = "livre" /\ a \in cenario.requests
          /\ UNCHANGED <<processos, esp, telemetria, respostas, cenario>>
      BY <1>4 DEF RequestEmergencyStopForCurrent, Pede
    <2>3. exec'[a] = SequenciaAvulsa(NenhumProcesso) /\ Outros(a)
      BY <1>0, <1>4 DEF RequestEmergencyStopForCurrent, Typed, Outros
    <2>4. exec'[a].modo = "emergencia" /\ Papel(a)'
      BY <1>0, <2>2, <2>3, SequenciaPapel
    <2>5. MesmasLinhas /\ MesmosDonos /\ Acalma
      BY <2>2 DEF MesmasLinhas, MesmosDonos, Acalma
    <2> QED BY <1>0, <1>1, <2>1, <2>2, <2>3, <2>4, <2>5, SemLinhas
  <1> QED BY <1>2, <1>3, <1>4, PartidaComeca, CicloComeca DEF Client

\* The scheduler reads a startup whose lease has expired: nobody works on it.
LEMMA RecuperadorLe ==
    ASSUME Controle, NEW p \in Processos, RecoverRead(p)
    PROVE  Controle'
  <1>0. Typed /\ Recuperador \in Actors \ Requests /\ processos[p] \in Row
    BY ControlAssumption DEF Controle, Actors, Typed
  <1>1. Typed'
    BY <1>0, RecoveryTyped DEF Recovery
  <1>2. UNCHANGED <<esp, telemetria, respostas, cenario>> /\ ~processos[p].lease
    BY DEF RecoverRead
  <1>3. MesmasLinhas /\ \A q \in Processos : q # p => processos'[q] = processos[q]
    <2> DEFINE r == [processos[p] EXCEPT !.lido = @ \cup {Recuperador}]
    <2>1. /\ r.status = processos[p].status /\ r.partida = processos[p].partida
          /\ r.emergencia = processos[p].emergencia /\ r.encerramento = processos[p].encerramento
      BY <1>0 DEF Row
    <2>2. processos' = [processos EXCEPT ![p] = r]
      BY DEF RecoverRead, Gravar
    <2> HIDE DEF r
    <2> QED BY <1>0, <2>1, <2>2 DEF Typed, MesmasLinhas
  <1>4. /\ Outros(Recuperador)
        /\ exec'[Recuperador].pc = "assumir" /\ exec'[Recuperador].modo = "recuperacao"
        /\ exec'[Recuperador].p = p /\ exec'[Recuperador].fase = "prepare"
    <2> DEFINE e == [Livre EXCEPT !.pc = "assumir", !.p = p, !.modo = "recuperacao"]
    <2>1. e.pc = "assumir" /\ e.p = p /\ e.modo = "recuperacao" /\ e.fase = "prepare"
      BY DEF Livre
    <2>2. exec' = [exec EXCEPT ![Recuperador] = e]
      BY DEF RecoverRead
    <2> HIDE DEF e
    <2>3. exec'[Recuperador] = e /\ Outros(Recuperador)
      BY <1>0, <2>2 DEF Typed, Outros
    <2> QED BY <2>1, <2>3
  <1>5. Frente
    BY <1>0, <1>4 DEF Frente, Outros, Trabalha, Ciclo
  <1>6. /\ \A b \in Actors \ {Recuperador} : Ator(b)'
        /\ CicloDe(Recuperador)' /\ PerdidaDe(Recuperador)'
        /\ \A q \in Processos : Linha(q)' /\ MemoriaDe(q)'
        /\ Bomba' /\ Serial'
    BY <1>0, <1>2, <1>3, <1>4, <1>5, PassoDeUm
  <1>7. Ator(Recuperador)'
    <2>1. Papel(Recuperador)'
      BY <1>0, <1>4 DEF Papel, Ciclo
    <2> QED BY <1>4, <1>6, <2>1 DEF Ator, DonoDe, Trabalha, LimpaDe, ParadaDe
  <1> QED BY <1>1, <1>6, <1>7 DEF Controle

\* The lease of a startup expires, when nobody works on it.
LEMMA PrazoAnda ==
    ASSUME Controle, NEW p \in Processos, LeaseExpires(p)
    PROVE  Controle'
  <1>0. /\ Typed /\ Serial /\ \A q \in Processos : Linha(q) /\ MemoriaDe(q)
        /\ \A b \in Actors : /\ Papel(b) /\ CicloDe(b) /\ DonoDe(b) /\ PerdidaDe(b)
                             /\ LimpaDe(b) /\ ParadaDe(b)
        /\ Bomba /\ processos[p] \in Row
    BY DEF Controle, Ator, Typed
  <1>1. Typed'
    BY <1>0, RecoveryTyped
  <1>2. UNCHANGED <<exec, esp, telemetria, respostas, cenario>> /\ Em(p)
        /\ \A b \in processos[p].lido : exec[b].p # p
    BY <1>0 DEF LeaseExpires, Serial, Em
  <1>3. MesmasLinhas /\ \A q \in Processos : q # p => processos'[q] = processos[q]
    <2> DEFINE r == [processos[p] EXCEPT !.lease = FALSE]
    <2>1. /\ r.status = processos[p].status /\ r.partida = processos[p].partida
          /\ r.emergencia = processos[p].emergencia /\ r.encerramento = processos[p].encerramento
      BY <1>0 DEF Row
    <2>2. processos' = [processos EXCEPT ![p] = r]
      BY DEF LeaseExpires, Gravar
    <2> HIDE DEF r
    <2> QED BY <1>0, <2>1, <2>2 DEF Typed, MesmasLinhas
  <1>4. Acalma /\ Frente
    BY <1>2 DEF Acalma, Frente
  <1>5. ASSUME NEW b \in Actors PROVE Ator(b)'
    <2>1. Papel(b)'
      BY <1>0, <1>2 DEF Papel
    <2>2. CicloDe(b)' /\ PerdidaDe(b)'
      BY <1>0, <1>2, <1>3, <1>4, CicloFica, PerdidaFica
    <2>3. DonoDe(b)'
      <3> SUFFICES ASSUME Trabalha(b) PROVE DonoDe(b)'
        BY <1>2 DEF DonoDe, Trabalha
      <3>1. exec[b].p \in Processos
        BY <1>0 DEF Papel, Trabalha
      <3>2. exec[b].p # p
        BY <1>0, <1>2 DEF DonoDe
      <3> QED BY <1>0, <1>2, <1>3, <3>1, <3>2 DEF DonoDe, Em
    <2>4. LimpaDe(b)' /\ ParadaDe(b)'
      BY <1>0, <1>2, <1>3, <1>4, LimpaFica, ParadaFica
    <2> QED BY <2>1, <2>2, <2>3, <2>4 DEF Ator
  <1>6. Serial' /\ Bomba' /\ \A q \in Processos : Linha(q)' /\ MemoriaDe(q)'
    BY <1>0, <1>2, <1>3, <1>4, SerialFica, BombaFica, LinhasFicam, MemoriaFica DEF Typed
  <1> QED BY <1>1, <1>5, <1>6 DEF Controle

\* A selection is edited, or the MQTT update takes or leaves its lease.
LEMMA EdicaoAnda ==
    ASSUME Controle,
           \/ ClaimMqttUpdateLease \/ ReleaseMqttUpdateLease \/ \E p \in Processos : UpdateConfig(p)
    PROVE  Controle'
  <1>0. Typed /\ Recuperador \in Actors
    BY DEF Controle, Actors
  <1>1. Typed'
    BY <1>0, RecoveryTyped
  <1>2. UNCHANGED <<exec, esp, telemetria, respostas, cenario>>
    BY DEF ClaimMqttUpdateLease, ReleaseMqttUpdateLease, UpdateConfig
  <1>3. Outros(Recuperador) /\ Acalma
    BY <1>2 DEF Outros, Acalma
  <1>4. MesmasLinhas /\ MesmosDonos
    <2>1. CASE UNCHANGED processos
      BY <2>1 DEF MesmasLinhas, MesmosDonos
    <2>2. ASSUME NEW p \in Processos, UpdateConfig(p) PROVE MesmasLinhas /\ MesmosDonos
      <3>1. PICK S : processos' = [processos EXCEPT ![p] = [processos[p] EXCEPT !.tanques = S]]
        BY <2>2 DEF UpdateConfig, Gravar
      <3> DEFINE r == [processos[p] EXCEPT !.tanques = S]
      <3>2. /\ r.status = processos[p].status /\ r.partida = processos[p].partida
            /\ r.emergencia = processos[p].emergencia /\ r.encerramento = processos[p].encerramento
            /\ r.lease = processos[p].lease /\ r.lido = processos[p].lido
        BY <1>0 DEF Typed, Row
      <3>3. processos' = [processos EXCEPT ![p] = r]
        BY <3>1
      <3> HIDE DEF r
      <3> QED BY <1>0, <3>2, <3>3 DEF Typed, MesmasLinhas, MesmosDonos
    <2> QED BY <2>1, <2>2 DEF ClaimMqttUpdateLease, ReleaseMqttUpdateLease
  <1> QED BY <1>0, <1>1, <1>2, <1>3, <1>4, SemLinhas

\* A HARDWARE_STATUS is stored: it shows the latch and the pump as they are.
LEMMA TelemetriaAnda ==
    ASSUME Controle, Telemetria
    PROVE  Controle'
  <1>0. /\ Typed /\ Serial /\ \A q \in Processos : Linha(q) /\ MemoriaDe(q)
        /\ \A b \in Actors : /\ Papel(b) /\ CicloDe(b) /\ DonoDe(b) /\ PerdidaDe(b)
                             /\ LimpaDe(b) /\ ParadaDe(b)
        /\ Bomba
    BY DEF Controle, Ator
  <1>1. Typed'
    BY <1>0, AmbienteTyped
  <1>2. /\ UNCHANGED <<processos, exec, esp, respostas, cenario>>
        /\ telemetria'.bomba = esp.bomba /\ telemetria'.latch = esp.latch
    BY DEF Telemetria
  <1>3. ASSUME NEW b \in Actors PROVE Ator(b)'
    <2>1. Papel(b)' /\ CicloDe(b)' /\ DonoDe(b)' /\ LimpaDe(b)' /\ ParadaDe(b)'
      BY <1>0, <1>2 DEF Papel, CicloDe, DonoDe, LimpaDe, ParadaDe, Transita, Trabalha, Em, Seguro
    <2>2. PerdidaDe(b)'
      BY <1>0, <1>2 DEF PerdidaDe, Pendente, EmergenciaPendente, Em
    <2> QED BY <2>1, <2>2 DEF Ator
  <1>4. Serial' /\ \A q \in Processos : Linha(q)' /\ MemoriaDe(q)'
    BY <1>0, <1>2 DEF Serial, Linha, MemoriaDe, Em, Seguro
  <1>5. Bomba'
    BY <1>0, <1>2 DEF Bomba, ComDono, Pendente, EmergenciaConfirmada
  <1> QED BY <1>1, <1>3, <1>4, <1>5 DEF Controle

\* An instance of the API dies with what it was doing.
LEMMA QuedaAnda ==
    ASSUME Controle, NEW S \in SUBSET Actors, ApiCrash(S)
    PROVE  Controle'
  <1>0. /\ Typed /\ Serial /\ \A q \in Processos : Linha(q) /\ MemoriaDe(q)
        /\ \A b \in Actors : /\ Papel(b) /\ CicloDe(b) /\ DonoDe(b) /\ PerdidaDe(b)
                             /\ LimpaDe(b) /\ ParadaDe(b)
        /\ Bomba
    BY DEF Controle, Ator
  <1>1. Typed'
    BY <1>0, AmbienteTyped
  <1>2. UNCHANGED <<esp, telemetria, respostas>> /\ Fail("queda")
    BY DEF ApiCrash
  <1>3. /\ \A b \in S : exec'[b] = Livre
        /\ \A b \in Actors \ S : exec'[b] = exec[b]
    BY DEF ApiCrash
  <1>4. /\ MesmasLinhas
        /\ \A q \in Processos : /\ processos'[q].lease = processos[q].lease
                                /\ processos'[q].lido = processos[q].lido \ S
    <2> SUFFICES ASSUME NEW q \in Processos
                 PROVE  /\ processos'[q].status = processos[q].status
                        /\ processos'[q].partida = processos[q].partida
                        /\ processos'[q].emergencia = processos[q].emergencia
                        /\ processos'[q].encerramento = processos[q].encerramento
                        /\ processos'[q].lease = processos[q].lease
                        /\ processos'[q].lido = processos[q].lido \ S
      BY DEF MesmasLinhas
    <2>1. processos'[q] = [processos[q] EXCEPT !.lido = @ \ S] /\ processos[q] \in Row
      BY <1>0 DEF ApiCrash, Typed
    <2> QED BY <2>1 DEF Row
  <1>5. Acalma /\ Frente
    BY <1>2, <1>3 DEF Acalma, Frente
  <1>6. Serial' /\ MesmoCenario
    BY <1>0, <1>2, SerialFica DEF Typed, Falhas
  <1>7. \A b \in Actors : CicloDe(b)' /\ PerdidaDe(b)'
    BY <1>0, <1>2, <1>4, <1>5, CicloFica, PerdidaFica
  <1>8. ASSUME NEW b \in Actors PROVE Ator(b)'
    <2>1. CASE b \in S
      BY <1>3, <2>1, LivreAtor
    <2>2. CASE b \notin S
      <3>1. exec'[b] = exec[b]
        BY <1>3, <2>2
      <3>2. Papel(b)'
        BY <1>0, <1>6, <3>1 DEF Papel, MesmoCenario
      <3>3. DonoDe(b)'
        <4> SUFFICES ASSUME Trabalha(b) PROVE DonoDe(b)'
          BY <3>1 DEF DonoDe, Trabalha
        <4>1. exec[b].p \in Processos
          BY <1>0 DEF Papel, Trabalha
        <4>2. CASE Em(exec[b].p)
          <5>1. processos[exec[b].p].lease /\ processos[exec[b].p].lido = {b}
            BY <1>0, <4>2 DEF DonoDe
          <5> QED BY <1>4, <2>2, <3>1, <4>1, <4>2, <5>1 DEF DonoDe, MesmasLinhas, Em
        <4>3. CASE ~Em(exec[b].p)
          BY <1>0, <1>4, <3>1, <4>1, <4>3 DEF DonoDe, MesmasLinhas, Em
        <4> QED BY <4>2, <4>3
      <3>4. LimpaDe(b)' /\ ParadaDe(b)'
        BY <1>0, <1>2, <1>4, <1>5, <3>1, LimpaFica, ParadaFica
      <3> QED BY <1>7, <3>2, <3>3, <3>4 DEF Ator
    <2> QED BY <2>1, <2>2
  <1>9. Bomba' /\ \A q \in Processos : Linha(q)' /\ MemoriaDe(q)'
    BY <1>0, <1>2, <1>4, <1>5, BombaFica, LinhasFicam, MemoriaFica
  <1> QED BY <1>1, <1>6, <1>8, <1>9 DEF Controle

\* The controller restarts with its outputs off.  A person releases its latch only when
\* no startup lives that the emergency has invalidated.
LEMMA ResetAnda ==
    ASSUME Controle, EspResetAposEmergencia \/ EspResetAcidental
    PROVE  Controle'
  <1>0. /\ Typed /\ Serial /\ \A q \in Processos : Linha(q) /\ MemoriaDe(q)
        /\ \A b \in Actors : /\ Papel(b) /\ CicloDe(b) /\ DonoDe(b) /\ PerdidaDe(b)
                             /\ LimpaDe(b) /\ ParadaDe(b)
        /\ Bomba /\ Recuperador \in Actors
    BY DEF Controle, Ator, Actors
  <1>1. Typed'
    BY <1>0, AmbienteTyped
  <1>2. EspReset /\ (UNCHANGED cenario \/ Fail("reset"))
    BY DEF EspResetAposEmergencia, EspResetAcidental
  <1>3. UNCHANGED <<processos, exec, telemetria>>
    BY <1>2 DEF EspReset
  <1>4. ~esp'.bomba /\ esp'.abertas = {} /\ Acalma /\ Seguro'
    BY <1>2 DEF EspReset, EspDesligado, Acalma, Seguro
  <1>5. \A q \in Processos, i \in Ids : respostas[q][i] = "nenhuma" => respostas'[q][i] = "nenhuma"
    BY <1>2 DEF EspReset
  <1>6. MesmasLinhas /\ MesmosDonos /\ Frente
    BY <1>3 DEF MesmasLinhas, MesmosDonos, Frente
  <1>7. Serial' /\ MesmoCenario
    BY <1>0, <1>2, SerialFica DEF Typed, Falhas
  <1>8. \A q \in Processos : Linha(q)' /\ MemoriaDe(q)'
    BY <1>0, <1>3, <1>4 DEF Linha, MemoriaDe, Em
  <1>9. ASSUME NEW b \in Actors PROVE Ator(b)'
    <2>1. Papel(b)'
      BY <1>0, <1>3, <1>7 DEF Papel, MesmoCenario
    <2>2. CicloDe(b)' /\ DonoDe(b)'
      BY <1>0, <1>3 DEF CicloDe, DonoDe, Transita, Trabalha, Em
    <2>3. PerdidaDe(b)'
      <3>1. CASE EspResetAposEmergencia
        <4>1. exec[b].modo = "partida" => b \in Requests
          BY <1>0 DEF Papel
        <4>2. exec[b].modo = "partida" => ~processos[exec[b].p].emergencia
          BY <1>0, <3>1, <4>1 DEF EspResetAposEmergencia, Serial
        <4> QED BY <1>3, <4>2 DEF PerdidaDe
      <3>2. CASE EspResetAcidental
        <4>1. ~esp.latch
          BY <3>2 DEF EspResetAcidental
        <4> QED BY <1>0, <1>3, <1>6, <4>1, PerdidaFica
      <3> QED BY <3>1, <3>2
    <2>4. LimpaDe(b)'
      <3>1. exec[b].modo = "partida" => exec[b].p \in Processos
        BY <1>0 DEF Papel
      <3> QED BY <1>0, <1>3, <1>5, <3>1 DEF LimpaDe, Em
    <2>5. ParadaDe(b)'
      BY <1>4 DEF ParadaDe
    <2> QED BY <2>1, <2>2, <2>3, <2>4, <2>5 DEF Ator
  <1>10. Bomba'
    BY <1>4 DEF Bomba
  <1> QED BY <1>1, <1>7, <1>8, <1>9, <1>10 DEF Controle

\* A local fault and the physical emergency stop switch the outputs off.
LEMMA FalhaLocalAnda ==
    ASSUME Controle, EspFalhaLocal \/ EspEmergenciaFisica
    PROVE  Controle'
  <1>0. Typed /\ Recuperador \in Actors /\ esp \in Saidas
    BY DEF Controle, Actors, Typed
  <1>1. Typed'
    BY <1>0, AmbienteTyped
  <1>2. UNCHANGED <<processos, exec, telemetria, respostas>> /\ \E f \in Falhas : Fail(f)
    BY DEF EspFalhaLocal, EspEmergenciaFisica, Falhas
  <1>3. MesmasLinhas /\ MesmosDonos /\ Outros(Recuperador)
    BY <1>2 DEF MesmasLinhas, MesmosDonos, Outros
  <1>4. ~esp'.bomba /\ esp'.abertas = {} /\ (esp.latch => esp'.latch)
    BY <1>0 DEF EspFalhaLocal, EspEmergenciaFisica, SemProcesso, Saidas
  <1>5. Acalma
    BY <1>4 DEF Acalma
  <1> QED BY <1>0, <1>1, <1>2, <1>3, <1>4, <1>5, SemLinhas

----------------------------------------------------------------------------
(* The inductive invariant, and the theorems.                              *)

\* At first nobody is at anything, and nothing is energised.
LEMMA InitControle == Init /\ Serial => Controle
  <1> SUFFICES ASSUME Init, Serial PROVE Controle
    OBVIOUS
  <1>1. Typed
    BY InitTyped
  <1>2. /\ Livre.pc = "livre" /\ Livre.modo = "nenhum" /\ Livre.fase = "prepare"
    BY DEF Livre
  <1>3. ASSUME NEW a \in Actors PROVE Ator(a)
    <2>1. exec[a] = Livre
      BY DEF Init
    <2>2. Papel(a)
      BY <1>2, <2>1 DEF Papel, Ciclo
    <2> QED BY <1>2, <2>1, <2>2 DEF Ator, CicloDe, DonoDe, PerdidaDe, LimpaDe, ParadaDe, Transita,
                                    Trabalha, Ciclo
  <1>4. \A p \in Processos : Linha(p) /\ MemoriaDe(p)
    BY DEF Init, Linha, MemoriaDe, Em, EmOperacao
  <1>5. Bomba
    BY DEF Init, EspDesligado, Bomba
  <1> QED BY <1>1, <1>3, <1>4, <1>5 DEF Controle

\* Every step keeps the invariant.
LEMMA StepControle == Controle /\ [Next]_vars => Controle'
  <1> SUFFICES ASSUME Controle, [Next]_vars PROVE Controle'
    OBVIOUS
  <1>1. CASE UNCHANGED vars
    <2>1. UNCHANGED <<processos, exec, esp, telemetria, respostas, cenario, mqttLease>>
      BY <1>1 DEF vars
    <2>2. Typed' /\ Recuperador \in Actors
      BY StepTyped DEF Controle, Actors
    <2>3. Outros(Recuperador) /\ MesmasLinhas /\ MesmosDonos /\ Acalma
      BY <2>1 DEF Outros, MesmasLinhas, MesmosDonos, Acalma
    <2> QED BY <2>1, <2>2, <2>3, SemLinhas
  <1>2. ASSUME NEW a \in Actors, ActorStep(a) PROVE Controle'
    <2>1. CASE Concluir(a) \/ FinishFailedStartup(a)
      BY <2>1, DonoAnda, PartidaAcaba
    <2> QED BY <1>2, <2>1, ParadaAnda, DonoAnda, EtapaAnda, TransicaoAnda, ReconciliaAnda,
               ComandosDeEmergencia, RegistroAnda DEF ActorStep
  <1>3. ASSUME NEW a \in Requests, Client(a) \/ RequestEmergencyStopForCurrent(a) PROVE Controle'
    BY <1>3, ClienteAnda
  <1>4. CASE Recovery
    BY <1>4, DonoAnda, RecuperadorLe DEF Recovery, Actors
  <1>5. CASE EmergencyScheduler
    BY <1>5, SequenciaAnda, ConfirmacaoAnda DEF EmergencyScheduler
  <1> QED BY <1>1, <1>2, <1>3, <1>4, <1>5, EdicaoAnda, TelemetriaAnda, PrazoAnda, QuedaAnda,
             ResetAnda, FalhaLocalAnda DEF Next

\* The invariant holds in every state of a serial behaviour.
LEMMA Invariante == Spec /\ Serial => []Controle
  BY InitControle, StepControle, PTL DEF Spec

\* No crash, lost ACK, replayed answer or race leaves a pump running for a process that
\* is not in operation, nor under an emergency stop still to be confirmed.
THEOREM OwnerTheorem == Spec /\ Serial => []PumpHasOwner
  <1>1. Controle => PumpHasOwner
    BY DEF Controle, Bomba, ComDono, Pendente, PumpHasOwner
  <1> QED BY <1>1, Invariante, PTL

\* Who writes the status, the startup or the emergency of a row.
Escreve(a, p) ==
    /\ exec[a].p = p
    /\ \/ Dono(a, p) /\ (Concluir(a) \/ FinishFailedStartup(a))
       \/ ApplyLifecycleTransition(a)

\* What a step may do to these of a row: keep them, stop the row for an emergency, or be a
\* step of the request or scheduler that works on it.
LEMMA EscritaDeLinha ==
    ASSUME Typed, [Next]_vars, NEW p \in Processos
    PROVE  \/ /\ processos'[p].status = processos[p].status
              /\ processos'[p].partida = processos[p].partida
              /\ processos'[p].emergencia = processos[p].emergencia
           \/ /\ processos'[p].status = "INTERROMPIDO" /\ processos'[p].emergencia
              /\ processos'[p].partida # "CONCLUIDA" \/ ~Em(p)
           \/ \E a \in Actors : Escreve(a, p)
           \/ processos[p].status = "CONFIGURADO" /\ ~Em(p)
  <1> DEFINE Mantem == /\ processos'[p].status = processos[p].status
                       /\ processos'[p].partida = processos[p].partida
                       /\ processos'[p].emergencia = processos[p].emergencia
  <1> DEFINE Para == /\ processos'[p].status = "INTERROMPIDO" /\ processos'[p].emergencia
                     /\ processos'[p].partida # "CONCLUIDA" \/ ~Em(p)
  <1>0. processos \in [Processos -> Row] /\ processos[p] \in Row
    BY DEF Typed
  <1>1. ASSUME NEW q, NEW r, Gravar(q, r),
               q = p => /\ r.status = "INTERROMPIDO" /\ r.emergencia
                        /\ r.partida # "CONCLUIDA" \/ ~Em(p)
        PROVE  Mantem \/ Para
    BY <1>0, <1>1 DEF Gravar
  <1>2. ASSUME NEW q, NEW r, Gravar(q, r),
               q = p => /\ r.status = processos[p].status /\ r.partida = processos[p].partida
                        /\ r.emergencia = processos[p].emergencia
        PROVE  Mantem
    BY <1>0, <1>2 DEF Gravar
  <1>3. UNCHANGED processos => Mantem
    OBVIOUS
  <1>4. ASSUME NEW q, \E a \in Actors : ClaimEmergencyStop(a, q)
        PROVE  Mantem \/ Para
    <2>1. Gravar(q, RowEmEmergencia(processos[q]))
      BY <1>4 DEF ClaimEmergencyStop
    <2>2. PICK s \in Row : s = InvalidaPartida(processos[p])
      <3>1. [processos[p] EXCEPT !.partida = "FALHA", !.lease = FALSE, !.lido = {}] \in Row
        BY <1>0 DEF Row
      <3> QED BY <1>0, <3>1 DEF InvalidaPartida
    <2>3. s.partida # "CONCLUIDA" \/ ~Em(p)
      BY <1>0, <2>2 DEF InvalidaPartida, Em, Row
    <2>4. PICK r : r = RowEmEmergencia(processos[q])
      OBVIOUS
    <2>5. q = p => /\ r.status = "INTERROMPIDO" /\ r.emergencia
                   /\ r.partida # "CONCLUIDA" \/ ~Em(p)
      BY <2>2, <2>3, <2>4 DEF RowEmEmergencia, Row
    <2> QED BY <1>1, <2>1, <2>4, <2>5
  <1>5. ASSUME NEW a \in Actors, ActorStep(a) PROVE Mantem \/ Para \/ Escreve(a, p)
    <2>1. PICK q : q = exec[a].p
      OBVIOUS
    <2>2. CASE Tocar(a) \/ Reivindicar(a) \/ ScheduleRollbackRetry(a)
      <3>1. ASSUME NEW lido, Gravar(q, [processos[q] EXCEPT !.lease = TRUE, !.lido = lido])
            PROVE  Mantem
        <4>1. PICK r : r = [processos[q] EXCEPT !.lease = TRUE, !.lido = lido]
          OBVIOUS
        <4>2. q = p => /\ r.status = processos[p].status /\ r.partida = processos[p].partida
                       /\ r.emergencia = processos[p].emergencia
          BY <1>0, <4>1 DEF Row
        <4> QED BY <1>2, <3>1, <4>1, <4>2
      <3> QED BY <1>3, <2>1, <2>2, <3>1 DEF Tocar, Reivindicar, ScheduleRollbackRetry
    <2>3. CASE Concluir(a) \/ FinishFailedStartup(a) \/ ApplyLifecycleTransition(a)
      <3>1. CASE UNCHANGED processos
        BY <3>1
      <3>2. CASE ~ UNCHANGED processos
        <4>1. /\ Dono(a, q) \/ ApplyLifecycleTransition(a)
              /\ \E r : Gravar(q, r)
          BY <2>1, <2>3, <3>2 DEF Concluir, FinishFailedStartup, ApplyLifecycleTransition
        <4>2. q # p => Mantem
          BY <1>2, <4>1
        <4> QED BY <2>1, <2>3, <4>1, <4>2 DEF Escreve
      <3> QED BY <3>1, <3>2
    <2>4. CASE RegistrarEmergencia(a)
      <3>1. CASE UNCHANGED processos
        BY <3>1
      <3>2. CASE ~ UNCHANGED processos
        <4>1. /\ processos[q].status = "INTERROMPIDO" /\ processos[q].emergencia
              /\ Gravar(q, [processos[q] EXCEPT !.encerramento = "CONFIRMANDO_HARDWARE"])
          BY <2>1, <2>4, <3>2 DEF RegistrarEmergencia
        <4>2. PICK r : r = [processos[q] EXCEPT !.encerramento = "CONFIRMANDO_HARDWARE"]
          OBVIOUS
        <4>3. q = p => /\ r.status = "INTERROMPIDO" /\ r.emergencia
                       /\ r.partida # "CONCLUIDA" \/ ~Em(p)
          BY <1>0, <4>1, <4>2 DEF Row, Em
        <4> QED BY <1>1, <4>1, <4>2, <4>3
      <3> QED BY <3>1, <3>2
    <2>5. CASE RequestEmergencyStop(a)
      <3>1. CASE ClaimEmergencyStop(a, q)
        BY <1>4, <3>1
      <3>2. CASE UNCHANGED processos
        BY <3>2
      <3> QED BY <2>1, <2>5, <3>1, <3>2 DEF RequestEmergencyStop, ClaimFails
    <2>6. CASE \/ DesligarTodasBombas(a) \/ FecharTodasValvulas(a) \/ Esperar(a)
               \/ ComandoDaEtapa(a) \/ Consultar(a) \/ ParadaEmergencia(a) \/ FecharEmergencia(a)
      BY <2>6 DEF DesligarTodasBombas, FecharTodasValvulas, Esperar, ComandoDaEtapa, Consultar,
                  ParadaEmergencia, FecharEmergencia
    <2> HIDE DEF Mantem, Para
    <2> QED BY <1>5, <2>2, <2>3, <2>4, <2>5, <2>6 DEF ActorStep
  <1>6. ASSUME NEW a \in Requests, Client(a) \/ RequestEmergencyStopForCurrent(a)
        PROVE  Mantem \/ Para \/ (processos[p].status = "CONFIGURADO" /\ ~Em(p))
    <2>1. ASSUME NEW q \in Processos, Begin(a, q)
          PROVE  Mantem \/ (processos[p].status = "CONFIGURADO" /\ ~Em(p))
      <3>1. /\ processos[q].status = "CONFIGURADO" /\ ~Em(q)
            /\ \E r : Gravar(q, r)
        BY <2>1 DEF Begin, Em
      <3>2. q # p => Mantem
        BY <1>2, <3>1
      <3> QED BY <3>1, <3>2
    <2>2. ASSUME NEW q \in Processos, ClaimEmergencyStop(a, q) PROVE Mantem \/ Para
      BY <1>4, <2>2 DEF Actors
    <2>3. ASSUME NEW q \in Processos,
                 \/ Resume(a, q) \/ ClaimFails(a, q) \/ ReconcileControllerEmergency(a, q)
                 \/ \E op \in {"pausa", "conclusao", "interrupcao"} : StopRequest(a, q, op)
          PROVE  UNCHANGED processos
      BY <2>3 DEF Resume, ClaimFails, ReconcileControllerEmergency, StopRequest
    <2>4. RequestEmergencyStopForCurrent(a) => UNCHANGED processos
      BY DEF RequestEmergencyStopForCurrent
    <2> HIDE DEF Mantem, Para
    <2> QED BY <1>3, <1>6, <2>1, <2>2, <2>3, <2>4 DEF Client
  <1>7. ASSUME Recovery PROVE Mantem
    <2>1. PICK q, r : UNCHANGED processos \/
             (Gravar(q, r) /\ (q = p => /\ r.status = processos[p].status
                                        /\ r.partida = processos[p].partida
                                        /\ r.emergencia = processos[p].emergencia))
      <3>1. CASE RecoverClaim
        <4>1. PICK q : q = exec[Recuperador].p
          OBVIOUS
        <4>2. PICK r : r = [processos[q] EXCEPT !.lease = TRUE, !.lido = {Recuperador}]
          OBVIOUS
        <4>3. q = p => /\ r.status = processos[p].status /\ r.partida = processos[p].partida
                       /\ r.emergencia = processos[p].emergencia
          BY <1>0, <4>2 DEF Row
        <4>4. UNCHANGED processos \/ Gravar(q, r)
          BY <3>1, <4>1, <4>2 DEF RecoverClaim
        <4> QED BY <4>3, <4>4
      <3>2. ASSUME NEW q \in Processos, RecoverRead(q)
            PROVE  \E r : Gravar(q, r) /\ (q = p => /\ r.status = processos[p].status
                                                    /\ r.partida = processos[p].partida
                                                    /\ r.emergencia = processos[p].emergencia)
        <4>1. PICK r : r = [processos[q] EXCEPT !.lido = @ \cup {Recuperador}]
          OBVIOUS
        <4>2. q = p => /\ r.status = processos[p].status /\ r.partida = processos[p].partida
                       /\ r.emergencia = processos[p].emergencia
          BY <1>0, <4>1 DEF Row
        <4> QED BY <3>2, <4>1, <4>2 DEF RecoverRead
      <3> QED BY <1>7, <3>1, <3>2 DEF Recovery
    <2> QED BY <1>2, <2>1
  <1>8. ASSUME EmergencyScheduler PROVE Mantem \/ Para
    <2>1. PICK q \in Processos : ClaimEmergencySequence(q) \/ ConfirmEmergencyHardware(q)
      BY <1>8 DEF EmergencyScheduler
    <2>2. PICK e : /\ Gravar(q, [processos[q] EXCEPT !.encerramento = e])
                   /\ processos[q].status = "INTERROMPIDO" /\ processos[q].emergencia
      BY <2>1 DEF ClaimEmergencySequence, ConfirmEmergencyHardware
    <2>3. PICK r : r = [processos[q] EXCEPT !.encerramento = e]
      OBVIOUS
    <2>4. q = p => /\ r.status = "INTERROMPIDO" /\ r.emergencia
                   /\ r.partida # "CONCLUIDA" \/ ~Em(p)
      BY <1>0, <2>2, <2>3 DEF Row, Em
    <2> QED BY <1>1, <2>2, <2>3, <2>4
  <1>9. ASSUME NEW q \in Processos, LeaseExpires(q) \/ UpdateConfig(q) PROVE Mantem
    <2>1. PICK r : /\ Gravar(q, r)
                   /\ q = p => /\ r.status = processos[p].status
                               /\ r.partida = processos[p].partida
                               /\ r.emergencia = processos[p].emergencia
      <3>1. CASE LeaseExpires(q)
        <4>1. PICK r : r = [processos[q] EXCEPT !.lease = FALSE]
          OBVIOUS
        <4>2. q = p => /\ r.status = processos[p].status /\ r.partida = processos[p].partida
                       /\ r.emergencia = processos[p].emergencia
          BY <1>0, <4>1 DEF Row
        <4> QED BY <3>1, <4>1, <4>2 DEF LeaseExpires
      <3>2. CASE UpdateConfig(q)
        <4>1. PICK S : Gravar(q, [processos[q] EXCEPT !.tanques = S])
          BY <3>2 DEF UpdateConfig
        <4>2. PICK r : r = [processos[q] EXCEPT !.tanques = S]
          OBVIOUS
        <4>3. q = p => /\ r.status = processos[p].status /\ r.partida = processos[p].partida
                       /\ r.emergencia = processos[p].emergencia
          BY <1>0, <4>2 DEF Row
        <4> QED BY <4>1, <4>2, <4>3
      <3> QED BY <1>9, <3>1, <3>2
    <2> QED BY <1>2, <2>1
  <1>10. ASSUME NEW S, ApiCrash(S) PROVE Mantem
    <2>1. processos'[p] = [processos[p] EXCEPT !.lido = @ \ S]
      BY <1>10 DEF ApiCrash
    <2> QED BY <1>0, <2>1 DEF Row
  <1>11. ASSUME \/ UNCHANGED vars \/ ClaimMqttUpdateLease \/ ReleaseMqttUpdateLease
                \/ Telemetria \/ EspResetAposEmergencia \/ EspResetAcidental
                \/ EspFalhaLocal \/ EspEmergenciaFisica
         PROVE  Mantem
    BY <1>11 DEF vars, ClaimMqttUpdateLease, ReleaseMqttUpdateLease, Telemetria, EspReset,
       EspResetAposEmergencia, EspResetAcidental, EspFalhaLocal, EspEmergenciaFisica
  <1> HIDE DEF Mantem, Para
  <1>12. \/ Mantem \/ Para \/ (\E a \in Actors : Escreve(a, p))
         \/ processos[p].status = "CONFIGURADO" /\ ~Em(p)
    BY <1>5, <1>6, <1>7, <1>8, <1>9, <1>10, <1>11 DEF Next
  <1> QED BY <1>12 DEF Mantem, Para

\* A startup that its rollback marks FALHA leaves the pumps off and the valves closed
\* (finishFailedStartup after runSafeRollback, by the request or by the scheduler).
THEOREM FailureTheorem == Spec /\ Serial => FailedStartupIsSafe
  <1> DEFINE Falha(p) == /\ processos[p].partida = "EM_ANDAMENTO" /\ processos'[p].partida = "FALHA"
                         /\ ~processos'[p].emergencia
                         => Seguro
  <1>1. ASSUME Controle, [Next]_vars, NEW p \in Processos,
               processos[p].partida = "EM_ANDAMENTO", processos'[p].partida = "FALHA",
               ~processos'[p].emergencia
        PROVE  Seguro
    <2>1. PICK a \in Actors : Escreve(a, p)
      BY <1>1, EscritaDeLinha DEF Controle, Em
    <2>2. processos[p] \in Row /\ Typed
      BY <1>1 DEF Controle, Typed
    <2>3. ~Concluir(a) \/ ~Dono(a, p)
      <3> SUFFICES ASSUME Concluir(a), Dono(a, p) PROVE FALSE
        OBVIOUS
      <3>1. PICK r : r = [processos[p] EXCEPT !.status = "EM_EXECUCAO", !.partida = "CONCLUIDA",
                                              !.lease = FALSE, !.lido = {}, !.emergencia = FALSE]
        OBVIOUS
      <3>2. processos'[p] = r
        BY <2>1, <2>2, <3>1 DEF Escreve, Concluir, Gravar, Typed
      <3>3. r.partida = "CONCLUIDA"
        BY <2>2, <3>1 DEF Row
      <3> QED BY <1>1, <3>2, <3>3
    <2>4. ~ApplyLifecycleTransition(a)
      <3> SUFFICES ASSUME ApplyLifecycleTransition(a) PROVE FALSE
        OBVIOUS
      <3>1. PICK r : r = Transicao(exec[a].modo, processos[p])
        OBVIOUS
      <3>2. processos'[p] = r \/ processos' = processos
        BY <2>1, <2>2, <3>1 DEF Escreve, ApplyLifecycleTransition, Gravar, Typed
      <3>3. r.partida = processos[p].partida
        BY <2>2, <3>1 DEF Transicao, Row
      <3> QED BY <1>1, <3>2, <3>3
    <2>5. exec[a].pc = "finalizar" /\ exec[a].p = p
      BY <2>1, <2>3, <2>4 DEF Escreve, FinishFailedStartup
    <2>6. Trabalha(a)
      BY <1>1, <2>5 DEF Controle, Ator, Papel, Trabalha
    <2> QED BY <1>1, <2>5, <2>6 DEF Controle, Ator, ParadaDe, Em
  <1>2. Controle /\ [Next]_vars => [\A p \in Processos : Falha(p)]_vars
    BY <1>1
  <1> QED BY <1>2, Invariante, PTL DEF Spec, FailedStartupIsSafe

\* No request or scheduler that began before an emergency stop erases it: until the
\* controller confirms it the process stays INTERROMPIDO (claimEmergencyStop against
\* finishFailedStartup, applyLifecycleTransition and the startup).
THEOREM EmergencyTheorem == Spec /\ Serial => EmergencyPersists
  <1> DEFINE Fica(p) == processos[p].status = "INTERROMPIDO" /\ EmergenciaPendente(processos[p])
                        => processos'[p].status = "INTERROMPIDO" /\ processos'[p].emergencia
  <1>1. ASSUME Controle, [Next]_vars, NEW p \in Processos,
               processos[p].status = "INTERROMPIDO", EmergenciaPendente(processos[p])
        PROVE  processos'[p].status = "INTERROMPIDO" /\ processos'[p].emergencia
    <2>1. processos[p].emergencia /\ ~Em(p)
      BY <1>1 DEF EmergenciaPendente, Controle, Linha
    <2>2. ASSUME NEW a \in Actors, Escreve(a, p) PROVE FALSE
      <3>1. ApplyLifecycleTransition(a) /\ exec[a].p = p
        BY <2>1, <2>2 DEF Escreve, Dono, Em
      <3>2. Transita(a)
        BY <1>1, <3>1 DEF ApplyLifecycleTransition, Controle, Ator, Papel, Transita
      <3> QED BY <1>1, <2>1, <3>1, <3>2 DEF Controle, Ator, CicloDe
    <2> QED BY <1>1, <2>1, <2>2, EscritaDeLinha DEF Controle
  <1>2. Controle /\ [Next]_vars => [\A p \in Processos : Fica(p)]_vars
    BY <1>1
  <1> QED BY <1>2, Invariante, PTL DEF Spec, EmergencyPersists

----------------------------------------------------------------------------
(* The contract of a startup.  Before any rollback a startup that has its   *)
(* row is alone at the controller: the commands it has given say what is    *)
(* open and on, and nobody has changed it since.                            *)

\* The scenarios of StartedAsConfirmedUndisturbed.
Tranquilo ==
    /\ cenario.operacoes \cap {"edicao", "interrupcao", "geral"} = {}
    /\ cenario.falhas \cap {"reset", "local", "botao", "banco"} = {}

\* No process but p has been stopped by an emergency.
SemOutra(p) == \A q \in Processos \ {p} : ~processos[q].emergencia

\* A startup that has its row and has not begun to stop, while no other process is stopped.
Firme(a) ==
    /\ exec[a].modo = "partida" /\ exec[a].fase = "prepare"
    /\ Em(exec[a].p) /\ SemOutra(exec[a].p)

\* What the commands of such a startup have left at the controller, at each stage: the
\* valves that are open are those of the tanks whose turn in the loop has passed.
Posto(a) ==
    LET e == exec[a]
        T == processos[e.p].tanques
    IN  /\ e.pc \in {"bombas", "valvulas"} => e.alvos = T
        /\ e.pc \in {"tocar", "esperar", "comando", "concluir"} =>
             /\ e.etapa \in {"SINCRONIZANDO_HARDWARE", "CARREGANDO_PROCESSO"} =>
                  esp.abertas = {} /\ e.alvos = T
             /\ e.etapa = "ABRINDO_VALVULAS_PRINCIPAIS" =>
                  /\ e.alvos # {} /\ e.alvos \subseteq T
                  /\ esp.abertas = T \ e.alvos /\ esp.selecionados = T
             /\ e.etapa = "LIGANDO_BOMBA_PRINCIPAL" => esp.abertas = T
             /\ e.etapa = "CONFIRMANDO_TELEMETRIA" => esp.bomba /\ esp.abertas = T
        /\ e.pc = "esperar" => e.etapa \in {"SINCRONIZANDO_HARDWARE", "CONFIRMANDO_TELEMETRIA"}
        /\ e.pc = "concluir" => e.etapa = "CONFIRMANDO_TELEMETRIA"

\* The commands of an emergency are those of a process that it has stopped, and only
\* they set the latch.
NaEmergencia(a) ==
    exec[a].modo = "emergencia" => exec[a].p \in Processos /\ processos[exec[a].p].emergencia
Trava == esp.latch => \E q \in Processos : processos[q].emergencia

Calmo ==
    /\ Controle /\ Tranquilo /\ Trava
    /\ \A a \in Actors : NaEmergencia(a) /\ (Firme(a) => Posto(a))

\* Of the scenario a step changes at most the failures left.
LEMMA CenarioAnda ==
    ASSUME Next
    PROVE  UNCHANGED cenario \/ \E f \in Falhas : Fail(f)
  <1>1. ASSUME NEW a, NEW cmd, NEW ok, Comando(a, cmd, ok)
        PROVE  UNCHANGED cenario \/ Fail("perda")
    BY <1>1 DEF Comando
  <1>2. ASSUME NEW a \in Actors, ActorStep(a)
        PROVE  UNCHANGED cenario \/ Fail("perda") \/ Fail("banco")
    <2>1. CASE DesligarTodasBombas(a) \/ FecharTodasValvulas(a) \/ ComandoDaEtapa(a)
      BY <1>1, <2>1 DEF DesligarTodasBombas, FecharTodasValvulas, ComandoDaEtapa
    <2>2. CASE \/ Tocar(a) \/ Esperar(a) \/ Concluir(a) \/ Reivindicar(a) \/ Consultar(a)
               \/ FinishFailedStartup(a) \/ ScheduleRollbackRetry(a) \/ ApplyLifecycleTransition(a)
      BY <2>2 DEF Tocar, Esperar, Concluir, Reivindicar, Consultar, FinishFailedStartup,
                  ScheduleRollbackRetry, ApplyLifecycleTransition
    <2>3. CASE \/ RequestEmergencyStop(a) \/ ParadaEmergencia(a) \/ FecharEmergencia(a)
               \/ RegistrarEmergencia(a)
      BY <2>3 DEF RequestEmergencyStop, ClaimEmergencyStop, ClaimFails, ParadaEmergencia,
                  FecharEmergencia, RegistrarEmergencia
    <2> QED BY <1>2, <2>1, <2>2, <2>3 DEF ActorStep
  <1>3. ASSUME NEW a \in Requests, Client(a) \/ RequestEmergencyStopForCurrent(a)
        PROVE  UNCHANGED cenario \/ Fail("banco")
    BY <1>3 DEF Client, Begin, Resume, ClaimEmergencyStop, ClaimFails, StopRequest,
                ReconcileControllerEmergency, RequestEmergencyStopForCurrent
  <1>4. CASE Recovery \/ EmergencyScheduler
    BY <1>4 DEF Recovery, RecoverClaim, RecoverRead, EmergencyScheduler, ClaimEmergencySequence,
                ConfirmEmergencyHardware
  <1>5. CASE \/ ClaimMqttUpdateLease \/ ReleaseMqttUpdateLease \/ Telemetria
             \/ \E p \in Processos : LeaseExpires(p) \/ UpdateConfig(p)
    BY <1>5 DEF ClaimMqttUpdateLease, ReleaseMqttUpdateLease, Telemetria, LeaseExpires, UpdateConfig
  <1>6. CASE \/ \E S \in SUBSET Actors : ApiCrash(S)
             \/ EspResetAposEmergencia \/ EspResetAcidental \/ EspFalhaLocal \/ EspEmergenciaFisica
    BY <1>6 DEF ApiCrash, EspResetAposEmergencia, EspResetAcidental, EspFalhaLocal,
                EspEmergenciaFisica, Falhas
  <1> QED BY <1>2, <1>3, <1>4, <1>5, <1>6 DEF Next, Falhas

\* A recorded emergency stop stays: who could take it away no longer owns the row.
LEMMA EmergenciaFica ==
    ASSUME Controle, [Next]_vars, NEW q \in Processos, processos[q].emergencia
    PROVE  processos'[q].emergencia
  <1>1. processos[q].status = "INTERROMPIDO" /\ ~Em(q)
    BY DEF Controle, Linha
  <1>2. ASSUME NEW a \in Actors, Escreve(a, q) PROVE FALSE
    <2>1. ApplyLifecycleTransition(a) /\ exec[a].p = q
      BY <1>1, <1>2 DEF Escreve, Dono, Em
    <2>2. Transita(a)
      BY <2>1 DEF ApplyLifecycleTransition, Controle, Ator, Papel, Transita
    <2> QED BY <2>1, <2>2 DEF Controle, Ator, CicloDe
  <1> QED BY <1>1, <1>2, EscritaDeLinha DEF Controle

\* Without editions a step keeps the tanks of every process.
LEMMA TanquesFicam ==
    ASSUME Typed, "edicao" \notin cenario.operacoes, [Next]_vars, NEW p \in Processos
    PROVE  processos'[p].tanques = processos[p].tanques
  <1> DEFINE Mantem == processos'[p].tanques = processos[p].tanques
  <1>0. processos \in [Processos -> Row] /\ processos[p] \in Row
    BY DEF Typed
  <1>1. ASSUME NEW q, NEW r, Gravar(q, r), q = p => r.tanques = processos[p].tanques
        PROVE  Mantem
    BY <1>0, <1>1 DEF Gravar
  <1>2. ASSUME UNCHANGED processos PROVE Mantem
    BY <1>2
  <1>3. ASSUME NEW q, NEW lease, NEW lido,
               Gravar(q, [processos[q] EXCEPT !.lease = lease, !.lido = lido])
        PROVE  Mantem
    <2>1. PICK r : r = [processos[q] EXCEPT !.lease = lease, !.lido = lido]
      OBVIOUS
    <2>2. q = p => r.tanques = processos[p].tanques
      BY <1>0, <2>1 DEF Row
    <2> QED BY <1>1, <1>3, <2>1, <2>2
  <1>4. ASSUME NEW q, NEW e, Gravar(q, [processos[q] EXCEPT !.encerramento = e])
        PROVE  Mantem
    <2>1. PICK r : r = [processos[q] EXCEPT !.encerramento = e]
      OBVIOUS
    <2>2. q = p => r.tanques = processos[p].tanques
      BY <1>0, <2>1 DEF Row
    <2> QED BY <1>1, <1>4, <2>1, <2>2
  <1>5. ASSUME NEW q, NEW a, ClaimEmergencyStop(a, q) PROVE Mantem
    <2>1. Gravar(q, RowEmEmergencia(processos[q]))
      BY <1>5 DEF ClaimEmergencyStop
    <2>2. PICK s \in Row : s = InvalidaPartida(processos[p])
      <3>1. [processos[p] EXCEPT !.partida = "FALHA", !.lease = FALSE, !.lido = {}] \in Row
        BY <1>0 DEF Row
      <3> QED BY <1>0, <3>1 DEF InvalidaPartida
    <2>3. s.tanques = processos[p].tanques
      BY <1>0, <2>2 DEF InvalidaPartida, Row
    <2>4. PICK r : r = RowEmEmergencia(processos[q])
      OBVIOUS
    <2>5. q = p => r.tanques = processos[p].tanques
      BY <2>2, <2>3, <2>4 DEF RowEmEmergencia, Row
    <2> QED BY <1>1, <2>1, <2>4, <2>5
  <1>6. ASSUME NEW a \in Actors, ActorStep(a) PROVE Mantem
    <2>1. PICK q : q = exec[a].p
      OBVIOUS
    <2>2. ASSUME Tocar(a) \/ Reivindicar(a) \/ ScheduleRollbackRetry(a), ~ UNCHANGED processos
          PROVE  \E lido : Gravar(q, [processos[q] EXCEPT !.lease = TRUE, !.lido = lido])
      <3>1. CASE Tocar(a) \/ Reivindicar(a)
        BY <2>1, <2>2, <3>1 DEF Tocar, Reivindicar
      <3>2. CASE ScheduleRollbackRetry(a)
        BY <2>1, <2>2, <3>2 DEF ScheduleRollbackRetry
      <3> QED BY <2>2, <3>1, <3>2
    <2>3. ASSUME Concluir(a), ~ UNCHANGED processos PROVE Mantem
      <3>1. PICK r : r = [processos[q] EXCEPT !.status = "EM_EXECUCAO", !.partida = "CONCLUIDA",
                                              !.lease = FALSE, !.lido = {}, !.emergencia = FALSE]
        OBVIOUS
      <3>2. q = p => r.tanques = processos[p].tanques
        BY <1>0, <3>1 DEF Row
      <3>3. Gravar(q, r)
        BY <2>1, <2>3, <3>1 DEF Concluir
      <3> QED BY <1>1, <3>2, <3>3
    <2>4. ASSUME FinishFailedStartup(a), ~ UNCHANGED processos PROVE Mantem
      <3>1. PICK r : r = [processos[q] EXCEPT !.partida = "FALHA", !.lease = FALSE, !.lido = {}]
        OBVIOUS
      <3>2. q = p => r.tanques = processos[p].tanques
        BY <1>0, <3>1 DEF Row
      <3>3. Gravar(q, r)
        BY <2>1, <2>4, <3>1 DEF FinishFailedStartup
      <3> QED BY <1>1, <3>2, <3>3
    <2>5. ASSUME ApplyLifecycleTransition(a), ~ UNCHANGED processos PROVE Mantem
      <3>1. PICK r : r = Transicao(exec[a].modo, processos[q])
        OBVIOUS
      <3>2. q = p => r.tanques = processos[p].tanques
        BY <1>0, <3>1 DEF Transicao, Row
      <3>3. Gravar(q, r)
        BY <2>1, <2>5, <3>1 DEF ApplyLifecycleTransition
      <3> QED BY <1>1, <3>2, <3>3
    <2>6. ASSUME RegistrarEmergencia(a), ~ UNCHANGED processos
          PROVE  Gravar(q, [processos[q] EXCEPT !.encerramento = "CONFIRMANDO_HARDWARE"])
      BY <2>1, <2>6 DEF RegistrarEmergencia
    <2>7. RequestEmergencyStop(a) => ClaimEmergencyStop(a, q) \/ UNCHANGED processos
      BY <2>1 DEF RequestEmergencyStop, ClaimFails
    <2>8. \/ DesligarTodasBombas(a) \/ FecharTodasValvulas(a) \/ Esperar(a) \/ ComandoDaEtapa(a)
          \/ Consultar(a) \/ ParadaEmergencia(a) \/ FecharEmergencia(a)
          => UNCHANGED processos
      BY DEF DesligarTodasBombas, FecharTodasValvulas, Esperar, ComandoDaEtapa, Consultar,
             ParadaEmergencia, FecharEmergencia
    <2> HIDE DEF Mantem
    <2> QED BY <1>2, <1>3, <1>4, <1>5, <1>6, <2>2, <2>3, <2>4, <2>5, <2>6, <2>7, <2>8 DEF ActorStep
  <1>7. ASSUME NEW a \in Requests, Client(a) \/ RequestEmergencyStopForCurrent(a) PROVE Mantem
    <2>1. ASSUME NEW q \in Processos, Begin(a, q) PROVE Mantem
      <3>1. PICK r : r = [processos[q] EXCEPT !.partida = "EM_ANDAMENTO", !.lease = TRUE, !.lido = {a}]
        OBVIOUS
      <3>2. q = p => r.tanques = processos[p].tanques
        BY <1>0, <3>1 DEF Row
      <3>3. Gravar(q, r)
        BY <2>1, <3>1 DEF Begin
      <3> QED BY <1>1, <3>2, <3>3
    <2>2. ASSUME NEW q \in Processos,
                 \/ Resume(a, q) \/ ClaimFails(a, q) \/ ReconcileControllerEmergency(a, q)
                 \/ \E op \in {"pausa", "conclusao", "interrupcao"} : StopRequest(a, q, op)
          PROVE  UNCHANGED processos
      BY <2>2 DEF Resume, ClaimFails, ReconcileControllerEmergency, StopRequest
    <2>3. RequestEmergencyStopForCurrent(a) => UNCHANGED processos
      BY DEF RequestEmergencyStopForCurrent
    <2> HIDE DEF Mantem
    <2> QED BY <1>2, <1>5, <1>7, <2>1, <2>2, <2>3 DEF Client
  <1>8. ASSUME Recovery PROVE Mantem
    <2>1. ASSUME RecoverClaim PROVE Mantem
      <3>1. \/ UNCHANGED processos
            \/ Gravar(exec[Recuperador].p,
                      [processos[exec[Recuperador].p] EXCEPT !.lease = TRUE, !.lido = {Recuperador}])
        BY <2>1 DEF RecoverClaim
      <3> QED BY <1>2, <1>3, <3>1
    <2>2. ASSUME NEW q \in Processos, RecoverRead(q) PROVE Mantem
      <3>1. PICK r : r = [processos[q] EXCEPT !.lido = @ \cup {Recuperador}]
        OBVIOUS
      <3>2. q = p => r.tanques = processos[p].tanques
        BY <1>0, <3>1 DEF Row
      <3> QED BY <1>1, <2>2, <3>1, <3>2 DEF RecoverRead
    <2> QED BY <1>8, <2>1, <2>2 DEF Recovery
  <1>9. ASSUME EmergencyScheduler PROVE Mantem
    <2>1. PICK q \in Processos : ClaimEmergencySequence(q) \/ ConfirmEmergencyHardware(q)
      BY <1>9 DEF EmergencyScheduler
    <2>2. PICK e : Gravar(q, [processos[q] EXCEPT !.encerramento = e])
      BY <2>1 DEF ClaimEmergencySequence, ConfirmEmergencyHardware
    <2> QED BY <1>4, <2>2
  <1>10. ASSUME NEW q \in Processos, LeaseExpires(q) PROVE Mantem
    <2>1. PICK r : r = [processos[q] EXCEPT !.lease = FALSE]
      OBVIOUS
    <2>2. q = p => r.tanques = processos[p].tanques
      BY <1>0, <2>1 DEF Row
    <2> QED BY <1>1, <1>10, <2>1, <2>2 DEF LeaseExpires
  <1>11. ASSUME NEW S, ApiCrash(S) PROVE Mantem
    <2>1. processos'[p] = [processos[p] EXCEPT !.lido = @ \ S]
      BY <1>11 DEF ApiCrash
    <2> QED BY <1>0, <2>1 DEF Row
  <1>12. ASSUME \/ UNCHANGED vars \/ ClaimMqttUpdateLease \/ ReleaseMqttUpdateLease
                \/ Telemetria \/ EspResetAposEmergencia \/ EspResetAcidental
                \/ EspFalhaLocal \/ EspEmergenciaFisica
         PROVE  Mantem
    BY <1>12 DEF vars, ClaimMqttUpdateLease, ReleaseMqttUpdateLease, Telemetria, EspReset,
       EspResetAposEmergencia, EspResetAcidental, EspFalhaLocal, EspEmergenciaFisica
  <1>13. \A q \in Processos : ~UpdateConfig(q)
    BY DEF UpdateConfig
  <1> HIDE DEF Mantem
  <1>14. Mantem
    BY <1>6, <1>7, <1>8, <1>9, <1>10, <1>11, <1>12, <1>13 DEF Next
  <1> QED BY <1>14 DEF Mantem

\* What a step of an actor does to itself and to the others: the same work goes on, or ends.
Segue(a) ==
    /\ Outros(a)
    /\ \/ exec'[a] = Livre
       \/ /\ exec'[a].modo = exec[a].modo /\ exec'[a].p = exec[a].p
          /\ exec'[a].fase \in {exec[a].fase, "interno", "rollback", "race"}

\* One record of exec is replaced.
LEMMA UmAtor ==
    ASSUME Typed, NEW a \in Actors, NEW e, exec' = [exec EXCEPT ![a] = e]
    PROVE  Outros(a) /\ exec'[a] = e
  BY DEF Typed, Outros

\* Every step of an actor at work does: only the wait for an emergency's turn begins
\* another work.
LEMMA SegueAnda ==
    ASSUME Typed, NEW a \in Actors, ActorStep(a), ~RequestEmergencyStop(a)
    PROVE  Segue(a)
  <1>0. exec[a] \in Exec
    BY DEF Typed
  <1>1. ASSUME NEW pc \in Passos \ {"livre"}, exec[a].pc # "livre", Vai(a, pc) PROVE Segue(a)
    BY <1>1, VaiPasso DEF Segue
  <1>2. ASSUME NEW fase \in {"interno", "rollback", "race"}, exec[a].pc # "livre", IniciaParada(a, fase)
        PROVE  Segue(a)
    BY <1>2, ParadaPasso DEF Segue, Fases
  <1>3. ASSUME Termina(a) PROVE Segue(a)
    BY <1>3, TerminaPasso DEF Segue
  <1>4. ASSUME NEW e, exec' = [exec EXCEPT ![a] = e],
               e.modo = exec[a].modo /\ e.p = exec[a].p /\ e.fase = exec[a].fase
        PROVE  Segue(a)
    BY <1>4, UmAtor DEF Segue
  <1>5. CASE DesligarTodasBombas(a)
    <2>1. PICK ok : exec' = [exec EXCEPT ![a].pc = "valvulas", ![a].falhou = ~ok]
      BY <1>5 DEF DesligarTodasBombas
    <2>2. PICK e : e = [exec[a] EXCEPT !.pc = "valvulas", !.falhou = ~ok]
      OBVIOUS
    <2>3. e.modo = exec[a].modo /\ e.p = exec[a].p /\ e.fase = exec[a].fase
      BY <1>0, <2>2 DEF Exec
    <2>4. exec' = [exec EXCEPT ![a] = e]
      BY <2>1, <2>2 DEF Typed
    <2> QED BY <1>4, <2>3, <2>4
  <1>6. CASE FecharTodasValvulas(a)
    <2>1. PICK ok : DepoisDaParada(a, ParadaConfirmada(a, ok))
      BY <1>6 DEF FecharTodasValvulas
    <2>2. PICK conf : conf = ParadaConfirmada(a, ok)
      OBVIOUS
    <2>3. exec[a].pc # "livre"
      BY <1>6 DEF FecharTodasValvulas
    <2>4. ASSUME NEW pc, exec' = [exec EXCEPT ![a].pc = pc, ![a].etapa = "SINCRONIZANDO_HARDWARE"]
          PROVE  Segue(a)
      <3>1. PICK e : e = [exec[a] EXCEPT !.pc = pc, !.etapa = "SINCRONIZANDO_HARDWARE"]
        OBVIOUS
      <3>2. e.modo = exec[a].modo /\ e.p = exec[a].p /\ e.fase = exec[a].fase
        BY <1>0, <3>1 DEF Exec
      <3>3. exec' = [exec EXCEPT ![a] = e]
        BY <2>4, <3>1 DEF Typed
      <3> QED BY <1>4, <3>2, <3>3
    <2>5. \/ \E pc \in {"tocar", "comando"} :
               exec' = [exec EXCEPT ![a].pc = pc, ![a].etapa = "SINCRONIZANDO_HARDWARE"]
          \/ \E pc \in {"reivindicar", "finalizar", "agendar", "gravar"} : Vai(a, pc)
          \/ Termina(a)
      BY <2>1, <2>2 DEF DepoisDaParada
    <2> QED BY <1>1, <1>3, <2>3, <2>4, <2>5 DEF Passos
  <1>7. CASE ComandoDaEtapa(a)
    <2>1. PICK ok : DepoisDoComando(a, ok)
      BY <1>7 DEF ComandoDaEtapa
    <2>2. exec[a].pc # "livre"
      BY <1>7 DEF ComandoDaEtapa
    <2>3. CASE exec' = [exec EXCEPT ![a].alvos = @ \ {Primeiro(@)}]
      <3>1. PICK e : e = [exec[a] EXCEPT !.alvos = @ \ {Primeiro(@)}]
        OBVIOUS
      <3>2. e.modo = exec[a].modo /\ e.p = exec[a].p /\ e.fase = exec[a].fase
        BY <1>0, <3>1 DEF Exec
      <3>3. exec' = [exec EXCEPT ![a] = e]
        BY <2>3, <3>1 DEF Typed
      <3> QED BY <1>4, <3>2, <3>3
    <2>4. ASSUME NEW pc, NEW etapa, NEW alvos,
                 exec' = [exec EXCEPT ![a].pc = pc, ![a].etapa = etapa, ![a].alvos = alvos]
          PROVE  Segue(a)
      <3>1. PICK e : e = [exec[a] EXCEPT !.pc = pc, !.etapa = etapa, !.alvos = alvos]
        OBVIOUS
      <3>2. e.modo = exec[a].modo /\ e.p = exec[a].p /\ e.fase = exec[a].fase
        BY <1>0, <3>1 DEF Exec
      <3>3. exec' = [exec EXCEPT ![a] = e]
        BY <2>4, <3>1 DEF Typed
      <3> QED BY <1>4, <3>2, <3>3
    <2> DEFINE segue == [exec EXCEPT
               ![a].pc = IF exec[a].modo = "partida" THEN "tocar"
                         ELSE IF exec[a].etapa = "LIGANDO_BOMBA_PRINCIPAL" THEN "gravar" ELSE "comando",
               ![a].etapa = Proxima(exec[a].etapa),
               ![a].alvos = IF exec[a].etapa = "ABRINDO_VALVULAS_PRINCIPAIS" THEN {} ELSE @]
    <2>5. CASE exec' = segue
      <3>1. PICK pc, etapa, alvos :
              /\ pc = IF exec[a].modo = "partida" THEN "tocar"
                      ELSE IF exec[a].etapa = "LIGANDO_BOMBA_PRINCIPAL" THEN "gravar" ELSE "comando"
              /\ etapa = Proxima(exec[a].etapa)
              /\ alvos = IF exec[a].etapa = "ABRINDO_VALVULAS_PRINCIPAIS" THEN {} ELSE exec[a].alvos
        OBVIOUS
      <3>2. exec' = [exec EXCEPT ![a].pc = pc, ![a].etapa = etapa, ![a].alvos = alvos]
        BY <2>5, <3>1 DEF Typed
      <3> QED BY <2>4, <3>2
    <2>6. \/ exec' = [exec EXCEPT ![a].alvos = @ \ {Primeiro(@)}]
          \/ exec' = segue
          \/ IniciaParada(a, "interno") \/ Vai(a, "reivindicar") \/ Termina(a)
      BY <2>1 DEF DepoisDoComando
    <2> HIDE DEF segue
    <2> QED BY <1>1, <1>2, <1>3, <2>2, <2>3, <2>5, <2>6 DEF Passos
  <1>8. CASE Tocar(a) \/ Esperar(a) \/ Concluir(a)
    BY <1>1, <1>2, <1>3, <1>8 DEF Tocar, Esperar, Concluir, Passos
  <1>9. CASE Reivindicar(a) \/ Consultar(a)
    BY <1>1, <1>2, <1>3, <1>9 DEF Reivindicar, Consultar, Passos
  <1>10. CASE FinishFailedStartup(a) \/ ScheduleRollbackRetry(a) \/ ApplyLifecycleTransition(a)
    BY <1>3, <1>10 DEF FinishFailedStartup, ScheduleRollbackRetry, ApplyLifecycleTransition
  <1>11. CASE ParadaEmergencia(a) \/ FecharEmergencia(a) \/ RegistrarEmergencia(a)
    BY <1>1, <1>3, <1>11 DEF ParadaEmergencia, FecharEmergencia, RegistrarEmergencia, Passos
  <1> QED BY <1>5, <1>6, <1>7, <1>8, <1>9, <1>10, <1>11 DEF ActorStep

\* How an actor comes to work on a startup or on an emergency: it was at it already, or
\* begins it now; and the stop that an emergency sequence belongs to is on its row.
LEMMA AtorAnda ==
    ASSUME Controle, Tranquilo, Next, NEW b \in Actors
    PROVE  \/ exec'[b] = exec[b]
           \/ ActorStep(b) /\ ~RequestEmergencyStop(b) /\ Segue(b)
           \/ exec'[b].modo \notin {"partida", "emergencia"}
           \/ \E q \in Processos : Begin(b, q)
           \/ \E q \in Processos : /\ exec'[b].modo = "emergencia" /\ exec'[b].p = q
                                   /\ processos'[q].emergencia
  <1> DEFINE Sabido == \/ exec'[b] = exec[b]
                       \/ ActorStep(b) /\ ~RequestEmergencyStop(b) /\ Segue(b)
                       \/ exec'[b].modo \notin {"partida", "emergencia"}
                       \/ \E q \in Processos : Begin(b, q)
                       \/ \E q \in Processos : /\ exec'[b].modo = "emergencia" /\ exec'[b].p = q
                                               /\ processos'[q].emergencia
  <1>0. Typed /\ processos \in [Processos -> Row] /\ \A a \in Actors : Papel(a)
    BY DEF Controle, Ator, Typed
  <1>1. ASSUME NEW a \in Actors, NEW e, exec' = [exec EXCEPT ![a] = e],
               e.modo \notin {"partida", "emergencia"}
        PROVE  Sabido
    BY <1>0, <1>1, UmAtor DEF Outros
  <1>2. Livre.modo = "nenhum"
    BY DEF Livre
  <1>3. ASSUME NEW a \in Actors, Termina(a) PROVE Sabido
    BY <1>1, <1>2, <1>3 DEF Termina
  <1>4. ASSUME NEW a \in Actors, NEW q \in Processos, NEW r, Gravar(q, r), r.emergencia,
               exec' = [exec EXCEPT ![a] = SequenciaDe(q)]
        PROVE  Sabido
    <2>1. PICK e : e = SequenciaDe(q)
      OBVIOUS
    <2>2. e.modo = "emergencia" /\ e.p = q
      BY <2>1 DEF SequenciaDe, Livre
    <2>3. Outros(a) /\ exec'[a] = e
      BY <1>0, <1>4, <2>1, UmAtor
    <2>4. processos'[q].emergencia
      BY <1>0, <1>4 DEF Gravar
    <2> QED BY <2>2, <2>3, <2>4 DEF Outros
  <1>5. ASSUME NEW a \in Actors, NEW q \in Processos, ClaimEmergencyStop(a, q) PROVE Sabido
    <2>1. PICK s \in Row : s = InvalidaPartida(processos[q])
      <3>1. [processos[q] EXCEPT !.partida = "FALHA", !.lease = FALSE, !.lido = {}] \in Row
        BY <1>0 DEF Row
      <3> QED BY <1>0, <3>1 DEF InvalidaPartida
    <2>2. PICK r : r = RowEmEmergencia(processos[q])
      OBVIOUS
    <2>3. r.emergencia
      BY <2>1, <2>2 DEF RowEmEmergencia, Row
    <2>4. Gravar(q, r) /\ exec' = [exec EXCEPT ![a] = SequenciaDe(q)]
      BY <1>5, <2>2 DEF ClaimEmergencyStop
    <2> QED BY <1>4, <2>3, <2>4
  <1>6. \A a, q : ~ClaimFails(a, q)
    BY DEF ClaimFails, Fail, Tranquilo
  <1> HIDE DEF Sabido
  <1>7. ASSUME NEW a \in Actors, ActorStep(a) PROVE Sabido
    <2>1. CASE ~RequestEmergencyStop(a)
      BY <1>0, <1>7, <2>1, SegueAnda DEF Segue, Outros, Sabido
    <2>2. CASE RequestEmergencyStop(a)
      <3>1. exec[a].p \in Processos
        BY <1>0, <2>2 DEF RequestEmergencyStop, Papel
      <3>2. ClaimEmergencyStop(a, exec[a].p) \/ Termina(a)
        BY <1>6, <2>2 DEF RequestEmergencyStop
      <3> QED BY <1>3, <1>5, <3>1, <3>2
    <2> QED BY <2>1, <2>2
  <1>8. ASSUME NEW a \in Requests, Client(a) \/ RequestEmergencyStopForCurrent(a) PROVE Sabido
    <2>0. a \in Actors
      BY DEF Actors
    <2>1. ASSUME NEW q \in Processos, Begin(a, q) PROVE Sabido
      <3>1. PICK e : exec' = [exec EXCEPT ![a] = e]
        BY <2>1 DEF Begin
      <3>2. Outros(a)
        BY <1>0, <2>0, <3>1, UmAtor
      <3> QED BY <2>1, <3>2 DEF Outros, Sabido
    <2>2. ASSUME NEW q \in Processos, Resume(a, q) PROVE Sabido
      <3>1. PICK e : e = [Livre EXCEPT !.pc = "bombas", !.p = q, !.modo = "retomada",
                                       !.alvos = processos[q].tanques]
        OBVIOUS
      <3>2. e.modo = "retomada" /\ exec' = [exec EXCEPT ![a] = e]
        BY <2>2, <3>1 DEF Resume, Livre
      <3> QED BY <1>1, <2>0, <3>2
    <2>3. ASSUME NEW q \in Processos, ReconcileControllerEmergency(a, q) PROVE Sabido
      <3>1. PICK e : e = [Livre EXCEPT !.pc = "reconciliar", !.p = q]
        OBVIOUS
      <3>2. e.modo = "nenhum" /\ exec' = [exec EXCEPT ![a] = e]
        BY <2>3, <3>1 DEF ReconcileControllerEmergency, Livre
      <3> QED BY <1>1, <2>0, <3>2
    <2>4. ASSUME NEW q \in Processos, NEW op \in {"pausa", "conclusao", "interrupcao"},
                 StopRequest(a, q, op)
          PROVE  Sabido
      <3>1. PICK e : e = [Livre EXCEPT !.pc = "bombas", !.p = q, !.modo = op, !.fase = "parada"]
        OBVIOUS
      <3>2. e.modo = op /\ exec' = [exec EXCEPT ![a] = e]
        BY <2>4, <3>1 DEF StopRequest, Livre
      <3> QED BY <1>1, <2>0, <3>2
    <2>5. ~RequestEmergencyStopForCurrent(a)
      BY DEF RequestEmergencyStopForCurrent, Pede, Tranquilo
    <2> QED BY <1>5, <1>6, <1>8, <2>0, <2>1, <2>2, <2>3, <2>4, <2>5 DEF Client
  <1>9. ASSUME Recovery PROVE Sabido
    <2>1. Recuperador \in Actors /\ exec[Recuperador] \in Exec
      BY <1>0 DEF Actors, Typed
    <2>2. ASSUME NEW q \in Processos, RecoverRead(q) PROVE Sabido
      <3>1. PICK e : e = [Livre EXCEPT !.pc = "assumir", !.p = q, !.modo = "recuperacao"]
        OBVIOUS
      <3>2. e.modo = "recuperacao" /\ exec' = [exec EXCEPT ![Recuperador] = e]
        BY <2>2, <3>1 DEF RecoverRead, Livre
      <3> QED BY <1>1, <2>1, <3>2
    <2>3. ASSUME RecoverClaim PROVE Sabido
      <3>1. exec[Recuperador].modo = "recuperacao"
        BY <1>0, <2>1, <2>3 DEF RecoverClaim, Papel
      <3>2. PICK e : e = [exec[Recuperador] EXCEPT !.pc = "reivindicar"]
        OBVIOUS
      <3>3. e.modo = "recuperacao"
        BY <2>1, <3>1, <3>2 DEF Exec
      <3>4. Termina(Recuperador) \/ exec' = [exec EXCEPT ![Recuperador] = e]
        BY <1>0, <2>3, <3>2 DEF RecoverClaim, Vai, Typed
      <3> QED BY <1>1, <1>3, <2>1, <3>3, <3>4
    <2> QED BY <1>9, <2>2, <2>3 DEF Recovery
  <1>10. ASSUME EmergencyScheduler PROVE Sabido
    <2>1. PICK q \in Processos : ClaimEmergencySequence(q) \/ ConfirmEmergencyHardware(q)
      BY <1>10 DEF EmergencyScheduler
    <2>2. CASE ConfirmEmergencyHardware(q)
      BY <2>2 DEF ConfirmEmergencyHardware, Sabido
    <2>3. CASE ClaimEmergencySequence(q)
      <3>1. PICK r : r = [processos[q] EXCEPT !.encerramento = "ENCERRANDO"]
        OBVIOUS
      <3>2. Gravar(q, r) /\ exec' = [exec EXCEPT ![Encerrador] = SequenciaDe(q)]
        BY <2>3, <3>1 DEF ClaimEmergencySequence
      <3>3. r.emergencia
        BY <1>0, <2>3, <3>1 DEF ClaimEmergencySequence, Row
      <3> QED BY <1>4, <3>2, <3>3 DEF Actors
    <2> QED BY <2>1, <2>2, <2>3
  <1>11. ASSUME NEW S, ApiCrash(S) PROVE Sabido
    BY <1>2, <1>11 DEF ApiCrash, Sabido
  <1>12. ASSUME \/ ClaimMqttUpdateLease \/ ReleaseMqttUpdateLease
                \/ Telemetria \/ EspResetAposEmergencia \/ EspResetAcidental
                \/ EspFalhaLocal \/ EspEmergenciaFisica
                \/ \E q \in Processos : LeaseExpires(q) \/ UpdateConfig(q)
         PROVE  Sabido
    BY <1>12 DEF ClaimMqttUpdateLease, ReleaseMqttUpdateLease, Telemetria, EspReset,
       EspResetAposEmergencia, EspResetAcidental, EspFalhaLocal, EspEmergenciaFisica,
       LeaseExpires, UpdateConfig, Sabido
  <1>13. Sabido
    BY <1>7, <1>8, <1>9, <1>10, <1>11, <1>12 DEF Next
  <1> QED BY <1>13 DEF Sabido

\* While such a startup goes on nobody else has commands to send, and the latch is free.
LEMMA Sozinha ==
    ASSUME Calmo, NEW a \in Actors, Firme(a)
    PROVE  /\ exec[a].p \in Processos /\ ~esp.latch /\ \A q \in Processos : ~processos[q].emergencia
           /\ \A b \in Actors : exec[b].modo # "emergencia"
           /\ \A b \in Actors \ {a} : ~Trabalha(b) /\ ~Transita(b)
  <1>0. \A b \in Actors : Papel(b) /\ CicloDe(b) /\ DonoDe(b)
    BY DEF Calmo, Controle, Ator
  <1>1. PICK p \in Processos : p = exec[a].p
    BY <1>0 DEF Firme, Papel
  <1>2. Em(p) /\ SemOutra(p) /\ Linha(p)
    BY <1>1 DEF Firme, Calmo, Controle
  <1>3. \A q \in Processos : ~processos[q].emergencia
    BY <1>2 DEF Linha, SemOutra
  <1>4. ~esp.latch /\ \A b \in Actors : exec[b].modo # "emergencia"
    BY <1>3 DEF Calmo, Trava, NaEmergencia
  <1>5. Trabalha(a) /\ a \in Requests
    BY <1>0 DEF Firme, Trabalha, Papel, Ciclo
  <1>6. ASSUME NEW b \in Actors \ {a}, Trabalha(b) PROVE FALSE
    <2>1. exec[b].p \in Processos
      BY <1>0, <1>6 DEF Trabalha, Papel
    <2>2. Em(exec[b].p)
      BY <1>0, <1>3, <1>6, <2>1 DEF DonoDe
    <2>3. exec[b].p = p
      BY <1>2, <2>1, <2>2 DEF Linha, Em, EmOperacao
    <2> QED BY <1>0, <1>1, <1>2, <1>5, <1>6, <2>3 DEF DonoDe
  <1>7. ASSUME NEW b \in Actors \ {a}, Transita(b) PROVE FALSE
    <2>1. exec[a] = Livre
      BY <1>0, <1>5, <1>7 DEF CicloDe
    <2> QED BY <2>1 DEF Firme, Livre
  <1> QED BY <1>1, <1>3, <1>4, <1>6, <1>7

\* Then only its own commands touch the controller.
LEMMA EspFica ==
    ASSUME Calmo, Next, NEW a \in Actors, Firme(a)
    PROVE  UNCHANGED esp \/ DesligarTodasBombas(a) \/ FecharTodasValvulas(a) \/ ComandoDaEtapa(a)
  <1>0. \A b \in Actors : Papel(b)
    BY DEF Calmo, Controle, Ator
  <1>1. ASSUME NEW b \in Actors, ActorStep(b)
        PROVE  UNCHANGED esp \/ DesligarTodasBombas(a) \/ FecharTodasValvulas(a) \/ ComandoDaEtapa(a)
    <2>1. CASE b = a
      <3>1. ~ParadaEmergencia(a) /\ ~FecharEmergencia(a)
        BY <1>0, Sozinha DEF ParadaEmergencia, FecharEmergencia, Papel
      <3> QED BY <1>1, <2>1, <3>1 DEF ActorStep, Tocar, Esperar, Concluir, Reivindicar, Consultar,
            FinishFailedStartup, ScheduleRollbackRetry, ApplyLifecycleTransition,
            RequestEmergencyStop, ClaimEmergencyStop, ClaimFails, RegistrarEmergencia
    <2>2. CASE b # a
      <3>1. /\ exec[b].modo # "emergencia" /\ ~Transita(b)
            /\ ~(exec[b].modo \in {"partida", "recuperacao"} /\ exec[b].pc # "assumir")
        BY <2>2, Sozinha DEF Trabalha
      <3>2. exec[b].pc \notin {"bombas", "valvulas", "comando", "parada_emergencia", "fechar_emergencia"}
        BY <1>0, <3>1 DEF Papel, Transita, Ciclo
      <3>3. /\ ~DesligarTodasBombas(b) /\ ~FecharTodasValvulas(b) /\ ~ComandoDaEtapa(b)
            /\ ~ParadaEmergencia(b) /\ ~FecharEmergencia(b)
        BY <3>2 DEF DesligarTodasBombas, FecharTodasValvulas, ComandoDaEtapa, ParadaEmergencia,
                    FecharEmergencia
      <3> QED BY <1>1, <3>3 DEF ActorStep, Tocar, Esperar, Concluir, Reivindicar, Consultar,
            FinishFailedStartup, ScheduleRollbackRetry, ApplyLifecycleTransition,
            RequestEmergencyStop, ClaimEmergencyStop, ClaimFails, RegistrarEmergencia
    <2> QED BY <2>1, <2>2
  <1>2. ASSUME NEW b \in Requests, Client(b) \/ RequestEmergencyStopForCurrent(b)
        PROVE  UNCHANGED esp
    BY <1>2 DEF Client, Begin, Resume, ClaimEmergencyStop, ClaimFails, StopRequest,
                ReconcileControllerEmergency, RequestEmergencyStopForCurrent
  <1>3. CASE Recovery \/ EmergencyScheduler
    BY <1>3 DEF Recovery, RecoverClaim, RecoverRead, EmergencyScheduler, ClaimEmergencySequence,
                ConfirmEmergencyHardware
  <1>4. CASE \/ ClaimMqttUpdateLease \/ ReleaseMqttUpdateLease \/ Telemetria
             \/ \E p \in Processos : LeaseExpires(p) \/ UpdateConfig(p)
             \/ \E S \in SUBSET Actors : ApiCrash(S)
    BY <1>4 DEF ClaimMqttUpdateLease, ReleaseMqttUpdateLease, Telemetria, LeaseExpires, UpdateConfig,
                ApiCrash
  <1>5. ~EspResetAposEmergencia /\ ~EspResetAcidental /\ ~EspFalhaLocal /\ ~EspEmergenciaFisica
    <2>1. ~EspResetAposEmergencia
      BY Sozinha DEF EspResetAposEmergencia
    <2>2. \A f \in {"reset", "local", "botao"} : ~Fail(f)
      BY DEF Calmo, Tranquilo, Fail
    <2> QED BY <2>1, <2>2 DEF EspResetAcidental, EspFalhaLocal, EspEmergenciaFisica
  <1> QED BY <1>1, <1>2, <1>3, <1>4, <1>5 DEF Next

\* A command before any rollback has a new id: a confirmed one was executed.
LEMMA ComandoFeito ==
    ASSUME NEW a \in Actors, exec[a].fase = "prepare", NEW cmd, Comando(a, cmd, TRUE)
    PROVE  EspAceita(cmd, a) /\ esp' = EspExecuta(cmd, a)
  <1>1. Memoria(a, cmd) = "nenhuma"
    BY DEF Memoria, Repetido
  <1> QED BY <1>1 DEF Comando

\* The preparing shutdown leaves every valve closed.
LEMMA PreparaPosto ==
    ASSUME Typed, NEW a \in Actors, Firme(a), Posto(a),
           DesligarTodasBombas(a) \/ FecharTodasValvulas(a)
    PROVE  Posto(a)'
  <1>0. exec[a] \in Exec /\ esp \in Saidas /\ UNCHANGED processos
    BY DEF Typed, DesligarTodasBombas, FecharTodasValvulas
  <1> DEFINE T == processos[exec[a].p].tanques
  <1>1. CASE DesligarTodasBombas(a)
    <2>1. PICK ok : exec' = [exec EXCEPT ![a].pc = "valvulas", ![a].falhou = ~ok]
      BY <1>1 DEF DesligarTodasBombas
    <2>2. PICK e : e = [exec[a] EXCEPT !.pc = "valvulas", !.falhou = ~ok]
      OBVIOUS
    <2>3. e.pc = "valvulas" /\ e.p = exec[a].p /\ e.alvos = exec[a].alvos
      BY <1>0, <2>2 DEF Exec
    <2>4. exec'[a] = e
      BY <2>1, <2>2 DEF Typed
    <2>5. exec[a].alvos = T
      BY <1>1 DEF DesligarTodasBombas, Posto
    <2> QED BY <1>0, <2>3, <2>4, <2>5 DEF Posto
  <1>2. CASE FecharTodasValvulas(a)
    <2>1. PICK ok \in BOOLEAN :
            Comando(a, "valvulas", ok) /\ DepoisDaParada(a, ParadaConfirmada(a, ok))
      BY <1>2 DEF FecharTodasValvulas
    <2>2. exec[a].alvos = T
      BY <1>2 DEF FecharTodasValvulas, Posto
    <2>3. CASE ParadaConfirmada(a, ok)
      <3>1. Comando(a, "valvulas", TRUE)
        BY <2>1, <2>3 DEF ParadaConfirmada
      <3>2. esp' = [esp EXCEPT !.abertas = {}]
        BY <3>1, ComandoFeito DEF Firme, EspExecuta
      <3>3. exec' = [exec EXCEPT ![a].pc = "tocar", ![a].etapa = "SINCRONIZANDO_HARDWARE"]
        BY <2>1, <2>3 DEF DepoisDaParada, Firme
      <3>4. PICK e : e = [exec[a] EXCEPT !.pc = "tocar", !.etapa = "SINCRONIZANDO_HARDWARE"]
        OBVIOUS
      <3>5. /\ e.pc = "tocar" /\ e.etapa = "SINCRONIZANDO_HARDWARE"
            /\ e.p = exec[a].p /\ e.alvos = exec[a].alvos
        BY <1>0, <3>4 DEF Exec
      <3>6. exec'[a] = e
        BY <3>3, <3>4 DEF Typed
      <3>7. esp'.abertas = {}
        BY <1>0, <3>2 DEF Saidas
      <3> QED BY <1>0, <2>2, <3>5, <3>6, <3>7 DEF Posto
    <2>4. CASE ~ParadaConfirmada(a, ok)
      <3>1. Vai(a, "reivindicar")
        BY <2>1, <2>4 DEF DepoisDaParada, Firme
      <3>2. exec'[a].pc = "reivindicar"
        <4>1. exec[a].pc # "livre"
          BY <1>2 DEF FecharTodasValvulas
        <4> QED BY <3>1, <4>1, VaiPasso DEF Passos
      <3> QED BY <3>2 DEF Posto
    <2> QED BY <2>3, <2>4
  <1> QED BY <1>1, <1>2

\* The turn of a tank in the loop: while more than one is left there is one after this,
\* and the only one left is this.
LEMMA OutroTanqueFica ==
    ASSUME Typed, NEW a \in Actors, exec[a].alvos # {}
    PROVE  /\ OutroTanque(a) => exec[a].alvos \ {Primeiro(exec[a].alvos)} # {}
           /\ ~OutroTanque(a) => exec[a].alvos = {Primeiro(exec[a].alvos)}
  <1> DEFINE S == exec[a].alvos
  <1>1. S \subseteq Tanques /\ cenario.tanques \in Nat
    BY DEF Typed, Exec, CenarioRec
  <1>2. IsFiniteSet(Tanques)
    BY <1>1, FS_Interval DEF Tanques
  <1>3. IsFiniteSet(S) /\ Cardinality(S) \in Nat
    BY <1>1, <1>2, FS_Subset, FS_CardinalityType
  <1>4. Cardinality(S) # 0
    BY <1>3, FS_EmptySet
  <1>5. ASSUME ~OutroTanque(a) PROVE S = {Primeiro(S)}
    <2>1. Cardinality(S) = 1
      BY <1>3, <1>4, <1>5 DEF OutroTanque
    <2>2. PICK x : S = {x}
      BY <1>3, <2>1, FS_Singleton
    <2>3. x \in Nat
      BY <1>1, <2>2 DEF Tanques
    <2>4. Primeiro({x}) = x
      BY <2>3 DEF Primeiro
    <2> QED BY <2>2, <2>4
  <1>6. ASSUME OutroTanque(a), S \ {Primeiro(S)} = {} PROVE FALSE
    <2>1. S = {Primeiro(S)}
      BY <1>6
    <2>2. Cardinality(S) = 1
      BY <2>1, FS_Singleton
    <2> QED BY <1>6, <2>2 DEF OutroTanque
  <1> QED BY <1>5, <1>6

\* Each command of the sequence takes the controller on to what the next stage expects.
LEMMA ComandoPosto ==
    ASSUME Typed, NEW a \in Actors, exec[a].p \in Processos, Firme(a), Posto(a), ComandoDaEtapa(a),
           Firme(a)'
    PROVE  Posto(a)'
  <1>0. exec[a] \in Exec /\ esp \in Saidas /\ UNCHANGED processos /\ exec[a].pc = "comando"
    BY DEF Typed, ComandoDaEtapa
  <1> DEFINE T == processos[exec[a].p].tanques
  <1> DEFINE etapa == exec[a].etapa
  <1>1. PICK ok \in BOOLEAN : Comando(a, exec[a].etapa, ok) /\ DepoisDoComando(a, ok)
    BY DEF ComandoDaEtapa
  <1>2. CASE ~ok
    <2>1. IniciaParada(a, "interno") \/ Vai(a, "reivindicar")
      BY <1>1, <1>2 DEF DepoisDoComando, Firme
    <2>2. ~IniciaParada(a, "interno")
      BY <1>0, ParadaPasso DEF Firme, Fases
    <2>3. exec'[a].pc = "reivindicar"
      BY <1>0, <2>1, <2>2, VaiPasso DEF Passos
    <2> QED BY <2>3 DEF Posto
  <1>3. CASE ok
    <2>1. EspAceita(etapa, a) /\ esp' = EspExecuta(etapa, a)
      BY <1>1, <1>3, ComandoFeito DEF Firme
    <2>2. T # {} /\ T \subseteq Tanques
      BY DEF Typed, Row
    <2>3. etapa # "CONFIRMANDO_TELEMETRIA"
      BY <2>1 DEF EspAceita
    <2>4. ASSUME etapa # "ABRINDO_VALVULAS_PRINCIPAIS" \/ ~OutroTanque(a)
          PROVE  /\ exec'[a].pc = "tocar" /\ exec'[a].p = exec[a].p
                 /\ exec'[a].etapa = Proxima(etapa)
                 /\ etapa # "ABRINDO_VALVULAS_PRINCIPAIS" => exec'[a].alvos = exec[a].alvos
      <3>1. PICK alvos : alvos = IF etapa = "ABRINDO_VALVULAS_PRINCIPAIS" THEN {} ELSE exec[a].alvos
        OBVIOUS
      <3>2. PICK pc : pc = IF exec[a].modo = "partida" THEN "tocar"
                           ELSE IF etapa = "LIGANDO_BOMBA_PRINCIPAL" THEN "gravar" ELSE "comando"
        OBVIOUS
      <3>3. PICK e : e = [exec[a] EXCEPT !.pc = pc, !.etapa = Proxima(exec[a].etapa), !.alvos = alvos]
        OBVIOUS
      <3>4. exec' = [exec EXCEPT ![a] = e]
        BY <1>1, <1>3, <2>4, <3>1, <3>2, <3>3 DEF DepoisDoComando, Typed
      <3>5. pc = "tocar"
        BY <3>2 DEF Firme
      <3>6. e.pc = pc /\ e.p = exec[a].p /\ e.etapa = Proxima(etapa) /\ e.alvos = alvos
        BY <1>0, <3>3 DEF Exec
      <3>7. exec'[a] = e
        BY <3>4 DEF Typed
      <3> QED BY <3>1, <3>5, <3>6, <3>7
    <2>5. CASE etapa = "SINCRONIZANDO_HARDWARE"
      <3>1. esp.abertas = {} /\ exec[a].alvos = T
        BY <1>0, <2>5 DEF Posto
      <3>2. esp'.abertas = {}
        BY <1>0, <2>1, <2>5, <3>1 DEF EspExecuta, Saidas
      <3>3. /\ exec'[a].pc = "tocar" /\ exec'[a].p = exec[a].p /\ exec'[a].alvos = T
            /\ exec'[a].etapa = "CARREGANDO_PROCESSO"
        BY <2>4, <2>5, <3>1 DEF Proxima
      <3> QED BY <1>0, <3>2, <3>3 DEF Posto
    <2>6. CASE etapa = "CARREGANDO_PROCESSO"
      <3>1. esp.abertas = {} /\ exec[a].alvos = T
        BY <1>0, <2>6 DEF Posto
      <3>2. esp'.abertas = {} /\ esp'.selecionados = T
        BY <1>0, <2>1, <2>6, <3>1 DEF EspExecuta, Saidas
      <3>3. /\ exec'[a].pc = "tocar" /\ exec'[a].p = exec[a].p /\ exec'[a].alvos = T
            /\ exec'[a].etapa = "ABRINDO_VALVULAS_PRINCIPAIS"
        BY <2>4, <2>6, <3>1 DEF Proxima
      <3> QED BY <1>0, <2>2, <3>2, <3>3 DEF Posto
    <2>7. CASE etapa = "ABRINDO_VALVULAS_PRINCIPAIS"
      <3>1. PICK S : S = exec[a].alvos
        OBVIOUS
      <3>2. S # {} /\ S \subseteq T /\ esp.abertas = T \ S /\ esp.selecionados = T
        BY <1>0, <2>7, <3>1 DEF Posto
      <3>3. PICK y : y = Primeiro(exec[a].alvos)
        OBVIOUS
      <3>4. y \in T
        BY <2>1, <2>7, <3>2, <3>3 DEF EspAceita
      <3>5. esp' = [esp EXCEPT !.abertas = @ \cup {y}]
        BY <2>1, <2>7, <3>3 DEF EspExecuta
      <3>6. esp'.abertas = (T \ S) \cup {y} /\ esp'.selecionados = T
        BY <1>0, <3>2, <3>5 DEF Saidas
      <3>7. CASE OutroTanque(a)
        <4>1. S \ {y} # {}
          BY <3>1, <3>2, <3>3, <3>7, OutroTanqueFica
        <4>2. exec' = [exec EXCEPT ![a].alvos = @ \ {Primeiro(@)}]
          BY <1>1, <1>3, <2>7, <3>7 DEF DepoisDoComando
        <4>3. PICK e : e = [exec[a] EXCEPT !.alvos = S \ {y}]
          OBVIOUS
        <4>4. exec'[a] = e
          BY <3>1, <3>3, <4>2, <4>3 DEF Typed
        <4>5. /\ e.pc = "comando" /\ e.p = exec[a].p /\ e.alvos = S \ {y}
              /\ e.etapa = "ABRINDO_VALVULAS_PRINCIPAIS"
          BY <1>0, <2>7, <4>3 DEF Exec
        <4>6. (T \ S) \cup {y} = T \ (S \ {y}) /\ S \ {y} \subseteq T
          BY <3>2, <3>4
        <4> QED BY <1>0, <3>6, <4>1, <4>4, <4>5, <4>6 DEF Posto
      <3>8. CASE ~OutroTanque(a)
        <4>1. S = {y}
          BY <3>1, <3>2, <3>3, <3>8, OutroTanqueFica
        <4>2. esp'.abertas = T
          BY <3>4, <3>6, <4>1
        <4>3. /\ exec'[a].pc = "tocar" /\ exec'[a].p = exec[a].p
              /\ exec'[a].etapa = "LIGANDO_BOMBA_PRINCIPAL"
          BY <2>4, <2>7, <3>8 DEF Proxima
        <4> QED BY <1>0, <4>2, <4>3 DEF Posto
      <3> QED BY <3>7, <3>8
    <2>8. CASE etapa = "LIGANDO_BOMBA_PRINCIPAL"
      <3>1. esp.abertas = T
        BY <1>0, <2>8 DEF Posto
      <3>2. esp'.abertas = T /\ esp'.bomba
        BY <1>0, <2>1, <2>8, <3>1 DEF EspExecuta, Saidas
      <3>3. /\ exec'[a].pc = "tocar" /\ exec'[a].p = exec[a].p
            /\ exec'[a].etapa = "CONFIRMANDO_TELEMETRIA"
        BY <2>4, <2>8 DEF Proxima
      <3> QED BY <1>0, <3>2, <3>3 DEF Posto
    <2> QED BY <1>0, <2>3, <2>5, <2>6, <2>7, <2>8 DEF Exec, Etapas
  <1> QED BY <1>2, <1>3

\* Going on to another step an actor keeps its stage and what is left of its loop.
LEMMA VaiMantem ==
    ASSUME Typed, NEW a \in Actors, NEW pc \in Passos, Vai(a, pc)
    PROVE  /\ exec'[a].pc = pc /\ exec'[a].p = exec[a].p
           /\ exec'[a].etapa = exec[a].etapa /\ exec'[a].alvos = exec[a].alvos
  <1>1. exec[a] \in Exec
    BY DEF Typed
  <1>2. PICK e : e = [exec[a] EXCEPT !.pc = pc]
    OBVIOUS
  <1>3. e.pc = pc /\ e.p = exec[a].p /\ e.etapa = exec[a].etapa /\ e.alvos = exec[a].alvos
    BY <1>1, <1>2 DEF Exec
  <1>4. exec'[a] = e
    BY <1>2 DEF Vai, Typed
  <1> QED BY <1>3, <1>4

\* A startup that still has its row, no other process being stopped, had it before.
LEMMA FirmeAntes ==
    ASSUME Calmo, Controle', Next, NEW a \in Actors, Firme(a)', exec'[a] = exec[a] \/ Segue(a)
    PROVE  Firme(a) /\ exec[a].p \in Processos /\ exec'[a].p = exec[a].p
  <1>0. Papel(a) /\ DonoDe(a)
    BY DEF Calmo, Controle, Ator
  <1>1. /\ exec[a].modo = "partida" /\ exec[a].fase = "prepare" /\ exec'[a].p = exec[a].p
        /\ exec[a].p \in Processos
    <2>1. exec'[a].modo = "partida" /\ exec'[a].fase = "prepare"
      BY DEF Firme
    <2>2. exec'[a].modo = exec[a].modo /\ exec'[a].p = exec[a].p /\ exec[a].fase = "prepare"
      BY <2>1 DEF Segue, Livre
    <2> QED BY <1>0, <2>1, <2>2 DEF Papel
  <1>2. PICK p \in Processos : p = exec[a].p
    BY <1>1
  <1>3. \A q \in Processos : processos[q].emergencia => processos'[q].emergencia
    BY EmergenciaFica DEF Calmo
  <1>4. Em(p)' /\ SemOutra(p)' /\ Linha(p)'
    BY <1>1, <1>2 DEF Firme, Controle
  <1>5. SemOutra(p)
    BY <1>3, <1>4 DEF SemOutra
  <1>6. ~processos'[p].emergencia
    BY <1>4 DEF Linha
  <1>7. Em(p)
    BY <1>0, <1>1, <1>2, <1>3, <1>6 DEF DonoDe, Trabalha, Papel
  <1> QED BY <1>1, <1>2, <1>5, <1>7 DEF Firme

\* What the controller has been left with is kept by every step.
LEMMA PostoAnda ==
    ASSUME Calmo, Controle', Next, NEW a \in Actors, Firme(a)'
    PROVE  Posto(a)'
  <1>0. Typed /\ Controle /\ Tranquilo /\ Papel(a) /\ exec[a] \in Exec
    BY DEF Calmo, Controle, Ator, Typed
  <1>1. ASSUME exec'[a] = exec[a] \/ (ActorStep(a) /\ ~RequestEmergencyStop(a) /\ Segue(a))
        PROVE  Posto(a)'
    <2>1. PICK p \in Processos : p = exec[a].p /\ exec'[a].p = p
      BY <1>1, FirmeAntes
    <2>2. Firme(a) /\ Posto(a)
      BY <1>1, FirmeAntes DEF Calmo
    <2>3. processos'[p].tanques = processos[p].tanques
      BY <1>0, TanquesFicam DEF Tranquilo
    <2>4. CASE DesligarTodasBombas(a) \/ FecharTodasValvulas(a) \/ ComandoDaEtapa(a)
      BY <1>0, <2>1, <2>2, <2>4, PreparaPosto, ComandoPosto
    <2>5. CASE ~(DesligarTodasBombas(a) \/ FecharTodasValvulas(a) \/ ComandoDaEtapa(a))
      <3>1. UNCHANGED esp
        BY <2>2, <2>5, EspFica
      <3>2. CASE exec'[a] = exec[a]
        BY <2>1, <2>2, <2>3, <3>1, <3>2 DEF Posto
      <3>3. ASSUME NEW pc \in {"esperar", "comando", "concluir", "reivindicar", "consultar"}, Vai(a, pc),
                   exec[a].pc \in {"tocar", "esperar", "comando", "concluir", "reivindicar"},
                   pc = "esperar" => exec[a].etapa \in {"SINCRONIZANDO_HARDWARE", "CONFIRMANDO_TELEMETRIA"},
                   pc = "concluir" => exec[a].etapa = "CONFIRMANDO_TELEMETRIA",
                   exec[a].pc = "reivindicar" => pc = "consultar"
            PROVE  Posto(a)'
        <4>1. /\ exec'[a].pc = pc /\ exec'[a].p = exec[a].p
              /\ exec'[a].etapa = exec[a].etapa /\ exec'[a].alvos = exec[a].alvos
          BY <1>0, <3>3, VaiMantem DEF Passos
        <4> QED BY <2>1, <2>2, <2>3, <3>1, <3>3, <4>1 DEF Posto
      <3>4. ASSUME NEW fase \in {"interno", "rollback", "race"}, IniciaParada(a, fase),
                   exec[a].pc # "livre"
            PROVE  FALSE
        BY <1>0, <3>4, ParadaPasso DEF Firme, Fases
      <3>5. ~Termina(a)
        BY <1>0, TerminaPasso DEF Firme, Livre
      <3>6. CASE Tocar(a)
        BY <3>3, <3>4, <3>6 DEF Tocar
      <3>7. CASE Esperar(a)
        BY <2>2, <3>3, <3>7 DEF Esperar, Posto
      <3>8. CASE Concluir(a) \/ Reivindicar(a) \/ Consultar(a)
        BY <3>3, <3>4, <3>5, <3>8 DEF Concluir, Reivindicar, Consultar
      <3>9. CASE FinishFailedStartup(a) \/ ScheduleRollbackRetry(a) \/ ApplyLifecycleTransition(a)
        BY <3>5, <3>9 DEF FinishFailedStartup, ScheduleRollbackRetry, ApplyLifecycleTransition
      <3>10. ~ParadaEmergencia(a) /\ ~FecharEmergencia(a) /\ ~RegistrarEmergencia(a)
        BY <1>0, <2>2 DEF Firme, Papel, ParadaEmergencia, FecharEmergencia, RegistrarEmergencia
      <3> QED BY <1>1, <2>5, <3>2, <3>6, <3>7, <3>8, <3>9, <3>10 DEF ActorStep
    <2> QED BY <2>4, <2>5
  <1>2. ASSUME NEW p \in Processos, Begin(a, p) PROVE Posto(a)'
    <2>1. PICK S : /\ S = processos[p].tanques
                   /\ exec' = [exec EXCEPT ![a] = [Livre EXCEPT !.pc = "bombas", !.p = p,
                                                                !.modo = "partida", !.alvos = S]]
      BY <1>0, <1>2 DEF Begin, ContextoLido, Tranquilo
    <2>2. PICK e : e = [Livre EXCEPT !.pc = "bombas", !.p = p, !.modo = "partida", !.alvos = S]
      OBVIOUS
    <2>3. e.pc = "bombas" /\ e.p = p /\ e.alvos = S
      BY <2>2 DEF Livre
    <2>4. exec'[a] = e
      BY <1>0, <2>1, <2>2, UmAtor
    <2>5. processos'[p].tanques = processos[p].tanques
      BY <1>0, TanquesFicam DEF Tranquilo
    <2> QED BY <2>1, <2>3, <2>4, <2>5 DEF Posto
  <1>3. exec'[a].modo = "partida"
    BY DEF Firme
  <1> QED BY <1>0, <1>1, <1>2, <1>3, AtorAnda

\* Only PARADA_EMERGENCIA sets the latch, while nobody presses the button.
LEMMA TravaSobe ==
    ASSUME Typed, Tranquilo, Next, ~esp.latch, esp'.latch
    PROVE  \E a \in Actors : ParadaEmergencia(a)
  <1>0. esp \in Saidas
    BY DEF Typed
  <1>1. ASSUME NEW a \in Actors, ActorStep(a), ~ParadaEmergencia(a) PROVE FALSE
    <2>1. exec[a] \in Exec
      BY DEF Typed
    <2>2. ASSUME NEW cmd \in Etapas \cup {"bombas", "valvulas"}, NEW ok \in BOOLEAN, Comando(a, cmd, ok)
          PROVE  FALSE
      BY <2>2, ComandoEfeito
    <2>3. ~DesligarTodasBombas(a) /\ ~FecharTodasValvulas(a) /\ ~ComandoDaEtapa(a)
      BY <2>1, <2>2 DEF DesligarTodasBombas, FecharTodasValvulas, ComandoDaEtapa, Exec
    <2>4. ~FecharEmergencia(a)
      <3>1. [esp EXCEPT !.abertas = {}].latch = esp.latch
        BY <1>0 DEF Saidas
      <3> QED BY <3>1 DEF FecharEmergencia
    <2> QED BY <1>1, <2>3, <2>4 DEF ActorStep, Tocar, Esperar, Concluir, Reivindicar, Consultar,
          FinishFailedStartup, ScheduleRollbackRetry, ApplyLifecycleTransition,
          RequestEmergencyStop, ClaimEmergencyStop, ClaimFails, RegistrarEmergencia
  <1>2. ASSUME NEW b \in Requests, Client(b) \/ RequestEmergencyStopForCurrent(b)
        PROVE  UNCHANGED esp
    BY <1>2 DEF Client, Begin, Resume, ClaimEmergencyStop, ClaimFails, StopRequest,
                ReconcileControllerEmergency, RequestEmergencyStopForCurrent
  <1>3. Recovery \/ EmergencyScheduler => UNCHANGED esp
    BY DEF Recovery, RecoverClaim, RecoverRead, EmergencyScheduler, ClaimEmergencySequence,
           ConfirmEmergencyHardware
  <1>4. \/ ClaimMqttUpdateLease \/ ReleaseMqttUpdateLease \/ Telemetria
        \/ \E p \in Processos : LeaseExpires(p) \/ UpdateConfig(p)
        \/ \E S \in SUBSET Actors : ApiCrash(S)
        => UNCHANGED esp
    BY DEF ClaimMqttUpdateLease, ReleaseMqttUpdateLease, Telemetria, LeaseExpires, UpdateConfig,
           ApiCrash
  <1>5. ~EspResetAposEmergencia /\ ~EspResetAcidental /\ ~EspFalhaLocal /\ ~EspEmergenciaFisica
    <2>1. \A f \in {"reset", "local", "botao"} : ~Fail(f)
      BY DEF Tranquilo, Fail
    <2> QED BY <2>1 DEF EspResetAposEmergencia, EspResetAcidental, EspFalhaLocal, EspEmergenciaFisica
  <1> QED BY <1>1, <1>2, <1>3, <1>4, <1>5 DEF Next

\* The invariant of the undisturbed startup holds at first ...
LEMMA InitCalmo == Init /\ Serial /\ Tranquilo => Calmo
  <1> SUFFICES ASSUME Init, Serial, Tranquilo PROVE Calmo
    OBVIOUS
  <1>1. Controle
    BY InitControle
  <1>2. Trava
    BY DEF Init, EspDesligado, Trava
  <1>3. \A a \in Actors : exec[a].modo = "nenhum"
    BY DEF Init, Livre
  <1> QED BY <1>1, <1>2, <1>3 DEF Calmo, NaEmergencia, Firme

\* ... and every step keeps it.
LEMMA StepCalmo ==
    ASSUME Calmo, Next, Tranquilo'
    PROVE  Calmo'
  <1>1. Controle' /\ Controle /\ Typed /\ Tranquilo
    BY StepControle DEF Calmo, Controle
  <1>2. \A q \in Processos : processos[q].emergencia => processos'[q].emergencia
    BY <1>1, EmergenciaFica
  <1>3. ASSUME NEW a \in Actors PROVE NaEmergencia(a)'
    <2> SUFFICES ASSUME exec'[a].modo = "emergencia"
                 PROVE  exec'[a].p \in Processos /\ processos'[exec'[a].p].emergencia
      BY DEF NaEmergencia
    <2>1. ASSUME exec'[a].modo = exec[a].modo, exec'[a].p = exec[a].p
          PROVE  exec'[a].p \in Processos /\ processos'[exec'[a].p].emergencia
      BY <1>2, <2>1 DEF Calmo, NaEmergencia
    <2>2. ASSUME NEW q \in Processos, Begin(a, q) PROVE FALSE
      <3>1. PICK S : exec' = [exec EXCEPT ![a] = [Livre EXCEPT !.pc = "bombas", !.p = q,
                                                              !.modo = "partida", !.alvos = S]]
        BY <2>2 DEF Begin
      <3>2. PICK e : e = [Livre EXCEPT !.pc = "bombas", !.p = q, !.modo = "partida", !.alvos = S]
        OBVIOUS
      <3>3. e.modo = "partida"
        BY <3>2 DEF Livre
      <3>4. exec'[a] = e
        BY <1>1, <3>1, <3>2, UmAtor
      <3> QED BY <3>3, <3>4
    <2>3. exec'[a] = Livre => FALSE
      BY DEF Livre
    <2> QED BY <1>1, <2>1, <2>2, <2>3, AtorAnda DEF Segue
  <1>4. Trava'
    <2> SUFFICES ASSUME esp'.latch PROVE \E q \in Processos : processos'[q].emergencia
      BY DEF Trava
    <2>1. CASE esp.latch
      BY <1>2, <2>1 DEF Calmo, Trava
    <2>2. CASE ~esp.latch
      <3>1. \E a \in Actors : ParadaEmergencia(a)
        BY <1>1, <2>2, TravaSobe
      <3>2. PICK a \in Actors : exec[a].modo = "emergencia"
        BY <1>1, <3>1 DEF ParadaEmergencia, Controle, Ator, Papel
      <3> QED BY <1>2, <3>2 DEF Calmo, NaEmergencia
    <2> QED BY <2>1, <2>2
  <1>5. \A a \in Actors : Firme(a)' => Posto(a)'
    BY <1>1, PostoAnda
  <1> QED BY <1>1, <1>3, <1>4, <1>5 DEF Calmo

\* The conditions on a scenario hold as long as it does.
LEMMA CenarioFica ==
    ASSUME Typed, [Next]_vars
    PROVE  (Serial' <=> Serial) /\ (Tranquilo' <=> Tranquilo)
  <1>1. UNCHANGED cenario \/ \E f \in Falhas : Fail(f)
    BY CenarioAnda DEF vars
  <1>2. MesmoCenario
    <2>1. CASE UNCHANGED cenario
      BY <2>1 DEF MesmoCenario
    <2>2. CASE \E f \in Falhas : Fail(f)
      <3>1. cenario' = [cenario EXCEPT !.restam = @ - 1]
        BY <2>2 DEF Fail
      <3> QED BY <3>1 DEF MesmoCenario, CenarioRec, Typed
    <2> QED BY <1>1, <2>1, <2>2
  <1> QED BY <1>2 DEF Serial, Tranquilo, MesmoCenario

\* The contract of a startup: the process comes to EM_EXECUCAO with the main pump on and a
\* main valve open for each of its tanks, at the controller, however the requests and the
\* schedulers interleave (startSafely, runStartSequence and applyLifecycleTransition).
THEOREM StartedTheorem == Spec => StartedAsConfirmedUndisturbed
  <1> DEFINE Promete == Serial /\ Tranquilo => Calmo
  <1> DEFINE Passo == Serial /\ Tranquilo =>
                        \A p \in Processos :
                          Iniciou(p) /\ (\A q \in Processos \ {p} : ~processos[q].emergencia)
                          => esp.bomba /\ processos[p].tanques = esp.abertas
  <1>1. Init => Typed /\ Promete
    BY InitTyped, InitCalmo
  <1>2. Typed /\ Promete /\ [Next]_vars => Typed' /\ Promete'
    <2> SUFFICES ASSUME Typed, Promete, [Next]_vars PROVE Typed' /\ Promete'
      OBVIOUS
    <2>1. Typed'
      BY StepTyped
    <2>2. ASSUME Serial', Tranquilo' PROVE Calmo'
      <3>1. Serial /\ Tranquilo /\ Calmo
        BY <2>2, CenarioFica
      <3>2. CASE Next
        BY <2>2, <3>1, <3>2, StepCalmo
      <3>3. CASE UNCHANGED vars
        <4>1. Controle'
          BY <3>1, <3>3, StepControle DEF Calmo
        <4> QED BY <2>2, <3>1, <3>3, <4>1
                DEF vars, Calmo, Trava, NaEmergencia, Firme, Posto, Em, SemOutra
      <3> QED BY <3>2, <3>3
    <2> QED BY <2>1, <2>2
  <1>3. Typed /\ Promete /\ [Next]_vars => [Passo]_vars
    <2> SUFFICES ASSUME Typed, Promete, Next, Serial, Tranquilo, NEW p \in Processos,
                        Iniciou(p), SemOutra(p)
                 PROVE  esp.bomba /\ processos[p].tanques = esp.abertas
      BY DEF SemOutra
    <2>1. Calmo /\ Controle
      BY DEF Calmo
    <2>2. Em(p) /\ processos'[p].partida = "CONCLUIDA" /\ processos[p] \in Row
      BY DEF Iniciou, Em, Typed
    <2>3. PICK a \in Actors : Escreve(a, p)
      BY <2>2, EscritaDeLinha DEF Em
    <2>4. Concluir(a) /\ Dono(a, p) /\ exec[a].p = p
      <3>1. ASSUME FinishFailedStartup(a), Dono(a, p) PROVE FALSE
        <4>1. PICK r : r = [processos[p] EXCEPT !.partida = "FALHA", !.lease = FALSE, !.lido = {}]
          OBVIOUS
        <4>2. processos'[p] = r
          BY <2>3, <3>1, <4>1 DEF Escreve, FinishFailedStartup, Gravar, Typed
        <4> QED BY <2>2, <4>1, <4>2 DEF Row
      <3>2. ASSUME ApplyLifecycleTransition(a) PROVE FALSE
        <4>1. PICK r : r = Transicao(exec[a].modo, processos[p])
          OBVIOUS
        <4>2. processos'[p] = r \/ processos' = processos
          BY <2>3, <3>2, <4>1 DEF Escreve, ApplyLifecycleTransition, Gravar, Typed
        <4>3. r.partida = processos[p].partida
          BY <2>2, <4>1 DEF Transicao, Row
        <4> QED BY <2>2, <4>2, <4>3 DEF Em
      <3> QED BY <2>3, <3>1, <3>2 DEF Escreve
    <2>5. exec[a].pc = "concluir" /\ Firme(a)
      BY <2>1, <2>2, <2>4 DEF Concluir, Controle, Ator, Papel, Firme
    <2> QED BY <2>1, <2>4, <2>5 DEF Calmo, Posto
  <1>4. Passo <=> /\ Serial
                  /\ cenario.operacoes \cap {"edicao", "interrupcao", "geral"} = {}
                  /\ cenario.falhas \cap {"reset", "local", "botao", "banco"} = {}
                  => \A p \in Processos :
                       Iniciou(p) /\ (\A q \in Processos \ {p} : ~processos[q].emergencia)
                       => esp.bomba /\ processos[p].tanques = esp.abertas
    BY DEF Tranquilo
  <1> HIDE DEF Promete, Passo
  <1> QED BY <1>1, <1>2, <1>3, <1>4, PTL DEF Spec, StartedAsConfirmedUndisturbed
=============================================================================
