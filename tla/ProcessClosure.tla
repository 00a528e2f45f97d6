--------------------------- MODULE ProcessClosure ---------------------------
(***************************************************************************)
(* How a running process ends by itself: the monitor that follows the      *)
(* vacuum of each tank, the closure of one tank (auxiliary line safe, main *)
(* valve closed, retention measured, approved or rolled back) and the      *)
(* general closure (every valve closed, every pump off, confirmed by       *)
(* telemetry), composed with the requests that pause, resume, finish,      *)
(* interrupt or stop the same process and with the controller, which is    *)
(* the ESP32 or the simulator that stands for it.                          *)
(*                                                                         *)
(* Each closure service has a queue of its own: one step of it at a time   *)
(* reads a context, decides, perhaps waits for a command, and writes under *)
(* the version it has read.  `leu` says that this version is still the     *)
(* row's: the writers that increment it clear the flag of the other ones.  *)
(***************************************************************************)
EXTENDS Naturals, FiniteSets

CONSTANTS Tanques, Nenhum,   \* process/tank rows; no tank
          Cenarios           \* the processes, and the bounds: the tanks selected, the
                             \* settings, the controller, which requests and failures
                             \* there may be, and how many

\* The row of the process, beside those of its tanks.
Geral == "geral"

ASSUME ClosureAssumption ==
    /\ IsFiniteSet(Tanques) /\ Tanques # {} /\ {Nenhum, Geral} \cap Tanques = {}
    /\ Cenarios \subseteq
         [tanques : (SUBSET Tanques) \ {{}}, controlador : {"esp32", "simulador"},
          automatico : BOOLEAN, eventos : Nat,
          operacoes : SUBSET {"pausa", "retomada", "conclusao", "interrupcao", "emergencia",
                              "auxilio", "valvula", "perda", "queda", "silencio"}]

MaxComandos == 3      \* MAX_COMMAND_ATTEMPTS and MAX_SAFE_STATE_ATTEMPTS

VARIABLES
    cenario,     \* the process, and what it may meet; only `eventos` changes
    processo,    \* the row of processos
    tanques,     \* [selected tanks -> the row of processostanques]
    aux,         \* processosauxiliares.id_processo_tanque_atual
    tq,          \* the queue of the tank closure
    ger,         \* the queue of the general closure
    req,         \* the HTTP request that is changing the process
    mao,         \* a person's command to one main valve
    respostas,   \* [row -> [command -> what its correlation id would find]]
    hw,          \* the outputs of the controller and its process context
    tele,        \* the last HARDWARE_STATUS stored
    mudo         \* the controller publishes no more telemetry

Selecionados == cenario.tanques

fila == <<tq, ger, req, mao>>
vars == <<cenario, processo, tanques, aux, fila, respostas, hw, tele, mudo>>

Etapas == {"NENHUMA", "AGUARDANDO_AUXILIAR_SEGURO", "FECHANDO_VALVULA_PRINCIPAL",
           "AGUARDANDO_LEITURA_ISOLAMENTO", "RETENDO", "REABRINDO_VALVULA_PRINCIPAL",
           "CONCLUIDA", "FALHA"}
EtapasGerais == {"NENHUMA", "VALIDANDO_ISOLAMENTO", "CONFIRMANDO_ISOLAMENTO",
                 "DESLIGANDO_BOMBAS", "RECONFIRMANDO_VALVULAS", "AGUARDANDO_TELEMETRIA",
                 "CONCLUIDA", "FALHA"}
Monitoraveis == {"INATIVO", "MONITORANDO", "AGUARDANDO_ESTABILIZACAO",
                 "PRONTO_PARA_ENCERRAR", "AGUARDANDO_ACAO_MANUAL"}
EmEncerramento == {"ISOLANDO", "VERIFICANDO_RETENCAO", "BLOQUEADO"}
TanqueTerminal == {"CONCLUIDO", "INTERROMPIDO"}

Processo == [status : {"EM_EXECUCAO", "PAUSADO", "CONCLUIDO", "INTERROMPIDO"},
             geral : {"INATIVO", "AGUARDANDO_TANQUES", "AGUARDANDO_ACAO_MANUAL",
                      "ENCERRANDO", "CONFIRMANDO_HARDWARE", "CONCLUIDO", "FALHA"},
             etapa : EtapasGerais, comandos : 0..MaxComandos - 1]
\* `leitura`: a reading has come since isolado_em, for the stage that waits for
\* one; `estagnado`: status_estagnacao is DETECTADA.
Tanque == [status : {"GERANDO_VACUO", "VACUO_ATINGIDO", "VACUO_ESTABILIZADO"} \cup TanqueTerminal,
           enc : Monitoraveis \cup EmEncerramento \cup {"CONCLUIDO", "FALHA"},
           etapa : Etapas, comandos : 0..MaxComandos - 1,
           leitura : BOOLEAN, estagnado : BOOLEAN]

ComandosTanque == {"desligar_auxiliar", "fechar_auxiliar", "fechar_principal", "reabrir"}
EtapasComando == {"CONFIRMANDO_ISOLAMENTO", "DESLIGANDO_BOMBAS", "RECONFIRMANDO_VALVULAS"}
Finais == {"EXECUTADO", "RECUSADO"}
\* What a correlation id would find in the ledger or, after a lost ACK, in the ESP32.
Resposta == {"nenhuma", "ESP_EXECUTADO", "ESP_RECUSADO"} \cup Finais
SemRespostas(cmds) == [c \in cmds |-> "nenhuma"]

Saidas == [principal : BOOLEAN, abertas : SUBSET Tanques,
           auxiliar : BOOLEAN, linha : Tanques \cup {Nenhum}]
Reporta(h) == [principal |-> h.principal, abertas |-> h.abertas,
               auxiliar |-> h.auxiliar, linha |-> h.linha]
Seguro(h) == ~h.principal /\ ~h.auxiliar /\ h.abertas = {} /\ h.linha = Nenhum

\* `ack`: what the command in flight has come to, "nada" before it is executed.
Livre == [pc |-> "livre", tanque |-> Nenhum, leu |-> FALSE, ack |-> "nada"]
SemRequisicao == [op |-> "nenhuma", pc |-> "livre", falhou |-> FALSE]
SemValvula == [c |-> "nenhum", tanque |-> Nenhum]

\* The startup has just completed.
Init ==
    /\ cenario \in Cenarios
    /\ processo = [status |-> "EM_EXECUCAO", geral |-> "INATIVO", etapa |-> "NENHUMA",
                   comandos |-> 0]
    /\ tanques = [t \in Selecionados |->
                    [status |-> "GERANDO_VACUO", enc |-> "MONITORANDO", etapa |-> "NENHUMA",
                     comandos |-> 0, leitura |-> FALSE, estagnado |-> FALSE]]
    /\ aux = Nenhum
    /\ tq = Livre /\ ger = Livre /\ req = SemRequisicao /\ mao = SemValvula
    /\ respostas = [r \in Selecionados \cup {Geral} |->
                      SemRespostas(IF r = Geral THEN EtapasComando ELSE ComandosTanque)]
    /\ hw = [principal |-> TRUE, abertas |-> Selecionados, auxiliar |-> FALSE, linha |-> Nenhum,
             ativo |-> TRUE]
    /\ tele = [apos |-> TRUE, saidas |-> Reporta(hw)]
    /\ mudo = FALSE

EmExecucao == processo.status = "EM_EXECUCAO"
Evento(e) == /\ e \in cenario.operacoes /\ cenario.eventos > 0
             /\ cenario' = [cenario EXCEPT !.eventos = @ - 1]
Esp32 == cenario.controlador = "esp32"

----------------------------------------------------------------------------
(* The controller *)

\* enforceLocalSafety: the ESP32 stops a process whose main pump runs without
\* all the selected main valves open.
Protege(h) ==
    IF Esp32 /\ h.ativo /\ h.principal /\ h.abertas # Selecionados
    THEN [principal |-> FALSE, abertas |-> {}, auxiliar |-> FALSE, linha |-> Nenhum,
          ativo |-> FALSE]
    ELSE h

\* The simulator accepts every command.
Aceita(c, t) ==
    Esp32 =>
      CASE c = "fechar_todas" -> ~hw.principal /\ ~hw.auxiliar
        [] c = "fechar_principal" -> hw.ativo /\ ~(hw.principal /\ hw.abertas = {t})
        [] c = "fechar_auxiliar" -> hw.ativo /\ ~(hw.auxiliar /\ hw.linha = t)
        [] c = "reabrir" -> hw.ativo
        [] OTHER -> TRUE

\* A pump switched off on the simulator also ends its process context.
Faz(c, t) ==
    CASE c = "desligar_auxiliar" -> [hw EXCEPT !.auxiliar = FALSE, !.ativo = @ /\ Esp32]
      [] c = "desligar_todas" -> [hw EXCEPT !.principal = FALSE, !.auxiliar = FALSE,
                                            !.ativo = @ /\ Esp32]
      [] c = "fechar_todas" -> [hw EXCEPT !.abertas = {}, !.linha = Nenhum]
      [] c = "fechar_auxiliar" -> [hw EXCEPT !.linha = IF @ = t THEN Nenhum ELSE @]
      [] c = "fechar_principal" -> Protege([hw EXCEPT !.abertas = @ \ {t}])
      [] c = "reabrir" -> [hw EXCEPT !.abertas = @ \cup {t}]

\* The command c goes out under the id of row r and stage e: the answer, and
\* the outputs.  A final answer already stored is returned without publishing;
\* the ESP32 repeats the answer of an id that it remembers.
Executa(c, t, r, e, ack) ==
    LET antes == respostas[r][e] IN
    IF antes # "nenhuma"
    THEN ack = (IF antes \in {"EXECUTADO", "ESP_EXECUTADO"} THEN "EXECUTADO" ELSE "RECUSADO")
         /\ UNCHANGED hw
    ELSE IF Aceita(c, t) THEN ack = "EXECUTADO" /\ hw' = Faz(c, t)
    ELSE ack = "RECUSADO" /\ UNCHANGED hw

\* The answer is stored; without one the row ends in TIMEOUT, and the same id
\* may be published again.
Guarda(r, e, ack) == respostas' = [respostas EXCEPT ![r][e] = IF ack \in Finais THEN ack ELSE @]
GuardaPerdida(r, e, ack) ==
    respostas' = [respostas EXCEPT ![r][e] =
        CASE Esp32 /\ @ = "nenhuma" /\ ack = "EXECUTADO" -> "ESP_EXECUTADO"
          [] Esp32 /\ @ = "nenhuma" /\ ack = "RECUSADO" -> "ESP_RECUSADO"
          [] OTHER -> @]

\* HARDWARE_STATUS, periodic and after every command.
Telemetria ==
    /\ ~mudo
    /\ tele' = [apos |-> TRUE, saidas |-> Reporta(hw)]
    /\ UNCHANGED <<cenario, processo, tanques, aux, fila, respostas, hw, mudo>>

Silencio ==
    /\ Evento("silencio") /\ ~mudo /\ mudo' = TRUE
    /\ UNCHANGED <<processo, tanques, aux, fila, respostas, hw, tele>>

----------------------------------------------------------------------------
(* Writers of the rows *)

Invalida(f, t) == IF f.tanque = t THEN [f EXCEPT !.leu = FALSE] ELSE f

\* processReading with buildTankReadingTransition: `valor` is the reading
\* against the target, `estavel` the evidence of stabilisation, `parado` what
\* the stagnation detector concludes.  Only a new status of the closure
\* increments the version.
StatusPelaLeitura(status, valor, estavel) ==
    IF valor # "alvo" THEN "GERANDO_VACUO"
    ELSE IF status = "VACUO_ESTABILIZADO" \/ (status = "VACUO_ATINGIDO" /\ estavel)
    THEN "VACUO_ESTABILIZADO" ELSE "VACUO_ATINGIDO"
EncPelaLeitura(enc, status) ==
    IF enc \notin Monitoraveis THEN enc
    ELSE CASE status = "VACUO_ATINGIDO" -> "AGUARDANDO_ESTABILIZACAO"
           [] status = "GERANDO_VACUO" -> "MONITORANDO"
           [] OTHER -> IF cenario.automatico THEN "PRONTO_PARA_ENCERRAR" ELSE "AGUARDANDO_ACAO_MANUAL"
Monitora(row, valor, estavel, parado) ==
    LET status == StatusPelaLeitura(row.status, valor, estavel)
        excedeu == valor = "excesso"
    IN  [row EXCEPT !.status = status,
                    !.enc = IF excedeu THEN "FALHA" ELSE EncPelaLeitura(@, status),
                    !.etapa = IF excedeu THEN "FALHA" ELSE @,
                    !.estagnado = parado /\ status = "GERANDO_VACUO"]
\* A reading that comes while the stage waits for one is later than isolado_em.
Marcada(row) == [row EXCEPT !.leitura = @ \/ row.etapa = "AGUARDANDO_LEITURA_ISOLAMENTO"]
Leitura(t) ==
    /\ hw.ativo
    /\ \E valor \in {"fora", "alvo", "excesso"}, estavel, parado \in BOOLEAN :
       LET ignorada == ~EmExecucao \/ tanques[t].status \in TanqueTerminal
           row == IF ignorada THEN tanques[t]
                  ELSE Monitora(tanques[t], valor, estavel, parado)
       IN  /\ parado => "auxilio" \in cenario.operacoes
           /\ tanques' = [tanques EXCEPT ![t] = Marcada(row)]
           /\ tq' = IF row.enc # tanques[t].enc THEN Invalida(tq, t) ELSE tq
    /\ UNCHANGED <<cenario, processo, aux, ger, req, respostas, hw, tele, mudo, mao>>

\* Mutant: the final transition leaves the versions of the tanks as they were.
FinalSemVersao(status, statusTanque, enc, etapa) ==
    /\ processo' = [processo EXCEPT !.status = status]
    /\ tanques' = [t \in Selecionados |-> [tanques[t] EXCEPT !.status = statusTanque, !.enc = enc,
                                        !.etapa = etapa, !.estagnado = FALSE]]
    /\ aux' = Nenhum
    /\ UNCHANGED tq
\* applyLifecycleTransition with buildFinalTransition: every tank, whatever its
\* state, and a new version of each; the version of the process is not touched.
Final(status, statusTanque, enc, etapa) ==
    /\ processo' = [processo EXCEPT !.status = status]
    /\ tanques' = [t \in Selecionados |-> [tanques[t] EXCEPT !.status = statusTanque, !.enc = enc,
                                        !.etapa = etapa, !.estagnado = FALSE]]
    /\ aux' = Nenhum
    /\ tq' = [tq EXCEPT !.leu = FALSE]

----------------------------------------------------------------------------
(* The closure of one tank.  `tq` reads a context in one action and writes   *)
(* what it decided in another; its commands are published in between.        *)

TLe(t, decisao) == tq' = [pc |-> decisao, tanque |-> t, leu |-> TRUE, ack |-> "nada"]
TTermina == tq' = Livre

\* assertEligibleForIsolation; `seguro`: hose, sensor, limit and alarms.
Elegivel(t, seguro) ==
    /\ seguro /\ tanques[t].status = "VACUO_ESTABILIZADO"
    /\ t \in tele.saidas.abertas

\* runProcessOnce for a ready tank, and the request of a person.
LerPronto(t) ==
    /\ tq = Livre /\ EmExecucao
    /\ tanques[t].enc \in IF cenario.automatico THEN {"PRONTO_PARA_ENCERRAR"}
                          ELSE {"AGUARDANDO_ACAO_MANUAL"}
    /\ Elegivel(t, TRUE)
    /\ TLe(t, "reivindicar")
    /\ UNCHANGED <<cenario, processo, tanques, aux, ger, req, respostas, hw, tele, mudo, mao>>

\* Mutant: the attempt is not renewed, so its commands keep their ids.
NovasRespostasNenhuma(r, cmds) == UNCHANGED respostas
\* A new attempt has new correlation ids.
NovasRespostas(r, cmds) == respostas' = [respostas EXCEPT ![r] = SemRespostas(cmds)]

ClaimIsolation ==
    LET t == tq.tanque IN
    /\ tq.pc = "reivindicar"
    /\ IF tq.leu /\ EmExecucao /\ tanques[t].status = "VACUO_ESTABILIZADO"
       THEN /\ tanques' = [tanques EXCEPT
                 ![t].enc = "ISOLANDO", ![t].etapa = "AGUARDANDO_AUXILIAR_SEGURO",
                 ![t].comandos = 0]
            /\ NovasRespostas(t, ComandosTanque)
       ELSE UNCHANGED <<tanques, respostas>>
    /\ TTermina
    /\ UNCHANGED <<cenario, processo, aux, ger, req, hw, tele, mudo, mao>>

\* ensureAuxiliarySafe, on the row of the subsystem and the stored telemetry.
AuxiliarSeguro(t) ==
    LET s == tele.saidas
        naLinha == aux = t \/ s.linha = t
    IN  IF s.linha = t /\ aux \notin {t, Nenhum} THEN "falha"
        ELSE IF ~naLinha THEN "avancar"
        ELSE IF ~s.auxiliar THEN "fechar_auxiliar"
        ELSE IF aux = t THEN "desligar_auxiliar" ELSE "repetir"

\* advanceContext; the loss of vacuum and the time decide a retention.
Decisoes(t) ==
    LET row == tanques[t] IN
    CASE row.etapa = "AGUARDANDO_AUXILIAR_SEGURO" -> {AuxiliarSeguro(t)}
      [] row.etapa = "FECHANDO_VALVULA_PRINCIPAL" -> {"fechar_principal"}
      [] row.etapa = "AGUARDANDO_LEITURA_ISOLAMENTO" -> IF row.leitura THEN {"reter"} ELSE {}
      [] row.etapa = "RETENDO" -> {"reprovar", "concluir"}
      [] row.etapa = "REABRINDO_VALVULA_PRINCIPAL" -> {"reabrir"}
      [] OTHER -> {}
\* resolveSafetyFailure comes first; it also finds that readings have stopped.
Avaliar(t) ==
    /\ tq = Livre /\ EmExecucao /\ tanques[t].enc \in EmEncerramento
    /\ \E d \in {"falha"} \cup Decisoes(t) : TLe(t, d)
    /\ UNCHANGED <<cenario, processo, tanques, aux, ger, req, respostas, hw, tele, mudo, mao>>

\* recordCommandFailure: MAX_COMMAND_ATTEMPTS failures end the closure.
ComFalha(row) == [row EXCEPT !.enc = "FALHA", !.etapa = "FALHA", !.leitura = FALSE]
\* Mutants: the failures are counted without a limit, or not at all.
ComRepeticaoSemLimite(row) == [row EXCEPT !.comandos = @ + 1]
ComRepeticaoSemContar(row) == row
ComRepeticao(row) ==
    IF row.comandos + 1 >= MaxComandos THEN ComFalha(row) ELSE [row EXCEPT !.comandos = @ + 1]

\* What each decision writes: markFailure, recordCommandFailure, moveStage,
\* advanceRetention, rejectRetention, completeTankClosure.
Escrito(row, decisao) ==
    CASE decisao = "falha" -> ComFalha(row)
      [] decisao = "repetir" -> ComRepeticao(row)
      [] decisao = "avancar" -> [row EXCEPT !.etapa = "FECHANDO_VALVULA_PRINCIPAL", !.comandos = 0]
      [] decisao = "reter" -> [row EXCEPT !.etapa = "RETENDO", !.leitura = FALSE]
      [] decisao = "reprovar" -> [row EXCEPT !.enc = "BLOQUEADO", !.comandos = 0,
                                             !.etapa = "REABRINDO_VALVULA_PRINCIPAL"]
      [] decisao = "concluir" -> [row EXCEPT !.status = "CONCLUIDO", !.enc = "CONCLUIDO",
                                             !.etapa = "CONCLUIDA", !.comandos = 0,
                                             !.estagnado = FALSE]
Decidir ==
    /\ tq.pc \in {"falha", "repetir", "avancar", "reter", "reprovar", "concluir"}
    /\ tanques' = IF tq.leu /\ (tq.pc = "concluir" => EmExecucao)
                  THEN [tanques EXCEPT ![tq.tanque] = Escrito(@, tq.pc)] ELSE tanques
    /\ TTermina
    /\ UNCHANGED <<cenario, processo, aux, ger, req, respostas, hw, tele, mudo, mao>>

\* The commands of a tank.  The auxiliary ones are validated once more and
\* reserved (module AuxiliarySubsystem), and may be refused there.
Comandar ==
    /\ tq.pc \in ComandosTanque /\ tq.ack = "nada"
    /\ \E ack \in Finais \cup {"SEM_ACK"} :
         /\ IF ack = "SEM_ACK"
            THEN tq.pc \in {"desligar_auxiliar", "fechar_auxiliar"} /\ UNCHANGED hw
            ELSE Executa(tq.pc, tq.tanque, tq.tanque, tq.pc, ack)
         /\ tq' = [tq EXCEPT !.ack = ack]
    /\ UNCHANGED <<cenario, processo, tanques, aux, ger, req, respostas, tele, mudo, mao>>
TPerde ==
    /\ tq.pc \in ComandosTanque /\ tq.ack # "SEM_ACK" /\ Evento("perda")
    /\ GuardaPerdida(tq.tanque, tq.pc, tq.ack)
    /\ tq' = [tq EXCEPT !.ack = "SEM_ACK"]
    /\ UNCHANGED <<processo, tanques, aux, ger, req, hw, tele, mudo, mao>>

\* touchAfterCommand, closeMainValve and rollbackRetention.  Their conditions
\* are the version and the stage, never the status of the process.
Confirmado(row, c) ==
    CASE c = "fechar_principal" ->
           [row EXCEPT !.enc = "VERIFICANDO_RETENCAO", !.etapa = "AGUARDANDO_LEITURA_ISOLAMENTO",
                       !.comandos = 0, !.leitura = FALSE]
      [] c = "reabrir" ->
           [row EXCEPT !.status = "GERANDO_VACUO", !.enc = "MONITORANDO", !.etapa = "NENHUMA",
                       !.comandos = 0, !.estagnado = FALSE]
      [] OTHER -> [row EXCEPT !.comandos = 0]
Consolidar ==
    LET t == tq.tanque  c == tq.pc IN
    /\ c \in ComandosTanque /\ tq.ack # "nada"
    /\ Guarda(t, c, tq.ack)
    /\ tanques' = IF ~tq.leu THEN tanques
                  ELSE [tanques EXCEPT ![t] = IF tq.ack = "EXECUTADO" THEN Confirmado(@, c)
                                              ELSE ComRepeticao(@)]
    /\ aux' = IF c = "fechar_auxiliar" /\ tq.ack = "EXECUTADO" THEN Nenhum ELSE aux
    /\ TTermina
    /\ UNCHANGED <<cenario, processo, ger, req, hw, tele, mudo, mao>>

----------------------------------------------------------------------------
(* The general closure *)

Concluido(t) == tanques[t].status = "CONCLUIDO" /\ tanques[t].enc = "CONCLUIDO"
                /\ tanques[t].etapa = "CONCLUIDA"
\* Mutant: `some` for `every`.
TodosConcluidosAlgum == \E t \in Selecionados : Concluido(t)
TodosConcluidos == \A t \in Selecionados : Concluido(t)
EncerrandoGeral == processo.geral \in {"ENCERRANDO", "CONFIRMANDO_HARDWARE"}
SemEncerramentoGeral == processo.geral \in {"INATIVO", "AGUARDANDO_TANQUES"}

\* isHardwareSafeAndFresh: received since the marker of the confirmation.
Confirmada == tele.apos /\ Seguro(tele.saidas)
\* HARDWARE_CONFIRMATION_TIMEOUT_MS is several periods of the telemetry: when it
\* ends without news of the controller, it is silent.
PrazoEsgotado == tele.apos \/ mudo

\* confirmHardware, in the stage that waits for telemetry.
DecisaoConfirmacao ==
    IF Confirmada THEN "concluir"
    ELSE IF ~PrazoEsgotado THEN "nada"
    ELSE IF processo.comandos + 1 >= MaxComandos THEN "falha" ELSE "recomecar"
\* advance.  Each step is a cycle of a second: a person's command that was allowed
\* before the first one has reached the controller before the last one.
DecisaoDaEtapa ==
    CASE processo.etapa = "VALIDANDO_ISOLAMENTO" -> "validar"
      [] processo.etapa \in {"CONFIRMANDO_ISOLAMENTO", "DESLIGANDO_BOMBAS"} -> processo.etapa
      [] processo.etapa = "RECONFIRMANDO_VALVULAS" -> IF mao = SemValvula THEN processo.etapa ELSE "nada"
      [] OTHER -> DecisaoConfirmacao
\* runProcessOnce; `acoplada`: allHosesCoupled.
DecisaoGeral(acoplada) ==
    IF ~TodosConcluidos
    THEN IF EncerrandoGeral THEN "falha"
         ELSE IF processo.geral # "AGUARDANDO_TANQUES" THEN "aguardar" ELSE "nada"
    ELSE IF ~acoplada THEN "falha"
    ELSE IF SemEncerramentoGeral THEN IF cenario.automatico THEN "iniciar" ELSE "manual"
    ELSE IF EncerrandoGeral THEN DecisaoDaEtapa ELSE "nada"
GeralComFalha(row) == [row EXCEPT !.geral = "FALHA", !.etapa = "FALHA"]
\* markFailure, markWaitingForTanks, markWaitingForManualAction, claimClosureStart,
\* validateIsolation, confirmHardware and completeProcess.
GeralEscrito(row, decisao) ==
    CASE decisao = "falha" -> GeralComFalha(row)
      [] decisao = "aguardar" -> [row EXCEPT !.geral = "AGUARDANDO_TANQUES", !.etapa = "NENHUMA"]
      [] decisao = "manual" -> [row EXCEPT !.geral = "AGUARDANDO_ACAO_MANUAL", !.etapa = "NENHUMA"]
      [] decisao = "iniciar" -> [row EXCEPT !.geral = "ENCERRANDO", !.comandos = 0,
                                            !.etapa = "VALIDANDO_ISOLAMENTO"]
      [] decisao = "validar" -> [row EXCEPT !.etapa = "CONFIRMANDO_ISOLAMENTO"]
      [] decisao = "recomecar" -> [row EXCEPT !.geral = "ENCERRANDO", !.comandos = @ + 1,
                                              !.etapa = "CONFIRMANDO_ISOLAMENTO"]
      [] decisao = "concluir" -> [row EXCEPT !.status = "CONCLUIDO", !.geral = "CONCLUIDO",
                                             !.etapa = "CONCLUIDA"]
\* Only database queries lie between the context and these writes: one step.  The
\* marker is renewed by the validation and by the retry of the confirmation.
Escreve(decisao) ==
    /\ processo' = GeralEscrito(processo, decisao)
    /\ tele' = IF decisao \in {"validar", "recomecar"} THEN [tele EXCEPT !.apos = FALSE] ELSE tele
    /\ IF decisao \in {"iniciar", "recomecar"} THEN NovasRespostas(Geral, EtapasComando)
       ELSE UNCHANGED respostas
    /\ aux' = IF decisao \in {"iniciar", "concluir"} THEN Nenhum ELSE aux
    /\ UNCHANGED ger
AvaliarGeral ==
    /\ ger = Livre /\ EmExecucao
    /\ \E acoplada \in BOOLEAN :
       LET decisao == DecisaoGeral(acoplada) IN
       /\ decisao # "nada"
       /\ IF decisao \in EtapasComando
          THEN ger' = [Livre EXCEPT !.pc = decisao, !.leu = TRUE]
               /\ UNCHANGED <<processo, tele, respostas, aux>>
          ELSE Escreve(decisao)
    /\ UNCHANGED <<cenario, tanques, tq, req, hw, mudo, mao>>
\* startManual with assertCanStart.
IniciarManual ==
    /\ ger = Livre /\ EmExecucao /\ TodosConcluidos
    /\ processo.geral \in {"AGUARDANDO_ACAO_MANUAL", "AGUARDANDO_TANQUES", "INATIVO", "FALHA"}
    /\ Escreve("iniciar")
    /\ UNCHANGED <<cenario, tanques, tq, req, hw, mudo, mao>>

\* executeSafeCommand: claimStep, the command, and its consolidation.
ComandoDaEtapa(e) == IF e = "DESLIGANDO_BOMBAS" THEN "desligar_todas" ELSE "fechar_todas"
ClaimStep ==
    /\ ger.pc \in EtapasComando /\ ger.ack = "nada"
    /\ IF ger.leu /\ EmExecucao
       THEN \E ack \in Finais :
              /\ Executa(ComandoDaEtapa(ger.pc), Nenhum, Geral, ger.pc, ack)
              /\ ger' = [ger EXCEPT !.ack = ack]
       ELSE ger' = Livre /\ UNCHANGED hw
    /\ UNCHANGED <<cenario, processo, tanques, aux, tq, req, respostas, tele, mudo, mao>>
GPerde ==
    /\ ger.pc \in EtapasComando /\ ger.ack # "SEM_ACK" /\ Evento("perda")
    /\ GuardaPerdida(Geral, ger.pc, ger.ack)
    /\ ger' = [ger EXCEPT !.ack = "SEM_ACK"]
    /\ UNCHANGED <<processo, tanques, aux, tq, req, hw, tele, mudo, mao>>

\* A confirmed command resets the count of attempts, also the one that
\* confirmHardware has begun.
Seguinte(row) ==
    CASE row.etapa = "CONFIRMANDO_ISOLAMENTO" ->
           [row EXCEPT !.geral = "ENCERRANDO", !.etapa = "DESLIGANDO_BOMBAS", !.comandos = 0]
      [] row.etapa = "DESLIGANDO_BOMBAS" ->
           [row EXCEPT !.geral = "ENCERRANDO", !.etapa = "RECONFIRMANDO_VALVULAS", !.comandos = 0]
      [] OTHER ->
           [row EXCEPT !.geral = "CONFIRMANDO_HARDWARE", !.etapa = "AGUARDANDO_TELEMETRIA",
                       !.comandos = 0]
\* recordSafeCommandFailure does not ask that the process is running, markFailure does.
GeralComRepeticao(row) ==
    IF row.comandos + 1 < MaxComandos THEN [row EXCEPT !.comandos = @ + 1]
    ELSE IF EmExecucao THEN GeralComFalha(row) ELSE row
ConsolidarGeral ==
    /\ ger.pc \in EtapasComando /\ ger.ack # "nada"
    /\ Guarda(Geral, ger.pc, ger.ack)
    /\ processo' = IF ~ger.leu THEN processo
                   ELSE IF ger.ack = "EXECUTADO" /\ EmExecucao THEN Seguinte(processo)
                   ELSE GeralComRepeticao(processo)
    /\ ger' = Livre
    /\ UNCHANGED <<cenario, tanques, aux, tq, req, hw, tele, mudo, mao>>

----------------------------------------------------------------------------
(* The requests that change the process.  They read the status, await the    *)
(* commands of the orchestrator and write unconditionally.                   *)

Operacoes == {"pausa", "retomada", "conclusao", "interrupcao"}
Permite(op) ==
    CASE op = "retomada" -> processo.status = "PAUSADO"
      [] op = "pausa" -> EmExecucao /\ ~EncerrandoGeral
      [] op = "conclusao" -> EmExecucao
      [] OTHER -> processo.status \in {"EM_EXECUCAO", "PAUSADO"}
Requisitar(op) ==
    /\ req = SemRequisicao /\ Permite(op) /\ Evento(op)
    /\ req' = [op |-> op, pc |-> "bombas", falhou |-> FALSE]
    /\ UNCHANGED <<processo, tanques, aux, tq, ger, respostas, hw, tele, mudo, mao>>

\* runShutdownCommands: both commands, whatever the first one came to; every
\* one has an id of its own.
ReqComanda(pc, c, seguinte) ==
    /\ req.pc = pc
    /\ \/ /\ Aceita(c, Nenhum) /\ hw' = Faz(c, Nenhum)
          /\ req' = [req EXCEPT !.pc = seguinte] /\ UNCHANGED cenario
       \/ /\ ~Aceita(c, Nenhum) /\ UNCHANGED <<hw, cenario>>
          /\ req' = [req EXCEPT !.pc = seguinte, !.falhou = TRUE]
       \/ /\ Evento("perda") /\ hw' \in {hw} \cup IF Aceita(c, Nenhum) THEN {Faz(c, Nenhum)} ELSE {}
          /\ req' = [req EXCEPT !.pc = seguinte, !.falhou = TRUE]
    /\ UNCHANGED <<processo, tanques, aux, tq, ger, respostas, tele, mudo, mao>>
PararBombas == ReqComanda("bombas", "desligar_todas", "valvulas")
PararValvulas == ReqComanda("valvulas", "fechar_todas", "decidir")

\* startVacuumOperation of a resume: the process is loaded, the main valves of all
\* its tanks are opened and the main pump switched on.  A loaded ESP32 refuses.
Energizar ==
    /\ req.pc = "decidir" /\ req.op = "retomada" /\ ~req.falhou
    /\ IF Esp32 /\ hw.ativo THEN req' = SemRequisicao /\ UNCHANGED <<hw, tele>>
       ELSE /\ hw' = [hw EXCEPT !.principal = TRUE, !.abertas = Selecionados, !.ativo = TRUE]
            /\ tele' = IF mudo THEN tele ELSE [tele EXCEPT !.saidas = Reporta(hw')]
            /\ req' = [req EXCEPT !.pc = "gravar"]
    /\ UNCHANGED <<cenario, processo, tanques, aux, tq, ger, respostas, mudo, mao>>

\* assertMqttOperationSuccess, then applyLifecycleTransition.
Gravar ==
    /\ \/ req.pc = "gravar"
       \/ req.pc = "decidir" /\ (req.falhou \/ req.op # "retomada")
    /\ IF req.falhou THEN UNCHANGED <<processo, tanques, aux, tq>>
       ELSE CASE req.op = "pausa" -> /\ processo' = [processo EXCEPT !.status = "PAUSADO"]
                                     /\ aux' = Nenhum /\ UNCHANGED <<tanques, tq>>
              [] req.op = "retomada" -> /\ processo' = [processo EXCEPT !.status = "EM_EXECUCAO"]
                                        /\ aux' = Nenhum /\ UNCHANGED <<tanques, tq>>
              [] req.op = "conclusao" -> Final("CONCLUIDO", "CONCLUIDO", "CONCLUIDO", "CONCLUIDA")
              [] OTHER -> Final("INTERROMPIDO", "INTERROMPIDO", "BLOQUEADO", "NENHUMA")
    /\ req' = SemRequisicao
    /\ UNCHANGED <<cenario, ger, respostas, hw, tele, mudo, mao>>

\* claimEmergencyStop: the rows, in one transaction; module ProcessControl follows
\* the confirmation of the stop.
Emergencia ==
    /\ processo.status \in {"EM_EXECUCAO", "PAUSADO"} /\ Evento("emergencia")
    /\ processo' = [processo EXCEPT !.status = "INTERROMPIDO", !.geral = "ENCERRANDO",
                                    !.etapa = "CONFIRMANDO_ISOLAMENTO", !.comandos = 0]
    /\ tanques' = [t \in Selecionados |-> [tanques[t] EXCEPT !.status = "INTERROMPIDO",
                     !.enc = "BLOQUEADO", !.etapa = "NENHUMA"]]
    /\ aux' = Nenhum
    /\ tq' = [tq EXCEPT !.leu = FALSE] /\ ger' = [ger EXCEPT !.leu = FALSE]
    /\ UNCHANGED <<req, respostas, hw, tele, mudo, mao>>

\* abrirValvula and fecharValvula of the pre-check: a person moves one main valve of
\* a running process.  Of the closures only the concluded ones are protected, and
\* the command goes out after these reads.
OperarValvula(t) ==
    /\ mao = SemValvula /\ EmExecucao /\ SemEncerramentoGeral
    /\ \E c \in {"reabrir", "fechar_principal"} :
         /\ c = "reabrir" => tanques[t].enc # "CONCLUIDO"
         /\ mao' = [c |-> c, tanque |-> t]
    /\ Evento("valvula")
    /\ UNCHANGED <<processo, tanques, aux, tq, ger, req, respostas, hw, tele, mudo>>
\* It is executed, refused or lost; nothing is stored but a log.
MoverValvula ==
    /\ mao # SemValvula /\ mao' = SemValvula
    /\ hw' \in {hw} \cup IF Aceita(mao.c, mao.tanque) THEN {Faz(mao.c, mao.tanque)} ELSE {}
    /\ UNCHANGED <<cenario, processo, tanques, aux, tq, ger, req, respostas, tele, mudo>>

----------------------------------------------------------------------------
(* The auxiliary line, as module AuxiliarySubsystem lets it be used: for a   *)
(* stagnated tank, whatever the state of its closure.                        *)

AbrirAuxiliar(t) ==
    /\ EmExecucao /\ SemEncerramentoGeral /\ hw.ativo
    /\ tanques[t].status = "GERANDO_VACUO" /\ tanques[t].estagnado
    /\ aux = Nenhum /\ ~tele.saidas.auxiliar /\ tele.saidas.linha = Nenhum /\ hw.linha = Nenhum
    /\ Evento("auxilio")
    /\ aux' = t /\ hw' = [hw EXCEPT !.linha = t]
    /\ UNCHANGED <<processo, tanques, tq, ger, req, respostas, tele, mudo, mao>>
LigarAuxiliar ==
    /\ EmExecucao /\ SemEncerramentoGeral /\ aux # Nenhum /\ hw.ativo
    /\ tele.saidas.principal /\ hw.principal
    /\ tele.saidas.linha = aux /\ hw.linha = aux /\ ~hw.auxiliar
    /\ tanques[aux].status \notin TanqueTerminal
    /\ hw' = [hw EXCEPT !.auxiliar = TRUE]
    /\ UNCHANGED <<cenario, processo, tanques, aux, tq, ger, req, respostas, tele, mudo, mao>>
\* The automation or a person ends the help.
EncerrarAuxilio ==
    /\ aux # Nenhum
    /\ \/ hw.auxiliar /\ hw' = Faz("desligar_auxiliar", aux) /\ UNCHANGED aux
       \/ ~hw.auxiliar /\ ~tele.saidas.auxiliar
          /\ hw' = Faz("fechar_auxiliar", aux) /\ aux' = Nenhum
    /\ UNCHANGED <<cenario, processo, tanques, tq, ger, req, respostas, tele, mudo, mao>>

\* The API stops and starts again: what was in progress is gone.  The ACK of a
\* command executed meanwhile reaches the new process, or the ESP32 repeats it.
AckDe(r, e) == IF tq.pc = e /\ tq.tanque = r THEN tq.ack
               ELSE IF ger.pc = e /\ r = Geral THEN ger.ack ELSE "nada"
AposQueda(r, e) == IF AckDe(r, e) \in Finais THEN AckDe(r, e) ELSE respostas[r][e]
Queda ==
    /\ Evento("queda") /\ <<tq, ger, req>> # <<Livre, Livre, SemRequisicao>>
    /\ tq' = Livre /\ ger' = Livre /\ req' = SemRequisicao
    /\ respostas' \in {[r \in DOMAIN respostas |-> [e \in DOMAIN respostas[r] |-> AposQueda(r, e)]]}
                      \cup IF Esp32 THEN {} ELSE {respostas}
    /\ UNCHANGED <<processo, tanques, aux, hw, tele, mudo, mao>>

Filas ==
    \/ \E t \in Selecionados : LerPronto(t) \/ Avaliar(t)
    \/ ClaimIsolation \/ Decidir \/ Comandar \/ Consolidar
    \/ AvaliarGeral \/ IniciarManual \/ ClaimStep \/ ConsolidarGeral
    \/ PararBombas \/ PararValvulas \/ Energizar \/ Gravar
Ambiente ==
    \/ Telemetria \/ Silencio \/ TPerde \/ GPerde \/ Queda \/ Emergencia
    \/ \E t \in Selecionados : Leitura(t) \/ AbrirAuxiliar(t) \/ OperarValvula(t)
    \/ MoverValvula
    \/ LigarAuxiliar \/ EncerrarAuxilio
    \/ \E op \in Operacoes : Requisitar(op)
Next == Filas \/ Ambiente
Spec == Init /\ [][Next]_vars

----------------------------------------------------------------------------
\* Type correctness of every variable.
TypeOK ==
    /\ cenario.eventos \in Nat /\ processo \in Processo
    /\ tanques \in [Selecionados -> Tanque]
    /\ aux \in Tanques \cup {Nenhum}
    /\ hw.ativo \in BOOLEAN /\ Reporta(hw) \in Saidas /\ tele \in [apos : BOOLEAN, saidas : Saidas]
    /\ \A r \in Selecionados \cup {Geral} : \A e \in DOMAIN respostas[r] : respostas[r][e] \in Resposta
    /\ tq.ack \in Finais \cup {"nada", "SEM_ACK"} /\ tq.leu \in BOOLEAN
    /\ ger.ack \in Finais \cup {"nada", "SEM_ACK"} /\ ger.leu \in BOOLEAN

\* While the retention of a tank is measured its lines are closed: what
\* ProcessoTanqueClosureService approves is the tank, not a pump that still
\* pumps it.
RetentionIsIsolated ==
    \A t \in Selecionados : tanques[t].etapa = "RETENDO" => t \notin hw.abertas /\ hw.linha # t

\* The same, for a process that is neither resumed nor helped by the auxiliary
\* line, and whose main valves nobody moves by hand.
RetentionIsIsolatedUndisturbed ==
    cenario.operacoes \cap {"retomada", "auxilio", "valvula"} = {} => RetentionIsIsolated

\* The general closure concludes a process only with every pump off and every valve
\* closed, at the controller and not only in the stored telemetry, and with
\* every tank approved.  A process that was paused within its closure and then resumed
\* under a controller that has fallen silent is concluded on the telemetry of before the
\* resume, which is still later than the marker (isHardwareSafeAndFresh has no age).
ConclusionIsSafe ==
    [][/\ ~({"retomada", "silencio"} \subseteq cenario.operacoes)
       /\ processo.geral # "CONCLUIDO" /\ processo'.geral = "CONCLUIDO"
       => Seguro(hw) /\ \A t \in Selecionados : tanques[t].enc = "CONCLUIDO"]_vars

\* Once a process has ended, no step of a closure that was in progress writes
\* on its tanks.
EndedProcessKeepsTanks ==
    [][processo.status \in {"CONCLUIDO", "INTERROMPIDO"} /\ processo'.status = processo.status
         => \A t \in Selecionados : <<tanques'[t].status, tanques'[t].enc, tanques'[t].etapa>>
                              = <<tanques[t].status, tanques[t].enc, tanques[t].etapa>>]_vars

\* The schedulers run every second and each run of runProcessOnce advances every
\* closing tank before it claims another one; an await ends by an ACK or a timeout;
\* a controller that is not silent reports its outputs.
Justica ==
    /\ \A t \in Tanques : SF_vars(t \in Selecionados /\ Avaliar(t))
    /\ WF_vars(ClaimIsolation \/ Decidir \/ Comandar \/ Consolidar)
    /\ WF_vars(AvaliarGeral) /\ WF_vars(ClaimStep \/ ConsolidarGeral)
    /\ WF_vars(PararBombas \/ PararValvulas \/ Energizar \/ Gravar)
    /\ WF_vars(Telemetria)
FairSpec == Spec /\ Justica

\* An isolation that was claimed does not stay half done while the process runs:
\* its commands are confirmed, or fail MAX_COMMAND_ATTEMPTS times.
Isolando(t) == t \in Selecionados /\ EmExecucao /\ tanques[t].enc = "ISOLANDO"
IsolationSettles == \A t \in Tanques : Isolando(t) ~> ~Isolando(t)
\* The same, for a process whose tanks the auxiliary line does not help.
IsolationSettlesUnaided ==
    \A t \in Tanques : Isolando(t) /\ "auxilio" \notin cenario.operacoes ~> ~Isolando(t)
=============================================================================
