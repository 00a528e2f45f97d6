------------------------- MODULE AuxiliarySubsystem -------------------------
(***************************************************************************)
(* The auxiliary vacuum line of one process: one pump shared by the tanks, *)
(* one valve per tank, commanded by people who hold leases and by the      *)
(* scheduler that helps the tanks whose vacuum has stagnated.              *)
(*                                                                         *)
(* A command is validated and reserved in a short transaction, validated   *)
(* again, published, and consolidated after its ACK; other requests, the   *)
(* expiry of a lease, the pause and the general closure of the process,    *)
(* and a restart of the API come in between.  `lido[r]` is the set of the  *)
(* actors whose expected version is the one row r has now: a write that    *)
(* increments the version leaves in it only its author, if that author     *)
(* goes on with the version it wrote.                                      *)
(***************************************************************************)
EXTENDS Naturals, FiniteSets

CONSTANTS Tanques, Nenhum,      \* process/tank rows; no tank
          Usuarios, Ninguem,    \* people who may hold leases; nobody
          Escalonador,          \* the cron processo-auxiliar-automatico
          Eventos,              \* failures and transitions that may happen
          Regimes               \* the mode of the process, and the bounds: how many
                                \* events and requests of people happen in it

Sub == "subsistema"             \* the row of the subsystem, beside those of the tanks

ASSUME AuxiliaryAssumption ==
    /\ IsFiniteSet(Tanques) /\ {Nenhum, Sub} \cap Tanques = {}
    /\ Escalonador \notin Usuarios
    /\ Ninguem \notin Usuarios \cup {Escalonador}
    /\ Eventos \subseteq {"perda", "queda", "silencio", "vencimento", "pausa", "encerramento"}
    /\ Regimes \subseteq [modo : {"AUTOMATICO", "ASSISTIDO", "MANUAL"},
                           eventos : Nat, pedidos : Nat]

Atores == Usuarios \cup {Escalonador}
S == Escalonador
Energizam == {"LIGAR", "ABRIR"}
Acoes == Energizam \cup {"DESLIGAR", "FECHAR"}

VARIABLES
    processo,   \* status_processo and status_encerramento_geral
    modo,       \* modo_operacao_auxiliar, fixed when the process starts
    sub,        \* the row of processosauxiliares
    tanques,    \* [Tanques -> the row of processostanquesauxiliares]
    lido,       \* [row -> the actors that hold its current version]
    antes,      \* [row -> what the reservation that holds it would restore]
    alarme,     \* a critical alarm of the process is active
    hw,         \* outputs of the ESP32
    tele,       \* the last HARDWARE_STATUS stored
    exec,       \* [Atores -> the command being executed]
    eventos, pedidos    \* how many may still happen

linhas == <<sub, tanques, lido, antes>>
ambiente == <<processo, alarme>>
contas == <<eventos, pedidos>>
vars == <<linhas, ambiente, modo, hw, tele, exec, contas>>

SubStatus == {"INATIVO", "DISPONIVEL", "AGUARDANDO", "PREPARANDO", "OPERANDO",
              "TROCANDO_TANQUE", "CONTROLE_MANUAL", "BLOQUEADO", "FALHA"}
TanqueStatus == {"INATIVO", "MONITORANDO", "ELEGIVEL", "AGUARDANDO",
                 "EM_ATENDIMENTO", "ATENDIDO", "BLOQUEADO", "FALHA"}
Lease == [dono : Usuarios \cup {Ninguem}, vencido : BOOLEAN]
SemLease == [dono |-> Ninguem, vencido |-> FALSE]

\* What a shutdown asks for after its valve is closed.
Bloqueios == {"nao", "sim", "alarme"}
Exec == [pc : {"livre", "decidir", "reservar", "revalidar", "esp", "resposta",
               "recuar", "desfazer", "falhar", "inconsistente", "bloquear"},
         acao : Acoes, tanque : Tanques \cup {Nenhum}, bloqueia : Bloqueios,
         corrente : Tanques \cup {Nenhum}]
Livre == [pc |-> "livre", acao |-> "DESLIGAR", tanque |-> Nenhum, bloqueia |-> "nao",
          corrente |-> Nenhum]
SemAntes == [status |-> "INATIVO", tanque |-> Nenhum]

\* A process has just started: syncAuxiliaryStateForLifecycle of EM_EXECUCAO.
Init ==
    /\ processo = "EM_EXECUCAO"
    /\ \E r \in Regimes : modo = r.modo /\ eventos = r.eventos /\ pedidos = r.pedidos
    /\ sub = [status |-> "DISPONIVEL", tanque |-> Nenhum, lease |-> SemLease]
    /\ tanques = [t \in Tanques |-> [status |-> "MONITORANDO", lease |-> SemLease,
                                     iniciado |-> FALSE, eficaz |-> FALSE]]
    /\ lido = [r \in {Sub} \cup Tanques |-> {}]
    /\ antes = [r \in {Sub} \cup Tanques |-> SemAntes]
    /\ alarme = FALSE
    /\ hw = [principal |-> TRUE, bomba |-> FALSE, abertas |-> {}]
    /\ tele = [principal |-> TRUE, bomba |-> FALSE, abertas |-> {}, recente |-> TRUE]
    /\ exec = [a \in Atores |-> Livre]

----------------------------------------------------------------------------
(* The rows *)

Ocorre(f) == f \in Eventos /\ eventos > 0 /\ eventos' = eventos - 1

Ativo(l) == l.dono # Ninguem /\ ~l.vencido
LeaseHumano == Ativo(sub.lease) \/ \E t \in Tanques : Ativo(tanques[t].lease)

\* status_processo = EM_EXECUCAO, and without a closure past AGUARDANDO_TANQUES.
EmExecucao == processo \in {"EM_EXECUCAO", "PAUSANDO", "ENCERRANDO"}
SemEncerramento == processo \in {"EM_EXECUCAO", "PAUSANDO"}

\* The rows are written and their versions incremented; only `autores` go on
\* with the new ones.
Escreve(autores, rows) ==
    /\ lido' = [r \in DOMAIN lido |-> IF r \in rows THEN autores ELSE lido[r]]
    /\ antes' = [r \in DOMAIN lido |-> IF r \in rows THEN SemAntes ELSE antes[r]]
Linhas(t) == {Sub} \cup IF t = Nenhum THEN {} ELSE {t}

Vai(a, pc) == exec' = [exec EXCEPT ![a].pc = pc]
Termina(a) == exec' = [exec EXCEPT ![a] = Livre]
Esquece(a) == lido' = [r \in DOMAIN lido |-> lido[r] \ {a}] /\ UNCHANGED antes

\* syncAuxiliaryStateForLifecycle, and the general closure when it begins and ends.
Neutraliza(statusSub, statusTanque, reinicia) ==
    /\ sub' = [status |-> statusSub, tanque |-> Nenhum, lease |-> SemLease]
    /\ tanques' = [t \in Tanques |->
          [tanques[t] EXCEPT !.status = statusTanque, !.lease = SemLease,
                             !.iniciado = @ /\ ~reinicia, !.eficaz = @ /\ ~reinicia]]
    /\ Escreve({}, DOMAIN lido)

----------------------------------------------------------------------------
(* Leases.  The request reads the version and writes under it: a version   *)
(* that changes in between only refuses the request.                       *)

PodeAssumir(l, u) == l.dono \in {Ninguem, u} \/ l.vencido

AcquirePumpControl(u) ==
    /\ pedidos > 0 /\ pedidos' = pedidos - 1
    /\ SemEncerramento /\ modo # "AUTOMATICO"
    /\ PodeAssumir(sub.lease, u)
    /\ sub' = [sub EXCEPT !.lease = [dono |-> u, vencido |-> FALSE],
                            !.status = "CONTROLE_MANUAL"]
    /\ Escreve({}, {Sub})
    /\ UNCHANGED <<tanques, ambiente, modo, hw, tele, exec, eventos>>

\* Only with the pump and every auxiliary valve reported off and closed.
ReleasePumpControl(u) ==
    /\ sub.lease.dono = u
    /\ ~tele.bomba /\ tele.abertas = {}
    /\ sub' = [status |-> "DISPONIVEL", tanque |-> Nenhum, lease |-> SemLease]
    /\ Escreve({}, {Sub})
    /\ UNCHANGED <<tanques, ambiente, modo, hw, tele, exec, contas>>

AcquireValveControl(u, t) ==
    /\ pedidos > 0 /\ pedidos' = pedidos - 1
    /\ SemEncerramento /\ modo # "AUTOMATICO"
    /\ PodeAssumir(tanques[t].lease, u)
    /\ tanques' = [tanques EXCEPT ![t].lease = [dono |-> u, vencido |-> FALSE]]
    /\ Escreve({}, {t})
    /\ UNCHANGED <<sub, ambiente, modo, hw, tele, exec, eventos>>

ReleaseValveControl(u, t) ==
    /\ tanques[t].lease.dono = u
    /\ t \notin tele.abertas
    /\ tanques' = [tanques EXCEPT ![t].lease = SemLease]
    /\ Escreve({}, {t})
    /\ UNCHANGED <<sub, ambiente, modo, hw, tele, exec, contas>>

\* The end of a lease's duration.
Vence ==
    /\ Ocorre("vencimento")
    /\ \/ /\ Ativo(sub.lease)
          /\ sub' = [sub EXCEPT !.lease.vencido = TRUE]
          /\ UNCHANGED tanques
       \/ \E t \in Tanques :
            /\ Ativo(tanques[t].lease)
            /\ tanques' = [tanques EXCEPT ![t].lease.vencido = TRUE]
            /\ UNCHANGED sub
    /\ UNCHANGED <<lido, antes, ambiente, modo, hw, tele, exec, pedidos>>

----------------------------------------------------------------------------
(* ProcessoAuxiliarSafetyValidator *)

\* addModeChecks, and assertReservationOwnership for the automation.
ModoPermite(a, acao) ==
    acao \in Energizam =>
        \/ modo = "ASSISTIDO"
        \/ modo = "AUTOMATICO" /\ a = Escalonador
        \/ modo = "MANUAL" /\ a # Escalonador

\* addOwnershipCheck: a person needs a lease of their own, the automation and
\* the automatic mode need nobody to hold one.
Titular(a, lease) ==
    IF a = Escalonador \/ modo = "AUTOMATICO" THEN ~Ativo(lease)
    ELSE Ativo(lease) /\ lease.dono = a
Propriedade(a, acao, t) ==
    /\ acao \in {"LIGAR", "DESLIGAR"} => Titular(a, sub.lease)
    /\ acao # "DESLIGAR" => Titular(a, tanques[t].lease)

\* addEnergizingChecks.
PodeEnergizar(t) ==
    /\ SemEncerramento /\ ~alarme
    /\ sub.status \notin {"BLOQUEADO", "FALHA", "INATIVO"}
    /\ tanques[t].status \in {"ELEGIVEL", "AGUARDANDO", "EM_ATENDIMENTO"}

\* addActionSpecificChecks, on the stored telemetry.
HardwarePermite(acao, t) ==
    CASE acao = "LIGAR" -> sub.tanque = t /\ tele.principal /\ tele.abertas = {t}
      [] acao = "ABRIR" -> ~tele.bomba /\ tele.abertas \subseteq {t}
      [] acao = "FECHAR" -> ~tele.bomba
      [] OTHER -> TRUE

\* Mutant: whoever controls the pump is asked for no interlock.
PermitidoAoTitular(a, acao, t, apto) ==
    /\ tele.recente /\ ModoPermite(a, acao) /\ Titular(a, sub.lease)
    /\ acao \in Energizam => apto /\ PodeEnergizar(t)

\* A silent ESP32 is neither ready for commands nor fresh in its telemetry;
\* `apto`: the vacuum sensor and the coupling of the tank are operational.
Permitido(a, acao, t, apto) ==
    /\ tele.recente /\ (acao \in Energizam => apto)
    /\ ModoPermite(a, acao) /\ Propriedade(a, acao, t)
    /\ acao \in Energizam => PodeEnergizar(t)
    /\ HardwarePermite(acao, t)
\* Mutant: the versions are not compared.
AtualSempre(a, t) == TRUE
Atual(a, t) == \A r \in Linhas(t) : a \in lido[r]

----------------------------------------------------------------------------
(* executeCommand *)

\* reserveCommand; the automation also yields to any lease in ASSISTIDO.
CedeAoHumano(a, acao) ==
    a = Escalonador /\ acao \in Energizam /\ modo = "ASSISTIDO" /\ LeaseHumano
ReserveCommand(a, acao, t, bloqueia) ==
    /\ sub' = [sub EXCEPT
          !.status = IF acao \in Energizam THEN "PREPARANDO" ELSE "TROCANDO_TANQUE",
          !.tanque = IF acao \in Energizam THEN t ELSE @]
    /\ lido' = [r \in DOMAIN lido |-> IF r \in Linhas(t) THEN {a} ELSE lido[r]]
    /\ antes' = [r \in DOMAIN lido |->
          IF r = Sub THEN [status |-> sub.status, tanque |-> sub.tanque]
          ELSE IF r = t THEN [status |-> tanques[t].status, tanque |-> Nenhum] ELSE antes[r]]
    /\ exec' = [exec EXCEPT ![a] =
          [pc |-> "revalidar", acao |-> acao, tanque |-> t, bloqueia |-> bloqueia,
           corrente |-> exec[a].corrente]]

\* A person's request.  One whose version is no longer the row's is refused and
\* writes nothing, so that the read and the reservation are one step.
Pedir(u, acao, t) ==
    /\ exec[u].pc = "livre" /\ processo # "ENCERRADO"
    /\ t = Nenhum <=> acao = "DESLIGAR"
    /\ Permitido(u, acao, t, TRUE)
    /\ pedidos > 0 /\ pedidos' = pedidos - 1
    /\ ReserveCommand(u, acao, t, "nao")
    /\ UNCHANGED <<tanques, ambiente, modo, hw, tele, eventos>>

\* The scheduler's, decided on the context it has read.  A refusal is a conflict:
\* nothing is written.
Reservar ==
    /\ exec[S].pc = "reservar"
    /\ \E apto \in BOOLEAN :
       LET acao == exec[S].acao  t == exec[S].tanque IN
       IF Atual(S, t) /\ Permitido(S, acao, t, apto) /\ ~CedeAoHumano(S, acao)
       THEN ReserveCommand(S, acao, t, exec[S].bloqueia)
       ELSE Termina(S) /\ Esquece(S) /\ UNCHANGED sub
    /\ UNCHANGED <<tanques, ambiente, modo, hw, tele, contas>>

\* The second evaluation, at the reserved versions, and the publication.
Revalidar(a) ==
    /\ exec[a].pc = "revalidar"
    /\ \E apto \in BOOLEAN :
         Vai(a, IF Atual(a, exec[a].tanque) /\ Permitido(a, exec[a].acao, exec[a].tanque, apto)
                THEN "esp" ELSE "recuar")
    /\ UNCHANGED <<linhas, ambiente, modo, hw, tele, contas>>

\* The controller, with its own interlocks (module Esp32Firmware).
EspAceita(acao, t) ==
    CASE acao = "LIGAR" -> hw.principal /\ hw.abertas # {}
      [] acao = "FECHAR" -> ~(hw.bomba /\ hw.abertas = {t})
      [] OTHER -> TRUE
EspFaz(acao, t) ==
    CASE acao = "LIGAR" -> [hw EXCEPT !.bomba = TRUE]
      [] acao = "DESLIGAR" -> [hw EXCEPT !.bomba = FALSE]
      [] acao = "ABRIR" -> [hw EXCEPT !.abertas = @ \cup {t}]
      [] acao = "FECHAR" -> [hw EXCEPT !.abertas = @ \ {t}]
EspExecuta(a) ==
    /\ exec[a].pc = "esp"
    /\ IF EspAceita(exec[a].acao, exec[a].tanque)
       THEN hw' = EspFaz(exec[a].acao, exec[a].tanque) /\ Vai(a, "resposta")
       ELSE Vai(a, "desfazer") /\ UNCHANGED hw
    /\ UNCHANGED <<linhas, ambiente, modo, tele, contas>>

\* The command or its answer is lost.  The wait for the ACK and the freshness
\* of the telemetry have the same limit (timeout_comunicacao): what is still
\* fresh after the wait was received during it.
Telemetria(saidas) ==
    [principal |-> saidas.principal, bomba |-> saidas.bomba, abertas |-> saidas.abertas,
     recente |-> TRUE]
TeleAposEspera == {[tele EXCEPT !.recente = FALSE], Telemetria(hw)}
SemResposta(a) ==
    /\ Ocorre("perda")
    /\ exec[a].pc \in {"esp", "resposta"}
    /\ tele' \in TeleAposEspera
    /\ Vai(a, "desfazer")
    /\ UNCHANGED <<linhas, ambiente, modo, hw, pedidos>>

\* finalizeCommand: one transaction, refused if either version has moved.
SubFinalDoTanque(acao) ==     \* Mutant: the status of the tank goes to the wrong row.
    CASE acao = "LIGAR" -> "EM_ATENDIMENTO" [] OTHER -> "DISPONIVEL"
SubFinal(acao) ==
    CASE acao = "LIGAR" -> "OPERANDO" [] acao = "ABRIR" -> "PREPARANDO"
      [] acao = "DESLIGAR" -> "TROCANDO_TANQUE" [] OTHER -> "DISPONIVEL"
\* After a FECHAR the tank is attended if the evidence or its target says so.
TanqueFinal(acao, t, atingido) ==
    CASE acao = "LIGAR" -> [tanques[t] EXCEPT !.status = "EM_ATENDIMENTO", !.iniciado = TRUE]
      [] acao = "FECHAR" -> [tanques[t] EXCEPT !.status =
                               IF tanques[t].eficaz \/ atingido THEN "ATENDIDO" ELSE "MONITORANDO"]
      [] OTHER -> tanques[t]
Finalizar(a) ==
    /\ exec[a].pc = "resposta"
    /\ LET acao == exec[a].acao  t == exec[a].tanque IN
       IF Atual(a, t)
       THEN /\ sub' = [sub EXCEPT !.status = SubFinal(acao),
                                  !.tanque = IF acao = "FECHAR" THEN Nenhum ELSE @]
            /\ IF t = Nenhum THEN UNCHANGED tanques
               ELSE \E atingido \in BOOLEAN :
                      tanques' = [tanques EXCEPT ![t] = TanqueFinal(acao, t, atingido)]
            /\ Escreve({}, Linhas(t))
            /\ IF exec[a].bloqueia # "nao" THEN Vai(a, "bloquear") ELSE Termina(a)
       ELSE Vai(a, "inconsistente") /\ UNCHANGED linhas
    /\ UNCHANGED <<ambiente, modo, hw, tele, contas>>

\* markInconsistentAfterAck
MarkInconsistentAfterAck(a) ==
    /\ exec[a].pc = "inconsistente"
    /\ sub' = [sub EXCEPT !.status = "FALHA"]
    /\ tanques' = [t \in Tanques |-> IF t = exec[a].tanque
                     THEN [tanques[t] EXCEPT !.status = "FALHA"] ELSE tanques[t]]
    /\ Escreve({}, Linhas(exec[a].tanque))
    /\ Termina(a)
    /\ UNCHANGED <<ambiente, modo, hw, tele, contas>>

\* rollbackCommand: each row goes back to what it was at the reservation, or
\* to FALHA if its version has moved.  A refused second evaluation is a
\* conflict, which the scheduler only retries; an MQTT error is a failure.
SubDesfeito(a) ==
    IF a \in lido[Sub]
    THEN [sub EXCEPT !.status = antes[Sub].status, !.tanque = antes[Sub].tanque]
    ELSE [sub EXCEPT !.status = "FALHA"]
Desfazer(a) ==
    /\ exec[a].pc \in {"recuar", "desfazer"}
    /\ sub' = SubDesfeito(a)
    /\ tanques' = [t \in Tanques |->
          IF t # exec[a].tanque THEN tanques[t]
          ELSE [tanques[t] EXCEPT !.status = IF a \in lido[t] THEN antes[t].status
                                             ELSE "FALHA"]]
    /\ Escreve({}, Linhas(exec[a].tanque))
    /\ IF a = Escalonador /\ exec[a].pc = "desfazer" THEN Vai(a, "falhar") ELSE Termina(a)
    /\ UNCHANGED <<ambiente, modo, hw, tele, contas>>

----------------------------------------------------------------------------
(* The scheduler: one cycle of runOnce *)

\* synchronizeCandidates: the queue of the tanks that are not being served.
\* `detectado`: a stagnation of the tank in a process in execution.
NaoEntramNaFila == {"ATENDIDO", "BLOQUEADO", "FALHA", "EM_ATENDIMENTO"}
SaemDaFila == {"ELEGIVEL", "AGUARDANDO", "BLOQUEADO"}
NaFila(t, detectado) ==
    IF t = sub.tanque THEN tanques[t]
    ELSE IF detectado /\ tanques[t].status \notin NaoEntramNaFila
    THEN [tanques[t] EXCEPT !.status = IF modo = "MANUAL" THEN "ELEGIVEL" ELSE "AGUARDANDO",
                            !.eficaz = FALSE]
    ELSE IF ~detectado /\ tanques[t].status \in SaemDaFila
    THEN [tanques[t] EXCEPT !.status = "MONITORANDO"]
    ELSE tanques[t]

\* The cycle begins with clearExpiredLeases and synchronizeCandidates.
SemVencido(l) == IF l.dono # Ninguem /\ l.vencido THEN SemLease ELSE l
SynchronizeCandidates ==
    /\ exec[S].pc = "livre" /\ processo # "ENCERRADO"
    /\ Vai(S, "decidir")
    /\ \E estagnados \in SUBSET Tanques :
       LET novoSub == [sub EXCEPT !.lease = SemVencido(@)]
           novos == [t \in Tanques |-> [NaFila(t, EmExecucao /\ t \in estagnados) EXCEPT !.lease = SemVencido(@)]]
           mudou == {t \in Tanques : novos[t] # tanques[t]} \cup {r \in {Sub} : novoSub # sub}
       IN  /\ sub' = novoSub /\ tanques' = novos
           /\ Escreve({}, mudou)
    /\ UNCHANGED <<ambiente, modo, hw, tele, contas>>

\* What a cycle decides on the context it read: a command, a status for an
\* idle subsystem, or nothing.
Comando(acao, t, bloqueia) ==
    /\ lido' = [r \in DOMAIN lido |-> IF r \in Linhas(t) THEN lido[r] \cup {S} ELSE lido[r] \ {S}]
    /\ exec' = [exec EXCEPT ![S] = [Livre EXCEPT !.pc = "reservar", !.acao = acao, !.tanque = t,
                                                 !.bloqueia = bloqueia, !.corrente = sub.tanque]]
    /\ UNCHANGED <<sub, antes>>
Ocioso(status) ==
    /\ Termina(S)
    /\ IF sub.status = status THEN UNCHANGED <<sub, lido, antes>>
       ELSE sub' = [sub EXCEPT !.status = status] /\ Escreve({}, {Sub})
Nada == Termina(S) /\ UNCHANGED <<sub, lido, antes>>

\* handleIdleSubsystem
Candidatos ==
    {t \in Tanques : tanques[t].status = IF modo = "MANUAL" THEN "ELEGIVEL" ELSE "AGUARDANDO"}
StatusOcioso ==
    IF LeaseHumano THEN "CONTROLE_MANUAL"
    ELSE IF modo # "MANUAL" /\ ~EmExecucao THEN "INATIVO"
    ELSE IF Candidatos # {} THEN "AGUARDANDO"
    ELSE IF modo # "MANUAL" /\ \E t \in Tanques : tanques[t].status = "BLOQUEADO"
         THEN "BLOQUEADO" ELSE "DISPONIVEL"
Seleciona ==
    /\ ~LeaseHumano /\ modo # "MANUAL" /\ EmExecucao
    /\ Candidatos # {} /\ sub.status \notin {"BLOQUEADO", "INATIVO"}
\* Mutant: without a current tank only the pump is checked.
HandleIdleOnlyPump ==
    IF tele.bomba THEN Comando("DESLIGAR", Nenhum, "nao")
    ELSE IF sub.status = "FALHA" THEN Nada
    ELSE IF Seleciona THEN \E t \in Candidatos : Comando("ABRIR", t, "nao")
    ELSE Ocioso(StatusOcioso)
HandleIdleSubsystem ==
    IF tele.bomba THEN Comando("DESLIGAR", Nenhum, "nao")
    ELSE IF tele.abertas # {} THEN \E t \in tele.abertas : Comando("FECHAR", t, "nao")
    ELSE IF sub.status = "FALHA" THEN Nada
    ELSE IF Seleciona THEN \E t \in Candidatos : Comando("ABRIR", t, "nao")
    ELSE Ocioso(StatusOcioso)

\* resolveShutdownDecision: whether the attendance of t stops, and with which
\* block of the tank.  `prazo`: assistance_timeout_seconds since iniciado_em.
Continua == [parar |-> FALSE, bloqueia |-> "nao"]
Para(b) == [parar |-> TRUE, bloqueia |-> b]
\* `leitura`: what the vacuum of the tank does, or that its sensor has failed.
DecisaoDeParada(tanque, leitura, prazo) ==
    IF ~EmExecucao \/ leitura = "sem sensor" THEN Para("sim")
    ELSE IF modo = "ASSISTIDO" /\ LeaseHumano THEN Para("nao")
    ELSE IF modo = "MANUAL" THEN IF LeaseHumano THEN Continua ELSE Para("sim")
    ELSE IF leitura = "gerando" \/ tanque.eficaz THEN Para("nao")
    ELSE IF prazo THEN Para("alarme")
    ELSE IF sub.status = "TROCANDO_TANQUE" THEN Para("nao")
    ELSE Continua

\* advanceCurrentTank; `assentado`: HARDWARE_SETTLEMENT_TIMEOUT_MS since the row
\* of the subsystem last changed.
AdvanceCurrentTank(t, parada, assentado) ==
    IF tele.bomba
    THEN IF /\ sub.status = "TROCANDO_TANQUE" => assentado
            /\ parada.parar \/ sub.status \notin {"OPERANDO", "CONTROLE_MANUAL"}
         THEN Comando("DESLIGAR", Nenhum, "nao") ELSE Nada
    ELSE IF parada.parar THEN Comando("FECHAR", t, parada.bloqueia)
    ELSE IF t \in tele.abertas THEN Comando("LIGAR", t, "nao")
    ELSE IF assentado THEN Comando("ABRIR", t, "nao") ELSE Nada

\* refreshAssistanceEvidence: with the pump reported on, the evidence says
\* effective when the stagnation has ended or the vacuum has improved enough;
\* without readings it stays as it was.
Evidencia(t, leitura) ==
    {tanques[t].eficaz} \cup
    IF ~(tele.bomba /\ tanques[t].iniciado) THEN {}
    ELSE IF leitura = "gerando" THEN {TRUE} ELSE BOOLEAN

\* evaluateContext.  The sensors and the clock may say anything at each reading.
EvaluateContext(assentado) ==
    /\ exec[S].pc = "decidir"
    /\ IF sub.tanque = Nenhum
       THEN HandleIdleSubsystem /\ UNCHANGED tanques
       ELSE LET t == sub.tanque IN
            \E leitura \in {"estagnado", "gerando", "sem sensor"} :
            \E e \in Evidencia(t, leitura) :
            \E prazo \in IF tanques[t].iniciado THEN BOOLEAN ELSE {FALSE} :
              LET tanque == [tanques[t] EXCEPT !.eficaz = e] IN
              /\ tanques' = [tanques EXCEPT ![t] = tanque]
              /\ AdvanceCurrentTank(t, DecisaoDeParada(tanque, leitura, prazo), assentado)
    /\ UNCHANGED <<ambiente, modo, hw, tele, contas>>

\* blockTank, after the valve of the stopped attendance is closed.
BlockTank ==
    /\ exec[S].pc = "bloquear"
    /\ sub' = [sub EXCEPT !.status = "BLOQUEADO", !.tanque = Nenhum]
    /\ tanques' = [tanques EXCEPT ![exec[S].tanque].status = "BLOQUEADO",
                                  ![exec[S].tanque].eficaz = @ /\ exec[S].bloqueia # "alarme"]
    /\ Escreve({}, Linhas(exec[S].tanque))
    /\ alarme' = (alarme \/ exec[S].bloqueia = "alarme")
    /\ Termina(S)
    /\ UNCHANGED <<processo, modo, hw, tele, contas>>

\* markSchedulerFailure, for the tank that was current when the cycle began.
MarkSchedulerFailure ==
    /\ exec[S].pc = "falhar"
    /\ sub' = [sub EXCEPT !.status = "FALHA"]
    /\ tanques' = [t \in Tanques |-> IF t = exec[S].corrente
                     THEN [tanques[t] EXCEPT !.status = "FALHA"] ELSE tanques[t]]
    /\ Escreve({}, Linhas(exec[S].corrente))
    /\ Termina(S)
    /\ UNCHANGED <<ambiente, modo, hw, tele, contas>>

----------------------------------------------------------------------------
(* The process, the telemetry, failures *)

\* A person deals with the critical alarm.
ResolveAlarme ==
    /\ alarme /\ alarme' = FALSE
    /\ UNCHANGED <<linhas, processo, modo, hw, tele, exec, contas>>

RecebeTelemetria ==
    /\ tele' = Telemetria(hw)
    /\ UNCHANGED <<linhas, ambiente, modo, hw, exec, contas>>

\* A pause: the outputs go first, then the transition of the process resets the
\* auxiliary rows.  A paused process is not resumed (ProcessControl).
Desenergizado == [principal |-> FALSE, bomba |-> FALSE, abertas |-> {}]
Pausar ==
    /\ Ocorre("pausa") /\ processo = "EM_EXECUCAO" /\ processo' = "PAUSANDO"
    /\ hw' = Desenergizado
    /\ UNCHANGED <<linhas, alarme, modo, tele, exec, pedidos>>
GravarPausa ==
    /\ processo = "PAUSANDO" /\ processo' = "PAUSADO"
    /\ Neutraliza("INATIVO", "INATIVO", TRUE)
    /\ UNCHANGED <<alarme, modo, hw, tele, exec, contas>>
\* The general closure: it blocks the auxiliary rows, stops the outputs, and
\* ends the process once they are confirmed.
IniciarEncerramento ==
    /\ Ocorre("encerramento") /\ processo = "EM_EXECUCAO" /\ processo' = "ENCERRANDO"
    /\ Neutraliza("BLOQUEADO", "BLOQUEADO", FALSE)
    /\ UNCHANGED <<alarme, modo, hw, tele, exec, pedidos>>
PararSaidas ==
    /\ processo = "ENCERRANDO" /\ hw' = Desenergizado
    /\ UNCHANGED <<linhas, ambiente, modo, tele, exec, contas>>
Encerrar ==
    /\ processo = "ENCERRANDO" /\ tele = Telemetria(Desenergizado)
    /\ processo' = "ENCERRADO"
    /\ Neutraliza("INATIVO", "INATIVO", FALSE)
    /\ UNCHANGED <<alarme, modo, hw, tele, exec, contas>>

\* The controller falls silent until its next HARDWARE_STATUS.
Silencio ==
    /\ Ocorre("silencio") /\ tele.recente /\ tele' = [tele EXCEPT !.recente = FALSE]
    /\ UNCHANGED <<linhas, ambiente, modo, hw, exec, pedidos>>
\* The API restarts: whatever was being executed is forgotten.
Queda ==
    /\ Ocorre("queda")
    /\ exec' = [a \in Atores |-> Livre]
    /\ Escreve({}, DOMAIN lido)
    /\ UNCHANGED <<sub, tanques, ambiente, modo, hw, tele, pedidos>>

Command(a) ==
    \/ Revalidar(a) \/ EspExecuta(a) \/ SemResposta(a)
    \/ Finalizar(a) \/ MarkInconsistentAfterAck(a) \/ Desfazer(a)
Human(u) ==
    \/ AcquirePumpControl(u) \/ ReleasePumpControl(u)
    \/ \E t \in Tanques : AcquireValveControl(u, t) \/ ReleaseValveControl(u, t)
    \/ \E acao \in Acoes, t \in Tanques \cup {Nenhum} : Pedir(u, acao, t)
Scheduler ==
    \/ SynchronizeCandidates \/ (\E assentado \in BOOLEAN : EvaluateContext(assentado)) \/ Reservar
    \/ BlockTank \/ MarkSchedulerFailure
Lifecycle ==
    \/ Pausar \/ GravarPausa
    \/ IniciarEncerramento \/ PararSaidas \/ Encerrar
Environment ==
    \/ ResolveAlarme \/ Vence \/ RecebeTelemetria \/ Silencio \/ Queda

Next ==
    \/ \E a \in Atores : Command(a)
    \/ \E u \in Usuarios : Human(u)
    \/ Scheduler \/ Lifecycle \/ Environment

Spec == Init /\ [][Next]_vars

\* The scheduler and the commands in progress go on, telemetry keeps arriving,
\* time passes, and a closure or a pause that has begun goes on.
Fairness ==
    /\ \A a \in Atores : WF_vars(Revalidar(a) \/ EspExecuta(a) \/ Finalizar(a)
                                 \/ MarkInconsistentAfterAck(a) \/ Desfazer(a))
    /\ WF_vars(Scheduler)
    /\ WF_vars(RecebeTelemetria /\ tele # Telemetria(hw))
    /\ WF_vars(GravarPausa) /\ WF_vars(PararSaidas /\ hw # Desenergizado) /\ WF_vars(Encerrar)
FairSpec == Spec /\ Fairness

----------------------------------------------------------------------------
(* Properties *)

\* Type correctness of every variable.
TypeOK ==
    /\ processo \in {"EM_EXECUCAO", "PAUSANDO", "PAUSADO", "ENCERRANDO", "ENCERRADO"}
    /\ modo \in {r.modo : r \in Regimes}
    /\ sub \in [status : SubStatus, tanque : Tanques \cup {Nenhum}, lease : Lease]
    /\ tanques \in [Tanques -> [status : TanqueStatus, lease : Lease,
                                iniciado : BOOLEAN, eficaz : BOOLEAN]]
    /\ lido \in [{Sub} \cup Tanques -> SUBSET Atores]
    /\ antes \in [{Sub} \cup Tanques -> [status : SubStatus \cup TanqueStatus,
                                          tanque : Tanques \cup {Nenhum}]]
    /\ alarme \in BOOLEAN
    /\ hw \in [principal : BOOLEAN, bomba : BOOLEAN, abertas : SUBSET Tanques]
    /\ tele \in [principal : BOOLEAN, bomba : BOOLEAN, abertas : SUBSET Tanques,
                 recente : BOOLEAN]
    /\ exec \in [Atores -> Exec]
    /\ eventos \in Nat /\ pedidos \in Nat

\* The auxiliary pump runs with one auxiliary valve open: two tanks are never
\* joined by the line.  Two commands of different actors may be in flight at
\* once, each checked against a telemetry without the effect of the other, and
\* then it does not hold.
SingleValveInService == hw.bomba => Cardinality(hw.abertas) <= 1

\* It holds, whatever is lost, restarted, paused or closed, where the automation
\* alone may energise: a valve it opened is on the row until one is closed, and
\* what it turns on is the valve of the row.  A person in MANUAL may turn to
\* another tank between the answer of a command and the telemetry that shows it.
OneTankOnTheLine == modo = "AUTOMATICO" => SingleValveInService

\* A command in flight when the general closure blocks the subsystem can
\* neither select a tank nor report an attendance when it ends.
ClosureNotUndone ==
    [][processo = "ENCERRANDO" /\ sub.tanque = Nenhum
       => sub'.tanque = Nenhum /\ sub'.status # "OPERANDO"]_vars

\* A valve opened by a command that was in flight when the process was paused is
\* closed by the scheduler, which first stops a pump it finds running, and the
\* line of a paused process stays closed.
StrayLineCloses == <>[](processo = "PAUSADO" => ~hw.bomba /\ hw.abertas = {})
=============================================================================
