-------------------------- MODULE MqttConfiguration --------------------------
(***************************************************************************)
(* The administration of the MQTT link: the update of the configuration    *)
(* and of the credentials, the leased administrative operations, the       *)
(* connection test, the restoration of a backup, and the one client they   *)
(* all connect and disconnect (mqtt.service.ts, config/mqtt-config and     *)
(* mqtt-credentials, connection/mqtt-client and mqtt-health).              *)
(*                                                                         *)
(* A step of a request is the code between two awaits.  The transitions of *)
(* the connection state go through the client's queue in the order they    *)
(* were enqueued; a request waits (pc "fila") for those it awaits.         *)
(*                                                                         *)
(* Data: a configuration is a name (the fields a candidate sets are the    *)
(* only ones in which configurations differ), so is a pair of credentials. *)
(* The readings a connect makes of the row and of the file are one step.   *)
(***************************************************************************)
EXTENDS Naturals, Sequences, FiniteSets

CONSTANTS
  Pedidos,        \* HTTP requests, one operation each
  Inicio,         \* the connect of onModuleInit
  Nenhum,
  Antiga, Nova, DoBackup,   \* configurations: stored, candidate, of the backup
  CredAntiga, CredNova,     \* credentials: of the file, of the request
  Cenarios,       \* sets of operations the requests of a run may ask for
  MaxEventos      \* drops of the link, leases that expire, processes that
                  \* start and restarts of the API, together

Operacoes == {"CONFIG", "CREDENCIAL", "RECONECTAR", "DESCONECTAR", "COMANDAR",
              "TESTAR", "RESTAURAR"}

ASSUME ConfigurationAssumption ==
  /\ Nenhum \notin Pedidos \cup {Inicio} /\ Inicio \notin Pedidos
  /\ Nenhum \notin Operacoes \cup {"RECUSADA", "PERDIDA", "DESFEITA", "APLICADA"}
  /\ \A c \in Cenarios : c \subseteq Operacoes
  /\ MaxEventos \in Nat

VARIABLES
  cenario,      \* the operations of this behaviour
  bd,           \* the row of mqttconfiguracoes
  arquivo,      \* the credentials file
  pronta,       \* credentialReadiness.credenciaisVerificadas, in memory
  cliente,      \* MqttClientService.client
  encerrando,   \* id of disconnectingClient, 0 when null
  conectando,   \* isConnecting
  conectado,    \* isConnected
  aplicada,     \* appliedConfigFingerprint
  saude,        \* MqttHealthService.activeMqttConfig
  atualizando,  \* the request that set an update-in-progress flag
  fila,         \* connectionTransitionQueue
  ped,          \* the requests
  processo,     \* a process with a protected operational state exists
  aceitas,      \* history: credentials the broker has accepted
  resta         \* events left of the bound, and the next client id

vars == <<cenario, bd, arquivo, pronta, cliente, encerrando, conectando,
          conectado, aplicada, saude, atualizando, fila, ped, processo,
          aceitas, resta>>
memoria == <<cliente, encerrando, conectando, conectado, aplicada>>

Gasta == resta' = [resta EXCEPT !.eventos = @ - 1]
Todos == Pedidos \cup {Inicio}
Configs == {Antiga, Nova, DoBackup}
SemCliente == [id |-> 0, cfg |-> Nenhum, cred |-> Nenhum, vivo |-> FALSE]
Parado == [op |-> Nenhum, pc |-> "fora", cfg |-> Nenhum, cred |-> Nenhum,
           cli |-> 0, anterior |-> Nenhum, volta |-> FALSE, sucesso |-> FALSE,
           perdeu |-> FALSE, resp |-> Nenhum]
Conectando == [Parado EXCEPT !.op = "INICIAR", !.pc = "conecta"]

Init ==
  /\ cenario \in Cenarios
  /\ arquivo \in {CredAntiga, Nenhum}
  /\ bd = [cfg |-> Antiga, status |-> "DESCONECTADO", verif |-> FALSE,
           falha |-> FALSE, token |-> Nenhum, vigente |-> FALSE]
  /\ pronta = FALSE
  /\ cliente = SemCliente /\ encerrando = 0
  /\ conectando = FALSE /\ conectado = FALSE /\ aplicada = Nenhum
  /\ saude = Antiga /\ atualizando = Nenhum /\ fila = <<>>
  /\ ped = [r \in Todos |-> IF r = Inicio THEN Conectando ELSE Parado]
  /\ processo = FALSE /\ aceitas = {}
  /\ resta = [eventos |-> MaxEventos, id |-> 1]

-----------------------------------------------------------------------------
(* The lease of the row, and what a request does next *)

Em(r, pc) == ped[r].pc = pc
Segue(r, pc) == ped' = [ped EXCEPT ![r].pc = pc]
Termina(r) ==
  ped' = [ped EXCEPT ![r] = [Parado EXCEPT !.op = ped[r].op, !.pc = "fim",
                               !.resp = ped[r].resp, !.perdeu = ped[r].perdeu]]
\* A request ends: it releases its lease if it claimed one, then its flag.
Responde(r, resp) == ped' = [ped EXCEPT ![r].pc = "libera", ![r].resp = resp]

LeaseVigente == bd.token # Nenhum /\ bd.vigente
LivreSemLease == ~processo
Livre == ~processo /\ ~LeaseVigente
\* renewMqttUpdateLease compares the token only, not the expiry.
PodeRenovar(r) == bd.token = r /\ ~processo
PodeGravar(r) == bd.token = r /\ bd.vigente /\ ~processo
Atualiza(op) == op \in {"CONFIG", "CREDENCIAL"}

\* assertNoMqttUpdateInProgress, then the first step of each operation.
Pedir(r, op) ==
  /\ Em(r, "fora") /\ op \in cenario /\ ped[Inicio].pc = "fim"
  /\ op = "RESTAURAR" \/ atualizando = Nenhum
  /\ ped' = [ped EXCEPT ![r].op = op, ![r].pc =
       IF op = "TESTAR" THEN IF conectado THEN "fim" ELSE "conecta"
       ELSE IF op = "RESTAURAR" THEN "restaura" ELSE "reserva"]
  /\ atualizando' = IF Atualiza(op) THEN r ELSE atualizando
  /\ UNCHANGED <<cenario, bd, arquivo, pronta, memoria, saude, fila, processo, aceitas, resta>>

PrimeiroPasso(op) ==
  CASE Atualiza(op) -> "prova"
    [] op = "RECONECTAR" -> "desliga"
    [] op = "DESCONECTAR" -> "desliga"
    [] op = "COMANDAR" -> IF conectado THEN "publica" ELSE "conecta"

Reservar(r) ==
  /\ Em(r, "reserva")
  /\ \/ /\ Livre
        /\ bd' = [bd EXCEPT !.token = r, !.vigente = TRUE]
        /\ Segue(r, PrimeiroPasso(ped[r].op))
     \/ ~Livre /\ UNCHANGED bd /\ Responde(r, "OCUPADA")
  /\ UNCHANGED <<cenario, arquivo, pronta, memoria, saude, atualizando, fila, processo, aceitas, resta>>

\* The finally of every leased operation: only the holder's token is erased.
SemLeaseDeNinguem(r) == [bd EXCEPT !.token = Nenhum, !.vigente = FALSE]
SemLease(r) == IF bd.token = r THEN [bd EXCEPT !.token = Nenhum, !.vigente = FALSE] ELSE bd
Liberar(r) ==
  /\ Em(r, "libera")
  /\ bd' = SemLease(r)
  /\ atualizando' = IF atualizando = r THEN Nenhum ELSE atualizando
  /\ Termina(r)
  /\ UNCHANGED <<cenario, arquivo, pronta, memoria, saude, fila, processo, aceitas, resta>>

-----------------------------------------------------------------------------
(* updateConfig and updateCredentials, up to the reconnection *)

\* readCredentials: its inspection of the file rewrites the state of the row.
Inspecionada ==
  [bd EXCEPT !.falha = (arquivo = Nenhum), !.verif = @ /\ arquivo # Nenhum]

\* What the acceptance of credentials by the broker adds to the history.
Aceita(cred) == aceitas \cup {cred}

\* A refused probe ends the request.
RecusadaContinua(p) == [p EXCEPT !.pc = "renova"]
Recusada(p) == [p EXCEPT !.pc = "libera", !.resp = "RECUSADA"]

\* verifyConfiguration: a temporary client, which leaves the main one alone.
Provar(r) ==
  /\ Em(r, "prova")
  /\ bd' = IF ped[r].op = "CONFIG" THEN Inspecionada ELSE bd
  /\ LET config == ped[r].op = "CONFIG"
         cred == IF config THEN arquivo ELSE CredNova
         lido == [ped[r] EXCEPT !.cred = cred, !.anterior = IF config THEN bd.cfg ELSE Nenhum]
     IN \/ /\ cred # Nenhum
           /\ ped' = [ped EXCEPT ![r] = [lido EXCEPT !.pc = "renova"]]
           /\ aceitas' = Aceita(cred)
        \/ /\ ped' = [ped EXCEPT ![r] = Recusada(lido)]
           /\ UNCHANGED aceitas
  /\ UNCHANGED <<cenario, arquivo, pronta, memoria, saude, atualizando, fila, processo, resta>>

Renovar(r) ==
  /\ Em(r, "renova")
  /\ \/ /\ PodeRenovar(r)
        /\ bd' = [bd EXCEPT !.vigente = TRUE]
        /\ ped' = [ped EXCEPT ![r].perdeu = FALSE,
                     ![r].pc = IF ped[r].op = "CONFIG" THEN "grava" ELSE "arquivo"]
     \/ ~PodeRenovar(r) /\ UNCHANGED bd /\ Responde(r, "PERDIDA")
  /\ UNCHANGED <<cenario, arquivo, pronta, memoria, saude, atualizando, fila, processo, aceitas, resta>>

\* persistOperationalConfig, of the candidate and of the previous snapshot.
Gravada(cfg) == [bd EXCEPT !.cfg = cfg, !.status = "DESCONECTADO"]

GravarConfig(r) ==
  /\ Em(r, "grava")
  /\ \/ PodeGravar(r) /\ bd' = Gravada(Nova) /\ Segue(r, "desliga")
     \/ ~PodeGravar(r) /\ UNCHANGED bd /\ Responde(r, "PERDIDA")
  /\ UNCHANGED <<cenario, arquivo, pronta, memoria, saude, atualizando, fila, processo, aceitas, resta>>

\* What the answer says of the rollback (databaseRestored).
RelatoOtimista(restaurado) == "DESFEITA"
Relato(restaurado) == IF restaurado THEN "DESFEITA" ELSE "INCOMPLETA"

Desfazer(r) ==
  /\ Em(r, "desfaz")
  /\ \/ /\ PodeGravar(r)
        /\ bd' = Gravada(ped[r].anterior)
        /\ ped' = [ped EXCEPT ![r].pc = "desliga", ![r].volta = TRUE]
     \/ ~PodeGravar(r) /\ UNCHANGED bd /\ Responde(r, Relato(FALSE))
  /\ UNCHANGED <<cenario, arquivo, pronta, memoria, saude, atualizando, fila, processo, aceitas, resta>>

\* configureCredentials: the file (whose write may fail) and the memory ...
GravarArquivo(r) ==
  /\ Em(r, "arquivo")
  /\ \/ arquivo' = ped[r].cred /\ pronta' = FALSE /\ Segue(r, "marca")
     \/ UNCHANGED <<arquivo, pronta>> /\ Responde(r, "ERRO")
  /\ UNCHANGED <<cenario, bd, memoria, saude, atualizando, fila, processo, aceitas, resta>>

\* ... then the row.
MarcarCredencial(r) ==
  /\ Em(r, "marca")
  /\ bd' = [bd EXCEPT !.verif = FALSE, !.falha = FALSE]
  /\ Segue(r, "desliga")
  /\ UNCHANGED <<cenario, arquivo, pronta, memoria, saude, atualizando, fila, processo, aceitas, resta>>

-----------------------------------------------------------------------------
(* The queue of connection transitions *)

Atual(id) == id # 0 /\ cliente.id = id /\ encerrando # id

Transicao(r, status, cfg, id, cred, segue, senao) ==
  [dono |-> r, status |-> status, cfg |-> cfg, cli |-> id, cred |-> cred,
   segue |-> segue, senao |-> senao]
DeEvento(status, cred) ==
  Transicao(Nenhum, status, cliente.cfg, cliente.id, cred, "", "")

\* r enqueues a transition and waits for it.
Enfileira(r, t, campos) ==
  /\ fila' = Append(fila, t)
  /\ ped' = [ped EXCEPT ![r] = [campos EXCEPT !.pc = "fila"]]

\* updateConnectionStatus writes only over the configuration it expects.
Confere(t) == t.cfg = Nenhum \/ t.cfg = bd.cfg
EscritaSoDaFalha(t) ==
  CASE t.cred = "RECUSADA" -> [bd EXCEPT !.status = t.status, !.falha = TRUE]
    [] t.cred = "VERIFICADA" -> [bd EXCEPT !.status = t.status, !.verif = TRUE, !.falha = FALSE]
    [] OTHER -> [bd EXCEPT !.status = t.status]
Escrita(t) ==
  LET comStatus == IF Confere(t) THEN [bd EXCEPT !.status = t.status] ELSE bd
  IN CASE t.cred = "RECUSADA" -> [comStatus EXCEPT !.verif = FALSE, !.falha = TRUE]
       [] t.cred = "VERIFICADA" /\ Confere(t) ->
            [comStatus EXCEPT !.verif = TRUE, !.falha = FALSE]
       [] OTHER -> comStatus

\* executeConnectionTransition: a transition of a client that is no longer
\* the operational one is skipped, and its waiter goes on as if it were done.
Executar ==
  /\ fila # <<>>
  /\ LET t == Head(fila)
         pula == t.cli # 0 /\ ~Atual(t.cli)
     IN /\ fila' = Tail(fila)
        /\ bd' = IF pula THEN bd ELSE Escrita(t)
        /\ pronta' = IF pula THEN pronta
                     ELSE CASE t.cred = "RECUSADA" -> FALSE
                            [] t.cred = "VERIFICADA" /\ Confere(t) -> arquivo # Nenhum
                            [] OTHER -> pronta
        /\ ped' = IF t.dono = Nenhum THEN ped
                  ELSE [ped EXCEPT ![t.dono].pc =
                          IF pula \/ Confere(t) THEN t.segue ELSE t.senao]
  /\ UNCHANGED <<cenario, arquivo, memoria, saude, atualizando, processo, aceitas, resta>>

-----------------------------------------------------------------------------
(* connect *)

\* What follows the result of a connect.
AposConectar(r) ==
  CASE ped[r].op = "CONFIG" -> IF ped[r].volta THEN "restaurada" ELSE "confirma"
    [] ped[r].op = "CREDENCIAL" -> "libera"
    [] ped[r].op = "RECONECTAR" -> "libera"
    [] ped[r].op = "COMANDAR" -> "publica"
Retorna(r, ok) ==
  IF ped[r].op \in {"TESTAR", "INICIAR"} THEN Termina(r)
  ELSE ped' = [ped EXCEPT ![r].sucesso = ok,
         ![r].pc = IF ~ok /\ ped[r].op = "COMANDAR" THEN "libera" ELSE AposConectar(r)]

Conectar(r) ==
  /\ Em(r, "conecta")
  /\ \/ conectado /\ cliente # SemCliente /\ Retorna(r, TRUE) /\ UNCHANGED conectando
     \/ /\ ~(conectado /\ cliente # SemCliente)
        /\ IF conectando THEN Retorna(r, FALSE) ELSE Segue(r, "le")
        /\ conectando' = TRUE
  /\ UNCHANGED <<cenario, bd, arquivo, pronta, cliente, encerrando, conectado,
                 aplicada, saude, atualizando, fila, processo, aceitas, resta>>

Falhou(r, cfg, cred) == Transicao(r, "FALHA", cfg, 0, cred, "fecha", "fecha")

\* getConfig, readCredentials.
Ler(r) ==
  /\ Em(r, "le")
  /\ bd' = Inspecionada
  /\ pronta' = (pronta /\ arquivo # Nenhum)
  /\ Enfileira(r, IF arquivo = Nenhum THEN Falhou(r, bd.cfg, "")
                  ELSE Transicao(r, "RECONECTANDO", bd.cfg, 0, "", "abre", "falha"),
               [ped[r] EXCEPT !.cfg = bd.cfg, !.cred = arquivo])
  /\ UNCHANGED <<cenario, arquivo, memoria, saude, atualizando, processo, aceitas, resta>>

Abrir(r) ==
  /\ Em(r, "abre")
  /\ cliente' = [id |-> resta.id, cfg |-> ped[r].cfg, cred |-> ped[r].cred, vivo |-> FALSE]
  /\ ped' = [ped EXCEPT ![r].pc = "espera", ![r].cli = resta.id]
  /\ resta' = [resta EXCEPT !.id = @ + 1]
  /\ UNCHANGED <<cenario, bd, arquivo, pronta, encerrando, conectando, conectado,
                 aplicada, saude, atualizando, fila, processo, aceitas>>

\* The broker accepts the client: the 'connect' event, then the waiter.
Aceito(r) ==
  /\ Em(r, "espera") /\ Atual(ped[r].cli)
  /\ cliente' = [cliente EXCEPT !.vivo = TRUE]
  /\ conectado' = TRUE
  /\ aceitas' = Aceita(cliente.cred)
  /\ fila' = IF conectando THEN fila
             ELSE Append(fila, DeEvento("CONECTADO", "VERIFICADA"))
  /\ Segue(r, "assina")
  /\ UNCHANGED <<cenario, bd, arquivo, pronta, encerrando, conectando, aplicada,
                 saude, atualizando, processo, resta>>

\* The six subscriptions are granted on the client they were sent on.
Assinar(r) ==
  /\ Em(r, "assina") /\ cliente.id = ped[r].cli /\ cliente.vivo
  /\ Enfileira(r, Transicao(r, "CONECTADO", ped[r].cfg, cliente.id, "VERIFICADA",
                            "firma", "falha"), ped[r])
  /\ UNCHANGED <<cenario, bd, arquivo, pronta, memoria, saude, atualizando,
                 processo, aceitas, resta>>

\* The wait or the subscriptions fail: refused, closed or timed out.
Falhar(r) ==
  /\ ped[r].pc \in {"espera", "assina", "falha"}
  /\ \E recusa \in {"", "RECUSADA"} :
       /\ recusa = "RECUSADA" => Em(r, "espera") /\ Atual(ped[r].cli)
       /\ Enfileira(r, Falhou(r, ped[r].cfg, recusa), ped[r])
       /\ conectado' = IF recusa = "" THEN conectado ELSE FALSE
  /\ UNCHANGED <<cenario, bd, arquivo, pronta, cliente, encerrando, conectando,
                 aplicada, saude, atualizando, processo, aceitas, resta>>

Firmar(r) ==
  /\ Em(r, "firma")
  /\ conectado' = TRUE /\ aplicada' = ped[r].cfg /\ conectando' = FALSE
  /\ Retorna(r, TRUE)
  /\ UNCHANGED <<cenario, bd, arquivo, pronta, cliente, encerrando, saude,
                 atualizando, fila, processo, aceitas, resta>>

\* forceClearCient clears whichever client is there when it runs.
LimpaSoOCliente(enc) ==
  /\ cliente' = SemCliente /\ encerrando' = 0
  /\ conectando' = FALSE /\ UNCHANGED <<conectado, aplicada>>
LimpaCliente(enc) ==
  /\ cliente' = SemCliente
  /\ encerrando' = IF enc = cliente.id THEN 0 ELSE enc
  /\ conectado' = FALSE /\ conectando' = FALSE /\ aplicada' = Nenhum

\* closeFailedClientSafely ends the client of the moment, not the one that failed.
Fechar(r) ==
  /\ Em(r, "fecha")
  /\ IF cliente = SemCliente
     THEN LimpaCliente(encerrando) /\ Retorna(r, FALSE)
     ELSE /\ encerrando' = cliente.id
          /\ Segue(r, "fechando")
          /\ UNCHANGED <<cliente, conectando, conectado, aplicada>>
  /\ UNCHANGED <<cenario, bd, arquivo, pronta, saude, atualizando, fila,
                 processo, aceitas, resta>>

Fechado(r) ==
  /\ Em(r, "fechando")
  /\ LimpaCliente(encerrando)
  /\ Retorna(r, FALSE)
  /\ UNCHANGED <<cenario, bd, arquivo, pronta, saude, atualizando, fila,
                 processo, aceitas, resta>>

-----------------------------------------------------------------------------
(* disconnect *)

AposDesligar(r) ==
  CASE ped[r].op = "DESCONECTAR" -> "libera"
    [] ped[r].op = "RESTAURAR" -> "recarrega"
    [] OTHER -> "conecta"
Desconectado(r) == Transicao(r, "DESCONECTADO", Nenhum, 0, "", AposDesligar(r), "")

Desligar(r) ==
  /\ Em(r, "desliga")
  /\ IF cliente = SemCliente
     THEN /\ conectado' = FALSE /\ aplicada' = Nenhum
          /\ Enfileira(r, Desconectado(r), ped[r])
          /\ UNCHANGED encerrando
     ELSE /\ encerrando' = cliente.id
          /\ ped' = [ped EXCEPT ![r].pc = "encerra", ![r].cli = cliente.id]
          /\ UNCHANGED <<conectado, aplicada, fila>>
  /\ UNCHANGED <<cenario, bd, arquivo, pronta, cliente, conectando, saude,
                 atualizando, processo, aceitas, resta>>

Encerrado(r) ==
  /\ Em(r, "encerra")
  /\ LimpaCliente(IF encerrando = ped[r].cli THEN 0 ELSE encerrando)
  /\ Enfileira(r, Desconectado(r), ped[r])
  /\ UNCHANGED <<cenario, bd, arquivo, pronta, saude, atualizando, processo, aceitas, resta>>

-----------------------------------------------------------------------------
(* The ends of the operations *)

Aplicou(r) == ped[r].sucesso /\ conectado /\ aplicada = bd.cfg

\* updateConfig after its reconnection: isConfigApplied, or the rollback.
ConfirmarConfig(r) ==
  /\ Em(r, "confirma")
  /\ IF Aplicou(r)
     THEN saude' = bd.cfg /\ Responde(r, "APLICADA")
     ELSE UNCHANGED saude /\ Segue(r, "desfaz")
  /\ UNCHANGED <<cenario, bd, arquivo, pronta, memoria, atualizando, fila,
                 processo, aceitas, resta>>

Restaurada(r) ==
  /\ Em(r, "restaurada")
  /\ saude' = bd.cfg
  /\ Responde(r, Relato(TRUE))
  /\ UNCHANGED <<cenario, bd, arquivo, pronta, memoria, atualizando, fila,
                 processo, aceitas, resta>>

\* The commands of an administrative operation end, published or refused;
\* each of them may be published at any time while pc is "publica".
Publicar(r) ==
  /\ Em(r, "publica")
  /\ Responde(r, IF conectado /\ cliente # SemCliente THEN "PUBLICADA" ELSE "ERRO")
  /\ UNCHANGED <<cenario, bd, arquivo, pronta, memoria, saude, atualizando,
                 fila, processo, aceitas, resta>>

\* BackupService.restore: one protected transaction, then the running client.
RestaurarBackup(r) ==
  /\ Em(r, "restaura")
  /\ \/ /\ Livre
        /\ bd' = [Gravada(DoBackup) EXCEPT !.verif = FALSE, !.falha = FALSE]
        /\ Segue(r, "desliga")
     \/ ~Livre /\ UNCHANGED bd /\ Responde(r, "OCUPADA")
  /\ UNCHANGED <<cenario, arquivo, pronta, memoria, saude, atualizando, fila,
                 processo, aceitas, resta>>

Recarregar(r) ==
  /\ Em(r, "recarrega")
  /\ saude' = bd.cfg
  /\ Termina(r)
  /\ UNCHANGED <<cenario, bd, arquivo, pronta, memoria, atualizando, fila,
                 processo, aceitas, resta>>

-----------------------------------------------------------------------------
(* The environment *)

\* The link of the established client drops, and mqtt.js brings it back after
\* 5 s (reconnectPeriod): longer than the writes in the queue take, and than
\* the failure of a connect whose subscriptions the drop has cut.
Cair ==
  /\ cliente.vivo /\ Atual(cliente.id) /\ resta.eventos > 0
  /\ cliente' = [cliente EXCEPT !.vivo = FALSE]
  /\ conectado' = FALSE
  /\ fila' = Append(fila, DeEvento("DESCONECTADO", ""))
  /\ Gasta
  /\ UNCHANGED <<cenario, bd, arquivo, pronta, encerrando, conectando, aplicada,
                 saude, atualizando, ped, processo, aceitas>>

Voltar ==
  /\ cliente # SemCliente /\ ~cliente.vivo /\ Atual(cliente.id)
  /\ fila = <<>> /\ ~conectando
  /\ \/ /\ cliente' = [cliente EXCEPT !.vivo = TRUE]
        /\ conectado' = TRUE
        /\ aceitas' = Aceita(cliente.cred)
        /\ fila' = <<DeEvento("RECONECTANDO", ""), DeEvento("CONECTADO", "VERIFICADA")>>
        /\ UNCHANGED resta
     \/ /\ conectado' = FALSE
        /\ resta.eventos > 0 /\ Gasta
        /\ fila' = <<DeEvento("RECONECTANDO", ""), DeEvento("FALHA", "RECUSADA")>>
        /\ UNCHANGED <<cliente, aceitas>>
  /\ UNCHANGED <<cenario, bd, arquivo, pronta, encerrando, conectando, aplicada,
                 saude, atualizando, ped, processo>>

Vencer ==
  /\ LeaseVigente /\ resta.eventos > 0
  /\ bd' = [bd EXCEPT !.vigente = FALSE]
  /\ ped' = [ped EXCEPT ![bd.token].perdeu = TRUE]
  /\ Gasta
  /\ UNCHANGED <<cenario, arquivo, pronta, memoria, saude, atualizando, fila,
                 processo, aceitas>>

\* The claim of a startup refuses while the lease is in force; its
\* pre-check, read earlier from memory, is not a condition here.
PartidaLivre == ~LeaseVigente
Partida ==
  /\ ~processo /\ PartidaLivre /\ resta.eventos > 0
  /\ processo' = TRUE
  /\ Gasta
  /\ UNCHANGED <<cenario, bd, arquivo, pronta, memoria, saude, atualizando, fila,
                 ped, aceitas>>

FimDoProcesso ==
  /\ processo /\ processo' = FALSE
  /\ UNCHANGED <<cenario, bd, arquivo, pronta, memoria, saude, atualizando, fila,
                 ped, aceitas, resta>>

\* The API dies and boots: the credentials are inspected anew, then connect.
Reiniciar ==
  /\ resta.eventos > 0
  /\ bd' = [bd EXCEPT !.verif = FALSE, !.falha = arquivo = Nenhum]
  /\ pronta' = FALSE
  /\ cliente' = SemCliente /\ encerrando' = 0
  /\ conectando' = FALSE /\ conectado' = FALSE /\ aplicada' = Nenhum
  /\ saude' = bd.cfg /\ atualizando' = Nenhum /\ fila' = <<>>
  /\ ped' = [r \in Todos |-> IF r = Inicio THEN Conectando
                ELSE IF ped[r].pc \in {"fora", "fim"} THEN ped[r]
                ELSE [Parado EXCEPT !.op = ped[r].op, !.pc = "fim", !.perdeu = TRUE]]
  /\ Gasta
  /\ UNCHANGED <<cenario, arquivo, processo, aceitas>>

Encerrou == (\A r \in Todos : Em(r, "fim")) /\ UNCHANGED vars

Passo(r) ==
  \/ Reservar(r) \/ Liberar(r) \/ Provar(r) \/ Renovar(r) \/ GravarConfig(r)
  \/ Desfazer(r) \/ GravarArquivo(r) \/ MarcarCredencial(r) \/ Conectar(r)
  \/ Ler(r) \/ Abrir(r) \/ Aceito(r) \/ Assinar(r) \/ Falhar(r) \/ Firmar(r)
  \/ Fechar(r) \/ Fechado(r) \/ Desligar(r) \/ Encerrado(r)
  \/ ConfirmarConfig(r) \/ Restaurada(r) \/ Publicar(r) \/ RestaurarBackup(r)
  \/ Recarregar(r)

Next ==
  \/ \E r \in Pedidos, op \in Operacoes : Pedir(r, op)
  \/ \E r \in Todos : Passo(r)
  \/ Executar \/ Cair \/ Voltar \/ Vencer \/ Partida \/ FimDoProcesso
  \/ Reiniciar \/ Encerrou

Spec == Init /\ [][Next]_vars

-----------------------------------------------------------------------------
(* Properties *)

Pcs == {"fora", "reserva", "libera", "prova", "renova", "grava", "desfaz",
        "arquivo", "marca", "fila", "conecta", "le", "abre", "espera", "assina",
        "falha", "firma", "fecha", "fechando", "desliga", "encerra", "confirma",
        "restaurada", "publica", "restaura", "recarrega", "fim"}
Status == {"DESCONECTADO", "RECONECTANDO", "CONECTADO", "FALHA"}

\* Every variable keeps its type; the queue holds at most what the waiters
\* and the events of the bounds can put in it.
TypeOK ==
  /\ bd \in [cfg : Configs, status : Status, verif : BOOLEAN, falha : BOOLEAN,
             token : Pedidos \cup {Nenhum}, vigente : BOOLEAN]
  /\ bd.vigente => bd.token # Nenhum
  /\ bd.verif => ~bd.falha
  /\ arquivo \in {CredAntiga, CredNova, Nenhum} /\ pronta \in BOOLEAN
  /\ cliente.cfg \in Configs \cup {Nenhum} /\ cliente.vivo \in BOOLEAN
  /\ encerrando \in 0..(resta.id - 1) /\ cliente.id \in 0..(resta.id - 1)
  /\ {conectando, conectado, processo} \subseteq BOOLEAN
  /\ aplicada \in Configs \cup {Nenhum} /\ saude \in Configs
  /\ atualizando \in Pedidos \cup {Nenhum}
  /\ \A r \in Todos : ped[r].pc \in Pcs

Arrendada(op) == op \notin {"TESTAR", "RESTAURAR", Nenhum}
Dentro(r) ==
  /\ Arrendada(ped[r].op) /\ ped[r].pc \notin {"fora", "reserva", "fim"}
  /\ ped[r].resp # "OCUPADA"

\* Only operations that take the lease were asked for, and none lost it.
Serializado ==
  \A r \in Pedidos : ped[r].op \notin {"TESTAR", "RESTAURAR"} /\ ~ped[r].perdeu

\* The broker did accept the credentials of the file whenever the row or the
\* memory of the API calls them verified, whichever client, old or new,
\* reported the connection (markCredentialsVerified does not say of which).
VerifiedWasAccepted == bd.verif \/ pronta => arquivo \in aceitas

\* No process is in operation while an operation that claimed the lease (an
\* update, a connection request, an administrative command) is within it, unless
\* the operation outlived its lease, which a command never renews: a lease in
\* force is claimed by nobody else and erased by nobody else.
LeaseSparesProcess ==
  \A r \in Pedidos : Dentro(r) /\ ~ped[r].perdeu => ~processo

\* When nothing is under way, the state of the connection in the row and in
\* memory is that of the client: connected while its link is up, not
\* connected when there is none.  Two connects that overlap break it, so it
\* is claimed of the operations the lease serialises.
Quieto == fila = <<>> /\ \A r \in Todos : ped[r].pc \in {"fora", "fim", "libera"}
QuietStatusAgrees ==
  Quieto /\ Serializado =>
    /\ cliente.vivo => conectado /\ bd.status = "CONECTADO" /\ aplicada = cliente.cfg
    /\ cliente = SemCliente => ~conectado /\ bd.status # "CONECTADO"

Responder(r, resp) == ped[r].resp # resp /\ ped'[r].resp = resp

\* An update that answers that the candidate was applied leaves the client
\* running the candidate, the row holding it and the health monitor using it.
UpdateConfirmed ==
  [][\A r \in Pedidos : Serializado /\ Responder(r, "APLICADA") =>
       /\ bd'.cfg = Nova /\ saude' = Nova
       /\ cliente'.cfg = Nova /\ cliente'.cred = arquivo']_vars

\* An update that answers it was refused, lost its lease or was rolled back
\* leaves in the row the configuration it found there; only an answer that
\* the rollback is incomplete may leave the candidate.
FailedUpdateKeepsConfig ==
  [][\A r \in Pedidos :
       /\ ped[r].op = "CONFIG" /\ \A q \in Pedidos : ped[q].op # "RESTAURAR"
       /\ \E resp \in {"RECUSADA", "PERDIDA", "DESFEITA"} : Responder(r, resp)
       => bd'.cfg = ped'[r].anterior]_vars

\* Not checked: it does not hold. Without the condition, a connect that
\* fails after a disconnect closes the client of the connect that followed.
UpdateConfirmedAlways ==
  [][\A r \in Pedidos : Responder(r, "APLICADA") => cliente'.cfg = Nova]_vars
\* Not checked: it does not hold. A process may start between the transaction
\* that restores a backup and the disconnection of the client in use.
RestoreBeforeStart ==
  [][\A r \in Pedidos : ped[r].op = "RESTAURAR" /\ ped[r].pc = "desliga"
       => ~(~processo /\ processo')]_vars
=============================================================================
