--------------------------- MODULE CommandLedger ---------------------------
(***************************************************************************)
(* The durable MQTT command ledger (table comandosmqtt), the in-memory ACK *)
(* handler of the API, the calls of publishAndAwaitAck that use both, and  *)
(* the ESP32's command deduplication.  One correlation id is one command;  *)
(* a retry reuses the id.                                                  *)
(*                                                                         *)
(* Every await of the code is a boundary between two actions.  The API     *)
(* dispatches incoming messages without waiting for the previous one       *)
(* (`void this.handleIncomingMessage`), so ACKs are persisted in any       *)
(* order.  Time appears as two facts only: a row is `vencido` when its     *)
(* timeoutMs has passed since atualizado_em, and a pending wait may time   *)
(* out.                                                                    *)
(***************************************************************************)
EXTENDS Naturals, FiniteSets

CONSTANTS Ids,                   \* correlation ids
          Callers,               \* concurrent calls of publishAndAwaitAck
          NoId,                  \* the id of an idle caller
          MaxRecentAcks,         \* maxRecentAcks of CommandAckHandler
          RecentCommandCount,    \* RECENT_COMMAND_COUNT of the firmware
          MaxTentativas,         \* bound: attempts and publications count up to it
          Falhas,                \* the failures that may happen
          MaxFalhas,             \* bound: how many of them happen in all
          FinalAcks              \* the final answers the ESP32 may give

ASSUME LedgerAssumption ==
    /\ NoId \notin Ids
    /\ IsFiniteSet(Ids)
    /\ MaxRecentAcks \in Nat \ {0}
    /\ RecentCommandCount \in Nat \ {0}
    /\ MaxTentativas \in Nat \ {0}
    /\ Falhas \subseteq {"queda", "restart", "reboot", "perda"}
    /\ MaxFalhas \in Nat
    /\ FinalAcks \subseteq {"EXECUTADO", "RECUSADO", "ERRO"}

AckStatus == {"RECEBIDO", "EXECUTADO", "RECUSADO", "ERRO"}
NoAck == "nenhum"
Status == AckStatus \cup {"AUSENTE", "PENDENTE", "PUBLICADO", "TIMEOUT"}
Active == {"PENDENTE", "PUBLICADO", "RECEBIDO"}
Outcome == {"pendente", "EXECUTADO", "RECUSADO", "ERRO", "TIMEOUT"}

VARIABLES
    comandosmqtt,  \* [Ids -> the durable row]
    latestAcks,    \* [Ids -> the ACK the API remembers in memory]
    pendingAcks,   \* ids with a pending promise
    call,          \* [Callers -> one call of publishAndAwaitAck]
    comandos,      \* ids of command messages in flight to the ESP32
    acks,          \* <<id, status>> messages in flight to the API
    emHandler,     \* ACKs persisted by recordAck, not yet remembered
    ackCache,      \* [Ids -> final ACK cached by the firmware]
    falhas,        \* failures so far
    execucoes,     \* history: executions of each id since the last boot (0..2)
    executados,    \* history: ids the ESP32 ever executed
    publicacoes    \* history: publications of each id

apiVars == <<latestAcks, pendingAcks, call, emHandler>>
netVars == <<comandos, acks>>
espVars == <<ackCache, execucoes, executados>>
vars == <<comandosmqtt, apiVars, netVars, espVars, falhas, publicacoes>>

Row == [status : Status, ack : BOOLEAN, tentativas : 0..MaxTentativas,
        vencido : BOOLEAN, lido : SUBSET Callers]
Call == [pc : {"livre", "ler", "criar", "reivindicar", "registrar",
               "publicar", "puback", "sem_puback", "marcar", "aguardar", "falhar"},
         id : Ids \cup {NoId}, publica : BOOLEAN, restaurado : AckStatus \cup {NoAck},
         promessa : Outcome, sucesso : BOOLEAN]

IdleCall == [pc |-> "livre", id |-> NoId, publica |-> FALSE,
             restaurado |-> NoAck, promessa |-> "pendente", sucesso |-> FALSE]

Init ==
    /\ comandosmqtt = [i \in Ids |-> [status |-> "AUSENTE", ack |-> FALSE,
                         tentativas |-> 0, vencido |-> FALSE, lido |-> {}]]
    /\ latestAcks = [i \in Ids |-> NoAck]
    /\ pendingAcks = {}
    /\ call = [c \in Callers |-> IdleCall]
    /\ comandos = {}
    /\ acks = {}
    /\ emHandler = {}
    /\ ackCache = [i \in Ids |-> NoAck]
    /\ falhas = 0
    /\ execucoes = [i \in Ids |-> 0]
    /\ executados = {}
    /\ publicacoes = [i \in Ids |-> 0]

----------------------------------------------------------------------------
(* Helpers *)

\* A write of the row moves atualizado_em: the row is young again and no
\* reader's snapshot matches it any more.
WriteRow(i, row) ==
    comandosmqtt' = [comandosmqtt EXCEPT ![i] = [row EXCEPT !.vencido = FALSE, !.lido = {}]]

\* An insertion-ordered cache of at most max entries.  Insertion order is
\* abstracted: any other entry may be the oldest.
Remember(cache, i, s, max) ==
    LET grown == [cache EXCEPT ![i] = s]
        kept == {o \in Ids : grown[o] # NoAck}
    IN  IF Cardinality(kept) <= max THEN {grown}
        ELSE {[grown EXCEPT ![o] = NoAck] : o \in kept \ {i}}

\* The call shares the pending promise of id i.
Waits(k, i) ==
    /\ k.id = i /\ k.promessa = "pendente"
    /\ k.pc \in {"publicar", "puback", "sem_puback", "marcar", "aguardar"}

\* The promise of id i settles: every call that shares it sees the outcome.
SettledOwnerOnly(calls, i, outcome) ==
    [c \in Callers |-> IF Waits(calls[c], i) /\ calls[c].publica
                       THEN [calls[c] EXCEPT !.promessa = outcome] ELSE calls[c]]
Settled(calls, i, outcome) ==
    [c \in Callers |-> IF Waits(calls[c], i)
                       THEN [calls[c] EXCEPT !.promessa = outcome] ELSE calls[c]]

\* clearPending.
WithoutPending(i) == pendingAcks \ {i}

\* A final ACK settles a promise: only EXECUTADO resolves it, the rest reject it.
OutcomeAnyFinal(s) == "EXECUTADO"
OutcomeOf(s) == s

\* recordAck writes the row of the ACK's id whatever its status was.
RecordAck(i, s) ==
    WriteRow(i, [comandosmqtt[i] EXCEPT !.status = s, !.ack = TRUE])

\* markFailure closes a row that is not final yet.
MarkFailure(i, s) ==
    IF comandosmqtt[i].status \in Active
    THEN WriteRow(i, [comandosmqtt[i] EXCEPT !.status = s])
    ELSE UNCHANGED comandosmqtt

\* toAckRecord: the ACK a row still carries.
ToAckRecordUnchecked(row) == IF row.ack THEN row.status ELSE NoAck
ToAckRecord(row) == IF row.ack /\ row.status \in AckStatus THEN row.status ELSE NoAck

\* updateMany of prepare finds the status and atualizado_em that c has read.
ClaimWithoutCas(c, row) == TRUE
ClaimHolds(c, row) == c \in row.lido

\* Who opens the promise publishes if its attempt is its own (shouldPublish of
\* prepare) and no ACK is remembered (shouldPublish of waitForFinalAck).
PublishesUnowned(c, cached) == cached = NoAck
ShouldPublish(c, cached) == call[c].publica /\ cached = NoAck

\* findCachedAck of the firmware.
FindNoAck(i) == NoAck
FindCachedAck(i) == ackCache[i]

\* Counters stop at the bound MaxTentativas.
Count(n) == IF n < MaxTentativas THEN n + 1 ELSE n

Fail(f) == f \in Falhas /\ falhas < MaxFalhas /\ falhas' = falhas + 1

----------------------------------------------------------------------------
(* publishAndAwaitAck, one call *)

\* prepare reads the row and decides: create it, reuse its ACK, wait for the
\* attempt under way, or try to claim a new attempt.
Prepare(c, i) ==
    LET row == comandosmqtt[i]
        restored == ToAckRecord(row)
        live == row.status \in Active /\ ~row.vencido
        read == [IdleCall EXCEPT !.id = i, !.restaurado = restored]
    IN  /\ \/ /\ row.status = "AUSENTE"
              /\ call' = [call EXCEPT ![c] = [read EXCEPT !.pc = "criar"]]
              /\ UNCHANGED comandosmqtt
           \/ /\ row.status # "AUSENTE"
              /\ restored \notin {NoAck, "RECEBIDO"} \/ live
              /\ call' = [call EXCEPT ![c] = [read EXCEPT !.pc = "registrar"]]
              /\ UNCHANGED comandosmqtt
           \/ /\ row.status # "AUSENTE"
              /\ restored \in {NoAck, "RECEBIDO"} /\ ~live
              /\ call' = [call EXCEPT ![c] = [read EXCEPT !.pc = "reivindicar"]]
              /\ comandosmqtt' = [comandosmqtt EXCEPT ![i].lido = @ \cup {c}]
        /\ UNCHANGED <<latestAcks, pendingAcks, emHandler, netVars, espVars,
                       falhas, publicacoes>>

\* A caller issues a command, or retries one, under id i.
Issue(c, i) == call[c].pc = "livre" /\ Prepare(c, i)

\* After a unique conflict prepare starts over.
PrepareAgain(c) == call[c].pc = "ler" /\ Prepare(c, call[c].id)

\* prepare creates the row; a unique conflict sends it back to the read.
PrepareCreate(c) ==
    LET i == call[c].id IN
    /\ call[c].pc = "criar"
    /\ IF comandosmqtt[i].status = "AUSENTE"
       THEN /\ WriteRow(i, [comandosmqtt[i] EXCEPT !.status = "PENDENTE", !.tentativas = 1])
            /\ call' = [call EXCEPT ![c].pc = "registrar", ![c].publica = TRUE]
       ELSE /\ call' = [call EXCEPT ![c].pc = "ler"]
            /\ UNCHANGED comandosmqtt
    /\ UNCHANGED <<latestAcks, pendingAcks, emHandler, netVars, espVars, falhas, publicacoes>>

\* prepare claims a new attempt, by compare-and-set on what it has read.
PrepareClaim(c) ==
    LET i == call[c].id
        row == comandosmqtt[i]
    IN  /\ call[c].pc = "reivindicar"
        /\ IF ClaimHolds(c, row)
           THEN /\ WriteRow(i, [row EXCEPT !.status = "PENDENTE", !.ack = FALSE,
                                           !.tentativas = Count(@)])
                /\ call' = [call EXCEPT ![c].pc = "registrar", ![c].publica = TRUE,
                                        ![c].restaurado = NoAck]
           ELSE /\ call' = [call EXCEPT ![c].pc = "registrar"]
                /\ UNCHANGED comandosmqtt
        /\ UNCHANGED <<latestAcks, pendingAcks, emHandler, netVars, espVars, falhas, publicacoes>>

\* restorePersistedAck and waitForFinalAck, synchronous: a remembered final
\* ACK settles the call, a pending promise is shared, otherwise a new one
\* starts.  Only the opener of a promise publishes, and only when no ACK at
\* all is remembered for the id.
Register(c) ==
    LET i == call[c].id IN
    /\ call[c].pc = "registrar"
    /\ latestAcks' \in IF call[c].restaurado = NoAck THEN {latestAcks}
                       ELSE Remember(latestAcks, i, call[c].restaurado, MaxRecentAcks)
    /\ LET cached == latestAcks'[i] IN
       \/ /\ cached \notin {NoAck, "RECEBIDO"}
          /\ call' = [call EXCEPT ![c].pc = "aguardar", ![c].promessa = OutcomeOf(cached)]
          /\ UNCHANGED pendingAcks
       \/ /\ cached \in {NoAck, "RECEBIDO"}
          /\ i \in pendingAcks
          /\ call' = [call EXCEPT ![c].pc = "aguardar"]
          /\ UNCHANGED pendingAcks
       \/ /\ cached \in {NoAck, "RECEBIDO"}
          /\ i \notin pendingAcks
          /\ pendingAcks' = pendingAcks \cup {i}
          /\ call' = [call EXCEPT ![c].pc =
                        IF ShouldPublish(c, cached) THEN "publicar" ELSE "aguardar"]
    /\ UNCHANGED <<comandosmqtt, emHandler, netVars, espVars, falhas, publicacoes>>

\* mqttClientService.publish hands the message to the client of the moment ...
Publish(c) ==
    LET i == call[c].id IN
    /\ call[c].pc = "publicar"
    /\ comandos' = comandos \cup {i}
    /\ publicacoes' = [publicacoes EXCEPT ![i] = Count(@)]
    /\ call' = [call EXCEPT ![c].pc = "puback"]
    /\ UNCHANGED <<comandosmqtt, latestAcks, pendingAcks, emHandler, acks, espVars, falhas>>

\* ... and waits, without a time limit, for the callback: the PUBACK of the broker.
PubAck(c) ==
    /\ call[c].pc = "puback"
    /\ call' = [call EXCEPT ![c].pc = "marcar"]
    /\ UNCHANGED <<comandosmqtt, latestAcks, pendingAcks, emHandler, netVars, espVars,
                   falhas, publicacoes>>

\* The client connects again and sends what has no PUBACK yet once more.
Redeliver(c) ==
    /\ call[c].pc = "sem_puback"
    /\ call' = [call EXCEPT ![c].pc = "puback"]
    /\ comandos' = comandos \cup {call[c].id}
    /\ UNCHANGED <<comandosmqtt, latestAcks, pendingAcks, emHandler, acks, espVars,
                   falhas, publicacoes>>

\* publish throws, before the message leaves or from its callback, also when a
\* client without a connection is closed: the wait is cancelled.
PublishFails(c) ==
    LET i == call[c].id IN
    /\ \/ call[c].pc \in {"publicar", "puback"} /\ Fail("queda")
       \/ call[c].pc = "sem_puback" /\ UNCHANGED falhas
    /\ IF call[c].promessa = "pendente"
       THEN /\ pendingAcks' = WithoutPending(i)
            /\ call' = [Settled(call, i, "ERRO") EXCEPT ![c].pc = "falhar", ![c].promessa = "ERRO"]
       ELSE /\ UNCHANGED pendingAcks
            /\ call' = [call EXCEPT ![c].pc = "falhar", ![c].promessa = "ERRO"]
    /\ UNCHANGED <<comandosmqtt, latestAcks, emHandler, netVars, espVars, publicacoes>>

\* markPublished, only while the row is still PENDENTE.
MarkPublished(c) ==
    LET i == call[c].id IN
    /\ call[c].pc = "marcar"
    /\ call' = [call EXCEPT ![c].pc = "aguardar"]
    /\ IF comandosmqtt[i].status = "PENDENTE"
       THEN WriteRow(i, [comandosmqtt[i] EXCEPT !.status = "PUBLICADO"])
       ELSE UNCHANGED comandosmqtt
    /\ UNCHANGED <<latestAcks, pendingAcks, emHandler, netVars, espVars, falhas, publicacoes>>

\* The awaited promise resolved: recordAck again, then return EXECUTADO.
ReturnExecuted(c) ==
    LET i == call[c].id IN
    /\ call[c].pc = "aguardar" /\ call[c].promessa = "EXECUTADO"
    /\ RecordAck(i, "EXECUTADO")
    /\ call' = [call EXCEPT ![c] = [IdleCall EXCEPT !.id = i, !.sucesso = TRUE]]
    /\ UNCHANGED <<latestAcks, pendingAcks, emHandler, netVars, espVars, falhas, publicacoes>>

\* The promise was rejected, or the publication failed: markFailure, throw.
ReturnFailure(c) ==
    LET i == call[c].id
        outcome == call[c].promessa
    IN  /\ \/ call[c].pc = "aguardar" /\ outcome \notin {"pendente", "EXECUTADO"}
           \/ call[c].pc = "falhar"
        /\ MarkFailure(i, IF outcome = "TIMEOUT" THEN "TIMEOUT" ELSE "ERRO")
        /\ call' = [call EXCEPT ![c] = IdleCall]
        /\ UNCHANGED <<latestAcks, pendingAcks, emHandler, netVars, espVars, falhas, publicacoes>>

----------------------------------------------------------------------------
(* The ACK handler of the API *)

\* handleAndPersist, up to the await of recordAck.
AckPersist(i, s) ==
    /\ <<i, s>> \in acks
    /\ RecordAck(i, s)
    /\ acks' = acks \ {<<i, s>>}
    /\ emHandler' = emHandler \cup {<<i, s>>}
    /\ UNCHANGED <<latestAcks, pendingAcks, call, comandos, espVars, falhas, publicacoes>>

\* handleAndPersist after it: rememberAck and settlePendingWait.
AckSettle(i, s) ==
    /\ <<i, s>> \in emHandler
    /\ emHandler' = emHandler \ {<<i, s>>}
    /\ latestAcks' \in Remember(latestAcks, i, s, MaxRecentAcks)
    /\ IF i \in pendingAcks /\ s # "RECEBIDO"
       THEN /\ pendingAcks' = WithoutPending(i)
            /\ call' = Settled(call, i, OutcomeOf(s))
       ELSE UNCHANGED <<pendingAcks, call>>
    /\ UNCHANGED <<comandosmqtt, netVars, espVars, falhas, publicacoes>>

\* The timer of the pending promise fires.
Timeout(i) ==
    /\ i \in pendingAcks
    /\ pendingAcks' = WithoutPending(i)
    /\ call' = Settled(call, i, "TIMEOUT")
    /\ UNCHANGED <<comandosmqtt, latestAcks, emHandler, netVars, espVars, falhas, publicacoes>>

\* timeoutMs passes after the last write of a row.
Expire(i) ==
    /\ comandosmqtt[i].status \in Active /\ ~comandosmqtt[i].vencido
    /\ comandosmqtt' = [comandosmqtt EXCEPT ![i].vencido = TRUE]
    /\ UNCHANGED <<apiVars, netVars, espVars, falhas, publicacoes>>

\* The MQTT status leaves CONECTADO: rejectAllPending.  A publication that has no
\* PUBACK keeps its call waiting, its message received by the broker or not.
Disconnected(k) == [k EXCEPT !.pc = IF @ = "puback" THEN "sem_puback" ELSE @]
Publishing == {call[c].id : c \in {d \in Callers : call[d].pc = "puback"}}

ConnectionDrops ==
    /\ pendingAcks # {} \/ Publishing # {}
    /\ Fail("queda")
    /\ pendingAcks' = {}
    /\ comandos' \in {comandos, comandos \ Publishing}
    /\ call' = [c \in Callers |-> Disconnected(IF call[c].id \in pendingAcks
                                               THEN Settled(call, call[c].id, "ERRO")[c]
                                               ELSE call[c])]
    /\ UNCHANGED <<comandosmqtt, latestAcks, emHandler, acks, espVars, publicacoes>>

\* The API process dies and starts again: its memory is gone, the table stays.
ApiRestart ==
    /\ Fail("restart")
    /\ latestAcks' = [i \in Ids |-> NoAck]
    /\ pendingAcks' = {}
    /\ emHandler' = {}
    /\ call' = [c \in Callers |-> IdleCall]
    /\ comandosmqtt' = [i \in Ids |-> [comandosmqtt[i] EXCEPT !.lido = {}]]
    /\ UNCHANGED <<netVars, espVars, publicacoes>>

----------------------------------------------------------------------------
(* The network and the ESP32 *)

LoseCommand(i) ==
    /\ i \in comandos
    /\ Fail("perda")
    /\ comandos' = comandos \ {i}
    /\ UNCHANGED <<comandosmqtt, apiVars, acks, espVars, publicacoes>>

LoseAck(m) ==
    /\ m \in acks
    /\ Fail("perda")
    /\ acks' = acks \ {m}
    /\ UNCHANGED <<comandosmqtt, apiVars, comandos, espVars, publicacoes>>

\* handleCommand of the firmware: a cached id is answered again from the
\* cache; a new one is acknowledged as RECEBIDO, handled, and its final ACK
\* cached and published.  A QoS 1 command may be delivered again.
EspHandle(i) ==
    /\ i \in comandos
    /\ comandos' \in {comandos, comandos \ {i}}
    /\ \/ /\ FindCachedAck(i) # NoAck
          /\ acks' = acks \cup {<<i, FindCachedAck(i)>>}
          /\ UNCHANGED espVars
       \/ /\ FindCachedAck(i) = NoAck
          /\ \E s \in FinalAcks :
                /\ acks' = acks \cup {<<i, "RECEBIDO">>, <<i, s>>}
                /\ ackCache' \in Remember(ackCache, i, s, RecentCommandCount)
                /\ IF s = "EXECUTADO"
                   THEN /\ execucoes' = [execucoes EXCEPT ![i] = IF @ < 2 THEN @ + 1 ELSE 2]
                        /\ executados' = executados \cup {i}
                   ELSE UNCHANGED <<execucoes, executados>>
    /\ UNCHANGED <<comandosmqtt, apiVars, falhas, publicacoes>>

\* A reboot clears the command cache.
EspReboot ==
    /\ Fail("reboot")
    /\ ackCache' = [i \in Ids |-> NoAck]
    /\ execucoes' = [i \in Ids |-> 0]
    /\ UNCHANGED <<comandosmqtt, apiVars, netVars, executados, publicacoes>>

----------------------------------------------------------------------------
CallStep(c) ==
    \/ PrepareAgain(c) \/ PrepareCreate(c) \/ PrepareClaim(c) \/ Register(c)
    \/ Publish(c) \/ PubAck(c) \/ MarkPublished(c) \/ ReturnExecuted(c) \/ ReturnFailure(c)

Next ==
    \/ \E c \in Callers : \/ CallStep(c) \/ Redeliver(c) \/ PublishFails(c)
                          \/ \E i \in Ids : Issue(c, i)
    \/ \E i \in Ids, s \in AckStatus : AckPersist(i, s) \/ AckSettle(i, s)
    \/ \E i \in Ids : Timeout(i) \/ Expire(i) \/ LoseCommand(i) \/ EspHandle(i)
    \/ \E m \in acks : LoseAck(m)
    \/ ConnectionDrops \/ ApiRestart \/ EspReboot

Spec == Init /\ [][Next]_vars

\* What runs by itself: the steps of a started call, the PUBACK of a broker that
\* is connected among them, and the timers.  Nobody has to issue a call, the ESP32
\* need not answer, and a connection that was lost need not come back.
Fairness ==
    /\ \A c \in Callers : WF_vars(CallStep(c))
    /\ \A i \in Ids : WF_vars(Timeout(i))

FairSpec == Spec /\ Fairness

----------------------------------------------------------------------------
(* Properties *)

\* Type correctness of every variable.
TypeOK ==
    /\ comandosmqtt \in [Ids -> Row]
    /\ latestAcks \in [Ids -> AckStatus \cup {NoAck}]
    /\ pendingAcks \subseteq Ids
    /\ call \in [Callers -> Call]
    /\ comandos \subseteq Ids
    /\ acks \subseteq Ids \X AckStatus
    /\ emHandler \subseteq Ids \X AckStatus
    /\ ackCache \in [Ids -> AckStatus \cup {NoAck}]
    /\ falhas \in 0..MaxFalhas
    /\ execucoes \in [Ids -> 0..2]
    /\ executados \subseteq Ids
    /\ publicacoes \in [Ids -> 0..MaxTentativas]

\* A call of publishAndAwaitAck returns success only for a command the ESP32
\* has executed, whatever was retried, reordered, restored or restarted.
SuccessMeansExecuted ==
    \A c \in Callers : call[c].sucesso => call[c].id \in executados

\* The broker never sees more publications of a command than the attempts
\* its row counts: two concurrent calls cannot both own an attempt.
PublicationsWithinAttempts ==
    \A i \in Ids : publicacoes[i] <= comandosmqtt[i].tentativas

\* While the firmware still caches the ids in use, no retry and no duplicate
\* delivery makes it execute a command twice between two boots.
AtMostOncePerBoot ==
    RecentCommandCount >= Cardinality(Ids) => \A i \in Ids : execucoes[i] <= 1

\* prepare opens no new attempt on a row that carries a final ACK, even when
\* that ACK arrives between its read and its write.
NoAttemptOverFinalAck ==
    [][\A i \in Ids : ToAckRecord(comandosmqtt[i]) \notin {NoAck, "RECEBIDO"}
                         => comandosmqtt'[i].tentativas = comandosmqtt[i].tentativas]_vars

\* The whole protocol implements the channel its callers rely on, while the
\* firmware's cache holds the ids in use.
Canal(k) == [id |-> k.id, estado |-> IF k.pc # "livre" THEN "em_curso"
                                     ELSE IF k.sucesso THEN "executado" ELSE "livre"]
Channel == INSTANCE CommandChannel
             WITH chamada <- [c \in Callers |-> Canal(call[c])], vezes <- execucoes
ImplementsChannel == Channel!Spec

\* Every call ends, with its ACK, a rejection or the timeout, whether the ESP32
\* answers or not, or waits for ever for the PUBACK of a publication whose
\* connection was lost: publish sets no limit to that wait, and the timeout of the
\* ACK, which fires meanwhile, does not end it (publishAndAwaitAck).
CallEnds ==
    \A c \in Callers : []<>(call[c].pc = "livre") \/ <>[](call[c].pc = "sem_puback")
=============================================================================
