------------------------- MODULE CommandLedgerProofs -------------------------
(***************************************************************************)
(* Proofs about the command ledger, for any ids, callers and caches: its   *)
(* types, that a successful call means an executed command, that no        *)
(* attempt is opened over a final ACK, and that a firmware cache that      *)
(* holds every id in use makes each command run at most once per boot.     *)
(***************************************************************************)
EXTENDS CommandLedger, FiniteSetTheorems, TLAPS

Acks == AckStatus \cup {NoAck}

\* The assumption on the constants, in the form the steps below use.
LEMMA Constants ==
    /\ NoId \notin Ids /\ IsFiniteSet(Ids)
    /\ MaxTentativas \in Nat \ {0} /\ MaxFalhas \in Nat
    /\ FinalAcks \subseteq {"EXECUTADO", "RECUSADO", "ERRO"}
  BY LedgerAssumption

----------------------------------------------------------------------------
(* Lemmas about the helpers *)

\* rememberAck and the firmware's cache: the new entry is there, any other one
\* is kept or evicted.
LEMMA RememberLemma ==
    ASSUME NEW cache \in [Ids -> Acks], NEW i \in Ids, NEW s \in AckStatus, NEW max,
           NEW r \in Remember(cache, i, s, max)
    PROVE  /\ r \in [Ids -> Acks]
           /\ r[i] = s
           /\ \A j \in Ids \ {i} : r[j] \in {cache[j], NoAck}
  <1> DEFINE grown == [cache EXCEPT ![i] = s]
             kept == {o \in Ids : grown[o] # NoAck}
  <1>1. grown \in [Ids -> Acks] /\ grown[i] = s
        /\ \A j \in Ids \ {i} : grown[j] = cache[j]
    BY DEF Acks
  <1>2. r = grown \/ \E o \in kept \ {i} : r = [grown EXCEPT ![o] = NoAck]
    BY DEF Remember
  <1>3. CASE r = grown
    BY <1>1, <1>3
  <1>4. ASSUME NEW o \in kept \ {i}, r = [grown EXCEPT ![o] = NoAck]
        PROVE  /\ r \in [Ids -> Acks] /\ r[i] = s
               /\ \A j \in Ids \ {i} : r[j] \in {cache[j], NoAck}
    <2> HIDE DEF grown
    <2>1. o \in Ids /\ o # i
      BY <1>4
    <2> QED
      BY <1>1, <1>4, <2>1 DEF Acks
  <1> QED
    BY <1>2, <1>3, <1>4

\* A cache that has room for every id evicts nothing.
LEMMA NoEviction ==
    ASSUME NEW cache \in [Ids -> Acks], NEW i \in Ids, NEW s \in AckStatus,
           NEW max \in Nat, Cardinality(Ids) <= max,
           NEW r \in Remember(cache, i, s, max)
    PROVE  r = [cache EXCEPT ![i] = s]
  <1> DEFINE kept == {o \in Ids : [cache EXCEPT ![i] = s][o] # NoAck}
  <1>1. IsFiniteSet(Ids) /\ kept \subseteq Ids
    BY Constants
  <1>2. Cardinality(kept) <= Cardinality(Ids) /\ Cardinality(Ids) \in Nat
        /\ Cardinality(kept) \in Nat
    BY <1>1, FS_Subset, FS_CardinalityType
  <1>3. Cardinality(kept) <= max
    <2> HIDE DEF kept
    <2> QED BY <1>2
  <1> QED
    BY <1>3 DEF Remember

\* A settled promise changes the promise of its waiters and nothing else.
LEMMA SettledLemma ==
    ASSUME NEW calls \in [Callers -> Call], NEW i \in Ids, NEW outcome \in Outcome
    PROVE  /\ Settled(calls, i, outcome) \in [Callers -> Call]
           /\ \A c \in Callers :
                 LET k == Settled(calls, i, outcome)[c] IN
                 /\ k.pc = calls[c].pc /\ k.id = calls[c].id
                 /\ k.restaurado = calls[c].restaurado /\ k.sucesso = calls[c].sucesso
                 /\ k.publica = calls[c].publica
                 /\ k.promessa = calls[c].promessa \/ (k.promessa = outcome /\ k.id = i)
  <1>1. ASSUME NEW c \in Callers
        PROVE  LET k == Settled(calls, i, outcome)[c] IN
               /\ k \in Call
               /\ k.pc = calls[c].pc /\ k.id = calls[c].id
               /\ k.restaurado = calls[c].restaurado /\ k.sucesso = calls[c].sucesso
               /\ k.publica = calls[c].publica
               /\ k.promessa = calls[c].promessa \/ (k.promessa = outcome /\ k.id = i)
    <2>1. calls[c] \in Call
      OBVIOUS
    <2>2. CASE Waits(calls[c], i)
      <3>1. Settled(calls, i, outcome)[c] = [calls[c] EXCEPT !.promessa = outcome]
        BY <2>2 DEF Settled
      <3> QED
        BY <2>1, <2>2, <3>1 DEF Call, Waits
    <2>3. CASE ~Waits(calls[c], i)
      <3>1. Settled(calls, i, outcome)[c] = calls[c]
        BY <2>3 DEF Settled
      <3> QED
        BY <2>1, <3>1
    <2> QED
      BY <2>2, <2>3
  <1>2. Settled(calls, i, outcome) = [c \in Callers |-> Settled(calls, i, outcome)[c]]
    BY DEF Settled
  <1> QED
    BY <1>1, <1>2

----------------------------------------------------------------------------
(* Type correctness *)

\* A call under way has an id of its own.
CallHasId == \A c \in Callers : call[c].pc # "livre" => call[c].id \in Ids

Typed == TypeOK /\ CallHasId

\* Rows stay rows when prepare, recordAck and markFailure write them.
LEMMA RowLemma ==
    ASSUME TypeOK, NEW i \in Ids
    PROVE  /\ comandosmqtt[i] \in Row
           /\ \A row \in Row : WriteRow(i, row) => comandosmqtt' \in [Ids -> Row]
           /\ \A s \in AckStatus : RecordAck(i, s) => comandosmqtt' \in [Ids -> Row]
           /\ \A s \in {"ERRO", "TIMEOUT"} : MarkFailure(i, s) => comandosmqtt' \in [Ids -> Row]
           /\ ToAckRecord(comandosmqtt[i]) \in Acks
           /\ Count(comandosmqtt[i].tentativas) \in 0..MaxTentativas
           /\ Count(publicacoes[i]) \in 0..MaxTentativas
  <1>1. comandosmqtt[i] \in Row /\ publicacoes[i] \in 0..MaxTentativas
    BY DEF TypeOK
  <1>2. \A row \in Row : [row EXCEPT !.vencido = FALSE, !.lido = {}] \in Row
    BY DEF Row
  <1>3. ASSUME NEW row \in Row, WriteRow(i, row)
        PROVE  comandosmqtt' \in [Ids -> Row]
    BY <1>2, <1>3 DEF WriteRow, TypeOK
  <1>4. \A s \in AckStatus : [comandosmqtt[i] EXCEPT !.status = s, !.ack = TRUE] \in Row
    BY <1>1 DEF Row, Status
  <1>5. \A s \in {"ERRO", "TIMEOUT"} : [comandosmqtt[i] EXCEPT !.status = s] \in Row
    BY <1>1 DEF Row, Status, AckStatus
  <1>6. \A s \in {"ERRO", "TIMEOUT"} : MarkFailure(i, s) => comandosmqtt' \in [Ids -> Row]
    <2> SUFFICES ASSUME NEW s \in {"ERRO", "TIMEOUT"}, MarkFailure(i, s)
                 PROVE  comandosmqtt' \in [Ids -> Row]
      OBVIOUS
    <2>1. CASE comandosmqtt' = comandosmqtt
      BY <2>1 DEF TypeOK
    <2>2. CASE WriteRow(i, [comandosmqtt[i] EXCEPT !.status = s])
      BY <2>2, <1>3, <1>5
    <2> QED
      BY <2>1, <2>2 DEF MarkFailure
  <1>7. ToAckRecord(comandosmqtt[i]) \in Acks
    BY DEF ToAckRecord, Acks
  <1>8. \A n \in 0..MaxTentativas : Count(n) \in 0..MaxTentativas
    BY Constants DEF Count
  <1>9. comandosmqtt[i].tentativas \in 0..MaxTentativas
    BY <1>1 DEF Row
  <1> QED
    BY <1>1, <1>3, <1>4, <1>6, <1>7, <1>8, <1>9 DEF RecordAck

\* The initial state is typed.
LEMMA InitTyped == Init => Typed
  <1> SUFFICES ASSUME Init PROVE Typed
    OBVIOUS
  <1> USE Constants DEF Init
  <1>1. comandosmqtt \in [Ids -> Row]
    BY DEF Row, Status
  <1>2. IdleCall \in Call
    BY DEF IdleCall, Call, Outcome
  <1>3. call \in [Callers -> Call] /\ CallHasId
    BY <1>2 DEF CallHasId, IdleCall
  <1> QED
    BY <1>1, <1>3 DEF Typed, TypeOK

\* Prepare starts a call or starts it over.
LEMMA PrepareTyped ==
    ASSUME Typed, NEW c \in Callers, NEW i \in Ids, Prepare(c, i)
    PROVE  Typed'
  <1> DEFINE read == [IdleCall EXCEPT !.id = i, !.restaurado = ToAckRecord(comandosmqtt[i])]
  <1>1. comandosmqtt[i] \in Row /\ ToAckRecord(comandosmqtt[i]) \in Acks
    BY RowLemma DEF Typed
  <1>2. \A p \in {"criar", "registrar", "reivindicar"} :
           [read EXCEPT !.pc = p] \in Call /\ [read EXCEPT !.pc = p].id \in Ids
    BY <1>1 DEF IdleCall, Call, Outcome, Acks
  <1>3. \E p \in {"criar", "registrar", "reivindicar"} :
           call' = [call EXCEPT ![c] = [read EXCEPT !.pc = p]]
    BY DEF Prepare
  <1>4. call' \in [Callers -> Call] /\ CallHasId'
    <2> HIDE DEF read
    <2> QED BY <1>2, <1>3 DEF Typed, TypeOK, CallHasId
  <1>5. [comandosmqtt[i] EXCEPT !.lido = @ \cup {c}] \in Row
    BY <1>1 DEF Row
  <1>6. comandosmqtt' \in [Ids -> Row]
    BY <1>5 DEF Prepare, Typed, TypeOK
  <1> QED
    BY <1>4, <1>6 DEF Prepare, Typed, TypeOK, netVars, espVars

\* The steps of a call under way.
LEMMA CallStepTyped ==
    ASSUME Typed, NEW c \in Callers, CallStep(c)
    PROVE  Typed'
  <1> DEFINE i == call[c].id
  <1> USE DEF Typed
  <1>1. call[c] \in Call /\ call \in [Callers -> Call]
    BY DEF TypeOK
  <1>2. ASSUME PrepareAgain(c) PROVE Typed'
    BY <1>1, <1>2, PrepareTyped DEF PrepareAgain, CallHasId
  <1>3. ASSUME PrepareCreate(c) PROVE Typed'
    <2>1. i \in Ids /\ comandosmqtt[i] \in Row
      BY <1>3, RowLemma DEF PrepareCreate, CallHasId
    <2>2. [comandosmqtt[i] EXCEPT !.status = "PENDENTE", !.tentativas = 1] \in Row
      <3>1. 1 \in 0..MaxTentativas
        BY Constants
      <3> QED
        BY <2>1, <3>1 DEF Row, Status
    <2>3. comandosmqtt' \in [Ids -> Row]
      BY <1>3, <2>1, <2>2, RowLemma DEF PrepareCreate, TypeOK
    <2>4. call' \in [Callers -> Call] /\ CallHasId'
      BY <1>1, <1>3, <2>1 DEF PrepareCreate, Call, CallHasId
    <2> QED
      BY <1>3, <2>3, <2>4 DEF PrepareCreate, TypeOK, netVars, espVars
  <1>4. ASSUME PrepareClaim(c) PROVE Typed'
    <2>1. i \in Ids /\ comandosmqtt[i] \in Row /\ Count(comandosmqtt[i].tentativas) \in 0..MaxTentativas
      BY <1>4, RowLemma DEF PrepareClaim, CallHasId
    <2>2. [comandosmqtt[i] EXCEPT !.status = "PENDENTE", !.ack = FALSE,
                                  !.tentativas = Count(@)] \in Row
      BY <2>1 DEF Row, Status
    <2>3. comandosmqtt' \in [Ids -> Row]
      BY <1>4, <2>1, <2>2, RowLemma DEF PrepareClaim, TypeOK
    <2>4. call' \in [Callers -> Call] /\ CallHasId'
      BY <1>1, <1>4, <2>1 DEF PrepareClaim, Call, CallHasId
    <2> QED
      BY <1>4, <2>3, <2>4 DEF PrepareClaim, TypeOK, netVars, espVars
  <1>5. ASSUME Register(c) PROVE Typed'
    <2>1. i \in Ids /\ call[c].restaurado \in Acks
      BY <1>1, <1>5 DEF Register, CallHasId, Call, Acks
    <2>2. latestAcks' \in [Ids -> Acks]
      <3>1. CASE latestAcks' = latestAcks
        BY <3>1 DEF TypeOK, Acks
      <3>2. CASE call[c].restaurado # NoAck
                 /\ latestAcks' \in Remember(latestAcks, i, call[c].restaurado, MaxRecentAcks)
        <4>1. latestAcks \in [Ids -> Acks] /\ call[c].restaurado \in AckStatus
          BY <2>1, <3>2 DEF TypeOK, Acks
        <4> QED
          BY <2>1, <3>2, <4>1, RememberLemma
      <3> QED
        BY <1>5, <3>1, <3>2 DEF Register
    <2>3. latestAcks'[i] \in Acks
      BY <2>1, <2>2
    <2>4. pendingAcks' \subseteq Ids
      BY <1>5, <2>1 DEF Register, TypeOK
    <2>5. call' \in [Callers -> Call] /\ CallHasId'
      BY <1>1, <1>5, <2>1, <2>3 DEF Register, ShouldPublish, Call, CallHasId, OutcomeOf, Outcome, Acks, AckStatus
    <2> QED
      BY <1>5, <2>2, <2>4, <2>5 DEF Register, TypeOK, netVars, espVars, Acks
  <1>6. ASSUME Publish(c) PROVE Typed'
    <2>1. i \in Ids /\ Count(publicacoes[i]) \in 0..MaxTentativas
      BY <1>6, RowLemma DEF Publish, CallHasId
    <2>2. call' \in [Callers -> Call] /\ CallHasId'
      BY <1>1, <1>6, <2>1 DEF Publish, Call, CallHasId
    <2>3. publicacoes' \in [Ids -> 0..MaxTentativas] /\ comandos' \subseteq Ids
      BY <1>6, <2>1 DEF Publish, TypeOK
    <2> QED
      BY <1>6, <2>2, <2>3 DEF Publish, TypeOK, netVars, espVars
  <1>10. ASSUME PubAck(c) PROVE Typed'
    BY <1>1, <1>10 DEF PubAck, Call, CallHasId, TypeOK, netVars, espVars
  <1>7. ASSUME MarkPublished(c) PROVE Typed'
    <2>1. i \in Ids /\ comandosmqtt[i] \in Row
      BY <1>7, RowLemma DEF MarkPublished, CallHasId
    <2>2. [comandosmqtt[i] EXCEPT !.status = "PUBLICADO"] \in Row
      BY <2>1 DEF Row, Status
    <2>3. comandosmqtt' \in [Ids -> Row]
      BY <1>7, <2>1, <2>2, RowLemma DEF MarkPublished, TypeOK
    <2>4. call' \in [Callers -> Call] /\ CallHasId'
      BY <1>1, <1>7, <2>1 DEF MarkPublished, Call, CallHasId
    <2> QED
      BY <1>7, <2>3, <2>4 DEF MarkPublished, TypeOK, netVars, espVars
  <1>8. ASSUME ReturnExecuted(c) PROVE Typed'
    <2>1. i \in Ids
      BY <1>8 DEF ReturnExecuted, CallHasId
    <2>2. comandosmqtt' \in [Ids -> Row]
      BY <1>8, <2>1, RowLemma DEF ReturnExecuted, AckStatus
    <2>3. [IdleCall EXCEPT !.id = i, !.sucesso = TRUE] \in Call
      BY <2>1 DEF IdleCall, Call, Outcome
    <2>4. call' \in [Callers -> Call] /\ CallHasId'
      BY <1>1, <1>8, <2>3 DEF ReturnExecuted, CallHasId, IdleCall
    <2> QED
      BY <1>8, <2>2, <2>4 DEF ReturnExecuted, TypeOK, netVars, espVars
  <1>9. ASSUME ReturnFailure(c) PROVE Typed'
    <2>1. i \in Ids
      BY <1>9 DEF ReturnFailure, CallHasId
    <2>2. comandosmqtt' \in [Ids -> Row]
      BY <1>9, <2>1, RowLemma DEF ReturnFailure
    <2>3. IdleCall \in Call
      BY DEF IdleCall, Call, Outcome
    <2>4. call' \in [Callers -> Call] /\ CallHasId'
      BY <1>1, <1>9, <2>3 DEF ReturnFailure, CallHasId, IdleCall
    <2> QED
      BY <1>9, <2>2, <2>4 DEF ReturnFailure, TypeOK, netVars, espVars
  <1> QED
    BY <1>2, <1>3, <1>4, <1>5, <1>6, <1>7, <1>8, <1>9, <1>10 DEF CallStep

\* A lost connection rejects the promises and leaves publications without PUBACK.
LEMMA DropLemma ==
    ASSUME TypeOK, ConnectionDrops, NEW c \in Callers
    PROVE  LET k == call'[c] IN
           /\ k \in Call
           /\ k.id = call[c].id /\ k.restaurado = call[c].restaurado
           /\ k.sucesso = call[c].sucesso /\ k.publica = call[c].publica
           /\ k.pc = call[c].pc \/ (call[c].pc = "puback" /\ k.pc = "sem_puback")
           /\ k.promessa \in {call[c].promessa, "ERRO"}
  <1>1. call \in [Callers -> Call] /\ "ERRO" \in Outcome
    BY DEF TypeOK, Outcome
  <1>2. PICK k : k = IF call[c].id \in pendingAcks THEN Settled(call, call[c].id, "ERRO")[c]
                                                  ELSE call[c]
    OBVIOUS
  <1>3. call'[c] = Disconnected(k)
    BY <1>2 DEF ConnectionDrops
  <1>4. /\ k \in Call
        /\ k.pc = call[c].pc /\ k.id = call[c].id
        /\ k.restaurado = call[c].restaurado /\ k.sucesso = call[c].sucesso
        /\ k.publica = call[c].publica /\ k.promessa \in {call[c].promessa, "ERRO"}
    <2>1. CASE call[c].id \in pendingAcks
      <3>1. call[c].id \in Ids /\ k = Settled(call, call[c].id, "ERRO")[c]
        BY <1>2, <2>1 DEF TypeOK
      <3> QED
        BY <1>1, <3>1, SettledLemma
    <2>2. CASE call[c].id \notin pendingAcks
      BY <1>1, <1>2, <2>2
    <2> QED
      BY <2>1, <2>2
  <1> QED
    BY <1>3, <1>4 DEF Disconnected, Call

\* Failures of the publication, the ACK handler, the timers and a restart.
LEMMA HandlerTyped ==
    ASSUME Typed,
           \/ \E c \in Callers : PublishFails(c) \/ Redeliver(c)
           \/ \E i \in Ids, s \in AckStatus : AckPersist(i, s) \/ AckSettle(i, s)
           \/ \E i \in Ids : Timeout(i) \/ Expire(i)
           \/ ConnectionDrops \/ ApiRestart
    PROVE  Typed'
  <1> USE DEF Typed
  <1>1. call \in [Callers -> Call] /\ falhas \in 0..MaxFalhas /\ MaxFalhas \in Nat
    BY Constants DEF TypeOK
  <1>2. \A f : Fail(f) => falhas' \in 0..MaxFalhas
    BY <1>1 DEF Fail
  <1>3. ASSUME NEW c \in Callers, PublishFails(c) PROVE Typed'
    <2> DEFINE i == call[c].id
    <2>1. i \in Ids
      BY <1>3 DEF PublishFails, CallHasId
    <2>2. "ERRO" \in Outcome
      BY DEF Outcome
    <2>3. Settled(call, i, "ERRO") \in [Callers -> Call]
          /\ \A d \in Callers : Settled(call, i, "ERRO")[d].pc = call[d].pc
                                /\ Settled(call, i, "ERRO")[d].id = call[d].id
      BY <1>1, <2>1, <2>2, SettledLemma
    <2>4. \E calls \in [Callers -> Call] :
             /\ call' = [calls EXCEPT ![c].pc = "falhar", ![c].promessa = "ERRO"]
             /\ \A d \in Callers : calls[d].pc = call[d].pc /\ calls[d].id = call[d].id
      BY <1>1, <1>3, <2>3 DEF PublishFails
    <2>5. call' \in [Callers -> Call] /\ CallHasId'
      <3> PICK calls \in [Callers -> Call] :
             /\ call' = [calls EXCEPT ![c].pc = "falhar", ![c].promessa = "ERRO"]
             /\ \A d \in Callers : calls[d].pc = call[d].pc /\ calls[d].id = call[d].id
        BY <2>4
      <3>1. call' = [calls EXCEPT ![c] = [calls[c] EXCEPT !.pc = "falhar", !.promessa = "ERRO"]]
        BY <2>4
      <3>2. [calls[c] EXCEPT !.pc = "falhar", !.promessa = "ERRO"] \in Call
        BY <2>2 DEF Call
      <3>3. [calls[c] EXCEPT !.pc = "falhar", !.promessa = "ERRO"].id \in Ids
        BY <2>1 DEF Call
      <3>4. call' \in [Callers -> Call]
        BY <3>1, <3>2
      <3>5. ASSUME NEW d \in Callers, d # c
            PROVE  call'[d].pc = call[d].pc /\ call'[d].id = call[d].id
        BY <3>1, <3>5
      <3>6. call'[c].id \in Ids
        BY <3>1, <3>3
      <3> QED
        BY <3>4, <3>5, <3>6 DEF CallHasId
    <2>6. pendingAcks' \subseteq Ids /\ falhas' \in 0..MaxFalhas
      BY <1>1, <1>2, <1>3, <2>1 DEF PublishFails, TypeOK, WithoutPending
    <2> QED
      BY <1>3, <2>5, <2>6 DEF PublishFails, TypeOK, netVars, espVars
  <1>10. ASSUME NEW c \in Callers, Redeliver(c) PROVE Typed'
    BY <1>1, <1>10 DEF Redeliver, Call, CallHasId, TypeOK, espVars
  <1>4. ASSUME NEW i \in Ids, NEW s \in AckStatus, AckPersist(i, s) PROVE Typed'
    <2>1. comandosmqtt' \in [Ids -> Row]
      BY <1>4, RowLemma DEF AckPersist
    <2> QED
      BY <1>4, <2>1 DEF AckPersist, TypeOK, CallHasId, espVars
  <1>5. ASSUME NEW i \in Ids, NEW s \in AckStatus, AckSettle(i, s) PROVE Typed'
    <2>1. latestAcks' \in [Ids -> Acks]
      <3>1. latestAcks \in [Ids -> Acks]
        BY DEF TypeOK, Acks
      <3> QED
        BY <1>5, <3>1, RememberLemma DEF AckSettle
    <2>2. OutcomeOf(s) \in Outcome \/ s = "RECEBIDO"
      BY DEF OutcomeOf, Outcome, AckStatus
    <2>3. call' \in [Callers -> Call] /\ CallHasId'
      <3>1. CASE call' = call
        BY <1>1, <3>1 DEF CallHasId
      <3>2. CASE s # "RECEBIDO" /\ call' = Settled(call, i, OutcomeOf(s))
        BY <1>1, <2>2, <3>2, SettledLemma DEF CallHasId
      <3> QED
        BY <1>5, <3>1, <3>2 DEF AckSettle
    <2>4. pendingAcks' \subseteq Ids /\ emHandler' \subseteq Ids \X AckStatus
      BY <1>5 DEF AckSettle, TypeOK, WithoutPending
    <2> QED
      BY <1>5, <2>1, <2>3, <2>4 DEF AckSettle, TypeOK, netVars, espVars, Acks
  <1>6. ASSUME NEW i \in Ids, Timeout(i) PROVE Typed'
    <2>1. "TIMEOUT" \in Outcome
      BY DEF Outcome
    <2>2. call' \in [Callers -> Call] /\ CallHasId'
      BY <1>1, <1>6, <2>1, SettledLemma DEF Timeout, CallHasId
    <2> QED
      BY <1>6, <2>2 DEF Timeout, TypeOK, netVars, espVars, WithoutPending
  <1>7. ASSUME NEW i \in Ids, Expire(i) PROVE Typed'
    <2>1. comandosmqtt' \in [Ids -> Row]
      BY <1>7 DEF Expire, TypeOK, Row
    <2> QED
      BY <1>7, <2>1 DEF Expire, TypeOK, CallHasId, apiVars, netVars, espVars
  <1>8. ASSUME ConnectionDrops PROVE Typed'
    <2>1. call' \in [Callers -> Call] /\ CallHasId'
      <3>1. call' = [c \in Callers |-> call'[c]]
        BY <1>8 DEF ConnectionDrops
      <3>2. \A c \in Callers : /\ call'[c] \in Call /\ call'[c].id = call[c].id
                               /\ call'[c].pc # "livre" => call[c].pc # "livre"
        BY <1>8, DropLemma
      <3> QED
        BY <3>1, <3>2 DEF CallHasId
    <2>2. falhas' \in 0..MaxFalhas
      BY <1>2, <1>8 DEF ConnectionDrops
    <2> QED
      BY <1>8, <2>1, <2>2 DEF ConnectionDrops, TypeOK, espVars
  <1>9. ASSUME ApiRestart PROVE Typed'
    <2>1. IdleCall \in Call /\ IdleCall.pc = "livre"
      BY DEF IdleCall, Call, Outcome
    <2>2. call' \in [Callers -> Call] /\ CallHasId'
      BY <1>9, <2>1 DEF ApiRestart, CallHasId
    <2>3. comandosmqtt' \in [Ids -> Row]
      <3>1. \A i \in Ids : [comandosmqtt[i] EXCEPT !.lido = {}] \in Row
        BY DEF TypeOK, Row
      <3> QED
        BY <1>9, <3>1 DEF ApiRestart
    <2>4. falhas' \in 0..MaxFalhas
      BY <1>2, <1>9 DEF ApiRestart
    <2> QED
      BY <1>9, <2>2, <2>3, <2>4 DEF ApiRestart, TypeOK, netVars, espVars
  <1> QED
    BY <1>3, <1>4, <1>5, <1>6, <1>7, <1>8, <1>9, <1>10

\* The network and the ESP32.
LEMMA OutsideTyped ==
    ASSUME Typed,
           \/ \E i \in Ids : LoseCommand(i) \/ EspHandle(i)
           \/ \E m \in acks : LoseAck(m)
           \/ EspReboot
    PROVE  Typed'
  <1> USE DEF Typed
  <1>1. \A f : Fail(f) => falhas' \in 0..MaxFalhas
    BY Constants DEF Fail, TypeOK
  <1>2. ASSUME NEW i \in Ids, LoseCommand(i) PROVE Typed'
    BY <1>1, <1>2 DEF LoseCommand, TypeOK, CallHasId, apiVars, espVars
  <1>3. ASSUME NEW m \in acks, LoseAck(m) PROVE Typed'
    BY <1>1, <1>3 DEF LoseAck, TypeOK, CallHasId, apiVars, espVars
  <1>4. ASSUME EspReboot PROVE Typed'
    BY <1>1, <1>4 DEF EspReboot, TypeOK, CallHasId, apiVars, netVars
  <1>5. ASSUME NEW i \in Ids, EspHandle(i) PROVE Typed'
    <2>1. ackCache \in [Ids -> Acks] /\ FinalAcks \subseteq AckStatus
      BY Constants DEF TypeOK, Acks, AckStatus
    <2>2. CASE FindCachedAck(i) # NoAck
      <3>1. acks' \subseteq Ids \X AckStatus /\ comandos' \subseteq Ids
        BY <1>5, <2>1, <2>2 DEF EspHandle, TypeOK, FindCachedAck, Acks
      <3> QED
        BY <1>5, <2>2, <3>1 DEF EspHandle, TypeOK, CallHasId, apiVars, espVars
    <2>3. CASE FindCachedAck(i) = NoAck
      <3>1. PICK s \in FinalAcks :
               /\ acks' = acks \cup {<<i, "RECEBIDO">>, <<i, s>>}
               /\ ackCache' \in Remember(ackCache, i, s, RecentCommandCount)
               /\ IF s = "EXECUTADO"
                  THEN /\ execucoes' = [execucoes EXCEPT ![i] = IF @ < 2 THEN @ + 1 ELSE 2]
                       /\ executados' = executados \cup {i}
                  ELSE UNCHANGED <<execucoes, executados>>
        BY <1>5, <2>3 DEF EspHandle
      <3>2. s \in AckStatus /\ "RECEBIDO" \in AckStatus
        BY <2>1 DEF AckStatus
      <3>3. ackCache' \in [Ids -> Acks]
        BY <2>1, <3>1, <3>2, RememberLemma
      <3>4. acks' \subseteq Ids \X AckStatus /\ comandos' \subseteq Ids
        BY <1>5, <3>1, <3>2 DEF EspHandle, TypeOK
      <3>5. execucoes' \in [Ids -> 0..2] /\ executados' \subseteq Ids
        BY <3>1 DEF TypeOK
      <3> QED
        BY <1>5, <3>3, <3>4, <3>5 DEF EspHandle, TypeOK, CallHasId, apiVars, Acks
    <2> QED
      BY <2>2, <2>3
  <1> QED
    BY <1>2, <1>3, <1>4, <1>5

\* Type correctness of the ledger, for every ids, callers and cache sizes.
THEOREM LedgerTyping == Spec => []TypeOK
  <1>1. Typed /\ [Next]_vars => Typed'
    <2> SUFFICES ASSUME Typed, [Next]_vars PROVE Typed'
      OBVIOUS
    <2>1. CASE UNCHANGED vars
      BY <2>1 DEF Typed, TypeOK, CallHasId, vars, apiVars, netVars, espVars
    <2>2. CASE \E c \in Callers : CallStep(c)
      BY <2>2, CallStepTyped
    <2>3. CASE \E c \in Callers, i \in Ids : Issue(c, i)
      BY <2>3, PrepareTyped DEF Issue
    <2>4. CASE \/ \E c \in Callers : PublishFails(c) \/ Redeliver(c)
               \/ \E i \in Ids, s \in AckStatus : AckPersist(i, s) \/ AckSettle(i, s)
               \/ \E i \in Ids : Timeout(i) \/ Expire(i)
               \/ ConnectionDrops \/ ApiRestart
      BY <2>4, HandlerTyped
    <2>5. CASE \/ \E i \in Ids : LoseCommand(i) \/ EspHandle(i)
               \/ \E m \in acks : LoseAck(m)
               \/ EspReboot
      BY <2>5, OutsideTyped
    <2> QED
      BY <2>1, <2>2, <2>3, <2>4, <2>5 DEF Next
  <1>2. Typed => TypeOK
    BY DEF Typed
  <1> QED
    BY <1>1, <1>2, InitTyped, PTL DEF Spec

----------------------------------------------------------------------------
(* Success means executed *)

\* Whatever says EXECUTADO of an id, in the table, in memory, in flight, in
\* the firmware's cache or in a call, says it of a command that was executed.
CallEvidence(k) ==
    k.restaurado = "EXECUTADO" \/ k.promessa = "EXECUTADO" \/ k.sucesso => k.id \in executados

Evidence ==
    /\ \A i \in Ids : \/ comandosmqtt[i].status = "EXECUTADO"
                      \/ latestAcks[i] = "EXECUTADO"
                      \/ <<i, "EXECUTADO">> \in acks \cup emHandler
                      \/ ackCache[i] = "EXECUTADO"
                      => i \in executados
    /\ \A c \in Callers : CallEvidence(call[c])

\* What a write of a row can make of its status.
LEMMA RowEvidence ==
    ASSUME TypeOK, Evidence, NEW i \in Ids, NEW row \in Row, WriteRow(i, row),
           row.status = "EXECUTADO" => i \in executados,
           executados' = executados
    PROVE  \A j \in Ids : comandosmqtt'[j].status = "EXECUTADO" => j \in executados'
  <1>1. [row EXCEPT !.vencido = FALSE, !.lido = {}].status = row.status
    BY DEF Row
  <1>2. comandosmqtt'[i].status = row.status
    BY <1>1 DEF WriteRow, TypeOK
  <1>3. \A j \in Ids \ {i} : comandosmqtt'[j] = comandosmqtt[j]
    BY DEF WriteRow, TypeOK
  <1> QED
    BY <1>2, <1>3 DEF Evidence

\* A cache entry added by Remember.
LEMMA CacheEvidence ==
    ASSUME Evidence, NEW cache \in [Ids -> Acks], NEW i \in Ids, NEW s \in AckStatus,
           NEW max, NEW r \in Remember(cache, i, s, max),
           NEW done, executados \subseteq done,
           \A j \in Ids : cache[j] = "EXECUTADO" => j \in executados,
           s = "EXECUTADO" => i \in done
    PROVE  \A j \in Ids : r[j] = "EXECUTADO" => j \in done
  <1>1. r[i] = s /\ \A j \in Ids \ {i} : r[j] \in {cache[j], NoAck}
    BY RememberLemma
  <1> QED
    BY <1>1 DEF NoAck

\* A settled promise carries evidence when its outcome does.
LEMMA SettledEvidence ==
    ASSUME TypeOK, Evidence, NEW i \in Ids, NEW outcome \in Outcome,
           outcome = "EXECUTADO" => i \in executados,
           executados' = executados
    PROVE  \A c \in Callers :
              LET k == Settled(call, i, outcome)[c] IN
              k.restaurado = "EXECUTADO" \/ k.promessa = "EXECUTADO" \/ k.sucesso
              => k.id \in executados'
  <1>1. call \in [Callers -> Call]
    BY DEF TypeOK
  <1> QED
    BY <1>1, SettledLemma DEF Evidence, CallEvidence

\* A read of the row carries only the evidence of the row.
LEMMA PrepareEvidence ==
    ASSUME Typed, Evidence, NEW c \in Callers, NEW i \in Ids, Prepare(c, i)
    PROVE  Evidence'
  <1> DEFINE read == [IdleCall EXCEPT !.id = i, !.restaurado = ToAckRecord(comandosmqtt[i])]
  <1>1. ToAckRecord(comandosmqtt[i]) = "EXECUTADO" => i \in executados
    BY DEF ToAckRecord, Evidence, NoAck
  <1>2. \A p \in {"criar", "registrar", "reivindicar"} : CallEvidence([read EXCEPT !.pc = p])
    BY <1>1 DEF IdleCall, CallEvidence
  <1>3. \E p \in {"criar", "registrar", "reivindicar"} :
           call' = [call EXCEPT ![c] = [read EXCEPT !.pc = p]]
    BY DEF Prepare
  <1>4. \A d \in Callers : CallEvidence(call[d])'
    <2> HIDE DEF read
    <2>1. executados' = executados
      BY DEF Prepare, espVars
    <2>2. \A d \in Callers : CallEvidence(call'[d])
      BY <1>2, <1>3 DEF Typed, TypeOK, Evidence
    <2> QED
      BY <2>1, <2>2 DEF CallEvidence
  <1>5. \A j \in Ids : comandosmqtt'[j].status = comandosmqtt[j].status
    BY DEF Prepare, Typed, TypeOK, Row
  <1> QED
    BY <1>4, <1>5 DEF Prepare, Evidence, netVars, espVars

\* Every step of a call under way keeps Evidence.
LEMMA CallStepEvidence ==
    ASSUME Typed, Evidence, NEW c \in Callers, CallStep(c)
    PROVE  Evidence'
  <1> DEFINE i == call[c].id
  <1>1. call[c] \in Call /\ call \in [Callers -> Call] /\ comandosmqtt \in [Ids -> Row]
    BY DEF Typed, TypeOK
  <1>2. ASSUME PrepareAgain(c) PROVE Evidence'
    BY <1>1, <1>2, PrepareEvidence DEF PrepareAgain, CallHasId, Typed
  <1>3. ASSUME PrepareCreate(c) PROVE Evidence'
    <2>1. i \in Ids /\ comandosmqtt[i] \in Row
      BY <1>1, <1>3 DEF PrepareCreate, CallHasId, Typed
    <2>2. \A d \in Callers : /\ call'[d].id = call[d].id /\ call'[d].promessa = call[d].promessa
                             /\ call'[d].restaurado = call[d].restaurado
                             /\ call'[d].sucesso = call[d].sucesso
      BY <1>1, <1>3 DEF PrepareCreate, Call
    <2>3. \A j \in Ids : comandosmqtt'[j].status = "EXECUTADO" => j \in executados'
      <3>1. CASE comandosmqtt' = comandosmqtt
        BY <1>3, <3>1 DEF PrepareCreate, Evidence, espVars
      <3>2. CASE WriteRow(i, [comandosmqtt[i] EXCEPT !.status = "PENDENTE", !.tentativas = 1])
        <4>1. 1 \in 0..MaxTentativas
          BY Constants
        <4>2. [comandosmqtt[i] EXCEPT !.status = "PENDENTE", !.tentativas = 1] \in Row
              /\ [comandosmqtt[i] EXCEPT !.status = "PENDENTE", !.tentativas = 1].status = "PENDENTE"
          BY <2>1, <4>1 DEF Row, Status
        <4> QED
          BY <1>3, <2>1, <3>2, <4>2, RowEvidence DEF PrepareCreate, Typed, espVars
      <3> QED
        BY <1>3, <3>1, <3>2 DEF PrepareCreate
    <2> QED
      BY <1>3, <2>2, <2>3 DEF PrepareCreate, Evidence, CallEvidence, netVars, espVars
  <1>4. ASSUME PrepareClaim(c) PROVE Evidence'
    <2>1. i \in Ids /\ comandosmqtt[i] \in Row /\ Count(comandosmqtt[i].tentativas) \in 0..MaxTentativas
      BY <1>4, RowLemma DEF PrepareClaim, CallHasId, Typed
    <2>2. \A d \in Callers : /\ call'[d].id = call[d].id /\ call'[d].promessa = call[d].promessa
                             /\ call'[d].restaurado \in {call[d].restaurado, NoAck}
                             /\ call'[d].sucesso = call[d].sucesso
      BY <1>1, <1>4 DEF PrepareClaim, Call
    <2>3. \A j \in Ids : comandosmqtt'[j].status = "EXECUTADO" => j \in executados'
      <3> DEFINE row == [comandosmqtt[i] EXCEPT !.status = "PENDENTE", !.ack = FALSE,
                                                !.tentativas = Count(@)]
      <3>1. CASE comandosmqtt' = comandosmqtt
        BY <1>4, <3>1 DEF PrepareClaim, Evidence, espVars
      <3>2. CASE WriteRow(i, row)
        <4>1. row \in Row /\ row.status = "PENDENTE"
          BY <2>1 DEF Row, Status
        <4> QED
          BY <1>4, <2>1, <3>2, <4>1, RowEvidence DEF PrepareClaim, Typed, espVars
      <3> QED
        BY <1>4, <3>1, <3>2 DEF PrepareClaim
    <2> QED
      BY <1>4, <2>2, <2>3 DEF PrepareClaim, Evidence, CallEvidence, netVars, espVars, NoAck
  <1>5. ASSUME Register(c) PROVE Evidence'
    <2>1. i \in Ids /\ call[c].restaurado \in Acks
      BY <1>1, <1>5 DEF Register, CallHasId, Typed, Call, Acks
    <2>2. \A j \in Ids : latestAcks'[j] = "EXECUTADO" => j \in executados
      <3>1. CASE latestAcks' = latestAcks
        BY <3>1 DEF Evidence
      <3>2. CASE call[c].restaurado # NoAck
                 /\ latestAcks' \in Remember(latestAcks, i, call[c].restaurado, MaxRecentAcks)
        <4>1. latestAcks \in [Ids -> Acks] /\ call[c].restaurado \in AckStatus
          BY <2>1, <3>2 DEF Typed, TypeOK, Acks
        <4>2. call[c].restaurado = "EXECUTADO" => i \in executados
          BY DEF Evidence, CallEvidence
        <4>3. \A j \in Ids : latestAcks[j] = "EXECUTADO" => j \in executados
          BY DEF Evidence
        <4> QED
          BY <2>1, <3>2, <4>1, <4>2, <4>3, CacheEvidence
      <3> QED
        BY <1>5, <3>1, <3>2 DEF Register
    <2>3. \A d \in Callers : /\ call'[d].id = call[d].id
                             /\ call'[d].restaurado = call[d].restaurado
                             /\ call'[d].sucesso = call[d].sucesso
                             /\ \/ call'[d].promessa = call[d].promessa
                                \/ d = c /\ call'[d].promessa = latestAcks'[i]
      BY <1>1, <1>5 DEF Register, Call, OutcomeOf
    <2>4. executados' = executados
      BY <1>5 DEF Register, espVars
    <2>5. \A d \in Callers : CallEvidence(call[d])'
      BY <2>1, <2>2, <2>3, <2>4 DEF Evidence, CallEvidence
    <2> QED
      BY <1>5, <2>2, <2>4, <2>5 DEF Register, Evidence, netVars, espVars
  <1>6. ASSUME Publish(c) PROVE Evidence'
    <2>1. \A d \in Callers : /\ call'[d].id = call[d].id /\ call'[d].promessa = call[d].promessa
                             /\ call'[d].restaurado = call[d].restaurado
                             /\ call'[d].sucesso = call[d].sucesso
      BY <1>1, <1>6 DEF Publish, Call
    <2> QED
      BY <1>6, <2>1 DEF Publish, Evidence, CallEvidence, espVars
  <1>10. ASSUME PubAck(c) PROVE Evidence'
    <2>1. \A d \in Callers : /\ call'[d].id = call[d].id /\ call'[d].promessa = call[d].promessa
                             /\ call'[d].restaurado = call[d].restaurado
                             /\ call'[d].sucesso = call[d].sucesso
      BY <1>1, <1>10 DEF PubAck, Call
    <2> QED
      BY <1>10, <2>1 DEF PubAck, Evidence, CallEvidence, netVars, espVars
  <1>7. ASSUME MarkPublished(c) PROVE Evidence'
    <2>1. i \in Ids /\ comandosmqtt[i] \in Row
      BY <1>1, <1>7 DEF MarkPublished, CallHasId, Typed
    <2>2. \A d \in Callers : /\ call'[d].id = call[d].id /\ call'[d].promessa = call[d].promessa
                             /\ call'[d].restaurado = call[d].restaurado
                             /\ call'[d].sucesso = call[d].sucesso
      BY <1>1, <1>7 DEF MarkPublished, Call
    <2>3. \A j \in Ids : comandosmqtt'[j].status = "EXECUTADO" => j \in executados'
      <3>1. CASE comandosmqtt' = comandosmqtt
        BY <1>7, <3>1 DEF MarkPublished, Evidence, espVars
      <3>2. CASE WriteRow(i, [comandosmqtt[i] EXCEPT !.status = "PUBLICADO"])
        <4>1. [comandosmqtt[i] EXCEPT !.status = "PUBLICADO"] \in Row
              /\ [comandosmqtt[i] EXCEPT !.status = "PUBLICADO"].status = "PUBLICADO"
          BY <2>1 DEF Row, Status
        <4> QED
          BY <1>7, <2>1, <3>2, <4>1, RowEvidence DEF MarkPublished, Typed, espVars
      <3> QED
        BY <1>7, <3>1, <3>2 DEF MarkPublished
    <2> QED
      BY <1>7, <2>2, <2>3 DEF MarkPublished, Evidence, CallEvidence, netVars, espVars
  <1>8. ASSUME ReturnExecuted(c) PROVE Evidence'
    <2>1. i \in Ids /\ comandosmqtt[i] \in Row /\ i \in executados /\ executados' = executados
      BY <1>1, <1>8 DEF ReturnExecuted, CallHasId, Typed, Evidence, CallEvidence, espVars
    <2>2. \A d \in Callers : CallEvidence(call[d])'
      <3>1. [IdleCall EXCEPT !.id = i, !.sucesso = TRUE].id = i
        BY DEF IdleCall
      <3> QED
        BY <1>1, <1>8, <2>1, <3>1 DEF ReturnExecuted, Evidence, CallEvidence
    <2>3. \A j \in Ids : comandosmqtt'[j].status = "EXECUTADO" => j \in executados'
      <3>1. [comandosmqtt[i] EXCEPT !.status = "EXECUTADO", !.ack = TRUE] \in Row
        BY <2>1 DEF Row, Status, AckStatus
      <3> QED
        BY <1>8, <2>1, <3>1, RowEvidence DEF ReturnExecuted, RecordAck, Typed
    <2> QED
      BY <1>8, <2>2, <2>3 DEF ReturnExecuted, Evidence, netVars, espVars
  <1>9. ASSUME ReturnFailure(c) PROVE Evidence'
    <2>1. i \in Ids /\ comandosmqtt[i] \in Row /\ executados' = executados
      BY <1>1, <1>9 DEF ReturnFailure, CallHasId, Typed, espVars
    <2>2. \A d \in Callers : CallEvidence(call[d])'
      <3>1. CallEvidence(IdleCall)'
        BY DEF CallEvidence, IdleCall, NoAck
      <3>2. \A d \in Callers : call'[d] = IdleCall \/ call'[d] = call[d]
        BY <1>1, <1>9 DEF ReturnFailure
      <3> QED
        BY <2>1, <3>1, <3>2 DEF Evidence, CallEvidence
    <2>3. \A j \in Ids : comandosmqtt'[j].status = "EXECUTADO" => j \in executados'
      <3>1. PICK s \in {"TIMEOUT", "ERRO"} : MarkFailure(i, s)
        BY <1>9 DEF ReturnFailure
      <3>2. CASE comandosmqtt' = comandosmqtt
        BY <2>1, <3>2 DEF Evidence
      <3>3. CASE WriteRow(i, [comandosmqtt[i] EXCEPT !.status = s])
        <4>1. [comandosmqtt[i] EXCEPT !.status = s] \in Row
              /\ [comandosmqtt[i] EXCEPT !.status = s].status = s
          BY <2>1 DEF Row, Status, AckStatus
        <4> QED
          BY <2>1, <3>3, <4>1, RowEvidence DEF Typed
      <3> QED
        BY <3>1, <3>2, <3>3 DEF MarkFailure
    <2> QED
      BY <1>9, <2>2, <2>3 DEF ReturnFailure, Evidence, netVars, espVars
  <1> QED
    BY <1>2, <1>3, <1>4, <1>5, <1>6, <1>7, <1>8, <1>9, <1>10 DEF CallStep

\* So do the ACK handler, the timers, a failed publication and a restart.
LEMMA HandlerEvidence ==
    ASSUME Typed, Evidence,
           \/ \E c \in Callers : PublishFails(c) \/ Redeliver(c)
           \/ \E i \in Ids, s \in AckStatus : AckPersist(i, s) \/ AckSettle(i, s)
           \/ \E i \in Ids : Timeout(i) \/ Expire(i)
           \/ ConnectionDrops \/ ApiRestart
    PROVE  Evidence'
  <1>1. call \in [Callers -> Call] /\ comandosmqtt \in [Ids -> Row]
    BY DEF Typed, TypeOK
  <1>2. ASSUME NEW c \in Callers, PublishFails(c) PROVE Evidence'
    <2> DEFINE i == call[c].id
    <2>1. i \in Ids /\ executados' = executados
      BY <1>2 DEF PublishFails, CallHasId, Typed, espVars
    <2>2. \E calls \in [Callers -> Call] :
             /\ call' = [calls EXCEPT ![c].pc = "falhar", ![c].promessa = "ERRO"]
             /\ \A d \in Callers : CallEvidence(calls[d])
      <3>1. "ERRO" \in Outcome
        BY DEF Outcome
      <3>2. \A d \in Callers : CallEvidence(Settled(call, i, "ERRO")[d])
        BY <2>1, <3>1, SettledEvidence DEF Typed, CallEvidence
      <3>3. Settled(call, i, "ERRO") \in [Callers -> Call]
        BY <1>1, <2>1, <3>1, SettledLemma
      <3> QED
        BY <1>1, <1>2, <3>2, <3>3 DEF PublishFails, Evidence
    <2>3. \A d \in Callers : CallEvidence(call'[d])
      <3> PICK calls \in [Callers -> Call] :
             /\ call' = [calls EXCEPT ![c].pc = "falhar", ![c].promessa = "ERRO"]
             /\ \A d \in Callers : CallEvidence(calls[d])
        BY <2>2
      <3>1. call' = [calls EXCEPT ![c] = [calls[c] EXCEPT !.pc = "falhar", !.promessa = "ERRO"]]
        OBVIOUS
      <3>2. CallEvidence([calls[c] EXCEPT !.pc = "falhar", !.promessa = "ERRO"])
        BY DEF CallEvidence, Call
      <3> QED
        BY <3>1, <3>2
    <2> QED
      BY <1>2, <2>1, <2>3 DEF PublishFails, Evidence, CallEvidence, netVars, espVars
  <1>9. ASSUME NEW c \in Callers, Redeliver(c) PROVE Evidence'
    <2>1. \A d \in Callers : /\ call'[d].id = call[d].id /\ call'[d].promessa = call[d].promessa
                             /\ call'[d].restaurado = call[d].restaurado
                             /\ call'[d].sucesso = call[d].sucesso
      BY <1>1, <1>9 DEF Redeliver, Call
    <2> QED
      BY <1>9, <2>1 DEF Redeliver, Evidence, CallEvidence, espVars
  <1>3. ASSUME NEW i \in Ids, NEW s \in AckStatus, AckPersist(i, s) PROVE Evidence'
    <2>1. executados' = executados /\ (s = "EXECUTADO" => i \in executados)
      BY <1>3 DEF AckPersist, Evidence, espVars
    <2>2. [comandosmqtt[i] EXCEPT !.status = s, !.ack = TRUE] \in Row
          /\ [comandosmqtt[i] EXCEPT !.status = s, !.ack = TRUE].status = s
      BY <1>1 DEF Row, Status
    <2>3. \A j \in Ids : comandosmqtt'[j].status = "EXECUTADO" => j \in executados'
      BY <1>3, <2>1, <2>2, RowEvidence DEF AckPersist, RecordAck, Typed
    <2>4. acks' \cup emHandler' \subseteq acks \cup emHandler
      BY <1>3 DEF AckPersist
    <2> QED
      BY <1>3, <2>1, <2>3, <2>4 DEF AckPersist, Evidence, CallEvidence, espVars
  <1>4. ASSUME NEW i \in Ids, NEW s \in AckStatus, AckSettle(i, s) PROVE Evidence'
    <2>1. executados' = executados /\ (s = "EXECUTADO" => i \in executados)
      BY <1>4 DEF AckSettle, Evidence, espVars
    <2>2. \A j \in Ids : latestAcks'[j] = "EXECUTADO" => j \in executados
      <3>1. latestAcks \in [Ids -> Acks] /\ \A j \in Ids : latestAcks[j] = "EXECUTADO" => j \in executados
        BY DEF Typed, TypeOK, Acks, Evidence
      <3> QED
        BY <1>4, <2>1, <3>1, CacheEvidence DEF AckSettle
    <2>3. \A d \in Callers : CallEvidence(call[d])'
      <3>1. CASE call' = call
        BY <2>1, <3>1 DEF Evidence, CallEvidence
      <3>2. CASE s # "RECEBIDO" /\ call' = Settled(call, i, OutcomeOf(s))
        <4>1. OutcomeOf(s) \in Outcome /\ (OutcomeOf(s) = "EXECUTADO" => i \in executados)
          BY <2>1, <3>2 DEF OutcomeOf, Outcome, AckStatus
        <4> QED
          BY <2>1, <3>2, <4>1, SettledEvidence DEF CallEvidence, Typed
      <3> QED
        BY <1>4, <3>1, <3>2 DEF AckSettle
    <2>4. acks' \cup emHandler' \subseteq acks \cup emHandler
      BY <1>4 DEF AckSettle, netVars
    <2> QED
      BY <1>4, <2>1, <2>2, <2>3, <2>4 DEF AckSettle, Evidence, espVars
  <1>5. ASSUME NEW i \in Ids, Timeout(i) PROVE Evidence'
    <2>1. executados' = executados /\ "TIMEOUT" \in Outcome
      BY <1>5 DEF Timeout, espVars, Outcome
    <2>2. \A d \in Callers : CallEvidence(call[d])'
      BY <1>5, <2>1, SettledEvidence DEF Timeout, CallEvidence, Typed
    <2> QED
      BY <1>5, <2>1, <2>2 DEF Timeout, Evidence, netVars, espVars
  <1>6. ASSUME NEW i \in Ids, Expire(i) PROVE Evidence'
    <2>1. \A j \in Ids : comandosmqtt'[j].status = comandosmqtt[j].status
      BY <1>1, <1>6 DEF Expire, Row
    <2> QED
      BY <1>6, <2>1 DEF Expire, Evidence, CallEvidence, apiVars, netVars, espVars
  <1>7. ASSUME ConnectionDrops PROVE Evidence'
    <2>1. executados' = executados
      BY <1>7 DEF ConnectionDrops, espVars
    <2>2. \A d \in Callers : /\ call'[d].id = call[d].id /\ call'[d].restaurado = call[d].restaurado
                             /\ call'[d].sucesso = call[d].sucesso
                             /\ call'[d].promessa \in {call[d].promessa, "ERRO"}
      BY <1>7, DropLemma DEF Typed
    <2>3. \A d \in Callers : CallEvidence(call[d])'
      BY <2>1, <2>2 DEF Evidence, CallEvidence
    <2> QED
      BY <1>7, <2>1, <2>3 DEF ConnectionDrops, Evidence, espVars
  <1>8. ASSUME ApiRestart PROVE Evidence'
    <2>1. \A j \in Ids : comandosmqtt'[j].status = comandosmqtt[j].status
      BY <1>1, <1>8 DEF ApiRestart, Row
    <2>2. \A d \in Callers : CallEvidence(call[d])'
      BY <1>8 DEF ApiRestart, CallEvidence, IdleCall, NoAck
    <2> QED
      BY <1>8, <2>1, <2>2 DEF ApiRestart, Evidence, netVars, espVars, NoAck
  <1> QED
    BY <1>2, <1>3, <1>4, <1>5, <1>6, <1>7, <1>8, <1>9

\* So do the network and the ESP32, which is where evidence is made.
LEMMA OutsideEvidence ==
    ASSUME Typed, Evidence,
           \/ \E i \in Ids : LoseCommand(i) \/ EspHandle(i)
           \/ \E m \in acks : LoseAck(m)
           \/ EspReboot
    PROVE  Evidence'
  <1>1. ASSUME NEW i \in Ids, LoseCommand(i) PROVE Evidence'
    BY <1>1 DEF LoseCommand, Evidence, CallEvidence, apiVars, espVars
  <1>2. ASSUME NEW m \in acks, LoseAck(m) PROVE Evidence'
    BY <1>2 DEF LoseAck, Evidence, CallEvidence, apiVars, espVars
  <1>3. ASSUME EspReboot PROVE Evidence'
    BY <1>3 DEF EspReboot, Evidence, CallEvidence, apiVars, netVars, NoAck
  <1>4. ASSUME NEW i \in Ids, EspHandle(i) PROVE Evidence'
    <2>1. ackCache \in [Ids -> Acks]
      BY DEF Typed, TypeOK, Acks
    <2>2. CASE FindCachedAck(i) # NoAck
      BY <1>4, <2>2 DEF EspHandle, FindCachedAck, Evidence, CallEvidence, apiVars, espVars
    <2>3. CASE FindCachedAck(i) = NoAck
      <3>1. PICK s \in FinalAcks :
               /\ acks' = acks \cup {<<i, "RECEBIDO">>, <<i, s>>}
               /\ ackCache' \in Remember(ackCache, i, s, RecentCommandCount)
               /\ IF s = "EXECUTADO"
                  THEN /\ execucoes' = [execucoes EXCEPT ![i] = IF @ < 2 THEN @ + 1 ELSE 2]
                       /\ executados' = executados \cup {i}
                  ELSE UNCHANGED <<execucoes, executados>>
        BY <1>4, <2>3 DEF EspHandle
      <3>2. executados \subseteq executados' /\ (s = "EXECUTADO" => i \in executados')
        BY <3>1
      <3>3. s \in AckStatus
        BY Constants DEF AckStatus
      <3>4. \A j \in Ids : ackCache[j] = "EXECUTADO" => j \in executados
        BY DEF Evidence
      <3>5. \A j \in Ids : ackCache'[j] = "EXECUTADO" => j \in executados'
        BY <2>1, <3>1, <3>2, <3>3, <3>4, CacheEvidence
      <3>6. \A j \in Ids : <<j, "EXECUTADO">> \in acks' \cup emHandler' => j \in executados'
        BY <1>4, <3>1, <3>2 DEF EspHandle, Evidence, apiVars
      <3> QED
        BY <1>4, <3>2, <3>5, <3>6 DEF EspHandle, Evidence, CallEvidence, apiVars
    <2> QED
      BY <2>2, <2>3
  <1> QED
    BY <1>1, <1>2, <1>3, <1>4

\* Typed and Evidence together are inductive.
LEMMA EvidenceStep == Typed /\ Evidence /\ [Next]_vars => Typed' /\ Evidence'
  <1> SUFFICES ASSUME Typed, Evidence, [Next]_vars PROVE Typed' /\ Evidence'
    OBVIOUS
  <1>1. CASE UNCHANGED vars
    BY <1>1 DEF Typed, TypeOK, CallHasId, Evidence, CallEvidence, vars, apiVars, netVars, espVars
  <1>2. CASE \E c \in Callers : CallStep(c)
    BY <1>2, CallStepTyped, CallStepEvidence
  <1>3. CASE \E c \in Callers, i \in Ids : Issue(c, i)
    BY <1>3, PrepareTyped, PrepareEvidence DEF Issue
  <1>4. CASE \/ \E c \in Callers : PublishFails(c) \/ Redeliver(c)
             \/ \E i \in Ids, s \in AckStatus : AckPersist(i, s) \/ AckSettle(i, s)
             \/ \E i \in Ids : Timeout(i) \/ Expire(i)
             \/ ConnectionDrops \/ ApiRestart
    BY <1>4, HandlerTyped, HandlerEvidence
  <1>5. CASE \/ \E i \in Ids : LoseCommand(i) \/ EspHandle(i)
             \/ \E m \in acks : LoseAck(m)
             \/ EspReboot
    BY <1>5, OutsideTyped, OutsideEvidence
  <1> QED
    BY <1>1, <1>2, <1>3, <1>4, <1>5 DEF Next

\* A successful call names a command that the ESP32 has executed.
THEOREM SuccessTheorem == Spec => []SuccessMeansExecuted
  <1>1. Init => Typed /\ Evidence
    BY InitTyped DEF Init, Evidence, CallEvidence, IdleCall, NoAck
  <1>2. Typed /\ Evidence => SuccessMeansExecuted
    BY DEF Evidence, CallEvidence, SuccessMeansExecuted
  <1> QED
    BY <1>1, <1>2, EvidenceStep, PTL DEF Spec

----------------------------------------------------------------------------
(* No attempt over a final ACK *)

\* What one step can do to a row: nothing, a write that keeps its attempts, a
\* new attempt by a caller whose read still matches, a read, or its expiry.
RowStep(old, new) ==
    \/ new = old
    \/ new.lido = {} /\ new.tentativas = old.tentativas
    \/ new.lido = {} /\ (old.lido # {} \/ old.status = "AUSENTE")
    \/ /\ new.tentativas = old.tentativas
       /\ ToAckRecord(new) = ToAckRecord(old)
       /\ new.lido = old.lido \/ ToAckRecord(old) \in {NoAck, "RECEBIDO"}

\* A write of one row, and only of it.
LEMMA WriteLemma ==
    ASSUME Typed, NEW i \in Ids, NEW row \in Row, WriteRow(i, row)
    PROVE  /\ comandosmqtt'[i].lido = {} /\ comandosmqtt'[i].tentativas = row.tentativas
           /\ \A j \in Ids \ {i} : comandosmqtt'[j] = comandosmqtt[j]
  BY DEF WriteRow, Typed, TypeOK, Row

\* Every step of a call changes rows only in the ways of RowStep.
LEMMA CallRowStep ==
    ASSUME Typed, NEW c \in Callers,
           CallStep(c) \/ \E i \in Ids : Issue(c, i)
    PROVE  \A j \in Ids : RowStep(comandosmqtt[j], comandosmqtt'[j])
  <1> DEFINE Goal == \A j \in Ids : RowStep(comandosmqtt[j], comandosmqtt'[j])
             k == call[c].id
  <1>1. comandosmqtt \in [Ids -> Row] /\ (call[c].pc # "livre" => k \in Ids)
    BY DEF Typed, TypeOK, CallHasId
  <1>2. ASSUME comandosmqtt' = comandosmqtt PROVE Goal
    BY <1>2 DEF RowStep
  <1>3. ASSUME NEW i \in Ids, Prepare(c, i) PROVE Goal
    <2>1. CASE comandosmqtt' = comandosmqtt
      BY <1>2, <2>1
    <2>2. CASE /\ ToAckRecord(comandosmqtt[i]) \in {NoAck, "RECEBIDO"}
               /\ comandosmqtt' = [comandosmqtt EXCEPT ![i].lido = @ \cup {c}]
      <3>1. /\ comandosmqtt'[i].tentativas = comandosmqtt[i].tentativas
            /\ comandosmqtt'[i].ack = comandosmqtt[i].ack
            /\ comandosmqtt'[i].status = comandosmqtt[i].status
        BY <1>1, <2>2 DEF Row
      <3>2. ToAckRecord(comandosmqtt'[i]) = ToAckRecord(comandosmqtt[i])
        BY <3>1 DEF ToAckRecord
      <3> QED
        BY <1>1, <2>2, <3>1, <3>2 DEF RowStep
    <2> QED
      BY <1>3, <2>1, <2>2 DEF Prepare
  <1>4. ASSUME NEW i \in Ids, NEW row \in Row, WriteRow(i, row),
               row.tentativas = comandosmqtt[i].tentativas
        PROVE  Goal
    BY <1>4, WriteLemma DEF RowStep
  <1>5. ASSUME NEW i \in Ids, NEW row \in Row, WriteRow(i, row),
               comandosmqtt[i].lido # {} \/ comandosmqtt[i].status = "AUSENTE"
        PROVE  Goal
    BY <1>5, WriteLemma DEF RowStep
  <1> HIDE DEF Goal
  <1>6. ASSUME PrepareCreate(c) PROVE Goal
    <2> DEFINE row == [comandosmqtt[k] EXCEPT !.status = "PENDENTE", !.tentativas = 1]
    <2>1. k \in Ids /\ comandosmqtt[k] \in Row /\ 1 \in 0..MaxTentativas
      BY <1>1, <1>6, Constants DEF PrepareCreate
    <2>2. row \in Row
      BY <2>1 DEF Row, Status
    <2>3. \/ comandosmqtt' = comandosmqtt
          \/ comandosmqtt[k].status = "AUSENTE" /\ WriteRow(k, row)
      BY <1>6 DEF PrepareCreate
    <2> HIDE DEF row
    <2> QED
      BY <1>2, <1>5, <2>1, <2>2, <2>3
  <1>7. ASSUME PrepareClaim(c) PROVE Goal
    <2> DEFINE row == [comandosmqtt[k] EXCEPT !.status = "PENDENTE", !.ack = FALSE,
                                              !.tentativas = Count(@)]
    <2>1. k \in Ids /\ comandosmqtt[k] \in Row
      BY <1>1, <1>7 DEF PrepareClaim
    <2>2. Count(comandosmqtt[k].tentativas) \in 0..MaxTentativas
      BY <2>1, RowLemma DEF Typed
    <2>3. row \in Row
      BY <2>1, <2>2 DEF Row, Status
    <2>4. \/ comandosmqtt' = comandosmqtt
          \/ comandosmqtt[k].lido # {} /\ WriteRow(k, row)
      BY <1>7 DEF PrepareClaim, ClaimHolds
    <2> HIDE DEF row
    <2> QED
      BY <1>2, <1>5, <2>1, <2>3, <2>4
  <1>8. ASSUME MarkPublished(c) PROVE Goal
    <2>1. k \in Ids /\ [comandosmqtt[k] EXCEPT !.status = "PUBLICADO"] \in Row
          /\ [comandosmqtt[k] EXCEPT !.status = "PUBLICADO"].tentativas = comandosmqtt[k].tentativas
      BY <1>1, <1>8 DEF MarkPublished, Row, Status
    <2> QED
      BY <1>2, <1>4, <1>8, <2>1 DEF MarkPublished
  <1>9. ASSUME ReturnExecuted(c) PROVE Goal
    <2> DEFINE row == [comandosmqtt[k] EXCEPT !.status = "EXECUTADO", !.ack = TRUE]
    <2>1. k \in Ids /\ comandosmqtt[k] \in Row
      BY <1>1, <1>9 DEF ReturnExecuted
    <2>2. row \in Row /\ row.tentativas = comandosmqtt[k].tentativas
      BY <2>1 DEF Row, Status, AckStatus
    <2>3. WriteRow(k, row)
      BY <1>9 DEF ReturnExecuted, RecordAck
    <2> HIDE DEF row
    <2> QED
      BY <1>4, <2>1, <2>2, <2>3
  <1>10. ASSUME ReturnFailure(c) PROVE Goal
    <2>1. PICK s \in {"TIMEOUT", "ERRO"} : MarkFailure(k, s)
      BY <1>10 DEF ReturnFailure
    <2> DEFINE row == [comandosmqtt[k] EXCEPT !.status = s]
    <2>2. k \in Ids /\ comandosmqtt[k] \in Row
      BY <1>1, <1>10 DEF ReturnFailure
    <2>3. row \in Row /\ row.tentativas = comandosmqtt[k].tentativas
      BY <2>1, <2>2 DEF Row, Status, AckStatus
    <2>4. comandosmqtt' = comandosmqtt \/ WriteRow(k, row)
      BY <2>1 DEF MarkFailure
    <2> HIDE DEF row
    <2> QED
      BY <1>2, <1>4, <2>2, <2>3, <2>4
  <1>11. ASSUME PrepareAgain(c) PROVE Goal
    <2>1. k \in Ids /\ Prepare(c, k)
      BY <1>1, <1>11 DEF PrepareAgain
    <2> QED
      BY <1>3, <2>1
  <1>12. ASSUME NEW i \in Ids, Issue(c, i) PROVE Goal
    BY <1>3, <1>12 DEF Issue
  <1>13. ASSUME Register(c) \/ Publish(c) \/ PubAck(c) PROVE Goal
    BY <1>2, <1>13 DEF Register, Publish, PubAck
  <1>14. Goal
    BY <1>6, <1>7, <1>8, <1>9, <1>10, <1>11, <1>12, <1>13 DEF CallStep
  <1> QED
    BY <1>14 DEF Goal

\* Every other step changes rows only in the ways of RowStep.
LEMMA OtherRowStep ==
    ASSUME Typed,
           \/ UNCHANGED vars
           \/ \E c \in Callers : PublishFails(c) \/ Redeliver(c)
           \/ \E i \in Ids, s \in AckStatus : AckPersist(i, s) \/ AckSettle(i, s)
           \/ \E i \in Ids : Timeout(i) \/ Expire(i) \/ LoseCommand(i) \/ EspHandle(i)
           \/ \E m \in acks : LoseAck(m)
           \/ ConnectionDrops \/ ApiRestart \/ EspReboot
    PROVE  \A j \in Ids : RowStep(comandosmqtt[j], comandosmqtt'[j])
  <1>1. comandosmqtt \in [Ids -> Row]
    BY DEF Typed, TypeOK
  <1>2. ASSUME NEW i \in Ids, NEW s \in AckStatus, AckPersist(i, s)
        PROVE  \A j \in Ids : RowStep(comandosmqtt[j], comandosmqtt'[j])
    <2> DEFINE row == [comandosmqtt[i] EXCEPT !.status = s, !.ack = TRUE]
    <2>1. row \in Row /\ row.tentativas = comandosmqtt[i].tentativas
      BY <1>1 DEF Row, Status
    <2>2. WriteRow(i, row)
      BY <1>2 DEF AckPersist, RecordAck
    <2> HIDE DEF row
    <2> QED
      BY <2>1, <2>2, WriteLemma DEF RowStep
  <1>3. ASSUME NEW i \in Ids, Expire(i)
        PROVE  \A j \in Ids : RowStep(comandosmqtt[j], comandosmqtt'[j])
    <2>1. /\ comandosmqtt'[i].tentativas = comandosmqtt[i].tentativas
          /\ comandosmqtt'[i].ack = comandosmqtt[i].ack
          /\ comandosmqtt'[i].status = comandosmqtt[i].status
          /\ comandosmqtt'[i].lido = comandosmqtt[i].lido
          /\ \A j \in Ids \ {i} : comandosmqtt'[j] = comandosmqtt[j]
      BY <1>1, <1>3 DEF Expire, Row
    <2>2. ToAckRecord(comandosmqtt'[i]) = ToAckRecord(comandosmqtt[i])
      BY <2>1 DEF ToAckRecord
    <2> QED
      BY <2>1, <2>2 DEF RowStep
  <1>4. ASSUME ApiRestart PROVE \A j \in Ids : RowStep(comandosmqtt[j], comandosmqtt'[j])
    BY <1>1, <1>4 DEF ApiRestart, RowStep, Row
  <1>5. ASSUME comandosmqtt' = comandosmqtt
        PROVE  \A j \in Ids : RowStep(comandosmqtt[j], comandosmqtt'[j])
    BY <1>5 DEF RowStep
  <1>6. CASE \/ UNCHANGED vars
             \/ \E c \in Callers : PublishFails(c) \/ Redeliver(c)
             \/ \E i \in Ids, s \in AckStatus : AckSettle(i, s)
             \/ \E i \in Ids : Timeout(i) \/ LoseCommand(i) \/ EspHandle(i)
             \/ \E m \in acks : LoseAck(m)
             \/ ConnectionDrops \/ EspReboot
    BY <1>5, <1>6 DEF vars, PublishFails, Redeliver, AckSettle, Timeout, LoseCommand, EspHandle,
                      LoseAck, ConnectionDrops, EspReboot
  <1> QED
    BY <1>2, <1>3, <1>4, <1>6

\* A caller whose read still matches the row has read no final ACK.
ReadMatches ==
    \A i \in Ids : comandosmqtt[i].lido # {} => ToAckRecord(comandosmqtt[i]) \in {NoAck, "RECEBIDO"}

\* No new attempt is opened on a row that carries a final ACK.
THEOREM AttemptTheorem == Spec => NoAttemptOverFinalAck
  <1> DEFINE Kept == \A i \in Ids : ToAckRecord(comandosmqtt[i]) \notin {NoAck, "RECEBIDO"}
                        => comandosmqtt'[i].tentativas = comandosmqtt[i].tentativas
  <1>1. Init => Typed /\ Evidence /\ ReadMatches
    BY InitTyped DEF Init, Evidence, CallEvidence, IdleCall, NoAck, ReadMatches
  <1>2. Typed /\ ReadMatches /\ [Next]_vars => ReadMatches' /\ Kept
    <2> SUFFICES ASSUME Typed, ReadMatches, [Next]_vars PROVE ReadMatches' /\ Kept
      OBVIOUS
    <2>1. \A j \in Ids : RowStep(comandosmqtt[j], comandosmqtt'[j])
      BY CallRowStep, OtherRowStep DEF Next
    <2>2. \A j \in Ids : comandosmqtt[j].status = "AUSENTE" => ToAckRecord(comandosmqtt[j]) = NoAck
      BY DEF ToAckRecord, AckStatus
    <2>3. ReadMatches'
      BY <2>1 DEF RowStep, ReadMatches
    <2> QED
      BY <2>1, <2>2, <2>3 DEF RowStep, ReadMatches
  <1> HIDE DEF Kept
  <1>3. Kept => [Kept]_vars
    OBVIOUS
  <1>4. NoAttemptOverFinalAck <=> [][Kept]_vars
    BY PTL DEF NoAttemptOverFinalAck, Kept
  <1> QED
    BY <1>1, <1>2, <1>4, EvidenceStep, PTL DEF Spec

----------------------------------------------------------------------------
(* At most one execution between two boots *)

\* While the firmware's cache has room for every id, an id that was executed
\* since the boot is still in it.
Once ==
    RecentCommandCount >= Cardinality(Ids) =>
        \A i \in Ids : execucoes[i] <= 1 /\ (execucoes[i] # 0 => ackCache[i] # NoAck)

\* handleCommand keeps Once: only an id out of the cache is executed, and its
\* answer enters the cache without evicting another.
LEMMA EspHandleOnce ==
    ASSUME Typed, Once, NEW i \in Ids, EspHandle(i)
    PROVE  Once'
  <1>1. execucoes \in [Ids -> 0..2] /\ ackCache \in [Ids -> Acks]
    BY DEF Typed, TypeOK, Acks
  <1>2. CASE UNCHANGED espVars
    BY <1>2 DEF Once, espVars
  <1>3. ASSUME ackCache[i] = NoAck, NEW s \in FinalAcks,
               ackCache' \in Remember(ackCache, i, s, RecentCommandCount),
               \/ execucoes' = [execucoes EXCEPT ![i] = IF @ < 2 THEN @ + 1 ELSE 2]
               \/ UNCHANGED execucoes,
               RecentCommandCount >= Cardinality(Ids)
        PROVE  \A j \in Ids : execucoes'[j] <= 1 /\ (execucoes'[j] # 0 => ackCache'[j] # NoAck)
    <2>1. s \in AckStatus /\ s # NoAck
      BY Constants DEF AckStatus, NoAck
    <2>2. IsFiniteSet(Ids) /\ Cardinality(Ids) \in Nat
      BY Constants, FS_CardinalityType
    <2>3. RecentCommandCount \in Nat /\ Cardinality(Ids) <= RecentCommandCount
      BY <1>3, <2>2, LedgerAssumption
    <2>4. ackCache' = [ackCache EXCEPT ![i] = s]
      BY <1>1, <1>3, <2>1, <2>3, NoEviction
    <2>5. execucoes[i] = 0 /\ \A j \in Ids : execucoes[j] <= 1
      BY <1>3 DEF Once
    <2>6. execucoes'[i] \in {0, 1} /\ \A j \in Ids \ {i} : execucoes'[j] = execucoes[j]
      BY <1>1, <1>3, <2>5
    <2>7. ackCache'[i] # NoAck /\ \A j \in Ids \ {i} : ackCache'[j] = ackCache[j]
      BY <1>1, <2>1, <2>4
    <2> QED
      BY <1>3, <2>5, <2>6, <2>7 DEF Once
  <1> QED
    BY <1>2, <1>3 DEF EspHandle, FindCachedAck, Once

\* Every step keeps Once.
LEMMA OnceStep == Typed /\ Once /\ [Next]_vars => Once'
  <1> SUFFICES ASSUME Typed, Once, [Next]_vars PROVE Once'
    OBVIOUS
  <1>1. CASE UNCHANGED <<ackCache, execucoes>>
    BY <1>1 DEF Once
  <1>2. CASE \E i \in Ids : EspHandle(i)
    BY <1>2, EspHandleOnce
  <1>3. CASE EspReboot
    BY <1>3 DEF EspReboot, Once
  <1>4. ASSUME NEW c \in Callers,
               CallStep(c) \/ PublishFails(c) \/ Redeliver(c) \/ \E i \in Ids : Issue(c, i)
        PROVE  UNCHANGED <<ackCache, execucoes>>
    BY <1>4 DEF CallStep, PrepareAgain, PrepareCreate, PrepareClaim, Register, Publish, PubAck,
                MarkPublished, ReturnExecuted, ReturnFailure, PublishFails, Redeliver, Issue,
                Prepare, espVars
  <1>5. ASSUME \/ \E i \in Ids, s \in AckStatus : AckPersist(i, s) \/ AckSettle(i, s)
               \/ \E i \in Ids : Timeout(i) \/ Expire(i) \/ LoseCommand(i)
               \/ \E m \in acks : LoseAck(m)
               \/ ConnectionDrops \/ ApiRestart
               \/ UNCHANGED vars
        PROVE  UNCHANGED <<ackCache, execucoes>>
    BY <1>5 DEF AckPersist, AckSettle, Timeout, Expire, LoseCommand, LoseAck,
                ConnectionDrops, ApiRestart, vars, espVars
  <1> QED
    BY <1>1, <1>2, <1>3, <1>4, <1>5 DEF Next

\* With a firmware cache at least as large as the set of ids in use, no retry
\* and no duplicate delivery executes a command twice between two boots.
THEOREM OnceTheorem == Spec => []AtMostOncePerBoot
  <1>1. Init => Typed /\ Evidence /\ Once
    BY InitTyped DEF Init, Evidence, CallEvidence, IdleCall, NoAck, Once
  <1>2. Typed /\ Once /\ [Next]_vars => Once'
    BY OnceStep
  <1>3. Typed /\ Once => AtMostOncePerBoot
    BY DEF Once, AtMostOncePerBoot
  <1> QED
    BY <1>1, <1>2, <1>3, EvidenceStep, PTL DEF Spec
=============================================================================
