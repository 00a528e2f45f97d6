------------------------ MODULE CommandChannelProofs ------------------------
(***************************************************************************)
(* Two results that need more of the ledger than its types: that a command *)
(* is published at most once per attempt its row counts, however many      *)
(* calls share the id, and that the whole protocol, from the table to the  *)
(* firmware's cache, implements the channel of CommandChannel.             *)
(***************************************************************************)
EXTENDS CommandLedgerProofs

----------------------------------------------------------------------------
(* No more publications than attempts *)

\* A call owns an attempt of id i from the write that opened it until it
\* publishes, gives up or is forgotten.
Owns(k, i) == k.id = i /\ k.publica /\ k.pc \in {"registrar", "publicar"}
Owners(calls, i) == {c \in Callers : Owns(calls[c], i)}

\* Each attempt of id i is either published or owned by one call.  Counters
\* stop at MaxTentativas, where the comparison says nothing.
Covered(owners, published, attempts) ==
    /\ IsFiniteSet(owners)
    /\ published + Cardinality(owners) <= attempts \/ attempts = MaxTentativas

\* A call owns nothing while it reads the row, and publishes only what it owns.
Disciplined(k) ==
    /\ k.pc = "publicar" => k.publica
    /\ k.pc \in {"criar", "reivindicar"} => ~k.publica

\* The publications of the ledger are covered by its attempts, and a row that
\* does not exist has none.
Accounted ==
    /\ \A i \in Ids : Covered(Owners(call, i), publicacoes[i], comandosmqtt[i].tentativas)
    /\ \A c \in Callers : Disciplined(call[c])
    /\ \A i \in Ids : comandosmqtt[i].status = "AUSENTE" => comandosmqtt[i].tentativas = 0

\* What one step can do to the attempts of an id: nothing but lose owners,
\* publish one of them, or open one for a call.
AccountStep(old, new, published, published2, attempts, attempts2) ==
    \/ new \subseteq old /\ published2 = published /\ attempts2 = attempts
    \/ /\ \E c \in old : new \subseteq old \ {c}
       /\ published2 = Count(published) /\ attempts2 = attempts
    \/ /\ \E c \in Callers : new \subseteq old \cup {c}
       /\ published2 = published /\ attempts2 = Count(attempts)

\* Each of these keeps the attempts covered.
LEMMA CoveredStep ==
    ASSUME NEW old, NEW new, NEW p \in 0..MaxTentativas, NEW q,
           NEW a \in 0..MaxTentativas, NEW b,
           Covered(old, p, a), AccountStep(old, new, p, q, a, b)
    PROVE  Covered(new, q, b)
  <1>1. MaxTentativas \in Nat \ {0}
    BY Constants
  <1>2. IsFiniteSet(old) /\ Cardinality(old) \in Nat
    BY FS_CardinalityType DEF Covered
  <1>3. ASSUME new \subseteq old, q = p, b = a PROVE Covered(new, q, b)
    <2>1. IsFiniteSet(new) /\ Cardinality(new) <= Cardinality(old) /\ Cardinality(new) \in Nat
      BY <1>2, <1>3, FS_Subset, FS_CardinalityType
    <2> QED
      BY <1>1, <1>2, <1>3, <2>1 DEF Covered
  <1>4. ASSUME NEW c \in old, new \subseteq old \ {c}, q = Count(p), b = a
        PROVE  Covered(new, q, b)
    <2>1. IsFiniteSet(old \ {c}) /\ Cardinality(old \ {c}) = Cardinality(old) - 1
      BY <1>2, FS_RemoveElement
    <2>2. IsFiniteSet(new) /\ Cardinality(new) <= Cardinality(old \ {c}) /\ Cardinality(new) \in Nat
      BY <1>4, <2>1, FS_Subset, FS_CardinalityType
    <2>3. q \in 0..MaxTentativas /\ q <= p + 1
      BY <1>1, <1>4 DEF Count
    <2> QED
      BY <1>1, <1>2, <1>4, <2>1, <2>2, <2>3 DEF Covered
  <1>5. ASSUME NEW c \in Callers, new \subseteq old \cup {c}, q = p, b = Count(a)
        PROVE  Covered(new, q, b)
    <2>1. /\ IsFiniteSet(old \cup {c})
          /\ Cardinality(old \cup {c}) <= Cardinality(old) + 1
          /\ Cardinality(old \cup {c}) \in Nat
      <3>1. /\ IsFiniteSet(old \cup {c})
            /\ Cardinality(old \cup {c}) \in {Cardinality(old), Cardinality(old) + 1}
        BY <1>2, FS_AddElement
      <3> QED
        BY <1>2, <3>1
    <2>2. IsFiniteSet(new) /\ Cardinality(new) <= Cardinality(old \cup {c}) /\ Cardinality(new) \in Nat
      BY <1>5, <2>1, FS_Subset, FS_CardinalityType
    <2> QED
      BY <1>1, <1>2, <1>5, <2>1, <2>2 DEF Covered, Count
  <1> QED
    BY <1>3, <1>4, <1>5 DEF AccountStep

\* The rows that exist, and how many attempts they count.
RowsKept ==
    \A j \in Ids : /\ comandosmqtt'[j].tentativas = comandosmqtt[j].tentativas
                   /\ comandosmqtt'[j].status = "AUSENTE" => comandosmqtt[j].status = "AUSENTE"

\* A write of a row that keeps its attempts and gives it a status.
LEMMA WriteKeeps ==
    ASSUME Typed, NEW i \in Ids, NEW row \in Row, WriteRow(i, row),
           row.tentativas = comandosmqtt[i].tentativas, row.status # "AUSENTE"
    PROVE  RowsKept
  BY DEF WriteRow, Typed, TypeOK, Row, RowsKept

\* A call goes on without becoming an owner.
NoNewOwner(k, l) ==
    \/ l.pc = k.pc /\ l.id = k.id /\ l.publica = k.publica
    \/ l.pc \in {"livre", "ler", "puback", "sem_puback", "marcar", "aguardar", "falhar"}
    \/ l.pc # "publicar" /\ ~l.publica
    \/ k.pc = "registrar" /\ l.pc = "publicar" /\ k.publica /\ l.publica /\ l.id = k.id

\* A step that keeps the attempts of every row and makes no call an owner
\* keeps the account.
LEMMA QuietAccount ==
    ASSUME Accounted, RowsKept, publicacoes' = publicacoes,
           \A c \in Callers : NoNewOwner(call[c], call'[c]),
           Typed
    PROVE  Accounted'
  <1>1. \A i \in Ids : Owners(call', i) \subseteq Owners(call, i)
    BY DEF Owners, Owns, NoNewOwner
  <1>2. \A i \in Ids : publicacoes[i] \in 0..MaxTentativas
                       /\ comandosmqtt[i].tentativas \in 0..MaxTentativas
    BY DEF Typed, TypeOK, Row
  <1>3. \A i \in Ids : Covered(Owners(call', i), publicacoes'[i], comandosmqtt'[i].tentativas)
    <2> SUFFICES ASSUME NEW i \in Ids
                 PROVE  Covered(Owners(call', i), publicacoes'[i], comandosmqtt'[i].tentativas)
      OBVIOUS
    <2>1. AccountStep(Owners(call, i), Owners(call', i), publicacoes[i], publicacoes'[i],
                      comandosmqtt[i].tentativas, comandosmqtt'[i].tentativas)
      BY <1>1 DEF AccountStep, RowsKept
    <2>2. Covered(Owners(call, i), publicacoes[i], comandosmqtt[i].tentativas)
      BY DEF Accounted
    <2> QED
      BY <1>2, <2>1, <2>2, CoveredStep
  <1> QED
    BY <1>3 DEF Accounted, RowsKept, Disciplined, NoNewOwner, Owners, Covered

\* A step of one call c on its own id i: the other calls and the other rows
\* stay, and the attempts of i change as AccountStep says.
LEMMA OwnAccount ==
    ASSUME Typed, Accounted, NEW c \in Callers, NEW i \in Ids,
           \A d \in Callers \ {c} : /\ call'[d].pc = call[d].pc /\ call'[d].id = call[d].id
                                    /\ call'[d].publica = call[d].publica,
           call[c].id = i, call'[c].id = i,
           Disciplined(call'[c]),
           \A j \in Ids \ {i} : comandosmqtt'[j] = comandosmqtt[j] /\ publicacoes'[j] = publicacoes[j],
           comandosmqtt'[i].status = "AUSENTE" => comandosmqtt'[i].tentativas = 0,
           AccountStep(Owners(call, i), Owners(call', i), publicacoes[i], publicacoes'[i],
                       comandosmqtt[i].tentativas, comandosmqtt'[i].tentativas)
    PROVE  Accounted'
  <1>1. \A j \in Ids : publicacoes[j] \in 0..MaxTentativas
                       /\ comandosmqtt[j].tentativas \in 0..MaxTentativas
    BY DEF Typed, TypeOK, Row
  <1>2. \A j \in Ids \ {i} : Owners(call', j) = Owners(call, j)
    BY DEF Owners, Owns
  <1>3. \A j \in Ids : Covered(Owners(call', j), publicacoes'[j], comandosmqtt'[j].tentativas)
    <2>1. Covered(Owners(call', i), publicacoes'[i], comandosmqtt'[i].tentativas)
      BY <1>1, CoveredStep DEF Accounted
    <2> QED
      BY <1>2, <2>1 DEF Accounted
  <1> QED
    BY <1>3 DEF Accounted, Disciplined, Owners, Covered

\* Every step of a call keeps the account.
LEMMA CallAccount ==
    ASSUME Typed, Accounted, NEW c \in Callers,
           CallStep(c) \/ \E i \in Ids : Issue(c, i)
    PROVE  Accounted'
  <1> DEFINE k == call[c].id
  <1>1. comandosmqtt \in [Ids -> Row] /\ call \in [Callers -> Call]
        /\ (call[c].pc # "livre" => k \in Ids)
    BY DEF Typed, TypeOK, CallHasId
  <1>2. comandosmqtt' = comandosmqtt => RowsKept
    BY DEF RowsKept
  <1>3. ASSUME NEW i \in Ids, Prepare(c, i) PROVE Accounted'
    <2>1. RowsKept
      BY <1>1, <1>3 DEF Prepare, RowsKept, Row
    <2>2. publicacoes' = publicacoes
      BY <1>3 DEF Prepare
    <2> DEFINE read == [IdleCall EXCEPT !.id = i, !.restaurado = ToAckRecord(comandosmqtt[i])]
    <2>4. \A p \in {"criar", "registrar", "reivindicar"} :
             [read EXCEPT !.pc = p].pc = p /\ ~[read EXCEPT !.pc = p].publica
      BY DEF IdleCall
    <2>5. \E p \in {"criar", "registrar", "reivindicar"} :
             call' = [call EXCEPT ![c] = [read EXCEPT !.pc = p]]
      BY <1>3 DEF Prepare
    <2> HIDE DEF read
    <2>3. call'[c].pc \in {"criar", "registrar", "reivindicar"} /\ ~call'[c].publica
          /\ \A d \in Callers \ {c} : call'[d] = call[d]
      BY <1>1, <2>4, <2>5
    <2> QED
      BY <2>1, <2>2, <2>3, QuietAccount DEF NoNewOwner
  <1>4. ASSUME PrepareCreate(c) PROVE Accounted'
    <2> DEFINE row == [comandosmqtt[k] EXCEPT !.status = "PENDENTE", !.tentativas = 1]
    <2>1. k \in Ids /\ comandosmqtt[k] \in Row /\ publicacoes' = publicacoes /\ 1 \in 0..MaxTentativas
      BY <1>1, <1>4, Constants DEF PrepareCreate
    <2>2. CASE comandosmqtt[k].status # "AUSENTE"
      <3>1. call'[c].pc = "ler" /\ comandosmqtt' = comandosmqtt
            /\ \A d \in Callers \ {c} : call'[d] = call[d]
        BY <1>1, <1>4, <2>2 DEF PrepareCreate, Call
      <3> QED
        BY <1>2, <2>1, <3>1, QuietAccount DEF NoNewOwner
    <2>3. CASE comandosmqtt[k].status = "AUSENTE"
      <3>1. row \in Row /\ row.tentativas = 1 /\ row.status = "PENDENTE"
        BY <2>1 DEF Row, Status
      <3>2. WriteRow(k, row)
        BY <1>4, <2>3 DEF PrepareCreate
      <3> HIDE DEF row
      <3>3. /\ comandosmqtt'[k].tentativas = 1 /\ comandosmqtt'[k].status = "PENDENTE"
            /\ \A j \in Ids \ {k} : comandosmqtt'[j] = comandosmqtt[j]
        BY <1>1, <2>1, <3>1, <3>2 DEF WriteRow, Row
      <3>4. /\ call'[c].pc = "registrar" /\ call'[c].id = k /\ Disciplined(call'[c])
            /\ \A d \in Callers \ {c} : call'[d] = call[d]
        BY <1>1, <1>4, <2>3 DEF PrepareCreate, Call, Disciplined
      <3>5. comandosmqtt[k].tentativas = 0 /\ Count(0) = 1
        BY <2>1, <2>3, Constants DEF Accounted, Count
      <3>6. Owners(call', k) \subseteq Owners(call, k) \cup {c}
        BY <3>4 DEF Owners, Owns
      <3>7. AccountStep(Owners(call, k), Owners(call', k), publicacoes[k], publicacoes'[k],
                        comandosmqtt[k].tentativas, comandosmqtt'[k].tentativas)
        BY <2>1, <3>3, <3>5, <3>6 DEF AccountStep
      <3> QED
        BY <2>1, <3>3, <3>4, <3>7, OwnAccount
    <2> QED
      BY <2>2, <2>3
  <1>5. ASSUME PrepareClaim(c) PROVE Accounted'
    <2> DEFINE row == [comandosmqtt[k] EXCEPT !.status = "PENDENTE", !.ack = FALSE,
                                              !.tentativas = Count(@)]
    <2>1. k \in Ids /\ comandosmqtt[k] \in Row /\ publicacoes' = publicacoes
          /\ Count(comandosmqtt[k].tentativas) \in 0..MaxTentativas
      BY <1>1, <1>5, RowLemma DEF PrepareClaim, Typed
    <2>2. CASE ~ClaimHolds(c, comandosmqtt[k])
      <3>1. call'[c].pc = "registrar" /\ comandosmqtt' = comandosmqtt
            /\ ~call'[c].publica
            /\ \A d \in Callers \ {c} : call'[d] = call[d]
        BY <1>1, <1>5, <2>2 DEF PrepareClaim, Call, Accounted, Disciplined
      <3> QED
        BY <1>2, <2>1, <3>1, QuietAccount DEF NoNewOwner
    <2>3. CASE ClaimHolds(c, comandosmqtt[k])
      <3>1. row \in Row /\ row.tentativas = Count(comandosmqtt[k].tentativas) /\ row.status = "PENDENTE"
        BY <2>1 DEF Row, Status
      <3>2. WriteRow(k, row)
        BY <1>5, <2>3 DEF PrepareClaim
      <3> HIDE DEF row
      <3>3. /\ comandosmqtt'[k].tentativas = Count(comandosmqtt[k].tentativas)
            /\ comandosmqtt'[k].status = "PENDENTE"
            /\ \A j \in Ids \ {k} : comandosmqtt'[j] = comandosmqtt[j]
        BY <1>1, <2>1, <3>1, <3>2 DEF WriteRow, Row
      <3>4. /\ call'[c].pc = "registrar" /\ call'[c].id = k /\ Disciplined(call'[c])
            /\ \A d \in Callers \ {c} : call'[d] = call[d]
        BY <1>1, <1>5, <2>3 DEF PrepareClaim, Call, Disciplined
      <3>5. Owners(call', k) \subseteq Owners(call, k) \cup {c}
        BY <3>4 DEF Owners, Owns
      <3>6. AccountStep(Owners(call, k), Owners(call', k), publicacoes[k], publicacoes'[k],
                        comandosmqtt[k].tentativas, comandosmqtt'[k].tentativas)
        BY <2>1, <3>3, <3>5 DEF AccountStep
      <3> QED
        BY <2>1, <3>3, <3>4, <3>6, OwnAccount
    <2> QED
      BY <2>2, <2>3
  <1>6. ASSUME Register(c) PROVE Accounted'
    <2>1. RowsKept /\ publicacoes' = publicacoes
      BY <1>2, <1>6 DEF Register
    <2>2. NoNewOwner(call[c], call'[c]) /\ \A d \in Callers \ {c} : call'[d] = call[d]
      BY <1>1, <1>6 DEF Register, ShouldPublish, NoNewOwner, Call
    <2> QED
      BY <2>1, <2>2, QuietAccount DEF NoNewOwner
  <1>7. ASSUME Publish(c) PROVE Accounted'
    <2>1. /\ k \in Ids /\ comandosmqtt' = comandosmqtt
          /\ publicacoes'[k] = Count(publicacoes[k])
          /\ \A j \in Ids \ {k} : publicacoes'[j] = publicacoes[j]
      BY <1>1, <1>7 DEF Publish, Typed, TypeOK
    <2>2. /\ call'[c].pc = "puback" /\ call'[c].id = k
          /\ \A d \in Callers \ {c} : call'[d] = call[d]
      BY <1>1, <1>7 DEF Publish, Call
    <2>3. c \in Owners(call, k)
      BY <1>7 DEF Publish, Accounted, Disciplined, Owners, Owns
    <2>4. Owners(call', k) \subseteq Owners(call, k) \ {c}
      BY <2>2 DEF Owners, Owns
    <2>5. AccountStep(Owners(call, k), Owners(call', k), publicacoes[k], publicacoes'[k],
                      comandosmqtt[k].tentativas, comandosmqtt'[k].tentativas)
      BY <2>1, <2>3, <2>4 DEF AccountStep
    <2>6. comandosmqtt'[k].status = "AUSENTE" => comandosmqtt'[k].tentativas = 0
      BY <2>1 DEF Accounted
    <2> QED
      BY <2>1, <2>2, <2>5, <2>6, OwnAccount DEF Disciplined
  <1>12. ASSUME PubAck(c) PROVE Accounted'
    <2>1. RowsKept /\ publicacoes' = publicacoes
      BY <1>2, <1>12 DEF PubAck
    <2>2. call'[c].pc = "marcar" /\ \A d \in Callers \ {c} : call'[d] = call[d]
      BY <1>1, <1>12 DEF PubAck, Call
    <2> QED
      BY <2>1, <2>2, QuietAccount DEF NoNewOwner
  <1>8. ASSUME MarkPublished(c) PROVE Accounted'
    <2> DEFINE row == [comandosmqtt[k] EXCEPT !.status = "PUBLICADO"]
    <2>1. k \in Ids /\ comandosmqtt[k] \in Row /\ publicacoes' = publicacoes
      BY <1>1, <1>8 DEF MarkPublished
    <2>2. row \in Row /\ row.tentativas = comandosmqtt[k].tentativas /\ row.status = "PUBLICADO"
      BY <2>1 DEF Row, Status
    <2>3. comandosmqtt' = comandosmqtt \/ WriteRow(k, row)
      BY <1>8 DEF MarkPublished
    <2>4. call'[c].pc = "aguardar" /\ \A d \in Callers \ {c} : call'[d] = call[d]
      BY <1>1, <1>8 DEF MarkPublished, Call
    <2> HIDE DEF row
    <2>5. RowsKept
      BY <1>2, <2>1, <2>2, <2>3, WriteKeeps
    <2> QED
      BY <2>1, <2>4, <2>5, QuietAccount DEF NoNewOwner
  <1>9. ASSUME ReturnExecuted(c) PROVE Accounted'
    <2> DEFINE row == [comandosmqtt[k] EXCEPT !.status = "EXECUTADO", !.ack = TRUE]
    <2>1. k \in Ids /\ comandosmqtt[k] \in Row /\ publicacoes' = publicacoes
      BY <1>1, <1>9 DEF ReturnExecuted
    <2>2. row \in Row /\ row.tentativas = comandosmqtt[k].tentativas /\ row.status = "EXECUTADO"
      BY <2>1 DEF Row, Status, AckStatus
    <2>3. WriteRow(k, row)
      BY <1>9 DEF ReturnExecuted, RecordAck
    <2>4. [IdleCall EXCEPT !.id = k, !.sucesso = TRUE].pc = "livre"
      BY DEF IdleCall
    <2>5. call'[c].pc = "livre" /\ \A d \in Callers \ {c} : call'[d] = call[d]
      BY <1>1, <1>9, <2>4 DEF ReturnExecuted
    <2> HIDE DEF row
    <2>6. RowsKept
      BY <2>1, <2>2, <2>3, WriteKeeps
    <2> QED
      BY <2>1, <2>5, <2>6, QuietAccount DEF NoNewOwner
  <1>10. ASSUME ReturnFailure(c) PROVE Accounted'
    <2>1. PICK s \in {"TIMEOUT", "ERRO"} : MarkFailure(k, s)
      BY <1>10 DEF ReturnFailure
    <2> DEFINE row == [comandosmqtt[k] EXCEPT !.status = s]
    <2>2. k \in Ids /\ comandosmqtt[k] \in Row /\ publicacoes' = publicacoes
      BY <1>1, <1>10 DEF ReturnFailure
    <2>3. row \in Row /\ row.tentativas = comandosmqtt[k].tentativas /\ row.status # "AUSENTE"
      BY <2>1, <2>2 DEF Row, Status, AckStatus
    <2>4. comandosmqtt' = comandosmqtt \/ WriteRow(k, row)
      BY <2>1 DEF MarkFailure
    <2>5. call'[c].pc = "livre" /\ \A d \in Callers \ {c} : call'[d] = call[d]
      BY <1>1, <1>10 DEF ReturnFailure, IdleCall
    <2> HIDE DEF row
    <2>6. RowsKept
      BY <1>2, <2>2, <2>3, <2>4, WriteKeeps
    <2> QED
      BY <2>2, <2>5, <2>6, QuietAccount DEF NoNewOwner
  <1>11. ASSUME PrepareAgain(c) PROVE Accounted'
    <2>1. k \in Ids /\ Prepare(c, k)
      BY <1>1, <1>11 DEF PrepareAgain
    <2> QED
      BY <1>3, <2>1
  <1> QED
    BY <1>3, <1>4, <1>5, <1>6, <1>7, <1>8, <1>9, <1>10, <1>11, <1>12 DEF CallStep, Issue

\* So does every other step.
LEMMA OtherAccount ==
    ASSUME Typed, Accounted,
           \/ UNCHANGED vars
           \/ \E c \in Callers : PublishFails(c) \/ Redeliver(c)
           \/ \E i \in Ids, s \in AckStatus : AckPersist(i, s) \/ AckSettle(i, s)
           \/ \E i \in Ids : Timeout(i) \/ Expire(i) \/ LoseCommand(i) \/ EspHandle(i)
           \/ \E m \in acks : LoseAck(m)
           \/ ConnectionDrops \/ ApiRestart \/ EspReboot
    PROVE  Accounted'
  <1>1. comandosmqtt \in [Ids -> Row] /\ call \in [Callers -> Call]
    BY DEF Typed, TypeOK
  <1>2. comandosmqtt' = comandosmqtt => RowsKept
    BY DEF RowsKept
  <1>3. ASSUME UNCHANGED <<comandosmqtt, publicacoes>>,
               \A c \in Callers : /\ call'[c].pc = call[c].pc /\ call'[c].id = call[c].id
                                  /\ call'[c].publica = call[c].publica
        PROVE  Accounted'
    BY <1>2, <1>3, QuietAccount DEF NoNewOwner
  <1>4. ASSUME NEW i \in Ids, NEW s \in AckStatus, AckPersist(i, s) PROVE Accounted'
    <2> DEFINE row == [comandosmqtt[i] EXCEPT !.status = s, !.ack = TRUE]
    <2>1. row \in Row /\ row.tentativas = comandosmqtt[i].tentativas /\ row.status # "AUSENTE"
      BY <1>1 DEF Row, Status, AckStatus
    <2>2. WriteRow(i, row)
      BY <1>4 DEF AckPersist, RecordAck
    <2> HIDE DEF row
    <2>3. RowsKept
      BY <2>1, <2>2, WriteKeeps
    <2> QED
      BY <1>4, <2>3, QuietAccount DEF AckPersist, NoNewOwner
  <1>5. ASSUME NEW i \in Ids, NEW s \in AckStatus, AckSettle(i, s) PROVE Accounted'
    <2>1. CASE call' = call
      BY <1>3, <1>5, <2>1 DEF AckSettle
    <2>2. CASE s # "RECEBIDO" /\ call' = Settled(call, i, OutcomeOf(s))
      <3>1. OutcomeOf(s) \in Outcome
        BY <2>2 DEF OutcomeOf, Outcome, AckStatus
      <3> QED
        BY <1>1, <1>3, <1>5, <2>2, <3>1, SettledLemma DEF AckSettle
    <2> QED
      BY <1>5, <2>1, <2>2 DEF AckSettle
  <1>6. ASSUME NEW i \in Ids, Timeout(i) PROVE Accounted'
    <2>1. "TIMEOUT" \in Outcome
      BY DEF Outcome
    <2> QED
      BY <1>1, <1>3, <1>6, <2>1, SettledLemma DEF Timeout
  <1>7. ASSUME NEW i \in Ids, Expire(i) PROVE Accounted'
    <2>1. RowsKept
      BY <1>1, <1>7 DEF Expire, RowsKept, Row
    <2> QED
      BY <1>7, <2>1, QuietAccount DEF Expire, NoNewOwner, apiVars
  <1>8. ASSUME ConnectionDrops PROVE Accounted'
    <2>1. RowsKept /\ publicacoes' = publicacoes
      BY <1>2, <1>8 DEF ConnectionDrops
    <2>2. \A c \in Callers : NoNewOwner(call[c], call'[c])
      BY <1>8, DropLemma DEF NoNewOwner, Typed
    <2> QED
      BY <2>1, <2>2, QuietAccount
  <1>9. ASSUME ApiRestart PROVE Accounted'
    <2>1. RowsKept
      BY <1>1, <1>9 DEF ApiRestart, RowsKept, Row
    <2>2. \A c \in Callers : call'[c].pc = "livre"
      BY <1>9 DEF ApiRestart, IdleCall
    <2> QED
      BY <1>9, <2>1, <2>2, QuietAccount DEF ApiRestart, NoNewOwner
  <1>10. ASSUME NEW c \in Callers, PublishFails(c) PROVE Accounted'
    <2> DEFINE k == call[c].id
    <2>1. k \in Ids /\ UNCHANGED <<comandosmqtt, publicacoes>>
      BY <1>10 DEF PublishFails, Typed, TypeOK, CallHasId
    <2>2. /\ call'[c].pc = "falhar" /\ call'[c].id = k
          /\ \A d \in Callers \ {c} : /\ call'[d].pc = call[d].pc /\ call'[d].id = call[d].id
                                       /\ call'[d].publica = call[d].publica
      <3>1. "ERRO" \in Outcome
        BY DEF Outcome
      <3>2. \E calls \in [Callers -> Call] :
               /\ call' = [calls EXCEPT ![c].pc = "falhar", ![c].promessa = "ERRO"]
               /\ \A d \in Callers : /\ calls[d].pc = call[d].pc /\ calls[d].id = call[d].id
                                      /\ calls[d].publica = call[d].publica
        <4>1. Settled(call, k, "ERRO") \in [Callers -> Call]
              /\ \A d \in Callers : LET l == Settled(call, k, "ERRO")[d] IN
                    l.pc = call[d].pc /\ l.id = call[d].id /\ l.publica = call[d].publica
          BY <1>1, <2>1, <3>1, SettledLemma
        <4>2. \E calls \in {call, Settled(call, k, "ERRO")} :
                 call' = [calls EXCEPT ![c].pc = "falhar", ![c].promessa = "ERRO"]
          BY <1>10 DEF PublishFails
        <4> QED
          BY <1>1, <4>1, <4>2
      <3> PICK calls \in [Callers -> Call] :
               /\ call' = [calls EXCEPT ![c].pc = "falhar", ![c].promessa = "ERRO"]
               /\ \A d \in Callers : /\ calls[d].pc = call[d].pc /\ calls[d].id = call[d].id
                                      /\ calls[d].publica = call[d].publica
        BY <3>2
      <3>3. call' = [calls EXCEPT ![c] = [calls[c] EXCEPT !.pc = "falhar", !.promessa = "ERRO"]]
        OBVIOUS
      <3>4. [calls[c] EXCEPT !.pc = "falhar", !.promessa = "ERRO"].pc = "falhar"
            /\ [calls[c] EXCEPT !.pc = "falhar", !.promessa = "ERRO"].id = k
        BY DEF Call
      <3> QED
        BY <3>3, <3>4
    <2>3. \A d \in Callers : NoNewOwner(call[d], call'[d])
      BY <2>2 DEF NoNewOwner
    <2> QED
      BY <1>2, <2>1, <2>3, QuietAccount
  <1>12. ASSUME NEW c \in Callers, Redeliver(c) PROVE Accounted'
    <2>1. RowsKept /\ publicacoes' = publicacoes
      BY <1>2, <1>12 DEF Redeliver
    <2>2. call'[c].pc = "puback" /\ \A d \in Callers \ {c} : call'[d] = call[d]
      BY <1>1, <1>12 DEF Redeliver, Call
    <2> QED
      BY <2>1, <2>2, QuietAccount DEF NoNewOwner
  <1>11. CASE \/ UNCHANGED vars
              \/ \E i \in Ids : LoseCommand(i) \/ EspHandle(i)
              \/ \E m \in acks : LoseAck(m)
              \/ EspReboot
    BY <1>3, <1>11 DEF vars, LoseCommand, EspHandle, LoseAck, EspReboot, apiVars
  <1> QED
    BY <1>4, <1>5, <1>6, <1>7, <1>8, <1>9, <1>10, <1>11, <1>12

\* The broker never sees more publications of a command than the attempts its
\* row counts, whatever calls share the id, fail, restart or are retried.
THEOREM PublicationTheorem == Spec => []PublicationsWithinAttempts
  <1>1. Init => Typed /\ Evidence /\ Accounted
    <2> SUFFICES ASSUME Init PROVE Accounted
      BY InitTyped DEF Init, Evidence, CallEvidence, IdleCall, NoAck
    <2>1. \A i \in Ids : Owners(call, i) = {}
      BY DEF Init, IdleCall, Owners, Owns
    <2>2. \A i \in Ids : Covered(Owners(call, i), publicacoes[i], comandosmqtt[i].tentativas)
      <3>1. IsFiniteSet({}) /\ Cardinality({}) = 0
        BY FS_EmptySet
      <3>2. \A i \in Ids : publicacoes[i] = 0 /\ comandosmqtt[i].tentativas = 0
        BY DEF Init
      <3> QED
        BY <2>1, <3>1, <3>2 DEF Covered
    <2> QED
      BY <2>2 DEF Init, IdleCall, Accounted, Disciplined
  <1>2. Typed /\ Accounted /\ [Next]_vars => Accounted'
    BY CallAccount, OtherAccount DEF Next
  <1>3. Typed /\ Accounted => PublicationsWithinAttempts
    <2> SUFFICES ASSUME Typed, Accounted, NEW i \in Ids
                 PROVE  publicacoes[i] <= comandosmqtt[i].tentativas
      BY DEF PublicationsWithinAttempts
    <2>1. publicacoes[i] \in 0..MaxTentativas /\ comandosmqtt[i].tentativas \in 0..MaxTentativas
      BY DEF Typed, TypeOK, Row
    <2>2. Covered(Owners(call, i), publicacoes[i], comandosmqtt[i].tentativas)
      BY DEF Accounted
    <2>3. Cardinality(Owners(call, i)) \in Nat
      BY <2>2, FS_CardinalityType DEF Covered
    <2> QED
      BY <2>1, <2>2, <2>3, Constants DEF Covered
  <1> QED
    BY <1>1, <1>2, <1>3, EvidenceStep, PTL DEF Spec

----------------------------------------------------------------------------
(* The protocol implements the channel *)

\* A step that its callers cannot see.
LEMMA UnseenStep ==
    ASSUME \A c \in Callers : Canal(call'[c]) = Canal(call[c]),
           UNCHANGED <<executados, execucoes>>
    PROVE  UNCHANGED Channel!canal
  <1>1. [c \in Callers |-> Canal(call'[c])] = [c \in Callers |-> Canal(call[c])]
    OBVIOUS
  <1>2. [c \in Callers |-> Canal(call[c])]' = [c \in Callers |-> Canal(call[c])]
    BY <1>1 DEF Canal
  <1> QED
    BY <1>2 DEF Channel!canal

\* What callers see of one call c changes, and of no other.
LEMMA SeenCall ==
    ASSUME NEW c \in Callers, \A d \in Callers \ {c} : call'[d] = call[d]
    PROVE  [d \in Callers |-> Canal(call[d])]'
              = [[d \in Callers |-> Canal(call[d])] EXCEPT ![c] = Canal(call'[c])]
  BY DEF Canal

\* A call that goes on with its id is not seen by its caller.
LEMMA OngoingCall ==
    ASSUME NEW k, NEW l, k.pc # "livre", l.pc # "livre", l.id = k.id
    PROVE  Canal(l) = Canal(k)
  BY DEF Canal

\* The steps of a call: it is issued, it ends well or badly, or nobody sees it.
LEMMA CallRefines ==
    ASSUME Typed, Evidence, NEW c \in Callers,
           CallStep(c) \/ \E i \in Ids : Issue(c, i)
    PROVE  [Channel!Next]_(Channel!canal)
  <1> DEFINE seen == [d \in Callers |-> Canal(call[d])]
             k == call[c].id
  <1>1. call \in [Callers -> Call] /\ (call[c].pc # "livre" => k \in Ids)
    BY DEF Typed, TypeOK, CallHasId
  <1>2. ASSUME NEW i \in Ids, Prepare(c, i)
        PROVE  /\ call'[c].pc # "livre" /\ call'[c].id = i
               /\ \A d \in Callers \ {c} : call'[d] = call[d]
               /\ UNCHANGED <<executados, execucoes>>
    <2> DEFINE read == [IdleCall EXCEPT !.id = i, !.restaurado = ToAckRecord(comandosmqtt[i])]
    <2>1. \A p \in {"criar", "registrar", "reivindicar"} :
             [read EXCEPT !.pc = p].pc = p /\ [read EXCEPT !.pc = p].id = i
      BY DEF IdleCall
    <2>2. \E p \in {"criar", "registrar", "reivindicar"} :
             call' = [call EXCEPT ![c] = [read EXCEPT !.pc = p]]
      BY <1>2 DEF Prepare
    <2> HIDE DEF read
    <2>3. UNCHANGED <<executados, execucoes>>
      BY <1>2 DEF Prepare, espVars
    <2> QED
      BY <1>1, <2>1, <2>2, <2>3
  <1>3. ASSUME NEW i \in Ids, Issue(c, i) PROVE Channel!Next
    <2>1. Canal(call'[c]) = [id |-> i, estado |-> "em_curso"]
      BY <1>2, <1>3 DEF Issue, Canal
    <2>2. seen[c].estado # "em_curso"
      BY <1>3 DEF Issue, Canal
    <2>3. seen' = [seen EXCEPT ![c] = [id |-> i, estado |-> "em_curso"]]
      BY <1>2, <1>3, <2>1, SeenCall DEF Issue
    <2>4. Channel!Chamar(c, i)
      BY <1>2, <1>3, <2>2, <2>3 DEF Issue, Channel!Chamar
    <2> QED
      BY <2>4 DEF Channel!Next
  <1>4. ASSUME ReturnExecuted(c) PROVE Channel!Next
    <2>1. /\ call[c].pc # "livre" /\ k \in executados
          /\ call' = [call EXCEPT ![c] = [IdleCall EXCEPT !.id = k, !.sucesso = TRUE]]
          /\ UNCHANGED <<executados, execucoes>>
      BY <1>4 DEF ReturnExecuted, Evidence, CallEvidence, espVars
    <2>2. Canal(call'[c]) = [id |-> k, estado |-> "executado"]
      BY <1>1, <2>1 DEF Canal, IdleCall
    <2>3. seen[c] = [id |-> k, estado |-> "em_curso"]
      BY <2>1 DEF Canal
    <2>4. seen' = [seen EXCEPT ![c] = [id |-> k, estado |-> "executado"]]
      BY <1>1, <2>1, <2>2, SeenCall
    <2>5. [seen[c] EXCEPT !.estado = "executado"] = [id |-> k, estado |-> "executado"]
      BY <2>3
    <2>6. Channel!Responder(c)
      <3>1. [seen EXCEPT ![c].estado = "executado"] = seen'
        BY <2>4, <2>5
      <3> QED
        BY <2>1, <2>3, <3>1 DEF Channel!Responder
    <2> QED
      BY <2>6 DEF Channel!Next
  <1>5. ASSUME ReturnFailure(c) PROVE Channel!Next
    <2>1. /\ call[c].pc # "livre" /\ call' = [call EXCEPT ![c] = IdleCall]
          /\ UNCHANGED <<executados, execucoes>>
      BY <1>5 DEF ReturnFailure, espVars
    <2>2. Canal(call'[c]) = Channel!Livre
      BY <1>1, <2>1 DEF Canal, IdleCall, Channel!Livre
    <2>3. seen[c].estado = "em_curso"
      BY <2>1 DEF Canal
    <2>4. seen' = [seen EXCEPT ![c] = Channel!Livre]
      BY <1>1, <2>1, <2>2, SeenCall
    <2>5. Channel!Falhar(c)
      BY <2>1, <2>3, <2>4 DEF Channel!Falhar
    <2> QED
      BY <2>5 DEF Channel!Next
  <1>6. ASSUME \/ PrepareAgain(c) \/ PrepareCreate(c) \/ PrepareClaim(c) \/ Register(c)
               \/ Publish(c) \/ PubAck(c) \/ MarkPublished(c)
        PROVE  UNCHANGED Channel!canal
    <2>1. /\ call[c].pc # "livre" /\ call'[c].pc # "livre" /\ call'[c].id = k
          /\ \A d \in Callers \ {c} : call'[d] = call[d]
          /\ UNCHANGED <<executados, execucoes>>
      <3>1. CASE PrepareAgain(c)
        BY <1>1, <1>2, <3>1 DEF PrepareAgain
      <3>2. CASE PrepareCreate(c)
        BY <1>1, <3>2 DEF PrepareCreate, Call, espVars
      <3>3. CASE PrepareClaim(c)
        BY <1>1, <3>3 DEF PrepareClaim, Call, espVars
      <3>4. CASE Register(c)
        BY <1>1, <3>4 DEF Register, Call, espVars
      <3>5. CASE Publish(c) \/ PubAck(c) \/ MarkPublished(c)
        BY <1>1, <3>5 DEF Publish, PubAck, MarkPublished, Call, espVars
      <3> QED
        BY <1>6, <3>1, <3>2, <3>3, <3>4, <3>5
    <2>2. \A d \in Callers : Canal(call'[d]) = Canal(call[d])
      BY <2>1, OngoingCall
    <2> QED
      BY <2>1, <2>2, UnseenStep
  <1> QED
    BY <1>3, <1>4, <1>5, <1>6 DEF CallStep

\* The controller executes only what its cache does not hold, which by Once
\* it has not executed since it booted; whatever else it does is not seen.
LEMMA EspRefines ==
    ASSUME Typed, Once, RecentCommandCount >= Cardinality(Ids), NEW i \in Ids, EspHandle(i)
    PROVE  [Channel!Next]_(Channel!canal)
  <1>1. call' = call
    BY DEF EspHandle, apiVars
  <1>2. CASE UNCHANGED <<executados, execucoes>>
    BY <1>1, <1>2, UnseenStep
  <1>3. CASE /\ ackCache[i] = NoAck
             /\ execucoes' = [execucoes EXCEPT ![i] = IF @ < 2 THEN @ + 1 ELSE 2]
             /\ executados' = executados \cup {i}
    <2>1. execucoes[i] = 0
      BY <1>3 DEF Once, Typed, TypeOK
    <2>2. execucoes' = [execucoes EXCEPT ![i] = 1]
      BY <1>3, <2>1
    <2>3. Channel!Executar(i)
      BY <1>1, <1>3, <2>1, <2>2 DEF Channel!Executar, Canal
    <2> QED
      BY <2>3 DEF Channel!Next
  <1> QED
    BY <1>2, <1>3 DEF EspHandle, FindCachedAck, espVars

\* The two restarts are the channel's; the ACK handler, the timers and the
\* network are not seen.
LEMMA OtherRefines ==
    ASSUME Typed,
           \/ UNCHANGED vars
           \/ \E c \in Callers : PublishFails(c) \/ Redeliver(c)
           \/ \E i \in Ids, s \in AckStatus : AckPersist(i, s) \/ AckSettle(i, s)
           \/ \E i \in Ids : Timeout(i) \/ Expire(i) \/ LoseCommand(i)
           \/ \E m \in acks : LoseAck(m)
           \/ ConnectionDrops \/ ApiRestart \/ EspReboot
    PROVE  [Channel!Next]_(Channel!canal)
  <1>1. call \in [Callers -> Call] /\ "ERRO" \in Outcome /\ "TIMEOUT" \in Outcome
    BY DEF Typed, TypeOK, Outcome
  <1>2. ASSUME \A c \in Callers : /\ call'[c].pc = call[c].pc /\ call'[c].id = call[c].id
                                  /\ call'[c].sucesso = call[c].sucesso,
               UNCHANGED <<executados, execucoes>>
        PROVE  UNCHANGED Channel!canal
    BY <1>2, UnseenStep DEF Canal
  <1>3. ASSUME NEW i \in Ids, NEW s \in AckStatus, AckSettle(i, s) PROVE UNCHANGED Channel!canal
    <2>1. CASE call' = call
      BY <1>2, <1>3, <2>1 DEF AckSettle, espVars
    <2>2. CASE s # "RECEBIDO" /\ call' = Settled(call, i, OutcomeOf(s))
      <3>1. OutcomeOf(s) \in Outcome
        BY <2>2 DEF OutcomeOf, Outcome, AckStatus
      <3> QED
        BY <1>1, <1>2, <1>3, <2>2, <3>1, SettledLemma DEF AckSettle, espVars
    <2> QED
      BY <1>3, <2>1, <2>2 DEF AckSettle
  <1>4. ASSUME NEW i \in Ids, Timeout(i) PROVE UNCHANGED Channel!canal
    BY <1>1, <1>2, <1>4, SettledLemma DEF Timeout, espVars
  <1>5. ASSUME ConnectionDrops PROVE UNCHANGED Channel!canal
    <2>1. \A c \in Callers : /\ call'[c].id = call[c].id /\ call'[c].sucesso = call[c].sucesso
                             /\ \/ call'[c].pc = call[c].pc
                                \/ call[c].pc = "puback" /\ call'[c].pc = "sem_puback"
      BY <1>5, DropLemma DEF Typed
    <2>2. \A c \in Callers : Canal(call'[c]) = Canal(call[c])
      BY <2>1 DEF Canal
    <2> QED
      BY <1>5, <2>2, UnseenStep DEF ConnectionDrops, espVars
  <1>10. ASSUME NEW c \in Callers, Redeliver(c) PROVE UNCHANGED Channel!canal
    <2>1. /\ call[c].pc # "livre" /\ call'[c].pc # "livre" /\ call'[c].id = call[c].id
          /\ \A d \in Callers \ {c} : call'[d] = call[d]
      BY <1>1, <1>10 DEF Redeliver, Call
    <2>2. \A d \in Callers : Canal(call'[d]) = Canal(call[d])
      BY <2>1, OngoingCall
    <2> QED
      BY <1>10, <2>2, UnseenStep DEF Redeliver, espVars
  <1>6. ASSUME NEW c \in Callers, PublishFails(c) PROVE UNCHANGED Channel!canal
    <2> DEFINE k == call[c].id
    <2>1. k \in Ids /\ call[c].pc # "livre" /\ UNCHANGED <<executados, execucoes>>
      BY <1>6 DEF PublishFails, Typed, CallHasId, espVars
    <2>2. Settled(call, k, "ERRO") \in [Callers -> Call]
          /\ \A d \in Callers : LET l == Settled(call, k, "ERRO")[d] IN
                l.pc = call[d].pc /\ l.id = call[d].id /\ l.sucesso = call[d].sucesso
      BY <1>1, <2>1, SettledLemma
    <2>3. PICK calls \in {call, Settled(call, k, "ERRO")} :
             call' = [calls EXCEPT ![c].pc = "falhar", ![c].promessa = "ERRO"]
      BY <1>6 DEF PublishFails
    <2>4. /\ calls \in [Callers -> Call]
          /\ \A d \in Callers : calls[d].pc = call[d].pc /\ calls[d].id = call[d].id
                                /\ calls[d].sucesso = call[d].sucesso
      BY <1>1, <2>2
    <2>5. call' = [calls EXCEPT ![c] = [calls[c] EXCEPT !.pc = "falhar", !.promessa = "ERRO"]]
      BY <2>3
    <2>6. [calls[c] EXCEPT !.pc = "falhar", !.promessa = "ERRO"].pc = "falhar"
          /\ [calls[c] EXCEPT !.pc = "falhar", !.promessa = "ERRO"].id = k
      BY <2>4 DEF Call
    <2>7. Canal(call'[c]) = Canal(call[c])
      BY <2>1, <2>4, <2>5, <2>6, OngoingCall
    <2>8. \A d \in Callers \ {c} : Canal(call'[d]) = Canal(call[d])
      BY <2>4, <2>5 DEF Canal
    <2> QED
      BY <2>1, <2>7, <2>8, UnseenStep
  <1>7. ASSUME ApiRestart PROVE Channel!Next
    <2>1. Canal(IdleCall) = Channel!Livre
      BY DEF Canal, IdleCall, Channel!Livre
    <2>2. [c \in Callers |-> Canal(call[c])]' = [c \in Callers |-> Channel!Livre]
      BY <1>7, <2>1 DEF ApiRestart, Canal
    <2>3. Channel!ApiReinicia
      BY <1>7, <2>2 DEF ApiRestart, Channel!ApiReinicia, espVars
    <2> QED
      BY <2>3 DEF Channel!Next
  <1>8. ASSUME EspReboot PROVE Channel!Next
    <2>1. Channel!ControladorReinicia
      BY <1>8 DEF EspReboot, Channel!ControladorReinicia, apiVars, Canal
    <2> QED
      BY <2>1 DEF Channel!Next
  <1>9. CASE \/ UNCHANGED vars
             \/ \E i \in Ids, s \in AckStatus : AckPersist(i, s)
             \/ \E i \in Ids : Expire(i) \/ LoseCommand(i)
             \/ \E m \in acks : LoseAck(m)
    BY <1>2, <1>9 DEF vars, AckPersist, Expire, LoseCommand, LoseAck, apiVars, espVars
  <1> QED
    BY <1>3, <1>4, <1>5, <1>6, <1>7, <1>8, <1>9, <1>10

\* While the firmware's cache has room for the ids in use, the table, the two
\* memories, the broker and the firmware together are the channel that callers
\* of publishAndAwaitAck rely on: initial states map to its initial state and
\* every step to a step of it or to none.
THEOREM ChannelTheorem ==
    ASSUME RecentCommandCount >= Cardinality(Ids)
    PROVE  Spec => ImplementsChannel
  <1>1. Init => Typed /\ Evidence /\ Once
    BY InitTyped DEF Init, Evidence, CallEvidence, IdleCall, NoAck, Once
  <1>2. Init => Channel!Init
    BY DEF Init, Channel!Init, Channel!Livre, Canal, IdleCall
  <1>3. Typed /\ Evidence /\ Once /\ [Next]_vars => [Channel!Next]_(Channel!canal)
    BY CallRefines, EspRefines, OtherRefines DEF Next
  <1>4. Typed /\ Once /\ [Next]_vars => Once'
    BY OnceStep
  <1> QED
    BY <1>1, <1>2, <1>3, <1>4, EvidenceStep, PTL DEF Spec, ImplementsChannel, Channel!Spec
=============================================================================
