---------------------- MODULE AuxiliarySubsystemProofs ----------------------
(***************************************************************************)
(* Theorems of AuxiliarySubsystem: its types, the block of the general     *)
(* closure, and the one tank on the line of an automatic process.          *)
(*                                                                         *)
(* In AUTOMATICO a valve is only opened, and the pump only turned on, by   *)
(* the scheduler, whose command is on the row of the subsystem.  The row   *)
(* changes tank through no tank: `Volta` says so of what a rollback        *)
(* restores and `Escolhe` of what the scheduler has in hand.  A telemetry  *)
(* that shows the tank of the row alone is then true of the outputs        *)
(* (`Confere`), and a pump is on over the one valve the telemetry shows    *)
(* (`Isolado`), although every other telemetry may be stale.               *)
(***************************************************************************)
EXTENDS AuxiliarySubsystem, FiniteSetTheorems, TLAPS

\* A command that has been reserved and not yet answered for.
Reservado == {"revalidar", "esp", "resposta", "recuar", "desfazer"}

\* A person turns nothing on.
Restrito == \A u \in Usuarios : exec[u].acao \notin Energizam

\* What a rollback would restore is the tank of the row, or none.
Volta ==
    \A a \in Atores :
        exec[a].pc \in Reservado /\ a \in lido[Sub] => antes[Sub].tanque \in {Nenhum, sub.tanque}

\* The command of the scheduler energises the tank of the row, or the row has
\* none; the telemetry it was decided on showed nothing open, or is true.
Escolhe ==
    exec[S].acao \in Energizam =>
        /\ exec[S].pc = "reservar" /\ S \in lido[Sub] =>
             /\ sub.tanque \in {Nenhum, exec[S].tanque}
             /\ sub.tanque = Nenhum => tele.abertas = {} \/ hw.abertas \subseteq tele.abertas
        /\ exec[S].pc \in {"revalidar", "esp"} => sub.tanque \in {Nenhum, exec[S].tanque}

\* A telemetry that shows the valve of the row alone is true.
Confere == sub.tanque # Nenhum /\ tele.abertas = {sub.tanque} => hw.abertas \subseteq {sub.tanque}

\* The pump is about to be turned on over one valve, which the telemetry shows.
Ligando ==
    exec[S].pc = "esp" /\ exec[S].acao = "LIGAR" =>
        /\ hw.abertas \subseteq {exec[S].tanque}
        /\ hw.abertas # {} => tele.abertas = {exec[S].tanque}

\* A valve is about to be opened beside no other while the pump is on.
Abrindo ==
    exec[S].pc = "esp" /\ exec[S].acao = "ABRIR" /\ hw.bomba => hw.abertas = {exec[S].tanque}

\* The pump is on over one valve, which the telemetry shows.
Isolado == hw.bomba => \E t \in Tanques : hw.abertas = {t} /\ tele.abertas = {t}

Automatica ==
    modo = "AUTOMATICO" =>
        Restrito /\ Volta /\ Escolhe /\ Confere /\ Ligando /\ Abrindo /\ Isolado

----------------------------------------------------------------------------
(* Types.  A reservation remembers the status of a row as a status of that *)
(* row, and every command but DESLIGAR names a tank.                       *)

Rows == {Sub} \cup Tanques
SubRow == [status : SubStatus, tanque : Tanques \cup {Nenhum}, lease : Lease]
TanqueRow == [status : TanqueStatus, lease : Lease, iniciado : BOOLEAN, eficaz : BOOLEAN]
Saidas == [principal : BOOLEAN, bomba : BOOLEAN, abertas : SUBSET Tanques]
Snapshot == [principal : BOOLEAN, bomba : BOOLEAN, abertas : SUBSET Tanques, recente : BOOLEAN]

Versoes ==
    /\ lido \in [Rows -> SUBSET Atores]
    /\ antes \in [Rows -> [status : SubStatus \cup TanqueStatus, tanque : Tanques \cup {Nenhum}]]
    /\ antes[Sub].status \in SubStatus
    /\ \A t \in Tanques : antes[t].status \in TanqueStatus
Comandos ==
    /\ exec \in [Atores -> Exec]
    /\ \A a \in Atores : exec[a].acao = "DESLIGAR" <=> exec[a].tanque = Nenhum
Estados ==
    /\ processo \in {"EM_EXECUCAO", "PAUSANDO", "PAUSADO", "ENCERRANDO", "ENCERRADO"}
    /\ modo \in {r.modo : r \in Regimes}
    /\ alarme \in BOOLEAN
    /\ eventos \in Nat /\ pedidos \in Nat
Typed ==
    /\ Estados /\ Versoes /\ Comandos
    /\ sub \in SubRow /\ tanques \in [Tanques -> TanqueRow]
    /\ hw \in Saidas /\ tele \in Snapshot

\* An event or a request spends one of its budget: Ocorre and the requests.
LEMMA Conta ==
    ASSUME NEW n \in Nat, n > 0 PROVE n - 1 \in Nat
  OBVIOUS

\* No lease is a lease.
LEMMA LeaseNenhum == SemLease \in Lease
  BY DEF SemLease, Lease

\* A write of rows increments their versions: Escreve.
LEMMA EscreveTipo ==
    ASSUME Versoes, NEW autores \in SUBSET Atores, NEW rows, Escreve(autores, rows)
    PROVE  Versoes'
  <1>1. SemAntes \in [status : SubStatus \cap TanqueStatus, tanque : {Nenhum}]
    BY DEF SemAntes, SubStatus, TanqueStatus
  <1>2. lido' \in [Rows -> SUBSET Atores]
    BY DEF Versoes, Escreve
  <1>3. /\ antes' \in [Rows -> [status : SubStatus \cup TanqueStatus, tanque : Tanques \cup {Nenhum}]]
        /\ antes'[Sub].status \in SubStatus
        /\ \A t \in Tanques : antes'[t].status \in TanqueStatus
    <2>1. DOMAIN lido = Rows
      BY DEF Versoes
    <2>2. SemAntes.status \in SubStatus /\ SemAntes.status \in TanqueStatus
      BY <1>1
    <2>3. SemAntes \in [status : SubStatus \cup TanqueStatus, tanque : Tanques \cup {Nenhum}]
      BY <1>1
    <2>4. antes' = [r \in Rows |-> IF r \in rows THEN SemAntes ELSE antes[r]]
      BY <2>1 DEF Escreve
    <2> QED BY <2>2, <2>3, <2>4 DEF Versoes, Rows
  <1> QED BY <1>2, <1>3 DEF Versoes

\* The scheduler's reading is forgotten: Esquece.
LEMMA EsqueceTipo ==
    ASSUME Versoes, NEW a, Esquece(a) PROVE Versoes'
  BY DEF Versoes, Esquece

\* A command goes on: Vai.
LEMMA VaiTipo ==
    ASSUME Comandos, NEW a \in Atores, NEW pc, Vai(a, pc),
           pc \in {"livre", "decidir", "reservar", "revalidar", "esp", "resposta",
                   "recuar", "desfazer", "falhar", "inconsistente", "bloquear"}
    PROVE  Comandos'
  <1> DEFINE e == [exec[a] EXCEPT !.pc = pc]
  <1>1. e \in Exec /\ e.acao = exec[a].acao /\ e.tanque = exec[a].tanque
    BY DEF Comandos, Exec
  <1>2. exec' = [exec EXCEPT ![a] = e]
    BY DEF Vai, Comandos
  <1> HIDE DEF e
  <1> QED BY <1>1, <1>2 DEF Comandos

\* A command ends: Termina.
LEMMA TerminaTipo ==
    ASSUME Comandos, NEW a \in Atores, Termina(a) PROVE Comandos'
  <1>1. Livre \in Exec /\ Livre.acao = "DESLIGAR" /\ Livre.tanque = Nenhum
    BY DEF Livre, Exec, Bloqueios, Acoes, Energizam
  <1> QED BY <1>1 DEF Comandos, Termina

\* A reservation writes the row of the subsystem and keeps what it replaces.
LEMMA ReservaTipo ==
    ASSUME AuxiliaryAssumption, Versoes, Comandos, sub \in SubRow,
           tanques \in [Tanques -> TanqueRow],
           NEW a \in Atores, NEW acao \in Acoes, NEW t \in Tanques \cup {Nenhum},
           NEW b \in Bloqueios, t = Nenhum <=> acao = "DESLIGAR",
           ReserveCommand(a, acao, t, b)
    PROVE  Versoes' /\ Comandos' /\ sub' \in SubRow
  <1>1. sub' \in SubRow
    <2>1. acao \in Energizam => t \in Tanques \cup {Nenhum}
      OBVIOUS
    <2> QED BY <2>1 DEF ReserveCommand, SubRow, SubStatus
  <1>2. Comandos'
    <2> DEFINE e == [pc |-> "revalidar", acao |-> acao, tanque |-> t, bloqueia |-> b,
                     corrente |-> exec[a].corrente]
    <2>1. exec[a].corrente \in Tanques \cup {Nenhum}
      BY DEF Comandos, Exec
    <2>2. e \in Exec /\ e.acao = acao /\ e.tanque = t
      BY <2>1 DEF Exec
    <2>3. exec' = [exec EXCEPT ![a] = e]
      BY DEF ReserveCommand
    <2> HIDE DEF e
    <2> QED BY <2>2, <2>3 DEF Comandos
  <1>3. Versoes'
    <2> DEFINE R == [status : SubStatus \cup TanqueStatus, tanque : Tanques \cup {Nenhum}]
    <2> DEFINE deSub == [status |-> sub.status, tanque |-> sub.tanque]
    <2> DEFINE deTanque == [status |-> tanques[t].status, tanque |-> Nenhum]
    <2>1. DOMAIN lido = Rows /\ Sub \notin Tanques
      BY DEF Versoes, AuxiliaryAssumption
    <2>2. deSub \in R /\ deSub.status \in SubStatus
      BY DEF SubRow
    <2>3. t \in Tanques => deTanque \in R /\ deTanque.status \in TanqueStatus
      <3>1. t \in Tanques => tanques[t].status \in TanqueStatus
        BY DEF TanqueRow
      <3> QED BY <3>1
    <2>4. lido' = [r \in Rows |-> IF r \in Linhas(t) THEN {a} ELSE lido[r]]
      BY <2>1 DEF ReserveCommand
    <2>5. antes' = [r \in Rows |-> IF r = Sub THEN deSub ELSE IF r = t THEN deTanque ELSE antes[r]]
      BY <2>1 DEF ReserveCommand
    <2>6. lido' \in [Rows -> SUBSET Atores]
      BY <2>4 DEF Versoes
    <2> HIDE DEF deSub, deTanque
    <2>7. antes' \in [Rows -> R]
      BY <2>1, <2>2, <2>3, <2>5 DEF Versoes, Rows
    <2>8. antes'[Sub].status \in SubStatus /\ \A x \in Tanques : antes'[x].status \in TanqueStatus
      BY <2>1, <2>2, <2>3, <2>5 DEF Versoes, Rows
    <2> QED BY <2>6, <2>7, <2>8 DEF Versoes
  <1> QED BY <1>1, <1>2, <1>3

----------------------------------------------------------------------------

\* The start of a process is well typed.
LEMMA InitTyped == AuxiliaryAssumption /\ Init => Typed
  <1> SUFFICES ASSUME AuxiliaryAssumption, Init PROVE Typed
    OBVIOUS
  <1>1. Estados
    <2>1. PICK r \in Regimes : modo = r.modo /\ eventos = r.eventos /\ pedidos = r.pedidos
      BY DEF Init
    <2> QED BY <2>1 DEF Init, Estados, AuxiliaryAssumption
  <1>2. Versoes
    <2>1. SemAntes \in [status : SubStatus \cap TanqueStatus, tanque : {Nenhum}]
      BY DEF SemAntes, SubStatus, TanqueStatus
    <2> QED BY <2>1 DEF Init, Versoes, Rows
  <1>3. Comandos
    <2>1. Livre \in Exec /\ Livre.acao = "DESLIGAR" /\ Livre.tanque = Nenhum
      BY DEF Livre, Exec, Bloqueios, Acoes, Energizam
    <2> QED BY <2>1 DEF Init, Comandos
  <1>4. sub \in SubRow /\ tanques \in [Tanques -> TanqueRow]
    BY LeaseNenhum DEF Init, SubRow, TanqueRow, SubStatus, TanqueStatus
  <1>5. hw \in Saidas /\ tele \in Snapshot
    BY DEF Init, Saidas, Snapshot
  <1> QED BY <1>1, <1>2, <1>3, <1>4, <1>5 DEF Typed

\* The transitions and the closure reset the auxiliary rows: Neutraliza.
LEMMA NeutralizaTipo ==
    ASSUME Typed, NEW s \in SubStatus, NEW st \in TanqueStatus, NEW reinicia \in BOOLEAN,
           Neutraliza(s, st, reinicia)
    PROVE  Versoes' /\ sub' \in SubRow /\ tanques' \in [Tanques -> TanqueRow]
  <1>1. sub' \in SubRow
    BY LeaseNenhum DEF Neutraliza, SubRow
  <1>2. tanques' \in [Tanques -> TanqueRow]
    <2> DEFINE n(t) == [tanques[t] EXCEPT !.status = st, !.lease = SemLease,
                             !.iniciado = @ /\ ~reinicia, !.eficaz = @ /\ ~reinicia]
    <2>1. ASSUME NEW t \in Tanques PROVE n(t) \in TanqueRow
      <3>1. tanques[t] \in TanqueRow
        BY DEF Typed
      <3> QED BY <3>1, LeaseNenhum DEF TanqueRow
    <2>2. tanques' = [t \in Tanques |-> n(t)]
      BY DEF Neutraliza
    <2> QED BY <2>1, <2>2
  <1>3. Versoes'
    BY EscreveTipo DEF Neutraliza, Typed
  <1> QED BY <1>1, <1>2, <1>3

\* A telemetry of the outputs is a snapshot.
LEMMA TelemetriaTipo ==
    ASSUME NEW s \in Saidas PROVE Telemetria(s) \in Snapshot
  BY DEF Saidas, Snapshot, Telemetria

\* A person's lease of the pump or of a valve.
LEMMA LeaseTyped ==
    ASSUME AuxiliaryAssumption, Typed, NEW u \in Usuarios,
           \/ AcquirePumpControl(u) \/ ReleasePumpControl(u)
           \/ \E t \in Tanques : AcquireValveControl(u, t) \/ ReleaseValveControl(u, t)
    PROVE  Typed'
  <1>0. [dono |-> u, vencido |-> FALSE] \in Lease
    BY DEF Lease
  <1>1. ASSUME AcquirePumpControl(u) PROVE Typed'
    <2>1. sub' \in SubRow
      BY <1>1, <1>0 DEF AcquirePumpControl, Typed, SubRow, SubStatus
    <2>2. Versoes'
      BY <1>1, EscreveTipo DEF AcquirePumpControl, Typed
    <2>3. Estados'
      BY <1>1, Conta DEF AcquirePumpControl, Typed, Estados, ambiente
    <2> QED BY <1>1, <2>1, <2>2, <2>3 DEF AcquirePumpControl, Typed, Comandos
  <1>2. ASSUME ReleasePumpControl(u) PROVE Typed'
    <2>1. sub' \in SubRow
      BY <1>2, LeaseNenhum DEF ReleasePumpControl, Typed, SubRow, SubStatus
    <2>2. Versoes'
      BY <1>2, EscreveTipo DEF ReleasePumpControl, Typed
    <2>3. Estados'
      BY <1>2 DEF ReleasePumpControl, Typed, Estados, ambiente, contas
    <2> QED BY <1>2, <2>1, <2>2, <2>3 DEF ReleasePumpControl, Typed, Comandos
  <1>3. ASSUME NEW t \in Tanques, NEW l \in Lease, tanques' = [tanques EXCEPT ![t].lease = l]
        PROVE  tanques' \in [Tanques -> TanqueRow]
    <2> DEFINE n == [tanques[t] EXCEPT !.lease = l]
    <2>1. tanques[t] \in TanqueRow
      BY DEF Typed
    <2>2. n \in TanqueRow
      BY <2>1 DEF TanqueRow
    <2>3. tanques' = [tanques EXCEPT ![t] = n]
      BY <1>3 DEF Typed
    <2> HIDE DEF n
    <2> QED BY <2>2, <2>3 DEF Typed
  <1>4. ASSUME NEW t \in Tanques, AcquireValveControl(u, t) PROVE Typed'
    <2>1. tanques' \in [Tanques -> TanqueRow]
      BY <1>4, <1>3, <1>0 DEF AcquireValveControl
    <2>2. Versoes'
      BY <1>4, EscreveTipo DEF AcquireValveControl, Typed
    <2>3. Estados'
      BY <1>4, Conta DEF AcquireValveControl, Typed, Estados, ambiente
    <2> QED BY <1>4, <2>1, <2>2, <2>3 DEF AcquireValveControl, Typed, Comandos
  <1>5. ASSUME NEW t \in Tanques, ReleaseValveControl(u, t) PROVE Typed'
    <2>1. tanques' \in [Tanques -> TanqueRow]
      BY <1>5, <1>3, LeaseNenhum DEF ReleaseValveControl
    <2>2. Versoes'
      BY <1>5, EscreveTipo DEF ReleaseValveControl, Typed
    <2>3. Estados'
      BY <1>5 DEF ReleaseValveControl, Typed, Estados, ambiente, contas
    <2> QED BY <1>5, <2>1, <2>2, <2>3 DEF ReleaseValveControl, Typed, Comandos
  <1> QED BY <1>1, <1>2, <1>4, <1>5

\* The reservation of a person's request and of the scheduler's command.
LEMMA PedirTyped ==
    ASSUME AuxiliaryAssumption, Typed, NEW u \in Usuarios, NEW acao \in Acoes,
           NEW t \in Tanques \cup {Nenhum}, Pedir(u, acao, t)
    PROVE  Typed'
  <1>1. Versoes' /\ Comandos' /\ sub' \in SubRow
    <2>1. u \in Atores /\ "nao" \in Bloqueios
      BY DEF Atores, Bloqueios
    <2> QED BY <2>1, ReservaTipo DEF Pedir, Typed
  <1>2. Estados'
    BY Conta DEF Pedir, Typed, Estados, ambiente
  <1> QED BY <1>1, <1>2 DEF Pedir, Typed

\* The reservation of the scheduler's command, or its refusal: Reservar.
LEMMA ReservarTyped ==
    ASSUME AuxiliaryAssumption, Typed, Reservar PROVE Typed'
  <1>0. S \in Atores
    BY DEF Atores, S
  <1>1. Versoes' /\ Comandos' /\ sub' \in SubRow
    <2>1. CASE ReserveCommand(S, exec[S].acao, exec[S].tanque, exec[S].bloqueia)
      <3>1. /\ exec[S].acao \in Acoes /\ exec[S].tanque \in Tanques \cup {Nenhum}
            /\ exec[S].bloqueia \in Bloqueios
            /\ exec[S].tanque = Nenhum <=> exec[S].acao = "DESLIGAR"
        BY <1>0 DEF Typed, Comandos, Exec
      <3> QED BY <1>0, <2>1, <3>1, ReservaTipo DEF Typed
    <2>2. CASE Termina(S) /\ Esquece(S) /\ UNCHANGED sub
      BY <1>0, <2>2, TerminaTipo, EsqueceTipo DEF Typed
    <2> QED BY <2>1, <2>2 DEF Reservar
  <1> QED BY <1>1 DEF Reservar, Typed, Estados, ambiente, contas

\* The steps of a command after its reservation.
LEMMA CommandTyped ==
    ASSUME AuxiliaryAssumption, Typed, NEW a \in Atores, Command(a)
    PROVE  Typed'
  <1>0. exec[a] \in Exec /\ Versoes /\ Comandos
    BY DEF Typed, Comandos
  <1>1. ASSUME Revalidar(a) PROVE Typed'
    <2>1. PICK pc \in {"esp", "recuar"} : Vai(a, pc)
      BY <1>1 DEF Revalidar
    <2>2. Comandos'
      BY <1>0, <2>1, VaiTipo
    <2> QED BY <1>1, <2>2 DEF Revalidar, Typed, Estados, Versoes, linhas, ambiente, contas
  <1>2. ASSUME EspExecuta(a) PROVE Typed'
    <2>1. Comandos'
      BY <1>0, <1>2, VaiTipo DEF EspExecuta
    <2>2. hw' \in Saidas
      <3>1. CASE UNCHANGED hw
        BY <3>1 DEF Typed
      <3>2. CASE hw' = EspFaz(exec[a].acao, exec[a].tanque)
        <4>1. hw \in Saidas /\ exec[a].acao \in Acoes
          BY <1>0 DEF Typed, Exec
        <4>2. exec[a].acao # "DESLIGAR" => exec[a].tanque \in Tanques
          BY <1>0 DEF Comandos, Exec
        <4> QED BY <3>2, <4>1, <4>2 DEF EspFaz, Saidas, Acoes, Energizam
      <3> QED BY <1>2, <3>1, <3>2 DEF EspExecuta
    <2> QED BY <1>2, <2>1, <2>2 DEF EspExecuta, Typed, Estados, Versoes, linhas, ambiente, contas
  <1>3. ASSUME SemResposta(a) PROVE Typed'
    <2>1. Comandos'
      BY <1>0, <1>3, VaiTipo DEF SemResposta
    <2>2. tele' \in Snapshot
      <3>1. [tele EXCEPT !.recente = FALSE] \in Snapshot
        BY DEF Typed, Snapshot
      <3>2. Telemetria(hw) \in Snapshot
        BY TelemetriaTipo DEF Typed
      <3> QED BY <1>3, <3>1, <3>2 DEF SemResposta, TeleAposEspera
    <2>3. Estados'
      BY <1>3, Conta DEF SemResposta, Ocorre, Typed, Estados, ambiente
    <2> QED BY <1>3, <2>1, <2>2, <2>3 DEF SemResposta, Typed, Versoes, linhas
  <1>4. ASSUME Finalizar(a) PROVE Typed'
    <2>1. Comandos'
      BY <1>0, <1>4, VaiTipo, TerminaTipo DEF Finalizar
    <2>2. Versoes' /\ sub' \in SubRow /\ tanques' \in [Tanques -> TanqueRow]
      <3>1. CASE UNCHANGED linhas
        BY <1>0, <3>1 DEF linhas, Typed, Versoes
      <3>2. CASE ~ UNCHANGED linhas
        <4>1. Versoes'
          BY <1>0, <1>4, <3>2, EscreveTipo DEF Finalizar
        <4>2. sub' \in SubRow
          <5>1. SubFinal(exec[a].acao) \in SubStatus
            BY <1>0 DEF SubFinal, Exec, SubStatus
          <5> HIDE DEF SubFinal
          <5> QED BY <1>4, <3>2, <5>1 DEF Finalizar, Typed, SubRow
        <4>3. tanques' \in [Tanques -> TanqueRow]
          <5>1. CASE UNCHANGED tanques
            BY <5>1 DEF Typed
          <5>2. CASE exec[a].tanque \in Tanques
            <6>1. PICK t : t = exec[a].tanque
              OBVIOUS
            <6>2. tanques[t] \in TanqueRow
              BY <5>2, <6>1 DEF Typed
            <6>3. ASSUME NEW at \in BOOLEAN PROVE TanqueFinal(exec[a].acao, t, at) \in TanqueRow
              BY <6>2 DEF TanqueFinal, TanqueRow, TanqueStatus
            <6>4. \/ UNCHANGED tanques
                  \/ \E at \in BOOLEAN :
                       tanques' = [tanques EXCEPT ![t] = TanqueFinal(exec[a].acao, t, at)]
              BY <1>4, <3>2, <6>1 DEF Finalizar
            <6> QED BY <6>3, <6>4 DEF Typed
          <5>3. exec[a].tanque = Nenhum \/ exec[a].tanque \in Tanques
            BY <1>0 DEF Exec
          <5> QED BY <1>4, <3>2, <5>1, <5>2, <5>3 DEF Finalizar
        <4> QED BY <4>1, <4>2, <4>3
      <3> QED BY <3>1, <3>2
    <2> QED BY <1>4, <2>1, <2>2 DEF Finalizar, Typed, Estados, ambiente, contas
  <1>5. ASSUME MarkInconsistentAfterAck(a) PROVE Typed'
    <2>1. Comandos'
      BY <1>0, <1>5, TerminaTipo DEF MarkInconsistentAfterAck
    <2>2. Versoes'
      BY <1>0, <1>5, EscreveTipo DEF MarkInconsistentAfterAck
    <2>3. sub' \in SubRow
      BY <1>5 DEF MarkInconsistentAfterAck, Typed, SubRow, SubStatus
    <2>4. tanques' \in [Tanques -> TanqueRow]
      <3>1. \A t \in Tanques : [tanques[t] EXCEPT !.status = "FALHA"] \in TanqueRow
        BY DEF Typed, TanqueRow, TanqueStatus
      <3> QED BY <1>5, <3>1 DEF MarkInconsistentAfterAck, Typed
    <2> QED BY <1>5, <2>1, <2>2, <2>3, <2>4 DEF MarkInconsistentAfterAck, Typed, Estados, ambiente, contas
  <1>6. ASSUME Desfazer(a) PROVE Typed'
    <2>1. Comandos'
      BY <1>0, <1>6, VaiTipo, TerminaTipo DEF Desfazer
    <2>2. Versoes'
      BY <1>0, <1>6, EscreveTipo DEF Desfazer
    <2>3. sub' \in SubRow
      <3>1. antes[Sub].status \in SubStatus /\ antes[Sub].tanque \in Tanques \cup {Nenhum}
        BY <1>0 DEF Versoes, Rows
      <3> QED BY <1>6, <3>1 DEF Desfazer, SubDesfeito, Typed, SubRow, SubStatus
    <2>4. tanques' \in [Tanques -> TanqueRow]
      <3> DEFINE n(t) == IF t # exec[a].tanque THEN tanques[t]
                         ELSE [tanques[t] EXCEPT !.status = IF a \in lido[t] THEN antes[t].status
                                                            ELSE "FALHA"]
      <3>1. ASSUME NEW t \in Tanques PROVE n(t) \in TanqueRow
        <4>1. tanques[t] \in TanqueRow /\ antes[t].status \in TanqueStatus
          BY <1>0 DEF Typed, Versoes
        <4> QED BY <4>1 DEF TanqueRow, TanqueStatus
      <3>2. tanques' = [t \in Tanques |-> n(t)]
        BY <1>6 DEF Desfazer
      <3> QED BY <3>1, <3>2
    <2> QED BY <1>6, <2>1, <2>2, <2>3, <2>4 DEF Desfazer, Typed, Estados, ambiente, contas
  <1> QED BY <1>1, <1>2, <1>3, <1>4, <1>5, <1>6 DEF Command

\* The first step of a cycle: expired leases and the queue.
LEMMA SynchronizeTyped ==
    ASSUME Typed, SynchronizeCandidates PROVE Typed'
  <1>0. S \in Atores /\ Versoes /\ Comandos
    BY DEF Atores, S, Typed
  <1>1. ASSUME NEW l \in Lease PROVE SemVencido(l) \in Lease
    BY LeaseNenhum DEF SemVencido
  <1> HIDE DEF SemVencido
  <1>2. PICK estagnados \in SUBSET Tanques :
          /\ sub' = [sub EXCEPT !.lease = SemVencido(@)]
          /\ tanques' = [t \in Tanques |->
                [NaFila(t, EmExecucao /\ t \in estagnados) EXCEPT !.lease = SemVencido(@)]]
    BY DEF SynchronizeCandidates
  <1>3. sub' \in SubRow
    <2>1. sub.lease \in Lease
      BY DEF Typed, SubRow
    <2> QED BY <1>1, <1>2, <2>1 DEF Typed, SubRow
  <1>4. tanques' \in [Tanques -> TanqueRow]
    <2>1. ASSUME NEW t \in Tanques, NEW d \in BOOLEAN
          PROVE  NaFila(t, d) \in TanqueRow
      <3>1. tanques[t] \in TanqueRow
        BY DEF Typed
      <3> QED BY <3>1 DEF NaFila, TanqueRow, TanqueStatus
    <2>2. ASSUME NEW t \in Tanques
          PROVE  [NaFila(t, EmExecucao /\ t \in estagnados) EXCEPT !.lease = SemVencido(@)] \in TanqueRow
      <3> DEFINE n == NaFila(t, EmExecucao /\ t \in estagnados)
      <3>1. n \in TanqueRow
        BY <2>1 DEF EmExecucao
      <3> HIDE DEF n
      <3>2. [n EXCEPT !.lease = SemVencido(@)] \in TanqueRow
        BY <1>1, <3>1 DEF TanqueRow
      <3> QED BY <3>2 DEF n
    <2> QED BY <1>2, <2>2
  <1>5. Versoes'
    <2>1. PICK rows : Escreve({}, rows)
      BY DEF SynchronizeCandidates
    <2> QED BY <1>0, <2>1, EscreveTipo
  <1>6. Comandos'
    BY <1>0, VaiTipo DEF SynchronizeCandidates
  <1> QED BY <1>3, <1>4, <1>5, <1>6 DEF SynchronizeCandidates, Typed, Estados, ambiente, contas

\* What a cycle decides: a command, a status, or nothing.
LEMMA ComandoTipo ==
    ASSUME Typed, NEW acao \in Acoes, NEW t \in Tanques \cup {Nenhum}, NEW b \in Bloqueios,
           t = Nenhum <=> acao = "DESLIGAR", Comando(acao, t, b)
    PROVE  Versoes' /\ Comandos' /\ sub' \in SubRow
  <1> DEFINE e == [Livre EXCEPT !.pc = "reservar", !.acao = acao, !.tanque = t,
                                !.bloqueia = b, !.corrente = sub.tanque]
  <1>1. e \in Exec /\ e.acao = acao /\ e.tanque = t
    <2>1. sub.tanque \in Tanques \cup {Nenhum}
      BY DEF Typed, SubRow
    <2> QED BY <2>1 DEF Livre, Exec
  <1>2. exec' = [exec EXCEPT ![S] = e]
    BY DEF Comando
  <1> HIDE DEF e
  <1>3. Comandos'
    BY <1>1, <1>2 DEF Typed, Comandos
  <1>4. Versoes'
    <2>1. S \in Atores
      BY DEF S, Atores
    <2> QED BY <2>1 DEF Comando, Typed, Versoes
  <1> QED BY <1>3, <1>4 DEF Comando, Typed

\* A cycle that only settles the status of the line: Ocioso.
LEMMA OciosoTipo ==
    ASSUME Typed, NEW s \in SubStatus, Ocioso(s) PROVE Versoes' /\ Comandos' /\ sub' \in SubRow
  <1>0. S \in Atores /\ Versoes /\ Comandos
    BY DEF Atores, S, Typed
  <1>1. Comandos'
    BY <1>0, TerminaTipo DEF Ocioso
  <1>2. CASE UNCHANGED <<sub, lido, antes>>
    BY <1>1, <1>2 DEF Typed, Versoes
  <1>3. CASE sub' = [sub EXCEPT !.status = s] /\ Escreve({}, {Sub})
    <2>1. Versoes'
      BY <1>0, <1>3, EscreveTipo
    <2> QED BY <1>1, <1>3, <2>1 DEF Typed, SubRow
  <1> QED BY <1>2, <1>3 DEF Ocioso

\* A cycle that finds nothing to do: Nada.
LEMMA NadaTipo ==
    ASSUME Typed, Nada PROVE Versoes' /\ Comandos' /\ sub' \in SubRow
  <1>0. S \in Atores /\ Versoes /\ Comandos
    BY DEF Atores, S, Typed
  <1> QED BY <1>0, TerminaTipo DEF Nada, Typed, Versoes

\* Without a current tank: a shutdown, a valve to close, a candidate, or nothing.
LEMMA IdleTipo ==
    ASSUME Typed, Nenhum \notin Tanques, HandleIdleSubsystem PROVE Versoes' /\ Comandos' /\ sub' \in SubRow
  <1>0. "nao" \in Bloqueios /\ Acoes = {"LIGAR", "ABRIR", "DESLIGAR", "FECHAR"}
    BY DEF Bloqueios, Acoes, Energizam
  <1>1. ASSUME NEW t \in Tanques, NEW acao \in {"ABRIR", "FECHAR"}, Comando(acao, t, "nao")
        PROVE  Versoes' /\ Comandos' /\ sub' \in SubRow
    <2>1. acao \in Acoes /\ acao # "DESLIGAR" /\ t # Nenhum /\ t \in Tanques \cup {Nenhum}
      BY <1>0
    <2> QED BY <1>0, <1>1, <2>1, ComandoTipo
  <1>2. CASE Comando("DESLIGAR", Nenhum, "nao")
    BY <1>0, <1>2, ComandoTipo
  <1>3. CASE Ocioso(StatusOcioso)
    <2>1. StatusOcioso \in SubStatus
      BY DEF StatusOcioso, SubStatus
    <2> QED BY <1>3, <2>1, OciosoTipo
  <1>4. tele.abertas \subseteq Tanques /\ Candidatos \subseteq Tanques
    BY DEF Typed, Snapshot, Candidatos
  <1> QED BY <1>1, <1>2, <1>3, <1>4, NadaTipo DEF HandleIdleSubsystem

\* With a current tank: the pump off, the valve closed or open, the pump on.
LEMMA AdvanceTipo ==
    ASSUME Typed, NEW t \in Tanques, NEW parada, parada.bloqueia \in Bloqueios,
           NEW assentado \in BOOLEAN, Nenhum \notin Tanques,
           AdvanceCurrentTank(t, parada, assentado)
    PROVE  Versoes' /\ Comandos' /\ sub' \in SubRow
  <1>0. "nao" \in Bloqueios /\ Acoes = {"LIGAR", "ABRIR", "DESLIGAR", "FECHAR"}
    BY DEF Bloqueios, Acoes, Energizam
  <1>1. ASSUME NEW acao \in {"ABRIR", "FECHAR", "LIGAR"}, NEW b \in Bloqueios, Comando(acao, t, b)
        PROVE  Versoes' /\ Comandos' /\ sub' \in SubRow
    <2>1. acao \in Acoes /\ acao # "DESLIGAR" /\ t # Nenhum /\ t \in Tanques \cup {Nenhum}
      BY <1>0
    <2> QED BY <1>1, <2>1, ComandoTipo
  <1>2. CASE Comando("DESLIGAR", Nenhum, "nao")
    BY <1>0, <1>2, ComandoTipo
  <1> QED BY <1>0, <1>1, <1>2, NadaTipo DEF AdvanceCurrentTank

\* One evaluation of a cycle.
LEMMA EvaluateTyped ==
    ASSUME AuxiliaryAssumption, Typed, NEW assentado \in BOOLEAN, EvaluateContext(assentado)
    PROVE  Typed'
  <1>1. Versoes' /\ Comandos' /\ sub' \in SubRow /\ tanques' \in [Tanques -> TanqueRow]
    <2>1. CASE sub.tanque = Nenhum
      BY <2>1, IdleTipo DEF EvaluateContext, Typed, AuxiliaryAssumption
    <2>2. CASE sub.tanque # Nenhum
      <3> DEFINE t == sub.tanque
      <3>1. t \in Tanques /\ Nenhum \notin Tanques
        BY <2>2 DEF Typed, SubRow, AuxiliaryAssumption
      <3> DEFINE L == {"estagnado", "gerando", "sem sensor"}
      <3> DEFINE tq(e) == [tanques[t] EXCEPT !.eficaz = e]
      <3>0. \E leitura \in L : \E e \in Evidencia(t, leitura) : \E prazo \in BOOLEAN :
              /\ tanques' = [tanques EXCEPT ![t] = tq(e)]
              /\ AdvanceCurrentTank(t, DecisaoDeParada(tq(e), leitura, prazo), assentado)
        BY <2>2 DEF EvaluateContext
      <3>2. PICK leitura \in L : \E e \in Evidencia(t, leitura) : \E prazo \in BOOLEAN :
              /\ tanques' = [tanques EXCEPT ![t] = tq(e)]
              /\ AdvanceCurrentTank(t, DecisaoDeParada(tq(e), leitura, prazo), assentado)
        BY <3>0
      <3>2e. PICK e \in Evidencia(t, leitura) : \E prazo \in BOOLEAN :
              /\ tanques' = [tanques EXCEPT ![t] = tq(e)]
              /\ AdvanceCurrentTank(t, DecisaoDeParada(tq(e), leitura, prazo), assentado)
        BY <3>2
      <3>2p. PICK prazo \in BOOLEAN :
              /\ tanques' = [tanques EXCEPT ![t] = tq(e)]
              /\ AdvanceCurrentTank(t, DecisaoDeParada(tq(e), leitura, prazo), assentado)
        BY <3>2e
      <3>3. tanques[t] \in TanqueRow
        BY <3>1 DEF Typed
      <3>4. e \in BOOLEAN
        BY <3>3 DEF Evidencia, TanqueRow
      <3>5. tq(e) \in TanqueRow
        BY <3>3, <3>4 DEF TanqueRow
      <3>6. tanques' \in [Tanques -> TanqueRow]
        BY <3>1, <3>2p, <3>5 DEF Typed
      <3>7. PICK d : d = DecisaoDeParada(tq(e), leitura, prazo)
        OBVIOUS
      <3>8. d.bloqueia \in Bloqueios
        BY <3>7 DEF DecisaoDeParada, Para, Continua, Bloqueios
      <3>9. AdvanceCurrentTank(sub.tanque, d, assentado)
        BY <3>2p, <3>7
      <3>10. Versoes' /\ Comandos' /\ sub' \in SubRow
        BY <3>1, <3>8, <3>9, AdvanceTipo
      <3> QED BY <3>6, <3>10
    <2> QED BY <2>1, <2>2
  <1> QED BY <1>1 DEF EvaluateContext, Typed, Estados, ambiente, contas

\* The end of a stopped attendance, and a failed cycle.
LEMMA BlockTyped ==
    ASSUME AuxiliaryAssumption, Typed, BlockTank PROVE Typed'
  <1>0. S \in Atores /\ Versoes /\ Comandos
    BY DEF Atores, S, Typed
  <1>1. Comandos'
    BY <1>0, TerminaTipo DEF BlockTank
  <1>2. Versoes'
    BY <1>0, EscreveTipo DEF BlockTank
  <1>3. sub' \in SubRow
    BY DEF BlockTank, Typed, SubRow, SubStatus
  <1>4. tanques' \in [Tanques -> TanqueRow]
    <2>1. PICK t : t = exec[S].tanque
      OBVIOUS
    <2> DEFINE n == [tanques[t] EXCEPT !.status = "BLOQUEADO",
                                       !.eficaz = @ /\ exec[S].bloqueia # "alarme"]
    <2>2. tanques' = [tanques EXCEPT ![t] = n]
      BY <2>1 DEF BlockTank, Typed
    <2>3. t \in Tanques => n \in TanqueRow
      <3>1. t \in Tanques => tanques[t] \in TanqueRow
        BY DEF Typed
      <3> QED BY <3>1 DEF TanqueRow, TanqueStatus
    <2> HIDE DEF n
    <2> QED BY <2>2, <2>3 DEF Typed
  <1>5. Estados'
    BY DEF BlockTank, Typed, Estados, contas
  <1> QED BY <1>1, <1>2, <1>3, <1>4, <1>5 DEF BlockTank, Typed

\* A cycle that fails marks the line and its current tank: MarkSchedulerFailure.
LEMMA FailureTyped ==
    ASSUME AuxiliaryAssumption, Typed, MarkSchedulerFailure PROVE Typed'
  <1>0. S \in Atores /\ Versoes /\ Comandos
    BY DEF Atores, S, Typed
  <1>1. Comandos'
    BY <1>0, TerminaTipo DEF MarkSchedulerFailure
  <1>2. Versoes'
    BY <1>0, EscreveTipo DEF MarkSchedulerFailure
  <1>3. sub' \in SubRow
    BY DEF MarkSchedulerFailure, Typed, SubRow, SubStatus
  <1>4. tanques' \in [Tanques -> TanqueRow]
    <2>1. \A t \in Tanques : [tanques[t] EXCEPT !.status = "FALHA"] \in TanqueRow
      BY DEF Typed, TanqueRow, TanqueStatus
    <2> QED BY <2>1 DEF MarkSchedulerFailure, Typed
  <1> QED BY <1>1, <1>2, <1>3, <1>4 DEF MarkSchedulerFailure, Typed, Estados, ambiente, contas

\* Pauses, the general closure, and what happens around the commands.
LEMMA LifecycleTyped ==
    ASSUME AuxiliaryAssumption, Typed, Lifecycle PROVE Typed'
  <1>0. /\ Desenergizado \in Saidas
        /\ {"INATIVO", "BLOQUEADO"} \subseteq SubStatus \cap TanqueStatus
    BY DEF Desenergizado, Saidas, SubStatus, TanqueStatus
  <1>1. ASSUME Pausar PROVE Typed'
    <2>1. Estados'
      BY <1>1, Conta DEF Pausar, Ocorre, Typed, Estados
    <2> QED BY <1>0, <1>1, <2>1 DEF Pausar, Typed, Versoes, Comandos, linhas
  <1>2. ASSUME GravarPausa PROVE Typed'
    <2>1. Versoes' /\ sub' \in SubRow /\ tanques' \in [Tanques -> TanqueRow]
      BY <1>0, <1>2, NeutralizaTipo DEF GravarPausa
    <2> QED BY <1>2, <2>1 DEF GravarPausa, Typed, Estados, Comandos, contas
  <1>3. ASSUME IniciarEncerramento PROVE Typed'
    <2>1. Versoes' /\ sub' \in SubRow /\ tanques' \in [Tanques -> TanqueRow]
      BY <1>0, <1>3, NeutralizaTipo DEF IniciarEncerramento
    <2>2. Estados'
      BY <1>3, Conta DEF IniciarEncerramento, Ocorre, Typed, Estados
    <2> QED BY <1>3, <2>1, <2>2 DEF IniciarEncerramento, Typed, Comandos
  <1>4. ASSUME PararSaidas PROVE Typed'
    BY <1>0, <1>4 DEF PararSaidas, Typed, Estados, Versoes, Comandos, linhas, ambiente, contas
  <1>5. ASSUME Encerrar PROVE Typed'
    <2>1. Versoes' /\ sub' \in SubRow /\ tanques' \in [Tanques -> TanqueRow]
      BY <1>0, <1>5, NeutralizaTipo DEF Encerrar
    <2> QED BY <1>5, <2>1 DEF Encerrar, Typed, Estados, Comandos, contas
  <1> QED BY <1>1, <1>2, <1>3, <1>4, <1>5 DEF Lifecycle

\* Leases expire, alarms are resolved, telemetry comes or stays away, the API restarts.
LEMMA EnvironmentTyped ==
    ASSUME AuxiliaryAssumption, Typed, Environment PROVE Typed'
  <1>1. ASSUME ResolveAlarme PROVE Typed'
    BY <1>1 DEF ResolveAlarme, Typed, Estados, Versoes, Comandos, linhas, contas
  <1>2. ASSUME Vence PROVE Typed'
    <2>1. sub' \in SubRow
      <3>1. sub.lease \in Lease
        BY DEF Typed, SubRow
      <3>2. [sub.lease EXCEPT !.vencido = TRUE] \in Lease
        BY <3>1 DEF Lease
      <3> DEFINE n == [sub.lease EXCEPT !.vencido = TRUE]
      <3>3. sub' = sub \/ sub' = [sub EXCEPT !.lease = n]
        BY <1>2 DEF Vence, Typed, SubRow
      <3> HIDE DEF n
      <3> QED BY <3>2, <3>3 DEF Typed, SubRow, n
    <2>2. tanques' \in [Tanques -> TanqueRow]
      <3>1. ASSUME NEW t \in Tanques, tanques' = [tanques EXCEPT ![t].lease.vencido = TRUE]
            PROVE  tanques' \in [Tanques -> TanqueRow]
        <4> DEFINE l == [tanques[t].lease EXCEPT !.vencido = TRUE]
        <4> DEFINE n == [tanques[t] EXCEPT !.lease = l]
        <4>1. tanques[t] \in TanqueRow
          BY DEF Typed
        <4>2. l \in Lease
          BY <4>1 DEF TanqueRow, Lease
        <4>3. tanques' = [tanques EXCEPT ![t] = n]
          BY <3>1 DEF Typed
        <4> HIDE DEF l
        <4>4. n \in TanqueRow
          BY <4>1, <4>2 DEF TanqueRow
        <4> HIDE DEF n
        <4> QED BY <4>3, <4>4 DEF Typed
      <3> QED BY <1>2, <3>1 DEF Vence, Typed
    <2>3. Estados'
      BY <1>2, Conta DEF Vence, Ocorre, Typed, Estados, ambiente
    <2> QED BY <1>2, <2>1, <2>2, <2>3 DEF Vence, Typed, Versoes, Comandos
  <1>3. ASSUME RecebeTelemetria PROVE Typed'
    <2>1. tele' \in Snapshot
      BY <1>3, TelemetriaTipo DEF RecebeTelemetria, Typed
    <2> QED BY <1>3, <2>1 DEF RecebeTelemetria, Typed, Estados, Versoes, Comandos, linhas, ambiente, contas
  <1>4. ASSUME Silencio PROVE Typed'
    <2>1. tele' \in Snapshot
      BY <1>4 DEF Silencio, Typed, Snapshot
    <2>2. Estados'
      BY <1>4, Conta DEF Silencio, Ocorre, Typed, Estados, ambiente
    <2> QED BY <1>4, <2>1, <2>2 DEF Silencio, Typed, Versoes, Comandos, linhas
  <1>5. ASSUME Queda PROVE Typed'
    <2>1. Versoes'
      BY <1>5, EscreveTipo DEF Queda, Typed
    <2>2. Comandos'
      <3>1. Livre \in Exec /\ Livre.acao = "DESLIGAR" /\ Livre.tanque = Nenhum
        BY DEF Livre, Exec, Bloqueios, Acoes, Energizam
      <3> QED BY <1>5, <3>1 DEF Queda, Comandos
    <2>3. Estados'
      BY <1>5, Conta DEF Queda, Ocorre, Typed, Estados, ambiente
    <2> QED BY <1>5, <2>1, <2>2, <2>3 DEF Queda, Typed
  <1> QED BY <1>1, <1>2, <1>3, <1>4, <1>5 DEF Environment

\* Every step keeps the types.
LEMMA StepTyped ==
    AuxiliaryAssumption /\ Typed /\ [Next]_vars => Typed'
  <1> SUFFICES ASSUME AuxiliaryAssumption, Typed, [Next]_vars PROVE Typed'
    OBVIOUS
  <1>1. CASE UNCHANGED vars
    BY <1>1 DEF vars, linhas, ambiente, contas, Typed, Estados, Versoes, Comandos
  <1>2. ASSUME NEW u \in Usuarios, Human(u) PROVE Typed'
    BY <1>2, LeaseTyped, PedirTyped DEF Human
  <1>3. ASSUME Scheduler PROVE Typed'
    BY <1>3, SynchronizeTyped, EvaluateTyped, ReservarTyped, BlockTyped, FailureTyped DEF Scheduler
  <1> QED BY <1>1, <1>2, <1>3, CommandTyped, LifecycleTyped, EnvironmentTyped DEF Next

\* Every variable keeps its type: TypeOK.
THEOREM Typing == Spec => []TypeOK
  <1>1. AuxiliaryAssumption
    BY AuxiliaryAssumption
  <1>2. Typed => TypeOK
    BY DEF Typed, TypeOK, Estados, Versoes, Comandos, Rows, SubRow, TanqueRow, Saidas, Snapshot
  <1> QED BY <1>1, <1>2, InitTyped, StepTyped, PTL DEF Spec

----------------------------------------------------------------------------
(* What a step may do to the row of the subsystem and to the commands,     *)
(* when it is neither a reservation nor the decision of a cycle.           *)

\* A command goes on or ends: it does not go back to its reservation.
Anda(a) ==
    \/ exec'[a] = Livre
    \/ /\ exec'[a].acao = exec[a].acao /\ exec'[a].tanque = exec[a].tanque
       /\ exec'[a].pc \in Reservado => exec[a].pc \in Reservado
       /\ exec'[a].pc = "reservar" => exec[a].pc = "reservar"
       /\ exec'[a].pc = "revalidar" => exec[a].pc = "revalidar"
Andam == \A a \in Atores : Anda(a)
\* No command is published.
SemPublicar == \A a \in Atores : exec'[a].pc = "esp" => exec[a].pc = "esp"
\* The row is written for nobody, or stays as it was.
Solta ==
    \/ lido'[Sub] = {}
    \/ /\ lido'[Sub] \subseteq lido[Sub]
       /\ antes'[Sub] = antes[Sub]
       /\ sub'.tanque = sub.tanque /\ sub'.status = sub.status

\* The steps of one command leave the others alone.
LEMMA VaiAnda ==
    ASSUME Comandos, NEW a \in Atores, NEW pc, Vai(a, pc),
           pc \in {"decidir", "esp", "resposta", "recuar", "desfazer", "falhar", "inconsistente",
                   "bloquear"},
           pc \in Reservado => exec[a].pc \in Reservado
    PROVE  Andam /\ (pc # "esp" => SemPublicar)
  BY DEF Vai, Andam, Anda, SemPublicar, Comandos, Exec

\* An actor that ends has no command to publish.
LEMMA TerminaAnda ==
    ASSUME Comandos, NEW a \in Atores, Termina(a) PROVE Andam /\ SemPublicar
  BY DEF Termina, Andam, Anda, SemPublicar, Comandos, Exec, Livre

\* A step that moves no actor publishes no command.
LEMMA ParadosAndam ==
    ASSUME UNCHANGED exec PROVE Andam /\ SemPublicar
  BY DEF Andam, Anda, SemPublicar

\* A write of the row that nobody goes on with.
LEMMA EscreveSolta ==
    ASSUME Versoes, NEW rows, Sub \in rows, Escreve({}, rows) PROVE Solta
  BY DEF Versoes, Rows, Escreve, Solta

\* A write that leaves the row of the line alone.
LEMMA OutraSolta ==
    ASSUME Versoes, NEW rows, Escreve({}, rows), UNCHANGED sub PROVE Solta
  BY DEF Versoes, Rows, Escreve, Solta

\* The steps of a command after its reservation.
LEMMA CommandAnda ==
    ASSUME Typed, NEW a \in Atores, Command(a)
    PROVE  Solta /\ Andam /\ (Revalidar(a) \/ SemPublicar)
  <1>0. Versoes /\ Comandos
    BY DEF Typed
  <1>1. \A t : Sub \in Linhas(t)
    BY DEF Linhas
  <1>2. UNCHANGED linhas => Solta
    BY DEF linhas, Solta
  <1>3. ASSUME Revalidar(a) PROVE Solta /\ Andam
    <2>1. PICK pc \in {"esp", "recuar"} : Vai(a, pc)
      BY <1>3 DEF Revalidar
    <2>2. exec[a].pc \in Reservado
      BY <1>3 DEF Revalidar, Reservado
    <2> QED BY <1>0, <1>2, <1>3, <2>1, <2>2, VaiAnda DEF Revalidar
  <1>4. ASSUME EspExecuta(a) PROVE Solta /\ Andam /\ SemPublicar
    <2>1. exec[a].pc \in Reservado
      BY <1>4 DEF EspExecuta, Reservado
    <2> QED BY <1>0, <1>2, <1>4, <2>1, VaiAnda DEF EspExecuta
  <1>5. ASSUME SemResposta(a) PROVE Solta /\ Andam /\ SemPublicar
    <2>1. exec[a].pc \in Reservado
      BY <1>5 DEF SemResposta, Reservado
    <2> QED BY <1>0, <1>2, <1>5, <2>1, VaiAnda DEF SemResposta
  <1>6. ASSUME Finalizar(a) PROVE Solta /\ Andam /\ SemPublicar
    <2>1. Solta
      BY <1>0, <1>1, <1>2, <1>6, EscreveSolta DEF Finalizar
    <2>2. Andam /\ SemPublicar
      <3>1. "bloquear" \notin Reservado /\ "inconsistente" \notin Reservado
        BY DEF Reservado
      <3> QED BY <1>0, <1>6, <3>1, VaiAnda, TerminaAnda DEF Finalizar
    <2> QED BY <2>1, <2>2
  <1>7. ASSUME MarkInconsistentAfterAck(a) PROVE Solta /\ Andam /\ SemPublicar
    BY <1>0, <1>1, <1>7, EscreveSolta, TerminaAnda DEF MarkInconsistentAfterAck
  <1>8. ASSUME Desfazer(a) PROVE Solta /\ Andam /\ SemPublicar
    <2>1. "falhar" \notin Reservado
      BY DEF Reservado
    <2> QED BY <1>0, <1>1, <1>8, <2>1, EscreveSolta, VaiAnda, TerminaAnda DEF Desfazer
  <1> QED BY <1>3, <1>4, <1>5, <1>6, <1>7, <1>8 DEF Command

\* The leases.
LeaseStep(u) ==
    \/ AcquirePumpControl(u) \/ ReleasePumpControl(u)
    \/ \E t \in Tanques : AcquireValveControl(u, t) \/ ReleaseValveControl(u, t)
\* The leases of people touch no command: they only move the versions.
LEMMA LeaseAnda ==
    ASSUME Typed, NEW u \in Usuarios, LeaseStep(u)
    PROVE  Solta /\ Andam /\ SemPublicar
  <1>1. Versoes /\ UNCHANGED exec
    BY DEF Typed, LeaseStep, AcquirePumpControl, ReleasePumpControl, AcquireValveControl,
           ReleaseValveControl
  <1>2. Solta
    BY <1>1, EscreveSolta, OutraSolta
       DEF LeaseStep, AcquirePumpControl, ReleasePumpControl, AcquireValveControl,
           ReleaseValveControl
  <1> QED BY <1>1, <1>2, ParadosAndam

\* The scheduler, when it decides and reserves no command.
LEMMA OciosoAnda ==
    ASSUME Typed, NEW s, Ocioso(s) \/ Nada PROVE Solta /\ Andam /\ SemPublicar
  <1>1. S \in Atores /\ Versoes /\ Comandos
    BY DEF S, Atores, Typed
  <1>2. Termina(S) /\ (UNCHANGED <<sub, lido, antes>> \/ Escreve({}, {Sub}))
    BY DEF Ocioso, Nada
  <1>3. Solta
    <2>1. CASE UNCHANGED <<sub, lido, antes>>
      BY <2>1 DEF Solta
    <2> QED BY <1>1, <1>2, <2>1, EscreveSolta
  <1> QED BY <1>1, <1>2, <1>3, TerminaAnda

\* A reservation that is refused.
LEMMA RecusaAnda ==
    ASSUME Typed, Termina(S), Esquece(S), UNCHANGED sub PROVE Solta /\ Andam /\ SemPublicar
  <1>1. S \in Atores /\ Versoes /\ Comandos
    BY DEF S, Atores, Typed
  <1>2. Solta
    BY <1>1 DEF Esquece, Solta, Versoes, Rows
  <1> QED BY <1>1, <1>2, TerminaAnda

\* The first step of a cycle keeps the current tank of the line.
LEMMA SynchronizeAnda ==
    ASSUME Typed, SynchronizeCandidates
    PROVE  Solta /\ Andam /\ SemPublicar /\ sub'.tanque = sub.tanque
  <1>1. S \in Atores /\ Versoes /\ Comandos /\ "decidir" \notin Reservado
    BY DEF S, Atores, Typed, Reservado
  <1>2. /\ sub' = [sub EXCEPT !.lease = SemVencido(@)]
        /\ \E mudou : Escreve({}, mudou) /\ (sub' # sub => Sub \in mudou)
    <2>1. PICK estagnados \in SUBSET Tanques :
            LET novoSub == [sub EXCEPT !.lease = SemVencido(@)]
                novos == [t \in Tanques |-> [NaFila(t, EmExecucao /\ t \in estagnados) EXCEPT
                                                !.lease = SemVencido(@)]]
                mudou == {t \in Tanques : novos[t] # tanques[t]} \cup {r \in {Sub} : novoSub # sub}
            IN  sub' = novoSub /\ Escreve({}, mudou)
      BY DEF SynchronizeCandidates
    <2> HIDE DEF NaFila, SemVencido, EmExecucao, Escreve
    <2> QED BY <2>1
  <1>3. sub'.tanque = sub.tanque
    BY <1>2 DEF Typed, SubRow
  <1>4. Solta
    BY <1>1, <1>2, EscreveSolta, OutraSolta
  <1>5. Andam /\ SemPublicar
    BY <1>1, VaiAnda DEF SynchronizeCandidates
  <1> QED BY <1>3, <1>4, <1>5

\* A cycle that blocks the tank or fails leaves no command under way.
LEMMA FimAnda ==
    ASSUME Typed, BlockTank \/ MarkSchedulerFailure PROVE Solta /\ Andam /\ SemPublicar
  <1>1. S \in Atores /\ Versoes /\ Comandos /\ \A t : Sub \in Linhas(t)
    BY DEF S, Atores, Typed, Linhas
  <1> QED BY <1>1, EscreveSolta, TerminaAnda DEF BlockTank, MarkSchedulerFailure

\* The process and what happens around the commands.
LEMMA AmbienteAnda ==
    ASSUME Typed, Lifecycle \/ Environment PROVE Solta /\ Andam /\ SemPublicar
  <1>0. Versoes /\ Comandos /\ DOMAIN lido = Rows /\ Sub \in Rows
    BY DEF Typed, Versoes, Rows
  <1>1. ASSUME UNCHANGED linhas PROVE Solta
    BY <1>1 DEF linhas, Solta
  <1>2. ASSUME NEW x, NEW y, NEW z, Neutraliza(x, y, z) PROVE Solta
    BY <1>0, <1>2, EscreveSolta DEF Neutraliza
  <1>3. ASSUME Queda PROVE Solta /\ Andam /\ SemPublicar
    <2>1. Solta
      BY <1>0, <1>3, EscreveSolta DEF Queda
    <2>2. Andam /\ SemPublicar
      BY <1>3 DEF Queda, Andam, Anda, SemPublicar, Livre
    <2> QED BY <2>1, <2>2
  <1>4. ASSUME Vence PROVE Solta /\ UNCHANGED exec
    BY <1>4 DEF Vence, Typed, SubRow, Solta
  <1>5. ASSUME Lifecycle PROVE Solta /\ UNCHANGED exec
    BY <1>1, <1>2, <1>5
       DEF Lifecycle, Pausar, GravarPausa, IniciarEncerramento, PararSaidas, Encerrar
  <1>6. ASSUME ResolveAlarme \/ RecebeTelemetria \/ Silencio PROVE Solta /\ UNCHANGED exec
    BY <1>1, <1>6 DEF ResolveAlarme, RecebeTelemetria, Silencio
  <1> QED BY <1>3, <1>4, <1>5, <1>6, ParadosAndam DEF Environment

----------------------------------------------------------------------------
(* The general closure blocks the row.  A command reserved before it has   *)
(* lost the version, and one reserved after it turns nothing on, so that   *)
(* what it may consolidate or restore is an idle row.                      *)

Parado == sub.tanque = Nenhum /\ sub.status # "OPERANDO"
Bloqueada ==
    processo = "ENCERRANDO" =>
        /\ Parado
        /\ \A a \in Atores : exec[a].pc \in Reservado /\ a \in lido[Sub] =>
              /\ exec[a].acao \notin Energizam
              /\ antes[Sub].tanque = Nenhum /\ antes[Sub].status # "OPERANDO"

\* A step that leaves the row idle and reserves nothing.
LEMMA SoltaBloqueada ==
    ASSUME Bloqueada, processo = "ENCERRANDO", Solta, Andam, Parado' PROVE Bloqueada'
  <1> SUFFICES ASSUME NEW a \in Atores, exec'[a].pc \in Reservado, a \in lido'[Sub]
               PROVE  /\ exec'[a].acao \notin Energizam
                      /\ antes'[Sub].tanque = Nenhum /\ antes'[Sub].status # "OPERANDO"
    BY DEF Bloqueada
  <1>1. a \in lido[Sub] /\ antes'[Sub] = antes[Sub]
    BY DEF Solta
  <1>2. Livre.pc \notin Reservado
    BY DEF Livre, Reservado
  <1>3. exec[a].pc \in Reservado /\ exec'[a].acao = exec[a].acao
    BY <1>2 DEF Andam, Anda
  <1> QED BY <1>1, <1>3 DEF Bloqueada

\* The reservation writes the row for its author alone.
LEMMA Reservada ==
    ASSUME AuxiliaryAssumption, Versoes, Comandos, sub \in SubRow, NEW a \in Atores,
           NEW acao, NEW t, NEW b, ReserveCommand(a, acao, t, b)
    PROVE  /\ lido'[Sub] = {a}
           /\ antes'[Sub] = [status |-> sub.status, tanque |-> sub.tanque]
           /\ sub'.tanque = IF acao \in Energizam THEN t ELSE sub.tanque
           /\ sub'.status = IF acao \in Energizam THEN "PREPARANDO" ELSE "TROCANDO_TANQUE"
           /\ exec'[a].pc = "revalidar" /\ exec'[a].acao = acao /\ exec'[a].tanque = t
           /\ \A x \in Atores : x # a => exec'[x] = exec[x]
  <1>1. sub'.tanque = IF acao \in Energizam THEN t ELSE sub.tanque
    BY DEF ReserveCommand, SubRow
  <1>2. sub'.status = IF acao \in Energizam THEN "PREPARANDO" ELSE "TROCANDO_TANQUE"
    BY DEF ReserveCommand, SubRow
  <1>3. /\ exec'[a].pc = "revalidar" /\ exec'[a].acao = acao /\ exec'[a].tanque = t
        /\ \A x \in Atores : x # a => exec'[x] = exec[x]
    BY DEF ReserveCommand, Comandos
  <1>4. lido'[Sub] = {a} /\ antes'[Sub] = [status |-> sub.status, tanque |-> sub.tanque]
    <2>1. Sub \in DOMAIN lido /\ Sub \in Linhas(t)
      BY DEF Versoes, Rows, Linhas
    <2> QED BY <2>1 DEF ReserveCommand
  <1> QED BY <1>1, <1>2, <1>3, <1>4

\* Nothing is reserved to be turned on during the closure.
LEMMA ReservaBloqueada ==
    ASSUME AuxiliaryAssumption, Typed, Bloqueada, processo = "ENCERRANDO", NEW a \in Atores,
           NEW acao, NEW t, NEW b, NEW apto,
           Permitido(a, acao, t, apto), ReserveCommand(a, acao, t, b)
    PROVE  Parado' /\ Bloqueada'
  <1>1. acao \notin Energizam
    BY DEF Permitido, PodeEnergizar, SemEncerramento
  <1>2. /\ lido'[Sub] = {a}
        /\ antes'[Sub] = [status |-> sub.status, tanque |-> sub.tanque]
        /\ sub'.tanque = sub.tanque /\ sub'.status = "TROCANDO_TANQUE"
        /\ exec'[a].acao = acao
    BY <1>1, Reservada DEF Typed
  <1> QED BY <1>1, <1>2 DEF Bloqueada, Parado

\* Every step of a process being closed leaves the row idle, and the beginning
\* of the closure resets it.
LEMMA ClosureStep ==
    ASSUME AuxiliaryAssumption, Typed, Bloqueada, Next
    PROVE  Bloqueada' /\ (processo = "ENCERRANDO" => Parado')
  <1>1. CASE processo # "ENCERRANDO"
    <2>1. CASE processo' # "ENCERRANDO"
      BY <1>1, <2>1 DEF Bloqueada
    <2>2. CASE processo' = "ENCERRANDO"
      <3>1. IniciarEncerramento
        <4>1. ASSUME NEW a \in Atores, Command(a) PROVE UNCHANGED processo
          BY <4>1 DEF Command, Revalidar, EspExecuta, SemResposta, Finalizar,
                      MarkInconsistentAfterAck, Desfazer, ambiente
        <4>2. ASSUME NEW u \in Usuarios, Human(u) PROVE UNCHANGED processo
          BY <4>2 DEF Human, AcquirePumpControl, ReleasePumpControl, AcquireValveControl,
                      ReleaseValveControl, Pedir, ambiente
        <4>3. ASSUME Scheduler PROVE UNCHANGED processo
          BY <4>3 DEF Scheduler, SynchronizeCandidates, EvaluateContext, Reservar, BlockTank,
                      MarkSchedulerFailure, ambiente
        <4>4. ASSUME Environment PROVE UNCHANGED processo
          BY <4>4 DEF Environment, ResolveAlarme, Vence, RecebeTelemetria, Silencio, Queda, ambiente
        <4>5. ASSUME Lifecycle PROVE IniciarEncerramento
          BY <1>1, <2>2, <4>5 DEF Lifecycle, Pausar, GravarPausa, PararSaidas, Encerrar, ambiente
        <4> QED BY <1>1, <2>2, <4>1, <4>2, <4>3, <4>4, <4>5 DEF Next
      <3>2. lido'[Sub] = {} /\ sub'.tanque = Nenhum /\ sub'.status = "BLOQUEADO"
        BY <3>1 DEF IniciarEncerramento, Neutraliza, Escreve, Typed, Versoes, Rows
      <3> QED BY <1>1, <3>2 DEF Bloqueada, Parado
    <2> QED BY <2>1, <2>2
  <1>2. CASE processo = "ENCERRANDO"
    <2>0. Parado /\ Versoes /\ Comandos /\ sub \in SubRow
      BY <1>2 DEF Bloqueada, Typed
    <2>1. ASSUME NEW a \in Atores, Command(a) PROVE Bloqueada' /\ Parado'
      <3>1. Solta /\ Andam
        BY <2>1, CommandAnda
      <3>2. CASE UNCHANGED linhas
        BY <1>2, <2>0, <3>1, <3>2, SoltaBloqueada DEF linhas, Parado
      <3>3. CASE Finalizar(a) /\ ~ UNCHANGED linhas
        <4>1. exec[a].pc \in Reservado /\ a \in lido[Sub]
          BY <3>3 DEF Finalizar, Atual, Linhas, Reservado
        <4>2. exec[a].acao \notin Energizam
          BY <1>2, <4>1 DEF Bloqueada
        <4>3. SubFinal(exec[a].acao) # "OPERANDO"
          BY <4>2 DEF SubFinal, Energizam
        <4>4. Parado'
          BY <2>0, <3>3, <4>3 DEF Finalizar, Parado, SubRow
        <4> QED BY <1>2, <3>1, <4>4, SoltaBloqueada
      <3>4. CASE MarkInconsistentAfterAck(a)
        <4>1. Parado'
          BY <2>0, <3>4 DEF MarkInconsistentAfterAck, Parado, SubRow
        <4> QED BY <1>2, <3>1, <4>1, SoltaBloqueada
      <3>5. CASE Desfazer(a)
        <4>1. exec[a].pc \in Reservado
          BY <3>5 DEF Desfazer, Reservado
        <4>2. sub' = SubDesfeito(a)
          BY <3>5 DEF Desfazer
        <4>3. Parado'
          BY <1>2, <2>0, <4>1, <4>2 DEF SubDesfeito, Parado, SubRow, Bloqueada
        <4> QED BY <1>2, <3>1, <4>3, SoltaBloqueada
      <3> QED BY <2>1, <3>2, <3>3, <3>4, <3>5 DEF Command, Revalidar, EspExecuta, SemResposta
    <2>2. ASSUME NEW u \in Usuarios, Human(u) PROVE Bloqueada' /\ Parado'
      <3>1. CASE LeaseStep(u)
        <4>1. Parado'
          <5>1. ~ SemEncerramento
            BY <1>2 DEF SemEncerramento
          <5>2. ReleasePumpControl(u) => Parado'
            BY DEF ReleasePumpControl, Parado
          <5>3. UNCHANGED sub => Parado'
            BY <2>0 DEF Parado
          <5> QED BY <3>1, <5>1, <5>2, <5>3 DEF LeaseStep, AcquirePumpControl,
                     AcquireValveControl, ReleaseValveControl
        <4> QED BY <1>2, <3>1, <4>1, LeaseAnda, SoltaBloqueada
      <3>2. ASSUME NEW acao, NEW t, Pedir(u, acao, t) PROVE Bloqueada' /\ Parado'
        <4>1. u \in Atores
          BY DEF Atores
        <4> QED BY <1>2, <3>2, <4>1, ReservaBloqueada DEF Pedir
      <3> QED BY <2>2, <3>1, <3>2 DEF Human, LeaseStep
    <2>3. ASSUME Scheduler PROVE Bloqueada' /\ Parado'
      <3>0. S \in Atores
        BY DEF S, Atores
      <3>1. CASE SynchronizeCandidates
        <4>1. sub' = [sub EXCEPT !.lease = SemVencido(@)]
          BY <3>1 DEF SynchronizeCandidates
        <4>2. Parado'
          BY <2>0, <4>1 DEF Parado, SubRow
        <4> QED BY <1>2, <3>1, <4>2, SynchronizeAnda, SoltaBloqueada
      <3>2. ASSUME NEW assentado \in BOOLEAN, EvaluateContext(assentado) PROVE Bloqueada' /\ Parado'
        <4>1. HandleIdleSubsystem
          BY <2>0, <3>2 DEF EvaluateContext, Parado
        <4>2. CASE Ocioso(StatusOcioso)
          <5>1. StatusOcioso # "OPERANDO"
            BY DEF StatusOcioso
          <5>2. Parado'
            BY <2>0, <4>2, <5>1 DEF Ocioso, Parado, SubRow
          <5> QED BY <1>2, <4>2, <5>2, OciosoAnda, SoltaBloqueada
        <4>3. CASE Nada
          <5>1. Parado'
            BY <2>0, <4>3 DEF Nada, Parado
          <5> QED BY <1>2, <4>3, <5>1, OciosoAnda, SoltaBloqueada
        <4>4. ASSUME NEW acao, NEW t, NEW b, Comando(acao, t, b) PROVE Bloqueada' /\ Parado'
          <5>1. /\ UNCHANGED <<sub, antes>>
                /\ lido'[Sub] \subseteq lido[Sub] \cup {S}
                /\ exec'[S].pc = "reservar"
                /\ \A a \in Atores : a # S => exec'[a] = exec[a]
            BY <2>0, <3>0, <4>4 DEF Comando, Versoes, Rows, Comandos, Livre
          <5>2. processo' = processo /\ "reservar" \notin Reservado
            BY <3>2 DEF EvaluateContext, ambiente, Reservado
          <5> QED BY <1>2, <2>0, <5>1, <5>2 DEF Bloqueada, Parado
        <4> QED BY <4>1, <4>2, <4>3, <4>4 DEF HandleIdleSubsystem
      <3>3. CASE Reservar
        <4>1. CASE Termina(S) /\ Esquece(S) /\ UNCHANGED sub
          BY <1>2, <2>0, <4>1, RecusaAnda, SoltaBloqueada DEF Parado
        <4>2. ASSUME NEW apto, Permitido(S, exec[S].acao, exec[S].tanque, apto),
                     ReserveCommand(S, exec[S].acao, exec[S].tanque, exec[S].bloqueia)
              PROVE  Bloqueada' /\ Parado'
          BY <1>2, <3>0, <4>2, ReservaBloqueada
        <4> QED BY <3>3, <4>1, <4>2 DEF Reservar
      <3>4. CASE BlockTank \/ MarkSchedulerFailure
        <4>1. Parado'
          BY <2>0, <3>4 DEF BlockTank, MarkSchedulerFailure, Parado, SubRow
        <4> QED BY <1>2, <3>4, <4>1, FimAnda, SoltaBloqueada
      <3> QED BY <2>3, <3>1, <3>2, <3>3, <3>4 DEF Scheduler
    <2>4. ASSUME Lifecycle \/ Environment PROVE Bloqueada' /\ Parado'
      <3>1. CASE Lifecycle
        <4>1. Parado'
          <5>1. UNCHANGED sub => Parado'
            BY <2>0 DEF Parado
          <5>2. Encerrar => Parado'
            <6>1. ASSUME NEW x, NEW y, NEW z, Neutraliza(x, y, z)
                  PROVE  sub'.status = x /\ sub'.tanque = Nenhum
              BY <6>1 DEF Neutraliza
            <6>2. Encerrar => Neutraliza("INATIVO", "INATIVO", FALSE)
              BY DEF Encerrar
            <6>3. Encerrar => sub'.status = "INATIVO" /\ sub'.tanque = Nenhum
              BY <6>1, <6>2, Zenon
            <6> HIDE DEF Encerrar
            <6> QED BY <6>3 DEF Parado
          <5>3. PararSaidas => UNCHANGED sub
            BY DEF PararSaidas, linhas
          <5>4. ~ (Pausar \/ GravarPausa \/ IniciarEncerramento)
            BY <1>2 DEF Pausar, GravarPausa, IniciarEncerramento
          <5>5. PararSaidas \/ Encerrar
            BY <3>1, <5>4 DEF Lifecycle
          <5> QED BY <5>1, <5>2, <5>3, <5>5
        <4> QED BY <1>2, <3>1, <4>1, AmbienteAnda, SoltaBloqueada
      <3>2. CASE Environment
        <4>1. Parado'
          BY <2>0, <3>2 DEF Environment, ResolveAlarme, Vence, RecebeTelemetria, Silencio, Queda,
             Parado, linhas, SubRow
        <4> QED BY <1>2, <3>2, <4>1, AmbienteAnda, SoltaBloqueada
      <3> QED BY <2>4, <3>1, <3>2
    <2> QED BY <2>1, <2>2, <2>3, <2>4 DEF Next
  <1> QED BY <1>1, <1>2

\* The general closure is not undone by a command that was in flight when it
\* began: ClosureNotUndone.
THEOREM ClosureTheorem == Spec => ClosureNotUndone
  <1>1. Init => Bloqueada
    BY DEF Init, Bloqueada
  <1>2. AuxiliaryAssumption
    BY AuxiliaryAssumption
  <1>3. AuxiliaryAssumption /\ Typed /\ Bloqueada /\ [Next]_vars => Bloqueada'
    <2>1. Bloqueada /\ UNCHANGED vars => Bloqueada'
      BY DEF Bloqueada, Parado, vars, linhas, ambiente
    <2> QED BY <2>1, ClosureStep
  <1>4. AuxiliaryAssumption /\ Typed /\ Bloqueada /\ [Next]_vars
        => [processo = "ENCERRANDO" /\ sub.tanque = Nenhum
             => sub'.tanque = Nenhum /\ sub'.status # "OPERANDO"]_vars
    BY ClosureStep DEF Parado
  <1> QED BY <1>1, <1>2, <1>3, <1>4, InitTyped, StepTyped, PTL DEF Spec, ClosureNotUndone

----------------------------------------------------------------------------
(* The line of an automatic process (Automatica, above).                   *)

\* The outputs only go down, and the telemetry stays or shows them.
Baixa ==
    /\ hw'.abertas \subseteq hw.abertas
    /\ hw'.bomba => hw.bomba /\ hw'.abertas = hw.abertas
    /\ tele'.abertas \in {tele.abertas, hw'.abertas}

\* Such a step, with no reservation, no publication and no other tank on the row.
LEMMA CalmaAutomatica ==
    ASSUME Automatica, UNCHANGED modo, Solta, Andam, SemPublicar, Baixa,
           sub'.tanque \in {Nenhum, sub.tanque}
    PROVE  Automatica'
  <1> SUFFICES ASSUME modo = "AUTOMATICO"
               PROVE  (Restrito /\ Volta /\ Escolhe /\ Confere /\ Ligando /\ Abrindo /\ Isolado)'
    BY DEF Automatica
  <1>0. Restrito /\ Volta /\ Escolhe /\ Confere /\ Ligando /\ Abrindo /\ Isolado
    BY DEF Automatica
  <1>1. /\ Livre.acao \notin Energizam /\ Livre.pc \notin Reservado \cup {"reservar"}
        /\ "esp" \in Reservado /\ "revalidar" \in Reservado
    BY DEF Livre, Energizam, Reservado
  <1>2. Anda(S)
    BY DEF Andam, S, Atores
  <1>3. Restrito'
    BY <1>0, <1>1 DEF Restrito, Andam, Anda, Atores
  <1>4. Volta'
    <2> SUFFICES ASSUME NEW a \in Atores, exec'[a].pc \in Reservado, a \in lido'[Sub]
                 PROVE  antes'[Sub].tanque \in {Nenhum, sub'.tanque}
      BY DEF Volta
    <2>1. a \in lido[Sub] /\ antes'[Sub] = antes[Sub] /\ sub'.tanque = sub.tanque
      BY DEF Solta
    <2>2. exec[a].pc \in Reservado
      BY <1>1 DEF Andam, Anda
    <2> QED BY <1>0, <2>1, <2>2 DEF Volta
  <1>5. Escolhe'
    <2> SUFFICES ASSUME exec'[S].acao \in Energizam
                 PROVE  /\ exec'[S].pc = "reservar" /\ S \in lido'[Sub] =>
                             /\ sub'.tanque \in {Nenhum, exec'[S].tanque}
                             /\ sub'.tanque = Nenhum =>
                                  tele'.abertas = {} \/ hw'.abertas \subseteq tele'.abertas
                        /\ exec'[S].pc \in {"revalidar", "esp"} => sub'.tanque \in {Nenhum, exec'[S].tanque}
      BY DEF Escolhe
    <2>1. exec'[S].acao = exec[S].acao /\ exec'[S].tanque = exec[S].tanque
      BY <1>1, <1>2 DEF Anda
    <2>2. ASSUME exec'[S].pc = "reservar", S \in lido'[Sub]
          PROVE  /\ sub'.tanque \in {Nenhum, exec'[S].tanque}
                 /\ sub'.tanque = Nenhum => tele'.abertas = {} \/ hw'.abertas \subseteq tele'.abertas
      <3>1. exec[S].pc = "reservar"
        BY <1>1, <1>2, <2>2 DEF Anda
      <3>2. S \in lido[Sub] /\ sub'.tanque = sub.tanque
        BY <2>2 DEF Solta
      <3> QED BY <1>0, <2>1, <3>1, <3>2 DEF Escolhe, Baixa
    <2>3. ASSUME exec'[S].pc \in {"revalidar", "esp"}
          PROVE  sub'.tanque \in {Nenhum, exec'[S].tanque}
      <3>1. exec[S].pc \in {"revalidar", "esp"}
        BY <1>1, <1>2, <2>3 DEF Anda, SemPublicar, S, Atores
      <3> QED BY <1>0, <2>1, <3>1 DEF Escolhe
    <2> QED BY <2>2, <2>3
  <1>6. Confere'
    BY <1>0 DEF Confere, Baixa
  <1>7. exec'[S].pc = "esp" =>
          exec[S].pc = "esp" /\ exec'[S].acao = exec[S].acao /\ exec'[S].tanque = exec[S].tanque
    BY <1>1, <1>2 DEF Anda, SemPublicar, S, Atores
  <1>8. Ligando'
    BY <1>0, <1>7 DEF Ligando, Baixa
  <1>9. Abrindo'
    BY <1>0, <1>7 DEF Abrindo, Baixa
  <1>10. Isolado'
    BY <1>0 DEF Isolado, Baixa
  <1> QED BY <1>3, <1>4, <1>5, <1>6, <1>8, <1>9, <1>10

\* The second evaluation, at which the command is published.
LEMMA RevalidarAutomatica ==
    ASSUME AuxiliaryAssumption, Typed, Automatica, NEW a \in Atores, Revalidar(a)
    PROVE  Automatica'
  <1>0. exec[a].pc = "revalidar" /\ Comandos
    BY DEF Revalidar, Typed
  <1>1. PICK apto \in BOOLEAN :
          Vai(a, IF Atual(a, exec[a].tanque) /\ Permitido(a, exec[a].acao, exec[a].tanque, apto)
                 THEN "esp" ELSE "recuar")
    BY DEF Revalidar
  <1>2. UNCHANGED <<linhas, modo, hw, tele>>
    BY DEF Revalidar
  <1>3. CASE SemPublicar
    <2>1. Baixa /\ sub'.tanque = sub.tanque
      BY <1>2 DEF Baixa, linhas
    <2>2. Solta /\ Andam
      BY CommandAnda DEF Command
    <2> QED BY <1>2, <1>3, <2>1, <2>2, CalmaAutomatica
  <1>4. CASE ~ SemPublicar
    <2>1. Permitido(a, exec[a].acao, exec[a].tanque, apto) /\ Vai(a, "esp")
      <3>1. "recuar" \notin {"esp"} /\ exec[a].pc \in Reservado
        BY <1>0 DEF Reservado
      <3>2. Vai(a, "recuar") => SemPublicar
        BY <1>0, <3>1, VaiAnda
      <3> QED BY <1>1, <1>4, <3>2
    <2>2. /\ exec'[a].pc = "esp" /\ exec'[a].acao = exec[a].acao /\ exec'[a].tanque = exec[a].tanque
          /\ \A x \in Atores : x # a => exec'[x] = exec[x]
      BY <1>0, <2>1 DEF Vai, Comandos, Exec
    <2>3. /\ sub' = sub /\ lido' = lido /\ antes' = antes /\ hw' = hw /\ tele' = tele /\ modo' = modo
      BY <1>2 DEF linhas
    <2>4. "revalidar" \in Reservado /\ "esp" \in Reservado
      BY DEF Reservado
    <2> SUFFICES ASSUME modo = "AUTOMATICO"
                 PROVE  (Restrito /\ Volta /\ Escolhe /\ Confere /\ Ligando /\ Abrindo /\ Isolado)'
      BY <2>3 DEF Automatica
    <2>5. Restrito /\ Volta /\ Escolhe /\ Confere /\ Ligando /\ Abrindo /\ Isolado
      BY DEF Automatica
    <2>6. Restrito'
      BY <2>2, <2>5 DEF Restrito, Atores
    <2>7. Volta'
      BY <1>0, <2>2, <2>3, <2>4, <2>5 DEF Volta
    <2>8. S \in Atores
      BY DEF S, Atores
    <2>9. Escolhe'
      BY <1>0, <2>2, <2>3, <2>5, <2>8 DEF Escolhe
    <2>10. Confere' /\ Isolado'
      BY <2>3, <2>5 DEF Confere, Isolado
    <2>11. Ligando'
      <3>1. CASE a # S
        BY <2>2, <2>3, <2>5, <2>8, <3>1 DEF Ligando
      <3>2. CASE a = S
        <4> SUFFICES ASSUME exec[S].acao = "LIGAR"
                     PROVE  /\ hw.abertas \subseteq {exec[S].tanque}
                            /\ hw.abertas # {} => tele.abertas = {exec[S].tanque}
          BY <2>2, <2>3, <3>2 DEF Ligando
        <4>1. sub.tanque = exec[S].tanque /\ tele.abertas = {exec[S].tanque}
          BY <2>1, <3>2 DEF Permitido, HardwarePermite
        <4>2. exec[S].tanque # Nenhum
          BY <1>0, <2>8 DEF Comandos
        <4> QED BY <2>5, <4>1, <4>2 DEF Confere
      <3> QED BY <3>1, <3>2
    <2>12. Abrindo'
      <3>1. CASE a # S
        BY <2>2, <2>3, <2>5, <2>8, <3>1 DEF Abrindo
      <3>2. CASE a = S
        <4> SUFFICES ASSUME exec[S].acao = "ABRIR", hw.bomba
                     PROVE  hw.abertas = {exec[S].tanque}
          BY <2>2, <2>3, <3>2 DEF Abrindo
        <4>1. tele.abertas \subseteq {exec[S].tanque}
          BY <2>1, <3>2 DEF Permitido, HardwarePermite
        <4> QED BY <2>5, <4>1 DEF Isolado
      <3> QED BY <3>1, <3>2
    <2> QED BY <2>6, <2>7, <2>9, <2>10, <2>11, <2>12
  <1> QED BY <1>3, <1>4

\* The controller: whoever closes or turns off lowers the outputs, and the
\* scheduler opens and turns on over the tank of the row.
LEMMA EspAutomatica ==
    ASSUME AuxiliaryAssumption, Typed, Automatica, NEW a \in Atores, EspExecuta(a)
    PROVE  Automatica'
  <1>0. /\ exec[a] \in Exec /\ Comandos /\ exec[a].pc = "esp"
        /\ hw \in Saidas /\ S \in Atores
    BY DEF EspExecuta, Typed, Comandos, S, Atores
  <1>1. Solta /\ Andam /\ SemPublicar
    BY CommandAnda DEF Command, EspExecuta, Revalidar
  <1>2. sub' = sub /\ lido' = lido /\ antes' = antes /\ tele' = tele /\ modo' = modo
    BY DEF EspExecuta, linhas
  <1>3. CASE Baixa
    BY <1>1, <1>2, <1>3, CalmaAutomatica
  <1>4. CASE ~ Baixa
    <2> SUFFICES ASSUME modo = "AUTOMATICO"
                 PROVE  (Restrito /\ Volta /\ Escolhe /\ Confere /\ Ligando /\ Abrindo /\ Isolado)'
      BY <1>2 DEF Automatica
    <2>4. Restrito /\ Volta /\ Escolhe /\ Confere /\ Ligando /\ Abrindo /\ Isolado
      BY DEF Automatica
    <2>1. /\ EspAceita(exec[a].acao, exec[a].tanque)
          /\ hw' = EspFaz(exec[a].acao, exec[a].tanque)
          /\ Vai(a, "resposta")
      <3>1. UNCHANGED hw => Baixa
        BY <1>2 DEF Baixa
      <3> QED BY <1>4, <3>1 DEF EspExecuta
    <2>2. exec[a].acao \in Energizam
      <3>1. exec[a].acao # "DESLIGAR"
        <4> SUFFICES ASSUME exec[a].acao = "DESLIGAR" PROVE Baixa
          BY <1>4
        <4>1. hw'.abertas = hw.abertas /\ hw'.bomba = FALSE
          BY <1>0, <2>1 DEF EspFaz, Saidas
        <4> QED BY <1>2, <4>1 DEF Baixa
      <3>2. exec[a].acao # "FECHAR"
        <4> SUFFICES ASSUME exec[a].acao = "FECHAR" PROVE Baixa
          BY <1>4
        <4>1. hw'.abertas = hw.abertas \ {exec[a].tanque} /\ hw'.bomba = hw.bomba
          BY <1>0, <2>1 DEF EspFaz, Saidas
        <4>2. ~ (hw.bomba /\ hw.abertas = {exec[a].tanque})
          BY <2>1 DEF EspAceita
        <4> QED BY <1>2, <2>4, <4>1, <4>2 DEF Baixa, Isolado
      <3> QED BY <1>0, <3>1, <3>2 DEF Exec, Acoes
    <2>3. /\ exec'[a].pc = "resposta" /\ exec'[a].acao = exec[a].acao /\ exec'[a].tanque = exec[a].tanque
          /\ \A x \in Atores : x # a => exec'[x] = exec[x]
      BY <1>0, <2>1 DEF Vai, Comandos, Exec
    <2>5. a = S
      BY <2>2, <2>4 DEF Restrito, Atores, S
    <2>6. exec'[S].pc \notin {"reservar", "revalidar", "esp"} /\ "esp" \in Reservado
      BY <2>3, <2>5 DEF Reservado
    <2>7. sub.tanque \in {Nenhum, exec[S].tanque}
      BY <1>0, <2>2, <2>4, <2>5 DEF Escolhe
    <2>8. Restrito'
      BY <2>3, <2>4, <2>5, AuxiliaryAssumption DEF Restrito, Atores, S, AuxiliaryAssumption
    <2>9. Volta'
      BY <1>0, <1>2, <2>3, <2>4, <2>6 DEF Volta
    <2>10. Escolhe' /\ Ligando' /\ Abrindo'
      BY <2>6 DEF Escolhe, Ligando, Abrindo
    <2>11. CASE exec[S].acao = "ABRIR"
      <3>1. hw'.abertas = hw.abertas \cup {exec[S].tanque} /\ hw'.bomba = hw.bomba
        BY <1>0, <2>1, <2>5, <2>11 DEF EspFaz, Saidas
      <3>2. Confere'
        BY <1>2, <2>4, <2>7, <3>1 DEF Confere
      <3>3. Isolado'
        BY <1>0, <1>2, <2>4, <2>5, <2>11, <3>1 DEF Isolado, Abrindo
      <3> QED BY <2>8, <2>9, <2>10, <3>2, <3>3
    <2>12. CASE exec[S].acao = "LIGAR"
      <3>1. hw'.abertas = hw.abertas
        BY <1>0, <2>1, <2>5, <2>12 DEF EspFaz, Saidas
      <3>2. hw.abertas # {}
        BY <2>1, <2>5, <2>12 DEF EspAceita
      <3>3. exec[S].tanque \in Tanques
        BY <1>0, <2>5, <2>12 DEF Comandos, Exec
      <3>4. hw.abertas = {exec[S].tanque} /\ tele.abertas = {exec[S].tanque}
        BY <1>0, <2>4, <2>5, <2>12, <3>2 DEF Ligando
      <3>5. Confere'
        BY <1>2, <2>4, <3>1 DEF Confere
      <3>6. Isolado'
        BY <1>2, <3>1, <3>3, <3>4 DEF Isolado
      <3> QED BY <2>8, <2>9, <2>10, <3>5, <3>6
    <2> QED BY <2>2, <2>5, <2>8, <2>9, <2>10, <2>11, <2>12 DEF Energizam
  <1> QED BY <1>3, <1>4

\* The other steps of a command, whose rollback restores the tank of the row.
LEMMA CommandAutomatica ==
    ASSUME AuxiliaryAssumption, Typed, Automatica, NEW a \in Atores, Command(a)
    PROVE  Automatica'
  <1>1. CASE Revalidar(a)
    BY <1>1, RevalidarAutomatica
  <1>2. CASE EspExecuta(a)
    BY <1>2, EspAutomatica
  <1>3. ASSUME SemResposta(a) \/ Finalizar(a) \/ MarkInconsistentAfterAck(a) \/ Desfazer(a)
        PROVE  Automatica'
    <2> SUFFICES ASSUME modo = "AUTOMATICO" PROVE Automatica'
      BY <1>3 DEF Automatica, SemResposta, Finalizar, MarkInconsistentAfterAck, Desfazer
    <2>1. Solta /\ Andam
      BY CommandAnda
    <2>2. SemPublicar
      <3>1. ASSUME Revalidar(a) PROVE FALSE
        BY <1>3, <3>1 DEF Revalidar, SemResposta, Finalizar, MarkInconsistentAfterAck, Desfazer
      <3> QED BY <3>1, CommandAnda
    <2>3. Baixa /\ UNCHANGED modo
      <3>1. SemResposta(a) => Baixa /\ UNCHANGED modo
        BY DEF SemResposta, TeleAposEspera, Telemetria, Baixa, Typed, Snapshot
      <3>2. UNCHANGED <<hw, tele>> => Baixa
        BY DEF Baixa
      <3> QED BY <1>3, <3>1, <3>2 DEF Finalizar, MarkInconsistentAfterAck, Desfazer
    <2>4. sub'.tanque \in {Nenhum, sub.tanque}
      <3>0. sub \in SubRow
        BY DEF Typed
      <3>1. CASE UNCHANGED linhas
        BY <3>1 DEF linhas
      <3>2. CASE Finalizar(a) /\ ~ UNCHANGED linhas
        BY <3>0, <3>2 DEF Finalizar, SubRow
      <3>3. CASE MarkInconsistentAfterAck(a)
        BY <3>0, <3>3 DEF MarkInconsistentAfterAck, SubRow
      <3>4. CASE Desfazer(a)
        <4>1. sub' = SubDesfeito(a) /\ exec[a].pc \in Reservado
          BY <3>4 DEF Desfazer, Reservado
        <4>2. a \in lido[Sub] => antes[Sub].tanque \in {Nenhum, sub.tanque}
          BY <4>1 DEF Automatica, Volta
        <4> QED BY <3>0, <4>1, <4>2 DEF SubDesfeito, SubRow
      <3> QED BY <1>3, <3>1, <3>2, <3>3, <3>4 DEF SemResposta
    <2> QED BY <2>1, <2>2, <2>3, <2>4, CalmaAutomatica
  <1> QED BY <1>1, <1>2, <1>3 DEF Command

\* A reservation, of a person's shutdown or of the scheduler's decision.
LEMMA ReservaAutomatica ==
    ASSUME AuxiliaryAssumption, Typed, Automatica, UNCHANGED <<modo, hw, tele>>, NEW a \in Atores,
           NEW acao, NEW t, NEW b, NEW apto,
           Permitido(a, acao, t, apto), ReserveCommand(a, acao, t, b),
           acao \in Energizam => t # Nenhum,
           a = S => acao = exec[S].acao /\ t = exec[S].tanque /\ exec[S].pc = "reservar"
                    /\ S \in lido[Sub]
    PROVE  Automatica'
  <1> SUFFICES ASSUME modo = "AUTOMATICO"
               PROVE  (Restrito /\ Volta /\ Escolhe /\ Confere /\ Ligando /\ Abrindo /\ Isolado)'
    BY DEF Automatica
  <1>0. Restrito /\ Volta /\ Escolhe /\ Confere /\ Ligando /\ Abrindo /\ Isolado
    BY DEF Automatica
  <1>1. /\ lido'[Sub] = {a}
        /\ antes'[Sub] = [status |-> sub.status, tanque |-> sub.tanque]
        /\ sub'.tanque = IF acao \in Energizam THEN t ELSE sub.tanque
        /\ exec'[a].pc = "revalidar" /\ exec'[a].acao = acao /\ exec'[a].tanque = t
        /\ \A x \in Atores : x # a => exec'[x] = exec[x]
    BY Reservada DEF Typed
  <1>2. /\ S \in Atores /\ "reservar" \notin Reservado
        /\ Escalonador \notin Usuarios
    BY DEF S, Atores, Reservado, AuxiliaryAssumption
  <1>3. acao \in Energizam => a = S
    <2>1. a # S => a \in Usuarios
      BY DEF S, Atores
    <2> QED BY <2>1 DEF Permitido, ModoPermite, S
  <1>4. a = S /\ acao \in Energizam => sub.tanque \in {Nenhum, t}
    BY <1>0 DEF Escolhe
  <1>5. Restrito'
    BY <1>0, <1>1, <1>2, <1>3 DEF Restrito, Atores, S
  <1>6. Volta'
    BY <1>1, <1>3, <1>4 DEF Volta
  <1>7. Escolhe'
    <2>1. CASE a = S
      BY <1>1, <1>2, <2>1 DEF Escolhe
    <2>2. CASE a # S
      <3>1. sub'.tanque = sub.tanque /\ exec'[S] = exec[S] /\ S \notin lido'[Sub]
        BY <1>1, <1>2, <1>3, <2>2
      <3> QED BY <1>0, <3>1 DEF Escolhe
    <2> QED BY <2>1, <2>2
  <1>8. Confere'
    <2>1. CASE sub'.tanque = sub.tanque
      BY <1>0, <2>1 DEF Confere
    <2>2. CASE sub'.tanque # sub.tanque
      <3>1. a = S /\ acao \in Energizam /\ sub'.tanque = t /\ sub.tanque = Nenhum
        BY <1>1, <1>3, <1>4, <2>2
      <3>2. tele.abertas = {} \/ hw.abertas \subseteq tele.abertas
        BY <1>0, <3>1 DEF Escolhe
      <3> QED BY <3>1, <3>2 DEF Confere
    <2> QED BY <2>1, <2>2
  <1>9. exec'[S].pc = "esp" => exec'[S] = exec[S]
    BY <1>1, <1>2
  <1>10. Ligando' /\ Abrindo'
    BY <1>0, <1>9 DEF Ligando, Abrindo
  <1>11. Isolado'
    BY <1>0 DEF Isolado
  <1> QED BY <1>5, <1>6, <1>7, <1>8, <1>10, <1>11

\* The decision of a cycle, on the row and the telemetry it reads.
LEMMA ComandoAutomatica ==
    ASSUME Typed, Automatica, UNCHANGED <<modo, hw, tele>>, NEW acao, NEW t, NEW b,
           Comando(acao, t, b),
           acao \in Energizam => \/ sub.tanque = t /\ t # Nenhum
                                 \/ sub.tanque = Nenhum /\ tele.abertas = {}
    PROVE  Automatica'
  <1> SUFFICES ASSUME modo = "AUTOMATICO"
               PROVE  (Restrito /\ Volta /\ Escolhe /\ Confere /\ Ligando /\ Abrindo /\ Isolado)'
    BY DEF Automatica
  <1>0. Restrito /\ Volta /\ Escolhe /\ Confere /\ Ligando /\ Abrindo /\ Isolado
    BY DEF Automatica
  <1>1. /\ UNCHANGED <<sub, antes>>
        /\ lido'[Sub] \subseteq lido[Sub] \cup {S}
        /\ exec'[S].pc = "reservar" /\ exec'[S].acao = acao /\ exec'[S].tanque = t
        /\ \A a \in Atores : a # S => exec'[a] = exec[a]
    BY DEF Comando, Typed, Versoes, Rows, Comandos, Livre, S, Atores
  <1>2. "reservar" \notin Reservado
    BY DEF Reservado
  <1>3. Restrito'
    <2>1. \A u \in Usuarios : u \in Atores /\ (u = S => exec[u].acao \notin Energizam)
      BY <1>0 DEF Restrito, Atores
    <2> QED BY <1>0, <1>1, <2>1, AuxiliaryAssumption DEF Restrito, AuxiliaryAssumption, S
  <1>4. Volta'
    BY <1>0, <1>1, <1>2 DEF Volta
  <1>5. Escolhe'
    BY <1>1 DEF Escolhe
  <1>6. Confere' /\ Isolado'
    BY <1>0, <1>1 DEF Confere, Isolado
  <1>7. Ligando' /\ Abrindo'
    BY <1>1 DEF Ligando, Abrindo
  <1> QED BY <1>3, <1>4, <1>5, <1>6, <1>7

\* The scheduler.
LEMMA SchedulerAutomatica ==
    ASSUME AuxiliaryAssumption, Typed, Automatica, Scheduler PROVE Automatica'
  <1>0. S \in Atores /\ Versoes /\ Comandos /\ sub \in SubRow
    BY DEF S, Atores, Typed
  <1>1. ASSUME UNCHANGED <<modo, hw, tele>>, Solta, Andam, SemPublicar,
               sub'.tanque \in {Nenhum, sub.tanque}
        PROVE  Automatica'
    <2>1. Baixa
      BY <1>1 DEF Baixa
    <2> QED BY <1>1, <2>1, CalmaAutomatica
  <1>2. CASE SynchronizeCandidates
    BY <1>1, <1>2, SynchronizeAnda DEF SynchronizeCandidates
  <1>3. ASSUME NEW assentado \in BOOLEAN, EvaluateContext(assentado) PROVE Automatica'
    <2>0. UNCHANGED <<modo, hw, tele>>
      BY <1>3 DEF EvaluateContext
    <2>1. ASSUME NEW s, Ocioso(s) \/ Nada PROVE Automatica'
      <3>1. sub'.tanque = sub.tanque
        BY <1>0, <2>1 DEF Ocioso, Nada, SubRow
      <3> QED BY <1>1, <2>0, <2>1, <3>1, OciosoAnda
    <2>2. ASSUME NEW acao, NEW t, NEW b, acao \notin Energizam, Comando(acao, t, b)
          PROVE  Automatica'
      BY <2>0, <2>2, ComandoAutomatica
    <2>3. "DESLIGAR" \notin Energizam /\ "FECHAR" \notin Energizam
      BY DEF Energizam
    <2>4. CASE sub.tanque = Nenhum
      <3>1. HandleIdleSubsystem
        BY <1>3, <2>4 DEF EvaluateContext
      <3>2. ASSUME NEW t, tele.abertas = {}, Comando("ABRIR", t, "nao") PROVE Automatica'
        BY <2>0, <2>4, <3>2, ComandoAutomatica
      <3> QED BY <2>1, <2>2, <2>3, <3>1, <3>2 DEF HandleIdleSubsystem
    <2>5. CASE sub.tanque # Nenhum
      <3>1. PICK parada : AdvanceCurrentTank(sub.tanque, parada, assentado)
        BY <1>3, <2>5 DEF EvaluateContext
      <3>2. ASSUME NEW acao, NEW b, Comando(acao, sub.tanque, b) PROVE Automatica'
        BY <2>0, <2>5, <3>2, ComandoAutomatica
      <3> QED BY <2>1, <2>2, <2>3, <3>1, <3>2 DEF AdvanceCurrentTank
    <2> QED BY <2>4, <2>5
  <1>4. CASE Reservar
    <2>0. UNCHANGED <<modo, hw, tele>>
      BY <1>4 DEF Reservar
    <2>1. CASE Termina(S) /\ Esquece(S) /\ UNCHANGED sub
      BY <1>1, <2>0, <2>1, RecusaAnda
    <2>2. ASSUME NEW apto, Atual(S, exec[S].tanque),
                 Permitido(S, exec[S].acao, exec[S].tanque, apto),
                 ReserveCommand(S, exec[S].acao, exec[S].tanque, exec[S].bloqueia)
          PROVE  Automatica'
      <3>1. S \in lido[Sub] /\ exec[S].pc = "reservar"
        BY <1>4, <2>2 DEF Atual, Linhas, Reservar
      <3>2. exec[S].acao \in Energizam => exec[S].tanque # Nenhum
        BY <1>0 DEF Comandos, Energizam
      <3> QED BY <1>0, <2>0, <2>2, <3>1, <3>2, ReservaAutomatica
    <2> QED BY <1>4, <2>1, <2>2 DEF Reservar
  <1>5. CASE BlockTank \/ MarkSchedulerFailure
    <2>1. sub'.tanque \in {Nenhum, sub.tanque} /\ UNCHANGED <<modo, hw, tele>>
      BY <1>0, <1>5 DEF BlockTank, MarkSchedulerFailure, SubRow, ambiente
    <2> QED BY <1>1, <1>5, <2>1, FimAnda
  <1> QED BY <1>2, <1>3, <1>4, <1>5 DEF Scheduler

\* People, whose leases and shutdowns move no tank onto the row.
LEMMA HumanAutomatica ==
    ASSUME AuxiliaryAssumption, Typed, Automatica, NEW u \in Usuarios, Human(u)
    PROVE  Automatica'
  <1>0. u \in Atores /\ u # S
    BY DEF Atores, S, AuxiliaryAssumption
  <1>1. CASE LeaseStep(u)
    <2>1. sub'.tanque \in {Nenhum, sub.tanque} /\ UNCHANGED <<modo, hw, tele>>
      <3>0. sub \in SubRow
        BY DEF Typed
      <3>1. ASSUME AcquirePumpControl(u)
            PROVE  sub'.tanque = sub.tanque /\ UNCHANGED <<modo, hw, tele>>
        BY <3>0, <3>1 DEF AcquirePumpControl, SubRow
      <3>2. ASSUME ReleasePumpControl(u)
            PROVE  sub'.tanque = Nenhum /\ UNCHANGED <<modo, hw, tele>>
        BY <3>2 DEF ReleasePumpControl
      <3>3. ASSUME NEW t \in Tanques, AcquireValveControl(u, t) \/ ReleaseValveControl(u, t)
            PROVE  UNCHANGED <<sub, modo, hw, tele>>
        BY <3>3 DEF AcquireValveControl, ReleaseValveControl
      <3> QED BY <1>1, <3>1, <3>2, <3>3 DEF LeaseStep
    <2>2. Baixa
      BY <2>1 DEF Baixa
    <2> QED BY <1>1, <2>1, <2>2, LeaseAnda, CalmaAutomatica
  <1>2. ASSUME NEW acao \in Acoes, NEW t \in Tanques \cup {Nenhum}, Pedir(u, acao, t)
        PROVE  Automatica'
    <2>1. acao \in Energizam => t # Nenhum
      BY <1>2 DEF Pedir, Energizam
    <2> QED BY <1>0, <1>2, <2>1, ReservaAutomatica DEF Pedir
  <1> QED BY <1>1, <1>2 DEF Human, LeaseStep

\* The process, the telemetry and the failures.
LEMMA AmbienteAutomatica ==
    ASSUME Typed, Automatica, Lifecycle \/ Environment PROVE Automatica'
  <1>0. Solta /\ Andam /\ SemPublicar
    BY AmbienteAnda
  <1>1. /\ Desenergizado.abertas = {} /\ Desenergizado.bomba = FALSE
        /\ Telemetria(hw).abertas = hw.abertas
    BY DEF Desenergizado, Telemetria
  <1>2. sub'.tanque \in {Nenhum, sub.tanque} /\ UNCHANGED modo
    <2>1. ASSUME NEW x, NEW y, NEW z, Neutraliza(x, y, z) PROVE sub'.tanque = Nenhum
      BY <2>1 DEF Neutraliza
    <2>2. CASE Lifecycle
      <3>1. CASE UNCHANGED linhas
        BY <2>2, <3>1 DEF linhas, Lifecycle, Pausar, GravarPausa, IniciarEncerramento, PararSaidas,
                          Encerrar, ambiente
      <3>2. CASE GravarPausa \/ IniciarEncerramento \/ Encerrar
        BY <2>1, <3>2 DEF GravarPausa, IniciarEncerramento, Encerrar
      <3> QED BY <2>2, <3>1, <3>2 DEF Lifecycle, Pausar, PararSaidas
    <2>3. CASE Environment
      BY <2>3 DEF Environment, ResolveAlarme, Vence, RecebeTelemetria, Silencio, Queda, linhas,
                  Typed, SubRow, ambiente
    <2> QED BY <2>2, <2>3
  <1>3. Baixa
    <2>1. UNCHANGED <<hw, tele>> => Baixa
      BY DEF Baixa
    <2>2. hw' = Desenergizado /\ UNCHANGED tele => Baixa
      BY <1>1 DEF Baixa
    <2>3. RecebeTelemetria => Baixa
      BY <1>1 DEF RecebeTelemetria, Baixa
    <2>4. Silencio => Baixa
      BY DEF Silencio, Baixa, Typed, Snapshot
    <2>5. CASE Lifecycle
      BY <2>1, <2>2, <2>5 DEF Lifecycle, Pausar, GravarPausa, IniciarEncerramento, PararSaidas,
                              Encerrar
    <2>6. CASE Environment
      BY <2>1, <2>3, <2>4, <2>6 DEF Environment, ResolveAlarme, Vence, Queda
    <2> QED BY <2>5, <2>6
  <1> QED BY <1>0, <1>2, <1>3, CalmaAutomatica

\* The pump of an automatic process never joins two tanks: OneTankOnTheLine.
THEOREM LineTheorem == Spec => []OneTankOnTheLine
  <1>1. AuxiliaryAssumption
    BY AuxiliaryAssumption
  <1>2. Init => Automatica
    <2> SUFFICES ASSUME Init
                 PROVE  Restrito /\ Volta /\ Escolhe /\ Confere /\ Ligando /\ Abrindo /\ Isolado
      BY DEF Automatica
    <2>1. \A a \in Atores : exec[a].acao = "DESLIGAR" /\ exec[a].pc = "livre"
      BY DEF Init, Livre
    <2>2. Restrito
      BY <2>1 DEF Restrito, Atores, Energizam
    <2>3. Volta
      BY <2>1 DEF Volta, Reservado
    <2>4. Escolhe /\ Ligando /\ Abrindo
      BY <2>1 DEF Escolhe, Ligando, Abrindo, S, Atores
    <2>5. Confere /\ Isolado
      BY DEF Init, Confere, Isolado
    <2> QED BY <2>2, <2>3, <2>4, <2>5
  <1>3. AuxiliaryAssumption /\ Typed /\ Automatica /\ [Next]_vars => Automatica'
    <2> SUFFICES ASSUME AuxiliaryAssumption, Typed, Automatica, [Next]_vars PROVE Automatica'
      OBVIOUS
    <2>1. CASE UNCHANGED vars
      BY <2>1 DEF vars, linhas, Automatica, Restrito, Volta, Escolhe, Confere, Ligando, Abrindo,
                  Isolado
    <2> QED BY <2>1, CommandAutomatica, HumanAutomatica, SchedulerAutomatica, AmbienteAutomatica
            DEF Next
  <1>4. Typed /\ Automatica => OneTankOnTheLine
    <2> SUFFICES ASSUME Typed, Automatica, modo = "AUTOMATICO", hw.bomba
                 PROVE  Cardinality(hw.abertas) <= 1
      BY DEF OneTankOnTheLine, SingleValveInService
    <2>1. PICK t \in Tanques : hw.abertas = {t}
      BY DEF Automatica, Isolado
    <2> QED BY <2>1, FS_Singleton
  <1> QED BY <1>1, <1>2, <1>3, <1>4, InitTyped, StepTyped, PTL DEF Spec
=============================================================================
