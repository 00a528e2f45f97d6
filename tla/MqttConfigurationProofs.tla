----------------------- MODULE MqttConfigurationProofs -----------------------
(***************************************************************************)
(* Proofs about the administration of the MQTT link, for any requests,     *)
(* operations and number of events: the types, that credentials called     *)
(* verified are those the broker accepted, that the lease keeps a process  *)
(* from starting under an administrative operation, and that an update     *)
(* that failed leaves the configuration it found.                          *)
(***************************************************************************)
EXTENDS MqttConfiguration, SequenceTheorems, TLAPS

Creds == {CredAntiga, CredNova, Nenhum}
Conectam == {"CONFIG", "CREDENCIAL", "RECONECTAR", "COMANDAR", "TESTAR", "INICIAR"}
Desligam == {"CONFIG", "CREDENCIAL", "RECONECTAR", "DESCONECTAR", "RESTAURAR"}
Reservam == {"CONFIG", "CREDENCIAL", "RECONECTAR", "DESCONECTAR", "COMANDAR"}
DaConexao == {"conecta", "le", "abre", "espera", "assina", "falha", "firma", "fecha", "fechando"}
Segues == {"abre", "falha", "fecha", "firma", "conecta", "libera", "recarrega"}
Respostas == {"OCUPADA", "RECUSADA", "PERDIDA", "DESFEITA", "INCOMPLETA", "ERRO",
              "APLICADA", "PUBLICADA", Nenhum}

Linha == [cfg : Configs, status : Status, verif : BOOLEAN, falha : BOOLEAN,
          token : Pedidos \cup {Nenhum}, vigente : BOOLEAN]
Cliente == [id : Nat, cfg : Configs \cup {Nenhum}, cred : Creds, vivo : BOOLEAN]
Pedido == [op : Operacoes \cup {"INICIAR", Nenhum}, pc : Pcs, cfg : Configs \cup {Nenhum},
           cred : Creds, cli : Nat, anterior : Configs \cup {Nenhum}, volta : BOOLEAN,
           sucesso : BOOLEAN, perdeu : BOOLEAN, resp : Respostas]
Entrada == [dono : Todos \cup {Nenhum}, status : Status, cfg : Configs \cup {Nenhum},
            cli : Nat, cred : {"", "RECUSADA", "VERIFICADA"},
            segue : Segues \cup {""}, senao : {"falha", "fecha", ""}]

\* Which operations can be at which step, and what CONFIG has read by then.
Papel(p) ==
    /\ p.pc = "reserva" => p.op \in Reservam
    /\ p.pc \in {"prova", "renova"} => p.op \in {"CONFIG", "CREDENCIAL"}
    /\ p.pc \in {"arquivo", "marca"} => p.op = "CREDENCIAL"
    /\ p.pc \in {"grava", "confirma", "desfaz", "restaurada"} => p.op = "CONFIG"
    /\ p.pc = "restaura" => p.op = "RESTAURAR"
    /\ p.pc \in DaConexao => p.op \in Conectam
    /\ p.pc \in {"desliga", "encerra"} => p.op \in Desligam
    /\ p.op = "CONFIG" /\ p.pc \notin {"fora", "reserva", "prova", "libera", "fim"}
         => p.anterior \in Configs

\* The request that waits for a transition waits in the queue, and the
\* transition says where it goes on.
Espera(t, peds) ==
    t.dono # Nenhum =>
        /\ peds[t.dono].pc = "fila"
        /\ t.segue \in Segues /\ (t.cfg # Nenhum => t.senao \in Segues)
        /\ t.segue \in DaConexao \/ t.senao \in DaConexao => peds[t.dono].op \in Conectam
        /\ t.segue = "abre" => peds[t.dono].cred # Nenhum

\* No request waits for two transitions.
Distintas(q) ==
    \A k, l \in 1..Len(q) : k # l /\ q[k].dono = q[l].dono => q[k].dono = Nenhum

FilaOK(q, peds) ==
    /\ q \in Seq(Entrada)
    /\ \A k \in 1..Len(q) : Espera(q[k], peds)
    /\ Distintas(q)

PedidosOK(peds) ==
    /\ peds \in [Todos -> Pedido] /\ \A r \in Todos : Papel(peds[r])
    /\ peds[Inicio].op = "INICIAR"
    /\ \A r \in Pedidos : peds[r].op \in Operacoes \cup {Nenhum}

LinhaOK(b) == b \in Linha /\ (b.vigente => b.token # Nenhum) /\ (b.verif => ~b.falha)

\* The inductive form of TypeOK.
Typed ==
    /\ LinhaOK(bd)
    /\ arquivo \in Creds /\ pronta \in BOOLEAN
    /\ cliente \in Cliente /\ encerrando \in Nat
    /\ resta \in [eventos : Nat, id : Nat \ {0}]
    /\ encerrando < resta.id /\ cliente.id < resta.id
    /\ conectando \in BOOLEAN /\ conectado \in BOOLEAN /\ processo \in BOOLEAN
    /\ aplicada \in Configs \cup {Nenhum} /\ saude \in Configs
    /\ atualizando \in Pedidos \cup {Nenhum}
    /\ cenario \subseteq Operacoes
    /\ PedidosOK(ped) /\ FilaOK(fila, ped)

-----------------------------------------------------------------------------
(* Lemmas about the queue and the requests *)

\* The assumption on the constants, in the form the steps below use.
LEMMA Constants ==
    /\ Nenhum \notin Todos /\ Pedidos \subseteq Todos
    /\ \A r \in Todos : r \in Pedidos \/ r = Inicio
    /\ Inicio \in Todos /\ Inicio \notin Pedidos
  BY ConfigurationAssumption DEF Todos

\* A transition enqueued behind the others.
LEMMA FilaAppend ==
    ASSUME NEW q, NEW peds, NEW peds2, FilaOK(q, peds),
           \A k \in 1..Len(q) : Espera(q[k], peds2),
           NEW t \in Entrada, Espera(t, peds2),
           t.dono # Nenhum => \A k \in 1..Len(q) : q[k].dono # t.dono
    PROVE  FilaOK(Append(q, t), peds2)
  <1> DEFINE s == Append(q, t)
  <1>1. q \in Seq(Entrada) /\ Len(q) \in Nat
    BY LenProperties DEF FilaOK
  <1>2. /\ s \in Seq(Entrada) /\ Len(s) = Len(q) + 1
        /\ \A k \in 1..Len(q) : s[k] = q[k]
        /\ s[Len(q) + 1] = t
    BY <1>1, AppendProperties
  <1> HIDE DEF s
  <1>3. \A k \in 1..Len(s) : k \in 1..Len(q) \/ k = Len(q) + 1
    BY <1>1, <1>2
  <1>4. \A k \in 1..Len(s) : Espera(s[k], peds2)
    BY <1>2, <1>3
  <1>5. Distintas(s)
    BY <1>2, <1>3 DEF Distintas, FilaOK
  <1>6. FilaOK(s, peds2)
    BY <1>2, <1>4, <1>5 DEF FilaOK
  <1> QED
    BY <1>6 DEF s

\* The transition at the head, and the ones behind it.
LEMMA FilaTail ==
    ASSUME NEW q, NEW peds, FilaOK(q, peds), q # <<>>
    PROVE  /\ Head(q) \in Entrada /\ Espera(Head(q), peds)
           /\ \E k \in 1..Len(q) : q[k] = Head(q)
           /\ FilaOK(Tail(q), peds)
           /\ \A k \in 1..Len(Tail(q)) :
                 /\ Tail(q)[k].dono = Head(q).dono => Head(q).dono = Nenhum
                 /\ \E l \in 1..Len(q) : Tail(q)[k] = q[l]
  <1>1. q \in Seq(Entrada) /\ Len(q) \in Nat \ {0}
    BY EmptySeq DEF FilaOK
  <1>2. /\ Head(q) = q[1] /\ Head(q) \in Entrada
        /\ Tail(q) \in Seq(Entrada) /\ Len(Tail(q)) = Len(q) - 1
        /\ \A k \in 1..Len(Tail(q)) : Tail(q)[k] = q[k + 1]
    BY <1>1, HeadTailProperties
  <1>3. \A k \in 1..Len(Tail(q)) : k + 1 \in 1..Len(q) /\ k + 1 # 1
    BY <1>1, <1>2
  <1>4. 1 \in 1..Len(q)
    BY <1>1
  <1>5. Distintas(Tail(q))
    <2> SUFFICES ASSUME NEW k \in 1..Len(Tail(q)), NEW l \in 1..Len(Tail(q)), k # l,
                        Tail(q)[k].dono = Tail(q)[l].dono
                 PROVE  Tail(q)[k].dono = Nenhum
      BY DEF Distintas
    <2>1. k + 1 # l + 1 /\ k + 1 \in 1..Len(q) /\ l + 1 \in 1..Len(q)
      BY <1>3
    <2> QED
      BY <1>2, <2>1 DEF FilaOK, Distintas
  <1>6. FilaOK(Tail(q), peds)
    BY <1>2, <1>3, <1>5 DEF FilaOK
  <1> QED
    BY <1>2, <1>3, <1>4, <1>6 DEF FilaOK, Distintas

\* A request that waits for no transition is nobody's in the queue.
LEMMA ForaDaFila ==
    ASSUME NEW q, NEW peds, FilaOK(q, peds), NEW r, peds[r].pc # "fila", r # Nenhum
    PROVE  \A k \in 1..Len(q) : q[k].dono # r
  BY DEF FilaOK, Espera

\* A request goes on by itself: the others and the queue do not notice.
LEMMA Passa ==
    ASSUME PedidosOK(ped), NEW q, FilaOK(q, ped), NEW r \in Todos, NEW p \in Pedido,
           \A k \in 1..Len(q) : q[k].dono # r,
           Papel(p), p.op = ped[r].op \/ (r \in Pedidos /\ p.op \in Operacoes)
    PROVE  /\ PedidosOK([ped EXCEPT ![r] = p]) /\ FilaOK(q, [ped EXCEPT ![r] = p])
  <1> DEFINE peds == [ped EXCEPT ![r] = p]
  <1>1. peds \in [Todos -> Pedido] /\ peds[r] = p /\ \A s \in Todos \ {r} : peds[s] = ped[s]
    BY DEF PedidosOK
  <1> HIDE DEF peds
  <1>2. PedidosOK(peds)
    BY <1>1, Constants DEF PedidosOK
  <1>3. \A k \in 1..Len(q) : q[k] \in Entrada
    BY ElementOfSeq DEF FilaOK
  <1>4. \A k \in 1..Len(q) : q[k].dono # Nenhum => peds[q[k].dono] = ped[q[k].dono]
    BY <1>1, <1>3 DEF Entrada
  <1>5. FilaOK(q, peds)
    BY <1>4 DEF FilaOK, Espera
  <1> QED
    BY <1>2, <1>5 DEF peds

\* A request enqueues a transition and waits for it.
LEMMA PassaAFila ==
    ASSUME Typed, NEW r \in Todos, ped[r].pc # "fila", NEW p \in Pedido,
           p.pc = "fila", Papel(p), p.op = ped[r].op,
           NEW t \in Entrada, t.dono = r, Espera(t, [ped EXCEPT ![r] = p])
    PROVE  /\ PedidosOK([ped EXCEPT ![r] = p])
           /\ FilaOK(Append(fila, t), [ped EXCEPT ![r] = p])
  <1>1. \A k \in 1..Len(fila) : fila[k].dono # r
    BY ForaDaFila, Constants DEF Typed
  <1>2. PedidosOK([ped EXCEPT ![r] = p]) /\ FilaOK(fila, [ped EXCEPT ![r] = p])
    BY <1>1, Passa DEF Typed
  <1> QED
    BY <1>1, <1>2, FilaAppend DEF FilaOK

\* The same, as the steps of the module write it.
LEMMA Anda ==
    ASSUME Typed, NEW r \in Todos, ped[r].pc # "fila", NEW p \in Pedido, Papel(p),
           p.op = ped[r].op \/ (r \in Pedidos /\ p.op \in Operacoes),
           ped' = [ped EXCEPT ![r] = p], fila' = fila
    PROVE  PedidosOK(ped') /\ FilaOK(fila', ped')
  <1>1. \A k \in 1..Len(fila) : fila[k].dono # r
    BY ForaDaFila, Constants DEF Typed
  <1> QED
    BY <1>1, Passa DEF Typed

\* An operation that goes on to its next step keeps its place: Segue.
LEMMA SegueLemma ==
    ASSUME Typed, NEW r \in Todos, ped[r].pc # "fila", NEW pc \in Pcs, Segue(r, pc),
           Papel([ped[r] EXCEPT !.pc = pc]), fila' = fila
    PROVE  PedidosOK(ped') /\ FilaOK(fila', ped')
  <1> DEFINE p == [ped[r] EXCEPT !.pc = pc]
  <1>1. ped[r] \in Pedido
    BY DEF Typed, PedidosOK
  <1>2. p \in Pedido /\ p.op = ped[r].op
    BY <1>1 DEF Pedido
  <1>3. ped' = [ped EXCEPT ![r] = p]
    BY DEF Segue
  <1> HIDE DEF p
  <1> QED
    BY <1>2, <1>3, Anda DEF p

\* An operation that has its answer goes on to release its lease: Responde.
LEMMA RespondeLemma ==
    ASSUME Typed, NEW r \in Todos, ped[r].pc # "fila", NEW resp \in Respostas,
           Responde(r, resp), fila' = fila
    PROVE  PedidosOK(ped') /\ FilaOK(fila', ped')
  <1> DEFINE p == [ped[r] EXCEPT !.pc = "libera", !.resp = resp]
  <1>1. ped[r] \in Pedido
    BY DEF Typed, PedidosOK
  <1>2. p \in Pedido /\ p.op = ped[r].op
    BY <1>1 DEF Pedido, Pcs
  <1>3. Papel(p)
    BY <1>1 DEF Pedido, Papel, DaConexao
  <1>4. ped' = [ped EXCEPT ![r] = p]
    BY DEF Responde
  <1> HIDE DEF p
  <1> QED
    BY <1>2, <1>3, <1>4, Anda

\* An operation that ends leaves no trace in the queue: Termina.
LEMMA TerminaLemma ==
    ASSUME Typed, NEW r \in Todos, ped[r].pc # "fila", Termina(r), fila' = fila
    PROVE  PedidosOK(ped') /\ FilaOK(fila', ped')
  <1> DEFINE p == [Parado EXCEPT !.op = ped[r].op, !.pc = "fim",
                                 !.resp = ped[r].resp, !.perdeu = ped[r].perdeu]
  <1>1. ped[r] \in Pedido
    BY DEF Typed, PedidosOK
  <1>2. p \in Pedido /\ p.op = ped[r].op
    BY <1>1 DEF Pedido, Pcs, Parado, Creds
  <1>3. Papel(p)
    BY <1>1 DEF Parado, Papel, DaConexao
  <1>4. ped' = [ped EXCEPT ![r] = p]
    BY DEF Termina
  <1> HIDE DEF p
  <1> QED
    BY <1>2, <1>3, <1>4, Anda

\* A connect returns to the operation that asked for it.
LEMMA RetornaLemma ==
    ASSUME Typed, NEW r \in Todos, ped[r].pc \in DaConexao, NEW ok \in BOOLEAN,
           Retorna(r, ok), fila' = fila
    PROVE  PedidosOK(ped') /\ FilaOK(fila', ped')
  <1>1. ped[r] \in Pedido /\ ped[r].pc # "fila" /\ ped[r].op \in Conectam /\ Papel(ped[r])
    BY DEF Typed, PedidosOK, Papel, DaConexao
  <1>2. CASE ped[r].op \in {"TESTAR", "INICIAR"}
    BY <1>1, <1>2, TerminaLemma DEF Retorna
  <1>3. CASE ped[r].op \notin {"TESTAR", "INICIAR"}
    <2> DEFINE pc == IF ~ok /\ ped[r].op = "COMANDAR" THEN "libera" ELSE AposConectar(r)
               p == [ped[r] EXCEPT !.sucesso = ok, !.pc = pc]
    <2>1. pc \in {"libera", "publica"} \/ (pc \in {"restaurada", "confirma"} /\ ped[r].op = "CONFIG")
      BY <1>1, <1>3 DEF AposConectar, Conectam
    <2>2. ped' = [ped EXCEPT ![r] = p]
      BY <1>3 DEF Retorna
    <2> HIDE DEF pc
    <2>3. p \in Pedido /\ p.op = ped[r].op /\ p.anterior = ped[r].anterior /\ p.pc = pc
      BY <1>1, <2>1 DEF Pedido, Pcs
    <2>4. Papel(p)
      BY <1>1, <2>1, <2>3 DEF Papel, DaConexao
    <2> HIDE DEF p
    <2> QED
      BY <1>1, <2>2, <2>3, <2>4, Anda
  <1> QED
    BY <1>2, <1>3

\* A transition enqueued by a request.
LEMMA EnfileiraLemma ==
    ASSUME Typed, NEW r \in Todos, ped[r].pc # "fila", NEW campos \in Pedido,
           campos.op = ped[r].op, campos.op = "CONFIG" => campos.anterior \in Configs,
           NEW t \in Entrada, t.dono = r, t.segue \in Segues, t.cfg # Nenhum => t.senao \in Segues,
           t.segue \in DaConexao \/ t.senao \in DaConexao => ped[r].op \in Conectam,
           t.segue = "abre" => campos.cred # Nenhum,
           Enfileira(r, t, campos)
    PROVE  PedidosOK(ped') /\ FilaOK(fila', ped')
  <1> DEFINE p == [campos EXCEPT !.pc = "fila"]
  <1>1. p \in Pedido /\ p.op = ped[r].op /\ p.pc = "fila" /\ p.cred = campos.cred
        /\ p.anterior = campos.anterior
    BY DEF Pedido, Pcs
  <1>2. ped' = [ped EXCEPT ![r] = p] /\ fila' = Append(fila, t)
    BY DEF Enfileira
  <1> HIDE DEF p
  <1>3. Papel(p)
    BY <1>1 DEF Papel, DaConexao
  <1>4. [ped EXCEPT ![r] = p][r] = p
    BY DEF Typed, PedidosOK
  <1>5. Espera(t, [ped EXCEPT ![r] = p])
    BY <1>1, <1>4 DEF Espera
  <1> QED
    BY <1>1, <1>2, <1>3, <1>5, PassaAFila

-----------------------------------------------------------------------------
(* Type correctness *)

\* The initial state is typed.
LEMMA InitTyped == Init => Typed
  <1> SUFFICES ASSUME Init PROVE Typed
    OBVIOUS
  <1>1. LinhaOK(bd) /\ arquivo \in Creds /\ resta \in [eventos : Nat, id : Nat \ {0}]
    BY ConfigurationAssumption DEF Init, LinhaOK, Linha, Configs, Status, Creds
  <1>2. cliente \in Cliente
    BY DEF Init, SemCliente, Cliente, Creds
  <1>3. Parado \in Pedido /\ Papel(Parado) /\ Parado.op = Nenhum
    BY DEF Parado, Pedido, Pcs, Creds, Respostas, Papel, DaConexao
  <1>4. Conectando \in Pedido /\ Papel(Conectando) /\ Conectando.op = "INICIAR"
    BY DEF Conectando, Parado, Pedido, Pcs, Creds, Respostas, Papel, Conectam, DaConexao
  <1>5. PedidosOK(ped)
    BY <1>3, <1>4, Constants DEF Init, PedidosOK
  <1>6. FilaOK(fila, ped)
    <2>1. fila \in Seq(Entrada) /\ Len(fila) = 0
      BY EmptySeq DEF Init
    <2> QED
      BY <2>1 DEF FilaOK, Distintas
  <1>7. cenario \subseteq Operacoes
    BY ConfigurationAssumption DEF Init
  <1>8. encerrando = 0 /\ cliente.id = 0 /\ resta.id = 1
    BY DEF Init, SemCliente
  <1>9. /\ pronta \in BOOLEAN /\ conectando \in BOOLEAN /\ conectado \in BOOLEAN
        /\ processo \in BOOLEAN /\ aplicada \in Configs \cup {Nenhum} /\ saude \in Configs
        /\ atualizando \in Pedidos \cup {Nenhum}
    BY DEF Init, Configs
  <1> QED
    BY <1>1, <1>2, <1>5, <1>6, <1>7, <1>8, <1>9 DEF Typed

\* A request is made.
LEMMA PedirTyped ==
    ASSUME Typed, NEW r \in Pedidos, NEW op \in Operacoes, Pedir(r, op)
    PROVE  Typed'
  <1> DEFINE pc == IF op = "TESTAR" THEN IF conectado THEN "fim" ELSE "conecta"
                   ELSE IF op = "RESTAURAR" THEN "restaura" ELSE "reserva"
             p == [ped[r] EXCEPT !.op = op, !.pc = pc]
  <1>1. r \in Todos /\ ped[r] \in Pedido /\ ped[r].pc = "fora"
    BY Constants DEF Pedir, Em, Typed, PedidosOK
  <1>2. /\ pc \in {"fim", "conecta", "restaura", "reserva"}
        /\ pc = "conecta" => op = "TESTAR"
        /\ pc = "restaura" => op = "RESTAURAR"
        /\ pc = "reserva" => op \in Reservam
        /\ op = "CONFIG" => pc = "reserva"
    BY DEF Operacoes, Reservam
  <1>3. ped' = [ped EXCEPT ![r] = p] /\ fila' = fila
    BY DEF Pedir
  <1> HIDE DEF pc
  <1>4. p \in Pedido /\ p.op = op /\ p.pc = pc
    BY <1>1, <1>2 DEF Pedido, Pcs
  <1> HIDE DEF p
  <1>5. Papel(p)
    BY <1>2, <1>4 DEF Papel, DaConexao, Conectam
  <1>6. PedidosOK(ped') /\ FilaOK(fila', ped')
    BY <1>1, <1>3, <1>4, <1>5, Anda
  <1> QED
    BY <1>6 DEF Pedir, Typed, LinhaOK, memoria

\* The lease, and the steps of an update up to its reconnection.
LEMMA AtualizacaoTyped ==
    ASSUME Typed, NEW r \in Todos,
           \/ Reservar(r) \/ Liberar(r) \/ Provar(r) \/ Renovar(r) \/ GravarConfig(r)
           \/ Desfazer(r) \/ GravarArquivo(r) \/ MarcarCredencial(r)
    PROVE  Typed'
  <1>1. ped[r] \in Pedido /\ Papel(ped[r]) /\ LinhaOK(bd) /\ bd \in Linha
    BY DEF Typed, PedidosOK, LinhaOK
  <1>2. ASSUME NEW resp \in Respostas, Responde(r, resp), ped[r].pc # "fila", fila' = fila
        PROVE  PedidosOK(ped') /\ FilaOK(fila', ped')
    BY <1>2, RespondeLemma
  <1>3. ASSUME Reservar(r) PROVE Typed'
    <2>1. ped[r].pc = "reserva" /\ ped[r].op \in Reservam /\ r \in Pedidos
      BY <1>1, <1>3, Constants DEF Reservar, Em, Papel, Reservam, Typed, PedidosOK
    <2>2. PedidosOK(ped') /\ FilaOK(fila', ped') /\ fila' = fila
      <3>1. CASE Segue(r, PrimeiroPasso(ped[r].op))
        <4> DEFINE pc == PrimeiroPasso(ped[r].op)
        <4>1. /\ pc \in {"prova", "desliga", "publica", "conecta"}
              /\ pc = "prova" => ped[r].op \in {"CONFIG", "CREDENCIAL"}
              /\ pc = "desliga" => ped[r].op \in {"RECONECTAR", "DESCONECTAR"}
              /\ pc = "conecta" => ped[r].op = "COMANDAR"
              /\ ped[r].op = "CONFIG" => pc = "prova"
          BY <2>1 DEF PrimeiroPasso, Atualiza, Reservam
        <4>2. [ped[r] EXCEPT !.pc = pc].pc = pc /\ [ped[r] EXCEPT !.pc = pc].op = ped[r].op
          BY <1>1 DEF Pedido
        <4> HIDE DEF pc
        <4>3. pc \in Pcs /\ Papel([ped[r] EXCEPT !.pc = pc])
          BY <4>1, <4>2 DEF Papel, Pcs, DaConexao, Desligam, Conectam
        <4>4. Segue(r, pc)
          BY <3>1 DEF pc
        <4> QED
          BY <1>3, <2>1, <4>3, <4>4, SegueLemma DEF Reservar
      <3>2. CASE Responde(r, "OCUPADA")
        BY <1>2, <1>3, <2>1, <3>2 DEF Reservar, Respostas
      <3> QED
        BY <1>3, <3>1, <3>2 DEF Reservar
    <2>3. LinhaOK(bd')
      BY <1>1, <1>3, <2>1, Constants DEF Reservar, LinhaOK, Linha
    <2> QED
      BY <1>3, <2>2, <2>3 DEF Reservar, Typed, memoria
  <1>4. ASSUME Liberar(r) PROVE Typed'
    <2>1. PedidosOK(ped') /\ FilaOK(fila', ped')
      BY <1>4, TerminaLemma DEF Liberar, Em
    <2>2. LinhaOK(bd')
      BY <1>1, <1>4 DEF Liberar, SemLease, LinhaOK, Linha
    <2> QED
      BY <1>4, <2>1, <2>2 DEF Liberar, Typed, memoria
  <1>5. ASSUME Provar(r) PROVE Typed'
    <2> DEFINE cred == IF ped[r].op = "CONFIG" THEN arquivo ELSE CredNova
               lido == [ped[r] EXCEPT !.cred = cred,
                                      !.anterior = IF ped[r].op = "CONFIG" THEN bd.cfg ELSE Nenhum]
    <2>1. ped[r].pc = "prova" /\ ped[r].op \in {"CONFIG", "CREDENCIAL"} /\ cred \in Creds
      BY <1>1, <1>5 DEF Provar, Em, Papel, Typed, Creds
    <2> HIDE DEF cred
    <2>2. /\ lido \in Pedido /\ lido.op = ped[r].op
          /\ lido.op = "CONFIG" => lido.anterior \in Configs
      BY <1>1, <2>1 DEF Pedido, Linha
    <2>3. \E p \in {[lido EXCEPT !.pc = "renova"], Recusada(lido)} :
             ped' = [ped EXCEPT ![r] = p] /\ fila' = fila
      BY <1>5 DEF Provar, cred
    <2> HIDE DEF lido
    <2>4. [lido EXCEPT !.pc = "renova"] \in Pedido /\ Papel([lido EXCEPT !.pc = "renova"])
          /\ [lido EXCEPT !.pc = "renova"].op = ped[r].op
      BY <2>1, <2>2 DEF Pedido, Pcs, Papel, DaConexao
    <2>5. Recusada(lido) \in Pedido /\ Papel(Recusada(lido)) /\ Recusada(lido).op = ped[r].op
      BY <2>1, <2>2 DEF Recusada, Pedido, Pcs, Papel, DaConexao, Respostas
    <2>6. PedidosOK(ped') /\ FilaOK(fila', ped')
      BY <2>1, <2>3, <2>4, <2>5, Anda
    <2>7. LinhaOK(bd')
      BY <1>1, <1>5 DEF Provar, Inspecionada, LinhaOK, Linha
    <2> QED
      BY <1>5, <2>6, <2>7 DEF Provar, Typed, memoria
  <1>6. ASSUME Renovar(r) PROVE Typed'
    <2>1. ped[r].pc = "renova" /\ ped[r].op \in {"CONFIG", "CREDENCIAL"}
      BY <1>1, <1>6 DEF Renovar, Em, Papel
    <2>2. PedidosOK(ped') /\ FilaOK(fila', ped') /\ fila' = fila
      <3> DEFINE pc == IF ped[r].op = "CONFIG" THEN "grava" ELSE "arquivo"
                 p == [ped[r] EXCEPT !.perdeu = FALSE, !.pc = pc]
      <3>1. CASE ped' = [ped EXCEPT ![r] = p]
        <4>3. pc \in Pcs /\ pc = IF ped[r].op = "CONFIG" THEN "grava" ELSE "arquivo"
          BY DEF Pcs
        <4> HIDE DEF pc
        <4>1. p \in Pedido /\ p.op = ped[r].op /\ p.pc = pc /\ p.anterior = ped[r].anterior
          BY <1>1, <4>3 DEF Pedido
        <4> HIDE DEF p
        <4>2. Papel(p)
          BY <1>1, <2>1, <4>1, <4>3 DEF Papel, DaConexao
        <4> QED
          BY <1>6, <2>1, <3>1, <4>1, <4>2, Anda DEF Renovar
      <3>2. CASE Responde(r, "PERDIDA")
        BY <1>2, <1>6, <2>1, <3>2 DEF Renovar, Respostas
      <3> QED
        BY <1>6, <3>1, <3>2 DEF Renovar
    <2>3. LinhaOK(bd')
      BY <1>1, <1>6, <2>1, Constants DEF Renovar, PodeRenovar, LinhaOK, Linha
    <2> QED
      BY <1>6, <2>2, <2>3 DEF Renovar, Typed, memoria
  <1>7. ASSUME GravarConfig(r) PROVE Typed'
    <2>1. ped[r].pc = "grava" /\ ped[r].op = "CONFIG" /\ ped[r].anterior \in Configs
      BY <1>1, <1>7 DEF GravarConfig, Em, Papel
    <2>2. PedidosOK(ped') /\ FilaOK(fila', ped') /\ fila' = fila
      <3>1. CASE Segue(r, "desliga")
        <4>1. Papel([ped[r] EXCEPT !.pc = "desliga"]) /\ "desliga" \in Pcs
          BY <1>1, <2>1 DEF Papel, Pedido, DaConexao, Desligam, Pcs
        <4> QED
          BY <1>7, <2>1, <3>1, <4>1, SegueLemma DEF GravarConfig
      <3>2. CASE Responde(r, "PERDIDA")
        BY <1>2, <1>7, <2>1, <3>2 DEF GravarConfig, Respostas
      <3> QED
        BY <1>7, <3>1, <3>2 DEF GravarConfig
    <2>3. LinhaOK(bd')
      BY <1>1, <1>7 DEF GravarConfig, Gravada, LinhaOK, Linha, Status, Configs
    <2> QED
      BY <1>7, <2>2, <2>3 DEF GravarConfig, Typed, memoria
  <1>8. ASSUME Desfazer(r) PROVE Typed'
    <2>1. ped[r].pc = "desfaz" /\ ped[r].op = "CONFIG" /\ ped[r].anterior \in Configs
      BY <1>1, <1>8 DEF Desfazer, Em, Papel
    <2>2. PedidosOK(ped') /\ FilaOK(fila', ped') /\ fila' = fila
      <3> DEFINE p == [ped[r] EXCEPT !.pc = "desliga", !.volta = TRUE]
      <3>1. CASE ped' = [ped EXCEPT ![r] = p]
        <4>1. p \in Pedido /\ p.op = ped[r].op /\ p.pc = "desliga" /\ p.anterior = ped[r].anterior
          BY <1>1 DEF Pedido, Pcs
        <4> HIDE DEF p
        <4>2. Papel(p)
          BY <2>1, <4>1 DEF Papel, DaConexao, Desligam
        <4> QED
          BY <1>8, <2>1, <3>1, <4>1, <4>2, Anda DEF Desfazer
      <3>2. CASE Responde(r, Relato(FALSE))
        BY <1>2, <1>8, <2>1, <3>2 DEF Desfazer, Relato, Respostas
      <3> QED
        BY <1>8, <3>1, <3>2 DEF Desfazer
    <2>3. LinhaOK(bd')
      BY <1>1, <1>8, <2>1 DEF Desfazer, Gravada, LinhaOK, Linha, Status
    <2> QED
      BY <1>8, <2>2, <2>3 DEF Desfazer, Typed, memoria
  <1>9. ASSUME GravarArquivo(r) PROVE Typed'
    <2>1. ped[r].pc = "arquivo" /\ ped[r].op = "CREDENCIAL" /\ ped[r].cred \in Creds
      BY <1>1, <1>9 DEF GravarArquivo, Em, Papel, Pedido
    <2>2. PedidosOK(ped') /\ FilaOK(fila', ped') /\ fila' = fila
      <3>1. CASE Segue(r, "marca")
        <4>1. Papel([ped[r] EXCEPT !.pc = "marca"]) /\ "marca" \in Pcs
          BY <1>1, <2>1 DEF Papel, Pedido, DaConexao, Pcs
        <4> QED
          BY <1>9, <2>1, <3>1, <4>1, SegueLemma DEF GravarArquivo
      <3>2. CASE Responde(r, "ERRO")
        BY <1>2, <1>9, <2>1, <3>2 DEF GravarArquivo, Respostas
      <3> QED
        BY <1>9, <3>1, <3>2 DEF GravarArquivo
    <2> QED
      BY <1>9, <2>1, <2>2 DEF GravarArquivo, Typed, memoria
  <1>10. ASSUME MarcarCredencial(r) PROVE Typed'
    <2>1. ped[r].pc = "marca" /\ ped[r].op = "CREDENCIAL"
      BY <1>1, <1>10 DEF MarcarCredencial, Em, Papel
    <2>2. Papel([ped[r] EXCEPT !.pc = "desliga"]) /\ "desliga" \in Pcs
      BY <1>1, <2>1 DEF Papel, Pedido, DaConexao, Desligam, Pcs
    <2>3. PedidosOK(ped') /\ FilaOK(fila', ped')
      BY <1>10, <2>1, <2>2, SegueLemma DEF MarcarCredencial
    <2>4. LinhaOK(bd')
      BY <1>1, <1>10 DEF MarcarCredencial, LinhaOK, Linha
    <2> QED
      BY <1>10, <2>3, <2>4 DEF MarcarCredencial, Typed, memoria
  <1> QED
    BY <1>3, <1>4, <1>5, <1>6, <1>7, <1>8, <1>9, <1>10

\* The steps of a connect.
LEMMA ConexaoTyped ==
    ASSUME Typed, NEW r \in Todos,
           \/ Conectar(r) \/ Ler(r) \/ Abrir(r) \/ Aceito(r) \/ Assinar(r) \/ Falhar(r)
           \/ Firmar(r) \/ Fechar(r) \/ Fechado(r)
    PROVE  Typed'
  <1>1. /\ ped[r] \in Pedido /\ Papel(ped[r]) /\ LinhaOK(bd) /\ bd \in Linha
        /\ cliente \in Cliente
    BY DEF Typed, PedidosOK, LinhaOK
  <1>2. ped[r].pc \in DaConexao /\ ped[r].pc # "fila" /\ ped[r].op \in Conectam
        /\ (ped[r].op = "CONFIG" => ped[r].anterior \in Configs)
    BY <1>1 DEF Conectar, Ler, Abrir, Aceito, Assinar, Falhar, Firmar, Fechar, Fechado, Em,
                DaConexao, Papel
  <1>3. ASSUME NEW pc \in DaConexao, Segue(r, pc), fila' = fila
        PROVE  PedidosOK(ped') /\ FilaOK(fila', ped')
    <2>1. Papel([ped[r] EXCEPT !.pc = pc]) /\ pc \in Pcs
      BY <1>1, <1>2, <1>3 DEF Papel, Pedido, DaConexao, Pcs
    <2> QED
      BY <1>2, <1>3, <2>1, SegueLemma
  <1>4. ASSUME NEW ok \in BOOLEAN, Retorna(r, ok), fila' = fila
        PROVE  PedidosOK(ped') /\ FilaOK(fila', ped')
    BY <1>2, <1>4, RetornaLemma
  <1>5. ASSUME Conectar(r) PROVE Typed'
    <2>1. PedidosOK(ped') /\ FilaOK(fila', ped')
      BY <1>3, <1>4, <1>5 DEF Conectar, DaConexao
    <2> QED
      BY <1>5, <2>1 DEF Conectar, Typed
  <1>6. ASSUME Ler(r) PROVE Typed'
    <2> DEFINE campos == [ped[r] EXCEPT !.cfg = bd.cfg, !.cred = arquivo]
               t == IF arquivo = Nenhum THEN Falhou(r, bd.cfg, "")
                    ELSE Transicao(r, "RECONECTANDO", bd.cfg, 0, "", "abre", "falha")
    <2>1. campos \in Pedido /\ campos.op = ped[r].op /\ campos.anterior = ped[r].anterior
          /\ campos.cred = arquivo
      BY <1>1 DEF Pedido, Linha, Typed
    <2>2. /\ t \in Entrada /\ t.dono = r /\ t.segue \in Segues /\ t.senao \in Segues
          /\ t.segue = "abre" => arquivo # Nenhum
      BY <1>1 DEF Falhou, Transicao, Entrada, Linha, Status, Segues
    <2>3. Enfileira(r, t, campos)
      BY <1>6 DEF Ler
    <2> HIDE DEF t, campos
    <2>4. PedidosOK(ped') /\ FilaOK(fila', ped')
      BY <1>2, <2>1, <2>2, <2>3, EnfileiraLemma
    <2>5. LinhaOK(bd')
      BY <1>1, <1>6 DEF Ler, Inspecionada, LinhaOK, Linha
    <2> QED
      BY <1>6, <2>4, <2>5 DEF Ler, Typed, memoria
  <1>7. ASSUME Abrir(r) PROVE Typed'
    <2> DEFINE p == [ped[r] EXCEPT !.pc = "espera", !.cli = resta.id]
    <2>1. ped' = [ped EXCEPT ![r] = p] /\ fila' = fila /\ resta.id \in Nat
      BY <1>7 DEF Abrir, Typed
    <2>2. p \in Pedido /\ p.op = ped[r].op /\ p.pc = "espera" /\ p.anterior = ped[r].anterior
      BY <1>1, <2>1 DEF Pedido, Pcs
    <2> HIDE DEF p
    <2>3. Papel(p)
      BY <1>2, <2>2 DEF Papel
    <2>4. PedidosOK(ped') /\ FilaOK(fila', ped')
      BY <1>2, <2>1, <2>2, <2>3, Anda
    <2>5. /\ cliente' \in Cliente /\ cliente'.id = resta.id
          /\ resta' \in [eventos : Nat, id : Nat \ {0}] /\ resta'.id = resta.id + 1
      BY <1>1, <1>7 DEF Abrir, Typed, Cliente, Pedido
    <2>6. encerrando < resta'.id /\ cliente'.id < resta'.id
      BY <2>1, <2>5 DEF Typed
    <2> QED
      BY <1>7, <2>4, <2>5, <2>6 DEF Abrir, Typed
  <1>8. ASSUME Aceito(r) PROVE Typed'
    <2> DEFINE t == DeEvento("CONECTADO", "VERIFICADA")
    <2>1. t \in Entrada /\ t.dono = Nenhum
      BY <1>1 DEF DeEvento, Transicao, Entrada, Cliente, Status
    <2>2. PedidosOK(ped') /\ FilaOK(fila, ped')
      <3>1. \A k \in 1..Len(fila) : fila[k].dono # r
        BY <1>2, ForaDaFila, Constants DEF Typed
      <3> DEFINE p == [ped[r] EXCEPT !.pc = "assina"]
      <3>2. ped' = [ped EXCEPT ![r] = p]
        BY <1>8 DEF Aceito, Segue
      <3>3. p \in Pedido /\ p.op = ped[r].op /\ p.pc = "assina" /\ p.anterior = ped[r].anterior
        BY <1>1 DEF Pedido, Pcs
      <3> HIDE DEF p
      <3>4. Papel(p)
        BY <1>2, <3>3 DEF Papel
      <3> QED
        BY <3>1, <3>2, <3>3, <3>4, Passa DEF Typed
    <2>3. fila' = fila \/ fila' = Append(fila, t)
      BY <1>8 DEF Aceito
    <2> HIDE DEF t
    <2>6. Espera(t, ped') /\ \A k \in 1..Len(fila) : Espera(fila[k], ped')
      BY <2>1, <2>2 DEF Espera, FilaOK
    <2>7. FilaOK(Append(fila, t), ped')
      BY <2>1, <2>2, <2>6, FilaAppend
    <2>4. FilaOK(fila', ped')
      BY <2>2, <2>3, <2>7
    <2>5. cliente' \in Cliente /\ cliente'.id = cliente.id
      BY <1>1, <1>8 DEF Aceito, Cliente
    <2> QED
      BY <1>8, <2>2, <2>4, <2>5 DEF Aceito, Typed
  <1>9. ASSUME Assinar(r) PROVE Typed'
    <2> DEFINE t == Transicao(r, "CONECTADO", ped[r].cfg, cliente.id, "VERIFICADA", "firma", "falha")
    <2>1. t \in Entrada /\ t.dono = r /\ t.segue \in Segues /\ t.senao \in Segues /\ t.segue # "abre"
      BY <1>1 DEF Transicao, Entrada, Status, Segues, Pedido, Cliente
    <2>2. Enfileira(r, t, ped[r])
      BY <1>9 DEF Assinar
    <2> HIDE DEF t
    <2>3. PedidosOK(ped') /\ FilaOK(fila', ped')
      BY <1>1, <1>2, <2>1, <2>2, EnfileiraLemma
    <2> QED
      BY <1>9, <2>3 DEF Assinar, Typed, memoria
  <1>10. ASSUME Falhar(r) PROVE Typed'
    <2>1. PICK recusa \in {"", "RECUSADA"} :
             /\ Enfileira(r, Falhou(r, ped[r].cfg, recusa), ped[r])
             /\ conectado' = IF recusa = "" THEN conectado ELSE FALSE
      BY <1>10 DEF Falhar
    <2> DEFINE t == Falhou(r, ped[r].cfg, recusa)
    <2>2. t \in Entrada /\ t.dono = r /\ t.segue \in Segues /\ t.senao \in Segues /\ t.segue # "abre"
      BY <1>1 DEF Falhou, Transicao, Entrada, Status, Segues, Pedido
    <2>3. Enfileira(r, t, ped[r])
      BY <2>1
    <2> HIDE DEF t
    <2>4. PedidosOK(ped') /\ FilaOK(fila', ped')
      BY <1>1, <1>2, <2>2, <2>3, EnfileiraLemma
    <2>5. conectado' \in BOOLEAN
      BY <2>1 DEF Typed
    <2> QED
      BY <1>10, <2>4, <2>5 DEF Falhar, Typed
  <1>11. ASSUME Firmar(r) PROVE Typed'
    <2>1. PedidosOK(ped') /\ FilaOK(fila', ped')
      BY <1>4, <1>11 DEF Firmar
    <2>2. aplicada' \in Configs \cup {Nenhum}
      BY <1>1, <1>11 DEF Firmar, Pedido
    <2> QED
      BY <1>11, <2>1, <2>2 DEF Firmar, Typed
  <1>12. ASSUME NEW enc \in Nat, enc < resta.id, LimpaCliente(enc), resta' = resta
         PROVE  /\ cliente' \in Cliente /\ cliente'.id < resta'.id
                /\ encerrando' \in Nat /\ encerrando' < resta'.id
                /\ conectado' \in BOOLEAN /\ conectando' \in BOOLEAN
                /\ aplicada' \in Configs \cup {Nenhum}
    <2>1. resta.id \in Nat \ {0} /\ cliente'.id = 0
      BY <1>12 DEF Typed, LimpaCliente, SemCliente
    <2>2. cliente' \in Cliente
      BY <1>12 DEF LimpaCliente, SemCliente, Cliente, Creds
    <2>3. encerrando' \in {0, enc}
      BY <1>12 DEF LimpaCliente
    <2>4. encerrando' \in Nat /\ encerrando' < resta'.id /\ cliente'.id < resta'.id
      BY <1>12, <2>1, <2>3
    <2>5. conectado' \in BOOLEAN /\ conectando' \in BOOLEAN /\ aplicada' \in Configs \cup {Nenhum}
      BY <1>12 DEF LimpaCliente
    <2> QED
      BY <2>2, <2>4, <2>5
  <1>13. encerrando \in Nat /\ encerrando < resta.id
    BY DEF Typed
  <1>14. ASSUME Fechar(r) PROVE Typed'
    <2>1. CASE cliente = SemCliente
      <3>1. PedidosOK(ped') /\ FilaOK(fila', ped')
        BY <1>4, <1>14, <2>1 DEF Fechar
      <3> QED
        BY <1>12, <1>13, <1>14, <2>1, <3>1 DEF Fechar, Typed
    <2>2. CASE cliente # SemCliente
      <3>1. PedidosOK(ped') /\ FilaOK(fila', ped')
        BY <1>3, <1>14, <2>2 DEF Fechar, DaConexao
      <3>2. encerrando' \in Nat /\ encerrando' < resta.id
        BY <1>1, <1>14, <2>2 DEF Fechar, Typed, Cliente
      <3> QED
        BY <1>14, <2>2, <3>1, <3>2 DEF Fechar, Typed
    <2> QED
      BY <2>1, <2>2
  <1>15. ASSUME Fechado(r) PROVE Typed'
    <2>1. PedidosOK(ped') /\ FilaOK(fila', ped')
      BY <1>4, <1>15 DEF Fechado
    <2> QED
      BY <1>12, <1>13, <1>15, <2>1 DEF Fechado, Typed
  <1> QED
    BY <1>5, <1>6, <1>7, <1>8, <1>9, <1>10, <1>11, <1>14, <1>15

\* The disconnection, and the ends of the operations.
LEMMA FimTyped ==
    ASSUME Typed, NEW r \in Todos,
           \/ Desligar(r) \/ Encerrado(r) \/ ConfirmarConfig(r) \/ Restaurada(r)
           \/ Publicar(r) \/ RestaurarBackup(r) \/ Recarregar(r)
    PROVE  Typed'
  <1>1. /\ ped[r] \in Pedido /\ Papel(ped[r]) /\ LinhaOK(bd) /\ bd \in Linha
        /\ cliente \in Cliente
    BY DEF Typed, PedidosOK, LinhaOK
  <1>2. ASSUME NEW resp \in Respostas, Responde(r, resp), ped[r].pc # "fila", fila' = fila
        PROVE  PedidosOK(ped') /\ FilaOK(fila', ped')
    BY <1>2, RespondeLemma
  <1>3. ASSUME ped[r].pc \in {"desliga", "encerra"}, Enfileira(r, Desconectado(r), ped[r])
        PROVE  PedidosOK(ped') /\ FilaOK(fila', ped')
    <2> DEFINE t == Desconectado(r)
    <2>1. ped[r].op \in Desligam /\ (ped[r].op = "CONFIG" => ped[r].anterior \in Configs)
      BY <1>1, <1>3 DEF Papel
    <2>2. /\ AposDesligar(r) \in {"libera", "recarrega", "conecta"}
          /\ AposDesligar(r) = "conecta" => ped[r].op \in Conectam
      BY <2>1 DEF AposDesligar, Desligam, Conectam
    <2>3. /\ t \in Entrada /\ t.dono = r /\ t.segue = AposDesligar(r) /\ t.senao = ""
          /\ t.cfg = Nenhum
      BY <2>2 DEF Desconectado, Transicao, Entrada, Status, Segues
    <2> HIDE DEF t
    <2>4. /\ t.segue \in Segues /\ t.segue # "abre" /\ t.senao \notin DaConexao
          /\ t.segue \in DaConexao => ped[r].op \in Conectam
      BY <2>2, <2>3 DEF Segues, DaConexao
    <2>5. Enfileira(r, t, ped[r])
      BY <1>3 DEF t
    <2> QED
      BY <1>1, <1>3, <2>1, <2>3, <2>4, <2>5, EnfileiraLemma
  <1>4. ASSUME Desligar(r) PROVE Typed'
    <2>1. ped[r].pc = "desliga" /\ ped[r].op \in Desligam
          /\ (ped[r].op = "CONFIG" => ped[r].anterior \in Configs)
      BY <1>1, <1>4 DEF Desligar, Em, Papel
    <2>2. CASE cliente = SemCliente
      BY <1>3, <1>4, <2>1, <2>2 DEF Desligar, Typed
    <2>3. CASE cliente # SemCliente
      <3> DEFINE p == [ped[r] EXCEPT !.pc = "encerra", !.cli = cliente.id]
      <3>1. ped' = [ped EXCEPT ![r] = p] /\ fila' = fila /\ cliente.id \in Nat
        BY <1>1, <1>4, <2>3 DEF Desligar, Cliente
      <3>2. p \in Pedido /\ p.op = ped[r].op /\ p.pc = "encerra" /\ p.anterior = ped[r].anterior
        BY <1>1, <3>1 DEF Pedido, Pcs
      <3> HIDE DEF p
      <3>3. Papel(p)
        BY <2>1, <3>2 DEF Papel, DaConexao
      <3>4. PedidosOK(ped') /\ FilaOK(fila', ped')
        BY <2>1, <3>1, <3>2, <3>3, Anda
      <3> QED
        BY <1>4, <2>3, <3>1, <3>4 DEF Desligar, Typed
    <2> QED
      BY <2>2, <2>3
  <1>5. ASSUME Encerrado(r) PROVE Typed'
    <2>1. PedidosOK(ped') /\ FilaOK(fila', ped')
      BY <1>3, <1>5 DEF Encerrado, Em
    <2>2. /\ resta.id \in Nat \ {0} /\ cliente'.id = 0 /\ cliente' \in Cliente
          /\ encerrando' \in {0, encerrando}
      BY <1>5 DEF Encerrado, Typed, LimpaCliente, SemCliente, Cliente, Creds
    <2>3. /\ encerrando' \in Nat /\ encerrando' < resta.id /\ cliente'.id < resta.id
          /\ encerrando \in Nat /\ encerrando < resta.id
      BY <2>2 DEF Typed
    <2>4. conectado' \in BOOLEAN /\ conectando' \in BOOLEAN /\ aplicada' \in Configs \cup {Nenhum}
      BY <1>5 DEF Encerrado, LimpaCliente
    <2> QED
      BY <1>5, <2>1, <2>2, <2>3, <2>4 DEF Encerrado, Typed
  <1>6. ASSUME ConfirmarConfig(r) PROVE Typed'
    <2>1. ped[r].pc = "confirma" /\ ped[r].op = "CONFIG" /\ ped[r].anterior \in Configs
      BY <1>1, <1>6 DEF ConfirmarConfig, Em, Papel
    <2>2. PedidosOK(ped') /\ FilaOK(fila', ped')
      <3>1. CASE Responde(r, "APLICADA")
        BY <1>2, <1>6, <2>1, <3>1 DEF ConfirmarConfig, Respostas
      <3>2. CASE Segue(r, "desfaz")
        <4>1. Papel([ped[r] EXCEPT !.pc = "desfaz"]) /\ "desfaz" \in Pcs
          BY <1>1, <2>1 DEF Papel, Pedido, DaConexao, Pcs
        <4> QED
          BY <1>6, <2>1, <3>2, <4>1, SegueLemma DEF ConfirmarConfig
      <3> QED
        BY <1>6, <3>1, <3>2 DEF ConfirmarConfig
    <2>3. saude' \in Configs
      BY <1>1, <1>6 DEF ConfirmarConfig, Typed, Linha
    <2> QED
      BY <1>6, <2>2, <2>3 DEF ConfirmarConfig, Typed, memoria
  <1>7. ASSUME Restaurada(r) PROVE Typed'
    <2>1. PedidosOK(ped') /\ FilaOK(fila', ped')
      BY <1>2, <1>7 DEF Restaurada, Em, Relato, Respostas
    <2> QED
      BY <1>1, <1>7, <2>1 DEF Restaurada, Typed, memoria, Linha
  <1>8. ASSUME Publicar(r) PROVE Typed'
    <2>1. PedidosOK(ped') /\ FilaOK(fila', ped')
      BY <1>2, <1>8 DEF Publicar, Em, Respostas
    <2> QED
      BY <1>8, <2>1 DEF Publicar, Typed, memoria
  <1>9. ASSUME RestaurarBackup(r) PROVE Typed'
    <2>1. ped[r].pc = "restaura" /\ ped[r].op = "RESTAURAR"
      BY <1>1, <1>9 DEF RestaurarBackup, Em, Papel
    <2>2. PedidosOK(ped') /\ FilaOK(fila', ped')
      <3>1. CASE Segue(r, "desliga")
        <4>1. Papel([ped[r] EXCEPT !.pc = "desliga"]) /\ "desliga" \in Pcs
          BY <1>1, <2>1 DEF Papel, Pedido, DaConexao, Desligam, Pcs
        <4> QED
          BY <1>9, <2>1, <3>1, <4>1, SegueLemma DEF RestaurarBackup
      <3>2. CASE Responde(r, "OCUPADA")
        BY <1>2, <1>9, <2>1, <3>2 DEF RestaurarBackup, Respostas
      <3> QED
        BY <1>9, <3>1, <3>2 DEF RestaurarBackup
    <2>3. LinhaOK(bd')
      BY <1>1, <1>9 DEF RestaurarBackup, Gravada, LinhaOK, Linha, Configs, Status
    <2> QED
      BY <1>9, <2>2, <2>3 DEF RestaurarBackup, Typed, memoria
  <1>10. ASSUME Recarregar(r) PROVE Typed'
    <2>1. PedidosOK(ped') /\ FilaOK(fila', ped')
      BY <1>10, TerminaLemma DEF Recarregar, Em
    <2> QED
      BY <1>1, <1>10, <2>1 DEF Recarregar, Typed, memoria, Linha
  <1> QED
    BY <1>4, <1>5, <1>6, <1>7, <1>8, <1>9, <1>10

\* The queue, the link, the expiry of a lease, the processes, and the death
\* of the API.
LEMMA AmbienteTyped ==
    ASSUME Typed,
           \/ Executar \/ Cair \/ Voltar \/ Vencer \/ Partida \/ FimDoProcesso
           \/ Reiniciar \/ Encerrou
    PROVE  Typed'
  <1>1. /\ LinhaOK(bd) /\ bd \in Linha /\ cliente \in Cliente
        /\ PedidosOK(ped) /\ FilaOK(fila, ped)
        /\ resta \in [eventos : Nat, id : Nat \ {0}]
    BY DEF Typed, LinhaOK
  <1>2. ASSUME Gasta, resta.eventos > 0
        PROVE  resta' \in [eventos : Nat, id : Nat \ {0}] /\ resta'.id = resta.id
    BY <1>1, <1>2 DEF Gasta
  <1>3. ASSUME NEW status \in Status, NEW cred \in {"", "RECUSADA", "VERIFICADA"}
        PROVE  /\ DeEvento(status, cred) \in Entrada /\ DeEvento(status, cred).dono = Nenhum
               /\ Espera(DeEvento(status, cred), ped)
    BY <1>1 DEF DeEvento, Transicao, Entrada, Cliente, Espera
  <1>4. ASSUME NEW q, FilaOK(q, ped), NEW status \in Status,
               NEW cred \in {"", "RECUSADA", "VERIFICADA"}
        PROVE  FilaOK(Append(q, DeEvento(status, cred)), ped)
    <2> DEFINE t == DeEvento(status, cred)
    <2>1. t \in Entrada /\ t.dono = Nenhum /\ Espera(t, ped)
      BY <1>3
    <2> HIDE DEF t
    <2>2. \A k \in 1..Len(q) : Espera(q[k], ped)
      BY <1>4 DEF FilaOK
    <2>3. FilaOK(Append(q, t), ped)
      BY <1>4, <2>1, <2>2, FilaAppend
    <2> QED
      BY <2>3 DEF t
  <1>5. ASSUME Executar PROVE Typed'
    <2> DEFINE t == Head(fila)
               pula == t.cli # 0 /\ ~Atual(t.cli)
               pc == IF pula \/ Confere(t) THEN t.segue ELSE t.senao
    <2>1. /\ fila # <<>> /\ fila' = Tail(fila)
          /\ bd' = IF pula THEN bd ELSE Escrita(t)
          /\ ped' = IF t.dono = Nenhum THEN ped ELSE [ped EXCEPT ![t.dono].pc = pc]
          /\ pronta' \in BOOLEAN
      BY <1>5 DEF Executar, Typed
    <2>2. t \in Entrada /\ Espera(t, ped) /\ FilaOK(Tail(fila), ped)
      BY <1>1, <2>1, FilaTail
    <2>3. t.dono # Nenhum => \A k \in 1..Len(Tail(fila)) : Tail(fila)[k].dono # t.dono
      BY <1>1, <2>1, FilaTail
    <2>4. t.dono # Nenhum => t.dono \in Todos
      BY <2>2 DEF Entrada
    <2>5. LinhaOK(bd')
      BY <1>1, <2>1, <2>2 DEF Escrita, Confere, LinhaOK, Linha, Entrada
    <2>6. CASE t.dono = Nenhum
      <3>1. PedidosOK(ped') /\ FilaOK(fila', ped')
        BY <1>1, <2>1, <2>2, <2>6
      <3> QED
        BY <1>5, <2>1, <2>5, <3>1 DEF Executar, Typed, memoria
    <2>7. CASE t.dono # Nenhum
      <3> DEFINE r == t.dono
                 p == [ped[r] EXCEPT !.pc = pc]
      <3>1. /\ r \in Todos /\ ped[r] \in Pedido /\ Papel(ped[r]) /\ ped[r].pc = "fila"
            /\ ped[r].op = "CONFIG" => ped[r].anterior \in Configs
        BY <1>1, <2>2, <2>4, <2>7 DEF PedidosOK, Espera, Papel
      <3>2. pc \in Segues /\ (pc \in DaConexao => ped[r].op \in Conectam)
            /\ pc \in {"libera", "recarrega"} \cup DaConexao
        BY <2>2, <2>7 DEF Espera, Confere, Segues, DaConexao
      <3>3. ped' = [ped EXCEPT ![r] = p]
        BY <2>1, <2>7
      <3>4. \A k \in 1..Len(Tail(fila)) : Tail(fila)[k].dono # r
        BY <2>3, <2>7
      <3> HIDE DEF pc, t, r
      <3>5. p \in Pedido /\ p.op = ped[r].op /\ p.pc = pc /\ p.anterior = ped[r].anterior
        BY <3>1, <3>2 DEF Pedido, Pcs, Segues
      <3> HIDE DEF p
      <3>6. Papel(p)
        BY <3>1, <3>2, <3>5 DEF Papel, DaConexao
      <3>8. PedidosOK([ped EXCEPT ![r] = p]) /\ FilaOK(Tail(fila), [ped EXCEPT ![r] = p])
        <4>1. FilaOK(Tail(fila), ped) /\ PedidosOK(ped) /\ p.op = ped[r].op
          BY <1>1, <2>2, <3>5
        <4> QED
          BY <3>1, <3>4, <3>5, <3>6, <4>1, Passa
      <3>7. PedidosOK(ped') /\ FilaOK(fila', ped')
        BY <2>1, <3>3, <3>8
      <3> QED
        BY <1>5, <2>1, <2>5, <3>7 DEF Executar, Typed, memoria
    <2> QED
      BY <2>6, <2>7
  <1>6. ASSUME Cair PROVE Typed'
    <2>1. fila' = Append(fila, DeEvento("DESCONECTADO", "")) /\ ped' = ped
      BY <1>6 DEF Cair
    <2>2. PedidosOK(ped') /\ FilaOK(fila', ped')
      BY <1>1, <1>4, <2>1 DEF Status
    <2>3. cliente' \in Cliente /\ cliente'.id = cliente.id
      BY <1>1, <1>6 DEF Cair, Cliente
    <2> QED
      BY <1>2, <1>6, <2>2, <2>3 DEF Cair, Typed
  <1>7. ASSUME Voltar PROVE Typed'
    <2>1. /\ ped' = ped
          /\ \/ fila' = <<DeEvento("RECONECTANDO", ""), DeEvento("CONECTADO", "VERIFICADA")>>
             \/ fila' = <<DeEvento("RECONECTANDO", ""), DeEvento("FALHA", "RECUSADA")>>
      BY <1>7 DEF Voltar
    <2>2. PICK a, b : /\ fila' = <<a, b>> /\ a \in Entrada /\ b \in Entrada
                      /\ a.dono = Nenhum /\ b.dono = Nenhum
      BY <1>3, <2>1 DEF Status
    <2>3. /\ fila' \in Seq(Entrada) /\ Len(fila') = 2
          /\ \A k \in 1..Len(fila') : fila'[k].dono = Nenhum
      BY <2>2
    <2>4. PedidosOK(ped') /\ FilaOK(fila', ped')
      BY <1>1, <2>1, <2>3 DEF FilaOK, Espera, Distintas
    <2>5. cliente' \in Cliente /\ cliente'.id = cliente.id
      BY <1>1, <1>7 DEF Voltar, Cliente
    <2>6. resta' \in [eventos : Nat, id : Nat \ {0}] /\ resta'.id = resta.id
      BY <1>1, <1>2, <1>7 DEF Voltar
    <2> QED
      BY <1>7, <2>4, <2>5, <2>6 DEF Voltar, Typed
  <1>8. ASSUME Vencer PROVE Typed'
    <2> DEFINE r == bd.token
               p == [ped[r] EXCEPT !.perdeu = TRUE]
    <2>1. r \in Pedidos /\ r \in Todos /\ ped' = [ped EXCEPT ![r] = p] /\ fila' = fila
      BY <1>1, <1>8, Constants DEF Vencer, LeaseVigente, Linha
    <2>2. /\ ped[r] \in Pedido /\ Papel(ped[r]) /\ ped[r].op \in Operacoes \cup {Nenhum}
      BY <1>1, <2>1 DEF PedidosOK
    <2>3. /\ p \in Pedido /\ p.op = ped[r].op /\ p.pc = ped[r].pc /\ p.cred = ped[r].cred
          /\ p.anterior = ped[r].anterior
      BY <2>2 DEF Pedido
    <2>4. \A s \in Todos : /\ ped'[s] \in Pedido /\ ped'[s].op = ped[s].op
                            /\ ped'[s].pc = ped[s].pc /\ ped'[s].cred = ped[s].cred
                            /\ ped'[s].anterior = ped[s].anterior
      BY <1>1, <2>1, <2>3 DEF PedidosOK
    <2>5. ped' \in [Todos -> Pedido]
      BY <1>1, <2>1, <2>3 DEF PedidosOK
    <2> HIDE DEF p, r
    <2>6. PedidosOK(ped')
      BY <1>1, <2>4, <2>5, Constants DEF PedidosOK, Papel
    <2>7. \A k \in 1..Len(fila) : fila[k] \in Entrada
      BY <1>1, ElementOfSeq DEF FilaOK
    <2>10. \A k \in 1..Len(fila) : fila[k].dono \in Todos \cup {Nenhum}
      BY <2>7 DEF Entrada
    <2>11. \A k \in 1..Len(fila) : Espera(fila[k], ped')
      BY <1>1, <2>4, <2>10 DEF FilaOK, Espera
    <2>8. FilaOK(fila', ped')
      BY <1>1, <2>1, <2>11 DEF FilaOK
    <2>9. LinhaOK(bd')
      BY <1>1, <1>8 DEF Vencer, LinhaOK, Linha
    <2> QED
      BY <1>2, <1>8, <2>6, <2>8, <2>9 DEF Vencer, Typed, memoria
  <1>9. ASSUME Partida PROVE Typed'
    BY <1>2, <1>9 DEF Partida, Typed, memoria
  <1>10. ASSUME FimDoProcesso PROVE Typed'
    BY <1>10 DEF FimDoProcesso, Typed, memoria
  <1>11. ASSUME Reiniciar PROVE Typed'
    <2>1. Conectando \in Pedido /\ Papel(Conectando) /\ Conectando.op = "INICIAR"
      BY DEF Conectando, Parado, Pedido, Pcs, Creds, Respostas, Papel, Conectam, DaConexao
    <2>2. ASSUME NEW r \in Pedidos
          PROVE  LET p == [Parado EXCEPT !.op = ped[r].op, !.pc = "fim", !.perdeu = TRUE]
                 IN p \in Pedido /\ Papel(p) /\ p.op = ped[r].op
      <3>1. ped[r].op \in Operacoes \cup {Nenhum}
        BY <1>1 DEF PedidosOK
      <3> QED
        BY <3>1 DEF Parado, Pedido, Pcs, Creds, Respostas, Papel, DaConexao
    <2>3. PedidosOK(ped')
      <3>1. ASSUME NEW r \in Pedidos
            PROVE  ped'[r] \in Pedido /\ Papel(ped'[r]) /\ ped'[r].op = ped[r].op
        <4>1. ped[r] \in Pedido /\ Papel(ped[r])
          BY <1>1, Constants DEF PedidosOK
        <4> QED
          BY <1>11, <2>2, <4>1, Constants DEF Reiniciar
      <3>2. ped'[Inicio] = Conectando /\ ped' = [r \in Todos |-> ped'[r]]
        BY <1>11, Constants DEF Reiniciar
      <3> QED
        BY <1>1, <2>1, <3>1, <3>2, Constants DEF PedidosOK
    <2>4. FilaOK(fila', ped')
      <3>1. fila' \in Seq(Entrada) /\ Len(fila') = 0
        BY <1>11, EmptySeq DEF Reiniciar
      <3> QED
        BY <3>1 DEF FilaOK, Distintas
    <2>5. cliente' \in Cliente /\ cliente'.id = 0
      BY <1>11 DEF Reiniciar, SemCliente, Cliente, Creds
    <2>6. LinhaOK(bd') /\ saude' \in Configs
      BY <1>1, <1>11 DEF Reiniciar, LinhaOK, Linha
    <2>7. /\ Gasta /\ resta.eventos > 0 /\ encerrando' = 0
          /\ conectando' = FALSE /\ conectado' = FALSE /\ pronta' = FALSE
          /\ aplicada' = Nenhum /\ atualizando' = Nenhum
          /\ arquivo' = arquivo /\ processo' = processo /\ cenario' = cenario
      BY <1>11 DEF Reiniciar
    <2>8. /\ resta' \in [eventos : Nat, id : Nat \ {0}] /\ encerrando' \in Nat
          /\ encerrando' < resta'.id /\ cliente'.id < resta'.id
      BY <1>1, <1>2, <2>5, <2>7
    <2>9. /\ conectando' \in BOOLEAN /\ conectado' \in BOOLEAN /\ pronta' \in BOOLEAN
          /\ aplicada' \in Configs \cup {Nenhum} /\ atualizando' \in Pedidos \cup {Nenhum}
          /\ arquivo' \in Creds /\ processo' \in BOOLEAN /\ cenario' \subseteq Operacoes
      BY <2>7 DEF Typed
    <2> QED
      BY <2>3, <2>4, <2>5, <2>6, <2>8, <2>9 DEF Typed
  <1>12. ASSUME Encerrou PROVE Typed'
    BY <1>12 DEF Encerrou, vars, memoria, Typed
  <1> QED
    BY <1>5, <1>6, <1>7, <1>8, <1>9, <1>10, <1>11, <1>12

\* Every step keeps the types.
LEMMA TypedStep == Typed /\ [Next]_vars => Typed'
  <1> SUFFICES ASSUME Typed, [Next]_vars PROVE Typed'
    OBVIOUS
  <1>1. CASE \E r \in Pedidos, op \in Operacoes : Pedir(r, op)
    BY <1>1, PedirTyped
  <1>2. CASE \E r \in Todos : Passo(r)
    BY <1>2, AtualizacaoTyped, ConexaoTyped, FimTyped DEF Passo
  <1>3. CASE Executar \/ Cair \/ Voltar \/ Vencer \/ Partida \/ FimDoProcesso
             \/ Reiniciar \/ Encerrou
    BY <1>3, AmbienteTyped
  <1>4. CASE UNCHANGED vars
    BY <1>4 DEF vars, Typed
  <1> QED
    BY <1>1, <1>2, <1>3, <1>4 DEF Next

\* Every variable keeps its type.  The inductive form says besides which
\* operation can be at which step, that a request waits for one transition
\* at most, and that the transition knows where the request goes on: without
\* it the queue would send a request to a step its operation does not have.
THEOREM Typing == Spec => []TypeOK
  <1>1. Typed => TypeOK
    BY DEF Typed, TypeOK, LinhaOK, Linha, Cliente, Creds, PedidosOK, Pedido
  <1> QED
    BY <1>1, InitTyped, TypedStep, PTL DEF Spec

-----------------------------------------------------------------------------
(* The invariants *)

\* What a request holds of credentials: those it proved were accepted, and a
\* client is opened with credentials.  While the broker has not accepted those
\* of the file, a request has no others, but the ones it has just proved.
CredOK(p, arq, ac) ==
    /\ p.pc \in {"renova", "arquivo"} => p.cred \in ac /\ (p.op = "CONFIG" => arq \in ac)
    /\ p.pc = "abre" => p.cred # Nenhum
    /\ arq \notin ac => p.cred \in {Nenhum, arq} \/ p.pc \in {"renova", "arquivo", "libera", "fim"}
Credenciais == \A r \in Todos : CredOK(ped[r], arquivo, aceitas)

\* An established client has accepted credentials; while those of the file are
\* not accepted, nothing says or will say that they are verified.
Verificadas ==
    /\ cliente.id # 0 => cliente.cred # Nenhum
    /\ cliente.vivo => cliente.cred # Nenhum /\ cliente.cred \in aceitas
    /\ arquivo \notin aceitas =>
          /\ cliente.cred \in {Nenhum, arquivo}
          /\ \A k \in 1..Len(fila) : fila[k].cred # "VERIFICADA"
          /\ ~bd.verif /\ ~pronta

\* A request within an operation that claimed the lease and has not seen it
\* expire holds it, in force, and no process is in operation.
Detem(p) ==
    /\ Arrendada(p.op) /\ p.pc \notin {"fora", "reserva", "fim"}
    /\ ~(p.pc = "libera" /\ p.resp = "OCUPADA")
Arrendamento ==
    \A r \in Pedidos : Detem(ped[r]) /\ ~ped[r].perdeu
        => bd.token = r /\ bd.vigente /\ ~processo

\* One update at a time; a request not yet made has no operation.
Exclusivo ==
    /\ \A r \in Pedidos : Atualiza(ped[r].op) /\ ped[r].pc \notin {"fora", "fim"} => atualizando = r
    /\ \A r \in Pedidos : ped[r].pc = "fora" => ped[r].op = Nenhum

\* Without a restoration the row holds what an update found there, until it
\* writes the candidate, and again once it has written it back.
Volta(p) ==
    /\ p.volta => p.pc \notin {"fora", "reserva", "prova", "renova", "grava", "fim"}
    /\ p.pc = "restaurada" => p.volta
Conserva ==
    /\ \A r \in Todos : Volta(ped[r])
    /\ (\A q \in Pedidos : ped[q].op # "RESTAURAR") =>
         \A r \in Pedidos :
            ped[r].op = "CONFIG" /\ (ped[r].pc \in {"renova", "grava"} \/ ped[r].volta)
              => bd.cfg = ped[r].anterior

Firme == Typed /\ Credenciais /\ Verificadas /\ Arrendamento /\ Exclusivo /\ Conserva

-----------------------------------------------------------------------------
(* A request that goes on *)

\* The others stay; r goes to pc, and only that changes.
Vai(r, pc) ==
    /\ \A s \in Todos \ {r} : ped'[s] = ped[s]
    /\ ped'[r].pc = pc /\ ped'[r].op = ped[r].op /\ ped'[r].cred = ped[r].cred
    /\ ped'[r].anterior = ped[r].anterior /\ ped'[r].volta = ped[r].volta
    /\ ped'[r].perdeu = ped[r].perdeu

\* What the steps that neither take a lease nor write a configuration do to a
\* request: it keeps its operation, and what it read, or it ends.
Prossegue(p, q) ==
    /\ q.op = p.op /\ q.perdeu = p.perdeu
    /\ p.pc \notin {"fora", "reserva", "prova", "renova", "arquivo", "grava", "libera", "fim"}
    /\ q.pc \notin {"fora", "reserva", "prova", "renova", "arquivo", "grava"}
    /\ q.cred \in {p.cred, arquivo, Nenhum}
    /\ q.pc = "abre" => q.cred # Nenhum
    /\ q.pc = "restaurada" => q.volta
    /\ \/ q.pc = "fim" /\ ~q.volta
       \/ q.pc # "fim" /\ q.anterior = p.anterior /\ q.volta = p.volta
    /\ \/ q.resp \in {p.resp, "PUBLICADA", "ERRO", "OCUPADA", "INCOMPLETA"}
       \/ q.resp = "APLICADA" /\ p.pc = "confirma"
       \/ q.resp = "DESFEITA" /\ p.pc = "restaurada" /\ q.pc # "fim"
Avanca(r) ==
    /\ \A s \in Todos \ {r} : ped'[s] = ped[s]
    /\ Prossegue(ped[r], ped'[r])
\* The steps of which a request may take several.
Meio == DaConexao \cup {"marca", "fila", "desliga", "encerra", "confirma", "desfaz",
                       "restaurada", "publica", "restaura", "recarrega"}

\* Segue, field by field.
LEMMA SegueForma ==
    ASSUME Typed, NEW r \in Todos, NEW pc, Segue(r, pc)
    PROVE  Vai(r, pc) /\ ped'[r].resp = ped[r].resp
  <1>1. ped \in [Todos -> Pedido] /\ ped[r] \in Pedido
    BY DEF Typed, PedidosOK
  <1> DEFINE p == [ped[r] EXCEPT !.pc = pc]
  <1>2. ped' = [ped EXCEPT ![r] = p]
    BY DEF Segue
  <1>3. /\ p.pc = pc /\ p.op = ped[r].op /\ p.cred = ped[r].cred /\ p.anterior = ped[r].anterior
        /\ p.volta = ped[r].volta /\ p.perdeu = ped[r].perdeu /\ p.resp = ped[r].resp
    BY <1>1 DEF Pedido
  <1> HIDE DEF p
  <1> QED
    BY <1>1, <1>2, <1>3 DEF Vai

\* Responde, field by field.
LEMMA RespondeForma ==
    ASSUME Typed, NEW r \in Todos, NEW resp, Responde(r, resp)
    PROVE  Vai(r, "libera") /\ ped'[r].resp = resp
  <1>1. ped \in [Todos -> Pedido] /\ ped[r] \in Pedido
    BY DEF Typed, PedidosOK
  <1> DEFINE p == [ped[r] EXCEPT !.pc = "libera", !.resp = resp]
  <1>2. ped' = [ped EXCEPT ![r] = p]
    BY DEF Responde
  <1>3. /\ p.pc = "libera" /\ p.op = ped[r].op /\ p.cred = ped[r].cred /\ p.anterior = ped[r].anterior
        /\ p.volta = ped[r].volta /\ p.perdeu = ped[r].perdeu /\ p.resp = resp
    BY <1>1 DEF Pedido
  <1> HIDE DEF p
  <1> QED
    BY <1>1, <1>2, <1>3 DEF Vai

\* Termina, field by field: the request forgets what it read.
LEMMA TerminaForma ==
    ASSUME Typed, NEW r \in Todos, Termina(r)
    PROVE  /\ \A s \in Todos \ {r} : ped'[s] = ped[s]
           /\ ped'[r].pc = "fim" /\ ped'[r].op = ped[r].op /\ ped'[r].cred = Nenhum
           /\ ped'[r].volta = FALSE /\ ped'[r].perdeu = ped[r].perdeu
           /\ ped'[r].resp = ped[r].resp
  <1>1. ped \in [Todos -> Pedido] /\ ped[r] \in Pedido
    BY DEF Typed, PedidosOK
  <1> DEFINE p == [Parado EXCEPT !.op = ped[r].op, !.pc = "fim",
                                 !.resp = ped[r].resp, !.perdeu = ped[r].perdeu]
  <1>2. ped' = [ped EXCEPT ![r] = p]
    BY DEF Termina
  <1>3. /\ p.pc = "fim" /\ p.op = ped[r].op /\ p.cred = Nenhum
        /\ p.volta = FALSE /\ p.perdeu = ped[r].perdeu /\ p.resp = ped[r].resp
    BY DEF Parado
  <1> HIDE DEF p
  <1> QED
    BY <1>1, <1>2, <1>3

\* Enfileira, field by field.
LEMMA EnfileiraForma ==
    ASSUME Typed, NEW r \in Todos, NEW t, NEW campos \in Pedido, Enfileira(r, t, campos)
    PROVE  /\ \A s \in Todos \ {r} : ped'[s] = ped[s]
           /\ ped'[r].pc = "fila" /\ ped'[r].op = campos.op /\ ped'[r].cred = campos.cred
           /\ ped'[r].anterior = campos.anterior /\ ped'[r].volta = campos.volta
           /\ ped'[r].perdeu = campos.perdeu /\ ped'[r].resp = campos.resp
  <1>1. ped \in [Todos -> Pedido]
    BY DEF Typed, PedidosOK
  <1> DEFINE p == [campos EXCEPT !.pc = "fila"]
  <1>2. ped' = [ped EXCEPT ![r] = p]
    BY DEF Enfileira
  <1>3. /\ p.pc = "fila" /\ p.op = campos.op /\ p.cred = campos.cred /\ p.anterior = campos.anterior
        /\ p.volta = campos.volta /\ p.perdeu = campos.perdeu /\ p.resp = campos.resp
    BY DEF Pedido
  <1> HIDE DEF p
  <1> QED
    BY <1>1, <1>2, <1>3

\* A connect that returns, with the request that asked for it.
LEMMA RetornaAvanca ==
    ASSUME Typed, NEW r \in Todos, ped[r].pc \in DaConexao, NEW ok \in BOOLEAN, Retorna(r, ok)
    PROVE  Avanca(r)
  <1>1. ped \in [Todos -> Pedido] /\ ped[r] \in Pedido /\ ped[r].op \in Conectam
    BY DEF Typed, PedidosOK, Papel
  <1>2. CASE ped[r].op \in {"TESTAR", "INICIAR"}
    <2>1. Termina(r)
      BY <1>2 DEF Retorna
    <2> QED
      BY <2>1, TerminaForma DEF Avanca, Prossegue, DaConexao
  <1>3. CASE ped[r].op \notin {"TESTAR", "INICIAR"}
    <2> DEFINE pc == IF ~ok /\ ped[r].op = "COMANDAR" THEN "libera" ELSE AposConectar(r)
               p == [ped[r] EXCEPT !.sucesso = ok, !.pc = pc]
    <2>1. pc \in {"libera", "publica", "confirma"} \/ (pc = "restaurada" /\ ped[r].volta)
      BY <1>1, <1>3 DEF AposConectar, Conectam
    <2>2. ped' = [ped EXCEPT ![r] = p]
      BY <1>3 DEF Retorna
    <2> HIDE DEF pc
    <2>3. /\ p.pc = pc /\ p.op = ped[r].op /\ p.cred = ped[r].cred /\ p.anterior = ped[r].anterior
          /\ p.volta = ped[r].volta /\ p.perdeu = ped[r].perdeu /\ p.resp = ped[r].resp
      BY <1>1 DEF Pedido
    <2> HIDE DEF p
    <2> QED
      BY <1>1, <2>1, <2>2, <2>3 DEF Avanca, Prossegue, DaConexao
  <1> QED
    BY <1>2, <1>3

\* A request that goes on to a step of a connect or of a disconnect, or ends.
LEMMA VaiAvanca ==
    ASSUME NEW r \in Todos, NEW pc, Vai(r, pc), ped[r].pc \in Meio,
           pc \notin {"fora", "reserva", "prova", "renova", "arquivo", "grava", "abre",
                     "restaurada", "fim"},
           \/ ped'[r].resp \in {ped[r].resp, "PUBLICADA", "ERRO", "OCUPADA", "INCOMPLETA"}
           \/ ped'[r].resp = "APLICADA" /\ ped[r].pc = "confirma"
           \/ ped'[r].resp = "DESFEITA" /\ ped[r].pc = "restaurada"
    PROVE  Avanca(r)
  BY DEF Vai, Avanca, Prossegue, Meio, DaConexao

\* Neither the lease nor the file, the flag or the process changes.
Sereno ==
    /\ bd'.token = bd.token /\ bd'.vigente = bd.vigente /\ processo' = processo
    /\ atualizando' = atualizando /\ arquivo' = arquivo

\* The steps of the connection are of that kind.
LEMMA ConexaoAvanca ==
    ASSUME Typed, NEW r \in Todos,
           \/ Conectar(r) \/ Ler(r) \/ Abrir(r) \/ Aceito(r) \/ Assinar(r) \/ Falhar(r)
           \/ Firmar(r) \/ Fechar(r) \/ Fechado(r)
    PROVE  Avanca(r) /\ Sereno /\ bd'.cfg = bd.cfg
  <1>1. ped \in [Todos -> Pedido] /\ ped[r] \in Pedido /\ bd \in Linha
    BY DEF Typed, PedidosOK, LinhaOK
  <1>2. ped[r].pc \in DaConexao /\ ped[r].pc \in Meio
    BY DEF Conectar, Ler, Abrir, Aceito, Assinar, Falhar, Firmar, Fechar, Fechado, Em,
           DaConexao, Meio
  <1>3. ASSUME NEW pc \in DaConexao \ {"abre"}, Segue(r, pc) PROVE Avanca(r)
    <2>1. Vai(r, pc) /\ ped'[r].resp = ped[r].resp
      BY <1>3, SegueForma
    <2> QED
      BY <1>2, <1>3, <2>1, VaiAvanca DEF DaConexao
  <1>4. ASSUME NEW ok \in BOOLEAN, Retorna(r, ok) PROVE Avanca(r)
    BY <1>2, <1>4, RetornaAvanca
  <1>5. ASSUME NEW t, NEW campos \in Pedido, Enfileira(r, t, campos), campos.op = ped[r].op,
               campos.anterior = ped[r].anterior, campos.volta = ped[r].volta,
               campos.perdeu = ped[r].perdeu, campos.resp = ped[r].resp,
               campos.cred \in {ped[r].cred, arquivo}
        PROVE  Avanca(r)
    BY <1>2, <1>5, EnfileiraForma DEF Avanca, Prossegue, DaConexao
  <1>6. CASE Conectar(r)
    <2>1. \/ \E ok \in BOOLEAN : Retorna(r, ok)
          \/ Segue(r, "le")
      BY <1>6 DEF Conectar
    <2>2. Avanca(r)
      BY <1>3, <1>4, <2>1 DEF DaConexao
    <2> QED
      BY <1>6, <2>2 DEF Conectar, Sereno
  <1>7. CASE Ler(r)
    <2> DEFINE campos == [ped[r] EXCEPT !.cfg = bd.cfg, !.cred = arquivo]
    <2>1. /\ campos \in Pedido /\ campos.op = ped[r].op
          /\ campos.anterior = ped[r].anterior /\ campos.volta = ped[r].volta
          /\ campos.perdeu = ped[r].perdeu /\ campos.resp = ped[r].resp
          /\ campos.cred = arquivo
      BY <1>1 DEF Pedido, Linha, Typed
    <2>2. \E t : Enfileira(r, t, campos)
      BY <1>7 DEF Ler
    <2> HIDE DEF campos
    <2>3. Avanca(r)
      BY <1>5, <2>1, <2>2
    <2> QED
      BY <1>1, <1>7, <2>3 DEF Ler, Inspecionada, Sereno, Linha
  <1>8. CASE Abrir(r)
    <2> DEFINE p == [ped[r] EXCEPT !.pc = "espera", !.cli = resta.id]
    <2>1. ped' = [ped EXCEPT ![r] = p]
      BY <1>8 DEF Abrir
    <2>2. /\ p.pc = "espera" /\ p.op = ped[r].op /\ p.cred = ped[r].cred /\ p.anterior = ped[r].anterior
          /\ p.volta = ped[r].volta /\ p.perdeu = ped[r].perdeu /\ p.resp = ped[r].resp
      BY <1>1 DEF Pedido
    <2> HIDE DEF p
    <2>3. Avanca(r)
      BY <1>1, <1>2, <2>1, <2>2 DEF Avanca, Prossegue, DaConexao
    <2> QED
      BY <1>8, <2>3 DEF Abrir, Sereno
  <1>9. CASE Aceito(r)
    <2>1. Avanca(r)
      BY <1>3, <1>9 DEF Aceito, DaConexao
    <2> QED
      BY <1>9, <2>1 DEF Aceito, Sereno
  <1>10. CASE Assinar(r)
    <2>1. \E t : Enfileira(r, t, ped[r])
      BY <1>10 DEF Assinar
    <2>2. Avanca(r)
      BY <1>1, <1>5, <2>1
    <2> QED
      BY <1>10, <2>2 DEF Assinar, Sereno
  <1>11. CASE Falhar(r)
    <2>1. \E t : Enfileira(r, t, ped[r])
      BY <1>11 DEF Falhar
    <2>2. Avanca(r)
      BY <1>1, <1>5, <2>1
    <2> QED
      BY <1>11, <2>2 DEF Falhar, Sereno
  <1>12. CASE Firmar(r)
    BY <1>4, <1>12 DEF Firmar, Sereno
  <1>13. CASE Fechar(r)
    <2>1. Retorna(r, FALSE) \/ Segue(r, "fechando")
      BY <1>13 DEF Fechar
    <2>2. Avanca(r)
      BY <1>3, <1>4, <2>1 DEF DaConexao
    <2> QED
      BY <1>13, <2>2 DEF Fechar, Sereno
  <1>14. CASE Fechado(r)
    BY <1>4, <1>14 DEF Fechado, Sereno
  <1> QED
    BY <1>6, <1>7, <1>8, <1>9, <1>10, <1>11, <1>12, <1>13, <1>14

\* So are the disconnection and the ends of the operations; the restoration of
\* a backup alone writes another configuration.
LEMMA FimAvanca ==
    ASSUME Typed, NEW r \in Todos,
           \/ Desligar(r) \/ Encerrado(r) \/ ConfirmarConfig(r) \/ Restaurada(r)
           \/ Publicar(r) \/ RestaurarBackup(r) \/ Recarregar(r) \/ MarcarCredencial(r)
    PROVE  /\ Avanca(r) /\ Sereno
           /\ bd'.cfg = bd.cfg \/ (r \in Pedidos /\ ped[r].op = "RESTAURAR")
  <1>1. ped \in [Todos -> Pedido] /\ ped[r] \in Pedido /\ bd \in Linha /\ Papel(ped[r])
    BY DEF Typed, PedidosOK, LinhaOK
  <1>2. ped[r].pc \in Meio
    BY DEF Desligar, Encerrado, ConfirmarConfig, Restaurada, Publicar, RestaurarBackup,
           Recarregar, MarcarCredencial, Em, Meio
  <1>3. ASSUME NEW pc \in {"desliga", "desfaz"}, Segue(r, pc) PROVE Avanca(r)
    <2>1. Vai(r, pc) /\ ped'[r].resp = ped[r].resp
      BY <1>3, SegueForma
    <2> QED
      BY <1>2, <1>3, <2>1, VaiAvanca
  <1>4. ASSUME NEW resp \in {"APLICADA", "PUBLICADA", "ERRO", "OCUPADA", "DESFEITA"},
               Responde(r, resp), resp = "DESFEITA" => ped[r].pc = "restaurada",
               resp = "APLICADA" => ped[r].pc = "confirma"
        PROVE  Avanca(r)
    <2>1. Vai(r, "libera") /\ ped'[r].resp = resp
      BY <1>4, RespondeForma
    <2> QED
      BY <1>2, <1>4, <2>1, VaiAvanca
  <1>5. CASE Desligar(r)
    <2>1. CASE Enfileira(r, Desconectado(r), ped[r])
      <3>1. Avanca(r)
        BY <1>1, <1>5, <2>1, EnfileiraForma DEF Avanca, Prossegue, Desligar, Em
      <3> QED
        BY <1>5, <3>1 DEF Desligar, Sereno
    <2>2. CASE ped' = [ped EXCEPT ![r].pc = "encerra", ![r].cli = cliente.id]
      <3> DEFINE p == [ped[r] EXCEPT !.pc = "encerra", !.cli = cliente.id]
      <3>1. ped' = [ped EXCEPT ![r] = p]
        BY <2>2
      <3>2. /\ p.pc = "encerra" /\ p.op = ped[r].op /\ p.cred = ped[r].cred /\ p.anterior = ped[r].anterior
            /\ p.volta = ped[r].volta /\ p.perdeu = ped[r].perdeu /\ p.resp = ped[r].resp
        BY <1>1 DEF Pedido
      <3> HIDE DEF p
      <3>3. Avanca(r)
        BY <1>1, <1>5, <3>1, <3>2 DEF Avanca, Prossegue, Desligar, Em
      <3> QED
        BY <1>5, <3>3 DEF Desligar, Sereno
    <2> QED
      BY <1>5, <2>1, <2>2 DEF Desligar
  <1>6. CASE Encerrado(r)
    <2>1. Enfileira(r, Desconectado(r), ped[r]) /\ ped[r].pc = "encerra"
      BY <1>6 DEF Encerrado, Em
    <2>2. Avanca(r)
      BY <1>1, <2>1, EnfileiraForma DEF Avanca, Prossegue
    <2> QED
      BY <1>6, <2>2 DEF Encerrado, Sereno
  <1>7. CASE ConfirmarConfig(r)
    <2>1. (Responde(r, "APLICADA") \/ Segue(r, "desfaz")) /\ ped[r].pc = "confirma"
      BY <1>7 DEF ConfirmarConfig, Em
    <2>2. Avanca(r)
      BY <1>3, <1>4, <2>1
    <2> QED
      BY <1>7, <2>2 DEF ConfirmarConfig, Sereno
  <1>8. CASE Restaurada(r)
    <2>1. Responde(r, "DESFEITA") /\ ped[r].pc = "restaurada"
      BY <1>8 DEF Restaurada, Relato, Em
    <2>2. Avanca(r)
      BY <1>4, <2>1
    <2> QED
      BY <1>8, <2>2 DEF Restaurada, Sereno
  <1>9. CASE Publicar(r)
    <2>1. Responde(r, "PUBLICADA") \/ Responde(r, "ERRO")
      BY <1>9 DEF Publicar
    <2>2. Avanca(r)
      BY <1>4, <2>1
    <2> QED
      BY <1>9, <2>2 DEF Publicar, Sereno
  <1>10. CASE RestaurarBackup(r)
    <2>1. Responde(r, "OCUPADA") \/ Segue(r, "desliga")
      BY <1>10 DEF RestaurarBackup
    <2>2. Avanca(r)
      BY <1>3, <1>4, <2>1
    <2>3. ped[r].op = "RESTAURAR" /\ r \in Pedidos
      BY <1>1, <1>10, Constants DEF RestaurarBackup, Em, Papel, Typed, PedidosOK
    <2> QED
      BY <1>1, <1>10, <2>2, <2>3 DEF RestaurarBackup, Gravada, Sereno, Linha
  <1>11. CASE Recarregar(r)
    <2>1. Termina(r) /\ ped[r].pc = "recarrega"
      BY <1>11 DEF Recarregar, Em
    <2>2. Avanca(r)
      BY <2>1, TerminaForma DEF Avanca, Prossegue
    <2> QED
      BY <1>11, <2>2 DEF Recarregar, Sereno
  <1>12. CASE MarcarCredencial(r)
    <2>1. Avanca(r)
      BY <1>3, <1>12 DEF MarcarCredencial
    <2> QED
      BY <1>1, <1>12, <2>1 DEF MarcarCredencial, Sereno, Linha
  <1> QED
    BY <1>5, <1>6, <1>7, <1>8, <1>9, <1>10, <1>11, <1>12

\* What a step of that kind leaves true: the lease, the flag and the
\* configuration found are as they were for every request.
LEMMA AvancaFirme ==
    ASSUME Firme, Sereno, aceitas \subseteq aceitas',
           bd'.cfg = bd.cfg \/ \E q \in Pedidos : ped[q].op = "RESTAURAR",
           \A s \in Todos : ped'[s] = ped[s] \/ Prossegue(ped[s], ped'[s])
    PROVE  Credenciais' /\ Arrendamento' /\ Exclusivo' /\ Conserva'
  <1>1. \A s \in Todos : ped'[s].op = ped[s].op /\ ped'[s].perdeu = ped[s].perdeu
    BY DEF Prossegue
  <1>2. Credenciais'
    <2> SUFFICES ASSUME NEW s \in Todos PROVE CredOK(ped'[s], arquivo', aceitas')
      BY DEF Credenciais
    <2>1. CredOK(ped[s], arquivo, aceitas)
      BY DEF Firme, Credenciais
    <2>2. CASE ped'[s] = ped[s]
      BY <2>1, <2>2 DEF CredOK, Sereno
    <2>3. CASE Prossegue(ped[s], ped'[s])
      BY <2>1, <2>3 DEF CredOK, Sereno, Prossegue
    <2> QED
      BY <2>2, <2>3
  <1>3. Arrendamento'
    <2> SUFFICES ASSUME NEW s \in Pedidos, Detem(ped'[s]), ~ped'[s].perdeu
                 PROVE  bd'.token = s /\ bd'.vigente /\ ~processo'
      BY DEF Arrendamento
    <2>1. s \in Todos
      BY Constants
    <2>2. Detem(ped[s]) /\ ~ped[s].perdeu
      BY <2>1 DEF Prossegue, Detem
    <2> QED
      BY <2>2 DEF Firme, Arrendamento, Sereno
  <1>4. Exclusivo'
    <2> SUFFICES ASSUME NEW s \in Pedidos
                 PROVE  /\ Atualiza(ped'[s].op) /\ ped'[s].pc \notin {"fora", "fim"} => atualizando' = s
                        /\ ped'[s].pc = "fora" => ped'[s].op = Nenhum
      BY DEF Exclusivo
    <2>1. s \in Todos
      BY Constants
    <2> QED
      BY <2>1 DEF Firme, Exclusivo, Sereno, Prossegue
  <1>5. Conserva'
    <2>1. ASSUME NEW s \in Todos PROVE Volta(ped'[s])
      BY DEF Firme, Conserva, Volta, Prossegue
    <2>2. ASSUME \A q \in Pedidos : ped'[q].op # "RESTAURAR", NEW s \in Pedidos,
                 ped'[s].op = "CONFIG", ped'[s].pc \in {"renova", "grava"} \/ ped'[s].volta
          PROVE  bd'.cfg = ped'[s].anterior
      <3>1. s \in Todos /\ \A q \in Pedidos : ped[q].op # "RESTAURAR"
        BY <1>1, <2>2, Constants
      <3>2. ped'[s].anterior = ped[s].anterior /\ ped[s].op = "CONFIG"
            /\ (ped[s].pc \in {"renova", "grava"} \/ ped[s].volta)
        BY <2>2, <3>1 DEF Prossegue
      <3> QED
        BY <3>1, <3>2 DEF Firme, Conserva
    <2> QED
      BY <2>1, <2>2 DEF Conserva
  <1> QED
    BY <1>2, <1>3, <1>4, <1>5

Guarda == Credenciais /\ Arrendamento /\ Exclusivo /\ Conserva

\* One request changes: what the invariants ask of it, and of what it shares.
LEMMA UmSoFirme ==
    ASSUME Firme, NEW r \in Todos, \A s \in Todos \ {r} : ped'[s] = ped[s],
           ped'[r].op = ped[r].op, ped'[r].pc # "fora",
           \A s \in Todos \ {r} : CredOK(ped[s], arquivo', aceitas'),
           CredOK(ped'[r], arquivo', aceitas'),
           \A s \in Pedidos \ {r} : Detem(ped[s]) /\ ~ped[s].perdeu
              => bd'.token = s /\ bd'.vigente /\ ~processo',
           r \in Pedidos /\ Detem(ped'[r]) /\ ~ped'[r].perdeu
              => bd'.token = r /\ bd'.vigente /\ ~processo',
           atualizando' = atualizando
             \/ (atualizando = r /\ ped'[r].pc = "fim"),
           ped'[r].pc # "fim" => ped[r].pc \notin {"fora", "fim"},
           Volta(ped'[r]),
           r \in Pedidos /\ ped'[r].op = "CONFIG" /\ (ped'[r].pc \in {"renova", "grava"} \/ ped'[r].volta)
             => \/ bd'.cfg = ped'[r].anterior
                \/ /\ ped[r].pc \in {"renova", "grava"} \/ ped[r].volta
                   /\ ped'[r].anterior = ped[r].anterior /\ bd'.cfg = bd.cfg,
           bd'.cfg = bd.cfg \/ (r \in Pedidos /\ atualizando = r)
    PROVE  Guarda'
  <1>1. Pedidos \subseteq Todos
    BY Constants
  <1>2. Credenciais'
    BY DEF Credenciais
  <1>3. Arrendamento'
    BY <1>1 DEF Arrendamento
  <1>4. ASSUME NEW s \in Pedidos
        PROVE  /\ Atualiza(ped'[s].op) /\ ped'[s].pc \notin {"fora", "fim"} => atualizando' = s
               /\ ped'[s].pc = "fora" => ped'[s].op = Nenhum
    BY <1>1 DEF Firme, Exclusivo
  <1>5. Exclusivo'
    BY <1>4 DEF Exclusivo
  <1>6. Conserva'
    <2>1. ASSUME NEW s \in Todos PROVE Volta(ped'[s])
      BY DEF Firme, Conserva
    <2>2. ASSUME \A q \in Pedidos : ped'[q].op # "RESTAURAR", NEW s \in Pedidos,
                 ped'[s].op = "CONFIG", ped'[s].pc \in {"renova", "grava"} \/ ped'[s].volta
          PROVE  bd'.cfg = ped'[s].anterior
      <3>1. \A q \in Pedidos : ped[q].op # "RESTAURAR"
        BY <1>1, <2>2
      <3>2. CASE s = r
        BY <2>2, <3>1, <3>2 DEF Firme, Conserva
      <3>3. CASE s # r
        <4>1. ped'[s] = ped[s] /\ s \in Todos
          BY <1>1, <3>3
        <4>2. ped[s].pc \notin {"fora", "fim"}
          BY <2>2, <4>1 DEF Firme, Conserva, Volta
        <4>3. atualizando = s
          BY <2>2, <4>1, <4>2 DEF Firme, Exclusivo, Atualiza
        <4>4. bd'.cfg = bd.cfg
          BY <3>3, <4>3
        <4> QED
          BY <2>2, <3>1, <4>1, <4>4 DEF Firme, Conserva
      <3> QED
        BY <3>2, <3>3
    <2> QED
      BY <2>1, <2>2 DEF Conserva
  <1> QED
    BY <1>2, <1>3, <1>5, <1>6 DEF Guarda

\* The steps of an update, and the lease.
LEMMA AtualizacaoFirme ==
    ASSUME Firme, NEW r \in Todos,
           \/ Reservar(r) \/ Liberar(r) \/ Provar(r) \/ Renovar(r) \/ GravarConfig(r)
           \/ Desfazer(r) \/ GravarArquivo(r)
    PROVE  Guarda'
  <1>1. /\ Typed /\ ped \in [Todos -> Pedido] /\ ped[r] \in Pedido /\ Papel(ped[r])
        /\ bd \in Linha /\ Volta(ped[r]) /\ CredOK(ped[r], arquivo, aceitas)
    BY DEF Firme, Typed, PedidosOK, LinhaOK, Conserva, Credenciais
  <1>2. \A s \in Todos : CredOK(ped[s], arquivo, aceitas)
    BY DEF Firme, Credenciais
  <1>3. \A s \in Pedidos : Detem(ped[s]) /\ ~ped[s].perdeu
           => bd.token = s /\ bd.vigente /\ ~processo
    BY DEF Firme, Arrendamento
  <1>4. r \in Pedidos /\ Atualiza(ped[r].op) /\ ped[r].pc \notin {"fora", "fim"} => atualizando = r
    BY DEF Firme, Exclusivo
  <1>20. Pedidos \subseteq Todos /\ Nenhum \notin Todos
    BY Constants
  <1>21. Atualiza(ped[r].op) => r \in Pedidos
    BY <1>1, Constants DEF Typed, PedidosOK, Atualiza
  <1>5. CASE Reservar(r)
    <2>1. /\ ped[r].pc = "reserva" /\ ped[r].op \in Reservam /\ atualizando' = atualizando
          /\ arquivo' = arquivo /\ aceitas' = aceitas /\ processo' = processo
      BY <1>1, <1>5 DEF Reservar, Em, Papel
    <2>2. CASE Livre /\ Segue(r, PrimeiroPasso(ped[r].op))
      <3> DEFINE pc == PrimeiroPasso(ped[r].op)
      <3>1. pc \in {"prova", "desliga", "conecta", "publica"}
        BY <2>1 DEF PrimeiroPasso, Reservam, Atualiza
      <3>2. Vai(r, pc)
        BY <1>1, <2>2, SegueForma
      <3>3. bd' = [bd EXCEPT !.token = r, !.vigente = TRUE] \/ (bd' = bd /\ ~Livre)
        BY <1>5 DEF Reservar
      <3>4. /\ bd'.token = r /\ bd'.vigente /\ bd'.cfg = bd.cfg /\ ~processo'
        BY <1>1, <2>1, <2>2, <3>3 DEF Linha, Livre
      <3>5. \A s \in Pedidos : ~(Detem(ped[s]) /\ ~ped[s].perdeu)
        BY <1>3, <1>20, <2>2 DEF Livre, LeaseVigente
      <3> HIDE DEF pc
      <3>6. CredOK(ped'[r], arquivo', aceitas') /\ Volta(ped'[r])
        BY <1>1, <2>1, <3>1, <3>2 DEF CredOK, Volta, Vai
      <3> QED
        BY <1>1, <1>2, <2>1, <3>1, <3>2, <3>4, <3>5, <3>6, UmSoFirme DEF Vai, Volta
    <2>3. CASE bd' = bd /\ Responde(r, "OCUPADA")
      <3>1. Vai(r, "libera") /\ ped'[r].resp = "OCUPADA"
        BY <1>1, <2>3, RespondeForma
      <3>2. CredOK(ped'[r], arquivo', aceitas') /\ Volta(ped'[r]) /\ ~Detem(ped'[r])
        BY <1>1, <2>1, <3>1 DEF CredOK, Volta, Vai, Detem
      <3> QED
        BY <1>1, <1>2, <1>3, <2>1, <2>3, <3>1, <3>2, UmSoFirme DEF Vai, Volta
    <2> QED
      BY <1>5, <2>2, <2>3 DEF Reservar
  <1>6. CASE Liberar(r)
    <2>1. /\ ped[r].pc = "libera" /\ arquivo' = arquivo /\ aceitas' = aceitas /\ processo' = processo
          /\ Termina(r)
          /\ atualizando' = atualizando \/ (atualizando = r /\ atualizando' = Nenhum)
      BY <1>6 DEF Liberar, Em
    <2>2. bd'.cfg = bd.cfg /\ (bd.token # r => bd' = bd)
      BY <1>1, <1>6 DEF Liberar, SemLease, Linha
    <2>3. /\ \A s \in Todos \ {r} : ped'[s] = ped[s]
          /\ ped'[r].pc = "fim" /\ ped'[r].op = ped[r].op /\ ped'[r].cred = Nenhum
          /\ ped'[r].volta = FALSE
      BY <1>1, <2>1, TerminaForma
    <2>4. CredOK(ped'[r], arquivo', aceitas') /\ Volta(ped'[r]) /\ ~Detem(ped'[r])
      BY <2>3 DEF CredOK, Volta, Detem
    <2>5. \A s \in Pedidos \ {r} : Detem(ped[s]) /\ ~ped[s].perdeu
              => bd'.token = s /\ bd'.vigente /\ ~processo'
      BY <1>3, <2>1, <2>2
    <2> QED
      BY <1>2, <2>1, <2>2, <2>3, <2>4, <2>5, UmSoFirme
  <1>7. CASE Provar(r)
    <2> DEFINE cred == IF ped[r].op = "CONFIG" THEN arquivo ELSE CredNova
               lido == [ped[r] EXCEPT !.cred = cred,
                                      !.anterior = IF ped[r].op = "CONFIG" THEN bd.cfg ELSE Nenhum]
    <2>1. /\ ped[r].pc = "prova" /\ ped[r].op \in {"CONFIG", "CREDENCIAL"}
          /\ atualizando' = atualizando /\ arquivo' = arquivo /\ processo' = processo
          /\ \/ ped' = [ped EXCEPT ![r] = [lido EXCEPT !.pc = "renova"]] /\ aceitas' = aceitas \cup {cred}
             \/ ped' = [ped EXCEPT ![r] = Recusada(lido)] /\ aceitas' = aceitas
      BY <1>1, <1>7 DEF Provar, Em, Papel, Aceita
    <2>2. bd'.cfg = bd.cfg /\ bd'.token = bd.token /\ bd'.vigente = bd.vigente
      BY <1>1, <1>7 DEF Provar, Inspecionada, Linha
    <2>3. /\ lido.op = ped[r].op /\ lido.cred = cred /\ lido.volta = ped[r].volta
          /\ lido.perdeu = ped[r].perdeu /\ lido.pc = "prova"
          /\ lido.op = "CONFIG" => lido.anterior = bd.cfg /\ cred = arquivo
      BY <1>1, <2>1 DEF Pedido
    <2>7. DOMAIN lido = DOMAIN ped[r] /\ lido = [x \in DOMAIN ped[r] |-> lido[x]]
      OBVIOUS
    <2>8. DOMAIN ped[r] = {"op", "pc", "cfg", "cred", "cli", "anterior", "volta", "sucesso", "perdeu", "resp"}
      BY <1>1 DEF Pedido
    <2> HIDE DEF lido, cred
    <2>4. ASSUME NEW p, p \in {[lido EXCEPT !.pc = "renova"], Recusada(lido)}
          PROVE  /\ p.op = ped[r].op /\ p.cred = cred /\ p.volta = ped[r].volta
                 /\ p.perdeu = ped[r].perdeu /\ p.anterior = lido.anterior
                 /\ p = [lido EXCEPT !.pc = "renova"] => p.pc = "renova"
                 /\ p = Recusada(lido) => p.pc = "libera" /\ p.resp = "RECUSADA"
      BY <2>3, <2>4, <2>7, <2>8 DEF Recusada
    <2>5. PICK p : /\ ped' = [ped EXCEPT ![r] = p] /\ p.op = ped[r].op /\ p.cred = cred
                   /\ p.volta = ped[r].volta /\ p.perdeu = ped[r].perdeu /\ p.anterior = lido.anterior
                   /\ \/ p.pc = "renova" /\ aceitas' = aceitas \cup {cred}
                      \/ p.pc = "libera" /\ p.resp = "RECUSADA" /\ aceitas' = aceitas
      BY <2>1, <2>4
    <2>6. ped'[r] = p /\ \A s \in Todos \ {r} : ped'[s] = ped[s]
      BY <1>1, <2>5
    <2>9. CredOK(p, arquivo', aceitas') /\ Volta(p)
      BY <1>1, <2>1, <2>3, <2>5 DEF CredOK, Volta
    <2>10. \A s \in Todos : CredOK(ped[s], arquivo', aceitas')
      BY <1>2, <2>1 DEF CredOK
    <2>11. Detem(p) /\ ~p.perdeu => Detem(ped[r]) /\ ~ped[r].perdeu
      BY <2>1, <2>5 DEF Detem
    <2>12. ~p.volta
      BY <1>1, <2>1, <2>5 DEF Volta
    <2>13. /\ ped'[r].op = ped[r].op /\ ped'[r].pc \in {"renova", "libera"}
           /\ CredOK(ped'[r], arquivo', aceitas') /\ Volta(ped'[r])
      BY <2>5, <2>6, <2>9
    <2>14. r \in Pedidos /\ Detem(ped'[r]) /\ ~ped'[r].perdeu
              => bd'.token = r /\ bd'.vigente /\ ~processo'
      BY <1>3, <2>1, <2>2, <2>6, <2>11
    <2>15. \A s \in Pedidos \ {r} : Detem(ped[s]) /\ ~ped[s].perdeu
              => bd'.token = s /\ bd'.vigente /\ ~processo'
      BY <1>3, <2>1, <2>2
    <2>16. ped'[r].op = "CONFIG" => bd'.cfg = ped'[r].anterior
      BY <2>2, <2>3, <2>5, <2>6
    <2>17. ped[r].pc \notin {"fora", "fim"}
      BY <2>1
    <2> QED
      BY <2>1, <2>2, <2>6, <2>10, <2>13, <2>14, <2>15, <2>16, <2>17, UmSoFirme
  <1>8. ASSUME bd'.token = bd.token, bd'.vigente = bd.vigente, processo' = processo
        PROVE  /\ \A s \in Pedidos \ {r} : Detem(ped[s]) /\ ~ped[s].perdeu
                     => bd'.token = s /\ bd'.vigente /\ ~processo'
               /\ /\ r \in Pedidos /\ Detem(ped'[r]) /\ ~ped'[r].perdeu
                  /\ ped'[r].op = ped[r].op /\ ped'[r].perdeu = ped[r].perdeu
                  /\ ped[r].pc \notin {"fora", "reserva", "libera", "fim"}
                  => bd'.token = r /\ bd'.vigente /\ ~processo'
    BY <1>3, <1>8 DEF Detem
  <1>9. ASSUME NEW resp, Responde(r, resp), bd' = bd, arquivo' = arquivo, processo' = processo,
               atualizando' = atualizando, aceitas' = aceitas,
               ped[r].pc \in {"renova", "grava", "desfaz", "arquivo"}
        PROVE  Guarda'
    <2>1. Vai(r, "libera")
      BY <1>1, <1>9, RespondeForma
    <2>2. CredOK(ped'[r], arquivo', aceitas') /\ Volta(ped'[r])
      BY <1>1, <1>9, <2>1 DEF CredOK, Volta, Vai
    <2>3. \A s \in Todos : CredOK(ped[s], arquivo', aceitas')
      BY <1>2, <1>9
    <2>4. /\ ped'[r].op = ped[r].op /\ ped'[r].pc = "libera" /\ ped'[r].perdeu = ped[r].perdeu
          /\ ped'[r].volta = ped[r].volta /\ ped'[r].anterior = ped[r].anterior
          /\ \A s \in Todos \ {r} : ped'[s] = ped[s]
      BY <2>1 DEF Vai
    <2>5. bd'.token = bd.token /\ bd'.vigente = bd.vigente /\ bd'.cfg = bd.cfg
          /\ ped[r].pc \notin {"fora", "reserva", "libera", "fim"}
      BY <1>9
    <2> QED
      BY <1>8, <1>9, <2>2, <2>3, <2>4, <2>5, UmSoFirme
  <1>10. CASE Renovar(r)
    <2>1. /\ ped[r].pc = "renova" /\ ped[r].op \in {"CONFIG", "CREDENCIAL"}
          /\ arquivo' = arquivo /\ aceitas' = aceitas /\ atualizando' = atualizando
          /\ processo' = processo
      BY <1>1, <1>10 DEF Renovar, Em, Papel
    <2>2. CASE Responde(r, "PERDIDA") /\ bd' = bd
      BY <1>9, <2>1, <2>2
    <2>3. CASE /\ PodeRenovar(r) /\ bd' = [bd EXCEPT !.vigente = TRUE]
               /\ ped' = [ped EXCEPT ![r].perdeu = FALSE,
                     ![r].pc = IF ped[r].op = "CONFIG" THEN "grava" ELSE "arquivo"]
      <3> DEFINE pc == IF ped[r].op = "CONFIG" THEN "grava" ELSE "arquivo"
                 p == [ped[r] EXCEPT !.perdeu = FALSE, !.pc = pc]
      <3>1. ped' = [ped EXCEPT ![r] = p]
        BY <2>3
      <3>2. /\ pc \in {"grava", "arquivo"} /\ (pc = "arquivo" => ped[r].op = "CREDENCIAL")
            /\ pc = "grava" => ped[r].op = "CONFIG"
        BY <2>1
      <3> HIDE DEF pc
      <3>3. /\ p.pc = pc /\ p.op = ped[r].op /\ p.cred = ped[r].cred /\ p.anterior = ped[r].anterior
            /\ p.volta = ped[r].volta /\ p.perdeu = FALSE
        BY <1>1 DEF Pedido
      <3> HIDE DEF p
      <3>4. /\ ped'[r] = p /\ (\A s \in Todos \ {r} : ped'[s] = ped[s])
        BY <1>1, <3>1
      <3>5. /\ bd'.token = r /\ bd'.vigente /\ bd'.cfg = bd.cfg /\ ~processo' /\ bd.token = r
        BY <1>1, <2>1, <2>3 DEF PodeRenovar, Linha
      <3>6. CredOK(p, arquivo', aceitas') /\ Volta(p) /\ ~p.volta
        BY <1>1, <2>1, <3>2, <3>3 DEF CredOK, Volta
      <3>7. \A s \in Pedidos \ {r} : Detem(ped[s]) /\ ~ped[s].perdeu
              => bd'.token = s /\ bd'.vigente /\ ~processo'
        BY <1>3, <3>5
      <3>8. \A s \in Todos : CredOK(ped[s], arquivo', aceitas')
        BY <1>2, <2>1
      <3>9. p.pc \notin {"fora", "fim"} /\ ped[r].pc \notin {"fora", "fim"}
        BY <2>1, <3>2, <3>3
      <3> QED
        BY <2>1, <3>3, <3>4, <3>5, <3>6, <3>7, <3>8, <3>9, UmSoFirme
    <2> QED
      BY <1>10, <2>2, <2>3 DEF Renovar
  <1>11. CASE GravarConfig(r)
    <2>1. /\ ped[r].pc = "grava" /\ ped[r].op = "CONFIG" /\ r \in Pedidos
          /\ arquivo' = arquivo /\ aceitas' = aceitas /\ atualizando' = atualizando
          /\ processo' = processo
      BY <1>1, <1>11, <1>21 DEF GravarConfig, Em, Papel, Atualiza
    <2>2. CASE Responde(r, "PERDIDA") /\ bd' = bd
      BY <1>9, <2>1, <2>2
    <2>3. CASE PodeGravar(r) /\ bd' = Gravada(Nova) /\ Segue(r, "desliga")
      <3>1. Vai(r, "desliga")
        BY <1>1, <2>3, SegueForma
      <3>2. /\ ped'[r].op = ped[r].op /\ ped'[r].pc = "desliga" /\ ped'[r].perdeu = ped[r].perdeu
            /\ ped'[r].volta = ped[r].volta
            /\ \A s \in Todos \ {r} : ped'[s] = ped[s]
        BY <3>1 DEF Vai
      <3>3. bd'.token = bd.token /\ bd'.vigente = bd.vigente
        BY <1>1, <2>3 DEF Gravada, Linha
      <3>4. CredOK(ped'[r], arquivo', aceitas') /\ Volta(ped'[r]) /\ ~ped'[r].volta
        BY <1>1, <2>1, <3>1 DEF CredOK, Volta, Vai
      <3>5. atualizando = r
        BY <1>4, <2>1 DEF Atualiza
      <3>6. \A s \in Todos : CredOK(ped[s], arquivo', aceitas')
        BY <1>2, <2>1
      <3>7. ped[r].pc \notin {"fora", "reserva", "libera", "fim"}
        BY <2>1
      <3> QED
        BY <1>8, <2>1, <3>2, <3>3, <3>4, <3>5, <3>6, <3>7, UmSoFirme
    <2> QED
      BY <1>11, <2>2, <2>3 DEF GravarConfig
  <1>12. CASE Desfazer(r)
    <2>1. /\ ped[r].pc = "desfaz" /\ ped[r].op = "CONFIG" /\ r \in Pedidos
          /\ arquivo' = arquivo /\ aceitas' = aceitas /\ atualizando' = atualizando
          /\ processo' = processo
      BY <1>1, <1>12, <1>21 DEF Desfazer, Em, Papel, Atualiza
    <2>2. CASE Responde(r, Relato(FALSE)) /\ bd' = bd
      BY <1>9, <2>1, <2>2
    <2>3. CASE /\ PodeGravar(r) /\ bd' = Gravada(ped[r].anterior)
               /\ ped' = [ped EXCEPT ![r].pc = "desliga", ![r].volta = TRUE]
      <3> DEFINE p == [ped[r] EXCEPT !.pc = "desliga", !.volta = TRUE]
      <3>1. ped' = [ped EXCEPT ![r] = p]
        BY <2>3
      <3>2. /\ p.pc = "desliga" /\ p.op = ped[r].op /\ p.cred = ped[r].cred /\ p.anterior = ped[r].anterior
            /\ p.volta = TRUE /\ p.perdeu = ped[r].perdeu
        BY <1>1 DEF Pedido
      <3> HIDE DEF p
      <3>3. ped'[r] = p /\ (\A s \in Todos \ {r} : ped'[s] = ped[s])
        BY <1>1, <3>1
      <3>4. bd'.token = bd.token /\ bd'.vigente = bd.vigente /\ bd'.cfg = ped[r].anterior
        BY <1>1, <2>3 DEF Gravada, Linha
      <3>5. CredOK(p, arquivo', aceitas') /\ Volta(p)
        BY <1>1, <2>1, <3>2 DEF CredOK, Volta
      <3>6. atualizando = r
        BY <1>4, <2>1 DEF Atualiza
      <3>7. \A s \in Todos : CredOK(ped[s], arquivo', aceitas')
        BY <1>2, <2>1
      <3>8. ped[r].pc \notin {"fora", "reserva", "libera", "fim"}
        BY <2>1
      <3> QED
        BY <1>8, <2>1, <3>2, <3>3, <3>4, <3>5, <3>6, <3>7, <3>8, UmSoFirme
    <2> QED
      BY <1>12, <2>2, <2>3 DEF Desfazer
  <1>13. CASE GravarArquivo(r)
    <2>1. /\ ped[r].pc = "arquivo" /\ ped[r].op = "CREDENCIAL" /\ aceitas' = aceitas
          /\ atualizando' = atualizando /\ processo' = processo /\ bd' = bd
      BY <1>1, <1>13 DEF GravarArquivo, Em, Papel
    <2>2. CASE Responde(r, "ERRO") /\ arquivo' = arquivo
      BY <1>9, <2>1, <2>2
    <2>3. CASE arquivo' = ped[r].cred /\ Segue(r, "marca")
      <3>1. Vai(r, "marca")
        BY <1>1, <2>3, SegueForma
      <3>2. /\ ped'[r].op = ped[r].op /\ ped'[r].pc = "marca" /\ ped'[r].perdeu = ped[r].perdeu
            /\ ped'[r].volta = ped[r].volta /\ ped'[r].anterior = ped[r].anterior
            /\ \A s \in Todos \ {r} : ped'[s] = ped[s]
        BY <3>1 DEF Vai
      <3>3. arquivo' \in aceitas
        BY <1>1, <2>1, <2>3 DEF CredOK
      <3>4. CredOK(ped'[r], arquivo', aceitas') /\ Volta(ped'[r])
        BY <1>1, <2>1, <3>2, <3>3 DEF CredOK, Volta
      <3>5. \A s \in Todos : CredOK(ped[s], arquivo', aceitas')
        BY <1>2, <2>1, <3>3 DEF CredOK
      <3>6. ped[r].pc \notin {"fora", "reserva", "libera", "fim"}
            /\ bd'.token = bd.token /\ bd'.vigente = bd.vigente /\ bd'.cfg = bd.cfg
        BY <2>1
      <3> QED
        BY <1>8, <2>1, <3>2, <3>4, <3>5, <3>6, UmSoFirme
    <2> QED
      BY <1>13, <2>2, <2>3 DEF GravarArquivo
  <1> QED
    BY <1>5, <1>6, <1>7, <1>10, <1>11, <1>12, <1>13

\* A request is made.
LEMMA PedirFirme ==
    ASSUME Firme, NEW r \in Pedidos, NEW op \in Operacoes, Pedir(r, op)
    PROVE  Guarda'
  <1> DEFINE pc == IF op = "TESTAR" THEN IF conectado THEN "fim" ELSE "conecta"
                   ELSE IF op = "RESTAURAR" THEN "restaura" ELSE "reserva"
             p == [ped[r] EXCEPT !.op = op, !.pc = pc]
  <1>1. /\ r \in Todos /\ ped \in [Todos -> Pedido] /\ ped[r] \in Pedido /\ ped[r].pc = "fora"
        /\ Volta(ped[r]) /\ CredOK(ped[r], arquivo, aceitas) /\ ped[r].op = Nenhum
    BY Constants DEF Pedir, Em, Firme, Typed, PedidosOK, Conserva, Credenciais, Exclusivo
  <1>2. /\ arquivo' = arquivo /\ aceitas' = aceitas /\ bd' = bd /\ processo' = processo
        /\ op = "RESTAURAR" \/ atualizando = Nenhum
        /\ atualizando' = IF Atualiza(op) THEN r ELSE atualizando
    BY DEF Pedir
  <1>3. ped' = [ped EXCEPT ![r] = p]
    BY DEF Pedir
  <1>4. /\ pc \in {"fim", "conecta", "restaura", "reserva"}
        /\ pc \in {"conecta", "restaura"} => op \in {"TESTAR", "RESTAURAR"}
    OBVIOUS
  <1> HIDE DEF pc
  <1>5. p.op = op /\ p.pc = pc /\ p.cred = ped[r].cred /\ p.volta = ped[r].volta
    BY <1>1 DEF Pedido
  <1> HIDE DEF p
  <1>6. ped'[r] = p /\ \A s \in Todos \ {r} : ped'[s] = ped[s]
    BY <1>1, <1>3
  <1>7. CredOK(p, arquivo, aceitas) /\ Volta(p) /\ ~p.volta /\ ~Detem(p)
    BY <1>1, <1>4, <1>5 DEF CredOK, Volta, Detem, Arrendada
  <1>8. Credenciais'
    BY <1>2, <1>6, <1>7 DEF Firme, Credenciais
  <1>9. Arrendamento'
    BY <1>2, <1>6, <1>7, Constants DEF Firme, Arrendamento
  <1>10. Exclusivo'
    <2> SUFFICES ASSUME NEW s \in Pedidos
                 PROVE  /\ Atualiza(ped'[s].op) /\ ped'[s].pc \notin {"fora", "fim"} => atualizando' = s
                        /\ ped'[s].pc = "fora" => ped'[s].op = Nenhum
      BY DEF Exclusivo
    <2>1. CASE s = r
      BY <1>2, <1>4, <1>5, <1>6, <2>1
    <2>2. CASE s # r
      <3>1. ped'[s] = ped[s]
        BY <1>6, <2>2, Constants
      <3>2. Atualiza(op) => atualizando = Nenhum
        BY <1>2 DEF Atualiza
      <3>3. Atualiza(ped[s].op) /\ ped[s].pc \notin {"fora", "fim"} => atualizando = s
        BY DEF Firme, Exclusivo
      <3>4. ped[s].pc = "fora" => ped[s].op = Nenhum
        BY DEF Firme, Exclusivo
      <3>5. s # Nenhum
        BY Constants
      <3> QED
        BY <1>2, <3>1, <3>2, <3>3, <3>4, <3>5
    <2> QED
      BY <2>1, <2>2
  <1>11. Conserva'
    <2>1. ASSUME NEW s \in Todos PROVE Volta(ped'[s])
      BY <1>6, <1>7 DEF Firme, Conserva
    <2>2. ASSUME \A q \in Pedidos : ped'[q].op # "RESTAURAR", NEW s \in Pedidos,
                 ped'[s].op = "CONFIG", ped'[s].pc \in {"renova", "grava"} \/ ped'[s].volta
          PROVE  bd'.cfg = ped'[s].anterior
      <3>1. s # r
        BY <1>4, <1>5, <1>6, <1>7, <2>2
      <3>2. ped'[s] = ped[s]
        BY <1>6, <3>1, Constants
      <3>3. \A q \in Pedidos : ped[q].op # "RESTAURAR"
        BY <1>1, <1>6, <2>2, ConfigurationAssumption, Constants DEF Operacoes
      <3> QED
        BY <1>2, <2>2, <3>2, <3>3 DEF Firme, Conserva
    <2> QED
      BY <2>1, <2>2 DEF Conserva
  <1> QED
    BY <1>8, <1>9, <1>10, <1>11 DEF Guarda

\* The queue, the link, the expiry of a lease, the processes, and the death
\* of the API.
LEMMA AmbienteFirme ==
    ASSUME Firme,
           \/ Executar \/ Cair \/ Voltar \/ Vencer \/ Partida \/ FimDoProcesso
           \/ Reiniciar \/ Encerrou
    PROVE  Guarda'
  <1>1. /\ Typed /\ ped \in [Todos -> Pedido] /\ bd \in Linha
        /\ \A s \in Todos : CredOK(ped[s], arquivo, aceitas) /\ Volta(ped[s])
    BY DEF Firme, Typed, PedidosOK, LinhaOK, Conserva, Credenciais
  <1>2. \A s \in Pedidos : Detem(ped[s]) /\ ~ped[s].perdeu
           => bd.token = s /\ bd.vigente /\ ~processo
    BY DEF Firme, Arrendamento
  <1>3. CASE Executar
    <2> DEFINE t == Head(fila)
               pula == t.cli # 0 /\ ~Atual(t.cli)
               pc == IF pula \/ Confere(t) THEN t.segue ELSE t.senao
    <2>1. /\ fila # <<>> /\ aceitas' = aceitas /\ arquivo' = arquivo /\ processo' = processo
          /\ atualizando' = atualizando
          /\ bd' = IF pula THEN bd ELSE Escrita(t)
          /\ ped' = IF t.dono = Nenhum THEN ped ELSE [ped EXCEPT ![t.dono].pc = pc]
      BY <1>3 DEF Executar
    <2>2. t \in Entrada /\ Espera(t, ped)
      BY <1>1, <2>1, FilaTail DEF Typed
    <2>3. bd'.token = bd.token /\ bd'.vigente = bd.vigente /\ bd'.cfg = bd.cfg
      BY <1>1, <2>1 DEF Escrita, Linha
    <2>4. ASSUME t.dono # Nenhum
          PROVE  /\ t.dono \in Todos /\ Prossegue(ped[t.dono], ped'[t.dono])
                 /\ \A s \in Todos \ {t.dono} : ped'[s] = ped[s]
      <3> DEFINE r == t.dono
      <3>1. /\ r \in Todos /\ ped[r] \in Pedido /\ ped[r].pc = "fila"
            /\ pc \in Segues
        BY <1>1, <2>2, <2>4 DEF Entrada, Espera, Confere
      <3>2. Segue(r, pc)
        BY <2>1, <2>4 DEF Segue
      <3>3. pc = "abre" => ped[r].cred # Nenhum
        <4>1. CASE ped[r].cred # Nenhum
          BY <4>1
        <4>2. CASE ped[r].cred = Nenhum
          BY <2>2, <2>4, <4>2 DEF Espera, Entrada
        <4> QED
          BY <4>1, <4>2
      <3> HIDE DEF pc, r
      <3>4. Vai(r, pc) /\ ped'[r].resp = ped[r].resp
        BY <1>1, <3>1, <3>2, SegueForma
      <3>5. Prossegue(ped[r], ped'[r])
        BY <3>1, <3>3, <3>4 DEF Vai, Prossegue, Segues
      <3> QED
        BY <3>1, <3>4, <3>5 DEF Vai, r
    <2>5. \A s \in Todos : ped'[s] = ped[s] \/ Prossegue(ped[s], ped'[s])
      BY <2>1, <2>4
    <2>6. Sereno /\ aceitas \subseteq aceitas'
      BY <2>1, <2>3 DEF Sereno
    <2> QED
      BY <2>3, <2>5, <2>6, AvancaFirme DEF Guarda
  <1>4. CASE Cair \/ Voltar \/ Encerrou
    <2>1. /\ Sereno /\ aceitas \subseteq aceitas' /\ bd'.cfg = bd.cfg /\ ped' = ped
      BY <1>4 DEF Cair, Voltar, Encerrou, vars, Sereno, Aceita
    <2> QED
      BY <2>1, AvancaFirme DEF Guarda
  <1>5. CASE Vencer
    <2> DEFINE r == bd.token
               p == [ped[r] EXCEPT !.perdeu = TRUE]
    <2>1. /\ ped' = [ped EXCEPT ![r] = p] /\ bd' = [bd EXCEPT !.vigente = FALSE] /\ bd.token # Nenhum
          /\ arquivo' = arquivo /\ aceitas' = aceitas /\ atualizando' = atualizando
      BY <1>5 DEF Vencer, LeaseVigente
    <2>2. r \in Pedidos /\ r \in Todos /\ ped[r] \in Pedido /\ bd'.cfg = bd.cfg
      BY <1>1, <2>1, Constants DEF Linha
    <2> HIDE DEF r
    <2>3. /\ p.pc = ped[r].pc /\ p.op = ped[r].op /\ p.cred = ped[r].cred /\ p.anterior = ped[r].anterior
          /\ p.volta = ped[r].volta /\ p.perdeu = TRUE
      BY <2>2 DEF Pedido
    <2> HIDE DEF p
    <2>4. /\ ped'[r] = p /\ (\A s \in Todos \ {r} : ped'[s] = ped[s])
      BY <1>1, <2>1, <2>2
    <2>5. \A s \in Todos : /\ ped'[s].pc = ped[s].pc /\ ped'[s].op = ped[s].op
                            /\ ped'[s].cred = ped[s].cred /\ ped'[s].volta = ped[s].volta
                            /\ ped'[s].anterior = ped[s].anterior
      BY <2>3, <2>4
    <2>6. Credenciais'
      BY <1>1, <2>1, <2>5 DEF Credenciais, CredOK
    <2>7. Arrendamento'
      <3>1. \A s \in Pedidos \ {r} : ~(Detem(ped[s]) /\ ~ped[s].perdeu)
        BY <1>2 DEF r
      <3> QED
        BY <2>3, <2>4, <3>1, Constants DEF Arrendamento
    <2>8. Exclusivo'
      BY <2>1, <2>5, Constants DEF Firme, Exclusivo
    <2>9. Conserva'
      BY <1>1, <2>2, <2>5, Constants DEF Firme, Conserva, Volta
    <2> QED
      BY <2>6, <2>7, <2>8, <2>9 DEF Guarda
  <1>6. CASE Partida
    <2>1. /\ ped' = ped /\ bd' = bd /\ arquivo' = arquivo /\ aceitas' = aceitas
          /\ atualizando' = atualizando /\ ~LeaseVigente
      BY <1>6 DEF Partida, PartidaLivre
    <2>2. \A s \in Pedidos : ~(Detem(ped[s]) /\ ~ped[s].perdeu)
      BY <1>2, <2>1, Constants DEF LeaseVigente
    <2> QED
      BY <2>1, <2>2 DEF Firme, Guarda, Credenciais, Arrendamento, Exclusivo, Conserva
  <1>7. CASE FimDoProcesso
    <2>1. /\ ped' = ped /\ bd' = bd /\ arquivo' = arquivo /\ aceitas' = aceitas
          /\ atualizando' = atualizando /\ ~processo'
      BY <1>7 DEF FimDoProcesso
    <2> QED
      BY <2>1 DEF Firme, Guarda, Credenciais, Arrendamento, Exclusivo, Conserva
  <1>8. CASE Reiniciar
    <2>1. /\ arquivo' = arquivo /\ aceitas' = aceitas /\ processo' = processo
          /\ ped' = [r \in Todos |-> IF r = Inicio THEN Conectando
                ELSE IF ped[r].pc \in {"fora", "fim"} THEN ped[r]
                ELSE [Parado EXCEPT !.op = ped[r].op, !.pc = "fim", !.perdeu = TRUE]]
      BY <1>8 DEF Reiniciar
    <2>2. bd'.cfg = bd.cfg
      BY <1>1, <1>8 DEF Reiniciar, Linha
    <2>3. /\ Conectando.pc = "conecta" /\ Conectando.cred = Nenhum /\ Conectando.volta = FALSE
      BY DEF Conectando, Parado
    <2>4. ASSUME NEW s \in Todos, s # Inicio
          PROVE  /\ ped'[s].op = ped[s].op /\ ped'[s].pc \in {"fora", "fim"}
                 /\ ped'[s].pc = "fora" => ped'[s] = ped[s]
                 /\ ped'[s] = ped[s] \/ (ped'[s].cred = Nenhum /\ ped'[s].volta = FALSE)
      <3>1. /\ [Parado EXCEPT !.op = ped[s].op, !.pc = "fim", !.perdeu = TRUE].op = ped[s].op
            /\ [Parado EXCEPT !.op = ped[s].op, !.pc = "fim", !.perdeu = TRUE].pc = "fim"
            /\ [Parado EXCEPT !.op = ped[s].op, !.pc = "fim", !.perdeu = TRUE].cred = Nenhum
            /\ [Parado EXCEPT !.op = ped[s].op, !.pc = "fim", !.perdeu = TRUE].volta = FALSE
        BY DEF Parado
      <3> QED
        BY <2>1, <2>4, <3>1
    <2>5. ped'[Inicio] = Conectando
      BY <2>1, Constants
    <2>6. ASSUME NEW s \in Todos PROVE CredOK(ped'[s], arquivo', aceitas') /\ Volta(ped'[s])
      <3>1. CASE s = Inicio
        BY <2>3, <2>5, <3>1 DEF CredOK, Volta
      <3>2. CASE s # Inicio
        BY <1>1, <2>1, <2>4, <3>2 DEF CredOK, Volta
      <3> QED
        BY <3>1, <3>2
    <2>7. \A s \in Pedidos : s \in Todos /\ s # Inicio
      BY Constants
    <2>8. Credenciais' /\ Arrendamento'
      BY <2>4, <2>6, <2>7 DEF Credenciais, Arrendamento, Detem
    <2>9. Exclusivo'
      BY <2>4, <2>7 DEF Firme, Exclusivo
    <2>10. Conserva'
      BY <2>4, <2>6, <2>7 DEF Conserva, Volta
    <2> QED
      BY <2>8, <2>9, <2>10 DEF Guarda
  <1> QED
    BY <1>3, <1>4, <1>5, <1>6, <1>7, <1>8

-----------------------------------------------------------------------------
(* Credentials called verified *)

\* A transition that will say that the credentials are verified.
Anuncia(q) == \E k \in 1..Len(q) : q[k].cred = "VERIFICADA"

\* A queue announces what it announced, and what is enqueued.
LEMMA AnunciaAppend ==
    ASSUME NEW q \in Seq(Entrada), NEW t \in Entrada, Anuncia(Append(q, t))
    PROVE  Anuncia(q) \/ t.cred = "VERIFICADA"
  <1> DEFINE s == Append(q, t)
  <1>1. /\ Len(q) \in Nat /\ Len(s) = Len(q) + 1 /\ s[Len(q) + 1] = t
        /\ \A k \in 1..Len(q) : s[k] = q[k]
    BY AppendProperties, LenProperties
  <1>2. \E k \in 1..Len(s) : s[k].cred = "VERIFICADA"
    BY DEF Anuncia
  <1> HIDE DEF s
  <1>3. PICK k \in 1..Len(s) : s[k].cred = "VERIFICADA"
    BY <1>2
  <1>4. k \in 1..Len(q) \/ k = Len(q) + 1
    BY <1>1
  <1> QED
    BY <1>1, <1>3, <1>4 DEF Anuncia

\* A step that neither establishes a client nor announces one.
LEMMA VerificadasFica ==
    ASSUME Firme, aceitas \subseteq aceitas', arquivo' = arquivo \/ arquivo' \in aceitas',
           \/ cliente' = SemCliente
           \/ /\ cliente'.id = cliente.id /\ cliente'.cred = cliente.cred
              /\ cliente'.vivo => cliente.vivo,
           Anuncia(fila') => Anuncia(fila),
           bd'.verif => bd.verif, pronta' => pronta
    PROVE  Verificadas'
  <1>1. Verificadas
    BY DEF Firme
  <1>2. SemCliente.id = 0 /\ SemCliente.cred = Nenhum /\ SemCliente.vivo = FALSE
    BY DEF SemCliente
  <1>3. cliente'.id # 0 => cliente'.cred # Nenhum
    BY <1>1, <1>2 DEF Verificadas
  <1>4. cliente'.vivo => cliente'.cred # Nenhum /\ cliente'.cred \in aceitas'
    BY <1>1, <1>2 DEF Verificadas
  <1>5. ASSUME arquivo' \notin aceitas'
        PROVE  /\ cliente'.cred \in {Nenhum, arquivo'} /\ ~Anuncia(fila')
               /\ ~bd'.verif /\ ~pronta'
    BY <1>1, <1>2, <1>5 DEF Verificadas, Anuncia
  <1> QED
    BY <1>3, <1>4, <1>5 DEF Verificadas, Anuncia

\* The steps of a connect.
LEMMA ConexaoVerificadas ==
    ASSUME Firme, NEW r \in Todos,
           \/ Conectar(r) \/ Ler(r) \/ Abrir(r) \/ Aceito(r) \/ Assinar(r) \/ Falhar(r)
           \/ Firmar(r) \/ Fechar(r) \/ Fechado(r)
    PROVE  Verificadas' /\ aceitas \subseteq aceitas'
  <1>1. /\ Typed /\ ped[r] \in Pedido /\ bd \in Linha /\ cliente \in Cliente
        /\ CredOK(ped[r], arquivo, aceitas) /\ Verificadas
        /\ fila \in Seq(Entrada)
    BY DEF Firme, Typed, PedidosOK, LinhaOK, Credenciais, FilaOK
  <1>2. ASSUME NEW campos, NEW t \in Entrada, Enfileira(r, t, campos), t.cred # "VERIFICADA"
        PROVE  Anuncia(fila') => Anuncia(fila)
    BY <1>1, <1>2, AnunciaAppend DEF Enfileira
  <1>3. ASSUME NEW enc, LimpaCliente(enc) PROVE cliente' = SemCliente
    BY <1>3 DEF LimpaCliente
  <1>4. CASE Conectar(r)
    <2>1. /\ arquivo' = arquivo /\ aceitas' = aceitas /\ bd' = bd /\ pronta' = pronta
          /\ cliente' = cliente /\ fila' = fila
      BY <1>4 DEF Conectar
    <2> QED
      BY <2>1, VerificadasFica
  <1>5. CASE Ler(r)
    <2> DEFINE t == IF arquivo = Nenhum THEN Falhou(r, bd.cfg, "")
                    ELSE Transicao(r, "RECONECTANDO", bd.cfg, 0, "", "abre", "falha")
    <2>1. /\ arquivo' = arquivo /\ aceitas' = aceitas /\ cliente' = cliente
          /\ pronta' => pronta
          /\ \E campos : Enfileira(r, t, campos)
      BY <1>5 DEF Ler, memoria
    <2>2. bd'.verif => bd.verif
      BY <1>1, <1>5 DEF Ler, Inspecionada, Linha
    <2>3. t \in Entrada /\ t.cred # "VERIFICADA"
      BY <1>1 DEF Falhou, Transicao, Entrada, Linha, Status, Segues
    <2> HIDE DEF t
    <2>4. Anuncia(fila') => Anuncia(fila)
      BY <1>2, <2>1, <2>3
    <2> QED
      BY <2>1, <2>2, <2>4, VerificadasFica
  <1>6. CASE Abrir(r)
    <2>1. /\ arquivo' = arquivo /\ aceitas' = aceitas /\ bd' = bd /\ pronta' = pronta
          /\ fila' = fila /\ ped[r].pc = "abre"
          /\ cliente'.cred = ped[r].cred /\ cliente'.vivo = FALSE
      BY <1>6 DEF Abrir, Em
    <2>2. /\ ped[r].cred # Nenhum
          /\ arquivo \notin aceitas => ped[r].cred \in {Nenhum, arquivo}
      BY <1>1, <2>1 DEF CredOK
    <2> QED
      BY <1>1, <2>1, <2>2 DEF Verificadas
  <1>7. CASE Aceito(r)
    <2> DEFINE t == DeEvento("CONECTADO", "VERIFICADA")
    <2>1. /\ arquivo' = arquivo /\ aceitas' = aceitas \cup {cliente.cred} /\ bd' = bd
          /\ pronta' = pronta /\ Atual(ped[r].cli)
          /\ cliente' = [cliente EXCEPT !.vivo = TRUE]
      BY <1>7 DEF Aceito, Aceita
    <2>2. cliente.id # 0 /\ cliente.cred # Nenhum
      BY <1>1, <2>1 DEF Atual, Verificadas
    <2>3. cliente'.id = cliente.id /\ cliente'.cred = cliente.cred
      BY <1>1, <2>1 DEF Cliente
    <2>4. arquivo' \in aceitas' \/ arquivo \notin aceitas
      BY <2>1
    <2>5. ASSUME arquivo' \notin aceitas' PROVE FALSE
      BY <1>1, <2>1, <2>2, <2>5, <1>7 DEF Verificadas, Aceito
    <2> QED
      BY <2>1, <2>2, <2>3, <2>5 DEF Verificadas
  <1>8. CASE Assinar(r)
    <2>1. /\ arquivo' = arquivo /\ aceitas' = aceitas /\ bd' = bd /\ pronta' = pronta
          /\ cliente' = cliente /\ cliente.vivo
      BY <1>8 DEF Assinar, memoria
    <2>2. cliente.cred # Nenhum /\ cliente.cred \in aceitas
      BY <1>1, <2>1 DEF Verificadas
    <2>3. arquivo \in aceitas
      BY <1>1, <2>2 DEF Verificadas
    <2> QED
      BY <1>1, <2>1, <2>3 DEF Verificadas
  <1>9. CASE Falhar(r)
    <2>1. PICK recusa \in {"", "RECUSADA"} : Enfileira(r, Falhou(r, ped[r].cfg, recusa), ped[r])
      BY <1>9 DEF Falhar
    <2>2. Falhou(r, ped[r].cfg, recusa) \in Entrada /\ Falhou(r, ped[r].cfg, recusa).cred # "VERIFICADA"
      BY <1>1 DEF Falhou, Transicao, Entrada, Status, Segues, Pedido
    <2>3. Anuncia(fila') => Anuncia(fila)
      BY <1>2, <2>1, <2>2
    <2>4. /\ arquivo' = arquivo /\ aceitas' = aceitas /\ bd' = bd /\ pronta' = pronta
          /\ cliente' = cliente
      BY <1>9 DEF Falhar
    <2> QED
      BY <2>3, <2>4, VerificadasFica
  <1>10. CASE Firmar(r)
    <2>1. /\ arquivo' = arquivo /\ aceitas' = aceitas /\ bd' = bd /\ pronta' = pronta
          /\ cliente' = cliente /\ fila' = fila
      BY <1>10 DEF Firmar
    <2> QED
      BY <2>1, VerificadasFica
  <1>11. CASE Fechar(r) \/ Fechado(r)
    <2>1. /\ arquivo' = arquivo /\ aceitas' = aceitas /\ bd' = bd /\ pronta' = pronta
          /\ fila' = fila /\ (cliente' = cliente \/ cliente' = SemCliente)
      BY <1>3, <1>11 DEF Fechar, Fechado
    <2> QED
      BY <2>1, VerificadasFica
  <1> QED
    BY <1>4, <1>5, <1>6, <1>7, <1>8, <1>9, <1>10, <1>11

\* The other steps of a request.
LEMMA OutrosVerificadas ==
    ASSUME Firme, NEW r \in Todos,
           \/ Reservar(r) \/ Liberar(r) \/ Provar(r) \/ Renovar(r) \/ GravarConfig(r)
           \/ Desfazer(r) \/ GravarArquivo(r) \/ MarcarCredencial(r)
           \/ Desligar(r) \/ Encerrado(r) \/ ConfirmarConfig(r) \/ Restaurada(r)
           \/ Publicar(r) \/ RestaurarBackup(r) \/ Recarregar(r)
    PROVE  Verificadas' /\ aceitas \subseteq aceitas'
  <1>1. /\ Typed /\ ped[r] \in Pedido /\ bd \in Linha /\ Papel(ped[r])
        /\ CredOK(ped[r], arquivo, aceitas) /\ fila \in Seq(Entrada)
    BY DEF Firme, Typed, PedidosOK, LinhaOK, Credenciais, FilaOK
  <1>2. aceitas \subseteq aceitas'
    BY DEF Reservar, Liberar, Provar, Renovar, GravarConfig, Desfazer, GravarArquivo,
           MarcarCredencial, Desligar, Encerrado, ConfirmarConfig, Restaurada, Publicar,
           RestaurarBackup, Recarregar, Aceita
  <1>3. CASE GravarArquivo(r)
    <2>1. /\ aceitas' = aceitas /\ bd' = bd /\ cliente' = cliente /\ fila' = fila
          /\ pronta' => pronta
          /\ ped[r].pc = "arquivo"
          /\ arquivo' = arquivo \/ arquivo' = ped[r].cred
      BY <1>3 DEF GravarArquivo, memoria, Em
    <2>2. arquivo' = arquivo \/ arquivo' \in aceitas'
      BY <1>1, <2>1 DEF CredOK
    <2> QED
      BY <2>1, <2>2, VerificadasFica
  <1>4. CASE Desligar(r) \/ Encerrado(r)
    <2>1. /\ arquivo' = arquivo /\ bd' = bd /\ pronta' = pronta
          /\ cliente' = cliente \/ cliente' = SemCliente
          /\ fila' = fila \/ Enfileira(r, Desconectado(r), ped[r])
          /\ ped[r].pc \in {"desliga", "encerra"}
      BY <1>4 DEF Desligar, Encerrado, LimpaCliente, Em
    <2>2. AposDesligar(r) \in Segues
      BY DEF AposDesligar, Segues
    <2>3. Desconectado(r) \in Entrada /\ Desconectado(r).cred # "VERIFICADA"
      BY <2>2 DEF Desconectado, Transicao, Entrada, Status
    <2>4. Anuncia(fila') => Anuncia(fila)
      BY <1>1, <2>1, <2>3, AnunciaAppend DEF Enfileira
    <2> QED
      BY <1>2, <2>1, <2>4, VerificadasFica
  <1>5. CASE \/ Reservar(r) \/ Liberar(r) \/ Provar(r) \/ Renovar(r) \/ GravarConfig(r)
             \/ Desfazer(r) \/ MarcarCredencial(r) \/ ConfirmarConfig(r) \/ Restaurada(r)
             \/ Publicar(r) \/ RestaurarBackup(r) \/ Recarregar(r)
    <2>1. /\ arquivo' = arquivo /\ pronta' = pronta /\ cliente' = cliente /\ fila' = fila
      BY <1>5 DEF Reservar, Liberar, Provar, Renovar, GravarConfig, Desfazer, MarcarCredencial,
                  ConfirmarConfig, Restaurada, Publicar, RestaurarBackup, Recarregar, memoria
    <2>2. bd'.verif => bd.verif
      <3>1. CASE Reservar(r) \/ Liberar(r) \/ Renovar(r)
        BY <1>1, <3>1 DEF Reservar, Liberar, Renovar, SemLease, Linha
      <3>2. CASE Provar(r)
        BY <1>1, <3>2 DEF Provar, Inspecionada, Linha
      <3>3. CASE GravarConfig(r) \/ Desfazer(r) \/ RestaurarBackup(r) \/ MarcarCredencial(r)
        BY <1>1, <3>3 DEF GravarConfig, Desfazer, RestaurarBackup, MarcarCredencial, Gravada, Linha
      <3>4. CASE ConfirmarConfig(r) \/ Restaurada(r) \/ Publicar(r) \/ Recarregar(r)
        BY <3>4 DEF ConfirmarConfig, Restaurada, Publicar, Recarregar
      <3> QED
        BY <1>5, <3>1, <3>2, <3>3, <3>4
    <2> QED
      BY <1>2, <2>1, <2>2, VerificadasFica
  <1> QED
    BY <1>2, <1>3, <1>4, <1>5

\* A request made, the queue, and the environment.
LEMMA AmbienteVerificadas ==
    ASSUME Firme,
           \/ \E r \in Pedidos, op \in Operacoes : Pedir(r, op)
           \/ Executar \/ Cair \/ Voltar \/ Vencer \/ Partida \/ FimDoProcesso
           \/ Reiniciar \/ UNCHANGED vars
    PROVE  Verificadas'
  <1>1. /\ Typed /\ bd \in Linha /\ cliente \in Cliente /\ FilaOK(fila, ped)
        /\ fila \in Seq(Entrada) /\ Verificadas
    BY DEF Firme, Typed, LinhaOK, FilaOK
  <1>2. ASSUME NEW status \in Status, NEW cred \in {"", "RECUSADA", "VERIFICADA"}
        PROVE  DeEvento(status, cred) \in Entrada /\ DeEvento(status, cred).cred = cred
    BY <1>1 DEF DeEvento, Transicao, Entrada, Cliente
  <1>3. CASE \E r \in Pedidos, op \in Operacoes : Pedir(r, op)
    <2>1. /\ arquivo' = arquivo /\ aceitas' = aceitas /\ bd' = bd /\ pronta' = pronta
          /\ cliente' = cliente /\ fila' = fila
      BY <1>3 DEF Pedir, memoria
    <2> QED
      BY <2>1, VerificadasFica
  <1>4. CASE Executar
    <2> DEFINE t == Head(fila)
               pula == t.cli # 0 /\ ~Atual(t.cli)
    <2>1. /\ fila # <<>> /\ fila' = Tail(fila) /\ arquivo' = arquivo /\ aceitas' = aceitas
          /\ cliente' = cliente
          /\ bd' = bd \/ bd' = Escrita(t)
          /\ \/ pronta' = pronta \/ pronta' = FALSE
             \/ t.cred = "VERIFICADA"
      BY <1>4 DEF Executar, memoria
    <2>2. \A k \in 1..Len(Tail(fila)) : \E l \in 1..Len(fila) : Tail(fila)[k] = fila[l]
      BY <1>1, <2>1, FilaTail
    <2>3. \E k \in 1..Len(fila) : fila[k] = t
      BY <1>1, <2>1, FilaTail
    <2>4. Anuncia(fila') => Anuncia(fila)
      BY <2>1, <2>2 DEF Anuncia
    <2>5. bd'.verif => bd.verif \/ t.cred = "VERIFICADA"
      <3>1. CASE bd' = bd
        BY <3>1
      <3>2. CASE bd' = Escrita(t)
        BY <1>1, <3>2 DEF Escrita, Linha
      <3> QED
        BY <2>1, <3>1, <3>2
    <2>6. CASE t.cred # "VERIFICADA"
      BY <2>1, <2>4, <2>5, <2>6, VerificadasFica
    <2>7. CASE t.cred = "VERIFICADA"
      <3>1. arquivo \in aceitas
        BY <1>1, <2>3, <2>7 DEF Verificadas
      <3> QED
        BY <1>1, <2>1, <3>1 DEF Verificadas
    <2> QED
      BY <2>6, <2>7
  <1>5. CASE Cair
    <2>1. /\ arquivo' = arquivo /\ aceitas' = aceitas /\ bd' = bd /\ pronta' = pronta
          /\ cliente' = [cliente EXCEPT !.vivo = FALSE]
          /\ fila' = Append(fila, DeEvento("DESCONECTADO", ""))
      BY <1>5 DEF Cair
    <2>2. Anuncia(fila') => Anuncia(fila)
      BY <1>1, <1>2, <2>1, AnunciaAppend DEF Status
    <2>3. cliente'.id = cliente.id /\ cliente'.cred = cliente.cred /\ cliente'.vivo = FALSE
      BY <1>1, <2>1 DEF Cliente
    <2> QED
      BY <2>1, <2>2, <2>3, VerificadasFica
  <1>6. CASE Voltar
    <2>1. /\ arquivo' = arquivo /\ bd' = bd /\ pronta' = pronta /\ Atual(cliente.id)
      BY <1>6 DEF Voltar
    <2>2. cliente.id # 0 /\ cliente.cred # Nenhum
      BY <1>1, <2>1 DEF Atual, Verificadas
    <2>3. CASE /\ cliente' = [cliente EXCEPT !.vivo = TRUE] /\ aceitas' = aceitas \cup {cliente.cred}
      <3>1. cliente'.id = cliente.id /\ cliente'.cred = cliente.cred
        BY <1>1, <2>3 DEF Cliente
      <3>2. arquivo \in aceitas'
        BY <1>1, <2>2, <2>3 DEF Verificadas
      <3> QED
        BY <2>1, <2>2, <2>3, <3>1, <3>2 DEF Verificadas
    <2>4. CASE /\ cliente' = cliente /\ aceitas' = aceitas
               /\ fila' = <<DeEvento("RECONECTANDO", ""), DeEvento("FALHA", "RECUSADA")>>
      <3>1. PICK a, b : fila' = <<a, b>> /\ a.cred = "" /\ b.cred = "RECUSADA"
        BY <1>2, <2>4 DEF Status
      <3>5. Len(<<a, b>>) = 2 /\ <<a, b>>[1] = a /\ <<a, b>>[2] = b
        OBVIOUS
      <3>3. Len(fila') = 2 /\ fila'[1].cred = "" /\ fila'[2].cred = "RECUSADA"
        <4>1. Len(fila') = 2 /\ fila'[1] = a /\ fila'[2] = b
          BY ONLY <3>1, <3>5
        <4> QED
          BY <3>1, <4>1
      <3>4. \A k \in 1..2 : k = 1 \/ k = 2
        OBVIOUS
      <3>2. ~Anuncia(fila')
        BY <3>3, <3>4, Zenon DEF Anuncia
      <3> QED
        BY <2>1, <2>4, <3>2, VerificadasFica
    <2> QED
      BY <1>6, <2>3, <2>4 DEF Voltar, Aceita
  <1>7. CASE Vencer
    <2>1. /\ arquivo' = arquivo /\ aceitas' = aceitas /\ pronta' = pronta
          /\ cliente' = cliente /\ fila' = fila /\ bd' = [bd EXCEPT !.vigente = FALSE]
      BY <1>7 DEF Vencer, memoria
    <2>2. bd'.verif = bd.verif
      BY <1>1, <2>1 DEF Linha
    <2> QED
      BY <2>1, <2>2, VerificadasFica
  <1>8. CASE Partida \/ FimDoProcesso \/ UNCHANGED vars
    <2>1. /\ arquivo' = arquivo /\ aceitas' = aceitas /\ bd' = bd /\ pronta' = pronta
          /\ cliente' = cliente /\ fila' = fila
      BY <1>8 DEF Partida, FimDoProcesso, vars, memoria
    <2> QED
      BY <2>1, VerificadasFica
  <1>9. CASE Reiniciar
    <2>1. /\ arquivo' = arquivo /\ aceitas' = aceitas /\ pronta' = FALSE
          /\ cliente' = SemCliente /\ fila' = <<>>
      BY <1>9 DEF Reiniciar
    <2>2. bd'.verif = FALSE
      BY <1>1, <1>9 DEF Reiniciar, Linha
    <2>3. ~Anuncia(fila')
      <3>1. Len(fila') = 0
        BY <2>1
      <3> QED
        BY <3>1 DEF Anuncia
    <2> QED
      BY <2>1, <2>2, <2>3, VerificadasFica
  <1> QED
    BY <1>3, <1>4, <1>5, <1>6, <1>7, <1>8, <1>9

\* Initially no request has read anything, and nothing is verified.
LEMMA InitFirme == Init => Firme
  <1> SUFFICES ASSUME Init PROVE Firme
    OBVIOUS
  <1>1. Typed
    BY InitTyped
  <1>2. /\ Parado.op = Nenhum /\ Parado.pc = "fora" /\ Parado.cred = Nenhum /\ Parado.volta = FALSE
        /\ Conectando.pc = "conecta" /\ Conectando.cred = Nenhum /\ Conectando.volta = FALSE
    BY DEF Parado, Conectando
  <1>3. \A r \in Todos : ped[r] = Parado \/ ped[r] = Conectando
    BY DEF Init
  <1>4. \A r \in Pedidos : ped[r] = Parado /\ r \in Todos
    BY Constants DEF Init
  <1>5. Credenciais
    BY <1>2, <1>3 DEF Credenciais, CredOK
  <1>6. Verificadas
    <2>1. Len(fila) = 0 /\ bd.verif = FALSE /\ pronta = FALSE
          /\ cliente.id = 0 /\ cliente.cred = Nenhum /\ cliente.vivo = FALSE
      BY DEF Init, SemCliente
    <2> QED
      BY <2>1 DEF Verificadas
  <1>7. Arrendamento /\ Exclusivo
    BY <1>2, <1>4 DEF Arrendamento, Detem, Exclusivo
  <1>8. Conserva
    BY <1>2, <1>3, <1>4 DEF Conserva, Volta
  <1> QED
    BY <1>1, <1>5, <1>6, <1>7, <1>8 DEF Firme

\* Every step preserves the invariants.
LEMMA FirmeStep == Firme /\ [Next]_vars => Firme'
  <1> SUFFICES ASSUME Firme, [Next]_vars PROVE Firme'
    OBVIOUS
  <1>1. Typed /\ Typed'
    BY TypedStep DEF Firme
  <1>2. ASSUME NEW r \in Todos, Passo(r) PROVE Guarda' /\ Verificadas'
    <2>1. CASE \/ Conectar(r) \/ Ler(r) \/ Abrir(r) \/ Aceito(r) \/ Assinar(r) \/ Falhar(r)
               \/ Firmar(r) \/ Fechar(r) \/ Fechado(r)
      <3>1. Avanca(r) /\ Sereno /\ bd'.cfg = bd.cfg
        BY <1>1, <2>1, ConexaoAvanca
      <3>2. Verificadas' /\ aceitas \subseteq aceitas'
        BY <2>1, ConexaoVerificadas
      <3> QED
        BY <3>1, <3>2, AvancaFirme DEF Avanca, Guarda
    <2>2. CASE \/ Desligar(r) \/ Encerrado(r) \/ ConfirmarConfig(r) \/ Restaurada(r)
               \/ Publicar(r) \/ RestaurarBackup(r) \/ Recarregar(r) \/ MarcarCredencial(r)
      <3>1. Avanca(r) /\ Sereno /\ (bd'.cfg = bd.cfg \/ (r \in Pedidos /\ ped[r].op = "RESTAURAR"))
        BY <1>1, <2>2, FimAvanca
      <3>2. Verificadas' /\ aceitas \subseteq aceitas'
        BY <2>2, OutrosVerificadas
      <3> QED
        BY <3>1, <3>2, AvancaFirme DEF Avanca, Guarda
    <2>3. CASE \/ Reservar(r) \/ Liberar(r) \/ Provar(r) \/ Renovar(r) \/ GravarConfig(r)
               \/ Desfazer(r) \/ GravarArquivo(r)
      BY <2>3, AtualizacaoFirme, OutrosVerificadas
    <2> QED
      BY <1>2, <2>1, <2>2, <2>3 DEF Passo
  <1>3. ASSUME NEW r \in Pedidos, NEW op \in Operacoes, Pedir(r, op) PROVE Guarda' /\ Verificadas'
    BY <1>3, PedirFirme, AmbienteVerificadas
  <1>4. ASSUME \/ Executar \/ Cair \/ Voltar \/ Vencer \/ Partida \/ FimDoProcesso
               \/ Reiniciar
        PROVE  Guarda' /\ Verificadas'
    BY <1>4, AmbienteFirme, AmbienteVerificadas
  <1>5. ASSUME UNCHANGED vars PROVE Guarda' /\ Verificadas'
    <2>1. Verificadas'
      BY <1>5, AmbienteVerificadas
    <2>2. Guarda'
      BY <1>5 DEF vars, Firme, Guarda, Credenciais, Arrendamento, Exclusivo, Conserva
    <2> QED
      BY <2>1, <2>2
  <1>6. Guarda' /\ Verificadas'
    BY <1>2, <1>3, <1>4, <1>5 DEF Next, Encerrou
  <1> QED
    BY <1>1, <1>6 DEF Firme, Guarda

\* Whatever the row or the memory of the API calls verified, the broker did
\* accept the credentials now in the file.  The credentials change only to
\* ones a probe had accepted, and everything that can report a connection,
\* a client, a transition in the queue or a request about to open a client,
\* carries, until those of the file are accepted, no others.
THEOREM VerificationTheorem == Spec => []VerifiedWasAccepted
  <1>1. Firme => VerifiedWasAccepted
    BY DEF Firme, Verificadas, VerifiedWasAccepted
  <1> QED
    BY <1>1, InitFirme, FirmeStep, PTL DEF Spec

\* No process comes into operation under an operation that holds the lease
\* and has not outlived it: the lease in force is what both the start of a
\* process and the claim of another operation look at, and only its holder
\* releases it.
THEOREM LeaseTheorem == Spec => []LeaseSparesProcess
  <1>1. Firme => LeaseSparesProcess
    BY DEF Firme, Arrendamento, LeaseSparesProcess, Dentro, Detem
  <1> QED
    BY <1>1, InitFirme, FirmeStep, PTL DEF Spec

\* An update of the configuration that answers that it was refused, lost its
\* lease or was rolled back leaves the row with the configuration it found
\* there, as long as no restoration of a backup writes another.  It rests on
\* Conserva: only the one update in progress writes a configuration.
THEOREM FailureTheorem == Spec => FailedUpdateKeepsConfig
  <1> DEFINE Falhas == {"RECUSADA", "PERDIDA", "DESFEITA"}
  <1>1. ASSUME Firme, [Next]_vars, NEW r \in Pedidos, ped[r].op = "CONFIG",
               \A q \in Pedidos : ped[q].op # "RESTAURAR",
               NEW resp \in Falhas, Responder(r, resp)
        PROVE  bd'.cfg = ped'[r].anterior
    <2>1. /\ Typed /\ ped \in [Todos -> Pedido] /\ ped[r] \in Pedido /\ bd \in Linha
          /\ r \in Todos /\ r # Inicio
      BY <1>1, Constants DEF Firme, Typed, PedidosOK, LinhaOK
    <2>2. ped'[r].resp = resp /\ ped[r].resp # resp /\ ped'[r] # ped[r]
      BY <1>1 DEF Responder
    <2>3. Conserva
      BY <1>1 DEF Firme
    <2>4. ASSUME Prossegue(ped[r], ped'[r]), bd'.cfg = bd.cfg PROVE bd'.cfg = ped'[r].anterior
      <3>1. ped[r].pc = "restaurada" /\ ped'[r].anterior = ped[r].anterior
        BY <1>1, <2>2, <2>4 DEF Prossegue
      <3>2. ped[r].volta
        BY <2>1, <2>3, <3>1 DEF Conserva, Volta
      <3> QED
        BY <1>1, <2>3, <2>4, <3>1, <3>2 DEF Conserva
    <2>5. ASSUME NEW s \in Todos, Passo(s) PROVE bd'.cfg = ped'[r].anterior
      <3>1. CASE \/ Conectar(s) \/ Ler(s) \/ Abrir(s) \/ Aceito(s) \/ Assinar(s) \/ Falhar(s)
                 \/ Firmar(s) \/ Fechar(s) \/ Fechado(s)
        <4>1. Avanca(s) /\ bd'.cfg = bd.cfg
          BY <2>1, <3>1, ConexaoAvanca
        <4> QED
          BY <2>1, <2>2, <2>4, <4>1 DEF Avanca
      <3>2. CASE \/ Desligar(s) \/ Encerrado(s) \/ ConfirmarConfig(s) \/ Restaurada(s)
                 \/ Publicar(s) \/ RestaurarBackup(s) \/ Recarregar(s) \/ MarcarCredencial(s)
        <4>1. Avanca(s) /\ (bd'.cfg = bd.cfg \/ (s \in Pedidos /\ ped[s].op = "RESTAURAR"))
          BY <2>1, <3>2, FimAvanca
        <4> QED
          BY <1>1, <2>1, <2>2, <2>4, <4>1 DEF Avanca
      <3>3. CASE Reservar(s)
        <4>1. \/ Vai(s, PrimeiroPasso(ped[s].op)) /\ ped'[s].resp = ped[s].resp
              \/ ped'[s].resp = "OCUPADA" /\ Vai(s, "libera")
          BY <2>1, <3>3, SegueForma, RespondeForma DEF Reservar
        <4> QED
          BY <1>1, <2>1, <2>2, <4>1 DEF Vai
      <3>4. CASE Liberar(s)
        BY <2>1, <2>2, <3>4, TerminaForma DEF Liberar
      <3>5. CASE GravarArquivo(s)
        <4>1. (Vai(s, "marca") /\ ped'[s].resp = ped[s].resp)
              \/ (ped'[s].resp = "ERRO" /\ Vai(s, "libera"))
          BY <2>1, <3>5, SegueForma, RespondeForma DEF GravarArquivo
        <4> QED
          BY <1>1, <2>1, <2>2, <4>1 DEF Vai
      <3>6. CASE Renovar(s) \/ GravarConfig(s)
        <4>1. CASE Responde(s, "PERDIDA") /\ bd' = bd
          <5>1. Vai(s, "libera") /\ s = r /\ ped[r].pc \in {"renova", "grava"}
            BY <2>1, <2>2, <3>6, <4>1, RespondeForma DEF Vai, Renovar, GravarConfig, Em
          <5>2. ped'[r].anterior = ped[r].anterior
            BY <5>1 DEF Vai
          <5> QED
            BY <1>1, <2>3, <4>1, <5>1, <5>2 DEF Conserva
        <4>2. CASE ped' = [ped EXCEPT ![s].perdeu = FALSE,
                     ![s].pc = IF ped[s].op = "CONFIG" THEN "grava" ELSE "arquivo"]
          <5> DEFINE p == [ped[s] EXCEPT !.perdeu = FALSE,
                             !.pc = IF ped[s].op = "CONFIG" THEN "grava" ELSE "arquivo"]
          <5>1. ped' = [ped EXCEPT ![s] = p]
            BY <4>2
          <5>2. ped[s] \in Pedido
            BY <2>1
          <5>3. p.resp = ped[s].resp
            BY <5>2 DEF Pedido
          <5> HIDE DEF p
          <5> QED
            BY <2>1, <2>2, <5>1, <5>3
        <4>3. CASE Segue(s, "desliga")
          <5>1. Vai(s, "desliga") /\ ped'[s].resp = ped[s].resp
            BY <2>1, <4>3, SegueForma
          <5> QED
            BY <2>1, <2>2, <5>1 DEF Vai
        <4> QED
          BY <3>6, <4>1, <4>2, <4>3 DEF Renovar, GravarConfig
      <3>7. CASE Desfazer(s)
        <4>1. CASE Responde(s, Relato(FALSE))
          <5>1. Vai(s, "libera") /\ ped'[s].resp = "INCOMPLETA"
            BY <2>1, <4>1, RespondeForma DEF Relato
          <5> QED
            BY <1>1, <2>1, <2>2, <5>1 DEF Vai
        <4>2. CASE ped' = [ped EXCEPT ![s].pc = "desliga", ![s].volta = TRUE]
          <5> DEFINE p == [ped[s] EXCEPT !.pc = "desliga", !.volta = TRUE]
          <5>1. ped' = [ped EXCEPT ![s] = p]
            BY <4>2
          <5>2. ped[s] \in Pedido
            BY <2>1
          <5>3. p.resp = ped[s].resp
            BY <5>2 DEF Pedido
          <5> HIDE DEF p
          <5> QED
            BY <2>1, <2>2, <5>1, <5>3
        <4> QED
          BY <3>7, <4>1, <4>2 DEF Desfazer
      <3>8. CASE Provar(s)
        <4> DEFINE lido == [ped[s] EXCEPT
                              !.cred = IF ped[s].op = "CONFIG" THEN arquivo ELSE CredNova,
                              !.anterior = IF ped[s].op = "CONFIG" THEN bd.cfg ELSE Nenhum]
        <4>1. \E p \in {[lido EXCEPT !.pc = "renova"], Recusada(lido)} : ped' = [ped EXCEPT ![s] = p]
          BY <3>8 DEF Provar
        <4>2. s = r
          BY <2>1, <2>2, <4>1
        <4>3. bd'.cfg = bd.cfg
          BY <2>1, <3>8 DEF Provar, Inspecionada, Linha
        <4>4. lido.anterior = bd.cfg /\ DOMAIN lido = DOMAIN ped[s]
          BY <1>1, <2>1, <4>2 DEF Pedido
        <4>5. DOMAIN ped[s] = {"op", "pc", "cfg", "cred", "cli", "anterior", "volta", "sucesso", "perdeu", "resp"}
          BY <2>1 DEF Pedido
        <4> HIDE DEF lido
        <4>6. ASSUME NEW p \in {[lido EXCEPT !.pc = "renova"], Recusada(lido)}
              PROVE  p.anterior = lido.anterior
          BY <4>4, <4>5, <4>6 DEF Recusada
        <4> QED
          BY <2>1, <4>1, <4>2, <4>3, <4>4, <4>6
      <3> QED
        BY <2>5, <3>1, <3>2, <3>3, <3>4, <3>5, <3>6, <3>7, <3>8 DEF Passo
    <2>6. ASSUME NEW s \in Pedidos, NEW op \in Operacoes, Pedir(s, op) PROVE FALSE
      <3> DEFINE pc == IF op = "TESTAR" THEN IF conectado THEN "fim" ELSE "conecta"
                       ELSE IF op = "RESTAURAR" THEN "restaura" ELSE "reserva"
                 p == [ped[s] EXCEPT !.op = op, !.pc = pc]
      <3>1. ped' = [ped EXCEPT ![s] = p] /\ s \in Todos
        BY <2>6, Constants DEF Pedir
      <3>2. ped[s] \in Pedido
        BY <2>1, <3>1
      <3> HIDE DEF pc
      <3>3. p.resp = ped[s].resp
        BY <3>2 DEF Pedido
      <3> HIDE DEF p
      <3> QED
        BY <2>1, <2>2, <3>1, <3>3
    <2>7. ~(Cair \/ Voltar \/ Partida \/ FimDoProcesso \/ Encerrou \/ UNCHANGED vars)
      BY <2>2 DEF Cair, Voltar, Partida, FimDoProcesso, Encerrou, vars
    <2>8. ~Executar
      <3> SUFFICES ASSUME Executar PROVE FALSE
        OBVIOUS
      <3> DEFINE t == Head(fila)
                 pc == IF (t.cli # 0 /\ ~Atual(t.cli)) \/ Confere(t) THEN t.segue ELSE t.senao
                 p == [ped[t.dono] EXCEPT !.pc = pc]
      <3>1. ped' = ped \/ ped' = [ped EXCEPT ![t.dono] = p]
        BY DEF Executar
      <3>2. t.dono = r /\ ped' = [ped EXCEPT ![r] = [ped[r] EXCEPT !.pc = pc]]
        BY <2>1, <2>2, <3>1
      <3> HIDE DEF pc, t
      <3>3. [ped[r] EXCEPT !.pc = pc].resp = ped[r].resp
        BY <2>1 DEF Pedido
      <3> QED
        BY <2>1, <2>2, <3>2, <3>3
    <2>9. ~Vencer
      <3> SUFFICES ASSUME Vencer PROVE FALSE
        OBVIOUS
      <3> DEFINE d == bd.token
                 p == [ped[d] EXCEPT !.perdeu = TRUE]
      <3>1. ped' = [ped EXCEPT ![d] = p]
        BY DEF Vencer
      <3>2. d = r /\ ped' = [ped EXCEPT ![r] = [ped[r] EXCEPT !.perdeu = TRUE]]
        BY <2>1, <2>2, <3>1
      <3>3. [ped[r] EXCEPT !.perdeu = TRUE].resp = ped[r].resp
        BY <2>1 DEF Pedido
      <3> QED
        BY <2>1, <2>2, <3>2, <3>3
    <2>10. ~Reiniciar
      <3> SUFFICES ASSUME Reiniciar PROVE FALSE
        OBVIOUS
      <3>1. ped'[r] \in {ped[r], [Parado EXCEPT !.op = ped[r].op, !.pc = "fim", !.perdeu = TRUE]}
        BY <2>1 DEF Reiniciar
      <3>2. [Parado EXCEPT !.op = ped[r].op, !.pc = "fim", !.perdeu = TRUE].resp = Nenhum
        BY DEF Parado
      <3>3. Nenhum \notin Falhas
        BY ConfigurationAssumption
      <3> QED
        BY <1>1, <2>2, <3>1, <3>2, <3>3
    <2> QED
      BY <1>1, <2>5, <2>6, <2>7, <2>8, <2>9, <2>10 DEF Next
  <1>2. Firme /\ [Next]_vars =>
          [\A r \in Pedidos :
             /\ ped[r].op = "CONFIG" /\ \A q \in Pedidos : ped[q].op # "RESTAURAR"
             /\ \E resp \in {"RECUSADA", "PERDIDA", "DESFEITA"} : Responder(r, resp)
             => bd'.cfg = ped'[r].anterior]_vars
    BY <1>1
  <1> QED
    BY <1>2, InitFirme, FirmeStep, PTL DEF Spec, FailedUpdateKeepsConfig

-----------------------------------------------------------------------------
(* The connection under the lease *)

\* What Serializado says, for as long as it can still come true: a request
\* that outlived its lease is one that may yet renew it.
Quase ==
    \A r \in Pedidos :
        /\ ped[r].op \notin {"TESTAR", "RESTAURAR"}
        /\ ped[r].perdeu => ped[r].pc \in {"prova", "renova"} /\ bd.token = r

\* Whatever the operations: no request is under way before the connect of the
\* boot ends, and a request loses no lease before it has claimed one.
Base ==
    /\ cliente.id = 0 => cliente = SemCliente
    /\ ped[Inicio].pc # "fim" => \A r \in Pedidos : ped[r].pc \in {"fora", "fim"}
    /\ \A r \in Pedidos : bd.token = r => ped[r].pc \notin {"fora", "reserva"}
    /\ \A r \in Pedidos : ped[r].pc \in {"fora", "reserva"} => ~ped[r].perdeu
    /\ \A r \in Pedidos : ped[r].pc # "fora" => ped[r].op # Nenhum

\* The requests that are not at work.
Passivos == {"fora", "reserva", "libera", "fim"}

\* Under Quase one request at most is at work: the holder of the lease, or
\* the connect of the boot.
LEMMA Sozinho ==
    ASSUME Typed, Arrendamento, Base, Quase, NEW r \in Todos, NEW q \in Todos,
           ped[r].pc \notin Passivos, ped[q].pc \notin Passivos
    PROVE  r = q
  <1>1. ASSUME NEW s \in Pedidos, ped[s].pc \notin Passivos PROVE bd.token = s
    <2>1. Detem(ped[s])
      BY <1>1 DEF Base, Quase, Detem, Arrendada, Passivos
    <2> QED
      BY <2>1 DEF Arrendamento, Quase
  <1>2. ASSUME NEW s \in Pedidos, ped[s].pc \notin Passivos, ped[Inicio].pc \notin Passivos PROVE FALSE
    BY <1>2 DEF Base, Passivos
  <1> QED
    BY <1>1, <1>2, Constants

\* One request changes.
LEMMA UmSoBase ==
    ASSUME Typed, Base, NEW r \in Todos, \A s \in Todos \ {r} : ped'[s] = ped[s],
           ped'[r].op = ped[r].op, ped[r].pc \notin {"fora", "fim"},
           ped'[r].pc \notin {"fora", "reserva"},
           bd'.token \in {bd.token, Nenhum, r},
           cliente'.id = 0 => cliente' = SemCliente,
           ped[r].perdeu =>
              \/ ped[r].pc \in {"prova", "renova"} /\ bd.token = r
              \/ ped'[r].perdeu /\ (ped'[r].pc \notin {"prova", "renova"} \/ bd'.token # r)
    PROVE  Base' /\ (Quase' => Quase)
  <1>1. Pedidos \subseteq Todos /\ Inicio \in Todos /\ Inicio \notin Pedidos /\ Nenhum \notin Pedidos
    BY Constants
  <1>2. ped'[Inicio].pc # "fim" => \A s \in Pedidos : ped'[s].pc \in {"fora", "fim"}
    BY <1>1 DEF Base
  <1>3. ASSUME NEW s \in Pedidos
        PROVE  /\ bd'.token = s => ped'[s].pc \notin {"fora", "reserva"}
               /\ ped'[s].pc \in {"fora", "reserva"} => ~ped'[s].perdeu
               /\ ped'[s].pc # "fora" => ped'[s].op # Nenhum
    BY <1>1 DEF Base
  <1>4. Base'
    BY <1>2, <1>3 DEF Base
  <1>5. ASSUME Quase', NEW s \in Pedidos
        PROVE  /\ ped[s].op \notin {"TESTAR", "RESTAURAR"}
               /\ ped[s].perdeu => ped[s].pc \in {"prova", "renova"} /\ bd.token = s
    <2>1. /\ ped'[s].op \notin {"TESTAR", "RESTAURAR"}
          /\ ped'[s].perdeu => ped'[s].pc \in {"prova", "renova"} /\ bd'.token = s
      BY <1>5 DEF Quase
    <2> QED
      BY <1>1, <2>1
  <1> QED
    BY <1>4, <1>5 DEF Quase

\* The requests stay where they are, and so does the lease.
LEMMA IgualBase ==
    ASSUME Base, ped' = ped, bd'.token = bd.token, cliente'.id = 0 => cliente' = SemCliente
    PROVE  Base' /\ (Quase' => Quase)
  BY DEF Base, Quase

\* The client of the API is none, or one with a number of its own.
LEMMA ClienteBase ==
    ASSUME Typed, Base, Next
    PROVE  cliente'.id = 0 => cliente' = SemCliente
  <1>1. cliente \in Cliente /\ resta.id # 0 /\ SemCliente.id = 0
    BY DEF Typed, SemCliente
  <1>2. cliente.id = 0 => cliente = SemCliente
    BY DEF Base
  <1>3. ASSUME cliente' = [cliente EXCEPT !.vivo = TRUE] \/ cliente' = [cliente EXCEPT !.vivo = FALSE],
               cliente.id # 0
        PROVE  cliente'.id # 0
    BY <1>1, <1>3 DEF Cliente
  <1>4. ASSUME NEW r \in Todos, Passo(r) PROVE cliente'.id = 0 => cliente' = SemCliente
    <2>1. CASE Abrir(r)
      BY <1>1, <2>1 DEF Abrir
    <2>2. CASE Aceito(r)
      <3>1. cliente.id # 0
        BY <1>1, <2>2 DEF Aceito, Atual
      <3> QED
        BY <1>3, <2>2, <3>1 DEF Aceito
    <2>3. CASE Fechar(r) \/ Fechado(r) \/ Encerrado(r)
      BY <1>2, <2>3 DEF Fechar, Fechado, Encerrado, LimpaCliente
    <2>4. CASE \/ Reservar(r) \/ Liberar(r) \/ Provar(r) \/ Renovar(r) \/ GravarConfig(r)
               \/ Desfazer(r) \/ GravarArquivo(r) \/ MarcarCredencial(r) \/ Conectar(r)
               \/ Ler(r) \/ Assinar(r) \/ Falhar(r) \/ Firmar(r) \/ Desligar(r)
      BY <1>2, <2>4 DEF Reservar, Liberar, Provar, Renovar, GravarConfig, Desfazer,
         GravarArquivo, MarcarCredencial, Conectar, Ler, Assinar, Falhar, Firmar, Desligar, memoria
    <2>5. CASE \/ ConfirmarConfig(r) \/ Restaurada(r) \/ Publicar(r) \/ RestaurarBackup(r)
               \/ Recarregar(r)
      BY <1>2, <2>5 DEF ConfirmarConfig, Restaurada, Publicar, RestaurarBackup, Recarregar, memoria
    <2> QED
      BY <1>4, <2>1, <2>2, <2>3, <2>4, <2>5 DEF Passo
  <1>5. ASSUME Cair \/ Voltar PROVE cliente'.id = 0 => cliente' = SemCliente
    <2>1. cliente.id # 0
      BY <1>1, <1>5 DEF Cair, Voltar, Atual
    <2> QED
      BY <1>2, <1>3, <1>5, <2>1 DEF Cair, Voltar
  <1>6. ASSUME \/ Executar \/ Vencer \/ Partida \/ FimDoProcesso \/ Encerrou
               \/ \E r \in Pedidos, op \in Operacoes : Pedir(r, op)
        PROVE  cliente' = cliente
    BY <1>6 DEF Executar, Vencer, Partida, FimDoProcesso, Encerrou, Pedir, memoria, vars
  <1>7. ASSUME Reiniciar PROVE cliente' = SemCliente
    BY <1>7 DEF Reiniciar
  <1> QED
    BY <1>2, <1>4, <1>5, <1>6, <1>7 DEF Next

\* The others stay, and of r only the step and the answer may change.
Mesmo(r) ==
    /\ \A s \in Todos \ {r} : ped'[s] = ped[s]
    /\ ped'[r].op = ped[r].op /\ ped'[r].cfg = ped[r].cfg /\ ped'[r].cred = ped[r].cred
    /\ ped'[r].cli = ped[r].cli /\ ped'[r].volta = ped[r].volta
    /\ ped'[r].sucesso = ped[r].sucesso /\ ped'[r].perdeu = ped[r].perdeu

\* Segue, Responde and Enfileira are steps of that kind.
LEMMA SegueMesmo ==
    ASSUME Typed, NEW r \in Todos, NEW pc, Segue(r, pc)
    PROVE  Mesmo(r) /\ ped'[r].pc = pc
  <1>1. ped \in [Todos -> Pedido] /\ ped[r] \in Pedido
    BY DEF Typed, PedidosOK
  <1> DEFINE p == [ped[r] EXCEPT !.pc = pc]
  <1>2. ped' = [ped EXCEPT ![r] = p]
    BY DEF Segue
  <1>3. /\ p.pc = pc /\ p.op = ped[r].op /\ p.cfg = ped[r].cfg /\ p.cred = ped[r].cred
        /\ p.cli = ped[r].cli /\ p.volta = ped[r].volta /\ p.sucesso = ped[r].sucesso
        /\ p.perdeu = ped[r].perdeu
    BY <1>1 DEF Pedido
  <1> HIDE DEF p
  <1> QED
    BY <1>1, <1>2, <1>3 DEF Mesmo

LEMMA RespondeMesmo ==
    ASSUME Typed, NEW r \in Todos, NEW resp, Responde(r, resp)
    PROVE  Mesmo(r) /\ ped'[r].pc = "libera"
  <1>1. ped \in [Todos -> Pedido] /\ ped[r] \in Pedido
    BY DEF Typed, PedidosOK
  <1> DEFINE p == [ped[r] EXCEPT !.pc = "libera", !.resp = resp]
  <1>2. ped' = [ped EXCEPT ![r] = p]
    BY DEF Responde
  <1>3. /\ p.pc = "libera" /\ p.op = ped[r].op /\ p.cfg = ped[r].cfg /\ p.cred = ped[r].cred
        /\ p.cli = ped[r].cli /\ p.volta = ped[r].volta /\ p.sucesso = ped[r].sucesso
        /\ p.perdeu = ped[r].perdeu
    BY <1>1 DEF Pedido
  <1> HIDE DEF p
  <1> QED
    BY <1>1, <1>2, <1>3 DEF Mesmo

LEMMA EnfileiraMesmo ==
    ASSUME Typed, NEW r \in Todos, NEW t, Enfileira(r, t, ped[r])
    PROVE  Mesmo(r) /\ ped'[r].pc = "fila" /\ fila' = Append(fila, t)
  <1>1. ped \in [Todos -> Pedido] /\ ped[r] \in Pedido
    BY DEF Typed, PedidosOK
  <1> DEFINE p == [ped[r] EXCEPT !.pc = "fila"]
  <1>2. ped' = [ped EXCEPT ![r] = p] /\ fila' = Append(fila, t)
    BY DEF Enfileira
  <1>3. /\ p.pc = "fila" /\ p.op = ped[r].op /\ p.cfg = ped[r].cfg /\ p.cred = ped[r].cred
        /\ p.cli = ped[r].cli /\ p.volta = ped[r].volta /\ p.sucesso = ped[r].sucesso
        /\ p.perdeu = ped[r].perdeu
    BY <1>1 DEF Pedido
  <1> HIDE DEF p
  <1> QED
    BY <1>1, <1>2, <1>3 DEF Mesmo

\* The probe, the renewal and the rollback, field by field.
LEMMA ProvarForma ==
    ASSUME Typed, NEW r \in Todos, Provar(r)
    PROVE  /\ \A s \in Todos \ {r} : ped'[s] = ped[s]
           /\ ped'[r].op = ped[r].op /\ ped'[r].perdeu = ped[r].perdeu
           /\ ped'[r].pc \in {"renova", "libera"}
  <1>1. ped \in [Todos -> Pedido] /\ ped[r] \in Pedido
    BY DEF Typed, PedidosOK
  <1> DEFINE lido == [ped[r] EXCEPT
                        !.cred = IF ped[r].op = "CONFIG" THEN arquivo ELSE CredNova,
                        !.anterior = IF ped[r].op = "CONFIG" THEN bd.cfg ELSE Nenhum]
  <1>2. PICK p \in {[lido EXCEPT !.pc = "renova"], Recusada(lido)} : ped' = [ped EXCEPT ![r] = p]
    BY DEF Provar
  <1>3. /\ lido.op = ped[r].op /\ lido.perdeu = ped[r].perdeu
        /\ DOMAIN lido = {"op", "pc", "cfg", "cred", "cli", "anterior", "volta", "sucesso", "perdeu", "resp"}
    BY <1>1 DEF Pedido
  <1> HIDE DEF lido
  <1>4. p.op = ped[r].op /\ p.perdeu = ped[r].perdeu /\ p.pc \in {"renova", "libera"}
    BY <1>2, <1>3 DEF Recusada
  <1> QED
    BY <1>1, <1>2, <1>4

LEMMA RenovarForma ==
    ASSUME Typed, NEW r \in Todos, Renovar(r)
    PROVE  /\ \A s \in Todos \ {r} : ped'[s] = ped[s]
           /\ ped'[r].op = ped[r].op /\ ped'[r].pc \in {"grava", "arquivo", "libera"}
           /\ bd.token = r \/ ped'[r].perdeu = ped[r].perdeu
  <1>1. ped \in [Todos -> Pedido] /\ ped[r] \in Pedido
    BY DEF Typed, PedidosOK
  <1>2. CASE Responde(r, "PERDIDA")
    BY <1>2, RespondeMesmo DEF Mesmo
  <1>3. CASE PodeRenovar(r) /\ ped' = [ped EXCEPT ![r].perdeu = FALSE,
                     ![r].pc = IF ped[r].op = "CONFIG" THEN "grava" ELSE "arquivo"]
    <2> DEFINE pc == IF ped[r].op = "CONFIG" THEN "grava" ELSE "arquivo"
               p == [ped[r] EXCEPT !.perdeu = FALSE, !.pc = pc]
    <2>1. ped' = [ped EXCEPT ![r] = p] /\ pc \in {"grava", "arquivo"}
      BY <1>3
    <2> HIDE DEF pc
    <2>2. p.pc = pc /\ p.op = ped[r].op
      BY <1>1 DEF Pedido
    <2> HIDE DEF p
    <2> QED
      BY <1>1, <1>3, <2>1, <2>2 DEF PodeRenovar
  <1> QED
    BY <1>2, <1>3 DEF Renovar

LEMMA DesfazerForma ==
    ASSUME Typed, NEW r \in Todos, ped' = [ped EXCEPT ![r].pc = "desliga", ![r].volta = TRUE]
    PROVE  /\ \A s \in Todos \ {r} : ped'[s] = ped[s]
           /\ ped'[r].op = ped[r].op /\ ped'[r].perdeu = ped[r].perdeu
           /\ ped'[r].pc = "desliga" /\ ped'[r].volta
  <1>1. ped \in [Todos -> Pedido] /\ ped[r] \in Pedido
    BY DEF Typed, PedidosOK
  <1> DEFINE p == [ped[r] EXCEPT !.pc = "desliga", !.volta = TRUE]
  <1>2. ped' = [ped EXCEPT ![r] = p]
    OBVIOUS
  <1>3. p.pc = "desliga" /\ p.volta /\ p.op = ped[r].op /\ p.perdeu = ped[r].perdeu
    BY <1>1 DEF Pedido
  <1> HIDE DEF p
  <1> QED
    BY <1>1, <1>2, <1>3

\* The transition at the head of the queue is done, field by field.
LEMMA ExecutarForma ==
    ASSUME Typed, Executar
    PROVE  LET t == Head(fila)
               pula == t.cli # 0 /\ ~Atual(t.cli)
           IN /\ fila # <<>> /\ fila' = Tail(fila) /\ t \in Entrada
              /\ bd'.cfg = bd.cfg /\ bd'.token = bd.token
              /\ bd'.status = IF ~pula /\ Confere(t) THEN t.status ELSE bd.status
              /\ t.dono = Nenhum => ped' = ped
              /\ t.dono # Nenhum =>
                   /\ t.dono \in Todos /\ ped[t.dono].pc = "fila" /\ Mesmo(t.dono)
                   /\ ped'[t.dono].pc = IF pula \/ Confere(t) THEN t.segue ELSE t.senao
                   /\ ped'[t.dono].pc \in Segues
  <1> DEFINE t == Head(fila)
             pula == t.cli # 0 /\ ~Atual(t.cli)
             pc == IF pula \/ Confere(t) THEN t.segue ELSE t.senao
  <1>1. /\ fila # <<>> /\ fila' = Tail(fila)
        /\ bd' = IF pula THEN bd ELSE Escrita(t)
        /\ ped' = IF t.dono = Nenhum THEN ped ELSE [ped EXCEPT ![t.dono].pc = pc]
    BY DEF Executar
  <1>2. t \in Entrada /\ Espera(t, ped) /\ bd \in Linha
    BY <1>1, FilaTail DEF Typed, LinhaOK
  <1>3. /\ bd'.cfg = bd.cfg /\ bd'.token = bd.token
        /\ bd'.status = IF ~pula /\ Confere(t) THEN t.status ELSE bd.status
    BY <1>1, <1>2 DEF Escrita, Linha
  <1>4. ASSUME t.dono # Nenhum
        PROVE  /\ t.dono \in Todos /\ ped[t.dono].pc = "fila" /\ Mesmo(t.dono)
               /\ ped'[t.dono].pc = pc /\ pc \in Segues
    <2>1. t.dono \in Todos /\ ped[t.dono].pc = "fila" /\ pc \in Segues
      BY <1>2, <1>4 DEF Entrada, Espera, Confere
    <2>2. Segue(t.dono, pc)
      BY <1>1, <1>4 DEF Segue
    <2> HIDE DEF pc, t
    <2> QED
      BY <2>1, <2>2, SegueMesmo
  <1> QED
    BY <1>1, <1>2, <1>3, <1>4

\* The first steps of the operations.
Inicial == {"prova", "desliga", "conecta", "publica"}

\* A request that claims the lease, or is told it may not.
LEMMA ReservarForma ==
    ASSUME Typed, NEW r \in Todos, Reservar(r)
    PROVE  /\ Mesmo(r) /\ ped[r].pc = "reserva" /\ ped'[r].pc \in Inicial \cup {"libera"}
           /\ ped'[r].pc = "prova" <=> ped'[r].pc # "libera" /\ Atualiza(ped[r].op)
           /\ ped'[r].pc # "libera" => bd'.token = r
           /\ bd'.token \in {bd.token, r}
           /\ bd'.cfg = bd.cfg /\ bd'.status = bd.status
  <1>1. ped[r] \in Pedido /\ ped[r].pc = "reserva" /\ ped[r].op \in Reservam /\ bd \in Linha
    BY DEF Typed, PedidosOK, LinhaOK, Papel, Reservar, Em
  <1>2. CASE Segue(r, PrimeiroPasso(ped[r].op)) /\ bd' = [bd EXCEPT !.token = r, !.vigente = TRUE]
    <2>1. Mesmo(r) /\ ped'[r].pc = PrimeiroPasso(ped[r].op)
      BY <1>2, SegueMesmo
    <2> QED
      BY <1>1, <1>2, <2>1 DEF PrimeiroPasso, Reservam, Atualiza, Inicial, Linha
  <1>3. CASE Responde(r, "OCUPADA") /\ bd' = bd
    BY <1>1, <1>3, RespondeMesmo
  <1> QED
    BY <1>2, <1>3 DEF Reservar

\* A request is made.
LEMMA PedirForma ==
    ASSUME Firme, NEW r \in Pedidos, NEW op \in Operacoes, Pedir(r, op)
    PROVE  /\ r \in Todos /\ \A s \in Todos \ {r} : ped'[s] = ped[s]
           /\ ped[r].pc = "fora" /\ ped[Inicio].pc = "fim"
           /\ ped'[r].op = op /\ ped'[r].perdeu = ped[r].perdeu
           /\ ped'[r].pc \in {"fim", "conecta", "restaura", "reserva"}
           /\ ped'[r].pc = "reserva" <=> op \notin {"TESTAR", "RESTAURAR"}
           /\ ped'[r].pc \in {"fim", "conecta"} => op = "TESTAR"
  <1> DEFINE pc == IF op = "TESTAR" THEN IF conectado THEN "fim" ELSE "conecta"
                   ELSE IF op = "RESTAURAR" THEN "restaura" ELSE "reserva"
             p == [ped[r] EXCEPT !.op = op, !.pc = pc]
  <1>1. r \in Todos /\ ped \in [Todos -> Pedido] /\ ped[r] \in Pedido
    BY Constants DEF Firme, Typed, PedidosOK
  <1>2. ped' = [ped EXCEPT ![r] = p] /\ ped[r].pc = "fora" /\ ped[Inicio].pc = "fim"
    BY DEF Pedir, Em
  <1>3. /\ pc \in {"fim", "conecta", "restaura", "reserva"}
        /\ pc = "reserva" <=> op \notin {"TESTAR", "RESTAURAR"}
        /\ pc \in {"fim", "conecta"} => op = "TESTAR"
    BY DEF Operacoes
  <1> HIDE DEF pc
  <1>4. p.op = op /\ p.pc = pc /\ p.perdeu = ped[r].perdeu
    BY <1>1 DEF Pedido
  <1> HIDE DEF p
  <1> QED
    BY <1>1, <1>2, <1>3, <1>4

\* A lease expires under its holder.
LEMMA VencerForma ==
    ASSUME Typed, Vencer
    PROVE  /\ bd.token \in Pedidos /\ bd.token \in Todos
           /\ \A s \in Todos \ {bd.token} : ped'[s] = ped[s]
           /\ \A s \in Todos :
                /\ ped'[s].op = ped[s].op /\ ped'[s].pc = ped[s].pc /\ ped'[s].cfg = ped[s].cfg
                /\ ped'[s].cred = ped[s].cred /\ ped'[s].cli = ped[s].cli
                /\ ped'[s].volta = ped[s].volta /\ ped'[s].sucesso = ped[s].sucesso
           /\ ped'[bd.token].perdeu
           /\ bd'.token = bd.token /\ bd'.cfg = bd.cfg /\ bd'.status = bd.status
  <1> DEFINE r == bd.token
             p == [ped[r] EXCEPT !.perdeu = TRUE]
  <1>1. /\ ped' = [ped EXCEPT ![r] = p] /\ bd' = [bd EXCEPT !.vigente = FALSE] /\ bd.token # Nenhum
    BY DEF Vencer, LeaseVigente
  <1>2. /\ bd \in Linha /\ r \in Pedidos /\ r \in Todos
        /\ ped \in [Todos -> Pedido] /\ ped[r] \in Pedido
    BY <1>1, Constants DEF Typed, LinhaOK, PedidosOK, Linha
  <1> HIDE DEF r
  <1>3. /\ p.pc = ped[r].pc /\ p.op = ped[r].op /\ p.cfg = ped[r].cfg /\ p.cred = ped[r].cred
        /\ p.cli = ped[r].cli /\ p.volta = ped[r].volta /\ p.sucesso = ped[r].sucesso
        /\ p.perdeu
    BY <1>2 DEF Pedido
  <1> HIDE DEF p
  <1>4. ped'[r] = p /\ \A s \in Todos \ {r} : ped'[s] = ped[s]
    BY <1>1, <1>2
  <1>5. bd'.token = bd.token /\ bd'.cfg = bd.cfg /\ bd'.status = bd.status
    BY <1>1, <1>2 DEF Linha
  <1> QED
    BY <1>2, <1>3, <1>4, <1>5 DEF r

\* The API dies: the requests under way are lost, the others stay.
LEMMA ReiniciarForma ==
    ASSUME Typed, Reiniciar
    PROVE  /\ ped'[Inicio] = Conectando /\ Conectando.pc = "conecta" /\ Conectando.op = "INICIAR"
           /\ \A s \in Pedidos :
                /\ ped'[s].op = ped[s].op /\ ped'[s].pc \in {"fora", "fim"}
                /\ \/ ped'[s] = ped[s] /\ ped[s].pc \in {"fora", "fim"}
                   \/ ped'[s].pc = "fim" /\ ped'[s].perdeu /\ ped[s].pc \notin {"fora", "fim"}
           /\ bd'.token = bd.token /\ bd'.cfg = bd.cfg
  <1>1. ped' = [r \in Todos |-> IF r = Inicio THEN Conectando
                ELSE IF ped[r].pc \in {"fora", "fim"} THEN ped[r]
                ELSE [Parado EXCEPT !.op = ped[r].op, !.pc = "fim", !.perdeu = TRUE]]
    BY DEF Reiniciar
  <1>2. ASSUME NEW s
        PROVE  LET p == [Parado EXCEPT !.op = ped[s].op, !.pc = "fim", !.perdeu = TRUE]
               IN p.op = ped[s].op /\ p.pc = "fim" /\ p.perdeu
    BY DEF Parado
  <1>3. \A s \in Pedidos : s \in Todos /\ s # Inicio
    BY Constants
  <1>4. Conectando.pc = "conecta" /\ Conectando.op = "INICIAR" /\ ped'[Inicio] = Conectando
    BY <1>1, Constants DEF Conectando, Parado
  <1>5. bd'.token = bd.token /\ bd'.cfg = bd.cfg
    BY DEF Typed, LinhaOK, Linha, Reiniciar
  <1>6. ASSUME NEW s \in Pedidos
        PROVE  /\ ped'[s].op = ped[s].op /\ ped'[s].pc \in {"fora", "fim"}
               /\ \/ ped'[s] = ped[s] /\ ped[s].pc \in {"fora", "fim"}
                  \/ ped'[s].pc = "fim" /\ ped'[s].perdeu /\ ped[s].pc \notin {"fora", "fim"}
    BY <1>1, <1>2, <1>3
  <1> QED
    BY <1>4, <1>5, <1>6

\* The invariants of the boot and of the lease are kept, and a step from a
\* state that is not Quase does not reach one that is.
LEMMA BaseStep ==
    ASSUME Firme, Base, Next
    PROVE  Base' /\ (Quase' => Quase)
  <1>1. /\ Typed /\ ped \in [Todos -> Pedido] /\ bd \in Linha
        /\ \A r \in Todos : ped[r] \in Pedido /\ Papel(ped[r])
    BY DEF Firme, Typed, PedidosOK, LinhaOK
  <1>2. cliente'.id = 0 => cliente' = SemCliente
    BY <1>1, ClienteBase
  <1>3. Pedidos \subseteq Todos /\ Inicio \notin Pedidos /\ Nenhum \notin Pedidos
    BY Constants
  <1>4. ASSUME NEW r \in Todos, Avanca(r), bd'.token = bd.token PROVE Base' /\ (Quase' => Quase)
    <2>1. /\ ped'[r].op = ped[r].op /\ ped'[r].perdeu = ped[r].perdeu
          /\ ped[r].pc \notin {"fora", "fim", "prova", "renova"}
          /\ ped'[r].pc \notin {"fora", "reserva", "prova", "renova"}
          /\ \A s \in Todos \ {r} : ped'[s] = ped[s]
      BY <1>4 DEF Avanca, Prossegue
    <2> QED
      BY <1>1, <1>2, <1>4, <2>1, UmSoBase
  <1>5. ASSUME NEW r \in Todos, Mesmo(r), bd'.token \in {bd.token, Nenhum, r},
               ped[r].pc \notin {"fora", "fim"}, ped'[r].pc \notin {"fora", "reserva"},
               \/ ped[r].pc \in {"prova", "renova"} /\ bd.token = r
               \/ ped'[r].pc \notin {"prova", "renova"}
               \/ ~ped[r].perdeu
        PROVE  Base' /\ (Quase' => Quase)
    BY <1>1, <1>2, <1>5, UmSoBase DEF Mesmo
  <1>6. ASSUME NEW r \in Todos, Passo(r) PROVE Base' /\ (Quase' => Quase)
    <2>1. CASE \/ Conectar(r) \/ Ler(r) \/ Abrir(r) \/ Aceito(r) \/ Assinar(r) \/ Falhar(r)
               \/ Firmar(r) \/ Fechar(r) \/ Fechado(r)
      BY <1>1, <1>4, <2>1, ConexaoAvanca DEF Sereno
    <2>2. CASE \/ Desligar(r) \/ Encerrado(r) \/ ConfirmarConfig(r) \/ Restaurada(r)
               \/ Publicar(r) \/ RestaurarBackup(r) \/ Recarregar(r) \/ MarcarCredencial(r)
      BY <1>1, <1>4, <2>2, FimAvanca DEF Sereno
    <2>3. CASE Reservar(r)
      <3>1. /\ Mesmo(r) /\ ped[r].pc = "reserva" /\ ped'[r].pc \in Inicial \cup {"libera"}
            /\ bd'.token \in {bd.token, r}
        BY <1>1, <2>3, ReservarForma
      <3>2. r \in Pedidos => ~ped[r].perdeu
        BY <3>1 DEF Base
      <3>3. r = Inicio => FALSE
        BY <1>1, <3>1, Constants DEF Typed, PedidosOK, Papel, Reservam
      <3> QED
        BY <1>5, <3>1, <3>2, <3>3, Constants DEF Inicial
    <2>4. CASE Liberar(r)
      <3>1. ped[r].pc = "libera" /\ Termina(r) /\ bd'.token \in {bd.token, Nenhum}
        BY <1>1, <2>4 DEF Liberar, Em, SemLease, Linha
      <3>2. /\ \A s \in Todos \ {r} : ped'[s] = ped[s]
            /\ ped'[r].pc = "fim" /\ ped'[r].op = ped[r].op /\ ped'[r].perdeu = ped[r].perdeu
        BY <1>1, <3>1, TerminaForma
      <3> QED
        BY <1>1, <1>2, <3>1, <3>2, UmSoBase
    <2>5. CASE Provar(r)
      <3>1. ped[r].pc = "prova" /\ bd'.token = bd.token
        BY <1>1, <2>5 DEF Provar, Em, Inspecionada, Linha
      <3>2. /\ \A s \in Todos \ {r} : ped'[s] = ped[s]
            /\ ped'[r].op = ped[r].op /\ ped'[r].perdeu = ped[r].perdeu
            /\ ped'[r].pc \in {"renova", "libera"}
        BY <1>1, <2>5, ProvarForma
      <3> QED
        BY <1>1, <1>2, <3>1, <3>2, UmSoBase
    <2>6. CASE Renovar(r)
      <3>1. ped[r].pc = "renova" /\ bd'.token = bd.token
        BY <1>1, <2>6 DEF Renovar, Em, Linha
      <3>2. /\ \A s \in Todos \ {r} : ped'[s] = ped[s]
            /\ ped'[r].op = ped[r].op /\ ped'[r].pc \in {"grava", "arquivo", "libera"}
            /\ bd.token = r \/ ped'[r].perdeu = ped[r].perdeu
        BY <1>1, <2>6, RenovarForma
      <3> QED
        BY <1>1, <1>2, <3>1, <3>2, UmSoBase
    <2>7. CASE GravarConfig(r)
      <3>1. ped[r].pc = "grava" /\ bd'.token = bd.token
        BY <1>1, <2>7 DEF GravarConfig, Em, Gravada, Linha
      <3>2. Mesmo(r) /\ ped'[r].pc \in {"desliga", "libera"}
        BY <1>1, <2>7, SegueMesmo, RespondeMesmo DEF GravarConfig
      <3> QED
        BY <1>5, <3>1, <3>2
    <2>8. CASE Desfazer(r)
      <3>1. ped[r].pc = "desfaz" /\ bd'.token = bd.token
        BY <1>1, <2>8 DEF Desfazer, Em, Gravada, Linha
      <3>2. CASE Responde(r, Relato(FALSE))
        BY <1>1, <1>5, <3>1, <3>2, RespondeMesmo
      <3>3. CASE ped' = [ped EXCEPT ![r].pc = "desliga", ![r].volta = TRUE]
        <4>1. /\ \A s \in Todos \ {r} : ped'[s] = ped[s]
              /\ ped'[r].op = ped[r].op /\ ped'[r].perdeu = ped[r].perdeu
              /\ ped'[r].pc = "desliga"
          BY <1>1, <3>3, DesfazerForma
        <4> QED
          BY <1>1, <1>2, <3>1, <4>1, UmSoBase
      <3> QED
        BY <2>8, <3>2, <3>3 DEF Desfazer
    <2>9. CASE GravarArquivo(r)
      <3>1. ped[r].pc = "arquivo" /\ bd'.token = bd.token
        BY <2>9 DEF GravarArquivo, Em
      <3>2. Mesmo(r) /\ ped'[r].pc \in {"marca", "libera"}
        BY <1>1, <2>9, SegueMesmo, RespondeMesmo DEF GravarArquivo
      <3> QED
        BY <1>5, <3>1, <3>2
    <2> QED
      BY <1>6, <2>1, <2>2, <2>3, <2>4, <2>5, <2>6, <2>7, <2>8, <2>9 DEF Passo
  <1>7. ASSUME NEW r \in Pedidos, NEW op \in Operacoes, Pedir(r, op) PROVE Base' /\ (Quase' => Quase)
    <2>1. /\ r \in Todos /\ \A s \in Todos \ {r} : ped'[s] = ped[s]
          /\ ped[r].pc = "fora" /\ ped[Inicio].pc = "fim"
          /\ ped'[r].op = op /\ ped'[r].perdeu = ped[r].perdeu
          /\ ped'[r].pc \in {"fim", "conecta", "restaura", "reserva"}
      BY <1>7, PedirForma
    <2>2. /\ bd' = bd /\ ~ped[r].perdeu /\ ped[r].op = Nenhum /\ op # Nenhum /\ bd.token # r
          /\ op \notin {"fora"}
      BY <1>7, <2>1, ConfigurationAssumption DEF Pedir, Base, Firme, Exclusivo, Operacoes
    <2>3. ped'[Inicio] = ped[Inicio]
      BY <1>3, <2>1, Constants
    <2>4. ASSUME NEW s \in Pedidos
          PROVE  /\ bd'.token = s => ped'[s].pc \notin {"fora", "reserva"}
                 /\ ped'[s].pc \in {"fora", "reserva"} => ~ped'[s].perdeu
                 /\ ped'[s].pc # "fora" => ped'[s].op # Nenhum
                 /\ Quase' => ped[s].op \notin {"TESTAR", "RESTAURAR"}
                 /\ Quase' /\ ped[s].perdeu => ped[s].pc \in {"prova", "renova"} /\ bd.token = s
      <3>1. CASE s = r
        BY <2>1, <2>2, <3>1, ConfigurationAssumption DEF Operacoes
      <3>2. CASE s # r
        <4>1. ped'[s] = ped[s]
          BY <1>3, <2>1, <3>2
        <4> QED
          BY <2>2, <4>1 DEF Base, Quase
      <3> QED
        BY <3>1, <3>2
    <2> QED
      BY <1>2, <2>1, <2>3, <2>4 DEF Base, Quase
  <1>8. CASE Executar
    <2> DEFINE t == Head(fila)
    <2>1. /\ bd'.token = bd.token /\ (t.dono = Nenhum => ped' = ped)
          /\ t.dono # Nenhum =>
               /\ t.dono \in Todos /\ ped[t.dono].pc = "fila" /\ Mesmo(t.dono)
               /\ ped'[t.dono].pc \in Segues
      BY <1>1, <1>8, ExecutarForma
    <2> HIDE DEF t
    <2>2. CASE t.dono = Nenhum
      BY <1>2, <2>1, <2>2, IgualBase
    <2>3. CASE t.dono # Nenhum
      BY <1>5, <2>1, <2>3 DEF Segues
    <2> QED
      BY <2>2, <2>3
  <1>9. CASE Cair \/ Voltar \/ Partida \/ FimDoProcesso \/ Encerrou
    <2>1. ped' = ped /\ bd' = bd
      BY <1>9 DEF Cair, Voltar, Partida, FimDoProcesso, Encerrou, vars
    <2> QED
      BY <1>2, <2>1, IgualBase
  <1>10. CASE Vencer
    <2>1. /\ bd.token \in Pedidos /\ bd'.token = bd.token
          /\ \A s \in Todos \ {bd.token} : ped'[s] = ped[s]
          /\ \A s \in Todos : ped'[s].op = ped[s].op /\ ped'[s].pc = ped[s].pc
          /\ ped'[bd.token].perdeu
      BY <1>1, <1>10, VencerForma
    <2>2. ASSUME NEW s \in Pedidos
          PROVE  /\ bd'.token = s => ped'[s].pc \notin {"fora", "reserva"}
                 /\ ped'[s].pc \in {"fora", "reserva"} => ~ped'[s].perdeu
                 /\ ped'[s].pc # "fora" => ped'[s].op # Nenhum
                 /\ Quase' => ped[s].op \notin {"TESTAR", "RESTAURAR"}
                 /\ Quase' /\ ped[s].perdeu => ped[s].pc \in {"prova", "renova"} /\ bd.token = s
      BY <1>3, <2>1 DEF Base, Quase
    <2>3. ped'[Inicio].pc # "fim" => \A s \in Pedidos : ped'[s].pc \in {"fora", "fim"}
      BY <1>3, <2>1, Constants DEF Base
    <2> QED
      BY <1>2, <2>2, <2>3 DEF Base, Quase
  <1>11. CASE Reiniciar
    <2>1. /\ bd'.token = bd.token
          /\ \A s \in Pedidos :
                /\ ped'[s].op = ped[s].op /\ ped'[s].pc \in {"fora", "fim"}
                /\ \/ ped'[s] = ped[s] /\ ped[s].pc \in {"fora", "fim"}
                   \/ ped'[s].pc = "fim" /\ ped'[s].perdeu /\ ped[s].pc \notin {"fora", "fim"}
      BY <1>1, <1>11, ReiniciarForma
    <2>2. ASSUME NEW s \in Pedidos
          PROVE  /\ bd'.token = s => ped'[s].pc \notin {"fora", "reserva"}
                 /\ ped'[s].pc \in {"fora", "reserva"} => ~ped'[s].perdeu
                 /\ ped'[s].pc # "fora" => ped'[s].op # Nenhum
                 /\ Quase' => ped[s].op \notin {"TESTAR", "RESTAURAR"}
                 /\ Quase' /\ ped[s].perdeu => ped[s].pc \in {"prova", "renova"} /\ bd.token = s
      BY <2>1 DEF Base, Quase
    <2> QED
      BY <1>2, <2>1, <2>2 DEF Base, Quase
  <1> QED
    BY <1>6, <1>7, <1>8, <1>9, <1>10, <1>11 DEF Next

\* A transition of an event of the client, and those of the client in use.
Evento(t) == t.dono = Nenhum /\ t.cli # 0
DoCliente(t) == t.cli = cliente.id /\ t.cfg = cliente.cfg
Eventos == \A k \in 1..Len(fila) : Evento(fila[k])
Quedas == \A k \in 1..Len(fila) : fila[k].status = "DESCONECTADO"
Proprios == \A k \in 1..Len(fila) : DoCliente(fila[k])
Ultimo == IF fila = <<>> THEN bd.status ELSE fila[Len(fila)].status

\* The steps within a transition of the connection, and those of an update
\* that follow the write of its candidate.
EmTransito == {"encerra", "fila", "le", "abre", "espera", "assina", "falha", "firma",
               "fecha", "fechando"}
Depois == EmTransito \cup {"desliga", "conecta", "confirma"}

\* Between transitions: no client and nothing of one, or the client of the
\* configuration that was applied, with only its own events in the queue.
Estavel ==
    /\ ~conectando /\ encerrando = 0 /\ Eventos
    /\ cliente = SemCliente =>
          /\ ~conectado /\ aplicada = Nenhum
          /\ bd.status = "CONECTADO" => ped[Inicio].pc = "conecta"
    /\ cliente # SemCliente =>
          aplicada = cliente.cfg /\ (cliente.vivo => conectado) /\ Proprios

\* That client has the configuration of the row, and the last word on the
\* state in the row is that it is connected while its link is up.
Coerente ==
    cliente # SemCliente => cliente.cfg = bd.cfg /\ (cliente.vivo => Ultimo = "CONECTADO")

\* The client in use is the one r opened, from the row and the file.
Aberto(r) ==
    /\ cliente.id # 0 /\ cliente.id = ped[r].cli
    /\ cliente.cfg = ped[r].cfg /\ cliente.cfg = bd.cfg /\ cliente.cred = arquivo

Conexao == conectando /\ encerrando = 0
\* r waits for the i-th transition of the queue, the only one not of an event.
Posta(r, i) ==
    /\ fila[i].dono = r /\ \A k \in 1..Len(fila) : k # i => Evento(fila[k])
    /\ fila[i].segue \in {"conecta", "libera", "abre", "firma", "fecha"}
    /\ fila[i].segue \in {"conecta", "libera"} =>
          /\ cliente = SemCliente /\ encerrando = 0 /\ ~conectando /\ ~conectado
          /\ aplicada = Nenhum
          /\ i = Len(fila) /\ fila[i].cli = 0 /\ fila[i].cfg = Nenhum
          /\ fila[i].status = "DESCONECTADO"
    /\ fila[i].segue = "abre" =>
          /\ Conexao /\ ~cliente.vivo /\ i = Len(fila) /\ fila[i].cli = 0
          /\ fila[i].cfg = bd.cfg /\ ped[r].cfg = bd.cfg /\ ped[r].cred = arquivo
    /\ fila[i].segue = "firma" =>
          /\ Conexao /\ i = 1 /\ Aberto(r) /\ Proprios
          /\ fila[i].status = "CONECTADO"
          /\ \A k \in 2..Len(fila) : fila[k].status = "DESCONECTADO"
          /\ cliente.vivo => Len(fila) = 1
    /\ fila[i].segue = "fecha" =>
          /\ Conexao /\ fila[i].cli = 0 /\ fila[i].cfg = bd.cfg /\ fila[i].status = "FALHA"
          /\ \A k \in (i + 1)..Len(fila) : fila[k].status = "DESCONECTADO"

\* What holds at each step of the request that is at work.
Fase(r) ==
    /\ ped[r].op = "CONFIG" /\ ~ped[r].volta /\ ped[r].pc \in Depois => bd.cfg = Nova
    /\ ped[r].op = "CONFIG" /\ ped[r].pc = "conecta" => cliente = SemCliente
    /\ ped[r].pc = "confirma" =>
          ~ped[r].volta /\ (ped[r].sucesso => cliente # SemCliente /\ cliente.cred = arquivo)
    /\ ped[r].pc = "encerra" =>
          /\ encerrando = cliente.id /\ ped[r].cli = cliente.id /\ cliente.id # 0
          /\ ~conectando /\ Eventos
    /\ ped[r].pc = "fila" => \E i \in 1..Len(fila) : Posta(r, i)
    /\ ped[r].pc = "le" => Conexao /\ ~cliente.vivo /\ Eventos
    /\ ped[r].pc = "abre" =>
          /\ Conexao /\ ~cliente.vivo /\ fila = <<>>
          /\ ped[r].cfg = bd.cfg /\ ped[r].cred = arquivo
    /\ ped[r].pc = "espera" => Conexao /\ ~cliente.vivo /\ fila = <<>> /\ Aberto(r)
    /\ ped[r].pc \in {"assina", "firma"} =>
          /\ Conexao /\ Aberto(r) /\ Eventos /\ Quedas /\ Proprios
          /\ cliente.vivo => fila = <<>> /\ (ped[r].pc = "firma" => bd.status = "CONECTADO")
    /\ ped[r].pc # "falha"
    /\ ped[r].pc = "fecha" => Conexao /\ Eventos /\ Quedas /\ bd.status # "CONECTADO"
    /\ ped[r].pc = "fechando" =>
          encerrando = cliente.id /\ cliente.id # 0 /\ Eventos /\ bd.status # "CONECTADO"

Parados == \A r \in Todos : ped[r].pc \notin EmTransito
SemCandidata == \A r \in Todos : ~(ped[r].op = "CONFIG" /\ ped[r].pc = "desliga")
Corpo ==
    /\ Parados => Estavel
    /\ Parados /\ SemCandidata => Coerente
    /\ \A r \in Todos : Fase(r)
Enlace == Quase => Corpo

\* The request at work, and what it works at.
LEMMA AtivaSo ==
    ASSUME Firme, Base, Quase, NEW r \in Todos, ped[r].pc \notin Passivos
    PROVE  /\ \A s \in Todos \ {r} : ped[s].pc \in Passivos
           /\ ped[r].op \in {"CONFIG", "CREDENCIAL", "RECONECTAR", "DESCONECTAR", "COMANDAR", "INICIAR"}
  <1>1. Typed /\ Arrendamento
    BY DEF Firme
  <1>2. \A s \in Todos \ {r} : ped[s].pc \in Passivos
    BY <1>1, Sozinho
  <1>3. CASE r = Inicio
    BY <1>1, <1>2, <1>3 DEF Typed, PedidosOK
  <1>4. CASE r \in Pedidos
    <2>1. ped[r].op \in Operacoes \cup {Nenhum} /\ ped[r].op \notin {"TESTAR", "RESTAURAR", Nenhum}
      BY <1>1, <1>4 DEF Typed, PedidosOK, Quase, Base, Passivos
    <2> QED
      BY <1>2, <2>1 DEF Operacoes
  <1> QED
    BY <1>3, <1>4, Constants

\* A request at work took a step: what is left to know of the others.
LEMMA Enlaca ==
    ASSUME NEW r \in Todos, \A s \in Todos \ {r} : ped'[s].pc \in Passivos,
           Fase(r)', ped'[r].pc \notin EmTransito => Estavel',
           ped'[r].pc \notin EmTransito /\ ~(ped'[r].op = "CONFIG" /\ ped'[r].pc = "desliga")
             => Coerente'
    PROVE  Corpo'
  <1>1. ASSUME NEW s \in Todos \ {r} PROVE Fase(s)'
    <2>1. ped'[s].pc \in Passivos
      OBVIOUS
    <2> QED
      BY <2>1 DEF Fase, Passivos, Depois, EmTransito
  <1>2. \A s \in Todos : Fase(s)'
    BY <1>1
  <1> QED
    BY <1>2 DEF Corpo, Parados, SemCandidata

\* A step that leaves the connection alone.
Mudo ==
    /\ UNCHANGED <<cliente, encerrando, conectando, conectado, aplicada, fila, arquivo>>
    /\ bd'.cfg = bd.cfg /\ bd'.status = bd.status
\* A step of a request of which Fase asks nothing.
Quieta(p) ==
    p.pc \notin EmTransito \cup {"confirma"} /\ (p.op = "CONFIG" => p.pc \notin {"desliga", "conecta"})
Igual(p, q) ==
    /\ q.pc = p.pc /\ q.op = p.op /\ q.cfg = p.cfg /\ q.cred = p.cred /\ q.cli = p.cli
    /\ q.volta = p.volta /\ q.sucesso = p.sucesso

LEMMA MudoEnlace ==
    ASSUME Corpo, Mudo, ped[Inicio].pc = "conecta" => ped'[Inicio].pc = "conecta",
           \A s \in Todos :
              \/ Igual(ped[s], ped'[s])
              \/ Quieta(ped'[s]) /\ (Quieta(ped[s]) \/ ped[s].pc = "confirma")
    PROVE  Corpo'
  <1>1. /\ cliente' = cliente /\ encerrando' = encerrando /\ conectando' = conectando
        /\ conectado' = conectado /\ aplicada' = aplicada /\ fila' = fila /\ arquivo' = arquivo
        /\ bd'.cfg = bd.cfg /\ bd'.status = bd.status
    BY DEF Mudo
  <1>2. Parados' => Parados
    BY DEF Parados, Igual, Quieta, EmTransito
  <1>3. SemCandidata' => SemCandidata
    BY DEF SemCandidata, Igual, Quieta
  <1>4. Parados' => Estavel'
    <2>1. Estavel => Estavel'
      BY <1>1 DEF Estavel, Eventos, Proprios, Evento, DoCliente
    <2> QED
      BY <1>2, <2>1 DEF Corpo
  <1>5. Parados' /\ SemCandidata' => Coerente'
    <2>1. Coerente => Coerente'
      BY <1>1 DEF Coerente, Ultimo
    <2> QED
      BY <1>2, <1>3, <2>1 DEF Corpo
  <1>6. ASSUME NEW s \in Todos, Igual(ped[s], ped'[s]) PROVE Fase(s)'
    <2>1. Fase(s)
      BY DEF Corpo
    <2>2. Eventos' = Eventos /\ Quedas' = Quedas /\ Proprios' = Proprios /\ Conexao' = Conexao
          /\ Aberto(s)' = Aberto(s)
      BY <1>1, <1>6 DEF Eventos, Quedas, Proprios, Evento, DoCliente, Conexao, Aberto, Igual
    <2>3. ASSUME NEW i \in 1..Len(fila), Posta(s, i) PROVE Posta(s, i)'
      BY <1>1, <1>6, <2>2, <2>3 DEF Posta, Igual, Evento
    <2>4. ped[s].pc = "fila" => \E i \in 1..Len(fila') : Posta(s, i)'
      BY <1>1, <2>1, <2>3 DEF Fase
    <2> QED
      BY <1>1, <1>6, <2>1, <2>2, <2>4 DEF Fase, Igual
  <1>7. ASSUME NEW s \in Todos, Quieta(ped'[s]) PROVE Fase(s)'
    <2>1. Quieta(ped'[s])
      BY <1>7
    <2>2. ped'[s].pc \notin {"falha", "encerra", "confirma", "fila", "le", "abre", "espera",
                            "assina", "firma", "fecha", "fechando"}
      BY <2>1 DEF Quieta, EmTransito
    <2>3. ~(ped'[s].op = "CONFIG" /\ ped'[s].pc \in Depois)
      BY <2>1 DEF Quieta, Depois
    <2> QED
      BY <2>2, <2>3 DEF Fase, Depois
  <1> QED
    BY <1>4, <1>5, <1>6, <1>7 DEF Corpo

\* A connect that returns, to an operation at work.
LEMMA RetornaForma ==
    ASSUME Typed, NEW r \in Todos, ped[r].pc \in DaConexao, ped[r].op # "TESTAR",
           NEW ok \in BOOLEAN, Retorna(r, ok)
    PROVE  /\ \A s \in Todos \ {r} : ped'[s] = ped[s]
           /\ ped'[r].op = ped[r].op
           /\ \/ ped'[r].pc = "fim"
              \/ ped'[r].pc \in {"libera", "publica", "restaurada"}
              \/ /\ ped'[r].pc = "confirma" /\ ped[r].op = "CONFIG" /\ ~ped[r].volta
                 /\ ~ped'[r].volta /\ ped'[r].sucesso = ok
  <1>1. ped \in [Todos -> Pedido] /\ ped[r] \in Pedido /\ ped[r].op \in Conectam
    BY DEF Typed, PedidosOK, Papel
  <1>2. CASE ped[r].op \in {"TESTAR", "INICIAR"}
    <2>1. Termina(r)
      BY <1>2 DEF Retorna
    <2> QED
      BY <2>1, TerminaForma
  <1>3. CASE ped[r].op \notin {"TESTAR", "INICIAR"}
    <2> DEFINE pc == IF ~ok /\ ped[r].op = "COMANDAR" THEN "libera" ELSE AposConectar(r)
               p == [ped[r] EXCEPT !.sucesso = ok, !.pc = pc]
    <2>1. \/ pc \in {"libera", "publica", "restaurada"}
          \/ pc = "confirma" /\ ped[r].op = "CONFIG" /\ ~ped[r].volta
      BY <1>1, <1>3 DEF AposConectar, Conectam
    <2>2. ped' = [ped EXCEPT ![r] = p]
      BY <1>3 DEF Retorna
    <2> HIDE DEF pc
    <2>3. p.pc = pc /\ p.op = ped[r].op /\ p.volta = ped[r].volta /\ p.sucesso = ok
      BY <1>1 DEF Pedido
    <2> HIDE DEF p
    <2> QED
      BY <1>1, <2>1, <2>2, <2>3
  <1> QED
    BY <1>2, <1>3

LEMMA RetornaFase ==
    ASSUME Firme, Base, Quase, Corpo, NEW r \in Todos, ped[r].pc \in DaConexao,
           NEW ok \in BOOLEAN, Retorna(r, ok), bd'.cfg = bd.cfg, arquivo' = arquivo,
           ok /\ ped[r].op = "CONFIG" => cliente' # SemCliente /\ cliente'.cred = arquivo,
           Estavel', Coerente'
    PROVE  Corpo'
  <1>1. ped[r].pc \notin Passivos
    BY DEF DaConexao, Passivos
  <1>2. Typed /\ \A s \in Todos \ {r} : ped[s].pc \in Passivos
    BY <1>1, AtivaSo DEF Firme
  <1>3. ped[r].op # "TESTAR"
    BY <1>1, AtivaSo
  <1>4. /\ \A s \in Todos \ {r} : ped'[s] = ped[s]
        /\ ped'[r].op = ped[r].op
        /\ \/ ped'[r].pc = "fim"
           \/ ped'[r].pc \in {"libera", "publica", "restaurada"}
           \/ /\ ped'[r].pc = "confirma" /\ ped[r].op = "CONFIG" /\ ~ped[r].volta
              /\ ~ped'[r].volta /\ ped'[r].sucesso = ok
    BY <1>2, <1>3, RetornaForma
  <1>5. ped[r].op = "CONFIG" /\ ~ped[r].volta => bd.cfg = Nova
    BY DEF Corpo, Fase, DaConexao, Depois, EmTransito
  <1>6. Fase(r)'
    BY <1>4, <1>5 DEF Fase, Depois, EmTransito
  <1> QED
    BY <1>2, <1>4, <1>6, Enlaca

\* The queue with one more transition, and without its first.
LEMMA Junta ==
    ASSUME NEW S, NEW q \in Seq(S), NEW t
    PROVE  /\ Len(q) \in Nat /\ Len(Append(q, t)) = Len(q) + 1
           /\ \A k \in 1..Len(q) : Append(q, t)[k] = q[k]
           /\ Append(q, t)[Len(q) + 1] = t
  <1> DEFINE T == S \cup {t}
  <1>1. q \in Seq(T)
    BY SeqDef
  <1>2. t \in T
    OBVIOUS
  <1> HIDE DEF T
  <1> QED
    BY <1>1, <1>2, AppendProperties, LenProperties

LEMMA Solta ==
    ASSUME NEW S, NEW q \in Seq(S), q # <<>>
    PROVE  /\ Len(q) \in Nat \ {0} /\ Head(q) = q[1] /\ Len(Tail(q)) = Len(q) - 1
           /\ \A k \in 1..Len(Tail(q)) : Tail(q)[k] = q[k + 1] /\ k + 1 \in 1..Len(q)
           /\ Len(q) = 1 <=> Tail(q) = <<>>
  <1>1. Len(q) \in Nat \ {0}
    BY EmptySeq
  <1>2. /\ Head(q) = q[1]
        /\ Tail(q) \in Seq(S) /\ Len(Tail(q)) = Len(q) - 1
        /\ \A k \in 1..Len(Tail(q)) : Tail(q)[k] = q[k + 1]
    BY <1>1, HeadTailProperties
  <1>3. \A k \in 1..Len(Tail(q)) : k + 1 \in 1..Len(q)
    BY <1>1, <1>2
  <1>4. Len(Tail(q)) = 0 <=> Tail(q) = <<>>
    <2> DEFINE u == Tail(q)
    <2>1. u \in Seq(S)
      BY <1>2
    <2> HIDE DEF u
    <2>2. Len(u) = 0 <=> u = <<>>
      BY <2>1, EmptySeq
    <2> QED
      BY <2>2 DEF u
  <1> QED
    BY <1>1, <1>2, <1>3, <1>4

\* What is known of a request at work.
LEMMA Contexto ==
    ASSUME Firme, Base, Quase, Corpo, NEW r \in Todos, ped[r].pc \notin Passivos
    PROVE  /\ Typed /\ ped \in [Todos -> Pedido] /\ ped[r] \in Pedido /\ Papel(ped[r])
           /\ bd \in Linha /\ fila \in Seq(Entrada) /\ Len(fila) \in Nat /\ cliente \in Cliente
           /\ SemCliente.id = 0 /\ SemCliente.vivo = FALSE
           /\ cliente.id = 0 <=> cliente = SemCliente
           /\ \A s \in Todos \ {r} : ped[s].pc \in Passivos
           /\ ped[r].op \in {"CONFIG", "CREDENCIAL", "RECONECTAR", "DESCONECTAR", "COMANDAR", "INICIAR"}
           /\ Fase(r) /\ r # Nenhum
           /\ ped[r].pc \notin EmTransito => Estavel
           /\ ped[r].pc \notin EmTransito /\ ~(ped[r].op = "CONFIG" /\ ped[r].pc = "desliga")
                => Coerente
  <1>1. /\ Typed /\ ped \in [Todos -> Pedido] /\ ped[r] \in Pedido /\ Papel(ped[r])
        /\ bd \in Linha /\ fila \in Seq(Entrada) /\ cliente \in Cliente
    BY DEF Firme, Typed, PedidosOK, LinhaOK, FilaOK
  <1>2. Len(fila) \in Nat
    BY <1>1, LenProperties
  <1>3. SemCliente.id = 0 /\ SemCliente.vivo = FALSE
    BY DEF SemCliente
  <1>4. /\ \A s \in Todos \ {r} : ped[s].pc \in Passivos
        /\ ped[r].op \in {"CONFIG", "CREDENCIAL", "RECONECTAR", "DESCONECTAR", "COMANDAR", "INICIAR"}
    BY AtivaSo
  <1>5. \A s \in Todos \ {r} : ped[s].pc \notin EmTransito \cup {"desliga"}
    BY <1>4 DEF Passivos, EmTransito
  <1> QED
    BY <1>1, <1>2, <1>3, <1>4, <1>5, Constants DEF Base, Corpo, Parados, SemCandidata

LEMMA ConectarEnlace ==
    ASSUME Firme, Base, Quase, Corpo, NEW r \in Todos, Conectar(r)
    PROVE  Corpo'
  <1>1. ped[r].pc = "conecta" /\ ped[r].pc \notin Passivos /\ ped[r].pc \notin EmTransito
        /\ ped[r].pc \in DaConexao
    BY DEF Conectar, Em, Passivos, EmTransito, DaConexao
  <1>2. /\ Typed /\ Estavel /\ Coerente /\ Fase(r) /\ cliente \in Cliente
        /\ SemCliente.vivo = FALSE
        /\ \A s \in Todos \ {r} : ped[s].pc \in Passivos
    BY <1>1, Contexto
  <1>3. /\ bd' = bd /\ arquivo' = arquivo /\ cliente' = cliente /\ encerrando' = encerrando
        /\ conectado' = conectado /\ aplicada' = aplicada /\ fila' = fila
    BY DEF Conectar
  <1>4. CASE conectado /\ cliente # SemCliente /\ Retorna(r, TRUE) /\ UNCHANGED conectando
    <2>1. Estavel'
      BY <1>2, <1>3, <1>4 DEF Estavel, Eventos, Proprios, Evento, DoCliente
    <2>2. Coerente'
      BY <1>2, <1>3 DEF Coerente, Ultimo
    <2>3. ped[r].op # "CONFIG"
      BY <1>1, <1>2, <1>4 DEF Fase
    <2> QED
      BY <1>1, <1>3, <1>4, <2>1, <2>2, <2>3, RetornaFase
  <1>5. CASE ~(conectado /\ cliente # SemCliente) /\ Segue(r, "le") /\ conectando' = TRUE
    <2>1. Mesmo(r) /\ ped'[r].pc = "le"
      BY <1>2, <1>5, SegueMesmo
    <2>2. ~cliente.vivo
      BY <1>2, <1>5 DEF Estavel
    <2>3. Conexao' /\ Eventos'
      BY <1>2, <1>3, <1>5 DEF Conexao, Estavel, Eventos, Evento
    <2>4. Fase(r)'
      BY <1>1, <1>2, <1>3, <2>1, <2>2, <2>3 DEF Fase, Mesmo, Depois, EmTransito
    <2> QED
      BY <1>2, <2>1, <2>4, Enlaca DEF Mesmo, EmTransito
  <1> QED
    BY <1>2, <1>4, <1>5 DEF Conectar, Estavel

LEMMA LerEnlace ==
    ASSUME Firme, Base, Quase, Corpo, NEW r \in Todos, Ler(r)
    PROVE  Corpo'
  <1>1. ped[r].pc = "le" /\ ped[r].pc \notin Passivos
    BY DEF Ler, Em, Passivos
  <1>2. /\ Fase(r) /\ fila \in Seq(Entrada) /\ Len(fila) \in Nat /\ bd \in Linha
        /\ ped \in [Todos -> Pedido] /\ ped[r] \in Pedido /\ r # Nenhum
        /\ \A s \in Todos \ {r} : ped[s].pc \in Passivos
    BY <1>1, Contexto
  <1> DEFINE t == IF arquivo = Nenhum THEN Falhou(r, bd.cfg, "")
                  ELSE Transicao(r, "RECONECTANDO", bd.cfg, 0, "", "abre", "falha")
             p == [[ped[r] EXCEPT !.cfg = bd.cfg, !.cred = arquivo] EXCEPT !.pc = "fila"]
  <1>15. PICK n : n = Len(fila) + 1
    OBVIOUS
  <1>3. /\ arquivo' = arquivo /\ cliente' = cliente /\ encerrando' = encerrando
        /\ conectando' = conectando
        /\ fila' = Append(fila, t) /\ ped' = [ped EXCEPT ![r] = p]
    BY DEF Ler, Enfileira, memoria
  <1>4. bd'.cfg = bd.cfg
    BY <1>2 DEF Ler, Inspecionada, Linha
  <1>5. p.pc = "fila" /\ p.op = ped[r].op /\ p.volta = ped[r].volta /\ p.cfg = bd.cfg /\ p.cred = arquivo
    BY <1>2 DEF Pedido
  <1>6. /\ t.dono = r /\ t.cli = 0 /\ t.cfg = bd.cfg
        /\ \/ t.segue = "fecha" /\ t.status = "FALHA"
           \/ t.segue = "abre"
    BY DEF Falhou, Transicao
  <1> HIDE DEF t, p
  <1>7. /\ Len(fila') = n /\ fila'[n] = t
        /\ \A k \in 1..Len(fila) : fila'[k] = fila[k]
    BY <1>2, <1>3, <1>15, Junta
  <1>8. ped'[r] = p /\ \A s \in Todos \ {r} : ped'[s] = ped[s]
    BY <1>2, <1>3
  <1>9. Conexao /\ ~cliente.vivo /\ Eventos
    BY <1>1, <1>2 DEF Fase
  <1>10. Conexao'
    BY <1>3, <1>9 DEF Conexao
  <1>11. \A k \in 1..Len(fila') : k # n => Evento(fila'[k])
    BY <1>2, <1>7, <1>9, <1>15 DEF Eventos
  <1>12. Posta(r, n)'
    BY <1>2, <1>3, <1>4, <1>5, <1>6, <1>7, <1>8, <1>9, <1>10, <1>11, <1>15 DEF Posta
  <1>13. n \in 1..Len(fila')
    BY <1>2, <1>7, <1>15
  <1>14. Fase(r)'
    BY <1>1, <1>2, <1>4, <1>5, <1>8, <1>12, <1>13 DEF Fase, Depois, EmTransito
  <1> QED
    BY <1>2, <1>5, <1>8, <1>14, Enlaca DEF EmTransito

LEMMA AbrirEnlace ==
    ASSUME Firme, Base, Quase, Corpo, NEW r \in Todos, Abrir(r)
    PROVE  Corpo'
  <1>1. ped[r].pc = "abre" /\ ped[r].pc \notin Passivos
    BY DEF Abrir, Em, Passivos
  <1>2. /\ Fase(r) /\ ped \in [Todos -> Pedido] /\ ped[r] \in Pedido /\ resta.id # 0
        /\ \A s \in Todos \ {r} : ped[s].pc \in Passivos
    BY <1>1, Contexto DEF Typed
  <1> DEFINE p == [ped[r] EXCEPT !.pc = "espera", !.cli = resta.id]
  <1>3. /\ bd' = bd /\ arquivo' = arquivo /\ encerrando' = encerrando /\ conectando' = conectando
        /\ fila' = fila /\ ped' = [ped EXCEPT ![r] = p]
        /\ cliente' = [id |-> resta.id, cfg |-> ped[r].cfg, cred |-> ped[r].cred, vivo |-> FALSE]
    BY DEF Abrir
  <1>4. /\ p.pc = "espera" /\ p.op = ped[r].op /\ p.volta = ped[r].volta /\ p.cfg = ped[r].cfg
        /\ p.cli = resta.id
    BY <1>2 DEF Pedido
  <1> HIDE DEF p
  <1>5. ped'[r] = p /\ \A s \in Todos \ {r} : ped'[s] = ped[s]
    BY <1>2, <1>3
  <1>6. Conexao /\ fila = <<>> /\ ped[r].cfg = bd.cfg /\ ped[r].cred = arquivo
    BY <1>1, <1>2 DEF Fase
  <1>7. Conexao' /\ Aberto(r)' /\ ~cliente'.vivo
    BY <1>2, <1>3, <1>4, <1>5, <1>6 DEF Conexao, Aberto
  <1>8. Fase(r)'
    BY <1>1, <1>2, <1>3, <1>4, <1>5, <1>6, <1>7 DEF Fase, Depois, EmTransito
  <1> QED
    BY <1>2, <1>4, <1>5, <1>8, Enlaca DEF EmTransito

LEMMA AceitoEnlace ==
    ASSUME Firme, Base, Quase, Corpo, NEW r \in Todos, Aceito(r)
    PROVE  Corpo'
  <1>1. ped[r].pc = "espera" /\ ped[r].pc \notin Passivos
    BY DEF Aceito, Em, Passivos
  <1>2. /\ Fase(r) /\ Typed /\ cliente \in Cliente
        /\ \A s \in Todos \ {r} : ped[s].pc \in Passivos
    BY <1>1, Contexto
  <1>3. Conexao /\ fila = <<>> /\ Aberto(r)
    BY <1>1, <1>2 DEF Fase
  <1>4. /\ bd' = bd /\ arquivo' = arquivo /\ encerrando' = encerrando /\ conectando' = conectando
        /\ fila' = fila /\ Segue(r, "assina") /\ cliente' = [cliente EXCEPT !.vivo = TRUE]
    BY <1>3 DEF Aceito, Conexao
  <1>5. Mesmo(r) /\ ped'[r].pc = "assina"
    BY <1>2, <1>4, SegueMesmo
  <1>6. /\ cliente'.id = cliente.id /\ cliente'.cfg = cliente.cfg /\ cliente'.cred = cliente.cred
    BY <1>2, <1>4 DEF Cliente
  <1>7. Conexao' /\ Aberto(r)'
    BY <1>3, <1>4, <1>5, <1>6 DEF Conexao, Aberto, Mesmo
  <1>8. fila' = <<>> /\ Eventos' /\ Quedas' /\ Proprios'
    <2>1. fila' = <<>> /\ Len(fila') = 0
      BY <1>3, <1>4
    <2> QED
      BY <2>1 DEF Eventos, Quedas, Proprios
  <1>9. Fase(r)'
    BY <1>1, <1>2, <1>4, <1>5, <1>7, <1>8 DEF Fase, Mesmo, Depois, EmTransito
  <1> QED
    BY <1>2, <1>5, <1>9, Enlaca DEF Mesmo, EmTransito

LEMMA AssinarEnlace ==
    ASSUME Firme, Base, Quase, Corpo, NEW r \in Todos, Assinar(r)
    PROVE  Corpo'
  <1>1. ped[r].pc = "assina" /\ ped[r].pc \notin Passivos
    BY DEF Assinar, Em, Passivos
  <1>2. /\ Fase(r) /\ Typed /\ fila \in Seq(Entrada) /\ r # Nenhum
        /\ \A s \in Todos \ {r} : ped[s].pc \in Passivos
    BY <1>1, Contexto
  <1> DEFINE t == Transicao(r, "CONECTADO", ped[r].cfg, cliente.id, "VERIFICADA", "firma", "falha")
  <1>3. /\ bd' = bd /\ arquivo' = arquivo /\ cliente' = cliente /\ encerrando' = encerrando
        /\ conectando' = conectando /\ Enfileira(r, t, ped[r]) /\ cliente.vivo
    BY DEF Assinar, memoria
  <1>4. Conexao /\ fila = <<>> /\ Aberto(r)
    BY <1>1, <1>2, <1>3 DEF Fase
  <1>5. t.dono = r /\ t.segue = "firma" /\ t.status = "CONECTADO" /\ t.cli = cliente.id /\ t.cfg = ped[r].cfg
    BY DEF Transicao
  <1> HIDE DEF t
  <1>6. Mesmo(r) /\ ped'[r].pc = "fila" /\ fila' = Append(fila, t)
    BY <1>2, <1>3, EnfileiraMesmo
  <1>7. Len(fila') = 1 /\ fila'[1] = t
    <2>1. Len(fila) = 0
      BY <1>4
    <2> QED
      BY <1>2, <1>6, <2>1, Junta
  <1>8. Conexao' /\ Aberto(r)' /\ Proprios'
    <2>1. Conexao' /\ Aberto(r)'
      BY <1>3, <1>4, <1>6 DEF Conexao, Aberto, Mesmo
    <2>2. t.cli = cliente'.id /\ t.cfg = cliente'.cfg
      BY <1>3, <1>4, <1>5 DEF Aberto
    <2>3. Proprios'
      BY <1>7, <2>2 DEF Proprios, DoCliente
    <2> QED
      BY <2>1, <2>3
  <1>9. Posta(r, 1)'
    BY <1>5, <1>7, <1>8 DEF Posta
  <1>10. Fase(r)'
    BY <1>1, <1>2, <1>3, <1>6, <1>7, <1>9 DEF Fase, Mesmo, Depois, EmTransito
  <1> QED
    BY <1>2, <1>6, <1>10, Enlaca DEF Mesmo, EmTransito

LEMMA FalharEnlace ==
    ASSUME Firme, Base, Quase, Corpo, NEW r \in Todos, Falhar(r)
    PROVE  Corpo'
  <1>1. ped[r].pc \in {"espera", "assina", "falha"} /\ ped[r].pc \notin Passivos
    BY DEF Falhar, Passivos
  <1>2. /\ Fase(r) /\ Typed /\ fila \in Seq(Entrada) /\ Len(fila) \in Nat /\ r # Nenhum
        /\ \A s \in Todos \ {r} : ped[s].pc \in Passivos
    BY <1>1, Contexto
  <1>3. PICK recusa : Enfileira(r, Falhou(r, ped[r].cfg, recusa), ped[r])
    BY DEF Falhar
  <1>4. /\ bd' = bd /\ arquivo' = arquivo /\ cliente' = cliente /\ encerrando' = encerrando
        /\ conectando' = conectando
    BY DEF Falhar
  <1> DEFINE t == Falhou(r, ped[r].cfg, recusa)
  <1>16. PICK n : n = Len(fila) + 1
    OBVIOUS
  <1>5. t.dono = r /\ t.segue = "fecha" /\ t.status = "FALHA" /\ t.cli = 0 /\ t.cfg = ped[r].cfg
    BY DEF Falhou, Transicao
  <1>6. Enfileira(r, t, ped[r])
    BY <1>3
  <1> HIDE DEF t
  <1>7. Mesmo(r) /\ ped'[r].pc = "fila" /\ fila' = Append(fila, t)
    BY <1>2, <1>6, EnfileiraMesmo
  <1>8. /\ Len(fila') = n /\ fila'[n] = t
        /\ \A k \in 1..Len(fila) : fila'[k] = fila[k]
    BY <1>2, <1>7, <1>16, Junta
  <1>9. Conexao /\ Aberto(r) /\ Eventos
    <2>1. CASE ped[r].pc = "espera"
      <3>1. Conexao /\ Aberto(r) /\ fila = <<>>
        BY <1>2, <2>1 DEF Fase
      <3>2. Len(fila) = 0
        BY <3>1
      <3> QED
        BY <3>1, <3>2 DEF Eventos
    <2>2. CASE ped[r].pc = "assina"
      BY <1>2, <2>2 DEF Fase
    <2> QED
      BY <1>1, <1>2, <2>1, <2>2 DEF Fase
  <1>10. Conexao'
    BY <1>4, <1>9 DEF Conexao
  <1>17. \A k \in 1..Len(fila) : Evento(fila[k])
    BY <1>9 DEF Eventos
  <1>11. \A k \in 1..Len(fila') : k # n => Evento(fila'[k])
    <2>1. Len(fila) \in Nat
      BY <1>2
    <2> QED
      BY <2>1, <1>8, <1>16, <1>17
  <1>12. t.cfg = bd'.cfg
    BY <1>4, <1>5, <1>9 DEF Aberto
  <1>13. Posta(r, n)'
    BY <1>2, <1>5, <1>8, <1>10, <1>11, <1>12, <1>16 DEF Posta
  <1>14. n \in 1..Len(fila')
    BY <1>2, <1>8, <1>16
  <1>15. Fase(r)'
    BY <1>1, <1>2, <1>4, <1>7, <1>13, <1>14 DEF Fase, Mesmo, Depois, EmTransito
  <1> QED
    BY <1>2, <1>7, <1>15, Enlaca DEF Mesmo, EmTransito

LEMMA FirmarEnlace ==
    ASSUME Firme, Base, Quase, Corpo, NEW r \in Todos, Firmar(r)
    PROVE  Corpo'
  <1>1. ped[r].pc = "firma" /\ ped[r].pc \notin Passivos /\ ped[r].pc \in DaConexao
    BY DEF Firmar, Em, Passivos, DaConexao
  <1>2. Fase(r) /\ (cliente.id = 0 <=> cliente = SemCliente)
    BY <1>1, Contexto
  <1>3. /\ bd' = bd /\ arquivo' = arquivo /\ cliente' = cliente /\ encerrando' = encerrando
        /\ fila' = fila /\ conectado' = TRUE /\ aplicada' = ped[r].cfg /\ conectando' = FALSE
        /\ Retorna(r, TRUE)
    BY DEF Firmar
  <1>4. /\ Conexao /\ Aberto(r) /\ Eventos /\ Proprios
        /\ cliente.vivo => fila = <<>> /\ bd.status = "CONECTADO"
    BY <1>1, <1>2 DEF Fase
  <1>5. cliente # SemCliente /\ cliente.cred = arquivo /\ cliente.cfg = bd.cfg
        /\ cliente.cfg = ped[r].cfg
    BY <1>2, <1>4 DEF Aberto
  <1>6. Estavel'
    <2>1. Eventos' /\ Proprios'
      BY <1>3, <1>4 DEF Eventos, Proprios, Evento, DoCliente
    <2> QED
      BY <1>3, <1>4, <1>5, <2>1 DEF Estavel, Conexao
  <1>7. Coerente'
    BY <1>3, <1>4, <1>5 DEF Coerente, Ultimo
  <1> QED
    BY <1>1, <1>3, <1>5, <1>6, <1>7, RetornaFase

\* The client cleared: nothing of it is left but its events in the queue.
LEMMA LimpaEstavel ==
    ASSUME cliente' = SemCliente, encerrando' = 0, ~conectado', ~conectando', aplicada' = Nenhum,
           fila' = fila, Eventos, bd'.status # "CONECTADO"
    PROVE  Estavel' /\ Coerente'
  BY DEF Estavel, Coerente, Eventos, Evento

LEMMA FecharEnlace ==
    ASSUME Firme, Base, Quase, Corpo, NEW r \in Todos, Fechar(r)
    PROVE  Corpo'
  <1>1. ped[r].pc = "fecha" /\ ped[r].pc \notin Passivos /\ ped[r].pc \in DaConexao
    BY DEF Fechar, Em, Passivos, DaConexao
  <1>2. /\ Fase(r) /\ Typed /\ (cliente.id = 0 <=> cliente = SemCliente)
        /\ \A s \in Todos \ {r} : ped[s].pc \in Passivos
    BY <1>1, Contexto
  <1>3. bd' = bd /\ arquivo' = arquivo /\ fila' = fila
    BY DEF Fechar
  <1>4. Conexao /\ Eventos /\ bd.status # "CONECTADO"
    BY <1>1, <1>2 DEF Fase
  <1>5. CASE cliente = SemCliente
    <2>1. /\ cliente' = SemCliente /\ encerrando' = 0 /\ ~conectado' /\ ~conectando'
          /\ aplicada' = Nenhum /\ Retorna(r, FALSE)
      BY <1>4, <1>5 DEF Fechar, LimpaCliente, Conexao
    <2>2. Estavel' /\ Coerente'
      BY <1>3, <1>4, <2>1, LimpaEstavel
    <2> QED
      BY <1>1, <1>3, <2>1, <2>2, RetornaFase
  <1>6. CASE cliente # SemCliente
    <2>1. encerrando' = cliente.id /\ Segue(r, "fechando") /\ cliente' = cliente
      BY <1>6 DEF Fechar
    <2>2. Mesmo(r) /\ ped'[r].pc = "fechando"
      BY <1>2, <2>1, SegueMesmo
    <2>3. Eventos'
      BY <1>3, <1>4 DEF Eventos, Evento
    <2>4. Fase(r)'
      BY <1>1, <1>2, <1>3, <1>4, <1>6, <2>1, <2>2, <2>3 DEF Fase, Mesmo, Depois, EmTransito
    <2> QED
      BY <1>2, <2>2, <2>4, Enlaca DEF Mesmo, EmTransito
  <1> QED
    BY <1>5, <1>6

LEMMA FechadoEnlace ==
    ASSUME Firme, Base, Quase, Corpo, NEW r \in Todos, Fechado(r)
    PROVE  Corpo'
  <1>1. ped[r].pc = "fechando" /\ ped[r].pc \notin Passivos /\ ped[r].pc \in DaConexao
    BY DEF Fechado, Em, Passivos, DaConexao
  <1>2. Fase(r)
    BY <1>1, Contexto
  <1>3. bd' = bd /\ arquivo' = arquivo /\ fila' = fila /\ Retorna(r, FALSE)
    BY DEF Fechado
  <1>4. encerrando = cliente.id /\ Eventos /\ bd.status # "CONECTADO"
    BY <1>1, <1>2 DEF Fase
  <1>5. /\ cliente' = SemCliente /\ encerrando' = 0 /\ ~conectado' /\ ~conectando'
        /\ aplicada' = Nenhum
    BY <1>4 DEF Fechado, LimpaCliente
  <1>6. Estavel' /\ Coerente'
    BY <1>3, <1>4, <1>5, LimpaEstavel
  <1> QED
    BY <1>1, <1>3, <1>6, RetornaFase

\* The disconnection enqueued by an operation that goes on after it.
LEMMA DesconectadoFase ==
    ASSUME Firme, Base, Quase, Corpo, NEW r \in Todos, ped[r].pc \in {"desliga", "encerra"},
           Enfileira(r, Desconectado(r), ped[r]), bd' = bd, Eventos,
           cliente' = SemCliente, encerrando' = 0, ~conectando', ~conectado', aplicada' = Nenhum
    PROVE  Corpo'
  <1>1. ped[r].pc \notin Passivos
    BY DEF Passivos
  <1>2. /\ Typed /\ Fase(r) /\ fila \in Seq(Entrada) /\ Len(fila) \in Nat /\ r # Nenhum
        /\ ped[r].op # "RESTAURAR"
        /\ \A s \in Todos \ {r} : ped[s].pc \in Passivos
    BY <1>1, Contexto
  <1> DEFINE t == Desconectado(r)
  <1>11. PICK n : n = Len(fila) + 1
    OBVIOUS
  <1>3. /\ t.dono = r /\ t.segue \in {"conecta", "libera"} /\ t.status = "DESCONECTADO"
        /\ t.cli = 0 /\ t.cfg = Nenhum
    BY <1>2 DEF Desconectado, Transicao, AposDesligar
  <1>4. Enfileira(r, t, ped[r])
    OBVIOUS
  <1> HIDE DEF t
  <1>5. Mesmo(r) /\ ped'[r].pc = "fila" /\ fila' = Append(fila, t)
    BY <1>2, <1>4, EnfileiraMesmo
  <1>6. /\ Len(fila') = n /\ fila'[n] = t
        /\ \A k \in 1..Len(fila) : fila'[k] = fila[k]
    BY <1>2, <1>5, <1>11, Junta
  <1>7. \A k \in 1..Len(fila') : k # n => Evento(fila'[k])
    BY <1>2, <1>6, <1>11 DEF Eventos
  <1>8. Posta(r, n)'
    BY <1>2, <1>3, <1>6, <1>7, <1>11 DEF Posta
  <1>9. n \in 1..Len(fila')
    BY <1>2, <1>6, <1>11
  <1>10. Fase(r)'
    BY <1>2, <1>5, <1>8, <1>9 DEF Fase, Mesmo, Depois, EmTransito
  <1> QED
    BY <1>2, <1>5, <1>10, Enlaca DEF Mesmo, EmTransito

LEMMA DesligarEnlace ==
    ASSUME Firme, Base, Quase, Corpo, NEW r \in Todos, Desligar(r)
    PROVE  Corpo'
  <1>1. ped[r].pc = "desliga" /\ ped[r].pc \notin Passivos /\ ped[r].pc \notin EmTransito
    BY DEF Desligar, Em, Passivos, EmTransito
  <1>2. /\ Typed /\ Estavel /\ Fase(r) /\ (cliente.id = 0 <=> cliente = SemCliente)
        /\ ped \in [Todos -> Pedido] /\ ped[r] \in Pedido
        /\ \A s \in Todos \ {r} : ped[s].pc \in Passivos
    BY <1>1, Contexto
  <1>3. bd' = bd /\ arquivo' = arquivo /\ cliente' = cliente /\ conectando' = conectando
    BY DEF Desligar
  <1>4. CASE cliente = SemCliente
    <2>1. /\ Enfileira(r, Desconectado(r), ped[r]) /\ encerrando' = encerrando
          /\ conectado' = FALSE /\ aplicada' = Nenhum
      BY <1>4 DEF Desligar
    <2> QED
      BY <1>1, <1>2, <1>3, <1>4, <2>1, DesconectadoFase DEF Estavel
  <1>5. CASE cliente # SemCliente
    <2> DEFINE p == [ped[r] EXCEPT !.pc = "encerra", !.cli = cliente.id]
    <2>1. encerrando' = cliente.id /\ fila' = fila /\ ped' = [ped EXCEPT ![r] = p]
      BY <1>5 DEF Desligar
    <2>2. p.pc = "encerra" /\ p.cli = cliente.id /\ p.op = ped[r].op /\ p.volta = ped[r].volta
      BY <1>2 DEF Pedido
    <2> HIDE DEF p
    <2>3. ped'[r] = p /\ \A s \in Todos \ {r} : ped'[s] = ped[s]
      BY <1>2, <2>1
    <2>4. Eventos' /\ ~conectando'
      BY <1>2, <1>3, <2>1 DEF Estavel, Eventos, Evento
    <2>5. Fase(r)'
      BY <1>1, <1>2, <1>3, <1>5, <2>1, <2>2, <2>3, <2>4 DEF Fase, Depois, EmTransito
    <2> QED
      BY <1>2, <2>2, <2>3, <2>5, Enlaca DEF EmTransito
  <1> QED
    BY <1>4, <1>5

LEMMA EncerradoEnlace ==
    ASSUME Firme, Base, Quase, Corpo, NEW r \in Todos, Encerrado(r)
    PROVE  Corpo'
  <1>1. ped[r].pc = "encerra" /\ ped[r].pc \notin Passivos
    BY DEF Encerrado, Em, Passivos
  <1>2. Fase(r)
    BY <1>1, Contexto
  <1>3. encerrando = ped[r].cli /\ Eventos
    BY <1>1, <1>2 DEF Fase
  <1>4. /\ bd' = bd /\ Enfileira(r, Desconectado(r), ped[r])
        /\ cliente' = SemCliente /\ encerrando' = 0 /\ ~conectado' /\ ~conectando'
        /\ aplicada' = Nenhum
    BY <1>3 DEF Encerrado, LimpaCliente
  <1> QED
    BY <1>1, <1>3, <1>4, DesconectadoFase

\* A request takes a step of which Fase asks nothing, and the connection is
\* left alone.
LEMMA MudoUm ==
    ASSUME Corpo, Mudo, NEW r \in Todos, \A s \in Todos \ {r} : ped'[s] = ped[s],
           ped[r].pc # "conecta", Quieta(ped'[r]), Quieta(ped[r]) \/ ped[r].pc = "confirma"
    PROVE  Corpo'
  <1>1. \A s \in Todos \ {r} : Igual(ped[s], ped'[s])
    BY DEF Igual
  <1>2. Inicio # r => ped'[Inicio] = ped[Inicio]
    BY Constants
  <1> QED
    BY <1>1, <1>2, MudoEnlace

\* The lease, the update of the row and of the file, the ends of the operations.
LEMMA AtualizacaoEnlace ==
    ASSUME Firme, Base, Quase, Corpo, NEW r \in Todos,
           \/ Reservar(r) \/ Liberar(r) \/ Provar(r) \/ Renovar(r) \/ GravarConfig(r)
           \/ Desfazer(r) \/ GravarArquivo(r) \/ MarcarCredencial(r)
    PROVE  Corpo'
  <1>1. /\ Typed /\ bd \in Linha /\ Papel(ped[r])
    BY DEF Firme, Typed, PedidosOK, LinhaOK
  <1>2. CASE Reservar(r)
    <2>1. /\ Mesmo(r) /\ ped[r].pc = "reserva" /\ ped'[r].pc \in Inicial \cup {"libera"}
          /\ ped'[r].pc = "prova" <=> ped'[r].pc # "libera" /\ Atualiza(ped[r].op)
          /\ bd'.cfg = bd.cfg /\ bd'.status = bd.status
      BY <1>1, <1>2, ReservarForma
    <2>2. Mudo
      BY <1>2, <2>1 DEF Mudo, Reservar, memoria
    <2>3. Quieta(ped[r]) /\ Quieta(ped'[r])
      BY <2>1 DEF Quieta, EmTransito, Inicial, Mesmo, Atualiza
    <2> QED
      BY <2>1, <2>2, <2>3, MudoUm DEF Mesmo
  <1>3. CASE Liberar(r)
    <2>1. ped[r].pc = "libera" /\ Termina(r) /\ bd'.cfg = bd.cfg /\ bd'.status = bd.status
      BY <1>1, <1>3 DEF Liberar, Em, SemLease, Linha
    <2>2. (\A s \in Todos \ {r} : ped'[s] = ped[s]) /\ ped'[r].pc = "fim"
      BY <1>1, <2>1, TerminaForma
    <2>3. Mudo
      BY <1>3, <2>1 DEF Mudo, Liberar, memoria
    <2> QED
      BY <2>1, <2>2, <2>3, MudoUm DEF Quieta, EmTransito
  <1>4. CASE Provar(r)
    <2>1. ped[r].pc = "prova" /\ bd'.cfg = bd.cfg /\ bd'.status = bd.status
      BY <1>1, <1>4 DEF Provar, Em, Inspecionada, Linha
    <2>2. (\A s \in Todos \ {r} : ped'[s] = ped[s]) /\ ped'[r].pc \in {"renova", "libera"}
      BY <1>1, <1>4, ProvarForma
    <2>3. Mudo
      BY <1>4, <2>1 DEF Mudo, Provar, memoria
    <2> QED
      BY <2>1, <2>2, <2>3, MudoUm DEF Quieta, EmTransito
  <1>5. CASE Renovar(r)
    <2>1. ped[r].pc = "renova" /\ bd'.cfg = bd.cfg /\ bd'.status = bd.status
      BY <1>1, <1>5 DEF Renovar, Em, Linha
    <2>2. (\A s \in Todos \ {r} : ped'[s] = ped[s]) /\ ped'[r].pc \in {"grava", "arquivo", "libera"}
      BY <1>1, <1>5, RenovarForma
    <2>3. Mudo
      BY <1>5, <2>1 DEF Mudo, Renovar, memoria
    <2> QED
      BY <2>1, <2>2, <2>3, MudoUm DEF Quieta, EmTransito
  <1>6. ASSUME NEW resp, Responde(r, resp), bd' = bd,
               UNCHANGED <<cliente, encerrando, conectando, conectado, aplicada, fila, arquivo>>,
               ped[r].pc \in {"grava", "desfaz", "arquivo"}
        PROVE  Corpo'
    <2>1. Mesmo(r) /\ ped'[r].pc = "libera"
      BY <1>1, <1>6, RespondeMesmo
    <2>2. Mudo
      BY <1>6 DEF Mudo
    <2> QED
      BY <1>6, <2>1, <2>2, MudoUm DEF Mesmo, Quieta, EmTransito
  <1>7. ASSUME ped[r].pc \in {"grava", "desfaz"}, NEW cfg, bd' = Gravada(cfg),
               UNCHANGED <<cliente, encerrando, conectando, conectado, aplicada, fila, arquivo>>,
               \A s \in Todos \ {r} : ped'[s] = ped[s],
               ped'[r].op = ped[r].op, ped'[r].pc = "desliga", ped'[r].volta \/ cfg = Nova
        PROVE  Corpo'
    <2>1. /\ Estavel /\ \A s \in Todos \ {r} : ped[s].pc \in Passivos
      BY <1>7, Contexto DEF Passivos, EmTransito
    <2>2. ped[r].op = "CONFIG"
      BY <1>1, <1>7 DEF Papel
    <2>3. bd'.cfg = cfg /\ bd'.status = "DESCONECTADO"
      BY <1>1, <1>7 DEF Gravada, Linha
    <2>4. Estavel'
      BY <1>7, <2>1, <2>3 DEF Estavel, Eventos, Proprios, Evento, DoCliente
    <2>5. Fase(r)'
      BY <1>7, <2>3 DEF Fase
    <2> QED
      BY <1>7, <2>1, <2>2, <2>4, <2>5, Enlaca
  <1>8. CASE GravarConfig(r)
    <2>1. /\ ped[r].pc = "grava"
          /\ UNCHANGED <<cliente, encerrando, conectando, conectado, aplicada, fila, arquivo>>
      BY <1>8 DEF GravarConfig, Em, memoria
    <2>2. CASE Segue(r, "desliga") /\ bd' = Gravada(Nova)
      <3>1. Mesmo(r) /\ ped'[r].pc = "desliga"
        BY <1>1, <2>2, SegueMesmo
      <3> QED
        BY <1>7, <2>1, <2>2, <3>1 DEF Mesmo
    <2>3. CASE Responde(r, "PERDIDA") /\ bd' = bd
      BY <1>6, <2>1, <2>3
    <2> QED
      BY <1>8, <2>2, <2>3 DEF GravarConfig
  <1>9. CASE Desfazer(r)
    <2>1. /\ ped[r].pc = "desfaz"
          /\ UNCHANGED <<cliente, encerrando, conectando, conectado, aplicada, fila, arquivo>>
      BY <1>9 DEF Desfazer, Em, memoria
    <2>2. CASE /\ bd' = Gravada(ped[r].anterior)
               /\ ped' = [ped EXCEPT ![r].pc = "desliga", ![r].volta = TRUE]
      <3>1. /\ \A s \in Todos \ {r} : ped'[s] = ped[s]
            /\ ped'[r].op = ped[r].op /\ ped'[r].pc = "desliga" /\ ped'[r].volta
        BY <1>1, <2>2, DesfazerForma
      <3> QED
        BY <1>7, <2>1, <2>2, <3>1
    <2>3. CASE Responde(r, Relato(FALSE)) /\ bd' = bd
      BY <1>6, <2>1, <2>3
    <2> QED
      BY <1>9, <2>2, <2>3 DEF Desfazer
  <1>10. CASE GravarArquivo(r)
    <2>1. /\ ped[r].pc = "arquivo" /\ bd' = bd
          /\ UNCHANGED <<cliente, encerrando, conectando, conectado, aplicada, fila>>
      BY <1>10 DEF GravarArquivo, Em, memoria
    <2>2. CASE Segue(r, "marca")
      <3>1. Mesmo(r) /\ ped'[r].pc = "marca"
        BY <1>1, <2>2, SegueMesmo
      <3>2. Estavel /\ Coerente /\ \A s \in Todos \ {r} : ped[s].pc \in Passivos
        BY <2>1, Contexto DEF Passivos, EmTransito
      <3>3. Estavel'
        <4>1. Inicio # r => ped'[Inicio] = ped[Inicio]
          BY <3>1, Constants DEF Mesmo
        <4> QED
          BY <2>1, <3>2, <4>1 DEF Estavel, Eventos, Proprios, Evento, DoCliente
      <3>4. Coerente'
        BY <2>1, <3>2 DEF Coerente, Ultimo
      <3>5. Fase(r)'
        BY <3>1 DEF Fase, Depois, EmTransito
      <3> QED
        BY <3>1, <3>2, <3>3, <3>4, <3>5, Enlaca DEF Mesmo
    <2>3. CASE Responde(r, "ERRO") /\ arquivo' = arquivo
      BY <1>6, <2>1, <2>3
    <2> QED
      BY <1>10, <2>2, <2>3 DEF GravarArquivo
  <1>11. CASE MarcarCredencial(r)
    <2>1. ped[r].pc = "marca" /\ ped[r].op = "CREDENCIAL" /\ Segue(r, "desliga")
          /\ bd'.cfg = bd.cfg /\ bd'.status = bd.status
      BY <1>1, <1>11 DEF MarcarCredencial, Em, Papel, Linha
    <2>2. Mesmo(r) /\ ped'[r].pc = "desliga"
      BY <1>1, <2>1, SegueMesmo
    <2>3. Mudo
      BY <1>11, <2>1 DEF Mudo, MarcarCredencial, memoria
    <2> QED
      BY <2>1, <2>2, <2>3, MudoUm DEF Mesmo, Quieta, EmTransito
  <1> QED
    BY <1>2, <1>3, <1>4, <1>5, <1>8, <1>9, <1>10, <1>11

LEMMA FimEnlace ==
    ASSUME Firme, Base, Quase, Corpo, NEW r \in Todos,
           \/ ConfirmarConfig(r) \/ Restaurada(r) \/ Publicar(r) \/ RestaurarBackup(r)
           \/ Recarregar(r)
    PROVE  Corpo'
  <1>1. Typed /\ Papel(ped[r])
    BY DEF Firme, Typed, PedidosOK
  <1>2. ASSUME Mudo, ped[r].pc \in {"confirma", "restaurada", "publica", "recarrega"},
               \A s \in Todos \ {r} : ped'[s] = ped[s], ped'[r].pc \in {"libera", "desfaz", "fim"}
        PROVE  Corpo'
    BY <1>2, MudoUm DEF Quieta, EmTransito
  <1>3. CASE ConfirmarConfig(r) \/ Restaurada(r) \/ Publicar(r)
    <2>1. Mudo /\ ped[r].pc \in {"confirma", "restaurada", "publica", "recarrega"}
      BY <1>3 DEF ConfirmarConfig, Restaurada, Publicar, Em, Mudo, memoria
    <2>2. Segue(r, "desfaz") \/ \E resp : Responde(r, resp)
      BY <1>3 DEF ConfirmarConfig, Restaurada, Publicar
    <2>3. Mesmo(r) /\ ped'[r].pc \in {"libera", "desfaz", "fim"}
      BY <1>1, <2>2, SegueMesmo, RespondeMesmo
    <2> QED
      BY <1>2, <2>1, <2>3 DEF Mesmo
  <1>4. CASE Recarregar(r)
    <2>1. Mudo /\ ped[r].pc \in {"confirma", "restaurada", "publica", "recarrega"} /\ Termina(r)
      BY <1>4 DEF Recarregar, Em, Mudo, memoria
    <2> QED
      BY <1>1, <1>2, <2>1, TerminaForma
  <1>5. CASE RestaurarBackup(r)
    <2>1. ped[r].pc = "restaura" /\ ped[r].op = "RESTAURAR"
      BY <1>1, <1>5 DEF RestaurarBackup, Em, Papel
    <2> QED
      BY <2>1, AtivaSo DEF Passivos
  <1> QED
    BY <1>3, <1>4, <1>5

LEMMA PedirEnlace ==
    ASSUME Firme, Base, Quase, Quase', Corpo, NEW r \in Pedidos, NEW op \in Operacoes, Pedir(r, op)
    PROVE  Corpo'
  <1>1. /\ r \in Todos /\ \A s \in Todos \ {r} : ped'[s] = ped[s]
        /\ ped[r].pc = "fora" /\ ped'[r].op = op
        /\ ped'[r].pc = "reserva" <=> op \notin {"TESTAR", "RESTAURAR"}
    BY PedirForma
  <1>2. ped'[r].pc = "reserva"
    BY <1>1 DEF Quase
  <1>3. Mudo
    BY DEF Pedir, Mudo, memoria
  <1> QED
    BY <1>1, <1>2, <1>3, MudoUm DEF Quieta, EmTransito

\* The transition of an event is done, or skipped.
LEMMA EventoEnlace ==
    ASSUME Firme, Base, Quase, Corpo, Executar, Head(fila).dono = Nenhum
    PROVE  Corpo'
  <1> DEFINE t == Head(fila)
             pula == t.cli # 0 /\ ~Atual(t.cli)
  <1>1. /\ fila # <<>> /\ fila' = Tail(fila) /\ ped' = ped /\ bd'.cfg = bd.cfg
        /\ bd'.status = IF ~pula /\ Confere(t) THEN t.status ELSE bd.status
    BY ExecutarForma DEF Firme
  <1>2. /\ fila \in Seq(Entrada) /\ Nenhum \notin Todos
        /\ SemCliente.id = 0 /\ SemCliente.vivo = FALSE
        /\ cliente.id = 0 <=> cliente = SemCliente
    BY Constants DEF Firme, Typed, FilaOK, Base, SemCliente
  <1>3. /\ cliente' = cliente /\ encerrando' = encerrando /\ conectando' = conectando
        /\ conectado' = conectado /\ aplicada' = aplicada /\ arquivo' = arquivo
    BY DEF Executar, memoria
  <1>4. /\ Len(fila) \in Nat \ {0} /\ t = fila[1] /\ Len(fila') = Len(fila) - 1
        /\ \A k \in 1..Len(fila') : fila'[k] = fila[k + 1] /\ k + 1 \in 1..Len(fila)
        /\ Len(fila) = 1 <=> fila' = <<>>
    BY <1>1, <1>2, Solta
  <1>5. 1 \in 1..Len(fila) /\ t.dono = Nenhum
    BY <1>4
  <1> HIDE DEF t, pula
  <1>6. Eventos => Eventos'
    BY <1>4 DEF Eventos
  <1>7. Quedas => Quedas'
    BY <1>4 DEF Quedas
  <1>8. Proprios => Proprios'
    BY <1>3, <1>4 DEF Proprios, DoCliente
  <1>9. Eventos => t.cli # 0
    BY <1>4, <1>5 DEF Eventos, Evento
  <1>10. ASSUME Eventos, encerrando = cliente.id \/ cliente.id = 0 PROVE bd'.status = bd.status
    BY <1>1, <1>9, <1>10 DEF pula, Atual
  <1>11. Parados' => Estavel'
    <2> SUFFICES ASSUME Estavel PROVE Estavel'
      BY <1>1 DEF Corpo, Parados
    <2>1. cliente = SemCliente => bd'.status = bd.status
      BY <1>2, <1>10 DEF Estavel
    <2> QED
      BY <1>1, <1>3, <1>6, <1>8, <2>1 DEF Estavel
  <1>12. Parados' /\ SemCandidata' => Coerente'
    <2> SUFFICES ASSUME Estavel, Coerente, cliente # SemCliente, cliente.vivo
                 PROVE  Ultimo' = "CONECTADO"
      BY <1>1, <1>3 DEF Corpo, Parados, SemCandidata, Coerente
    <2>1. fila[Len(fila)].status = "CONECTADO"
      BY <1>1 DEF Coerente, Ultimo
    <2>2. CASE Len(fila) = 1
      <3>1. t.status = "CONECTADO" /\ fila' = <<>>
        BY <1>4, <2>1, <2>2
      <3>2. t.cli = cliente.id /\ t.cfg = cliente.cfg
        BY <1>4, <1>5 DEF Estavel, Proprios, DoCliente
      <3>3. ~pula /\ Confere(t)
        BY <1>2, <3>2 DEF pula, Atual, Estavel, Confere, Coerente
      <3> QED
        BY <1>1, <3>1, <3>3 DEF Ultimo
    <2>3. CASE Len(fila) # 1
      <3>1. Len(fila') \in 1..Len(fila') /\ Len(fila') + 1 = Len(fila) /\ fila' # <<>>
        BY <1>4, <2>3
      <3>2. fila'[Len(fila')].status = "CONECTADO"
        BY <1>4, <2>1, <3>1
      <3> QED
        BY <3>1, <3>2 DEF Ultimo
    <2> QED
      BY <2>2, <2>3
  <1>13. ASSUME NEW r \in Todos PROVE Fase(r)'
    <2>1. Fase(r) /\ ped'[r] = ped[r] /\ r # Nenhum
      BY <1>1, <1>2 DEF Corpo
    <2>2. Conexao' = Conexao /\ Aberto(r)' = Aberto(r)
      BY <1>1, <1>3 DEF Conexao, Aberto
    <2>3. ASSUME ped[r].pc = "fila" PROVE \E i \in 1..Len(fila') : Posta(r, i)'
      <3>1. PICK i \in 1..Len(fila) : Posta(r, i)
        BY <2>1, <2>3 DEF Fase
      <3>2. i # 1
        BY <1>4, <1>5, <2>1, <3>1 DEF Posta
      <3>3. PICK j : j = i - 1
        OBVIOUS
      <3>4. /\ j \in 1..Len(fila') /\ fila'[j] = fila[i]
            /\ i = Len(fila) => j = Len(fila')
        BY <1>4, <3>2, <3>3
      <3>5. \A k \in 1..Len(fila') : k # j => Evento(fila'[k])
        <4> SUFFICES ASSUME NEW k \in 1..Len(fila'), k # j PROVE Evento(fila'[k])
          OBVIOUS
        <4>1. k + 1 \in 1..Len(fila) /\ k + 1 # i /\ fila'[k] = fila[k + 1]
          BY <1>4, <3>3
        <4>2. Evento(fila[k + 1])
          BY <3>1, <4>1 DEF Posta
        <4> QED
          BY <4>1, <4>2
      <3>6. (\A k \in (i + 1)..Len(fila) : fila[k].status = "DESCONECTADO")
              => \A k \in (j + 1)..Len(fila') : fila'[k].status = "DESCONECTADO"
        <4> SUFFICES ASSUME \A k \in (i + 1)..Len(fila) : fila[k].status = "DESCONECTADO",
                            NEW k \in (j + 1)..Len(fila')
                     PROVE  fila'[k].status = "DESCONECTADO"
          OBVIOUS
        <4>1. k \in 1..Len(fila') /\ k + 1 \in (i + 1)..Len(fila)
          BY <1>4, <3>3, <3>4
        <4> QED
          BY <1>4, <4>1
      <3>7. fila[i].segue # "firma"
        BY <3>1, <3>2 DEF Posta
      <3>8. Posta(r, j)'
        BY <1>1, <1>3, <2>1, <2>2, <3>1, <3>4, <3>5, <3>6, <3>7 DEF Posta
      <3> QED
        BY <3>4, <3>8
    <2>4. ped[r].pc \notin {"abre", "espera"}
      BY <1>1, <2>1 DEF Fase
    <2>5. ped[r].pc = "fecha" => bd'.status # "CONECTADO"
      BY <1>1, <1>4, <1>5, <2>1 DEF Fase, Quedas
    <2>6. ped[r].pc = "fechando" => bd'.status # "CONECTADO"
      BY <1>10, <2>1 DEF Fase
    <2>7. ped[r].pc \in {"assina", "firma"} => ~cliente.vivo
      BY <1>1, <2>1 DEF Fase
    <2> QED
      BY <1>1, <1>3, <1>6, <1>7, <1>8, <2>1, <2>2, <2>3, <2>4, <2>5, <2>6, <2>7 DEF Fase
  <1> QED
    BY <1>11, <1>12, <1>13 DEF Corpo

\* The transition a request waits for is done.
LEMMA PostaEnlace ==
    ASSUME Firme, Base, Quase, Corpo, Executar, Head(fila).dono # Nenhum
    PROVE  Corpo'
  <1>0a. PICK t : t = Head(fila)
    OBVIOUS
  <1>0b. PICK r : r = t.dono
    OBVIOUS
  <1>0c. PICK pula : pula \in BOOLEAN /\ (pula <=> t.cli # 0 /\ ~Atual(t.cli))
    <2>1. CASE t.cli # 0 /\ ~Atual(t.cli)
      <3> WITNESS TRUE
      <3> QED
        BY <2>1
    <2>2. CASE ~(t.cli # 0 /\ ~Atual(t.cli))
      <3> WITNESS FALSE
      <3> QED
        BY <2>2
    <2> QED
      BY <2>1, <2>2
  <1>1. /\ fila # <<>> /\ fila' = Tail(fila) /\ bd'.cfg = bd.cfg
        /\ bd'.status = IF ~pula /\ Confere(t) THEN t.status ELSE bd.status
        /\ r \in Todos /\ ped[r].pc = "fila" /\ Mesmo(r)
        /\ ped'[r].pc = IF pula \/ Confere(t) THEN t.segue ELSE t.senao
    BY <1>0a, <1>0b, <1>0c, ExecutarForma DEF Firme
  <1>2. /\ cliente' = cliente /\ encerrando' = encerrando /\ conectando' = conectando
        /\ conectado' = conectado /\ aplicada' = aplicada /\ arquivo' = arquivo
    BY DEF Executar, memoria
  <1>3. /\ Fase(r) /\ fila \in Seq(Entrada) /\ r # Nenhum
        /\ \A s \in Todos \ {r} : ped[s].pc \in Passivos
        /\ cliente.id = 0 <=> cliente = SemCliente
    <2>1. ped[r].pc \notin Passivos
      BY <1>1 DEF Passivos
    <2> QED
      BY <1>1, <2>1, Contexto
  <1>4. /\ Len(fila) \in Nat \ {0} /\ t = fila[1] /\ Len(fila') = Len(fila) - 1
        /\ \A k \in 1..Len(fila') : fila'[k] = fila[k + 1] /\ k + 1 \in 1..Len(fila)
        /\ Len(fila) = 1 <=> fila' = <<>>
    BY <1>0a, <1>1, <1>3, Solta
  <1>5. fila[1].dono = r
    BY <1>0b, <1>4
  <1>6. PICK i \in 1..Len(fila) : Posta(r, i)
    BY <1>1, <1>3 DEF Fase
  <1>7. i = 1
    BY <1>3, <1>4, <1>5, <1>6 DEF Posta, Evento
  <1>8. \A s \in Todos \ {r} : ped'[s].pc \in Passivos
    BY <1>1, <1>3 DEF Mesmo
  <1>9. Eventos'
    <2>1. \A k \in 1..Len(fila') : k + 1 \in 1..Len(fila) /\ k + 1 # 1
      BY <1>4
    <2> QED
      BY <1>4, <1>6, <1>7, <2>1 DEF Posta, Eventos
  <1>10. ped[r].op = "CONFIG" /\ ~ped[r].volta => bd.cfg = Nova
    BY <1>1, <1>3 DEF Fase, Depois, EmTransito
  <1>11. /\ ped'[r].op = ped[r].op /\ ped'[r].volta = ped[r].volta /\ ped'[r].cfg = ped[r].cfg
         /\ ped'[r].cred = ped[r].cred /\ ped'[r].cli = ped[r].cli
    BY <1>1 DEF Mesmo
  <1>12. Conexao' = Conexao /\ Aberto(r)' = Aberto(r)
    BY <1>1, <1>2, <1>11 DEF Conexao, Aberto
  <1>13. t.segue \in {"conecta", "libera", "abre", "firma", "fecha"}
    BY <1>4, <1>6, <1>7 DEF Posta
  <1>14. CASE t.segue \in {"conecta", "libera"}
    <2>1. /\ cliente = SemCliente /\ encerrando = 0 /\ ~conectando /\ ~conectado
          /\ aplicada = Nenhum /\ Len(fila) = 1 /\ t.cli = 0 /\ t.cfg = Nenhum
          /\ t.status = "DESCONECTADO"
      BY <1>4, <1>6, <1>7, <1>14 DEF Posta
    <2>2. ~pula /\ Confere(t)
      BY <1>0c, <2>1 DEF Confere
    <2>3. bd'.status = "DESCONECTADO" /\ ped'[r].pc = t.segue
      BY <1>1, <2>1, <2>2
    <2>4. Estavel' /\ Coerente'
      BY <1>2, <1>9, <2>1, <2>3 DEF Estavel, Coerente
    <2>5. Fase(r)'
      BY <1>1, <1>2, <1>10, <1>11, <1>14, <2>1, <2>3 DEF Fase
    <2> QED
      BY <1>1, <1>8, <2>4, <2>5, Enlaca
  <1>15. CASE t.segue = "abre"
    <2>1. /\ Conexao /\ ~cliente.vivo /\ Len(fila) = 1 /\ t.cli = 0
          /\ t.cfg = bd.cfg /\ ped[r].cfg = bd.cfg /\ ped[r].cred = arquivo
      BY <1>4, <1>6, <1>7, <1>15 DEF Posta
    <2>2. ped'[r].pc = "abre"
      BY <1>1, <1>15, <1>0c, <2>1 DEF Confere
    <2>3. fila' = <<>>
      BY <1>4, <2>1
    <2>4. Fase(r)'
      BY <1>1, <1>2, <1>10, <1>11, <1>12, <2>1, <2>2, <2>3 DEF Fase
    <2> QED
      BY <1>1, <1>8, <2>2, <2>4, Enlaca DEF EmTransito
  <1>16. CASE t.segue = "firma"
    <2>1. /\ Conexao /\ Aberto(r) /\ Proprios /\ t.status = "CONECTADO"
          /\ \A k \in 2..Len(fila) : fila[k].status = "DESCONECTADO"
          /\ cliente.vivo => Len(fila) = 1
      BY <1>4, <1>6, <1>7, <1>16 DEF Posta
    <2>2. t.cli = cliente.id /\ t.cfg = cliente.cfg
      BY <1>4, <2>1 DEF Proprios, DoCliente
    <2>3. ~pula /\ Confere(t)
      BY <1>0c, <2>1, <2>2 DEF Confere, Atual, Aberto, Conexao
    <2>4. ped'[r].pc = "firma" /\ bd'.status = "CONECTADO"
      BY <1>1, <1>16, <2>1, <2>3
    <2>5. Quedas'
      <3>1. \A k \in 1..Len(fila') : k + 1 \in 2..Len(fila)
        BY <1>4
      <3> QED
        BY <1>4, <2>1, <3>1 DEF Quedas
    <2>6. Proprios'
      BY <1>2, <1>4, <2>1 DEF Proprios, DoCliente
    <2>7. cliente'.vivo => fila' = <<>>
      BY <1>2, <1>4, <2>1
    <2>8. Fase(r)'
      BY <1>1, <1>9, <1>10, <1>11, <1>12, <2>1, <2>4, <2>5, <2>6, <2>7 DEF Fase
    <2> QED
      BY <1>1, <1>8, <2>4, <2>8, Enlaca DEF EmTransito
  <1>17. CASE t.segue = "fecha"
    <2>1. /\ Conexao /\ t.cli = 0 /\ t.cfg = bd.cfg /\ t.status = "FALHA"
          /\ \A k \in 2..Len(fila) : fila[k].status = "DESCONECTADO"
      BY <1>4, <1>6, <1>7, <1>17 DEF Posta
    <2>2. ped'[r].pc = "fecha" /\ bd'.status = "FALHA"
      BY <1>1, <1>17, <1>0c, <2>1 DEF Confere
    <2>3. Quedas'
      <3>1. \A k \in 1..Len(fila') : k + 1 \in 2..Len(fila)
        BY <1>4
      <3> QED
        BY <1>4, <2>1, <3>1 DEF Quedas
    <2>4. Fase(r)'
      BY <1>1, <1>9, <1>10, <1>11, <1>12, <2>1, <2>2, <2>3 DEF Fase
    <2> QED
      BY <1>1, <1>8, <2>2, <2>4, Enlaca DEF EmTransito
  <1> QED
    BY <1>13, <1>14, <1>15, <1>16, <1>17

\* The link drops: one more transition of the client, that it is disconnected.
LEMMA CairEnlace ==
    ASSUME Firme, Base, Quase, Corpo, Cair
    PROVE  Corpo'
  <1>1. PICK t : t = DeEvento("DESCONECTADO", "")
    OBVIOUS
  <1>2. t.dono = Nenhum /\ t.cli = cliente.id /\ t.cfg = cliente.cfg /\ t.status = "DESCONECTADO"
    BY <1>1 DEF DeEvento, Transicao
  <1>3. /\ cliente.vivo /\ cliente.id # 0 /\ encerrando # cliente.id
        /\ conectado' = FALSE /\ fila' = Append(fila, t) /\ ped' = ped /\ bd' = bd
        /\ arquivo' = arquivo /\ encerrando' = encerrando /\ conectando' = conectando
        /\ aplicada' = aplicada /\ cliente' = [cliente EXCEPT !.vivo = FALSE]
    BY <1>1 DEF Cair, Atual
  <1>4. /\ fila \in Seq(Entrada) /\ cliente \in Cliente /\ SemCliente.id = 0
        /\ Nenhum \notin Todos
    BY Constants DEF Firme, Typed, FilaOK, SemCliente
  <1>5. /\ cliente # SemCliente /\ cliente' # SemCliente /\ cliente'.vivo = FALSE
        /\ cliente'.id = cliente.id /\ cliente'.cfg = cliente.cfg /\ cliente'.cred = cliente.cred
    BY <1>3, <1>4 DEF Cliente
  <1>6. PICK n : n = Len(fila) + 1
    OBVIOUS
  <1>7. /\ Len(fila) \in Nat /\ Len(fila') = n /\ fila'[n] = t
        /\ \A k \in 1..Len(fila) : fila'[k] = fila[k]
    BY <1>3, <1>4, <1>6, Junta
  <1>8. \A k \in 1..Len(fila') : k = n \/ (k # n /\ k \in 1..Len(fila) /\ fila'[k] = fila[k])
    BY <1>6, <1>7
  <1>9. /\ Evento(t) /\ DoCliente(t)' /\ t.status = "DESCONECTADO"
        /\ \A e : DoCliente(e)' <=> DoCliente(e)
    BY <1>2, <1>3, <1>5 DEF Evento, DoCliente
  <1>10. (Eventos => Eventos') /\ (Quedas => Quedas') /\ (Proprios => Proprios')
    BY <1>7, <1>8, <1>9 DEF Eventos, Quedas, Proprios
  <1>11. Parados' => Estavel'
    <2> SUFFICES ASSUME Estavel PROVE Estavel'
      BY <1>3 DEF Corpo, Parados
    <2> QED
      BY <1>3, <1>5, <1>10 DEF Estavel
  <1>12. Parados' /\ SemCandidata' => Coerente'
    BY <1>3, <1>5 DEF Corpo, Parados, SemCandidata, Coerente
  <1>13. ASSUME NEW r \in Todos PROVE Fase(r)'
    <2>1. Fase(r) /\ ped'[r] = ped[r] /\ r # Nenhum
      BY <1>3, <1>4 DEF Corpo
    <2>2. Conexao' = Conexao /\ Aberto(r)' = Aberto(r)
      BY <1>3, <1>5 DEF Conexao, Aberto
    <2>3. ASSUME ped[r].pc = "fila" PROVE \E i \in 1..Len(fila') : Posta(r, i)'
      <3>1. PICK i \in 1..Len(fila) : Posta(r, i)
        BY <2>1, <2>3 DEF Fase
      <3>2. i \in 1..Len(fila') /\ fila'[i] = fila[i]
        BY <1>6, <1>7
      <3>3. \A k \in 1..Len(fila') : k # i => Evento(fila'[k])
        <4> SUFFICES ASSUME NEW k \in 1..Len(fila'), k # i PROVE Evento(fila'[k])
          OBVIOUS
        <4>1. k \in 1..Len(fila) /\ fila'[k] = fila[k] => Evento(fila'[k])
          BY <3>1 DEF Posta
        <4> QED
          BY <1>7, <1>8, <1>9, <4>1
      <3>4. \A j \in Nat :
              (\A k \in j..Len(fila) : fila[k].status = "DESCONECTADO")
                 => \A k \in j..Len(fila') : k \in 1..Len(fila')
                                               => fila'[k].status = "DESCONECTADO"
        <4> SUFFICES ASSUME NEW j \in Nat,
                            \A k \in j..Len(fila) : fila[k].status = "DESCONECTADO",
                            NEW k \in j..Len(fila'), k \in 1..Len(fila')
                     PROVE  fila'[k].status = "DESCONECTADO"
          OBVIOUS
        <4>1. CASE k = n
          BY <1>7, <1>9, <4>1
        <4>2. CASE k # n
          BY <1>7, <1>8, <4>2
        <4> QED
          BY <4>1, <4>2
      <3>5. fila[i].segue \in {"firma", "fecha"}
        BY <1>3, <1>5, <3>1 DEF Posta
      <3>6. CASE fila[i].segue = "firma"
        <4>1. i = 1 /\ Conexao /\ Aberto(r) /\ Proprios /\ fila[i].status = "CONECTADO"
              /\ \A k \in 2..Len(fila) : fila[k].status = "DESCONECTADO"
          BY <3>1, <3>6 DEF Posta
        <4>2. \A k \in 2..Len(fila') : fila'[k].status = "DESCONECTADO"
          <5>1. \A k \in 2..Len(fila') : k \in 1..Len(fila')
            BY <1>7
          <5> QED
            BY <3>4, <4>1, <5>1
        <4> QED
          BY <1>5, <1>10, <2>1, <2>2, <3>1, <3>2, <3>3, <3>6, <4>1, <4>2 DEF Posta
      <3>7. CASE fila[i].segue = "fecha"
        <4>1. /\ Conexao /\ fila[i].cli = 0 /\ fila[i].cfg = bd.cfg /\ fila[i].status = "FALHA"
              /\ \A k \in (i + 1)..Len(fila) : fila[k].status = "DESCONECTADO"
          BY <3>1, <3>7 DEF Posta
        <4>2. \A k \in (i + 1)..Len(fila') : fila'[k].status = "DESCONECTADO"
          <5>1. i + 1 \in Nat /\ \A k \in (i + 1)..Len(fila') : k \in 1..Len(fila')
            BY <1>7
          <5> QED
            BY <3>4, <4>1, <5>1
        <4> QED
          BY <1>3, <2>1, <2>2, <3>1, <3>2, <3>3, <3>7, <4>1, <4>2 DEF Posta
      <3> QED
        BY <3>2, <3>5, <3>6, <3>7
    <2>4. ped[r].pc \notin {"encerra", "fechando", "le", "abre", "espera"}
          /\ ~(ped[r].op = "CONFIG" /\ ped[r].pc = "conecta")
      BY <1>3, <1>5, <2>1 DEF Fase
    <2> QED
      BY <1>3, <1>5, <1>10, <2>1, <2>2, <2>3, <2>4 DEF Fase
  <1> QED
    BY <1>11, <1>12, <1>13 DEF Corpo

\* mqtt.js brings the client back, or is refused: two transitions of it.
LEMMA VoltarEnlace ==
    ASSUME Firme, Base, Quase, Corpo, Voltar
    PROVE  Corpo'
  <1>1. PICK a, b, c : /\ a = DeEvento("RECONECTANDO", "") /\ b = DeEvento("CONECTADO", "VERIFICADA")
                       /\ c = DeEvento("FALHA", "RECUSADA")
    OBVIOUS
  <1>2. /\ a.dono = Nenhum /\ a.cli = cliente.id /\ a.cfg = cliente.cfg
        /\ b.dono = Nenhum /\ b.cli = cliente.id /\ b.cfg = cliente.cfg /\ b.status = "CONECTADO"
        /\ c.dono = Nenhum /\ c.cli = cliente.id /\ c.cfg = cliente.cfg
    BY <1>1 DEF DeEvento, Transicao
  <1>3. /\ cliente # SemCliente /\ ~cliente.vivo /\ cliente.id # 0 /\ encerrando # cliente.id
        /\ fila = <<>> /\ ~conectando
        /\ bd' = bd /\ ped' = ped /\ arquivo' = arquivo /\ encerrando' = encerrando
        /\ conectando' = conectando /\ aplicada' = aplicada
        /\ \/ /\ cliente' = [cliente EXCEPT !.vivo = TRUE] /\ conectado' = TRUE /\ fila' = <<a, b>>
           \/ cliente' = cliente /\ fila' = <<a, c>>
    BY <1>1 DEF Voltar, Atual
  <1>4. cliente \in Cliente /\ SemCliente.id = 0
    BY DEF Firme, Typed, SemCliente
  <1>5. /\ cliente' # SemCliente /\ cliente'.id = cliente.id /\ cliente'.cfg = cliente.cfg
        /\ cliente'.cred = cliente.cred
    BY <1>3, <1>4 DEF Cliente
  <1>6. PICK d : /\ d \in {b, c} /\ fila' = <<a, d>>
                 /\ cliente'.vivo => d = b /\ conectado'
    BY <1>3
  <1>7. Len(<<a, d>>) = 2 /\ <<a, d>>[1] = a /\ <<a, d>>[2] = d /\ <<a, d>> # <<>>
    OBVIOUS
  <1>8. Len(fila') = 2 /\ fila'[1] = a /\ fila'[2] = d /\ fila' # <<>>
    BY ONLY <1>6, <1>7
  <1>9. \A k \in 1..2 : k = 1 \/ k = 2
    OBVIOUS
  <1>10. Evento(a) /\ Evento(d) /\ DoCliente(a)' /\ DoCliente(d)'
    BY <1>2, <1>3, <1>5, <1>6 DEF Evento, DoCliente
  <1>11. Eventos' /\ Proprios'
    BY <1>8, <1>9, <1>10 DEF Eventos, Proprios
  <1>12. cliente'.vivo => Ultimo' = "CONECTADO"
    BY <1>2, <1>6, <1>8 DEF Ultimo
  <1>13. Parados' => Estavel'
    <2> SUFFICES ASSUME Estavel PROVE Estavel'
      BY <1>3 DEF Corpo, Parados
    <2> QED
      BY <1>3, <1>5, <1>6, <1>11 DEF Estavel
  <1>14. Parados' /\ SemCandidata' => Coerente'
    BY <1>3, <1>5, <1>12 DEF Corpo, Parados, SemCandidata, Coerente
  <1>15. ASSUME NEW r \in Todos PROVE Fase(r)'
    <2>1. Fase(r) /\ ped'[r] = ped[r]
      BY <1>3 DEF Corpo
    <2>2. Len(fila) = 0
      BY <1>3
    <2>3. ped[r].pc # "fila"
      BY <2>1, <2>2 DEF Fase
    <2>4. ped[r].pc \notin {"encerra", "le", "abre", "espera", "assina", "firma", "fecha", "fechando"}
          /\ ~(ped[r].op = "CONFIG" /\ ped[r].pc = "conecta")
      BY <1>3, <2>1 DEF Fase, Conexao
    <2> QED
      BY <1>3, <1>5, <2>1, <2>3, <2>4 DEF Fase
  <1> QED
    BY <1>13, <1>14, <1>15 DEF Corpo

\* What the rest of the environment does.
LEMMA RestoEnlace ==
    ASSUME Firme, Base, Corpo,
           Vencer \/ Partida \/ FimDoProcesso \/ Reiniciar \/ UNCHANGED vars
    PROVE  Corpo'
  <1>1. CASE Vencer
    <2>1. /\ bd'.cfg = bd.cfg /\ bd'.status = bd.status
          /\ \A s \in Todos :
                /\ ped'[s].op = ped[s].op /\ ped'[s].pc = ped[s].pc /\ ped'[s].cfg = ped[s].cfg
                /\ ped'[s].cred = ped[s].cred /\ ped'[s].cli = ped[s].cli
                /\ ped'[s].volta = ped[s].volta /\ ped'[s].sucesso = ped[s].sucesso
      BY <1>1, VencerForma DEF Firme
    <2>2. Mudo
      BY <1>1, <2>1 DEF Mudo, Vencer, memoria
    <2>3. \A s \in Todos : Igual(ped[s], ped'[s])
      BY <2>1 DEF Igual
    <2>4. Inicio \in Todos
      BY Constants
    <2> QED
      BY <2>1, <2>2, <2>3, <2>4, MudoEnlace
  <1>2. CASE Partida \/ FimDoProcesso \/ UNCHANGED vars
    <2>1. Mudo /\ ped' = ped
      BY <1>2 DEF Mudo, Partida, FimDoProcesso, vars, memoria
    <2>2. \A s \in Todos : Igual(ped[s], ped'[s])
      BY <2>1 DEF Igual
    <2> QED
      BY <2>1, <2>2, MudoEnlace
  <1>3. CASE Reiniciar
    <2>1. /\ ped'[Inicio] = Conectando /\ Conectando.pc = "conecta" /\ Conectando.op = "INICIAR"
          /\ \A s \in Pedidos : ped'[s].pc \in {"fora", "fim"}
      BY <1>3, ReiniciarForma DEF Firme
    <2>2. Inicio \in Todos /\ \A s \in Todos \ {Inicio} : s \in Pedidos
      BY Constants DEF Todos
    <2>3. \A s \in Todos \ {Inicio} : ped'[s].pc \in Passivos
      BY <2>1, <2>2 DEF Passivos
    <2>4. /\ cliente' = SemCliente /\ encerrando' = 0 /\ ~conectando' /\ ~conectado'
          /\ aplicada' = Nenhum /\ fila' = <<>>
      BY <1>3 DEF Reiniciar
    <2>5. Eventos'
      <3>1. Len(fila') = 0
        BY <2>4
      <3> QED
        BY <3>1 DEF Eventos
    <2>6. Estavel' /\ Coerente'
      BY <2>1, <2>4, <2>5 DEF Estavel, Coerente
    <2>7. Fase(Inicio)'
      BY <2>1 DEF Fase
    <2> QED
      BY <2>2, <2>3, <2>6, <2>7, Enlaca
  <1> QED
    BY <1>1, <1>2, <1>3

LEMMA InitEnlace == Init => Base /\ Enlace
  <1> SUFFICES ASSUME Init PROVE Base /\ Corpo
    BY DEF Enlace
  <1>1. /\ Parado.op = Nenhum /\ Parado.pc = "fora" /\ Parado.perdeu = FALSE
        /\ Conectando.pc = "conecta" /\ Conectando.op = "INICIAR"
    BY DEF Parado, Conectando
  <1>2. /\ ped[Inicio] = Conectando /\ \A s \in Pedidos : ped[s] = Parado
        /\ Inicio \in Todos /\ \A s \in Todos : s = Inicio \/ s \in Pedidos
    BY Constants DEF Init, Todos
  <1>3. /\ bd.token = Nenhum /\ bd.status = "DESCONECTADO" /\ cliente = SemCliente
        /\ encerrando = 0 /\ conectando = FALSE /\ conectado = FALSE /\ aplicada = Nenhum
        /\ fila = <<>> /\ Len(fila) = 0 /\ Nenhum \notin Pedidos
    BY Constants DEF Init
  <1>4. Base
    BY <1>1, <1>2, <1>3 DEF Base
  <1>5. Estavel /\ Coerente
    BY <1>1, <1>2, <1>3 DEF Estavel, Coerente, Eventos
  <1>6. \A s \in Todos : Fase(s)
    BY <1>1, <1>2 DEF Fase, Depois, EmTransito
  <1> QED
    BY <1>4, <1>5, <1>6 DEF Corpo

LEMMA EnlaceStep == Firme /\ Base /\ Enlace /\ [Next]_vars => Base' /\ Enlace'
  <1> SUFFICES ASSUME Firme, Base, Enlace, [Next]_vars PROVE Base' /\ Enlace'
    OBVIOUS
  <1>1. Base' /\ (Quase' => Quase)
    <2>1. CASE Next
      BY <2>1, BaseStep
    <2>2. CASE UNCHANGED vars
      BY <2>2 DEF vars, Base, Quase
    <2> QED
      BY <2>1, <2>2
  <1>2. ASSUME Quase, Quase', Corpo PROVE Corpo'
    <2>1. ASSUME NEW r \in Todos, Passo(r) PROVE Corpo'
      <3>1. CASE \/ Reservar(r) \/ Liberar(r) \/ Provar(r) \/ Renovar(r) \/ GravarConfig(r)
                 \/ Desfazer(r) \/ GravarArquivo(r) \/ MarcarCredencial(r)
        BY <1>2, <3>1, AtualizacaoEnlace
      <3>2. CASE \/ Conectar(r) \/ Ler(r) \/ Abrir(r) \/ Aceito(r) \/ Assinar(r)
        BY <1>2, <3>2, ConectarEnlace, LerEnlace, AbrirEnlace, AceitoEnlace, AssinarEnlace
      <3>3. CASE \/ Falhar(r) \/ Firmar(r) \/ Fechar(r) \/ Fechado(r) \/ Desligar(r)
                 \/ Encerrado(r)
        BY <1>2, <3>3, FalharEnlace, FirmarEnlace, FecharEnlace, FechadoEnlace,
           DesligarEnlace, EncerradoEnlace
      <3>4. CASE \/ ConfirmarConfig(r) \/ Restaurada(r) \/ Publicar(r) \/ RestaurarBackup(r)
                 \/ Recarregar(r)
        BY <1>2, <3>4, FimEnlace
      <3> QED
        BY <2>1, <3>1, <3>2, <3>3, <3>4 DEF Passo
    <2>2. ASSUME NEW r \in Pedidos, NEW op \in Operacoes, Pedir(r, op) PROVE Corpo'
      BY <1>2, <2>2, PedirEnlace
    <2>3. ASSUME Executar \/ Cair \/ Voltar PROVE Corpo'
      BY <1>2, <2>3, EventoEnlace, PostaEnlace, CairEnlace, VoltarEnlace
    <2>4. ASSUME \/ Vencer \/ Partida \/ FimDoProcesso \/ Reiniciar \/ Encerrou
                 \/ UNCHANGED vars
          PROVE  Corpo'
      BY <1>2, <2>4, RestoEnlace DEF Encerrou
    <2> QED
      BY <2>1, <2>2, <2>3, <2>4 DEF Next
  <1> QED
    BY <1>1, <1>2 DEF Enlace

\* When nothing is under way, what the row and the memory of the API say of
\* the connection is what the client is: connected and on the configuration
\* it runs while its link is up, not connected when there is none.
THEOREM QuietTheorem == Spec => []QuietStatusAgrees
  <1>1. Firme /\ Base /\ Enlace => QuietStatusAgrees
    <2> SUFFICES ASSUME Firme, Base, Enlace, Quieto, Serializado
                 PROVE  /\ cliente.vivo =>
                             conectado /\ bd.status = "CONECTADO" /\ aplicada = cliente.cfg
                        /\ cliente = SemCliente => ~conectado /\ bd.status # "CONECTADO"
      BY DEF QuietStatusAgrees
    <2>1. Quase
      BY DEF Serializado, Quase
    <2>2. fila = <<>> /\ \A r \in Todos : ped[r].pc \in {"fora", "fim", "libera"}
      BY DEF Quieto
    <2>3. Parados /\ SemCandidata
      BY <2>2 DEF Parados, SemCandidata, EmTransito
    <2>4. Estavel /\ Coerente
      BY <2>1, <2>3 DEF Enlace, Corpo
    <2>5. ped[Inicio].pc # "conecta" /\ SemCliente.vivo = FALSE /\ Ultimo = bd.status
      BY <2>2, Constants DEF SemCliente, Ultimo
    <2> QED
      BY <2>4, <2>5 DEF Estavel, Coerente
  <1> QED
    BY <1>1, InitFirme, FirmeStep, InitEnlace, EnlaceStep, PTL DEF Spec

\* Only an update that found the candidate applied answers so.
LEMMA Confirmada ==
    ASSUME Firme, [Next]_vars, NEW r \in Pedidos, Responder(r, "APLICADA")
    PROVE  ConfirmarConfig(r) /\ Aplicou(r)
  <1>1. /\ Typed /\ ped \in [Todos -> Pedido] /\ ped[r] \in Pedido
        /\ r \in Todos /\ r # Inicio /\ Nenhum # "APLICADA"
    BY Constants, ConfigurationAssumption DEF Firme, Typed, PedidosOK
  <1>2. ped'[r].resp = "APLICADA" /\ ped[r].resp # "APLICADA" /\ ped'[r] # ped[r]
    BY DEF Responder
  <1>3. ASSUME ConfirmarConfig(r) PROVE Aplicou(r)
    <2> SUFFICES ASSUME Segue(r, "desfaz") PROVE FALSE
      BY <1>3 DEF ConfirmarConfig
    <2> QED
      BY <1>1, <1>2, SegueForma
  <1>4. ASSUME NEW s \in Todos, Passo(s) PROVE ConfirmarConfig(r)
    <2>1. CASE \/ Conectar(s) \/ Ler(s) \/ Abrir(s) \/ Aceito(s) \/ Assinar(s) \/ Falhar(s)
               \/ Firmar(s) \/ Fechar(s) \/ Fechado(s)
      <3>1. Avanca(s) /\ ped[s].pc # "confirma"
        BY <1>1, <2>1, ConexaoAvanca DEF Conectar, Ler, Abrir, Aceito, Assinar, Falhar,
           Firmar, Fechar, Fechado, Em
      <3> QED
        BY <1>1, <1>2, <3>1 DEF Avanca, Prossegue
    <2>2. CASE \/ Desligar(s) \/ Encerrado(s) \/ Restaurada(s)
               \/ Publicar(s) \/ RestaurarBackup(s) \/ Recarregar(s) \/ MarcarCredencial(s)
      <3>1. Avanca(s) /\ ped[s].pc # "confirma"
        BY <1>1, <2>2, FimAvanca DEF Desligar, Encerrado, Restaurada, Publicar,
           RestaurarBackup, Recarregar, MarcarCredencial, Em
      <3> QED
        BY <1>1, <1>2, <3>1 DEF Avanca, Prossegue
    <2>3. CASE ConfirmarConfig(s)
      <3>1. Avanca(s)
        BY <1>1, <2>3, FimAvanca
      <3>2. s = r
        BY <1>1, <1>2, <3>1 DEF Avanca
      <3> QED
        BY <2>3, <3>2
    <2>4. ASSUME NEW pc, Segue(s, pc) PROVE FALSE
      <3>1. Vai(s, pc) /\ ped'[s].resp = ped[s].resp
        BY <1>1, <2>4, SegueForma
      <3> QED
        BY <1>1, <1>2, <3>1 DEF Vai
    <2>5. ASSUME NEW resp, Responde(s, resp), resp # "APLICADA" PROVE FALSE
      <3>1. Vai(s, "libera") /\ ped'[s].resp = resp
        BY <1>1, <2>5, RespondeForma
      <3> QED
        BY <1>1, <1>2, <2>5, <3>1 DEF Vai
    <2>6. CASE Reservar(s) \/ GravarConfig(s) \/ GravarArquivo(s)
      BY <2>4, <2>5, <2>6 DEF Reservar, GravarConfig, GravarArquivo
    <2>7. CASE Liberar(s)
      BY <1>1, <1>2, <2>7, TerminaForma DEF Liberar
    <2>8. ASSUME NEW p, ped' = [ped EXCEPT ![s] = p], p.resp \in {ped[s].resp, "RECUSADA"} PROVE FALSE
      BY <1>1, <1>2, <2>8
    <2>9. CASE Renovar(s)
      <3>1. CASE Responde(s, "PERDIDA")
        BY <2>5, <3>1
      <3>2. CASE ped' = [ped EXCEPT ![s].perdeu = FALSE,
                   ![s].pc = IF ped[s].op = "CONFIG" THEN "grava" ELSE "arquivo"]
        <4> DEFINE p == [ped[s] EXCEPT !.perdeu = FALSE,
                           !.pc = IF ped[s].op = "CONFIG" THEN "grava" ELSE "arquivo"]
        <4>1. ped' = [ped EXCEPT ![s] = p]
          BY <3>2
        <4>2. p.resp = ped[s].resp
          BY <1>1 DEF Pedido
        <4> HIDE DEF p
        <4> QED
          BY <2>8, <4>1, <4>2
      <3> QED
        BY <2>9, <3>1, <3>2 DEF Renovar
    <2>10. CASE Desfazer(s)
      <3>1. CASE Responde(s, Relato(FALSE))
        BY <2>5, <3>1 DEF Relato
      <3>2. CASE ped' = [ped EXCEPT ![s].pc = "desliga", ![s].volta = TRUE]
        <4> DEFINE p == [ped[s] EXCEPT !.pc = "desliga", !.volta = TRUE]
        <4>1. ped' = [ped EXCEPT ![s] = p]
          BY <3>2
        <4>2. p.resp = ped[s].resp
          BY <1>1 DEF Pedido
        <4> HIDE DEF p
        <4> QED
          BY <2>8, <4>1, <4>2
      <3> QED
        BY <2>10, <3>1, <3>2 DEF Desfazer
    <2>11. CASE Provar(s)
      <3> DEFINE lido == [ped[s] EXCEPT
                            !.cred = IF ped[s].op = "CONFIG" THEN arquivo ELSE CredNova,
                            !.anterior = IF ped[s].op = "CONFIG" THEN bd.cfg ELSE Nenhum]
      <3>1. \E p \in {[lido EXCEPT !.pc = "renova"], Recusada(lido)} : ped' = [ped EXCEPT ![s] = p]
        BY <2>11 DEF Provar
      <3>2. lido.resp = ped[s].resp /\ DOMAIN lido = DOMAIN ped[s]
        BY <1>1 DEF Pedido
      <3>3. DOMAIN ped[s] = {"op", "pc", "cfg", "cred", "cli", "anterior", "volta", "sucesso", "perdeu", "resp"}
        BY <1>1 DEF Pedido
      <3> HIDE DEF lido
      <3>4. ASSUME NEW p \in {[lido EXCEPT !.pc = "renova"], Recusada(lido)}
            PROVE  p.resp \in {lido.resp, "RECUSADA"}
        BY <3>2, <3>3, <3>4 DEF Recusada
      <3> QED
        BY <2>8, <3>1, <3>2, <3>4
    <2> QED
      BY <1>4, <2>1, <2>2, <2>3, <2>6, <2>7, <2>9, <2>10, <2>11 DEF Passo
  <1>5. ASSUME NEW s \in Pedidos, NEW op \in Operacoes, Pedir(s, op) PROVE FALSE
    <2> DEFINE pc == IF op = "TESTAR" THEN IF conectado THEN "fim" ELSE "conecta"
                     ELSE IF op = "RESTAURAR" THEN "restaura" ELSE "reserva"
               p == [ped[s] EXCEPT !.op = op, !.pc = pc]
    <2>1. ped' = [ped EXCEPT ![s] = p] /\ s \in Todos
      BY <1>5, Constants DEF Pedir
    <2>2. ped[s] \in Pedido
      BY <1>1, <2>1
    <2> HIDE DEF pc
    <2>3. p.resp = ped[s].resp
      BY <2>2 DEF Pedido
    <2> HIDE DEF p
    <2> QED
      BY <1>1, <1>2, <2>1, <2>3
  <1>6. ~(Cair \/ Voltar \/ Partida \/ FimDoProcesso \/ Encerrou \/ UNCHANGED vars)
    BY <1>2 DEF Cair, Voltar, Partida, FimDoProcesso, Encerrou, vars
  <1>7. ~Executar
    <2> SUFFICES ASSUME Executar PROVE FALSE
      OBVIOUS
    <2> DEFINE t == Head(fila)
               pc == IF (t.cli # 0 /\ ~Atual(t.cli)) \/ Confere(t) THEN t.segue ELSE t.senao
               p == [ped[t.dono] EXCEPT !.pc = pc]
    <2>1. ped' = ped \/ ped' = [ped EXCEPT ![t.dono] = p]
      BY DEF Executar
    <2>2. t.dono = r /\ ped' = [ped EXCEPT ![r] = [ped[r] EXCEPT !.pc = pc]]
      BY <1>1, <1>2, <2>1
    <2> HIDE DEF pc, t
    <2>3. [ped[r] EXCEPT !.pc = pc].resp = ped[r].resp
      BY <1>1 DEF Pedido
    <2> QED
      BY <1>1, <1>2, <2>2, <2>3
  <1>8. ~Vencer
    <2> SUFFICES ASSUME Vencer PROVE FALSE
      OBVIOUS
    <2> DEFINE d == bd.token
               p == [ped[d] EXCEPT !.perdeu = TRUE]
    <2>1. ped' = [ped EXCEPT ![d] = p]
      BY DEF Vencer
    <2>2. d = r /\ ped' = [ped EXCEPT ![r] = [ped[r] EXCEPT !.perdeu = TRUE]]
      BY <1>1, <1>2, <2>1
    <2>3. [ped[r] EXCEPT !.perdeu = TRUE].resp = ped[r].resp
      BY <1>1 DEF Pedido
    <2> QED
      BY <1>1, <1>2, <2>2, <2>3
  <1>9. ~Reiniciar
    <2> SUFFICES ASSUME Reiniciar PROVE FALSE
      OBVIOUS
    <2>1. ped'[r] \in {ped[r], [Parado EXCEPT !.op = ped[r].op, !.pc = "fim", !.perdeu = TRUE]}
      BY <1>1 DEF Reiniciar
    <2>2. [Parado EXCEPT !.op = ped[r].op, !.pc = "fim", !.perdeu = TRUE].resp = Nenhum
      BY DEF Parado
    <2> QED
      BY <1>1, <1>2, <2>1, <2>2
  <1> QED
    BY <1>3, <1>4, <1>5, <1>6, <1>7, <1>8, <1>9 DEF Next

\* An update that answers that it was applied leaves its candidate in the row,
\* in the client, opened with the credentials of the file, and in the monitor.
THEOREM UpdateTheorem == Spec => UpdateConfirmed
  <1>1. ASSUME Firme, Base, Enlace, [Next]_vars, NEW r \in Pedidos, Serializado,
               Responder(r, "APLICADA")
        PROVE  bd'.cfg = Nova /\ saude' = Nova /\ cliente'.cfg = Nova /\ cliente'.cred = arquivo'
    <2>1. ConfirmarConfig(r) /\ Aplicou(r)
      BY <1>1, Confirmada
    <2>2. Corpo
      BY <1>1 DEF Enlace, Quase, Serializado
    <2>3. /\ r \in Todos /\ ped[r].pc = "confirma" /\ ped[r].op = "CONFIG"
          /\ \A s \in Todos \ {r} : ped[s].pc \in Passivos
      <3>1. r \in Todos /\ ped[r].pc = "confirma"
        BY <2>1, Constants DEF ConfirmarConfig, Em
      <3>2. Papel(ped[r]) /\ Quase
        BY <1>1, <3>1 DEF Firme, Typed, PedidosOK, Quase, Serializado
      <3> QED
        BY <1>1, <2>2, <3>1, <3>2, AtivaSo DEF Papel, Passivos
    <2>4. Fase(r) /\ Estavel
      <3>1. Parados
        BY <2>3 DEF Parados, Passivos, EmTransito
      <3> QED
        BY <2>2, <2>3, <3>1 DEF Corpo
    <2>5. ~ped[r].volta /\ ped[r].sucesso /\ cliente # SemCliente /\ cliente.cred = arquivo
      BY <2>1, <2>3, <2>4 DEF Fase, Aplicou
    <2>6. bd.cfg = Nova
      BY <2>3, <2>4, <2>5 DEF Fase, Depois
    <2>7. aplicada = bd.cfg /\ aplicada = cliente.cfg
      BY <2>1, <2>4, <2>5 DEF Aplicou, Estavel
    <2>8. bd' = bd /\ cliente' = cliente /\ arquivo' = arquivo /\ saude' = bd.cfg
      BY <2>1 DEF ConfirmarConfig, memoria
    <2> QED
      BY <2>5, <2>6, <2>7, <2>8
  <1>2. Firme /\ Base /\ Enlace /\ [Next]_vars =>
          [\A r \in Pedidos : Serializado /\ Responder(r, "APLICADA") =>
             /\ bd'.cfg = Nova /\ saude' = Nova
             /\ cliente'.cfg = Nova /\ cliente'.cred = arquivo']_vars
    BY <1>1
  <1> QED
    BY <1>2, InitFirme, FirmeStep, InitEnlace, EnlaceStep, PTL DEF Spec, UpdateConfirmed
=============================================================================
