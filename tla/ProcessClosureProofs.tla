------------------------ MODULE ProcessClosureProofs ------------------------
(***************************************************************************)
(* Theorems of ProcessClosure, for any tanks, settings and number of       *)
(* events, on the ESP32 and on the simulator: types, the tanks of an ended *)
(* process, the isolation of a retention and the safety of a conclusion.   *)
(***************************************************************************)
EXTENDS ProcessClosure, FiniteSetTheorems, TLAPS

----------------------------------------------------------------------------
(* Types.  Of the cenario only the events left change, so that the tanks   *)
(* of the process are the same in every state.                             *)

CenarioRec == [tanques : (SUBSET Tanques) \ {{}}, controlador : {"esp32", "simulador"},
               automatico : BOOLEAN, eventos : Nat,
               operacoes : SUBSET {"pausa", "retomada", "conclusao", "interrupcao", "emergencia",
                                   "auxilio", "valvula", "perda", "queda", "silencio"}]
Acks == Finais \cup {"nada", "SEM_ACK"}
Decisivos == {"falha", "repetir", "avancar", "reter", "reprovar", "concluir"}
Fila(pcs) == [pc : {"livre"} \cup pcs, tanque : Tanques \cup {Nenhum}, leu : BOOLEAN, ack : Acks]
Equipamento == [principal : BOOLEAN, abertas : SUBSET Tanques, auxiliar : BOOLEAN,
                linha : Tanques \cup {Nenhum}, ativo : BOOLEAN]
Snapshot == [apos : BOOLEAN, saidas : Saidas]

FilaOK ==
    /\ tq \in Fila({"reivindicar"} \cup Decisivos \cup ComandosTanque)
    /\ tq.pc # "livre" => tq.tanque \in Selecionados
    /\ tq.leu => tq.pc # "livre"
FilaGeralOK ==
    /\ ger \in Fila(EtapasComando)
    /\ ger.leu => ger.pc # "livre"
RequisicaoOK ==
    /\ req \in [op : Operacoes \cup {"nenhuma"}, pc : {"livre", "bombas", "valvulas", "decidir", "gravar"},
                falhou : BOOLEAN]
    /\ req.pc = "gravar" => req.op = "retomada"
    /\ req.op = "nenhuma" <=> req.pc = "livre"
MaoOK ==
    /\ mao \in [c : {"nenhum", "reabrir", "fechar_principal"}, tanque : Tanques \cup {Nenhum}]
    /\ mao # SemValvula => mao.c # "nenhum" /\ mao.tanque \in Selecionados
RespostasOK ==
    /\ respostas \in [Selecionados \cup {Geral} ->
                        [ComandosTanque -> Resposta] \cup [EtapasComando -> Resposta]]
    /\ respostas[Geral] \in [EtapasComando -> Resposta]
    /\ \A t \in Selecionados : respostas[t] \in [ComandosTanque -> Resposta]
Typed ==
    /\ cenario \in CenarioRec
    /\ processo \in Processo /\ tanques \in [Selecionados -> Tanque]
    /\ aux \in Tanques \cup {Nenhum}
    /\ FilaOK /\ FilaGeralOK /\ RequisicaoOK /\ MaoOK /\ RespostasOK
    /\ hw \in Equipamento /\ tele \in Snapshot /\ mudo \in BOOLEAN

\* A step spends one event of the cenario, or none: it stays the same process.
Mesmo ==
    /\ cenario' \in CenarioRec /\ cenario'.tanques = cenario.tanques
    /\ cenario'.operacoes = cenario.operacoes /\ cenario'.controlador = cenario.controlador
    /\ cenario'.automatico = cenario.automatico
\* Spending an event, and leaving the cenario alone, are such a step.
LEMMA CenarioFica ==
    ASSUME cenario \in CenarioRec, UNCHANGED cenario \/ \E e : Evento(e) PROVE Mesmo
  <1>1. CASE UNCHANGED cenario
    BY <1>1 DEF Mesmo
  <1>2. ASSUME NEW e, Evento(e) PROVE Mesmo
    BY <1>2 DEF Evento, CenarioRec, Mesmo
  <1> QED BY <1>1, <1>2

\* The commands that only switch off or close.
Fecham == {"desligar_auxiliar", "fechar_auxiliar", "fechar_principal", "desligar_todas", "fechar_todas"}
\* What they do to the outputs.
Fecha(h, g) ==
    /\ g.abertas \subseteq h.abertas /\ g.linha \in {h.linha, Nenhum}
    /\ g.principal => h.principal
    /\ g.auxiliar => h.auxiliar
\* Each of them does no more, also when the ESP32 protects itself at once.
LEMMA FazFecha ==
    ASSUME NEW c \in Fecham, NEW t, hw \in Equipamento
    PROVE  /\ Faz(c, t) \in Equipamento /\ Fecha(hw, Faz(c, t))
           /\ c = "fechar_principal" => t \notin Faz(c, t).abertas
           /\ c = "fechar_todas" => Faz(c, t).abertas = {} /\ Faz(c, t).linha = Nenhum
  <1>1. CASE c = "fechar_principal"
    <2> DEFINE h == [hw EXCEPT !.abertas = @ \ {t}]
    <2>1. h \in Equipamento /\ Fecha(hw, h) /\ t \notin h.abertas
      BY DEF Equipamento, Fecha
    <2>2. Faz(c, t) = Protege(h)
      BY <1>1 DEF Faz
    <2> HIDE DEF h
    <2>3. \/ Protege(h) = h
          \/ Protege(h) = [principal |-> FALSE, abertas |-> {}, auxiliar |-> FALSE, linha |-> Nenhum,
                           ativo |-> FALSE]
      BY DEF Protege
    <2>4. CASE Protege(h) = h
      BY <1>1, <2>1, <2>2, <2>4
    <2>5. CASE Protege(h) # h
      <3> DEFINE g == [principal |-> FALSE, abertas |-> {}, auxiliar |-> FALSE, linha |-> Nenhum,
                       ativo |-> FALSE]
      <3>1. g \in Equipamento /\ g.abertas = {} /\ g.linha = Nenhum /\ ~g.principal /\ ~g.auxiliar
        BY DEF Equipamento
      <3>2. Faz(c, t) = g
        BY <2>2, <2>3, <2>5
      <3> HIDE DEF g
      <3> QED BY <1>1, <3>1, <3>2 DEF Fecha
    <2> QED BY <2>4, <2>5
  <1>2. CASE c = "desligar_auxiliar"
    BY <1>2 DEF Faz, Equipamento, Fecha, Esp32
  <1>3. CASE c = "fechar_auxiliar"
    BY <1>3 DEF Faz, Equipamento, Fecha
  <1>4. CASE c = "desligar_todas"
    BY <1>4 DEF Faz, Equipamento, Fecha, Esp32
  <1>5. CASE c = "fechar_todas"
    BY <1>5 DEF Faz, Equipamento, Fecha
  <1> QED BY <1>1, <1>2, <1>3, <1>4, <1>5 DEF Fecham

\* And what the other one does.
LEMMA FazAbre ==
    ASSUME NEW t \in Tanques, hw \in Equipamento
    PROVE  /\ Faz("reabrir", t) \in Equipamento
           /\ Faz("reabrir", t) = [hw EXCEPT !.abertas = @ \cup {t}]
  BY DEF Faz, Equipamento

\* The answers that stand for an execution.
Feito == {"EXECUTADO", "ESP_EXECUTADO"}
\* A command that goes out is answered from what is stored, executed or refused.
LEMMA ExecutaPasso ==
    ASSUME hw \in Equipamento, NEW c \in Fecham \cup {"reabrir"}, NEW t,
           c = "reabrir" => t \in Tanques, NEW r, NEW e, NEW ack, Executa(c, t, r, e, ack)
    PROVE  /\ ack \in Finais /\ hw' \in Equipamento
           /\ \/ hw' = hw /\ (ack = "EXECUTADO" => respostas[r][e] \in Feito)
              \/ hw' = Faz(c, t) /\ ack = "EXECUTADO"
  <1>1. \/ /\ ack = "EXECUTADO" => respostas[r][e] \in Feito
           /\ ack \in Finais /\ hw' = hw
        \/ hw' = Faz(c, t) /\ ack = "EXECUTADO"
    BY DEF Executa, Finais, Feito
  <1>2. Faz(c, t) \in Equipamento
    BY FazFecha, FazAbre
  <1> QED BY <1>1, <1>2 DEF Finais

\* What each decision of the closure of a tank writes on its row.
LEMMA LinhaEscrita ==
    ASSUME NEW row \in Tanque
    PROVE  /\ ComFalha(row) \in Tanque /\ ComRepeticao(row) \in Tanque
           /\ \A d \in Decisivos : Escrito(row, d) \in Tanque
           /\ \A c \in ComandosTanque : Confirmado(row, c) \in Tanque
  <1>1. /\ Etapas = {"NENHUMA", "AGUARDANDO_AUXILIAR_SEGURO", "FECHANDO_VALVULA_PRINCIPAL",
                     "AGUARDANDO_LEITURA_ISOLAMENTO", "RETENDO", "REABRINDO_VALVULA_PRINCIPAL",
                     "CONCLUIDA", "FALHA"}
        /\ 0 \in 0..MaxComandos - 1
        /\ {"BLOQUEADO", "VERIFICANDO_RETENCAO"} \subseteq EmEncerramento
        /\ "MONITORANDO" \in Monitoraveis /\ "CONCLUIDO" \in TanqueTerminal
    BY DEF Etapas, MaxComandos, EmEncerramento, Monitoraveis, TanqueTerminal
  <1>2. ComFalha(row) \in Tanque
    BY <1>1 DEF ComFalha, Tanque
  <1>3. ComRepeticao(row) \in Tanque
    <2>1. CASE row.comandos + 1 >= MaxComandos
      BY <1>2, <2>1 DEF ComRepeticao
    <2>2. CASE row.comandos + 1 < MaxComandos
      <3>1. row.comandos + 1 \in 0..MaxComandos - 1
        BY <2>2 DEF MaxComandos, Tanque
      <3>2. ComRepeticao(row) = [row EXCEPT !.comandos = row.comandos + 1]
        BY <2>2, <3>1 DEF ComRepeticao, MaxComandos
      <3> QED BY <3>1, <3>2 DEF Tanque
    <2>3. row.comandos \in 0..2
      BY DEF Tanque, MaxComandos
    <2> QED BY <2>1, <2>2, <2>3 DEF MaxComandos
  <1>4. ASSUME NEW d \in Decisivos PROVE Escrito(row, d) \in Tanque
    <2>1. CASE d = "falha"
      BY <1>2, <2>1 DEF Escrito
    <2>2. CASE d = "repetir"
      BY <1>3, <2>2 DEF Escrito
    <2>3. CASE d = "avancar"
      <3>1. Escrito(row, d) = [row EXCEPT !.etapa = "FECHANDO_VALVULA_PRINCIPAL", !.comandos = 0]
        BY <2>3 DEF Escrito
      <3> QED BY <1>1, <3>1 DEF Tanque
    <2>4. CASE d = "reter"
      <3>1. Escrito(row, d) = [row EXCEPT !.etapa = "RETENDO", !.leitura = FALSE]
        BY <2>4 DEF Escrito
      <3> QED BY <1>1, <3>1 DEF Tanque
    <2>5. CASE d = "reprovar"
      <3>1. Escrito(row, d) = [row EXCEPT !.enc = "BLOQUEADO", !.comandos = 0,
                                          !.etapa = "REABRINDO_VALVULA_PRINCIPAL"]
        BY <2>5 DEF Escrito
      <3> QED BY <1>1, <3>1 DEF Tanque
    <2>6. CASE d = "concluir"
      <3>1. Escrito(row, d) = [row EXCEPT !.status = "CONCLUIDO", !.enc = "CONCLUIDO",
                                          !.etapa = "CONCLUIDA", !.comandos = 0, !.estagnado = FALSE]
        BY <2>6 DEF Escrito
      <3> QED BY <1>1, <3>1 DEF Tanque
    <2> QED BY <1>4, <2>1, <2>2, <2>3, <2>4, <2>5, <2>6 DEF Decisivos
  <1>5. ASSUME NEW c \in ComandosTanque PROVE Confirmado(row, c) \in Tanque
    <2>1. CASE c = "fechar_principal"
      <3>1. Confirmado(row, c) = [row EXCEPT !.enc = "VERIFICANDO_RETENCAO", !.comandos = 0,
                                    !.etapa = "AGUARDANDO_LEITURA_ISOLAMENTO", !.leitura = FALSE]
        BY <2>1 DEF Confirmado
      <3> QED BY <1>1, <3>1 DEF Tanque
    <2>2. CASE c = "reabrir"
      <3>1. Confirmado(row, c) = [row EXCEPT !.status = "GERANDO_VACUO", !.enc = "MONITORANDO",
                                    !.etapa = "NENHUMA", !.comandos = 0, !.estagnado = FALSE]
        BY <2>2 DEF Confirmado
      <3> QED BY <1>1, <3>1 DEF Tanque
    <2>3. CASE c \in {"desligar_auxiliar", "fechar_auxiliar"}
      <3>1. Confirmado(row, c) = [row EXCEPT !.comandos = 0]
        BY <2>3 DEF Confirmado
      <3> QED BY <1>1, <3>1 DEF Tanque
    <2> QED BY <1>5, <2>1, <2>2, <2>3 DEF ComandosTanque
  <1> QED BY <1>2, <1>3, <1>4, <1>5

\* What a reading writes: a new status of the closure only where it was being monitored,
\* or FALHA.
LEMMA LinhaMonitorada ==
    ASSUME NEW row \in Tanque, NEW valor, NEW estavel \in BOOLEAN, NEW parado \in BOOLEAN
    PROVE  LET m == Monitora(row, valor, estavel, parado) IN
           /\ m \in Tanque /\ m.status \notin TanqueTerminal
           /\ \/ m.enc = "FALHA" /\ m.etapa = "FALHA"
              \/ m.etapa = row.etapa /\ m.enc = row.enc /\ row.enc \notin Monitoraveis
              \/ m.etapa = row.etapa /\ m.enc \in Monitoraveis /\ row.enc \in Monitoraveis
  <1> DEFINE s == StatusPelaLeitura(row.status, valor, estavel)
             e == EncPelaLeitura(row.enc, s)
             x == valor = "excesso"
  <1>1. s \in {"GERANDO_VACUO", "VACUO_ATINGIDO", "VACUO_ESTABILIZADO"}
    BY DEF StatusPelaLeitura
  <1>2. /\ row.enc \notin Monitoraveis => e = row.enc
        /\ row.enc \in Monitoraveis => e \in Monitoraveis
    BY DEF EncPelaLeitura, Monitoraveis
  <1>3. row.enc \in Monitoraveis \cup EmEncerramento \cup {"CONCLUIDO", "FALHA"}
    BY DEF Tanque
  <1> DEFINE enc2 == IF x THEN "FALHA" ELSE e
             etapa2 == IF x THEN "FALHA" ELSE row.etapa
             est2 == parado /\ s = "GERANDO_VACUO"
             m == Monitora(row, valor, estavel, parado)
  <1>4. m = [row EXCEPT !.status = s, !.enc = enc2, !.etapa = etapa2, !.estagnado = est2]
    BY DEF Monitora, Tanque
  <1>5. enc2 \in Monitoraveis \cup EmEncerramento \cup {"CONCLUIDO", "FALHA"} /\ etapa2 \in Etapas
        /\ est2 \in BOOLEAN
    BY <1>2, <1>3 DEF Tanque, Etapas
  <1>6. /\ m.status = s /\ m.enc = enc2 /\ m.etapa = etapa2
        /\ m \in Tanque
    BY <1>1, <1>4, <1>5 DEF Tanque
  <1>7. s \notin TanqueTerminal
    BY <1>1 DEF TanqueTerminal
  <1>8. \/ enc2 = "FALHA" /\ etapa2 = "FALHA"
        \/ etapa2 = row.etapa /\ enc2 = row.enc /\ row.enc \notin Monitoraveis
        \/ etapa2 = row.etapa /\ enc2 \in Monitoraveis /\ row.enc \in Monitoraveis
    BY <1>2
  <1> QED BY <1>6, <1>7, <1>8

\* The decisions that write, of the general closure.
DecisoesGerais == {"falha", "aguardar", "manual", "iniciar", "validar", "recomecar", "concluir"}
\* What its decisions and its commands write on the row of the process.
LEMMA GeralTipo ==
    ASSUME processo \in Processo
    PROVE  /\ \A d \in DecisoesGerais : (d = "recomecar" => processo.comandos + 1 < MaxComandos) =>
                 GeralEscrito(processo, d) \in Processo
           /\ GeralComFalha(processo) \in Processo
           /\ Seguinte(processo) \in Processo
           /\ GeralComRepeticao(processo) \in Processo
  <1>1. /\ EtapasGerais = {"NENHUMA", "VALIDANDO_ISOLAMENTO", "CONFIRMANDO_ISOLAMENTO",
                           "DESLIGANDO_BOMBAS", "RECONFIRMANDO_VALVULAS", "AGUARDANDO_TELEMETRIA",
                           "CONCLUIDA", "FALHA"}
        /\ 0 \in 0..MaxComandos - 1
    BY DEF EtapasGerais, MaxComandos
  <1>2. GeralComFalha(processo) \in Processo
    BY <1>1 DEF GeralComFalha, Processo
  <1>3. ASSUME processo.comandos + 1 < MaxComandos
        PROVE  processo.comandos + 1 \in 0..MaxComandos - 1
    BY <1>3 DEF Processo, MaxComandos
  <1>4. ASSUME NEW d \in DecisoesGerais, d = "recomecar" => processo.comandos + 1 < MaxComandos
        PROVE  GeralEscrito(processo, d) \in Processo
    <2>1. CASE d = "recomecar"
      <3>1. GeralEscrito(processo, d) = [processo EXCEPT !.geral = "ENCERRANDO",
              !.comandos = processo.comandos + 1, !.etapa = "CONFIRMANDO_ISOLAMENTO"]
        BY <2>1 DEF GeralEscrito
      <3> QED BY <1>1, <1>3, <1>4, <2>1, <3>1 DEF Processo
    <2>2. CASE d = "falha"
      BY <1>2, <2>2 DEF GeralEscrito
    <2>3. CASE d \in {"aguardar", "manual"}
      BY <1>1, <2>3 DEF GeralEscrito, Processo
    <2>4. CASE d = "iniciar"
      <3>1. GeralEscrito(processo, d) = [processo EXCEPT !.geral = "ENCERRANDO", !.comandos = 0,
                                           !.etapa = "VALIDANDO_ISOLAMENTO"]
        BY <2>4 DEF GeralEscrito
      <3> QED BY <1>1, <3>1 DEF Processo
    <2>5. CASE d = "validar"
      BY <1>1, <2>5 DEF GeralEscrito, Processo
    <2>6. CASE d = "concluir"
      <3>1. GeralEscrito(processo, d) = [processo EXCEPT !.status = "CONCLUIDO", !.geral = "CONCLUIDO",
                                           !.etapa = "CONCLUIDA"]
        BY <2>6 DEF GeralEscrito
      <3> QED BY <1>1, <3>1 DEF Processo
    <2> QED BY <1>4, <2>1, <2>2, <2>3, <2>4, <2>5, <2>6 DEF DecisoesGerais
  <1>5. Seguinte(processo) \in Processo
    <2>1. CASE processo.etapa = "CONFIRMANDO_ISOLAMENTO"
      <3>1. Seguinte(processo) = [processo EXCEPT !.geral = "ENCERRANDO",
                                    !.etapa = "DESLIGANDO_BOMBAS", !.comandos = 0]
        BY <2>1 DEF Seguinte
      <3> QED BY <1>1, <3>1 DEF Processo
    <2>2. CASE processo.etapa = "DESLIGANDO_BOMBAS"
      <3>1. Seguinte(processo) = [processo EXCEPT !.geral = "ENCERRANDO",
                                    !.etapa = "RECONFIRMANDO_VALVULAS", !.comandos = 0]
        BY <2>2 DEF Seguinte
      <3> QED BY <1>1, <3>1 DEF Processo
    <2>3. CASE processo.etapa \notin {"CONFIRMANDO_ISOLAMENTO", "DESLIGANDO_BOMBAS"}
      <3>1. Seguinte(processo) = [processo EXCEPT !.geral = "CONFIRMANDO_HARDWARE",
                                    !.etapa = "AGUARDANDO_TELEMETRIA", !.comandos = 0]
        BY <2>3 DEF Seguinte
      <3> QED BY <1>1, <3>1 DEF Processo
    <2> QED BY <2>1, <2>2, <2>3
  <1>6. GeralComRepeticao(processo) \in Processo
    <2>1. CASE processo.comandos + 1 < MaxComandos
      <3>1. GeralComRepeticao(processo) = [processo EXCEPT !.comandos = processo.comandos + 1]
        BY <2>1 DEF GeralComRepeticao
      <3> QED BY <1>3, <2>1, <3>1 DEF Processo
    <2>2. CASE ~(processo.comandos + 1 < MaxComandos)
      BY <1>2, <2>2 DEF GeralComRepeticao
    <2> QED BY <2>1, <2>2
  <1> QED BY <1>2, <1>4, <1>5, <1>6

\* And which of them a run of the queue may reach.
LEMMA GeralDecide ==
    ASSUME processo \in Processo, NEW a
    PROVE  /\ DecisaoGeral(a) \in DecisoesGerais \cup EtapasComando \cup {"nada"}
           /\ DecisaoGeral(a) = "recomecar" => processo.comandos + 1 < MaxComandos
  <1>1. /\ DecisaoConfirmacao \in {"concluir", "nada", "falha", "recomecar"}
        /\ DecisaoConfirmacao = "recomecar" => processo.comandos + 1 < MaxComandos
    BY DEF DecisaoConfirmacao, Processo, MaxComandos
  <1>2. /\ DecisaoDaEtapa \in {"concluir", "nada", "falha", "recomecar", "validar"} \cup EtapasComando
        /\ DecisaoDaEtapa = "recomecar" => processo.comandos + 1 < MaxComandos
    BY <1>1 DEF DecisaoDaEtapa, EtapasComando
  <1> QED BY <1>2 DEF DecisaoGeral, DecisoesGerais, EtapasComando

\* What the ledger would answer keeps its type whatever is stored for one command.
LEMMA RespostasTipo ==
    ASSUME RespostasOK, NEW r \in Selecionados \cup {Geral}, NEW e, NEW v \in Resposta,
           IF r = Geral THEN e \in EtapasComando ELSE e \in ComandosTanque,
           respostas' = [respostas EXCEPT ![r][e] = v], UNCHANGED <<cenario.tanques>>
    PROVE  RespostasOK'
  BY DEF RespostasOK, Selecionados

\* A step that leaves a part as it was leaves its type too.
LEMMA TypedFica ==
    ASSUME Typed, Mesmo
    PROVE  /\ UNCHANGED tq => FilaOK'
           /\ tq' = Livre => FilaOK'
           /\ UNCHANGED ger => FilaGeralOK'
           /\ ger' = Livre => FilaGeralOK'
           /\ UNCHANGED req => RequisicaoOK'
           /\ req' = SemRequisicao => RequisicaoOK'
           /\ UNCHANGED mao => MaoOK'
           /\ UNCHANGED respostas => RespostasOK'
  <1>0. /\ Selecionados' = Selecionados
        /\ FilaOK /\ FilaGeralOK /\ RequisicaoOK /\ MaoOK /\ RespostasOK
    BY DEF Typed, Mesmo, Selecionados
  <1>1. UNCHANGED tq => FilaOK'
    BY <1>0 DEF FilaOK
  <1>2. UNCHANGED ger => FilaGeralOK'
    BY <1>0 DEF FilaGeralOK
  <1>3. ger' = Livre => FilaGeralOK'
    BY DEF FilaGeralOK, Livre, Fila, Acks
  <1>4. UNCHANGED req => RequisicaoOK'
    BY <1>0 DEF RequisicaoOK
  <1>5. req' = SemRequisicao => RequisicaoOK'
    BY DEF RequisicaoOK, SemRequisicao
  <1>6. UNCHANGED mao => MaoOK'
    BY <1>0 DEF MaoOK
  <1>7. UNCHANGED respostas => RespostasOK'
    BY <1>0 DEF RespostasOK
  <1>8. tq' = Livre => FilaOK'
    BY DEF FilaOK, Livre, Fila, Acks
  <1> QED BY <1>1, <1>2, <1>3, <1>4, <1>5, <1>6, <1>7, <1>8

\* The steps of the queue of the tank closure that write no row.
LEMMA FilaTipo ==
    ASSUME Typed
    PROVE  /\ \A t \in Selecionados : LerPronto(t) => Typed'
           /\ \A t \in Selecionados : Avaliar(t) => Typed'
           /\ Comandar => Typed'
           /\ TPerde => Typed'
  <1>1. ASSUME NEW t \in Selecionados, LerPronto(t) \/ Avaliar(t) PROVE Typed'
    <2>1. PICK d : tq' = [pc |-> d, tanque |-> t, leu |-> TRUE, ack |-> "nada"]
                   /\ d \in {"reivindicar"} \cup Decisivos \cup ComandosTanque
      BY <1>1 DEF LerPronto, Avaliar, TLe, Decisoes, AuxiliarSeguro, Decisivos, ComandosTanque
    <2>2. UNCHANGED cenario
      BY <1>1 DEF LerPronto, Avaliar
    <2>3. Mesmo
      BY <2>2, CenarioFica DEF Typed
    <2>4. t \in Tanques /\ d # "livre"
      BY <2>1 DEF Typed, CenarioRec, Selecionados, Decisivos, ComandosTanque
    <2>5. FilaOK'
      BY <1>1, <2>1, <2>2, <2>4 DEF FilaOK, Fila, Acks, Selecionados
    <2>6. UNCHANGED <<processo, tanques, aux, ger, req, respostas, hw, tele, mudo, mao>>
      BY <1>1 DEF LerPronto, Avaliar
    <2> QED BY <2>2, <2>3, <2>5, <2>6, TypedFica DEF Typed, Selecionados
  <1>2. ASSUME Comandar PROVE Typed'
    <2>1. PICK ack \in Finais \cup {"SEM_ACK"} :
            /\ IF ack = "SEM_ACK" THEN UNCHANGED hw
               ELSE Executa(tq.pc, tq.tanque, tq.tanque, tq.pc, ack)
            /\ tq' = [tq EXCEPT !.ack = ack]
      BY <1>2 DEF Comandar
    <2>2. tq.pc \in ComandosTanque /\ tq.tanque \in Tanques
      BY <1>2 DEF Comandar, Typed, FilaOK, ComandosTanque, CenarioRec, Selecionados
    <2>3. hw' \in Equipamento
      BY <2>1, <2>2, ExecutaPasso DEF Typed, ComandosTanque, Fecham
    <2>4. UNCHANGED <<cenario, processo, tanques, aux, ger, req, respostas, tele, mudo, mao>>
      BY <1>2 DEF Comandar
    <2>5. Mesmo
      BY <2>4, CenarioFica DEF Typed
    <2>6. FilaOK'
      BY <2>1, <2>4 DEF Typed, FilaOK, Fila, Acks, Selecionados
    <2> QED BY <2>3, <2>4, <2>5, <2>6, TypedFica DEF Typed, Selecionados
  <1>3. ASSUME TPerde PROVE Typed'
    <2>1. Mesmo
      BY <1>3, CenarioFica DEF TPerde, Typed
    <2>2. FilaOK'
      BY <1>3, <2>1 DEF TPerde, Typed, FilaOK, Fila, Acks, Selecionados, Mesmo
    <2>3. tq.tanque \in Selecionados /\ tq.tanque # Geral /\ tq.pc \in ComandosTanque
      BY <1>3, ClosureAssumption DEF TPerde, Typed, FilaOK, ComandosTanque, CenarioRec, Selecionados
    <2>4. RespostasOK'
      <3> DEFINE v == (IF /\ Esp32 /\ respostas[tq.tanque][tq.pc] = "nenhuma"
                          /\ tq.ack \in {"EXECUTADO", "RECUSADO"}
                       THEN IF tq.ack = "EXECUTADO" THEN "ESP_EXECUTADO" ELSE "ESP_RECUSADO"
                       ELSE respostas[tq.tanque][tq.pc])
      <3>1. v \in Resposta
        BY <2>3 DEF Typed, RespostasOK, Resposta
      <3>2. respostas' = [respostas EXCEPT ![tq.tanque][tq.pc] = v]
        BY <1>3 DEF TPerde, GuardaPerdida
      <3> HIDE DEF v
      <3> QED BY <2>1, <2>3, <3>1, <3>2, RespostasTipo DEF Typed, Mesmo
    <2>5. UNCHANGED <<processo, tanques, aux, ger, req, hw, tele, mudo, mao>>
      BY <1>3 DEF TPerde
    <2> QED BY <2>1, <2>2, <2>4, <2>5, TypedFica DEF Typed, Selecionados, Mesmo
  <1> QED BY <1>1, <1>2, <1>3

\* Its steps that write the row of the tank, and the readings.
LEMMA TanqueTipo ==
    ASSUME Typed
    PROVE  /\ ClaimIsolation => Typed'
           /\ Decidir => Typed'
           /\ Consolidar => Typed'
           /\ \A t \in Selecionados : Leitura(t) => Typed'
  <1>0. tanques \in [Selecionados -> Tanque] /\ RespostasOK
    BY DEF Typed
  <1>1. ASSUME ClaimIsolation PROVE Typed'
    <2> DEFINE t == tq.tanque
    <2>1. t \in Selecionados /\ t # Geral
      BY <1>1, ClosureAssumption DEF ClaimIsolation, Typed, FilaOK, CenarioRec, Selecionados
    <2>2. UNCHANGED <<cenario, processo, aux, ger, req, hw, tele, mudo, mao>> /\ tq' = Livre
      BY <1>1 DEF ClaimIsolation, TTermina
    <2>3. Mesmo
      BY <2>2, CenarioFica DEF Typed
    <2>4. tanques' \in [Selecionados -> Tanque]
      <3>1. tanques[t] \in Tanque
        BY <1>0, <2>1
      <3> DEFINE n == [tanques[t] EXCEPT !.enc = "ISOLANDO",
                         !.etapa = "AGUARDANDO_AUXILIAR_SEGURO", !.comandos = 0]
      <3>2. n \in Tanque
        <4>1. /\ "ISOLANDO" \in EmEncerramento /\ "AGUARDANDO_AUXILIAR_SEGURO" \in Etapas
              /\ 0 \in 0..MaxComandos - 1
          BY DEF EmEncerramento, Etapas, MaxComandos
        <4> QED BY <3>1, <4>1 DEF Tanque
      <3>3. tanques' = tanques \/ tanques' = [tanques EXCEPT ![t] = n]
        BY <1>0, <1>1, <2>1 DEF ClaimIsolation
      <3> HIDE DEF n
      <3> QED BY <1>0, <2>1, <3>2, <3>3
    <2>5. RespostasOK'
      <3> DEFINE v == SemRespostas(ComandosTanque)
      <3>1. v \in [ComandosTanque -> Resposta]
        BY DEF SemRespostas, Resposta
      <3>2. respostas' = respostas \/ respostas' = [respostas EXCEPT ![t] = v]
        BY <1>1 DEF ClaimIsolation, NovasRespostas
      <3> HIDE DEF v
      <3> QED BY <1>0, <2>1, <2>2, <3>1, <3>2 DEF RespostasOK, Selecionados
    <2> QED BY <2>2, <2>3, <2>4, <2>5, TypedFica DEF Typed, Selecionados
  <1>2. ASSUME Decidir PROVE Typed'
    <2> DEFINE t == tq.tanque
    <2>1. t \in Selecionados /\ tq.pc \in Decisivos
      BY <1>2 DEF Decidir, Typed, FilaOK, Decisivos
    <2>2. UNCHANGED <<cenario, processo, aux, ger, req, respostas, hw, tele, mudo, mao>> /\ tq' = Livre
      BY <1>2 DEF Decidir, TTermina
    <2>3. Mesmo
      BY <2>2, CenarioFica DEF Typed
    <2>4. tanques' \in [Selecionados -> Tanque]
      <3>1. Escrito(tanques[t], tq.pc) \in Tanque
        BY <1>0, <2>1, LinhaEscrita
      <3>2. tanques' = tanques \/ tanques' = [tanques EXCEPT ![t] = Escrito(tanques[t], tq.pc)]
        BY <1>2 DEF Decidir
      <3> QED BY <1>0, <2>1, <3>1, <3>2
    <2> QED BY <2>2, <2>3, <2>4, TypedFica DEF Typed, Selecionados
  <1>3. ASSUME Consolidar PROVE Typed'
    <2> DEFINE t == tq.tanque
    <2>1. t \in Selecionados /\ t # Geral /\ tq.pc \in ComandosTanque
      BY <1>3, ClosureAssumption DEF Consolidar, Typed, FilaOK, ComandosTanque, CenarioRec, Selecionados
    <2>2. UNCHANGED <<cenario, processo, ger, req, hw, tele, mudo, mao>> /\ tq' = Livre
      BY <1>3 DEF Consolidar, TTermina
    <2>3. Mesmo
      BY <2>2, CenarioFica DEF Typed
    <2>4. tanques' \in [Selecionados -> Tanque]
      <3> DEFINE n == IF tq.ack = "EXECUTADO" THEN Confirmado(tanques[t], tq.pc)
                      ELSE ComRepeticao(tanques[t])
      <3>1. n \in Tanque
        BY <1>0, <2>1, LinhaEscrita
      <3>2. tanques' = tanques \/ tanques' = [tanques EXCEPT ![t] = n]
        BY <1>3 DEF Consolidar
      <3> HIDE DEF n
      <3> QED BY <1>0, <2>1, <3>1, <3>2
    <2>5. RespostasOK'
      <3> DEFINE v == IF tq.ack \in Finais THEN tq.ack ELSE respostas[t][tq.pc]
      <3>1. v \in Resposta
        BY <1>0, <2>1 DEF RespostasOK, Resposta
      <3>2. respostas' = [respostas EXCEPT ![t][tq.pc] = v]
        BY <1>3 DEF Consolidar, Guarda
      <3> HIDE DEF v
      <3> QED BY <1>0, <2>1, <2>2, <3>1, <3>2, RespostasTipo
    <2>6. aux' \in Tanques \cup {Nenhum}
      BY <1>3 DEF Consolidar, Typed
    <2> QED BY <2>2, <2>3, <2>4, <2>5, <2>6, TypedFica DEF Typed, Selecionados
  <1>4. ASSUME NEW t \in Selecionados, Leitura(t) PROVE Typed'
    <2>1. UNCHANGED <<cenario, processo, aux, ger, req, respostas, hw, tele, mudo, mao>>
      BY <1>4 DEF Leitura
    <2>2. Mesmo
      BY <2>1, CenarioFica DEF Typed
    <2> DEFINE ignorada == ~EmExecucao \/ tanques[t].status \in TanqueTerminal
               Lido(v, e, p) == IF ignorada THEN tanques[t] ELSE Monitora(tanques[t], v, e, p)
    <2>3. PICK valor \in {"fora", "alvo", "excesso"}, estavel \in BOOLEAN, parado \in BOOLEAN :
            /\ tanques' = [tanques EXCEPT ![t] = Marcada(Lido(valor, estavel, parado))]
            /\ tq' = tq \/ tq' = Invalida(tq, t)
      BY <1>4 DEF Leitura
    <2> DEFINE row == Lido(valor, estavel, parado)
    <2>4. row \in Tanque
      BY <1>0, LinhaMonitorada
    <2>5. tanques' = [tanques EXCEPT ![t] = Marcada(row)] /\ (tq' = tq \/ tq' = Invalida(tq, t))
      BY <2>3
    <2> HIDE DEF row
    <2>6. tanques' \in [Selecionados -> Tanque]
      <3> DEFINE n == [row EXCEPT !.leitura = row.leitura \/ row.etapa = "AGUARDANDO_LEITURA_ISOLAMENTO"]
      <3>1. n \in Tanque
        BY <2>4 DEF Tanque
      <3>2. tanques' = [tanques EXCEPT ![t] = n]
        BY <2>5 DEF Marcada
      <3> HIDE DEF n
      <3> QED BY <1>0, <3>1, <3>2
    <2>7. FilaOK'
      BY <2>1, <2>5 DEF Typed, FilaOK, Fila, Acks, Selecionados, Invalida
    <2> QED BY <2>1, <2>2, <2>6, <2>7, TypedFica DEF Typed, Selecionados
  <1> QED BY <1>1, <1>2, <1>3, <1>4

\* The steps of the general closure.
LEMMA GeralPassoTipo ==
    ASSUME Typed
    PROVE  /\ AvaliarGeral => Typed'
           /\ IniciarManual => Typed'
           /\ ClaimStep => Typed'
           /\ GPerde => Typed'
           /\ ConsolidarGeral => Typed'
  <1>0. RespostasOK /\ processo \in Processo /\ tele \in Snapshot /\ hw \in Equipamento /\ FilaGeralOK
        /\ aux \in Tanques \cup {Nenhum}
    BY DEF Typed
  <1>1. ASSUME NEW d \in DecisoesGerais, d = "recomecar" => processo.comandos + 1 < MaxComandos,
               Escreve(d), UNCHANGED cenario
        PROVE  processo' \in Processo /\ tele' \in Snapshot /\ RespostasOK' /\ ger' = ger
               /\ aux' \in Tanques \cup {Nenhum}
    <2>1. processo' \in Processo
      BY <1>0, <1>1, GeralTipo DEF Escreve
    <2>2. tele' \in Snapshot
      <3>1. tele' = tele \/ tele' = [tele EXCEPT !.apos = FALSE]
        BY <1>1 DEF Escreve
      <3> QED BY <1>0, <3>1 DEF Snapshot
    <2>3. RespostasOK'
      <3> DEFINE v == SemRespostas(EtapasComando)
      <3>1. v \in [EtapasComando -> Resposta]
        BY DEF SemRespostas, Resposta
      <3>2. respostas' = respostas \/ respostas' = [respostas EXCEPT ![Geral] = v]
        BY <1>1 DEF Escreve, NovasRespostas
      <3>3. Geral \notin Selecionados
        BY ClosureAssumption DEF Typed, CenarioRec, Selecionados
      <3> HIDE DEF v
      <3> QED BY <1>0, <1>1, <3>1, <3>2, <3>3 DEF RespostasOK, Selecionados
    <2>4. ger' = ger /\ aux' \in Tanques \cup {Nenhum}
      BY <1>0, <1>1 DEF Escreve
    <2> QED BY <2>1, <2>2, <2>3, <2>4
  <1>2. ASSUME AvaliarGeral PROVE Typed'
    <2>1. UNCHANGED <<cenario, tanques, tq, req, hw, mudo, mao>>
      BY <1>2 DEF AvaliarGeral
    <2>2. Mesmo
      BY <2>1, CenarioFica DEF Typed
    <2>3. PICK a \in BOOLEAN :
            /\ DecisaoGeral(a) # "nada"
            /\ IF DecisaoGeral(a) \in EtapasComando
               THEN ger' = [Livre EXCEPT !.pc = DecisaoGeral(a), !.leu = TRUE]
                    /\ UNCHANGED <<processo, tele, respostas, aux>>
               ELSE Escreve(DecisaoGeral(a))
      BY <1>2 DEF AvaliarGeral
    <2>4. CASE DecisaoGeral(a) \in EtapasComando
      <3>1. FilaGeralOK'
        BY <2>3, <2>4 DEF Livre, FilaGeralOK, Fila, EtapasComando, Acks
      <3> QED BY <2>1, <2>2, <2>3, <2>4, <3>1, TypedFica DEF Typed, Selecionados
    <2>5. CASE DecisaoGeral(a) \notin EtapasComando
      <3>1. DecisaoGeral(a) \in DecisoesGerais
            /\ (DecisaoGeral(a) = "recomecar" => processo.comandos + 1 < MaxComandos)
        BY <1>0, <2>3, <2>5, GeralDecide
      <3>2. processo' \in Processo /\ tele' \in Snapshot /\ RespostasOK' /\ ger' = ger
            /\ aux' \in Tanques \cup {Nenhum}
        BY <1>1, <2>1, <2>3, <2>5, <3>1
      <3> QED BY <2>1, <2>2, <3>2, TypedFica DEF Typed, Selecionados
    <2> QED BY <2>4, <2>5
  <1>3. ASSUME IniciarManual PROVE Typed'
    <2>1. UNCHANGED <<cenario, tanques, tq, req, hw, mudo, mao>> /\ Escreve("iniciar")
      BY <1>3 DEF IniciarManual
    <2>2. Mesmo
      BY <2>1, CenarioFica DEF Typed
    <2>3. processo' \in Processo /\ tele' \in Snapshot /\ RespostasOK' /\ ger' = ger
          /\ aux' \in Tanques \cup {Nenhum}
      BY <1>1, <2>1 DEF DecisoesGerais
    <2> QED BY <2>1, <2>2, <2>3, TypedFica DEF Typed, Selecionados
  <1>4. ASSUME ClaimStep PROVE Typed'
    <2>1. UNCHANGED <<cenario, processo, tanques, aux, tq, req, respostas, tele, mudo, mao>>
      BY <1>4 DEF ClaimStep
    <2>2. Mesmo
      BY <2>1, CenarioFica DEF Typed
    <2>3. CASE ger' = Livre /\ UNCHANGED hw
      BY <2>1, <2>2, <2>3, TypedFica DEF Typed, Selecionados
    <2>4. CASE ~(ger' = Livre /\ UNCHANGED hw)
      <3>1. PICK ack \in Finais :
              /\ Executa(ComandoDaEtapa(ger.pc), Nenhum, Geral, ger.pc, ack)
              /\ ger' = [ger EXCEPT !.ack = ack]
        BY <1>4, <2>4 DEF ClaimStep
      <3>2. ComandoDaEtapa(ger.pc) \in Fecham
        BY DEF ComandoDaEtapa, Fecham
      <3>3. ComandoDaEtapa(ger.pc) # "reabrir"
        BY DEF ComandoDaEtapa
      <3>4. hw' \in Equipamento
        BY <1>0, <3>1, <3>2, <3>3, ExecutaPasso
      <3>5. FilaGeralOK'
        BY <1>0, <3>1 DEF FilaGeralOK, Fila, Acks
      <3> QED BY <2>1, <2>2, <3>4, <3>5, TypedFica DEF Typed, Selecionados
    <2> QED BY <2>3, <2>4
  <1>5. ASSUME GPerde PROVE Typed'
    <2>1. Mesmo
      BY <1>5, CenarioFica DEF GPerde, Typed
    <2>2. FilaGeralOK'
      BY <1>0, <1>5 DEF GPerde, FilaGeralOK, Fila, Acks
    <2>3. RespostasOK'
      <3> DEFINE v == (IF /\ Esp32 /\ respostas[Geral][ger.pc] = "nenhuma"
                          /\ ger.ack \in {"EXECUTADO", "RECUSADO"}
                       THEN IF ger.ack = "EXECUTADO" THEN "ESP_EXECUTADO" ELSE "ESP_RECUSADO"
                       ELSE respostas[Geral][ger.pc])
      <3>0. ger.pc \in EtapasComando
        BY <1>5 DEF GPerde
      <3>1. v \in Resposta
        BY <1>0, <3>0 DEF RespostasOK, Resposta
      <3>2. respostas' = [respostas EXCEPT ![Geral][ger.pc] = v]
        BY <1>5 DEF GPerde, GuardaPerdida
      <3> HIDE DEF v
      <3> QED BY <1>0, <2>1, <3>0, <3>1, <3>2, RespostasTipo DEF Mesmo
    <2>4. UNCHANGED <<processo, tanques, aux, tq, req, hw, tele, mudo, mao>>
      BY <1>5 DEF GPerde
    <2> QED BY <2>1, <2>2, <2>3, <2>4, TypedFica DEF Typed, Selecionados, Mesmo
  <1>6. ASSUME ConsolidarGeral PROVE Typed'
    <2>1. UNCHANGED <<cenario, tanques, aux, tq, req, hw, tele, mudo, mao>> /\ ger' = Livre
      BY <1>6 DEF ConsolidarGeral
    <2>2. Mesmo
      BY <2>1, CenarioFica DEF Typed
    <2>3. processo' \in Processo
      BY <1>0, <1>6, GeralTipo DEF ConsolidarGeral
    <2>4. RespostasOK'
      <3> DEFINE v == IF ger.ack \in Finais THEN ger.ack ELSE respostas[Geral][ger.pc]
      <3>0. ger.pc \in EtapasComando
        BY <1>6 DEF ConsolidarGeral
      <3>1. v \in Resposta
        BY <1>0, <3>0 DEF RespostasOK, Resposta
      <3>2. respostas' = [respostas EXCEPT ![Geral][ger.pc] = v]
        BY <1>6 DEF ConsolidarGeral, Guarda
      <3> HIDE DEF v
      <3> QED BY <1>0, <2>1, <3>0, <3>1, <3>2, RespostasTipo
    <2> QED BY <2>1, <2>2, <2>3, <2>4, TypedFica DEF Typed, Selecionados
  <1> QED BY <1>2, <1>3, <1>4, <1>5, <1>6

\* The requests that change the process.
LEMMA RequisicaoTipo ==
    ASSUME Typed
    PROVE  /\ \A op \in Operacoes : Requisitar(op) => Typed'
           /\ PararBombas => Typed'
           /\ PararValvulas => Typed'
           /\ Energizar => Typed'
           /\ Gravar => Typed'
           /\ Emergencia => Typed'
  <1>0. /\ processo \in Processo /\ tele \in Snapshot /\ hw \in Equipamento /\ RequisicaoOK /\ FilaOK
        /\ FilaGeralOK /\ tanques \in [Selecionados -> Tanque] /\ Selecionados \subseteq Tanques
    BY DEF Typed, CenarioRec, Selecionados
  <1>1. ASSUME NEW op \in Operacoes, Requisitar(op) PROVE Typed'
    <2>1. UNCHANGED <<processo, tanques, aux, tq, ger, respostas, hw, tele, mudo, mao>>
      BY <1>1 DEF Requisitar
    <2>2. Mesmo
      BY <1>1, CenarioFica DEF Requisitar, Typed
    <2>3. RequisicaoOK'
      BY <1>1 DEF Requisitar, RequisicaoOK, Operacoes
    <2> QED BY <2>1, <2>2, <2>3, TypedFica DEF Typed, Selecionados, Mesmo
  <1>2. ASSUME NEW pc, NEW c \in {"desligar_todas", "fechar_todas"}, NEW s \in {"valvulas", "decidir"},
               pc \in {"bombas", "valvulas"}, ReqComanda(pc, c, s)
        PROVE  Typed'
    <2>1. UNCHANGED <<processo, tanques, aux, tq, ger, respostas, tele, mudo, mao>>
      BY <1>2 DEF ReqComanda
    <2>2. UNCHANGED cenario \/ Evento("perda")
      BY <1>2 DEF ReqComanda
    <2>3. Mesmo
      BY <2>2, CenarioFica DEF Typed
    <2>4. hw' \in {hw, Faz(c, Nenhum)}
      BY <1>2 DEF ReqComanda
    <2>5. hw' \in Equipamento
      BY <1>0, <2>4, FazFecha DEF Fecham
    <2>6. req.pc = pc /\ (req' = [req EXCEPT !.pc = s] \/ req' = [req EXCEPT !.pc = s, !.falhou = TRUE])
      BY <1>2 DEF ReqComanda
    <2>7. RequisicaoOK'
      BY <1>0, <1>2, <2>6 DEF RequisicaoOK
    <2> QED BY <2>1, <2>3, <2>5, <2>7, TypedFica DEF Typed, Selecionados, Mesmo
  <1>3. ASSUME Energizar PROVE Typed'
    <2>1. UNCHANGED <<cenario, processo, tanques, aux, tq, ger, respostas, mudo, mao>>
      BY <1>3 DEF Energizar
    <2>2. Mesmo
      BY <2>1, CenarioFica DEF Typed
    <2>3. hw' \in Equipamento
      <3> DEFINE h == [hw EXCEPT !.principal = TRUE, !.abertas = Selecionados, !.ativo = TRUE]
      <3>1. h \in Equipamento
        BY <1>0 DEF Equipamento
      <3>2. hw' = hw \/ hw' = h
        BY <1>3 DEF Energizar
      <3> HIDE DEF h
      <3> QED BY <1>0, <3>1, <3>2
    <2>4. tele' \in Snapshot
      <3>1. tele' = tele \/ tele' = [tele EXCEPT !.saidas = Reporta(hw')]
        BY <1>3 DEF Energizar
      <3>2. Reporta(hw') \in Saidas
        BY <2>3 DEF Equipamento, Reporta, Saidas
      <3> QED BY <1>0, <3>1, <3>2 DEF Snapshot
    <2>5. RequisicaoOK'
      <3>1. req' = SemRequisicao \/ req' = [req EXCEPT !.pc = "gravar"]
        BY <1>3 DEF Energizar
      <3>2. req.op = "retomada"
        BY <1>3 DEF Energizar
      <3>3. req' = SemRequisicao => RequisicaoOK'
        BY <2>2, TypedFica
      <3>4. req' = [req EXCEPT !.pc = "gravar"] => RequisicaoOK'
        BY <1>0, <3>2 DEF RequisicaoOK
      <3> QED BY <3>1, <3>3, <3>4
    <2> QED BY <2>1, <2>2, <2>3, <2>4, <2>5, TypedFica DEF Typed, Selecionados, Mesmo
  <1>4. ASSUME NEW st \in {"CONCLUIDO", "INTERROMPIDO"}, NEW e \in {"CONCLUIDO", "BLOQUEADO"},
               NEW et \in {"CONCLUIDA", "NENHUMA"}
        PROVE  /\ [processo EXCEPT !.status = st] \in Processo
               /\ [t \in Selecionados |-> [tanques[t] EXCEPT !.status = st, !.enc = e,
                                             !.etapa = et, !.estagnado = FALSE]] \in [Selecionados -> Tanque]
    <2>1. st \in TanqueTerminal /\ et \in Etapas /\ e \in EmEncerramento \cup {"CONCLUIDO"}
      BY DEF TanqueTerminal, Etapas, EmEncerramento
    <2>2. ASSUME NEW t \in Selecionados
          PROVE  [tanques[t] EXCEPT !.status = st, !.enc = e, !.etapa = et, !.estagnado = FALSE] \in Tanque
      BY <1>0, <2>1 DEF Tanque
    <2> QED BY <1>0, <2>2 DEF Processo
  <1>6. ASSUME Gravar PROVE Typed'
    <2>1. UNCHANGED <<cenario, ger, respostas, hw, tele, mudo, mao>> /\ req' = SemRequisicao
      BY <1>6 DEF Gravar
    <2>2. Mesmo
      BY <2>1, CenarioFica DEF Typed
    <2>3. \/ UNCHANGED <<processo, tanques, aux, tq>>
          \/ \E st \in {"PAUSADO", "EM_EXECUCAO"} : /\ processo' = [processo EXCEPT !.status = st]
                                                    /\ aux' = Nenhum /\ UNCHANGED <<tanques, tq>>
          \/ Final("CONCLUIDO", "CONCLUIDO", "CONCLUIDO", "CONCLUIDA")
          \/ Final("INTERROMPIDO", "INTERROMPIDO", "BLOQUEADO", "NENHUMA")
      BY <1>6 DEF Gravar
    <2>4. ASSUME NEW st \in {"CONCLUIDO", "INTERROMPIDO"}, NEW e \in {"CONCLUIDO", "BLOQUEADO"},
                 NEW et \in {"CONCLUIDA", "NENHUMA"}, Final(st, st, e, et)
          PROVE  Typed'
      <3>1. processo' \in Processo /\ tanques' \in [Selecionados -> Tanque] /\ aux' = Nenhum
        BY <1>4, <2>4 DEF Final
      <3>2. FilaOK'
        BY <1>0, <2>1, <2>4 DEF Final, FilaOK, Fila, Acks, Selecionados
      <3> QED BY <2>1, <2>2, <3>1, <3>2, TypedFica DEF Typed, Selecionados
    <2>5. CASE UNCHANGED <<processo, tanques, aux, tq>>
      BY <2>1, <2>2, <2>5, TypedFica DEF Typed, Selecionados
    <2>6. ASSUME NEW st \in {"PAUSADO", "EM_EXECUCAO"}, processo' = [processo EXCEPT !.status = st],
                 aux' = Nenhum, UNCHANGED <<tanques, tq>>
          PROVE  Typed'
      <3>1. processo' \in Processo
        BY <1>0, <2>6 DEF Processo
      <3> QED BY <2>1, <2>2, <2>6, <3>1, TypedFica DEF Typed, Selecionados
    <2> QED BY <2>3, <2>4, <2>5, <2>6
  <1>7. ASSUME Emergencia PROVE Typed'
    <2>1. UNCHANGED <<req, respostas, hw, tele, mudo, mao>>
      BY <1>7 DEF Emergencia
    <2>2. Mesmo
      BY <1>7, CenarioFica DEF Emergencia, Typed
    <2>3. processo' \in Processo
      <3>1. /\ "CONFIRMANDO_ISOLAMENTO" \in EtapasGerais /\ 0 \in 0..MaxComandos - 1
        BY DEF EtapasGerais, MaxComandos
      <3>2. processo' = [processo EXCEPT !.status = "INTERROMPIDO", !.geral = "ENCERRANDO",
                                         !.etapa = "CONFIRMANDO_ISOLAMENTO", !.comandos = 0]
        BY <1>7 DEF Emergencia
      <3> QED BY <1>0, <3>1, <3>2 DEF Processo
    <2>4. tanques' \in [Selecionados -> Tanque] /\ aux' = Nenhum
      <3>1. "INTERROMPIDO" \in TanqueTerminal /\ "NENHUMA" \in Etapas /\ "BLOQUEADO" \in EmEncerramento
        BY DEF TanqueTerminal, Etapas, EmEncerramento
      <3>2. ASSUME NEW t \in Selecionados
            PROVE  [tanques[t] EXCEPT !.status = "INTERROMPIDO", !.enc = "BLOQUEADO",
                                      !.etapa = "NENHUMA"] \in Tanque
        BY <1>0, <3>1 DEF Tanque
      <3> QED BY <1>7, <3>2 DEF Emergencia
    <2>5. FilaOK'
      BY <1>0, <1>7, <2>2 DEF Emergencia, FilaOK, Fila, Acks, Selecionados, Mesmo
    <2>6. FilaGeralOK'
      BY <1>0, <1>7 DEF Emergencia, FilaGeralOK, Fila, Acks
    <2> QED BY <2>1, <2>2, <2>3, <2>4, <2>5, <2>6, TypedFica DEF Typed, Selecionados, Mesmo
  <1> QED BY <1>1, <1>2, <1>3, <1>6, <1>7 DEF PararBombas, PararValvulas

\* The steps of the controller, of the persons and of the failures.
LEMMA AmbienteTipo ==
    ASSUME Typed
    PROVE  /\ Telemetria => Typed'
           /\ Silencio => Typed'
           /\ \A t \in Selecionados : OperarValvula(t) => Typed'
           /\ MoverValvula => Typed'
           /\ \A t \in Selecionados : AbrirAuxiliar(t) => Typed'
           /\ LigarAuxiliar => Typed'
           /\ EncerrarAuxilio => Typed'
           /\ Queda => Typed'
  <1>0. /\ hw \in Equipamento /\ Selecionados \subseteq Tanques /\ aux \in Tanques \cup {Nenhum}
        /\ mudo \in BOOLEAN /\ RespostasOK /\ MaoOK
    BY DEF Typed, CenarioRec, Selecionados
  <1>1. ASSUME Telemetria PROVE Typed'
    <2>1. UNCHANGED <<cenario, processo, tanques, aux, tq, ger, req, mao, respostas, hw, mudo>>
      BY <1>1 DEF Telemetria, fila
    <2>2. Mesmo
      BY <2>1, CenarioFica DEF Typed
    <2>3. tele' \in Snapshot
      <3>1. Reporta(hw) \in Saidas
        BY <1>0 DEF Equipamento, Reporta, Saidas
      <3> QED BY <1>1, <3>1 DEF Telemetria, Snapshot
    <2> QED BY <2>1, <2>2, <2>3, TypedFica DEF Typed, Selecionados
  <1>2. ASSUME Silencio PROVE Typed'
    <2>1. UNCHANGED <<processo, tanques, aux, tq, ger, req, mao, respostas, hw, tele>> /\ mudo' = TRUE
      BY <1>2 DEF Silencio, fila
    <2>2. Mesmo
      BY <1>2, CenarioFica DEF Silencio, Typed
    <2> QED BY <2>1, <2>2, TypedFica DEF Typed, Selecionados, Mesmo
  <1>3. ASSUME NEW t \in Selecionados, OperarValvula(t) PROVE Typed'
    <2>1. UNCHANGED <<processo, tanques, aux, tq, ger, req, respostas, hw, tele, mudo>>
      BY <1>3 DEF OperarValvula
    <2>2. Mesmo
      BY <1>3, CenarioFica DEF OperarValvula, Typed
    <2>3. MaoOK'
      <3>1. PICK c \in {"reabrir", "fechar_principal"} : mao' = [c |-> c, tanque |-> t]
        BY <1>3 DEF OperarValvula
      <3> QED BY <1>0, <2>2, <3>1 DEF MaoOK, Selecionados, Mesmo
    <2> QED BY <2>1, <2>2, <2>3, TypedFica DEF Typed, Selecionados, Mesmo
  <1>4. ASSUME MoverValvula PROVE Typed'
    <2>1. UNCHANGED <<cenario, processo, tanques, aux, tq, ger, req, respostas, tele, mudo>>
      BY <1>4 DEF MoverValvula
    <2>2. Mesmo
      BY <2>1, CenarioFica DEF Typed
    <2>3. mao # SemValvula /\ mao' = SemValvula /\ hw' \in {hw, Faz(mao.c, mao.tanque)}
      BY <1>4 DEF MoverValvula
    <2>4. mao.c \in {"reabrir", "fechar_principal"} /\ mao.tanque \in Tanques
      BY <1>0, <2>3 DEF MaoOK
    <2>5. Faz(mao.c, mao.tanque) \in Equipamento
      BY <1>0, <2>4, FazFecha, FazAbre DEF Fecham
    <2>6. MaoOK'
      BY <2>3 DEF MaoOK, SemValvula
    <2> QED BY <1>0, <2>1, <2>2, <2>3, <2>5, <2>6, TypedFica DEF Typed, Selecionados
  <1>5. ASSUME NEW t \in Selecionados, AbrirAuxiliar(t) PROVE Typed'
    <2>1. UNCHANGED <<processo, tanques, tq, ger, req, respostas, tele, mudo, mao>>
          /\ aux' = t /\ hw' = [hw EXCEPT !.linha = t]
      BY <1>5 DEF AbrirAuxiliar
    <2>2. Mesmo
      BY <1>5, CenarioFica DEF AbrirAuxiliar, Typed
    <2>3. hw' \in Equipamento /\ aux' \in Tanques
      BY <1>0, <2>1 DEF Equipamento
    <2> QED BY <2>1, <2>2, <2>3, TypedFica DEF Typed, Selecionados, Mesmo
  <1>6. ASSUME LigarAuxiliar PROVE Typed'
    <2>1. UNCHANGED <<cenario, processo, tanques, aux, tq, ger, req, respostas, tele, mudo, mao>>
          /\ hw' = [hw EXCEPT !.auxiliar = TRUE]
      BY <1>6 DEF LigarAuxiliar
    <2>2. Mesmo
      BY <2>1, CenarioFica DEF Typed
    <2>3. hw' \in Equipamento
      BY <1>0, <2>1 DEF Equipamento
    <2> QED BY <2>1, <2>2, <2>3, TypedFica DEF Typed, Selecionados
  <1>7. ASSUME EncerrarAuxilio PROVE Typed'
    <2>1. UNCHANGED <<cenario, processo, tanques, tq, ger, req, respostas, tele, mudo, mao>>
      BY <1>7 DEF EncerrarAuxilio
    <2>2. Mesmo
      BY <2>1, CenarioFica DEF Typed
    <2>3. /\ hw' \in {Faz("desligar_auxiliar", aux), Faz("fechar_auxiliar", aux)}
          /\ aux' \in {aux, Nenhum}
      BY <1>7 DEF EncerrarAuxilio
    <2>4. hw' \in Equipamento
      BY <1>0, <2>3, FazFecha DEF Fecham
    <2> QED BY <1>0, <2>1, <2>2, <2>3, <2>4, TypedFica DEF Typed, Selecionados
  <1>8. ASSUME Queda PROVE Typed'
    <2>1. UNCHANGED <<processo, tanques, aux, hw, tele, mudo, mao>>
          /\ tq' = Livre /\ ger' = Livre /\ req' = SemRequisicao
      BY <1>8 DEF Queda
    <2>2. Mesmo
      BY <1>8, CenarioFica DEF Queda, Typed
    <2>3. RespostasOK'
      <3>1. \/ respostas' = respostas
            \/ respostas' = [r \in DOMAIN respostas |-> [e \in DOMAIN respostas[r] |-> AposQueda(r, e)]]
        BY <1>8 DEF Queda
      <3>2. ASSUME respostas' = [r \in DOMAIN respostas |-> [e \in DOMAIN respostas[r] |-> AposQueda(r, e)]]
            PROVE  RespostasOK'
        <4>1. DOMAIN respostas = Selecionados \cup {Geral}
          BY <1>0 DEF RespostasOK
        <4>2. respostas'[Geral] \in [EtapasComando -> Resposta]
          <5>1. respostas'[Geral] = [e \in EtapasComando |-> AposQueda(Geral, e)]
            BY <1>0, <3>2, <4>1 DEF RespostasOK
          <5>2. \A e \in EtapasComando : AposQueda(Geral, e) \in Resposta
            BY <1>0 DEF AposQueda, RespostasOK, Resposta
          <5> QED BY <5>1, <5>2
        <4>3. ASSUME NEW t \in Selecionados PROVE respostas'[t] \in [ComandosTanque -> Resposta]
          <5>1. respostas'[t] = [e \in ComandosTanque |-> AposQueda(t, e)]
            BY <1>0, <3>2, <4>1 DEF RespostasOK
          <5>2. \A e \in ComandosTanque : AposQueda(t, e) \in Resposta
            BY <1>0 DEF AposQueda, RespostasOK, Resposta
          <5> QED BY <5>1, <5>2
        <4>4. DOMAIN respostas' = Selecionados \cup {Geral}
              /\ respostas' = [r \in Selecionados \cup {Geral} |-> respostas'[r]]
          BY <3>2, <4>1
        <4> QED BY <2>2, <4>2, <4>3, <4>4 DEF RespostasOK, Selecionados, Mesmo
      <3> QED BY <2>2, <3>1, <3>2, TypedFica
    <2> QED BY <2>1, <2>2, <2>3, TypedFica DEF Typed, Selecionados, Mesmo
  <1> QED BY <1>1, <1>2, <1>3, <1>4, <1>5, <1>6, <1>7, <1>8

\* Types hold in the first state, and every step keeps them.
LEMMA TypedInit == ASSUME Init PROVE Typed
  <1>1. cenario \in CenarioRec
    BY ClosureAssumption DEF Init, CenarioRec
  <1>2. Selecionados \subseteq Tanques /\ Geral \notin Selecionados
    BY <1>1, ClosureAssumption DEF CenarioRec, Selecionados
  <1>3. processo \in Processo
    BY DEF Init, Processo, EtapasGerais, MaxComandos
  <1>4. tanques \in [Selecionados -> Tanque]
    <2>1. [status |-> "GERANDO_VACUO", enc |-> "MONITORANDO", etapa |-> "NENHUMA",
           comandos |-> 0, leitura |-> FALSE, estagnado |-> FALSE] \in Tanque
      BY DEF Tanque, Etapas, Monitoraveis, MaxComandos
    <2> QED BY <2>1 DEF Init
  <1>5. FilaOK /\ FilaGeralOK
    BY DEF Init, FilaOK, FilaGeralOK, Fila, Livre, Acks
  <1>6. RequisicaoOK /\ MaoOK
    BY DEF Init, RequisicaoOK, MaoOK, SemRequisicao, SemValvula
  <1>7. RespostasOK
    <2>1. /\ SemRespostas(EtapasComando) \in [EtapasComando -> Resposta]
          /\ SemRespostas(ComandosTanque) \in [ComandosTanque -> Resposta]
      BY DEF SemRespostas, Resposta
    <2> QED BY <1>2, <2>1 DEF Init, RespostasOK
  <1>8. hw \in Equipamento /\ aux \in Tanques \cup {Nenhum} /\ mudo \in BOOLEAN
    BY <1>2 DEF Init, Equipamento
  <1>9. tele \in Snapshot
    <2>1. Reporta(hw) \in Saidas
      BY <1>8 DEF Reporta, Equipamento, Saidas
    <2> QED BY <2>1 DEF Init, Snapshot
  <1> QED BY <1>1, <1>3, <1>4, <1>5, <1>6, <1>7, <1>8, <1>9 DEF Typed

\* Every step keeps the types.
LEMMA TypedNext == ASSUME Typed, [Next]_vars PROVE Typed' /\ Mesmo
  <1>1. CASE UNCHANGED vars
    <2>1. Mesmo
      BY <1>1, CenarioFica DEF vars, Typed
    <2> QED BY <1>1, <2>1, TypedFica DEF vars, fila, Typed, Selecionados
  <1>2. CASE Filas
    <2>1. Typed'
      BY <1>2, FilaTipo, TanqueTipo, GeralPassoTipo, RequisicaoTipo DEF Filas
    <2>2. UNCHANGED cenario \/ \E e : Evento(e)
      <3>1. CASE \E t \in Selecionados : LerPronto(t) \/ Avaliar(t)
        BY <3>1 DEF LerPronto, Avaliar
      <3>2. CASE ClaimIsolation \/ Decidir \/ Comandar \/ Consolidar
        BY <3>2 DEF ClaimIsolation, Decidir, Comandar, Consolidar
      <3>3. CASE AvaliarGeral \/ IniciarManual \/ ClaimStep \/ ConsolidarGeral
        BY <3>3 DEF AvaliarGeral, IniciarManual, ClaimStep, ConsolidarGeral
      <3>4. CASE PararBombas \/ PararValvulas
        BY <3>4 DEF PararBombas, PararValvulas, ReqComanda
      <3>5. CASE Energizar \/ Gravar
        BY <3>5 DEF Energizar, Gravar
      <3> QED BY <1>2, <3>1, <3>2, <3>3, <3>4, <3>5 DEF Filas
    <2> QED BY <2>1, <2>2, CenarioFica DEF Typed
  <1>3. CASE Ambiente
    <2>1. Typed'
      BY <1>3, FilaTipo, TanqueTipo, GeralPassoTipo, RequisicaoTipo, AmbienteTipo DEF Ambiente
    <2>2. UNCHANGED cenario \/ \E e : Evento(e)
      <3>1. CASE Telemetria \/ Silencio \/ TPerde \/ GPerde \/ Queda \/ Emergencia
        BY <3>1 DEF Telemetria, Silencio, TPerde, GPerde, Queda, Emergencia
      <3>2. CASE \E t \in Selecionados : Leitura(t) \/ AbrirAuxiliar(t) \/ OperarValvula(t)
        BY <3>2 DEF Leitura, AbrirAuxiliar, OperarValvula
      <3>3. CASE MoverValvula \/ LigarAuxiliar \/ EncerrarAuxilio
        BY <3>3 DEF MoverValvula, LigarAuxiliar, EncerrarAuxilio
      <3>4. CASE \E op \in Operacoes : Requisitar(op)
        BY <3>4 DEF Requisitar
      <3> QED BY <1>3, <3>1, <3>2, <3>3, <3>4 DEF Ambiente
    <2> QED BY <2>1, <2>2, CenarioFica DEF Typed
  <1> QED BY <1>1, <1>2, <1>3 DEF Next

\* TypeOK: every variable keeps its type, whatever the queues, the requests and the
\* failures of a process do.
THEOREM Typing == Spec => []TypeOK
  <1>1. Typed => TypeOK
    <2> SUFFICES ASSUME Typed PROVE TypeOK
      OBVIOUS
    <2>1. /\ cenario.eventos \in Nat /\ processo \in Processo /\ tanques \in [Selecionados -> Tanque]
          /\ aux \in Tanques \cup {Nenhum} /\ hw \in Equipamento /\ tele \in Snapshot
          /\ RespostasOK /\ FilaOK /\ FilaGeralOK
      BY DEF Typed, CenarioRec
    <2>2. hw.ativo \in BOOLEAN /\ Reporta(hw) \in Saidas
      BY <2>1 DEF Equipamento, Reporta, Saidas
    <2>3. \A r \in Selecionados \cup {Geral} : \A e \in DOMAIN respostas[r] : respostas[r][e] \in Resposta
      BY <2>1 DEF RespostasOK
    <2>4. /\ tq.ack \in Finais \cup {"nada", "SEM_ACK"} /\ tq.leu \in BOOLEAN
          /\ ger.ack \in Finais \cup {"nada", "SEM_ACK"} /\ ger.leu \in BOOLEAN
      BY <2>1 DEF FilaOK, FilaGeralOK, Fila, Acks
    <2> QED BY <2>1, <2>2, <2>3, <2>4 DEF TypeOK, Snapshot
  <1>2. Typed /\ [Next]_vars => Typed'
    BY TypedNext
  <1> QED BY <1>1, <1>2, TypedInit, PTL DEF Spec

----------------------------------------------------------------------------
(* The context that the closure of a tank has read, and the tanks of a     *)
(* process that has ended.                                                 *)

Terminado == processo.status \in {"CONCLUIDO", "INTERROMPIDO"}
Interrompido(t) == tanques[t].status = "INTERROMPIDO" /\ tanques[t].enc = "BLOQUEADO"
                   /\ tanques[t].etapa = "NENHUMA"
\* While the version read is the row's, the stage is the one that was decided upon.
Lida ==
    tq.leu =>
      LET row == tanques[tq.tanque] IN
      /\ tq.pc = "reivindicar" => row.enc \in Monitoraveis
      /\ tq.pc # "reivindicar" => row.enc \in EmEncerramento
      /\ tq.pc \in {"desligar_auxiliar", "fechar_auxiliar", "repetir", "avancar"} =>
           row.etapa = "AGUARDANDO_AUXILIAR_SEGURO"
      /\ tq.pc = "fechar_principal" => row.etapa = "FECHANDO_VALVULA_PRINCIPAL"
      /\ tq.pc = "reter" => row.etapa = "AGUARDANDO_LEITURA_ISOLAMENTO"
      /\ tq.pc \in {"reprovar", "concluir"} => row.etapa = "RETENDO"
      /\ tq.pc = "reabrir" => row.etapa = "REABRINDO_VALVULA_PRINCIPAL"
Encerrados ==
    /\ processo.status = "CONCLUIDO" => TodosConcluidos
    /\ processo.status = "INTERROMPIDO" => \A t \in Selecionados : Interrompido(t)
    /\ Terminado => ~tq.leu
    /\ Lida

\* The stages of a tank whose main valve is being closed, and those it is closed in.
Isolantes == {"AGUARDANDO_AUXILIAR_SEGURO", "FECHANDO_VALVULA_PRINCIPAL",
              "AGUARDANDO_LEITURA_ISOLAMENTO", "RETENDO"}
Isoladas == {"AGUARDANDO_LEITURA_ISOLAMENTO", "RETENDO"}

\* A write on the row of a tank, by a step that found its version unchanged.
Mudanca(t) ==
    LET o == tanques[t]  n == tanques'[t] IN
    /\ o.enc \in EmEncerramento
    /\ n.etapa \in Isolantes => o.etapa \in Isolantes
    /\ n.etapa \in Isoladas => \/ o.etapa \in Isoladas
                               \/ /\ tq.pc = "fechar_principal" /\ tq.ack = "EXECUTADO"
                                  /\ o.etapa = "FECHANDO_VALVULA_PRINCIPAL"
    /\ o.etapa \in {"NENHUMA", "FALHA", "CONCLUIDA"} =>
         n.status = o.status /\ n.enc = "FALHA" /\ n.etapa = "FALHA"
\* Every decision and every confirmed or failed command writes such a row.
LEMMA TanqueMuda ==
    ASSUME Typed, Lida, Decidir \/ Consolidar
    PROVE  \/ tanques' = tanques
           \/ /\ tq.leu /\ tq.tanque \in Selecionados /\ Mudanca(tq.tanque)
              /\ \A u \in Selecionados \ {tq.tanque} : tanques'[u] = tanques[u]
  <1> DEFINE t == tq.tanque
             o == tanques[t]
             n == tanques'[t]
  <1>0. t \in Selecionados /\ tanques \in [Selecionados -> Tanque] /\ o \in Tanque
    BY DEF Decidir, Consolidar, Typed, FilaOK, ComandosTanque
  <1>1. CASE Decidir
    <2>1. CASE ~tq.leu
      BY <1>1, <2>1 DEF Decidir
    <2>2. CASE tq.leu
      <3>1. tq.pc \in Decisivos /\ (tanques' = tanques \/ tanques' = [tanques EXCEPT ![t] = Escrito(o, tq.pc)])
        BY <1>1 DEF Decidir, Decisivos
      <3>2. CASE tanques' = tanques
        BY <3>2
      <3>3. CASE tanques' = [tanques EXCEPT ![t] = Escrito(o, tq.pc)]
        <4>1. n = Escrito(o, tq.pc) /\ \A u \in Selecionados \ {t} : tanques'[u] = tanques[u]
          BY <1>0, <3>3
        <4>2. Mudanca(t)
          <5>1. CASE tq.pc = "falha"
            <6>1. n = [o EXCEPT !.enc = "FALHA", !.etapa = "FALHA", !.leitura = FALSE]
              BY <4>1, <5>1 DEF Escrito, ComFalha
            <6>2. n.status = o.status /\ n.enc = "FALHA" /\ n.etapa = "FALHA"
              BY <1>0, <6>1 DEF Tanque
            <6>3. o.enc \in EmEncerramento
              BY <2>2, <5>1 DEF Lida
            <6> QED BY <6>2, <6>3 DEF Mudanca, Isolantes, Isoladas
          <5>2. CASE tq.pc = "repetir"
            BY <1>0, <2>2, <4>1, <5>2
               DEF Mudanca, Escrito, ComRepeticao, ComFalha, Tanque, Isolantes, Isoladas, Lida
          <5>3. CASE tq.pc = "avancar"
            BY <1>0, <2>2, <4>1, <5>3 DEF Mudanca, Escrito, Tanque, Isolantes, Isoladas, Lida
          <5>4. CASE tq.pc = "reter"
            BY <1>0, <2>2, <4>1, <5>4 DEF Mudanca, Escrito, Tanque, Isolantes, Isoladas, Lida
          <5>5. CASE tq.pc \in {"reprovar", "concluir"}
            BY <1>0, <2>2, <4>1, <5>5 DEF Mudanca, Escrito, Tanque, Isolantes, Isoladas, Lida
          <5> QED BY <3>1, <5>1, <5>2, <5>3, <5>4, <5>5 DEF Decisivos
        <4> QED BY <1>0, <2>2, <4>1, <4>2
      <3> QED BY <3>1, <3>2, <3>3
    <2> QED BY <2>1, <2>2
  <1>2. CASE Consolidar
    <2>1. CASE ~tq.leu
      BY <1>2, <2>1 DEF Consolidar
    <2>2. CASE tq.leu
      <3>1. /\ tq.pc \in ComandosTanque
            /\ tanques' = [tanques EXCEPT ![t] = IF tq.ack = "EXECUTADO" THEN Confirmado(o, tq.pc)
                                                 ELSE ComRepeticao(o)]
        BY <1>2, <2>2 DEF Consolidar
      <3>2. /\ tq.ack = "EXECUTADO" => n = Confirmado(o, tq.pc)
            /\ tq.ack # "EXECUTADO" => n = ComRepeticao(o)
            /\ \A u \in Selecionados \ {t} : tanques'[u] = tanques[u]
        BY <1>0, <3>1
      <3>3. Mudanca(t)
        <4>1. CASE tq.ack # "EXECUTADO"
          BY <1>0, <2>2, <3>1, <3>2, <4>1
             DEF Mudanca, ComRepeticao, ComFalha, Tanque, Isolantes, Isoladas, Lida, ComandosTanque
        <4>2. CASE tq.ack = "EXECUTADO" /\ tq.pc = "fechar_principal"
          BY <1>0, <2>2, <3>2, <4>2 DEF Mudanca, Confirmado, Tanque, Isolantes, Isoladas, Lida
        <4>3. CASE tq.ack = "EXECUTADO" /\ tq.pc = "reabrir"
          BY <1>0, <2>2, <3>2, <4>3 DEF Mudanca, Confirmado, Tanque, Isolantes, Isoladas, Lida
        <4>4. CASE tq.ack = "EXECUTADO" /\ tq.pc \in {"desligar_auxiliar", "fechar_auxiliar"}
          BY <1>0, <2>2, <3>2, <4>4 DEF Mudanca, Confirmado, Tanque, Isolantes, Isoladas, Lida
        <4> QED BY <3>1, <4>1, <4>2, <4>3, <4>4 DEF ComandosTanque
      <3> QED BY <1>0, <2>2, <3>2, <3>3
    <2> QED BY <2>1, <2>2
  <1> QED BY <1>1, <1>2

\* A claim writes the first stage of a tank that was monitored, under new ids.
LEMMA TanqueReivindicado ==
    ASSUME Typed, Lida, ClaimIsolation
    PROVE  \/ tanques' = tanques /\ respostas' = respostas
           \/ /\ tq.leu /\ tq.tanque \in Selecionados /\ EmExecucao
              /\ tanques[tq.tanque].enc \in Monitoraveis
              /\ tanques[tq.tanque].status = "VACUO_ESTABILIZADO"
              /\ tanques'[tq.tanque].etapa = "AGUARDANDO_AUXILIAR_SEGURO"
              /\ respostas' = [respostas EXCEPT ![tq.tanque] = SemRespostas(ComandosTanque)]
              /\ \A u \in Selecionados \ {tq.tanque} : tanques'[u] = tanques[u]
  <1>1. tq.tanque \in Selecionados /\ tanques \in [Selecionados -> Tanque]
    BY DEF ClaimIsolation, Typed, FilaOK
  <1>2. tanques[tq.tanque] \in Tanque
    BY <1>1
  <1> QED BY <1>1, <1>2 DEF ClaimIsolation, NovasRespostas, Lida, Tanque

\* A reading writes on a tank that has not ended: it ends the closure in FALHA, or leaves
\* its stage; and a new status of the closure clears the version that was read.
LEMMA TanqueLido ==
    ASSUME Typed, NEW t \in Selecionados, Leitura(t)
    PROVE  LET o == tanques[t]  n == tanques'[t] IN
           /\ \A u \in Selecionados \ {t} : tanques'[u] = tanques[u]
           /\ \/ n.status = o.status /\ n.enc = o.enc /\ n.etapa = o.etapa
              \/ /\ EmExecucao /\ {o.status, n.status} \cap TanqueTerminal = {}
                 /\ \/ n.enc = "FALHA" /\ n.etapa = "FALHA"
                    \/ n.etapa = o.etapa /\ n.enc = o.enc
                    \/ n.etapa = o.etapa /\ {n.enc, o.enc} \subseteq Monitoraveis
           /\ tq' = tq \/ tq' = [tq EXCEPT !.leu = FALSE]
           /\ tq.tanque = t /\ n.enc # o.enc => tq' = [tq EXCEPT !.leu = FALSE]
  <1> DEFINE ignorada == ~EmExecucao \/ tanques[t].status \in TanqueTerminal
             Lido(v, e, p) == IF ignorada THEN tanques[t] ELSE Monitora(tanques[t], v, e, p)
  <1>1. PICK valor \in {"fora", "alvo", "excesso"}, estavel \in BOOLEAN, parado \in BOOLEAN :
          /\ tanques' = [tanques EXCEPT ![t] = Marcada(Lido(valor, estavel, parado))]
          /\ tq' = IF Lido(valor, estavel, parado).enc # tanques[t].enc THEN Invalida(tq, t) ELSE tq
    BY DEF Leitura
  <1> DEFINE row == Lido(valor, estavel, parado)
             m == Monitora(tanques[t], valor, estavel, parado)
  <1>2. tanques \in [Selecionados -> Tanque] /\ tanques[t] \in Tanque
    BY DEF Typed
  <1>3. /\ m \in Tanque /\ m.status \notin TanqueTerminal
        /\ \/ m.enc = "FALHA" /\ m.etapa = "FALHA"
           \/ m.etapa = tanques[t].etapa /\ m.enc = tanques[t].enc
           \/ m.etapa = tanques[t].etapa /\ m.enc \in Monitoraveis /\ tanques[t].enc \in Monitoraveis
    BY <1>2, LinhaMonitorada
  <1>4. /\ ignorada => row = tanques[t]
        /\ ~ignorada => row = m
    OBVIOUS
  <1>5. /\ tanques' = [tanques EXCEPT ![t] = Marcada(row)]
        /\ tq' = IF row.enc # tanques[t].enc THEN Invalida(tq, t) ELSE tq
    BY <1>1
  <1> HIDE DEF row, m
  <1>6. row \in Tanque
    BY <1>2, <1>3, <1>4
  <1>7. Marcada(row).status = row.status /\ Marcada(row).enc = row.enc /\ Marcada(row).etapa = row.etapa
    BY <1>6 DEF Marcada, Tanque
  <1>8. tanques'[t] = Marcada(row) /\ \A u \in Selecionados \ {t} : tanques'[u] = tanques[u]
    BY <1>2, <1>5
  <1>9. /\ tq' = tq \/ tq' = [tq EXCEPT !.leu = FALSE]
        /\ tq.tanque = t /\ tanques'[t].enc # tanques[t].enc => tq' = [tq EXCEPT !.leu = FALSE]
    BY <1>5, <1>7, <1>8 DEF Invalida
  <1> QED BY <1>3, <1>4, <1>7, <1>8, <1>9

\* The first state, and every step, keep a process that has ended and the context read.
\* The row of a tank under the emergency, and under a final transition, which
\* resets the detector of stagnation as well.
Terminada(t, st, e, et) == [tanques[t] EXCEPT !.status = st, !.enc = e, !.etapa = et]
Normalizado(t, st, e, et) ==
    [tanques[t] EXCEPT !.status = st, !.enc = e, !.etapa = et, !.estagnado = FALSE]
TodosTerminam(st, e, et) ==
    \/ tanques' = [t \in Selecionados |-> Terminada(t, st, e, et)]
    \/ tanques' = [t \in Selecionados |-> Normalizado(t, st, e, et)]

\* Either of them gives every tank its status, closure and stage.
LEMMA TodosTerminados ==
    ASSUME tanques \in [Selecionados -> Tanque], NEW st, NEW e, NEW et, TodosTerminam(st, e, et)
    PROVE  \A t \in Selecionados :
               tanques'[t].status = st /\ tanques'[t].enc = e /\ tanques'[t].etapa = et
  <1> SUFFICES ASSUME NEW t \in Selecionados
               PROVE  tanques'[t].status = st /\ tanques'[t].enc = e /\ tanques'[t].etapa = et
    OBVIOUS
  <1>1. tanques'[t] = Terminada(t, st, e, et) \/ tanques'[t] = Normalizado(t, st, e, et)
    BY DEF TodosTerminam
  <1>2. tanques[t] \in Tanque
    OBVIOUS
  <1>3. ASSUME NEW r, r = Terminada(t, st, e, et) \/ r = Normalizado(t, st, e, et)
        PROVE  r.status = st /\ r.enc = e /\ r.etapa = et
    BY <1>2, <1>3 DEF Terminada, Normalizado, Tanque
  <1> QED BY <1>1, <1>3

\* What the final write and the emergency write.
LEMMA FinalTermina ==
    /\ Final("CONCLUIDO", "CONCLUIDO", "CONCLUIDO", "CONCLUIDA")
         => TodosTerminam("CONCLUIDO", "CONCLUIDO", "CONCLUIDA")
    /\ Final("INTERROMPIDO", "INTERROMPIDO", "BLOQUEADO", "NENHUMA") \/ Emergencia
         => TodosTerminam("INTERROMPIDO", "BLOQUEADO", "NENHUMA")
  BY DEF Final, Emergencia, TodosTerminam, Terminada, Normalizado

LEMMA EncerradosInit == ASSUME Init PROVE Encerrados
  BY DEF Init, Encerrados, Terminado, Lida, Livre

\* What a closure has just read is the row of its tank.
LEMMA LidaAgora ==
    ASSUME Typed, NEW t \in Selecionados, LerPronto(t) \/ Avaliar(t)
    PROVE  Lida' /\ EmExecucao /\ tq = Livre
  <1>1. EmExecucao /\ tq = Livre /\ tanques' = tanques
    BY DEF LerPronto, Avaliar
  <1>2. CASE LerPronto(t)
    <2>1. tq' = [pc |-> "reivindicar", tanque |-> t, leu |-> TRUE, ack |-> "nada"]
      BY <1>2 DEF LerPronto, TLe
    <2>2. tanques[t].enc \in Monitoraveis
      BY <1>2 DEF LerPronto, Monitoraveis
    <2> QED BY <1>1, <2>1, <2>2 DEF Lida
  <1>3. CASE Avaliar(t)
    <2>1. PICK d \in {"falha"} \cup Decisoes(t) :
            tq' = [pc |-> d, tanque |-> t, leu |-> TRUE, ack |-> "nada"]
      BY <1>3 DEF Avaliar, TLe
    <2>2. tanques[t].enc \in EmEncerramento
      BY <1>3 DEF Avaliar
    <2>3. /\ d \in {"desligar_auxiliar", "fechar_auxiliar", "repetir", "avancar"} =>
               tanques[t].etapa = "AGUARDANDO_AUXILIAR_SEGURO"
          /\ d = "fechar_principal" => tanques[t].etapa = "FECHANDO_VALVULA_PRINCIPAL"
          /\ d = "reter" => tanques[t].etapa = "AGUARDANDO_LEITURA_ISOLAMENTO"
          /\ d \in {"reprovar", "concluir"} => tanques[t].etapa = "RETENDO"
          /\ d = "reabrir" => tanques[t].etapa = "REABRINDO_VALVULA_PRINCIPAL"
          /\ d # "reivindicar"
      BY <2>1 DEF Decisoes, AuxiliarSeguro
    <2> QED BY <1>1, <2>1, <2>2, <2>3 DEF Lida
  <1> QED BY <1>2, <1>3

\* Every step keeps them.
LEMMA EncerradosNext == ASSUME Typed, Encerrados, [Next]_vars PROVE Encerrados'
  <1>0. /\ Typed' /\ Mesmo /\ Selecionados' = Selecionados /\ FilaOK
        /\ tanques \in [Selecionados -> Tanque] /\ Selecionados # {} /\ processo \in Processo
    BY TypedNext DEF Typed, Mesmo, Selecionados, CenarioRec
  <1>1. ASSUME UNCHANGED tanques, processo'.status = processo.status,
               tq'.leu => tq.leu /\ tq'.pc = tq.pc /\ tq'.tanque = tq.tanque
        PROVE  Encerrados'
    BY <1>0, <1>1 DEF Encerrados, Terminado, Lida, TodosConcluidos, Concluido, Interrompido
  <1>2. ASSUME NEW t \in Selecionados, LerPronto(t) \/ Avaliar(t) PROVE Encerrados'
    <2>1. Lida' /\ EmExecucao
      BY <1>2, LidaAgora
    <2>2. processo' = processo
      BY <1>2 DEF LerPronto, Avaliar
    <2> QED BY <2>1, <2>2 DEF Encerrados, Terminado, EmExecucao
  <1>3. ASSUME ClaimIsolation \/ Decidir \/ Consolidar PROVE Encerrados'
    <2>1. tanques' = tanques \/ tq.leu
      BY <1>3, TanqueMuda, TanqueReivindicado DEF Encerrados
    <2>2. processo' = processo /\ tq' = Livre
      BY <1>3 DEF ClaimIsolation, Decidir, Consolidar, TTermina
    <2>3. CASE tanques' = tanques
      BY <1>1, <2>2, <2>3 DEF Livre
    <2>4. CASE tq.leu
      BY <2>2, <2>4 DEF Encerrados, Terminado, Lida, Livre
    <2> QED BY <2>1, <2>3, <2>4
  <1>4. ASSUME Comandar \/ TPerde PROVE Encerrados'
    <2>1. UNCHANGED tanques /\ processo' = processo
      BY <1>4 DEF Comandar, TPerde
    <2>2. tq'.leu = tq.leu /\ tq'.pc = tq.pc /\ tq'.tanque = tq.tanque
      BY <1>0, <1>4 DEF Comandar, TPerde, FilaOK, Fila
    <2> QED BY <1>1, <2>1, <2>2
  <1>5. ASSUME NEW t \in Selecionados, Leitura(t) PROVE Encerrados'
    <2> DEFINE o == tanques[t]
               n == tanques'[t]
    <2>1. /\ \A u \in Selecionados \ {t} : tanques'[u] = tanques[u]
          /\ \/ n.status = o.status /\ n.enc = o.enc /\ n.etapa = o.etapa
             \/ /\ EmExecucao
                /\ \/ n.enc = "FALHA" /\ n.etapa = "FALHA"
                   \/ n.etapa = o.etapa /\ n.enc = o.enc
                   \/ n.etapa = o.etapa /\ n.enc \in Monitoraveis /\ o.enc \in Monitoraveis
          /\ tq' = tq \/ tq' = [tq EXCEPT !.leu = FALSE]
          /\ tq.tanque = t /\ n.enc # o.enc => tq' = [tq EXCEPT !.leu = FALSE]
          /\ processo' = processo
      BY <1>5, TanqueLido DEF Leitura
    <2>2. tq'.leu => tq' = tq
      BY <1>0, <2>1 DEF FilaOK, Fila
    <2>3. tq'.leu /\ tq.tanque = t => n.enc = o.enc /\ n.etapa = o.etapa
      <3>1. ASSUME tq'.leu, tq.tanque = t, n.enc = "FALHA" PROVE n.enc # o.enc
        BY <2>2, <3>1 DEF Encerrados, Lida, Monitoraveis, EmEncerramento
      <3>2. [tq EXCEPT !.leu = FALSE].leu = FALSE
        BY <1>0 DEF FilaOK, Fila
      <3> QED BY <2>1, <3>1, <3>2
    <2>4. Lida'
      <3>1. ASSUME tq'.leu PROVE /\ tanques'[tq.tanque].enc = tanques[tq.tanque].enc
                                 /\ tanques'[tq.tanque].etapa = tanques[tq.tanque].etapa
        <4>1. tq.tanque \in Selecionados
          BY <1>0, <2>2, <3>1 DEF FilaOK
        <4> QED BY <2>1, <2>3, <3>1, <4>1
      <3> QED BY <2>2, <3>1 DEF Lida, Encerrados
    <2>5. Terminado => \A u \in Selecionados : /\ tanques'[u].status = tanques[u].status
                                               /\ tanques'[u].enc = tanques[u].enc
                                               /\ tanques'[u].etapa = tanques[u].etapa
      BY <2>1 DEF Terminado, EmExecucao
    <2> QED BY <1>0, <2>1, <2>2, <2>4, <2>5
            DEF Encerrados, Terminado, TodosConcluidos, Concluido, Interrompido
  <1>6. ASSUME AvaliarGeral \/ IniciarManual PROVE Encerrados'
    <2>1. UNCHANGED <<tanques, tq, cenario>> /\ EmExecucao
      BY <1>6 DEF AvaliarGeral, IniciarManual
    <2>2. processo'.status = processo.status \/ (processo'.status = "CONCLUIDO" /\ TodosConcluidos)
      <3>1. CASE processo' = processo
        BY <3>1
      <3>2. CASE IniciarManual
        BY <1>0, <3>2 DEF IniciarManual, Escreve, GeralEscrito, Processo
      <3>3. ASSUME NEW a \in BOOLEAN, DecisaoGeral(a) \notin EtapasComando \cup {"nada"},
                   Escreve(DecisaoGeral(a))
            PROVE  processo'.status = processo.status \/ (processo'.status = "CONCLUIDO" /\ TodosConcluidos)
        <4>1. DecisaoGeral(a) \in DecisoesGerais
          BY <1>0, <3>3, GeralDecide
        <4>2. DecisaoGeral(a) = "concluir" => TodosConcluidos
          BY DEF DecisaoGeral
        <4>3. processo' = GeralEscrito(processo, DecisaoGeral(a))
          BY <3>3 DEF Escreve
        <4>4. DecisaoGeral(a) # "concluir" => processo'.status = processo.status
          BY <1>0, <4>1, <4>3 DEF GeralEscrito, GeralComFalha, DecisoesGerais, Processo
        <4>5. DecisaoGeral(a) = "concluir" => processo'.status = "CONCLUIDO"
          BY <1>0, <4>3 DEF GeralEscrito, Processo
        <4> QED BY <4>2, <4>4, <4>5
      <3> QED BY <1>6, <3>1, <3>2, <3>3 DEF AvaliarGeral
    <2>3. ASSUME TodosConcluidos PROVE ~tq.leu
      BY <1>0, <2>3 DEF FilaOK, Encerrados, Lida, TodosConcluidos, Concluido, Monitoraveis, EmEncerramento
    <2>4. CASE processo'.status = processo.status
      BY <1>1, <2>1, <2>4
    <2>5. CASE processo'.status = "CONCLUIDO" /\ TodosConcluidos
      BY <1>0, <2>1, <2>3, <2>5 DEF Encerrados, Lida, TodosConcluidos, Concluido
    <2> QED BY <2>2, <2>4, <2>5
  <1>7. ASSUME ConsolidarGeral PROVE Encerrados'
    <2>1. processo'.status = processo.status
      BY <1>0, <1>7 DEF ConsolidarGeral, Seguinte, GeralComRepeticao, GeralComFalha, Processo
    <2> QED BY <1>1, <1>7, <2>1 DEF ConsolidarGeral
  <1>8. ASSUME NEW st \in {"CONCLUIDO", "INTERROMPIDO"}, NEW e \in {"CONCLUIDO", "BLOQUEADO"},
               NEW et \in {"CONCLUIDA", "NENHUMA"},
               st = "CONCLUIDO" => e = "CONCLUIDO" /\ et = "CONCLUIDA",
               st = "INTERROMPIDO" => e = "BLOQUEADO" /\ et = "NENHUMA",
               processo'.status = st, tq' = [tq EXCEPT !.leu = FALSE],
               TodosTerminam(st, e, et)
        PROVE  Encerrados'
    <2>1. ~tq'.leu
      BY <1>0, <1>8 DEF FilaOK, Fila
    <2>2. ASSUME NEW t \in Selecionados
          PROVE  tanques'[t].status = st /\ tanques'[t].enc = e /\ tanques'[t].etapa = et
      BY <1>0, <1>8, TodosTerminados
    <2> QED BY <1>0, <1>8, <2>1, <2>2
            DEF Encerrados, Terminado, Lida, TodosConcluidos, Concluido, Interrompido
  <1>9. ASSUME Gravar \/ Emergencia PROVE Encerrados'
    <2>1. CASE UNCHANGED <<processo, tanques, tq>>
      BY <1>1, <2>1
    <2>2. ASSUME NEW st \in {"PAUSADO", "EM_EXECUCAO"}, processo' = [processo EXCEPT !.status = st],
                 UNCHANGED <<tanques, tq>>
          PROVE  Encerrados'
      <3>1. processo'.status = st
        BY <1>0, <2>2 DEF Processo
      <3> QED BY <2>2, <3>1 DEF Encerrados, Terminado, Lida
    <2>3. CASE Final("CONCLUIDO", "CONCLUIDO", "CONCLUIDO", "CONCLUIDA")
      <3>1. processo'.status = "CONCLUIDO"
        BY <1>0, <2>3 DEF Final, Processo
      <3> QED BY <1>8, <2>3, <3>1, FinalTermina DEF Final
    <2>4. CASE Final("INTERROMPIDO", "INTERROMPIDO", "BLOQUEADO", "NENHUMA")
      <3>1. processo'.status = "INTERROMPIDO"
        BY <1>0, <2>4 DEF Final, Processo
      <3> QED BY <1>8, <2>4, <3>1, FinalTermina DEF Final
    <2>5. CASE Emergencia
      <3>1. processo'.status = "INTERROMPIDO"
        BY <1>0, <2>5 DEF Emergencia, Processo
      <3> QED BY <1>8, <2>5, <3>1, FinalTermina DEF Emergencia
    <2> QED BY <1>9, <2>1, <2>2, <2>3, <2>4, <2>5 DEF Gravar
  <1>10. CASE UNCHANGED vars
    BY <1>1, <1>10 DEF vars, fila
  <1>11. CASE ClaimStep \/ PararBombas \/ PararValvulas \/ Energizar
    BY <1>1, <1>11 DEF ClaimStep, PararBombas, PararValvulas, ReqComanda, Energizar
  <1>12. CASE Telemetria \/ Silencio \/ GPerde \/ MoverValvula \/ LigarAuxiliar \/ EncerrarAuxilio
    BY <1>1, <1>12 DEF Telemetria, Silencio, GPerde, MoverValvula, LigarAuxiliar, EncerrarAuxilio, fila
  <1>13. CASE \E t \in Selecionados : AbrirAuxiliar(t) \/ OperarValvula(t)
    BY <1>1, <1>13 DEF AbrirAuxiliar, OperarValvula
  <1>14. CASE Queda \/ \E op \in Operacoes : Requisitar(op)
    BY <1>1, <1>14 DEF Queda, Requisitar, Livre
  <1> QED BY <1>2, <1>3, <1>4, <1>5, <1>6, <1>7, <1>9, <1>10, <1>11, <1>12, <1>13, <1>14
          DEF Next, Filas, Ambiente

\* EndedProcessKeepsTanks: a closure that was in progress when its process ended finds a new
\* version, or a row that is no longer the one that it has read.
THEOREM EndedTheorem == Spec => EndedProcessKeepsTanks
  <1> DEFINE Igual(t) == <<tanques'[t].status, tanques'[t].enc, tanques'[t].etapa>>
                           = <<tanques[t].status, tanques[t].enc, tanques[t].etapa>>
             A == processo.status \in {"CONCLUIDO", "INTERROMPIDO"} /\ processo'.status = processo.status
                    => \A t \in Selecionados : Igual(t)
  <1>1. ASSUME Typed, Encerrados, Next PROVE A
    <2> SUFFICES ASSUME Terminado, processo'.status = processo.status, NEW t \in Selecionados
                 PROVE  Igual(t)
      BY DEF Terminado
    <2>1. Encerrados' /\ Selecionados' = Selecionados
      BY <1>1, EncerradosNext, TypedNext DEF Mesmo, Selecionados
    <2> QED BY <1>1, <2>1 DEF Encerrados, Terminado, TodosConcluidos, Concluido, Interrompido
  <1>2. Typed /\ Encerrados /\ [Next]_vars => [A]_vars
    BY <1>1
  <1>3. Init => Typed /\ Encerrados
    BY TypedInit, EncerradosInit
  <1>4. Typed /\ Encerrados /\ [Next]_vars => Typed' /\ Encerrados'
    BY TypedNext, EncerradosNext
  <1> QED BY <1>2, <1>3, <1>4, PTL DEF Spec, EndedProcessKeepsTanks

----------------------------------------------------------------------------
(* The isolation of a tank while its retention is measured.  Its main      *)
(* valve was closed by a command that was executed in this attempt; the    *)
(* ids of an attempt are its own, so that an answer that is found stored   *)
(* is about a closing that no reopening has followed.                      *)

Sossego == cenario.operacoes \cap {"retomada", "auxilio", "valvula"} = {}
Vedado(t) ==
    /\ tanques[t].etapa \in Isoladas => t \notin hw.abertas
    /\ tanques[t].etapa \in Isolantes /\ respostas[t]["fechar_principal"] \in Feito => t \notin hw.abertas
    /\ tq.pc = "fechar_principal" /\ tq.tanque = t /\ tq.ack = "EXECUTADO"
       /\ tanques[t].etapa \in Isolantes => t \notin hw.abertas
    /\ tq.pc = "reabrir" /\ tq.tanque = t => tanques[t].etapa \notin Isolantes
Isolamento ==
    /\ hw.linha = Nenhum /\ mao = SemValvula /\ req.op # "retomada"
    /\ \A t \in Selecionados : Vedado(t)
\* No tank is being isolated when the startup completes.
LEMMA IsolamentoInit == ASSUME Init PROVE Isolamento
  <1>1. hw.linha = Nenhum /\ mao = SemValvula /\ req.op # "retomada"
    BY DEF Init, SemRequisicao
  <1>2. ASSUME NEW t \in Selecionados PROVE Vedado(t)
    <2>1. tanques[t].etapa = "NENHUMA" /\ tq.pc = "livre"
      BY DEF Init, Livre
    <2> QED BY <2>1 DEF Vedado, Isolantes, Isoladas
  <1> QED BY <1>1, <1>2 DEF Isolamento

\* A step of the outputs that only closes keeps every valve that was closed.
LEMMA VedadoFecha ==
    ASSUME Isolamento, NEW c \in Fecham, NEW u, hw \in Equipamento, hw' \in {hw, Faz(c, u)}
    PROVE  hw'.abertas \subseteq hw.abertas /\ hw'.linha = Nenhum
  BY FazFecha DEF Isolamento, Fecha, Equipamento

\* The steps of the queue of the tank closure.
LEMMA IsolamentoFila ==
    ASSUME Typed, Lida, Isolamento, Sossego
    PROVE  /\ \A t \in Selecionados : LerPronto(t) => Isolamento'
           /\ \A t \in Selecionados : Avaliar(t) => Isolamento'
           /\ ClaimIsolation \/ Decidir => Isolamento'
           /\ Comandar \/ TPerde => Isolamento'
           /\ Consolidar => Isolamento'
           /\ \A t \in Selecionados : Leitura(t) => Isolamento'
  <1>0. /\ hw \in Equipamento /\ FilaOK /\ RespostasOK /\ tanques \in [Selecionados -> Tanque]
        /\ Selecionados \subseteq Tanques /\ Geral \notin Selecionados
        /\ \A t \in Selecionados : Vedado(t)
    BY ClosureAssumption DEF Typed, CenarioRec, Selecionados, Isolamento
  <1>1. ASSUME NEW t \in Selecionados, LerPronto(t) \/ Avaliar(t) PROVE Isolamento'
    <2>1. UNCHANGED <<cenario, tanques, respostas, hw, req, mao>>
      BY <1>1 DEF LerPronto, Avaliar
    <2>2. PICK d : tq' = [pc |-> d, tanque |-> t, leu |-> TRUE, ack |-> "nada"]
      BY <1>1 DEF LerPronto, Avaliar, TLe
    <2>3. tq'.pc = "reabrir" => tanques[t].etapa = "REABRINDO_VALVULA_PRINCIPAL"
      BY <1>1, <2>1, <2>2, LidaAgora DEF Lida
    <2>4. ASSUME NEW u \in Selecionados PROVE Vedado(u)'
      BY <1>0, <2>1, <2>2, <2>3, <2>4 DEF Vedado, Isolantes
    <2> QED BY <2>1, <2>4 DEF Isolamento, Selecionados
  <1>2. ASSUME ClaimIsolation PROVE Isolamento'
    <2>1. UNCHANGED <<cenario, hw, req, mao>> /\ tq'.pc = "livre"
      BY <1>2 DEF ClaimIsolation, TTermina, Livre
    <2>2. ASSUME NEW u \in Selecionados PROVE Vedado(u)'
      <3>1. CASE tanques'[u] = tanques[u] /\ respostas'[u] = respostas[u]
        BY <1>0, <2>1, <3>1 DEF Vedado
      <3>2. CASE ~(tanques'[u] = tanques[u] /\ respostas'[u] = respostas[u])
        <4>1. /\ tanques'[u].etapa = "AGUARDANDO_AUXILIAR_SEGURO"
              /\ respostas'[u] = SemRespostas(ComandosTanque)
          BY <1>0, <1>2, <3>2, TanqueReivindicado DEF RespostasOK
        <4>2. respostas'[u]["fechar_principal"] = "nenhuma"
          BY <4>1 DEF SemRespostas, ComandosTanque
        <4> QED BY <2>1, <4>1, <4>2 DEF Vedado, Isoladas, Feito
      <3> QED BY <3>1, <3>2
    <2> QED BY <2>1, <2>2 DEF Isolamento, Selecionados
  <1>3. ASSUME Decidir PROVE Isolamento'
    <2>1. UNCHANGED <<cenario, respostas, hw, req, mao>> /\ tq'.pc = "livre"
      BY <1>3 DEF Decidir, TTermina, Livre
    <2>2. tq.pc # "fechar_principal"
      BY <1>3 DEF Decidir
    <2>3. ASSUME NEW u \in Selecionados PROVE Vedado(u)'
      <3>1. CASE tanques'[u] = tanques[u]
        BY <1>0, <2>1, <3>1 DEF Vedado
      <3>2. CASE tanques'[u] # tanques[u]
        <4>1. /\ tanques'[u].etapa \in Isolantes => tanques[u].etapa \in Isolantes
              /\ tanques'[u].etapa \in Isoladas => tanques[u].etapa \in Isoladas
          BY <1>0, <1>3, <2>2, <3>2, TanqueMuda DEF Mudanca
        <4> QED BY <1>0, <2>1, <4>1 DEF Vedado
      <3> QED BY <3>1, <3>2
    <2> QED BY <2>1, <2>3 DEF Isolamento, Selecionados
  <1>4. ASSUME Comandar PROVE Isolamento'
    <2>1. UNCHANGED <<cenario, tanques, respostas, req, mao>>
      BY <1>4 DEF Comandar
    <2>2. PICK ack \in Finais \cup {"SEM_ACK"} :
            /\ IF ack = "SEM_ACK" THEN UNCHANGED hw
               ELSE Executa(tq.pc, tq.tanque, tq.tanque, tq.pc, ack)
            /\ tq' = [tq EXCEPT !.ack = ack]
      BY <1>4 DEF Comandar
    <2>3. tq.pc \in ComandosTanque /\ tq.tanque \in Selecionados
      BY <1>0, <1>4 DEF Comandar, FilaOK, ComandosTanque
    <2>4. tq'.pc = tq.pc /\ tq'.tanque = tq.tanque /\ tq'.ack = ack
      BY <1>0, <2>2 DEF FilaOK, Fila
    <2>5. \/ hw' = hw /\ (ack = "EXECUTADO" => respostas[tq.tanque][tq.pc] \in Feito)
          \/ hw' = Faz(tq.pc, tq.tanque)
      <3>1. CASE ack = "SEM_ACK"
        BY <2>2, <3>1
      <3>2. CASE ack # "SEM_ACK"
        BY <1>0, <2>2, <2>3, <3>2, ExecutaPasso DEF ComandosTanque, Fecham
      <3> QED BY <3>1, <3>2
    <2>6. CASE tq.pc \in Fecham
      <3>1. hw'.abertas \subseteq hw.abertas /\ hw'.linha = Nenhum
        BY <1>0, <2>5, <2>6, VedadoFecha
      <3>2. tq.pc = "fechar_principal" /\ hw' = Faz(tq.pc, tq.tanque) => tq.tanque \notin hw'.abertas
        BY <1>0, <2>6, FazFecha
      <3>3. ASSUME NEW u \in Selecionados PROVE Vedado(u)'
        BY <1>0, <2>1, <2>4, <2>5, <3>1, <3>2 DEF Vedado
      <3> QED BY <2>1, <3>1, <3>3 DEF Isolamento, Selecionados
    <2>7. CASE tq.pc = "reabrir"
      <3>1. hw'.abertas \subseteq hw.abertas \cup {tq.tanque} /\ hw'.linha = Nenhum
        BY <1>0, <2>3, <2>5, <2>7, FazAbre DEF Equipamento, Isolamento
      <3>2. ASSUME NEW u \in Selecionados PROVE Vedado(u)'
        BY <1>0, <2>1, <2>4, <2>7, <3>1 DEF Vedado, Isolantes, Isoladas
      <3> QED BY <2>1, <3>1, <3>2 DEF Isolamento, Selecionados
    <2> QED BY <2>3, <2>6, <2>7 DEF ComandosTanque, Fecham
  <1>5. ASSUME TPerde PROVE Isolamento'
    <2>1. UNCHANGED <<tanques, hw, req, mao>>
      BY <1>5 DEF TPerde
    <2>2. tq'.pc = tq.pc /\ tq'.tanque = tq.tanque /\ tq'.ack = "SEM_ACK"
      BY <1>0, <1>5 DEF TPerde, FilaOK, Fila
    <2>3. ASSUME NEW u \in Selecionados, respostas'[u]["fechar_principal"] \in Feito
          PROVE  \/ respostas[u]["fechar_principal"] \in Feito
                 \/ tq.pc = "fechar_principal" /\ tq.tanque = u /\ tq.ack = "EXECUTADO"
      <3>1. respostas' = [respostas EXCEPT ![tq.tanque][tq.pc] =
                            CASE Esp32 /\ @ = "nenhuma" /\ tq.ack = "EXECUTADO" -> "ESP_EXECUTADO"
                              [] Esp32 /\ @ = "nenhuma" /\ tq.ack = "RECUSADO" -> "ESP_RECUSADO"
                              [] OTHER -> @]
        BY <1>5 DEF TPerde, GuardaPerdida
      <3>2. "fechar_principal" \in DOMAIN respostas[u] /\ u \in DOMAIN respostas
        BY <1>0 DEF RespostasOK, ComandosTanque
      <3> QED BY <1>0, <2>3, <3>1, <3>2 DEF Feito
    <2>4. ASSUME NEW u \in Selecionados PROVE Vedado(u)'
      BY <1>0, <2>1, <2>2, <2>3 DEF Vedado
    <2> QED BY <1>5, <2>1, <2>4, TypedNext DEF Isolamento, Selecionados, Mesmo, Next, Ambiente
  <1>6. ASSUME Consolidar PROVE Isolamento'
    <2>1. UNCHANGED <<cenario, hw, req, mao>> /\ tq'.pc = "livre"
      BY <1>6 DEF Consolidar, TTermina, Livre
    <2>2. ASSUME NEW u \in Selecionados, respostas'[u]["fechar_principal"] \in Feito
          PROVE  \/ respostas[u]["fechar_principal"] \in Feito
                 \/ tq.pc = "fechar_principal" /\ tq.tanque = u /\ tq.ack = "EXECUTADO"
      <3>1. respostas' = [respostas EXCEPT ![tq.tanque][tq.pc] = IF tq.ack \in Finais THEN tq.ack ELSE @]
        BY <1>6 DEF Consolidar, Guarda
      <3>2. "fechar_principal" \in DOMAIN respostas[u] /\ u \in DOMAIN respostas
        BY <1>0 DEF RespostasOK, ComandosTanque
      <3> QED BY <1>0, <2>2, <3>1, <3>2 DEF Feito, Finais
    <2>3. ASSUME NEW u \in Selecionados PROVE Vedado(u)'
      <3>1. CASE tanques'[u] = tanques[u]
        BY <1>0, <2>1, <2>2, <3>1 DEF Vedado
      <3>2. CASE tanques'[u] # tanques[u]
        <4>1. Mudanca(u) /\ tq.tanque = u
          BY <1>0, <1>6, <3>2, TanqueMuda
        <4> QED BY <1>0, <2>1, <2>2, <4>1 DEF Vedado, Mudanca, Isolantes
      <3> QED BY <3>1, <3>2
    <2> QED BY <2>1, <2>3 DEF Isolamento, Selecionados
  <1>7. ASSUME NEW t \in Selecionados, Leitura(t) PROVE Isolamento'
    <2>1. UNCHANGED <<cenario, respostas, hw, req, mao>>
      BY <1>7 DEF Leitura
    <2>2. tq'.pc = tq.pc /\ tq'.tanque = tq.tanque /\ tq'.ack = tq.ack
      <3>1. tq' = tq \/ tq' = [tq EXCEPT !.leu = FALSE]
        BY <1>7, TanqueLido
      <3> QED BY <1>0, <3>1 DEF FilaOK, Fila
    <2>3. ASSUME NEW u \in Selecionados
          PROVE  tanques'[u].etapa \in {tanques[u].etapa, "FALHA"}
      BY <1>7, TanqueLido
    <2>4. ASSUME NEW u \in Selecionados PROVE Vedado(u)'
      BY <1>0, <2>1, <2>2, <2>3 DEF Vedado, Isolantes, Isoladas
    <2> QED BY <2>1, <2>4 DEF Isolamento, Selecionados
  <1> QED BY <1>1, <1>2, <1>3, <1>4, <1>5, <1>6, <1>7

\* The other steps.
LEMMA IsolamentoNext == ASSUME Typed, Lida, Isolamento, Sossego, [Next]_vars PROVE Isolamento'
  <1>0. /\ hw \in Equipamento /\ FilaOK /\ RespostasOK /\ tanques \in [Selecionados -> Tanque]
        /\ Selecionados \subseteq Tanques /\ Geral \notin Selecionados /\ Nenhum \notin Tanques
        /\ req.op # "retomada" /\ mao = SemValvula /\ hw.linha = Nenhum /\ Mesmo
        /\ Selecionados' = Selecionados /\ \A t \in Selecionados : Vedado(t)
    BY ClosureAssumption, TypedNext DEF Typed, CenarioRec, Selecionados, Isolamento, Mesmo
  \* Nothing is opened, and the stages and the answers of the tanks are the same.
  <1>1. ASSUME hw'.abertas \subseteq hw.abertas, hw'.linha = Nenhum, mao' = mao, req'.op # "retomada",
               \A t \in Selecionados : /\ tanques'[t].etapa \in {tanques[t].etapa, "CONCLUIDA", "NENHUMA"}
                                       /\ respostas'[t] = respostas[t],
               tq' = Livre \/ (tq'.pc = tq.pc /\ tq'.tanque = tq.tanque /\ tq'.ack = tq.ack)
        PROVE  Isolamento'
    <2>1. ASSUME NEW u \in Selecionados PROVE Vedado(u)'
      <3>1. CASE tq' = Livre
        BY <1>0, <1>1, <3>1 DEF Vedado, Livre, Isolantes, Isoladas
      <3>2. CASE tq'.pc = tq.pc /\ tq'.tanque = tq.tanque /\ tq'.ack = tq.ack
        BY <1>0, <1>1, <3>2 DEF Vedado, Isolantes, Isoladas
      <3> QED BY <1>1, <3>1, <3>2
    <2> QED BY <1>0, <1>1, <2>1 DEF Isolamento
  <1>2. CASE UNCHANGED vars
    BY <1>0, <1>1, <1>2 DEF vars, fila
  <1>3. ASSUME AvaliarGeral \/ IniciarManual PROVE Isolamento'
    <2>1. UNCHANGED <<tanques, tq, req, hw, mao>>
      BY <1>3 DEF AvaliarGeral, IniciarManual
    <2>2. respostas' = respostas \/ respostas' = [respostas EXCEPT ![Geral] = SemRespostas(EtapasComando)]
      BY <1>3 DEF AvaliarGeral, IniciarManual, Escreve, NovasRespostas
    <2>3. \A t \in Selecionados : respostas'[t] = respostas[t]
      BY <1>0, <2>2 DEF RespostasOK
    <2> QED BY <1>0, <1>1, <2>1, <2>3
  <1>4. ASSUME ClaimStep PROVE Isolamento'
    <2>1. UNCHANGED <<tanques, tq, req, respostas, mao>>
      BY <1>4 DEF ClaimStep
    <2>2. ComandoDaEtapa(ger.pc) \in Fecham /\ ComandoDaEtapa(ger.pc) # "reabrir"
      BY DEF ComandoDaEtapa, Fecham
    <2>3. hw' \in {hw, Faz(ComandoDaEtapa(ger.pc), Nenhum)}
      BY <1>0, <1>4, <2>2, ExecutaPasso DEF ClaimStep
    <2>4. hw'.abertas \subseteq hw.abertas /\ hw'.linha = Nenhum
      BY <1>0, <2>2, <2>3, VedadoFecha
    <2> QED BY <1>0, <1>1, <2>1, <2>4
  <1>5. ASSUME GPerde \/ ConsolidarGeral PROVE Isolamento'
    <2>1. UNCHANGED <<tanques, tq, req, hw, mao>>
      BY <1>5 DEF GPerde, ConsolidarGeral
    <2>2. \A t \in Selecionados : respostas'[t] = respostas[t]
      BY <1>0, <1>5 DEF GPerde, ConsolidarGeral, Guarda, GuardaPerdida, RespostasOK
    <2> QED BY <1>0, <1>1, <2>1, <2>2
  <1>6. ASSUME PararBombas \/ PararValvulas PROVE Isolamento'
    <2>1. UNCHANGED <<tanques, tq, respostas, mao>>
      BY <1>6 DEF PararBombas, PararValvulas, ReqComanda
    <2>2. PICK c \in {"desligar_todas", "fechar_todas"} : hw' \in {hw, Faz(c, Nenhum)}
      BY <1>6 DEF PararBombas, PararValvulas, ReqComanda
    <2>3. hw'.abertas \subseteq hw.abertas /\ hw'.linha = Nenhum
      BY <1>0, <2>2, VedadoFecha DEF Fecham
    <2>4. req'.op = req.op
      <3>1. RequisicaoOK
        BY DEF Typed
      <3> QED BY <1>6, <3>1 DEF PararBombas, PararValvulas, ReqComanda, RequisicaoOK
    <2> QED BY <1>0, <1>1, <2>1, <2>3, <2>4
  <1>7. ASSUME NEW op \in Operacoes, Requisitar(op) PROVE Isolamento'
    <2>1. UNCHANGED <<tanques, tq, respostas, hw, mao>> /\ req'.op = op
      BY <1>7 DEF Requisitar
    <2>2. op # "retomada"
      BY <1>7 DEF Requisitar, Evento, Sossego
    <2> QED BY <1>0, <1>1, <2>1, <2>2
  <1>8. ASSUME Gravar \/ Emergencia PROVE Isolamento'
    <2>1. UNCHANGED <<respostas, hw, mao>>
      BY <1>8 DEF Gravar, Emergencia
    <2>2. /\ \/ tanques' = tanques
             \/ TodosTerminam("CONCLUIDO", "CONCLUIDO", "CONCLUIDA")
             \/ TodosTerminam("INTERROMPIDO", "BLOQUEADO", "NENHUMA")
          /\ tq' = tq \/ tq' = [tq EXCEPT !.leu = FALSE]
      <3>1. CASE Gravar
        BY <3>1, FinalTermina DEF Gravar, Final
      <3>2. CASE Emergencia
        BY <3>2, FinalTermina DEF Emergencia
      <3> QED BY <1>8, <3>1, <3>2
    <2>3. ASSUME NEW t \in Selecionados
          PROVE  tanques'[t].etapa \in {tanques[t].etapa, "CONCLUIDA", "NENHUMA"}
      BY <1>0, <2>2, TodosTerminados
    <2>4. tq'.pc = tq.pc /\ tq'.tanque = tq.tanque /\ tq'.ack = tq.ack
      BY <1>0, <2>2 DEF FilaOK, Fila
    <2>5. req' = req \/ req' = SemRequisicao
      BY <1>8 DEF Gravar, Emergencia
    <2> QED BY <1>0, <1>1, <2>1, <2>3, <2>4, <2>5 DEF SemRequisicao
  <1>9. ASSUME Queda PROVE Isolamento'
    <2>1. UNCHANGED <<tanques, hw, mao>> /\ tq' = Livre /\ req'.op # "retomada"
      BY <1>9 DEF Queda, SemRequisicao
    <2>2. ASSUME NEW u \in Selecionados, respostas'[u]["fechar_principal"] \in Feito
          PROVE  \/ respostas[u]["fechar_principal"] \in Feito
                 \/ tq.pc = "fechar_principal" /\ tq.tanque = u /\ tq.ack = "EXECUTADO"
      <3>1. u # Geral /\ u \in DOMAIN respostas /\ "fechar_principal" \in DOMAIN respostas[u]
        BY <1>0 DEF RespostasOK, ComandosTanque
      <3>2. respostas'[u]["fechar_principal"] \in {respostas[u]["fechar_principal"],
                                                    AposQueda(u, "fechar_principal")}
        BY <1>9, <3>1 DEF Queda
      <3>3. CASE respostas'[u]["fechar_principal"] = respostas[u]["fechar_principal"]
        BY <2>2, <3>3
      <3>4. CASE respostas'[u]["fechar_principal"] = AposQueda(u, "fechar_principal")
        BY <2>2, <3>1, <3>4 DEF AposQueda, AckDe, Finais, Feito
      <3> QED BY <3>2, <3>3, <3>4
    <2>3. ASSUME NEW u \in Selecionados PROVE Vedado(u)'
      BY <1>0, <2>1, <2>2 DEF Vedado, Livre
    <2> QED BY <1>0, <2>1, <2>3 DEF Isolamento
  <1>10. ASSUME EncerrarAuxilio PROVE Isolamento'
    <2>1. UNCHANGED <<tanques, tq, req, respostas, mao>>
      BY <1>10 DEF EncerrarAuxilio
    <2>2. PICK c \in {"desligar_auxiliar", "fechar_auxiliar"} : hw' \in {hw, Faz(c, aux)}
      BY <1>10 DEF EncerrarAuxilio
    <2>3. hw'.abertas \subseteq hw.abertas /\ hw'.linha = Nenhum
      BY <1>0, <2>2, VedadoFecha DEF Fecham
    <2> QED BY <1>0, <1>1, <2>1, <2>3
  <1>11. CASE Telemetria \/ Silencio
    BY <1>0, <1>1, <1>11 DEF Telemetria, Silencio, fila
  \* What would disturb it is not among the requests of this process.
  <1>12. ~Energizar /\ ~MoverValvula
    BY <1>0 DEF Energizar, MoverValvula
  <1>13. ~LigarAuxiliar
    BY <1>0 DEF LigarAuxiliar
  <1>14. ASSUME NEW t \in Selecionados PROVE ~AbrirAuxiliar(t) /\ ~OperarValvula(t)
    BY DEF AbrirAuxiliar, OperarValvula, Evento, Sossego
  <1> QED BY <1>2, <1>3, <1>4, <1>5, <1>6, <1>7, <1>8, <1>9, <1>10, <1>11, <1>12, <1>13, <1>14,
             IsolamentoFila DEF Next, Filas, Ambiente

\* RetentionIsIsolatedUndisturbed: a tank whose retention is measured has its valves closed,
\* in a process that is neither resumed nor helped, and whose valves nobody moves by hand.
THEOREM RetentionTheorem == Spec => []RetentionIsIsolatedUndisturbed
  <1> DEFINE I == Typed /\ Encerrados /\ (Sossego => Isolamento)
  <1>1. Init => I
    BY TypedInit, EncerradosInit, IsolamentoInit
  <1>2. I /\ [Next]_vars => I'
    <2> SUFFICES ASSUME I, [Next]_vars PROVE I'
      OBVIOUS
    <2>1. Typed' /\ Encerrados' /\ Mesmo
      BY TypedNext, EncerradosNext
    <2>2. Sossego' => Sossego
      BY <2>1 DEF Sossego, Mesmo
    <2>3. Sossego => Isolamento'
      BY IsolamentoNext DEF Encerrados
    <2> QED BY <2>1, <2>2, <2>3
  <1>3. I => RetentionIsIsolatedUndisturbed
    <2> SUFFICES ASSUME Typed, Isolamento, NEW t \in Selecionados, tanques[t].etapa = "RETENDO"
                 PROVE  t \notin hw.abertas /\ hw.linha # t
      BY DEF RetentionIsIsolatedUndisturbed, RetentionIsIsolated, Sossego
    <2>1. t \in Tanques
      BY DEF Typed, CenarioRec, Selecionados
    <2> QED BY <2>1, ClosureAssumption DEF Isolamento, Vedado, Isoladas
  <1> QED BY <1>1, <1>2, <1>3, PTL DEF Spec

----------------------------------------------------------------------------
(* The general closure.  It concludes on stored telemetry; what that       *)
(* telemetry says of the pumps is true of the controller at any moment,    *)
(* and what it says of the valves once the last command has closed them.   *)

\* Who writes what.
LEMMA Escritores ==
    ASSUME [Next]_vars
    PROVE  /\ processo' = processo \/ AvaliarGeral \/ IniciarManual \/ ConsolidarGeral \/ Gravar \/ Emergencia
           /\ ger' = ger \/ AvaliarGeral \/ ClaimStep \/ GPerde \/ ConsolidarGeral \/ Queda \/ Emergencia
           /\ \/ tanques' = tanques \/ ClaimIsolation \/ Decidir \/ Consolidar \/ Gravar \/ Emergencia
              \/ \E t \in Selecionados : Leitura(t)
           /\ \/ tq' = tq \/ ClaimIsolation \/ Decidir \/ Comandar \/ TPerde \/ Consolidar \/ Queda
              \/ Gravar \/ Emergencia
              \/ \E t \in Selecionados : LerPronto(t) \/ Avaliar(t) \/ Leitura(t)
           /\ \/ req' = req \/ PararBombas \/ PararValvulas \/ Energizar \/ Gravar \/ Queda
              \/ \E op \in Operacoes : Requisitar(op)
           /\ mao' = mao \/ MoverValvula \/ \E t \in Selecionados : OperarValvula(t)
           /\ mudo' = mudo \/ Silencio
           /\ \/ respostas' = respostas \/ ClaimIsolation \/ TPerde \/ Consolidar \/ AvaliarGeral
              \/ IniciarManual \/ GPerde \/ ConsolidarGeral \/ Queda
  <1>1. CASE UNCHANGED vars
    BY <1>1 DEF vars, fila
  <1>2. CASE \E t \in Selecionados : LerPronto(t) \/ Avaliar(t)
    BY <1>2 DEF LerPronto, Avaliar
  <1>3. CASE ClaimIsolation \/ Decidir \/ Consolidar
    BY <1>3 DEF ClaimIsolation, Decidir, Consolidar
  <1>4. CASE Comandar \/ TPerde \/ ClaimStep \/ GPerde
    BY <1>4 DEF Comandar, TPerde, ClaimStep, GPerde
  <1>5. CASE AvaliarGeral \/ IniciarManual \/ ConsolidarGeral
    <2>1. UNCHANGED <<tanques, tq, req, mudo, mao>>
      BY <1>5 DEF AvaliarGeral, IniciarManual, ConsolidarGeral
    <2>2. IniciarManual => ger' = ger
      BY DEF IniciarManual, Escreve
    <2> QED BY <1>5, <2>1, <2>2
  <1>6. CASE PararBombas \/ PararValvulas \/ Energizar
    BY <1>6 DEF PararBombas, PararValvulas, ReqComanda, Energizar
  <1>7. CASE Gravar \/ Emergencia \/ Queda
    BY <1>7 DEF Gravar, Emergencia, Queda
  <1>8. CASE Telemetria \/ Silencio
    BY <1>8 DEF Telemetria, Silencio, fila
  <1>9. CASE MoverValvula \/ LigarAuxiliar \/ EncerrarAuxilio
    BY <1>9 DEF MoverValvula, LigarAuxiliar, EncerrarAuxilio
  <1>10. CASE \E t \in Selecionados : Leitura(t) \/ AbrirAuxiliar(t) \/ OperarValvula(t)
    BY <1>10 DEF Leitura, AbrirAuxiliar, OperarValvula
  <1>11. CASE \E op \in Operacoes : Requisitar(op)
    BY <1>11 DEF Requisitar
  <1> QED BY <1>1, <1>2, <1>3, <1>4, <1>5, <1>6, <1>7, <1>8, <1>9, <1>10, <1>11 DEF Next, Filas, Ambiente

\* The stage of the last command.
Reconf == "RECONFIRMANDO_VALVULAS"
\* What the queue of the general closure writes on the row of the process, and when.
LEMMA GeralEscreve ==
    ASSUME Typed, AvaliarGeral \/ IniciarManual
    PROVE  /\ EmExecucao /\ ger = Livre /\ UNCHANGED <<tanques, tq, req, mao>>
           /\ tele'.saidas = tele.saidas
           /\ \/ /\ UNCHANGED <<processo, respostas>> /\ EncerrandoGeral
                 /\ processo.etapa \in EtapasComando
                 /\ ger' = [Livre EXCEPT !.pc = processo.etapa, !.leu = TRUE]
                 /\ processo.etapa = Reconf => mao = SemValvula
              \/ /\ ger' = ger
                 /\ \E d \in DecisoesGerais :
                      /\ processo' = GeralEscrito(processo, d)
                      /\ d = "aguardar" \/ d = "falha" \/ TodosConcluidos
                      /\ d = "falha" => EncerrandoGeral \/ TodosConcluidos
                      /\ d = "validar" => EncerrandoGeral /\ respostas' = respostas
                      /\ d \in {"iniciar", "recomecar"} =>
                           respostas' = [respostas EXCEPT ![Geral] = SemRespostas(EtapasComando)]
                      /\ d \notin {"iniciar", "recomecar"} => respostas' = respostas
                      /\ d = "concluir" => /\ EncerrandoGeral /\ Seguro(tele.saidas)
                                           /\ processo.etapa \notin {"VALIDANDO_ISOLAMENTO"} \cup EtapasComando
  <1>0. processo \in Processo /\ tele \in Snapshot
    BY DEF Typed
  <1>1. EmExecucao /\ ger = Livre /\ UNCHANGED <<tanques, tq, req, mao>>
    BY DEF AvaliarGeral, IniciarManual
  <1>2. ASSUME NEW d \in DecisoesGerais, Escreve(d)
        PROVE  /\ tele'.saidas = tele.saidas /\ ger' = ger /\ processo' = GeralEscrito(processo, d)
               /\ d \in {"iniciar", "recomecar"} =>
                    respostas' = [respostas EXCEPT ![Geral] = SemRespostas(EtapasComando)]
               /\ d \notin {"iniciar", "recomecar"} => respostas' = respostas
    BY <1>0, <1>2 DEF Escreve, NovasRespostas, Snapshot
  <1>3. CASE IniciarManual
    <2>1. Escreve("iniciar") /\ TodosConcluidos /\ "iniciar" \in DecisoesGerais
      BY <1>3 DEF IniciarManual, DecisoesGerais
    <2> QED BY <1>1, <1>2, <2>1
  <1>4. CASE AvaliarGeral
    <2>1. PICK a \in BOOLEAN :
            /\ DecisaoGeral(a) # "nada"
            /\ IF DecisaoGeral(a) \in EtapasComando
               THEN ger' = [Livre EXCEPT !.pc = DecisaoGeral(a), !.leu = TRUE]
                    /\ UNCHANGED <<processo, tele, respostas, aux>>
               ELSE Escreve(DecisaoGeral(a))
      BY <1>4 DEF AvaliarGeral
    <2>2. CASE DecisaoGeral(a) \in EtapasComando
      <3>1. /\ EncerrandoGeral /\ processo.etapa = DecisaoGeral(a)
            /\ processo.etapa = Reconf => mao = SemValvula
        BY <2>2 DEF DecisaoGeral, DecisaoDaEtapa, DecisaoConfirmacao, EtapasComando, Reconf
      <3> QED BY <1>1, <2>1, <2>2, <3>1
    <2>3. CASE DecisaoGeral(a) \notin EtapasComando
      <3> DEFINE d == DecisaoGeral(a)
      <3>1. d \in DecisoesGerais /\ Escreve(d)
        BY <1>0, <2>1, <2>3, GeralDecide
      <3>2. /\ d = "aguardar" \/ d = "falha" \/ TodosConcluidos
            /\ d = "falha" => EncerrandoGeral \/ TodosConcluidos
            /\ d = "validar" => EncerrandoGeral
            /\ d = "concluir" => /\ EncerrandoGeral /\ Seguro(tele.saidas)
                                 /\ processo.etapa \notin {"VALIDANDO_ISOLAMENTO"} \cup EtapasComando
        BY <2>1, <2>3 DEF DecisaoGeral, DecisaoDaEtapa, DecisaoConfirmacao, EtapasComando, Confirmada
      <3> HIDE DEF d
      <3>3. /\ tele'.saidas = tele.saidas /\ ger' = ger /\ processo' = GeralEscrito(processo, d)
            /\ d \in {"iniciar", "recomecar"} =>
                 respostas' = [respostas EXCEPT ![Geral] = SemRespostas(EtapasComando)]
            /\ d \notin {"iniciar", "recomecar"} => respostas' = respostas
        BY <1>2, <3>1
      <3> QED BY <1>1, <3>1, <3>2, <3>3
    <2> QED BY <2>2, <2>3
  <1> QED BY <1>3, <1>4

\* A tank that no reading and no closure changes any more, for what the general closure
\* asks of it: concluded, or interrupted.
Parado(t) ==
    \/ Concluido(t)
    \/ /\ tanques[t].status = "INTERROMPIDO" /\ tanques[t].enc \in {"BLOQUEADO", "FALHA"}
       /\ tanques[t].etapa \in {"NENHUMA", "FALHA"}
Parados == processo.geral \notin {"INATIVO", "AGUARDANDO_TANQUES"} => \A t \in Selecionados : Parado(t)
\* The stage that the queue of the general closure has read.
Lido ==
    /\ EncerrandoGeral => processo.etapa \in {"VALIDANDO_ISOLAMENTO", "AGUARDANDO_TELEMETRIA"}
                                               \cup EtapasComando
    /\ ger.leu => EncerrandoGeral /\ processo.etapa = ger.pc
\* A process that a person has concluded receives no other request; and a reopening that was
\* in progress belongs to one.
Definitivo ==
    /\ processo.status = "CONCLUIDO" /\ processo.geral # "CONCLUIDO" => req = SemRequisicao
    /\ tq.pc = "reabrir" /\ Concluido(tq.tanque) => processo.status = "CONCLUIDO" /\ req = SemRequisicao
Previsto ==
    /\ mudo => "silencio" \in cenario.operacoes
    /\ req.op = "retomada" => "retomada" \in cenario.operacoes
EncerramentoGeral == Parados /\ Lido /\ Definitivo /\ Previsto
\* No general closure is in progress when the startup completes.
LEMMA EncerramentoGeralInit == ASSUME Init PROVE EncerramentoGeral
  <1>1. processo.geral = "INATIVO" /\ processo.status = "EM_EXECUCAO" /\ ~ger.leu
        /\ tq.pc = "livre" /\ ~mudo /\ req.op = "nenhuma"
    BY DEF Init, Livre, SemRequisicao
  <1> QED BY <1>1 DEF EncerramentoGeral, Parados, Lido, Definitivo, Previsto, EncerrandoGeral

\* Only what was foreseen for the process happens to it.
LEMMA PrevistoNext == ASSUME Typed, Previsto, [Next]_vars PROVE Previsto'
  <1>0. Mesmo /\ RequisicaoOK
    BY TypedNext DEF Typed
  <1>1. mudo' => "silencio" \in cenario.operacoes
    <2>1. Silencio => "silencio" \in cenario.operacoes
      BY DEF Silencio, Evento
    <2> QED BY <2>1, Escritores DEF Previsto
  <1>2. req'.op = "retomada" => "retomada" \in cenario.operacoes
    <2>1. ASSUME PararBombas \/ PararValvulas \/ Energizar \/ Gravar \/ Queda
          PROVE  req'.op \in {req.op, "nenhuma"}
      <3>1. CASE PararBombas \/ PararValvulas
        BY <1>0, <3>1 DEF PararBombas, PararValvulas, ReqComanda, RequisicaoOK
      <3>2. CASE Energizar \/ Gravar \/ Queda
        BY <1>0, <3>2 DEF Energizar, Gravar, Queda, SemRequisicao, RequisicaoOK
      <3> QED BY <2>1, <3>1, <3>2
    <2>2. ASSUME NEW op \in Operacoes, Requisitar(op)
          PROVE  req'.op = op /\ op \in cenario.operacoes
      BY <2>2 DEF Requisitar, Evento
    <2> QED BY <2>1, <2>2, Escritores DEF Previsto
  <1> QED BY <1>0, <1>1, <1>2 DEF Previsto, Mesmo

\* The general closure is the only one to move its stage while it runs.
LEMMA LidoNext == ASSUME Typed, Lido, [Next]_vars PROVE Lido'
  <1>0. processo \in Processo /\ FilaGeralOK
    BY DEF Typed
  <1>1. ASSUME AvaliarGeral \/ IniciarManual PROVE Lido'
    <2>1. CASE /\ processo' = processo /\ EncerrandoGeral
               /\ processo.etapa \in EtapasComando
               /\ ger' = [Livre EXCEPT !.pc = processo.etapa, !.leu = TRUE]
      <3>1. ger'.leu /\ ger'.pc = processo.etapa
        BY <2>1 DEF Livre
      <3> QED BY <2>1, <3>1 DEF Lido, EncerrandoGeral
    <2>2. ASSUME ger' = ger, ger = Livre, NEW d \in DecisoesGerais, processo' = GeralEscrito(processo, d),
                 d = "validar" => EncerrandoGeral
          PROVE  Lido'
      <3>1. ~ger'.leu
        BY <2>2 DEF Livre
      <3>2. CASE d \in {"falha", "aguardar", "manual", "concluir"}
        BY <1>0, <2>2, <3>1, <3>2 DEF GeralEscrito, GeralComFalha, Processo, Lido, EncerrandoGeral
      <3>3. CASE d = "iniciar"
        BY <1>0, <2>2, <3>1, <3>3 DEF GeralEscrito, Processo, Lido, EncerrandoGeral
      <3>4. CASE d \in {"validar", "recomecar"}
        BY <1>0, <2>2, <3>1, <3>4 DEF GeralEscrito, Processo, Lido, EncerrandoGeral, EtapasComando
      <3> QED BY <2>2, <3>2, <3>3, <3>4 DEF DecisoesGerais
    <2> QED BY <1>1, <2>1, <2>2, GeralEscreve
  <1>2. ASSUME ConsolidarGeral PROVE Lido'
    <2>1. ger' = Livre
      BY <1>2 DEF ConsolidarGeral
    <2>2. processo' \in {processo, Seguinte(processo), GeralComRepeticao(processo)}
      BY <1>2 DEF ConsolidarGeral
    <2>3. CASE processo' = processo
      BY <2>1, <2>3 DEF Lido, EncerrandoGeral, Livre
    <2>4. CASE processo' = Seguinte(processo)
      BY <1>0, <2>1, <2>4 DEF Seguinte, Processo, Lido, EncerrandoGeral, Livre, EtapasComando
    <2>5. CASE processo' = GeralComRepeticao(processo)
      BY <1>0, <2>1, <2>5 DEF GeralComRepeticao, GeralComFalha, Processo, Lido, EncerrandoGeral, Livre
    <2> QED BY <2>2, <2>3, <2>4, <2>5
  <1>3. ASSUME Emergencia PROVE Lido'
    <2>1. ~ger'.leu
      BY <1>0, <1>3 DEF Emergencia, FilaGeralOK, Fila
    <2>2. processo'.etapa = "CONFIRMANDO_ISOLAMENTO"
      BY <1>0, <1>3 DEF Emergencia, Processo
    <2> QED BY <2>1, <2>2 DEF Lido, EtapasComando
  <1>4. ASSUME Gravar PROVE Lido'
    <2>1. ger' = ger
      BY <1>4 DEF Gravar
    <2>2. processo'.geral = processo.geral /\ processo'.etapa = processo.etapa
      BY <1>0, <1>4 DEF Gravar, Final, Processo
    <2> QED BY <2>1, <2>2 DEF Lido, EncerrandoGeral
  <1>5. ASSUME ClaimStep \/ GPerde \/ Queda PROVE Lido'
    <2>1. processo' = processo
      BY <1>5 DEF ClaimStep, GPerde, Queda
    <2>2. ger' = Livre \/ (ger'.leu = ger.leu /\ ger'.pc = ger.pc)
      BY <1>0, <1>5 DEF ClaimStep, GPerde, Queda, FilaGeralOK, Fila
    <2> QED BY <2>1, <2>2 DEF Lido, EncerrandoGeral, Livre
  <1>6. CASE UNCHANGED <<processo, ger>>
    BY <1>6 DEF Lido, EncerrandoGeral
  <1> QED BY <1>1, <1>2, <1>3, <1>4, <1>5, <1>6, Escritores

\* A tank that has stopped stays so, and only a write of the lifecycle concludes it.
LEMMA ParadoFica ==
    ASSUME Typed, Encerrados, ClaimIsolation \/ Decidir \/ Consolidar \/ \E t \in Selecionados : Leitura(t),
           NEW u \in Selecionados, Parado(u)
    PROVE  Parado(u)' /\ (Concluido(u)' => Concluido(u))
  <1>0. tanques[u].status \in TanqueTerminal
    BY DEF Parado, Concluido, TanqueTerminal
  <1>1. CASE /\ tanques'[u].status = tanques[u].status /\ tanques'[u].enc = tanques[u].enc
             /\ tanques'[u].etapa = tanques[u].etapa
    BY <1>1 DEF Parado, Concluido
  <1>2. CASE Decidir \/ Consolidar
    <2>1. tanques'[u] = tanques[u] \/ Mudanca(u)
      BY <1>2, TanqueMuda DEF Encerrados
    <2>2. CASE Mudanca(u)
      <3>1. tanques[u].etapa \in {"NENHUMA", "FALHA"} /\ tanques[u].status = "INTERROMPIDO"
        BY <2>2 DEF Mudanca, Parado, Concluido, EmEncerramento
      <3>2. tanques'[u].status = "INTERROMPIDO" /\ tanques'[u].enc = "FALHA" /\ tanques'[u].etapa = "FALHA"
        BY <2>2, <3>1 DEF Mudanca
      <3> QED BY <3>2 DEF Parado, Concluido
    <2> QED BY <1>1, <2>1, <2>2
  <1>3. CASE ClaimIsolation
    <2>1. tanques'[u] = tanques[u]
      BY <1>0, <1>3, TanqueReivindicado DEF Encerrados, TanqueTerminal
    <2> QED BY <1>1, <2>1
  <1>4. ASSUME NEW t \in Selecionados, Leitura(t) PROVE Parado(u)' /\ (Concluido(u)' => Concluido(u))
    <2>1. /\ tanques'[u].status = tanques[u].status /\ tanques'[u].enc = tanques[u].enc
          /\ tanques'[u].etapa = tanques[u].etapa
      BY <1>0, <1>4, TanqueLido
    <2> QED BY <1>1, <2>1
  <1> QED BY <1>2, <1>3, <1>4

\* The final write of the lifecycle, and that of the emergency.
LEMMA FinalEscreve ==
    ASSUME Typed
    PROVE  /\ Final("CONCLUIDO", "CONCLUIDO", "CONCLUIDO", "CONCLUIDA") =>
                processo'.status = "CONCLUIDO" /\ \A t \in Selecionados : Concluido(t)'
           /\ Final("INTERROMPIDO", "INTERROMPIDO", "BLOQUEADO", "NENHUMA") \/ Emergencia =>
                processo'.status = "INTERROMPIDO" /\ \A t \in Selecionados : Interrompido(t)'
  <1>0. processo \in Processo /\ tanques \in [Selecionados -> Tanque]
    BY DEF Typed
  <1>2. CASE Final("CONCLUIDO", "CONCLUIDO", "CONCLUIDO", "CONCLUIDA")
    <2>1. processo'.status = "CONCLUIDO"
      BY <1>0, <1>2 DEF Final, Processo
    <2>2. ASSUME NEW t \in Selecionados PROVE Concluido(t)'
      BY <1>0, <1>2, FinalTermina, TodosTerminados DEF Concluido
    <2>3. ~(Final("INTERROMPIDO", "INTERROMPIDO", "BLOQUEADO", "NENHUMA") \/ Emergencia)
      BY <1>0, <2>1 DEF Final, Emergencia, Processo
    <2> QED BY <2>1, <2>2, <2>3
  <1>3. CASE Final("INTERROMPIDO", "INTERROMPIDO", "BLOQUEADO", "NENHUMA") \/ Emergencia
    <2>1. processo'.status = "INTERROMPIDO"
      BY <1>0, <1>3 DEF Final, Emergencia, Processo
    <2>3. ASSUME NEW t \in Selecionados PROVE Interrompido(t)'
      BY <1>0, <1>3, FinalTermina, TodosTerminados DEF Interrompido
    <2>4. ~Final("CONCLUIDO", "CONCLUIDO", "CONCLUIDO", "CONCLUIDA")
      BY <1>0, <2>1 DEF Final, Processo
    <2> QED BY <2>1, <2>3, <2>4
  <1> QED BY <1>2, <1>3

\* The general closure is in progress only over tanks that have stopped.
LEMMA ParadosNext == ASSUME Typed, Encerrados, Parados, Lido, [Next]_vars PROVE Parados'
  <1>0. processo \in Processo /\ tanques \in [Selecionados -> Tanque] /\ Selecionados' = Selecionados
    BY TypedNext DEF Typed, Mesmo, Selecionados
  <1>1. ASSUME ClaimIsolation \/ Decidir \/ Consolidar \/ \E t \in Selecionados : Leitura(t)
        PROVE  Parados'
    <2>1. processo' = processo
      BY <1>1 DEF ClaimIsolation, Decidir, Consolidar, Leitura
    <2> QED BY <1>0, <1>1, <2>1, ParadoFica DEF Parados
  <1>2. ASSUME AvaliarGeral \/ IniciarManual PROVE Parados'
    <2>1. tanques' = tanques
      BY <1>2 DEF AvaliarGeral, IniciarManual
    <2>2. CASE processo' = processo
      BY <2>1, <2>2, <1>0 DEF Parados, Parado, Concluido
    <2>3. CASE TodosConcluidos
      BY <1>0, <2>1, <2>3 DEF Parados, Parado, Concluido, TodosConcluidos
    <2>4. CASE processo' = GeralEscrito(processo, "aguardar")
      BY <1>0, <2>4 DEF Parados, GeralEscrito, Processo
    <2>5. CASE EncerrandoGeral
      BY <1>0, <2>1, <2>5 DEF Parados, EncerrandoGeral, Parado, Concluido
    <2> QED BY <1>2, <2>2, <2>3, <2>4, <2>5, GeralEscreve
  <1>3. ASSUME ConsolidarGeral PROVE Parados'
    <2>1. tanques' = tanques
      BY <1>3 DEF ConsolidarGeral
    <2>2. processo' = processo \/ ger.leu
      BY <1>3 DEF ConsolidarGeral
    <2>3. ger.leu => \A t \in Selecionados : Parado(t)
      BY DEF Lido, EncerrandoGeral, Parados
    <2> QED BY <1>0, <2>1, <2>2, <2>3 DEF Parados, Parado, Concluido
  <1>4. ASSUME Gravar \/ Emergencia PROVE Parados'
    <2>1. CASE Final("CONCLUIDO", "CONCLUIDO", "CONCLUIDO", "CONCLUIDA")
      BY <1>0, <2>1, FinalEscreve DEF Parados, Parado, Concluido
    <2>2. CASE Final("INTERROMPIDO", "INTERROMPIDO", "BLOQUEADO", "NENHUMA") \/ Emergencia
      BY <1>0, <2>2, FinalEscreve DEF Parados, Parado, Concluido, Interrompido
    <2>4. CASE UNCHANGED tanques /\ processo'.geral = processo.geral
      BY <1>0, <2>4 DEF Parados, Parado, Concluido
    <2>5. Gravar => \/ Final("CONCLUIDO", "CONCLUIDO", "CONCLUIDO", "CONCLUIDA")
                    \/ Final("INTERROMPIDO", "INTERROMPIDO", "BLOQUEADO", "NENHUMA")
                    \/ UNCHANGED tanques /\ processo'.geral = processo.geral
      BY <1>0 DEF Gravar, Processo
    <2> QED BY <1>4, <2>1, <2>2, <2>4, <2>5
  <1>5. CASE UNCHANGED <<processo, tanques>>
    BY <1>0, <1>5 DEF Parados, Parado, Concluido
  <1> QED BY <1>1, <1>2, <1>3, <1>4, <1>5, Escritores

\* Once a person has concluded the process nobody changes it, and a reopening of a tank that
\* is found concluded is a late one.
LEMMA DefinitivoNext ==
    ASSUME Typed, Encerrados, Parados, Lido, Definitivo, [Next]_vars
    PROVE  Definitivo'
  <1>0. /\ processo \in Processo /\ tanques \in [Selecionados -> Tanque] /\ FilaOK /\ RequisicaoOK
        /\ Selecionados' = Selecionados
    BY TypedNext DEF Typed, Mesmo, Selecionados
  <1>1. ASSUME processo'.status = "CONCLUIDO", processo'.geral # "CONCLUIDO"
        PROVE  req' = SemRequisicao
    <2>1. CASE UNCHANGED <<processo, req>>
      BY <1>1, <2>1 DEF Definitivo
    <2>2. CASE AvaliarGeral \/ IniciarManual
      <3>1. EmExecucao /\ \/ processo' = processo
                          \/ \E d \in DecisoesGerais : processo' = GeralEscrito(processo, d)
        BY <2>2, GeralEscreve
      <3>2. ASSUME NEW d \in DecisoesGerais, processo' = GeralEscrito(processo, d) PROVE FALSE
        <4>1. CASE d = "concluir"
          BY <1>0, <1>1, <3>2, <4>1 DEF GeralEscrito, Processo
        <4>2. CASE d # "concluir"
          BY <1>0, <1>1, <3>1, <3>2, <4>2
             DEF GeralEscrito, GeralComFalha, DecisoesGerais, Processo, EmExecucao
        <4> QED BY <4>1, <4>2
      <3> QED BY <1>1, <3>1, <3>2 DEF EmExecucao
    <2>3. CASE ConsolidarGeral
      <3>1. req' = req
        BY <2>3 DEF ConsolidarGeral
      <3>2. processo'.status = processo.status
        BY <1>0, <2>3 DEF ConsolidarGeral, Seguinte, GeralComRepeticao, GeralComFalha, Processo
      <3>3. processo'.geral = processo.geral
        <4>1. ~EmExecucao
          BY <1>1, <3>2 DEF EmExecucao
        <4> QED BY <1>0, <2>3, <4>1 DEF ConsolidarGeral, GeralComRepeticao, Processo
      <3> QED BY <1>1, <3>1, <3>2, <3>3 DEF Definitivo
    <2>4. CASE Gravar \/ Queda
      BY <2>4 DEF Gravar, Queda
    <2>5. CASE Emergencia
      BY <1>0, <1>1, <2>5 DEF Emergencia, Processo
    <2>6. CASE PararBombas \/ PararValvulas \/ Energizar \/ \E op \in Operacoes : Requisitar(op)
      <3>1. processo' = processo
        BY <2>6 DEF PararBombas, PararValvulas, ReqComanda, Energizar, Requisitar
      <3>2. req # SemRequisicao \/ processo.status # "CONCLUIDO"
        BY <2>6 DEF PararBombas, PararValvulas, ReqComanda, Energizar, Requisitar, Permite, EmExecucao,
                    SemRequisicao
      <3> QED BY <1>1, <3>1, <3>2 DEF Definitivo
    <2> QED BY <2>1, <2>2, <2>3, <2>4, <2>5, <2>6, Escritores
  <1>2. ASSUME tq'.pc = "reabrir", Concluido(tq.tanque)'
        PROVE  processo'.status = "CONCLUIDO" /\ req' = SemRequisicao
    <2>0. FilaOK' /\ tq'.tanque \in Selecionados
      BY <1>0, <1>2, TypedNext DEF Typed, FilaOK
    <2>1. CASE ClaimIsolation \/ Decidir \/ Consolidar \/ Queda
      BY <1>2, <2>1 DEF ClaimIsolation, Decidir, Consolidar, Queda, TTermina, Livre
    <2>2. ASSUME NEW t \in Selecionados, LerPronto(t) \/ Avaliar(t) PROVE FALSE
      <3>1. PICK d : tq' = [pc |-> d, tanque |-> t, leu |-> TRUE, ack |-> "nada"]
        BY <2>2 DEF LerPronto, Avaliar, TLe
      <3>2. tanques'[t].enc \in EmEncerramento
        BY <1>2, <2>2, <3>1, LidaAgora DEF Lida
      <3> QED BY <1>2, <3>1, <3>2 DEF Concluido, EmEncerramento
    <2>3. CASE Final("CONCLUIDO", "CONCLUIDO", "CONCLUIDO", "CONCLUIDA") /\ Gravar
      <3>1. processo'.status = "CONCLUIDO"
        BY <1>0, <2>3 DEF Final, Processo
      <3> QED BY <2>3, <3>1 DEF Gravar
    <2>4. CASE Final("INTERROMPIDO", "INTERROMPIDO", "BLOQUEADO", "NENHUMA") \/ Emergencia
      <3>1. tanques'[tq'.tanque].status = "INTERROMPIDO"
        BY <2>0, <2>4, FinalEscreve DEF Interrompido
      <3> QED BY <1>2, <3>1 DEF Concluido
    \* Else neither the reopening nor the tank is new.
    <2>5. ASSUME tq.pc = "reabrir", Concluido(tq.tanque), processo' = processo \/ ~EmExecucao
          PROVE  processo'.status = "CONCLUIDO" /\ req' = SemRequisicao
      <3>1. processo.status = "CONCLUIDO" /\ req = SemRequisicao
        BY <2>5 DEF Definitivo
      <3>2. ~Gravar /\ ~Emergencia /\ ~AvaliarGeral /\ ~IniciarManual
        BY <3>1 DEF Gravar, SemRequisicao, Emergencia, AvaliarGeral, IniciarManual, EmExecucao
      <3>3. processo'.status = "CONCLUIDO"
        <4>1. ConsolidarGeral => processo'.status = processo.status
          BY <1>0 DEF ConsolidarGeral, Seguinte, GeralComRepeticao, GeralComFalha, Processo
        <4> QED BY <3>1, <3>2, <4>1, Escritores
      <3>4. req' = SemRequisicao
        BY <3>1, <3>2, Escritores DEF PararBombas, PararValvulas, ReqComanda, Energizar, Queda,
              Requisitar, Permite, EmExecucao, SemRequisicao
      <3> QED BY <3>3, <3>4
    <2>6. ASSUME tq'.pc = tq.pc, tq'.tanque = tq.tanque, Concluido(tq.tanque)
          PROVE  processo'.status = "CONCLUIDO" /\ req' = SemRequisicao
      <3>1. processo.status = "CONCLUIDO"
        BY <1>2, <2>6 DEF Definitivo
      <3> QED BY <1>2, <2>5, <2>6, <3>1 DEF EmExecucao
    <2>7. ASSUME NEW t \in Selecionados, Leitura(t) PROVE processo'.status = "CONCLUIDO" /\ req' = SemRequisicao
      <3>1. tq'.pc = tq.pc /\ tq'.tanque = tq.tanque
        <4>1. tq' = tq \/ tq' = [tq EXCEPT !.leu = FALSE]
          BY <2>7, TanqueLido
        <4> QED BY <1>0, <4>1 DEF FilaOK, Fila
      <3>2. Concluido(tq.tanque)
        <4>1. tq.tanque \in Selecionados
          BY <2>0, <3>1
        <4>2. tanques'[tq.tanque].status \in TanqueTerminal
          BY <1>2, <3>1 DEF Concluido, TanqueTerminal
        <4> QED BY <1>2, <2>7, <3>1, <4>1, <4>2, TanqueLido DEF Concluido
      <3> QED BY <2>6, <3>1, <3>2
    <2>8. ASSUME UNCHANGED tanques, tq'.pc = tq.pc, tq'.tanque = tq.tanque
          PROVE  processo'.status = "CONCLUIDO" /\ req' = SemRequisicao
      BY <1>2, <2>6, <2>8 DEF Concluido
    <2>9. ASSUME UNCHANGED tanques, Gravar \/ Comandar \/ TPerde
          PROVE  processo'.status = "CONCLUIDO" /\ req' = SemRequisicao
      <3>1. tq'.pc = tq.pc /\ tq'.tanque = tq.tanque
        BY <1>0, <2>9 DEF Gravar, Final, Comandar, TPerde, FilaOK, Fila
      <3> QED BY <2>8, <2>9, <3>1
    <2>10. Gravar => \/ UNCHANGED tanques
                     \/ Final("CONCLUIDO", "CONCLUIDO", "CONCLUIDO", "CONCLUIDA")
                     \/ Final("INTERROMPIDO", "INTERROMPIDO", "BLOQUEADO", "NENHUMA")
      BY DEF Gravar
    <2>11. Comandar \/ TPerde => UNCHANGED tanques
      BY DEF Comandar, TPerde
    <2> QED BY <2>1, <2>2, <2>3, <2>4, <2>7, <2>8, <2>9, <2>10, <2>11, Escritores
  <1> QED BY <1>1, <1>2 DEF Definitivo

\* The four parts together are inductive.
LEMMA EncerramentoGeralNext ==
    ASSUME Typed, Encerrados, EncerramentoGeral, [Next]_vars PROVE EncerramentoGeral'
  BY ParadosNext, LidoNext, DefinitivoNext, PrevistoNext DEF EncerramentoGeral

\* What a step does to the outputs and to the stored telemetry of them.
LEMMA SaidasMudam ==
    ASSUME Typed, [Next]_vars
    PROVE  \/ Fecha(hw, hw') /\ tele'.saidas = tele.saidas
           \/ hw' = hw /\ tele'.saidas = Reporta(hw)
           \/ /\ req.op = "retomada" /\ hw'.principal /\ processo' = processo
              /\ ~mudo => tele'.saidas = Reporta(hw')
           \/ /\ tele' = tele /\ hw'.linha = hw.linha
              /\ hw'.principal = hw.principal /\ hw'.auxiliar = hw.auxiliar
              /\ \/ tq.pc = "reabrir" /\ tq.tanque \in Selecionados
                 \/ mao # SemValvula
                 \/ tele.saidas.principal /\ hw'.abertas = hw.abertas
           \/ /\ tele' = tele /\ hw'.principal = hw.principal /\ hw'.auxiliar = hw.auxiliar
              /\ SemEncerramentoGeral /\ processo' = processo
           \/ /\ tele' = tele /\ tele.saidas.principal /\ hw'.principal = hw.principal
              /\ hw'.abertas = hw.abertas /\ hw'.linha = hw.linha
  <1>0. hw \in Equipamento /\ tele \in Snapshot /\ FilaOK /\ MaoOK /\ Selecionados \subseteq Tanques
    BY DEF Typed, CenarioRec, Selecionados
  <1>1. UNCHANGED hw => Fecha(hw, hw')
    BY <1>0 DEF Fecha, Equipamento
  <1>2. CASE UNCHANGED vars
    BY <1>1, <1>2 DEF vars
  <1>3. CASE \E t \in Selecionados : LerPronto(t) \/ Avaliar(t) \/ Leitura(t) \/ OperarValvula(t)
    BY <1>1, <1>3 DEF LerPronto, Avaliar, Leitura, OperarValvula
  <1>4. CASE ClaimIsolation \/ Decidir \/ TPerde \/ Consolidar \/ GPerde \/ ConsolidarGeral
    BY <1>1, <1>4 DEF ClaimIsolation, Decidir, TPerde, Consolidar, GPerde, ConsolidarGeral
  <1>5. CASE Gravar \/ Emergencia \/ Queda \/ Silencio \/ \E op \in Operacoes : Requisitar(op)
    BY <1>1, <1>5 DEF Gravar, Emergencia, Queda, Silencio, Requisitar
  <1>6. CASE AvaliarGeral \/ IniciarManual
    <2>1. hw' = hw
      BY <1>6 DEF AvaliarGeral, IniciarManual
    <2> QED BY <1>1, <1>6, <2>1, GeralEscreve
  <1>7. CASE Telemetria
    <2>1. hw' = hw /\ tele'.saidas = Reporta(hw)
      BY <1>7 DEF Telemetria
    <2> QED BY <2>1
  <1>8. CASE ClaimStep
    <2>1. ComandoDaEtapa(ger.pc) \in Fecham /\ ComandoDaEtapa(ger.pc) # "reabrir"
      BY DEF ComandoDaEtapa, Fecham
    <2>2. hw' \in {hw, Faz(ComandoDaEtapa(ger.pc), Nenhum)} /\ tele' = tele
      BY <1>0, <1>8, <2>1, ExecutaPasso DEF ClaimStep
    <2> QED BY <1>0, <1>1, <2>1, <2>2, FazFecha
  <1>9. CASE PararBombas \/ PararValvulas
    <2>1. PICK c \in {"desligar_todas", "fechar_todas"} : hw' \in {hw, Faz(c, Nenhum)} /\ tele' = tele
      BY <1>9 DEF PararBombas, PararValvulas, ReqComanda
    <2> QED BY <1>0, <1>1, <2>1, FazFecha DEF Fecham
  <1>10. CASE EncerrarAuxilio
    <2>1. PICK c \in {"desligar_auxiliar", "fechar_auxiliar"} : hw' \in {hw, Faz(c, aux)} /\ tele' = tele
      BY <1>10 DEF EncerrarAuxilio
    <2> QED BY <1>0, <1>1, <2>1, FazFecha DEF Fecham
  <1>11. CASE Comandar
    <2>1. tq.pc \in ComandosTanque /\ tq.tanque \in Selecionados /\ tele' = tele
      BY <1>0, <1>11 DEF Comandar, FilaOK, ComandosTanque
    <2>2. hw' \in {hw, Faz(tq.pc, tq.tanque)}
      <3>1. PICK ack \in Finais \cup {"SEM_ACK"} :
              IF ack = "SEM_ACK" THEN UNCHANGED hw
              ELSE Executa(tq.pc, tq.tanque, tq.tanque, tq.pc, ack)
        BY <1>11 DEF Comandar
      <3>2. CASE ack = "SEM_ACK"
        BY <3>1, <3>2
      <3>3. CASE ack # "SEM_ACK"
        BY <1>0, <2>1, <3>1, <3>3, ExecutaPasso DEF ComandosTanque, Fecham
      <3> QED BY <3>2, <3>3
    <2>3. CASE tq.pc = "reabrir" /\ hw' = Faz("reabrir", tq.tanque)
      <3>1. /\ hw'.linha = hw.linha /\ hw'.principal = hw.principal
            /\ hw'.auxiliar = hw.auxiliar
        BY <1>0, <2>1, <2>3, FazAbre DEF Equipamento
      <3> QED BY <2>1, <2>3, <3>1
    <2>4. CASE tq.pc \in Fecham
      BY <1>0, <1>1, <2>1, <2>2, <2>4, FazFecha
    <2>5. tq.pc = "reabrir" \/ tq.pc \in Fecham
      BY <2>1 DEF ComandosTanque, Fecham
    <2> QED BY <1>1, <2>1, <2>2, <2>3, <2>4, <2>5
  <1>12. CASE MoverValvula
    <2>1. mao # SemValvula /\ hw' \in {hw, Faz(mao.c, mao.tanque)} /\ tele' = tele
      BY <1>12 DEF MoverValvula
    <2>2. mao.c \in {"reabrir", "fechar_principal"} /\ mao.tanque \in Tanques
      BY <1>0, <2>1 DEF MaoOK
    <2>3. CASE mao.c = "reabrir" /\ hw' = Faz(mao.c, mao.tanque)
      <3>1. /\ hw'.linha = hw.linha /\ hw'.principal = hw.principal
            /\ hw'.auxiliar = hw.auxiliar
        BY <1>0, <2>2, <2>3, FazAbre DEF Equipamento
      <3> QED BY <2>1, <3>1
    <2>4. CASE mao.c = "fechar_principal" \/ hw' = hw
      BY <1>0, <1>1, <2>1, <2>4, FazFecha DEF Fecham
    <2> QED BY <2>1, <2>2, <2>3, <2>4
  <1>13. CASE \E t \in Selecionados : AbrirAuxiliar(t)
    <2>1. PICK t \in Selecionados : AbrirAuxiliar(t)
      BY <1>13
    <2>2. tele' = tele /\ processo' = processo /\ SemEncerramentoGeral /\ hw' = [hw EXCEPT !.linha = t]
      BY <2>1 DEF AbrirAuxiliar
    <2>3. hw'.principal = hw.principal /\ hw'.auxiliar = hw.auxiliar
      BY <1>0, <2>2 DEF Equipamento
    <2> QED BY <2>2, <2>3
  <1>14. CASE LigarAuxiliar
    <2>1. tele' = tele /\ tele.saidas.principal /\ hw' = [hw EXCEPT !.auxiliar = TRUE]
      BY <1>14 DEF LigarAuxiliar
    <2>2. hw'.principal = hw.principal /\ hw'.abertas = hw.abertas /\ hw'.linha = hw.linha
      BY <1>0, <2>1 DEF Equipamento
    <2> QED BY <2>1, <2>2
  <1>15. CASE Energizar
    <2>1. CASE UNCHANGED <<hw, tele>>
      BY <1>1, <2>1
    <2>2. CASE ~UNCHANGED <<hw, tele>>
      <3>1. /\ req.op = "retomada" /\ processo' = processo
            /\ hw' = [hw EXCEPT !.principal = TRUE, !.abertas = Selecionados, !.ativo = TRUE]
            /\ tele' = IF mudo THEN tele ELSE [tele EXCEPT !.saidas = Reporta(hw')]
        BY <1>15, <2>2 DEF Energizar
      <3>2. hw'.principal
        BY <1>0, <3>1 DEF Equipamento
      <3>3. ~mudo => tele'.saidas = Reporta(hw')
        BY <1>0, <3>1 DEF Snapshot
      <3> QED BY <3>1, <3>2, <3>3
    <2> QED BY <2>1, <2>2
  <1> QED BY <1>2, <1>3, <1>4, <1>5, <1>6, <1>7, <1>8, <1>9, <1>10, <1>11, <1>12, <1>13, <1>14, <1>15
          DEF Next, Filas, Ambiente

\* The last command of the valves has been given, and it has been executed.
Emitido == processo.etapa = "AGUARDANDO_TELEMETRIA" \/ ger.pc = Reconf \/ respostas[Geral][Reconf] # "nenhuma"
Fechado == \/ processo.etapa = "AGUARDANDO_TELEMETRIA" \/ respostas[Geral][Reconf] \in Feito
           \/ ger.pc = Reconf /\ ger.ack = "EXECUTADO"
Fechadas == hw.abertas = {} /\ hw.linha = Nenhum

\* How its answer comes to be stored.
LEMMA RespostaFinal ==
    ASSUME Typed, [Next]_vars
    PROVE  \/ respostas'[Geral][Reconf] = respostas[Geral][Reconf]
           \/ respostas'[Geral][Reconf] = "nenhuma"
           \/ ger.pc = Reconf /\ (respostas'[Geral][Reconf] \in Feito => ger.ack = "EXECUTADO")
  <1>0. /\ RespostasOK /\ FilaOK /\ Geral \notin Selecionados /\ Reconf \in EtapasComando
        /\ Geral \in DOMAIN respostas /\ Reconf \in DOMAIN respostas[Geral]
    BY ClosureAssumption DEF Typed, CenarioRec, Selecionados, RespostasOK, Reconf, EtapasComando
  <1>1. CASE respostas' = respostas
    BY <1>1
  <1>2. CASE ClaimIsolation \/ TPerde \/ Consolidar
    <2>1. tq.tanque # Geral
      BY <1>0, <1>2 DEF ClaimIsolation, TPerde, Consolidar, FilaOK, ComandosTanque
    <2>2. respostas'[Geral] = respostas[Geral]
      BY <1>2, <2>1, <1>0 DEF ClaimIsolation, NovasRespostas, TPerde, GuardaPerdida, Consolidar, Guarda
    <2> QED BY <2>2
  <1>3. CASE AvaliarGeral \/ IniciarManual
    <2>1. respostas' = respostas \/ respostas' = [respostas EXCEPT ![Geral] = SemRespostas(EtapasComando)]
      BY <1>3 DEF AvaliarGeral, IniciarManual, Escreve, NovasRespostas
    <2>2. SemRespostas(EtapasComando)[Reconf] = "nenhuma"
      BY <1>0 DEF SemRespostas
    <2> QED BY <1>0, <2>1, <2>2
  <1>4. CASE GPerde
    <2>1. respostas' = [respostas EXCEPT ![Geral][ger.pc] =
                          CASE Esp32 /\ @ = "nenhuma" /\ ger.ack = "EXECUTADO" -> "ESP_EXECUTADO"
                            [] Esp32 /\ @ = "nenhuma" /\ ger.ack = "RECUSADO" -> "ESP_RECUSADO"
                            [] OTHER -> @]
      BY <1>4 DEF GPerde, GuardaPerdida
    <2> QED BY <1>0, <2>1 DEF Feito
  <1>5. CASE ConsolidarGeral
    <2>1. respostas' = [respostas EXCEPT ![Geral][ger.pc] = IF ger.ack \in Finais THEN ger.ack ELSE @]
      BY <1>5 DEF ConsolidarGeral, Guarda
    <2> QED BY <1>0, <2>1 DEF Feito, Finais
  <1>6. CASE Queda
    <2>1. respostas'[Geral][Reconf] \in {respostas[Geral][Reconf], AposQueda(Geral, Reconf)}
      BY <1>0, <1>6 DEF Queda
    <2>2. ~(tq.pc = Reconf /\ tq.tanque = Geral)
      BY <1>0 DEF FilaOK, Reconf
    <2>3. \/ AposQueda(Geral, Reconf) = respostas[Geral][Reconf]
          \/ ger.pc = Reconf /\ AposQueda(Geral, Reconf) = ger.ack
      BY <2>2 DEF AposQueda, AckDe, Finais
    <2>4. ger.ack \in Feito => ger.ack = "EXECUTADO"
      BY DEF Typed, FilaGeralOK, Fila, Acks, Finais, Feito
    <2> QED BY <2>1, <2>3, <2>4
  <1> QED BY <1>1, <1>2, <1>3, <1>4, <1>5, <1>6, Escritores

\* How it is given, and executed.
LEMMA ComandoFinal ==
    ASSUME Typed, [Next]_vars, ger'.pc = Reconf
    PROVE  \/ ger'.ack = "nada" /\ mao = SemValvula /\ UNCHANGED mao
           \/ /\ ger.pc = Reconf
              /\ ger'.ack = "EXECUTADO" =>
                   ger.ack = "EXECUTADO" \/ respostas[Geral][Reconf] \in Feito \/ Fechadas'
  <1>0. hw \in Equipamento /\ FilaGeralOK
    BY DEF Typed
  <1>1. CASE ger' = ger
    BY <1>1
  <1>2. CASE AvaliarGeral \/ IniciarManual
    <2>1. CASE /\ ger' = [Livre EXCEPT !.pc = processo.etapa, !.leu = TRUE]
               /\ processo.etapa = Reconf => mao = SemValvula
      <3>1. ger'.pc = processo.etapa /\ ger'.ack = "nada"
        BY <2>1 DEF Livre
      <3>2. UNCHANGED mao
        BY <1>2 DEF AvaliarGeral, IniciarManual
      <3> QED BY <2>1, <3>1, <3>2
    <2> QED BY <1>1, <1>2, <2>1, GeralEscreve
  <1>3. CASE ClaimStep
    <2>1. CASE ger' = Livre
      BY <2>1 DEF Livre, Reconf
    <2>2. CASE ger' # Livre
      <3>1. PICK ack \in Finais :
              /\ Executa(ComandoDaEtapa(ger.pc), Nenhum, Geral, ger.pc, ack)
              /\ ger' = [ger EXCEPT !.ack = ack]
        BY <1>3, <2>2 DEF ClaimStep
      <3>2. ger'.pc = ger.pc /\ ger'.ack = ack
        BY <1>0, <3>1 DEF FilaGeralOK, Fila
      <3>3. ComandoDaEtapa(ger.pc) = "fechar_todas"
        BY <3>2 DEF ComandoDaEtapa, Reconf
      <3>4. \/ ack = "EXECUTADO" => respostas[Geral][ger.pc] \in Feito
            \/ hw' = Faz("fechar_todas", Nenhum)
        BY <1>0, <3>1, <3>3, ExecutaPasso DEF Fecham
      <3>5. hw' = Faz("fechar_todas", Nenhum) => Fechadas'
        BY <1>0, FazFecha DEF Fecham, Fechadas
      <3> QED BY <3>2, <3>4, <3>5
    <2> QED BY <2>1, <2>2
  <1>4. CASE GPerde \/ Emergencia
    BY <1>0, <1>4 DEF GPerde, Emergencia, FilaGeralOK, Fila
  <1>5. CASE ConsolidarGeral \/ Queda
    BY <1>5 DEF ConsolidarGeral, Queda, Livre, Reconf
  <1> QED BY <1>1, <1>2, <1>3, <1>4, <1>5, Escritores

\* How the closure comes to wait for telemetry.
LEMMA EtapaFinal ==
    ASSUME Typed, Lido, [Next]_vars, processo'.etapa = "AGUARDANDO_TELEMETRIA"
    PROVE  processo.etapa = "AGUARDANDO_TELEMETRIA" \/ (ger.pc = Reconf /\ ger.ack = "EXECUTADO")
  <1>0. processo \in Processo /\ FilaGeralOK
    BY DEF Typed
  <1>1. CASE processo' = processo
    BY <1>1
  <1>2. CASE AvaliarGeral \/ IniciarManual
    <2>1. ASSUME NEW d \in DecisoesGerais, processo' = GeralEscrito(processo, d) PROVE FALSE
      BY <1>0, <2>1 DEF GeralEscrito, GeralComFalha, DecisoesGerais, Processo
    <2> QED BY <1>1, <1>2, <2>1, GeralEscreve
  <1>3. CASE ConsolidarGeral
    <2>1. CASE processo' = Seguinte(processo) /\ ger.leu /\ ger.ack = "EXECUTADO"
      <3>1. processo.etapa \notin {"CONFIRMANDO_ISOLAMENTO", "DESLIGANDO_BOMBAS"}
        BY <1>0, <2>1 DEF Seguinte, Processo
      <3>2. ger.pc \in EtapasComando /\ processo.etapa = ger.pc
        BY <1>3, <2>1 DEF ConsolidarGeral, Lido
      <3> QED BY <2>1, <3>1, <3>2 DEF EtapasComando, Reconf
    <2>2. CASE processo' = GeralComRepeticao(processo)
      BY <1>0, <2>2 DEF GeralComRepeticao, GeralComFalha, Processo
    <2> QED BY <1>1, <1>3, <2>1, <2>2 DEF ConsolidarGeral
  <1>4. CASE Gravar
    BY <1>0, <1>4 DEF Gravar, Final, Processo
  <1>5. CASE Emergencia
    BY <1>0, <1>5 DEF Emergencia, Processo
  <1> QED BY <1>1, <1>2, <1>3, <1>4, <1>5, Escritores

\* A general closure in progress over tanks that are all concluded.
Encerra == EncerrandoGeral /\ TodosConcluidos /\ processo.status # "CONCLUIDO"
\* It has had them concluded since before its last command.
LEMMA EncerraAntes ==
    ASSUME Typed, Encerrados, EncerramentoGeral, [Next]_vars, Encerra', Emitido'
    PROVE  Encerra
  <1>0. /\ processo \in Processo /\ RespostasOK /\ Selecionados' = Selecionados /\ Selecionados # {}
        /\ Parados /\ Lido /\ Definitivo
    BY TypedNext DEF Typed, Mesmo, Selecionados, CenarioRec, EncerramentoGeral
  <1>1. ~Emergencia /\ ~Final("INTERROMPIDO", "INTERROMPIDO", "BLOQUEADO", "NENHUMA")
    BY <1>0, FinalEscreve DEF Encerra, TodosConcluidos, Concluido, Interrompido
  <1>2. ~Final("CONCLUIDO", "CONCLUIDO", "CONCLUIDO", "CONCLUIDA")
    BY FinalEscreve DEF Encerra
  <1>3. Gravar => UNCHANGED tanques /\ processo'.geral = processo.geral
    BY <1>0, <1>1, <1>2 DEF Gravar, Processo
  <1>4. EncerrandoGeral
    <2>1. CASE AvaliarGeral \/ IniciarManual
      <3>1. ASSUME ger = Livre, ger' = ger, NEW d \in DecisoesGerais,
                   processo' = GeralEscrito(processo, d), d = "validar" => EncerrandoGeral,
                   d \in {"iniciar", "recomecar"} =>
                     respostas' = [respostas EXCEPT ![Geral] = SemRespostas(EtapasComando)]
            PROVE  EncerrandoGeral
        <4>1. CASE d \in {"falha", "aguardar", "manual", "concluir"}
          BY <1>0, <3>1, <4>1 DEF GeralEscrito, GeralComFalha, Processo, Encerra, EncerrandoGeral
        <4>2. CASE d = "validar"
          BY <3>1, <4>2
        <4>3. CASE d \in {"iniciar", "recomecar"}
          <5>1. processo'.etapa # "AGUARDANDO_TELEMETRIA"
            BY <1>0, <3>1, <4>3 DEF GeralEscrito, Processo
          <5>2. ger'.pc # Reconf
            BY <3>1 DEF Livre, Reconf
          <5>3. respostas'[Geral][Reconf] = "nenhuma"
            BY <1>0, <3>1, <4>3 DEF RespostasOK, SemRespostas, EtapasComando, Reconf
          <5> QED BY <5>1, <5>2, <5>3 DEF Emitido
        <4> QED BY <3>1, <4>1, <4>2, <4>3 DEF DecisoesGerais
      <3> QED BY <2>1, <3>1, GeralEscreve
    <2>2. CASE ConsolidarGeral
      <3>1. processo' = processo \/ ger.leu
        BY <2>2 DEF ConsolidarGeral
      <3> QED BY <1>0, <3>1 DEF Encerra, EncerrandoGeral, Lido
    <2>3. CASE processo'.geral = processo.geral
      BY <2>3 DEF Encerra, EncerrandoGeral
    <2> QED BY <1>1, <1>3, <2>1, <2>2, <2>3, Escritores
  <1>5. TodosConcluidos
    <2>1. \A t \in Selecionados : Parado(t)
      BY <1>0, <1>4 DEF Parados, EncerrandoGeral
    <2>2. \A t \in Selecionados : Concluido(t)'
      BY <1>0 DEF Encerra, TodosConcluidos
    <2>3. CASE tanques' = tanques
      BY <2>2, <2>3 DEF TodosConcluidos, Concluido
    <2>4. CASE ClaimIsolation \/ Decidir \/ Consolidar \/ \E t \in Selecionados : Leitura(t)
      BY <2>1, <2>2, <2>4, ParadoFica DEF TodosConcluidos
    <2> QED BY <1>1, <1>3, <2>3, <2>4, Escritores
  <1>6. processo.status # "CONCLUIDO"
    <2> SUFFICES ASSUME processo.status = "CONCLUIDO" PROVE FALSE
      OBVIOUS
    <2>1. req = SemRequisicao
      BY <1>0, <1>4 DEF Definitivo, EncerrandoGeral
    <2>2. ~Gravar /\ ~AvaliarGeral /\ ~IniciarManual
      BY <2>1 DEF Gravar, SemRequisicao, AvaliarGeral, IniciarManual, EmExecucao
    <2>3. ConsolidarGeral => processo'.status = processo.status
      BY <1>0 DEF ConsolidarGeral, Seguinte, GeralComRepeticao, GeralComFalha, Processo
    <2> QED BY <1>1, <2>2, <2>3, Escritores DEF Encerra
  <1> QED BY <1>4, <1>5, <1>6 DEF Encerra

\* What the theorem needs: pumps that the telemetry shows off are off, no person holds a
\* valve any more, and valves that the telemetry shows closed are closed.
Atento == ~({"retomada", "silencio"} \subseteq cenario.operacoes)
Bombas == ~tele.saidas.principal /\ ~tele.saidas.auxiliar => ~hw.principal /\ ~hw.auxiliar
Ultimo ==
    /\ Encerra /\ Emitido => mao = SemValvula
    /\ Encerra /\ Fechado /\ Seguro(tele.saidas) => Fechadas
\* The main pump is on when the startup completes, and no general closure is in progress.
LEMMA UltimoInit == ASSUME Init PROVE Bombas /\ Ultimo
  <1>1. processo.geral = "INATIVO" /\ tele.saidas.principal
    BY DEF Init, Reporta
  <1> QED BY <1>1 DEF Bombas, Ultimo, Encerra, EncerrandoGeral

\* Every step keeps them: after the last closing command nothing opens a valve, as nobody may
\* claim a manual movement, no tank is still to be reopened, and a resume turns the pump on.
LEMMA UltimoNext ==
    ASSUME Typed, Encerrados, EncerramentoGeral, Atento, Bombas, Ultimo, [Next]_vars
    PROVE  Bombas' /\ Ultimo'
  <1>0. Typed' /\ Parados /\ Lido /\ Definitivo /\ Previsto
    BY TypedNext DEF EncerramentoGeral
  <1>1. req.op = "retomada" => ~mudo
    BY <1>0 DEF Previsto, Atento
  <1>2. Bombas'
    BY <1>1, SaidasMudam DEF Bombas, Fecha, Reporta
  <1>3. ASSUME Encerra', Emitido' PROVE mao' = SemValvula
    <2>1. Encerra
      BY <1>3, EncerraAntes
    <2>2. mao = SemValvula
      <3>1. Emitido \/ mao = SemValvula
        BY <1>0, <1>3, RespostaFinal, ComandoFinal, EtapaFinal DEF Emitido
      <3> QED BY <2>1, <3>1 DEF Ultimo
    <2>3. \A t \in Selecionados : ~OperarValvula(t)
      BY <2>1 DEF OperarValvula, Encerra, EncerrandoGeral, SemEncerramentoGeral
    <2> QED BY <2>2, <2>3, Escritores DEF MoverValvula
  <1>4. ASSUME Encerra', Fechado', Seguro(tele'.saidas) PROVE Fechadas'
    <2>1. Emitido'
      BY <1>4 DEF Fechado, Emitido, Feito
    <2>2. Encerra
      BY <1>4, <2>1, EncerraAntes
    <2>3. Fechado \/ Fechadas'
      BY <1>0, <1>4, RespostaFinal, ComandoFinal, EtapaFinal DEF Fechado, Feito
    <2>4. ASSUME Fechado PROVE Fechadas'
      <3>1. mao = SemValvula
        BY <2>2, <2>4 DEF Ultimo, Fechado, Emitido, Feito
      <3>2. ~(tq.pc = "reabrir" /\ tq.tanque \in Selecionados)
        BY <1>0, <2>2 DEF Definitivo, Encerra, TodosConcluidos
      <3>3. ~SemEncerramentoGeral
        BY <2>2 DEF Encerra, EncerrandoGeral, SemEncerramentoGeral
      <3>4. CASE Fecha(hw, hw') /\ tele'.saidas = tele.saidas
        BY <1>4, <2>2, <2>4, <3>4 DEF Ultimo, Fechadas, Fecha
      <3>5. CASE hw' = hw /\ tele'.saidas = Reporta(hw)
        BY <1>4, <3>5 DEF Fechadas, Seguro, Reporta
      <3>6. CASE hw'.principal /\ tele'.saidas = Reporta(hw')
        BY <1>4, <3>6 DEF Seguro, Reporta
      <3>7. CASE tele' = tele /\ tele.saidas.principal
        BY <1>4, <3>7 DEF Seguro
      <3> QED BY <1>1, <3>1, <3>2, <3>3, <3>4, <3>5, <3>6, <3>7, SaidasMudam
    <2> QED BY <2>3, <2>4
  <1> QED BY <1>2, <1>3, <1>4 DEF Ultimo

\* ConclusionIsSafe: when the general closure concludes, pumps are off and valves closed at the
\* controller, and every tank is approved, unless a process may be resumed under a silent
\* controller.
THEOREM ConclusionTheorem == Spec => ConclusionIsSafe
  <1> DEFINE I == Typed /\ Encerrados /\ EncerramentoGeral /\ (Atento => Bombas /\ Ultimo)
             A == /\ ~({"retomada", "silencio"} \subseteq cenario.operacoes)
                  /\ processo.geral # "CONCLUIDO" /\ processo'.geral = "CONCLUIDO"
                  => Seguro(hw) /\ \A t \in Selecionados : tanques[t].enc = "CONCLUIDO"
  <1>1. Init => I
    BY TypedInit, EncerradosInit, EncerramentoGeralInit, UltimoInit
  <1>2. I /\ [Next]_vars => I'
    <2> SUFFICES ASSUME I, [Next]_vars PROVE I'
      OBVIOUS
    <2>1. Typed' /\ Encerrados' /\ EncerramentoGeral' /\ Mesmo
      BY TypedNext, EncerradosNext, EncerramentoGeralNext
    <2>2. Atento' => Atento
      BY <2>1 DEF Atento, Mesmo
    <2> QED BY <2>1, <2>2, UltimoNext
  <1>3. ASSUME I, Next PROVE A
    <2> SUFFICES ASSUME Atento, processo.geral # "CONCLUIDO", processo'.geral = "CONCLUIDO"
                 PROVE  Seguro(hw) /\ \A t \in Selecionados : tanques[t].enc = "CONCLUIDO"
      BY DEF Atento
    <2>0. processo \in Processo /\ Bombas /\ Ultimo /\ Lido
      BY <1>3 DEF Typed, EncerramentoGeral
    <2>1. AvaliarGeral \/ IniciarManual
      <3>1. ~Gravar /\ ~Emergencia /\ ~ConsolidarGeral
        BY <2>0 DEF Gravar, Final, Emergencia, ConsolidarGeral, Seguinte, GeralComRepeticao,
                    GeralComFalha, Processo
      <3> QED BY <1>3, <3>1, Escritores
    <2>2. PICK d \in DecisoesGerais :
            /\ processo' = GeralEscrito(processo, d)
            /\ d = "aguardar" \/ d = "falha" \/ TodosConcluidos
            /\ d = "concluir" => /\ EncerrandoGeral /\ Seguro(tele.saidas)
                                 /\ processo.etapa \notin {"VALIDANDO_ISOLAMENTO"} \cup EtapasComando
      BY <1>3, <2>1, GeralEscreve
    <2>3. d = "concluir"
      BY <2>0, <2>2 DEF GeralEscrito, GeralComFalha, DecisoesGerais, Processo
    <2>4. EmExecucao
      BY <1>3, <2>1, GeralEscreve
    <2>5. processo.etapa = "AGUARDANDO_TELEMETRIA"
      BY <2>0, <2>2, <2>3 DEF Lido
    <2>6. Encerra /\ Fechado
      BY <2>2, <2>3, <2>4, <2>5 DEF Encerra, Fechado, EmExecucao
    <2>7. hw.abertas = {} /\ hw.linha = Nenhum
      BY <2>0, <2>2, <2>3, <2>6 DEF Ultimo, Fechadas
    <2>8. ~hw.principal /\ ~hw.auxiliar
      BY <2>0, <2>2, <2>3 DEF Bombas, Seguro
    <2> QED BY <2>2, <2>3, <2>7, <2>8 DEF Seguro, TodosConcluidos, Concluido
  <1>4. I /\ [Next]_vars => [A]_vars
    BY <1>3
  <1> QED BY <1>1, <1>2, <1>4, PTL DEF Spec, ConclusionIsSafe
=============================================================================
