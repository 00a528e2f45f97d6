------------------------ MODULE Esp32FirmwareProofs ------------------------
(***************************************************************************)
(* Proofs that the firmware's interlocks hold for any set of tanks, any    *)
(* declared configuration and any sequence of commands and inputs.         *)
(***************************************************************************)
EXTENDS Esp32Firmware, TLAPS

\* The failure limit is positive, so its range starts at zero.
LEMMA LimitIsNat == ExpanderFailureLimit \in Nat \ {0} /\ Configs \subseteq Config
BY FirmwareAssumption DEF FirmwareAssumption

----------------------------------------------------------------------------
(* Type correctness *)

\* Every variable of the firmware keeps its type.
THEOREM Typing == Spec => []TypeOK
<1> USE DEF TypeOK, Kinds, Valves, Config, SensorStates
<1>1. Init => TypeOK
  <2> SUFFICES ASSUME Init PROVE TypeOK
    OBVIOUS
  <2>1. acoplados \subseteq Tanks
    BY DEF Init
  <2>2. falhasExpansor \in 0..ExpanderFailureLimit
    BY LimitIsNat DEF Init
  <2>3. config \in Config /\ sensores \in [Tanks -> SensorStates]
    BY DEF Init
  <2>4. QED
    BY <2>1, <2>2, <2>3 DEF Init
<1>2. TypeOK /\ [Next]_vars => TypeOK'
  <2> SUFFICES ASSUME TypeOK, [Next]_vars PROVE TypeOK'
    OBVIOUS
  <2> USE DEF outputs, context, setup, link, inputs
  <2>1. CASE MaintainMqtt
    BY <2>1 DEF MaintainMqtt, HandledAfterConnect
  <2>2. CASE Command
    <3>1. CASE NoCommand
      BY <3>1 DEF NoCommand
    <3>2. ASSUME NEW c \in Configs, NEW complete \in BOOLEAN, SyncConfig(c, complete)
          PROVE TypeOK'
      BY <3>2, LimitIsNat DEF SyncConfig, Message
    <3>3. ASSUME NEW S \in SUBSET Tanks, IniciarProcesso(S) PROVE TypeOK'
      BY <3>3 DEF IniciarProcesso, Message
    <3>4. CASE ParadaEmergencia \/ PararProcesso \/ ReiniciarComunicacao
      BY <3>4 DEF ParadaEmergencia, PararProcesso, ReiniciarComunicacao, Message,
                  EnterSafeFault, ForceAllActuatorsSafe, ClearProcessContext
    <3>5. CASE DesligarTodasBombas \/ FecharTodasValvulas
      BY <3>5 DEF DesligarTodasBombas, FecharTodasValvulas, Message
    <3>6. CASE AbrirTodasValvulas
      BY <3>6 DEF AbrirTodasValvulas, Operational, Message, ValvesOfSelected
    <3>7. ASSUME NEW k \in Kinds, LigarBomba(k) \/ DesligarBomba(k) PROVE TypeOK'
      BY <3>7 DEF LigarBomba, DesligarBomba, PumpsLeftOn, Operational, Message
    <3>8. ASSUME NEW v \in Valves, AbrirValvula(v) \/ FecharValvula(v) PROVE TypeOK'
      BY <3>8 DEF AbrirValvula, FecharValvula, Operational, Message
    <3>9. QED
      BY <2>2, <3>1, <3>2, <3>3, <3>4, <3>5, <3>6, <3>7, <3>8 DEF Command
  <2>3. CASE UpdateInputs
    <3>1. on' \subseteq Kinds /\ open' \subseteq Valves /\ processActive' \in BOOLEAN
          /\ selected' \subseteq Tanks
      BY <2>3 DEF UpdateInputs, ExpanderFails, ExpanderReads, EnterSafeFault,
                  ForceAllActuatorsSafe, ClearProcessContext
    <3>2. expansor' \in BOOLEAN /\ falhasExpansor' \in 0..ExpanderFailureLimit
          /\ acoplados' \subseteq Tanks
      <4>1. CASE ExpanderFails
        <5>1. FailuresCounted \in 0..ExpanderFailureLimit
          BY LimitIsNat DEF FailuresCounted
        <5>2. expansor' \in BOOLEAN /\ acoplados' \subseteq Tanks
          BY <4>1 DEF ExpanderFails
        <5>3. QED
          BY <4>1, <5>1, <5>2 DEF ExpanderFails
      <4>2. ASSUME NEW a \in SUBSET Tanks, ExpanderReads(a)
            PROVE expansor' \in BOOLEAN /\ falhasExpansor' \in 0..ExpanderFailureLimit
                  /\ acoplados' \subseteq Tanks
        BY <4>2, LimitIsNat DEF ExpanderReads
      <4>3. QED
        BY <2>3, <4>1, <4>2 DEF UpdateInputs
    <3>3. UNCHANGED <<emergencyLatched, setup, link>> /\ fase' = "seguranca"
          /\ sensores' \in [Tanks -> SensorStates] /\ estop' \in BOOLEAN
      BY <2>3 DEF UpdateInputs
    <3>4. QED
      BY <3>1, <3>2, <3>3
  <2>4. CASE EnforceLocalSafety
    BY <2>4 DEF EnforceLocalSafety, EnterSafeFault, ForceAllActuatorsSafe,
                ClearProcessContext, LinkExpired
  <2>5. CASE Reboot
    <3>1. acoplados' \subseteq Tanks
      BY <2>5 DEF Reboot
    <3>2. falhasExpansor' \in 0..ExpanderFailureLimit
      BY <2>5, LimitIsNat DEF Reboot
    <3>3. config' \in Config /\ sensores' \in [Tanks -> SensorStates]
      BY <2>5 DEF Reboot
    <3>4. QED
      BY <2>5, <3>1, <3>2, <3>3 DEF Reboot
  <2>6. CASE UNCHANGED vars
    BY <2>6 DEF vars
  <2>7. QED
    BY <2>1, <2>2, <2>3, <2>4, <2>5, <2>6 DEF Next
<1>3. QED
  BY <1>1, <1>2, PTL DEF Spec

----------------------------------------------------------------------------
(* The interlocks, as one inductive invariant *)

\* A latched emergency leaves no process, and a live link no handled mark.
NoProcessUnderLatch == emergencyLatched => ~processActive
LinkMark == mqtt = "conectado" => ~mqttDisconnectSafetyHandled

Interlocks ==
    /\ NoProcessUnderLatch
    /\ OnlySelectedEnergised
    /\ AuxiliaryInterlock
    /\ MainPumpHasLine
    /\ LinkMark
    /\ TimeoutNeverMasked

\* Turning everything off establishes the parts about the outputs.
LEMMA SafeFaultInterlocks ==
    ASSUME EnterSafeFault
    PROVE  OnlySelectedEnergised' /\ AuxiliaryInterlock' /\ MainPumpHasLine'
           /\ NoProcessUnderLatch' /\ TimeoutNeverMasked'
BY DEF EnterSafeFault, ForceAllActuatorsSafe, ClearProcessContext, OnlySelectedEnergised,
       AuxiliaryInterlock, MainPumpHasLine, NoProcessUnderLatch, TimeoutNeverMasked, Kinds

\* So does leaving the outputs, the context and the latch as they are.
LEMMA FrameInterlocks ==
    ASSUME Interlocks, UNCHANGED <<outputs, context>>
    PROVE  OnlySelectedEnergised' /\ AuxiliaryInterlock' /\ MainPumpHasLine'
BY DEF Interlocks, outputs, context, OnlySelectedEnergised, AuxiliaryInterlock,
       MainPumpHasLine, OpenOf

\* They hold after setup().
LEMMA InitInterlocks == Init => Interlocks
BY DEF Init, Interlocks, NoProcessUnderLatch, LinkMark, OnlySelectedEnergised,
       AuxiliaryInterlock, MainPumpHasLine, TimeoutNeverMasked, Kinds

\* A command keeps the interlocks.
LEMMA CommandInterlocks == TypeOK /\ Interlocks /\ Command => Interlocks'
<1> SUFFICES ASSUME TypeOK, Interlocks, Command PROVE Interlocks'
  OBVIOUS
<1> USE DEF Interlocks, outputs, context, setup, link, inputs
<1>1. CASE NoCommand
  BY <1>1, FrameInterlocks DEF NoCommand, NoProcessUnderLatch, LinkMark, TimeoutNeverMasked
<1>2. ASSUME NEW c \in Configs, NEW complete \in BOOLEAN, SyncConfig(c, complete)
      PROVE Interlocks'
  BY <1>2, FrameInterlocks DEF SyncConfig, Message, NoProcessUnderLatch, LinkMark,
     TimeoutNeverMasked
<1>3. ASSUME NEW S \in SUBSET Tanks, IniciarProcesso(S) PROVE Interlocks'
  <2>1. on' = {} /\ open' = {}
    BY <1>3 DEF IniciarProcesso, AllActuatorsSafe
  <2>2. OnlySelectedEnergised' /\ AuxiliaryInterlock' /\ MainPumpHasLine'
    BY <1>3, <2>1 DEF IniciarProcesso, OnlySelectedEnergised, AuxiliaryInterlock,
                      MainPumpHasLine
  <2>3. NoProcessUnderLatch' /\ LinkMark' /\ TimeoutNeverMasked'
    BY <1>3 DEF IniciarProcesso, Message, NoProcessUnderLatch, LinkMark, TimeoutNeverMasked
  <2>4. QED
    BY <2>2, <2>3
<1>4. CASE ParadaEmergencia \/ PararProcesso \/ ReiniciarComunicacao
  <2>1. EnterSafeFault
    BY <1>4 DEF ParadaEmergencia, PararProcesso, ReiniciarComunicacao
  <2>2. LinkMark'
    BY <1>4 DEF ParadaEmergencia, PararProcesso, ReiniciarComunicacao, Message, LinkMark
  <2>3. QED
    BY <2>1, <2>2, SafeFaultInterlocks
<1>5. CASE DesligarTodasBombas \/ FecharTodasValvulas
  BY <1>5 DEF DesligarTodasBombas, FecharTodasValvulas, Message, OnlySelectedEnergised,
     AuxiliaryInterlock, MainPumpHasLine, OpenOf, NoProcessUnderLatch, LinkMark,
     TimeoutNeverMasked
<1>6. CASE AbrirTodasValvulas
  BY <1>6 DEF AbrirTodasValvulas, ValvesOfSelected, Operational, Message,
     OnlySelectedEnergised, AuxiliaryInterlock, MainPumpHasLine, OpenOf,
     NoProcessUnderLatch, LinkMark, TimeoutNeverMasked
<1>7. ASSUME NEW k \in Kinds, LigarBomba(k) PROVE Interlocks'
  <2>1. OnlySelectedEnergised' /\ NoProcessUnderLatch' /\ LinkMark' /\ TimeoutNeverMasked'
    BY <1>7 DEF LigarBomba, Operational, Message, OnlySelectedEnergised,
       NoProcessUnderLatch, LinkMark, TimeoutNeverMasked
  <2>2. CASE k = "PRINCIPAL"
    <3>1. OpenOf("PRINCIPAL") # {}
      <4>1. SelectedPrincipalValvesOpen
        BY <1>7, <2>2 DEF LigarBomba
      <4>2. PICK t \in selected : <<"PRINCIPAL", t>> \in open
        BY <4>1 DEF SelectedPrincipalValvesOpen
      <4>3. <<"PRINCIPAL", t>> \in OpenOf("PRINCIPAL")
        BY <4>2 DEF OpenOf
      <4>4. QED
        BY <4>3
    <3>2. on' = on \cup {"PRINCIPAL"} /\ open' = open
      BY <1>7, <2>2 DEF LigarBomba, Operational
    <3>3. OpenOf("PRINCIPAL")' = OpenOf("PRINCIPAL") /\ OpenOf("AUXILIAR")' = OpenOf("AUXILIAR")
      BY <3>2 DEF OpenOf
    <3>4. AuxiliaryInterlock' /\ MainPumpHasLine'
      BY <3>1, <3>2, <3>3 DEF AuxiliaryInterlock, MainPumpHasLine
    <3>5. QED
      BY <2>1, <3>4
  <2>3. CASE k = "AUXILIAR"
    BY <1>7, <2>1, <2>3 DEF LigarBomba, AuxiliaryInterlock, MainPumpHasLine, OpenOf
  <2>4. QED
    BY <2>2, <2>3 DEF Kinds
<1>8. ASSUME NEW k \in Kinds, DesligarBomba(k) PROVE Interlocks'
  BY <1>8 DEF DesligarBomba, PumpsLeftOn, Operational, Message, Kinds, OnlySelectedEnergised,
     AuxiliaryInterlock, MainPumpHasLine, OpenOf, NoProcessUnderLatch, LinkMark,
     TimeoutNeverMasked
<1>9. ASSUME NEW v \in Valves, AbrirValvula(v) PROVE Interlocks'
  <2>1. v \in Kinds \X selected
    BY <1>9 DEF AbrirValvula, Valves
  <2>2. QED
    BY <1>9, <2>1 DEF AbrirValvula, Operational, Message, OnlySelectedEnergised,
       AuxiliaryInterlock, MainPumpHasLine, OpenOf, NoProcessUnderLatch, LinkMark,
       TimeoutNeverMasked
<1>10. ASSUME NEW v \in Valves, FecharValvula(v) PROVE Interlocks'
  <2>1. ASSUME NEW k \in Kinds, k \in on, OpenOf(k) # {} PROVE OpenOf(k)' # {}
    <3>1. PICK w \in OpenOf(k) : w # v
      BY <1>10, <2>1 DEF FecharValvula, LastUnderPump, OpenOf
    <3>2. QED
      BY <1>10, <3>1 DEF FecharValvula, OpenOf
  <2>2. AuxiliaryInterlock' /\ MainPumpHasLine'
    BY <1>10, <2>1 DEF FecharValvula, AuxiliaryInterlock, MainPumpHasLine, Kinds
  <2>3. OnlySelectedEnergised' /\ NoProcessUnderLatch' /\ LinkMark' /\ TimeoutNeverMasked'
    BY <1>10 DEF FecharValvula, Operational, Message, OnlySelectedEnergised,
       NoProcessUnderLatch, LinkMark, TimeoutNeverMasked
  <2>4. QED
    BY <2>2, <2>3
<1>11. QED
  BY <1>1, <1>2, <1>3, <1>4, <1>5, <1>6, <1>7, <1>8, <1>9, <1>10 DEF Command

\* Reading the inputs keeps them: it changes nothing or stops everything.
LEMMA InputsInterlocks == Interlocks /\ UpdateInputs => Interlocks'
<1> SUFFICES ASSUME Interlocks, UpdateInputs PROVE Interlocks'
  OBVIOUS
<1>1. LinkMark'
  BY DEF UpdateInputs, Interlocks, LinkMark, link
<1>2. EnterSafeFault \/ UNCHANGED <<outputs, context>>
  BY DEF UpdateInputs, ExpanderFails, ExpanderReads
<1>3. CASE EnterSafeFault
  BY <1>1, <1>3, SafeFaultInterlocks DEF Interlocks
<1>4. CASE UNCHANGED <<outputs, context>>
  BY <1>1, <1>4, FrameInterlocks DEF UpdateInputs, Interlocks, NoProcessUnderLatch,
     TimeoutNeverMasked, link, context
<1>5. QED
  BY <1>2, <1>3, <1>4

\* The periodic check keeps them: it changes nothing or stops everything.
LEMMA SafetyInterlocks == Interlocks /\ EnforceLocalSafety => Interlocks'
<1> SUFFICES ASSUME Interlocks, EnforceLocalSafety PROVE Interlocks'
  OBVIOUS
<1>1. LinkMark'
  BY DEF EnforceLocalSafety, Interlocks, LinkMark, LinkExpired
<1>2. CASE EnterSafeFault
  BY <1>1, <1>2, SafeFaultInterlocks DEF Interlocks
<1>3. CASE UNCHANGED <<outputs, context, emergencyLatched, mqttDisconnectSafetyHandled>>
  BY <1>1, <1>3, FrameInterlocks DEF Interlocks, NoProcessUnderLatch, TimeoutNeverMasked,
     context
<1>4. QED
  BY <1>2, <1>3 DEF EnforceLocalSafety

\* The interlocks hold in every reachable state.
THEOREM InterlocksHold == Spec => []Interlocks
<1>1. Init => Interlocks
  BY InitInterlocks
<1>2. TypeOK /\ Interlocks /\ [Next]_vars => Interlocks'
  <2> SUFFICES ASSUME TypeOK, Interlocks, [Next]_vars PROVE Interlocks'
    OBVIOUS
  <2>1. CASE MaintainMqtt
    BY <2>1, FrameInterlocks DEF MaintainMqtt, HandledAfterConnect, Interlocks,
       NoProcessUnderLatch, LinkMark, TimeoutNeverMasked, context
  <2>2. CASE Command
    BY <2>2, CommandInterlocks
  <2>3. CASE UpdateInputs
    BY <2>3, InputsInterlocks
  <2>4. CASE EnforceLocalSafety
    BY <2>4, SafetyInterlocks
  <2>5. CASE Reboot
    BY <2>5 DEF Reboot, Interlocks, NoProcessUnderLatch, LinkMark, OnlySelectedEnergised,
       AuxiliaryInterlock, MainPumpHasLine, TimeoutNeverMasked, Kinds
  <2>6. CASE UNCHANGED vars
    BY <2>6, FrameInterlocks DEF vars, link, context, Interlocks, NoProcessUnderLatch,
       LinkMark, TimeoutNeverMasked
  <2>7. QED
    BY <2>1, <2>2, <2>3, <2>4, <2>5, <2>6 DEF Next
<1>3. QED
  BY <1>1, <1>2, Typing, PTL DEF Spec

----------------------------------------------------------------------------
(* The properties the runs check *)

\* No output is energised under a latched emergency (PARADA_EMERGENCIA or the
\* stop button), whatever commands and inputs follow.
THEOREM LatchTheorem == Spec => []LatchedMeansOff
<1>1. Interlocks => LatchedMeansOff
  BY DEF Interlocks, NoProcessUnderLatch, OnlySelectedEnergised, LatchedMeansOff,
     AllActuatorsSafe
<1>2. QED
  BY <1>1, InterlocksHold, PTL

\* Only valves of selected tanks open, and no pump runs without a process.
THEOREM SelectionTheorem == Spec => []OnlySelectedEnergised
BY InterlocksHold, PTL DEF Interlocks

\* The auxiliary pump runs only with the main pump and an auxiliary valve open.
THEOREM AuxiliaryTheorem == Spec => []AuxiliaryInterlock
BY InterlocksHold, PTL DEF Interlocks

\* The main pump runs only with a principal valve open.
THEOREM MainPumpTheorem == Spec => []MainPumpHasLine
BY InterlocksHold, PTL DEF Interlocks

\* The handled mark of the MQTT timeout never hides a timeout from a process.
THEOREM TimeoutTheorem == Spec => []TimeoutNeverMasked
BY InterlocksHold, PTL DEF Interlocks

\* A process that survives enforceLocalSafety is safe in every respect that
\* the check covers.
THEOREM SafeAfterCheckTheorem == Spec => []SafeAfterCheck
<1>1. Init => SafeAfterCheck
  BY DEF Init, SafeAfterCheck
<1>2. TypeOK /\ Interlocks /\ SafeAfterCheck /\ [Next]_vars => SafeAfterCheck'
  <2> SUFFICES ASSUME TypeOK, Interlocks, SafeAfterCheck, [Next]_vars,
                      fase' = "rede", processActive'
               PROVE  SafeAfterCheck'
    BY DEF SafeAfterCheck
  <2>1. CASE EnforceLocalSafety
    <3>1. processActive /\ ~Unsafe /\ ~estop /\ ~mqttDisconnectSafetyHandled
      BY <2>1 DEF EnforceLocalSafety, EnterSafeFault, ClearProcessContext, Interlocks,
         NoProcessUnderLatch, TimeoutNeverMasked, context, TypeOK
    <3>2. UNCHANGED <<outputs, context, mqtt, setup, inputs>>
      BY <2>1, <3>1 DEF EnforceLocalSafety
    <3>3. /\ mqtt # "vencido" /\ SelectedCouplingsAreSafe /\ ~SensorUnsafe
          /\ "PRINCIPAL" \in on => SelectedPrincipalValvesOpen
      BY <3>1 DEF Unsafe, LinkExpired, MainWithoutLine
    <3>4. QED
      BY <3>1, <3>2, <3>3 DEF SafeAfterCheck, SelectedCouplingsAreSafe, CouplingReady,
         SensorUnsafe, SelectedPrincipalValvesOpen, outputs, context, setup, inputs
  <2>2. CASE Reboot
    BY <2>2 DEF Reboot
  <2>3. CASE UNCHANGED vars
    BY <2>3 DEF vars, outputs, context, setup, inputs, link, SafeAfterCheck,
       SelectedCouplingsAreSafe, CouplingReady, SensorUnsafe, SelectedPrincipalValvesOpen
  <2>4. CASE MaintainMqtt \/ UpdateInputs
    BY <2>4 DEF MaintainMqtt, UpdateInputs
  <2>5. CASE Command
    BY <2>5 DEF Command, NoCommand, Message, SyncConfig, IniciarProcesso, ParadaEmergencia,
       PararProcesso, ReiniciarComunicacao, DesligarTodasBombas, FecharTodasValvulas,
       AbrirTodasValvulas, LigarBomba, DesligarBomba, AbrirValvula, FecharValvula, Operational
  <2>6. QED
    BY <2>1, <2>2, <2>3, <2>4, <2>5 DEF Next
<1>3. QED
  BY <1>1, <1>2, Typing, InterlocksHold, PTL DEF Spec
=============================================================================
