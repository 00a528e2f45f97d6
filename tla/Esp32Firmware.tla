--------------------------- MODULE Esp32Firmware ---------------------------
(***************************************************************************)
(* The control loop of the ESP32: its outputs (pumps and valves), the      *)
(* process context, the emergency latch and the local interlocks.          *)
(*                                                                         *)
(* loop() is one thread: maintainMqtt, at most one MQTT message, the input *)
(* readings, enforceLocalSafety, and round again.  `fase` says which of    *)
(* them comes next.  The network, the couplings, the vacuum sensors and    *)
(* the stop button change in any way between two readings.  A command that *)
(* is refused, or answered from the ACK cache, changes none of this state: *)
(* it is the same step as no command.                                      *)
(***************************************************************************)
EXTENDS Naturals, FiniteSets

CONSTANTS Tanks,                  \* the tanks wired to the ESP32
          Configs,                \* what a SYNC_CONFIG may declare available
          SensorsConfirmed,       \* VACUUM_SENSOR_CONFIGURATION_CONFIRMED
          ExpanderFailureLimit    \* COUPLING_EXPANDER_FAILURE_LIMIT; failures
                                  \* beyond it are not counted

Kinds == {"PRINCIPAL", "AUXILIAR"}       \* of pumps, and of the valves on their lines
Valves == Kinds \X Tanks
Config == [bombas : SUBSET Kinds, valvulas : SUBSET Valves, acoplamentos : SUBSET Tanks]

ASSUME FirmwareAssumption ==
    /\ IsFiniteSet(Tanks)
    /\ Configs \subseteq Config
    /\ SensorsConfirmed \in BOOLEAN
    /\ ExpanderFailureLimit \in Nat \ {0}

VARIABLES
    fase,                          \* the next part of loop()
    on,                            \* pumps energised
    open,                          \* valves energised
    processActive, selected,       \* process context
    emergencyLatched,
    configSynchronized, config,    \* last SYNC_CONFIG
    mqtt,                          \* link: "vencido" is down beyond mqttSafetyTimeoutMs
    mqttDisconnectSafetyHandled, reconnectRequested,
    expansor, falhasExpansor,      \* couplingInputHardwareReady, couplingExpanderFailures
    acoplados,                     \* tanks whose coupling input reads coupled
    sensores,                      \* state of each vacuum sensor
    estop                          \* physicalEstopDebouncedActive

outputs == <<on, open>>
context == <<processActive, selected>>
setup == <<configSynchronized, config>>
link == <<mqtt, mqttDisconnectSafetyHandled, reconnectRequested>>
inputs == <<expansor, falhasExpansor, acoplados, sensores, estop>>
vars == <<fase, outputs, context, emergencyLatched, setup, link, inputs>>

SensorStates == {"normal", "limite", "invalido"}

\* setup(): every output off, nothing remembered, the inputs read once.
Init ==
    /\ fase = "rede"
    /\ on = {} /\ open = {}
    /\ processActive = FALSE /\ selected = {}
    /\ emergencyLatched = FALSE
    /\ configSynchronized = FALSE
    /\ config = [bombas |-> {}, valvulas |-> {}, acoplamentos |-> {}]
    /\ mqtt = "desconectado"
    /\ mqttDisconnectSafetyHandled = FALSE /\ reconnectRequested = FALSE
    /\ expansor \in BOOLEAN /\ falhasExpansor = 0
    /\ acoplados \in IF expansor THEN SUBSET Tanks ELSE {{}}
    /\ sensores = [t \in Tanks |-> "invalido"]
    /\ estop \in BOOLEAN

----------------------------------------------------------------------------
(* Helpers *)

OpenOf(k) == {v \in open : v[1] = k}

\* allActuatorsSafe
AllActuatorsSafe == on = {} /\ open = {}

\* selectedPrincipalValvesOpen
SelectedPrincipalValvesOpen ==
    processActive /\ selected # {} /\ \A t \in selected : <<"PRINCIPAL", t>> \in open

\* coupling.available && coupling.coupled of a tank
CouplingReady(t) == expansor /\ t \in config.acoplamentos /\ t \in acoplados

\* selectedCouplingsAreSafe
SelectedCouplingsAreSafe == expansor /\ \A t \in selected : CouplingReady(t)

\* clearProcessContext
ClearProcessContext == processActive' = FALSE /\ selected' = {}

\* forceAllActuatorsSafe: pumps off first, then every valve closed.
ForcePumpsOnly == on' = {} /\ UNCHANGED open
ForceAllActuatorsSafe == on' = {} /\ open' = {}

\* enterSafeFault
EnterSafeFault == ForceAllActuatorsSafe /\ ClearProcessContext

\* Every way enforceLocalSafety can find a running process unsafe, in the
\* order of its checks.
LinkExpired == mqtt = "vencido" /\ ~mqttDisconnectSafetyHandled
SensorUnsafe == \E t \in selected : sensores[t] # "normal"
MainWithoutLine == "PRINCIPAL" \in on /\ ~SelectedPrincipalValvesOpen
AuxWithoutInterlock ==
    "AUXILIAR" \in on /\ ("PRINCIPAL" \notin on \/ OpenOf("AUXILIAR") = {})
UnsafeButSensors ==
    LinkExpired \/ ~SelectedCouplingsAreSafe \/ MainWithoutLine \/ AuxWithoutInterlock
Unsafe ==
    \/ LinkExpired
    \/ ~SelectedCouplingsAreSafe
    \/ SensorUnsafe
    \/ MainWithoutLine
    \/ AuxWithoutInterlock

----------------------------------------------------------------------------
(* maintainMqtt *)

\* The link as maintainMqtt finds it: a requested reconnection drops it, it
\* drops by itself, stays down, exceeds the limit, or connectMqtt succeeds.
HandledKept == mqttDisconnectSafetyHandled
HandledAfterConnect == FALSE
MaintainMqtt ==
    /\ fase = "rede"
    /\ fase' = "comando"
    /\ \/ /\ mqtt = "conectado" /\ reconnectRequested
          /\ mqtt' = "desconectado" /\ reconnectRequested' = FALSE
          /\ UNCHANGED mqttDisconnectSafetyHandled
       \/ /\ mqtt = "conectado" /\ ~reconnectRequested
          /\ mqtt' \in {"conectado", "desconectado"}
          /\ UNCHANGED <<mqttDisconnectSafetyHandled, reconnectRequested>>
       \/ /\ mqtt # "conectado"
          /\ mqtt' \in {mqtt, "vencido"}
          /\ UNCHANGED <<mqttDisconnectSafetyHandled, reconnectRequested>>
       \/ /\ mqtt # "conectado"
          /\ mqtt' = "conectado" /\ mqttDisconnectSafetyHandled' = HandledAfterConnect
          /\ UNCHANGED reconnectRequested
    /\ UNCHANGED <<outputs, context, emergencyLatched, setup, inputs>>

----------------------------------------------------------------------------
(* One MQTT message: onMqttMessage *)

\* No message, a message without effect on this state, or a refused command.
NoCommand ==
    /\ fase = "comando" /\ fase' = "entradas"
    /\ UNCHANGED <<outputs, context, emergencyLatched, setup, link, inputs>>

Message ==
    /\ fase = "comando" /\ mqtt = "conectado"
    /\ fase' = "entradas"
    /\ UNCHANGED <<mqtt, mqttDisconnectSafetyHandled, inputs>>

\* handleSyncConfig, past its refusals: the mappings are replaced, and the
\* configuration counts as synchronised only when they are complete.
SyncConfig(c, complete) ==
    /\ Message
    /\ ~processActive /\ AllActuatorsSafe
    /\ config' = c /\ configSynchronized' = complete
    /\ UNCHANGED <<outputs, context, emergencyLatched, reconnectRequested>>

\* handleStartProcess: loads the context of tanks S, moves no output.
IniciarProcesso(S) ==
    /\ Message
    /\ configSynchronized /\ ~emergencyLatched
    /\ ~processActive /\ AllActuatorsSafe
    /\ SensorsConfirmed /\ expansor
    /\ "PRINCIPAL" \in config.bombas
    /\ S # {}
    /\ \A t \in S : /\ sensores[t] # "invalido"
                    /\ CouplingReady(t)
                    /\ Kinds \X {t} \subseteq config.valvulas
    /\ processActive' = TRUE /\ selected' = S
    /\ UNCHANGED <<outputs, emergencyLatched, setup, reconnectRequested>>

ParadaEmergencia ==
    /\ Message
    /\ EnterSafeFault
    /\ emergencyLatched' = TRUE
    /\ UNCHANGED <<setup, reconnectRequested>>

PararProcesso ==
    /\ Message
    /\ EnterSafeFault
    /\ UNCHANGED <<emergencyLatched, setup, reconnectRequested>>

ReiniciarComunicacao ==
    /\ Message
    /\ EnterSafeFault
    /\ reconnectRequested' = TRUE
    /\ UNCHANGED <<emergencyLatched, setup>>

DesligarTodasBombas ==
    /\ Message
    /\ on' = {}
    /\ UNCHANGED <<open, context, emergencyLatched, setup, reconnectRequested>>

\* Refused (BOMBA_LIGADA) while a pump is on.
FecharTodasValvulas ==
    /\ Message
    /\ on = {}
    /\ open' = {}
    /\ UNCHANGED <<on, context, emergencyLatched, setup, reconnectRequested>>

\* Operational commands, past the emergency and the SYNC_CONFIG checks.
Operational ==
    /\ Message
    /\ configSynchronized
    /\ UNCHANGED <<context, emergencyLatched, setup, reconnectRequested>>

\* What ABRIR_TODAS_VALVULAS opens: both valves of the selected tanks.
EveryValve == Valves
ValvesOfSelected == Kinds \X selected
AbrirTodasValvulas ==
    /\ Operational /\ ~emergencyLatched
    /\ processActive /\ SelectedCouplingsAreSafe
    /\ ValvesOfSelected \subseteq config.valvulas
    /\ open' = open \cup ValvesOfSelected
    /\ UNCHANGED on

LigarBomba(k) ==
    /\ Operational /\ ~emergencyLatched
    /\ processActive /\ k \in config.bombas /\ SelectedCouplingsAreSafe
    /\ k = "PRINCIPAL" => SelectedPrincipalValvesOpen
    /\ k = "AUXILIAR" => "PRINCIPAL" \in on /\ OpenOf("AUXILIAR") # {}
    /\ on' = on \cup {k}
    /\ UNCHANGED open

\* Switching the main pump off takes the auxiliary one with it.
OnlyThisPumpOff(k) == on \ {k}
PumpsLeftOn(k) == IF k = "PRINCIPAL" THEN {} ELSE on \ {k}
DesligarBomba(k) ==
    /\ Operational
    /\ on' = PumpsLeftOn(k)
    /\ UNCHANGED open

AbrirValvula(v) ==
    /\ Operational /\ ~emergencyLatched
    /\ processActive /\ v[2] \in selected
    /\ v \in config.valvulas /\ CouplingReady(v[2])
    /\ open' = open \cup {v}
    /\ UNCHANGED on

\* The last open valve of a line cannot close under its running pump.
NeverLast(v) == FALSE
LastUnderPump(v) == v \in open /\ v[1] \in on /\ OpenOf(v[1]) \subseteq {v}
FecharValvula(v) ==
    /\ Operational
    /\ processActive /\ v[2] \in selected
    /\ ~LastUnderPump(v)
    /\ open' = open \ {v}
    /\ UNCHANGED on

Command ==
    \/ NoCommand
    \/ \E c \in Configs, complete \in BOOLEAN : SyncConfig(c, complete)
    \/ \E S \in SUBSET Tanks : IniciarProcesso(S)
    \/ ParadaEmergencia \/ PararProcesso \/ ReiniciarComunicacao
    \/ DesligarTodasBombas \/ FecharTodasValvulas \/ AbrirTodasValvulas
    \/ \E k \in Kinds : LigarBomba(k) \/ DesligarBomba(k)
    \/ \E v \in Valves : AbrirValvula(v) \/ FecharValvula(v)

----------------------------------------------------------------------------
(* Inputs and local safety *)

\* updateCouplings and updateVacuumSensors.  A failing expander keeps the last
\* coupling states until the failure limit; the loss of a selected tank's
\* coupling is a fault at once.
FailuresUncapped == falhasExpansor + 1
FailuresCounted ==
    IF falhasExpansor < ExpanderFailureLimit THEN falhasExpansor + 1 ELSE falhasExpansor
ExpanderFails ==
    LET n == FailuresCounted
        lost == n >= ExpanderFailureLimit /\ expansor
    IN  /\ falhasExpansor' = n
        /\ expansor' = (expansor /\ ~lost)
        /\ acoplados' = IF lost THEN {} ELSE acoplados
        /\ IF lost /\ processActive THEN EnterSafeFault ELSE UNCHANGED <<outputs, context>>

ExpanderReads(a) ==
    /\ falhasExpansor' = 0 /\ expansor' = TRUE
    /\ acoplados' = a
    /\ IF processActive /\ selected \cap (acoplados \ a) # {}
       THEN EnterSafeFault ELSE UNCHANGED <<outputs, context>>

UpdateInputs ==
    /\ fase = "entradas" /\ fase' = "seguranca"
    /\ ExpanderFails \/ \E a \in SUBSET Tanks : ExpanderReads(a)
    /\ sensores' \in [Tanks -> SensorStates]
    /\ estop' \in BOOLEAN
    /\ UNCHANGED <<emergencyLatched, setup, link>>

\* enforceLocalSafety: the stop button first, then a running process is
\* checked, and any hazard stops everything.
EnforceLocalSafety ==
    /\ fase = "seguranca" /\ fase' = "rede"
    /\ \/ /\ estop /\ ~emergencyLatched
          /\ emergencyLatched' = TRUE
          /\ EnterSafeFault
          /\ UNCHANGED mqttDisconnectSafetyHandled
       \/ /\ ~(estop /\ ~emergencyLatched)
          /\ processActive /\ Unsafe
          /\ mqttDisconnectSafetyHandled' = (mqttDisconnectSafetyHandled \/ LinkExpired)
          /\ EnterSafeFault
          /\ UNCHANGED emergencyLatched
       \/ /\ ~(estop /\ ~emergencyLatched)
          /\ ~(processActive /\ Unsafe)
          /\ UNCHANGED <<outputs, context, emergencyLatched, mqttDisconnectSafetyHandled>>
    /\ UNCHANGED <<setup, mqtt, reconnectRequested, inputs>>

\* Power loss or reset, at any point: setup() runs again.
Reboot ==
    /\ fase' = "rede"
    /\ on' = {} /\ open' = {}
    /\ processActive' = FALSE /\ selected' = {}
    /\ emergencyLatched' = FALSE
    /\ configSynchronized' = FALSE
    /\ config' = [bombas |-> {}, valvulas |-> {}, acoplamentos |-> {}]
    /\ mqtt' = "desconectado"
    /\ mqttDisconnectSafetyHandled' = FALSE /\ reconnectRequested' = FALSE
    /\ expansor' \in BOOLEAN /\ falhasExpansor' = 0
    /\ acoplados' \in IF expansor' THEN SUBSET Tanks ELSE {{}}
    /\ sensores' = [t \in Tanks |-> "invalido"]
    /\ estop' \in BOOLEAN

Next == MaintainMqtt \/ Command \/ UpdateInputs \/ EnforceLocalSafety \/ Reboot

Spec == Init /\ [][Next]_vars

----------------------------------------------------------------------------
(* Properties *)

\* Type correctness of every variable.
TypeOK ==
    /\ fase \in {"rede", "comando", "entradas", "seguranca"}
    /\ on \subseteq Kinds /\ open \subseteq Valves
    /\ processActive \in BOOLEAN /\ selected \subseteq Tanks
    /\ emergencyLatched \in BOOLEAN
    /\ configSynchronized \in BOOLEAN /\ config \in Config
    /\ mqtt \in {"conectado", "desconectado", "vencido"}
    /\ mqttDisconnectSafetyHandled \in BOOLEAN /\ reconnectRequested \in BOOLEAN
    /\ expansor \in BOOLEAN /\ falhasExpansor \in 0..ExpanderFailureLimit
    /\ acoplados \subseteq Tanks
    /\ sensores \in [Tanks -> SensorStates] /\ estop \in BOOLEAN

\* Once an emergency is latched, by command or by the button, no pump and no
\* valve is energised again before a reboot, whatever commands arrive.
LatchedMeansOff == emergencyLatched => AllActuatorsSafe

\* Only valves of the running process's tanks are ever open, and no pump runs
\* without a process: an unselected tank is never connected to a line.
OnlySelectedEnergised ==
    /\ open \subseteq Kinds \X selected
    /\ ~processActive => on = {} /\ selected = {}

\* The auxiliary pump never runs without the main pump and an open auxiliary
\* valve, after any single command and not only after the periodic check.
AuxiliaryInterlock ==
    "AUXILIAR" \in on => "PRINCIPAL" \in on /\ OpenOf("AUXILIAR") # {}

\* The main pump never pulls against a line with every principal valve shut.
MainPumpHasLine == "PRINCIPAL" \in on => OpenOf("PRINCIPAL") # {}

\* A process that survives a turn of the loop is safe: link within the limit,
\* its tanks coupled, their sensors valid and within the limit, the button
\* released, and every selected principal valve open under the main pump.
SafeAfterCheck ==
    fase = "rede" /\ processActive =>
        /\ mqtt # "vencido"
        /\ SelectedCouplingsAreSafe
        /\ ~SensorUnsafe
        /\ ~estop
        /\ "PRINCIPAL" \in on => SelectedPrincipalValvesOpen

\* The "already handled" mark of the link timeout never hides a later timeout:
\* no process can run while it is set.
TimeoutNeverMasked == mqttDisconnectSafetyHandled => ~processActive
=============================================================================
