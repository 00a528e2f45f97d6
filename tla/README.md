# Verification of the vacuum process API and its ESP32 controller

This directory holds TLA+ models of the control core of API-TCC: a NestJS API
that starts, supervises and stops vacuum processes on tanks, a PostgreSQL
database that is its only durable state, an MQTT broker, and one ESP32 that
drives two pumps and two valves per tank. The models are checked with TLC on
small instances. For any number of processes, tanks, ids, callers and failures, the
safety properties of the firmware, of the ledger (with its refinement of an
abstract channel), of the process control, of the closures, of the auxiliary line
and of the monitoring of a tank, and three of the configuration's, are also proved
with TLAPS.

Paths below are relative to the repository root.

## The system

| Part | State it keeps | Operations | Hard behaviour |
|---|---|---|---|
| MQTT command ledger (`src/mqtt-hardware/commands`, `handlers/command-ack.handler.ts`) | rows `comandosmqtt`; in memory, the last ACKs and the pending promises | `prepare`, `markPublished`, `recordAck`, `markFailure`, `publishAndAwaitAck`, ACK handler | concurrent calls of one id, retries, late or reordered ACKs, restart |
| ESP32 firmware (`firmware/esp32_tsea`) | outputs, process context, emergency latch, mappings, link, inputs, ACK cache | `SYNC_CONFIG`, `INICIAR_PROCESSO_VACUO`, pump and valve commands, emergency, periodic safety check | any order of commands; inputs that change between two checks; reset |
| Startup and recovery (`src/processos/mqtt`) | `status_partida`, `etapa_partida`, `partida_versao`, lease | `execute`, `recoverExpiredStartups`, rollback | a request, a scheduler and an emergency acting on one row and one controller |
| Lifecycle (`processos.service.ts`, `processos.repository.ts`, `lifecycle/`) | `status_processo` | pause, resume, finish, interrupt | check, seconds of MQTT, then write |
| Emergency stop and general closure (`lifecycle/processo-general-closure.service.ts`) | `parada_emergencia`, `status_encerramento_geral`, markers | claim, command sequence, confirmation by telemetry, retries | survives restarts; invalidates a startup |
| Tank monitoring and closure (`lifecycle/processo-tanque-*.ts`) | closure stage, isolation and retention evidence per tank | isolation, retention, approval, rollback | queues per tank that interleave with readings, requests and the auxiliary line |
| Readings, sensor and tank monitor (`handlers/reading.handler.ts`, `sensor-integrity-monitor.service.ts`, `processo-tanque-monitor.service.ts`) | the row of the sensor, its alarm, the status of the tank, the detector of stagnation | store a reading, fail a sensor, find it silent, monitor the tank; calibrate, release, deactivate | a reading is stored in one transaction and judged in another; start, pause, technician and cron write the same rows |
| Auxiliary subsystem (`src/processos/auxiliar`) | mode, current tank, leases, two optimistic versions | acquire/release control, reserve, finalise, roll back a command, scheduler | versions moved between reservation and ACK |
| MQTT configuration (`src/mqtt-hardware/config`, `connection/`) | active row, credentials file, update lease, client in use | update, probe, roll back, reconnect, restore of a backup | three kinds of lease, each may expire; a file and a row written one after the other |
| Other telemetry, the rest of the pre-check and of the alarms, configuration, auth, history, reports, mail, sockets, logs | rows, files | CRUD, queries, notifications | mostly request-local |

How they interact: a request begins a startup in a serializable transaction,
then sends commands through the ledger; each waits for the final ACK of the
ESP32; telemetry confirms the beginning and the end; a last conditional write
puts the process in execution. Every failure leads to pumps off, then valves
closed, and only then to `FALHA`. A scheduler takes over startups whose lease
has expired. While the process runs, each reading of a tank may begin its
closure (the main valve is closed, the vacuum must be retained), the auxiliary
pump may be lent to one tank at a time, and the general closure waits for every
tank before it makes the equipment safe. An emergency persists its own row
first, invalidates the startup in the same transaction, then sends its commands,
and a scheduler brings it to its confirmation. The partial unique index
`uq_processos_operacao_unica` allows one process in startup, execution or pause;
the MQTT update lease excludes them.

`PROJECT.json` lists every component with what is and is not modelled, and
every hazard of the code at its line with the properties that cover it.

## Modules

| Module | Models | Is used by |
|---|---|---|
| `CommandChannel` | abstract: what the callers of the ledger rely on | refined by `CommandLedger`; `CommandChannelProofs` |
| `CommandLedger` | the ledger, the ACK handler, the calls, the controller's cache | `CommandLedgerProofs`, `CommandChannelProofs` |
| `Esp32Firmware` | the controller's loop and commands | `Esp32FirmwareProofs` |
| `ProcessControl` | one operation: startup, recovery, lifecycle, emergency, update lease | `ProcessControlProofs` |
| `ProcessClosure` | the end of a process: tanks, auxiliary line, general closure | `ProcessClosureProofs` |
| `AuxiliarySubsystem` | the auxiliary line: leases, commands, scheduler, modes | `AuxiliarySubsystemProofs` |
| `MqttConfiguration` | configuration, credentials, client in use, leases | `MqttConfigurationProofs` |
| `SensorIntegrity` | the sensor of a tank: readings, timeouts, technician, the gate of a start | extended by `TankMonitor` |
| `TankMonitor` | what the readings decide about the tank: target, stabilisation, stagnation | `TankMonitorProofs` |

Each has an `MC` module with its model values, symmetry and situations. The
large modules share parts of the code seen from different sides: the controller
in `ProcessControl` is outputs, latch and context; in `ProcessClosure` it is
either the ESP32 or the simulator; the ledger is reduced in both to the
answers a repeated correlation id finds (`respostas`).

### CommandLedger and CommandChannel

One correlation id is one command. The row, the ACK handler's memory, the calls
of `publishAndAwaitAck` and the ESP32's ACK cache are the state; the actions
follow the awaits of the code:

| Action | Code |
|---|---|
| `Prepare` (as `Issue` or `PrepareAgain`), `PrepareCreate`, `PrepareClaim` | `prepare`: read, create with unique conflict, compare-and-set on status and `atualizado_em` |
| `Register` | `restorePersistedAck` and `waitForFinalAck`, synchronous |
| `Publish`, `PubAck`, `Redeliver`, `PublishFails` | `MqttClientService.publish`: the message is handed to the client, whose callback comes with the PUBACK, after a reconnection, with an error, or not at all |
| `MarkPublished` | `markPublished` |
| `ReturnExecuted`, `ReturnFailure` | the end of `publishAndAwaitAck` |
| `AckPersist`, `AckSettle` | `handleAndPersist` before and after its await |
| `Timeout`, `Expire`, `ConnectionDrops`, `ApiRestart` | timers, `rejectAllPending`, loss of memory |
| `EspHandle`, `EspReboot`, `LoseCommand`, `LoseAck` | `handleCommand` with its cache, and the network |

Abstractions: payloads and topics are dropped; time is two facts, `vencido`
(the row's `timeoutMs` has passed since it was last written) and the freedom of
`Timeout`; `lido` is the set of callers whose read still matches the row, which
is what the compare-and-set tests; the order of the bounded caches is any order.
`execucoes`, `executados` and `publicacoes` are history variables.

`CommandChannel` is the abstraction the other modules are written against: a
call is issued, the controller may execute the command (at most once per boot),
and a call may return success only after an execution. `ImplementsChannel` maps
the rows, caches, promises and messages of the ledger onto it, and TLC checks
that every step of the ledger is a step of the channel or a stutter.

### Esp32Firmware and Esp32FirmwareProofs

`loop()` is one thread: `fase` says which of its parts comes next. Each command
is one action whose guard is the conjunction of the code's refusals; a refused
command or an ACK answered from the cache changes none of this state and is
`NoCommand`. `Reboot` may happen at any point. The couplings, the vacuum
sensors, the button and the link take any value at each turn; times are
reduced to "within the limit" and "beyond it". `SensorsConfirmed` is
`VACUUM_SENSOR_CONFIGURATION_CONFIRMED`: the repository ships it as `false`,
with which no process can be loaded; the runs set it to `TRUE` as a
commissioned controller has it.

### ProcessControl

The table `processos`, one record `exec[a]` per running request or scheduler,
and an ESP32 reduced to outputs, latch and context. Each database write, each
MQTT command and each wait for telemetry is one action.

| Action | Code |
|---|---|
| `Begin`, `Tocar`, `Esperar`, `ComandoDaEtapa`, `Concluir` | `beginStartup`, `touchStage`, `waitForHardwareState`, one command of the sequence, the completing write |
| `DesligarTodasBombas`, `FecharTodasValvulas` | the two commands of every shutdown |
| `Reivindicar`, `Consultar`, `FinishFailedStartup`, `ScheduleRollbackRetry` | `rollbackOrScheduleRetry` |
| `RecoverRead`, `RecoverClaim` | `recoverExpiredStartups` |
| `Resume`, `StopRequest`, `ApplyLifecycleTransition` | resume, pause, finish, interrupt |
| `UpdateConfig` | `updateConfig` with other tanks |
| `ClaimEmergencyStop`, `ClaimEmergencySequence`, `ParadaEmergencia`, `FecharEmergencia`, `RegistrarEmergencia`, `ConfirmEmergencyHardware` | the emergency stop |
| `ReconcileControllerEmergency`, `RequestEmergencyStop` | `reconcileControllerEmergency`: a `HARDWARE_STATUS` with the latch set finds the process to stop, then claims its stop |
| `RequestEmergencyStopForCurrent`, `ClaimFails` | a stop with no process, and one whose claim the database does not take: the commands alone |
| `ClaimMqttUpdateLease`, `ReleaseMqttUpdateLease` | the update lease |
| `Telemetria`, `LeaseExpires`, `ApiCrash`, `EspReset*`, `EspFalhaLocal`, `EspEmergenciaFisica` | the environment |

Abstractions:

- `partida_versao` is the set `lido` of actors that hold the row's version;
  a write leaves only its author in it.
- A time marker is a pair in `telemetria.apos`: a marker just taken removes
  its pair, a new snapshot puts every pair back, so "the snapshot is later than
  the marker" is membership.
- The ledger is reduced to the answers that a shutdown id reused by a retry
  finds (`respostas`): final in the API's table, or only in the ESP32's cache,
  which a reset empties. CommandLedger has the whole protocol.
- The pre-check, which only reads, is left out: a startup begins in more states
  than the code allows, never in fewer.
- The context of a startup is read before the claim, in another transaction:
  where a run allows edits, `Begin` takes any selection (`ContextoLido`), since
  nothing limits the edits between the two.
- The number of confirmation attempts of an emergency is not counted:
  `ConfirmEmergencyHardware` may give up at any attempt.
- Each scheduler runs in one instance; requests run anywhere, and `ApiCrash(S)`
  stops any set of them.

The initial state picks one of the `Cenarios` of the run: which processes,
requests, number of tanks, operations and failures take part and how many
failures there may be (`restam`). A run therefore checks several situations,
each with bounds of its own.

Two timing assumptions are explicit and are dropped by the member `"lentidao"`
of a situation's failures: a startup's lease expires only when nobody is working
on it (`STARTUP_LEASE_MS` is 45 s, one command may wait up to 120 s by
configuration), and a person resets the controller after an emergency later
than an invalidated startup notices. Without them `PumpHasOwner` and
`FailedStartupIsSafe` fail.

### AuxiliarySubsystem

The rows of the auxiliary line, one per process and one per tank, with their
leases and versions; one record `exec[a]` per person and for the scheduler; the
outputs and the stored telemetry.

| Action | Code |
|---|---|
| `AcquirePumpControl`, `ReleasePumpControl`, `AcquireValveControl`, `ReleaseValveControl`, `Vence` | the leases of `processo-auxiliar.repository.ts` and their expiry |
| `Permitido` | `ProcessoAuxiliarSafetyValidator` |
| `Pedir`, `Reservar`, `Revalidar`, `EspExecuta`, `SemResposta`, `Finalizar`, `MarkInconsistentAfterAck`, `Desfazer` | a command of `processo-auxiliar-command.service.ts`, from its reservation to its consolidation or rollback |
| `SynchronizeCandidates`, `EvaluateContext`, `BlockTank`, `MarkSchedulerFailure` | one cycle of `processo-auxiliar-scheduler.service.ts` |
| `Pausar`, `GravarPausa`, `IniciarEncerramento`, `PararSaidas`, `Encerrar` | the lifecycle as the auxiliary rows see it |
| `RecebeTelemetria`, `Silencio`, `Queda`, `ResolveAlarme` | the environment |

`lido[r]` is the set of actors whose expected version is still row `r`'s;
`antes[r]` is what the rollback of the reservation that holds `r` restores. The
thresholds and timers of the scheduler (efficacy, stagnation, settling time) are
choices: every outcome of a measurement is possible at every cycle. The three
modes are the `Regimes` of a run, each with its number of events and of requests
of people.

### ProcessClosure

`tq`, `ger` and `req` are the queue of the tank closure, that of the general
closure and the HTTP request in progress: each is at most one step that has read
the rows, perhaps waits for a command, and writes.

| Action | Code |
|---|---|
| `Leitura` | `processo-tanque-monitor.service.ts`: a reading changes the status of a tank and of its closure |
| `LerPronto`, `ClaimIsolation`, `Avaliar`, `Decidir`, `Comandar`, `TPerde`, `Consolidar` | `processo-tanque-closure.service.ts`: read, decide, command, write under the version read |
| `AvaliarGeral`, `IniciarManual`, `ClaimStep`, `GPerde`, `ConsolidarGeral` | `processo-general-closure.service.ts` |
| `Requisitar`, `PararBombas`, `PararValvulas`, `Energizar`, `Gravar`, `Emergencia` | pause, resume, finish, interrupt and the claim of an emergency |
| `AbrirAuxiliar`, `LigarAuxiliar`, `EncerrarAuxilio` | the auxiliary line, reduced to what it does to the outputs |
| `OperarValvula`, `MoverValvula` | `processo-precheck.service.ts`: a person opens or closes one main valve during the process; the permission is read before the command goes out |
| `Telemetria`, `Silencio`, `Queda` | the environment |

The controller is a parameter of the situation. On the ESP32 closing a selected
main valve under the main pump stops the whole process, so that a tank isolated
alone ends in the local fault; the simulator of `scripts/simulate-esp32-mqtt.cjs` does not,
and it is there that several tanks close one after the other. `MaxComandos` is 3
as in the code. The pressures and times of the monitor are choices among the
outcomes the code tells apart. One assumption is about time: a command by hand that
was allowed before the general closure started is at the controller before the
last command of that closure (`DecisaoDaEtapa`), whose steps are cycles of a
second. Nothing in the code enforces it, and without it `ConclusionIsSafe` fails: the
valve opens between the last report and the conclusion.

### MqttConfiguration

One request per operation, step by step between its awaits, over the one row
`mqttconfiguracoes`, the credentials file, the client in use and the memory of
the API. `fila` is the promise chain through which `MqttClientService` orders
its connection transitions.

| Action | Code |
|---|---|
| `Pedir`, `Reservar`, `Renovar`, `Liberar`, `Vencer` | the leases of `mqtt-config.service.ts` |
| `Provar`, `GravarConfig`, `GravarArquivo`, `MarcarCredencial`, `Desfazer`, `ConfirmarConfig`, `Restaurada` | `updateConfig` and `updateCredentials`: probe, stage, verify, roll back |
| `Conectar`, `Ler`, `Abrir`, `Aceito`, `Assinar`, `Firmar`, `Falhar`, `Fechar`, `Fechado`, `Desligar`, `Encerrado`, `Executar` | `mqtt-client.service.ts` |
| `Publicar` | a command sent under the lease of an administrative operation |
| `RestaurarBackup`, `Recarregar` | the MQTT part of `backup.service.ts` |
| `Cair`, `Voltar`, `Partida`, `FimDoProcesso`, `Reiniciar` | the link, the process that may start, a restart |

A configuration is a name, and so is a pair of credentials; the probe and the
broker accept or refuse either.

### SensorIntegrity and TankMonitor

One sensor, its link and its tank. `SensorIntegrity` has the row of the sensor,
its alarm and the parties that write them; `TankMonitor` extends it with the
tank and with what its steps do to it.

| Action | Code |
|---|---|
| `Chega`, `CreateReading`, `UpdateDiagnostic`, `MarkSensorFault` | `reading.handler.ts`: accepted, then written after its awaits, whatever the sensor has become |
| `FindTimeout`, `WriteTimeout` | `monitorTimeouts`: the query, then the conditional write |
| `ItemDoSensor`, `SemBloqueio`, `ValidarInicio`, `BeginStartup`, `Retomar`, `LigarLinha`, `FalharPedido`, `Executar` | the pre-check of the sensor, `validateCanStart`, the claim, the resume, what they send and the write of EM_EXECUCAO |
| `PedirParada`, `Parar`, `ClaimEmergencyStop`, `ConfirmarEmergencia` | pause, finish and interrupt, their check and, after the commands, their write; the emergency stop |
| `IniciarCalibracao`, `Calibrar`, `Ativar`, `Desativar`, `Vencer` | `configuracoes-sensores.service.ts` under `executeProtectedEquipmentMutation` |
| `DecidirAlarme`, `ResolverAlarme` | `alarm-resolution-policy.service.ts`, then the write, which asks for nothing any more |
| `StoreNova`, `StoreAntiga`, `StoreUltrapassada` | a reading stored and queued: the latest by `leitura_em`, the latest but of before a resume, one that a later reading has overtaken |
| `MonitorLe`, `MonitorGrava`, `MonitorFalha` | `processReading`: reads, conditional write, failure |
| `TankTransition`, `PodeEstabilizar`, `Evaluate`, `SyncStagnationAlarm` | its decisions |
| `StartTransition`, `ResumeTransition`, `PauseTransition`, `FinalTransition`, `EmergencyStop` | what the transitions of the process and the emergency stop do to tank, detector and alarm |
| `ClaimIsolation`, `EvaluateRetention`, `RollbackFails`, `RollbackRetention`, `CompleteTankClosure` | the stages of `processo-tanque-closure.service.ts` that write the row the monitor writes; ProcessClosure follows their commands |

Requests overlap here: each operator makes one at a time and none waits for
another's, so that a resume may write EM_EXECUCAO over an interruption, and a
finish its end over a resume. Only the completion of a startup asks for its own
row, which the emergency stop invalidates. The conclusion of the general closure
writes what a finish writes. A startup that nobody completes, and its recovery,
are in ProcessControl.

A tick is one second, the interval of the readings. The table of readings is
kept as what the monitor computes of it: the reading with the greatest
`leitura_em`, and since the event of the target their number, the time they span
and whether a gap was longer than the timeout, each capped where no comparison
tells more apart. `leitura_em` is set before the awaits of the handler, so a
reading may be stored after a later one: `ultrapassadas` counts the readings in
their handlers for which that has come true, `antigas` those that are of before
the last resume. When a reading is stored as the latest, any of the others in
flight may turn out to be older than it. An overtaken reading may or may not be
later than the event of the target. `versao` says that `encerramento_versao` is
still the one the transaction has read. Whether a reading is within tolerance or
anomalous, and what progress the readings of a detector's window show, is a
choice. `lida`, `firme`, `perdida`, `limpa`, `mexido` and `retrocesso` are
history: the first four say which readings the verdict on a tank has passed
over, `mexido` that the device was changed or its alarm closed behind the
validation of a start or of a resume, `retrocesso` that a retention was rolled
back under an active alarm.

## Runs

| Run | Bounds | Shows |
|---|---|---|
| `ledger` | 1 id, 2 callers, 2 attempts, caches of 1, up to two disconnections or restarts | the ledger's safety and its refinement of the channel |
| `ledger_live` | 1 id, 2 callers, 1 attempt, one lost connection, lost message or reboot | every call ends or waits for a PUBACK |
| `firmware` | 3 tanks, 2 configurations, expander limit 2 | latch, selection, interlocks, safe turn |
| `process` | five situations: 2 processes, 2 requests, 2 tanks, startups against an update, three crashes or losses; 1 process, 2 requests, startup against emergency, three crashes or losses; 2 processes, every lifecycle request one at a time, one failure of four kinds; 1 process of 2 tanks edited while it starts, one crash or loss; 1 process, 2 requests, every kind of emergency, with one press of the physical stop, refused claim or crash | startup, recovery, update lease, emergency, lifecycle |
| `auxiliary` | 2 tanks, 1 person; AUTOMATICO with one event or one request, ASSISTIDO with one request, MANUAL with one event and two requests | the auxiliary line |
| `process_closure` | six situations: 1 tank on the ESP32, 1 on the simulator with the auxiliary line, a manual closure that loses its telemetry, 2 tanks side by side, a main valve moved by hand on the ESP32 and on the simulator; one to three events each | closures of tanks and of the process |
| `mqtt_configuration` | any 2 administrative operations and the connect of the boot, 2 events | configuration, credentials, client, leases |
| `tank_monitor` | 1 tank, 2 operators; a timeout of 1 tick, readings recent for 2, two in one tick; stabilisation after 2 ticks and 2 readings; 2 windows; seven situations (readings in and out of tolerance with a pause and a failed transaction; a calibration that is renewed or expires; anomalous readings with a technician, around a start and around a resume that an interruption overtakes; the detector with a pause, with the ends of the process and the emergency stop, and with four steps of the closure) | sensor, stabilisation, stagnation |
| `recovery_stuck` | 1 process, two losses, fairness | **violated**: the recovery repeats a stored refusal |
| `resume_refused` | 1 process, no failure, fairness | **violated**: a paused process is not resumed |
| `emergency_erased` | 1 process, 2 requests, no failure | **violated**: an interruption erases an emergency |
| `auxiliary_joined` | 2 tanks, ASSISTIDO, two requests | **violated**: two valves are open under the pump |

Why the bounds are enough for what they show. In the ledger every row, promise
and cache entry belongs to one id and ids do not interact except through the
eviction of caches, so one id with two concurrent callers reaches each race;
two attempts give one retry, after which the row's states repeat. A reboot of
the ESP32 is in `ledger_live`; a reboot together with refusals and two attempts
is left to the proofs, which remove every bound for all of them but liveness. In
the firmware three tanks give an unselected tank beside two selected ones (the
proofs remove the bound).
In the process control two requests and the
schedulers give every pair of writers of a row; two processes contend for the
unique index and the update lease; two tanks give more than one turn of the loop
that opens valves; three failures let a rollback fail, be taken over by the
recovery and fail again. Emergencies of two processes with two requests at once
are beyond a run of minutes, hence the situations; the proofs have any number of
processes, requests, tanks and failures.
On the auxiliary line two tanks are a current one and a next one; the events are
few because each opens a race with every step of a command, and one person with
the scheduler already gives two commands in flight; the proofs have any
number of tanks, events and people. In the closures one tank
meets every pair of an event and an awaited step, and two tanks give the
interplay through the one queue; three repetitions are the code's own limit; the
proofs have any tanks and any number of events, all of them at once. In
the configuration two requests and the connect of the boot give the three
overlapping connects that one client can see; two events let a lease expire and
a process start, or the link fall and the API restart.
In the monitoring two readings in one tick overtake each other and the
transaction of a third; two ticks to stabilise are more than one gap of the
timeout and leave room for a pause between; two windows go through every status
of the detector, and one pause through every phase of a transaction. Two operators
give a request that overtakes another, and four steps of the closure a retention
that is begun, rejected, rolled back with one failure, or approved. The proofs
remove these bounds for the safety properties.

`MaxTentativas`, `MaxFalhas`, the cap 2 of `execucoes`, `restam`, `eventos`,
`pedidos`, `MaxEventos`, `resta`, `EmVoo`, `pausas`, `falhas` and `passos` are the only bounds in guards or updates;
each is named where it is declared.

## Properties

Ledger: `SuccessMeansExecuted`, `PublicationsWithinAttempts`,
`AtMostOncePerBoot`, `NoAttemptOverFinalAck`, `CallEnds`,
`ImplementsChannel`. Firmware: `LatchedMeansOff`, `OnlySelectedEnergised`,
`AuxiliaryInterlock`, `MainPumpHasLine`, `SafeAfterCheck`, `TimeoutNeverMasked`.
Process control: `PumpHasOwner`, `FailedStartupIsSafe`, `EmergencyPersists`,
`StartedAsConfirmedUndisturbed`. Auxiliary line:
`OneTankOnTheLine`, `ClosureNotUndone`, `StrayLineCloses`. Closures:
`RetentionIsIsolatedUndisturbed`, `ConclusionIsSafe`, `EndedProcessKeepsTanks`,
`IsolationSettlesUnaided`. Configuration: `VerifiedWasAccepted`,
`LeaseSparesProcess`, `QuietStatusAgrees`, `UpdateConfirmed`,
`FailedUpdateKeepsConfig`. Monitoring: `SupervisedOrAlarmed`,
`StagnationAlarmAgrees`, `StabilisedWasSteady`, `SilentSensorIsAlarmed`,
`SteadyTankStabilises`. Each is stated in words above its definition, and each
has a mutant: a change of one definition, the way a plausible bug would change
the code, under which TLC finds it violated.

Some hold only of a part of the behaviours, and their condition is part of the
statement:

- `PumpHasOwner`, `FailedStartupIsSafe` and `EmergencyPersists` are claimed while
  `Serial`: clients make lifecycle requests one at a time, and the two timing
  assumptions hold. Every situation of `process` is so. With a pause, a resume and an
  interruption that overlap, TLC finds a pump that runs for nobody: each of them
  checks a status and writes seconds later, whatever the row has become.
  `emergency_erased` is the same for `EmergencyPersists`.
- `StartedAsConfirmedUndisturbed` excludes a controller that fails, or is stopped without
  a record, between the confirmation and the completion, and what no version stops: an interruption of
  a process in startup, which the completion overwrites, and an edit, which asks for
  `CONFIGURADO` only and may take a tank from the row whose valve is already open,
  or add one after the last look at the telemetry. Nor is it claimed beside an
  emergency of another process, whose commands switch off whatever is on without
  asking whose it is (`processo-general-closure.service.ts:849`), or when lifecycle
  requests overlap. `StartedAsConfirmed`, without the conditions, does not hold.
- `OneTankOnTheLine` is claimed where the automation alone may energise. In ASSISTIDO
  `auxiliary_joined` shows why; in MANUAL a person may turn to another tank between
  the answer of a command and the telemetry that shows it.
- `RetentionIsIsolatedUndisturbed` excludes a resume, which reopens the main
  valves of every tank of the process, the auxiliary line, which the
  automation may open for an isolating tank that had stagnated, and an opening by
  hand, which the pre-check refuses for concluded tanks only.
  `RetentionIsIsolated`, without the conditions, is stated and does not hold.
- `ConclusionIsSafe` excludes a process that may be resumed under a controller that
  falls silent. Paused while its closure waits for telemetry, and resumed after the
  last report, it is concluded on that report with the pump running: the closure
  compares a report with its marker only and asks for no age
  (`processo-general-closure.service.ts:2050`).
- `IsolationSettlesUnaided` excludes the auxiliary line: while the automation
  reopens it, the closure repeats a command whose answer is stored, succeeds and
  starts over. `IsolationSettles` is the statement without the condition.
- `QuietStatusAgrees` and `UpdateConfirmed` are claimed of operations that the
  lease serialises. A connection test, a restored backup and an operation that
  outlived its lease are outside it, and a connect that fails then closes the
  client that another one has just established (`UpdateConfirmedAlways`).
- `LeaseSparesProcess` excludes operations that outlived their lease,
  which a protected command never renews. `RestoreBeforeStart` is stated and does
  not hold: a restore releases its protection before it reconnects.
- `CallEnds` lets a call wait for ever for its PUBACK. `publish` has no timeout
  (`mqtt-client.service.ts:367`), and the timer of the ACK, which runs meanwhile, does
  not release the call that waits there (`command.service.ts:320`): a connection lost
  before the PUBACK, and not restored, keeps it pending.
- `SupervisedOrAlarmed` excludes a device that was changed, or an alarm that was
  closed, behind a start or a resume that had been validated: neither looks at the
  sensor again. For a start that is the time until its claim. For a resume it takes
  an interruption in between: the process is over, the technician deactivates the
  sensor or the operator resolves the alarm, and the resume then writes EM_EXECUCAO
  whatever the row has become (`processos.repository.ts:1133`). Nor does a resolution
  that was allowed look at the status again (`alarmes.repository.ts:449`).
  `SupervisedOrAlarmedAlways`, without the condition, does not hold.
- `StagnationAlarmAgrees` lets an alarm without a detection stand after a rolled back
  retention: `rollbackRetention` resets the detector and leaves its alarm
  (`processo-tanque-closure.service.ts:845`) until the next evaluation of the tank that
  says other than SUSPEITA. An emergency stop leaves DETECTADA in the row and
  normalises the alarm (`processo-general-closure.service.ts:972`), so that of terminal
  tanks only the alarm is claimed.
- `StabilisedWasSteady` lets a reading out of tolerance count that was never judged:
  the monitor looks at the reading with the greatest `leitura_em`
  (`processo-tanque-monitor.service.ts:281`), so one that is stored after a later one,
  or before it and monitored after it, is not looked at, and nobody repeats a
  transaction that failed or was refused.
- `SteadyTankStabilises` excludes a gap longer than the timeout, which is never
  forgotten: without that clause (`InBandTankStabilises`) it does not hold.
- `AwaitedTelemetryArrives` is stated and does not hold: see below.

## Where code and documents disagree

1. `recovery_stuck`: `docs/processo-safe-startup-contract.md:15` says the
   recovery tries again; it tries under the same correlation ids and is answered
   from the ledger (`processo-startup.service.ts:194`).
2. `resume_refused`: `README.md:27` offers resuming; the pause does not unload
   the process from the controller, which then refuses `SINCRONIZAR_HARDWARE`.
3. `emergency_erased`: `docs/processo-encerramento-geral-contract.md:139` says a
   pending stop blocks new startups; `applyLifecycleTransition` overwrites it
   (`processos.repository.ts:1131`).
4. `auxiliary_joined`: `docs/processo-subsistema-auxiliar-state-contract.md:173`
   demands exactly one open valve during an attendance; the validator judges the
   stored telemetry while the other actor's command is in flight
   (`processo-auxiliar-safety.validator.ts:447`).

More are visible in the models and have no run of their own. According to
`docs/processo-safe-startup-contract.md:5` a process becomes `EM_EXECUCAO` only after
one main valve per selected tank is confirmed open; the tanks may be edited
throughout the startup (`processos.repository.ts:1000`, `UpdateConfig`,
`StartedAsConfirmed`). A command in
`TIMEOUT` may be retransmitted under its key according to
`docs/processo-safe-startup-contract.md:30`, but a remembered `RECEBIDO`
suppresses the publication (`command-ack.handler.ts:167`, action `Register`).
`docs/processo-tanques-realtime-contract.md:172` concludes one tank alone, while
the firmware stops everything when a selected principal valve is closed under
the main pump (`esp32_tsea.ino:1265`, `FecharValvula` of `Esp32Firmware` and
`Protege` of `ProcessClosure`).
The test `processo-general-closure.service.spec.ts:547` says the confirmation of
a closure fails when the telemetry stays away, and sets the count of attempts by
hand; in the service each repetition of the safe sequence resets the count
(`processo-general-closure.service.ts:635`).
`docs/esp32-mqtt-contract.md:340` asks for 30 seconds within the band and three
readings; the service also asks that no gap since the event was longer than the
timeout, so one late reading keeps the tank from being stabilised until it
leaves the band (`PodeEstabilizar`, `InBandTankStabilises`).
`docs/esp32-mqtt-contract.md:358` and
`docs/processo-inteligencia-operacional-fase2.md:70` send the operator to wait
for telemetry before a start; diagnostic readings are accepted in calibration
mode only and process readings need a running line, so that a calibrated sensor
whose last reading is old gets none (`reading.handler.ts:285`,
`processo-precheck.service.ts:745`, `AwaitedTelemetryArrives`).

## Fairness

Weak fairness of the steps of a started call or request (`CallStep`,
`ActorStep`, the queues: the event loop runs them), of timers (`Timeout`, `LeaseExpires`), of the cron
jobs (`Recovery`, `EmergencyScheduler`, `Scheduler`) and of the periodic
telemetry while the controller is not silent. In the ledger the PUBACK of a
connected broker is among the steps of a call; the ESP32 need not answer, no message
need arrive, and a connection that was lost need not come back. In `TankMonitor` the handlers of
readings, the queue of the tank and the cron of the timeouts are weakly fair and
end within a tick, seconds pass, and the controller publishes while its line is
ready; no request, technician or failure is fair. `Avaliar` of each tank is strongly
fair: `runProcessOnce` goes through every closing tank in each run of the cron,
but between two runs the queue is taken by the others, so the step is enabled
again and again and not always. Requests are never fair, except in `ResumeSpec`,
where the question is about a client that insists. Failures are never fair and
are bounded.

## Proofs

`Esp32FirmwareProofs` proves, for every finite set of tanks, every set of
configurations and every failure limit, the type invariant (`Typing`) and the
six safety properties of the firmware. They rest on `FirmwareAssumption` only:
the tanks are finite, the configurations well formed, the limit positive.
`Interlocks` is the inductive invariant: the properties are mutually dependent
(the latch needs that nothing is on without a process; the auxiliary interlock
needs the main pump's), and `SafeAfterCheck`, which speaks of the start of a
turn, is not inductive alone, since what holds at that point must be carried
through the parts of the loop by the other conjuncts. The lemmas go part by part
of `Next`: a safe fault establishes `Interlocks`, a step that changes none of
its variables keeps it, then the commands one by one, the inputs, the check.

`CommandLedgerProofs` proves four properties of the ledger for every finite set
of ids, every set of callers, every cache size, every bound and every set of
failures, from `LedgerAssumption` only.

- `LedgerTyping`: `Typed` adds to `TypeOK` that a call under way has an id.
- `SuccessTheorem`: `SuccessMeansExecuted` is not inductive, since a call learns
  its success from a promise, the promise from an ACK or a cache, the cache from
  a row. `Evidence` says that every copy of `EXECUTADO` (in a row, in
  `latestAcks`, in `emHandler`, in a message, in the firmware's cache, restored
  by a call or in its promise) names an executed id; each step copies it from
  one place to another, and only `EspHandle` makes it, with the execution.
- `AttemptTheorem`: `ReadMatches` says that while some caller's read still
  matches a row, the row carries no final ACK. `RowStep` lists the five things
  one step can do to a row, and a new attempt is among them only for a row that
  is absent or whose reader still matches.
- `OnceTheorem`: `Once` adds that an id executed since the boot is still in the
  firmware's cache; `NoEviction` is the fact about cardinalities it needs.

`TankMonitorProofs` proves the four safety properties of the monitoring for
every timeout, number of readings in flight, evidence, number of windows and set
of scenarios, from `SensorAssumption` and `MonitorAssumption`. `IInv` is the
inductive invariant, in two parts.

- `SensorInv`: `Supervisionado` extends `SupervisedOrAlarmed` to the requests that
  have passed their validation, since what a start or a resume has checked must
  last until it is running; `PedidoDoStatus` says what may be under way beside what:
  at most one startup, which has the row, and before it no resume;
  `Contagem`, that the readings in flight are among those of the tick.
- `TankInv`: `EmVooConfere` says that a transaction in flight finds the row and the
  alarm as it has read them for as long as the version is unchanged: every writer
  but the monitor counts it on, and a pause or a resume writes no tank. From it
  follows `StagnationAlarmAgrees`, where no evaluation leads from DETECTADA back to
  SUSPEITA. `Ordem` says which readings in their handlers may still become the latest
  and that after a resume there is no target until a reading of the new run;
  `Comeco`, that before the start nothing has happened. `Sustenta`: evidence that is
  neither steady nor marked has a reading or a transaction ahead of it that takes
  the target away, or a sensor that does not count any more, so it can never
  stabilise the tank.

The steps of the sensor that leave the tank alone are dealt with at once
(`TankKept`, `TankSpared`); those of the tank have a lemma each.

`CommandChannelProofs` proves the rest of the ledger's safety, from
`LedgerAssumption` and the lemmas of `CommandLedgerProofs`.

- `PublicationTheorem`: `Covered` counts, for each id, the publications and the calls
  that own an attempt not yet published: together they are at most the attempts of
  the row. An attempt is opened by one write, for one call, and `AccountStep` lists
  the three things a step can do to the count.
- `ChannelTheorem`: each initial state of the ledger is one of the channel, and each
  step is a step of the channel or a stutter, for a firmware whose cache holds all
  the ids (`RecentCommandCount >= Cardinality(Ids)`), the condition under which a
  repeated command is answered and not executed.

`MqttConfigurationProofs` proves the types and the five properties of the
configuration, for any requests and configurations, from
`ConfigurationAssumption`: its first two conjuncts say that the request of the boot
is not another's and that "nothing" is no request, no operation and no answer.

- `VerificationTheorem`: `Credenciais` and `Verificadas` follow the credentials from
  the proof of a candidate through the file, the opened client and the queued
  transitions: while those of the file are not accepted, nothing says or will say
  that they are verified.
- `LeaseTheorem`: `Arrendamento` says that an operation within its lease, which has
  not seen it expire, is the one the lease names, in force, with no process.
- `FailureTheorem`: `Conserva` says where the row still holds, or holds again, what an
  update found there; `Exclusivo`, that there is one update at a time.

- `QuietTheorem` and `UpdateTheorem`: the claim is of the states in which the lease
  serialised the operations, `Serializado`, which a renewal can make true again. `Quase`
  is what it says for as long as it can: no step from a state that is not `Quase`
  reaches one that is (`BaseStep`), so that the rest need only hold under it. Then at
  most one request is at work (`Sozinho`), and `Enlace` says what the connection is at
  each of its steps: between two transitions, `Estavel` (no client and nothing of
  one, or the client of the configuration that was applied, with only its own events
  in the queue) and `Coerente` (the last word on the state in the row or in the queue
  is the client's); within one, `Fase`, a clause for each step of a connect or a
  disconnect, with `Posta` for the transition a request waits for, which may be behind
  events of the client and before others. `Confirmada` shows that only an update
  that found its candidate applied answers so.

`Typed` includes the place of each operation in the queue of transitions, without
which none of them could be stated. `Base` and `Enlace` hold in
every state TLC reaches on the instance of the run, where they were checked first.

`AuxiliarySubsystemProofs` proves the types, `ClosureNotUndone` and
`OneTankOnTheLine` for any tanks, people, modes and events, from
`AuxiliaryAssumption`: nobody and the line itself are not tanks.

- `ClosureTheorem`: a command reserved before the closure has blocked the line has
  lost the version of its row, and one reserved after it turns nothing on, so that
  what it may consolidate or restore is an idle row (`Bloqueada`).
- `LineTheorem`: in AUTOMATICO the scheduler alone turns anything on (`Restrito`), one
  command at a time. `Volta` and `Escolhe` tie the tank of its command, and the one a
  rollback would restore, to the row; `Confere`, `Ligando`, `Abrindo` and `Isolado`
  say that a running pump is over one valve, which the telemetry shows, although
  every other telemetry may be stale.

`ProcessControlProofs` proves the types for every behaviour, and `PumpHasOwner`,
`FailedStartupIsSafe` and `EmergencyPersists` while `Serial`, for any processes,
requests, tanks, crashes, losses, resets and emergencies. `Serial` speaks of the
situation, which no step changes, so that the theorems read `Spec /\ Serial => ...`.
`Controle` is the inductive invariant; it has a part for each actor and two for the
rows.

- `Papel` says which record an actor has at each of its steps; `CicloDe`, that the
  one lifecycle request under way finds the row as it checked it, which is what
  `Serial` is for.
- `DonoDe`: a startup in progress belongs to the one actor that works on it, which
  holds its version, and only an emergency takes it away; `PerdidaDe`, that while an
  actor is left with a startup an emergency has taken, no other begins.
- `LimpaDe` and `MemoriaDe`: what the ledger remembers of the shutdown ids of a
  startup is true of the outputs for as long as the startup lasts. A retry that is
  answered from the ledger may so be believed; it is the fact `FailedStartupIsSafe`
  rests on, with `ParadaDe`, which follows the two commands of a shutdown.
- `Bomba` extends `PumpHasOwner`: a running pump has an owner whose confirmation, if
  it is an emergency, the telemetry has not given yet.

The steps of the actors have a lemma each, which gives `Controle` afterwards from two
frames: `PassoDeUm`, for a step that moves one actor and no output, and `LinhasFicam`,
for the parts that read a row.

`StartedTheorem` proves `StartedAsConfirmedUndisturbed` for every behaviour, its
conditions being part of the statement. `Calmo` adds to `Controle` that the commands of
an emergency belong to a row that records it and that only they set the latch. A
startup that has its row, before any rollback and while no other process is stopped
(`Firme`), is then alone at the controller (`Sozinha`, `EspFica`): whoever else could
send a command owns another startup in progress, makes a lifecycle request or carries
out an emergency, and none of these can be. `Posto` says what its own commands have
left: in the loop over the tanks the open valves are those whose turn has passed. The
telemetry that confirms the startup is not part of the argument; a confirmed command
whose id is new was executed (`ComandoFeito`).

`ProcessClosureProofs` proves the types and the three safety properties of the
closures, for any tanks, settings, requests, losses, restarts and number of events,
on the ESP32 and on the simulator, from `ClosureAssumption`: the selected tanks are
neither "no tank" nor the row of the process.

- `EndedTheorem`: `Lida` says that while the version a queue has read is the row's,
  the stage it has decided upon is too; `Encerrados`, that a process ends with all its
  tanks concluded or all interrupted, and with no version left in a queue.
- `RetentionTheorem`: `Vedado` follows the closing of a main valve from the command
  through the stored answer to the stage. What is stored under the ids of an attempt
  is about that attempt, and a reopening in progress belongs to a tank that is not
  being isolated any more: hence a closing that is answered from the ledger and not
  sent is still true of the valve.
- `ConclusionTheorem`: the pumps and the valves need different arguments. `Bombas`: at
  every moment, what the stored telemetry says of stopped pumps is true, because
  whoever starts one reports it or has seen it running. That is false of the valves,
  which a person or a rollback opens under an old report; `Ultimo` says instead that
  once the last command of the closure was executed they are closed and stay so.
  `Parados` (the closure runs over tanks that nothing changes any more), `Lido` and
  `Definitivo` keep the other writers away from it.

Each queue's steps are first reduced to what they write (`Escritores`,
`GeralEscreve`, `SaidasMudam`, `FinalEscreve`), and the invariants are proved from
these.

Only model-checked: liveness, which is out of the prover's reach, in `CallEnds`,
`StrayLineCloses`, `IsolationSettlesUnaided`, `SilentSensorIsAlarmed` and
`SteadyTankStabilises`. Every
safety property of a passing run, invariant or action property, has its theorem.

## Plan

1. `CommandLedger`, `CommandChannel`, `Esp32Firmware`, `ProcessControl`,
   `ProcessClosure`, `AuxiliarySubsystem`, `MqttConfiguration`, `SensorIntegrity`,
   `TankMonitor`: done.
2. A theorem for every safety property of the passing runs: done.
3. The pending alarm slot and the stale-reading clock of the firmware; the safe
   test of a valve (`validarValvula`) under the operational lease.

## Not modelled

- `src/mqtt-hardware/events/`: the event handlers and classifiers there are
  provided by no module and called by nothing; the handlers in use are those of
  `src/mqtt-hardware/handlers/`.
- The items of the pre-check other than the sensor's are reads of a snapshot; a
  startup begins in `ProcessControl` in more states than they allow. Nor is
  the safe test of a valve, `validarValvula`: with no active process it
  sends the safe commands of a startup and waits for fresh telemetry, under the
  operational lease of `MqttConfiguration`.
- The alarms other than those of a sensor and of stagnation, beyond the choices
  the closures and the auxiliary line make of them, and the analysis that finds a
  reading anomalous.
- Sockets, logs, metrics, history, reports, mail, authentication: they do not act
  on the equipment, and what they show is not stored for the control.
- CRUD of tanks, pumps and users, the seed and the scripts: single transactions.
- In the firmware: Wi-Fi, NTP, the sensor protocols and filters.
