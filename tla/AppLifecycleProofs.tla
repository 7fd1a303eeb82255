------------------------- MODULE AppLifecycleProofs -------------------------
(***************************************************************************)
(* Proofs about AppLifecycle and the settings it carries: for every set of *)
(* requests and configurations and every number of versions.               *)
(***************************************************************************)
EXTENDS AppLifecycle, TLAPS

-----------------------------------------------------------------------------
(* The inductive invariants.                                                *)

Tasks == Requests \cup {Boot}
Holding == {"save"} \cup Services

\* Exactly the holder of the lock is saving or applying, and only a process
\* that has booted does either.
LockInv ==
  /\ lock # Free => task[lock].stage \in Holding
  /\ \A q \in Tasks : task[q].stage \in Holding => lock = q /\ booted
  /\ task[Boot].stage \in {"idle", "load", "install"} \cup Services

ToldBefore(stage) ==
  CASE stage = "stt" -> {}
    [] stage = "summary" -> {"stt"}
    [] stage = "action_items" -> {"stt", "summary"}
    [] stage = "tts" -> {"stt", "summary", "action_items"}
    [] OTHER -> Services

\* The services that have been told of the settings in memory.
Told == IF lock = Free THEN Services ELSE ToldBefore(task[lock].stage)

AgreeInv ==
  /\ booted => /\ \A service \in Told : applied[service] = current.config
               /\ doubtful \/ stored = NoRow \/ current = stored
  /\ \A r \in Requests : task[r].stage \in Services => stored # NoRow /\ current = stored

AcceptInv ==
  /\ accepted <= RowVersion
  /\ booted => accepted <= current.version

\* The stages from which components may run.
Late == {"serving", "drained", "closing", "closed", "closing_on_error", "returned"}

\* Before its components run, the process serves nobody; once off, it is as new.
BootInv ==
  /\ run \notin Late
       => http = "none" /\ \A r \in Requests : task[r].stage = "idle"
  /\ run = "off" => ~ booted /\ lock = Free /\ task[Boot].stage = "idle"
  /\ run = "bootstrap" => task[Boot].stage # "idle"

SettingsInv == LockInv /\ AgreeInv /\ AcceptInv

\* What Run has prepared when it is at a stage.
PreparedBy(stage) ==
  CASE stage = "list_users" -> {"settings"}
    [] stage = "ensure_sessions" -> {"settings", "users", "meetings"}
    [] OTHER -> StartupStores

ReadyInv ==
  run \in {"list_users", "ensure_sessions", "list_meetings", "start", "wait_broker", "serving"}
    => booted /\ PreparedBy(run) \subseteq stores

\* Bootstrap reads the row outside the lock and installs it later; nothing
\* writes the row in between, because nobody is served yet (Service.Bootstrap).
RowStaysWhileBooting == [][run = "bootstrap" => stored' = stored]_appVars

-----------------------------------------------------------------------------
(* What a step does to the settings.                                        *)

\* The steps of everything but Run itself and the settings requests.
ComponentMove ==
  \/ ComponentStep \/ LoopPublishes \/ Acknowledged
  \/ Reconnect \/ Deliver \/ ReceivePacket \/ ReadFails \/ AcceptFails

UnchangedButTask == UNCHANGED <<stored, current, booted, applied, lock, accepted, doubtful>>

\* Every step leaves the settings alone, ends the process, begins the
\* bootstrap, is a step of the bootstrap, or is one of a request.
SettingsEffect ==
  \/ UNCHANGED settingsVars
  \/ ForgetSettings
  \/ run = "off" /\ Goto(Boot, "load") /\ UnchangedButTask
  \/ run = "bootstrap" /\ (Load \/ Install \/ Apply(Boot))
  \/ \E r \in Requests : SettingsRequest(r) /\ http = "accepting"
  \/ \E r \in Requests : SettingsStep(r)

LEMMA RunEffects ==
  ASSUME RunStep \/ Start \/ Cancel \/ Crash
  PROVE  SettingsEffect
<1>1. CASE PrepareFails \/ PrepareUsers \/ PrepareSessions \/ PrepareMeetings \/ BrokerTimeout
               \/ StopOnSignal \/ CloseReturns \/ CloseAdmin
  BY <1>1 DEF PrepareFails, PrepareUsers, PrepareSessions, PrepareMeetings, BrokerTimeout,
              StopOnSignal, CloseReturns, CloseAdmin, OnlyRun, SettingsEffect
<1>2. CASE StartBroker \/ StartComponents \/ StopOnError \/ CloseAnalysis \/ Cancel
  BY <1>2 DEF StartBroker, StartComponents, StopOnError, CloseAnalysis, Cancel, SettingsEffect
<1>3. CASE Bootstrapping
  BY <1>3 DEF Bootstrapping, SettingsEffect
<1>4. CASE Exit \/ Crash
  BY <1>4 DEF Exit, Crash, Dead, SettingsEffect
<1>5. CASE Start
  BY <1>5 DEF Start, SettingsEffect, UnchangedButTask
<1> QED  BY <1>1, <1>2, <1>3, <1>4, <1>5 DEF RunStep

LEMMA ComponentEffects ==
  ASSUME ComponentMove
  PROVE  UNCHANGED settingsVars \/ ForgetSettings
<1>1. CASE BrokerListens \/ BrokerFails \/ BrokerServes \/ BrokerServeFails \/ BrokerCloses
  BY <1>1 DEF BrokerListens, BrokerFails, BrokerServes, BrokerServeFails, BrokerCloses, BrokerGoes
<1>2. CASE Connect \/ Subscribe \/ MqttStops \/ Reconnect
  BY <1>2 DEF Connect, Subscribe, MqttStops, Reconnect, MqttGoes, MqttFails
<1>3. CASE Handled \/ ControlFails \/ Deliver
  BY <1>3 DEF Handled, ControlFails, Deliver, Dead
<1>4. CASE BindUdp \/ PacketHandled \/ CloseSocket \/ ReceivePacket \/ ReadFails
  BY <1>4 DEF BindUdp, PacketHandled, CloseSocket, ReceivePacket, ReadFails, UdpGoes, Dead
<1>5. CASE BindHttp \/ Shutdown \/ AcceptFails
  BY <1>5 DEF BindHttp, Shutdown, AcceptFails, HttpGoes
<1>6. CASE LoopPublishes \/ Acknowledged
  BY <1>6 DEF LoopPublishes, Acknowledged, QueueOnly
<1> QED  BY <1>1, <1>2, <1>3, <1>4, <1>5, <1>6 DEF ComponentStep, ComponentMove

LEMMA EveryEffect ==
  ASSUME [AppNext]_appVars
  PROVE  SettingsEffect
<1>1. CASE RunStep \/ Start \/ Cancel \/ Crash
  BY <1>1, RunEffects
<1>2. CASE ComponentMove
  BY <1>2, ComponentEffects DEF SettingsEffect
<1>3. CASE \E r \in Requests : Request(r) \/ Serve(r)
  BY <1>3 DEF Request, Serve, SettingsEffect
<1>4. CASE UNCHANGED appVars
  BY <1>4 DEF appVars, SettingsEffect
<1> QED  BY <1>1, <1>2, <1>3, <1>4 DEF AppNext, ComponentMove

-----------------------------------------------------------------------------
(* Types.                                                                   *)

LEMMA RowVersionTyped ==
  ASSUME SettingsTypeOK
  PROVE  RowVersion \in 0..MaxVersion
BY SettingsAssumption DEF SettingsTypeOK, RowVersion, Settings

LEMMA FromEnvironmentTyped == FromEnvironment \in Settings
BY SettingsAssumption DEF FromEnvironment, Settings

LEMMA GotoTyped ==
  ASSUME SettingsTypeOK, NEW r \in Tasks, NEW stage \in Stages, Goto(r, stage)
  PROVE  /\ task' \in [Tasks -> [stage : Stages, config : Configs \cup {InitialConfig}]]
         /\ task'[r].stage = stage
         /\ \A q \in Tasks \ {r} : task'[q] = task[q]
BY DEF SettingsTypeOK, Goto, Tasks

LEMMA FinishTyped ==
  ASSUME SettingsTypeOK, NEW r \in Tasks, Finish(r)
  PROVE  /\ task' \in [Tasks -> [stage : Stages, config : Configs \cup {InitialConfig}]]
         /\ task'[r].stage = "idle"
         /\ \A q \in Tasks \ {r} : task'[q] = task[q]
<1>1. Resting \in [stage : Stages, config : Configs \cup {InitialConfig}]
  BY DEF Resting, Stages
<1> QED  BY <1>1 DEF SettingsTypeOK, Finish, Tasks, Resting

LEMMA BeginTyped ==
  ASSUME SettingsTypeOK, NEW r \in Tasks, NEW stage \in Stages,
         NEW config \in Configs \cup {InitialConfig}, Begin(r, stage, config)
  PROVE  /\ task' \in [Tasks -> [stage : Stages, config : Configs \cup {InitialConfig}]]
         /\ task[r].stage = "idle" /\ task'[r].stage = stage
         /\ \A q \in Tasks \ {r} : task'[q] = task[q]
BY DEF SettingsTypeOK, Begin, Tasks

\* A request begins one of three calls, and changes nothing else.
LEMMA RequestBegins ==
  ASSUME SettingsTypeOK, NEW r \in Requests, SettingsRequest(r)
  PROVE  /\ task' \in [Tasks -> [stage : Stages, config : Configs \cup {InitialConfig}]]
         /\ task[r].stage = "idle" /\ task'[r].stage \in {"get", "test", "update"}
         /\ \A q \in Tasks \ {r} : task'[q] = task[q]
         /\ UnchangedButTask
<1>1. PICK stage \in {"get", "test", "update"}, config \in Configs \cup {InitialConfig} :
        Begin(r, stage, config)
  BY DEF SettingsRequest
<1>2. UnchangedButTask
  BY <1>1 DEF Begin, UnchangedButTask
<1>3. r \in Tasks /\ stage \in Stages
  BY DEF Tasks, Stages
<1> QED  BY <1>1, <1>2, <1>3, BeginTyped

LEMMA SavedRowTyped ==
  ASSUME SettingsTypeOK, RowVersion < MaxVersion, NEW config \in Configs \cup {InitialConfig}
  PROVE  /\ SavedRow(config) \in Settings
         /\ SavedRow(config) # NoRow
         /\ SavedRow(config).version = RowVersion + 1
<1>1. RowVersion \in Nat /\ RowVersion + 1 \in 0..MaxVersion
  BY RowVersionTyped, SettingsAssumption
<1> QED  BY <1>1, SettingsAssumption DEF SavedRow, Settings

LEMMA StageAfter ==
  /\ After("stt") = "summary" /\ After("summary") = "action_items"
  /\ After("action_items") = "tts"
  /\ \A service \in Services \ {"tts"} : After(service) \in Services
BY DEF After, Services

LEMMA ApplyTyped ==
  ASSUME SettingsTypeOK, NEW r \in Tasks, Apply(r)
  PROVE  SettingsTypeOK'
<1> DEFINE service == task[r].stage
<1>1. service \in Services /\ current.config \in Configs \cup {InitialConfig}
  BY DEF Apply, SettingsTypeOK, Settings
<1>2. applied' \in [Services -> Configs \cup {InitialConfig}]
  BY <1>1 DEF Apply, SettingsTypeOK
<1>3. current.version \in 0..MaxVersion
  BY DEF SettingsTypeOK, Settings
<1>4. task' \in [Tasks -> [stage : Stages, config : Configs \cup {InitialConfig}]]
  <2>1. CASE service = "tts"
    BY <2>1, FinishTyped DEF Apply
  <2>2. CASE service # "tts"
    <3>1. After(service) \in Stages
      BY <1>1, <2>2, StageAfter DEF Stages
    <3> QED  BY <2>2, <3>1, GotoTyped DEF Apply
  <2> QED  BY <2>1, <2>2
<1>5. lock' \in Requests \cup {Boot, Free} /\ accepted' \in 0..MaxVersion
  BY <1>3 DEF Apply, SettingsTypeOK
<1>6. UNCHANGED <<stored, current, booted, doubtful>>
  BY DEF Apply
<1> QED  BY <1>2, <1>4, <1>5, <1>6 DEF SettingsTypeOK, Tasks

LEMMA StoredOrInitialTyped ==
  ASSUME SettingsTypeOK
  PROVE  /\ StoredOrInitial \in Settings
         /\ StoredOrInitial.version = RowVersion
         /\ stored = NoRow \/ StoredOrInitial = stored
BY FromEnvironmentTyped DEF StoredOrInitial, SettingsTypeOK, RowVersion, FromEnvironment

LEMMA BootTyped ==
  ASSUME SettingsTypeOK, Load \/ Install \/ Apply(Boot)
  PROVE  SettingsTypeOK'
<1>1. Boot \in Tasks /\ "install" \in Stages /\ "stt" \in Stages
  BY DEF Tasks, Stages, Services
<1>2. CASE Load
  BY <1>1, <1>2, GotoTyped DEF Load, SettingsTypeOK, Tasks
<1>3. CASE Install
  <2>1. task' \in [Tasks -> [stage : Stages, config : Configs \cup {InitialConfig}]]
    BY <1>1, <1>3, GotoTyped DEF Install
  <2> QED  BY <1>3, <2>1, StoredOrInitialTyped DEF Install, SettingsTypeOK, Tasks
<1>4. CASE Apply(Boot)
  BY <1>1, <1>4, ApplyTyped
<1> QED  BY <1>2, <1>3, <1>4

LEMMA StepTyped ==
  ASSUME SettingsTypeOK, NEW r \in Requests, SettingsStep(r)
  PROVE  SettingsTypeOK'
<1>1. r \in Tasks /\ "save" \in Stages /\ "stt" \in Stages
  BY DEF Tasks, Stages, Services
<1>2. CASE Current(r) \/ Test(r)
  BY <1>1, <1>2, FinishTyped DEF Current, Test, SettingsTypeOK, Tasks
<1>3. CASE Update(r)
  <2>1. task' \in [Tasks -> [stage : Stages, config : Configs \cup {InitialConfig}]]
    BY <1>1, <1>3, GotoTyped, FinishTyped DEF Update
  <2> QED  BY <1>3, <2>1 DEF Update, SettingsTypeOK, Tasks
<1>4. task[r].config \in Configs \cup {InitialConfig}
  BY <1>1 DEF SettingsTypeOK, Tasks
<1>5. CASE Save(r)
  <2>1. task' \in [Tasks -> [stage : Stages, config : Configs \cup {InitialConfig}]]
    BY <1>1, <1>5, GotoTyped DEF Save
  <2>2. stored' \in Settings /\ current' \in Settings
    BY <1>4, <1>5, SavedRowTyped DEF Save
  <2> QED  BY <1>5, <2>1, <2>2 DEF Save, SettingsTypeOK, Tasks
<1>6. CASE SaveFails(r)
  <2>1. task' \in [Tasks -> [stage : Stages, config : Configs \cup {InitialConfig}]]
    BY <1>1, <1>6, FinishTyped DEF SaveFails
  <2>2. stored' \in Settings \cup {NoRow} /\ doubtful' \in BOOLEAN
    BY <1>4, <1>6, SavedRowTyped DEF SaveFails, SettingsTypeOK
  <2> QED  BY <1>6, <2>1, <2>2 DEF SaveFails, ReleaseLock, SettingsTypeOK, Tasks
<1>7. CASE Apply(r)
  BY <1>1, <1>7, ApplyTyped
<1> QED  BY <1>2, <1>3, <1>5, <1>6, <1>7 DEF SettingsStep

LEMMA EffectTyped ==
  ASSUME SettingsTypeOK, SettingsEffect
  PROVE  SettingsTypeOK'
<1>1. CASE UNCHANGED settingsVars
  BY <1>1 DEF settingsVars, SettingsTypeOK
<1>2. CASE ForgetSettings
  <2>1. Resting \in [stage : Stages, config : Configs \cup {InitialConfig}]
    BY DEF Resting, Stages
  <2> QED  BY <1>2, <2>1, FromEnvironmentTyped DEF ForgetSettings, SettingsTypeOK
<1>3. CASE Goto(Boot, "load") /\ UnchangedButTask
  <2>1. Boot \in Tasks /\ "load" \in Stages
    BY DEF Tasks, Stages
  <2> QED  BY <1>3, <2>1, GotoTyped DEF UnchangedButTask, SettingsTypeOK, Tasks
<1>4. CASE Load \/ Install \/ Apply(Boot)
  BY <1>4, BootTyped
<1>5. CASE \E r \in Requests : SettingsRequest(r)
  BY <1>5, RequestBegins DEF UnchangedButTask, SettingsTypeOK, Tasks
<1>6. CASE \E r \in Requests : SettingsStep(r)
  BY <1>6, StepTyped
<1> QED  BY <1>1, <1>2, <1>3, <1>4, <1>5, <1>6 DEF SettingsEffect

LEMMA ReportTyped ==
  ASSUME errs \in 0..ErrCapacity
  PROVE  /\ Report => errs' \in 0..ErrCapacity
         /\ errs > 0 => errs - 1 \in 0..ErrCapacity
BY DEF Report, ErrCapacity

\* The part of the type invariant that is not about the settings.
RunTypeOK ==
  /\ run \in RunStages
  /\ cancelled \in BOOLEAN /\ mode \in {"off", "external", "embedded"}
  /\ stores \subseteq StartupStores
  /\ broker \in {"none", "starting", "failed", "listening", "serving", "closed"}
  /\ mqtt \in {"none", "connecting", "subscribing", "running", "deaf", "done"}
  /\ control \in {"none", "handling"}
  /\ udp \in {"none", "binding", "listening", "handling", "handling_last", "done"}
  /\ http \in {"none", "binding", "accepting", "done"}
  /\ errs \in 0..ErrCapacity
  /\ analysis \in {"none", "open", "closed"}

\* The part about the finals that the analysis runtime holds.
QueueTypeOK ==
  /\ backlog \in 0..MaxBacklog /\ waiting \in BOOLEAN
  /\ waiting => backlog > 0

LEMMA DeadTyped ==
  ASSUME RunTypeOK, Dead
  PROVE  RunTypeOK'
<1>1. stores' \subseteq StartupStores /\ errs' \in 0..ErrCapacity
  BY DEF Dead, ErrCapacity
<1>2. UNCHANGED mode /\ cancelled' = FALSE
  BY DEF Dead
<1> QED  BY <1>1, <1>2 DEF queueVars, RunTypeOK, Dead, RunStages

LEMMA RunTyped ==
  ASSUME RunTypeOK, RunStep \/ Start \/ Cancel \/ Crash
  PROVE  RunTypeOK'
<1>1. CASE PrepareFails \/ BrokerTimeout \/ StopOnSignal \/ CloseReturns
  BY <1>1 DEF PrepareFails, BrokerTimeout, StopOnSignal, CloseReturns, OnlyRun, queueVars, RunTypeOK, RunStages
<1>2. CASE PrepareUsers \/ PrepareSessions \/ PrepareMeetings \/ CloseAdmin
  BY <1>2 DEF PrepareUsers, PrepareSessions, PrepareMeetings, CloseAdmin, OnlyRun, queueVars, RunTypeOK,
              RunStages, StartupStores
<1>3. CASE Bootstrapping
  <2>1. run' \in {"list_users", run} /\ stores' \in {stores, stores \cup {"settings"}}
    BY <1>3 DEF Bootstrapping
  <2>2. UNCHANGED <<cancelled, mode, errs, queueVars>> /\ ComponentsUnchanged
    BY <1>3 DEF Bootstrapping, queueVars
  <2> QED  BY <2>1, <2>2 DEF ComponentsUnchanged, queueVars, RunTypeOK, RunStages, StartupStores
<1>4. CASE StartBroker \/ StartComponents \/ CloseAnalysis \/ Cancel
  BY <1>4 DEF StartBroker, StartComponents, CloseAnalysis, Cancel, ComponentsUnchanged,
              queueVars, RunTypeOK, RunStages
<1>5. CASE StopOnError
  BY <1>5, ReportTyped DEF StopOnError, ComponentsUnchanged, queueVars, RunTypeOK, RunStages
<1>6. CASE Exit \/ Crash
  BY <1>6, DeadTyped DEF Exit, Crash
<1>7. CASE Start
  BY <1>7 DEF Start, ComponentsUnchanged, queueVars, RunTypeOK, RunStages
<1> QED  BY <1>1, <1>2, <1>3, <1>4, <1>5, <1>6, <1>7 DEF RunStep

LEMMA ComponentsTyped ==
  ASSUME RunTypeOK, ComponentMove
  PROVE  RunTypeOK'
<1>1. CASE BrokerListens \/ BrokerFails \/ BrokerServes \/ BrokerServeFails \/ BrokerCloses
  BY <1>1, ReportTyped DEF BrokerListens, BrokerFails, BrokerServes, BrokerServeFails, BrokerCloses, BrokerGoes, RunUnchanged, queueVars, RunTypeOK
<1>2. CASE Connect \/ Subscribe \/ MqttStops \/ Reconnect
  BY <1>2, ReportTyped DEF Connect, Subscribe, MqttStops, Reconnect, MqttGoes, MqttFails,
                           RunUnchanged, queueVars, RunTypeOK
<1>3. CASE Handled \/ ControlFails \/ Deliver
  BY <1>3, ReportTyped, DeadTyped DEF Handled, ControlFails, Deliver, RunUnchanged, queueVars, RunTypeOK
<1>4. CASE BindUdp \/ CloseSocket \/ ReceivePacket \/ ReadFails
  BY <1>4, ReportTyped DEF BindUdp, CloseSocket, ReceivePacket, ReadFails, UdpGoes, RunUnchanged,
                           queueVars, RunTypeOK
<1>6. CASE PacketHandled
  <2>1. CASE Dead
    BY <2>1, DeadTyped
  <2>2. CASE UdpGoes(IF udp = "handling" THEN "listening" ELSE "done") /\ UNCHANGED errs
    BY <2>2 DEF UdpGoes, RunUnchanged, queueVars, RunTypeOK
  <2> QED  BY <1>6, <2>1, <2>2 DEF PacketHandled
<1>5. CASE BindHttp \/ Shutdown \/ AcceptFails
  BY <1>5, ReportTyped DEF BindHttp, Shutdown, AcceptFails, HttpGoes, RunUnchanged, queueVars, RunTypeOK
<1>7. CASE LoopPublishes \/ Acknowledged
  BY <1>7 DEF LoopPublishes, Acknowledged, QueueOnly, ComponentsUnchanged, queueVars, RunTypeOK
<1> QED  BY <1>1, <1>2, <1>3, <1>4, <1>5, <1>6, <1>7 DEF ComponentStep, ComponentMove

LEMMA QueueMoves ==
  ASSUME [AppNext]_appVars
  PROVE  \/ UNCHANGED <<backlog, waiting>>
         \/ backlog' = 0 /\ waiting' = FALSE
         \/ Handled \/ LoopPublishes \/ Acknowledged
<1>1. CASE RunStep \/ Start \/ Cancel
  BY <1>1 DEF RunStep, PrepareFails, Bootstrapping, PrepareUsers, PrepareSessions, PrepareMeetings,
              StartBroker, StartComponents, BrokerTimeout, StopOnError, StopOnSignal, CloseAnalysis,
              CloseReturns, CloseAdmin, Exit, Dead, Start, Cancel, OnlyRun, queueVars
<1>2. CASE BrokerListens \/ BrokerFails \/ BrokerServes \/ BrokerServeFails \/ BrokerCloses
  BY <1>2 DEF BrokerListens, BrokerFails, BrokerServes, BrokerServeFails, BrokerCloses, BrokerGoes,
              RunUnchanged, queueVars
<1>3. CASE Connect \/ Subscribe \/ MqttStops \/ Reconnect
  BY <1>3 DEF Connect, Subscribe, MqttStops, Reconnect, MqttGoes, MqttFails, RunUnchanged, queueVars
<1>4. CASE ControlFails \/ Deliver
  BY <1>4 DEF ControlFails, Deliver, RunUnchanged, queueVars
<1>5. CASE BindUdp \/ PacketHandled \/ CloseSocket \/ ReceivePacket \/ ReadFails
  BY <1>5 DEF BindUdp, PacketHandled, CloseSocket, ReceivePacket, ReadFails, UdpGoes, Dead,
              RunUnchanged, queueVars
<1>6. CASE BindHttp \/ Shutdown \/ AcceptFails
  BY <1>6 DEF BindHttp, Shutdown, AcceptFails, HttpGoes, RunUnchanged, queueVars
<1>7. CASE Crash
  BY <1>7 DEF Crash, Dead
<1>8. CASE (\E r \in Requests : Request(r) \/ Serve(r)) \/ UNCHANGED appVars
  BY <1>8 DEF Request, Serve, appVars, runVars, queueVars
<1> QED  BY <1>1, <1>2, <1>3, <1>4, <1>5, <1>6, <1>7, <1>8 DEF AppNext, ComponentStep

LEMMA QueueTyped ==
  ASSUME QueueTypeOK, [AppNext]_appVars
  PROVE  QueueTypeOK'
<1>1. backlog \in Nat /\ MaxBacklog \in Nat /\ backlog <= MaxBacklog
  BY LifecycleAssumption DEF QueueTypeOK
<1>2. CASE UNCHANGED <<backlog, waiting>>
  <2>1. backlog' = backlog /\ waiting' = waiting
    BY <1>2
  <2> QED  BY <2>1, Zenon DEF QueueTypeOK
<1>3. CASE backlog' = 0 /\ waiting' = FALSE
  <2>1. backlog' \in 0..MaxBacklog
    BY <1>1, <1>3
  <2> QED  BY <1>3, <2>1, Zenon DEF QueueTypeOK
<1>4. CASE Handled
  <2>1. \/ UNCHANGED <<backlog, waiting>>
        \/ backlog' = 0 /\ waiting' = FALSE
        \/ backlog < MaxBacklog /\ backlog' = backlog + 1 /\ UNCHANGED waiting
    BY <1>4 DEF Handled, Dead
  <2>2. CASE backlog < MaxBacklog /\ backlog' = backlog + 1 /\ UNCHANGED waiting
    <3>1. backlog' \in 0..MaxBacklog /\ backlog' > 0
      BY <1>1, <2>2
    <3>2. waiting' \in BOOLEAN
      BY <2>2, Zenon DEF QueueTypeOK
    <3> QED  BY <3>1, <3>2, Zenon DEF QueueTypeOK
  <2> QED  BY <1>2, <1>3, <2>1, <2>2
<1>5. CASE LoopPublishes \/ Acknowledged
  <2>1. CASE waiting' = TRUE /\ UNCHANGED backlog /\ backlog > 0
    BY <1>1, <2>1 DEF QueueTypeOK
  <2>2. CASE waiting' = FALSE /\ backlog' = backlog - 1 /\ backlog > 0
    <3>1. backlog' \in 0..MaxBacklog
      BY <1>1, <2>2
    <3> QED  BY <2>2, <3>1, Zenon DEF QueueTypeOK
  <2>3. CASE ~waiting' /\ backlog' = backlog - 1 /\ backlog > 0 /\ UNCHANGED waiting
    <3>1. backlog' \in 0..MaxBacklog
      BY <1>1, <2>3
    <3>2. waiting' \in BOOLEAN
      <4>1. waiting' = waiting
        BY <2>3
      <4> QED  BY <4>1, Zenon DEF QueueTypeOK
    <3> QED  BY <2>3, <3>1, <3>2, Zenon DEF QueueTypeOK
  <2>4. CASE LoopPublishes
    <3>1. \/ waiting' = TRUE /\ UNCHANGED backlog
          \/ ~waiting' /\ backlog' = backlog - 1 /\ UNCHANGED waiting
      <4>1. \/ waiting' = TRUE /\ UNCHANGED backlog
            \/ ~waiting /\ backlog' = backlog - 1 /\ waiting' = waiting
        BY <2>4 DEF LoopPublishes
      <4> QED  BY <4>1, Zenon
    <3>2. backlog > 0
      BY <2>4 DEF LoopPublishes
    <3> QED  BY <2>1, <2>3, <3>1, <3>2
  <2>5. CASE Acknowledged
    <3>1. waiting' = FALSE /\ backlog' = backlog - 1 /\ waiting
      BY <2>5 DEF Acknowledged
    <3>2. backlog > 0
      BY <3>1 DEF QueueTypeOK
    <3> QED  BY <2>2, <3>1, <3>2
  <2> QED  BY <1>5, <2>4, <2>5
<1> QED  BY <1>2, <1>3, <1>4, <1>5, QueueMoves

LEMMA AppInitTyped == AppInit => AppTypeOK
<1>0. AppInit => backlog \in 0..MaxBacklog
  BY LifecycleAssumption DEF AppInit
<1>1. Resting \in [stage : Stages, config : Configs \cup {InitialConfig}]
  BY DEF Resting, Stages
<1>2. ASSUME SettingsInit
      PROVE  SettingsTypeOK
  <2>1. applied \in [Services -> Configs \cup {InitialConfig}]
    BY <1>2 DEF SettingsInit
  <2>2. task \in [Requests \cup {Boot} -> [stage : Stages, config : Configs \cup {InitialConfig}]]
    BY <1>1, <1>2 DEF SettingsInit
  <2>3. accepted \in 0..MaxVersion
    BY <1>2, SettingsAssumption DEF SettingsInit
  <2> QED  BY <1>2, <2>1, <2>2, <2>3, FromEnvironmentTyped DEF SettingsInit, SettingsTypeOK
<1>3. AppInit => mode \in {"off", "external", "embedded"}
  BY DEF AppInit
<1>4. AppInit => errs \in 0..ErrCapacity /\ stores \subseteq StartupStores
  BY DEF AppInit, ErrCapacity
<1> QED  BY <1>0, <1>2, <1>3, <1>4 DEF AppInit, AppTypeOK, RunStages

LEMMA AppStepTyped ==
  ASSUME AppTypeOK, [AppNext]_appVars
  PROVE  AppTypeOK'
<1>1. SettingsTypeOK'
  BY EveryEffect, EffectTyped DEF AppTypeOK
<1>2. RunTypeOK /\ QueueTypeOK
  BY DEF AppTypeOK, RunTypeOK, QueueTypeOK
<1>3. RunTypeOK'
  <2>1. CASE RunStep \/ Start \/ Cancel \/ Crash
    BY <1>2, <2>1, RunTyped
  <2>2. CASE ComponentMove
    BY <1>2, <2>2, ComponentsTyped
  <2>3. CASE (\E r \in Requests : Request(r) \/ Serve(r)) \/ UNCHANGED appVars
    BY <1>2, <2>3 DEF Request, Serve, runVars, appVars, queueVars, RunTypeOK
  <2> QED  BY <2>1, <2>2, <2>3 DEF AppNext, ComponentMove
<1>4. QueueTypeOK'
  BY <1>2, QueueTyped
<1> QED  BY <1>1, <1>3, <1>4 DEF AppTypeOK, RunTypeOK, QueueTypeOK

\* Every variable of the process keeps its type, whatever fails, stops or is
\* restarted (cmd/meeting-server/main.go, App.Run, admin.Service).
THEOREM AppTyped == AppSpec => []AppTypeOK
<1>1. AppTypeOK /\ [AppNext]_appVars => AppTypeOK'
  BY AppStepTyped
<1> QED  BY <1>1, AppInitTyped, PTL DEF AppSpec

\* Whatever saves fail and however often the process restarts, a version of the
\* settings is never used again for other settings (PostgresSettingsStore.Save).
THEOREM VersionsNeverReused == AppSpec => VersionsRise
<1>1. ASSUME AppTypeOK, [AppNext]_appVars
      PROVE  [stored' # stored => RowVersion' > RowVersion]_settingsVars
  <2>1. SettingsTypeOK /\ SettingsEffect
    BY <1>1, EveryEffect DEF AppTypeOK
  <2>2. RowVersion \in 0..MaxVersion
    BY <2>1, RowVersionTyped
  <2>3. ASSUME stored' # stored
        PROVE  \E r \in Requests : Save(r) \/ SaveFails(r)
    <3>1. CASE UNCHANGED settingsVars \/ ForgetSettings \/ UnchangedButTask
      BY <2>3, <3>1 DEF settingsVars, ForgetSettings, UnchangedButTask
    <3>2. CASE Load \/ Install \/ Apply(Boot)
      BY <2>3, <3>2 DEF Load, Install, Apply
    <3>3. CASE \E r \in Requests : SettingsRequest(r)
      BY <2>1, <2>3, <3>3, RequestBegins DEF UnchangedButTask
    <3>4. CASE \E r \in Requests : SettingsStep(r)
      BY <2>3, <3>4 DEF SettingsStep, Current, Test, Update, Apply
    <3> QED  BY <2>1, <3>1, <3>2, <3>3, <3>4 DEF SettingsEffect
  <2>4. ASSUME NEW r \in Requests, Save(r) \/ SaveFails(r), stored' # stored
        PROVE  RowVersion' > RowVersion
    <3>1. task[r].config \in Configs \cup {InitialConfig}
      BY <2>1 DEF SettingsTypeOK
    <3>2. RowVersion < MaxVersion /\ stored' = SavedRow(task[r].config)
      BY <2>4 DEF Save, SaveFails
    <3>3. stored' # NoRow /\ stored'.version = RowVersion + 1
      BY <2>1, <3>1, <3>2, SavedRowTyped
    <3>4. RowVersion' = RowVersion + 1
      BY <3>3 DEF RowVersion
    <3> QED  BY <2>2, <3>4, SettingsAssumption
  <2> QED  BY <2>3, <2>4
<1> QED  BY <1>1, AppTyped, PTL DEF AppSpec, VersionsRise

-----------------------------------------------------------------------------
(* The lock: only its holder saves and applies.                             *)

\* A goroutine other than r stays as it is, and so does everything but its task.
LEMMA LockMoves ==
  ASSUME SettingsTypeOK, LockInv, NEW r \in Tasks,
         \A q \in Tasks \ {r} : task'[q] = task[q],
         r = Boot => task'[r].stage \in {"idle", "load", "install"} \cup Services,
         \/ UNCHANGED lock /\ UNCHANGED booted /\ task[r].stage \in Holding /\ task'[r].stage \in Holding
         \/ UNCHANGED lock /\ UNCHANGED booted /\ task[r].stage \notin Holding /\ task'[r].stage \notin Holding
         \/ lock = Free /\ lock' = r /\ booted' /\ task'[r].stage \in Holding
         \/ lock = r /\ lock' = Free /\ UNCHANGED booted /\ task'[r].stage \notin Holding
  PROVE  LockInv'
<1>1. Free \notin Tasks /\ Boot \in Tasks /\ lock \in Tasks \cup {Free}
  BY SettingsAssumption DEF Tasks, SettingsTypeOK
<1>2. task'[Boot].stage \in {"idle", "load", "install"} \cup Services
  BY <1>1 DEF LockInv
<1>3. CASE UNCHANGED lock /\ UNCHANGED booted /\ (task[r].stage \in Holding <=> task'[r].stage \in Holding)
  <2>1. \A q \in Tasks : task'[q].stage \in Holding <=> task[q].stage \in Holding
    BY <1>3
  <2> QED  BY <1>1, <1>2, <1>3, <2>1 DEF LockInv
<1>4. CASE lock = Free /\ lock' = r /\ booted' /\ task'[r].stage \in Holding
  <2>1. \A q \in Tasks : task[q].stage \notin Holding
    BY <1>1, <1>4 DEF LockInv
  <2> QED  BY <1>1, <1>2, <1>4, <2>1 DEF LockInv
<1>5. CASE lock = r /\ lock' = Free /\ UNCHANGED booted /\ task'[r].stage \notin Holding
  <2>1. \A q \in Tasks \ {r} : task[q].stage \notin Holding
    BY <1>5 DEF LockInv
  <2>2. \A q \in Tasks : task'[q].stage \notin Holding
    BY <1>5, <2>1
  <2> QED  BY <1>2, <1>5, <2>2 DEF LockInv
<1> QED  BY <1>3, <1>4, <1>5

LEMMA LockKept ==
  ASSUME SettingsTypeOK, LockInv, BootInv, SettingsEffect
  PROVE  LockInv'
<1>0. Boot \in Tasks /\ Boot \notin Requests
  BY SettingsAssumption DEF Tasks
<1>1. CASE UNCHANGED settingsVars
  BY <1>1 DEF settingsVars, LockInv
<1>2. CASE ForgetSettings
  <2>1. \A q \in Tasks : task'[q].stage = "idle"
    BY <1>2 DEF ForgetSettings, Tasks, Resting
  <2> QED  BY <1>0, <1>2, <2>1 DEF ForgetSettings, LockInv, Holding, Services
<1>3. CASE run = "off" /\ Goto(Boot, "load") /\ UnchangedButTask
  <2>1. task[Boot].stage = "idle" /\ UNCHANGED lock /\ UNCHANGED booted
    BY <1>3 DEF BootInv, Late, UnchangedButTask
  <2>2. task'[Boot].stage = "load" /\ \A q \in Tasks \ {Boot} : task'[q] = task[q]
    BY <1>0, <1>3, GotoTyped DEF Stages
  <2> QED  BY <1>0, <2>1, <2>2, LockMoves DEF Holding, Services
<1>4. CASE Load
  <2>1. task'[Boot].stage = "install" /\ \A q \in Tasks \ {Boot} : task'[q] = task[q]
    BY <1>0, <1>4, GotoTyped DEF Load, Stages
  <2> QED  BY <1>0, <1>4, <2>1, LockMoves DEF Load, Holding, Services
<1>5. CASE Install
  <2>1. task'[Boot].stage = "stt" /\ \A q \in Tasks \ {Boot} : task'[q] = task[q]
    BY <1>0, <1>5, GotoTyped DEF Install, Stages, Services
  <2> QED  BY <1>0, <1>5, <2>1, LockMoves DEF Install, Holding, Services
<1>6. ASSUME NEW r \in Tasks, Apply(r)
      PROVE  LockInv'
  <2>1. task[r].stage \in Services /\ task[r].stage \in Holding /\ lock = r
    BY <1>6 DEF Apply, LockInv, Holding
  <2>2. CASE task[r].stage = "tts"
    <3>1. task'[r].stage = "idle" /\ \A q \in Tasks \ {r} : task'[q] = task[q]
      BY <1>6, <2>2, FinishTyped DEF Apply
    <3> QED  BY <1>6, <2>1, <2>2, <3>1, LockMoves DEF Apply, Holding, Services
  <2>3. CASE task[r].stage # "tts"
    <3>1. After(task[r].stage) \in Services /\ After(task[r].stage) \in Stages
      BY <2>1, <2>3, StageAfter DEF Stages
    <3>2. /\ task'[r].stage = After(task[r].stage)
          /\ \A q \in Tasks \ {r} : task'[q] = task[q]
      BY <1>6, <2>3, <3>1, GotoTyped DEF Apply
    <3> QED  BY <1>6, <2>1, <2>3, <3>1, <3>2, LockMoves DEF Apply, Holding
  <2> QED  BY <2>2, <2>3
<1>7. ASSUME NEW r \in Requests, SettingsRequest(r)
      PROVE  LockInv'
  BY <1>0, <1>7, RequestBegins, LockMoves DEF UnchangedButTask, Tasks, Holding, Services
<1>8. ASSUME NEW r \in Requests, SettingsStep(r)
      PROVE  LockInv'
  <2>0. r \in Tasks /\ r # Boot
    BY <1>0 DEF Tasks
  <2>1. CASE Current(r) \/ Test(r)
    <3>1. task'[r].stage = "idle" /\ \A q \in Tasks \ {r} : task'[q] = task[q]
      BY <2>0, <2>1, FinishTyped DEF Current, Test
    <3> QED  BY <2>0, <2>1, <3>1, LockMoves DEF Current, Test, Holding, Services
  <2>2. CASE Update(r)
    <3>1. CASE booted
      <4>1. task'[r].stage = "save" /\ \A q \in Tasks \ {r} : task'[q] = task[q]
        BY <2>0, <2>2, <3>1, GotoTyped DEF Update, Stages
      <4> QED  BY <2>0, <2>2, <3>1, <4>1, LockMoves DEF Update, Holding
    <3>2. CASE ~ booted
      <4>1. task'[r].stage = "idle" /\ \A q \in Tasks \ {r} : task'[q] = task[q]
        BY <2>0, <2>2, <3>2, FinishTyped DEF Update
      <4> QED  BY <2>0, <2>2, <3>2, <4>1, LockMoves DEF Update, Holding, Services
    <3> QED  BY <3>1, <3>2
  <2>3. CASE Save(r)
    <3>1. task'[r].stage = "stt" /\ \A q \in Tasks \ {r} : task'[q] = task[q]
      BY <2>0, <2>3, GotoTyped DEF Save, Stages, Services
    <3> QED  BY <2>0, <2>3, <3>1, LockMoves DEF Save, Holding, Services
  <2>4. CASE SaveFails(r)
    <3>1. task'[r].stage = "idle" /\ \A q \in Tasks \ {r} : task'[q] = task[q]
      BY <2>0, <2>4, FinishTyped DEF SaveFails
    <3>2. lock = r /\ lock' = Free /\ UNCHANGED booted
      BY <2>0, <2>4 DEF SaveFails, ReleaseLock, LockInv, Holding
    <3> QED  BY <2>0, <3>1, <3>2, LockMoves DEF Holding, Services
  <2> QED  BY <1>6, <1>8, <2>0, <2>1, <2>2, <2>3, <2>4 DEF SettingsStep
<1> QED  BY <1>0, <1>1, <1>2, <1>3, <1>4, <1>5, <1>6, <1>7, <1>8 DEF SettingsEffect

\* What the last stages hold back: every setter tells one service more.
LEMMA ToldMore ==
  /\ ToldBefore("save") = Services /\ ToldBefore("stt") = {}
  /\ \A service \in Services \ {"tts"} :
       ToldBefore(After(service)) = ToldBefore(service) \cup {service}
  /\ Services = ToldBefore("tts") \cup {"tts"}
BY DEF ToldBefore, After, Services

\* While the settings are left alone and the holder of the lock stays where it
\* is, nothing changes about who has been told.
LEMMA AgreeStays ==
  ASSUME SettingsTypeOK, LockInv, AgreeInv, AcceptInv,
         UNCHANGED <<stored, current, booted, applied, lock, accepted, doubtful>>,
         \A q \in Tasks : task[q].stage \in Holding \/ task'[q].stage \in Holding => task'[q].stage = task[q].stage
  PROVE  AgreeInv' /\ AcceptInv'
<1>1. UNCHANGED Told
  <2>1. lock # Free => lock \in Tasks /\ task[lock].stage \in Holding
    BY DEF SettingsTypeOK, LockInv, Tasks
  <2> QED  BY <2>1 DEF Told
<1>2. \A r \in Requests : task'[r].stage \in Services => task[r].stage \in Services
  BY DEF Tasks, Holding
<1>3. AgreeInv'
  BY <1>1, <1>2 DEF AgreeInv
<1> QED  BY <1>3 DEF AcceptInv, RowVersion

\* One setter of ApplyAIConfig, by the bootstrap or by a request.
LEMMA ApplyAgrees ==
  ASSUME SettingsTypeOK, LockInv, AgreeInv, AcceptInv, NEW r \in Tasks, Apply(r)
  PROVE  AgreeInv' /\ AcceptInv'
<1> DEFINE service == task[r].stage
<1>1. service \in Services /\ lock = r /\ booted /\ r # Free
  BY SettingsAssumption DEF Apply, LockInv, Holding, Tasks
<1>2. Told = ToldBefore(service)
  BY <1>1 DEF Told
<1>3. UNCHANGED <<stored, current, booted, doubtful>>
  BY DEF Apply
<1>4. applied' = [applied EXCEPT ![service] = current.config]
  BY DEF Apply
<1>5. \A s \in Told \cup {service} : applied'[s] = current'.config
  BY <1>1, <1>3, <1>4 DEF AgreeInv, SettingsTypeOK
<1>6. CASE service = "tts"
  <2>1. lock' = Free /\ task'[r].stage = "idle" /\ \A q \in Tasks \ {r} : task'[q] = task[q]
    BY <1>6, FinishTyped DEF Apply
  <2>2. Told' \subseteq Told \cup {service}
    BY <1>2, <1>6, <2>1, ToldMore DEF Told
  <2>3. \A q \in Requests : task'[q].stage \in Services => task[q].stage \in Services
    BY <1>1, <2>1 DEF Tasks
  <2>4. AgreeInv'
    BY <1>3, <1>5, <2>2, <2>3 DEF AgreeInv
  <2>5. accepted' \in {accepted, current.version} /\ (r = Boot => accepted' = accepted)
    BY <1>6 DEF Apply
  <2>6. r # Boot => current.version = RowVersion
    BY <1>1 DEF AgreeInv, RowVersion, Tasks
  <2>7. current.version \in Int
    BY DEF SettingsTypeOK, Settings
  <2> QED  BY <1>1, <1>3, <2>4, <2>5, <2>6, <2>7 DEF AcceptInv, RowVersion
<1>7. CASE service # "tts"
  <2>1. After(service) \in Services /\ After(service) \in Stages
    BY <1>1, <1>7, StageAfter DEF Stages
  <2>2. /\ task'[r].stage = After(service) /\ UNCHANGED <<lock, accepted>>
        /\ \A q \in Tasks \ {r} : task'[q] = task[q]
    BY <1>7, <2>1, GotoTyped DEF Apply
  <2>3. Told' \subseteq Told \cup {service}
    BY <1>1, <1>2, <1>7, <2>2, ToldMore DEF Told
  <2>4. \A q \in Requests : task'[q].stage \in Services => task[q].stage \in Services
    BY <1>1, <2>2 DEF Tasks
  <2>5. AgreeInv'
    BY <1>3, <1>5, <2>3, <2>4 DEF AgreeInv
  <2> QED  BY <1>3, <2>2, <2>5 DEF AcceptInv, RowVersion
<1> QED  BY <1>6, <1>7

LEMMA InstallAgrees ==
  ASSUME SettingsTypeOK, LockInv, AgreeInv, AcceptInv, Install
  PROVE  AgreeInv' /\ AcceptInv'
<1>1. Boot \in Tasks /\ Boot # Free /\ Free \notin Tasks
  BY SettingsAssumption DEF Tasks
<1>2. task'[Boot].stage = "stt" /\ \A q \in Tasks \ {Boot} : task'[q] = task[q]
  BY <1>1, GotoTyped DEF Install, Stages, Services
<1>3. Told' = {}
  BY <1>1, <1>2, ToldMore DEF Install, Told
<1>4. \A q \in Requests : task'[q].stage \notin Services
  BY <1>1, <1>2, SettingsAssumption DEF Install, LockInv, Holding, Tasks
<1>5. current' = StoredOrInitial /\ UNCHANGED <<stored, accepted>>
  BY DEF Install
<1>6. AgreeInv'
  BY <1>3, <1>4, <1>5, StoredOrInitialTyped DEF AgreeInv
<1> QED  BY <1>5, <1>6, StoredOrInitialTyped DEF AcceptInv, RowVersion

\* A save that succeeds puts the same settings into the row and into memory.
LEMMA SaveAgrees ==
  ASSUME SettingsTypeOK, LockInv, AgreeInv, AcceptInv, NEW r \in Requests, Save(r)
  PROVE  AgreeInv' /\ AcceptInv'
<1>1. r \in Tasks /\ lock = r /\ r # Free /\ booted
  BY SettingsAssumption DEF Save, LockInv, Holding, Tasks
<1>2. task'[r].stage = "stt" /\ \A q \in Tasks \ {r} : task'[q] = task[q]
  BY <1>1, GotoTyped DEF Save, Stages, Services
<1>3. task[r].config \in Configs \cup {InitialConfig}
  BY <1>1 DEF SettingsTypeOK, Tasks
<1>4. /\ stored' # NoRow /\ current' = stored' /\ stored'.version = RowVersion + 1
      /\ UNCHANGED <<accepted, lock>>
  BY <1>3, SavedRowTyped DEF Save
<1>5. Told' = {}
  BY <1>1, <1>2, <1>4, ToldMore DEF Told
<1>6. AgreeInv'
  BY <1>4, <1>5 DEF AgreeInv
<1>7. RowVersion' = RowVersion + 1 /\ RowVersion \in Int
  BY <1>4, RowVersionTyped DEF RowVersion
<1>8. accepted \in Int
  BY DEF SettingsTypeOK
<1> QED  BY <1>4, <1>6, <1>7, <1>8 DEF AcceptInv

\* A save that fails leaves memory alone; if it had committed, the row is ahead.
LEMMA SaveFailsAgrees ==
  ASSUME SettingsTypeOK, LockInv, AgreeInv, AcceptInv, NEW r \in Requests, SaveFails(r)
  PROVE  AgreeInv' /\ AcceptInv'
<1>1. r \in Tasks /\ lock = r /\ r # Free /\ booted
  BY SettingsAssumption DEF SaveFails, LockInv, Holding, Tasks
<1>2. task'[r].stage = "idle" /\ \A q \in Tasks \ {r} : task'[q] = task[q]
  BY <1>1, FinishTyped DEF SaveFails
<1>3. UNCHANGED <<current, booted, applied, accepted>> /\ lock' = Free
  BY DEF SaveFails, ReleaseLock
<1>4. Told = Services
  BY <1>1, ToldMore DEF Told, SaveFails
<1>5. \A q \in Requests : task'[q].stage \notin Services
  BY <1>1, <1>2 DEF LockInv, Holding, Tasks, Services
<1>6. \A service \in Told' : applied'[service] = current'.config
  BY <1>1, <1>3, <1>4 DEF AgreeInv, Told
<1>7. CASE UNCHANGED <<stored, doubtful>>
  BY <1>3, <1>5, <1>6, <1>7 DEF AgreeInv, AcceptInv, RowVersion
<1>8. CASE RowVersion < MaxVersion /\ stored' = SavedRow(task[r].config) /\ doubtful' = TRUE
  <2>1. task[r].config \in Configs \cup {InitialConfig}
    BY <1>1 DEF SettingsTypeOK, Tasks
  <2>2. RowVersion' = RowVersion + 1 /\ RowVersion \in Int
    BY <1>8, <2>1, SavedRowTyped, RowVersionTyped DEF RowVersion
  <2>3. accepted \in Int
    BY DEF SettingsTypeOK
  <2> QED  BY <1>3, <1>5, <1>6, <1>8, <2>2, <2>3 DEF AgreeInv, AcceptInv
<1> QED  BY <1>7, <1>8 DEF SaveFails

LEMMA AgreeKept ==
  ASSUME SettingsTypeOK, LockInv, AgreeInv, AcceptInv, BootInv, SettingsEffect
  PROVE  AgreeInv' /\ AcceptInv'
<1>0. Boot \in Tasks /\ Boot \notin Requests
  BY SettingsAssumption DEF Tasks
<1>1. CASE UNCHANGED settingsVars
  BY <1>1 DEF settingsVars, AgreeInv, AcceptInv, Told, RowVersion
<1>2. CASE ForgetSettings
  <2>1. \A q \in Requests : task'[q].stage \notin Services
    BY <1>2 DEF ForgetSettings, Resting, Services
  <2> QED  BY <1>2, <2>1 DEF ForgetSettings, AgreeInv, AcceptInv, RowVersion
<1>3. CASE run = "off" /\ Goto(Boot, "load") /\ UnchangedButTask
  <2>1. task'[Boot].stage = "load" /\ \A q \in Tasks \ {Boot} : task'[q] = task[q]
    BY <1>0, <1>3, GotoTyped DEF Stages
  <2>2. task[Boot].stage = "idle"
    BY <1>3 DEF BootInv, Late
  <2> QED  BY <1>3, <2>1, <2>2, AgreeStays DEF UnchangedButTask, Holding, Services
<1>4. CASE Load
  <2>1. task'[Boot].stage = "install" /\ \A q \in Tasks \ {Boot} : task'[q] = task[q]
    BY <1>0, <1>4, GotoTyped DEF Load, Stages
  <2> QED  BY <1>4, <2>1, AgreeStays DEF Load, Holding, Services
<1>5. CASE Install
  BY <1>5, InstallAgrees
<1>6. CASE Apply(Boot)
  BY <1>0, <1>6, ApplyAgrees
<1>7. ASSUME NEW r \in Requests, SettingsRequest(r)
      PROVE  AgreeInv' /\ AcceptInv'
  BY <1>7, RequestBegins, AgreeStays DEF UnchangedButTask, Tasks, Holding, Services
<1>8. ASSUME NEW r \in Requests, SettingsStep(r)
      PROVE  AgreeInv' /\ AcceptInv'
  <2>0. r \in Tasks
    BY DEF Tasks
  <2>1. CASE Current(r) \/ Test(r)
    <3>1. task'[r].stage = "idle" /\ \A q \in Tasks \ {r} : task'[q] = task[q]
      BY <2>0, <2>1, FinishTyped DEF Current, Test
    <3> QED  BY <2>0, <2>1, <3>1, AgreeStays DEF Current, Test, Holding, Services
  <2>2. CASE Update(r) /\ ~ booted
    <3>1. task'[r].stage = "idle" /\ \A q \in Tasks \ {r} : task'[q] = task[q]
      BY <2>0, <2>2, FinishTyped DEF Update
    <3> QED  BY <2>0, <2>2, <3>1, AgreeStays DEF Update, Holding, Services
  <2>3. CASE Update(r) /\ booted
    <3>1. task'[r].stage = "save" /\ \A q \in Tasks \ {r} : task'[q] = task[q]
      BY <2>0, <2>3, GotoTyped DEF Update, Stages
    <3>2. lock = Free /\ lock' = r /\ UNCHANGED <<stored, current, booted, applied, accepted, doubtful>>
      BY <2>3 DEF Update
    <3>3. Told = Services /\ Told' \subseteq Services
      BY <2>0, <3>1, <3>2, ToldMore, SettingsAssumption DEF Told, Tasks
    <3>4. \A q \in Requests : task'[q].stage \in Services => task[q].stage \in Services
      BY <2>0, <3>1 DEF Tasks, Services
    <3> QED  BY <3>2, <3>3, <3>4 DEF AgreeInv, AcceptInv, RowVersion
  <2> QED  BY <1>8, <2>0, <2>1, <2>2, <2>3, SaveAgrees, SaveFailsAgrees, ApplyAgrees DEF SettingsStep
<1> QED  BY <1>1, <1>2, <1>3, <1>4, <1>5, <1>6, <1>7, <1>8 DEF SettingsEffect

-----------------------------------------------------------------------------
(* Run: what it does before and after it serves.                            *)

\* The steps of Run that neither end the process nor touch settings or HTTP.
Advances ==
  /\ UNCHANGED <<settingsVars, http, udp>>
  /\ run' \notin {"off", "bootstrap"}
  /\ run \in Late => run' \in Late
  /\ run' \in {"drained", "closing", "closed"} => AllDone \/ run \in {"drained", "closing", "closed"}

LEMMA RunMoves ==
  ASSUME RunStep \/ Cancel \/ Crash
  PROVE  \/ Advances \/ Dead \/ Bootstrapping \/ StartComponents
         \/ Cancel
<1>1. CASE PrepareFails \/ PrepareUsers \/ PrepareSessions \/ PrepareMeetings \/ BrokerTimeout
  BY <1>1 DEF PrepareFails, PrepareUsers, PrepareSessions, PrepareMeetings, BrokerTimeout,
              OnlyRun, Advances, Late
<1>2. CASE StopOnSignal \/ CloseReturns \/ CloseAdmin \/ StartBroker
  BY <1>2 DEF StopOnSignal, CloseReturns, CloseAdmin, StartBroker, OnlyRun, Advances, Late
<1>3. CASE StopOnError \/ CloseAnalysis
  BY <1>3 DEF StopOnError, CloseAnalysis, ComponentsUnchanged, Advances, Late
<1> QED  BY <1>1, <1>2, <1>3 DEF RunStep, Exit, Crash

\* A component never comes back: HTTP serves only if Run started it, and what is
\* done stays done.
LEMMA ComponentMoves ==
  ASSUME ComponentMove
  PROVE  \/ Dead
         \/ /\ UNCHANGED <<settingsVars, run, stores>>
            /\ http = "none" => http' = "none"
            /\ http = "done" => http' = "done"
            /\ udp = "done" => udp' = "done"
<1>1. CASE BrokerListens \/ BrokerFails \/ BrokerServes \/ BrokerServeFails \/ BrokerCloses
  BY <1>1 DEF BrokerListens, BrokerFails, BrokerServes, BrokerServeFails, BrokerCloses, BrokerGoes, RunUnchanged
<1>2. CASE Connect \/ Subscribe \/ MqttStops \/ Reconnect
  BY <1>2 DEF Connect, Subscribe, MqttStops, Reconnect, MqttGoes, MqttFails, RunUnchanged
<1>3. CASE Handled \/ ControlFails \/ Deliver
  BY <1>3 DEF Handled, ControlFails, Deliver, RunUnchanged
<1>4. CASE BindUdp \/ CloseSocket \/ ReceivePacket \/ ReadFails
  BY <1>4 DEF BindUdp, CloseSocket, ReceivePacket, ReadFails, UdpGoes, RunUnchanged
<1>5. CASE PacketHandled
  BY <1>5 DEF PacketHandled, UdpGoes, RunUnchanged
<1>6. CASE BindHttp \/ Shutdown \/ AcceptFails
  BY <1>6 DEF BindHttp, Shutdown, AcceptFails, HttpGoes, RunUnchanged
<1>7. CASE LoopPublishes \/ Acknowledged
  BY <1>7 DEF LoopPublishes, Acknowledged, QueueOnly, ComponentsUnchanged
<1> QED  BY <1>1, <1>2, <1>3, <1>4, <1>5, <1>6, <1>7 DEF ComponentStep, ComponentMove

\* The bootstrap moves no request, and leaves the row alone.
LEMMA BootMoves ==
  ASSUME SettingsTypeOK, Load \/ Install \/ Apply(Boot)
  PROVE  /\ \A r \in Requests : task'[r] = task[r]
         /\ UNCHANGED stored
         /\ task'[Boot].stage = "idle" => booted' = booted /\ task[Boot].stage \in Services
<1>1. Boot \in Tasks /\ \A r \in Requests : r \in Tasks \ {Boot}
  BY SettingsAssumption DEF Tasks
<1>2. CASE Load
  BY <1>1, <1>2, GotoTyped DEF Load, Stages
<1>3. CASE Install
  BY <1>1, <1>3, GotoTyped DEF Install, Stages, Services
<1>4. CASE Apply(Boot)
  <2>1. CASE task[Boot].stage = "tts"
    BY <1>1, <1>4, <2>1, FinishTyped DEF Apply
  <2>2. CASE task[Boot].stage # "tts"
    <3>1. After(task[Boot].stage) \in Stages
      BY <1>4, <2>2, StageAfter DEF Apply, Stages
    <3> QED  BY <1>1, <1>4, <2>2, <3>1, GotoTyped DEF Apply
  <2> QED  BY <2>1, <2>2
<1> QED  BY <1>2, <1>3, <1>4

\* A request that takes a step has begun.
LEMMA StepIsOfARequest ==
  ASSUME SettingsTypeOK, NEW r \in Requests, SettingsStep(r)
  PROVE  task[r].stage # "idle" /\ UNCHANGED booted
BY DEF SettingsStep, Current, Test, Update, Save, SaveFails, Apply, Services

LEMMA BootKept ==
  ASSUME SettingsTypeOK, BootInv, [AppNext]_appVars
  PROVE  BootInv'
<1>1. ASSUME Dead
      PROVE  BootInv'
  <2>1. \A q \in Tasks : task'[q].stage = "idle"
    BY <1>1 DEF Dead, ForgetSettings, Resting, Tasks
  <2> QED  BY <1>1, <2>1 DEF Dead, ForgetSettings, BootInv, Late, Tasks
<1>2. CASE Advances
  BY <1>2 DEF Advances, BootInv, Late, settingsVars
<1>3. CASE Cancel
  BY <1>3 DEF Cancel, BootInv, Late, settingsVars
<1>4. CASE StartComponents
  BY <1>4 DEF StartComponents, BootInv, Late
<1>5. CASE Bootstrapping
  <2>1. run = "bootstrap" /\ (Load \/ Install \/ Apply(Boot)) /\ UNCHANGED http
    BY <1>5 DEF Bootstrapping, ComponentsUnchanged
  <2>2. IF task'[Boot].stage = "idle" THEN run' = "list_users" ELSE run' = run
    BY <1>5 DEF Bootstrapping
  <2> QED  BY <2>1, <2>2, BootMoves DEF BootInv, Late
<1>6. CASE Start
  <2>1. task'[Boot].stage = "load" /\ \A q \in Tasks \ {Boot} : task'[q] = task[q]
    BY <1>6, GotoTyped DEF Start, Stages, Tasks
  <2> QED  BY <1>6, <2>1, SettingsAssumption DEF Start, ComponentsUnchanged, BootInv, Late, Tasks
<1>7. CASE ComponentMove
  BY <1>1, <1>7, ComponentMoves DEF BootInv, Late, settingsVars
<1>8. ASSUME NEW r \in Requests, Request(r) \/ Serve(r)
      PROVE  BootInv'
  <2>1. http = "accepting" \/ task[r].stage # "idle"
    BY <1>8, StepIsOfARequest DEF Request, Serve
  <2>2. run \in Late /\ UNCHANGED run
    BY <1>8, <2>1 DEF Request, Serve, runVars, BootInv, Late
  <2> QED  BY <2>2 DEF BootInv, Late
<1>9. CASE UNCHANGED appVars
  BY <1>9 DEF appVars, settingsVars, runVars, BootInv, Late
<1> QED  BY <1>1, <1>2, <1>3, <1>4, <1>5, <1>6, <1>7, <1>8, <1>9, RunMoves DEF AppNext, ComponentMove

LEMMA SettingsInvInit == AppInit => SettingsInv /\ BootInv
<1> SUFFICES ASSUME AppInit
             PROVE  SettingsInv /\ BootInv
  OBVIOUS
<1>1. \A q \in Tasks : task[q].stage = "idle"
  BY DEF AppInit, SettingsInit, Resting, Tasks
<1>2. Boot \in Tasks /\ Requests \subseteq Tasks
  BY DEF Tasks
<1>3. LockInv
  BY <1>1, <1>2 DEF AppInit, SettingsInit, LockInv, Holding, Services
<1>4. AgreeInv /\ AcceptInv
  BY <1>1, <1>2 DEF AppInit, SettingsInit, AgreeInv, AcceptInv, RowVersion, Services
<1> QED  BY <1>1, <1>2, <1>3, <1>4 DEF AppInit, SettingsInit, SettingsInv, BootInv, Late

\* The inductive invariant of the settings holds in every behaviour.
LEMMA SettingsInvHolds == AppSpec => [](AppTypeOK /\ SettingsInv /\ BootInv)
<1>1. ASSUME AppTypeOK, SettingsInv, BootInv, [AppNext]_appVars
      PROVE  SettingsInv' /\ BootInv'
  <2>1. SettingsTypeOK /\ SettingsEffect
    BY <1>1, EveryEffect DEF AppTypeOK
  <2> QED  BY <1>1, <2>1, LockKept, AgreeKept, BootKept DEF SettingsInv
<1> QED  BY <1>1, SettingsInvInit, AppTyped, PTL DEF AppSpec

\* Once nobody is changing the settings, the services, the copy in memory and
\* the row agree, unless a save that was reported as failed had committed
\* (Service.Update, App.ApplyAIConfig).
THEOREM SettingsAlwaysAgree == AppSpec => []SettingsAgree
<1>1. SettingsInv => SettingsAgree
  BY DEF SettingsInv, AgreeInv, Told, SettingsAgree
<1> QED  BY <1>1, SettingsInvHolds, PTL

\* Settings a client was told were saved stay in force until later ones replace
\* them: in the row at any time, in memory whenever the process is up.
THEOREM AcceptedStaysInForce == AppSpec => []NothingAcceptedIsLost
<1>1. SettingsInv => NothingAcceptedIsLost
  BY DEF SettingsInv, AcceptInv, NothingAcceptedIsLost
<1> QED  BY <1>1, SettingsInvHolds, PTL

\* The row that Bootstrap reads without the lock is still the row when it
\* installs it, for any number of requests and through every restart.
THEOREM BootstrapReadsTheLatest == AppSpec => RowStaysWhileBooting
<1>1. ASSUME AppTypeOK, BootInv, [AppNext]_appVars
      PROVE  [run = "bootstrap" => stored' = stored]_appVars
  <2> SUFFICES ASSUME run = "bootstrap"
               PROVE  stored' = stored
    OBVIOUS
  <2>1. SettingsTypeOK /\ SettingsEffect
    BY <1>1, EveryEffect DEF AppTypeOK
  <2>2. CASE UNCHANGED settingsVars \/ ForgetSettings \/ UnchangedButTask
    BY <2>2 DEF settingsVars, ForgetSettings, UnchangedButTask
  <2>3. CASE Load \/ Install \/ Apply(Boot)
    BY <2>1, <2>3, BootMoves
  <2>4. ~ \E r \in Requests : SettingsRequest(r) /\ http = "accepting"
    BY <1>1 DEF BootInv, Late
  <2>5. ~ \E r \in Requests : SettingsStep(r)
    BY <1>1, <2>1, StepIsOfARequest DEF BootInv, Late
  <2> QED  BY <2>1, <2>2, <2>3, <2>4, <2>5 DEF SettingsEffect
<1> QED  BY <1>1, SettingsInvHolds, PTL DEF AppSpec, RowStaysWhileBooting

\* Run advances in the order of its code, one preparation after the other.
LEMMA ReadyKept ==
  ASSUME SettingsTypeOK, LockInv, ReadyInv, stores \subseteq StartupStores, [AppNext]_appVars
  PROVE  ReadyInv'
<1>1. CASE Dead
  BY <1>1 DEF Dead, ReadyInv
<1>2. CASE PrepareFails \/ BrokerTimeout \/ StopOnSignal \/ CloseReturns \/ CloseAdmin
  BY <1>2 DEF PrepareFails, BrokerTimeout, StopOnSignal, CloseReturns, CloseAdmin, OnlyRun, ReadyInv
<1>3. CASE PrepareUsers \/ PrepareSessions \/ PrepareMeetings
  <2>1. UNCHANGED booted
    BY <1>3 DEF PrepareUsers, PrepareSessions, PrepareMeetings, OnlyRun, settingsVars
  <2>2. CASE PrepareUsers
    BY <2>1, <2>2 DEF PrepareUsers, OnlyRun, ReadyInv, PreparedBy
  <2>3. CASE PrepareSessions
    BY <2>1, <2>3 DEF PrepareSessions, OnlyRun, ReadyInv, PreparedBy, StartupStores
  <2>4. CASE PrepareMeetings
    BY <2>1, <2>4 DEF PrepareMeetings, OnlyRun, ReadyInv, PreparedBy, StartupStores
  <2> QED  BY <1>3, <2>2, <2>3, <2>4
<1>4. CASE StopOnError \/ CloseAnalysis \/ Start
  BY <1>4 DEF StopOnError, CloseAnalysis, Start, ReadyInv
<1>5. CASE StartBroker \/ StartComponents
  BY <1>5 DEF StartBroker, StartComponents, BrokerReady, ReadyInv, PreparedBy, settingsVars
<1>6. CASE Cancel
  BY <1>6 DEF Cancel, ReadyInv, settingsVars
<1>7. CASE Bootstrapping
  <2>1. run = "bootstrap" /\ (Load \/ Install \/ Apply(Boot))
    BY <1>7 DEF Bootstrapping
  <2>2. IF task'[Boot].stage = "idle"
          THEN run' = "list_users" /\ stores' = stores \cup {"settings"} ELSE run' = run
    BY <1>7 DEF Bootstrapping
  <2>3. task'[Boot].stage = "idle" => booted'
    BY <2>1, BootMoves DEF LockInv, Holding, Tasks
  <2> QED  BY <2>1, <2>2, <2>3 DEF ReadyInv, PreparedBy
<1>8. CASE ComponentMove
  BY <1>1, <1>8, ComponentMoves DEF ReadyInv, settingsVars
<1>9. ASSUME NEW r \in Requests, Request(r) \/ Serve(r)
      PROVE  ReadyInv'
  <2>1. UNCHANGED booted
    BY <1>9, RequestBegins, StepIsOfARequest DEF Request, Serve, UnchangedButTask
  <2> QED  BY <1>9, <2>1 DEF Request, Serve, runVars, ReadyInv
<1>10. CASE UNCHANGED appVars
  BY <1>10 DEF appVars, settingsVars, runVars, ReadyInv
<1> QED  BY <1>1, <1>2, <1>3, <1>4, <1>5, <1>6, <1>7, <1>8, <1>9, <1>10 DEF AppNext, ComponentMove, RunStep, Exit, Crash

\* A component takes traffic only when the settings are installed and every
\* store has its schema (the order of App.Run).
THEOREM ReadyBeforeServing == AppSpec => []ServesOnlyWhenReady
<1>1. AppInit => ReadyInv
  BY DEF AppInit, ReadyInv
<1>2. ASSUME AppTypeOK, SettingsInv, ReadyInv, [AppNext]_appVars
      PROVE  ReadyInv'
  BY <1>2, ReadyKept DEF AppTypeOK, SettingsInv
<1>3. AppTypeOK /\ ReadyInv => ServesOnlyWhenReady
  BY DEF AppTypeOK, ReadyInv, PreparedBy, ServesOnlyWhenReady
<1> QED  BY <1>1, <1>2, <1>3, SettingsInvHolds, PTL DEF AppSpec

\* After a signal the analysis runtime is closed only when no packet is being
\* handled and none can come (the wait group of App.Run).
THEOREM ClosedAfterThePumps == AppSpec => []NoPacketAfterClose
<1>1. AppInit => NoPacketAfterClose
  BY DEF AppInit, NoPacketAfterClose
<1>2. ASSUME NoPacketAfterClose, [AppNext]_appVars
      PROVE  NoPacketAfterClose'
  <2>1. CASE Dead
    BY <2>1 DEF Dead, NoPacketAfterClose
  <2>2. CASE Advances
    BY <1>2, <2>2 DEF Advances, AllDone, NoPacketAfterClose
  <2>3. CASE Cancel
    BY <1>2, <2>3 DEF Cancel, NoPacketAfterClose
  <2>4. CASE StartComponents \/ Start
    BY <2>4 DEF StartComponents, Start, NoPacketAfterClose
  <2>5. CASE Bootstrapping
    BY <2>5 DEF Bootstrapping, NoPacketAfterClose
  <2>6. CASE ComponentMove
    BY <1>2, <2>1, <2>6, ComponentMoves DEF NoPacketAfterClose
  <2>7. CASE (\E r \in Requests : Request(r) \/ Serve(r)) \/ UNCHANGED appVars
    BY <1>2, <2>7 DEF Request, Serve, runVars, appVars, NoPacketAfterClose
  <2> QED  BY <1>2, <2>1, <2>2, <2>3, <2>4, <2>5, <2>6, <2>7, RunMoves DEF AppNext, ComponentMove
<1> QED  BY <1>1, <1>2, PTL DEF AppSpec

=============================================================================
