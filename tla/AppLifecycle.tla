---------------------------- MODULE AppLifecycle ----------------------------
(***************************************************************************)
(* Start, run and stop of the process: cmd/meeting-server/main.go,         *)
(* App.Run and runHTTPServer of internal/app/app.go, the run loops of the  *)
(* MQTT runtime, the embedded broker and the UDP server, and, through      *)
(* AdminSettings, the settings that Run bootstraps and requests change.    *)
(*                                                                         *)
(* Run prepares the stores one after the other, starts its components as   *)
(* goroutines and waits for the first error or for a signal.  A signal is  *)
(* answered by waiting for all components, closing the analysis runtime    *)
(* and then the database pools; an error closes the analysis runtime at    *)
(* once.  The close waits until the runtime's loop has published what it   *)
(* holds.  Then main returns and the process is gone; it may also be       *)
(* killed at any time and started again.                                   *)
(***************************************************************************)
EXTENDS AdminSettings

CONSTANTS
  Focuses,    \* what clients do: "settings" requests, "transports" traffic
  MaxBacklog  \* bound: final analyses waiting at once

ASSUME LifecycleAssumption == MaxBacklog \in Nat

VARIABLES
  run,        \* where App.Run is
  cancelled,  \* the signal context is done
  mode,       \* how MQTT is configured: off, a broker elsewhere, or embedded
  stores,     \* stores whose schema this process has prepared
  broker,     \* the embedded broker
  mqtt,       \* Runtime.Run of the MQTT runtime
  control,    \* its message callback, in a goroutine of the MQTT client
  udp,        \* UDPServer.ListenAndServe
  http,       \* runHTTPServer
  errs,       \* errors waiting in errCh
  analysis,   \* the analysis runtime
  backlog,    \* the jobs it holds whose result goes out at QoS 1: the finals
  waiting,    \* its loop waits for the broker to take one of them
  focus       \* which inputs this behaviour has

queueVars == <<analysis, backlog, waiting>>
runVars == <<run, cancelled, mode, stores, broker, mqtt, control, udp, http,
             errs, queueVars, focus>>
appVars == <<settingsVars, runVars>>

ErrCapacity == 2   \* errCh := make(chan error, 2)
StartupStores == {"settings", "users", "sessions", "meetings"}

RunStages == {"off", "bootstrap", "list_users", "ensure_sessions", "list_meetings",
              "start", "wait_broker", "serving", "drained", "closing", "closed",
              "closing_on_error", "returned"}

-----------------------------------------------------------------------------
(* Helpers *)

OnlyRun(stage) ==
  /\ run' = stage
  /\ UNCHANGED <<settingsVars, cancelled, mode, broker, mqtt, control, udp, http,
                 errs, queueVars, focus>>

\* Fault: errors are queued without end.
ReportAlways == errs' = errs + 1

\* runComponent reports an error unless errCh is full or it is the cancellation.
Report == errs' = IF errs < ErrCapacity THEN errs + 1 ELSE errs

ComponentsUnchanged == UNCHANGED <<broker, mqtt, control, udp, http>>
RunUnchanged == UNCHANGED <<run, cancelled, mode, stores, queueVars, focus>>

Dead ==
  /\ run' = "off"
  /\ cancelled' = FALSE
  /\ stores' = {}
  /\ broker' = "none" /\ mqtt' = "none" /\ control' = "none"
  /\ udp' = "none" /\ http' = "none"
  /\ errs' = 0
  /\ analysis' = "none" /\ backlog' = 0 /\ waiting' = FALSE
  /\ ForgetSettings
  /\ UNCHANGED <<mode, focus>>

-----------------------------------------------------------------------------
(* Start: App.Run up to the components *)

\* main builds the application and calls Run, which begins with Bootstrap.
Start ==
  /\ run = "off"
  /\ run' = "bootstrap"
  /\ analysis' = "open"
  /\ Goto(Boot, "load")
  /\ UNCHANGED <<stored, current, booted, applied, lock, accepted, doubtful,
                 cancelled, mode, stores, focus, errs, backlog, waiting>>
  /\ ComponentsUnchanged

\* A failing store ends Run before anything was started.
PrepareFails ==
  /\ \/ run = "bootstrap" /\ task[Boot].stage = "load"
     \/ run \in {"list_users", "ensure_sessions", "list_meetings"}
  /\ OnlyRun("returned")
  /\ UNCHANGED stores

Bootstrapping ==
  /\ run = "bootstrap"
  /\ Load \/ Install \/ Apply(Boot)
  /\ IF task'[Boot].stage = "idle"
     THEN run' = "list_users" /\ stores' = stores \cup {"settings"}
     ELSE UNCHANGED <<run, stores>>
  /\ UNCHANGED <<cancelled, mode, errs, queueVars, focus>>
  /\ ComponentsUnchanged

\* UserService.List reads the users and then all meetings.
PrepareUsers ==
  /\ run = "list_users"
  /\ stores' = stores \cup {"users", "meetings"}
  /\ OnlyRun("ensure_sessions")

\* Fault: the session store is left to the first login.
SkipSessions ==
  /\ run = "ensure_sessions"
  /\ OnlyRun("list_meetings")
  /\ UNCHANGED stores

PrepareSessions ==
  /\ run = "ensure_sessions"
  /\ stores' = stores \cup {"sessions"}
  /\ OnlyRun("list_meetings")

PrepareMeetings ==
  /\ run = "list_meetings"
  /\ stores' = stores \cup {"meetings"}
  /\ OnlyRun("start")

\* With an embedded broker its goroutine is started first ...
StartBroker ==
  /\ run = "start" /\ mode = "embedded"
  /\ broker' = "starting"
  /\ run' = "wait_broker"
  /\ UNCHANGED <<settingsVars, cancelled, mode, stores, mqtt, control, udp, http,
                 errs, queueVars, focus>>

\* ... and nothing else until it listens.
BrokerReady ==
  \/ run = "start" /\ mode # "embedded"
  \/ run = "wait_broker" /\ broker \in {"listening", "serving", "closed"}

StartComponents ==
  /\ BrokerReady
  /\ mqtt' = IF mode = "off" THEN "done" ELSE "connecting"
  /\ udp' = "binding" /\ http' = "binding"
  /\ run' = "serving"
  /\ UNCHANGED <<settingsVars, cancelled, mode, stores, broker, control,
                 errs, queueVars, focus>>

\* Five seconds pass: Run gives up, whatever the broker's own error was.
BrokerTimeout ==
  /\ run = "wait_broker"
  /\ OnlyRun("returned")
  /\ UNCHANGED stores

-----------------------------------------------------------------------------
(* Components *)

BrokerGoes(stage) ==
  /\ broker' = stage
  /\ UNCHANGED <<settingsVars, mqtt, control, udp, http>> /\ RunUnchanged

\* Run of the embedded broker: listen, say so, have clients served, return.
BrokerListens == broker = "starting" /\ BrokerGoes("listening") /\ UNCHANGED errs
BrokerFails == broker = "starting" /\ BrokerGoes("failed") /\ Report

BrokerServes == broker = "listening" /\ BrokerGoes("serving") /\ UNCHANGED errs

\* An error of Serve counts unless the context is done.
BrokerServeFails ==
  /\ broker = "listening"
  /\ BrokerGoes("closed")
  /\ IF cancelled THEN UNCHANGED errs ELSE Report

BrokerCloses == cancelled /\ broker \in {"listening", "serving"} /\ BrokerGoes("closed") /\ UNCHANGED errs

MqttGoes(stage) ==
  /\ mqtt' = stage
  /\ UNCHANGED <<settingsVars, broker, control, udp, http>> /\ RunUnchanged

MqttFails == MqttGoes("done") /\ Report

\* Connect retries for as long as the broker is away: it may never return.
Connect == mqtt = "connecting" /\ MqttGoes("subscribing") /\ UNCHANGED errs

Subscribe ==
  /\ mqtt = "subscribing"
  /\ \/ MqttGoes("running") /\ UNCHANGED errs
     \/ MqttFails


\* Every wait of Runtime.Run also ends with the context, without an error.
MqttStops ==
  /\ cancelled /\ mqtt \in {"connecting", "subscribing", "running", "deaf"}
  /\ MqttGoes("done") /\ UNCHANGED errs

\* The connection breaks and the client reconnects by itself, with a clean session
\* (paho's default) and without subscribing again: the runtime is up but deaf.
Reconnect == mqtt = "running" /\ MqttGoes("deaf") /\ UNCHANGED errs

\* A control message arrives; the client calls back in a goroutine of its own.
Deliver ==
  /\ focus = "transports"
  /\ mqtt = "running" /\ control = "none"
  /\ control' = "handling"
  /\ UNCHANGED <<settingsVars, broker, mqtt, udp, http, errs>> /\ RunUnchanged

\* HandleControlEnvelope may hand a final to the analysis runtime, which panics
\* once it is closed; Disconnect does not wait for a callback in hand.
Handled ==
  /\ control = "handling"
  /\ \/ analysis = "closed" /\ Dead
     \/ /\ control' = "none"
        /\ \/ UNCHANGED backlog
           \/ analysis = "open" /\ backlog < MaxBacklog /\ backlog' = backlog + 1
        /\ UNCHANGED <<settingsVars, broker, mqtt, udp, http, errs,
                       run, cancelled, mode, stores, analysis, waiting, focus>>

\* A malformed message or a failed reply ends Runtime.Run.
ControlFails ==
  /\ control = "handling"
  /\ control' = "none"
  /\ IF mqtt \in {"running", "deaf"} THEN mqtt' = "done" /\ Report ELSE UNCHANGED <<mqtt, errs>>
  /\ UNCHANGED <<settingsVars, broker, udp, http>> /\ RunUnchanged

UdpGoes(stage) ==
  /\ udp' = stage
  /\ UNCHANGED <<settingsVars, broker, mqtt, control, http>> /\ RunUnchanged

BindUdp ==
  /\ udp = "binding"
  /\ \/ UdpGoes("listening") /\ UNCHANGED errs
     \/ UdpGoes("done") /\ Report

ReceivePacket ==
  /\ focus = "transports"
  /\ udp = "listening" /\ UdpGoes("handling") /\ UNCHANGED errs

\* A read fails although the socket was not closed here.
ReadFails == udp = "listening" /\ ~cancelled /\ UdpGoes("done") /\ Report

\* HandlePacketBytes and emit: the packet may schedule an analysis.
PacketHandled ==
  /\ udp \in {"handling", "handling_last"}
  /\ \/ analysis = "closed" /\ Dead
     \/ UdpGoes(IF udp = "handling" THEN "listening" ELSE "done") /\ UNCHANGED errs

\* A goroutine closes the socket when the context is done.
CloseSocket ==
  /\ cancelled
  /\ \/ udp = "listening" /\ UdpGoes("done")
     \/ udp = "handling" /\ UdpGoes("handling_last")
  /\ UNCHANGED errs

HttpGoes(stage) ==
  /\ http' = stage
  /\ UNCHANGED <<settingsVars, broker, mqtt, control, udp>> /\ RunUnchanged

BindHttp ==
  /\ http = "binding"
  /\ \/ HttpGoes("accepting") /\ UNCHANGED errs
     \/ HttpGoes("done") /\ Report

\* Serve may end by itself, with an error.
AcceptFails == http = "accepting" /\ HttpGoes("done") /\ Report

\* Shutdown makes Serve return at once; handlers under way go on.
Shutdown == cancelled /\ http = "accepting" /\ HttpGoes("done") /\ UNCHANGED errs

Request(r) ==
  /\ focus = "settings"
  /\ http = "accepting" /\ SettingsRequest(r)
  /\ UNCHANGED runVars

Serve(r) == SettingsStep(r) /\ UNCHANGED runVars

-----------------------------------------------------------------------------
(* Stop *)

Cancel ==
  /\ run \notin {"off", "returned"} /\ ~cancelled
  /\ cancelled' = TRUE
  /\ UNCHANGED <<settingsVars, run, mode, stores, broker, mqtt, control, udp, http,
                 errs, queueVars, focus>>

\* The first error: the analysis runtime is closed while the others still run.
StopOnError ==
  /\ run = "serving" /\ errs > 0
  /\ analysis' = "closed"
  /\ errs' = errs - 1
  /\ run' = "closing_on_error"
  /\ UNCHANGED <<settingsVars, cancelled, mode, stores, backlog, waiting, focus>>
  /\ ComponentsUnchanged

\* Fault: the components are not waited for.
NobodyLeft == TRUE

\* wg.Wait returned.
AllDone == broker \notin {"starting", "listening"} /\ mqtt = "done" /\ udp = "done" /\ http = "done"

StopOnSignal ==
  /\ run = "serving" /\ cancelled
  /\ AllDone
  /\ OnlyRun("drained")
  /\ UNCHANGED stores

CloseAnalysis ==
  /\ run = "drained"
  /\ run' = "closing"
  /\ analysis' = "closed"
  /\ UNCHANGED <<settingsVars, cancelled, mode, stores, errs, backlog, waiting, focus>>
  /\ ComponentsUnchanged

\* Close waits for the loop, and the loop publishes every job it holds.
CloseReturns ==
  /\ backlog = 0
  /\ \/ run = "closing" /\ OnlyRun("closed")
     \/ run = "closing_on_error" /\ OnlyRun("returned")
  /\ UNCHANGED stores

QueueOnly ==
  /\ UNCHANGED <<settingsVars, run, cancelled, mode, stores, errs, analysis, focus>>
  /\ ComponentsUnchanged

\* The loop publishes a final under a context that never ends: the client refuses
\* it, or takes it and the loop waits for the broker.
LoopPublishes ==
  /\ backlog > 0 /\ ~waiting
  /\ \/ waiting' = TRUE /\ UNCHANGED backlog
     \/ backlog' = backlog - 1 /\ UNCHANGED waiting
  /\ QueueOnly

\* The broker acknowledges it, if it ever does.
Acknowledged ==
  /\ waiting
  /\ waiting' = FALSE /\ backlog' = backlog - 1
  /\ QueueOnly

\* closeAdmin closes the pools: what still runs gets errors from its store.
CloseAdmin ==
  /\ run = "closed"
  /\ OnlyRun("returned")
  /\ stores' = {}

\* main returns, and with it every goroutine ends.
Exit == run = "returned" /\ Dead

Crash == run # "off" /\ Dead

-----------------------------------------------------------------------------
RunStep ==
  \/ PrepareFails \/ Bootstrapping \/ PrepareUsers \/ PrepareSessions \/ PrepareMeetings
  \/ StartBroker \/ StartComponents \/ BrokerTimeout
  \/ StopOnError \/ StopOnSignal \/ CloseAnalysis \/ CloseReturns \/ CloseAdmin \/ Exit

ComponentStep ==
  \/ BrokerListens \/ BrokerFails \/ BrokerServes \/ BrokerServeFails \/ BrokerCloses
  \/ Connect \/ Subscribe \/ MqttStops
  \/ Handled \/ ControlFails
  \/ BindUdp \/ PacketHandled \/ CloseSocket
  \/ BindHttp \/ Shutdown

AppNext ==
  \/ RunStep \/ ComponentStep \/ LoopPublishes \/ Acknowledged
  \/ Start \/ Reconnect \/ Deliver \/ ReceivePacket \/ ReadFails \/ AcceptFails \/ Cancel \/ Crash
  \/ \E r \in Requests : Request(r) \/ Serve(r)

AppInit ==
  /\ SettingsInit
  /\ run = "off" /\ cancelled = FALSE
  /\ focus \in Focuses
  /\ mode \in IF focus = "settings" THEN {"off"} ELSE {"external", "embedded"}
  /\ stores = {}
  /\ broker = "none" /\ mqtt = "none" /\ control = "none" /\ udp = "none" /\ http = "none"
  /\ errs = 0
  /\ analysis = "none" /\ backlog = 0 /\ waiting = FALSE

AppSpec == AppInit /\ [][AppNext]_appVars

\* Goroutines are scheduled, a statement sent to the database is answered, a
\* packet's handler returns (recognizers have a timeout, its replies go out at
\* QoS 0), a goroutine that waits for the settings lock gets it in turn
\* (sync.RWMutex does not starve a waiter), and select and timers fire.  The
\* environment promises nothing: no signal, no packet, no connection, no
\* acknowledgement and no restart need ever come.
Fairness ==
  /\ WF_appVars(RunStep)
  /\ WF_appVars(BrokerListens \/ BrokerFails \/ BrokerServes \/ BrokerServeFails)
  /\ WF_appVars(LoopPublishes)
  /\ WF_appVars(MqttStops)
  /\ WF_appVars(PacketHandled) /\ WF_appVars(CloseSocket) /\ WF_appVars(BindUdp)
  /\ WF_appVars(BindHttp) /\ WF_appVars(Shutdown)
  /\ \A r \in Requests : SF_appVars(Serve(r))

FairSpec == AppSpec /\ Fairness

-----------------------------------------------------------------------------
(* Properties *)

AppTypeOK ==
  /\ SettingsTypeOK
  /\ run \in RunStages
  /\ cancelled \in BOOLEAN /\ mode \in {"off", "external", "embedded"}
  /\ stores \subseteq StartupStores
  /\ broker \in {"none", "starting", "failed", "listening", "serving", "closed"}
  /\ mqtt \in {"none", "connecting", "subscribing", "running", "deaf", "done"}
  /\ control \in {"none", "handling"}
  /\ udp \in {"none", "binding", "listening", "handling", "handling_last", "done"}
  /\ http \in {"none", "binding", "accepting", "done"}
  /\ errs \in 0..ErrCapacity
  /\ analysis \in {"none", "open", "closed"}
  /\ backlog \in 0..MaxBacklog /\ waiting \in BOOLEAN
  /\ waiting => backlog > 0

\* Traffic is taken only by a process whose settings are installed and whose
\* stores have their schema: a store's schemaOnce keeps its first outcome, so a
\* store first touched by a request whose client hangs up would stay unusable.
ServesOnlyWhenReady ==
  run = "serving" /\ (mqtt = "running" \/ http = "accepting" \/ udp = "listening")
    => booted /\ stores = StartupStores

\* After a signal the analysis runtime is closed only when no UDP packet is being
\* handled and none can come: a packet handled later would schedule on a closed
\* channel.  (Of an MQTT message the code does not make sure.)
NoPacketAfterClose == run \in {"drained", "closing", "closed"} => udp = "done" /\ http = "done"


\* A settings request is answered or dies with the process; in particular no
\* failed save keeps the others waiting.
SettingsAnswered == \A r \in Requests : task[r].stage # "idle" ~> task[r].stage = "idle"
=============================================================================
