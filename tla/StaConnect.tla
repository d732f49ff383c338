----------------------------- MODULE StaConnect -----------------------------
(***************************************************************************)
(* The coprocessor's WiFi station (slave_wifi_std.c): the requests of the  *)
(* host, run by pserial_task, and event_handler_wifi, run by the default   *)
(* event loop for one event after another.  Both use the file's statics,   *)
(* without a lock.                                                         *)
(*                                                                         *)
(* The chip has one core, and pserial_task (priority 21) is above the      *)
(* event loop (20).  So the event loop can be interrupted between any two  *)
(* accesses to the statics, while a request can be only where it blocks,   *)
(* in a call of the WiFi driver.  A step is what runs between two such     *)
(* points; a driver call takes effect in the step that follows it.         *)
(*                                                                         *)
(* External: the WiFi driver, which accepts or refuses a call by its state *)
(* and posts events to the loop's queue, so the handler always sees the    *)
(* driver's past; and the host.  The interface is in station mode.  Events *)
(* to the host keep the order in which they are sent (SerialRpc).          *)
(***************************************************************************)
EXTENDS Naturals, Sequences

CONSTANTS
  Configs,      \* the station configurations the host may set
  NoConfig,     \* no SSID
  MaxRequests,  \* bound: requests and restarts of the host
  MaxLosses     \* bound: connections that are lost by themselves

ASSUME StaConnectAssumption ==
  /\ NoConfig \notin Configs
  /\ MaxRequests \in Nat
  /\ MaxLosses \in Nat

VARIABLES
  drv,                 \* the driver: see DriverStates
  drvConfig,           \* the configuration it holds
  net,                 \* the configuration of its attempt or connection
  events,              \* what it has posted and the loop has not taken
  wifi_initialized,
  station_connecting,
  station_connected,
  new_config_recvd,
  new_wifi_config,
  suppress_disconnect,
  lkg_sta_connected_event,
  rpc,                 \* pserial_task: the driver call it is in, and its argument
  loop,                \* the handler: what it does next, the event's network,
                       \* and reconnect_pending
  told,                \* history: the last event the host got about the connection
  owed,                \* history: it asked for a connection that it was not told it
                       \* has, and heard nothing yet
  lastSet,             \* history: the last configuration it set
  overtaken,           \* history: that request came while an older configuration
                       \* was being applied
  withdrawn,           \* history: since it asked to connect, a set_config cleared
                       \* the flag that a cut connection was to come back by
  requests, losses     \* history: how many

driver == <<drv, drvConfig, net, events>>
statics == <<wifi_initialized, station_connecting, station_connected, new_config_recvd,
             new_wifi_config, suppress_disconnect, lkg_sta_connected_event>>
setting == <<lastSet, overtaken, withdrawn>>
history == <<told, owed, setting, requests, losses>>
vars == <<driver, statics, rpc, loop, history>>

DriverStates == {"off", "stopped", "idle", "connecting", "connected"}
MaybeConfig == Configs \cup {NoConfig}

TypeOK ==
  /\ drv \in DriverStates /\ drvConfig \in MaybeConfig /\ net \in MaybeConfig
  /\ events \in Seq([type : {"CONNECTED", "DISCONNECTED", "START", "STOP"},
                     net : MaybeConfig])
  /\ wifi_initialized \in BOOLEAN /\ suppress_disconnect \in BOOLEAN
  /\ station_connecting \in BOOLEAN /\ station_connected \in BOOLEAN
  /\ new_config_recvd \in BOOLEAN /\ new_wifi_config \in MaybeConfig
  /\ lkg_sta_connected_event \in MaybeConfig
  /\ rpc \in [at : {"idle", "set", "connect", "deinit", "init"}, cfg : MaybeConfig]
  /\ loop \in [at : {"idle", "apply", "force", "up", "announce", "mark", "clear",
                     "down", "settle", "rejoin", "tell"},
               net : MaybeConfig, up : BOOLEAN, pending : BOOLEAN]
  /\ told \in [is : {"nothing", "connected", "disconnected"}, net : MaybeConfig]
  /\ owed \in BOOLEAN /\ lastSet \in MaybeConfig
  /\ overtaken \in BOOLEAN /\ withdrawn \in BOOLEAN
  /\ requests \in 0 .. MaxRequests /\ losses \in 0 .. MaxLosses

Idle == [at |-> "idle", cfg |-> NoConfig]
LoopIdle == [at |-> "idle", net |-> NoConfig, up |-> FALSE, pending |-> FALSE]
NothingTold == [is |-> "nothing", net |-> NoConfig]

\* The statics as they are at start-up, the driver not initialised.
Init ==
  /\ drv = "off" /\ drvConfig = NoConfig /\ net = NoConfig /\ events = <<>>
  /\ wifi_initialized = FALSE
  /\ station_connecting = FALSE /\ station_connected = FALSE
  /\ new_config_recvd = FALSE /\ new_wifi_config = NoConfig
  /\ suppress_disconnect = FALSE /\ lkg_sta_connected_event = NoConfig
  /\ rpc = Idle /\ loop = LoopIdle
  /\ told = NothingTold /\ owed = FALSE /\ lastSet = NoConfig
  /\ overtaken = FALSE /\ withdrawn = FALSE
  /\ requests = 0 /\ losses = 0

-----------------------------------------------------------------------------
(* The driver's calls, as the source relies on them.  Each says when the    *)
(* call is accepted and what it does then.                                  *)

Event(type, n) == [type |-> type, net |-> n]
Joining == drv \in {"connecting", "connected"}

\* A station that is connected or trying says that it no longer is.
Hangup == IF Joining THEN <<Event("DISCONNECTED", net)>> ELSE <<>>

SetConfigAccepted == drv \notin {"off", "connecting"}

DriverSetConfig(c) ==
  /\ drvConfig' = IF SetConfigAccepted THEN c ELSE drvConfig
  /\ UNCHANGED <<drv, net, events>>

ConnectAccepted == drv = "idle"

DriverConnect ==
  /\ drv' = IF ConnectAccepted THEN "connecting" ELSE drv
  /\ net' = IF ConnectAccepted THEN drvConfig ELSE net
  /\ UNCHANGED <<drvConfig, events>>

DriverDisconnect ==
  /\ drv' = IF Joining THEN "idle" ELSE drv
  /\ net' = IF Joining THEN NoConfig ELSE net
  /\ events' = events \o Hangup
  /\ UNCHANGED drvConfig

Running == drv \in {"idle", "connecting", "connected"}

\* esp_wifi_stop leaves the driver in state s.
DriverStop(s) ==
  /\ drv' = s
  /\ net' = NoConfig
  /\ events' = events \o Hangup \o IF Running THEN <<Event("STOP", NoConfig)>> ELSE <<>>
  /\ UNCHANGED drvConfig

\* What the driver does by itself.
AttemptSucceeds ==
  /\ drv = "connecting"
  /\ drv' = "connected"
  /\ events' = Append(events, Event("CONNECTED", net))
  /\ UNCHANGED <<drvConfig, net, statics, rpc, loop, history>>

AttemptFails ==
  /\ drv = "connecting"
  /\ drv' = "idle" /\ net' = NoConfig
  /\ events' = events \o Hangup
  /\ UNCHANGED <<drvConfig, statics, rpc, loop, history>>

ConnectionLost ==
  /\ drv = "connected" /\ losses < MaxLosses
  /\ losses' = losses + 1
  /\ drv' = "idle" /\ net' = NoConfig
  /\ events' = events \o Hangup
  /\ UNCHANGED <<drvConfig, statics, rpc, loop, told, owed, setting, requests>>

-----------------------------------------------------------------------------
(* The host's requests.                                                     *)

\* The handler of STA_CONNECTED cuts, or has cut, the connection.
Cutting == suppress_disconnect \/ (loop.up /\ loop.at \in {"apply", "force"})

\* pserial_task takes the next request.
Request ==
  /\ rpc = Idle /\ requests < MaxRequests
  /\ requests' = requests + 1

\* The end of a set_config: what is remembered of it.
Remember(c, window) == lastSet' = c /\ overtaken' = (loop.at = window)

Cache(c) == new_wifi_config' = c /\ new_config_recvd' = TRUE

\* esp_hosted_set_sta_config during an attempt.
SetConfigCached(c) ==
  /\ Request
  /\ station_connecting
  /\ Cache(c) /\ Remember(c, "clear")
  /\ UNCHANGED <<driver, wifi_initialized, station_connecting, station_connected,
                 suppress_disconnect, lkg_sta_connected_event, rpc, loop, told, owed,
                 withdrawn, losses>>

\* ... and otherwise: it calls the driver, and falls back on the cache.
SetConfigCalled(c) ==
  /\ Request
  /\ ~station_connecting
  /\ rpc' = [at |-> "set", cfg |-> c]
  /\ UNCHANGED <<driver, statics, loop, told, owed, setting, losses>>

SetConfigReturns ==
  /\ rpc.at = "set"
  /\ rpc' = Idle
  /\ DriverSetConfig(rpc.cfg)
  /\ \/ /\ SetConfigAccepted
        /\ new_config_recvd' = FALSE /\ UNCHANGED new_wifi_config
        /\ Remember(rpc.cfg, "apply")
        /\ withdrawn' = (withdrawn \/ (new_config_recvd /\ Cutting))
     \/ /\ ~SetConfigAccepted
        /\ Cache(rpc.cfg)
        /\ Remember(rpc.cfg, "clear")
        /\ UNCHANGED withdrawn
  /\ UNCHANGED <<wifi_initialized, station_connecting, station_connected,
                 suppress_disconnect, lkg_sta_connected_event, loop, told, owed,
                 requests, losses>>

\* req_wifi_connect without a configuration, or without a driver to ask for one.
ConnectRefused ==
  /\ Request
  /\ drv = "off" \/ drvConfig = NoConfig
  /\ UNCHANGED <<driver, statics, rpc, loop, told, owed, setting, losses>>

ConnectCalled ==
  /\ Request
  /\ drv # "off" /\ drvConfig # NoConfig
  /\ ~station_connected
  /\ station_connecting' = TRUE
  /\ rpc' = [Idle EXCEPT !.at = "connect"]
  /\ owed' = (told.is # "connected")
  /\ withdrawn' = (withdrawn /\ Cutting)
  /\ UNCHANGED <<driver, wifi_initialized, station_connected, new_config_recvd,
                 new_wifi_config, suppress_disconnect, lkg_sta_connected_event, loop,
                 told, lastSet, overtaken, losses>>

\* ESP_ERR_WIFI_CONN, from a driver that is joining, counts as success.
ConnectReturns ==
  /\ rpc.at = "connect"
  /\ rpc' = Idle
  /\ DriverConnect
  /\ station_connecting' = (station_connecting /\ Running)
  /\ owed' = (owed /\ Running)
  /\ UNCHANGED <<wifi_initialized, station_connected, new_config_recvd, new_wifi_config,
                 suppress_disconnect, lkg_sta_connected_event, loop, told, setting,
                 requests, losses>>

\* A station that is connected is announced again.
ConnectAlready ==
  /\ Request
  /\ drv # "off" /\ drvConfig # NoConfig
  /\ station_connected
  /\ told' = [is |-> "connected", net |-> lkg_sta_connected_event]
  /\ owed' = FALSE
  /\ UNCHANGED <<driver, statics, rpc, loop, setting, losses>>

Disconnect ==
  /\ Request
  /\ DriverDisconnect
  /\ UNCHANGED <<statics, rpc, loop, told, owed, setting, losses>>

\* req_wifi_start; the start is announced to the host here and by the loop.
Start ==
  /\ Request
  /\ \/ /\ drv = "stopped"
        /\ drv' = "idle"
        /\ events' = Append(events, Event("START", NoConfig))
        /\ UNCHANGED <<drvConfig, net>>
     \/ drv # "stopped" /\ UNCHANGED driver
  /\ UNCHANGED <<statics, rpc, loop, told, owed, setting, losses>>

Stop ==
  /\ Request
  /\ drv # "off"
  /\ DriverStop("stopped")
  /\ owed' = FALSE
  /\ UNCHANGED <<statics, rpc, loop, told, setting, losses>>

\* req_wifi_deinit: the flag goes before the driver is asked, and it refuses
\* while it runs.
Deinit ==
  /\ Request
  /\ wifi_initialized' = FALSE
  /\ drv' = IF Running THEN drv ELSE "off"
  /\ UNCHANGED <<drvConfig, net, events, station_connecting, station_connected,
                 new_config_recvd, new_wifi_config, suppress_disconnect,
                 lkg_sta_connected_event, rpc, loop, told, owed, setting,
                 losses>>

\* __wrap_esp_wifi_init with other parameters: stop, deinit, and then init.
Reinit ==
  /\ Request
  /\ wifi_initialized
  /\ DriverStop(IF drv = "off" THEN "off" ELSE "stopped")
  /\ owed' = FALSE
  /\ rpc' = [Idle EXCEPT !.at = "deinit"]
  /\ UNCHANGED <<statics, loop, told, setting, losses>>

ReinitDeinit ==
  /\ rpc.at = "deinit"
  /\ drv' = "off"
  /\ wifi_initialized' = FALSE
  /\ rpc' = [Idle EXCEPT !.at = "init"]
  /\ UNCHANGED <<drvConfig, net, events, station_connecting, station_connected,
                 new_config_recvd, new_wifi_config, suppress_disconnect,
                 lkg_sta_connected_event, loop, history>>

\* ... with the same ones, while it is initialised: nothing.
InitAgain ==
  /\ Request
  /\ wifi_initialized
  /\ UNCHANGED <<driver, statics, rpc, loop, told, owed, setting, losses>>

InitCalled ==
  /\ Request
  /\ ~wifi_initialized
  /\ rpc' = [Idle EXCEPT !.at = "init"]
  /\ UNCHANGED <<driver, statics, loop, told, owed, setting, losses>>

InitReturns ==
  /\ rpc.at = "init"
  /\ rpc' = Idle
  /\ drv' = IF drv = "off" THEN "stopped" ELSE drv
  /\ wifi_initialized' = TRUE
  /\ UNCHANGED <<drvConfig, net, events, station_connecting, station_connected,
                 new_config_recvd, new_wifi_config, suppress_disconnect,
                 lkg_sta_connected_event, loop, history>>

\* The host restarts and knows nothing; the coprocessor goes on.  That takes far
\* longer than the handler from its event to station_connected.
HostRestart ==
  /\ requests < MaxRequests
  /\ loop.at # "mark"
  /\ requests' = requests + 1
  /\ told' = NothingTold /\ owed' = FALSE
  /\ UNCHANGED <<driver, statics, rpc, loop, setting, losses>>

-----------------------------------------------------------------------------
(* event_handler_wifi                                                       *)

Take(type) ==
  /\ loop.at = "idle"
  /\ events # <<>> /\ Head(events).type = type
  /\ events' = Tail(events)

Goto(at) == loop' = [loop EXCEPT !.at = at]

\* STA_CONNECTED: a configuration that came meanwhile goes first.
OnConnected ==
  /\ Take("CONNECTED")
  /\ loop' = [at |-> IF new_config_recvd THEN "apply" ELSE "up",
              net |-> Head(events).net, up |-> TRUE, pending |-> FALSE]
  /\ UNCHANGED <<drv, drvConfig, net, statics, rpc, history>>

\* A slip in OnDisconnected: new_config_recvd is not looked at.
OnDisconnectedOnlyDown ==
  /\ Take("DISCONNECTED")
  /\ loop' = [at |-> "down", net |-> Head(events).net, up |-> FALSE, pending |-> FALSE]
  /\ UNCHANGED <<drv, drvConfig, net, statics, rpc, history>>

OnDisconnected ==
  /\ Take("DISCONNECTED")
  /\ loop' = [at |-> IF new_config_recvd THEN "apply" ELSE "down",
              net |-> Head(events).net, up |-> FALSE, pending |-> FALSE]
  /\ UNCHANGED <<drv, drvConfig, net, statics, rpc, history>>

\* The host is told, unless station_connecting is set.
OnStart ==
  /\ Take("START")
  /\ UNCHANGED <<drv, drvConfig, net, statics, rpc, loop, history>>

OnStop ==
  /\ Take("STOP")
  /\ station_connecting' = FALSE
  /\ UNCHANGED <<drv, drvConfig, net, wifi_initialized, station_connected,
                 new_config_recvd, new_wifi_config, suppress_disconnect,
                 lkg_sta_connected_event, rpc, loop, history>>

\* A slip in Apply: the flag is cleared whatever esp_wifi_set_config returned.
ApplyClearsAnyway ==
  /\ loop.at = "apply"
  /\ DriverSetConfig(new_wifi_config)
  /\ Goto(IF loop.up THEN "force" ELSE "clear")
  /\ UNCHANGED <<statics, rpc, history>>

\* Both handlers: esp_wifi_set_config(WIFI_IF_STA, &new_wifi_config).
Apply ==
  /\ loop.at = "apply"
  /\ DriverSetConfig(new_wifi_config)
  /\ Goto(IF loop.up THEN "force" ELSE IF SetConfigAccepted THEN "clear" ELSE "down")
  /\ UNCHANGED <<statics, rpc, history>>

\* The connection is to the old network: it is cut, and the host not told.
CutOld ==
  /\ loop.at = "force"
  /\ DriverDisconnect
  /\ suppress_disconnect' = TRUE
  /\ loop' = LoopIdle
  /\ UNCHANGED <<wifi_initialized, station_connecting, station_connected,
                 new_config_recvd, new_wifi_config, lkg_sta_connected_event, rpc, history>>

Up ==
  /\ loop.at = "up"
  /\ station_connecting' = FALSE
  /\ Goto("announce")
  /\ UNCHANGED <<driver, wifi_initialized, station_connected, new_config_recvd,
                 new_wifi_config, suppress_disconnect, lkg_sta_connected_event, rpc,
                 history>>

Announce ==
  /\ loop.at = "announce"
  /\ told' = [is |-> "connected", net |-> loop.net] /\ owed' = FALSE
  /\ Goto("mark")
  /\ UNCHANGED <<driver, statics, rpc, setting, requests, losses>>

Mark ==
  /\ loop.at = "mark"
  /\ lkg_sta_connected_event' = loop.net
  /\ station_connected' = TRUE
  /\ loop' = LoopIdle
  /\ UNCHANGED <<driver, wifi_initialized, station_connecting, new_config_recvd,
                 new_wifi_config, suppress_disconnect, rpc, history>>

\* A slip in Clear: reconnect_pending is not set.
ClearWithoutRejoin ==
  /\ loop.at = "clear"
  /\ new_config_recvd' = FALSE
  /\ Goto("down")
  /\ UNCHANGED <<driver, wifi_initialized, station_connecting, station_connected,
                 new_wifi_config, suppress_disconnect, lkg_sta_connected_event, rpc,
                 history>>

Clear ==
  /\ loop.at = "clear"
  /\ new_config_recvd' = FALSE
  /\ loop' = [loop EXCEPT !.at = "down", !.pending = TRUE]
  /\ UNCHANGED <<driver, wifi_initialized, station_connecting, station_connected,
                 new_wifi_config, suppress_disconnect, lkg_sta_connected_event, rpc,
                 history>>

Down ==
  /\ loop.at = "down"
  /\ station_connected' = FALSE
  /\ Goto("settle")
  /\ UNCHANGED <<driver, wifi_initialized, station_connecting, new_config_recvd,
                 new_wifi_config, suppress_disconnect, lkg_sta_connected_event, rpc,
                 history>>

Settle ==
  /\ loop.at = "settle"
  /\ station_connecting' = loop.pending
  /\ Goto(IF loop.pending THEN "rejoin" ELSE "tell")
  /\ UNCHANGED <<driver, wifi_initialized, station_connected, new_config_recvd,
                 new_wifi_config, suppress_disconnect, lkg_sta_connected_event, rpc,
                 history>>

\* What esp_wifi_connect returns is not looked at.
Rejoin ==
  /\ loop.at = "rejoin"
  /\ DriverConnect
  /\ Goto("tell")
  /\ UNCHANGED <<statics, rpc, history>>

\* A slip in Tell: suppress_disconnect is not reset.
TellKeepsSuppressing ==
  /\ loop.at = "tell"
  /\ loop' = LoopIdle
  /\ \/ /\ ~suppress_disconnect
        /\ told' = [is |-> "disconnected", net |-> loop.net] /\ owed' = FALSE
     \/ suppress_disconnect /\ UNCHANGED <<told, owed>>
  /\ UNCHANGED <<driver, statics, rpc, setting, requests, losses>>

Tell ==
  /\ loop.at = "tell"
  /\ loop' = LoopIdle
  /\ suppress_disconnect' = FALSE
  /\ \/ /\ ~suppress_disconnect
        /\ told' = [is |-> "disconnected", net |-> loop.net] /\ owed' = FALSE
     \/ suppress_disconnect /\ UNCHANGED <<told, owed>>
  /\ UNCHANGED <<driver, wifi_initialized, station_connecting, station_connected,
                 new_config_recvd, new_wifi_config, lkg_sta_connected_event, rpc,
                 setting, requests, losses>>

-----------------------------------------------------------------------------

Host ==
  \/ \E c \in Configs : SetConfigCached(c) \/ SetConfigCalled(c)
  \/ ConnectRefused \/ ConnectCalled \/ ConnectAlready \/ Disconnect
  \/ Start \/ Stop \/ Deinit \/ Reinit \/ InitAgain \/ InitCalled \/ HostRestart

RpcReturns == SetConfigReturns \/ ConnectReturns \/ ReinitDeinit \/ InitReturns

Loop ==
  \/ OnConnected \/ OnDisconnected \/ OnStart \/ OnStop
  \/ Apply \/ CutOld \/ Up \/ Announce \/ Mark \/ Clear \/ Down \/ Settle \/ Rejoin \/ Tell

Outcome == AttemptSucceeds \/ AttemptFails

Next == Host \/ RpcReturns \/ Loop \/ Outcome \/ ConnectionLost

\* Both tasks run when they can, and an attempt ends; the host asks for nothing.
Fairness == WF_vars(RpcReturns) /\ WF_vars(Loop) /\ WF_vars(Outcome)

Spec == Init /\ [][Next]_vars /\ Fairness

-----------------------------------------------------------------------------
(* Properties                                                               *)

\* A configuration that the host has set, and was told ESP_OK for, is the
\* driver's or is waiting in the cache: esp_hosted_set_sta_config and the two
\* places in event_handler_wifi that apply new_wifi_config lose none.  The one
\* way to lose it is the race that overtaken names: a second configuration set
\* while the handler applies the first, between its test of new_config_recvd
\* and its new_config_recvd = false.
UnappliedIsRemembered ==
  \/ lastSet \in {NoConfig, drvConfig}
  \/ new_config_recvd /\ new_wifi_config = lastSet
  \/ overtaken

\* Nothing is under way in either task or in the driver.
Quiet == rpc = Idle /\ loop = LoopIdle /\ events = <<>> /\ drv # "connecting"

\* Once every event is handled, what the host was told last is so, and of the
\* network the driver is in: with the disconnects that the handler forces kept
\* from it, and req_wifi_connect answering from station_connected and
\* lkg_sta_connected_event.  The data path is open to a station that is
\* connected and to no other, and no later disconnect will be kept from the host.
SettledAgrees ==
  Quiet =>
    /\ station_connected = (drv = "connected")
    /\ ~suppress_disconnect
    /\ told.is = "connected" => drv = "connected" /\ told.net = net
    /\ told.is = "disconnected" => drv # "connected"

\* A configuration cached during an attempt reaches the driver when the attempt
\* has ended, whatever the host asks for in between, short of taking the
\* driver down.
CachedIsApplied ==
  new_config_recvd /\ drv = "connecting"
    ~> ~new_config_recvd \/ drvConfig = new_wifi_config \/ drv = "off"

\* A host that asked to connect, and was not refused, hears how it went, even if
\* the connection is cut for a newer configuration first.  It may hear nothing,
\* and stay without a connection, only when a set_config that the driver accepts
\* comes between the forced disconnect and its event: it clears new_config_recvd.
ConnectIsAnswered == owed ~> ~owed \/ withdrawn

=============================================================================
