------------------------------ MODULE Control -------------------------------
(***************************************************************************)
(* The coprocessor's requests that outlast their answer (slave_control.c): *)
(* the heartbeat, the memory monitor and the update of the firmware.       *)
(* pserial_task runs the handlers; the timers they create run in the timer *)
(* daemon, the task of lowest priority, to which they only send commands.  *)
(* The callbacks in turn send events through pserial_task's req_queue, so  *)
(* each of the two tasks may wait for room in the queue of the other.      *)
(*                                                                         *)
(* External: the timer service (a timer is active once the daemon has      *)
(* handled its start; the daemon runs the callback of one expired timer,   *)
(* then the commands), the flash (an update is validated when it ends and  *)
(* when it becomes the one to boot), the host.  When an active timer       *)
(* expires is left open.  Behaviour ends when the chip restarts.           *)
(***************************************************************************)
EXTENDS Naturals, Sequences, FiniteSets

CONSTANTS
  Timers,       \* bound: the timers there is memory for
  NoTimer,      \* NULL
  CommandLimit, \* the length of the daemon's queue
  QueueLimit,   \* the length of req_queue
  MaxRequests,  \* bound: requests of the host
  MaxEvents     \* bound: events of other tasks

ASSUME ControlAssumption ==
  /\ IsFiniteSet(Timers) /\ NoTimer \notin Timers
  /\ CommandLimit \in Nat \ {0} /\ QueueLimit \in Nat \ {0}
  /\ MaxRequests \in Nat /\ MaxEvents \in Nat

VARIABLES
  timer,                    \* each timer's kind, and whether it is active
  commands,                 \* what the daemon has been sent
  daemon,                   \* what it does: see DaemonStates
  req_queue,
  ps,                       \* pserial_task: the commands its handler has to send, and
                            \* which timer it starts then, if any
  handle_heartbeat_task,
  mem_monitor_timer_handle,
  ota_status,
  open,                     \* whether handle names an update under way
  image,                    \* what the partition of the update holds: a "whole"
                            \* image, or "other": an old, partial or bad one
  boot,                     \* which partition is booted next
  restarted,
  heartbeatWanted,          \* history: the host's last word about heartbeats
  escaped,                  \* history: heartbeat timers that a stop came too early for
  unstarted,                \* history: an activation could not start its timer
  reopened,                 \* history: an update was begun after an activation
  requests, others          \* history: how many

timers == <<timer, commands>>
heartbeat == <<handle_heartbeat_task, heartbeatWanted, escaped>>
ota == <<ota_status, open, image, boot, unstarted, reopened>>
vars == <<timers, daemon, req_queue, ps, heartbeat, mem_monitor_timer_handle, ota,
          restarted, requests, others>>

Kinds == {"heartbeat", "mem_monitor", "ota"}
Free == [kind |-> "none", active |-> FALSE]
Commands == [do : {"start", "stop", "delete"}, timer : Timers]
DaemonStates == [at : {"top", "commands"}, timer : {NoTimer}]
                  \cup [at : {"callback"}, timer : Timers]
Handles == Timers \cup {NoTimer}

TypeOK ==
  /\ timer \in [Timers -> [kind : Kinds \cup {"none"}, active : BOOLEAN]]
  /\ commands \in Seq(Commands) /\ Len(commands) <= CommandLimit
  /\ daemon \in DaemonStates
  /\ req_queue \in Seq({"request", "event"}) /\ Len(req_queue) <= QueueLimit
  /\ ps \in [todo : Seq(Commands), next : {"wait", "heartbeat", "mem_monitor"}]
  /\ handle_heartbeat_task \in Handles /\ mem_monitor_timer_handle \in Handles
  /\ ota_status \in {"NOT_STARTED", "IN_PROGRESS", "FAILED", "COMPLETED", "ACTIVATED"}
  /\ open \in BOOLEAN /\ image \in {"whole", "other"}
  /\ boot \in {"running", "update"} /\ restarted \in BOOLEAN
  /\ heartbeatWanted \in BOOLEAN /\ escaped \subseteq Timers
  /\ unstarted \in BOOLEAN /\ reopened \in BOOLEAN
  /\ requests \in 0 .. MaxRequests /\ others \in 0 .. MaxEvents

Top == [at |-> "top", timer |-> NoTimer]
Draining == [at |-> "commands", timer |-> NoTimer]
Waiting == [todo |-> <<>>, next |-> "wait"]

\* After power-on the other partition holds anything but a whole image.
Init ==
  /\ timer = [t \in Timers |-> Free] /\ commands = <<>> /\ daemon = Top
  /\ req_queue = <<>> /\ ps = Waiting
  /\ handle_heartbeat_task = NoTimer /\ mem_monitor_timer_handle = NoTimer
  /\ ota_status = "NOT_STARTED" /\ open = FALSE /\ image = "other" /\ boot = "running"
  /\ restarted = FALSE /\ heartbeatWanted = FALSE /\ escaped = {}
  /\ unstarted = FALSE /\ reopened = FALSE /\ requests = 0 /\ others = 0

-----------------------------------------------------------------------------
(* req_queue and the timer service                                          *)

Room == Len(req_queue) < QueueLimit

\* recv_task hands over a request of the host; it does so for one at a time.
HostAsks ==
  /\ ~restarted
  /\ requests < MaxRequests /\ Room
  /\ "request" \notin {req_queue[i] : i \in DOMAIN req_queue}
  /\ requests' = requests + 1
  /\ req_queue' = Append(req_queue, "request")
  /\ UNCHANGED <<timers, daemon, ps, heartbeat, mem_monitor_timer_handle, ota, restarted,
                 others>>

OtherEvent ==
  /\ ~restarted
  /\ others < MaxEvents /\ Room
  /\ others' = others + 1
  /\ req_queue' = Append(req_queue, "event")
  /\ UNCHANGED <<timers, daemon, ps, heartbeat, mem_monitor_timer_handle, ota, restarted,
                 requests>>

Command(do, t) == [do |-> do, timer |-> t]
CommandRoom == Len(commands) < CommandLimit
FreeTimers == {t \in Timers : timer[t].kind = "none"}
Created(kind) == [kind |-> kind, active |-> FALSE]
NextTimer == CHOOSE t \in FreeTimers : TRUE

\* xTimerIsTimerActive
Active(h) == h # NoTimer /\ timer[h].active

\* A timer whose start the daemon has still to handle.
Starting(h) == \E i \in DOMAIN commands : commands[i] = Command("start", h)

\* An active timer expires.  One that repeats stays active; a callback stands
\* also for the several that make up for periods a blocked daemon has missed.
Expire(t) ==
  /\ daemon = Top
  /\ timer[t].active
  /\ daemon' = [at |-> "callback", timer |-> t]
  /\ timer' = [timer EXCEPT ![t].active = (timer[t].kind # "ota")]
  /\ UNCHANGED <<commands, req_queue, ps, heartbeat, mem_monitor_timer_handle, ota,
                 restarted, requests, others>>

Wake ==
  /\ daemon = Top
  /\ commands # <<>>
  /\ daemon' = Draining
  /\ UNCHANGED <<timers, req_queue, ps, heartbeat, mem_monitor_timer_handle, ota,
                 restarted, requests, others>>

\* All commands, before the next expired timer.
HandleCommand ==
  /\ daemon = Draining
  /\ commands # <<>>
  /\ commands' = Tail(commands)
  /\ LET c == Head(commands)
     IN timer' = [timer EXCEPT ![c.timer] =
                    IF c.do = "delete" THEN Free ELSE [@ EXCEPT !.active = (c.do = "start")]]
  /\ UNCHANGED <<daemon, req_queue, ps, heartbeat, mem_monitor_timer_handle, ota,
                 restarted, requests, others>>

Drained ==
  /\ daemon = Draining
  /\ commands = <<>>
  /\ daemon' = Top
  /\ UNCHANGED <<timers, req_queue, ps, heartbeat, mem_monitor_timer_handle, ota,
                 restarted, requests, others>>

-----------------------------------------------------------------------------
(* The timers' callbacks                                                    *)

InCallback(kind) == daemon.at = "callback" /\ timer[daemon.timer].kind = kind

\* heartbeat_timer_cb, and mem_monitor_timer_cb with something to report.
Report ==
  /\ InCallback("heartbeat") \/ InCallback("mem_monitor")
  /\ Room
  /\ req_queue' = Append(req_queue, "event")
  /\ daemon' = Draining
  /\ UNCHANGED <<timers, ps, heartbeat, mem_monitor_timer_handle, ota, restarted,
                 requests, others>>

\* mem_monitor_timer_cb without.
NothingToReport ==
  /\ InCallback("mem_monitor")
  /\ daemon' = Draining
  /\ UNCHANGED <<timers, req_queue, ps, heartbeat, mem_monitor_timer_handle, ota,
                 restarted, requests, others>>

\* vTimerCallback
Restart ==
  /\ ~restarted
  /\ InCallback("ota")
  /\ restarted' = TRUE
  /\ UNCHANGED <<timers, daemon, req_queue, ps, heartbeat, mem_monitor_timer_handle, ota,
                 requests, others>>

-----------------------------------------------------------------------------
(* pserial_task                                                             *)

Take(item) ==
  /\ ~restarted
  /\ ps = Waiting
  /\ req_queue # <<>> /\ Head(req_queue) = item
  /\ req_queue' = Tail(req_queue)

SendEvent ==
  /\ Take("event")
  /\ UNCHANGED <<timers, daemon, ps, heartbeat, mem_monitor_timer_handle, ota, restarted,
                 requests, others>>

\* A request of another kind, or one that is refused: a duration out of range,
\* mem_monitor_check_params, the activation of an update that is not completed.
\* Nothing changes, and the last of these is answered ESP_OK all the same.
OtherRequest ==
  /\ Take("request")
  /\ UNCHANGED <<timers, daemon, ps, heartbeat, mem_monitor_timer_handle, ota, restarted,
                 requests, others>>

\* A command that is sent with portMAX_DELAY.
SendCommand ==
  /\ ~restarted
  /\ ps.todo # <<>>
  /\ CommandRoom
  /\ commands' = Append(commands, Head(ps.todo))
  /\ ps' = [ps EXCEPT !.todo = Tail(@)]
  /\ UNCHANGED <<timer, daemon, req_queue, heartbeat, mem_monitor_timer_handle, ota,
                 restarted, requests, others>>

StopAndDelete(h) == <<Command("stop", h), Command("delete", h)>>

\* A slip in ConfigureHeartbeat: it starts a heartbeat without stopping the last.
ConfigureHeartbeatTwice(enable) ==
  /\ Take("request")
  /\ heartbeatWanted' = enable
  /\ LET h == handle_heartbeat_task
         stops == Active(h) /\ ~enable
     IN /\ handle_heartbeat_task' = IF stops THEN NoTimer ELSE h
        /\ escaped' = IF Starting(h) /\ ~Active(h) THEN escaped \cup {h} ELSE escaped \ {h}
        /\ ps' = [todo |-> IF stops THEN StopAndDelete(h) ELSE <<>>,
                  next |-> IF enable THEN "heartbeat" ELSE "wait"]
  /\ UNCHANGED <<timers, daemon, mem_monitor_timer_handle, ota, restarted, requests, others>>

\* configure_heartbeat.  stop_heartbeat does nothing, and leaves the handle, when
\* the timer is not active: also when its start is still in the daemon's queue.
ConfigureHeartbeat(enable) ==
  /\ Take("request")
  /\ heartbeatWanted' = enable
  /\ LET h == handle_heartbeat_task
         stops == Active(h)
     IN /\ handle_heartbeat_task' = IF stops THEN NoTimer ELSE h
        /\ escaped' = IF Starting(h) /\ ~stops THEN escaped \cup {h} ELSE escaped \ {h}
        /\ ps' = [todo |-> IF stops THEN StopAndDelete(h) ELSE <<>>,
                  next |-> IF enable THEN "heartbeat" ELSE "wait"]
  /\ UNCHANGED <<timers, daemon, mem_monitor_timer_handle, ota, restarted, requests, others>>

\* start_heartbeat: the start is not sent when the daemon's queue is full, and
\* the handle then names a timer that was never started.
StartHeartbeat ==
  /\ ~restarted
  /\ ps = [todo |-> <<>>, next |-> "heartbeat"]
  /\ ps' = Waiting
  /\ \/ /\ FreeTimers # {}
        /\ timer' = [timer EXCEPT ![NextTimer] = Created("heartbeat")]
        /\ handle_heartbeat_task' = NextTimer
        /\ commands' = IF CommandRoom THEN Append(commands, Command("start", NextTimer))
                                      ELSE commands
     \/ handle_heartbeat_task' = NoTimer /\ UNCHANGED timers
  /\ UNCHANGED <<daemon, req_queue, heartbeatWanted, escaped, mem_monitor_timer_handle,
                 ota, restarted, requests, others>>

\* A slip in MemMonitorSetup: a timer that is not active is not deleted.
MemMonitorSetupIfActive(enable) ==
  /\ Take("request")
  /\ LET h == mem_monitor_timer_handle
     IN ps' = [todo |-> IF Active(h) THEN StopAndDelete(h) ELSE <<>>,
               next |-> IF enable THEN "mem_monitor" ELSE "wait"]
  /\ mem_monitor_timer_handle' = NoTimer
  /\ UNCHANGED <<timers, daemon, heartbeat, ota, restarted, requests, others>>

\* mem_monitor_setup: the last timer is deleted, active or not,
MemMonitorSetup(enable) ==
  /\ Take("request")
  /\ LET h == mem_monitor_timer_handle
     IN ps' = [todo |-> IF h = NoTimer THEN <<>>
                        ELSE IF Active(h) THEN StopAndDelete(h)
                        ELSE <<Command("delete", h)>>,
               next |-> IF enable THEN "mem_monitor" ELSE "wait"]
  /\ mem_monitor_timer_handle' = NoTimer
  /\ UNCHANGED <<timers, daemon, heartbeat, ota, restarted, requests, others>>

\* ... and the next one created, and started with portMAX_DELAY.
StartMemMonitor ==
  /\ ~restarted
  /\ ps = [todo |-> <<>>, next |-> "mem_monitor"]
  /\ \/ /\ FreeTimers # {}
        /\ timer' = [timer EXCEPT ![NextTimer] = Created("mem_monitor")]
        /\ mem_monitor_timer_handle' = NextTimer
        /\ ps' = [todo |-> <<Command("start", NextTimer)>>, next |-> "wait"]
     \/ ps' = Waiting /\ UNCHANGED <<timer, mem_monitor_timer_handle>>
  /\ UNCHANGED <<commands, daemon, req_queue, heartbeat, ota, restarted, requests, others>>

-----------------------------------------------------------------------------
(* The update                                                               *)

\* req_ota_begin_handler.  esp_ota_begin erases the partition; when it fails it
\* may have done so, and the status and the handle stay what they were.
OtaBegin ==
  /\ Take("request")
  /\ \/ /\ ota_status' = "IN_PROGRESS" /\ open' = TRUE /\ image' = "other"
        /\ reopened' = (reopened \/ boot = "update")
     \/ /\ image' \in {image, "other"}
        /\ reopened' = (reopened \/ (boot = "update" /\ image' # image))
        /\ UNCHANGED <<ota_status, open>>
  /\ UNCHANGED <<timers, daemon, ps, heartbeat, mem_monitor_timer_handle, boot, unstarted,
                 restarted, requests, others>>

\* req_ota_write_handler: the image is whole when its last piece comes, and no
\* longer if that comes again; a handle that is not open is refused.
OtaWrite ==
  /\ Take("request")
  /\ open
  /\ image' \in {"whole", "other"}
  /\ UNCHANGED <<timers, daemon, ps, heartbeat, mem_monitor_timer_handle, ota_status, open,
                 boot, unstarted, reopened, restarted, requests, others>>

\* req_ota_end_handler: esp_ota_end forgets the handle, whatever it returns.
OtaEnd ==
  /\ Take("request")
  /\ open' = FALSE
  /\ ota_status' = IF open /\ image = "whole" THEN "COMPLETED" ELSE "FAILED"
  /\ UNCHANGED <<timers, daemon, ps, heartbeat, mem_monitor_timer_handle, image, boot,
                 unstarted, reopened, restarted, requests, others>>

\* The timer that restarts the chip: created and, if there is room, started.
ArmRestart ==
  \/ /\ FreeTimers # {} /\ CommandRoom
     /\ timer' = [timer EXCEPT ![NextTimer] = Created("ota")]
     /\ commands' = Append(commands, Command("start", NextTimer))
     /\ UNCHANGED unstarted
  \/ /\ FreeTimers # {} /\ ~CommandRoom
     /\ timer' = [timer EXCEPT ![NextTimer] = Created("ota")]
     /\ unstarted' = TRUE
     /\ UNCHANGED commands
  \/ unstarted' = TRUE /\ UNCHANGED timers

\* A slip in OtaActivate: what esp_ota_set_boot_partition returns is not looked at.
OtaActivateAnyway ==
  /\ Take("request")
  /\ ota_status = "COMPLETED"
  /\ boot' = IF image = "whole" THEN "update" ELSE boot
  /\ ota_status' = "ACTIVATED"
  /\ ArmRestart
  /\ UNCHANGED <<daemon, ps, heartbeat, mem_monitor_timer_handle, open, image, reopened,
                 restarted, requests, others>>

\* A slip in OtaActivate: the timer is created and not started.
OtaActivateUnarmed ==
  /\ Take("request")
  /\ ota_status = "COMPLETED" /\ image = "whole" /\ FreeTimers # {}
  /\ boot' = "update"
  /\ ota_status' = "ACTIVATED"
  /\ timer' = [timer EXCEPT ![NextTimer] = Created("ota")]
  /\ UNCHANGED <<commands, daemon, ps, heartbeat, mem_monitor_timer_handle, open, image,
                 unstarted, reopened, restarted, requests, others>>

\* req_ota_activate_handler, of a completed update.  One that is not whole any
\* more is refused by esp_ota_set_boot_partition.
OtaActivate ==
  /\ Take("request")
  /\ ota_status = "COMPLETED"
  /\ \/ /\ image = "whole"
        /\ boot' = "update"
        /\ ota_status' = "ACTIVATED"
        /\ ArmRestart
     \/ image # "whole" /\ UNCHANGED <<timers, boot, ota_status, unstarted>>
  /\ UNCHANGED <<daemon, ps, heartbeat, mem_monitor_timer_handle, open, image, reopened,
                 restarted, requests, others>>

-----------------------------------------------------------------------------

PserialTask ==
  \/ SendEvent \/ OtherRequest \/ SendCommand
  \/ \E enable \in BOOLEAN : ConfigureHeartbeat(enable) \/ MemMonitorSetup(enable)
  \/ StartHeartbeat \/ StartMemMonitor
  \/ OtaBegin \/ OtaWrite \/ OtaEnd \/ OtaActivate

Callback == Report \/ NothingToReport \/ Restart

Daemon == (\E t \in Timers : Expire(t)) \/ Wake \/ HandleCommand \/ Drained \/ Callback

Next == HostAsks \/ OtherEvent \/ PserialTask \/ Daemon

\* Both tasks run when they can; the daemon gets room in req_queue in the end,
\* and each timer its turn.
Fairness ==
  /\ WF_vars(PserialTask)
  /\ WF_vars(Wake \/ HandleCommand \/ Drained)
  /\ SF_vars(Callback)
  /\ \A t \in Timers : SF_vars(Expire(t))

Spec == Init /\ [][Next]_vars /\ Fairness

-----------------------------------------------------------------------------
(* Properties                                                               *)

\* pserial_task waits for room in the daemon's queue and the daemon in
\* pserial_task's, with portMAX_DELAY both: neither goes on.
Wedged == ps.todo # <<>> /\ ~CommandRoom /\ daemon.at = "callback" /\ ~Room

\* After the host has disabled the memory monitor no timer of it is left, but
\* for a new one it asks for, even when the old one was not active yet and even
\* when both queues were full.
MonitorStops ==
  mem_monitor_timer_handle = NoTimer
    ~> \/ mem_monitor_timer_handle # NoTimer
       \/ \A t \in Timers : timer[t].kind # "mem_monitor"
       \/ Wedged \/ restarted

\* After the host has disabled the heartbeat none goes on, except one whose
\* start was still in the daemon's queue when stop_heartbeat looked at it.
HeartbeatStops ==
  ~heartbeatWanted
    ~> \/ heartbeatWanted
       \/ \A t \in Timers \ escaped : ~(timer[t].kind = "heartbeat" /\ timer[t].active)
       \/ Wedged \/ restarted

\* The chip restarts only for an activated update, and into a whole image, unless
\* the host begins another update in the two seconds between: that one erases
\* the partition the chip is about to boot.
RestartsIntoImage == restarted => boot = "update" /\ (image = "whole" \/ reopened)

\* An activation that went through leads to the restart.  When the timer could
\* not be started it does not, and since the status is ACTIVATED by then the
\* host's next attempt is answered ESP_OK and does nothing.
ActivationRestarts == ota_status = "ACTIVATED" ~> restarted \/ unstarted \/ Wedged

=============================================================================
