------------------------------ MODULE WifiApp ------------------------------
(***************************************************************************)
(* The P4's WiFi station (wifi_app.c): the event handler with its limited  *)
(* retries, and the console command that sets credentials and waits.       *)
(*                                                                         *)
(* Two tasks share the module's statics: the default event loop, which     *)
(* runs wifi_event_handler for one event after another and sleeps in it    *)
(* before a retry, and the console.  The driver (esp_wifi, run by the C5)  *)
(* is external: it answers the calls and posts events to a queue, so the   *)
(* handler always sees the driver's past.  What this repository's C5 makes *)
(* of a start is part of it: one start is announced once or twice.         *)
(***************************************************************************)
EXTENDS Naturals, Sequences

CONSTANTS
  MaxRetry,   \* WIFI_MAX_RETRY
  MaxSets,    \* bound: wifi_set commands
  MaxDrops    \* bound: connections that the driver loses by itself

ASSUME WifiAppAssumption == MaxRetry \in Nat /\ MaxSets \in Nat /\ MaxDrops \in Nat

VARIABLES
  wifi,         \* the driver: "off", "on", "connecting", "associated" or "addressed"
  queue,        \* events the driver has posted and the loop has not taken
  loop,         \* the event loop: "idle", or "delay" in the handler
  con,          \* the console: "idle", or the call it makes next
  s_retry_num,
  s_got_ip,
  connected_bit,\* WIFI_CONNECTED_BIT of s_wifi_event_group
  sets, drops,  \* commands and losses so far
  tries         \* attempts in a row, since a start or an association

statics == <<s_retry_num, s_got_ip, connected_bit>>
history == <<sets, drops, tries>>
vars == <<wifi, queue, loop, con, statics, history>>

Events == {"START", "CONNECTED", "GOT_IP", "DISCONNECTED"}

TypeOK ==
  /\ wifi \in {"off", "on", "connecting", "associated", "addressed"}
  /\ queue \in Seq(Events)
  /\ loop \in {"idle", "delay"}
  /\ con \in {"idle", "stop", "start", "wait"}
  /\ s_retry_num \in 0 .. MaxRetry /\ s_got_ip \in BOOLEAN /\ connected_bit \in BOOLEAN
  /\ sets \in 0 .. MaxSets /\ drops \in 0 .. MaxDrops
  /\ tries \in Nat

\* wifi_app_init
Init ==
  /\ wifi = "off" /\ queue = <<>> /\ loop = "idle" /\ con = "idle"
  /\ s_retry_num = 0 /\ s_got_ip = FALSE /\ connected_bit = FALSE
  /\ sets = 0 /\ drops = 0 /\ tries = 0

Post(event) == queue' = Append(queue, event)

-----------------------------------------------------------------------------
(* The driver.                                                              *)

\* esp_wifi_connect has an effect on a station that is started and idle.
Connect ==
  /\ wifi' = IF wifi = "on" THEN "connecting" ELSE wifi
  /\ tries' = IF wifi = "on" THEN tries + 1 ELSE tries

Associate ==
  /\ wifi = "connecting"
  /\ wifi' = "associated" /\ Post("CONNECTED")
  /\ tries' = 0
  /\ UNCHANGED <<loop, con, statics, sets, drops>>

GetAddress ==
  /\ wifi = "associated"
  /\ wifi' = "addressed" /\ Post("GOT_IP")
  /\ UNCHANGED <<loop, con, statics, history>>

\* Wrong credentials, or no such network.
Refuse ==
  /\ wifi = "connecting"
  /\ wifi' = "on" /\ Post("DISCONNECTED")
  /\ UNCHANGED <<loop, con, statics, history>>

Drop ==
  /\ drops < MaxDrops
  /\ wifi \in {"associated", "addressed"}
  /\ wifi' = "on" /\ Post("DISCONNECTED")
  /\ drops' = drops + 1
  /\ UNCHANGED <<loop, con, statics, sets, tries>>

Driver == Associate \/ GetAddress \/ Refuse \/ Drop

-----------------------------------------------------------------------------
(* wifi_event_handler                                                       *)

Take(event) ==
  /\ loop = "idle"
  /\ queue # <<>> /\ Head(queue) = event
  /\ queue' = Tail(queue)

OnStart ==
  /\ Take("START")
  /\ s_retry_num' = 0
  /\ Connect
  /\ UNCHANGED <<loop, con, s_got_ip, connected_bit, sets, drops>>

\* Mutant of OnDisconnected: the retry is not counted.
OnDisconnectedUncounted ==
  /\ Take("DISCONNECTED")
  /\ IF s_retry_num < MaxRetry THEN loop' = "delay" ELSE UNCHANGED loop
  /\ UNCHANGED <<wifi, con, statics, history>>

\* The retry is counted, and the loop sleeps WIFI_RETRY_DELAY_MS.
OnDisconnected ==
  /\ Take("DISCONNECTED")
  /\ IF s_retry_num < MaxRetry
       THEN s_retry_num' = s_retry_num + 1 /\ loop' = "delay"
       ELSE UNCHANGED <<s_retry_num, loop>>
  /\ UNCHANGED <<wifi, con, s_got_ip, connected_bit, history>>

\* Mutant of Retry: the delay is over, and nothing follows.
RetryNot ==
  /\ loop = "delay"
  /\ loop' = "idle"
  /\ UNCHANGED <<wifi, queue, con, statics, history>>

\* The delay is over; the call is made whatever has happened since.
Retry ==
  /\ loop = "delay"
  /\ loop' = "idle"
  /\ Connect
  /\ UNCHANGED <<queue, con, statics, sets, drops>>

\* Mutant of OnConnected: the waiter is left to the address.
OnConnectedUnsaid ==
  /\ Take("CONNECTED")
  /\ s_retry_num' = 0
  /\ UNCHANGED <<wifi, loop, con, s_got_ip, connected_bit, history>>

OnConnected ==
  /\ Take("CONNECTED")
  /\ s_retry_num' = 0 /\ connected_bit' = TRUE
  /\ UNCHANGED <<wifi, loop, con, s_got_ip, history>>

OnGotIp ==
  /\ Take("GOT_IP")
  /\ s_retry_num' = 0 /\ s_got_ip' = TRUE /\ connected_bit' = TRUE
  /\ UNCHANGED <<wifi, loop, con, history>>

Handler == OnStart \/ OnDisconnected \/ Retry \/ OnConnected \/ OnGotIp

-----------------------------------------------------------------------------
(* cmd_wifi_set and wifi_app_connect_with_creds                             *)

WifiSet ==
  /\ con = "idle" /\ sets < MaxSets
  /\ sets' = sets + 1
  /\ con' = "stop"
  /\ UNCHANGED <<wifi, queue, loop, statics, drops, tries>>

\* esp_wifi_stop, and with it the loss of a connection, made or in the making.
Stop ==
  /\ con = "stop"
  /\ con' = "start"
  /\ wifi' = "off"
  /\ IF wifi \in {"connecting", "associated", "addressed"}
       THEN Post("DISCONNECTED") ELSE UNCHANGED queue
  /\ UNCHANGED <<loop, statics, history>>

\* The C5's two announcements of a start.  req_wifi_start makes the first, which may
\* overtake events that wait in the C5's event loop.  The loop makes the second when
\* it comes to the start, unless a connect was asked for before that.
Announced(q) ==
  \E i \in 0 .. Len(queue) :
    LET first == SubSeq(queue, 1, i) \o <<"START">> \o SubSeq(queue, i + 1, Len(queue))
    IN  q = first \/ q = Append(first, "START")

\* esp_wifi_set_config and esp_wifi_start.
Start ==
  /\ con = "start"
  /\ con' = "wait"
  /\ wifi' = "on"
  /\ Announced(queue')
  /\ tries' = 0
  /\ UNCHANGED <<loop, statics, sets, drops>>

\* xEventGroupWaitBits returns; the bit is left set.
Return ==
  /\ con = "wait" /\ connected_bit
  /\ con' = "idle"
  /\ UNCHANGED <<wifi, queue, loop, statics, history>>

Console == WifiSet \/ Stop \/ Start \/ Return

-----------------------------------------------------------------------------
Next == Driver \/ Handler \/ Console
Spec == Init /\ [][Next]_vars

\* The two tasks run on, and the driver answers each attempt; it need not give an
\* address, nobody need type a command, and a connection need not be lost.
FairSpec ==
  /\ Spec
  /\ WF_vars(Handler) /\ WF_vars(Stop \/ Start \/ Return) /\ WF_vars(Associate \/ Refuse)

-----------------------------------------------------------------------------
\* Between two associations or commands there are WIFI_MAX_RETRY counted retries and at
\* most two attempts more for each command so far: each of the two announcements of a
\* start leads to one and resets the count, and the esp_wifi_stop of a later command
\* can leave what they began as a disconnect that is handled after the new start.
AttemptsBounded == tries <= MaxRetry + 2 * sets

\* A started station with retries left does not stay idle: a disconnect that finds
\* the budget open leads to another attempt.
KeepsTrying ==
  wifi = "on" /\ s_retry_num < MaxRetry ~> wifi # "on" \/ s_retry_num = MaxRetry

\* A console that waits while the driver associates returns, even if the connection
\* is lost before the event is handled.
WaiterReturns == con = "wait" /\ wifi = "associated" ~> con # "wait"

-----------------------------------------------------------------------------
(* What a comment says and the code does not do.                            *)

\* wifi_app_connect_with_creds "blocks until the connection succeeds or fails": once
\* the retries are used up and the station is idle, the call returns.
ConnectReturns ==
  con = "wait" /\ wifi = "on" /\ s_retry_num = MaxRetry ~> con # "wait" \/ wifi # "on"
=============================================================================
