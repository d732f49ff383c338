--------------------------- MODULE ControlProofs ---------------------------
(***************************************************************************)
(* Theorems about Control, for every number of timers, length of the two   *)
(* queues and number of requests: the chip restarts only for an activated  *)
(* update, and no heartbeat and no memory monitor that the host has        *)
(* stopped is forgotten with its timer running.                            *)
(***************************************************************************)
EXTENDS Control, SequenceTheorems, TLAPS

LEMMA Constants ==
  /\ NoTimer \notin Timers
  /\ CommandLimit \in Nat \ {0} /\ QueueLimit \in Nat \ {0}
  /\ MaxRequests \in Nat /\ MaxEvents \in Nat
BY ControlAssumption

-----------------------------------------------------------------------------
(* Queues.                                                                  *)

\* c is somewhere in s.
In(s, c) == \E i \in 1 .. Len(s) : s[i] = c

LEMMA AppendFacts ==
  ASSUME NEW S, NEW s \in Seq(S), NEW e \in S
  PROVE  /\ Len(s) \in Nat /\ Append(s, e) \in Seq(S)
         /\ Len(Append(s, e)) = Len(s) + 1
         /\ \A i \in 1 .. Len(s) : Append(s, e)[i] = s[i]
         /\ Append(s, e)[Len(s) + 1] = e
  OBVIOUS

LEMMA TailFacts ==
  ASSUME NEW S, NEW s \in Seq(S), s # <<>>
  PROVE  /\ Len(s) \in Nat \ {0} /\ Tail(s) \in Seq(S) /\ Head(s) \in S
         /\ Head(s) = s[1]
         /\ Len(Tail(s)) = Len(s) - 1
         /\ \A i \in 1 .. Len(s) - 1 : Tail(s)[i] = s[i + 1]
  OBVIOUS

LEMMA InAppend ==
  ASSUME NEW s \in Seq(Commands), NEW e \in Commands, NEW r, r = Append(s, e), NEW c
  PROVE  In(r, c) <=> In(s, c) \/ c = e
<1>1. /\ Len(s) \in Nat /\ Len(r) = Len(s) + 1
      /\ \A i \in 1 .. Len(s) : r[i] = s[i]
      /\ r[Len(s) + 1] = e
  BY AppendFacts
<1>2. /\ \A i \in 1 .. Len(s) : i \in 1 .. Len(r)
      /\ Len(s) + 1 \in 1 .. Len(r)
      /\ \A i \in 1 .. Len(r) : i \in 1 .. Len(s) \/ i = Len(s) + 1
  BY <1>1
<1>3. QED
  BY <1>1, <1>2 DEF In

LEMMA InTail ==
  ASSUME NEW s \in Seq(Commands), s # <<>>, NEW r, r = Tail(s), NEW c
  PROVE  /\ In(r, c) => In(s, c)
         /\ In(s, c) => In(r, c) \/ c = Head(s)
<1>1. /\ Len(s) \in Nat \ {0} /\ Len(r) = Len(s) - 1 /\ Head(s) = s[1]
      /\ \A i \in 1 .. Len(s) - 1 : r[i] = s[i + 1]
  BY TailFacts
<1>2. /\ \A i \in 1 .. Len(r) : i + 1 \in 1 .. Len(s) /\ r[i] = s[i + 1]
      /\ \A i \in 1 .. Len(s) : i = 1 \/ (i - 1 \in 1 .. Len(r) /\ r[i - 1] = s[i])
  <2>1. \A i \in 1 .. Len(r) : i + 1 \in 1 .. Len(s) /\ r[i] = s[i + 1]
    BY <1>1
  <2>2. ASSUME NEW i \in 1 .. Len(s), i # 1
        PROVE  i - 1 \in 1 .. Len(r) /\ r[i - 1] = s[i]
    <3>1. i - 1 \in 1 .. Len(r) /\ (i - 1) + 1 = i
      BY <1>1, <2>2
    <3>2. QED
      BY <2>1, <3>1
  <2>3. QED
    BY <2>1, <2>2
<1>3. QED
  BY <1>1, <1>2 DEF In

LEMMA InNothing == \A c : ~In(<<>>, c)
BY DEF In

LEMMA InPair ==
  ASSUME NEW c, NEW d, NEW s, s = <<c, d>>
  PROVE  \A e : In(s, e) <=> e = c \/ e = d
<1>1. Len(s) = 2 /\ s[1] = c /\ s[2] = d
  OBVIOUS
<1>2. QED
  BY <1>1 DEF In

LEMMA InOne ==
  ASSUME NEW c, NEW s, s = <<c>>
  PROVE  \A e : In(s, e) <=> e = c
<1>1. Len(s) = 1 /\ s[1] = c
  OBVIOUS
<1>2. QED
  BY <1>1 DEF In

-----------------------------------------------------------------------------
(* Types.                                                                   *)

Timer == [kind : Kinds \cup {"none"}, active : BOOLEAN]

Valued ==
  /\ timer \in [Timers -> Timer]
  /\ commands \in Seq(Commands) /\ Len(commands) <= CommandLimit
  /\ daemon \in DaemonStates
  /\ req_queue \in Seq({"request", "event"}) /\ Len(req_queue) <= QueueLimit
  /\ ps.todo \in Seq(Commands) /\ ps.next \in {"wait", "heartbeat", "mem_monitor"}
  /\ ps = [todo |-> ps.todo, next |-> ps.next]
  /\ handle_heartbeat_task \in Handles /\ mem_monitor_timer_handle \in Handles
  /\ ota_status \in {"NOT_STARTED", "IN_PROGRESS", "FAILED", "COMPLETED", "ACTIVATED"}
  /\ image \in {"whole", "other"} /\ boot \in {"running", "update"}
  /\ escaped \subseteq Timers
  /\ requests \in 0 .. MaxRequests /\ others \in 0 .. MaxEvents

Flagged ==
  /\ open \in BOOLEAN /\ restarted \in BOOLEAN /\ heartbeatWanted \in BOOLEAN
  /\ unstarted \in BOOLEAN /\ reopened \in BOOLEAN

LEMMA TypesSplit == TypeOK <=> Flagged /\ Valued
<1>1. ps \in [todo : Seq(Commands), next : {"wait", "heartbeat", "mem_monitor"}]
        <=> /\ ps = [todo |-> ps.todo, next |-> ps.next]
            /\ ps.todo \in Seq(Commands) /\ ps.next \in {"wait", "heartbeat", "mem_monitor"}
  OBVIOUS
<1>2. QED
  BY <1>1, Zenon DEF TypeOK, Flagged, Valued, Timer

\* What the helpers yield.
LEMMA Helpers ==
  ASSUME Valued
  PROVE  /\ \A do \in {"start", "stop", "delete"} : \A t \in Timers :
              Command(do, t) \in Commands /\ Command(do, t).do = do
                /\ Command(do, t).timer = t
         /\ FreeTimers # {} => NextTimer \in Timers /\ timer[NextTimer].kind = "none"
         /\ \A h \in Handles : Active(h) => h \in Timers
         /\ \A k \in Kinds : Created(k) \in Timer /\ Created(k).kind = k
                               /\ Created(k).active = FALSE
         /\ Free \in Timer /\ Free.kind = "none" /\ Free.active = FALSE
<1>1. FreeTimers # {} => NextTimer \in FreeTimers
  BY DEF NextTimer
<1>2. QED
  BY <1>1, Constants
     DEF Command, Commands, FreeTimers, Active, Handles, Created, Timer, Free, Kinds

\* Timers that are made and handled stay timers.
LEMMA MadeTyped ==
  ASSUME Valued, NEW k \in Kinds, FreeTimers # {},
         NEW r, r = [timer EXCEPT ![NextTimer] = Created(k)]
  PROVE  /\ r \in [Timers -> Timer]
         /\ r[NextTimer] = Created(k)
         /\ \A t \in Timers : t # NextTimer => r[t] = timer[t]
BY ZenonT(60), Helpers DEF Valued

LEMMA ExpireTyped ==
  ASSUME Valued, NEW t \in Timers, Expire(t)
  PROVE  /\ timer' \in [Timers -> Timer]
         /\ \A u \in Timers : timer'[u].kind = timer[u].kind
         /\ \A u \in Timers : timer'[u].active => timer[u].active
<1> DEFINE a == timer[t].kind # "ota"
           x == [timer[t] EXCEPT !.active = a]
<1>1. a \in BOOLEAN
  OBVIOUS
<1>2. timer' = [timer EXCEPT ![t] = x] /\ timer[t].active
  BY DEF Expire
<1> HIDE DEF a
<1>3. timer[t] \in Timer
  BY DEF Valued
<1>4. x \in Timer /\ x.kind = timer[t].kind
  BY <1>1, <1>3 DEF Timer
<1> HIDE DEF x
<1>5. /\ timer' \in [Timers -> Timer] /\ timer'[t] = x
      /\ \A u \in Timers : u # t => timer'[u] = timer[u]
  BY <1>2, <1>4 DEF Valued
<1>6. QED
  BY <1>2, <1>4, <1>5

\* The command that the daemon handles, and what it does to its timer.
LEMMA HandleTyped ==
  ASSUME Valued, HandleCommand, NEW c, c = Head(commands)
  PROVE  /\ c \in Commands /\ commands # <<>> /\ commands' = Tail(commands)
         /\ commands' \in Seq(Commands) /\ Len(commands') <= CommandLimit
         /\ timer' \in [Timers -> Timer]
         /\ \A u \in Timers : timer'[u].kind \in {timer[u].kind, "none"}
         /\ c.do = "delete" => timer'[c.timer].kind = "none"
         /\ \A u \in Timers : timer'[u].active =>
              timer[u].active \/ c = Command("start", u)
<1>1. commands # <<>> /\ commands' = Tail(commands)
  BY DEF HandleCommand
<1>2. commands \in Seq(Commands) /\ Len(commands) \in Nat
  BY DEF Valued
<1>3. /\ c \in Commands /\ Tail(commands) \in Seq(Commands)
      /\ Len(Tail(commands)) = Len(commands) - 1
  BY <1>1, <1>2, TailFacts
<1>4. Len(commands') <= CommandLimit
  BY <1>1, <1>2, <1>3, Constants DEF Valued
<1> DEFINE t == c.timer
           a == c.do = "start"
           x == IF c.do = "delete" THEN Free ELSE [timer[t] EXCEPT !.active = a]
<1>5. t \in Timers /\ a \in BOOLEAN /\ timer[t] \in Timer
  BY <1>3 DEF Commands, Valued
<1>6. timer' = [timer EXCEPT ![t] = x]
  BY DEF HandleCommand
<1>7. /\ c.do = "delete" => x = Free
      /\ c.do # "delete" => x = [timer[t] EXCEPT !.active = a]
  OBVIOUS
<1>8. a => c = Command("start", t)
  BY <1>3 DEF Commands, Command
<1> HIDE DEF a, x
<1>9. /\ x \in Timer /\ x.kind \in {timer[t].kind, "none"}
      /\ c.do = "delete" => x.kind = "none"
  BY <1>5, <1>7, Helpers DEF Timer
<1>10. x.active => a
  BY <1>5, <1>7, Helpers DEF Timer
<1>11. /\ timer' \in [Timers -> Timer] /\ timer'[t] = x
       /\ \A u \in Timers : u # t => timer'[u] = timer[u]
  BY <1>5, <1>6, <1>9 DEF Valued
<1>12. QED
  BY <1>1, <1>3, <1>4, <1>5, <1>8, <1>9, <1>10, <1>11

LEMMA FlaggedKept == Flagged /\ Valued /\ [Next]_vars => Flagged'
<1> SUFFICES ASSUME Flagged, Valued, [Next]_vars PROVE Flagged'
  OBVIOUS
<1> USE DEF timers, heartbeat, ota, Flagged
<1>1. CASE UNCHANGED vars
  BY <1>1 DEF vars
<1>2. ASSUME NEW enable \in BOOLEAN, ConfigureHeartbeat(enable) PROVE Flagged'
  BY <1>2 DEF ConfigureHeartbeat
<1>3. ASSUME NEW enable \in BOOLEAN, MemMonitorSetup(enable) PROVE Flagged'
  BY <1>3 DEF MemMonitorSetup
<1>4. ASSUME NEW t \in Timers, Expire(t) PROVE Flagged'
  BY <1>4 DEF Expire
<1>5. CASE HostAsks
  BY <1>5 DEF HostAsks
<1>6. CASE OtherEvent
  BY <1>6 DEF OtherEvent
<1>7. CASE SendEvent
  BY <1>7 DEF SendEvent
<1>8. CASE OtherRequest
  BY <1>8 DEF OtherRequest
<1>9. CASE SendCommand
  BY <1>9 DEF SendCommand
<1>10. CASE StartHeartbeat
  BY <1>10 DEF StartHeartbeat
<1>11. CASE StartMemMonitor
  BY <1>11 DEF StartMemMonitor
<1>12. CASE OtaBegin
  BY <1>12 DEF OtaBegin
<1>13. CASE OtaWrite
  BY <1>13 DEF OtaWrite
<1>14. CASE OtaEnd
  BY <1>14 DEF OtaEnd
<1>15. CASE OtaActivate
  BY <1>15 DEF OtaActivate, ArmRestart
<1>16. CASE Wake
  BY <1>16 DEF Wake
<1>17. CASE HandleCommand
  BY <1>17 DEF HandleCommand
<1>18. CASE Drained
  BY <1>18 DEF Drained
<1>19. CASE Report
  BY <1>19 DEF Report
<1>20. CASE NothingToReport
  BY <1>20 DEF NothingToReport
<1>21. CASE Restart
  BY <1>21 DEF Restart
<1>22. QED
  BY <1>1, <1>2, <1>3, <1>4, <1>5, <1>6, <1>7, <1>8, <1>9, <1>10, <1>11, <1>12, <1>13,
       <1>14, <1>15, <1>16, <1>17, <1>18, <1>19, <1>20, <1>21
     DEF Next, PserialTask, Daemon, Callback

LEMMA QueueTyped ==
  ASSUME Valued
  PROVE  /\ \A x \in {"request", "event"} : Room =>
              Append(req_queue, x) \in Seq({"request", "event"})
                /\ Len(Append(req_queue, x)) <= QueueLimit
         /\ req_queue # <<>> =>
              Tail(req_queue) \in Seq({"request", "event"})
                /\ Len(Tail(req_queue)) <= QueueLimit
         /\ \A c \in Commands : CommandRoom =>
              Append(commands, c) \in Seq(Commands)
                /\ Len(Append(commands, c)) <= CommandLimit
BY Constants, AppendFacts, TailFacts DEF Valued, Room, CommandRoom

\* The commands a handler leaves itself to send.
LEMMA TodoTyped ==
  ASSUME Valued, NEW h \in Handles
  PROVE  /\ <<>> \in Seq(Commands)
         /\ h # NoTimer => /\ StopAndDelete(h) \in Seq(Commands)
                           /\ <<Command("delete", h)>> \in Seq(Commands)
                           /\ <<Command("start", h)>> \in Seq(Commands)
BY Helpers DEF StopAndDelete, Handles

LEMMA ValuedKept == Valued /\ [Next]_vars => Valued'
<1> SUFFICES ASSUME Valued, [Next]_vars PROVE Valued'
  OBVIOUS
<1> USE Constants DEF timers, heartbeat, ota
<1>1. CASE UNCHANGED vars
  BY <1>1 DEF vars, Valued
<1>2. ASSUME NEW enable \in BOOLEAN, ConfigureHeartbeat(enable) PROVE Valued'
  <2>1. /\ ps'.todo \in Seq(Commands) /\ ps'.next \in {"wait", "heartbeat", "mem_monitor"}
        /\ ps' = [todo |-> ps'.todo, next |-> ps'.next]
    <3>1. handle_heartbeat_task \in Handles /\ <<>> \in Seq(Commands)
      BY TodoTyped DEF Valued
    <3>2. Active(handle_heartbeat_task) => StopAndDelete(handle_heartbeat_task) \in Seq(Commands)
      BY <3>1, TodoTyped DEF Active
    <3>3. QED
      BY <1>2, <3>1, <3>2 DEF ConfigureHeartbeat
  <2>2. escaped' \subseteq Timers
    <3>1. \A i \in DOMAIN commands : commands[i] \in Commands
      BY DEF Valued
    <3>2. Starting(handle_heartbeat_task) => handle_heartbeat_task \in Timers
      BY <3>1 DEF Starting, Commands, Command
    <3>3. QED
      BY <1>2, <3>2 DEF ConfigureHeartbeat, Valued
  <2>3. req_queue' \in Seq({"request", "event"}) /\ Len(req_queue') <= QueueLimit
    BY <1>2, QueueTyped DEF ConfigureHeartbeat, Take
  <2>4. handle_heartbeat_task' \in Handles
    BY <1>2 DEF ConfigureHeartbeat, Valued, Handles
  <2>5. QED
    BY <1>2, <2>1, <2>2, <2>3, <2>4 DEF ConfigureHeartbeat, Valued
<1>3. ASSUME NEW enable \in BOOLEAN, MemMonitorSetup(enable) PROVE Valued'
  <2>1. /\ ps'.todo \in Seq(Commands) /\ ps'.next \in {"wait", "heartbeat", "mem_monitor"}
        /\ ps' = [todo |-> ps'.todo, next |-> ps'.next]
    <3>1. mem_monitor_timer_handle \in Handles /\ <<>> \in Seq(Commands)
      BY TodoTyped DEF Valued
    <3>2. mem_monitor_timer_handle # NoTimer =>
            /\ StopAndDelete(mem_monitor_timer_handle) \in Seq(Commands)
            /\ <<Command("delete", mem_monitor_timer_handle)>> \in Seq(Commands)
      BY <3>1, TodoTyped
    <3>3. QED
      BY <1>3, <3>1, <3>2 DEF MemMonitorSetup
  <2>2. req_queue' \in Seq({"request", "event"}) /\ Len(req_queue') <= QueueLimit
    BY <1>3, QueueTyped DEF MemMonitorSetup, Take
  <2>3. mem_monitor_timer_handle' \in Handles
    BY <1>3 DEF MemMonitorSetup, Handles
  <2>4. QED
    BY <1>3, <2>1, <2>2, <2>3 DEF MemMonitorSetup, Valued
<1>4. ASSUME NEW t \in Timers, Expire(t) PROVE Valued'
  <2>1. daemon' \in DaemonStates
    BY <1>4 DEF Expire, DaemonStates
  <2>2. QED
    BY <1>4, <2>1, ExpireTyped DEF Expire, Valued
<1>5. CASE HostAsks \/ OtherEvent
  <2>1. req_queue' \in Seq({"request", "event"}) /\ Len(req_queue') <= QueueLimit
    BY <1>5, QueueTyped DEF HostAsks, OtherEvent
  <2>2. QED
    BY <1>5, <2>1 DEF HostAsks, OtherEvent, Valued
<1>6. CASE SendEvent \/ OtherRequest
  <2>1. req_queue' \in Seq({"request", "event"}) /\ Len(req_queue') <= QueueLimit
    BY <1>6, QueueTyped DEF SendEvent, OtherRequest, Take
  <2>2. QED
    BY <1>6, <2>1 DEF SendEvent, OtherRequest, Valued
<1>7. CASE SendCommand
  <2>1. ps.todo \in Seq(Commands) /\ ps.todo # <<>>
    BY <1>7 DEF SendCommand, Valued
  <2>2. Head(ps.todo) \in Commands /\ Tail(ps.todo) \in Seq(Commands)
    BY <2>1, TailFacts
  <2>3. commands' \in Seq(Commands) /\ Len(commands') <= CommandLimit
    BY <1>7, <2>2, QueueTyped DEF SendCommand
  <2>4. ps' = [todo |-> Tail(ps.todo), next |-> ps.next]
    BY <1>7 DEF SendCommand, Valued
  <2>5. QED
    BY <1>7, <2>2, <2>3, <2>4 DEF SendCommand, Valued
<1>8. CASE StartHeartbeat
  <2>1. timer' \in [Timers -> Timer]
    BY <1>8, MadeTyped DEF StartHeartbeat, Kinds, Valued
  <2>2. commands' \in Seq(Commands) /\ Len(commands') <= CommandLimit
    <3>1. FreeTimers # {} => Command("start", NextTimer) \in Commands
      BY Helpers
    <3>2. \/ commands' = commands
          \/ /\ FreeTimers # {} /\ CommandRoom
             /\ commands' = Append(commands, Command("start", NextTimer))
      BY <1>8 DEF StartHeartbeat
    <3>3. QED
      BY <3>1, <3>2, QueueTyped DEF Valued
  <2>3. handle_heartbeat_task' \in Handles
    BY <1>8, Helpers DEF StartHeartbeat, Handles
  <2>4. ps' = [todo |-> <<>>, next |-> "wait"] /\ <<>> \in Seq(Commands)
    BY <1>8 DEF StartHeartbeat, Waiting
  <2>5. QED
    BY <1>8, <2>1, <2>2, <2>3, <2>4 DEF StartHeartbeat, Valued
<1>9. CASE StartMemMonitor
  <2>1. timer' \in [Timers -> Timer]
    BY <1>9, MadeTyped DEF StartMemMonitor, Kinds, Valued
  <2>2. mem_monitor_timer_handle' \in Handles
    BY ZenonT(60), <1>9, Helpers DEF StartMemMonitor, Handles, Valued
  <2>3. /\ ps'.todo \in Seq(Commands) /\ ps'.next = "wait"
        /\ ps' = [todo |-> ps'.todo, next |-> ps'.next]
    <3>1. FreeTimers # {} => <<Command("start", NextTimer)>> \in Seq(Commands)
      BY Helpers
    <3>2. \/ ps' = [todo |-> <<>>, next |-> "wait"]
          \/ /\ FreeTimers # {}
             /\ ps' = [todo |-> <<Command("start", NextTimer)>>, next |-> "wait"]
      BY <1>9 DEF StartMemMonitor, Waiting
    <3>3. CASE ps' = [todo |-> <<>>, next |-> "wait"]
      BY <3>3
    <3>4. CASE FreeTimers # {} /\ ps' = [todo |-> <<Command("start", NextTimer)>>, next |-> "wait"]
      BY <3>1, <3>4
    <3>5. QED
      BY <3>2, <3>3, <3>4
  <2>4. QED
    BY <1>9, <2>1, <2>2, <2>3 DEF StartMemMonitor, Valued
<1>10. CASE OtaBegin \/ OtaWrite \/ OtaEnd
  <2>1. req_queue' \in Seq({"request", "event"}) /\ Len(req_queue') <= QueueLimit
    BY <1>10, QueueTyped DEF OtaBegin, OtaWrite, OtaEnd, Take
  <2>2. QED
    BY <1>10, <2>1 DEF OtaBegin, OtaWrite, OtaEnd, Valued
<1>11. CASE OtaActivate
  <2>1. req_queue' \in Seq({"request", "event"}) /\ Len(req_queue') <= QueueLimit
    BY <1>11, QueueTyped DEF OtaActivate, Take
  <2>2. timer' \in [Timers -> Timer]
    BY <1>11, MadeTyped DEF OtaActivate, ArmRestart, Kinds, Valued
  <2>3. commands' \in Seq(Commands) /\ Len(commands') <= CommandLimit
    <3>1. FreeTimers # {} => Command("start", NextTimer) \in Commands
      BY Helpers
    <3>2. \/ commands' = commands
          \/ /\ FreeTimers # {} /\ CommandRoom
             /\ commands' = Append(commands, Command("start", NextTimer))
      BY <1>11 DEF OtaActivate, ArmRestart
    <3>3. QED
      BY <3>1, <3>2, QueueTyped DEF Valued
  <2>4. QED
    BY <1>11, <2>1, <2>2, <2>3 DEF OtaActivate, Valued
<1>12. CASE HandleCommand
  BY <1>12, HandleTyped DEF HandleCommand, Valued
<1>13. CASE Wake \/ Drained \/ NothingToReport \/ Restart
  BY <1>13 DEF Wake, Drained, NothingToReport, Restart, Valued, DaemonStates, Draining, Top
<1>14. CASE Report
  <2>1. req_queue' \in Seq({"request", "event"}) /\ Len(req_queue') <= QueueLimit
    BY <1>14, QueueTyped DEF Report
  <2>2. QED
    BY <1>14, <2>1 DEF Report, Valued, DaemonStates, Draining
<1>15. QED
  BY <1>1, <1>2, <1>3, <1>4, <1>5, <1>6, <1>7, <1>8, <1>9, <1>10, <1>11, <1>12, <1>13, <1>14
     DEF Next, PserialTask, Daemon, Callback

LEMMA TypesKept == TypeOK /\ [Next]_vars => TypeOK'
<1>1. TypeOK' <=> Flagged' /\ Valued'
  BY TypesSplit, PTL
<1>2. QED
  BY <1>1, TypesSplit, FlaggedKept, ValuedKept

-----------------------------------------------------------------------------
(* Where timers and commands come from, and where they go.                  *)

DeletePending(t) == In(commands, Command("delete", t)) \/ In(ps.todo, Command("delete", t))

Launched(t) == timer[t].active \/ In(commands, Command("start", t))

\* The steps that make no timer and send no command.
Still ==
  /\ UNCHANGED <<timer, commands, handle_heartbeat_task, mem_monitor_timer_handle>>
  /\ ps'.todo = ps.todo /\ ps'.next = ps.next

LEMMA StillSteps ==
  ASSUME [Next]_vars
  PROVE  \/ Still /\ UNCHANGED <<heartbeatWanted, escaped>>
         \/ \E enable \in BOOLEAN : ConfigureHeartbeat(enable) \/ MemMonitorSetup(enable)
         \/ \E t \in Timers : Expire(t)
         \/ HandleCommand \/ SendCommand \/ StartHeartbeat \/ StartMemMonitor \/ OtaActivate
<1> USE DEF Still, timers, heartbeat, ota
<1>1. UNCHANGED vars => Still /\ UNCHANGED <<heartbeatWanted, escaped>>
  BY DEF vars
<1>2. HostAsks \/ OtherEvent \/ SendEvent \/ OtherRequest
        => Still /\ UNCHANGED <<heartbeatWanted, escaped>>
  BY DEF HostAsks, OtherEvent, SendEvent, OtherRequest
<1>3. OtaBegin \/ OtaWrite \/ OtaEnd => Still /\ UNCHANGED <<heartbeatWanted, escaped>>
  BY DEF OtaBegin, OtaWrite, OtaEnd
<1>4. Wake \/ Drained \/ Callback => Still /\ UNCHANGED <<heartbeatWanted, escaped>>
  BY DEF Wake, Drained, Callback, Report, NothingToReport, Restart
<1>5. QED
  BY <1>1, <1>2, <1>3, <1>4 DEF Next, PserialTask, Daemon

LEMMA KindsComeFrom ==
  ASSUME Valued, [Next]_vars, NEW t \in Timers
  PROVE  \/ timer'[t].kind = timer[t].kind
         \/ timer'[t].kind = "none"
         \/ StartHeartbeat /\ timer'[t].kind = "heartbeat" /\ t = handle_heartbeat_task'
         \/ StartMemMonitor /\ timer'[t].kind = "mem_monitor" /\ t = mem_monitor_timer_handle'
         \/ OtaActivate /\ timer'[t].kind = "ota" /\ image = "whole"
<1> USE DEF timers, heartbeat, ota
<1>1. CASE Still
  BY <1>1 DEF Still
<1>2. ASSUME NEW enable \in BOOLEAN, ConfigureHeartbeat(enable) \/ MemMonitorSetup(enable)
      PROVE  timer' = timer
  BY <1>2 DEF ConfigureHeartbeat, MemMonitorSetup
<1>3. ASSUME NEW u \in Timers, Expire(u)
      PROVE  timer'[t].kind = timer[t].kind
  BY <1>3, ExpireTyped
<1>4. CASE HandleCommand
  BY <1>4, HandleTyped
<1>5. CASE SendCommand
  BY <1>5 DEF SendCommand
<1>6. ASSUME NEW k \in Kinds, FreeTimers # {},
             timer' = [timer EXCEPT ![NextTimer] = Created(k)]
      PROVE  timer'[t].kind = timer[t].kind \/ (t = NextTimer /\ timer'[t].kind = k)
  <2>1. timer'[NextTimer] = Created(k) /\ \A u \in Timers : u # NextTimer => timer'[u] = timer[u]
    BY <1>6, MadeTyped
  <2>2. Created(k).kind = k
    BY Helpers
  <2>3. QED
    BY <2>1, <2>2
<1>7. CASE StartHeartbeat
  BY <1>6, <1>7 DEF StartHeartbeat, Kinds
<1>8. CASE StartMemMonitor
  BY <1>6, <1>8 DEF StartMemMonitor, Kinds
<1>9. CASE OtaActivate
  BY <1>6, <1>9 DEF OtaActivate, ArmRestart, Kinds
<1>10. QED
  BY <1>1, <1>2, <1>3, <1>4, <1>5, <1>7, <1>8, <1>9, StillSteps

\* A step that starts a timer appends the start, or finds no room for it.
LEMMA CommandsOfStarts ==
  ASSUME Valued, StartHeartbeat \/ OtaActivate
  PROVE  \/ commands' = commands
         \/ /\ Command("start", NextTimer) \in Commands
            /\ commands' = Append(commands, Command("start", NextTimer))
            /\ \/ StartHeartbeat /\ NextTimer = handle_heartbeat_task'
               \/ timer'[NextTimer].kind = "ota"
<1> USE DEF timers
<1>1. FreeTimers # {} => Command("start", NextTimer) \in Commands
  BY Helpers
<1>2. CASE StartHeartbeat
  <2>1. CASE FreeTimers # {} /\ timer' = [timer EXCEPT ![NextTimer] = Created("heartbeat")]
    BY <1>1, <1>2, <2>1, MadeTyped, Helpers DEF StartHeartbeat, Kinds
  <2>2. QED
    BY <1>2, <2>1 DEF StartHeartbeat
<1>3. CASE OtaActivate
  <2>1. CASE FreeTimers # {} /\ timer' = [timer EXCEPT ![NextTimer] = Created("ota")]
    BY <1>1, <1>3, <2>1, MadeTyped, Helpers DEF OtaActivate, ArmRestart, Kinds
  <2>2. QED
    BY <1>3, <2>1 DEF OtaActivate, ArmRestart
<1>4. QED
  BY <1>2, <1>3

\* What pserial_task has yet to send, once its handler has run.
LEMMA TodoOfRequests ==
  ASSUME Valued, NEW c
  PROVE  /\ ps = Waiting => ~In(ps.todo, c)
         /\ \A h : In(StopAndDelete(h), c) <=> c = Command("stop", h) \/ c = Command("delete", h)
<1>1. ps = Waiting => ps.todo = <<>>
  BY DEF Waiting
<1>2. QED
  BY <1>1, InNothing, InPair DEF StopAndDelete

\* The deletion of a timer stays on its way until the timer is free.
LEMMA DeletesArrive ==
  ASSUME Valued, [Next]_vars, NEW t \in Timers, DeletePending(t)
  PROVE  DeletePending(t)' \/ timer'[t].kind = "none"
<1> DEFINE c == Command("delete", t)
<1> USE DEF timers, heartbeat, ota
<1>1. In(commands, c) \/ In(ps.todo, c)
  BY DEF DeletePending
<1>2. (In(commands', c) \/ In(ps'.todo, c)) => DeletePending(t)'
  BY DEF DeletePending, Command
<1>3. c.do = "delete" /\ c.timer = t /\ c # Command("start", NextTimer)
  BY DEF Command
<1> HIDE DEF c
<1> SUFFICES In(commands', c) \/ In(ps'.todo, c) \/ timer'[t].kind = "none"
  BY <1>2
<1>4. CASE Still
  BY <1>1, <1>4 DEF Still
<1>5. ASSUME NEW enable \in BOOLEAN, ConfigureHeartbeat(enable) \/ MemMonitorSetup(enable)
      PROVE  In(commands', c)
  <2>1. ps = Waiting /\ commands' = commands
    BY <1>5 DEF ConfigureHeartbeat, MemMonitorSetup, Take
  <2>2. ~In(ps.todo, c)
    BY <2>1, TodoOfRequests
  <2>3. QED
    BY <1>1, <2>1, <2>2
<1>6. ASSUME NEW u \in Timers, Expire(u)
      PROVE  In(commands', c) \/ In(ps'.todo, c)
  BY <1>1, <1>6 DEF Expire
<1>7. CASE HandleCommand
  <2>1. ps' = ps
    BY <1>7 DEF HandleCommand
  <2>2. CASE In(commands, c)
    <3>1. commands \in Seq(Commands) /\ commands # <<>> /\ commands' = Tail(commands)
      BY <1>7, HandleTyped DEF Valued
    <3>2. In(commands', c) \/ c = Head(commands)
      BY <2>2, <3>1, InTail
    <3>3. QED
      BY <1>3, <1>7, <3>2, HandleTyped
  <2>3. QED
    BY <1>1, <2>1, <2>2
<1>8. CASE SendCommand
  <2>1. ps.todo \in Seq(Commands) /\ ps.todo # <<>> /\ commands \in Seq(Commands)
    BY <1>8 DEF SendCommand, Valued
  <2>2. Head(ps.todo) \in Commands
    BY <2>1, TailFacts
  <2>3. \A r : r = Append(commands, Head(ps.todo))
                 => (In(r, c) <=> In(commands, c) \/ c = Head(ps.todo))
    BY <2>1, <2>2, InAppend
  <2>4. \A r : r = Tail(ps.todo) => (In(ps.todo, c) => In(r, c) \/ c = Head(ps.todo))
    BY <2>1, InTail
  <2>5. commands' = Append(commands, Head(ps.todo)) /\ ps'.todo = Tail(ps.todo)
    BY <1>8 DEF SendCommand, Valued
  <2>6. QED
    BY <1>1, <2>3, <2>4, <2>5
<1>9. CASE StartHeartbeat \/ OtaActivate
  <2>1. ps.todo = <<>>
    BY <1>9 DEF StartHeartbeat, OtaActivate, Take, Waiting
  <2>2. In(commands, c)
    BY <1>1, <2>1, InNothing
  <2>3. commands \in Seq(Commands)
    BY DEF Valued
  <2>4. QED
    BY <1>9, <2>2, <2>3, CommandsOfStarts, InAppend
<1>10. CASE StartMemMonitor
  <2>1. ps.todo = <<>> /\ commands' = commands
    BY <1>10 DEF StartMemMonitor
  <2>2. QED
    BY <1>1, <2>1, InNothing
<1>11. QED
  BY <1>4, <1>5, <1>6, <1>7, <1>8, <1>9, <1>10, StillSteps

-----------------------------------------------------------------------------
(* The update.                                                              *)

\* The partition to boot holds what was activated: the handle of the update is
\* closed then, and only another update opens it.
Imaged ==
  /\ boot = "update" => reopened \/ (image = "whole" /\ ~open)
  /\ ota_status = "COMPLETED" => ~open
  /\ \A t \in Timers : timer[t].kind = "ota" => boot = "update"
  /\ restarted => boot = "update"

LEMMA BootStays ==
  ASSUME [Next]_vars, boot = "update" PROVE boot' = "update"
<1> USE DEF timers, heartbeat, ota
<1>1. UNCHANGED vars => boot' = boot
  BY DEF vars
<1>2. HostAsks \/ OtherEvent => boot' = boot
  BY DEF HostAsks, OtherEvent
<1>3. SendEvent \/ OtherRequest \/ SendCommand \/ StartHeartbeat \/ StartMemMonitor
        => boot' = boot
  BY DEF SendEvent, OtherRequest, SendCommand, StartHeartbeat, StartMemMonitor
<1>4. \A enable \in BOOLEAN :
        ConfigureHeartbeat(enable) \/ MemMonitorSetup(enable) => boot' = boot
  BY DEF ConfigureHeartbeat, MemMonitorSetup
<1>5. OtaBegin \/ OtaWrite \/ OtaEnd => boot' = boot
  BY DEF OtaBegin, OtaWrite, OtaEnd
<1>6. OtaActivate => boot' \in {boot, "update"}
  BY DEF OtaActivate
<1>7. (\E t \in Timers : Expire(t)) \/ Wake \/ HandleCommand \/ Drained \/ Callback
        => boot' = boot
  BY DEF Expire, Wake, HandleCommand, Drained, Callback, Report, NothingToReport, Restart
<1>8. QED
  BY <1>1, <1>2, <1>3, <1>4, <1>5, <1>6, <1>7 DEF Next, PserialTask, Daemon

LEMMA ImagedKept == Valued /\ Imaged /\ [Next]_vars => Imaged'
<1> SUFFICES ASSUME Valued, Imaged, [Next]_vars PROVE Imaged'
  OBVIOUS
<1>1. /\ boot' = "update" => reopened' \/ (image' = "whole" /\ ~open')
      /\ ota_status' = "COMPLETED" => ~open'
      /\ restarted' => restarted \/ (Restart /\ boot' = boot)
      /\ OtaActivate /\ image = "whole" => boot' = "update"
  <2> USE DEF timers, heartbeat, ota, Imaged
  <2>1. CASE UNCHANGED vars
    BY <2>1 DEF vars, OtaActivate
  <2>2. CASE HostAsks \/ OtherEvent
    BY <2>2 DEF HostAsks, OtherEvent, OtaActivate
  <2>3. CASE SendEvent \/ OtherRequest \/ SendCommand \/ StartHeartbeat \/ StartMemMonitor
    BY <2>3 DEF SendEvent, OtherRequest, SendCommand, StartHeartbeat, StartMemMonitor,
                OtaActivate
  <2>4. ASSUME NEW enable \in BOOLEAN, ConfigureHeartbeat(enable) \/ MemMonitorSetup(enable)
        PROVE  /\ boot' = "update" => reopened' \/ (image' = "whole" /\ ~open')
               /\ ota_status' = "COMPLETED" => ~open'
               /\ restarted' => restarted \/ (Restart /\ boot' = boot)
               /\ OtaActivate /\ image = "whole" => boot' = "update"
    BY <2>4 DEF ConfigureHeartbeat, MemMonitorSetup, OtaActivate
  <2>5. CASE OtaBegin
    <3>1. boot' = boot /\ restarted' = restarted
      BY <2>5 DEF OtaBegin
    <3>2. CASE /\ ota_status' = "IN_PROGRESS" /\ open' = TRUE /\ image' = "other"
               /\ reopened' = (reopened \/ boot = "update")
      BY <3>1, <3>2 DEF OtaActivate
    <3>3. CASE /\ image' \in {image, "other"}
               /\ reopened' = (reopened \/ (boot = "update" /\ image' # image))
               /\ UNCHANGED <<ota_status, open>>
      BY <3>1, <3>3 DEF OtaActivate
    <3>4. QED
      BY <2>5, <3>2, <3>3 DEF OtaBegin
  <2>6. CASE OtaWrite
    BY <2>6 DEF OtaWrite, OtaActivate
  <2>7. CASE OtaEnd
    BY <2>7 DEF OtaEnd, OtaActivate
  <2>8. CASE OtaActivate
    BY <2>8 DEF OtaActivate
  <2>9. CASE \E t \in Timers : Expire(t)
    BY <2>9 DEF Expire, OtaActivate
  <2>10. CASE Wake \/ HandleCommand \/ Drained \/ Report \/ NothingToReport
    BY <2>10 DEF Wake, HandleCommand, Drained, Report, NothingToReport, OtaActivate
  <2>11. CASE Restart
    BY <2>11 DEF Restart, OtaActivate
  <2>12. QED
    BY <2>1, <2>2, <2>3, <2>4, <2>5, <2>6, <2>7, <2>8, <2>9, <2>10, <2>11
       DEF Next, PserialTask, Daemon, Callback
<1>2. ASSUME NEW t \in Timers, timer'[t].kind = "ota" PROVE boot' = "update"
  <2>1. timer[t].kind = "ota" \/ (OtaActivate /\ image = "whole")
    BY <1>2, KindsComeFrom
  <2>2. QED
    BY <1>1, <2>1, BootStays DEF Imaged
<1>3. restarted' => boot' = "update"
  <2>1. Restart => daemon.timer \in Timers /\ timer[daemon.timer].kind = "ota"
    BY DEF Restart, InCallback, Valued, DaemonStates
  <2>2. QED
    BY <1>1, <2>1, BootStays DEF Imaged
<1>4. QED
  BY <1>1, <1>2, <1>3 DEF Imaged

-----------------------------------------------------------------------------
(* The memory monitor and the heartbeat.                                    *)

\* A timer of the memory monitor is the one the handle names, or is being deleted.
MonitorsKnown ==
  \A t \in Timers :
    timer[t].kind = "mem_monitor" => t = mem_monitor_timer_handle \/ DeletePending(t)

Monitors ==
  /\ MonitorsKnown
  /\ ps.next = "mem_monitor" => mem_monitor_timer_handle = NoTimer

\* What pserial_task has to send after a request.
LEMMA TodoAfter ==
  ASSUME Valued, NEW enable \in BOOLEAN, NEW t
  PROVE  /\ ConfigureHeartbeat(enable) \/ MemMonitorSetup(enable)
              => ~In(ps'.todo, Command("start", t))
         /\ ConfigureHeartbeat(enable) /\ Active(handle_heartbeat_task)
              => In(ps'.todo, Command("delete", handle_heartbeat_task))
         /\ MemMonitorSetup(enable) /\ mem_monitor_timer_handle # NoTimer
              => In(ps'.todo, Command("delete", mem_monitor_timer_handle))
<1>1. \A h : /\ Command("start", t) # Command("stop", h)
             /\ Command("start", t) # Command("delete", h)
  BY DEF Command
<1>2. \A h : /\ ~In(StopAndDelete(h), Command("start", t))
             /\ ~In(<<Command("delete", h)>>, Command("start", t))
             /\ In(StopAndDelete(h), Command("delete", h))
             /\ In(<<Command("delete", h)>>, Command("delete", h))
  BY <1>1, TodoOfRequests, InOne
<1>3. \A c : ~In(<<>>, c)
  BY InNothing
<1>4. ConfigureHeartbeat(enable)
        => ps'.todo = IF Active(handle_heartbeat_task)
                        THEN StopAndDelete(handle_heartbeat_task) ELSE <<>>
  BY DEF ConfigureHeartbeat
<1>5. MemMonitorSetup(enable)
        => ps'.todo = IF mem_monitor_timer_handle = NoTimer THEN <<>>
                      ELSE IF Active(mem_monitor_timer_handle)
                        THEN StopAndDelete(mem_monitor_timer_handle)
                      ELSE <<Command("delete", mem_monitor_timer_handle)>>
  BY DEF MemMonitorSetup
<1>6. QED
  BY <1>2, <1>3, <1>4, <1>5

LEMMA MonitorsKept == Valued /\ Monitors /\ [Next]_vars => Monitors'
<1> SUFFICES ASSUME Valued, Monitors, [Next]_vars PROVE Monitors'
  OBVIOUS
<1> USE DEF timers, heartbeat, ota
<1>1. \/ mem_monitor_timer_handle' = mem_monitor_timer_handle
           /\ (ps'.next = "mem_monitor" => ps.next = "mem_monitor")
      \/ \E enable \in BOOLEAN : MemMonitorSetup(enable) /\ mem_monitor_timer_handle' = NoTimer
      \/ StartMemMonitor /\ ps.next = "mem_monitor" /\ ps'.next = "wait"
  <2>1. CASE Still
    BY <2>1 DEF Still
  <2>2. ASSUME NEW enable \in BOOLEAN, ConfigureHeartbeat(enable)
        PROVE  mem_monitor_timer_handle' = mem_monitor_timer_handle
                 /\ ps'.next # "mem_monitor"
    BY <2>2 DEF ConfigureHeartbeat
  <2>3. ASSUME NEW enable \in BOOLEAN, MemMonitorSetup(enable)
        PROVE  mem_monitor_timer_handle' = NoTimer
    BY <2>3 DEF MemMonitorSetup
  <2>4. ASSUME NEW t \in Timers, Expire(t)
        PROVE  mem_monitor_timer_handle' = mem_monitor_timer_handle /\ ps' = ps
    BY <2>4 DEF Expire
  <2>5. CASE HandleCommand \/ OtaActivate
    BY <2>5 DEF HandleCommand, OtaActivate
  <2>6. CASE SendCommand
    <3>1. ps'.next = ps.next
      BY <2>6 DEF SendCommand, Valued
    <3>2. QED
      BY <2>6, <3>1 DEF SendCommand
  <2>7. CASE StartHeartbeat
    BY <2>7 DEF StartHeartbeat, Waiting
  <2>8. CASE StartMemMonitor
    BY <2>8 DEF StartMemMonitor, Waiting
  <2>9. QED
    BY <2>1, <2>2, <2>3, <2>4, <2>5, <2>6, <2>7, <2>8, StillSteps
<1>2. ASSUME NEW t \in Timers, timer'[t].kind = "mem_monitor"
      PROVE  t = mem_monitor_timer_handle' \/ DeletePending(t)'
  <2>1. timer[t].kind = "mem_monitor" \/ (StartMemMonitor /\ t = mem_monitor_timer_handle')
    BY <1>2, KindsComeFrom
  <2>2. DeletePending(t) => DeletePending(t)'
    BY <1>2, DeletesArrive
  <2>3. CASE timer[t].kind = "mem_monitor" /\ t = mem_monitor_timer_handle
    <3>1. t # NoTimer
      BY Constants
    <3>2. CASE ps.next = "mem_monitor"
      BY <2>3, <3>1, <3>2 DEF Monitors
    <3>3. ASSUME NEW enable \in BOOLEAN, MemMonitorSetup(enable)
          PROVE  DeletePending(t)'
      <4>1. In(ps'.todo, Command("delete", t))
        BY <2>3, <3>1, <3>3, TodoAfter
      <4>2. QED
        BY <4>1 DEF DeletePending, Command
    <3>4. QED
      BY <1>1, <2>3, <3>2, <3>3
  <2>4. QED
    BY <2>1, <2>2, <2>3 DEF Monitors, MonitorsKnown
<1>3. ps'.next = "mem_monitor" => mem_monitor_timer_handle' = NoTimer
  BY <1>1 DEF Monitors
<1>4. QED
  BY <1>2, <1>3 DEF Monitors, MonitorsKnown

\* A heartbeat that goes on or is about to, and that no stop came too early for.
Beating(t) == timer[t].kind = "heartbeat" /\ Launched(t) /\ t \notin escaped

HeartbeatsKnown ==
  \A t \in Timers :
    Beating(t) => \/ t = handle_heartbeat_task /\ heartbeatWanted /\ ps.next # "heartbeat"
                  \/ DeletePending(t)

Heartbeats ==
  /\ HeartbeatsKnown
  /\ ps.next = "heartbeat" => heartbeatWanted
  /\ \A t \in Timers :
       In(ps.todo, Command("start", t)) => timer[t].kind \in {"mem_monitor", "none"}

LEMMA LaunchesComeFrom ==
  ASSUME Valued, [Next]_vars, NEW t \in Timers, Launched(t)'
  PROVE  \/ Launched(t)
         \/ SendCommand /\ In(ps.todo, Command("start", t))
         \/ StartHeartbeat /\ t = handle_heartbeat_task'
         \/ timer'[t].kind = "ota"
<1> DEFINE c == Command("start", t)
<1> USE DEF timers, heartbeat, ota
<1>1. timer'[t].active \/ In(commands', c)
  BY DEF Launched, Command
<1>2. timer[t].active \/ In(commands, c) => Launched(t)
  BY DEF Launched
<1>3. \A u \in Timers : c = Command("start", u) => t = u
  BY DEF Command
<1> HIDE DEF c
<1>4. CASE Still
  BY <1>1, <1>2, <1>4 DEF Still
<1>5. ASSUME NEW enable \in BOOLEAN, ConfigureHeartbeat(enable) \/ MemMonitorSetup(enable)
      PROVE  Launched(t)
  BY <1>1, <1>2, <1>5 DEF ConfigureHeartbeat, MemMonitorSetup
<1>6. ASSUME NEW u \in Timers, Expire(u)
      PROVE  Launched(t)
  <2>1. commands' = commands
    BY <1>6 DEF Expire
  <2>2. QED
    BY <1>1, <1>2, <1>6, <2>1, ExpireTyped
<1>7. CASE HandleCommand
  <2>1. /\ commands \in Seq(Commands) /\ commands # <<>> /\ commands' = Tail(commands)
        /\ timer'[t].active => timer[t].active \/ Head(commands) = c
    BY <1>7, HandleTyped DEF Valued, c
  <2>2. In(commands', c) => In(commands, c)
    BY <2>1, InTail
  <2>3. In(commands, Head(commands))
    BY <2>1, TailFacts DEF In
  <2>4. QED
    BY <1>1, <1>2, <2>1, <2>2, <2>3
<1>8. CASE SendCommand
  <2>1. ps.todo \in Seq(Commands) /\ ps.todo # <<>> /\ commands \in Seq(Commands)
    BY <1>8 DEF SendCommand, Valued
  <2>2. Head(ps.todo) \in Commands /\ In(ps.todo, Head(ps.todo))
    BY <2>1, TailFacts DEF In
  <2>3. \A r : r = Append(commands, Head(ps.todo))
                 => (In(r, c) <=> In(commands, c) \/ c = Head(ps.todo))
    BY <2>1, <2>2, InAppend
  <2>4. commands' = Append(commands, Head(ps.todo)) /\ timer' = timer
    BY <1>8 DEF SendCommand
  <2>5. QED
    BY <1>1, <1>2, <1>8, <2>2, <2>3, <2>4 DEF c
<1>9. ASSUME NEW k \in Kinds, FreeTimers # {},
             timer' = [timer EXCEPT ![NextTimer] = Created(k)]
      PROVE  timer'[t].active => timer[t].active
  <2>1. timer'[NextTimer] = Created(k) /\ \A u \in Timers : u # NextTimer => timer'[u] = timer[u]
    BY <1>9, MadeTyped
  <2>2. Created(k).active = FALSE
    BY Helpers
  <2>3. QED
    BY <2>1, <2>2
<1>10. CASE StartHeartbeat \/ OtaActivate
  <2>1. timer'[t].active => timer[t].active
    BY <1>9, <1>10 DEF StartHeartbeat, OtaActivate, ArmRestart, Kinds
  <2>2. commands \in Seq(Commands) /\ (FreeTimers # {} => NextTimer \in Timers)
    BY Helpers DEF Valued
  <2>3. CASE commands' = commands
    BY <1>1, <1>2, <2>1, <2>3
  <2>4. CASE /\ Command("start", NextTimer) \in Commands
             /\ commands' = Append(commands, Command("start", NextTimer))
             /\ \/ StartHeartbeat /\ NextTimer = handle_heartbeat_task'
                \/ timer'[NextTimer].kind = "ota"
    <3>1. In(commands', c) => In(commands, c) \/ c = Command("start", NextTimer)
      BY <2>2, <2>4, InAppend
    <3>2. c = Command("start", NextTimer) => t = NextTimer
      BY DEF c, Command
    <3>3. QED
      BY <1>1, <1>2, <2>1, <2>4, <3>1, <3>2
  <2>5. QED
    BY <1>10, <2>3, <2>4, CommandsOfStarts
<1>11. CASE StartMemMonitor
  <2>1. timer'[t].active => timer[t].active
    BY <1>9, <1>11 DEF StartMemMonitor, Kinds
  <2>2. QED
    BY <1>1, <1>2, <1>11, <2>1 DEF StartMemMonitor
<1>12. QED
  BY <1>4, <1>5, <1>6, <1>7, <1>8, <1>10, <1>11, StillSteps DEF c

LEMMA HeartbeatsKept == Valued /\ Heartbeats /\ [Next]_vars => Heartbeats'
<1> SUFFICES ASSUME Valued, Heartbeats, [Next]_vars PROVE Heartbeats'
  OBVIOUS
<1> USE DEF timers, heartbeat, ota
<1>1. \/ /\ UNCHANGED <<handle_heartbeat_task, heartbeatWanted, escaped>>
         /\ ps'.next = "heartbeat" => ps.next = "heartbeat"
      \/ \E enable \in BOOLEAN : ConfigureHeartbeat(enable)
      \/ /\ StartHeartbeat /\ ps.next = "heartbeat" /\ ps'.next = "wait"
         /\ UNCHANGED <<heartbeatWanted, escaped>>
  <2>1. CASE Still /\ UNCHANGED <<heartbeatWanted, escaped>>
    BY <2>1 DEF Still
  <2>2. ASSUME NEW enable \in BOOLEAN, MemMonitorSetup(enable)
        PROVE  /\ UNCHANGED <<handle_heartbeat_task, heartbeatWanted, escaped>>
               /\ ps'.next # "heartbeat"
    BY <2>2 DEF MemMonitorSetup
  <2>3. ASSUME NEW t \in Timers, Expire(t)
        PROVE  UNCHANGED <<handle_heartbeat_task, heartbeatWanted, escaped, ps>>
    BY <2>3 DEF Expire
  <2>4. CASE HandleCommand \/ OtaActivate
    BY <2>4 DEF HandleCommand, OtaActivate
  <2>5. CASE SendCommand
    <3>1. ps'.next = ps.next
      BY <2>5 DEF SendCommand, Valued
    <3>2. QED
      BY <2>5, <3>1 DEF SendCommand
  <2>6. CASE StartHeartbeat
    BY <2>6 DEF StartHeartbeat, Waiting
  <2>7. CASE StartMemMonitor
    BY <2>7 DEF StartMemMonitor, Waiting
  <2>8. QED
    BY <2>1, <2>2, <2>3, <2>4, <2>5, <2>6, <2>7, StillSteps
<1>2. ASSUME NEW t \in Timers, Beating(t)'
      PROVE  \/ t = handle_heartbeat_task' /\ heartbeatWanted' /\ ps'.next # "heartbeat"
             \/ DeletePending(t)'
  <2>1. timer'[t].kind = "heartbeat" /\ Launched(t)' /\ t \notin escaped'
    BY <1>2 DEF Beating
  <2>2. timer[t].kind = "heartbeat" \/ (StartHeartbeat /\ t = handle_heartbeat_task')
    BY <2>1, KindsComeFrom
  <2>3. DeletePending(t) => DeletePending(t)'
    BY <2>1, DeletesArrive
  <2>4. StartHeartbeat /\ t = handle_heartbeat_task' => heartbeatWanted' /\ ps'.next # "heartbeat"
    BY DEF StartHeartbeat, Waiting, Heartbeats
  <2>5. CASE StartHeartbeat /\ t = handle_heartbeat_task'
    BY <2>4, <2>5
  <2>6. CASE ~(StartHeartbeat /\ t = handle_heartbeat_task')
    <3>1. timer[t].kind = "heartbeat" /\ Launched(t)
      BY <2>1, <2>2, <2>6, LaunchesComeFrom DEF Heartbeats
    <3>2. CASE /\ UNCHANGED <<handle_heartbeat_task, heartbeatWanted, escaped>>
               /\ ps'.next = "heartbeat" => ps.next = "heartbeat"
      <4>1. Beating(t)
        BY <2>1, <3>1, <3>2 DEF Beating
      <4>2. QED
        BY <2>3, <3>2, <4>1 DEF Heartbeats, HeartbeatsKnown
    <3>3. CASE StartHeartbeat /\ ps.next = "heartbeat" /\ UNCHANGED <<heartbeatWanted, escaped>>
      <4>1. Beating(t)
        BY <2>1, <3>1, <3>3 DEF Beating
      <4>2. QED
        BY <2>3, <3>3, <4>1 DEF Heartbeats, HeartbeatsKnown
    <3>4. ASSUME NEW enable \in BOOLEAN, ConfigureHeartbeat(enable)
          PROVE  DeletePending(t)'
      <4>1. CASE t # handle_heartbeat_task
        <5>1. t \notin escaped
          BY <2>1, <3>4, <4>1 DEF ConfigureHeartbeat
        <5>2. QED
          BY <2>3, <3>1, <4>1, <5>1 DEF Beating, Heartbeats, HeartbeatsKnown
      <4>2. CASE t = handle_heartbeat_task /\ timer[t].active
        <5>1. Active(handle_heartbeat_task)
          BY <4>2, Constants DEF Active
        <5>2. In(ps'.todo, Command("delete", t))
          BY <3>4, <4>2, <5>1, TodoAfter
        <5>3. QED
          BY <5>2 DEF DeletePending, Command
      <4>3. CASE t = handle_heartbeat_task /\ ~timer[t].active
        <5>1. In(commands, Command("start", t))
          BY <3>1, <4>3 DEF Launched
        <5>2. Starting(t)
          BY <5>1 DEF Starting, In, Valued
        <5>3. ~Active(t)
          BY <4>3 DEF Active
        <5>4. t \in escaped'
          BY <3>4, <4>3, <5>2, <5>3 DEF ConfigureHeartbeat
        <5>5. QED
          BY <2>1, <5>4
      <4>4. QED
        BY <4>1, <4>2, <4>3
    <3>5. QED
      BY <1>1, <3>2, <3>3, <3>4
  <2>7. QED
    BY <2>5, <2>6
<1>3. ps'.next = "heartbeat" => heartbeatWanted'
  <2>1. ASSUME NEW enable \in BOOLEAN, ConfigureHeartbeat(enable)
        PROVE  ps'.next = "heartbeat" => heartbeatWanted'
    BY <2>1 DEF ConfigureHeartbeat
  <2>2. QED
    BY <1>1, <2>1 DEF Heartbeats
<1>4. ASSUME NEW t \in Timers, In(ps'.todo, Command("start", t))
      PROVE  timer'[t].kind \in {"mem_monitor", "none"}
  <2>1. CASE Still
    BY <1>4, <2>1 DEF Still, Heartbeats
  <2>2. ASSUME NEW enable \in BOOLEAN, ConfigureHeartbeat(enable) \/ MemMonitorSetup(enable)
        PROVE  FALSE
    BY <1>4, <2>2, TodoAfter
  <2>3. ASSUME NEW u \in Timers, Expire(u)
        PROVE  timer'[t].kind \in {"mem_monitor", "none"}
    <3>1. ps' = ps
      BY <2>3 DEF Expire
    <3>2. timer'[t].kind = timer[t].kind
      BY <2>3, ExpireTyped
    <3>3. QED
      BY <1>4, <3>1, <3>2 DEF Heartbeats
  <2>4. CASE HandleCommand
    <3>1. ps' = ps
      BY <2>4 DEF HandleCommand
    <3>2. timer'[t].kind \in {timer[t].kind, "none"}
      BY <2>4, HandleTyped
    <3>3. QED
      BY <1>4, <3>1, <3>2 DEF Heartbeats
  <2>5. CASE SendCommand
    <3>1. ps.todo \in Seq(Commands) /\ ps.todo # <<>>
      BY <2>5 DEF SendCommand, Valued
    <3>2. \A r : r = Tail(ps.todo) =>
            (In(r, Command("start", t)) => In(ps.todo, Command("start", t)))
      BY <3>1, InTail
    <3>3. ps'.todo = Tail(ps.todo) /\ timer' = timer
      BY <2>5 DEF SendCommand, Valued
    <3>4. QED
      BY <1>4, <3>2, <3>3 DEF Heartbeats
  <2>6. CASE StartHeartbeat \/ OtaActivate
    <3>1. ps'.todo = <<>>
      BY <2>6 DEF StartHeartbeat, OtaActivate, Take, Waiting
    <3>2. QED
      BY <1>4, <3>1, InNothing
  <2>7. CASE StartMemMonitor
    <3>1. CASE /\ FreeTimers # {}
               /\ timer' = [timer EXCEPT ![NextTimer] = Created("mem_monitor")]
               /\ ps'.todo = <<Command("start", NextTimer)>>
      <4>1. Command("start", t) = Command("start", NextTimer)
        BY <1>4, <3>1, InOne
      <4>2. t = NextTimer
        BY <4>1 DEF Command
      <4>3. timer'[NextTimer] = Created("mem_monitor")
        BY <3>1, MadeTyped DEF Kinds
      <4>4. QED
        BY <4>2, <4>3 DEF Created
    <3>2. CASE ps'.todo = <<>>
      BY <1>4, <3>2, InNothing
    <3>3. QED
      BY <2>7, <3>1, <3>2 DEF StartMemMonitor, Waiting
  <2>8. QED
    BY <2>1, <2>2, <2>3, <2>4, <2>5, <2>6, <2>7, StillSteps
<1>5. QED
  BY <1>2, <1>3, <1>4 DEF Heartbeats, HeartbeatsKnown

-----------------------------------------------------------------------------
(* The theorems.                                                            *)

Inv == TypeOK /\ Imaged /\ Monitors /\ Heartbeats

LEMMA InitInv == Init => Inv
<1> SUFFICES ASSUME Init PROVE Inv
  OBVIOUS
<1>1. \A t \in Timers : timer[t].kind = "none"
  BY DEF Init, Free
<1>2. TypeOK
  <2>1. Flagged
    BY DEF Init, Flagged
  <2>2. Valued
    <3>1. timer \in [Timers -> Timer]
      BY DEF Init, Free, Timer
    <3>2. QED
      BY <3>1, Constants DEF Init, Valued, DaemonStates, Top, Waiting, Handles
  <2>3. QED
    BY <2>1, <2>2, TypesSplit
<1>3. Imaged
  BY <1>1 DEF Init, Imaged
<1>4. Monitors
  BY <1>1 DEF Init, Monitors, MonitorsKnown, Waiting
<1>5. Heartbeats
  BY <1>1 DEF Init, Heartbeats, HeartbeatsKnown, Waiting, Beating
<1>6. QED
  BY <1>2, <1>3, <1>4, <1>5 DEF Inv

\* The inductive invariant holds in every behaviour: the types, what is known of
\* the image to boot, and of every timer that was made and not freed yet.
THEOREM Invariance == Spec => []Inv
<1>1. Inv /\ [Next]_vars => Inv'
  BY TypesKept, TypesSplit, ImagedKept, MonitorsKept, HeartbeatsKept DEF Inv
<1>2. QED
  BY InitInv, <1>1, PTL DEF Spec

\* In every state of every behaviour the variables have their types: neither queue
\* grows beyond its length, and the handles name timers or none.
THEOREM TypeCorrect == Spec => []TypeOK
<1>1. Inv => TypeOK
  BY DEF Inv
<1>2. QED
  BY <1>1, Invariance, PTL

\* The chip restarts only for an activated update, and into a whole image, unless
\* the host began another update between the activation and the restart:
\* req_ota_activate_handler and vTimerCallback.
THEOREM RestartIsIntoImage == Spec => []RestartsIntoImage
<1>1. Inv => RestartsIntoImage
  BY DEF Inv, Imaged, RestartsIntoImage
<1>2. QED
  BY <1>1, Invariance, PTL

\* mem_monitor_setup forgets no timer: each of the monitor's is the one that
\* mem_monitor_timer_handle names, or its deletion is on the way to the daemon,
\* however full the two queues are.
THEOREM NoMonitorIsForgotten == Spec => []MonitorsKnown
<1>1. Inv => MonitorsKnown
  BY DEF Inv, Monitors
<1>2. QED
  BY <1>1, Invariance, PTL

\* After the host has disabled the heartbeat, one that is active or whose start is
\* in the daemon's queue is about to be deleted, except those whose start was
\* still in that queue when stop_heartbeat looked at them.
THEOREM NoHeartbeatGoesOn ==
  Spec => [](~heartbeatWanted =>
               \A t \in Timers \ escaped :
                 timer[t].kind = "heartbeat" /\ Launched(t) => DeletePending(t))
<1>1. Inv => (~heartbeatWanted =>
                \A t \in Timers \ escaped :
                  timer[t].kind = "heartbeat" /\ Launched(t) => DeletePending(t))
  BY DEF Inv, Heartbeats, HeartbeatsKnown, Beating
<1>2. QED
  BY <1>1, Invariance, PTL

=============================================================================
