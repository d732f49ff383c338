------------------------------- MODULE SdioRx -------------------------------
(***************************************************************************)
(* The coprocessor's way from the host over SDIO: sdio_rx_task sorts what  *)
(* arrives into three queues, recv_task takes it out with sdio_read, the   *)
(* queue of serial packets first, and gives each buffer back to the driver *)
(* when the packet is processed.  sdio_rx_sem counts what is in the queues.*)
(* On the way in the first task tells the host to throttle its data when   *)
(* the queue of the others fills; on the way out the second one ends that. *)
(*                                                                         *)
(* The two tasks have one priority and share a core in time slices, so a   *)
(* step is a statement or a call of the kernel: the load, the flag         *)
(* current_throttling and the interrupt to the host are separate steps.    *)
(*                                                                         *)
(* External: the driver fills loaded buffers in the order in which the     *)
(* host sends, and a host sends only when a buffer is loaded.  What the    *)
(* WiFi driver and the RPC do with a packet is left out, except that they  *)
(* return; the host's configuration sets the two thresholds.               *)
(***************************************************************************)
EXTENDS Naturals, Sequences

CONSTANTS
  Buffers,             \* SDIO_NUM_RX_BUFFERS, also the length of each queue
  Serial, Bt, Others,  \* PRIO_Q_SERIAL, PRIO_Q_BT, PRIO_Q_OTHERS
  Bad,                 \* a packet of length 0, or longer than what was read
  Configs,             \* <<high, low>>: the thresholds a host may configure
  NoPacket

Queues == {Serial, Bt, Others}
Percent == 0 .. 255
Packets == Queues \cup {Bad} \cup Configs

ASSUME SdioRxAssumption ==
  /\ Buffers \in Nat \ {0}
  /\ Serial # Bt /\ Serial # Others /\ Bt # Others
  /\ Bad \notin Queues
  /\ Configs \subseteq Percent \X Percent
  /\ Configs \cap (Queues \cup {Bad}) = {}
  /\ NoPacket \notin Packets

VARIABLES
  datapath,        \* whether the data path is open
  loaded,          \* buffers that wait for a packet
  arrived,         \* packets in the driver, each in its buffer
  queue,           \* sdio_rx_queue
  sdio_rx_sem,     \* what the counting semaphore holds
  rx, rxPacket,    \* sdio_rx_task: what it does next, and the packet it has
  recv, recvPacket,\* recv_task
  high, low,       \* throttle_high_threshold, throttle_low_threshold
  throttling,      \* current_throttling
  hostThrottled    \* what the last interrupt told the host

rxTask == <<rx, rxPacket>>
recvTask == <<recv, recvPacket>>
flow == <<throttling, hostThrottled>>
vars == <<datapath, loaded, arrived, queue, sdio_rx_sem, rxTask, recvTask, high,
          low, flow>>

Init ==
  /\ datapath = FALSE
  /\ loaded = Buffers
  /\ arrived = <<>>
  /\ queue = [q \in Queues |-> <<>>]
  /\ sdio_rx_sem = 0
  /\ rx = "recv"
  /\ rxPacket = NoPacket
  /\ recv = "poll"
  /\ recvPacket = NoPacket
  /\ high = 0
  /\ low = 0
  /\ throttling = FALSE
  /\ hostThrottled = FALSE

-----------------------------------------------------------------------------
(* The host.                                                               *)

HostSends(p) ==
  /\ loaded > 0
  /\ loaded' = loaded - 1
  /\ arrived' = Append(arrived, p)
  /\ UNCHANGED <<datapath, queue, sdio_rx_sem, rxTask, recvTask, high, low, flow>>

\* ESP_OPEN_DATA_PATH and ESP_CLOSE_DATA_PATH.
SetDataPath ==
  /\ datapath' = ~datapath
  /\ UNCHANGED <<loaded, arrived, queue, sdio_rx_sem, rxTask, recvTask, high,
                 low, flow>>

-----------------------------------------------------------------------------
(* sdio_rx_task.                                                           *)

\* Configurations are private packets, which share the queue of the data.
QueueOf(p) == IF p \in {Serial, Bt} THEN p ELSE Others

\* load_percent, of the queue of the others alone.
Load == (Len(queue[Others]) * 100) \div Buffers

\* Mutants of RxRecv: a bad packet's buffer is not given back; it is, but the
\* packet is queued all the same.
RxRecvLosesBad ==
  /\ rx = "recv"
  /\ arrived # <<>>
  /\ arrived' = Tail(arrived)
  /\ IF Head(arrived) = Bad
       THEN UNCHANGED rxTask
       ELSE rxPacket' = Head(arrived) /\ rx' = "check"
  /\ UNCHANGED <<datapath, loaded, queue, sdio_rx_sem, recvTask, high, low, flow>>

RxRecvKeepsBad ==
  /\ rx = "recv"
  /\ arrived # <<>>
  /\ arrived' = Tail(arrived)
  /\ rxPacket' = Head(arrived)
  /\ rx' = "check"
  /\ loaded' = IF Head(arrived) = Bad THEN loaded + 1 ELSE loaded
  /\ UNCHANGED <<datapath, queue, sdio_rx_sem, recvTask, high, low, flow>>

\* sdio_slave_recv, and the checks of the header.
RxRecv ==
  /\ rx = "recv"
  /\ arrived # <<>>
  /\ arrived' = Tail(arrived)
  /\ IF Head(arrived) = Bad
       THEN /\ loaded' = loaded + 1
            /\ UNCHANGED rxTask
       ELSE /\ rxPacket' = Head(arrived)
            /\ rx' = "check"
            /\ UNCHANGED loaded
  /\ UNCHANGED <<datapath, queue, sdio_rx_sem, recvTask, high, low, flow>>

\* start_rx_data_throttling_if_needed, up to its decision: recv_task may take packets,
\* and another configuration, between the first look at the threshold and the second.
RxCheck ==
  /\ rx = "check"
  /\ rx' = IF high > 0 /\ ~throttling THEN "measure" ELSE "queue"
  /\ UNCHANGED <<datapath, loaded, arrived, queue, sdio_rx_sem, rxPacket,
                 recvTask, high, low, flow>>

RxMeasure ==
  /\ rx = "measure"
  /\ rx' = IF Load > high THEN "throttle" ELSE "queue"
  /\ UNCHANGED <<datapath, loaded, arrived, queue, sdio_rx_sem, rxPacket,
                 recvTask, high, low, flow>>

RxThrottle ==
  /\ rx = "throttle"
  /\ throttling' = TRUE
  /\ rx' = "interrupt"
  /\ UNCHANGED <<datapath, loaded, arrived, queue, sdio_rx_sem, rxPacket,
                 recvTask, high, low, hostThrottled>>

\* HOST_INT_START_THROTTLE
RxInterrupt ==
  /\ rx = "interrupt"
  /\ hostThrottled' = TRUE
  /\ rx' = "queue"
  /\ UNCHANGED <<datapath, loaded, arrived, queue, sdio_rx_sem, rxPacket,
                 recvTask, high, low, throttling>>

\* xQueueSend with portMAX_DELAY: the task would wait at a full queue.
RxQueue ==
  /\ rx = "queue"
  /\ Len(queue[QueueOf(rxPacket)]) < Buffers
  /\ queue' = [queue EXCEPT ![QueueOf(rxPacket)] = Append(@, rxPacket)]
  /\ rxPacket' = NoPacket
  /\ rx' = "give"
  /\ UNCHANGED <<datapath, loaded, arrived, sdio_rx_sem, recvTask, high, low,
                 flow>>

RxGive ==
  /\ rx = "give"
  /\ sdio_rx_sem' = sdio_rx_sem + 1
  /\ rx' = "recv"
  /\ UNCHANGED <<datapath, loaded, arrived, queue, rxPacket, recvTask, high, low,
                 flow>>

SdioRxTask ==
  RxRecv \/ RxCheck \/ RxMeasure \/ RxThrottle \/ RxInterrupt \/ RxQueue \/ RxGive

-----------------------------------------------------------------------------
(* recv_task.                                                              *)

\* The path is looked at before the wait, not after it.
RecvPoll ==
  /\ recv = "poll"
  /\ datapath
  /\ recv' = "take"
  /\ UNCHANGED <<datapath, loaded, arrived, queue, sdio_rx_sem, rxTask,
                 recvPacket, high, low, flow>>

\* Mutant of RecvTake: the wait ends after a time, and the answer is ignored.
RecvTakeOrTimeOut ==
  /\ recv = "take"
  /\ sdio_rx_sem' = IF sdio_rx_sem > 0 THEN sdio_rx_sem - 1 ELSE 0
  /\ recv' = "fetch"
  /\ UNCHANGED <<datapath, loaded, arrived, queue, rxTask, recvPacket, high, low,
                 flow>>

RecvTake ==
  /\ recv = "take"
  /\ sdio_rx_sem > 0
  /\ sdio_rx_sem' = sdio_rx_sem - 1
  /\ recv' = "fetch"
  /\ UNCHANGED <<datapath, loaded, arrived, queue, rxTask, recvPacket, high, low,
                 flow>>

\* Mutant of Before: data first.
DataBefore(q, p) == <<q, p>> \in {<<Others, Bt>>, <<Others, Serial>>, <<Bt, Serial>>}

\* Whether a read from q comes before a read from p.
Before(q, p) == <<q, p>> \in {<<Serial, Bt>>, <<Serial, Others>>, <<Bt, Others>>}

\* The first packet of the first queue that has one, or "No element in rx
\* queue": then sdio_read fails and recv_task starts again.
First(q) == queue[q] # <<>> /\ \A p \in Queues : Before(p, q) => queue[p] = <<>>

RecvFetch ==
  /\ recv = "fetch"
  /\ LET found == {q \in Queues : First(q)}
     IN  /\ recv' = IF found = {} THEN "poll" ELSE "check"
         /\ queue' = [q \in Queues |-> IF q \in found THEN Tail(queue[q]) ELSE queue[q]]
         /\ recvPacket' \in IF found = {} THEN {NoPacket} ELSE {Head(queue[q]) : q \in found}
  /\ UNCHANGED <<datapath, loaded, arrived, sdio_rx_sem, rxTask, high, low, flow>>

\* Mutant of RecvCheck: serial packets do not end throttling, as they do not
\* change the load.
RecvCheckData ==
  /\ recv = "check"
  /\ recv' = IF throttling /\ recvPacket # Serial /\ Load < low THEN "release" ELSE "process"
  /\ UNCHANGED <<datapath, loaded, arrived, queue, sdio_rx_sem, rxTask,
                 recvPacket, high, low, flow>>

\* stop_rx_data_throttling_if_needed, up to its decision.  It is one step: only this
\* task clears the flag and changes the thresholds.
RecvCheck ==
  /\ recv = "check"
  /\ recv' = IF throttling /\ Load < low THEN "release" ELSE "process"
  /\ UNCHANGED <<datapath, loaded, arrived, queue, sdio_rx_sem, rxTask,
                 recvPacket, high, low, flow>>

RecvRelease ==
  /\ recv = "release"
  /\ throttling' = FALSE
  /\ recv' = "interrupt"
  /\ UNCHANGED <<datapath, loaded, arrived, queue, sdio_rx_sem, rxTask,
                 recvPacket, high, low, hostThrottled>>

\* HOST_INT_STOP_THROTTLE
RecvInterrupt ==
  /\ recv = "interrupt"
  /\ hostThrottled' = FALSE
  /\ recv' = "process"
  /\ UNCHANGED <<datapath, loaded, arrived, queue, sdio_rx_sem, rxTask,
                 recvPacket, high, low, throttling>>

\* process_rx_pkt; then sdio_read_done loads the buffer again.
RecvProcess ==
  /\ recv = "process"
  /\ high' = IF recvPacket \in Configs THEN recvPacket[1] ELSE high
  /\ low' = IF recvPacket \in Configs THEN recvPacket[2] ELSE low
  /\ loaded' = loaded + 1
  /\ recvPacket' = NoPacket
  /\ recv' = "poll"
  /\ UNCHANGED <<datapath, arrived, queue, sdio_rx_sem, rxTask, flow>>

RecvTask ==
  \/ RecvPoll
  \/ RecvTake
  \/ RecvFetch
  \/ RecvCheck
  \/ RecvRelease
  \/ RecvInterrupt
  \/ RecvProcess

-----------------------------------------------------------------------------
Host == SetDataPath \/ \E p \in Packets : HostSends(p)

Next == Host \/ SdioRxTask \/ RecvTask

Spec == Init /\ [][Next]_vars

\* The kernel runs a ready task, and the driver delivers what it has.  The host
\* owes nothing.
FairSpec == Spec /\ WF_vars(SdioRxTask) /\ WF_vars(RecvTask)

-----------------------------------------------------------------------------
Flag(b) == IF b THEN 1 ELSE 0

Waiting == Len(queue[Serial]) + Len(queue[Bt]) + Len(queue[Others])

\* Each queue keeps within the length it was created with.
TypeOK ==
  /\ {datapath, throttling, hostThrottled} \subseteq BOOLEAN
  /\ loaded \in 0 .. Buffers
  /\ arrived \in Seq(Packets)
  /\ queue \in [Queues -> Seq(Packets \ {Bad})]
  /\ \A q \in Queues : Len(queue[q]) <= Buffers
  /\ sdio_rx_sem \in 0 .. Buffers
  /\ rx \in {"recv", "check", "measure", "throttle", "interrupt", "queue", "give"}
  /\ recv \in {"poll", "take", "fetch", "check", "release", "interrupt", "process"}
  /\ {rxPacket, recvPacket} \subseteq (Packets \ {Bad}) \cup {NoPacket}
  /\ {high, low} \subseteq Percent

\* xQueueSend never makes sdio_rx_task wait: the queue that the packet in hand goes to
\* has room, as each queue is as long as there are buffers.  If it waited, the host's
\* other packets would wait behind it.
RoomForPacket == rx = "queue" => Len(queue[QueueOf(rxPacket)]) < Buffers

\* A buffer is loaded, holds a packet that arrived or is queued, or is with a
\* task: every path of sdio_rx_task and recv_task gives it back, also that of a
\* packet with a bad header, so the link does not run dry.
BuffersAccounted ==
  loaded + Len(arrived) + Waiting
    + Flag(rxPacket # NoPacket) + Flag(recvPacket # NoPacket) = Buffers

\* The semaphore counts the packets in the three queues together, except one
\* being queued and one being fetched: sdio_read never finds the queues empty
\* ("No element in rx queue"), and no packet waits without a count.
PermitsMatchQueues ==
  Waiting = sdio_rx_sem + Flag(rx = "give") + Flag(recv = "fetch")

\* With the data path open, and a threshold that can end it all the while,
\* throttling ends once the host falls silent, wherever the two tasks were when
\* it began: sdio_rx_task sets the flag before it queues the packet at hand, so
\* a read with its check follows.
HostFallsSilent == <>[][~\E p \in Packets : HostSends(p)]_vars
ThrottlingEnds ==
  <>[]datapath /\ [](throttling => low > 0) /\ HostFallsSilent
    => (throttling ~> ~throttling)

\* sdio_read: a serial packet does not wait for ever behind a stream of data.
SerialNotStarved ==
  <>[]datapath => (queue[Serial] # <<>> ~> recvPacket = Serial)
=============================================================================
