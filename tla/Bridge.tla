------------------------------- MODULE Bridge -------------------------------
(***************************************************************************)
(* The MAVLink bridge of the P4 in its default, unordered mode            *)
(* (bridge/service/*.cpp, transport/adapter/uart_port.cpp).                *)
(*                                                                         *)
(* Tasks: the UDP receive thread, the TCP server task, one task per TCP   *)
(* client, one receive task per UART, and the console task that boots,    *)
(* configures and tears down the bridge.  A task runs from one point to   *)
(* the next where another may come between; pc names those points.  The   *)
(* two mutexes are taken with a time-out of 100 ms: a taker either finds   *)
(* the mutex free or may give up.  vTaskDelete stops a task wherever it    *)
(* is, and does not release what it holds.                                 *)
(*                                                                         *)
(* espp sockets and FreeRTOS are external: they are modelled as the code  *)
(* uses them.  Packet contents, log lines and byte counters are left out.  *)
(* Behaviour ends where the code's is no longer defined: when the bridge   *)
(* is freed, or when a task reaches "undefined", which is a use of a socket *)
(* or of a task that is gone.                                              *)
(***************************************************************************)
EXTENDS Integers, Sequences, FiniteSets

CONSTANTS
  Udp, Srv, Con, \* the UDP receive thread, tcp_server_task, the console task
  UartCount,   \* UARTs that bridge_uart_init accepted, indexed from 1 here
  Conns,       \* TCP connections that are made in the life of the bridge
  MaxClients,  \* MAVLINK_MAX_TCP_CLIENTS
  Bauds,       \* baud rates: the default one and those the console sets
  MaxNet,      \* bound: packets that arrive from the network
  MaxUart,     \* bound: chunks that arrive from the UARTs
  Stops,       \* whether the console calls mavlink_bridge_deinit
  Free         \* a mutex that nobody holds

Uarts == 1 .. UartCount

ASSUME BridgeAssumption ==
  /\ UartCount \in Nat /\ MaxClients \in Nat /\ MaxNet \in Nat /\ MaxUart \in Nat
  /\ Stops \in BOOLEAN
  /\ Bauds # {}
  /\ IsFiniteSet(Conns)
  /\ Cardinality({Udp, Srv, Con, Free}) = 4
  /\ {Udp, Srv, Con, Free} \cap (Conns \cup Uarts) = {} /\ Conns \cap Uarts = {}

NetTasks == {Udp} \cup Conns
Tasks == NetTasks \cup Uarts \cup {Srv, Con}

VARIABLES
  handle,          \* mavlink_bridge_t: "none", "live" or "freed"
  state,           \* handle->state
  tcp_running,     \* handle->tcp_running
  tcp_server_task, \* whether handle->tcp_server_task is not NULL
  pc,              \* where each task is
  uart_mutex,      \* owner of handle->uart_mutex
  tcp_mutex,       \* owner of handle->tcp_mutex
  tcp_clients,     \* handle->tcp_clients, a list of connections
  connected,       \* client.connected
  sock,            \* client.socket
  task_handle,     \* whether client.task_handle is not NULL
  enabled,         \* uarts[i].enabled
  baud,            \* uarts[i].baud_rate
  packet,          \* the packet or chunk a task is forwarding
  at,              \* the index of the loop a task is in
  net_in,          \* packets received from the network so far
  uart_in,         \* chunks received from the UARTs so far
  ring,            \* the packet in each UART's transmit ring, 0 when it is empty
  written,         \* packets written to each UART so far
  sent,            \* chunks sent to each client so far
  stop_got         \* whether bridge_network_stop got tcp_mutex

bridgeVars == <<handle, state, tcp_running, tcp_server_task, stop_got>>
mutexVars == <<uart_mutex, tcp_mutex>>
clientVars == <<tcp_clients, connected, sock, task_handle>>
uartVars == <<enabled, baud, ring>>
localVars == <<packet, at>>
logVars == <<net_in, uart_in, written, sent>>
vars == <<bridgeVars, pc, mutexVars, clientVars, uartVars, localVars, logVars>>

Socks == {"none", "accepted", "open", "closed", "reset"}
Labels == {"none", "dead", "loop", "receive", "end", "take", "send", "accept",
           "count", "admit", "give", "boot", "boot_tcp", "boot_uarts", "idle", "set_baud",
           "stop_server", "delete_server", "stop_clients", "stop_client",
           "test_client", "delete_client", "stop_sockets", "stop_uarts", "free",
           "done", "undefined"}

TypeOK ==
  /\ handle \in {"none", "live", "freed"} /\ state \in {"IDLE", "RUNNING"}
  /\ tcp_running \in BOOLEAN /\ tcp_server_task \in BOOLEAN /\ stop_got \in BOOLEAN
  /\ pc \in [Tasks -> Labels]
  /\ uart_mutex \in NetTasks \cup {Con, Free}
  /\ tcp_mutex \in Uarts \cup {Srv, Con, Free}
  /\ tcp_clients \in Seq(Conns)
  /\ connected \in [Conns -> BOOLEAN] /\ task_handle \in [Conns -> BOOLEAN]
  /\ sock \in [Conns -> Socks]
  /\ enabled \in [Uarts -> BOOLEAN] /\ baud \in [Uarts -> Bauds]
  /\ ring \in [Uarts -> 0 .. MaxNet]
  /\ packet \in [Tasks -> 0 .. MaxNet + MaxUart]
  /\ DOMAIN at = Tasks
  /\ \A t \in NetTasks : at[t] \in 0 .. UartCount + 1
  /\ \A t \in Tasks \ NetTasks : at[t] \in 0 .. Cardinality(Conns) + 1
  /\ net_in \in 0 .. MaxNet /\ uart_in \in 0 .. MaxUart
  /\ written \in [Uarts -> Seq(1 .. MaxNet)] /\ sent \in [Conns -> Seq(1 .. MaxUart)]

Goto(t, label) == pc' = [pc EXCEPT ![t] = label]

Init ==
  /\ handle = "none" /\ state = "IDLE" /\ tcp_running = FALSE
  /\ tcp_server_task = FALSE /\ stop_got = FALSE
  /\ pc = [t \in Tasks |-> IF t = Con THEN "boot" ELSE "none"]
  /\ uart_mutex = Free /\ tcp_mutex = Free
  /\ tcp_clients = <<>>
  /\ connected = [c \in Conns |-> FALSE] /\ task_handle = [c \in Conns |-> FALSE]
  /\ sock = [c \in Conns |-> "none"]
  /\ enabled = [u \in Uarts |-> FALSE]
  /\ baud \in {[u \in Uarts |-> b] : b \in Bauds}
  /\ ring = [u \in Uarts |-> 0]
  /\ packet = [t \in Tasks |-> 0] /\ at = [t \in Tasks |-> 0]
  /\ net_in = 0 /\ uart_in = 0
  /\ written = [u \in Uarts |-> <<>>] /\ sent = [c \in Conns |-> <<>>]

-----------------------------------------------------------------------------
(* Network to UARTs: udp_receive_callback and tcp_client_task, which both  *)
(* call mavlink_bridge_net_to_all_uarts, and that bridge_uart_send.        *)

\* A datagram for the UDP callback, or data that a client's receive returns.
NetReceive(t) ==
  /\ pc[t] = "receive"
  /\ t \in Conns => sock[t] = "open"
  /\ net_in < MaxNet
  /\ net_in' = net_in + 1
  /\ packet' = [packet EXCEPT ![t] = net_in + 1]
  /\ Goto(t, "take")
  /\ UNCHANGED <<bridgeVars, mutexVars, clientVars, uartVars, at, uart_in, written, sent>>

AfterPacket(t) == IF t = Udp THEN "receive" ELSE "loop"

\* Mutant of UartTake: the mutex is not waited for.
UartTakeAnyway(t) ==
  /\ pc[t] = "take"
  /\ uart_mutex' = t
  /\ at' = [at EXCEPT ![t] = 1]
  /\ Goto(t, "send")
  /\ UNCHANGED <<bridgeVars, tcp_mutex, clientVars, uartVars, packet, logVars>>

UartTake(t) ==
  /\ pc[t] = "take"
  /\ uart_mutex = Free
  /\ uart_mutex' = t
  /\ at' = [at EXCEPT ![t] = 1]
  /\ Goto(t, "send")
  /\ UNCHANGED <<bridgeVars, tcp_mutex, clientVars, uartVars, packet, logVars>>

\* ESP_ERR_TIMEOUT, which both callers ignore: the packet is lost.
UartTakeTimeout(t) ==
  /\ pc[t] = "take"
  /\ uart_mutex # Free
  /\ Goto(t, AfterPacket(t))
  /\ UNCHANGED <<bridgeVars, mutexVars, clientVars, uartVars, localVars, logVars>>

\* uart_driver_delete has been called for every UART.
DriversDeleted == pc[Con] \in {"free", "done"}

\* uart_wait_tx_done finds nothing in UART u's transmit ring, now or within 100 ms.
Idle(u) == ring[u] = 0 /\ ~DriversDeleted

\* Mutant of UartSend: the loop ends with the first UART that is disabled or busy.
UartSendWhileIdle(t) ==
  /\ pc[t] = "send"
  /\ at[t] \in Uarts
  /\ LET u == at[t] IN
       \/ /\ enabled[u] /\ Idle(u)
          /\ ring' = [ring EXCEPT ![u] = packet[t]]
          /\ written' = [written EXCEPT ![u] = Append(@, packet[t])]
          /\ at' = [at EXCEPT ![t] = u + 1]
       \/ /\ ~(enabled[u] /\ Idle(u))
          /\ at' = [at EXCEPT ![t] = UartCount + 1]
          /\ UNCHANGED <<ring, written>>
  /\ UNCHANGED <<bridgeVars, pc, mutexVars, clientVars, enabled, baud, packet,
                 net_in, uart_in, sent>>

\* One round of the loop over the UARTs: bridge_uart_send.  A disabled UART is
\* passed over; one that is still sending after 100 ms only counts an error, as one
\* without a driver does.  uart_write_bytes returns with the packet in the ring.
UartSend(t) ==
  /\ pc[t] = "send"
  /\ at[t] \in Uarts
  /\ LET u == at[t] IN
       \/ /\ enabled[u] /\ Idle(u)
          /\ ring' = [ring EXCEPT ![u] = packet[t]]
          /\ written' = [written EXCEPT ![u] = Append(@, packet[t])]
       \/ ~(enabled[u] /\ Idle(u)) /\ UNCHANGED <<ring, written>>
  /\ at' = [at EXCEPT ![t] = @ + 1]
  /\ UNCHANGED <<bridgeVars, pc, mutexVars, clientVars, enabled, baud, packet,
                 net_in, uart_in, sent>>

\* The UART has sent what is in its ring, at whatever baud rate it has by then.
UartSent(u) ==
  /\ ring[u] # 0
  /\ ring' = [ring EXCEPT ![u] = 0]
  /\ UNCHANGED <<bridgeVars, pc, mutexVars, clientVars, enabled, baud, localVars, logVars>>

\* Mutant of UartGive: a UART that is disabled or failed leaves the function early.
UartGiveIfAllWritten(t) ==
  /\ pc[t] = "send"
  /\ at[t] = UartCount + 1
  /\ uart_mutex' = IF \A u \in Uarts : \E i \in DOMAIN written[u] : written[u][i] = packet[t]
                     THEN Free ELSE uart_mutex
  /\ Goto(t, AfterPacket(t))
  /\ UNCHANGED <<bridgeVars, tcp_mutex, clientVars, uartVars, localVars, logVars>>

UartGive(t) ==
  /\ pc[t] = "send"
  /\ at[t] = UartCount + 1
  /\ uart_mutex' = Free
  /\ Goto(t, AfterPacket(t))
  /\ UNCHANGED <<bridgeVars, tcp_mutex, clientVars, uartVars, localVars, logVars>>

NetToUarts(t) ==
  NetReceive(t) \/ UartTake(t) \/ UartTakeTimeout(t) \/ UartSend(t) \/ UartGive(t)

\* Mutant of ClientLoop: the loop is left without connected = false.
ClientLoopOnlyLeft(c) ==
  /\ pc[c] = "loop"
  /\ LET go == connected[c] /\ handle = "live" /\ state = "RUNNING" IN
       Goto(c, IF go /\ sock[c] = "open" THEN "receive" ELSE "end")
  /\ UNCHANGED <<bridgeVars, mutexVars, clientVars, uartVars, localVars, logVars>>

\* The condition of the client's loop, and its look at the socket.
ClientLoop(c) ==
  /\ pc[c] = "loop"
  /\ LET go == connected[c] /\ handle = "live" /\ state = "RUNNING" IN
       /\ Goto(c, IF go /\ sock[c] = "open" THEN "receive" ELSE "end")
       /\ connected' = [connected EXCEPT ![c] = @ /\ (go => sock[c] = "open")]
  /\ UNCHANGED <<bridgeVars, mutexVars, tcp_clients, sock, task_handle, uartVars,
                 localVars, logVars>>

\* Nothing came, or the connection is gone.  If the teardown has reset the socket
\* since the loop looked at it, this is a use of a null or freed socket.
ClientReceiveNothing(c) ==
  /\ pc[c] = "receive"
  /\ \/ Goto(c, "loop")
     \/ sock[c] = "reset" /\ Goto(c, "undefined")
  /\ UNCHANGED <<bridgeVars, mutexVars, clientVars, uartVars, localVars, logVars>>

\* client->task_handle = NULL, and then the task deletes itself.
ClientEnd(c) ==
  /\ pc[c] = "end"
  /\ task_handle' = [task_handle EXCEPT ![c] = FALSE]
  /\ Goto(c, "dead")
  /\ UNCHANGED <<bridgeVars, mutexVars, tcp_clients, connected, sock, uartVars,
                 localVars, logVars>>

ClientTask(c) == ClientLoop(c) \/ ClientReceiveNothing(c) \/ ClientEnd(c)

PeerCloses(c) ==
  /\ sock[c] = "open"
  /\ sock' = [sock EXCEPT ![c] = "closed"]
  /\ UNCHANGED <<bridgeVars, pc, mutexVars, tcp_clients, connected, task_handle,
                 uartVars, localVars, logVars>>

-----------------------------------------------------------------------------
(* tcp_server_task                                                          *)

\* The loop condition; a server that ends clears its handle and dies.
ServerLoop ==
  /\ pc[Srv] = "loop"
  /\ Goto(Srv, IF tcp_running THEN "accept" ELSE "dead")
  /\ tcp_server_task' = tcp_running
  /\ UNCHANGED <<handle, state, tcp_running, stop_got, mutexVars, clientVars, uartVars,
                 localVars, logVars>>

\* accept returns a new connection, or nothing.
ServerAccept ==
  /\ pc[Srv] = "accept"
  /\ \/ /\ \E c \in Conns : sock[c] = "none" /\ sock' = [sock EXCEPT ![c] = "accepted"]
        /\ Goto(Srv, "take")
     \/ Goto(Srv, "loop") /\ UNCHANGED sock
  /\ UNCHANGED <<bridgeVars, mutexVars, tcp_clients, connected, task_handle, uartVars,
                 localVars, logVars>>

ServerTake ==
  /\ pc[Srv] = "take"
  /\ tcp_mutex = Free
  /\ tcp_mutex' = Srv
  /\ Goto(Srv, "count")
  /\ UNCHANGED <<bridgeVars, uart_mutex, clientVars, uartVars, localVars, logVars>>

\* The accepted socket goes out of scope, which closes the connection.
ServerTakeTimeout ==
  /\ pc[Srv] = "take"
  /\ tcp_mutex # Free
  /\ sock' = [c \in Conns |-> IF sock[c] = "accepted" THEN "closed" ELSE sock[c]]
  /\ Goto(Srv, "loop")
  /\ UNCHANGED <<bridgeVars, mutexVars, tcp_clients, connected, task_handle, uartVars,
                 localVars, logVars>>

Active == {c \in Conns : connected[c]}

\* Mutant of ServerCount: only the clients with a task are counted.
ServerCountTasks ==
  /\ pc[Srv] = "count"
  /\ at' = [at EXCEPT ![Srv] = Cardinality({c \in Active : task_handle[c]})]
  /\ Goto(Srv, "admit")
  /\ UNCHANGED <<bridgeVars, mutexVars, clientVars, uartVars, packet, logVars>>

\* active_clients, under tcp_mutex, which clients that end do not take.
ServerCount ==
  /\ pc[Srv] = "count"
  /\ at' = [at EXCEPT ![Srv] = Cardinality(Active)]
  /\ Goto(Srv, "admit")
  /\ UNCHANGED <<bridgeVars, mutexVars, clientVars, uartVars, packet, logVars>>

HasRoom == at[Srv] < MaxClients

\* If there was room the connection is appended to the list and a task is created
\* for it; whether that worked is not looked at.
ServerAdmit ==
  /\ pc[Srv] = "admit"
  /\ \E c \in Conns :
       /\ sock[c] = "accepted"
       /\ \/ /\ HasRoom
             /\ tcp_clients' = Append(tcp_clients, c)
             /\ connected' = [connected EXCEPT ![c] = TRUE]
             /\ sock' = [sock EXCEPT ![c] = "open"]
             /\ \/ /\ task_handle' = [task_handle EXCEPT ![c] = TRUE]
                   /\ pc' = [pc EXCEPT ![Srv] = "give", ![c] = "loop"]
                \/ Goto(Srv, "give") /\ UNCHANGED task_handle
          \/ /\ ~HasRoom
             /\ sock' = [sock EXCEPT ![c] = "closed"]
             /\ Goto(Srv, "give")
             /\ UNCHANGED <<tcp_clients, connected, task_handle>>
  /\ UNCHANGED <<bridgeVars, mutexVars, uartVars, localVars, logVars>>

ServerGive ==
  /\ pc[Srv] = "give"
  /\ tcp_mutex' = Free
  /\ Goto(Srv, "loop")
  /\ UNCHANGED <<bridgeVars, uart_mutex, clientVars, uartVars, localVars, logVars>>

ServerTask ==
  \/ ServerLoop \/ ServerAccept \/ ServerTake \/ ServerTakeTimeout
  \/ ServerCount \/ ServerAdmit \/ ServerGive

-----------------------------------------------------------------------------
(* UART to TCP clients: uart_rx_task, bridge_runtime_handle_uart_rx and    *)
(* bridge_tcp_broadcast.  Neither looks at enabled.  net_broadcast is only  *)
(* ever true.                                                               *)

UartReceive(u) ==
  /\ pc[u] = "receive"
  /\ uart_in < MaxUart
  /\ uart_in' = uart_in + 1
  /\ packet' = [packet EXCEPT ![u] = uart_in + 1]
  /\ Goto(u, "take")
  /\ UNCHANGED <<bridgeVars, mutexVars, clientVars, uartVars, at, net_in, written, sent>>

\* Mutant of BroadcastTake: the mutex is not waited for.
BroadcastTakeAnyway(u) ==
  /\ pc[u] = "take"
  /\ tcp_mutex' = u
  /\ at' = [at EXCEPT ![u] = 1]
  /\ Goto(u, "send")
  /\ UNCHANGED <<bridgeVars, uart_mutex, clientVars, uartVars, packet, logVars>>

BroadcastTake(u) ==
  /\ pc[u] = "take"
  /\ tcp_mutex = Free
  /\ tcp_mutex' = u
  /\ at' = [at EXCEPT ![u] = 1]
  /\ Goto(u, "send")
  /\ UNCHANGED <<bridgeVars, uart_mutex, clientVars, uartVars, packet, logVars>>

\* ESP_ERR_TIMEOUT, which the receive task ignores: the chunk is lost.
BroadcastTakeTimeout(u) ==
  /\ pc[u] = "take"
  /\ tcp_mutex # Free
  /\ Goto(u, "receive")
  /\ UNCHANGED <<bridgeVars, mutexVars, clientVars, uartVars, localVars, logVars>>

\* One round of the loop over the clients; a client whose peer is gone gets
\* nothing.
BroadcastSend(u) ==
  /\ pc[u] = "send"
  /\ at[u] \in DOMAIN tcp_clients
  /\ LET c == tcp_clients[at[u]] IN
       IF connected[c] /\ sock[c] = "open"
         THEN sent' = [sent EXCEPT ![c] = Append(@, packet[u])]
         ELSE UNCHANGED sent
  /\ at' = [at EXCEPT ![u] = @ + 1]
  /\ UNCHANGED <<bridgeVars, pc, mutexVars, clientVars, uartVars, packet,
                 net_in, uart_in, written>>

BroadcastGive(u) ==
  /\ pc[u] = "send"
  /\ at[u] = Len(tcp_clients) + 1
  /\ tcp_mutex' = Free
  /\ Goto(u, "receive")
  /\ UNCHANGED <<bridgeVars, uart_mutex, clientVars, uartVars, localVars, logVars>>

UartTask(u) ==
  \/ UartReceive(u) \/ BroadcastTake(u) \/ BroadcastTakeTimeout(u)
  \/ BroadcastSend(u) \/ BroadcastGive(u)

-----------------------------------------------------------------------------
(* The console task: mavlink_bridge_init at boot, and then                  *)
(* mavlink_bridge_enable_uart, _set_baudrate and, where Stops, _deinit.     *)

\* mavlink_bridge_init up to bridge_network_start's UDP socket.  Without memory
\* nothing is left; without a socket what was made is cleaned up again.
BootUdp ==
  /\ pc[Con] = "boot"
  /\ \/ /\ handle' = "live" /\ state' = "RUNNING"
        /\ \/ pc' = [pc EXCEPT ![Con] = "boot_tcp", ![Udp] = "receive"]
           \/ Goto(Con, "stop_server")
     \/ Goto(Con, "done") /\ UNCHANGED <<handle, state>>
  /\ UNCHANGED <<tcp_running, tcp_server_task, stop_got, mutexVars, clientVars, uartVars,
                 localVars, logVars>>

\* The TCP server: no port, no bind, no listen or no task is not an error.
BootTcp ==
  /\ pc[Con] = "boot_tcp"
  /\ \E listens, created \in BOOLEAN :
       /\ tcp_running' = listens
       /\ tcp_server_task' = (listens /\ created)
       /\ pc' = [pc EXCEPT ![Con] = "boot_uarts",
                          ![Srv] = IF listens /\ created THEN "loop" ELSE "none"]
  /\ UNCHANGED <<handle, state, stop_got, mutexVars, clientVars, uartVars, localVars, logVars>>

\* bridge_uart_start_rx_task for each UART; one that fails is only logged.  Where the
\* bound MaxUart is 0 a receive task would only wait, and is left out.
BootUarts ==
  /\ pc[Con] = "boot_uarts"
  /\ \E created \in SUBSET Uarts :
       /\ MaxUart = 0 => created = {}
       /\ pc' = [t \in Tasks |-> IF t = Con THEN "idle"
                                ELSE IF t \in created THEN "receive" ELSE pc[t]]
  /\ UNCHANGED <<bridgeVars, mutexVars, clientVars, uartVars, localVars, logVars>>

Boot == BootUdp \/ BootTcp \/ BootUarts

EnableUart(u, enable) ==
  /\ pc[Con] = "idle"
  /\ enabled' = [enabled EXCEPT ![u] = enable]
  /\ UNCHANGED <<bridgeVars, pc, mutexVars, clientVars, baud, ring, localVars, logVars>>

SetBaudBegin ==
  /\ pc[Con] = "idle"
  /\ Goto(Con, "take")
  /\ UNCHANGED <<bridgeVars, mutexVars, clientVars, uartVars, localVars, logVars>>

SetBaudTake ==
  /\ pc[Con] = "take"
  /\ uart_mutex = Free
  /\ uart_mutex' = Con
  /\ Goto(Con, "set_baud")
  /\ UNCHANGED <<bridgeVars, tcp_mutex, clientVars, uartVars, localVars, logVars>>

SetBaudTakeTimeout ==
  /\ pc[Con] = "take"
  /\ uart_mutex # Free
  /\ Goto(Con, "idle")
  /\ UNCHANGED <<bridgeVars, mutexVars, clientVars, uartVars, localVars, logVars>>

\* The driver takes the rate or not; the mutex is given back either way.  It is not
\* looked at whether a packet is still in the ring.
SetBaud(u, rate) ==
  /\ pc[Con] = "set_baud"
  /\ \/ baud' = [baud EXCEPT ![u] = rate]
     \/ UNCHANGED baud
  /\ uart_mutex' = Free
  /\ Goto(Con, "idle")
  /\ UNCHANGED <<bridgeVars, tcp_mutex, clientVars, enabled, ring, localVars, logVars>>

Console ==
  \/ \E u \in Uarts : \/ \E e \in BOOLEAN : EnableUart(u, e)
                      \/ \E b \in Bauds : SetBaud(u, b)
  \/ SetBaudBegin \/ SetBaudTake \/ SetBaudTakeTimeout

-----------------------------------------------------------------------------
(* mavlink_bridge_deinit, bridge_cleanup and bridge_network_stop.           *)

Deinit ==
  /\ Stops
  /\ pc[Con] = "idle"
  /\ state' = "IDLE"
  /\ Goto(Con, "stop_server")
  /\ UNCHANGED <<handle, tcp_running, tcp_server_task, stop_got, mutexVars, clientVars,
                 uartVars, localVars, logVars>>

\* Mutant of StopServer: the server is only told to end.
StopServerTold ==
  /\ pc[Con] = "stop_server"
  /\ tcp_running' = FALSE
  /\ Goto(Con, "stop_clients")
  /\ UNCHANGED <<handle, state, tcp_server_task, stop_got, mutexVars, clientVars, uartVars,
                 localVars, logVars>>

\* tcp_running = false and the test of tcp_server_task.
StopServer ==
  /\ pc[Con] = "stop_server"
  /\ tcp_running' = FALSE
  /\ Goto(Con, IF tcp_server_task THEN "delete_server" ELSE "stop_clients")
  /\ UNCHANGED <<handle, state, tcp_server_task, stop_got, mutexVars, clientVars, uartVars,
                 localVars, logVars>>

\* The ends of vTaskDelete(h) where the task has cleared h since the test: if h is
\* read again it is NULL, which is the caller itself; if not, it names a task that
\* is ending, which may go well, or one that is gone, which is undefined.
DeleteCleared == \E end \in {"dead", "undefined"} : Goto(Con, end)

\* vTaskDelete(tcp_server_task)
DeleteServer ==
  /\ pc[Con] = "delete_server"
  /\ \/ pc' = [pc EXCEPT ![Con] = "stop_clients", ![Srv] = "dead"]
     \/ ~tcp_server_task /\ DeleteCleared
  /\ tcp_server_task' = FALSE
  /\ UNCHANGED <<handle, state, tcp_running, stop_got, mutexVars, clientVars, uartVars,
                 localVars, logVars>>

StopTakeClients ==
  /\ pc[Con] = "stop_clients"
  /\ tcp_mutex = Free
  /\ tcp_mutex' = Con
  /\ stop_got' = TRUE
  /\ at' = [at EXCEPT ![Con] = 1]
  /\ Goto(Con, "stop_client")
  /\ UNCHANGED <<handle, state, tcp_running, tcp_server_task, uart_mutex, clientVars,
                 uartVars, packet, logVars>>

\* Mutant of StopTakeClientsTimeout: portMAX_DELAY instead of 100 ms.
StopTakeClientsForever ==
  /\ pc[Con] = "stop_clients"
  /\ FALSE
  /\ UNCHANGED vars

\* The clients are left as they are.
StopTakeClientsTimeout ==
  /\ pc[Con] = "stop_clients"
  /\ tcp_mutex # Free
  /\ Goto(Con, "stop_sockets")
  /\ UNCHANGED <<bridgeVars, mutexVars, clientVars, uartVars, localVars, logVars>>

\* One round of the loop over the clients up to the test of task_handle.
StopClient ==
  /\ pc[Con] = "stop_client"
  /\ at[Con] \in DOMAIN tcp_clients
  /\ LET c == tcp_clients[at[Con]] IN
       /\ connected' = [connected EXCEPT ![c] = FALSE]
       /\ sock' = [sock EXCEPT ![c] = "reset"]
  /\ Goto(Con, "test_client")
  /\ UNCHANGED <<bridgeVars, mutexVars, tcp_clients, task_handle, uartVars, localVars, logVars>>

TestClient ==
  /\ pc[Con] = "test_client"
  /\ IF task_handle[tcp_clients[at[Con]]]
       THEN Goto(Con, "delete_client") /\ UNCHANGED at
       ELSE Goto(Con, "stop_client") /\ at' = [at EXCEPT ![Con] = @ + 1]
  /\ UNCHANGED <<bridgeVars, mutexVars, clientVars, uartVars, packet, logVars>>

\* vTaskDelete(client.task_handle), which the client may have cleared as well.
DeleteClient ==
  /\ pc[Con] = "delete_client"
  /\ LET c == tcp_clients[at[Con]] IN
       /\ \/ /\ pc' = [pc EXCEPT ![Con] = "stop_client", ![c] = "dead"]
             /\ at' = [at EXCEPT ![Con] = @ + 1]
          \/ ~task_handle[c] /\ DeleteCleared /\ UNCHANGED at
       /\ task_handle' = [task_handle EXCEPT ![c] = FALSE]
  /\ UNCHANGED <<bridgeVars, mutexVars, tcp_clients, connected, sock, uartVars, packet, logVars>>

StopClientsDone ==
  /\ pc[Con] = "stop_client"
  /\ at[Con] = Len(tcp_clients) + 1
  /\ tcp_clients' = <<>>
  /\ tcp_mutex' = Free
  /\ Goto(Con, "stop_sockets")
  /\ UNCHANGED <<bridgeVars, uart_mutex, connected, sock, task_handle, uartVars,
                 localVars, logVars>>

\* udp_socket.reset() joins the receive thread, which is not in the callback then.
StopSockets ==
  /\ pc[Con] = "stop_sockets"
  /\ pc[Udp] \in {"none", "receive"}
  /\ pc' = [pc EXCEPT ![Con] = "stop_uarts", ![Udp] = "dead"]
  /\ UNCHANGED <<bridgeVars, mutexVars, clientVars, uartVars, localVars, logVars>>

\* bridge_uart_shutdown of every UART: its task ends, and what its ring holds is lost.
StopUarts ==
  /\ pc[Con] = "stop_uarts"
  /\ pc' = [t \in Tasks |-> IF t \in Uarts THEN "dead" ELSE IF t = Con THEN "free" ELSE pc[t]]
  /\ ring' = [u \in Uarts |-> 0]
  /\ UNCHANGED <<bridgeVars, mutexVars, clientVars, enabled, baud, localVars, logVars>>

\* The mutexes are deleted, g_bridge_handle is cleared and the handle deleted.
FreeHandle ==
  /\ pc[Con] = "free"
  /\ handle' = "freed"
  /\ Goto(Con, "done")
  /\ UNCHANGED <<state, tcp_running, tcp_server_task, stop_got, mutexVars, clientVars, uartVars,
                 localVars, logVars>>

Cleanup ==
  \/ StopServer \/ DeleteServer \/ StopTakeClients \/ StopTakeClientsTimeout
  \/ StopClient \/ TestClient \/ DeleteClient \/ StopClientsDone
  \/ StopSockets \/ StopUarts \/ FreeHandle

-----------------------------------------------------------------------------
Crashed == \E t \in Tasks : pc[t] = "undefined"
Defined == handle # "freed" /\ ~Crashed

Next ==
  /\ Defined
  /\ \/ \E t \in NetTasks : NetToUarts(t)
     \/ \E c \in Conns : ClientTask(c) \/ PeerCloses(c)
     \/ ServerTask
     \/ \E u \in Uarts : UartTask(u) \/ UartSent(u)
     \/ Boot \/ Console \/ Deinit \/ Cleanup

Spec == Init /\ [][Next]_vars

\* A task that is not waiting for the outside runs on, and the UARTs send.  Packets,
\* connections, console commands and the peers' closing may never come.
Fairness ==
  /\ \A t \in NetTasks :
       WF_vars(Defined /\ (UartTake(t) \/ UartTakeTimeout(t) \/ UartSend(t) \/ UartGive(t)))
  /\ \A c \in Conns :
       WF_vars(/\ Defined
               /\ \/ ClientLoop(c) \/ ClientEnd(c)
                  \/ sock[c] # "open" /\ ClientReceiveNothing(c))
  /\ WF_vars(Defined /\ ServerTask)
  /\ \A u \in Uarts :
       /\ WF_vars(Defined /\ (BroadcastTake(u) \/ BroadcastTakeTimeout(u)
                               \/ BroadcastSend(u) \/ BroadcastGive(u)))
       /\ WF_vars(Defined /\ UartSent(u))
  /\ WF_vars(Defined /\ (\/ Boot \/ Cleanup \/ SetBaudTake \/ SetBaudTakeTimeout
                         \/ \E u \in Uarts, b \in Bauds : SetBaud(u, b)))

FairSpec == Spec /\ Fairness

-----------------------------------------------------------------------------
Before(s, p, q) == \E i, j \in DOMAIN s : i < j /\ s[i] = p /\ s[j] = q
SameOrder(s, r) == \A p, q \in 1 .. MaxNet + MaxUart : ~(Before(s, p, q) /\ Before(r, q, p))

\* Two packets from the network, whichever tasks carry them, never reach two UARTs
\* in opposite orders: mavlink_bridge_net_to_all_uarts holds uart_mutex over its loop.
SameOrderOnEveryUart == \A u, v \in Uarts : SameOrder(written[u], written[v])

\* Two chunks from the UARTs never reach two TCP clients in opposite orders:
\* bridge_tcp_broadcast holds tcp_mutex over its loop.
SameOrderAtEveryClient == \A c, d \in Conns : SameOrder(sent[c], sent[d])

\* No more clients are connected than MAVLINK_MAX_TCP_CLIENTS, although clients end,
\* and count themselves out, without tcp_mutex while the server counts them.
AtMostMaxClients == Cardinality(Active) <= MaxClients

\* A teardown that got tcp_mutex leaves no task behind that would use the freed
\* handle.  (One that timed out can: then the client tasks live on.)
CleanStop ==
  handle = "freed" /\ stop_got => \A t \in Tasks \ {Con} : pc[t] \in {"none", "dead"}

\* However the loop over the UARTs goes, uart_mutex comes free again, as long as the
\* bridge is not torn down.
UartMutexReleased == uart_mutex # Free ~> uart_mutex = Free \/ state = "IDLE"

\* A UART that was idle when a task began to write a packet gets it, however busy or
\* disabled the others are, unless it is disabled itself or the bridge torn down.
IdleUartGetsPacket ==
  \A u \in Uarts, p \in 1 .. MaxNet :
    Idle(u) /\ (\E t \in NetTasks : pc[t] = "send" /\ at[t] = 1 /\ packet[t] = p)
      ~> \/ \E i \in DOMAIN written[u] : written[u][i] = p
         \/ ~enabled[u] \/ state = "IDLE"

\* The place of a client whose peer has gone is given back, if it has a task.
SlotComesBack ==
  \A c \in Conns : sock[c] = "closed" /\ task_handle[c] ~> ~connected[c]

\* A teardown that has begun does not wait for ever, not even for a mutex that a
\* deleted task holds.  It ends in the handle's freeing or, if a task was ending by
\* itself at the wrong moment, with the console task gone or undefined behaviour.
CleanupEnds ==
  pc[Con] = "stop_server" ~> handle = "freed" \/ pc[Con] = "dead" \/ Crashed
=============================================================================
