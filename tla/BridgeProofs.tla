---------------------------- MODULE BridgeProofs ----------------------------
(***************************************************************************)
(* Theorems about Bridge, for every number of UARTs, connections and       *)
(* packets: what its two mutexes guarantee, wherever a vTaskDelete         *)
(* falls.  No fairness is assumed, so they hold of FairSpec as well.       *)
(*                                                                         *)
(* A task inside what a mutex guards holds it, and nobody else is inside.  *)
(* Under uart_mutex a packet goes to the UARTs one by one, and under       *)
(* tcp_mutex a chunk to the clients: the one being forwarded is the last   *)
(* that its receivers so far have got, and no other receiver has it, so    *)
(* no two are ever in opposite orders.                                     *)
(***************************************************************************)
EXTENDS Bridge, FiniteSetTheorems, FunctionTheorems, SequenceTheorems, TLAPS

-----------------------------------------------------------------------------
(* The tasks' names.                                                        *)

LEMMA Few ==
  ASSUME NEW a, NEW b, NEW c
  PROVE  Cardinality({a, b, c}) <= 3
<1> DEFINE S == {a} \cup {b}
<1>1. Cardinality({a}) = 1 /\ IsFiniteSet({a})
  BY FS_Singleton
<1>2. Cardinality(S) <= 2 /\ IsFiniteSet(S)
  BY <1>1, FS_AddElement
<1>3. Cardinality(S) \in Nat
  BY <1>2, FS_CardinalityType
<1>4. {a, b, c} = S \cup {c}
  OBVIOUS
<1> HIDE DEF S
<1>5. Cardinality(S \cup {c}) <= 3
  BY <1>2, <1>3, FS_AddElement
<1>6. QED
  BY <1>4, <1>5

LEMMA Names ==
  /\ Udp # Srv /\ Udp # Con /\ Srv # Con /\ Free \notin {Udp, Srv, Con}
  /\ \A t \in Conns \cup Uarts : t \notin {Udp, Srv, Con, Free}
  /\ \A c \in Conns : c \notin Uarts
<1>1. ASSUME NEW a, NEW b, NEW c, {Udp, Srv, Con, Free} = {a, b, c}
      PROVE  FALSE
  <2>1. Cardinality({a, b, c}) <= 3
    BY Few
  <2>2. Cardinality({a, b, c}) = 4
    BY <1>1, BridgeAssumption
  <2>3. QED
    BY <2>1, <2>2
<1>2. Udp # Srv /\ Udp # Con /\ Udp # Free
  <2>1. CASE Udp = Srv
    BY <2>1, <1>1, {Udp, Srv, Con, Free} = {Srv, Con, Free}
  <2>2. CASE Udp = Con
    BY <2>2, <1>1, {Udp, Srv, Con, Free} = {Srv, Con, Free}
  <2>3. CASE Udp = Free
    BY <2>3, <1>1, {Udp, Srv, Con, Free} = {Srv, Con, Free}
  <2>4. QED
    BY <2>1, <2>2, <2>3
<1>3. Srv # Con /\ Srv # Free /\ Con # Free
  <2>1. CASE Srv = Con
    BY <2>1, <1>1, {Udp, Srv, Con, Free} = {Udp, Con, Free}
  <2>2. CASE Srv = Free
    BY <2>2, <1>1, {Udp, Srv, Con, Free} = {Udp, Con, Free}
  <2>3. CASE Con = Free
    BY <2>3, <1>1, {Udp, Srv, Con, Free} = {Udp, Srv, Free}
  <2>4. QED
    BY <2>1, <2>2, <2>3
<1>4. QED
  BY <1>2, <1>3, BridgeAssumption

LEMMA WhoIsWho ==
  /\ NetTasks \subseteq Tasks /\ Conns \subseteq NetTasks /\ Uarts \subseteq Tasks
  /\ Conns \subseteq Tasks
  /\ Udp \in NetTasks /\ Udp \in Tasks /\ Srv \in Tasks /\ Con \in Tasks
  /\ Udp # Srv /\ Udp # Con /\ Srv # Con
  /\ \A t \in NetTasks : t \notin Uarts /\ t # Srv /\ t # Con /\ t # Free
  /\ \A t \in NetTasks : t \in Conns \/ t = Udp
  /\ \A c \in Conns : c # Udp
  /\ \A u \in Uarts : u \notin NetTasks /\ u # Srv /\ u # Con /\ u # Udp /\ u # Free
                      /\ u \notin Conns
  /\ Srv \notin NetTasks /\ Con \notin NetTasks /\ Srv \notin Uarts /\ Con \notin Uarts
  /\ Free \notin Tasks
BY Names DEF NetTasks, Tasks

-----------------------------------------------------------------------------
(* The invariant.                                                           *)

Gone == {"none", "dead"}
Clearing == {"stop_client", "test_client", "delete_client"}
Closing == {"stop_sockets", "stop_uarts", "free", "done"}

\* Where each task can be.
Labelled ==
  /\ \A c \in Conns :
       pc[c] \in Gone \cup {"loop", "receive", "take", "send", "end", "undefined"}
  /\ \A t \in Uarts \cup {Udp} : pc[t] \in Gone \cup {"receive", "take", "send"}
  /\ pc[Srv] \in Gone \cup {"loop", "accept", "take", "count", "admit", "give"}
  /\ pc[Con] \in {"dead", "undefined", "boot", "boot_tcp", "boot_uarts", "idle", "take",
                  "set_baud", "stop_server", "delete_server", "stop_clients"} \cup Clearing \cup Closing

\* Whoever is inside what a mutex guards holds it.  (Not the other way: a task that
\* is deleted keeps what it holds.)
UartLocked ==
  /\ \A t \in NetTasks : pc[t] = "send" => uart_mutex = t
  /\ pc[Con] = "set_baud" => uart_mutex = Con
TcpLocked ==
  /\ \A u \in Uarts : pc[u] = "send" => tcp_mutex = u
  /\ pc[Srv] \in {"count", "admit", "give"} => tcp_mutex = Srv
  /\ pc[Con] \in Clearing => tcp_mutex = Con

\* The list has no client twice, and none that was not admitted.
Listing ==
  /\ \A i, j \in DOMAIN tcp_clients : tcp_clients[i] = tcp_clients[j] => i = j
  /\ \A i \in DOMAIN tcp_clients : sock[tcp_clients[i]] \notin {"none", "accepted"}

\* The loops are within what they go through.
Within ==
  /\ \A t \in NetTasks : pc[t] = "send" => at[t] \in 1 .. UartCount + 1
  /\ \A u \in Uarts : pc[u] = "send" => at[u] \in 1 .. Len(tcp_clients) + 1
  /\ pc[Con] = "stop_client" => at[Con] \in 1 .. Len(tcp_clients) + 1
  /\ pc[Con] \in {"test_client", "delete_client"} => at[Con] \in 1 .. Len(tcp_clients)

Members == {tcp_clients[i] : i \in DOMAIN tcp_clients}

\* A task without a handle is gone, and a client's task that is not is in the list.
Handled ==
  /\ ~tcp_server_task => pc[Srv] \in Gone
  /\ \A c \in Conns : pc[c] \notin Gone =>
       task_handle[c] /\ c \in Members

\* What a teardown has passed is gone.
TasksEnd ==
  /\ pc[Con] \in {"stop_clients", "stop_sockets", "stop_uarts", "free"} \cup Clearing
       => pc[Srv] \in Gone
  /\ pc[Con] \in {"stop_uarts", "free"} => pc[Udp] \in Gone
  /\ pc[Con] = "free" => \A u \in Uarts : pc[u] \in Gone
  /\ handle = "freed" => \A t \in Uarts \cup {Udp, Srv} : pc[t] \in Gone
ClientsEnd ==
  /\ pc[Con] \in Clearing =>
       \A i \in DOMAIN tcp_clients : i < at[Con] => pc[tcp_clients[i]] \in Gone
  /\ stop_got /\ pc[Con] \in Closing => \A c \in Conns : pc[c] \in Gone
Stopping ==
  /\ handle = "freed" => pc[Con] = "done"
  /\ stop_got => \/ pc[Con] \in Clearing \cup {"stop_sockets", "stop_uarts", "free", "dead",
                                                      "undefined"}
                 \/ handle = "freed"
  /\ TasksEnd /\ ClientsEnd

\* The clients that the server has counted can only have become fewer.
Counted ==
  /\ Cardinality(Active) <= MaxClients
  /\ pc[Srv] = "admit" => Cardinality(Active) <= at[Srv]

-----------------------------------------------------------------------------
(* Both directions forward packets one at a time to a list of receivers.    *)

In(p, s) == \E i \in DOMAIN s : s[i] = p
Once(s) == \A i, j \in DOMAIN s : s[i] = s[j] => i = j
LastIn(p, s) == \A i \in DOMAIN s : s[i] = p => i = Len(s)

\* t carries a packet.
Carrying(t) == pc[t] \in {"take", "send"}

Carried(T, n) ==
  /\ \A t \in T : Carrying(t) => packet[t] \in 1 .. n
  /\ \A s, t \in T : Carrying(s) /\ Carrying(t) /\ packet[s] = packet[t] => s = t

\* Receivers get a packet once, and in one order.
Received(R, log, n) ==
  /\ \A r \in R : Once(log[r]) /\ \A i \in DOMAIN log[r] : log[r][i] \in 1 .. n
  /\ \A r, s \in R : SameOrder(log[r], log[s])

\* A packet on its way has reached the receivers before the one its task is at.
UartsInTurn ==
  \A t \in NetTasks : Carrying(t) =>
    \A u \in Uarts : /\ LastIn(packet[t], written[u])
                     /\ In(packet[t], written[u]) => pc[t] = "send" /\ u < at[t]

Passed(u, c) == \E i \in DOMAIN tcp_clients : i < at[u] /\ tcp_clients[i] = c

ClientsInTurn ==
  \A u \in Uarts : Carrying(u) =>
    \A c \in Conns : /\ LastIn(packet[u], sent[c])
                     /\ In(packet[u], sent[c]) => pc[u] = "send" /\ Passed(u, c)

UartOrder ==
  Carried(NetTasks, net_in) /\ Received(Uarts, written, net_in) /\ UartsInTurn

ClientOrder ==
  Carried(Uarts, uart_in) /\ Received(Conns, sent, uart_in) /\ ClientsInTurn

-----------------------------------------------------------------------------
(* Types.                                                                   *)

Flagged ==
  /\ tcp_running \in BOOLEAN /\ tcp_server_task \in BOOLEAN /\ stop_got \in BOOLEAN
  /\ connected \in [Conns -> BOOLEAN] /\ task_handle \in [Conns -> BOOLEAN]
  /\ enabled \in [Uarts -> BOOLEAN]

Valued ==
  /\ handle \in {"none", "live", "freed"} /\ state \in {"IDLE", "RUNNING"}
  /\ pc \in [Tasks -> Labels]
  /\ uart_mutex \in NetTasks \cup {Con, Free}
  /\ tcp_mutex \in Uarts \cup {Srv, Con, Free}
  /\ tcp_clients \in Seq(Conns)
  /\ sock \in [Conns -> Socks]
  /\ baud \in [Uarts -> Bauds] /\ ring \in [Uarts -> 0 .. MaxNet]
  /\ packet \in [Tasks -> 0 .. MaxNet + MaxUart]
  /\ DOMAIN at = Tasks
  /\ \A t \in NetTasks : at[t] \in 0 .. UartCount + 1
  /\ \A t \in Tasks \ NetTasks : at[t] \in 0 .. Cardinality(Conns) + 1
  /\ net_in \in 0 .. MaxNet /\ uart_in \in 0 .. MaxUart
  /\ written \in [Uarts -> Seq(1 .. MaxNet)] /\ sent \in [Conns -> Seq(1 .. MaxUart)]

LEMMA TypesSplit == TypeOK <=> Flagged /\ Valued
BY Zenon DEF TypeOK, Flagged, Valued

-----------------------------------------------------------------------------
(* Places and mutexes.                                                      *)

LEMMA LabelledKept ==
  ASSUME Valued, Labelled, [Next]_vars
  PROVE  Labelled'
<1> USE WhoIsWho DEF Valued, Goto, Labelled, Gone, Clearing, Closing, AfterPacket
<1>1. ASSUME NEW t \in NetTasks, NetToUarts(t) PROVE Labelled'
  BY ZenonT(60), <1>1 DEF NetToUarts, NetReceive, UartTake, UartTakeTimeout, UartSend,
       UartGive
<1>2. ASSUME NEW c \in Conns, ClientTask(c) \/ PeerCloses(c) PROVE Labelled'
  BY ZenonT(60), <1>2 DEF ClientTask, ClientLoop, ClientReceiveNothing, ClientEnd,
       PeerCloses
<1>3. CASE ServerTask
  <2>1. CASE ServerLoop \/ ServerAccept \/ ServerTake \/ ServerTakeTimeout
    BY SMTT(30), <2>1 DEF ServerLoop, ServerAccept, ServerTake, ServerTakeTimeout
  <2>2. CASE ServerCount \/ ServerGive
    BY ZenonT(60), <2>2 DEF ServerCount, ServerGive
  <2>3. CASE ServerAdmit
    <3>1. \/ pc' = [pc EXCEPT ![Srv] = "give"]
          \/ \E c \in Conns : pc' = [pc EXCEPT ![Srv] = "give", ![c] = "loop"]
      BY Zenon, <2>3 DEF ServerAdmit
    <3>2. CASE pc' = [pc EXCEPT ![Srv] = "give"]
      BY SMTT(30), <3>2
    <3>3. ASSUME NEW c \in Conns, pc' = [pc EXCEPT ![Srv] = "give", ![c] = "loop"]
          PROVE  Labelled'
      BY SMTT(30), <3>3
    <3>4. QED
      BY <3>1, <3>2, <3>3
  <2>4. QED
    BY <1>3, <2>1, <2>2, <2>3 DEF ServerTask
<1>4. ASSUME NEW u \in Uarts, UartTask(u) \/ UartSent(u) PROVE Labelled'
  BY ZenonT(60), <1>4 DEF UartSent, UartTask, UartReceive, BroadcastTake,
       BroadcastTakeTimeout, BroadcastSend,
       BroadcastGive
<1>5. CASE Boot \/ Console \/ Deinit
  BY ZenonT(60), <1>5 DEF Boot, Console, BootUdp, BootTcp, BootUarts, EnableUart,
       SetBaudBegin,
       SetBaudTake, SetBaudTakeTimeout, SetBaud, Deinit
<1>6. CASE Cleanup
  <2>1. CASE StopServer \/ DeleteServer \/ StopTakeClients \/ StopTakeClientsTimeout
             \/ StopClient \/ TestClient
    BY <1>6, <2>1 DEF StopServer, DeleteServer, DeleteCleared, StopTakeClients,
         StopTakeClientsTimeout,
       StopClient, TestClient
  <2>2. CASE DeleteClient
    BY ZenonT(60), <1>6, <2>2 DEF DeleteClient, DeleteCleared
  <2>3. CASE StopClientsDone \/ StopSockets \/ FreeHandle
    BY <1>6, <2>3 DEF StopClientsDone, StopSockets, FreeHandle
  <2>4. CASE StopUarts
    BY <1>6, <2>4 DEF StopUarts
  <2>5. QED
    BY <1>6, <2>1, <2>2, <2>3, <2>4 DEF Cleanup
<1>7. CASE UNCHANGED vars
  BY <1>7 DEF vars
<1>8. QED
  BY <1>1, <1>2, <1>3, <1>4, <1>5, <1>6, <1>7 DEF Next

LEMMA UartLockedKept ==
  ASSUME Valued, Labelled, UartLocked, [Next]_vars
  PROVE  UartLocked'
<1> USE WhoIsWho DEF Valued, Goto, Labelled, Gone, Clearing, Closing, AfterPacket,
        UartLocked, mutexVars
<1>1. ASSUME NEW t \in NetTasks, NetToUarts(t) PROVE UartLocked'
  BY ZenonT(60), <1>1 DEF NetToUarts, NetReceive, UartTake, UartTakeTimeout, UartSend,
       UartGive
<1>2. ASSUME NEW c \in Conns, ClientTask(c) \/ PeerCloses(c) PROVE UartLocked'
  BY <1>2 DEF ClientTask, ClientLoop, ClientReceiveNothing, ClientEnd, PeerCloses
<1>3. CASE ServerTask
  BY <1>3 DEF ServerTask, ServerLoop, ServerAccept, ServerTake, ServerTakeTimeout,
       ServerCount, ServerAdmit, ServerGive
<1>4. ASSUME NEW u \in Uarts, UartTask(u) \/ UartSent(u) PROVE UartLocked'
  BY <1>4 DEF UartSent, UartTask, UartReceive, BroadcastTake, BroadcastTakeTimeout,
       BroadcastSend,
       BroadcastGive
<1>5. CASE Boot \/ Console \/ Deinit
  BY <1>5 DEF Boot, Console, BootUdp, BootTcp, BootUarts, EnableUart, SetBaudBegin,
       SetBaudTake, SetBaudTakeTimeout, SetBaud, Deinit
<1>6. CASE Cleanup
  BY SMTT(30), <1>6 DEF Cleanup, StopServer, DeleteServer, DeleteCleared, StopTakeClients,
       StopTakeClientsTimeout, StopClient, TestClient, DeleteClient, StopClientsDone,
       StopSockets, StopUarts, FreeHandle
<1>7. CASE UNCHANGED vars
  BY <1>7 DEF vars
<1>8. QED
  BY <1>1, <1>2, <1>3, <1>4, <1>5, <1>6, <1>7 DEF Next

LEMMA TcpLockedKept ==
  ASSUME Valued, Labelled, TcpLocked, [Next]_vars
  PROVE  TcpLocked'
<1> USE WhoIsWho DEF Valued, Goto, Labelled, Gone, Clearing, Closing, AfterPacket,
        TcpLocked, mutexVars
<1>1. ASSUME NEW t \in NetTasks, NetToUarts(t) PROVE TcpLocked'
  BY <1>1 DEF NetToUarts, NetReceive, UartTake, UartTakeTimeout, UartSend, UartGive
<1>2. ASSUME NEW c \in Conns, ClientTask(c) \/ PeerCloses(c) PROVE TcpLocked'
  BY <1>2 DEF ClientTask, ClientLoop, ClientReceiveNothing, ClientEnd, PeerCloses
<1>3. CASE ServerTask
  BY SMTT(30), <1>3 DEF ServerTask, ServerLoop, ServerAccept, ServerTake, ServerTakeTimeout,
       ServerCount, ServerAdmit, ServerGive
<1>4. ASSUME NEW u \in Uarts, UartTask(u) \/ UartSent(u) PROVE TcpLocked'
  BY ZenonT(60), <1>4 DEF UartSent, UartTask, UartReceive, BroadcastTake,
       BroadcastTakeTimeout, BroadcastSend,
       BroadcastGive
<1>5. CASE Boot \/ Console \/ Deinit
  BY SMTT(30), <1>5 DEF Boot, Console, BootUdp, BootTcp, BootUarts, EnableUart,
       SetBaudBegin,
       SetBaudTake, SetBaudTakeTimeout, SetBaud, Deinit
<1>6. CASE Cleanup
  BY SMTT(30), <1>6 DEF Cleanup, StopServer, DeleteServer, DeleteCleared, StopTakeClients,
       StopTakeClientsTimeout, StopClient, TestClient, DeleteClient, StopClientsDone,
       StopSockets, StopUarts, FreeHandle
<1>7. CASE UNCHANGED vars
  BY <1>7 DEF vars
<1>8. QED
  BY <1>1, <1>2, <1>3, <1>4, <1>5, <1>6, <1>7 DEF Next

-----------------------------------------------------------------------------
(* The list of clients.                                                     *)

LEMMA AppendFacts ==
  ASSUME NEW S, NEW q \in Seq(S), NEW e \in S, NEW r, r = Append(q, e)
  PROVE  /\ Len(q) \in Nat /\ r \in Seq(S) /\ Len(r) = Len(q) + 1
         /\ DOMAIN q = 1 .. Len(q) /\ DOMAIN r = 1 .. Len(q) + 1
         /\ \A i \in 1 .. Len(q) : r[i] = q[i] /\ q[i] \in S
         /\ r[Len(q) + 1] = e
OBVIOUS

LEMMA ListFacts ==
  ASSUME Valued
  PROVE  /\ Len(tcp_clients) \in Nat /\ DOMAIN tcp_clients = 1 .. Len(tcp_clients)
         /\ \A i \in DOMAIN tcp_clients : tcp_clients[i] \in Conns
         /\ UartCount \in Nat
         /\ \A i \in Uarts : i + 1 \in 1 .. UartCount + 1
         /\ 1 \in 1 .. UartCount + 1 /\ 1 \in 1 .. Len(tcp_clients) + 1
         /\ \A i \in DOMAIN tcp_clients : i + 1 \in 1 .. Len(tcp_clients) + 1
BY BridgeAssumption DEF Valued, Uarts

\* What is admitted was accepted, and so is not in the list, whose others keep their
\* places.
LEMMA Admitted ==
  ASSUME Valued, Listing, NEW c \in Conns, sock[c] = "accepted",
         tcp_clients' = Append(tcp_clients, c)
  PROVE  /\ Len(tcp_clients') = Len(tcp_clients) + 1
         /\ DOMAIN tcp_clients' = 1 .. Len(tcp_clients) + 1
         /\ \A i \in DOMAIN tcp_clients' :
              i \in DOMAIN tcp_clients \/ i = Len(tcp_clients) + 1
         /\ \A i \in DOMAIN tcp_clients : tcp_clients'[i] = tcp_clients[i]
                                          /\ tcp_clients[i] # c
         /\ tcp_clients'[Len(tcp_clients) + 1] = c
<1>1. \A r : r = Append(tcp_clients, c) =>
             /\ Len(r) = Len(tcp_clients) + 1
             /\ DOMAIN r = 1 .. Len(tcp_clients) + 1
             /\ \A i \in 1 .. Len(tcp_clients) : r[i] = tcp_clients[i]
             /\ r[Len(tcp_clients) + 1] = c
  BY AppendFacts DEF Valued
<1>2. DOMAIN tcp_clients = 1 .. Len(tcp_clients) /\ Len(tcp_clients) \in Nat
  BY ListFacts
<1>3. \A i \in 1 .. Len(tcp_clients) + 1 :
        i \in 1 .. Len(tcp_clients) \/ i = Len(tcp_clients) + 1
  BY <1>2
<1>4. QED
  BY <1>1, <1>2, <1>3 DEF Listing

LEMMA ListingKept ==
  ASSUME Valued, Listing, [Next]_vars
  PROVE  Listing'
<1> USE WhoIsWho DEF Valued, Goto, Listing, clientVars
<1>1. ASSUME NEW t \in NetTasks, NetToUarts(t) PROVE Listing'
  BY <1>1, ListFacts DEF NetToUarts, NetReceive, UartTake, UartTakeTimeout, UartSend,
       UartGive
<1>2. ASSUME NEW c \in Conns, ClientTask(c) \/ PeerCloses(c) PROVE Listing'
  BY <1>2, ListFacts DEF ClientTask, ClientLoop, ClientReceiveNothing, ClientEnd,
       PeerCloses
<1>3. CASE ServerTask
  <2>1. CASE ServerLoop \/ ServerTake \/ ServerCount \/ ServerGive
    BY <1>3, <2>1 DEF ServerLoop, ServerTake, ServerCount, ServerGive
  <2>2. CASE ServerAccept
    BY <1>3, <2>2, ListFacts DEF ServerAccept
  <2>3. CASE ServerTakeTimeout
    BY <1>3, <2>3, ListFacts DEF ServerTakeTimeout
  <2>4. CASE ServerAdmit
    <3>1. PICK c \in Conns :
            /\ sock[c] = "accepted"
            /\ \/ /\ tcp_clients' = Append(tcp_clients, c)
                  /\ sock' = [sock EXCEPT ![c] = "open"]
               \/ /\ tcp_clients' = tcp_clients
                  /\ sock' = [sock EXCEPT ![c] = "closed"]
      BY <2>4 DEF ServerAdmit
    <3>2. CASE UNCHANGED tcp_clients
      BY <3>1, <3>2, ListFacts
    <3>3. CASE tcp_clients' = Append(tcp_clients, c)
      <4>1. \A i \in DOMAIN tcp_clients' :
              i \in DOMAIN tcp_clients \/ i = Len(tcp_clients) + 1
        BY <3>1, <3>3, Admitted
      <4>2. sock'[c] \notin {"none", "accepted"}
        BY <3>1
      <4>3. \A d \in Conns : d # c => sock'[d] = sock[d]
        BY <3>1
      <4>4. /\ tcp_clients'[Len(tcp_clients) + 1] = c
            /\ \A i \in DOMAIN tcp_clients : tcp_clients'[i] = tcp_clients[i]
                                             /\ tcp_clients[i] # c
        BY <3>1, <3>3, Admitted
      <4>5. \A i \in DOMAIN tcp_clients : tcp_clients[i] \in Conns
        BY ListFacts
      <4> QED
        BY <4>1, <4>2, <4>3, <4>4, <4>5
    <3>4. QED
      BY <3>1, <3>2, <3>3
  <2>5. QED
    BY <1>3, <2>1, <2>2, <2>3, <2>4 DEF ServerTask
<1>4. ASSUME NEW u \in Uarts, UartTask(u) \/ UartSent(u) PROVE Listing'
  BY <1>4, ListFacts DEF UartSent, UartTask, UartReceive, BroadcastTake,
       BroadcastTakeTimeout,
       BroadcastSend, BroadcastGive
<1>5. CASE Boot \/ Console \/ Deinit
  BY <1>5, ListFacts DEF Boot, Console, BootUdp, BootTcp, BootUarts, EnableUart,
       SetBaudBegin, SetBaudTake, SetBaudTakeTimeout, SetBaud, Deinit
<1>6. CASE Cleanup
  <2>1. CASE StopServer \/ DeleteServer \/ StopTakeClients \/ StopTakeClientsTimeout
             \/ TestClient
    BY <1>6, <2>1 DEF StopServer, DeleteServer, DeleteCleared, StopTakeClients,
         StopTakeClientsTimeout,
       TestClient
  <2>2. CASE StopClient
    BY <1>6, <2>2, ListFacts DEF StopClient
  <2>3. CASE DeleteClient
    BY <1>6, <2>3 DEF DeleteClient, DeleteCleared
  <2>4. CASE StopClientsDone
    BY <1>6, <2>4 DEF StopClientsDone
  <2>5. CASE StopSockets \/ StopUarts \/ FreeHandle
    BY <1>6, <2>5 DEF StopSockets, StopUarts, FreeHandle
  <2>6. QED
    BY <1>6, <2>1, <2>2, <2>3, <2>4, <2>5 DEF Cleanup
<1>7. CASE UNCHANGED vars
  BY <1>7, ListFacts DEF vars
<1>8. QED
  BY <1>1, <1>2, <1>3, <1>4, <1>5, <1>6, <1>7 DEF Next

\* The client that a teardown is at.
Visited == tcp_clients[at[Con]]

LEMMA VisitedFacts ==
  ASSUME Valued, Within, pc[Con] \in {"test_client", "delete_client"}
  PROVE  /\ Visited \in Conns /\ at[Con] \in DOMAIN tcp_clients
         /\ at[Con] \in 1 .. Len(tcp_clients) /\ at[Con] + 1 \in 1 .. Len(tcp_clients) + 1
<1>1. at[Con] \in 1 .. Len(tcp_clients)
  BY DEF Within
<1>2. QED
  BY <1>1, ListFacts DEF Visited

LEMMA TestClientMoves ==
  ASSUME Valued, TestClient
  PROVE  /\ \/ pc'[Con] = "delete_client" /\ at'[Con] = at[Con]
            \/ /\ pc'[Con] = "stop_client" /\ at'[Con] = at[Con] + 1
               /\ ~task_handle[Visited]
         /\ \A t \in Tasks \ {Con} : pc'[t] = pc[t] /\ at'[t] = at[t]
         /\ pc[Con] = "test_client"
<1>1. DOMAIN at = Tasks /\ pc \in [Tasks -> Labels] /\ Con \in Tasks
  BY WhoIsWho DEF Valued
<1>2. QED
  BY <1>1 DEF TestClient, Goto, Visited

LEMMA DeleteClientMoves ==
  ASSUME Valued, Flagged, Within, DeleteClient
  PROVE  /\ \/ /\ pc'[Con] = "stop_client" /\ at'[Con] = at[Con] + 1
               /\ pc'[Visited] = "dead"
            \/ /\ pc'[Con] \in {"dead", "undefined"} /\ at'[Con] = at[Con]
               /\ ~task_handle[Visited] /\ pc'[Visited] = pc[Visited]
         /\ \A t \in Tasks \ {Con} : at'[t] = at[t] /\ (t # Visited => pc'[t] = pc[t])
         /\ \A c \in Conns : c # Visited => task_handle'[c] = task_handle[c]
         /\ pc[Con] = "delete_client"
<1>1. DOMAIN at = Tasks /\ pc \in [Tasks -> Labels] /\ Con \in Tasks
  BY WhoIsWho DEF Valued
<1>2. task_handle \in [Conns -> BOOLEAN]
  BY DEF Flagged
<1>3. pc[Con] = "delete_client"
  BY DEF DeleteClient
<1>4. Visited \in Tasks /\ Visited # Con
  BY <1>3, VisitedFacts, WhoIsWho
<1>5. QED
  BY <1>1, <1>2, <1>3, <1>4 DEF DeleteClient, DeleteCleared, Goto, Visited

LEMMA AdmitMoves ==
  ASSUME Valued, Flagged, ServerAdmit
  PROVE  \E c \in Conns :
           /\ sock[c] = "accepted" /\ pc[Srv] = "admit" /\ pc'[Srv] = "give"
           /\ \A t \in Tasks \ {Srv, c} : pc'[t] = pc[t]
           /\ \/ /\ tcp_clients' = Append(tcp_clients, c)
                 /\ at[Srv] < MaxClients
                 /\ connected' = [connected EXCEPT ![c] = TRUE]
                 /\ \/ pc'[c] = "loop" /\ task_handle' = [task_handle EXCEPT ![c] = TRUE]
                    \/ pc'[c] = pc[c] /\ UNCHANGED task_handle
              \/ pc'[c] = pc[c] /\ UNCHANGED <<tcp_clients, connected, task_handle>>
<1>1. pc \in [Tasks -> Labels] /\ Srv \in Tasks /\ \A c \in Conns : c \in Tasks /\ c # Srv
  BY WhoIsWho DEF Valued
<1>2. QED
  BY <1>1 DEF ServerAdmit, Goto, HasRoom

LEMMA WithinKept ==
  ASSUME Valued, Flagged, Labelled, TcpLocked, Listing, Within, [Next]_vars
  PROVE  Within'
<1> USE WhoIsWho DEF Valued, Goto, Labelled, Gone, Clearing, Closing, AfterPacket,
        Within, TcpLocked, clientVars, localVars
<1>1. ASSUME NEW t \in NetTasks, NetToUarts(t) PROVE Within'
  <2>1. CASE NetReceive(t) \/ UartTakeTimeout(t) \/ UartGive(t)
    BY <1>1, <2>1 DEF NetReceive, UartTakeTimeout, UartGive
  <2>2. CASE UartTake(t)
    BY <1>1, <2>2, ListFacts DEF UartTake
  <2>3. CASE UartSend(t)
    BY <1>1, <2>3, ListFacts DEF UartSend
  <2>4. QED
    BY <1>1, <2>1, <2>2, <2>3 DEF NetToUarts
<1>2. ASSUME NEW c \in Conns, ClientTask(c) \/ PeerCloses(c) PROVE Within'
  BY ZenonT(60), <1>2, ListFacts DEF ClientTask, ClientLoop, ClientReceiveNothing,
       ClientEnd,
       PeerCloses
<1>3. CASE ServerTask
  <2>1. CASE ServerLoop \/ ServerAccept
    BY <1>3, <2>1, ListFacts DEF ServerLoop, ServerAccept
  <2>2. CASE ServerTake \/ ServerTakeTimeout
    BY <1>3, <2>2, ListFacts DEF ServerTake, ServerTakeTimeout
  <2>3. CASE ServerCount
    BY <1>3, <2>3, ListFacts DEF ServerCount
  <2>4. CASE ServerAdmit
    <3>1. (\A u \in Uarts : pc[u] # "send") /\ pc[Con] \notin Clearing
      BY <2>4 DEF ServerAdmit
    <3>2. UNCHANGED at /\ \A t \in Tasks : pc'[t] = pc[t] \/ pc'[t] \in {"loop", "give"}
      BY <2>4 DEF ServerAdmit
    <3>3. QED
      BY <3>1, <3>2
  <2>5. CASE ServerGive
    BY <1>3, <2>5, ListFacts DEF ServerGive
  <2>6. QED
    BY <1>3, <2>1, <2>2, <2>3, <2>4, <2>5 DEF ServerTask
<1>4. ASSUME NEW u \in Uarts, UartTask(u) \/ UartSent(u) PROVE Within'
  <2>1. CASE UartReceive(u) \/ BroadcastTakeTimeout(u) \/ BroadcastGive(u) \/ UartSent(u)
    BY <1>4, <2>1 DEF UartReceive, BroadcastTakeTimeout, BroadcastGive, UartSent
  <2>2. CASE BroadcastTake(u)
    BY <1>4, <2>2, ListFacts DEF BroadcastTake
  <2>3. CASE BroadcastSend(u)
    BY <1>4, <2>3, ListFacts DEF BroadcastSend
  <2>4. QED
    BY <1>4, <2>1, <2>2, <2>3 DEF UartTask
<1>5. CASE Boot \/ Console \/ Deinit
  BY ZenonT(60), <1>5, ListFacts DEF Boot, Console, BootUdp, BootTcp, BootUarts, EnableUart,
       SetBaudBegin, SetBaudTake, SetBaudTakeTimeout, SetBaud, Deinit
<1>6. CASE Cleanup
  <2>1. CASE StopServer \/ DeleteServer \/ StopTakeClientsTimeout
    BY <1>6, <2>1 DEF StopServer, DeleteServer, DeleteCleared, StopTakeClientsTimeout
  <2>2. CASE StopTakeClients
    BY <1>6, <2>2, ListFacts DEF StopTakeClients
  <2>3. CASE StopClient
    BY <1>6, <2>3, ListFacts DEF StopClient
  <2>4. CASE TestClient
    <3>1. pc[Con] \in {"test_client", "delete_client"} /\ UNCHANGED tcp_clients
      BY <2>4 DEF TestClient, clientVars
    <3>2. QED
      BY <2>4, <3>1, TestClientMoves, VisitedFacts
  <2>5. CASE DeleteClient
    <3>1. pc[Con] \in {"test_client", "delete_client"} /\ UNCHANGED tcp_clients
      BY <2>5 DEF DeleteClient, DeleteCleared
    <3>2. QED
      BY <2>5, <3>1, DeleteClientMoves, VisitedFacts
  <2>6. CASE StopClientsDone
    BY <1>6, <2>6, ListFacts DEF StopClientsDone
  <2>7. CASE StopSockets \/ StopUarts \/ FreeHandle
    BY <1>6, <2>7 DEF StopSockets, StopUarts, FreeHandle
  <2>8. QED
    BY <1>6, <2>1, <2>2, <2>3, <2>4, <2>5, <2>6, <2>7 DEF Cleanup
<1>7. CASE UNCHANGED vars
  BY <1>7, ListFacts DEF vars
<1>8. QED
  BY <1>1, <1>2, <1>3, <1>4, <1>5, <1>6, <1>7 DEF Next

LEMMA MembersKept ==
  ASSUME Valued, Listing
  PROVE  /\ UNCHANGED tcp_clients => Members' = Members
         /\ \A c \in Conns : sock[c] = "accepted" =>
              /\ c \notin Members
              /\ tcp_clients' = Append(tcp_clients, c) => Members' = Members \cup {c}
<1>1. UNCHANGED tcp_clients => Members' = Members
  BY DEF Members
<1>2. ASSUME NEW c \in Conns, sock[c] = "accepted" PROVE c \notin Members
  BY <1>2 DEF Members, Listing
<1>3. ASSUME NEW c \in Conns, sock[c] = "accepted", tcp_clients' = Append(tcp_clients, c)
      PROVE  Members' = Members \cup {c}
  <2>1. /\ DOMAIN tcp_clients' = 1 .. Len(tcp_clients) + 1
        /\ \A i \in DOMAIN tcp_clients : tcp_clients'[i] = tcp_clients[i]
        /\ tcp_clients'[Len(tcp_clients) + 1] = c
    BY <1>3, Admitted
  <2>2. DOMAIN tcp_clients = 1 .. Len(tcp_clients) /\ Len(tcp_clients) \in Nat
    BY ListFacts
  <2>3. DOMAIN tcp_clients' = DOMAIN tcp_clients \cup {Len(tcp_clients) + 1}
    BY <2>1, <2>2
  <2>4. Members' = {tcp_clients'[i] : i \in DOMAIN tcp_clients'}
    BY DEF Members
  <2>5. QED
    BY <2>1, <2>3, <2>4 DEF Members
<1>4. QED
  BY <1>1, <1>2, <1>3

LEMMA AdmitHandles ==
  ASSUME Valued, Flagged, Listing, Handled,
         NEW c \in Conns, sock[c] = "accepted",
         \A t \in Tasks \ {Srv, c} : pc'[t] = pc[t],
         \/ /\ tcp_clients' = Append(tcp_clients, c)
            /\ \/ pc'[c] = "loop" /\ task_handle' = [task_handle EXCEPT ![c] = TRUE]
               \/ pc'[c] = pc[c] /\ UNCHANGED task_handle
         \/ pc'[c] = pc[c] /\ UNCHANGED <<tcp_clients, task_handle>>
  PROVE  \A d \in Conns : pc'[d] \notin Gone => task_handle'[d] /\ d \in Members'
<1>1. Members \subseteq Members' /\ (tcp_clients' = Append(tcp_clients, c) => c \in Members')
  BY MembersKept
<1>2. \A d \in Conns : d # Srv /\ d \in Tasks
  BY WhoIsWho
<1>3. task_handle \in [Conns -> BOOLEAN]
  BY DEF Flagged
<1> TAKE d \in Conns
<1>4. HAVE pc'[d] \notin Gone
<1>5. CASE pc'[d] = pc[d]
  <2>1. task_handle[d] /\ d \in Members
    BY <1>4, <1>5 DEF Handled
  <2>2. task_handle'[d]
    BY <1>3, <2>1
  <2>3. QED
    BY <1>1, <2>1, <2>2
<1>6. CASE pc'[d] # pc[d]
  <2>1. d = c
    BY <1>2, <1>6
  <2>2. tcp_clients' = Append(tcp_clients, c) /\ task_handle' = [task_handle EXCEPT ![c] = TRUE]
    BY <1>6, <2>1
  <2>3. QED
    BY <1>1, <1>3, <2>1, <2>2
<1>7. QED
  BY <1>5, <1>6

LEMMA HandledKept ==
  ASSUME Valued, Flagged, Labelled, TcpLocked, Listing, Within, Handled, Stopping, [Next]_vars
  PROVE  Handled'
<1> USE WhoIsWho DEF Valued, Goto, Labelled, Gone, Clearing, Closing, AfterPacket,
        Handled, Flagged, clientVars, bridgeVars
<1>1. ASSUME NEW t \in NetTasks, NetToUarts(t) PROVE Handled'
  BY <1>1, MembersKept DEF NetToUarts, NetReceive, UartTake, UartTakeTimeout, UartSend,
       UartGive
<1>2. ASSUME NEW c \in Conns, ClientTask(c) \/ PeerCloses(c) PROVE Handled'
  BY ZenonT(60), <1>2, MembersKept DEF ClientTask, ClientLoop, ClientReceiveNothing,
       ClientEnd,
       PeerCloses
<1>3. CASE ServerTask
  <2>1. CASE ServerLoop
    BY <1>3, <2>1, MembersKept DEF ServerLoop
  <2>2. CASE ServerAccept \/ ServerTake \/ ServerTakeTimeout \/ ServerCount
             \/ ServerGive
    BY <1>3, <2>2, MembersKept DEF ServerAccept, ServerTake, ServerTakeTimeout,
       ServerCount, ServerGive
  <2>3. CASE ServerAdmit
    <3>1. PICK c \in Conns :
            /\ sock[c] = "accepted"
            /\ \A t \in Tasks \ {Srv, c} : pc'[t] = pc[t]
            /\ \/ /\ tcp_clients' = Append(tcp_clients, c)
                  /\ \/ pc'[c] = "loop" /\ task_handle' = [task_handle EXCEPT ![c] = TRUE]
                     \/ pc'[c] = pc[c] /\ UNCHANGED task_handle
               \/ pc'[c] = pc[c] /\ UNCHANGED <<tcp_clients, task_handle>>
      BY <2>3, AdmitMoves
    <3>2. ~tcp_server_task' => pc'[Srv] \in Gone
      BY <2>3 DEF ServerAdmit
    <3>3. \A d \in Conns : pc'[d] \notin Gone => task_handle'[d] /\ d \in Members'
      BY <3>1, AdmitHandles
    <3>4. QED
      BY <3>2, <3>3
  <2>4. QED
    BY <1>3, <2>1, <2>2, <2>3 DEF ServerTask
<1>4. ASSUME NEW u \in Uarts, UartTask(u) \/ UartSent(u) PROVE Handled'
  BY <1>4, MembersKept DEF UartSent, UartTask, UartReceive, BroadcastTake,
       BroadcastTakeTimeout,
       BroadcastSend, BroadcastGive
<1>5. CASE Boot \/ Console \/ Deinit
  BY SMTT(30), <1>5, MembersKept DEF Boot, Console, BootUdp, BootTcp, BootUarts, EnableUart,
       SetBaudBegin, SetBaudTake, SetBaudTakeTimeout, SetBaud, Deinit
<1>6. CASE Cleanup
  <2>1. CASE StopServer \/ DeleteServer \/ StopTakeClients \/ StopTakeClientsTimeout
    BY SMTT(30), <1>6, <2>1, MembersKept
       DEF StopServer, DeleteServer, DeleteCleared, StopTakeClients, StopTakeClientsTimeout
  <2>2. CASE StopClient
    BY <1>6, <2>2, MembersKept DEF StopClient
  <2>3. CASE TestClient
    BY SMTT(30), <1>6, <2>3, MembersKept DEF TestClient
  <2>4. CASE DeleteClient
    <3>1. /\ pc[Con] \in {"test_client", "delete_client"}
          /\ UNCHANGED <<tcp_clients, tcp_server_task>>
      BY <2>4 DEF DeleteClient, DeleteCleared
    <3>2. Members' = Members
      BY <3>1, MembersKept
    <3>3. pc'[Srv] = pc[Srv]
      BY <2>4, <3>1, DeleteClientMoves, VisitedFacts
    <3>4. ASSUME NEW c \in Conns, pc'[c] \notin Gone PROVE task_handle'[c] /\ c \in Members'
      <4>1. CASE c = Visited
        BY <2>4, <3>1, <3>4, <4>1, DeleteClientMoves
      <4>2. CASE c # Visited
        BY <2>4, <3>2, <3>4, <4>2, DeleteClientMoves
      <4>3. QED
        BY <4>1, <4>2
    <3>5. QED
      BY <3>1, <3>3, <3>4
  <2>5. CASE StopClientsDone
    <3>1. at[Con] = Len(tcp_clients) + 1 /\ pc[Con] \in Clearing
      BY <2>5 DEF StopClientsDone
    <3>2. \A i \in DOMAIN tcp_clients : pc[tcp_clients[i]] \in Gone
      <4>1. \A i \in DOMAIN tcp_clients : i < Len(tcp_clients) + 1
        BY ListFacts
      <4>2. QED
        BY <3>1, <4>1 DEF Stopping, ClientsEnd
    <3>3. \A c \in Conns : pc[c] \in Gone
      BY <3>2 DEF Members
    <3>4. QED
      BY <2>5, <3>3 DEF StopClientsDone
  <2>6. CASE StopSockets \/ StopUarts \/ FreeHandle
    BY ZenonT(60), <1>6, <2>6, MembersKept DEF StopSockets, StopUarts, FreeHandle
  <2>7. QED
    BY <1>6, <2>1, <2>2, <2>3, <2>4, <2>5, <2>6 DEF Cleanup
<1>7. CASE UNCHANGED vars
  BY <1>7, MembersKept DEF vars
<1>8. QED
  BY <1>1, <1>2, <1>3, <1>4, <1>5, <1>6, <1>7 DEF Next

-----------------------------------------------------------------------------
(* The teardown.                                                            *)

Others == \/ \E t \in NetTasks : NetToUarts(t)
          \/ \E c \in Conns : ClientTask(c) \/ PeerCloses(c)
          \/ ServerTask
          \/ \E u \in Uarts : UartTask(u) \/ UartSent(u)

\* No task but the console's wakes one that is gone, unless the server admits a client.
LEMMA OthersMove ==
  ASSUME Valued, Others
  PROVE  /\ pc'[Con] = pc[Con] /\ at'[Con] = at[Con] /\ UNCHANGED <<handle, stop_got>>
         /\ \/ /\ \A t \in Tasks \ {Con} : pc[t] \in Gone => pc'[t] \in Gone
               /\ UNCHANGED tcp_clients
            \/ ServerAdmit
<1> USE WhoIsWho DEF Valued, Goto, Gone, bridgeVars, clientVars, localVars
<1>1. ASSUME NEW t \in NetTasks, NetToUarts(t)
      PROVE  /\ \A x \in Tasks \ {t} : pc'[x] = pc[x] /\ at'[x] = at[x]
             /\ pc[t] \notin Gone /\ UNCHANGED <<handle, stop_got, tcp_clients>>
  BY <1>1 DEF NetToUarts, NetReceive, UartTake, UartTakeTimeout, UartSend, UartGive
<1>2. ASSUME NEW c \in Conns, ClientTask(c) \/ PeerCloses(c)
      PROVE  /\ \A x \in Tasks \ {c} : pc'[x] = pc[x] /\ at'[x] = at[x]
             /\ pc[c] \notin Gone \/ pc'[c] = pc[c]
             /\ UNCHANGED <<handle, stop_got, tcp_clients>>
  BY <1>2 DEF ClientTask, ClientLoop, ClientReceiveNothing, ClientEnd, PeerCloses
<1>3. ASSUME ServerTask, ~ServerAdmit
      PROVE  /\ \A x \in Tasks \ {Srv} : pc'[x] = pc[x] /\ at'[x] = at[x]
             /\ pc[Srv] \notin Gone /\ UNCHANGED <<handle, stop_got, tcp_clients>>
  BY <1>3 DEF ServerTask, ServerLoop, ServerAccept, ServerTake, ServerTakeTimeout,
       ServerCount, ServerGive
<1>4. ASSUME NEW u \in Uarts, UartTask(u)
      PROVE  /\ \A x \in Tasks \ {u} : pc'[x] = pc[x] /\ at'[x] = at[x]
             /\ pc[u] \notin Gone /\ UNCHANGED <<handle, stop_got, tcp_clients>>
  BY <1>4 DEF UartTask, UartReceive, BroadcastTake, BroadcastTakeTimeout, BroadcastSend,
       BroadcastGive
<1>5. CASE ServerAdmit
  BY <1>5 DEF ServerAdmit
<1>6. ASSUME NEW u \in Uarts, UartSent(u)
      PROVE  UNCHANGED <<pc, at, handle, stop_got, tcp_clients>>
  BY <1>6 DEF UartSent
<1>7. QED
  BY SMTT(30), <1>1, <1>2, <1>3, <1>4, <1>5, <1>6 DEF Others

LEMMA OthersKeepStopping ==
  ASSUME Valued, Flagged, Labelled, Stopping, Others, handle # "freed"
  PROVE  Stopping'
<1>1. /\ pc'[Con] = pc[Con] /\ at'[Con] = at[Con] /\ UNCHANGED <<handle, stop_got>>
  BY OthersMove
<1>2. CASE ServerAdmit
  <2>1. pc[Srv] = "admit"
    BY <1>2 DEF ServerAdmit
  <2>2. pc[Con] \notin {"stop_clients", "stop_sockets", "stop_uarts", "free"} \cup Clearing
    BY <2>1 DEF Stopping, TasksEnd, Gone
  <2>3. stop_got => pc[Con] \in {"dead", "undefined"}
    BY <2>2 DEF Stopping
  <2>4. stop_got' => pc'[Con] \notin Closing
    BY <1>1, <2>3 DEF Closing
  <2>5. QED
    BY <1>1, <2>2, <2>4 DEF Stopping, TasksEnd, ClientsEnd
<1>3. CASE /\ \A t \in Tasks \ {Con} : pc[t] \in Gone => pc'[t] \in Gone
           /\ UNCHANGED tcp_clients
  <2>1. TasksEnd'
    BY <1>1, <1>3, WhoIsWho DEF Stopping, TasksEnd
  <2>2. ClientsEnd'
    BY <1>1, <1>3, WhoIsWho, ListFacts DEF Stopping, ClientsEnd
  <2>3. QED
    BY <1>1, <2>1, <2>2 DEF Stopping
<1>4. QED
  BY <1>2, <1>3, OthersMove

LEMMA ConsoleKeepsStopping ==
  ASSUME Valued, Flagged, Labelled, Stopping, Boot \/ Console \/ Deinit, handle # "freed"
  PROVE  Stopping'
<1> USE WhoIsWho DEF Valued, Goto, bridgeVars
<1>1. /\ pc[Con] \in {"boot", "boot_tcp", "boot_uarts", "idle", "take", "set_baud"}
      /\ UNCHANGED stop_got /\ handle' # "freed"
      /\ pc'[Con] \in {"boot_tcp", "boot_uarts", "idle", "take", "set_baud", "stop_server",
                       "done"}
  BY DEF Boot, BootUdp, BootTcp, BootUarts, Console, EnableUart, SetBaudBegin, SetBaudTake,
         SetBaudTakeTimeout, SetBaud, Deinit
<1>2. ~stop_got
  BY <1>1 DEF Stopping, Clearing
<1>3. QED
  BY <1>1, <1>2 DEF Stopping, TasksEnd, ClientsEnd, Clearing

LEMMA CleanupKeepsStopping ==
  ASSUME Valued, Flagged, Labelled, Within, Listing, Handled, Stopping, Cleanup,
         handle # "freed"
  PROVE  Stopping'
<1> USE WhoIsWho DEF Valued, Goto, bridgeVars, clientVars
<1>1. CASE StopServer \/ DeleteServer
  <2>1. /\ pc[Con] \in {"stop_server", "delete_server"} /\ UNCHANGED <<handle, stop_got>>
        /\ pc'[Con] \in {"delete_server", "stop_clients", "dead", "undefined"}
    BY <1>1 DEF StopServer, DeleteServer, DeleteCleared
  <2>2. ~stop_got
    BY <2>1 DEF Stopping, Clearing
  <2>3. pc'[Con] = "stop_clients" => pc'[Srv] \in Gone
    BY <1>1 DEF StopServer, DeleteServer, DeleteCleared, Handled, Gone
  <2>4. QED
    BY <2>1, <2>2, <2>3 DEF Stopping, TasksEnd, ClientsEnd, Clearing
<1>2. CASE StopTakeClients \/ StopTakeClientsTimeout
  <2>1. /\ pc[Con] = "stop_clients" /\ UNCHANGED handle /\ pc'[Srv] = pc[Srv]
        /\ pc'[Con] \in {"stop_client", "stop_sockets"}
        /\ stop_got' => pc'[Con] = "stop_client" \/ stop_got
        /\ pc'[Con] = "stop_client" => at'[Con] = 1
    BY <1>2 DEF StopTakeClients, StopTakeClientsTimeout
  <2>2. ~stop_got /\ pc[Srv] \in Gone
    BY <2>1 DEF Stopping, Clearing, TasksEnd
  <2>3. \A i \in DOMAIN tcp_clients' : pc'[Con] = "stop_client" => ~(i < at'[Con])
    <3>1. UNCHANGED tcp_clients
      BY <1>2 DEF StopTakeClients, StopTakeClientsTimeout
    <3>2. \A i \in DOMAIN tcp_clients : ~(i < 1)
      BY ListFacts
    <3>3. QED
      BY <2>1, <3>1, <3>2
  <2>4. QED
    BY <2>1, <2>2, <2>3 DEF Stopping, TasksEnd, ClientsEnd, Clearing, Closing
<1>3. CASE StopClient
  <2>1. /\ pc[Con] = "stop_client" /\ pc'[Con] = "test_client"
        /\ UNCHANGED <<handle, stop_got, tcp_clients, at>>
        /\ \A t \in Tasks \ {Con} : pc'[t] = pc[t]
    BY <1>3 DEF StopClient, localVars
  <2>2. QED
    BY <2>1, ListFacts DEF Stopping, TasksEnd, ClientsEnd, Clearing, Closing
<1>4. CASE TestClient \/ DeleteClient
  <2>1. /\ pc[Con] \in {"test_client", "delete_client"} /\ pc[Con] \in Clearing
        /\ UNCHANGED <<handle, stop_got, tcp_clients>>
    BY <1>4 DEF TestClient, DeleteClient, Clearing
  <2>2. /\ at[Con] \in 1 .. Len(tcp_clients) /\ Visited \in Conns
        /\ DOMAIN tcp_clients = 1 .. Len(tcp_clients)
    BY <2>1, VisitedFacts, ListFacts
  <2>3. /\ \A t \in Tasks \ {Con} : pc[t] \in Gone => pc'[t] \in Gone
        /\ \/ pc'[Con] \in {"dead", "undefined", "delete_client"} /\ at'[Con] = at[Con]
           \/ pc'[Con] = "stop_client" /\ at'[Con] = at[Con] + 1 /\ pc'[Visited] \in Gone
    BY <1>4, <2>2, TestClientMoves, DeleteClientMoves DEF Gone, Handled
  <2>4. TasksEnd'
    BY <2>1, <2>3 DEF Stopping, TasksEnd, Clearing
  <2>5. ASSUME NEW i \in DOMAIN tcp_clients, i < at'[Con]
        PROVE  pc'[tcp_clients[i]] \in Gone
    <3>1. CASE i < at[Con]
      BY <2>1, <2>3, <3>1, ListFacts DEF Stopping, ClientsEnd
    <3>2. CASE i = at[Con] /\ at'[Con] = at[Con] + 1
      BY <2>3, <3>2 DEF Visited
    <3>3. i < at[Con] \/ (i = at[Con] /\ at'[Con] = at[Con] + 1)
      <4> DEFINE k == at'[Con]
                 m == at[Con]
      <4>0. m \in Int /\ i \in Int /\ i < k
        BY <2>2, <2>5
      <4>1. k = m \/ k = m + 1
        BY <2>3
      <4> HIDE DEF k, m
      <4>2. i < m \/ (i = m /\ k = m + 1)
        BY SMTT(30), <4>0, <4>1
      <4>3. QED
        BY <4>2 DEF k, m
    <3>4. QED
      BY <3>1, <3>2, <3>3
  <2>6. QED
    BY <2>1, <2>3, <2>4, <2>5 DEF Stopping, ClientsEnd, Clearing, Closing
<1>5. CASE StopClientsDone
  <2>1. /\ pc[Con] = "stop_client" /\ pc'[Con] = "stop_sockets"
        /\ UNCHANGED <<handle, stop_got>> /\ at[Con] = Len(tcp_clients) + 1
        /\ \A t \in Tasks \ {Con} : pc'[t] = pc[t]
    BY <1>5 DEF StopClientsDone
  <2>2. \A c \in Members : pc[c] \in Gone
    BY <2>1, ListFacts DEF Stopping, ClientsEnd, Clearing, Members
  <2>3. \A c \in Conns : pc'[c] \in Gone
    BY <2>1, <2>2 DEF Handled
  <2>4. QED
    BY <2>1, <2>3 DEF Stopping, TasksEnd, ClientsEnd, Clearing, Closing
<1>6. CASE StopSockets \/ StopUarts \/ FreeHandle
  <2>1. /\ pc[Con] \in {"stop_sockets", "stop_uarts", "free"} /\ pc'[Con] \in Closing
        /\ pc'[Con] \notin Clearing /\ pc[Con] \in Closing
        /\ UNCHANGED stop_got
        /\ \A t \in Tasks \ {Con} : pc[t] \in Gone => pc'[t] \in Gone
        /\ handle' = "freed" <=> pc'[Con] = "done"
    BY <1>6 DEF StopSockets, StopUarts, FreeHandle, Closing, Clearing, Gone
  <2>2. /\ pc[Srv] \in Gone
        /\ pc'[Con] \in {"stop_uarts", "free", "done"} /\ pc'[Udp] \in Gone
        /\ pc'[Con] \in {"free", "done"} => \A u \in Uarts : pc'[u] \in Gone
    BY <1>6, <2>1 DEF StopSockets, StopUarts, FreeHandle, Gone, Stopping, TasksEnd
  <2>3. TasksEnd'
    BY <2>1, <2>2 DEF TasksEnd, Clearing
  <2>4. ClientsEnd'
    BY <2>1 DEF Stopping, ClientsEnd
  <2>5. QED
    BY <2>1, <2>2, <2>3, <2>4 DEF Stopping
<1>7. QED
  BY <1>1, <1>2, <1>3, <1>4, <1>5, <1>6 DEF Cleanup

LEMMA StoppingKept ==
  ASSUME Valued, Flagged, Labelled, Listing, Within, Handled, Stopping, [Next]_vars
  PROVE  Stopping'
<1>1. CASE UNCHANGED vars
  BY <1>1 DEF vars, bridgeVars, clientVars, localVars, Stopping, TasksEnd, ClientsEnd
<1>2. CASE Next
  BY <1>2, OthersKeepStopping, ConsoleKeepsStopping, CleanupKeepsStopping
     DEF Next, Defined, Others
<1>3. QED
  BY <1>1, <1>2

-----------------------------------------------------------------------------
(* The count of the clients.                                                *)

LEMMA ActiveFacts ==
  ASSUME Flagged
  PROVE  IsFiniteSet(Active) /\ Cardinality(Active) \in Nat
         /\ Cardinality(Active) <= Cardinality(Conns) /\ Cardinality(Conns) \in Nat
<1>1. Active \subseteq Conns
  BY DEF Active
<1>2. QED
  BY <1>1, BridgeAssumption, FS_Subset, FS_CardinalityType

\* Only the server makes a client an active one, and it counts them first.
LEMMA CountMoves ==
  ASSUME Valued, Flagged, [Next]_vars
  PROVE  /\ ServerAdmit \/ \A c \in Conns : connected'[c] => connected[c]
         /\ pc'[Srv] = "admit" =>
              \/ pc[Srv] = "admit" /\ at'[Srv] = at[Srv]
              \/ at'[Srv] = Cardinality(Active)
<1> DEFINE Fewer == \A c \in Conns : connected'[c] => connected[c]
           Still == pc'[Srv] = pc[Srv] /\ at'[Srv] = at[Srv]
<1> USE WhoIsWho DEF Valued, Flagged, Goto, clientVars, localVars
<1>1. ASSUME NEW t \in NetTasks, NetToUarts(t) PROVE Fewer /\ Still
  BY <1>1 DEF NetToUarts, NetReceive, UartTake, UartTakeTimeout, UartSend, UartGive
<1>2. ASSUME NEW c \in Conns, ClientTask(c) \/ PeerCloses(c) PROVE Fewer /\ Still
  BY <1>2 DEF ClientTask, ClientLoop, ClientReceiveNothing, ClientEnd, PeerCloses
<1>3. CASE ServerTask
  <2>1. CASE ServerCount
    BY <2>1 DEF ServerCount
  <2>2. CASE ServerAdmit
    BY <2>2, AdmitMoves
  <2>3. CASE ServerLoop \/ ServerAccept \/ ServerTake \/ ServerTakeTimeout \/ ServerGive
    BY <2>3 DEF ServerLoop, ServerAccept, ServerTake, ServerTakeTimeout, ServerGive
  <2>4. QED
    BY <1>3, <2>1, <2>2, <2>3 DEF ServerTask
<1>4. ASSUME NEW u \in Uarts, UartTask(u) \/ UartSent(u) PROVE Fewer /\ Still
  BY <1>4 DEF UartSent, UartTask, UartReceive, BroadcastTake, BroadcastTakeTimeout,
       BroadcastSend,
       BroadcastGive
<1>5. CASE Boot \/ Console \/ Deinit
  BY <1>5 DEF Boot, Console, BootUdp, BootTcp, BootUarts, EnableUart, SetBaudBegin,
       SetBaudTake, SetBaudTakeTimeout, SetBaud, Deinit
<1>6. CASE Cleanup
  <2>1. CASE TestClient
    BY <2>1, TestClientMoves DEF TestClient
  <2>2. CASE DeleteClient
    BY <2>2 DEF DeleteClient, DeleteCleared
  <2>3. CASE StopServer \/ DeleteServer \/ StopTakeClients \/ StopTakeClientsTimeout
             \/ StopClient
    BY <2>3 DEF StopServer, DeleteServer, DeleteCleared, StopTakeClients,
         StopTakeClientsTimeout,
         StopClient
  <2>4. CASE StopClientsDone \/ StopSockets \/ StopUarts \/ FreeHandle
    BY <2>4 DEF StopClientsDone, StopSockets, StopUarts, FreeHandle
  <2>5. QED
    BY <1>6, <2>1, <2>2, <2>3, <2>4 DEF Cleanup
<1>7. CASE UNCHANGED vars
  BY <1>7 DEF vars
<1>8. QED
  BY <1>1, <1>2, <1>3, <1>4, <1>5, <1>6, <1>7 DEF Next

LEMMA CountedKept ==
  ASSUME Valued, Flagged, Flagged', Labelled, Counted, [Next]_vars
  PROVE  Counted'
<1> DEFINE C == Cardinality(Active)
           D == Cardinality(Active')
           n == at'[Srv]
<1>1. C \in Nat /\ D \in Nat /\ IsFiniteSet(Active) /\ MaxClients \in Nat
  <2>1. Active' \subseteq Conns
    BY DEF Active
  <2>2. D \in Nat
    BY <2>1, BridgeAssumption, FS_Subset, FS_CardinalityType
  <2>3. QED
    BY <2>2, ActiveFacts, BridgeAssumption
<1>2. CASE ServerAdmit
  <2>1. PICK c \in Conns :
          /\ pc[Srv] = "admit" /\ pc'[Srv] = "give"
          /\ \/ at[Srv] < MaxClients /\ connected' = [connected EXCEPT ![c] = TRUE]
             \/ UNCHANGED connected
    BY <1>2, AdmitMoves
  <2>2. CASE UNCHANGED connected
    BY <2>1, <2>2 DEF Counted, Active
  <2>3. CASE at[Srv] < MaxClients /\ connected' = [connected EXCEPT ![c] = TRUE]
    <3>1. Active' = Active \cup {c}
      BY <2>3 DEF Active, Flagged
    <3>2. D <= C + 1
      BY <1>1, <3>1, FS_AddElement
    <3>3. C <= at[Srv] /\ at[Srv] \in Int
      BY <2>1, WhoIsWho DEF Counted, Valued
    <3> HIDE DEF C, D
    <3>4. D <= MaxClients
      BY <1>1, <2>3, <3>2, <3>3
    <3>5. QED
      BY <2>1, <3>4 DEF Counted, D
  <2>4. QED
    BY <2>1, <2>2, <2>3
<1>3. CASE \A c \in Conns : connected'[c] => connected[c]
  <2>1. Active' \subseteq Active
    BY <1>3 DEF Active
  <2>2. D <= C
    BY <1>1, <2>1, FS_Subset
  <2>3. C <= MaxClients /\ at[Srv] \in Int /\ (pc[Srv] = "admit" => C <= at[Srv])
    BY WhoIsWho DEF Counted, Valued
  <2>4. pc'[Srv] = "admit" => (pc[Srv] = "admit" /\ n = at[Srv]) \/ n = C
    BY CountMoves
  <2> HIDE DEF C, D, n
  <2>5. D <= MaxClients /\ (pc'[Srv] = "admit" => D <= n)
    BY <1>1, <2>2, <2>3, <2>4
  <2>6. QED
    BY <2>5 DEF Counted, D, n
<1>4. QED
  BY <1>2, <1>3, CountMoves

-----------------------------------------------------------------------------
(* The order of what is forwarded.                                          *)

LEMMA BeforeAppend ==
  ASSUME NEW S, NEW q \in Seq(S), NEW p \in S, NEW r, r = Append(q, p)
  PROVE  /\ \A a, b : Before(r, a, b) => Before(q, a, b) \/ b = p
         /\ \A a : In(a, r) => In(a, q) \/ a = p
<1> DEFINE m == Len(q) + 1
<1>1. /\ Len(q) \in Nat /\ DOMAIN q = 1 .. Len(q) /\ DOMAIN r = 1 .. m
      /\ \A i \in 1 .. Len(q) : r[i] = q[i]
      /\ r[m] = p
  BY AppendFacts
<1>2. \A i \in DOMAIN r : i = m \/ (i \in DOMAIN q /\ r[i] = q[i])
  BY <1>1
<1>3. \A i, j \in DOMAIN r : i < j => i # m
  BY <1>1
<1> HIDE DEF m
<1>4. ASSUME NEW a, NEW b, Before(r, a, b) PROVE Before(q, a, b) \/ b = p
  BY <1>1, <1>2, <1>3, <1>4 DEF Before
<1>5. ASSUME NEW a, In(a, r) PROVE In(a, q) \/ a = p
  BY <1>1, <1>2, <1>5 DEF In
<1>6. QED
  BY <1>4, <1>5

LEMMA OnceAppend ==
  ASSUME NEW S, NEW q \in Seq(S), NEW p \in S, NEW r, r = Append(q, p),
         Once(q), ~In(p, q)
  PROVE  Once(r) /\ LastIn(p, r)
<1> DEFINE m == Len(q) + 1
<1>1. /\ Len(q) \in Nat /\ DOMAIN q = 1 .. Len(q) /\ DOMAIN r = 1 .. m
      /\ Len(r) = m
      /\ \A i \in 1 .. Len(q) : r[i] = q[i]
      /\ r[m] = p
  BY AppendFacts
<1>2. \A i \in DOMAIN r : i = m \/ (i \in DOMAIN q /\ r[i] = q[i])
  BY <1>1
<1> HIDE DEF m
<1>3. \A i \in DOMAIN q : q[i] # p
  BY DEF In
<1>4. QED
  BY <1>1, <1>2, <1>3 DEF Once, LastIn

\* What is the last that was received did not come before another.
LEMMA NothingAfter ==
  ASSUME NEW S, NEW q \in Seq(S), NEW p, NEW a, LastIn(p, q)
  PROVE  ~Before(q, p, a)
<1>1. DOMAIN q = 1 .. Len(q) /\ Len(q) \in Nat
  OBVIOUS
<1>2. \A n \in Nat : \A i, j \in 1 .. n : i < j => i # n
  OBVIOUS
<1>3. QED
  BY <1>1, <1>2 DEF Before, LastIn

LEMMA OnceIsOrdered ==
  ASSUME NEW S, NEW q \in Seq(S), Once(q), NEW a, NEW b
  PROVE  ~(Before(q, a, b) /\ Before(q, b, a))
<1>1. DOMAIN q = 1 .. Len(q) /\ Len(q) \in Nat
  OBVIOUS
<1>2. \A i, j \in 1 .. Len(q) : i < j => ~(j < i)
  BY <1>1
<1>3. QED
  BY <1>1, <1>2 DEF Before, Once

\* A receiver r gets p, which it did not have, and no receiver has got anything after it.
Ready(S, R, w, n, r, p) ==
  /\ w \in [R -> Seq(S)] /\ r \in R /\ p \in S /\ p \in 1 .. n
  /\ Received(R, w, n) /\ ~In(p, w[r]) /\ \A s \in R : LastIn(p, w[s])

SentOn(R, w, n, r, p, v) ==
  /\ Received(R, v, n)
  /\ \A s \in R : LastIn(p, v[s]) /\ (In(p, v[s]) => In(p, w[s]) \/ s = r)
  /\ \A s \in R : \A a : In(a, v[s]) => In(a, w[s]) \/ a = p

LEMMA Forwarded ==
  ASSUME NEW S, NEW R, NEW w, NEW n, NEW r, NEW p, Ready(S, R, w, n, r, p),
         NEW v, v = [w EXCEPT ![r] = Append(w[r], p)]
  PROVE  SentOn(R, w, n, r, p, v)
<1> USE DEF Ready
<1>1. /\ v[r] = Append(w[r], p) /\ w[r] \in Seq(S)
      /\ \A s \in R : s # r => v[s] = w[s]
      /\ \A s \in R : w[s] \in Seq(S)
  OBVIOUS
<1>2. Once(v[r]) /\ LastIn(p, v[r])
  BY <1>1, OnceAppend DEF Received
<1>3. /\ \A a : In(a, v[r]) => In(a, w[r]) \/ a = p
      /\ \A a, b : Before(v[r], a, b) => Before(w[r], a, b) \/ b = p
  BY <1>1, BeforeAppend
<1>4. \A s \in R : \A i \in DOMAIN v[s] : v[s][i] \in 1 .. n
  <2>1. \A i \in DOMAIN v[r] : v[r][i] \in 1 .. n
    <3>1. \A a : In(a, w[r]) => a \in 1 .. n
      BY DEF Received, In
    <3>2. \A i \in DOMAIN v[r] : In(v[r][i], v[r])
      BY DEF In
    <3>3. QED
      BY <1>3, <3>1, <3>2
  <2>2. QED
    BY <1>1, <2>1 DEF Received
<1>5. ASSUME NEW s \in R, s # r, NEW a \in 1 .. MaxNet + MaxUart,
             NEW b \in 1 .. MaxNet + MaxUart, Before(v[r], a, b), Before(w[s], b, a)
      PROVE  FALSE
  <2>1. ~Before(w[r], a, b)
    BY <1>5 DEF Received, SameOrder
  <2>2. b = p
    BY <1>3, <1>5, <2>1
  <2>3. ~Before(w[s], p, a)
    BY <1>1, NothingAfter
  <2>4. QED
    BY <1>5, <2>2, <2>3
<1>6. v[r] \in Seq(S)
  BY <1>1, AppendFacts
<1>7. ASSUME NEW s \in R, NEW t \in R PROVE SameOrder(v[s], v[t])
  <2>1. CASE s = r /\ t = r
    BY <1>2, <1>6, <2>1, OnceIsOrdered DEF SameOrder
  <2>2. CASE s = r /\ t # r
    BY <1>1, <1>5, <2>2 DEF SameOrder
  <2>3. CASE s # r /\ t = r
    BY <1>1, <1>5, <2>3 DEF SameOrder
  <2>4. CASE s # r /\ t # r
    BY <1>1, <2>4 DEF Received
  <2>5. QED
    BY <2>1, <2>2, <2>3, <2>4
<1>8. QED
  BY <1>1, <1>2, <1>3, <1>4, <1>7 DEF Received, SentOn

LEMMA ReceivedMore ==
  ASSUME NEW R, NEW w, NEW n \in Nat, Received(R, w, n)
  PROVE  Received(R, w, n + 1)
<1>1. 1 .. n \subseteq 1 .. n + 1
  OBVIOUS
<1>2. QED
  BY <1>1 DEF Received

LEMMA NextNumber ==
  \A i, j \in Int : (j < i \/ j = i => j < i + 1) /\ ~(i < i)
OBVIOUS

\* No other step touches a packet on its way to the UARTs.
LEMMA UartsUntouched ==
  ASSUME Valued, Flagged, Within, [Next]_vars, ~\E t \in NetTasks : NetToUarts(t)
  PROVE  /\ UNCHANGED <<net_in, written>>
         /\ \A t \in NetTasks : pc'[t] \in {"take", "send"} =>
              pc'[t] = pc[t] /\ packet'[t] = packet[t] /\ at'[t] = at[t]
<1> DEFINE Kept == /\ UNCHANGED <<net_in, written>>
                   /\ \A t \in NetTasks : pc'[t] \in {"take", "send"} =>
                        pc'[t] = pc[t] /\ packet'[t] = packet[t] /\ at'[t] = at[t]
<1> USE WhoIsWho DEF Valued, Goto, localVars, logVars
<1>1. ASSUME NEW c \in Conns, ClientTask(c) \/ PeerCloses(c) PROVE Kept
  BY <1>1 DEF ClientTask, ClientLoop, ClientReceiveNothing, ClientEnd, PeerCloses
<1>2. CASE ServerTask
  BY <1>2 DEF ServerTask, ServerLoop, ServerAccept, ServerTake, ServerTakeTimeout,
       ServerCount, ServerAdmit, ServerGive
<1>3. ASSUME NEW u \in Uarts, UartTask(u) \/ UartSent(u) PROVE Kept
  BY <1>3 DEF UartSent, UartTask, UartReceive, BroadcastTake, BroadcastTakeTimeout,
       BroadcastSend,
       BroadcastGive
<1>4. CASE Boot \/ Console \/ Deinit
  BY <1>4 DEF Boot, Console, BootUdp, BootTcp, BootUarts, EnableUart, SetBaudBegin,
       SetBaudTake, SetBaudTakeTimeout, SetBaud, Deinit
<1>5. CASE Cleanup
  <2>1. CASE TestClient
    BY <2>1, TestClientMoves DEF TestClient
  <2>2. CASE DeleteClient
    BY <2>2, DeleteClientMoves DEF DeleteClient, DeleteCleared
  <2>3. CASE StopServer \/ DeleteServer \/ StopTakeClients \/ StopTakeClientsTimeout
             \/ StopClient
    BY <2>3 DEF StopServer, DeleteServer, DeleteCleared, StopTakeClients,
         StopTakeClientsTimeout,
         StopClient
  <2>4. CASE StopClientsDone \/ StopSockets \/ StopUarts \/ FreeHandle
    BY <2>4 DEF StopClientsDone, StopSockets, StopUarts, FreeHandle
  <2>5. QED
    BY <1>5, <2>1, <2>2, <2>3, <2>4 DEF Cleanup
<1>6. CASE UNCHANGED vars
  BY <1>6 DEF vars
<1>7. QED
  BY <1>1, <1>2, <1>3, <1>4, <1>5, <1>6 DEF Next

LEMMA NetKeepsUartOrder ==
  ASSUME Valued, UartLocked, Within, UartOrder, NEW t \in NetTasks, NetToUarts(t)
  PROVE  UartOrder'
<1> USE WhoIsWho DEF Valued, Goto, localVars, logVars
<1>1. /\ Carried(NetTasks, net_in) /\ Received(Uarts, written, net_in) /\ UartsInTurn
      /\ net_in \in Nat
  BY DEF UartOrder
<1>2. CASE NetReceive(t)
  <2>1. /\ net_in' = net_in + 1 /\ packet'[t] = net_in + 1 /\ pc'[t] = "take"
        /\ written' = written
        /\ \A s \in NetTasks \ {t} : pc'[s] = pc[s] /\ packet'[s] = packet[s]
        /\ \A s \in Tasks : at'[s] = at[s]
    BY <1>2 DEF NetReceive
  <2>2. 1 .. net_in \subseteq 1 .. net_in + 1 /\ net_in + 1 \in 1 .. net_in + 1
        /\ net_in + 1 \notin 1 .. net_in
    BY SMTT(30), <1>1
  <2>3. Carried(NetTasks, net_in)'
    <3> DEFINE k == net_in + 1
    <3>1. /\ k \notin 1 .. net_in /\ k \in 1 .. k /\ 1 .. net_in \subseteq 1 .. k
          /\ net_in' = k /\ packet'[t] = k
      BY <2>1, <2>2
    <3>2. \A s \in NetTasks \ {t} : Carrying(s)' =>
            Carrying(s) /\ packet[s] \in 1 .. net_in /\ packet'[s] = packet[s]
      BY <1>1, <2>1 DEF Carried, Carrying
    <3> HIDE DEF k
    <3>3. \A s \in NetTasks : Carrying(s)' => packet'[s] \in 1 .. k
      BY <3>1, <3>2
    <3>4. ASSUME NEW r \in NetTasks, NEW s \in NetTasks, Carrying(r)', Carrying(s)',
                 packet'[r] = packet'[s]
          PROVE  r = s
      <4>1. CASE r # t /\ s # t
        BY <1>1, <3>2, <3>4, <4>1 DEF Carried
      <4>2. CASE r = t \/ s = t
        BY <3>1, <3>2, <3>4, <4>2
      <4>3. QED
        BY <4>1, <4>2
    <3>5. QED
      BY <3>1, <3>3, <3>4 DEF Carried
  <2>4. Received(Uarts, written, net_in)'
    BY <1>1, <2>1, ReceivedMore
  <2>5. \A u \in Uarts : ~In(net_in + 1, written[u])
    BY <1>1, <2>2 DEF Received, In
  <2>6. UartsInTurn'
    <3> DEFINE k == net_in + 1
    <3>1. /\ \A s \in NetTasks \ {t} : pc'[s] = pc[s] /\ packet'[s] = packet[s] /\ at'[s] = at[s]
          /\ packet'[t] = k /\ written' = written
      BY <2>1
    <3> HIDE DEF k
    <3>2. \A u \in Uarts : LastIn(k, written[u]) /\ ~In(k, written[u])
      BY <2>5 DEF LastIn, In, k
    <3>3. QED
      BY <1>1, <3>1, <3>2 DEF UartsInTurn, Carrying
  <2>7. QED
    BY <2>3, <2>4, <2>6 DEF UartOrder
<1>3. CASE UartTake(t)
  <2>1. /\ UNCHANGED <<net_in, packet, written>> /\ pc[t] = "take" /\ pc'[t] = "send"
        /\ \A s \in NetTasks \ {t} : pc'[s] = pc[s] /\ at'[s] = at[s]
    BY <1>3 DEF UartTake
  <2>2. \A u \in Uarts : ~In(packet[t], written[u])
    BY <1>1, <2>1 DEF UartsInTurn, Carrying
  <2>3. Carried(NetTasks, net_in)' /\ Received(Uarts, written, net_in)'
    BY <1>1, <2>1 DEF Carried, Carrying
  <2>4. UartsInTurn'
    BY <1>1, <2>1, <2>2 DEF UartsInTurn, Carrying
  <2>5. QED
    BY <2>3, <2>4 DEF UartOrder
<1>4. CASE UartTakeTimeout(t) \/ UartGive(t)
  <2>1. /\ UNCHANGED <<net_in, packet, at, written>> /\ pc'[t] \notin {"take", "send"}
        /\ \A s \in NetTasks \ {t} : pc'[s] = pc[s]
    BY <1>4 DEF UartTakeTimeout, UartGive, AfterPacket
  <2>2. Carried(NetTasks, net_in)' /\ Received(Uarts, written, net_in)'
    BY <1>1, <2>1 DEF Carried, Carrying
  <2>3. UartsInTurn'
    BY <1>1, <2>1 DEF UartsInTurn, Carrying
  <2>4. QED
    BY <2>2, <2>3 DEF UartOrder
<1>5. CASE UartSend(t)
  <2> DEFINE p == packet[t]
             r == at[t]
  <2>1. /\ pc[t] = "send" /\ r \in Uarts /\ UNCHANGED <<net_in, packet, pc>>
        /\ written' = [written EXCEPT ![r] = Append(written[r], p)] \/ UNCHANGED written
        /\ at'[t] = r + 1 /\ \A s \in NetTasks \ {t} : at'[s] = at[s]
    BY <1>5 DEF UartSend
  <2>2. p \in 1 .. net_in /\ p \in 1 .. MaxNet
    <3>1. p \in 1 .. net_in
      BY <1>1, <2>1 DEF Carried, Carrying
    <3>2. 1 .. net_in \subseteq 1 .. MaxNet
      BY BridgeAssumption
    <3>3. QED
      BY <3>1, <3>2
  <2>3. \A u \in Uarts : u \in Int /\ (u < r \/ u = r => u < r + 1) /\ ~(r < r)
    <3>1. r \in Int /\ \A u \in Uarts : u \in Int
      BY <2>1 DEF Uarts
    <3>2. QED
      BY <3>1, <2>1, NextNumber
  <2>4. ~In(p, written[r]) /\ \A u \in Uarts : LastIn(p, written[u])
    BY <1>1, <2>1, <2>3 DEF UartsInTurn, Carrying
  <2>5. \A u \in Uarts : In(p, written[u]) => u < r
    BY <1>1, <2>1 DEF UartsInTurn, Carrying
  <2>6. ASSUME NEW s \in NetTasks, s # t, Carrying(s)
        PROVE  pc[s] = "take" /\ packet[s] # p /\ \A u \in Uarts : ~In(packet[s], written[u])
    <3>1. pc[s] # "send"
      BY <2>1, <2>6 DEF UartLocked
    <3>2. packet[s] # p
      BY <1>1, <2>1, <2>6 DEF Carried, Carrying
    <3>3. QED
      BY <1>1, <2>6, <3>1, <3>2 DEF UartsInTurn, Carrying
  <2>7. CASE UNCHANGED written
    <3>1. UartsInTurn'
      <4>1. ASSUME NEW s \in NetTasks, Carrying(s), NEW u \in Uarts
            PROVE  /\ LastIn(packet[s], written[u])
                   /\ In(packet[s], written[u]) => pc[s] = "send" /\ u < at'[s]
        <5>1. LastIn(packet[s], written[u])
          BY <1>1, <4>1 DEF UartsInTurn
        <5>2. CASE s = t
          <6> HIDE DEF r, p
          <6>1. In(p, written[u]) => u < r + 1
            BY <2>3, <2>5
          <6>2. QED
            BY <2>1, <5>1, <5>2, <6>1 DEF p
        <5>3. CASE s # t
          BY <2>6, <4>1, <5>1, <5>3
        <5>4. QED
          BY <5>2, <5>3
      <4>2. QED
        BY <2>1, <2>7, <4>1 DEF UartsInTurn, Carrying
    <3>2. Carried(NetTasks, net_in)' /\ Received(Uarts, written, net_in)'
      BY <1>1, <2>1, <2>7 DEF Carried, Carrying
    <3>3. QED
      BY <3>1, <3>2 DEF UartOrder
  <2>8. CASE written' = [written EXCEPT ![r] = Append(written[r], p)]
    <3>1. written \in [Uarts -> Seq(1 .. MaxNet)]
      OBVIOUS
    <3> HIDE DEF p, r
    <3>2. /\ Received(Uarts, written', net_in)
          /\ \A u \in Uarts : LastIn(p, written'[u]) /\ (In(p, written'[u]) =>
                                                         In(p, written[u]) \/ u = r)
          /\ \A u \in Uarts : \A a : In(a, written'[u]) => In(a, written[u]) \/ a = p
      <4>1. Ready(1 .. MaxNet, Uarts, written, net_in, r, p)
        BY <1>1, <2>1, <2>2, <2>4, <3>1 DEF Ready
      <4>2. \A v : v = [written EXCEPT ![r] = Append(written[r], p)]
                     => SentOn(Uarts, written, net_in, r, p, v)
        BY <4>1, Forwarded
      <4>3. QED
        BY <2>8, <4>2 DEF SentOn
    <3>3. \A u \in Uarts : LastIn(p, written'[u]) /\ (In(p, written'[u]) => u < r + 1)
      BY <2>3, <2>5, <3>2
    <3>4. ASSUME NEW s \in NetTasks, s # t, Carrying(s), NEW u \in Uarts
          PROVE  ~In(packet[s], written'[u])
      BY <2>6, <3>2, <3>4
    <3>5. ASSUME NEW s \in NetTasks, Carrying(s)', NEW u \in Uarts
          PROVE  /\ LastIn(packet'[s], written'[u])
                 /\ In(packet'[s], written'[u]) => pc'[s] = "send" /\ u < at'[s]
      <4>1. Carrying(s)
        BY <2>1, <3>5 DEF Carrying
      <4>2. CASE s = t
        BY <2>1, <3>3, <4>2 DEF p
      <4>3. CASE s # t
        BY <2>1, <3>4, <4>1, <4>3 DEF LastIn, In
      <4>4. QED
        BY <4>2, <4>3
    <3>6. UartsInTurn'
      BY <3>5 DEF UartsInTurn
    <3>7. Carried(NetTasks, net_in)' /\ Received(Uarts, written, net_in)'
      BY <1>1, <2>1, <3>2 DEF Carried, Carrying
    <3>8. QED
      BY <3>6, <3>7 DEF UartOrder
  <2>9. QED
    BY <2>1, <2>7, <2>8
<1>6. QED
  BY <1>2, <1>3, <1>4, <1>5 DEF NetToUarts

LEMMA UartOrderKept ==
  ASSUME Valued, Flagged, UartLocked, Within, UartOrder, [Next]_vars
  PROVE  UartOrder'
<1>1. CASE ~\E t \in NetTasks : NetToUarts(t)
  <2>1. /\ UNCHANGED <<net_in, written>>
        /\ \A t \in NetTasks : pc'[t] \in {"take", "send"} =>
             pc'[t] = pc[t] /\ packet'[t] = packet[t] /\ at'[t] = at[t]
    BY <1>1, UartsUntouched
  <2>2. Carried(NetTasks, net_in)' /\ Received(Uarts, written, net_in)'
    BY <2>1 DEF UartOrder, Carried, Carrying
  <2>3. UartsInTurn'
    BY <2>1 DEF UartOrder, UartsInTurn, Carrying
  <2>4. QED
    BY <2>2, <2>3 DEF UartOrder
<1>2. QED
  BY <1>1, NetKeepsUartOrder

\* No other step touches a chunk on its way to the clients, nor the list it goes through.
LEMMA ClientsUntouched ==
  ASSUME Valued, Flagged, TcpLocked, Within, [Next]_vars, ~\E u \in Uarts : UartTask(u)
  PROVE  /\ UNCHANGED <<uart_in, sent>>
         /\ \A u \in Uarts : pc'[u] \in {"take", "send"} =>
              pc'[u] = pc[u] /\ packet'[u] = packet[u] /\ at'[u] = at[u]
         /\ \A u \in Uarts : pc'[u] = "send" => UNCHANGED tcp_clients
<1> DEFINE Kept == /\ UNCHANGED <<uart_in, sent>>
                   /\ \A u \in Uarts : pc'[u] \in {"take", "send"} =>
                        pc'[u] = pc[u] /\ packet'[u] = packet[u] /\ at'[u] = at[u]
                   /\ \A u \in Uarts : pc'[u] = "send" => UNCHANGED tcp_clients
<1> USE WhoIsWho DEF Valued, Goto, clientVars, localVars, logVars
<1>1. ASSUME NEW t \in NetTasks, NetToUarts(t) PROVE Kept
  BY <1>1 DEF NetToUarts, NetReceive, UartTake, UartTakeTimeout, UartSend, UartGive
<1>2. ASSUME NEW c \in Conns, ClientTask(c) \/ PeerCloses(c) PROVE Kept
  BY <1>2 DEF ClientTask, ClientLoop, ClientReceiveNothing, ClientEnd, PeerCloses
<1>3. CASE ServerTask
  <2>1. CASE ServerAdmit
    <3>1. \A u \in Uarts : pc[u] # "send"
      BY <2>1 DEF ServerAdmit, TcpLocked
    <3>2. \A u \in Uarts : pc'[u] = pc[u]
      BY <2>1, AdmitMoves
    <3>3. QED
      BY <2>1, <3>1, <3>2 DEF ServerAdmit
  <2>2. CASE ServerLoop \/ ServerAccept \/ ServerTake \/ ServerTakeTimeout \/ ServerCount
             \/ ServerGive
    BY <2>2 DEF ServerLoop, ServerAccept, ServerTake, ServerTakeTimeout, ServerCount,
         ServerGive
  <2>3. QED
    BY <1>3, <2>1, <2>2 DEF ServerTask
<1>4. CASE Boot \/ Console \/ Deinit
  BY <1>4 DEF Boot, Console, BootUdp, BootTcp, BootUarts, EnableUart, SetBaudBegin,
       SetBaudTake, SetBaudTakeTimeout, SetBaud, Deinit
<1>5. CASE Cleanup
  <2>1. CASE TestClient
    BY <2>1, TestClientMoves DEF TestClient
  <2>2. CASE DeleteClient
    <3>1. /\ pc[Con] \in {"test_client", "delete_client"}
          /\ UNCHANGED <<packet, tcp_clients, uart_in, sent>>
      BY <2>2 DEF DeleteClient, DeleteCleared
    <3>2. \A u \in Uarts : u # Visited /\ u # Con
      BY <3>1, VisitedFacts
    <3>3. QED
      BY <2>2, <3>1, <3>2, DeleteClientMoves
  <2>3. CASE StopServer \/ DeleteServer \/ StopTakeClients \/ StopTakeClientsTimeout
             \/ StopClient
    BY <2>3 DEF StopServer, DeleteServer, DeleteCleared, StopTakeClients,
         StopTakeClientsTimeout,
         StopClient
  <2>4. CASE StopClientsDone
    <3>1. \A u \in Uarts : pc[u] # "send" /\ pc'[u] = pc[u]
      BY <2>4 DEF StopClientsDone, TcpLocked, Clearing
    <3>2. QED
      BY <2>4, <3>1 DEF StopClientsDone
  <2>5. CASE StopSockets \/ StopUarts \/ FreeHandle
    BY <2>5 DEF StopSockets, StopUarts, FreeHandle
  <2>6. QED
    BY <1>5, <2>1, <2>2, <2>3, <2>4, <2>5 DEF Cleanup
<1>6. CASE UNCHANGED vars
  BY <1>6 DEF vars
<1>7. ASSUME NEW u \in Uarts, UartSent(u) PROVE Kept
  BY <1>7 DEF UartSent
<1>8. QED
  BY <1>1, <1>2, <1>3, <1>4, <1>5, <1>6, <1>7 DEF Next

LEMMA UartKeepsClientOrder ==
  ASSUME Valued, TcpLocked, Listing, Within, ClientOrder, NEW u \in Uarts, UartTask(u)
  PROVE  ClientOrder'
<1> USE WhoIsWho DEF Valued, Goto, clientVars, localVars, logVars
<1>1. /\ Carried(Uarts, uart_in) /\ Received(Conns, sent, uart_in) /\ ClientsInTurn
      /\ uart_in \in Nat
  BY DEF ClientOrder
<1>2. CASE UartReceive(u)
  <2> DEFINE k == uart_in + 1
  <2>1. /\ uart_in' = k /\ packet'[u] = k /\ pc'[u] = "take"
        /\ UNCHANGED <<sent, at, tcp_clients>>
        /\ \A s \in Uarts \ {u} : pc'[s] = pc[s] /\ packet'[s] = packet[s]
    BY <1>2 DEF UartReceive
  <2>2. k \notin 1 .. uart_in /\ k \in 1 .. k /\ 1 .. uart_in \subseteq 1 .. k
    BY <1>1
  <2>3. Received(Conns, sent, uart_in)'
    BY <1>1, <2>1, ReceivedMore
  <2> HIDE DEF k
  <2>4. Carried(Uarts, uart_in)'
    <3>1. \A s \in Uarts \ {u} : Carrying(s)' =>
            Carrying(s) /\ packet[s] \in 1 .. uart_in /\ packet'[s] = packet[s]
      BY <1>1, <2>1 DEF Carried, Carrying
    <3>2. \A s \in Uarts : Carrying(s)' => packet'[s] \in 1 .. k
      BY <2>1, <2>2, <3>1
    <3>3. ASSUME NEW r \in Uarts, NEW s \in Uarts, Carrying(r)', Carrying(s)',
                 packet'[r] = packet'[s]
          PROVE  r = s
      <4>1. CASE r # u /\ s # u
        BY <1>1, <3>1, <3>3, <4>1 DEF Carried
      <4>2. CASE r = u \/ s = u
        BY <2>1, <2>2, <3>1, <3>3, <4>2
      <4>3. QED
        BY <4>1, <4>2
    <3>4. QED
      BY <2>1, <3>2, <3>3 DEF Carried
  <2>5. \A c \in Conns : LastIn(k, sent[c]) /\ ~In(k, sent[c])
    BY SMTT(30), <1>1, <2>2 DEF Received, In, LastIn
  <2>6. \A s, c : Passed(s, c)' <=> Passed(s, c)
    BY <2>1 DEF Passed
  <2>7. ClientsInTurn'
    BY <1>1, <2>1, <2>5, <2>6 DEF ClientsInTurn, Carrying
  <2>8. QED
    BY <2>3, <2>4, <2>7 DEF ClientOrder
<1>3. CASE BroadcastTake(u)
  <2>1. /\ UNCHANGED <<uart_in, packet, sent, tcp_clients>> /\ pc[u] = "take" /\ pc'[u] = "send"
        /\ \A s \in Uarts \ {u} : pc'[s] = pc[s] /\ at'[s] = at[s]
    BY <1>3 DEF BroadcastTake
  <2>2. \A c \in Conns : ~In(packet[u], sent[c])
    BY <1>1, <2>1 DEF ClientsInTurn, Carrying
  <2>3. Carried(Uarts, uart_in)' /\ Received(Conns, sent, uart_in)'
    BY <1>1, <2>1 DEF Carried, Carrying
  <2>4. \A s \in Uarts \ {u} : \A c : Passed(s, c)' <=> Passed(s, c)
    BY <2>1 DEF Passed
  <2>5. ClientsInTurn'
    BY <1>1, <2>1, <2>2, <2>4 DEF ClientsInTurn, Carrying
  <2>6. QED
    BY <2>3, <2>5 DEF ClientOrder
<1>4. CASE BroadcastTakeTimeout(u) \/ BroadcastGive(u)
  <2>1. /\ UNCHANGED <<uart_in, packet, at, sent, tcp_clients>>
        /\ pc'[u] \notin {"take", "send"}
        /\ \A s \in Uarts \ {u} : pc'[s] = pc[s]
    BY <1>4 DEF BroadcastTakeTimeout, BroadcastGive
  <2>2. Carried(Uarts, uart_in)' /\ Received(Conns, sent, uart_in)'
    BY <1>1, <2>1 DEF Carried, Carrying
  <2>3. \A s, c : Passed(s, c)' <=> Passed(s, c)
    BY <2>1 DEF Passed
  <2>4. ClientsInTurn'
    BY <1>1, <2>1, <2>3 DEF ClientsInTurn, Carrying
  <2>5. QED
    BY <2>2, <2>4 DEF ClientOrder
<1>5. CASE BroadcastSend(u)
  <2> DEFINE p == packet[u]
             i == at[u]
             r == tcp_clients[at[u]]
  <2>1. /\ pc[u] = "send" /\ i \in DOMAIN tcp_clients
        /\ UNCHANGED <<uart_in, packet, pc, tcp_clients>>
        /\ sent' = [sent EXCEPT ![r] = Append(sent[r], p)] \/ UNCHANGED sent
        /\ at'[u] = i + 1 /\ \A s \in Uarts \ {u} : at'[s] = at[s]
    BY <1>5 DEF BroadcastSend
  <2>2. p \in 1 .. uart_in /\ p \in 1 .. MaxUart
    <3>1. p \in 1 .. uart_in
      BY <1>1, <2>1 DEF Carried, Carrying
    <3>2. 1 .. uart_in \subseteq 1 .. MaxUart
      BY BridgeAssumption
    <3>3. QED
      BY <3>1, <3>2
  <2>3. /\ r \in Conns /\ i \in Int
        /\ \A j \in DOMAIN tcp_clients : j \in Int /\ (j < i \/ j = i => j < i + 1)
        /\ ~(i < i)
    <3>1. \A j \in DOMAIN tcp_clients : j \in Int /\ tcp_clients[j] \in Conns
      BY ListFacts
    <3>2. r \in Conns /\ i \in Int
      BY <2>1, <3>1
    <3> HIDE DEF r, i
    <3>3. QED
      BY <3>1, <3>2, NextNumber
  <2>4. \A c \in Conns : Passed(u, c) \/ c = r => Passed(u, c)'
    BY <2>1, <2>3 DEF Passed
  <2>5. ~Passed(u, r)
    BY <2>1, <2>3 DEF Passed, Listing
  <2>6. \A s \in Uarts \ {u} : \A c : Passed(s, c)' <=> Passed(s, c)
    BY <2>1 DEF Passed
  <2>7. /\ ~In(p, sent[r])
        /\ \A c \in Conns : LastIn(p, sent[c]) /\ (In(p, sent[c]) => Passed(u, c))
    BY <1>1, <2>1, <2>3, <2>5 DEF ClientsInTurn, Carrying
  <2>8. ASSUME NEW s \in Uarts, s # u, Carrying(s)
        PROVE  pc[s] = "take" /\ packet[s] # p /\ \A c \in Conns : ~In(packet[s], sent[c])
    <3>1. pc[s] # "send"
      BY <2>1, <2>8 DEF TcpLocked
    <3>2. packet[s] # p
      BY <1>1, <2>1, <2>8 DEF Carried, Carrying
    <3>3. QED
      BY <1>1, <2>8, <3>1, <3>2 DEF ClientsInTurn, Carrying
  <2>9. /\ Received(Conns, sent', uart_in)
        /\ \A c \in Conns : LastIn(p, sent'[c]) /\ (In(p, sent'[c]) => In(p, sent[c]) \/ c = r)
        /\ \A c \in Conns : \A a : In(a, sent'[c]) => In(a, sent[c]) \/ a = p
    <3>1. sent \in [Conns -> Seq(1 .. MaxUart)]
      OBVIOUS
    <3> HIDE DEF p, r, i
    <3>2. CASE UNCHANGED sent
      BY <1>1, <2>7, <3>2
    <3>3. CASE sent' = [sent EXCEPT ![r] = Append(sent[r], p)]
      <4>1. Ready(1 .. MaxUart, Conns, sent, uart_in, r, p)
        BY <1>1, <2>2, <2>3, <2>7, <3>1 DEF Ready
      <4>2. \A v : v = [sent EXCEPT ![r] = Append(sent[r], p)]
                     => SentOn(Conns, sent, uart_in, r, p, v)
        BY <4>1, Forwarded
      <4>3. QED
        BY <3>3, <4>2 DEF SentOn
    <3>4. QED
      BY <2>1, <3>2, <3>3
  <2> HIDE DEF r, i
  <2>10. ASSUME NEW s \in Uarts, Carrying(s)', NEW c \in Conns
         PROVE  /\ LastIn(packet'[s], sent'[c])
                /\ In(packet'[s], sent'[c]) => pc'[s] = "send" /\ Passed(s, c)'
    <3>1. Carrying(s) /\ packet'[s] = packet[s] /\ pc'[s] = pc[s]
      BY <2>1, <2>10 DEF Carrying
    <3>2. CASE s = u
      BY <2>1, <2>4, <2>7, <2>9, <3>1, <3>2
    <3>3. CASE s # u
      <4>1. packet[s] # p /\ ~In(packet[s], sent[c])
        BY <2>8, <3>1, <3>3
      <4>2. ~In(packet[s], sent'[c])
        BY <2>9, <4>1
      <4>3. QED
        BY <3>1, <4>2 DEF LastIn, In
    <3>4. QED
      BY <3>2, <3>3
  <2>11. ClientsInTurn'
    BY <2>10 DEF ClientsInTurn
  <2>12. Carried(Uarts, uart_in)' /\ Received(Conns, sent, uart_in)'
    BY <1>1, <2>1, <2>9 DEF Carried, Carrying
  <2>13. QED
    BY <2>11, <2>12 DEF ClientOrder
<1>6. QED
  BY <1>2, <1>3, <1>4, <1>5 DEF UartTask

LEMMA ClientOrderKept ==
  ASSUME Valued, Flagged, TcpLocked, Listing, Within, ClientOrder, [Next]_vars
  PROVE  ClientOrder'
<1>1. CASE ~\E u \in Uarts : UartTask(u)
  <2>1. /\ UNCHANGED <<uart_in, sent>>
        /\ \A u \in Uarts : pc'[u] \in {"take", "send"} =>
             pc'[u] = pc[u] /\ packet'[u] = packet[u] /\ at'[u] = at[u]
        /\ \A u \in Uarts : pc'[u] = "send" => UNCHANGED tcp_clients
    BY <1>1, ClientsUntouched
  <2>2. Carried(Uarts, uart_in)' /\ Received(Conns, sent, uart_in)'
    BY <2>1 DEF ClientOrder, Carried, Carrying
  <2>3. \A u \in Uarts : pc'[u] = "send" => \A c : Passed(u, c)' <=> Passed(u, c)
    BY <2>1 DEF Passed
  <2>4. ClientsInTurn'
    BY <2>1, <2>3 DEF ClientOrder, ClientsInTurn, Carrying
  <2>5. QED
    BY <2>2, <2>4 DEF ClientOrder
<1>2. QED
  BY <1>1, UartKeepsClientOrder

-----------------------------------------------------------------------------
(* Types again.                                                             *)

LEMMA ListIsBounded ==
  ASSUME Valued, Listing
  PROVE  Len(tcp_clients) <= Cardinality(Conns) /\ Cardinality(Conns) \in Nat
<1> DEFINE n == Len(tcp_clients)
           D == 1 .. n
<1>1. n \in Nat /\ DOMAIN tcp_clients = D /\ \A i \in D : tcp_clients[i] \in Conns
  BY ListFacts
<1>2. tcp_clients = [i \in D |-> tcp_clients[i]]
  BY <1>1 DEF Valued
<1>3. tcp_clients \in Injection(D, Conns)
  BY <1>1, <1>2, Fun_IsInj DEF Listing
<1>4. Cardinality(D) <= Cardinality(Conns)
  BY <1>3, BridgeAssumption, FS_Injection
<1>5. Cardinality(D) = n
  BY <1>1, FS_Interval
<1>6. QED
  BY <1>4, <1>5, BridgeAssumption, FS_CardinalityType

LEMMA FlaggedKept ==
  ASSUME Valued, Flagged, Within, [Next]_vars
  PROVE  Flagged'
<1> USE WhoIsWho DEF Valued, Goto, Flagged, bridgeVars, clientVars, uartVars
<1>1. ASSUME NEW t \in NetTasks, NetToUarts(t) PROVE Flagged'
  BY <1>1 DEF NetToUarts, NetReceive, UartTake, UartTakeTimeout, UartSend, UartGive
<1>2. ASSUME NEW c \in Conns, ClientTask(c) \/ PeerCloses(c) PROVE Flagged'
  BY <1>2 DEF ClientTask, ClientLoop, ClientReceiveNothing, ClientEnd, PeerCloses
<1>3. CASE ServerTask
  BY <1>3 DEF ServerTask, ServerLoop, ServerAccept, ServerTake, ServerTakeTimeout,
       ServerCount, ServerAdmit, ServerGive
<1>4. ASSUME NEW u \in Uarts, UartTask(u) \/ UartSent(u) PROVE Flagged'
  BY <1>4 DEF UartSent, UartTask, UartReceive, BroadcastTake, BroadcastTakeTimeout,
       BroadcastSend,
       BroadcastGive
<1>5. CASE Boot \/ Console \/ Deinit
  BY <1>5 DEF Boot, Console, BootUdp, BootTcp, BootUarts, EnableUart, SetBaudBegin,
       SetBaudTake, SetBaudTakeTimeout, SetBaud, Deinit
<1>6. CASE Cleanup
  BY <1>6 DEF Cleanup, StopServer, DeleteServer, DeleteCleared, StopTakeClients,
       StopTakeClientsTimeout, StopClient, TestClient, DeleteClient, StopClientsDone,
       StopSockets, StopUarts, FreeHandle
<1>7. CASE UNCHANGED vars
  BY <1>7 DEF vars
<1>8. QED
  BY <1>1, <1>2, <1>3, <1>4, <1>5, <1>6, <1>7 DEF Next

Placed ==
  /\ handle \in {"none", "live", "freed"} /\ state \in {"IDLE", "RUNNING"}
  /\ pc \in [Tasks -> Labels]
  /\ uart_mutex \in NetTasks \cup {Con, Free}
  /\ tcp_mutex \in Uarts \cup {Srv, Con, Free}
  /\ sock \in [Conns -> Socks] /\ baud \in [Uarts -> Bauds]
Numbered ==
  /\ packet \in [Tasks -> 0 .. MaxNet + MaxUart]
  /\ DOMAIN at = Tasks
  /\ \A t \in NetTasks : at[t] \in 0 .. UartCount + 1
  /\ \A t \in Tasks \ NetTasks : at[t] \in 0 .. Cardinality(Conns) + 1
  /\ net_in \in 0 .. MaxNet /\ uart_in \in 0 .. MaxUart
Logged ==
  /\ tcp_clients \in Seq(Conns) /\ ring \in [Uarts -> 0 .. MaxNet]
  /\ written \in [Uarts -> Seq(1 .. MaxNet)] /\ sent \in [Conns -> Seq(1 .. MaxUart)]

LEMMA ValuesSplit == Valued <=> Placed /\ Numbered /\ Logged
BY DEF Valued, Placed, Numbered, Logged

LEMMA BaudKept ==
  ASSUME NEW w \in Uarts, NEW b \in Bauds, baud \in [Uarts -> Bauds],
         baud' = [baud EXCEPT ![w] = b] \/ UNCHANGED baud
  PROVE  baud' \in [Uarts -> Bauds]
OBVIOUS

LEMMA PlacedKept ==
  ASSUME Valued, Within, [Next]_vars
  PROVE  Placed'
<1> USE WhoIsWho DEF Valued, Goto, Placed, Labels, Socks, AfterPacket, bridgeVars,
        clientVars, uartVars, mutexVars
<1>1. ASSUME NEW t \in NetTasks, NetToUarts(t) PROVE Placed'
  BY ZenonT(60), <1>1 DEF NetToUarts, NetReceive, UartTake, UartTakeTimeout, UartSend,
       UartGive
<1>2. ASSUME NEW c \in Conns, ClientTask(c) \/ PeerCloses(c) PROVE Placed'
  BY <1>2 DEF ClientTask, ClientLoop, ClientReceiveNothing, ClientEnd, PeerCloses
<1>3. CASE ServerTask
  BY ZenonT(60), <1>3 DEF ServerTask, ServerLoop, ServerAccept, ServerTake,
       ServerTakeTimeout,
       ServerCount, ServerAdmit, ServerGive
<1>4. ASSUME NEW u \in Uarts, UartTask(u) \/ UartSent(u) PROVE Placed'
  BY ZenonT(60), <1>4 DEF UartSent, UartTask, UartReceive, BroadcastTake,
       BroadcastTakeTimeout, BroadcastSend,
       BroadcastGive
<1>5. CASE Boot \/ Console \/ Deinit
  <2>1. CASE BootUdp \/ BootTcp
    BY <1>5, <2>1 DEF BootUdp, BootTcp
  <2>2. CASE BootUarts
    BY <1>5, <2>2 DEF BootUarts
  <2>3. CASE (\E w \in Uarts, e \in BOOLEAN : EnableUart(w, e)) \/ SetBaudBegin
             \/ SetBaudTake \/ SetBaudTakeTimeout \/ Deinit
    BY <1>5, <2>3 DEF EnableUart, SetBaudBegin, SetBaudTake, SetBaudTakeTimeout, Deinit
  <2>4. CASE (\E w \in Uarts, b \in Bauds : SetBaud(w, b))
    <3>1. PICK w \in Uarts, b \in Bauds : SetBaud(w, b)
      BY <2>4
    <3>2. /\ pc' = [pc EXCEPT ![Con] = "idle"] /\ uart_mutex' = Free
          /\ UNCHANGED <<handle, state, tcp_mutex, sock>>
      BY <3>1 DEF SetBaud
    <3>3. baud' = [baud EXCEPT ![w] = b] \/ UNCHANGED baud
      BY <3>1 DEF SetBaud
    <3>4. baud' \in [Uarts -> Bauds]
      BY <3>3, BaudKept
    <3>5. QED
      BY <3>2, <3>4
  <2>5. QED
    BY <1>5, <2>1, <2>2, <2>3, <2>4 DEF Boot, Console
<1>6. CASE Cleanup
  <2>1. CASE StopServer \/ DeleteServer \/ StopTakeClients \/ StopTakeClientsTimeout
    BY ZenonT(60), <1>6, <2>1
       DEF StopServer, DeleteServer, DeleteCleared, StopTakeClients, StopTakeClientsTimeout
  <2>2. CASE StopClient
    BY <1>6, <2>2 DEF StopClient
  <2>3. CASE TestClient
    BY ZenonT(60), <1>6, <2>3 DEF TestClient
  <2>4. CASE DeleteClient
    BY ZenonT(60), <1>6, <2>4 DEF DeleteClient, DeleteCleared
  <2>5. CASE StopClientsDone \/ StopSockets
    BY ZenonT(60), <1>6, <2>5 DEF StopClientsDone, StopSockets
  <2>6. CASE StopUarts \/ FreeHandle
    BY <1>6, <2>6 DEF StopUarts, FreeHandle
  <2>7. QED
    BY <1>6, <2>1, <2>2, <2>3, <2>4, <2>5, <2>6 DEF Cleanup
<1>7. CASE UNCHANGED vars
  BY <1>7 DEF vars
<1>8. QED
  BY <1>1, <1>2, <1>3, <1>4, <1>5, <1>6, <1>7 DEF Next

LEMMA AppendTyped ==
  /\ \A u \in Uarts : \A p \in 1 .. MaxNet : \A q \in Seq(1 .. MaxNet) :
       Append(q, p) \in Seq(1 .. MaxNet)
  /\ \A p \in 1 .. MaxUart : \A q \in Seq(1 .. MaxUart) : Append(q, p) \in Seq(1 .. MaxUart)
  /\ \A c \in Conns : \A q \in Seq(Conns) : Append(q, c) \in Seq(Conns)
  /\ <<>> \in Seq(Conns)
OBVIOUS

LEMMA CarriedTyped ==
  ASSUME Valued, UartOrder, ClientOrder
  PROVE  /\ \A t \in NetTasks : pc[t] = "send" => packet[t] \in 1 .. MaxNet
         /\ \A u \in Uarts : pc[u] = "send" => packet[u] \in 1 .. MaxUart
<1>1. 1 .. net_in \subseteq 1 .. MaxNet /\ 1 .. uart_in \subseteq 1 .. MaxUart
  BY BridgeAssumption DEF Valued
<1>2. QED
  BY <1>1 DEF UartOrder, ClientOrder, Carried, Carrying

LEMMA NextNumbers ==
  ASSUME Valued, Flagged, Listing
  PROVE  /\ 1 \in 0 .. UartCount + 1 /\ \A i \in Uarts : i + 1 \in 0 .. UartCount + 1
         /\ 1 \in 0 .. Cardinality(Conns) + 1
         /\ \A i \in DOMAIN tcp_clients : i + 1 \in 0 .. Cardinality(Conns) + 1
         /\ Cardinality(Active) \in 0 .. Cardinality(Conns) + 1
         /\ net_in < MaxNet => /\ net_in + 1 \in 0 .. MaxNet
                               /\ net_in + 1 \in 0 .. MaxNet + MaxUart
         /\ uart_in < MaxUart => /\ uart_in + 1 \in 0 .. MaxUart
                                 /\ uart_in + 1 \in 0 .. MaxNet + MaxUart
<1>1. /\ UartCount \in Nat /\ MaxNet \in Nat /\ MaxUart \in Nat
      /\ net_in \in 0 .. MaxNet /\ uart_in \in 0 .. MaxUart
  BY BridgeAssumption DEF Valued
<1>2. /\ Cardinality(Conns) \in Nat /\ Len(tcp_clients) <= Cardinality(Conns)
      /\ Len(tcp_clients) \in Nat /\ DOMAIN tcp_clients = 1 .. Len(tcp_clients)
  BY ListIsBounded, ListFacts
<1>3. Cardinality(Active) \in Nat /\ Cardinality(Active) <= Cardinality(Conns)
  BY ActiveFacts
<1>4. \A i \in DOMAIN tcp_clients : i + 1 \in 0 .. Cardinality(Conns) + 1
  BY <1>2
<1>5. Cardinality(Active) \in 0 .. Cardinality(Conns) + 1 /\ 1 \in 0 .. Cardinality(Conns) + 1
  BY <1>2, <1>3
<1>6. 1 \in 0 .. UartCount + 1 /\ \A i \in Uarts : i + 1 \in 0 .. UartCount + 1
  BY <1>1 DEF Uarts
<1>7. /\ net_in < MaxNet => /\ net_in + 1 \in 0 .. MaxNet
                            /\ net_in + 1 \in 0 .. MaxNet + MaxUart
      /\ uart_in < MaxUart => /\ uart_in + 1 \in 0 .. MaxUart
                              /\ uart_in + 1 \in 0 .. MaxNet + MaxUart
  BY <1>1
<1>8. QED
  BY <1>4, <1>5, <1>6, <1>7

LEMMA LoggedKept ==
  ASSUME Valued, Flagged, Within, UartOrder, ClientOrder, [Next]_vars
  PROVE  Logged'
<1> USE WhoIsWho DEF Valued, Goto, Logged, clientVars, logVars, uartVars
<1>1. ASSUME NEW t \in NetTasks, NetToUarts(t) PROVE Logged'
  <2>1. CASE NetReceive(t) \/ UartTake(t) \/ UartTakeTimeout(t) \/ UartGive(t)
    BY <1>1, <2>1 DEF NetReceive, UartTake, UartTakeTimeout, UartGive
  <2>2. CASE UartSend(t)
    <3> DEFINE r == at[t]
               x == Append(written[r], packet[t])
    <3>1. written' = [written EXCEPT ![r] = x] \/ UNCHANGED written
      BY <2>2 DEF UartSend
    <3>2. /\ r \in Uarts /\ packet[t] \in 1 .. MaxNet
          /\ UNCHANGED <<tcp_clients, sent>>
      BY <2>2, CarriedTyped, ListFacts DEF UartSend
    <3>3. written[r] \in Seq(1 .. MaxNet)
      BY <3>2
    <3>4. x \in Seq(1 .. MaxNet)
      BY <3>2, <3>3, AppendTyped
    <3> HIDE DEF x
    <3>5. written' \in [Uarts -> Seq(1 .. MaxNet)]
      BY ZenonT(60), <3>1, <3>4
    <3>6. ring' \in [Uarts -> 0 .. MaxNet]
      <4>1. ring' = [ring EXCEPT ![r] = packet[t]] \/ UNCHANGED ring
        BY <2>2 DEF UartSend
      <4>2. packet[t] \in 0 .. MaxNet
        BY <3>2
      <4>3. QED
        BY <4>1, <4>2
    <3>7. QED
      BY <3>2, <3>5, <3>6
  <2>3. QED
    BY <1>1, <2>1, <2>2 DEF NetToUarts
<1>2. ASSUME NEW c \in Conns, ClientTask(c) \/ PeerCloses(c) PROVE Logged'
  BY <1>2 DEF ClientTask, ClientLoop, ClientReceiveNothing, ClientEnd, PeerCloses
<1>3. CASE ServerTask
  <2>1. CASE ServerLoop \/ ServerAccept \/ ServerTake \/ ServerTakeTimeout
             \/ ServerCount \/ ServerGive
    BY <1>3, <2>1 DEF ServerLoop, ServerAccept, ServerTake, ServerTakeTimeout,
       ServerCount, ServerGive
  <2>2. CASE ServerAdmit
    <3>1. \A c \in Conns : \A q : q = Append(tcp_clients, c) => q \in Seq(Conns)
      BY AppendTyped
    <3>2. tcp_clients' \in Seq(Conns)
      BY <2>2, <3>1, AdmitMoves
    <3>3. QED
      BY <2>2, <3>2 DEF ServerAdmit
  <2>3. QED
    BY <1>3, <2>1, <2>2 DEF ServerTask
<1>4. ASSUME NEW u \in Uarts, UartTask(u) \/ UartSent(u) PROVE Logged'
  <2>1. CASE UartReceive(u) \/ BroadcastTake(u) \/ BroadcastTakeTimeout(u)
             \/ BroadcastGive(u)
    BY <1>4, <2>1 DEF UartReceive, BroadcastTake, BroadcastTakeTimeout, BroadcastGive
  <2>2. CASE BroadcastSend(u)
    <3> DEFINE r == tcp_clients[at[u]]
               x == Append(sent[r], packet[u])
    <3>1. sent' = [sent EXCEPT ![r] = x] \/ UNCHANGED sent
      BY <2>2 DEF BroadcastSend
    <3>2. /\ r \in Conns /\ packet[u] \in 1 .. MaxUart
          /\ UNCHANGED <<tcp_clients, written, ring>>
      BY <2>2, CarriedTyped, ListFacts DEF BroadcastSend
    <3>3. sent[r] \in Seq(1 .. MaxUart)
      BY <3>2
    <3>4. x \in Seq(1 .. MaxUart)
      BY <3>2, <3>3, AppendTyped
    <3> HIDE DEF x
    <3>5. sent' \in [Conns -> Seq(1 .. MaxUart)]
      BY <3>1, <3>4
    <3>6. QED
      BY <3>2, <3>5
  <2>3. CASE UartSent(u)
    <3>1. 0 \in 0 .. MaxNet /\ ring' = [ring EXCEPT ![u] = 0]
      BY <2>3, BridgeAssumption DEF UartSent
    <3>2. ring' \in [Uarts -> 0 .. MaxNet]
      BY <3>1
    <3>3. QED
      BY <2>3, <3>2 DEF UartSent
  <2>4. QED
    BY <1>4, <2>1, <2>2, <2>3 DEF UartTask
<1>5. CASE Boot \/ Console \/ Deinit
  BY <1>5 DEF Boot, Console, BootUdp, BootTcp, BootUarts, EnableUart, SetBaudBegin,
       SetBaudTake, SetBaudTakeTimeout, SetBaud, Deinit
<1>6. CASE Cleanup
  <2>1. CASE StopServer \/ DeleteServer \/ StopTakeClients \/ StopTakeClientsTimeout
    BY <1>6, <2>1 DEF StopServer, DeleteServer, DeleteCleared, StopTakeClients,
         StopTakeClientsTimeout
  <2>2. CASE StopClient
    BY <1>6, <2>2 DEF StopClient
  <2>3. CASE TestClient \/ DeleteClient
    BY <1>6, <2>3 DEF TestClient, DeleteClient
  <2>4. CASE StopClientsDone
    BY <1>6, <2>4, AppendTyped DEF StopClientsDone
  <2>5. CASE StopSockets \/ FreeHandle
    BY <1>6, <2>5 DEF StopSockets, FreeHandle
  <2>6. CASE StopUarts
    <3>1. 0 \in 0 .. MaxNet /\ ring' = [u \in Uarts |-> 0]
      BY <2>6, BridgeAssumption DEF StopUarts
    <3>2. ring' \in [Uarts -> 0 .. MaxNet]
      BY <3>1
    <3>3. QED
      BY <2>6, <3>2 DEF StopUarts
  <2>7. QED
    BY <1>6, <2>1, <2>2, <2>3, <2>4, <2>5, <2>6 DEF Cleanup
<1>7. CASE UNCHANGED vars
  BY <1>7 DEF vars
<1>8. QED
  BY <1>1, <1>2, <1>3, <1>4, <1>5, <1>6, <1>7 DEF Next

LEMMA NumberedKept ==
  ASSUME Valued, Flagged, Within, Listing, [Next]_vars
  PROVE  Numbered'
<1> USE WhoIsWho DEF Valued, Goto, Numbered, localVars, logVars
<1>1. ASSUME NEW t \in NetTasks, NetToUarts(t) PROVE Numbered'
  <2>1. CASE NetReceive(t)
    BY <1>1, <2>1, NextNumbers DEF NetReceive
  <2>2. CASE UartTake(t)
    BY <1>1, <2>2, NextNumbers DEF UartTake
  <2>3. CASE UartTakeTimeout(t) \/ UartGive(t)
    BY <1>1, <2>3 DEF UartTakeTimeout, UartGive
  <2>4. CASE UartSend(t)
    BY <1>1, <2>4, NextNumbers DEF UartSend
  <2>5. QED
    BY <1>1, <2>1, <2>2, <2>3, <2>4 DEF NetToUarts
<1>2. ASSUME NEW c \in Conns, ClientTask(c) \/ PeerCloses(c) PROVE Numbered'
  BY <1>2 DEF ClientTask, ClientLoop, ClientReceiveNothing, ClientEnd, PeerCloses
<1>3. CASE ServerTask
  <2>1. CASE ServerCount
    BY <1>3, <2>1, NextNumbers DEF ServerCount
  <2>2. CASE ServerLoop \/ ServerAccept \/ ServerTake \/ ServerTakeTimeout
             \/ ServerAdmit \/ ServerGive
    BY <1>3, <2>2 DEF ServerLoop, ServerAccept, ServerTake, ServerTakeTimeout,
       ServerAdmit, ServerGive
  <2>3. QED
    BY <1>3, <2>1, <2>2 DEF ServerTask
<1>4. ASSUME NEW u \in Uarts, UartTask(u) \/ UartSent(u) PROVE Numbered'
  <2>1. CASE UartReceive(u)
    BY <1>4, <2>1, NextNumbers DEF UartReceive
  <2>2. CASE BroadcastTake(u)
    BY <1>4, <2>2, NextNumbers DEF BroadcastTake
  <2>3. CASE BroadcastTakeTimeout(u) \/ BroadcastGive(u) \/ UartSent(u)
    BY <1>4, <2>3 DEF BroadcastTakeTimeout, BroadcastGive, UartSent
  <2>4. CASE BroadcastSend(u)
    BY <1>4, <2>4, NextNumbers DEF BroadcastSend
  <2>5. QED
    BY <1>4, <2>1, <2>2, <2>3, <2>4 DEF UartTask
<1>5. CASE Boot \/ Console \/ Deinit
  BY <1>5 DEF Boot, Console, BootUdp, BootTcp, BootUarts, EnableUart, SetBaudBegin,
       SetBaudTake, SetBaudTakeTimeout, SetBaud, Deinit
<1>6. CASE Cleanup
  <2>1. CASE StopServer \/ DeleteServer \/ StopTakeClientsTimeout
    BY <1>6, <2>1 DEF StopServer, DeleteServer, DeleteCleared, StopTakeClientsTimeout
  <2>2. CASE StopTakeClients
    BY <1>6, <2>2, NextNumbers DEF StopTakeClients
  <2>3. CASE TestClient
    <3>1. at[Con] \in DOMAIN tcp_clients
      BY <2>3, VisitedFacts DEF TestClient
    <3>2. at[Con] + 1 \in 0 .. Cardinality(Conns) + 1
      BY <3>1, NextNumbers
    <3>3. UNCHANGED <<packet, net_in, uart_in>> /\ DOMAIN at' = Tasks
      BY <2>3 DEF TestClient
    <3>4. QED
      BY <2>3, <3>2, <3>3, TestClientMoves
  <2>4. CASE DeleteClient
    <3>1. at[Con] \in DOMAIN tcp_clients
      BY <2>4, VisitedFacts DEF DeleteClient, DeleteCleared
    <3>2. at[Con] + 1 \in 0 .. Cardinality(Conns) + 1
      BY <3>1, NextNumbers
    <3>3. UNCHANGED <<packet, net_in, uart_in>> /\ DOMAIN at' = Tasks
      BY <2>4 DEF DeleteClient, DeleteCleared
    <3>4. QED
      BY <2>4, <3>2, <3>3, DeleteClientMoves
  <2>5. CASE StopClient \/ StopClientsDone
    BY <1>6, <2>5 DEF StopClient, StopClientsDone
  <2>6. CASE StopSockets \/ StopUarts \/ FreeHandle
    BY <1>6, <2>6 DEF StopSockets, StopUarts, FreeHandle
  <2>7. QED
    BY <1>6, <2>1, <2>2, <2>3, <2>4, <2>5, <2>6 DEF Cleanup
<1>7. CASE UNCHANGED vars
  BY <1>7 DEF vars
<1>8. QED
  BY <1>1, <1>2, <1>3, <1>4, <1>5, <1>6, <1>7 DEF Next

-----------------------------------------------------------------------------
(* The theorems.                                                            *)

Inv ==
  /\ TypeOK /\ Labelled /\ UartLocked /\ TcpLocked /\ Listing /\ Within /\ Handled
  /\ Stopping /\ Counted /\ UartOrder /\ ClientOrder

LEMMA InitInv == Init => Inv
<1> SUFFICES ASSUME Init PROVE Inv
  OBVIOUS
<1> USE WhoIsWho, BridgeAssumption DEF Init
<1>1. /\ \A u \in Uarts : Len(written[u]) = 0 /\ DOMAIN written[u] = {}
                          /\ written[u] \in Seq(1 .. MaxNet)
      /\ \A c \in Conns : Len(sent[c]) = 0 /\ DOMAIN sent[c] = {}
                          /\ sent[c] \in Seq(1 .. MaxUart)
      /\ Len(tcp_clients) = 0 /\ DOMAIN tcp_clients = {} /\ tcp_clients \in Seq(Conns)
  OBVIOUS
<1>2. Active = {} /\ Cardinality(Active) = 0
  <2>1. Active = {}
    BY DEF Active
  <2>2. QED
    BY <2>1, FS_EmptySet
<1>3. Flagged
  BY DEF Flagged
<1>4. Placed
  BY DEF Placed, Labels, Socks
<1>5. Numbered
  <2>1. Cardinality(Conns) \in Nat
    BY FS_CardinalityType
  <2>2. 0 \in 0 .. MaxNet + MaxUart /\ 0 \in 0 .. UartCount + 1 /\ 0 \in 0 .. MaxNet
        /\ 0 \in 0 .. MaxUart /\ 0 \in 0 .. Cardinality(Conns) + 1
    BY <2>1
  <2>3. QED
    BY <2>2 DEF Numbered
<1>6. Logged
  BY <1>1 DEF Logged
<1>7. Labelled /\ UartLocked /\ TcpLocked /\ Listing /\ Within
  BY <1>1 DEF Labelled, Gone, Clearing, Closing, UartLocked, TcpLocked, Listing, Within
<1>8. Handled /\ Stopping
  BY DEF Handled, Gone, Stopping, TasksEnd, ClientsEnd, Clearing, Closing
<1>9. Counted
  BY <1>2 DEF Counted
<1>10. UartOrder /\ ClientOrder
  <2>1. \A t \in Tasks : ~Carrying(t)
    BY DEF Carrying
  <2>2. Received(Uarts, written, net_in) /\ Received(Conns, sent, uart_in)
    BY <1>1 DEF Received, Once, SameOrder, Before
  <2>3. QED
    BY <2>1, <2>2 DEF UartOrder, ClientOrder, Carried, UartsInTurn, ClientsInTurn
<1>11. QED
  BY <1>3, <1>4, <1>5, <1>6, <1>7, <1>8, <1>9, <1>10, TypesSplit, ValuesSplit DEF Inv

LEMMA StepInv == Inv /\ [Next]_vars => Inv'
<1> SUFFICES ASSUME Inv, [Next]_vars PROVE Inv'
  OBVIOUS
<1>1. /\ Flagged /\ Valued /\ Labelled /\ UartLocked /\ TcpLocked /\ Listing /\ Within
      /\ Handled /\ Stopping /\ Counted /\ UartOrder /\ ClientOrder
  BY TypesSplit DEF Inv
<1>2. Flagged' /\ Placed' /\ Logged' /\ Numbered'
  BY <1>1, FlaggedKept, PlacedKept, LoggedKept, NumberedKept
<1>3. Labelled' /\ UartLocked' /\ TcpLocked' /\ Listing' /\ Within' /\ Handled'
  BY <1>1, LabelledKept, UartLockedKept, TcpLockedKept, ListingKept, WithinKept, HandledKept
<1>4. Stopping' /\ UartOrder' /\ ClientOrder'
  BY <1>1, StoppingKept, UartOrderKept, ClientOrderKept
<1>5. Counted'
  BY <1>1, <1>2, CountedKept
<1>6. Valued' <=> Placed' /\ Numbered' /\ Logged'
  BY ValuesSplit, PTL
<1>7. TypeOK' <=> Flagged' /\ Valued'
  BY TypesSplit, PTL
<1>8. QED
  BY <1>2, <1>3, <1>4, <1>5, <1>6, <1>7 DEF Inv

\* The invariant the other theorems rest on: every task is where the code lets it be,
\* holds the mutex of what it is inside, is known to the handle while it lives, and is
\* gone where the teardown has passed; and what is forwarded keeps one order.
THEOREM Invariance == Spec => []Inv
BY InitInv, StepInv, PTL DEF Spec

\* Every field of the handle, every task's place and its locals keep their types: no loop
\* over the UARTs or the clients runs past its end.
THEOREM TypeCorrect == Spec => []TypeOK
<1>1. Inv => TypeOK
  BY DEF Inv
<1>2. QED
  BY <1>1, Invariance, PTL

\* mavlink_bridge_net_to_all_uarts, called by the UDP thread and by any number of client
\* tasks, never leaves two packets in opposite orders on two UARTs, whatever times out,
\* fails or is deleted in the middle.
THEOREM UartsAgreeOnOrder == Spec => []SameOrderOnEveryUart
<1>1. Inv => SameOrderOnEveryUart
  BY DEF Inv, UartOrder, Received, SameOrderOnEveryUart
<1>2. QED
  BY <1>1, Invariance, PTL

\* bridge_tcp_broadcast, called by the receive task of any number of UARTs, never leaves
\* two chunks in opposite orders at two clients, whichever come and go meanwhile.
THEOREM ClientsAgreeOnOrder == Spec => []SameOrderAtEveryClient
<1>1. Inv => SameOrderAtEveryClient
  BY DEF Inv, ClientOrder, Received, SameOrderAtEveryClient
<1>2. QED
  BY <1>1, Invariance, PTL

\* tcp_server_task never admits a client beyond MAVLINK_MAX_TCP_CLIENTS: between its
\* count and its admission clients may end, but none is added.
THEOREM ClientsAreLimited == Spec => []AtMostMaxClients
<1>1. Inv => AtMostMaxClients
  BY DEF Inv, Counted, AtMostMaxClients
<1>2. QED
  BY <1>1, Invariance, PTL

\* A mavlink_bridge_deinit that got tcp_mutex frees the handle when no task is left to
\* use it, whether the tasks ended by themselves or were deleted.
THEOREM TeardownIsClean == Spec => []CleanStop
<1>1. Inv => CleanStop
  <2> SUFFICES ASSUME Inv, handle = "freed", stop_got
               PROVE  \A t \in Tasks \ {Con} : pc[t] \in {"none", "dead"}
    BY DEF CleanStop
  <2>1. pc[Con] \in Closing
    BY DEF Inv, Stopping, Closing
  <2>2. \A c \in Conns : pc[c] \in Gone
    BY <2>1 DEF Inv, Stopping, ClientsEnd
  <2>3. \A t \in Uarts \cup {Udp, Srv} : pc[t] \in Gone
    BY DEF Inv, Stopping, TasksEnd
  <2>4. QED
    BY <2>2, <2>3 DEF Gone, Tasks, NetTasks
<1>2. QED
  BY <1>1, Invariance, PTL

=============================================================================
