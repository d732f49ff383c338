---------------------------- MODULE SerialRpc ----------------------------
(***************************************************************************)
(* The coprocessor's end of the RPC link: recv_task reassembles a request  *)
(* from its fragments in the one buffer r, and posts a copy to req_queue;  *)
(* pserial_task takes requests and events from that queue, empties r, runs *)
(* the handler and answers.  Events come to the same queue from other      *)
(* tasks, and from the handlers themselves.                                *)
(*                                                                         *)
(* r has no lock.  A step of this module is a statement of one task: the   *)
(* kernel may switch between any two (one core, equal priorities and a     *)
(* time slice), so the three stores that empty r are three steps.          *)
(*                                                                         *)
(* The host and the SDIO link are external: the link keeps order, and all  *)
(* fragments of a request carry one sequence number (the code compares     *)
(* each with that of the first), here the request's own number, never 0.   *)
(* A host that restarts does not reuse the number of a cut-off request.    *)
(***************************************************************************)
EXTENDS Naturals, Sequences, FiniteSets

CONSTANTS
  BufSize,      \* fragments that r.data holds
  QMax,         \* REQ_Q_MAX
  Window,       \* requests the host lets go unanswered before it sends another
  MaxFrags,     \* bound: fragments of a request
  MaxRequests,  \* bound: requests
  MaxEvents,    \* bound: events of the other tasks
  MaxRestarts   \* bound: restarts of the host

ASSUME SerialRpcAssumption ==
  /\ {BufSize, QMax, Window, MaxFrags, MaxRequests} \subseteq Nat \ {0}
  /\ MaxFrags <= BufSize
  /\ {MaxEvents, MaxRestarts} \subseteq Nat

VARIABLES
  sent,         \* the messages sent so far
  waiting,      \* the requests without an answer
  wire,         \* fragments the link has delivered and recv_task has not read
  valid, data, cur_seq_no,  \* r; r.len is the length of data
  rx,           \* recv_task: what it does next
  frag, room,   \* its locals: the fragment, and rem_buff_size
  copy,         \* the argument it posts
  queue,        \* req_queue
  ps,           \* pserial_task: what it does next
  arg,          \* what it took from the queue, and how much of it is left to do
  handled,      \* the messages given to a handler
  answered,     \* answers sent
  events,       \* events posted by the other tasks
  restarts,     \* restarts of the host
  failed        \* whether memory has run out or an answer been lost

host == <<sent, waiting>>
r == <<valid, data, cur_seq_no>>
recv == <<rx, frag, room, copy>>
pserial == <<ps, arg, handled, answered>>
history == <<events, restarts, failed>>
vars == <<host, wire, r, recv, queue, pserial, history>>

\* A part of a message is its request's number and its place.
Message(n, k) == [i \in 1 .. k |-> <<n, i>>]
Request(part) == part[1]
Parts == (1 .. MaxRequests) \X (1 .. MaxFrags)
Texts == Seq(Parts)
Fragments == [part : Parts, more : BOOLEAN]

Event == [event |-> TRUE, text |-> <<>>]
Ask(text) == [event |-> FALSE, text |-> text]

TypeOK ==
  /\ sent \in Seq(Texts) /\ Len(sent) <= MaxRequests /\ waiting \subseteq 1 .. Len(sent)
  /\ wire \in Seq(Fragments)
  /\ valid \in BOOLEAN /\ data \in Texts /\ Len(data) <= BufSize /\ cur_seq_no \in 0 .. MaxRequests
  /\ rx \in {"read", "open", "store", "finish", "post"}
  /\ frag \in Fragments /\ room \in 0 .. BufSize /\ copy \in Texts
  /\ queue \in Seq([event : BOOLEAN, text : Texts]) /\ Len(queue) <= QMax
  /\ ps \in {"take", "recv", "len", "seq", "handle", "post2", "post1", "answer"}
  /\ arg \in Texts /\ handled \in Seq(Texts)
  /\ answered \in 0 .. Len(handled)
  /\ events \in 0 .. MaxEvents /\ restarts \in 0 .. MaxRestarts /\ failed \in BOOLEAN

Init ==
  /\ sent = <<>> /\ waiting = {} /\ wire = <<>>
  /\ valid = FALSE /\ data = <<>> /\ cur_seq_no = 0
  /\ rx = "read" /\ room = 0 /\ copy = <<>>
  /\ frag = [part |-> <<1, 1>>, more |-> FALSE]
  /\ queue = <<>>
  /\ ps = "take" /\ arg = <<>> /\ handled = <<>> /\ answered = 0
  /\ events = 0 /\ restarts = 0 /\ failed = FALSE

-----------------------------------------------------------------------------
(* The host, and the coprocessor's other tasks.                             *)

HostSends ==
  /\ Len(sent) < MaxRequests
  /\ Cardinality(waiting) < Window
  /\ \E k \in 1 .. MaxFrags :
       LET n == Len(sent) + 1
       IN /\ sent' = Append(sent, Message(n, k))
          /\ waiting' = waiting \cup {n}
          /\ wire' = wire \o [i \in 1 .. k |-> [part |-> <<n, i>>, more |-> i < k]]
  /\ UNCHANGED <<r, recv, queue, pserial, history>>

\* The host restarts and the coprocessor does not: fragments not yet on the link
\* are never sent, and no old request is waited for.
HostRestarts ==
  /\ restarts < MaxRestarts
  /\ restarts' = restarts + 1
  /\ \E k \in 0 .. Len(wire) : wire' = SubSeq(wire, 1, k)
  /\ waiting' = {}
  /\ UNCHANGED <<sent, r, recv, queue, pserial, events, failed>>

\* xQueueSend waits for room however long it takes.
Post(item) ==
  /\ Len(queue) < QMax
  /\ queue' = Append(queue, item)

\* Mutant of EventPosted: the queue's limit is ignored.
EventPostedAnyway ==
  /\ events < MaxEvents
  /\ queue' = Append(queue, Event)
  /\ events' = events + 1
  /\ UNCHANGED <<host, wire, r, recv, pserial, restarts, failed>>

\* send_event_data_to_host
EventPosted ==
  /\ events < MaxEvents
  /\ Post(Event)
  /\ events' = events + 1
  /\ UNCHANGED <<host, wire, r, recv, pserial, restarts, failed>>

-----------------------------------------------------------------------------
(* recv_task                                                                *)

\* rem_buff_size is computed before the wait for r.
RxRead ==
  /\ rx = "read" /\ wire # <<>>
  /\ frag' = Head(wire) /\ wire' = Tail(wire)
  /\ room' = BufSize - Len(data)
  /\ rx' = "open"
  /\ UNCHANGED <<host, r, copy, queue, pserial, history>>

\* Mutant of RxOpen: the task does not wait for r.
RxOpenAnyway ==
  /\ rx = "open"
  /\ cur_seq_no' = IF data = <<>> THEN Request(frag.part) ELSE cur_seq_no
  /\ rx' = "store"
  /\ UNCHANGED <<host, wire, valid, data, frag, room, copy, queue, pserial, history>>

\* After while (r.valid): a new buffer takes the fragment's number.
RxOpen ==
  /\ rx = "open" /\ ~valid
  /\ cur_seq_no' = IF data = <<>> THEN Request(frag.part) ELSE cur_seq_no
  /\ rx' = "store"
  /\ UNCHANGED <<host, wire, valid, data, frag, room, copy, queue, pserial, history>>

\* Another request's fragment: it is dropped, and what r holds goes to the handler.
Mismatch ==
  /\ valid' = TRUE /\ copy' = data /\ rx' = "post"
  /\ UNCHANGED data

Store ==
  /\ data' = IF room > 0 THEN Append(data, frag.part) ELSE data
  /\ rx' = IF frag.more THEN "read" ELSE "finish"
  /\ UNCHANGED <<valid, copy>>

\* Mutants of RxStore: the sequence number is not compared; every fragment is
\* taken for a last one.
RxStoreUnchecked ==
  /\ rx = "store"
  /\ Store
  /\ UNCHANGED <<host, wire, cur_seq_no, frag, room, queue, pserial, history>>
RxStoreOneFragment ==
  /\ rx = "store"
  /\ data' = Append(data, frag.part) /\ rx' = "finish"
  /\ UNCHANGED <<host, wire, valid, copy, cur_seq_no, frag, room, queue, pserial, history>>

RxStore ==
  /\ rx = "store"
  /\ IF Request(frag.part) # cur_seq_no THEN Mismatch ELSE Store
  /\ UNCHANGED <<host, wire, cur_seq_no, frag, room, queue, pserial, history>>

RxFinish ==
  /\ rx = "finish"
  /\ valid' = TRUE /\ copy' = data /\ rx' = "post"
  /\ UNCHANGED <<host, wire, data, cur_seq_no, frag, room, queue, pserial, history>>

\* Mutant of RxPost: the task does not wait for room in the queue.
RxPostOrDrop ==
  /\ rx = "post" /\ rx' = "read"
  /\ queue' = IF Len(queue) < QMax THEN Append(queue, Ask(copy)) ELSE queue
  /\ UNCHANGED <<host, wire, r, frag, room, copy, pserial, history>>

\* protocomm_pserial_data_ready
RxPost ==
  /\ rx = "post" /\ rx' = "read"
  /\ Post(Ask(copy))
  /\ UNCHANGED <<host, wire, r, frag, room, copy, pserial, history>>

\* There is no memory for the copy: r stays valid, and nobody will empty it.
RxNoMemory ==
  /\ rx = "post" /\ rx' = "read"
  /\ copy # <<>>
  /\ failed' = TRUE
  /\ UNCHANGED <<host, wire, r, frag, room, copy, queue, pserial, events, restarts>>

RecvTask == RxRead \/ RxOpen \/ RxStore \/ RxFinish \/ RxPost

-----------------------------------------------------------------------------
(* pserial_task                                                             *)

\* An event is packed and sent at once; a request waits for serial_read_data.
PsTake ==
  /\ ps = "take" /\ queue # <<>>
  /\ queue' = Tail(queue)
  /\ IF Head(queue).event
       THEN UNCHANGED <<ps, arg>>
       ELSE ps' = "recv" /\ arg' = Head(queue).text
  /\ UNCHANGED <<host, wire, r, recv, handled, answered, history>>

Length == IF Len(arg) < Len(data) THEN Len(arg) ELSE Len(data)

\* Mutant of PsRecv: r is read but not released.
PsRecvKeepsValid ==
  /\ ps = "recv" /\ ps' = "len"
  /\ arg' = SubSeq(data, 1, Length)
  /\ UNCHANGED <<host, wire, r, recv, queue, handled, answered, history>>

\* serial_read_data as far as r.valid = 0; without data to read, the length
\* is returned all the same.
PsRecv ==
  /\ ps = "recv"
  /\ IF valid
       THEN arg' = SubSeq(data, 1, Length) /\ valid' = FALSE /\ ps' = "len"
       ELSE arg' = SubSeq(arg, 1, Length) /\ ps' = "handle" /\ UNCHANGED valid
  /\ UNCHANGED <<host, wire, data, cur_seq_no, recv, queue, handled, answered, history>>

\* Mutant of PsClearLen: r.len keeps its value.
PsClearLenNot ==
  /\ ps = "len" /\ ps' = "seq"
  /\ UNCHANGED <<host, wire, r, recv, queue, arg, handled, answered, history>>

\* r.len = 0
PsClearLen ==
  /\ ps = "len" /\ ps' = "seq"
  /\ data' = <<>>
  /\ UNCHANGED <<host, wire, valid, cur_seq_no, recv, queue, arg, handled, answered, history>>

\* r.cur_seq_no = 0
PsClearSeq ==
  /\ ps = "seq" /\ ps' = "handle"
  /\ cur_seq_no' = 0
  /\ UNCHANGED <<host, wire, valid, data, recv, queue, arg, handled, answered, history>>

Whole(text) == \E n \in DOMAIN sent : text = sent[n]

\* Nothing was read, or the request cannot be unpacked, or memory is out.  A
\* truncated request is read past its end, and may be taken for one by accident.
PsRefuse ==
  /\ ps = "handle" /\ ps' = "take"
  /\ failed' = (failed \/ Whole(arg))
  /\ UNCHANGED <<host, wire, r, recv, queue, arg, handled, answered, events, restarts>>

\* The handler may announce up to two events (req_wifi_start) by itself.
PsHandle ==
  /\ ps = "handle" /\ arg # <<>>
  /\ handled' = Append(handled, arg)
  /\ ps' \in {"answer", "post1", "post2"}
  /\ UNCHANGED <<host, wire, r, recv, queue, arg, answered, history>>

PsPostOwn ==
  /\ \/ ps = "post2" /\ ps' = "post1"
     \/ ps = "post1" /\ ps' = "answer"
  /\ Post(Event)
  /\ UNCHANGED <<host, wire, r, recv, arg, handled, answered, history>>

\* compose_tlv and serial_write_data
PsAnswer ==
  /\ ps = "answer" /\ ps' = "take"
  /\ waiting' = waiting \ {Request(arg[1])}
  /\ answered' = answered + 1
  /\ UNCHANGED <<sent, wire, r, recv, queue, arg, handled, history>>

PsAnswerLost ==
  /\ ps = "answer" /\ ps' = "take"
  /\ failed' = TRUE
  /\ UNCHANGED <<host, wire, r, recv, queue, arg, handled, answered, events, restarts>>

PserialTask ==
  \/ PsTake \/ PsRecv \/ PsClearLen \/ PsClearSeq \/ PsRefuse \/ PsHandle
  \/ PsPostOwn \/ PsAnswer

-----------------------------------------------------------------------------
Failure == RxNoMemory \/ PsAnswerLost

Next == HostSends \/ HostRestarts \/ EventPosted \/ RecvTask \/ PserialTask \/ Failure

Spec == Init /\ [][Next]_vars

\* The kernel runs a ready task; the host and the radio owe nothing, and no
\* failure has to happen.
FairSpec == Spec /\ WF_vars(RecvTask) /\ WF_vars(PserialTask)

-----------------------------------------------------------------------------
(* A host that awaits each answer: Window = 1.                              *)

\* process_serial_rx_pkt, serial_read_data and rpc_req_handler: a request in
\* fragments reaches its handler whole, once and in order, whatever the queue
\* holds and whichever task is interrupted where.
Channel == INSTANCE RpcChannel WITH Messages <- {Message(n, k) : n \in 1 .. MaxRequests, k \in 1 .. MaxFrags}
ImplementsRpcChannel == Channel!Spec

\* pserial_task in a handler, posting to its own full queue: nobody empties it.
Stuck == ps \in {"post1", "post2"} /\ Len(queue) = QMax

\* pserial_task: as long as nothing fails and it does not wait on its own queue
\* for ever, each request gets an answer, though tasks wait for r and for room.
AnsweredOrStuck == \A n \in 1 .. MaxRequests : n \in waiting ~> n \notin waiting \/ Stuck \/ failed

-----------------------------------------------------------------------------
(* A host that does not: Window > 1.  The buffer may be refilled while it   *)
(* is being emptied, so a request may be lost, cut or split.                *)

\* process_serial_rx_pkt: the sequence number keeps requests apart; a handler
\* never sees parts of two, nor parts out of order.
OneRequestPerMessage ==
  \A m \in DOMAIN handled : \A i \in 2 .. Len(handled[m]) :
    /\ Request(handled[m][i]) = Request(handled[m][1])
    /\ handled[m][i - 1][2] < handled[m][i][2]

Before(p, q) == p[1] < q[1] \/ (p[1] = q[1] /\ p[2] < q[2])

\* serial_read_data: however its stores interleave with recv_task, no part of
\* a request is handled twice, nor after a later part.
PartsOnceInOrder ==
  \A m \in 2 .. Len(handled) :
    Before(handled[m - 1][Len(handled[m - 1])], handled[m][1])

Asks == {i \in DOMAIN queue : ~queue[i].event}

\* process_serial_rx_pkt, pserial_task: a request in the queue stands for a
\* valid r, and never more than one does, so serial_read_data always finds data.
QueuedRequestHoldsBuffer ==
  /\ Asks # {} \/ ps = "recv" => valid
  /\ \A i, j \in Asks : i = j
  /\ ps = "recv" => Asks = {}

\* recv_task: unless something fails the loop on r.valid ends, even after cut and
\* split requests, so other traffic is not held up for ever.
BufferComesFree == valid ~> ~valid \/ Stuck \/ failed
=============================================================================
