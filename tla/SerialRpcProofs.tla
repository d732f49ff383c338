-------------------------- MODULE SerialRpcProofs --------------------------
(***************************************************************************)
(* Theorems about SerialRpc, for every buffer and queue size, window and   *)
(* bound: the types, the discipline of the unlocked buffer r, the order of *)
(* the parts that the handlers see; and, for a host that awaits each       *)
(* answer, that the link is the abstract channel.                          *)
(***************************************************************************)
EXTENDS SerialRpc, Integers, FiniteSetTheorems, SequenceTheorems, TLAPS

\* The constants are natural numbers of the expected sign.
LEMMA ConstantsAreNat ==
  /\ BufSize \in Nat /\ BufSize >= 1 /\ QMax \in Nat /\ QMax >= 1
  /\ MaxFrags \in Nat /\ MaxFrags >= 1 /\ MaxRequests \in Nat /\ MaxRequests >= 1
  /\ MaxEvents \in Nat /\ MaxRestarts \in Nat
  BY SerialRpcAssumption

(***************************************************************************)
(* What the invariants lean on.  While recv_task may store, r is not       *)
(* valid, so no request is queued or being read; and rem_buff_size, though *)
(* stale, is never more than the room there is, since others only empty r. *)
(***************************************************************************)
RoomIsThere == rx \in {"open", "store"} => room + Len(data) <= BufSize

StoresWhenInvalid == rx \in {"store", "finish"} => ~valid

PostsWhenAlone == rx = "post" => valid /\ Asks = {} /\ ps # "recv"

AnswersHandled == ps \in {"post2", "post1", "answer"} => answered < Len(handled)

Inv ==
  /\ TypeOK /\ QueuedRequestHoldsBuffer
  /\ RoomIsThere /\ StoresWhenInvalid /\ PostsWhenAlone /\ AnswersHandled

-----------------------------------------------------------------------------
(* The queue.                                                               *)

Items == [event : BOOLEAN, text : Texts]

\* An event at the end of the queue adds no request to it.
LEMMA AppendEvent ==
  ASSUME NEW q \in Seq(Items)
  PROVE  /\ Append(q, Event) \in Seq(Items)
         /\ Len(Append(q, Event)) = Len(q) + 1
         /\ {i \in DOMAIN Append(q, Event) : ~Append(q, Event)[i].event}
              = {i \in DOMAIN q : ~q[i].event}
<1>1. Event \in Items /\ Event.event
  BY DEF Event, Items, Texts
<1>2. Append(q, Event) \in Seq(Items) /\ Len(Append(q, Event)) = Len(q) + 1
  BY <1>1
<1>3. \A i \in 1 .. Len(q) : Append(q, Event)[i] = q[i]
  OBVIOUS
<1>4. Append(q, Event)[Len(q) + 1] = Event
  OBVIOUS
<1>5. DOMAIN Append(q, Event) = 1 .. Len(q) + 1 /\ DOMAIN q = 1 .. Len(q) /\ Len(q) \in Nat
  BY <1>2
<1>6. QED
  BY <1>1, <1>2, <1>3, <1>4, <1>5

\* A request at the end of a queue of events is the only one.
LEMMA AppendAsk ==
  ASSUME NEW q \in Seq(Items), NEW text \in Texts, {i \in DOMAIN q : ~q[i].event} = {}
  PROVE  /\ Append(q, Ask(text)) \in Seq(Items)
         /\ Len(Append(q, Ask(text))) = Len(q) + 1
         /\ {i \in DOMAIN Append(q, Ask(text)) : ~Append(q, Ask(text))[i].event} = {Len(q) + 1}
<1> DEFINE n == Append(q, Ask(text))
<1>1. Ask(text) \in Items /\ ~Ask(text).event
  BY DEF Ask, Items
<1>2. n \in Seq(Items) /\ Len(n) = Len(q) + 1
  BY <1>1
<1>3. \A i \in 1 .. Len(q) : n[i] = q[i]
  OBVIOUS
<1>4. n[Len(q) + 1] = Ask(text)
  OBVIOUS
<1>5. DOMAIN n = 1 .. Len(q) + 1 /\ DOMAIN q = 1 .. Len(q) /\ Len(q) \in Nat
  BY <1>2
<1>6. QED
  BY <1>1, <1>2, <1>3, <1>4, <1>5

\* Without its head the queue holds the same requests, one place nearer.
LEMMA TailAsks ==
  ASSUME NEW q \in Seq(Items), q # <<>>
  PROVE  /\ Tail(q) \in Seq(Items) /\ Head(q) \in Items
         /\ Len(Tail(q)) = Len(q) - 1 /\ Len(q) \in Nat
         /\ \A i \in DOMAIN Tail(q) : i + 1 \in DOMAIN q /\ Tail(q)[i] = q[i + 1]
         /\ 1 \in DOMAIN q /\ q[1] = Head(q)
  OBVIOUS

-----------------------------------------------------------------------------
(* The first state.                                                         *)

LEMMA EmptyIsSequence == \A S : <<>> \in Seq(S) /\ Len(<<>>) = 0
  OBVIOUS

LEMMA InitInv == Init => Inv
<1> SUFFICES ASSUME Init PROVE Inv
  OBVIOUS
<1> USE ConstantsAreNat DEF Init
<1>1. <<1, 1>> \in Parts
  BY DEF Parts
<1>2. TypeOK
  <2>1. sent \in Seq(Texts) /\ Len(sent) = 0
    BY EmptyIsSequence
  <2>2. wire \in Seq(Fragments) /\ frag \in Fragments
    BY <1>1, EmptyIsSequence DEF Fragments
  <2>3. data \in Texts /\ Len(data) = 0 /\ copy \in Texts /\ arg \in Texts
    BY EmptyIsSequence DEF Texts
  <2>4. queue \in Seq([event : BOOLEAN, text : Texts]) /\ Len(queue) = 0
    BY EmptyIsSequence
  <2>5. handled \in Seq(Texts) /\ Len(handled) = 0
    BY EmptyIsSequence
  <2> HIDE DEF Init
  <2>6. valid \in BOOLEAN /\ failed \in BOOLEAN
    BY DEF Init
  <2>7. /\ waiting \subseteq 1 .. Len(sent) /\ cur_seq_no \in 0 .. MaxRequests
        /\ room \in 0 .. BufSize /\ answered \in 0 .. Len(handled)
        /\ events \in 0 .. MaxEvents /\ restarts \in 0 .. MaxRestarts
    BY <2>1, <2>5 DEF Init
  <2>8. /\ rx \in {"read", "open", "store", "finish", "post"}
        /\ ps \in {"take", "recv", "len", "seq", "handle", "post2", "post1", "answer"}
    BY DEF Init
  <2>9. Len(sent) <= MaxRequests /\ Len(data) <= BufSize /\ Len(queue) <= QMax
    BY <2>1, <2>3, <2>4
  <2>10. QED
    BY <2>1, <2>2, <2>3, <2>4, <2>5, <2>6, <2>7, <2>8, <2>9 DEF TypeOK
<1>3. Asks = {}
  BY DEF Asks
<1>4. QED
  BY <1>2, <1>3 DEF Inv, QueuedRequestHoldsBuffer, RoomIsThere, StoresWhenInvalid,
     PostsWhenAlone, AnswersHandled

-----------------------------------------------------------------------------
(* The environment.                                                         *)

\* A message and its fragments have their types.
LEMMA MessageTyped ==
  ASSUME NEW n \in 1 .. MaxRequests, NEW k \in 1 .. MaxFrags
  PROVE  /\ Message(n, k) \in Texts
         /\ [i \in 1 .. k |-> [part |-> <<n, i>>, more |-> i < k]] \in Seq(Fragments)
<1>1. k \in Nat /\ \A i \in 1 .. k : <<n, i>> \in Parts
  BY ConstantsAreNat DEF Parts
<1>2. Message(n, k) \in [1 .. k -> Parts]
  BY <1>1 DEF Message
<1>3. [i \in 1 .. k |-> [part |-> <<n, i>>, more |-> i < k]] \in [1 .. k -> Fragments]
  BY <1>1 DEF Fragments
<1>4. QED
  BY <1>1, <1>2, <1>3 DEF Texts

LEMMA HostSendsInv == Inv /\ HostSends => Inv'
<1> SUFFICES ASSUME Inv, HostSends PROVE Inv'
  OBVIOUS
<1> USE ConstantsAreNat DEF HostSends, host, r, recv, pserial, history
<1>1. PICK k \in 1 .. MaxFrags :
        LET n == Len(sent) + 1
        IN /\ sent' = Append(sent, Message(n, k))
           /\ waiting' = waiting \cup {n}
           /\ wire' = wire \o [i \in 1 .. k |-> [part |-> <<n, i>>, more |-> i < k]]
  OBVIOUS
<1> DEFINE n == Len(sent) + 1
           fragments == [i \in 1 .. k |-> [part |-> <<n, i>>, more |-> i < k]]
<1>2. sent \in Seq(Texts) /\ wire \in Seq(Fragments) /\ waiting \subseteq 1 .. Len(sent)
  BY DEF Inv, TypeOK
<1>3. n \in 1 .. MaxRequests
  BY <1>2
<1>4. Message(n, k) \in Texts /\ fragments \in Seq(Fragments)
  BY <1>3, MessageTyped
<1> HIDE DEF fragments
<1>5. sent' \in Seq(Texts) /\ Len(sent') = n /\ wire' \in Seq(Fragments)
  <2>1. sent' = Append(sent, Message(n, k)) /\ wire' = wire \o fragments
    BY <1>1 DEF fragments
  <2>2. wire \o fragments \in Seq(Fragments)
    BY <1>2, <1>4
  <2>3. Append(sent, Message(n, k)) \in Seq(Texts) /\ Len(Append(sent, Message(n, k))) = n
    BY <1>2, <1>4
  <2>4. QED
    BY <2>1, <2>2, <2>3
<1>6. waiting' \subseteq 1 .. Len(sent')
  BY <1>1, <1>2, <1>3, <1>5
<1>7. TypeOK'
  BY <1>3, <1>5, <1>6 DEF Inv, TypeOK
<1>8. Asks' = Asks
  BY DEF Asks
<1>9. QED
  BY <1>7, <1>8 DEF Inv, QueuedRequestHoldsBuffer, RoomIsThere, StoresWhenInvalid,
     PostsWhenAlone, AnswersHandled

LEMMA HostRestartsInv == Inv /\ HostRestarts => Inv'
<1> SUFFICES ASSUME Inv, HostRestarts PROVE Inv'
  OBVIOUS
<1> USE ConstantsAreNat DEF HostRestarts, r, recv, pserial
<1>1. wire' \in Seq(Fragments)
  <2>1. PICK k \in 0 .. Len(wire) : wire' = SubSeq(wire, 1, k)
    OBVIOUS
  <2>2. wire \in Seq(Fragments)
    BY DEF Inv, TypeOK
  <2>3. QED
    BY <2>1, <2>2
<1>2. TypeOK'
  BY <1>1 DEF Inv, TypeOK
<1>3. Asks' = Asks
  BY DEF Asks
<1>4. QED
  BY <1>2, <1>3 DEF Inv, QueuedRequestHoldsBuffer, RoomIsThere, StoresWhenInvalid,
     PostsWhenAlone, AnswersHandled

LEMMA EventPostedInv == Inv /\ EventPosted => Inv'
<1> SUFFICES ASSUME Inv, EventPosted PROVE Inv'
  OBVIOUS
<1> USE ConstantsAreNat DEF EventPosted, Post, host, r, recv, pserial
<1>1. queue \in Seq(Items) /\ queue' = Append(queue, Event) /\ Len(queue) < QMax
  BY DEF Inv, TypeOK, Items
<1>2. queue' \in Seq(Items) /\ Len(queue') = Len(queue) + 1 /\ Asks' = Asks
  BY <1>1, AppendEvent DEF Asks
<1>3. TypeOK'
  BY <1>1, <1>2 DEF Inv, TypeOK, Items
<1>4. QED
  BY <1>2, <1>3 DEF Inv, QueuedRequestHoldsBuffer, RoomIsThere, StoresWhenInvalid,
     PostsWhenAlone, AnswersHandled

-----------------------------------------------------------------------------
(* recv_task                                                                *)

LEMMA RxReadInv == Inv /\ RxRead => Inv'
<1> SUFFICES ASSUME Inv, RxRead PROVE Inv'
  OBVIOUS
<1> USE ConstantsAreNat DEF RxRead, host, r, pserial, history
<1>1. wire \in Seq(Fragments) /\ data \in Texts /\ Len(data) <= BufSize
  BY DEF Inv, TypeOK
<1>2. Head(wire) \in Fragments /\ Tail(wire) \in Seq(Fragments) /\ Len(data) \in Nat
  BY <1>1 DEF Texts
<1>3. room' \in 0 .. BufSize /\ room' + Len(data') <= BufSize
  BY <1>1, <1>2
<1>4. TypeOK'
  BY <1>1, <1>2, <1>3 DEF Inv, TypeOK
<1>5. Asks' = Asks
  BY DEF Asks
<1>6. QED
  BY <1>3, <1>4, <1>5 DEF Inv, QueuedRequestHoldsBuffer, RoomIsThere, StoresWhenInvalid,
     PostsWhenAlone, AnswersHandled

LEMMA RxOpenInv == Inv /\ RxOpen => Inv'
<1> SUFFICES ASSUME Inv, RxOpen PROVE Inv'
  OBVIOUS
<1> USE ConstantsAreNat DEF RxOpen, host, r, pserial, history
<1>1. cur_seq_no' \in 0 .. MaxRequests
  BY DEF Inv, TypeOK, Fragments, Parts, Request
<1>2. TypeOK'
  BY <1>1 DEF Inv, TypeOK
<1>3. Asks' = Asks
  BY DEF Asks
<1>4. QED
  BY <1>2, <1>3 DEF Inv, QueuedRequestHoldsBuffer, RoomIsThere, StoresWhenInvalid,
     PostsWhenAlone, AnswersHandled

\* Both ways of ending: r turns valid with no other request about.
LEMMA RxStoreInv == Inv /\ RxStore => Inv'
<1> SUFFICES ASSUME Inv, RxStore PROVE Inv'
  OBVIOUS
<1> USE ConstantsAreNat DEF RxStore, host, pserial, history
<1>1. /\ ~valid /\ Asks = {} /\ ps # "recv" /\ Asks' = Asks
      /\ room + Len(data) <= BufSize
  BY DEF Inv, QueuedRequestHoldsBuffer, RoomIsThere, StoresWhenInvalid,
     PostsWhenAlone, AnswersHandled, Asks
<1>2. data \in Seq(Parts) /\ Len(data) \in Nat /\ frag.part \in Parts /\ room \in 0 .. BufSize
  BY DEF Inv, TypeOK, Texts, Fragments
<1>3. CASE Mismatch
  <2>1. TypeOK'
    BY <1>3 DEF Inv, TypeOK, Mismatch
  <2>2. QED
    BY <1>1, <1>3, <2>1 DEF Inv, QueuedRequestHoldsBuffer, RoomIsThere, StoresWhenInvalid,
     PostsWhenAlone, AnswersHandled, Mismatch
<1>4. CASE Store
  <2>1. data' \in Texts /\ Len(data') <= BufSize
    <3>1. CASE room > 0
      BY <1>1, <1>2, <1>4, <3>1 DEF Store, Texts
    <3>2. CASE ~(room > 0)
      BY <1>1, <1>2, <1>4, <3>2 DEF Store, Texts
    <3>3. QED
      BY <3>1, <3>2
  <2>2. TypeOK'
    BY <1>4, <2>1 DEF Inv, TypeOK, Store
  <2>3. QED
    BY <1>1, <1>4, <2>2 DEF Inv, QueuedRequestHoldsBuffer, RoomIsThere, StoresWhenInvalid,
     PostsWhenAlone, AnswersHandled, Store
<1>5. QED
  BY <1>3, <1>4

LEMMA RxFinishInv == Inv /\ RxFinish => Inv'
<1> SUFFICES ASSUME Inv, RxFinish PROVE Inv'
  OBVIOUS
<1> USE ConstantsAreNat DEF RxFinish, host, pserial, history
<1>1. ~valid /\ Asks = {} /\ ps # "recv" /\ Asks' = Asks
  BY DEF Inv, QueuedRequestHoldsBuffer, RoomIsThere, StoresWhenInvalid,
     PostsWhenAlone, AnswersHandled, Asks
<1>2. TypeOK'
  BY DEF Inv, TypeOK
<1>3. QED
  BY <1>1, <1>2 DEF Inv, QueuedRequestHoldsBuffer, RoomIsThere, StoresWhenInvalid,
     PostsWhenAlone, AnswersHandled

LEMMA RxPostInv == Inv /\ RxPost => Inv'
<1> SUFFICES ASSUME Inv, RxPost PROVE Inv'
  OBVIOUS
<1> USE ConstantsAreNat DEF RxPost, Post, host, r, pserial, history
<1>1. valid /\ Asks = {} /\ ps # "recv"
  BY DEF Inv, PostsWhenAlone
<1>2. /\ queue \in Seq(Items) /\ queue' = Append(queue, Ask(copy)) /\ Len(queue) < QMax
      /\ copy \in Texts
  BY DEF Inv, TypeOK, Items
<1>3. queue' \in Seq(Items) /\ Len(queue') = Len(queue) + 1 /\ Asks' = {Len(queue) + 1}
  BY <1>1, <1>2, AppendAsk DEF Asks
<1>4. TypeOK'
  BY <1>2, <1>3 DEF Inv, TypeOK, Items
<1>5. QED
  BY <1>1, <1>3, <1>4 DEF Inv, QueuedRequestHoldsBuffer, RoomIsThere, StoresWhenInvalid,
     PostsWhenAlone, AnswersHandled

LEMMA RxNoMemoryInv == Inv /\ RxNoMemory => Inv'
<1> SUFFICES ASSUME Inv, RxNoMemory PROVE Inv'
  OBVIOUS
<1> USE ConstantsAreNat DEF RxNoMemory, host, r, pserial
<1>1. TypeOK'
  BY DEF Inv, TypeOK
<1>2. Asks' = Asks
  BY DEF Asks
<1>3. QED
  BY <1>1, <1>2 DEF Inv, QueuedRequestHoldsBuffer, RoomIsThere, StoresWhenInvalid,
     PostsWhenAlone, AnswersHandled

-----------------------------------------------------------------------------
(* pserial_task                                                             *)

LEMMA PsTakeInv == Inv /\ PsTake => Inv'
<1> SUFFICES ASSUME Inv, PsTake PROVE Inv'
  OBVIOUS
<1> USE ConstantsAreNat DEF PsTake, host, r, recv, history
<1>1. queue \in Seq(Items) /\ queue # <<>> /\ queue' = Tail(queue) /\ Len(queue) <= QMax
  BY DEF Inv, TypeOK, Items
<1>2. /\ queue' \in Seq(Items) /\ Head(queue) \in Items
      /\ Len(queue') = Len(queue) - 1 /\ Len(queue) \in Nat
      /\ \A i \in DOMAIN queue' : i + 1 \in DOMAIN queue /\ queue'[i] = queue[i + 1]
      /\ 1 \in DOMAIN queue /\ queue[1] = Head(queue)
  BY <1>1, TailAsks
<1>3. DOMAIN queue' \subseteq Nat \ {0} /\ DOMAIN queue \subseteq Nat \ {0}
  BY <1>1, <1>2
<1>4. \A i \in Asks' : i \in Nat \ {0} /\ i + 1 \in Asks
  BY <1>2, <1>3 DEF Asks
<1>5. \A i, j \in Asks : i = j
  BY DEF Inv, QueuedRequestHoldsBuffer
<1>6. \A i, j \in Asks' : i = j
  BY <1>4, <1>5
<1>7. CASE Head(queue).event
  <2>1. TypeOK'
    BY <1>1, <1>2, <1>7 DEF Inv, TypeOK, Items
  <2>2. Asks = {} => Asks' = {}
    BY <1>4
  <2>3. QED
    BY <1>6, <1>7, <2>1, <2>2 DEF Inv, QueuedRequestHoldsBuffer, RoomIsThere,
         StoresWhenInvalid,
     PostsWhenAlone, AnswersHandled
<1>8. CASE ~Head(queue).event
  <2>1. 1 \in Asks
    BY <1>2, <1>8 DEF Asks
  <2>2. Asks' = {}
    BY <1>4, <1>5, <2>1
  <2>3. valid /\ rx # "post"
    BY <2>1 DEF Inv, QueuedRequestHoldsBuffer, RoomIsThere, StoresWhenInvalid,
     PostsWhenAlone, AnswersHandled
  <2>4. Head(queue).text \in Texts
    BY <1>2 DEF Items
  <2>5. TypeOK'
    BY <1>1, <1>2, <1>8, <2>4 DEF Inv, TypeOK, Items
  <2>6. QED
    BY <1>8, <2>2, <2>3, <2>5 DEF Inv, QueuedRequestHoldsBuffer, RoomIsThere,
         StoresWhenInvalid,
     PostsWhenAlone, AnswersHandled
<1>9. QED
  BY <1>7, <1>8

LEMMA PsRecvInv == Inv /\ PsRecv => Inv'
<1> SUFFICES ASSUME Inv, PsRecv PROVE Inv'
  OBVIOUS
<1> USE ConstantsAreNat DEF PsRecv, host, recv, history
<1>1. valid /\ Asks = {} /\ rx # "post" /\ Asks' = Asks
  BY DEF Inv, QueuedRequestHoldsBuffer, RoomIsThere, StoresWhenInvalid,
     PostsWhenAlone, AnswersHandled, Asks
<1>2. arg' = SubSeq(data, 1, Length) /\ valid' = FALSE /\ ps' = "len"
  BY <1>1
<1>3. data \in Seq(Parts) /\ arg \in Seq(Parts)
  BY DEF Inv, TypeOK, Texts
<1>4. Length \in 0 .. Len(data)
  BY <1>3 DEF Length
<1>5. SubSeq(data, 1, Length) \in Texts
  BY <1>3, <1>4 DEF Texts
<1>6. TypeOK'
  BY <1>2, <1>5 DEF Inv, TypeOK
<1>7. QED
  BY <1>1, <1>2, <1>6 DEF Inv, QueuedRequestHoldsBuffer, RoomIsThere, StoresWhenInvalid,
     PostsWhenAlone, AnswersHandled

LEMMA PsClearLenInv == Inv /\ PsClearLen => Inv'
<1> SUFFICES ASSUME Inv, PsClearLen PROVE Inv'
  OBVIOUS
<1> USE ConstantsAreNat DEF PsClearLen, host, recv, history
<1>1. data' \in Texts /\ Len(data') = 0
  BY EmptyIsSequence DEF Texts
<1>2. room \in 0 .. BufSize
  BY DEF Inv, TypeOK
<1>3. TypeOK'
  BY <1>1 DEF Inv, TypeOK
<1>4. Asks' = Asks
  BY DEF Asks
<1>5. QED
  BY <1>1, <1>2, <1>3, <1>4 DEF Inv, QueuedRequestHoldsBuffer, RoomIsThere,
       StoresWhenInvalid,
     PostsWhenAlone, AnswersHandled

LEMMA PsClearSeqInv == Inv /\ PsClearSeq => Inv'
<1> SUFFICES ASSUME Inv, PsClearSeq PROVE Inv'
  OBVIOUS
<1> USE ConstantsAreNat DEF PsClearSeq, host, recv, history
<1>1. TypeOK'
  BY DEF Inv, TypeOK
<1>2. Asks' = Asks
  BY DEF Asks
<1>3. QED
  BY <1>1, <1>2 DEF Inv, QueuedRequestHoldsBuffer, RoomIsThere, StoresWhenInvalid,
     PostsWhenAlone, AnswersHandled

LEMMA PsRefuseInv == Inv /\ PsRefuse => Inv'
<1> SUFFICES ASSUME Inv, PsRefuse PROVE Inv'
  OBVIOUS
<1> USE ConstantsAreNat DEF PsRefuse, host, r, recv
<1>1. failed' \in BOOLEAN
  OBVIOUS
<1>2. TypeOK'
  BY <1>1 DEF Inv, TypeOK
<1>3. Asks' = Asks
  BY DEF Asks
<1>4. QED
  BY <1>2, <1>3 DEF Inv, QueuedRequestHoldsBuffer, RoomIsThere, StoresWhenInvalid,
     PostsWhenAlone, AnswersHandled

LEMMA PsHandleInv == Inv /\ PsHandle => Inv'
<1> SUFFICES ASSUME Inv, PsHandle PROVE Inv'
  OBVIOUS
<1> USE ConstantsAreNat DEF PsHandle, host, r, recv, history
<1>1. handled \in Seq(Texts) /\ arg \in Texts /\ answered \in 0 .. Len(handled)
  BY DEF Inv, TypeOK
<1>2. handled' \in Seq(Texts) /\ Len(handled') = Len(handled) + 1 /\ Len(handled) \in Nat
  BY <1>1
<1>3. TypeOK'
  BY <1>1, <1>2 DEF Inv, TypeOK
<1>4. Asks' = Asks
  BY DEF Asks
<1>5. QED
  BY <1>1, <1>2, <1>3, <1>4 DEF Inv, QueuedRequestHoldsBuffer, RoomIsThere,
       StoresWhenInvalid,
     PostsWhenAlone, AnswersHandled

LEMMA PsPostOwnInv == Inv /\ PsPostOwn => Inv'
<1> SUFFICES ASSUME Inv, PsPostOwn PROVE Inv'
  OBVIOUS
<1> USE ConstantsAreNat DEF PsPostOwn, Post, host, r, recv, history
<1>1. queue \in Seq(Items) /\ queue' = Append(queue, Event) /\ Len(queue) < QMax
  BY DEF Inv, TypeOK, Items
<1>2. queue' \in Seq(Items) /\ Len(queue') = Len(queue) + 1 /\ Asks' = Asks
  BY <1>1, AppendEvent DEF Asks
<1>3. TypeOK'
  BY <1>1, <1>2 DEF Inv, TypeOK, Items
<1>4. QED
  BY <1>2, <1>3 DEF Inv, QueuedRequestHoldsBuffer, RoomIsThere, StoresWhenInvalid,
     PostsWhenAlone, AnswersHandled

LEMMA PsAnswerInv == Inv /\ PsAnswer => Inv'
<1> SUFFICES ASSUME Inv, PsAnswer PROVE Inv'
  OBVIOUS
<1> USE ConstantsAreNat DEF PsAnswer, host, r, recv, history
<1>1. handled \in Seq(Texts) /\ answered \in 0 .. Len(handled) /\ answered < Len(handled)
  BY DEF Inv, TypeOK, AnswersHandled
<1>2. answered' \in 0 .. Len(handled)
  BY <1>1
<1>3. TypeOK'
  BY <1>2 DEF Inv, TypeOK
<1>4. Asks' = Asks
  BY DEF Asks
<1>5. QED
  BY <1>2, <1>3, <1>4 DEF Inv, QueuedRequestHoldsBuffer, RoomIsThere, StoresWhenInvalid,
     PostsWhenAlone, AnswersHandled

LEMMA PsAnswerLostInv == Inv /\ PsAnswerLost => Inv'
<1> SUFFICES ASSUME Inv, PsAnswerLost PROVE Inv'
  OBVIOUS
<1> USE ConstantsAreNat DEF PsAnswerLost, host, r, recv
<1>1. TypeOK'
  BY DEF Inv, TypeOK
<1>2. Asks' = Asks
  BY DEF Asks
<1>3. QED
  BY <1>1, <1>2 DEF Inv, QueuedRequestHoldsBuffer, RoomIsThere, StoresWhenInvalid,
     PostsWhenAlone, AnswersHandled

LEMMA StutterInv == Inv /\ UNCHANGED vars => Inv'
<1> SUFFICES ASSUME Inv, UNCHANGED vars PROVE Inv'
  OBVIOUS
<1> USE DEF vars, host, r, recv, pserial, history
<1>1. TypeOK' /\ Asks' = Asks
  BY DEF Inv, TypeOK, Asks
<1>2. QED
  BY <1>1 DEF Inv, QueuedRequestHoldsBuffer, RoomIsThere, StoresWhenInvalid,
     PostsWhenAlone, AnswersHandled

-----------------------------------------------------------------------------
(* The theorems.                                                            *)

LEMMA InvIsInvariant == Spec => []Inv
<1>1. Inv /\ [Next]_vars => Inv'
  BY HostSendsInv, HostRestartsInv, EventPostedInv, RxReadInv, RxOpenInv, RxStoreInv,
     RxFinishInv, RxPostInv, RxNoMemoryInv, PsTakeInv, PsRecvInv, PsClearLenInv,
     PsClearSeqInv, PsRefuseInv, PsHandleInv, PsPostOwnInv, PsAnswerInv,
     PsAnswerLostInv, StutterInv
     DEF Next, RecvTask, PserialTask, Failure
<1>2. QED
  BY InitInv, <1>1, PTL DEF Spec

\* Every variable keeps its type; with it r.len stays within r.data and
\* req_queue within its limit, though rem_buff_size is stale when it is used.
THEOREM TypeCorrect == Spec => []TypeOK
<1>1. Inv => TypeOK
  BY DEF Inv
<1>2. QED
  BY InvIsInvariant, <1>1, PTL

\* The unlocked buffer r is handed over as if it had a lock: a request that is
\* queued or being read is the only one, and r is valid for it.
THEOREM BufferHandedOver == Spec => []QueuedRequestHoldsBuffer
<1>1. Inv => QueuedRequestHoldsBuffer
  BY DEF Inv
<1>2. QED
  BY InvIsInvariant, <1>1, PTL

-----------------------------------------------------------------------------
(* The order of the parts of requests: those handled come before those in  *)
(* r, those before the fragment that recv_task has in hand, and that before *)
(* what the link still holds.  Emptying r while recv_task stores into it    *)
(* loses parts but exchanges none.                                          *)

In(s) == {s[i] : i \in DOMAIN s}
AllBefore(A, B) == \A p \in A, q \in B : Before(p, q)

\* Parts of one request, in order.
Tidy(s) ==
  /\ \A i, j \in DOMAIN s : Request(s[i]) = Request(s[j])
  /\ \A i, j \in DOMAIN s : i < j => Before(s[i], s[j])

PartsOn(w) == {w[i].part : i \in DOMAIN w}
InOrder(w) == \A i, j \in DOMAIN w : i < j => Before(w[i].part, w[j].part)

Unread == PartsOn(wire)
Opened == IF rx \in {"open", "store"} THEN {frag.part} ELSE {}
Rest == In(data) \cup Opened \cup Unread
Handled == UNION {In(handled[m]) : m \in DOMAIN handled}
Done == Handled \cup (IF ps \in {"seq", "handle"} THEN In(arg) ELSE {})

SentBefore == \A p \in Done \cup Rest : p \in Parts /\ Request(p) <= Len(sent)
WireInOrder == InOrder(wire)
StagesInOrder ==
  /\ AllBefore(Done, Rest)
  /\ AllBefore(In(data), Opened \cup Unread)
  /\ AllBefore(Opened, Unread)
DataTidy == Tidy(data) /\ (data # <<>> => cur_seq_no \in {0, Request(data[1])})
ArgTidy ==
  /\ ps \in {"len", "seq", "handle"} => Tidy(arg)
  /\ ps = "len" => In(arg) \subseteq In(data)
  /\ ps \in {"seq", "handle"} => AllBefore(Handled, In(arg))
HandledTidy ==
  /\ \A m \in DOMAIN handled : handled[m] # <<>> /\ Tidy(handled[m])
  /\ \A m, n \in DOMAIN handled : m < n => AllBefore(In(handled[m]), In(handled[n]))

Ordered ==
  SentBefore /\ WireInOrder /\ StagesInOrder /\ DataTidy /\ ArgTidy /\ HandledTidy

LEMMA InAppend ==
  ASSUME NEW S, NEW s \in Seq(S), NEW e \in S
  PROVE  In(Append(s, e)) = In(s) \cup {e}
<1>1. /\ Len(s) \in Nat /\ DOMAIN s = 1 .. Len(s)
      /\ DOMAIN Append(s, e) = 1 .. Len(s) + 1
      /\ \A i \in 1 .. Len(s) : Append(s, e)[i] = s[i]
      /\ Append(s, e)[Len(s) + 1] = e
  OBVIOUS
<1>2. \A i : i \in 1 .. Len(s) + 1 <=> i \in 1 .. Len(s) \/ i = Len(s) + 1
  BY <1>1
<1> DEFINE n == Len(s) + 1
           a == Append(s, e)
<1> HIDE DEF n, a
<1>3. /\ DOMAIN a = DOMAIN s \cup {n} /\ a[n] = e
      /\ \A i \in DOMAIN s : a[i] = s[i]
  BY <1>1, <1>2 DEF n, a
<1>4. In(a) = In(s) \cup {e}
  BY <1>3 DEF In
<1>5. QED
  BY <1>4 DEF a

LEMMA PrefixTidy ==
  ASSUME NEW s \in Seq(Parts), NEW n \in 0 .. Len(s), Tidy(s)
  PROVE  In(SubSeq(s, 1, n)) \subseteq In(s) /\ Tidy(SubSeq(s, 1, n))
<1> DEFINE t == SubSeq(s, 1, n)
<1>1. DOMAIN t \subseteq DOMAIN s /\ \A i \in DOMAIN t : t[i] = s[i]
  <2>1. Len(s) \in Nat /\ DOMAIN s = 1 .. Len(s) /\ n \in Nat /\ n <= Len(s)
    OBVIOUS
  <2>2. Len(t) = n /\ DOMAIN t = 1 .. n
    BY <2>1
  <2>3. \A i \in 1 .. n : t[i] = s[i]
    BY <2>1
  <2>4. QED
    BY <2>1, <2>2, <2>3
<1> HIDE DEF t
<1>2. In(t) \subseteq In(s) /\ Tidy(t)
  BY <1>1 DEF In, Tidy
<1>3. QED
  BY <1>2 DEF t

LEMMA AppendTidy ==
  ASSUME NEW s \in Seq(Parts), NEW e \in Parts, Tidy(s), AllBefore(In(s), {e}),
         s # <<>> => Request(s[1]) = Request(e)
  PROVE  Tidy(Append(s, e)) /\ Append(s, e)[1] = IF s = <<>> THEN e ELSE s[1]
<1> DEFINE n == Len(s) + 1
           a == Append(s, e)
<1>1. /\ Len(s) \in Nat /\ DOMAIN s = 1 .. Len(s)
      /\ DOMAIN a = 1 .. n /\ a[n] = e
      /\ \A i \in 1 .. Len(s) : a[i] = s[i]
  OBVIOUS
<1>2. s # <<>> => 1 \in DOMAIN s
  BY <1>1
<1> HIDE DEF a
<1>3. \A i \in DOMAIN a : i = n \/ (i \in DOMAIN s /\ i < n)
  <2>1. \A i \in 1 .. Len(s) + 1 : i = Len(s) + 1 \/ (i \in 1 .. Len(s) /\ i < Len(s) + 1)
    BY <1>1
  <2> HIDE DEF n
  <2>2. QED
    BY <1>1, <2>1 DEF n
<1>4. \A i \in DOMAIN s : Request(s[i]) = Request(e) /\ Before(s[i], e)
  <2>1. SUFFICES ASSUME NEW i \in DOMAIN s
                 PROVE  Request(s[i]) = Request(e) /\ Before(s[i], e)
    OBVIOUS
  <2>2. s # <<>>
    OBVIOUS
  <2>3. QED
    BY <1>2, <2>2 DEF Tidy, AllBefore, In
<1>5. \A i, j \in DOMAIN a : Request(a[i]) = Request(a[j])
  BY <1>1, <1>3, <1>4 DEF Tidy
<1>6. \A i, j \in DOMAIN a : i < j => Before(a[i], a[j])
  <2>1. SUFFICES ASSUME NEW i \in DOMAIN a, NEW j \in DOMAIN a, i < j
                 PROVE  Before(a[i], a[j])
    OBVIOUS
  <2>2. i # n /\ i \in DOMAIN s /\ a[i] = s[i]
    BY <1>1, <1>3, <2>1
  <2>3. CASE j = n
    BY <1>1, <1>4, <2>2, <2>3
  <2>4. CASE j # n
    BY <1>1, <1>3, <2>1, <2>2, <2>4 DEF Tidy
  <2>5. QED
    BY <2>3, <2>4
<1>7. a[1] = IF s = <<>> THEN e ELSE s[1]
  BY <1>1, <1>2
<1>8. QED
  BY <1>5, <1>6, <1>7 DEF Tidy, a

\* The head of the wire comes before the rest of it.
LEMMA WireHead ==
  ASSUME NEW w \in Seq(Fragments), w # <<>>
  PROVE  /\ {w[i].part : i \in DOMAIN w} = {Head(w).part} \cup {Tail(w)[i].part : i \in DOMAIN Tail(w)}
         /\ (\A i, j \in DOMAIN w : i < j => Before(w[i].part, w[j].part)) =>
              /\ \A i, j \in DOMAIN Tail(w) : i < j => Before(Tail(w)[i].part, Tail(w)[j].part)
              /\ \A i \in DOMAIN Tail(w) : Before(Head(w).part, Tail(w)[i].part)
<1> DEFINE t == Tail(w)
<1>1. /\ Len(w) \in Nat /\ Len(w) >= 1 /\ DOMAIN w = 1 .. Len(w) /\ Head(w) = w[1]
      /\ DOMAIN t = 1 .. Len(w) - 1 /\ \A i \in 1 .. Len(w) - 1 : t[i] = w[i + 1]
  OBVIOUS
<1> HIDE DEF t
<1>2. \A i \in DOMAIN t : i + 1 \in DOMAIN w /\ 1 < i + 1 /\ t[i] = w[i + 1] /\ i \in Nat
  BY <1>1
<1>3. \A i \in DOMAIN w : i = 1 \/ (i - 1 \in DOMAIN t /\ t[i - 1] = w[i])
  <2>1. SUFFICES ASSUME NEW i \in DOMAIN w, i # 1
                 PROVE  i - 1 \in DOMAIN t /\ t[i - 1] = w[i]
    OBVIOUS
  <2>2. i - 1 \in 1 .. Len(w) - 1 /\ (i - 1) + 1 = i
    BY <1>1, <2>1
  <2>3. QED
    BY <1>1, <2>2
<1>4. {w[i].part : i \in DOMAIN w} = {w[1].part} \cup {t[i].part : i \in DOMAIN t}
  <2>1. 1 \in DOMAIN w
    BY <1>1
  <2>2. QED
    BY <1>2, <1>3, <2>1
<1>5. ASSUME \A i, j \in DOMAIN w : i < j => Before(w[i].part, w[j].part)
      PROVE  /\ \A i, j \in DOMAIN t : i < j => Before(t[i].part, t[j].part)
             /\ \A i \in DOMAIN t : Before(w[1].part, t[i].part)
  <2>1. 1 \in DOMAIN w
    BY <1>1
  <2>2. \A i, j \in DOMAIN t : i < j => i + 1 < j + 1
    BY <1>2
  <2>3. QED
    BY <1>2, <1>5, <2>1, <2>2
<1>6. QED
  BY <1>1, <1>4, <1>5 DEF t

-----------------------------------------------------------------------------
(* The steps that leave the order alone: the queue, the semaphore-like      *)
(* flags and the answers.                                                   *)

\* What the ends of the link hold does not change; at most cur_seq_no is cleared,
\* and a pserial_task that had no text in hand still has none.
LEMMA Undisturbed ==
  ASSUME Ordered, UNCHANGED <<sent, wire, data, frag, handled>>, Opened' = Opened,
         cur_seq_no' \in {0, cur_seq_no},
         \/ ps' \notin {"len", "seq", "handle"}
         \/ UNCHANGED <<ps, arg>>
         \/ ps = "seq" /\ ps' = "handle" /\ arg' = arg
  PROVE  Ordered'
<1>1. Unread' = Unread /\ In(data)' = In(data) /\ Handled' = Handled /\ Rest' = Rest
  BY DEF Unread, Handled, Rest
<1>2. Done' \subseteq Done
  BY <1>1 DEF Done
<1>3. SentBefore' /\ WireInOrder' /\ StagesInOrder'
  BY <1>1, <1>2 DEF Ordered, SentBefore, WireInOrder, StagesInOrder, AllBefore
<1>4. DataTidy' /\ HandledTidy'
  BY DEF Ordered, DataTidy, HandledTidy
<1>5. ArgTidy'
  BY <1>1 DEF Ordered, ArgTidy
<1>6. QED
  BY <1>3, <1>4, <1>5 DEF Ordered

LEMMA EasySteps ==
  ASSUME Ordered, Inv,
         EventPosted \/ RxFinish \/ RxPost \/ RxNoMemory \/ PsTake \/ PsRefuse
           \/ PsPostOwn \/ PsAnswer \/ PsAnswerLost \/ PsClearSeq \/ UNCHANGED vars
  PROVE  Ordered'
<1> USE DEF host, r, recv, pserial, history
<1>1. CASE EventPosted
  BY <1>1, Undisturbed DEF EventPosted, Opened
<1>2. CASE RxFinish
  BY <1>2, Undisturbed DEF RxFinish, Opened
<1>3. CASE RxPost \/ RxNoMemory
  BY <1>3, Undisturbed DEF RxPost, RxNoMemory, Opened
<1>4. CASE PsTake
  <2>1. ps' \in {"take", "recv"}
    BY <1>4 DEF PsTake
  <2>2. QED
    BY <1>4, <2>1, Undisturbed DEF PsTake, Opened
<1>5. CASE PsRefuse \/ PsPostOwn
  BY <1>5, Undisturbed DEF PsRefuse, PsPostOwn, Opened
<1>6. CASE PsAnswer \/ PsAnswerLost
  BY <1>6, Undisturbed DEF PsAnswer, PsAnswerLost, Opened
<1>7. CASE PsClearSeq
  BY <1>7, Undisturbed DEF PsClearSeq, Opened
<1>8. CASE UNCHANGED vars
  BY <1>8, Undisturbed DEF vars, Opened
<1>9. QED
  BY <1>1, <1>2, <1>3, <1>4, <1>5, <1>6, <1>7, <1>8

-----------------------------------------------------------------------------
(* The steps of recv_task.                                                  *)

\* The head of the wire becomes the fragment in hand.
LEMMA RxReadOrdered == ASSUME Ordered, Inv, RxRead PROVE Ordered'
<1> USE DEF host, r, pserial, history
<1>1. wire \in Seq(Fragments) /\ wire # <<>> /\ frag' = Head(wire) /\ wire' = Tail(wire)
  BY DEF RxRead, Inv, TypeOK
<1>2. /\ Unread = {frag'.part} \cup Unread'
      /\ WireInOrder'
      /\ \A i \in DOMAIN wire' : Before(frag'.part, wire'[i].part)
  BY <1>1, WireHead DEF Unread, WireInOrder, Ordered, PartsOn, InOrder
<1>3. Opened = {} /\ Opened' = {frag'.part}
  BY DEF RxRead, Opened
<1>4. In(data)' = In(data) /\ Done' = Done /\ Rest' = Rest
  BY <1>2, <1>3 DEF RxRead, Done, Handled, Rest
<1>5. AllBefore(Opened', Unread')
  BY <1>2, <1>3 DEF AllBefore, Unread, PartsOn
<1>6. SentBefore' /\ StagesInOrder'
  <2>1. In(data)' = In(data) /\ Opened' \cup Unread' = Opened \cup Unread
    BY <1>2, <1>3, <1>4
  <2>2. sent' = sent
    BY DEF RxRead
  <2>3. QED
    BY <1>4, <1>5, <2>1, <2>2 DEF Ordered, SentBefore, StagesInOrder
<1>7. DataTidy' /\ ArgTidy' /\ HandledTidy'
  BY <1>4 DEF RxRead, Ordered, DataTidy, ArgTidy, HandledTidy, Handled
<1>8. QED
  BY <1>2, <1>6, <1>7 DEF Ordered

\* Only an empty buffer changes its number.
LEMMA RxOpenOrdered == ASSUME Ordered, Inv, RxOpen PROVE Ordered'
<1> USE DEF host, r, pserial, history
<1>1. /\ Opened' = Opened /\ Unread' = Unread /\ In(data)' = In(data)
      /\ Done' = Done /\ Rest' = Rest /\ Handled' = Handled
  BY DEF RxOpen, Opened, Unread, Done, Handled, Rest
<1>2. SentBefore' /\ WireInOrder' /\ StagesInOrder'
  BY <1>1 DEF RxOpen, Ordered, SentBefore, WireInOrder, StagesInOrder
<1>3. DataTidy'
  BY DEF RxOpen, Ordered, DataTidy
<1>4. ArgTidy' /\ HandledTidy'
  BY <1>1 DEF RxOpen, Ordered, ArgTidy, HandledTidy
<1>5. QED
  BY <1>2, <1>3, <1>4 DEF Ordered

\* The fragment joins the buffer, or is dropped.
LEMMA RxStoreOrdered == ASSUME Ordered, Inv, RxStore PROVE Ordered'
<1> USE DEF host, pserial, history
<1>1. /\ rx = "store" /\ Opened = {frag.part} /\ Opened' = {}
      /\ Unread' = Unread /\ Done' = Done /\ Handled' = Handled /\ sent' = sent
      /\ cur_seq_no' = cur_seq_no
  BY DEF RxStore, Mismatch, Store, Opened, Unread, Done, Handled
<1>2. data \in Seq(Parts) /\ frag.part \in Parts
  BY DEF Inv, TypeOK, Texts, Fragments
<1>3. CASE data' = data
  <2>1. In(data)' = In(data) /\ Rest' \subseteq Rest
    BY <1>1, <1>3 DEF Rest
  <2>2. SentBefore' /\ WireInOrder' /\ StagesInOrder'
    BY <1>1, <2>1 DEF RxStore, Ordered, SentBefore, WireInOrder, StagesInOrder, AllBefore
  <2>3. DataTidy' /\ ArgTidy' /\ HandledTidy'
    BY <1>1, <1>3, <2>1 DEF RxStore, Ordered, DataTidy, ArgTidy, HandledTidy
  <2>4. QED
    BY <2>2, <2>3 DEF Ordered
<1>4. CASE data' = Append(data, frag.part) /\ Request(frag.part) = cur_seq_no
  <2>1. In(data)' = In(data) \cup {frag.part}
    BY <1>2, <1>4, InAppend
  <2>2. Rest' = Rest
    BY <1>1, <2>1 DEF Rest
  <2>3. AllBefore(In(data), {frag.part}) /\ AllBefore({frag.part}, Unread)
    BY <1>1 DEF Ordered, StagesInOrder, AllBefore
  <2>4. SentBefore' /\ WireInOrder'
    BY <1>1, <2>2 DEF RxStore, Ordered, SentBefore, WireInOrder
  <2>5. StagesInOrder'
    BY <1>1, <2>1, <2>2, <2>3 DEF Ordered, StagesInOrder, AllBefore
  <2>6. Request(frag.part) # 0
    BY <1>2 DEF Parts, Request
  <2>7. data # <<>> => Request(data[1]) = Request(frag.part)
    BY <1>4, <2>6 DEF Ordered, DataTidy
  <2>8. Tidy(data') /\ data'[1] = IF data = <<>> THEN frag.part ELSE data[1]
    BY <1>2, <1>4, <2>3, <2>7, AppendTidy DEF Ordered, DataTidy
  <2>9. DataTidy'
    BY <1>1, <1>4, <2>7, <2>8 DEF DataTidy
  <2>10. ArgTidy' /\ HandledTidy'
    BY <1>1, <2>1 DEF RxStore, Ordered, ArgTidy, HandledTidy
  <2>11. QED
    BY <2>4, <2>5, <2>9, <2>10 DEF Ordered
<1>5. QED
  BY <1>3, <1>4 DEF RxStore, Mismatch, Store

-----------------------------------------------------------------------------
(* The steps of pserial_task.                                               *)

\* What it reads of r is a part of what r holds, from the front.
LEMMA PsRecvOrdered == ASSUME Ordered, Inv, PsRecv PROVE Ordered'
<1> USE DEF host, recv, history
<1>1. ps = "recv" /\ valid
  BY DEF PsRecv, Inv, QueuedRequestHoldsBuffer
<1>2. arg' = SubSeq(data, 1, Length) /\ ps' = "len"
  BY <1>1 DEF PsRecv
<1>3. data \in Seq(Parts) /\ Length \in 0 .. Len(data)
  <2>1. data \in Seq(Parts) /\ arg \in Seq(Parts)
    BY DEF Inv, TypeOK, Texts
  <2>2. QED
    BY <2>1 DEF Length
<1>4. In(arg') \subseteq In(data) /\ Tidy(arg')
  BY <1>2, <1>3, PrefixTidy DEF Ordered, DataTidy
<1>5. /\ In(data)' = In(data) /\ Unread' = Unread /\ Opened' = Opened /\ Rest' = Rest
      /\ Handled' = Handled /\ Done' \subseteq Done
  BY <1>2 DEF PsRecv, Unread, Opened, Rest, Handled, Done
<1>6. SentBefore' /\ WireInOrder' /\ StagesInOrder'
  BY <1>5 DEF PsRecv, Ordered, SentBefore, WireInOrder, StagesInOrder, AllBefore
<1>7. DataTidy' /\ HandledTidy'
  BY DEF PsRecv, Ordered, DataTidy, HandledTidy
<1>8. ArgTidy'
  BY <1>2, <1>4, <1>5 DEF ArgTidy
<1>9. QED
  BY <1>6, <1>7, <1>8 DEF Ordered

\* r is empty: what was read of it comes before all that is still to come, also
\* when recv_task has stored a fragment in the meantime.
LEMMA PsClearLenOrdered == ASSUME Ordered, Inv, PsClearLen PROVE Ordered'
<1> USE DEF host, recv, history
<1>1. ps = "len" /\ ps' = "seq" /\ data' = <<>> /\ arg' = arg
  BY DEF PsClearLen
<1>2. In(data)' = {}
  BY <1>1 DEF In
<1>3. /\ Unread' = Unread /\ Opened' = Opened /\ Handled' = Handled
      /\ Rest' = Opened \cup Unread
      /\ Done' = Done \cup In(arg) /\ Handled = Done
  BY <1>1, <1>2 DEF PsClearLen, Unread, Opened, Rest, Handled, Done
<1>4. In(arg) \subseteq In(data) /\ Tidy(arg)
  BY <1>1 DEF Ordered, ArgTidy
<1>5. SentBefore'
  BY <1>3, <1>4 DEF PsClearLen, Ordered, SentBefore, Rest
<1>6. StagesInOrder'
  BY <1>2, <1>3, <1>4 DEF Ordered, StagesInOrder, AllBefore, Rest
<1>7. WireInOrder' /\ HandledTidy'
  BY DEF PsClearLen, Ordered, WireInOrder, HandledTidy
<1>8. DataTidy'
  BY <1>1 DEF DataTidy, Tidy
<1>9. ArgTidy'
  BY <1>1, <1>3, <1>4 DEF Ordered, ArgTidy, StagesInOrder, AllBefore, Rest
<1>10. QED
  BY <1>5, <1>6, <1>7, <1>8, <1>9 DEF Ordered

LEMMA PsHandleOrdered == ASSUME Ordered, Inv, PsHandle PROVE Ordered'
<1> USE DEF host, r, recv, history
<1>1. /\ ps = "handle" /\ ps' \notin {"len", "seq", "handle"} /\ arg # <<>>
      /\ handled' = Append(handled, arg)
  BY DEF PsHandle
<1>2. handled \in Seq(Texts) /\ arg \in Texts
  BY DEF Inv, TypeOK
<1> DEFINE n == Len(handled) + 1
<1>3. /\ DOMAIN handled = 1 .. Len(handled) /\ Len(handled) \in Nat
      /\ DOMAIN handled' = 1 .. n /\ handled'[n] = arg
      /\ \A m \in 1 .. Len(handled) : handled'[m] = handled[m]
  BY <1>1, <1>2
<1>4. \A m \in DOMAIN handled' : m = n \/ (m \in DOMAIN handled /\ m < n)
  BY <1>3
<1>5. n \in DOMAIN handled'
  BY <1>3
<1> HIDE DEF n
<1>6. Handled' = Handled \cup In(arg)
  <2>1. \A p : p \in Handled' <=> \E m \in DOMAIN handled' : p \in In(handled'[m])
    BY DEF Handled
  <2>2. \A p : p \in Handled <=> \E m \in DOMAIN handled : p \in In(handled[m])
    BY DEF Handled
  <2>3. \A m \in DOMAIN handled : m \in DOMAIN handled' /\ handled'[m] = handled[m]
    BY <1>3 DEF n
  <2>4. \A p : p \in Handled' <=> p \in Handled \/ p \in In(arg)
    BY <1>3, <1>4, <1>5, <2>1, <2>2, <2>3
  <2>5. QED
    BY <2>4
<1>7. Done' = Done /\ Done = Handled \cup In(arg)
  BY <1>1, <1>6 DEF Done
<1>8. Unread' = Unread /\ Opened' = Opened /\ Rest' = Rest /\ In(data)' = In(data)
  BY DEF PsHandle, Unread, Opened, Rest
<1>9. SentBefore' /\ WireInOrder' /\ StagesInOrder'
  BY <1>7, <1>8 DEF PsHandle, Ordered, SentBefore, WireInOrder, StagesInOrder
<1>10. DataTidy' /\ ArgTidy'
  BY <1>1 DEF PsHandle, Ordered, DataTidy, ArgTidy
<1>11. HandledTidy'
  <2>1. Tidy(arg) /\ AllBefore(Handled, In(arg))
    BY <1>1 DEF Ordered, ArgTidy
  <2>2. \A m \in DOMAIN handled' : handled'[m] # <<>> /\ Tidy(handled'[m])
    BY <1>1, <1>3, <1>4, <2>1 DEF Ordered, HandledTidy
  <2>3. ASSUME NEW l \in DOMAIN handled', NEW m \in DOMAIN handled', l < m
        PROVE  AllBefore(In(handled'[l]), In(handled'[m]))
    <3>1. l \in DOMAIN handled /\ handled'[l] = handled[l]
      BY <1>3, <1>4, <2>3 DEF n
    <3>2. CASE m = n
      BY <1>3, <2>1, <3>1, <3>2 DEF Handled, AllBefore
    <3>3. CASE m # n
      BY <1>3, <1>4, <2>3, <3>1, <3>3 DEF Ordered, HandledTidy
    <3>4. QED
      BY <3>2, <3>3
  <2>4. QED
    BY <2>2, <2>3 DEF HandledTidy
<1>12. QED
  BY <1>9, <1>10, <1>11 DEF Ordered

-----------------------------------------------------------------------------
(* The steps of the host.                                                   *)

LEMMA PrefixOfWire ==
  ASSUME NEW w \in Seq(Fragments), NEW k \in 0 .. Len(w), NEW v, v = SubSeq(w, 1, k)
  PROVE  DOMAIN v \subseteq DOMAIN w /\ \A i \in DOMAIN v : v[i] = w[i]
<1>1. Len(w) \in Nat /\ DOMAIN w = 1 .. Len(w) /\ k \in Nat /\ k <= Len(w)
  OBVIOUS
<1>2. Len(v) = k /\ DOMAIN v = 1 .. k
  BY <1>1
<1>3. \A i \in 1 .. k : v[i] = w[i]
  BY <1>1
<1>4. QED
  BY <1>1, <1>2, <1>3

LEMMA HostRestartsOrdered == ASSUME Ordered, Inv, HostRestarts PROVE Ordered'
<1> USE DEF r, recv, pserial
<1>1. PICK k \in 0 .. Len(wire) : wire' = SubSeq(wire, 1, k)
  BY DEF HostRestarts
<1>2. wire \in Seq(Fragments)
  BY DEF Inv, TypeOK
<1>3. DOMAIN wire' \subseteq DOMAIN wire /\ \A i \in DOMAIN wire' : wire'[i] = wire[i]
  BY <1>1, <1>2, PrefixOfWire
<1>4. Unread' \subseteq Unread /\ WireInOrder'
  BY <1>3 DEF Unread, WireInOrder, Ordered, PartsOn, InOrder
<1>5. /\ Opened' = Opened /\ In(data)' = In(data) /\ Done' = Done /\ Handled' = Handled
      /\ Rest' \subseteq Rest
  BY <1>4 DEF HostRestarts, Opened, Done, Handled, Rest
<1>6. SentBefore' /\ StagesInOrder'
  BY <1>4, <1>5 DEF HostRestarts, Ordered, SentBefore, StagesInOrder, AllBefore
<1>7. DataTidy' /\ ArgTidy' /\ HandledTidy'
  BY <1>5 DEF HostRestarts, Ordered, DataTidy, ArgTidy, HandledTidy
<1>8. QED
  BY <1>4, <1>6, <1>7 DEF Ordered

FragmentsOf(n, k) == [i \in 1 .. k |-> [part |-> <<n, i>>, more |-> i < k]]

\* The fragments of the next request come after those of all earlier ones.
LEMMA WireGrows ==
  ASSUME NEW w \in Seq(Fragments), NEW n \in 1 .. MaxRequests, NEW k \in 1 .. MaxFrags,
         \A p \in PartsOn(w) : Request(p) < n, InOrder(w)
  PROVE  /\ \A p \in PartsOn(w \o FragmentsOf(n, k)) :
              p \in PartsOn(w) \/ (p \in Parts /\ Request(p) = n)
         /\ InOrder(w \o FragmentsOf(n, k))
<1> DEFINE f == FragmentsOf(n, k)
           v == w \o f
           l == Len(w)
<1>1. k \in Nat /\ n \in Nat /\ l \in Nat /\ DOMAIN w = 1 .. l
  BY ConstantsAreNat
<1>2. f \in Seq(Fragments) /\ Len(f) = k /\ \A i \in 1 .. k : f[i].part = <<n, i>>
  <2>1. f \in Seq(Fragments)
    BY MessageTyped DEF FragmentsOf
  <2>2. QED
    BY <1>1, <2>1 DEF FragmentsOf
<1> HIDE DEF f
<1>3. /\ DOMAIN v = 1 .. l + k
      /\ \A i \in 1 .. l : v[i] = w[i]
      /\ \A i \in 1 .. k : v[l + i] = f[i]
  <2>1. /\ v \in Seq(Fragments) /\ Len(v) = l + k
        /\ \A i \in 1 .. l + k : v[i] = IF i <= l THEN w[i] ELSE f[i - l]
    BY <1>2, ConcatProperties
  <2> HIDE DEF v, l
  <2>2. DOMAIN v = 1 .. l + k
    BY <2>1
  <2>3. \A i \in 1 .. l : v[i] = w[i]
    BY <1>1, <2>1
  <2>4. ASSUME NEW i \in 1 .. k
        PROVE  v[l + i] = f[i]
    <3>1. l + i \in 1 .. l + k /\ ~ (l + i <= l) /\ (l + i) - l = i
      BY <1>1
    <3>2. QED
      BY <2>1, <3>1
  <2>5. QED
    BY <2>2, <2>3, <2>4
<1> HIDE DEF v
<1>4. ASSUME NEW i \in DOMAIN v
      PROVE  \/ i \in DOMAIN w /\ v[i] = w[i]
             \/ i - l \in 1 .. k /\ v[i].part = <<n, i - l>> /\ l < i
  <2>1. i \in 1 .. l \/ (i - l \in 1 .. k /\ i = l + (i - l) /\ l < i)
    BY <1>1, <1>3
  <2>2. CASE i \in 1 .. l
    BY <1>1, <1>3, <2>2
  <2>3. CASE i - l \in 1 .. k /\ i = l + (i - l) /\ l < i
    BY <1>2, <1>3, <2>3
  <2>4. QED
    BY <2>1, <2>2, <2>3
<1>5. ASSUME NEW j \in 1 .. k
      PROVE  <<n, j>> \in Parts /\ Request(<<n, j>>) = n
  BY ConstantsAreNat DEF Parts, Request
<1>6. \A p \in PartsOn(v) : p \in PartsOn(w) \/ (p \in Parts /\ Request(p) = n)
  BY <1>4, <1>5 DEF PartsOn
<1>7. ASSUME NEW i \in DOMAIN v, NEW j \in DOMAIN v, i < j
      PROVE  Before(v[i].part, v[j].part)
  <2>1. i \in Int /\ j \in Int
    BY <1>1, <1>3
  <2>2. CASE j \in DOMAIN w /\ v[j] = w[j]
    <3>1. i \in DOMAIN w /\ v[i] = w[i]
      BY <1>1, <1>3, <1>4, <1>7, <2>1, <2>2
    <3>2. QED
      BY <1>7, <2>2, <3>1 DEF InOrder
  <2>3. CASE j - l \in 1 .. k /\ v[j].part = <<n, j - l>>
    <3>1. CASE i \in DOMAIN w /\ v[i] = w[i]
      BY <2>3, <3>1 DEF Before, Request, PartsOn
    <3>2. CASE i - l \in 1 .. k /\ v[i].part = <<n, i - l>>
      <4>1. i - l < j - l
        BY <1>1, <1>7, <2>1
      <4>2. QED
        BY <2>3, <3>2, <4>1 DEF Before
    <3>3. QED
      BY <1>4, <3>1, <3>2
  <2>4. QED
    BY <1>4, <2>2, <2>3
<1>8. QED
  BY <1>6, <1>7 DEF v, f, InOrder

LEMMA HostSendsOrdered == ASSUME Ordered, Inv, HostSends PROVE Ordered'
<1> USE DEF r, recv, pserial, history
<1> DEFINE n == Len(sent) + 1
<1>1. PICK k \in 1 .. MaxFrags :
        /\ sent' = Append(sent, Message(n, k))
        /\ wire' = wire \o [i \in 1 .. k |-> [part |-> <<n, i>>, more |-> i < k]]
  BY DEF HostSends
<1>2. /\ sent \in Seq(Texts) /\ wire \in Seq(Fragments) /\ Len(sent) \in Nat
      /\ n \in 1 .. MaxRequests
  BY ConstantsAreNat DEF HostSends, Inv, TypeOK
<1>3. Message(n, k) \in Texts
  BY <1>2, MessageTyped
<1>4. Len(sent') = n
  BY <1>1, <1>2, <1>3
<1>5. \A p \in Done \cup Rest : p \in Parts /\ Request(p) \in Nat /\ Request(p) < n
  BY <1>2 DEF Ordered, SentBefore, Parts, Request
<1>6. \A i \in DOMAIN wire : wire[i].part \in Rest
  BY DEF Rest, Unread, PartsOn
<1> HIDE DEF n
<1>7. /\ \A p \in Unread' : p \in Unread \/ (p \in Parts /\ Request(p) = n)
      /\ WireInOrder'
  <2>1. wire' = wire \o FragmentsOf(n, k)
    BY <1>1 DEF n, FragmentsOf
  <2>2. \A p \in PartsOn(wire) : Request(p) < n
    BY <1>5, <1>6 DEF PartsOn
  <2>3. InOrder(wire)
    BY DEF Ordered, WireInOrder
  <2>4. /\ \A p \in PartsOn(wire \o FragmentsOf(n, k)) :
             p \in PartsOn(wire) \/ (p \in Parts /\ Request(p) = n)
        /\ InOrder(wire \o FragmentsOf(n, k))
    BY <1>2, <2>2, <2>3, WireGrows
  <2>5. QED
    BY <2>1, <2>4 DEF Unread, WireInOrder
<1>8. /\ Opened' = Opened /\ In(data)' = In(data) /\ Done' = Done /\ Handled' = Handled
  BY DEF HostSends, Opened, Done, Handled
<1>9. \A p \in Rest' : p \in Rest \/ (p \in Unread' /\ p \in Parts /\ Request(p) = n)
  BY <1>7, <1>8 DEF Rest
<1>10. \A p \in Done \cup Rest : \A q : Request(q) = n => Before(p, q)
  BY <1>5 DEF Before, Request
<1>11. SentBefore'
  <2>1. n \in Nat /\ \A p \in Done \cup Rest : Request(p) <= n
    BY <1>2, <1>5
  <2>2. n <= n
    BY <2>1
  <2>3. QED
    BY <1>4, <1>5, <1>8, <1>9, <2>1, <2>2 DEF SentBefore
<1>12. StagesInOrder'
  <2>1. AllBefore(Done', Rest')
    BY <1>8, <1>9, <1>10 DEF Ordered, StagesInOrder, AllBefore
  <2>2. AllBefore(In(data)', Opened' \cup Unread')
    BY <1>7, <1>8, <1>10 DEF Ordered, StagesInOrder, AllBefore, Rest
  <2>3. AllBefore(Opened', Unread')
    BY <1>7, <1>8, <1>10 DEF Ordered, StagesInOrder, AllBefore, Rest
  <2>4. QED
    BY <2>1, <2>2, <2>3 DEF StagesInOrder
<1>13. DataTidy' /\ ArgTidy' /\ HandledTidy'
  BY <1>8 DEF HostSends, Ordered, DataTidy, ArgTidy, HandledTidy
<1>14. QED
  BY <1>7, <1>11, <1>12, <1>13 DEF Ordered

-----------------------------------------------------------------------------
(* The theorems about the order.                                            *)

LEMMA InitOrdered == Init => Ordered
<1> SUFFICES ASSUME Init PROVE Ordered
  OBVIOUS
<1>1. In(<<>>) = {} /\ Tidy(<<>>)
  BY DEF In, Tidy
<1>2. In(data) = {} /\ Opened = {} /\ Unread = {} /\ Handled = {} /\ Done = {} /\ Rest = {}
  BY <1>1 DEF Init, Opened, Unread, PartsOn, Handled, Done, Rest
<1>3. SentBefore /\ StagesInOrder
  BY <1>2 DEF SentBefore, StagesInOrder, AllBefore
<1>4. WireInOrder /\ DataTidy /\ ArgTidy /\ HandledTidy
  BY <1>1, <1>2 DEF Init, WireInOrder, InOrder, DataTidy, ArgTidy, HandledTidy
<1>5. QED
  BY <1>3, <1>4 DEF Ordered

LEMMA OrderedIsInvariant == Spec => []Ordered
<1>1. Inv /\ Ordered /\ [Next]_vars => Ordered'
  BY EasySteps, RxReadOrdered, RxOpenOrdered, RxStoreOrdered, PsRecvOrdered,
     PsClearLenOrdered, PsHandleOrdered, HostRestartsOrdered, HostSendsOrdered
     DEF Next, RecvTask, PserialTask, Failure
<1>2. QED
  BY InitOrdered, InvIsInvariant, <1>1, PTL DEF Spec

\* Each handler sees parts of one request only, in the order in which they were
\* sent, also when recv_task refills r while pserial_task empties it.
THEOREM MessagesAreOfOneRequest == Spec => []OneRequestPerMessage
<1>1. TypeOK /\ Ordered => OneRequestPerMessage
  <2> SUFFICES ASSUME TypeOK, Ordered, NEW m \in DOMAIN handled, NEW i \in 2 .. Len(handled[m])
               PROVE  /\ Request(handled[m][i]) = Request(handled[m][1])
                      /\ handled[m][i - 1][2] < handled[m][i][2]
    BY DEF OneRequestPerMessage
  <2>1. handled[m] \in Seq(Parts) /\ Tidy(handled[m])
    BY DEF TypeOK, Texts, Ordered, HandledTidy
  <2> DEFINE s == handled[m]
  <2> HIDE DEF s
  <2>2. s \in Seq(Parts) /\ Tidy(s) /\ i \in 2 .. Len(s)
    BY <2>1 DEF s
  <2>3. i \in DOMAIN s /\ i - 1 \in DOMAIN s /\ 1 \in DOMAIN s /\ i - 1 < i
    BY <2>2
  <2>4. /\ Request(s[i]) = Request(s[1]) /\ Request(s[i - 1]) = Request(s[i])
        /\ Before(s[i - 1], s[i])
    BY <2>2, <2>3 DEF Tidy
  <2>5. s[i] \in Parts /\ s[i - 1] \in Parts
    BY <2>2, <2>3
  <2>6. s[i - 1][2] < s[i][2]
    BY <2>4, <2>5 DEF Before, Request, Parts
  <2>7. QED
    BY <2>4, <2>6 DEF s
<1>2. QED
  BY TypeCorrect, OrderedIsInvariant, <1>1, PTL

\* No part of a request is handled twice, nor after a later one.
THEOREM PartsAreOnceInOrder == Spec => []PartsOnceInOrder
<1>1. TypeOK /\ Ordered => PartsOnceInOrder
  <2> SUFFICES ASSUME TypeOK, Ordered, NEW m \in 2 .. Len(handled)
               PROVE  Before(handled[m - 1][Len(handled[m - 1])], handled[m][1])
    BY DEF PartsOnceInOrder
  <2>1. handled \in Seq(Texts) /\ Len(handled) \in Nat
    BY DEF TypeOK
  <2>2. m \in DOMAIN handled /\ m - 1 \in DOMAIN handled /\ m - 1 < m
    BY <2>1
  <2> DEFINE s == handled[m - 1]
             t == handled[m]
  <2>3. /\ s \in Seq(Parts) /\ t \in Seq(Parts) /\ s # <<>> /\ t # <<>>
        /\ AllBefore(In(s), In(t))
    BY <2>1, <2>2 DEF Ordered, HandledTidy, Texts
  <2> HIDE DEF s, t
  <2>4. Len(s) \in DOMAIN s /\ 1 \in DOMAIN t
    BY <2>3
  <2>5. s[Len(s)] \in In(s) /\ t[1] \in In(t)
    BY <2>4 DEF In
  <2>6. QED
    BY <2>3, <2>5 DEF AllBefore, s, t
<1>2. QED
  BY TypeCorrect, OrderedIsInvariant, <1>1, PTL
-----------------------------------------------------------------------------
(***************************************************************************)
(* A host that awaits each answer and does not restart.  There is at most  *)
(* one request under way, the last one sent, and everything between the    *)
(* wire and the handler is about it: OneByOne says where it is.            *)
(***************************************************************************)
Cur == sent[Len(sent)]

\* The last request, and the numbers of its parts.
Numbered ==
  sent # <<>> =>
    /\ Cur \in Texts /\ Len(Cur) \in 1 .. MaxFrags
    /\ \A i \in 1 .. Len(Cur) : Cur[i] = <<Len(sent), i>>

Piece(i) == [part |-> Cur[i], more |-> i < Len(Cur)]

\* r holds the first j parts; the rest, from the one after place j, is on the wire.
Begun(j) ==
  /\ Len(data) = j /\ \A i \in 1 .. j : data[i] = Cur[i]
  /\ j > 0 => cur_seq_no = Len(sent)
OnWire(j) == Len(wire) = Len(Cur) - j /\ \A i \in 1 .. Len(wire) : wire[i] = Piece(j + i)

PsWaits == ps = "take" /\ Asks = {} /\ ~valid

Receiving ==
  /\ PsWaits /\ Len(handled) = Len(sent) - 1
  /\ \E j \in 0 .. Len(Cur) :
       \/ rx = "read" /\ j < Len(Cur) /\ Begun(j) /\ OnWire(j)
       \/ /\ rx \in {"open", "store"} /\ j < Len(Cur) /\ Begun(j) /\ OnWire(j + 1)
          /\ frag = Piece(j + 1) /\ room = BufSize - j
          /\ rx = "store" => cur_seq_no = Len(sent)
       \/ rx = "finish" /\ j = Len(Cur) /\ Begun(j) /\ wire = <<>>

Received ==
  /\ rx \in {"post", "read"} /\ wire = <<>> /\ valid /\ data = Cur
  /\ Len(handled) = Len(sent) - 1
  /\ ps \in {"take", "recv"}
  /\ rx = "post" => copy = Cur
  /\ \A i \in Asks : queue[i].text = Cur
  /\ ps = "recv" => arg = Cur

LinkEmpty == rx = "read" /\ wire = <<>> /\ ~valid /\ Asks = {}

TakenOut ==
  /\ LinkEmpty /\ ps \in {"len", "seq", "handle"} /\ arg = Cur
  /\ Len(handled) = Len(sent) - 1
  /\ ps # "len" => data = <<>>

BeingHandled ==
  /\ LinkEmpty /\ data = <<>> /\ ps \in {"post2", "post1", "answer"} /\ arg = Cur
  /\ Len(handled) = Len(sent)

\* Nothing is left of it: it was refused, or its answer lost, or it was answered.
AtRest == LinkEmpty /\ data = <<>> /\ ps = "take"

OneByOne ==
  /\ Numbered
  /\ waiting = {} => AtRest /\ Len(handled) = Len(sent)
  /\ waiting # {} =>
       /\ sent # <<>> /\ waiting = {Len(sent)}
       /\ Receiving \/ Received \/ TakenOut \/ BeingHandled \/ AtRest

\* What an action that sends nothing leaves of the above.
LEMMA SameRequest ==
  ASSUME Inv, OneByOne, UNCHANGED sent
  PROVE  Cur' = Cur /\ Numbered' /\ Len(sent)' = Len(sent) /\ \A i : Piece(i)' = Piece(i)
<1>1. Cur' = Cur
  BY DEF Cur
<1>2. QED
  BY <1>1 DEF OneByOne, Numbered, Piece

LEMMA RequestShape ==
  ASSUME Inv, OneByOne, sent # <<>>
  PROVE  /\ Cur \in Seq(Parts) /\ Cur # <<>> /\ Len(Cur) \in Nat /\ Len(sent) \in Nat \ {0}
         /\ Len(Cur) >= 1 /\ Len(Cur) <= BufSize
         /\ \A i \in 1 .. Len(Cur) : Cur[i] = <<Len(sent), i>> /\ Request(Cur[i]) = Len(sent)
<1>1. Cur \in Texts /\ Len(Cur) \in 1 .. MaxFrags
  BY DEF OneByOne, Numbered
<1>2. MaxFrags \in Nat /\ BufSize \in Nat /\ MaxFrags <= BufSize
  BY SerialRpcAssumption
<1>3. sent \in Seq(Texts)
  BY DEF Inv, TypeOK
<1>4. QED
  BY <1>1, <1>2, <1>3 DEF OneByOne, Numbered, Texts, Request

\* Where the last request is decides which task can do what.
LEMMA WhereItIs ==
  ASSUME OneByOne
  PROVE  /\ rx # "read" \/ wire # <<>> =>
              sent # <<>> /\ waiting = {Len(sent)} /\ (Receiving \/ Received)
         /\ wire # <<>> => Receiving
         /\ rx \in {"open", "store", "finish"} => Receiving
         /\ rx = "post" => Received
         /\ ps = "recv" => sent # <<>> /\ waiting = {Len(sent)} /\ Received
         /\ ps \in {"len", "seq", "handle"} => sent # <<>> /\ waiting = {Len(sent)} /\ TakenOut
         /\ ps \in {"post2", "post1", "answer"} =>
              sent # <<>> /\ waiting = {Len(sent)} /\ BeingHandled
  BY DEF OneByOne, Receiving, Received, TakenOut, BeingHandled, AtRest, LinkEmpty, PsWaits

LEMMA RxReadOne == ASSUME Inv, OneByOne, RxRead PROVE OneByOne'
<1> USE DEF RxRead, host, r, pserial, history
<1>1. sent # <<>> /\ waiting = {Len(sent)} /\ Receiving /\ rx = "read"
  BY WhereItIs
<1>2. PICK j \in 0 .. Len(Cur) : j < Len(Cur) /\ Begun(j) /\ OnWire(j)
  BY <1>1 DEF Receiving
<1>3. Cur' = Cur /\ Numbered' /\ \A i : Piece(i)' = Piece(i)
  BY SameRequest
<1>4. Len(Cur) \in Nat /\ Cur' = Cur /\ j \in Nat /\ j < Len(Cur) /\ j \in 0 .. Len(Cur)'
  BY <1>1, <1>2, <1>3, RequestShape
<1>5. wire \in Seq(Fragments) /\ wire # <<>> /\ wire' = Tail(wire) /\ frag' = wire[1]
  BY DEF Inv, TypeOK
<1>6. /\ Len(wire') = Len(wire) - 1 /\ Len(wire) \in Nat \ {0}
      /\ \A i \in 1 .. Len(wire') : wire'[i] = wire[i + 1] /\ i + 1 \in 1 .. Len(wire)
  BY <1>5
<1>7. frag' = Piece(j + 1)
  BY <1>2, <1>4, <1>5, <1>6 DEF OnWire
<1>8. Len(wire') = Len(Cur) - (j + 1)
  BY <1>2, <1>4, <1>6 DEF OnWire
<1>9. \A i \in 1 .. Len(wire') : wire'[i] = Piece((j + 1) + i)
  <2> TAKE i \in 1 .. Len(wire')
  <2>1. wire'[i] = Piece(j + (i + 1))
    BY <1>2, <1>6 DEF OnWire
  <2>2. j + (i + 1) = (j + 1) + i
    BY <1>4, <1>6
  <2>3. QED
    BY <2>1, <2>2
<1>10. OnWire(j + 1)'
  BY <1>3, <1>8, <1>9 DEF OnWire
<1>11. Begun(j)' /\ room' = BufSize - j
  BY <1>2, <1>3 DEF Begun
<1>12. PsWaits' /\ Len(handled)' = Len(sent)' - 1
  BY <1>1 DEF Receiving, PsWaits, Asks
<1>13. Receiving'
  BY <1>3, <1>4, <1>7, <1>10, <1>11, <1>12 DEF Receiving
<1>14. QED
  BY <1>1, <1>3, <1>13 DEF OneByOne

LEMMA RxOpenOne == ASSUME Inv, OneByOne, RxOpen PROVE OneByOne'
<1> USE DEF RxOpen, host, pserial, history
<1>1. sent # <<>> /\ waiting = {Len(sent)} /\ Receiving /\ rx = "open"
  BY WhereItIs
<1>2. PICK j \in 0 .. Len(Cur) :
        /\ j < Len(Cur) /\ Begun(j) /\ OnWire(j + 1) /\ frag = Piece(j + 1)
        /\ room = BufSize - j
  BY <1>1 DEF Receiving
<1>3. Cur' = Cur /\ Numbered' /\ \A i : Piece(i)' = Piece(i)
  BY SameRequest
<1>4. /\ Len(Cur) \in Nat /\ j \in Nat /\ j + 1 \in 1 .. Len(Cur)
      /\ \A i \in 1 .. Len(Cur) : Request(Cur[i]) = Len(sent)
  BY <1>1, <1>2, RequestShape
<1>5. Request(frag.part) = Len(sent)
  BY <1>2, <1>4 DEF Piece
<1>6. cur_seq_no' = Len(sent)
  <2>1. data \in Seq(Parts) /\ Len(data) = j
    BY <1>2 DEF Inv, TypeOK, Texts, Begun
  <2>2. data # <<>> => j > 0
    BY <2>1
  <2>3. QED
    BY <1>2, <1>5, <2>2 DEF Begun
<1>7. Begun(j)' /\ OnWire(j + 1)' /\ frag' = Piece(j + 1)' /\ room' = BufSize - j
  BY <1>2, <1>3, <1>6 DEF Begun, OnWire
<1>8. PsWaits' /\ Len(handled)' = Len(sent)' - 1
  BY <1>1 DEF Receiving, PsWaits, Asks
<1>9. j \in 0 .. Len(Cur)' /\ j < Len(Cur)'
  BY <1>2, <1>3
<1>10. Receiving'
  BY <1>6, <1>7, <1>8, <1>9 DEF Receiving
<1>11. QED
  BY <1>1, <1>3, <1>10 DEF OneByOne

\* The fragment is of the request that r holds, and there is room for it.
LEMMA RxStoreOne == ASSUME Inv, OneByOne, RxStore PROVE OneByOne'
<1> USE DEF RxStore, host, pserial, history
<1>1. sent # <<>> /\ waiting = {Len(sent)} /\ Receiving /\ rx = "store"
  BY WhereItIs
<1>2. PICK j \in 0 .. Len(Cur) :
        /\ j < Len(Cur) /\ Begun(j) /\ OnWire(j + 1) /\ frag = Piece(j + 1)
        /\ room = BufSize - j /\ cur_seq_no = Len(sent)
  BY <1>1 DEF Receiving
<1>3. Cur' = Cur /\ Numbered' /\ \A i : Piece(i)' = Piece(i)
  BY SameRequest
<1>4. /\ Len(Cur) \in Nat /\ j \in Nat /\ j + 1 \in 1 .. Len(Cur) /\ Len(Cur) <= BufSize
      /\ \A i \in 1 .. Len(Cur) : Request(Cur[i]) = Len(sent)
  BY <1>1, <1>2, RequestShape
<1>5. frag.part = Cur[j + 1] /\ frag.more = (j + 1 < Len(Cur)) /\ Request(frag.part) = Len(sent)
  BY <1>2, <1>4 DEF Piece
<1>6. room > 0
  BY <1>2, <1>4, ConstantsAreNat
<1>7. data' = Append(data, Cur[j + 1]) /\ UNCHANGED <<valid, copy>>
      /\ rx' = IF j + 1 < Len(Cur) THEN "read" ELSE "finish"
  BY <1>2, <1>5, <1>6 DEF Store
<1>8. Begun(j + 1)'
  <2>1. data \in Seq(Parts) /\ Len(data) = j /\ \A i \in 1 .. j : data[i] = Cur[i]
    BY <1>2 DEF Inv, TypeOK, Texts, Begun
  <2>2. /\ Len(data') = j + 1 /\ data'[j + 1] = Cur[j + 1]
        /\ \A i \in 1 .. j : data'[i] = data[i]
    BY <1>7, <2>1
  <2>3. \A i \in 1 .. j + 1 : data'[i] = Cur[i]
    BY <1>4, <2>1, <2>2
  <2>4. QED
    BY <1>2, <1>3, <2>2, <2>3 DEF Begun
<1>9. OnWire(j + 1)'
  BY <1>2, <1>3 DEF OnWire
<1>10. PsWaits' /\ Len(handled)' = Len(sent)' - 1
  BY <1>1, <1>7 DEF Receiving, PsWaits, Asks
<1>11. j + 1 \in 0 .. Len(Cur)'
  BY <1>3, <1>4
<1>12. CASE j + 1 < Len(Cur)
  BY <1>1, <1>3, <1>7, <1>8, <1>9, <1>10, <1>11, <1>12 DEF OneByOne, Receiving
<1>13. CASE ~(j + 1 < Len(Cur))
  <2>1. j + 1 = Len(Cur)
    BY <1>4, <1>13
  <2>2. wire \in Seq(Fragments) /\ Len(wire) = 0
    BY <1>2, <1>4, <2>1 DEF Inv, TypeOK, OnWire
  <2>3. wire' = <<>>
    BY <2>2
  <2>4. QED
    BY <1>1, <1>3, <1>7, <1>8, <1>10, <1>11, <1>13, <2>1, <2>3 DEF OneByOne, Receiving
<1>14. QED
  BY <1>12, <1>13

LEMMA RxFinishOne == ASSUME Inv, OneByOne, RxFinish PROVE OneByOne'
<1> USE DEF RxFinish, host, pserial, history
<1>1. sent # <<>> /\ waiting = {Len(sent)} /\ Receiving /\ rx = "finish"
  BY WhereItIs
<1>2. Begun(Len(Cur)) /\ wire = <<>>
  BY <1>1 DEF Receiving
<1>3. Cur' = Cur /\ Numbered'
  BY SameRequest
<1>4. data \in Seq(Parts) /\ Cur \in Seq(Parts)
  BY <1>1, RequestShape DEF Inv, TypeOK, Texts
<1>5. data = Cur
  <2>1. Len(data) = Len(Cur) /\ \A i \in 1 .. Len(data) : data[i] = Cur[i]
    BY <1>2 DEF Begun
  <2>2. QED
    BY <1>4, <2>1, SeqEqual
<1>6. Received'
  BY <1>1, <1>2, <1>3, <1>5 DEF Received, Receiving, PsWaits, Asks
<1>7. QED
  BY <1>1, <1>3, <1>6 DEF OneByOne

LEMMA RxPostOne == ASSUME Inv, OneByOne, RxPost PROVE OneByOne'
<1> USE DEF RxPost, host, r, pserial, history
<1>1. sent # <<>> /\ waiting = {Len(sent)} /\ Received /\ rx = "post" /\ Asks = {} /\ ps # "recv"
  BY WhereItIs DEF Inv, PostsWhenAlone
<1>2. Cur' = Cur /\ Numbered'
  BY SameRequest
<1>3. queue \in Seq(Items) /\ copy \in Texts /\ queue' = Append(queue, Ask(copy)) /\ copy = Cur
  BY <1>1 DEF Inv, TypeOK, Items, Post, Received
<1>4. Asks' = {Len(queue) + 1}
  BY <1>1, <1>3, AppendAsk DEF Asks
<1>5. queue'[Len(queue) + 1].text = Cur
  BY <1>3 DEF Ask
<1>6. Received'
  BY <1>1, <1>2, <1>4, <1>5 DEF Received
<1>7. QED
  BY <1>1, <1>2, <1>6 DEF OneByOne

LEMMA RxNoMemoryOne == ASSUME Inv, OneByOne, RxNoMemory PROVE OneByOne'
<1> USE DEF RxNoMemory, host, r, pserial, history
<1>1. sent # <<>> /\ waiting = {Len(sent)} /\ Received /\ rx = "post"
  BY WhereItIs
<1>2. Cur' = Cur /\ Numbered'
  BY SameRequest
<1>3. Received'
  BY <1>1, <1>2 DEF Received, Asks
<1>4. QED
  BY <1>1, <1>2, <1>3 DEF OneByOne

\* Taking an event leaves the request where it is; taking the request makes it pserial_task's.
LEMMA PsTakeOne == ASSUME Inv, OneByOne, PsTake PROVE OneByOne'
<1> USE DEF PsTake, host, r, recv, history
<1>1. Cur' = Cur /\ Numbered' /\ \A i : Piece(i)' = Piece(i)
  BY SameRequest
<1>2. queue \in Seq(Items) /\ queue # <<>> /\ queue' = Tail(queue)
  BY DEF Inv, TypeOK, Items
<1>3. \A i \in DOMAIN queue' : i + 1 \in DOMAIN queue /\ queue'[i] = queue[i + 1]
  BY <1>2, TailAsks
<1>4. 1 \in DOMAIN queue /\ queue[1] = Head(queue)
  BY <1>2, TailAsks
<1>5. \A i \in Asks' : i + 1 \in Asks /\ queue'[i].text = queue[i + 1].text
  BY <1>3 DEF Asks
<1>6. Asks = {} => Asks' = {}
  BY <1>5
<1>7. ~Head(queue).event => 1 \in Asks
  BY <1>4 DEF Asks
<1>8. CASE Received
  <2>1. \A i \in Asks' : queue'[i].text = Cur
    BY <1>5, <1>8 DEF Received
  <2>2. ps' \in {"take", "recv"} /\ (ps' = "recv" => arg' = Cur)
    BY <1>4, <1>7, <1>8 DEF Received
  <2>3. Received'
    BY <1>1, <1>8, <2>1, <2>2 DEF Received
  <2>4. waiting # {} => sent # <<>> /\ waiting = {Len(sent)}
    BY DEF OneByOne
  <2>5. waiting # {}
    BY <1>8 DEF OneByOne, AtRest, LinkEmpty, Received
  <2>6. QED
    BY <1>1, <2>3, <2>4, <2>5 DEF OneByOne
<1>9. CASE Asks = {} /\ Receiving
  <2>1. UNCHANGED <<ps, arg>> /\ Asks' = {}
    BY <1>6, <1>7, <1>9
  <2>2. PsWaits' /\ Len(handled)' = Len(sent)' - 1
    BY <1>9, <2>1 DEF Receiving, PsWaits
  <2>3. \A j : (Begun(j) => Begun(j)') /\ (OnWire(j) => OnWire(j)')
    BY <1>1 DEF Begun, OnWire
  <2>4. Receiving'
    BY <1>1, <1>9, <2>2, <2>3 DEF Receiving
  <2>5. waiting # {}
    BY <1>9 DEF OneByOne, Receiving
  <2>6. QED
    BY <1>1, <2>4, <2>5 DEF OneByOne
<1>10. CASE AtRest
  <2>1. UNCHANGED <<ps, arg>> /\ Asks' = {}
    BY <1>6, <1>7, <1>10 DEF AtRest, LinkEmpty
  <2>2. AtRest'
    BY <1>10, <2>1 DEF AtRest, LinkEmpty
  <2>3. QED
    BY <1>1, <2>2 DEF OneByOne
<1>11. QED
  BY <1>8, <1>9, <1>10 DEF OneByOne, Receiving, PsWaits, TakenOut, BeingHandled

LEMMA PsRecvOne == ASSUME Inv, OneByOne, PsRecv PROVE OneByOne'
<1> USE DEF PsRecv, host, recv, history
<1>1. sent # <<>> /\ waiting = {Len(sent)} /\ Received /\ ps = "recv"
  BY WhereItIs
<1>2. valid /\ data = Cur /\ arg = Cur /\ Asks = {} /\ rx = "read" /\ Asks' = Asks
  BY <1>1 DEF Received, Inv, QueuedRequestHoldsBuffer, PostsWhenAlone, Asks
<1>3. Cur' = Cur /\ Numbered'
  BY SameRequest
<1>4. Cur \in Seq(Parts) /\ Len(Cur) \in Nat
  BY <1>1, RequestShape
<1>5. arg' = SubSeq(Cur, 1, Len(Cur)) /\ valid' = FALSE /\ ps' = "len"
  BY <1>2 DEF Length
<1>6. arg' = Cur
  <2>1. Len(arg') = Len(Cur) /\ \A i \in 1 .. Len(arg') : arg'[i] = Cur[i]
    BY <1>4, <1>5
  <2>2. arg' \in Seq(Parts)
    BY <1>4, <1>5
  <2>3. QED
    BY <1>4, <2>1, <2>2, SeqEqual
<1>7. TakenOut'
  BY <1>1, <1>2, <1>3, <1>5, <1>6 DEF TakenOut, LinkEmpty, Received
<1>8. QED
  BY <1>1, <1>3, <1>7 DEF OneByOne

LEMMA PsClearOne == ASSUME Inv, OneByOne, PsClearLen \/ PsClearSeq PROVE OneByOne'
<1> USE DEF PsClearLen, PsClearSeq, host, recv, history
<1>1. sent # <<>> /\ waiting = {Len(sent)} /\ TakenOut /\ ps \in {"len", "seq"}
  BY WhereItIs
<1>2. Cur' = Cur /\ Numbered'
  BY SameRequest
<1>3. TakenOut'
  BY <1>1, <1>2 DEF TakenOut, LinkEmpty, Asks
<1>4. QED
  BY <1>1, <1>2, <1>3 DEF OneByOne

LEMMA PsRefuseOne == ASSUME Inv, OneByOne, PsRefuse PROVE OneByOne'
<1> USE DEF PsRefuse, host, r, recv
<1>1. sent # <<>> /\ waiting = {Len(sent)} /\ TakenOut /\ ps = "handle"
  BY WhereItIs
<1>2. Cur' = Cur /\ Numbered'
  BY SameRequest
<1>3. AtRest'
  BY <1>1 DEF TakenOut, AtRest, LinkEmpty, Asks
<1>4. QED
  BY <1>1, <1>2, <1>3 DEF OneByOne

\* The handler gets the last request, whole, and it is the next one to be handled.
LEMMA PsHandleOne ==
  ASSUME Inv, OneByOne, PsHandle
  PROVE  OneByOne' /\ sent # <<>> /\ Len(handled) = Len(sent) - 1 /\ handled' = Append(handled, Cur)
<1> USE DEF PsHandle, host, r, recv, history
<1>1. /\ sent # <<>> /\ waiting = {Len(sent)} /\ TakenOut /\ ps = "handle"
      /\ Len(handled) = Len(sent) - 1 /\ arg = Cur
  BY WhereItIs DEF TakenOut
<1>2. Cur' = Cur /\ Numbered'
  BY SameRequest
<1>3. handled \in Seq(Texts) /\ sent \in Seq(Texts) /\ handled' = Append(handled, arg)
  BY DEF Inv, TypeOK
<1>4. Len(handled)' = Len(sent)'
  BY <1>1, <1>3
<1>5. BeingHandled'
  BY <1>1, <1>2, <1>4 DEF TakenOut, BeingHandled, LinkEmpty, Asks
<1>6. QED
  BY <1>1, <1>2, <1>3, <1>5 DEF OneByOne

LEMMA PsPostOwnOne == ASSUME Inv, OneByOne, PsPostOwn PROVE OneByOne'
<1> USE DEF PsPostOwn, host, r, recv, history
<1>1. sent # <<>> /\ waiting = {Len(sent)} /\ BeingHandled
  BY WhereItIs
<1>2. Cur' = Cur /\ Numbered'
  BY SameRequest
<1>3. queue \in Seq(Items) /\ queue' = Append(queue, Event)
  BY DEF Inv, TypeOK, Items, Post
<1>4. Asks' = Asks
  BY <1>3, AppendEvent DEF Asks
<1>5. BeingHandled'
  BY <1>1, <1>2, <1>4 DEF BeingHandled, LinkEmpty
<1>6. QED
  BY <1>1, <1>2, <1>5 DEF OneByOne

LEMMA PsAnswerOne == ASSUME Inv, OneByOne, PsAnswer \/ PsAnswerLost PROVE OneByOne'
<1> USE DEF PsAnswer, PsAnswerLost, host, r, recv, history
<1>1. sent # <<>> /\ waiting = {Len(sent)} /\ BeingHandled
  BY WhereItIs
<1>2. Cur' = Cur /\ Numbered'
  BY SameRequest
<1>3. AtRest' /\ Len(handled)' = Len(sent)'
  BY <1>1 DEF BeingHandled, AtRest, LinkEmpty, Asks
<1>4. waiting' = {} \/ waiting' = waiting
  <2>1. Request(arg[1]) = Len(sent)
    BY <1>1, RequestShape DEF BeingHandled
  <2>2. QED
    BY <1>1, <2>1
<1>5. QED
  BY <1>1, <1>2, <1>3, <1>4 DEF OneByOne

LEMMA EventPostedOne == ASSUME Inv, OneByOne, EventPosted PROVE OneByOne'
<1> USE DEF EventPosted, host, r, recv, pserial
<1>1. Cur' = Cur /\ Numbered' /\ \A i : Piece(i)' = Piece(i)
  BY SameRequest
<1>2. queue \in Seq(Items) /\ queue' = Append(queue, Event)
  BY DEF Inv, TypeOK, Items, Post
<1>3. Asks' = Asks
  BY <1>2, AppendEvent DEF Asks
<1>4. \A i \in Asks : queue'[i] = queue[i]
  BY <1>2 DEF Asks
<1>5. \A j : (Begun(j) => Begun(j)') /\ (OnWire(j) => OnWire(j)')
  BY <1>1 DEF Begun, OnWire
<1>6. Receiving => Receiving'
  BY <1>1, <1>3, <1>5 DEF Receiving, PsWaits
<1>7. Received => Received'
  BY <1>1, <1>3, <1>4 DEF Received
<1>8. (TakenOut => TakenOut') /\ (BeingHandled => BeingHandled') /\ (AtRest => AtRest')
  BY <1>1, <1>3 DEF TakenOut, BeingHandled, AtRest, LinkEmpty
<1>9. QED
  BY <1>1, <1>6, <1>7, <1>8 DEF OneByOne

\* The host sends only when nothing is under way.
LEMMA HostSendsOne ==
  ASSUME Inv, OneByOne, HostSends, Window = 1
  PROVE  /\ OneByOne'
         /\ \E n \in 1 .. MaxRequests, k \in 1 .. MaxFrags : sent' = Append(sent, Message(n, k))
<1> USE DEF HostSends, r, recv, pserial, history
<1>1. /\ sent \in Seq(Texts) /\ Len(sent) \in Nat /\ Len(sent) < MaxRequests
      /\ waiting \subseteq 1 .. Len(sent)
  BY DEF Inv, TypeOK
<1>2. waiting = {}
  <2>1. IsFiniteSet(waiting)
    <3>1. 1 \in Int /\ Len(sent) \in Int
      BY <1>1
    <3>2. IsFiniteSet(1 .. Len(sent))
      BY <3>1, FS_Interval
    <3>3. QED
      BY <1>1, <3>2, FS_Subset
  <2>2. Cardinality(waiting) \in Nat /\ Cardinality(waiting) < 1
    BY <2>1, FS_CardinalityType
  <2>3. Cardinality(waiting) = 0
    BY <2>2
  <2>4. QED
    BY <2>1, <2>3, FS_EmptySet
<1>3. AtRest /\ Len(handled) = Len(sent)
  BY <1>2 DEF OneByOne
<1> DEFINE n == Len(sent) + 1
<1>4. PICK k \in 1 .. MaxFrags :
        /\ sent' = Append(sent, Message(n, k))
        /\ waiting' = waiting \cup {n}
        /\ wire' = wire \o [i \in 1 .. k |-> [part |-> <<n, i>>, more |-> i < k]]
  OBVIOUS
<1>5. n \in 1 .. MaxRequests /\ k \in Nat \ {0} /\ n \in Nat \ {0}
  BY <1>1, ConstantsAreNat
<1>6. /\ Message(n, k) \in Texts
      /\ [i \in 1 .. k |-> [part |-> <<n, i>>, more |-> i < k]] \in Seq(Fragments)
  BY <1>5, MessageTyped
<1>7. sent' \in Seq(Texts) /\ Len(sent') = n /\ sent'[n] = Message(n, k) /\ sent' # <<>>
  BY <1>1, <1>4, <1>6
<1>8. Cur' = Message(n, k)
  BY <1>7 DEF Cur
<1>9. Len(Message(n, k)) = k /\ \A i \in 1 .. k : Message(n, k)[i] = <<n, i>>
  BY <1>5 DEF Message
<1>10. Numbered'
  BY <1>6, <1>7, <1>8, <1>9 DEF Numbered
<1>11. /\ Len(wire') = k
       /\ \A i \in 1 .. k : wire'[i] = [part |-> <<n, i>>, more |-> i < k]
  <2> DEFINE fragments == [i \in 1 .. k |-> [part |-> <<n, i>>, more |-> i < k]]
  <2>1. Len(fragments) = k /\ \A i \in 1 .. k : fragments[i] = [part |-> <<n, i>>, more |-> i < k]
    BY <1>5
  <2>2. wire' = <<>> \o fragments /\ fragments \in Seq(Fragments)
    BY <1>3, <1>4, <1>6 DEF AtRest, LinkEmpty
  <2> HIDE DEF fragments
  <2>3. <<>> \o fragments = fragments
    BY <2>2
  <2>4. QED
    BY <2>1, <2>2, <2>3
<1>12. OnWire(0)'
  <2>1. \A i \in 1 .. k : Piece(0 + i)' = [part |-> <<n, i>>, more |-> i < k]
    <3> TAKE i \in 1 .. k
    <3>1. 0 + i = i /\ Len(Cur') = k /\ Cur'[i] = <<n, i>>
      BY <1>5, <1>8, <1>9
    <3>2. Piece(0 + i)' = [part |-> Cur'[0 + i], more |-> 0 + i < Len(Cur')]
      BY DEF Piece
    <3>3. QED
      BY <3>1, <3>2
  <2>2. Len(wire') = Len(Cur') - 0
    BY <1>5, <1>8, <1>9, <1>11
  <2>3. QED
    BY <1>11, <2>1, <2>2 DEF OnWire
<1>13. Begun(0)'
  BY <1>3 DEF Begun, AtRest, LinkEmpty
<1>14. PsWaits' /\ rx' = "read" /\ Len(handled)' = Len(sent)' - 1
  BY <1>1, <1>3, <1>7 DEF PsWaits, AtRest, LinkEmpty, Asks
<1>15. Receiving'
  <2>1. 0 \in 0 .. Len(Cur)' /\ 0 < Len(Cur)'
    BY <1>5, <1>8, <1>9
  <2>2. QED
    BY <1>12, <1>13, <1>14, <2>1 DEF Receiving
<1>16. waiting' = {Len(sent')}
  BY <1>2, <1>4, <1>7
<1>17. QED
  BY <1>4, <1>5, <1>7, <1>10, <1>15, <1>16 DEF OneByOne

LEMMA InitOne == Init => OneByOne
<1> SUFFICES ASSUME Init PROVE OneByOne
  OBVIOUS
<1>1. Asks = {} /\ Len(handled) = 0 /\ Len(sent) = 0
  BY DEF Init, Asks
<1>2. QED
  BY <1>1 DEF Init, OneByOne, Numbered, AtRest, LinkEmpty

LEMMA StutterOne == ASSUME OneByOne, UNCHANGED vars PROVE OneByOne'
<1>1. /\ Cur' = Cur /\ Asks' = Asks /\ UNCHANGED <<sent, waiting, wire, valid, data, cur_seq_no>>
      /\ UNCHANGED <<rx, frag, room, copy, queue, ps, arg, handled>>
  BY DEF vars, host, r, recv, pserial, Cur, Asks
<1>2. \A i : Piece(i)' = Piece(i)
  BY <1>1 DEF Piece
<1>3. \A j : Begun(j)' = Begun(j) /\ OnWire(j)' = OnWire(j)
  BY <1>1, <1>2 DEF Begun, OnWire
<1>4. Numbered' /\ (Receiving => Receiving') /\ (Received => Received')
  BY <1>1, <1>2, <1>3 DEF OneByOne, Numbered, Receiving, PsWaits, Received
<1>5. (TakenOut => TakenOut') /\ (BeingHandled => BeingHandled') /\ (AtRest => AtRest')
  BY <1>1 DEF TakenOut, BeingHandled, AtRest, LinkEmpty
<1>6. QED
  BY <1>1, <1>4, <1>5 DEF OneByOne

LEMMA NoRestarts == ASSUME Inv, MaxRestarts = 0 PROVE ~HostRestarts
  BY DEF Inv, TypeOK, HostRestarts

LEMMA OneByOneSteps ==
  ASSUME Window = 1, MaxRestarts = 0, Inv, OneByOne, [Next]_vars
  PROVE  OneByOne'
<1>1. CASE HostSends \/ EventPosted
  BY <1>1, HostSendsOne, EventPostedOne
<1>2. CASE RecvTask \/ Failure
  BY <1>2, RxReadOne, RxOpenOne, RxStoreOne, RxFinishOne, RxPostOne, RxNoMemoryOne,
     PsAnswerOne DEF RecvTask, Failure
<1>3. CASE PserialTask
  BY <1>3, PsTakeOne, PsRecvOne, PsClearOne, PsRefuseOne, PsHandleOne, PsPostOwnOne,
     PsAnswerOne DEF PserialTask
<1>4. CASE UNCHANGED vars
  BY <1>4, StutterOne
<1>5. QED
  BY <1>1, <1>2, <1>3, <1>4, NoRestarts DEF Next

\* Every step of the link is a step of the channel, or none: a request is sent, the
\* next one is handled as it was sent, a handled one is answered.
LEMMA ChannelSteps ==
  ASSUME Window = 1, MaxRestarts = 0, Inv, OneByOne, [Next]_vars
  PROVE  [Channel!Next]_(Channel!vars)
<1> USE DEF Channel!Next, Channel!vars
<1>1. CASE HostSends
  <2>1. \E m \in {Message(n, k) : n \in 1 .. MaxRequests, k \in 1 .. MaxFrags} :
          sent' = Append(sent, m)
    BY <1>1, HostSendsOne
  <2>2. UNCHANGED <<handled, answered>>
    BY <1>1 DEF HostSends, pserial
  <2>3. QED
    BY <2>1, <2>2 DEF Channel!Send
<1>2. CASE PsHandle
  <2>1. sent # <<>> /\ Len(handled) = Len(sent) - 1 /\ handled' = Append(handled, Cur)
    BY <1>2, PsHandleOne
  <2>2. sent \in Seq(Texts) /\ Len(handled) < Len(sent) /\ Len(handled) + 1 = Len(sent)
    BY <2>1 DEF Inv, TypeOK
  <2>3. handled' = Append(handled, sent[Len(handled) + 1])
    BY <2>1, <2>2 DEF Cur
  <2>4. UNCHANGED <<sent, answered>>
    BY <1>2 DEF PsHandle, host
  <2>5. QED
    BY <2>2, <2>3, <2>4 DEF Channel!Handle
<1>3. CASE PsAnswer
  <2>1. answered < Len(handled)
    BY <1>3 DEF Inv, AnswersHandled, PsAnswer
  <2>2. answered' = answered + 1 /\ UNCHANGED <<sent, handled>>
    BY <1>3 DEF PsAnswer
  <2>3. QED
    BY <2>1, <2>2 DEF Channel!Answer
<1>4. CASE RecvTask \/ Failure \/ EventPosted \/ UNCHANGED vars
  <2>1. UNCHANGED <<sent, handled, answered>>
    BY <1>4 DEF RecvTask, RxRead, RxOpen, RxStore, RxFinish, RxPost, Failure, RxNoMemory,
       PsAnswerLost, EventPosted, vars, host, pserial
  <2>2. QED
    BY <2>1
<1>5. CASE PsTake \/ PsRecv \/ PsClearLen \/ PsClearSeq \/ PsRefuse \/ PsPostOwn
  <2>1. UNCHANGED <<sent, handled, answered>>
    BY <1>5 DEF PsTake, PsRecv, PsClearLen, PsClearSeq, PsRefuse, PsPostOwn, host
  <2>2. QED
    BY <2>1
<1>6. QED
  BY <1>1, <1>2, <1>3, <1>4, <1>5, NoRestarts DEF Next, PserialTask

\* With a host that awaits each answer and does not restart, recv_task and
\* pserial_task are the channel: each request reaches its handler as it was sent, once
\* and in order, whatever the sizes, the events and the failures.
THEOREM LinkImplementsChannel ==
  ASSUME Window = 1, MaxRestarts = 0
  PROVE  Spec => ImplementsRpcChannel
<1>1. Init => Channel!Init
  BY DEF Init, Channel!Init
<1>2. Inv /\ OneByOne /\ [Next]_vars => OneByOne'
  BY OneByOneSteps
<1>3. Inv /\ OneByOne /\ [Next]_vars => [Channel!Next]_(Channel!vars)
  BY ChannelSteps
<1>4. QED
  BY <1>1, <1>2, <1>3, InitOne, InvIsInvariant, PTL DEF Spec, ImplementsRpcChannel, Channel!Spec
=============================================================================
