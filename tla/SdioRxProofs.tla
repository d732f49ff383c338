--------------------------- MODULE SdioRxProofs ---------------------------
(***************************************************************************)
(* Theorems about SdioRx, for every number of buffers and every set of     *)
(* configurations: no buffer is lost, sdio_rx_sem agrees with the three    *)
(* queues, and the task that fills them never waits for room.              *)
(***************************************************************************)
EXTENDS SdioRx, Integers, TLAPS

Good == Packets \ {Bad}

\* The types without the bounds, which follow from the two sums.
Shape ==
  /\ loaded \in Nat
  /\ arrived \in Seq(Packets)
  /\ queue \in [Queues -> Seq(Good)]
  /\ sdio_rx_sem \in Nat
  /\ rx \in {"recv", "check", "measure", "throttle", "interrupt", "queue", "give"}
  /\ recv \in {"poll", "take", "fetch", "check", "release", "interrupt", "process"}
  /\ rxPacket \in Good \cup {NoPacket}
  /\ recvPacket \in Good \cup {NoPacket}
  /\ high \in Percent
  /\ low \in Percent

Booleans ==
  datapath \in BOOLEAN /\ throttling \in BOOLEAN /\ hostThrottled \in BOOLEAN

\* A task has a packet in hand exactly between getting it and passing it on.
Hands ==
  /\ (rxPacket # NoPacket) <=> rx \in {"check", "measure", "throttle", "interrupt", "queue"}
  /\ (recvPacket # NoPacket) <=> recv \in {"check", "release", "interrupt", "process"}

Inv == Booleans /\ Shape /\ Hands /\ BuffersAccounted /\ PermitsMatchQueues

-----------------------------------------------------------------------------
(* Sequences and constants.                                                *)

LEMMA Distinct ==
  /\ Buffers \in Nat /\ Buffers >= 1
  /\ Serial # Bt /\ Serial # Others /\ Bt # Others
  /\ NoPacket \notin Packets
  /\ {Serial, Bt, Others} \subseteq Good
  BY SdioRxAssumption DEF Queues, Packets, Good

LEMMA Thresholds == \A c \in Configs : c[1] \in Percent /\ c[2] \in Percent
  BY SdioRxAssumption

LEMMA Appended ==
  ASSUME NEW S, NEW s \in Seq(S), NEW e \in S
  PROVE  Append(s, e) \in Seq(S) /\ Len(Append(s, e)) = Len(s) + 1 /\ Len(s) \in Nat
  OBVIOUS

LEMMA Taken ==
  ASSUME NEW S, NEW s \in Seq(S), s # <<>>
  PROVE  /\ Head(s) \in S /\ Tail(s) \in Seq(S)
         /\ Len(Tail(s)) = Len(s) - 1 /\ Len(s) \in Nat /\ Len(s) >= 1
  OBVIOUS

LEMMA Lengths ==
  ASSUME Shape
  PROVE  /\ Len(queue[Serial]) \in Nat /\ Len(queue[Bt]) \in Nat
         /\ Len(queue[Others]) \in Nat /\ Len(arrived) \in Nat
         /\ Waiting \in Nat
  BY DEF Shape, Queues, Waiting

LEMMA Summands ==
  ASSUME NEW a \in Nat, NEW b \in Nat, NEW c \in Nat
  PROVE  a <= a + b + c /\ b <= a + b + c /\ c <= a + b + c
  OBVIOUS

\* The sum over the queues changes as the one queue that does.
LEMMA SumMoves ==
  ASSUME Shape, NEW q \in Queues, NEW d \in Int,
         \A p \in Queues : Len(queue'[p]) = IF p = q THEN Len(queue[p]) + d ELSE Len(queue[p])
  PROVE  Waiting' = Waiting + d
<1> DEFINE a == Len(queue[Serial])
           b == Len(queue[Bt])
           c == Len(queue[Others])
<1>1. a \in Nat /\ b \in Nat /\ c \in Nat
  BY Lengths
<1>2. /\ Len(queue'[Serial]) = IF q = Serial THEN a + d ELSE a
      /\ Len(queue'[Bt]) = IF q = Bt THEN b + d ELSE b
      /\ Len(queue'[Others]) = IF q = Others THEN c + d ELSE c
  BY DEF Queues
<1>3. \/ q = Serial /\ q # Bt /\ q # Others
      \/ q # Serial /\ q = Bt /\ q # Others
      \/ q # Serial /\ q # Bt /\ q = Others
  BY Distinct DEF Queues
<1>4. Waiting = a + b + c /\ Waiting' = Len(queue'[Serial]) + Len(queue'[Bt]) + Len(queue'[Others])
  BY DEF Waiting
<1> HIDE DEF a, b, c
<1>5. QED
  BY <1>1, <1>2, <1>3, <1>4

\* A packet is put into exactly one of the queues, so their sum grows by one.
LEMMA QueueGrows ==
  ASSUME Shape, NEW q \in Queues, NEW e \in Good,
         queue' = [queue EXCEPT ![q] = Append(@, e)]
  PROVE  queue' \in [Queues -> Seq(Good)] /\ Waiting' = Waiting + 1
<1>1. queue[q] \in Seq(Good) /\ queue'[q] = Append(queue[q], e)
  BY DEF Shape
<1>2. \A p \in Queues \ {q} : queue'[p] = queue[p]
  BY DEF Shape
<1>3. queue' \in [Queues -> Seq(Good)]
  BY <1>1, Appended DEF Shape
<1>4. \A p \in Queues : Len(queue'[p]) = IF p = q THEN Len(queue[p]) + 1 ELSE Len(queue[p])
  BY <1>1, <1>2, Appended
<1>5. QED
  BY <1>3, <1>4, SumMoves

\* When a packet waits there is one first queue; taking its head leaves one less.
LEMMA OneFirst ==
  ASSUME Shape, Waiting > 0
  PROVE  \E q \in Queues : {p \in Queues : First(p)} = {q} /\ queue[q] # <<>>
<1>1. queue[Serial] # <<>> \/ queue[Bt] # <<>> \/ queue[Others] # <<>>
  <2>1. SUFFICES ASSUME queue[Serial] = <<>>, queue[Bt] = <<>>, queue[Others] = <<>>
                 PROVE  FALSE
    OBVIOUS
  <2>2. Waiting = 0
    BY <2>1 DEF Waiting
  <2>3. QED
    BY <2>2
<1>2. CASE queue[Serial] # <<>>
  <2>1. {p \in Queues : First(p)} = {Serial}
    BY <1>2, Distinct DEF First, Before, Queues
  <2>2. QED
    BY <2>1, <1>2 DEF Queues
<1>3. CASE queue[Serial] = <<>> /\ queue[Bt] # <<>>
  <2>1. {p \in Queues : First(p)} = {Bt}
    BY <1>3, Distinct DEF First, Before, Queues
  <2>2. QED
    BY <2>1, <1>3 DEF Queues
<1>4. CASE queue[Serial] = <<>> /\ queue[Bt] = <<>> /\ queue[Others] # <<>>
  <2>1. {p \in Queues : First(p)} = {Others}
    BY <1>4, Distinct DEF First, Before, Queues
  <2>2. QED
    BY <2>1, <1>4 DEF Queues
<1>5. QED
  BY <1>1, <1>2, <1>3, <1>4

LEMMA QueueShrinks ==
  ASSUME Shape, NEW q \in Queues, queue[q] # <<>>,
         queue' = [p \in Queues |-> IF p = q THEN Tail(queue[p]) ELSE queue[p]]
  PROVE  queue' \in [Queues -> Seq(Good)] /\ Waiting' = Waiting - 1
<1>1. queue[q] \in Seq(Good) /\ queue'[q] = Tail(queue[q])
  BY DEF Shape
<1>2. \A p \in Queues \ {q} : queue'[p] = queue[p]
  OBVIOUS
<1>3. queue' \in [Queues -> Seq(Good)]
  <2>1. \A p \in Queues : queue'[p] \in Seq(Good)
    BY <1>1, <1>2, Taken DEF Shape
  <2>2. QED
    BY <2>1
<1>4. \A p \in Queues : Len(queue'[p]) = IF p = q THEN Len(queue[p]) + (-1) ELSE Len(queue[p])
  BY <1>1, <1>2, Taken
<1>5. Waiting' = Waiting + (-1)
  BY <1>4, SumMoves
<1>6. QED
  BY <1>3, <1>5, Lengths

-----------------------------------------------------------------------------
LEMMA InitInv == Init => Inv
<1>1. SUFFICES ASSUME Init PROVE Inv
  OBVIOUS
<1>2. queue[Serial] = <<>> /\ queue[Bt] = <<>> /\ queue[Others] = <<>>
  BY <1>1 DEF Init, Queues
<1>3. Waiting = 0
  BY <1>2 DEF Waiting
<1>4. Booleans
  BY <1>1 DEF Init, Booleans
<1>5. Shape
  BY <1>1, <1>2, Distinct DEF Init, Shape, Percent
<1>6. Hands
  BY <1>1 DEF Init, Hands
<1>7. BuffersAccounted /\ PermitsMatchQueues
  BY <1>1, <1>3, Distinct DEF Init, BuffersAccounted, PermitsMatchQueues, Flag
<1>8. QED
  BY <1>5, <1>6, <1>7, <1>4 DEF Inv

LEMMA StepBooleans == Booleans /\ [Next]_vars => Booleans'
<1>1. SUFFICES ASSUME Booleans, [Next]_vars PROVE Booleans'
  OBVIOUS
<1>2. CASE RxThrottle
  BY <1>1, <1>2 DEF Booleans, RxThrottle
<1>3. CASE RxInterrupt
  BY <1>1, <1>3 DEF Booleans, RxInterrupt
<1>4. CASE RecvRelease
  BY <1>1, <1>4 DEF Booleans, RecvRelease
<1>5. CASE RecvInterrupt
  BY <1>1, <1>5 DEF Booleans, RecvInterrupt
<1>6. CASE SetDataPath
  BY <1>1, <1>6 DEF Booleans, SetDataPath, flow
<1>7. CASE UNCHANGED <<datapath, flow>>
  BY <1>1, <1>7 DEF Booleans, flow
<1>8. QED
  BY <1>1, <1>2, <1>3, <1>4, <1>5, <1>6, <1>7
  DEF Next, Host, SdioRxTask, RecvTask, HostSends, RxRecv, RxCheck, RxMeasure, RxQueue, RxGive,
      RecvPoll, RecvTake, RecvFetch, RecvCheck, RecvProcess, vars

\* Each action moves one buffer from one place to the next, and the count of
\* the semaphore with it.
LEMMA StepInv == Inv /\ [Next]_vars => Inv'
<1>1. SUFFICES ASSUME Inv, [Next]_vars PROVE Inv'
  OBVIOUS
<1>2. Booleans' /\ Shape /\ Hands /\ BuffersAccounted /\ PermitsMatchQueues
  BY <1>1, StepBooleans DEF Inv
<1>3. Len(arrived) \in Nat /\ Waiting \in Nat /\ loaded \in Nat /\ sdio_rx_sem \in Nat
  BY <1>2, Lengths DEF Shape
<1>4. ASSUME NEW p \in Packets, HostSends(p) PROVE Inv'
  <2>1. Shape'
    BY <1>2, <1>4, Appended DEF HostSends, Shape, rxTask, recvTask, flow
  <2>2. Hands'
    BY <1>2, <1>4, Distinct DEF HostSends, Hands, Shape, Good, rxTask, recvTask
  <2>3. Waiting' = Waiting
    BY <1>4 DEF HostSends, Waiting
  <2>4. BuffersAccounted'
    BY <1>2, <1>3, <1>4, <2>2, <2>3, Appended, Taken
    DEF HostSends, BuffersAccounted, Hands, Shape, Flag, rxTask, recvTask
  <2>5. PermitsMatchQueues'
    BY <1>2, <1>3, <1>4, <2>3
    DEF HostSends, PermitsMatchQueues, Flag, rxTask, recvTask
  <2>6. QED
    BY <1>2, <2>1, <2>2, <2>4, <2>5 DEF Inv
<1>5. CASE SetDataPath
  <2>1. Shape'
    BY <1>2, <1>5 DEF SetDataPath, Shape, rxTask, recvTask, flow
  <2>2. Hands'
    BY <1>2, <1>5, Distinct DEF SetDataPath, Hands, Shape, Good, rxTask, recvTask
  <2>3. Waiting' = Waiting
    BY <1>5 DEF SetDataPath, Waiting
  <2>4. BuffersAccounted'
    BY <1>2, <1>3, <1>5, <2>2, <2>3
    DEF SetDataPath, BuffersAccounted, Hands, Shape, Flag, rxTask, recvTask
  <2>5. PermitsMatchQueues'
    BY <1>2, <1>3, <1>5, <2>3
    DEF SetDataPath, PermitsMatchQueues, Flag, rxTask, recvTask
  <2>6. QED
    BY <1>2, <2>1, <2>2, <2>4, <2>5 DEF Inv
<1>6. CASE RxRecv
  <2>1. Shape'
    BY <1>2, <1>6, Taken, Distinct DEF RxRecv, Shape, Good, rxTask, recvTask, flow
  <2>2. Hands'
    BY <1>2, <1>6, Distinct DEF RxRecv, Hands, Shape, Good, rxTask, recvTask
  <2>3. Waiting' = Waiting
    BY <1>6 DEF RxRecv, Waiting
  <2>4. Len(arrived') = Len(arrived) - 1 /\ rxPacket = NoPacket
    BY <1>2, <1>6, Taken DEF RxRecv, Shape, Hands
  <2>5. BuffersAccounted'
    <3>1. CASE Head(arrived) = Bad
      BY <1>2, <1>3, <1>6, <2>3, <2>4, <3>1
      DEF RxRecv, BuffersAccounted, Flag, rxTask, recvTask
    <3>2. CASE Head(arrived) # Bad
      <4>1. rxPacket' # NoPacket
        BY <1>6, <2>2, <3>2 DEF RxRecv, Hands
      <4>2. QED
        BY <1>2, <1>3, <1>6, <2>3, <2>4, <3>2, <4>1
        DEF RxRecv, BuffersAccounted, Flag, recvTask
    <3>3. QED
      BY <3>1, <3>2
  <2>6. PermitsMatchQueues'
    BY <1>2, <1>3, <1>6, <2>3 DEF RxRecv, PermitsMatchQueues, Flag, rxTask, recvTask
  <2>7. QED
    BY <1>2, <2>1, <2>2, <2>5, <2>6 DEF Inv
<1>7. CASE RxCheck \/ RxMeasure \/ RxThrottle \/ RxInterrupt
  <2>1. Shape'
    BY <1>2, <1>7 DEF RxCheck, RxMeasure, RxThrottle, RxInterrupt, Shape, rxTask, recvTask, flow
  <2>2. Hands'
    BY <1>2, <1>7, Distinct
    DEF RxCheck, RxMeasure, RxThrottle, RxInterrupt, Hands, Shape, Good, rxTask, recvTask
  <2>3. Waiting' = Waiting
    BY <1>7 DEF RxCheck, RxMeasure, RxThrottle, RxInterrupt, Waiting
  <2>4. BuffersAccounted'
    BY <1>2, <1>3, <1>7, <2>2, <2>3
    DEF RxCheck, RxMeasure, RxThrottle, RxInterrupt, BuffersAccounted, Hands, Shape,
        Flag, rxTask, recvTask
  <2>5. PermitsMatchQueues'
    BY <1>2, <1>3, <1>7, <2>3
    DEF RxCheck, RxMeasure, RxThrottle, RxInterrupt, PermitsMatchQueues, Flag, rxTask,
        recvTask
  <2>6. QED
    BY <1>2, <2>1, <2>2, <2>4, <2>5 DEF Inv
<1>8. CASE RxQueue
  <2>1. rxPacket \in Good /\ QueueOf(rxPacket) \in Queues
    BY <1>2, <1>8 DEF RxQueue, Shape, Hands, QueueOf, Queues
  <2>2. queue' \in [Queues -> Seq(Good)] /\ Waiting' = Waiting + 1
    BY <1>2, <1>8, <2>1, QueueGrows DEF RxQueue
  <2>3. Shape'
    BY <1>2, <1>8, <2>2 DEF RxQueue, Shape, recvTask, flow
  <2>4. Hands'
    BY <1>2, <1>8, Distinct DEF RxQueue, Hands, recvTask
  <2>5. BuffersAccounted'
    BY <1>2, <1>3, <1>8, <2>4, <2>2
    DEF RxQueue, BuffersAccounted, Hands, Shape, Flag, rxTask, recvTask
  <2>6. PermitsMatchQueues'
    BY <1>2, <1>3, <1>8, <2>2 DEF RxQueue, PermitsMatchQueues, Flag, rxTask, recvTask
  <2>7. QED
    BY <1>2, <2>3, <2>4, <2>5, <2>6 DEF Inv
<1>9. CASE RxGive
  <2>1. Shape'
    BY <1>2, <1>9 DEF RxGive, Shape, rxTask, recvTask, flow
  <2>2. Hands'
    BY <1>2, <1>9, Distinct DEF RxGive, Hands, Shape, Good, rxTask, recvTask
  <2>3. Waiting' = Waiting
    BY <1>9 DEF RxGive, Waiting
  <2>4. BuffersAccounted'
    BY <1>2, <1>3, <1>9, <2>2, <2>3
    DEF RxGive, BuffersAccounted, Hands, Shape, Flag, rxTask, recvTask
  <2>5. PermitsMatchQueues'
    BY <1>2, <1>3, <1>9, <2>3 DEF RxGive, PermitsMatchQueues, Flag, rxTask, recvTask
  <2>6. QED
    BY <1>2, <2>1, <2>2, <2>4, <2>5 DEF Inv
<1>10. CASE RecvPoll \/ RecvCheck \/ RecvRelease \/ RecvInterrupt
  <2>1. Shape'
    BY <1>2, <1>10
    DEF RecvPoll, RecvCheck, RecvRelease, RecvInterrupt, Shape, rxTask, recvTask,
        flow
  <2>2. Hands'
    BY <1>2, <1>10, Distinct
    DEF RecvPoll, RecvCheck, RecvRelease, RecvInterrupt, Hands, Shape, Good,
        rxTask, recvTask
  <2>3. Waiting' = Waiting
    BY <1>10 DEF RecvPoll, RecvCheck, RecvRelease, RecvInterrupt, Waiting
  <2>4. BuffersAccounted'
    BY <1>2, <1>3, <1>10, <2>2, <2>3
    DEF RecvPoll, RecvCheck, RecvRelease, RecvInterrupt, BuffersAccounted, Hands,
        Shape, Flag, rxTask, recvTask
  <2>5. PermitsMatchQueues'
    BY <1>2, <1>3, <1>10, <2>3
    DEF RecvPoll, RecvCheck, RecvRelease, RecvInterrupt, PermitsMatchQueues, Flag,
        rxTask, recvTask
  <2>6. QED
    BY <1>2, <2>1, <2>2, <2>4, <2>5 DEF Inv
<1>11. CASE RecvTake
  <2>1. Shape'
    BY <1>2, <1>11 DEF RecvTake, Shape, rxTask, recvTask, flow
  <2>2. Hands'
    BY <1>2, <1>11, Distinct DEF RecvTake, Hands, Shape, Good, rxTask, recvTask
  <2>3. Waiting' = Waiting
    BY <1>11 DEF RecvTake, Waiting
  <2>4. BuffersAccounted'
    BY <1>2, <1>3, <1>11, <2>2, <2>3
    DEF RecvTake, BuffersAccounted, Hands, Shape, Flag, rxTask, recvTask
  <2>5. PermitsMatchQueues'
    BY <1>2, <1>3, <1>11, <2>3
    DEF RecvTake, PermitsMatchQueues, Flag, rxTask, recvTask
  <2>6. QED
    BY <1>2, <2>1, <2>2, <2>4, <2>5 DEF Inv
<1>12. CASE RecvFetch
  <2>1. Waiting > 0
    BY <1>2, <1>3, <1>12 DEF RecvFetch, PermitsMatchQueues, Flag
  <2>2. PICK q \in Queues : {p \in Queues : First(p)} = {q} /\ queue[q] # <<>>
    BY <1>2, <2>1, OneFirst
  <2>3. /\ recv' = "check"
        /\ queue' = [p \in Queues |-> IF p = q THEN Tail(queue[p]) ELSE queue[p]]
        /\ recvPacket' = Head(queue[q])
    BY <1>12, <2>2 DEF RecvFetch
  <2>4. queue' \in [Queues -> Seq(Good)] /\ Waiting' = Waiting - 1
    BY <1>2, <2>2, <2>3, QueueShrinks
  <2>5. recvPacket' \in Good
    BY <1>2, <2>2, <2>3, Taken DEF Shape
  <2>6. Shape'
    BY <1>2, <1>12, <2>3, <2>4, <2>5 DEF RecvFetch, Shape, rxTask, flow
  <2>7. Hands'
    BY <1>2, <1>12, <2>3, <2>5, Distinct DEF RecvFetch, Hands, Good, rxTask
  <2>8. recvPacket = NoPacket /\ recvPacket' # NoPacket
    BY <1>2, <1>12, <2>5, Distinct DEF RecvFetch, Hands, Good
  <2>9. BuffersAccounted'
    BY <1>2, <1>3, <1>12, <2>4, <2>8 DEF RecvFetch, BuffersAccounted, Flag, rxTask
  <2>10. PermitsMatchQueues'
    BY <1>2, <1>3, <1>12, <2>3, <2>4
    DEF RecvFetch, PermitsMatchQueues, Flag, rxTask, recvTask
  <2>11. QED
    BY <1>2, <2>6, <2>7, <2>9, <2>10 DEF Inv
<1>13. CASE RecvProcess
  <2>1. Shape'
    BY <1>2, <1>13, Thresholds DEF RecvProcess, Shape, rxTask, recvTask, flow
  <2>2. Hands'
    BY <1>2, <1>13, Distinct DEF RecvProcess, Hands, Shape, Good, rxTask, recvTask
  <2>3. Waiting' = Waiting
    BY <1>13 DEF RecvProcess, Waiting
  <2>4. BuffersAccounted'
    BY <1>2, <1>3, <1>13, <2>2, <2>3
    DEF RecvProcess, BuffersAccounted, Hands, Shape, Flag, rxTask, recvTask
  <2>5. PermitsMatchQueues'
    BY <1>2, <1>3, <1>13, <2>3
    DEF RecvProcess, PermitsMatchQueues, Flag, rxTask, recvTask
  <2>6. QED
    BY <1>2, <2>1, <2>2, <2>4, <2>5 DEF Inv
<1>14. CASE UNCHANGED vars
  <2>1. Shape'
    BY <1>2, <1>14 DEF vars, Shape, rxTask, recvTask, flow
  <2>2. Hands'
    BY <1>2, <1>14, Distinct DEF vars, Hands, Shape, Good, rxTask, recvTask
  <2>3. Waiting' = Waiting
    BY <1>14 DEF vars, Waiting
  <2>4. BuffersAccounted'
    BY <1>2, <1>3, <1>14, <2>2, <2>3
    DEF vars, BuffersAccounted, Hands, Shape, Flag, rxTask, recvTask
  <2>5. PermitsMatchQueues'
    BY <1>2, <1>3, <1>14, <2>3 DEF vars, PermitsMatchQueues, Flag, rxTask, recvTask
  <2>6. QED
    BY <1>2, <2>1, <2>2, <2>4, <2>5 DEF Inv
<1>15. QED
  BY <1>1, <1>4, <1>5, <1>6, <1>7, <1>8, <1>9, <1>10, <1>11, <1>12, <1>13, <1>14
  DEF Next, Host, SdioRxTask, RecvTask

LEMMA Invariant == Spec => []Inv
  BY InitInv, StepInv, PTL DEF Spec

-----------------------------------------------------------------------------
\* Whatever the number of buffers and the host's configurations, each buffer is
\* loaded, queued or in a task's hands: none is lost on an error path.
THEOREM NoBufferLost == Spec => []BuffersAccounted
<1>1. Inv => BuffersAccounted
  BY DEF Inv
<1>2. QED
  BY <1>1, Invariant, PTL

\* sdio_rx_sem and the queues agree: sdio_read finds a packet whenever it has
\* taken the semaphore.
THEOREM ReadFindsPacket == Spec => []PermitsMatchQueues
<1>1. Inv => PermitsMatchQueues
  BY DEF Inv
<1>2. QED
  BY <1>1, Invariant, PTL

\* The sums bound what each place holds.
LEMMA Bounds ==
  ASSUME Inv
  PROVE  /\ Buffers \in Nat /\ loaded \in 0 .. Buffers /\ sdio_rx_sem \in 0 .. Buffers
         /\ \A q \in Queues : Len(queue[q]) + Flag(rxPacket # NoPacket) <= Buffers
<1>1. /\ loaded \in Nat /\ sdio_rx_sem \in Nat /\ Len(arrived) \in Nat /\ Waiting \in Nat
      /\ Len(queue[Serial]) \in Nat /\ Len(queue[Bt]) \in Nat
      /\ Len(queue[Others]) \in Nat
  BY Lengths DEF Inv, Shape
<1> DEFINE held == Flag(rxPacket # NoPacket)
<1>2. held \in Nat
  BY DEF Flag
<1>3. loaded + Len(arrived) + Waiting + held <= Buffers /\ sdio_rx_sem <= Waiting
  <2>1. /\ Flag(recvPacket # NoPacket) \in Nat
        /\ Flag(rx = "give") \in Nat /\ Flag(recv = "fetch") \in Nat
    BY DEF Flag
  <2>2. PICK b \in Nat, c \in Nat, d \in Nat :
          /\ loaded + Len(arrived) + Waiting + held + b = Buffers
          /\ Waiting = sdio_rx_sem + c + d
    BY <2>1 DEF Inv, BuffersAccounted, PermitsMatchQueues
  <2> HIDE DEF held
  <2>3. QED
    BY <1>1, <1>2, <2>2
<1> HIDE DEF held
<1>4. Buffers \in Nat
  BY Distinct
<1>5. Waiting + held <= Buffers /\ loaded <= Buffers /\ sdio_rx_sem <= Buffers
  BY <1>1, <1>2, <1>3, <1>4
<1>6. /\ Len(queue[Serial]) <= Waiting /\ Len(queue[Bt]) <= Waiting
      /\ Len(queue[Others]) <= Waiting
  <2>1. Waiting = Len(queue[Serial]) + Len(queue[Bt]) + Len(queue[Others])
    BY DEF Waiting
  <2>2. QED
    BY <1>1, <2>1, Summands
<1>7. \A n \in Nat : n <= Waiting => n + held <= Buffers
  BY <1>1, <1>2, <1>4, <1>5
<1>8. \A q \in Queues : Len(queue[q]) + held <= Buffers
  BY <1>1, <1>6, <1>7 DEF Queues
<1>9. QED
  BY <1>1, <1>4, <1>5, <1>8 DEF held

\* Whatever the number of buffers, xQueueSend in sdio_rx_task never waits: while the
\* task has a packet in hand, the buffers left cannot fill the queue it goes to.
THEOREM QueueHasRoom == Spec => []RoomForPacket
<1>1. Inv => RoomForPacket
  <2>1. SUFFICES ASSUME Inv, rx = "queue" PROVE Len(queue[QueueOf(rxPacket)]) < Buffers
    BY DEF RoomForPacket
  <2>2. Flag(rxPacket # NoPacket) = 1
    BY <2>1 DEF Inv, Hands, Flag
  <2>3. QueueOf(rxPacket) \in Queues
    BY DEF QueueOf, Queues
  <2>4. Len(queue[QueueOf(rxPacket)]) + 1 <= Buffers /\ Buffers \in Nat
    BY <2>1, <2>2, <2>3, Bounds
  <2>5. \A q \in Queues : Len(queue[q]) \in Nat
    BY <2>1, Lengths DEF Inv, Queues
  <2>6. QED
    BY <2>3, <2>4, <2>5
<1>2. QED
  BY <1>1, Invariant, PTL

\* The types, with the bounds: no queue outgrows the length it was created with, and
\* the semaphore stays within its limit.
THEOREM TypeCorrect == Spec => []TypeOK
<1>1. Inv => TypeOK
  <2>1. SUFFICES ASSUME Inv PROVE TypeOK
    OBVIOUS
  <2>2. Flag(rxPacket # NoPacket) \in Nat /\ \A q \in Queues : Len(queue[q]) \in Nat
    BY <2>1, Lengths DEF Inv, Queues, Flag
  <2>3. \A q \in Queues : Len(queue[q]) <= Buffers
    BY <2>1, <2>2, Bounds
  <2>4. {datapath, throttling, hostThrottled} \subseteq BOOLEAN
    BY <2>1 DEF Inv, Booleans
  <2>5. {rxPacket, recvPacket} \subseteq Good \cup {NoPacket} /\ {high, low} \subseteq Percent
    BY <2>1 DEF Inv, Shape
  <2>6. QED
    BY <2>1, <2>3, <2>4, <2>5, Bounds DEF Inv, Shape, TypeOK, Good
<1>2. QED
  BY <1>1, Invariant, PTL
=============================================================================
