-------------------------- MODULE StaConnectProofs --------------------------
(***************************************************************************)
(* Theorems about StaConnect, for every set of configurations and every    *)
(* number of requests and losses: no accepted configuration is lost but by *)
(* the race the model names, and once all events are handled the handler's *)
(* statics and the host agree with the driver.                             *)
(*                                                                         *)
(* The second rests on the events between the driver and the handler: they *)
(* lead from what the handler has seen to what the driver is.              *)
(***************************************************************************)
EXTENDS StaConnect, SequenceTheorems, TLAPS

Events == [type : {"CONNECTED", "DISCONNECTED", "START", "STOP"}, net : MaybeConfig]

-----------------------------------------------------------------------------
(* The queue of events, as a walk between down and up.                     *)

UpAt(q, i) == q[i].type = "CONNECTED"
DownAt(q, i) == q[i].type = "DISCONNECTED"

HasUp(q) == \E i \in 1 .. Len(q) : UpAt(q, i)
HasDown(q) == \E i \in 1 .. Len(q) : DownAt(q, i)

\* Between two connections there is a disconnection.
TakesTurns(q) ==
  \A i, j \in 1 .. Len(q) :
    UpAt(q, i) /\ UpAt(q, j) /\ i < j
      => \E k \in 1 .. Len(q) : i < k /\ k < j /\ DownAt(q, k)

\* Before the first connection there is a disconnection.
DownFirst(q) ==
  \A j \in 1 .. Len(q) : UpAt(q, j) => \E k \in 1 .. Len(q) : k < j /\ DownAt(q, k)

\* The last that q says, if anything, is a connection, to n.
EndsUp(q, n) ==
  /\ \A i \in 1 .. Len(q) : DownAt(q, i) => \E k \in 1 .. Len(q) : i < k /\ UpAt(q, k)
  /\ \A i \in 1 .. Len(q) :
       UpAt(q, i) /\ (\A k \in 1 .. Len(q) : i < k => ~DownAt(q, k)) => q[i].net = n

\* The last that q says, if anything, is a disconnection.
EndsDown(q) ==
  \A i \in 1 .. Len(q) : UpAt(q, i) => \E k \in 1 .. Len(q) : i < k /\ DownAt(q, k)

LEMMA AppendFacts ==
  ASSUME NEW q \in Seq(Events), NEW e \in Events
  PROVE  /\ Len(q) \in Nat /\ Append(q, e) \in Seq(Events)
         /\ Len(Append(q, e)) = Len(q) + 1
         /\ \A i \in 1 .. Len(q) : Append(q, e)[i] = q[i]
         /\ Append(q, e)[Len(q) + 1] = e
  OBVIOUS

LEMMA TailFacts ==
  ASSUME NEW q \in Seq(Events), q # <<>>
  PROVE  /\ Len(q) \in Nat \ {0} /\ Tail(q) \in Seq(Events)
         /\ Head(q) = q[1] /\ Head(q) \in Events
         /\ Len(Tail(q)) = Len(q) - 1
         /\ \A i \in 1 .. Len(q) - 1 : Tail(q)[i] = q[i + 1]
  OBVIOUS

LEMMA ConcatOne ==
  ASSUME NEW q \in Seq(Events), NEW e \in Events
  PROVE  q \o <<e>> = Append(q, e) /\ q \o <<>> = q
  OBVIOUS

\* r is q and e, or q is e and r.
Longer(q, r, e) ==
  /\ Len(q) \in Nat /\ Len(r) = Len(q) + 1
  /\ \A i \in 1 .. Len(q) : r[i] = q[i]
  /\ r[Len(q) + 1] = e

Shorter(q, r, e) ==
  /\ Len(q) \in Nat \ {0} /\ Len(r) = Len(q) - 1
  /\ \A i \in 1 .. Len(q) - 1 : r[i] = q[i + 1]
  /\ q[1] = e

\* An event that is not about the connection changes nothing.
LEMMA OtherPosted ==
  ASSUME NEW q, NEW r, NEW e, NEW n, Longer(q, r, e),
         e.type \notin {"CONNECTED", "DISCONNECTED"}
  PROVE  /\ TakesTurns(q) => TakesTurns(r)
         /\ DownFirst(q) => DownFirst(r)
         /\ EndsUp(q, n) => EndsUp(r, n)
         /\ EndsDown(q) => EndsDown(r)
         /\ HasUp(q) => HasUp(r)
         /\ HasDown(q) => HasDown(r)
<1>1. /\ Len(q) \in Nat /\ Len(r) \in Nat
      /\ \A i \in 1 .. Len(q) : i \in 1 .. Len(r) /\ r[i] = q[i]
      /\ \A i \in 1 .. Len(r) : UpAt(r, i) \/ DownAt(r, i) => i \in 1 .. Len(q)
  BY DEF Longer, UpAt, DownAt
<1>2. \A i \in 1 .. Len(q) : (UpAt(r, i) <=> UpAt(q, i)) /\ (DownAt(r, i) <=> DownAt(q, i))
  BY <1>1 DEF UpAt, DownAt
<1>3. TakesTurns(q) => TakesTurns(r)
  BY <1>1, <1>2 DEF TakesTurns
<1>4. DownFirst(q) => DownFirst(r)
  BY <1>1, <1>2 DEF DownFirst
<1>5. EndsUp(q, n) => EndsUp(r, n)
  BY <1>1, <1>2 DEF EndsUp
<1>6. EndsDown(q) => EndsDown(r)
  BY <1>1, <1>2 DEF EndsDown
<1>7. (HasUp(q) => HasUp(r)) /\ (HasDown(q) => HasDown(r))
  BY <1>1, <1>2 DEF HasUp, HasDown
<1>8. QED
  BY <1>3, <1>4, <1>5, <1>6, <1>7

LEMMA DownPosted ==
  ASSUME NEW q, NEW r, NEW e, Longer(q, r, e), e.type = "DISCONNECTED"
  PROVE  /\ TakesTurns(q) => TakesTurns(r)
         /\ DownFirst(q) => DownFirst(r)
         /\ EndsDown(r) /\ HasDown(r)
<1>1. /\ Len(q) \in Nat /\ Len(r) \in Nat
      /\ Len(r) \in 1 .. Len(r) /\ DownAt(r, Len(r))
      /\ \A i \in 1 .. Len(q) : i \in 1 .. Len(r) /\ i < Len(r) /\ r[i] = q[i]
      /\ \A i \in 1 .. Len(r) : UpAt(r, i) => i \in 1 .. Len(q)
  BY DEF Longer, UpAt, DownAt
<1>2. \A i \in 1 .. Len(q) : (UpAt(r, i) <=> UpAt(q, i)) /\ (DownAt(r, i) <=> DownAt(q, i))
  BY <1>1 DEF UpAt, DownAt
<1>3. TakesTurns(q) => TakesTurns(r)
  BY <1>1, <1>2 DEF TakesTurns
<1>4. DownFirst(q) => DownFirst(r)
  BY <1>1, <1>2 DEF DownFirst
<1>5. EndsDown(r) /\ HasDown(r)
  BY <1>1 DEF EndsDown, HasDown
<1>6. QED
  BY <1>3, <1>4, <1>5

LEMMA UpPosted ==
  ASSUME NEW q, NEW r, NEW e, Longer(q, r, e), e.type = "CONNECTED",
         TakesTurns(q), EndsDown(q)
  PROVE  /\ TakesTurns(r)
         /\ DownFirst(q) /\ HasDown(q) => DownFirst(r)
         /\ EndsUp(r, e.net) /\ HasUp(r)
         /\ HasDown(q) => HasDown(r)
<1>1. /\ Len(q) \in Nat /\ Len(r) \in Nat
      /\ Len(r) \in 1 .. Len(r) /\ UpAt(r, Len(r)) /\ ~DownAt(r, Len(r))
      /\ r[Len(r)] = e
      /\ \A i \in 1 .. Len(q) : i \in 1 .. Len(r) /\ i < Len(r) /\ r[i] = q[i]
      /\ \A i \in 1 .. Len(r) : i = Len(r) \/ i \in 1 .. Len(q)
  BY DEF Longer, UpAt, DownAt
<1>2. \A i \in 1 .. Len(q) : (UpAt(r, i) <=> UpAt(q, i)) /\ (DownAt(r, i) <=> DownAt(q, i))
  BY <1>1 DEF UpAt, DownAt
<1>3. TakesTurns(r)
  <2> SUFFICES ASSUME NEW i \in 1 .. Len(r), NEW j \in 1 .. Len(r),
                      UpAt(r, i), UpAt(r, j), i < j
               PROVE  \E k \in 1 .. Len(r) : i < k /\ k < j /\ DownAt(r, k)
    BY DEF TakesTurns
  <2>1. i \in 1 .. Len(q) /\ UpAt(q, i)
    BY <1>1, <1>2
  <2>2. CASE j = Len(r)
    BY <1>1, <1>2, <2>1, <2>2 DEF EndsDown
  <2>3. CASE j \in 1 .. Len(q)
    BY <1>1, <1>2, <2>1, <2>3 DEF TakesTurns
  <2>4. QED
    BY <1>1, <2>2, <2>3
<1>4. DownFirst(q) /\ HasDown(q) => DownFirst(r)
  BY <1>1, <1>2 DEF DownFirst, HasDown
<1>5. EndsUp(r, e.net)
  <2>1. \A i \in 1 .. Len(r) : DownAt(r, i) => \E k \in 1 .. Len(r) : i < k /\ UpAt(r, k)
    BY <1>1
  <2>2. ASSUME NEW i \in 1 .. Len(r), UpAt(r, i),
               \A k \in 1 .. Len(r) : i < k => ~DownAt(r, k)
        PROVE  r[i].net = e.net
    BY <1>1, <1>2, <2>2 DEF EndsDown
  <2>3. QED
    BY <2>1, <2>2 DEF EndsUp
<1>6. HasUp(r) /\ (HasDown(q) => HasDown(r))
  BY <1>1, <1>2 DEF HasUp, HasDown
<1>7. QED
  BY <1>3, <1>4, <1>5, <1>6

\* What taking the first event leaves, whatever it is.
LEMMA AnyTaken ==
  ASSUME NEW q, NEW r, NEW e, NEW n, Shorter(q, r, e)
  PROVE  /\ TakesTurns(q) => TakesTurns(r)
         /\ EndsUp(q, n) => EndsUp(r, n)
         /\ EndsDown(q) => EndsDown(r)
<1>1. /\ Len(q) \in Nat /\ Len(r) \in Nat
      /\ \A i \in 1 .. Len(r) : i + 1 \in 1 .. Len(q) /\ r[i] = q[i + 1]
      /\ \A i, k \in 1 .. Len(q) : i < k => k - 1 \in 1 .. Len(r) /\ (k - 1) + 1 = k
  BY DEF Shorter
<1>2. \A i \in 1 .. Len(r) :
        (UpAt(r, i) <=> UpAt(q, i + 1)) /\ (DownAt(r, i) <=> DownAt(q, i + 1))
  BY <1>1 DEF UpAt, DownAt
<1>3. TakesTurns(q) => TakesTurns(r)
  <2> SUFFICES ASSUME TakesTurns(q), NEW i \in 1 .. Len(r), NEW j \in 1 .. Len(r),
                      UpAt(r, i), UpAt(r, j), i < j
               PROVE  \E k \in 1 .. Len(r) : i < k /\ k < j /\ DownAt(r, k)
    BY DEF TakesTurns
  <2>1. PICK k \in 1 .. Len(q) : i + 1 < k /\ k < j + 1 /\ DownAt(q, k)
    BY <1>1, <1>2 DEF TakesTurns
  <2>2. k - 1 \in 1 .. Len(r) /\ i < k - 1 /\ k - 1 < j /\ DownAt(r, k - 1)
    BY <1>1, <1>2, <2>1
  <2>3. QED
    BY <2>2
<1>4. ASSUME NEW i \in 1 .. Len(r), NEW k \in 1 .. Len(q), i + 1 < k
      PROVE  /\ k - 1 \in 1 .. Len(r) /\ i < k - 1
             /\ UpAt(q, k) => UpAt(r, k - 1)
             /\ DownAt(q, k) => DownAt(r, k - 1)
  <2>1. k - 1 \in 1 .. Len(r) /\ i < k - 1 /\ (k - 1) + 1 = k
    BY <1>1, <1>4
  <2>2. QED
    BY <1>2, <2>1
<1>5. EndsDown(q) => EndsDown(r)
  <2> SUFFICES ASSUME EndsDown(q), NEW i \in 1 .. Len(r), UpAt(r, i)
               PROVE  \E k \in 1 .. Len(r) : i < k /\ DownAt(r, k)
    BY DEF EndsDown
  <2>1. PICK k \in 1 .. Len(q) : i + 1 < k /\ DownAt(q, k)
    BY <1>1, <1>2 DEF EndsDown
  <2>2. QED
    BY <1>4, <2>1
<1>6. EndsUp(q, n) => EndsUp(r, n)
  <2> SUFFICES ASSUME EndsUp(q, n) PROVE EndsUp(r, n)
    OBVIOUS
  <2>1. ASSUME NEW i \in 1 .. Len(r), DownAt(r, i)
        PROVE  \E k \in 1 .. Len(r) : i < k /\ UpAt(r, k)
    <3>1. PICK k \in 1 .. Len(q) : i + 1 < k /\ UpAt(q, k)
      BY <1>1, <1>2, <2>1 DEF EndsUp
    <3>2. QED
      BY <1>4, <3>1
  <2>2. ASSUME NEW i \in 1 .. Len(r), UpAt(r, i),
               \A k \in 1 .. Len(r) : i < k => ~DownAt(r, k)
        PROVE  r[i].net = n
    <3>1. \A k \in 1 .. Len(q) : i + 1 < k => ~DownAt(q, k)
      BY <1>4, <2>2
    <3>2. i + 1 \in 1 .. Len(q) /\ UpAt(q, i + 1) /\ r[i] = q[i + 1]
      BY <1>1, <1>2, <2>2
    <3>3. QED
      BY <3>1, <3>2 DEF EndsUp
  <2>3. QED
    BY <2>1, <2>2 DEF EndsUp
<1>7. QED
  BY <1>3, <1>5, <1>6

LEMMA OtherTaken ==
  ASSUME NEW q, NEW r, NEW e, Shorter(q, r, e),
         e.type \notin {"CONNECTED", "DISCONNECTED"}
  PROVE  /\ DownFirst(q) => DownFirst(r)
         /\ HasUp(q) => HasUp(r)
         /\ HasDown(q) => HasDown(r)
<1>1. /\ Len(q) \in Nat /\ Len(r) \in Nat
      /\ \A i \in 1 .. Len(r) : i + 1 \in 1 .. Len(q) /\ r[i] = q[i + 1]
      /\ \A i \in 1 .. Len(q) : UpAt(q, i) \/ DownAt(q, i) => i - 1 \in 1 .. Len(r)
  BY DEF Shorter, UpAt, DownAt
<1>2. \A i \in 1 .. Len(q) : UpAt(q, i) => UpAt(r, i - 1)
  <2>1. \A i \in 1 .. Len(q) : (i - 1) + 1 = i
    BY <1>1
  <2>2. QED
    BY <1>1, <2>1 DEF UpAt
<1>3. \A i \in 1 .. Len(q) : DownAt(q, i) => DownAt(r, i - 1)
  <2>1. \A i \in 1 .. Len(q) : (i - 1) + 1 = i
    BY <1>1
  <2>2. QED
    BY <1>1, <2>1 DEF DownAt
<1>4. DownFirst(q) => DownFirst(r)
  <2> SUFFICES ASSUME DownFirst(q), NEW j \in 1 .. Len(r), UpAt(r, j)
               PROVE  \E k \in 1 .. Len(r) : k < j /\ DownAt(r, k)
    BY DEF DownFirst
  <2>1. j + 1 \in 1 .. Len(q) /\ UpAt(q, j + 1)
    BY <1>1 DEF UpAt
  <2>2. PICK k \in 1 .. Len(q) : k < j + 1 /\ DownAt(q, k)
    BY <2>1 DEF DownFirst
  <2>3. k - 1 \in 1 .. Len(r) /\ k - 1 < j /\ DownAt(r, k - 1)
    BY <1>1, <1>3, <2>2
  <2>4. QED
    BY <2>3
<1>5. (HasUp(q) => HasUp(r)) /\ (HasDown(q) => HasDown(r))
  BY <1>1, <1>2, <1>3 DEF HasUp, HasDown
<1>6. QED
  BY <1>4, <1>5

LEMMA DownTaken ==
  ASSUME NEW q, NEW r, NEW e, NEW n, Shorter(q, r, e), e.type = "DISCONNECTED",
         EndsUp(q, n)
  PROVE  HasUp(r)
<1>1. Len(q) \in Nat \ {0} /\ 1 \in 1 .. Len(q) /\ DownAt(q, 1)
  BY DEF Shorter, DownAt
<1>2. PICK k \in 1 .. Len(q) : 1 < k /\ UpAt(q, k)
  BY <1>1 DEF EndsUp
<1>3. k - 1 \in 1 .. Len(r) /\ (k - 1) + 1 = k /\ k - 1 \in 1 .. Len(q) - 1
  BY <1>1, <1>2 DEF Shorter
<1>4. UpAt(r, k - 1)
  BY <1>2, <1>3 DEF Shorter, UpAt
<1>5. QED
  BY <1>3, <1>4 DEF HasUp

LEMMA UpTaken ==
  ASSUME NEW q, NEW r, NEW e, NEW n, Shorter(q, r, e), e.type = "CONNECTED",
         TakesTurns(q)
  PROVE  /\ ~DownFirst(q)
         /\ DownFirst(r)
         /\ EndsUp(q, n) => HasUp(r) \/ e.net = n
         /\ EndsDown(q) => HasDown(r)
<1>1. /\ Len(q) \in Nat \ {0} /\ 1 \in 1 .. Len(q) /\ UpAt(q, 1) /\ q[1] = e
      /\ Len(r) = Len(q) - 1
      /\ \A i \in 1 .. Len(r) : i + 1 \in 1 .. Len(q) /\ r[i] = q[i + 1]
  BY DEF Shorter, UpAt
<1>2. ASSUME NEW k \in 1 .. Len(q), 1 < k
      PROVE  /\ k - 1 \in 1 .. Len(r) /\ r[k - 1] = q[k]
             /\ UpAt(q, k) => UpAt(r, k - 1)
             /\ DownAt(q, k) => DownAt(r, k - 1)
  <2>1. k - 1 \in 1 .. Len(r) /\ (k - 1) + 1 = k
    BY <1>1, <1>2
  <2>2. r[k - 1] = q[k]
    BY <1>1, <2>1
  <2>3. QED
    BY <2>1, <2>2 DEF UpAt, DownAt
<1>3. ~DownFirst(q)
  BY <1>1 DEF DownFirst
<1>4. DownFirst(r)
  <2> SUFFICES ASSUME NEW j \in 1 .. Len(r), UpAt(r, j)
               PROVE  \E k \in 1 .. Len(r) : k < j /\ DownAt(r, k)
    BY DEF DownFirst
  <2>1. j + 1 \in 1 .. Len(q) /\ UpAt(q, j + 1) /\ 1 < j + 1
    BY <1>1 DEF UpAt
  <2>2. PICK k \in 1 .. Len(q) : 1 < k /\ k < j + 1 /\ DownAt(q, k)
    BY <1>1, <2>1 DEF TakesTurns
  <2>3. k - 1 \in 1 .. Len(r) /\ k - 1 < j /\ DownAt(r, k - 1)
    BY <1>1, <1>2, <2>2
  <2>4. QED
    BY <2>3
<1>5. EndsUp(q, n) => HasUp(r) \/ e.net = n
  <2> SUFFICES ASSUME EndsUp(q, n), e.net # n PROVE HasUp(r)
    OBVIOUS
  <2>1. PICK k \in 1 .. Len(q) : 1 < k /\ DownAt(q, k)
    BY <1>1 DEF EndsUp
  <2>2. PICK m \in 1 .. Len(q) : k < m /\ UpAt(q, m)
    BY <2>1 DEF EndsUp
  <2>3. 1 < m
    BY <2>1, <2>2, <1>1
  <2>4. QED
    BY <1>2, <2>2, <2>3 DEF HasUp
<1>6. EndsDown(q) => HasDown(r)
  <2> SUFFICES ASSUME EndsDown(q) PROVE HasDown(r)
    OBVIOUS
  <2>1. PICK k \in 1 .. Len(q) : 1 < k /\ DownAt(q, k)
    BY <1>1 DEF EndsDown
  <2>2. QED
    BY <1>2, <2>1 DEF HasDown
<1>7. QED
  BY <1>3, <1>4, <1>5, <1>6

-----------------------------------------------------------------------------
(* Types.                                                                   *)

LEMMA Constants ==
  /\ NoConfig \in MaybeConfig /\ Configs \subseteq MaybeConfig /\ NoConfig \notin Configs
  /\ MaxRequests \in Nat /\ MaxLosses \in Nat
  /\ \A t \in {"CONNECTED", "DISCONNECTED", "START", "STOP"} : \A n \in MaybeConfig :
       Event(t, n) \in Events /\ Event(t, n).type = t /\ Event(t, n).net = n
  /\ Idle \in [at : {"idle", "set", "connect", "deinit", "init"}, cfg : MaybeConfig]
BY StaConnectAssumption DEF MaybeConfig, Event, Events, Idle

\* A disconnect, if there is one to post: what it is to the queue.
LEMMA HangupPosted ==
  ASSUME NEW q \in Seq(Events), NEW r, r = q \o Hangup, net \in MaybeConfig
  PROVE  /\ r \in Seq(Events)
         /\ Joining => Longer(q, r, Event("DISCONNECTED", net))
         /\ ~Joining => r = q
<1> DEFINE e == Event("DISCONNECTED", net)
<1>1. e \in Events
  BY Constants
<1> HIDE DEF e
<1>2. q \o <<e>> = Append(q, e) /\ q \o <<>> = q
  BY <1>1, ConcatOne
<1>3. CASE Joining
  <2>1. r = Append(q, e)
    BY <1>2, <1>3 DEF Hangup, e
  <2>2. r \in Seq(Events) /\ Longer(q, r, e)
    BY <1>1, <2>1, AppendFacts DEF Longer
  <2>3. QED
    BY <1>3, <2>2 DEF e
<1>4. CASE ~Joining
  <2>1. r = q
    BY <1>2, <1>4 DEF Hangup
  <2>2. QED
    BY <2>1, <1>4
<1>5. QED
  BY <1>3, <1>4

\* One event posted.
LEMMA OnePosted ==
  ASSUME NEW q \in Seq(Events), NEW e \in Events, NEW r, r = Append(q, e)
  PROVE  r \in Seq(Events) /\ Longer(q, r, e)
BY AppendFacts DEF Longer

\* What esp_wifi_stop posts: a disconnect, and then that it has stopped.
LEMMA StopPosted ==
  ASSUME events \in Seq(Events), net \in MaybeConfig, NEW s, DriverStop(s)
  PROVE  /\ events' \in Seq(Events)
         /\ Joining =>
              \E q \in Seq(Events) :
                /\ Longer(events, q, Event("DISCONNECTED", net))
                /\ Longer(q, events', Event("STOP", NoConfig))
         /\ ~Joining =>
              events' = events \/ Longer(events, events', Event("STOP", NoConfig))
<1> DEFINE q == events \o Hangup
           e == Event("STOP", NoConfig)
<1>1. /\ q \in Seq(Events)
      /\ Joining => Longer(events, q, Event("DISCONNECTED", net))
      /\ ~Joining => q = events
  BY HangupPosted
<1>2. e \in Events
  BY Constants
<1>3. events' = q \o IF Running THEN <<e>> ELSE <<>>
  BY DEF DriverStop
<1>4. q \o <<e>> = Append(q, e) /\ q \o <<>> = q
  BY <1>1, <1>2, ConcatOne
<1> HIDE DEF q, e
<1>5. CASE Running
  <2>1. events' = Append(q, e)
    BY <1>3, <1>4, <1>5
  <2>2. events' \in Seq(Events) /\ Longer(q, events', e)
    BY <1>1, <1>2, <2>1, OnePosted
  <2>3. QED
    BY <1>1, <2>2 DEF e
<1>6. CASE ~Running
  <2>1. events' = q /\ ~Joining
    BY <1>3, <1>4, <1>6 DEF Running, Joining
  <2>2. QED
    BY <1>1, <2>1
<1>7. QED
  BY <1>5, <1>6

LEMMA Taken ==
  ASSUME events \in Seq(Events), NEW t, Take(t)
  PROVE  /\ events' \in Seq(Events) /\ Head(events) \in Events
         /\ Head(events).type = t /\ Head(events).net \in MaybeConfig
         /\ Shorter(events, events', Head(events))
<1>1. events # <<>> /\ Head(events).type = t /\ events' = Tail(events)
  BY DEF Take
<1>2. Head(events) \in Events /\ events' \in Seq(Events)
  BY <1>1, TailFacts
<1>3. Shorter(events, events', Head(events))
  BY <1>1, TailFacts DEF Shorter
<1>4. QED
  BY <1>1, <1>2, <1>3 DEF Events

-----------------------------------------------------------------------------
(* The types are kept.                                                      *)

\* The types, those of the flags apart.
Flagged ==
  /\ wifi_initialized \in BOOLEAN /\ suppress_disconnect \in BOOLEAN
  /\ station_connecting \in BOOLEAN /\ station_connected \in BOOLEAN
  /\ new_config_recvd \in BOOLEAN
  /\ owed \in BOOLEAN /\ overtaken \in BOOLEAN /\ withdrawn \in BOOLEAN
  /\ loop.up \in BOOLEAN /\ loop.pending \in BOOLEAN

LoopAt == {"idle", "apply", "force", "up", "announce", "mark", "clear", "down", "settle",
           "rejoin", "tell"}

Valued ==
  /\ drv \in DriverStates /\ drvConfig \in MaybeConfig /\ net \in MaybeConfig
  /\ events \in Seq(Events)
  /\ new_wifi_config \in MaybeConfig /\ lkg_sta_connected_event \in MaybeConfig
  /\ rpc \in [at : {"idle", "set", "connect", "deinit", "init"}, cfg : MaybeConfig]
  /\ loop = [at |-> loop.at, net |-> loop.net, up |-> loop.up, pending |-> loop.pending]
  /\ loop.at \in LoopAt /\ loop.net \in MaybeConfig
  /\ told \in [is : {"nothing", "connected", "disconnected"}, net : MaybeConfig]
  /\ lastSet \in MaybeConfig
  /\ requests \in 0 .. MaxRequests /\ losses \in 0 .. MaxLosses

LEMMA TypesSplit == TypeOK <=> Flagged /\ Valued
<1> DEFINE up == loop.up
           pending == loop.pending
<1> HIDE DEF up, pending
<1>1. loop \in [at : LoopAt, net : MaybeConfig, up : BOOLEAN, pending : BOOLEAN]
        <=> /\ loop = [at |-> loop.at, net |-> loop.net, up |-> loop.up,
                       pending |-> loop.pending]
            /\ loop.at \in LoopAt /\ loop.net \in MaybeConfig
            /\ loop.up \in BOOLEAN /\ loop.pending \in BOOLEAN
  OBVIOUS
<1>2. QED
  BY <1>1, Zenon DEF TypeOK, Flagged, Valued, LoopAt, Events

LEMMA TypesOfPosts ==
  ASSUME Valued,
         \/ Disconnect \/ Stop \/ Reinit \/ Start \/ CutOld
         \/ AttemptSucceeds \/ AttemptFails \/ ConnectionLost
  PROVE  events' \in Seq(Events)
<1> USE DEF Valued
<1>1. \A n \in MaybeConfig : Event("CONNECTED", n) \in Events /\ Event("START", n) \in Events
  BY Constants
<1>2. CASE Disconnect \/ CutOld \/ AttemptFails \/ ConnectionLost
  BY <1>2, HangupPosted DEF Disconnect, CutOld, AttemptFails, ConnectionLost,
       DriverDisconnect
<1>3. CASE Stop
  BY <1>3, StopPosted DEF Stop
<1>4. CASE Reinit
  BY <1>4, StopPosted DEF Reinit
<1>5. CASE Start
  <2>1. NoConfig \in MaybeConfig /\ Event("START", NoConfig) \in Events
    BY <1>1, Constants
  <2>2. events' = events \/ events' = Append(events, Event("START", NoConfig))
    BY <1>5 DEF Start, driver
  <2>3. QED
    BY <2>1, <2>2, OnePosted
<1>6. CASE AttemptSucceeds
  BY <1>1, <1>6, OnePosted DEF AttemptSucceeds
<1>7. QED
  BY <1>2, <1>3, <1>4, <1>5, <1>6

LEMMA FlaggedKept == Flagged /\ Valued /\ [Next]_vars => Flagged'
<1> SUFFICES ASSUME Flagged, Valued, [Next]_vars PROVE Flagged'
  OBVIOUS
<1> USE DEF driver, statics, setting, history, Flagged
<1>1. CASE UNCHANGED vars
  BY <1>1 DEF vars
<1>2. ASSUME NEW c \in Configs, SetConfigCached(c) PROVE Flagged'
  BY <1>2 DEF SetConfigCached, Request, Cache, Remember
<1>3. ASSUME NEW c \in Configs, SetConfigCalled(c) PROVE Flagged'
  BY <1>3 DEF SetConfigCalled, Request
<1>4. CASE SetConfigReturns
  BY <1>4 DEF SetConfigReturns, DriverSetConfig, Cache, Remember
<1>5. CASE ConnectRefused
  BY <1>5 DEF ConnectRefused, Request
<1>6. CASE ConnectCalled
  BY <1>6 DEF ConnectCalled, Request
<1>7. CASE ConnectReturns
  BY <1>7 DEF ConnectReturns, DriverConnect
<1>8. CASE ConnectAlready
  BY <1>8 DEF ConnectAlready, Request
<1>9. CASE Disconnect
  BY <1>9 DEF Disconnect, Request, DriverDisconnect
<1>10. CASE Start
  BY <1>10 DEF Start, Request
<1>11. CASE Stop
  BY <1>11 DEF Stop, Request, DriverStop
<1>12. CASE Deinit
  BY <1>12 DEF Deinit, Request
<1>13. CASE Reinit
  BY <1>13 DEF Reinit, Request, DriverStop
<1>14. CASE ReinitDeinit
  BY <1>14 DEF ReinitDeinit
<1>15. CASE InitAgain
  BY <1>15 DEF InitAgain, Request
<1>16. CASE InitCalled
  BY <1>16 DEF InitCalled, Request
<1>17. CASE InitReturns
  BY <1>17 DEF InitReturns
<1>18. CASE HostRestart
  BY <1>18 DEF HostRestart, NothingTold
<1>19. CASE AttemptSucceeds
  BY <1>19 DEF AttemptSucceeds
<1>20. CASE AttemptFails
  BY <1>20 DEF AttemptFails
<1>21. CASE ConnectionLost
  BY <1>21 DEF ConnectionLost
<1>22. CASE OnConnected
  BY <1>22 DEF OnConnected
<1>23. CASE OnDisconnected
  BY <1>23 DEF OnDisconnected
<1>24. CASE OnStart
  BY <1>24 DEF OnStart
<1>25. CASE OnStop
  BY <1>25 DEF OnStop
<1>26. CASE Apply
  BY <1>26 DEF Apply, Goto, DriverSetConfig
<1>27. CASE CutOld
  BY <1>27 DEF CutOld, DriverDisconnect, LoopIdle
<1>28. CASE Up
  <2>1. loop'.up = loop.up /\ loop'.pending = loop.pending
    BY <1>28 DEF Up, Goto, Valued
  <2>2. QED
    BY <1>28, <2>1 DEF Up
<1>29. CASE Announce
  <2>1. loop'.up = loop.up /\ loop'.pending = loop.pending
    BY <1>29 DEF Announce, Goto, Valued
  <2>2. QED
    BY <1>29, <2>1 DEF Announce
<1>30. CASE Mark
  BY <1>30 DEF Mark, LoopIdle
<1>31. CASE Clear
  <2>1. loop'.up = loop.up /\ loop'.pending = TRUE
    BY <1>31 DEF Clear, Valued
  <2>2. QED
    BY <1>31, <2>1 DEF Clear
<1>32. CASE Down
  <2>1. loop'.up = loop.up /\ loop'.pending = loop.pending
    BY <1>32 DEF Down, Goto, Valued
  <2>2. QED
    BY <1>32, <2>1 DEF Down
<1>33. CASE Settle
  BY <1>33 DEF Settle, Goto
<1>34. CASE Rejoin
  BY <1>34 DEF Rejoin, Goto, DriverConnect
<1>35. CASE Tell
  BY <1>35 DEF Tell, LoopIdle
<1>36. QED
  BY <1>1, <1>2, <1>3, <1>4, <1>5, <1>6, <1>7, <1>8, <1>9, <1>10, <1>11, <1>12, <1>13,
       <1>14, <1>15, <1>16, <1>17, <1>18, <1>19, <1>20, <1>21, <1>22, <1>23, <1>24,
       <1>25, <1>26, <1>27, <1>28, <1>29, <1>30, <1>31, <1>32, <1>33, <1>34, <1>35
     DEF Next, Host, RpcReturns, Loop, Outcome

LEMMA ValuedKept == Flagged /\ Valued /\ [Next]_vars => Valued'
<1> SUFFICES ASSUME Flagged, Valued, [Next]_vars PROVE Valued'
  OBVIOUS
<1> USE Constants DEF driver, statics, setting, history, Valued
<1>1. CASE UNCHANGED vars
  BY <1>1 DEF vars
<1>2. ASSUME NEW c \in Configs, SetConfigCached(c) PROVE Valued'
  BY <1>2 DEF SetConfigCached, Request, Cache, Remember, Idle, DriverStates, LoopAt
<1>3. ASSUME NEW c \in Configs, SetConfigCalled(c) PROVE Valued'
  BY <1>3 DEF SetConfigCalled, Request, Idle, DriverStates, LoopAt
<1>4. CASE SetConfigReturns
  BY <1>4 DEF SetConfigReturns, DriverSetConfig, Cache, Remember, Idle, DriverStates, LoopAt
<1>5. CASE ConnectRefused
  BY <1>5 DEF ConnectRefused, Request, Idle, DriverStates, LoopAt
<1>6. CASE ConnectCalled
  BY <1>6 DEF ConnectCalled, Request, Idle, DriverStates, LoopAt
<1>7. CASE ConnectReturns
  BY <1>7 DEF ConnectReturns, DriverConnect, Idle, DriverStates, LoopAt
<1>8. CASE ConnectAlready
  BY <1>8 DEF ConnectAlready, Request, Idle, DriverStates, LoopAt
<1>9. CASE Disconnect
  <2>1. events' \in Seq(Events)
    BY <1>9, TypesOfPosts
  <2>2. QED
    BY <1>9, <2>1 DEF Disconnect, Request, DriverDisconnect, Idle, DriverStates, LoopAt
<1>10. CASE Start
  <2>1. events' \in Seq(Events)
    BY <1>10, TypesOfPosts
  <2>2. QED
    BY <1>10, <2>1 DEF Start, Request, Idle, DriverStates, LoopAt
<1>11. CASE Stop
  <2>1. events' \in Seq(Events)
    BY <1>11, TypesOfPosts
  <2>2. QED
    BY <1>11, <2>1 DEF Stop, Request, DriverStop, Idle, DriverStates, LoopAt
<1>12. CASE Deinit
  BY <1>12 DEF Deinit, Request, Idle, DriverStates, LoopAt
<1>13. CASE Reinit
  <2>1. events' \in Seq(Events)
    BY <1>13, TypesOfPosts
  <2>2. QED
    BY <1>13, <2>1 DEF Reinit, Request, DriverStop, Idle, DriverStates, LoopAt
<1>14. CASE ReinitDeinit
  BY <1>14 DEF ReinitDeinit, Idle, DriverStates, LoopAt
<1>15. CASE InitAgain
  BY <1>15 DEF InitAgain, Request, Idle, DriverStates, LoopAt
<1>16. CASE InitCalled
  BY <1>16 DEF InitCalled, Request, Idle, DriverStates, LoopAt
<1>17. CASE InitReturns
  BY <1>17 DEF InitReturns, Idle, DriverStates, LoopAt
<1>18. CASE HostRestart
  BY <1>18 DEF HostRestart, NothingTold, Idle, DriverStates, LoopAt
<1>19. CASE AttemptSucceeds
  <2>1. events' \in Seq(Events)
    BY <1>19, TypesOfPosts
  <2>2. QED
    BY <1>19, <2>1 DEF AttemptSucceeds, Idle, DriverStates, LoopAt
<1>20. CASE AttemptFails
  <2>1. events' \in Seq(Events)
    BY <1>20, TypesOfPosts
  <2>2. QED
    BY <1>20, <2>1 DEF AttemptFails, Idle, DriverStates, LoopAt
<1>21. CASE ConnectionLost
  <2>1. events' \in Seq(Events)
    BY <1>21, TypesOfPosts
  <2>2. QED
    BY <1>21, <2>1 DEF ConnectionLost, Idle, DriverStates, LoopAt
<1>22. CASE OnConnected
  <2>1. events' \in Seq(Events) /\ Head(events).net \in MaybeConfig
    BY <1>22, Taken DEF OnConnected
  <2>2. QED
    BY <1>22, <2>1 DEF OnConnected, Idle, DriverStates, LoopAt
<1>23. CASE OnDisconnected
  <2>1. events' \in Seq(Events) /\ Head(events).net \in MaybeConfig
    BY <1>23, Taken DEF OnDisconnected
  <2>2. QED
    BY <1>23, <2>1 DEF OnDisconnected, Idle, DriverStates, LoopAt
<1>24. CASE OnStart
  <2>1. events' \in Seq(Events) /\ Head(events).net \in MaybeConfig
    BY <1>24, Taken DEF OnStart
  <2>2. QED
    BY <1>24, <2>1 DEF OnStart, Idle, DriverStates, LoopAt
<1>25. CASE OnStop
  <2>1. events' \in Seq(Events) /\ Head(events).net \in MaybeConfig
    BY <1>25, Taken DEF OnStop
  <2>2. QED
    BY <1>25, <2>1 DEF OnStop, Idle, DriverStates, LoopAt
<1>26. CASE Apply
  BY <1>26 DEF Apply, Goto, DriverSetConfig, Idle, DriverStates, LoopAt
<1>27. CASE CutOld
  <2>1. events' \in Seq(Events)
    BY <1>27, TypesOfPosts
  <2>2. QED
    BY <1>27, <2>1 DEF CutOld, DriverDisconnect, LoopIdle, Idle, DriverStates, LoopAt
<1>28. CASE Up
  BY <1>28 DEF Up, Goto, Idle, DriverStates, LoopAt
<1>29. CASE Announce
  BY <1>29 DEF Announce, Goto, Idle, DriverStates, LoopAt
<1>30. CASE Mark
  BY <1>30 DEF Mark, LoopIdle, Idle, DriverStates, LoopAt
<1>31. CASE Clear
  BY <1>31 DEF Clear, Idle, DriverStates, LoopAt
<1>32. CASE Down
  BY <1>32 DEF Down, Goto, Idle, DriverStates, LoopAt
<1>33. CASE Settle
  BY <1>33 DEF Settle, Goto, Idle, DriverStates, LoopAt
<1>34. CASE Rejoin
  BY <1>34 DEF Rejoin, Goto, DriverConnect, Idle, DriverStates, LoopAt
<1>35. CASE Tell
  BY <1>35 DEF Tell, LoopIdle, Idle, DriverStates, LoopAt
<1>36. QED
  BY <1>1, <1>2, <1>3, <1>4, <1>5, <1>6, <1>7, <1>8, <1>9, <1>10, <1>11, <1>12, <1>13,
       <1>14, <1>15, <1>16, <1>17, <1>18, <1>19, <1>20, <1>21, <1>22, <1>23, <1>24,
       <1>25, <1>26, <1>27, <1>28, <1>29, <1>30, <1>31, <1>32, <1>33, <1>34, <1>35
     DEF Next, Host, RpcReturns, Loop, Outcome

LEMMA TypesKept == TypeOK /\ [Next]_vars => TypeOK'
<1>1. TypeOK' <=> Flagged' /\ Valued'
  BY TypesSplit, PTL
<1>2. QED
  BY <1>1, TypesSplit, FlaggedKept, ValuedKept

-----------------------------------------------------------------------------
(* No configuration is lost but by the race.                               *)

\* A flag that is set is that of the last configuration.
FlagIsOfLast == new_config_recvd /\ ~overtaken => new_wifi_config = lastSet

\* The handler applies what the flag is set for ...
AppliesFlagged == loop.at = "apply" /\ ~overtaken => new_config_recvd

\* ... and clears the flag when the driver has it.
ClearsApplied == loop.at = "clear" /\ ~overtaken => lastSet \in {NoConfig, drvConfig}

Remembers == FlagIsOfLast /\ AppliesFlagged /\ ClearsApplied /\ UnappliedIsRemembered

\* The steps that leave the configurations and the place in the handler alone.
OfNoConfig ==
  /\ UNCHANGED <<drvConfig, new_config_recvd, new_wifi_config, lastSet, overtaken>>
  /\ loop'.at = loop.at \/ loop'.at \notin {"apply", "clear"}

LEMMA OfNoConfigKeeps == Remembers /\ OfNoConfig => Remembers'
BY DEF Remembers, FlagIsOfLast, AppliesFlagged, ClearsApplied, UnappliedIsRemembered,
       OfNoConfig

LEMMA RemembersKept == Valued /\ Remembers /\ [Next]_vars => Remembers'
<1> SUFFICES ASSUME Valued, Remembers, [Next]_vars PROVE Remembers'
  OBVIOUS
<1> USE DEF driver, statics, setting, history
<1>1. CASE UNCHANGED vars
  BY <1>1, OfNoConfigKeeps DEF vars, OfNoConfig
<1>2. ASSUME NEW c \in Configs, SetConfigCached(c) PROVE Remembers'
  BY <1>2 DEF SetConfigCached, Request, Cache, Remember,
       Remembers, FlagIsOfLast, AppliesFlagged, ClearsApplied, UnappliedIsRemembered
<1>3. ASSUME NEW c \in Configs, SetConfigCalled(c) PROVE Remembers'
  BY <1>3, OfNoConfigKeeps DEF SetConfigCalled, Request, OfNoConfig
<1>4. CASE SetConfigReturns
  BY <1>4 DEF SetConfigReturns, DriverSetConfig, Cache, Remember, SetConfigAccepted,
       Remembers, FlagIsOfLast, AppliesFlagged, ClearsApplied, UnappliedIsRemembered
<1>5. CASE ConnectRefused
  BY <1>5, OfNoConfigKeeps DEF ConnectRefused, Request, OfNoConfig
<1>6. CASE ConnectCalled
  BY <1>6, OfNoConfigKeeps DEF ConnectCalled, Request, OfNoConfig
<1>7. CASE ConnectReturns
  BY <1>7, OfNoConfigKeeps DEF ConnectReturns, DriverConnect, OfNoConfig
<1>8. CASE ConnectAlready
  BY <1>8, OfNoConfigKeeps DEF ConnectAlready, Request, OfNoConfig
<1>9. CASE Disconnect
  BY <1>9, OfNoConfigKeeps DEF Disconnect, Request, DriverDisconnect, OfNoConfig
<1>10. CASE Start
  BY <1>10, OfNoConfigKeeps DEF Start, Request, OfNoConfig
<1>11. CASE Stop
  BY <1>11, OfNoConfigKeeps DEF Stop, Request, DriverStop, OfNoConfig
<1>12. CASE Deinit
  BY <1>12, OfNoConfigKeeps DEF Deinit, Request, OfNoConfig
<1>13. CASE Reinit
  BY <1>13, OfNoConfigKeeps DEF Reinit, Request, DriverStop, OfNoConfig
<1>14. CASE ReinitDeinit
  BY <1>14, OfNoConfigKeeps DEF ReinitDeinit, OfNoConfig
<1>15. CASE InitAgain
  BY <1>15, OfNoConfigKeeps DEF InitAgain, Request, OfNoConfig
<1>16. CASE InitCalled
  BY <1>16, OfNoConfigKeeps DEF InitCalled, Request, OfNoConfig
<1>17. CASE InitReturns
  BY <1>17, OfNoConfigKeeps DEF InitReturns, OfNoConfig
<1>18. CASE HostRestart
  BY <1>18, OfNoConfigKeeps DEF HostRestart, NothingTold, OfNoConfig
<1>19. CASE AttemptSucceeds
  BY <1>19, OfNoConfigKeeps DEF AttemptSucceeds, OfNoConfig
<1>20. CASE AttemptFails
  BY <1>20, OfNoConfigKeeps DEF AttemptFails, OfNoConfig
<1>21. CASE ConnectionLost
  BY <1>21, OfNoConfigKeeps DEF ConnectionLost, OfNoConfig
<1>22. CASE OnConnected
  BY <1>22 DEF OnConnected,
       Remembers, FlagIsOfLast, AppliesFlagged, ClearsApplied, UnappliedIsRemembered
<1>23. CASE OnDisconnected
  BY <1>23 DEF OnDisconnected,
       Remembers, FlagIsOfLast, AppliesFlagged, ClearsApplied, UnappliedIsRemembered
<1>24. CASE OnStart
  BY <1>24, OfNoConfigKeeps DEF OnStart, OfNoConfig
<1>25. CASE OnStop
  BY <1>25, OfNoConfigKeeps DEF OnStop, OfNoConfig
<1>26. CASE Apply
  BY <1>26 DEF Apply, DriverSetConfig, Goto, SetConfigAccepted, Valued,
       Remembers, FlagIsOfLast, AppliesFlagged, ClearsApplied, UnappliedIsRemembered
<1>27. CASE CutOld
  BY <1>27, OfNoConfigKeeps DEF CutOld, DriverDisconnect, LoopIdle, OfNoConfig
<1>28. CASE Up
  BY <1>28, OfNoConfigKeeps DEF Up, Goto, Valued, OfNoConfig
<1>29. CASE Announce
  BY <1>29, OfNoConfigKeeps DEF Announce, Goto, Valued, OfNoConfig
<1>30. CASE Mark
  BY <1>30, OfNoConfigKeeps DEF Mark, LoopIdle, OfNoConfig
<1>31. CASE Clear
  BY <1>31 DEF Clear, Valued,
       Remembers, FlagIsOfLast, AppliesFlagged, ClearsApplied, UnappliedIsRemembered
<1>32. CASE Down
  BY <1>32, OfNoConfigKeeps DEF Down, Goto, Valued, OfNoConfig
<1>33. CASE Settle
  BY <1>33, OfNoConfigKeeps DEF Settle, Goto, Valued, OfNoConfig
<1>34. CASE Rejoin
  BY <1>34, OfNoConfigKeeps DEF Rejoin, Goto, DriverConnect, Valued, OfNoConfig
<1>35. CASE Tell
  BY <1>35, OfNoConfigKeeps DEF Tell, LoopIdle, OfNoConfig
<1>36. QED
  BY <1>1, <1>2, <1>3, <1>4, <1>5, <1>6, <1>7, <1>8, <1>9, <1>10, <1>11, <1>12, <1>13,
       <1>14, <1>15, <1>16, <1>17, <1>18, <1>19, <1>20, <1>21, <1>22, <1>23, <1>24,
       <1>25, <1>26, <1>27, <1>28, <1>29, <1>30, <1>31, <1>32, <1>33, <1>34, <1>35
     DEF Next, Host, RpcReturns, Loop, Outcome

-----------------------------------------------------------------------------
(* The events lead from what the handler knows to what the driver is.      *)

\* The last event the handler took up was a connection that it has not seen end.
Open == IF loop.at = "idle" THEN station_connected \/ suppress_disconnect ELSE loop.up

\* The network of that connection.
Held == IF loop.at = "idle" THEN lkg_sta_connected_event ELSE loop.net

LeadsUp == EndsUp(events, net) /\ (HasUp(events) \/ (Open /\ Held = net))
LeadsDown == EndsDown(events) /\ (Open => HasDown(events))

Links ==
  /\ TakesTurns(events)
  /\ Open => DownFirst(events)
  /\ drv = "connected" => LeadsUp
  /\ drv # "connected" => LeadsDown

Handler ==
  /\ loop.at = "idle" => ~loop.up /\ loop = LoopIdle
  /\ loop.up => loop.at \in {"apply", "force", "up", "announce", "mark"}
  /\ ~loop.up => loop.at \in {"idle", "apply", "clear", "down", "settle", "rejoin", "tell"}
  /\ rpc.at = "deinit" => drv \in {"off", "stopped"}

\* A disconnect is kept from the host only while one is under way, and the
\* station is marked connected only from one handler to the next.
Flags ==
  /\ suppress_disconnect /\ loop.at = "idle" => HasDown(events)
  /\ suppress_disconnect /\ loop.at # "idle" => ~loop.up
  /\ station_connected =>
       ~suppress_disconnect /\ loop.at \in {"idle", "apply", "clear", "down"} /\ ~loop.up

\* What the host was told is what the handler knows, or is about to tell.
Told ==
  /\ told.is = "disconnected" => ~station_connected /\ loop.at # "mark"
  /\ told.is = "connected" =>
       \/ station_connected /\ told.net = lkg_sta_connected_event
       \/ loop.at = "mark" /\ told.net = loop.net
       \/ loop.at \in {"settle", "rejoin", "tell"} /\ ~suppress_disconnect

Agreeing == Links /\ Handler /\ Flags /\ Told

\* The steps that leave Open alone, and Held where it matters.
KeepsOpen == (Open' <=> Open) /\ (Open => Held' = Held \/ drv' # "connected")

\* What the driver is stays the same, and nothing is posted.
LEMMA NothingPosted ==
  ASSUME Links, KeepsOpen, events' = events,
         (drv' = "connected") <=> (drv = "connected"),
         drv' = "connected" => net' = net
  PROVE  Links'
BY DEF Links, LeadsUp, LeadsDown, KeepsOpen

LEMMA OtherEvent ==
  ASSUME Links, KeepsOpen, NEW e,
         Longer(events, events', e), e.type \notin {"CONNECTED", "DISCONNECTED"},
         (drv' = "connected") <=> (drv = "connected"),
         drv' = "connected" => net' = net
  PROVE  Links' /\ (HasDown(events) => HasDown(events'))
<1>1. /\ TakesTurns(events) => TakesTurns(events')
      /\ DownFirst(events) => DownFirst(events')
      /\ EndsUp(events, net) => EndsUp(events', net)
      /\ EndsDown(events) => EndsDown(events')
      /\ HasUp(events) => HasUp(events')
      /\ HasDown(events) => HasDown(events')
  BY OtherPosted
<1>2. QED
  BY <1>1 DEF Links, LeadsUp, LeadsDown, KeepsOpen

LEMMA DownEvent ==
  ASSUME Links, KeepsOpen, NEW e,
         Longer(events, events', e), e.type = "DISCONNECTED", drv' # "connected"
  PROVE  Links' /\ HasDown(events')
<1>1. /\ TakesTurns(events) => TakesTurns(events')
      /\ DownFirst(events) => DownFirst(events')
      /\ EndsDown(events') /\ HasDown(events')
  BY DownPosted
<1>2. QED
  BY <1>1 DEF Links, LeadsUp, LeadsDown, KeepsOpen

LEMMA DownAndOtherEvent ==
  ASSUME Links, KeepsOpen, NEW e, NEW f, NEW q,
         Longer(events, q, e), e.type = "DISCONNECTED",
         Longer(q, events', f), f.type \notin {"CONNECTED", "DISCONNECTED"},
         drv' # "connected"
  PROVE  Links' /\ HasDown(events')
<1>1. /\ TakesTurns(events) => TakesTurns(q)
      /\ DownFirst(events) => DownFirst(q)
      /\ EndsDown(q) /\ HasDown(q)
  BY DownPosted
<1>2. /\ TakesTurns(q) => TakesTurns(events')
      /\ DownFirst(q) => DownFirst(events')
      /\ EndsDown(q) => EndsDown(events')
      /\ HasDown(q) => HasDown(events')
  BY OtherPosted
<1>3. QED
  BY <1>1, <1>2 DEF Links, LeadsUp, LeadsDown, KeepsOpen

LEMMA UpEvent ==
  ASSUME Links, KeepsOpen, NEW e,
         Longer(events, events', e), e.type = "CONNECTED", net' = e.net,
         drv # "connected", drv' = "connected"
  PROVE  Links' /\ (HasDown(events) => HasDown(events'))
<1>1. TakesTurns(events) /\ LeadsDown /\ (Open => DownFirst(events))
  BY DEF Links
<1>2. /\ TakesTurns(events')
      /\ DownFirst(events) /\ HasDown(events) => DownFirst(events')
      /\ EndsUp(events', e.net) /\ HasUp(events')
      /\ HasDown(events) => HasDown(events')
  BY <1>1, UpPosted DEF LeadsDown
<1>3. QED
  BY <1>1, <1>2 DEF Links, LeadsUp, LeadsDown, KeepsOpen

\* The handler takes an event; the driver does nothing meanwhile.
LEMMA OtherTakenUp ==
  ASSUME Links, KeepsOpen, NEW e,
         Shorter(events, events', e), e.type \notin {"CONNECTED", "DISCONNECTED"},
         drv' = drv, net' = net
  PROVE  Links' /\ (HasDown(events) => HasDown(events'))
<1>1. /\ TakesTurns(events) => TakesTurns(events')
      /\ EndsUp(events, net) => EndsUp(events', net)
      /\ EndsDown(events) => EndsDown(events')
  BY AnyTaken
<1>2. /\ DownFirst(events) => DownFirst(events')
      /\ HasUp(events) => HasUp(events')
      /\ HasDown(events) => HasDown(events')
  BY OtherTaken
<1>3. QED
  BY <1>1, <1>2 DEF Links, LeadsUp, LeadsDown, KeepsOpen

LEMMA DownTakenUp ==
  ASSUME Links, ~Open', NEW e,
         Shorter(events, events', e), e.type = "DISCONNECTED",
         drv' = drv, net' = net
  PROVE  Links'
<1>1. /\ TakesTurns(events) => TakesTurns(events')
      /\ EndsUp(events, net) => EndsUp(events', net)
      /\ EndsDown(events) => EndsDown(events')
  BY AnyTaken
<1>2. EndsUp(events, net) => HasUp(events')
  BY DownTaken
<1>3. QED
  BY <1>1, <1>2 DEF Links, LeadsUp, LeadsDown

LEMMA UpTakenUp ==
  ASSUME Links, NEW e, Open', Held' = e.net,
         Shorter(events, events', e), e.type = "CONNECTED",
         drv' = drv, net' = net
  PROVE  Links' /\ ~Open
<1>1. /\ TakesTurns(events) => TakesTurns(events')
      /\ EndsUp(events, net) => EndsUp(events', net)
      /\ EndsDown(events) => EndsDown(events')
  BY AnyTaken
<1>2. TakesTurns(events)
  BY DEF Links
<1>3. /\ ~DownFirst(events) /\ DownFirst(events')
      /\ EndsUp(events, net) => HasUp(events') \/ e.net = net
      /\ EndsDown(events) => HasDown(events')
  BY <1>2, UpTaken
<1>4. QED
  BY <1>1, <1>2, <1>3 DEF Links, LeadsUp, LeadsDown

\* Steps that are not the handler's leave its statics and place alone.
Outside ==
  UNCHANGED <<loop, station_connected, suppress_disconnect, lkg_sta_connected_event>>

LEMMA OutsideOpen == Outside => KeepsOpen
BY DEF Outside, KeepsOpen, Open, Held

LEMMA OutsideKeeps ==
  ASSUME Agreeing, Outside, Links', HasDown(events) => HasDown(events'), told' = told,
         rpc'.at = "deinit" => drv' \in {"off", "stopped"}
  PROVE  Agreeing'
<1>1. Handler'
  BY DEF Agreeing, Handler, Outside
<1>2. Flags'
  BY DEF Agreeing, Flags, Outside
<1>3. Told'
  BY DEF Agreeing, Told, Outside
<1>4. QED
  BY <1>1, <1>2, <1>3 DEF Agreeing

\* A driver that is not connected before and after, or stays so, and posts nothing.
LEMMA QuietKeeps ==
  ASSUME Agreeing, Outside, events' = events, told' = told,
         (drv' = "connected") <=> (drv = "connected"),
         drv' = "connected" => net' = net,
         rpc'.at = "deinit" => drv' \in {"off", "stopped"}
  PROVE  Agreeing'
<1>1. Links'
  BY OutsideOpen, NothingPosted DEF Agreeing
<1>2. QED
  BY <1>1, OutsideKeeps

\* One that posts a disconnect if it was joining, and then perhaps that it stopped.
LEMMA HangupKeeps ==
  ASSUME Agreeing, Valued, Outside, told' = told,
         events' = events \o Hangup, drv' # "connected",
         rpc'.at = "deinit" => drv' \in {"off", "stopped"}
  PROVE  Agreeing'
<1>1. /\ Joining => Longer(events, events', Event("DISCONNECTED", net))
      /\ ~Joining => events' = events
  BY HangupPosted DEF Valued
<1>2. Event("DISCONNECTED", net).type = "DISCONNECTED"
  BY DEF Event
<1>3. CASE Joining
  <2>1. Links' /\ HasDown(events')
    BY <1>1, <1>2, <1>3, OutsideOpen, DownEvent DEF Agreeing
  <2>2. QED
    BY <2>1, OutsideKeeps
<1>4. CASE ~Joining
  <2>1. events' = events /\ drv # "connected"
    BY <1>1, <1>4 DEF Joining
  <2>2. QED
    BY <2>1, QuietKeeps
<1>5. QED
  BY <1>3, <1>4

LEMMA StopKeeps ==
  ASSUME Agreeing, Valued, Outside, told' = told, NEW s, DriverStop(s), s # "connected",
         rpc'.at = "deinit" => s \in {"off", "stopped"}
  PROVE  Agreeing'
<1> DEFINE d == Event("DISCONNECTED", net)
           e == Event("STOP", NoConfig)
<1>1. drv' = s
  BY DEF DriverStop
<1>2. /\ Joining => \E q \in Seq(Events) : Longer(events, q, d) /\ Longer(q, events', e)
      /\ ~Joining => events' = events \/ Longer(events, events', e)
  BY StopPosted DEF Valued
<1>3. d.type = "DISCONNECTED" /\ e.type \notin {"CONNECTED", "DISCONNECTED"}
  BY DEF Event
<1> HIDE DEF d, e
<1>4. CASE Joining
  <2>1. PICK q \in Seq(Events) : Longer(events, q, d) /\ Longer(q, events', e)
    BY <1>2, <1>4
  <2>2. drv' # "connected"
    BY <1>1
  <2>3. Links' /\ HasDown(events')
    BY <1>3, <2>1, <2>2, OutsideOpen, DownAndOtherEvent DEF Agreeing
  <2>4. QED
    BY <1>1, <2>3, OutsideKeeps
<1>5. CASE ~Joining
  <2>1. drv # "connected" /\ drv' # "connected"
    BY <1>1, <1>5 DEF Joining
  <2>2. CASE events' = events
    BY <1>1, <2>1, <2>2, QuietKeeps
  <2>3. CASE Longer(events, events', e)
    <3>1. Links' /\ (HasDown(events) => HasDown(events'))
      BY <1>3, <2>1, <2>3, OutsideOpen, OtherEvent DEF Agreeing
    <3>2. QED
      BY <1>1, <3>1, OutsideKeeps
  <2>4. QED
    BY <1>2, <1>5, <2>2, <2>3
<1>6. QED
  BY <1>4, <1>5

LEMMA HostKeeps == ASSUME Agreeing, Valued, Host PROVE Agreeing'
<1> USE DEF driver, statics, setting, history, Request, Outside, Idle
<1>1. ASSUME NEW c \in Configs, SetConfigCached(c) PROVE Agreeing'
  BY <1>1, QuietKeeps DEF SetConfigCached
<1>2. ASSUME NEW c \in Configs, SetConfigCalled(c) PROVE Agreeing'
  BY <1>2, QuietKeeps DEF SetConfigCalled
<1>3. CASE ConnectRefused
  BY <1>3, QuietKeeps DEF ConnectRefused
<1>4. CASE ConnectCalled
  BY <1>4, QuietKeeps DEF ConnectCalled
<1>5. CASE ConnectAlready
  <2>1. Links'
    BY <1>5, OutsideOpen, NothingPosted DEF ConnectAlready, Agreeing
  <2>2. Handler' /\ Flags'
    BY <1>5 DEF ConnectAlready, Agreeing, Handler, Flags
  <2>3. Told'
    BY <1>5 DEF ConnectAlready, Agreeing, Told
  <2>4. QED
    BY <2>1, <2>2, <2>3 DEF Agreeing
<1>6. CASE Disconnect
  BY <1>6, HangupKeeps DEF Disconnect, DriverDisconnect, Joining
<1>7. CASE Start
  <2>1. CASE drv = "stopped"
    <3>1. events \in Seq(Events) /\ Event("START", NoConfig) \in Events
          /\ Event("START", NoConfig).type = "START"
      BY Constants DEF Valued
    <3>2. Longer(events, events', Event("START", NoConfig))
      BY <1>7, <2>1, <3>1, OnePosted DEF Start
    <3>3. drv # "connected" /\ drv' # "connected"
      BY <1>7, <2>1 DEF Start
    <3>4. Links' /\ (HasDown(events) => HasDown(events'))
      BY <1>7, <3>1, <3>2, <3>3, OutsideOpen, OtherEvent DEF Start, Agreeing
    <3>5. rpc'.at # "deinit"
      BY <1>7 DEF Start
    <3>6. QED
      BY <1>7, <3>4, <3>5, OutsideKeeps DEF Start
  <2>2. CASE drv # "stopped"
    BY <1>7, <2>2, QuietKeeps DEF Start
  <2>3. QED
    BY <2>1, <2>2
<1>8. CASE Stop
  BY <1>8, StopKeeps DEF Stop
<1>9. CASE Deinit
  BY <1>9, QuietKeeps DEF Deinit, Running
<1>10. CASE Reinit
  BY <1>10, StopKeeps DEF Reinit
<1>11. CASE InitAgain
  BY <1>11, QuietKeeps DEF InitAgain
<1>12. CASE InitCalled
  BY <1>12, QuietKeeps DEF InitCalled
<1>13. CASE HostRestart
  <2>1. Links'
    BY <1>13, OutsideOpen, NothingPosted DEF HostRestart, Agreeing
  <2>2. Handler' /\ Flags'
    BY <1>13 DEF HostRestart, Agreeing, Handler, Flags
  <2>3. Told'
    BY <1>13 DEF HostRestart, Agreeing, Told, NothingTold
  <2>4. QED
    BY <2>1, <2>2, <2>3 DEF Agreeing
<1>14. QED
  BY <1>1, <1>2, <1>3, <1>4, <1>5, <1>6, <1>7, <1>8, <1>9, <1>10, <1>11, <1>12, <1>13
     DEF Host

\* The requests that come back from the driver, and what the driver does itself.
LEMMA DriverKeeps ==
  ASSUME Agreeing, Valued, RpcReturns \/ Outcome \/ ConnectionLost PROVE Agreeing'
<1> USE DEF driver, statics, setting, history, Outside, Idle
<1>1. CASE SetConfigReturns
  BY <1>1, QuietKeeps DEF SetConfigReturns, DriverSetConfig
<1>2. CASE ConnectReturns
  BY <1>2, QuietKeeps DEF ConnectReturns, DriverConnect, ConnectAccepted
<1>3. CASE ReinitDeinit
  <2>1. drv # "connected"
    BY <1>3 DEF ReinitDeinit, Agreeing, Handler
  <2>2. QED
    BY <1>3, <2>1, QuietKeeps DEF ReinitDeinit
<1>4. CASE InitReturns
  BY <1>4, QuietKeeps DEF InitReturns
<1>5. CASE AttemptSucceeds
  <2>1. events \in Seq(Events) /\ net \in MaybeConfig /\ Event("CONNECTED", net) \in Events
    BY Constants DEF Valued
  <2>2. Longer(events, events', Event("CONNECTED", net))
    BY <1>5, <2>1, OnePosted DEF AttemptSucceeds
  <2>3. Event("CONNECTED", net).type = "CONNECTED" /\ Event("CONNECTED", net).net = net
    BY DEF Event
  <2>4. Links' /\ (HasDown(events) => HasDown(events'))
    BY <1>5, <2>2, <2>3, OutsideOpen, UpEvent DEF AttemptSucceeds, Agreeing
  <2>5. rpc'.at # "deinit"
    BY <1>5 DEF AttemptSucceeds, Agreeing, Handler
  <2>6. QED
    BY <1>5, <2>4, <2>5, OutsideKeeps DEF AttemptSucceeds
<1>6. CASE AttemptFails
  <2>1. rpc'.at # "deinit"
    BY <1>6 DEF AttemptFails, Agreeing, Handler
  <2>2. QED
    BY <1>6, <2>1, HangupKeeps DEF AttemptFails
<1>7. CASE ConnectionLost
  <2>1. rpc'.at # "deinit"
    BY <1>7 DEF ConnectionLost, Agreeing, Handler
  <2>2. QED
    BY <1>7, <2>1, HangupKeeps DEF ConnectionLost
<1>8. QED
  BY <1>1, <1>2, <1>3, <1>4, <1>5, <1>6, <1>7 DEF RpcReturns, Outcome

LEMMA TakingKeeps ==
  ASSUME Agreeing, Valued, OnConnected \/ OnDisconnected \/ OnStart \/ OnStop
  PROVE  Agreeing'
<1> USE DEF statics, history, setting
<1> DEFINE e == Head(events)
<1>1. CASE OnConnected
  <2>1. Shorter(events, events', e) /\ e.type = "CONNECTED"
    BY <1>1, Taken DEF Valued, OnConnected
  <2>2. /\ loop.at = "idle" /\ loop'.at \in {"apply", "up"} /\ loop'.up /\ loop'.net = e.net
        /\ UNCHANGED <<drv, net, station_connected, suppress_disconnect, told, rpc>>
    BY <1>1 DEF OnConnected, Take
  <2>3. Open' /\ Held' = e.net
    BY <2>2 DEF Open, Held
  <2> HIDE DEF e
  <2>4. Links' /\ ~Open
    BY <2>1, <2>2, <2>3, UpTakenUp DEF Agreeing
  <2>5. ~station_connected /\ ~suppress_disconnect
    BY <2>2, <2>4 DEF Open
  <2>6. Handler'
    BY <2>2 DEF Agreeing, Handler
  <2>7. Flags' /\ Told'
    BY <2>2, <2>5 DEF Agreeing, Flags, Told
  <2>8. QED
    BY <2>4, <2>6, <2>7 DEF Agreeing
<1>2. CASE OnDisconnected
  <2>1. Shorter(events, events', e) /\ e.type = "DISCONNECTED"
    BY <1>2, Taken DEF Valued, OnDisconnected
  <2>2. /\ loop.at = "idle" /\ loop'.at \in {"apply", "down"} /\ ~loop'.up
        /\ UNCHANGED <<drv, net, station_connected, suppress_disconnect, told, rpc,
                       lkg_sta_connected_event>>
    BY <1>2 DEF OnDisconnected, Take
  <2>3. ~Open'
    BY <2>2 DEF Open
  <2> HIDE DEF e
  <2>4. Links'
    BY <2>1, <2>2, <2>3, DownTakenUp DEF Agreeing
  <2>5. Handler'
    BY <2>2 DEF Agreeing, Handler
  <2>6. Flags' /\ Told'
    BY <2>2 DEF Agreeing, Flags, Told
  <2>7. QED
    BY <2>4, <2>5, <2>6 DEF Agreeing
<1>3. ASSUME NEW t \in {"START", "STOP"}, Take(t), Outside, UNCHANGED <<drv, net, rpc, told>>
      PROVE  Agreeing'
  <2>1. Shorter(events, events', e) /\ e.type \notin {"CONNECTED", "DISCONNECTED"}
    BY <1>3, Taken DEF Valued
  <2> HIDE DEF e
  <2>2. Links' /\ (HasDown(events) => HasDown(events'))
    BY <1>3, <2>1, OutsideOpen, OtherTakenUp DEF Agreeing
  <2>3. rpc'.at = "deinit" => drv' \in {"off", "stopped"}
    BY <1>3 DEF Agreeing, Handler
  <2>4. QED
    BY <1>3, <2>2, <2>3, OutsideKeeps
<1>4. CASE OnStart
  BY <1>3, <1>4 DEF OnStart, Outside
<1>5. CASE OnStop
  BY <1>3, <1>5 DEF OnStop, Outside
<1>6. QED
  BY <1>1, <1>2, <1>4, <1>5

\* The steps of the handler that take nothing from the queue.
LEMMA HandlingKeeps ==
  ASSUME Agreeing, Valued,
         Apply \/ CutOld \/ Up \/ Announce \/ Mark \/ Clear \/ Down \/ Settle \/ Rejoin \/ Tell
  PROVE  Agreeing'
<1> USE DEF driver, statics, history, setting
<1> SUFFICES Links' /\ Handler' /\ Flags' /\ Told'
  BY DEF Agreeing
<1>1. CASE Apply
  <2>1. loop' = [loop EXCEPT !.at = loop'.at] /\ loop'.at \in {"force", "clear", "down"}
        /\ (loop.up <=> loop'.at = "force") /\ loop'.up = loop.up /\ loop'.net = loop.net
    BY <1>1 DEF Apply, Goto, Valued
  <2>2. Links'
    <3>1. KeepsOpen
      BY <1>1, <2>1 DEF Apply, KeepsOpen, Open, Held
    <3>2. QED
      BY <1>1, <3>1, NothingPosted DEF Apply, DriverSetConfig, Agreeing
  <2>3. Handler'
    BY <1>1, <2>1 DEF Apply, DriverSetConfig, Agreeing, Handler
  <2>4. Flags' /\ Told'
    BY <1>1, <2>1 DEF Apply, DriverSetConfig, Agreeing, Handler, Flags, Told
  <2>5. QED
    BY <2>2, <2>3, <2>4
<1>2. CASE CutOld
  <2>1. /\ loop.at = "force" /\ loop.up /\ loop'.at = "idle" /\ suppress_disconnect'
        /\ ~station_connected' /\ ~loop'.up
    BY <1>2 DEF CutOld, Agreeing, Handler, Flags, LoopIdle
  <2>2. Open /\ Open' /\ drv' # "connected"
    BY <1>2, <2>1 DEF CutOld, DriverDisconnect, Joining, Open
  <2>3. KeepsOpen
    BY <2>2 DEF KeepsOpen
  <2>4. Links' /\ HasDown(events')
    <3>1. /\ Joining => Longer(events, events', Event("DISCONNECTED", net))
          /\ ~Joining => events' = events
      BY <1>2, HangupPosted DEF Valued, CutOld, DriverDisconnect
    <3>2. Event("DISCONNECTED", net).type = "DISCONNECTED"
      BY DEF Event
    <3>3. CASE Joining
      BY <2>2, <2>3, <3>1, <3>2, <3>3, DownEvent DEF Agreeing
    <3>4. CASE ~Joining
      <4>1. drv # "connected" /\ events' = events
        BY <3>1, <3>4 DEF Joining
      <4>2. HasDown(events)
        BY <2>2, <4>1 DEF Agreeing, Links, LeadsDown
      <4>3. QED
        BY <2>2, <2>3, <4>1, <4>2, NothingPosted DEF Agreeing
    <3>5. QED
      BY <3>3, <3>4
  <2>5. Handler'
    BY <1>2, <2>1 DEF CutOld, DriverDisconnect, Joining, Agreeing, Handler
  <2>6. Flags'
    BY <2>1, <2>4 DEF Flags
  <2>7. Told'
    BY <1>2, <2>1 DEF CutOld, Agreeing, Flags, Told
  <2>8. QED
    BY <2>4, <2>5, <2>6, <2>7
<1>3. CASE Up
  <2>1. loop.at = "up" /\ loop'.at = "announce" /\ loop'.up = loop.up /\ loop'.net = loop.net
    BY <1>3 DEF Up, Goto, Valued
  <2>2. Links'
    <3>1. KeepsOpen
      BY <2>1 DEF KeepsOpen, Open, Held
    <3>2. QED
      BY <1>3, <3>1, NothingPosted DEF Up, Agreeing
  <2>3. Handler' /\ Flags' /\ Told'
    BY <1>3, <2>1 DEF Up, Agreeing, Handler, Flags, Told
  <2>4. QED
    BY <2>2, <2>3
<1>4. CASE Announce
  <2>1. loop.at = "announce" /\ loop'.at = "mark" /\ loop'.up = loop.up /\ loop'.net = loop.net
    BY <1>4 DEF Announce, Goto, Valued
  <2>2. Links'
    <3>1. KeepsOpen
      BY <2>1 DEF KeepsOpen, Open, Held
    <3>2. QED
      BY <1>4, <3>1, NothingPosted DEF Announce, Agreeing
  <2>3. Handler' /\ Flags'
    BY <1>4, <2>1 DEF Announce, Agreeing, Handler, Flags
  <2>4. Told'
    BY <1>4, <2>1 DEF Announce, Agreeing, Handler, Flags, Told
  <2>5. QED
    BY <2>2, <2>3, <2>4
<1>5. CASE Mark
  <2>1. /\ loop.at = "mark" /\ loop.up /\ loop'.at = "idle" /\ ~loop'.up
        /\ station_connected' /\ lkg_sta_connected_event' = loop.net
        /\ ~suppress_disconnect
    BY <1>5 DEF Mark, LoopIdle, Agreeing, Handler, Flags
  <2>2. Links'
    <3>1. Open /\ Open' /\ Held' = Held
      BY <2>1 DEF Open, Held
    <3>2. QED
      BY <1>5, <3>1, NothingPosted DEF Mark, Agreeing, KeepsOpen
  <2>3. Handler'
    BY <1>5, <2>1 DEF Mark, Agreeing, Handler
  <2>4. Flags' /\ Told'
    BY <1>5, <2>1 DEF Mark, Agreeing, Flags, Told
  <2>5. QED
    BY <2>2, <2>3, <2>4
<1>6. CASE Clear
  <2>1. loop.at = "clear" /\ loop'.at = "down" /\ loop'.up = loop.up /\ loop'.net = loop.net
    BY <1>6 DEF Clear, Valued
  <2>2. Links'
    <3>1. KeepsOpen
      BY <2>1 DEF KeepsOpen, Open, Held
    <3>2. QED
      BY <1>6, <3>1, NothingPosted DEF Clear, Agreeing
  <2>3. Handler' /\ Flags' /\ Told'
    BY <1>6, <2>1 DEF Clear, Agreeing, Handler, Flags, Told
  <2>4. QED
    BY <2>2, <2>3
<1>7. CASE Down
  <2>1. loop.at = "down" /\ loop'.at = "settle" /\ loop'.up = loop.up /\ loop'.net = loop.net
    BY <1>7 DEF Down, Goto, Valued
  <2>2. Links'
    <3>1. KeepsOpen
      BY <2>1 DEF KeepsOpen, Open, Held
    <3>2. QED
      BY <1>7, <3>1, NothingPosted DEF Down, Agreeing
  <2>3. Handler' /\ Flags' /\ Told'
    BY <1>7, <2>1 DEF Down, Agreeing, Handler, Flags, Told
  <2>4. QED
    BY <2>2, <2>3
<1>8. CASE Settle
  <2>1. /\ loop.at = "settle" /\ loop'.at \in {"rejoin", "tell"}
        /\ loop'.up = loop.up /\ loop'.net = loop.net
    BY <1>8 DEF Settle, Goto, Valued
  <2>2. Links'
    <3>1. KeepsOpen
      BY <2>1 DEF KeepsOpen, Open, Held
    <3>2. QED
      BY <1>8, <3>1, NothingPosted DEF Settle, Agreeing
  <2>3. Handler' /\ Flags' /\ Told'
    BY <1>8, <2>1 DEF Settle, Agreeing, Handler, Flags, Told
  <2>4. QED
    BY <2>2, <2>3
<1>9. CASE Rejoin
  <2>1. loop.at = "rejoin" /\ loop'.at = "tell" /\ loop'.up = loop.up /\ loop'.net = loop.net
    BY <1>9 DEF Rejoin, Goto, Valued
  <2>2. Links'
    <3>1. KeepsOpen
      BY <1>9, <2>1 DEF Rejoin, KeepsOpen, Open, Held
    <3>2. QED
      BY <1>9, <3>1, NothingPosted DEF Rejoin, DriverConnect, ConnectAccepted, Agreeing
  <2>3. Handler' /\ Flags' /\ Told'
    BY <1>9, <2>1
       DEF Rejoin, DriverConnect, ConnectAccepted, Agreeing, Handler, Flags, Told
  <2>4. QED
    BY <2>2, <2>3
<1>10. CASE Tell
  <2>1. /\ loop.at = "tell" /\ ~loop.up /\ loop'.at = "idle" /\ ~loop'.up
        /\ ~station_connected /\ ~station_connected' /\ ~suppress_disconnect'
    BY <1>10 DEF Tell, LoopIdle, Agreeing, Handler, Flags
  <2>2. Links'
    <3>1. ~Open /\ ~Open'
      BY <2>1 DEF Open
    <3>2. QED
      BY <1>10, <3>1, NothingPosted DEF Tell, Agreeing, KeepsOpen
  <2>3. Handler'
    BY <1>10, <2>1 DEF Tell, Agreeing, Handler
  <2>4. Flags'
    BY <2>1 DEF Flags
  <2>5. Told'
    BY <1>10, <2>1 DEF Tell, Agreeing, Told
  <2>6. QED
    BY <2>2, <2>3, <2>4, <2>5
<1>11. QED
  BY <1>1, <1>2, <1>3, <1>4, <1>5, <1>6, <1>7, <1>8, <1>9, <1>10

LEMMA AgreeingKept == Agreeing /\ Valued /\ [Next]_vars => Agreeing'
<1> SUFFICES ASSUME Agreeing, Valued, [Next]_vars PROVE Agreeing'
  OBVIOUS
<1>1. CASE UNCHANGED vars
  <2>1. Outside /\ UNCHANGED <<events, told, drv, net, rpc>>
    BY <1>1 DEF vars, statics, driver, history, Outside
  <2>2. QED
    BY <2>1, QuietKeeps DEF Agreeing, Handler
<1>2. QED
  BY <1>1, HostKeeps, DriverKeeps, TakingKeeps, HandlingKeeps DEF Next, Loop

-----------------------------------------------------------------------------
(* The theorems.                                                            *)

Inv == TypeOK /\ Remembers /\ Agreeing

LEMMA InitInv == Init => Inv
<1> SUFFICES ASSUME Init PROVE Inv
  OBVIOUS
<1>1. TypeOK
  <2>1. Flagged
    BY DEF Init, Flagged, LoopIdle
  <2>2. Valued
    BY Constants DEF Init, Valued, DriverStates, LoopIdle, LoopAt, NothingTold
  <2>3. QED
    BY <2>1, <2>2, TypesSplit
<1>2. Remembers
  BY DEF Init, Remembers, FlagIsOfLast, AppliesFlagged, ClearsApplied, LoopIdle,
         UnappliedIsRemembered
<1>3. Agreeing
  <2>1. ~Open
    BY DEF Init, Open, LoopIdle
  <2>2. Links
    BY <2>1 DEF Init, Links, TakesTurns, LeadsDown, EndsDown
  <2>3. Handler /\ Flags /\ Told
    BY DEF Init, Handler, Flags, Told, LoopIdle, NothingTold, Idle
  <2>4. QED
    BY <2>2, <2>3 DEF Agreeing
<1>4. QED
  BY <1>1, <1>2, <1>3 DEF Inv

\* The inductive invariant holds in every behaviour: the types, what is known of
\* the host's last configuration, and that the events not yet handled lead from
\* what the handler holds to what the driver is.
THEOREM Invariance == Spec => []Inv
<1>1. Inv /\ [Next]_vars => Inv'
  BY TypesKept, TypesSplit, RemembersKept, AgreeingKept DEF Inv
<1>2. QED
  BY InitInv, <1>1, PTL DEF Spec

\* In every state of every behaviour the variables have their types: the station's
\* statics, the handler's progress and the driver stay within what the code writes.
THEOREM TypeCorrect == Spec => []TypeOK
<1>1. Inv => TypeOK
  BY DEF Inv
<1>2. QED
  BY <1>1, Invariance, PTL

\* A configuration that the host has set, and was told ESP_OK for, is the driver's
\* or waits in the cache, unless it came while an older one was being applied:
\* esp_hosted_set_sta_config and event_handler_wifi lose none but by that race.
THEOREM ConfigurationsAreKept == Spec => []UnappliedIsRemembered
<1>1. Inv => UnappliedIsRemembered
  BY DEF Inv, Remembers
<1>2. QED
  BY <1>1, Invariance, PTL

\* Once no event, request or attempt is under way, station_connected, and what the
\* host was told last, agree with the driver: event_handler_wifi, the forced
\* disconnect it hides and the answer of req_wifi_connect leave no stale state.
THEOREM SettledStateAgrees == Spec => []SettledAgrees
<1>1. Inv => SettledAgrees
  <2> SUFFICES ASSUME Agreeing, Quiet
               PROVE  /\ station_connected <=> drv = "connected"
                      /\ ~suppress_disconnect
                      /\ told.is = "connected" => drv = "connected" /\ told.net = net
                      /\ told.is = "disconnected" => drv # "connected"
    BY DEF Inv, SettledAgrees, TypeOK
  <2>1. loop.at = "idle" /\ events = <<>> /\ ~HasDown(events) /\ ~HasUp(events)
    BY DEF Quiet, LoopIdle, HasDown, HasUp
  <2>2. ~suppress_disconnect
    BY <2>1 DEF Agreeing, Flags
  <2>3. Open <=> station_connected
    BY <2>1, <2>2 DEF Open
  <2>4. drv = "connected" => station_connected /\ lkg_sta_connected_event = net
    BY <2>1, <2>3 DEF Agreeing, Links, LeadsUp, Held
  <2>5. drv # "connected" => ~station_connected
    BY <2>1, <2>3 DEF Agreeing, Links, LeadsDown
  <2>6. told.is = "connected" => station_connected /\ told.net = lkg_sta_connected_event
    BY <2>1 DEF Agreeing, Told
  <2>7. told.is = "disconnected" => ~station_connected
    BY DEF Agreeing, Told
  <2>8. QED
    BY <2>2, <2>4, <2>5, <2>6, <2>7
<1>2. QED
  BY <1>1, Invariance, PTL

=============================================================================
