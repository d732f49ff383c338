--------------------------- MODULE WifiAppProofs ---------------------------
(***************************************************************************)
(* Theorems about WifiApp, for every retry limit and every number of       *)
(* commands and losses: the attempts in a row are bounded.  No fairness is *)
(* assumed, so they hold of FairSpec as well.                              *)
(*                                                                         *)
(* An attempt has a cause, and each command brings in at most two: its     *)
(* start is announced once or twice, each announcement is handled, and an  *)
(* attempt made of it, whose failure is posted, handled and slept on       *)
(* before the next.  So no more causes are about than the commands         *)
(* granted, which bounds the attempts that are not counted because         *)
(* s_retry_num is reset after them.                                        *)
(***************************************************************************)
EXTENDS WifiApp, Integers, FiniteSets, FunctionTheorems, FiniteSetTheorems,
        SequenceTheorems, TLAPS

-----------------------------------------------------------------------------
(* Queues of events.                                                        *)

IsCause(e) == e \in {"START", "DISCONNECTED"}
CausesIn(q) == {i \in 1 .. Len(q) : IsCause(q[i])}
Causes(q) == Cardinality(CausesIn(q))
One(e) == IF IsCause(e) THEN 1 ELSE 0

\* No event in q resets s_retry_num.
OnlyLosses(q) == \A i \in 1 .. Len(q) : q[i] = "DISCONNECTED"

\* The last n events of q are losses.
EndsInLosses(q, n) ==
  n <= Len(q) /\ \A i \in 1 .. Len(q) : i > Len(q) - n => q[i] = "DISCONNECTED"

\* Some event in q resets s_retry_num, and no loss need follow it.
Unlost(q) == ~OnlyLosses(q) /\ EndsInLosses(q, 0)

LEMMA AppendFacts ==
  ASSUME NEW q \in Seq(Events), NEW e \in Events, NEW r, r = Append(q, e)
  PROVE  /\ Len(q) \in Nat /\ r \in Seq(Events) /\ Len(r) = Len(q) + 1
         /\ \A i \in 1 .. Len(q) : r[i] = q[i]
         /\ r[Len(q) + 1] = e
  OBVIOUS

LEMMA TailFacts ==
  ASSUME NEW q \in Seq(Events), q # <<>>, NEW r, r = Tail(q)
  PROVE  /\ Len(q) \in Nat \ {0} /\ r \in Seq(Events) /\ Len(q) = Len(r) + 1
         /\ Len(r) \in Nat
         /\ \A i \in 1 .. Len(r) : q[i + 1] = r[i]
         /\ Head(q) = q[1] /\ Head(q) \in Events
  OBVIOUS

LEMMA CausesFinite ==
  ASSUME NEW q \in Seq(Events)
  PROVE  IsFiniteSet(CausesIn(q)) /\ Causes(q) \in Nat
<1>1. Len(q) \in Nat /\ CausesIn(q) \subseteq 1 .. Len(q)
  BY DEF CausesIn
<1>2. IsFiniteSet(1 .. Len(q))
  BY <1>1, FS_Interval
<1>3. IsFiniteSet(CausesIn(q))
  BY <1>1, <1>2, FS_Subset
<1>4. QED
  BY <1>3, FS_CardinalityType DEF Causes

LEMMA CausesOfLosses ==
  ASSUME NEW q \in Seq(Events), OnlyLosses(q)
  PROVE  Causes(q) = Len(q)
<1>1. CausesIn(q) = 1 .. Len(q) /\ Len(q) \in Nat
  BY DEF OnlyLosses, CausesIn, IsCause
<1>2. Cardinality(1 .. Len(q)) = Len(q)
  BY <1>1, FS_Interval
<1>3. QED
  BY <1>1, <1>2 DEF Causes

LEMMA CausesAppend ==
  ASSUME NEW q \in Seq(Events), NEW e \in Events, NEW r, r = Append(q, e)
  PROVE  Causes(r) = Causes(q) + One(e)
<1> DEFINE D == CausesIn(q)
           A == CausesIn(r)
           n == Len(q) + 1
<1>1. IsFiniteSet(D) /\ n \notin D
  <2>1. Len(q) \in Nat /\ IsFiniteSet(D)
    BY CausesFinite
  <2>2. QED
    BY <2>1 DEF CausesIn
<1>2. A = IF IsCause(e) THEN D \cup {n} ELSE D
  <2>1. /\ Len(q) \in Nat /\ Len(r) = n
        /\ \A i \in 1 .. Len(q) : r[i] = q[i]
        /\ r[n] = e
    BY AppendFacts
  <2>2. \A i : i \in 1 .. n <=> i \in 1 .. Len(q) \/ i = n
    BY <2>1
  <2>3. QED
    BY <2>1, <2>2 DEF CausesIn
<1>3. Cardinality(D \cup {n}) = Cardinality(D) + 1 /\ Cardinality(D) \in Nat
  BY <1>1, FS_AddElement, FS_CardinalityType
<1> HIDE DEF D, A, n
<1>4. Cardinality(A) = Cardinality(D) + One(e)
  BY <1>2, <1>3 DEF One
<1>5. QED
  BY <1>4 DEF Causes, A, D

LEMMA CausesTail ==
  ASSUME NEW q \in Seq(Events), q # <<>>, NEW r, r = Tail(q)
  PROVE  Causes(q) = Causes(r) + One(Head(q))
<1> DEFINE D == CausesIn(q)
           T == CausesIn(r)
           f == [i \in T |-> i + 1]
<1>1. /\ Len(q) = Len(r) + 1 /\ Len(r) \in Nat /\ q[1] = Head(q)
      /\ \A i \in 1 .. Len(r) : q[i + 1] = r[i]
      /\ r \in Seq(Events)
  BY TailFacts
<1>2. IsFiniteSet(D) /\ IsFiniteSet(T)
  BY <1>1, CausesFinite
<1>3. \A i \in T : i \in Nat /\ i + 1 \in D \ {1}
  BY <1>1 DEF CausesIn
<1>4. ASSUME NEW j \in D \ {1} PROVE j \in Int /\ j - 1 \in T /\ (j - 1) + 1 = j
  <2>1. j \in Int /\ j - 1 \in 1 .. Len(r) /\ (j - 1) + 1 = j /\ IsCause(q[j])
    BY <1>1 DEF CausesIn
  <2>2. r[j - 1] = q[j]
    BY <1>1, <2>1
  <2>3. QED
    BY <2>1, <2>2 DEF CausesIn
<1>5. f \in Bijection(T, D \ {1})
  <2>1. f \in [T -> D \ {1}]
    BY <1>3
  <2>2. \A i, k \in T : f[i] = f[k] => i = k
    BY <1>3
  <2>3. \A j \in D \ {1} : \E i \in T : f[i] = j
    BY <1>4
  <2> HIDE DEF D, T, f
  <2>4. QED
    BY <2>1, <2>2, <2>3, Fun_IsBij
<1>6. 1 \in D <=> IsCause(Head(q))
  BY <1>1 DEF CausesIn
<1> HIDE DEF D, T, f
<1>7. Cardinality(D \ {1}) = Cardinality(T)
  BY <1>2, <1>5, FS_Bijection, FS_RemoveElement DEF ExistsBijection
<1>8. Cardinality(D \ {1}) = IF 1 \in D THEN Cardinality(D) - 1 ELSE Cardinality(D)
  BY <1>2, FS_RemoveElement
<1>9. Cardinality(D) \in Nat /\ Cardinality(T) \in Nat
  BY <1>2, FS_CardinalityType
<1>10. Cardinality(D) = Cardinality(T) + One(Head(q))
  BY <1>6, <1>7, <1>8, <1>9 DEF One
<1>11. QED
  BY <1>10 DEF Causes, D, T

\* One more loss is one more at the end.
LEMMA LossPosted ==
  ASSUME NEW q \in Seq(Events), NEW r, r = Append(q, "DISCONNECTED"), NEW n \in Nat
  PROVE  /\ OnlyLosses(r) <=> OnlyLosses(q)
         /\ EndsInLosses(q, n) => EndsInLosses(r, n + 1)
<1>1. /\ Len(q) \in Nat /\ Len(r) = Len(q) + 1
      /\ \A i \in 1 .. Len(q) : r[i] = q[i]
      /\ r[Len(q) + 1] = "DISCONNECTED"
  BY AppendFacts DEF Events
<1>2. \A i \in 1 .. Len(r) : i \in 1 .. Len(q) \/ i = Len(q) + 1
  BY <1>1
<1>3. \A i \in 1 .. Len(q) : i \in 1 .. Len(r)
  BY <1>1
<1>4. OnlyLosses(r) <=> OnlyLosses(q)
  BY <1>1, <1>2, <1>3 DEF OnlyLosses
<1>5. EndsInLosses(q, n) => EndsInLosses(r, n + 1)
  BY <1>1, <1>2 DEF EndsInLosses
<1>6. QED
  BY <1>4, <1>5

LEMMA OtherPosted ==
  ASSUME NEW q \in Seq(Events), NEW e \in Events, e # "DISCONNECTED",
         NEW r, r = Append(q, e)
  PROVE  ~OnlyLosses(r) /\ EndsInLosses(r, 0)
<1>1. Len(q) \in Nat /\ Len(r) = Len(q) + 1 /\ r[Len(q) + 1] = e
  BY AppendFacts
<1>2. QED
  BY <1>1 DEF OnlyLosses, EndsInLosses

LEMMA FirstTaken ==
  ASSUME NEW q \in Seq(Events), q # <<>>, NEW r, r = Tail(q), NEW n \in Nat
  PROVE  /\ OnlyLosses(q) => OnlyLosses(r)
         /\ OnlyLosses(r) /\ Head(q) = "DISCONNECTED" => OnlyLosses(q)
         /\ EndsInLosses(q, n) /\ ~OnlyLosses(r) => EndsInLosses(r, n)
         /\ EndsInLosses(q, n) /\ ~OnlyLosses(q) => n <= Len(r)
<1>1. /\ Len(q) = Len(r) + 1 /\ Len(r) \in Nat /\ q[1] = Head(q)
      /\ \A i \in 1 .. Len(r) : i + 1 \in 1 .. Len(q) /\ q[i + 1] = r[i]
  BY TailFacts
<1>2. \A i \in 1 .. Len(q) : i = 1 \/ (i - 1 \in 1 .. Len(r) /\ (i - 1) + 1 = i)
  BY <1>1
<1>3. \A i \in 1 .. Len(q) : i = 1 \/ (i - 1 \in 1 .. Len(r) /\ r[i - 1] = q[i])
  <2>1. ASSUME NEW i \in 1 .. Len(q), i # 1
        PROVE  i - 1 \in 1 .. Len(r) /\ r[i - 1] = q[i]
    <3>1. i - 1 \in 1 .. Len(r) /\ (i - 1) + 1 = i
      BY <1>2, <2>1
    <3>2. QED
      BY <1>1, <3>1
  <2>2. QED
    BY <2>1
<1>4. OnlyLosses(q) => OnlyLosses(r)
  BY <1>1 DEF OnlyLosses
<1>5. OnlyLosses(r) /\ Head(q) = "DISCONNECTED" => OnlyLosses(q)
  BY <1>1, <1>3 DEF OnlyLosses
<1>6. ASSUME EndsInLosses(q, n), ~OnlyLosses(r) PROVE EndsInLosses(r, n)
  <2>1. PICK i \in 1 .. Len(r) : r[i] # "DISCONNECTED"
    BY <1>6 DEF OnlyLosses
  <2>2. ~(i + 1 > Len(q) - n)
    BY <1>1, <1>6, <2>1 DEF EndsInLosses
  <2>3. n <= Len(r)
    BY <1>1, <2>1, <2>2
  <2>4. ASSUME NEW j \in 1 .. Len(r), j > Len(r) - n PROVE r[j] = "DISCONNECTED"
    <3>1. j + 1 \in 1 .. Len(q) /\ j + 1 > Len(q) - n
      BY <1>1, <2>4
    <3>2. QED
      BY <1>1, <1>6, <3>1 DEF EndsInLosses
  <2>5. QED
    BY <2>3, <2>4 DEF EndsInLosses
<1>7. ASSUME EndsInLosses(q, n), ~OnlyLosses(q) PROVE n <= Len(r)
  <2>1. PICK i \in 1 .. Len(q) : q[i] # "DISCONNECTED"
    BY <1>7 DEF OnlyLosses
  <2>2. ~(i > Len(q) - n)
    BY <1>7, <2>1 DEF EndsInLosses
  <2>3. QED
    BY <1>1, <2>1, <2>2
<1>8. QED
  BY <1>4, <1>5, <1>6, <1>7

\* An event put into a queue after its first i.
Inserted(q, i, e) == SubSeq(q, 1, i) \o <<e>> \o SubSeq(q, i + 1, Len(q))

LEMMA JoinFacts ==
  ASSUME NEW a \in Seq(Events), NEW b \in Seq(Events)
  PROVE  /\ a \o b \in Seq(Events) /\ Len(a \o b) = Len(a) + Len(b)
         /\ Len(a) \in Nat /\ Len(b) \in Nat
         /\ \A j \in 1 .. Len(a) : (a \o b)[j] = a[j]
         /\ \A j \in 1 .. Len(b) : (a \o b)[Len(a) + j] = b[j]
OBVIOUS

Grown(q, i, e, r) ==
  /\ Len(q) \in Nat /\ r \in Seq(Events) /\ Len(r) = Len(q) + 1
  /\ \A j \in 1 .. i : r[j] = q[j]
  /\ r[i + 1] = e
  /\ \A j \in i + 1 .. Len(q) : r[j + 1] = q[j]

LEMMA InsertFacts ==
  ASSUME NEW q \in Seq(Events), NEW e \in Events, NEW i \in 0 .. Len(q),
         NEW r, r = Inserted(q, i, e)
  PROVE  Grown(q, i, e, r)
<1> DEFINE a == SubSeq(q, 1, i)
           z == SubSeq(q, i + 1, Len(q))
           m == a \o <<e>>
<1>1. Len(q) \in Nat /\ i \in Nat /\ i <= Len(q)
  OBVIOUS
<1>2. /\ a \in Seq(Events) /\ Len(a) = i
      /\ \A j \in 1 .. i : a[j] = q[j]
  BY <1>1
<1>3. /\ z \in Seq(Events) /\ Len(z) = Len(q) - i
      /\ \A j \in 1 .. Len(q) - i : z[j] = q[i + j]
  BY <1>1
<1> HIDE DEF a, z
<1>4. /\ m \in Seq(Events) /\ Len(m) = i + 1
      /\ \A j \in 1 .. i : m[j] = a[j]
      /\ m[i + 1] = e
  BY <1>1, <1>2
<1> HIDE DEF m
<1>5. r = m \o z
  BY DEF Inserted, a, z, m
<1>6. /\ r \in Seq(Events) /\ Len(r) = Len(q) + 1
      /\ \A j \in 1 .. i + 1 : r[j] = m[j]
      /\ \A j \in 1 .. Len(q) - i : r[(i + 1) + j] = z[j]
  BY <1>1, <1>3, <1>4, <1>5, JoinFacts
<1>7. ASSUME NEW j \in i + 1 .. Len(q) PROVE r[j + 1] = q[j]
  <2>1. PICK k \in 1 .. Len(q) - i : (i + 1) + k = j + 1 /\ i + k = j
    <3>1. j - i \in 1 .. Len(q) - i /\ (i + 1) + (j - i) = j + 1 /\ i + (j - i) = j
      BY <1>1
    <3>2. QED
      BY <3>1
  <2>2. r[(i + 1) + k] = z[k] /\ z[k] = q[i + k]
    BY <1>3, <1>6
  <2>3. QED
    BY <2>1, <2>2
<1>8. QED
  BY <1>1, <1>2, <1>4, <1>6, <1>7 DEF Grown

LEMMA CausesInsert ==
  ASSUME NEW q \in Seq(Events), NEW i \in 0 .. Len(q),
         NEW r, r = Inserted(q, i, "START")
  PROVE  Causes(r) = Causes(q) + 1 /\ Unlost(r)
<1> DEFINE D == CausesIn(q)
           R == CausesIn(r)
           n == i + 1
           f == [j \in D |-> IF j <= i THEN j ELSE j + 1]
<1>1. /\ Len(q) \in Nat /\ r \in Seq(Events) /\ Len(r) = Len(q) + 1
      /\ i \in Nat /\ i <= Len(q) /\ n \in 1 .. Len(r) /\ r[n] = "START"
      /\ \A j \in 1 .. i : r[j] = q[j]
      /\ \A j \in i + 1 .. Len(q) : r[j + 1] = q[j]
  <2>1. "START" \in Events
    BY DEF Events
  <2>2. Grown(q, i, "START", r)
    BY <2>1, InsertFacts
  <2>3. QED
    BY <2>2 DEF Grown
<1>2. IsFiniteSet(D) /\ IsFiniteSet(R)
  BY <1>1, CausesFinite
<1>3. ASSUME NEW j \in D PROVE f[j] \in R \ {n}
  <2>1. j \in 1 .. Len(q) /\ IsCause(q[j])
    BY DEF CausesIn
  <2>2. CASE j <= i
    BY <1>1, <2>1, <2>2 DEF CausesIn
  <2>3. CASE ~(j <= i)
    BY <1>1, <2>1, <2>3 DEF CausesIn
  <2>4. QED
    BY <2>2, <2>3
<1>4. ASSUME NEW k \in R \ {n} PROVE \E j \in D : f[j] = k
  <2>1. k \in 1 .. Len(r) /\ IsCause(r[k]) /\ k # n
    BY DEF CausesIn
  <2>2. CASE k <= i
    <3>1. k \in D
      BY <1>1, <2>1, <2>2 DEF CausesIn
    <3>2. QED
      BY <2>2, <3>1
  <2>3. CASE ~(k <= i)
    <3>1. k - 1 \in i + 1 .. Len(q) /\ (k - 1) + 1 = k
      BY <1>1, <2>1, <2>3
    <3>2. k - 1 \in D /\ ~(k - 1 <= i)
      BY <1>1, <2>1, <3>1 DEF CausesIn
    <3>3. QED
      BY <3>1, <3>2
  <2>4. QED
    BY <2>2, <2>3
<1>5. \A j, k \in D : f[j] = f[k] => j = k
  BY <1>1 DEF CausesIn
<1>6. f \in Bijection(D, R \ {n})
  <2>1. f \in [D -> R \ {n}]
    BY <1>3
  <2> HIDE DEF D, R, f, n
  <2>2. QED
    BY <1>4, <1>5, <2>1, Fun_IsBij
<1>7. n \in R
  BY <1>1 DEF CausesIn, IsCause
<1>8. Unlost(r)
  BY <1>1 DEF Unlost, OnlyLosses, EndsInLosses
<1> HIDE DEF D, R, f, n
<1>9. Cardinality(R \ {n}) = Cardinality(D)
  BY <1>2, <1>6, FS_Bijection, FS_RemoveElement DEF ExistsBijection
<1>10. Cardinality(R \ {n}) = Cardinality(R) - 1
  BY <1>2, <1>7, FS_RemoveElement
<1>11. Cardinality(R) \in Nat /\ Cardinality(D) \in Nat
  BY <1>2, FS_CardinalityType
<1>12. Cardinality(R) = Cardinality(D) + 1
  BY <1>9, <1>10, <1>11
<1>13. QED
  BY <1>8, <1>12 DEF Causes, D, R

\* What the queue becomes by the announcements of a start.
LEMMA AnnouncedFacts ==
  ASSUME queue \in Seq(Events), NEW r, Announced(r)
  PROVE  /\ r \in Seq(Events) /\ Unlost(r)
         /\ Causes(r) \in Causes(queue) + 1 .. Causes(queue) + 2
<1>1. PICK i \in 0 .. Len(queue) :
        \/ r = Inserted(queue, i, "START")
        \/ r = Append(Inserted(queue, i, "START"), "START")
  BY DEF Announced, Inserted
<1> DEFINE m == Inserted(queue, i, "START")
<1>2. "START" \in Events
  BY DEF Events
<1>3. m \in Seq(Events)
  BY <1>2, InsertFacts DEF Grown
<1>4. Causes(m) = Causes(queue) + 1 /\ Unlost(m)
  BY CausesInsert
<1>5. Causes(queue) \in Nat
  BY CausesFinite
<1>6. r = m \/ r = Append(m, "START")
  BY <1>1
<1> HIDE DEF m
<1>7. CASE r = m
  BY <1>3, <1>4, <1>5, <1>7
<1>8. CASE r = Append(m, "START")
  <2>1. r \in Seq(Events)
    BY <1>2, <1>3, <1>8, AppendFacts
  <2>2. Unlost(r)
    BY <1>2, <1>3, <1>8, OtherPosted DEF Unlost
  <2>3. Causes(r) = Causes(m) + One("START") /\ One("START") = 1
    BY <1>2, <1>3, <1>8, CausesAppend DEF One, IsCause
  <2>4. QED
    BY <1>4, <1>5, <2>1, <2>2, <2>3
<1>9. QED
  BY <1>6, <1>7, <1>8

-----------------------------------------------------------------------------
(* The invariant.                                                           *)

Joined == IF wifi \in {"connecting", "associated", "addressed"} THEN 1 ELSE 0
Sleeping == IF loop = "delay" THEN 1 ELSE 0

\* A command that has not started the station has both announcements to come.
Setting == IF con \in {"stop", "start"} THEN 2 ELSE 0

\* Each cause of an attempt came of a command, two of each.
Granted == 2 * sets
Busy == Joined + Sleeping + Setting
CausesBounded == Causes(queue) + Busy <= Granted

\* Until the last event that resets s_retry_num is handled, an attempt since it
\* was posted goes on or has its failure behind it in the queue.
Recent ==
  ~OnlyLosses(queue) => \E n \in Nat : EndsInLosses(queue, n) /\ tries <= n + Joined

\* After that, each one more is counted before it is made.
Counted == OnlyLosses(queue) => tries + Sleeping <= Granted + s_retry_num

\* No attempt comes between an association and the address.
Fresh == wifi \in {"associated", "addressed"} => tries = 0

Values ==
  /\ wifi \in {"off", "on", "connecting", "associated", "addressed"}
  /\ queue \in Seq(Events)
  /\ loop \in {"idle", "delay"}
  /\ con \in {"idle", "stop", "start", "wait"}
  /\ s_retry_num \in 0 .. MaxRetry
  /\ sets \in 0 .. MaxSets /\ drops \in 0 .. MaxDrops
  /\ tries \in Nat

Flags == s_got_ip \in BOOLEAN /\ connected_bit \in BOOLEAN

LEMMA TypesSplit == TypeOK <=> Values /\ Flags
BY Zenon DEF TypeOK, Values, Flags

\* A start is made of a station that is off.
StartsOff == con = "start" => wifi = "off"

Budget == CausesBounded /\ Recent /\ Counted /\ Fresh /\ StartsOff

LEMMA Numbers ==
  ASSUME Values
  PROVE  /\ Causes(queue) \in Nat /\ Joined \in 0 .. 1 /\ Sleeping \in 0 .. 1
         /\ Setting \in 0 .. 2 /\ Busy \in Nat
         /\ tries \in Nat /\ Granted \in Nat /\ s_retry_num \in Nat
         /\ MaxRetry \in Nat /\ Len(queue) \in Nat
BY CausesFinite, WifiAppAssumption DEF Values, Joined, Sleeping, Setting, Busy, Granted

LEMMA GrantedNatural == Values' => Granted' \in Nat
<1>1. Values' => sets' \in Nat
  BY DEF Values
<1>2. \A x \in Nat : 2 * x \in Nat
  OBVIOUS
<1>3. QED
  BY <1>1, <1>2 DEF Granted

LEMMA FlagsKept == Flags /\ [Next]_vars => Flags'
BY DEF Flags, Next, Driver, Handler, Console, vars, statics, history, Associate, GetAddress,
       Refuse, Drop, OnStart, OnDisconnected, Retry, OnConnected, OnGotIp, WifiSet, Stop,
       Start, Return

LEMMA ValuesKept == Values /\ [Next]_vars => Values'
<1> SUFFICES ASSUME Values, [Next]_vars PROVE Values'
  OBVIOUS
<1> USE WifiAppAssumption DEF statics, history
<1>1. \A e \in Events : \A r : r = Append(queue, e) => r \in Seq(Events)
  BY AppendFacts DEF Values
<1>2. queue # <<>> => Tail(queue) \in Seq(Events)
  BY TailFacts DEF Values
<1>3. CASE UNCHANGED vars
  BY <1>3 DEF Values, vars
<1>4. CASE Driver
  <2>1. queue' \in Seq(Events)
    BY <1>1, <1>4 DEF Driver, Associate, GetAddress, Refuse, Drop, Post, Events
  <2>2. QED
    BY <1>4, <2>1 DEF Driver, Associate, GetAddress, Refuse, Drop, Values
<1>5. CASE Handler
  <2>1. queue' \in Seq(Events)
    BY <1>2, <1>5
       DEF Handler, OnStart, OnDisconnected, Retry, OnConnected, OnGotIp, Take, Values
  <2>2. QED
    BY <1>5, <2>1
       DEF Handler, OnStart, OnDisconnected, Retry, OnConnected, OnGotIp, Connect, Values
<1>6. CASE Console
  <2>1. queue' \in Seq(Events)
    <3>1. CASE Start
      BY <1>6, <3>1, AnnouncedFacts DEF Start, Values
    <3>2. CASE ~Start
      BY <1>1, <1>6, <3>2 DEF Console, WifiSet, Stop, Return, Post, Events, Values
    <3>3. QED
      BY <3>1, <3>2
  <2>2. QED
    BY <1>6, <2>1 DEF Console, WifiSet, Stop, Start, Return, Values
<1>7. QED
  BY <1>3, <1>4, <1>5, <1>6 DEF Next

-----------------------------------------------------------------------------
(* Its steps, by what becomes of the queue.                                 *)

\* A command pays for what a step begins, and an attempt is under way.
Paid == Busy' + Granted <= Busy + Granted'
Tried == tries' + Joined <= tries + Joined'

\* A step that leaves the queue alone.
LEMMA QueueKept ==
  ASSUME Values, Values', Budget, queue' = queue, Paid, Tried,
         OnlyLosses(queue) => tries' + Sleeping' <= Granted' + s_retry_num',
         wifi' \in {"associated", "addressed"} => tries' = 0,
         con' = "start" => wifi' = "off"
  PROVE  Budget'
<1>1. Joined' \in Nat /\ Busy' \in Nat
  BY DEF Joined, Sleeping, Setting, Busy
<1>2. /\ tries' \in Nat /\ Granted' \in Nat
      /\ Joined \in Nat /\ Busy \in Nat /\ tries \in Nat /\ Granted \in Nat
      /\ Causes(queue) \in Nat
  <2>1. tries' \in Nat /\ sets' \in Nat
    BY DEF Values
  <2>2. Granted' \in Nat
    BY GrantedNatural
  <2>3. QED
    BY <2>1, <2>2, Numbers
<1>3. Causes(queue) + Busy' <= Granted'
  <2> DEFINE b == Busy'
             h == Granted'
  <2>1. b \in Nat /\ h \in Nat /\ b + Granted <= Busy + h
    BY <1>1, <1>2 DEF Paid
  <2> HIDE DEF b, h
  <2>2. Causes(queue) + Busy <= Granted
    BY DEF Budget, CausesBounded
  <2>3. \A c, x, y, u, v \in Nat : c + x <= u /\ y + u <= x + v => c + y <= v
    OBVIOUS
  <2>4. Causes(queue) + b <= h
    BY <1>2, <2>1, <2>2, <2>3
  <2>5. QED
    BY <2>4 DEF b, h
<1>4. ASSUME ~OnlyLosses(queue)
      PROVE  \E n \in Nat : EndsInLosses(queue, n) /\ tries' <= n + Joined'
  <2>1. PICK n \in Nat : EndsInLosses(queue, n) /\ tries <= n + Joined
    BY <1>4 DEF Budget, Recent
  <2> DEFINE j == Joined'
  <2>2. j \in Nat /\ tries' + Joined <= tries + j
    BY <1>1 DEF Tried
  <2> HIDE DEF j
  <2>3. \A x, y, z, u, v \in Nat : u <= z + x /\ v + x <= u + y => v <= z + y
    OBVIOUS
  <2>4. tries' <= n + j
    BY <1>2, <2>1, <2>2, <2>3
  <2>5. QED
    BY <2>1, <2>4 DEF j
<1>5. QED
  BY <1>3, <1>4 DEF Budget, CausesBounded, Recent, Counted, Fresh, StartsOff

\* A connection or an attempt ends, and its loss is posted.
LEMMA LossKept ==
  ASSUME Values, Values', Budget, queue' = Append(queue, "DISCONNECTED"),
         Joined = 1, Joined' = 0,
         UNCHANGED <<loop, sets, tries, s_retry_num>>, Setting' = Setting,
         wifi' \notin {"associated", "addressed"}, con' = "start" => wifi' = "off"
  PROVE  Budget'
<1> DEFINE c == Causes(queue)
           d == Causes(queue')
<1>1. queue \in Seq(Events) /\ "DISCONNECTED" \in Events
  BY DEF Values, Events
<1>2. d = c + 1 /\ c \in Nat
  BY <1>1, CausesAppend, Numbers DEF One, IsCause
<1>3. /\ Sleeping' = Sleeping /\ Sleeping \in Nat /\ Setting \in Nat
      /\ Granted' = Granted
  BY Numbers DEF Sleeping, Granted
<1>4. Busy = Busy' + 1 /\ Busy' \in Nat
  BY <1>3 DEF Busy
<1>5. c + Busy <= Granted /\ Granted \in Nat
  BY Numbers DEF Budget, CausesBounded
<1>6. d + Busy' <= Granted'
  <2> DEFINE b == Busy'
  <2>1. b \in Nat /\ Busy = b + 1 /\ d = c + 1
    BY <1>2, <1>4
  <2> HIDE DEF b, c, d
  <2>2. d + b <= Granted
    BY <1>2, <1>5, <2>1
  <2>3. QED
    BY <1>3, <2>2 DEF b
<1> HIDE DEF c, d
<1>7. OnlyLosses(queue') <=> OnlyLosses(queue)
  BY <1>1, LossPosted
<1>8. \A n \in Nat : EndsInLosses(queue, n) => EndsInLosses(queue', n + 1)
  BY <1>1, LossPosted
<1>9. ASSUME ~OnlyLosses(queue)
      PROVE  \E n \in Nat : EndsInLosses(queue', n) /\ tries' <= n + Joined'
  <2>1. PICK n \in Nat : EndsInLosses(queue, n) /\ tries <= n + Joined
    BY <1>9 DEF Budget, Recent
  <2>2. EndsInLosses(queue', n + 1) /\ n + 1 \in Nat
    BY <1>8, <2>1
  <2>3. tries' <= (n + 1) + Joined'
    BY <2>1, Numbers
  <2>4. QED
    BY <2>2, <2>3
<1>10. OnlyLosses(queue) => tries' + Sleeping' <= Granted' + s_retry_num'
  BY <1>3, Numbers DEF Budget, Counted
<1>11. QED
  BY <1>6, <1>7, <1>9, <1>10 DEF Budget, CausesBounded, Recent, Counted, Fresh, StartsOff, d

\* Events are posted that will reset s_retry_num, when no attempt was made since
\* the last association or start.
LEMMA ResetPosted ==
  ASSUME Values, Values', Budget, Unlost(queue'),
         Causes(queue') + Busy' <= Causes(queue) + Busy,
         sets' = sets, tries' = 0, con' # "start"
  PROVE  Budget'
<1> DEFINE c == Causes(queue)
           d == Causes(queue')
           b == Busy'
           j == Joined'
<1>1. /\ c \in Nat /\ Busy \in Nat /\ Granted \in Nat /\ c + Busy <= Granted
      /\ Granted' = Granted
  BY Numbers DEF Budget, CausesBounded, Granted
<1>2. d \in Nat /\ b \in Nat /\ j \in Nat
  BY CausesFinite DEF Values, Joined, Setting, Sleeping, Busy
<1>3. d + b <= c + Busy
  OBVIOUS
<1> HIDE DEF c, d, b, j
<1>4. d + b <= Granted
  BY <1>1, <1>2, <1>3
<1>5. 0 \in Nat /\ 0 <= 0 + j
  BY <1>2
<1>6. EndsInLosses(queue', 0) /\ ~OnlyLosses(queue')
  BY DEF Unlost
<1>7. \E n \in Nat : EndsInLosses(queue', n) /\ tries' <= n + Joined'
  BY <1>5, <1>6 DEF j
<1>8. QED
  BY <1>1, <1>4, <1>6, <1>7
     DEF Budget, CausesBounded, Recent, Counted, Fresh, StartsOff, b, d

\* A loss is taken from the queue: nothing follows, or the handler sleeps on it.
LEMMA LossTaken ==
  ASSUME Values, Values', Budget, OnDisconnected
  PROVE  Budget'
<1> DEFINE c == Causes(queue)
           d == Causes(queue')
<1>1. /\ queue \in Seq(Events) /\ queue # <<>> /\ queue' = Tail(queue)
      /\ Head(queue) = "DISCONNECTED" /\ loop = "idle"
      /\ UNCHANGED <<wifi, con, sets, tries>>
  BY DEF OnDisconnected, Take, Values, history
<1>2. queue' \in Seq(Events) /\ c \in Nat /\ d \in Nat
  BY <1>1, CausesFinite DEF Values
<1>3. c = d + 1
  BY <1>1, CausesTail DEF One, IsCause
<1>4. \/ s_retry_num' = s_retry_num + 1 /\ loop' = "delay"
      \/ s_retry_num' = s_retry_num /\ loop' = "idle"
  BY <1>1 DEF OnDisconnected
<1>5. /\ Joined' = Joined /\ Setting' = Setting
      /\ Joined \in Nat /\ Setting \in Nat /\ Sleeping = 0
  BY <1>1 DEF Joined, Setting, Sleeping
<1>6. d + Busy' <= Granted'
  <2> DEFINE j == Joined
             g == Setting
             s == Sleeping'
  <2>1. c + (j + 0 + g) <= Granted
    BY <1>5 DEF Budget, CausesBounded, Busy
  <2>2. s \in 0 .. 1 /\ Busy' = j + s + g
    BY <1>5 DEF Busy, Sleeping
  <2>3. j \in Nat /\ g \in Nat /\ Granted \in Nat /\ Granted' = Granted
    BY <1>1, <1>5, Numbers DEF Granted
  <2> HIDE DEF c, d, j, g, s
  <2>4. d + (j + s + g) <= Granted
    BY <1>2, <1>3, <2>1, <2>2, <2>3
  <2>5. QED
    BY <2>2, <2>3, <2>4 DEF c, d
<1>7. \A n \in Nat :
        EndsInLosses(queue, n) /\ ~OnlyLosses(queue') => EndsInLosses(queue', n)
  BY <1>1, FirstTaken
<1>8. OnlyLosses(queue') <=> OnlyLosses(queue)
  BY <1>1, FirstTaken
<1>9. ~OnlyLosses(queue') => \E n \in Nat : EndsInLosses(queue', n) /\ tries' <= n + Joined'
  BY <1>1, <1>5, <1>7, <1>8 DEF Budget, Recent
<1>10. OnlyLosses(queue') => tries' + Sleeping' <= Granted' + s_retry_num'
  <2>1. OnlyLosses(queue) => tries + 0 <= Granted + s_retry_num
    BY <1>5 DEF Budget, Counted
  <2>2. /\ tries \in Nat /\ Granted \in Nat /\ s_retry_num \in Nat
        /\ Granted' = Granted
    BY <1>1, Numbers DEF Granted
  <2>3. QED
    BY <1>1, <1>4, <1>8, <2>1, <2>2 DEF Sleeping
<1>11. QED
  BY <1>1, <1>6, <1>9, <1>10 DEF Budget, CausesBounded, Recent, Counted, Fresh, StartsOff

\* An event that resets s_retry_num is taken, with at most an attempt made of it.
MadeOf(o) == Busy' <= Busy + o /\ tries' <= tries + o

LEMMA ResetTaken ==
  ASSUME Values, Values', Budget, queue # <<>>, queue' = Tail(queue),
         Head(queue) # "DISCONNECTED", MadeOf(One(Head(queue))), Tried,
         loop' = "idle", sets' = sets, s_retry_num' = 0,
         wifi' \in {"associated", "addressed"} => tries' = 0,
         con' = "start" => wifi' = "off"
  PROVE  Budget'
<1> DEFINE c == Causes(queue)
           d == Causes(queue')
           o == One(Head(queue))
           b == Busy'
           j == Joined'
<1>1. queue \in Seq(Events) /\ queue' \in Seq(Events)
  BY DEF Values
<1>2. c = d + o
  BY <1>1, CausesTail
<1>3. o \in Nat /\ c \in Nat /\ d \in Nat /\ b \in Nat /\ j \in Nat
  <2>1. c \in Nat /\ d \in Nat
    BY <1>1, CausesFinite
  <2>2. o \in Nat
    BY DEF One
  <2>3. b \in Nat /\ j \in Nat
    BY DEF Busy, Joined, Sleeping, Setting
  <2>4. QED
    BY <2>1, <2>2, <2>3
<1>4. /\ Busy \in Nat /\ Joined \in Nat /\ tries \in Nat /\ tries' \in Nat /\ Granted \in Nat
      /\ Joined <= Busy /\ c + Busy <= Granted /\ Granted' = Granted
  <2>1. Joined <= Busy
    BY DEF Joined, Busy, Sleeping, Setting
  <2>2. QED
    BY <2>1, Numbers DEF Values, Budget, CausesBounded, Granted
<1>5. b <= Busy + o /\ tries' <= tries + o /\ tries' + Joined <= tries + j
  BY DEF MadeOf, Tried
<1>6. ~OnlyLosses(queue)
  <2>1. 1 \in 1 .. Len(queue) /\ queue[1] # "DISCONNECTED"
    BY <1>1, TailFacts
  <2>2. QED
    BY <2>1 DEF OnlyLosses
<1>7. PICK n \in Nat : EndsInLosses(queue, n) /\ tries <= n + Joined
  BY <1>6 DEF Budget, Recent
<1>8. /\ ~OnlyLosses(queue') => EndsInLosses(queue', n)
      /\ n <= Len(queue')
      /\ OnlyLosses(queue') => d = Len(queue')
  BY <1>1, <1>6, <1>7, FirstTaken, CausesOfLosses
<1> HIDE DEF c, d, o, b, j
<1>9. d + b <= Granted
  BY <1>2, <1>3, <1>4, <1>5
<1>10. tries' <= n + j
  <2>1. \A x, y, z, u, v \in Nat : u <= z + x /\ v + x <= u + y => v <= z + y
    OBVIOUS
  <2>2. QED
    BY <1>3, <1>4, <1>5, <1>7, <2>1
<1>11. OnlyLosses(queue') => tries' <= Granted
  <2>1. \A x, k, m, p, u, v, w, y \in Nat :
          /\ u <= k + x /\ v <= u + p /\ k <= m /\ x <= y /\ (m + p) + y <= w
          => v <= w
    OBVIOUS
  <2>2. OnlyLosses(queue') => n <= d /\ (d + o) + Busy <= Granted
    BY <1>2, <1>4, <1>8
  <2>3. QED
    BY <1>3, <1>4, <1>5, <1>7, <2>1, <2>2
<1>12. OnlyLosses(queue') => tries' + Sleeping' <= Granted' + s_retry_num'
  <2>1. Sleeping' = 0
    BY DEF Sleeping
  <2>2. \A x, y \in Nat : x <= y => x + 0 <= y + 0
    OBVIOUS
  <2>3. OnlyLosses(queue') => tries' + 0 <= Granted + 0
    BY <1>4, <1>11, <2>2
  <2>4. QED
    BY <1>4, <2>1, <2>3
<1>13. QED
  BY <1>4, <1>8, <1>9, <1>10, <1>12
     DEF Budget, CausesBounded, Recent, Counted, Fresh, StartsOff, d, b, j

-----------------------------------------------------------------------------
(* The theorems.                                                            *)

LEMMA LossesAreCauses ==
  ASSUME NEW q \in Seq(Events), NEW n \in Nat, EndsInLosses(q, n)
  PROVE  n <= Causes(q)
<1> DEFINE k == Len(q) - n
           I == (k + 1) .. Len(q)
<1>1. Len(q) \in Nat /\ k \in Nat /\ n <= Len(q)
  BY DEF EndsInLosses
<1>2. I \subseteq CausesIn(q)
  BY <1>1 DEF EndsInLosses, CausesIn, IsCause
<1>3. IsFiniteSet(CausesIn(q)) /\ Causes(q) \in Nat
  BY CausesFinite
<1>4. Cardinality(I) <= Causes(q)
  BY <1>2, <1>3, FS_Subset DEF Causes
<1>5. Cardinality(I) = n
  BY <1>1, FS_Interval
<1>6. QED
  BY <1>4, <1>5

\* The driver's answers post an event each: only the loss of an attempt or of a
\* connection is a cause of another attempt, in place of the one that ended.
LEMMA DriverSteps == Values /\ Values' /\ Budget /\ Driver => Budget'
<1> SUFFICES ASSUME Values, Values', Budget, Driver PROVE Budget'
  OBVIOUS
<1> USE DEF history
<1>1. CASE Associate
  <2>1. Joined = 1 /\ Joined' = 1 /\ Sleeping' = Sleeping /\ Setting' = Setting
    BY <1>1 DEF Associate, Joined, Sleeping, Setting
  <2>2. Busy' = Busy /\ Busy \in Nat
    BY <2>1, Numbers DEF Busy
  <2>3. One("CONNECTED") = 0 /\ "CONNECTED" \in Events
    BY DEF One, IsCause, Events
  <2>4. Unlost(queue') /\ Causes(queue') + Busy' <= Causes(queue) + Busy
    <3>1. queue \in Seq(Events) /\ queue' = Append(queue, "CONNECTED")
      BY <1>1 DEF Associate, Post, Values
    <3>2. Causes(queue') = Causes(queue) + 0 /\ Causes(queue) \in Nat
      BY <2>3, <3>1, CausesAppend, CausesFinite
    <3>3. Unlost(queue')
      BY <2>3, <3>1, OtherPosted DEF Unlost
    <3>4. QED
      BY <2>2, <3>2, <3>3
  <2>5. con' # "start"
    BY <1>1 DEF Associate, Budget, StartsOff
  <2>6. QED
    BY <1>1, <2>4, <2>5, ResetPosted DEF Associate
<1>2. CASE GetAddress
  <2>1. Joined = 1 /\ Joined' = 1 /\ Sleeping' = Sleeping /\ Setting' = Setting
    BY <1>2 DEF GetAddress, Joined, Sleeping, Setting
  <2>2. Busy' = Busy /\ Busy \in Nat
    BY <2>1, Numbers DEF Busy
  <2>3. One("GOT_IP") = 0 /\ "GOT_IP" \in Events
    BY DEF One, IsCause, Events
  <2>4. Unlost(queue') /\ Causes(queue') + Busy' <= Causes(queue) + Busy
    <3>1. queue \in Seq(Events) /\ queue' = Append(queue, "GOT_IP")
      BY <1>2 DEF GetAddress, Post, Values
    <3>2. Causes(queue') = Causes(queue) + 0 /\ Causes(queue) \in Nat
      BY <2>3, <3>1, CausesAppend, CausesFinite
    <3>3. Unlost(queue')
      BY <2>3, <3>1, OtherPosted DEF Unlost
    <3>4. QED
      BY <2>2, <3>2, <3>3
  <2>5. con' # "start" /\ tries' = 0
    BY <1>2 DEF GetAddress, Budget, StartsOff, Fresh
  <2>6. QED
    BY <1>2, <2>4, <2>5, ResetPosted DEF GetAddress
<1>3. CASE Refuse \/ Drop
  <2>1. Joined = 1 /\ Joined' = 0 /\ Setting' = Setting /\ con' # "start"
    BY <1>3 DEF Refuse, Drop, Joined, Setting, Budget, StartsOff
  <2>2. /\ UNCHANGED <<loop, sets, tries, s_retry_num>>
        /\ queue' = Append(queue, "DISCONNECTED")
        /\ wifi' \notin {"associated", "addressed"}
    BY <1>3 DEF Refuse, Drop, Post, statics
  <2>3. QED
    BY <2>1, <2>2, LossKept
<1>4. QED
  BY <1>1, <1>2, <1>3 DEF Driver

LEMMA HandlerSteps == Values /\ Values' /\ Budget /\ Handler => Budget'
<1> SUFFICES ASSUME Values, Values', Budget, Handler PROVE Budget'
  OBVIOUS
<1> USE DEF history, statics
<1>1. CASE OnStart
  <2>1. One(Head(queue)) = 1 /\ Head(queue) = "START"
    BY <1>1 DEF OnStart, Take, One, IsCause
  <2>2. /\ Joined \in 0 .. 1 /\ Sleeping \in 0 .. 1 /\ Setting \in 0 .. 2
        /\ tries \in Nat
    BY Numbers
  <2>3. Sleeping' = Sleeping /\ Setting' = Setting
    BY <1>1 DEF OnStart, Sleeping, Setting
  <2>4. \/ Joined' = Joined /\ tries' = tries
        \/ Joined = 0 /\ Joined' = 1 /\ tries' = tries + 1
    BY <1>1 DEF OnStart, Connect, Joined
  <2>5. MadeOf(One(Head(queue)))
    <3>1. Busy' <= Busy + 1
      BY <2>2, <2>3, <2>4 DEF Busy
    <3>2. tries' <= tries + 1
      BY <2>2, <2>4
    <3>3. QED
      BY <2>1, <3>1, <3>2 DEF MadeOf
  <2>6. Tried
    BY <2>2, <2>4 DEF Tried
  <2>7. /\ wifi' \in {"associated", "addressed"} => tries' = 0
        /\ con' = "start" => wifi' = "off"
    BY <1>1 DEF OnStart, Connect, Budget, Fresh, StartsOff
  <2>8. /\ queue # <<>> /\ queue' = Tail(queue) /\ Head(queue) # "DISCONNECTED"
        /\ loop' = "idle" /\ sets' = sets /\ s_retry_num' = 0
    BY <1>1, <2>1 DEF OnStart, Take
  <2>9. QED
    BY <2>5, <2>6, <2>7, <2>8, ResetTaken
<1>2. CASE OnConnected \/ OnGotIp
  <2>1. One(Head(queue)) = 0 /\ Head(queue) # "DISCONNECTED"
    BY <1>2 DEF OnConnected, OnGotIp, Take, One, IsCause
  <2>2. /\ Joined' = Joined /\ Sleeping' = Sleeping /\ Setting' = Setting
        /\ Busy' = Busy /\ tries' = tries
    BY <1>2 DEF OnConnected, OnGotIp, Joined, Sleeping, Setting, Busy
  <2>3. Busy \in Nat /\ tries \in Nat /\ Joined \in 0 .. 1
    BY Numbers
  <2>4. MadeOf(One(Head(queue))) /\ Tried
    BY <2>1, <2>2, <2>3 DEF MadeOf, Tried
  <2>5. /\ wifi' \in {"associated", "addressed"} => tries' = 0
        /\ con' = "start" => wifi' = "off"
    BY <1>2 DEF OnConnected, OnGotIp, Budget, Fresh, StartsOff
  <2>6. /\ queue # <<>> /\ queue' = Tail(queue)
        /\ loop' = "idle" /\ sets' = sets /\ s_retry_num' = 0
    BY <1>2 DEF OnConnected, OnGotIp, Take
  <2>7. QED
    BY <2>1, <2>4, <2>5, <2>6, ResetTaken
<1>3. CASE Retry
  <2>1. /\ Joined \in 0 .. 1 /\ Setting \in 0 .. 2 /\ tries \in Nat
        /\ Granted \in Nat /\ s_retry_num \in Nat
    BY Numbers
  <2>2. Sleeping = 1 /\ Sleeping' = 0 /\ Setting' = Setting
    BY <1>3 DEF Retry, Sleeping, Setting
  <2>3. \/ Joined' = Joined /\ tries' = tries
        \/ Joined = 0 /\ Joined' = 1 /\ tries' = tries + 1
    BY <1>3 DEF Retry, Connect, Joined
  <2>4. UNCHANGED <<queue, s_retry_num>> /\ Granted' = Granted
    BY <1>3 DEF Retry, Granted
  <2>5. Paid
    BY <2>1, <2>2, <2>3, <2>4 DEF Paid, Busy
  <2>6. Tried
    BY <2>1, <2>3 DEF Tried
  <2>7. OnlyLosses(queue) => tries' + Sleeping' <= Granted' + s_retry_num'
    BY <2>1, <2>2, <2>3, <2>4 DEF Budget, Counted
  <2>8. /\ wifi' \in {"associated", "addressed"} => tries' = 0
        /\ con' = "start" => wifi' = "off"
    BY <1>3 DEF Retry, Connect, Budget, Fresh, StartsOff
  <2>9. QED
    BY <2>4, <2>5, <2>6, <2>7, <2>8, QueueKept
<1>4. QED
  BY <1>1, <1>2, <1>3, LossTaken DEF Handler

LEMMA ConsoleSteps == Values /\ Values' /\ Budget /\ Console => Budget'
<1> SUFFICES ASSUME Values, Values', Budget, Console PROVE Budget'
  OBVIOUS
<1> USE DEF history, statics
<1>1. /\ Joined \in 0 .. 1 /\ Setting \in 0 .. 2 /\ Sleeping \in 0 .. 1 /\ tries \in Nat
      /\ Granted \in Nat /\ s_retry_num \in Nat
  BY Numbers
<1>2. CASE WifiSet
  <2>1. /\ Joined' = Joined /\ Sleeping' = Sleeping /\ Setting = 0 /\ Setting' = 2
        /\ con' # "start"
        /\ UNCHANGED <<queue, wifi, tries, s_retry_num>>
    BY <1>2 DEF WifiSet, Joined, Sleeping, Setting
  <2>2. Granted' = Granted + 2
    BY <1>2 DEF WifiSet, Granted, Values
  <2>3. Paid /\ Tried
    BY <1>1, <2>1, <2>2 DEF Paid, Tried, Busy
  <2>4. OnlyLosses(queue) => tries' + Sleeping' <= Granted' + s_retry_num'
    BY <1>1, <2>1, <2>2 DEF Budget, Counted
  <2>5. wifi' \in {"associated", "addressed"} => tries' = 0
    BY <2>1 DEF Budget, Fresh
  <2>6. QED
    BY <2>1, <2>3, <2>4, <2>5, QueueKept
<1>3. CASE Stop
  <2>1. /\ Joined' = 0 /\ Sleeping' = Sleeping /\ Setting' = Setting /\ wifi' = "off"
        /\ UNCHANGED <<loop, sets, tries, s_retry_num>> /\ Granted' = Granted
    BY <1>3 DEF Stop, Joined, Sleeping, Setting, Granted
  <2>2. CASE Joined = 1
    <3>1. queue' = Append(queue, "DISCONNECTED")
      BY <1>3, <2>2 DEF Stop, Post, Joined
    <3>2. QED
      BY <2>1, <2>2, <3>1, LossKept
  <2>3. CASE Joined = 0
    <3>1. queue' = queue
      BY <1>3, <2>3 DEF Stop, Post, Joined
    <3>2. Paid /\ Tried
      BY <1>1, <2>1, <2>3 DEF Paid, Tried, Busy
    <3>3. OnlyLosses(queue) => tries' + Sleeping' <= Granted' + s_retry_num'
      BY <1>1, <2>1 DEF Budget, Counted
    <3>4. QED
      BY <2>1, <3>1, <3>2, <3>3, QueueKept
  <2>4. QED
    BY <1>1, <2>2, <2>3
<1>4. CASE Start
  <2>1. wifi = "off" /\ con' = "wait" /\ sets' = sets /\ tries' = 0
    BY <1>4 DEF Start, Budget, StartsOff
  <2>2. Joined = 0 /\ Joined' = 0 /\ Sleeping' = Sleeping /\ Setting = 2 /\ Setting' = 0
    BY <1>4, <2>1 DEF Start, Joined, Sleeping, Setting
  <2>3. /\ Unlost(queue')
        /\ Causes(queue') \in Causes(queue) + 1 .. Causes(queue) + 2
    BY <1>4, AnnouncedFacts DEF Start, Values
  <2>4. Causes(queue) \in Nat
    BY Numbers
  <2>5. Causes(queue') + Busy' <= Causes(queue) + Busy
    <3> DEFINE d == Causes(queue')
               b == Busy'
    <3>1. b + 2 = Busy /\ b \in Nat
      BY <1>1, <2>2 DEF Busy
    <3> HIDE DEF b, d
    <3>2. d + b <= Causes(queue) + (b + 2)
      BY <2>3, <2>4, <3>1 DEF d
    <3>3. QED
      BY <3>1, <3>2 DEF b, d
  <2>6. QED
    BY <2>1, <2>3, <2>5, ResetPosted
<1>5. CASE Return
  <2>1. /\ Joined' = Joined /\ Sleeping' = Sleeping /\ Setting = 0 /\ Setting' = 0
        /\ con' # "start"
        /\ UNCHANGED <<queue, wifi, tries, s_retry_num>> /\ Granted' = Granted
    BY <1>5 DEF Return, Joined, Sleeping, Setting, Granted
  <2>2. Paid /\ Tried
    BY <1>1, <2>1 DEF Paid, Tried, Busy
  <2>3. OnlyLosses(queue) => tries' + Sleeping' <= Granted' + s_retry_num'
    BY <1>1, <2>1 DEF Budget, Counted
  <2>4. wifi' \in {"associated", "addressed"} => tries' = 0
    BY <2>1 DEF Budget, Fresh
  <2>5. QED
    BY <2>1, <2>2, <2>3, <2>4, QueueKept
<1>6. QED
  BY <1>2, <1>3, <1>4, <1>5 DEF Console

LEMMA Idle == Values /\ Values' /\ Budget /\ UNCHANGED vars => Budget'
BY DEF Budget, vars, statics, history, CausesBounded, Recent, Counted, Fresh, StartsOff,
       Busy, Joined, Sleeping, Setting, Granted

Inv == TypeOK /\ Budget

LEMMA InitInv == Init => Inv
<1> SUFFICES ASSUME Init PROVE Inv
  OBVIOUS
<1>1. TypeOK
  <2>1. Values
    BY WifiAppAssumption DEF Init, Values
  <2>2. Flags
    BY DEF Init, Flags
  <2>3. QED
    BY <2>1, <2>2, TypesSplit
<1>2. CausesIn(queue) = {}
  BY DEF Init, CausesIn
<1>3. Causes(queue) = 0
  BY <1>2, FS_EmptySet DEF Causes
<1>4. OnlyLosses(queue)
  BY DEF Init, OnlyLosses
<1>5. QED
  BY <1>1, <1>3, <1>4
     DEF Init, Inv, Budget, CausesBounded, Recent, Counted, Fresh, StartsOff, Busy,
         Joined, Sleeping, Setting, Granted

LEMMA StepInv == Inv /\ [Next]_vars => Inv'
<1> SUFFICES ASSUME Inv, [Next]_vars PROVE Inv'
  OBVIOUS
<1>1. Values /\ Flags /\ Budget
  BY TypesSplit DEF Inv
<1>2. Values' /\ Flags'
  BY <1>1, ValuesKept, FlagsKept
<1>3. Budget'
  BY <1>1, <1>2, DriverSteps, HandlerSteps, ConsoleSteps, Idle DEF Next
<1>4. TypeOK' <=> Values' /\ Flags'
  BY TypesSplit, PTL
<1>5. QED
  BY <1>2, <1>3, <1>4 DEF Inv

\* The invariant the other theorems rest on: the station's fields and queue have their
\* types, and no more causes of an attempt are about than there were commands.
THEOREM Invariance == Spec => []Inv
BY InitInv, StepInv, PTL DEF Spec

\* Every variable of wifi_app.c, and the driver's state and queue, keeps its type;
\* s_retry_num never passes WIFI_MAX_RETRY.
THEOREM TypeCorrect == Spec => []TypeOK
<1>1. Inv => TypeOK
  BY DEF Inv
<1>2. QED
  BY <1>1, Invariance, PTL

\* However the console's commands, the losses and the handler's delay interleave, the
\* attempts between two associations or starts exceed WIFI_MAX_RETRY by at most two for
\* each command so far: one for each announcement of the start that it made.
THEOREM AttemptsAreBounded == Spec => []AttemptsBounded
<1>1. Inv => AttemptsBounded
  <2> SUFFICES ASSUME Inv PROVE AttemptsBounded
    OBVIOUS
  <2>1. Values /\ Budget
    BY TypesSplit DEF Inv
  <2>2. /\ tries \in Nat /\ Granted \in Nat /\ MaxRetry \in Nat /\ Causes(queue) \in Nat
        /\ Joined \in 0 .. 1 /\ Sleeping \in 0 .. 1 /\ Setting \in 0 .. 2
        /\ s_retry_num \in 0 .. MaxRetry
    BY <2>1, Numbers DEF Values
  <2>3. CASE OnlyLosses(queue)
    BY <2>1, <2>2, <2>3 DEF Budget, Counted, AttemptsBounded, Granted
  <2>4. CASE ~OnlyLosses(queue)
    <3>1. PICK n \in Nat : EndsInLosses(queue, n) /\ tries <= n + Joined
      BY <2>1, <2>4 DEF Budget, Recent
    <3>2. n <= Causes(queue)
      BY <2>1, <3>1, LossesAreCauses DEF Values
    <3>3. QED
      BY <2>1, <2>2, <3>1, <3>2
         DEF Budget, CausesBounded, Busy, AttemptsBounded, Granted
  <2>5. QED
    BY <2>3, <2>4
<1>2. QED
  BY <1>1, Invariance, PTL
=============================================================================
