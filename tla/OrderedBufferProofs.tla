------------------------ MODULE OrderedBufferProofs ------------------------
(***************************************************************************)
(* Theorems about OrderedBuffer, for every queue size, window, width of   *)
(* the counter and set of arriving numbers that its assumptions allow.     *)
(***************************************************************************)
EXTENDS OrderedBuffer, TLAPS

(***************************************************************************)
(* Arithmetic of uint32_t numbers.                                         *)
(***************************************************************************)

\* The constants are integers of the expected sign.
LEMMA ConstantsAreNat ==
  /\ Size \in Nat /\ Size >= 1
  /\ Window \in Nat /\ Window < Size
  /\ Width \in Nat /\ Width >= 1
  /\ 2 * (Size + Window) < Width
  BY SizeAssumption, WidthAssumption

\* The signed distance is the difference, give or take one turn of the counter.
LEMMA DiffIsDifference ==
  ASSUME NEW a \in Uint32, NEW b \in Uint32
  PROVE  /\ Diff(a, b) \in Int
         /\ -Width <= 2 * Diff(a, b) /\ 2 * Diff(a, b) < Width
         /\ \E c \in {-1, 0, 1} : Diff(a, b) = (a - b) + c * Width
<1> DEFINE d == (a - b) % Width
<1>1. a \in Int /\ b \in Int /\ Width \in Nat /\ Width >= 1
      /\ -Width < a - b /\ a - b < Width
  BY ConstantsAreNat DEF Uint32
<1>2. d = (IF a - b >= 0 THEN a - b ELSE (a - b) + Width)
  BY <1>1
<1>3. Diff(a, b) = IF 2 * d < Width THEN d ELSE d - Width
  BY DEF Diff
<1>4. QED
  BY <1>1, <1>2, <1>3

\* Counting b up by one brings a one closer, or takes it one further behind.
LEMMA DiffAfterIncrement ==
  ASSUME NEW a \in Uint32, NEW b \in Uint32,
         2 * (Diff(a, b) - 1) >= -Width
  PROVE  /\ (b + 1) % Width \in Uint32
         /\ Diff(a, (b + 1) % Width) = Diff(a, b) - 1
<1> DEFINE n == (b + 1) % Width
<1>1. a \in Int /\ b \in Int /\ Width \in Nat /\ Width >= 1
      /\ 0 <= a /\ a < Width /\ 0 <= b /\ b < Width
  BY ConstantsAreNat DEF Uint32
<1>2. n = IF b + 1 = Width THEN 0 ELSE b + 1
  BY <1>1
<1>3. n \in Uint32
  BY <1>1, <1>2 DEF Uint32
<1>4. PICK c \in {-1, 0, 1} : Diff(a, b) = (a - b) + c * Width
  BY DiffIsDifference
<1>5. PICK e \in {-1, 0, 1} : Diff(a, n) = (a - n) + e * Width
  BY <1>3, DiffIsDifference
<1>6. /\ -Width <= 2 * Diff(a, b) /\ 2 * Diff(a, b) < Width
      /\ -Width <= 2 * Diff(a, n) /\ 2 * Diff(a, n) < Width
  BY <1>3, DiffIsDifference
<1>7. QED
  BY <1>1, <1>2, <1>3, <1>4, <1>5, <1>6

\* Two numbers of the same slot are a whole number of laps apart.
LEMMA SameSlotIsWholeLaps ==
  ASSUME NEW a \in Uint32, NEW b \in Uint32, SlotOf(a) = SlotOf(b)
  PROVE  \E k \in Int : Diff(a, b) = Size * k
<1>1. PICK laps \in Nat : Width = Size * laps
  BY WidthAssumption
<1>2. /\ a \in Int /\ b \in Int
      /\ Size \in Nat /\ Size >= 1
  BY ConstantsAreNat DEF Uint32
<1>3. PICK c \in {-1, 0, 1} : Diff(a, b) = (a - b) + c * Width
  BY DiffIsDifference
<1>4. /\ a = Size * (a \div Size) + (a % Size)
      /\ b = Size * (b \div Size) + (b % Size)
      /\ a \div Size \in Int /\ b \div Size \in Int
  BY <1>2
<1>5. a % Size = b % Size
  BY DEF SlotOf
<1> DEFINE qa == a \div Size
           qb == b \div Size
           k == qa - qb + c * laps
<1>6. k \in Int
  BY <1>1, <1>4
<1>7. a - b = Size * (qa - qb)
  BY <1>2, <1>4, <1>5
<1>8. c * Width = Size * (c * laps)
  BY <1>1, <1>2
<1>9. Diff(a, b) = Size * (qa - qb) + Size * (c * laps)
  BY <1>3, <1>7, <1>8
<1>10. Size * k = Size * (qa - qb) + Size * (c * laps)
  BY <1>1, <1>2, <1>4
<1>11. QED
  BY <1>6, <1>9, <1>10

\* In the range that WithinOneLap allows, a whole number of laps is 0 or -1.
LEMMA WholeLapInRange ==
  ASSUME NEW k \in Int, Size * k >= -Size, Size * k <= Window
  PROVE  Size * k \in {0, -Size}
<1>1. Size \in Nat /\ Size >= 1 /\ Window \in Nat /\ Window < Size
  BY ConstantsAreNat
<1>2. CASE k >= 1
  <2>1. Size * k >= Size
    BY <1>1, <1>2
  <2>2. QED
    BY <1>1, <2>1
<1>3. CASE k <= -2
  <2>1. Size * k <= Size * (-2)
    BY <1>1, <1>3
  <2>2. QED
    BY <1>1, <2>1
<1>4. CASE k = 0
  BY <1>1, <1>4
<1>5. CASE k = -1
  BY <1>1, <1>5
<1>6. QED
  BY <1>2, <1>3, <1>4, <1>5

\* The remainder of a division is unique.
LEMMA LapsDoNotMatter ==
  ASSUME NEW b \in Int, NEW k \in Int
  PROVE  (Size * k + b) % Size = b % Size
<1>1. Size \in Nat /\ Size >= 1
  BY ConstantsAreNat
<1> DEFINE n == Size * k + b
           qn == n \div Size
           qb == b \div Size
           rn == n % Size
           rb == b % Size
<1>2. Size * k \in Int /\ n \in Int /\ n = Size * k + b
  BY <1>1
<1>3. /\ n = Size * qn + rn /\ qn \in Int /\ rn \in 0 .. Size - 1
      /\ b = Size * qb + rb /\ qb \in Int /\ rb \in 0 .. Size - 1
  BY <1>1, <1>2
<1> DEFINE e == qn - k - qb
<1> HIDE DEF n, qn, qb, rn, rb
<1>4. e \in Int /\ Size * e = Size * qn - Size * k - Size * qb
  BY <1>1, <1>3
<1>5. Size * e = rb - rn
  BY <1>1, <1>2, <1>3, <1>4
<1>6. e = 0
  <2>1. CASE e >= 1
    <3>1. Size * e >= Size
      BY <1>1, <1>4, <2>1
    <3>2. QED
      BY <1>1, <1>3, <1>5, <3>1
  <2>2. CASE e <= -1
    <3>1. Size * e <= -Size
      BY <1>1, <1>4, <2>2
    <3>2. QED
      BY <1>1, <1>3, <1>5, <3>1
  <2>3. QED
    BY <1>4, <2>1, <2>2
<1>7. rb = rn
  BY <1>1, <1>3, <1>5, <1>6
<1>8. QED
  BY <1>7 DEF n, rn, rb

\* Numbers one lap apart have the same slot.
LEMMA OneLapIsSameSlot ==
  ASSUME NEW a \in Uint32, NEW b \in Uint32, Diff(a, b) = -Size
  PROVE  SlotOf(a) = SlotOf(b)
<1>1. PICK laps \in Nat : Width = Size * laps
  BY WidthAssumption
<1>2. a \in Int /\ b \in Int /\ Size \in Nat /\ Size >= 1
  BY ConstantsAreNat DEF Uint32
<1>3. PICK c \in {-1, 0, 1} : Diff(a, b) = (a - b) + c * Width
  BY DiffIsDifference
<1> DEFINE k == -1 - c * laps
<1>4. k \in Int
  BY <1>1
<1>5. c * Width = Size * (c * laps)
  BY <1>1, <1>2
<1>6. Size * k = -Size - Size * (c * laps)
  BY <1>1, <1>2
<1>7. a = Size * k + b
  BY <1>1, <1>2, <1>3, <1>5, <1>6
<1>8. (Size * k + b) % Size = b % Size
  BY <1>2, <1>4, LapsDoNotMatter
<1>9. QED
  BY <1>7, <1>8 DEF SlotOf

\* A number's slot is a slot of the ring.
LEMMA SlotOfInRing ==
  ASSUME NEW a \in Int
  PROVE  SlotOf(a) \in Slots
  BY ConstantsAreNat DEF SlotOf, Slots

(***************************************************************************)
(* Type correctness.                                                       *)
(***************************************************************************)

LEMMA PushTypes ==
  ASSUME TypeOK, NEW s \in Seqs, NEW d \in Payloads, Push(s, d)
  PROVE  TypeOK'
<1>1. s \in Uint32
  BY SeqsAssumption
<1>2. SlotOf(s) \in Slots
  BY <1>1, SlotOfInRing DEF Uint32
<1>3. [sequence |-> s, data |-> d] \in Packet
  BY <1>1 DEF Packet
<1>4. packets' \in [Slots -> Packet \cup {NoPacket}]
  BY <1>2, <1>3 DEF TypeOK, Push
<1>5. QED
  BY <1>4 DEF TypeOK, Push

LEMMA PopTypes ==
  ASSUME TypeOK, Pop
  PROVE  TypeOK'
<1>1. SlotOf(next_seq) \in Slots
  BY SlotOfInRing DEF TypeOK, Uint32
<1>2. next_seq' \in Uint32
  BY ConstantsAreNat DEF TypeOK, Pop, Uint32
<1>3. sending' \in Packet \cup {NoPacket}
  BY <1>1 DEF TypeOK, Pop
<1>4. packets' \in [Slots -> Packet \cup {NoPacket}]
  BY <1>1 DEF TypeOK, Pop
<1>5. QED
  BY <1>2, <1>3, <1>4 DEF TypeOK

\* The ring, next_seq and the task's packet have their types in every
\* reachable state.
THEOREM TypeCorrect == Spec => []TypeOK
<1>1. Init => TypeOK
  BY ConstantsAreNat DEF Init, TypeOK, Uint32
<1>2. TypeOK /\ [Next]_vars => TypeOK'
  <2> SUFFICES ASSUME TypeOK, [Next]_vars PROVE TypeOK'
    OBVIOUS
  <2>1. ASSUME NEW s \in Seqs, NEW d \in Payloads, Push(s, d) PROVE TypeOK'
    BY <2>1, PushTypes
  <2>2. CASE Pop
    BY <2>2, PopTypes
  <2>3. CASE WriteOrLose
    BY <2>3 DEF TypeOK, WriteOrLose
  <2>4. CASE UNCHANGED vars
    BY <2>4 DEF TypeOK, vars
  <2>5. QED
    BY <2>1, <2>2, <2>3, <2>4 DEF Next
<1>3. QED
  BY <1>1, <1>2, PTL DEF Spec

(***************************************************************************)
(* The ring holds what the window admits.                                  *)
(***************************************************************************)

\* What a pop finds in the slot of next_seq: the number it looks for, or the
\* number of one lap before.
LEMMA HeadOnTimeOrOneLapLate ==
  ASSUME TypeOK, WithinOneLap, packets[SlotOf(next_seq)] # NoPacket
  PROVE  /\ packets[SlotOf(next_seq)] \in Packet
         /\ Diff(packets[SlotOf(next_seq)].sequence, next_seq) \in {0, -Size}
<1> DEFINE j == SlotOf(next_seq)
           q == packets[j].sequence
<1>1. j \in Slots
  BY SlotOfInRing DEF TypeOK, Uint32
<1>2. packets[j] \in Packet
  BY <1>1 DEF TypeOK
<1>3. q \in Uint32 /\ next_seq \in Uint32
  BY <1>2 DEF TypeOK, Packet
<1>4. SlotOf(q) = j /\ Diff(q, next_seq) \in -Size .. Window
  BY <1>1 DEF WithinOneLap
<1>5. PICK k \in Int : Diff(q, next_seq) = Size * k
  BY <1>3, <1>4, SameSlotIsWholeLaps
<1>6. Size * k >= -Size /\ Size * k <= Window
  BY <1>4, <1>5, ConstantsAreNat
<1>7. Diff(q, next_seq) \in {0, -Size}
  BY <1>5, <1>6, WholeLapInRange
<1>8. QED
  BY <1>2, <1>7

LEMMA PushKeepsLap ==
  ASSUME TypeOK, WithinOneLap,
         NEW s \in Seqs, NEW d \in Payloads, Push(s, d)
  PROVE  WithinOneLap'
<1> SUFFICES ASSUME NEW i \in Slots, packets'[i] # NoPacket
             PROVE  /\ SlotOf(packets'[i].sequence) = i
                    /\ Diff(packets'[i].sequence, next_seq') \in -Size .. Window
  BY DEF WithinOneLap, SlotOf, Diff
<1>1. next_seq' = next_seq
  BY DEF Push
<1>2. CASE i = SlotOf(s)
  <2>1. packets'[i] = [sequence |-> s, data |-> d]
    BY <1>2 DEF Push, TypeOK
  <2>2. Diff(s, next_seq) \in -Window .. Window
    BY DEF Push, InWindow
  <2>3. Diff(s, next_seq) \in -Size .. Window
    BY <2>2, ConstantsAreNat
  <2>4. QED
    BY <1>1, <1>2, <2>1, <2>3
<1>3. CASE i # SlotOf(s)
  BY <1>1, <1>3 DEF Push, TypeOK, WithinOneLap
<1>4. QED
  BY <1>2, <1>3

\* A packet that is not in the slot of next_seq is less than one lap behind,
\* so it may fall one number further behind.
LEMMA PopKeepsLap ==
  ASSUME TypeOK, WithinOneLap, Pop
  PROVE  WithinOneLap'
<1> SUFFICES ASSUME NEW i \in Slots, packets'[i] # NoPacket
             PROVE  /\ SlotOf(packets'[i].sequence) = i
                    /\ Diff(packets'[i].sequence, next_seq') \in -Size .. Window
  BY DEF WithinOneLap, SlotOf, Diff
<1> DEFINE q == packets[i].sequence
<1>1. i # SlotOf(next_seq) /\ packets'[i] = packets[i]
  BY DEF Pop, TypeOK
<1>2. q \in Uint32 /\ next_seq \in Uint32
  BY <1>1 DEF TypeOK, Packet
<1>3. SlotOf(q) = i /\ Diff(q, next_seq) \in -Size .. Window
  BY <1>1 DEF WithinOneLap
<1>4. Diff(q, next_seq) # -Size
  <2> SUFFICES ASSUME Diff(q, next_seq) = -Size PROVE FALSE
    OBVIOUS
  <2>1. SlotOf(q) = SlotOf(next_seq)
    BY <1>2, OneLapIsSameSlot
  <2>2. QED
    BY <1>1, <1>3, <2>1
<1>5. Diff(q, next_seq) - 1 \in -Size .. Window /\ 2 * (Diff(q, next_seq) - 1) >= -Width
  BY <1>2, <1>3, <1>4, ConstantsAreNat
<1>6. Diff(q, (next_seq + 1) % Width) = Diff(q, next_seq) - 1
  BY <1>2, <1>5, DiffAfterIncrement
<1>7. QED
  BY <1>1, <1>3, <1>5, <1>6 DEF Pop

\* In every reachable state each packet of the ring sits in the slot of its
\* number, at most Window ahead of next_seq and at most one lap behind it.
THEOREM RingWithinOneLap == Spec => []WithinOneLap
<1>1. Init => WithinOneLap
  BY DEF Init, WithinOneLap
<1>2. TypeOK /\ WithinOneLap /\ [Next]_vars => WithinOneLap'
  <2> SUFFICES ASSUME TypeOK, WithinOneLap, [Next]_vars PROVE WithinOneLap'
    OBVIOUS
  <2>1. ASSUME NEW s \in Seqs, NEW d \in Payloads, Push(s, d)
        PROVE  WithinOneLap'
    BY <2>1, PushKeepsLap
  <2>2. CASE Pop
    BY <2>2, PopKeepsLap
  <2>3. CASE WriteOrLose
    BY <2>3 DEF WithinOneLap, WriteOrLose, SlotOf, Diff
  <2>4. CASE UNCHANGED vars
    BY <2>4 DEF WithinOneLap, vars, SlotOf, Diff
  <2>5. QED
    BY <2>1, <2>2, <2>3, <2>4 DEF Next
<1>3. QED
  BY <1>1, <1>2, TypeCorrect, PTL DEF Spec

\* No pop ever delivers a packet from the future or of an older lap than the
\* last one, although it does not look at the number.
THEOREM PopsOnTimeOrOneLapLate == Spec => OnTimeOrOneLapLate
<1>1. TypeOK /\ WithinOneLap /\ [Next]_vars
      => [Pop => Diff(sending'.sequence, next_seq) \in {0, -Size}]_vars
  <2> SUFFICES ASSUME TypeOK, WithinOneLap, Pop
               PROVE  Diff(sending'.sequence, next_seq) \in {0, -Size}
    OBVIOUS
  <2>1. QED
    BY HeadOnTimeOrOneLapLate DEF Pop
<1>2. QED
  BY <1>1, TypeCorrect, RingWithinOneLap, PTL DEF Spec, OnTimeOrOneLapLate

(***************************************************************************)
(* Packets that are not late survive.                                      *)
(***************************************************************************)

\* Two numbers of one slot that are both near next_seq are the same number,
\* if the ring is more than two windows long.
LEMMA NearNumbersOfOneSlot ==
  ASSUME 2 * Window < Size,
         NEW a \in Uint32, NEW b \in Uint32, NEW n \in Uint32,
         SlotOf(a) = SlotOf(b),
         Diff(a, n) \in -Window .. Window, Diff(b, n) \in -Window .. Window
  PROVE  a = b
<1>1. PICK ca \in {-1, 0, 1} : Diff(a, n) = (a - n) + ca * Width
  BY DiffIsDifference
<1>2. PICK cb \in {-1, 0, 1} : Diff(b, n) = (b - n) + cb * Width
  BY DiffIsDifference
<1>3. PICK c \in {-1, 0, 1} : Diff(a, b) = (a - b) + c * Width
  BY DiffIsDifference
<1>4. -Width <= 2 * Diff(a, b) /\ 2 * Diff(a, b) < Width
  BY DiffIsDifference
<1>5. PICK k \in Int : Diff(a, b) = Size * k
  BY SameSlotIsWholeLaps
<1>6. /\ a \in Int /\ b \in Int /\ n \in Int
      /\ 0 <= a /\ a < Width /\ 0 <= b /\ b < Width
  BY ConstantsAreNat DEF Uint32
<1>7. -Size < Diff(a, b) /\ Diff(a, b) < Size
  BY <1>1, <1>2, <1>3, <1>4, <1>6, ConstantsAreNat
<1>8. Diff(a, b) = 0
  <2>1. CASE k >= 1
    <3>1. Size * k >= Size
      BY <2>1, ConstantsAreNat
    <3>2. QED
      BY <1>5, <1>7, <3>1, ConstantsAreNat
  <2>2. CASE k <= -1
    <3>1. Size * k <= -Size
      BY <2>2, ConstantsAreNat
    <3>2. QED
      BY <1>5, <1>7, <3>1, ConstantsAreNat
  <2>3. CASE k = 0
    BY <1>5, <2>3, ConstantsAreNat
  <2>4. QED
    BY <2>1, <2>2, <2>3
<1>9. QED
  BY <1>3, <1>6, <1>8, ConstantsAreNat

\* With a ring of more than two windows, no accepted packet that is not late is
\* ever overwritten by another number: it is delivered.
THEOREM FreshPacketsSurvive ==
  ASSUME 2 * Window < Size
  PROVE  Spec => FreshPacketSurvives
<1> DEFINE Survives ==
      \A i \in Slots :
        /\ packets[i] # NoPacket
        /\ Diff(packets[i].sequence, next_seq) >= 0
        => \/ packets'[i] # NoPacket /\ packets'[i].sequence = packets[i].sequence
           \/ sending' = packets[i]
<1>1. TypeOK /\ WithinOneLap /\ [Next]_vars => [Survives]_vars
  <2> SUFFICES ASSUME TypeOK, WithinOneLap, Next,
                      NEW i \in Slots, packets[i] # NoPacket,
                      Diff(packets[i].sequence, next_seq) >= 0
               PROVE  \/ /\ packets'[i] # NoPacket
                         /\ packets'[i].sequence = packets[i].sequence
                      \/ sending' = packets[i]
    OBVIOUS
  <2>1. ASSUME NEW s \in Seqs, NEW d \in Payloads, Push(s, d), i = SlotOf(s)
        PROVE  packets'[i] # NoPacket /\ packets'[i].sequence = packets[i].sequence
    <3> DEFINE q == packets[i].sequence
    <3>1. q \in Uint32 /\ s \in Uint32 /\ next_seq \in Uint32
      BY SeqsAssumption DEF TypeOK, Packet
    <3>2. SlotOf(q) = i /\ Diff(q, next_seq) \in -Window .. Window
      <4>1. SlotOf(q) = i /\ Diff(q, next_seq) \in -Size .. Window
        BY DEF WithinOneLap
      <4>2. QED
        BY <4>1, ConstantsAreNat
    <3>3. Diff(s, next_seq) \in -Window .. Window
      BY <2>1 DEF Push, InWindow
    <3>4. q = s
      BY <2>1, <3>1, <3>2, <3>3, NearNumbersOfOneSlot
    <3>5. packets'[i] = [sequence |-> s, data |-> d]
      BY <2>1 DEF Push, TypeOK
    <3>6. packets'[i] \in Packet
      BY <3>1, <3>5 DEF Packet
    <3>7. QED
      BY <3>4, <3>5, <3>6, NoPacketAssumption
  <2>2. ASSUME NEW s \in Seqs, NEW d \in Payloads, Push(s, d), i # SlotOf(s)
        PROVE  packets'[i] = packets[i]
    BY <2>2 DEF Push, TypeOK
  <2>3. CASE Pop
    BY <2>3 DEF Pop, TypeOK
  <2>4. CASE WriteOrLose
    BY <2>4 DEF WriteOrLose
  <2>5. QED
    BY <2>1, <2>2, <2>3, <2>4 DEF Next
<1>2. QED
  BY <1>1, TypeCorrect, RingWithinOneLap, PTL DEF Spec, FreshPacketSurvives

(***************************************************************************)
(* The ordered mode stops one lap after the largest number that arrives.   *)
(***************************************************************************)

\* MAVLink numbers are uint8_t and next_seq is not: after number 255 only late
\* duplicates of the last lap can still be delivered.
StopsAfterOneLap ==
  next_seq = 0 \/ \E top \in Seqs : next_seq <= top + 1 + Size

\* Only numbers that arrive are in the ring.
HoldsArrivals == \A i \in Slots : packets[i] # NoPacket => packets[i].sequence \in Seqs

\* next_seq never gets more than one lap past the largest arriving number: with
\* the 256 numbers of MAVLink frames, a bridge delivers at most 256 + Size
\* packets in its life.
THEOREM OrderedModeStopsAfterOneLap == Spec => []StopsAfterOneLap
<1>1. Init => HoldsArrivals /\ StopsAfterOneLap
  BY DEF Init, HoldsArrivals, StopsAfterOneLap
<1>2. TypeOK /\ WithinOneLap /\ HoldsArrivals /\ StopsAfterOneLap /\ [Next]_vars
      => HoldsArrivals' /\ StopsAfterOneLap'
  <2> SUFFICES ASSUME TypeOK, WithinOneLap, HoldsArrivals, StopsAfterOneLap,
                      [Next]_vars
               PROVE  HoldsArrivals' /\ StopsAfterOneLap'
    OBVIOUS
  <2>1. ASSUME NEW s \in Seqs, NEW d \in Payloads, Push(s, d)
        PROVE  HoldsArrivals' /\ StopsAfterOneLap'
    BY <2>1 DEF Push, TypeOK, HoldsArrivals, StopsAfterOneLap
  <2>2. CASE Pop
    <3> DEFINE q == packets[SlotOf(next_seq)].sequence
    <3>1. SlotOf(next_seq) \in Slots
      BY SlotOfInRing DEF TypeOK, Uint32
    <3>2. q \in Seqs /\ q \in Uint32 /\ next_seq \in Uint32
      BY <2>2, <3>1, SeqsAssumption DEF Pop, HoldsArrivals, TypeOK
    <3>3. Diff(q, next_seq) \in {0, -Size}
      BY <2>2, HeadOnTimeOrOneLapLate DEF Pop
    <3>4. PICK c \in {-1, 0, 1} : Diff(q, next_seq) = (q - next_seq) + c * Width
      BY <3>2, DiffIsDifference
    <3>5. next_seq + 1 <= q + 1 + Size
      BY <3>2, <3>3, <3>4, ConstantsAreNat DEF Uint32
    <3>6. next_seq' <= next_seq + 1
      BY <2>2, ConstantsAreNat DEF Pop, TypeOK, Uint32
    <3>7. next_seq' \in Uint32
      BY <2>2, PopTypes DEF TypeOK
    <3>8. next_seq' <= q + 1 + Size
      BY <3>2, <3>5, <3>6, <3>7, ConstantsAreNat DEF Uint32
    <3>9. HoldsArrivals'
      BY <2>2, <3>1 DEF Pop, TypeOK, HoldsArrivals
    <3>10. QED
      BY <3>2, <3>8, <3>9 DEF StopsAfterOneLap
  <2>3. CASE WriteOrLose
    BY <2>3 DEF WriteOrLose, HoldsArrivals, StopsAfterOneLap
  <2>4. CASE UNCHANGED vars
    BY <2>4 DEF vars, HoldsArrivals, StopsAfterOneLap
  <2>5. QED
    BY <2>1, <2>2, <2>3, <2>4 DEF Next
<1>3. QED
  BY <1>1, <1>2, TypeCorrect, RingWithinOneLap, PTL DEF Spec

(***************************************************************************)
(* The ring implements the line of turns.                                  *)
(***************************************************************************)

\* One lap further on is the same slot, and so is one turn of the counter.
LEMMA SlotOfLap ==
  ASSUME NEW a \in Int
  PROVE  /\ SlotOf(a + Size) = SlotOf(a)
         /\ SlotOf(a + Width) = SlotOf(a)
         /\ SlotOf(a - Width) = SlotOf(a)
<1>1. PICK laps \in Nat : Width = Size * laps
  BY WidthAssumption
<1>2. Size \in Nat /\ Size >= 1
  BY ConstantsAreNat
<1>3. (Size * 1 + a) % Size = a % Size
  BY LapsDoNotMatter
<1>4. (Size * laps + a) % Size = a % Size
  BY <1>1, LapsDoNotMatter
<1>5. -laps \in Int
  BY <1>1
<1>6. (Size * (-laps) + a) % Size = a % Size
  BY <1>5, LapsDoNotMatter
<1>7. /\ a + Size = Size * 1 + a
      /\ a + Width = Size * laps + a
      /\ a - Width = Size * (-laps) + a
  BY <1>1, <1>2
<1>8. QED
  BY <1>3, <1>4, <1>6, <1>7 DEF SlotOf

\* The Size turns that follow a number have different slots.
LEMMA TurnsHaveDifferentSlots ==
  ASSUME NEW a \in Int, NEW j \in Slots, NEW k \in Slots,
         SlotOf(a + j) = SlotOf(a + k)
  PROVE  j = k
<1>1. Size \in Nat /\ Size >= 1
  BY ConstantsAreNat
<1> DEFINE x == a + j
           y == a + k
           qx == x \div Size
           qy == y \div Size
           rx == x % Size
           ry == y % Size
<1>2. /\ j \in Int /\ k \in Int /\ 0 <= j /\ j < Size /\ 0 <= k /\ k < Size
      /\ x \in Int /\ y \in Int /\ x - y = j - k
  BY <1>1 DEF Slots
<1>3. /\ x = Size * qx + rx /\ qx \in Int /\ rx \in Int
      /\ y = Size * qy + ry /\ qy \in Int /\ ry \in Int
  BY <1>1, <1>2
<1>4. rx = ry
  BY DEF SlotOf
<1> HIDE DEF x, y, qx, qy, rx, ry
<1>5. x - y = Size * (qx - qy)
  BY <1>1, <1>3, <1>4
<1> DEFINE e == qx - qy
<1>6. e \in Int /\ j - k = Size * e
  BY <1>2, <1>3, <1>5
<1> HIDE DEF e
<1>7. CASE e >= 1
  <2>1. Size * e >= Size
    BY <1>1, <1>6, <1>7
  <2>2. QED
    BY <1>1, <1>2, <1>6, <2>1
<1>8. CASE e <= -1
  <2>1. Size * e <= -Size
    BY <1>1, <1>6, <1>8
  <2>2. QED
    BY <1>1, <1>2, <1>6, <2>1
<1>9. CASE e = 0
  BY <1>1, <1>2, <1>6, <1>9
<1>10. QED
  BY <1>6, <1>7, <1>8, <1>9

\* The turn a number has, counted from next_seq, is in the number's slot.
LEMMA TurnOfNumber ==
  ASSUME NEW s \in Uint32, NEW n \in Uint32, Diff(s, n) \in -Window .. Window
  PROVE  LET d == Diff(s, n)
             t == IF d >= 0 THEN d ELSE d + Size
         IN  /\ s = (n + d) % Width
             /\ t \in Slots
             /\ SlotOf(n + t) = SlotOf(s)
<1> DEFINE d == Diff(s, n)
           t == IF d >= 0 THEN d ELSE d + Size
<1>1. PICK c \in {-1, 0, 1} : d = (s - n) + c * Width
  BY DiffIsDifference
<1>2. /\ s \in Int /\ n \in Int /\ 0 <= s /\ s < Width /\ 0 <= n /\ n < Width
      /\ d \in Int /\ -Window <= d /\ d <= Window
  BY ConstantsAreNat DEF Uint32
<1> HIDE DEF d
<1>3. n + d = s \/ n + d = s + Width \/ n + d = s - Width
  BY <1>1, <1>2, ConstantsAreNat
<1>4. s = (n + d) % Width
  BY <1>2, <1>3, ConstantsAreNat
<1>5. t \in Slots
  BY <1>2, ConstantsAreNat DEF Slots
<1>6. SlotOf(n + d) = SlotOf(s)
  BY <1>2, <1>3, SlotOfLap
<1>7. SlotOf((n + d) + Size) = SlotOf(n + d)
  BY <1>2, SlotOfLap
<1>8. n + t = n + d \/ n + t = (n + d) + Size
  BY <1>2, ConstantsAreNat
<1>9. SlotOf(n + t) = SlotOf(s)
  BY <1>6, <1>7, <1>8
<1>10. QED
  BY <1>4, <1>5, <1>9 DEF d

\* A push accepts its packet into the turn of its number.
LEMMA PushIsAccept ==
  ASSUME TypeOK, NEW s \in Seqs, NEW p \in Payloads, Push(s, p)
  PROVE  RW!Next
<1> DEFINE d == Diff(s, next_seq)
           t == IF d >= 0 THEN d ELSE d + Size
           new == [sequence |-> s, data |-> p]
<1>1. s \in Uint32 /\ next_seq \in Uint32 /\ next_seq \in Int
  BY SeqsAssumption DEF TypeOK, Uint32
<1>2. d \in -Window .. Window
  BY DEF Push, InWindow
<1>3. s = (next_seq + d) % Width /\ t \in Slots /\ SlotOf(next_seq + t) = SlotOf(s)
  BY <1>1, <1>2, TurnOfNumber
<1> HIDE DEF d
<1>4. Due' = [Due EXCEPT ![t] = new]
  <2>1. ASSUME NEW k \in Slots
        PROVE  packets'[SlotOf(next_seq + k)] =
               IF k = t THEN new ELSE packets[SlotOf(next_seq + k)]
    <3>1. k \in Int
      BY ConstantsAreNat DEF Slots
    <3>2. SlotOf(next_seq + k) \in Slots
      BY <1>1, <3>1, SlotOfInRing
    <3>3. SlotOf(next_seq + k) = SlotOf(s) <=> k = t
      BY <1>1, <1>3, TurnsHaveDifferentSlots
    <3>4. QED
      BY <3>2, <3>3 DEF Push, TypeOK
  <2>2. Due' = [k \in Slots |-> packets'[SlotOf(next_seq + k)]]
    BY DEF Due, Push, SlotOf
  <2>3. QED
    BY <1>3, <2>1, <2>2 DEF Due
<1>5. RW!Accept(s, p, d)
  BY <1>2, <1>3, <1>4 DEF RW!Accept, Push
<1>6. QED
  BY <1>2, <1>5 DEF RW!Next

\* A pop delivers the turn that is due.
LEMMA PopIsDeliver ==
  ASSUME TypeOK, Pop
  PROVE  RW!Next
<1> DEFINE j == SlotOf(next_seq)
<1>1. /\ next_seq \in Int /\ 0 <= next_seq /\ next_seq < Width
      /\ Size \in Nat /\ Size >= 1 /\ Width \in Nat
  BY ConstantsAreNat DEF TypeOK, Uint32
<1>2. 0 \in Slots /\ next_seq + 0 = next_seq
  BY <1>1 DEF Slots
<1>3. Due[0] = packets[j]
  BY <1>2 DEF Due
<1>4. ASSUME NEW k \in Slots
      PROVE  Due'[k] = IF k = Size - 1 THEN NoPacket ELSE Due[k + 1]
  <2>1. k \in Int /\ 0 <= k /\ k <= Size - 1
    BY <1>1 DEF Slots
  <2>2. /\ next_seq' = (next_seq + 1) % Width
        /\ packets' = [packets EXCEPT ![j] = NoPacket]
    BY DEF Pop
  <2>3. next_seq' \in Int
        /\ (next_seq' + k = next_seq + (k + 1) \/ next_seq' + k = (next_seq + (k + 1)) - Width)
    BY <1>1, <2>1, <2>2
  <2>4. SlotOf(next_seq' + k) = SlotOf(next_seq + (k + 1))
    <3> DEFINE x == next_seq + (k + 1)
    <3>1. x \in Int
      BY <1>1, <2>1
    <3>2. next_seq' + k = x \/ next_seq' + k = x - Width
      BY <2>3
    <3> HIDE DEF x
    <3>3. SlotOf(x - Width) = SlotOf(x)
      BY <3>1, SlotOfLap
    <3>4. SlotOf(next_seq' + k) = SlotOf(x)
      BY <3>2, <3>3
    <3>5. QED
      BY <3>4 DEF x
  <2>5. Due'[k] = packets'[SlotOf(next_seq' + k)]
    BY DEF Due, SlotOf
  <2>6. CASE k = Size - 1
    <3>1. next_seq + (k + 1) = next_seq + Size
      BY <1>1, <2>6
    <3>2. SlotOf(next_seq + (k + 1)) = j
      BY <1>1, <3>1, SlotOfLap
    <3>3. j \in Slots
      BY <1>1, SlotOfInRing
    <3>4. QED
      BY <2>2, <2>4, <2>5, <2>6, <3>2, <3>3 DEF TypeOK
  <2>7. CASE k # Size - 1
    <3>1. k + 1 \in Slots /\ k + 1 # 0
      BY <1>1, <2>1, <2>7 DEF Slots
    <3>2. SlotOf(next_seq + (k + 1)) # j
      BY <1>1, <1>2, <3>1, TurnsHaveDifferentSlots
    <3>3. SlotOf(next_seq + (k + 1)) \in Slots
      BY <1>1, <2>1, SlotOfInRing
    <3>4. packets'[SlotOf(next_seq + (k + 1))] = packets[SlotOf(next_seq + (k + 1))]
      BY <2>2, <3>2, <3>3 DEF TypeOK
    <3>5. QED
      BY <2>4, <2>5, <2>7, <3>1, <3>4 DEF Due
  <2>8. QED
    BY <2>6, <2>7
<1>5. Due' = [k \in Slots |-> IF k = Size - 1 THEN NoPacket ELSE Due[k + 1]]
  BY <1>4 DEF Due
<1>6. RW!Deliver
  BY <1>3, <1>5 DEF RW!Deliver, RW!Turns, Slots, Pop
<1>7. QED
  BY <1>6 DEF RW!Next

\* The ring of packets implements the line of turns: whatever arrives and in
\* whatever order, an accepted packet has the turn its number gives it, and
\* the turns are delivered one after the other, none skipped.
THEOREM RingImplementsReorderWindow == Spec => ImplementsReorderWindow
<1>1. Init => RW!Init
  <2> SUFFICES ASSUME Init PROVE RW!Init
    OBVIOUS
  <2>1. ASSUME NEW k \in Slots PROVE packets[SlotOf(next_seq + k)] = NoPacket
    <3>1. next_seq + k \in Int
      BY ConstantsAreNat DEF Init, Slots
    <3>2. SlotOf(next_seq + k) \in Slots
      BY <3>1, SlotOfInRing
    <3>3. QED
      BY <3>2 DEF Init
  <2>2. Due = [k \in Slots |-> NoPacket]
    BY <2>1 DEF Due
  <2>3. QED
    BY <2>2 DEF Init, RW!Init, RW!Turns, Slots
<1>2. TypeOK /\ [Next]_vars => [RW!Next]_(RW!vars)
  <2> SUFFICES ASSUME TypeOK, [Next]_vars PROVE [RW!Next]_(RW!vars)
    OBVIOUS
  <2>1. ASSUME NEW s \in Seqs, NEW p \in Payloads, Push(s, p) PROVE RW!Next
    BY <2>1, PushIsAccept
  <2>2. CASE Pop
    BY <2>2, PopIsDeliver
  <2>3. CASE WriteOrLose
    BY <2>3 DEF WriteOrLose, RW!Next, RW!WriteOut, Due, SlotOf
  <2>4. CASE UNCHANGED vars
    BY <2>4 DEF vars, RW!vars, Due, SlotOf
  <2>5. QED
    BY <2>1, <2>2, <2>3, <2>4 DEF Next
<1>3. QED
  BY <1>1, <1>2, TypeCorrect, PTL DEF Spec, ImplementsReorderWindow, RW!Spec
=============================================================================
