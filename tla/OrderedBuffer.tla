--------------------------- MODULE OrderedBuffer ---------------------------
(***************************************************************************)
(* The ordered mode of the P4 bridge: the ring of packets that the UDP    *)
(* callback and the TCP client tasks push into, and the MavlinkSend task  *)
(* that pops them in sequence order and writes them to the UARTs           *)
(* (bridge/service/bridge_network_runtime.cpp).                            *)
(*                                                                         *)
(* Push and pop run from end to end under the buffer's mutex, so each is  *)
(* one action.  A push that finds the mutex busy for 100 ms, or a number  *)
(* outside the window, changes nothing here and returns false: its caller *)
(* counts a drop (module Bridge).  A pop that finds the mutex busy for    *)
(* 10 ms or its slot free changes nothing and is tried again.             *)
(* A packet is its sequence number and an opaque payload; its time stamp  *)
(* and length are never read and are left out.                             *)
(***************************************************************************)
EXTENDS Integers

CONSTANTS
  Size,      \* ordered_buf.size, the queue_size of the configuration
  Window,    \* MAVLINK_SEQ_WINDOW
  Width,     \* number of uint32_t values, 2^32 in the code
  Seqs,      \* sequence numbers that arrive: 0 .. 255 when every datagram is
             \* a MAVLink frame, any uint32_t (milliseconds) when it is not
  Payloads,  \* packet contents, told apart only by identity
  NoPacket   \* a slot whose used flag is false

Slots == 0 .. Size - 1
Uint32 == 0 .. Width - 1
Packet == [sequence : Uint32, data : Payloads]

\* The default queue_size 32 divides 2^32 and is more than twice the window 10.
ASSUME SizeAssumption ==
  /\ Size \in Nat \ {0}
  /\ Window \in Nat
  /\ Window < Size
ASSUME WidthAssumption ==
  /\ Width \in Nat
  /\ \E laps \in 0 .. Width : Width = Size * laps
  /\ 2 * (Size + Window) < Width
ASSUME SeqsAssumption == Seqs \subseteq Uint32
ASSUME NoPacketAssumption == NoPacket \notin Packet

VARIABLES
  packets,   \* ordered_buf.packets: the slots of the ring
  next_seq,  \* ordered_buf.next_seq: the number the next pop looks for
  sending    \* the packet MavlinkSend holds between its pop and its write

vars == <<packets, next_seq, sending>>

\* Mutant of Diff: the difference is not wrapped to int32_t.
DiffUnwrapped(a, b) == a - b

\* (int32_t)(a - b): the signed distance of two uint32_t numbers.
Diff(a, b) ==
  LET d == (a - b) % Width IN IF 2 * d < Width THEN d ELSE d - Width

\* Mutant of SlotOf: a slot of another lap's number is used again too early.
SlotOfShifted(sequence) == (sequence + sequence \div Size) % Size

SlotOf(sequence) == sequence % Size

TypeOK ==
  /\ packets \in [Slots -> Packet \cup {NoPacket}]
  /\ next_seq \in Uint32
  /\ sending \in Packet \cup {NoPacket}

-----------------------------------------------------------------------------
Init ==
  /\ packets = [i \in Slots |-> NoPacket]
  /\ next_seq = 0
  /\ sending = NoPacket

\* Mutants of InWindow: no lower bound; twice the window.
InWindowAheadOnly(sequence) == Diff(sequence, next_seq) <= Window
InWindowTwice(sequence) == Diff(sequence, next_seq) \in -2 * Window .. 2 * Window

InWindow(sequence) == Diff(sequence, next_seq) \in -Window .. Window

\* A packet in the window takes the slot of its number, whatever was there.
Push(sequence, data) ==
  /\ InWindow(sequence)
  /\ packets' = [packets EXCEPT ![SlotOf(sequence)] =
                   [sequence |-> sequence, data |-> data]]
  /\ UNCHANGED <<next_seq, sending>>

\* Mutants of Pop: next_seq is not advanced; a gap is skipped.
PopStandsStill ==
  /\ sending = NoPacket
  /\ packets[SlotOf(next_seq)] # NoPacket
  /\ sending' = packets[SlotOf(next_seq)]
  /\ packets' = [packets EXCEPT ![SlotOf(next_seq)] = NoPacket]
  /\ UNCHANGED next_seq

PopSkipsGap ==
  /\ sending = NoPacket
  /\ sending' = packets[SlotOf(next_seq)]
  /\ packets' = [packets EXCEPT ![SlotOf(next_seq)] = NoPacket]
  /\ next_seq' = (next_seq + 1) % Width

\* The slot of next_seq is emptied and next_seq moves on; the number the slot
\* holds is not looked at.
Pop ==
  /\ sending = NoPacket
  /\ packets[SlotOf(next_seq)] # NoPacket
  /\ sending' = packets[SlotOf(next_seq)]
  /\ packets' = [packets EXCEPT ![SlotOf(next_seq)] = NoPacket]
  /\ next_seq' = (next_seq + 1) % Width

\* The packet is written to the enabled UARTs, or lost when uart_mutex stays
\* busy for 100 ms: in either case MavlinkSend is done with it.
WriteOrLose ==
  /\ sending # NoPacket
  /\ sending' = NoPacket
  /\ UNCHANGED <<packets, next_seq>>

Next ==
  \/ \E s \in Seqs, d \in Payloads : Push(s, d)
  \/ Pop
  \/ WriteOrLose

Spec == Init /\ [][Next]_vars

\* MavlinkSend loops for as long as the bridge runs; arrivals are not fair.
FairSpec == Spec /\ WF_vars(Pop) /\ WF_vars(WriteOrLose)

-----------------------------------------------------------------------------
(* Every packet in the ring sits in the slot of its number, at most Window *)
(* numbers ahead of next_seq and at most one lap behind it: what the push's *)
(* window test and the pop's "stop at a free slot" are for.                 *)
WithinOneLap ==
  \A i \in Slots : packets[i] # NoPacket =>
    /\ SlotOf(packets[i].sequence) = i
    /\ Diff(packets[i].sequence, next_seq) \in -Size .. Window

(* The pop never checks the number in its slot, and yet what it delivers is *)
(* the number it looks for, or a late duplicate of exactly one lap earlier: *)
(* never a packet from the future, never one of another lap.                *)
OnTimeOrOneLapLate ==
  [][Pop => Diff(sending'.sequence, next_seq) \in {0, -Size}]_vars

(* A packet that is not late is not lost in the ring: it stays until the   *)
(* task delivers it or a packet of the same number replaces it.  Needs     *)
(* 2 * Window < Size, as the default 32 slots for a window of 10 give.     *)
FreshPacketSurvives ==
  [][\A i \in Slots :
       /\ packets[i] # NoPacket
       /\ Diff(packets[i].sequence, next_seq) >= 0
       => \/ packets'[i] # NoPacket /\ packets'[i].sequence = packets[i].sequence
          \/ sending' = packets[i]]_vars

(* A packet in the slot of next_seq leaves it: the task does not stall on a *)
(* packet that is there, only on a number that never came.                  *)
HeadLeaves ==
  \A n \in Uint32 :
    (next_seq = n /\ packets[SlotOf(n)] # NoPacket) ~> (next_seq # n)

\* The ring read from next_seq on is the line of turns of ReorderWindow.
Due == [k \in Slots |-> packets[SlotOf(next_seq + k)]]

RW == INSTANCE ReorderWindow WITH due <- Due, next <- next_seq, out <- sending

(* The ring keeps the promise of ReorderWindow: every accepted packet has  *)
(* the turn its number gives it, and no delivery passes a vacant turn.      *)
ImplementsReorderWindow == RW!Spec

=============================================================================
