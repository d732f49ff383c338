--------------------------- MODULE ReorderWindow ---------------------------
(***************************************************************************)
(* What the ordered mode of the bridge promises, without its ring: the    *)
(* packets that wait are lined up by how many deliveries they are away.   *)
(* due[k] is the packet that leaves after k more deliveries, NoPacket      *)
(* when that turn is still vacant.  A packet whose number is k ahead of    *)
(* the next one takes turn k; one that is k behind is late, and takes the  *)
(* turn its number has one lap later, Size - k.                            *)
(* OrderedBuffer implements this specification.                            *)
(***************************************************************************)
EXTENDS Integers

CONSTANTS
  Size,      \* turns in the window
  Window,    \* how far from the next number a packet may be
  Width,     \* numbers are counted modulo Width
  Seqs,      \* numbers that arrive
  Payloads,  \* contents that arrive
  NoPacket   \* a vacant turn

VARIABLES
  due,       \* due[k]: the packet that is k deliveries away
  next,      \* the number the next delivery has
  out        \* the packet delivered last and not yet written out

vars == <<due, next, out>>

Turns == 0 .. Size - 1

Init ==
  /\ due = [k \in Turns |-> NoPacket]
  /\ next = 0
  /\ out = NoPacket

\* A packet numbered s, d numbers ahead of next (behind it when d < 0).
Accept(s, p, d) ==
  /\ d \in -Window .. Window
  /\ s = (next + d) % Width
  /\ due' = [due EXCEPT ![IF d >= 0 THEN d ELSE d + Size] =
                          [sequence |-> s, data |-> p]]
  /\ UNCHANGED <<next, out>>

\* The turn that is due leaves, and every other one is a delivery closer.
Deliver ==
  /\ out = NoPacket
  /\ due[0] # NoPacket
  /\ out' = due[0]
  /\ due' = [k \in Turns |-> IF k = Size - 1 THEN NoPacket ELSE due[k + 1]]
  /\ next' = (next + 1) % Width

WriteOut ==
  /\ out # NoPacket
  /\ out' = NoPacket
  /\ UNCHANGED <<due, next>>

Next ==
  \/ \E s \in Seqs, p \in Payloads, d \in -Window .. Window : Accept(s, p, d)
  \/ Deliver
  \/ WriteOut

Spec == Init /\ [][Next]_vars
=============================================================================
