---------------------------- MODULE RpcChannel ----------------------------
(***************************************************************************)
(* What the serial link between the host and the coprocessor promises: a   *)
(* request is handled as it was sent, once, and in the order of sending,   *)
(* and only a handled request is answered.                                 *)
(***************************************************************************)
EXTENDS Naturals, Sequences

CONSTANT Messages
VARIABLES sent, handled, answered
vars == <<sent, handled, answered>>

Init == sent = <<>> /\ handled = <<>> /\ answered = 0

Send ==
  /\ \E m \in Messages : sent' = Append(sent, m)
  /\ UNCHANGED <<handled, answered>>

Handle ==
  /\ Len(handled) < Len(sent)
  /\ handled' = Append(handled, sent[Len(handled) + 1])
  /\ UNCHANGED <<sent, answered>>

Answer ==
  /\ answered < Len(handled)
  /\ answered' = answered + 1
  /\ UNCHANGED <<sent, handled>>

Next == Send \/ Handle \/ Answer

Spec == Init /\ [][Next]_vars
=============================================================================
