-------------------------- MODULE MCOrderedBuffer --------------------------
(***************************************************************************)
(* OrderedBuffer on a small instance: every uint32 number arrives, so      *)
(* next_seq wraps.                                                         *)
(***************************************************************************)
EXTENDS OrderedBuffer

CONSTANTS p1, p2

MCPayloads == {p1, p2}
MCAllSeqs == 0 .. Width - 1
=============================================================================
