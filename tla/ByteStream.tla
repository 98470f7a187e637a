------------------------------ MODULE ByteStream ------------------------------
(***************************************************************************)
(* What an AsyncRead over a peer promises: the bytes that arrived are read *)
(* in order, each once, in pieces of any size; the broken pipe is told     *)
(* when nothing is left to read.                                           *)
(***************************************************************************)
EXTENDS Naturals, Sequences

VARIABLES
  arrived,   \* bytes that arrived: the n-th is n
  read,      \* the bytes that were read
  told       \* the broken pipe was told

Init == arrived = 0 /\ read = <<>> /\ told = FALSE

Arrive ==
  /\ ~told
  /\ arrived' \in Nat /\ arrived' > arrived
  /\ UNCHANGED <<read, told>>

Read ==
  /\ ~told
  /\ Len(read') \in Len(read) + 1..arrived
  /\ read' = [i \in 1..Len(read') |-> i]
  /\ UNCHANGED <<arrived, told>>

Tell ==
  /\ Len(read) = arrived
  /\ told' = TRUE
  /\ UNCHANGED <<arrived, read>>

Spec == Init /\ [][Arrive \/ Read \/ Tell]_<<arrived, read, told>>
=============================================================================
