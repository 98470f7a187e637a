---------------------------- MODULE ReliableStream ----------------------------
(***************************************************************************)
(* What a pair of KcpPeers promises its applications: what is written at   *)
(* one end is read at the other, in order, once, and nothing else is.      *)
(* With stream = false a read returns exactly one message; with            *)
(* stream = true it returns some of the bytes that wait.                   *)
(***************************************************************************)
EXTENDS Integers

CONSTANTS Endpoint, StreamMode

VARIABLES
  sent,   \* bytes accepted from the application of each endpoint
  ends,   \* the ends of the messages among them
  read    \* bytes of the other endpoint that its application has read

abstractVars == <<sent, ends, read>>

Peer(e) == CHOOSE o \in Endpoint : o # e

Init ==
  /\ sent = [e \in Endpoint |-> 0]
  /\ ends = [e \in Endpoint |-> {}]
  /\ read = [e \in Endpoint |-> 0]

\* A write is accepted whole and ends a message; in stream mode a write that
\* is refused may have left a part of it behind.
Write(e) ==
  /\ sent'[e] \in Nat /\ sent'[e] >= sent[e]
  /\ sent' = [sent EXCEPT ![e] = sent'[e]]
  /\ \/ ends' = [ends EXCEPT ![e] = @ \cup {sent'[e]}]
     \/ e \in StreamMode /\ UNCHANGED ends
  /\ UNCHANGED read

\* The end of the first message of o after position p is at position q.
IsNextEnd(o, p, q) ==
  q \in ends[o] /\ \A r \in ends[o] : r <= p \/ r >= q

Read(e) ==
  /\ read'[e] \in read[e]..sent[Peer(e)]
  /\ read' = [read EXCEPT ![e] = read'[e]]
  /\ Peer(e) \notin StreamMode => IsNextEnd(Peer(e), read[e], read'[e])
  /\ UNCHANGED <<sent, ends>>

Next == \E e \in Endpoint : Write(e) \/ Read(e)

Spec == Init /\ [][Next]_abstractVars
=============================================================================
