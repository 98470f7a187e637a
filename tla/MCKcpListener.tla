---------------------------- MODULE MCKcpListener ----------------------------
(* Constants and a bound for TLC: each session has an address of its own;    *)
(* the clients of a run ask for numbers, until 1 is given again, or begin    *)
(* sessions with numbers of their own choice, for make_conv and the map      *)
(* share nothing.                                                            *)
EXTENDS KcpListener

OwnAddress == [s \in Session |-> s]

AskOrBegin ==
  \/ rounds = 0
  \/ rounds = 1 /\ \A s \in Session : main[s] = "none"
=============================================================================
