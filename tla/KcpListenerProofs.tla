-------------------------- MODULE KcpListenerProofs --------------------------
(***************************************************************************)
(* For every set of sessions and of addresses, every width of the counter, *)
(* and clients that choose any number: the types; the map of peers keeps   *)
(* no entry of a session that is over; make_conv gives no number twice in  *)
(* one round of its counter; and a session that shares its number with no  *)
(* live one is in the map as long as it runs, and closes its own UDP peer  *)
(* at its end.                                                             *)
(***************************************************************************)
EXTENDS KcpListener, TLAPS

\* The main task of a session exists only once the handshake is over.
MainAfterHandshake ==
  \A s \in Session :
    udp[s] \in {"none", "handshake", "reset", "reply"} => main[s] = "none"

\* An entry of the map stands under the number of its session.
EntryHasOwnConv == \A c \in Conv : peers[c] # None => conv[peers[c]] = c

\* The inductive invariant.
MapInv == TypeOK /\ MainAfterHandshake /\ EntryHasOwnConv /\ NoDeadEntry

\* The counter stays a u32 when it is incremented.
LEMMA Wraps == \A n \in Conv : (n + 1) % (U32Max + 1) \in Conv
  BY ListenerAssumption DEF ListenerAssumption, Conv

\* The map is empty and nothing has started in the initial states.
LEMMA MapInvInit == Init => MapInv
  BY ListenerAssumption
  DEF Init, MapInv, TypeOK, MainAfterHandshake, EntryHasOwnConv, NoDeadEntry,
      ListenerAssumption, Conv

\* Every step of a UDP task and of a main task keeps the invariant.
LEMMA MapInvNext == MapInv /\ [Next]_vars => MapInv'
<1> SUFFICES ASSUME MapInv, [Next]_vars PROVE MapInv'
  OBVIOUS
<1> USE ListenerAssumption
    DEF ListenerAssumption, MapInv, MainAfterHandshake, EntryHasOwnConv,
        NoDeadEntry, TypeOK, udpVars, UdpGoto, MainGoto
<1>1. CASE UNCHANGED vars
  BY <1>1 DEF vars
<1>2. ASSUME NEW s \in Session, Open(s) PROVE MapInv'
  BY <1>2 DEF Open
<1>3. ASSUME NEW s \in Session, MakeConv(s) PROVE MapInv'
  BY <1>3, Wraps DEF MakeConv
<1>4. ASSUME NEW s \in Session, ResetConv(s) PROVE MapInv'
  BY <1>4 DEF ResetConv, Conv
<1>5. ASSUME NEW s \in Session, NEW ok \in BOOLEAN, Reply(s, ok) PROVE MapInv'
  BY <1>5 DEF Reply, Conv
<1>6. ASSUME NEW s \in Session, NEW c \in Conv, NEW ok \in BOOLEAN,
             FirstPacket(s, c, ok)
      PROVE MapInv'
  BY <1>6 DEF FirstPacket
<1>7. ASSUME NEW s \in Session, GiveUp(s) PROVE MapInv'
  BY <1>7 DEF GiveUp
<1>8. ASSUME NEW s \in Session, UdpEnd(s) PROVE MapInv'
  BY <1>8 DEF UdpEnd
<1>9. ASSUME NEW s \in Session, Insert(s) PROVE MapInv'
  BY <1>9 DEF Insert
<1>10. ASSUME NEW s \in Session, Shutdown(s) \/ ShutdownClose(s) \/ Return(s)
       PROVE MapInv'
  <2>1. CASE Shutdown(s)
    BY <2>1 DEF Shutdown
  <2>2. CASE ShutdownClose(s)
    BY <2>2 DEF ShutdownClose
  <2>3. CASE Return(s)
    BY <2>3 DEF Return
  <2> QED
    BY <1>10, <2>1, <2>2, <2>3
<1>11. ASSUME NEW s \in Session, Remove(s) PROVE MapInv'
  BY <1>11, SMTT(30) DEF Remove
<1>12. ASSUME NEW s \in Session, CloseLoad(s) PROVE MapInv'
  BY <1>12 DEF CloseLoad
<1>13. ASSUME NEW s \in Session, Close(s) PROVE MapInv'
  BY <1>13 DEF Close
<1>14. ASSUME NEW s \in Session, Visit(s) \/ UpdateLock(s) \/ UpdateEnd(s)
       PROVE MapInv'
  BY <1>14 DEF Visit, UpdateLock, UpdateEnd, UpdateGoto
<1> QED
  BY <1>1, <1>2, <1>3, <1>4, <1>5, <1>6, <1>7, <1>8, <1>9, <1>10, <1>11, <1>12,
     <1>13, <1>14
  DEF Next

\* The invariant holds in every reachable state.
LEMMA MapInvAlways == Spec => []MapInv
  BY MapInvInit, MapInvNext, PTL DEF Spec

\* The types of the listener's state: the counter is always a u32.
THEOREM ListenerTypes == Spec => []TypeOK
<1>1. MapInv => TypeOK
  BY DEF MapInv
<1> QED
  BY <1>1, MapInvAlways, PTL

\* The map of peers never keeps the peer of a session whose main task is
\* over: the update loop does not go on updating it, and its memory is freed.
THEOREM NoDeadEntryAlways == Spec => []NoDeadEntry
<1>1. MapInv => NoDeadEntry
  BY DEF MapInv
<1> QED
  BY <1>1, MapInvAlways, PTL

-----------------------------------------------------------------------------
(* The numbers of make_conv.                                               *)

\* The numbers that are left before 1 is given again: those from the counter
\* on and, after the last, 0.  Nothing is left when the counter is at 1 again,
\* be it that it was set back or that it went past 0.
Left ==
  IF rounds = 0 THEN Conv
  ELSE IF conv_make = 1 THEN {}
  ELSE IF conv_make = 0 THEN {0}
  ELSE {0} \cup conv_make..U32Max

\* Nothing was given yet when the counter starts, and nothing that is left was
\* sent to a client or is on its way.
LeftIsUnused ==
  rounds <= 1 =>
    /\ rounds = 0 => conv_make = 1 /\ \A s \in Session : udp[s] # "reset"
    /\ \A c \in Client : offered[c] \cap Left = {}
    /\ \A s \in Session : Making(s) => made[s] \notin Left

\* The inductive invariant.
NumberInv == LeftIsUnused /\ NumbersApart

\* No number has been given in the initial states.
LEMMA NumberInvInit == Init => NumberInv
  BY DEF Init, NumberInv, LeftIsUnused, NumbersApart, Making

\* make_conv takes one of the numbers that are left, and leaves the others.
LEMMA TakesFromLeft ==
  ASSUME TypeOK, NumberInv, NEW s \in Session, MakeConv(s), rounds' <= 1
  PROVE  /\ rounds <= 1 /\ rounds' = 1
         /\ conv_make \in Left
         /\ Left' \subseteq Left \ {conv_make}
<1>1. /\ rounds \in Nat /\ U32Max \in Nat \ {0, 1}
      /\ conv_make \in Nat /\ conv_make <= U32Max
      /\ rounds' = IF conv_make = 1 THEN rounds + 1 ELSE rounds
      /\ conv_make' = (conv_make + 1) % (U32Max + 1)
  BY ListenerAssumption DEF ListenerAssumption, TypeOK, Conv, MakeConv
<1>2. rounds <= 1 /\ (conv_make = 1 => rounds = 0 /\ rounds' = 1)
  BY <1>1
<1>3. conv_make # 1 => rounds = 1 /\ rounds' = 1
  BY <1>1, <1>2 DEF NumberInv, LeftIsUnused
<1>4. CASE conv_make = U32Max
  <2>1. conv_make' = 0
    BY <1>1, <1>4
  <2> QED
    BY <1>1, <1>2, <1>3, <1>4, <2>1 DEF Left
<1>5. CASE conv_make < U32Max
  <2>1. conv_make' = conv_make + 1
    BY <1>1, <1>5
  <2> QED
    BY <1>1, <1>2, <1>3, <1>5, <2>1 DEF Left, Conv
<1> QED
  BY <1>1, <1>4, <1>5

\* The number that make_conv takes is neither with a client nor on its way.
LEMMA MakeConvFresh ==
  ASSUME TypeOK, NumberInv, NEW s \in Session, MakeConv(s)
  PROVE  NumberInv'
<1> SUFFICES ASSUME rounds' <= 1
             PROVE  NumberInv'
  BY DEF NumberInv, LeftIsUnused, NumbersApart
<1>1. /\ rounds <= 1 /\ rounds' = 1
      /\ conv_make \in Left /\ Left' \subseteq Left \ {conv_make}
  BY TakesFromLeft
<1>2. /\ offered' = offered
      /\ made' = [made EXCEPT ![s] = conv_make]
      /\ ~Making(s) /\ Making(s)'
      /\ \A t \in Session \ {s} : Making(t)' <=> Making(t)
  BY DEF MakeConv, UdpGoto, Making, TypeOK
<1>3. /\ made'[s] = conv_make
      /\ \A t \in Session \ {s} : made'[t] = made[t]
  BY <1>2 DEF TypeOK
<1>4. /\ \A c \in Client : offered[c] \cap Left = {}
      /\ \A t \in Session : Making(t) => made[t] \notin Left
  BY <1>1 DEF NumberInv, LeftIsUnused
<1>5. \A c \in Client : offered'[c] \cap Left' = {}
  BY <1>1, <1>2, <1>4
<1>6. \A t \in Session : Making(t)' => made'[t] \notin Left'
  BY <1>1, <1>2, <1>3, <1>4
<1>7. LeftIsUnused'
  BY <1>1, <1>5, <1>6 DEF LeftIsUnused
<1>8. \A c \in Client : conv_make \notin offered[c]
  BY <1>1, <1>4
<1>9. \A t \in Session : Making(t) => made[t] # conv_make
  BY <1>1, <1>4
<1>10. /\ \A c, d \in Client : c # d => offered[c] \cap offered[d] = {}
       /\ \A t \in Session : Making(t) =>
            /\ \A c \in Client : made[t] \notin offered[c]
            /\ \A r \in Session \ {t} : Making(r) => made[t] # made[r]
  BY <1>1 DEF NumberInv, NumbersApart
<1>11. ASSUME NEW t \in Session, Making(t)'
       PROVE  /\ \A c \in Client : made'[t] \notin offered'[c]
              /\ \A r \in Session \ {t} : Making(r)' => made'[t] # made'[r]
  BY <1>2, <1>3, <1>8, <1>9, <1>10, <1>11
<1>12. NumbersApart'
  BY <1>2, <1>10, <1>11 DEF NumbersApart
<1> QED
  BY <1>7, <1>12 DEF NumberInv

\* What is sent to a client was nobody's, and is no longer on its way.
LEMMA ReplyFresh ==
  ASSUME TypeOK, NumberInv, NEW s \in Session, NEW ok \in BOOLEAN, Reply(s, ok)
  PROVE  NumberInv'
<1> SUFFICES ASSUME rounds' <= 1
             PROVE  NumberInv'
  BY DEF NumberInv, LeftIsUnused, NumbersApart
<1>1. /\ rounds' = rounds /\ conv_make' = conv_make /\ Left' = Left
      /\ Making(s) /\ ~Making(s)' /\ ClientOf[s] \in Client
      /\ \A t \in Session \ {s} : /\ Making(t)' <=> Making(t)
                                  /\ made'[t] = made[t]
      /\ \A t \in Session : udp'[t] = "reset" => udp[t] = "reset"
  BY ListenerAssumption
  DEF Reply, UdpGoto, Making, TypeOK, Left, ListenerAssumption
<1>2. \A c \in Client : /\ offered'[c] \subseteq offered[c] \cup {made[s]}
                        /\ c # ClientOf[s] => offered'[c] = offered[c]
  BY DEF Reply, TypeOK
<1>3. /\ \A c, d \in Client : c # d => offered[c] \cap offered[d] = {}
      /\ \A t \in Session : Making(t) =>
           /\ \A c \in Client : made[t] \notin offered[c]
           /\ \A r \in Session \ {t} : Making(r) => made[t] # made[r]
  BY <1>1 DEF NumberInv, NumbersApart
<1>4. /\ rounds = 0 => conv_make = 1 /\ \A t \in Session : udp[t] # "reset"
      /\ \A c \in Client : offered[c] \cap Left = {}
      /\ \A t \in Session : Making(t) => made[t] \notin Left
  BY <1>1 DEF NumberInv, LeftIsUnused
<1>5. \A c \in Client : offered'[c] \cap Left = {}
  BY <1>1, <1>2, <1>4
<1>6. LeftIsUnused'
  BY <1>1, <1>4, <1>5 DEF LeftIsUnused
<1>7. \A c, d \in Client : c # d => offered'[c] \cap offered'[d] = {}
  BY <1>1, <1>2, <1>3
<1>8. ASSUME NEW t \in Session, Making(t)'
      PROVE  /\ \A c \in Client : made'[t] \notin offered'[c]
             /\ \A r \in Session \ {t} : Making(r)' => made'[t] # made'[r]
  BY <1>1, <1>2, <1>3, <1>8
<1>9. NumbersApart'
  BY <1>7, <1>8 DEF NumbersApart
<1> QED
  BY <1>6, <1>9 DEF NumberInv

\* Every step keeps apart what has been given in this round.
LEMMA NumberInvNext == TypeOK /\ NumberInv /\ [Next]_vars => NumberInv'
<1> SUFFICES ASSUME TypeOK, NumberInv, [Next]_vars
             PROVE  NumberInv'
  OBVIOUS
<1>1. CASE /\ UNCHANGED <<conv_make, made, offered, rounds>>
           /\ \A t \in Session : /\ Making(t)' <=> Making(t)
                                 /\ udp'[t] = "reset" => udp[t] = "reset"
  <2>1. Left' = Left
    BY <1>1 DEF Left
  <2> QED
    BY <1>1, <2>1 DEF NumberInv, LeftIsUnused, NumbersApart
<1>2. CASE UNCHANGED <<udp, conv_make, made, offered, rounds>>
  BY <1>1, <1>2 DEF Making
<1>3. ASSUME NEW s \in Session, MakeConv(s)
      PROVE  NumberInv'
  BY <1>3, MakeConvFresh
<1>4. ASSUME NEW s \in Session, NEW ok \in BOOLEAN, Reply(s, ok)
      PROVE  NumberInv'
  BY <1>4, ReplyFresh
<1>5. ASSUME NEW s \in Session, ResetConv(s)
      PROVE  NumberInv'
  <2>1. /\ UNCHANGED <<made, offered, rounds>> /\ conv_make' = 1
        /\ \A t \in Session : Making(t)' <=> Making(t)
        /\ udp[s] = "reset" /\ rounds \in Nat
    BY <1>5 DEF ResetConv, UdpGoto, Making, TypeOK
  <2>2. rounds <= 1 => rounds = 1
    BY <2>1 DEF NumberInv, LeftIsUnused
  <2>3. rounds <= 1 => Left' = {}
    BY <2>1, <2>2 DEF Left
  <2>4. LeftIsUnused'
    BY <2>1, <2>2, <2>3 DEF LeftIsUnused
  <2>5. NumbersApart'
    BY <2>1 DEF NumberInv, NumbersApart
  <2> QED
    BY <2>4, <2>5 DEF NumberInv
<1>6. ASSUME NEW s \in Session,
             \/ Open(s) \/ GiveUp(s) \/ UdpEnd(s)
             \/ \E c \in Conv, ok \in BOOLEAN : FirstPacket(s, c, ok)
      PROVE  NumberInv'
  BY <1>1, <1>6
  DEF Open, GiveUp, UdpEnd, FirstPacket, UdpGoto, Making, TypeOK
<1>7. ASSUME NEW s \in Session,
             \/ Insert(s) \/ Shutdown(s) \/ ShutdownClose(s) \/ Return(s)
             \/ Remove(s) \/ CloseLoad(s) \/ Close(s)
             \/ Visit(s) \/ UpdateLock(s) \/ UpdateEnd(s)
      PROVE  UNCHANGED udpVars
  BY <1>7
  DEF Insert, Shutdown, ShutdownClose, Return, Remove, CloseLoad, Close, Visit,
      UpdateLock, UpdateEnd, UpdateGoto
<1> QED
  BY <1>2, <1>3, <1>4, <1>5, <1>6, <1>7 DEF Next, vars, udpVars

\* make_conv gives no number twice in one round of its counter, however the
\* handshakes interleave: also when others take numbers between the two steps
\* that set the counter back.
THEOREM NumbersApartAlways == Spec => []NumbersApart
<1>1. TypeOK /\ NumberInv /\ [Next]_vars => NumberInv'
  BY NumberInvNext
<1>2. NumberInv => NumbersApart
  BY DEF NumberInv
<1> QED
  BY <1>1, <1>2, NumberInvInit, ListenerTypes, PTL DEF Spec

-----------------------------------------------------------------------------
(* The map and the end of a session.                                       *)

\* Of two live sessions with one number the history knows both.
SharedIsKnown ==
  \A s, t \in Session :
    Live(s) /\ Live(t) /\ conv[s] = conv[t] /\ s # t => s \in shared

\* What the main task of a session that shared its number with no other
\* closes under the write lock is its own peer.
ClosesOwn ==
  \A s \in Session :
    main[s] \in {"close", "closeLock"} /\ s \notin shared => write = s

\* The inductive invariant.
OwnEndInv == SharedIsKnown /\ RunningRegistered /\ ClosesOwn /\ ClosesOwnUdp

\* No session runs in the initial states.
LEMMA OwnEndInvInit == Init => OwnEndInv
  BY DEF Init, OwnEndInv, SharedIsKnown, RunningRegistered, ClosesOwn,
         ClosesOwnUdp, Live

\* A first packet makes a session live; those that have its number are noted.
LEMMA FirstPacketKeepsOwn ==
  ASSUME MapInv, OwnEndInv, NEW s \in Session, NEW c \in Conv,
         NEW ok \in BOOLEAN, FirstPacket(s, c, ok)
  PROVE  OwnEndInv'
<1>1. /\ udp[s] = "handshake" /\ main[s] = "none"
      /\ UNCHANGED <<peers, write, closed, is_broken_pipe>>
      /\ \A t \in Session \ {s} : main'[t] = main[t] /\ conv'[t] = conv[t]
      /\ main'[s] \in {"none", "insert"}
      /\ shared \subseteq shared'
  BY DEF FirstPacket, MainGoto, MapInv, MainAfterHandshake, TypeOK
<1>2. RunningRegistered' /\ ClosesOwn' /\ ClosesOwnUdp'
  BY <1>1 DEF OwnEndInv, RunningRegistered, ClosesOwn, ClosesOwnUdp
<1>3. CASE ok = FALSE
  <2>1. main'[s] = "none"
    BY <1>3 DEF FirstPacket, MainGoto, MapInv, TypeOK
  <2> QED
    BY <1>1, <1>2, <2>1 DEF OwnEndInv, SharedIsKnown, Live
<1>4. CASE ok = TRUE
  <2> DEFINE same == {t \in Session : Live(t) /\ conv[t] = c}
  <2>1. /\ conv'[s] = c
        /\ shared' = IF same # {} THEN shared \cup same \cup {s} ELSE shared
    BY <1>4 DEF FirstPacket, MapInv, TypeOK
  <2>2. ASSUME NEW t \in Session, NEW r \in Session,
               Live(t)', Live(r)', conv'[t] = conv'[r], t # r
        PROVE  t \in shared'
    <3>1. CASE t # s /\ r # s
      BY <1>1, <2>2, <3>1 DEF OwnEndInv, SharedIsKnown, Live
    <3>2. CASE t = s \/ r = s
      <4>1. PICK q \in {t, r} : q # s
        BY <2>2, <3>2
      <4>2. Live(q) /\ conv[q] = c
        BY <1>1, <2>1, <2>2, <3>2, <4>1 DEF Live
      <4>3. q \in same /\ q \in Session
        BY <4>2
      <4> HIDE DEF same
      <4>4. t \in {q, s}
        BY <2>2, <3>2, <4>1
      <4> QED
        BY <2>1, <4>3, <4>4
    <3> QED
      BY <3>1, <3>2
  <2>3. SharedIsKnown'
    BY <2>2 DEF SharedIsKnown
  <2> QED
    BY <1>2, <2>3 DEF OwnEndInv
<1> QED
  BY <1>3, <1>4

\* An entry that is overwritten or removed is that of a session that shares its
\* number, or the own one.
LEMMA OwnEndInvNext == MapInv /\ OwnEndInv /\ [Next]_vars => OwnEndInv'
<1> SUFFICES ASSUME MapInv, OwnEndInv, [Next]_vars
             PROVE  OwnEndInv'
  OBVIOUS
<1> USE DEF OwnEndInv, SharedIsKnown, RunningRegistered, ClosesOwn,
            ClosesOwnUdp, Live, MapInv, TypeOK, udpVars, UdpGoto, MainGoto
<1>1. CASE UNCHANGED <<conv, shared, peers, write, main, closed,
                       is_broken_pipe>>
  BY <1>1
<1>2. ASSUME NEW s \in Session,
             \/ Open(s) \/ MakeConv(s) \/ ResetConv(s) \/ GiveUp(s)
             \/ \E ok \in BOOLEAN : Reply(s, ok)
      PROVE  OwnEndInv'
  BY <1>1, <1>2 DEF Open, MakeConv, ResetConv, GiveUp, Reply
<1>3. ASSUME NEW s \in Session, UdpEnd(s)
      PROVE  OwnEndInv'
  BY <1>3 DEF UdpEnd
<1>4. ASSUME NEW s \in Session, NEW c \in Conv, NEW ok \in BOOLEAN,
             FirstPacket(s, c, ok)
      PROVE  OwnEndInv'
  BY <1>4, FirstPacketKeepsOwn
<1>5. ASSUME NEW s \in Session, Insert(s)
      PROVE  OwnEndInv'
  BY <1>5 DEF Insert
<1>6. ASSUME NEW s \in Session, Shutdown(s) \/ ShutdownClose(s) \/ Return(s)
      PROVE  OwnEndInv'
  BY <1>6 DEF Shutdown, ShutdownClose, Return
<1>7. ASSUME NEW s \in Session, Remove(s)
      PROVE  OwnEndInv'
  BY <1>7, ListenerAssumption, SMTT(30) DEF Remove, ListenerAssumption
<1>8. ASSUME NEW s \in Session, CloseLoad(s)
      PROVE  OwnEndInv'
  BY <1>8 DEF CloseLoad
<1>9. ASSUME NEW s \in Session, Close(s)
      PROVE  OwnEndInv'
  BY <1>9 DEF Close
<1>10. ASSUME NEW s \in Session, Visit(s) \/ UpdateLock(s) \/ UpdateEnd(s)
       PROVE  OwnEndInv'
  BY <1>1, <1>10 DEF Visit, UpdateLock, UpdateEnd, UpdateGoto
<1> QED
  BY <1>1, <1>2, <1>3, <1>4, <1>5, <1>6, <1>7, <1>8, <1>9, <1>10 DEF Next, vars

\* Every reachable state has it.
LEMMA OwnEndInvAlways == Spec => []OwnEndInv
  BY OwnEndInvInit, OwnEndInvNext, MapInvAlways, PTL DEF Spec

\* The map holds the peer of a session as long as its application runs, and
\* the update loop reaches it, unless the session shared its number with a
\* live one.
THEOREM RunningRegisteredAlways == Spec => []RunningRegistered
<1>1. OwnEndInv => RunningRegistered
  BY DEF OwnEndInv
<1> QED
  BY <1>1, OwnEndInvAlways, PTL

\* When the main task of such a session has ended its own UDP peer is closed,
\* or its UDP task was over before, although close finds the peer by number.
THEOREM ClosesOwnUdpAlways == Spec => []ClosesOwnUdp
<1>1. OwnEndInv => ClosesOwnUdp
  BY DEF OwnEndInv
<1> QED
  BY <1>1, OwnEndInvAlways, PTL
=============================================================================
