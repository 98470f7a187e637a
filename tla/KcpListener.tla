----------------------------- MODULE KcpListener -----------------------------
(***************************************************************************)
(* The listener of src/src/kcp/kcp_server/kcp_listener.rs: for each UDP    *)
(* peer one UDP task that shakes hands, creates the KcpPeer and feeds it,  *)
(* and one main task that registers the peer, runs the application, which  *)
(* may shut its writer down, and removes the peer again; and the update    *)
(* loop, which spawns update tasks for the peers it finds.  They share the *)
(* map of peers under its RwLock, the mutex of each peer and the counter   *)
(* of make_conv.  A session is one life of a UDP peer: the udp_server      *)
(* crate starts another when an address it dropped sends again.            *)
(*                                                                         *)
(* The number of a session is the one its client writes into its first     *)
(* datagram.  The code takes any number, also one that another session has *)
(* or one that make_conv gave to somebody else, and so do the actions.     *)
(***************************************************************************)
EXTENDS Naturals, FiniteSets

CONSTANTS
  Session,      \* lives of UDP peers
  Client,       \* the remote addresses
  ClientOf,     \* the address of each session
  U32Max,       \* u32::MAX
  MaxOffer      \* bound: numbers that a client asks for

None == "none"

ASSUME ListenerAssumption ==
  /\ ClientOf \in [Session -> Client]
  /\ U32Max \in Nat \ {0, 1}
  /\ MaxOffer \in Nat
  /\ None \notin Session

VARIABLES
  conv_make,        \* the next number make_conv gives
  peers,            \* the map from numbers to the sessions
  write,            \* the main task that holds the write lock of peers
  udp,              \* where the UDP task of each session is
  main,             \* where the main task of each session is
  conv,             \* the number of the session's peer
  made,             \* the number that make_conv is returning
  offered,          \* numbers sent to each client
  closed,           \* the UDP peer was closed by KcpPeer::close
  is_broken_pipe,
  update,           \* where the update task of each session is
  shared,           \* history: sessions that shared their number while live
  rounds            \* history: how often make_conv gave the number 1

udpVars == <<udp, conv, made, offered, conv_make, shared, rounds>>
vars == <<udpVars, peers, write, main, closed, is_broken_pipe, update>>

Conv == 0..U32Max

Init ==
  /\ conv_make = 1
  /\ peers = [c \in Conv |-> None]
  /\ write = None
  /\ udp = [s \in Session |-> "none"]
  /\ main = [s \in Session |-> "none"]
  /\ conv = [s \in Session |-> 0]
  /\ made = [s \in Session |-> 0]
  /\ offered = [c \in Client |-> {}]
  /\ closed = [s \in Session |-> FALSE]
  /\ is_broken_pipe = [s \in Session |-> FALSE]
  /\ update = [s \in Session |-> "idle"]
  /\ shared = {}
  /\ rounds = 0

\* The peer of a session is in the map, or is about to be put there.
Live(s) == main[s] \in {"insert", "run", "shutLock", "remove"}

\* The application of a session runs.
Running(s) == main[s] \in {"run", "shutLock"}

UdpGoto(s, l)  == udp' = [udp EXCEPT ![s] = l]
MainGoto(s, l) == main' = [main EXCEPT ![s] = l]

-----------------------------------------------------------------------------
(* The UDP task.                                                           *)

\* A datagram comes from an address without UDP peer.
Open(s) ==
  /\ udp[s] = "none"
  /\ \A t \in Session :
       ClientOf[t] = ClientOf[s] => udp[t] \in {"none", "ended"}
  /\ UdpGoto(s, "handshake")
  /\ UNCHANGED <<conv, made, offered, conv_make, shared, rounds, peers, write,
                 main, closed, is_broken_pipe, update>>

\* Fault: the counter is loaded in the place of fetch_add.
MakeConv_Lost(s) ==
  /\ udp[s] = "handshake"
  /\ Cardinality(offered[ClientOf[s]]) < MaxOffer
  /\ made' = [made EXCEPT ![s] = conv_make]
  /\ UdpGoto(s, "reply")
  /\ UNCHANGED <<conv, conv_make, offered, shared, rounds, peers, write, main,
                 closed, is_broken_pipe, update>>

\* Four bytes, or a key: make_conv takes a number.  Who takes the one before
\* the last sets the counter back, but in a second step: what others take in
\* between are the last number, 0, and so on.
MakeConv(s) ==
  /\ udp[s] = "handshake"
  /\ Cardinality(offered[ClientOf[s]]) < MaxOffer
  /\ made' = [made EXCEPT ![s] = conv_make]
  /\ conv_make' = (conv_make + 1) % (U32Max + 1)
  /\ rounds' = IF conv_make = 1 THEN rounds + 1 ELSE rounds
  /\ UdpGoto(s, IF conv_make = U32Max - 1 THEN "reset" ELSE "reply")
  /\ UNCHANGED <<conv, offered, shared, peers, write, main, closed,
                 is_broken_pipe, update>>

ResetConv(s) ==
  /\ udp[s] = "reset"
  /\ conv_make' = 1
  /\ UdpGoto(s, "reply")
  /\ UNCHANGED <<conv, made, offered, shared, rounds, peers, write, main,
                 closed, is_broken_pipe, update>>

\* The number is sent to the client; a failing send ends the UDP task.
Reply(s, ok) ==
  /\ udp[s] = "reply"
  /\ offered' = IF ok THEN [offered EXCEPT ![ClientOf[s]] = @ \cup {made[s]}]
                ELSE offered
  /\ made' = [made EXCEPT ![s] = 0]
  /\ UdpGoto(s, IF ok THEN "handshake" ELSE "ended")
  /\ UNCHANGED <<conv, conv_make, shared, rounds, peers, write, main,
                 closed, is_broken_pipe, update>>

\* A KCP datagram with sn 0 creates the peer and is its first input; the main
\* task is spawned when that input succeeds.  Any number will do.
FirstPacket(s, c, ok) ==
  /\ udp[s] = "handshake"
  /\ conv' = IF ok THEN [conv EXCEPT ![s] = c] ELSE conv
  /\ shared' = LET same == {t \in Session : Live(t) /\ conv[t] = c}
               IN  IF ok /\ same # {} THEN shared \cup same \cup {s} ELSE shared
  /\ UdpGoto(s, IF ok THEN "running" ELSE "ended")
  /\ MainGoto(s, IF ok THEN "insert" ELSE "none")
  /\ UNCHANGED <<made, offered, conv_make, rounds, peers, write, closed,
                 is_broken_pipe, update>>

\* No datagram comes before the UDP peer times out.
GiveUp(s) ==
  /\ udp[s] = "handshake"
  /\ UdpGoto(s, "ended")
  /\ UNCHANGED <<conv, made, offered, conv_make, shared, rounds, peers, write,
                 main, closed, is_broken_pipe, update>>

\* Fault: the UDP task takes the peer out of the map itself.
UdpEnd_Removes(s) ==
  /\ udp[s] = "running"
  /\ UdpGoto(s, "ended")
  /\ is_broken_pipe' = [is_broken_pipe EXCEPT ![s] = TRUE]
  /\ peers' = [peers EXCEPT ![conv[s]] = None]
  /\ UNCHANGED <<conv, made, offered, conv_make, shared, rounds, write, main,
                 closed, update>>

\* The UDP peer times out or was closed, or an input fails: the loop is left
\* and the pipe is broken.
UdpEnd(s) ==
  /\ udp[s] = "running"
  /\ UdpGoto(s, "ended")
  /\ is_broken_pipe' = [is_broken_pipe EXCEPT ![s] = TRUE]
  /\ UNCHANGED <<conv, made, offered, conv_make, shared, rounds, peers, write,
                 main, closed, update>>

-----------------------------------------------------------------------------
(* The main task.                                                          *)

\* The peer is put into the map, over whatever was there.
Insert(s) ==
  /\ main[s] = "insert"
  /\ write = None
  /\ peers' = [peers EXCEPT ![conv[s]] = s]
  /\ MainGoto(s, "run")
  /\ UNCHANGED <<udpVars, write, closed, is_broken_pipe, update>>

\* The application shuts its writer down: KcpPeer::close, here too, does
\* nothing when the pipe is broken, else asks for the mutex of the peer.
Shutdown(s) ==
  /\ main[s] = "run"
  /\ ~is_broken_pipe[s]
  /\ MainGoto(s, "shutLock")
  /\ UNCHANGED <<udpVars, peers, write, closed, is_broken_pipe, update>>

\* The UDP peer is closed, and the application goes on.
ShutdownClose(s) ==
  /\ main[s] = "shutLock"
  /\ update[s] # "locked"
  /\ closed' = [closed EXCEPT ![s] = TRUE]
  /\ MainGoto(s, "run")
  /\ UNCHANGED <<udpVars, peers, write, is_broken_pipe, update>>

\* Fault: an application that returns an error skips the removal.
Return_Quits(s) ==
  /\ main[s] = "run"
  /\ MainGoto(s, "done")
  /\ UNCHANGED <<udpVars, peers, write, closed, is_broken_pipe, update>>

\* The application returns: at the end of what it has to do, or because a
\* read reported the broken pipe.
Return(s) ==
  /\ main[s] = "run"
  /\ MainGoto(s, "remove")
  /\ UNCHANGED <<udpVars, peers, write, closed, is_broken_pipe, update>>

\* Fault: the map is changed under a guard that does not exclude the others.
Remove_Unlocked(s) ==
  /\ main[s] = "remove"
  /\ peers' = [peers EXCEPT ![conv[s]] = None]
  /\ write' = peers[conv[s]]
  /\ MainGoto(s, IF peers[conv[s]] = None THEN "done" ELSE "close")
  /\ UNCHANGED <<udpVars, closed, is_broken_pipe, update>>

\* The entry of the number is removed; the write lock stays until the peer
\* that was found there is closed.
Remove(s) ==
  /\ main[s] = "remove"
  /\ write = None
  /\ peers' = [peers EXCEPT ![conv[s]] = None]
  /\ write' = peers[conv[s]]
  /\ MainGoto(s, IF peers[conv[s]] = None THEN "done" ELSE "close")
  /\ UNCHANGED <<udpVars, closed, is_broken_pipe, update>>

\* Faults: only a peer whose pipe is broken is closed; the write lock is kept
\* when there is nothing to close.
CloseLoad_Inverted(s) ==
  /\ main[s] = "close"
  /\ write' = IF is_broken_pipe[write] THEN write ELSE None
  /\ MainGoto(s, IF is_broken_pipe[write] THEN "closeLock" ELSE "done")
  /\ UNCHANGED <<udpVars, peers, closed, is_broken_pipe, update>>

CloseLoad_Keeps(s) ==
  /\ main[s] = "close"
  /\ MainGoto(s, IF is_broken_pipe[write] THEN "done" ELSE "closeLock")
  /\ UNCHANGED <<udpVars, peers, write, closed, is_broken_pipe, update>>

\* KcpPeer::close of the peer that was found: nothing is left to do when its
\* pipe is broken, else its mutex is asked for.
CloseLoad(s) ==
  /\ main[s] = "close"
  /\ write' = IF is_broken_pipe[write] THEN None ELSE write
  /\ MainGoto(s, IF is_broken_pipe[write] THEN "done" ELSE "closeLock")
  /\ UNCHANGED <<udpVars, peers, closed, is_broken_pipe, update>>

\* A flush that sends keeps the mutex of the peer, and so the write lock here.
Close(s) ==
  /\ main[s] = "closeLock"
  /\ update[write] # "locked"
  /\ closed' = [closed EXCEPT ![write] = TRUE]
  /\ write' = None
  /\ MainGoto(s, "done")
  /\ UNCHANGED <<udpVars, peers, is_broken_pipe, update>>

-----------------------------------------------------------------------------
(* The update loop of start and the tasks it spawns.                       *)

UpdateGoto(s, l) ==
  /\ update' = [update EXCEPT ![s] = l]
  /\ UNCHANGED <<udpVars, peers, write, main, closed, is_broken_pipe>>

\* The loop, which has the read lock, finds the peer in the map.
Visit(s) ==
  /\ write = None
  /\ \E c \in Conv : peers[c] = s
  /\ update[s] = "idle"
  /\ UpdateGoto(s, "spawned")

UpdateLock(s) == update[s] = "spawned" /\ UpdateGoto(s, "locked")

\* The flush has sent what it had, or one send failed.
UpdateEnd(s) == update[s] = "locked" /\ UpdateGoto(s, "idle")

Next ==
  \E s \in Session :
    \/ Open(s)
    \/ MakeConv(s)
    \/ ResetConv(s)
    \/ \E ok \in BOOLEAN : Reply(s, ok)
    \/ \E c \in Conv, ok \in BOOLEAN : FirstPacket(s, c, ok)
    \/ GiveUp(s)
    \/ UdpEnd(s)
    \/ Insert(s)
    \/ Shutdown(s)
    \/ ShutdownClose(s)
    \/ Return(s)
    \/ Remove(s)
    \/ CloseLoad(s)
    \/ Close(s)
    \/ Visit(s)
    \/ UpdateLock(s)
    \/ UpdateEnd(s)

Spec == Init /\ [][Next]_vars

\* Spawned tasks run, the update loop goes round, both locks are fair to those
\* who wait; a UDP peer that was closed ends its task.  When an application
\* shuts down or returns is its own affair.
Fairness ==
  \A s \in Session :
    /\ WF_vars(closed[s] /\ UdpEnd(s))
    /\ SF_vars(\/ Insert(s) \/ ShutdownClose(s)
               \/ Remove(s) \/ CloseLoad(s) \/ Close(s))
    /\ SF_vars(Visit(s) \/ UpdateLock(s) \/ UpdateEnd(s))

FairSpec == Spec /\ Fairness

-----------------------------------------------------------------------------
(* Properties.                                                             *)

\* Every variable has its type: the counter of make_conv never leaves u32;
\* and the write lock is held while one main task closes, and only then.
TypeOK ==
  /\ conv_make \in Conv
  /\ peers \in [Conv -> Session \cup {None}]
  /\ write \in Session \cup {None}
  /\ udp \in [Session -> {"none", "handshake", "reset", "reply", "running",
                          "ended"}]
  /\ main \in [Session -> {"none", "insert", "run", "shutLock", "remove",
                           "close", "closeLock", "done"}]
  /\ conv \in [Session -> Conv]
  /\ made \in [Session -> Conv]
  /\ offered \in [Client -> SUBSET Conv]
  /\ closed \in [Session -> BOOLEAN]
  /\ is_broken_pipe \in [Session -> BOOLEAN]
  /\ update \in [Session -> {"idle", "spawned", "locked"}]
  /\ shared \in SUBSET Session
  /\ rounds \in Nat
  /\ write # None <=> \E s \in Session : main[s] \in {"close", "closeLock"}
  /\ \A s, t \in Session : main[s] \in {"close", "closeLock"}
                         /\ main[t] \in {"close", "closeLock"} => s = t

\* The number that make_conv is about to return to a session.
Making(s) == udp[s] \in {"reset", "reply"}

\* Until make_conv gives 1 for the second time it gives no number twice: what
\* was sent to two clients and what is on its way differ, also when others
\* come between the two steps that set the counter back, and get the last
\* number and 0, or when the counter is set back late.
NumbersApart ==
  rounds <= 1 =>
    /\ \A c, d \in Client : c # d => offered[c] \cap offered[d] = {}
    /\ \A s \in Session : Making(s) =>
         /\ \A c \in Client : made[s] \notin offered[c]
         /\ \A t \in Session \ {s} : Making(t) => made[s] # made[t]

\* While the application of a session runs the map holds its peer, so that
\* the update loop reaches it, whatever sessions of other numbers do and
\* although every main task removes by number.  Sessions that share their
\* number with a live one are left out: they take each other's entry.
RunningRegistered ==
  \A s \in Session :
    main[s] \in {"run", "shutLock", "remove"} /\ s \notin shared
      => peers[conv[s]] = s

\* The comment at Remove, for the sessions that shared their number with no
\* other: when the main task has ended, the UDP peer is closed or its task was
\* over before; the entry that was removed was its own.
ClosesOwnUdp ==
  \A s \in Session :
    main[s] = "done" /\ s \notin shared => closed[s] \/ is_broken_pipe[s]

\* The map never keeps the peer of a session whose main task is over, even
\* when sessions share a number.
NoDeadEntry ==
  \A c \in Conv :
    peers[c] # None => main[peers[c]] \in {"run", "shutLock", "remove"}

\* When the main task of a session that shared its number with no other ends,
\* or the application of any session shuts its writer down, the UDP task ends.
MainEndEndsUdp ==
  \A s \in Session :
    (main[s] = "done" /\ s \notin shared) \/ main[s] = "shutLock"
      ~> udp[s] = "ended"

\* A session whose application runs is updated, however often a main task
\* that closes a peer keeps the map from the update loop: close waits for
\* the mutex of that peer with the write lock in its hands.  Again without
\* the sessions that share their number.
RunningUpdated ==
  \A s \in Session :
    Running(s) /\ s \notin shared
      ~> update[s] = "locked" \/ ~Running(s) \/ s \in shared

\* The comment at Remove, for every session: when the main logic of a peer
\* ends its UDP side is closed (or was broken before).
MainEndClosesUdp ==
  \A s \in Session : main[s] = "done" => closed[s] \/ is_broken_pipe[s]
=============================================================================
