--------------------------------- MODULE Kcp ---------------------------------
(***************************************************************************)
(* The ARQ engine of src/src/kcp/kcp_module/kcp.rs: two Kcp control blocks *)
(* that exchange datagrams over UDP.  An operation of a control block runs *)
(* under the peer's mutex, so each is one action.  input(), which loops    *)
(* over the segments of a datagram, is one action per segment; the other   *)
(* endpoint waits while it runs, for it touches nothing of theirs.         *)
(*                                                                         *)
(* A byte is the position at which the application wrote it: a piece of    *)
(* data is [off, len, frg], the bytes off+1 .. off+len and the fragment    *)
(* number.  Timers (resendts, ts_probe) are a choice made by each flush,   *)
(* the congestion window is any value of Cwnd, and MTU counts segments.    *)
(***************************************************************************)
EXTENDS Integers, Sequences, FiniteSets

CONSTANTS
  Endpoint,         \* the two control blocks of a conversation
  StreamMode,       \* the endpoints configured with stream = true
  Mss,              \* bytes per segment
  MTU,              \* segments per datagram
  KCP_WND_RCV,      \* default receive window, and the limit of fragments
  SndWnd,           \* configured send window
  RcvWndCfg,        \* configured receive window, 0 when not configured
  FastResend,       \* duplicate ACKs that trigger a resend, 0 to disable
  Cwnd,             \* values the congestion window may have in a flush
  WriteSizes,       \* sizes of the application's writes
  Duplicating,      \* the network may deliver a datagram again and again
  Settles,          \* the network stops losing datagrams at some time
  MaxWrite,         \* bound: bytes the endpoint writes
  MaxAcks,          \* bound: pending ACKs of an endpoint
  MaxInFlight,      \* bound: datagrams the network carries to the endpoint
  MaxFailures       \* bound: sends of the UDP socket that fail

ASSUME KcpAssumption ==
  /\ \E a, b \in Endpoint : a # b /\ Endpoint = {a, b}
  /\ StreamMode \subseteq Endpoint
  /\ {Mss, MTU, KCP_WND_RCV, SndWnd} \subseteq Nat \ {0}
  /\ {RcvWndCfg, FastResend, MaxAcks, MaxFailures} \subseteq Nat
  /\ {Duplicating, Settles} \subseteq BOOLEAN
  /\ MaxWrite \in [Endpoint -> Nat]
  /\ MaxInFlight \in [Endpoint -> Nat]
  /\ Cwnd \subseteq Nat
  /\ WriteSizes \subseteq Nat

VARIABLES
  snd_queue,   \* data written and not yet numbered
  snd_buf,     \* data numbered and not yet acknowledged
  snd_una,     \* first unacknowledged number
  snd_nxt,     \* next number to give
  rmt_wnd,     \* the receive window the remote end last told
  probing,     \* probe_wait # 0: the window probe timer is armed
  rcv_buf,     \* segments received ahead of rcv_nxt
  rcv_queue,   \* segments ready for recv
  rcv_nxt,     \* next number expected
  acklist,     \* numbers to acknowledge
  probe,       \* pending window commands
  buf,         \* output buffer: encoded and not handed to UDP
  rx,          \* segments of the datagram that input() has still to read
  max_ack,     \* highest ACK number of that datagram, -1 for none
  net,         \* datagrams in flight to each endpoint
  settled,     \* the network no longer loses datagrams
  failures,    \* failed sends so far
  wrote,       \* history: bytes accepted into snd_queue
  ends,        \* history: ends of the messages written
  log,         \* history: the data numbered 0, 1, 2, ...
  out          \* history: the data handed to the application by recv

sndVars == <<snd_queue, snd_buf, snd_una, snd_nxt, rmt_wnd, probing, log>>
rcvVars == <<rcv_buf, rcv_queue, rcv_nxt, acklist, probe>>
appVars == <<wrote, ends, out>>
inVars  == <<rx, max_ack>>
outVars == <<buf, net, settled, failures>>
vars    == <<sndVars, rcvVars, appVars, inVars, outVars>>

-----------------------------------------------------------------------------
MinOf(a, b) == IF a < b THEN a ELSE b
MaxOf(a, b) == IF a < b THEN b ELSE a
CeilDiv(a, b) == (a + b - 1) \div b
Elems(s) == {s[i] : i \in 1..Len(s)}

Other(e) == CHOOSE o \in Endpoint : o # e

\* Fault: the configured window is taken as it is.
rcv_wnd_Unbounded == IF RcvWndCfg > 0 THEN RcvWndCfg ELSE KCP_WND_RCV

rcv_wnd == IF RcvWndCfg > 0 THEN MaxOf(RcvWndCfg, KCP_WND_RCV) ELSE KCP_WND_RCV

Command == {"PUSH", "ACK", "WASK", "WINS"}
Data    == [off : Nat, len : Nat, frg : Nat]
NoData  == [off |-> 0, len |-> 0, frg |-> 0]
Flight  == [sn : Nat, c : Data, xmit : BOOLEAN, fastack : Nat]
Arrived == [sn : Nat, c : Data]
Segment == [cmd : Command, sn : Nat, c : Data, wnd : Nat, una : Nat]

Init ==
  /\ snd_queue = [e \in Endpoint |-> <<>>]
  /\ snd_buf   = [e \in Endpoint |-> <<>>]
  /\ snd_una   = [e \in Endpoint |-> 0]
  /\ snd_nxt   = [e \in Endpoint |-> 0]
  /\ rmt_wnd   = [e \in Endpoint |-> KCP_WND_RCV]
  /\ probing   = [e \in Endpoint |-> FALSE]
  /\ rcv_buf   = [e \in Endpoint |-> <<>>]
  /\ rcv_queue = [e \in Endpoint |-> <<>>]
  /\ rcv_nxt   = [e \in Endpoint |-> 0]
  /\ acklist   = [e \in Endpoint |-> <<>>]
  /\ probe     = [e \in Endpoint |-> {}]
  /\ buf       = [e \in Endpoint |-> <<>>]
  /\ rx        = [e \in Endpoint |-> <<>>]
  /\ max_ack   = [e \in Endpoint |-> -1]
  /\ net       = [e \in Endpoint |-> {}]
  /\ settled   = FALSE
  /\ failures  = 0
  /\ wrote     = [e \in Endpoint |-> 0]
  /\ ends      = [e \in Endpoint |-> {}]
  /\ log       = [e \in Endpoint |-> <<>>]
  /\ out       = [e \in Endpoint |-> <<>>]

\* The input loop of e runs, and holds the lock of its control block.
Busy(e) == rx[e] # <<>>
Idle    == \A e \in Endpoint : ~Busy(e)

-----------------------------------------------------------------------------
(* send                                                                    *)

\* Fault: every fragment is taken to be full.
Fragments_AllFull(e, base, size, count) ==
  [i \in 1..count |->
     [off |-> base + (i - 1) * Mss, len |-> Mss,
      frg |-> IF e \in StreamMode THEN 0 ELSE count - i]]

Fragments(e, base, size, count) ==
  [i \in 1..count |->
     [off |-> base + (i - 1) * Mss,
      len |-> MinOf(Mss, size - (i - 1) * Mss),
      frg |-> IF e \in StreamMode THEN 0 ELSE count - i]]

\* A write of n bytes.  In stream mode the last queued segment is filled
\* first; a remainder that needs too many fragments is refused, and what
\* already went into the last segment stays there.
Send(e, n) ==
  LET q      == snd_queue[e]
      merge  == e \in StreamMode /\ q # <<>>
      extend == IF merge THEN MinOf(n, Mss - q[Len(q)].len) ELSE 0
      kept   == IF merge THEN [q EXCEPT ![Len(q)].len = @ + extend] ELSE q
      rest   == n - extend
      count  == IF rest <= Mss THEN 1 ELSE CeilDiv(rest, Mss)
      done   == merge /\ rest = 0
      tooBig == ~done /\ count >= KCP_WND_RCV
  IN /\ Idle
     /\ snd_queue' = [snd_queue EXCEPT ![e] =
          IF done \/ tooBig THEN kept
          ELSE kept \o Fragments(e, wrote[e] + extend, rest, count)]
     /\ wrote' = [wrote EXCEPT ![e] = @ + (IF tooBig THEN extend ELSE n)]
     /\ wrote'[e] <= MaxWrite[e]
     /\ ends' = [ends EXCEPT ![e] =
          @ \cup (IF tooBig THEN {} ELSE {wrote[e] + n})]
     /\ UNCHANGED <<snd_buf, snd_una, snd_nxt, rmt_wnd, probing, log, out>>
     /\ UNCHANGED <<rcvVars, inVars, outVars>>

-----------------------------------------------------------------------------
(* recv                                                                    *)

\* Fault: one fragment too few is waited for.
Ready_OneShort(e) ==
  rcv_queue[e] # <<>> /\ Len(rcv_queue[e]) >= rcv_queue[e][1].c.frg

\* peek_size returns a size: the first message has all its fragments.
Ready(e) ==
  /\ rcv_queue[e] # <<>>
  /\ Len(rcv_queue[e]) >= rcv_queue[e][1].c.frg + 1

\* The first n segments of q are those the merge loop of recv pops.
Merged(q, n) ==
  /\ n \in 1..Len(q)
  /\ \A i \in 1..(n - 1) : q[i].c.frg # 0
  /\ q[n].c.frg = 0 \/ n = Len(q)

\* Faults: a gap in the numbers is not seen; one segment moves at a time.
Movable_OverGap(b, nxt, used, n) == n = MinOf(Len(b), rcv_wnd - used)
Movable_AtMostOne(b, nxt, used, n) ==
  n = IF b # <<>> /\ b[1].sn = nxt /\ used < rcv_wnd THEN 1 ELSE 0

\* n segments move from the front of b to a queue of length used.
Movable(b, nxt, used, n) ==
  /\ n \in 0..Len(b)
  /\ \A i \in 1..n : b[i].sn = nxt + i - 1 /\ used + i - 1 < rcv_wnd
  /\ n < Len(b) => b[n + 1].sn # nxt + n \/ used + n >= rcv_wnd

\* The application takes the first message, with a buffer that is large
\* enough; the room it leaves is refilled from rcv_buf.
Recv(e) ==
  /\ Idle
  /\ Ready(e)
  /\ \E n \in 1..Len(rcv_queue[e]) : \E m \in 0..Len(rcv_buf[e]) :
       LET q     == rcv_queue[e]
           b     == rcv_buf[e]
           left  == SubSeq(q, n + 1, Len(q))
           queue == left \o SubSeq(b, 1, m)
           tell  == Len(q) >= rcv_wnd /\ Len(queue) < rcv_wnd
       IN /\ Merged(q, n)
          /\ Movable(b, rcv_nxt[e], Len(left), m)
          /\ rcv_queue' = [rcv_queue EXCEPT ![e] = queue]
          /\ rcv_buf'   = [rcv_buf EXCEPT ![e] = SubSeq(b, m + 1, Len(b))]
          /\ rcv_nxt'   = [rcv_nxt EXCEPT ![e] = @ + m]
          /\ probe'     = [probe EXCEPT ![e] =
                             IF tell THEN @ \cup {"TELL"} ELSE @]
          /\ out'       = [out EXCEPT ![e] = @ \o SubSeq(q, 1, n)]
  /\ UNCHANGED <<acklist, sndVars, inVars, outVars, wrote, ends>>

-----------------------------------------------------------------------------
(* input                                                                   *)

\* A datagram reaches e.  A network that duplicates still carries it.
Deliver(e, d) ==
  /\ Idle
  /\ Len(acklist[e]) + Cardinality({i \in 1..Len(d) : d[i].cmd = "PUSH"})
       <= MaxAcks
  /\ rx' = [rx EXCEPT ![e] = d]
  /\ net' = IF Duplicating THEN net ELSE [net EXCEPT ![e] = @ \ {d}]
  /\ UNCHANGED <<sndVars, rcvVars, appVars, max_ack, buf, settled, failures>>

\* parse_una: the first k segments of sb are the ones below una.
Passed(sb, una, k) ==
  /\ k \in 0..Len(sb)
  /\ \A i \in 1..k : sb[i].sn < una
  /\ k < Len(sb) => sb[k + 1].sn >= una

\* Faults: snd_una stays when everything has been acknowledged; snd_una is
\* taken from the segment.
shrink_buf_KeepsUna(e, sb) == IF sb = <<>> THEN snd_una[e] ELSE sb[1].sn
shrink_buf_TakesUna(e, sb) ==
  IF Busy(e) THEN Head(rx[e]).una ELSE snd_una[e]

shrink_buf(e, sb) == IF sb = <<>> THEN snd_nxt[e] ELSE sb[1].sn

\* parse_ack and parse_fastack ignore numbers outside the send window.
InSendWindow(e, una, sn) == una <= sn /\ sn < snd_nxt[e]

\* The place of sn in sb, scanning up to the first greater number.
IsAt(sb, sn, i) == sb[i].sn = sn /\ \A j \in 1..(i - 1) : sb[j].sn < sn

parse_ack(e, sb, sn) ==
  LET found == {i \in 1..Len(sb) : IsAt(sb, sn, i)}
  IN IF InSendWindow(e, shrink_buf(e, sb), sn) /\ found # {}
     THEN LET i == CHOOSE i \in found : TRUE
          IN SubSeq(sb, 1, i - 1) \o SubSeq(sb, i + 1, Len(sb))
     ELSE sb

\* fastack only matters up to FastResend, where it saturates.
parse_fastack(e, sb, sn) ==
  IF InSendWindow(e, shrink_buf(e, sb), sn)
  THEN [i \in 1..Len(sb) |->
          IF sb[i].sn # sn /\ \A j \in 1..i : sb[j].sn <= sn
          THEN [sb[i] EXCEPT !.fastack = MinOf(@ + 1, FastResend)]
          ELSE sb[i]]
  ELSE sb

\* What every segment does to the sender, where sb is snd_buf once the
\* segment's una and ACK are applied and m is the highest ACK so far: at the
\* end of the datagram m counts against the older segments.
FinishSegment(e, sb, m) ==
  LET last == Len(rx[e]) = 1
  IN /\ rx' = [rx EXCEPT ![e] = Tail(@)]
     /\ max_ack' = [max_ack EXCEPT ![e] = IF last THEN -1 ELSE m]
     /\ rmt_wnd' = [rmt_wnd EXCEPT ![e] = Head(rx[e]).wnd]
     /\ snd_una' = [snd_una EXCEPT ![e] = shrink_buf(e, sb)]
     /\ snd_buf' = [snd_buf EXCEPT ![e] =
          IF last /\ m >= 0 THEN parse_fastack(e, sb, m) ELSE sb]
     /\ UNCHANGED <<snd_queue, snd_nxt, probing, log, appVars, outVars>>

AfterUna(e, k) == SubSeq(snd_buf[e], k + 1, Len(snd_buf[e]))

InputAck(e) ==
  /\ Busy(e)
  /\ Head(rx[e]).cmd = "ACK"
  /\ \E k \in 0..Len(snd_buf[e]) :
       LET sn == Head(rx[e]).sn
       IN /\ Passed(snd_buf[e], Head(rx[e]).una, k)
          /\ FinishSegment(e, parse_ack(e, AfterUna(e, k), sn),
                           MaxOf(max_ack[e], sn))
  /\ UNCHANGED rcvVars

\* Fault: what arrives is put at the back.
Place_AtBack(b, sn, p) == p = Len(b)

\* parse_data looks for the place of sn from the back: behind p segments.
Place(b, sn, p) ==
  /\ p \in 0..Len(b)
  /\ \A i \in (p + 1)..Len(b) : b[i].sn > sn
  /\ p > 0 => b[p].sn <= sn

Insert(b, seg, p) ==
  IF p > 0 /\ b[p].sn = seg.sn THEN b
  ELSE SubSeq(b, 1, p) \o <<seg>> \o SubSeq(b, p + 1, Len(b))

\* A number of the receive window is acknowledged and stored, and what has
\* become consecutive moves to rcv_queue.
InputPushStored(e) ==
  /\ Busy(e)
  /\ LET s == Head(rx[e])
     IN /\ s.cmd = "PUSH"
        /\ s.sn < rcv_nxt[e] + rcv_wnd
        /\ s.sn >= rcv_nxt[e]
        /\ acklist' = [acklist EXCEPT ![e] = Append(@, s.sn)]
        /\ \E p \in 0..Len(rcv_buf[e]) :
             LET b == Insert(rcv_buf[e], [sn |-> s.sn, c |-> s.c], p)
             IN /\ Place(rcv_buf[e], s.sn, p)
                /\ \E m \in 0..Len(b) :
                     /\ Movable(b, rcv_nxt[e], Len(rcv_queue[e]), m)
                     /\ rcv_queue' = [rcv_queue EXCEPT ![e] =
                                        @ \o SubSeq(b, 1, m)]
                     /\ rcv_buf' = [rcv_buf EXCEPT ![e] =
                                      SubSeq(b, m + 1, Len(b))]
                     /\ rcv_nxt' = [rcv_nxt EXCEPT ![e] = @ + m]
        /\ \E k \in 0..Len(snd_buf[e]) :
             /\ Passed(snd_buf[e], s.una, k)
             /\ FinishSegment(e, AfterUna(e, k), max_ack[e])
  /\ UNCHANGED probe

\* A number below the window is acknowledged again, one above is dropped.
InputPushRefused(e) ==
  /\ Busy(e)
  /\ LET s == Head(rx[e])
     IN /\ s.cmd = "PUSH"
        /\ s.sn \notin rcv_nxt[e]..(rcv_nxt[e] + rcv_wnd - 1)
        /\ acklist' = [acklist EXCEPT ![e] =
             IF s.sn < rcv_nxt[e] THEN Append(@, s.sn) ELSE @]
        /\ \E k \in 0..Len(snd_buf[e]) :
             /\ Passed(snd_buf[e], s.una, k)
             /\ FinishSegment(e, AfterUna(e, k), max_ack[e])
  /\ UNCHANGED <<rcv_buf, rcv_queue, rcv_nxt, probe>>

InputWindow(e) ==
  /\ Busy(e)
  /\ LET s == Head(rx[e])
     IN /\ s.cmd \in {"WASK", "WINS"}
        /\ probe' = [probe EXCEPT ![e] =
             IF s.cmd = "WASK" THEN @ \cup {"TELL"} ELSE @]
        /\ \E k \in 0..Len(snd_buf[e]) :
             /\ Passed(snd_buf[e], s.una, k)
             /\ FinishSegment(e, AfterUna(e, k), max_ack[e])
  /\ UNCHANGED <<rcv_buf, rcv_queue, rcv_nxt, acklist>>

-----------------------------------------------------------------------------
(* flush                                                                   *)

\* Fault: one slot of the window is held back.
wnd_unused_OffByOne(e) == rcv_wnd - Len(rcv_queue[e]) - 1

wnd_unused(e) ==
  IF Len(rcv_queue[e]) < rcv_wnd THEN rcv_wnd - Len(rcv_queue[e]) ELSE 0

\* Fault: una counts the segments that wait behind a gap.
Header_CountsGaps(e, cmd, sn) ==
  [cmd |-> cmd, sn |-> sn, c |-> NoData,
   wnd |-> wnd_unused(e), una |-> rcv_nxt[e] + Len(rcv_buf[e])]

Header(e, cmd, sn) ==
  [cmd |-> cmd, sn |-> sn, c |-> NoData,
   wnd |-> wnd_unused(e), una |-> rcv_nxt[e]]

AckSegments(e) ==
  [i \in 1..Len(acklist[e]) |-> Header(e, "ACK", acklist[e][i])]

\* Fault: a closed window is never probed.
Asked_Never(e, fired) == probe[e]

\* probe_wnd_size: a probe is due when its timer was armed and has fired.
Asked(e, fired) ==
  IF rmt_wnd[e] = 0 /\ probing[e] /\ fired THEN probe[e] \cup {"ASK"}
  ELSE probe[e]

\* The number of a window command is not read by its receiver.
ProbeSegments(e, asked) ==
  (IF "ASK" \in asked THEN <<Header(e, "WASK", 0)>> ELSE <<>>)
    \o (IF "TELL" \in asked THEN <<Header(e, "WINS", 0)>> ELSE <<>>)

\* The segments that the send window lets out of snd_queue.
Admitted(e, cwnd) ==
  LET wnd == MinOf(MinOf(SndWnd, rmt_wnd[e]), cwnd)
  IN MaxOf(0, MinOf(Len(snd_queue[e]), snd_una[e] + wnd - snd_nxt[e]))

Numbered(e, n) ==
  [i \in 1..n |-> [sn |-> snd_nxt[e] + i - 1, c |-> snd_queue[e][i],
                   xmit |-> FALSE, fastack |-> 0]]

FastDue(g) == FastResend > 0 /\ g.fastack >= FastResend

\* The places of sb that a flush transmits: what was never sent, what is late
\* (its resendts has passed), what ACKs overtook.
DuePlaces(sb, late) ==
  {i \in 1..Len(sb) : ~sb[i].xmit \/ i \in late \/ FastDue(sb[i])}

\* due goes through those places in order.
Due(D, due) ==
  /\ \A i, j \in 1..Len(due) : i < j => due[i] < due[j]
  /\ Elems(due) = D

DataSegments(e, sb, due) ==
  [p \in 1..Len(due) |->
     [cmd |-> "PUSH", sn |-> sb[due[p]].sn, c |-> sb[due[p]].c,
      wnd |-> wnd_unused(e), una |-> rcv_nxt[e]]]

\* Fault: a flush that fails forgets the segments it did not come to.
Transmitted_Truncated(sb, late, places) ==
  [i \in 1..Cardinality(places) |-> [sb[i] EXCEPT !.xmit = TRUE]]

\* snd_buf once the flush has come to the segments places.
Transmitted(sb, late, places) ==
  [i \in 1..Len(sb) |->
     IF i \notin places THEN sb[i]
     ELSE [sb[i] EXCEPT !.xmit = TRUE,
                        !.fastack = IF sb[i].xmit /\ i \notin late
                                    THEN 0 ELSE @]]

\* The datagrams into which the output buffer is cut.
Datagrams(segs) ==
  [j \in 1..CeilDiv(Len(segs), MTU) |->
     SubSeq(segs, (j - 1) * MTU + 1, MinOf(j * MTU, Len(segs)))]

\* What the network may carry after a flush has sent to o.  It loses datagrams
\* when it is full; one that no longer loses any holds the flush back instead.
Carried(o, sent) ==
  LET all == net[o] \cup sent
  IN IF Cardinality(all) <= MaxInFlight[o] THEN {all}
     ELSE {s \in SUBSET all : ~settled /\ Cardinality(s) = MaxInFlight[o]}

\* The sends of a flush that may fail: number f of them, none when f is past
\* the last of n datagrams.
Failing(n, fails) ==
  IF fails /\ failures < MaxFailures THEN 1..(n + 1) ELSE {n + 1}

\* What a flush encodes behind what is left in the output buffer: ACKs, window
\* commands, data.
Encoded(e, asked, sb, due) ==
  buf[e] \o AckSegments(e) \o ProbeSegments(e, asked) \o DataSegments(e, sb, due)

\* A flush that numbers n segments, and whose f-th send fails: it stops at the
\* segment it was about to encode, and leaves in buf what it could not send.
FlushUntil(e, asked, n, late, due, f) ==
  LET sb      == snd_buf[e] \o Numbered(e, n)
      all     == Encoded(e, asked, sb, due)
      grams   == Datagrams(all)
      acks    == Len(AckSegments(e))
      before  == acks + Len(ProbeSegments(e, asked))
      reached == IF f < Len(grams) THEN f * MTU + 1 - Len(buf[e])
                 ELSE Len(all) + 1
      places  == {due[p] : p \in {x \in 1..Len(due) : x + before <= reached}}
  IN /\ failures' = IF f <= Len(grams) THEN failures + 1 ELSE failures
     /\ \E after \in Carried(Other(e), {grams[j] : j \in 1..(f - 1)}) :
          net' = [net EXCEPT ![Other(e)] = after]
     /\ buf' = [buf EXCEPT ![e] = IF f <= Len(grams) THEN grams[f] ELSE <<>>]
     /\ acklist' = [acklist EXCEPT ![e] = IF reached > acks THEN <<>> ELSE @]
     /\ probing' = [probing EXCEPT ![e] =
                      IF reached > acks THEN rmt_wnd[e] = 0 ELSE @]
     /\ probe' = [probe EXCEPT ![e] = IF reached > before THEN {}
                                      ELSE IF reached > acks THEN asked ELSE @]
     /\ IF reached > before
        THEN /\ snd_queue' = [snd_queue EXCEPT ![e] = SubSeq(@, n + 1, Len(@))]
             /\ snd_buf' = [snd_buf EXCEPT ![e] = Transmitted(sb, late, places)]
             /\ snd_nxt' = [snd_nxt EXCEPT ![e] = @ + n]
             /\ log' = [log EXCEPT ![e] = @ \o SubSeq(snd_queue[e], 1, n)]
        ELSE UNCHANGED <<snd_queue, snd_buf, snd_nxt, log>>
     /\ UNCHANGED <<snd_una, rmt_wnd, rcv_buf, rcv_queue, rcv_nxt>>
     /\ UNCHANGED <<appVars, inVars, settled>>

\* One flush, with congestion window cwnd, where fired says that the probe
\* timer has passed, late lists the segments whose resendts has, and fails
\* whether a send of the socket may fail.
Flush(e, cwnd, fired, late, fails) ==
  LET asked == Asked(e, fired)
      n     == Admitted(e, cwnd)
      sb    == snd_buf[e] \o Numbered(e, n)
      D     == DuePlaces(sb, late)
  IN \E due \in [1..Cardinality(D) -> D] :
       /\ Due(D, due)
       /\ LET grams == Datagrams(Encoded(e, asked, sb, due))
          IN \E f \in Failing(Len(grams), fails) :
               FlushUntil(e, asked, n, late, due, f)

Sent(e) == {i \in 1..Len(snd_buf[e]) : snd_buf[e][i].xmit}

\* The probe timer matters only while it is armed.
Fired(e) == IF probing[e] /\ rmt_wnd[e] = 0 THEN BOOLEAN ELSE {FALSE}

SomeFlush(e) ==
  /\ Idle
  /\ \E cwnd \in Cwnd, fired \in Fired(e), late \in SUBSET Sent(e) :
       Flush(e, cwnd, fired, late, TRUE)

Settle ==
  /\ Settles /\ ~settled
  /\ settled' = TRUE
  /\ UNCHANGED <<sndVars, rcvVars, appVars, inVars, buf, net, failures>>

Next ==
  \/ Settle
  \/ \E e \in Endpoint :
       \/ \E n \in WriteSizes : Send(e, n)
       \/ Recv(e)
       \/ \E d \in net[e] : Deliver(e, d)
       \/ InputAck(e)
       \/ InputPushStored(e)
       \/ InputPushRefused(e)
       \/ InputWindow(e)
       \/ SomeFlush(e)

Spec == Init /\ [][Next]_vars

-----------------------------------------------------------------------------
(* Fairness.                                                               *)

\* A flush that comes when the oldest segment is late and the probe timer has
\* fired, with a congestion window of at least one, and that does not fail.
TimelyFlush(e) ==
  /\ Idle
  /\ \E cwnd \in Cwnd \ {0}, late \in SUBSET Sent(e) :
       /\ Sent(e) \cap {1} \subseteq late
       /\ Flush(e, cwnd, TRUE, late, FALSE)

Input(e) ==
  InputAck(e) \/ InputPushStored(e) \/ InputPushRefused(e) \/ InputWindow(e)

\* The update loop flushes, the tasks read and process what they have, and
\* the network in the end delivers what it is given.  Each of them waits for
\* the peer's mutex, and async_lock is fair to those who wait: what
\* can run whenever the mutex is free does run (strong fairness).
Fairness ==
  /\ WF_vars(Settle)
  /\ \A e \in Endpoint : /\ WF_vars(Input(e))
                         /\ SF_vars(TimelyFlush(e))
                         /\ SF_vars(\E d \in net[e] : Deliver(e, d))
                         /\ SF_vars(Recv(e))

FairSpec == Spec /\ Fairness

-----------------------------------------------------------------------------
(* Properties.                                                             *)

\* Every variable of the control blocks and of the network keeps its type: in
\* particular no number and no advertised window is ever negative.
TypeOK ==
  /\ snd_queue \in [Endpoint -> Seq(Data)]
  /\ snd_buf   \in [Endpoint -> Seq(Flight)]
  /\ snd_una   \in [Endpoint -> Nat]
  /\ snd_nxt   \in [Endpoint -> Nat]
  /\ rmt_wnd   \in [Endpoint -> Nat]
  /\ probing   \in [Endpoint -> BOOLEAN]
  /\ rcv_buf   \in [Endpoint -> Seq(Arrived)]
  /\ rcv_queue \in [Endpoint -> Seq(Arrived)]
  /\ rcv_nxt   \in [Endpoint -> Nat]
  /\ acklist   \in [Endpoint -> Seq(Nat)]
  /\ probe     \in [Endpoint -> SUBSET {"ASK", "TELL"}]
  /\ buf       \in [Endpoint -> Seq(Segment)]
  /\ rx        \in [Endpoint -> Seq(Segment)]
  /\ max_ack   \in [Endpoint -> Nat \cup {-1}]
  /\ net       \in [Endpoint -> SUBSET Seq(Segment)]
  /\ settled   \in BOOLEAN
  /\ failures  \in Nat
  /\ wrote     \in [Endpoint -> Nat]
  /\ ends      \in [Endpoint -> SUBSET Nat]
  /\ log       \in [Endpoint -> Seq(Data)]
  /\ out       \in [Endpoint -> Seq(Arrived)]

\* Ascending numbers, all of lo..(hi - 1).
Ascending(s, lo, hi) ==
  /\ \A i \in 1..Len(s) : lo <= s[i].sn /\ s[i].sn < hi
  /\ \A i, j \in 1..Len(s) : i < j => s[i].sn < s[j].sn

\* The send buffer is in ascending order of number between snd_una and
\* snd_nxt, and snd_una is its first number: parse_ack, parse_una,
\* parse_fastack and the window test of flush all rely on it.
SndBufOrdered ==
  \A e \in Endpoint :
    /\ Ascending(snd_buf[e], snd_una[e], snd_nxt[e])
    /\ snd_una[e] = shrink_buf(e, snd_buf[e])

\* The segments that wait for a gap to close are in ascending order, without
\* repeats, inside the receive window, however datagrams were reordered.
RcvBufOrdered ==
  \A e \in Endpoint :
    Ascending(rcv_buf[e], rcv_nxt[e], rcv_nxt[e] + rcv_wnd)

\* No segment that could be read is left waiting in rcv_buf: after input and
\* after recv its front is the next number only when rcv_queue is full.
NothingStranded ==
  \A e \in Endpoint :
    rcv_buf[e] # <<>> /\ rcv_buf[e][1].sn = rcv_nxt[e]
      => Len(rcv_queue[e]) >= rcv_wnd

\* A number that e has received.
Held(e, sn) ==
  \/ sn < rcv_nxt[e]
  \/ \E i \in 1..Len(rcv_buf[e]) : rcv_buf[e][i].sn = sn

\* The sender lets go of a segment only when the receiver holds it, so that
\* whatever the network loses can be sent again.
ReleasedOnlyWhenHeld ==
  \A e \in Endpoint : \A sn \in 0..(snd_nxt[e] - 1) :
    \/ \E i \in 1..Len(snd_buf[e]) : snd_buf[e][i].sn = sn
    \/ Held(Other(e), sn)

\* What recv has returned, then what it can return, is what the other end
\* numbered 0, 1, ..., rcv_nxt - 1: each segment once, in order, unaltered.
InOrder ==
  \A e \in Endpoint :
    LET got == out[e] \o rcv_queue[e]
    IN /\ Len(got) = rcv_nxt[e]
       /\ rcv_nxt[e] <= Len(log[Other(e)])
       /\ \A i \in 1..Len(got) :
            got[i] = [sn |-> i - 1, c |-> log[Other(e)][i]]

\* The segments cut from the writes cover the bytes written, without gap or
\* overlap, none longer than mss, also when a stream write fills the last
\* queued segment or is refused half-way.
WritesCovered ==
  \A e \in Endpoint :
    LET cut == log[e] \o snd_queue[e]
        End(i) == IF i = 0 THEN 0 ELSE cut[i].off + cut[i].len
    IN /\ End(Len(cut)) = wrote[e]
       /\ \A i \in 1..Len(cut) : cut[i].off = End(i - 1) /\ cut[i].len <= Mss

\* A full receive queue always holds a message that can be read: if it did
\* not, the window would stay closed and the missing fragments never come.
FullQueueReadable ==
  \A e \in Endpoint : Len(rcv_queue[e]) >= rcv_wnd => Ready(e)

\* The acknowledged prefix only grows, whatever old datagrams arrive late.
UnaNeverBack == [][\A e \in Endpoint : snd_una'[e] >= snd_una[e]]_vars

\* Bytes that the application of e has read, as long as each piece it got began
\* where the one before ended; -1, which no stream allows, once one did not.
ReadTo(e) ==
  LET End(i) == IF i = 0 THEN 0 ELSE out[e][i].c.off + out[e][i].c.len
  IN IF \A i \in 1..Len(out[e]) : out[e][i].c.off = End(i - 1)
     THEN End(Len(out[e])) ELSE -1

\* The two control blocks implement a reliable stream: what is read is what
\* was written, in order and once, in whole messages when stream = false.
Stream == INSTANCE ReliableStream
            WITH sent <- wrote, read <- [e \in Endpoint |-> ReadTo(e)]

ImplementsStream == Stream!Spec

\* Every byte that is written is eventually read at the other end.
EventuallyRead ==
  \A e \in Endpoint : \A n \in 1..MaxWrite[e] :
    wrote[e] >= n ~> ReadTo(Other(e)) >= n
=============================================================================
