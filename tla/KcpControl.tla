------------------------------ MODULE KcpControl ------------------------------
(***************************************************************************)
(* How Kcp tunes itself: KcpConfig::apply_config, the estimate of the      *)
(* round trip (update_ack) and the congestion window, which input widens   *)
(* and flush narrows.  Segments are only counted: inflight is              *)
(* snd_nxt - snd_una.  Module Kcp has what these numbers leave open, with  *)
(* the windows fixed and every resend possible at any time.                *)
(***************************************************************************)
EXTENDS Integers

CONSTANTS
  None,         \* an option of KcpConfig that is not set
  Configs,      \* the configurations that sessions are made with
  Rtts,         \* the round trips that acknowledgements show, in ms
  Wnds,         \* the windows that the other side tells
  MaxMeasures   \* bound: round trips measured

U16Max == 65535
U16 == 0..U16Max

\* Times, in ms, with which no sum of update_ack leaves u32: six days.
MaxMillis == 536870911
Millis == 0..MaxMillis

\* KcpConfig.  An mtu that no UDP datagram has is left out.
NoDelayConfig == [nodelay : BOOLEAN, interval : Int, resend : Int, nc : BOOLEAN]
Config ==
  [mtu : {None} \cup U16, interval : {None} \cup Nat,
   nodelay : {None} \cup NoDelayConfig, rx_minrto : {None} \cup Nat,
   wnd_size : {None} \cup [snd : U16, rcv : U16],
   fast_resend : {None} \cup Nat]

ASSUME ControlAssumption ==
  /\ Configs \subseteq Config
  /\ \A c \in Configs : c.interval = None \/ c.interval \in Millis
  /\ Rtts \subseteq Millis /\ Wnds \subseteq U16 /\ MaxMeasures \in Nat

VARIABLES
  kcp,                    \* what the configuration sets
  rto,                    \* the fields rx_srtt, rx_rttval and rx_rto
  cwnd, incr, ssthresh,
  rmt_wnd, inflight,
  measured, rtt,          \* history: how many round trips, and the last one
  flushed                 \* history: a flush has returned Ok

vars == <<kcp, rto, cwnd, incr, ssthresh, rmt_wnd, inflight, measured, rtt,
          flushed>>

KCP_OVERHEAD   == 24
KCP_RTO_MAX    == 60000
KCP_WND_RCV    == 128
KCP_THRESH_MIN == 2

min(a, b) == IF a < b THEN a ELSE b
max(a, b) == IF a > b THEN a ELSE b
bound(lower, v, upper) == min(max(lower, v), upper)

-----------------------------------------------------------------------------
(* Kcp::construct, the setters, and apply_config in its order.             *)

Settings ==
  [mss : U16, interval : Nat, rx_minrto : Nat, snd_wnd : U16, rcv_wnd : U16,
   fastresend : Nat, nocwnd : BOOLEAN]

construct ==
  [mss |-> 1400 - KCP_OVERHEAD, interval |-> 100, rx_minrto |-> 100,
   snd_wnd |-> 32, rcv_wnd |-> KCP_WND_RCV, fastresend |-> 0, nocwnd |-> FALSE]

\* Faults: any mtu with room for a header is valid; a window of 0 is taken.
valid_mtu_Header(mtu) == mtu > KCP_OVERHEAD

set_wndsize_Zero(k, wnd) ==
  [k EXCEPT !.snd_wnd = wnd.snd, !.rcv_wnd = max(wnd.rcv, KCP_WND_RCV)]

\* Any other mtu makes apply_config panic: there is no session.
valid_mtu(mtu) == mtu >= 50

set_mtu(k, mtu) == [k EXCEPT !.mss = mtu - KCP_OVERHEAD]

\* The clamp to 10..5000 is overwritten.
set_interval(k, interval) == [k EXCEPT !.interval = interval]

set_nodelay(k, c) ==
  [k EXCEPT !.rx_minrto  = IF c.nodelay THEN 30 ELSE 100,
            !.interval   = IF c.interval >= 0 THEN bound(10, c.interval, 5000)
                           ELSE @,
            !.fastresend = IF c.resend >= 0 THEN c.resend ELSE @,
            !.nocwnd     = c.nc]

set_wndsize(k, wnd) ==
  [k EXCEPT !.snd_wnd = IF wnd.snd > 0 THEN wnd.snd ELSE @,
            !.rcv_wnd = IF wnd.rcv > 0 THEN max(wnd.rcv, KCP_WND_RCV) ELSE @]

set_rx_minrto(k, ms)  == [k EXCEPT !.rx_minrto = ms]
set_fast_resend(k, n) == [k EXCEPT !.fastresend = n]

apply_config(c) ==
  LET k1 == IF c.mtu = None THEN construct ELSE set_mtu(construct, c.mtu)
      k2 == IF c.interval = None THEN k1 ELSE set_interval(k1, c.interval)
      k3 == IF c.nodelay = None THEN k2 ELSE set_nodelay(k2, c.nodelay)
      k4 == IF c.rx_minrto = None THEN k3 ELSE set_rx_minrto(k3, c.rx_minrto)
      k5 == IF c.wnd_size = None THEN k4 ELSE set_wndsize(k4, c.wnd_size)
  IN  IF c.fast_resend = None THEN k5 ELSE set_fast_resend(k5, c.fast_resend)

Init ==
  /\ \E c \in Configs : /\ c.mtu # None => valid_mtu(c.mtu)
                        /\ kcp = apply_config(c)
  /\ rto = [srtt |-> 0, rttval |-> 0, rto |-> 200]
  /\ cwnd = 0 /\ incr = 0 /\ ssthresh = KCP_THRESH_MIN
  /\ rmt_wnd = KCP_WND_RCV /\ inflight = 0
  /\ measured = 0 /\ rtt = 0 /\ flushed = FALSE

-----------------------------------------------------------------------------
(* input.                                                                  *)

\* Fault: the deviation counts once and not four times.
update_ack_Once(r) ==
  LET delta  == IF r > rto.srtt THEN r - rto.srtt ELSE rto.srtt - r
      rttval == IF rto.srtt = 0 THEN r \div 2
                ELSE (3 * rto.rttval + delta) \div 4
      srtt   == IF rto.srtt = 0 THEN r ELSE max(1, (7 * rto.srtt + r) \div 8)
  IN  [srtt |-> srtt, rttval |-> rttval,
       rto |-> bound(kcp.rx_minrto, srtt + max(kcp.interval, rttval),
                     KCP_RTO_MAX)]

update_ack(r) ==
  LET delta  == IF r > rto.srtt THEN r - rto.srtt ELSE rto.srtt - r
      rttval == IF rto.srtt = 0 THEN r \div 2
                ELSE (3 * rto.rttval + delta) \div 4
      srtt   == IF rto.srtt = 0 THEN r ELSE max(1, (7 * rto.srtt + r) \div 8)
  IN  [srtt |-> srtt, rttval |-> rttval,
       rto |-> bound(kcp.rx_minrto, srtt + max(kcp.interval, 4 * rttval),
                     KCP_RTO_MAX)]

\* The window after snd_una has moved: one segment more in slow start, else
\* about one for every window of segments.
Grown(wnd) ==
  LET from  == max(incr, kcp.mss)
      more  == from + (kcp.mss * kcp.mss) \div from + kcp.mss \div 16
      grown == IF cwnd < ssthresh
               THEN [cwnd |-> cwnd + 1, incr |-> incr + kcp.mss]
               ELSE [cwnd |-> cwnd + (IF (cwnd + 1) * kcp.mss <= more
                                      THEN 1 ELSE 0), incr |-> more]
  IN  IF grown.cwnd > wnd THEN [cwnd |-> wnd, incr |-> wnd * kcp.mss] ELSE grown

\* A datagram that acknowledges acked segments, tells the window wnd and may
\* show a round trip: any acknowledgement does, a late or repeated one too.
\* One that shows several is as many steps, the last of which acknowledges.
Input(r, acked, wnd) ==
  /\ IF r = None
     THEN UNCHANGED <<rto, measured, rtt>>
     ELSE /\ measured < MaxMeasures
          /\ rto' = update_ack(r)
          /\ measured' = measured + 1
          /\ rtt' = r
  /\ acked <= inflight
  /\ inflight' = inflight - acked
  /\ rmt_wnd' = wnd
  /\ IF acked > 0 /\ cwnd < wnd
     THEN cwnd' = Grown(wnd).cwnd /\ incr' = Grown(wnd).incr
     ELSE UNCHANGED <<cwnd, incr>>
  /\ UNCHANGED <<kcp, ssthresh, flushed>>

-----------------------------------------------------------------------------
(* flush.                                                                  *)

\* The window that flush fills.
Window ==
  IF kcp.nocwnd THEN min(kcp.snd_wnd, rmt_wnd)
  ELSE min(cwnd, min(kcp.snd_wnd, rmt_wnd))

\* The queue gives more segments.
Fill(more) ==
  /\ more = 0 \/ inflight + more <= Window
  /\ inflight' = inflight + more
  /\ UNCHANGED <<kcp, rto, rmt_wnd, measured, rtt>>

\* A send fails and flush returns: what it resent does not count.
FlushFails(more) ==
  /\ Fill(more)
  /\ UNCHANGED <<cwnd, incr, ssthresh, flushed>>

\* Faults: incr is not reset with cwnd; half a window has no lower bound.
AfterLost_KeepsIncr(w) ==
  [w EXCEPT !.ssthresh = max(Window \div 2, KCP_THRESH_MIN), !.cwnd = 1]

AfterLost_NoMin(w) ==
  [ssthresh |-> Window \div 2, cwnd |-> 1, incr |-> kcp.mss]

\* Acknowledgements have passed a segment over, which was resent; a sum beyond
\* u16 wraps in a release build.
AfterChange(w) ==
  LET u16(n) == n % (U16Max + 1)
      thresh == max(u16(inflight') \div 2, KCP_THRESH_MIN)
      wide   == u16(thresh + u16(kcp.fastresend))
  IN  [ssthresh |-> thresh, cwnd |-> wide, incr |-> wide * kcp.mss]

\* A segment was resent because its time was over.
AfterLost(w) ==
  [ssthresh |-> max(Window \div 2, KCP_THRESH_MIN),
   cwnd |-> 1, incr |-> kcp.mss]

Opened(w) == IF w.cwnd < 1 THEN [w EXCEPT !.cwnd = 1, !.incr = kcp.mss] ELSE w

Flush(more, change, lost) ==
  LET w0 == [ssthresh |-> ssthresh, cwnd |-> cwnd, incr |-> incr]
      w1 == IF change THEN AfterChange(w0) ELSE w0
      w2 == Opened(IF lost THEN AfterLost(w1) ELSE w1)
  IN  /\ change => kcp.fastresend > 0
      /\ change \/ lost => inflight > 0
      /\ Fill(more)
      /\ ssthresh' = w2.ssthresh /\ cwnd' = w2.cwnd /\ incr' = w2.incr
      /\ flushed' = TRUE

Next ==
  \/ \E r \in Rtts \cup {None}, acked \in 0..inflight, wnd \in Wnds :
       Input(r, acked, wnd)
  \/ \E more \in 0..kcp.snd_wnd :
       \/ FlushFails(more)
       \/ \E change, lost \in BOOLEAN : Flush(more, change, lost)

Spec == Init /\ [][Next]_vars

-----------------------------------------------------------------------------
(* Properties.                                                             *)

\* Every variable has its type and width; the threshold of slow start stays
\* at KCP_THRESH_MIN or above.
TypeOK ==
  /\ kcp \in Settings
  /\ rto \in [srtt : Nat, rttval : Nat, rto : 0..KCP_RTO_MAX]
  /\ rmt_wnd \in U16 /\ inflight \in U16 /\ cwnd \in U16 /\ incr \in Nat
  /\ ssthresh \in KCP_THRESH_MIN..U16Max
  /\ measured \in 0..MaxMeasures /\ rtt \in Nat /\ flushed \in BOOLEAN

\* cwnd counts the whole segments of incr, through slow start, congestion
\* avoidance, losses and fast resends: the two counters of one window, one in
\* segments and one in bytes, never part.
IncrMatchesCwnd == cwnd * kcp.mss <= incr /\ incr < (cwnd + 1) * kcp.mss

\* Once a flush has succeeded, a remote window that is open lets a segment
\* pass, whatever was lost, however often the remote window was 0 and whatever
\* the configuration asked for.
WindowOpens == flushed /\ rmt_wnd > 0 => Window > 0

\* The timeout after a measurement is no shorter than the round trip that it
\* showed, but for the rounding of the divisions, or it is the longest.
RtoCoversRtt == rto.rto + 3 >= rtt \/ rto.rto = KCP_RTO_MAX

\* Acknowledged segments always widen a window below the remote one: the
\* divisions that say by how many bytes never give 0 for a valid mtu.
GrowthNeverStalls ==
  [][inflight' < inflight /\ cwnd < rmt_wnd' => incr' > incr]_vars
=============================================================================
