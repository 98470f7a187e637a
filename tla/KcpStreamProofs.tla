---------------------------- MODULE KcpStreamProofs ----------------------------
(***************************************************************************)
(* Further proofs about the control blocks of Kcp, for every value of the  *)
(* constants.  In three parts: the order of snd_buf and rcv_buf; what the  *)
(* ACKs and una on the wire say is true, so that a segment is only let go  *)
(* when the receiver holds it; how the writes are cut, which with InOrder  *)
(* gives that the two control blocks implement ReliableStream.             *)
(***************************************************************************)
EXTENDS KcpProofs

\* t has the numbers of s, in the same places.
SameNumbers(s, t) == Len(t) = Len(s) /\ \A i \in 1..Len(s) : t[i].sn = s[i].sn

\* A sequence with the same numbers is in the same order,
LEMMA SameOrder ==
  ASSUME NEW s, NEW t, NEW lo, NEW hi, Ascending(s, lo, hi), SameNumbers(s, t)
  PROVE  Ascending(t, lo, hi)
  BY DEF Ascending, SameNumbers

\* The first number of s, or nxt when it is empty.
FirstNumber(s, nxt) == IF s = <<>> THEN nxt ELSE s[1].sn

\* and has the same first number.
LEMMA SameFirst ==
  ASSUME NEW S, NEW T, NEW s \in Seq(S), NEW t \in Seq(T), SameNumbers(s, t),
         NEW nxt
  PROVE  FirstNumber(t, nxt) = FirstNumber(s, nxt)
<1>1. s = <<>> <=> Len(s) = 0
  BY EmptySeq
<1>2. t = <<>> <=> Len(t) = 0
  BY EmptySeq
<1>3. Len(s) \in Nat
  BY LenProperties
<1> QED
  BY <1>1, <1>2, <1>3 DEF SameNumbers, FirstNumber

\* A piece of an ascending sequence is ascending, between the bounds that its
\* own numbers have.
LEMMA AscendingPiece ==
  ASSUME NEW S, NEW s \in Seq(S), NEW lo, NEW hi, Ascending(s, lo, hi),
         NEW i \in Nat \ {0}, NEW j \in Int, j <= Len(s),
         NEW low, NEW high, \A k \in i..j : low <= s[k].sn /\ s[k].sn < high
  PROVE  Ascending(SubSeq(s, i, j), low, high)
<1> DEFINE t == SubSeq(s, i, j)
<1>1. /\ Len(s) \in Nat
      /\ Len(t) = IF i <= j THEN j - i + 1 ELSE 0
      /\ \A k \in 1..(j - i + 1) : t[k] = s[i + k - 1]
  BY Piece, LenProperties
<1> HIDE DEF t
<1>2. ASSUME NEW k \in 1..Len(t)
      PROVE  /\ k \in 1..(j - i + 1)
             /\ i + k - 1 \in i..j /\ i + k - 1 \in 1..Len(s)
  BY <1>1
<1>3. \A k \in 1..Len(t) : low <= t[k].sn /\ t[k].sn < high
  BY <1>1, <1>2
<1>4. ASSUME NEW a \in 1..Len(t), NEW b \in 1..Len(t), a < b
      PROVE  t[a].sn < t[b].sn
  <2>1. i + a - 1 < i + b - 1
    BY <1>2, <1>4
  <2> QED
    BY <1>1, <1>2, <2>1 DEF Ascending
<1> QED
  BY <1>3, <1>4 DEF Ascending, t

\* Two ascending sequences that meet at mid.
LEMMA AscendingJoined ==
  ASSUME NEW S, NEW s \in Seq(S), NEW t \in Seq(S),
         \A x \in S : x.sn \in Int,
         NEW lo \in Int, NEW mid \in Int, NEW hi \in Int, lo <= mid, mid <= hi,
         Ascending(s, lo, mid), Ascending(t, mid, hi)
  PROVE  Ascending(s \o t, lo, hi)
<1> DEFINE u == s \o t
           a == Len(s)
           b == Len(t)
<1>1. /\ a \in Nat /\ b \in Nat
      /\ Len(u) = a + b
      /\ \A i \in 1..(a + b) : u[i] = IF i <= a THEN s[i] ELSE t[i - a]
  BY ConcatProperties, LenProperties
<1>2. \A i \in 1..a : s[i].sn \in Int /\ lo <= s[i].sn /\ s[i].sn < mid
  BY ElementOfSeq DEF Ascending
<1>3. \A i \in 1..b : t[i].sn \in Int /\ mid <= t[i].sn /\ t[i].sn < hi
  BY ElementOfSeq DEF Ascending
<1>4. /\ \A i, j \in 1..a : i < j => s[i].sn < s[j].sn
      /\ \A i, j \in 1..b : i < j => t[i].sn < t[j].sn
  BY DEF Ascending
<1> HIDE DEF u, a, b
<1>5. ASSUME NEW i \in 1..(a + b)
      PROVE  IF i <= a THEN i \in 1..a /\ u[i] = s[i]
                       ELSE i - a \in 1..b /\ u[i] = t[i - a]
  BY <1>1
<1>6. ASSUME NEW i \in 1..Len(u)
      PROVE  lo <= u[i].sn /\ u[i].sn < hi
  <2>1. CASE i <= a
    BY <1>1, <1>2, <1>5, <2>1
  <2>2. CASE ~(i <= a)
    <3>1. i - a \in 1..b /\ u[i] = t[i - a]
      BY <1>1, <1>5, <2>2
    <3>2. mid <= u[i].sn /\ u[i].sn < hi /\ u[i].sn \in Int
      BY <1>3, <3>1
    <3> QED
      BY <3>2
  <2> QED
    BY <2>1, <2>2
<1>7. ASSUME NEW i \in 1..Len(u), NEW j \in 1..Len(u), i < j
      PROVE  u[i].sn < u[j].sn
  <2>1. CASE j <= a
    BY <1>1, <1>4, <1>5, <1>7, <2>1
  <2>2. CASE i <= a /\ ~(j <= a)
    BY <1>1, <1>2, <1>3, <1>5, <2>2
  <2>3. CASE ~(i <= a)
    <3>1. i - a \in 1..b /\ j - a \in 1..b /\ i - a < j - a
      BY <1>1, <1>5, <1>7, <2>3
    <3>2. u[i] = t[i - a] /\ u[j] = t[j - a]
      BY <1>1, <1>5, <1>7, <2>3
    <3> QED
      BY <1>4, <3>1, <3>2
  <2> QED
    BY <1>1, <1>7, <2>1, <2>2, <2>3
<1> QED
  BY <1>6, <1>7 DEF Ascending, u

-----------------------------------------------------------------------------
(* The order of snd_buf.                                                   *)

\* Segments in flight have numbers.
LEMMA FlightNumbers ==
  ASSUME NEW e, NEW sb \in Seq(GenuineFlight(e))
  PROVE  /\ Len(sb) \in Nat
         /\ \A i \in 1..Len(sb) : sb[i].sn \in Nat
         /\ \A x \in GenuineFlight(e) : x.sn \in Int
  BY FlightTypes DEF GenuineFlight, Flight

\* shrink_buf finds the first number of an ordered buffer: snd_una does not go
\* back, and nothing in the buffer is below it.
LEMMA ShrinkOrdered ==
  ASSUME NEW e \in Endpoint, NEW sb \in Seq(GenuineFlight(e)),
         NEW lo \in Nat, snd_nxt[e] \in Nat, lo <= snd_nxt[e],
         Ascending(sb, lo, snd_nxt[e])
  PROVE  /\ Ascending(sb, shrink_buf(e, sb), snd_nxt[e])
         /\ lo <= shrink_buf(e, sb) /\ shrink_buf(e, sb) <= snd_nxt[e]
<1>1. CASE sb = <<>>
  BY <1>1, FlightNumbers DEF shrink_buf, Ascending
<1>2. CASE sb # <<>>
  <2>1. 1 \in 1..Len(sb)
    BY <1>2, EmptySeq, LenProperties
  <2>2. shrink_buf(e, sb) = sb[1].sn
    BY <1>2 DEF shrink_buf
  <2>3. \A i \in 1..Len(sb) : sb[1].sn <= sb[i].sn
    BY <2>1, FlightNumbers DEF Ascending
  <2> QED
    BY <2>1, <2>2, <2>3, FlightNumbers DEF Ascending
<1> QED
  BY <1>1, <1>2

\* parse_una leaves the order,
LEMMA UnaOrdered ==
  ASSUME NEW e, NEW sb \in Seq(GenuineFlight(e)), NEW lo, NEW hi,
         Ascending(sb, lo, hi), NEW k \in 0..Len(sb)
  PROVE  Ascending(SubSeq(sb, k + 1, Len(sb)), lo, hi)
<1>1. Len(sb) \in Nat
  BY FlightNumbers
<1>2. \A i \in (k + 1)..Len(sb) : lo <= sb[i].sn /\ sb[i].sn < hi
  BY <1>1 DEF Ascending
<1>3. k + 1 \in Nat \ {0} /\ Len(sb) \in Int /\ Len(sb) <= Len(sb)
  BY <1>1
<1> QED
  BY <1>2, <1>3, AscendingPiece

\* and so does parse_ack, which removes a segment from the middle.
LEMMA AckOrdered ==
  ASSUME NEW e, NEW sb \in Seq(GenuineFlight(e)),
         NEW lo \in Int, NEW hi \in Int,
         Ascending(sb, lo, hi), NEW sn
  PROVE  Ascending(parse_ack(e, sb, sn), lo, hi)
<1> DEFINE found == {i \in 1..Len(sb) : IsAt(sb, sn, i)}
<1>1. CASE InSendWindow(e, shrink_buf(e, sb), sn) /\ found # {}
  <2> DEFINE k == CHOOSE i \in found : TRUE
  <2>1. k \in 1..Len(sb)
    BY <1>1
  <2>2. parse_ack(e, sb, sn)
          = SubSeq(sb, 1, k - 1) \o SubSeq(sb, k + 1, Len(sb))
    BY <1>1 DEF parse_ack
  <2> HIDE DEF k
  <2> DEFINE mid == sb[k].sn
  <2>3. mid \in Int /\ lo <= mid /\ mid <= hi
    BY <2>1, FlightNumbers DEF Ascending
  <2>4. Ascending(SubSeq(sb, 1, k - 1), lo, mid)
    <3>1. 1 \in Nat \ {0} /\ k - 1 \in Int /\ k - 1 <= Len(sb)
      BY <2>1, FlightNumbers
    <3>2. \A i \in 1..(k - 1) : lo <= sb[i].sn /\ sb[i].sn < mid
      BY <2>1, FlightNumbers DEF Ascending
    <3> QED
      BY <3>1, <3>2, AscendingPiece
  <2>5. Ascending(SubSeq(sb, k + 1, Len(sb)), mid, hi)
    <3>1. k + 1 \in Nat \ {0} /\ Len(sb) \in Int /\ Len(sb) <= Len(sb)
      BY <2>1, FlightNumbers
    <3>2. \A i \in (k + 1)..Len(sb) : mid <= sb[i].sn /\ sb[i].sn < hi
      BY <2>1, FlightNumbers DEF Ascending
    <3> QED
      BY <3>1, <3>2, AscendingPiece
  <2>6. /\ SubSeq(sb, 1, k - 1) \in Seq(GenuineFlight(e))
        /\ SubSeq(sb, k + 1, Len(sb)) \in Seq(GenuineFlight(e))
    <3>1. k - 1 \in 0..Len(sb) /\ k \in 0..Len(sb)
      BY <2>1, FlightNumbers
    <3> QED
      BY <3>1, DropFront
  <2> HIDE DEF mid
  <2>7. \A x \in GenuineFlight(e) : x.sn \in Int
    BY FlightNumbers
  <2> QED
    BY <2>2, <2>3, <2>4, <2>5, <2>6, <2>7, AscendingJoined
<1>2. CASE ~(InSendWindow(e, shrink_buf(e, sb), sn) /\ found # {})
  <2>1. parse_ack(e, sb, sn) = sb
    BY <1>2 DEF parse_ack
  <2> QED
    BY <2>1
<1> QED
  BY <1>1, <1>2

\* parse_fastack changes no number,
LEMMA FastackNumbers ==
  ASSUME NEW e, NEW sb \in Seq(GenuineFlight(e)), NEW sn
  PROVE  SameNumbers(sb, parse_fastack(e, sb, sn))
<1>1. CASE InSendWindow(e, shrink_buf(e, sb), sn)
  <2> DEFINE New(i) == IF sb[i].sn # sn /\ \A j \in 1..i : sb[j].sn <= sn
                       THEN [sb[i] EXCEPT !.fastack = MinOf(@ + 1, FastResend)]
                       ELSE sb[i]
             new    == [i \in 1..Len(sb) |-> New(i)]
  <2>1. parse_fastack(e, sb, sn) = new
    BY <1>1 DEF parse_fastack
  <2>2. ASSUME NEW i \in 1..Len(sb)
        PROVE  New(i).sn = sb[i].sn
    <3>1. sb[i] \in Flight
      BY FlightTypes
    <3> QED
      BY <3>1 DEF Flight
  <2> HIDE DEF New
  <2>3. SameNumbers(sb, new)
    BY <2>2, FlightNumbers DEF SameNumbers
  <2> QED
    BY <2>1, <2>3
<1>2. CASE ~InSendWindow(e, shrink_buf(e, sb), sn)
  <2>1. parse_fastack(e, sb, sn) = sb
    BY <1>2 DEF parse_fastack
  <2> QED
    BY <2>1 DEF SameNumbers
<1> QED
  BY <1>1, <1>2

\* nor does a transmission.
LEMMA TransmittedNumbers ==
  ASSUME NEW sb \in Seq(Flight), NEW late, NEW places
  PROVE  /\ SameNumbers(sb, Transmitted(sb, late, places))
         /\ Transmitted(sb, late, places) \in Seq(Flight)
<1> DEFINE Count(i) == IF sb[i].xmit /\ i \notin late THEN 0 ELSE sb[i].fastack
           New(i) == IF i \notin places THEN sb[i]
                     ELSE [sb[i] EXCEPT !.xmit = TRUE, !.fastack = Count(i)]
           new    == [i \in 1..Len(sb) |-> New(i)]
<1>1. Transmitted(sb, late, places) = new
  BY DEF Transmitted
<1>2. ASSUME NEW i \in 1..Len(sb)
      PROVE  New(i).sn = sb[i].sn
  <2>1. sb[i] \in Flight
    BY ElementOfSeq
  <2> HIDE DEF Count
  <2> QED
    BY <2>1 DEF Flight
<1> HIDE DEF New
<1>3. SameNumbers(sb, new)
  BY <1>2, LenProperties DEF SameNumbers
<1> HIDE DEF new
<1>4. KeptBySending(Flight)
  BY DEF KeptBySending, Flight
<1> QED
  BY <1>1, <1>3, <1>4, TransmittedKeeps

\* snd_una is never above snd_nxt.
LEMMA UnaBelowNxt ==
  ASSUME SenderInv, SndBufOrdered, NEW e \in Endpoint
  PROVE  snd_una[e] \in Nat /\ snd_nxt[e] \in Nat /\ snd_una[e] <= snd_nxt[e]
<1>1. /\ snd_una[e] \in Nat /\ snd_nxt[e] \in Nat
      /\ snd_buf[e] \in Seq(GenuineFlight(e))
  BY DEF SenderInv
<1>2. CASE snd_buf[e] = <<>>
  BY <1>1, <1>2 DEF SndBufOrdered, shrink_buf
<1>3. CASE snd_buf[e] # <<>>
  <2>1. 1 \in 1..Len(snd_buf[e])
    BY <1>1, <1>3, EmptySeq, LenProperties
  <2> QED
    BY <1>1, <2>1, FlightNumbers DEF SndBufOrdered, Ascending
<1> QED
  BY <1>2, <1>3, <1>1

\* A sequence is empty when its length is 0.
LEMMA EmptyLength ==
  ASSUME NEW S, NEW s \in Seq(S)
  PROVE  s = <<>> <=> Len(s) = 0
  BY EmptySeq

\* What every segment does to the sender keeps snd_buf in order, and snd_una
\* does not go back.
LEMMA FinishOrdered ==
  ASSUME SenderInv, SndBufOrdered, NEW e \in Endpoint,
         NEW sb \in Seq(GenuineFlight(e)), NEW m,
         Ascending(sb, snd_una[e], snd_nxt[e]), FinishSegment(e, sb, m)
  PROVE  SndBufOrdered' /\ \A d \in Endpoint : snd_una'[d] >= snd_una[d]
<1> DEFINE new == IF Len(rx[e]) = 1 /\ m >= 0 THEN parse_fastack(e, sb, m)
                  ELSE sb
           una == shrink_buf(e, sb)
           nxt == snd_nxt[e]
<1>1. /\ snd_una' = [snd_una EXCEPT ![e] = una]
      /\ snd_buf' = [snd_buf EXCEPT ![e] = new]
      /\ snd_nxt' = snd_nxt
  BY DEF FinishSegment
<1>2. /\ snd_una[e] \in Nat /\ nxt \in Nat /\ snd_una[e] <= nxt
      /\ \A d \in Endpoint : snd_una[d] \in Nat
  BY UnaBelowNxt
<1>3. Ascending(sb, una, nxt) /\ snd_una[e] <= una
  BY <1>2, ShrinkOrdered
<1>4. /\ new \in Seq(GenuineFlight(e))
      /\ Ascending(new, una, nxt)
      /\ SameNumbers(sb, new)
  <2>1. new \in Seq(GenuineFlight(e)) /\ SameNumbers(sb, new)
    <3>1. SameNumbers(sb, sb)
      BY DEF SameNumbers
    <3> QED
      BY <3>1, ParseFastackKeeps, FastackNumbers
  <2> HIDE DEF una, new
  <2> QED
    BY <1>3, <2>1, SameOrder
<1>5. (IF new = <<>> THEN nxt ELSE new[1].sn) = una
  <2> HIDE DEF new
  <2>1. new \in Seq(GenuineFlight(e)) /\ SameNumbers(sb, new)
    BY <1>4
  <2> HIDE DEF nxt
  <2>2. FirstNumber(new, nxt) = FirstNumber(sb, nxt)
    BY <2>1, SameFirst
  <2> QED
    BY <2>2 DEF shrink_buf, nxt, FirstNumber
<1> HIDE DEF new, una
<1>6. /\ snd_una'[e] = una /\ snd_buf'[e] = new /\ snd_nxt'[e] = nxt
      /\ \A d \in Endpoint \ {e} :
           /\ snd_una'[d] = snd_una[d] /\ snd_buf'[d] = snd_buf[d]
           /\ snd_nxt'[d] = snd_nxt[d]
  BY <1>1 DEF SenderInv
<1>7. ASSUME NEW d \in Endpoint
      PROVE  /\ Ascending(snd_buf'[d], snd_una'[d], snd_nxt'[d])
             /\ snd_una'[d] =
                  IF snd_buf'[d] = <<>> THEN snd_nxt'[d] ELSE snd_buf'[d][1].sn
  <2>1. CASE d = e
    BY <1>4, <1>5, <1>6, <2>1
  <2>2. CASE d # e
    BY <1>6, <2>2 DEF SndBufOrdered, shrink_buf
  <2> QED
    BY <2>1, <2>2
<1>8. SndBufOrdered'
  BY <1>7 DEF SndBufOrdered, shrink_buf, Ascending
<1>9. ASSUME NEW d \in Endpoint
      PROVE  snd_una'[d] >= snd_una[d]
  BY <1>2, <1>3, <1>6
<1> QED
  BY <1>8, <1>9

\* A segment that carries no ACK does so,
LEMMA UnaStepOrdered ==
  ASSUME SenderInv, SndBufOrdered, NEW e \in Endpoint,
         \E k \in 0..Len(snd_buf[e]) :
           /\ Passed(snd_buf[e], Head(rx[e]).una, k)
           /\ FinishSegment(e, AfterUna(e, k), max_ack[e])
  PROVE  SndBufOrdered' /\ \A d \in Endpoint : snd_una'[d] >= snd_una[d]
<1>1. PICK k \in 0..Len(snd_buf[e]) :
        FinishSegment(e, AfterUna(e, k), max_ack[e])
  OBVIOUS
<1>2. AfterUna(e, k) \in Seq(GenuineFlight(e))
  BY AfterUnaKeeps
<1>3. Ascending(AfterUna(e, k), snd_una[e], snd_nxt[e])
  BY UnaOrdered DEF SndBufOrdered, SenderInv, AfterUna
<1> QED
  BY <1>1, <1>2, <1>3, FinishOrdered

\* and so does one that carries an ACK.
LEMMA AckStepOrdered ==
  ASSUME SenderInv, SndBufOrdered, NEW e \in Endpoint, InputAck(e)
  PROVE  SndBufOrdered' /\ \A d \in Endpoint : snd_una'[d] >= snd_una[d]
<1> DEFINE sn == Head(rx[e]).sn
<1>1. PICK k \in 0..Len(snd_buf[e]) :
        FinishSegment(e, parse_ack(e, AfterUna(e, k), sn),
                      MaxOf(max_ack[e], sn))
  BY DEF InputAck
<1>2. AfterUna(e, k) \in Seq(GenuineFlight(e))
  BY AfterUnaKeeps
<1>3. snd_una[e] \in Int /\ snd_nxt[e] \in Int
  BY DEF SenderInv
<1>4. Ascending(AfterUna(e, k), snd_una[e], snd_nxt[e])
  BY UnaOrdered DEF SndBufOrdered, SenderInv, AfterUna
<1> DEFINE sb == parse_ack(e, AfterUna(e, k), sn)
           m  == MaxOf(max_ack[e], sn)
<1>5. /\ sb \in Seq(GenuineFlight(e))
      /\ Ascending(sb, snd_una[e], snd_nxt[e])
  BY <1>2, <1>3, <1>4, ParseAckKeeps, AckOrdered
<1>6. FinishSegment(e, sb, m)
  BY <1>1
<1> HIDE DEF sb, m
<1> QED
  BY <1>5, <1>6, FinishOrdered

\* What a flush does to the sender: nothing, or it numbers the front of
\* snd_queue and transmits some of snd_buf.
NumbersFront(e, n, late, places) ==
  /\ snd_queue' = [snd_queue EXCEPT ![e] = SubSeq(@, n + 1, Len(@))]
  /\ snd_buf' = [snd_buf EXCEPT ![e] =
                   Transmitted(snd_buf[e] \o Numbered(e, n), late, places)]
  /\ snd_nxt' = [snd_nxt EXCEPT ![e] = @ + n]
  /\ log' = [log EXCEPT ![e] = @ \o SubSeq(snd_queue[e], 1, n)]

\* A flush leaves the receiver and the application alone, and the sender too
\* unless it came so far as to number segments.
LEMMA FlushSender ==
  ASSUME SenderInv, NEW e \in Endpoint, SomeFlush(e)
  PROVE  /\ UNCHANGED <<snd_una, rmt_wnd, rcv_buf, rcv_queue, rcv_nxt>>
         /\ UNCHANGED <<wrote, ends, out, rx, max_ack>>
         /\ \/ UNCHANGED <<snd_queue, snd_buf, snd_nxt, log>>
            \/ \E n \in 0..Len(snd_queue[e]) : \E late, places :
                 NumbersFront(e, n, late, places)
<1>1. PICK cwnd \in Cwnd, fired \in Fired(e), late \in SUBSET Sent(e) :
        Flush(e, cwnd, fired, late, TRUE)
  BY DEF SomeFlush
<1> DEFINE asked == Asked(e, fired)
           n     == Admitted(e, cwnd)
           sb    == snd_buf[e] \o Numbered(e, n)
           D     == DuePlaces(sb, late)
<1>2. cwnd \in Nat
  BY KcpAssumption DEF KcpAssumption
<1>3. n \in 0..Len(snd_queue[e])
  BY <1>2, AdmittedIsFront
<1>4. PICK due \in [1..Cardinality(D) -> D] : \E f :
        FlushUntil(e, asked, n, late, due, f)
  BY <1>1 DEF Flush
<1>5. PICK f : FlushUntil(e, asked, n, late, due, f)
  BY <1>4
<1> HIDE DEF n, D, asked
<1>6. /\ UNCHANGED <<snd_una, rmt_wnd, rcv_buf, rcv_queue, rcv_nxt>>
      /\ UNCHANGED <<wrote, ends, out, rx, max_ack>>
  BY <1>5 DEF FlushUntil, appVars, inVars
<1>7. \/ UNCHANGED <<snd_queue, snd_buf, snd_nxt, log>>
      \/ \E places : NumbersFront(e, n, late, places)
  BY <1>5 DEF FlushUntil, NumbersFront
<1> QED
  BY <1>3, <1>6, <1>7

\* A flush appends what it numbers, and snd_una stays.
LEMMA FlushOrdered ==
  ASSUME SenderInv, SndBufOrdered, NEW e \in Endpoint, SomeFlush(e)
  PROVE  SndBufOrdered' /\ \A d \in Endpoint : snd_una'[d] >= snd_una[d]
<1>1. snd_una' = snd_una
  BY FlushSender
<1>2. \A d \in Endpoint : snd_una'[d] >= snd_una[d]
  BY <1>1 DEF SenderInv
<1>3. CASE UNCHANGED <<snd_queue, snd_buf, snd_nxt, log>>
  BY <1>1, <1>2, <1>3 DEF SndBufOrdered, shrink_buf
<1>4. ASSUME NEW n \in 0..Len(snd_queue[e]), NEW late, NEW places,
             NumbersFront(e, n, late, places)
      PROVE  SndBufOrdered'
  <2> DEFINE old == snd_buf[e]
             more == Numbered(e, n)
             sb  == old \o more
             new == Transmitted(sb, late, places)
             una == snd_una[e]
             nxt == snd_nxt[e]
  <2>1. /\ una \in Nat /\ nxt \in Nat /\ una <= nxt /\ n \in Nat
        /\ old \in Seq(Flight) /\ more \in Seq(Flight) /\ sb \in Seq(Flight)
        /\ Len(more) = n /\ Len(old) \in Nat
    BY UnaBelowNxt, NumberedTypes, LenProperties DEF SenderInv
  <2>2. /\ Ascending(old, una, nxt)
        /\ una = IF old = <<>> THEN nxt ELSE old[1].sn
    BY DEF SndBufOrdered, shrink_buf
  <2>3. \A i \in 1..n : more[i].sn = nxt + i - 1
    BY DEF Numbered
  <2>4. Ascending(more, nxt, nxt + n)
    <3> HIDE DEF more, nxt
    <3> QED
      BY <2>1, <2>3 DEF Ascending
  <2>5. Ascending(sb, una, nxt + n)
    <3>1. \A x \in Flight : x.sn \in Int
      BY DEF Flight
    <3> HIDE DEF old, more, una, nxt
    <3> QED
      BY <2>1, <2>2, <2>4, <3>1, AscendingJoined
  <2>6. /\ Ascending(new, una, nxt + n) /\ SameNumbers(sb, new)
        /\ new \in Seq(Flight) /\ Len(sb) \in Nat
    <3>1. sb \in Seq(Flight) /\ Len(sb) \in Nat
      BY <2>1, LenProperties
    <3> DEFINE hi == nxt + n
    <3>2. Ascending(sb, una, hi)
      BY <2>5
    <3> HIDE DEF sb, una, hi
    <3>3. SameNumbers(sb, new) /\ new \in Seq(Flight)
      BY <3>1, TransmittedNumbers
    <3> HIDE DEF new
    <3>4. Ascending(new, una, hi)
      BY <3>2, <3>3, SameOrder
    <3> QED
      BY <3>1, <3>3, <3>4 DEF hi
  <2>7. (IF sb = <<>> THEN nxt + n ELSE sb[1].sn) = una
    <3> HIDE DEF old, more, una, nxt
    <3>1. /\ Len(sb) = Len(old) + n
          /\ \A i \in 1..(Len(old) + n) : sb[i] =
               IF i <= Len(old) THEN old[i] ELSE more[i - Len(old)]
          /\ (old = <<>> <=> Len(old) = 0) /\ (sb = <<>> <=> Len(sb) = 0)
      BY <2>1, ConcatProperties, EmptyLength
    <3> HIDE DEF sb
    <3>2. CASE old = <<>>
      <4>1. Len(old) = 0 /\ Len(sb) = n /\ una = nxt
        BY <2>1, <2>2, <3>1, <3>2
      <4>2. CASE n = 0
        BY <2>1, <2>6, <4>1, <4>2
      <4>3. CASE n # 0
        <5>1. 1 \in 1..n /\ ~(1 <= Len(old)) /\ 1 - Len(old) = 1
          BY <2>1, <4>1, <4>3
        <5>2. sb # <<>> /\ sb[1] = more[1]
          BY <2>1, <2>6, <3>1, <4>1, <4>3, <5>1
        <5> QED
          BY <2>1, <2>3, <4>1, <5>1, <5>2
      <4> QED
        BY <4>2, <4>3
    <3>3. CASE old # <<>>
      <4>1. 1 \in 1..(Len(old) + n) /\ 1 <= Len(old) /\ Len(sb) # 0
        BY <2>1, <3>1, <3>3
      <4>2. sb # <<>> /\ sb[1] = old[1]
        BY <2>6, <3>1, <4>1
      <4> QED
        BY <2>2, <3>3, <4>2
    <3> QED
      BY <3>2, <3>3
  <2>8. (IF new = <<>> THEN nxt + n ELSE new[1].sn) = una
    <3> DEFINE hi == nxt + n
    <3>1. sb \in Seq(Flight) /\ new \in Seq(Flight) /\ SameNumbers(sb, new)
      BY <2>1, <2>6
    <3> HIDE DEF new, sb, una, hi
    <3>2. FirstNumber(new, hi) = FirstNumber(sb, hi)
      BY <3>1, SameFirst
    <3> QED
      BY <2>7, <3>2 DEF hi, FirstNumber
  <2> HIDE DEF new
  <2>9. /\ snd_buf'[e] = new /\ snd_nxt'[e] = nxt + n /\ snd_una'[e] = una
        /\ \A d \in Endpoint \ {e} :
             /\ snd_una'[d] = snd_una[d] /\ snd_buf'[d] = snd_buf[d]
             /\ snd_nxt'[d] = snd_nxt[d]
    BY <1>1, <1>4 DEF NumbersFront, SenderInv, new
  <2> HIDE DEF una, nxt
  <2>10. ASSUME NEW d \in Endpoint
         PROVE  /\ Ascending(snd_buf'[d], snd_una'[d], snd_nxt'[d])
                /\ snd_una'[d] = IF snd_buf'[d] = <<>> THEN snd_nxt'[d]
                                 ELSE snd_buf'[d][1].sn
    <3>1. CASE d = e
      BY <2>6, <2>8, <2>9, <3>1
    <3>2. CASE d # e
      BY <2>9, <3>2 DEF SndBufOrdered, shrink_buf
    <3> QED
      BY <3>1, <3>2
  <2> QED
    BY <2>10 DEF SndBufOrdered, shrink_buf, Ascending
<1> QED
  BY <1>2, <1>3, <1>4, FlushSender

-----------------------------------------------------------------------------
(* The order of rcv_buf.                                                   *)

\* Segments that arrived have numbers.
LEMMA ArrivedNumbers ==
  ASSUME NEW b \in Seq(Arrived)
  PROVE  /\ Len(b) \in Nat
         /\ \A i \in 1..Len(b) : b[i] \in Arrived /\ b[i].sn \in Nat
         /\ \A x \in Arrived : x.sn \in Int
<1>1. \A x \in Arrived : x.sn \in Nat
  BY DEF Arrived
<1>2. \A i \in 1..Len(b) : b[i] \in Arrived
  BY ElementOfSeq
<1> QED
  BY <1>1, <1>2, LenProperties

\* parse_data keeps the order, and drops what it has already.
LEMMA InsertOrdered ==
  ASSUME NEW b \in Seq(Arrived), NEW seg \in Arrived,
         NEW lo \in Int, NEW hi \in Int, Ascending(b, lo, hi),
         lo <= seg.sn, seg.sn < hi, NEW p \in 0..Len(b), Place(b, seg.sn, p)
  PROVE  Ascending(Insert(b, seg, p), lo, hi)
<1>1. Len(b) \in Nat /\ p \in Nat /\ seg.sn \in Int /\ p <= Len(b)
  BY ArrivedNumbers DEF Arrived
<1>2. CASE p > 0 /\ b[p].sn = seg.sn
  BY <1>2 DEF Insert
<1>3. CASE ~(p > 0 /\ b[p].sn = seg.sn)
  <2> DEFINE front == SubSeq(b, 1, p)
             one   == <<seg>>
             rest  == SubSeq(b, p + 1, Len(b))
             sn    == seg.sn
  <2>1. Ascending(front, lo, sn)
    <3>1. p > 0 => b[p].sn \in Nat /\ b[p].sn < sn
      BY <1>1, <1>3, ArrivedNumbers DEF Place
    <3>2. ASSUME NEW i \in 1..p
          PROVE  lo <= b[i].sn /\ b[i].sn < sn
      <4>1. i \in 1..Len(b) /\ p \in 1..Len(b) /\ b[i].sn \in Nat
        BY <1>1, ArrivedNumbers
      <4>2. i < p => b[i].sn < b[p].sn
        BY <4>1 DEF Ascending
      <4>3. i = p \/ i < p
        BY <1>1
      <4> QED
        BY <1>1, <3>1, <4>1, <4>2, <4>3 DEF Ascending
    <3>3. 1 \in Nat \ {0} /\ p \in Int
      BY <1>1
    <3> HIDE DEF sn
    <3> QED
      BY <1>1, <3>2, <3>3, AscendingPiece
  <2>2. Ascending(one, sn, sn + 1)
    BY <1>1 DEF Ascending
  <2>3. Ascending(rest, sn + 1, hi)
    <3>1. ASSUME NEW i \in (p + 1)..Len(b)
          PROVE  sn + 1 <= b[i].sn /\ b[i].sn < hi
      <4>1. i \in 1..Len(b) /\ b[i].sn \in Nat /\ b[i].sn > sn
        BY <1>1, ArrivedNumbers DEF Place
      <4> QED
        BY <1>1, <4>1 DEF Ascending
    <3>2. p + 1 \in Nat \ {0} /\ Len(b) \in Int /\ Len(b) <= Len(b)
      BY <1>1
    <3> DEFINE low == sn + 1
    <3>3. \A i \in (p + 1)..Len(b) : low <= b[i].sn /\ b[i].sn < hi
      BY <3>1
    <3> HIDE DEF low
    <3>4. Ascending(rest, low, hi)
      BY <3>2, <3>3, AscendingPiece
    <3> QED
      BY <3>4 DEF low
  <2>4. front \in Seq(Arrived) /\ one \in Seq(Arrived) /\ rest \in Seq(Arrived)
    BY DropFront
  <2>5. \A x \in Arrived : x.sn \in Int
    BY ArrivedNumbers
  <2> HIDE DEF front, one, rest
  <2> DEFINE mid == sn + 1
  <2>6. /\ Ascending(one, sn, mid) /\ Ascending(rest, mid, hi)
        /\ sn \in Int /\ mid \in Int /\ sn <= mid /\ lo <= sn /\ mid <= hi
        /\ lo <= mid
    BY <1>1, <2>2, <2>3
  <2> HIDE DEF sn, mid
  <2>7. front \o one \in Seq(Arrived)
    BY <2>4, ConcatProperties
  <2>8. Ascending(front \o one, lo, mid)
    BY <2>1, <2>4, <2>5, <2>6, AscendingJoined
  <2>9. Ascending((front \o one) \o rest, lo, hi)
    BY <2>4, <2>5, <2>6, <2>7, <2>8, AscendingJoined
  <2> QED
    BY <1>3, <2>9 DEF Insert, front, one, rest
<1> QED
  BY <1>2, <1>3

\* What Movable leaves is behind a gap or finds the queue full.
Stuck(b, nxt, used) == b # <<>> /\ b[1].sn = nxt => used >= rcv_wnd

\* Moving the front of rcv_buf keeps the rest in order, and strands nothing.
LEMMA MovedOrdered ==
  ASSUME NEW b \in Seq(Arrived), NEW nxt \in Nat, NEW hi \in Int,
         Ascending(b, nxt, hi), NEW used \in Nat, NEW m \in 0..Len(b),
         Movable(b, nxt, used, m)
  PROVE  /\ Ascending(SubSeq(b, m + 1, Len(b)), nxt + m, hi + m)
         /\ Stuck(SubSeq(b, m + 1, Len(b)), nxt + m, used + m)
<1> DEFINE rest == SubSeq(b, m + 1, Len(b))
           low  == nxt + m
           high == hi + m
<1>1. Len(b) \in Nat /\ m \in Nat /\ m <= Len(b)
  BY ArrivedNumbers
<1>2. m + 1 \in Nat \ {0} /\ Len(b) \in Int /\ Len(b) <= Len(b)
  BY <1>1
<1>3. ASSUME NEW i \in (m + 1)..Len(b)
      PROVE  low <= b[i].sn /\ b[i].sn < high
  <2>1. i \in 1..Len(b) /\ b[i].sn \in Nat /\ nxt <= b[i].sn /\ b[i].sn < hi
    BY <1>1, ArrivedNumbers DEF Ascending
  <2>2. CASE m = 0
    BY <2>1, <2>2
  <2>3. CASE m # 0
    <3>1. m \in 1..m /\ m \in 1..Len(b) /\ m < i
      BY <1>1, <2>3
    <3>2. b[m].sn = nxt + m - 1 /\ b[m].sn < b[i].sn
      BY <2>1, <3>1 DEF Movable, Ascending
    <3> QED
      BY <1>1, <2>1, <3>2
  <2> QED
    BY <2>2, <2>3
<1>4. Ascending(rest, low, high)
  <2>1. \A i \in (m + 1)..Len(b) : low <= b[i].sn /\ b[i].sn < high
    BY <1>3
  <2> HIDE DEF low, high
  <2> QED
    BY <1>2, <2>1, AscendingPiece
<1>5. Stuck(rest, low, used + m)
  <2>1. SUFFICES ASSUME rest # <<>>, rest[1].sn = low
                 PROVE  used + m >= rcv_wnd
    BY DEF Stuck
  <2>2. /\ rest \in Seq(Arrived)
        /\ Len(rest) = IF m + 1 <= Len(b) THEN Len(b) - (m + 1) + 1 ELSE 0
        /\ \A i \in 1..(Len(b) - (m + 1) + 1) : rest[i] = b[m + 1 + i - 1]
    BY <1>2, Piece
  <2>3. Len(rest) # 0
    BY <2>1, <2>2, EmptyLength
  <2> HIDE DEF rest
  <2>4. m < Len(b) /\ 1 \in 1..(Len(b) - (m + 1) + 1)
    BY <1>1, <2>2, <2>3
  <2>5. rest[1] = b[m + 1]
    BY <1>1, <2>2, <2>4
  <2> QED
    BY <2>1, <2>4, <2>5 DEF Movable
<1> QED
  BY <1>4, <1>5

\* The receive buffers are in order, and nothing is stranded in them.
ReceiverOrdered == RcvBufOrdered /\ NothingStranded

\* recv and input() move the front of an ordered buffer b behind the queue q.
LEMMA MoveOrdered ==
  ASSUME ReceiverInv, ReceiverOrdered, NEW e \in Endpoint,
         NEW b \in Seq(Arrived), NEW q \in Seq(Arrived), NEW m \in 0..Len(b),
         Ascending(b, rcv_nxt[e], rcv_nxt[e] + rcv_wnd),
         Movable(b, rcv_nxt[e], Len(q), m),
         rcv_buf'   = [rcv_buf EXCEPT ![e] = SubSeq(b, m + 1, Len(b))],
         rcv_queue' = [rcv_queue EXCEPT ![e] = q \o SubSeq(b, 1, m)],
         rcv_nxt'   = [rcv_nxt EXCEPT ![e] = @ + m]
  PROVE  ReceiverOrdered'
<1> DEFINE rest  == SubSeq(b, m + 1, Len(b))
           moved == SubSeq(b, 1, m)
           nxt   == rcv_nxt[e]
           hi    == nxt + rcv_wnd
<1>1. /\ nxt \in Nat /\ rcv_wnd \in Nat /\ hi \in Int
      /\ Len(q) \in Nat /\ Len(b) \in Nat /\ m \in Nat /\ m <= Len(b)
  BY ConstantTypes, ArrivedNumbers DEF ReceiverInv
<1>2. Ascending(rest, nxt + m, hi + m) /\ Stuck(rest, nxt + m, Len(q) + m)
  <2> HIDE DEF rest
  <2>1. Ascending(b, nxt, hi) /\ Movable(b, nxt, Len(q), m)
    OBVIOUS
  <2> HIDE DEF nxt, hi
  <2> QED
    BY <1>1, <2>1, MovedOrdered DEF rest
<1>3. Len(q \o moved) = Len(q) + m
  <2>1. 1 \in Nat \ {0} /\ m \in Int
    BY <1>1
  <2>2. moved \in Seq(Arrived) /\ Len(moved) = m
    BY <1>1, <2>1, Piece
  <2> HIDE DEF moved
  <2> QED
    BY <2>2, ConcatProperties
<1>4. (nxt + m) + rcv_wnd = hi + m
  BY <1>1
<1> HIDE DEF rest, moved
<1>5. /\ rcv_buf'[e] = rest /\ rcv_nxt'[e] = nxt + m
      /\ rcv_queue'[e] = q \o moved
      /\ \A d \in Endpoint \ {e} :
           /\ rcv_buf'[d] = rcv_buf[d] /\ rcv_nxt'[d] = rcv_nxt[d]
           /\ rcv_queue'[d] = rcv_queue[d]
  BY DEF ReceiverInv, rest, moved
<1> HIDE DEF nxt, hi
<1>6. ASSUME NEW d \in Endpoint
      PROVE  Ascending(rcv_buf'[d], rcv_nxt'[d], rcv_nxt'[d] + rcv_wnd)
  <2>1. CASE d = e
    BY <1>2, <1>4, <1>5, <2>1
  <2>2. CASE d # e
    BY <1>5, <2>2 DEF ReceiverOrdered, RcvBufOrdered
  <2> QED
    BY <2>1, <2>2
<1>7. ASSUME NEW d \in Endpoint
      PROVE  Stuck(rcv_buf'[d], rcv_nxt'[d], Len(rcv_queue'[d]))
  <2>1. CASE d = e
    BY <1>2, <1>3, <1>5, <2>1
  <2>2. CASE d # e
    BY <1>5, <2>2 DEF ReceiverOrdered, NothingStranded, Stuck
  <2> QED
    BY <2>1, <2>2
<1>8. RcvBufOrdered'
  BY <1>6 DEF RcvBufOrdered, Ascending
<1>9. NothingStranded'
  BY <1>7 DEF NothingStranded, Stuck
<1> QED
  BY <1>8, <1>9 DEF ReceiverOrdered

\* What recv does to the receiver.
LEMMA RecvEffect ==
  ASSUME ReceiverInv, SenderInv, NEW e \in Endpoint, Recv(e)
  PROVE  \E n \in 1..Len(rcv_queue[e]) : \E m \in 0..Len(rcv_buf[e]) :
           LET q    == rcv_queue[e]
               b    == rcv_buf[e]
               left == SubSeq(q, n + 1, Len(q))
           IN /\ Ready(e) /\ Merged(q, n)
              /\ left \in Seq(Arrived)
              /\ Movable(b, rcv_nxt[e], Len(left), m)
              /\ rcv_queue' = [rcv_queue EXCEPT ![e] = left \o SubSeq(b, 1, m)]
              /\ rcv_buf'   = [rcv_buf EXCEPT ![e] = SubSeq(b, m + 1, Len(b))]
              /\ rcv_nxt'   = [rcv_nxt EXCEPT ![e] = @ + m]
              /\ out'       = [out EXCEPT ![e] = @ \o SubSeq(q, 1, n)]
<1> DEFINE q == rcv_queue[e]
           b == rcv_buf[e]
<1>1. q \in Seq(Arrived) /\ Len(q) \in Nat
  BY LenProperties DEF ReceiverInv
<1>2. PICK n \in 1..Len(q) : \E m \in 0..Len(b) :
        /\ Merged(q, n)
        /\ Movable(b, rcv_nxt[e], Len(SubSeq(q, n + 1, Len(q))), m)
        /\ rcv_queue' = [rcv_queue EXCEPT ![e] =
                           SubSeq(q, n + 1, Len(q)) \o SubSeq(b, 1, m)]
        /\ rcv_buf'   = [rcv_buf EXCEPT ![e] = SubSeq(b, m + 1, Len(b))]
        /\ rcv_nxt'   = [rcv_nxt EXCEPT ![e] = @ + m]
        /\ out'       = [out EXCEPT ![e] = @ \o SubSeq(q, 1, n)]
  BY DEF Recv
<1>3. SubSeq(q, n + 1, Len(q)) \in Seq(Arrived)
  <2>1. n \in 0..Len(q)
    BY <1>1
  <2> HIDE DEF q
  <2> QED
    BY <1>1, <2>1, DropFront
<1>4. Ready(e)
  BY DEF Recv
<1> QED
  BY <1>2, <1>3, <1>4

\* What is stored and moved by input().
LEMMA StoredEffect ==
  ASSUME ReceiverInv, WireInv, NEW e \in Endpoint, InputPushStored(e)
  PROVE  LET s   == Head(rx[e])
             seg == [sn |-> s.sn, c |-> s.c]
         IN /\ s.sn \in Nat /\ seg \in Arrived
            /\ rcv_nxt[e] <= s.sn /\ s.sn < rcv_nxt[e] + rcv_wnd
            /\ acklist' = [acklist EXCEPT ![e] = Append(@, s.sn)]
            /\ \E p \in 0..Len(rcv_buf[e]) :
                 LET b == Insert(rcv_buf[e], seg, p)
                 IN /\ Place(rcv_buf[e], s.sn, p)
                    /\ b \in Seq(Arrived)
                    /\ \E m \in 0..Len(b) :
                         /\ Movable(b, rcv_nxt[e], Len(rcv_queue[e]), m)
                         /\ rcv_queue' = [rcv_queue EXCEPT ![e] =
                                            rcv_queue[e] \o SubSeq(b, 1, m)]
                         /\ rcv_buf' = [rcv_buf EXCEPT ![e] =
                                          SubSeq(b, m + 1, Len(b))]
                         /\ rcv_nxt' = [rcv_nxt EXCEPT ![e] = @ + m]
<1> DEFINE s   == Head(rx[e])
           seg == [sn |-> s.sn, c |-> s.c]
<1>1. Busy(e) /\ rcv_nxt[e] <= s.sn /\ s.sn < rcv_nxt[e] + rcv_wnd
      /\ acklist' = [acklist EXCEPT ![e] = Append(@, s.sn)]
  BY HeadTypes DEF InputPushStored, ReceiverInv
<1>2. s.sn \in Nat /\ s.c \in Data
  BY <1>1, HeadTypes
<1>3. seg \in Arrived
  BY <1>2 DEF Arrived
<1>4. PICK p \in 0..Len(rcv_buf[e]) :
        /\ Place(rcv_buf[e], s.sn, p)
        /\ \E m \in 0..Len(Insert(rcv_buf[e], seg, p)) :
             LET b == Insert(rcv_buf[e], seg, p)
             IN /\ Movable(b, rcv_nxt[e], Len(rcv_queue[e]), m)
                /\ rcv_queue' = [rcv_queue EXCEPT ![e] = @ \o SubSeq(b, 1, m)]
                /\ rcv_buf' = [rcv_buf EXCEPT ![e] = SubSeq(b, m + 1, Len(b))]
                /\ rcv_nxt' = [rcv_nxt EXCEPT ![e] = @ + m]
  BY DEF InputPushStored
<1>5. Insert(rcv_buf[e], seg, p) \in Seq(Arrived)
  <2>1. rcv_buf[e] \in Seq(Arrived)
    BY DEF ReceiverInv
  <2> HIDE DEF seg
  <2> QED
    BY <1>3, <2>1, InsertKeeps
<1> HIDE DEF s, seg
<1> DEFINE b == Insert(rcv_buf[e], seg, p)
<1>6. PICK m \in 0..Len(b) :
        /\ Movable(b, rcv_nxt[e], Len(rcv_queue[e]), m)
        /\ rcv_queue' = [rcv_queue EXCEPT ![e] =
                           rcv_queue[e] \o SubSeq(b, 1, m)]
        /\ rcv_buf' = [rcv_buf EXCEPT ![e] = SubSeq(b, m + 1, Len(b))]
        /\ rcv_nxt' = [rcv_nxt EXCEPT ![e] = @ + m]
  BY <1>4 DEF ReceiverInv
<1> QED
  BY <1>1, <1>2, <1>3, <1>4, <1>5, <1>6 DEF s, seg

\* recv keeps the order of the receiver,
LEMMA RecvOrdered ==
  ASSUME ReceiverInv, SenderInv, ReceiverOrdered, NEW e \in Endpoint, Recv(e)
  PROVE  ReceiverOrdered'
<1> DEFINE b == rcv_buf[e]
           q == rcv_queue[e]
<1>1. PICK n \in 1..Len(q), m \in 0..Len(b) :
        /\ SubSeq(q, n + 1, Len(q)) \in Seq(Arrived)
        /\ Movable(b, rcv_nxt[e], Len(SubSeq(q, n + 1, Len(q))), m)
        /\ rcv_queue' = [rcv_queue EXCEPT ![e] =
                           SubSeq(q, n + 1, Len(q)) \o SubSeq(b, 1, m)]
        /\ rcv_buf'   = [rcv_buf EXCEPT ![e] = SubSeq(b, m + 1, Len(b))]
        /\ rcv_nxt'   = [rcv_nxt EXCEPT ![e] = @ + m]
  BY RecvEffect
<1>2. b \in Seq(Arrived) /\ Ascending(b, rcv_nxt[e], rcv_nxt[e] + rcv_wnd)
  BY DEF ReceiverInv, ReceiverOrdered, RcvBufOrdered
<1> DEFINE left == SubSeq(q, n + 1, Len(q))
<1> HIDE DEF b, left
<1> QED
  BY <1>1, <1>2, MoveOrdered DEF left

\* and so does input() when it stores data.
LEMMA StoredOrdered ==
  ASSUME ReceiverInv, WireInv, ReceiverOrdered, NEW e \in Endpoint,
         InputPushStored(e)
  PROVE  ReceiverOrdered'
<1> DEFINE s   == Head(rx[e])
           seg == [sn |-> s.sn, c |-> s.c]
<1>1. /\ s.sn \in Nat /\ seg \in Arrived
      /\ rcv_nxt[e] <= s.sn /\ s.sn < rcv_nxt[e] + rcv_wnd
  BY StoredEffect
<1>2. PICK p \in 0..Len(rcv_buf[e]) :
        LET b == Insert(rcv_buf[e], seg, p)
        IN /\ Place(rcv_buf[e], s.sn, p)
           /\ b \in Seq(Arrived)
           /\ \E m \in 0..Len(b) :
                /\ Movable(b, rcv_nxt[e], Len(rcv_queue[e]), m)
                /\ rcv_queue' = [rcv_queue EXCEPT ![e] =
                                   rcv_queue[e] \o SubSeq(b, 1, m)]
                /\ rcv_buf' = [rcv_buf EXCEPT ![e] = SubSeq(b, m + 1, Len(b))]
                /\ rcv_nxt' = [rcv_nxt EXCEPT ![e] = @ + m]
  BY StoredEffect
<1> DEFINE old == rcv_buf[e]
           b   == Insert(old, seg, p)
           nxt == rcv_nxt[e]
           hi  == nxt + rcv_wnd
<1>3. /\ old \in Seq(Arrived) /\ Ascending(old, nxt, hi)
      /\ nxt \in Int /\ hi \in Int /\ rcv_queue[e] \in Seq(Arrived)
  BY ConstantTypes DEF ReceiverInv, ReceiverOrdered, RcvBufOrdered
<1>4. seg.sn = s.sn
  OBVIOUS
<1>5. Ascending(b, nxt, hi)
  <2>1. Place(old, seg.sn, p) /\ nxt <= seg.sn /\ seg.sn < hi
    BY <1>1, <1>2, <1>4
  <2> HIDE DEF seg, old, nxt, hi
  <2> QED
    BY <1>1, <1>3, <2>1, InsertOrdered DEF old
<1> HIDE DEF b
<1>6. PICK m \in 0..Len(b) :
        /\ b \in Seq(Arrived)
        /\ Movable(b, rcv_nxt[e], Len(rcv_queue[e]), m)
        /\ rcv_queue' = [rcv_queue EXCEPT ![e] =
                           rcv_queue[e] \o SubSeq(b, 1, m)]
        /\ rcv_buf' = [rcv_buf EXCEPT ![e] = SubSeq(b, m + 1, Len(b))]
        /\ rcv_nxt' = [rcv_nxt EXCEPT ![e] = @ + m]
  BY <1>2 DEF b
<1> QED
  BY <1>3, <1>5, <1>6, MoveOrdered DEF nxt, hi

-----------------------------------------------------------------------------
(* A segment is released only when it is held.                             *)

\* A segment with number sn is in s.
Has(s, sn) == \E i \in 1..Len(s) : s[i].sn = sn

\* The same numbers are in the same sequences,
LEMMA HasSame ==
  ASSUME NEW s, NEW t, SameNumbers(s, t), NEW sn, Has(s, sn)
  PROVE  Has(t, sn)
  BY DEF SameNumbers, Has

\* and what is in a sequence is in one of two that it is cut into.
LEMMA HasJoined ==
  ASSUME NEW S, NEW s \in Seq(S), NEW t \in Seq(S), NEW sn
  PROVE  Has(s \o t, sn) <=> Has(s, sn) \/ Has(t, sn)
<1> DEFINE a == Len(s)
           b == Len(t)
           u == s \o t
<1>1. /\ a \in Nat /\ b \in Nat /\ Len(u) = a + b
      /\ \A i \in 1..(a + b) : u[i] = IF i <= a THEN s[i] ELSE t[i - a]
  BY ConcatProperties, LenProperties
<1> HIDE DEF u
<1>2. ASSUME NEW i \in 1..(a + b), u[i].sn = sn
      PROVE  Has(s, sn) \/ Has(t, sn)
  <2>1. CASE i <= a
    BY <1>1, <1>2, <2>1 DEF Has
  <2>2. CASE ~(i <= a)
    <3>1. i - a \in 1..b /\ u[i] = t[i - a]
      BY <1>1, <2>2
    <3> QED
      BY <1>2, <3>1 DEF Has
  <2> QED
    BY <2>1, <2>2
<1>3. ASSUME NEW i \in 1..a, s[i].sn = sn
      PROVE  Has(u, sn)
  <2>1. i \in 1..(a + b) /\ u[i] = s[i]
    BY <1>1
  <2> QED
    BY <1>1, <1>3, <2>1 DEF Has
<1>4. ASSUME NEW i \in 1..b, t[i].sn = sn
      PROVE  Has(u, sn)
  <2>1. a + i \in 1..(a + b) /\ u[a + i] = t[i]
    <3>1. a + i \in 1..(a + b) /\ ~(a + i <= a) /\ (a + i) - a = i
      BY <1>1
    <3> QED
      BY <1>1, <3>1
  <2> QED
    BY <1>1, <1>4, <2>1 DEF Has
<1> QED
  BY <1>1, <1>2, <1>3, <1>4 DEF Has, u

\* The data segment that a flush of e makes of g.
DataSegment(e, g) ==
  [cmd |-> "PUSH", sn |-> g.sn, c |-> g.c, wnd |-> wnd_unused(e),
   una |-> rcv_nxt[e]]

\* What a flush puts on the wire is in T when everything that it can encode is.
LEMMA FlushWire ==
  ASSUME SenderInv, ReceiverInv, WireInv, NEW e \in Endpoint, SomeFlush(e),
         NEW T, buf[e] \in Seq(T), AckSegments(e) \in Seq(T),
         Header(e, "WASK", 0) \in T, Header(e, "WINS", 0) \in T,
         \A g \in Flight : DataSegment(e, g) \in T
  PROVE  /\ \E left \in Seq(T) : buf' = [buf EXCEPT ![e] = left]
         /\ \E after : /\ after \subseteq net[Other(e)] \cup Seq(T)
                       /\ net' = [net EXCEPT ![Other(e)] = after]
         /\ acklist' \in {acklist, [acklist EXCEPT ![e] = <<>>]}
<1>1. PICK cwnd \in Cwnd, fired \in Fired(e), late \in SUBSET Sent(e) :
        Flush(e, cwnd, fired, late, TRUE)
  BY DEF SomeFlush
<1> DEFINE asked == Asked(e, fired)
           n     == Admitted(e, cwnd)
           sb    == snd_buf[e] \o Numbered(e, n)
           D     == DuePlaces(sb, late)
           k     == Cardinality(D)
<1>2. cwnd \in Nat
  BY KcpAssumption DEF KcpAssumption
<1>3. n \in 0..Len(snd_queue[e]) /\ sb \in Seq(Flight)
  BY <1>2, AdmittedIsFront, NumberedTypes
<1>4. PICK due \in [1..k -> D] :
        \E f \in Failing(Len(Datagrams(Encoded(e, asked, sb, due))), TRUE) :
          FlushUntil(e, asked, n, late, due, f)
  BY <1>1 DEF Flush
<1> DEFINE all   == Encoded(e, asked, sb, due)
           grams == Datagrams(all)
<1>5. PICK f \in Failing(Len(grams), TRUE) :
        FlushUntil(e, asked, n, late, due, f)
  BY <1>4
<1> DEFINE sent == {grams[j] : j \in 1..(f - 1)}
<1>6. k \in Nat /\ due \in [1..k -> 1..Len(sb)]
  <2> HIDE DEF sb
  <2> QED
    BY <1>3, DueAreFew
<1>7. DataSegments(e, sb, due) \in Seq(T)
  <2>1. Len(due) = k
    BY <1>6, FunctionIsSeq
  <2>2. ASSUME NEW p \in 1..k
        PROVE  DataSegment(e, sb[due[p]]) \in T
    <3>1. sb[due[p]] \in Flight
      BY <1>3, <1>6, ElementOfSeq
    <3> QED
      BY <3>1
  <2> HIDE DEF sb, k
  <2>3. DataSegments(e, sb, due) = [p \in 1..k |-> DataSegment(e, sb[due[p]])]
    BY <2>1 DEF DataSegments, DataSegment
  <2>4. [p \in 1..k |-> DataSegment(e, sb[due[p]])] \in [1..k -> T]
    BY <2>2
  <2> QED
    BY <1>6, <2>3, <2>4, FunctionIsSeq
<1>8. ProbeSegments(e, asked) \in Seq(T)
  <2> DEFINE ask  == IF "ASK" \in asked THEN <<Header(e, "WASK", 0)>> ELSE <<>>
             tell == IF "TELL" \in asked THEN <<Header(e, "WINS", 0)>> ELSE <<>>
  <2> HIDE DEF asked
  <2>1. ask \in Seq(T) /\ tell \in Seq(T)
    BY EmptySeq
  <2>2. ProbeSegments(e, asked) = ask \o tell
    BY DEF ProbeSegments
  <2> HIDE DEF ask, tell
  <2> QED
    BY <2>1, <2>2, ConcatProperties
<1>9. all \in Seq(T)
  <2> DEFINE data == DataSegments(e, sb, due)
             acks == AckSegments(e)
             prob == ProbeSegments(e, asked)
  <2>1. acks \in Seq(T) /\ prob \in Seq(T) /\ data \in Seq(T)
    BY <1>7, <1>8
  <2>2. all = ((buf[e] \o acks) \o prob) \o data
    BY DEF Encoded
  <2> HIDE DEF data, acks, prob, all
  <2>3. buf[e] \o acks \in Seq(T)
    BY <2>1, ConcatProperties
  <2>4. (buf[e] \o acks) \o prob \in Seq(T)
    BY <2>1, <2>3, ConcatProperties
  <2> QED
    BY <2>1, <2>2, <2>4, ConcatProperties
<1>10. Len(grams) \in Nat /\ f \in 1..(Len(grams) + 1)
  <2> HIDE DEF all
  <2>1. Len(grams) \in Nat
    BY <1>9, DatagramCount
  <2> HIDE DEF grams
  <2> QED
    BY <1>5, <2>1 DEF Failing
<1>11. ASSUME NEW j \in 1..Len(grams)
       PROVE  grams[j] \in Seq(T)
  <2> HIDE DEF all
  <2>1. \A i \in 1..Len(all) : i <= j * MTU => all[i] \in T
    BY <1>9, ElementOfSeq
  <2> QED
    BY <1>9, <2>1, DatagramOf
<1>12. \E left \in Seq(T) : buf' = [buf EXCEPT ![e] = left]
  <2> DEFINE left == IF f <= Len(grams) THEN grams[f] ELSE <<>>
  <2>1. buf' = [buf EXCEPT ![e] = left]
    <3> HIDE DEF n, asked, D
    <3> QED
      BY <1>5 DEF FlushUntil
  <2>2. left \in Seq(T)
    <3> HIDE DEF grams
    <3> QED
      BY <1>10, <1>11, EmptySeq
  <2> HIDE DEF left
  <2> QED
    BY <2>1, <2>2
<1>13. \E after : /\ after \subseteq net[Other(e)] \cup Seq(T)
                  /\ net' = [net EXCEPT ![Other(e)] = after]
  <2>1. PICK after \in Carried(Other(e), sent) :
          net' = [net EXCEPT ![Other(e)] = after]
    <3> HIDE DEF n, asked, D
    <3> QED
      BY <1>5 DEF FlushUntil
  <2>2. sent \subseteq Seq(T)
    <3>1. \A j \in 1..(f - 1) : j \in 1..Len(grams)
      <4> HIDE DEF grams
      <4> QED
        BY <1>10
    <3> HIDE DEF grams
    <3> QED
      BY <1>11, <3>1
  <2> HIDE DEF sent
  <2>3. after \subseteq net[Other(e)] \cup sent
    BY CarriedIsSent
  <2> QED
    BY <2>1, <2>2, <2>3
<1>14. acklist' \in {acklist, [acklist EXCEPT ![e] = <<>>]}
  <2> HIDE DEF n, asked, D
  <2>1. acklist' = [acklist EXCEPT ![e] = <<>>]
        \/ acklist' = [acklist EXCEPT ![e] = acklist[e]]
    BY <1>5 DEF FlushUntil
  <2> QED
    BY <2>1 DEF ReceiverInv
<1> QED
  BY <1>12, <1>13, <1>14

\* The segments that tell the truth about what e has received: una is not
\* above rcv_nxt, and what an ACK acknowledges is held.
Truthful(e) ==
  {s \in Segment : s.una <= rcv_nxt[e] /\ (s.cmd = "ACK" => Held(e, s.sn))}

\* What e is about to acknowledge is what it holds.
TruthfulAcks(e) == \A i \in 1..Len(acklist[e]) : Held(e, acklist[e][i])

\* Whatever is between the endpoints tells the truth about its sender.
TruthInv ==
  \A e \in Endpoint :
    /\ buf[e] \in Seq(Truthful(e))
    /\ rx[e] \in Seq(Truthful(Other(e)))
    /\ net[e] \subseteq Seq(Truthful(Other(e)))
    /\ TruthfulAcks(e)

\* What was received stays received.
HeldGrows ==
  \A d \in Endpoint :
    /\ rcv_nxt[d] \in Nat /\ rcv_nxt'[d] \in Nat /\ rcv_nxt[d] <= rcv_nxt'[d]
    /\ \A sn \in Nat : Held(d, sn) => Held(d, sn)'

\* What is true stays so.
LEMMA StaysTruthful ==
  ASSUME HeldGrows, NEW d \in Endpoint
  PROVE  Truthful(d) \subseteq Truthful(d)'
<1> SUFFICES ASSUME NEW s \in Truthful(d)
             PROVE  s \in Truthful(d)'
  OBVIOUS
<1>1. s \in Segment /\ s.una \in Nat /\ s.sn \in Nat /\ s.una <= rcv_nxt[d]
  BY DEF Truthful, Segment
<1>2. s.una <= rcv_nxt'[d]
  BY <1>1 DEF HeldGrows
<1>3. s.cmd = "ACK" => Held(d, s.sn)'
  BY <1>1 DEF HeldGrows, Truthful
<1> QED
  BY <1>1, <1>2, <1>3 DEF Truthful

\* A step that leaves the receivers alone,
LEMMA ReceiversAlone ==
  ASSUME ReceiverInv, UNCHANGED <<rcv_buf, rcv_nxt>>
  PROVE  HeldGrows
  BY DEF HeldGrows, Held, ReceiverInv

\* and one that moves the front of a buffer b that has what rcv_buf had.
LEMMA MoveHolds ==
  ASSUME ReceiverInv, NEW e \in Endpoint, NEW b \in Seq(Arrived),
         NEW m \in 0..Len(b), NEW used, Movable(b, rcv_nxt[e], used, m),
         \A sn \in Nat : Has(rcv_buf[e], sn) => Has(b, sn),
         rcv_buf' = [rcv_buf EXCEPT ![e] = SubSeq(b, m + 1, Len(b))],
         rcv_nxt' = [rcv_nxt EXCEPT ![e] = @ + m]
  PROVE  HeldGrows /\ \A sn \in Nat : Has(b, sn) => Held(e, sn)'
<1> DEFINE rest == SubSeq(b, m + 1, Len(b))
           nxt  == rcv_nxt[e]
<1>1. /\ nxt \in Nat /\ m \in Nat /\ m <= Len(b) /\ Len(b) \in Nat
      /\ rcv_buf'[e] = rest /\ rcv_nxt'[e] = nxt + m
      /\ \A d \in Endpoint \ {e} :
           rcv_buf'[d] = rcv_buf[d] /\ rcv_nxt'[d] = rcv_nxt[d]
  BY LenProperties DEF ReceiverInv
<1>2. \A sn : Held(e, sn)' <=> sn < nxt + m \/ Has(rest, sn)
  <2> HIDE DEF rest, nxt
  <2> QED
    BY <1>1 DEF Held, Has
<1>3. \A sn : Held(e, sn) <=> sn < nxt \/ Has(rcv_buf[e], sn)
  BY DEF Held, Has
<1>4. ASSUME NEW sn \in Nat, Has(b, sn)
      PROVE  sn < nxt + m \/ Has(rest, sn)
  <2>1. PICK i \in 1..Len(b) : b[i].sn = sn
    BY <1>4 DEF Has
  <2>2. CASE i <= m
    <3>1. i \in 1..m
      BY <1>1, <2>2
    <3> QED
      BY <1>1, <2>1, <3>1 DEF Movable
  <2>3. CASE ~(i <= m)
    <3>1. SubSeq(b, 1, m) \o rest = b
      BY Split
    <3>2. SubSeq(b, 1, m) \in Seq(Arrived) /\ rest \in Seq(Arrived)
      BY DropFront
    <3>3. m + 1 \in Nat \ {0} /\ Len(b) \in Int /\ Len(b) <= Len(b)
      BY <1>1
    <3>4. /\ Len(rest) = IF m + 1 <= Len(b) THEN Len(b) - (m + 1) + 1 ELSE 0
          /\ \A k \in 1..(Len(b) - (m + 1) + 1) : rest[k] = b[m + 1 + k - 1]
      BY <3>3, Piece
    <3> HIDE DEF rest
    <3>5. i - m \in 1..(Len(b) - (m + 1) + 1) /\ m + 1 + (i - m) - 1 = i
      BY <1>1, <2>3
    <3>6. i - m \in 1..Len(rest) /\ rest[i - m] = b[i]
      BY <1>1, <3>4, <3>5
    <3> QED
      BY <2>1, <3>6 DEF Has
  <2> QED
    BY <2>2, <2>3
<1> HIDE DEF rest, nxt
<1>5. ASSUME NEW sn \in Nat, Has(b, sn)
      PROVE  Held(e, sn)'
  BY <1>2, <1>4, <1>5
<1>6. ASSUME NEW d \in Endpoint
      PROVE  /\ rcv_nxt[d] \in Nat /\ rcv_nxt'[d] \in Nat
             /\ rcv_nxt[d] <= rcv_nxt'[d]
             /\ \A sn \in Nat : Held(d, sn) => Held(d, sn)'
  <2>1. CASE d = e
    <3>1. ASSUME NEW sn \in Nat, Held(e, sn)
          PROVE  Held(e, sn)'
      <4>1. CASE sn < nxt
        BY <1>1, <1>2, <4>1
      <4>2. CASE Has(rcv_buf[e], sn)
        BY <1>5, <4>2
      <4> QED
        BY <1>3, <3>1, <4>1, <4>2
    <3> QED
      BY <1>1, <2>1, <3>1 DEF nxt
  <2>2. CASE d # e
    BY <1>1, <2>2 DEF Held, ReceiverInv
  <2> QED
    BY <2>1, <2>2
<1> QED
  BY <1>5, <1>6 DEF HeldGrows

\* parse_data adds the number of its segment and loses none.
LEMMA InsertHas ==
  ASSUME NEW b \in Seq(Arrived), NEW seg \in Arrived, NEW p \in 0..Len(b),
         NEW sn, Has(b, sn) \/ sn = seg.sn
  PROVE  Has(Insert(b, seg, p), sn)
<1> DEFINE front == SubSeq(b, 1, p)
           one   == <<seg>>
           rest  == SubSeq(b, p + 1, Len(b))
<1>1. CASE p > 0 /\ b[p].sn = seg.sn
  <2>1. p \in 1..Len(b) /\ Insert(b, seg, p) = b
    BY <1>1, LenProperties DEF Insert
  <2>2. Has(b, seg.sn)
    BY <1>1, <2>1 DEF Has
  <2> QED
    BY <2>1, <2>2
<1>2. CASE ~(p > 0 /\ b[p].sn = seg.sn)
  <2>1. Insert(b, seg, p) = (front \o one) \o rest
    BY <1>2 DEF Insert
  <2>2. front \in Seq(Arrived) /\ one \in Seq(Arrived) /\ rest \in Seq(Arrived)
    BY DropFront
  <2>3. front \o rest = b
    BY Split
  <2>4. Has(one, seg.sn)
    BY DEF Has
  <2> HIDE DEF front, one, rest
  <2>5. front \o one \in Seq(Arrived)
    BY <2>2, ConcatProperties
  <2>6. Has((front \o one) \o rest, sn)
          <=> Has(front, sn) \/ Has(one, sn) \/ Has(rest, sn)
    BY <2>2, <2>5, HasJoined
  <2>7. Has(b, sn) => Has(front, sn) \/ Has(rest, sn)
    BY <2>2, <2>3, HasJoined
  <2> QED
    BY <2>1, <2>4, <2>6, <2>7
<1> QED
  BY <1>1, <1>2

\* recv loses nothing that was received,
LEMMA RecvHolds ==
  ASSUME ReceiverInv, SenderInv, NEW e \in Endpoint, Recv(e)
  PROVE  HeldGrows
<1> DEFINE b == rcv_buf[e]
<1>1. PICK n \in 1..Len(rcv_queue[e]), m \in 0..Len(b) :
        /\ Movable(b, rcv_nxt[e],
                   Len(SubSeq(rcv_queue[e], n + 1, Len(rcv_queue[e]))), m)
        /\ rcv_buf' = [rcv_buf EXCEPT ![e] = SubSeq(b, m + 1, Len(b))]
        /\ rcv_nxt' = [rcv_nxt EXCEPT ![e] = @ + m]
  BY RecvEffect
<1>2. b \in Seq(Arrived) /\ \A sn \in Nat : Has(rcv_buf[e], sn) => Has(b, sn)
  BY DEF ReceiverInv
<1> HIDE DEF b
<1> QED
  BY <1>1, <1>2, MoveHolds

\* and input() adds the number that it acknowledges.
LEMMA StoredHolds ==
  ASSUME ReceiverInv, WireInv, NEW e \in Endpoint, InputPushStored(e),
         NEW sn, sn = Head(rx[e]).sn
  PROVE  HeldGrows /\ Held(e, sn)'
<1> DEFINE s   == Head(rx[e])
           seg == [sn |-> s.sn, c |-> s.c]
<1>1. s.sn \in Nat /\ seg \in Arrived
  BY StoredEffect
<1>2. PICK p \in 0..Len(rcv_buf[e]) :
        LET b == Insert(rcv_buf[e], seg, p)
        IN /\ b \in Seq(Arrived)
           /\ \E m \in 0..Len(b) :
                /\ Movable(b, rcv_nxt[e], Len(rcv_queue[e]), m)
                /\ rcv_buf' = [rcv_buf EXCEPT ![e] = SubSeq(b, m + 1, Len(b))]
                /\ rcv_nxt' = [rcv_nxt EXCEPT ![e] = @ + m]
  BY StoredEffect
<1> DEFINE b == Insert(rcv_buf[e], seg, p)
<1>3. seg.sn = s.sn /\ rcv_buf[e] \in Seq(Arrived)
  BY DEF ReceiverInv
<1>4. Has(b, s.sn) /\ \A x \in Nat : Has(rcv_buf[e], x) => Has(b, x)
  <2> HIDE DEF seg
  <2> QED
    BY <1>1, <1>3, InsertHas
<1> HIDE DEF b
<1>5. PICK m \in 0..Len(b) :
        /\ b \in Seq(Arrived)
        /\ Movable(b, rcv_nxt[e], Len(rcv_queue[e]), m)
        /\ rcv_buf' = [rcv_buf EXCEPT ![e] = SubSeq(b, m + 1, Len(b))]
        /\ rcv_nxt' = [rcv_nxt EXCEPT ![e] = @ + m]
  BY <1>2 DEF b
<1> HIDE DEF s
<1>6. HeldGrows /\ \A x \in Nat : Has(b, x) => Held(e, x)'
  BY <1>4, <1>5, MoveHolds
<1> QED
  BY <1>1, <1>4, <1>6 DEF s

\* What is between the endpoints stays true when it is only taken from there.
LEMMA TruthKept ==
  ASSUME TruthInv, HeldGrows, acklist \in [Endpoint -> Seq(Nat)],
         \A d \in Endpoint :
           /\ buf'[d] \in Seq(Truthful(d))
           /\ rx'[d] \in Seq(Truthful(Other(d)))
           /\ net'[d] \subseteq Seq(Truthful(Other(d)))
           /\ TruthfulAcks(d)'
  PROVE  TruthInv'
<1>1. ASSUME NEW d \in Endpoint
      PROVE  Seq(Truthful(d)) \subseteq Seq(Truthful(d)')
  BY StaysTruthful, SeqMonotonic
<1>2. ASSUME NEW d \in Endpoint
      PROVE  /\ buf'[d] \in Seq(Truthful(d)')
             /\ rx'[d] \in Seq(Truthful(Other(d))')
             /\ net'[d] \subseteq Seq(Truthful(Other(d))')
  <2>1. Other(d) \in Endpoint
    BY OtherEnd
  <2>2. Seq(Truthful(d)) \subseteq Seq(Truthful(d)')
    BY <1>1
  <2>3. Seq(Truthful(Other(d))) \subseteq Seq(Truthful(Other(d))')
    BY <1>1, <2>1
  <2> QED
    BY <2>2, <2>3
<1> QED
  BY <1>2 DEF TruthInv

\* ACKs that are still to be sent stay true,
LEMMA AcksKept ==
  ASSUME TruthInv, HeldGrows, ReceiverInv, NEW d \in Endpoint,
         acklist'[d] = acklist[d]
  PROVE  TruthfulAcks(d)'
<1> SUFFICES ASSUME NEW i \in 1..Len(acklist[d])
             PROVE  Held(d, acklist[d][i])'
  BY DEF TruthfulAcks
<1> DEFINE sn == acklist[d][i]
<1>1. sn \in Nat /\ Held(d, sn)
  <2>1. acklist[d] \in Seq(Nat)
    BY DEF ReceiverInv
  <2> QED
    BY <2>1, ElementOfSeq DEF TruthInv, TruthfulAcks
<1>2. acklist'[d][i] = sn
  OBVIOUS
<1> HIDE DEF sn
<1>3. rcv_nxt'[d] > sn \/ \E j \in 1..Len(rcv_buf'[d]) : rcv_buf'[d][j].sn = sn
  <2>1. \A x \in Nat : Held(d, x) => Held(d, x)'
    BY DEF HeldGrows
  <2> QED
    BY <1>1, <2>1 DEF Held
<1> QED
  BY <1>2, <1>3 DEF Held

\* Init, and the steps other than a flush.
LEMMA TruthInit == Init => TruthInv
<1> SUFFICES ASSUME Init PROVE TruthInv
  OBVIOUS
<1>1. \A S : <<>> \in Seq(S) /\ Len(<<>>) = 0
  BY EmptySeq
<1>2. \A S : {} \subseteq S
  OBVIOUS
<1> QED
  BY <1>1, <1>2 DEF Init, TruthInv, TruthfulAcks

\* What does not touch the wire keeps it true,
LEMMA AppKeepsTruth ==
  ASSUME TruthInv, HeldGrows, ReceiverInv, UNCHANGED <<buf, rx, net, acklist>>
  PROVE  TruthInv'
<1>1. \A d \in Endpoint : TruthfulAcks(d)'
  BY AcksKept
<1>2. \A d \in Endpoint :
        /\ buf'[d] \in Seq(Truthful(d))
        /\ rx'[d] \in Seq(Truthful(Other(d)))
        /\ net'[d] \subseteq Seq(Truthful(Other(d)))
  BY DEF TruthInv
<1> QED
  BY <1>1, <1>2, TruthKept DEF ReceiverInv

\* a delivery moves what is true,
LEMMA DeliverKeepsTruth ==
  ASSUME TruthInv, ReceiverInv, WireInv, NEW e \in Endpoint, NEW g \in net[e],
         Deliver(e, g)
  PROVE  TruthInv'
<1>1. /\ UNCHANGED <<rcv_buf, rcv_nxt, acklist, buf>>
      /\ rx' = [rx EXCEPT ![e] = g]
      /\ net' = net \/ net' = [net EXCEPT ![e] = @ \ {g}]
  BY DEF Deliver, rcvVars
<1>2. HeldGrows
  BY <1>1, ReceiversAlone
<1>3. \A d \in Endpoint : TruthfulAcks(d)'
  BY <1>1, <1>2, AcksKept
<1>4. \A d \in Endpoint : rx'[d] = rx[d] \/ (d = e /\ rx'[d] = g)
  BY <1>1 DEF WireInv
<1>5. \A d \in Endpoint : net'[d] \subseteq net[d]
  BY <1>1 DEF WireInv
<1>6. g \in Seq(Truthful(Other(e)))
  BY DEF TruthInv
<1>7. ASSUME NEW d \in Endpoint
      PROVE  /\ buf'[d] \in Seq(Truthful(d))
             /\ rx'[d] \in Seq(Truthful(Other(d)))
             /\ net'[d] \subseteq Seq(Truthful(Other(d)))
  BY <1>1, <1>4, <1>5, <1>6 DEF TruthInv
<1> QED
  BY <1>2, <1>3, <1>7, TruthKept DEF ReceiverInv

\* Reading a segment: the acknowledgements are those that the caller proves.
LEMMA SegmentKeepsTruth ==
  ASSUME TruthInv, ReceiverInv, WireInv, HeldGrows, NEW e \in Endpoint, Busy(e),
         NEW sb, NEW m, FinishSegment(e, sb, m),
         \A d \in Endpoint : TruthfulAcks(d)'
  PROVE  TruthInv'
<1>1. UNCHANGED <<buf, net>> /\ rx' = [rx EXCEPT ![e] = Tail(@)]
  BY DEF FinishSegment, outVars
<1>2. Tail(rx[e]) \in Seq(Truthful(Other(e)))
  <2>1. rx[e] # <<>> /\ rx[e] \in Seq(Truthful(Other(e)))
    BY DEF TruthInv, Busy
  <2> QED
    BY <2>1, HeadTailProperties
<1>3. \A d \in Endpoint : rx'[d] = rx[d] \/ (d = e /\ rx'[d] = Tail(rx[e]))
  BY <1>1 DEF WireInv
<1>4. ASSUME NEW d \in Endpoint
      PROVE  /\ buf'[d] \in Seq(Truthful(d))
             /\ rx'[d] \in Seq(Truthful(Other(d)))
             /\ net'[d] \subseteq Seq(Truthful(Other(d)))
  BY <1>1, <1>2, <1>3 DEF TruthInv
<1> QED
  BY <1>4, TruthKept DEF ReceiverInv

\* One more acknowledgement, of a number that is held.
LEMMA AckAdded ==
  ASSUME TruthInv, HeldGrows, ReceiverInv, NEW e \in Endpoint,
         NEW sn \in Nat, Held(e, sn)',
         acklist' = [acklist EXCEPT ![e] = Append(@, sn)]
  PROVE  \A d \in Endpoint : TruthfulAcks(d)'
<1>1. ASSUME NEW d \in Endpoint, d # e
      PROVE  TruthfulAcks(d)'
  <2>1. acklist'[d] = acklist[d]
    BY <1>1 DEF ReceiverInv
  <2> QED
    BY <2>1, AcksKept
<1>2. TruthfulAcks(e)'
  <2> DEFINE al == acklist[e]
  <2>1. al \in Seq(Nat) /\ acklist'[e] = Append(al, sn)
    BY DEF ReceiverInv
  <2>2. /\ Len(al) \in Nat /\ Len(Append(al, sn)) = Len(al) + 1
        /\ Append(al, sn)[Len(al) + 1] = sn
        /\ \A i \in 1..Len(al) : Append(al, sn)[i] = al[i]
    BY <2>1, AppendProperties, LenProperties
  <2>3. \A i \in 1..Len(al) : al[i] \in Nat /\ Held(e, al[i])
    <3>1. \A i \in 1..Len(al) : al[i] \in Nat
      BY <2>1, ElementOfSeq
    <3> QED
      BY <3>1 DEF TruthInv, TruthfulAcks
  <2> HIDE DEF al
  <2>4. \A x \in Nat : Held(e, x) => Held(e, x)'
    BY DEF HeldGrows
  <2>5. ASSUME NEW i \in 1..(Len(al) + 1)
        PROVE  Held(e, acklist[e][i])'
    <3>1. CASE i \in 1..Len(al)
      <4> DEFINE x == al[i]
      <4>1. x \in Nat /\ Held(e, x)
        BY <2>3, <3>1
      <4>2. acklist'[e][i] = x
        BY <2>1, <2>2, <3>1
      <4> HIDE DEF x
      <4> QED
        BY <2>4, <4>1, <4>2 DEF Held
    <3>2. CASE i = Len(al) + 1
      <4>1. acklist'[e][i] = sn
        BY <2>1, <2>2, <3>2
      <4> QED
        BY <4>1 DEF Held
    <3>3. i \in 1..Len(al) \/ i = Len(al) + 1
      BY <2>2
    <3> QED
      BY <3>1, <3>2, <3>3
  <2> QED
    BY <2>1, <2>2, <2>5 DEF TruthfulAcks
<1> QED
  BY <1>1, <1>2

\* input() acknowledges what it holds,
LEMMA InputKeepsTruth ==
  ASSUME TruthInv, ReceiverInv, WireInv, NEW e \in Endpoint, Input(e)
  PROVE  TruthInv'
<1> DEFINE s == Head(rx[e])
<1>1. PICK sb, m : FinishSegment(e, sb, m)
  BY DEF Input, InputAck, InputPushStored, InputPushRefused, InputWindow
<1>2. Busy(e)
  BY DEF Input, InputAck, InputPushStored, InputPushRefused, InputWindow
<1>3. s.sn \in Nat
  BY <1>2, HeadTypes
<1>4. HeldGrows /\ \A d \in Endpoint : TruthfulAcks(d)'
  <2>1. CASE UNCHANGED <<rcv_buf, rcv_nxt, acklist>>
    BY <2>1, ReceiversAlone, AcksKept
  <2>2. CASE InputPushStored(e)
    <3>1. acklist' = [acklist EXCEPT ![e] = Append(@, s.sn)]
      BY <2>2 DEF InputPushStored
    <3> HIDE DEF s
    <3>2. PICK sn : sn = s.sn
      OBVIOUS
    <3>3. HeldGrows /\ Held(e, sn)'
      BY <2>2, <3>2, StoredHolds DEF s
    <3> QED
      BY <1>3, <3>1, <3>2, <3>3, AckAdded
  <2>3. CASE InputPushRefused(e)
    <3>1. /\ UNCHANGED <<rcv_buf, rcv_nxt>>
          /\ acklist' = [acklist EXCEPT ![e] =
                           IF s.sn < rcv_nxt[e] THEN Append(@, s.sn) ELSE @]
      BY <2>3 DEF InputPushRefused
    <3>2. HeldGrows
      BY <3>1, ReceiversAlone
    <3> HIDE DEF s
    <3>3. CASE s.sn < rcv_nxt[e]
      <4>1. acklist' = [acklist EXCEPT ![e] = Append(@, s.sn)]
        BY <3>1, <3>3
      <4>2. PICK sn : sn = s.sn
        OBVIOUS
      <4>3. Held(e, sn)'
        BY <3>1, <3>3, <4>2 DEF Held
      <4> QED
        BY <1>3, <3>2, <4>1, <4>2, <4>3, AckAdded
    <3>4. CASE ~(s.sn < rcv_nxt[e])
      <4>1. acklist' = acklist
        BY <3>1, <3>4 DEF ReceiverInv
      <4> QED
        BY <3>2, <4>1, AcksKept
    <3> QED
      BY <3>3, <3>4
  <2>4. CASE InputAck(e) \/ InputWindow(e)
    BY <2>1, <2>4 DEF InputAck, InputWindow, rcvVars
  <2> QED
    BY <2>2, <2>3, <2>4 DEF Input
<1> QED
  BY <1>1, <1>2, <1>4, SegmentKeepsTruth

\* A flush tells the truth: its una is rcv_nxt and its ACKs are in acklist.
LEMMA FlushKeepsTruth ==
  ASSUME SenderInv, ReceiverInv, WireInv, TruthInv, NEW e \in Endpoint,
         SomeFlush(e)
  PROVE  TruthInv'
<1> DEFINE T == Truthful(e)
<1>1. UNCHANGED <<rcv_buf, rcv_nxt, rx>>
  BY FlushSender
<1>2. HeldGrows
  BY <1>1, ReceiversAlone
<1>3. wnd_unused(e) \in Nat /\ rcv_nxt[e] \in Nat
  BY WindowIsNumber DEF ReceiverInv
<1>4. Header(e, "WASK", 0) \in T /\ Header(e, "WINS", 0) \in T
  BY <1>3 DEF Header, Truthful, Segment, Command, Data, NoData
<1>5. \A g \in Flight : DataSegment(e, g) \in T
  BY <1>3 DEF DataSegment, Truthful, Segment, Command, Flight
<1>6. AckSegments(e) \in Seq(T)
  <2>1. acklist[e] \in Seq(Nat) /\ Len(acklist[e]) \in Nat
    BY LenProperties DEF ReceiverInv
  <2>2. ASSUME NEW i \in 1..Len(acklist[e])
        PROVE  Header(e, "ACK", acklist[e][i]) \in T
    <3>1. acklist[e][i] \in Nat /\ Held(e, acklist[e][i])
      <4>1. acklist[e][i] \in Nat
        BY <2>1, ElementOfSeq
      <4> QED
        BY <4>1 DEF TruthInv, TruthfulAcks
    <3> QED
      BY <1>3, <3>1 DEF Header, Truthful, Segment, Command, Data, NoData
  <2>3. AckSegments(e) \in [1..Len(acklist[e]) -> T]
    BY <2>2 DEF AckSegments
  <2> QED
    BY <2>1, <2>3, FunctionIsSeq
<1>7. buf[e] \in Seq(T)
  BY DEF TruthInv
<1> HIDE DEF T
<1>8. PICK left \in Seq(T) : buf' = [buf EXCEPT ![e] = left]
  BY <1>4, <1>5, <1>6, <1>7, FlushWire
<1>9. PICK after : /\ after \subseteq net[Other(e)] \cup Seq(T)
                   /\ net' = [net EXCEPT ![Other(e)] = after]
  BY <1>4, <1>5, <1>6, <1>7, FlushWire
<1>10. acklist' \in {acklist, [acklist EXCEPT ![e] = <<>>]}
  BY <1>4, <1>5, <1>6, <1>7, FlushWire
<1>11. ASSUME NEW d \in Endpoint
       PROVE  TruthfulAcks(d)'
  <2>1. CASE acklist'[d] = acklist[d]
    BY <1>2, <2>1, AcksKept
  <2>2. CASE acklist'[d] = <<>>
    BY <2>2, EmptySeq DEF TruthfulAcks
  <2>3. acklist'[d] = acklist[d] \/ acklist'[d] = <<>>
    BY <1>10 DEF ReceiverInv
  <2> QED
    BY <2>1, <2>2, <2>3
<1>12. ASSUME NEW d \in Endpoint
       PROVE  /\ buf'[d] \in Seq(Truthful(d))
              /\ rx'[d] \in Seq(Truthful(Other(d)))
              /\ net'[d] \subseteq Seq(Truthful(Other(d)))
  <2>1. buf'[d] = buf[d] \/ (d = e /\ buf'[d] \in Seq(Truthful(d)))
    BY <1>8 DEF WireInv, T
  <2>2. net'[d] \subseteq net[d] \cup Seq(Truthful(Other(d)))
    <3>1. CASE d = Other(e)
      BY <1>9, <3>1, OtherEnd DEF WireInv, T
    <3>2. CASE d # Other(e)
      BY <1>9, <3>2 DEF WireInv
    <3> QED
      BY <3>1, <3>2
  <2> QED
    BY <1>1, <2>1, <2>2 DEF TruthInv
<1> QED
  BY <1>2, <1>11, <1>12, TruthKept DEF ReceiverInv

\* Every step keeps the truth.
LEMMA TruthNext == GenuineInv /\ TruthInv /\ [Next]_vars => TruthInv'
<1> SUFFICES ASSUME GenuineInv, TruthInv, [Next]_vars
             PROVE  TruthInv'
  OBVIOUS
<1>1. SenderInv /\ ReceiverInv /\ WireInv
  BY DEF GenuineInv
<1>2. CASE UNCHANGED <<rcv_buf, rcv_nxt, buf, rx, net, acklist>>
  BY <1>1, <1>2, ReceiversAlone, AppKeepsTruth
<1>3. ASSUME NEW e \in Endpoint, NEW n \in WriteSizes, Send(e, n)
      PROVE  TruthInv'
  BY <1>2, <1>3 DEF Send, rcvVars, inVars, outVars
<1>4. ASSUME NEW e \in Endpoint, Recv(e)
      PROVE  TruthInv'
  <2>1. HeldGrows
    BY <1>1, <1>4, RecvHolds
  <2>2. UNCHANGED <<buf, rx, net, acklist>>
    BY <1>4 DEF Recv, inVars, outVars
  <2> QED
    BY <1>1, <2>1, <2>2, AppKeepsTruth
<1>5. ASSUME NEW e \in Endpoint, NEW d \in net[e], Deliver(e, d)
      PROVE  TruthInv'
  BY <1>1, <1>5, DeliverKeepsTruth
<1>6. ASSUME NEW e \in Endpoint, Input(e)
      PROVE  TruthInv'
  BY <1>1, <1>6, InputKeepsTruth
<1>7. ASSUME NEW e \in Endpoint, SomeFlush(e)
      PROVE  TruthInv'
  BY <1>1, <1>7, FlushKeepsTruth
<1>8. CASE Settle
  BY <1>2, <1>8 DEF Settle, rcvVars, inVars
<1>9. CASE UNCHANGED vars
  BY <1>2, <1>9 DEF vars, rcvVars, inVars, outVars
<1> QED
  BY <1>3, <1>4, <1>5, <1>6, <1>7, <1>8, <1>9 DEF Next, Input

-----------------------------------------------------------------------------
(* A sender releases what its receiver holds.                              *)

\* What e has numbered is in sb or has been received.
Covered(e, sb) ==
  \A sn \in 0..(snd_nxt[e] - 1) : Has(sb, sn) \/ Held(Other(e), sn)

\* The property, one send buffer at a time.
LEMMA ReleasedIsCovered ==
  ReleasedOnlyWhenHeld <=> \A e \in Endpoint : Covered(e, snd_buf[e])
  BY DEF ReleasedOnlyWhenHeld, Covered, Has

\* The segment that input() reads tells the truth about the other end.
LEMMA HeadIsTrue ==
  ASSUME TruthInv, WireInv, NEW e \in Endpoint, Busy(e)
  PROVE  /\ Head(rx[e]).una \in Nat
         /\ Head(rx[e]).una <= rcv_nxt[Other(e)]
         /\ Head(rx[e]).cmd = "ACK" => Held(Other(e), Head(rx[e]).sn)
<1>1. rx[e] # <<>> /\ rx[e] \in Seq(Truthful(Other(e)))
  BY DEF TruthInv, Busy
<1>2. Head(rx[e]) \in Truthful(Other(e))
  BY <1>1, HeadTailProperties
<1> QED
  BY <1>2 DEF Truthful, Segment

\* parse_una drops what the other end is past,
LEMMA UnaCovers ==
  ASSUME SenderInv, ReceiverInv, NEW e \in Endpoint, Covered(e, snd_buf[e]),
         NEW una \in Nat, una <= rcv_nxt[Other(e)], NEW k,
         Passed(snd_buf[e], una, k)
  PROVE  Covered(e, AfterUna(e, k))
<1> DEFINE s    == snd_buf[e]
           gone == SubSeq(s, 1, k)
           rest == AfterUna(e, k)
<1>1. s \in Seq(Flight) /\ Len(s) \in Nat /\ k \in 0..Len(s)
  BY LenProperties DEF SenderInv, Passed
<1>2. gone \in Seq(Flight) /\ rest \in Seq(Flight) /\ gone \o rest = s
  BY <1>1, DropFront, Split DEF AfterUna
<1>3. ASSUME NEW sn, Has(gone, sn)
      PROVE  sn < rcv_nxt[Other(e)]
  <2>1. k <= Len(s) /\ k \in Nat
    BY <1>1
  <2>2. Len(gone) = k /\ \A i \in 1..k : gone[i] = s[i]
    <3>1. /\ Len(gone) = IF 1 <= k THEN k - 1 + 1 ELSE 0
          /\ \A i \in 1..(k - 1 + 1) : gone[i] = s[1 + i - 1]
      BY <1>1, <2>1, Piece
    <3> HIDE DEF gone, s
    <3> QED
      BY <2>1, <3>1
  <2>3. PICK i \in 1..k : gone[i].sn = sn
    BY <1>3, <2>2 DEF Has
  <2>4. sn < una /\ sn \in Nat
    <3>1. s[i].sn < una
      BY <2>3 DEF Passed
    <3>2. s[i] \in Flight
      BY <1>1, <2>1, <2>3, ElementOfSeq
    <3> QED
      BY <2>2, <2>3, <3>1, <3>2 DEF Flight
  <2>5. rcv_nxt[Other(e)] \in Nat
    BY OtherEnd DEF ReceiverInv
  <2> QED
    BY <2>4, <2>5
<1> HIDE DEF gone, rest
<1>4. ASSUME NEW sn \in 0..(snd_nxt[e] - 1)
      PROVE  Has(rest, sn) \/ Held(Other(e), sn)
  <2>1. Has(s, sn) \/ Held(Other(e), sn)
    BY DEF Covered
  <2>2. Has(s, sn) => Has(gone, sn) \/ Has(rest, sn)
    <3> HIDE DEF s
    <3> QED
      BY <1>2, HasJoined
  <2>3. Has(gone, sn) => Held(Other(e), sn)
    BY <1>3 DEF Held
  <2> QED
    BY <2>1, <2>2, <2>3
<1> QED
  BY <1>4 DEF Covered, rest

\* and parse_ack what the other end acknowledges.
LEMMA AckCovers ==
  ASSUME NEW e \in Endpoint, NEW sb \in Seq(Flight), Covered(e, sb),
         NEW sn, Held(Other(e), sn)
  PROVE  Covered(e, parse_ack(e, sb, sn))
<1> DEFINE new == parse_ack(e, sb, sn)
<1>1. CASE new = sb
  BY <1>1
<1>2. CASE new # sb
  <2>1. PICK k \in 1..Len(sb) :
          /\ sb[k].sn = sn
          /\ new = SubSeq(sb, 1, k - 1) \o SubSeq(sb, k + 1, Len(sb))
    BY <1>2 DEF parse_ack, IsAt
  <2> DEFINE front == SubSeq(sb, 1, k - 1)
             back  == SubSeq(sb, k, Len(sb))
             one   == SubSeq(sb, k, k)
             rest  == SubSeq(sb, k + 1, Len(sb))
  <2>2. /\ Len(sb) \in Nat /\ k \in Nat \ {0} /\ k <= Len(sb)
        /\ k - 1 \in 0..Len(sb)
    BY LenProperties
  <2>3. /\ front \in Seq(Flight) /\ rest \in Seq(Flight)
        /\ \A i \in 1..(k - 1) : front[i] = sb[i]
        /\ Len(front) = k - 1
        /\ \A i \in 1..(Len(sb) - k) : rest[i] = sb[k + i]
        /\ Len(rest) = Len(sb) - k
    <3>1. k - 1 \in Int /\ k - 1 <= Len(sb)
      BY <2>2
    <3>2. /\ front \in Seq(Flight)
          /\ Len(front) = IF 1 <= k - 1 THEN (k - 1) - 1 + 1 ELSE 0
          /\ \A i \in 1..((k - 1) - 1 + 1) : front[i] = sb[1 + i - 1]
      BY <3>1, Piece
    <3>3. k + 1 \in Nat \ {0} /\ Len(sb) \in Int /\ Len(sb) <= Len(sb)
      BY <2>2
    <3>4. /\ rest \in Seq(Flight)
          /\ Len(rest) = IF k + 1 <= Len(sb) THEN Len(sb) - (k + 1) + 1 ELSE 0
          /\ \A i \in 1..(Len(sb) - (k + 1) + 1) : rest[i] = sb[k + 1 + i - 1]
      BY <3>3, Piece
    <3> HIDE DEF front, rest
    <3>5. ASSUME NEW i \in 1..(Len(sb) - k)
          PROVE  i \in 1..(Len(sb) - (k + 1) + 1) /\ k + 1 + i - 1 = k + i
      BY <2>2
    <3> QED
      BY <2>2, <3>2, <3>4, <3>5
  <2>4. ASSUME NEW x, Has(sb, x), x # sn
        PROVE  Has(front, x) \/ Has(rest, x)
    <3>1. PICK i \in 1..Len(sb) : sb[i].sn = x
      BY <2>4 DEF Has
    <3> HIDE DEF front, rest
    <3>2. CASE i < k
      <4>1. i \in 1..(k - 1)
        BY <2>2, <3>2
      <4> QED
        BY <2>3, <3>1, <4>1 DEF Has
    <3>3. CASE i > k
      <4>1. i - k \in 1..(Len(sb) - k) /\ k + (i - k) = i
        BY <2>2, <3>3
      <4>2. i - k \in 1..Len(rest) /\ rest[i - k] = sb[i]
        BY <2>3, <4>1
      <4> QED
        BY <3>1, <4>2 DEF Has
    <3>4. i # k
      BY <2>1, <2>4, <3>1
    <3> QED
      BY <2>2, <3>2, <3>3, <3>4
  <2>5. new = front \o rest
    BY <2>1
  <2> HIDE DEF front, rest, new
  <2>6. ASSUME NEW x \in 0..(snd_nxt[e] - 1)
        PROVE  Has(new, x) \/ Held(Other(e), x)
    <3>1. Has(sb, x) \/ Held(Other(e), x)
      BY DEF Covered
    <3>2. Has(front, x) \/ Has(rest, x) => Has(new, x)
      BY <2>3, <2>5, HasJoined
    <3> QED
      BY <2>4, <3>1, <3>2
  <2> QED
    BY <2>6 DEF Covered, new
<1> QED
  BY <1>1, <1>2

\* What is covered stays so, as more is received and nothing is numbered.
LEMMA StaysCovered ==
  ASSUME SenderInv, HeldGrows, NEW d \in Endpoint, snd_nxt'[d] = snd_nxt[d],
         NEW sb, Covered(d, sb)
  PROVE  \A sn \in 0..(snd_nxt'[d] - 1) : Has(sb, sn) \/ Held(Other(d), sn)'
<1>1. \A x \in Nat : Held(Other(d), x) => Held(Other(d), x)'
  BY OtherEnd DEF HeldGrows
<1>2. \A sn \in 0..(snd_nxt[d] - 1) : sn \in Nat
  BY DEF SenderInv
<1> QED
  BY <1>1, <1>2 DEF Covered

\* A segment that is read leaves snd_buf covered when sb is.
LEMMA SegmentCovers ==
  ASSUME SenderInv, HeldGrows, ReleasedOnlyWhenHeld, NEW e \in Endpoint,
         NEW sb \in Seq(GenuineFlight(e)), Covered(e, sb), NEW m,
         FinishSegment(e, sb, m)
  PROVE  ReleasedOnlyWhenHeld'
<1> DEFINE new == IF Len(rx[e]) = 1 /\ m >= 0 THEN parse_fastack(e, sb, m)
                  ELSE sb
<1>1. snd_buf' = [snd_buf EXCEPT ![e] = new] /\ UNCHANGED snd_nxt
  BY DEF FinishSegment
<1>2. \A sn : Has(sb, sn) => Has(new, sn)
  <2>1. CASE new = sb
    BY <2>1
  <2>2. CASE new = parse_fastack(e, sb, m)
    <3>1. SameNumbers(sb, new)
      BY <2>2, FastackNumbers
    <3> QED
      BY <3>1, HasSame
  <2> QED
    BY <2>1, <2>2
<1> HIDE DEF new
<1>3. snd_buf'[e] = new /\ \A d \in Endpoint \ {e} : snd_buf'[d] = snd_buf[d]
  BY <1>1 DEF SenderInv
<1>4. ASSUME NEW d \in Endpoint
      PROVE  Covered(d, snd_buf[d])'
  <2>1. CASE d = e
    <3>1. \A sn \in 0..(snd_nxt'[e] - 1) : Has(sb, sn) \/ Held(Other(e), sn)'
      BY <1>1, StaysCovered
    <3> QED
      BY <1>2, <1>3, <2>1, <3>1 DEF Covered
  <2>2. CASE d # e
    <3>1. Covered(d, snd_buf[d])
      BY ReleasedIsCovered
    <3> DEFINE s == snd_buf[d]
    <3>2. Covered(d, s) /\ snd_buf'[d] = s
      BY <1>3, <2>2, <3>1
    <3> HIDE DEF s
    <3>3. \A sn \in 0..(snd_nxt'[d] - 1) : Has(s, sn) \/ Held(Other(d), sn)'
      BY <1>1, <3>2, StaysCovered
    <3> QED
      BY <3>2, <3>3 DEF Covered
  <2> QED
    BY <2>1, <2>2
<1> QED
  BY <1>4 DEF ReleasedOnlyWhenHeld, Covered, Has

\* The input steps.
LEMMA InputReleases ==
  ASSUME GenuineInv, TruthInv, ReleasedOnlyWhenHeld, NEW e \in Endpoint,
         Input(e)
  PROVE  ReleasedOnlyWhenHeld'
<1>1. SenderInv /\ ReceiverInv /\ WireInv
  BY DEF GenuineInv
<1>2. HeldGrows
  <2>1. CASE UNCHANGED <<rcv_buf, rcv_nxt>>
    BY <1>1, <2>1, ReceiversAlone
  <2>2. CASE InputPushStored(e)
    <3>1. PICK sn : sn = Head(rx[e]).sn
      OBVIOUS
    <3> QED
      BY <1>1, <2>2, <3>1, StoredHolds
  <2> QED
    BY <2>1, <2>2
       DEF Input, InputAck, InputPushRefused, InputWindow, rcvVars
<1> DEFINE una == Head(rx[e]).una
           sn  == Head(rx[e]).sn
<1>3. PICK k \in 0..Len(snd_buf[e]) :
        /\ Passed(snd_buf[e], una, k)
        /\ \/ FinishSegment(e, AfterUna(e, k), max_ack[e])
           \/ /\ Head(rx[e]).cmd = "ACK"
              /\ FinishSegment(e, parse_ack(e, AfterUna(e, k), sn),
                               MaxOf(max_ack[e], sn))
  BY DEF Input, InputAck, InputPushStored, InputPushRefused, InputWindow
<1>4. Busy(e)
  BY DEF Input, InputAck, InputPushStored, InputPushRefused, InputWindow
<1>5. /\ una \in Nat /\ una <= rcv_nxt[Other(e)]
      /\ Head(rx[e]).cmd = "ACK" => Held(Other(e), sn)
  BY <1>1, <1>4, HeadIsTrue
<1>6. Covered(e, snd_buf[e])
  BY ReleasedIsCovered
<1> DEFINE rest == AfterUna(e, k)
<1>7. Covered(e, rest) /\ rest \in Seq(GenuineFlight(e)) /\ rest \in Seq(Flight)
  <2> HIDE DEF una
  <2>1. Covered(e, rest)
    BY <1>1, <1>3, <1>5, <1>6, UnaCovers
  <2>2. rest \in Seq(GenuineFlight(e))
    BY <1>1, AfterUnaKeeps
  <2> QED
    BY <2>1, <2>2, FlightTypes
<1> HIDE DEF rest, una, sn
<1>8. CASE FinishSegment(e, rest, max_ack[e])
  BY <1>1, <1>2, <1>7, <1>8, SegmentCovers
<1>9. CASE /\ Head(rx[e]).cmd = "ACK"
           /\ FinishSegment(e, parse_ack(e, rest, sn), MaxOf(max_ack[e], sn))
  <2>1. Covered(e, parse_ack(e, rest, sn))
    BY <1>5, <1>7, <1>9, AckCovers
  <2>2. parse_ack(e, rest, sn) \in Seq(GenuineFlight(e))
    BY <1>7, ParseAckKeeps
  <2> QED
    BY <1>1, <1>2, <1>9, <2>1, <2>2, SegmentCovers
<1> QED
  BY <1>3, <1>8, <1>9 DEF rest, una, sn

\* What a flush numbers is in snd_buf, with all that was there.
LEMMA NumberedHas ==
  ASSUME SenderInv, NEW e \in Endpoint, NEW n \in 0..Len(snd_queue[e]),
         NEW late, NEW places, NEW new,
         new = Transmitted(snd_buf[e] \o Numbered(e, n), late, places)
  PROVE  /\ \A sn : Has(snd_buf[e], sn) => Has(new, sn)
         /\ \A sn \in snd_nxt[e]..(snd_nxt[e] + n - 1) : Has(new, sn)
<1> DEFINE s    == snd_buf[e]
           more == Numbered(e, n)
           all  == s \o more
           nxt  == snd_nxt[e]
<1>1. /\ s \in Seq(Flight) /\ more \in Seq(Flight) /\ all \in Seq(Flight)
      /\ Len(more) = n
  BY NumberedTypes DEF SenderInv
<1>2. n \in Nat /\ nxt \in Nat
  BY LenProperties DEF SenderInv
<1>3. ASSUME NEW sn \in nxt..(nxt + n - 1)
      PROVE  Has(more, sn)
  <2>1. \A i \in 1..n : more[i].sn = nxt + i - 1
    BY DEF Numbered
  <2> HIDE DEF more, nxt
  <2>2. sn - nxt + 1 \in 1..n /\ nxt + (sn - nxt + 1) - 1 = sn
    BY <1>2
  <2> QED
    BY <1>1, <2>1, <2>2 DEF Has
<1> HIDE DEF s, more
<1>4. \A sn : Has(s, sn) \/ Has(more, sn) => Has(all, sn)
  BY <1>1, HasJoined
<1> HIDE DEF all
<1>5. SameNumbers(all, Transmitted(all, late, places))
  BY <1>1, TransmittedNumbers
<1>6. \A sn : Has(all, sn) => Has(new, sn)
  BY <1>5, HasSame DEF all, s, more
<1> QED
  BY <1>3, <1>4, <1>6 DEF s

\* A flush lets go of nothing.
LEMMA FlushReleases ==
  ASSUME SenderInv, ReceiverInv, ReleasedOnlyWhenHeld, NEW e \in Endpoint,
         SomeFlush(e)
  PROVE  ReleasedOnlyWhenHeld'
<1>1. UNCHANGED <<rcv_buf, rcv_nxt>>
  BY FlushSender
<1>2. CASE UNCHANGED <<snd_buf, snd_nxt>>
  BY <1>1, <1>2 DEF ReleasedOnlyWhenHeld, Held
<1>3. ASSUME NEW n \in 0..Len(snd_queue[e]), NEW late, NEW places,
             NumbersFront(e, n, late, places)
      PROVE  ReleasedOnlyWhenHeld'
  <2> DEFINE new == Transmitted(snd_buf[e] \o Numbered(e, n), late, places)
  <2>1. /\ snd_buf' = [snd_buf EXCEPT ![e] = new]
        /\ snd_nxt' = [snd_nxt EXCEPT ![e] = @ + n]
    BY <1>3 DEF NumbersFront
  <2>2. /\ \A sn : Has(snd_buf[e], sn) => Has(new, sn)
        /\ \A sn \in snd_nxt[e]..(snd_nxt[e] + n - 1) : Has(new, sn)
    BY NumberedHas
  <2> HIDE DEF new
  <2>3. /\ snd_buf'[e] = new /\ snd_nxt'[e] = snd_nxt[e] + n
        /\ \A d \in Endpoint \ {e} : snd_buf'[d] = snd_buf[d]
                                     /\ snd_nxt'[d] = snd_nxt[d]
        /\ snd_nxt[e] \in Nat /\ n \in Nat
    BY <2>1, LenProperties DEF SenderInv
  <2>4. ASSUME NEW d \in Endpoint, NEW sn \in 0..(snd_nxt'[d] - 1)
        PROVE  Has(snd_buf'[d], sn) \/ Held(Other(d), sn)
    <3>1. \A x \in 0..(snd_nxt[d] - 1) :
            Has(snd_buf[d], x) \/ Held(Other(d), x)
      BY ReleasedIsCovered DEF Covered
    <3>2. CASE d = e
      <4>1. \/ sn \in 0..(snd_nxt[e] - 1)
            \/ sn \in snd_nxt[e]..(snd_nxt[e] + n - 1)
        BY <2>3, <3>2
      <4> QED
        BY <2>2, <2>3, <3>1, <3>2, <4>1
    <3>3. CASE d # e
      BY <2>3, <3>1, <3>3
    <3> QED
      BY <3>2, <3>3
  <2> QED
    BY <1>1, <2>4 DEF ReleasedOnlyWhenHeld, Has, Held
<1> QED
  BY <1>2, <1>3, FlushSender

\* Every step releases only what is held.
LEMMA ReleasedNext ==
  GenuineInv /\ TruthInv /\ ReleasedOnlyWhenHeld /\ [Next]_vars
    => ReleasedOnlyWhenHeld'
<1> SUFFICES ASSUME GenuineInv, TruthInv, ReleasedOnlyWhenHeld, [Next]_vars
             PROVE  ReleasedOnlyWhenHeld'
  OBVIOUS
<1>1. SenderInv /\ ReceiverInv /\ WireInv
  BY DEF GenuineInv
<1>2. CASE UNCHANGED <<snd_buf, snd_nxt, rcv_buf, rcv_nxt>>
  BY <1>2 DEF ReleasedOnlyWhenHeld, Held
<1>3. ASSUME NEW e \in Endpoint, NEW n \in WriteSizes, Send(e, n)
      PROVE  ReleasedOnlyWhenHeld'
  BY <1>2, <1>3 DEF Send, rcvVars
<1>4. ASSUME NEW e \in Endpoint, Recv(e)
      PROVE  ReleasedOnlyWhenHeld'
  <2>1. HeldGrows
    BY <1>1, <1>4, RecvHolds
  <2>2. UNCHANGED <<snd_buf, snd_nxt>>
    BY <1>4 DEF Recv, sndVars
  <2>3. ASSUME NEW d \in Endpoint
        PROVE  \A sn \in 0..(snd_nxt'[d] - 1) :
                 Has(snd_buf'[d], sn) \/ Held(Other(d), sn)'
    <3> DEFINE s == snd_buf[d]
    <3>1. Covered(d, s) /\ snd_buf'[d] = s
      BY <2>2, ReleasedIsCovered
    <3> HIDE DEF s
    <3> QED
      BY <1>1, <2>1, <2>2, <3>1, StaysCovered
  <2> QED
    BY <2>3 DEF ReleasedOnlyWhenHeld, Has
<1>5. ASSUME NEW e \in Endpoint, NEW d \in net[e], Deliver(e, d)
      PROVE  ReleasedOnlyWhenHeld'
  BY <1>2, <1>5 DEF Deliver, sndVars, rcvVars
<1>6. ASSUME NEW e \in Endpoint, Input(e)
      PROVE  ReleasedOnlyWhenHeld'
  BY <1>6, InputReleases
<1>7. ASSUME NEW e \in Endpoint, SomeFlush(e)
      PROVE  ReleasedOnlyWhenHeld'
  BY <1>1, <1>7, FlushReleases
<1>8. CASE Settle
  BY <1>2, <1>8 DEF Settle, sndVars, rcvVars
<1>9. CASE UNCHANGED vars
  BY <1>2, <1>9 DEF vars, sndVars, rcvVars
<1> QED
  BY <1>3, <1>4, <1>5, <1>6, <1>7, <1>8, <1>9 DEF Next, Input

-----------------------------------------------------------------------------
(* What holds in every state, whatever the network does.                   *)

\* Every step keeps snd_buf in order, and none takes back what snd_una says.
LEMMA SndOrderNext ==
  GenuineInv /\ SndBufOrdered /\ [Next]_vars
    => SndBufOrdered' /\ \A e \in Endpoint : snd_una'[e] >= snd_una[e]
<1> SUFFICES ASSUME GenuineInv, SndBufOrdered, [Next]_vars
             PROVE  /\ SndBufOrdered'
                    /\ \A d \in Endpoint : snd_una'[d] >= snd_una[d]
  OBVIOUS
<1>1. SenderInv
  BY DEF GenuineInv
<1>2. CASE UNCHANGED <<snd_buf, snd_una, snd_nxt>>
  BY <1>1, <1>2 DEF SndBufOrdered, shrink_buf, SenderInv
<1>3. ASSUME NEW e \in Endpoint, NEW n \in WriteSizes, Send(e, n)
      PROVE  UNCHANGED <<snd_buf, snd_una, snd_nxt>>
  BY <1>3 DEF Send
<1>4. ASSUME NEW e \in Endpoint, Recv(e) \/ \E d \in net[e] : Deliver(e, d)
      PROVE  UNCHANGED <<snd_buf, snd_una, snd_nxt>>
  BY <1>4 DEF Recv, Deliver, sndVars
<1>5. ASSUME NEW e \in Endpoint, InputAck(e)
      PROVE  SndBufOrdered' /\ \A d \in Endpoint : snd_una'[d] >= snd_una[d]
  BY <1>1, <1>5, AckStepOrdered
<1>6. ASSUME NEW e \in Endpoint,
             InputPushStored(e) \/ InputPushRefused(e) \/ InputWindow(e)
      PROVE  SndBufOrdered' /\ \A d \in Endpoint : snd_una'[d] >= snd_una[d]
  <2>1. \E k \in 0..Len(snd_buf[e]) :
          /\ Passed(snd_buf[e], Head(rx[e]).una, k)
          /\ FinishSegment(e, AfterUna(e, k), max_ack[e])
    BY <1>6 DEF InputPushStored, InputPushRefused, InputWindow
  <2> QED
    BY <1>1, <2>1, UnaStepOrdered
<1>7. ASSUME NEW e \in Endpoint, SomeFlush(e)
      PROVE  SndBufOrdered' /\ \A d \in Endpoint : snd_una'[d] >= snd_una[d]
  BY <1>1, <1>7, FlushOrdered
<1>8. CASE Settle \/ UNCHANGED vars
  BY <1>2, <1>8 DEF Settle, vars, sndVars
<1> QED
  BY <1>2, <1>3, <1>4, <1>5, <1>6, <1>7, <1>8 DEF Next

\* Every step keeps rcv_buf in order, and strands nothing there.
LEMMA RcvOrderNext ==
  GenuineInv /\ ReceiverOrdered /\ [Next]_vars => ReceiverOrdered'
<1> SUFFICES ASSUME GenuineInv, ReceiverOrdered, [Next]_vars
             PROVE  ReceiverOrdered'
  OBVIOUS
<1>1. SenderInv /\ ReceiverInv /\ WireInv
  BY DEF GenuineInv
<1>2. CASE UNCHANGED <<rcv_buf, rcv_queue, rcv_nxt>>
  BY <1>2 DEF ReceiverOrdered, RcvBufOrdered, NothingStranded
<1>3. ASSUME NEW e \in Endpoint,
             \/ \E n \in WriteSizes : Send(e, n)
             \/ \E d \in net[e] : Deliver(e, d)
             \/ InputAck(e) \/ InputPushRefused(e) \/ InputWindow(e)
      PROVE  UNCHANGED <<rcv_buf, rcv_queue, rcv_nxt>>
  BY <1>3 DEF Send, Deliver, InputAck, InputPushRefused, InputWindow, rcvVars
<1>4. ASSUME NEW e \in Endpoint, Recv(e)
      PROVE  ReceiverOrdered'
  BY <1>1, <1>4, RecvOrdered
<1>5. ASSUME NEW e \in Endpoint, InputPushStored(e)
      PROVE  ReceiverOrdered'
  BY <1>1, <1>5, StoredOrdered
<1>6. ASSUME NEW e \in Endpoint, SomeFlush(e)
      PROVE  UNCHANGED <<rcv_buf, rcv_queue, rcv_nxt>>
  BY <1>1, <1>6, FlushSender
<1>7. CASE Settle \/ UNCHANGED vars
  BY <1>2, <1>7 DEF Settle, vars, rcvVars
<1> QED
  BY <1>2, <1>3, <1>4, <1>5, <1>6, <1>7 DEF Next

\* Both are in order, and everything is covered, before anything is sent.
LEMMA OrderInit ==
  Init => SndBufOrdered /\ ReceiverOrdered /\ ReleasedOnlyWhenHeld
<1> SUFFICES ASSUME Init
             PROVE  SndBufOrdered /\ ReceiverOrdered /\ ReleasedOnlyWhenHeld
  OBVIOUS
<1>1. Len(<<>>) = 0
  BY EmptySeq
<1>2. SndBufOrdered
  BY <1>1 DEF Init, SndBufOrdered, Ascending, shrink_buf
<1>3. ReceiverOrdered
  BY <1>1 DEF Init, ReceiverOrdered, RcvBufOrdered, NothingStranded, Ascending
<1>4. ReleasedOnlyWhenHeld
  BY DEF Init, ReleasedOnlyWhenHeld
<1> QED
  BY <1>2, <1>3, <1>4

\* snd_buf is in ascending order of number from snd_una on, always: what
\* parse_una, parse_ack and the window test of flush rely on.
THEOREM SndBufOrderedAlways == Spec => []SndBufOrdered
<1>1. Init => SndBufOrdered
  BY OrderInit
<1>2. GenuineInv /\ SndBufOrdered /\ [Next]_vars => SndBufOrdered'
  BY SndOrderNext
<1> QED
  BY <1>1, <1>2, GenuineAlways, PTL DEF Spec

\* What has been acknowledged to a sender stays acknowledged, whatever old
\* datagrams arrive late.
THEOREM UnaNeverBackAlways == Spec => UnaNeverBack
<1>1. GenuineInv /\ SndBufOrdered /\ [Next]_vars
        => [\A e \in Endpoint : snd_una'[e] >= snd_una[e]]_vars
  BY SndOrderNext
<1> QED
  BY <1>1, GenuineAlways, SndBufOrderedAlways, PTL DEF Spec, UnaNeverBack

\* What waits behind a gap is in order, without repeats and inside the
\* receive window, in whatever order datagrams arrive.
THEOREM RcvBufOrderedAlways == Spec => []RcvBufOrdered
<1>1. Init => ReceiverOrdered
  BY OrderInit
<1>2. ReceiverOrdered => RcvBufOrdered
  BY DEF ReceiverOrdered
<1> QED
  BY <1>1, <1>2, RcvOrderNext, GenuineAlways, PTL DEF Spec

\* Between two operations nothing that could be read is left in rcv_buf, unless
\* the receive queue is full.
THEOREM NothingStrandedAlways == Spec => []NothingStranded
<1>1. Init => ReceiverOrdered
  BY OrderInit
<1>2. ReceiverOrdered => NothingStranded
  BY DEF ReceiverOrdered
<1> QED
  BY <1>1, <1>2, RcvOrderNext, GenuineAlways, PTL DEF Spec

\* A sender keeps each segment until its receiver holds it, although ACKs and
\* una travel over a network that loses, repeats and reorders them.
THEOREM ReleasedOnlyWhenHeldAlways == Spec => []ReleasedOnlyWhenHeld
<1>1. Spec => []TruthInv
  BY TruthInit, TruthNext, GenuineAlways, PTL DEF Spec
<1>2. Init => ReleasedOnlyWhenHeld
  BY OrderInit
<1> QED
  BY <1>1, <1>2, ReleasedNext, GenuineAlways, PTL DEF Spec

-----------------------------------------------------------------------------
(* How the writes are cut.                                                 *)

\* Where the data s[1], ..., s[i] end, when they begin at from.
EndAt(s, from, i) == IF i = 0 THEN from ELSE s[i].off + s[i].len

\* The data s cover from..to without gap or overlap, none longer than mss.
Covers(s, from, to) ==
  /\ EndAt(s, from, Len(s)) = to
  /\ \A i \in 1..Len(s) : s[i].off = EndAt(s, from, i - 1) /\ s[i].len <= Mss
  /\ \A i, j \in 0..Len(s) : i <= j => EndAt(s, from, i) <= EndAt(s, from, j)

\* Fragment numbers count down to 0, from less than the receive window.
Fragmented(e, s) ==
  \A i \in 1..Len(s) :
    /\ s[i].frg < KCP_WND_RCV
    /\ e \in StreamMode => s[i].frg = 0
    /\ i + s[i].frg <= Len(s)
    /\ \A k \in 0..s[i].frg : s[i + k].frg = s[i].frg - k

\* The ends of the messages in s.
MessageEnds(s) ==
  {s[i].off + s[i].len : i \in {j \in 1..Len(s) : s[j].frg = 0}}

\* The data that the writes of e were cut into, numbered or not.
Cut(e) == log[e] \o snd_queue[e]

\* The writes of each end are cut into data that cover them and, unless it is
\* a stream, into messages.
CutInv ==
  \A e \in Endpoint :
    /\ Covers(Cut(e), 0, wrote[e])
    /\ Fragmented(e, Cut(e))
    /\ e \notin StreamMode => ends[e] = MessageEnds(Cut(e))

\* The numbers in data.
LEMMA DataNumbers ==
  ASSUME NEW s \in Seq(Data)
  PROVE  /\ Len(s) \in Nat
         /\ \A i \in 1..Len(s) : /\ s[i] \in Data /\ s[i].off \in Nat
                                 /\ s[i].len \in Nat /\ s[i].frg \in Nat
         /\ \A from \in Nat : \A i \in 0..Len(s) : EndAt(s, from, i) \in Nat
<1>1. Len(s) \in Nat /\ \A i \in 1..Len(s) : s[i] \in Data
  BY LenProperties, ElementOfSeq
<1>2. \A i \in 1..Len(s) : /\ s[i] \in Data /\ s[i].off \in Nat
                           /\ s[i].len \in Nat /\ s[i].frg \in Nat
  BY <1>1 DEF Data
<1>3. ASSUME NEW from \in Nat, NEW i \in 0..Len(s)
      PROVE  EndAt(s, from, i) \in Nat
  <2>1. CASE i = 0
    BY <2>1 DEF EndAt
  <2>2. CASE i # 0
    <3>1. i \in 1..Len(s)
      BY <1>1, <2>2
    <3> QED
      BY <1>2, <2>2, <3>1 DEF EndAt
  <2> QED
    BY <2>1, <2>2
<1> QED
  BY <1>1, <1>2, <1>3

\* Data behind data.
LEMMA CoversJoined ==
  ASSUME NEW s \in Seq(Data), NEW t \in Seq(Data),
         NEW from \in Nat, NEW mid \in Nat, NEW to \in Nat,
         Covers(s, from, mid), Covers(t, mid, to)
  PROVE  Covers(s \o t, from, to)
<1> DEFINE u == s \o t
           a == Len(s)
           b == Len(t)
<1>1. /\ a \in Nat /\ b \in Nat /\ Len(u) = a + b
      /\ \A i \in 1..a : u[i] = s[i]
      /\ \A i \in 1..b : u[a + i] = t[i]
  BY ConcatElements
<1>2. \A i \in 0..a : EndAt(s, from, i) \in Nat
  BY DataNumbers
<1>3. \A i \in 0..b : EndAt(t, mid, i) \in Nat
  BY DataNumbers
<1> HIDE DEF u
<1>4. \A i \in 0..a : EndAt(u, from, i) = EndAt(s, from, i)
  BY <1>1 DEF EndAt
<1>5. ASSUME NEW i \in 0..b
      PROVE  EndAt(u, from, a + i) = EndAt(t, mid, i)
  <2>1. CASE i = 0
    BY <1>1, <1>4, <2>1 DEF EndAt, Covers
  <2>2. CASE i # 0
    <3>1. i \in 1..b /\ a + i # 0
      BY <1>1, <2>2
    <3> QED
      BY <1>1, <3>1 DEF EndAt
  <2> QED
    BY <2>1, <2>2
<1>6. EndAt(u, from, Len(u)) = to
  <2>1. b \in 0..b
    BY <1>1
  <2> QED
    BY <1>1, <1>5, <2>1 DEF Covers
<1>7. ASSUME NEW i \in 1..Len(u)
      PROVE  u[i].off = EndAt(u, from, i - 1) /\ u[i].len <= Mss
  <2>1. CASE i <= a
    <3>1. i \in 1..a /\ i - 1 \in 0..a
      BY <1>1, <2>1
    <3>2. s[i].off = EndAt(s, from, i - 1) /\ s[i].len <= Mss
      BY <3>1 DEF Covers
    <3> QED
      BY <1>1, <1>4, <3>1, <3>2
  <2>2. CASE ~(i <= a)
    <3>1. PICK k \in 1..b : i = a + k
      <4>1. i - a \in 1..b /\ i = a + (i - a)
        BY <1>1, <2>2
      <4> QED
        BY <4>1
    <3>2. k - 1 \in 0..b /\ i - 1 = a + (k - 1)
      BY <1>1, <3>1
    <3>3. t[k].off = EndAt(t, mid, k - 1) /\ t[k].len <= Mss
      BY DEF Covers
    <3>4. u[i] = t[k]
      BY <1>1, <3>1
    <3>5. EndAt(u, from, i - 1) = EndAt(t, mid, k - 1)
      BY <1>5, <3>2
    <3> QED
      BY <3>3, <3>4, <3>5
  <2> QED
    BY <2>1, <2>2
<1>8. ASSUME NEW i \in 0..Len(u), NEW j \in 0..Len(u), i <= j
      PROVE  EndAt(u, from, i) <= EndAt(u, from, j)
  <2>1. CASE j <= a
    <3>1. i \in 0..a /\ j \in 0..a
      BY <1>1, <1>8, <2>1
    <3>2. EndAt(s, from, i) <= EndAt(s, from, j)
      BY <1>8, <3>1 DEF Covers
    <3> QED
      BY <1>4, <3>1, <3>2
  <2>2. CASE ~(j <= a)
    <3>1. j - a \in 0..b /\ j = a + (j - a)
      BY <1>1, <2>2
    <3>2. EndAt(u, from, j) = EndAt(t, mid, j - a)
      BY <1>5, <3>1
    <3>3. CASE i <= a
      <4>1. i \in 0..a /\ a \in 0..a /\ 0 \in 0..b /\ 0 <= j - a
        BY <1>1, <3>1, <3>3
      <4>2. EndAt(s, from, i) <= mid
        BY <3>3, <4>1 DEF Covers
      <4>3. EndAt(t, mid, 0) <= EndAt(t, mid, j - a)
        BY <3>1, <4>1 DEF Covers
      <4>4. EndAt(t, mid, 0) = mid
        BY DEF EndAt
      <4>5. EndAt(s, from, i) \in Nat /\ EndAt(t, mid, j - a) \in Nat
        BY <1>2, <1>3, <3>1, <4>1
      <4>6. EndAt(u, from, i) = EndAt(s, from, i)
        BY <1>4, <4>1
      <4> QED
        BY <3>2, <4>2, <4>3, <4>4, <4>5, <4>6
    <3>4. CASE ~(i <= a)
      <4>1. i - a \in 0..b /\ i = a + (i - a) /\ i - a <= j - a
        BY <1>1, <1>8, <3>1, <3>4
      <4>2. EndAt(u, from, i) = EndAt(t, mid, i - a)
        BY <1>5, <4>1
      <4>3. EndAt(t, mid, i - a) <= EndAt(t, mid, j - a)
        BY <3>1, <4>1 DEF Covers
      <4> QED
        BY <3>2, <4>2, <4>3
    <3> QED
      BY <3>3, <3>4
  <2> QED
    BY <2>1, <2>2
<1> QED
  BY <1>6, <1>7, <1>8 DEF Covers, u

\* Fragmented data behind fragmented data.
LEMMA FragmentedJoined ==
  ASSUME NEW e, NEW s \in Seq(Data), NEW t \in Seq(Data),
         Fragmented(e, s), Fragmented(e, t)
  PROVE  /\ Fragmented(e, s \o t)
         /\ MessageEnds(s \o t) = MessageEnds(s) \cup MessageEnds(t)
<1> DEFINE u == s \o t
           a == Len(s)
           b == Len(t)
<1>1. /\ a \in Nat /\ b \in Nat /\ Len(u) = a + b
      /\ \A i \in 1..a : u[i] = s[i]
      /\ \A i \in 1..b : u[a + i] = t[i]
  BY ConcatElements
<1>2. /\ \A i \in 1..a : s[i].frg \in Nat
      /\ \A i \in 1..b : t[i].frg \in Nat
  BY DataNumbers
<1> HIDE DEF u
<1>3. ASSUME NEW i \in 1..(a + b), ~(i <= a)
      PROVE  i - a \in 1..b /\ u[i] = t[i - a]
  <2>1. i - a \in 1..b /\ a + (i - a) = i
    BY <1>1, <1>3
  <2> QED
    BY <1>1, <2>1
<1>4. ASSUME NEW i \in 1..Len(u)
      PROVE  /\ u[i].frg < KCP_WND_RCV
             /\ e \in StreamMode => u[i].frg = 0
             /\ i + u[i].frg <= Len(u)
             /\ \A k \in 0..u[i].frg : u[i + k].frg = u[i].frg - k
  <2>1. CASE i <= a
    <3>1. i \in 1..a /\ u[i] = s[i]
      BY <1>1, <2>1
    <3>2. /\ s[i].frg < KCP_WND_RCV /\ (e \in StreamMode => s[i].frg = 0)
          /\ i + s[i].frg <= a /\ s[i].frg \in Nat
          /\ \A k \in 0..s[i].frg : s[i + k].frg = s[i].frg - k
      BY <1>2, <3>1 DEF Fragmented
    <3>3. ASSUME NEW k \in 0..s[i].frg
          PROVE  u[i + k].frg = s[i].frg - k
      <4>1. i + k \in 1..a
        BY <1>1, <3>1, <3>2
      <4> QED
        BY <1>1, <3>2, <4>1
    <3>4. i + s[i].frg <= Len(u)
      BY <1>1, <3>2
    <3> QED
      BY <3>1, <3>2, <3>3, <3>4
  <2>2. CASE ~(i <= a)
    <3> DEFINE j == i - a
    <3>1. j \in 1..b /\ u[i] = t[j] /\ i = a + j
      BY <1>1, <1>3, <2>2
    <3> HIDE DEF j
    <3>2. /\ t[j].frg < KCP_WND_RCV /\ (e \in StreamMode => t[j].frg = 0)
          /\ j + t[j].frg <= b /\ t[j].frg \in Nat
          /\ \A k \in 0..t[j].frg : t[j + k].frg = t[j].frg - k
      BY <1>2, <3>1 DEF Fragmented
    <3>3. ASSUME NEW k \in 0..t[j].frg
          PROVE  u[i + k].frg = t[j].frg - k
      <4>1. j + k \in 1..b /\ i + k = a + (j + k)
        BY <1>1, <3>1, <3>2
      <4>2. u[i + k] = t[j + k]
        BY <1>1, <4>1
      <4> QED
        BY <3>2, <4>2
    <3>4. i + t[j].frg <= Len(u)
      BY <1>1, <3>1, <3>2
    <3> QED
      BY <3>1, <3>2, <3>3, <3>4
  <2> QED
    BY <2>1, <2>2
<1>5. MessageEnds(u) \subseteq MessageEnds(s) \cup MessageEnds(t)
  <2> SUFFICES ASSUME NEW i \in 1..Len(u), u[i].frg = 0
               PROVE  u[i].off + u[i].len \in MessageEnds(s) \cup MessageEnds(t)
    BY DEF MessageEnds
  <2>1. CASE i <= a
    <3>1. i \in 1..a /\ u[i] = s[i]
      BY <1>1, <2>1
    <3> QED
      BY <3>1 DEF MessageEnds
  <2>2. CASE ~(i <= a)
    <3>1. i - a \in 1..b /\ u[i] = t[i - a]
      BY <1>1, <1>3, <2>2
    <3> QED
      BY <3>1 DEF MessageEnds
  <2> QED
    BY <2>1, <2>2
<1>6. MessageEnds(s) \subseteq MessageEnds(u)
  <2> SUFFICES ASSUME NEW i \in 1..a, s[i].frg = 0
               PROVE  s[i].off + s[i].len \in MessageEnds(u)
    BY DEF MessageEnds
  <2>1. i \in 1..Len(u) /\ u[i] = s[i]
    BY <1>1
  <2> QED
    BY <2>1 DEF MessageEnds
<1>7. MessageEnds(t) \subseteq MessageEnds(u)
  <2> SUFFICES ASSUME NEW i \in 1..b, t[i].frg = 0
               PROVE  t[i].off + t[i].len \in MessageEnds(u)
    BY DEF MessageEnds
  <2>1. a + i \in 1..Len(u) /\ u[a + i] = t[i]
    BY <1>1
  <2> QED
    BY <2>1 DEF MessageEnds
<1> QED
  BY <1>4, <1>5, <1>6, <1>7 DEF Fragmented, u

\* The pieces of m bytes that n bytes are cut into reach to the last of them.
LEMMA PiecesReach ==
  ASSUME NEW n \in Nat \ {0}, NEW m \in Nat \ {0}
  PROVE  /\ CeilDiv(n, m) \in Nat \ {0}
         /\ n - (CeilDiv(n, m) - 1) * m <= m
<1> DEFINE q == CeilDiv(n, m)
<1>1. q \in Nat /\ n + m - 1 < q * m + m
  BY DEF CeilDiv
<1>2. q # 0
  BY <1>1
<1>3. (q - 1) * m = q * m - m
  BY <1>1
<1> QED
  BY <1>1, <1>2, <1>3

\* The number of fragments of a write.
FragmentCount(size) == IF size <= Mss THEN 1 ELSE CeilDiv(size, Mss)

\* Where fragments of mss bytes begin, the last of count covering size bytes.
LEMMA FragmentStarts ==
  ASSUME NEW size \in Nat, NEW count, count = FragmentCount(size)
  PROVE  /\ count \in Nat \ {0}
         /\ (1 - 1) * Mss = 0
         /\ size - (count - 1) * Mss <= Mss
         /\ \A i \in 1..count : (i - 1) * Mss \in Nat /\ (i - 1) * Mss <= size
         /\ \A i \in 1..count : i < count =>
              /\ (i + 1 - 1) * Mss = (i - 1) * Mss + Mss
              /\ (i + 1 - 1) * Mss < size
         /\ \A i, j \in 1..count : i <= j => (i - 1) * Mss <= (j - 1) * Mss
<1>1. Mss \in Nat \ {0}
  BY ConstantTypes
<1>2. CASE size <= Mss
  <2>1. count = 1 /\ 0 * Mss = 0
    BY <1>1, <1>2 DEF FragmentCount
  <2>2. \A i \in 1..count : i = 1
    BY <2>1
  <2> QED
    BY <1>1, <1>2, <2>1, <2>2
<1>3. CASE ~(size <= Mss)
  <2>1. size \in Nat \ {0} /\ count = CeilDiv(size, Mss)
    BY <1>1, <1>3 DEF FragmentCount
  <2>2. count \in Nat \ {0} /\ size - (count - 1) * Mss <= Mss
    BY <1>1, <2>1, PiecesReach
  <2>3. \A i \in 1..count : (i - 1) * Mss \in Nat /\ (i - 1) * Mss < size
    BY <1>1, <2>1, LastPiece
  <2>4. ASSUME NEW i \in 1..count, i < count
        PROVE  /\ (i + 1 - 1) * Mss = (i - 1) * Mss + Mss
               /\ (i + 1 - 1) * Mss < size
    <3>1. i + 1 \in 1..count
      BY <2>2, <2>4
    <3>2. (i + 1 - 1) * Mss < size
      BY <2>3, <3>1
    <3>3. (i + 1 - 1) * Mss = (i - 1) * Mss + Mss
      BY <1>1, <2>2
    <3> QED
      BY <3>2, <3>3
  <2>5. ASSUME NEW i \in 1..count, NEW j \in 1..count, i <= j
        PROVE  (i - 1) * Mss <= (j - 1) * Mss
    <3>1. j - i \in Nat /\ (j - 1) * Mss = (i - 1) * Mss + (j - i) * Mss
      BY <1>1, <2>2, <2>5
    <3>2. (j - i) * Mss \in Nat
      BY <1>1, <3>1
    <3> QED
      BY <2>3, <3>1, <3>2
  <2>6. (1 - 1) * Mss = 0
    BY <1>1
  <2>7. \A i \in 1..count : (i - 1) * Mss \in Nat /\ (i - 1) * Mss <= size
    BY <2>3
  <2> QED
    BY <2>2, <2>4, <2>5, <2>6, <2>7
<1> QED
  BY <1>2, <1>3

\* s is one message, which ends at to.
OneMessage(s, to) == MessageEnds(s) = {to}

\* send cuts a write into a message.
LEMMA FragmentsCover ==
  ASSUME NEW e, NEW base \in Nat, NEW size \in Nat, NEW count,
         count = FragmentCount(size), count < KCP_WND_RCV
  PROVE  /\ Fragments(e, base, size, count) \in Seq(Data)
         /\ Covers(Fragments(e, base, size, count), base, base + size)
         /\ Fragmented(e, Fragments(e, base, size, count))
         /\ e \notin StreamMode =>
              OneMessage(Fragments(e, base, size, count), base + size)
<1> DEFINE F     == Fragments(e, base, size, count)
           at(i) == (i - 1) * Mss
<1>1. /\ count \in Nat \ {0} /\ Mss \in Nat \ {0}
      /\ at(1) = 0 /\ size - at(count) <= Mss
      /\ \A i \in 1..count : at(i) \in Nat /\ at(i) <= size
      /\ \A i \in 1..count : i < count =>
           at(i + 1) = at(i) + Mss /\ at(i + 1) < size
      /\ \A i, j \in 1..count : i <= j => at(i) <= at(j)
  BY FragmentStarts, ConstantTypes
<1>2. /\ F \in Seq(Data) /\ Len(F) = count
      /\ \A i \in 1..count : /\ F[i].off = base + at(i)
                             /\ F[i].len = MinOf(Mss, size - at(i))
                             /\ F[i].frg = IF e \in StreamMode THEN 0
                                           ELSE count - i
  <2>1. F \in Seq(Data)
    BY <1>1, FragmentsAreData DEF FragmentCount
  <2>2. F = [i \in 1..count |->
               [off |-> base + at(i), len |-> MinOf(Mss, size - at(i)),
                frg |-> IF e \in StreamMode THEN 0 ELSE count - i]]
    BY DEF Fragments
  <2>3. Len(F) = count
    BY <1>1, <2>1, <2>2, LenProperties
  <2> HIDE DEF F, at
  <2> QED
    BY <2>1, <2>2, <2>3
<1> HIDE DEF F, at
<1>3. ASSUME NEW i \in 1..count
      PROVE  /\ F[i].len <= Mss
             /\ F[i].off + F[i].len = IF i < count THEN base + at(i + 1)
                                      ELSE base + size
  <2>1. CASE i < count
    <3>1. F[i].len = Mss
      BY <1>1, <1>2, <2>1 DEF MinOf
    <3> QED
      BY <1>1, <1>2, <2>1, <3>1
  <2>2. CASE ~(i < count)
    <3>1. i = count
      BY <1>1, <2>2
    <3>2. F[i].len = size - at(count)
      BY <1>1, <1>2, <3>1 DEF MinOf
    <3> QED
      BY <1>1, <1>2, <3>1, <3>2
  <2> QED
    BY <2>1, <2>2
<1>4. ASSUME NEW i \in 0..count
      PROVE  EndAt(F, base, i) = IF i < count THEN base + at(i + 1)
                                 ELSE base + size
  <2>1. CASE i = 0
    BY <1>1, <2>1 DEF EndAt
  <2>2. CASE i # 0
    <3>1. i \in 1..count
      BY <1>1, <2>2
    <3> QED
      BY <1>3, <2>2, <3>1 DEF EndAt
  <2> QED
    BY <2>1, <2>2
<1>5. EndAt(F, base, count) = base + size
  BY <1>1, <1>4
<1>6. ASSUME NEW i \in 1..count
      PROVE  F[i].off = EndAt(F, base, i - 1) /\ F[i].len <= Mss
  <2>1. i - 1 \in 0..count /\ i - 1 < count /\ (i - 1) + 1 = i
    BY <1>1
  <2>2. EndAt(F, base, i - 1) = base + at(i)
    BY <1>4, <2>1
  <2> QED
    BY <1>2, <1>3, <2>2
<1>7. ASSUME NEW i \in 0..count, NEW j \in 0..count, i <= j
      PROVE  EndAt(F, base, i) <= EndAt(F, base, j)
  <2>1. CASE j < count
    <3>1. /\ i + 1 \in 1..count /\ j + 1 \in 1..count
          /\ i + 1 <= j + 1 /\ i < count
      BY <1>1, <1>7, <2>1
    <3>2. at(i + 1) <= at(j + 1) /\ at(i + 1) \in Nat /\ at(j + 1) \in Nat
      BY <1>1, <3>1
    <3>3. /\ EndAt(F, base, i) = base + at(i + 1)
          /\ EndAt(F, base, j) = base + at(j + 1)
      BY <1>4, <2>1, <3>1
    <3> QED
      BY <3>2, <3>3
  <2>2. CASE ~(j < count) /\ i < count
    <3>1. i + 1 \in 1..count
      BY <1>1, <2>2
    <3>2. at(i + 1) <= size /\ at(i + 1) \in Nat
      BY <1>1, <3>1
    <3>3. /\ EndAt(F, base, i) = base + at(i + 1)
          /\ EndAt(F, base, j) = base + size
      BY <1>4, <2>2
    <3> QED
      BY <3>2, <3>3
  <2>3. CASE ~(j < count) /\ ~(i < count)
    BY <1>1, <1>4, <2>3
  <2> QED
    BY <1>1, <1>7, <2>1, <2>2, <2>3
<1>8. Covers(F, base, base + size)
  BY <1>2, <1>5, <1>6, <1>7 DEF Covers
<1>9. Fragmented(e, F)
  <2> SUFFICES ASSUME NEW i \in 1..count
               PROVE  /\ F[i].frg < KCP_WND_RCV
                      /\ e \in StreamMode => F[i].frg = 0
                      /\ i + F[i].frg <= count
                      /\ \A k \in 0..F[i].frg : F[i + k].frg = F[i].frg - k
    BY <1>2 DEF Fragmented
  <2>1. CASE e \in StreamMode
    <3>1. F[i].frg = 0
      BY <1>2, <2>1
    <3>2. \A k \in 0..0 : k = 0 /\ i + k = i
      OBVIOUS
    <3> QED
      BY <1>1, <3>1, <3>2, ConstantTypes
  <2>2. CASE e \notin StreamMode
    <3>1. F[i].frg = count - i /\ count - i \in Nat
      BY <1>1, <1>2, <2>2
    <3>2. ASSUME NEW k \in 0..(count - i)
          PROVE  F[i + k].frg = count - i - k
      <4>1. i + k \in 1..count
        BY <1>1
      <4>2. F[i + k].frg = count - (i + k)
        BY <1>2, <2>2, <4>1
      <4> QED
        BY <1>1, <4>2
    <3>3. count - i < KCP_WND_RCV
      BY <1>1, ConstantTypes
    <3>4. i + (count - i) <= count
      BY <1>1
    <3> QED
      BY <2>2, <3>1, <3>2, <3>3, <3>4
  <2> QED
    BY <2>1, <2>2
<1>10. ASSUME e \notin StreamMode
       PROVE  OneMessage(F, base + size)
  <2>1. \A i \in 1..count : F[i].frg = 0 <=> i = count
    BY <1>1, <1>2, <1>10
  <2>2. F[count].off + F[count].len = base + size /\ count \in 1..count
    BY <1>1, <1>3
  <2> QED
    BY <1>2, <2>1, <2>2 DEF MessageEnds, OneMessage
<1> QED
  BY <1>2, <1>8, <1>9, <1>10 DEF F

\* A write that fills the last data segment.
LEMMA LastFilled ==
  ASSUME NEW e, NEW s \in Seq(Data), NEW t \in Seq(Data), NEW n \in Nat \ {0},
         NEW x \in Nat, NEW from \in Nat, NEW to \in Nat,
         Len(s) = n, Len(t) = n,
         \A i \in 1..(n - 1) : t[i] = s[i],
         t[n] = [s[n] EXCEPT !.len = @ + x], s[n].len + x <= Mss,
         Covers(s, from, to), Fragmented(e, s)
  PROVE  Covers(t, from, to + x) /\ Fragmented(e, t)
<1>1. /\ \A i \in 1..n : s[i] \in Data /\ s[i].off \in Nat
                         /\ s[i].len \in Nat /\ s[i].frg \in Nat
      /\ n \in 1..n
  BY DataNumbers
<1>2. t[n].off = s[n].off /\ t[n].len = s[n].len + x /\ t[n].frg = s[n].frg
  BY <1>1 DEF Data
<1>3. \A i \in 1..n : i # n => i \in 1..(n - 1)
  OBVIOUS
<1>4. \A i \in 1..n : t[i].off = s[i].off /\ t[i].frg = s[i].frg
  BY <1>2, <1>3
<1>5. \A i \in 0..(n - 1) : EndAt(t, from, i) = EndAt(s, from, i)
  BY DEF EndAt
<1>6. \A i \in 0..n : EndAt(s, from, i) \in Nat
  BY DataNumbers
<1>7. EndAt(t, from, n) = EndAt(s, from, n) + x
  BY <1>1, <1>2 DEF EndAt
<1>8. EndAt(t, from, n) = to + x
  BY <1>7 DEF Covers
<1>9. ASSUME NEW i \in 1..n
      PROVE  t[i].off = EndAt(t, from, i - 1) /\ t[i].len <= Mss
  <2>1. s[i].off = EndAt(s, from, i - 1) /\ s[i].len <= Mss
    BY DEF Covers
  <2>2. i - 1 \in 0..(n - 1)
    OBVIOUS
  <2>3. t[i].len <= Mss
    BY <1>2, <1>3, <2>1
  <2> QED
    BY <1>4, <1>5, <2>1, <2>2, <2>3
<1>10. ASSUME NEW i \in 0..n, NEW j \in 0..n, i <= j
       PROVE  EndAt(t, from, i) <= EndAt(t, from, j)
  <2>1. EndAt(s, from, i) <= EndAt(s, from, j)
    BY <1>10 DEF Covers
  <2>2. EndAt(s, from, i) \in Nat /\ EndAt(s, from, j) \in Nat
    BY <1>6
  <2>3. CASE j = n
    <3>1. CASE i = n
      BY <1>7, <2>2, <2>3, <3>1
    <3>2. CASE i # n
      <4>1. i \in 0..(n - 1)
        BY <3>2
      <4> QED
        BY <1>5, <1>7, <2>1, <2>2, <2>3, <4>1
    <3> QED
      BY <3>1, <3>2
  <2>4. CASE j # n
    <3>1. i \in 0..(n - 1) /\ j \in 0..(n - 1)
      BY <1>10, <2>4
    <3> QED
      BY <1>5, <2>1, <3>1
  <2> QED
    BY <2>3, <2>4
<1>11. Covers(t, from, to + x)
  BY <1>8, <1>9, <1>10 DEF Covers
<1>12. ASSUME NEW i \in 1..n
       PROVE  /\ t[i].frg < KCP_WND_RCV
              /\ e \in StreamMode => t[i].frg = 0
              /\ i + t[i].frg <= n
              /\ \A k \in 0..t[i].frg : t[i + k].frg = t[i].frg - k
  <2>1. /\ s[i].frg < KCP_WND_RCV
        /\ e \in StreamMode => s[i].frg = 0
        /\ i + s[i].frg <= n /\ s[i].frg \in Nat
        /\ \A k \in 0..s[i].frg : s[i + k].frg = s[i].frg - k
    BY <1>1 DEF Fragmented
  <2>2. \A k \in 0..s[i].frg : i + k \in 1..n
    BY <2>1
  <2>3. t[i].frg = s[i].frg
    BY <1>4
  <2>4. \A k \in 0..s[i].frg : t[i + k].frg = s[i].frg - k
    BY <1>4, <2>1, <2>2
  <2> QED
    BY <2>1, <2>3, <2>4
<1>13. Fragmented(e, t)
  BY <1>12 DEF Fragmented
<1> QED
  BY <1>11, <1>13

\* kept is q with x bytes more in its last segment.
FilledLast(q, x, kept) ==
  /\ q # <<>> /\ q[Len(q)].len + x <= Mss
  /\ kept = [q EXCEPT ![Len(q)].len = @ + x]

\* The same for the queue behind what was numbered.
LEMMA QueueFilled ==
  ASSUME NEW e, NEW l \in Seq(Data), NEW q \in Seq(Data), NEW x \in Nat,
         NEW kept \in Seq(Data), FilledLast(q, x, kept),
         NEW to \in Nat, Covers(l \o q, 0, to), Fragmented(e, l \o q)
  PROVE  Covers(l \o kept, 0, to + x) /\ Fragmented(e, l \o kept)
<1> DEFINE a == Len(l)
           b == Len(q)
           s == l \o q
           t == l \o kept
<1>1. b \in Nat \ {0} /\ b \in 1..b
  BY EmptyLength, LenProperties DEF FilledLast
<1>2. /\ Len(kept) = b
      /\ \A i \in 1..(b - 1) : kept[i] = q[i]
      /\ kept[b] = [q[b] EXCEPT !.len = @ + x]
  <2>1. DOMAIN q = 1..b /\ DOMAIN kept = 1..Len(kept)
    BY LenProperties
  <2>2. DOMAIN kept = 1..b
    BY <2>1 DEF FilledLast
  <2>3. Len(kept) = b
    <3>1. Len(kept) \in Nat
      BY LenProperties
    <3>2. b \in 1..Len(kept)
      BY <1>1, <2>1, <2>2
    <3>3. Len(kept) \in 1..b
      BY <1>1, <2>1, <2>2, <3>1, <3>2
    <3> QED
      BY <1>1, <3>1, <3>2, <3>3
  <2>4. \A i \in 1..b : kept[i] = IF i = b THEN [q[b] EXCEPT !.len = @ + x]
                                  ELSE q[i]
    BY <1>1, <2>1 DEF FilledLast
  <2> QED
    BY <1>1, <2>3, <2>4
<1>3. /\ s \in Seq(Data) /\ a \in Nat /\ Len(s) = a + b
      /\ \A i \in 1..a : s[i] = l[i]
      /\ \A i \in 1..b : s[a + i] = q[i]
  BY ConcatElements
<1>4. /\ t \in Seq(Data) /\ Len(t) = a + b
      /\ \A i \in 1..a : t[i] = l[i]
      /\ \A i \in 1..b : t[a + i] = kept[i]
  <2>1. /\ t \in Seq(Data) /\ Len(t) = a + Len(kept)
        /\ \A i \in 1..a : t[i] = l[i]
        /\ \A i \in 1..Len(kept) : t[a + i] = kept[i]
    BY ConcatElements
  <2> QED
    BY <1>2, <2>1
<1> DEFINE n == a + b
<1>5. n \in Nat \ {0}
  BY <1>1, <1>3
<1> HIDE DEF s, t
<1>6. ASSUME NEW i \in 1..(n - 1)
      PROVE  t[i] = s[i]
  <2>1. CASE i <= a
    <3>1. i \in 1..a
      BY <2>1
    <3> QED
      BY <1>3, <1>4, <3>1
  <2>2. CASE ~(i <= a)
    <3>1. i - a \in 1..(b - 1) /\ i - a \in 1..b /\ a + (i - a) = i
      BY <1>1, <1>3, <2>2
    <3> QED
      BY <1>2, <1>3, <1>4, <3>1
  <2> QED
    BY <2>1, <2>2
<1>7. s[n] = q[b] /\ t[n] = [q[b] EXCEPT !.len = @ + x]
  BY <1>1, <1>2, <1>3, <1>4
<1>8. t[n] = [s[n] EXCEPT !.len = @ + x] /\ s[n].len + x <= Mss
  BY <1>7 DEF FilledLast
<1>9. Len(s) = n /\ Len(t) = n /\ s \in Seq(Data) /\ t \in Seq(Data)
  BY <1>3, <1>4
<1>10. Covers(s, 0, to) /\ Fragmented(e, s)
  BY DEF s
<1> HIDE DEF n
<1>11. 0 \in Nat
  OBVIOUS
<1>12. Covers(t, 0, to + x) /\ Fragmented(e, t)
  BY <1>5, <1>6, <1>8, <1>9, <1>10, <1>11, LastFilled
<1> QED
  BY <1>12 DEF t

\* A step of e, which leaves the data of the other end alone.
LEMMA CutStep ==
  ASSUME SenderInv, AppInv, CutInv, NEW e \in Endpoint, UNCHANGED log,
         NEW q, NEW w, NEW en,
         snd_queue' = [snd_queue EXCEPT ![e] = q],
         wrote' = [wrote EXCEPT ![e] = w],
         ends' = [ends EXCEPT ![e] = en],
         Covers(log[e] \o q, 0, w), Fragmented(e, log[e] \o q),
         e \notin StreamMode => en = MessageEnds(log[e] \o q)
  PROVE  CutInv'
<1>1. snd_queue'[e] = q /\ wrote'[e] = w /\ ends'[e] = en
  BY DEF SenderInv, AppInv
<1>2. \A d \in Endpoint \ {e} : /\ snd_queue'[d] = snd_queue[d]
                                /\ wrote'[d] = wrote[d] /\ ends'[d] = ends[d]
  BY DEF SenderInv, AppInv
<1>3. ASSUME NEW d \in Endpoint
      PROVE  /\ Covers(log[d] \o snd_queue'[d], 0, wrote'[d])
             /\ Fragmented(d, log[d] \o snd_queue'[d])
             /\ d \notin StreamMode =>
                  ends'[d] = MessageEnds(log[d] \o snd_queue'[d])
  <2>1. CASE d = e
    BY <1>1, <2>1
  <2>2. CASE d # e
    BY <1>2, <2>2 DEF CutInv, Cut
  <2> QED
    BY <2>1, <2>2
<1> QED
  BY <1>3 DEF CutInv, Cut

\* What fits into a segment.
LEMMA RoomLeft ==
  ASSUME NEW n \in Nat, NEW len \in Nat, len <= Mss, NEW x,
         x = MinOf(n, Mss - len)
  PROVE  x \in Nat /\ n - x \in Nat /\ len + x <= Mss
  BY ConstantTypes DEF MinOf

\* A write fills the last queued segment by x bytes, in stream mode,
Filled(e, x, kept) ==
  \/ x = 0 /\ kept = snd_queue[e]
  \/ e \in StreamMode /\ FilledLast(snd_queue[e], x, kept)

\* it leaves q in the queue, w bytes accepted and messages that end at en,
Queued(e, q, w, en) ==
  /\ snd_queue' = [snd_queue EXCEPT ![e] = q]
  /\ wrote' = [wrote EXCEPT ![e] = w]
  /\ ends' = [ends EXCEPT ![e] = en]

\* and it is refused, done, or cut into fragments.
LEMMA SendEffect ==
  ASSUME GenuineInv, NEW e \in Endpoint, NEW n \in WriteSizes, Send(e, n)
  PROVE  \E x, rest \in Nat : \E kept \in Seq(Data) :
           /\ n = x + rest /\ Filled(e, x, kept)
           /\ \/ Queued(e, kept, wrote[e] + x, ends[e])
              \/ /\ e \in StreamMode /\ rest = 0
                 /\ Queued(e, kept, wrote[e] + n, ends[e] \cup {wrote[e] + n})
              \/ \E count \in Nat :
                   /\ count = FragmentCount(rest) /\ count < KCP_WND_RCV
                   /\ Queued(e, kept \o Fragments(e, wrote[e] + x, rest, count),
                             wrote[e] + n, ends[e] \cup {wrote[e] + n})
<1> DEFINE q      == snd_queue[e]
           w      == wrote[e]
           merge  == e \in StreamMode /\ q # <<>>
           extend == IF merge THEN MinOf(n, Mss - q[Len(q)].len) ELSE 0
           kept   == IF merge THEN [q EXCEPT ![Len(q)].len = @ + extend] ELSE q
           rest   == n - extend
           count  == IF rest <= Mss THEN 1 ELSE CeilDiv(rest, Mss)
           more   == Fragments(e, w + extend, rest, count)
           done   == merge /\ rest = 0
           tooBig == ~done /\ count >= KCP_WND_RCV
<1>1. /\ n \in Nat /\ q \in Seq(Data) /\ w \in Nat
      /\ \A i \in 1..Len(q) : q[i].len <= Mss
  BY KcpAssumption DEF GenuineInv, KcpAssumption, SenderInv, AppInv
<1>2. extend \in Nat /\ rest \in Nat /\ kept \in Seq(Data)
      /\ Filled(e, extend, kept)
  <2>1. CASE merge
    <3>1. Len(q) \in 1..Len(q)
      BY <1>1, <2>1, EmptySeq, LenProperties
    <3>2. q[Len(q)] \in Data /\ q[Len(q)].len <= Mss
      BY <1>1, <3>1, ElementOfSeq
    <3>3. extend = MinOf(n, Mss - q[Len(q)].len)
      BY <2>1
    <3>4. kept = [q EXCEPT ![Len(q)].len = @ + extend]
      BY <2>1
    <3> HIDE DEF extend, kept
    <3>5. q[Len(q)].len \in Nat
      BY <3>2 DEF Data
    <3>6. /\ extend \in Nat /\ n - extend \in Nat
          /\ q[Len(q)].len + extend <= Mss
      BY <1>1, <3>2, <3>3, <3>5, RoomLeft
    <3>7. Filled(e, extend, kept)
      BY <2>1, <3>4, <3>6 DEF Filled, FilledLast
    <3> HIDE DEF q
    <3>8. kept \in Seq(Data)
      BY <1>1, <2>1, <3>3, <3>4, <3>6, FilledQueue
    <3> QED
      BY <3>6, <3>7, <3>8
  <2>2. CASE ~merge
    <3>1. extend = 0 /\ kept = q
      BY <2>2
    <3> HIDE DEF extend, kept
    <3> QED
      BY <1>1, <3>1 DEF Filled
  <2> QED
    BY <2>1, <2>2
<1>3. Queued(e, IF done \/ tooBig THEN kept ELSE kept \o more,
             w + (IF tooBig THEN extend ELSE n),
             ends[e] \cup (IF tooBig THEN {} ELSE {w + n}))
  BY DEF Send, Queued, GenuineInv, AppInv
<1>4. count \in Nat
  <2>1. count = FragmentCount(rest)
    BY DEF FragmentCount
  <2> HIDE DEF rest, count
  <2> QED
    BY <1>2, <2>1, FragmentStarts
<1>5. done => e \in StreamMode /\ rest = 0
  OBVIOUS
<1>6. n = extend + rest
  <2> HIDE DEF extend
  <2> QED
    BY <1>1, <1>2
<1>7. count = FragmentCount(rest)
  BY DEF FragmentCount
<1>8. ~done /\ ~tooBig => count < KCP_WND_RCV
  <2>1. ~done /\ ~tooBig => ~(count >= KCP_WND_RCV)
    OBVIOUS
  <2> HIDE DEF count, done, tooBig
  <2> QED
    BY <1>4, <2>1, ConstantTypes
<1>9. done => ~tooBig
  OBVIOUS
<1>10. more = Fragments(e, w + extend, rest, count)
  OBVIOUS
<1> HIDE DEF extend, kept, rest, count, more, done, tooBig
<1>11. CASE tooBig
  <2>1. Queued(e, kept, w + extend, ends[e])
    BY <1>3, <1>11
  <2> QED
    BY <1>2, <1>6, <2>1
<1>12. CASE done
  <2>1. Queued(e, kept, w + n, ends[e] \cup {w + n})
    BY <1>3, <1>9, <1>12
  <2> QED
    BY <1>2, <1>5, <1>6, <1>12, <2>1
<1>13. CASE ~done /\ ~tooBig
  <2>1. Queued(e, kept \o more, w + n, ends[e] \cup {w + n})
    BY <1>3, <1>13
  <2> QED
    BY <1>2, <1>4, <1>6, <1>7, <1>8, <1>10, <1>13, <2>1
<1> QED
  BY <1>11, <1>12, <1>13

\* Filling the last segment keeps what was written covered.
LEMMA FilledCuts ==
  ASSUME SenderInv, AppInv, CutInv, NEW e \in Endpoint, NEW x \in Nat,
         NEW kept \in Seq(Data), Filled(e, x, kept)
  PROVE  /\ Covers(log[e] \o kept, 0, wrote[e] + x)
         /\ Fragmented(e, log[e] \o kept)
         /\ e \notin StreamMode =>
              /\ x = 0
              /\ ends[e] = MessageEnds(log[e] \o kept)
<1> DEFINE q == snd_queue[e]
           l == log[e]
           w == wrote[e]
<1>1. /\ q \in Seq(Data) /\ l \in Seq(Data) /\ w \in Nat
      /\ Covers(l \o q, 0, w) /\ Fragmented(e, l \o q)
      /\ e \notin StreamMode => ends[e] = MessageEnds(l \o q)
  BY DEF SenderInv, AppInv, CutInv, Cut
<1>2. CASE x = 0 /\ kept = q
  <2>1. w + x = w
    BY <1>1, <1>2
  <2> QED
    BY <1>1, <1>2, <2>1
<1>3. CASE e \in StreamMode /\ FilledLast(q, x, kept)
  <2> HIDE DEF q, l, w
  <2>1. Covers(l \o kept, 0, w + x) /\ Fragmented(e, l \o kept)
    BY <1>1, <1>3, QueueFilled
  <2> QED
    BY <1>3, <2>1 DEF l, w
<1> QED
  BY <1>2, <1>3 DEF Filled

\* send keeps what was written covered,
LEMMA SendCuts ==
  ASSUME GenuineInv, CutInv, NEW e \in Endpoint, NEW n \in WriteSizes,
         Send(e, n)
  PROVE  CutInv'
<1> DEFINE l == log[e]
           w == wrote[e]
<1>1. PICK x \in Nat, rest \in Nat, kept \in Seq(Data) :
        /\ n = x + rest /\ Filled(e, x, kept)
        /\ \/ Queued(e, kept, w + x, ends[e])
           \/ /\ e \in StreamMode /\ rest = 0
              /\ Queued(e, kept, w + n, ends[e] \cup {w + n})
           \/ \E count \in Nat :
                /\ count = FragmentCount(rest) /\ count < KCP_WND_RCV
                /\ Queued(e, kept \o Fragments(e, w + x, rest, count),
                          w + n, ends[e] \cup {w + n})
  BY SendEffect
<1>2. SenderInv /\ AppInv /\ UNCHANGED log
  BY DEF GenuineInv, Send
<1>3. /\ Covers(l \o kept, 0, w + x) /\ Fragmented(e, l \o kept)
      /\ e \notin StreamMode => x = 0 /\ ends[e] = MessageEnds(l \o kept)
  BY <1>1, <1>2, FilledCuts
<1>4. l \in Seq(Data) /\ w \in Nat
  BY <1>2 DEF SenderInv, AppInv
<1> HIDE DEF w
<1>5. CASE Queued(e, kept, w + x, ends[e])
  BY <1>2, <1>3, <1>5, CutStep DEF Queued
<1>6. CASE /\ e \in StreamMode /\ rest = 0
           /\ Queued(e, kept, w + n, ends[e] \cup {w + n})
  <2>1. w + n = w + x
    BY <1>1, <1>4, <1>6
  <2> QED
    BY <1>2, <1>3, <1>6, <2>1, CutStep DEF Queued
<1>7. ASSUME NEW count \in Nat,
             count = FragmentCount(rest), count < KCP_WND_RCV,
             Queued(e, kept \o Fragments(e, w + x, rest, count),
                    w + n, ends[e] \cup {w + n})
      PROVE  CutInv'
  <2> DEFINE more == Fragments(e, w + x, rest, count)
             new  == kept \o more
             s    == l \o kept
             mid  == w + x
             to   == w + n
             en   == ends[e] \cup {to}
  <2>1. mid \in Nat /\ to \in Nat /\ mid + rest = to /\ 0 \in Nat
    BY <1>1, <1>4
  <2>2. Queued(e, new, to, en) /\ more = Fragments(e, mid, rest, count)
    BY <1>7
  <2>3. /\ Covers(s, 0, mid) /\ Fragmented(e, s)
        /\ e \notin StreamMode => ends[e] = MessageEnds(s)
    BY <1>3
  <2> HIDE DEF mid, to, more
  <2>4. /\ more \in Seq(Data) /\ Covers(more, mid, mid + rest)
        /\ Fragmented(e, more)
        /\ e \notin StreamMode => OneMessage(more, mid + rest)
    BY <1>1, <1>7, <2>1, <2>2, FragmentsCover
  <2>5. s \in Seq(Data) /\ s \o more = l \o new
    <3>1. Joined(Joined(l, kept), more) = Joined(l, Joined(kept, more))
      BY <1>4, <2>4, JoinedAssociative
    <3> QED
      BY <1>4, <3>1, ConcatProperties DEF Joined
  <2>6. /\ Covers(more, mid, to)
        /\ e \notin StreamMode => MessageEnds(more) = {to}
    BY <2>1, <2>4 DEF OneMessage
  <2> HIDE DEF new, s
  <2>7. s \in Seq(Data) /\ more \in Seq(Data)
    BY <2>4, <2>5
  <2>8. Covers(s \o more, 0, to)
    BY <2>1, <2>3, <2>6, <2>7, CoversJoined
  <2>9. /\ Fragmented(e, s \o more)
        /\ MessageEnds(s \o more) = MessageEnds(s) \cup MessageEnds(more)
    BY <2>3, <2>4, <2>7, FragmentedJoined
  <2>10. e \notin StreamMode => en = MessageEnds(l \o new)
    BY <2>3, <2>5, <2>6, <2>9
  <2>11. Covers(l \o new, 0, to) /\ Fragmented(e, l \o new)
    BY <2>5, <2>8, <2>9
  <2> HIDE DEF en
  <2> QED
    BY <1>2, <2>2, <2>10, <2>11, CutStep DEF Queued
<1> QED
  BY <1>1, <1>5, <1>6, <1>7

\* a flush moves the front of snd_queue behind what is numbered,
LEMMA FlushCuts ==
  ASSUME SenderInv, CutInv, NEW e \in Endpoint, SomeFlush(e)
  PROVE  CutInv'
<1>1. UNCHANGED <<wrote, ends>>
  BY FlushSender
<1>2. CASE UNCHANGED <<snd_queue, log>>
  BY <1>1, <1>2 DEF CutInv, Cut
<1>3. ASSUME NEW n \in 0..Len(snd_queue[e]), NEW late, NEW places,
             NumbersFront(e, n, late, places)
      PROVE  CutInv'
  <2> DEFINE q     == snd_queue[e]
             l     == log[e]
             front == SubSeq(q, 1, n)
             rest  == SubSeq(q, n + 1, Len(q))
  <2>1. l \in Seq(Data) /\ q \in Seq(Data)
    BY DEF SenderInv
  <2>2. /\ front \in Seq(Data) /\ rest \in Seq(Data)
        /\ Joined(front, rest) = q
    BY <2>1, DropFront, Split DEF Joined
  <2>3. snd_queue'[e] = rest /\ log'[e] = Joined(l, front)
    BY <1>3 DEF NumbersFront, SenderInv, Joined
  <2>4. \A d \in Endpoint \ {e} : snd_queue'[d] = snd_queue[d]
                                  /\ log'[d] = log[d]
    BY <1>3 DEF NumbersFront, SenderInv
  <2> HIDE DEF l, q, front, rest
  <2>5. Joined(Joined(l, front), rest) = Joined(l, q)
    BY <2>1, <2>2, JoinedAssociative
  <2>6. \A d \in Endpoint : log'[d] \o snd_queue'[d] = log[d] \o snd_queue[d]
    <3> SUFFICES ASSUME NEW d \in Endpoint
                 PROVE  log'[d] \o snd_queue'[d] = log[d] \o snd_queue[d]
      OBVIOUS
    <3>1. CASE d = e
      BY <2>3, <2>5, <3>1 DEF Joined, l, q
    <3>2. CASE d # e
      BY <2>4, <3>2
    <3> QED
      BY <3>1, <3>2
  <2> QED
    BY <1>1, <2>6 DEF CutInv, Cut
<1> QED
  BY <1>2, <1>3, FlushSender

\* and the other steps leave the sender's data alone.
LEMMA CutNext == GenuineInv /\ CutInv /\ [Next]_vars => CutInv'
<1> SUFFICES ASSUME GenuineInv, CutInv, [Next]_vars
             PROVE  CutInv'
  OBVIOUS
<1>1. CASE UNCHANGED <<snd_queue, log, wrote, ends>>
  BY <1>1 DEF CutInv, Cut
<1>2. ASSUME NEW e \in Endpoint, NEW n \in WriteSizes, Send(e, n)
      PROVE  CutInv'
  BY <1>2, SendCuts
<1>3. ASSUME NEW e \in Endpoint,
             \/ Recv(e) \/ Input(e)
             \/ \E d \in net[e] : Deliver(e, d)
      PROVE  UNCHANGED <<snd_queue, log, wrote, ends>>
  BY <1>3 DEF Recv, Deliver, Input, InputAck, InputPushStored,
              InputPushRefused, InputWindow, FinishSegment, sndVars, appVars
<1>4. ASSUME NEW e \in Endpoint, SomeFlush(e)
      PROVE  CutInv'
  BY <1>4, FlushCuts DEF GenuineInv
<1>5. CASE Settle \/ UNCHANGED vars
  BY <1>1, <1>5 DEF Settle, vars, sndVars, appVars
<1> QED
  BY <1>1, <1>2, <1>3, <1>4, <1>5 DEF Next, Input

\* Nothing has been written in the initial states.
LEMMA CutInit == Init => CutInv
<1> SUFFICES ASSUME Init, NEW e \in Endpoint
             PROVE  /\ Covers(Cut(e), 0, wrote[e])
                    /\ Fragmented(e, Cut(e))
                    /\ e \notin StreamMode => ends[e] = MessageEnds(Cut(e))
  BY DEF CutInv
<1>1. Cut(e) = <<>> /\ Len(<<>>) = 0 /\ wrote[e] = 0 /\ ends[e] = {}
  BY ConcatEmptySeq, EmptySeq DEF Init, Cut
<1>2. \A i \in 1..0 : FALSE
  OBVIOUS
<1>3. Covers(<<>>, 0, 0)
  BY <1>1, <1>2 DEF Covers, EndAt
<1>4. Fragmented(e, <<>>)
  BY <1>1, <1>2 DEF Fragmented
<1>5. MessageEnds(<<>>) = {}
  BY <1>1, <1>2 DEF MessageEnds
<1> QED
  BY <1>1, <1>3, <1>4, <1>5

-----------------------------------------------------------------------------
(* What is read is what was written.                                       *)

\* As far as the data in o have been read: ReadTo, of a sequence.
ReadPosition(o) ==
  LET End(i) == IF i = 0 THEN 0 ELSE o[i].c.off + o[i].c.len
  IN IF \A i \in 1..Len(o) : o[i].c.off = End(i - 1) THEN End(Len(o)) ELSE -1

\* ReadTo is the position in out.
LEMMA ReadToIsPosition ==
  ASSUME NEW e \in Endpoint
  PROVE  ReadTo(e) = ReadPosition(out[e]) /\ ReadTo(e)' = ReadPosition(out'[e])
  BY DEF ReadTo, ReadPosition

\* What reads as a front of covered data has been read to the end of it.
LEMMA PositionIsEnd ==
  ASSUME NEW o, NEW s \in Seq(Data), NEW to, Covers(s, 0, to),
         Len(o) \in Nat, Len(o) <= Len(s), \A i \in 1..Len(o) : o[i].c = s[i]
  PROVE  ReadPosition(o) = EndAt(s, 0, Len(o))
<1> DEFINE End(i) == IF i = 0 THEN 0 ELSE o[i].c.off + o[i].c.len
<1>1. \A i \in 0..Len(o) : End(i) = EndAt(s, 0, i)
  BY DEF EndAt
<1>2. ASSUME NEW i \in 1..Len(o)
      PROVE  o[i].c.off = End(i - 1)
  <2>1. i \in 1..Len(s) /\ i - 1 \in 0..Len(o)
    BY LenProperties
  <2>2. s[i].off = EndAt(s, 0, i - 1)
    BY <2>1 DEF Covers
  <2> HIDE DEF End
  <2> QED
    BY <1>1, <2>1, <2>2
<1>3. Len(o) \in 0..Len(o)
  OBVIOUS
<1>4. End(Len(o)) = EndAt(s, 0, Len(o))
  BY <1>1, <1>3
<1>5. ReadPosition(o) = IF \A i \in 1..Len(o) : o[i].c.off = End(i - 1)
                        THEN End(Len(o)) ELSE -1
  BY DEF ReadPosition
<1> HIDE DEF End
<1> QED
  BY <1>2, <1>4, <1>5

\* What the application of e can read next is cut as the other end wrote it.
LEMMA QueueIsCut ==
  ASSUME SenderInv, ReceiverInv, NEW e \in Endpoint
  PROVE  LET p == Len(out[e])
             q == rcv_queue[e]
             s == Cut(Other(e))
         IN /\ s \in Seq(Data) /\ out[e] \in Seq(Arrived) /\ q \in Seq(Arrived)
            /\ p \in Nat /\ Len(q) \in Nat /\ p + Len(q) <= Len(s)
            /\ \A i \in 1..p : out[e][i].c = s[i]
            /\ \A i \in 1..Len(q) : q[i].c = s[p + i]
<1> DEFINE o   == out[e]
           q   == rcv_queue[e]
           l   == log[Other(e)]
           m   == snd_queue[Other(e)]
           got == o \o q
           s   == l \o m
<1>1. o \in Seq(Arrived) /\ q \in Seq(Arrived)
  BY DEF ReceiverInv
<1>2. l \in Seq(Data) /\ m \in Seq(Data)
  BY OtherEnd DEF SenderInv
<1>3. /\ Len(got) = rcv_nxt[e] /\ rcv_nxt[e] <= Len(l)
      /\ \A i \in 1..Len(got) : got[i] = [sn |-> i - 1, c |-> l[i]]
  BY DEF ReceiverInv, InOrder
<1> HIDE DEF o, q, l, m
<1>4. /\ Len(o) \in Nat /\ Len(q) \in Nat /\ Len(got) = Len(o) + Len(q)
      /\ \A i \in 1..Len(o) : got[i] = o[i]
      /\ \A i \in 1..Len(q) : got[Len(o) + i] = q[i]
  BY <1>1, ConcatElements
<1>5. /\ s \in Seq(Data) /\ Len(l) \in Nat /\ Len(m) \in Nat
      /\ Len(s) = Len(l) + Len(m)
      /\ \A i \in 1..Len(l) : s[i] = l[i]
  BY <1>2, ConcatElements
<1> HIDE DEF got, s
<1>6. Len(o) + Len(q) <= Len(l) /\ Len(o) + Len(q) <= Len(s)
  BY <1>3, <1>4, <1>5
<1>7. ASSUME NEW i \in 1..(Len(o) + Len(q))
      PROVE  got[i].c = s[i]
  <2>1. i \in 1..Len(l) /\ i \in 1..Len(got)
    BY <1>3, <1>4, <1>5, <1>6
  <2>2. got[i] = [sn |-> i - 1, c |-> l[i]]
    BY <1>3, <2>1
  <2>3. got[i].c = l[i]
    BY <2>2
  <2> QED
    BY <1>5, <2>1, <2>3
<1>8. \A i \in 1..Len(o) : o[i].c = s[i]
  <2>1. \A i \in 1..Len(o) : i \in 1..(Len(o) + Len(q))
    BY <1>4
  <2> QED
    BY <1>4, <1>7, <2>1
<1>9. \A i \in 1..Len(q) : q[i].c = s[Len(o) + i]
  <2>1. \A i \in 1..Len(q) : Len(o) + i \in 1..(Len(o) + Len(q))
    BY <1>4
  <2> QED
    BY <1>4, <1>7, <2>1
<1> QED
  BY <1>1, <1>4, <1>5, <1>6, <1>8, <1>9 DEF Cut, o, q, s, l, m

\* A full receive queue has all the fragments of its first message, for these
\* are fewer than the window.
LEMMA FullQueueHolds ==
  ASSUME SenderInv, ReceiverInv, CutInv
  PROVE  FullQueueReadable
<1> SUFFICES ASSUME NEW e \in Endpoint, Len(rcv_queue[e]) >= rcv_wnd
             PROVE  Ready(e)
  BY DEF FullQueueReadable
<1> DEFINE p == Len(out[e])
           q == rcv_queue[e]
           s == Cut(Other(e))
<1>1. /\ s \in Seq(Data) /\ q \in Seq(Arrived)
      /\ p \in Nat /\ Len(q) \in Nat /\ p + Len(q) <= Len(s)
      /\ \A i \in 1..Len(q) : q[i].c = s[p + i]
  BY QueueIsCut
<1>2. Fragmented(Other(e), s)
  BY OtherEnd DEF CutInv
<1>3. rcv_wnd \in Nat \ {0} /\ KCP_WND_RCV \in Nat /\ KCP_WND_RCV <= rcv_wnd
  BY ConstantTypes DEF rcv_wnd, MaxOf
<1>4. q # <<>>
  BY <1>1, <1>3, EmptySeq
<1> HIDE DEF p, s, q
<1>5. 1 \in 1..Len(q) /\ p + 1 \in 1..Len(s)
  BY <1>1, <1>3 DEF q
<1>6. q[1].c.frg = s[p + 1].frg
  BY <1>1, <1>5
<1>7. s[p + 1].frg < KCP_WND_RCV /\ s[p + 1].frg \in Nat
  BY <1>1, <1>2, <1>5, DataNumbers DEF Fragmented
<1>8. Len(q) >= q[1].c.frg + 1
  BY <1>1, <1>3, <1>6, <1>7 DEF q
<1> QED
  BY <1>4, <1>8 DEF Ready, q

\* What the writes are cut into covers them.
LEMMA CutCovers ==
  ASSUME CutInv
  PROVE  WritesCovered
  BY DEF CutInv, Covers, EndAt, Cut, WritesCovered

-----------------------------------------------------------------------------
(* The control blocks implement the stream.                                *)

\* What the merge loop of recv pops is one message, when data are fragmented
\* and all the fragments of the first message are there.
LEMMA MergedIsMessage ==
  ASSUME NEW f, NEW s \in Seq(Data), Fragmented(f, s), NEW to, Covers(s, 0, to),
         NEW p \in Nat, NEW n \in Nat \ {0}, NEW have \in Nat,
         n <= have, p + have <= Len(s), have >= s[p + 1].frg + 1,
         \A i \in 1..(n - 1) : s[p + i].frg # 0,
         s[p + n].frg = 0 \/ n = have
  PROVE  /\ EndAt(s, 0, p + n) \in MessageEnds(s)
         /\ \A r \in MessageEnds(s) :
              r <= EndAt(s, 0, p) \/ r >= EndAt(s, 0, p + n)
<1> DEFINE k == s[p + 1].frg
<1>1. Len(s) \in Nat /\ p + 1 \in 1..Len(s) /\ p + n \in 1..Len(s)
  BY LenProperties
<1>2. k \in Nat
  BY <1>1, DataNumbers
<1>3. \A j \in 0..k : s[p + 1 + j].frg = k - j
  BY <1>1 DEF Fragmented
<1> HIDE DEF k
<1>4. s[p + 1 + k].frg = 0
  <2>1. k \in 0..k
    BY <1>2
  <2> QED
    BY <1>2, <1>3, <2>1
<1>5. ~(k + 1 < n)
  <2> SUFFICES ASSUME k + 1 < n
               PROVE  FALSE
    OBVIOUS
  <2>1. k + 1 \in 1..(n - 1) /\ p + (k + 1) = p + 1 + k
    BY <1>2
  <2> QED
    BY <1>4, <2>1
<1>6. s[p + n].frg = 0
  <2>1. CASE s[p + n].frg = 0
    BY <2>1
  <2>2. CASE n = have
    <3>1. n = k + 1 /\ p + n = p + 1 + k
      BY <1>2, <1>5, <2>2 DEF k
    <3> QED
      BY <1>4, <3>1
  <2> QED
    BY <2>1, <2>2
<1>7. EndAt(s, 0, p + n) = s[p + n].off + s[p + n].len
  BY <1>1 DEF EndAt
<1>8. EndAt(s, 0, p + n) \in MessageEnds(s)
  BY <1>1, <1>6, <1>7 DEF MessageEnds
<1>9. ASSUME NEW r \in MessageEnds(s)
      PROVE  r <= EndAt(s, 0, p) \/ r >= EndAt(s, 0, p + n)
  <2>1. PICK i \in 1..Len(s) : s[i].frg = 0 /\ r = s[i].off + s[i].len
    BY DEF MessageEnds
  <2>2. r = EndAt(s, 0, i)
    BY <2>1 DEF EndAt
  <2>3. i \in 0..Len(s) /\ p \in 0..Len(s) /\ p + n \in 0..Len(s)
    BY <1>1, <2>1
  <2>4. CASE i <= p
    BY <2>2, <2>3, <2>4 DEF Covers
  <2>5. CASE i >= p + n
    <3>1. p + n <= i
      BY <1>1, <2>1, <2>5
    <3>2. EndAt(s, 0, p + n) <= EndAt(s, 0, i)
      BY <2>3, <3>1 DEF Covers
    <3>3. EndAt(s, 0, p + n) \in Nat /\ EndAt(s, 0, i) \in Nat
      BY <2>3, DataNumbers
    <3> QED
      BY <2>2, <3>2, <3>3
  <2>6. CASE ~(i <= p) /\ ~(i >= p + n)
    <3>1. i - p \in 1..(n - 1) /\ p + (i - p) = i
      BY <1>1, <2>1, <2>6
    <3> QED
      BY <2>1, <3>1
  <2> QED
    BY <2>4, <2>5, <2>6
<1> QED
  BY <1>8, <1>9

\* A recv reads on in what the other end wrote, to the end of the next message
\* when the other end writes messages.
LEMMA ReadsOn ==
  ASSUME GenuineInv, CutInv, NEW e \in Endpoint, Recv(e)
  PROVE  /\ \A x \in Endpoint : x # e => ReadTo(x)' = ReadTo(x)
         /\ ReadTo(e)' \in ReadTo(e)..wrote[Other(e)]
         /\ Other(e) \notin StreamMode =>
              Stream!IsNextEnd(Other(e), ReadTo(e), ReadTo(e)')
<1> DEFINE f == Other(e)
           o == out[e]
           q == rcv_queue[e]
           s == Cut(f)
           p == Len(o)
<1>1. PICK n \in 1..Len(q) : /\ Ready(e) /\ Merged(q, n)
                             /\ out' = [out EXCEPT ![e] = @ \o SubSeq(q, 1, n)]
  BY RecvEffect DEF GenuineInv
<1>2. /\ out'[e] = o \o SubSeq(q, 1, n)
      /\ \A x \in Endpoint : x # e => out'[x] = out[x]
  BY <1>1 DEF GenuineInv, ReceiverInv
<1>3. /\ s \in Seq(Data) /\ o \in Seq(Arrived) /\ q \in Seq(Arrived)
      /\ p \in Nat /\ Len(q) \in Nat /\ p + Len(q) <= Len(s)
      /\ \A i \in 1..p : o[i].c = s[i]
      /\ \A i \in 1..Len(q) : q[i].c = s[p + i]
  BY QueueIsCut DEF GenuineInv
<1>4. f \in Endpoint /\ Covers(s, 0, wrote[f]) /\ Fragmented(f, s)
      /\ (f \notin StreamMode => ends[f] = MessageEnds(s))
  BY OtherEnd DEF CutInv
<1>5. Len(q) >= q[1].c.frg + 1
  BY <1>1 DEF Ready
<1>6. /\ \A i \in 1..(n - 1) : q[i].c.frg # 0
      /\ q[n].c.frg = 0 \/ n = Len(q)
  BY <1>1 DEF Merged
<1> DEFINE t == o \o SubSeq(q, 1, n)
<1>7. ReadTo(e) = ReadPosition(o) /\ ReadTo(e)' = ReadPosition(t)
  BY <1>2, ReadToIsPosition
<1>8. \A x \in Endpoint : x # e => ReadTo(x)' = ReadTo(x)
  BY <1>2, ReadToIsPosition
<1> HIDE DEF f, o, q, s
<1>9. n \in 1..Len(q) /\ n \in Nat \ {0}
  BY <1>1, <1>3
<1>10. SubSeq(q, 1, n) \in Seq(Arrived) /\ Len(SubSeq(q, 1, n)) = n
       /\ \A i \in 1..n : SubSeq(q, 1, n)[i] = q[i]
  <2>1. 1 \in Nat \ {0} /\ n \in Int /\ n <= Len(q) /\ (n - 1) + 1 = n
    BY <1>3, <1>9
  <2>2. /\ SubSeq(q, 1, n) \in Seq(Arrived)
        /\ Len(SubSeq(q, 1, n)) = IF 1 <= n THEN n - 1 + 1 ELSE 0
        /\ \A i \in 1..(n - 1 + 1) : SubSeq(q, 1, n)[i] = q[1 + i - 1]
    BY <1>3, <2>1, Piece
  <2> QED
    BY <1>9, <2>2
<1>11. /\ Len(t) = p + n
       /\ \A i \in 1..p : t[i] = o[i]
       /\ \A i \in 1..n : t[p + i] = q[i]
  <2> DEFINE u == SubSeq(q, 1, n)
  <2>1. u \in Seq(Arrived) /\ Len(u) = n /\ \A i \in 1..n : u[i] = q[i]
    BY <1>10
  <2>2. t = o \o u /\ p = Len(o)
    OBVIOUS
  <2> HIDE DEF u, p, t
  <2>3. o \in Seq(Arrived) /\ u \in Seq(Arrived)
    BY <1>3, <2>1
  <2>4. /\ Len(o \o u) = Len(o) + Len(u)
        /\ \A i \in 1..Len(o) : (o \o u)[i] = o[i]
        /\ \A i \in 1..Len(u) : (o \o u)[Len(o) + i] = u[i]
    BY <2>3, ConcatElements
  <2> QED
    BY <2>1, <2>2, <2>4
<1> HIDE DEF t, p
<1>12. ASSUME NEW i \in 1..(p + n)
       PROVE  t[i].c = s[i]
  <2>1. CASE i <= p
    <3>1. i \in 1..p
      BY <1>3, <2>1
    <3> QED
      BY <1>3, <1>11, <3>1
  <2>2. CASE ~(i <= p)
    <3>1. i - p \in 1..n /\ i - p \in 1..Len(q) /\ p + (i - p) = i
      BY <1>3, <1>9, <2>2
    <3>2. t[i] = q[i - p] /\ q[i - p].c = s[i]
      BY <1>3, <1>11, <3>1
    <3> QED
      BY <3>2
  <2> QED
    BY <2>1, <2>2
<1>13. p <= Len(s) /\ p + n \in Nat /\ p + n <= Len(s)
  BY <1>3, <1>9
<1>14. ReadPosition(o) = EndAt(s, 0, p)
  BY <1>3, <1>4, <1>13, PositionIsEnd DEF p
<1>15. ReadPosition(t) = EndAt(s, 0, p + n)
  <2>1. Len(t) \in Nat /\ Len(t) <= Len(s) /\ \A i \in 1..Len(t) : t[i].c = s[i]
    BY <1>11, <1>12, <1>13
  <2>2. ReadPosition(t) = EndAt(s, 0, Len(t))
    BY <1>3, <1>4, <2>1, PositionIsEnd
  <2> QED
    BY <1>11, <2>2
<1>16. EndAt(s, 0, p + n) \in EndAt(s, 0, p)..wrote[f]
  <2>1. /\ p \in 0..Len(s) /\ p + n \in 0..Len(s) /\ Len(s) \in 0..Len(s)
        /\ p <= p + n /\ p + n <= Len(s)
    BY <1>3, <1>9, <1>13, DataNumbers
  <2>2. /\ EndAt(s, 0, p) <= EndAt(s, 0, p + n)
        /\ EndAt(s, 0, p + n) <= EndAt(s, 0, Len(s))
        /\ EndAt(s, 0, Len(s)) = wrote[f]
    BY <1>4, <2>1 DEF Covers
  <2>3. /\ EndAt(s, 0, p) \in Nat /\ EndAt(s, 0, p + n) \in Nat
        /\ EndAt(s, 0, Len(s)) \in Nat
    BY <1>3, <2>1, DataNumbers
  <2> QED
    BY <2>2, <2>3
<1>17. /\ EndAt(s, 0, p + n) \in MessageEnds(s)
       /\ \A r \in MessageEnds(s) :
            r <= EndAt(s, 0, p) \/ r >= EndAt(s, 0, p + n)
  <2>1. 1 \in 1..Len(q) /\ n <= Len(q) /\ \A i \in 1..(n - 1) : i \in 1..Len(q)
    BY <1>3, <1>9
  <2>2. Len(q) >= s[p + 1].frg + 1
    BY <1>3, <1>5, <2>1
  <2>3. \A i \in 1..(n - 1) : s[p + i].frg # 0
    BY <1>3, <1>6, <2>1
  <2>4. s[p + n].frg = 0 \/ n = Len(q)
    BY <1>3, <1>6, <1>9
  <2> QED
    BY <1>3, <1>4, <1>9, <2>1, <2>2, <2>3, <2>4, MergedIsMessage
<1>18. f \notin StreamMode =>
         Stream!IsNextEnd(f, EndAt(s, 0, p), EndAt(s, 0, p + n))
  BY <1>4, <1>17 DEF Stream!IsNextEnd
<1> QED
  BY <1>7, <1>8, <1>14, <1>15, <1>16, <1>18 DEF f

\* The numbers read are those of the stream: nothing but recv changes them.
LEMMA ReadKept ==
  ASSUME UNCHANGED out
  PROVE  \A x \in Endpoint : ReadTo(x)' = ReadTo(x)
  BY DEF ReadTo

\* send is a write of the stream, or changes nothing of it.
LEMMA SendWrites ==
  ASSUME GenuineInv, CutInv, NEW e \in Endpoint, NEW n \in WriteSizes,
         Send(e, n)
  PROVE  Stream!Write(e) \/ UNCHANGED <<wrote, ends>>
<1>1. UNCHANGED [x \in Endpoint |-> ReadTo(x)]
  BY ReadKept DEF Send
<1>2. /\ wrote \in [Endpoint -> Nat] /\ ends \in [Endpoint -> SUBSET Nat]
      /\ n \in Nat
  BY KcpAssumption DEF KcpAssumption, GenuineInv, AppInv
<1>3. PICK x, rest \in Nat : \E kept \in Seq(Data) :
        /\ n = x + rest /\ Filled(e, x, kept)
        /\ \/ Queued(e, kept, wrote[e] + x, ends[e])
           \/ /\ e \in StreamMode /\ rest = 0
              /\ Queued(e, kept, wrote[e] + n, ends[e] \cup {wrote[e] + n})
           \/ \E count \in Nat :
                /\ count = FragmentCount(rest) /\ count < KCP_WND_RCV
                /\ Queued(e, kept \o Fragments(e, wrote[e] + x, rest, count),
                          wrote[e] + n, ends[e] \cup {wrote[e] + n})
  BY SendEffect
<1>4. /\ n = x + rest
      /\ \E kept : Filled(e, x, kept)
      /\ \/ \E queue : Queued(e, queue, wrote[e] + x, ends[e])
         \/ \E queue :
              Queued(e, queue, wrote[e] + n, ends[e] \cup {wrote[e] + n})
  BY <1>3, Zenon
<1>5. PICK w, en :
        /\ \/ w = wrote[e] + x /\ en = ends[e]
           \/ w = wrote[e] + n /\ en = ends[e] \cup {wrote[e] + n}
        /\ \E queue : Queued(e, queue, w, en)
  BY <1>4
<1>6. /\ wrote' = [wrote EXCEPT ![e] = w]
      /\ ends' = [ends EXCEPT ![e] = en]
  BY <1>5 DEF Queued
<1>7. wrote'[e] = w /\ w \in Nat /\ w >= wrote[e]
  BY <1>2, <1>3, <1>5, <1>6
<1>8. CASE w = wrote[e] + n /\ en = ends[e] \cup {wrote[e] + n}
  <2>1. ends' = [ends EXCEPT ![e] = @ \cup {wrote'[e]}]
    BY <1>6, <1>7, <1>8
  <2> QED
    BY <1>1, <1>6, <1>7, <2>1 DEF Stream!Write
<1>9. CASE w = wrote[e] + x /\ en = ends[e]
  <2>1. UNCHANGED ends
    BY <1>2, <1>6, <1>9
  <2>2. CASE e \in StreamMode
    BY <1>1, <1>6, <1>7, <2>1, <2>2 DEF Stream!Write
  <2>3. CASE e \notin StreamMode
    <3>1. x = 0
      BY <1>4, <2>3 DEF Filled
    <3> QED
      BY <1>2, <1>6, <1>9, <2>1, <3>1
  <2> QED
    BY <2>2, <2>3
<1> QED
  BY <1>5, <1>8, <1>9

\* recv is a read of the stream.
LEMMA RecvReads ==
  ASSUME GenuineInv, CutInv, NEW e \in Endpoint, Recv(e)
  PROVE  Stream!Read(e)
<1>1. UNCHANGED <<wrote, ends>>
  BY DEF Recv
<1>2. Stream!Peer(e) = Other(e)
  BY DEF Stream!Peer, Other
<1>3. /\ \A x \in Endpoint : x # e => ReadTo(x)' = ReadTo(x)
      /\ ReadTo(e)' \in ReadTo(e)..wrote[Other(e)]
      /\ Other(e) \notin StreamMode =>
           Stream!IsNextEnd(Other(e), ReadTo(e), ReadTo(e)')
  BY ReadsOn
<1> DEFINE R == [x \in Endpoint |-> ReadTo(x)]
<1>4. R[e] = ReadTo(e) /\ R'[e] = ReadTo(e)'
  OBVIOUS
<1>5. R' = [R EXCEPT ![e] = R'[e]]
  <2> HIDE DEF ReadTo
  <2> QED
    BY <1>3
<1> QED
  BY <1>1, <1>2, <1>3, <1>4, <1>5 DEF Stream!Read

\* Every step of the control blocks is a step of the stream, or none.
LEMMA StreamStep ==
  GenuineInv /\ CutInv /\ [Next]_vars => [Stream!Next]_Stream!abstractVars
<1> SUFFICES ASSUME GenuineInv, CutInv, [Next]_vars
             PROVE  [Stream!Next]_Stream!abstractVars
  OBVIOUS
<1>1. CASE UNCHANGED appVars
  <2>1. UNCHANGED <<wrote, ends, out>>
    BY <1>1 DEF appVars
  <2>2. UNCHANGED [x \in Endpoint |-> ReadTo(x)]
    BY <2>1, ReadKept
  <2> QED
    BY <2>1, <2>2 DEF Stream!abstractVars
<1>2. ASSUME NEW e \in Endpoint, NEW n \in WriteSizes, Send(e, n)
      PROVE  [Stream!Next]_Stream!abstractVars
  <2>1. UNCHANGED [x \in Endpoint |-> ReadTo(x)]
    BY <1>2, ReadKept DEF Send
  <2> QED
    BY <1>2, <2>1, SendWrites DEF Stream!Next, Stream!abstractVars
<1>3. ASSUME NEW e \in Endpoint, Recv(e)
      PROVE  [Stream!Next]_Stream!abstractVars
  BY <1>3, RecvReads DEF Stream!Next
<1>4. ASSUME NEW e \in Endpoint,
             \/ Input(e) \/ SomeFlush(e)
             \/ \E d \in net[e] : Deliver(e, d)
      PROVE  UNCHANGED appVars
  <2>1. CASE Input(e)
    BY <2>1 DEF Input, InputAck, InputPushStored, InputPushRefused,
                InputWindow, FinishSegment
  <2>2. CASE SomeFlush(e)
    BY <2>2 DEF SomeFlush, Flush, FlushUntil
  <2>3. CASE \E d \in net[e] : Deliver(e, d)
    BY <2>3 DEF Deliver
  <2> QED
    BY <1>4, <2>1, <2>2, <2>3
<1>5. CASE Settle \/ UNCHANGED vars
  BY <1>1, <1>5 DEF Settle, vars
<1> QED
  BY <1>1, <1>2, <1>3, <1>4, <1>5 DEF Next, Input

\* The writes cover the bytes written: nothing is lost or repeated between
\* send and the wire, also when a stream write fills the last queued segment.
THEOREM WritesCoveredAlways == Spec => []WritesCovered
  BY CutInit, CutNext, CutCovers, GenuineAlways, PTL DEF Spec

\* The window never closes on a message that has not arrived whole.
THEOREM FullQueueReadableAlways == Spec => []FullQueueReadable
<1>1. GenuineInv /\ CutInv => FullQueueReadable
  BY FullQueueHolds DEF GenuineInv
<1> QED
  BY <1>1, CutInit, CutNext, GenuineAlways, PTL DEF Spec

\* The two control blocks implement a reliable stream: over a network that
\* loses, repeats and reorders datagrams, what is read at one end is what was
\* written at the other, in order and once, in whole messages when stream =
\* false.
THEOREM ImplementsStreamAlways == Spec => ImplementsStream
<1>1. Init => Stream!Init
  <2> SUFFICES ASSUME Init
               PROVE  Stream!Init
    OBVIOUS
  <2>1. \A e \in Endpoint : ReadTo(e) = 0
    <3>1. Len(<<>>) = 0
      BY EmptySeq
    <3> QED
      BY <3>1 DEF ReadTo, Init
  <2> QED
    BY <2>1 DEF Init, Stream!Init
<1> QED
  BY <1>1, CutInit, CutNext, StreamStep, GenuineAlways,
     PTL DEF Spec, ImplementsStream, Stream!Spec
=============================================================================
