-------------------------------- MODULE TcpIn --------------------------------
(***************************************************************************)
(* The receiving half of lwIP's TCP (net/core/tcp_in.c) and the calls of   *)
(* net/core/tcp.c it makes back: closing, aborting and the receive window. *)
(*                                                                         *)
(* The context of TcpOut also carries what tcp_input keeps in globals:     *)
(* c.data (recv_data), c.fin, c.closed and c.reset (recv_flags), c.acked   *)
(* (recv_acked); what the application sees: c.got (bytes its receive       *)
(* callback took), c.eof (the callback for the end of the stream), c.told  *)
(* (its error callback); and c.accept, whether the callback takes data in  *)
(* this call (Tcp_Client_Recv refuses it when malloc fails).               *)
(***************************************************************************)
EXTENDS TcpOut

Context(p, mem, accept) ==
  [p |-> p, out |-> <<>>, mem |-> mem, inp |-> FALSE, err |-> FALSE,
   data |-> <<>>, fin |-> FALSE, closed |-> FALSE, reset |-> FALSE,
   acked |-> 0, got |-> <<>>, eof |-> FALSE, told |-> "", accept |-> accept]

(***************************************************************************)
(* tcp.c: removing a control block.  A freed block is a fresh one.         *)
(***************************************************************************)
tcp_pcb_purge(c) ==
  [c EXCEPT !.p.refused = <<>>, !.p.refused_fin = FALSE, !.p.ooseq = <<>>,
            !.p.unsent = <<>>, !.p.unacked = <<>>, !.p.rtime = FALSE]

MempFree(c) == [c EXCEPT !.p = TcpAlloc]

tcp_pcb_remove(c) ==
  LET d == tcp_pcb_purge(c)
  IN  MempFree(IF d.p.state # "TIME_WAIT" /\ "ACK_DELAY" \in d.p.flags
               THEN tcp_output(SetFlags(d, {"ACK_NOW"})) ELSE d)

TellError(c, what) == [c EXCEPT !.told = what]

tcp_abort(c) ==
  IF c.p.state = "TIME_WAIT" THEN tcp_pcb_remove(c)
  ELSE LET q == c.p
       IN  TellError(tcp_rst(tcp_pcb_remove(c), q.snd_nxt, q.rcv_nxt), "ABRT")

(***************************************************************************)
(* tcp.c: the receive window.                                              *)
(***************************************************************************)
RightEdge(p) == Add(p.rcv_nxt, p.rcv_wnd)

WindowMayGrow(p) ==
  ~SeqLt(RightEdge(p), Add(p.rcv_ann_right_edge, Least(TCP_WND \div 2, MSS)))

\* mutant: nothing is announced until the window may grow
AnnounceNothing(c) ==
  [c EXCEPT !.p.rcv_ann_wnd = IF WindowMayGrow(c.p) THEN c.p.rcv_wnd ELSE 0]

tcp_update_rcv_ann_wnd(c) ==
  [c EXCEPT !.p.rcv_ann_wnd =
     IF WindowMayGrow(c.p) THEN c.p.rcv_wnd
     ELSE IF SeqLt(c.p.rcv_ann_right_edge, c.p.rcv_nxt) THEN 0
     ELSE Diff(c.p.rcv_ann_right_edge, c.p.rcv_nxt)]

WndUpdateThreshold == Least(TCP_WND \div 4, 4 * MSS)

tcp_recved(c, len) ==
  LET sum == AddWnd(c.p.rcv_wnd, len)
      wnd == IF sum > TCP_WND
                \/ (sum = 0 /\ c.p.state \in {"CLOSE_WAIT", "LAST_ACK"})
             THEN TCP_WND ELSE sum
      d == [c EXCEPT !.p.rcv_wnd = wnd]
      inflation == IF WindowMayGrow(d.p)
                   THEN Diff(RightEdge(d.p), d.p.rcv_ann_right_edge) ELSE 0
      e == tcp_update_rcv_ann_wnd(d)
  IN  IF inflation >= WndUpdateThreshold
      THEN tcp_output(SetFlags(e, {"ACK_NOW"})) ELSE e

(***************************************************************************)
(* tcp.c: closing.                                                         *)
(***************************************************************************)
tcp_close_shutdown_fin(c) ==
  IF c.p.state \notin {"SYN_RCVD", "ESTABLISHED", "CLOSE_WAIT"} THEN c
  ELSE LET d == tcp_send_fin(c)
       IN  IF d.err THEN SetFlags(d, {"CLOSEPEND"})
           ELSE tcp_output([d EXCEPT !.p.state =
                              IF @ = "CLOSE_WAIT" THEN "LAST_ACK" ELSE "FIN_WAIT_1"])

UnreadData(p) == p.refused # <<>> \/ p.rcv_wnd # TCP_WND

tcp_close_shutdown(c) ==
  LET p == c.p
  IN  CASE p.state \in {"ESTABLISHED", "CLOSE_WAIT"} /\ UnreadData(p) ->
             LET d == tcp_pcb_purge(tcp_rst(c, p.snd_nxt, p.rcv_nxt))
             IN  IF p.state = "ESTABLISHED"
                 THEN [d EXCEPT !.p.state = "TIME_WAIT"]
                 ELSE IF c.inp THEN [d EXCEPT !.closed = TRUE]
                 ELSE MempFree(d)
        [] p.state = "CLOSED" -> MempFree(c)
        [] p.state = "SYN_SENT" -> tcp_pcb_remove(c)
        [] OTHER -> tcp_close_shutdown_fin(c)

tcp_close(c) == tcp_close_shutdown(SetFlags(c, {"RXCLOSED"}))

(***************************************************************************)
(* The application's callbacks (net/apps/tcp_client.c): it takes data and  *)
(* gives the window back at once, or refuses it; at the end of the stream  *)
(* it closes.  Once it has closed it is no longer called.                  *)
(***************************************************************************)
\* mutant: data the application cannot copy counts as taken
RecvDrops(c, data) ==
  tcp_recved(IF c.accept THEN [c EXCEPT !.got = @ \o data] ELSE c, Len(data))

Tcp_Client_Recv(c, data) ==
  IF c.accept
  THEN tcp_recved([c EXCEPT !.got = @ \o data], Len(data))
  ELSE [c EXCEPT !.p.refused = data]

\* mutant: the sequence number of the FIN is not given back
FinKeepsWindow(c) ==
  IF "RXCLOSED" \in c.p.flags THEN c ELSE tcp_close([c EXCEPT !.eof = TRUE])

EventClosed(c) ==
  LET d == IF c.p.rcv_wnd # TCP_WND THEN [c EXCEPT !.p.rcv_wnd = AddWnd(@, 1)] ELSE c
  IN  IF "RXCLOSED" \in d.p.flags THEN d
      ELSE tcp_close([d EXCEPT !.eof = TRUE])

tcp_process_refused_data(c) ==
  LET p == c.p
      d == Tcp_Client_Recv([c EXCEPT !.p.refused = <<>>, !.p.refused_fin = FALSE],
                           p.refused)
  IN  IF ~c.accept THEN c
      ELSE IF p.refused_fin THEN EventClosed(d) ELSE d

(***************************************************************************)
(* tcp_receive: the acknowledgement.                                       *)
(***************************************************************************)
UpdateSendWindow(p, s) ==
  IF \/ SeqLt(p.snd_wl1, s.seq)
     \/ p.snd_wl1 = s.seq /\ SeqLt(p.snd_wl2, s.ackno)
     \/ p.snd_wl2 = s.ackno /\ s.wnd > p.snd_wnd
  THEN [p EXCEPT !.snd_wnd = s.wnd, !.snd_wnd_max = Most(@, s.wnd),
                 !.snd_wl1 = s.seq, !.snd_wl2 = s.ackno,
                 !.persist = s.wnd = 0]
  ELSE p

(* cwnd is a u16 and never grows past its end. *)
Grown(cwnd, n) == IF cwnd + n >= WND16 THEN cwnd ELSE cwnd + n

GrowCwnd(cwnd, ssthresh) ==
  Grown(cwnd, IF cwnd < ssthresh THEN MSS ELSE (MSS * MSS) \div cwnd)

DuplicateAck(c, s, edge) ==
  LET p == c.p
      n == Least(p.dupacks + 1, 4)  \* saturates at 255; only 3 matters
  IN  IF /\ s.data = <<>> /\ ~s.syn /\ ~s.fin
         /\ Add(p.snd_wl2, p.snd_wnd) = edge
         /\ p.rtime
         /\ p.lastack = s.ackno
      THEN LET d == [c EXCEPT !.p.dupacks = n]
           IN  IF n > 3 THEN [d EXCEPT !.p.cwnd = Grown(@, MSS)]
               ELSE IF n = 3 THEN tcp_rexmit_fast(d) ELSE d
      ELSE [c EXCEPT !.p.dupacks = 0]

\* the segments are freed up to the first that is kept
DropAcked(q, kept) == IF kept = {} THEN <<>> ELSE SubSeq(q, Min(kept), Len(q))

Bytes(q) == FoldSeq(LAMBDA g, n : n + Len(g.data), 0, q)

NewAck(c, s) ==
  LET p == c.p
      infr == "INFR" \in p.flags
      kept == {k \in DOMAIN p.unacked : ~SeqLeq(SegEnd(p.unacked[k]), s.ackno)}
      rest == DropAcked(p.unacked, kept)
  IN  [c EXCEPT !.p.flags = @ \ {"INFR"},
                !.p.nrtx = 0, !.p.dupacks = 0, !.p.lastack = s.ackno,
                !.p.cwnd = GrowCwnd(IF infr THEN p.ssthresh ELSE @, p.ssthresh),
                !.p.unacked = rest,
                !.p.rtime = rest # <<>>,
                !.acked = @ + Bytes(p.unacked) - Bytes(rest)]

(* What was requeued for retransmission may be acknowledged meanwhile. *)
DropUnsent(c, s) ==
  LET p == c.p
      kept == {k \in DOMAIN p.unsent : ~SeqBetween(s.ackno, SegEnd(p.unsent[k]), p.snd_nxt)}
      rest == DropAcked(p.unsent, kept)
      n == c.acked + Bytes(p.unsent) - Bytes(rest)
  IN  [c EXCEPT !.p.unsent = rest, !.acked = n, !.p.snd_buf = @ + n]

ReceiveAck(c, s) ==
  LET edge == Add(c.p.snd_wnd, c.p.snd_wl2)
      d == [c EXCEPT !.p = UpdateSendWindow(c.p, s)]
  IN  DropUnsent(
        CASE SeqLeq(s.ackno, d.p.lastack) -> DuplicateAck(d, s, edge)
          [] SeqBetween(s.ackno, Add(d.p.lastack, 1), d.p.snd_nxt) -> NewAck(d, s)
          [] OTHER -> tcp_send_empty_ack(d),
        s)

(***************************************************************************)
(* tcp_receive: the data.                                                  *)
(***************************************************************************)
DropFront(g, n) == [g EXCEPT !.seq = Add(@, n), !.data = SubSeq(@, n + 1, Len(@))]
KeepFront(g, n) == [g EXCEPT !.data = SubSeq(@, 1, n)]

(* The head of q that a segment ending at e makes superfluous. *)
Covered(q, e) ==
  LET uncovered(h) == SeqLt(e, Add(h.seq, Len(h.data)))
      k == SelectInSeq(q, uncovered)
  IN  IF k = 0 THEN Len(q) ELSE k - 1

(* g takes the place of the segments it covers, and their FIN. *)
tcp_oos_insert_segment(g, q) ==
  IF g.fin THEN <<g>>
  ELSE LET e == Add(g.seq, Len(g.data))
           k == Covered(q, e)
           rest == SubSeq(q, k + 1, Len(q))
           h == [g EXCEPT !.fin = \E i \in 1 .. k : q[i].fin]
       IN  <<IF rest # <<>> /\ SeqLt(Head(rest).seq, e)
             THEN KeepFront(h, Diff(Head(rest).seq, h.seq)) ELSE h>> \o rest

(* An out-of-sequence segment finds its place on the queue. *)
QueueOoseq(p, g) ==
  LET q == p.ooseq
      before(h) == SeqLt(h.seq, g.seq)
      k == SelectLastInSeq(q, before)
      after == SubSeq(q, k + 1, Len(q))
      prev == IF k > 0 /\ SeqLt(g.seq, Add(q[k].seq, Len(q[k].data)))
              THEN SubSeq(q, 1, k - 1) \o <<KeepFront(q[k], Diff(g.seq, q[k].seq))>>
              ELSE SubSeq(q, 1, k)
      room == Diff(RightEdge(p), g.seq)
      last == IF SeqLt(RightEdge(p), SegEnd(g))
              THEN [KeepFront(g, room) EXCEPT !.fin = FALSE] ELSE g
  IN  CASE q = <<>> -> <<g>>
        [] after # <<>> /\ Head(after).seq = g.seq ->
             IF Len(g.data) > Len(Head(after).data)
             THEN SubSeq(q, 1, k) \o tcp_oos_insert_segment(g, after) ELSE q
        [] q # <<>> /\ after = <<>> -> IF q[k].fin THEN q ELSE Append(prev, last)
        [] OTHER -> prev \o tcp_oos_insert_segment(g, after)

TakeSegment(c, g) ==
  tcp_update_rcv_ann_wnd(
    [c EXCEPT !.p.rcv_nxt = Add(@, TcpLen(g)), !.p.rcv_wnd = AddWnd(@, -TcpLen(g)),
              !.data = @ \o g.data, !.fin = @ \/ g.fin])

\* mutant: only the first segment that comes into sequence is taken
TakeOne(c) ==
  IF c.p.ooseq = <<>> \/ Head(c.p.ooseq).seq # c.p.rcv_nxt THEN c
  ELSE [TakeSegment(c, Head(c.p.ooseq)) EXCEPT !.p.ooseq = Tail(@)]

RECURSIVE TakeOoseq(_)
TakeOoseq(c) ==
  IF c.p.ooseq = <<>> \/ Head(c.p.ooseq).seq # c.p.rcv_nxt THEN c
  ELSE LET g == Head(c.p.ooseq)
       IN  TakeOoseq([TakeSegment(c, g) EXCEPT
                        !.p.ooseq = Tail(@),
                        !.p.state = IF g.fin /\ @ = "ESTABLISHED" THEN "CLOSE_WAIT"
                                    ELSE @])

tcp_ack(c) ==
  IF "ACK_DELAY" \in c.p.flags
  THEN SetFlags(ClearFlags(c, {"ACK_DELAY"}), {"ACK_NOW"})
  ELSE SetFlags(c, {"ACK_DELAY"})

(* The segment is the next one: cut it to the window, drop what it makes   *)
(* superfluous on ooseq, take it and what has come into sequence behind it.*)
InSequence(c, s) ==
  LET g == IF TcpLen(s) > c.p.rcv_wnd
           THEN [KeepFront(s, c.p.rcv_wnd) EXCEPT !.fin = FALSE] ELSE s
      k == Covered(c.p.ooseq, SegEnd(g))
      rest == IF g.fin THEN <<>> ELSE SubSeq(c.p.ooseq, k + 1, Len(c.p.ooseq))
      h == [g EXCEPT !.fin = @ \/ \E i \in 1 .. k : c.p.ooseq[i].fin]
      i == IF rest # <<>> /\ SeqLt(Head(rest).seq, SegEnd(h))
           THEN KeepFront(h, Diff(Head(rest).seq, h.seq)) ELSE h
  IN  tcp_ack(TakeOoseq(TakeSegment([c EXCEPT !.p.ooseq = rest], i)))

OutOfSequence(c, s) ==
  LET d == tcp_send_empty_ack(c)
  IN  IF c.mem
      THEN [d EXCEPT !.p.ooseq = QueueOoseq(d.p, QSeg(s.seq, s.syn, s.fin, s.data))]
      ELSE d

ReceiveData(c, seg) ==
  LET p == c.p
      old == SeqBetween(p.rcv_nxt, Add(seg.seq, 1), Add(seg.seq, TcpLen(seg) - 1))
      s == IF old THEN DropFront(seg, Diff(p.rcv_nxt, seg.seq)) ELSE seg
      d == IF ~old /\ SeqLt(seg.seq, p.rcv_nxt) THEN SetFlags(c, {"ACK_NOW"}) ELSE c
      inWindow(x) == SeqBetween(x, p.rcv_nxt, Add(RightEdge(p), -1))
  IN  IF TcpLen(seg) > 0 /\ p.state \in {"SYN_RCVD", "ESTABLISHED", "FIN_WAIT_1", "FIN_WAIT_2"}
      THEN IF ~inWindow(s.seq) THEN tcp_send_empty_ack(d)
           ELSE IF s.seq = p.rcv_nxt THEN InSequence(d, s) ELSE OutOfSequence(d, s)
      ELSE IF ~inWindow(seg.seq) THEN SetFlags(c, {"ACK_NOW"}) ELSE c

tcp_receive(c, s) == ReceiveData(IF s.ack THEN ReceiveAck(c, s) ELSE c, s)

(***************************************************************************)
(* tcp_process                                                             *)
(***************************************************************************)
RstFor(c, s) == tcp_rst(c, s.ackno, SegEnd(s))
InitialCwnd == Least(4 * MSS, Most(2 * MSS, INITIAL_CWND))
EnterTimeWait(c) == [tcp_pcb_purge(c) EXCEPT !.p.state = "TIME_WAIT"]

ProcessRst(c, s) ==
  IF IF c.p.state = "SYN_SENT" THEN s.ackno = c.p.snd_nxt ELSE s.seq = c.p.rcv_nxt
  THEN [ClearFlags(c, {"ACK_DELAY"}) EXCEPT !.reset = TRUE]
  ELSE IF c.p.state # "SYN_SENT" /\ SeqBetween(s.seq, c.p.rcv_nxt, RightEdge(c.p))
  THEN SetFlags(c, {"ACK_NOW"}) ELSE c

ProcessSynSent(c, s) ==
  LET p == c.p
      rest == IF p.unacked # <<>> THEN Tail(p.unacked) ELSE <<>>
  IN  CASE s.ack /\ s.syn /\ s.ackno = Add(p.lastack, 1) ->
             SetFlags(
               [c EXCEPT !.p.rcv_nxt = Add(s.seq, 1),
                         !.p.rcv_ann_right_edge = Add(s.seq, 1),
                         !.p.lastack = s.ackno,
                         !.p.snd_wnd = s.wnd, !.p.snd_wnd_max = s.wnd,
                         !.p.snd_wl1 = Diff(s.seq, 1),
                         !.p.state = "ESTABLISHED",
                         !.p.cwnd = InitialCwnd,
                         !.p.unsent = IF p.unacked = <<>> THEN Tail(@) ELSE @,
                         !.p.unacked = rest,
                         !.p.rtime = rest # <<>>,
                         !.p.nrtx = IF rest # <<>> THEN 0 ELSE @],
               {"ACK_NOW"})
        [] s.ack /\ ~(s.syn /\ s.ackno = Add(p.lastack, 1)) ->
             LET d == RstFor(c, s)
             IN  IF p.nrtx < TCP_SYNMAXRTX
                 THEN tcp_rexmit_rto([d EXCEPT !.p.rtime = TRUE]) ELSE d
        [] OTHER -> c

ProcessSynRcvd(c, s) ==
  CASE s.ack /\ SeqBetween(s.ackno, Add(c.p.lastack, 1), c.p.snd_nxt) ->
         LET d == tcp_receive([c EXCEPT !.p.state = "ESTABLISHED"], s)
             e == [d EXCEPT !.acked = IF @ # 0 THEN @ - 1 ELSE 0,
                            !.p.cwnd = InitialCwnd]
         IN  IF e.fin THEN SetFlags([e EXCEPT !.p.state = "CLOSE_WAIT"], {"ACK_NOW"})
             ELSE e
    [] s.ack /\ ~SeqBetween(s.ackno, Add(c.p.lastack, 1), c.p.snd_nxt) -> RstFor(c, s)
    [] ~s.ack /\ s.syn /\ s.seq = Diff(c.p.rcv_nxt, 1) -> tcp_rexmit(c)
    [] OTHER -> c

ProcessSynchronized(c, s) ==
  LET d == tcp_receive(c, s)
      allAcked == s.ack /\ s.ackno = d.p.snd_nxt /\ d.p.unsent = <<>>
      now == SetFlags(d, {"ACK_NOW"})
  IN  CASE c.p.state \in {"ESTABLISHED", "CLOSE_WAIT"} ->
             IF d.fin THEN [now EXCEPT !.p.state = "CLOSE_WAIT"] ELSE d
        [] c.p.state = "FIN_WAIT_1" ->
             IF d.fin THEN IF allAcked THEN EnterTimeWait(now)
                           ELSE [now EXCEPT !.p.state = "CLOSING"]
             ELSE IF allAcked THEN [d EXCEPT !.p.state = "FIN_WAIT_2"] ELSE d
        [] c.p.state = "FIN_WAIT_2" -> IF d.fin THEN EnterTimeWait(now) ELSE d
        [] c.p.state = "CLOSING" -> IF allAcked THEN EnterTimeWait(d) ELSE d
        [] c.p.state = "LAST_ACK" -> IF allAcked THEN [d EXCEPT !.closed = TRUE] ELSE d

tcp_process(c, s) ==
  CASE s.rst -> ProcessRst(c, s)
    [] ~s.rst /\ c.p.state = "SYN_SENT" -> ProcessSynSent(c, s)
    [] ~s.rst /\ c.p.state = "SYN_RCVD" -> ProcessSynRcvd(c, s)
    [] OTHER -> IF s.syn THEN SetFlags(c, {"ACK_NOW"}) ELSE ProcessSynchronized(c, s)

(***************************************************************************)
(* tcp_input: the segment is for a connection, for a connection in         *)
(* TIME_WAIT, for a listener, or for nobody.                               *)
(***************************************************************************)
(* The callbacks tcp_input makes once tcp_process is done. *)
Upcalls(c) ==
  LET d == IF c.data = <<>> THEN c ELSE Tcp_Client_Recv(c, c.data)
      e == IF ~c.fin THEN d
           ELSE IF d.p.refused # <<>> THEN [d EXCEPT !.p.refused_fin = TRUE]
           ELSE EventClosed(d)
  IN  CASE c.reset -> TellError(tcp_pcb_remove(c), "RST")
        [] ~c.reset /\ c.closed ->
             IF "RXCLOSED" \in c.p.flags THEN tcp_pcb_remove(c)
             ELSE TellError(tcp_pcb_remove(c), "CLSD")
        [] ~c.reset /\ ~c.closed /\ c.data # <<>> /\ "RXCLOSED" \in c.p.flags ->
             tcp_abort(c)
        [] OTHER -> tcp_output([e EXCEPT !.inp = FALSE])

\* mutant: refused data is not offered again first
RefusedOvertaken(c, s) == Upcalls(tcp_process([c EXCEPT !.inp = TRUE], s))

ActiveInput(c, s) ==
  LET d == IF c.p.refused = <<>> THEN c ELSE tcp_process_refused_data(c)
  IN  IF d.p.refused # <<>> /\ TcpLen(s) > 0
      THEN IF d.p.rcv_ann_wnd = 0 THEN tcp_send_empty_ack(d) ELSE d
      ELSE Upcalls(tcp_process([d EXCEPT !.inp = TRUE], s))

tcp_timewait_input(c, s) ==
  CASE s.rst -> c
    [] ~s.rst /\ s.syn /\ SeqBetween(s.seq, c.p.rcv_nxt, RightEdge(c.p)) -> RstFor(c, s)
    [] OTHER -> IF TcpLen(s) > 0 THEN tcp_output(SetFlags(c, {"ACK_NOW"})) ELSE c

tcp_listen_input(c, s, iss) ==
  CASE s.rst -> c
    [] ~s.rst /\ s.ack -> RstFor(c, s)
    [] ~s.rst /\ ~s.ack /\ s.syn ->
         LET d == tcp_enqueue_flags(
                    [c EXCEPT !.p.state = "SYN_RCVD",
                              !.p.rcv_nxt = Add(s.seq, 1),
                              !.p.rcv_ann_right_edge = Add(s.seq, 1),
                              !.p.snd_wl2 = iss, !.p.snd_nxt = iss,
                              !.p.lastack = iss, !.p.snd_lbb = iss,
                              !.p.snd_wl1 = Diff(s.seq, 1),
                              !.p.snd_wnd = s.wnd, !.p.snd_wnd_max = s.wnd],
                    TRUE, FALSE)
         IN  IF d.err THEN MempFree(c) ELSE tcp_output(d)
    [] OTHER -> c

tcp_input(c, s, listening, iss) ==
  CASE c.p.state = "TIME_WAIT" -> tcp_timewait_input(c, s)
    [] c.p.state = "CLOSED" /\ listening -> tcp_listen_input(c, s, iss)
    [] c.p.state = "CLOSED" /\ ~listening -> IF s.rst THEN c ELSE RstFor(c, s)
    [] OTHER -> ActiveInput(c, s)

=============================================================================
