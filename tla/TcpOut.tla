------------------------------- MODULE TcpOut -------------------------------
(***************************************************************************)
(* The sending half of lwIP's TCP (net/core/tcp_out.c), with the sequence  *)
(* arithmetic of priv/tcp_priv.h and the protocol control block.           *)
(*                                                                         *)
(* A call is an operator on a context c: c.p is the control block, c.out   *)
(* the segments handed to IP so far, c.mem whether pbuf_alloc succeeds     *)
(* during this call, c.inp whether tcp_input_pcb is this block.            *)
(* Sequence numbers are taken modulo SEQ (2^32 in the code).  rtime, rto   *)
(* and the persist counter are abstracted to whether the timer runs; pbuf  *)
(* chains (unsent_oversize, snd_queuelen) are left out, the errors they    *)
(* cause are those of c.mem.  Nagle's TF_NODELAY and SOF_KEEPALIVE are     *)
(* never set by this program.                                              *)
(***************************************************************************)
EXTENDS Integers, Sequences, SequencesExt

CONSTANTS SEQ,             \* 2^32: sequence numbers wrap here
          WND16,           \* 2^16: window sizes wrap here
          MSS, TCP_WND, TCP_SND_BUF,
          INITIAL_CWND,    \* 4380, three full segments
          TCP_MAXRTX, TCP_SYNMAXRTX

Add(a, b) == (a + b) % SEQ
Diff(a, b) == (a - b) % SEQ
SeqLt(a, b) == Diff(a, b) >= SEQ \div 2
SeqLeq(a, b) == a = b \/ SeqLt(a, b)
SeqBetween(a, b, c) == ~SeqLt(a, b) /\ SeqLeq(a, c)

AddWnd(a, b) == (a + b) % WND16

Least(a, b) == IF a < b THEN a ELSE b
Most(a, b) == IF a > b THEN a ELSE b

(***************************************************************************)
(* Segments: on the unsent, unacked and ooseq queues, and on the wire.     *)
(***************************************************************************)
QSeg(seqno, syn, fin, data) ==
  [seq |-> seqno, syn |-> syn, fin |-> fin, data |-> data]

TcpLen(g) == Len(g.data) + (IF g.syn \/ g.fin THEN 1 ELSE 0)
SegEnd(g) == Add(g.seq, TcpLen(g))

Insert(q, g) ==
  LET before(h) == SeqLt(h.seq, g.seq)
      k == SelectLastInSeq(q, before)
  IN  SubSeq(q, 1, k) \o <<g>> \o SubSeq(q, k + 1, Len(q))

(* A fresh control block, tcp_alloc. *)
TcpAlloc ==
  [state |-> "CLOSED", flags |-> {}, rcv_nxt |-> 0, rcv_wnd |-> TCP_WND,
   rcv_ann_wnd |-> TCP_WND, rcv_ann_right_edge |-> 0, snd_nxt |-> 0,
   snd_wl1 |-> 0, snd_wl2 |-> 0, snd_lbb |-> 0, snd_wnd |-> 0,
   snd_wnd_max |-> 0, lastack |-> 0, cwnd |-> 1, ssthresh |-> TCP_SND_BUF,
   dupacks |-> 0, nrtx |-> 0, rtime |-> FALSE, persist |-> FALSE,
   snd_buf |-> TCP_SND_BUF, unsent |-> <<>>, unacked |-> <<>>,
   ooseq |-> <<>>, refused |-> <<>>, refused_fin |-> FALSE]

SetFlags(c, fs) == [c EXCEPT !.p.flags = @ \cup fs]
ClearFlags(c, fs) == [c EXCEPT !.p.flags = @ \ fs]

(***************************************************************************)
(* Sending single segments.                                                *)
(***************************************************************************)
Header(p, seqno) ==
  [seq |-> seqno, ackno |-> p.rcv_nxt, wnd |-> p.rcv_ann_wnd, syn |-> FALSE,
   fin |-> FALSE, rst |-> FALSE, ack |-> TRUE, data |-> <<>>]

(* Every segment that carries the window fixes the announced right edge. *)
tcp_output_alloc_header(c, seg) ==
  [c EXCEPT !.out = Append(@, seg),
            !.p.rcv_ann_right_edge = Add(c.p.rcv_nxt, c.p.rcv_ann_wnd)]

tcp_send_empty_ack(c) ==
  IF c.mem
  THEN ClearFlags(tcp_output_alloc_header(c, Header(c.p, c.p.snd_nxt)),
                  {"ACK_DELAY", "ACK_NOW"})
  ELSE SetFlags(c, {"ACK_DELAY", "ACK_NOW"})

(* Without a pbuf the peer is told nothing. *)
tcp_rst(c, seqno, ackno) ==
  IF ~c.mem THEN c
  ELSE [c EXCEPT !.out = Append(@,
         [Header(c.p, seqno) EXCEPT !.ackno = ackno, !.wnd = TCP_WND, !.rst = TRUE])]

(* The head of unsent goes out and, if it occupies sequence space, moves   *)
(* to its place on unacked.                                                *)
tcp_output_segment(c) ==
  LET p == c.p
      g == Head(p.unsent)
      ack == p.state # "SYN_SENT"
      sent == tcp_output_alloc_header(c,
                [Header(p, g.seq) EXCEPT !.syn = g.syn, !.fin = g.fin,
                                         !.ack = ack, !.data = g.data])
  IN  [sent EXCEPT !.p.unsent = Tail(@),
                   !.p.unacked = IF TcpLen(g) > 0 THEN Insert(@, g) ELSE @,
                   !.p.snd_nxt = IF SeqLt(@, SegEnd(g)) THEN SegEnd(g) ELSE @,
                   !.p.rtime = TRUE,
                   !.p.flags = IF ack THEN @ \ {"ACK_DELAY", "ACK_NOW"} ELSE @]

(***************************************************************************)
(* tcp_output                                                              *)
(***************************************************************************)
\* mutant: only congestion limits the sender
CwndOnly(p) == p.cwnd

SendWnd(p) == Least(p.snd_wnd, p.cwnd)
Fits(p, g) == Add(Diff(g.seq, p.lastack), Len(g.data)) <= SendWnd(p)

tcp_do_output_nagle(p) ==
  \/ p.unacked = <<>>
  \/ "INFR" \in p.flags
  \/ Len(p.unsent) > 1
  \/ p.unsent # <<>> /\ Len(Head(p.unsent).data) >= MSS
  \/ p.snd_buf = 0

RECURSIVE SendUnsent(_)
SendUnsent(c) ==
  IF /\ c.p.unsent # <<>>
     /\ Fits(c.p, Head(c.p.unsent))
     /\ tcp_do_output_nagle(c.p) \/ c.p.flags \cap {"NAGLEMEMERR", "FIN"} # {}
  THEN SendUnsent(tcp_output_segment(c))
  ELSE c

tcp_output(c) ==
  LET p == c.p
      blocked == p.unsent # <<>> /\ ~Fits(p, Head(p.unsent))
  IN  CASE c.inp -> c
        [] ~c.inp /\ "ACK_NOW" \in p.flags /\ (p.unsent = <<>> \/ blocked) ->
             tcp_send_empty_ack(c)
        [] OTHER ->
             ClearFlags(
               IF blocked /\ SendWnd(p) > 0 /\ SendWnd(p) = p.snd_wnd
                          /\ p.unacked = <<>>
               THEN [c EXCEPT !.p.persist = TRUE]
               ELSE SendUnsent(c),
               {"NAGLEMEMERR"})

(***************************************************************************)
(* Queueing.                                                               *)
(***************************************************************************)
MemErr(c) == [SetFlags(c, {"NAGLEMEMERR"}) EXCEPT !.err = TRUE]

tcp_enqueue_flags(c, syn, fin) ==
  IF ~c.mem THEN MemErr(c)
  ELSE [c EXCEPT !.p.unsent = Append(@, QSeg(c.p.snd_lbb, syn, fin, <<>>)),
                 !.p.snd_lbb = Add(@, 1),
                 !.p.flags = IF fin THEN @ \cup {"FIN"} ELSE @]

tcp_send_fin(c) ==
  LET q == c.p.unsent
  IN  IF q # <<>> /\ ~Last(q).syn /\ ~Last(q).fin
      THEN SetFlags([c EXCEPT !.p.unsent[Len(q)].fin = TRUE], {"FIN"})
      ELSE tcp_enqueue_flags(c, FALSE, TRUE)

RECURSIVE Cut(_, _, _)
Cut(seqno, data, mss) ==
  IF data = <<>> THEN <<>>
  ELSE LET n == Least(Len(data), mss)
       IN  <<QSeg(seqno, FALSE, FALSE, SubSeq(data, 1, n))>>
             \o Cut(Add(seqno, n), SubSeq(data, n + 1, Len(data)), mss)

tcp_write_checks(c, len) ==
  IF c.p.state \notin {"ESTABLISHED", "CLOSE_WAIT", "SYN_SENT", "SYN_RCVD"}
  THEN [c EXCEPT !.err = TRUE]
  ELSE IF len > c.p.snd_buf \/ ~c.mem THEN MemErr(c) ELSE c

(* Fill the last unsent segment up to mss_local, then new segments. *)
tcp_write(c, data) ==
  LET p == c.p
      half == Least(MSS, p.snd_wnd_max \div 2)
      mss_local == IF half = 0 THEN MSS ELSE half
      k == Len(p.unsent)
      space == IF k > 0 /\ Len(p.unsent[k].data) > 0
               THEN Most(0, mss_local - Len(p.unsent[k].data)) ELSE 0
      n == Least(space, Len(data))
      head == IF n = 0 THEN p.unsent
              ELSE [p.unsent EXCEPT ![k].data = @ \o SubSeq(data, 1, n)]
      checked == tcp_write_checks(c, Len(data))
  IN  IF checked.err THEN checked
      ELSE [c EXCEPT
             !.p.unsent = head \o Cut(Add(p.snd_lbb, n),
                                      SubSeq(data, n + 1, Len(data)), mss_local),
             !.p.snd_lbb = Add(@, Len(data)),
             !.p.snd_buf = @ - Len(data)]

(***************************************************************************)
(* Retransmission.                                                         *)
(***************************************************************************)
\* mutant: unacked replaces what was still unsent
RtoLosesUnsent(c) ==
  IF c.p.unacked = <<>> THEN c
  ELSE tcp_output([c EXCEPT !.p.unsent = c.p.unacked, !.p.unacked = <<>>,
                            !.p.nrtx = @ + 1])

tcp_rexmit_rto(c) ==
  IF c.p.unacked = <<>> THEN c
  ELSE tcp_output([c EXCEPT !.p.unsent = c.p.unacked \o @,
                            !.p.unacked = <<>>,
                            !.p.nrtx = @ + 1])

tcp_rexmit(c) ==
  IF c.p.unacked = <<>> THEN c
  ELSE [c EXCEPT !.p.unsent = Insert(@, Head(c.p.unacked)),
                 !.p.unacked = Tail(@),
                 !.p.nrtx = @ + 1]

Ssthresh(p) == Most(SendWnd(p) \div 2, 2 * MSS)

tcp_rexmit_fast(c) ==
  IF c.p.unacked = <<>> \/ "INFR" \in c.p.flags THEN c
  ELSE LET r == tcp_rexmit(c)
       IN  [r EXCEPT !.p.ssthresh = Ssthresh(c.p),
                     !.p.cwnd = Ssthresh(c.p) + 3 * MSS,
                     !.p.flags = @ \cup {"INFR"},
                     !.p.rtime = TRUE]

(* One byte (or the FIN) of the oldest outstanding segment. *)
tcp_zero_window_probe(c) ==
  LET q == c.p.unacked \o c.p.unsent
      g == Head(q)
      fin == g.fin /\ g.data = <<>>
      sent == tcp_output_alloc_header(c,
                [Header(c.p, g.seq) EXCEPT
                   !.fin = fin,
                   !.data = IF fin THEN <<>> ELSE SubSeq(g.data, 1, 1)])
      nxt == Add(g.seq, 1)
  IN  IF q = <<>> \/ ~c.mem THEN c
      ELSE [sent EXCEPT !.p.snd_nxt = IF SeqLt(@, nxt) THEN nxt ELSE @]

=============================================================================
