--------------------------------- MODULE Tcp ---------------------------------
(***************************************************************************)
(* Two hosts run lwIP's TCP (net/core/tcp.c over TcpIn and TcpOut) and the *)
(* network between them loses, duplicates and delays segments.  The Client *)
(* connects as net/apps/tcp_client.c does, the Server listens.             *)
(*                                                                         *)
(* net[s] is the sequence of segments on their way to s.  The bytes s      *)
(* writes are numbered 1, 2, 3 ...; got[s] are the bytes its receive       *)
(* callback took, eof[s] whether it was called for the end of the stream,  *)
(* told[s] the error it was called for (or that it closed with data        *)
(* unread, which aborts), closed[s] whether it closed the connection.      *)
(*                                                                         *)
(* plan bounds what may still go wrong: in the network a segment lost,     *)
(* duplicated or overtaken, or a retransmission timeout while the answer   *)
(* was still on its way; in a host a pbuf_alloc or malloc that failed.     *)
(***************************************************************************)
EXTENDS TcpIn

CONSTANTS Client, Server, MAX_WRITE, ISS, MAX_NET,
          PLANS    \* [write: bytes each may write, net, host: faults there may be]

Side == {Client, Server}
Peer(s) == IF s = Client THEN Server ELSE Client

VARIABLES pcb, net, wrote, got, eof, told, closed, acked, iss, plan

vars == <<pcb, net, wrote, got, eof, told, closed, acked, iss, plan>>

Init ==
  /\ pcb = [s \in Side |-> TcpAlloc]
  /\ net = [s \in Side |-> <<>>]
  /\ wrote = [s \in Side |-> 0]
  /\ got = [s \in Side |-> <<>>]
  /\ eof = [s \in Side |-> FALSE]
  /\ told = [s \in Side |-> ""]
  /\ closed = [s \in Side |-> FALSE]
  /\ acked = [s \in Side |-> 0]
  /\ iss = ISS
  /\ plan \in PLANS

(* What a call returns to the world. *)
Done(s, c, arrived) ==
  /\ pcb' = [pcb EXCEPT ![s] = c.p]
  /\ net' = [net EXCEPT ![s] = arrived, ![Peer(s)] = @ \o c.out]
  /\ got' = [got EXCEPT ![s] = @ \o c.got]
  /\ eof' = [eof EXCEPT ![s] = @ \/ c.eof]
  /\ told' = [told EXCEPT ![s] = IF @ = "" /\ ~closed[s] /\ ~c.eof THEN c.told ELSE @]
  /\ closed' = [closed EXCEPT ![s] = @ \/ c.eof]
  /\ acked' = [acked EXCEPT ![s] = @ + c.acked]

(* Something goes wrong in the network, or in the host, or nothing does. *)
Fault(inNet, inHost) ==
  /\ inNet => plan.net > 0
  /\ inHost => plan.host > 0
  /\ plan' = [plan EXCEPT !.net = @ - (IF inNet THEN 1 ELSE 0),
                          !.host = @ - (IF inHost THEN 1 ELSE 0)]

Room(s) == Len(net[Peer(s)]) < MAX_NET

(***************************************************************************)
(* The application.                                                        *)
(***************************************************************************)
tcp_connect(c, x) ==
  LET d == tcp_enqueue_flags(
             [c EXCEPT !.p.snd_nxt = x, !.p.lastack = Diff(x, 1),
                       !.p.snd_wl2 = Diff(x, 1), !.p.snd_lbb = Diff(x, 1),
                       !.p.snd_wnd = TCP_WND],
             TRUE, FALSE)
  IN  IF d.err THEN d ELSE tcp_output([d EXCEPT !.p.state = "SYN_SENT"])

(* The Client connects once: every request of http_client.c is a new       *)
(* control block and a new port.                                           *)
Connect ==
  /\ pcb[Client] = TcpAlloc
  /\ iss[Client] = ISS[Client]
  /\ Done(Client, tcp_connect(Context(TcpAlloc, TRUE, TRUE), iss[Client]), net[Client])
  /\ iss' = [iss EXCEPT ![Client] = Add(@, SEQ \div 2)]
  /\ UNCHANGED <<wrote, plan>>

CanUse(s) == ~closed[s] /\ told[s] = "" /\ pcb[s].state # "CLOSED"

(* Tcp_Client_Send, once: tcp_write and nothing else. *)
Write(s, mem) ==
  LET n == plan.write[s]
      c == tcp_write(Context(pcb[s], mem, TRUE), [i \in 1 .. n |-> i])
  IN  /\ CanUse(s)
      /\ s = Server => pcb[s].state # "SYN_RCVD"
      /\ wrote[s] = 0 /\ n > 0
      /\ Fault(FALSE, ~mem)
      /\ Done(s, c, net[s])
      /\ wrote' = [wrote EXCEPT ![s] = IF c.err THEN @ ELSE n]
      /\ UNCHANGED iss

Close(s, mem) ==
  /\ CanUse(s)
  /\ pcb[s].state \in {"ESTABLISHED", "CLOSE_WAIT"}
  /\ Room(s)
  /\ Fault(FALSE, ~mem)
  /\ LET c == tcp_close(Context(pcb[s], mem, TRUE))
     IN  /\ pcb' = [pcb EXCEPT ![s] = c.p]
         /\ net' = [net EXCEPT ![Peer(s)] = @ \o c.out]
         /\ closed' = [closed EXCEPT ![s] = TRUE]
         /\ told' = [told EXCEPT ![s] = IF UnreadData(pcb[s]) THEN "ABRT" ELSE @]
  /\ UNCHANGED <<wrote, got, eof, acked, iss>>

(***************************************************************************)
(* The network.                                                            *)
(***************************************************************************)
Arrive(s, i, mem, accept) ==
  LET seg == net[s][i]
      listening == s = Server
      opens == listening /\ pcb[s].state = "CLOSED"
  IN  /\ mem \/ accept
      /\ Fault(i > 1, ~mem \/ ~accept)
      /\ Done(s, tcp_input(Context(pcb[s], mem, accept), seg, listening, iss[s]),
              RemoveAt(net[s], i))
      /\ iss' = [iss EXCEPT ![s] = IF opens /\ pcb'[s].state = "SYN_RCVD"
                                   THEN Add(@, SEQ \div 2) ELSE @]
      /\ UNCHANGED wrote

Lose(s) ==
  /\ net[s] # <<>>
  /\ Fault(TRUE, FALSE)
  /\ net' = [net EXCEPT ![s] = Tail(@)]
  /\ UNCHANGED <<pcb, wrote, got, eof, told, closed, acked, iss>>

Duplicate(s) ==
  /\ net[s] # <<>>
  /\ Fault(TRUE, FALSE)
  /\ net' = [net EXCEPT ![s] = Append(@, Head(@))]
  /\ UNCHANGED <<pcb, wrote, got, eof, told, closed, acked, iss>>

(***************************************************************************)
(* The timers: tcp_tmr runs the fast timer and, every second time, the     *)
(* slow one.  due: the retransmission or the persist timer has run out;    *)
(* idle: nothing has arrived for as long as the state's timeout.           *)
(***************************************************************************)
tcp_fasttmr(c) ==
  LET d == IF "ACK_DELAY" \in c.p.flags
           THEN ClearFlags(tcp_output(SetFlags(c, {"ACK_NOW"})), {"ACK_DELAY", "ACK_NOW"})
           ELSE c
      e == IF "CLOSEPEND" \in d.p.flags
           THEN tcp_close_shutdown_fin(ClearFlags(d, {"CLOSEPEND"})) ELSE d
  IN  CASE c.p.state = "TIME_WAIT" -> c
        [] c.p.state # "TIME_WAIT" /\ e.p.refused # <<>> -> tcp_process_refused_data(e)
        [] OTHER -> e

GivesUp(p) ==
  p.nrtx >= (IF p.state = "SYN_SENT" THEN Least(TCP_SYNMAXRTX, TCP_MAXRTX)
             ELSE TCP_MAXRTX)

Retransmit(c) ==
  IF c.p.persist THEN tcp_zero_window_probe(c)
  ELSE IF c.p.unacked = <<>> \/ ~c.p.rtime THEN c
  ELSE tcp_rexmit_rto([c EXCEPT !.p.ssthresh = Ssthresh(c.p), !.p.cwnd = MSS])

IdleTooLong(p) ==
  \/ p.state = "FIN_WAIT_2" /\ "RXCLOSED" \in p.flags
  \/ p.state \in {"SYN_RCVD", "LAST_ACK"}

\* mutant: nothing is sent at the end of the round
NoOutput(c, due, idle) ==
  LET d == IF due /\ ~GivesUp(c.p) THEN Retransmit(c) ELSE c
      e == IF idle THEN [d EXCEPT !.p.ooseq = <<>>] ELSE d
  IN  CASE c.p.state = "CLOSED" -> c
        [] c.p.state = "TIME_WAIT" -> IF idle THEN MempFree(c) ELSE c
        [] OTHER -> IF GivesUp(c.p) \/ (idle /\ IdleTooLong(d.p))
                    THEN TellError(MempFree(tcp_pcb_purge(d)), "ABRT") ELSE e

tcp_slowtmr(c, due, idle) ==
  LET d == IF due /\ ~GivesUp(c.p) THEN Retransmit(c) ELSE c
      e == IF idle THEN [d EXCEPT !.p.ooseq = <<>>] ELSE d
  IN  CASE c.p.state = "CLOSED" -> c
        [] c.p.state = "TIME_WAIT" -> IF idle THEN MempFree(c) ELSE c
        [] OTHER -> IF GivesUp(c.p) \/ (idle /\ IdleTooLong(d.p))
                    THEN TellError(MempFree(tcp_pcb_purge(d)), "ABRT")
                    ELSE tcp_output(e)

Quiet ==
  \A s \in Side :
    net[s] = <<>> /\ ("ACK_DELAY" \in pcb[s].flags => pcb[s].state = "TIME_WAIT")

Waiting(p) == p.persist \/ p.unacked # <<>>

tcp_tmr(s, slow, due, idle, mem, accept) ==
  LET c == tcp_fasttmr(Context(pcb[s], mem, accept))
  IN  IF slow THEN tcp_slowtmr(c, due, idle) ELSE c

Expires(s, slow, due, idle) ==
  /\ pcb[s].state # "CLOSED"
  /\ Room(s)
  /\ due \/ idle => slow
  /\ ~(due /\ idle)
  /\ idle => Quiet /\ (pcb[s].nrtx >= 1 \/ ~Waiting(pcb[s]))
  /\ due => Waiting(pcb[s])

Tmr(s, slow, due, idle, mem, accept) ==
  LET early == due /\ ~Quiet
  IN  /\ Expires(s, slow, due, idle)
      /\ Fault(early, ~mem \/ ~accept)
      /\ accept \/ (mem /\ ~due /\ pcb[s].refused # <<>>)
      /\ Done(s, tcp_tmr(s, slow, due, idle, mem, accept), net[s])
      /\ UNCHANGED <<wrote, iss>>

Next ==
  \/ Connect
  \/ \E s \in Side, mem \in BOOLEAN : Write(s, mem)
  \/ \E s \in Side, mem \in BOOLEAN : Close(s, mem)
  \/ \E s \in Side, mem, accept \in BOOLEAN :
       \E i \in 1 .. Len(net[s]) : Arrive(s, i, mem, accept)
  \/ \E s \in Side : Lose(s) \/ Duplicate(s)
  \/ \E s \in Side, slow, due, idle, mem, accept \in BOOLEAN :
       Tmr(s, slow, due, idle, mem, accept)

(* Segments that are not lost arrive; LWIP_Polling calls tcp_tmr for ever, *)
(* so that a timer that has run out is served.                             *)
TmrActs(s, due, idle) ==
  LET c == tcp_tmr(s, TRUE, due, idle, TRUE, TRUE)
  IN  Expires(s, TRUE, due, idle) /\ ~(due /\ ~Quiet)
      /\ (c.p # pcb[s] \/ c.out # <<>>)

(* Weak fairness of Arrive(s, 1, ...) and of the three kinds of tick, with *)
(* their ENABLED spelled out.                                              *)
Fairness ==
  /\ WF_vars(Connect)
  /\ \A s \in Side :
       /\ []<>(net[s] = <<>>) \/ []<><<net[s] # <<>> /\ Arrive(s, 1, TRUE, TRUE)>>_vars
       /\ []<>~TmrActs(s, FALSE, FALSE)
            \/ []<><<Tmr(s, TRUE, FALSE, FALSE, TRUE, TRUE)>>_vars
       /\ []<>~TmrActs(s, TRUE, FALSE)
            \/ []<><<Tmr(s, TRUE, TRUE, FALSE, TRUE, TRUE)>>_vars
       /\ []<>~TmrActs(s, FALSE, TRUE)
            \/ []<><<Tmr(s, TRUE, FALSE, TRUE, TRUE, TRUE)>>_vars

Spec == Init /\ [][Next]_vars /\ Fairness

(***************************************************************************)
(* Properties.                                                             *)
(***************************************************************************)
Connected(s) ==
  pcb[s].state \in {"ESTABLISHED", "CLOSE_WAIT", "FIN_WAIT_1", "FIN_WAIT_2",
                    "CLOSING", "LAST_ACK"}

Stream == INSTANCE ByteStream

(* The two users see a byte stream: what a receive callback is given is    *)
(* what the peer wrote, from the first byte on, without gap, repetition or *)
(* exchange, and the end of the stream is announced after all of it, to    *)
(* the peer of one that closed.  This is tcp_receive's cutting and joining *)
(* of segments, its ooseq queue and the refused data together.             *)
ImplementsByteStream == Stream!StreamSpec

(* The segments on unacked and unsent together are the bytes from lastack  *)
(* to snd_lbb, each once, however often they were moved for retransmission *)
(* (tcp_rexmit, tcp_rexmit_rto, tcp_rexmit_fast), and snd_buf is what they *)
(* leave of the send buffer.                                               *)
QueuesTile ==
  \A s \in Side :
    LET p == pcb[s]
        q == SortSeq(p.unacked \o p.unsent, LAMBDA g, h : SeqLt(g.seq, h.seq))
    IN  Connected(s) =>
          /\ \A i \in 1 .. Len(q) - 1 : SegEnd(q[i]) = q[i + 1].seq
          /\ q # <<>> => /\ SeqLeq(Head(q).seq, p.lastack)
                         /\ SeqLt(p.lastack, SegEnd(Head(q)))
                         /\ Add(Last(q).seq, Len(Last(q).data)) \in {p.snd_lbb, Diff(p.snd_lbb, 1)}
          /\ p.snd_buf + Bytes(q) = TCP_SND_BUF

(* Segments waiting out of sequence are ahead of rcv_nxt, do not overlap   *)
(* and are in order; only the last carries a FIN (tcp_receive's insertion, *)
(* tcp_oos_insert_segment).                                                *)
OoseqApart ==
  \A s \in Side :
    LET p == pcb[s]
        q == p.ooseq
    IN  /\ q # <<>> => SeqLt(p.rcv_nxt, Head(q).seq)
        /\ \A i \in 1 .. Len(q) - 1 : SeqLeq(SegEnd(q[i]), q[i + 1].seq) /\ ~q[i].fin

(* The window the code keeps is the buffer less what the application has   *)
(* refused to take, the end of the stream included: nothing leaks from it, *)
(* so that tcp_close sends a RST only for unread data.                     *)
WindowAccounted ==
  \A s \in Side :
    Connected(s) =>
      AddWnd(pcb[s].rcv_wnd,
             Len(pcb[s].refused) + (IF pcb[s].refused_fin THEN 1 ELSE 0)) = TCP_WND

(* No byte in flight lies beyond the right edge its receiver announced,    *)
(* a window probe's excepted.                                              *)
WithinWindow ==
  \A s \in Side : \A i \in 1 .. Len(net[s]) :
    LET g == net[s][i]
    IN  Connected(s) /\ Len(g.data) > 1 =>
          SeqLeq(Add(g.seq, Len(g.data)), pcb[s].rcv_ann_right_edge)

(* Bytes reported to the sender's application as acknowledged have been    *)
(* received: the peer's application has them or is about to be offered     *)
(* them again.                                                             *)
AckedWasReceived ==
  \A s \in Side :
    Connected(Peer(s)) => acked[s] <= Len(got[Peer(s)]) + Len(pcb[Peer(s)].refused)

(* The right edge a host has announced never moves back ("shrinking the    *)
(* window"), from tcp_update_rcv_ann_wnd and every segment sent.           *)
EdgeNeverRetreats ==
  [][\A s \in Side : Connected(s) /\ Connected(s)' =>
       SeqLeq(pcb[s].rcv_ann_right_edge, pcb'[s].rcv_ann_right_edge)]_vars

(* In the end what was written has arrived, unless the receiver closed or  *)
(* one of the two was told that the connection is gone; and when both      *)
(* have closed, both control blocks are freed.                             *)
Settles ==
  <>[] /\ \A s \in Side : \/ Len(got[Peer(s)]) = wrote[s]
                         \/ closed[Peer(s)] \/ \E x \in Side : told[x] # ""
       /\ (\A s \in Side : closed[s]) => \A s \in Side : pcb[s].state = "CLOSED"

=============================================================================
