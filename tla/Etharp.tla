------------------------------- MODULE Etharp -------------------------------
(***************************************************************************)
(* The ARP cache of lwIP (net/core/ipv4/etharp.c) on one Ethernet          *)
(* interface, without ARP_QUEUEING: a pending entry keeps one packet.      *)
(*                                                                         *)
(* A call is an operator on a context c: c.ip and c.gw are the addresses   *)
(* of the interface, c.arp the table, c.hint etharp_cached_entry, c.out    *)
(* the frames handed to the driver so far and c.mem whether pbuf_alloc     *)
(* succeeds during this call.  The addresses of hosts on the link and FAR, *)
(* an address behind the gateway, stand for those the netmask tells apart; *)
(* multicast is left out.                                                  *)
(***************************************************************************)
EXTENDS Integers, FiniteSetsExt

CONSTANTS ARP_TABLE_SIZE, ARP_MAXAGE, ARP_MAXPENDING,
          REREQUEST_UNICAST,    \* ARP_MAXAGE - 30
          REREQUEST_BROADCAST,  \* ARP_MAXAGE - 15
          ANY, BROADCAST, FAR,  \* 0.0.0.0, 255.255.255.255, off the link
          Me, EVERYONE          \* the interface's MAC address, the broadcast one

NoPacket == [dst |-> ANY]
EmptyEntry == [state |-> "EMPTY", ip |-> ANY, mac |-> Me, ctime |-> 0, q |-> NoPacket]

Slots == 0 .. ARP_TABLE_SIZE - 1

(* state >= ETHARP_STATE_STABLE *)
Known(e) == e.state \in {"STABLE", "REREQUESTING_1", "REREQUESTING_2", "STATIC"}

Frame(to, pkt) == [kind |-> "ip", to |-> to, pkt |-> pkt]
ArpFrame(op, to, sip, smac, tip) ==
  [kind |-> "arp", to |-> to, op |-> op, sip |-> sip, smac |-> smac, tip |-> tip]

Emit(c, f) == [c EXCEPT !.out = @ \cup {f}]

etharp_free_entry(c, i) == [c EXCEPT !.arp[i] = EmptyEntry]

(* Sending fails silently when no pbuf can be had. *)
etharp_request_dst(c, ip, to) ==
  IF c.mem THEN Emit(c, ArpFrame("REQUEST", to, c.ip, Me, ip)) ELSE c
etharp_request(c, ip) == etharp_request_dst(c, ip, EVERYONE)

(* The oldest entry of S, the last of equals. *)
Oldest(c, S) ==
  CHOOSE i \in S : \A j \in S : \/ c.arp[j].ctime < c.arp[i].ctime
                                \/ c.arp[j].ctime = c.arp[i].ctime /\ j <= i

(* mutant: the newest entry of any kind is given up, static ones included *)
RecycleAny(c) == Slots

(* The entry to give up: a stable one, else one that waits for an answer   *)
(* without a packet, else one with a packet; never a static one.           *)
Recyclable(c) ==
  LET stable  == {i \in Slots : Known(c.arp[i]) /\ c.arp[i].state # "STATIC"}
      pending == {i \in Slots : c.arp[i].state = "PENDING"}
      idle    == {i \in pending : c.arp[i].q = NoPacket}
  IN  IF stable # {} THEN stable ELSE IF idle # {} THEN idle ELSE pending

(* .i is the entry found or made for ip, -1 for ERR_MEM. *)
Made(c, i, ip) == [i |-> i, c |-> [c EXCEPT !.arp[i].ip = ip, !.arp[i].ctime = 0]]

Recycle(c, S, ip) ==
  IF S = {} THEN [i |-> -1, c |-> c] ELSE Made(etharp_free_entry(c, Oldest(c, S)), Oldest(c, S), ip)

(* mutant: the first empty entry is taken before the rest of the table is seen *)
FirstEmpty(c, ip, flags) ==
  LET first == Min({i \in Slots : c.arp[i].state = "EMPTY"} \cup {ARP_TABLE_SIZE})
      match == {i \in 0 .. first - 1 : c.arp[i].ip = ip}
  IN  CASE match # {} -> [i |-> Min(match), c |-> c]
        [] match = {} /\ "FIND_ONLY" \notin flags /\ first < ARP_TABLE_SIZE -> Made(c, first, ip)
        [] OTHER -> Recycle(c, IF "TRY_HARD" \in flags THEN Recyclable(c) ELSE {}, ip)

etharp_find_entry(c, ip, flags) ==
  LET match == {i \in Slots : c.arp[i].state # "EMPTY" /\ c.arp[i].ip = ip}
      empty == {i \in Slots : c.arp[i].state = "EMPTY"}
  IN  CASE match # {} -> [i |-> Min(match), c |-> c]
        [] match = {} /\ "FIND_ONLY" \notin flags /\ empty # {} -> Made(c, Min(empty), ip)
        [] OTHER -> Recycle(c, IF "TRY_HARD" \in flags THEN Recyclable(c) ELSE {}, ip)

(* What an ARP packet of ip at mac teaches, and the packet that waited for *)
(* it.                                                                     *)
(* mutant: the packet that waited is sent and kept *)
LearnKeeping(c, i, mac, state) ==
  LET e == c.arp[i]
      set == [c EXCEPT !.arp[i].state = state, !.arp[i].mac = mac, !.arp[i].ctime = 0]
  IN  IF i < 0 \/ (e.state = "STATIC" /\ state # "STATIC") THEN c
      ELSE IF e.q = NoPacket THEN set ELSE Emit(set, Frame(mac, e.q))

Learn(c, i, mac, state) ==
  LET e == c.arp[i]
      set == [c EXCEPT !.arp[i] = [state |-> state, ip |-> e.ip, mac |-> mac,
                                   ctime |-> 0, q |-> NoPacket]]
  IN  IF i < 0 \/ (e.state = "STATIC" /\ state # "STATIC") THEN c
      ELSE IF e.q = NoPacket THEN set ELSE Emit(set, Frame(mac, e.q))

LearnAt(f, mac, state) == Learn(f.c, f.i, mac, state)

etharp_update_arp_entry(c, ip, mac, flags) ==
  IF ip \in {ANY, BROADCAST} THEN c
  ELSE LearnAt(etharp_find_entry(c, ip, flags), mac,
               IF "STATIC" \in flags THEN "STATIC" ELSE "STABLE")

etharp_add_static_entry(c, ip, mac) ==
  etharp_update_arp_entry(c, ip, mac, {"TRY_HARD", "STATIC"})

etharp_remove_static_entry(c, ip) ==
  LET f == etharp_find_entry(c, ip, {"FIND_ONLY"})
  IN  IF f.i >= 0 /\ c.arp[f.i].state = "STATIC" THEN etharp_free_entry(c, f.i) ELSE c

(* netif_set_down *)
etharp_cleanup_netif(c) == [c EXCEPT !.arp = [i \in Slots |-> EmptyEntry]]

(* Ask who has ip, and send pkt there now or when the answer comes.  The   *)
(* packet of an earlier call is dropped.  pkt = NoPacket only asks.        *)
AskNow(f, ip, pkt) ==
  LET isnew == f.c.arp[f.i].state = "EMPTY"
      d == IF isnew THEN [f.c EXCEPT !.arp[f.i].state = "PENDING"] ELSE f.c
  IN  [i |-> f.i, c |-> IF isnew \/ pkt = NoPacket THEN etharp_request(d, ip) ELSE d]

SendOrKeep(c, i, pkt) ==
  IF pkt = NoPacket THEN c
  ELSE IF Known(c.arp[i]) THEN Emit([c EXCEPT !.hint = i], Frame(c.arp[i].mac, pkt))
  ELSE IF c.mem THEN [c EXCEPT !.arp[i].q = pkt] ELSE c

SendAsked(f, pkt) == SendOrKeep(f.c, f.i, pkt)

QueryAt(f, ip, pkt) == IF f.i < 0 THEN f.c ELSE SendAsked(AskNow(f, ip, pkt), pkt)

etharp_query(c, ip, pkt) ==
  IF ip \in {ANY, BROADCAST} THEN c
  ELSE QueryAt(etharp_find_entry(c, ip, {"TRY_HARD"}), ip, pkt)

(* A stable entry near its end is asked for again, first its owner, then   *)
(* everyone.                                                               *)
etharp_output_to_arp_index(c, pkt, i) ==
  LET e == c.arp[i]
      to == IF e.ctime >= REREQUEST_BROADCAST THEN EVERYONE ELSE e.mac
      old == e.state = "STABLE" /\ e.ctime >= REREQUEST_UNICAST
      d == IF old /\ c.mem
           THEN [etharp_request_dst(c, e.ip, to) EXCEPT !.arp[i].state = "REREQUESTING_1"]
           ELSE c
  IN  Emit(d, Frame(e.mac, pkt))

(* ip4_addr_netcmp with the interface's netmask, which is 0 without address *)
OnLink(c, ip) == c.ip = ANY \/ ip # FAR

(* mutant: the entry used last is taken without comparing its address *)
OutputByHint(c, pkt) ==
  LET dst == IF OnLink(c, pkt.dst) THEN pkt.dst ELSE c.gw
      found == {i \in Slots : Known(c.arp[i]) /\ c.arp[i].ip = dst}
  IN  IF pkt.dst \in {ANY, BROADCAST} THEN Emit(c, Frame(EVERYONE, pkt))
      ELSE IF dst = ANY THEN c
      ELSE IF Known(c.arp[c.hint]) THEN etharp_output_to_arp_index(c, pkt, c.hint)
      ELSE IF found = {} THEN etharp_query(c, dst, pkt)
      ELSE etharp_output_to_arp_index([c EXCEPT !.hint = Min(found)], pkt, Min(found))

etharp_output(c, pkt) ==
  LET dst == IF OnLink(c, pkt.dst) THEN pkt.dst ELSE c.gw
      usable(i) == Known(c.arp[i]) /\ c.arp[i].ip = dst
      found == {i \in Slots : usable(i)}
  IN  IF pkt.dst \in {ANY, BROADCAST} THEN Emit(c, Frame(EVERYONE, pkt))
      ELSE IF dst = ANY THEN c
      ELSE IF usable(c.hint) THEN etharp_output_to_arp_index(c, pkt, c.hint)
      ELSE IF found = {} THEN etharp_query(c, dst, pkt)
      ELSE etharp_output_to_arp_index([c EXCEPT !.hint = Min(found)], pkt, Min(found))

(* mutant: off by one, an entry may get ARP_MAXAGE old *)
AgeOneMore(c, i) ==
  LET e == c.arp[i]
      age == e.ctime + 1
      d == [c EXCEPT !.arp[i].ctime = age]
  IN  IF e.state \in {"EMPTY", "STATIC"} THEN c
      ELSE IF age > ARP_MAXAGE \/ (e.state = "PENDING" /\ age >= ARP_MAXPENDING)
      THEN etharp_free_entry(c, i)
      ELSE CASE e.state = "REREQUESTING_1" -> [d EXCEPT !.arp[i].state = "REREQUESTING_2"]
             [] e.state = "REREQUESTING_2" -> [d EXCEPT !.arp[i].state = "STABLE"]
             [] e.state = "PENDING" -> etharp_request(d, e.ip)
             [] OTHER -> d

(* mutant: an entry that waits is neither asked for again nor given up *)
WaitForever(c, i) ==
  LET e == c.arp[i]
      age == e.ctime + 1
      d == [c EXCEPT !.arp[i].ctime = age]
  IN  IF e.state \in {"EMPTY", "STATIC", "PENDING"} THEN c
      ELSE IF age >= ARP_MAXAGE \/ (e.state = "PENDING" /\ age >= ARP_MAXPENDING)
      THEN etharp_free_entry(c, i)
      ELSE CASE e.state = "REREQUESTING_1" -> [d EXCEPT !.arp[i].state = "REREQUESTING_2"]
             [] e.state = "REREQUESTING_2" -> [d EXCEPT !.arp[i].state = "STABLE"]
             [] e.state = "PENDING" -> etharp_request(d, e.ip)
             [] OTHER -> d

(* One entry in etharp_tmr. *)
AgeEntry(c, i) ==
  LET e == c.arp[i]
      age == e.ctime + 1
      d == [c EXCEPT !.arp[i].ctime = age]
  IN  IF e.state \in {"EMPTY", "STATIC"} THEN c
      ELSE IF age >= ARP_MAXAGE \/ (e.state = "PENDING" /\ age >= ARP_MAXPENDING)
      THEN etharp_free_entry(c, i)
      ELSE CASE e.state = "REREQUESTING_1" -> [d EXCEPT !.arp[i].state = "REREQUESTING_2"]
             [] e.state = "REREQUESTING_2" -> [d EXCEPT !.arp[i].state = "STABLE"]
             [] e.state = "PENDING" -> etharp_request(d, e.ip)
             [] OTHER -> d

(* Once a second, every entry. *)
etharp_tmr(c) ==
  LET upto[n \in 0 .. ARP_TABLE_SIZE] == IF n = 0 THEN c ELSE AgeEntry(upto[n - 1], n - 1)
  IN  upto[ARP_TABLE_SIZE]

=============================================================================
