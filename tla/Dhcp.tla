-------------------------------- MODULE Dhcp --------------------------------
(***************************************************************************)
(* The DHCP client of lwIP (net/core/ipv4/dhcp.c) on one interface.        *)
(*                                                                         *)
(* The context of Etharp also holds c.dhcp, the client's record, and       *)
(* c.xid, the static transaction counter of dhcp_create_msg (modulo XIDS). *)
(* request_timeout is abstracted to whether it runs (armed); the counters  *)
(* of the coarse timer are kept.  tries saturates at TRIES, the last value *)
(* a comparison of the code tells apart (255 there).  Times are seconds    *)
(* modulo U32 and coarse ticks below U16.                                  *)
(***************************************************************************)
EXTENDS Etharp

CONSTANTS XIDS, TRIES, U32, U16,
          COARSE,            \* DHCP_COARSE_TIMER_SECS, 60
          RENEW_AGAIN,       \* (60 + COARSE / 2) / COARSE, 1
          REBOOT_TRIES,      \* 2
          GUESSED_GW         \* the first address of the network

INFINITE == U32 - 1

(* memset in dhcp_start *)
NewDhcp ==
  [state |-> "OFF", tries |-> 0, armed |-> FALSE, xid |-> 0, server |-> ANY,
   offered |-> ANY, mask |-> FALSE, gw |-> ANY, l0 |-> 0, l1 |-> 0, l2 |-> 0,
   t0 |-> 0, t2 |-> 0, r1 |-> 0, r2 |-> 0, used |-> 0, alloc |-> FALSE]

dhcp_set_state(c, state) ==
  IF c.dhcp.state = state THEN c
  ELSE [c EXCEPT !.dhcp.state = state, !.dhcp.tries = 0, !.dhcp.armed = FALSE]

(* The retry counter and the timeout that end every sending function. *)
Retry(c) ==
  [c EXCEPT !.dhcp.tries = IF @ < TRIES THEN @ + 1 ELSE @, !.dhcp.armed = TRUE]

(* An interface that is up announces its address by a gratuitous request. *)
netif_issue_reports(c) == IF c.ip = ANY THEN c ELSE etharp_request(c, c.ip)

netif_set_addr(c, ip, gw) ==
  IF ip = c.ip THEN [c EXCEPT !.gw = gw]
  ELSE netif_issue_reports([c EXCEPT !.ip = ip, !.gw = gw])

(* The transaction of a message: a first message other than a REQUEST      *)
(* starts a new one.                                                       *)
NextXid(c, type) ==
  IF type = "REQUEST" THEN c
  ELSE LET x == IF c.dhcp.tries = 0 THEN (c.xid + 1) % XIDS ELSE c.xid
       IN  [c EXCEPT !.xid = x, !.dhcp.xid = x]

(* dhcp_create_msg and udp_sendto_if: nothing happens without a pbuf. *)
Send(c, type, dst, req, sid) ==
  LET d == NextXid(c, type)
      ci == IF type \in {"DECLINE", "RELEASE"} \/ c.dhcp.state \in {"RENEWING", "REBINDING"}
            THEN c.ip ELSE ANY
  IN  IF ~c.mem THEN c
      ELSE etharp_output(d, [dst |-> dst, type |-> type, xid |-> d.dhcp.xid,
                             ciaddr |-> ci, req |-> req, sid |-> sid])

dhcp_discover(c) ==
  LET d == dhcp_set_state([c EXCEPT !.dhcp.offered = ANY], "SELECTING")
  IN  Retry(Send(d, "DISCOVER", BROADCAST, ANY, ANY))

dhcp_select(c) ==
  LET d == dhcp_set_state(c, "REQUESTING")
  IN  Retry(Send(d, "REQUEST", BROADCAST, d.dhcp.offered, d.dhcp.server))

dhcp_check(c) ==
  Retry(etharp_query(dhcp_set_state(c, "CHECKING"), c.dhcp.offered, NoPacket))

dhcp_decline(c) ==
  LET d == dhcp_set_state(c, "BACKING_OFF")
  IN  Retry(Send(d, "DECLINE", BROADCAST, d.dhcp.offered, ANY))

dhcp_renew(c) ==
  LET d == dhcp_set_state(c, "RENEWING")
  IN  Retry(Send(d, "REQUEST", d.dhcp.server, ANY, ANY))

dhcp_rebind(c) ==
  Retry(Send(dhcp_set_state(c, "REBINDING"), "REQUEST", BROADCAST, ANY, ANY))

dhcp_reboot(c) ==
  LET d == dhcp_set_state(c, "REBOOTING")
  IN  Retry(Send(d, "REQUEST", BROADCAST, d.dhcp.offered, ANY))

dhcp_supplied_address(c) == c.dhcp.state \in {"BOUND", "RENEWING"}

dhcp_release(c) ==
  LET d == [dhcp_set_state(c, "OFF") EXCEPT
              !.dhcp.server = ANY, !.dhcp.offered = ANY, !.dhcp.mask = FALSE,
              !.dhcp.gw = ANY, !.dhcp.l0 = 0, !.dhcp.l1 = 0, !.dhcp.l2 = 0,
              !.dhcp.r1 = 0, !.dhcp.r2 = 0, !.dhcp.used = 0, !.dhcp.t0 = 0]
  IN  IF ~dhcp_supplied_address(c) THEN d
      ELSE netif_set_addr(Send(d, "RELEASE", c.dhcp.server, ANY, c.dhcp.server), ANY, ANY)

dhcp_stop(c) == [dhcp_set_state(c, "OFF") EXCEPT !.dhcp.alloc = FALSE]

StopWithout(sent, c) == IF sent THEN c ELSE dhcp_stop(c)

(* Without a pbuf for the first DISCOVER the client is stopped again. *)
dhcp_start(c) ==
  StopWithout(c.mem, dhcp_discover([c EXCEPT !.dhcp = [NewDhcp EXCEPT !.alloc = TRUE]]))

(* mutant: rounded up, so that no lease is cut short *)
TicksUp(secs) ==
  LET t == ((secs + COARSE - 1) \div COARSE) + 1 IN IF t < U16 THEN t ELSE U16 - 1

(* Seconds in coarse ticks, rounded, at least one. *)
Ticks(secs) ==
  LET t == ((secs + COARSE \div 2) % U32) \div COARSE
  IN  IF t = 0 THEN 1 ELSE IF t < U16 THEN t ELSE U16 - 1

(* mutant: the time used of the last lease is counted against the new one *)
BindUsed(c) ==
  LET d  == c.dhcp
      gw == IF d.gw = ANY THEN GUESSED_GW ELSE d.gw
      b  == [d EXCEPT
               !.t0 = IF d.l0 = INFINITE THEN @ ELSE Ticks(d.l0),
               !.r1 = IF d.l1 = INFINITE THEN @ ELSE Ticks(d.l1),
               !.r2 = IF d.l2 = INFINITE THEN @ ELSE Ticks(d.l2),
               !.t2 = IF d.l2 = INFINITE THEN @ ELSE Ticks(d.l2)]
  IN  netif_set_addr(dhcp_set_state([c EXCEPT !.dhcp = b], "BOUND"), d.offered, gw)

dhcp_bind(c) ==
  LET d  == c.dhcp
      gw == IF d.gw = ANY THEN GUESSED_GW ELSE d.gw
      b  == [d EXCEPT !.used = 0,
               !.t0 = IF d.l0 = INFINITE THEN @ ELSE Ticks(d.l0),
               !.r1 = IF d.l1 = INFINITE THEN @ ELSE Ticks(d.l1),
               !.r2 = IF d.l2 = INFINITE THEN @ ELSE Ticks(d.l2),
               !.t2 = IF d.l2 = INFINITE THEN @ ELSE Ticks(d.l2)]
  IN  netif_set_addr(dhcp_set_state([c EXCEPT !.dhcp = b], "BOUND"), d.offered, gw)

(* What an ACK says.  T1 and T2 are taken from the lease when not given (0). *)
dhcp_handle_ack(c, m) ==
  LET l0 == m.lease
  IN  [c EXCEPT !.dhcp.offered = m.yiaddr, !.dhcp.mask = m.mask, !.dhcp.gw = m.gw,
                !.dhcp.l0 = l0, !.dhcp.l1 = IF m.t1 # 0 THEN m.t1 ELSE l0 \div 2,
                !.dhcp.l2 = IF m.t2 # 0 THEN m.t2 ELSE ((l0 * 7) % U32) \div 8]

dhcp_handle_nak(c) ==
  dhcp_discover(netif_set_addr(dhcp_set_state(c, "BACKING_OFF"), ANY, ANY))

dhcp_handle_offer(c, m) ==
  dhcp_select([c EXCEPT !.dhcp.server = m.server, !.dhcp.offered = m.yiaddr])

dhcp_recv(c, m) ==
  LET state == c.dhcp.state
      renewing == state \in {"REBOOTING", "REBINDING", "RENEWING"}
  IN  CASE ~c.dhcp.alloc \/ m.xid # c.dhcp.xid -> c
        [] OTHER ->
           CASE m.type = "ACK" /\ state = "REQUESTING" -> dhcp_check(dhcp_handle_ack(c, m))
             [] m.type = "ACK" /\ renewing -> dhcp_bind(dhcp_handle_ack(c, m))
             [] m.type = "NAK" /\ (renewing \/ state = "REQUESTING") -> dhcp_handle_nak(c)
             [] m.type = "OFFER" /\ state = "SELECTING" ->
                  dhcp_handle_offer([c EXCEPT !.dhcp.armed = FALSE], m)
             [] OTHER -> c

(* An ARP reply names addr while it is being checked: another host has it. *)
dhcp_arp_reply(c, addr) ==
  IF c.dhcp.state = "CHECKING" /\ addr = c.dhcp.offered THEN dhcp_decline(c) ELSE c

(* mutant: one probe is thought to be enough *)
CheckOnce(c) == dhcp_bind(c)

CheckAgain(c) == IF c.dhcp.tries <= 1 THEN dhcp_check(c) ELSE dhcp_bind(c)

(* mutant: a REQUEST is sent once *)
RequestOnce(c) ==
  CASE c.dhcp.state \in {"BACKING_OFF", "SELECTING"} -> dhcp_discover(c)
    [] c.dhcp.state = "CHECKING" -> CheckAgain(c)
    [] c.dhcp.state = "REBOOTING" ->
         IF c.dhcp.tries < REBOOT_TRIES THEN dhcp_reboot(c) ELSE dhcp_discover(c)
    [] OTHER -> c

dhcp_timeout(c) ==
  CASE c.dhcp.state \in {"BACKING_OFF", "SELECTING"} -> dhcp_discover(c)
    [] c.dhcp.state = "REQUESTING" ->
         IF c.dhcp.tries <= 5 THEN dhcp_select(c) ELSE dhcp_discover(dhcp_release(c))
    [] c.dhcp.state = "CHECKING" -> CheckAgain(c)
    [] c.dhcp.state = "REBOOTING" ->
         IF c.dhcp.tries < REBOOT_TRIES THEN dhcp_reboot(c) ELSE dhcp_discover(c)
    [] OTHER -> c

(* request_timeout runs out *)
dhcp_fine_tmr(c) ==
  IF c.dhcp.armed THEN dhcp_timeout([c EXCEPT !.dhcp.armed = FALSE]) ELSE c

(* The next attempt comes after half the time that is left. *)
AgainT1(c, half) == IF half >= RENEW_AGAIN THEN [c EXCEPT !.dhcp.r1 = half] ELSE c
AgainT2(c, half) == IF half >= RENEW_AGAIN THEN [c EXCEPT !.dhcp.r2 = half] ELSE c

dhcp_t1_timeout(c) ==
  IF c.dhcp.state \in {"REQUESTING", "BOUND", "RENEWING"}
  THEN AgainT1(dhcp_renew(c), (c.dhcp.t2 - c.dhcp.used) \div 2) ELSE c

dhcp_t2_timeout(c) ==
  IF c.dhcp.state \in {"REQUESTING", "BOUND", "RENEWING", "REBINDING"}
  THEN AgainT2(dhcp_rebind(c), (c.dhcp.t0 - c.dhcp.used) \div 2) ELSE c

(* The lease ends, or it is time to rebind, or to renew. *)
CountRenewals(c) ==
  LET d == IF c.dhcp.r2 # 0 THEN [c EXCEPT !.dhcp.r2 = @ - 1] ELSE c
  IN  IF c.dhcp.r2 = 1 THEN dhcp_t2_timeout(d)
      ELSE IF c.dhcp.r1 = 1 THEN dhcp_t1_timeout([d EXCEPT !.dhcp.r1 = 0])
      ELSE IF c.dhcp.r1 # 0 THEN [d EXCEPT !.dhcp.r1 = @ - 1] ELSE d

LeaseTick(c) ==
  IF c.dhcp.t0 # 0 /\ c.dhcp.used = c.dhcp.t0 THEN dhcp_discover(dhcp_release(c))
  ELSE CountRenewals(c)

dhcp_coarse_tmr(c) ==
  IF c.dhcp.state = "OFF" THEN c
  ELSE LeaseTick(IF c.dhcp.t0 # 0 THEN [c EXCEPT !.dhcp.used = @ + 1] ELSE c)

dhcp_network_changed(c) ==
  LET d == [c EXCEPT !.dhcp.tries = 0]
  IN  CASE c.dhcp.state \in {"REBINDING", "RENEWING", "BOUND", "REBOOTING"} -> dhcp_reboot(d)
        [] c.dhcp.state = "OFF" -> c
        [] OTHER -> dhcp_discover(d)

netif_set_link_up(c) == netif_issue_reports(dhcp_network_changed(c))

=============================================================================
