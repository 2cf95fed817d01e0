------------------------------ MODULE AddrConf ------------------------------
(***************************************************************************)
(* One interface on an Ethernet with a DHCP server, a gateway and other    *)
(* hosts: the program's dhcpclient_start (net/apps/dhcpclient.c), or an    *)
(* application that uses the DHCP client directly, the polling loop of     *)
(* net/apps/net_main.c that drives the receive path and the timers, ARP    *)
(* input, and traffic that needs ARP.                                      *)
(*                                                                         *)
(* The wire is two sets of frames.  Frames arrive in any order; with the   *)
(* budget `faults' one is lost, duplicated, or still under way when a      *)
(* timer runs, or a pbuf_alloc fails.  Otherwise answers come before       *)
(* timers expire.  The server and the other hosts are external.            *)
(***************************************************************************)
EXTENDS Dhcp, FiniteSets

CONSTANTS Pool,       \* the addresses the server leases
          ServerIp, ServerMac,
          Hosts,      \* the addresses of other hosts
          Macs,       \* their MAC addresses
          MAX_WIRE,   \* frames on the wire when new traffic is started
          PLANS       \* what is set up, see Init

VARIABLES node,       \* the interface: ip, gw, arp, hint, dhcp, xid
          orphan,     \* history: the lease of node.ip ended and left it behind
          app,        \* "idle", "poll" (in dhcpclient_start), "lib", "done"
          pass,       \* how far the polling pass has come: "rx", "fine", "coarse"
          up, down,   \* frames on the wire
          lease,      \* the server's leases
          owner,      \* which MAC address answers for an address
          since,      \* seconds since an owner last changed
          reached,    \* the hosts that got the last packet sent to them
          faults,     \* what may still go wrong
          plan

env == <<down, lease, owner, since, reached, plan>>
iface == <<node, orphan>>
vars == <<iface, app, pass, up, faults, env>>

Free == [who |-> "free", age |-> 0]

(* The record is of its type: every entry is younger than its limit, the   *)
(* hint is an entry, and the client's counters stay below their limits.    *)
TypeOK ==
  /\ app \in {"idle", "poll", "lib", "done"}
  /\ pass \in {"rx", "fine", "coarse"}
  /\ node.ip \in Pool \cup {ANY}
  /\ node.hint \in Slots
  /\ \A i \in Slots : node.arp[i].ctime < IF node.arp[i].state = "PENDING"
                                         THEN ARP_MAXPENDING ELSE ARP_MAXAGE
  /\ node.dhcp.tries \in 0 .. TRIES
  /\ {node.dhcp.t0, node.dhcp.r1, node.dhcp.r2} \subseteq 0 .. U16 - 1
  /\ \A a \in Pool : lease[a].who \in {"free", "me", "bad", "lost", "released"}

(* dhcp_release clears the lease and, as dhcp_supplied_address is false,   *)
(* leaves the address on the interface.                                    *)
LeavesAddress(c) ==
  /\ node.dhcp.t0 # 0 /\ c.dhcp.t0 = 0 /\ ~dhcp_supplied_address(node)

(* A step of the interface: run call on the context, send what it emits. *)
Run(c, ok) ==
  /\ node' = [ip |-> c.ip, gw |-> c.gw, arp |-> c.arp, hint |-> c.hint,
              dhcp |-> c.dhcp, xid |-> c.xid]
  /\ orphan' = (c.ip # ANY /\ c.ip = node.ip /\ (orphan \/ LeavesAddress(c)))
  /\ up' = up \cup c.out
  /\ faults' = IF ok THEN faults ELSE faults - 1

Context(ok) ==
  [ip |-> node.ip, gw |-> node.gw, arp |-> node.arp, hint |-> node.hint,
   dhcp |-> node.dhcp, xid |-> node.xid, out |-> {}, mem |-> ok]

(* pbuf_alloc succeeds, or fails at the cost of one fault. *)
Mem == IF faults > 0 THEN BOOLEAN ELSE {TRUE}

Init ==
  /\ plan \in PLANS
  /\ node = [ip |-> plan.ip, gw |-> IF plan.ip = ANY THEN ANY ELSE ServerIp,
             arp |-> [i \in Slots |-> EmptyEntry], hint |-> 0, dhcp |-> NewDhcp, xid |-> 0]
  /\ app = "idle" /\ pass = "rx" /\ orphan = FALSE
  /\ up = {} /\ down = {}
  /\ lease = [a \in Pool |-> Free]
  /\ owner = plan.owner
  /\ since = 0 /\ reached = plan.peers /\ faults = plan.faults

(* Where a packet goes on the link. *)
NextHop(pkt) == IF pkt.dst = FAR THEN ServerIp ELSE pkt.dst

IsData(f) == f.kind = "ip" /\ f.pkt.dst \in plan.peers

(* An answer is due. *)
Busy == \E f \in up \cup down : ~IsData(f)

(* A timer runs when the wire is silent, or too early at the cost of a fault. *)
Timer(c) == Run(c, ~Busy) /\ (Busy => faults > 0)

(***************************************************************************)
(* The applications.                                                       *)
(***************************************************************************)
(* dhcpclient_start does not look at what dhcp_start returns. *)
Start ==
  /\ app = "idle" /\ plan.app \in {"poll", "lib"}
  /\ app' = plan.app
  /\ \E ok \in Mem : Run(dhcp_start(Context(ok)), ok)
  /\ UNCHANGED <<pass, env>>

Answered == /\ node.dhcp.offered # ANY /\ node.dhcp.mask /\ node.dhcp.gw # ANY

(* The loop of dhcpclient_start, after every polling pass. *)
(* mutant: the lease is given back first *)
ReleaseFirst(c) ==
  LET d == dhcp_release(c) IN dhcp_stop(netif_set_addr(d, d.dhcp.offered, d.dhcp.gw))

UseOffer(c) ==
  dhcp_stop(dhcp_release(netif_set_addr(c, c.dhcp.offered, c.dhcp.gw)))

Check ==
  /\ app = "poll" /\ (Answered \/ pass # "rx")
  /\ pass' = "rx"
  /\ IF Answered
     THEN app' = "done" /\ \E ok \in Mem : Run(UseOffer(Context(ok)), ok)
     ELSE UNCHANGED <<app, iface, up, faults>>
  /\ UNCHANGED env

(* An application that uses the client as its documentation says. *)
Stop ==
  /\ app = "lib" /\ plan.app = "lib" /\ plan.stops
  /\ app' = "done"
  /\ \E ok \in Mem : Run(dhcp_stop(dhcp_release(Context(ok))), ok)
  /\ UNCHANGED <<pass, env>>

LinkUp ==
  /\ app = "lib" /\ plan.app = "lib" /\ faults > 0
  /\ Run(netif_set_link_up(Context(TRUE)), FALSE)
  /\ UNCHANGED <<app, pass, env>>

(* Traffic. *)
Data(h) == [dst |-> h, data |-> TRUE]

AppSend(h) ==
  /\ h \in plan.peers /\ node.ip # ANY /\ Cardinality(up \cup down) < MAX_WIRE
  /\ \E ok \in Mem : Run(etharp_output(Context(ok), Data(h)), ok)
  /\ reached' = reached \ {h}
  /\ UNCHANGED <<app, pass, down, lease, owner, since, plan>>

(***************************************************************************)
(* net_main.c: LWIP_Polling.                                               *)
(***************************************************************************)
etharp_input(c, f) ==
  LET for_us == c.ip # ANY /\ f.tip = c.ip
      d == etharp_update_arp_entry(c, f.sip, f.smac,
                                   IF for_us THEN {"TRY_HARD"} ELSE {"FIND_ONLY"})
  IN  IF f.op = "REPLY" THEN dhcp_arp_reply(d, f.sip)
      ELSE IF for_us /\ c.mem THEN Emit(d, ArpFrame("REPLY", f.smac, c.ip, Me, f.sip))
      ELSE d

(* A frame may come twice: it is taken and stays on the wire. *)
Receive(f) ==
  /\ app = "poll" => pass = "rx"
  /\ \E how \in {"once"} \cup IF faults > 0 THEN {"again", "no memory"} ELSE {} :
       LET c == Context(how # "no memory")
       IN  /\ Run(IF f.kind = "arp" THEN etharp_input(c, f) ELSE dhcp_recv(c, f), how = "once")
           /\ down' = IF how = "again" THEN down ELSE down \ {f}
  /\ UNCHANGED <<app, pass, lease, owner, since, reached, plan>>

FineTmr ==
  /\ node.dhcp.armed /\ (app = "poll" => pass = "rx")
  /\ pass' = IF app = "poll" THEN "fine" ELSE pass
  /\ Timer(dhcp_fine_tmr(Context(TRUE)))
  /\ UNCHANGED <<app, env>>

(* A lease is being counted. *)
Counting ==
  /\ node.dhcp.state # "OFF" /\ node.dhcp.t0 + node.dhcp.r1 + node.dhcp.r2 > 0
  /\ app = "poll" => pass # "coarse"

(* The slot meant for dns_tmr, once a second, runs dhcp_coarse_tmr too. *)
DnsSlot ==
  /\ Counting
  /\ pass' = IF app = "poll" THEN "coarse" ELSE pass
  /\ Timer(dhcp_coarse_tmr(Context(TRUE)))
  /\ UNCHANGED <<app, env>>

(* Once a minute; the server's clock moves on as well.  A running          *)
(* request_timeout is over before a whole minute is.                       *)
CoarseTmr ==
  /\ ~node.dhcp.armed
  /\ app = "poll" => pass # "coarse"
  /\ pass' = IF app = "poll" THEN "coarse" ELSE pass
  /\ Timer(dhcp_coarse_tmr(Context(TRUE)))
  /\ lease' = [a \in Pool |-> IF lease[a].who = "me" /\ lease[a].age <= plan.lease + COARSE
                             THEN [lease[a] EXCEPT !.age = @ + COARSE] ELSE lease[a]]
  /\ UNCHANGED <<app, down, owner, since, reached, plan>>

ArpTmr ==
  /\ Timer(etharp_tmr(Context(TRUE)))
  /\ since' = IF plan.peers # {} /\ since <= ARP_MAXAGE + 1 THEN since + 1 ELSE since
  /\ UNCHANGED <<app, pass, down, lease, owner, reached, plan>>

(***************************************************************************)
(* The other end of the wire.                                              *)
(***************************************************************************)
(* What dhcp_parse_reply finds in an answer of the server. *)
Reply(m, type, a) ==
  [kind |-> "dhcp", type |-> type, xid |-> m.xid, yiaddr |-> a, server |-> ServerIp,
   lease |-> plan.lease, t1 |-> plan.t1, t2 |-> plan.t2, mask |-> TRUE,
   gw |-> IF plan.router THEN ServerIp ELSE ANY]

Leasable(a) == lease[a].who # "bad"

(* The server offers what is not declined, acknowledges what it offered or *)
(* leased to this client, and otherwise says no.  One that does not renew  *)
(* ignores the REQUESTs of a client that uses the address.                 *)
Serve(m) ==
  LET a == IF m.req # ANY THEN m.req ELSE m.ciaddr
      granted == a \in Pool /\ IF m.sid = ServerIp THEN Leasable(a) ELSE lease[a].who = "me"
  IN  CASE m.type = "DISCOVER" ->
             /\ down' \in {down \cup {Reply(m, "OFFER", b)} : b \in {x \in Pool : Leasable(x)}}
             /\ UNCHANGED lease
        [] m.type = "REQUEST" ->
             IF m.ciaddr # ANY /\ ~plan.renews THEN UNCHANGED <<down, lease>>
             ELSE IF granted
             THEN /\ down' = down \cup {Reply(m, "ACK", a)}
                  /\ lease' = [lease EXCEPT ![a] = [who |-> "me", age |-> 0]]
             ELSE down' = down \cup {Reply(m, "NAK", ANY)} /\ UNCHANGED lease
        [] m.type = "DECLINE" ->
             lease' = [lease EXCEPT ![m.req] = [who |-> "bad", age |-> 0]] /\ UNCHANGED down
        [] m.type = "RELEASE" ->
             /\ lease' = IF m.ciaddr \in Pool THEN [lease EXCEPT ![m.ciaddr].who = "released"] ELSE lease
             /\ UNCHANGED down

Asked(f) == f.op = "REQUEST" /\ f.tip \in DOMAIN owner /\ f.to \in {EVERYONE, owner[f.tip]}

(* A frame of the interface arrives at whom it is for. *)
Arrive(f) ==
  /\ up' = up \ {f}
  /\ \/ /\ f.kind = "arp"
        /\ down' = IF Asked(f)
                   THEN down \cup {ArpFrame("REPLY", Me, f.tip, owner[f.tip], f.sip)}
                   ELSE down
        /\ UNCHANGED <<lease, reached>>
     \/ /\ f.kind = "ip" /\ f.pkt.dst \in plan.peers
        /\ reached' = IF f.to = owner[NextHop(f.pkt)] THEN reached \cup {f.pkt.dst} ELSE reached
        /\ UNCHANGED <<down, lease>>
     \/ /\ f.kind = "ip" /\ f.pkt.dst \notin plan.peers
        /\ Serve(f.pkt)
        /\ UNCHANGED reached
  /\ UNCHANGED <<iface, app, pass, owner, since, faults, plan>>

Lose ==
  /\ faults > 0 /\ faults' = faults - 1
  /\ \E f \in up \cup down : up' = up \ {f} /\ down' = down \ {f}
  /\ UNCHANGED <<iface, app, pass, lease, owner, since, reached, plan>>

(* The server starts over and has forgotten its leases. *)
Forget ==
  /\ faults > 0 /\ faults' = faults - 1
  /\ \E a \in Pool : lease[a].who = "me"
  /\ lease' = [a \in Pool |-> IF lease[a].who = "me" THEN [who |-> "lost", age |-> 0] ELSE lease[a]]
  /\ UNCHANGED <<iface, app, pass, up, down, owner, since, reached, plan>>

(* An address moves to other hardware, which may announce it. *)
Move(h) ==
  /\ h \in plan.peers /\ h \in DOMAIN owner /\ faults > 0 /\ faults' = faults - 1
  /\ \E m \in Macs \ {owner[h]} :
       /\ owner' = [owner EXCEPT ![h] = m]
       /\ down' \in {down, down \cup {ArpFrame("REQUEST", EVERYONE, h, m, h)}}
  /\ since' = 0
  /\ UNCHANGED <<iface, app, pass, up, lease, reached, plan>>

(* A host looks for this interface. *)
Ask(h) ==
  /\ h \in plan.asks /\ node.ip # ANY /\ Cardinality(up \cup down) < MAX_WIRE
  /\ down' = down \cup {ArpFrame("REQUEST", EVERYONE, h, owner[h], node.ip)}
  /\ UNCHANGED <<iface, app, pass, up, lease, owner, since, reached, faults, plan>>

Pin(h) ==
  /\ h \in plan.pins
  /\ \/ Run(etharp_add_static_entry(Context(TRUE), h, owner[h]), TRUE)
     \/ Run(etharp_remove_static_entry(Context(TRUE), h), TRUE)
  /\ UNCHANGED <<app, pass, env>>

(* netif_set_down, netif_set_up *)
DownUp ==
  /\ plan.app = "idle" /\ faults > 0
  /\ Run(netif_issue_reports(etharp_cleanup_netif(Context(TRUE))), FALSE)
  /\ UNCHANGED <<app, pass, env>>

Wire == (\E f \in up : Arrive(f)) \/ (\E f \in down : Receive(f))

Next ==
  \/ Start \/ Check \/ Stop \/ LinkUp \/ FineTmr \/ DnsSlot \/ CoarseTmr \/ ArpTmr
  \/ Wire \/ Lose \/ Forget \/ DownUp
  \/ \E h \in Hosts : AppSend(h) \/ Move(h) \/ Ask(h) \/ Pin(h)

Spec == Init /\ [][Next]_vars

(***************************************************************************)
(* Properties.                                                             *)
(***************************************************************************)
(* No two entries of the ARP table are for one address: etharp_find_entry  *)
(* looks at the whole table before it takes an empty or an old entry,      *)
(* whatever requests, answers, timers and recycling came before.           *)
OneEntryPerHost ==
  \A i, j \in Slots : /\ node.arp[i].state # "EMPTY" /\ node.arp[j].state # "EMPTY"
                      /\ node.arp[i].ip = node.arp[j].ip
                      => i = j

(* A packet waits in an entry only while its owner is being asked for:     *)
(* every way out of PENDING sends or frees it (etharp_update_arp_entry,    *)
(* etharp_free_entry), so none is held in an entry nobody will look at.    *)
WaitsPending == \A i \in Slots : node.arp[i].q # NoPacket => node.arp[i].state = "PENDING"

(* The interface has an address from the client, whatever its state. Only  *)
(* where dhcp_start is used as the library means it: dhcpclient_start sets *)
(* an offer as the address before the client has checked and bound it.     *)
Configured == plan.app = "lib" /\ node.ip # ANY

(* The client says that it holds a lease.                                  *)
Holding == Configured /\ node.dhcp.state \in {"BOUND", "RENEWING", "REBINDING"}

(* A lease is counted in whole coarse ticks, rounded: half a tick more     *)
(* than the lease, one tick at least.                                      *)
Longest == LET half == plan.lease + COARSE \div 2 IN IF half > COARSE THEN half ELSE COARSE

(* While the interface has an address, the server leased it to the client, *)
(* and the address goes no later than half a coarse tick after the lease   *)
(* ended, whatever was lost, repeated or delayed, and whatever the client  *)
(* is doing by then: renewing, starting over after a link change, or       *)
(* asking for the next address.  The exception is what the code does when  *)
(* the lease ends in any state but BOUND and RENEWING, in REBINDING first  *)
(* of all: dhcp_release returns before it "remove[s] IP address from       *)
(* interface" (dhcp.c:1330).  The server may have forgotten the lease, or  *)
(* taken it back when a RELEASE that waited for ARP was overtaken by the   *)
(* next REQUEST.                                                           *)
LeaseHeld ==
  Configured => /\ lease[node.ip].who \in {"me", "lost", "released"}
                /\ plan.lease = INFINITE \/ orphan \/ lease[node.ip].age + COARSE <= Longest

(* The client does not settle on an address another host answers for: both *)
(* ARP probes of dhcp_check go out before dhcp_bind, so one lost frame     *)
(* does not hide the other host.                                           *)
Uncontested == Configured /\ plan.faults <= 1 => node.ip \notin DOMAIN owner

(* With a server that answers, an address that is held is never given up:  *)
(* renewals come before the lease ends and start its counters anew.        *)
KeepsAddress ==
  [][plan.faults = 0 /\ plan.renews /\ Ticks(plan.lease) >= 2 /\ Holding /\ app' = app
     => node'.ip = node.ip]_vars

(* When dhcpclient_start returns, the interface has an address the server  *)
(* leased to it and the client is off and freed, though the address is set *)
(* before the checks of dhcp_check are over.                               *)
ReturnsConfigured ==
  app = "done" /\ plan.app = "poll"
  => /\ node.ip # ANY /\ lease[node.ip].who \in {"me", "lost"}
     /\ node.dhcp.state = "OFF" /\ ~node.dhcp.alloc

(* A packet is never sent to a MAC address its next hop gave up more than  *)
(* ARP_MAXAGE seconds before: entries age out even when they are used and  *)
(* asked for again.                                                        *)
NewMac ==
  [][\A f \in up' \ up : IsData(f) /\ f.pkt.dst \notin plan.pins /\ since > ARP_MAXAGE
                        => f.to = owner[NextHop(f.pkt)]]_vars

(* A static entry is changed only by etharp_add_static_entry and           *)
(* etharp_remove_static_entry: neither ARP traffic that contradicts it nor *)
(* a full table replaces it.                                               *)
StaticKept ==
  [][\A i \in Slots :
       node.arp[i].state = "STATIC" /\ node'.arp[i] # node.arp[i] /\ faults' = faults
       => node'.arp[i] \in {EmptyEntry, [node.arp[i] EXCEPT !.mac = owner[node.arp[i].ip]]}]_vars

(***************************************************************************)
(* Progress.  The wire delivers, the polling loop runs the timers, and the *)
(* application sends again what is neither on the wire nor waiting for an  *)
(* address.  Each assumption reads: the action is taken again and again,   *)
(* or it is again and again impossible.                                    *)
(***************************************************************************)
InPass == app = "poll" => pass = "rx"

Ageing == etharp_tmr(Context(TRUE)).arp # node.arp

UpFor(h) == {f \in up : IsData(f) /\ f.pkt.dst = h}

Resend(h) ==
  /\ h \in plan.peers \ reached /\ Cardinality(up \cup down) < MAX_WIRE
  /\ UpFor(h) = {}
  /\ \A i \in Slots : node.arp[i].q # Data(h)

Fairness ==
  /\ []<>(\A f \in up : IsData(f)) \/ []<><<\E f \in up : ~IsData(f) /\ Arrive(f)>>_vars
  /\ []<>(down = {} \/ ~InPass) \/ []<><<\E f \in down : Receive(f)>>_vars
  /\ []<>(app # "idle" \/ plan.app = "idle") \/ []<><<Start>>_vars
  /\ []<>~(app = "poll" /\ (Answered \/ pass # "rx")) \/ []<><<Check>>_vars
  /\ []<>~(node.dhcp.armed /\ InPass /\ ~Busy) \/ []<><<FineTmr>>_vars
  /\ []<>~(Counting /\ ~node.dhcp.armed /\ ~Busy) \/ []<><<CoarseTmr>>_vars
  /\ <>[]~(Ageing /\ ~Busy) \/ []<><<ArpTmr>>_vars
  /\ \A h \in Hosts :
       /\ []<>(UpFor(h) = {}) \/ []<><<\E f \in UpFor(h) : Arrive(f)>>_vars
       /\ <>[]~Resend(h) \/ []<><<AppSend(h)>>_vars

FairSpec == Spec /\ Fairness

(* The client always gets back to a lease as long as it runs, and          *)
(* dhcpclient_start returns unless the ACK named no router or dhcp_start   *)
(* had failed (it does not look at its result and waits for ever).         *)
GetsAddress ==
  /\ plan.app = "lib" => []<>(Holding \/ app # "lib" \/ ~node.dhcp.alloc)
  /\ plan.app = "poll" /\ plan.router => <>(app = "done" \/ (app = "poll" /\ ~node.dhcp.alloc))

Alone(h) == \A g \in plan.peers \ {h} : NextHop(Data(g)) # NextHop(Data(h))

(* Packets to a host reach it again and again: a request that is lost is   *)
(* repeated or given up and made again by the next packet. Two hosts       *)
(* behind one next hop share the one packet an entry keeps and may starve  *)
(* each other; they are left out.                                          *)
Reaches ==
  \A h \in Hosts : h \in plan.peers /\ Alone(h) /\ plan.asks = {} => []<>(h \in reached)

=============================================================================
