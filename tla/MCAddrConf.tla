----------------------------- MODULE MCAddrConf -----------------------------
EXTENDS AddrConf, TLC

CONSTANTS ip1, ip2, OtherMac, HostA, HostB, MacA, MacB

Plan(a, f, l) ==
  [app |-> a, ip |-> ANY, owner |-> (ServerIp :> ServerMac), faults |-> f, lease |-> l, t1 |-> 0, t2 |-> 0,
   router |-> TRUE, stops |-> FALSE, renews |-> TRUE, peers |-> {}, asks |-> {}, pins |-> {}]

Contested(p) == [p EXCEPT !.owner = @ @@ (ip1 :> OtherMac)]

Static(f, peers) ==
  [Plan("idle", f, 12) EXCEPT !.ip = ip1, !.peers = peers,
     !.owner = @ @@ (HostA :> MacA) @@ (HostB :> MacB)]

(* Leases from shorter than a tick to infinite, with an orderly end; a      *)
(* fault while another host uses ip1; leases that are rebound, or end in    *)
(* REBINDING; the program's own client; traffic to hosts that move, with a  *)
(* table too small for them, and with a pinned one.                         *)
MCPLANS ==
  {Plan("lib", 0, l) : l \in {1, 6, 12, 28, INFINITE}}
  \cup {[Plan("lib", 0, 8) EXCEPT !.stops = TRUE], Contested(Plan("lib", 1, 12))}
  \cup {[Plan("lib", 1, 8) EXCEPT !.t1 = 4, !.t2 = 4], [Plan("lib", 1, 12) EXCEPT !.t1 = 4, !.t2 = 8],
        [Plan("lib", 0, 8) EXCEPT !.t1 = 4, !.t2 = 4, !.renews = FALSE]}
  \cup {Plan("poll", 2, 12), [Plan("poll", 0, 12) EXCEPT !.router = FALSE]}
  \cup {Static(2, {ServerIp}), Static(0, {ServerIp, HostA, FAR}),
        [Static(0, {ServerIp}) EXCEPT !.pins = {HostA}, !.asks = {HostB}]}
=============================================================================
