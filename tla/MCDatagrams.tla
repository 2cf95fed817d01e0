----------------------------- MODULE MCDatagrams -----------------------------
(* The resolver and the reassembly of datagrams, one or the other.           *)
EXTENDS Resolver, Reassembly, TLC

CONSTANTS u1, u2, n1, n2, n3, a1, a2, a3, s1, s2, d1, d2, d3

VARIABLE part

Addr(n) == CASE n = n1 -> a1 [] n = n2 -> a2 [] OTHER -> a3

Base == [servers |-> (0 :> s1 @@ 1 :> s2), faults |-> 0, shell |-> FALSE, impatient |-> FALSE,
         timer |-> TRUE, late |-> 0, lookups |-> 3, ttls |-> {2}, errors |-> FALSE, silent |-> {}]

(* Answers of several lifetimes; a silent server and names that do not      *)
(* exist; the shell's lookups; lost and repeated datagrams, changed servers *)
(* and failed allocations, with and without the timer; datagrams that are   *)
(* still under way when the timer asks again or asks the next server.       *)
MCPLANS ==
  {[Base EXCEPT !.ttls = {0, 3}],
   [Base EXCEPT !.silent = {s1}, !.errors = TRUE], [Base EXCEPT !.silent = {s1, s2}],
   [Base EXCEPT !.shell = TRUE, !.timer = FALSE, !.impatient = TRUE],
   [Base EXCEPT !.late = 1, !.lookups = 2],
   [Base EXCEPT !.timer = FALSE, !.faults = 1],
   [Base EXCEPT !.faults = 1, !.ttls = {1}, !.servers = (0 :> s1 @@ 1 :> NONE)]}

Datagram(i, l, m) == [id |-> i, len |-> l, mtu |-> m]

(* Four fragments; three datagrams that do not fit; one that comes by two   *)
(* routes in different fragments.                                           *)
MCSHIPMENTS ==
  {{}, {Datagram(d1, 30, 28)},
   {Datagram(d1, 24, 28), Datagram(d2, 16, 28), Datagram(d3, 16, 28)},
   {Datagram(d1, 24, 28), Datagram(d1, 24, 36), Datagram(d2, 16, 28)}}

Init ==
  /\ DnsInit /\ ReassInit
  /\ \/ part = "dns" /\ unsent = {}
     \/ part = "reass" /\ plan = CHOOSE p \in PLANS : TRUE

Next ==
  \/ part = "dns" /\ DnsNext /\ UNCHANGED <<part, reassVars>>
  \/ part = "reass" /\ ReassNext /\ UNCHANGED <<part, dnsVars>>

Spec == Init /\ [][Next]_<<part, dnsVars, reassVars>> /\ DnsFairness /\ ReassFairness

=============================================================================
