------------------------------ MODULE Resolver ------------------------------
(***************************************************************************)
(* Users of the DNS client, name servers and the wire between them.        *)
(*                                                                         *)
(* The shell looks up a name with hostname_to_ip (net/apps/                *)
(* http_urlparser.c) on its own CPU and waits two seconds for the callback *)
(* that the network CPU makes; other users pass a callback of their own.   *)
(* dns_tmr runs once a second where lwIP's timers do (net/core/timeouts.c) *)
(* and not at all in the program's polling loop (net/apps/net_main.c), so  *)
(* both are among the plans.  Name servers are external.                   *)
(***************************************************************************)
EXTENDS Dns

CONSTANTS Users, Shell, Names,
          AddrOf(_),        \* the address of a name
          SERVERS,          \* name servers
          PLANS             \* what is set up, see DnsInit; plan.lookups bounds the
                            \* lookups, plan.late the datagrams that are still
                            \* under way when dns_tmr runs

VARIABLES dns,
          user,     \* the name a user waits for
          heard,    \* the callbacks of the last step
          shell,    \* the globals of http_urlparser.c, and where the shell is
          wire,     \* queries and answers under way
          age,      \* how long an answer has been in the table
          left, faults, plan

dnsVars == <<dns, user, heard, shell, wire, age, left, faults, plan>>

DnsInit ==
  /\ plan \in PLANS
  /\ dns = [table |-> [i \in Entries |-> UnusedEntry],
            req |-> [i \in Entries |-> [found |-> NONE, idx |-> 0]],
            pcbs |-> [i \in Entries |-> 0], last |-> 0, seqno |-> 0,
            servers |-> plan.servers, out |-> {}, calls |-> {}]
  /\ user = [u \in Users |-> NONE]
  /\ heard = {}
  /\ shell = [at |-> "idle", name |-> NONE, have |-> FALSE, got |-> FALSE, addr |-> NONE,
              crossed |-> FALSE]
  /\ wire = {}
  /\ age = [i \in Entries |-> 0]
  /\ left = plan.lookups /\ faults = plan.faults

(* The random numbers and the memory a call meets.  A transaction that is  *)
(* in use is drawn again, a port in use is not bound; a port of 0 and mem  *)
(* FALSE are allocations that fail.                                        *)
Random ==
  {r \in [txid : TXIDS, port : PORTS \cup {0}, mem : BOOLEAN] :
     /\ \A i \in Entries : Asking(dns, i) => dns.table[i].txid # r.txid
     /\ \A i \in Entries : dns.pcbs[i] = r.port => r.port = 0
     /\ (r.port = 0 \/ ~r.mem) => faults > 0 /\ (r.port # 0 \/ r.mem)}

Spent(r) == IF r.port = 0 \/ ~r.mem THEN faults - 1 ELSE faults

(* dns_result_callback *)
ShellCallback(s, c) ==
  [s EXCEPT !.got = TRUE, !.have = c.addr # NONE, !.addr = IF c.addr = NONE THEN @ ELSE c.addr]

(* A call returns: the queries are on the wire and the callbacks were made, *)
(* to the shell (hostname_to_ip) through its globals and to other callers  *)
(* of dns_gethostbyname as they are; these forget the name they waited for. *)
Return(d, us, s, w) ==
  LET mine == {c \in d.calls : c.user = Shell}
  IN  /\ dns' = [d EXCEPT !.out = {}, !.calls = {}]
      /\ wire' = w \cup d.out
      /\ heard' = {[asked |-> us[c.user], name |-> c.name, addr |-> c.addr] :
                     c \in d.calls \ mine}
      /\ user' = [u \in Users |-> IF \E c \in d.calls : c.user = u THEN NONE ELSE us[u]]
      /\ shell' = IF mine = {} THEN s ELSE ShellCallback(s, CHOOSE c \in mine : TRUE)

Lookup(u, name) ==
  /\ user[u] = NONE /\ left > 0 /\ left' = left - 1
  /\ \E rnd \in Random :
       LET g == dns_gethostbyname(dns, name, u, rnd)
       IN  /\ Return(g.d, IF g.err = "INPROGRESS" THEN [user EXCEPT ![u] = name] ELSE user, shell, wire)
           /\ faults' = Spent(rnd)
  /\ UNCHANGED <<age, plan>>

(* An earlier lookup of the shell, given up after two seconds, is still     *)
(* open; its callback writes to the same globals.                          *)
OpenFor(name) ==
  \E r \in Entries : dns.req[r].found = Shell /\ dns.table[dns.req[r].idx].name # name

(* hostname_to_ip up to its loop *)
Begun(g, name) ==
  LET s == [at |-> "use", name |-> name, have |-> FALSE, got |-> FALSE, addr |-> NONE,
            crossed |-> OpenFor(name)]
  IN  CASE g.err = "OK" -> [s EXCEPT !.have = TRUE, !.addr = g.addr]
        [] g.err = "INPROGRESS" -> [s EXCEPT !.at = "wait"]
        [] OTHER -> s

HostnameToIp(name) ==
  /\ plan.shell /\ shell.at = "idle" /\ left > 0 /\ left' = left - 1
  /\ \E rnd \in Random :
       LET g == dns_gethostbyname(dns, name, Shell, rnd)
       IN  Return(g.d, user, Begun(g, name), wire) /\ faults' = Spent(rnd)
  /\ UNCHANGED <<age, plan>>

(* The loop ends when the callback has been made, or after two seconds. *)
WaitOver ==
  /\ shell.at = "wait" /\ (shell.got \/ plan.impatient)
  /\ shell' = [shell EXCEPT !.at = "use"]
  /\ heard' = {}
  /\ UNCHANGED <<dns, user, wire, age, left, faults, plan>>

(* The connection is made with what purl->ip then points to. *)
Use ==
  /\ shell.at = "use"
  /\ shell' = [shell EXCEPT !.at = "idle"]
  /\ heard' = {}
  /\ UNCHANGED <<dns, user, wire, age, left, faults, plan>>

Live == {i \in Entries : dns.table[i].state # "UNUSED"}

DnsTmr ==
  /\ plan.timer /\ Live # {} /\ Cardinality(wire) <= plan.late
  /\ \E rnd \in {r \in Random : r.port # 0} :
       Return(dns_tmr(dns, rnd), user, shell, wire) /\ faults' = Spent(rnd)
  /\ age' = [i \in Entries |-> IF dns.table[i].state = "DONE" /\ dns'.table[i].state = "DONE"
                             THEN age[i] + 1 ELSE 0]
  /\ UNCHANGED <<left, plan>>

(* UDP hands a datagram to dns_recv when its port is open. *)
Recv(m) ==
  /\ m.kind = "answer"
  /\ \E again \in IF faults > 0 THEN BOOLEAN ELSE {FALSE} :
       LET w == IF again THEN wire ELSE wire \ {m}
       IN  /\ faults' = IF again THEN faults - 1 ELSE faults
           /\ IF \E i \in Entries : dns.pcbs[i] = m.port THEN Return(dns_recv(dns, m), user, shell, w)
              ELSE Return(dns, user, shell, w)
  /\ age' = [i \in Entries |-> IF dns'.table[i].state = "DONE" /\ dns.table[i].state = "DONE"
                             THEN age[i] ELSE 0]
  /\ UNCHANGED <<left, plan>>

(* A name server answers, says that there is no such name, or is down. *)
Answer(m) ==
  /\ m.kind = "query"
  /\ \E ttl \in plan.ttls, a \in {AddrOf(m.name)} \cup IF plan.errors THEN {NONE} ELSE {} :
       wire' = (wire \ {m}) \cup IF m.server \in plan.silent THEN {}
                                 ELSE {[kind |-> "answer", id |-> m.id, name |-> m.name, addr |-> a,
                                        ttl |-> ttl, from |-> m.server, port |-> m.port]}
  /\ heard' = {}
  /\ UNCHANGED <<dns, user, shell, age, left, faults, plan>>

LoseDatagram ==
  /\ faults > 0 /\ faults' = faults - 1
  /\ \E m \in wire : wire' = wire \ {m}
  /\ heard' = {}
  /\ UNCHANGED <<dns, user, shell, age, left, plan>>

(* DHCP names other servers, or none (dns_setserver). *)
SetServer ==
  /\ faults > 0 /\ faults' = faults - 1
  /\ \E n \in 0 .. DNS_MAX_SERVERS - 1, a \in SERVERS \cup {NONE} : dns' = [dns EXCEPT !.servers[n] = a]
  /\ heard' = {}
  /\ UNCHANGED <<user, shell, wire, age, left, plan>>

DnsNext ==
  \/ \E u \in Users, n \in Names : Lookup(u, n)
  \/ \E n \in Names : HostnameToIp(n)
  \/ WaitOver \/ Use \/ DnsTmr \/ LoseDatagram \/ SetServer
  \/ \E m \in wire : Recv(m) \/ Answer(m)

DnsFairness ==
  /\ []<>(wire = {}) \/ []<><<\E m \in wire : Recv(m) \/ Answer(m)>>_dnsVars
  /\ []<>~(plan.timer /\ Live # {} /\ Cardinality(wire) <= plan.late) \/ []<><<DnsTmr>>_dnsVars

(***************************************************************************)
(* Properties.                                                             *)
(***************************************************************************)
(* The tables hold what their types allow: dns_check_entry has dealt with  *)
(* every new entry, a query counts its retries and its timer below their   *)
(* limits, and a lifetime is capped at DNS_MAX_TTL.                        *)
DnsTypeOK ==
  /\ \A i \in Entries :
       /\ dns.table[i].state \in {"UNUSED", "ASKING", "DONE"}
       /\ dns.table[i].server \in 0 .. DNS_MAX_SERVERS - 1
       /\ dns.table[i].ttl \in 0 .. DNS_MAX_TTL
       /\ Asking(dns, i) => /\ dns.table[i].tmr \in 1 .. DNS_MAX_RETRIES
                            /\ dns.table[i].retries < DNS_MAX_RETRIES
       /\ dns.req[i].found \in Users \cup {Shell, NONE}
  /\ shell.at \in {"idle", "wait", "use"}

Waits(u, i) == \E r \in Entries : dns.req[r].found = u /\ dns.req[r].idx = i

(* Nobody waits for nothing: every request in dns_requests is for a query  *)
(* that is being asked, every such query has somebody who waits, and a     *)
(* user waits for a name exactly when a request of theirs is for the entry *)
(* of that name (dns_enqueue, dns_call_found, the recycling of entries).   *)
Served ==
  /\ \A r \in Entries : dns.req[r].found # NONE => Asking(dns, dns.req[r].idx)
  /\ \A i \in Entries : Asking(dns, i) => \E u \in Users \cup {Shell} : Waits(u, i)
  /\ \A u \in Users : user[u] # NONE <=> \E i \in Entries : Waits(u, i) /\ dns.table[i].name = user[u]

(* Two queries under way are for two names and have two transactions, so   *)
(* an answer is for one of them (dns_enqueue's search, dns_create_txid).   *)
AsksOnce ==
  \A i, j \in Entries : Asking(dns, i) /\ Asking(dns, j)
                        /\ (dns.table[i].name = dns.table[j].name \/ dns.table[i].txid = dns.table[j].txid)
                        => i = j

(* A UDP port is open exactly while some query uses it, and no two entries *)
(* of dns_pcbs are the same port (dns_alloc_pcb, dns_call_found).          *)
PortsOwned ==
  /\ \A p \in Entries : dns.pcbs[p] # 0 <=> \E i \in Entries : Asking(dns, i) /\ dns.table[i].pcb = p
  /\ \A p, q \in Entries : dns.pcbs[p] = dns.pcbs[q] /\ dns.pcbs[p] # 0 => p = q

(* A callback is told the address of the name its user asked for, or that  *)
(* there is none, whatever late, repeated or crossing answers arrive       *)
(* (dns_recv's checks of the transaction, the server and the question),    *)
(* and the shell connects to the address of the name it looked up.  The    *)
(* shell's one exception is in the code: dns_result_callback does not look *)
(* at the name, so while an earlier lookup that hostname_to_ip gave up is  *)
(* still open, its answer may take the place of the one that is waited for.*)
RightAnswer ==
  /\ \A h \in heard : h.name = h.asked /\ h.addr \in {AddrOf(h.asked), NONE}
  /\ shell.at = "use" /\ shell.have /\ ~shell.crossed => shell.addr = AddrOf(shell.name)

(* A cached answer is the address of its name, and it is kept exactly as   *)
(* long as the server allowed: its age and what is left add up to a        *)
(* lifetime a server gives (dns_correct_response, DNS_STATE_DONE).         *)
CacheRight ==
  \A i \in Entries : dns.table[i].state = "DONE"
    => /\ dns.table[i].addr = AddrOf(dns.table[i].name)
       /\ dns.table[i].ttl > 0
       /\ age[i] + dns.table[i].ttl \in {IF t > DNS_MAX_TTL THEN DNS_MAX_TTL ELSE t : t \in plan.ttls}

(* Whoever asks is told in the end, be it that nobody answers: where       *)
(* dns_tmr runs whatever is lost and whichever server is silent, and where *)
(* it does not run as long as nothing is lost.                             *)
Answered ==
  \A u \in Users : (user[u] # NONE /\ (plan.timer \/ (plan.faults = 0 /\ plan.silent = {}))) ~> user[u] = NONE

=============================================================================
