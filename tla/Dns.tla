--------------------------------- MODULE Dns ---------------------------------
(***************************************************************************)
(* The DNS client of lwIP (net/core/dns.c): its cache, its requests and    *)
(* the ports and transactions its queries use.                             *)
(*                                                                         *)
(* A call is an operator on a record d: d.table, d.req and d.pcbs are the  *)
(* tables of dns.c, d.out the queries it sends and d.calls the callbacks   *)
(* it makes.  rnd is what DNS_RAND_TXID and the allocator yield during the *)
(* call: a transaction, a port and whether memory is had.  Names and       *)
(* addresses are opaque; the address types of IPv6 are not compiled in.    *)
(***************************************************************************)
EXTENDS Integers, Sequences, FiniteSets, FiniteSetsExt

CONSTANTS DNS_TABLE_SIZE,   \* also DNS_MAX_REQUESTS and DNS_MAX_SOURCE_PORTS
          DNS_MAX_SERVERS, DNS_MAX_RETRIES, DNS_MAX_TTL,
          SEQNOS,           \* u8_t dns_seqno
          TXIDS, PORTS,     \* what random numbers can be
          NONE              \* no name, no user, no address, IP_ADDR_ANY

Entries == 0 .. DNS_TABLE_SIZE - 1
NO_PCB == DNS_TABLE_SIZE

UnusedEntry ==
  [state |-> "UNUSED", name |-> NONE, addr |-> NONE, txid |-> 0, server |-> 0,
   tmr |-> 0, retries |-> 0, ttl |-> 0, seqno |-> 0, pcb |-> 0]

Asking(d, i) == d.table[i].state = "ASKING"

(* dns_servers[n], IP_ADDR_ANY past the end *)
dns_getserver(d, n) == IF n < DNS_MAX_SERVERS THEN d.servers[n] ELSE NONE

dns_lookup(d, name) ==
  {i \in Entries : d.table[i].state = "DONE" /\ d.table[i].name = name}

(* A query leaves unless no pbuf can be had. *)
SendQuery(d, i, rnd) ==
  LET e == d.table[i]
  IN  IF ~rnd.mem THEN d
      ELSE [d EXCEPT !.out = @ \cup {[kind |-> "query", id |-> e.txid, name |-> e.name,
                                      server |-> dns_getserver(d, e.server),
                                      port |-> d.pcbs[e.pcb]]}]

(* A free index with a port of its own, else the next one in use. *)
dns_alloc_pcb(d, rnd) ==
  LET free == {i \in Entries : d.pcbs[i] = 0}
      used == {i \in Entries : d.pcbs[i] # 0}
      after == {i \in used : i > d.last}
      i == IF free # {} /\ rnd.port # 0 THEN Min(free)
           ELSE IF after # {} THEN Min(after) ELSE IF used # {} THEN Min(used) ELSE NO_PCB
  IN  IF i = NO_PCB THEN [i |-> i, d |-> d]
      ELSE [i |-> i, d |-> [d EXCEPT !.last = i,
                                     !.pcbs[i] = IF @ = 0 THEN rnd.port ELSE @]]

(* The entry a new name gets: an unused one, else the oldest answer. *)
Age(d, i) == (d.seqno - d.table[i].seqno) % SEQNOS

EntryFor(d) ==
  LET unused == {i \in Entries : d.table[i].state = "UNUSED"}
      done   == {i \in Entries : d.table[i].state = "DONE" /\ Age(d, i) > 0}
  IN  IF unused # {} THEN {Min(unused)}
      ELSE {i \in done : \A j \in done : Age(d, j) < Age(d, i) \/ (Age(d, j) = Age(d, i) /\ i <= j)}

FreeReq(d) == {r \in Entries : d.req[r].found = NONE}

(* dns_enqueue, its last part, and dns_check_entry in DNS_STATE_NEW *)
NewEntry(d, i, p, rnd) ==
  LET e == [d.table[i] EXCEPT !.seqno = (d.seqno - 1) % SEQNOS, !.pcb = p, !.state = "ASKING",
                              !.txid = rnd.txid, !.server = 0, !.tmr = 1, !.retries = 0]
  IN  SendQuery([d EXCEPT !.table[i] = e], i, rnd)

WithPort(d, i, r, a, rnd) ==
  IF a.i = NO_PCB
  THEN [err |-> "MEM", d |-> [d EXCEPT !.table[i].state = "UNUSED", !.req[r].found = NONE]]
  ELSE [err |-> "INPROGRESS",
        d |-> NewEntry([a.d EXCEPT !.seqno = (@ + 1) % SEQNOS], i, a.i, rnd)]

TakeEntry(d, i, r, name, user, rnd) ==
  LET n == [d EXCEPT !.table[i].name = name, !.table[i].state = "NEW",
                     !.req[r] = [found |-> user, idx |-> i]]
  IN  WithPort(n, i, r, dns_alloc_pcb(n, rnd), rnd)

(* mutant: a second request for a name is not joined to the first *)
EnqueueApart(d, name, user, rnd) ==
  IF EntryFor(d) = {} \/ FreeReq(d) = {} THEN [err |-> "MEM", d |-> d]
  ELSE TakeEntry(d, Min(EntryFor(d)), Min(FreeReq(d)), name, user, rnd)

dns_enqueue(d, name, user, rnd) ==
  LET same == {i \in Entries : Asking(d, i) /\ d.table[i].name = name}
  IN  IF FreeReq(d) = {} \/ (same = {} /\ EntryFor(d) = {}) THEN [err |-> "MEM", d |-> d]
      ELSE IF same # {}
      THEN [err |-> "INPROGRESS",
            d |-> [d EXCEPT !.req[Min(FreeReq(d))] = [found |-> user, idx |-> Min(same)]]]
      ELSE TakeEntry(d, Min(EntryFor(d)), Min(FreeReq(d)), name, user, rnd)

dns_gethostbyname(d, name, user, rnd) ==
  IF dns_lookup(d, name) # {}
  THEN [err |-> "OK", d |-> d, addr |-> d.table[Min(dns_lookup(d, name))].addr]
  ELSE IF d.servers[0] = NONE THEN [err |-> "VAL", d |-> d]
  ELSE dns_enqueue(d, name, user, rnd)

(* mutant: the port is closed whoever else uses it *)
CloseAlways(d, i) ==
  [d EXCEPT !.table[i].pcb = NO_PCB, !.pcbs = [@ EXCEPT ![d.table[i].pcb] = 0]]

(* The port of entry i is closed unless another query uses it. *)
ClosePort(d, i) ==
  LET p == d.table[i].pcb
      shared == \E j \in Entries \ {i} : Asking(d, j) /\ d.table[j].pcb = p
  IN  [d EXCEPT !.table[i].pcb = NO_PCB,
                !.pcbs = IF p = NO_PCB \/ shared THEN @ ELSE [@ EXCEPT ![p] = 0]]

(* Everyone who waits for entry i is told, in the order of the table. *)
Told(d, i) == {r \in Entries : d.req[r].found # NONE /\ d.req[r].idx = i}

(* mutant: only the first who waits is told *)
CallFirst(d, i, addr) ==
  LET r == Min(Told(d, i))
  IN  ClosePort([d EXCEPT !.calls = @ \cup {[user |-> d.req[r].found, name |-> d.table[i].name, addr |-> addr]},
                          !.req[r].found = NONE], i)

dns_call_found(d, i, addr) ==
  ClosePort([d EXCEPT !.calls = @ \cup {[user |-> d.req[r].found, name |-> d.table[i].name,
                                         addr |-> addr] : r \in Told(d, i)},
                      !.req = [r \in Entries |-> IF r \in Told(d, i) THEN [@[r] EXCEPT !.found = NONE]
                                                 ELSE @[r]]], i)

Drop(d, i) == [dns_call_found(d, i, NONE) EXCEPT !.table[i].state = "UNUSED"]

dns_send(d, i, rnd) ==
  IF dns_getserver(d, d.table[i].server) = NONE THEN Drop(d, i) ELSE SendQuery(d, i, rnd)

(* mutant: the next server is asked even when there is none *)
AskOn(d, i, rnd) ==
  LET e == d.table[i]
  IN  dns_send([d EXCEPT !.table[i] =
        IF e.retries + 1 = DNS_MAX_RETRIES
        THEN [e EXCEPT !.server = (@ + 1) % DNS_MAX_SERVERS, !.tmr = 1, !.retries = 0]
        ELSE [e EXCEPT !.retries = @ + 1, !.tmr = e.retries + 1]], i, rnd)

(* The timer of a query ran out: ask again later and later, then the next  *)
(* server, then give up.                                                   *)
AskAgain(d, i, rnd) ==
  LET e == d.table[i]
      last == e.retries + 1 = DNS_MAX_RETRIES
      next == dns_getserver(d, e.server + 1)
  IN  IF last /\ next = NONE THEN Drop([d EXCEPT !.table[i].tmr = 0], i)
      ELSE dns_send([d EXCEPT !.table[i] =
             IF last THEN [e EXCEPT !.server = @ + 1, !.tmr = 1, !.retries = 0]
             ELSE [e EXCEPT !.retries = @ + 1, !.tmr = e.retries + 1]], i, rnd)

(* mutant: off by one, an answer is kept for a second too long *)
ExpireLate(d, i) ==
  IF d.table[i].ttl = 0 THEN [d EXCEPT !.table[i].state = "UNUSED"]
  ELSE [d EXCEPT !.table[i].ttl = @ - 1]

(* An answer is forgotten when its time is over. *)
Expire(d, i) ==
  IF d.table[i].ttl <= 1 THEN [d EXCEPT !.table[i].state = "UNUSED", !.table[i].ttl = 0]
  ELSE [d EXCEPT !.table[i].ttl = @ - 1]

dns_check_entry(d, i, rnd) ==
  CASE d.table[i].state = "ASKING" ->
         IF d.table[i].tmr = 1 THEN AskAgain(d, i, rnd) ELSE [d EXCEPT !.table[i].tmr = @ - 1]
    [] d.table[i].state = "DONE" -> Expire(d, i)
    [] OTHER -> d

dns_tmr(d, rnd) ==
  LET upto[n \in 0 .. DNS_TABLE_SIZE] ==
        IF n = 0 THEN d ELSE dns_check_entry(upto[n - 1], n - 1, rnd)
  IN  upto[DNS_TABLE_SIZE]

(* mutant: the lifetime is taken as the server gives it *)
CorrectUncapped(d, i, addr, ttl) ==
  LET e == [d.table[i] EXCEPT !.state = "DONE", !.addr = addr, !.ttl = ttl]
      c == dns_call_found([d EXCEPT !.table[i] = e], i, addr)
  IN  IF ttl = 0 THEN [c EXCEPT !.table[i].state = "UNUSED"] ELSE c

(* A zero time to live is good for this answer only. *)
dns_correct_response(d, i, addr, ttl) ==
  LET e == [d.table[i] EXCEPT !.state = "DONE", !.addr = addr,
                              !.ttl = IF ttl > DNS_MAX_TTL THEN DNS_MAX_TTL ELSE ttl]
      c == dns_call_found([d EXCEPT !.table[i] = e], i, addr)
  IN  IF ttl = 0 THEN [c EXCEPT !.table[i].state = "UNUSED"] ELSE c

(* mutant: the name asked for is not compared with the one answered *)
ForAnyName(d, i, m) == m.from = dns_getserver(d, d.table[i].server)

(* A response is for a query when it comes from the server that was asked  *)
(* and repeats the question.                                               *)
ForQuery(d, i, m) ==
  m.from = dns_getserver(d, d.table[i].server) /\ m.name = d.table[i].name

dns_recv(d, m) ==
  LET match == {i \in Entries : Asking(d, i) /\ d.table[i].txid = m.id}
      i == Min(match)
  IN  IF match = {} THEN d
      ELSE IF ~ForQuery(d, i, m) THEN d
      ELSE IF m.addr = NONE THEN Drop(d, i)
      ELSE dns_correct_response(d, i, m.addr, m.ttl)

=============================================================================
