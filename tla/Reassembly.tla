----------------------------- MODULE Reassembly -----------------------------
(***************************************************************************)
(* Fragmentation and reassembly of IP datagrams (net/core/ipv4/            *)
(* ip4_frag.c), between a host that sends datagrams larger than its MTU    *)
(* and one that puts them together again, on a wire that loses, repeats    *)
(* and reorders fragments.                                                 *)
(*                                                                         *)
(* A fragment is the range of octets it carries of the datagram id, which  *)
(* stands for the addresses and the identification of its header.  The     *)
(* contents are the ranges themselves.  The ICMP message that tells the    *)
(* sender of an expired datagram is left out.                              *)
(***************************************************************************)
EXTENDS Integers, Sequences, FiniteSets, SequencesExt

CONSTANTS IP_REASS_MAXAGE, IP_REASS_MAX_PBUFS, MEMP_NUM_REASSDATA,
          PBUF_SIZE,      \* octets of a fragment that fit one pbuf of the driver
          SHIPMENTS,      \* datagrams to send: sets of [id, len, mtu]
          REPEATS         \* fragments the wire may repeat

IP_HLEN == 20

VARIABLES datagrams,    \* reassdatagrams, the newest first
          pbufcount,    \* ip_reass_pbufcount
          link,         \* fragments under way
          unsent, repeats,
          up            \* what the last step handed up, as the fragments in it

reassVars == <<datagrams, pbufcount, link, unsent, repeats, up>>

(* The driver fills pbufs of PBUF_SIZE octets; their number in the chain. *)
pbuf_clen(f) == (f.end - f.start + PBUF_SIZE - 1) \div PBUF_SIZE
Clen(frags) == FoldSeq(LAMBDA f, n : pbuf_clen(f) + n, 0, frags)

(* The fragments ip4_frag makes of a datagram. *)
ip4_frag(d) ==
  LET nfb == (d.mtu - IP_HLEN) \div 8
      at  == {n * nfb * 8 : n \in 0 .. (d.len - 1) \div (nfb * 8)}
  IN  {[id |-> d.id, start |-> s, end |-> IF d.len - s < nfb * 8 THEN d.len ELSE s + nfb * 8,
        mf |-> d.len - s > d.mtu - IP_HLEN] : s \in at}

ReassInit ==
  /\ datagrams = <<>> /\ pbufcount = 0
  /\ link = {} /\ up = <<>>
  /\ unsent \in SHIPMENTS /\ repeats = REPEATS

(* reassdatagrams and ip_reass_pbufcount together *)
State(l, n) == [list |-> l, count |-> n]

(* mutant: the pbufs of a freed datagram stay counted *)
FreeUncounted(s, i) == State(RemoveAt(s.list, i), s.count)

(* ip_reass_free_complete_datagram with ip_reass_dequeue_datagram *)
FreeDatagram(s, i) == State(RemoveAt(s.list, i), s.count - Clen(s.list[i].frags))

(* The other datagrams, oldest first, until enough is free. *)
RECURSIVE ip_reass_remove_oldest_datagram(_, _, _)
ip_reass_remove_oldest_datagram(s, id, needed) ==
  LET other  == {i \in DOMAIN s.list : s.list[i].id # id}
      oldest == CHOOSE i \in other : \A j \in other : \/ s.list[i].timer < s.list[j].timer
                                                      \/ s.list[i].timer = s.list[j].timer /\ j <= i
      freed  == Clen(s.list[oldest].frags)
  IN  IF other = {} THEN [s |-> s, freed |-> 0]
      ELSE IF freed < needed /\ Cardinality(other) > 1
      THEN LET more == ip_reass_remove_oldest_datagram(FreeDatagram(s, oldest), id, needed - freed)
           IN  [more EXCEPT !.freed = @ + freed]
      ELSE [s |-> FreeDatagram(s, oldest), freed |-> freed]

(* Room for the pbufs of a fragment, or NONE of it. *)
MakeRoom(s, f) ==
  IF s.count + pbuf_clen(f) <= IP_REASS_MAX_PBUFS THEN [s |-> s, ok |-> TRUE]
  ELSE LET r == ip_reass_remove_oldest_datagram(s, f.id, pbuf_clen(f))
       IN  [s |-> r.s, ok |-> r.freed > 0 /\ r.s.count + pbuf_clen(f) <= IP_REASS_MAX_PBUFS]

NewDatagram(s, f) ==
  State(<<[id |-> f.id, frags |-> <<>>, last |-> FALSE, len |-> 0, timer |-> IP_REASS_MAXAGE]>> \o s.list,
        s.count)

ip_reass_enqueue_new_datagram(s, f) ==
  IF Len(s.list) < MEMP_NUM_REASSDATA THEN [s |-> NewDatagram(s, f), ok |-> TRUE]
  ELSE LET r == ip_reass_remove_oldest_datagram(s, f.id, pbuf_clen(f))
       IN  IF r.freed >= pbuf_clen(f) THEN [s |-> NewDatagram(r.s, f), ok |-> TRUE]
           ELSE [s |-> r.s, ok |-> FALSE]

FindDatagram(s, f) ==
  IF \E i \in DOMAIN s.list : s.list[i].id = f.id THEN [s |-> s, ok |-> TRUE]
  ELSE ip_reass_enqueue_new_datagram(s, f)

(* ip_reass_chain_frag_into_datagram_and_validate: n fragments come before *)
(* the new one.                                                            *)
Before(q, f) == Cardinality({k \in DOMAIN q : q[k].start <= f.start})

(* Each of them is compared with the new one on the way to its place: one  *)
(* that was put first unchecked may reach beyond those that follow it.     *)
Overlaps(q, f, n) ==
  \/ \E k \in 1 .. n : f.start < q[k].end
  \/ n > 0 /\ n < Len(q) /\ f.end > q[n + 1].start

Contiguous(q) == \A k \in 1 .. Len(q) - 1 : q[k].end = q[k + 1].start

(* mutant: the fragments after the new one are not looked at *)
ValidBefore(q, f, n) ==
  /\ Contiguous(Append(SubSeq(q, 1, n), f))
  /\ Append(SubSeq(q, 1, n), f)[1].start = 0

(* mutant: the datagram is complete only when its last fragment comes last *)
ValidAtEnd(q, f, n) ==
  n = Len(q) /\ Contiguous(Append(q, f)) /\ Append(q, f)[1].start = 0

(* The fragments before the new one are looked at on the way to its place, *)
(* the new one and those after it once the last one is known.              *)
Valid(q, f, n) ==
  /\ Contiguous(SubSeq(q, 1, n))
  /\ n = Len(q) /\ n > 0 => q[n].end = f.start
  /\ n > 0 => q[1].start = 0
  /\ n = 0 => f.start = 0
  /\ Contiguous(<<f>> \o SubSeq(q, n + 1, Len(q)))

Chain(s, i, f, n) ==
  LET d == s.list[i]
  IN  IF d.last /\ Valid(d.frags, f, n)
      THEN [s |-> FreeDatagram(s, i), up |-> InsertAt(d.frags, n + 1, f)]
      ELSE [s |-> [s EXCEPT !.list[i].frags = InsertAt(@, n + 1, f), !.count = @ + pbuf_clen(f)],
            up |-> <<>>]

AddFragment(s, i, f) ==
  LET t == IF f.mf THEN s ELSE [s EXCEPT !.list[i].last = TRUE, !.list[i].len = f.end]
      q == s.list[i].frags
  IN  IF Overlaps(q, f, Before(q, f)) THEN [s |-> t, up |-> <<>>] ELSE Chain(t, i, f, Before(q, f))

WithDatagram(r, f) ==
  IF ~r.ok THEN [s |-> r.s, up |-> <<>>]
  ELSE AddFragment(r.s, CHOOSE i \in DOMAIN r.s.list : r.s.list[i].id = f.id, f)

WithRoom(r, f) == IF ~r.ok THEN [s |-> r.s, up |-> <<>>] ELSE WithDatagram(FindDatagram(r.s, f), f)

ip4_reass(s, f) == WithRoom(MakeRoom(s, f), f)

Send(d) ==
  /\ d \in unsent /\ unsent' = unsent \ {d}
  /\ link' = link \cup ip4_frag(d)
  /\ up' = <<>>
  /\ UNCHANGED <<datagrams, pbufcount, repeats>>

Fragment(f) ==
  /\ f \in link
  /\ \/ link' = link \ {f} /\ UNCHANGED repeats
     \/ repeats > 0 /\ repeats' = repeats - 1 /\ UNCHANGED link
  /\ LET r == ip4_reass(State(datagrams, pbufcount), f)
     IN  datagrams' = r.s.list /\ pbufcount' = r.s.count /\ up' = r.up
  /\ UNCHANGED unsent

Miss(f) ==
  /\ f \in link /\ link' = link \ {f}
  /\ up' = <<>>
  /\ UNCHANGED <<datagrams, pbufcount, unsent, repeats>>

(* mutant: the timer is started again by every round *)
OlderNever(n) == IF n = IP_REASS_MAXAGE THEN n - 1 ELSE IP_REASS_MAXAGE

Older(n) == n - 1

(* ip_reass_tmr *)
Expired(d) == d.timer = 0

ReassTmr ==
  LET live == SelectSeq(datagrams, LAMBDA d : ~Expired(d))
      dead == SelectSeq(datagrams, LAMBDA d : Expired(d))
  IN  /\ datagrams # <<>>
      /\ datagrams' = [i \in DOMAIN live |-> [live[i] EXCEPT !.timer = Older(@)]]
      /\ pbufcount' = pbufcount - FoldSeq(LAMBDA d, n : Clen(d.frags) + n, 0, dead)
      /\ up' = <<>>
      /\ UNCHANGED <<link, unsent, repeats>>

ReassNext ==
  \/ \E d \in unsent : Send(d)
  \/ \E f \in link : Fragment(f) \/ Miss(f)
  \/ ReassTmr

ReassFairness == []<>(datagrams = <<>>) \/ []<><<ReassTmr>>_reassVars

(***************************************************************************)
(* Properties.                                                             *)
(***************************************************************************)
(* ip_reass_pbufcount is the number of pbufs that are held, within its     *)
(* limit and that of the pool of datagrams; a datagram has one entry, and  *)
(* no entry is left without a fragment.                                    *)
FragmentsAccounted ==
  /\ pbufcount = FoldSeq(LAMBDA d, n : Clen(d.frags) + n, 0, datagrams)
  /\ pbufcount <= IP_REASS_MAX_PBUFS /\ Len(datagrams) <= MEMP_NUM_REASSDATA
  /\ \A i, j \in DOMAIN datagrams : datagrams[i].id = datagrams[j].id => i = j
  /\ \A i \in DOMAIN datagrams : datagrams[i].frags # <<>>

(* What ip4_reass hands up begins with the first octet, ends with the last *)
(* fragment and has no octet twice, also where fragments of two routes     *)
(* overlap.                                                                *)
Ordered ==
  up # <<>> => /\ up[1].start = 0 /\ ~Last(up).mf
               /\ \A k \in 1 .. Len(up) - 1 : up[k].end <= up[k + 1].start /\ up[k].mf

(* ip4_reass hands up a datagram only when no part of it is missing        *)
(* (ip4_frag.c: "NULL if reassembly is incomplete").                       *)
Whole == up # <<>> => Contiguous(up)

(* A datagram whose fragments are all there is not kept waiting: the       *)
(* fragment that completes it, first, middle or last, hands it up.         *)
NotKept ==
  \A i \in DOMAIN datagrams :
    LET q == datagrams[i].frags
    IN  ~(datagrams[i].last /\ q[1].start = 0 /\ Contiguous(q) /\ ~Last(q).mf)

(* Whatever is lost, what waits for it is freed in the end (ip_reass_tmr). *)
Emptied == []<>(datagrams = <<>>)

=============================================================================
