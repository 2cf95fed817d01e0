----------------------------- MODULE ByteStream -----------------------------
(***************************************************************************)
(* What a TCP connection promises its two users: each receives the bytes   *)
(* the other wrote, in order and once each; it is told of the end of the   *)
(* stream when the other closed and all of its bytes were received.  A     *)
(* user may stop receiving at any time: nothing here says that bytes must  *)
(* arrive.                                                                 *)
(***************************************************************************)
EXTENDS Naturals, Sequences

CONSTANTS Side, Peer(_), MAX_WRITE

VARIABLES wrote, got, eof, closed

streamVars == <<wrote, got, eof, closed>>

StreamInit ==
  /\ wrote = [s \in Side |-> 0]
  /\ got = [s \in Side |-> <<>>]
  /\ eof = [s \in Side |-> FALSE]
  /\ closed = [s \in Side |-> FALSE]

Send(s) ==
  /\ ~closed[s]
  /\ \E n \in 1 .. MAX_WRITE : wrote' = [wrote EXCEPT ![s] = @ + n]
  /\ UNCHANGED <<got, eof, closed>>

(* More bytes, the end of the stream, or both; a user that learns of the   *)
(* end closes.                                                             *)
Receive(s, more, end) ==
  LET n == Len(got[s]) + more
  IN  /\ ~closed[s] /\ ~eof[s]
      /\ n <= wrote[Peer(s)]
      /\ end => closed[Peer(s)] /\ n = wrote[Peer(s)]
      /\ got' = [got EXCEPT ![s] = @ \o [i \in 1 .. more |-> Len(@) + i]]
      /\ eof' = [eof EXCEPT ![s] = end]
      /\ closed' = [closed EXCEPT ![s] = end]
      /\ UNCHANGED wrote

CloseStream(s) ==
  /\ ~closed[s]
  /\ closed' = [closed EXCEPT ![s] = TRUE]
  /\ UNCHANGED <<wrote, got, eof>>

StreamNext ==
  \E s \in Side : \/ Send(s) \/ CloseStream(s)
                  \/ \E more \in 0 .. wrote[Peer(s)] - Len(got[s]), end \in BOOLEAN :
                       Receive(s, more, end)

StreamSpec == StreamInit /\ [][StreamNext]_streamVars

=============================================================================
