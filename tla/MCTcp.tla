------------------------------- MODULE MCTcp -------------------------------
(***************************************************************************)
(* Instances of Tcp for TLC.  A full segment is two bytes, the window      *)
(* three segments.  The Client's longer request is four segments, so that  *)
(* the last one waits for the window, and with the FIN three segments can  *)
(* follow a lost one (fast retransmission).                                *)
(***************************************************************************)
EXTENDS Tcp

OneWay == [write |-> (Client :> 8) @@ (Server :> 0), net |-> 1, host |-> 1]
TwoWays == [write |-> (Client :> 3) @@ (Server :> 1), net |-> 1, host |-> 0]

Plans == {OneWay, TwoWays}

(* The first sequence numbers are just before the wrap. *)
Iss == (Client :> 63) @@ (Server :> 62)

=============================================================================
