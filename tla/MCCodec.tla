------------------------------ MODULE MCCodec ------------------------------
(***************************************************************************)
(* Three parts of the JPEG library that work on their own, one of them in  *)
(* each behaviour: the memory manager, the marker reader and the entropy   *)
(* coders.                                                                 *)
(***************************************************************************)
EXTENDS JpegMemory, JpegMarkers, HuffmanCoder

VARIABLE part

MCFirstSlop == [p \in Pools |-> IF p = "IMAGE" THEN 4 ELSE 2]
MCExtraSlop == [p \in Pools |-> IF p = "IMAGE" THEN 2 ELSE 0]

(* Files with every kind of segment, tables given twice, fill and stray     *)
(* bytes, several scans, components that share an identifier, and segments  *)
(* that the standard does not allow.                                        *)
Mk(m) == [k |-> "mark", m |-> m]
Stray(b, n) == [k |-> "bytes", bytes |-> b, junk |-> n]
BadSeg(b) == [k |-> "bad", bytes |-> b]
Data(m, d) == [k |-> "data", m |-> m, data |-> d]
Sof(ids, p) == [k |-> "SOF", prog |-> p, arith |-> FALSE, h |-> 2, w |-> 300, ids |-> ids]
Sos(ids, t) == [k |-> "SOS", ids |-> ids, tbl |-> t]
Q(n, w, v) == [n |-> n, wide |-> w, vals |-> v]
H(n, b, v) == [n |-> n, bits |-> b, vals |-> v]
StartOf == Mk(M_SOI)
EndOf == Mk(M_EOI)
Frame(ids) == <<Sof(ids, FALSE), Sos(ids, 17)>>
Middle == {
 <<[k |-> "DQT", tables |-> <<Q(0, FALSE, <<5, 6>>), Q(1, TRUE, <<700, 8>>)>>], [k |-> "DQT", tables |-> <<Q(0, FALSE, <<9, 255>>)>>]>>,
 <<[k |-> "DHT", tables |-> <<H(0, <<1, 1>>, <<3, 4>>), H(17, <<0, 0>>, <<>>)>>], Stray(<<255>>, 0), [k |-> "DRI", n |-> 260]>>,
 <<Data(M_APP0, <<Signature, 1, 2, 255>>), Data(M_COM, <<255, 217, 3>>), Data(M_APP14, <<Signature, 1>>)>>,
 <<Data(M_APP0, <<Signature, 1>>), Data(M_APP1, <<>>), Data(M_COM, <<7>>), Data(M_APP14, <<1, 1, 1>>), Mk(M_RST0 + 3), Data(M_DNL, <<0, 2>>)>>,
 <<Stray(<<7, 255, 0, 8, 255>>, 4), Data(M_DAC, <<1, 2>>), Mk(M_TEM)>>,
 Frame(<<1>>), <<[Sof(<<1>>, FALSE) EXCEPT !.arith = TRUE]>>, <<[Sof(<<1>>, TRUE) EXCEPT !.arith = TRUE]>>, <<Sof(<<1, 2, 3>>, TRUE), Sos(<<2, 3>>, 1), Sos(<<1>>, 16)>>, Frame(<<7, 7>>) ,
 <<Sof(<<1>>, FALSE), BadSeg(Encoded(Sof(<<1>>, FALSE)))>>, <<BadSeg(Encoded(Sos(<<1>>, 0)))>>,
 <<BadSeg(<<255, M_DQT, 0, 4, 0, 9>>)>>, <<BadSeg(<<255, M_DQT, 0, 5, 9, 9, 9>>)>>, <<BadSeg(<<255, M_DHT, 0, 6, 0, 1, 1, 9>>)>>,
 <<BadSeg(<<255, M_DRI, 0, 5, 1, 1, 1>>)>>, <<BadSeg(<<255, M_SOI>>)>>, <<BadSeg(<<255, M_SOF3, 0, 2>>)>>,
 <<BadSeg(<<255, M_SOF0, 0, 11, 8, 0, 0, 0, 4, 1, 1, 17, 0>>)>>, <<Sof(<<1,2>>, FALSE), BadSeg(Encoded(Sos(<<1,9>>, 0)))>> }
MCSegments == {<<StartOf>> \o m \o <<EndOf>> : m \in Middle}
Lims(a, b, c) == [m \in (M_APP0 .. M_APP0 + 15) \cup {M_COM} |-> IF m = M_APP0 THEN a ELSE IF m = M_COM THEN b ELSE c]
MCLimits == {Lims(0, 0, 0), Lims(1, 2, 5), Lims(9, 9, 0)}

(* Images of a few blocks, with one or two components, restarts, AC         *)
(* coefficients wanted or not, more data behind them in the same buffer     *)
(* (then the fast decoder is used), and two progressions.                   *)
Pic(m, c, ri, ac, pad, scans) == [mcus |-> m, comps |-> c, ri |-> ri, ac |-> ac, pad |-> pad, scans |-> scans]
B1 == <<3, 0, 0, 0, -2>>
B2 == <<-4, 1, 0, 3, 0>>
B3 == <<0, 0, 0, 0, 0>>
B4 == <<7, -1, 5, 1, -7>>
B5 == <<-3, 2, -3, 0, 1>>
B6 == <<2, 0, 1, 3, -1>>
Pad == [i \in 1 .. 40 |-> 5]
Sc(ss, se, ah, al) == [Ss |-> ss, Se |-> se, Ah |-> ah, Al |-> al]
Script1 == <<Sc(1, 1, 0, 1), Sc(2, 5, 0, 1), Sc(1, 1, 1, 0), Sc(2, 5, 1, 0)>>
Script2 == <<Sc(1, 1, 0, 0), Sc(2, 3, 0, 0), Sc(4, 5, 0, 2), Sc(4, 5, 2, 1), Sc(4, 5, 1, 0)>>
One(bs) == [i \in DOMAIN bs |-> <<bs[i]>>]
Blocks == {B1, B2, B3, B4, B5, B6}
MCPictures ==
  {Pic(One(<<a, b, c>>), 1, ri, TRUE, p, <<>>) : a \in {B1, B4}, b \in Blocks, c \in {B2, B3}, ri \in {0, 1, 2}, p \in {<<>>, Pad}}
  \cup {Pic(<<<<a, b>>, <<c, a>>>>, 2, ri, ac, p, <<>>) : a \in {B4, B2}, b \in {B5}, c \in {B1, B3}, ri \in {0, 1}, ac \in BOOLEAN, p \in {<<>>, Pad}}
  \cup {Pic(One(<<a, b, c>>), 1, ri, TRUE, <<>>, s) : a \in Blocks, b \in {B3, B1, B6}, c \in {B3, B4, B5}, ri \in {0, 2}, s \in {Script1, Script2}}
  \cup {Pic(One(<<B3, B3, B1, B3, B3, B3, B3, B5>>), 1, ri, TRUE, <<>>, Script1) : ri \in {0, 5}}
MCFrequencies == ([0 .. 3 -> {0, 1, 3, 7}] \ {[i \in 0 .. 3 |-> 0]}) \cup {[i \in 0 .. n |-> b ^ i + c] : n \in 4 .. 8, b \in {2, 3}, c \in {0, 1}}

Idle(p) ==
  /\ p # "memory" =>
       /\ mem = [small |-> [q \in Pools |-> <<>>], large |-> [q \in Pools |-> <<>>]]
       /\ objs = [q \in Pools |-> {}] /\ chunks = {} /\ made = 0
  /\ p # "markers" =>
       segs = <<>> /\ file = <<>> /\ avail = 0 /\ reader = <<>> /\ stage = "idle" /\ markTurn = 0
  /\ p # "huffman" =>
       /\ picture = <<>> /\ phase = "idle" /\ enc = <<>> /\ tables = <<>> /\ stream = <<>> /\ given = 0
       /\ scan = 0 /\ dec = <<>> /\ coefs = <<>>

Init ==
  \/ part = "memory" /\ MemoryInit /\ Idle(part)
  \/ part = "markers" /\ MarkersInit /\ Idle(part)
  \/ part = "huffman" /\ HuffInit /\ Idle(part)

Next ==
  \/ part = "memory" /\ MemoryNext /\ UNCHANGED <<part, markerVars, huffVars>>
  \/ part = "markers" /\ MarkersNext /\ UNCHANGED <<part, memoryVars, huffVars>>
  \/ part = "huffman" /\ HuffNext /\ UNCHANGED <<part, memoryVars, markerVars>>

Spec == Init /\ [][Next]_<<part, memoryVars, markerVars, huffVars>> /\ MarkersFairness
=============================================================================
