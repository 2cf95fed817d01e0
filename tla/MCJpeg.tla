------------------------------- MODULE MCJpeg -------------------------------
EXTENDS Jpeg

CONSTANT LOST   \* restart markers that a burst of damage may hit

MCU(n) == [k |-> "MCU", n |-> n]
RST(n) == [k |-> "RST", n |-> n]

(* A scan with restart interval i: marker j stands before interval j + 1. *)
ScanOf(img, i) ==
  <<Marker("SOS")>> \o FlattenSeq([n \in 1 .. MCUS * TotalRows(img) |->
     IF i > 0 /\ n > 1 /\ (n - 1) % i = 0 THEN <<RST((((n - 1) \div i) - 1) % RSTS), MCU(n)>>
     ELSE <<MCU(n)>>])

FileOf(img, i) ==
  <<Marker("SOI"), Marker("SOF"), [k |-> "DRI", n |-> i]>>
    \o FlattenSeq([s \in 1 .. img.scans |-> ScanOf(img, i)]) \o <<EOI>>

Image(v, ctx, height, scans) ==
  [v |-> v, ctx |-> ctx, height |-> height, scans |-> scans, buffered |-> FALSE, quant |-> 0,
   smooth |-> FALSE, suspends |-> FALSE, skips |-> FALSE, raw |-> FALSE, merged |-> FALSE, file |-> <<>>,
   damaged |-> {}]

Filed(img, i) == [img EXCEPT !.file = FileOf(img, i)]

(* Tokens a .. b of a file of one scan are gone, or changed into something *)
(* else that looks like data, the first of them perhaps like a marker.     *)
IntervalOf(file, i, k) ==  \* of the token at k; a marker belongs to the interval after it
  LET next == {j \in k .. Len(file) : file[j].k = "MCU"}
  IN  IF next = {} THEN 0 - 1 ELSE (file[CHOOSE j \in next : \A l \in next : j <= l].n - 1) \div i

RowsOfInterval(img, i, t) ==
  {r \in 0 .. TotalRows(img) - 1 : \E n \in t * i + 1 .. (t + 1) * i : (n - 1) \div MCUS = r}

Bursts(file) ==
  {p \in (5 .. Len(file) - 1) \X (5 .. Len(file) - 1) :
     p[1] <= p[2] /\ Cardinality({k \in p[1] .. p[2] : file[k].k = "RST"}) <= LOST}

Damage(img, i, a, b, into) ==
  [img EXCEPT !.file = SubSeq(@, 1, a - 1)
                         \o (IF into = <<>> THEN <<>> ELSE [k \in 1 .. b - a + 1 |-> IF k = 1 THEN into[1] ELSE MCU(99)])
                         \o SubSeq(@, b + 1, Len(@)),
              !.damaged = UNION {RowsOfInterval(img, i, IntervalOf(img.file, i, k)) : k \in a .. b}]

Cut(img, k) ==
  [img EXCEPT !.file = SubSeq(@, 1, k), !.damaged = 0 .. TotalRows(img) - 1]

(* Whole files from a source that never waits, one pass or two: every      *)
(* height up to three iMCU rows and a bit, with and without context rows,  *)
(* quantised in one or two passes.                                         *)
Whole ==
  {Filed(Image(1, FALSE, h, 1), 0) : h \in 1 .. 5}
    \cup {Filed([Image(2, c, h, s) EXCEPT !.quant = q], 0) :
             c \in BOOLEAN, h \in 1 .. 13, s \in {1, 2}, q \in {0, 1, 2}}
    \cup {Filed([Image(v, FALSE, h, 1) EXCEPT !.merged = TRUE, !.quant = q], 0) :
             v \in {1, 2}, h \in 1 .. 9, q \in {0, 1, 2}}
    \cup {Filed([Image(2, FALSE, h, 1) EXCEPT !.raw = TRUE], 0) : h \in 1 .. 9}

(* Lines are skipped, which is right for context rows and one scan only. *)
Skipped == {Filed([Image(2, TRUE, h, 1) EXCEPT !.skips = TRUE], 0) : h \in 1 .. 13}

(* The source delivers token by token, with input ahead of output. *)
Suspended ==
  {Filed([Image(2, TRUE, h, s) EXCEPT !.suspends = TRUE, !.quant = q], r) :
     h \in {5, 8}, s \in {1, 2}, q \in {0, 2}, r \in {0, 1}}

(* Output passes of a buffered image while its scans arrive. *)
Buffered ==
  {Filed([Image(1, FALSE, 5, 2) EXCEPT !.suspends = TRUE, !.buffered = TRUE, !.smooth = m], 0) :
     m \in BOOLEAN}
    \cup {Filed([Image(2, TRUE, 6, 2) EXCEPT !.buffered = TRUE, !.smooth = TRUE, !.suspends = s], 0) :
             s \in BOOLEAN}
    \cup {Filed([Image(1, FALSE, 5, 1) EXCEPT !.buffered = TRUE, !.suspends = TRUE, !.quant = 2], 0)}

Damaged ==
  UNION {{Damage(Filed(Image(1, FALSE, 12, 1), i), i, p[1], p[2], into) :
            p \in Bursts(FileOf(Image(1, FALSE, 12, 1), i)),
            into \in {<<>>, <<MCU(99)>>, <<BAD>>}} : i \in {1, 3}}

CutOff ==
  {Cut(Filed([Image(1, FALSE, 5, 2) EXCEPT !.buffered = b], 0), k) :
     k \in 0 .. 16, b \in BOOLEAN}

AllImages == Whole \cup Skipped \cup Suspended \cup Buffered \cup Damaged \cup CutOff
=============================================================================
