---------------------------- MODULE JpegMarkers ----------------------------
(***************************************************************************)
(* The marker reader of the JPEG library (jdmarker.c), byte by byte, with  *)
(* a source that may run dry at every byte.  A routine that runs out of    *)
(* input returns FALSE, and the bytes it took since its last INPUT_SYNC    *)
(* are read again by the next call; what it has stored by then stays.      *)
(*                                                                         *)
(* A run of a routine is a reader [cin, pos, sync, st, v]: cin the fields  *)
(* of cinfo, pos the local next_input_byte, sync the one in the source     *)
(* manager, st "ok", "susp" or "err", v the byte or the word just read.    *)
(* Tables are scaled down: BITS lengths of Huffman codes instead of 16,    *)
(* QUANTSIZE quantisation values, APP0_DATA_LEN and APP14_DATA_LEN bytes    *)
(* of the two application markers, of which the first is the signature.    *)
(***************************************************************************)
EXTENDS Integers, Sequences, FiniteSets, SequencesExt

CONSTANTS BITS, QUANTSIZE, APP0_DATA_LEN, APP14_DATA_LEN, APPN_DATA_LEN,
          NUM_TBLS, MAX_COMPS_IN_SCAN,
          Segments,    \* files: sequences of segments
          Limits       \* what jpeg_save_markers may have been asked for

M_TEM == 1
M_SOF0 == 192
M_SOF2 == 194
M_SOF3 == 195
M_DHT == 196
M_SOF9 == 201
M_DAC == 204
M_RST0 == 208
M_SOI == 216
M_EOI == 217
M_SOS == 218
M_DQT == 219
M_DNL == 220
M_DRI == 221
M_APP0 == 224
M_APP1 == 225
M_APP14 == 238
M_COM == 254

VARIABLES segs,     \* what the file was made of
          file,     \* its bytes
          avail,    \* how many of them the source has
          reader,   \* the fields of cinfo and of the marker reader
          stage,    \* "reading", "eoi" or "error"
          markTurn  \* flips with every call of read_markers
markerVars == <<segs, file, avail, reader, stage, markTurn>>

(***************************************************************************)
(* Reading bytes.                                                          *)
(***************************************************************************)
(* mutant: a byte is taken only when another follows it *)
ByteAwaited(r) ==
  IF r.st # "ok" THEN r
  ELSE IF r.pos + 1 >= avail THEN [r EXCEPT !.st = "susp"]
  ELSE [r EXCEPT !.v = file[r.pos + 1], !.pos = @ + 1]

INPUT_BYTE(r) ==
  IF r.st # "ok" THEN r
  ELSE IF r.pos >= avail THEN [r EXCEPT !.st = "susp"]
  ELSE [r EXCEPT !.v = file[r.pos + 1], !.pos = @ + 1]

INPUT_2BYTES(r) ==
  IF r.st # "ok" THEN r
  ELSE IF r.pos + 1 >= avail THEN [r EXCEPT !.st = "susp"]
  ELSE [r EXCEPT !.v = 256 * file[r.pos + 1] + file[r.pos + 2], !.pos = @ + 2]

INPUT_SYNC(r) == IF r.st = "ok" THEN [r EXCEPT !.sync = r.pos] ELSE r
ERREXIT(r, bad) == IF r.st = "ok" /\ bad THEN [r EXCEPT !.st = "err"] ELSE r
Store(r, f, x) == IF r.st = "ok" THEN [r EXCEPT !.cin[f] = x] ELSE r
Stored(r, f) == Store(r, f, r.v)
Length(r, n) == IF r.st = "ok" THEN [r EXCEPT !.len = r.v - n] ELSE r
Used(r, n) == IF r.st = "ok" THEN [r EXCEPT !.len = @ - n] ELSE r

(* skip_input_data of a source that can pass over bytes it has not got yet *)
Skip(r) == IF r.st = "ok" /\ r.len > 0
           THEN [r EXCEPT !.pos = @ + r.len, !.sync = @ + r.len] ELSE r

(***************************************************************************)
(* The segments.                                                           *)
(***************************************************************************)
get_soi(r) ==
  ERREXIT([r EXCEPT !.cin = [@ EXCEPT !.saw_SOI = TRUE, !.restart_interval = 0, !.jfif = <<>>, !.adobe = <<>>]],
          r.cin.saw_SOI)

RECURSIVE Components(_, _)
Component(r, id, ci) ==
  Components(Store(INPUT_BYTE(Store(INPUT_BYTE(r), "samp", Append(r.cin.samp, INPUT_BYTE(r).v))), "comp_id",
                   Append(r.cin.comp_id, id)), ci + 1)
Components(r, ci) ==
  IF r.st # "ok" \/ ci >= r.cin.num_components THEN r
  ELSE Component(INPUT_BYTE(r), INPUT_BYTE(r).v, ci)

SofChecked(r) ==
  ERREXIT(ERREXIT(ERREXIT(r, r.cin.saw_SOF), r.cin.image_height = 0 \/ r.cin.image_width = 0 \/ r.cin.num_components = 0),
          r.len # 3 * r.cin.num_components)

(* Each component is an identifier, its sampling factors and a table; the  *)
(* array is filled again from the start after a suspension.                *)
get_sof(r, prog, arith) ==
  INPUT_SYNC(Store(Components(Store(Store(SofChecked(
    Stored(INPUT_BYTE(Stored(INPUT_2BYTES(Stored(INPUT_2BYTES(Stored(INPUT_BYTE(Length(INPUT_2BYTES(
      Store(Store(r, "progressive", prog), "arith_code", arith)), 8)), "precision")), "image_height")), "image_width")), "num_components")),
    "samp", <<>>), "comp_id", <<>>), 0), "saw_SOF", TRUE))

FindComponent(r, cc, slots) ==
  {ci \in 1 .. r.cin.num_components : ci <= MAX_COMPS_IN_SCAN /\ r.cin.comp_id[ci] = cc /\ ci > Len(slots)}

RECURSIVE ScanComponents(_, _, _)
(* cur_comp_info[ci] is tested by component, not by slot: a component is   *)
(* found only if the slot of its own number is still empty                 *)
ScanComponent(r, cc, c, n, slots) ==
  LET found == FindComponent(r, cc, slots)
      ci == CHOOSE x \in found : \A y \in found : x <= y
  IN  IF found = {} \/ ci \in ToSet(slots) THEN ERREXIT(r, TRUE)
      ELSE ScanComponents(Store(r, "tbl_no", [r.cin.tbl_no EXCEPT ![ci] = c]), n, Append(slots, ci))
ScanComponents(r, n, slots) ==
  IF r.st # "ok" THEN r
  ELSE IF Len(slots) = n THEN Store(r, "cur_comp_info", slots)
  ELSE IF INPUT_2BYTES(r).st # "ok" THEN INPUT_2BYTES(r)
  ELSE ScanComponent(INPUT_2BYTES(r), INPUT_2BYTES(r).v \div 256, INPUT_2BYTES(r).v % 256, n, slots)

ScanLength(r) == ERREXIT(r, r.len # 2 * r.v + 6 \/ r.v < 1 \/ r.v > MAX_COMPS_IN_SCAN)
ScanCounted(r) ==
  IF r.st = "ok" THEN [r EXCEPT !.cin.next_restart_num = 0, !.cin.input_scan_number = @ + 1] ELSE r

ScanParameters(r) ==
  Stored(INPUT_BYTE(Stored(INPUT_BYTE(Stored(INPUT_BYTE(r), "Ss")), "Se")), "AhAl")

ScanRead(r) == ScanComponents(r, r.v, <<>>)


get_sos(r) ==
  INPUT_SYNC(ScanCounted(ScanParameters(ScanRead(ScanLength(INPUT_BYTE(Length(INPUT_2BYTES(
    ERREXIT(r, ~r.cin.saw_SOF)), 0)))))))

RECURSIVE Bytes(_, _, _)
(* n bytes, or words if wide, after what got already holds; the reader     *)
(* keeps them in .got                                                      *)
Bytes(r, n, wide) ==
  IF r.st # "ok" \/ Len(r.got) = n THEN r
  ELSE LET q == IF wide THEN INPUT_2BYTES(r) ELSE INPUT_BYTE(r)
       IN  IF q.st # "ok" THEN q ELSE Bytes([q EXCEPT !.got = Append(@, q.v)], n, wide)
ReadBytes(r, n, wide) == Bytes([r EXCEPT !.got = <<>>], n, wide)

SumOf(s) == FoldSeq(LAMBDA x, y : x + y, 0, s)

RECURSIVE HuffTables(_)
HuffStored(r, index, bits) ==
  HuffTables(Store(Used(ERREXIT(r, index % 16 >= NUM_TBLS \/ index \div 16 > 1), 1 + BITS + SumOf(bits)),
                   "huff", [r.cin.huff EXCEPT ![IF index % 16 >= NUM_TBLS \/ index \div 16 > 1 THEN 0 ELSE index]
                              = <<bits, r.got>>]))
HuffValues(r, index, bits) ==
  LET q == ReadBytes(ERREXIT(r, SumOf(bits) > r.len - 1 - BITS), SumOf(bits), FALSE)
  IN  IF q.st # "ok" THEN q ELSE HuffStored(q, index, bits)
HuffBits(r, index) ==
  LET q == ReadBytes(r, BITS, FALSE) IN IF q.st # "ok" THEN q ELSE HuffValues(q, index, q.got)
HuffTables(r) ==
  IF r.st # "ok" \/ r.len <= BITS THEN r
  ELSE LET q == INPUT_BYTE(r) IN IF q.st # "ok" THEN q ELSE HuffBits(q, q.v)

LengthUsed(r) == INPUT_SYNC(ERREXIT(r, r.len # 0))

get_dht(r) == LengthUsed(HuffTables(Length(INPUT_2BYTES(r), 2)))

RECURSIVE QuantTables(_)
(* quantval is overwritten value by value: a suspension leaves it part new *)
QuantValues(r, n, prec) ==
  LET q == ReadBytes(r, QUANTSIZE, prec > 0)
      mixed == [i \in 1 .. QUANTSIZE |-> IF i <= Len(q.got) THEN q.got[i] ELSE r.cin.quant[n][i]]
      stored == [q EXCEPT !.cin.quant[n] = mixed]
  IN  IF q.st # "ok" THEN stored
      ELSE QuantTables(Used(stored, 1 + QUANTSIZE + IF prec > 0 THEN QUANTSIZE ELSE 0))
QuantTables(r) ==
  IF r.st # "ok" \/ r.len <= 0 THEN r
  ELSE LET q == INPUT_BYTE(r)
       IN  IF q.st # "ok" THEN q
           ELSE IF q.v % 16 >= NUM_TBLS THEN ERREXIT(q, TRUE)
           ELSE QuantValues(q, q.v % 16, q.v \div 16)

get_dqt(r) == LengthUsed(QuantTables(Length(INPUT_2BYTES(r), 2)))

DriLength(r) == ERREXIT(r, r.len # 4)
get_dri(r) == INPUT_SYNC(Stored(INPUT_2BYTES(DriLength(Length(INPUT_2BYTES(r), 0))), "restart_interval"))

(* the first byte of the data stands for the signature *)
Signature == 74
examine_app0(r, data) ==
  IF Len(data) >= APP0_DATA_LEN /\ data[1] = Signature
  THEN Store(r, "jfif", SubSeq(data, 1, APP0_DATA_LEN)) ELSE r
examine_app14(r, data) ==
  IF Len(data) >= APP14_DATA_LEN /\ data[1] = Signature
  THEN Store(r, "adobe", SubSeq(data, 1, APP14_DATA_LEN)) ELSE r
Examine(r, data) ==
  IF r.cin.unread_marker = M_APP0 THEN examine_app0(r, data)
  ELSE IF r.cin.unread_marker = M_APP14 THEN examine_app14(r, data) ELSE r

Appn(r) ==
  LET q == ReadBytes(r, IF r.len >= APPN_DATA_LEN THEN APPN_DATA_LEN ELSE IF r.len > 0 THEN r.len ELSE 0, FALSE)
  IN  IF q.st # "ok" THEN q ELSE Skip(INPUT_SYNC(Examine(Used(q, Len(q.got)), q.got)))

get_interesting_appn(r) == IF INPUT_2BYTES(r).st # "ok" THEN INPUT_2BYTES(r) ELSE Appn(Length(INPUT_2BYTES(r), 2))

skip_variable(r) == Skip(INPUT_SYNC(Length(INPUT_2BYTES(r), 2)))

LimitOf(r) == IF r.len < r.limit[r.cin.unread_marker] THEN r.len ELSE r.limit[r.cin.unread_marker]

(* the marker that is being saved: its data and how much is wanted *)
SaveStart(r) ==
  IF r.st # "ok" THEN r
  ELSE IF r.len < 0 THEN [r EXCEPT !.cur = <<>>]
  ELSE [r EXCEPT !.cur = <<[marker |-> r.cin.unread_marker, original |-> r.len, want |-> LimitOf(r), data |-> <<>>]>>]

RECURSIVE SaveMore(_)
(* every byte that is there is kept at once *)
SaveMore(r) ==
  IF r.st # "ok" \/ r.cur = <<>> \/ Len(r.cur[1].data) = r.cur[1].want THEN r
  ELSE LET q == INPUT_BYTE(INPUT_SYNC(r))
       IN  IF q.st # "ok" THEN q ELSE SaveMore([q EXCEPT !.cur[1].data = Append(@, q.v)])

SaveDone(r) ==
  IF r.st # "ok" THEN r
  ELSE IF r.cur = <<>> THEN INPUT_SYNC(Examine(r, <<>>))
  ELSE Skip(INPUT_SYNC(Examine([r EXCEPT !.cin.marker_list = Append(@, [marker |-> r.cur[1].marker, data |-> r.cur[1].data]),
                                         !.len = r.cur[1].original - r.cur[1].want, !.cur = <<>>], r.cur[1].data)))

(* mutant: the length is read again when the data goes on *)
SaveRestarted(r) == SaveDone(SaveMore(SaveStart(Length(INPUT_2BYTES(r), 2))))

save_marker(r) ==
  IF r.cur = <<>> THEN SaveDone(SaveMore(SaveStart(Length(INPUT_2BYTES(r), 2)))) ELSE SaveDone(SaveMore(r))

(***************************************************************************)
(* From marker to marker.                                                  *)
(***************************************************************************)
RECURSIVE Discard(_)
Discard(r) ==
  IF r.st # "ok" \/ r.v = 255 THEN r
  ELSE Discard(INPUT_BYTE(INPUT_SYNC([r EXCEPT !.cin.discarded = @ + 1])))

RECURSIVE FillBytes(_)
FillBytes(r) == IF r.st # "ok" \/ r.v # 255 THEN r ELSE FillBytes(INPUT_BYTE(r))

MarkerGot(r) ==
  INPUT_SYNC([r EXCEPT !.cin.warned = @ + r.cin.discarded, !.cin.discarded = 0, !.cin.unread_marker = r.v])

RECURSIVE next_marker(_)
AfterFill(r) ==
  IF r.st # "ok" THEN r
  ELSE IF r.v = 0 THEN next_marker(INPUT_SYNC([r EXCEPT !.cin.discarded = @ + 2]))
  ELSE MarkerGot(r)
next_marker(r) == AfterFill(FillBytes(Discard(INPUT_BYTE(r))))

first_marker(r) ==
  INPUT_SYNC(Store(ERREXIT(INPUT_2BYTES(r), INPUT_2BYTES(r).v # 255 * 256 + M_SOI), "unread_marker", M_SOI))

FindMarker(r) ==
  IF r.cin.unread_marker # 0 THEN r
  ELSE IF ~r.cin.saw_SOI THEN first_marker(r) ELSE next_marker(r)

IsApp(m) == m \in M_APP0 .. M_APP0 + 15

(* the processors of APPn and COM, set by jinit_marker_reader and          *)
(* jpeg_save_markers                                                       *)
process(r, m) ==
  IF r.limit[m] > 0 THEN save_marker(r)
  ELSE IF m \in {M_APP0, M_APP14} THEN get_interesting_appn(r) ELSE skip_variable(r)

Segment(r, m) ==
  CASE m = M_SOI -> get_soi(r)
    [] m \in {M_SOF0, M_SOF0 + 1} -> get_sof(r, FALSE, FALSE)
    [] m = M_SOF2 -> get_sof(r, TRUE, FALSE)
    [] m \in {M_SOF9, M_SOF9 + 1} -> get_sof(r, m = M_SOF9 + 1, TRUE)
    [] m = M_SOS -> get_sos(r)
    [] m = M_DHT -> get_dht(r)
    [] m = M_DQT -> get_dqt(r)
    [] m = M_DRI -> get_dri(r)
    [] IsApp(m) \/ m = M_COM -> process(r, m)
    [] m \in {M_DAC, M_DNL} -> skip_variable(r)
    [] m \in {M_TEM, M_EOI} \cup M_RST0 .. M_RST0 + 7 -> r
    [] OTHER -> ERREXIT(r, TRUE)

RECURSIVE read_markers(_)
(* the marker stays unread until its segment has been dealt with *)
SegmentDone(r) ==
  IF r.st # "ok" THEN r
  ELSE IF r.cin.unread_marker \in {M_SOS, M_EOI}
       THEN [r EXCEPT !.st = IF r.cin.unread_marker = M_SOS THEN "sos" ELSE "eoi", !.cin.unread_marker = 0]
  ELSE read_markers([r EXCEPT !.cin.unread_marker = 0])
Found(r) == IF r.st # "ok" THEN r ELSE SegmentDone(Segment(r, r.cin.unread_marker))
read_markers(r) == Found(FindMarker(r))

(***************************************************************************)
(* The specification.                                                      *)
(***************************************************************************)
NewCinfo ==
  [saw_SOI |-> FALSE, saw_SOF |-> FALSE, unread_marker |-> 0, discarded |-> 0, warned |-> 0,
   restart_interval |-> 0, jfif |-> <<>>, adobe |-> <<>>, progressive |-> FALSE, arith_code |-> FALSE, precision |-> 0,
   image_height |-> 0, image_width |-> 0, num_components |-> 0, comp_id |-> <<>>, samp |-> <<>>,
   tbl_no |-> [i \in 1 .. 4 |-> 0], cur_comp_info |-> <<>>, Ss |-> 0, Se |-> 0, AhAl |-> 0,
   next_restart_num |-> 0, input_scan_number |-> 0,
   huff |-> [i \in 0 .. 31 |-> <<>>], quant |-> [i \in 0 .. NUM_TBLS - 1 |-> [j \in 1 .. QUANTSIZE |-> 0]],
   marker_list |-> <<>>]

(* jinit_marker_reader and reset_marker_reader, then jpeg_save_markers     *)
(* with limits that are long enough for the two markers it examines        *)
jpeg_save_markers(limits) ==
  [m \in (M_APP0 .. M_APP0 + 15) \cup {M_COM} |->
     IF m = M_APP0 /\ limits[m] \in 1 .. APP0_DATA_LEN - 1 THEN APP0_DATA_LEN
     ELSE IF m = M_APP14 /\ limits[m] \in 1 .. APP14_DATA_LEN - 1 THEN APP14_DATA_LEN ELSE limits[m]]

NewReader(limits) ==
  [cin |-> NewCinfo, pos |-> 0, sync |-> 0, st |-> "ok", v |-> 0, len |-> 0, got |-> <<>>, cur |-> <<>>,
   limit |-> jpeg_save_markers(limits)]

More ==
  /\ avail < Len(file)
  /\ \E n \in {1, 2} : avail + n <= Len(file) /\ avail' = avail + n
  /\ UNCHANGED <<segs, file, reader, stage, markTurn>>

Call(r) ==
  /\ reader' = [r EXCEPT !.pos = r.sync, !.st = "ok", !.v = 0, !.len = 0, !.got = <<>>]
  /\ stage' = CASE r.st = "err" -> "error" [] r.st = "eoi" -> "eoi" [] OTHER -> "reading"

ReadMarkers ==
  /\ stage = "reading"
  /\ Call(read_markers(reader))
  /\ markTurn' = 1 - markTurn
  /\ UNCHANGED <<segs, file, avail>>

MarkersNext == More \/ ReadMarkers

(***************************************************************************)
(* The files, and what they mean.  A segment that the standard allows is   *)
(* described by its contents; "bytes" are bytes between two segments; a    *)
(* "bad" segment has a marker and a body that the standard does not allow. *)
(***************************************************************************)
Word(n) == <<n \div 256, n % 256>>
Sized(m, body) == <<255, m>> \o Word(Len(body) + 2) \o body
Values2(s, wide) == FlattenSeq([i \in DOMAIN s |-> IF wide THEN Word(s[i]) ELSE <<s[i]>>])

QuantBytes(t) == <<t.n + IF t.wide THEN 16 ELSE 0>> \o Values2(t.vals, t.wide)
HuffBytes(t) == <<t.n>> \o t.bits \o t.vals

Encoded(g) ==
  CASE g.k = "mark" -> <<255, g.m>>
    [] g.k \in {"bytes", "bad"} -> g.bytes
    [] g.k = "data" -> Sized(g.m, g.data)
    [] g.k = "DQT" -> Sized(M_DQT, FlattenSeq([i \in DOMAIN g.tables |-> QuantBytes(g.tables[i])]))
    [] g.k = "DHT" -> Sized(M_DHT, FlattenSeq([i \in DOMAIN g.tables |-> HuffBytes(g.tables[i])]))
    [] g.k = "DRI" -> Sized(M_DRI, Word(g.n))
    [] g.k = "SOF" -> Sized(IF g.arith THEN IF g.prog THEN M_SOF9 + 1 ELSE M_SOF9 ELSE IF g.prog THEN M_SOF2 ELSE M_SOF0,
                            <<8>> \o Word(g.h) \o Word(g.w) \o <<Len(g.ids)>>
                              \o FlattenSeq([i \in DOMAIN g.ids |-> <<g.ids[i], 17, 0>>]))
    [] g.k = "SOS" -> Sized(M_SOS, <<Len(g.ids)>> \o FlattenSeq([i \in DOMAIN g.ids |-> <<g.ids[i], g.tbl>>]) \o <<0, 63, 1>>)

FileOf(gs) == FlattenSeq([i \in DOMAIN gs |-> Encoded(gs[i])])

Kept(g, limit) == IF Len(g.data) < limit THEN g.data ELSE SubSeq(g.data, 1, limit)

WithData(c, g, limit) ==
  [c EXCEPT !.marker_list = IF (IsApp(g.m) \/ g.m = M_COM) /\ limit[g.m] > 0
                            THEN Append(@, [marker |-> g.m, data |-> Kept(g, limit[g.m])]) ELSE @,
            !.jfif = IF g.m = M_APP0 /\ Len(g.data) >= APP0_DATA_LEN /\ g.data[1] = Signature
                     THEN SubSeq(g.data, 1, APP0_DATA_LEN) ELSE @,
            !.adobe = IF g.m = M_APP14 /\ Len(g.data) >= APP14_DATA_LEN /\ g.data[1] = Signature
                      THEN SubSeq(g.data, 1, APP14_DATA_LEN) ELSE @]

(* The component meant by the i-th identifier of a scan; several with the  *)
(* same identifier are meant in order.                                     *)
Before(s, i) == Cardinality({j \in 1 .. i - 1 : s[j] = s[i]})
Meant(c, ids, i) == CHOOSE ci \in DOMAIN c.comp_id : c.comp_id[ci] = ids[i] /\ Before(c.comp_id, ci) = Before(ids, i)

Means(c, g, limit) ==
  CASE g.k = "mark" -> [c EXCEPT !.saw_SOI = @ \/ g.m = M_SOI]
    [] g.k = "bytes" -> [c EXCEPT !.warned = @ + g.junk]
    [] g.k = "bad" -> c
    [] g.k = "data" -> WithData(c, g, limit)
    [] g.k = "DQT" -> [c EXCEPT !.quant = FoldSeq(LAMBDA t, q : [q EXCEPT ![t.n] = t.vals], @, g.tables)]
    [] g.k = "DHT" -> [c EXCEPT !.huff = FoldSeq(LAMBDA t, q : [q EXCEPT ![t.n] = <<t.bits, t.vals>>], @, g.tables)]
    [] g.k = "DRI" -> [c EXCEPT !.restart_interval = g.n]
    [] g.k = "SOF" -> [c EXCEPT !.saw_SOF = TRUE, !.progressive = g.prog, !.arith_code = g.arith, !.precision = 8, !.image_height = g.h,
                                !.image_width = g.w, !.num_components = Len(g.ids), !.comp_id = g.ids,
                                !.samp = [i \in DOMAIN g.ids |-> 17]]
    [] g.k = "SOS" -> [c EXCEPT !.cur_comp_info = [i \in DOMAIN g.ids |-> Meant(c, g.ids, i)],
                                !.tbl_no = [i \in 1 .. 4 |-> IF i \in {Meant(c, g.ids, j) : j \in DOMAIN g.ids}
                                                              THEN g.tbl ELSE @[i]],
                                !.Ss = 0, !.Se = 63, !.AhAl = 1, !.input_scan_number = @ + 1]

Meaning(gs, limit) == FoldLeft(LAMBDA c, g : Means(c, g, limit), NewCinfo, gs)
Bad(gs) == \E i \in DOMAIN gs : gs[i].k = "bad"

MarkersInit ==
  /\ segs \in Segments
  /\ file = FileOf(segs)
  /\ avail = 0
  /\ \E l \in Limits : reader = NewReader(l)
  /\ stage = "reading"
  /\ markTurn = 0

(* The application calls until it has the end of the image or an error,    *)
(* and the source delivers the rest of the file; a call on which nothing   *)
(* happens still counts.                                                   *)
MarkersFairness ==
  /\ []<>(avail = Len(file)) \/ []<><<More>>_markerVars
  /\ []<>(stage # "reading") \/ []<><<ReadMarkers>>_markerVars

(* Wherever the source runs dry, and as often as it does, the markers that *)
(* have been read at the end of the image leave the tables, the frame, the *)
(* scan parameters and the saved markers that the file describes: nothing  *)
(* is read twice, skipped or left half changed.  A segment with a wrong    *)
(* length, a second SOF or a table number out of range ends in an error.   *)
ParsedRight ==
  /\ stage = "eoi" => ~Bad(segs) /\ reader.cin = Meaning(segs, reader.limit)
  /\ stage = "error" => Bad(segs)

(* Every file with an EOI marker is read to it or to an error, once the    *)
(* source delivers it: no call waits for bytes that are already there.     *)
ParseEnds == <>(stage # "reading")
=============================================================================
