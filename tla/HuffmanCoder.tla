---------------------------- MODULE HuffmanCoder ----------------------------
(***************************************************************************)
(* The entropy coders of the JPEG library: the sequential encoder          *)
(* (jchuff.c) with its statistics pass, and the sequential and progressive *)
(* decoders (jdhuff.c, jdphuff.c) reading from a source that may run dry.  *)
(*                                                                         *)
(* A byte has BYTE bits, so that the byte of all ones, which is stuffed,   *)
(* turns up often; blocks have DCTSIZE2 coefficients in zigzag order; runs *)
(* of zeroes are at most MAXRUN before another coefficient (15 in the      *)
(* code).  Bit buffers are sequences of bits, oldest first.                *)
(***************************************************************************)
EXTENDS HuffmanTables

CONSTANTS BYTE, DCTSIZE2, MAXRUN, MIN_GET_BITS,
          FASTSIZE,      \* BUFSIZE of jdhuff.c, for one block
          RSTS,          \* restart markers before they start again (8)
          Pictures,      \* images to code
          Frequencies    \* symbol frequencies to make tables for

ONES == 2 ^ BYTE - 1       \* 0xFF
RST0 == 1
EOI == ONES - 1
AC_SYMBOLS == 16 * MAXRUN + 16
DC_SYMBOLS == 16

VARIABLES picture,   \* the coefficients, and how they are coded
          phase,     \* "table", "gather", "encode", "decode", "over"
          enc,       \* the encoder
          tables,    \* [dc, ac]
          stream,    \* bytes of the scan
          given,     \* bytes the source has
          scan,      \* the scan being decoded
          dec,       \* the decoder
          coefs      \* what it has decoded
huffVars == <<picture, phase, enc, tables, stream, given, scan, dec, coefs>>

Abs(x) == IF x < 0 THEN 0 - x ELSE x
RECURSIVE Nbits(_)
Nbits(x) == IF x = 0 THEN 0 ELSE 1 + Nbits(x \div 2)
(* the value bits of a coefficient: one less, in n bits, if it is negative *)
ValueBits(x) == BitsOf((IF x < 0 THEN x - 1 ELSE x) % 2 ^ Nbits(Abs(x)), Nbits(Abs(x)))
HUFF_EXTEND(x, s) == IF x < 2 ^ (s - 1) THEN x - 2 ^ s + 1 ELSE x

(***************************************************************************)
(* Statistics: htest_one_block, encode_mcu_gather.                         *)
(***************************************************************************)
RECURSIVE AcSymbols(_, _, _)
(* the symbols of a block from coefficient k on, r zeroes before it *)
AcSymbols(block, k, r) ==
  IF k > DCTSIZE2 THEN IF r > 0 THEN <<0>> ELSE <<>>
  ELSE IF block[k] = 0 THEN AcSymbols(block, k + 1, r + 1)
  ELSE [i \in 1 .. r \div (MAXRUN + 1) |-> 16 * MAXRUN]
         \o <<16 * (r % (MAXRUN + 1)) + Nbits(Abs(block[k]))>> \o AcSymbols(block, k + 1, 0)

Counted(freq, syms) == [s \in DOMAIN freq |-> freq[s] + Cardinality({i \in DOMAIN syms : syms[i] = s})]

htest_one_block(e, block, ci) ==
  [e EXCEPT !.dc_counts = Counted(@, <<Nbits(Abs(block[1] - e.last_dc_val[ci]))>>),
            !.ac_counts = Counted(@, AcSymbols(block, 2, 0)),
            !.last_dc_val[ci] = block[1]]

GatherRestart(e, ri) ==
  IF ri > 0 /\ e.restarts_to_go = 0
  THEN [e EXCEPT !.restarts_to_go = ri, !.last_dc_val = [ci \in DOMAIN @ |-> 0]] ELSE e
CountDown(e, ri) == IF ri > 0 THEN [e EXCEPT !.restarts_to_go = @ - 1] ELSE e

encode_mcu_gather(e, mcu, ri) ==
  FoldLeft(LAMBDA f, ci : htest_one_block(f, mcu[ci], ci), CountDown(GatherRestart(e, ri), ri),
           [ci \in DOMAIN mcu |-> ci])

(***************************************************************************)
(* The encoder.                                                            *)
(***************************************************************************)
EMIT_BYTE(e) ==
  LET c == NumberOf(SubSeq(e.put, 1, BYTE))
  IN  [e EXCEPT !.put = SubSeq(@, BYTE + 1, Len(@)), !.out = @ \o IF c = ONES THEN <<c, 0>> ELSE <<c>>]

(* put_buffer has the width of four bytes: older bits are lost *)
Width(put) == IF Len(put) <= 4 * BYTE THEN put
              ELSE [i \in DOMAIN put |-> IF i <= Len(put) - 4 * BYTE THEN 0 ELSE put[i]]
PUT_BITS(e, bits) == [e EXCEPT !.put = Width(@ \o bits)]
CHECKBUF15(e) == IF Len(e.put) > 2 * BYTE - 1 THEN EMIT_BYTE(EMIT_BYTE(e)) ELSE e
EMIT_BITS(e, bits) == CHECKBUF15(PUT_BITS(e, bits))

RECURSIVE kloop(_, _, _, _, _)
RECURSIVE EmitZRL(_, _, _)
EmitZRL(e, tbl, n) == IF n = 0 THEN e ELSE EmitZRL(EMIT_BITS(e, tbl[16 * MAXRUN]), tbl, n - 1)
EmitCoef(e, tbl, x, r) ==
  EMIT_BITS(EMIT_BITS(EmitZRL(e, tbl, r \div (MAXRUN + 1)), tbl[16 * (r % (MAXRUN + 1)) + Nbits(Abs(x))]), ValueBits(x))
kloop(e, tbl, block, k, r) ==
  IF k > DCTSIZE2 THEN IF r > 0 THEN EMIT_BITS(e, tbl[0]) ELSE e
  ELSE IF block[k] = 0 THEN kloop(e, tbl, block, k + 1, r + 1)
  ELSE kloop(EmitCoef(e, tbl, block[k], r), tbl, block, k + 1, 0)

EmitDC(e, tbl, diff) == EMIT_BITS(EMIT_BITS(e, tbl[Nbits(Abs(diff))]), ValueBits(diff))
encode_one_block(e, block, ci, dctbl, actbl) ==
  [kloop(EmitDC(e, dctbl, block[1] - e.last_dc_val[ci]), actbl, block, 2, 0) EXCEPT !.last_dc_val[ci] = block[1]]

RECURSIVE EmitWhole(_)
EmitWhole(e) == IF Len(e.put) >= BYTE THEN EmitWhole(EMIT_BYTE(e)) ELSE e
flush_bits(e) == [EmitWhole(PUT_BITS(e, [i \in 1 .. BYTE - 1 |-> 1])) EXCEPT !.put = <<>>]

emit_restart(e) ==
  [flush_bits(e) EXCEPT !.out = @ \o <<ONES, RST0 + e.next_restart_num>>, !.last_dc_val = [ci \in DOMAIN @ |-> 0]]

(* the counters change after the MCU; the marker goes before it *)
EncodeRestart(e, ri) == IF ri > 0 /\ e.restarts_to_go = 0 THEN emit_restart(e) ELSE e
EncodeCount(e, ri) ==
  IF ri = 0 THEN e
  ELSE IF e.restarts_to_go = 0
       THEN [e EXCEPT !.restarts_to_go = ri - 1, !.next_restart_num = (@ + 1) % RSTS]
  ELSE [e EXCEPT !.restarts_to_go = @ - 1]

encode_mcu_huff(e, mcu, ri, dctbl, actbl) ==
  EncodeCount(FoldLeft(LAMBDA f, ci : encode_one_block(f, mcu[ci], ci, dctbl, actbl), EncodeRestart(e, ri),
                       [ci \in DOMAIN mcu |-> ci]), ri)

start_pass_huff(e, ri, comps) ==
  [e EXCEPT !.put = <<>>, !.last_dc_val = [ci \in 1 .. comps |-> 0], !.restarts_to_go = ri,
            !.next_restart_num = 0, !.mcu = 0]

(***************************************************************************)
(* The bit reader: b is [buf, pos, marker, insufficient, st, v].           *)
(***************************************************************************)
ZeroBits(n) == [i \in 1 .. n |-> 0]

NoMoreBytes(b, nbits) ==
  IF nbits > Len(b.buf)
  THEN [b EXCEPT !.insufficient = TRUE, !.buf = @ \o ZeroBits(MIN_GET_BITS - Len(@))] ELSE b

RECURSIVE AfterOnes(_, _)
(* first byte after any number of 0xFF, and where it is *)
AfterOnes(s, p) == IF p >= given THEN [st |-> "susp", c |-> 0, pos |-> p]
                   ELSE IF s[p + 1] = ONES THEN AfterOnes(s, p + 1) ELSE [st |-> "ok", c |-> s[p + 1], pos |-> p + 1]

RECURSIVE FillBuffer(_, _)
WithByte(b, c, p) == [b EXCEPT !.buf = @ \o BitsOf(c, BYTE), !.pos = p]
Stuffed(b, a, nbits) ==
  IF a.st = "susp" THEN [b EXCEPT !.st = "susp"]
  ELSE IF a.c = 0 THEN FillBuffer(WithByte(b, ONES, a.pos), nbits)
  ELSE NoMoreBytes([b EXCEPT !.marker = a.c, !.pos = a.pos], nbits)
FillBuffer(b, nbits) ==
  IF Len(b.buf) >= MIN_GET_BITS THEN b
  ELSE IF b.pos >= given THEN [b EXCEPT !.st = "susp"]
  ELSE IF stream[b.pos + 1] # ONES THEN FillBuffer(WithByte(b, stream[b.pos + 1], b.pos + 1), nbits)
  ELSE Stuffed(b, AfterOnes(stream, b.pos + 1), nbits)

jpeg_fill_bit_buffer(b, nbits) == IF b.marker = 0 THEN FillBuffer(b, nbits) ELSE NoMoreBytes(b, nbits)

CHECK_BIT_BUFFER(b, n) == IF b.st = "ok" /\ Len(b.buf) < n THEN jpeg_fill_bit_buffer(b, n) ELSE b
GET_BITS(b, n) ==
  IF b.st = "ok" THEN [b EXCEPT !.v = NumberOf(SubSeq(b.buf, 1, n)), !.buf = SubSeq(@, n + 1, Len(@))] ELSE b
Receive(b, n) == GET_BITS(CHECK_BIT_BUFFER(b, n), n)

RECURSIVE LongCode(_, _, _, _)
OneMore(b, code, tbl, l) == IF b.st # "ok" THEN b ELSE LongCode(b, 2 * code + b.v, tbl, l + 1)
LongCode(b, code, tbl, l) ==
  IF code > tbl.maxcode[l] THEN OneMore(Receive(b, 1), code, tbl, l)
  ELSE [b EXCEPT !.v = IF l > MAXLEN THEN 0 ELSE tbl.huffval[code + tbl.valoffset[l] + 1]]
FirstBits(b, tbl, l) == IF b.st # "ok" THEN b ELSE LongCode(b, b.v, tbl, l)
jpeg_huff_decode(b, tbl, min_bits) == FirstBits(Receive(b, min_bits), tbl, min_bits)

LookedUp(b, tbl, hit) ==
  IF hit.nb <= HUFF_LOOKAHEAD THEN [b EXCEPT !.buf = SubSeq(@, hit.nb + 1, Len(@)), !.v = hit.sym]
  ELSE jpeg_huff_decode(b, tbl, hit.nb)
Looked(b, tbl) ==
  IF b.st # "ok" THEN b
  ELSE IF Len(b.buf) < HUFF_LOOKAHEAD THEN jpeg_huff_decode(b, tbl, 1)
  ELSE LookedUp(b, tbl, tbl.lookup[NumberOf(SubSeq(b.buf, 1, HUFF_LOOKAHEAD))])
HUFF_DECODE_SLOW(b, tbl) ==
  Looked(IF b.st = "ok" /\ Len(b.buf) < HUFF_LOOKAHEAD THEN jpeg_fill_bit_buffer(b, 0) ELSE b, tbl)

(* The fast path looks no further than the buffer, and takes zeroes when   *)
(* it meets a marker: the MCU is then decoded again the slow way.          *)
GET_BYTE(b) ==
  IF stream[b.pos + 1] # ONES THEN WithByte(b, stream[b.pos + 1], b.pos + 1)
  ELSE IF stream[b.pos + 2] = 0 THEN WithByte(b, ONES, b.pos + 2)
  ELSE [b EXCEPT !.buf = @ \o ZeroBits(BYTE), !.marker = stream[b.pos + 2]]
FILL_BIT_BUFFER_FAST(b) == IF Len(b.buf) <= 2 * BYTE THEN GET_BYTE(GET_BYTE(b)) ELSE b

(* Nothing is refilled and no length is too long: a code that the encoder  *)
(* wrote ends within the bits of FILL_BIT_BUFFER_FAST.                     *)
RECURSIVE FastCode(_, _, _, _)
FastCode(b, code, tbl, nb) ==
  IF code > tbl.maxcode[nb]
  THEN FastCode(GET_BITS(b, 1), 2 * code + b.buf[1], tbl, nb + 1)
  ELSE [b EXCEPT !.v = tbl.huffval[code + tbl.valoffset[nb] + 1]]

FastHit(b, tbl, hit) ==
  IF hit.nb <= HUFF_LOOKAHEAD THEN [b EXCEPT !.buf = SubSeq(@, hit.nb + 1, Len(@)), !.v = hit.sym]
  ELSE FastCode(GET_BITS(b, hit.nb), GET_BITS(b, hit.nb).v, tbl, hit.nb)
FastLooked(b, tbl) == FastHit(b, tbl, tbl.lookup[NumberOf(SubSeq(b.buf, 1, HUFF_LOOKAHEAD))])
HUFF_DECODE_FAST(b, tbl) == FastLooked(FILL_BIT_BUFFER_FAST(b), tbl)

HUFF_DECODE(b, tbl) == IF b.fast THEN HUFF_DECODE_FAST(b, tbl) ELSE HUFF_DECODE_SLOW(b, tbl)
ReceiveBits(b, n) == IF b.fast THEN GET_BITS(FILL_BIT_BUFFER_FAST(b), n) ELSE Receive(b, n)

(***************************************************************************)
(* The sequential decoder.  d is the decoder, [b, last_dc_val,             *)
(* restarts_to_go, next_restart_num, EOBRUN, mcu]; a block being decoded   *)
(* goes with the reader in [b, block].                                     *)
(***************************************************************************)
At(k) == IF k > DCTSIZE2 THEN DCTSIZE2 ELSE k   \* jpeg_natural_order has more entries than a block

RECURSIVE DecodeAC(_, _, _, _, _)
AcValue(b, block, actbl, k, s, needed) ==
  IF b.st # "ok" THEN [b |-> b, block |-> block]
  ELSE DecodeAC(b, IF needed THEN [block EXCEPT ![At(k)] = HUFF_EXTEND(b.v, s)] ELSE block, actbl, k + 1, needed)
AcSymbol(b, block, actbl, k, r, s, needed) ==
  IF b.st # "ok" THEN [b |-> b, block |-> block]
  ELSE IF s > 0 THEN AcValue(ReceiveBits(b, s), block, actbl, k + r, s, needed)
  ELSE IF r # MAXRUN THEN [b |-> b, block |-> block]
  ELSE DecodeAC(b, block, actbl, k + MAXRUN + 1, needed)
AcDecoded(b, block, actbl, k, needed) == AcSymbol(b, block, actbl, k, b.v \div 16, b.v % 16, needed)
DecodeAC(b, block, actbl, k, needed) ==
  IF k > DCTSIZE2 THEN [b |-> b, block |-> block]
  ELSE AcDecoded(HUFF_DECODE(b, actbl), block, actbl, k, needed)

DcValue(b, s) == IF b.st = "ok" /\ s > 0 THEN [b EXCEPT !.v = HUFF_EXTEND(b.v, s)] ELSE b
DcSymbol(b) == IF b.st = "ok" /\ b.v > 0 THEN DcValue(ReceiveBits(b, b.v), b.v) ELSE b
DecodeDC(b, dctbl) == DcSymbol(HUFF_DECODE(b, dctbl))

RECURSIVE DecodeBlocks(_, _, _, _)
BlockDone(x, last, out, needed) ==
  IF x.b.st # "ok" THEN [b |-> x.b, last |-> last, out |-> out]
  ELSE DecodeBlocks(x.b, last, Append(out, x.block), needed)
DcDone(b, ci, last, out, needed) ==
  IF b.st # "ok" THEN [b |-> b, last |-> last, out |-> out]
  ELSE BlockDone(DecodeAC(b, [k \in 1 .. DCTSIZE2 |-> IF k = 1 THEN b.v + last[ci] ELSE 0], tables.ac, 2, needed),
                 [last EXCEPT ![ci] = b.v + @], out, needed)
(* all the blocks of an MCU; nothing is kept unless all come through *)
DecodeBlocks(b, last, out, needed) ==
  IF Len(out) = Len(last) THEN [b |-> b, last |-> last, out |-> out]
  ELSE DcDone(DecodeDC(b, tables.dc), Len(out) + 1, last, out, needed)

decode_mcu_slow(d) == DecodeBlocks(d.b, d.last_dc_val, <<>>, picture.ac)
decode_mcu_fast(d) == DecodeBlocks([d.b EXCEPT !.fast = TRUE], d.last_dc_val, <<>>, picture.ac)

RECURSIVE SkipToMarker(_)
SkipToMarker(p) ==
  IF p >= given THEN [st |-> "susp", c |-> 0, pos |-> p]
  ELSE IF stream[p + 1] # ONES THEN SkipToMarker(p + 1)
  ELSE LET a == AfterOnes(stream, p + 1) IN IF a.st = "ok" /\ a.c = 0 THEN SkipToMarker(a.pos) ELSE a

(* read_restart_marker; in an undamaged file the next marker is the one    *)
(* that is wanted                                                          *)
RestartFound(d, ri) ==
  IF d.b.st # "ok" \/ d.b.marker # RST0 + d.next_restart_num
  THEN [d EXCEPT !.b.st = IF @ = "ok" THEN "lost" ELSE @]
  ELSE [d EXCEPT !.b.marker = 0, !.b.insufficient = FALSE, !.next_restart_num = (@ + 1) % RSTS,
                 !.last_dc_val = [ci \in DOMAIN @ |-> 0], !.EOBRUN = 0, !.restarts_to_go = ri]
NextMarker(d, a) ==
  IF a.st = "susp" THEN [d EXCEPT !.b.st = "susp"] ELSE [d EXCEPT !.b.marker = a.c, !.b.pos = a.pos]
process_restart(d, ri) ==
  LET e == [d EXCEPT !.b.buf = <<>>]
  IN  RestartFound(IF e.b.marker = 0 THEN NextMarker(e, SkipToMarker(e.b.pos)) ELSE e, ri)

Restarted(d, ri) == IF ri > 0 /\ d.restarts_to_go = 0 THEN process_restart(d, ri) ELSE d

UsesFast(d, ri) == ri = 0 /\ given - d.b.pos >= FASTSIZE * Len(d.last_dc_val) /\ d.b.marker = 0
BlankBlock == [k \in 1 .. DCTSIZE2 |-> 0]

Fallback(d, x) == IF x.b.marker # 0 THEN decode_mcu_slow(d) ELSE x
McuBlocks(d, ri) == IF UsesFast(d, ri) THEN Fallback(d, decode_mcu_fast(d)) ELSE decode_mcu_slow(d)

(* what stays after a suspension: a restart that has been dealt with, and  *)
(* the marker                                                              *)
Suspended(d, st) == [d EXCEPT !.b.st = "ok", !.b.v = 0, !.mcu = IF st = "susp" THEN d.mcu ELSE 0 - 1]
McuStored(d, x) ==
  IF x.b.st # "ok" THEN [d |-> Suspended(d, x.b.st), out |-> <<>>]
  ELSE [d |-> [d EXCEPT !.b = [x.b EXCEPT !.fast = FALSE, !.v = 0], !.last_dc_val = x.last,
                        !.restarts_to_go = @ - 1, !.mcu = @ + 1], out |-> x.out]
McuRestarted(d, ri) ==
  IF d.b.st # "ok" THEN [d |-> Suspended(d, d.b.st), out |-> <<>>]
  ELSE IF d.b.insufficient
  THEN McuStored(d, [b |-> d.b, last |-> d.last_dc_val, out |-> [ci \in DOMAIN d.last_dc_val |-> BlankBlock]])
  ELSE McuStored(d, McuBlocks(d, ri))
decode_mcu(d, ri) == McuRestarted(Restarted(d, ri), ri)

start_pass_huff_decoder(comps, ri) ==
  [b |-> [buf |-> <<>>, pos |-> 0, marker |-> 0, insufficient |-> FALSE, st |-> "ok", v |-> 0, fast |-> FALSE],
   last_dc_val |-> [ci \in 1 .. comps |-> 0], restarts_to_go |-> ri, next_restart_num |-> 0, EOBRUN |-> 0, mcu |-> 0]

(***************************************************************************)
(* The progressive decoder: scans [Ss, Se, Ah, Al], coefficients from 1.   *)
(* Results are [d, out] as above, with one block per MCU.                  *)
(***************************************************************************)
(* x & p1 in two's complement *)
RefineBit(x, p1) == IF (x \div p1) % 2 = 0 THEN IF x >= 0 THEN x + p1 ELSE x - p1 ELSE x

DcFirst(d, b, block, Al) ==
  IF b.st # "ok" THEN [d |-> Suspended(d, b.st), block |-> block]
  ELSE [d |-> [d EXCEPT !.b = [b EXCEPT !.v = 0], !.last_dc_val[1] = @ + b.v, !.restarts_to_go = @ - 1, !.mcu = @ + 1],
        block |-> [block EXCEPT ![1] = (d.last_dc_val[1] + b.v) * 2 ^ Al]]
decode_mcu_DC_first(d, block, Al) == DcFirst(d, DecodeDC(d.b, tables.dc), block, Al)

(* the bit is set in two's complement *)
SetBit(x, p1) == IF (x \div p1) % 2 = 0 THEN x + p1 ELSE x
DcRefined(d, b, block, Al) ==
  IF b.st # "ok" THEN [d |-> Suspended(d, b.st), block |-> block]
  ELSE [d |-> [d EXCEPT !.b = [b EXCEPT !.v = 0], !.restarts_to_go = @ - 1, !.mcu = @ + 1],
        block |-> [block EXCEPT ![1] = IF b.v = 1 THEN SetBit(@, 2 ^ Al) ELSE @]]
decode_mcu_DC_refine(d, block, Al) == DcRefined(d, Receive(d.b, 1), block, Al)

(* a band's state: x is [b, block, k, eob, new, s, r] *)
EobRun(x, b, r) == [x EXCEPT !.b = b, !.eob = 2 ^ r + IF r > 0 THEN b.v ELSE 0]
EobBits(x, b, r) == EobRun(x, IF r > 0 THEN Receive(b, r) ELSE b, r)

RECURSIVE AcFirst(_, _)
AcFirstValue(x, b, k, s, sc) ==
  IF b.st # "ok" THEN [x EXCEPT !.b = b]
  ELSE AcFirst([x EXCEPT !.b = b, !.block[At(k)] = HUFF_EXTEND(b.v, s) * 2 ^ sc.Al, !.k = k + 1], sc)
AcFirstSymbol(x, b, r, s, sc) ==
  IF b.st # "ok" THEN [x EXCEPT !.b = b]
  ELSE IF s > 0 THEN AcFirstValue(x, Receive(b, s), x.k + r, s, sc)
  ELSE IF r = MAXRUN THEN AcFirst([x EXCEPT !.b = b, !.k = @ + MAXRUN + 1], sc)
  ELSE EobBits(x, b, r)
AcFirstDecoded(x, b, sc) == AcFirstSymbol(x, b, b.v \div 16, b.v % 16, sc)
AcFirst(x, sc) == IF x.k > sc.Se THEN x ELSE AcFirstDecoded(x, HUFF_DECODE(x.b, tables.ac), sc)

Band(d, block, sc) == [b |-> d.b, block |-> block, k |-> sc.Ss, eob |-> 0, new |-> {}]

(* undoit: coefficients that were zero before are zero again; bits that    *)
(* were added to the others stay, and are recognised when they come again  *)
(* mutant: new coefficients stay *)
UndoNothing(block, new) == block
Undo(block, new) == [k \in DOMAIN block |-> IF k \in new THEN 0 ELSE block[k]]

BandDone(d, x) ==
  IF x.b.st # "ok" THEN [d |-> Suspended(d, x.b.st), block |-> Undo(x.block, x.new)]
  ELSE [d |-> [d EXCEPT !.b = [x.b EXCEPT !.v = 0], !.EOBRUN = IF x.eob > 0 THEN x.eob - 1 ELSE 0,
                        !.restarts_to_go = @ - 1, !.mcu = @ + 1],
        block |-> x.block]

decode_mcu_AC_first(d, block, sc) ==
  IF d.EOBRUN > 0 THEN BandDone(d, [Band(d, block, sc) EXCEPT !.eob = d.EOBRUN])
  ELSE BandDone(d, AcFirst(Band(d, block, sc), sc))

CorrectionBit(x, b, sc) ==
  IF b.st # "ok" THEN [x EXCEPT !.b = b]
  ELSE [x EXCEPT !.b = b, !.block[x.k] = IF b.v = 1 THEN RefineBit(@, 2 ^ sc.Al) ELSE @, !.k = @ + 1]

RECURSIVE Advance(_, _, _)
(* over coefficients that were not zero, and r that were *)
Advance(x, r, sc) ==
  IF x.b.st # "ok" \/ x.k > sc.Se THEN x
  ELSE IF x.block[x.k] # 0 THEN Advance(CorrectionBit(x, Receive(x.b, 1), sc), r, sc)
  ELSE IF r = 0 THEN x ELSE Advance([x EXCEPT !.k = @ + 1], r - 1, sc)

RECURSIVE AcRefine(_, _)
Placed(x, s, sc) ==
  IF x.b.st # "ok" THEN x
  ELSE AcRefine(IF s = 0 THEN [x EXCEPT !.k = @ + 1]
                ELSE [x EXCEPT !.block[At(x.k)] = s, !.new = @ \cup {At(x.k)}, !.k = @ + 1], sc)
NewCoef(x, b, r, sc) ==
  IF b.st # "ok" THEN [x EXCEPT !.b = b]
  ELSE Placed(Advance([x EXCEPT !.b = b], r, sc), IF b.v = 1 THEN 2 ^ sc.Al ELSE 0 - 2 ^ sc.Al, sc)
AcRefineSymbol(x, b, r, s, sc) ==
  IF b.st # "ok" THEN [x EXCEPT !.b = b]
  ELSE IF s > 0 THEN NewCoef(x, Receive(b, 1), r, sc)
  ELSE IF r = MAXRUN THEN Placed(Advance([x EXCEPT !.b = b], r, sc), 0, sc)
  ELSE EobBits(x, b, r)
AcRefineDecoded(x, b, sc) == AcRefineSymbol(x, b, b.v \div 16, b.v % 16, sc)
AcRefine(x, sc) ==
  IF x.b.st # "ok" \/ x.k > sc.Se THEN x ELSE AcRefineDecoded(x, HUFF_DECODE(x.b, tables.ac), sc)

RECURSIVE Corrections(_, _)
Corrections(x, sc) ==
  IF x.b.st # "ok" \/ x.k > sc.Se THEN x
  ELSE IF x.block[x.k] # 0 THEN Corrections(CorrectionBit(x, Receive(x.b, 1), sc), sc)
  ELSE Corrections([x EXCEPT !.k = @ + 1], sc)

RefineRest(x, sc) == IF x.b.st = "ok" /\ x.eob > 0 THEN Corrections(x, sc) ELSE x
decode_mcu_AC_refine(d, block, sc) ==
  BandDone(d, RefineRest(IF d.EOBRUN > 0 THEN [Band(d, block, sc) EXCEPT !.eob = d.EOBRUN]
                         ELSE AcRefine(Band(d, block, sc), sc), sc))

(* every routine but DC_refine does nothing once data has run out *)
ProgressiveMcu(d, block, sc) ==
  IF d.b.st # "ok" THEN [d |-> Suspended(d, d.b.st), block |-> block]
  ELSE IF d.b.insufficient /\ ~(sc.Ss = 1 /\ sc.Ah > 0)
       THEN [d |-> [d EXCEPT !.restarts_to_go = @ - 1, !.mcu = @ + 1], block |-> block]
  ELSE IF sc.Ss = 1 THEN IF sc.Ah = 0 THEN decode_mcu_DC_first(d, block, sc.Al) ELSE decode_mcu_DC_refine(d, block, sc.Al)
  ELSE IF sc.Ah = 0 THEN decode_mcu_AC_first(d, block, sc) ELSE decode_mcu_AC_refine(d, block, sc)

(***************************************************************************)
(* Progressive scans as the standard writes them: a token is a symbol, or  *)
(* -1 for none, and the bits after it.                                     *)
(***************************************************************************)
Token(sym, bits) == [sym |-> sym, bits |-> bits]
Magnitude(x, Al) == Abs(x) \div 2 ^ Al
SignBit(x) == IF x >= 0 THEN 1 ELSE 0

FlushRun(st) ==
  IF st.run = 0 THEN st
  ELSE LET n == Nbits(st.run) - 1
       IN  [toks |-> Append(st.toks, Token(16 * n, BitsOf(st.run % 2 ^ n, n) \o st.be)), run |-> 0, be |-> <<>>]
Bumped(st) == IF st.run = 2 ^ MAXRUN - 1 THEN FlushRun(st) ELSE st
Bump(st, be) == Bumped([st EXCEPT !.run = @ + 1, !.be = @ \o be])
Then(st, toks) == [FlushRun(st) EXCEPT !.toks = @ \o toks]

RECURSIVE FirstTokens(_, _, _, _, _)
FirstTokens(st, block, sc, k, r) ==
  IF k > sc.Se THEN IF r > 0 THEN Bump(st, <<>>) ELSE st
  ELSE LET m == Magnitude(block[k], sc.Al)
       IN  IF m = 0 THEN FirstTokens(st, block, sc, k + 1, r + 1)
           ELSE FirstTokens(Then(st, [i \in 1 .. r \div (MAXRUN + 1) |-> Token(16 * MAXRUN, <<>>)]
                                       \o <<Token(16 * (r % (MAXRUN + 1)) + Nbits(m), ValueBits(IF block[k] < 0 THEN 0 - m ELSE m))>>),
                            block, sc, k + 1, 0)

RECURSIVE RefineTokens(_, _, _, _, _, _)
RefineTokens(st, block, sc, k, r, br) ==
  IF k > sc.Se THEN IF r > 0 \/ br # <<>> THEN Bump(st, br) ELSE st
  ELSE LET m == Magnitude(block[k], sc.Al)
       IN  IF m = 0 THEN RefineTokens(st, block, sc, k + 1, r + 1, br)
           ELSE IF r > MAXRUN /\ \E i \in k .. sc.Se : Magnitude(block[i], sc.Al) = 1
                THEN RefineTokens(Then(st, <<Token(16 * MAXRUN, br)>>), block, sc, k, r - MAXRUN - 1, <<>>)
           ELSE IF m > 1 THEN RefineTokens(st, block, sc, k + 1, r, Append(br, m % 2))
           ELSE RefineTokens(Then(st, <<Token(16 * r + 1, <<SignBit(block[k])>> \o br)>>), block, sc, k + 1, 0, <<>>)

DcTokens(blocks, sc) ==
  [i \in DOMAIN blocks |->
     IF sc.Ah > 0 THEN Token(0 - 1, <<(blocks[i][1] \div 2 ^ sc.Al) % 2>>)
     ELSE LET diff == blocks[i][1] \div 2 ^ sc.Al - IF i = 1 THEN 0 ELSE blocks[i - 1][1] \div 2 ^ sc.Al
          IN  Token(Nbits(Abs(diff)), ValueBits(diff))]

Tokens(blocks, sc) ==
  IF sc.Ss = 1 THEN DcTokens(blocks, sc)
  ELSE FlushRun(FoldLeft(LAMBDA st, blk : IF sc.Ah = 0 THEN FirstTokens(st, blk, sc, sc.Ss, 0)
                                          ELSE RefineTokens(st, blk, sc, sc.Ss, 0, <<>>),
                         [toks |-> <<>>, run |-> 0, be |-> <<>>], blocks)).toks

(* the restart intervals of an image *)
Intervals(mcus, ri) ==
  IF ri = 0 THEN <<mcus>>
  ELSE [i \in 1 .. (Len(mcus) + ri - 1) \div ri |-> SubSeq(mcus, (i - 1) * ri + 1, IF i * ri > Len(mcus) THEN Len(mcus) ELSE i * ri)]

RECURSIVE ToBytes(_)
ToBytes(bits) ==
  IF bits = <<>> THEN <<>>
  ELSE IF Len(bits) < BYTE THEN ToBytes(bits \o [i \in 1 .. BYTE - Len(bits) |-> 1])
  ELSE LET c == NumberOf(SubSeq(bits, 1, BYTE))
       IN  (IF c = ONES THEN <<c, 0>> ELSE <<c>>) \o ToBytes(SubSeq(bits, BYTE + 1, Len(bits)))

TokenBits(tok, codes) == (IF tok.sym < 0 THEN <<>> ELSE codes[tok.sym]) \o tok.bits
IntervalBytes(toks, codes, i) ==
  (IF i = 1 THEN <<>> ELSE <<ONES, RST0 + ((i - 2) % RSTS)>>)
     \o ToBytes(FlattenSeq([j \in DOMAIN toks |-> TokenBits(toks[j], codes)]))
ScanBytes(parts, codes) == FlattenSeq([i \in DOMAIN parts |-> IntervalBytes(parts[i], codes, i)]) \o <<ONES, EOI>>

ScanTokens(pic, sc) ==
  [i \in DOMAIN Intervals(pic.mcus, pic.ri) |->
     Tokens([j \in DOMAIN Intervals(pic.mcus, pic.ri)[i] |-> Intervals(pic.mcus, pic.ri)[i][j][1]], sc)]
ScanSymbols(parts, n) ==
  [s \in 0 .. n |-> SumFunction([i \in DOMAIN parts |-> Cardinality({j \in DOMAIN parts[i] : parts[i][j].sym = s})])]

NoTable == [bits |-> [l \in 1 .. MAXLEN |-> 0], huffval |-> <<>>]
OptimalTable(freq, n) == IF \A s \in DOMAIN freq : freq[s] = 0 THEN NoTable ELSE jpeg_gen_optimal_table(freq, n)

(***************************************************************************)
(* The specification.                                                      *)
(***************************************************************************)
NewEncoder(pic) ==
  [put |-> <<>>, out |-> <<>>, last_dc_val |-> [ci \in 1 .. pic.comps |-> 0], restarts_to_go |-> pic.ri,
   next_restart_num |-> 0, mcu |-> 0,
   dc_counts |-> [s \in 0 .. DC_SYMBOLS - 1 |-> 0], ac_counts |-> [s \in 0 .. AC_SYMBOLS - 1 |-> 0]]

NoTables == [edc |-> <<>>, eac |-> <<>>, dc |-> <<>>, ac |-> <<>>]
TablesOf(dc, ac) ==
  [edc |-> jpeg_make_c_derived_tbl(dc), eac |-> jpeg_make_c_derived_tbl(ac),
   dc |-> jpeg_make_d_derived_tbl(dc), ac |-> jpeg_make_d_derived_tbl(ac)]

BlankImage(pic) == [i \in DOMAIN pic.mcus |-> [ci \in 1 .. pic.comps |-> BlankBlock]]

HuffInit ==
  \E pic \in Pictures \cup {[freq |-> f] : f \in Frequencies} :
    /\ picture = pic
    /\ phase = IF "freq" \in DOMAIN pic THEN "table" ELSE IF pic.scans = <<>> THEN "gather" ELSE "scan"
    /\ enc = IF "freq" \in DOMAIN pic THEN <<>> ELSE NewEncoder(pic)
    /\ tables = NoTables
    /\ stream = <<>>
    /\ given = 0
    /\ scan = 0
    /\ dec = <<>>
    /\ coefs = IF "freq" \in DOMAIN pic THEN <<>> ELSE BlankImage(pic)

Gather ==
  /\ phase = "gather"
  /\ enc.mcu < Len(picture.mcus)
  /\ enc' = [encode_mcu_gather(enc, picture.mcus[enc.mcu + 1], picture.ri) EXCEPT !.mcu = enc.mcu + 1]
  /\ UNCHANGED <<picture, phase, tables, stream, given, scan, dec, coefs>>

finish_pass_gather ==
  /\ phase = "gather"
  /\ enc.mcu = Len(picture.mcus)
  /\ tables' = TablesOf(jpeg_gen_optimal_table(enc.dc_counts, DC_SYMBOLS), jpeg_gen_optimal_table(enc.ac_counts, AC_SYMBOLS))
  /\ enc' = start_pass_huff(enc, picture.ri, picture.comps)
  /\ phase' = "encode"
  /\ UNCHANGED <<picture, stream, given, scan, dec, coefs>>

Encode ==
  /\ phase = "encode"
  /\ enc.mcu < Len(picture.mcus)
  /\ enc' = [encode_mcu_huff(enc, picture.mcus[enc.mcu + 1], picture.ri, tables.edc, tables.eac) EXCEPT !.mcu = enc.mcu + 1]
  /\ UNCHANGED <<picture, phase, tables, stream, given, scan, dec, coefs>>

(* the decoder starts on what has been written, with the bytes of whatever *)
(* follows the image in the same buffer                                    *)
finish_pass_huff ==
  /\ phase = "encode"
  /\ enc.mcu = Len(picture.mcus)
  /\ enc' = flush_bits(enc)
  /\ stream' = flush_bits(enc).out \o <<ONES, EOI>> \o picture.pad
  /\ given' = IF picture.pad = <<>> THEN 0 ELSE Len(stream')
  /\ dec' = start_pass_huff_decoder(picture.comps, picture.ri)
  /\ phase' = "decode"
  /\ UNCHANGED <<picture, tables, scan, coefs>>

StartScan(parts, dc, ac) ==
  /\ tables' = TablesOf(dc, ac)
  /\ stream' = ScanBytes(parts, IF picture.scans[scan + 1].Ss = 1 THEN jpeg_make_c_derived_tbl(dc) ELSE jpeg_make_c_derived_tbl(ac))

(* start_pass_phuff_decoder *)
NextScan ==
  /\ \/ phase = "scan"
     \/ phase = "decode" /\ picture.scans # <<>> /\ dec.mcu = Len(picture.mcus) /\ scan < Len(picture.scans)
  /\ LET parts == ScanTokens(picture, picture.scans[scan + 1])
         isDC == picture.scans[scan + 1].Ss = 1
     IN  StartScan(parts, IF isDC THEN OptimalTable(ScanSymbols(parts, DC_SYMBOLS), DC_SYMBOLS) ELSE NoTable,
                          IF isDC THEN NoTable ELSE OptimalTable(ScanSymbols(parts, AC_SYMBOLS), AC_SYMBOLS))
  /\ dec' = start_pass_huff_decoder(1, picture.ri)
  /\ given' = 0
  /\ scan' = scan + 1
  /\ phase' = "decode"
  /\ UNCHANGED <<picture, enc, coefs>>

SourceMore ==
  /\ phase = "decode"
  /\ given < Len(stream)
  /\ given' = given + 1
  /\ UNCHANGED <<picture, phase, enc, tables, stream, scan, dec, coefs>>

SeqDecoded(x) ==
  /\ dec' = x.d
  /\ coefs' = IF x.out = <<>> THEN coefs ELSE [coefs EXCEPT ![dec.mcu + 1] = x.out]
ProgDecoded(x) ==
  /\ dec' = x.d
  /\ coefs' = [coefs EXCEPT ![dec.mcu + 1][1] = x.block]

Decode ==
  /\ phase = "decode"
  /\ dec.mcu \in 0 .. Len(picture.mcus) - 1
  /\ IF picture.scans = <<>> THEN SeqDecoded(decode_mcu(dec, picture.ri))
     ELSE ProgDecoded(ProgressiveMcu(Restarted(dec, picture.ri), coefs[dec.mcu + 1][1], picture.scans[scan]))
  /\ UNCHANGED <<picture, phase, enc, tables, stream, given, scan>>

HuffNext == Gather \/ finish_pass_gather \/ Encode \/ finish_pass_huff \/ NextScan \/ SourceMore \/ Decode

(***************************************************************************)
(* Properties.                                                             *)
(***************************************************************************)
Prefix(a, b) == Len(a) <= Len(b) /\ SubSeq(b, 1, Len(a)) = a
Occurring(f) == {s \in DOMAIN f : f[s] > 0}

TableGood(f, t, c) ==
  /\ ~BadTable(t.bits)
  /\ Len(t.huffval) = NumSymbols(t.bits)
  /\ DOMAIN c = Occurring(f)
  /\ \A a, b \in DOMAIN c : a # b => ~Prefix(c[a], c[b])
  /\ \A a \in DOMAIN c : 0 \in ToSet(c[a])
TableFits(f) == LET t == jpeg_gen_optimal_table(f, Cardinality(DOMAIN f)) IN TableGood(f, t, jpeg_make_c_derived_tbl(t))

(* A table made from any frequencies has a code for every symbol that      *)
(* occurs, none longer than allowed, none the beginning of another and     *)
(* none all ones, also when codes had to be shortened.                     *)
TablesUsable == phase = "table" => TableFits(picture.freq)

Wanted(block) == IF picture.ac THEN block ELSE [k \in 1 .. DCTSIZE2 |-> IF k = 1 THEN block[1] ELSE 0]

(* What the sequential decoder has decoded of an image is what the encoder *)
(* was given, wherever the input ran out: on the fast and on the slow      *)
(* path, over restarts and stuffed bytes, and with DC coefficients only    *)
(* when the AC ones are not wanted.                                        *)
RoundTrip ==
  phase = "decode" /\ picture.scans = <<>> =>
    /\ dec.mcu >= 0
    /\ \A i \in 1 .. dec.mcu : \A ci \in 1 .. picture.comps : coefs[i][ci] = Wanted(picture.mcus[i][ci])

Precision(k, n) ==
  LET done == {i \in 1 .. n : k \in picture.scans[i].Ss .. picture.scans[i].Se}
  IN  IF done = {} THEN 0 - 1 ELSE picture.scans[Max(done)].Al
AtPrecision(x, k, n) ==
  IF Precision(k, n) < 0 THEN 0
  ELSE IF k = 1 THEN (x \div 2 ^ Precision(k, n)) * 2 ^ Precision(k, n)
  ELSE (IF x < 0 THEN 0 - 1 ELSE 1) * Magnitude(x, Precision(k, n)) * 2 ^ Precision(k, n)

(* After an MCU of a progressive scan its coefficients are those of the    *)
(* image at the precision of the scans read so far, however often the      *)
(* decoder ran out of input in the middle of the MCU.                      *)
Refined ==
  phase = "decode" /\ picture.scans # <<>> =>
    /\ dec.mcu >= 0
    /\ \A i \in 1 .. dec.mcu : \A k \in 1 .. DCTSIZE2 : coefs[i][1][k] = AtPrecision(picture.mcus[i][1][k], k, scan)
=============================================================================
