-------------------------------- MODULE Jpeg --------------------------------
(***************************************************************************)
(* The JPEG decompression library as its application drives it             *)
(* (jdapimin.c, jdapistd.c, jdmaster.c, jcomapi.c): one action per call.   *)
(* Images is a set of images with their files and the way the application *)
(* decodes them; photograph/jpeg/jpeg.c reads one line at a time of an     *)
(* image that is not buffered.  A call the library answers with an error   *)
(* exit is not made, except for errors in the file.                        *)
(***************************************************************************)
EXTENDS JpegOutput

CONSTANTS Images, Lines

VARIABLES cinfo,      \* the decompression object with all its sub-objects
          lines_got,  \* the lines of the last call: [at, line]
          aborts,     \* calls of jpeg_abort the application may still make
          jpegTurn    \* changes with every call that goes on with the image
jpegVars == <<cinfo, lines_got, aborts, jpegTurn>>

NewDecompress(img) ==
  [img |-> img, gs |-> "START", avail |-> IF img.suspends THEN 0 ELSE Len(img.file), at |-> 1,
   soi |-> FALSE, sof |-> FALSE, unread |-> NoMarker, nextrst |-> 0, interval |-> 0,
   togo |-> 0, insufficient |-> FALSE,
   consume |-> "markers", inheaders |-> TRUE, eoi |-> FALSE, multi |-> FALSE, inscan |-> 0,
   inrow |-> 0, mcu |-> 0, good |-> TRUE,
   full |-> FALSE, coef |-> [r \in 0 .. TotalRows(img) - 1 |-> [n |-> 0, good |-> 0]],
   outscan |-> 0, outrow |-> 0, scanline |-> 0, smoothing |-> FALSE, below |-> 1,
   buf |-> [c \in Comps |-> [i \in BufferRows(img, c) |-> NoRow]],
   xb |-> [w \in {0, 1} |-> [c \in Comps |-> [i \in ListRows(img, c) |-> Unset]]],
   which |-> 0, ctxstate |-> "PREPARE", rowctr |-> 0, bufferfull |-> FALSE, group |-> 0,
   groups |-> 0,
   color |-> [w |-> 0, at |-> 0, c1 |-> [k \in 0 .. img.v - 1 |-> [near |-> NoRow, far |-> NoRow]]],
   nextout |-> 0, rowstogo |-> 0, spare |-> NoLine, sparefull |-> FALSE,
   post |-> "upsample", next |-> 0, starting |-> 0,
   whole |-> [i \in 1 .. (IF img.quant = 2 THEN CeilDiv(img.height, img.v) * img.v ELSE 0) |-> NoLine],
   colormap |-> FALSE, dummy |-> FALSE]

JpegInit ==
  /\ \E img \in Images : cinfo = NewDecompress(img)
  /\ lines_got = <<>>
  /\ aborts = 1
  /\ jpegTurn = FALSE

(***************************************************************************)
(* jcomapi.c: all that belonged to the image is gone; the source stays.    *)
(***************************************************************************)
jpeg_abort(e) == [NewDecompress(e.img) EXCEPT !.avail = e.avail, !.at = e.at]

(* jpeg_consume_input *)
HeaderRead(r) == IF r.ret = "SOS" /\ r.d.gs # "ERROR" THEN [r EXCEPT !.d.gs = "READY"] ELSE r

jpeg_consume_input(e) ==
  CASE e.gs = "START" -> HeaderRead(consume_input([reset_input_controller(e) EXCEPT !.gs = "INHEADER"]))
    [] e.gs = "INHEADER" -> HeaderRead(consume_input(e))
    [] e.gs = "READY" -> [d |-> e, ret |-> "SOS"]
    [] OTHER -> consume_input(e)

(* jdmaster.c *)
master_selection(e) ==
  start_input_pass([e EXCEPT !.full = e.multi \/ e.img.buffered, !.dummy = FALSE])

start_output_pass(e) == [e EXCEPT !.smoothing = e.full /\ smoothing_ok(e), !.outrow = 0]
start_pass_upsample(e) ==
  [e EXCEPT !.nextout = e.img.v, !.rowstogo = e.img.height, !.sparefull = FALSE]
start_pass_dpost(e, post) == [e EXCEPT !.post = post, !.starting = 0, !.next = 0]

TwoPass(e) == e.img.quant = 2 /\ ~e.colormap

PassThru(e) ==
  start_pass_main(start_pass_dpost(start_pass_upsample(start_output_pass(
    [e EXCEPT !.dummy = TwoPass(e), !.colormap = @ \/ e.img.quant > 0])),
    CASE TwoPass(e) -> "prepass"
      [] e.img.quant > 0 /\ ~TwoPass(e) -> "1pass"
      [] OTHER -> "upsample"))

prepare_for_output_pass(e) ==
  IF e.dummy THEN start_pass_dpost([e EXCEPT !.dummy = FALSE], "2pass") ELSE PassThru(e)

(***************************************************************************)
(* jdapistd.c                                                              *)
(***************************************************************************)
RECURSIVE DummyPass(_)
DummyStep(r) ==
  IF r.lines = <<>> THEN [d |-> r.d, ok |-> FALSE]
  ELSE DummyPass([r.d EXCEPT !.scanline = @ + Len(r.lines)])

DummyPass(e) ==
  IF ~e.dummy THEN [d |-> e, ok |-> TRUE]
  ELSE IF e.scanline < e.img.height THEN DummyStep(process_data(e, 0))
  ELSE DummyPass([prepare_for_output_pass(e) EXCEPT !.scanline = 0])

Scanning(r) ==
  IF r.ok THEN [r.d EXCEPT !.gs = IF r.d.img.raw THEN "RAW_OK" ELSE "SCANNING"] ELSE r.d

output_pass_setup(e) ==
  Scanning(DummyPass(IF e.gs = "PRESCAN" THEN e
                     ELSE [prepare_for_output_pass(e) EXCEPT !.scanline = 0, !.gs = "PRESCAN"]))

RECURSIVE Preload(_)
Preloaded(r) == IF r.ret \in {"SUSPENDED", "EOI", "ERROR"} THEN r ELSE Preload(r.d)
Preload(e) == Preloaded(consume_input(e))

PreloadDone(r) ==
  IF r.ret = "EOI" THEN output_pass_setup([r.d EXCEPT !.outscan = r.d.inscan]) ELSE r.d

StartPreload(e) ==
  IF e.multi THEN PreloadDone(Preload(e)) ELSE PreloadDone([d |-> e, ret |-> "EOI"])

jpeg_start_decompress(e) ==
  CASE e.gs = "READY" -> IF e.img.buffered THEN [master_selection(e) EXCEPT !.gs = "BUFIMAGE"]
                         ELSE StartPreload([master_selection(e) EXCEPT !.gs = "PRELOAD"])
    [] e.gs = "PRELOAD" -> StartPreload(e)
    [] e.gs = "PRESCAN" -> output_pass_setup(e)

LinesRead(r) == [r EXCEPT !.d.scanline = @ + Len(r.lines)]
jpeg_read_scanlines(e, n) == LinesRead(process_data(e, n))

RawRead(r) ==
  IF r.ok THEN [d |-> [r.d EXCEPT !.scanline = @ + r.d.img.v * M],
                lines |-> [i \in 1 .. r.d.img.v * M |->
                   [y |-> r.d.buf[0][i - 1], near |-> r.d.buf[1][(i - 1) \div r.d.img.v],
                    far |-> r.d.buf[1][(i - 1) \div r.d.img.v]]]]
  ELSE [d |-> r.d, lines |-> <<>>]

jpeg_read_raw_data(e) == RawRead(Decompress(e, 0))

jpeg_start_output(e, s) ==
  output_pass_setup([e EXCEPT !.outscan = IF e.eoi /\ s > e.inscan THEN e.inscan ELSE s])

RECURSIVE ScanFinish(_)
ScanFinished(r) == IF r.ret \in {"SUSPENDED", "ERROR"} THEN r.d ELSE ScanFinish(r.d)
ScanFinish(e) ==
  IF e.inscan <= e.outscan /\ ~e.eoi THEN ScanFinished(consume_input(e))
  ELSE [e EXCEPT !.gs = "BUFIMAGE"]

jpeg_finish_output(e) == ScanFinish([e EXCEPT !.gs = "BUFPOST"])

RECURSIVE FinishRead(_)
FinishedRead(r) == IF r.ret \in {"SUSPENDED", "ERROR"} THEN r.d ELSE FinishRead(r.d)
FinishRead(e) ==
  IF e.eoi THEN [jpeg_abort(e) EXCEPT !.gs = "FINISHED"] ELSE FinishedRead(consume_input(e))

jpeg_finish_decompress(e) == FinishRead([e EXCEPT !.gs = "STOPPING"])

(***************************************************************************)
(* jpeg_skip_scanlines: lines of the image that are read and dropped, row  *)
(* groups that are only counted, and rows of iMCUs that are decoded to     *)
(* nothing.                                                                *)
(***************************************************************************)
RECURSIVE read_and_discard_scanlines(_, _)
read_and_discard_scanlines(e, n) ==
  IF n = 0 THEN e ELSE read_and_discard_scanlines(jpeg_read_scanlines(e, 1).d, n - 1)

increment_simple_rowgroup_ctr(e, rows) ==
  read_and_discard_scanlines([e EXCEPT !.group = @ + rows \div e.img.v,
                                       !.scanline = @ + rows - (rows % e.img.v)], rows % e.img.v)

PerRow(img) == img.v * M
LeftInRow(e) == (PerRow(e.img) - (e.scanline % PerRow(e.img))) % PerRow(e.img)
(* mutant: the upsampler is not told of skipped rows *)
RowsForgotten(e) == e

RowsToGo(e) == [e EXCEPT !.rowstogo = e.img.height - e.scanline]
DropBuffer(e) ==
  RowsToGo([e EXCEPT !.bufferfull = FALSE, !.group = 0, !.ctxstate = "PREPARE", !.nextout = e.img.v])

RECURSIVE SkipRows(_, _)
SkipRows(e, n) ==
  IF n = 0 THEN e
  ELSE SkipRows(RowRead([DecodeRow(e).d EXCEPT !.outrow = @ + 1]).d, n - 1)

SkippedRows(e, to, after) ==
  IF e.multi
  THEN [e EXCEPT !.outrow = @ + to, !.rowctr = @ + after \div PerRow(e.img)]
  ELSE [SkipRows(e, to) EXCEPT !.rowctr = @ + to]

(* to: rows of iMCUs to skip; the rest of the lines after are dropped *)
SkipOn(e, to, after) ==
  LET s == [SkippedRows(e, to, after) EXCEPT !.scanline = @ + to * PerRow(e.img)]
  IN  RowsToGo(IF e.img.ctx THEN read_and_discard_scanlines(s, after - to * PerRow(e.img))
               ELSE increment_simple_rowgroup_ctr(s, after - to * PerRow(e.img)))

SkipAfter(e, after) ==
  SkipOn(e, (IF e.img.ctx THEN after - 1 ELSE after) \div PerRow(e.img), after)

WrapIf(e, left0) ==
  IF e.rowctr = 0 \/ (e.rowctr = 1 /\ left0 > 2) THEN set_wraparound_pointers(e) ELSE e

SkipContext(e, n, left0) ==
  IF n < left0 + 1 \/ (left0 <= 1 /\ e.bufferfull /\ n - left0 < PerRow(e.img) + 1)
  THEN read_and_discard_scanlines(e, n)
  ELSE IF left0 <= 1 /\ e.bufferfull
  THEN SkipAfter(DropBuffer(WrapIf([e EXCEPT !.scanline = @ + left0 + PerRow(e.img)], left0)),
                 n - left0 - PerRow(e.img))
  ELSE SkipAfter(DropBuffer(WrapIf([e EXCEPT !.scanline = @ + left0], left0)), n - left0)

SkipSimple(e, n, left0) ==
  IF n < left0 THEN increment_simple_rowgroup_ctr(e, n)
  ELSE SkipAfter(DropBuffer([e EXCEPT !.scanline = @ + left0]), n - left0)

(* At the bottom the lines are only counted: the input stays unread. *)
jpeg_skip_scanlines(e, n) ==
  IF e.scanline + n >= e.img.height THEN [e EXCEPT !.scanline = e.img.height]
  ELSE IF e.img.ctx THEN SkipContext(e, n, LeftInRow(e)) ELSE SkipSimple(e, n, LeftInRow(e))

(***************************************************************************)
(* The application's calls.                                                *)
(***************************************************************************)
Take(r) ==
  /\ cinfo' = r.d
  /\ lines_got' = [i \in 1 .. Len(r.lines) |-> [at |-> cinfo.scanline + i - 1, line |-> r.lines[i]]]
  /\ jpegTurn' = ~jpegTurn
  /\ UNCHANGED aborts

Call(e) == cinfo' = e /\ lines_got' = <<>> /\ jpegTurn' = ~jpegTurn /\ UNCHANGED aborts

Supply ==
  /\ cinfo.avail < Len(cinfo.img.file)
  /\ cinfo' = [cinfo EXCEPT !.avail = @ + 1]
  /\ lines_got' = <<>>
  /\ UNCHANGED <<aborts, jpegTurn>>

(* jpeg_read_header with an image required *)
Required(r) == IF r.ret = "EOI" THEN Error(r.d) ELSE r.d
ReadHeader == cinfo.gs \in {"START", "INHEADER"} /\ Call(Required(jpeg_consume_input(cinfo)))

ConsumeInput ==
  /\ cinfo.gs \in {"PRELOAD", "PRESCAN", "SCANNING", "BUFIMAGE", "BUFPOST", "STOPPING"}
  /\ cinfo.img.suspends
  /\ cinfo' = jpeg_consume_input(cinfo).d
  /\ lines_got' = <<>>
  /\ UNCHANGED <<aborts, jpegTurn>>

StartDecompress ==
  /\ cinfo.gs \in {"READY", "PRELOAD"} \/ (cinfo.gs = "PRESCAN" /\ ~cinfo.img.buffered)
  /\ Call(jpeg_start_decompress(cinfo))

ReadScanlines ==
  /\ cinfo.gs = "SCANNING"
  /\ cinfo.scanline < cinfo.img.height
  /\ \E n \in Lines : Take(jpeg_read_scanlines(cinfo, n))

ReadRawData ==
  /\ cinfo.gs = "RAW_OK"
  /\ cinfo.scanline < cinfo.img.height
  /\ Take(jpeg_read_raw_data(cinfo))

SkipScanlines ==
  /\ cinfo.gs = "SCANNING"
  /\ cinfo.img.skips
  /\ \E n \in 1 .. cinfo.img.height - cinfo.scanline : Call(jpeg_skip_scanlines(cinfo, n))

StartOutput ==
  \/ /\ cinfo.gs = "BUFIMAGE"
     /\ ~(cinfo.eoi /\ cinfo.outscan = cinfo.inscan)
     /\ \E s \in cinfo.outscan + 1 .. cinfo.img.scans : Call(jpeg_start_output(cinfo, s))
  \/ /\ cinfo.gs = "PRESCAN"
     /\ cinfo.img.buffered
     /\ Call(jpeg_start_output(cinfo, cinfo.outscan))

FinishOutput ==
  /\ cinfo.img.buffered
  /\ cinfo.gs \in {"SCANNING", "BUFPOST"}
  /\ Call(jpeg_finish_output(cinfo))

FinishDecompress ==
  /\ \/ cinfo.gs \in {"SCANNING", "RAW_OK"} /\ ~cinfo.img.buffered /\ cinfo.scanline >= cinfo.img.height
     \/ cinfo.gs \in {"BUFIMAGE", "STOPPING"}
  /\ Call(jpeg_finish_decompress(cinfo))

Abort ==
  /\ aborts > 0
  /\ cinfo.gs \notin {"START", "FINISHED"}
  /\ aborts' = aborts - 1
  /\ cinfo' = [jpeg_abort(cinfo) EXCEPT !.at = 1]
  /\ lines_got' = <<>>
  /\ UNCHANGED jpegTurn

JpegNext ==
  \/ Supply \/ ReadHeader \/ ConsumeInput \/ StartDecompress \/ ReadScanlines \/ ReadRawData
  \/ SkipScanlines \/ StartOutput \/ FinishOutput \/ FinishDecompress \/ Abort

(* The application goes on with the image and the source delivers it. *)
App ==
  \/ ReadHeader \/ StartDecompress \/ ReadScanlines \/ ReadRawData \/ StartOutput \/ FinishOutput
  \/ FinishDecompress
JpegFairness ==
  /\ WF_jpegVars(Supply)
  /\ []<>(cinfo.gs \in {"FINISHED", "ERROR"}) \/ []<><<App>>_jpegVars

JpegSpec == JpegInit /\ [][JpegNext]_jpegVars /\ JpegFairness

(***************************************************************************)
(* What the application gets.                                              *)
(***************************************************************************)
Clamp(i, h) == IF i < 0 THEN 0 ELSE IF i >= h THEN h - 1 ELSE i

RightLine(img, y) ==
  LET near == y \div img.v
  IN  [y |-> y, near |-> near,
       far |-> IF img.ctx /\ ~img.raw
               THEN Clamp(near + IF y % img.v = 0 THEN 0 - 1 ELSE 1, CompHeight(img, 1)) ELSE near]

(* rows that a returned line was made of, as pairs <<component, row>> *)
RowsOf(g) == {<<0, g.line.y>>, <<1, g.line.near>>, <<1, g.line.far>>}

GotImage == {g \in Range(lines_got) : g.at < cinfo.img.height}

(* Each line that a call returns (in its jpegTurn, whatever the numbers of     *)
(* lines asked for, skips, suspensions, output passes, the last rows of    *)
(* the image and the buffer reuse of jdmainct.c) is made of its own row of *)
(* component 0 and of the right rows of component 1.                       *)
RowsRight ==
  \A g \in GotImage :
    [y |-> g.line.y.y, near |-> g.line.near.y, far |-> g.line.far.y] = RightLine(cinfo.img, g.at)

(* An output pass of scan s never uses coefficients that scan s has not    *)
(* been read into yet, although input and output share the arrays.         *)
ScanRead == \A g \in GotImage : \A p \in RowsOf(g) : p[2].n >= cinfo.outscan

(* Block smoothing never looks at a row below that has no coefficients yet *)
(* (jdcoefct.c, decompress_smooth_data).                                   *)
BelowRead == cinfo.below >= 1

(* The upsampler's count of rows to go agrees with the lines that the      *)
(* application has been given, over skips and suspensions.                 *)
RowsCounted ==
  cinfo.gs = "SCANNING" /\ cinfo.post # "2pass" /\ (cinfo.img.merged => cinfo.img.v = 2)
    => cinfo.rowstogo = cinfo.img.height - cinfo.scanline

(* Damage stays where it is: with restart markers, an iMCU row none of     *)
(* whose restart intervals lost anything (nor the marker in front of it)   *)
(* is decoded from its own MCUs (jdmarker.c, jpeg_resync_to_restart).      *)
(* That is so for one burst that removes data, garbles it, or turns it     *)
(* into an illegal marker, and takes at most two restart markers with it:  *)
(* after three the next one is too far away and is taken for the wanted    *)
(* one, and a burst that forges a legal marker may end the scan.           *)
Confined ==
  \A g \in GotImage : \A p \in RowsOf(g) :
    p[2].y \div (Rgroup(cinfo.img, p[1]) * M) \notin cinfo.img.damaged => p[2].good = p[2].n

(* jpeg_skip_scanlines has jumped over the bottom of an image whose one    *)
(* scan is decoded as it is put out: nothing will ever read the rest.      *)
LeftUnread ==
  /\ cinfo.gs = "STOPPING" /\ cinfo.img.skips
  /\ cinfo.consume = "data" /\ ~cinfo.full /\ cinfo.inrow < TotalRows(cinfo.img)

(* The decompression of every file, complete, damaged or cut off, comes to *)
(* its end or is refused; it is never suspended for ever.  The exception   *)
(* is an image of one scan whose last lines were skipped: its data is left *)
(* unread and jpeg_finish_decompress returns FALSE each time it is called. *)
Ends == <>(cinfo.gs \in {"FINISHED", "ERROR"} \/ LeftUnread)

=============================================================================
