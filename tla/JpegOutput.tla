----------------------------- MODULE JpegOutput -----------------------------
(***************************************************************************)
(* The output side of the JPEG decompressor: the coefficient controller's  *)
(* output half (jdcoefct.c), the main buffer controller with its context   *)
(* rows (jdmainct.c), the upsampler (jdsample.c) and the postprocessing    *)
(* controller with its one and two pass quantisation (jdpostct.c).         *)
(*                                                                         *)
(* Component 0 is not subsampled and component 1 is, vertically by img.v.  *)
(* A sample row is [y, n, good]: its number in the component, the scans    *)
(* that were in its coefficients and how many of them were right.          *)
(* d.buf[c] is the main buffer and d.xb[w][c] the two pointer lists into   *)
(* it, whose entries may be unset; d.color is the upsampler's colour       *)
(* buffer, which points into a list for component 0 (fullsize_upsample)    *)
(* and holds copies for component 1.  A line of output is [y, near, far]:  *)
(* the row of component 0 and the two rows of component 1 it was           *)
(* interpolated from.                                                      *)
(***************************************************************************)
EXTENDS JpegInput

Comps == {0, 1}
Unset == 0 - 9
NoRow == [y |-> Unset, n |-> 0, good |-> 0]
NoLine == [y |-> NoRow, near |-> NoRow, far |-> NoRow]
Least(a, b) == IF a < b THEN a ELSE b

Groups(img) == IF img.ctx THEN M + 2 ELSE M
BufferRows(img, c) == 0 .. Rgroup(img, c) * Groups(img) - 1
ListRows(img, c) == 0 - Rgroup(img, c) .. Rgroup(img, c) * (M + 3) - 1

(***************************************************************************)
(* A row of iMCUs into the main buffer, along pointer list w.              *)
(***************************************************************************)
InverseDCT(d, w, r, coef) ==
  [d EXCEPT !.buf = [c \in Comps |-> [j \in BufferRows(d.img, c) |->
     LET at == {i \in 0 .. BlockRows(d.img, c, r) * M - 1 : d.xb[w][c][i] = j}
     IN  IF at = {} THEN d.buf[c][j]
         ELSE [y |-> r * Rgroup(d.img, c) * M + (CHOOSE i \in at : \A k \in at : i >= k),
               n |-> coef.n, good |-> coef.good]]]]

OnepassDone(r, w) ==
  IF ~r.ok THEN [d |-> r.d, ok |-> FALSE]
  ELSE [d |-> RowRead([InverseDCT(r.d, w, r.d.inrow,
                                  [n |-> 1, good |-> IF r.d.good THEN 1 ELSE 0])
                         EXCEPT !.outrow = @ + 1]).d,
        ok |-> TRUE]

decompress_onepass(d, w) == OnepassDone(DecodeRow(d), w)

(* mutant: output runs level with the row that is being read *)
InputLevel(d) ==
  \/ d.inscan < d.outscan
  \/ d.inscan = d.outscan /\ d.inrow < d.outrow

(* Output waits for input of a row of its scan. *)
InputBehind(d) ==
  \/ d.inscan < d.outscan
  \/ d.inscan = d.outscan /\ d.inrow <= d.outrow

(* mutant: no row ahead *)
SmoothLevel(d) ==
  /\ d.inscan <= d.outscan
  /\ ~d.eoi
  /\ ~(d.inscan = d.outscan /\ d.inrow > d.outrow)

(* Smoothing also looks at the DC coefficients of the row below, so the    *)
(* DC scan, the first, has to be a row ahead.                              *)
SmoothBehind(d) ==
  /\ d.inscan <= d.outscan
  /\ ~d.eoi
  /\ ~(d.inscan = d.outscan /\ d.inrow > d.outrow + IF d.inscan = 1 THEN 1 ELSE 0)

smoothing_ok(d) == d.img.smooth /\ d.inscan < d.img.scans

RowOut(d, w) ==
  [d |-> [InverseDCT(d, w, d.outrow, d.coef[d.outrow]) EXCEPT
            !.outrow = @ + 1,
            !.below = IF d.smoothing /\ d.outrow + 1 < TotalRows(d.img)
                      THEN d.coef[d.outrow + 1].n ELSE 1],
   ok |-> TRUE]

RECURSIVE decompress_data(_, _)
InputMade(r, w) ==
  IF r.ret \in {"SUSPENDED", "ERROR"} THEN [d |-> r.d, ok |-> FALSE]
  ELSE decompress_data(r.d, w)

decompress_data(d, w) ==
  IF IF d.smoothing THEN SmoothBehind(d) ELSE InputBehind(d)
  THEN InputMade(consume_input(d), w)
  ELSE RowOut(d, w)

Decompress(d, w) == IF d.full THEN decompress_data(d, w) ELSE decompress_onepass(d, w)

(***************************************************************************)
(* Upsampling and postprocessing: up to max more lines from row group      *)
(* d.group of the pointer list w.  The result is the lines and d with the  *)
(* counters moved on.                                                      *)
(***************************************************************************)
RowAt(d, w, c, i) ==
  IF d.xb[w][c][i] = Unset THEN NoRow ELSE d.buf[c][d.xb[w][c][i]]

(* The neighbour of a row that its line is interpolated with: the one      *)
(* above for the upper line of a row group, the one below for the lower.   *)
Upsampled(d, w) ==
  [k \in 0 .. d.img.v - 1 |->
     [near |-> RowAt(d, w, 1, d.group),
      far |-> IF d.img.ctx THEN RowAt(d, w, 1, d.group + IF k = 0 THEN 0 - 1 ELSE 1)
              ELSE RowAt(d, w, 1, d.group)]]

FillColor(d, w) ==
  IF d.nextout < d.img.v THEN d
  ELSE [d EXCEPT !.color = [w |-> w, at |-> d.group * d.img.v, c1 |-> Upsampled(d, w)],
                 !.nextout = 0]

ColorLine(d, k) ==
  [y |-> RowAt(d, d.color.w, 0, d.color.at + k), near |-> d.color.c1[k].near, far |-> d.color.c1[k].far]

Converted(d, n) ==
  [d |-> [d EXCEPT !.nextout = @ + n, !.rowstogo = @ - n,
                   !.group = IF d.nextout + n >= d.img.v THEN @ + 1 ELSE @],
   lines |-> [i \in 1 .. n |-> ColorLine(d, d.nextout + i - 1)]]

FilledUp(d, max) == Converted(d, Least(Least(d.img.v - d.nextout, d.rowstogo), max))

sep_upsample(d, w, max) == FilledUp(FillColor(d, w), max)

(* Merged upsampling makes both lines of a row group at once and keeps the *)
(* second in a spare row when only one is wanted.                          *)
MergedLine(d, w, k) ==
  [y |-> RowAt(d, w, 0, d.group * d.img.v + k), near |-> RowAt(d, w, 1, d.group),
   far |-> RowAt(d, w, 1, d.group)]

MergedRows(d, w, n) ==
  [d |-> [d EXCEPT !.rowstogo = @ - n, !.spare = MergedLine(d, w, 1), !.sparefull = n < 2,
                   !.group = IF n < 2 THEN @ ELSE @ + 1],
   lines |-> [i \in 1 .. n |-> MergedLine(d, w, i - 1)]]

merged_2v_upsample(d, w, max) ==
  IF d.sparefull
  THEN [d |-> [d EXCEPT !.sparefull = FALSE, !.rowstogo = @ - 1, !.group = @ + 1],
        lines |-> <<d.spare>>]
  ELSE MergedRows(d, w, Least(Least(2, d.rowstogo), max))

merged_1v_upsample(d, w) ==
  [d |-> [d EXCEPT !.group = @ + 1], lines |-> <<MergedLine(d, w, 0)>>]

upsample(d, w, max) ==
  CASE ~d.img.merged -> sep_upsample(d, w, max)
    [] d.img.merged /\ d.img.v = 2 -> merged_2v_upsample(d, w, max)
    [] d.img.merged /\ d.img.v # 2 -> merged_1v_upsample(d, w)

(* the strip of the quantiser: as high as a row group *)
post_process_1pass(d, w, max) == upsample(d, w, Least(max, d.img.v))

StripFull(d) ==
  IF d.next >= d.img.v THEN [d EXCEPT !.starting = @ + d.img.v, !.next = 0] ELSE d

Prepassed(r) ==
  [d |-> StripFull([r.d EXCEPT !.next = @ + Len(r.lines),
                               !.whole = [i \in DOMAIN @ |->
                                  LET k == i - r.d.starting - r.d.next
                                  IN  IF k \in 1 .. Len(r.lines) THEN r.lines[k] ELSE @[i]]]),
   lines |-> r.lines]

post_process_prepass(d, w) == Prepassed(upsample(d, w, d.img.v - d.next))

StripOut(d, n) ==
  [d |-> StripFull([d EXCEPT !.next = @ + n]),
   lines |-> [i \in 1 .. n |-> d.whole[d.starting + d.next + i]]]

post_process_2pass(d, max) ==
  StripOut(d, Least(Least(d.img.v - d.next, max), d.img.height - d.starting))

post_process_data(d, w, max) ==
  CASE d.post = "upsample" -> upsample(d, w, max)
    [] d.post = "1pass" -> post_process_1pass(d, w, max)
    [] d.post = "prepass" -> post_process_prepass(d, w)
    [] d.post = "2pass" -> post_process_2pass(d, max)

(***************************************************************************)
(* The main buffer controller.                                             *)
(***************************************************************************)
make_funny_pointers(d) ==
  [w \in {0, 1} |-> [c \in Comps |-> [i \in ListRows(d.img, c) |->
     LET rg == Rgroup(d.img, c)
     IN  CASE i < 0 -> IF w = 0 THEN 0 ELSE Unset
           [] i >= rg * (M + 2) -> Unset
           [] w = 1 /\ i >= rg * M -> i - 2 * rg
           [] w = 1 /\ i >= rg * (M - 2) -> i + 2 * rg
           [] OTHER -> i]]]

(* mutant: only the list in use is wrapped around *)
WrapOne(d) ==
  [d EXCEPT !.xb = [w \in {0, 1} |-> [c \in Comps |-> [i \in ListRows(d.img, c) |->
     LET rg == Rgroup(d.img, c)
     IN  CASE i < 0 /\ w = d.which -> d.xb[w][c][rg * (M + 2) + i]
           [] i >= rg * (M + 2) -> d.xb[w][c][i - rg * (M + 2)]
           [] OTHER -> d.xb[w][c][i]]]]]

set_wraparound_pointers(d) ==
  [d EXCEPT !.xb = [w \in {0, 1} |-> [c \in Comps |-> [i \in ListRows(d.img, c) |->
     LET rg == Rgroup(d.img, c)
     IN  CASE i < 0 -> d.xb[w][c][rg * (M + 2) + i]
           [] i >= rg * (M + 2) -> d.xb[w][c][i - rg * (M + 2)]
           [] OTHER -> d.xb[w][c][i]]]]]

RowsLeft(img, c) ==
  LET h == Rgroup(img, c) * M
  IN  IF CompHeight(img, c) % h = 0 THEN h ELSE CompHeight(img, c) % h

set_bottom_pointers(d) ==
  [d EXCEPT !.xb[d.which] = [c \in Comps |-> [i \in ListRows(d.img, c) |->
              LET left == RowsLeft(d.img, c)
              IN  IF i \in left .. left + 2 * Rgroup(d.img, c) - 1
                  THEN d.xb[d.which][c][left - 1] ELSE d.xb[d.which][c][i]]],
            !.groups = (RowsLeft(d.img, 0) - 1) \div d.img.v + 1]

start_pass_main(d) ==
  [d EXCEPT !.xb = IF d.img.ctx THEN make_funny_pointers(d)
                   ELSE [w \in {0, 1} |-> [c \in Comps |-> [i \in ListRows(d.img, c) |-> i]]],
            !.which = 0, !.ctxstate = "PREPARE", !.rowctr = 0, !.bufferfull = FALSE, !.group = 0]

SimpleDone(r) ==
  [r EXCEPT !.d = IF r.d.group >= M THEN [r.d EXCEPT !.bufferfull = FALSE, !.group = 0] ELSE r.d]

SimpleFilled(r, max) ==
  IF ~r.ok THEN [d |-> r.d, lines |-> <<>>]
  ELSE SimpleDone(post_process_data([r.d EXCEPT !.bufferfull = TRUE], 0, max))

process_data_simple_main(d, max) ==
  SimpleFilled(IF d.bufferfull THEN [d |-> d, ok |-> TRUE] ELSE Decompress(d, 0), max)

IMCUDone(r) ==
  IF r.d.group < r.d.groups THEN r
  ELSE [r EXCEPT !.d =
          [IF r.d.rowctr = 1 THEN set_wraparound_pointers(r.d) ELSE r.d EXCEPT
             !.which = 1 - @, !.bufferfull = FALSE, !.group = M + 1, !.groups = M + 2,
             !.ctxstate = "POSTPONED"]]

ProcessIMCU(d, max) == IMCUDone(post_process_data(d, d.which, max))

Prepare(d) == [d EXCEPT !.group = 0, !.groups = M - 1]
PrepareIMCU(d) ==
  [IF d.rowctr = TotalRows(d.img) THEN set_bottom_pointers(Prepare(d)) ELSE Prepare(d)
     EXCEPT !.ctxstate = "PROCESS"]

Joined(lines, r) == [r EXCEPT !.lines = lines \o @]

PostponedDone(r, max) ==
  IF r.d.group < r.d.groups THEN r
  ELSE IF Len(r.lines) >= max THEN [r EXCEPT !.d.ctxstate = "PREPARE"]
  ELSE Joined(r.lines, ProcessIMCU(PrepareIMCU(r.d), max - Len(r.lines)))

ContextFilled(r, max) ==
  IF ~r.ok THEN [d |-> r.d, lines |-> <<>>]
  ELSE CASE r.d.ctxstate = "POSTPONED" ->
              PostponedDone(post_process_data(r.d, r.d.which, max), max)
         [] r.d.ctxstate = "PREPARE" -> ProcessIMCU(PrepareIMCU(r.d), max)
         [] r.d.ctxstate = "PROCESS" -> ProcessIMCU(r.d, max)

RowCounted(r) ==
  IF r.ok THEN [r EXCEPT !.d.bufferfull = TRUE, !.d.rowctr = @ + 1] ELSE r

process_data_context_main(d, max) ==
  ContextFilled(IF d.bufferfull THEN [d |-> d, ok |-> TRUE]
                ELSE RowCounted(Decompress(d, d.which)), max)

process_data(d, max) ==
  IF d.post = "2pass" THEN post_process_data(d, 0, max)
  ELSE IF d.img.ctx THEN process_data_context_main(d, max)
  ELSE process_data_simple_main(d, max)

=============================================================================
