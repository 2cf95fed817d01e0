----------------------------- MODULE JpegInput -----------------------------
(***************************************************************************)
(* The input side of the JPEG decompressor (photograph/jpeg/libjpeg): the  *)
(* marker reader (jdmarker.c), the entropy decoder as far as its markers,  *)
(* restarts and suspensions go (jdhuff.c), the input controller            *)
(* (jdinput.c) and the coefficient controller (jdcoefct.c).                *)
(*                                                                         *)
(* A call is an operator on the record d, which stands for cinfo and its   *)
(* sub-objects.  d.img is what the file and the application fix: the       *)
(* file is the sequence d.img.file of marker segments and MCUs, and an     *)
(* MCU is known by its number in its scan.  d.avail of it has been read    *)
(* from the data source; a call that needs more is suspended, and past the *)
(* end of the file the source makes up EOI markers (jdatasrc.c).           *)
(***************************************************************************)
EXTENDS Integers, Sequences, FiniteSets, SequencesExt

CONSTANTS M,        \* _min_DCT_scaled_size
          MCUS,     \* MCUs of an iMCU row
          RSTS      \* restart numbers: 8 in the format

Marker(k) == [k |-> k, n |-> 0]
NoMarker == Marker("none")
EOI == Marker("EOI")
BAD == Marker("BAD")   \* a marker code below M_SOF0: no legal one

CeilDiv(a, b) == (a + b - 1) \div b
Rgroup(img, c) == IF c = 0 THEN img.v ELSE 1
TotalRows(img) == CeilDiv(img.height, img.v * M)
CompHeight(img, c) == CeilDiv(img.height * Rgroup(img, c), img.v)

(* block rows of component c in iMCU row r: those past the image are not   *)
(* there in the last one                                                   *)
BlockRows(img, c, r) ==
  LET blocks == CeilDiv(img.height * Rgroup(img, c), img.v * M)
  IN  IF r < TotalRows(img) - 1 \/ blocks % Rgroup(img, c) = 0 THEN Rgroup(img, c)
      ELSE blocks % Rgroup(img, c)

AtEnd(d) == d.avail = Len(d.img.file)
Error(d) == [d EXCEPT !.gs = "ERROR"]

(***************************************************************************)
(* Markers.                                                                *)
(***************************************************************************)
(* mutant: at the end of the file the source waits for more *)
MarkerAwaited(d) ==
  LET m == {i \in d.at .. d.avail : d.img.file[i].k # "MCU"}
      i == CHOOSE i \in m : \A j \in m : i <= j
  IN  IF m # {} THEN [d |-> [d EXCEPT !.at = i + 1, !.unread = d.img.file[i]], ok |-> TRUE]
      ELSE [d |-> [d EXCEPT !.at = d.avail + 1], ok |-> FALSE]

(* What is not a marker is skipped; what was skipped stays skipped when    *)
(* the source has no more for now.                                         *)
next_marker(d) ==
  LET m == {i \in d.at .. d.avail : d.img.file[i].k # "MCU"}
      i == CHOOSE i \in m : \A j \in m : i <= j
  IN  IF m # {} THEN [d |-> [d EXCEPT !.at = i + 1, !.unread = d.img.file[i]], ok |-> TRUE]
      ELSE IF AtEnd(d) THEN [d |-> [d EXCEPT !.at = d.avail + 1, !.unread = EOI], ok |-> TRUE]
      ELSE [d |-> [d EXCEPT !.at = d.avail + 1], ok |-> FALSE]

first_marker(d) ==
  IF d.at <= d.avail
  THEN IF d.img.file[d.at].k = "SOI"
       THEN [d |-> [d EXCEPT !.at = @ + 1, !.unread = Marker("SOI")], ok |-> TRUE]
       ELSE [d |-> Error(d), ok |-> FALSE]
  ELSE [d |-> IF AtEnd(d) THEN Error(d) ELSE d, ok |-> FALSE]

get_soi(d) == IF d.soi THEN Error(d) ELSE [d EXCEPT !.soi = TRUE, !.interval = 0]
get_sof(d) == IF d.sof THEN Error(d) ELSE [d EXCEPT !.sof = TRUE]
get_sos(d) == IF ~d.sof THEN Error(d) ELSE [d EXCEPT !.inscan = @ + 1, !.nextrst = 0]

(* A segment that is not complete yet is read again from its start. *)
Segment(d) ==
  CASE d.unread.k = "SOI" -> get_soi(d)
    [] d.unread.k = "SOF" -> get_sof(d)
    [] d.unread.k = "DRI" -> [d EXCEPT !.interval = d.unread.n]
    [] d.unread = BAD -> Error(d)
    [] OTHER -> d

RECURSIVE read_markers(_)
WithMarker(r) ==
  IF ~r.ok THEN [d |-> r.d, ret |-> "SUSPENDED"]
  ELSE CASE r.d.unread.k = "SOS" -> [d |-> [get_sos(r.d) EXCEPT !.unread = NoMarker], ret |-> "SOS"]
         [] r.d.unread.k = "EOI" -> [d |-> [r.d EXCEPT !.unread = NoMarker], ret |-> "EOI"]
         [] OTHER -> read_markers([Segment(r.d) EXCEPT !.unread = NoMarker])

read_markers(d) ==
  IF d.gs = "ERROR" THEN [d |-> d, ret |-> "ERROR"]
  ELSE WithMarker(IF d.unread # NoMarker THEN [d |-> d, ok |-> TRUE]
                  ELSE IF d.soi THEN next_marker(d) ELSE first_marker(d))

(***************************************************************************)
(* Restarts.                                                               *)
(***************************************************************************)
RstAway(n, m, by) == m.n = (n + by) % RSTS

(* mutant: an illegal marker is left for later like a legal one *)
ActionLeave(m, desired) ==
  IF m.k # "RST" THEN 3
  ELSE IF RstAway(desired, m, 1) \/ RstAway(desired, m, 2) THEN 3
  ELSE IF RstAway(desired, m, RSTS - 1) \/ RstAway(desired, m, RSTS - 2) THEN 2
  ELSE 1

(* 1: take it for the wanted one, 2: read on, 3: leave it for later *)
ResyncAction(m, desired) ==
  IF m = BAD THEN 2
  ELSE IF m.k # "RST" THEN 3
  ELSE IF RstAway(desired, m, 1) \/ RstAway(desired, m, 2) THEN 3
  ELSE IF RstAway(desired, m, RSTS - 1) \/ RstAway(desired, m, RSTS - 2) THEN 2
  ELSE 1

RECURSIVE jpeg_resync_to_restart(_, _)
Resynced(r, desired) == IF r.ok THEN jpeg_resync_to_restart(r.d, desired) ELSE r

jpeg_resync_to_restart(d, desired) ==
  LET a == ResyncAction(d.unread, desired)
  IN  CASE a = 1 -> [d |-> [d EXCEPT !.unread = NoMarker], ok |-> TRUE]
        [] a = 2 -> Resynced(next_marker(d), desired)
        [] a = 3 -> [d |-> d, ok |-> TRUE]

RestartFound(r) ==
  IF ~r.ok THEN r
  ELSE IF r.d.unread.k = "RST" /\ r.d.unread.n = r.d.nextrst
  THEN [r EXCEPT !.d.unread = NoMarker]
  ELSE jpeg_resync_to_restart(r.d, r.d.nextrst)

NextRestart(r) == IF r.ok THEN [r EXCEPT !.d.nextrst = (@ + 1) % RSTS] ELSE r

read_restart_marker(d) ==
  NextRestart(RestartFound(IF d.unread = NoMarker THEN next_marker(d) ELSE [d |-> d, ok |-> TRUE]))

RestartDone(r) ==
  IF ~r.ok THEN r
  ELSE [r EXCEPT !.d.togo = r.d.interval,
                 !.d.insufficient = IF r.d.unread = NoMarker THEN FALSE ELSE @]

process_restart(d) == RestartDone(read_restart_marker(d))

(* An MCU, grey (0) once a marker has been met before its time. *)
Decoded(d, n) == [d |-> [d EXCEPT !.togo = @ - 1], ok |-> TRUE, n |-> n]

DecodeBits(d) ==
  IF d.insufficient THEN Decoded(d, 0)
  ELSE IF d.unread # NoMarker THEN Decoded([d EXCEPT !.insufficient = TRUE], 0)
  ELSE IF d.at > d.avail
  THEN IF AtEnd(d) THEN Decoded([d EXCEPT !.unread = EOI, !.insufficient = TRUE], 0)
       ELSE [d |-> d, ok |-> FALSE, n |-> 0]
  ELSE IF d.img.file[d.at].k = "MCU" THEN Decoded([d EXCEPT !.at = @ + 1], d.img.file[d.at].n)
  ELSE Decoded([d EXCEPT !.at = @ + 1, !.unread = d.img.file[d.at], !.insufficient = TRUE], 0)

AfterRestart(r) == IF r.ok THEN DecodeBits(r.d) ELSE [d |-> r.d, ok |-> FALSE, n |-> 0]

decode_mcu(d) ==
  AfterRestart(IF d.interval > 0 /\ d.togo = 0 THEN process_restart(d) ELSE [d |-> d, ok |-> TRUE])

(***************************************************************************)
(* The coefficient controller.  d.mcu counts the MCUs of the iMCU row that *)
(* are decoded (MCU_ctr and MCU_vert_offset), d.good says whether they are *)
(* the ones of the file; d.coef[r] is how many scans row r has, and how   *)
(* many of them were right.                                                *)
(***************************************************************************)
start_iMCU_row(d) == [d EXCEPT !.mcu = 0, !.good = TRUE]

RECURSIVE DecodeRow(_)
MCUDone(r) ==
  IF ~r.ok THEN r
  ELSE DecodeRow([r.d EXCEPT !.mcu = @ + 1,
                             !.good = @ /\ r.n = r.d.inrow * MCUS + r.d.mcu + 1])

DecodeRow(d) ==
  IF d.mcu = MCUS THEN [d |-> d, ok |-> TRUE, n |-> 0] ELSE MCUDone(decode_mcu(d))

finish_input_pass(d) == [d EXCEPT !.consume = "markers"]

(* the end of decompress_onepass and of consume_data *)
RowRead(d) ==
  IF d.inrow + 1 < TotalRows(d.img)
  THEN [d |-> start_iMCU_row([d EXCEPT !.inrow = @ + 1]), ret |-> "ROW"]
  ELSE [d |-> finish_input_pass([d EXCEPT !.inrow = @ + 1]), ret |-> "SCAN"]

Consumed(r) ==
  IF ~r.ok THEN [d |-> r.d, ret |-> "SUSPENDED"]
  ELSE RowRead([r.d EXCEPT !.coef[r.d.inrow] = [n |-> @.n + 1, good |-> @.good + IF r.d.good THEN 1 ELSE 0]])

consume_data(d) == Consumed(DecodeRow(d))

(* start_input_pass of jdinput.c, of the entropy decoder and of jdcoefct.c *)
start_input_pass(d) ==
  start_iMCU_row([d EXCEPT !.inrow = 0, !.consume = "data", !.insufficient = FALSE,
                           !.togo = d.interval])

ReachedSOS(d) ==
  IF d.gs = "ERROR" THEN [d |-> d, ret |-> "ERROR"]
  ELSE IF d.inheaders THEN [d |-> [d EXCEPT !.inheaders = FALSE, !.multi = d.img.scans > 1], ret |-> "SOS"]
  ELSE IF ~d.multi THEN [d |-> Error(d), ret |-> "ERROR"]
  ELSE [d |-> start_input_pass(d), ret |-> "SOS"]

ReachedEOI(d) ==
  IF d.inheaders THEN [d |-> IF d.sof THEN Error(d) ELSE [d EXCEPT !.eoi = TRUE], ret |-> "EOI"]
  ELSE [d |-> [d EXCEPT !.eoi = TRUE, !.outscan = IF @ > d.inscan THEN d.inscan ELSE @], ret |-> "EOI"]

MarkersRead(r) ==
  CASE r.ret = "SOS" -> ReachedSOS(r.d)
    [] r.ret = "EOI" -> ReachedEOI(r.d)
    [] OTHER -> r

consume_markers(d) ==
  IF d.eoi THEN [d |-> d, ret |-> "EOI"] ELSE MarkersRead(read_markers(d))

(* With no buffer for the image the data is only read as it is put out     *)
(* (dummy_consume_data).                                                   *)
consume_input(d) ==
  CASE d.consume = "markers" -> consume_markers(d)
    [] d.full -> consume_data(d)
    [] OTHER -> [d |-> d, ret |-> "SUSPENDED"]

reset_input_controller(d) ==
  [d EXCEPT !.consume = "markers", !.multi = FALSE, !.eoi = FALSE, !.inheaders = TRUE,
            !.inscan = 0, !.unread = NoMarker, !.soi = FALSE, !.sof = FALSE]

=============================================================================
