--------------------------- MODULE HuffmanTables ---------------------------
(***************************************************************************)
(* Huffman tables of the JPEG library: the table of an image from symbol   *)
(* frequencies (jpeg_gen_optimal_table), and what the encoder and the      *)
(* decoder derive from it.  A table is [bits, huffval]: bits[l] codes of   *)
(* length l, and the symbols in the order of their codes.  Codes are       *)
(* sequences of bits.                                                      *)
(***************************************************************************)
EXTENDS Integers, Sequences, FiniteSets, SequencesExt, FiniteSetsExt

CONSTANTS MAXLEN,          \* longest code of a table (16)
          MAX_CLEN,        \* longest code before the limit is applied (32)
          HUFF_LOOKAHEAD   \* bits the decoder looks up at once (8)

SumTo(f, n) == SumFunction([i \in 1 .. n |-> f[i]])

(* a number of l bits *)
RECURSIVE BitsOf(_, _)
BitsOf(x, l) == IF l = 0 THEN <<>> ELSE Append(BitsOf(x \div 2, l - 1), x % 2)
NumberOf(bits) == FoldLeft(LAMBDA n, b : 2 * n + b, 0, bits)

(* length of the p-th code, p from 0: Figure C.1 in both files *)
HuffSize(bits, p) == Min({l \in 1 .. MAXLEN : SumTo(bits, l) > p})
NumSymbols(bits) == SumTo(bits, MAXLEN)

RECURSIVE HuffCode(_, _)
(* the p-th code as a number: consecutive numbers within a length, doubled *)
(* from one length to the next                                             *)
HuffCode(bits, p) ==
  IF p = 0 THEN 0
  ELSE (HuffCode(bits, p - 1) + 1) * 2 ^ (HuffSize(bits, p) - HuffSize(bits, p - 1))

(* ERREXIT(JERR_BAD_HUFF_TABLE): codes that do not fit their length; none  *)
(* may consist of ones only                                                *)
BadTable(bits) ==
  \E p \in 0 .. NumSymbols(bits) - 1 : HuffCode(bits, p) + 1 >= 2 ^ HuffSize(bits, p)

jpeg_make_c_derived_tbl(t) ==
  [sym \in ToSet(t.huffval) |->
     LET p == (CHOOSE i \in DOMAIN t.huffval : t.huffval[i] = sym) - 1
     IN  BitsOf(HuffCode(t.bits, p), HuffSize(t.bits, p))]

FirstOf(bits, l) == SumTo(bits, l - 1)

(* mutant: the offset of a length counts from its last code *)
OffsetLast(bits, l) == FirstOf(bits, l) - HuffCode(bits, SumTo(bits, l) - 1)
ValOffset(bits, l) == FirstOf(bits, l) - HuffCode(bits, FirstOf(bits, l))

(* the lookahead table: how many bits the code at the front of these has,  *)
(* or one more than there are                                              *)
LookupFor(t, look) ==
  LET hits == {p \in 0 .. NumSymbols(t.bits) - 1 :
                 LET l == HuffSize(t.bits, p)
                 IN  l <= HUFF_LOOKAHEAD /\ HuffCode(t.bits, p) = look \div 2 ^ (HUFF_LOOKAHEAD - l)}
  IN  IF hits = {} THEN [nb |-> HUFF_LOOKAHEAD + 1, sym |-> 0]
      ELSE LET p == CHOOSE p \in hits : TRUE IN [nb |-> HuffSize(t.bits, p), sym |-> t.huffval[p + 1]]

jpeg_make_d_derived_tbl(t) ==
  [maxcode   |-> [l \in 1 .. MAXLEN + 1 |->
                    IF l = MAXLEN + 1 THEN 2 ^ 20 - 1
                    ELSE IF t.bits[l] = 0 THEN 0 - 1 ELSE HuffCode(t.bits, SumTo(t.bits, l) - 1)],
   valoffset |-> [l \in 1 .. MAXLEN + 1 |->
                    IF l = MAXLEN + 1 \/ t.bits[l] = 0 THEN 0 ELSE ValOffset(t.bits, l)],
   lookup    |-> [look \in 0 .. 2 ^ HUFF_LOOKAHEAD - 1 |-> LookupFor(t, look)],
   huffval   |-> t.huffval]

(***************************************************************************)
(* jpeg_gen_optimal_table.  Frequencies are a function on 0 .. n; symbol n *)
(* is the reserved one, which keeps the code of all ones free.             *)
(***************************************************************************)
(* the least frequency that is not zero, the highest symbol among equals *)
Smallest(freq, without) ==
  LET some == {i \in DOMAIN freq : freq[i] > 0 /\ i \notin without}
  IN  IF some = {} THEN 0 - 1
      ELSE Max({i \in some : \A j \in some : freq[i] <= freq[j]})

RECURSIVE Chain(_, _)
Chain(others, c) == IF others[c] < 0 THEN <<c>> ELSE <<c>> \o Chain(others, others[c])

(* one merge: the codes of both subtrees grow by one, and the second chain *)
(* is hung onto the first                                                  *)
Merged(h, c1, c2) ==
  LET a == Chain(h.others, c1)
      b == Chain(h.others, c2)
  IN  [freq     |-> [h.freq EXCEPT ![c1] = h.freq[c1] + h.freq[c2], ![c2] = 0],
       codesize |-> [i \in DOMAIN h.codesize |-> h.codesize[i] + IF i \in ToSet(a) \cup ToSet(b) THEN 1 ELSE 0],
       others   |-> [h.others EXCEPT ![Last(a)] = c2]]

RECURSIVE Merging(_)
Merging(h) ==
  LET c1 == Smallest(h.freq, {})
      c2 == Smallest(h.freq, {c1})
  IN  IF c2 < 0 THEN h ELSE Merging(Merged(h, c1, c2))

RECURSIVE Shorter(_, _)
(* codes longer than MAXLEN: a pair of them is replaced by its prefix and  *)
(* a pair under the next shorter code                                      *)
Shorter(bits, i) ==
  IF i <= MAXLEN THEN bits
  ELSE IF bits[i] <= 0 THEN Shorter(bits, i - 1)
  ELSE LET j == Max({x \in 1 .. i - 2 : bits[x] > 0})
           less == [bits EXCEPT ![i] = @ - 2]
           up == [less EXCEPT ![i - 1] = @ + 1]
           down == [up EXCEPT ![j + 1] = @ + 2]
       IN  Shorter([down EXCEPT ![j] = @ - 1], i)

(* mutant: the reserved code is not taken out again *)
ReserveKept(bits) == bits
WithoutReserved(bits) == [bits EXCEPT ![Max({l \in 1 .. MAXLEN : bits[l] > 0})] = @ - 1]

(* symbols by length, and by value within a length *)
SymbolOrder(codesize, n) ==
  LET used == {s \in 0 .. n - 1 : codesize[s] > 0}
      before(s) == {t \in used : codesize[t] < codesize[s] \/ (codesize[t] = codesize[s] /\ t < s)}
  IN  [i \in 1 .. Cardinality(used) |-> CHOOSE s \in used : Cardinality(before(s)) = i - 1]

Limited(codesize, n) ==
  WithoutReserved(Shorter([l \in 1 .. MAX_CLEN |-> Cardinality({s \in 0 .. n : codesize[s] = l})], MAX_CLEN))

TableOf(codesize, bits, n) ==
  [bits |-> [l \in 1 .. MAXLEN |-> bits[l]], huffval |-> SymbolOrder(codesize, n)]

TableFor(codesize, n) == TableOf(codesize, Limited(codesize, n), n)

jpeg_gen_optimal_table(freq, n) ==
  TableFor(Merging([freq |-> [i \in 0 .. n |-> IF i = n THEN 1 ELSE freq[i]],
                   codesize |-> [i \in 0 .. n |-> 0], others |-> [i \in 0 .. n |-> 0 - 1]]).codesize, n)
=============================================================================
