---------------------------- MODULE JpegMemory ----------------------------
(***************************************************************************)
(* The memory manager of the JPEG library (jmemmgr.c): objects in pools    *)
(* with one life time each.                                                *)
(*                                                                         *)
(* A chunk of malloc is [id, at, left, used, size]: at is its address      *)
(* modulo the alignment; the objects in it are [chunk, off, size] with     *)
(* offsets from the start of the chunk.  Sizes are scaled down.            *)
(***************************************************************************)
EXTENDS Integers, Sequences, FiniteSets, SequencesExt

CONSTANTS ALIGN_SIZE, HDR,         \* alignment; size of a pool header
          FIRST_SLOP, EXTRA_SLOP,  \* first_pool_slop, extra_pool_slop
          MIN_SLOP,
          MAX_ALLOC_CHUNK,
          Sizes,                   \* sizes of objects
          CHUNKS                   \* bound: chunks that are ever allocated

Pools == {"PERMANENT", "IMAGE"}

VARIABLES mem,     \* the manager: its lists of chunks
          objs,    \* the objects the library holds
          chunks,  \* chunks not yet given back to free
          made     \* chunks allocated so far
memoryVars == <<mem, objs, chunks, made>>

RoundUp(n, a) == ((n + a - 1) \div a) * a

(***************************************************************************)
(* Pools.                                                                  *)
(***************************************************************************)
DataStart(c) == HDR + IF (c.at + HDR) % ALIGN_SIZE = 0 THEN 0 ELSE ALIGN_SIZE - ((c.at + HDR) % ALIGN_SIZE)

(* slops that are tried one after the other while malloc fails *)
RECURSIVE Slops(_)
Slops(s) == IF s \div 2 < MIN_SLOP THEN <<s>> ELSE <<s>> \o Slops(s \div 2)

FirstFit(list, size) ==
  LET fit == {i \in DOMAIN list : list[i].left >= size}
  IN  IF fit = {} THEN 0 ELSE CHOOSE i \in fit : \A j \in fit : i <= j

(* mutant: sizes are not rounded up *)
TakeUnaligned(list, i, size) ==
  [list EXCEPT ![i].used = @ + size, ![i].left = @ - size]

Take(list, i, size) ==
  [list EXCEPT ![i].used = @ + RoundUp(size, ALIGN_SIZE), ![i].left = @ - RoundUp(size, ALIGN_SIZE)]

Object(c, size) == [chunk |-> c.id, off |-> DataStart(c) + c.used, size |-> size]

NewChunk(at, size, slop) ==
  [id |-> made + 1, at |-> at, used |-> 0, left |-> RoundUp(size, ALIGN_SIZE) + slop,
   size |-> HDR + RoundUp(size, ALIGN_SIZE) + ALIGN_SIZE - 1 + slop]

Got(c) ==
  /\ made' = made + 1
  /\ chunks' = chunks \cup {c.id}

SmallFrom(pool, list, i, size) ==
  /\ mem' = [mem EXCEPT !.small[pool] = Take(list, i, size)]
  /\ objs' = [objs EXCEPT ![pool] = @ \cup {Object(list[i], size)}]

(* alloc_small: in the first chunk with room, else in a new one at the end *)
(* of the list, with as much slop as malloc has                            *)
AllocSmall(pool, size) ==
  LET list == mem.small[pool]
      room == MAX_ALLOC_CHUNK - (HDR + RoundUp(size, ALIGN_SIZE) + ALIGN_SIZE - 1)
      wish == IF list = <<>> THEN FIRST_SLOP[pool] ELSE EXTRA_SLOP[pool]
      slop == IF wish > room THEN room ELSE wish
      i == FirstFit(list, RoundUp(size, ALIGN_SIZE))
  IN  /\ room >= 0
      /\ IF i # 0 THEN SmallFrom(pool, list, i, size) /\ UNCHANGED <<made, chunks>>
         ELSE /\ made < CHUNKS
              /\ \E k \in DOMAIN Slops(slop), at \in 0 .. ALIGN_SIZE - 1 :
                   LET c == NewChunk(at, size, Slops(slop)[k])
                   IN  SmallFrom(pool, Append(list, c), Len(list) + 1, size) /\ Got(c)

AllocLarge(pool, size) ==
  /\ HDR + RoundUp(size, ALIGN_SIZE) + ALIGN_SIZE - 1 <= MAX_ALLOC_CHUNK
  /\ made < CHUNKS
  /\ \E at \in 0 .. ALIGN_SIZE - 1 :
       LET c == [NewChunk(at, size, 0) EXCEPT !.used = RoundUp(size, ALIGN_SIZE), !.left = 0]
       IN  /\ mem' = [mem EXCEPT !.large[pool] = <<c>> \o @]
           /\ objs' = [objs EXCEPT ![pool] = @ \cup {Object([c EXCEPT !.used = 0], size)}]
           /\ Got(c)

Ids(list) == {list[i].id : i \in DOMAIN list}
(* mutant: the list of large chunks keeps its head *)
FreeSmallOnly(m, pool) == [m EXCEPT !.small[pool] = <<>>]
FreeLists(m, pool) == [m EXCEPT !.small[pool] = <<>>, !.large[pool] = <<>>]

FreePool(pool) ==
  /\ mem' = FreeLists(mem, pool)
  /\ chunks' = chunks \ (Ids(mem.small[pool]) \cup Ids(mem.large[pool]))
  /\ objs' = [objs EXCEPT ![pool] = {}]
  /\ UNCHANGED made

(***************************************************************************)
(* The specification.                                                      *)
(***************************************************************************)
MemoryInit ==
  /\ mem = [small |-> [p \in Pools |-> <<>>], large |-> [p \in Pools |-> <<>>]]
  /\ objs = [p \in Pools |-> {}]
  /\ chunks = {}
  /\ made = 0

MemoryNext ==
  \/ \E p \in Pools, s \in Sizes : AllocSmall(p, s) \/ AllocLarge(p, s)
  \/ \E p \in Pools : FreePool(p)

(***************************************************************************)
(* Properties.                                                             *)
(***************************************************************************)
AllChunks == UNION {ToSet(mem.small[p]) \cup ToSet(mem.large[p]) : p \in Pools}

(* Every object is aligned and inside its chunk, whatever the address that *)
(* malloc gave the chunk and whatever slop was left over, and no two       *)
(* objects overlap.                                                        *)
ObjectsApart ==
  LET all == UNION {objs[p] : p \in Pools}
  IN  /\ \A o \in all : \E c \in AllChunks :
           /\ c.id = o.chunk
           /\ (c.at + o.off) % ALIGN_SIZE = 0
           /\ HDR <= o.off /\ o.off + o.size <= c.size
      /\ \A o, q \in all : o # q /\ o.chunk = q.chunk =>
           o.off + o.size <= q.off \/ q.off + q.size <= o.off

(* No chunk is lost: every chunk that was not freed is in the list of its  *)
(* pool, so that freeing the pools frees everything.                       *)
NoneLost == chunks = {c.id : c \in AllChunks}

=============================================================================
