----------------------------- MODULE HeapLayout -----------------------------
(***************************************************************************)
(* The three allocators of env/lib/alloc.c as arithmetic: blocks           *)
(* (malloc), uncached blocks (dma_malloc) and pages (palloc). Each has an  *)
(* arena that mem_initial lays out, buckets of block sizes, and a pointer  *)
(* that carves new blocks off the arena.                                   *)
(*                                                                         *)
(* Addresses and sizes are u32 counted in units of BLOCK_ALIGN bytes, so   *)
(* that they are taken modulo WORD and a block needs no rounding.          *)
(***************************************************************************)
EXTENDS Integers

CONSTANTS
    WORD,                        \* 2^32 bytes
    ulBase, ulSize,              \* arguments of mem_initial: end of .bss,
    ulDMABase, ulDMASize,        \*   memory up to the DMA area; the DMA area
    MEM_HEAP_START, MAX_MEMORY,
    PAGE_SIZE,
    CONFIG_FB_ADDR, FB_SIZE,     \* the framebuffer
    s_BlockBucket,               \* the sizes of the buckets
    s_DMABlockBucket

Arenas == {"block", "dma", "page"}

ASSUME LayoutAssumption ==
    /\ WORD \in Nat \ {0} /\ PAGE_SIZE \in Nat \ {0}
    /\ {ulBase, ulSize, ulDMABase, ulDMASize, MEM_HEAP_START, MAX_MEMORY} \subseteq Nat
    \* the arguments that startup/start.S passes to mem_initial
    /\ 0 < MEM_HEAP_START /\ MEM_HEAP_START <= ulBase /\ ulBase + ulSize <= ulDMABase
    /\ ulDMABase + ulDMASize <= MAX_MEMORY /\ MAX_MEMORY < WORD
    \* the image ends before the framebuffer
    /\ ulBase <= CONFIG_FB_ADDR
    /\ CONFIG_FB_ADDR \in Nat /\ FB_SIZE \in Nat
    /\ s_BlockBucket \subseteq Nat \ {0} /\ s_DMABlockBucket \subseteq Nat \ {0}

----------------------------------------------------------------------------
(* mem_initial *)

heap_start == IF ulBase < MEM_HEAP_START THEN MEM_HEAP_START ELSE ulBase

heap_size ==
    IF (heap_start + ulSize) % WORD > MAX_MEMORY
    THEN MAX_MEMORY - heap_start
    ELSE ulSize

ulQuarterSize == ((heap_size * 3) % WORD) \div 4

First(arena) ==
    CASE arena = "block" -> heap_start
      [] arena = "page"  -> ((heap_start + ulQuarterSize + PAGE_SIZE) \div PAGE_SIZE) * PAGE_SIZE
      [] arena = "dma"   -> ulDMABase

Limit(arena) ==
    CASE arena = "block" -> heap_start + ulQuarterSize
      [] arena = "page"  -> heap_start + heap_size
      [] arena = "dma"   -> ulDMABase + ulDMASize

----------------------------------------------------------------------------
Buckets(arena) ==
    CASE arena = "block" -> s_BlockBucket
      [] arena = "page"  -> {PAGE_SIZE}
      [] arena = "dma"   -> s_DMABlockBucket

\* sizeof (TBlockHeader) is BLOCK_ALIGN; a page has no header
Header(arena) == IF arena = "page" THEN 0 ELSE 1

\* the buckets that ulSize fits: the code takes the first, the smallest
Fitting(arena, n) == {b \in Buckets(arena) : n <= b}

\* mutant: the header is not counted
CarveNoHeader(arena, next, size) ==
    LET behind == (next + size) % WORD
        onScreen == /\ arena = "block"
                    /\ behind > CONFIG_FB_ADDR
                    /\ behind <= CONFIG_FB_ADDR + FB_SIZE
        start == IF onScreen THEN CONFIG_FB_ADDR + FB_SIZE + 1 ELSE next
    IN  [addr |-> start, behind |-> (start + size) % WORD,
         wraps |-> next + size >= WORD \/ start + size >= WORD]

\* mutant: the framebuffer is tested with the start of the block
CarveTestsStart(arena, next, size) ==
    LET step == Header(arena) + size
        onScreen == /\ arena = "block"
                    /\ next > CONFIG_FB_ADDR
                    /\ next <= CONFIG_FB_ADDR + FB_SIZE
        start == IF onScreen THEN CONFIG_FB_ADDR + FB_SIZE + 1 ELSE next
    IN  [addr |-> start, behind |-> (start + step) % WORD,
         wraps |-> next + step >= WORD \/ start + step >= WORD]

\* the block that is carved off at `next', and the pointer behind it; `wraps'
\* is no part of the code
Carve(arena, next, size) ==
    LET step == Header(arena) + size
        behind == (next + step) % WORD
        onScreen == /\ arena = "block"
                    /\ behind > CONFIG_FB_ADDR
                    /\ behind <= CONFIG_FB_ADDR + FB_SIZE
        start == IF onScreen THEN CONFIG_FB_ADDR + FB_SIZE + 1 ELSE next
    IN  [addr |-> start, behind |-> (start + step) % WORD,
         wraps |-> next + step >= WORD \/ start + step >= WORD]

----------------------------------------------------------------------------
(* A block is its arena, the address of its header and its size. *)

End(block) == block.addr + Header(block.arena) + block.size

Apart(b, c) == End(b) <= c.addr \/ End(c) <= b.addr

\* no two of the blocks share memory
Disjoint(blocks) == \A b, c \in blocks : b # c => Apart(b, c)

\* none of the blocks is on the screen
OffScreen(blocks) ==
    \A b \in blocks :
        b.arena = "block" => End(b) <= CONFIG_FB_ADDR \/ b.addr >= CONFIG_FB_ADDR + FB_SIZE

\* the blocks are inside their arenas
InArena(blocks) ==
    \A b \in blocks : First(b.arena) <= b.addr /\ End(b) <= Limit(b.arena)

============================================================================
