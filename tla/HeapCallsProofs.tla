-------------------------- MODULE HeapCallsProofs ---------------------------
(***************************************************************************)
(* The calls of the tasks of one CPU, statement by statement, implement    *)
(* Heap, for every layout of the memory, any number of tasks and any       *)
(* requests, as long as no pointer passes 2^32. The lists of free blocks   *)
(* are followed along pNext: the proof is that each of them stays a list,  *)
(* whose links are distinct, none of them to the head, and that it holds   *)
(* all and only the blocks of its bucket that nobody owns.                 *)
(***************************************************************************)
EXTENDS HeapCalls, TLAPS

A == INSTANCE HeapProofs WITH live <- Owned, free <- FreeBlocks

SameCpu == \A t, u \in Tasks : CpuOf[t] = CpuOf[u]

----------------------------------------------------------------------------
(* The two instances of Heap speak of the same layout and the same steps.  *)

LEMMA SameLayout ==
  /\ A!Arenas = Arenas /\ Abstract!Arenas = Arenas
  /\ \A a : A!First(a) = First(a) /\ Abstract!First(a) = First(a)
  /\ \A a : A!Limit(a) = Limit(a) /\ Abstract!Limit(a) = Limit(a)
  /\ \A a : A!Buckets(a) = Buckets(a) /\ Abstract!Buckets(a) = Buckets(a)
  /\ \A a : A!Header(a) = Header(a) /\ Abstract!Header(a) = Header(a)
<1>1. A!Arenas = Arenas /\ Abstract!Arenas = Arenas
  BY Zenon DEF A!Arenas, Abstract!Arenas, Arenas
<1>2. \A a : A!First(a) = First(a) /\ Abstract!First(a) = First(a)
  BY Zenon DEF A!First, Abstract!First, First, A!heap_start, Abstract!heap_start, heap_start,
         A!ulQuarterSize, Abstract!ulQuarterSize, ulQuarterSize,
         A!heap_size, Abstract!heap_size, heap_size
<1>3. \A a : A!Limit(a) = Limit(a) /\ Abstract!Limit(a) = Limit(a)
  BY Zenon DEF A!Limit, Abstract!Limit, Limit, A!heap_start, Abstract!heap_start, heap_start,
         A!ulQuarterSize, Abstract!ulQuarterSize, ulQuarterSize,
         A!heap_size, Abstract!heap_size, heap_size
<1>4. \A a : A!Buckets(a) = Buckets(a) /\ Abstract!Buckets(a) = Buckets(a)
  BY Zenon DEF A!Buckets, Abstract!Buckets, Buckets
<1>5. \A a : A!Header(a) = Header(a) /\ Abstract!Header(a) = Header(a)
  BY Zenon DEF A!Header, Abstract!Header, Header
<1> QED BY <1>1, <1>2, <1>3, <1>4, <1>5, Zenon

LEMMA SameCarve ==
  \A a, n, s : A!Carve(a, n, s) = Carve(a, n, s) /\ Abstract!Carve(a, n, s) = Carve(a, n, s)
BY SameLayout DEF A!Carve, Abstract!Carve, Carve

LEMMA SameSteps == [A!Next]_(A!vars) <=> [Abstract!Next]_(Abstract!vars)
<1>1. \A a, s : A!CarveNew(a, s) <=> Abstract!CarveNew(a, s)
  BY SameLayout, SameCarve DEF A!CarveNew, Abstract!CarveNew
<1>2. \A a, s : A!Reuse(a, s) <=> Abstract!Reuse(a, s)
  BY Zenon DEF A!Reuse, Abstract!Reuse
<1>3. \A a : A!Release(a) <=> Abstract!Release(a)
  BY Zenon DEF A!Release, Abstract!Release
<1> QED BY <1>1, <1>2, <1>3, SameLayout, Zenon
        DEF A!vars, Abstract!vars, A!Next, Abstract!Next, A!Allocate, Abstract!Allocate

LEMMA BucketNat == \A a \in Arenas : Buckets(a) \subseteq Nat
BY LayoutAssumption, Zenon DEF Arenas, Buckets

----------------------------------------------------------------------------
(* What is reached along links.                                            *)

IsLink(f) == f \in [DOMAIN f -> DOMAIN f \cup {NULL}] /\ NULL \notin DOMAIN f

LEMMA ReachClosed ==
  ASSUME NEW f, IsLink(f), NEW h \in DOMAIN f \cup {NULL}
  PROVE  /\ Reach(f, h) \subseteq DOMAIN f
         /\ h # NULL => h \in Reach(f, h)
         /\ \A g \in Reach(f, h) : f[g] # NULL => f[g] \in Reach(f, h)
         /\ h = NULL => Reach(f, h) = {}
<1>1. Reach(f, h) \subseteq DOMAIN f
  BY Zenon DEF Reach
<1>2. h # NULL => h \in Reach(f, h)
  BY Zenon DEF Reach
<1>3. ASSUME NEW g \in Reach(f, h), f[g] # NULL PROVE f[g] \in Reach(f, h)
  BY <1>3, <1>1, Zenon DEF Reach, IsLink
<1>4. h = NULL => Reach(f, h) = {}
  <2>1. {} \in SUBSET DOMAIN f
    BY Zenon
  <2> QED BY <2>1, Zenon DEF Reach
<1> QED BY <1>1, <1>2, <1>3, <1>4, Zenon

(* Links of headers that are not reached do not matter.                    *)
LEMMA ReachSame ==
  ASSUME NEW f, NEW g, IsLink(f), IsLink(g), NEW h \in DOMAIN f \cup {NULL},
         DOMAIN f \subseteq DOMAIN g,
         \A x \in Reach(f, h) : g[x] = f[x]
  PROVE  Reach(g, h) = Reach(f, h)
<1>0. /\ Reach(f, h) \subseteq DOMAIN g
      /\ h # NULL => h \in Reach(f, h)
      /\ \A x \in Reach(f, h) : g[x] # NULL => g[x] \in Reach(f, h)
  BY ReachClosed, Zenon
<1>1. Reach(g, h) \subseteq Reach(f, h)
  BY <1>0, Zenon DEF Reach
<1>2. ASSUME NEW x \in Reach(f, h), NEW S \in SUBSET DOMAIN g, h # NULL => h \in S,
             \A y \in S : g[y] # NULL => g[y] \in S
      PROVE  x \in S
  <2> DEFINE T == S \cap Reach(f, h)
  <2>1. T \in SUBSET DOMAIN f
    BY Zenon DEF Reach
  <2>2. h # NULL => h \in T
    BY <1>0, <1>2, Zenon
  <2>3. \A y \in T : f[y] # NULL => f[y] \in T
    BY <1>0, <1>2, Zenon
  <2> HIDE DEF T
  <2>4. x \in T
    BY <1>2, <2>1, <2>2, <2>3, Zenon DEF Reach
  <2> QED BY <2>4, Zenon DEF T
<1>3. Reach(f, h) \subseteq Reach(g, h)
  BY <1>0, <1>2, Zenon DEF Reach
<1> QED BY <1>1, <1>3, Zenon

(* malloc takes the head off.                                              *)
LEMMA ReachPop ==
  ASSUME NEW f, IsLink(f), NEW h \in DOMAIN f, \A g \in Reach(f, h) : f[g] # h
  PROVE  Reach(f, f[h]) = Reach(f, h) \ {h}
<1>0. /\ Reach(f, h) \subseteq DOMAIN f /\ h \in Reach(f, h) /\ h # NULL
      /\ \A g \in Reach(f, h) : f[g] # NULL => f[g] \in Reach(f, h)
  BY ReachClosed, Zenon DEF IsLink
<1>1. Reach(f, f[h]) \subseteq Reach(f, h) \ {h}
  <2> DEFINE T == Reach(f, h) \ {h}
  <2>1. T \in SUBSET DOMAIN f
    BY <1>0, Zenon
  <2>2. f[h] # NULL => f[h] \in T
    BY <1>0, Zenon
  <2>3. \A y \in T : f[y] # NULL => f[y] \in T
    BY <1>0, Zenon
  <2> HIDE DEF T
  <2>4. Reach(f, f[h]) \subseteq T
    BY <2>1, <2>2, <2>3, Zenon DEF Reach
  <2> QED BY <2>4, Zenon DEF T
<1>2. ASSUME NEW x \in Reach(f, h) \ {h}, NEW S \in SUBSET DOMAIN f, f[h] # NULL => f[h] \in S,
             \A y \in S : f[y] # NULL => f[y] \in S
      PROVE  x \in S
  <2> DEFINE T == S \cup {h}
  <2>1. T \in SUBSET DOMAIN f
    BY Zenon
  <2>2. h \in T /\ \A y \in T : f[y] # NULL => f[y] \in T
    BY <1>2, Zenon
  <2> HIDE DEF T
  <2>3. x \in T
    BY <2>1, <2>2, Zenon DEF Reach
  <2> QED BY <2>3, Zenon DEF T
<1>3. Reach(f, h) \ {h} \subseteq Reach(f, f[h])
  BY <1>0, <1>2, Zenon DEF Reach
<1> QED BY <1>1, <1>3, Zenon

(* free puts a block in front.                                             *)
LEMMA ReachPush ==
  ASSUME NEW f, IsLink(f), NEW b \in DOMAIN f, NEW h \in DOMAIN f \cup {NULL}, f[b] = h
  PROVE  Reach(f, b) = Reach(f, h) \cup {b}
<1>0. /\ Reach(f, h) \subseteq DOMAIN f /\ (h # NULL => h \in Reach(f, h))
      /\ \A g \in Reach(f, h) : f[g] # NULL => f[g] \in Reach(f, h)
  BY ReachClosed, Zenon
<1>1. Reach(f, b) \subseteq Reach(f, h) \cup {b}
  <2> DEFINE T == Reach(f, h) \cup {b}
  <2>1. T \in SUBSET DOMAIN f
    BY <1>0, Zenon
  <2>2. b \in T /\ \A y \in T : f[y] # NULL => f[y] \in T
    BY <1>0, Zenon
  <2> HIDE DEF T
  <2>3. Reach(f, b) \subseteq T
    BY <2>1, <2>2, Zenon DEF Reach
  <2> QED BY <2>3, Zenon DEF T
<1>2. b \in Reach(f, b)
  BY ReachClosed, Zenon DEF IsLink
<1>3. Reach(f, h) \subseteq Reach(f, b)
  <2>1. h # NULL => h \in Reach(f, b)
    BY <1>2, ReachClosed, Zenon
  <2>2. \A g \in Reach(f, b) : f[g] # NULL => f[g] \in Reach(f, b)
    BY ReachClosed, Zenon
  <2>3. Reach(f, b) \in SUBSET DOMAIN f
    BY ReachClosed, Zenon
  <2> QED BY <2>1, <2>2, <2>3, Zenon DEF Reach
<1> QED BY <1>1, <1>2, <1>3, Zenon

----------------------------------------------------------------------------
(* The inductive invariant.                                                *)

Places == {"run", "head", "pop", "carve", "bump", "clear", "enter", "push"}
Block == [arena : Arenas, addr : Nat, size : Nat]
ListOf(t) == pFreeList[arg[t].arena][arg[t].size]

Typed ==
    /\ next \in [Arenas -> Nat]
    /\ IsLink(pNext) /\ DOMAIN pNext \subseteq Nat
    /\ pFreeList = [a \in Arenas |-> pFreeList[a]]
    /\ \A a \in Arenas : pFreeList[a] \in [Buckets(a) -> DOMAIN pNext \cup {NULL}]
    /\ live \subseteq Block /\ \A b \in live : b.size \in Buckets(b.arena)
    /\ pc \in [Tasks -> Places]
    /\ arg \in [Tasks -> [arena : Arenas, size : Nat]]
    /\ p \in [Tasks -> Nat]

\* the critical sections
Exclusive == \A t, u \in Tasks : Inside(t) /\ Inside(u) => t = u

\* what a call knows of the heap
Knows(t) ==
    /\ pc[t] # "run" => arg[t].size \in Buckets(arg[t].arena)
    /\ pc[t] = "pop" => p[t] = ListOf(t) /\ p[t] # NULL
    /\ pc[t] \in {"carve", "bump"} => ListOf(t) = NULL
    /\ pc[t] = "bump" => p[t] = next[arg[t].arena]
    /\ pc[t] = "push" => pNext[p[t]] = ListOf(t)

\* a list has no cycle: no two links to a header, and none to the head
Linked ==
    \A a \in Arenas : \A s \in Buckets(a) : \A g, h \in Listed(a, s) :
        /\ pNext[g] # pFreeList[a][s]
        /\ pNext[g] = pNext[h] /\ pNext[g] # NULL => g = h

OneOwner ==
    /\ \A b \in Owned \cup FreeBlocks : b.addr \in DOMAIN pNext
    /\ \A h \in DOMAIN pNext : \E b \in Owned \cup FreeBlocks : b.addr = h
    /\ \A b, c \in Owned \cup FreeBlocks : b.addr = c.addr => b = c
    /\ Owned \cap FreeBlocks = {}
    /\ \A t \in Holders :
        /\ Returned(t) \notin live
        /\ \A u \in Holders \ {t} : Returned(u) # Returned(t)

\* the header of a block holds its size
Sized ==
    \A b \in Owned \cup FreeBlocks :
        b.arena # "page" => b.addr \in DOMAIN nSize /\ nSize[b.addr] = b.size

Calls == Typed /\ Exclusive /\ (\A t \in Tasks : Knows(t)) /\ Linked /\ OneOwner /\ Sized

LEMMA ListedFacts ==
  ASSUME Typed, NEW a \in Arenas, NEW s \in Buckets(a)
  PROVE  /\ pFreeList[a][s] \in DOMAIN pNext \cup {NULL}
         /\ Listed(a, s) \subseteq DOMAIN pNext
         /\ pFreeList[a][s] # NULL => pFreeList[a][s] \in Listed(a, s)
         /\ \A g \in Listed(a, s) : pNext[g] # NULL => pNext[g] \in Listed(a, s)
         /\ pFreeList[a][s] = NULL => Listed(a, s) = {}
<1>1. pFreeList[a][s] \in DOMAIN pNext \cup {NULL}
  BY Zenon DEF Typed
<1> QED BY <1>1, ReachClosed, Zenon DEF Typed, Listed

LEMMA InFree ==
  \A x : x \in FreeBlocks <=> \E a \in Arenas : \E s \in Buckets(a) : \E h \in Listed(a, s) :
             x = [arena |-> a, addr |-> h, size |-> s]
BY DEF FreeBlocks

(* The blocks that somebody owns, and the free ones.                       *)
LEMMA BlockTypes ==
  ASSUME Typed, \A t \in Tasks : Knows(t)
  PROVE  \A b \in Owned \cup FreeBlocks : b \in Block /\ b.size \in Buckets(b.arena)
<1>1. ASSUME NEW b \in live PROVE b \in Block /\ b.size \in Buckets(b.arena)
  BY Zenon DEF Typed
<1>2. ASSUME NEW t \in Holders PROVE Returned(t) \in Block /\ Returned(t).size \in Buckets(Returned(t).arena)
  <2>1. t \in Tasks /\ arg[t].arena \in Arenas /\ arg[t].size \in Nat /\ p[t] \in Nat
        /\ arg[t].size \in Buckets(arg[t].arena)
    BY Zenon DEF Holders, Typed, Knows
  <2> QED BY <2>1, Zenon DEF Returned, Block
<1>3. ASSUME NEW b \in FreeBlocks PROVE b \in Block /\ b.size \in Buckets(b.arena)
  <2>1. PICK a \in Arenas : \E s \in Buckets(a) : \E h \in Listed(a, s) :
             b = [arena |-> a, addr |-> h, size |-> s]
    BY InFree, Zenon
  <2>2. PICK s \in Buckets(a) : \E h \in Listed(a, s) : b = [arena |-> a, addr |-> h, size |-> s]
    BY <2>1, Zenon
  <2>4. PICK h \in Listed(a, s) : b = [arena |-> a, addr |-> h, size |-> s]
    BY <2>2, Zenon
  <2>3. s \in Nat /\ h \in Nat
    BY BucketNat, ListedFacts, Zenon DEF Typed
  <2> QED BY <2>3, <2>4, Zenon DEF Block
<1> QED BY <1>1, <1>2, <1>3, Zenon DEF Owned

(* The block in the hands of a call is on no list.                         *)
LEMMA HeldNotListed ==
  ASSUME OneOwner, NEW t \in Holders, NEW a \in Arenas, NEW s \in Buckets(a)
  PROVE  p[t] \notin Listed(a, s)
<1> SUFFICES ASSUME p[t] \in Listed(a, s) PROVE FALSE
  BY Zenon
<1> DEFINE b == [arena |-> a, addr |-> p[t], size |-> s]
<1>1. b \in FreeBlocks
  BY InFree, Zenon
<1>2. Returned(t) \in Owned /\ Returned(t).addr = b.addr
  BY Zenon DEF Owned, Returned
<1>3. Returned(t) = b
  BY <1>1, <1>2, Zenon DEF OneOwner
<1> QED BY <1>1, <1>2, <1>3, Zenon DEF OneOwner

(* A step that changes no head and no link on a list.                      *)
LEMMA ListsKept ==
  ASSUME Typed, Linked, pFreeList' = pFreeList, IsLink(pNext'),
         DOMAIN pNext \subseteq DOMAIN pNext',
         \A a \in Arenas : \A s \in Buckets(a) : \A g \in Listed(a, s) : pNext'[g] = pNext[g]
  PROVE  /\ \A a \in Arenas : \A s \in Buckets(a) : Listed(a, s)' = Listed(a, s)
         /\ Linked'
         /\ FreeBlocks' = FreeBlocks
<1>1. ASSUME NEW a \in Arenas, NEW s \in Buckets(a) PROVE Listed(a, s)' = Listed(a, s)
  <2>1. pFreeList[a][s] \in DOMAIN pNext \cup {NULL} /\ IsLink(pNext)
    BY Zenon DEF Typed
  <2>2. \A g \in Reach(pNext, pFreeList[a][s]) : pNext'[g] = pNext[g]
    BY Zenon DEF Listed
  <2>3. Reach(pNext', pFreeList[a][s]) = Reach(pNext, pFreeList[a][s])
    BY <2>1, <2>2, ReachSame, Zenon
  <2> QED BY <2>3, Zenon DEF Listed
<1>2. Linked'
  BY <1>1 DEF Linked
<1>3. FreeBlocks' = FreeBlocks
  BY <1>1 DEF FreeBlocks
<1> QED BY <1>1, <1>2, <1>3, Zenon

(* A step that moves no block keeps the owners.                            *)
LEMMA OwnersKept ==
  ASSUME OneOwner, Sized, Owned' = Owned, FreeBlocks' = FreeBlocks,
         DOMAIN pNext' = DOMAIN pNext, nSize' = nSize,
         \A t \in Holders' :
            /\ Returned(t)' \notin live'
            /\ \A u \in Holders' \ {t} : Returned(u)' # Returned(t)'
  PROVE  OneOwner' /\ Sized'
<1>1. OneOwner'
  BY Zenon DEF OneOwner
<1>2. Sized'
  BY Zenon DEF Sized
<1> QED BY <1>1, <1>2, Zenon

LEMMA Excludes ==
  ASSUME SameCpu, Typed, Exclusive, NEW t \in Tasks, NEW q, pc' = [pc EXCEPT ![t] = q],
         \/ Inside(t)
         \/ MayEnter(t)
         \/ q \notin {"head", "pop", "carve", "bump", "push"}
  PROVE  Exclusive'
<1>1. /\ pc'[t] = q /\ \A u \in Tasks : u # t => pc'[u] = pc[u]
  BY Zenon DEF Typed
<1>2. \A u \in Tasks : u # t => (Inside(u)' <=> Inside(u))
  BY <1>1, Zenon DEF Inside
<1>3. MayEnter(t) => \A u \in Tasks : ~Inside(u)
  BY Zenon DEF MayEnter, SameCpu
<1>4. q \notin {"head", "pop", "carve", "bump", "push"} => ~Inside(t)'
  BY <1>1, Zenon DEF Inside
<1> QED BY <1>2, <1>3, <1>4, Zenon DEF Exclusive

(* What the other tasks know when the lists, the pointers and their links  *)
(* stay.                                                                   *)
LEMMA OthersKnow ==
  ASSUME NEW u \in Tasks, Knows(u), pc'[u] = pc[u], arg'[u] = arg[u], p'[u] = p[u],
         ~Inside(u) \/ (next' = next /\ pFreeList' = pFreeList
                        /\ (pc[u] = "push" => pNext'[p[u]] = pNext[p[u]]))
  PROVE  Knows(u)'
BY Zenon DEF Knows, ListOf, Inside

(* The locals of the task that runs.                                       *)
LEMMA Locals ==
  ASSUME Typed, NEW t \in Tasks
  PROVE  /\ \A q : [pc EXCEPT ![t] = q][t] = q
         /\ \A q : \A u \in Tasks : u # t => [pc EXCEPT ![t] = q][u] = pc[u]
         /\ \A q : [arg EXCEPT ![t] = q][t] = q
         /\ \A q : \A u \in Tasks : u # t => [arg EXCEPT ![t] = q][u] = arg[u]
         /\ \A q : [p EXCEPT ![t] = q][t] = q
         /\ \A q : \A u \in Tasks : u # t => [p EXCEPT ![t] = q][u] = p[u]
         /\ \A q \in Places : [pc EXCEPT ![t] = q] \in [Tasks -> Places]
         /\ \A q \in [arena : Arenas, size : Nat] :
               [arg EXCEPT ![t] = q] \in [Tasks -> [arena : Arenas, size : Nat]]
         /\ \A q \in Nat : [p EXCEPT ![t] = q] \in [Tasks -> Nat]
BY Zenon DEF Typed

(* A step of t outside the sections, or of t that only reads.              *)
LEMMA ReadingStep ==
  ASSUME SameCpu, Calls, NEW t \in Tasks, heap' = heap, live' = live,
         pc[t] \notin {"clear", "enter", "push"}, NEW q \in {"head", "pop", "carve", "bump"},
         pc' = [pc EXCEPT ![t] = q],
         Inside(t) \/ MayEnter(t),
         arg'[t] \in [arena : Arenas, size : Nat], p'[t] \in Nat,
         arg' = [arg EXCEPT ![t] = arg'[t]], p' = [p EXCEPT ![t] = p'[t]],
         Knows(t)'
  PROVE  Calls' /\ Owned' = Owned /\ FreeBlocks' = FreeBlocks
<1> USE DEF heap
<1>1. /\ pc'[t] = q /\ \A u \in Tasks : u # t => pc'[u] = pc[u] /\ arg'[u] = arg[u] /\ p'[u] = p[u]
  BY Zenon DEF Calls, Typed
<1>2. Typed'
  <2>1. pc' \in [Tasks -> Places]
    BY Locals, Zenon DEF Calls, Places
  <2>2. arg' \in [Tasks -> [arena : Arenas, size : Nat]] /\ p' \in [Tasks -> Nat]
    BY Locals DEF Calls
  <2> QED BY <2>1, <2>2, Zenon DEF Calls, Typed
<1>3. Exclusive'
  BY Excludes, Zenon DEF Calls
<1>4. \A u \in Tasks : Knows(u)'
  BY <1>1, OthersKnow, Zenon DEF Calls
<1>5. Holders' = Holders /\ \A u \in Holders : Returned(u)' = Returned(u)
  BY <1>1 DEF Holders, Returned
<1>6. Owned' = Owned
  BY <1>5 DEF Owned
<1>7. Linked' /\ FreeBlocks' = FreeBlocks
  BY ListsKept, Zenon DEF Calls, Typed
<1>8. OneOwner' /\ Sized'
  BY <1>5, <1>6, <1>7, OwnersKept DEF Calls, OneOwner
<1> QED BY <1>2, <1>3, <1>4, <1>6, <1>7, <1>8, Zenon DEF Calls

LEMMA EnterStep ==
  ASSUME SameCpu, Calls, NEW t \in Tasks, NEW a \in Arenas, NEW s \in Buckets(a), Enter(t, a, s)
  PROVE  Calls' /\ Owned' = Owned /\ FreeBlocks' = FreeBlocks /\ UNCHANGED <<next, wrapped>>
<1>1. /\ pc[t] = "run" /\ MayEnter(t) /\ pc' = [pc EXCEPT ![t] = "head"]
      /\ arg' = [arg EXCEPT ![t] = [arena |-> a, size |-> s]]
      /\ heap' = heap /\ UNCHANGED <<live, p, wrapped>>
  BY Zenon DEF Enter, At, Goto
<1>2. /\ arg'[t] = [arena |-> a, size |-> s] /\ s \in Nat
      /\ pc'[t] = "head" /\ p[t] \in Nat /\ p' = [p EXCEPT ![t] = p[t]]
  BY <1>1, BucketNat, Zenon DEF Calls, Typed
<1>3. Knows(t)'
  BY <1>2 DEF Knows
<1>4. [arena |-> a, size |-> s] \in [arena : Arenas, size : Nat]
  BY <1>2, Zenon
<1>5. arg'[t] \in [arena : Arenas, size : Nat] /\ arg' = [arg EXCEPT ![t] = arg'[t]]
  BY <1>1, <1>2, <1>4, Zenon
<1>6. p'[t] \in Nat /\ p' = [p EXCEPT ![t] = p'[t]]
  BY <1>1, <1>2, Zenon
<1> QED BY <1>1, <1>3, <1>5, <1>6, ReadingStep, Zenon DEF heap

LEMMA ReadHeadStep ==
  ASSUME SameCpu, Calls, NEW t \in Tasks, ReadHead(t)
  PROVE  Calls' /\ Owned' = Owned /\ FreeBlocks' = FreeBlocks /\ UNCHANGED <<next, wrapped>>
<1>1. /\ pc[t] = "head" /\ p' = [p EXCEPT ![t] = ListOf(t)]
      /\ pc' = [pc EXCEPT ![t] = IF p'[t] # NULL THEN "pop" ELSE "carve"]
      /\ heap' = heap /\ UNCHANGED <<live, arg, wrapped>>
  BY Zenon DEF ReadHead, At, Goto, ListOf
<1>2. /\ arg[t] \in [arena : Arenas, size : Nat] /\ arg[t].size \in Buckets(arg[t].arena)
      /\ arg' = [arg EXCEPT ![t] = arg[t]]
  BY <1>1, Zenon DEF Calls, Typed, Knows
<1>3. ListOf(t) \in Nat
  BY <1>2 DEF Calls, Typed, ListOf, NULL
<1>4. p'[t] = ListOf(t) /\ pc'[t] = IF ListOf(t) # NULL THEN "pop" ELSE "carve"
  BY <1>1, Zenon DEF Calls, Typed
<1>5. Knows(t)'
  <2>1. ListOf(t)' = ListOf(t) /\ arg'[t] = arg[t]
    BY <1>1, Zenon DEF ListOf, heap
  <2> QED BY ONLY <1>2, <1>4, <2>1 DEF Knows
<1>6. Inside(t)
  BY <1>1, Zenon DEF Inside
<1> QED BY <1>1, <1>2, <1>3, <1>4, <1>5, <1>6, ReadingStep, Zenon DEF heap

LEMMA ReadNextStep ==
  ASSUME SameCpu, Calls, NEW t \in Tasks, ReadNext(t)
  PROVE  Calls' /\ Owned' = Owned /\ FreeBlocks' = FreeBlocks /\ UNCHANGED <<next, wrapped>>
<1>1. /\ pc[t] = "carve" /\ p' = [p EXCEPT ![t] = next[arg[t].arena]]
      /\ pc' = [pc EXCEPT ![t] = "bump"]
      /\ heap' = heap /\ UNCHANGED <<live, arg, wrapped>>
  BY Zenon DEF ReadNext, At, Goto
<1>2. /\ arg[t] \in [arena : Arenas, size : Nat] /\ arg[t].size \in Buckets(arg[t].arena)
      /\ arg' = [arg EXCEPT ![t] = arg[t]] /\ next[arg[t].arena] \in Nat
  BY <1>1, Zenon DEF Calls, Typed, Knows
<1>3. p'[t] = next[arg[t].arena] /\ pc'[t] = "bump"
  BY <1>1, Zenon DEF Calls, Typed
<1>4. Knows(t)'
  BY <1>1, <1>2, <1>3, Zenon DEF Calls, Knows, ListOf, heap
<1>5. Inside(t)
  BY <1>1, Zenon DEF Inside
<1> QED BY <1>1, <1>2, <1>3, <1>4, <1>5, ReadingStep, Zenon DEF heap

(* The caller of free gives its block to the call.                         *)
LEMMA FreeCallStep ==
  ASSUME SameCpu, Calls, NEW t \in Tasks, NEW b \in live, FreeCall(t, b)
  PROVE  Calls' /\ Owned' = Owned /\ FreeBlocks' = FreeBlocks /\ UNCHANGED <<next, wrapped>>
<1>0. b \in Block /\ b.size \in Buckets(b.arena) /\ b.arena \in Arenas /\ b.addr \in Nat /\ b.size \in Nat
  BY Zenon DEF Calls, Typed, Block
<1>1. b = [arena |-> b.arena, addr |-> b.addr, size |-> b.size]
  BY <1>0, Zenon DEF Block
<1>2. (IF b.arena = "page" THEN PAGE_SIZE ELSE nSize[b.addr]) = b.size
  <2>1. b.arena = "page" => b.size = PAGE_SIZE
    BY <1>0, Zenon DEF Buckets
  <2>2. b.arena # "page" => nSize[b.addr] = b.size
    BY Zenon DEF Calls, Sized, Owned
  <2> QED BY <2>1, <2>2, Zenon
<1>3. /\ pc[t] = "run" /\ pc' = [pc EXCEPT ![t] = "enter"] /\ live' = live \ {b}
      /\ p' = [p EXCEPT ![t] = b.addr]
      /\ arg' = [arg EXCEPT ![t] = [arena |-> b.arena, size |-> b.size]]
      /\ UNCHANGED <<next, pFreeList, pNext, nSize, wrapped>>
  BY <1>2, Zenon DEF FreeCall, At, Goto, heap
<1>4. /\ pc'[t] = "enter" /\ p'[t] = b.addr /\ arg'[t] = [arena |-> b.arena, size |-> b.size]
      /\ \A u \in Tasks : u # t => pc'[u] = pc[u] /\ arg'[u] = arg[u] /\ p'[u] = p[u]
  BY <1>3, Zenon DEF Calls, Typed
<1>5. Returned(t)' = b
  BY <1>1, <1>4 DEF Returned
<1>6. /\ Holders' = Holders \cup {t} /\ t \notin Holders
      /\ \A u \in Holders : u # t /\ Returned(u)' = Returned(u)
  BY <1>3, <1>4, Zenon DEF Holders, Returned
<1>7. Owned' = Owned
  BY <1>3, <1>5, <1>6, Zenon DEF Owned
<1>8. Typed'
  <2>1. pc' \in [Tasks -> Places]
    BY <1>3, Locals, Zenon DEF Calls, Places
  <2>2. arg' \in [Tasks -> [arena : Arenas, size : Nat]]
    <3>1. [arena |-> b.arena, size |-> b.size] \in [arena : Arenas, size : Nat]
      BY <1>0, Zenon
    <3>2. \A q \in [arena : Arenas, size : Nat] :
               [arg EXCEPT ![t] = q] \in [Tasks -> [arena : Arenas, size : Nat]]
      BY Locals, Zenon DEF Calls
    <3> QED BY <1>3, <3>1, <3>2, Zenon
  <2>3. p' \in [Tasks -> Nat]
    BY <1>0, <1>3, Locals, Zenon DEF Calls
  <2> QED BY <1>3, <2>1, <2>2, <2>3, Zenon DEF Calls, Typed
<1>9. Exclusive'
  BY <1>3, Excludes, Zenon DEF Calls
<1>10. \A u \in Tasks : Knows(u)'
  <2>1. Knows(t)'
    BY <1>0, <1>4 DEF Knows
  <2> QED BY <1>3, <1>4, <2>1, OthersKnow, Zenon DEF Calls
<1>11. Linked' /\ FreeBlocks' = FreeBlocks
  BY <1>3, ListsKept, Zenon DEF Calls, Typed
<1>12. OneOwner' /\ Sized'
  <2>1. ASSUME NEW u \in Holders'
        PROVE  /\ Returned(u)' \notin live'
               /\ \A v \in Holders' \ {u} : Returned(v)' # Returned(u)'
    BY <1>3, <1>5, <1>6 DEF Calls, OneOwner
  <2> QED BY <1>3, <1>7, <1>11, <2>1, OwnersKept, Zenon DEF Calls
<1> QED BY <1>3, <1>7, <1>8, <1>9, <1>10, <1>11, <1>12, Zenon DEF Calls

(* malloc returns: the link it clears is on no list.                       *)
LEMMA ClearNextStep ==
  ASSUME SameCpu, Calls, NEW t \in Tasks, ClearNext(t)
  PROVE  Calls' /\ Owned' = Owned /\ FreeBlocks' = FreeBlocks /\ UNCHANGED <<next, wrapped>>
<1>1. /\ pc[t] = "clear" /\ pc' = [pc EXCEPT ![t] = "run"] /\ live' = live \cup {Returned(t)}
      /\ p' = [p EXCEPT ![t] = NULL] /\ arg' = [arg EXCEPT ![t] = NoCall]
      /\ pNext' = IF arg[t].arena = "page" THEN pNext ELSE [pNext EXCEPT ![p[t]] = NULL]
      /\ UNCHANGED <<next, pFreeList, nSize, wrapped>>
  BY Zenon DEF ClearNext, Return, At, Goto
<1>2. /\ pc'[t] = "run" /\ p'[t] = NULL /\ arg'[t] = NoCall
      /\ \A u \in Tasks : u # t => pc'[u] = pc[u] /\ arg'[u] = arg[u] /\ p'[u] = p[u]
  BY <1>1, Zenon DEF Calls, Typed
<1>3. /\ t \in Holders /\ Holders' = Holders \ {t}
      /\ \A u \in Holders' : Returned(u)' = Returned(u)
  BY <1>1, <1>2, Zenon DEF Holders, Returned
<1>4. Owned' = Owned
  BY <1>1, <1>3, Zenon DEF Owned
<1>5. Returned(t) \in Owned /\ Returned(t).addr = p[t] /\ p[t] \in DOMAIN pNext
  <2>1. Returned(t) \in Owned /\ Returned(t).addr = p[t]
    BY <1>3, Zenon DEF Owned, Returned
  <2> QED BY <2>1, Zenon DEF Calls, OneOwner
<1>6. IsLink(pNext') /\ DOMAIN pNext' = DOMAIN pNext /\ \A g \in DOMAIN pNext : g # p[t] => pNext'[g] = pNext[g]
  BY <1>1, <1>5, Zenon DEF Calls, Typed, IsLink
<1>7. Linked' /\ FreeBlocks' = FreeBlocks
  <2>1. ASSUME NEW a \in Arenas, NEW s \in Buckets(a), NEW g \in Listed(a, s)
        PROVE  pNext'[g] = pNext[g]
    <3>1. g # p[t] /\ g \in DOMAIN pNext
      BY <1>3, HeldNotListed, ListedFacts DEF Calls
    <3> QED BY <1>6, <3>1, Zenon
  <2> QED BY <1>1, <1>6, <2>1, ListsKept, Zenon DEF Calls
<1>8. Typed'
  <2>1. pc' \in [Tasks -> Places]
    BY <1>1, Locals, Zenon DEF Calls, Places
  <2>2. arg' \in [Tasks -> [arena : Arenas, size : Nat]]
    <3>1. NoCall \in [arena : Arenas, size : Nat]
      BY Zenon DEF NoCall, Arenas
    <3> QED BY <1>1, <3>1, Locals, Zenon DEF Calls
  <2>3. p' \in [Tasks -> Nat]
    BY <1>1, Locals, Zenon DEF Calls, NULL
  <2>4. live' \subseteq Block /\ \A b \in live' : b.size \in Buckets(b.arena)
    BY <1>1, <1>5, BlockTypes, Zenon DEF Calls, Typed
  <2> QED BY <1>1, <1>6, <2>1, <2>2, <2>3, <2>4, Zenon DEF Calls, Typed
<1>9. Exclusive'
  BY <1>1, Excludes, Zenon DEF Calls
<1>10. \A u \in Tasks : Knows(u)'
  <2>1. Knows(t)'
    BY <1>2, Zenon DEF Knows
  <2>2. ASSUME NEW u \in Tasks, u # t, pc[u] = "push" PROVE pNext'[p[u]] = pNext[p[u]]
    <3>1. u \in Holders /\ Returned(u) \in Owned /\ Returned(u).addr = p[u]
      BY <2>2, Zenon DEF Holders, Owned, Returned
    <3>2. p[u] # p[t] /\ p[u] \in DOMAIN pNext
      BY <1>3, <1>5, <2>2, <3>1, Zenon DEF Calls, OneOwner
    <3> QED BY <1>6, <3>2, Zenon
  <2>3. ASSUME NEW u \in Tasks, u # t PROVE Knows(u)'
    BY <1>1, <1>2, <2>2, <2>3, OthersKnow, Zenon DEF Calls
  <2> QED BY <2>1, <2>3, Zenon
<1>11. OneOwner' /\ Sized'
  <2>1. ASSUME NEW u \in Holders'
        PROVE  /\ Returned(u)' \notin live'
               /\ \A v \in Holders' \ {u} : Returned(v)' # Returned(u)'
    BY <1>1, <1>3 DEF Calls, OneOwner
  <2> QED BY <1>1, <1>4, <1>6, <1>7, <2>1, OwnersKept, Zenon DEF Calls
<1> QED BY <1>1, <1>4, <1>7, <1>8, <1>9, <1>10, <1>11, Zenon DEF Calls

(* free links its block before it moves the head.                          *)
LEMMA LinkStep ==
  ASSUME SameCpu, Calls, NEW t \in Tasks, Link(t)
  PROVE  Calls' /\ Owned' = Owned /\ FreeBlocks' = FreeBlocks /\ UNCHANGED <<next, wrapped>>
<1>1. /\ pc[t] = "enter" /\ MayEnter(t) /\ pc' = [pc EXCEPT ![t] = "push"]
      /\ pNext' = [pNext EXCEPT ![p[t]] = ListOf(t)]
      /\ UNCHANGED <<next, pFreeList, nSize, live, arg, p, wrapped>>
  BY Zenon DEF Link, At, Goto, ListOf
<1>2. pc'[t] = "push" /\ \A u \in Tasks : u # t => pc'[u] = pc[u]
  BY <1>1, Zenon DEF Calls, Typed
<1>3. /\ t \in Holders /\ Holders' = Holders
      /\ \A u \in Holders' : Returned(u)' = Returned(u)
  BY <1>1, <1>2, Zenon DEF Holders, Returned
<1>4. Owned' = Owned
  BY <1>1, <1>3, Zenon DEF Owned
<1>5. p[t] \in DOMAIN pNext
  <2>1. Returned(t) \in Owned /\ Returned(t).addr = p[t]
    BY <1>3, Zenon DEF Owned, Returned
  <2> QED BY <2>1, Zenon DEF Calls, OneOwner
<1>6. arg[t].arena \in Arenas /\ arg[t].size \in Buckets(arg[t].arena) /\ ListOf(t) \in DOMAIN pNext \cup {NULL}
  BY <1>1 DEF Calls, Typed, Knows, ListOf
<1>7. /\ IsLink(pNext') /\ DOMAIN pNext' = DOMAIN pNext /\ pNext'[p[t]] = ListOf(t)
      /\ \A g \in DOMAIN pNext : g # p[t] => pNext'[g] = pNext[g]
  BY <1>1, <1>5, <1>6, Zenon DEF Calls, Typed, IsLink
<1>8. Linked' /\ FreeBlocks' = FreeBlocks
  <2>1. ASSUME NEW a \in Arenas, NEW s \in Buckets(a), NEW g \in Listed(a, s)
        PROVE  pNext'[g] = pNext[g]
    <3>1. g # p[t] /\ g \in DOMAIN pNext
      BY <1>3, HeldNotListed, ListedFacts DEF Calls
    <3> QED BY <1>7, <3>1, Zenon
  <2> QED BY <1>1, <1>7, <2>1, ListsKept, Zenon DEF Calls
<1>9. Typed'
  <2>1. pc' \in [Tasks -> Places]
    BY <1>1, Locals, Zenon DEF Calls, Places
  <2> QED BY <1>1, <1>7, <2>1, Zenon DEF Calls, Typed
<1>10. Exclusive'
  BY <1>1, Excludes, Zenon DEF Calls
<1>11. \A u \in Tasks : Knows(u)'
  <2>1. Knows(t)'
    BY <1>1, <1>2, <1>6, <1>7, Zenon DEF Knows, ListOf
  <2>2. ASSUME NEW u \in Tasks, u # t PROVE Knows(u)'
    <3>1. ~Inside(u)
      BY <1>1, Zenon DEF MayEnter, SameCpu
    <3> QED BY <1>1, <1>2, <2>2, <3>1, OthersKnow, Zenon DEF Calls
  <2> QED BY <2>1, <2>2, Zenon
<1>12. OneOwner' /\ Sized'
  <2>1. ASSUME NEW u \in Holders'
        PROVE  /\ Returned(u)' \notin live'
               /\ \A v \in Holders' \ {u} : Returned(v)' # Returned(u)'
    BY <1>1, <1>3 DEF Calls, OneOwner
  <2> QED BY <1>1, <1>4, <1>7, <1>8, <2>1, OwnersKept, Zenon DEF Calls
<1> QED BY <1>1, <1>4, <1>8, <1>9, <1>10, <1>11, <1>12, Zenon DEF Calls

(* The head of one list is set.                                            *)
HeadMoves(a, s, h) ==
    /\ pFreeList' = [d \in Arenas |-> pFreeList'[d]]
    /\ \A d \in Arenas : pFreeList'[d] \in [Buckets(d) -> DOMAIN pNext \cup {NULL}]
    /\ pFreeList'[a][s] = h
    /\ \A d \in Arenas : \A r \in Buckets(d) :
          <<d, r>> # <<a, s>> => pFreeList'[d][r] = pFreeList[d][r]

LEMMA OtherLists ==
  ASSUME NEW a \in Arenas, NEW s \in Buckets(a), NEW h, HeadMoves(a, s, h), pNext' = pNext
  PROVE  /\ Listed(a, s)' = Reach(pNext, h)
         /\ \A d \in Arenas : \A r \in Buckets(d) :
               <<d, r>> # <<a, s>> => Listed(d, r)' = Listed(d, r)
BY Zenon DEF HeadMoves, Listed

(* malloc takes the head of the list.                                      *)
LEMMA PopStep ==
  ASSUME SameCpu, Calls, NEW t \in Tasks, Pop(t),
         NEW a \in Arenas, a = arg[t].arena, NEW s \in Buckets(a), s = arg[t].size
  PROVE  Calls' /\ A!Reuse(a, s)
<1>0. PICK h \in Nat : h = p[t]
  BY Zenon DEF Calls, Typed
<1> DEFINE b == [arena |-> a, addr |-> h, size |-> s]
<1>1. /\ pc[t] = "pop" /\ pc' = [pc EXCEPT ![t] = "clear"]
      /\ pFreeList' = [pFreeList EXCEPT ![a][s] = pNext[h]]
      /\ UNCHANGED <<next, pNext, nSize, live, arg, p, wrapped>>
  BY <1>0, Zenon DEF Pop, At, Goto
<1>2. h = pFreeList[a][s] /\ h # NULL
  BY <1>0, <1>1, Zenon DEF Calls, Typed, Knows, ListOf
<1>3. /\ pc'[t] = "clear" /\ \A u \in Tasks : u # t => pc'[u] = pc[u]
  BY <1>1, Zenon DEF Calls, Typed
<1>4. Returned(t)' = b
  BY <1>0, <1>1, Zenon DEF Returned
<1>5. /\ Holders' = Holders \cup {t} /\ t \notin Holders
      /\ \A u \in Holders : Returned(u)' = Returned(u)
  BY <1>1, <1>3, Zenon DEF Holders, Returned
<1>6. Owned' = Owned \cup {b}
  BY <1>1, <1>4, <1>5, Zenon DEF Owned
<1>7. h \in Listed(a, s) /\ h \in DOMAIN pNext /\ pNext[h] \in DOMAIN pNext \cup {NULL} /\ IsLink(pNext)
  BY <1>2, ListedFacts, Zenon DEF Calls, Typed, IsLink
<1>m. HeadMoves(a, s, pNext[h])
  <2> DEFINE F == [pFreeList[a] EXCEPT ![s] = pNext[h]]
  <2>1. pFreeList' = [d \in Arenas |-> IF d = a THEN F ELSE pFreeList[d]]
    BY <1>1, Zenon DEF Calls, Typed
  <2>2. pFreeList[a] \in [Buckets(a) -> DOMAIN pNext \cup {NULL}]
    BY Zenon DEF Calls, Typed
  <2>3. F \in [Buckets(a) -> DOMAIN pNext \cup {NULL}] /\ F[s] = pNext[h]
        /\ \A r \in Buckets(a) : r # s => F[r] = pFreeList[a][r]
    BY <1>7, <2>2, Zenon
  <2> HIDE DEF F
  <2>4. \A d \in Arenas : pFreeList'[d] = IF d = a THEN F ELSE pFreeList[d]
    BY <2>1, Zenon
  <2>5. pFreeList' = [d \in Arenas |-> pFreeList'[d]]
    BY <2>1, Zenon
  <2>6. \A d \in Arenas : pFreeList'[d] \in [Buckets(d) -> DOMAIN pNext \cup {NULL}]
    BY <2>3, <2>4, Zenon DEF Calls, Typed
  <2> QED BY <2>3, <2>4, <2>5, <2>6, Zenon DEF HeadMoves
<1>8. Listed(a, s)' = Listed(a, s) \ {h}
  <2>1. \A g \in Reach(pNext, h) : pNext[g] # h
    BY <1>2, Zenon DEF Calls, Linked, Listed
  <2>2. Reach(pNext, pNext[h]) = Reach(pNext, h) \ {h}
    BY <1>7, <2>1, ReachPop, Zenon
  <2>3. Listed(a, s)' = Reach(pNext, pNext[h])
    <3>1. pNext' = pNext
      BY <1>1, Zenon
    <3> QED BY ONLY <1>m, <3>1, OtherLists, a \in Arenas, s \in Buckets(a), Zenon
  <2> QED BY <1>2, <2>2, <2>3, Zenon DEF Listed
<1>9. /\ \A d \in Arenas : \A r \in Buckets(d) : <<d, r>> # <<a, s>> =>
            Listed(d, r)' = Listed(d, r) /\ pFreeList'[d][r] = pFreeList[d][r]
      /\ pFreeList'[a][s] = pNext[h]
      /\ pFreeList' = [d \in Arenas |-> pFreeList'[d]]
      /\ \A d \in Arenas : pFreeList'[d] \in [Buckets(d) -> DOMAIN pNext' \cup {NULL}]
  <2>1. \A d \in Arenas : \A r \in Buckets(d) : <<d, r>> # <<a, s>> => Listed(d, r)' = Listed(d, r)
    BY <1>1, <1>m, OtherLists, Zenon
  <2>2. pNext' = pNext
    BY <1>1, Zenon
  <2> QED BY ONLY <1>m, <2>1, <2>2, Zenon DEF HeadMoves
<1>10. b \in FreeBlocks
  BY <1>2, <1>7, InFree, Zenon
<1>11. FreeBlocks' = FreeBlocks \ {b}
  <2>1. ASSUME NEW x \in FreeBlocks' PROVE x \in FreeBlocks \ {b}
    <3>1. PICK d \in Arenas : \E r \in Buckets(d) : \E g \in Listed(d, r)' :
               x = [arena |-> d, addr |-> g, size |-> r]
      BY DEF FreeBlocks
    <3>2. PICK r \in Buckets(d) : \E g \in Listed(d, r)' : x = [arena |-> d, addr |-> g, size |-> r]
      BY <3>1, Zenon
    <3>3. PICK g \in Listed(d, r)' : x = [arena |-> d, addr |-> g, size |-> r]
      BY <3>2, Zenon
    <3>4. g \in Listed(d, r) /\ (<<d, r>> = <<a, s>> => g # h)
      BY <1>8, <1>9
    <3> QED BY <3>3, <3>4, InFree, Zenon
  <2>2. ASSUME NEW x \in FreeBlocks \ {b} PROVE x \in FreeBlocks'
    <3>1. PICK d \in Arenas : \E r \in Buckets(d) : \E g \in Listed(d, r) :
               x = [arena |-> d, addr |-> g, size |-> r]
      BY InFree, Zenon
    <3>2. PICK r \in Buckets(d) : \E g \in Listed(d, r) : x = [arena |-> d, addr |-> g, size |-> r]
      BY <3>1, Zenon
    <3>3. PICK g \in Listed(d, r) : x = [arena |-> d, addr |-> g, size |-> r]
      BY <3>2, Zenon
    <3>4. g \in Listed(d, r)'
      BY <1>8, <1>9, <2>2, <3>3
    <3> QED BY <3>3, <3>4 DEF FreeBlocks
  <2> QED BY <2>1, <2>2, Zenon
<1>12. Linked'
  <2> SUFFICES ASSUME NEW d \in Arenas, NEW r \in Buckets(d), NEW g \in Listed(d, r)', NEW k \in Listed(d, r)'
               PROVE  /\ pNext[g] # pFreeList'[d][r]
                      /\ pNext[g] = pNext[k] /\ pNext[g] # NULL => g = k
    BY <1>1 DEF Linked
  <2>1. CASE <<d, r>> # <<a, s>>
    BY <1>9, <2>1 DEF Calls, Linked
  <2>2. CASE d = a /\ r = s
    <3>1. g \in Listed(a, s) \ {h} /\ k \in Listed(a, s) \ {h}
      BY <1>8, <2>2, Zenon
    <3>2. pNext[h] # NULL
      <4>1. pNext[h] = NULL => Reach(pNext, NULL) = {}
        BY <1>7, ReachClosed, Zenon
      <4>2. Listed(a, s)' = Reach(pNext, pNext[h])
        BY <1>1, <1>9, Zenon DEF Listed
      <4> QED BY <2>2, <4>1, <4>2, Zenon
    <3>3. pNext[g] # pNext[h]
      <4>1. Linked /\ h \in Listed(a, s) /\ g \in Listed(a, s) /\ g # h
        BY <1>7, <3>1, Zenon DEF Calls
      <4> QED BY ONLY <4>1, <3>2, a \in Arenas, s \in Buckets(a) DEF Linked
    <3>4. pNext[g] = pNext[k] /\ pNext[g] # NULL => g = k
      <4>1. Linked /\ k \in Listed(a, s) /\ g \in Listed(a, s)
        BY <3>1, Zenon DEF Calls
      <4> QED BY ONLY <4>1, a \in Arenas, s \in Buckets(a) DEF Linked
    <3> QED BY <1>9, <2>2, <3>3, <3>4, Zenon
  <2> QED BY <2>1, <2>2, Zenon
<1>13. OneOwner' /\ Sized'
  <2>1. Owned' \cup FreeBlocks' = Owned \cup FreeBlocks
    BY <1>6, <1>10, <1>11, Zenon
  <2>2. Owned' \cap FreeBlocks' = {}
    BY <1>6, <1>11, Zenon DEF Calls, OneOwner
  <2>3. b \notin live /\ \A u \in Holders : Returned(u) # b
    BY <1>10 DEF Calls, OneOwner, Owned
  <2>4. ASSUME NEW u \in Holders'
        PROVE  /\ Returned(u)' \notin live'
               /\ \A v \in Holders' \ {u} : Returned(v)' # Returned(u)'
    BY <1>1, <1>4, <1>5, <2>3 DEF Calls, OneOwner
  <2>5. OneOwner'
    BY <1>1, <2>1, <2>2, <2>4, Zenon DEF Calls, OneOwner
  <2>6. Sized'
    BY <1>1, <2>1, Zenon DEF Calls, Sized
  <2> QED BY <2>5, <2>6, Zenon
<1>14. Typed'
  <2>1. pc' \in [Tasks -> Places]
    BY <1>1, Locals, Zenon DEF Calls, Places
  <2> QED BY <1>1, <1>9, <2>1, Zenon DEF Calls, Typed
<1>15. Inside(t) /\ Exclusive'
  BY <1>1, Excludes, Zenon DEF Calls, Inside
<1>16. \A u \in Tasks : Knows(u)'
  <2>1. Knows(t)'
    BY <1>1, <1>2, <1>3, Zenon DEF Knows
  <2>2. ASSUME NEW u \in Tasks, u # t PROVE Knows(u)'
    <3>1. ~Inside(u)
      BY <1>15, <2>2, Zenon DEF Calls, Exclusive
    <3> QED BY <1>1, <1>3, <2>2, <3>1, OthersKnow, Zenon DEF Calls
  <2> QED BY <2>1, <2>2, Zenon
<1>17. A!Reuse(a, s)
  <2>1. b.arena = a /\ b.size = s
    BY Zenon
  <2> HIDE DEF b
  <2> QED BY <1>1, <1>6, <1>10, <1>11, <2>1, Zenon DEF A!Reuse
<1>18. Calls'
  BY <1>12, <1>13, <1>14, <1>15, <1>16, Zenon DEF Calls
<1> QED BY <1>17, <1>18, Zenon

(* free puts its block in front of the list.                               *)
LEMMA PushStep ==
  ASSUME SameCpu, Calls, NEW t \in Tasks, Push(t),
         NEW a \in Arenas, a = arg[t].arena, NEW s \in Buckets(a), s = arg[t].size
  PROVE  Calls' /\ \E b \in Owned : A!Release(b)
<1>0. PICK h \in Nat : h = p[t]
  BY Zenon DEF Calls, Typed
<1> DEFINE b == [arena |-> a, addr |-> h, size |-> s]
<1>1. /\ pc[t] = "push" /\ pc' = [pc EXCEPT ![t] = "run"]
      /\ p' = [p EXCEPT ![t] = NULL] /\ arg' = [arg EXCEPT ![t] = NoCall]
      /\ pFreeList' = [pFreeList EXCEPT ![a][s] = h]
      /\ UNCHANGED <<next, pNext, nSize, live, wrapped>>
  BY <1>0, Zenon DEF Push, Return, At, Goto
<1>2. pNext[h] = pFreeList[a][s]
  BY <1>0, <1>1, Zenon DEF Calls, Typed, Knows, ListOf
<1>3. /\ pc'[t] = "run" /\ p'[t] = NULL /\ arg'[t] = NoCall
      /\ \A u \in Tasks : u # t => pc'[u] = pc[u] /\ arg'[u] = arg[u] /\ p'[u] = p[u]
  BY <1>1, Zenon DEF Calls, Typed
<1>4. Returned(t) = b
  BY <1>0, Zenon DEF Returned
<1>5. /\ Holders' = Holders \ {t} /\ t \in Holders
      /\ \A u \in Holders' : Returned(u)' = Returned(u)
  BY <1>1, <1>3, Zenon DEF Holders, Returned
<1>h. h \notin Listed(a, s)
  BY <1>0, <1>5, HeldNotListed, Zenon DEF Calls
<1>6. Owned' = Owned \ {b} /\ b \in Owned
  BY <1>1, <1>4, <1>5 DEF Owned, Calls, OneOwner
<1>7. /\ h \in DOMAIN pNext /\ pNext[h] \in DOMAIN pNext \cup {NULL} /\ IsLink(pNext)
      /\ h # NULL
  <2>1. b.addr = h
    BY Zenon
  <2>2. h \in DOMAIN pNext
    BY <1>6, <2>1, Zenon DEF Calls, OneOwner
  <2> QED BY <2>2, Zenon DEF Calls, Typed, IsLink
<1>m. HeadMoves(a, s, h)
  <2> DEFINE F == [pFreeList[a] EXCEPT ![s] = h]
  <2>1. pFreeList' = [d \in Arenas |-> IF d = a THEN F ELSE pFreeList[d]]
    BY <1>1, Zenon DEF Calls, Typed
  <2>2. pFreeList[a] \in [Buckets(a) -> DOMAIN pNext \cup {NULL}]
    BY Zenon DEF Calls, Typed
  <2>3. F \in [Buckets(a) -> DOMAIN pNext \cup {NULL}] /\ F[s] = h
        /\ \A r \in Buckets(a) : r # s => F[r] = pFreeList[a][r]
    BY <1>7, <2>2, Zenon
  <2> HIDE DEF F
  <2>4. \A d \in Arenas : pFreeList'[d] = IF d = a THEN F ELSE pFreeList[d]
    BY <2>1, Zenon
  <2>5. pFreeList' = [d \in Arenas |-> pFreeList'[d]]
    BY <2>1, Zenon
  <2>6. \A d \in Arenas : pFreeList'[d] \in [Buckets(d) -> DOMAIN pNext \cup {NULL}]
    BY <2>3, <2>4, Zenon DEF Calls, Typed
  <2> QED BY <2>3, <2>4, <2>5, <2>6, Zenon DEF HeadMoves
<1>8. Listed(a, s)' = Listed(a, s) \cup {h}
  <2>1. Reach(pNext, h) = Reach(pNext, pFreeList[a][s]) \cup {h}
    BY <1>2, <1>7, ReachPush
  <2>2. Listed(a, s)' = Reach(pNext, h)
    BY <1>1, <1>m, OtherLists, Zenon
  <2> QED BY <2>1, <2>2, Zenon DEF Listed
<1>9. /\ \A d \in Arenas : \A r \in Buckets(d) : <<d, r>> # <<a, s>> =>
            Listed(d, r)' = Listed(d, r) /\ pFreeList'[d][r] = pFreeList[d][r]
      /\ pFreeList'[a][s] = h
      /\ pFreeList' = [d \in Arenas |-> pFreeList'[d]]
      /\ \A d \in Arenas : pFreeList'[d] \in [Buckets(d) -> DOMAIN pNext' \cup {NULL}]
  <2>1. \A d \in Arenas : \A r \in Buckets(d) : <<d, r>> # <<a, s>> => Listed(d, r)' = Listed(d, r)
    BY <1>1, <1>m, OtherLists, Zenon
  <2> QED BY <1>1, <1>m, <2>1, Zenon DEF HeadMoves
<1>10. b \notin FreeBlocks
  BY <1>6, Zenon DEF Calls, OneOwner
<1>11. FreeBlocks' = FreeBlocks \cup {b}
  <2>1. ASSUME NEW x \in FreeBlocks' PROVE x \in FreeBlocks \cup {b}
    <3>1. PICK d \in Arenas : \E r \in Buckets(d) : \E g \in Listed(d, r)' :
               x = [arena |-> d, addr |-> g, size |-> r]
      BY DEF FreeBlocks
    <3>2. PICK r \in Buckets(d) : \E g \in Listed(d, r)' : x = [arena |-> d, addr |-> g, size |-> r]
      BY <3>1, Zenon
    <3>3. PICK g \in Listed(d, r)' : x = [arena |-> d, addr |-> g, size |-> r]
      BY <3>2, Zenon
    <3>4. g \in Listed(d, r) \/ (d = a /\ r = s /\ g = h)
      BY <1>8, <1>9, Zenon
    <3> QED BY <3>3, <3>4, InFree, Zenon
  <2>2. ASSUME NEW x \in FreeBlocks PROVE x \in FreeBlocks'
    <3>1. PICK d \in Arenas : \E r \in Buckets(d) : \E g \in Listed(d, r) :
               x = [arena |-> d, addr |-> g, size |-> r]
      BY InFree, Zenon
    <3>2. PICK r \in Buckets(d) : \E g \in Listed(d, r) : x = [arena |-> d, addr |-> g, size |-> r]
      BY <3>1, Zenon
    <3>3. PICK g \in Listed(d, r) : x = [arena |-> d, addr |-> g, size |-> r]
      BY <3>2, Zenon
    <3>4. g \in Listed(d, r)'
      BY <1>8, <1>9, Zenon
    <3> QED BY <3>3, <3>4 DEF FreeBlocks
  <2>3. b \in FreeBlocks'
    <3>1. h \in Listed(a, s)'
      BY <1>8, Zenon
    <3> QED BY <1>2, <3>1 DEF FreeBlocks
  <2> QED BY <2>1, <2>2, <2>3, Zenon
<1>12. Linked'
  <2> SUFFICES ASSUME NEW d \in Arenas, NEW r \in Buckets(d), NEW g \in Listed(d, r)', NEW k \in Listed(d, r)'
               PROVE  /\ pNext[g] # pFreeList'[d][r]
                      /\ pNext[g] = pNext[k] /\ pNext[g] # NULL => g = k
    BY <1>1 DEF Linked
  <2>1. CASE <<d, r>> # <<a, s>>
    BY <1>9, <2>1 DEF Calls, Linked
  <2>2. CASE d = a /\ r = s
    <3>1. g \in Listed(a, s) \cup {h} /\ k \in Listed(a, s) \cup {h}
      BY <1>8, <2>2, Zenon
    <3>2. pNext[h] # NULL => pNext[h] \in Listed(a, s)
      BY <1>2, ListedFacts, Zenon DEF Calls
    <3>3. \A x \in Listed(a, s) : pNext[x] # NULL => pNext[x] \in Listed(a, s)
      BY <1>2, ListedFacts, Zenon DEF Calls
    <3>4. pNext[g] # h
      BY <1>7, <1>h, <3>1, <3>2, <3>3, Zenon
    <3>5. pNext[g] = pNext[k] /\ pNext[g] # NULL => g = k
      BY <1>2, <3>1 DEF Calls, Linked
    <3> QED BY <1>9, <2>2, <3>4, <3>5, Zenon
  <2> QED BY <2>1, <2>2, Zenon
<1>13. OneOwner' /\ Sized'
  <2>1. Owned' \cup FreeBlocks' = Owned \cup FreeBlocks
    BY <1>6, <1>11, Zenon
  <2>2. Owned' \cap FreeBlocks' = {}
    BY <1>6, <1>11, Zenon DEF Calls, OneOwner
  <2>4. ASSUME NEW u \in Holders'
        PROVE  /\ Returned(u)' \notin live'
               /\ \A v \in Holders' \ {u} : Returned(v)' # Returned(u)'
    BY <1>1, <1>5 DEF Calls, OneOwner
  <2>5. OneOwner'
    BY <1>1, <2>1, <2>2, <2>4, Zenon DEF Calls, OneOwner
  <2>6. Sized'
    BY <1>1, <2>1, Zenon DEF Calls, Sized
  <2> QED BY <2>5, <2>6, Zenon
<1>14. Typed'
  <2>1. pc' \in [Tasks -> Places]
    BY <1>1, Locals, Zenon DEF Calls, Places
  <2>2. arg' \in [Tasks -> [arena : Arenas, size : Nat]]
    <3>1. NoCall \in [arena : Arenas, size : Nat]
      BY Zenon DEF NoCall, Arenas
    <3> QED BY <1>1, <3>1, Locals, Zenon DEF Calls
  <2>3. p' \in [Tasks -> Nat]
    BY <1>1, Locals, Zenon DEF Calls, NULL
  <2> QED BY <1>1, <1>9, <2>1, <2>2, <2>3, Zenon DEF Calls, Typed
<1>15. Inside(t) /\ Exclusive'
  BY <1>1, Excludes, Zenon DEF Calls, Inside
<1>16. \A u \in Tasks : Knows(u)'
  <2>1. Knows(t)'
    BY <1>3, Zenon DEF Knows
  <2>2. ASSUME NEW u \in Tasks, u # t PROVE Knows(u)'
    <3>1. ~Inside(u)
      BY <1>15, <2>2, Zenon DEF Calls, Exclusive
    <3> QED BY <1>1, <1>3, <2>2, <3>1, OthersKnow, Zenon DEF Calls
  <2> QED BY <2>1, <2>2, Zenon
<1>17. A!Release(b)
  BY <1>1, <1>6, <1>11, Zenon DEF A!Release
<1>18. Calls'
  BY <1>12, <1>13, <1>14, <1>15, <1>16, Zenon DEF Calls
<1> QED BY <1>6, <1>17, <1>18, Zenon

(* malloc carves a new block, or fails at the limit.                       *)
LEMMA BumpStep ==
  ASSUME SameCpu, Calls, A!Inv, wrapped' = {}, NEW t \in Tasks, Bump(t),
         NEW a \in Arenas, a = arg[t].arena, NEW s \in Buckets(a), s = arg[t].size
  PROVE  Calls' /\ A!CarveNew(a, s)
<1>0. PICK new : new = Carve(a, next[a], s)
  BY Zenon
<1>1. pc[t] = "bump" /\ p[t] = next[a] /\ ListOf(t) = NULL
  BY Zenon DEF Bump, At, Calls, Knows
<1>2. /\ next' = [next EXCEPT ![a] = new.behind]
      /\ wrapped' = IF new.wraps THEN wrapped \cup {a} ELSE wrapped
      /\ UNCHANGED <<pFreeList, live>>
  BY <1>0, <1>1, Zenon DEF Bump
<1>3. ~new.wraps /\ wrapped = {}
  BY <1>2, Zenon
<1>4. s \in Nat \ {0} /\ next[a] \in Nat
  BY LayoutAssumption, Zenon DEF Arenas, Buckets, Calls, Typed
<1>5. new.addr \in Nat /\ new.behind \in Nat
  BY <1>0, <1>4, A!CarveFacts, SameLayout, SameCarve, LayoutAssumption, Zenon
<1>6. next' \in [Arenas -> Nat] /\ \A u \in Tasks : u # t => ~Inside(u)
  <2>1. Inside(t)
    BY <1>1, Zenon DEF Inside
  <2> QED BY <1>2, <1>5, <2>1, Zenon DEF Calls, Typed, Exclusive
<1>7. \A b \in FreeBlocks : b.arena = a => b.size # s
  <2>1. pFreeList[a][s] = NULL
    BY <1>1, Zenon DEF ListOf
  <2>2. Listed(a, s) = {}
    BY <2>1, ListedFacts, Zenon DEF Calls
  <2> QED BY <2>2, InFree
<1>8. CASE new.behind > Limit(a)
  <2>1. /\ pc' = [pc EXCEPT ![t] = "run"] /\ p' = [p EXCEPT ![t] = NULL]
        /\ arg' = [arg EXCEPT ![t] = NoCall] /\ UNCHANGED <<pNext, nSize>>
    <3>1. ~(new.behind <= Limit(a))
      BY <1>5, <1>8, A!ArenasFollow, SameLayout, LayoutAssumption
    <3> QED BY <1>0, <1>1, <3>1, Zenon DEF Bump, Return, Goto
  <2>2. /\ pc'[t] = "run" /\ p'[t] = NULL /\ arg'[t] = NoCall
        /\ \A u \in Tasks : u # t => pc'[u] = pc[u] /\ arg'[u] = arg[u] /\ p'[u] = p[u]
    BY <2>1, Zenon DEF Calls, Typed
  <2>3. Holders' = Holders /\ \A u \in Holders : Returned(u)' = Returned(u)
    BY <1>1, <2>2, Zenon DEF Holders, Returned
  <2>4. Owned' = Owned
    BY <1>2, <2>3, Zenon DEF Owned
  <2>5. Linked' /\ FreeBlocks' = FreeBlocks
    BY <1>2, <2>1, ListsKept, Zenon DEF Calls, Typed
  <2>6. OneOwner' /\ Sized'
    BY <1>2, <2>1, <2>3, <2>4, <2>5, OwnersKept DEF Calls, OneOwner
  <2>7. Typed'
    <3>1. pc' \in [Tasks -> Places]
      BY <2>1, Locals, Zenon DEF Calls, Places
    <3>2. arg' \in [Tasks -> [arena : Arenas, size : Nat]]
      <4>1. NoCall \in [arena : Arenas, size : Nat]
        BY Zenon DEF NoCall, Arenas
      <4> QED BY <2>1, <4>1, Locals, Zenon DEF Calls
    <3>3. p' \in [Tasks -> Nat]
      BY <2>1, Locals, Zenon DEF Calls, NULL
    <3> QED BY <1>2, <1>6, <2>1, <3>1, <3>2, <3>3, Zenon DEF Calls, Typed
  <2>8. Exclusive'
    BY <2>1, Excludes, Zenon DEF Calls
  <2>9. \A u \in Tasks : Knows(u)'
    <3>1. Knows(t)'
      BY <2>2, Zenon DEF Knows
    <3> QED BY <1>6, <2>2, <3>1, OthersKnow, Zenon DEF Calls
  <2>10. A!CarveNew(a, s)
    BY <1>0, <1>2, <1>7, <1>8, <2>4, <2>5, SameLayout, SameCarve, Zenon DEF A!CarveNew
  <2> QED BY <2>5, <2>6, <2>7, <2>8, <2>9, <2>10, Zenon DEF Calls
<1>9. CASE new.behind <= Limit(a)
  <2>0. PICK h : h = new.addr
    BY Zenon
  <2> DEFINE b == [arena |-> a, addr |-> h, size |-> s]
  <2>1. /\ pc' = [pc EXCEPT ![t] = "clear"] /\ p' = [p EXCEPT ![t] = h] /\ arg' = arg
        /\ nSize' = (IF a = "page" THEN nSize ELSE Written(nSize, h, s))
        /\ pNext' = Written(pNext, h, NULL)
    <3>1. ~(new.behind > Limit(a))
      BY <1>5, <1>9, A!ArenasFollow, SameLayout, LayoutAssumption
    <3> QED BY <1>0, <1>1, <2>0, <3>1, Zenon DEF Bump, Return, Goto
  <2>2. /\ pc'[t] = "clear" /\ p'[t] = h
        /\ \A u \in Tasks : u # t => pc'[u] = pc[u] /\ p'[u] = p[u]
    BY <2>1, Zenon DEF Calls, Typed
  <2>3. h \in Nat \ {0} /\ h \notin DOMAIN pNext
    <3>1. \A c \in Owned \cup FreeBlocks : c.size > 0
      <4>1. \A c \in Owned \cup FreeBlocks : c \in Block /\ c.size \in Buckets(c.arena)
        BY BlockTypes, Zenon DEF Calls
      <4>2. \A d \in Arenas : Buckets(d) \subseteq Nat \ {0}
        BY LayoutAssumption, Zenon DEF Arenas, Buckets
      <4> QED BY <4>1, <4>2 DEF Block
    <3>2. A!Blocks = Owned \cup FreeBlocks
      BY Zenon DEF A!Blocks
    <3>3. /\ A!Carve(a, next[a], s) = new /\ A!Limit(a) = Limit(a)
          /\ a \in A!Arenas /\ s \in A!Buckets(a)
      BY <1>0, SameLayout, SameCarve, Zenon
    <3>4. new.addr \in Nat \ {0} /\ \A c \in A!Blocks : c.size > 0 => c.addr # new.addr
      BY <1>3, <1>9, <3>3, A!FreshBlock, LayoutAssumption
    <3> QED BY <2>0, <3>1, <3>2, <3>4, Zenon DEF Calls, OneOwner
  <2>4. /\ DOMAIN pNext' = DOMAIN pNext \cup {h} /\ pNext'[h] = NULL
        /\ \A g \in DOMAIN pNext : pNext'[g] = pNext[g]
        /\ pNext' \in [DOMAIN pNext' -> DOMAIN pNext' \cup {NULL}]
    <3>1. pNext' = [x \in DOMAIN pNext \cup {h} |-> IF x = h THEN NULL ELSE pNext[x]]
      BY <2>1, Zenon DEF Written
    <3> QED BY <2>3, <3>1, Zenon DEF Calls, Typed, IsLink
  <2>5. IsLink(pNext') /\ DOMAIN pNext' \subseteq Nat
    BY <2>3, <2>4, Zenon DEF Calls, Typed, IsLink, NULL
  <2>6. /\ a # "page" => h \in DOMAIN nSize' /\ nSize'[h] = s
        /\ \A g \in DOMAIN nSize : g # h => g \in DOMAIN nSize' /\ nSize'[g] = nSize[g]
    <3>1. a # "page" => nSize' = [x \in DOMAIN nSize \cup {h} |-> IF x = h THEN s ELSE nSize[x]]
      BY <2>1, Zenon DEF Written
    <3> QED BY <2>1, <3>1, Zenon
  <2>7. /\ Holders' = Holders \cup {t} /\ t \notin Holders
        /\ \A u \in Holders : Returned(u)' = Returned(u)
    BY <1>1, <2>1, <2>2, Zenon DEF Holders, Returned
  <2>8. Returned(t)' = b
    BY <2>1, <2>2, Zenon DEF Returned
  <2>9. Owned' = Owned \cup {b}
    BY <1>2, <2>7, <2>8, Zenon DEF Owned
  <2>10. Linked' /\ FreeBlocks' = FreeBlocks
    <3>1. ASSUME NEW d \in Arenas, NEW r \in Buckets(d), NEW g \in Listed(d, r)
          PROVE  pNext'[g] = pNext[g]
      BY <2>4, ListedFacts, Zenon DEF Calls
    <3> QED BY <1>2, <2>4, <2>5, <3>1, ListsKept, Zenon DEF Calls
  <2>11. b.addr = h /\ b.arena = a /\ b.size = s
    BY Zenon
  <2> HIDE DEF b
  <2>12. b \notin Owned \cup FreeBlocks /\ \A c \in Owned \cup FreeBlocks : c.addr # h
    BY <2>3, <2>11, Zenon DEF Calls, OneOwner
  <2>13. OneOwner'
    <3>1. Owned' \cup FreeBlocks' = (Owned \cup FreeBlocks) \cup {b}
      BY <2>9, <2>10, Zenon
    <3>2. \A c \in Owned' \cup FreeBlocks' : c.addr \in DOMAIN pNext'
      BY <2>4, <2>11, <3>1, Zenon DEF Calls, OneOwner
    <3>3. \A g \in DOMAIN pNext' : \E c \in Owned' \cup FreeBlocks' : c.addr = g
      BY <2>4, <2>11, <3>1, Zenon DEF Calls, OneOwner
    <3>4. \A c, d \in Owned' \cup FreeBlocks' : c.addr = d.addr => c = d
      BY <2>11, <2>12, <3>1, Zenon DEF Calls, OneOwner
    <3>5. Owned' \cap FreeBlocks' = {}
      BY <2>9, <2>10, <2>12 DEF Calls, OneOwner
    <3>6. b \notin live /\ \A u \in Holders : Returned(u) # b
      BY <2>12, Zenon DEF Owned
    <3>7. ASSUME NEW u \in Holders'
          PROVE  /\ Returned(u)' \notin live'
                 /\ \A v \in Holders' \ {u} : Returned(v)' # Returned(u)'
      BY <1>2, <2>7, <2>8, <3>6 DEF Calls, OneOwner
    <3> QED BY <3>2, <3>3, <3>4, <3>5, <3>7, Zenon DEF OneOwner
  <2>14. Sized'
    BY <2>6, <2>9, <2>10, <2>11, <2>12, Zenon DEF Calls, Sized
  <2>15. Typed'
    <3>1. pc' \in [Tasks -> Places]
      BY <2>1, Locals, Zenon DEF Calls, Places
    <3>2. p' \in [Tasks -> Nat]
      BY <2>1, <2>3, Locals, Zenon DEF Calls
    <3>3. pFreeList' = [d \in Arenas |-> pFreeList'[d]]
      BY <1>2, Zenon DEF Calls, Typed
    <3>4. \A d \in Arenas : pFreeList'[d] \in [Buckets(d) -> DOMAIN pNext' \cup {NULL}]
      BY <1>2, <2>4, Zenon DEF Calls, Typed
    <3> QED BY <1>2, <1>6, <2>1, <2>5, <3>1, <3>2, <3>3, <3>4, Zenon DEF Calls, Typed
  <2>16. Exclusive'
    BY <2>1, Excludes, Zenon DEF Calls
  <2>17. \A u \in Tasks : Knows(u)'
    <3>1. Knows(t)'
      BY <2>1, <2>2, Zenon DEF Knows
    <3> QED BY <1>6, <2>1, <2>2, <3>1, OthersKnow, Zenon DEF Calls
  <2>18. A!CarveNew(a, s)
    <3>1. ~(new.behind > Limit(a))
      BY <1>5, <1>9, A!ArenasFollow, SameLayout, LayoutAssumption
    <3>2. b = [arena |-> a, addr |-> new.addr, size |-> s]
      BY <2>0, Zenon DEF b
    <3> QED BY <1>0, <1>2, <1>7, <2>9, <2>10, <3>1, <3>2, SameLayout, SameCarve, Zenon DEF A!CarveNew
  <2> QED BY <2>10, <2>13, <2>14, <2>15, <2>16, <2>17, <2>18, Zenon DEF Calls
<1> QED
  <2>1. Limit(a) \in Nat
    BY A!ArenasFollow, SameLayout, LayoutAssumption, Zenon
  <2> QED BY <1>5, <1>8, <1>9, <2>1

----------------------------------------------------------------------------
(* Every step is one of Heap or changes nothing there.                     *)
LEMMA StepRefines ==
  ASSUME SameCpu, Calls, A!Inv, [Next]_vars, wrapped' = {}
  PROVE  Calls' /\ [A!Next]_(A!vars)
<1> DEFINE Quiet == Calls' /\ Owned' = Owned /\ FreeBlocks' = FreeBlocks /\ UNCHANGED <<next, wrapped>>
<1>1. Quiet => Calls' /\ [A!Next]_(A!vars)
  BY Zenon DEF A!vars
<1>2. ASSUME NEW t \in Tasks, NEW a \in {"block", "dma"}, NEW n \in Requests, malloc(t, a, n)
      PROVE  Quiet
  <2>1. a \in Arenas
    BY Zenon DEF Arenas
  <2>2. PICK s \in Fitting(a, n) : Enter(t, a, s)
    BY <1>2, Zenon DEF malloc
  <2> QED BY <2>1, <2>2, EnterStep, Zenon DEF Fitting
<1>3. ASSUME NEW t \in Tasks, palloc(t) PROVE Quiet
  <2>1. "page" \in Arenas /\ PAGE_SIZE \in Buckets("page")
    BY Zenon DEF Arenas, Buckets
  <2> QED BY <1>3, <2>1, EnterStep, Zenon DEF palloc
<1>4. ASSUME NEW t \in Tasks, NEW b \in live, FreeCall(t, b) PROVE Quiet
  BY <1>4, FreeCallStep, Zenon
<1>5. ASSUME NEW t \in Tasks, ReadHead(t) \/ ReadNext(t) \/ ClearNext(t) \/ Link(t) PROVE Quiet
  BY <1>5, ReadHeadStep, ReadNextStep, ClearNextStep, LinkStep, Zenon
<1>6. ASSUME NEW t \in Tasks, Pop(t) \/ Bump(t) \/ Push(t)
      PROVE  Calls' /\ [A!Next]_(A!vars)
  <2>1. arg[t].arena \in Arenas /\ arg[t].size \in Buckets(arg[t].arena)
    BY <1>6, Zenon DEF Pop, Bump, Push, At, Calls, Typed, Knows
  <2>2. PICK a \in Arenas : a = arg[t].arena
    BY <2>1, Zenon
  <2>3. PICK s \in Buckets(a) : s = arg[t].size
    BY <2>1, <2>2, Zenon
  <2>4. CASE Pop(t)
    BY <2>2, <2>3, <2>4, PopStep, SameLayout, Zenon DEF A!Next, A!Allocate
  <2>5. CASE Bump(t)
    BY <2>2, <2>3, <2>5, BumpStep, SameLayout, Zenon DEF A!Next, A!Allocate
  <2>6. CASE Push(t)
    BY <2>2, <2>3, <2>6, PushStep, Zenon DEF A!Next
  <2> QED BY <1>6, <2>4, <2>5, <2>6, Zenon
<1>7. CASE UNCHANGED vars
  <2>1. UNCHANGED <<next, pFreeList, pNext, nSize, live, pc, arg, p, wrapped>>
    BY <1>7, Zenon DEF vars, heap
  <2>2. Holders' = Holders /\ \A t \in Holders : Returned(t)' = Returned(t)
    BY <2>1, Zenon DEF Holders, Returned
  <2>3. Owned' = Owned
    BY <2>1, <2>2, Zenon DEF Owned
  <2>4. Linked' /\ FreeBlocks' = FreeBlocks
    BY <2>1, ListsKept, Zenon DEF Calls, Typed
  <2>5. OneOwner' /\ Sized'
    BY <2>1, <2>2, <2>3, <2>4, OwnersKept DEF Calls, OneOwner
  <2>6. Typed' /\ Exclusive'
    BY <2>1, Zenon DEF Calls, Typed, Exclusive, Inside
  <2>7. \A t \in Tasks : Knows(t)'
    BY <2>1, Zenon DEF Calls, Knows, ListOf
  <2> QED BY <1>1, <2>1, <2>3, <2>4, <2>5, <2>6, <2>7, Zenon DEF Calls
<1> HIDE DEF Quiet
<1> QED BY <1>1, <1>2, <1>3, <1>4, <1>5, <1>6, <1>7, Zenon DEF Next

(* The inductive invariant: it holds until a pointer passes 2^32.          *)
IInv == wrapped = {} => Calls /\ A!Inv

LEMMA CallsInit == Init => Calls /\ A!Init /\ Abstract!Init
<1> SUFFICES ASSUME Init PROVE Calls /\ A!Init /\ Abstract!Init
  BY Zenon
<1>1. IsLink(pNext) /\ DOMAIN pNext = {}
  BY DEF Init, IsLink
<1>2. \A a \in Arenas : First(a) \in Nat
  BY A!ArenasFollow, SameLayout, LayoutAssumption, Zenon
<1>3. NoCall \in [arena : Arenas, size : Nat]
  BY Zenon DEF NoCall, Arenas
<1>4. Typed
  <2>1. \A a \in Arenas : pFreeList[a] \in [Buckets(a) -> DOMAIN pNext \cup {NULL}]
    BY Zenon DEF Init
  <2>2. pFreeList = [a \in Arenas |-> pFreeList[a]]
    BY Zenon DEF Init
  <2>3. pc \in [Tasks -> Places] /\ arg \in [Tasks -> [arena : Arenas, size : Nat]] /\ p \in [Tasks -> Nat]
    BY <1>3, Zenon DEF Init, Places, NULL
  <2> QED BY <1>1, <1>2, <2>1, <2>2, <2>3, Zenon DEF Init, Typed
<1>5. Owned = {} /\ FreeBlocks = {} /\ Holders = {}
  <2>1. Holders = {}
    BY Zenon DEF Init, Holders
  <2>2. FreeBlocks = {}
    BY <1>1, <1>4, InFree, ListedFacts, Zenon
  <2> QED BY <2>1, <2>2, Zenon DEF Init, Owned
<1>6. Exclusive /\ \A t \in Tasks : Knows(t)
  BY Zenon DEF Init, Exclusive, Inside, Knows
<1>7. Linked /\ OneOwner /\ Sized
  BY <1>1, <1>4, <1>5, ListedFacts, Zenon DEF Linked, OneOwner, Sized
<1>8. A!Init /\ Abstract!Init
  BY <1>5, SameLayout, Zenon DEF Init, A!Init, Abstract!Init
<1> QED BY <1>4, <1>6, <1>7, <1>8, Zenon DEF Calls

LEMMA NeverUnwraps == [Next]_vars => wrapped \subseteq wrapped'
BY Zenon DEF Next, malloc, palloc, Enter, FreeCall, ReadHead, Pop, ReadNext, Bump, ClearNext,
       Link, Push, vars

LEMMA IInvNext == SameCpu /\ IInv /\ [Next]_vars => IInv'
<1> SUFFICES ASSUME SameCpu, IInv, [Next]_vars, wrapped' = {} PROVE Calls' /\ A!Inv'
  BY Zenon DEF IInv
<1>1. wrapped = {}
  BY NeverUnwraps, Zenon
<1>2. Calls /\ A!Inv
  BY <1>1, Zenon DEF IInv
<1>3. Calls' /\ [A!Next]_(A!vars)
  BY <1>2, StepRefines, Zenon
<1> QED BY <1>2, <1>3, A!InvNext, LayoutAssumption, Zenon

LEMMA IInvAlways == SameCpu /\ Spec => []IInv
<1>1. Init => IInv
  BY CallsInit, A!InvInit, LayoutAssumption, Zenon DEF IInv
<1>2. CASE SameCpu
  <2>1. IInv /\ [Next]_vars => IInv'
    BY <1>2, IInvNext, Zenon
  <2> QED BY <1>1, <2>1, PTL DEF Spec
<1> QED BY <1>2, Zenon

(* malloc, dma_malloc, palloc and their frees of the tasks of one CPU      *)
(* implement Heap: each call takes effect at once, whatever task switches  *)
(* fall into it, until a pointer passes 2^32.                              *)
THEOREM CallsImplementHeap == SameCpu /\ Spec /\ [](wrapped = {}) => CallsAreAtomic
<1>1. CASE SameCpu
  <2>1. IInv /\ [Next]_vars /\ wrapped = {} /\ (wrapped = {})' => [Abstract!Next]_(Abstract!vars)
    BY <1>1, StepRefines, SameSteps, Zenon DEF IInv
  <2>2. Init => Abstract!Init
    BY CallsInit, Zenon
  <2>3. Spec => []IInv
    BY <1>1, IInvAlways, Zenon
  <2> QED BY <2>1, <2>2, <2>3, PTL DEF Spec, CallsAreAtomic, Abstract!Spec
<1> QED BY <1>1, Zenon

(* No two callers on one CPU own memory that overlaps, and no block is in  *)
(* two calls or in a call and in use.                                      *)
THEOREM OwnersApart == SameCpu /\ Spec => []LiveDisjoint
<1>1. ASSUME Calls, A!Inv, wrapped = {} PROVE Disjoint(Owned)
  <2>1. A!HeapDisjoint
    BY <1>1, A!InvApart, LayoutAssumption, Zenon
  <2>2. \A b, c \in Owned : b # c => A!Apart(b, c)
    BY <1>1, <2>1, Zenon DEF A!HeapDisjoint, A!Disjoint, A!Blocks
  <2> QED BY <2>2, SameLayout, Zenon DEF Disjoint, A!Apart, Apart, A!End, End
<1>2. IInv => LiveDisjoint
  BY <1>1, Zenon DEF IInv, LiveDisjoint, Calls, OneOwner
<1> QED BY <1>2, IInvAlways, PTL

(* No block is lost or doubled by the tasks of one CPU: what was carved    *)
(* off is owned once, or reached once along the list of its bucket.        *)
THEOREM BlocksAccounted == SameCpu /\ Spec => []Accounted
<1>1. Calls => {b.addr : b \in Owned \cup FreeBlocks} = DOMAIN pNext
  BY DEF Calls, OneOwner
<1>2. IInv => Accounted
  BY <1>1, Zenon DEF IInv, Accounted, Calls, OneOwner
<1> QED BY <1>2, IInvAlways, PTL

(* Every block of a caller lies in its arena.                              *)
THEOREM OwnedInArena == SameCpu /\ Spec => []LiveInArena
<1>1. ASSUME A!Inv, wrapped = {} PROVE InArena(Owned)
  BY <1>1, SameLayout, Zenon DEF A!Inv, A!Placed, A!Blocks, InArena, A!End, End
<1>2. IInv => LiveInArena
  BY <1>1, Zenon DEF IInv, LiveInArena
<1> QED BY <1>2, IInvAlways, PTL

=============================================================================
