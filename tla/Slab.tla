--------------------------------- MODULE Slab -------------------------------
(***************************************************************************)
(* kern/mm/slb.c and kern/mm/kmemory_manage.c: kernel objects cut from     *)
(* pools of pages, one cache (slb_t) for each pair of alignment and size,  *)
(* and kmalloc on top of them.  The descriptors of the caches are objects  *)
(* of the first cache themselves.                                          *)
(*                                                                         *)
(* Addresses are bytes.  A free object holds nothing but its link, so a    *)
(* free list is the sequence of its addresses.  A call runs to its end     *)
(* before the next one: nothing preempts the kernel.                       *)
(***************************************************************************)
EXTENDS Naturals, FiniteSets, SequencesExt, FiniteSetsExt

CONSTANTS PageSize,   \* 4096 in the code
          PoolObjs,   \* the objects a new pool is sized for: 10 in the code
          NPages,     \* the pages of the page allocator
          Requests,   \* <<size, align>> of the calls of slb_alloc_align
          Lengths,    \* the lengths passed to kmalloc
          MaxHeld     \* bound: the objects that callers hold at once

POOL_T == 16          \* sizeof(slb_pool_t)
SLB_T == 16           \* sizeof(slb_t)
OBJ_T == 4            \* sizeof(slb_obj_t)
WORD == 4             \* sizeof(u32)

Minimum(a, b) == IF a < b THEN a ELSE b
Maximum(a, b) == IF a > b THEN a ELSE b
RoundUp(n, m) == ((n + m - 1) \div m) * m

ASSUME PageSizeAssumption == PageSize \in Nat \ {0} /\ PageSize % WORD = 0
ASSUME PoolObjsAssumption == PoolObjs \in Nat \ {0}
ASSUME MaxHeldAssumption == MaxHeld \in Nat

VARIABLES
    caches,    \* from slb_head: [at, align, size, pools], at being the address
               \* of the slb_t; a pool is [base, size, free, inuse]
    pages,     \* the free pages of the page allocator
    hung,      \* pages_alloc found no room and stopped the kernel
    held,      \* history: the objects that callers hold
    lost       \* history: the objects that were given back and not taken

slab_vars == <<caches, pages, hung, held, lost>>

-----------------------------------------------------------------------------
(* Pools.                                                                  *)

\* pool_alloc: the bytes of a new pool.
PoolSize(osize) == RoundUp(osize * PoolObjs + POOL_T + 10, PageSize)

\* slb_init got its pool, and every new pool has room for an object that is
\* aligned behind its header: if not, slb_alloc_align would follow NULL.
ASSUME NPagesAssumption == NPages \in Nat /\ PoolSize(SLB_T) <= NPages * PageSize
ASSUME RequestsAssumption ==
    \A r \in Requests :
        /\ r = <<r[1], r[2]>>
        /\ r[1] \in Nat \ {0} /\ r[2] \in {0} \cup {2^n : n \in 0..30}
        /\ POOL_T + r[2] + Maximum(r[1], OBJ_T) <= PoolSize(Maximum(r[1], OBJ_T))

\* Mutant of SegmStep: objects follow each other at the alignment.
SegmStepAlign(osize, align) == align

\* pool_segm: the distance of one candidate object to the next.
SegmStep(osize, align) == Maximum(osize, align)

\* pool_segm: the objects of a pool.
Segm(base, psize, osize, align) ==
    LET first == RoundUp(base + POOL_T, align)
    IN  {i \in first..(base + psize - osize) :
            (i - first) % SegmStep(osize, align) = 0 /\ i % align = 0}

\* Each object is linked in front of the ones below it.
Descending(S) ==
    [n \in 1..Cardinality(S) |->
        CHOOSE x \in S : Cardinality({y \in S : y > x}) = n - 1]

NewPool(base, osize, align) ==
    LET psize == PoolSize(osize)
    IN  [base |-> base, size |-> psize, inuse |-> 0,
         free |-> Descending(Segm(base, psize, osize, align))]

\* The pages that a block of bytes occupies.
Span(base, bytes) ==
    (base \div PageSize)..((base + bytes - 1) \div PageSize)

\* pages_alloc(psize): the first block of pages that is long enough, if any.
Blocks(pg, bytes) ==
    LET fits == {m \in pg : Span(m * PageSize, bytes) \subseteq pg}
    IN  IF fits = {} THEN {} ELSE {Min(fits) * PageSize}

-----------------------------------------------------------------------------
(* slb_alloc_align.                                                        *)

\* The cache that serves a request.
AllocKey(size, align) ==
    [align |-> IF align = 0 THEN Minimum(size, 4) ELSE align,
     size |-> Maximum(size, OBJ_T)]

\* The first cache with this key, 0 for none.
Find(cs, key) ==
    LET hits == {k \in DOMAIN cs : cs[k].align = key.align /\ cs[k].size = key.size}
    IN  IF hits = {} THEN 0 ELSE Min(hits)

Taken(pool) == [pool EXCEPT !.free = Tail(@), !.inuse = @ + 1]

\* The first object of the first pool that has one.
Took(cs, pg, k) ==
    LET n == Min({m \in DOMAIN cs[k].pools : cs[k].pools[m].free # <<>>})
    IN  [obj |-> Head(cs[k].pools[n].free), pages |-> pg,
         caches |-> [cs EXCEPT ![k].pools[n] = Taken(@)]]

\* A new pool goes in front of the others.
Linked(pool, pools) == <<pool>> \o pools

\* The results of taking an object of cache k, with a new pool if all are empty.
Take(cs, pg, k) ==
    IF \E m \in DOMAIN cs[k].pools : cs[k].pools[m].free # <<>>
    THEN {Took(cs, pg, k)}
    ELSE {Took([cs EXCEPT ![k].pools =
                   Linked(NewPool(b, cs[k].size, cs[k].align), @)],
               pg \ Span(b, PoolSize(cs[k].size)), k) :
             b \in Blocks(pg, PoolSize(cs[k].size))}

\* The results of a call; none if pages_alloc stops in the middle of it.  The
\* first request with a new key takes a descriptor, by slb_alloc(sizeof(slb_t)).
Alloc(cs, pg, key) ==
    IF Find(cs, key) # 0 THEN Take(cs, pg, Find(cs, key))
    ELSE UNION {
           {Took(<<[at |-> d.obj, align |-> key.align, size |-> key.size,
                    pools |-> <<NewPool(b, key.size, key.align)>>]>> \o d.caches,
                 d.pages \ Span(b, PoolSize(key.size)), 1) :
               b \in Blocks(d.pages, PoolSize(key.size))} :
           d \in Take(cs, pg, Find(cs, AllocKey(SLB_T, 0)))}

-----------------------------------------------------------------------------
(* slb_free_align.                                                         *)

\* The cache in which an object is looked for when it is given back.
FreeKey(size, align) ==
    [align |-> IF align = 0 /\ size <= 4 THEN size ELSE align, size |-> size]

\* The pool of cache k that contains address p, 0 for none.
PoolOf(cs, k, p) ==
    LET hits == IF k = 0 THEN {}
                ELSE {n \in DOMAIN cs[k].pools :
                         LET q == cs[k].pools[n]
                         IN  q.base <= p /\ p < q.base + q.size}
    IN  IF hits = {} THEN 0 ELSE Min(hits)

\* Mutant of Returned: the object is not counted out.
ReturnedUncounted(pool, p) == [pool EXCEPT !.free = <<p>> \o @]

Returned(pool, p) == [pool EXCEPT !.free = <<p>> \o @, !.inuse = @ - 1]

-----------------------------------------------------------------------------
(* kmalloc.                                                                *)

\* up_bound: the length and a word for it, up to a power of two.
Bounds(n) == {m \in {2^k : k \in 0..30} : m >= n + WORD /\ m < 2 * (n + WORD)}
UpBound(n) == CHOOSE m \in Bounds(n) : TRUE

\* Nothing is asked for that has no such bound in 32 bits.
ASSUME LengthsAssumption == \A n \in Lengths : n \in Nat /\ Bounds(n) # {}

-----------------------------------------------------------------------------
(* The calls.                                                              *)

\* Mutant of FirstFree: the object that becomes the first slb_t stays listed.
FirstFreeAll(pool) == pool

\* slb_init takes the first object by hand, without counting it.
FirstFree(pool) == [pool EXCEPT !.free = Tail(@)]

\* slb_init; its pool is cut without regard to an alignment.
SlabInit ==
    LET base == PageSize
        pool == NewPool(base, SLB_T, 1)
    IN  /\ caches = <<[at |-> Head(pool.free), align |-> Minimum(4, SLB_T),
                       size |-> Maximum(SLB_T, OBJ_T),
                       pools |-> <<FirstFree(pool)>>]>>
        /\ pages = (1..NPages) \ Span(base, PoolSize(SLB_T))
        /\ hung = FALSE
        /\ held = {}
        /\ lost = {}

\* What the caller remembers: the object, and what to pass when it frees it.
Hold(r, api, len, align) ==
    /\ caches' = r.caches
    /\ pages' = r.pages
    /\ held' = held \cup {[obj |-> r.obj, api |-> api, len |-> len, align |-> align]}
    /\ UNCHANGED <<hung, lost>>

SlbAlloc ==
    /\ ~hung /\ Cardinality(held) < MaxHeld
    /\ \E q \in Requests : \E r \in Alloc(caches, pages, AllocKey(q[1], q[2])) :
          Hold(r, "slb", q[1], q[2])

Kmalloc ==
    /\ ~hung /\ Cardinality(held) < MaxHeld
    /\ \E n \in Lengths : \E r \in Alloc(caches, pages, AllocKey(UpBound(n), 0)) :
          Hold(r, "kmalloc", n, 0)

\* No block of pages is long enough, for the pool or for the descriptor's.
SlabHang ==
    /\ ~hung /\ Cardinality(held) < MaxHeld
    /\ \/ \E q \in Requests : Alloc(caches, pages, AllocKey(q[1], q[2])) = {}
       \/ \E n \in Lengths : Alloc(caches, pages, AllocKey(UpBound(n), 0)) = {}
    /\ hung' = TRUE
    /\ UNCHANGED <<caches, pages, held, lost>>

\* The object goes back to its pool, or the call returns 1 and it is lost.
GiveBack(h, size, align) ==
    LET k == Find(caches, FreeKey(size, align))
        n == PoolOf(caches, k, h.obj)
    IN  /\ held' = held \ {h}
        /\ IF n # 0
           THEN /\ caches' = [caches EXCEPT ![k].pools[n] = Returned(@, h.obj)]
                /\ UNCHANGED lost
           ELSE /\ lost' = lost \cup {h.obj}
                /\ UNCHANGED caches
        /\ UNCHANGED <<pages, hung>>

SlbFree ==
    /\ ~hung
    /\ \E h \in held : h.api = "slb" /\ GiveBack(h, h.len, h.align)

\* kmfree finds the length in front of the block.
Kmfree ==
    /\ ~hung
    /\ \E h \in held : h.api = "kmalloc" /\ GiveBack(h, UpBound(h.len), 0)

SlabNext == SlbAlloc \/ Kmalloc \/ SlabHang \/ SlbFree \/ Kmfree

SlabSpec == SlabInit /\ [][SlabNext]_slab_vars

-----------------------------------------------------------------------------
(* Properties.                                                             *)

PoolsIn(cs) == UNION {{[pool |-> c.pools[n], align |-> c.align, size |-> c.size] :
                          n \in DOMAIN c.pools} : c \in ToSet(cs)}
Pools == PoolsIn(caches)
Listed == UNION {ToSet(x.pool.free) : x \in Pools}
Descriptors == {c.at : c \in ToSet(caches)}
HeldObjs == {h.obj : h \in held}

SlabTypeOK ==
    /\ \A c \in ToSet(caches) :
          /\ {c.at, c.align, c.size} \subseteq Nat
          /\ \A n \in DOMAIN c.pools :
                /\ {c.pools[n].base, c.pools[n].size, c.pools[n].inuse} \subseteq Nat
                /\ ToSet(c.pools[n].free) \subseteq Nat
    /\ pages \subseteq 1..NPages
    /\ hung \in BOOLEAN
    /\ \A h \in held : h.obj \in Nat /\ h.api \in {"slb", "kmalloc"}
    /\ lost \subseteq Nat

\* The bytes that somebody writes: a free object its link, a caller what it
\* asked for (kmalloc a word more), the slab its descriptors and pool headers.
Extents ==
    {<<o, o + OBJ_T>> : o \in Listed}
    \cup {<<h.obj, h.obj + h.len + (IF h.api = "slb" THEN 0 ELSE WORD)>> : h \in held}
    \cup {<<d, d + SLB_T>> : d \in Descriptors}
    \cup {<<x.pool.base, x.pool.base + POOL_T>> : x \in Pools}

\* However pools of different sizes, descriptors and alignments are cut and
\* recycled, no two pieces of memory in use overlap, and what a caller holds
\* lies in one pool and at its alignment (pool_segm, slb.c:137-159, up_bound).
ExtentsApart ==
    /\ \A e, f \in Extents : e = f \/ e[2] <= f[1] \/ f[2] <= e[1]
    /\ \A h \in held : h.align # 0 => h.obj % h.align = 0
    /\ \A h \in held : \E x \in Pools :
          /\ x.pool.base + POOL_T <= h.obj
          /\ h.obj + h.len <= x.pool.base + x.pool.size

\* An object is on one free list, with one caller, a descriptor or lost (out for
\* good, since the free was refused): no call hands out what is in use (slb_alloc_align, slb.c:41-42, slb_init).
OneOwner ==
    /\ \A x, y \in Pools : x = y \/ ToSet(x.pool.free) \cap ToSet(y.pool.free) = {}
    /\ \A x \in Pools : IsInjective(x.pool.free)
    /\ Cardinality(held) = Cardinality(HeldObjs)
    /\ Listed \cap (HeldObjs \cup Descriptors \cup lost) = {}
    /\ HeldObjs \cap (Descriptors \cup lost) = {}
    /\ Descriptors \cap lost = {}
    /\ Cardinality(Descriptors) = Len(caches)

\* cnt_inuse counts the objects of a pool that are out, the first descriptor
\* apart, so that a pool that counts 0 may go (slb.c:43, 91, 101-105).
InUseCounts ==
    \A x \in Pools :
        LET out == {o \in HeldObjs \cup Descriptors \cup lost :
                       x.pool.base <= o /\ o < x.pool.base + x.pool.size}
        IN  x.pool.inuse = Cardinality(out \ {caches[Len(caches)].at})

\* The pages taken from the page allocator are exactly those of the pools in
\* the lists: none is in two pools, none is forgotten (slb.c:36-39, 57-64).
PagesAccounted ==
    /\ pages \cap UNION {Span(x.pool.base, x.pool.size) : x \in Pools} = {}
    /\ pages \cup UNION {Span(x.pool.base, x.pool.size) : x \in Pools} = 1..NPages
    /\ \A x, y \in Pools :
          x.pool.base = y.pool.base
          \/ Span(x.pool.base, x.pool.size) \cap Span(y.pool.base, y.pool.size) = {}

\* Both counts, of objects and of pages, are exact: a pool whose count is 0 has
\* nothing in it that is out, and each page is free or in one pool.  An object
\* that slb_free_align refuses stays counted as out: see NothingLost.
CountsExact == SlabTypeOK /\ InUseCounts /\ PagesAccounted

\* What is not so: what is given back can be handed out again.
\* doc/arm-report-ypj/arm_report.tex:141: "use slb_free(p, osize) or
\* slb_free_align(p, osize, align) to free the memory".  An object that was asked
\* for without alignment is allocated at 4 and looked up at 0.
NothingLost == lost = {}
=============================================================================
