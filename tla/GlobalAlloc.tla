---------------------------- MODULE GlobalAlloc -----------------------------
(***************************************************************************)
(* axalloc: the byte allocator, slabs over a buddy heap (SlabSizes = {} is *)
(* the buddy heap alone), is given more pages by the page allocator, a     *)
(* bitmap, when it has no memory. Memory is counted in the smallest block. *)
(* bitmap_allocator and buddy_system_allocator are external.               *)
(***************************************************************************)
EXTENDS Integers, Sequences, FiniteSets

CONSTANTS PAGE_SIZE, SlabSizes, SET_SIZE,
          HEAP_PAGES,       \* MIN_HEAP_SIZE in pages
          Base, Pages,      \* the first page of the region, and their number
          Layouts,          \* sizes and alignments asked for
          PageRequests,     \* numbers of pages and alignments asked for
          Extra,            \* the start and the size of the region added later
          CTRL_BLK_SIZE,
          MaxHeld,          \* bound: allocations held at a time
          NONE

VARIABLES bits, used_pages, \* the free pages of the bitmap
          blocks, heapTotal, heapUsed,   \* the free blocks of the buddy heap
          slabs,            \* the free list and total_blocks of each slab
          wanted,           \* the layout alloc loops for, holding balloc
          allocs, ranges,   \* what callers hold: bytes and pages
          leaked,           \* history: pages given back and not free again
          added

vars == <<bits, used_pages, blocks, heapTotal, heapUsed, slabs, wanted, allocs, ranges, leaked, added>>

Powers == {2^k : k \in 0..6}
next_power_of_two(n) == CHOOSE p \in Powers : p >= n /\ \A r \in Powers : r >= n => p <= r
Larger(a, b) == IF a > b THEN a ELSE b
Span(a, n) == a..(a + n - 1)

-----------------------------------------------------------------------------
\* The bitmap: the first run of free pages that is aligned in the bitmap.
BitmapRun(n, align) ==
    {i \in 0..(Pages - n) : i % align = 0 /\ Span(i, n) \subseteq bits}
Least(S) == CHOOSE i \in S : \A j \in S : i <= j

\* alloc_pages: a single page is any free one.
PagesFor(n, align) ==
    IF n < 1 \/ align % PAGE_SIZE # 0 \/ (align \div PAGE_SIZE) \notin Powers THEN {}
    ELSE IF n = 1 THEN bits
    ELSE BitmapRun(n, align \div PAGE_SIZE)

AddrOf(i) == (Base + i) * PAGE_SIZE

-----------------------------------------------------------------------------
\* The buddy heap: blocks of powers of two, aligned to their size.
BlockSize(layout) == Larger(next_power_of_two(layout.size), layout.align)

\* add_to_heap: from the start, the largest block that is aligned and fits.
RECURSIVE Carve(_, _)
Carve(start, end) ==
    IF start >= end THEN {}
    ELSE LET n == CHOOSE p \in Powers :
                    LET fits(r) == start % r = 0 /\ start + r <= end
                    IN  fits(p) /\ \A r \in Powers : fits(r) => r <= p
         IN  {<<start, n>>} \cup Carve(start + n, end)

\* Halves of block b down to size n, without the block of size n at its start.
RECURSIVE Split(_, _)
Split(b, n) ==
    IF b[2] = n THEN {}
    ELSE {<<b[1] + (b[2] \div 2), b[2] \div 2>>} \cup Split(<<b[1], b[2] \div 2>>, n)

\* dealloc: a block and its free buddy become one block.
RECURSIVE Merge(_, _)
Merge(free, b) ==
    LET buddy == <<IF (b[1] \div b[2]) % 2 = 0 THEN b[1] + b[2] ELSE b[1] - b[2], b[2]>>
    IN  IF buddy \in free
        THEN Merge(free \ {buddy}, <<IF b[1] < buddy[1] THEN b[1] ELSE buddy[1], 2 * b[2]>>)
        ELSE free \cup {b}

\* The free block the heap takes for n: of the smallest class that has one.
BlockFor(n) ==
    LET fit == {b \in blocks : b[2] >= n}
    IN  IF fit = {} THEN NONE
        ELSE CHOOSE b \in fit : \A c \in fit : b[2] < c[2] \/ (b[2] = c[2] /\ b[1] <= c[1])

HeapTake(n) ==
    LET b == BlockFor(n)
    IN  /\ blocks' = (blocks \ {b}) \cup Split(b, n)
        /\ heapUsed' = heapUsed + n

-----------------------------------------------------------------------------

\* layout_to_allocator: the smallest slab that fits, the largest slab for what
\* is small with a larger alignment, NONE for the buddy heap.
layout_to_allocator(layout) ==
    LET fit == {s \in SlabSizes : layout.size <= s /\ layout.align <= s}
        largest == CHOOSE s \in SlabSizes : \A r \in SlabSizes : r <= s
    IN  IF SlabSizes = {} \/ layout.size > largest THEN NONE
        ELSE IF fit = {} THEN largest ELSE Least(fit)

\* Slab::grow: the new blocks go before the old ones, the last one first.
Grow(slab, size, start) ==
    [free |-> [i \in 1..SET_SIZE |-> start + (SET_SIZE - i) * size] \o slab.free,
     total |-> slab.total + SET_SIZE]

\* The list of free blocks: Slab::deallocate puts one first, allocate takes it.
Push(slab, a) == [slab EXCEPT !.free = <<a>> \o @]
Pop(slab) == [slab EXCEPT !.free = Tail(@)]

RECURSIVE SumOver(_, _)
SumOver(f, S) == IF S = {} THEN 0 ELSE LET s == CHOOSE s \in S : TRUE IN f[s] + SumOver(f, S \ {s})

\* Blocks of slabs are counted in the slab and in the heap they came from.
total_bytes == heapTotal + SumOver([s \in SlabSizes |-> slabs[s].total * s], SlabSizes)
used_bytes ==
    heapUsed + SumOver([s \in SlabSizes |-> (slabs[s].total - Len(slabs[s].free)) * s], SlabSizes)
available_bytes == total_bytes - used_bytes
available_pages == Pages - used_pages

-----------------------------------------------------------------------------
\* init: the first pages of the region are the byte heap.
Init ==
    /\ bits = Span(HEAP_PAGES, Pages - HEAP_PAGES) /\ used_pages = HEAP_PAGES
    /\ blocks = Carve(AddrOf(0), AddrOf(HEAP_PAGES)) /\ heapTotal = HEAP_PAGES * PAGE_SIZE
    /\ heapUsed = 0 /\ slabs = [s \in SlabSizes |-> [free |-> << >>, total |-> 0]]
    /\ wanted = NONE /\ allocs = {} /\ ranges = {} /\ leaked = {} /\ added = FALSE

Begin(layout) ==
    /\ wanted = NONE /\ Cardinality(allocs) < MaxHeld /\ wanted' = layout
    /\ UNCHANGED <<bits, used_pages, blocks, heapTotal, heapUsed, slabs, allocs, ranges, leaked, added>>

\* alloc of GlobalAllocator, and malloc, which stores the size before the block.
alloc == \E layout \in Layouts : Begin([layout EXCEPT !.header = FALSE])
malloc == \E layout \in Layouts :
              Begin([size |-> layout.size + CTRL_BLK_SIZE, align |-> 1, header |-> TRUE])

Held(a) == [addr |-> a, size |-> wanted.size, align |-> wanted.align, header |-> wanted.header]
Served(a) == allocs' = allocs \cup {Held(a)} /\ wanted' = NONE

\* The byte allocator has memory: a block of the slab, of a slab that grows, or
\* of the heap.
FromSlab ==
    LET s == layout_to_allocator(wanted)
    IN  /\ wanted # NONE /\ s # NONE /\ slabs[s].free # << >>
        /\ Served(Head(slabs[s].free)) /\ slabs' = [slabs EXCEPT ![s] = Pop(@)]
        /\ UNCHANGED <<bits, used_pages, blocks, heapTotal, heapUsed, ranges, leaked, added>>

SetSize(s) == Larger(next_power_of_two(SET_SIZE * s), PAGE_SIZE)

FromGrown ==
    LET s == layout_to_allocator(wanted)
    IN  /\ wanted # NONE /\ s # NONE /\ slabs[s].free = << >> /\ BlockFor(SetSize(s)) # NONE
        /\ LET grown == Grow(slabs[s], s, BlockFor(SetSize(s))[1])
           IN  Served(Head(grown.free)) /\ slabs' = [slabs EXCEPT ![s] = Pop(grown)]
        /\ HeapTake(SetSize(s))
        /\ UNCHANGED <<bits, used_pages, heapTotal, ranges, leaked, added>>

FromHeap ==
    LET n == BlockSize(wanted)
    IN  /\ wanted # NONE /\ layout_to_allocator(wanted) = NONE /\ BlockFor(n) # NONE
        /\ Served(BlockFor(n)[1]) /\ HeapTake(n)
        /\ UNCHANGED <<bits, used_pages, heapTotal, slabs, ranges, leaked, added>>

\* Heap::allocate.
allocate == FromSlab \/ FromGrown \/ FromHeap

NoMemory ==
    /\ wanted # NONE
    /\ LET s == layout_to_allocator(wanted)
       IN  IF s = NONE THEN BlockFor(BlockSize(wanted)) = NONE
           ELSE slabs[s].free = << >> /\ BlockFor(SetSize(s)) = NONE

expand_pages ==
    Larger(next_power_of_two(Larger(total_bytes, wanted.size)), PAGE_SIZE) \div PAGE_SIZE

\* add_memory of the byte allocator.
AddToHeap(start, size) ==
    blocks' = blocks \cup Carve(start, start + size) /\ heapTotal' = heapTotal + size

\* The byte allocator has none: it is given pages, and is asked again.
Expand ==
    /\ NoMemory
    /\ \E i \in PagesFor(expand_pages, PAGE_SIZE) :
          /\ i = Least(PagesFor(expand_pages, PAGE_SIZE))
          /\ bits' = bits \ Span(i, expand_pages) /\ used_pages' = used_pages + expand_pages
          /\ AddToHeap(AddrOf(i), expand_pages * PAGE_SIZE)
    /\ UNCHANGED <<heapUsed, slabs, wanted, allocs, ranges, leaked, added>>

\* There are no pages either: the allocation fails.
Fail ==
    /\ NoMemory /\ PagesFor(expand_pages, PAGE_SIZE) = {} /\ wanted' = NONE
    /\ UNCHANGED <<bits, used_pages, blocks, heapTotal, heapUsed, slabs, allocs, ranges, leaked, added>>

\* Heap::deallocate, to slab s or to the heap for NONE.
GiveTo(s, a) ==
    IF s # NONE
    THEN slabs' = [slabs EXCEPT ![s] = Push(@, a.addr)] /\ UNCHANGED <<blocks, heapUsed>>
    ELSE /\ blocks' = Merge(blocks, <<a.addr, BlockSize(a)>>)
         /\ heapUsed' = heapUsed - BlockSize(a) /\ UNCHANGED slabs

deallocate(a) == GiveTo(layout_to_allocator(a), a)

\* dealloc, and free, which takes the layout from the size malloc has stored.
Release(a) ==
    /\ wanted = NONE /\ allocs' = allocs \ {a} /\ deallocate(a)
    /\ UNCHANGED <<bits, used_pages, heapTotal, wanted, ranges, leaked, added>>
dealloc(a) == ~a.header /\ Release(a)
free(a) == a.header /\ Release(a)

\* alloc_pages, also while alloc loops: it takes palloc alone.
alloc_pages(r) ==
    /\ PagesFor(r.n, r.align) # {}
    /\ LET i == Least(PagesFor(r.n, r.align))
       IN  /\ bits' = bits \ Span(i, r.n)
           /\ ranges' = ranges \cup {[pos |-> AddrOf(i), n |-> r.n, align |-> r.align]}
    /\ used_pages' = used_pages + r.n
    /\ UNCHANGED <<blocks, heapTotal, heapUsed, slabs, wanted, allocs, leaked, added>>

\* GlobalPage::alloc and alloc_contiguous.
page_alloc(r) == r.n = 1 /\ alloc_pages(r)
page_alloc_contiguous(r) == r.n > 1 /\ alloc_pages(r)

PageIndex(pos) == (pos \div PAGE_SIZE) - Base

\* dealloc_pages clears the bit of the first page only.
dealloc_pages(r) ==
    /\ bits' = bits \cup {PageIndex(r.pos)} /\ leaked' = leaked \cup Span(PageIndex(r.pos) + 1, r.n - 1)
    /\ ranges' = ranges \ {r} /\ used_pages' = used_pages - r.n
    /\ UNCHANGED <<blocks, heapTotal, heapUsed, slabs, wanted, allocs, added>>

\* Drop of GlobalPage.
page_drop(r) == dealloc_pages(r)

\* add_memory of GlobalAllocator.
add_memory ==
    /\ ~added /\ added' = TRUE /\ wanted = NONE /\ AddToHeap(Extra[1], Extra[2])
    /\ UNCHANGED <<bits, used_pages, heapUsed, slabs, wanted, allocs, ranges, leaked>>

Next ==
    \/ alloc \/ malloc \/ allocate \/ Expand \/ Fail \/ add_memory
    \/ \E a \in allocs : dealloc(a) \/ free(a)
    \/ \E r \in PageRequests : page_alloc(r) \/ page_alloc_contiguous(r)
    \/ \E r \in ranges : page_drop(r)

-----------------------------------------------------------------------------
\* The memory of a caller's block: all of the slab's block.
Extent(a) ==
    LET s == layout_to_allocator(a)
    IN  Span(a.addr, IF s = NONE THEN BlockSize(a) ELSE s)

PageSpan(i, n) == Span(AddrOf(i), n * PAGE_SIZE)

\* The places a unit of memory can be in, each with its own units.
Places ==
    {<<"block", b[1], Span(b[1], b[2])>> : b \in blocks}
    \cup {<<"held", a.addr, Extent(a)>> : a \in allocs}
    \cup {<<"range", r.pos, Span(r.pos, r.n * PAGE_SIZE)>> : r \in ranges}
    \cup {<<"page", i, PageSpan(i, 1)>> : i \in bits}
    \cup UNION {{<<"slab", i, Span(slabs[s].free[i], s)>> : i \in DOMAIN slabs[s].free} : s \in SlabSizes}

\* No unit of memory is free twice, held by two callers, or free and held,
\* whatever calls of several tasks came before. The byte allocator loses
\* nothing, and available_bytes is what is free in it, though its two terms
\* count slabs twice. The page allocator loses what dealloc_pages leaves set in
\* the bitmap, the pages after the first of a range, and nothing else: these
\* are never handed out again, while available_pages goes on counting them.
MemoryConserved ==
    LET lost == UNION {PageSpan(i, 1) : i \in leaked}
    IN  /\ \A p, r \in Places : p = r \/ p[3] \cap r[3] = {}
        /\ UNION {p[3] : p \in Places}
             = (PageSpan(0, Pages) \ lost) \cup (IF added THEN Span(Extra[1], Extra[2]) ELSE {})
        /\ available_bytes =
             Cardinality(UNION {p[3] : p \in {r \in Places : r[1] \in {"block", "slab"}}})
        /\ available_pages = Cardinality(bits) + Cardinality(leaked)

\* A caller gets at least the memory it asked for. A block is aligned as asked
\* for; several pages are aligned as asked for from the start of the region,
\* and a single page to a page only (alloc_pages drops the alignment then).
LayoutsHonoured ==
    /\ \A a \in allocs : a.addr % a.align = 0 /\ Cardinality(Extent(a)) >= a.size
    /\ \A r \in ranges : (r.pos - AddrOf(0)) % (IF r.n = 1 THEN PAGE_SIZE ELSE r.align) = 0

\* axalloc lib.rs:149, "Gives back the allocated pages": none is lost. The
\* code frees one bit for any number of pages, so this fails.
PagesGivenBack == leaked = {}
=============================================================================
