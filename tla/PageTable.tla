----------------------------- MODULE PageTable ------------------------------
(***************************************************************************)
(* PageTable64 of crates/page_table: page tables of three or four levels   *)
(* in frames that are allocated one by one. Addresses are in units of the  *)
(* smallest page, a page of level l has ENTRY_COUNT^l of them. The entries *)
(* are those of crates/page_table_entry for the three architectures: an    *)
(* entry is the set of the bits it has set and the frame its address bits  *)
(* hold. Addresses are aligned as crates/memory_addr does.                 *)
(***************************************************************************)
EXTENDS Naturals, Sequences, FiniteSetsExt, TLC

CONSTANTS Arch,             \* the architectures
          ENTRY_COUNT,
          Frames,           \* the frames for tables: 1..n
          VirtAddrs, PhysAddrs, RegionSizes, FlagSets,
          USIZE_BITS,       \* 64 in the code
          UpdateUnmapped,   \* update is called where nothing is mapped
          MaxMapped         \* bound: no more is mapped once as many pages are

VARIABLES arch,
          pt,               \* the tables by frame, and intrm_tables
          mapped            \* the addresses the calls mapped, with frame and flags

vars == <<arch, pt, mapped>>

-----------------------------------------------------------------------------
\* memory_addr: numbers of USIZE_BITS bits, and alignments that are powers of
\* two. Addresses are usize; a sum or difference wraps in a release build.
Usize == 0 .. 2^USIZE_BITS - 1
BitsOf(a) == {i \in 0..USIZE_BITS - 1 : (a \div 2^i) % 2 = 1}
NumberOf(S) == SumSet({2^i : i \in S})
add(a, n) == (a + n) % 2^USIZE_BITS
VirtAdd(a, n) == (a + n) % 2^USIZE_BITS
sub(a, n) == (a + 2^USIZE_BITS - n) % 2^USIZE_BITS

\* addr & !(align - 1), and the others.
align_down(addr, align) == NumberOf(BitsOf(addr) \ BitsOf(sub(align, 1)))
align_up(addr, align) == NumberOf(BitsOf(sub(add(addr, align), 1)) \ BitsOf(sub(align, 1)))
align_offset(addr, align) == NumberOf(BitsOf(addr) \cap BitsOf(sub(align, 1)))
is_aligned(addr, align) == align_offset(addr, align) = 0

\* The methods of the two types; those with 4k in their names are the same at
\* the smallest page.
PhysAddr(a, method, align) ==
    CASE method = "align_down" -> align_down(a, align) [] method = "align_up" -> align_up(a, align)
      [] method = "align_offset" -> align_offset(a, align) [] method = "is_aligned" -> is_aligned(a, align)
VirtAddr(a, method, align) ==
    CASE method = "align_down" -> align_down(a, align) [] method = "align_up" -> align_up(a, align)
      [] method = "align_offset" -> align_offset(a, align) [] method = "is_aligned" -> is_aligned(a, align)

\* The bit b, if the condition holds.
Bit(b, cond) == IF cond THEN {b} ELSE {}

\* From<MappingFlags> for PTF.
X64Bits(f) ==
    IF f = {} THEN {}
    ELSE {"PRESENT"} \cup Bit("WRITABLE", "WRITE" \in f) \cup Bit("NO_EXECUTE", "EXECUTE" \notin f)
         \cup Bit("USER_ACCESSIBLE", "USER" \in f)
         \cup (IF f \cap {"DEVICE", "UNCACHED"} # {} THEN {"NO_CACHE", "WRITE_THROUGH"} ELSE {})

\* From<PTF> for MappingFlags.
X64Flags(b) ==
    IF b = {} THEN {}
    ELSE {"READ"} \cup Bit("WRITE", "WRITABLE" \in b) \cup Bit("EXECUTE", "NO_EXECUTE" \notin b)
         \cup Bit("USER", "USER_ACCESSIBLE" \in b) \cup Bit("UNCACHED", "NO_CACHE" \in b)

\* From<MappingFlags> for PTEFlags, and back.
Rv64Bits(f) ==
    IF f = {} THEN {}
    ELSE {"V"} \cup Bit("R", "READ" \in f) \cup Bit("W", "WRITE" \in f)
         \cup Bit("X", "EXECUTE" \in f) \cup Bit("U", "USER" \in f)
Rv64Flags(b) ==
    Bit("READ", "R" \in b) \cup Bit("WRITE", "W" \in b) \cup Bit("EXECUTE", "X" \in b)
    \cup Bit("USER", "U" \in b)

\* The attribute index and the shareability of from_mem_attr; index 0, which
\* has no bits, is device memory.
MemAttr(f) ==
    IF "DEVICE" \in f THEN {}
    ELSE {"INNER", "SHAREABLE", IF "UNCACHED" \in f THEN "NormalNonCacheable" ELSE "Normal"}

\* From<MappingFlags> for DescriptorAttr.
A64Bits(f) ==
    MemAttr(f) \cup Bit("VALID", "READ" \in f) \cup Bit("AP_RO", "WRITE" \notin f)
    \cup IF "USER" \in f THEN {"AP_EL0", "PXN"} \cup Bit("UXN", "EXECUTE" \notin f)
                         ELSE {"UXN"} \cup Bit("PXN", "EXECUTE" \notin f)

\* From<DescriptorAttr> for MappingFlags.
A64Flags(b) ==
    Bit("READ", "VALID" \in b) \cup Bit("WRITE", "AP_RO" \notin b) \cup Bit("USER", "AP_EL0" \in b)
    \cup Bit("EXECUTE", IF "AP_EL0" \in b THEN "UXN" \notin b ELSE "PXN" \notin b)
    \cup Bit("DEVICE", b \cap {"Normal", "NormalNonCacheable"} = {})
    \cup Bit("UNCACHED", "NormalNonCacheable" \in b)

Empty == [bits |-> {}, paddr |-> 0]

\* The bits of new_page and set_flags.
PageBits(f, huge) ==
    CASE arch = "x86_64" -> X64Bits(f) \cup Bit("HUGE_PAGE", huge)
      [] arch = "riscv64" -> Rv64Bits(f) \cup {"A", "D"}
      [] arch = "aarch64" -> A64Bits(f) \cup {"AF"} \cup Bit("NON_BLOCK", ~huge)

new_page(paddr, f, huge) == [bits |-> PageBits(f, huge), paddr |-> paddr]

set_paddr(e, paddr) == [e EXCEPT !.paddr = paddr]
set_flags(e, f, huge) == [e EXCEPT !.bits = PageBits(f, huge)]

new_table(paddr) ==
    [bits |-> CASE arch = "x86_64" -> {"PRESENT", "WRITABLE", "USER_ACCESSIBLE"}
                [] arch = "riscv64" -> {"V"}
                [] arch = "aarch64" -> {"NON_BLOCK", "VALID"},
     paddr |-> paddr]

flags(e) ==
    CASE arch = "x86_64" -> X64Flags(e.bits)
      [] arch = "riscv64" -> Rv64Flags(e.bits)
      [] arch = "aarch64" -> A64Flags(e.bits)

is_unused(e) == e = Empty
is_present(e) == e.bits \cap {"PRESENT", "V", "VALID"} # {}
is_huge(e) ==
    CASE arch = "x86_64" -> "HUGE_PAGE" \in e.bits
      [] arch = "riscv64" -> e.bits \cap {"R", "X"} # {}
      [] arch = "aarch64" -> "NON_BLOCK" \notin e.bits

-----------------------------------------------------------------------------
Level == 0..2
PageSize(l) == ENTRY_COUNT^l
LEVELS == IF arch = "riscv64" THEN 3 ELSE 4
Root == 1
Index(v, l) == (v \div PageSize(l)) % ENTRY_COUNT
AlignDown(a, l) == PhysAddr(a, "align_down", PageSize(l))

EmptyTable == [i \in 0..(ENTRY_COUNT - 1) |-> Empty]
Used(p) == {p.intrm_tables[i] : i \in DOMAIN p.intrm_tables}
Entry(p, at) == p.tables[at[1]][at[2]]
SetEntry(p, at, e) == [p EXCEPT !.tables[at[1]][at[2]] = e]

\* A result: the page table after the call, ok or the error, and a value.
Res(p, err, val) == [pt |-> p, err |-> err, val |-> val]

\* alloc_table: a frame, zeroed.
WithTable(p, f) ==
    Res([tables |-> [p.tables EXCEPT ![f] = EmptyTable], intrm_tables |-> Append(p.intrm_tables, f)], "ok", f)
alloc_table(p) ==
    IF Frames \subseteq Used(p) THEN Res(p, "NoMemory", 0)
    ELSE WithTable(p, CHOOSE f \in Frames \ Used(p) : \A g \in Frames \ Used(p) : f <= g)

next_table(p, e) ==
    CASE ~is_present(e) -> Res(p, "NotMapped", 0)
      [] is_present(e) /\ is_huge(e) -> Res(p, "MappedToHugePage", 0)
      [] OTHER -> Res(p, "ok", e.paddr)

Entered(r, at) == IF r.err # "ok" THEN r ELSE [r EXCEPT !.pt = SetEntry(@, at, new_table(r.val))]
next_table_or_create(p, at) ==
    IF ~is_unused(Entry(p, at)) THEN next_table(p, Entry(p, at)) ELSE Entered(alloc_table(p), at)

\* get_entry_mut from table t of level l: the place of the entry and its level.
\* Entries below the root level may be huge pages.
RECURSIVE GetEntry(_, _, _, _)
Through(p, v, next, l) == IF next.err # "ok" THEN next ELSE GetEntry(p, v, next.val, l - 1)
EntryAt(p, v, at, l) ==
    IF l = 0 \/ (l \in {1, 2} /\ is_huge(Entry(p, at))) THEN Res(p, "ok", <<at, l>>)
    ELSE Through(p, v, next_table(p, Entry(p, at)), l)
GetEntry(p, v, t, l) == EntryAt(p, v, <<t, Index(v, l)>>, l)
get_entry_mut(p, v) == GetEntry(p, v, Root, LEVELS - 1)

RECURSIVE GetOrCreate(_, _, _, _, _)
Created(next, v, l, target) ==
    IF next.err # "ok" THEN next ELSE GetOrCreate(next.pt, v, next.val, l - 1, target)
GetOrCreate(p, v, t, l, target) ==
    IF l = target THEN Res(p, "ok", <<t, Index(v, l)>>)
    ELSE Created(next_table_or_create(p, <<t, Index(v, l)>>), v, l, target)
get_entry_mut_or_create(p, v, l) == GetOrCreate(p, v, Root, LEVELS - 1, l)

MapAt(r, target, l, f) ==
    IF r.err # "ok" THEN r
    ELSE IF ~is_unused(Entry(r.pt, r.val)) THEN [r EXCEPT !.err = "AlreadyMapped"]
    ELSE [r EXCEPT !.pt = SetEntry(@, r.val, new_page(AlignDown(target, l), f, l > 0))]
map(p, v, target, l, f) == MapAt(get_entry_mut_or_create(p, v, l), target, l, f)

UnmapAt(p, r) ==
    IF r.err # "ok" THEN r
    ELSE IF is_unused(Entry(p, r.val[1])) THEN [r EXCEPT !.err = "NotMapped"]
    ELSE Res(SetEntry(p, r.val[1], Empty), "ok", r.val[2])
unmap(p, v) == UnmapAt(p, get_entry_mut(p, v))

Page(p, v, e, l) ==
    IF is_unused(e) THEN Res(p, "NotMapped", 0)
    ELSE Res(p, "ok", [paddr |-> add(e.paddr, VirtAddr(v, "align_offset", PageSize(l))),
                       flags |-> flags(e), level |-> l])
QueryAt(p, v, r) == IF r.err # "ok" THEN r ELSE Page(p, v, Entry(p, r.val[1]), r.val[2])
query(p, v) == QueryAt(p, v, get_entry_mut(p, v))

\* update: each argument is an Option, and what is None stays as it was. The
\* entry found is not looked at.
None == << >>
Some(x) == <<x>>
Option(S) == {None} \cup {Some(x) : x \in S}
Retargeted(e, target) == IF target = None THEN e ELSE set_paddr(e, target[1])
Reflagged(e, f, huge) == IF f = None THEN e ELSE set_flags(e, f[1], huge)
UpdateAt(p, r, target, f) ==
    IF r.err # "ok" THEN r
    ELSE LET e == Reflagged(Retargeted(Entry(p, r.val[1]), target), f, r.val[2] > 0)
         IN  Res(SetEntry(p, r.val[1], e), "ok", r.val[2])
update(p, v, target, f) == UpdateAt(p, get_entry_mut(p, v), target, f)

\* Variant: a huge page is used when the virtual address alone is aligned.
RegionLevelVirt(v, q, size, huge) ==
    CHOOSE l \in Level :
        LET fits(k) == k = 0 \/ (huge /\ VirtAddr(v, "is_aligned", PageSize(k)) /\ size >= PageSize(k))
        IN  fits(l) /\ \A k \in Level : fits(k) => k <= l

\* The page size map_region uses next.
RegionLevel(v, q, size, huge) ==
    CHOOSE l \in Level :
        LET fits(k) == \/ k = 0
                       \/ /\ huge /\ size >= PageSize(k)
                          /\ VirtAddr(v, "is_aligned", PageSize(k)) /\ PhysAddr(q, "is_aligned", PageSize(k))
        IN  fits(l) /\ \A k \in Level : fits(k) => k <= l

\* map_region: the pages that were mapped before an error stay mapped.
RECURSIVE map_region(_, _, _, _, _, _)
MappedThen(r, v, q, size, n, f, huge) ==
    IF r.err # "ok" THEN Res(r.pt, r.err, size) ELSE map_region(r.pt, VirtAdd(v, n), add(q, n), size - n, f, huge)
MapPage(p, v, q, size, l, f, huge) == MappedThen(map(p, v, q, l, f), v, q, size, PageSize(l), f, huge)
map_region(p, v, q, size, f, huge) ==
    IF size = 0 THEN Res(p, "ok", 0) ELSE MapPage(p, v, q, size, RegionLevel(v, q, size, huge), f, huge)

\* unmap_region; a page that is not aligned or larger than what is left is a panic.
RECURSIVE unmap_region(_, _, _)
UnmappedThen(r, v, size) ==
    LET n == PageSize(r.val)
    IN  IF r.err # "ok" THEN Res(r.pt, r.err, size)
        ELSE IF ~VirtAddr(v, "is_aligned", n) \/ n > size THEN Res(r.pt, "panic", size)
        ELSE unmap_region(r.pt, VirtAdd(v, n), size - n)
unmap_region(p, v, size) == IF size = 0 THEN Res(p, "ok", 0) ELSE UnmappedThen(unmap(p, v), v, size)

\* walk: the leaf entries, with the address walk_recursive computes for them.
RECURSIVE walk(_, _, _, _)
walk(p, t, l, start) ==
    UNION {LET e == p.tables[t][i]
               v == start + i * PageSize(l)
           IN  IF ~is_present(e) THEN {}
               ELSE IF l > 0 /\ ~is_huge(e) THEN walk(p, e.paddr, l - 1, v)
               ELSE {[vaddr |-> v, level |-> l]}
           : i \in 0..(ENTRY_COUNT - 1)}

-----------------------------------------------------------------------------
\* try_new.
Init ==
    /\ arch \in Arch /\ mapped = << >>
    /\ pt = [tables |-> [f \in Frames |-> EmptyTable], intrm_tables |-> <<Root>>]

\* n pages from v on are mapped to n frames from q on, or are no longer mapped.
MapTo(v, n, q, f) == [w \in v..(v + n - 1) |-> <<q + (w - v), f>>] @@ mapped
Without(v, n) == [w \in DOMAIN mapped \ (v..(v + n - 1)) |-> mapped[w]]

\* The table becomes that of result r, and `mapped` becomes m if r is ok.
Result(r, m) == pt' = r.pt /\ mapped' = (IF r.err # "ok" THEN mapped ELSE m) /\ UNCHANGED arch

Map(v, q, l, f) ==
    /\ Cardinality(DOMAIN mapped) < MaxMapped
    /\ Result(map(pt, v, q, l, f), MapTo(AlignDown(v, l), PageSize(l), AlignDown(q, l), f))

Unmapped(v, r) == Result(r, Without(AlignDown(v, r.val), PageSize(r.val)))
Unmap(v) == Unmapped(v, unmap(pt, v))

\* update gives a huge page a target aligned to it, as its caller must.
Before(w) == IF w \in DOMAIN mapped THEN mapped[w] ELSE <<0, {}>>
After(w, v, q, f) == <<IF q = None THEN Before(w)[1] ELSE q[1] + (w - v),
                       IF f = None THEN Before(w)[2] ELSE f[1]>>
Updated(v, q, f, r) ==
    /\ r.err = "ok" /\ q # None => q[1] % PageSize(r.val) = 0
    /\ LET from == AlignDown(v, r.val)
       IN  Result(r, [w \in from..(from + PageSize(r.val) - 1) |-> After(w, from, q, f)] @@ mapped)
Update(v, q, f) == (UpdateUnmapped \/ v \in DOMAIN mapped) /\ Updated(v, q, f, update(pt, v, q, f))

RegionMapped(v, q, size, f, r) == pt' = r.pt /\ mapped' = MapTo(v, size - r.val, q, f) /\ UNCHANGED arch
MapRegion(v, q, size, f) ==
    /\ Cardinality(DOMAIN mapped) < MaxMapped
    /\ RegionMapped(v, q, size, f, map_region(pt, v, q, size, f, TRUE))

\* The region was mapped before, in pages of its own, as the documentation asks.
UnmapRegion(v, size) ==
    /\ \A w \in v..(v + size - 1) :
          /\ w \in DOMAIN mapped
          /\ LET l == query(pt, w).val.level
             IN  v <= AlignDown(w, l) /\ AlignDown(w, l) + PageSize(l) <= v + size
    /\ pt' = unmap_region(pt, v, size).pt /\ mapped' = Without(v, size) /\ UNCHANGED arch

\* drop gives the frames back; a new table is made.
Drop ==
    /\ pt' = [tables |-> [f \in Frames |-> EmptyTable], intrm_tables |-> <<Root>>]
    /\ mapped' = << >> /\ UNCHANGED arch

Next ==
    \/ \E v \in VirtAddrs, q \in PhysAddrs, f \in FlagSets :
          \/ \E l \in Level : Map(v, q, l, f)
          \/ \E size \in RegionSizes : MapRegion(v, q, size, f)
    \/ \E v \in VirtAddrs, q \in Option(PhysAddrs), f \in Option(FlagSets) : Update(v, q, f)
    \/ \E v \in VirtAddrs : Unmap(v) \/ \E size \in RegionSizes : UnmapRegion(v, size)
    \/ Drop

-----------------------------------------------------------------------------
Permissions == {"READ", "WRITE", "EXECUTE", "USER"}
Translates(v, r) ==
    IF v \notin DOMAIN mapped THEN r.err # "ok"
    ELSE /\ r.err = "ok" /\ r.val.paddr = mapped[v][1]
         /\ r.val.flags \cap Permissions = mapped[v][2] \cap Permissions

\* For every address and power of two, align_down is the greatest multiple that
\* is not above the address, align_up the smallest that is not below it unless
\* the sum wraps, and offset and alignment are those of the remainder; physical
\* and virtual addresses have the same arithmetic.
AlignmentsAgree ==
    \A a \in Usize, k \in 0..USIZE_BITS - 1 :
        LET multiples == {n \in Usize : n % 2^k = 0}
        IN  /\ PhysAddr(a, "align_down", 2^k) = Max({n \in multiples : n <= a})
            /\ a + 2^k - 1 \in Usize => PhysAddr(a, "align_up", 2^k) = Min({n \in multiples : n >= a})
            /\ PhysAddr(a, "align_offset", 2^k) = a % 2^k
            /\ PhysAddr(a, "is_aligned", 2^k) = (a \in multiples)
            /\ \A method \in {"align_down", "align_up", "align_offset", "is_aligned"} :
                  VirtAddr(a, method, 2^k) = PhysAddr(a, method, 2^k)

\* The tables translate as the results of the calls say, after any sequence of
\* calls, failed ones and huge pages included: an address is mapped exactly if
\* some call mapped it and none unmapped it, to the frame and with the
\* permissions it was given, whichever architecture's entries carry them; and
\* walk visits the pages that hold those addresses and no others. No frame is
\* used for two tables; and the arithmetic of addresses is right.
TablesTranslate ==
    /\ \A v \in 0..(ENTRY_COUNT^LEVELS - 1) :
          Translates(v, query(pt, v))
    /\ LET pages == walk(pt, Root, LEVELS - 1, 0)
       IN  DOMAIN mapped = UNION {e.vaddr..(e.vaddr + PageSize(e.level) - 1) : e \in pages}
    /\ \A i, j \in DOMAIN pt.intrm_tables : pt.intrm_tables[i] = pt.intrm_tables[j] => i = j
    /\ mapped = << >> => AlignmentsAgree

\* update returns NotMapped where nothing is mapped, as its documentation says.
UpdateChecksMapped ==
    \A v \in VirtAddrs, q \in PhysAddrs, f \in FlagSets :
        v \notin DOMAIN mapped => update(pt, v, Some(q), Some(f)).err # "ok"
=============================================================================
