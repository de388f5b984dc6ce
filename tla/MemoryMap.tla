----------------------------- MODULE MemoryMap -----------------------------
(***************************************************************************)
(* Physical memory from the first instruction to the kernel's own page     *)
(* table: the regions of every platform, the boot page tables, the entry   *)
(* code of the CPUs, init_allocator and remap_kernel_memory. Addresses are *)
(* numbers of 4K pages; the kernel is linked at the physical addresses     *)
(* plus PHYS_VIRT_OFFSET, so one number names a page at its low and its    *)
(* high address, and a CPU is said to use the one or the other.            *)
(***************************************************************************)
EXTENDS Integers, Sequences, SequencesExt, FiniteSets

CONSTANTS Platforms, \* the platforms of the instance
          Images,    \* records of the pages in each section of the kernel image
          MapCpu     \* the CPUs, 0 the primary one

VARIABLES platform, image,
          todo,    \* per CPU: the calls of its entry code still to be made
          mode,    \* per CPU: exception level, stack pointer, page table root, low addresses
          bootPt,  \* the boot page table: flags of each 1G block
          zeroed,  \* the regions filled with zeros
          heap,    \* the regions given to the allocator
          kernelPt \* the regions mapped in KERNEL_PAGE_TABLE

vars == <<platform, image, todo, mode, bootPt, zeroed, heap, kernelPt>>

-----------------------------------------------------------------------------
(* The platform configurations, and the regions made from them.            *)

Config(kernel, end, mmio, arch, uart) ==
    [KERNEL_BASE |-> kernel, PHYS_MEMORY_END |-> end, MMIO_REGIONS |-> mmio, ARCH |-> arch, UART |-> uart]
axconfig(p) ==
    CASE p = "x86_64-qemu-q35" ->
            Config(\h200, \h8000, <<<<\hb0000, \h10000>>, <<\hfe000, \hc00>>, <<\hfec00, 1>>,
                   <<\hfed00, 1>>, <<\hfee00, 1>>, <<\hb8, 2>>>>, "x86_64", -1)
      [] p = "x86_64-pc-oslab" ->
            Config(\h200, \h80000, <<<<\hfec00, 1>>, <<\hfed00, 1>>, <<\hfee00, 1>>,
                   <<\hf0000, \h8000>>, <<\hfcd80, \h80>>>>, "x86_64", -1)
      [] p = "riscv64-qemu-virt" ->
            Config(\h80200, \h88000, <<<<\hc000, \h210>>, <<\h10000, 1>>, <<\h10001, 8>>,
                   <<\h30000, \h10000>>, <<\h40000, \h40000>>>>, "riscv64", -1)
      [] p = "aarch64-qemu-virt" ->
            Config(\h40080, \h48000, <<<<\h9000, 1>>, <<\h8000, \h20>>, <<\ha000, 4>>,
                   <<\h10000, \h2eff0>>, <<\h4010000, \h10000>>>>, "aarch64", \h9000)
      [] p = "aarch64-raspi4" ->
            Config(\h80, \hfc000, <<<<\hfe201, 1>>, <<\hff841, 8>>>>, "aarch64", \hfe201)
      [] p = "aarch64-bsta1000b" ->
            Config(\h81000, \hf0000, <<<<\h20008, 1>>, <<\h32000, 8>>, <<\h32011, 1>>,
                   <<\h33002, 1>>, <<\h70035, 1>>, <<\h70038, 1>>>>, "aarch64", \h20008)
Machine == axconfig(platform).ARCH

MemRegion(paddr, size, flags, name) == [paddr |-> paddr, size |-> size, flags |-> flags, name |-> name]
End(r) == r.paddr + r.size

\* The symbols of the linker script: where each section starts.
Layout(start) ==
    LET rodata == image.text
        data == rodata + image.rodata
        stack == data + image.data
    IN  [_stext |-> start, _srodata |-> start + rodata, _sdata |-> start + data, boot_stack |-> start + stack,
         _sbss |-> start + stack + image.stack, _ekernel |-> start + stack + image.stack + image.bss]
Symbols == Layout(axconfig(platform).KERNEL_BASE)

ImageRegions(s) ==
    <<MemRegion(s._stext, image.text, {"RESERVED", "READ", "EXECUTE"}, ".text"),
      MemRegion(s._srodata, image.rodata, {"RESERVED", "READ"}, ".rodata"),
      MemRegion(s._sdata, image.data, {"RESERVED", "READ", "WRITE"}, ".data"),
      MemRegion(s.boot_stack, image.stack, {"RESERVED", "READ", "WRITE"}, "boot stack"),
      MemRegion(s._sbss, image.bss, {"RESERVED", "READ", "WRITE"}, ".bss")>>
kernel_image_regions == ImageRegions(Symbols)

MmioRegions(regs) ==
    [i \in DOMAIN regs |-> MemRegion(regs[i][1], regs[i][2], {"RESERVED", "DEVICE", "READ", "WRITE"}, "mmio")]
default_mmio_regions == MmioRegions(axconfig(platform).MMIO_REGIONS)

\* Variant: free memory starts behind the data section.
FreeFromData ==
    <<MemRegion(Symbols.boot_stack, axconfig(platform).PHYS_MEMORY_END - Symbols.boot_stack,
                {"FREE", "READ", "WRITE"}, "free memory")>>

default_free_regions ==
    <<MemRegion(Symbols._ekernel, axconfig(platform).PHYS_MEMORY_END - Symbols._ekernel,
                {"FREE", "READ", "WRITE"}, "free memory")>>

\* platform_regions of each platform.
x86_regions == <<MemRegion(1, \h9e, {"RESERVED", "READ", "WRITE"}, "low memory")>>
raspi_regions == <<MemRegion(0, 1, {"RESERVED", "READ", "WRITE"}, "spintable")>>
platform_regions ==
    CASE Machine = "x86_64" -> x86_regions
      [] platform = "aarch64-raspi4" -> raspi_regions
      [] OTHER -> <<>>
memory_regions == kernel_image_regions \o platform_regions \o default_free_regions \o default_mmio_regions

\* MappingFlags::from(MemRegionFlags)
MappingFlags(f) == f \cap {"READ", "WRITE", "EXECUTE", "DEVICE", "UNCACHED"}

-----------------------------------------------------------------------------
(* Boot page tables: what each 1G block is mapped with.                    *)

RWX == {"READ", "WRITE", "EXECUTE"}
RWD == {"READ", "WRITE", "DEVICE"}
qemu_boot_table == <<RWD, RWX>>
bsta_boot_table == <<RWD, RWD, RWX>>
raspi_boot_table == <<RWX, RWX, RWX, RWD>>
riscv_boot_table == <<{}, {}, RWX>>
\* In the image of x86 (multiboot.S): four blocks, no bit that forbids execution.
x86_boot_table == <<RWX, RWX, RWX, RWX>>
BootTable ==
    CASE Machine = "x86_64" -> x86_boot_table
      [] Machine = "riscv64" -> riscv_boot_table
      [] platform = "aarch64-qemu-virt" -> qemu_boot_table
      [] platform = "aarch64-raspi4" -> raspi_boot_table
      [] platform = "aarch64-bsta1000b" -> bsta_boot_table

-----------------------------------------------------------------------------
(* The entry code of the CPUs, as the calls it makes.                      *)

start_aarch64 == <<"switch_to_el1", "init_boot_page_table", "init_mmu", "high_sp">>
start_secondary_aarch64 == <<"switch_to_el1", "init_mmu", "high_sp">>
start_riscv == <<"init_boot_page_table", "init_mmu", "high_sp">>
start_secondary_riscv == <<"init_mmu", "high_sp">>
start_x86 == <<"init_mmu", "high_sp">>

qemu_rust_entry == <<"clear_bss", "disable_low">>
qemu_rust_entry_secondary == <<"disable_low">>
bsta_rust_entry == <<"clear_bss">>
riscv_rust_entry == <<"clear_bss">>
rust_entry ==
    CASE platform \in {"aarch64-qemu-virt", "aarch64-raspi4"} -> qemu_rust_entry
      [] platform = "aarch64-bsta1000b" -> bsta_rust_entry
      [] OTHER -> riscv_rust_entry
rust_entry_secondary ==
    IF platform \in {"aarch64-qemu-virt", "aarch64-raspi4"} THEN qemu_rust_entry_secondary ELSE <<>>

_start ==
    (CASE Machine = "aarch64" -> start_aarch64 [] Machine = "riscv64" -> start_riscv [] OTHER -> start_x86)
        \o rust_entry \o <<"init_allocator", "remap", "write_root", "start_secondary">>
_start_secondary ==
    (CASE Machine = "aarch64" -> start_secondary_aarch64 [] Machine = "riscv64" -> start_secondary_riscv
       [] OTHER -> start_x86)
        \o rust_entry_secondary \o <<"write_root">>

Init ==
    /\ platform \in Platforms /\ image \in Images
    /\ todo = [c \in MapCpu |-> IF c = 0 THEN _start ELSE <<>>]
    /\ \E el \in (IF Machine = "aarch64" THEN 1..3 ELSE {1}) :
          mode = [c \in MapCpu |-> [el |-> el, sp |-> "low", root |-> "off", low |-> TRUE]]
    /\ bootPt = IF Machine = "x86_64" THEN x86_boot_table ELSE <<>>
    /\ zeroed = {} /\ heap = <<>> /\ kernelPt = <<>>

Call(c, f) == todo[c] # <<>> /\ Head(todo[c]) = f
Return(c) == todo' = [todo EXCEPT ![c] = Tail(@)]
SetMode(c, field, v) == mode' = [mode EXCEPT ![c][field] = v]

\* From EL2 or EL3, eret enters EL1 with the stack pointer the CPU had.
switch_to_el1(c) ==
    /\ Call(c, "switch_to_el1") /\ Return(c) /\ SetMode(c, "el", 1)
    /\ UNCHANGED <<platform, image, bootPt, zeroed, heap, kernelPt>>

init_boot_page_table(c) ==
    /\ Call(c, "init_boot_page_table") /\ Return(c) /\ bootPt' = BootTable
    /\ UNCHANGED <<platform, image, mode, zeroed, heap, kernelPt>>

\* Low and high addresses go through the boot table (TTBR0 and TTBR1 on
\* aarch64, two entries of one table on the others).
init_mmu(c) ==
    /\ Call(c, "init_mmu") /\ Return(c) /\ SetMode(c, "root", "boot")
    /\ UNCHANGED <<platform, image, bootPt, zeroed, heap, kernelPt>>

\* The stack pointer moves by PHYS_VIRT_OFFSET, and the entry called next is
\* a high address.
high_sp(c) ==
    /\ Call(c, "high_sp") /\ Return(c) /\ SetMode(c, "sp", "high")
    /\ UNCHANGED <<platform, image, bootPt, zeroed, heap, kernelPt>>

BssRange == MemRegion(Symbols._sbss, image.bss, {}, "zero")
clear_bss(c) ==
    /\ Call(c, "clear_bss") /\ Return(c) /\ zeroed' = zeroed \cup {BssRange}
    /\ UNCHANGED <<platform, image, mode, bootPt, heap, kernelPt>>

\* write_page_table_root0(0)
disable_low(c) ==
    /\ Call(c, "disable_low") /\ Return(c) /\ SetMode(c, "low", FALSE)
    /\ UNCHANGED <<platform, image, bootPt, zeroed, heap, kernelPt>>

\* The largest free region first, the first of its size; then the others.
IsFree(r) == "FREE" \in r.flags
Largest(free) ==
    free[CHOOSE i \in DOMAIN free : /\ \A j \in DOMAIN free : free[j].size <= free[i].size
                                    /\ \A j \in 1..(i - 1) : free[j].size < free[i].size]
HeapOf(free) ==
    LET IsOther(r) == r.paddr # Largest(free).paddr IN <<Largest(free)>> \o SelectSeq(free, IsOther)
init_allocator(c) ==
    /\ Call(c, "init_allocator") /\ Return(c)
    /\ heap' = HeapOf(SelectSeq(memory_regions, IsFree))
    /\ UNCHANGED <<platform, image, mode, bootPt, zeroed, kernelPt>>

Overlap(r, s) == r.paddr < End(s) /\ s.paddr < End(r)

\* One round of the loop of remap_kernel_memory. map_region stops with an
\* error, and unwrap with a panic, when part of the region is already mapped.
RemapRegion(c, r) ==
    IF \E j \in DOMAIN kernelPt : Overlap(kernelPt[j], r)
    THEN todo' = [todo EXCEPT ![c] = <<"panic">>] /\ UNCHANGED kernelPt
    ELSE kernelPt' = Append(kernelPt, [r EXCEPT !.flags = MappingFlags(@)]) /\ UNCHANGED todo
remap_kernel_memory(c) ==
    /\ Call(c, "remap")
    /\ IF Len(kernelPt) >= Len(memory_regions) THEN Return(c) /\ UNCHANGED kernelPt
       ELSE RemapRegion(c, memory_regions[Len(kernelPt) + 1])
    /\ UNCHANGED <<platform, image, mode, bootPt, zeroed, heap>>

\* Only the high half is replaced on aarch64, where TTBR0 stays as it is.
write_page_table_root(c) ==
    /\ Call(c, "write_root") /\ Return(c)
    /\ mode' = [mode EXCEPT ![c].root = "kernel", ![c].low = Machine = "aarch64" /\ @]
    /\ UNCHANGED <<platform, image, bootPt, zeroed, heap, kernelPt>>

start_secondary_cpus(c) ==
    /\ Call(c, "start_secondary")
    /\ todo' = [d \in MapCpu |-> IF d = c THEN <<>> ELSE _start_secondary]
    /\ UNCHANGED <<platform, image, mode, bootPt, zeroed, heap, kernelPt>>

Next ==
    \E c \in MapCpu :
        \/ switch_to_el1(c) \/ init_boot_page_table(c) \/ init_mmu(c) \/ high_sp(c) \/ clear_bss(c)
        \/ disable_low(c) \/ init_allocator(c) \/ remap_kernel_memory(c) \/ write_page_table_root(c)
        \/ start_secondary_cpus(c)

-----------------------------------------------------------------------------
\* What a table maps a page with; nothing when it is not mapped.
GB == \h40000
Translate(root, page) ==
    IF root = "boot"
      THEN LET b == page \div GB + 1 IN IF b \in DOMAIN bootPt THEN bootPt[b] ELSE {}
      ELSE UNION {kernelPt[i].flags : i \in {j \in DOMAIN kernelPt :
                    kernelPt[j].paddr <= page /\ page < End(kernelPt[j])}}

\* The pages of the allocator that are in use before the kernel page table is:
\* the first heap of the byte allocator, then at most five tables for a region.
EarlyHeap == 9 + 5 * Len(memory_regions)

\* A CPU with its MMU on can do what its code does next: fetch from the text,
\* write its stack and data, use the memory allocated so far as normal memory
\* and the console as a device, at addresses that its stack pointer and
\* program counter have.
CpuMapped(c) ==
    LET root == mode[c].root
        Normal(r, need) == \A p \in {r.paddr, End(r) - 1} :
            need \in Translate(root, p) /\ "DEVICE" \notin Translate(root, p)
    IN /\ Normal(kernel_image_regions[1], "EXECUTE")
       /\ \A i \in 2..5 : Normal(kernel_image_regions[i], IF i = 2 THEN "READ" ELSE "WRITE")
       /\ heap # <<>> => Normal([heap[1] EXCEPT !.size = EarlyHeap], "WRITE")
       /\ axconfig(platform).UART # -1 => "DEVICE" \in Translate(root, axconfig(platform).UART)
       /\ mode[c].sp = "low" => mode[c].low

\* Every platform comes up on its own memory map: each CPU always runs on
\* mappings that allow what it does; the allocator is given all memory behind
\* the kernel image and nothing of the image, of a device or of what the
\* platform reserves; clearing .bss spares the stack in use, the page table
\* and the code; no region overlaps another, which would stop the remapping;
\* and under the kernel page table each region has its own rights, none both
\* writable and executable.
MemoryMapped ==
    /\ \A c \in MapCpu : mode[c].root # "off" => mode[c].el = 1 /\ CpuMapped(c)
    /\ \A i \in DOMAIN heap :
          /\ \A j \in DOMAIN memory_regions :
                "RESERVED" \in memory_regions[j].flags => ~Overlap(heap[i], memory_regions[j])
          /\ heap[i].paddr = Symbols._ekernel /\ End(heap[i]) = axconfig(platform).PHYS_MEMORY_END
    /\ \A z \in zeroed, i \in 1..4 : ~Overlap(z, kernel_image_regions[i])
    /\ \A c \in MapCpu : todo[c] # <<"panic">>
    /\ \A c \in MapCpu : mode[c].root = "kernel" =>
          \A j \in DOMAIN memory_regions :
              LET r == memory_regions[j] IN
              \A p \in {r.paddr, End(r) - 1} :
                  /\ Translate("kernel", p) = r.flags \ {"RESERVED", "FREE"}
                  /\ ~({"WRITE", "EXECUTE"} \subseteq Translate("kernel", p))
=============================================================================
