------------------------------- MODULE MCBase -------------------------------
(***************************************************************************)
(* The parts of the kernel below its tasks, checked one after the other:   *)
(* the variable part selects the module whose steps are taken, the others  *)
(* stay in an initial state.                                               *)
(***************************************************************************)
EXTENDS Integers, Sequences

CONSTANTS Parts, NIL,
          Node, PushTwice,
          Cpu, GuardTask, SpinLock, HandlerLock, Smp,
          SMP, Methods,
          IrqCpu, PPI, SPI, EnabledAtInit,
          Width, NANOS_PER_SEC, PERIODIC_INTERVAL_NANOS, Frequencies, MaxLate, MaxTicks,
          Arch, ENTRY_COUNT, Frames, VirtAddrs, PhysAddrs, RegionSizes, USIZE_BITS, UpdateUnmapped, MaxMapped,
          PAGE_SIZE, SlabSizes, SET_SIZE, HEAP_PAGES, Base, Pages, CTRL_BLK_SIZE, MaxHeld,
          CtxTask, BootTask, Rounds, MaxFrames, TdataWords, TbssWords, TlsPadding,
          MaxDevices, PCI_BAR_NUM, RangeBase, RangeSize,
          Platforms, MapCpu,
          SchedTask, IDLE, Policies, MAX_TIME_SLICE, Removes, MaxId, MaxVruntime

VARIABLES part,
          first, next, prev, cur, walking, content, pos,
          irq, preempt, on, bit, stack,
          method, bootPc, started, logicId, startPage, startArg, bootStack, early, ENTERED_CPUS, INITED_CPUS,
          lazy, handlers, areas, tp, bootIrq,
          gicd, gicc, enabledIrq, pendingIrq, activeIrq, irqTable, irqAt, vector,
          freq, CNTPCT, NEXT_DEADLINE, fires, lastTick, burst,
          arch, pt, mapped,
          bits, used_pages, blocks, heapTotal, heapUsed, slabs, wanted, allocs, ranges, leaked, added,
          cpu_arch, fp_simd, running, cpu, ctx, fpstate, words, tls, jmp_buf, round, frames, tlsround,
          float, jumped,
          build, stage, scanned, bar, assigned, current, enabled, devices, found, used,
          platform, image, todo, mode, bootPt, zeroed, heap, kernelPt,
          policy, sched, curr, need, ran

-----------------------------------------------------------------------------
\* Two tasks on the first CPU, one on the second; handlers take the lock that
\* disables interrupts. Three frames: a lock, an interrupt, its handler's lock.
MCHomeCpu == [t \in GuardTask |-> IF t = "t3" THEN "c2" ELSE "c1"]
MCGuard == [l \in SpinLock |-> IF l \in HandlerLock THEN "noirq" ELSE "nopreempt"]
MCMaxDepth == [t \in GuardTask |-> CASE t = "t1" -> 3 [] t = "t2" -> 2 [] OTHER -> 1]

\* Sizes and alignments of allocations, in bytes and in pages.
Layout(size, align) == [size |-> size, align |-> align, header |-> FALSE]
MCLayouts == {Layout(1, 1), Layout(3, 1), Layout(1, 2)}
MCPageRequests == {[n |-> 1, align |-> 4], [n |-> 2, align |-> 4]}

\* PCI functions: virtio devices by transitional and by modern IDs, an ixgbe
\* with BARs set by firmware or not, and devices no driver knows.
Bar(kind, size) == [kind |-> kind, size |-> size, address |-> 0]
SetBar(kind, size, address) == [kind |-> kind, size |-> size, address |-> address]
NoBar == Bar("mem32", 0)
Upper == Bar("upper", 0)
Function(id, bars, ok) == [standard |-> TRUE, id |-> id, bars |-> bars, ok |-> ok]
MCFunctions ==
    UNION {{Function(<<6900, 4096>>, <<Bar("mem32", 2), Bar("io", 1), NoBar>>, ok),
            Function(<<6900, 4096>>, <<SetBar("mem32", 2, 40), Bar("io", 1), NoBar>>, ok),
            Function(<<6900, 4097>>, <<Bar("mem32", 1), Bar("mem64", 4), Upper>>, ok),
            Function(<<6900, 4176>>, <<NoBar, Bar("mem64", 2), Upper>>, ok),
            Function(<<6900, 4162>>, <<NoBar, NoBar, NoBar>>, ok),
            Function(<<32902, 4347>>, <<SetBar("mem64", 4, 32), Upper, SetBar("io", 1, 1)>>, ok),
            Function(<<32902, 4347>>, <<Bar("io", 4), NoBar, NoBar>>, ok)} : ok \in BOOLEAN}
        \cup {[standard |-> FALSE, id |-> <<1, 1>>, bars |-> <<NoBar, NoBar, NoBar>>, ok |-> TRUE],
              Function(<<1, 1>>, <<Bar("mem32", 2), Bar("mem32", 3), NoBar>>, TRUE)}
MCRegions == [type : {"Network", "Block", "GPU", NIL}, ok : BOOLEAN]
Build(bus, dyn, range, features) == [bus |-> bus, dyn |-> dyn, range |-> range, features |-> features]
MCBuilds == {Build("pci", FALSE, TRUE, {"virtio-net", "ramdisk"}),
             Build("pci", FALSE, TRUE, {"virtio-net", "virtio-blk", "virtio-gpu"}),
             Build("pci", TRUE, FALSE, {"ixgbe", "virtio-net", "virtio-blk"}),
             Build("pci", TRUE, TRUE, {"virtio-net", "virtio-blk", "ramdisk"}),
             Build("mmio", TRUE, FALSE, {"virtio-net", "virtio-blk", "virtio-gpu", "bcm2835-sdhci"}),
             Build("mmio", FALSE, FALSE, {"virtio-net", "virtio-blk"})}

\* Kernel images: pages per section.
MCImages == [text : {40, 600}, rodata : {9}, data : {3, 12}, stack : {64}, bss : {1, 80}]

List == INSTANCE LinkedList
Spin == INSTANCE SpinGuard WITH HomeCpu <- MCHomeCpu, Guard <- MCGuard, MaxDepth <- MCMaxDepth
Booting == INSTANCE Boot
Irqs == INSTANCE Irq
Paging == INSTANCE PageTable WITH FlagSets <- {{"READ", "EXECUTE"}, {"READ", "WRITE", "USER"}}
Alloc == INSTANCE GlobalAlloc WITH NONE <- NIL, Extra <- <<20, 2>>, Layouts <- MCLayouts,
                                   PageRequests <- MCPageRequests
Switch == INSTANCE Context WITH stack <- words
Probe == INSTANCE Devices WITH Builds <- MCBuilds, Functions <- MCFunctions, Regions <- MCRegions
Map == INSTANCE MemoryMap WITH Images <- MCImages
\* The priorities are the highest one, and a value outside the range.
Sched == INSTANCE Scheduler WITH Task <- SchedTask, NONE <- NIL, current <- curr,
                                 Prios <- {-20, 20}, MaxTicks <- 1, MaxLate <- 1

list == <<first, next, prev, cur, walking, content, pos>>
spin == <<irq, preempt, on, bit, stack>>
boot == <<method, bootPc, started, logicId, startPage, startArg, bootStack, early, ENTERED_CPUS, INITED_CPUS,
          lazy, handlers, areas, tp, bootIrq>>
irqs == <<gicd, gicc, enabledIrq, pendingIrq, activeIrq, irqTable, irqAt, vector>>
clock == <<freq, CNTPCT, NEXT_DEADLINE, fires, lastTick, burst>>
tables == <<arch, pt, mapped>>
alloc == <<bits, used_pages, blocks, heapTotal, heapUsed, slabs, wanted, allocs, ranges, leaked, added>>
context == <<cpu_arch, fp_simd, running, cpu, ctx, fpstate, words, tls, jmp_buf, round, frames, tlsround,
             float, jumped>>
probe == <<build, stage, scanned, bar, assigned, current, enabled, devices, found, used>>
memory == <<platform, image, todo, mode, bootPt, zeroed, heap, kernelPt>>
queues == <<policy, sched, curr, need, ran>>
vars == <<part, list, spin, boot, irqs, clock, tables, alloc, context, probe, memory, queues>>

-----------------------------------------------------------------------------
\* Of a part that is not selected one initial state is enough.
Init ==
    /\ part \in Parts
    /\ List!Init /\ Spin!Init /\ Irqs!Init /\ Alloc!Init
    /\ Booting!Init /\ (part # "boot" => method = CHOOSE m \in Methods : TRUE)
    /\ Irqs!TimerInit /\ (part # "clock" => freq = CHOOSE f \in Frequencies : TRUE)
    /\ Paging!Init /\ (part # "tables" => arch = CHOOSE a \in Arch : TRUE)
    /\ Switch!Init /\ (part # "context" => cpu_arch = "x86_64" /\ fp_simd)
    /\ Probe!Init /\ (part # "probe" => build = CHOOSE b \in MCBuilds : TRUE)
    /\ Map!Init
    /\ part # "memory" => platform = "x86_64-qemu-q35" /\ image = CHOOSE i \in MCImages : TRUE
    /\ Sched!Init /\ (part # "queues" => policy = CHOOSE q \in Policies : TRUE)

Next ==
    /\ UNCHANGED part
    /\ \/ /\ part = "list" /\ List!Next
          /\ UNCHANGED <<spin, boot, irqs, clock, tables, alloc, context, probe, memory, queues>>
       \/ /\ part = "spin" /\ Spin!Next
          /\ UNCHANGED <<list, boot, irqs, clock, tables, alloc, context, probe, memory, queues>>
       \/ /\ part = "boot" /\ Booting!Next
          /\ UNCHANGED <<list, spin, irqs, clock, tables, alloc, context, probe, memory, queues>>
       \/ /\ part = "irq" /\ Irqs!Next
          /\ UNCHANGED <<list, spin, boot, clock, tables, alloc, context, probe, memory, queues>>
       \/ /\ part = "clock" /\ Irqs!TimerNext
          /\ UNCHANGED <<list, spin, boot, irqs, tables, alloc, context, probe, memory, queues>>
       \/ /\ part = "tables" /\ Paging!Next
          /\ UNCHANGED <<list, spin, boot, irqs, clock, alloc, context, probe, memory, queues>>
       \/ /\ part = "alloc" /\ Alloc!Next
          /\ UNCHANGED <<list, spin, boot, irqs, clock, tables, context, probe, memory, queues>>
       \/ /\ part = "context" /\ Switch!Next
          /\ UNCHANGED <<list, spin, boot, irqs, clock, tables, alloc, probe, memory, queues>>
       \/ /\ part = "probe" /\ Probe!Next
          /\ UNCHANGED <<list, spin, boot, irqs, clock, tables, alloc, context, memory, queues>>
       \/ /\ part = "memory" /\ Map!Next
          /\ UNCHANGED <<list, spin, boot, irqs, clock, tables, alloc, context, probe, queues>>
       \/ /\ part = "queues" /\ Sched!Next
          /\ UNCHANGED <<list, spin, boot, irqs, clock, tables, alloc, context, probe, memory>>

Spec == Init /\ [][Next]_vars

-----------------------------------------------------------------------------
\* The list of linked_list.rs is a ring with the entries put on it, in order,
\* and a cursor stays on an entry of it, for callers that insert no entry that
\* is on a list already.
ListIsRing == part = "list" => List!ListIsRing

\* No CPU spins on a lock whose holder cannot run before it stops spinning:
\* the guards of kspin keep interrupt handlers and preemption out.
NoSelfDeadlock == part = "spin" => Spin!NoSelfDeadlock

\* Nothing is used before axruntime, axhal and the primary CPU have set it up,
\* and every CPU runs on the stack it was given, except one that leaves the
\* spin table before that stack is written.
BootOrder == part = "boot" => Booting!BootOrder

\* aarch64_raspi/mp.rs:32, "Starts the given secondary CPU with its boot
\* stack": a CPU that runs is on its own stack. A CPU that leaves the spin
\* table early is not.
OwnStack == Booting!OwnStack

\* The regions handed to the allocator and to the page tables are the memory
\* of the platform, disjoint from the kernel image, and all of it is mapped.
MemoryMapped == part = "memory" => Map!MemoryMapped

\* On every platform the kernel comes up: CPUs in order, memory mapped.
KernelComesUp == BootOrder /\ MemoryMapped

\* Every interrupt acknowledged is ended on the CPU that took it, and the timer
\* interrupt comes once per period, however late it is served.
InterruptsServed ==
    /\ part = "irq" => Irqs!InterruptsEnded
    /\ part = "clock" => Irqs!TickPeriodic

\* Walking the page tables gives what map, unmap and update were asked for.
TablesTranslate == part = "tables" => Paging!TablesTranslate


\* A task finds registers, stack and TLS as it left them (floating-point registers
\* not on riscv64).
ContextsKept == part = "context" => Switch!ContextsKept

\* Every device a driver accepted is handed to its subsystem, with BARs that
\* are aligned and disjoint; devices whose identifier no driver asks for are not
\* claimed.
DevicesReady == part = "probe" => Probe!DevicesReady

\* Under every policy, no task is in the scheduler twice or lost, one picked is
\* one that was put there, and a CPU idles only when there is nothing to run.
ImplementsScheduler == Sched!ImplementsScheduler

\* Under round robin, a task that has had its MAX_TIME_SLICE ticks is about to
\* be preempted, however often it was preempted early, blocked and woken.
RoundEnds == Sched!RoundEnds

\* CFS gives a new or woken task a vruntime no greater than that of any task
\* that waits or runs, although pick and put_prev do not keep min_vruntime up.
NewcomerNotBehind == Sched!NewcomerNotBehind

\* scheduler/src/lib.rs:39, "Removes a task by its reference from the
\* scheduler": remove_task takes out the task it is given, and no other.
RemoveRemoves == Sched!RemoveRemoves

\* axdriver lib.rs:120, "Probes all supported devices": a virtio device with
\* a modern ID is found like one with a transitional ID.
ModernFound == Probe!ModernFound
=============================================================================
