------------------------------- MODULE Boot --------------------------------
(***************************************************************************)
(* Bringing up the CPUs: rust_main and start_secondary_cpus of the primary *)
(* CPU, rust_main_secondary of the others. The platforms start a CPU in    *)
(* three ways: "x86", through one start page that holds one stack pointer; *)
(* "firmware", by a call of PSCI or SBI that passes the stack pointer; and *)
(* "spin", the spin table of the Raspberry Pi, with the stack pointer in   *)
(* one static. The timer may interrupt a CPU as soon as it has enabled     *)
(* interrupts.                                                             *)
(***************************************************************************)
EXTENDS Naturals, Sequences

CONSTANTS SMP, Methods

Primary == 0
BootCpu == 0..(SMP - 1)
NoStack == SMP

VARIABLES method,           \* how this platform starts a CPU
          bootPc,           \* what each CPU does next
          started, logicId, \* the loop of start_secondary_cpus: i and logic_cpu_id
          startPage,        \* the stack pointer in the start page, or SECONDARY_STACK_TOP
          startArg,         \* per CPU: the argument of the firmware call
          bootStack,        \* the stack each CPU runs on
          early,            \* history: CPUs that took it before it was written
          ENTERED_CPUS, INITED_CPUS,
          lazy,             \* the statics that hold a value
          handlers,         \* IRQ_HANDLER_TABLE: who has a handler
          areas,            \* the per-CPU data areas
          tp,               \* per CPU: the area its thread pointer is set to
          bootIrq           \* per CPU: interrupts are enabled

vars == <<method, bootPc, started, logicId, startPage, startArg, bootStack, early, ENTERED_CPUS, INITED_CPUS, lazy,
          handlers, areas, tp, bootIrq>>
counters == <<ENTERED_CPUS, INITED_CPUS>>
loop == <<method, started, logicId, startPage, startArg, bootStack, early>>

Init ==
    /\ method \in Methods
    /\ bootPc = [c \in BootCpu |-> IF c = Primary THEN "rust_entry" ELSE "off"]
    /\ started = 0 /\ logicId = 0 /\ startPage = NoStack
    /\ bootStack = [c \in BootCpu |-> NoStack] /\ startArg = [c \in BootCpu |-> NoStack] /\ early = {}
    /\ ENTERED_CPUS = 1 /\ INITED_CPUS = 0 /\ lazy = {} /\ handlers = {}
    /\ areas = [c \in BootCpu |-> [CPU_ID |-> 0, IS_BSP |-> FALSE, traps |-> FALSE, IDLE_TASK |-> FALSE]]
    /\ tp = [c \in BootCpu |-> NoStack] /\ bootIrq = [c \in BootCpu |-> FALSE]

Step(c, from, to) == bootPc[c] = from /\ bootPc' = [bootPc EXCEPT ![c] = to]

\* LazyInit: init_by stores the value, once; using a static that holds none is
\* a panic, which stops the CPU for good.
init_by(S) == S \cap lazy = {} /\ lazy' = lazy \cup S
Use(c, S, from, to) == Step(c, from, IF S \subseteq lazy THEN to ELSE "panic")

\* The statics of the x86 platform; the others set a vector and keep none.
OnX86(S) == IF method = "x86" THEN S ELSE {}

\* percpu: init copies the first area to the others, set_local_thread_pointer
\* selects one.
percpu_init(a) == [c \in BootCpu |-> a[0]]
set_local_thread_pointer(c) == tp' = [tp EXCEPT ![c] = c]
init_primary(a) == [percpu_init(a) EXCEPT ![Primary].CPU_ID = Primary, ![Primary].IS_BSP = TRUE]
init_secondary(a, c) == [a EXCEPT ![c].CPU_ID = c, ![c].IS_BSP = FALSE]
this_cpu_is_bsp(c) == areas[tp[c]].IS_BSP
\* init_percpu of dtables.rs, or the trap vector
init_tables(a, c) == [a EXCEPT ![c].traps = TRUE]

\* rust_entry of the platform: the areas and the tables of the CPU.
rust_entry ==
    /\ Step(Primary, "rust_entry", "remap") /\ init_by(OnX86({"IDT"}))
    /\ set_local_thread_pointer(Primary) /\ areas' = init_tables(init_primary(areas), Primary)
    /\ UNCHANGED <<loop, counters, handlers, bootIrq>>

\* remap_kernel_memory: the primary CPU builds the page table, all load it.
remap_kernel_memory(c, to) ==
    /\ bootPc[c] = "remap"
    /\ IF this_cpu_is_bsp(c) THEN Step(c, "remap", to) /\ init_by({"KERNEL_PAGE_TABLE"})
       ELSE Use(c, {"KERNEL_PAGE_TABLE"}, "remap", to) /\ UNCHANGED lazy
    /\ UNCHANGED <<loop, counters, handlers, areas, tp, bootIrq>>

\* apic::init_primary, and the timer and the keyboard or the UART after it.
apic_init_primary == init_by(OnX86({"LOCAL_APIC", "IO_APIC"}))
platform_init ==
    /\ Step(Primary, "platform_init", "init_scheduler") /\ apic_init_primary
    /\ handlers' = handlers \cup {"console"}
    /\ UNCHANGED <<loop, counters, areas, tp, bootIrq>>

\* run_queue::init and timers::init; the idle task is stored in the area.
init_scheduler ==
    /\ Step(Primary, "init_scheduler", "init_drivers") /\ init_by({"RUN_QUEUE", "TIMER_LIST"})
    /\ areas' = [areas EXCEPT ![tp[Primary]].IDLE_TASK = TRUE]
    /\ UNCHANGED <<loop, counters, handlers, tp, bootIrq>>

\* The part of rust_main that gives the devices to the subsystems.
init_filesystems == {"ROOT_DIR", "CURRENT_DIR"}
init_network == {"ETH0", "SOCKET_SET", "LISTEN_TABLE"}
init_display == {"MAIN_DISPLAY"}
init_drivers ==
    /\ Step(Primary, "init_drivers", "start_secondary_cpus")
    /\ init_by(init_filesystems \cup init_network \cup init_display)
    /\ UNCHANGED <<loop, counters, handlers, areas, tp, bootIrq>>

\* The while loop that ends once the CPU just started has entered.
AllEntered == ENTERED_CPUS > logicId

\* One round of start_secondary_cpus; logic_cpu_id is counted up before the wait.
\* setup_startup_page and the IPIs, after which the CPU runs:
setup_startup_page == startPage' = logicId
start_cpu_x86(c) ==
    /\ OnX86({"LOCAL_APIC"}) \subseteq lazy /\ setup_startup_page
    /\ bootPc' = [bootPc EXCEPT ![c] = "ap_start", ![Primary] = "wait_entered"] /\ UNCHANGED startArg

\* psci::cpu_on or hart_start, whose error is at most logged.
psci_call(c) ==
    \/ bootPc' = [bootPc EXCEPT ![c] = "ap_start", ![Primary] = "wait_entered"]
    \/ bootPc' = [bootPc EXCEPT ![Primary] = "wait_entered"]
start_cpu_firmware(c) ==
    psci_call(c) /\ startArg' = [startArg EXCEPT ![c] = logicId] /\ UNCHANGED startPage

\* The spin table: the entry of the CPU is written first, the stack after it.
start_cpu_spin(c) ==
    bootPc' = [bootPc EXCEPT ![c] = "released", ![Primary] = "set_stack"] /\ UNCHANGED <<startPage, startArg>>
set_stack ==
    /\ bootPc[Primary] = "set_stack" /\ startPage' = logicId - 1
    /\ bootPc' = [c \in BootCpu |-> IF c = Primary THEN "wait_entered"
                                   ELSE IF bootPc[c] = "released" THEN "ap_start" ELSE bootPc[c]]
    /\ UNCHANGED <<method, started, logicId, startArg, bootStack, early, counters, lazy, handlers, areas, tp, bootIrq>>

start_secondary_cpu ==
    /\ bootPc[Primary] = "start_secondary_cpus" /\ started < SMP /\ started' = started + 1
    /\ IF started = Primary
         THEN UNCHANGED <<bootPc, logicId, startPage, startArg>>
         ELSE /\ logicId' = logicId + 1
              /\ CASE method = "x86" -> start_cpu_x86(started)
                   [] method = "firmware" -> start_cpu_firmware(started)
                   [] method = "spin" -> start_cpu_spin(started)
    /\ UNCHANGED <<method, bootStack, early, counters, lazy, handlers, areas, tp, bootIrq>>

wait_entered ==
    /\ AllEntered /\ Step(Primary, "wait_entered", "start_secondary_cpus")
    /\ UNCHANGED <<loop, counters, lazy, handlers, areas, tp, bootIrq>>

\* init_interrupt: the handler of the timer is registered, then interrupts are
\* enabled; then the CPU counts itself in.
init_interrupt ==
    /\ Step(Primary, "start_secondary_cpus", "inited") /\ started = SMP
    /\ handlers' = handlers \cup {"timer"} /\ bootIrq' = [bootIrq EXCEPT ![Primary] = TRUE]
    /\ UNCHANGED <<loop, counters, lazy, areas, tp>>

\* A secondary CPU takes the stack pointer it was given or finds; one that spins
\* does when an event wakes it, or earlier, and its entry has been written.
ap_start(c) ==
    /\ \/ Step(c, "ap_start", "rust_entry_secondary") /\ UNCHANGED early
       \/ Step(c, "released", "rust_entry_secondary") /\ early' = early \cup {c}
    /\ bootStack' = [bootStack EXCEPT ![c] = IF method = "firmware" THEN startArg[c] ELSE startPage]
    /\ UNCHANGED <<method, started, logicId, startPage, startArg, counters, lazy, handlers, areas, tp, bootIrq>>

rust_entry_secondary(c) ==
    /\ Use(c, OnX86({"IDT"}), "rust_entry_secondary", "entered")
    /\ set_local_thread_pointer(c) /\ areas' = init_tables(init_secondary(areas, c), c)
    /\ UNCHANGED <<loop, counters, lazy, handlers, bootIrq>>

\* rust_main_secondary up to the barrier: enter, remap, the local APIC and its
\* timer, the idle task.
Enter(c) ==
    /\ Step(c, "entered", "remap") /\ ENTERED_CPUS' = ENTERED_CPUS + 1
    /\ UNCHANGED <<loop, INITED_CPUS, lazy, handlers, areas, tp, bootIrq>>
platform_init_secondary(c) ==
    /\ Use(c, OnX86({"LOCAL_APIC"}), "platform_init_secondary", "init_scheduler_secondary")
    /\ UNCHANGED <<loop, counters, lazy, handlers, areas, tp, bootIrq>>
init_scheduler_secondary(c) ==
    /\ Step(c, "init_scheduler_secondary", "inited")
    /\ areas' = [areas EXCEPT ![tp[c]].IDLE_TASK = TRUE]
    /\ UNCHANGED <<loop, counters, lazy, handlers, tp, bootIrq>>
rust_main_secondary(c) ==
    /\ c # Primary
    /\ \/ Enter(c) \/ remap_kernel_memory(c, "platform_init_secondary")
       \/ platform_init_secondary(c) \/ init_scheduler_secondary(c)

is_init_ok == INITED_CPUS = SMP

\* The barrier: main on the primary CPU, interrupts and the idle loop on the others.
Barrier(c) ==
    \/ /\ Step(c, "inited", "wait") /\ INITED_CPUS' = INITED_CPUS + 1
       /\ UNCHANGED <<loop, ENTERED_CPUS, lazy, handlers, areas, tp, bootIrq>>
    \/ /\ is_init_ok /\ Step(c, "wait", IF c = Primary THEN "main" ELSE "run_idle")
       /\ bootIrq' = [bootIrq EXCEPT ![c] = TRUE]
       /\ UNCHANGED <<loop, counters, lazy, handlers, areas, tp>>

Next ==
    \/ rust_entry \/ platform_init \/ init_scheduler \/ init_drivers
    \/ remap_kernel_memory(Primary, "platform_init")
    \/ start_secondary_cpu \/ set_stack \/ wait_entered \/ init_interrupt
    \/ \E c \in BootCpu : ap_start(c) \/ rust_entry_secondary(c) \/ rust_main_secondary(c) \/ Barrier(c)

-----------------------------------------------------------------------------
\* The CPUs in S that have left their entry code run on the boot stack that
\* start_secondary_cpu was given for them.
OnGivenStack(S) ==
    \A c \in S \ {Primary} :
        bootPc[c] \notin {"off", "released", "ap_start"} => bootStack[c] = c - 1

\* mp.rs:32 of aarch64_raspi, "Starts the given secondary CPU with its boot
\* stack": whoever runs has the stack it was given, one woken early included.
OwnStack == OnGivenStack(BootCpu)

\* However the CPUs interleave: each boots on the stack given for it, unless it
\* leaves the spin table before its stack is written; no two work on
\* one per-CPU area, and none uses a static before it is initialised; a CPU that
\* takes timer interrupts has the handler they are dispatched to, and the idle
\* task and run queue it works on; and main begins when every CPU is ready and
\* knows who it is.
BootOrder ==
    /\ OnGivenStack(BootCpu \ early)
    /\ \A c, d \in BootCpu : c # d => (tp[c] = tp[d] => tp[c] = NoStack)
    /\ \A c \in BootCpu :
          /\ bootPc[c] # "panic"
          /\ bootIrq[c] => /\ "timer" \in handlers /\ {"RUN_QUEUE", "TIMER_LIST"} \subseteq lazy
                           /\ areas[tp[c]].IDLE_TASK /\ areas[tp[c]].traps
    /\ bootPc[Primary] = "main" =>
          \A c \in BootCpu : /\ areas[tp[c]].IDLE_TASK /\ areas[tp[c]].CPU_ID = c
                             /\ areas[tp[c]].IS_BSP <=> c = Primary
=============================================================================
