-------------------------------- MODULE Irq --------------------------------
(***************************************************************************)
(* Interrupts on the aarch64 platforms: crates/arm_gic, the platform's gic *)
(* module, the handler table and handle_irq of axruntime. PPIs are private *)
(* to a CPU, SPIs go to CPU 0. After the guard of handle_irq is dropped    *)
(* the interrupted task may be switched out, inside its exception. Beside  *)
(* it the periodic tick: crates/ratio, the generic timer and update_timer. *)
(* The clock is read in ticks of a frequency, deadlines are in nanoseconds *)
(* and both conversions multiply by a rounded binary fraction of Width     *)
(* bits. Interrupts may be late.                                           *)
(***************************************************************************)
EXTENDS Naturals, FiniteSets

CONSTANTS IrqCpu,           \* 0..n, CPU 0 being the primary
          PPI, SPI,         \* the interrupts, by type
          EnabledAtInit,    \* the interrupts platform_init enables
          Width,            \* bits of the fraction: 32 in the code
          NANOS_PER_SEC, PERIODIC_INTERVAL_NANOS,
          Frequencies,      \* of the counter
          MaxLate,          \* bound: ticks an interrupt is late
          MaxTicks          \* bound: ticks of a behaviour

Interrupt == PPI \cup SPI
Spurious == "1023"

VARIABLES gicd,             \* GICD_CTLR
          gicc,             \* the CPUs whose GICC_CTLR is set
          enabledIrq,       \* pairs of a CPU and an interrupt it would take
          pendingIrq, activeIrq,
          irqTable,         \* IRQ_HANDLER_TABLE: the interrupts with a handler
          irqAt,            \* per CPU: the step of its exception
          vector,           \* per CPU: what GICC_IAR returned
          freq, CNTPCT,     \* frequency and value of the counter
          NEXT_DEADLINE, fires,  \* the next deadline; the tick the timer fires at
          lastTick,         \* the tick of the last timer interrupt
          burst             \* how many set it to fire at this very tick

gic == <<gicd, gicc, enabledIrq, pendingIrq, activeIrq, irqTable, irqAt, vector>>
timer == <<freq, CNTPCT, NEXT_DEADLINE, fires, lastTick, burst>>

Init ==
    /\ gicd = FALSE /\ gicc = {} /\ enabledIrq = {} /\ pendingIrq = {} /\ activeIrq = {}
    /\ irqTable = {} /\ irqAt = [c \in IrqCpu |-> "init"] /\ vector = [c \in IrqCpu |-> Spurious]

\* The CPU a shared interrupt goes to, or the private one itself.
Target(c, i) == IF i \in PPI THEN c ELSE 0

set_enable(c, i) == enabledIrq' = enabledIrq \cup {<<Target(c, i), i>>}
Goto(c, step) == irqAt' = [irqAt EXCEPT ![c] = step]

\* init_primary and init_secondary with what platform_init enables after them;
\* the distributor forgets what was enabled or pending.
init(c) ==
    /\ irqAt[c] = "init" /\ (c = 0 \/ gicd) /\ Goto(c, "masked")
    /\ gicd' = TRUE /\ gicc' = gicc \cup {c}
    /\ LET mine == {<<Target(c, i), i>> : i \in EnabledAtInit}
       IN  enabledIrq' = IF c = 0 THEN mine ELSE enabledIrq \cup (mine \cap ({c} \X PPI))
    /\ pendingIrq' = IF c = 0 THEN {} ELSE pendingIrq
    /\ UNCHANGED <<activeIrq, irqTable, vector>>

\* register_handler_common: the entry is set once, and only then is the
\* interrupt enabled.
register_handler(c, i) ==
    /\ irqAt[c] \in {"masked", "run"} /\ i \notin irqTable
    /\ irqTable' = irqTable \cup {i} /\ set_enable(c, i)
    /\ UNCHANGED <<gicd, gicc, pendingIrq, activeIrq, irqAt, vector>>

enable_irqs(c) ==
    /\ irqAt[c] = "masked" /\ "timer" \in irqTable /\ Goto(c, "run")
    /\ UNCHANGED <<gicd, gicc, enabledIrq, pendingIrq, activeIrq, irqTable, vector>>

\* A device raises an interrupt.
Raise(c, i) ==
    /\ <<Target(c, i), i>> \notin pendingIrq /\ pendingIrq' = pendingIrq \cup {<<Target(c, i), i>>}
    /\ UNCHANGED <<gicd, gicc, enabledIrq, activeIrq, irqTable, irqAt, vector>>

\* What the controller signals to CPU c: nothing while an interrupt of the same
\* priority is active there.
Signalled(c) ==
    {p \in pendingIrq \cap enabledIrq : p[1] = c /\ gicd /\ c \in gicc /\ ~\E q \in activeIrq : q[1] = c}

\* The exception and the NoPreempt guard of handle_irq.
handle_irq_exception(c) ==
    /\ irqAt[c] = "run" /\ Signalled(c) # {} /\ Goto(c, "iar")
    /\ UNCHANGED <<gicd, gicc, enabledIrq, pendingIrq, activeIrq, irqTable, vector>>

\* GicCpuInterface::handle_irq: the read of GICC_IAR activates the interrupt,
\* a spurious one is not ended.
iar(c) ==
    /\ irqAt[c] = "iar"
    /\ \/ /\ Signalled(c) = {} /\ Goto(c, "unguard") /\ vector' = [vector EXCEPT ![c] = Spurious]
          /\ UNCHANGED <<pendingIrq, activeIrq>>
       \/ \E p \in Signalled(c) :
             /\ pendingIrq' = pendingIrq \ {p} /\ activeIrq' = activeIrq \cup {p}
             /\ vector' = [vector EXCEPT ![c] = p[2]] /\ Goto(c, "handler")
    /\ UNCHANGED <<gicd, gicc, enabledIrq, irqTable>>

\* dispatch_irq_common calls the handler, or warns; then GICC_EOIR is written.
eoi(c) ==
    /\ irqAt[c] = "handler" /\ Goto(c, "unguard") /\ activeIrq' = activeIrq \ {<<c, vector[c]>>}
    /\ UNCHANGED <<gicd, gicc, enabledIrq, pendingIrq, irqTable, vector>>

\* The guard is dropped; another task, itself interrupted before or new, may
\* run from here, and the CPU leaves the exception with interrupts enabled.
drop_guard(c) ==
    /\ irqAt[c] = "unguard" /\ Goto(c, "run")
    /\ UNCHANGED <<gicd, gicc, enabledIrq, pendingIrq, activeIrq, irqTable, vector>>

Next ==
    \E c \in IrqCpu :
        \/ init(c) \/ enable_irqs(c) \/ handle_irq_exception(c) \/ iar(c) \/ eoi(c) \/ drop_guard(c)
        \/ \E i \in Interrupt : register_handler(c, i) \/ Raise(c, i)

-----------------------------------------------------------------------------
\* Whatever interrupts a CPU has taken, handled or not, it has ended them all
\* before a task runs on it again or another is switched to: otherwise it
\* would never be interrupted again, and its tasks never preempted.
InterruptsEnded ==
    \A c \in IrqCpu : irqAt[c] \in {"run", "unguard"} => \A p \in activeIrq : p[1] # c

-----------------------------------------------------------------------------
\* Ratio::new: the largest shift for which the rounded multiplier fits, with
\* the common powers of two taken out.
Mult(n, d, shift) == (n * 2^shift + d \div 2) \div d
Ratio(n, d) ==
    LET fits == {s \in 0..Width : Mult(n, d, s) < 2^Width}
        shift == IF fits = {} THEN 0 ELSE CHOOSE s \in fits : \A t \in fits : t <= s
        mult == Mult(n, d, shift)
        twos == CHOOSE k \in 0..shift :
                    mult % 2^k = 0 /\ (k = shift \/ mult % 2^(k + 1) # 0)
    IN  [mult |-> mult \div 2^twos, shift |-> shift - twos]

mul_trunc(r, v) == (v * r.mult) \div 2^r.shift

ticks_to_nanos(t) == mul_trunc(Ratio(NANOS_PER_SEC, freq), t)
nanos_to_ticks(n) == mul_trunc(Ratio(freq, NANOS_PER_SEC), n)

\* init_early and init_percpu: the timer fires at once.
TimerInit ==
    /\ freq \in Frequencies /\ CNTPCT = 0 /\ NEXT_DEADLINE = 0 /\ fires = 0 /\ lastTick = 0
    /\ burst = 0

\* Time passes.
Count ==
    /\ CNTPCT < MaxTicks /\ CNTPCT < fires + MaxLate /\ CNTPCT' = CNTPCT + 1
    /\ burst' = 0 /\ UNCHANGED <<freq, NEXT_DEADLINE, fires, lastTick>>

\* set_oneshot_timer: a deadline that has passed fires at once.
set_oneshot_timer(deadline_ns) ==
    LET deadline == nanos_to_ticks(deadline_ns)
    IN  IF CNTPCT < deadline THEN fires' = deadline /\ burst' = 0
                             ELSE fires' = CNTPCT /\ burst' = burst + 1

\* Variant: a missed deadline is not skipped.
UpdateKeepsDeadline ==
    /\ CNTPCT >= fires /\ lastTick' = CNTPCT
    /\ NEXT_DEADLINE' = NEXT_DEADLINE + PERIODIC_INTERVAL_NANOS /\ set_oneshot_timer(NEXT_DEADLINE)
    /\ UNCHANGED <<freq, CNTPCT>>

\* update_timer, in the timer interrupt.
update_timer ==
    LET now == ticks_to_nanos(CNTPCT)
        deadline == IF now >= NEXT_DEADLINE THEN now + PERIODIC_INTERVAL_NANOS ELSE NEXT_DEADLINE
    IN  /\ CNTPCT >= fires /\ lastTick' = CNTPCT
        /\ NEXT_DEADLINE' = deadline + PERIODIC_INTERVAL_NANOS /\ set_oneshot_timer(deadline)
        /\ UNCHANGED <<freq, CNTPCT>>

TimerNext == Count \/ update_timer

-----------------------------------------------------------------------------
\* However late interrupts are taken, and for every frequency, ticks neither
\* stop nor pile up: the timer fires again at most a period after the interrupt
\* that set it, give or take the rounding of the two conversions, and of the
\* deadlines that were missed only one is made up for.
TickPeriodic ==
    /\ fires <= lastTick + (PERIODIC_INTERVAL_NANOS * freq) \div NANOS_PER_SEC + 2
    /\ burst <= 1
=============================================================================
