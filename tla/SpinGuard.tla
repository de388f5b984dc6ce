----------------------------- MODULE SpinGuard -----------------------------
(***************************************************************************)
(* The spin locks of crates/spinlock with the guards of crates/kernel_guard*)
(* they are built on: tasks of several CPUs lock and unlock, interrupts    *)
(* arrive wherever they are enabled and lock too, and on the way out of an *)
(* interrupt a task may be preempted. Without the feature smp a lock has   *)
(* no state of its own and its CPU always gets it.                         *)
(***************************************************************************)
EXTENDS Naturals, Sequences

CONSTANTS Cpu, GuardTask,
          HomeCpu,        \* the CPU of each task
          SpinLock,
          Guard,          \* per lock, its BaseGuard: "raw", "nopreempt", "noirq"
          HandlerLock,    \* the locks interrupt handlers take
          Smp,            \* the feature smp
          MaxDepth        \* bound, per task: frames on its stack, and failed try_locks

VARIABLES irq,            \* per CPU: interrupts enabled
          preempt,        \* per task: preempt_disable_count
          on,             \* per CPU: the task that runs
          bit,            \* the AtomicBool of each lock
          stack           \* per task: its lock calls and interrupts in progress

vars == <<irq, preempt, on, bit, stack>>

\* A frame of a lock call, at step at, with the interrupt state that is to be
\* restored; the frame of an interrupt has lock "irq", that of a call of resched
\* which switched to another task, "resched".
Frame(l, at) == [lock |-> l, at |-> at, saved |-> FALSE]
SwitchedOut(enabled) == [Frame("resched", "out") EXCEPT !.saved = enabled]

Init ==
    /\ irq = [c \in Cpu |-> TRUE] /\ preempt = [t \in GuardTask |-> 0]
    /\ on = [c \in Cpu |-> CHOOSE t \in GuardTask : HomeCpu[t] = c]
    /\ bit = [l \in SpinLock |-> FALSE]
    /\ stack = [t \in GuardTask |-> IF t = on[HomeCpu[t]] THEN << >> ELSE <<SwitchedOut(TRUE)>>]

Depth(t) == Len(stack[t])
Top(t) == stack[t][Depth(t)]
Below(s) == SubSeq(s, 1, Len(s) - 1)
At(c, step) == Depth(on[c]) > 0 /\ Top(on[c]).at = step
Goto(t, step) == stack' = [stack EXCEPT ![t][Depth(t)].at = step]
Pop(t) == stack' = [stack EXCEPT ![t] = Below(@)]
InHandler(t) == \E i \in 1..Depth(t) : stack[t][i].lock = "irq"

\* The call that runs, handler or task, has a frame of lock l.
Holds(t, l) ==
    \E i \in 1..Depth(t) : stack[t][i].lock = l /\ \A j \in i..Depth(t) : stack[t][j].lock # "irq"

\* enable_preempt(true) at the end of the frame: the task may be preempted when
\* nothing else forbids it, with interrupts off while the tasks are switched.
EnablePreempt(c, counted, rest) ==
    LET t == on[c]
    IN  /\ preempt' = IF counted THEN [preempt EXCEPT ![t] = @ - 1] ELSE preempt
        /\ \/ stack' = [stack EXCEPT ![t] = rest] /\ UNCHANGED <<irq, on>>
           \/ /\ counted /\ preempt[t] = 1
              /\ stack' = [stack EXCEPT ![t] = Append(rest, SwitchedOut(irq[c]))]
              /\ irq' = [irq EXCEPT ![c] = FALSE]
              /\ \E u \in GuardTask \ {t} : HomeCpu[u] = c /\ on' = [on EXCEPT ![c] = u]

\* The caller's side, as the docs of the lock types have it: a task does not
\* lock twice, handlers take only locks that are meant for them, SpinRaw is
\* used only with preemption and interrupts disabled, and a SpinNoPreempt that
\* handlers take, only with interrupts disabled.
MayLock(c, l) ==
    LET t == on[c]
    IN  /\ Depth(t) < MaxDepth[t] /\ (Depth(t) > 0 => Top(t).at = "in") /\ ~Holds(t, l)
        /\ InHandler(t) => l \in HandlerLock
        /\ Guard[l] = "raw" => ~irq[c] /\ preempt[t] > 0
        /\ Guard[l] = "nopreempt" /\ l \in HandlerLock => ~irq[c]

lock(c, l) ==
    /\ MayLock(c, l) /\ stack' = [stack EXCEPT ![on[c]] = Append(@, Frame(l, "acquire"))]
    /\ UNCHANGED <<irq, preempt, on, bit>>

\* Variant: interrupts stay as they are.
AcquireKeepsIrq(c) ==
    LET t == on[c]
        g == Guard[Top(t).lock]
    IN  \/ /\ At(c, "acquire") /\ Goto(t, IF g = "noirq" THEN "irq_save" ELSE "cas")
           /\ preempt' = IF g = "raw" THEN preempt ELSE [preempt EXCEPT ![t] = @ + 1]
           /\ UNCHANGED <<irq, on, bit>>
        \/ /\ At(c, "irq_save") /\ UNCHANGED <<irq, preempt, on, bit>>
           /\ stack' = [stack EXCEPT ![t][Depth(t)] = [@ EXCEPT !.at = "cas", !.saved = irq[c]]]

\* G::acquire: disable_preempt and then local_irq_save_and_disable.
acquire(c) ==
    LET t == on[c]
        g == Guard[Top(t).lock]
    IN  \/ /\ At(c, "acquire") /\ Goto(t, IF g = "noirq" THEN "irq_save" ELSE "cas")
           /\ preempt' = IF g = "raw" THEN preempt ELSE [preempt EXCEPT ![t] = @ + 1]
           /\ UNCHANGED <<irq, on, bit>>
        \/ /\ At(c, "irq_save") /\ irq' = [irq EXCEPT ![c] = FALSE]
           /\ stack' = [stack EXCEPT ![t][Depth(t)] = [@ EXCEPT !.at = "cas", !.saved = irq[c]]]
           /\ UNCHANGED <<preempt, on, bit>>

\* The compare_exchange that succeeds; without smp there is none.
CompareExchange(c) ==
    LET t == on[c]
    IN  /\ At(c, "cas") /\ (Smp => ~bit[Top(t).lock]) /\ Goto(t, "in")
        /\ bit' = IF Smp THEN [bit EXCEPT ![Top(t).lock] = TRUE] ELSE bit
        /\ UNCHANGED <<irq, preempt, on>>

\* try_lock that finds the lock taken: None is returned, and what G::acquire
\* did stays done.
try_lock(c) ==
    LET t == on[c]
    IN  /\ At(c, "cas") /\ Smp /\ bit[Top(t).lock] /\ Pop(t) /\ preempt[t] < MaxDepth[t]
        /\ UNCHANGED <<irq, preempt, on, bit>>

\* Dropping the guard: the lock is released, and then G::release.
drop(c) ==
    LET t == on[c]
    IN  /\ At(c, "in") /\ Top(t).lock \in SpinLock
        /\ bit' = [bit EXCEPT ![Top(t).lock] = FALSE]
        /\ Goto(t, "release") /\ UNCHANGED <<irq, preempt, on>>

\* G::release: local_irq_restore and then enable_preempt.
release(c) ==
    LET t == on[c]
        g == Guard[Top(t).lock]
    IN  \/ /\ At(c, "release") /\ Goto(t, "enable_preempt")
           /\ irq' = IF g = "noirq" THEN [irq EXCEPT ![c] = Top(t).saved] ELSE irq
           /\ UNCHANGED <<preempt, on, bit>>
        \/ /\ At(c, "enable_preempt") /\ UNCHANGED bit
           /\ EnablePreempt(c, g # "raw", Below(stack[t]))

\* An interrupt: the CPU disables interrupts, handle_irq takes a NoPreempt guard.
handle_irq(c) ==
    LET t == on[c]
    IN  /\ irq[c] /\ Depth(t) < MaxDepth[t]
        /\ irq' = [irq EXCEPT ![c] = FALSE] /\ preempt' = [preempt EXCEPT ![t] = @ + 1]
        /\ stack' = [stack EXCEPT ![t] = Append(@, Frame("irq", "in"))]
        /\ UNCHANGED <<on, bit>>

\* The guard of handle_irq is dropped.
HandlerDone(c) ==
    LET t == on[c]
    IN  /\ At(c, "in") /\ Top(t).lock = "irq" /\ UNCHANGED bit
        /\ EnablePreempt(c, TRUE, [stack[t] EXCEPT ![Depth(t)].at = "out"])

\* The return from the interrupt; and from the switch, when the task runs again.
Return(c) ==
    LET t == on[c]
    IN  /\ At(c, "out") /\ Pop(t)
        /\ irq' = [irq EXCEPT ![c] = Top(t).lock = "irq" \/ Top(t).saved]
        /\ UNCHANGED <<preempt, on, bit>>

Next ==
    \E c \in Cpu :
        \/ acquire(c) \/ CompareExchange(c) \/ try_lock(c) \/ drop(c) \/ release(c)
        \/ handle_irq(c) \/ HandlerDone(c) \/ Return(c)
        \/ \E l \in SpinLock : lock(c, l)

Spec == Init /\ [][Next]_vars

-----------------------------------------------------------------------------
\* The guards do their work: no two calls of one CPU, of a task and the handler
\* that interrupted it or of two tasks, are both at or past the compare_exchange
\* of the same lock. With smp the second would spin for ever, without it both
\* would be in the critical section.
NoSelfDeadlock ==
    \A t, u \in GuardTask : HomeCpu[t] = HomeCpu[u] =>
        \A i \in 1..Depth(t), j \in 1..Depth(u) :
            /\ stack[t][i].lock = stack[u][j].lock /\ stack[t][i].lock \in SpinLock
            /\ stack[t][i].at \in {"cas", "in"} /\ stack[u][j].at \in {"cas", "in"}
            => t = u /\ i = j

\* A task that is in no lock call and no handler runs with interrupts enabled
\* and can be preempted, whatever it locked before. In no run: a try_lock that
\* fails acquires its guard and never releases it (base.rs:122), so that it fails
\* as soon as one does.
GuardsRestored ==
    \A c \in Cpu : stack[on[c]] = << >> => irq[c] /\ preempt[on[c]] = 0
=============================================================================
