------------------------------- MODULE AxTask -------------------------------
(***************************************************************************)
(* The task manager of axtask on one or several CPUs: the run queue, wait  *)
(* queues, timed wakeups, join, exit and the gc task.                      *)
(*                                                                         *)
(* A critical section of the RUN_QUEUE spin lock is one step, with the     *)
(* exception of exit_current, which is split where another CPU can look in *)
(* without that lock. Reads and writes outside that lock are steps of      *)
(* their own. The scheduler is the default, FIFO. Each client task makes   *)
(* at most MaxCalls API calls of its choice, and may exit.                 *)
(***************************************************************************)
EXTENDS Naturals, Sequences, FiniteSets

CONSTANTS Task,        \* all tasks but the idle ones
          MainTask,    \* the init task, current on BootCpu at the start
          GcTask,      \* the task running gc_entry
          Cpu, BootCpu,
          WaitQueue,   \* the wait queues of the clients
          ExitQueue,   \* WAIT_FOR_EXIT
          IDLE,        \* the idle task of whichever CPU it is current on
          NONE,        \* no task, no CPU
          PREEMPT,     \* the "preempt" feature
          Ops,         \* the API calls that the clients make
          MaxCalls,    \* bound: calls per client
          MaxTime,     \* bound: clock values
          Durations    \* the durations that clients wait or sleep for

ASSUME TaskAssumption ==
    /\ MainTask \in Task /\ GcTask \in Task /\ MainTask # GcTask
    /\ BootCpu \in Cpu
    /\ IDLE \notin Task /\ NONE \notin Task /\ NONE \notin Cpu
    /\ PREEMPT \in BOOLEAN
    /\ MaxCalls \in Nat /\ MaxTime \in Nat /\ Durations \subseteq Nat

VARIABLES rq,         \* what RUN_QUEUE protects: task states, ready queue, current tasks
          rqlock,     \* the CPU inside a split critical section of RUN_QUEUE
          leaving,    \* per CPU: the exited task whose stack it has not left yet
          wq,         \* WaitQueue::queue of every queue, a task naming its wait_for_exit
          inwq,       \* TaskInner::in_wait_queue
          timers,     \* TIMER_LIST: a sequence of <<deadline, task>>
          intl,       \* TaskInner::in_timer_list
          now,        \* current_time()
          irq,        \* per CPU: "off", or the place in check_events
          firing,     \* per CPU: the task of the event popped by expire_one
          cond,       \* per client queue: the condition its waiters wait for
          pc, loc,    \* per task: place in the running API call, and its locals
          calls,      \* per task: API calls made
          exited,     \* EXITED_TASKS
          gc,         \* locals of gc_entry: n, and the task popped
          handle,     \* the tasks to which a client still holds an AxTaskRef
          freed,      \* the tasks dropped by gc_entry
          events      \* history: what reached a task during its current call

tvars == <<pc, loc, calls, events>>
wvars == <<wq, inwq, cond>>
cvars == <<timers, intl, now, irq, firing>>
gvars == <<exited, gc, handle, freed>>
vars == <<rq, rqlock, leaving, tvars, wvars, cvars, gvars>>

Queue == WaitQueue \union {ExitQueue} \union Task
States == {"New", "Running", "Ready", "Blocked", "Exited"}
NoLocals == [op |-> "none", q |-> NONE, deadline |-> 0, timeout |-> FALSE]

\* VecDeque::remove, BinaryHeap::pop: q without the member at i.
Removed(q, i) == SubSeq(q, 1, i - 1) \o SubSeq(q, i + 1, Len(q))

\* retain: q without its members that are in D, the others in their order.
Without(q, D) ==
    LET kept[i \in 0..Len(q)] ==
            IF i = 0 THEN << >>
            ELSE IF q[i] \in D THEN kept[i - 1] ELSE Append(kept[i - 1], q[i])
    IN kept[Len(q)]

Init ==
    /\ rq = [state   |-> [t \in Task |-> IF t = MainTask THEN "Running"
                                         ELSE IF t = GcTask THEN "Ready" ELSE "New"],
             ready   |-> <<GcTask>>,
             current |-> [c \in Cpu |-> IF c = BootCpu THEN MainTask ELSE IDLE],
             need    |-> [c \in Cpu |-> FALSE]]
    /\ rqlock = NONE /\ leaving = [c \in Cpu |-> NONE]
    /\ wq = [q \in Queue |-> << >>] /\ inwq = [t \in Task |-> FALSE]
    /\ timers = << >> /\ intl = [t \in Task |-> FALSE] /\ now = 0
    /\ irq = [c \in Cpu |-> "off"] /\ firing = [c \in Cpu |-> NONE]
    /\ cond = [q \in WaitQueue |-> FALSE]
    /\ pc = [t \in Task |-> IF t = GcTask THEN "gc_len" ELSE "run"]
    /\ loc = [t \in Task |-> NoLocals]
    /\ calls = [t \in Task |-> 0]
    /\ exited = << >> /\ gc = [n |-> 0, task |-> NONE]
    /\ handle = {} /\ freed = {}
    /\ events = [t \in Task |-> {}]

-----------------------------------------------------------------------------
(* AxRunQueue: methods on the data under the lock, as functions of r.       *)
(* need_resched is kept per CPU: only the flag of a current task is read,   *)
(* and switch_to clears the flag of the task it switches to.                *)

\* Variant: no is_blocked() check.
UnblockUnchecked(r, c, t, resched) ==
    [r EXCEPT !.state[t] = "Ready", !.ready = Append(@, t),
              !.need[c] = @ \/ (resched /\ PREEMPT)]

unblock_task(r, c, t, resched) ==
    IF r.state[t] = "Blocked"
    THEN [r EXCEPT !.state[t] = "Ready", !.ready = Append(@, t),
                   !.need[c] = @ \/ (resched /\ PREEMPT)]
    ELSE r

switch_to(r, c, next) ==
    [r EXCEPT !.state = IF next = IDLE THEN @ ELSE [@ EXCEPT ![next] = "Running"],
              !.current[c] = next,
              !.need[c] = FALSE]

pick_next_task(r, c) ==
    IF r.ready = << >>
    THEN switch_to(r, c, IDLE)
    ELSE switch_to([r EXCEPT !.ready = Tail(@)], c, Head(r.ready))

\* Variant: the previous task goes back whatever its state.
PutPrevAlways(r, prev) ==
    IF prev # IDLE
    THEN [r EXCEPT !.state[prev] = IF @ = "Running" THEN "Ready" ELSE @, !.ready = Append(@, prev)]
    ELSE r

put_prev_task(r, prev) ==
    IF prev # IDLE /\ r.state[prev] = "Running"
    THEN [r EXCEPT !.state[prev] = "Ready", !.ready = Append(@, prev)]
    ELSE r

resched(r, c) == pick_next_task(put_prev_task(r, r.current[c]), c)

\* Variant: the state is not set to Blocked.
BlockNotBlocked(r, c) == resched(r, c)

block_current(r, c) == resched([r EXCEPT !.state[r.current[c]] = "Blocked"], c)

-----------------------------------------------------------------------------
(* Steps of the task that is current on CPU c. A pending preemption comes   *)
(* first: enable_preempt() serves it when the guard before it is dropped.   *)

At(c, t, from) ==
    /\ rq.current[c] = t /\ pc[t] = from
    /\ irq[c] = "off" /\ ~rq.need[c] /\ leaving[c] = NONE

RunQueueFree == rqlock = NONE

Goto(t, to) == pc' = [pc EXCEPT ![t] = to]

\* A client calls op.
Call(c, t, op) ==
    /\ At(c, t, "run") /\ op \in Ops /\ calls[t] < MaxCalls
    /\ calls' = [calls EXCEPT ![t] = @ + 1]

yield_now(c, t) ==
    /\ Call(c, t, "yield") /\ RunQueueFree
    /\ rq' = resched(rq, c)
    /\ UNCHANGED <<rqlock, leaving, pc, loc, events, wvars, cvars, gvars>>

spawn(c, t, u) ==
    /\ Call(c, t, "spawn") /\ RunQueueFree
    /\ rq.state[u] = "New"
    /\ rq' = [rq EXCEPT !.state[u] = "Ready", !.ready = Append(@, u)]
    /\ handle' = handle \union {u}
    /\ UNCHANGED <<rqlock, leaving, pc, loc, events, wvars, cvars, exited, gc, freed>>

\* The last AxTaskRef of a client goes; a join through it has returned.
drop_handle(c, t, u) ==
    /\ Call(c, t, "drop_handle") /\ u \in handle
    /\ \A v \in Task : ~(loc[v].op = "join" /\ loc[v].q = u)
    /\ handle' = handle \ {u}
    /\ UNCHANGED <<rq, rqlock, leaving, pc, loc, events, wvars, cvars, exited, gc, freed>>

preempt_resched(c) ==
    /\ rq.need[c] /\ irq[c] = "off" /\ leaving[c] = NONE /\ RunQueueFree
    /\ rq' = resched(rq, c)
    /\ UNCHANGED <<rqlock, leaving, tvars, wvars, cvars, gvars>>

\* run_idle(): yield_now() whenever there is somebody to yield to.
run_idle(c) ==
    /\ rq.current[c] = IDLE /\ irq[c] = "off" /\ ~rq.need[c] /\ leaving[c] = NONE
    /\ RunQueueFree /\ rq.ready # << >>
    /\ rq' = resched(rq, c)
    /\ UNCHANGED <<rqlock, leaving, tvars, wvars, cvars, gvars>>

-----------------------------------------------------------------------------
(* WaitQueue *)

condition(q) == IF q \in Task THEN rq.state[q] = "Exited" ELSE cond[q]

\* block_current() with the closure that pushes the task on queue q.
BlockOn(c, t, q) ==
    /\ rq' = block_current(rq, c)
    /\ inwq' = [inwq EXCEPT ![t] = TRUE]
    /\ wq' = [wq EXCEPT ![q] = Append(@, t)]

\* Variant: in_wait_queue stays set.
PopKeepsFlag(q) ==
    /\ wq' = [wq EXCEPT ![q] = Tail(@)]
    /\ events' = [events EXCEPT ![Head(wq[q])] = @ \union {"notify"}]
    /\ UNCHANGED inwq

\* pop_front() and set_in_wait_queue(false); unblock_task() goes with it.
Pop(q) ==
    /\ inwq' = [inwq EXCEPT ![Head(wq[q])] = FALSE]
    /\ wq' = [wq EXCEPT ![q] = Tail(@)]
    /\ events' = [events EXCEPT ![Head(wq[q])] = @ \union {"notify"}]

\* notify_one_locked() on a queue that is not empty.
NotifyLocked(c, q, resch) ==
    /\ rq' = unblock_task(rq, c, Head(wq[q]), resch)
    /\ Pop(q)

\* A call that may block begins, with these locals.
Locals(t, op, q, deadline) ==
    /\ loc' = [loc EXCEPT ![t] = [op |-> op, q |-> q, deadline |-> deadline, timeout |-> FALSE]]
    /\ events' = [events EXCEPT ![t] = {}]

\* cancel_events(), first half: leave the queue if still in it. The test of the
\* flag and the removal under the lock of the queue are one step: a notification
\* in between takes t out of the queue itself and clears the flag, and then the
\* removal finds nothing and the flag is cleared again.
CancelWait(c, t) ==
    /\ At(c, t, "cancel_wait")
    /\ wq' = IF inwq[t] THEN [wq EXCEPT ![loc[t].q] = Without(@, {t})] ELSE wq
    /\ inwq' = [inwq EXCEPT ![t] = FALSE]
    /\ Goto(t, "cancel_alarm")
    /\ UNCHANGED <<rq, rqlock, leaving, loc, calls, events, cond, cvars, gvars>>

\* Variant: the alarm stays in the timer list.
AlarmNotCancelled(c, t) ==
    /\ At(c, t, "cancel_alarm")
    /\ intl' = [intl EXCEPT ![t] = FALSE]
    /\ Goto(t, IF t = GcTask THEN "gc_len" ELSE "run")
    /\ loc' = [loc EXCEPT ![t] = NoLocals]
    /\ UNCHANGED <<rq, rqlock, leaving, calls, events, wvars, timers, now, irq, firing, gvars>>

\* ... second half: cancel_alarm() if still in the timer list. The call returns.
CancelAlarm(c, t) ==
    /\ At(c, t, "cancel_alarm")
    /\ timers' = IF intl[t] THEN Without(timers, (0..MaxTime) \X {t}) ELSE timers
    /\ intl' = [intl EXCEPT ![t] = FALSE]
    /\ Goto(t, IF t = GcTask THEN "gc_len" ELSE "run")
    /\ loc' = [loc EXCEPT ![t] = NoLocals]
    /\ UNCHANGED <<rq, rqlock, leaving, calls, events, wvars, now, irq, firing, gvars>>

wait(c, t, q) ==
    /\ Call(c, t, "wait") /\ RunQueueFree
    /\ BlockOn(c, t, q)
    /\ Locals(t, "wait", q, 0) /\ Goto(t, "cancel_wait")
    /\ UNCHANGED <<rqlock, leaving, cond, cvars, gvars>>

wait_until(c, t, q) ==
    /\ Call(c, t, "wait_until")
    /\ Locals(t, "wait_until", q, 0) /\ Goto(t, "wait_until")
    /\ UNCHANGED <<rq, rqlock, leaving, wvars, cvars, gvars>>

\* TaskInner::join() of u: wait_until on its wait_for_exit queue.
join(c, t, u) ==
    /\ Call(c, t, "join") /\ u \in handle \ {t}
    /\ Locals(t, "join", u, 0) /\ Goto(t, "wait_until")
    /\ UNCHANGED <<rq, rqlock, leaving, wvars, cvars, gvars>>

\* One turn of the loop of wait_until.
WaitUntilLoop(c, t) ==
    /\ At(c, t, "wait_until") /\ RunQueueFree
    /\ IF condition(loc[t].q)
       THEN Goto(t, "cancel_wait") /\ UNCHANGED <<rq, inwq, wq>>
       ELSE BlockOn(c, t, loc[t].q) /\ UNCHANGED pc
    /\ UNCHANGED <<rqlock, leaving, loc, calls, events, cond, cvars, gvars>>

\* wait_timeout and wait_timeout_until begin alike: set_alarm_wakeup().
SetAlarm(c, t, op, q, d) ==
    /\ Call(c, t, op) /\ now + d <= MaxTime
    /\ timers' = Append(timers, <<now + d, t>>)
    /\ intl' = [intl EXCEPT ![t] = TRUE]
    /\ Locals(t, op, q, now + d)
    /\ UNCHANGED <<rq, rqlock, leaving, wvars, now, irq, firing, gvars>>

wait_timeout(c, t, q, d) == SetAlarm(c, t, "wait_timeout", q, d) /\ Goto(t, "timeout_block")

TimeoutBlock(c, t) ==
    /\ At(c, t, "timeout_block") /\ RunQueueFree
    /\ BlockOn(c, t, loc[t].q) /\ Goto(t, "timeout_read")
    /\ UNCHANGED <<rqlock, leaving, loc, calls, events, cond, cvars, gvars>>

\* "still in the wait queue, must have timed out"
TimeoutRead(c, t) ==
    /\ At(c, t, "timeout_read")
    /\ loc' = [loc EXCEPT ![t].timeout = inwq[t]]
    /\ Goto(t, "cancel_wait")
    /\ UNCHANGED <<rq, rqlock, leaving, calls, events, wvars, cvars, gvars>>

wait_timeout_until(c, t, q, d) ==
    SetAlarm(c, t, "wait_timeout_until", q, d) /\ Goto(t, "until_clock")

\* while current_time() < deadline ...
UntilClock(c, t) ==
    /\ At(c, t, "until_clock")
    /\ Goto(t, IF now < loc[t].deadline THEN "until_lock" ELSE "cancel_wait")
    /\ loc' = [loc EXCEPT ![t].timeout = now >= loc[t].deadline]
    /\ UNCHANGED <<rq, rqlock, leaving, calls, events, wvars, cvars, gvars>>

\* ... lock RUN_QUEUE, evaluate the condition, block.
UntilLock(c, t) ==
    /\ At(c, t, "until_lock") /\ RunQueueFree
    /\ IF condition(loc[t].q)
       THEN Goto(t, "cancel_wait") /\ UNCHANGED <<rq, inwq, wq>>
       ELSE Goto(t, "until_clock") /\ BlockOn(c, t, loc[t].q)
    /\ UNCHANGED <<rqlock, leaving, loc, calls, events, cond, cvars, gvars>>

\* A client makes the condition of q true, or false again.
SetCondition(c, t, q) ==
    /\ Call(c, t, "set") /\ q \in WaitQueue
    /\ \E b \in BOOLEAN : cond' = [cond EXCEPT ![q] = b]
    /\ UNCHANGED <<rq, rqlock, leaving, pc, loc, events, wq, inwq, cvars, gvars>>

notify_one(c, t, q, resch) ==
    /\ Call(c, t, "notify_one") /\ RunQueueFree
    /\ IF wq[q] # << >> THEN NotifyLocked(c, q, resch) ELSE UNCHANGED <<rq, inwq, wq, events>>
    /\ UNCHANGED <<rqlock, leaving, pc, loc, cond, cvars, gvars>>

\* notify_all(): one task per turn, RUN_QUEUE unlocked in between.
notify_all(c, t, q) ==
    /\ Call(c, t, "notify_all")
    /\ Locals(t, "notify_all", q, 0) /\ Goto(t, "notify_all")
    /\ UNCHANGED <<rq, rqlock, leaving, wvars, cvars, gvars>>

NotifyAllLoop(c, t, resch) ==
    /\ At(c, t, "notify_all") /\ RunQueueFree
    /\ IF wq[loc[t].q] # << >>
       THEN NotifyLocked(c, loc[t].q, resch) /\ UNCHANGED <<pc, loc>>
       ELSE /\ Goto(t, "run") /\ loc' = [loc EXCEPT ![t] = NoLocals]
            /\ UNCHANGED <<rq, inwq, wq, events>>
    /\ UNCHANGED <<rqlock, leaving, calls, cond, cvars, gvars>>

\* Variant: the front of the queue is removed in place of u.
NotifyTaskFront(c, t, q, u, resch) ==
    /\ Call(c, t, "notify_task") /\ RunQueueFree
    /\ \E i \in 1..Len(wq[q]) : wq[q][i] = u
    /\ wq' = [wq EXCEPT ![q] = Tail(@)]
    /\ rq' = unblock_task(rq, c, u, resch)
    /\ inwq' = [inwq EXCEPT ![u] = FALSE]
    /\ events' = [events EXCEPT ![u] = @ \union {"notify"}]
    /\ UNCHANGED <<rqlock, leaving, pc, loc, cond, cvars, gvars>>

\* notify_task(): the first entry of u, wherever it is in the queue.
notify_task(c, t, q, u, resch) ==
    /\ Call(c, t, "notify_task") /\ RunQueueFree
    /\ \E i \in 1..Len(wq[q]) :
          /\ wq[q][i] = u /\ \A j \in 1..(i - 1) : wq[q][j] # u
          /\ wq' = [wq EXCEPT ![q] = Removed(@, i)]
    /\ rq' = unblock_task(rq, c, u, resch)
    /\ inwq' = [inwq EXCEPT ![u] = FALSE]
    /\ events' = [events EXCEPT ![u] = @ \union {"notify"}]
    /\ UNCHANGED <<rqlock, leaving, pc, loc, cond, cvars, gvars>>

-----------------------------------------------------------------------------
(* Timers *)

\* sleep_until(): alarm, Blocked and resched under the one lock.
sleep_until(c, t, deadline) ==
    /\ Call(c, t, "sleep") /\ RunQueueFree
    /\ IF now < deadline
       THEN /\ timers' = Append(timers, <<deadline, t>>)
            /\ intl' = [intl EXCEPT ![t] = TRUE]
            /\ rq' = block_current(rq, c)
            /\ Locals(t, "sleep", NONE, deadline) /\ Goto(t, "sleep")
       ELSE UNCHANGED <<timers, intl, rq, loc, events, pc>>
    /\ UNCHANGED <<rqlock, leaving, wvars, now, irq, firing, gvars>>

SleepReturn(c, t) ==
    /\ At(c, t, "sleep")
    /\ Goto(t, "run") /\ loc' = [loc EXCEPT ![t] = NoLocals]
    /\ UNCHANGED <<rq, rqlock, leaving, calls, events, wvars, cvars, gvars>>

ClockTick ==
    /\ now < MaxTime
    /\ now' = now + 1
    /\ UNCHANGED <<rq, rqlock, leaving, tvars, wvars, timers, intl, irq, firing, gvars>>

\* Variant: one tick too early.
ExpiredEarly(i) ==
    /\ timers[i][1] <= now + 1
    /\ \A j \in 1..Len(timers) : timers[i][1] <= timers[j][1]

Expired(i) ==
    /\ timers[i][1] <= now
    /\ \A j \in 1..Len(timers) : timers[i][1] <= timers[j][1]

\* The timer interrupt: the handler calls check_events().
timer_irq(c) ==
    /\ irq[c] = "off" /\ rqlock # c /\ leaving[c] = NONE
    /\ \E i \in 1..Len(timers) : Expired(i)
    /\ irq' = [irq EXCEPT ![c] = "check"]
    /\ UNCHANGED <<rq, rqlock, leaving, tvars, wvars, timers, intl, now, firing, gvars>>

\* Variant: all events of that deadline are taken out, one is delivered.
ExpireAll(c) ==
    /\ irq[c] = "check"
    /\ \/ \E i \in 1..Len(timers) :
            /\ Expired(i)
            /\ timers' = Without(timers, {timers[i][1]} \X Task)
            /\ firing' = [firing EXCEPT ![c] = timers[i][2]]
            /\ irq' = [irq EXCEPT ![c] = "fire"]
       \/ /\ \A i \in 1..Len(timers) : ~Expired(i)
          /\ irq' = [irq EXCEPT ![c] = "off"]
          /\ UNCHANGED <<timers, firing>>
    /\ UNCHANGED <<rq, rqlock, leaving, tvars, wvars, intl, now, gvars>>

\* expire_one(now) under the lock of TIMER_LIST; the lock is released.
ExpireOne(c) ==
    /\ irq[c] = "check"
    /\ \/ \E i \in 1..Len(timers) :
            /\ Expired(i)
            /\ timers' = Removed(timers, i)
            /\ firing' = [firing EXCEPT ![c] = timers[i][2]]
            /\ irq' = [irq EXCEPT ![c] = "fire"]
       \/ /\ \A i \in 1..Len(timers) : ~Expired(i)
          /\ irq' = [irq EXCEPT ![c] = "off"]
          /\ UNCHANGED <<timers, firing>>
    /\ UNCHANGED <<rq, rqlock, leaving, tvars, wvars, intl, now, gvars>>

\* TaskWakeupEvent::callback()
callback(c) ==
    /\ irq[c] = "fire" /\ RunQueueFree
    /\ intl' = [intl EXCEPT ![firing[c]] = FALSE]
    /\ rq' = unblock_task(rq, c, firing[c], TRUE)
    /\ events' = [events EXCEPT ![firing[c]] = @ \union {"timer"}]
    /\ firing' = [firing EXCEPT ![c] = NONE]
    /\ irq' = [irq EXCEPT ![c] = "check"]
    /\ UNCHANGED <<rqlock, leaving, pc, loc, calls, wvars, timers, now, gvars>>

-----------------------------------------------------------------------------
(* exit_current(), in the critical section that rqlock marks. *)

\* The init task: clear EXITED_TASKS and terminate, the lock still held.
MainExit(c) ==
    /\ Call(c, MainTask, "main_exit") /\ RunQueueFree
    /\ rqlock' = c /\ exited' = << >>
    /\ Goto(MainTask, "terminated")
    /\ UNCHANGED <<rq, leaving, loc, events, wvars, cvars, gc, handle, freed>>

ExitBegin(c, t) ==
    /\ At(c, t, "run") /\ "exit" \in Ops /\ t # MainTask /\ RunQueueFree
    /\ rqlock' = c
    /\ rq' = [rq EXCEPT !.state[t] = "Exited"]
    /\ Goto(t, "exit_notify")
    /\ UNCHANGED <<leaving, loc, calls, events, wvars, cvars, gvars>>

\* notify_exit(): notify_all_locked() on wait_for_exit.
ExitNotify(c, t) ==
    /\ At(c, t, "exit_notify") /\ wq[t] # << >>
    /\ NotifyLocked(c, t, FALSE)
    /\ UNCHANGED <<rqlock, leaving, pc, loc, calls, cond, cvars, gvars>>

\* Variant: those who join are not notified.
ExitUnnotified(c, t) ==
    /\ At(c, t, "exit_notify")
    /\ exited' = Append(exited, t)
    /\ Goto(t, "exit_resched")
    /\ UNCHANGED <<rq, rqlock, leaving, loc, calls, events, wvars, cvars, gc, handle, freed>>

ExitPush(c, t) ==
    /\ At(c, t, "exit_notify") /\ wq[t] = << >>
    /\ exited' = Append(exited, t)
    /\ Goto(t, "exit_resched")
    /\ UNCHANGED <<rq, rqlock, leaving, loc, calls, events, wvars, cvars, gc, handle, freed>>

\* WAIT_FOR_EXIT.notify_one_locked(), resched() up to set_current(): the
\* current pointer and its reference are gone, the CPU is still on t's stack.
ExitResched(c, t) ==
    /\ At(c, t, "exit_resched")
    /\ IF wq[ExitQueue] # << >>
       THEN /\ rq' = resched(unblock_task(rq, c, Head(wq[ExitQueue]), FALSE), c)
            /\ Pop(ExitQueue)
       ELSE rq' = resched(rq, c) /\ UNCHANGED <<wq, inwq, events>>
    /\ leaving' = [leaving EXCEPT ![c] = t]
    /\ UNCHANGED <<rqlock, pc, loc, calls, cond, cvars, gvars>>

\* The context switch is done and the next task has released RUN_QUEUE.
SwitchDone(c) ==
    /\ leaving[c] # NONE
    /\ leaving' = [leaving EXCEPT ![c] = NONE]
    /\ rqlock' = NONE
    /\ UNCHANGED <<rq, tvars, wvars, cvars, gvars>>

-----------------------------------------------------------------------------
(* gc_entry() *)

Occurrences(s, u) == Cardinality({i \in 1..Len(s) : s[i] = u})

\* Arc::strong_count()
strong_count(u) ==
    Cardinality({c \in Cpu : rq.current[c] = u}) + Cardinality({c \in Cpu : firing[c] = u})
    + Cardinality({i \in 1..Len(timers) : timers[i][2] = u})
    + Cardinality(UNION {{q} \X {i \in 1..Len(wq[q]) : wq[q][i] = u} : q \in Queue})
    + Occurrences(rq.ready, u) + Occurrences(exited, u)
    + Cardinality({u} \intersect handle) + Cardinality({u} \intersect {gc.task})

GcLen(c) ==
    /\ At(c, GcTask, "gc_len")
    /\ gc' = [gc EXCEPT !.n = Len(exited)]
    /\ Goto(GcTask, "gc_loop")
    /\ UNCHANGED <<rq, rqlock, leaving, loc, calls, events, wvars, cvars, exited, handle, freed>>

GcPop(c) ==
    /\ At(c, GcTask, "gc_loop") /\ gc.n > 0
    /\ IF exited # << >>
       THEN /\ gc' = [n |-> gc.n - 1, task |-> Head(exited)]
            /\ exited' = Tail(exited)
            /\ Goto(GcTask, "gc_check")
       ELSE gc' = [gc EXCEPT !.n = @ - 1] /\ UNCHANGED <<exited, pc>>
    /\ UNCHANGED <<rq, rqlock, leaving, loc, calls, events, wvars, cvars, handle, freed>>

\* Variant: the reference count is not looked at.
GcUnchecked(c) ==
    /\ At(c, GcTask, "gc_check")
    /\ freed' = freed \union {gc.task}
    /\ gc' = [gc EXCEPT !.task = NONE]
    /\ Goto(GcTask, "gc_loop")
    /\ UNCHANGED <<rq, rqlock, leaving, loc, calls, events, wvars, cvars, exited, handle>>

\* Drop the task if this is its last reference, push it back otherwise.
GcCheck(c) ==
    /\ At(c, GcTask, "gc_check")
    /\ IF strong_count(gc.task) = 1
       THEN freed' = freed \union {gc.task} /\ UNCHANGED exited
       ELSE exited' = Append(exited, gc.task) /\ UNCHANGED freed
    /\ gc' = [gc EXCEPT !.task = NONE]
    /\ Goto(GcTask, "gc_loop")
    /\ UNCHANGED <<rq, rqlock, leaving, loc, calls, events, wvars, cvars, handle>>

\* WAIT_FOR_EXIT.wait()
GcWait(c) ==
    /\ At(c, GcTask, "gc_loop") /\ gc.n = 0 /\ RunQueueFree
    /\ BlockOn(c, GcTask, ExitQueue)
    /\ Locals(GcTask, "wait", ExitQueue, 0) /\ Goto(GcTask, "cancel_wait")
    /\ UNCHANGED <<rqlock, leaving, calls, cond, cvars, gvars>>

-----------------------------------------------------------------------------
Client(c, t) ==
    \/ yield_now(c, t)
    \/ \E u \in Task : spawn(c, t, u) \/ drop_handle(c, t, u) \/ join(c, t, u)
    \/ \E q \in WaitQueue :
          \/ wait(c, t, q) \/ wait_until(c, t, q) \/ SetCondition(c, t, q)
          \/ \E d \in Durations : wait_timeout(c, t, q, d) \/ wait_timeout_until(c, t, q, d)
          \/ \E b \in BOOLEAN : notify_one(c, t, q, b)
          \/ \E u \in Task, b \in BOOLEAN : notify_task(c, t, q, u, b)
          \/ notify_all(c, t, q)
    \/ \E d \in 0..MaxTime : sleep_until(c, t, d)
    \/ ExitBegin(c, t)

InCall(c, t) ==
    \/ CancelWait(c, t) \/ CancelAlarm(c, t) \/ WaitUntilLoop(c, t)
    \/ TimeoutBlock(c, t) \/ TimeoutRead(c, t) \/ UntilClock(c, t) \/ UntilLock(c, t)
    \/ SleepReturn(c, t)
    \/ \E b \in BOOLEAN : NotifyAllLoop(c, t, b)
    \/ ExitNotify(c, t) \/ ExitPush(c, t) \/ ExitResched(c, t)

GcStep(c) == GcLen(c) \/ GcPop(c) \/ GcCheck(c) \/ GcWait(c)

Interrupt(c) == timer_irq(c) \/ ExpireOne(c) \/ callback(c)

CpuStep(c) ==
    \/ \E t \in Task : Client(c, t) \/ InCall(c, t)
    \/ MainExit(c) \/ GcStep(c)
    \/ preempt_resched(c) \/ run_idle(c) \/ SwitchDone(c)
    \/ Interrupt(c)

Next == ClockTick \/ \E c \in Cpu : CpuStep(c)

Spec == Init /\ [][Next]_vars

\* A CPU that can execute something does, and time passes. An idle CPU that
\* waits for interrupts is woken by the periodic timer.
Fairness == WF_vars(ClockTick) /\ \A c \in Cpu : WF_vars(CpuStep(c))

FairSpec == Spec /\ Fairness

-----------------------------------------------------------------------------
Locations == {"run", "cancel_wait", "cancel_alarm", "wait_until", "timeout_block", "timeout_read",
              "until_clock", "until_lock", "notify_all", "sleep", "terminated",
              "exit_notify", "exit_resched", "gc_len", "gc_loop", "gc_check"}
\* Inside a call on a wait queue.
OnQueue == {"cancel_wait", "wait_until", "timeout_block", "timeout_read", "until_clock",
            "until_lock", "notify_all"}

RunQueueType == [state : [Task -> States], ready : Seq(Task),
                 current : [Cpu -> Task \union {IDLE}], need : [Cpu -> BOOLEAN]]

\* The values the variables range over; a call on a wait queue has that queue
\* in its locals, gc_entry has a task when it looks at its count, and an event
\* is in delivery exactly while the handler is about to run the callback.
TypeOK ==
    /\ rq \in RunQueueType
    /\ rqlock \in Cpu \union {NONE} /\ leaving \in [Cpu -> Task \union {NONE}]
    /\ wq \in [Queue -> Seq(Task)] /\ inwq \in [Task -> BOOLEAN] /\ cond \in [WaitQueue -> BOOLEAN]
    /\ timers \in Seq((0..MaxTime) \X Task) /\ intl \in [Task -> BOOLEAN] /\ now \in 0..MaxTime
    /\ irq \in [Cpu -> {"off", "check", "fire"}] /\ firing \in [Cpu -> Task \union {NONE}]
    /\ \A c \in Cpu : (irq[c] = "fire") <=> (firing[c] # NONE)
    /\ pc \in [Task -> Locations] /\ calls \in [Task -> Nat]
    /\ loc \in [Task -> [op : Ops \union {"none", "wait"}, q : Queue \union {NONE},
                         deadline : 0..MaxTime, timeout : BOOLEAN]]
    /\ \A t \in Task : pc[t] \in OnQueue => loc[t].q \in Queue
    /\ events \in [Task -> SUBSET {"notify", "timer"}]
    /\ exited \in Seq(Task) /\ handle \subseteq Task /\ freed \subseteq Task
    /\ gc \in [n : Nat, task : Task \union {NONE}]
    /\ pc[GcTask] = "gc_check" => gc.task # NONE

InReady(r, t) == \E i \in 1..Len(r.ready) : r.ready[i] = t

Consistent(r, lock) ==
    /\ \A t \in Task : /\ (r.state[t] = "Ready") <=> InReady(r, t)
                       /\ r.state[t] = "Running" => \E c \in Cpu : r.current[c] = t
    /\ \A c \in Cpu : r.current[c] # IDLE => \/ r.state[r.current[c]] = "Running"
                                             \/ r.state[r.current[c]] = "Exited" /\ lock = c
    /\ \A c, d \in Cpu : r.current[c] = r.current[d] => c = d \/ r.current[c] = IDLE
    /\ \A i, j \in 1..Len(r.ready) : r.ready[i] = r.ready[j] => i = j

\* A task is Running exactly when it is current on a CPU, and on one CPU only;
\* it is Ready exactly when it is in the ready queue, and once only. No race of
\* notify, timer, preemption and exit runs a task twice or loses it.
RunQueueConsistent == Consistent(rq, rqlock)

InQueue(t, q) == \E i \in 1..Len(wq[q]) : wq[q][i] = t
HasAlarm(t) == (\E i \in 1..Len(timers) : timers[i][2] = t) \/ (\E c \in Cpu : firing[c] = t)

\* Every blocked task can still be woken: it is in a wait queue, or an alarm
\* for it is in the timer list or being delivered.
BlockedIsReachable ==
    \A t \in Task : rq.state[t] = "Blocked" => (\E q \in Queue : InQueue(t, q)) \/ HasAlarm(t)

\* What gc_entry frees has exited and nothing else refers to it: no queue, no
\* timer, no CPU and no client.
FreedIsUnreachable ==
    \A t \in freed : rq.state[t] = "Exited" /\ strong_count(t) = 0

\* Without timed waits, the queues, the flags and the states agree: a blocked
\* task is in one queue, the one it waits on, and once; no other task is in any.
WaitersMatch ==
    /\ \A t \in Task : /\ inwq[t] <=> (rq.state[t] = "Blocked")
                       /\ \A q \in Queue : InQueue(t, q) <=> (inwq[t] /\ loc[t].q = q)
    /\ \A q \in Queue : \A i, j \in 1..Len(wq[q]) : wq[q][i] = wq[q][j] => i = j

\* A task that is not inside a blocking call has left nothing behind: no entry
\* in a queue, no alarm in the timer list or in delivery. (A later call would
\* be woken by what an earlier one left.)
NothingLeftBehind ==
    \A t \in Task : pc[t] = "run" => ~HasAlarm(t) /\ ~inwq[t] /\ \A q \in Queue : ~InQueue(t, q)

\* wait() returns only when another task has notified it: "until other task
\* notifies it" (wait_queue.rs:65).
WaitReturnsNotified ==
    \A t \in Task : (pc[t] = "cancel_wait" /\ loc[t].op = "wait" /\ rq.state[t] = "Running")
                        => "notify" \in events[t]

\* A timed wait reports a timeout no earlier than its deadline.
TimeoutNotEarly ==
    \A t \in Task : (pc[t] = "cancel_wait" /\ loc[t].timeout) => now >= loc[t].deadline

\* sleep_until() returns no earlier than its deadline.
SleepNotEarly ==
    \A t \in Task : (pc[t] = "sleep" /\ rq.state[t] # "Blocked") => now >= loc[t].deadline

\* A task blocked in a timed wait has an alarm that will end the wait: "or the
\* given duration has elapsed" (wait_queue.rs:98).
TimedWaitHasAlarm ==
    \A t \in Task : (rq.state[t] = "Blocked" /\ loc[t].op \in {"wait_timeout", "wait_timeout_until"})
                        => HasAlarm(t)

\* gc_entry does not free the stack a CPU is still on: a task whose "switch_to
\* is not compeleted" is pushed back (run_queue.rs:206).
StackOutlivesSwitch == \A c \in Cpu : leaving[c] \notin freed

-----------------------------------------------------------------------------
\* Every notification wakes a task: what notify_one, notify_all, notify_task
\* and exit take out of a queue was blocked and becomes ready.
NotifyStep ==
    \A q \in Queue : Len(wq'[q]) < Len(wq[q]) =>
        \E t \in Task : /\ rq.state[t] = "Blocked" /\ rq'.state[t] \in {"Ready", "Running"}
                        /\ InQueue(t, q)

\* A ready task gets a CPU.
ReadyRuns == \A t \in Task : (rq.state[t] = "Ready") ~> (rq.state[t] = "Running")

\* A join returns once the task it waits for has exited.
JoinReturns ==
    \A t \in Task : (loc[t].op = "join" /\ condition(loc[t].q)) ~> (loc[t].op # "join")

\* Whoever sleeps wakes up.
SleepReturns == \A t \in Task : (pc[t] = "sleep") ~> (pc[t] # "sleep")
=============================================================================
