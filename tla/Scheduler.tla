----------------------------- MODULE Scheduler -----------------------------
(***************************************************************************)
(* The three schedulers of the scheduler crate (FIFO, round robin and CFS) *)
(* behind the run queue of axtask: which task a CPU runs next, and when    *)
(* the timer tick asks for a change. Every action is a critical section of *)
(* RUN_QUEUE; the policy is chosen when the kernel is built.               *)
(***************************************************************************)
EXTENDS Integers, Sequences, FiniteSets

CONSTANTS Task, Cpu,
          IDLE,            \* the idle task
          NONE,            \* Option::None
          Policies,        \* among "fifo", "rr" and "cfs"
          MAX_TIME_SLICE,  \* ticks per round in RRScheduler
          Prios,           \* the priorities that tasks ask for
          Removes,         \* the policies under which remove_task is called
          MaxId,           \* bound: ids that CFScheduler hands out
          MaxTicks,        \* bound: ticks that CFS accounts to a task at one priority
          MaxVruntime,     \* bound: the vruntime up to which CFS accounts ticks
          MaxLate          \* bound: ticks counted past the end of a time slice

VARIABLES policy,    \* the scheduler built into the kernel
          sched,     \* its data, and what it keeps in every task
          current,   \* per CPU: the current task
          need,      \* per CPU: need_resched of the current task
          ran        \* history, per CPU: ticks in the present round of the current task

vars == <<policy, sched, current, need, ran>>

\* FifoScheduler and RRScheduler have a queue, CFScheduler has a map from
\* (vruntime, id) to tasks; slice belongs to RRTask and cfs to CFSTask.
Init ==
    /\ policy \in Policies
    /\ sched = [queue |-> << >>, tree |-> << >>, min_vruntime |-> NONE, id_pool |-> 0,
                slice |-> [t \in Task |-> MAX_TIME_SLICE],
                cfs |-> [t \in Task |-> [init_vruntime |-> 0, delta |-> 0, nice |-> 0, id |-> 0]]]
    /\ current = [c \in Cpu |-> IDLE]
    /\ need = [c \in Cpu |-> FALSE] /\ ran = [c \in Cpu |-> 0]

-----------------------------------------------------------------------------
(* CFSTask, and the map of CFScheduler. *)

NICE2WEIGHT_POS == <<1024, 820, 655, 526, 423, 335, 272, 215, 172, 137, 110, 87, 70, 56, 45, 36,
                     29, 23, 18, 15>>
NICE2WEIGHT_NEG == <<1024, 1277, 1586, 1991, 2501, 3121, 3906, 4904, 6100, 7620, 9548, 11916,
                     14949, 18705, 23254, 29154, 36291, 46273, 56483, 71755, 88761>>

get_weight(nice) == IF nice >= 0 THEN NICE2WEIGHT_POS[nice + 1] ELSE NICE2WEIGHT_NEG[-nice + 1]

get_vruntime(e) ==
    e.init_vruntime + (IF e.nice = 0 THEN e.delta ELSE (e.delta * 1024) \div get_weight(e.nice))

\* BTreeMap::insert: an entry under the same key is replaced.
Insert(map, key, t) == [k \in DOMAIN map \union {key} |-> IF k = key THEN t ELSE map[k]]
Delete(map, key) == [k \in DOMAIN map \ {key} |-> map[k]]

Before(k, l) == k[1] < l[1] \/ (k[1] = l[1] /\ k[2] <= l[2])
FirstKey(map) == CHOOSE k \in DOMAIN map : \A l \in DOMAIN map : Before(k, l)

\* The scheduler with this map, min_vruntime read anew from it.
WithTree(s, map) ==
    [s EXCEPT !.tree = map,
              !.min_vruntime = IF DOMAIN map = {} THEN NONE ELSE FirstKey(map)[1]]

-----------------------------------------------------------------------------
(* The methods of BaseScheduler, on scheduler s. FIFO and round robin differ *)
(* in put_prev_task and task_tick only.                                       *)

CfsAdd(s, t) ==
    LET v == IF s.min_vruntime = NONE THEN 0 ELSE s.min_vruntime
        r == [s EXCEPT !.cfs[t].init_vruntime = v, !.cfs[t].id = s.id_pool, !.id_pool = @ + 1]
    IN  WithTree(r, Insert(s.tree, <<v, s.id_pool>>, t))

add_task(s, t) == IF policy = "cfs" THEN CfsAdd(s, t) ELSE [s EXCEPT !.queue = Append(@, t)]

\* What remove_task(t) leaves: s itself when it finds nothing to remove.
CfsRemove(s, t) ==
    LET key == <<get_vruntime(s.cfs[t]), s.cfs[t].id>>
    IN  IF key \in DOMAIN s.tree THEN WithTree(s, Delete(s.tree, key)) ELSE s

\* The position of t in the queue, counted from its front.
Position(q, t) == CHOOSE i \in 1..Len(q) : q[i] = t /\ \A j \in 1..(i - 1) : q[j] # t
Removed(q, i) == SubSeq(q, 1, i - 1) \o SubSeq(q, i + 1, Len(q))
QueueRemove(q, t) == IF \E i \in 1..Len(q) : q[i] = t THEN Removed(q, Position(q, t)) ELSE q

remove_task(s, t) ==
    IF policy = "cfs" THEN CfsRemove(s, t) ELSE [s EXCEPT !.queue = QueueRemove(@, t)]

IsEmpty(s) == IF policy = "cfs" THEN DOMAIN s.tree = {} ELSE s.queue = << >>

\* The task that pick_next_task() takes out, and what it leaves.
NextTask(s) == IF policy = "cfs" THEN s.tree[FirstKey(s.tree)] ELSE Head(s.queue)

\* Variant: min_vruntime follows the map.
CfsPickUpdatesMin(s) == WithTree(s, Delete(s.tree, FirstKey(s.tree)))

CfsPick(s) == [s EXCEPT !.tree = Delete(@, FirstKey(@))]

pick_next_task(s) == IF policy = "cfs" THEN CfsPick(s) ELSE [s EXCEPT !.queue = Tail(@)]

\* Variant: no new id.
CfsPutPrevSameId(s, t) == [s EXCEPT !.tree = Insert(@, <<get_vruntime(s.cfs[t]), 0>>, t)]

CfsPutPrev(s, t) ==
    [s EXCEPT !.cfs[t].id = s.id_pool, !.id_pool = @ + 1,
              !.tree = Insert(@, <<get_vruntime(s.cfs[t]), s.id_pool>>, t)]

RRPutPrev(s, t, preempt) ==
    IF s.slice[t] > 0 /\ preempt THEN [s EXCEPT !.queue = <<t>> \o @]
    ELSE [s EXCEPT !.slice[t] = MAX_TIME_SLICE, !.queue = Append(@, t)]

put_prev_task(s, t, preempt) ==
    CASE policy = "cfs" -> CfsPutPrev(s, t)
      [] policy = "rr" -> RRPutPrev(s, t, preempt)
      [] policy = "fifo" -> [s EXCEPT !.queue = Append(@, t)]

\* task_tick(t): the accounting, and whether a reschedule is required.
CfsTicked(s, t) == [s EXCEPT !.cfs[t].delta = @ + 1]
CfsTickResched(s, t) ==
    s.min_vruntime = NONE \/ get_vruntime(CfsTicked(s, t).cfs[t]) > s.min_vruntime

RRTicked(s, t) == [s EXCEPT !.slice[t] = @ - 1]

\* Variant: one tick later.
RRTickReschedLate(s, t) == s.slice[t] <= 0

RRTickResched(s, t) == s.slice[t] <= 1

Ticked(s, t) ==
    CASE policy = "cfs" -> CfsTicked(s, t) [] policy = "rr" -> RRTicked(s, t) [] policy = "fifo" -> s
TickResched(s, t) ==
    \/ policy = "cfs" /\ CfsTickResched(s, t)
    \/ policy = "rr" /\ RRTickResched(s, t)

set_priority(s, t, prio) ==
    IF policy = "cfs" /\ prio \in -20..19
    THEN [s EXCEPT !.cfs[t] = [@ EXCEPT !.init_vruntime = get_vruntime(s.cfs[t]),
                                        !.delta = 0, !.nice = prio]]
    ELSE s

-----------------------------------------------------------------------------
(* AxRunQueue *)

IsCurrent(t) == \E c \in Cpu : current[c] = t
InScheduler(s, t) == \/ policy = "cfs" /\ \E k \in DOMAIN s.tree : s.tree[k] = t
                     \/ \E i \in 1..Len(s.queue) : s.queue[i] = t
MoreIds(n) == sched.id_pool + n <= MaxId

\* spawn, or unblock_task(t, resched) called on CPU c.
unblock_task(c, t, resched) ==
    /\ ~IsCurrent(t) /\ ~InScheduler(sched, t) /\ MoreIds(1)
    /\ sched' = add_task(sched, t)
    /\ need' = [need EXCEPT ![c] = @ \/ resched]
    /\ UNCHANGED <<policy, current, ran>>

\* CPU c picks a task from s and switches to it.
SwitchNext(c, s) ==
    /\ sched' = IF IsEmpty(s) THEN s ELSE pick_next_task(s)
    /\ current' = [current EXCEPT ![c] = IF IsEmpty(s) THEN IDLE ELSE NextTask(s)]
    /\ need' = [need EXCEPT ![c] = FALSE]
    /\ ran' = [ran EXCEPT ![c] = IF current'[c] = current[c] /\ sched'.slice = sched.slice THEN @ ELSE 0]
    /\ UNCHANGED policy

\* resched(preempt): the current task still runs and is put back first.
resched(c, preempt) ==
    /\ MoreIds(1)
    /\ SwitchNext(c, IF current[c] = IDLE THEN sched ELSE put_prev_task(sched, current[c], preempt))

yield_current(c) == current[c] # IDLE /\ resched(c, FALSE)
run_idle(c) == current[c] = IDLE /\ ~IsEmpty(sched) /\ resched(c, FALSE)
preempt_resched(c) == need[c] /\ resched(c, TRUE)

\* block_current, sleep_until and exit_current: the current task is not put back.
block_current(c) == current[c] # IDLE /\ SwitchNext(c, sched)

\* The tick may come while preemption is disabled, even more than once. A time
\* slice counts down to -MaxLate: all that the code asks is whether it is over.
scheduler_timer_tick(c) ==
    /\ current[c] # IDLE
    /\ policy = "cfs" => /\ sched.cfs[current[c]].delta < MaxTicks
                         /\ get_vruntime(sched.cfs[current[c]]) < MaxVruntime
    /\ sched' = IF policy = "rr" /\ sched.slice[current[c]] = -MaxLate THEN sched
                ELSE Ticked(sched, current[c])
    /\ need' = [need EXCEPT ![c] = @ \/ TickResched(sched, current[c])]
    /\ ran' = IF policy = "rr" THEN [ran EXCEPT ![c] = IF @ < MAX_TIME_SLICE THEN @ + 1 ELSE @] ELSE ran
    /\ UNCHANGED <<policy, current>>

set_current_priority(c, prio) ==
    /\ current[c] # IDLE
    /\ sched' = set_priority(sched, current[c], prio)
    /\ UNCHANGED <<policy, current, need, ran>>

\* remove_task, called on a task that is in the scheduler as its contract asks.
Remove(t) ==
    /\ policy \in Removes /\ InScheduler(sched, t)
    /\ sched' = remove_task(sched, t)
    /\ UNCHANGED <<policy, current, need, ran>>

CpuStep(c) ==
    \/ \E t \in Task, b \in BOOLEAN : unblock_task(c, t, b)
    \/ yield_current(c) \/ run_idle(c) \/ preempt_resched(c) \/ block_current(c)
    \/ scheduler_timer_tick(c)
    \/ \E prio \in Prios : set_current_priority(c, prio)

Next == (\E c \in Cpu : CpuStep(c)) \/ (\E t \in Task : Remove(t))

Spec == Init /\ [][Next]_vars

\* Ticks come and pending preemptions are served; an idle CPU looks for work.
\* Under the cooperative scheduler a task gives up the CPU by itself.
Fairness ==
    \A c \in Cpu : /\ WF_vars(scheduler_timer_tick(c)) /\ WF_vars(preempt_resched(c))
                   /\ WF_vars(run_idle(c)) /\ WF_vars(policy = "fifo" /\ yield_current(c))

FairSpec == Spec /\ Fairness

-----------------------------------------------------------------------------
\* The values of the variables; the ids of CFS come from the pool.
TypeOK ==
    /\ policy \in Policies
    /\ sched.queue \in Seq(Task) /\ sched.min_vruntime \in Int \union {NONE}
    /\ \A k \in DOMAIN sched.tree : k \in Int \X (0..(sched.id_pool - 1)) /\ sched.tree[k] \in Task
    /\ sched.slice \in [Task -> -MaxLate..MAX_TIME_SLICE]
    /\ sched.cfs \in [Task -> [init_vruntime : Nat, delta : 0..MaxTicks, nice : -20..19, id : Nat]]
    /\ current \in [Cpu -> Task \union {IDLE}] /\ need \in [Cpu -> BOOLEAN] /\ ran \in [Cpu -> 0..MAX_TIME_SLICE]

runnable == {t \in Task : InScheduler(sched, t)}
Abs == INSTANCE AbstractScheduler

\* Whatever the policy, the scheduler is a set of runnable tasks to axtask: no
\* operation loses a task or has it twice, and a CPU idles only when there is
\* nothing to run.
ImplementsScheduler == Abs!Spec

\* Under round robin, a task that has had MAX_TIME_SLICE ticks in a row is
\* about to be preempted, however often it was preempted early, blocked and
\* woken before.
RoundEnds ==
    policy = "rr" => \A c \in Cpu : ran[c] >= MAX_TIME_SLICE => need[c] \/ current[c] = IDLE

\* CFS: what add_task gives to a new or woken task as its vruntime is no more
\* than that of any task waiting or running, so that none of them keeps it
\* waiting, although min_vruntime is not kept up by pick and put_prev.
NewcomerNotBehind ==
    (policy = "cfs" /\ sched.min_vruntime # NONE) =>
        /\ \A k \in DOMAIN sched.tree : sched.min_vruntime <= k[1]
        /\ \A c \in Cpu : current[c] # IDLE => sched.min_vruntime <= get_vruntime(sched.cfs[current[c]])

\* Under FIFO and round robin a task does not stay in the ready queue for ever,
\* whatever the others do: it gets a CPU, or it is removed.
ReadyRuns == \A t \in Task : (policy # "cfs" /\ t \in runnable) ~> (t \notin runnable)

\* remove_task() on a task that is in the scheduler removes that task and no
\* other: "Returns the owned removed task with ownership if it exists."
\* (scheduler/src/lib.rs:39)
RemoveRemoves ==
    policy \in Removes =>
        \A t \in runnable : {u \in Task : InScheduler(remove_task(sched, t), u)} = runnable \ {t}
=============================================================================
