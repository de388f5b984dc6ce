---------------------------- MODULE AxTaskWaits ----------------------------
(* What AxTask promises about blocked tasks, for any number of tasks and     *)
(* CPUs and for any bounds: a blocked task can be woken.                     *)
EXTENDS AxTaskSteps

\* The provers of a leaf: Zenon first, which is fast where it succeeds.
USE ZenonT(2), SMTT(30), ZenonT(30)

(* The references to a task, and the two things that every step respects: a  *)
(* blocked task stays within reach of whoever wakes it, and an exited task   *)
(* gets no new reference once it has none.                                   *)

OnCpu(u) == \E c \in Cpu : rq.current[c] = u
Queued(u) == \E q \in Queue : InQueue(u, q)
Listed(u) == Member(exited, u) \/ u \in handle \/ gc.task = u
Referred(u) == OnCpu(u) \/ Queued(u) \/ HasAlarm(u) \/ Listed(u)

Reaches ==
    \A u \in Task : rq'.state[u] = "Blocked" =>
        \/ Queued(u)' \/ HasAlarm(u)'
        \/ rq.state[u] = "Blocked" /\ (Queued(u) => Queued(u)') /\ (HasAlarm(u) => HasAlarm(u)')

NoNewRefs == \A u \in Task : rq.state[u] = "Exited" /\ Referred(u)' => Referred(u)

ListedKept == \A u \in Task : rq.state[u] = "Exited" /\ Listed(u)' => Referred(u)

\* No CPU takes up an exited task.
LEMMA CpuRefs ==
    ASSUME ExitedStays, NewCurrents
    PROVE  \A u \in Task : rq.state[u] = "Exited" /\ OnCpu(u)' => OnCpu(u)
<1> SUFFICES ASSUME NEW u \in Task, rq.state[u] = "Exited", NEW d \in Cpu, rq'.current[d] = u
             PROVE  OnCpu(u)
  BY DEF OnCpu
<1>1. rq'.state[u] = "Exited" /\ u # IDLE
  BY TaskAssumption DEF ExitedStays
<1>2. rq.current[d] = u
  BY <1>1 DEF NewCurrents
<1> QED BY <1>2 DEF OnCpu

\* Variables that a step leaves alone keep what depends on them.
LEMMA SameRefs ==
    /\ UNCHANGED wq => \A u : Queued(u)' <=> Queued(u)
    /\ UNCHANGED <<timers, firing>> => \A u : HasAlarm(u)' <=> HasAlarm(u)
    /\ UNCHANGED <<exited, gc, handle>> => ListedKept
<1>1. UNCHANGED wq => \A u : Queued(u)' <=> Queued(u)
  BY DEF Queued, InQueue
<1>2. UNCHANGED <<timers, firing>> => \A u : HasAlarm(u)' <=> HasAlarm(u)
  BY DEF HasAlarm
<1>3. UNCHANGED <<exited, gc, handle>> => ListedKept
  BY DEF ListedKept, Listed, Referred, Member
<1> QED BY <1>1, <1>2, <1>3

\* Steps that leave queues and timers alone.
LEMMA QuietKind ==
    ASSUME SameBlocked, ExitedStays, NewCurrents, UNCHANGED <<wq, timers, firing>>, ListedKept
    PROVE  Reaches /\ NoNewRefs /\ ExitedStays
<1>1. \A u : (Queued(u)' <=> Queued(u)) /\ (HasAlarm(u)' <=> HasAlarm(u))
  BY SameRefs
<1>2. Reaches
  BY <1>1 DEF Reaches, SameBlocked
<1>3. NoNewRefs
  BY <1>1, CpuRefs DEF NoNewRefs, Referred, ListedKept
<1> QED BY <1>2, <1>3

\* A task that blocks has just pushed itself on a queue.
LEMMA PushKind ==
    ASSUME IInv, NEW c \in Cpu, NEW t \in Task, NEW q \in Queue, rq.current[c] = t, RunQueueFree,
           BlockOn(c, t, q), UNCHANGED <<timers, firing, exited, gc, handle>>
    PROVE  Reaches /\ NoNewRefs /\ ExitedStays
<1>1. NowBlocked(t) /\ ExitedStays /\ NewCurrents
  BY BlockEffect DEF BlockOn
<1>2. wq \in [Queue -> Seq(Task)] /\ wq' = [wq EXCEPT ![q] = Append(wq[q], t)]
  BY DEF IInv, WaitType, BlockOn
<1>3. OneMore(wq[q], Append(wq[q], t), t)
  BY <1>2, AppendMember
<1>4. \A u \in Task, p \in Queue : InQueue(u, p)' <=> (InQueue(u, p) \/ (u = t /\ p = q))
  BY <1>2, <1>3 DEF OneMore, InQueue, Member
<1>5. \A u \in Task : Queued(u)' <=> (Queued(u) \/ u = t)
  BY <1>4 DEF Queued
<1>6. ListedKept /\ \A u : HasAlarm(u)' <=> HasAlarm(u)
  BY SameRefs
<1>7. Reaches
  BY <1>1, <1>5, <1>6 DEF Reaches, NowBlocked
<1>8. Referred(t)
  BY DEF Referred, OnCpu
<1>9. NoNewRefs
  BY <1>1, <1>5, <1>6, <1>8, CpuRefs DEF NoNewRefs, Referred, ListedKept
<1> QED BY <1>1, <1>7, <1>9

\* A task that is taken out of a queue by another one is not blocked any more.
LEMMA PopKind ==
    ASSUME IInv, NEW h \in Task, NEW q \in Queue, NEW n, OneLess(wq[q], n, h),
           wq' = [wq EXCEPT ![q] = n], NotBlocked(h), ExitedStays, NewCurrents,
           UNCHANGED <<timers, firing, exited, gc, handle>>
    PROVE  Reaches /\ NoNewRefs /\ ExitedStays
<1>1. wq \in [Queue -> Seq(Task)]
  BY DEF IInv, WaitType
<1>2. \A u \in Task, p \in Queue : /\ InQueue(u, p)' => InQueue(u, p)
                                   /\ InQueue(u, p) /\ u # h => InQueue(u, p)'
  <2> TAKE u \in Task, p \in Queue
  <2>1. (InQueue(u, p) <=> Member(wq[p], u)) /\ (InQueue(u, p)' <=> Member(wq'[p], u))
    BY DEF InQueue, Member
  <2>2. wq'[p] = IF p = q THEN n ELSE wq[p]
    BY <1>1
  <2> QED BY <2>1, <2>2 DEF OneLess
<1>3. \A u \in Task : (Queued(u)' => Queued(u)) /\ (Queued(u) /\ u # h => Queued(u)')
  BY <1>2 DEF Queued
<1>4. ListedKept /\ \A u : HasAlarm(u)' <=> HasAlarm(u)
  BY SameRefs
<1>5. Reaches
  BY <1>3, <1>4 DEF Reaches, NotBlocked
<1>6. NoNewRefs
  BY <1>3, <1>4, CpuRefs DEF NoNewRefs, Referred, ListedKept
<1> QED BY <1>5, <1>6

Harmless == Reaches /\ NoNewRefs /\ ExitedStays

\* Steps that leave the run queue alone.
LEMMA SameEffect ==
    ASSUME UNCHANGED rq
    PROVE  SameBlocked /\ ExitedStays /\ NewCurrents
BY DEF SameBlocked, ExitedStays, NewCurrents

\* Calls and parts of calls that touch neither queues nor timers.
LEMMA QuietSteps ==
    ASSUME IInv, NEW c \in Cpu, NEW t \in Task
    PROVE  /\ \A q \in WaitQueue : wait_until(c, t, q) => Harmless
           /\ \A q \in WaitQueue : notify_all(c, t, q) => Harmless
           /\ \A q \in WaitQueue : SetCondition(c, t, q) => Harmless
           /\ \A u \in Task : join(c, t, u) => Harmless
           /\ \A u \in Task : drop_handle(c, t, u) => Harmless
           /\ TimeoutRead(c, t) => Harmless
           /\ UntilClock(c, t) => Harmless
           /\ SleepReturn(c, t) => Harmless
           /\ timer_irq(c) => Harmless
           /\ SwitchDone(c) => Harmless
           /\ ClockTick => Harmless
<1>1. UNCHANGED <<rq, wq, timers, firing, exited, gc, handle>> => Harmless
  BY SameEffect, SameRefs, QuietKind DEF Harmless
<1>2. ASSUME NEW q \in WaitQueue PROVE wait_until(c, t, q) => Harmless
  BY <1>1 DEF wait_until, wvars, cvars, gvars
<1>3. ASSUME NEW q \in WaitQueue PROVE notify_all(c, t, q) => Harmless
  BY <1>1 DEF notify_all, wvars, cvars, gvars
<1>4. ASSUME NEW q \in WaitQueue PROVE SetCondition(c, t, q) => Harmless
  BY <1>1 DEF SetCondition, cvars, gvars
<1>5. ASSUME NEW u \in Task PROVE join(c, t, u) => Harmless
  BY <1>1 DEF join, wvars, cvars, gvars
<1>6. ASSUME NEW u \in Task, drop_handle(c, t, u) PROVE Harmless
  <2>1. UNCHANGED <<rq, wq, timers, firing, exited, gc>> /\ handle' = handle \ {u}
    BY <1>6 DEF drop_handle, wvars, cvars
  <2>2. ListedKept
    BY <2>1 DEF ListedKept, Listed, Referred, Member
  <2> QED BY <2>1, <2>2, SameEffect, QuietKind DEF Harmless
<1>7. TimeoutRead(c, t) => Harmless
  BY <1>1 DEF TimeoutRead, wvars, cvars, gvars
<1>8. UntilClock(c, t) => Harmless
  BY <1>1 DEF UntilClock, wvars, cvars, gvars
<1>9. SleepReturn(c, t) => Harmless
  BY <1>1 DEF SleepReturn, wvars, cvars, gvars
<1>10. timer_irq(c) => Harmless
  BY <1>1 DEF timer_irq, wvars, cvars, gvars
<1>11. SwitchDone(c) => Harmless
  BY <1>1 DEF SwitchDone, wvars, cvars, gvars
<1>12. ClockTick => Harmless
  BY <1>1 DEF ClockTick, wvars, cvars, gvars
<1> QED BY <1>2, <1>3, <1>4, <1>5, <1>6, <1>7, <1>8, <1>9, <1>10, <1>11, <1>12

\* spawn() blocks nobody and wakes nobody.
LEMMA SpawnEffect ==
    ASSUME IInv, NEW c \in Cpu, NEW t \in Task, NEW u \in Task, spawn(c, t, u)
    PROVE  SameBlocked /\ ExitedStays /\ NewCurrents
<1>1. rq' = AddReady(rq, u) /\ rq.state[u] = "New"
  BY DEF spawn, AddReady
<1>2. rq'.state = [rq.state EXCEPT ![u] = "Ready"] /\ rq'.current = rq.current
  BY <1>1, RqFacts, ReadyRecord
<1>3. \A v \in Task : rq'.state[v] = IF v = u THEN "Ready" ELSE rq.state[v]
  BY <1>2, RqFacts DEF RunQueueType
<1> QED BY <1>1, <1>2, <1>3 DEF SameBlocked, ExitedStays, NewCurrents

\* Nor does the beginning of exit_current().
LEMMA ExitEffect ==
    ASSUME IInv, NEW c \in Cpu, NEW t \in Task, ExitBegin(c, t)
    PROVE  SameBlocked /\ ExitedStays /\ NewCurrents
<1>1. rq' = WithState(rq, [rq.state EXCEPT ![t] = "Exited"]) /\ rq.current[c] = t
  BY DEF ExitBegin, At, WithState
<1>2. rq'.state = [rq.state EXCEPT ![t] = "Exited"] /\ rq'.current = rq.current
  <2>1. [rq.state EXCEPT ![t] = "Exited"] \in [Task -> States]
    BY RqFacts DEF RunQueueType, States
  <2> QED BY <1>1, <2>1, RqFacts, SetState
<1>3. \A v \in Task : rq'.state[v] = IF v = t THEN "Exited" ELSE rq.state[v]
  BY <1>2, RqFacts DEF RunQueueType
<1>4. rq.state[t] # "Blocked"
  BY <1>1, RqFacts, TaskAssumption
<1> QED BY <1>2, <1>3, <1>4 DEF SameBlocked, ExitedStays, NewCurrents

\* Steps of the scheduler, of exit and of gc_entry that touch neither.
LEMMA PlainSteps ==
    ASSUME IInv, NEW c \in Cpu, NEW t \in Task
    PROVE  /\ yield_now(c, t) => Harmless
           /\ preempt_resched(c) => Harmless
           /\ run_idle(c) => Harmless
           /\ \A u \in Task : spawn(c, t, u) => Harmless
           /\ MainExit(c) => Harmless
           /\ ExitBegin(c, t) => Harmless
           /\ ExitPush(c, t) => Harmless
           /\ GcLen(c) => Harmless
           /\ GcPop(c) => Harmless
           /\ GcCheck(c) => Harmless
<1>1. ASSUME rq' = resched(rq, c), UNCHANGED <<wvars, cvars, gvars>> PROVE Harmless
  <2>1. UNCHANGED <<wq, timers, firing, exited, gc, handle>>
    BY <1>1 DEF wvars, cvars, gvars
  <2> QED BY <1>1, <2>1, ReschedEffect, SameRefs, QuietKind DEF Harmless
<1>2. yield_now(c, t) => Harmless
  BY <1>1 DEF yield_now
<1>3. preempt_resched(c) => Harmless
  BY <1>1 DEF preempt_resched
<1>4. run_idle(c) => Harmless
  BY <1>1 DEF run_idle
<1>5. ASSUME NEW u \in Task, spawn(c, t, u) PROVE Harmless
  <2>1. /\ rq.state[u] = "New" /\ handle' = handle \union {u}
        /\ UNCHANGED <<wq, timers, firing, exited, gc>>
    BY <1>5 DEF spawn, wvars, cvars
  <2>2. ListedKept
    BY <2>1 DEF ListedKept, Listed, Referred, Member
  <2> QED BY <1>5, <2>1, <2>2, SpawnEffect, QuietKind DEF Harmless
<1>6. ASSUME MainExit(c) PROVE Harmless
  <2>1. UNCHANGED <<rq, wq, timers, firing, gc, handle>> /\ exited' = << >>
    BY <1>6 DEF MainExit, wvars, cvars
  <2>2. \A u : ~Member(exited', u)
    BY <2>1 DEF Member
  <2>3. ListedKept
    BY <2>1, <2>2 DEF ListedKept, Listed, Referred
  <2> QED BY <2>1, <2>3, SameEffect, QuietKind DEF Harmless
<1>7. ASSUME ExitBegin(c, t) PROVE Harmless
  <2>1. UNCHANGED <<wq, timers, firing, exited, gc, handle>>
    BY <1>7 DEF ExitBegin, wvars, cvars, gvars
  <2> QED BY <1>7, <2>1, ExitEffect, SameRefs, QuietKind DEF Harmless
<1>8. ASSUME ExitPush(c, t) PROVE Harmless
  <2>1. /\ UNCHANGED <<rq, wq, timers, firing, gc, handle>> /\ exited' = Append(exited, t)
        /\ rq.current[c] = t /\ exited \in Seq(Task)
    BY <1>8 DEF ExitPush, At, wvars, cvars, IInv, GcType
  <2>2. OneMore(exited, exited', t)
    BY <2>1, AppendMember
  <2>3. ListedKept
    BY <2>1, <2>2 DEF ListedKept, Listed, Referred, OneMore, OnCpu
  <2> QED BY <2>1, <2>3, SameEffect, QuietKind DEF Harmless
<1>9. ASSUME GcLen(c) PROVE Harmless
  <2>1. UNCHANGED <<rq, wq, timers, firing, exited, handle>> /\ gc' = [gc EXCEPT !.n = Len(exited)]
    BY <1>9 DEF GcLen, wvars, cvars
  <2>2. gc'.task = gc.task
    BY <2>1 DEF IInv, GcType
  <2>3. ListedKept
    BY <2>1, <2>2 DEF ListedKept, Listed, Referred
  <2> QED BY <2>1, <2>3, SameEffect, QuietKind DEF Harmless
<1>10. ASSUME GcPop(c) PROVE Harmless
  <2>1. UNCHANGED <<rq, wq, timers, firing, handle>> /\ exited \in Seq(Task)
    BY <1>10 DEF GcPop, wvars, cvars, IInv, GcType
  <2>2. CASE exited = << >>
    <3>1. exited' = exited /\ gc' = [gc EXCEPT !.n = @ - 1]
      BY <1>10, <2>2 DEF GcPop
    <3>2. gc'.task = gc.task
      BY <3>1 DEF IInv, GcType
    <3>3. ListedKept
      BY <2>1, <3>1, <3>2 DEF ListedKept, Listed, Referred
    <3> QED BY <2>1, <3>3, SameEffect, QuietKind DEF Harmless
  <2>3. CASE exited # << >>
    <3>1. gc'.task = Head(exited) /\ exited' = Tail(exited)
      BY <1>10, <2>3 DEF GcPop
    <3>2. OneLess(exited, exited', gc'.task)
      BY <2>1, <2>3, <3>1, TailMember
    <3>3. ListedKept
      BY <2>1, <3>2 DEF ListedKept, Listed, Referred, OneLess
    <3> QED BY <2>1, <3>3, SameEffect, QuietKind DEF Harmless
  <2> QED BY <2>2, <2>3
<1>11. ASSUME GcCheck(c) PROVE Harmless
  <2>1. /\ UNCHANGED <<rq, wq, timers, firing, handle>> /\ gc' = [gc EXCEPT !.task = NONE]
        /\ exited' = exited \/ exited' = Append(exited, gc.task)
        /\ pc[GcTask] = "gc_check"
    BY <1>11 DEF GcCheck, At, wvars, cvars
  <2>2. gc'.task = NONE /\ gc.task \in Task /\ exited \in Seq(Task)
    BY <2>1 DEF IInv, GcType, GcHasTask
  <2>3. OneMore(exited, Append(exited, gc.task), gc.task)
    BY <2>2, AppendMember
  <2>4. \A u : Member(exited', u) => Member(exited, u) \/ u = gc.task
    BY <2>1, <2>3 DEF OneMore
  <2>5. ListedKept
    BY <2>1, <2>2, <2>4, TaskAssumption DEF ListedKept, Listed, Referred
  <2> QED BY <2>1, <2>5, SameEffect, QuietKind DEF Harmless
<1> QED BY <1>2, <1>3, <1>4, <1>5, <1>6, <1>7, <1>8, <1>9, <1>10, <1>11

\* The steps that block on a queue.
LEMMA PushSteps ==
    ASSUME IInv, NEW c \in Cpu, NEW t \in Task
    PROVE  /\ \A q \in WaitQueue : wait(c, t, q) => Harmless
           /\ WaitUntilLoop(c, t) => Harmless
           /\ TimeoutBlock(c, t) => Harmless
           /\ UntilLock(c, t) => Harmless
           /\ GcWait(c) => Harmless
<1>1. \A from : At(c, t, from) => rq.current[c] = t /\ (from \in OnQueue => loc[t].q \in Queue)
  BY DEF At, IInv, CallType
<1>2. {"wait_until", "timeout_block", "until_lock"} \subseteq OnQueue /\ WaitQueue \subseteq Queue
      /\ ExitQueue \in Queue
  BY DEF OnQueue, Queue
<1>3. UNCHANGED <<rq, wq, timers, firing, exited, gc, handle>> => Harmless
  BY SameEffect, SameRefs, QuietKind DEF Harmless
<1>4. ASSUME NEW q \in WaitQueue, wait(c, t, q) PROVE Harmless
  <2>1. rq.current[c] = t /\ q \in Queue
    BY <1>1, <1>2, <1>4 DEF wait, Call
  <2>2. RunQueueFree /\ BlockOn(c, t, q) /\ UNCHANGED <<timers, firing, exited, gc, handle>>
    BY <1>4 DEF wait, cvars, gvars
  <2> QED BY <2>1, <2>2, PushKind DEF Harmless
<1>5. ASSUME NEW from \in {"wait_until", "timeout_block", "until_lock"}, At(c, t, from), RunQueueFree,
             BlockOn(c, t, loc[t].q), UNCHANGED <<cvars, gvars>>
      PROVE  Harmless
  <2>1. rq.current[c] = t /\ loc[t].q \in Queue
    BY <1>1, <1>2, <1>5
  <2>2. UNCHANGED <<timers, firing, exited, gc, handle>>
    BY <1>5 DEF cvars, gvars
  <2> QED BY <1>5, <2>1, <2>2, PushKind DEF Harmless
<1>6. ASSUME WaitUntilLoop(c, t) PROVE Harmless
  <2>1. CASE condition(loc[t].q)
    BY <1>3, <1>6, <2>1 DEF WaitUntilLoop, cvars, gvars
  <2>2. CASE ~condition(loc[t].q)
    BY <1>5, <1>6, <2>2 DEF WaitUntilLoop
  <2> QED BY <2>1, <2>2
<1>7. TimeoutBlock(c, t) => Harmless
  BY <1>5 DEF TimeoutBlock
<1>8. ASSUME UntilLock(c, t) PROVE Harmless
  <2>1. CASE condition(loc[t].q)
    BY <1>3, <1>8, <2>1 DEF UntilLock, cvars, gvars
  <2>2. CASE ~condition(loc[t].q)
    BY <1>5, <1>8, <2>2 DEF UntilLock
  <2> QED BY <2>1, <2>2
<1>9. ASSUME GcWait(c) PROVE Harmless
  <2>1. /\ rq.current[c] = GcTask /\ GcTask \in Task /\ RunQueueFree /\ BlockOn(c, GcTask, ExitQueue)
        /\ UNCHANGED <<timers, firing, exited, gc, handle>>
    BY <1>9, TaskAssumption DEF GcWait, At, cvars, gvars
  <2> QED BY <1>2, <2>1, PushKind DEF Harmless
<1> QED BY <1>4, <1>6, <1>7, <1>8, <1>9

\* The steps that take another task out of a queue.
LEMMA PopSteps ==
    ASSUME IInv, NEW c \in Cpu, NEW t \in Task
    PROVE  /\ \A q \in WaitQueue, b \in BOOLEAN : notify_one(c, t, q, b) => Harmless
           /\ \A q \in WaitQueue, u \in Task, b \in BOOLEAN : notify_task(c, t, q, u, b) => Harmless
           /\ \A b \in BOOLEAN : NotifyAllLoop(c, t, b) => Harmless
           /\ ExitNotify(c, t) => Harmless
           /\ ExitResched(c, t) => Harmless
<1>1. wq \in [Queue -> Seq(Task)] /\ WaitQueue \subseteq Queue /\ Task \subseteq Queue /\ ExitQueue \in Queue
  BY DEF IInv, WaitType, Queue
<1>2. UNCHANGED <<rq, wq, timers, firing, exited, gc, handle>> => Harmless
  BY SameEffect, SameRefs, QuietKind DEF Harmless
<1>3. ASSUME NEW q \in Queue, NEW b \in BOOLEAN, wq[q] # << >>, NotifyLocked(c, q, b),
             UNCHANGED <<cvars, gvars>>
      PROVE  Harmless
  <2>1. OneLess(wq[q], Tail(wq[q]), Head(wq[q])) /\ Head(wq[q]) \in Task
    BY <1>1, <1>3, TailMember
  <2>2. wq' = [wq EXCEPT ![q] = Tail(wq[q])] /\ UNCHANGED <<timers, firing, exited, gc, handle>>
    BY <1>3 DEF NotifyLocked, Pop, cvars, gvars
  <2>3. NotBlocked(Head(wq[q])) /\ ExitedStays /\ NewCurrents
    BY <1>3, <2>1, UnblockEffect DEF NotifyLocked
  <2> QED BY <2>1, <2>2, <2>3, PopKind DEF Harmless
<1>4. ASSUME NEW q \in WaitQueue, NEW b \in BOOLEAN, notify_one(c, t, q, b) PROVE Harmless
  <2>1. CASE wq[q] = << >>
    BY <1>2, <1>4, <2>1 DEF notify_one, cvars, gvars
  <2>2. CASE wq[q] # << >>
    BY <1>1, <1>3, <1>4, <2>2 DEF notify_one
  <2> QED BY <2>1, <2>2
<1>5. ASSUME NEW q \in WaitQueue, NEW u \in Task, NEW b \in BOOLEAN, notify_task(c, t, q, u, b)
      PROVE  Harmless
  <2>1. q \in Queue /\ wq[q] \in Seq(Task)
    BY <1>1
  <2>2. PICK i \in 1..Len(wq[q]) :
            /\ wq[q][i] = u /\ \A j \in 1..(i - 1) : wq[q][j] # u
            /\ wq' = [wq EXCEPT ![q] = Removed(@, i)]
    BY <1>5, Zenon DEF notify_task
  <2>3. OneLess(wq[q], Removed(wq[q], i), u)
    BY <2>1, <2>2, RemovedMember
  <2>4. NotBlocked(u) /\ ExitedStays /\ NewCurrents
    BY <1>5, UnblockEffect DEF notify_task
  <2>5. wq' = [wq EXCEPT ![q] = Removed(wq[q], i)] /\ UNCHANGED <<timers, firing, exited, gc, handle>>
    BY <1>5, <2>2 DEF notify_task, cvars, gvars
  <2> QED BY <2>1, <2>3, <2>4, <2>5, PopKind DEF Harmless
<1>6. ASSUME NEW b \in BOOLEAN, NotifyAllLoop(c, t, b) PROVE Harmless
  <2>1. loc[t].q \in Queue
    BY <1>6 DEF NotifyAllLoop, At, IInv, CallType, OnQueue
  <2>2. CASE wq[loc[t].q] = << >>
    BY <1>2, <1>6, <2>2 DEF NotifyAllLoop, cvars, gvars
  <2>3. CASE wq[loc[t].q] # << >>
    BY <1>3, <1>6, <2>1, <2>3 DEF NotifyAllLoop
  <2> QED BY <2>2, <2>3
<1>7. ASSUME ExitNotify(c, t) PROVE Harmless
  <2>1. PICK b \in BOOLEAN : b = FALSE
    OBVIOUS
  <2> QED BY <1>1, <1>3, <1>7, <2>1 DEF ExitNotify
<1>8. ASSUME ExitResched(c, t) PROVE Harmless
  <2>1. UNCHANGED <<timers, firing, exited, gc, handle>>
    BY <1>8 DEF ExitResched, cvars, gvars
  <2>2. CASE wq[ExitQueue] = << >>
    <3>1. rq' = resched(rq, c) /\ wq' = wq
      BY <1>8, <2>2 DEF ExitResched
    <3> QED BY <2>1, <3>1, ReschedEffect, SameRefs, QuietKind DEF Harmless
  <2>3. CASE wq[ExitQueue] # << >>
    <3> DEFINE h == Head(wq[ExitQueue])
    <3>1. rq' = resched(unblock_task(rq, c, h, FALSE), c)
      BY <1>8, <2>3 DEF ExitResched
    <3>2. wq' = [wq EXCEPT ![ExitQueue] = Tail(wq[ExitQueue])]
      BY <1>8, <2>3 DEF ExitResched, Pop
    <3>3. OneLess(wq[ExitQueue], Tail(wq[ExitQueue]), h) /\ h \in Task
      BY <1>1, <2>3, TailMember
    <3> HIDE DEF h
    <3>4. PICK b \in BOOLEAN : b = FALSE
      OBVIOUS
    <3>5. NotBlocked(h) /\ ExitedStays /\ NewCurrents
      BY <3>1, <3>3, <3>4, UnblockReschedEffect
    <3> QED BY <1>1, <2>1, <3>2, <3>3, <3>5, PopKind DEF Harmless
  <2> QED BY <2>2, <2>3
<1> QED BY <1>4, <1>5, <1>6, <1>7, <1>8

\* retain() keeps the members that are not in D.
Retained(s, n, D) == \A y : Member(n, y) <=> (Member(s, y) /\ y \notin D)

\* Without() is that.
LEMMA WithoutMember ==
    ASSUME NEW S, NEW s \in Seq(S), NEW D
    PROVE  Retained(s, Without(s, D), D)
<1> DEFINE n == Without(s, D)
<1>1. /\ \A k \in 1..Len(n) : n[k] \notin D /\ \E i \in 1..Len(s) : s[i] = n[k]
      /\ \A i \in 1..Len(s) : s[i] \notin D => \E k \in 1..Len(n) : n[k] = s[i]
  BY WithoutFacts
<1> HIDE DEF n
<1>2. Retained(s, n, D)
  BY <1>1 DEF Retained, Member
<1> QED BY <1>2 DEF n

\* The tasks of the timer list, by the members of the list.
LEMMA AlarmMember ==
    ASSUME NEW s \in Seq((0..MaxTime) \X Task), NEW u \in Task
    PROVE  (\E i \in 1..Len(s) : s[i][2] = u) <=> \E d \in 0..MaxTime : Member(s, <<d, u>>)
<1>1. ASSUME NEW i \in 1..Len(s), s[i][2] = u PROVE \E d \in 0..MaxTime : Member(s, <<d, u>>)
  <2>1. s[i] \in (0..MaxTime) \X Task
    OBVIOUS
  <2>2. s[i] = <<s[i][1], u>> /\ s[i][1] \in 0..MaxTime
    BY <1>1, <2>1
  <2> QED BY <2>2 DEF Member
<1>2. ASSUME NEW d \in 0..MaxTime, Member(s, <<d, u>>) PROVE \E i \in 1..Len(s) : s[i][2] = u
  BY <1>2 DEF Member
<1> QED BY <1>1, <1>2

\* A task that is still to run gets an alarm.
LEMMA AlarmSet ==
    ASSUME IInv, NEW t \in Task, NEW d \in 0..MaxTime, timers' = Append(timers, <<d, t>>), UNCHANGED firing
    PROVE  \A u \in Task : HasAlarm(u)' <=> (HasAlarm(u) \/ u = t)
<1>1. timers \in Seq((0..MaxTime) \X Task) /\ <<d, t>> \in (0..MaxTime) \X Task
  BY DEF IInv, ClockType
<1>2. timers' \in Seq((0..MaxTime) \X Task) /\ OneMore(timers, timers', <<d, t>>)
  BY <1>1, AppendMember
<1>3. \A u \in Task : (\E e \in 0..MaxTime : Member(timers', <<e, u>>))
                          <=> ((\E e \in 0..MaxTime : Member(timers, <<e, u>>)) \/ u = t)
  BY <1>2 DEF OneMore
<1>4. \A u \in Task : (\E i \in 1..Len(timers') : timers'[i][2] = u)
                          <=> ((\E i \in 1..Len(timers) : timers[i][2] = u) \/ u = t)
  BY <1>1, <1>2, <1>3, AlarmMember
<1> QED BY <1>4 DEF HasAlarm

\* The steps that set an alarm, cancel one or deliver one, and the one that
\* leaves a queue.
LEMMA AlarmSteps ==
    ASSUME IInv, NEW c \in Cpu, NEW t \in Task
    PROVE  /\ CancelWait(c, t) => Harmless
           /\ CancelAlarm(c, t) => Harmless
           /\ \A q \in WaitQueue, d \in Durations : wait_timeout(c, t, q, d) => Harmless
           /\ \A q \in WaitQueue, d \in Durations : wait_timeout_until(c, t, q, d) => Harmless
           /\ \A d \in 0..MaxTime : sleep_until(c, t, d) => Harmless
           /\ ExpireOne(c) => Harmless
           /\ callback(c) => Harmless
<1>1. timers \in Seq((0..MaxTime) \X Task) /\ firing \in [Cpu -> Task \union {NONE}]
      /\ wq \in [Queue -> Seq(Task)]
  BY DEF IInv, ClockType, WaitType
<1>2. ASSUME NEW from, At(c, t, from) PROVE rq.state[t] # "Blocked" /\ Referred(t)
  <2>1. rq.current[c] = t
    BY <1>2 DEF At
  <2> QED BY <2>1, RqFacts, TaskAssumption DEF Referred, OnCpu
<1>3. UNCHANGED <<rq, wq, timers, firing, exited, gc, handle>> => Harmless
  BY SameEffect, SameRefs, QuietKind DEF Harmless
<1>4. ASSUME CancelWait(c, t) PROVE Harmless
  <2>1. UNCHANGED <<rq, timers, firing, exited, gc, handle>> /\ rq.state[t] # "Blocked" /\ loc[t].q \in Queue
    BY <1>2, <1>4 DEF CancelWait, At, cvars, gvars, IInv, CallType, OnQueue
  <2>2. CASE ~inwq[t]
    BY <1>3, <1>4, <2>1, <2>2 DEF CancelWait
  <2>3. CASE inwq[t]
    <3> DEFINE q == loc[t].q
               n == Without(wq[q], {t})
    <3>1. wq' = [wq EXCEPT ![q] = n]
      BY <1>4, <2>3 DEF CancelWait
    <3>2. Retained(wq[q], n, {t})
      <4>1. wq[q] \in Seq(Task)
        BY <1>1, <2>1
      <4> HIDE DEF q
      <4> QED BY <4>1, WithoutMember
    <3> HIDE DEF n, q
    <3>3. \A u : (Member(n, u) => Member(wq[q], u)) /\ (Member(wq[q], u) /\ u # t => Member(n, u))
      BY <3>2 DEF Retained
    <3>4. \A u \in Task, p \in Queue : /\ InQueue(u, p)' => InQueue(u, p)
                                       /\ InQueue(u, p) /\ u # t => InQueue(u, p)'
      <4> TAKE u \in Task, p \in Queue
      <4>1. (InQueue(u, p) <=> Member(wq[p], u)) /\ (InQueue(u, p)' <=> Member(wq'[p], u))
        BY DEF InQueue, Member
      <4>2. wq'[p] = IF p = q THEN n ELSE wq[p]
        BY <1>1, <3>1
      <4> QED BY <3>3, <4>1, <4>2
    <3>5. \A u \in Task : (Queued(u)' => Queued(u)) /\ (Queued(u) /\ u # t => Queued(u)')
      BY <3>4 DEF Queued
    <3>6. ListedKept /\ ExitedStays /\ NewCurrents /\ \A u : HasAlarm(u)' <=> HasAlarm(u)
      BY <2>1, SameRefs, SameEffect
    <3>7. Reaches
      BY <2>1, <3>5, <3>6 DEF Reaches
    <3>8. NoNewRefs
      BY <3>5, <3>6, CpuRefs DEF NoNewRefs, Referred, ListedKept
    <3> QED BY <3>6, <3>7, <3>8 DEF Harmless
  <2> QED BY <2>2, <2>3
<1>5. ASSUME UNCHANGED <<rq, wq, exited, gc, handle>>,
             \A u \in Task : HasAlarm(u)' => HasAlarm(u) \/ Referred(u),
             \A u \in Task : rq.state[u] = "Blocked" /\ HasAlarm(u) => HasAlarm(u)'
      PROVE  Harmless
  <2>1. ListedKept /\ ExitedStays /\ NewCurrents /\ \A u : Queued(u)' <=> Queued(u)
    BY <1>5, SameRefs, SameEffect
  <2>2. Reaches
    BY <1>5, <2>1 DEF Reaches
  <2>3. NoNewRefs
    BY <1>5, <2>1, CpuRefs DEF NoNewRefs, Referred, ListedKept
  <2> QED BY <2>1, <2>2, <2>3 DEF Harmless
<1>6. ASSUME CancelAlarm(c, t) PROVE Harmless
  <2>1. UNCHANGED <<rq, wq, firing, exited, gc, handle>> /\ rq.state[t] # "Blocked"
    BY <1>2, <1>6 DEF CancelAlarm, wvars, gvars
  <2>2. CASE ~intl[t]
    BY <1>3, <1>6, <2>1, <2>2 DEF CancelAlarm
  <2>3. CASE intl[t]
    <3> DEFINE D == (0..MaxTime) \X {t}
               n == Without(timers, D)
    <3>1. timers' = n
      BY <1>6, <2>3 DEF CancelAlarm
    <3>2. /\ \A k \in 1..Len(n) : \E i \in 1..Len(timers) : timers[i] = n[k]
          /\ \A i \in 1..Len(timers) : timers[i] \notin D => \E k \in 1..Len(n) : n[k] = timers[i]
      <4> HIDE DEF D
      <4>1. Retained(timers, n, D)
        BY <1>1, WithoutMember
      <4> HIDE DEF n
      <4> QED BY <4>1 DEF Retained, Member
    <3>3. \A i \in 1..Len(timers) : timers[i][2] # t => timers[i] \notin D
      OBVIOUS
    <3> HIDE DEF n, D
    <3>4. \A u \in Task : (HasAlarm(u)' => HasAlarm(u)) /\ (HasAlarm(u) /\ u # t => HasAlarm(u)')
      BY <2>1, <3>1, <3>2, <3>3 DEF HasAlarm
    <3> QED BY <1>5, <2>1, <3>4
  <2> QED BY <2>2, <2>3
<1>7. ASSUME NEW op, NEW q \in WaitQueue, NEW d \in Durations, SetAlarm(c, t, op, q, d) PROVE Harmless
  <2>1. /\ now + d \in 0..MaxTime /\ timers' = Append(timers, <<now + d, t>>) /\ Referred(t)
        /\ UNCHANGED <<rq, wq, firing, exited, gc, handle>>
    BY <1>2, <1>7, TaskAssumption DEF SetAlarm, Call, IInv, ClockType, wvars, gvars
  <2>2. \A u \in Task : HasAlarm(u)' <=> (HasAlarm(u) \/ u = t)
    BY <2>1, AlarmSet
  <2> QED BY <1>5, <2>1, <2>2
<1>8. ASSUME NEW d \in 0..MaxTime, sleep_until(c, t, d) PROVE Harmless
  <2>1. CASE ~(now < d)
    BY <1>3, <1>8, <2>1 DEF sleep_until, wvars, gvars
  <2>2. CASE now < d
    <3>1. /\ rq.current[c] = t /\ RunQueueFree /\ rq' = block_current(rq, c)
          /\ timers' = Append(timers, <<d, t>>) /\ UNCHANGED <<wq, firing, exited, gc, handle>>
      BY <1>8, <2>2 DEF sleep_until, Call, At, wvars, gvars
    <3>2. NowBlocked(t) /\ ExitedStays /\ NewCurrents
      BY <3>1, BlockEffect
    <3>3. \A u \in Task : HasAlarm(u)' <=> (HasAlarm(u) \/ u = t)
      BY <3>1, AlarmSet
    <3>4. ListedKept /\ Referred(t) /\ \A u : Queued(u)' <=> Queued(u)
      BY <3>1, SameRefs DEF Referred, OnCpu
    <3>5. Reaches
      BY <3>2, <3>3, <3>4 DEF Reaches, NowBlocked
    <3>6. NoNewRefs
      BY <3>2, <3>3, <3>4, CpuRefs DEF NoNewRefs, Referred, ListedKept
    <3> QED BY <3>2, <3>5, <3>6 DEF Harmless
  <2> QED BY <2>1, <2>2
<1>9. ASSUME ExpireOne(c) PROVE Harmless
  <2>1. UNCHANGED <<rq, wq, exited, gc, handle>> /\ irq[c] = "check"
    BY <1>9 DEF ExpireOne, wvars, gvars
  <2>2. CASE UNCHANGED <<timers, firing>>
    BY <1>3, <2>1, <2>2
  <2>3. CASE \E i \in 1..Len(timers) : timers' = Removed(timers, i)
                                       /\ firing' = [firing EXCEPT ![c] = timers[i][2]]
    <3>1. PICK i \in 1..Len(timers) : timers' = Removed(timers, i)
                                      /\ firing' = [firing EXCEPT ![c] = timers[i][2]]
      BY <2>3
    <3>2. OneLess(timers, timers', timers[i])
      BY <1>1, <3>1, RemovedMember
    <3>3. /\ \A k \in 1..Len(timers') : \E j \in 1..Len(timers) : timers[j] = timers'[k]
          /\ \A j \in 1..Len(timers) : timers[j] # timers[i] => \E k \in 1..Len(timers') : timers'[k] = timers[j]
      BY <3>2 DEF OneLess, Member
    <3>4. firing[c] = NONE
      BY <2>1 DEF IInv, ClockType
    <3>5. \A u \in Task : HasAlarm(u)' => HasAlarm(u)
      <4> SUFFICES ASSUME NEW u \in Task, HasAlarm(u)' PROVE HasAlarm(u)
        OBVIOUS
      <4>1. firing'[c] = timers[i][2] /\ \A d \in Cpu \ {c} : firing'[d] = firing[d]
        BY <1>1, <3>1
      <4>2. CASE \E d \in Cpu : firing'[d] = u
        BY <4>1, <4>2 DEF HasAlarm
      <4>3. CASE \E k \in 1..Len(timers') : timers'[k][2] = u
        BY <3>3, <4>3 DEF HasAlarm
      <4> QED BY <4>2, <4>3 DEF HasAlarm
    <3>6. \A u \in Task : HasAlarm(u) => HasAlarm(u)'
      <4> SUFFICES ASSUME NEW u \in Task, HasAlarm(u) PROVE HasAlarm(u)'
        OBVIOUS
      <4>1. firing'[c] = timers[i][2] /\ \A d \in Cpu \ {c} : firing'[d] = firing[d]
        BY <1>1, <3>1
      <4>2. CASE u = timers[i][2]
        BY <4>1, <4>2 DEF HasAlarm
      <4>3. CASE \E d \in Cpu : firing[d] = u
        <5>1. PICK d \in Cpu : firing[d] = u
          BY <4>3
        <5>2. d # c
          BY <3>4, <5>1, TaskAssumption
        <5> QED BY <4>1, <5>1, <5>2 DEF HasAlarm
      <4>4. CASE u # timers[i][2] /\ \E j \in 1..Len(timers) : timers[j][2] = u
        <5>1. PICK j \in 1..Len(timers) : timers[j][2] = u
          BY <4>4
        <5>2. timers[j] # timers[i]
          BY <4>4, <5>1
        <5>3. \E k \in 1..Len(timers') : timers'[k] = timers[j]
          BY <3>3, <5>2
        <5> QED BY <5>1, <5>3 DEF HasAlarm
      <4> QED BY <4>2, <4>3, <4>4 DEF HasAlarm
    <3> QED BY <1>5, <2>1, <3>5, <3>6
  <2> QED BY <1>9, <2>2, <2>3 DEF ExpireOne
<1>10. ASSUME callback(c) PROVE Harmless
  <2> DEFINE h == firing[c]
  <2>1. /\ h \in Task /\ rq' = unblock_task(rq, c, h, TRUE) /\ firing' = [firing EXCEPT ![c] = NONE]
        /\ UNCHANGED <<wq, timers, exited, gc, handle>>
    BY <1>10 DEF callback, IInv, ClockType, wvars, gvars
  <2>2. NotBlocked(h) /\ ExitedStays /\ NewCurrents
    <3>1. PICK b \in BOOLEAN : b = TRUE
      OBVIOUS
    <3> HIDE DEF h
    <3> QED BY <2>1, <3>1, UnblockEffect
  <2>3. \A u \in Task : (HasAlarm(u)' => HasAlarm(u)) /\ (HasAlarm(u) /\ u # h => HasAlarm(u)')
    BY <1>1, <2>1, TaskAssumption DEF HasAlarm
  <2> HIDE DEF h
  <2>4. ListedKept /\ \A u : Queued(u)' <=> Queued(u)
    BY <2>1, SameRefs
  <2>5. Reaches
    BY <2>2, <2>3, <2>4 DEF Reaches, NotBlocked
  <2>6. NoNewRefs
    BY <2>2, <2>3, <2>4, CpuRefs DEF NoNewRefs, Referred, ListedKept
  <2> QED BY <2>2, <2>5, <2>6 DEF Harmless
<1> QED BY <1>4, <1>6, <1>7, <1>8, <1>9, <1>10 DEF wait_timeout, wait_timeout_until

\* Every step.
LEMMA NextHarmless == IInv /\ [Next]_vars => Harmless
<1> SUFFICES ASSUME IInv, [Next]_vars PROVE Harmless
  OBVIOUS
<1>1. ASSUME NEW c \in Cpu, NEW t \in Task, Client(c, t) PROVE Harmless
  BY <1>1, QuietSteps, PlainSteps, PushSteps, PopSteps, AlarmSteps DEF Client
<1>2. ASSUME NEW c \in Cpu, NEW t \in Task, InCall(c, t) PROVE Harmless
  BY <1>2, QuietSteps, PlainSteps, PushSteps, PopSteps, AlarmSteps DEF InCall
<1>3. ASSUME NEW c \in Cpu, CpuStep(c) PROVE Harmless
  <2>1. GcTask \in Task
    BY TaskAssumption
  <2>2. GcStep(c) \/ Interrupt(c) \/ MainExit(c) => Harmless
    BY <2>1, QuietSteps, PlainSteps, PushSteps, AlarmSteps DEF GcStep, Interrupt
  <2>3. preempt_resched(c) \/ run_idle(c) \/ SwitchDone(c) => Harmless
    BY <2>1, QuietSteps, PlainSteps
  <2> QED BY <1>1, <1>2, <1>3, <2>2, <2>3 DEF CpuStep
<1>4. CASE UNCHANGED vars
  <2>1. UNCHANGED <<rq, wq, timers, firing, exited, gc, handle>>
    BY <1>4 DEF vars, wvars, cvars, gvars
  <2> QED BY <2>1, SameEffect, SameRefs, QuietKind DEF Harmless
<1>5. ClockTick => Harmless
  BY QuietSteps, TaskAssumption
<1> QED BY <1>3, <1>4, <1>5 DEF Next

\* In every reachable state, with any number of tasks and CPUs and with timed
\* waits, a blocked task is in a wait queue or an alarm for it is pending or in
\* delivery: no interleaving of notify, timer, cancel and exit strands it.
THEOREM BlockedReachable == Spec => []BlockedIsReachable
<1>1. Init => BlockedIsReachable
  BY DEF Init, BlockedIsReachable
<1>2. IInv /\ BlockedIsReachable /\ [Next]_vars => BlockedIsReachable'
  <2> SUFFICES ASSUME IInv, BlockedIsReachable, [Next]_vars PROVE BlockedIsReachable'
    OBVIOUS
  <2>1. Reaches
    BY NextHarmless DEF Harmless
  <2> QED BY <2>1 DEF Reaches, BlockedIsReachable, Queued
<1>3. Spec => []IInv
  BY InitIInv, NextIInv, PTL DEF Spec
<1> QED BY <1>1, <1>2, <1>3, PTL DEF Spec
=============================================================================
