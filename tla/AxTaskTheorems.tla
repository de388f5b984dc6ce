-------------------------- MODULE AxTaskTheorems ---------------------------
(***************************************************************************)
(* What AxTask promises about wait queues and about freed tasks, for any   *)
(* number of tasks and CPUs and for any bounds: without timed waits, wait  *)
(* queues, flags and states agree and every notification wakes a task; and *)
(* what gc_entry frees is referred to by nothing. The theorems at the end  *)
(* state the properties that the runs check.                               *)
(***************************************************************************)
EXTENDS AxTaskWaits, AxTaskSmp

\* The provers of a leaf: Zenon first, which is fast where it succeeds.
USE ZenonT(2), SMTT(30), ZenonT(30)

-----------------------------------------------------------------------------
(* Without timed waits. *)

Untimed == Ops \intersect {"wait_timeout", "wait_timeout_until", "sleep"} = {}

TimedLocations == {"timeout_block", "timeout_read", "until_clock", "until_lock", "sleep"}

\* No alarm is set, so no interrupt delivers one.
NoAlarms == timers = << >> /\ (\A c \in Cpu : irq[c] = "off") /\ \A t \in Task : ~intl[t]

\* Where a task may be in its call: whoever is past the blocking of wait() and
\* not blocked has been notified.
PlaceOk(t) ==
    /\ pc[t] \notin TimedLocations
    /\ pc[t] = "wait_until" => loc[t].op # "wait"
    /\ pc[t] = "cancel_wait" /\ loc[t].op = "wait" /\ rq.state[t] # "Blocked" => "notify" \in events[t]

UInv == NoAlarms /\ WaitersMatch /\ \A t \in Task : PlaceOk(t)

\* WaitersMatch, queue by queue and task by task.
Waiting(t) ==
    /\ inwq[t] <=> (rq.state[t] = "Blocked")
    /\ \A q \in Queue : InQueue(t, q) <=> (inwq[t] /\ loc[t].q = q)

\* What a step may do to a task that neither blocks nor is woken.
Still(t) == pc'[t] = pc[t] /\ loc'[t] = loc[t] /\ events'[t] = events[t]
Moved(t) == rq.state[t] # "Blocked" /\ PlaceOk(t)'

AllWaiting == (\A t \in Task : Waiting(t)) /\ \A q \in Queue : Distinct(wq[q])

\* WaitersMatch is that.
LEMMA MatchParts == WaitersMatch <=> AllWaiting
BY DEF WaitersMatch, AllWaiting, Waiting, Distinct

\* Steps that leave queues, flags and timers alone.
LEMMA CalmKind ==
    ASSUME IInv, UInv, SameBlocked, UNCHANGED <<wq, inwq, timers, irq, intl>>,
           \A t \in Task : Still(t) \/ Moved(t)
    PROVE  UInv' /\ NotifyStep
<1>1. NoAlarms'
  BY DEF UInv, NoAlarms
<1>2. ASSUME NEW t \in Task PROVE Waiting(t)' /\ PlaceOk(t)'
  <2>1. Waiting(t) /\ PlaceOk(t)
    BY MatchParts DEF UInv, AllWaiting
  <2>2. \A q \in Queue : InQueue(t, q)' <=> InQueue(t, q)
    BY DEF InQueue
  <2>3. (rq'.state[t] = "Blocked") <=> (rq.state[t] = "Blocked")
    BY DEF SameBlocked
  <2>4. CASE Still(t)
    BY <2>1, <2>2, <2>3, <2>4 DEF Still, Waiting, PlaceOk
  <2>5. CASE Moved(t)
    <3>1. ~inwq[t] /\ ~inwq'[t] /\ \A q \in Queue : ~InQueue(t, q)
      BY <2>1, <2>5 DEF Moved, Waiting
    <3> QED BY <2>2, <2>3, <2>5, <3>1 DEF Moved, Waiting
  <2> QED BY <2>4, <2>5
<1>3. \A q \in Queue : Distinct(wq'[q])
  BY MatchParts DEF UInv, AllWaiting
<1>4. WaitersMatch'
  <2>1. AllWaiting'
    BY <1>2, <1>3 DEF AllWaiting
  <2> QED BY <2>1, MatchParts, PTL
<1>5. NotifyStep
  <2>1. \A q \in Queue : Len(wq[q]) \in Nat
    BY DEF IInv, WaitType
  <2> QED BY <2>1 DEF NotifyStep
<1> QED BY <1>1, <1>2, <1>4, <1>5 DEF UInv

\* A task blocks on the queue of its call.
LEMMA PushMatch ==
    ASSUME IInv, UInv, NEW c \in Cpu, NEW t \in Task, NEW q \in Queue, rq.current[c] = t, RunQueueFree,
           BlockOn(c, t, q), loc'[t].q = q, pc'[t] \notin TimedLocations,
           pc'[t] = "wait_until" => loc'[t].op # "wait",
           \A v \in Task \ {t} : Still(v), UNCHANGED <<timers, irq, intl>>
    PROVE  UInv' /\ NotifyStep
<1>1. NowBlocked(t) /\ rq.state[t] = "Running"
  BY BlockEffect DEF BlockOn
<1>2. wq \in [Queue -> Seq(Task)] /\ inwq \in [Task -> BOOLEAN]
  BY DEF IInv, WaitType
<1>3. wq' = [wq EXCEPT ![q] = Append(wq[q], t)] /\ inwq' = [inwq EXCEPT ![t] = TRUE]
  BY DEF BlockOn
<1>4. OneMore(wq[q], Append(wq[q], t), t) /\ Len(wq[q]) \in Nat
  BY <1>2, AppendMember
<1>5. \A p \in Queue : wq'[p] = IF p = q THEN Append(wq[q], t) ELSE wq[p]
  BY <1>2, <1>3
<1>6. \A u \in Task, p \in Queue : InQueue(u, p)' <=> (InQueue(u, p) \/ (u = t /\ p = q))
  <2> TAKE u \in Task, p \in Queue
  <2>1. (InQueue(u, p) <=> Member(wq[p], u)) /\ (InQueue(u, p)' <=> Member(wq'[p], u))
    BY DEF InQueue, Member
  <2> QED BY <1>4, <1>5, <2>1 DEF OneMore
<1>7. \A u \in Task : Waiting(u) /\ PlaceOk(u)
  BY MatchParts DEF UInv, AllWaiting
<1>8. ~inwq[t] /\ \A p \in Queue : ~InQueue(t, p)
  BY <1>1, <1>7 DEF Waiting
<1>9. Waiting(t)' /\ PlaceOk(t)'
  <2>1. inwq'[t] /\ rq'.state[t] = "Blocked"
    BY <1>1, <1>2, <1>3 DEF NowBlocked
  <2> QED BY <1>6, <1>8, <2>1 DEF Waiting, PlaceOk
<1>10. ASSUME NEW u \in Task \ {t} PROVE Waiting(u)' /\ PlaceOk(u)'
  <2>1. /\ inwq'[u] = inwq[u] /\ ((rq'.state[u] = "Blocked") <=> (rq.state[u] = "Blocked"))
        /\ \A p \in Queue : InQueue(u, p)' <=> InQueue(u, p)
    BY <1>1, <1>2, <1>3, <1>6 DEF NowBlocked
  <2>2. Still(u)
    OBVIOUS
  <2> QED BY <1>7, <2>1, <2>2 DEF Still, Waiting, PlaceOk
<1>11. ASSUME NEW p \in Queue PROVE Distinct(wq'[p])
  <2>1. Distinct(wq[p]) /\ ~Member(wq[q], t)
    BY <1>8, MatchParts DEF UInv, AllWaiting, InQueue, Member
  <2> QED BY <1>4, <1>5, <2>1 DEF OneMore
<1>12. WaitersMatch'
  <2>1. AllWaiting'
    BY <1>9, <1>10, <1>11 DEF AllWaiting
  <2> QED BY <2>1, MatchParts, PTL
<1>13. NoAlarms'
  BY DEF UInv, NoAlarms
<1>14. NotifyStep
  <2> DEFINE n == Append(wq[q], t)
  <2>1. Len(n) = Len(wq[q]) + 1 /\ \A p \in Queue : wq'[p] = IF p = q THEN n ELSE wq[p]
    BY <1>4, <1>5 DEF OneMore
  <2>2. \A p \in Queue : Len(wq[p]) \in Nat
    BY <1>2
  <2> HIDE DEF n
  <2> QED BY <2>1, <2>2 DEF NotifyStep
<1> QED BY <1>9, <1>10, <1>12, <1>13, <1>14 DEF UInv

\* A task is taken out of the queue it waits in, and woken.
LEMMA PopMatch ==
    ASSUME IInv, UInv, NEW h \in Task, NEW q \in Queue, NEW n, OneLess(wq[q], n, h),
           wq' = [wq EXCEPT ![q] = n], NotBlocked(h),
           rq.state[h] = "Blocked" => rq'.state[h] \in {"Ready", "Running"},
           inwq' = [inwq EXCEPT ![h] = FALSE], events' = [events EXCEPT ![h] = @ \union {"notify"}],
           UNCHANGED <<pc, loc, timers, irq, intl>>
    PROVE  UInv' /\ NotifyStep
<1>1. /\ wq \in [Queue -> Seq(Task)] /\ inwq \in [Task -> BOOLEAN]
      /\ events \in [Task -> SUBSET {"notify", "timer"}]
  BY DEF IInv, WaitType, CallType
<1>2. \A p \in Queue : wq'[p] = IF p = q THEN n ELSE wq[p]
  BY <1>1
<1>3. \A u \in Task : Waiting(u) /\ PlaceOk(u)
  BY MatchParts DEF UInv, AllWaiting
<1>4. \A p \in Queue : Distinct(wq[p])
  BY MatchParts DEF UInv, AllWaiting
<1>5. Distinct(n) /\ ~Member(n, h) /\ Member(wq[q], h)
  BY <1>4 DEF OneLess
<1>6. \A u \in Task, p \in Queue : (InQueue(u, p) <=> Member(wq[p], u)) /\ (InQueue(u, p)' <=> Member(wq'[p], u))
  BY DEF InQueue, Member
<1>7. InQueue(h, q) /\ inwq[h] /\ loc[h].q = q /\ rq.state[h] = "Blocked"
  BY <1>3, <1>5, <1>6 DEF Waiting
<1>8. Waiting(h)' /\ PlaceOk(h)'
  <2>1. ~inwq'[h] /\ rq'.state[h] # "Blocked" /\ "notify" \in events'[h]
    BY <1>1 DEF NotBlocked
  <2>2. \A p \in Queue : ~InQueue(h, p)'
    <3>1. \A p \in Queue \ {q} : ~InQueue(h, p)
      BY <1>3, <1>7 DEF Waiting
    <3> QED BY <1>2, <1>5, <1>6, <3>1
  <2> QED BY <1>3, <2>1, <2>2 DEF Waiting, PlaceOk
<1>9. ASSUME NEW u \in Task \ {h} PROVE Waiting(u)' /\ PlaceOk(u)'
  <2>1. /\ inwq'[u] = inwq[u] /\ ((rq'.state[u] = "Blocked") <=> (rq.state[u] = "Blocked"))
        /\ events'[u] = events[u]
    BY <1>1 DEF NotBlocked
  <2>2. \A p \in Queue : InQueue(u, p)' <=> InQueue(u, p)
    <3>1. Member(n, u) <=> Member(wq[q], u)
      BY DEF OneLess
    <3> QED BY <1>2, <1>6, <3>1
  <2> QED BY <1>3, <2>1, <2>2 DEF Waiting, PlaceOk
<1>10. WaitersMatch'
  <2>1. \A p \in Queue : Distinct(wq'[p])
    BY <1>2, <1>4, <1>5
  <2>2. AllWaiting'
    BY <1>8, <1>9, <2>1 DEF AllWaiting
  <2> QED BY <2>2, MatchParts, PTL
<1>11. NoAlarms'
  BY DEF UInv, NoAlarms
<1>12. NotifyStep
  <2>1. \A p \in Queue : Len(wq[p]) \in Nat
    BY <1>1
  <2>2. \A p \in Queue : Len(wq'[p]) < Len(wq[p]) => p = q
    BY <1>2, <2>1
  <2> QED BY <1>7, <2>2 DEF NotifyStep
<1> QED BY <1>8, <1>9, <1>10, <1>11, <1>12 DEF UInv

Agrees == UInv' /\ NotifyStep

\* The places where nothing is left to be said about a wait.
Elsewhere == {"run", "cancel_alarm", "notify_all", "terminated", "exit_notify", "exit_resched",
              "gc_len", "gc_loop", "gc_check"}

\* A step of t that changes at most its own place and locals.
LEMMA OwnKind ==
    ASSUME IInv, UInv, NEW t \in Task, rq.state[t] # "Blocked", SameBlocked,
           UNCHANGED <<wq, inwq, timers, irq, intl>>, \A v \in Task \ {t} : Still(v),
           Still(t) \/ pc'[t] \in Elsewhere \/ PlaceOk(t)'
    PROVE  Agrees
<1>1. pc'[t] \in Elsewhere => PlaceOk(t)'
  BY DEF Elsewhere, PlaceOk, TimedLocations
<1>2. \A v \in Task : Still(v) \/ Moved(v)
  BY <1>1 DEF Moved
<1> QED BY <1>2, CalmKind DEF Agrees

\* What a task assigns to its place and its locals leaves the others alone.
LEMMA OwnFacts ==
    ASSUME IInv, NEW t \in Task
    PROVE  /\ \A to : Goto(t, to) => pc'[t] = to /\ \A v \in Task \ {t} : pc'[v] = pc[v]
           /\ \A op, q, d : Locals(t, op, q, d) => /\ loc'[t].op = op /\ loc'[t].q = q
                                                   /\ \A v \in Task \ {t} : loc'[v] = loc[v] /\ events'[v] = events[v]
           /\ \A l : loc' = [loc EXCEPT ![t] = l] => \A v \in Task \ {t} : loc'[v] = loc[v]
           /\ \A c \in Cpu : \A from : At(c, t, from) => pc[t] = from /\ rq.state[t] # "Blocked" /\ rq.current[c] = t
<1>1. pc \in [Task -> Locations] /\ loc \in [Task -> LocalsType] /\ events \in [Task -> SUBSET {"notify", "timer"}]
  BY DEF IInv, CallType
<1>2. \A to : Goto(t, to) => pc'[t] = to /\ \A v \in Task \ {t} : pc'[v] = pc[v]
  BY <1>1 DEF Goto
<1>3. ASSUME NEW op, NEW q, NEW d, Locals(t, op, q, d)
      PROVE  /\ loc'[t].op = op /\ loc'[t].q = q
             /\ \A v \in Task \ {t} : loc'[v] = loc[v] /\ events'[v] = events[v]
  BY <1>1, <1>3 DEF Locals
<1>4. \A l : loc' = [loc EXCEPT ![t] = l] => \A v \in Task \ {t} : loc'[v] = loc[v]
  BY <1>1
<1>5. \A c \in Cpu : \A from : At(c, t, from) => pc[t] = from /\ rq.state[t] # "Blocked" /\ rq.current[c] = t
  BY RqFacts, TaskAssumption DEF At
<1> QED BY <1>2, <1>3, <1>4, <1>5

\* Steps that move no task.
LEMMA StillSteps ==
    ASSUME IInv, UInv, NEW c \in Cpu, NEW t \in Task
    PROVE  /\ yield_now(c, t) => Agrees
           /\ preempt_resched(c) => Agrees
           /\ run_idle(c) => Agrees
           /\ \A u \in Task : spawn(c, t, u) => Agrees
           /\ \A u \in Task : drop_handle(c, t, u) => Agrees
           /\ \A q \in WaitQueue : SetCondition(c, t, q) => Agrees
           /\ SwitchDone(c) => Agrees
           /\ ClockTick => Agrees
           /\ UNCHANGED vars => Agrees
<1>1. ASSUME SameBlocked, UNCHANGED <<pc, loc, events, wq, inwq, timers, irq, intl>> PROVE Agrees
  <2>1. \A v \in Task : Still(v)
    BY <1>1 DEF Still
  <2> QED BY <1>1, <2>1, CalmKind DEF Agrees
<1>2. yield_now(c, t) => Agrees
  BY <1>1, ReschedEffect DEF yield_now, wvars, cvars
<1>3. preempt_resched(c) => Agrees
  BY <1>1, ReschedEffect DEF preempt_resched, tvars, wvars, cvars
<1>4. run_idle(c) => Agrees
  BY <1>1, ReschedEffect DEF run_idle, tvars, wvars, cvars
<1>5. ASSUME NEW u \in Task PROVE spawn(c, t, u) => Agrees
  BY <1>1, SpawnEffect DEF spawn, wvars, cvars
<1>6. ASSUME NEW u \in Task PROVE drop_handle(c, t, u) => Agrees
  BY <1>1, SameEffect DEF drop_handle, wvars, cvars
<1>7. ASSUME NEW q \in WaitQueue PROVE SetCondition(c, t, q) => Agrees
  BY <1>1, SameEffect DEF SetCondition, cvars
<1>8. SwitchDone(c) => Agrees
  BY <1>1, SameEffect DEF SwitchDone, tvars, wvars, cvars
<1>9. ClockTick => Agrees
  BY <1>1, SameEffect DEF ClockTick, tvars, wvars
<1>10. UNCHANGED vars => Agrees
  BY <1>1, SameEffect DEF vars, tvars, wvars, cvars
<1> QED BY <1>2, <1>3, <1>4, <1>5, <1>6, <1>7, <1>8, <1>9, <1>10

\* Steps within a call or of gc_entry that move their own task.
LEMMA OwnSteps ==
    ASSUME IInv, UInv, NEW c \in Cpu, NEW t \in Task
    PROVE  /\ \A q \in WaitQueue : wait_until(c, t, q) => Agrees
           /\ \A q \in WaitQueue : notify_all(c, t, q) => Agrees
           /\ \A u \in Task : join(c, t, u) => Agrees
           /\ ExitBegin(c, t) => Agrees
           /\ ExitPush(c, t) => Agrees
           /\ MainExit(c) => Agrees
           /\ GcLen(c) => Agrees
           /\ GcPop(c) => Agrees
           /\ GcCheck(c) => Agrees
           /\ CancelWait(c, t) => Agrees
           /\ CancelAlarm(c, t) => Agrees
<1>1. ASSUME NEW v \in Task, NEW to, Goto(v, to), NEW from, At(c, v, from), SameBlocked,
             \A u \in Task \ {v} : loc'[u] = loc[u] /\ events'[u] = events[u],
             UNCHANGED <<wq, inwq, timers, irq, intl>>, to \in Elsewhere \/ PlaceOk(v)'
      PROVE  Agrees
  <2>1. pc'[v] = to /\ (\A u \in Task \ {v} : pc'[u] = pc[u]) /\ rq.state[v] # "Blocked"
    BY <1>1, OwnFacts
  <2>2. \A u \in Task \ {v} : Still(u)
    BY <1>1, <2>1 DEF Still
  <2> QED BY <1>1, <2>1, <2>2, OwnKind
<1>2. ASSUME NEW v \in Task, NEW op, NEW q, NEW to, op # "wait", to \in Elsewhere \/ to = "wait_until",
             Call(c, v, op), Locals(v, op, q, 0), Goto(v, to), UNCHANGED <<rq, wvars, cvars>>
      PROVE  Agrees
  <2>1. loc'[v].op = op /\ pc'[v] = to
    BY <1>2, OwnFacts
  <2>2. to \in Elsewhere \/ PlaceOk(v)'
    BY <1>2, <2>1 DEF PlaceOk, TimedLocations
  <2>3. /\ \A u \in Task \ {v} : loc'[u] = loc[u] /\ events'[u] = events[u]
        /\ SameBlocked /\ UNCHANGED <<wq, inwq, timers, irq, intl>> /\ At(c, v, "run")
    BY <1>2, OwnFacts, SameEffect DEF wvars, cvars, Call
  <2> QED BY <1>1, <1>2, <2>2, <2>3
<1>3. {"notify_all", "terminated", "exit_notify", "exit_resched", "cancel_alarm", "run",
       "gc_loop", "gc_check", "gc_len"} \subseteq Elsewhere
  BY DEF Elsewhere
<1>4. ASSUME NEW q \in WaitQueue PROVE wait_until(c, t, q) => Agrees
  BY <1>2 DEF wait_until
<1>5. ASSUME NEW q \in WaitQueue PROVE notify_all(c, t, q) => Agrees
  BY <1>2, <1>3 DEF notify_all
<1>6. ASSUME NEW u \in Task PROVE join(c, t, u) => Agrees
  BY <1>2 DEF join
<1>7. ExitBegin(c, t) => Agrees
  BY <1>1, <1>3, ExitEffect DEF ExitBegin, wvars, cvars
<1>8. ExitPush(c, t) => Agrees
  BY <1>1, <1>3, SameEffect DEF ExitPush, wvars, cvars
<1>9. MainExit(c) => Agrees
  BY <1>1, <1>3, SameEffect, TaskAssumption DEF MainExit, Call, wvars, cvars
<1>10. GcLen(c) => Agrees
  BY <1>1, <1>3, SameEffect, TaskAssumption DEF GcLen, wvars, cvars
<1>11. ASSUME GcPop(c) PROVE Agrees
  <2>1. CASE exited = << >>
    <3>1. UNCHANGED <<rq, pc, loc, events, wq, inwq, timers, irq, intl>>
      BY <1>11, <2>1 DEF GcPop, wvars, cvars
    <3>2. \A v \in Task : Still(v)
      BY <3>1 DEF Still
    <3> QED BY <3>1, <3>2, SameEffect, CalmKind DEF Agrees
  <2>2. CASE exited # << >>
    BY <1>1, <1>3, <1>11, <2>2, SameEffect, TaskAssumption DEF GcPop, wvars, cvars
  <2> QED BY <2>1, <2>2
<1>12. GcCheck(c) => Agrees
  BY <1>1, <1>3, SameEffect, TaskAssumption DEF GcCheck, wvars, cvars
<1>13. ASSUME CancelWait(c, t) PROVE Agrees
  <2>1. At(c, t, "cancel_wait") /\ Goto(t, "cancel_alarm") /\ UNCHANGED <<rq, loc, events, timers, irq, intl>>
    BY <1>13 DEF CancelWait, cvars
  <2>2. ~inwq[t] /\ inwq \in [Task -> BOOLEAN]
    BY <2>1, OwnFacts, MatchParts DEF UInv, AllWaiting, Waiting, IInv, WaitType
  <2>3. UNCHANGED <<wq, inwq>>
    BY <1>13, <2>2 DEF CancelWait
  <2> QED BY <1>1, <1>3, <2>1, <2>3, SameEffect
<1>14. ASSUME CancelAlarm(c, t) PROVE Agrees
  <2>1. /\ At(c, t, "cancel_alarm") /\ Goto(t, IF t = GcTask THEN "gc_len" ELSE "run")
        /\ UNCHANGED <<rq, events, wq, inwq, irq>>
        /\ \A u \in Task \ {t} : loc'[u] = loc[u]
    BY <1>14, OwnFacts DEF CancelAlarm, wvars
  <2>2. ~intl[t] /\ intl \in [Task -> BOOLEAN]
    BY DEF UInv, NoAlarms, IInv, ClockType
  <2>3. UNCHANGED <<timers, intl>>
    BY <1>14, <2>2 DEF CancelAlarm
  <2> QED BY <1>1, <1>3, <2>1, <2>3, SameEffect
<1> QED BY <1>4, <1>5, <1>6, <1>7, <1>8, <1>9, <1>10, <1>11, <1>12, <1>13, <1>14

\* Without timed calls, their steps, and those of the timer interrupt, are not
\* taken.
LEMMA NoTimedSteps ==
    ASSUME Untimed, UInv, NEW c \in Cpu, NEW t \in Task
    PROVE  /\ \A q \in WaitQueue, d \in Durations : ~wait_timeout(c, t, q, d) /\ ~wait_timeout_until(c, t, q, d)
           /\ \A d \in 0..MaxTime : ~sleep_until(c, t, d)
           /\ ~TimeoutBlock(c, t) /\ ~TimeoutRead(c, t) /\ ~UntilClock(c, t) /\ ~UntilLock(c, t)
           /\ ~SleepReturn(c, t) /\ ~Interrupt(c)
<1>1. "wait_timeout" \notin Ops /\ "wait_timeout_until" \notin Ops /\ "sleep" \notin Ops
  BY DEF Untimed
<1>2. pc[t] \notin TimedLocations
  BY DEF UInv, PlaceOk
<1>3. irq[c] = "off" /\ timers = << >>
  BY DEF UInv, NoAlarms
<1>4. \A q \in WaitQueue, d \in Durations : ~wait_timeout(c, t, q, d) /\ ~wait_timeout_until(c, t, q, d)
  BY <1>1 DEF wait_timeout, wait_timeout_until, SetAlarm, Call
<1>5. \A d \in 0..MaxTime : ~sleep_until(c, t, d)
  BY <1>1 DEF sleep_until, Call
<1>6. ~TimeoutBlock(c, t) /\ ~TimeoutRead(c, t) /\ ~UntilClock(c, t) /\ ~UntilLock(c, t) /\ ~SleepReturn(c, t)
  BY <1>2 DEF TimeoutBlock, TimeoutRead, UntilClock, UntilLock, SleepReturn, At, TimedLocations
<1>7. ~Interrupt(c)
  BY <1>3 DEF Interrupt, timer_irq, ExpireOne, callback
<1> QED BY <1>4, <1>5, <1>6, <1>7

\* The steps that block.
LEMMA PushAgrees ==
    ASSUME IInv, UInv, NEW c \in Cpu, NEW t \in Task
    PROVE  /\ \A q \in WaitQueue : wait(c, t, q) => Agrees
           /\ WaitUntilLoop(c, t) => Agrees
           /\ GcWait(c) => Agrees
<1>1. ASSUME NEW v \in Task, NEW q \in Queue, NEW from, At(c, v, from), RunQueueFree, BlockOn(c, v, q),
             Locals(v, "wait", q, 0), Goto(v, "cancel_wait"), UNCHANGED cvars
      PROVE  Agrees
  <2>1. /\ pc'[v] = "cancel_wait" /\ loc'[v].q = q /\ rq.current[c] = v
        /\ \A u \in Task \ {v} : pc'[u] = pc[u] /\ loc'[u] = loc[u] /\ events'[u] = events[u]
    <3>1. pc \in [Task -> Locations] /\ loc \in [Task -> LocalsType]
             /\ events \in [Task -> SUBSET {"notify", "timer"}]
      BY DEF IInv, CallType
    <3> QED BY <1>1, <3>1 DEF Goto, Locals, At
  <2>2. (\A u \in Task \ {v} : Still(u)) /\ UNCHANGED <<timers, irq, intl>>
    BY <1>1, <2>1 DEF Still, cvars
  <2>3. pc'[v] \notin TimedLocations /\ pc'[v] # "wait_until"
    BY <2>1 DEF TimedLocations
  <2> QED BY <1>1, <2>1, <2>2, <2>3, PushMatch DEF Agrees
<1>2. ASSUME NEW q \in WaitQueue PROVE wait(c, t, q) => Agrees
  BY <1>1 DEF wait, Call, Queue
<1>3. GcWait(c) => Agrees
  BY <1>1, TaskAssumption DEF GcWait, Queue
<1>4. ASSUME WaitUntilLoop(c, t) PROVE Agrees
  <2>1. /\ At(c, t, "wait_until") /\ RunQueueFree /\ UNCHANGED <<loc, events, timers, irq, intl>>
        /\ pc[t] = "wait_until" /\ rq.current[c] = t /\ rq.state[t] # "Blocked"
    <3>1. At(c, t, "wait_until") /\ RunQueueFree /\ UNCHANGED <<loc, events, timers, irq, intl>>
      BY <1>4 DEF WaitUntilLoop, cvars
    <3> QED BY <3>1, OwnFacts
  <2>2. loc[t].op # "wait" /\ loc[t].q \in Queue
    BY <2>1 DEF UInv, PlaceOk, IInv, CallType, OnQueue
  <2>3. CASE condition(loc[t].q)
    <3>1. Goto(t, "cancel_wait") /\ UNCHANGED <<rq, inwq, wq>>
      BY <1>4, <2>3 DEF WaitUntilLoop
    <3>2. pc'[t] = "cancel_wait" /\ \A v \in Task \ {t} : pc'[v] = pc[v]
      BY <3>1, OwnFacts
    <3>3. (\A v \in Task \ {t} : Still(v)) /\ PlaceOk(t)'
      BY <2>1, <2>2, <3>2 DEF Still, PlaceOk, TimedLocations
    <3> QED BY <2>1, <3>1, <3>3, SameEffect, OwnKind
  <2>4. CASE ~condition(loc[t].q)
    <3>1. BlockOn(c, t, loc[t].q) /\ UNCHANGED pc
      BY <1>4, <2>4 DEF WaitUntilLoop
    <3>2. /\ \A v \in Task \ {t} : Still(v)
          /\ loc'[t].q = loc[t].q /\ loc'[t].op # "wait" /\ pc'[t] \notin TimedLocations
      BY <2>1, <2>2, <3>1 DEF Still, TimedLocations
    <3> QED BY <2>1, <2>2, <3>1, <3>2, PushMatch DEF Agrees
  <2> QED BY <2>3, <2>4
<1> QED BY <1>2, <1>3, <1>4

\* The steps that notify.
LEMMA PopAgrees ==
    ASSUME IInv, UInv, NEW c \in Cpu, NEW t \in Task
    PROVE  /\ \A q \in WaitQueue, b \in BOOLEAN : notify_one(c, t, q, b) => Agrees
           /\ \A q \in WaitQueue, u \in Task, b \in BOOLEAN : notify_task(c, t, q, u, b) => Agrees
           /\ \A b \in BOOLEAN : NotifyAllLoop(c, t, b) => Agrees
           /\ ExitNotify(c, t) => Agrees
           /\ ExitResched(c, t) => Agrees
<1>1. wq \in [Queue -> Seq(Task)] /\ WaitQueue \subseteq Queue /\ Task \subseteq Queue /\ ExitQueue \in Queue
  BY DEF IInv, WaitType, Queue
<1>2. ASSUME NEW q \in Queue, NEW b \in BOOLEAN, wq[q] # << >>, NotifyLocked(c, q, b),
             UNCHANGED <<pc, loc, cvars>>
      PROVE  Agrees
  <2>1. OneLess(wq[q], Tail(wq[q]), Head(wq[q])) /\ Head(wq[q]) \in Task
    BY <1>1, <1>2, TailMember
  <2>2. /\ wq' = [wq EXCEPT ![q] = Tail(wq[q])] /\ inwq' = [inwq EXCEPT ![Head(wq[q])] = FALSE]
        /\ events' = [events EXCEPT ![Head(wq[q])] = @ \union {"notify"}]
        /\ UNCHANGED <<pc, loc, timers, irq, intl>>
    BY <1>2 DEF NotifyLocked, Pop, cvars
  <2>3. /\ NotBlocked(Head(wq[q]))
        /\ rq.state[Head(wq[q])] = "Blocked" => rq'.state[Head(wq[q])] \in {"Ready", "Running"}
    BY <1>2, <2>1, UnblockEffect DEF NotifyLocked
  <2> QED BY <2>1, <2>2, <2>3, PopMatch DEF Agrees
<1>3. ASSUME SameBlocked, UNCHANGED <<pc, loc, events, wq, inwq, timers, irq, intl>> PROVE Agrees
  <2>1. \A v \in Task : Still(v)
    BY <1>3 DEF Still
  <2> QED BY <1>3, <2>1, CalmKind DEF Agrees
<1>4. ASSUME NEW q \in WaitQueue, NEW b \in BOOLEAN, notify_one(c, t, q, b) PROVE Agrees
  <2>1. CASE wq[q] = << >>
    BY <1>3, <1>4, <2>1, SameEffect DEF notify_one, cvars
  <2>2. CASE wq[q] # << >>
    BY <1>1, <1>2, <1>4, <2>2 DEF notify_one
  <2> QED BY <2>1, <2>2
<1>5. ASSUME NEW q \in WaitQueue, NEW u \in Task, NEW b \in BOOLEAN, notify_task(c, t, q, u, b)
      PROVE  Agrees
  <2>1. q \in Queue /\ wq[q] \in Seq(Task)
    BY <1>1
  <2>2. PICK i \in 1..Len(wq[q]) :
            /\ wq[q][i] = u /\ \A j \in 1..(i - 1) : wq[q][j] # u
            /\ wq' = [wq EXCEPT ![q] = Removed(@, i)]
    BY <1>5, Zenon DEF notify_task
  <2>3. OneLess(wq[q], Removed(wq[q], i), u)
    BY <2>1, <2>2, RemovedMember
  <2>4. NotBlocked(u) /\ (rq.state[u] = "Blocked" => rq'.state[u] \in {"Ready", "Running"})
    BY <1>5, UnblockEffect DEF notify_task
  <2>5. /\ wq' = [wq EXCEPT ![q] = Removed(wq[q], i)] /\ inwq' = [inwq EXCEPT ![u] = FALSE]
        /\ events' = [events EXCEPT ![u] = @ \union {"notify"}] /\ UNCHANGED <<pc, loc, timers, irq, intl>>
    BY <1>5, <2>2 DEF notify_task, cvars
  <2> QED BY <2>1, <2>3, <2>4, <2>5, PopMatch DEF Agrees
<1>6. ASSUME NEW b \in BOOLEAN, NotifyAllLoop(c, t, b) PROVE Agrees
  <2>1. loc[t].q \in Queue /\ rq.state[t] # "Blocked"
    BY <1>6, OwnFacts DEF NotifyAllLoop, At, IInv, CallType, OnQueue
  <2>2. CASE wq[loc[t].q] = << >>
    <3>1. /\ Goto(t, "run") /\ loc' = [loc EXCEPT ![t] = NoLocals]
          /\ UNCHANGED <<rq, events, wq, inwq, timers, irq, intl>>
      BY <1>6, <2>2 DEF NotifyAllLoop, cvars
    <3>2. pc'[t] = "run" /\ \A v \in Task \ {t} : pc'[v] = pc[v] /\ loc'[v] = loc[v]
      <4>1. pc \in [Task -> Locations] /\ loc \in [Task -> LocalsType]
        BY DEF IInv, CallType
      <4> QED BY <3>1, <4>1 DEF Goto
    <3>3. \A v \in Task \ {t} : Still(v)
      BY <3>1, <3>2 DEF Still
    <3> QED BY <2>1, <3>1, <3>2, <3>3, SameEffect, OwnKind DEF Elsewhere
  <2>3. CASE wq[loc[t].q] # << >>
    BY <1>2, <1>6, <2>1, <2>3 DEF NotifyAllLoop
  <2> QED BY <2>2, <2>3
<1>7. ASSUME ExitNotify(c, t) PROVE Agrees
  <2>1. PICK b \in BOOLEAN : b = FALSE
    OBVIOUS
  <2> QED BY <1>1, <1>2, <1>7, <2>1 DEF ExitNotify
<1>8. ASSUME ExitResched(c, t) PROVE Agrees
  <2>1. UNCHANGED <<pc, loc, timers, irq, intl>>
    BY <1>8 DEF ExitResched, cvars
  <2>2. CASE wq[ExitQueue] = << >>
    <3>1. rq' = resched(rq, c) /\ UNCHANGED <<wq, inwq, events>>
      BY <1>8, <2>2 DEF ExitResched
    <3> QED BY <1>3, <2>1, <3>1, ReschedEffect
  <2>3. CASE wq[ExitQueue] # << >>
    <3> DEFINE h == Head(wq[ExitQueue])
    <3>1. rq' = resched(unblock_task(rq, c, h, FALSE), c)
      BY <1>8, <2>3 DEF ExitResched
    <3>2. /\ wq' = [wq EXCEPT ![ExitQueue] = Tail(wq[ExitQueue])] /\ inwq' = [inwq EXCEPT ![h] = FALSE]
          /\ events' = [events EXCEPT ![h] = @ \union {"notify"}]
      BY <1>8, <2>3 DEF ExitResched, Pop
    <3>3. OneLess(wq[ExitQueue], Tail(wq[ExitQueue]), h) /\ h \in Task
      BY <1>1, <2>3, TailMember
    <3> HIDE DEF h
    <3>4. PICK b \in BOOLEAN : b = FALSE
      OBVIOUS
    <3>5. NotBlocked(h) /\ (rq.state[h] = "Blocked" => rq'.state[h] \in {"Ready", "Running"})
      BY <3>1, <3>3, <3>4, UnblockReschedEffect
    <3> QED BY <1>1, <2>1, <3>2, <3>3, <3>5, PopMatch DEF Agrees
  <2> QED BY <2>2, <2>3
<1> QED BY <1>4, <1>5, <1>6, <1>7, <1>8

\* Every step.
LEMMA NextAgrees == ASSUME Untimed, IInv, UInv, [Next]_vars PROVE Agrees
<1>1. ASSUME NEW c \in Cpu, NEW t \in Task, Client(c, t) PROVE Agrees
  BY <1>1, StillSteps, OwnSteps, PushAgrees, PopAgrees, NoTimedSteps DEF Client
<1>2. ASSUME NEW c \in Cpu, NEW t \in Task, InCall(c, t) PROVE Agrees
  BY <1>2, OwnSteps, PushAgrees, PopAgrees, NoTimedSteps DEF InCall
<1>3. ASSUME NEW c \in Cpu, CpuStep(c) PROVE Agrees
  <2>1. GcTask \in Task
    BY TaskAssumption
  <2>2. GcStep(c) \/ MainExit(c) => Agrees
    BY <2>1, OwnSteps, PushAgrees DEF GcStep
  <2>3. preempt_resched(c) \/ run_idle(c) \/ SwitchDone(c) => Agrees
    BY <2>1, StillSteps
  <2>4. ~Interrupt(c)
    BY <2>1, NoTimedSteps
  <2> QED BY <1>1, <1>2, <1>3, <2>2, <2>3, <2>4 DEF CpuStep
<1>4. UNCHANGED vars \/ ClockTick => Agrees
  BY StillSteps, TaskAssumption
<1> QED BY <1>3, <1>4 DEF Next

\* The initial state.
LEMMA InitAgrees == Init => UInv
<1> SUFFICES ASSUME Init PROVE UInv
  OBVIOUS
<1>1. NoAlarms
  BY DEF Init, NoAlarms
<1>2. \A t \in Task : PlaceOk(t)
  BY DEF Init, PlaceOk, TimedLocations
<1>3. WaitersMatch
  BY DEF Init, WaitersMatch, InQueue
<1> QED BY <1>1, <1>2, <1>3 DEF UInv

-----------------------------------------------------------------------------
(* gc_entry *)
INSTANCE FiniteSetTheorems

\* The tasks on EXITED_TASKS, and the one that gc_entry has popped, have exited;
\* what it has freed has exited too and is referred to by nothing.
GcInv ==
    /\ \A u \in Task : Member(exited, u) \/ gc.task = u => rq.state[u] = "Exited"
    /\ \A u \in freed : rq.state[u] = "Exited" /\ ~Referred(u)

\* A finite number of CPUs and of queues: Arc counts its references.
FiniteAssumption == IsFiniteSet(Cpu) /\ IsFiniteSet(Queue)

\* Most steps do not touch what gc_entry works on.
LEMMA GcSame ==
    ASSUME NEW c \in Cpu, NEW t \in Task
    PROVE  /\ Client(c, t) => UNCHANGED <<exited, gc, freed>>
           /\ InCall(c, t) => UNCHANGED <<exited, gc, freed>> \/ ExitPush(c, t)
           /\ preempt_resched(c) \/ run_idle(c) \/ SwitchDone(c) => UNCHANGED <<exited, gc, freed>>
           /\ Interrupt(c) \/ ClockTick \/ GcWait(c) => UNCHANGED <<exited, gc, freed>>
<1>1. Client(c, t) => UNCHANGED <<exited, gc, freed>>
  BY DEF Client, yield_now, spawn, drop_handle, join, wait, wait_until, SetCondition, wait_timeout,
         wait_timeout_until, SetAlarm, notify_one, notify_task, notify_all, sleep_until, ExitBegin, gvars
<1>2. InCall(c, t) => UNCHANGED <<exited, gc, freed>> \/ ExitPush(c, t)
  BY DEF InCall, CancelWait, CancelAlarm, WaitUntilLoop, TimeoutBlock, TimeoutRead, UntilClock,
         UntilLock, SleepReturn, NotifyAllLoop, ExitNotify, ExitResched, gvars
<1>3. preempt_resched(c) \/ run_idle(c) \/ SwitchDone(c) => UNCHANGED <<exited, gc, freed>>
  BY DEF preempt_resched, run_idle, SwitchDone, gvars
<1>4. Interrupt(c) \/ ClockTick \/ GcWait(c) => UNCHANGED <<exited, gc, freed>>
  BY DEF Interrupt, timer_irq, ExpireOne, callback, ClockTick, GcWait, gvars
<1> QED BY <1>1, <1>2, <1>3, <1>4

\* The sets that strong_count() counts.
CpuEntries(u) == {c \in Cpu : rq.current[c] = u}
FiringEntries(u) == {c \in Cpu : firing[c] = u}
TimerEntries(u) == {i \in 1..Len(timers) : timers[i][2] = u}
QueueEntries(u) == UNION {{q} \X {i \in 1..Len(wq[q]) : wq[q][i] = u} : q \in Queue}
ReadyEntries(u) == {i \in 1..Len(rq.ready) : rq.ready[i] = u}
ExitedEntries(u) == {i \in 1..Len(exited) : exited[i] = u}

\* The number of entries of u in all the wait queues is a number.
LEMMA QueueEntriesFinite ==
    ASSUME FiniteAssumption, IInv, NEW u
    PROVE  IsFiniteSet(QueueEntries(u))
<1> DEFINE E(q) == {q} \X {i \in 1..Len(wq[q]) : wq[q][i] = u}
           S == {E(q) : q \in Queue}
           f == [q \in Queue |-> E(q)]
<1>1. ASSUME NEW q \in Queue PROVE IsFiniteSet(E(q))
  <2>1. Len(wq[q]) \in Nat
    BY DEF IInv, WaitType
  <2>2. IsFiniteSet(1..Len(wq[q]))
    BY <2>1, FS_Interval
  <2> DEFINE I == {i \in 1..Len(wq[q]) : wq[q][i] = u}
  <2>3. I \in SUBSET (1..Len(wq[q]))
    OBVIOUS
  <2> HIDE DEF I
  <2>4. IsFiniteSet(I)
    BY <2>2, <2>3, FS_Subset
  <2>5. IsFiniteSet({q})
    BY FS_Singleton
  <2>6. IsFiniteSet({q} \X I)
    BY <2>4, <2>5, FS_Product
  <2> QED BY <2>6 DEF I
<1>2. f \in Surjection(Queue, S)
  <2> HIDE DEF E
  <2> QED BY DEF Surjection
<1>3. \A T \in S : IsFiniteSet(T)
  BY <1>1
<1>4. QueueEntries(u) = UNION S
  BY DEF QueueEntries
<1> HIDE DEF S, f
<1>5. IsFiniteSet(S)
  BY <1>2, FS_Surjection DEF FiniteAssumption
<1> QED BY <1>3, <1>4, <1>5, FS_UNION

\* The sets are finite, and empty where there is no reference.
LEMMA EntriesFacts ==
    ASSUME FiniteAssumption, IInv, NEW u \in Task
    PROVE  /\ IsFiniteSet(CpuEntries(u)) /\ (CpuEntries(u) = {} <=> ~OnCpu(u))
           /\ IsFiniteSet(FiringEntries(u)) /\ IsFiniteSet(TimerEntries(u))
           /\ (FiringEntries(u) = {} /\ TimerEntries(u) = {}) <=> ~HasAlarm(u)
           /\ IsFiniteSet(QueueEntries(u)) /\ (QueueEntries(u) = {} <=> ~Queued(u))
           /\ IsFiniteSet(ReadyEntries(u)) /\ (ReadyEntries(u) = {} <=> ~InReady(rq, u))
           /\ IsFiniteSet(ExitedEntries(u)) /\ (ExitedEntries(u) = {} <=> ~Member(exited, u))
<1>1. ASSUME NEW n \in Nat, NEW T \in SUBSET (1..n) PROVE IsFiniteSet(T)
  <2>1. IsFiniteSet(1..n)
    BY FS_Interval
  <2> QED BY <2>1, FS_Subset
<1>2. ASSUME NEW T \in SUBSET Cpu PROVE IsFiniteSet(T)
  BY FS_Subset DEF FiniteAssumption
<1>3. Len(timers) \in Nat /\ Len(rq.ready) \in Nat /\ Len(exited) \in Nat
  BY RqFacts DEF IInv, ClockType, GcType, RunQueueType
<1>4. IsFiniteSet(CpuEntries(u)) /\ IsFiniteSet(FiringEntries(u))
  BY <1>2 DEF CpuEntries, FiringEntries
<1>5. IsFiniteSet(TimerEntries(u)) /\ IsFiniteSet(ReadyEntries(u)) /\ IsFiniteSet(ExitedEntries(u))
  <2>1. /\ TimerEntries(u) \in SUBSET (1..Len(timers)) /\ ReadyEntries(u) \in SUBSET (1..Len(rq.ready))
        /\ ExitedEntries(u) \in SUBSET (1..Len(exited))
    BY DEF TimerEntries, ReadyEntries, ExitedEntries
  <2> QED BY <1>1, <1>3, <2>1
<1>6. IsFiniteSet(QueueEntries(u))
  BY QueueEntriesFinite
<1>7. CpuEntries(u) = {} <=> ~OnCpu(u)
  BY DEF CpuEntries, OnCpu
<1>8. (FiringEntries(u) = {} /\ TimerEntries(u) = {}) <=> ~HasAlarm(u)
  BY DEF FiringEntries, TimerEntries, HasAlarm
<1>9. (ReadyEntries(u) = {} <=> ~InReady(rq, u)) /\ (ExitedEntries(u) = {} <=> ~Member(exited, u))
  BY DEF ReadyEntries, InReady, ExitedEntries, Member
<1>10. QueueEntries(u) = {} <=> ~Queued(u)
  <2>1. ASSUME Queued(u) PROVE QueueEntries(u) # {}
    <3>0. PICK q \in Queue : InQueue(u, q)
      BY <2>1 DEF Queued
    <3>1. PICK i \in 1..Len(wq[q]) : wq[q][i] = u
      BY <3>0 DEF InQueue
    <3>2. <<q, i>> \in {q} \X {j \in 1..Len(wq[q]) : wq[q][j] = u}
      BY <3>1
    <3>3. <<q, i>> \in QueueEntries(u)
      BY <3>2 DEF QueueEntries
    <3> QED BY <3>3
  <2>2. ASSUME NEW e \in QueueEntries(u) PROVE Queued(u)
    <3>1. PICK q \in Queue : e \in {q} \X {j \in 1..Len(wq[q]) : wq[q][j] = u}
      BY <2>2 DEF QueueEntries
    <3> QED BY <3>1 DEF Queued, InQueue
  <2> QED BY <2>1, <2>2
<1> QED BY <1>4, <1>5, <1>6, <1>7, <1>8, <1>9, <1>10

\* The references that strong_count() adds up.
LEMMA CountSum ==
    ASSUME NEW u
    PROVE  strong_count(u) =
             Cardinality(CpuEntries(u)) + Cardinality(FiringEntries(u)) + Cardinality(TimerEntries(u))
             + Cardinality(QueueEntries(u)) + Cardinality(ReadyEntries(u)) + Cardinality(ExitedEntries(u))
             + Cardinality({u} \intersect handle) + Cardinality({u} \intersect {gc.task})
BY DEF strong_count, Occurrences, CpuEntries, FiringEntries, TimerEntries, QueueEntries,
       ReadyEntries, ExitedEntries

\* A count of one, gc_entry's own reference, means that there is no other.
LEMMA LastReference ==
    ASSUME FiniteAssumption, IInv, gc.task \in Task, strong_count(gc.task) = 1
    PROVE  /\ ~OnCpu(gc.task) /\ ~Queued(gc.task) /\ ~HasAlarm(gc.task)
           /\ ~Member(exited, gc.task) /\ gc.task \notin handle
<1> DEFINE u == gc.task
           a == Cardinality(CpuEntries(u))
           b == Cardinality(FiringEntries(u))
           d == Cardinality(TimerEntries(u))
           e == Cardinality(QueueEntries(u))
           f == Cardinality(ReadyEntries(u))
           g == Cardinality(ExitedEntries(u))
           h == Cardinality({u} \intersect handle)
           k == Cardinality({u} \intersect {gc.task})
<1>1. a + b + d + e + f + g + h + k = 1
  BY CountSum
<1>2. k = 1
  <2>1. {u} \intersect {gc.task} = {u}
    OBVIOUS
  <2> QED BY <2>1, FS_Singleton
<1>3. IsFiniteSet({u} \intersect handle)
  BY FS_Singleton, FS_Intersection
<1>4. a \in Nat /\ b \in Nat /\ d \in Nat /\ e \in Nat /\ f \in Nat /\ g \in Nat /\ h \in Nat
  BY <1>3, EntriesFacts, FS_CardinalityType
<1> HIDE DEF a, b, d, e, f, g, h, k
<1>5. a = 0 /\ b = 0 /\ d = 0 /\ e = 0 /\ g = 0 /\ h = 0
  BY <1>1, <1>2, <1>4
<1>6. /\ CpuEntries(u) = {} /\ FiringEntries(u) = {} /\ TimerEntries(u) = {} /\ QueueEntries(u) = {}
      /\ ExitedEntries(u) = {} /\ {u} \intersect handle = {}
  BY <1>3, <1>5, EntriesFacts, FS_EmptySet DEF a, b, d, e, g, h
<1>7. u \notin handle
  BY <1>6
<1> QED BY <1>6, <1>7, EntriesFacts

\* Without references, the count is zero.
LEMMA NoReference ==
    ASSUME FiniteAssumption, IInv, NEW u \in Task, ~Referred(u), rq.state[u] = "Exited"
    PROVE  strong_count(u) = 0
<1>1. ~InReady(rq, u)
  BY RqFacts DEF Consistent
<1>2. {u} \intersect handle = {} /\ {u} \intersect {gc.task} = {}
  BY DEF Referred, Listed
<1>3. /\ CpuEntries(u) = {} /\ FiringEntries(u) = {} /\ TimerEntries(u) = {} /\ QueueEntries(u) = {}
      /\ ReadyEntries(u) = {} /\ ExitedEntries(u) = {}
  BY <1>1, EntriesFacts DEF Referred, Listed
<1> QED BY <1>2, <1>3, CountSum, FS_EmptySet

\* The initial state.
LEMMA GcInit == Init => GcInv
<1> SUFFICES ASSUME Init PROVE GcInv
  OBVIOUS
<1>1. exited = << >> /\ gc.task = NONE /\ freed = {}
  BY DEF Init
<1> QED BY <1>1, TaskAssumption DEF GcInv, Member

\* Every step keeps GcInv.
LEMMA GcNext ==
    ASSUME FiniteAssumption, IInv, GcInv, [Next]_vars
    PROVE  GcInv'
<1>1. NoNewRefs /\ ExitedStays
  BY NextHarmless DEF Harmless
<1>2. freed \subseteq Task /\ exited \in Seq(Task) /\ gc \in [n : Nat, task : Task \union {NONE}]
  BY DEF IInv, GcType
<1>3. \A u \in freed : rq'.state[u] = "Exited" /\ ~Referred(u)'
  BY <1>1, <1>2 DEF GcInv, NoNewRefs, ExitedStays
<1>4. ASSUME freed' = freed,
             \A u \in Task : Member(exited', u) \/ gc'.task = u
                                => Member(exited, u) \/ gc.task = u \/ rq.state[u] = "Exited"
      PROVE  GcInv'
  <2>1. \A u \in Task : Member(exited', u) \/ gc'.task = u => rq'.state[u] = "Exited"
    BY <1>1, <1>4 DEF GcInv, ExitedStays
  <2> QED BY <1>3, <1>4, <2>1 DEF GcInv
<1>5. UNCHANGED <<exited, gc, freed>> => GcInv'
  BY <1>4
<1>6. ASSUME NEW c \in Cpu, NEW t \in Task, ExitPush(c, t) PROVE GcInv'
  <2>1. exited' = Append(exited, t) /\ UNCHANGED <<gc, freed>> /\ rq.state[t] = "Exited"
    BY <1>6 DEF ExitPush, At, IInv, ExitingIsExited, Exiting
  <2>2. OneMore(exited, exited', t)
    BY <1>2, <2>1, AppendMember
  <2> QED BY <1>4, <2>1, <2>2 DEF OneMore
<1>7. ASSUME NEW c \in Cpu, MainExit(c) PROVE GcInv'
  <2>1. exited' = << >> /\ UNCHANGED <<gc, freed>>
    BY <1>7 DEF MainExit
  <2>2. \A u : ~Member(exited', u)
    BY <2>1 DEF Member
  <2> QED BY <1>4, <2>1, <2>2
<1>8. ASSUME NEW c \in Cpu, GcLen(c) PROVE GcInv'
  <2>1. UNCHANGED <<exited, freed>> /\ gc'.task = gc.task
    BY <1>2, <1>8 DEF GcLen
  <2> QED BY <1>4, <2>1
<1>9. ASSUME NEW c \in Cpu, GcPop(c) PROVE GcInv'
  <2>1. freed' = freed
    BY <1>9 DEF GcPop
  <2>2. CASE exited = << >>
    <3>1. exited' = exited /\ gc'.task = gc.task
      BY <1>2, <1>9, <2>2 DEF GcPop
    <3> QED BY <1>4, <2>1, <3>1
  <2>3. CASE exited # << >>
    <3>1. gc'.task = Head(exited) /\ exited' = Tail(exited)
      BY <1>9, <2>3 DEF GcPop
    <3>2. OneLess(exited, exited', gc'.task)
      BY <1>2, <2>3, <3>1, TailMember
    <3> QED BY <1>4, <2>1, <3>2 DEF OneLess
  <2> QED BY <2>2, <2>3
<1>10. ASSUME NEW c \in Cpu, GcCheck(c) PROVE GcInv'
  <2>1. /\ gc' = [gc EXCEPT !.task = NONE] /\ pc[GcTask] = "gc_check"
        /\ UNCHANGED <<rq, wq, timers, firing, handle>>
    BY <1>10 DEF GcCheck, At, wvars, cvars
  <2>2. gc'.task = NONE /\ gc.task \in Task
    BY <1>2, <2>1 DEF IInv, GcHasTask
  <2>3. CASE strong_count(gc.task) = 1
    <3>1. freed' = freed \union {gc.task} /\ exited' = exited
      BY <1>10, <2>3 DEF GcCheck
    <3>2. /\ ~OnCpu(gc.task) /\ ~Queued(gc.task) /\ ~HasAlarm(gc.task)
          /\ ~Member(exited, gc.task) /\ gc.task \notin handle
      BY <2>2, <2>3, LastReference
    <3>3. rq'.state[gc.task] = "Exited"
      BY <2>1, <2>2 DEF GcInv
    <3>4. PICK v \in Task : v = gc.task
      BY <2>2
    <3>6. ~Referred(v)'
      <4>1. ~Queued(v)' /\ ~HasAlarm(v)' /\ ~OnCpu(v)'
        BY <2>1, <3>2, <3>4 DEF Queued, InQueue, HasAlarm, OnCpu
      <4>2. ~Listed(v)'
        BY <2>1, <2>2, <3>1, <3>2, <3>4, TaskAssumption DEF Listed
      <4> QED BY <4>1, <4>2 DEF Referred
    <3>5. \A u \in Task : Member(exited', u) \/ gc'.task = u => rq'.state[u] = "Exited"
      BY <2>1, <2>2, <3>1, TaskAssumption DEF GcInv
    <3> QED BY <1>3, <3>1, <3>3, <3>4, <3>5, <3>6 DEF GcInv
  <2>4. CASE strong_count(gc.task) # 1
    <3>1. freed' = freed /\ exited' = Append(exited, gc.task)
      BY <1>10, <2>4 DEF GcCheck
    <3>2. OneMore(exited, exited', gc.task)
      BY <1>2, <2>2, <3>1, AppendMember
    <3> QED BY <1>4, <2>2, <3>1, <3>2, TaskAssumption DEF OneMore
  <2> QED BY <2>3, <2>4
<1>11. ASSUME NEW c \in Cpu, CpuStep(c) PROVE GcInv'
  <2>1. ASSUME NEW t \in Task, Client(c, t) \/ InCall(c, t) PROVE GcInv'
    BY <1>5, <1>6, <2>1, GcSame
  <2>2. GcStep(c) => GcInv'
    BY <1>5, <1>8, <1>9, <1>10, GcSame, TaskAssumption DEF GcStep
  <2>3. Interrupt(c) \/ preempt_resched(c) \/ run_idle(c) \/ SwitchDone(c) => GcInv'
    BY <1>5, GcSame, TaskAssumption
  <2> QED BY <1>7, <1>11, <2>1, <2>2, <2>3 DEF CpuStep
<1>12. ClockTick => GcInv'
  BY <1>5 DEF ClockTick, gvars
<1>13. UNCHANGED vars => GcInv'
  BY <1>5 DEF vars, gvars
<1> QED BY <1>11, <1>12, <1>13 DEF Next

-----------------------------------------------------------------------------
(* The properties that the runs check. *)

\* With finitely many CPUs and queues, gc_entry frees a task only when it has
\* exited and nothing refers to it: no queue, timer, CPU, handle or call still
\* holds the Arc, however exit, join, spawn and preemption interleave.
THEOREM FreedSafety ==
    ASSUME FiniteAssumption
    PROVE  Spec => [](FreedIsUnreachable /\ FreedOnce)
<1>1. Init => IInv /\ GcInv
  BY InitIInv, GcInit
<1>2. IInv /\ GcInv /\ [Next]_vars => (IInv /\ GcInv)'
  BY NextIInv, GcNext
<1>3. IInv /\ GcInv => FreedIsUnreachable
  <2> SUFFICES ASSUME IInv, GcInv, NEW u \in freed
               PROVE  rq.state[u] = "Exited" /\ strong_count(u) = 0
    BY DEF FreedIsUnreachable
  <2>1. u \in Task
    BY DEF IInv, GcType
  <2>2. rq.state[u] = "Exited" /\ ~Referred(u)
    BY DEF GcInv
  <2> QED BY <2>1, <2>2, NoReference
<1>4. FreedIsUnreachable => FreedOnce
  BY DEF FreedOnce
<1> QED BY <1>1, <1>2, <1>3, <1>4, PTL DEF Spec

\* Without timed calls, the invariant of the waits holds of every state.
LEMMA WaitsKept ==
    ASSUME Untimed
    PROVE  Spec => [](IInv /\ UInv)
<1>1. Init => IInv /\ UInv
  BY InitIInv, InitAgrees
<1>2. IInv /\ UInv /\ [Next]_vars => (IInv /\ UInv)'
  BY NextIInv, NextAgrees DEF Agrees
<1> QED BY <1>1, <1>2, PTL DEF Spec

\* Without timed calls, the wait queues, the flags in_wait_queue and the task
\* states agree in every state that any race of wait, wait_until, notify, join,
\* exit and preemption reaches, with any number of tasks, CPUs and queues.
THEOREM QueuesSafety ==
    ASSUME Untimed
    PROVE  Spec => [](WaitersMatch /\ QueuesMatchStates)
<1>1. UInv => WaitersMatch /\ QueuesMatchStates
  BY DEF UInv, QueuesMatchStates
<1> QED BY <1>1, WaitsKept, PTL

\* Without timed calls, wait() returns only to a task that was notified.
THEOREM WaitSafety ==
    ASSUME Untimed
    PROVE  Spec => [](WaitReturnsNotified /\ WaitsEndNotified)
<1>1. UInv => WaitReturnsNotified
  BY DEF UInv, PlaceOk, WaitReturnsNotified
<1>2. WaitReturnsNotified => WaitsEndNotified
  BY DEF WaitsEndNotified
<1> QED BY <1>1, <1>2, WaitsKept, PTL

\* Without timed calls, a step that takes an entry out of a wait queue wakes a
\* task that was blocked in it: no notification is lost on one that is awake.
THEOREM NotifySafety ==
    ASSUME Untimed
    PROVE  Spec => NotificationsWake
<1>1. IInv /\ UInv /\ [Next]_vars => [part = "smp" => NotifyStep]_<<part, vars>>
  BY NextAgrees DEF Agrees
<1> QED BY <1>1, WaitsKept, PTL DEF Spec, NotificationsWake
=============================================================================
