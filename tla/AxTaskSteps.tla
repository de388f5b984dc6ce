---------------------------- MODULE AxTaskSteps ----------------------------
(* Every step of AxTask keeps the invariant of AxTaskProofs, and what steps  *)
(* do to the run queue and to the wait queues.                               *)
EXTENDS AxTaskProofs

\* The provers of a leaf: Zenon first, which is fast where it succeeds.
USE ZenonT(2), SMTT(30), ZenonT(30)

\* The later steps of the calls.
LEMMA InCallSteps ==
    ASSUME IInv, NEW c \in Cpu, NEW t \in Task
    PROVE  /\ CancelWait(c, t) => IInv'
           /\ CancelAlarm(c, t) => IInv'
           /\ WaitUntilLoop(c, t) => IInv'
           /\ TimeoutBlock(c, t) => IInv'
           /\ TimeoutRead(c, t) => IInv'
           /\ UntilClock(c, t) => IInv'
           /\ UntilLock(c, t) => IInv'
           /\ SleepReturn(c, t) => IInv'
           /\ \A b \in BOOLEAN : NotifyAllLoop(c, t, b) => IInv'
<1>1. /\ {"cancel_wait", "cancel_alarm", "timeout_read", "until_clock", "until_lock"}
            \subseteq Locations \ (Exiting \union {"gc_check"})
      /\ "cancel_alarm" \notin OnQueue /\ {"cancel_wait", "wait_until", "timeout_block", "timeout_read",
            "until_clock", "until_lock", "notify_all"} \subseteq OnQueue
  BY DEF Locations, Exiting, OnQueue
<1>2. ASSUME NEW from \in OnQueue, At(c, t, from) PROVE loc[t].q \in Queue /\ rq.current[c] = t
  BY <1>2 DEF At, IInv, CallType
<1>3. ASSUME CancelWait(c, t) PROVE IInv'
  <2>1. loc[t].q \in Queue /\ wq[loc[t].q] \in Seq(Task)
    BY <1>1, <1>2, <1>3 DEF CancelWait, IInv, WaitType
  <2>2. Without(wq[loc[t].q], {t}) \in Seq(Task)
    BY <2>1, WithoutFacts
  <2>3. WaitType'
    BY <1>3, <2>1, <2>2 DEF CancelWait, IInv, WaitType
  <2>4. CallType' /\ NoneArrives
    BY <1>1, <1>3, GotoStep, SMTT(30) DEF CancelWait
  <2> QED BY <1>3, <2>3, <2>4, SameStep, SameTypes, Together, SMTT(30) DEF CancelWait
<1>4. ASSUME CancelAlarm(c, t) PROVE IInv'
  <2>1. Without(timers, (0..MaxTime) \X {t}) \in Seq((0..MaxTime) \X Task)
    <3>1. timers \in Seq((0..MaxTime) \X Task)
      BY DEF IInv, ClockType
    <3> QED BY <3>1, WithoutSeq
  <2>2. ClockType'
    BY <1>4, <2>1 DEF CancelAlarm, IInv, ClockType
  <2>3. CallType' /\ NoneArrives
    BY <1>4, ReturnStep, ZenonT(60) DEF CancelAlarm
  <2> QED BY <1>4, <2>2, <2>3, SameStep, SameTypes, Together DEF CancelAlarm
<1>5. ASSUME WaitUntilLoop(c, t) PROVE IInv'
  <2>1. loc[t].q \in Queue /\ rq.current[c] = t
    BY <1>1, <1>2, <1>5 DEF WaitUntilLoop
  <2>2. CASE condition(loc[t].q)
    <3>1. CallType' /\ NoneArrives
      BY <1>1, <1>5, <2>1, <2>2, GotoStep, Zenon DEF WaitUntilLoop
    <3>2. UNCHANGED wvars
      BY <1>5, <2>2, SMTT(30) DEF WaitUntilLoop, wvars
    <3> QED BY <1>5, <2>2, <3>1, <3>2, SameStep, SameTypes, Together, ZenonT(60) DEF WaitUntilLoop
  <2>3. CASE ~condition(loc[t].q)
    <3>1. BlockOn(c, t, loc[t].q) /\ UNCHANGED tvars
      BY <1>5, <2>3 DEF WaitUntilLoop, tvars
    <3>2. WaitType'
      BY <1>5, <2>1, <3>1, PushStep, SMTT(30) DEF WaitUntilLoop
    <3>3. SchedInv' /\ ExitedStays
      BY <1>5, <2>1, <3>1, BlockStep, SMTT(30) DEF WaitUntilLoop, BlockOn
    <3> QED BY <1>5, <3>1, <3>2, <3>3, SameTypes, Together, Zenon DEF WaitUntilLoop
  <2> QED BY <2>2, <2>3
<1>6. ASSUME TimeoutBlock(c, t) PROVE IInv'
  <2>1. loc[t].q \in Queue /\ rq.current[c] = t
    BY <1>1, <1>2, <1>6, SMTT(30) DEF TimeoutBlock
  <2>2. CallType' /\ NoneArrives
    BY <1>1, <1>6, <2>1, GotoStep DEF TimeoutBlock
  <2>3. WaitType'
    BY <1>6, <2>1, PushStep DEF TimeoutBlock
  <2>4. SchedInv' /\ ExitedStays
    BY <1>6, <2>1, BlockStep DEF TimeoutBlock, BlockOn
  <2> QED BY <1>6, <2>2, <2>3, <2>4, SameTypes, Together, SMTT(30) DEF TimeoutBlock
<1>7. ASSUME TimeoutRead(c, t) PROVE IInv'
  <2>1. loc[t].q \in Queue
    BY <1>1, <1>2, <1>7 DEF TimeoutRead
  <2>2. CallType' /\ NoneArrives
    <3>1. inwq[t] \in BOOLEAN /\ loc[t] \in LocalsType
      BY DEF IInv, WaitType, CallType
    <3> QED BY <1>1, <1>7, <2>1, <3>1, LocalsStep, Zenon DEF TimeoutRead
  <2> QED BY <1>7, <2>2, SameStep, SameTypes, Together DEF TimeoutRead
<1>8. ASSUME UntilClock(c, t) PROVE IInv'
  <2>1. loc[t].q \in Queue
    BY <1>1, <1>2, <1>8 DEF UntilClock
  <2>2. CallType' /\ NoneArrives
    <3>1. (now >= loc[t].deadline) \in BOOLEAN
      OBVIOUS
    <3> QED BY <1>1, <1>8, <2>1, <3>1, LocalsStep, Zenon DEF UntilClock
  <2> QED BY <1>8, <2>2, SameStep, SameTypes, Together DEF UntilClock
<1>9. ASSUME UntilLock(c, t) PROVE IInv'
  <2>1. loc[t].q \in Queue /\ rq.current[c] = t
    BY <1>1, <1>2, <1>9 DEF UntilLock
  <2>2. CASE condition(loc[t].q)
    <3>1. CallType' /\ NoneArrives
      BY <1>1, <1>9, <2>1, <2>2, GotoStep DEF UntilLock
    <3>2. UNCHANGED wvars
      BY <1>9, <2>2 DEF UntilLock, wvars
    <3> QED BY <1>9, <2>2, <3>1, <3>2, SameStep, SameTypes, Together, SMTT(30) DEF UntilLock
  <2>3. CASE ~condition(loc[t].q)
    <3>1. BlockOn(c, t, loc[t].q) /\ Goto(t, "until_clock")
      BY <1>9, <2>3 DEF UntilLock
    <3>2. CallType' /\ NoneArrives
      BY <1>1, <1>9, <2>1, <3>1, GotoStep DEF UntilLock
    <3>3. WaitType'
      BY <1>9, <2>1, <3>1, PushStep, SMTT(30) DEF UntilLock
    <3>4. SchedInv' /\ ExitedStays
      BY <1>9, <2>1, <3>1, BlockStep DEF UntilLock, BlockOn
    <3> QED BY <1>9, <3>2, <3>3, <3>4, SameTypes, Together DEF UntilLock
  <2> QED BY <2>2, <2>3
<1>10. ASSUME SleepReturn(c, t) PROVE IInv'
  <2>1. CallType' /\ NoneArrives
    BY <1>10, ReturnStep, ZenonT(60) DEF SleepReturn
  <2> QED BY <1>10, <2>1, SameStep, SameTypes, Together DEF SleepReturn
<1>11. ASSUME NEW b \in BOOLEAN, NotifyAllLoop(c, t, b) PROVE IInv'
  <2>1. loc[t].q \in Queue
    BY <1>1, <1>2, <1>11 DEF NotifyAllLoop
  <2>2. CASE wq[loc[t].q] # << >>
    <3> DEFINE q == loc[t].q
    <3>1. Pop(q) /\ rq' = unblock_task(rq, c, Head(wq[q]), b) /\ UNCHANGED <<pc, loc, calls>>
      BY <1>11, <2>2, Zenon DEF NotifyAllLoop, NotifyLocked
    <3> HIDE DEF q
    <3>2. calls' \in [Task -> Nat] /\ q \in Queue /\ wq[q] # << >>
      BY <2>1, <2>2, <3>1, SMTT(30) DEF IInv, CallType, q
    <3>3. WaitType' /\ CallType' /\ NoneArrives /\ Head(wq[q]) \in Task
      BY <1>11, <3>1, <3>2, PopStep, SMTT(30) DEF NotifyAllLoop
    <3>4. SchedInv' /\ ExitedStays
      BY <1>11, <3>1, <3>3, UnblockStep, SMTT(30) DEF NotifyAllLoop
    <3> QED BY <1>11, <3>3, <3>4, SameTypes, Together DEF NotifyAllLoop
  <2>3. CASE wq[loc[t].q] = << >>
    <3>1. CallType' /\ NoneArrives
      BY <1>11, <2>3, ReturnStep, ZenonT(60) DEF NotifyAllLoop
    <3>2. UNCHANGED wvars
      BY <1>11, <2>3, Zenon DEF NotifyAllLoop, wvars
    <3>3. UNCHANGED <<rq, rqlock, leaving, cvars, gvars>>
      BY <1>11, <2>3, Zenon DEF NotifyAllLoop
    <3>4. SchedInv' /\ ExitedStays
      BY <3>3, SameStep
    <3> QED BY <3>1, <3>2, <3>3, <3>4, SameTypes, Together
  <2> QED BY <2>2, <2>3
<1> QED BY <1>3, <1>4, <1>5, <1>6, <1>7, <1>8, <1>9, <1>10, <1>11

\* The clock, the timer interrupt and its callback.
LEMMA TimerSteps ==
    ASSUME IInv
    PROVE  /\ ClockTick => IInv'
           /\ \A c \in Cpu : timer_irq(c) => IInv'
           /\ \A c \in Cpu : ExpireOne(c) => IInv'
           /\ \A c \in Cpu : callback(c) => IInv'
<1>1. ASSUME ClockTick PROVE IInv'
  <2>1. ClockType'
    BY <1>1, TaskAssumption DEF ClockTick, IInv, ClockType
  <2> QED BY <1>1, <2>1, SameStep, SameTypes, Together DEF ClockTick
<1>2. ASSUME NEW c \in Cpu, timer_irq(c) PROVE IInv'
  <2>1. ClockType'
    BY <1>2 DEF timer_irq, IInv, ClockType
  <2> QED BY <1>2, <2>1, SameStep, SameTypes, Together DEF timer_irq
<1>3. ASSUME NEW c \in Cpu, ExpireOne(c) PROVE IInv'
  <2>1. ASSUME NEW i \in 1..Len(timers), timers' = Removed(timers, i),
               firing' = [firing EXCEPT ![c] = timers[i][2]],
               irq' = [irq EXCEPT ![c] = "fire"], UNCHANGED <<intl, now>>
        PROVE  ClockType'
    <3>1. timers \in Seq((0..MaxTime) \X Task) /\ timers[i] \in (0..MaxTime) \X Task
      BY DEF IInv, ClockType
    <3>2. Removed(timers, i) \in Seq((0..MaxTime) \X Task)
      BY <3>1 DEF Removed
    <3>3. timers[i][2] \in Task /\ timers[i][2] # NONE
      BY <3>1, TaskAssumption
    <3> QED BY <2>1, <3>2, <3>3 DEF IInv, ClockType
  <2>2. ASSUME irq[c] = "check", irq' = [irq EXCEPT ![c] = "off"], UNCHANGED <<timers, firing, intl, now>>
        PROVE  ClockType'
    BY <2>2 DEF IInv, ClockType
  <2>3. ClockType'
    BY <1>3, <2>1, <2>2 DEF ExpireOne
  <2> QED BY <1>3, <2>3, SameStep, SameTypes, Together DEF ExpireOne
<1>4. ASSUME NEW c \in Cpu, callback(c) PROVE IInv'
  <2>1. firing[c] \in Task
    BY <1>4 DEF callback, IInv, ClockType
  <2>2. ClockType'
    BY <1>4, <2>1, TaskAssumption DEF callback, IInv, ClockType
  <2>3. events' \in [Task -> SUBSET {"notify", "timer"}]
    BY <1>4, <2>1 DEF callback, IInv, CallType
  <2>4. CallType' /\ NoneArrives
    BY <1>4, <2>3 DEF callback, IInv, CallType, NoneArrives
  <2>5. SchedInv' /\ ExitedStays
    BY <1>4, <2>1, UnblockStep, Zenon DEF callback
  <2> QED BY <1>4, <2>2, <2>4, <2>5, SameTypes, Together DEF callback
<1> QED BY <1>1, <1>2, <1>3, <1>4

\* exit_current() and the switch away from the exited task.
LEMMA ExitSteps ==
    ASSUME IInv, NEW c \in Cpu
    PROVE  /\ MainExit(c) => IInv'
           /\ \A t \in Task : ExitBegin(c, t) => IInv'
           /\ \A t \in Task : ExitNotify(c, t) => IInv'
           /\ \A t \in Task : ExitPush(c, t) => IInv'
           /\ \A t \in Task : ExitResched(c, t) => IInv'
           /\ SwitchDone(c) => IInv'
<1>1. rq \in RunQueueType /\ Consistent(rq, rqlock)
  BY DEF IInv, SchedInv, SchedType, RunQueueConsistent
<1>2. \A d \in Cpu : rq.current[d] # IDLE =>
         rq.state[rq.current[d]] = "Running" \/ (rq.state[rq.current[d]] = "Exited" /\ rqlock = d)
  BY <1>1 DEF Consistent
<1>3. RunQueueFree => \A d \in Cpu : leaving[d] = NONE
  BY TaskAssumption DEF IInv, SchedInv, LeavingLocked, RunQueueFree
<1>4. ASSUME NEW lock, \A d \in Cpu : rq.current[d] # IDLE => rq.state[rq.current[d]] = "Running"
      PROVE  Consistent(rq, lock)
  BY <1>1, <1>4 DEF Consistent
<1>5. ASSUME MainExit(c) PROVE IInv'
  <2>1. RunQueueFree /\ rqlock' = c /\ UNCHANGED <<rq, leaving>>
    BY <1>5 DEF MainExit
  <2>2. Consistent(rq, c)
    <3>1. \A d \in Cpu : rqlock # d
      BY <2>1, TaskAssumption DEF RunQueueFree
    <3> QED BY <1>2, <1>4, <3>1
  <2>3. SchedInv'
    <3>1. SchedType' /\ RunQueueConsistent'
      BY <2>1, <2>2 DEF IInv, SchedInv, SchedType, RunQueueConsistent
    <3>2. LeavingLocked'
      BY <1>3, <2>1 DEF LeavingLocked
    <3> QED BY <3>1, <3>2 DEF SchedInv
  <2>4. ExitedStays
    BY <2>1 DEF ExitedStays
  <2>5. CallType' /\ NoneArrives
    <3>1. calls' \in [Task -> Nat] /\ Goto(MainTask, "terminated") /\ UNCHANGED <<loc, events>>
      BY <1>5, TaskAssumption DEF MainExit, Call, IInv, CallType
    <3> QED BY <3>1, TaskAssumption DEF IInv, CallType, NoneArrives, Goto, Locations, OnQueue, Exiting
  <2>6. GcType' /\ gc'.task = gc.task
    BY <1>5 DEF MainExit, IInv, GcType
  <2> QED BY <1>5, <2>3, <2>4, <2>5, <2>6, SameTypes, Together DEF MainExit
<1>6. ASSUME NEW t \in Task, ExitBegin(c, t) PROVE IInv'
  <2>1. /\ RunQueueFree /\ rqlock' = c /\ rq.current[c] = t /\ UNCHANGED leaving
        /\ rq' = [rq EXCEPT !.state[t] = "Exited"]
    BY <1>6 DEF ExitBegin, At
  <2>2. rq.state[t] = "Running" /\ \A d \in Cpu : rqlock # d
    BY <1>2, <2>1, TaskAssumption DEF RunQueueFree
  <2>3. /\ rq' \in RunQueueType /\ rq'.ready = rq.ready /\ rq'.current = rq.current
        /\ rq'.state = [rq.state EXCEPT ![t] = "Exited"]
    <3> DEFINE st == [rq.state EXCEPT ![t] = "Exited"]
    <3>1. rq' = WithState(rq, st)
      BY <2>1 DEF WithState
    <3>2. st \in [Task -> States]
      BY <1>1 DEF RunQueueType, States
    <3> HIDE DEF st
    <3>3. rq' \in RunQueueType /\ rq'.ready = rq.ready /\ rq'.current = rq.current /\ rq'.state = st
      BY <1>1, <3>1, <3>2, SetState
    <3> QED BY <3>3 DEF st
  <2>4. \A u \in Task : rq'.state[u] = IF u = t THEN "Exited" ELSE rq.state[u]
    BY <1>1, <2>3 DEF RunQueueType
  <2>5. \A d \in Cpu \ {c} : rq.current[d] # IDLE => rq.current[d] \in Task /\ rq.current[d] # t
    BY <1>1, <2>1, TaskAssumption DEF Consistent, RunQueueType
  <2>6. Consistent(rq', c)
    <3>1. \A u \in Task : InReady(rq', u) <=> InReady(rq, u)
      BY <2>3 DEF InReady
    <3>2. \A u \in Task : /\ (rq'.state[u] = "Ready") <=> InReady(rq', u)
                          /\ rq'.state[u] = "Running" => \E d \in Cpu : rq'.current[d] = u
      BY <1>1, <2>2, <2>3, <2>4, <3>1 DEF Consistent
    <3>3. \A d \in Cpu : rq'.current[d] # IDLE =>
             rq'.state[rq'.current[d]] = "Running" \/ (rq'.state[rq'.current[d]] = "Exited" /\ c = d)
      BY <1>2, <2>1, <2>2, <2>3, <2>4, <2>5, SMTT(30)
    <3>4. /\ \A d, e \in Cpu : rq'.current[d] = rq'.current[e] => d = e \/ rq'.current[d] = IDLE
          /\ \A i, j \in 1..Len(rq'.ready) : rq'.ready[i] = rq'.ready[j] => i = j
      BY <1>1, <2>3 DEF Consistent
    <3> QED BY <3>2, <3>3, <3>4 DEF Consistent
  <2>7. SchedInv'
    <3>1. SchedType' /\ RunQueueConsistent'
      BY <2>1, <2>3, <2>6 DEF IInv, SchedInv, SchedType, RunQueueConsistent
    <3>2. LeavingLocked'
      BY <1>3, <2>1 DEF LeavingLocked
    <3> QED BY <3>1, <3>2 DEF SchedInv
  <2>8. pc' = [pc EXCEPT ![t] = "exit_notify"] /\ UNCHANGED <<loc, calls, events, gc>>
    BY <1>6 DEF ExitBegin, Goto, gvars
  <2>9. CallType'
    BY <2>8 DEF IInv, CallType, Locations, OnQueue
  <2>10. ExitingIsExited' /\ GcHasTask'
    BY <2>4, <2>8, TaskAssumption, SMTT(30) DEF IInv, CallType, ExitingIsExited, GcHasTask
  <2> QED BY <1>6, <2>7, <2>9, <2>10, SameTypes DEF IInv, ExitBegin
<1>7. ASSUME NEW t \in Task, ExitNotify(c, t) PROVE IInv'
  <2>1. t \in Queue /\ calls' \in [Task -> Nat]
    BY <1>7, SMTT(30) DEF Queue, ExitNotify, IInv, CallType
  <2>2. Pop(t) /\ rq' = unblock_task(rq, c, Head(wq[t]), FALSE) /\ wq[t] # << >>
    BY <1>7 DEF ExitNotify, NotifyLocked
  <2>3. WaitType' /\ CallType' /\ NoneArrives /\ Head(wq[t]) \in Task
    BY <1>7, <2>1, <2>2, PopStep, SMTT(30) DEF ExitNotify
  <2>4. SchedInv' /\ ExitedStays
    <3>1. FALSE \in BOOLEAN /\ UNCHANGED <<rqlock, leaving>>
      BY <1>7 DEF ExitNotify
    <3> QED BY <2>2, <2>3, <3>1, UnblockStep, ZenonT(60)
  <2> QED BY <1>7, <2>3, <2>4, SameTypes, Together, SMTT(30) DEF ExitNotify
<1>8. ASSUME NEW t \in Task, ExitPush(c, t) PROVE IInv'
  <2>1. pc[t] = "exit_notify" /\ pc' = [pc EXCEPT ![t] = "exit_resched"] /\ UNCHANGED <<loc, calls, events, gc>>
    BY <1>8, Zenon DEF ExitPush, At, Goto
  <2>2. CallType'
    BY <2>1 DEF IInv, CallType, Locations, OnQueue
  <2>3. GcType'
    <3>1. exited \in Seq(Task) /\ exited' = Append(exited, t) /\ UNCHANGED <<gc, handle, freed>>
      BY <1>8 DEF ExitPush, IInv, GcType
    <3>2. Append(exited, t) \in Seq(Task)
      BY <3>1
    <3> QED BY <3>1, <3>2 DEF IInv, GcType
  <2>4. SchedInv' /\ rq' = rq
    BY <1>8, SameStep DEF ExitPush
  <2>5. ExitingIsExited' /\ GcHasTask'
    BY <2>1, <2>4, TaskAssumption DEF IInv, CallType, ExitingIsExited, GcHasTask, Exiting
  <2> QED BY <1>8, <2>2, <2>3, <2>4, <2>5, SameTypes, ZenonT(60) DEF IInv, ExitPush
<1>9. ASSUME NEW t \in Task, ExitResched(c, t) PROVE IInv'
  <2>1. rq.current[c] = t /\ rq.state[t] = "Exited" /\ UNCHANGED <<rqlock, pc, loc, calls>>
    BY <1>9, Zenon DEF ExitResched, At, IInv, ExitingIsExited, Exiting
  <2>2. rqlock = c
    BY <1>2, <2>1, TaskAssumption
  <2>3. ASSUME NEW r \in RunQueueType, Consistent(r, rqlock), rq' = resched(r, c),
               \A u \in Task : rq.state[u] = "Exited" => r.state[u] = "Exited"
        PROVE  SchedInv' /\ ExitedStays
    <3>1. Switchable(r, c, rqlock)
      BY <2>3, ConsistentSwitchable, SMTT(30)
    <3>2. /\ rq' \in RunQueueType /\ Consistent(rq', rqlock)
          /\ rq'.current[c] # IDLE => rq'.state[rq'.current[c]] = "Running"
          /\ \A u \in Task : r.state[u] \in {"Blocked", "Exited"} => rq'.state[u] = r.state[u]
      BY <2>3, <3>1, ReschedConsistent, SMTT(30)
    <3>3. leaving' \in [Cpu -> Task \union {NONE}]
      BY <1>9, Zenon DEF ExitResched, IInv, SchedInv, SchedType
    <3>4. SchedType' /\ RunQueueConsistent'
      BY <2>1, <3>2, <3>3, SMTT(30) DEF IInv, SchedInv, SchedType, RunQueueConsistent
    <3>5. \A d \in Cpu : leaving'[d] # NONE => d = c
      BY <1>9, <2>2, Zenon DEF ExitResched, IInv, SchedInv, SchedType, LeavingLocked
    <3>6. LeavingLocked'
      BY <2>1, <2>2, <3>2, <3>5, SMTT(30) DEF LeavingLocked
    <3>7. ExitedStays
      BY <2>3, <3>2, SMTT(30) DEF ExitedStays
    <3> QED BY <3>4, <3>6, <3>7 DEF SchedInv
  <2>4. CASE wq[ExitQueue] # << >>
    <3>1. ExitQueue \in Queue /\ calls' \in [Task -> Nat] /\ UNCHANGED cond
      BY <1>9, <2>1, Zenon DEF Queue, IInv, CallType, ExitResched
    <3>2. Pop(ExitQueue) /\ rq' = resched(unblock_task(rq, c, Head(wq[ExitQueue]), FALSE), c)
      BY <1>9, <2>4 DEF ExitResched
    <3>3. WaitType' /\ CallType' /\ NoneArrives /\ Head(wq[ExitQueue]) \in Task
      BY <2>1, <2>4, <3>1, <3>2, PopStep, SMTT(30)
    <3> DEFINE r == unblock_task(rq, c, Head(wq[ExitQueue]), FALSE)
    <3>4. /\ r \in RunQueueType /\ Consistent(r, rqlock)
          /\ \A u \in Task : rq.state[u] # "Blocked" => r.state[u] = rq.state[u]
      <4>1. PICK b \in BOOLEAN : b = FALSE
        OBVIOUS
      <4>2. /\ unblock_task(rq, c, Head(wq[ExitQueue]), b) \in RunQueueType
            /\ Consistent(unblock_task(rq, c, Head(wq[ExitQueue]), b), rqlock)
            /\ \A u \in Task : rq.state[u] # "Blocked" =>
                  unblock_task(rq, c, Head(wq[ExitQueue]), b).state[u] = rq.state[u]
        BY <1>1, <3>3, UnblockConsistent
      <4> QED BY <4>1, <4>2
    <3> HIDE DEF r
    <3>5. SchedInv' /\ ExitedStays
      BY <2>3, <3>2, <3>4, ZenonT(60) DEF r
    <3> QED BY <1>9, <3>3, <3>5, SameTypes, Together, ZenonT(60) DEF ExitResched
  <2>5. CASE wq[ExitQueue] = << >>
    <3>1. rq' = resched(rq, c) /\ UNCHANGED wvars /\ UNCHANGED tvars
      BY <1>9, <2>5, ZenonT(60) DEF ExitResched, wvars, tvars
    <3>2. SchedInv' /\ ExitedStays
      BY <1>1, <2>3, <3>1
    <3> QED BY <1>9, <3>1, <3>2, SameTypes, Together DEF ExitResched
  <2> QED BY <2>4, <2>5, SMTT(30)
<1>10. ASSUME SwitchDone(c) PROVE IInv'
  <2>1. rqlock = c /\ (rq.current[c] # IDLE => rq.state[rq.current[c]] = "Running")
    BY <1>10 DEF SwitchDone, IInv, SchedInv, LeavingLocked
  <2>2. Consistent(rq, NONE)
    BY <1>2, <1>4, <2>1
  <2>3. /\ UNCHANGED rq /\ rqlock' = NONE /\ leaving' = [leaving EXCEPT ![c] = NONE]
        /\ UNCHANGED wvars /\ UNCHANGED cvars /\ UNCHANGED gvars /\ UNCHANGED tvars
    BY <1>10 DEF SwitchDone
  <2>4. \A d \in Cpu : leaving'[d] = NONE
    BY <2>1, <2>3 DEF IInv, SchedInv, SchedType, LeavingLocked
  <2>5. SchedType' /\ RunQueueConsistent' /\ LeavingLocked' /\ ExitedStays
    BY <2>2, <2>3, <2>4 DEF IInv, SchedInv, SchedType, RunQueueConsistent, LeavingLocked, ExitedStays
  <2> QED BY <2>3, <2>5, SameTypes, Together DEF SchedInv
<1> QED BY <1>5, <1>6, <1>7, <1>8, <1>9, <1>10

\* gc_entry().
LEMMA GcSteps ==
    ASSUME IInv, NEW c \in Cpu
    PROVE  /\ GcLen(c) => IInv'
           /\ GcPop(c) => IInv'
           /\ GcCheck(c) => IInv'
           /\ GcWait(c) => IInv'
<1>1. GcTask \in Task /\ "gc_loop" \in Locations \ (Exiting \union {"gc_check"}) /\ "gc_loop" \notin OnQueue
  BY TaskAssumption DEF Locations, Exiting, OnQueue
<1>2. gc \in [n : Nat, task : Task \union {NONE}] /\ exited \in Seq(Task)
  BY DEF IInv, GcType
<1>3. ASSUME GcLen(c) PROVE IInv'
  <2>1. CallType' /\ NoneArrives
    BY <1>1, <1>3, GotoStep DEF GcLen
  <2>2. GcType' /\ gc'.task = gc.task
    BY <1>2, <1>3 DEF GcLen, IInv, GcType
  <2> QED BY <1>3, <2>1, <2>2, SameStep, SameTypes, Together DEF GcLen
<1>4. ASSUME GcPop(c) PROVE IInv'
  <2>1. CASE exited = << >>
    <3>1. GcType' /\ gc'.task = gc.task /\ UNCHANGED tvars
      BY <1>2, <1>4, <2>1 DEF GcPop, IInv, GcType, tvars
    <3> QED BY <1>4, <3>1, SameStep, SameTypes, Together DEF GcPop
  <2>2. CASE exited # << >>
    <3>1. /\ gc' = [n |-> gc.n - 1, task |-> Head(exited)] /\ exited' = Tail(exited)
          /\ pc' = [pc EXCEPT ![GcTask] = "gc_check"] /\ gc.n > 0
          /\ UNCHANGED <<handle, freed, loc, calls, events>>
      BY <1>4, <2>2 DEF GcPop, Goto
    <3>2. Head(exited) \in Task /\ Tail(exited) \in Seq(Task) /\ gc.n - 1 \in Nat
      BY <1>2, <2>2, <3>1
    <3>3. GcType' /\ gc'.task # NONE
      BY <3>1, <3>2, TaskAssumption DEF IInv, GcType
    <3>4. CallType'
      BY <3>1, Zenon DEF IInv, CallType, Locations, OnQueue
    <3>5. SchedInv' /\ UNCHANGED rq
      BY <1>4, SameStep DEF GcPop
    <3>6. GcHasTask' /\ ExitingIsExited'
      BY <1>1, <3>1, <3>3, <3>5 DEF IInv, CallType, GcHasTask, ExitingIsExited, Exiting
    <3> QED BY <1>4, <3>3, <3>4, <3>5, <3>6, SameTypes DEF IInv, GcPop
  <2> QED BY <2>1, <2>2
<1>5. ASSUME GcCheck(c) PROVE IInv'
  <2>1. gc.task \in Task
    BY <1>2, <1>5 DEF GcCheck, At, IInv, GcHasTask
  <2>2. CallType' /\ NoneArrives /\ pc'[GcTask] # "gc_check"
    BY <1>1, <1>5, GotoStep, Zenon DEF GcCheck, Goto, IInv, CallType
  <2>3. gc' \in [n : Nat, task : Task \union {NONE}]
    BY <1>2, <1>5 DEF GcCheck
  <2>4. GcType'
    <3>1. handle' \subseteq Task
      BY <1>5 DEF GcCheck, IInv, GcType
    <3>2. freed' \subseteq Task
      <4>1. freed \union {gc.task} \subseteq Task /\ freed \subseteq Task
        BY <2>1 DEF IInv, GcType
      <4> QED BY <4>1, <1>5 DEF GcCheck
    <3>3. exited' \in Seq(Task)
      <4>1. Append(exited, gc.task) \in Seq(Task)
        BY <1>2, <2>1
      <4> QED BY <4>1, <1>2, <1>5 DEF GcCheck
    <3> QED BY <2>3, <3>1, <3>2, <3>3 DEF GcType
  <2>5. SchedInv' /\ ExitedStays
    BY <1>5, SameStep, SMTT(30) DEF GcCheck
  <2>6. GcHasTask' /\ ExitingIsExited'
    BY <2>2, <2>5, SMTT(30) DEF IInv, GcHasTask, ExitingIsExited, NoneArrives, ExitedStays
  <2> QED BY <1>5, <2>2, <2>4, <2>5, <2>6, SameTypes DEF IInv, GcCheck
<1>6. ASSUME GcWait(c) PROVE IInv'
  <2>1. /\ ExitQueue \in Queue /\ rq.current[c] = GcTask /\ calls' \in [Task -> Nat] /\ 0 \in 0..MaxTime
        /\ "cancel_wait" \in Locations \ (Exiting \union {"gc_check"})
    <3>1. ExitQueue \in Queue /\ 0 \in 0..MaxTime
      BY TaskAssumption, SMTT(30) DEF Queue
    <3>2. rq.current[c] = GcTask /\ calls' = calls
      BY <1>6, Zenon DEF GcWait, At
    <3>3. "cancel_wait" \in Locations \ (Exiting \union {"gc_check"})
      BY DEF Locations, Exiting
    <3> QED BY <3>1, <3>2, <3>3 DEF IInv, CallType
  <2>2. CallType' /\ NoneArrives
    BY <1>1, <1>6, <2>1, BeginStep DEF GcWait
  <2>3. WaitType'
    BY <1>1, <1>6, <2>1, PushStep DEF GcWait
  <2>4. SchedInv' /\ ExitedStays
    BY <1>1, <1>6, <2>1, BlockStep DEF GcWait, BlockOn
  <2> QED BY <1>6, <2>2, <2>3, <2>4, SameTypes, Together DEF GcWait
<1> QED BY <1>3, <1>4, <1>5, <1>6

\* Preemption, and the idle task when there is somebody to run.
LEMMA SchedulerSteps ==
    ASSUME IInv, NEW c \in Cpu
    PROVE  (preempt_resched(c) => IInv') /\ (run_idle(c) => IInv')
<1>1. ASSUME preempt_resched(c) PROVE IInv'
  BY <1>1, ReschedStep, SameTypes, Together DEF preempt_resched
<1>2. ASSUME run_idle(c) PROVE IInv'
  BY <1>2, ReschedStep, SameTypes, Together DEF run_idle
<1> QED BY <1>1, <1>2

\* Every step keeps the invariant.
LEMMA NextIInv == IInv /\ [Next]_vars => IInv'
<1> SUFFICES ASSUME IInv, [Next]_vars PROVE IInv'
  BY SMTT(30)
<1>1. ASSUME NEW c \in Cpu, NEW t \in Task, Client(c, t) PROVE IInv'
  BY <1>1, ClientSteps, BeginSteps, ExitSteps, SMTT(30) DEF Client
<1>2. ASSUME NEW c \in Cpu, NEW t \in Task, InCall(c, t) PROVE IInv'
  BY <1>2, InCallSteps, ExitSteps, SMTT(30) DEF InCall
<1>3. ASSUME NEW c \in Cpu, CpuStep(c) PROVE IInv'
  BY <1>1, <1>2, <1>3, ExitSteps, GcSteps, SchedulerSteps, TimerSteps DEF CpuStep, GcStep, Interrupt
<1>4. CASE UNCHANGED vars
  BY <1>4, SameStep, SameTypes, Together DEF vars, gvars
<1> QED BY <1>3, <1>4, TimerSteps DEF Next

\* In every reachable state of the task manager, with any number of tasks and
\* CPUs, the variables have their types and the run queue is consistent: a task
\* is on one CPU or in the ready queue, once, exactly when its state says so.
THEOREM TaskSafety == Spec => [](TypeOK /\ RunQueueConsistent)
<1>1. Spec => []IInv
  BY InitIInv, NextIInv, PTL DEF Spec
<1> QED BY <1>1, IInvImplies, PTL
-----------------------------------------------------------------------------
(* What a step does to the run queue, as far as waits are concerned. *)

SameBlocked == \A u \in Task : (rq'.state[u] = "Blocked") <=> (rq.state[u] = "Blocked")
NowBlocked(t) == \A u \in Task : (rq'.state[u] = "Blocked") <=> (rq.state[u] = "Blocked" \/ u = t)
NotBlocked(t) == \A u \in Task : (rq'.state[u] = "Blocked") <=> (rq.state[u] = "Blocked" /\ u # t)

\* A CPU with another current task runs it.
NewCurrents ==
    \A d \in Cpu : rq'.current[d] \in {rq.current[d], IDLE} \/ rq'.state[rq'.current[d]] = "Running"

\* What the invariant says of the run queue.
LEMMA RqFacts ==
    ASSUME IInv
    PROVE  /\ rq \in RunQueueType /\ Consistent(rq, rqlock)
           /\ \A c \in Cpu : rq.current[c] # IDLE => rq.current[c] \in Task
           /\ \A c \in Cpu : rq.current[c] # IDLE => rq.state[rq.current[c]] # "Blocked"
           /\ \A c \in Cpu : rq.current[c] # IDLE /\ rqlock # c => rq.state[rq.current[c]] = "Running"
<1>1. rq \in RunQueueType /\ Consistent(rq, rqlock)
  BY DEF IInv, SchedInv, SchedType, RunQueueConsistent
<1>2. \A c \in Cpu : rq.current[c] # IDLE => rq.current[c] \in Task
  BY <1>1 DEF RunQueueType
<1>3. \A c \in Cpu : rq.current[c] # IDLE =>
         rq.state[rq.current[c]] = "Running" \/ (rq.state[rq.current[c]] = "Exited" /\ rqlock = c)
  BY <1>1 DEF Consistent
<1> QED BY <1>1, <1>2, <1>3

\* resched() blocks nobody and wakes nobody.
LEMMA ReschedEffect ==
    ASSUME IInv, NEW c \in Cpu, rq' = resched(rq, c)
    PROVE  SameBlocked /\ ExitedStays /\ NewCurrents
<1>1. rq \in RunQueueType /\ Consistent(rq, rqlock)
  BY RqFacts
<1>2. Switchable(rq, c, rqlock)
  BY <1>1, ConsistentSwitchable
<1>3. /\ rq'.current[c] # IDLE => rq'.state[rq'.current[c]] = "Running"
      /\ \A t \in Task : rq.state[t] \in {"Blocked", "Exited"} => rq'.state[t] = rq.state[t]
      /\ Rescheduled(rq, rq', c)
  BY <1>1, <1>2, ReschedConsistent
<1>4. SameBlocked /\ ExitedStays
  BY <1>3 DEF Rescheduled, SameBlocked, ExitedStays
<1>5. NewCurrents
  BY <1>3 DEF Rescheduled, NewCurrents
<1> QED BY <1>4, <1>5

\* block_current() blocks the current task of its CPU.
LEMMA BlockEffect ==
    ASSUME IInv, NEW c \in Cpu, NEW t \in Task, rq.current[c] = t, RunQueueFree,
           rq' = block_current(rq, c)
    PROVE  NowBlocked(t) /\ ExitedStays /\ NewCurrents /\ rq.state[t] = "Running"
<1> DEFINE s == [rq EXCEPT !.state[rq.current[c]] = "Blocked"]
<1>1. rq \in RunQueueType /\ Consistent(rq, rqlock) /\ rq.state[t] = "Running"
  BY RqFacts, TaskAssumption DEF RunQueueFree
<1>2. /\ rq' \in RunQueueType /\ Consistent(rq', rqlock)
      /\ rq'.state[t] = "Blocked"
      /\ \A u \in Task : rq.state[u] = "Exited" => rq'.state[u] = "Exited"
      /\ Rescheduled(s, rq', c)
  BY <1>1, BlockConsistent
<1>3. s.current = rq.current /\ \A u \in Task : s.state[u] = IF u = t THEN "Blocked" ELSE rq.state[u]
  BY <1>1 DEF RunQueueType
<1> HIDE DEF s
<1>4. NowBlocked(t) /\ ExitedStays
  BY <1>2, <1>3 DEF Rescheduled, NowBlocked, ExitedStays
<1>5. NewCurrents
  <2>1. \A d \in Cpu \ {c} : rq'.current[d] = rq.current[d]
    BY <1>2, <1>3 DEF Rescheduled
  <2>2. rqlock # c
    BY TaskAssumption DEF RunQueueFree
  <2>3. rq'.current[c] = IDLE \/ rq'.state[rq'.current[c]] = "Running"
    BY <1>2, <2>2 DEF Consistent
  <2> QED BY <2>1, <2>3 DEF NewCurrents
<1> QED BY <1>1, <1>4, <1>5

\* unblock_task() of u wakes u, if it is blocked, and nobody else.
LEMMA UnblockEffect ==
    ASSUME IInv, NEW c \in Cpu, NEW u \in Task, NEW b \in BOOLEAN, rq' = unblock_task(rq, c, u, b)
    PROVE  /\ NotBlocked(u) /\ ExitedStays /\ NewCurrents
           /\ rq.state[u] = "Blocked" => rq'.state[u] \in {"Ready", "Running"}
<1>1. /\ rq'.current = rq.current
      /\ \A v \in Task : rq.state[v] # "Blocked" \/ v # u => rq'.state[v] = rq.state[v]
      /\ rq'.state[u] # "Blocked" /\ (rq.state[u] = "Blocked" => rq'.state[u] = "Ready")
  BY RqFacts, UnblockConsistent
<1>2. NotBlocked(u) /\ ExitedStays
  BY <1>1 DEF NotBlocked, ExitedStays
<1>3. NewCurrents
  BY <1>1 DEF NewCurrents
<1> QED BY <1>1, <1>2, <1>3

\* So does the end of exit_current(), which reschedules as well.
LEMMA UnblockReschedEffect ==
    ASSUME IInv, NEW c \in Cpu, NEW u \in Task, NEW b \in BOOLEAN,
           rq' = resched(unblock_task(rq, c, u, b), c)
    PROVE  /\ NotBlocked(u) /\ ExitedStays /\ NewCurrents
           /\ rq.state[u] = "Blocked" => rq'.state[u] \in {"Ready", "Running"}
<1> DEFINE r == unblock_task(rq, c, u, b)
<1>1. /\ r \in RunQueueType /\ Consistent(r, rqlock) /\ r.current = rq.current
      /\ \A v \in Task : rq.state[v] # "Blocked" \/ v # u => r.state[v] = rq.state[v]
      /\ r.state[u] # "Blocked" /\ (rq.state[u] = "Blocked" => r.state[u] = "Ready")
  BY RqFacts, UnblockConsistent
<1>2. rq' = resched(r, c)
  OBVIOUS
<1> HIDE DEF r
<1>3. Switchable(r, c, rqlock)
  BY <1>1, ConsistentSwitchable
<1>4. /\ rq'.current[c] # IDLE => rq'.state[rq'.current[c]] = "Running"
      /\ Rescheduled(r, rq', c)
  BY <1>1, <1>2, <1>3, ReschedConsistent
<1>5. NotBlocked(u) /\ ExitedStays
  BY <1>1, <1>4 DEF Rescheduled, NotBlocked, ExitedStays
<1>6. NewCurrents
  BY <1>1, <1>4 DEF Rescheduled, NewCurrents
<1>7. rq.state[u] = "Blocked" => rq'.state[u] \in {"Ready", "Running"}
  BY <1>1, <1>4 DEF Rescheduled
<1> QED BY <1>5, <1>6, <1>7

-----------------------------------------------------------------------------
(* What a step does to the queues. *)

Member(s, x) == \E i \in 1..Len(s) : s[i] = x
Distinct(s) == \A i, j \in 1..Len(s) : s[i] = s[j] => i = j

\* n is s without one entry of x.
OneLess(s, n, x) ==
    /\ \A y : Member(n, y) => Member(s, y)
    /\ \A y : Member(s, y) /\ y # x => Member(n, y)
    /\ Distinct(s) => Distinct(n) /\ ~Member(n, x)
    /\ Member(s, x)

\* n is s and x.
OneMore(s, n, x) ==
    /\ \A y : Member(n, y) <=> (Member(s, y) \/ y = x)
    /\ Distinct(s) /\ ~Member(s, x) => Distinct(n)
    /\ Len(n) = Len(s) + 1

\* Append adds a member.
LEMMA AppendMember ==
    ASSUME NEW S, NEW s \in Seq(S), NEW x \in S
    PROVE  OneMore(s, Append(s, x), x)
<1> DEFINE n == Append(s, x)
<1>1. /\ Len(n) = Len(s) + 1 /\ n[Len(n)] = x /\ Len(s) \in Nat
      /\ \A i \in 1..Len(s) : n[i] = s[i]
  OBVIOUS
<1> HIDE DEF n
<1>2. \A i \in 1..Len(n) : i = Len(n) \/ i \in 1..Len(s)
  BY <1>1
<1>3. Len(n) \in 1..Len(n) /\ \A i \in 1..Len(s) : i \in 1..Len(n)
  BY <1>1
<1>4. \A y : Member(n, y) <=> (Member(s, y) \/ y = x)
  BY <1>1, <1>2, <1>3 DEF Member
<1>5. Distinct(s) /\ ~Member(s, x) => Distinct(n)
  BY <1>1, <1>2, <1>3 DEF Member, Distinct
<1> QED BY <1>1, <1>4, <1>5 DEF OneMore, n

\* Taking the head off removes one entry of it.
LEMMA TailMember ==
    ASSUME NEW S, NEW s \in Seq(S), s # << >>
    PROVE  OneLess(s, Tail(s), Head(s)) /\ Head(s) \in S
<1> DEFINE n == Tail(s)
           x == Head(s)
<1>1. /\ Len(s) \in Nat /\ Len(s) > 0 /\ x = s[1] /\ x \in S
      /\ Len(n) = Len(s) - 1 /\ \A i \in 1..Len(n) : n[i] = s[i + 1]
  OBVIOUS
<1> HIDE DEF n, x
<1>2. \A i \in 1..Len(n) : i + 1 \in 1..Len(s) /\ i + 1 # 1
  BY <1>1
<1>3. \A i \in 1..Len(s) : i = 1 \/ (i - 1 \in 1..Len(n) /\ n[i - 1] = s[i])
  BY <1>1
<1>4. 1 \in 1..Len(s)
  BY <1>1
<1>5. \A y : Member(n, y) => Member(s, y)
  BY <1>1, <1>2 DEF Member
<1>6. \A y : Member(s, y) /\ y # x => Member(n, y)
  BY <1>1, <1>3 DEF Member
<1>7. Distinct(s) => Distinct(n) /\ ~Member(n, x)
  BY <1>1, <1>2, <1>4 DEF Member, Distinct
<1>8. Member(s, x)
  BY <1>1, <1>4 DEF Member
<1> QED BY <1>1, <1>5, <1>6, <1>7, <1>8 DEF OneLess, n, x

\* VecDeque::remove() and BinaryHeap::pop() remove one entry.
LEMMA RemovedMember ==
    ASSUME NEW S, NEW s \in Seq(S), NEW k \in 1..Len(s)
    PROVE  OneLess(s, Removed(s, k), s[k])
<1> DEFINE a == SubSeq(s, 1, k - 1)
           b == SubSeq(s, k + 1, Len(s))
           n == Removed(s, k)
<1>1. Len(s) \in Nat /\ k \in Nat /\ 1 <= k /\ k <= Len(s)
  OBVIOUS
<1>2. /\ a \in Seq(S) /\ Len(a) = k - 1 /\ \A i \in 1..Len(a) : a[i] = s[i]
      /\ b \in Seq(S) /\ Len(b) = Len(s) - k /\ \A i \in 1..Len(b) : b[i] = s[k + i]
  BY <1>1
<1>3. n = a \o b
  BY DEF Removed
<1> HIDE DEF a, b
<1>4. /\ Len(n) = Len(s) - 1
      /\ \A i \in 1..Len(n) : n[i] = IF i <= k - 1 THEN s[i] ELSE s[i + 1]
  <2> HIDE DEF n
  <2>0. /\ Len(a \o b) = Len(a) + Len(b)
        /\ \A i \in 1..Len(a \o b) : (a \o b)[i] = IF i <= Len(a) THEN a[i] ELSE b[i - Len(a)]
    <3>1. a \in Seq(S) /\ b \in Seq(S)
      BY <1>2
    <3> QED BY ONLY <3>1
  <2>1. /\ Len(n) = Len(a) + Len(b)
        /\ \A i \in 1..Len(n) : n[i] = IF i <= Len(a) THEN a[i] ELSE b[i - Len(a)]
    BY ONLY <1>3, <2>0
  <2>2. Len(n) = Len(s) - 1
    BY <1>1, <1>2, <2>1
  <2>3. \A i \in 1..Len(n) : IF i <= k - 1 THEN i \in 1..Len(a)
                                            ELSE i - Len(a) \in 1..Len(b) /\ k + (i - Len(a)) = i + 1
    BY <1>1, <1>2, <2>2
  <2> QED BY <1>1, <1>2, <2>1, <2>2, <2>3
<1> HIDE DEF n
<1>5. \A i \in 1..Len(n) : IF i <= k - 1 THEN i \in 1..Len(s) /\ i # k
                                        ELSE i + 1 \in 1..Len(s) /\ i + 1 # k
  BY <1>1, <1>4
<1>6. \A i \in 1..Len(s) : \/ i = k
                           \/ i \in 1..Len(n) /\ n[i] = s[i]
                           \/ i - 1 \in 1..Len(n) /\ n[i - 1] = s[i]
  <2> TAKE i \in 1..Len(s)
  <2>1. CASE i < k
    BY <1>1, <1>4, <2>1
  <2>2. CASE i > k
    <3>1. i - 1 \in 1..Len(n) /\ ~(i - 1 <= k - 1) /\ (i - 1) + 1 = i
      BY <1>1, <1>4, <2>2
    <3> QED BY <1>4, <3>1
  <2> QED BY <1>1, <2>1, <2>2
<1>7. \A y : Member(n, y) => Member(s, y)
  BY <1>4, <1>5 DEF Member
<1>8. \A y : Member(s, y) /\ y # s[k] => Member(n, y)
  BY <1>6 DEF Member
<1>9. Distinct(s) => Distinct(n) /\ ~Member(n, s[k])
  <2> SUFFICES ASSUME Distinct(s) PROVE Distinct(n) /\ ~Member(n, s[k])
    OBVIOUS
  <2>1. \A i \in 1..Len(n) : n[i] # s[k]
    BY <1>4, <1>5 DEF Distinct
  <2>2. ASSUME NEW i \in 1..Len(n), NEW j \in 1..Len(n), n[i] = n[j] PROVE i = j
    BY <1>1, <1>4, <1>5, <2>2 DEF Distinct
  <2> QED BY <2>1, <2>2 DEF Member, Distinct
<1>10. Member(s, s[k])
  BY DEF Member
<1> QED BY <1>7, <1>8, <1>9, <1>10 DEF OneLess, n
=============================================================================
