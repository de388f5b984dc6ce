------------------------------ MODULE AxMutex ------------------------------
(***************************************************************************)
(* The sleeping mutex of axsync, at the granularity of its atomic          *)
(* operations on owner_id and of the critical sections that its wait queue *)
(* runs under the RUN_QUEUE spin lock.                                     *)
(*                                                                         *)
(* Scheduling is abstracted: a Running and a Ready task are both           *)
(* "Runnable" and any runnable task may take the next step, so the         *)
(* behaviours are those of any number of CPUs and of any preemption.       *)
(***************************************************************************)
EXTENDS Naturals, Sequences, FiniteSets

CONSTANTS Task,     \* the tasks that use the mutex
          NoOwner   \* the value 0 of owner_id

ASSUME NoOwnerAssumption == NoOwner \notin Task

VARIABLES owner_id,       \* Mutex::owner_id
          wq,             \* Mutex::wq, the queue of sleeping tasks
          in_wait_queue,  \* TaskInner::in_wait_queue
          state,          \* TaskInner::state, Running and Ready merged
          pc              \* where each task is in lock / try_lock / unlock

vars == <<owner_id, wq, in_wait_queue, state, pc>>

\* A failed assertion leads to "panic", which is not among the locations.
Locations == {"idle", "cas", "wait", "cancel", "held", "notify"}

Init ==
    /\ owner_id = NoOwner
    /\ wq = << >>
    /\ in_wait_queue = [t \in Task |-> FALSE]
    /\ state = [t \in Task |-> "Runnable"]
    /\ pc = [t \in Task |-> "idle"]

Goto(t, from, to) ==
    /\ state[t] = "Runnable"
    /\ pc[t] = from
    /\ pc' = [pc EXCEPT ![t] = to]

is_locked == owner_id # NoOwner

-----------------------------------------------------------------------------
(* lock() *)

CallLock(t) ==
    /\ Goto(t, "idle", "cas")
    /\ UNCHANGED <<owner_id, wq, in_wait_queue, state>>

\* Variant: a load and a store in place of the exchange.
StoreOwner(t) ==
    /\ Goto(t, "cas", "held")
    /\ owner_id' = t
    /\ UNCHANGED <<wq, in_wait_queue, state>>

\* compare_exchange_weak(0, current_id) succeeds.
CasOk(t) ==
    /\ Goto(t, "cas", "held")
    /\ ~is_locked
    /\ owner_id' = t
    /\ UNCHANGED <<wq, in_wait_queue, state>>

\* It returns Err(owner_id): the mutex is held, or the weak exchange failed
\* spuriously. Owning the mutex already is an assertion failure.
CasErr(t) ==
    /\ Goto(t, "cas", IF owner_id = t THEN "panic" ELSE "wait")
    /\ UNCHANGED <<owner_id, wq, in_wait_queue, state>>

\* One turn of the loop of wait_until(|| !is_locked()): the condition is
\* evaluated, and the task pushed on the queue and blocked, in one critical
\* section of RUN_QUEUE.
WaitBlock(t) ==
    /\ Goto(t, "wait", "wait")
    /\ is_locked
    /\ state' = [state EXCEPT ![t] = "Blocked"]
    /\ in_wait_queue' = [in_wait_queue EXCEPT ![t] = TRUE]
    /\ wq' = Append(wq, t)
    /\ UNCHANGED owner_id

WaitBreak(t) ==
    /\ Goto(t, "wait", "cancel")
    /\ ~is_locked
    /\ UNCHANGED <<owner_id, wq, in_wait_queue, state>>

\* cancel_events(): the task removes itself from the queue if it is still in.
cancel_events(t) ==
    /\ Goto(t, "cancel", "cas")
    /\ wq' = IF in_wait_queue[t] THEN SelectSeq(wq, LAMBDA u : u # t) ELSE wq
    /\ in_wait_queue' = [in_wait_queue EXCEPT ![t] = FALSE]
    /\ UNCHANGED <<owner_id, state>>

\* Variant: try_lock takes the mutex from its owner.
TryLockSteals(t) ==
    /\ Goto(t, "idle", "held")
    /\ owner_id' = t
    /\ UNCHANGED <<wq, in_wait_queue, state>>

(* try_lock(): one strong compare_exchange *)
try_lock(t) ==
    /\ Goto(t, "idle", IF is_locked THEN "idle" ELSE "held")
    /\ owner_id' = IF is_locked THEN owner_id ELSE t
    /\ UNCHANGED <<wq, in_wait_queue, state>>

-----------------------------------------------------------------------------
(* force_unlock(), which dropping the guard calls: the swap, the assertion  *)
(* on its result, and then notify_one in a critical section of RUN_QUEUE.   *)

\* Variant: unlock does not notify.
UnlockSilently(t) ==
    /\ Goto(t, "held", IF owner_id = t THEN "idle" ELSE "panic")
    /\ owner_id' = NoOwner
    /\ UNCHANGED <<wq, in_wait_queue, state>>

UnlockSwap(t) ==
    /\ Goto(t, "held", IF owner_id = t THEN "notify" ELSE "panic")
    /\ owner_id' = NoOwner
    /\ UNCHANGED <<wq, in_wait_queue, state>>

\* Variant: pop_back in place of pop_front.
NotifyLast(t) ==
    /\ Goto(t, "notify", "idle")
    /\ IF wq = << >>
       THEN UNCHANGED <<wq, in_wait_queue, state>>
       ELSE /\ wq' = SubSeq(wq, 1, Len(wq) - 1)
            /\ in_wait_queue' = [in_wait_queue EXCEPT ![wq[Len(wq)]] = FALSE]
            /\ state' = [state EXCEPT ![wq[Len(wq)]] = "Runnable"]
    /\ UNCHANGED owner_id

notify_one(t) ==
    /\ Goto(t, "notify", "idle")
    /\ IF wq = << >>
       THEN UNCHANGED <<wq, in_wait_queue, state>>
       ELSE /\ wq' = Tail(wq)
            /\ in_wait_queue' = [in_wait_queue EXCEPT ![Head(wq)] = FALSE]
            /\ state' = [state EXCEPT ![Head(wq)] = "Runnable"]
    /\ UNCHANGED owner_id

lock(t) == CasOk(t) \/ CasErr(t) \/ WaitBlock(t) \/ WaitBreak(t) \/ cancel_events(t)
force_unlock(t) == UnlockSwap(t) \/ notify_one(t)

Next == \E t \in Task : CallLock(t) \/ lock(t) \/ try_lock(t) \/ force_unlock(t)

Spec == Init /\ [][Next]_vars

\* Every runnable task is eventually scheduled while it is inside lock() or
\* force_unlock(), a holder eventually drops its guard, and the weak exchanges
\* on a free mutex do not fail spuriously for ever.
Fairness ==
    /\ \A t \in Task : WF_vars(lock(t)) /\ WF_vars(force_unlock(t))
    /\ SF_vars(\E t \in Task : CasOk(t))

FairSpec == Spec /\ Fairness

-----------------------------------------------------------------------------
\* The values the variables range over. That no task is at "panic" says that
\* neither assertion of the mutex (mutex.rs:84 and :130) fails, whatever the
\* interleaving of lock, try_lock and unlock by guards.
TypeOK ==
    /\ owner_id \in Task \union {NoOwner}
    /\ wq \in Seq(Task)
    /\ in_wait_queue \in [Task -> BOOLEAN]
    /\ state \in [Task -> {"Runnable", "Blocked"}]
    /\ pc \in [Task -> Locations]

\* Mutual exclusion: a task that got a guard from lock() or try_lock() and has
\* not dropped it is the one owner_id names, so at most one task holds a guard.
MutualExclusion ==
    \A t \in Task : (pc[t] = "held") <=> (owner_id = t)

InQueue(t) == \E i \in 1..Len(wq) : wq[i] = t

\* The wait queue, the in_wait_queue flags and the Blocked states agree: a
\* blocked task is in the queue, exactly once, and no runnable task is in it.
QueueMatchesBlocked ==
    /\ \A t \in Task : /\ InQueue(t) <=> (state[t] = "Blocked")
                       /\ in_wait_queue[t] <=> (state[t] = "Blocked")
    /\ \A i, j \in 1..Len(wq) : wq[i] = wq[j] => i = j

\* No lost wakeup: when the mutex is free and a task sleeps in its queue, some
\* task is about to notify the queue, or some runnable task is inside lock()
\* and will take the mutex (and so notify the queue when it unlocks).
NoLostWakeup ==
    (~is_locked /\ wq # << >>) =>
        \E t \in Task : /\ state[t] = "Runnable"
                        /\ pc[t] \in {"notify", "cas", "wait", "cancel"}

\* Only wait_until blocks: a blocked task is inside lock().
BlockedInLock == \A t \in Task : state[t] = "Blocked" => pc[t] = "wait"

\* A task that sleeps in the queue is eventually woken up.
SleepersWake == \A t \in Task : (state[t] = "Blocked") ~> (state[t] = "Runnable")
-----------------------------------------------------------------------------
Abs == INSTANCE AbstractMutex WITH
           holder <- owner_id,
           wanting <- {t \in Task : pc[t] \in {"cas", "wait", "cancel"}}

\* AxMutex implements the abstract mutex: every step of lock, try_lock and
\* unlock is one of its steps or invisible, and while the mutex is free and
\* some task is inside lock() one of them gets it.
ImplementsMutex == Abs!Spec
=============================================================================
