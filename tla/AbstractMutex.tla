--------------------------- MODULE AbstractMutex ---------------------------
(***************************************************************************)
(* What a mutex promises its users: one holder at a time, try_lock never   *)
(* waits, and while the mutex is free and somebody wants it, somebody gets *)
(* it. It promises no order among the tasks that want it.                  *)
(***************************************************************************)
CONSTANTS Task, NoOwner

VARIABLES holder,   \* the task that has the guard, or NoOwner
          wanting   \* the tasks inside lock()

vars == <<holder, wanting>>

Init == holder = NoOwner /\ wanting = {}

Request(t) ==
    /\ t \notin wanting /\ holder # t
    /\ wanting' = wanting \union {t}
    /\ UNCHANGED holder

Acquire(t) ==
    /\ t \in wanting /\ holder = NoOwner
    /\ holder' = t
    /\ wanting' = wanting \ {t}

TryAcquire(t) ==
    /\ t \notin wanting /\ holder = NoOwner
    /\ holder' = t
    /\ UNCHANGED wanting

Release(t) ==
    /\ holder = t
    /\ holder' = NoOwner
    /\ UNCHANGED wanting

AcquireSome == \E t \in Task : Acquire(t)

Next == \E t \in Task : Request(t) \/ Acquire(t) \/ TryAcquire(t) \/ Release(t)

SafeSpec == Init /\ [][Next]_vars

Spec == SafeSpec /\ WF_vars(AcquireSome)
=============================================================================
