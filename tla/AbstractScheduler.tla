------------------------- MODULE AbstractScheduler -------------------------
(* What axtask relies on in any scheduler (trait BaseScheduler): a set of     *)
(* runnable tasks. A task is in it or on one CPU, nothing is lost or picked   *)
(* twice, and a CPU goes idle only when the set is empty.                     *)
EXTENDS FiniteSets

CONSTANTS Task, Cpu, IDLE

VARIABLES runnable,   \* the tasks in the scheduler
          current     \* per CPU: the task it runs

vars == <<runnable, current>>

Init == runnable = {} /\ current = [c \in Cpu |-> IDLE]

add_task(t) ==
    /\ t \notin runnable /\ \A c \in Cpu : current[c] # t
    /\ runnable' = runnable \union {t}
    /\ UNCHANGED current

\* CPU c takes one of the tasks of S, if there is one.
pick_next_task(c, S) ==
    \/ S = {} /\ runnable' = {} /\ current' = [current EXCEPT ![c] = IDLE]
    \/ \E t \in S : runnable' = S \ {t} /\ current' = [current EXCEPT ![c] = t]

resched(c) == pick_next_task(c, runnable \union ({current[c]} \ {IDLE}))

block(c) == current[c] # IDLE /\ pick_next_task(c, runnable)

\* "Removes a task by its reference [...] if it exists."
remove_task(t) ==
    /\ t \in runnable
    /\ runnable' = runnable \ {t}
    /\ UNCHANGED current

Next == (\E t \in Task : add_task(t) \/ remove_task(t)) \/ (\E c \in Cpu : resched(c) \/ block(c))

Spec == Init /\ [][Next]_vars
=============================================================================
