----------------------------- MODULE AxTaskSmp ------------------------------
(* What AxTask promises without timed waits. The variable part says which of *)
(* the instances of MCAxTask a behaviour is of: these are about "smp".       *)
EXTENDS AxTask

VARIABLE part

\* Without timed waits, wait queues, flags and task states agree on who waits
\* where, through every race of wait, notify, exit and preemption.
QueuesMatchStates == part = "smp" => WaitersMatch

\* gc_entry frees a task only when it has exited and no queue, timer, CPU or
\* client refers to it any more.
FreedOnce == part = "smp" => FreedIsUnreachable

\* Without timed waits, wait() returns only to a task that was notified: no
\* preemption, exit or notification meant for another one ends it.
WaitsEndNotified == part = "smp" => WaitReturnsNotified

\* Without timed waits, whoever a notification takes out of a queue was blocked
\* and becomes ready: no notification is spent on a task that does not sleep.
NotificationsWake == [][part = "smp" => NotifyStep]_<<part, vars>>
=============================================================================
