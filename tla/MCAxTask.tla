----------------------------- MODULE MCAxTask -----------------------------
(***************************************************************************)
(* AxTask for TLC. The part "smp" is the instance that the constants give. *)
(* The same module on one CPU is the part "up", for what holds of timers   *)
(* only where no other CPU delivers an alarm; on two CPUs with timed calls *)
(* it is the part "alarms", where notifications and alarms race.           *)
(***************************************************************************)
EXTENDS AxTaskSmp, TLC

CONSTANTS Parts, UpCpu, UpOps, UpDurations, AlarmTask, AlarmOps, AlarmDurations, TimedMaxTime

Up == INSTANCE AxTask WITH
          Task <- AlarmTask, Cpu <- UpCpu, Ops <- UpOps, MaxTime <- TimedMaxTime, Durations <- UpDurations
Alarms == INSTANCE AxTask WITH
          Task <- AlarmTask, Ops <- AlarmOps, MaxTime <- TimedMaxTime, Durations <- AlarmDurations

CheckInit ==
    /\ part \in Parts
    /\ \/ part = "smp" /\ Init
       \/ part = "up" /\ Up!Init
       \/ part = "alarms" /\ Alarms!Init

CheckNext ==
    /\ UNCHANGED part
    /\ \/ part = "smp" /\ Next
       \/ part = "up" /\ Up!Next
       \/ part = "alarms" /\ Alarms!Next

CheckSpec == CheckInit /\ [][CheckNext]_<<part, vars>>
CheckFairSpec == CheckSpec /\ Fairness

\* Clients are alike, and so are the CPUs other than the one that boots.
Symmetry == Permutations(Task \ {MainTask, GcTask}) \union Permutations(Cpu \ {BootCpu})

-----------------------------------------------------------------------------
\* On one CPU, a task that is not inside a blocking call has left no alarm and
\* no queue entry behind that could end a later call.
CallsLeaveNothing == part = "up" => Up!NothingLeftBehind

\* On one CPU, neither a timed wait that reports a timeout nor a sleep ends
\* before its deadline.
NotEarly == part = "up" => Up!TimeoutNotEarly /\ Up!SleepNotEarly

\* On two CPUs, whatever alarm or notification arrives late, a task runs on one
\* CPU at most, is queued once at most, and can still be woken when blocked.
LateWakeupsHarmless == part = "alarms" => Alarms!RunQueueConsistent /\ Alarms!BlockedIsReachable

\* Whoever sleeps wakes up, and whoever is ready gets a CPU.
SleepersRun == SleepReturns /\ ReadyRuns
=============================================================================
