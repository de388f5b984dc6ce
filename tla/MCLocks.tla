------------------------------ MODULE MCLocks ------------------------------
(***************************************************************************)
(* What tasks wait for when they share something: the mutex of axsync (the *)
(* part "mutex") and a pipe between two of them (the part "pipe"). The     *)
(* variable part selects the module whose steps are taken.                 *)
(***************************************************************************)
EXTENDS AxMutex

CONSTANTS Parts, NONE, PipeTask, AX_FILE_LIMIT, RING_BUFFER_SIZE, Lengths, MaxCalls

VARIABLES part, ring, table, created, at, call, calls, eof

Pipes == INSTANCE Pipe WITH Task <- PipeTask, pc <- at

pipes == <<ring, table, created, at, call, calls, eof>>

CheckInit == part \in Parts /\ Init /\ Pipes!Init

CheckNext ==
    /\ UNCHANGED part
    /\ \/ part = "mutex" /\ Next /\ UNCHANGED pipes
       \/ part = "pipe" /\ Pipes!Next /\ UNCHANGED vars

\* The fairness of AxMutex and of Pipe, each for its own part.
CheckFairness ==
    /\ \A t \in Task : /\ WF_vars(part = "mutex" /\ lock(t))
                       /\ WF_vars(part = "mutex" /\ force_unlock(t))
    /\ SF_vars(part = "mutex" /\ \E t \in Task : CasOk(t))
    /\ \A t \in PipeTask : WF_pipes(part = "pipe" /\ Pipes!InCall(t))

CheckSpec == CheckInit /\ [][CheckNext]_<<part, vars, pipes>> /\ CheckFairness

-----------------------------------------------------------------------------
\* The bytes of a pipe arrive once and in order, and a read comes back short
\* only when the last writer is gone and the last byte is read.
ImplementsPipe == Pipes!ImplementsPipe

\* A waiting read takes the bytes that are there, and returns once nobody can
\* write any more, although the last close wakes nobody up.
PipeDrains == Pipes!BytesArrive /\ Pipes!EofReached

\* A read yields for more data only when it has not got all that it was asked
\* for ("Data not ready, wait for write end", pipe.rs:124).
WaitsOnlyForData == Pipes!WaitsOnlyForData
=============================================================================
