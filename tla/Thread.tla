------------------------------- MODULE Thread -------------------------------
(***************************************************************************)
(* Threads as applications see them: the pthreads of arceos_posix_api with *)
(* the table TID_TO_PTHREAD, and the threads of axstd with their           *)
(* JoinHandle, over the tasks of axtask. A thread is joined at most once.  *)
(* A panic stops the system.                                               *)
(***************************************************************************)
EXTENDS Integers, FiniteSets

CONSTANTS Thread, Main, Pthreads,   \* the threads made with pthread_create
          Values,                   \* that a thread may return
          NIL

VARIABLES tstate,                   \* thread -> "new", "running", "exited"
          creating,                 \* thread -> the one whose create it is in
          inited,                   \* TID_TO_PTHREAD, which the first use makes,
          registry,                 \* and its entries: NIL, the struct "made" by
                                    \* create, or the "own" one of the first user
          boxed,                    \* threads whose struct Pthread is alive
          packet, holders,          \* the result, and who holds the packet
          joining, joined,          \* whom a thread waits for; what joins gave
          ended, astray,            \* history: what each thread ended with, and
                                    \* who stored it in a struct nobody joins
          panicked,                 \* joiners that panicked
          unknown                   \* threads that panicked as not in the table

vars == <<tstate, creating, inited, registry, boxed, packet, holders, joining, joined, ended, astray,
          panicked, unknown>>
table == <<inited, registry, boxed>>

Init ==
    /\ tstate = [t \in Thread |-> IF t = Main THEN "running" ELSE "new"]
    /\ creating = [t \in Thread |-> NIL]
    /\ inited = FALSE /\ registry = [t \in Thread |-> NIL] /\ boxed = {}
    /\ packet = [t \in Thread |-> "null"] /\ holders = [t \in Thread |-> {}]
    /\ joining = [t \in Thread |-> NIL] /\ joined = [t \in Thread |-> NIL]
    /\ ended = [t \in Thread |-> NIL] /\ astray = {} /\ panicked = {} /\ unknown = {}

Runs(p) == tstate[p] = "running" /\ creating[p] = NIL /\ joining[p] = NIL
Made(t) == \A p \in Thread : creating[p] # t

\* The table as thread p finds it: the first use makes it, with an entry for
\* the thread at hand, which it takes for the main thread.
TID_TO_PTHREAD(p) == IF inited THEN registry ELSE [registry EXCEPT ![p] = "own"]

\* Pthread::create and Builder::spawn: the task runs from here on; only then
\* are the struct and its entry in the table made.
TaskSpawn(p, t) ==
    /\ Runs(p) /\ tstate[t] = "new" /\ tstate' = [tstate EXCEPT ![t] = "running"]
    /\ holders' = [holders EXCEPT ![t] = {"handle", "closure"}]
    /\ creating' = [creating EXCEPT ![p] = t]
    /\ UNCHANGED <<table, packet, joining, joined, ended, astray, panicked, unknown>>
create(p, t) == t \in Pthreads /\ TaskSpawn(p, t)
spawn(p, t) == t \notin Pthreads /\ TaskSpawn(p, t)
Created(p) ==
    LET t == creating[p]
    IN  /\ t # NIL /\ creating' = [creating EXCEPT ![p] = NIL]
        /\ IF t \in Pthreads
           THEN /\ inited' = TRUE /\ registry' = [TID_TO_PTHREAD(p) EXCEPT ![t] = "made"]
                /\ boxed' = boxed \cup {t}
           ELSE UNCHANGED table
        /\ UNCHANGED <<tstate, packet, holders, joining, joined, ended, astray, panicked, unknown>>

\* sys_pthread_self: the table must know the caller.
pthread_self(t) ==
    /\ Runs(t) /\ t \in Pthreads \cup {Main}
    /\ inited' = TRUE /\ registry' = TID_TO_PTHREAD(t)
    /\ unknown' = (IF registry'[t] = NIL THEN unknown \cup {t} ELSE unknown)
    /\ UNCHANGED <<tstate, creating, boxed, packet, holders, joining, joined, ended, astray, panicked>>

\* The closure returns: it stores the value and drops its packet, and the
\* task exits.
Return(t, v) ==
    /\ Runs(t) /\ t # Main /\ tstate' = [tstate EXCEPT ![t] = "exited"]
    /\ packet' = [packet EXCEPT ![t] = v] /\ ended' = [ended EXCEPT ![t] = v]
    /\ holders' = [holders EXCEPT ![t] = @ \ {"closure"}]
    /\ UNCHANGED <<creating, table, joining, joined, astray, panicked, unknown>>

\* exit_current stores the value through the struct the table has for the
\* thread. It does not drop the closure's packet.
exit_current(t, v) ==
    LET struct == TID_TO_PTHREAD(t)[t]
    IN  /\ Runs(t) /\ t \in Pthreads \ {Main}
        /\ inited' = TRUE /\ registry' = TID_TO_PTHREAD(t)
        /\ IF struct = NIL
           THEN unknown' = unknown \cup {t} /\ UNCHANGED <<tstate, packet, ended, astray>>
           ELSE /\ tstate' = [tstate EXCEPT ![t] = "exited"] /\ UNCHANGED unknown
                /\ ended' = [ended EXCEPT ![t] = v]
                /\ IF struct = "made" THEN packet' = [packet EXCEPT ![t] = v] /\ UNCHANGED astray
                   ELSE astray' = astray \cup {t} /\ UNCHANGED packet
        /\ UNCHANGED <<creating, boxed, holders, joining, joined, panicked>>

\* thread::exit of axstd stores nothing, and drops the packet no more.
exit(t) ==
    /\ Runs(t) /\ t # Main /\ t \notin Pthreads
    /\ tstate' = [tstate EXCEPT ![t] = "exited"] /\ ended' = [ended EXCEPT ![t] = "exit"]
    /\ UNCHANGED <<creating, table, packet, holders, joining, joined, astray, panicked, unknown>>

\* join: the caller owns the struct and waits. (It fails for oneself.)
join(p, t) ==
    /\ Runs(p) /\ tstate[t] # "new" /\ Made(t) /\ t # Main /\ joined[t] = NIL
    /\ \A q \in Thread : joining[q] # t
    /\ p # t /\ joining' = [joining EXCEPT ![p] = t]
    /\ UNCHANGED <<tstate, creating, table, packet, holders, joined, ended, astray, panicked, unknown>>

\* Variant: the struct's owner does not wait.
TakenAtOnce(p) ==
    LET t == joining[p]
    IN  /\ t \in Pthreads /\ joined[t] = NIL
        /\ joined' = [joined EXCEPT ![t] = packet[t]]
        /\ registry' = [registry EXCEPT ![t] = NIL]
        /\ UNCHANGED <<tstate, creating, inited, boxed, packet, holders, joining, ended, astray, panicked, unknown>>

\* The pthread has exited: join reads its value and takes its entry away ...
Taken(p) ==
    LET t == joining[p]
    IN  /\ t \in Pthreads /\ tstate[t] = "exited" /\ joined[t] = NIL
        /\ joined' = [joined EXCEPT ![t] = packet[t]]
        /\ registry' = [registry EXCEPT ![t] = NIL]
        /\ UNCHANGED <<tstate, creating, inited, boxed, packet, holders, joining, ended, astray, panicked, unknown>>

\* ... and then drops its struct.
Dropped(p) ==
    LET t == joining[p]
    IN  /\ t \in Pthreads /\ joined[t] # NIL /\ joining' = [joining EXCEPT ![p] = NIL]
        /\ boxed' = boxed \ {t} /\ holders' = [holders EXCEPT ![t] = @ \ {"handle"}]
        /\ UNCHANGED <<tstate, creating, inited, registry, packet, joined, ended, astray, panicked, unknown>>

\* JoinHandle::join, after the wait, must be the packet's only holder.
HandleJoin(p) ==
    LET t == joining[p]
    IN  /\ t \in Thread \ Pthreads /\ tstate[t] = "exited" /\ joining' = [joining EXCEPT ![p] = NIL]
        /\ IF holders[t] # {"handle"} THEN panicked' = panicked \cup {p} /\ UNCHANGED joined
           ELSE joined' = [joined EXCEPT ![t] = packet[t]] /\ UNCHANGED panicked
        /\ holders' = [holders EXCEPT ![t] = @ \ {"handle"}]
        /\ UNCHANGED <<tstate, creating, table, packet, ended, astray, unknown>>

\* pthread_mutex_lock forgets its guard, and unlock forces the Mutex open:
\* AxMutex models both.
Next ==
    /\ panicked = {} /\ unknown = {}
    /\ \E t \in Thread :
          \/ \E u \in Thread : create(t, u) \/ spawn(t, u) \/ join(t, u)
          \/ Created(t) \/ pthread_self(t) \/ Taken(t) \/ Dropped(t) \/ HandleJoin(t)
          \/ exit(t) \/ \E v \in Values : Return(t, v) \/ exit_current(t, v)

Spec == Init /\ [][Next]_vars

-----------------------------------------------------------------------------
\* A join gives the value the thread ended with, unless the thread used the
\* table first of all, before create entered it, and left through pthread_exit:
\* then its value is lost and the join gives NULL. The table never names a
\* struct that was freed; it knows every pthread that runs and whose create is
\* over, so only one that is still being made, or the main thread when another
\* used the table before it, panics as unknown; a join panics only for a
\* thread that left through exit of axstd.
JoinGetsValue ==
    /\ \A t \in Thread : joined[t] # NIL =>
          tstate[t] = "exited" /\ joined[t] = (IF t \in astray THEN "null" ELSE ended[t])
    /\ \A t \in Thread : registry[t] = "made" => t \in boxed
    /\ \A t \in Pthreads : tstate[t] = "running" /\ Made(t) /\ t # Main => registry[t] = "made"
    /\ \A t \in unknown : t = Main \/ ~Made(t)
    /\ panicked # {} => \E t \in Thread \ Pthreads : ended[t] = "exit"

\* "Returns the `pthread` struct of current thread." (pthread/mod.rs): a
\* thread that asks is known.
SelfKnown == unknown = {}
=============================================================================
