------------------------------- MODULE Posix --------------------------------
(***************************************************************************)
(* The POSIX layer: the descriptor table (imp/fd_ops.rs over               *)
(* FlattenObjects), files and standard streams, sockets (imp/net.rs), and  *)
(* select and epoll (imp/io_mpx). A call clones the Arc of the file, takes *)
(* the mutex of the file for the whole operation, which may block in it,   *)
(* and drops the Arc. `arc` is the strong count of each file.              *)
(***************************************************************************)
EXTENDS Naturals, FiniteSets

CONSTANTS PosixTask,
          Calls,            \* what each task calls
          CAP,              \* AX_FILE_LIMIT
          STDIO,            \* descriptors 0..STDIO-1 are the standard streams
          FileObj, StdObj,  \* files; StdObj is the one of the standard streams
          MaxInput,         \* bound: what waits to be received on a socket
          NIL

VARIABLES table, count,     \* FD_TABLE
          kind,             \* of each file, "free" when it is none
          arc,
          mutex,            \* of each file: its holder
          input,            \* messages or connections waiting
          nonblocking,
          interest,         \* EpollInstance::events
          call              \* what each task is in

vars == <<table, count, kind, arc, mutex, input, nonblocking, interest, call>>

Fd == 0..(CAP - 1)
Sockets == {"tcp", "udp", "listener"}
Assigned == {fd \in Fd : table[fd] # NIL}

-----------------------------------------------------------------------------
\* FlattenObjects: the first free identifier; add_at leaves a used one alone.
FreeFd == Fd \ Assigned
FirstFree == CHOOSE fd \in FreeFd : \A f \in FreeFd : fd <= f
InsertAt(fd, o) == table' = [table EXCEPT ![fd] = o] /\ count' = count + 1

Init ==
    /\ table = [fd \in Fd |-> IF fd < STDIO THEN StdObj ELSE NIL] /\ count = STDIO
    /\ kind = [o \in FileObj |-> IF o = StdObj THEN "stdio" ELSE "free"]
    /\ arc = [o \in FileObj |-> IF o = StdObj THEN STDIO ELSE 0]
    /\ mutex = [o \in FileObj |-> NIL] /\ input = [o \in FileObj |-> 0]
    /\ nonblocking = [o \in FileObj |-> FALSE]
    /\ interest = [o \in FileObj |-> {}] /\ call = [t \in PosixTask |-> NIL]

\* Dropping the last Arc drops the file.
ArcDrop(o) ==
    /\ arc' = [arc EXCEPT ![o] = @ - 1]
    /\ IF arc[o] = 1
       THEN /\ kind' = [kind EXCEPT ![o] = "free"] /\ input' = [input EXCEPT ![o] = 0]
            /\ nonblocking' = [nonblocking EXCEPT ![o] = FALSE]
            /\ interest' = [interest EXCEPT ![o] = {}]
       ELSE UNCHANGED <<kind, input, nonblocking, interest>>
Return(t) == call' = [call EXCEPT ![t] = NIL]
Idle(t, op) == call[t] = NIL /\ op \in Calls[t]

-----------------------------------------------------------------------------
\* Which object a new file is does not matter.
FreeObj == {o \in FileObj : kind[o] = "free"}
NewObj == CHOOSE o \in FreeObj : TRUE
\* A new file at the first free descriptor; with none it is EMFILE.
add_file_like(k) ==
    /\ FreeFd # {} /\ FreeObj # {} /\ InsertAt(FirstFree, NewObj)
    /\ kind' = [kind EXCEPT ![NewObj] = k] /\ arc' = [arc EXCEPT ![NewObj] = 1]
    /\ UNCHANGED <<mutex, input, nonblocking, interest, call>>
sys_open(t) == Idle(t, "open") /\ add_file_like("file")
sys_socket(t) == \E k \in {"tcp", "udp"} : Idle(t, k) /\ add_file_like(k)
sys_epoll_create(t) == Idle(t, "epoll_create") /\ add_file_like("epoll")

\* sys_close: the standard streams stay open.
sys_close(t, fd) ==
    /\ Idle(t, "close") /\ fd >= STDIO /\ table[fd] # NIL
    /\ table' = [table EXCEPT ![fd] = NIL] /\ count' = count - 1 /\ ArcDrop(table[fd])
    /\ UNCHANGED <<mutex, call>>

\* get_file_like clones the Arc; a call on a bad descriptor is EBADF. `target`
\* is the descriptor epoll_ctl and dup2 name, `watch` the ones select and
\* epoll_wait look at, in order, from `at` on; `sub` the file polled.
Enter(t, op, fd, target) ==
    /\ table[fd] # NIL /\ arc' = [arc EXCEPT ![table[fd]] = @ + 1]
    /\ call' = [call EXCEPT ![t] = [op |-> op, obj |-> table[fd], target |-> target,
                                    stage |-> IF op \in {"dup", "dup2"} THEN "install" ELSE "lock",
                                    watch |-> {}, found |-> 0, sub |-> NIL, new |-> NIL]]
    /\ UNCHANGED <<table, count, kind, mutex, input, nonblocking, interest>>

\* dup2 of a descriptor to itself returns it, and out of range is EBADF.
sys_dup(t, fd) == Idle(t, "dup") /\ Enter(t, "dup", fd, fd)
sys_dup2(t, fd, new) == Idle(t, "dup2") /\ new # fd /\ new < CAP /\ Enter(t, "dup2", fd, new)

\* Variant: dup2 replaces the descriptor that is in use.
DupReplaces(t) ==
    LET o == call[t].obj
    IN  /\ call[t] # NIL /\ call[t].op \in {"dup", "dup2"}
        /\ LET fd == IF call[t].op = "dup" THEN FirstFree ELSE call[t].target
           IN  IF FreeFd # {} THEN InsertAt(fd, o) /\ UNCHANGED <<arc, kind, input, nonblocking, interest>>
               ELSE ArcDrop(o) /\ UNCHANGED <<table, count>>
        /\ Return(t) /\ UNCHANGED mutex

\* The Arc goes into the table, at the first free descriptor or at the given
\* one, or is dropped with EMFILE.
DupInstall(t) ==
    LET o == call[t].obj
        free == IF call[t].op = "dup" THEN FreeFd # {} ELSE call[t].target \in FreeFd
    IN  /\ call[t] # NIL /\ call[t].op \in {"dup", "dup2"}
        /\ IF free THEN /\ InsertAt(IF call[t].op = "dup" THEN FirstFree ELSE call[t].target, o)
                        /\ UNCHANGED <<arc, kind, input, nonblocking, interest>>
           ELSE ArcDrop(o) /\ UNCHANGED <<table, count>>
        /\ Return(t) /\ UNCHANGED mutex

-----------------------------------------------------------------------------
\* Calls that lock the file. from_fd refuses a file of another type, listen
\* and accept a datagram socket. Calls that do the same to the descriptors are
\* one call from here on.
FileCall(t, name, op, kinds, fd) ==
    /\ Idle(t, name) /\ table[fd] # NIL /\ kind[table[fd]] \in kinds
    /\ Enter(t, op, fd, fd)
Files == Sockets \cup {"file"}
sys_read(t, fd) == FileCall(t, "read", "read", Files, fd)
sys_recvfrom(t, fd) == FileCall(t, "recv", "read", Sockets, fd)
sys_write(t, fd) == FileCall(t, "write", "write", Files, fd)
sys_lseek(t, fd) == FileCall(t, "lseek", "write", {"file"}, fd)
sys_fstat(t, fd) == FileCall(t, "fstat", "write", Files, fd)
sys_sendto(t, fd) == FileCall(t, "send", "write", Sockets, fd)
sys_bind(t, fd) == FileCall(t, "bind", "write", Sockets, fd)
sys_connect(t, fd) == FileCall(t, "connect", "write", Sockets, fd)
sys_shutdown(t, fd) == FileCall(t, "shutdown", "write", Sockets, fd)
sys_fcntl(t, fd) == FileCall(t, "fcntl", "fcntl", Files, fd)
sys_listen(t, fd) == FileCall(t, "listen", "listen", {"tcp"}, fd)
sys_accept(t, fd) == FileCall(t, "accept", "accept", {"listener"}, fd)
sys_epoll_wait(t, fd) == FileCall(t, "epoll_wait", "epoll_wait", {"epoll"}, fd)

\* epoll_ctl looks the watched descriptor up before it locks the events.
sys_epoll_ctl(t, epfd, fd) ==
    /\ Idle(t, "epoll_ctl") /\ table[epfd] # NIL /\ kind[table[epfd]] = "epoll"
    /\ table[fd] # NIL /\ Enter(t, "epoll_ctl", epfd, fd)

Step(t, op, stage) == call[t] # NIL /\ call[t].op = op /\ call[t].stage = stage
LockFile(t) ==
    /\ call[t] # NIL /\ call[t].stage = "lock" /\ mutex[call[t].obj] = NIL
    /\ mutex' = [mutex EXCEPT ![call[t].obj] = t]
    /\ call' = [call EXCEPT ![t].stage = "in", ![t].watch = interest[call[t].obj]]
    /\ UNCHANGED <<table, count, kind, arc, input, nonblocking, interest>>
Unlock(t) == mutex' = [mutex EXCEPT ![call[t].obj] = NIL]
Leave(t) == Unlock(t) /\ call' = [call EXCEPT ![t].stage = "drop"]

\* The operation is done, the mutex held: a read waits for something to
\* receive, unless the socket is non-blocking.
Receive(t) ==
    LET o == call[t].obj
    IN  /\ Step(t, "read", "in")
        /\ kind[o] \in Sockets /\ input[o] = 0 => nonblocking[o]
        /\ input' = IF input[o] > 0 THEN [input EXCEPT ![o] = @ - 1] ELSE input
        /\ Leave(t) /\ UNCHANGED <<table, count, kind, arc, nonblocking, interest>>
Done(t) ==
    /\ Step(t, "write", "in") /\ Leave(t)
    /\ UNCHANGED <<table, count, kind, arc, input, nonblocking, interest>>
SetNonblocking(t) ==
    /\ Step(t, "fcntl", "in") /\ nonblocking' = [nonblocking EXCEPT ![call[t].obj] = TRUE]
    /\ Leave(t) /\ UNCHANGED <<table, count, kind, arc, input, interest>>
Listen(t) ==
    /\ Step(t, "listen", "in") /\ kind' = [kind EXCEPT ![call[t].obj] = "listener"]
    /\ Leave(t) /\ UNCHANGED <<table, count, arc, input, nonblocking, interest>>

\* sys_accept takes a connection, unlocks, and then looks for a descriptor:
\* with none the connection is dropped.
AcceptOne(t) ==
    LET o == call[t].obj
    IN  /\ Step(t, "accept", "in")
        /\ IF input[o] = 0 THEN /\ nonblocking[o] /\ Leave(t)
                                /\ UNCHANGED <<kind, arc, input>>
           ELSE /\ FreeObj # {} /\ kind' = [kind EXCEPT ![NewObj] = "tcp"]
                /\ arc' = [arc EXCEPT ![NewObj] = 1] /\ input' = [input EXCEPT ![o] = @ - 1]
                /\ Unlock(t) /\ call' = [call EXCEPT ![t].stage = "install", ![t].new = NewObj]
        /\ UNCHANGED <<table, count, nonblocking, interest>>
AcceptInstall(t) ==
    /\ Step(t, "accept", "install")
    /\ call' = [call EXCEPT ![t].stage = "drop", ![t].new = NIL]
    /\ IF FreeFd # {} THEN /\ InsertAt(FirstFree, call[t].new)
                           /\ UNCHANGED <<arc, kind, input, nonblocking, interest>>
       ELSE ArcDrop(call[t].new) /\ UNCHANGED <<table, count>>
    /\ UNCHANGED mutex

\* epoll_ctl: ADD of a new descriptor, DEL of a registered one.
Control(t) ==
    /\ Step(t, "epoll_ctl", "in")
    /\ interest' = [interest EXCEPT ![call[t].obj] =
                       IF call[t].target \in @ THEN @ \ {call[t].target} ELSE @ \cup {call[t].target}]
    /\ Leave(t) /\ UNCHANGED <<table, count, kind, arc, input, nonblocking>>

CallDrop(t) ==
    /\ call[t] # NIL /\ call[t].stage = "drop" /\ ArcDrop(call[t].obj) /\ Return(t)
    /\ UNCHANGED <<table, count, mutex>>

-----------------------------------------------------------------------------
\* poll of a file: sockets under their mutex, an epoll instance not at all.
Readable(o) == kind[o] \in {"file", "stdio"} \/ input[o] > 0
First(watch) == CHOOSE fd \in watch : \A f \in watch : fd <= f

\* select takes the sets; it holds no file.
sys_select(t, fds) ==
    /\ Idle(t, "select") /\ fds # {}
    /\ call' = [call EXCEPT ![t] = [op |-> "select", obj |-> NIL, target |-> fds, stage |-> "in",
                                    watch |-> fds, found |-> 0, sub |-> NIL, new |-> NIL]]
    /\ UNCHANGED <<table, count, kind, arc, mutex, input, nonblocking, interest>>
Polling(t) == call[t] # NIL /\ call[t].op \in {"select", "epoll_wait"} /\ call[t].stage = "in"
PollEnd(t) == IF call[t].op = "select" THEN Return(t) /\ UNCHANGED mutex ELSE Leave(t)

\* poll_all: each watched descriptor in order; a closed one ends the call.
PollGet(t) ==
    /\ Polling(t) /\ call[t].sub = NIL /\ call[t].watch # {}
    /\ LET fd == First(call[t].watch)
       IN  IF table[fd] = NIL THEN PollEnd(t) /\ UNCHANGED arc
           ELSE /\ arc' = [arc EXCEPT ![table[fd]] = @ + 1]
                /\ call' = [call EXCEPT ![t].sub = table[fd], ![t].watch = @ \ {fd}]
                /\ UNCHANGED mutex
    /\ UNCHANGED <<table, count, kind, input, nonblocking, interest>>
PollFile(t) ==
    LET o == call[t].sub
    IN  /\ Polling(t) /\ o # NIL /\ (kind[o] \in Sockets => mutex[o] = NIL)
        /\ call' = [call EXCEPT ![t].sub = NIL, ![t].found = IF Readable(o) THEN 1 ELSE @]
        /\ ArcDrop(o) /\ UNCHANGED <<table, count, mutex>>
\* With something found, or at the deadline, the call returns; or once more.
PollRound(t) ==
    /\ Polling(t) /\ call[t].sub = NIL /\ call[t].watch = {}
    /\ \/ PollEnd(t)
       \/ /\ call[t].found = 0
          /\ IF call[t].op = "select"
             THEN call' = [call EXCEPT ![t].watch = call[t].target] /\ UNCHANGED mutex
             ELSE call' = [call EXCEPT ![t].stage = "lock"] /\ Unlock(t)
    /\ UNCHANGED <<table, count, kind, arc, input, nonblocking, interest>>

\* The peer sends or connects.
Arrive(o) ==
    /\ kind[o] \in Sockets /\ input[o] < MaxInput /\ input' = [input EXCEPT ![o] = @ + 1]
    /\ UNCHANGED <<table, count, kind, arc, mutex, nonblocking, interest, call>>

Next ==
    \/ \E t \in PosixTask :
          \/ sys_open(t) \/ sys_socket(t) \/ sys_epoll_create(t)
          \/ \E fd \in Fd :
                \/ sys_close(t, fd) \/ sys_dup(t, fd) \/ sys_read(t, fd) \/ sys_recvfrom(t, fd)
                \/ sys_write(t, fd) \/ sys_lseek(t, fd) \/ sys_fstat(t, fd) \/ sys_sendto(t, fd)
                \/ sys_bind(t, fd) \/ sys_connect(t, fd) \/ sys_shutdown(t, fd) \/ sys_fcntl(t, fd)
                \/ sys_listen(t, fd) \/ sys_accept(t, fd) \/ sys_epoll_wait(t, fd)
                \/ \E new \in Fd : sys_dup2(t, fd, new) \/ sys_epoll_ctl(t, fd, new)
          \/ \E fds \in SUBSET Assigned : sys_select(t, fds)
          \/ DupInstall(t) \/ LockFile(t) \/ Receive(t) \/ Done(t) \/ SetNonblocking(t)
          \/ Listen(t) \/ AcceptOne(t) \/ AcceptInstall(t) \/ Control(t) \/ CallDrop(t)
          \/ PollGet(t) \/ PollFile(t) \/ PollRound(t)
    \/ \E o \in FileObj : Arrive(o)

Spec == Init /\ [][Next]_vars

-----------------------------------------------------------------------------
Holders(o) ==
    Cardinality({fd \in Fd : table[fd] = o})
    + Cardinality({t \in PosixTask : call[t] # NIL /\ call[t].obj = o})
    + Cardinality({t \in PosixTask : call[t] # NIL /\ call[t].sub = o})
    + Cardinality({t \in PosixTask : call[t] # NIL /\ call[t].new = o})

\* Every file is dropped exactly when no descriptor and no call uses it any
\* more, whatever is closed, duplicated or accepted while calls are in
\* progress; the table counts what it holds; and a mutex is held only by a
\* task that is inside a call on that file.
FilesAccounted ==
    /\ \A o \in FileObj : arc[o] = Holders(o) /\ (kind[o] = "free" <=> arc[o] = 0)
    /\ count = Cardinality(Assigned)
    /\ \A o \in FileObj : mutex[o] # NIL => call[mutex[o]] # NIL /\ call[mutex[o]].obj = o
=============================================================================
