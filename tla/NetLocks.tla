------------------------------ MODULE NetLocks ------------------------------
(***************************************************************************)
(* The locks of axnet and the order in which its calls take them: the      *)
(* device, the interface, SOCKET_SET, the entry of a port in LISTEN_TABLE  *)
(* and the ephemeral port counter, all of them sleeping mutexes. A call is *)
(* the sequence of its acquisitions ("+") and releases ("-"); what happens *)
(* under the locks is in TcpSocket and UdpSocket.                          *)
(***************************************************************************)
EXTENDS Naturals, Sequences, FiniteSets

CONSTANTS NetTask, NetOps,  \* the calls the tasks make
          NONE

VARIABLES owner,            \* per lock: the task that holds it
          running, step     \* per task: its call, and how far it is

vars == <<owner, running, step>>

Lock == {"dev", "iface", "sockets", "port", "curr"}

Inside(l, body) == <<<<"+", l>>>> \o body \o <<<<"-", l>>>>
Locked(l) == Inside(l, << >>)

\* with_socket, with_socket_mut, add and remove of SocketSetWrapper.
with_socket == Locked("sockets")

\* InterfaceWrapper::poll; a SYN goes to incoming_tcp_packet under all three.
Poll(received) == Inside("dev", Inside("iface", Inside("sockets", received)))

incoming_tcp_packet == Locked("port")

get_ephemeral_port == Inside("curr", Locked("port"))

\* connect and DnsSocket::query take the interface inside SOCKET_SET.
connect == with_socket \o get_ephemeral_port \o Inside("sockets", Locked("iface"))
query == with_socket \o Inside("sockets", Locked("iface")) \o Poll(<< >>) \o with_socket

\* Variant: the entry of the port is locked around the choice of the port.
ListenLockedPort == Inside("port", Locked("curr"))

listen == get_ephemeral_port \o Locked("port")

\* The entry of the port stays locked while the state of the connections in
\* its queue is looked at, or while they are removed.
accept == Inside("port", with_socket \o with_socket)
can_accept == Inside("port", with_socket)
unlisten == Inside("port", with_socket)

Script(op) ==
    CASE op = "poll" -> Poll(<< >>)
      [] op = "poll_syn" -> Poll(incoming_tcp_packet)
      [] op = "transfer" -> with_socket
      [] op = "connect" -> connect
      [] op = "query" -> query
      [] op = "listen" -> listen
      [] op = "accept" -> accept
      [] op = "can_accept" -> can_accept
      [] op = "unlisten" -> unlisten

Init ==
    /\ owner = [l \in Lock |-> NONE]
    /\ running = [t \in NetTask |-> NONE] /\ step = [t \in NetTask |-> 1]

Call(t, op) ==
    /\ running[t] = NONE /\ running' = [running EXCEPT ![t] = op]
    /\ UNCHANGED <<owner, step>>

NextLock(t) == Script(running[t])[step[t]]
Waits(t) == running[t] # NONE /\ NextLock(t)[1] = "+" /\ owner[NextLock(t)[2]] # NONE

Step(t) ==
    /\ running[t] # NONE /\ ~Waits(t)
    /\ owner' = [owner EXCEPT ![NextLock(t)[2]] = IF NextLock(t)[1] = "+" THEN t ELSE NONE]
    /\ LET last == step[t] = Len(Script(running[t]))
       IN  /\ step' = [step EXCEPT ![t] = IF last THEN 1 ELSE @ + 1]
           /\ running' = IF last THEN [running EXCEPT ![t] = NONE] ELSE running

Next == \E t \in NetTask : Step(t) \/ \E op \in NetOps : Call(t, op)

\* A task that runs goes on, and a mutex is not kept from a waiting task for ever.
Fairness == \A t \in NetTask : SF_vars(Step(t))
Spec == Init /\ [][Next]_vars /\ Fairness

-----------------------------------------------------------------------------
\* Tasks that wait for each other.
Stuck(S) == S # {} /\ \A t \in S : Waits(t) /\ owner[NextLock(t)[2]] \in S

\* t holds lock k and waits for lock l.
Wants(t, k, l) == Waits(t) /\ owner[k] = t /\ NextLock(t)[2] = l

\* Tasks wait for each other for ever in two ways only: one holds SOCKET_SET and
\* waits for the interface (connect, query) while another holds the interface and
\* waits for SOCKET_SET (a poll), or one holds the lock of a port and waits for
\* SOCKET_SET (accept, can_accept, unlisten) while another holds SOCKET_SET and
\* waits for the port (the poll that delivers a SYN). Those two cycles are in the
\* code; the locks have no other.
OnlyKnownCycles ==
    \A S \in SUBSET NetTask : Stuck(S) =>
        \E t, u \in S :
            \/ Wants(t, "sockets", "iface") /\ Wants(u, "iface", "sockets")
            \/ Wants(t, "port", "sockets") /\ Wants(u, "sockets", "port")

\* A call on a nonblocking socket returns: block_on calls the function once.
NonblockingReturns == \A t \in NetTask : running[t] = "accept" ~> running[t] = NONE
=============================================================================
