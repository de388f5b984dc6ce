----------------------------- MODULE TcpSocket -----------------------------
(***************************************************************************)
(* The TCP sockets of axnet: the state cell of TcpSocket, the table of     *)
(* listening ports with its queues of incoming connections, and the        *)
(* handles that both hold into SOCKET_SET, used by several tasks.          *)
(*                                                                         *)
(* A step is what happens under one lock, or between two accesses to the   *)
(* state cell. smoltcp (external) appears as the state of the socket behind*)
(* each handle and as the packets that change it, whenever some task polls *)
(* the interface. A call that returns an error at once changes nothing.    *)
(***************************************************************************)
EXTENDS Integers, Sequences, FiniteSets

CONSTANTS Task, Sock,         \* TcpSocket objects
          NONE,
          Handles,            \* bound: slots of SOCKET_SET are 1..Handles
          PORT_START, PORT_END,
          LISTEN_QUEUE_SIZE,
          BindTo,             \* the <<address, port>> pairs tasks bind to
          Nonblocking,        \* the sockets in nonblocking mode
          MaxCalls            \* bound: calls made by all tasks

VARIABLES state, handle, local,  \* TcpSocket; state NONE: no such object
          sockets,               \* SOCKET_SET: the smoltcp socket of each handle
          entry,                 \* LISTEN_TABLE: per port, NONE or its ListenTableEntry
          curr,                  \* CURR of get_ephemeral_port
          pc,                    \* per task: the call in progress and its locals
          calls,                 \* the calls made so far
          leaked,                \* history: handles dropped by a failed connect
          stale                  \* history: poll_connect wrote over a state other than CONNECTING

vars == <<state, handle, local, sockets, entry, curr, pc, calls, leaked, stale>>

Handle == 1..Handles
Port == PORT_START..PORT_END
Unspecified == <<"any", 0>>

\* A task's call: the endpoint, handle or index it has found so far, whether it
\* is a drop, and (history) the connections ready when an accept began to look.
Idle == [op |-> "idle", s |-> NONE, addr |-> "any", port |-> 0, h |-> NONE, idx |-> 0, drop |-> FALSE,
         ready |-> {}]

Init ==
    /\ state = [s \in Sock |-> NONE] /\ handle = [s \in Sock |-> NONE]
    /\ local = [s \in Sock |-> Unspecified]
    /\ sockets = [h \in Handle |-> NONE] /\ entry = [p \in Port |-> NONE]
    /\ curr = PORT_START /\ pc = [t \in Task |-> Idle] /\ calls = 0 /\ leaked = {}
    /\ stale = FALSE

Least(S) == CHOOSE x \in S : \A y \in S : x <= y
Free == {h \in Handle : sockets[h] = NONE}

\* A smoltcp socket: its state and local address. Listen stands for the states
\* before the connection (Listen, SynReceived), Closing for those after the
\* first FIN (CloseWait, FinWait, LastAck, TimeWait): axnet tells no others apart.
Socket(st, addr) == [st |-> st, addr |-> addr]

\* Task t may start a call on s: nobody is dropping it.
MayCall(t, s) ==
    /\ pc[t] = Idle /\ state[s] # NONE /\ calls < MaxCalls /\ calls' = calls + 1
    /\ \A u \in Task : pc[u].s = s => ~pc[u].drop

Goto(t, op) == pc' = [pc EXCEPT ![t].op = op]
Return(t) == pc' = [pc EXCEPT ![t] = Idle]

\* The compare-and-exchange at the start of update_state.
update_state(t, s, expect, call) ==
    /\ MayCall(t, s) /\ state[s] = expect
    /\ state' = [state EXCEPT ![s] = "BUSY"] /\ pc' = [pc EXCEPT ![t] = call]

CallOn(s, op) == [Idle EXCEPT !.op = op, !.s = s]

-----------------------------------------------------------------------------
(* Ports *)

can_listen(port) == entry[port] = NONE

\* CURR after k steps; the port found is the last one passed over.
After(k) == PORT_START + ((curr - PORT_START + k) % (PORT_END - PORT_START + 1))

\* The numbers of tries that end the loop: the first port nobody listens on.
Tries == {k \in 0..(PORT_END - PORT_START) : can_listen(After(k))}

\* The port of bound_endpoint and bind: 0 stands for "no available ports".
get_ephemeral_port(port, c) ==
    IF Tries = {} THEN port = 0 /\ c = curr
    ELSE port = After(Least(Tries)) /\ c = After(Least(Tries) + 1)

bound_endpoint(s, port) ==
    IF local[s][2] # 0 THEN port = local[s][2] /\ UNCHANGED curr
    ELSE get_ephemeral_port(port, curr')

-----------------------------------------------------------------------------
(* Operations on a socket *)

new(t, s) ==
    /\ pc[t] = Idle /\ state[s] = NONE /\ calls < MaxCalls /\ calls' = calls + 1
    /\ state' = [state EXCEPT ![s] = "CLOSED"]
    /\ UNCHANGED <<handle, local, sockets, entry, curr, pc, leaked, stale>>

bind(t, s) ==
    /\ update_state(t, s, "CLOSED", CallOn(s, "bind"))
    /\ UNCHANGED <<handle, local, sockets, entry, curr, leaked, stale>>

\* The port is taken from CURR before the test whether the socket is bound.
BindBody(t) ==
    LET s == pc[t].s
    IN  /\ pc[t].op = "bind" /\ Return(t)
        /\ \E b \in BindTo, port \in Port \cup {0} :
              /\ IF b[2] = 0 THEN get_ephemeral_port(port, curr')
                 ELSE port = b[2] /\ UNCHANGED curr
              /\ local' = IF port # 0 /\ local[s] = Unspecified
                          THEN [local EXCEPT ![s] = <<b[1], port>>] ELSE local
        /\ state' = [state EXCEPT ![s] = "CLOSED"]
        /\ UNCHANGED <<handle, sockets, entry, calls, leaked, stale>>

connect(t, s) ==
    /\ update_state(t, s, "CLOSED", CallOn(s, "connect"))
    /\ UNCHANGED <<handle, local, sockets, entry, curr, leaked, stale>>

\* The handle is added to SOCKET_SET, unless the socket has one, and then the
\* port is chosen; without a port the call fails and a new handle is lost.
ConnectPrepare(t) ==
    LET s == pc[t].s
        h == IF handle[s] # NONE THEN handle[s] ELSE Least(Free)
    IN  /\ pc[t].op = "connect" /\ (handle[s] # NONE \/ Free # {})
        /\ sockets' = IF handle[s] # NONE THEN sockets
                      ELSE [sockets EXCEPT ![h] = Socket("Closed", Unspecified)]
        /\ \E port \in Port \cup {0} :
              /\ bound_endpoint(s, port)
              /\ IF port = 0
                 THEN /\ state' = [state EXCEPT ![s] = "CLOSED"] /\ Return(t)
                      /\ leaked' = IF handle[s] = NONE THEN leaked \cup {h} ELSE leaked
                 ELSE /\ pc' = [pc EXCEPT ![t].op = "connect2", ![t].port = port, ![t].h = h]
                      /\ UNCHANGED <<state, leaked>>
        /\ UNCHANGED <<handle, local, entry, calls, stale>>

\* smoltcp refuses an open socket (BadState) and a peer that is no address.
ConnectBody(t) ==
    LET s == pc[t].s
        h == pc[t].h
    IN  /\ pc[t].op = "connect2"
        /\ \E addressable \in BOOLEAN :
              IF addressable /\ sockets[h].st = "Closed"
              THEN /\ sockets' = [sockets EXCEPT ![h] = Socket("SynSent", <<"host", pc[t].port>>)]
                   /\ local' = [local EXCEPT ![s] = <<"host", pc[t].port>>]
                   /\ handle' = [handle EXCEPT ![s] = h]
                   /\ state' = [state EXCEPT ![s] = "CONNECTING"]
                   /\ IF s \in Nonblocking THEN Return(t) ELSE Goto(t, "connecting")
                   /\ UNCHANGED leaked
              ELSE /\ state' = [state EXCEPT ![s] = "CLOSED"] /\ Return(t)
                   /\ leaked' = IF handle[s] = NONE THEN leaked \cup {h} ELSE leaked
                   /\ UNCHANGED <<handle, local, sockets>>
        /\ UNCHANGED <<entry, curr, calls, stale>>

\* poll() looks at the state first; the other states change nothing.
poll(t, s) ==
    /\ MayCall(t, s) /\ state[s] = "CONNECTING"
    /\ pc' = [pc EXCEPT ![t] = CallOn(s, "poll")]
    /\ UNCHANGED <<state, handle, local, sockets, entry, curr, leaked, stale>>

\* poll_connect, called by poll and by the loop of a blocking connect: it sets
\* the state without another look at it, so whatever another task made of the
\* socket since is written over.
poll_connect(t) ==
    LET s == pc[t].s
        st == sockets[handle[s]].st
    IN  /\ pc[t].op \in {"poll", "connecting"} /\ (st = "SynSent" => pc[t].op = "poll")
        /\ state' = CASE st = "SynSent" -> state
                      [] st = "Established" -> [state EXCEPT ![s] = "CONNECTED"]
                      [] OTHER -> [state EXCEPT ![s] = "CLOSED"]
        /\ local' = IF st \in {"SynSent", "Established"} THEN local
                    ELSE [local EXCEPT ![s] = Unspecified]
        /\ stale' = (stale \/ (state[s] # "CONNECTING" /\ <<state', local'>> # <<state, local>>))
        /\ Return(t)
        /\ UNCHANGED <<handle, sockets, entry, curr, calls, leaked>>

listen(t, s) ==
    /\ update_state(t, s, "CLOSED", CallOn(s, "listen"))
    /\ UNCHANGED <<handle, local, sockets, entry, curr, leaked, stale>>

ListenPort(t) ==
    LET s == pc[t].s
    IN  /\ pc[t].op = "listen"
        /\ \E port \in Port \cup {0} :
              /\ bound_endpoint(s, port)
              /\ IF port = 0
                 THEN /\ state' = [state EXCEPT ![s] = "CLOSED"] /\ Return(t)
                      /\ UNCHANGED local
                 ELSE /\ local' = [local EXCEPT ![s][2] = port]
                      /\ pc' = [pc EXCEPT ![t].op = "listen2", ![t].addr = local[s][1], ![t].port = port]
                      /\ UNCHANGED state
        /\ UNCHANGED <<handle, sockets, entry, calls, leaked, stale>>

\* ListenTable::listen; when the port is taken, the socket stays bound to it.
ListenBody(t) ==
    LET s == pc[t].s
        port == pc[t].port
    IN  /\ pc[t].op = "listen2" /\ Return(t)
        /\ entry' = IF entry[port] = NONE
                    THEN [entry EXCEPT ![port] = [addr |-> pc[t].addr, queue |-> << >>]]
                    ELSE entry
        /\ state' = [state EXCEPT ![s] = IF entry[port] = NONE THEN "LISTENING" ELSE "CLOSED"]
        /\ UNCHANGED <<handle, local, sockets, curr, calls, leaked, stale>>

-----------------------------------------------------------------------------
(* The queue of a listening port *)

Members(e) == {e.queue[i] : i \in DOMAIN e.queue}

Queued(port) ==
    IF entry[port] = NONE THEN {}
    ELSE Members(entry[port])

is_connected(h) == sockets[h].st # "Listen"

\* Variant: the last one takes its place.
SwapRemoveBack(q, idx) == SubSeq([q EXCEPT ![idx] = q[Len(q)]], 1, Len(q) - 1)

\* VecDeque::swap_remove_front: the front takes the place of the removed one.
swap_remove_front(q, idx) == Tail([q EXCEPT ![idx] = q[1]])

\* ListenTable::accept keeps the lock of the port while it looks at the queue.
Locked(port) == \E t \in Task : pc[t].op \in {"scan", "take"} /\ pc[t].port = port

accept(t, s) ==
    /\ MayCall(t, s) /\ state[s] = "LISTENING"
    /\ pc' = [pc EXCEPT ![t] = CallOn(s, "accept")]
    /\ UNCHANGED <<state, handle, local, sockets, entry, curr, leaked, stale>>

\* The port is read after the test of the state: 0 when the socket was closed.
AcceptPort(t) ==
    /\ pc[t].op = "accept"
    /\ pc' = [pc EXCEPT ![t].op = "accepting", ![t].port = local[pc[t].s][2]]
    /\ UNCHANGED <<state, handle, local, sockets, entry, curr, calls, leaked, stale>>

\* A turn of the loop in accept locks the port; nobody may listen on it by now.
AcceptLock(t) ==
    LET port == pc[t].port
    IN  /\ pc[t].op = "accepting"
        /\ IF port = 0 \/ entry[port] = NONE THEN Return(t)
           ELSE /\ ~Locked(port)
                /\ pc' = [pc EXCEPT ![t].op = "scan", ![t].idx = 1,
                                    ![t].ready = {h \in Queued(port) : is_connected(h)}]
        /\ UNCHANGED <<state, handle, local, sockets, entry, curr, calls, leaked, stale>>

\* One look of find_map, under the lock of SOCKET_SET. Without a connection a
\* nonblocking call gives up (WouldBlock), a blocking one takes another turn.
AcceptLook(t) ==
    LET queue == entry[pc[t].port].queue
        idx == pc[t].idx
    IN  /\ pc[t].op = "scan"
        /\ IF idx > Len(queue)
           THEN IF pc[t].s \in Nonblocking THEN Return(t)
                ELSE pc' = [pc EXCEPT ![t] = [CallOn(pc[t].s, "accepting") EXCEPT !.port = pc[t].port]]
           ELSE IF is_connected(queue[idx]) THEN Goto(t, "take")
           ELSE pc' = [pc EXCEPT ![t].idx = idx + 1]
        /\ UNCHANGED <<state, handle, local, sockets, entry, curr, calls, leaked, stale>>

get_addr_tuple(h) == sockets[h].addr

new_connected(s, h) ==
    /\ state' = [state EXCEPT ![s] = "CONNECTED"] /\ handle' = [handle EXCEPT ![s] = h]
    /\ local' = [local EXCEPT ![s] = get_addr_tuple(h)]

\* The addresses, read under the lock again, and the new TcpSocket, s: a
\* connection that was reset has none, and unwrap panics.
AcceptTake(t, s) ==
    LET port == pc[t].port
        h == entry[port].queue[pc[t].idx]
    IN  /\ pc[t].op = "take" /\ state[s] = NONE
        /\ IF get_addr_tuple(h) = NONE
           THEN Goto(t, "panic") /\ UNCHANGED <<state, handle, local, entry>>
           ELSE /\ entry' = [entry EXCEPT ![port].queue = swap_remove_front(@, pc[t].idx)]
                /\ new_connected(s, h) /\ Return(t)
        /\ UNCHANGED <<sockets, curr, calls, leaked, stale>>

-----------------------------------------------------------------------------
(* shutdown, and drop, which shuts down and then removes the handle *)

\* The two update_state calls of shutdown, one after the other.
shutdown(t, s) ==
    /\ MayCall(t, s)
    /\ \E drop \in BOOLEAN :
          /\ drop => \A u \in Task : pc[u].s # s
          /\ pc' = [pc EXCEPT ![t] = [CallOn(s, "shutdown") EXCEPT !.drop = drop]]
    /\ UNCHANGED <<state, handle, local, sockets, entry, curr, leaked, stale>>

ShutdownCas(t) ==
    LET s == pc[t].s
    IN  \/ /\ pc[t].op = "shutdown"
           /\ IF state[s] = "CONNECTED"
              THEN state' = [state EXCEPT ![s] = "BUSY"] /\ Goto(t, "close")
              ELSE Goto(t, "shutdown2") /\ UNCHANGED state
           /\ UNCHANGED <<handle, local, sockets, entry, curr, calls, leaked, stale>>
        \/ /\ pc[t].op = "shutdown2"
           /\ IF state[s] = "LISTENING"
              THEN state' = [state EXCEPT ![s] = "BUSY"] /\ Goto(t, "unlisten")
              ELSE Goto(t, "finish") /\ UNCHANGED state
           /\ UNCHANGED <<handle, local, sockets, entry, curr, calls, leaked, stale>>

\* What smoltcp's close makes of a socket.
Closed(st) == IF st = "Established" THEN "Closing" ELSE IF st = "SynSent" THEN "Closed" ELSE st

CloseStream(t) ==
    LET s == pc[t].s
    IN  \/ /\ pc[t].op = "close" /\ Goto(t, "closed")
           /\ sockets' = [sockets EXCEPT ![handle[s]].st = Closed(@)]
           /\ local' = [local EXCEPT ![s] = Unspecified]
           /\ UNCHANGED <<state, handle, entry, curr, calls, leaked, stale>>
        \/ /\ pc[t].op = "closed" /\ Goto(t, "shutdown2")
           /\ state' = [state EXCEPT ![s] = "CLOSED"]
           /\ UNCHANGED <<handle, local, sockets, entry, curr, calls, leaked, stale>>

\* Variant: the connections nobody accepted stay in SOCKET_SET.
UnlistenKeeps(port) ==
    /\ entry' = [p \in Port |-> IF p = port THEN NONE ELSE entry[p]] /\ UNCHANGED sockets

\* Dropping the entry removes the connections nobody accepted; port 0 has none.
unlisten(port) ==
    /\ entry' = [p \in Port |-> IF p = port THEN NONE ELSE entry[p]]
    /\ sockets' = [h \in Handle |-> IF port # 0 /\ h \in Queued(port) THEN NONE ELSE sockets[h]]

CloseListener(t) ==
    LET s == pc[t].s
    IN  \/ /\ pc[t].op = "unlisten"
           /\ local' = [local EXCEPT ![s] = Unspecified]
           /\ pc' = [pc EXCEPT ![t].op = "unlisten2", ![t].port = local[s][2]]
           /\ UNCHANGED <<state, handle, sockets, entry, curr, calls, leaked, stale>>
        \/ /\ pc[t].op = "unlisten2" /\ ~Locked(pc[t].port) /\ Goto(t, "unlistened")
           /\ unlisten(pc[t].port)
           /\ UNCHANGED <<state, handle, local, curr, calls, leaked, stale>>
        \/ /\ pc[t].op = "unlistened" /\ Goto(t, "finish")
           /\ state' = [state EXCEPT ![s] = "CLOSED"]
           /\ UNCHANGED <<handle, local, sockets, entry, curr, calls, leaked, stale>>

Finish(t) ==
    LET s == pc[t].s
    IN  /\ pc[t].op = "finish" /\ Return(t)
        /\ IF pc[t].drop
           THEN /\ state' = [state EXCEPT ![s] = NONE] /\ handle' = [handle EXCEPT ![s] = NONE]
                /\ local' = [local EXCEPT ![s] = Unspecified]
                /\ sockets' = IF handle[s] = NONE THEN sockets
                              ELSE [sockets EXCEPT ![handle[s]] = NONE]
           ELSE UNCHANGED <<state, handle, local, sockets>>
        /\ UNCHANGED <<entry, curr, calls, leaked, stale>>

-----------------------------------------------------------------------------
(* Packets, handled while some task polls the interface *)

\* ListenTable::incoming_tcp_packet for a SYN to this host: a listening socket
\* for the connection, unless the address is another or the queue is full.
incoming_tcp_packet(port) ==
    IF entry[port] # NONE /\ entry[port].addr \in {"any", "host"}
       /\ Len(entry[port].queue) < LISTEN_QUEUE_SIZE /\ Free # {}
    THEN LET h == Least(Free)
         IN  /\ entry' = [entry EXCEPT ![port].queue = Append(@, h)]
             /\ sockets' = [sockets EXCEPT ![h] = Socket("Listen", <<"host", port>>)]
    ELSE UNCHANGED <<entry, sockets>>

\* A SYN, possibly a repeated one: snoop_tcp_packet sees it before smoltcp does.
Syn(port) ==
    /\ ~Locked(port) /\ incoming_tcp_packet(port) /\ entry' # entry
    /\ UNCHANGED <<state, handle, local, curr, pc, calls, leaked, stale>>

\* What packets make of the smoltcp sockets. A connection that is closed by its
\* last segment or an RST has no addresses any more; a reset handshake of a
\* listening socket only starts again.
Packet(h) ==
    /\ sockets[h] # NONE
    /\ \/ /\ sockets[h].st \in {"Listen", "SynSent"}
          /\ sockets' = [sockets EXCEPT ![h].st = "Established"]
       \/ /\ sockets[h].st = "Established"
          /\ sockets' = [sockets EXCEPT ![h].st = "Closing"]
       \/ /\ sockets[h].st \in {"SynSent", "Established", "Closing"}
          /\ sockets' = [sockets EXCEPT ![h] = Socket("Closed", NONE)]
    /\ UNCHANGED <<state, handle, local, entry, curr, pc, calls, leaked, stale>>

\* A panic stops the system.
Panicked == \E t \in Task : pc[t].op = "panic"

Step ==
    \/ \E t \in Task, s \in Sock :
          \/ new(t, s) \/ bind(t, s) \/ connect(t, s) \/ poll(t, s) \/ listen(t, s)
          \/ accept(t, s) \/ AcceptTake(t, s) \/ shutdown(t, s)
    \/ \E t \in Task :
          \/ BindBody(t) \/ ConnectPrepare(t) \/ ConnectBody(t) \/ poll_connect(t)
          \/ ListenPort(t) \/ ListenBody(t) \/ ShutdownCas(t) \/ CloseStream(t)
          \/ CloseListener(t) \/ Finish(t) \/ AcceptPort(t) \/ AcceptLock(t) \/ AcceptLook(t)
    \/ \E port \in Port : Syn(port)
    \/ \E h \in Handle : Packet(h)

Next == ~Panicked /\ Step

Spec == Init /\ [][Next]_vars

-----------------------------------------------------------------------------
(* Properties *)

\* The steps between the two accesses to the state cell in update_state.
Busy == {"bind", "connect", "connect2", "listen", "listen2", "close", "closed",
         "unlisten", "unlisten2", "unlistened"}

\* update_state keeps the other threads out: while one call is between its two
\* accesses to the state cell no other call is, and the state is BUSY; as long
\* as no poll_connect has written over a state it had not read.
BusyExclusive ==
    stale \/ \A t \in Task : pc[t].op \in Busy =>
        /\ state[pc[t].s] = "BUSY"
        /\ \A u \in Task \ {t} : pc[u].s = pc[t].s => pc[u].op \notin Busy

\* Who holds handle h: a socket, the queue of a port, or a connect in progress.
Holders(h) ==
    {s \in Sock : handle[s] = h} \cup {p \in Port : h \in Queued(p)}
    \cup {t \in Task : pc[t].op = "connect2" /\ pc[t].h = h /\ handle[pc[t].s] = NONE}

\* Every socket in SOCKET_SET has one holder, and nobody holds a handle that
\* was removed. The only ones without a holder are those of a connect that
\* failed on a socket without a handle: connect does not remove what it added.
HandlesAccounted ==
    \A h \in Handle :
        Cardinality(Holders(h)) = IF sockets[h] = NONE \/ h \in leaked THEN 0 ELSE 1

\* The table and the sockets agree: a socket that listens has the entry of its
\* port, no two have the same, and an entry without such a socket is being
\* made or taken away; as long as no poll_connect has written over a state it
\* had not read.
ListenersMatchTable ==
    LET Opening == {pc[t].s : t \in {u \in Task : pc[u].op \in Busy \ {"unlisten"}}}
        Listener(p) == {s \in Sock \ Opening : state[s] \in {"LISTENING", "BUSY"} /\ local[s][2] = p}
        Closing(p) == {t \in Task : pc[t].op = "unlisten2" /\ pc[t].port = p}
    IN  stale \/ \A p \in Port :
            Cardinality(Listener(p)) + Cardinality(Closing(p)) = IF entry[p] = NONE THEN 0 ELSE 1

\* accept takes no connection ahead of one that was ready when it began to look
\* and stands before it in the queue, and swap_remove_front leaves the ones
\* that were ready in their order. One that gets ready meanwhile may be passed.
AcceptInOrder ==
    [][\A t \in Task :
          LET port == pc[t].port
              queue == entry[port].queue
              Ready(e) == SelectSeq(e[port].queue, LAMBDA h : h \in pc[t].ready)
          IN  pc[t].op = "take" /\ entry'[port] # entry[port] /\ pc[t].ready # {} =>
                  \/ Ready(entry') = Tail(Ready(entry))
                  \/ /\ Ready(entry') = Ready(entry)
                     /\ \E i, j \in DOMAIN queue :
                           i < j /\ queue[i] \notin Members(entry'[port]) /\ queue[j] = Ready(entry)[1]]_vars
=============================================================================
