----------------------------- MODULE UdpSocket -----------------------------
(***************************************************************************)
(* A UDP socket of axnet used by several tasks: its two addresses, each    *)
(* under a read-write lock of its own, and the smoltcp socket (external)   *)
(* they must agree with. bind holds the lock of local_addr throughout, so  *)
(* it is one step; connect holds the lock of peer_addr over two steps.     *)
(***************************************************************************)
EXTENDS Naturals, Sequences

CONSTANTS UdpTask, Peer,
          NONE,
          FirstPort, LastPort,    \* PORT_START, PORT_END of get_ephemeral_port
          RxSlots, TxSlots        \* datagrams the buffers hold

VARIABLES local_addr, peer_addr,  \* NONE, or a port; NONE, or a peer
          connecting,             \* the task that holds peer_addr for writing
          endpoint,               \* the smoltcp socket: bound port or 0,
          rx_buffer, tx_buffer,   \* datagrams received, number to send
          next_port,              \* CURR of get_ephemeral_port
          doing,                  \* per task: the call in progress
          shut                    \* history: shutdown was called

vars == <<local_addr, peer_addr, connecting, endpoint, rx_buffer, tx_buffer, next_port, doing, shut>>

Idle == [op |-> "idle", from |-> NONE]

Init ==
    /\ local_addr = NONE /\ peer_addr = NONE /\ connecting = NONE
    /\ endpoint = 0 /\ rx_buffer = << >> /\ tx_buffer = 0 /\ next_port = FirstPort
    /\ doing = [t \in UdpTask |-> Idle] /\ shut = FALSE

Return(t) == doing' = [doing EXCEPT ![t] = Idle]

get_ephemeral_port == IF next_port = LastPort THEN FirstPort ELSE next_port + 1

\* A bound socket is not bound again (InvalidInput), and smoltcp refuses to
\* bind an open one.
BindPort(port) ==
    IF local_addr = NONE /\ endpoint = 0
    THEN local_addr' = port /\ endpoint' = port
    ELSE UNCHANGED <<local_addr, endpoint>>

\* bind to port 0: a port is used up even when the socket is bound already.
BindAny == next_port' = get_ephemeral_port /\ BindPort(next_port)

bind(t) ==
    /\ doing[t] = Idle
    /\ \/ BindAny
       \/ \E port \in 1..LastPort : BindPort(port) /\ UNCHANGED next_port
    /\ UNCHANGED <<peer_addr, connecting, rx_buffer, tx_buffer, doing, shut>>

\* Variant: the address is set before the socket is bound.
ConnectSetsFirst(t, p) ==
    /\ doing[t] = Idle /\ connecting = NONE /\ connecting' = t /\ peer_addr' = p
    /\ doing' = [doing EXCEPT ![t] = [op |-> IF local_addr = NONE THEN "bind" ELSE "set", from |-> p]]
    /\ UNCHANGED <<local_addr, endpoint, rx_buffer, tx_buffer, next_port, shut>>

\* connect takes the write lock of peer_addr ...
connect(t, p) ==
    /\ doing[t] = Idle /\ connecting = NONE /\ connecting' = t
    /\ doing' = [doing EXCEPT ![t] = [op |-> IF local_addr = NONE THEN "bind" ELSE "set", from |-> p]]
    /\ UNCHANGED <<local_addr, peer_addr, endpoint, rx_buffer, tx_buffer, next_port, shut>>

\* ... binds the socket if it was not bound, which fails if it is by now, and
\* sets the address.
ConnectBody(t) ==
    /\ doing[t].op \in {"bind", "set"} /\ Return(t) /\ connecting' = NONE
    /\ IF doing[t].op = "bind"
       THEN /\ BindAny
            /\ peer_addr' = IF endpoint' # endpoint THEN doing[t].from ELSE peer_addr
       ELSE peer_addr' = doing[t].from /\ UNCHANGED <<local_addr, endpoint, next_port>>
    /\ UNCHANGED <<rx_buffer, tx_buffer, shut>>

\* remote_endpoint uses try_read: during a connect the socket counts as not connected.
remote_endpoint == IF connecting = NONE THEN peer_addr ELSE NONE

\* recv reads the peer once; recv_from and peek_from take any datagram.
Receive(t) ==
    /\ doing[t] = Idle /\ local_addr # NONE
    /\ \E op \in {"recv", "recv_from", "peek_from"} :
          /\ op = "recv" => remote_endpoint # NONE
          /\ doing' = [doing EXCEPT ![t] = [op |-> op, from |-> IF op = "recv" THEN remote_endpoint ELSE NONE]]
    /\ UNCHANGED <<local_addr, peer_addr, connecting, endpoint, rx_buffer, tx_buffer, next_port, shut>>

\* A turn of the loop of recv_impl with a datagram there. recv consumes the
\* datagrams of other peers too and goes on (or returns WouldBlock).
recv_impl(t) ==
    LET op == doing[t].op
        skip == op = "recv" /\ Head(rx_buffer) # doing[t].from
    IN  /\ op \in {"recv", "recv_from", "peek_from"} /\ rx_buffer # << >>
        /\ rx_buffer' = IF op = "peek_from" THEN rx_buffer ELSE Tail(rx_buffer)
        /\ Return(t) \/ (skip /\ UNCHANGED doing)
        /\ UNCHANGED <<local_addr, peer_addr, connecting, endpoint, tx_buffer, next_port, shut>>

\* send and send_to, when the buffer has room; a socket that was shut down has
\* no address to send from (ConnectionRefused).
send_impl(t) ==
    /\ doing[t] = Idle /\ local_addr # NONE /\ endpoint # 0
    /\ tx_buffer < TxSlots /\ tx_buffer' = tx_buffer + 1
    /\ UNCHANGED <<local_addr, peer_addr, connecting, endpoint, rx_buffer, next_port, doing, shut>>

\* smoltcp's close unbinds the socket and empties its buffers; local_addr stays.
shutdown(t) ==
    /\ doing[t] = Idle /\ endpoint' = 0 /\ rx_buffer' = << >> /\ tx_buffer' = 0 /\ shut' = TRUE
    /\ UNCHANGED <<local_addr, peer_addr, connecting, next_port, doing>>

\* The interface sends what is queued.
Transmit ==
    /\ tx_buffer > 0 /\ tx_buffer' = tx_buffer - 1
    /\ UNCHANGED <<local_addr, peer_addr, connecting, endpoint, rx_buffer, next_port, doing, shut>>

\* A datagram; without room it is dropped.
Datagram(p) ==
    /\ endpoint # 0 /\ Len(rx_buffer) < RxSlots /\ rx_buffer' = Append(rx_buffer, p)
    /\ UNCHANGED <<local_addr, peer_addr, connecting, endpoint, tx_buffer, next_port, doing, shut>>

Next ==
    \/ \E t \in UdpTask :
          \/ bind(t) \/ ConnectBody(t) \/ Receive(t) \/ recv_impl(t) \/ send_impl(t) \/ shutdown(t)
          \/ \E p \in Peer : connect(t, p)
    \/ Transmit \/ \E p \in Peer : Datagram(p)

Spec == Init /\ [][Next]_vars

-----------------------------------------------------------------------------
\* A connected socket is bound, and until it is shut down the smoltcp socket is
\* bound to the same port, whatever binds and connects race.
ConnectedIsBound ==
    /\ peer_addr # NONE => local_addr # NONE
    /\ ~shut /\ local_addr # NONE => endpoint = local_addr
=============================================================================
