------------------------------- MODULE MCNet -------------------------------
(***************************************************************************)
(* The parts of axnet and of the network driver, checked one after the     *)
(* other: the variable part selects the module whose steps are taken.      *)
(***************************************************************************)
EXTENDS Integers, Sequences, FiniteSets

CONSTANTS Parts, NONE, Task, Sock, Handles, PORT_START, PORT_END, LISTEN_QUEUE_SIZE,
          Nonblocking, MaxCalls, LongCalls, StreamTask, RxLen, TxLen, MaxSent,
          UdpTask, Peer, FirstPort, LastPort, RxSlots, TxSlots,
          NetTask, NetOps, QS, CAPACITY, MAX_HEADER, MTU, SPARE

VARIABLES part,
          state, handle, local, sockets, entry, curr, pc, calls, leaked, stale,
          cell, conn, rx, tx, sent, got, ended, at,
          local_addr, peer_addr, connecting, endpoint, rx_buffer, tx_buffer, next_port, doing, shut,
          owner, running, step,
          free_list, rx_buffers, tx_buffers, free_tx_bufs, rx_posted, rx_used, tx_posted, tx_used,
          rx_token, tx_token, panicked

\* TcpSocket twice: full queues in fewer calls, and more calls with a short queue.
BindTo == {<<"any", 0>>, <<"host", 1>>}
Tcp == INSTANCE TcpSocket
TcpLong == INSTANCE TcpSocket WITH MaxCalls <- LongCalls, LISTEN_QUEUE_SIZE <- 1
Stream == INSTANCE TcpStream
Udp == INSTANCE UdpSocket
Locks == INSTANCE NetLocks
Device == INSTANCE NetDevice

tcp == <<state, handle, local, sockets, entry, curr, pc, calls, leaked, stale>>
stream == <<cell, conn, rx, tx, sent, got, ended, at>>
udp == <<local_addr, peer_addr, connecting, endpoint, rx_buffer, tx_buffer, next_port, doing, shut>>
locks == <<owner, running, step>>
device == <<free_list, rx_buffers, tx_buffers, free_tx_bufs, rx_posted, rx_used, tx_posted, tx_used,
            rx_token, tx_token, panicked>>
vars == <<part, tcp, stream, udp, locks, device>>

Init ==
    /\ part \in Parts
    /\ Tcp!Init /\ Stream!Init /\ Udp!Init /\ Locks!Init /\ Device!Init

Next ==
    /\ UNCHANGED part
    /\ \/ /\ \/ part = "tcp" /\ Tcp!Next
             \/ part = "tcp_long" /\ TcpLong!Next
          /\ UNCHANGED <<stream, udp, locks, device>>
       \/ /\ part = "stream" /\ Stream!Next
          /\ UNCHANGED <<tcp, udp, locks, device>>
       \/ /\ part = "udp" /\ Udp!Next
          /\ UNCHANGED <<tcp, stream, locks, device>>
       \/ /\ part = "locks" /\ Locks!Next
          /\ UNCHANGED <<tcp, stream, udp, device>>
       \/ /\ part = "device" /\ Device!Next
          /\ UNCHANGED <<tcp, stream, udp, locks>>

\* A task inside axnet goes on, and a mutex is not kept from a waiting task for
\* ever: axtask schedules every ready task.
Fairness ==
    \A t \in NetTask :
        SF_vars(/\ part = "locks" /\ Locks!Step(t) /\ UNCHANGED part
                /\ UNCHANGED <<tcp, stream, udp, device>>)

Spec == Init /\ [][Next]_vars
FairSpec == Spec /\ Fairness

-----------------------------------------------------------------------------
\* Every socket of SOCKET_SET is held by exactly one of: a TcpSocket, the queue
\* of a listening port, a connect in progress; but for one whose connect failed
\* on a socket without a handle. Unless a poll_connect has written over a state
\* it had not read, LISTEN_TABLE and the sockets that listen agree, and
\* update_state of tcp.rs keeps other threads out of a socket that is BUSY.
SocketsAccounted == Tcp!HandlesAccounted /\ Tcp!ListenersMatchTable /\ Tcp!BusyExclusive

\* accept takes no connection ahead of one that was ready when it began to look,
\* and keeps the order of those.
AcceptInOrder == Tcp!AcceptInOrder

\* recv reports the end of a stream only after all of its data.
EofAfterData == Stream!EofAfterData

\* A connected UDP socket is bound, to the port smoltcp has bound.
ConnectedIsBound == Udp!ConnectedIsBound

\* The locks of axnet deadlock in two ways only: SOCKET_SET and the interface taken
\* in both orders, and the lock of a port and SOCKET_SET. NonblockingReturns shows
\* the second; every other cycle is excluded.
OnlyKnownCycles == Locks!OnlyKnownCycles

\* A nonblocking accept returns: block_on calls the function once.
NonblockingReturns == Locks!NonblockingReturns

\* Every network buffer is in exactly one place of the driver, and a transmit
\* token, once given to smoltcp, can be consumed.
DeviceConserved == Device!BuffersConserved /\ Device!TokensHonoured
=============================================================================
