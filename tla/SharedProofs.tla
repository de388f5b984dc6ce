--------------------------- MODULE SharedProofs -----------------------------
(***************************************************************************)
(* Safety of what tasks share: the mutex of axsync, for any set of tasks;  *)
(* parts of axnet, which takes such mutexes, for any number of tasks and   *)
(* any sizes of buffers, ports and queues; the threads of axstd and of     *)
(* pthread, for any number of threads. Every part but the mutex is an      *)
(* instance of its module, over the variables of the same names; none      *)
(* shares state with another.                                              *)
(***************************************************************************)
EXTENDS AxMutex, TLAPS

\* The provers of a leaf: Zenon first, which is fast where it succeeds.
USE ZenonT(2), SMTT(30), ZenonT(30)

-----------------------------------------------------------------------------
(* The mutex *)

\* The inductive invariant: what the runs check, and that a blocked task is
\* inside lock().
MutexInv == TypeOK /\ MutualExclusion /\ QueueMatchesBlocked /\ BlockedInLock /\ NoLostWakeup

\* A new mutex satisfies the invariant.
LEMMA MutexInit == Init => MutexInv
  BY NoOwnerAssumption DEF Init, MutexInv, TypeOK, Locations, MutualExclusion, QueueMatchesBlocked, InQueue,
         BlockedInLock, NoLostWakeup, is_locked

\* Every step of lock, try_lock and force_unlock keeps it.
LEMMA MutexNext == MutexInv /\ [Next]_vars => MutexInv'
<1> SUFFICES ASSUME MutexInv, [Next]_vars PROVE MutexInv'
  OBVIOUS
<1> USE NoOwnerAssumption DEF MutexInv, TypeOK, Locations, MutualExclusion, QueueMatchesBlocked, InQueue,
            BlockedInLock, NoLostWakeup, is_locked, Goto
<1>1. ASSUME NEW t \in Task, CallLock(t) PROVE MutexInv'
  BY <1>1 DEF CallLock
<1>2. ASSUME NEW t \in Task, CasOk(t) PROVE MutexInv'
  BY <1>2 DEF CasOk
<1>3. ASSUME NEW t \in Task, CasErr(t) PROVE MutexInv'
  BY <1>3 DEF CasErr
<1>4. ASSUME NEW t \in Task, WaitBlock(t) PROVE MutexInv'
  BY <1>4 DEF WaitBlock
<1>5. ASSUME NEW t \in Task, WaitBreak(t) PROVE MutexInv'
  BY <1>5 DEF WaitBreak
<1>6. ASSUME NEW t \in Task, cancel_events(t) PROVE MutexInv'
  \* The flag is down here, so the queue is left alone.
  <2>1. ~in_wait_queue[t] /\ UNCHANGED <<owner_id, wq, in_wait_queue, state>>
    BY <1>6 DEF cancel_events
  <2>2. pc[t] = "cancel" /\ pc' = [pc EXCEPT ![t] = "cas"]
    BY <1>6 DEF cancel_events
  <2> QED
    BY <2>1, <2>2
<1>7. ASSUME NEW t \in Task, try_lock(t) PROVE MutexInv'
  BY <1>7 DEF try_lock
<1>8. ASSUME NEW t \in Task, UnlockSwap(t) PROVE MutexInv'
  BY <1>8 DEF UnlockSwap
<1>9. ASSUME NEW t \in Task, notify_one(t) PROVE MutexInv'
  <2>1. CASE wq = << >>
    BY <1>9, <2>1 DEF notify_one
  <2>2. CASE wq # << >>
    <3>0. PICK h \in Task : h = Head(wq)
      BY <2>2
    <3>1. /\ h = wq[1] /\ h \in Task /\ state[h] = "Blocked" /\ pc[h] = "wait" /\ h # t
          /\ wq' = Tail(wq) /\ Len(wq') = Len(wq) - 1 /\ Len(wq) \in Nat \ {0}
          /\ \A i \in 1..Len(wq') : wq'[i] = wq[i + 1]
      <4>1. wq \in Seq(Task) /\ Len(wq) \in Nat \ {0} /\ h = wq[1] /\ h \in Task
        BY <2>2, <3>0
      <4>2. InQueue(h)
        <5>1. 1 \in 1..Len(wq) /\ wq[1] = h
          BY <4>1
        <5> QED BY <5>1
      <4>3. state[h] = "Blocked" /\ pc[h] = "wait" /\ h # t
        BY <1>9, <4>1, <4>2 DEF notify_one
      <4>4. wq' = Tail(wq)
        BY <1>9, <2>2 DEF notify_one
      <4> QED BY <4>1, <4>3, <4>4
    <3>2. /\ in_wait_queue' = [in_wait_queue EXCEPT ![h] = FALSE]
          /\ state' = [state EXCEPT ![h] = "Runnable"]
          /\ pc' = [pc EXCEPT ![t] = "idle"]
          /\ owner_id' = owner_id
      BY <1>9, <2>2, <3>0 DEF notify_one
    <3>3. TypeOK' /\ MutualExclusion' /\ BlockedInLock'
      BY <3>1, <3>2, <1>9 DEF notify_one
    <3>4. ASSUME NEW u \in Task, u # h PROVE InQueue(u)' <=> InQueue(u)
      <4>1. ASSUME NEW i \in 1..Len(wq), wq[i] = u PROVE InQueue(u)'
        <5>1. i - 1 \in 1..Len(wq') /\ wq'[i - 1] = u
          BY <3>1, <3>4, <4>1
        <5> QED BY <5>1
      <4>2. ASSUME NEW i \in 1..Len(wq'), wq'[i] = u PROVE InQueue(u)
        BY <3>1, <4>2
      <4> QED BY <4>1, <4>2
    <3>5. ~InQueue(h)'
      <4> SUFFICES ASSUME NEW i \in 1..Len(wq'), wq'[i] = h PROVE FALSE
        OBVIOUS
      <4>1. i + 1 \in 1..Len(wq) /\ 1 \in 1..Len(wq) /\ wq[i + 1] = wq[1]
        BY <3>1
      <4>2. i + 1 = 1
        BY <4>1
      <4> QED BY <4>2
    <3>6. QueueMatchesBlocked'
      <4>1. \A u \in Task : InQueue(u)' <=> (state'[u] = "Blocked")
        BY <3>2, <3>4, <3>5
      <4>2. \A u \in Task : in_wait_queue'[u] <=> (state'[u] = "Blocked")
        BY <3>2, <3>1
      <4>3. \A i, j \in 1..Len(wq') : wq'[i] = wq'[j] => i = j
        BY <3>1
      <4> QED BY <4>1, <4>2, <4>3
    <3>7. NoLostWakeup'
      BY <3>1, <3>2
    <3> QED BY <3>3, <3>6, <3>7
  <2> QED BY <2>1, <2>2
<1>10. CASE UNCHANGED vars
  BY <1>10 DEF vars
<1> QED
  BY <1>1, <1>2, <1>3, <1>4, <1>5, <1>6, <1>7, <1>8, <1>9, <1>10
  DEF Next, lock, force_unlock

\* For any set of tasks: the mutex is held by at most one task at a time, the
\* assertions of mutex.rs never fail, and its queue holds the blocked tasks.
THEOREM MutexSafety == Spec => [](TypeOK /\ MutualExclusion /\ QueueMatchesBlocked)
<1>1. MutexInv => TypeOK /\ MutualExclusion /\ QueueMatchesBlocked
  BY DEF MutexInv
<1> QED BY MutexInit, MutexNext, <1>1, PTL DEF Spec

\* For any set of tasks, no sleeper is left behind when the mutex is free: some
\* task is about to notify the queue or to take the mutex.
THEOREM MutexWakeups == Spec => []NoLostWakeup
<1>1. MutexInv => NoLostWakeup
  BY DEF MutexInv
<1> QED BY MutexInit, MutexNext, <1>1, PTL DEF Spec

\* For any set of tasks, every behaviour of lock, try_lock and unlock is a
\* behaviour of the abstract mutex (its safety part).
THEOREM MutexRefinement == Spec => Abs!SafeSpec
<1>1. Init => Abs!Init
  BY DEF Init, Abs!Init
<1>2. MutexInv /\ [Next]_vars => [Abs!Next]_Abs!vars
  <2> SUFFICES ASSUME MutexInv, [Next]_vars PROVE [Abs!Next]_Abs!vars
    OBVIOUS
  <2> USE NoOwnerAssumption DEF MutexInv, TypeOK, Locations, MutualExclusion, is_locked, Goto, Abs!vars
  <2>1. ASSUME NEW t \in Task, CallLock(t) PROVE Abs!Request(t)
    BY <2>1 DEF CallLock, Abs!Request
  <2>2. ASSUME NEW t \in Task, CasOk(t) PROVE Abs!Acquire(t)
    BY <2>2 DEF CasOk, Abs!Acquire
  <2>3. ASSUME NEW t \in Task, CasErr(t) \/ WaitBlock(t) \/ WaitBreak(t) \/ cancel_events(t)
        PROVE UNCHANGED Abs!vars
    BY <2>3 DEF CasErr, WaitBlock, WaitBreak, cancel_events
  <2>4. ASSUME NEW t \in Task, try_lock(t) PROVE Abs!TryAcquire(t) \/ UNCHANGED Abs!vars
    BY <2>4 DEF try_lock, Abs!TryAcquire
  <2>5. ASSUME NEW t \in Task, UnlockSwap(t) PROVE Abs!Release(t)
    BY <2>5 DEF UnlockSwap, Abs!Release
  <2>6. ASSUME NEW t \in Task, notify_one(t) PROVE UNCHANGED Abs!vars
    BY <2>6 DEF notify_one
  <2>7. CASE UNCHANGED vars
    BY <2>7 DEF vars
  <2> QED
    BY <2>1, <2>2, <2>3, <2>4, <2>5, <2>6, <2>7 DEF Next, lock, force_unlock, Abs!Next
<1> QED
  BY MutexInit, MutexNext, <1>1, <1>2, PTL DEF Spec, Abs!SafeSpec

-----------------------------------------------------------------------------
CONSTANTS NONE, StreamTask, RxLen, TxLen, MaxSent,
          UdpTask, Peer, FirstPort, LastPort, RxSlots, TxSlots,
          NetTask, NetOps

VARIABLES cell, conn, rx, tx, sent, got, eof, at,
          local_addr, peer_addr, connecting, endpoint, rx_buffer, tx_buffer, next_port, doing, shut,
          owner, running, step

Stream == INSTANCE TcpStream WITH ended <- eof
Udp == INSTANCE UdpSocket
Locks == INSTANCE NetLocks

(* recv reports the end of a stream after its data *)

\* What the peer sent is what recv returned and what is in the buffer; once an
\* end was reported, the buffer is empty and the peer can send no more.
StreamInv ==
    /\ rx \in Nat /\ got \in Nat /\ sent = got + rx
    /\ eof => rx = 0 /\ conn \notin {"Established", "FinWait"}

\* A connection just established satisfies the invariant.
LEMMA StreamInit == Stream!Init => StreamInv
BY DEF Stream!Init, StreamInv

\* Every call and every segment keeps it.
LEMMA StreamNext == StreamInv /\ [Stream!Next]_Stream!vars => StreamInv'
<1> SUFFICES ASSUME StreamInv, [Stream!Next]_Stream!vars PROVE StreamInv'
  OBVIOUS
<1> USE DEF StreamInv
<1>1. CASE Stream!Remote
  BY <1>1 DEF Stream!Remote
<1>2. ASSUME NEW t \in StreamTask, Stream!Call(t) PROVE StreamInv'
  BY <1>2 DEF Stream!Call
<1>3. ASSUME NEW t \in StreamTask, Stream!recv(t) PROVE StreamInv'
  <2>1. UNCHANGED <<conn, sent>>
    BY <1>3 DEF Stream!recv
  <2>2. CASE UNCHANGED <<rx, got, eof>>
    BY <2>1, <2>2
  <2>3. CASE eof' = TRUE /\ ~Stream!may_recv /\ UNCHANGED <<rx, got>>
    BY <2>1, <2>3 DEF Stream!may_recv
  <2>4. CASE /\ \E len \in 1..RxLen : LET n == IF len < rx THEN len ELSE rx
                                      IN  rx' = rx - n /\ got' = got + n /\ UNCHANGED eof
             /\ Stream!may_recv
    BY <2>1, <2>4 DEF Stream!may_recv
  <2> QED BY <1>3, <2>2, <2>3, <2>4 DEF Stream!recv
<1>4. ASSUME NEW t \in StreamTask, Stream!send(t) PROVE StreamInv'
  BY <1>4 DEF Stream!send
<1>5. ASSUME NEW t \in StreamTask, Stream!shutdown(t) PROVE StreamInv'
  BY <1>5 DEF Stream!shutdown
<1>6. CASE UNCHANGED Stream!vars
  BY <1>6 DEF Stream!vars
<1> QED BY <1>1, <1>2, <1>3, <1>4, <1>5, <1>6 DEF Stream!Next

\* For any number of tasks that read, write and shut down one connection, and
\* any sizes of its buffers: recv of tcp.rs returns Ok(0) only after it has
\* returned every byte the peer sent.
THEOREM StreamSafety == Stream!Spec => []Stream!EofAfterData
<1>1. StreamInv => Stream!EofAfterData
  BY DEF StreamInv, Stream!EofAfterData
<1> QED BY StreamInit, StreamNext, <1>1, PTL DEF Stream!Spec

-----------------------------------------------------------------------------
(* A connected UDP socket is bound *)

\* The ports of get_ephemeral_port are positive, so none is the port of an
\* unbound smoltcp socket.
PortsAssumption == FirstPort \in Nat \ {0} /\ LastPort \in Nat /\ FirstPort <= LastPort /\ NONE \notin Nat

UdpOps == {"idle", "bind", "set", "recv", "recv_from", "peek_from"}

\* A connect that found the socket bound finds it bound later; a socket without
\* a local address is unbound in smoltcp as well.
UdpInv ==
    /\ next_port \in FirstPort..LastPort
    /\ local_addr # NONE => local_addr \in 1..LastPort
    /\ local_addr = NONE => endpoint = 0 /\ peer_addr = NONE
    /\ \A t \in UdpTask : doing[t].op = "set" => local_addr # NONE
    /\ peer_addr \in Peer \cup {NONE} /\ doing \in [UdpTask -> [op : UdpOps, from : Peer \cup {NONE}]]
    /\ ~shut /\ local_addr # NONE => endpoint = local_addr

\* A socket just created satisfies the invariant.
LEMMA UdpInit ==
    ASSUME PortsAssumption PROVE Udp!Init => UdpInv
BY DEF UdpOps, PortsAssumption, Udp!Init, Udp!Idle, UdpInv, UdpOps

\* A bind, also the one inside connect, gives both addresses the same port or
\* changes neither.
LEMMA PortFacts ==
    ASSUME PortsAssumption, UdpInv, NEW port \in 1..LastPort, Udp!BindPort(port)
    PROVE  \/ /\ local_addr = NONE /\ endpoint = 0
              /\ local_addr' \in 1..LastPort /\ endpoint' = local_addr' /\ endpoint' # endpoint
           \/ local_addr # NONE /\ UNCHANGED <<local_addr, endpoint>>
BY DEF PortsAssumption, UdpInv, Udp!BindPort

\* The same for a bind to port 0, which moves on to the next port.
LEMMA BindFacts ==
    ASSUME PortsAssumption, UdpInv, Udp!BindAny
    PROVE  /\ next_port' \in FirstPort..LastPort
           /\ \/ /\ local_addr = NONE /\ endpoint = 0
                 /\ local_addr' \in 1..LastPort /\ endpoint' = local_addr' /\ endpoint' # endpoint
              \/ local_addr # NONE /\ UNCHANGED <<local_addr, endpoint>>
<1>1. next_port \in 1..LastPort /\ next_port' \in FirstPort..LastPort
  BY DEF PortsAssumption, UdpInv, Udp!BindAny, Udp!get_ephemeral_port
<1> QED BY <1>1, PortFacts DEF Udp!BindAny

\* Every call keeps the invariant, whatever calls are in progress.
LEMMA UdpNext ==
    ASSUME PortsAssumption PROVE UdpInv /\ [Udp!Next]_Udp!vars => UdpInv'
<1> SUFFICES ASSUME UdpInv, [Udp!Next]_Udp!vars PROVE UdpInv'
  OBVIOUS
<1>0. NONE \notin 1..LastPort
  BY DEF PortsAssumption
<1>1. ASSUME NEW t \in UdpTask, Udp!bind(t) PROVE UdpInv'
  <2>1. CASE Udp!BindAny
    BY <1>0, <1>1, <2>1, BindFacts DEF Udp!bind, UdpInv
  <2>2. ASSUME NEW port \in 1..LastPort, Udp!BindPort(port), UNCHANGED next_port PROVE UdpInv'
    BY <1>0, <1>1, <2>2, PortFacts DEF Udp!bind, UdpInv
  <2> QED BY <1>1, <2>1, <2>2 DEF Udp!bind
<1>2. ASSUME NEW t \in UdpTask, NEW p \in Peer, Udp!connect(t, p) PROVE UdpInv'
  BY <1>0, <1>2 DEF Udp!connect, UdpInv, UdpOps
<1>3. ASSUME NEW t \in UdpTask, Udp!ConnectBody(t) PROVE UdpInv'
  <2>1. doing' = [doing EXCEPT ![t] = Udp!Idle] /\ UNCHANGED shut
    BY <1>3 DEF Udp!ConnectBody, Udp!Return
  <2>2. doing' \in [UdpTask -> [op : UdpOps, from : Peer \cup {NONE}]]
    BY <2>1 DEF Udp!Idle, UdpInv, UdpOps
  <2>3. \A u \in UdpTask : doing'[u].op = "set" => doing[u].op = "set"
    BY <2>1 DEF Udp!Idle, UdpInv, UdpOps
  <2>4. CASE doing[t].op = "bind"
    <3>1. Udp!BindAny /\ peer_addr' = IF endpoint' # endpoint THEN doing[t].from ELSE peer_addr
      BY <1>3, <2>4 DEF Udp!ConnectBody
    <3> QED BY <1>0, <2>1, <2>2, <2>3, <3>1, BindFacts DEF UdpInv
  <2>5. CASE doing[t].op = "set"
    <3>1. peer_addr' = doing[t].from /\ UNCHANGED <<local_addr, endpoint, next_port>>
      BY <1>3, <2>5 DEF Udp!ConnectBody
    <3> QED BY <2>1, <2>2, <2>3, <2>5, <3>1 DEF UdpInv
  <2> QED BY <1>3, <2>4, <2>5 DEF Udp!ConnectBody
<1>4. ASSUME NEW t \in UdpTask, Udp!Receive(t) PROVE UdpInv'
  BY <1>4 DEF Udp!Receive, Udp!remote_endpoint, UdpInv, UdpOps
<1>5. ASSUME NEW t \in UdpTask, Udp!recv_impl(t) PROVE UdpInv'
  BY <1>5 DEF Udp!recv_impl, Udp!Return, Udp!Idle, UdpInv, UdpOps
<1>6. ASSUME NEW t \in UdpTask, Udp!send_impl(t) PROVE UdpInv'
  BY <1>6 DEF Udp!send_impl, UdpInv
<1>7. ASSUME NEW t \in UdpTask, Udp!shutdown(t) PROVE UdpInv'
  BY <1>7 DEF Udp!shutdown, UdpInv
<1>8. CASE Udp!Transmit
  BY <1>8 DEF Udp!Transmit, UdpInv
<1>9. ASSUME NEW p \in Peer, Udp!Datagram(p) PROVE UdpInv'
  BY <1>9 DEF Udp!Datagram, UdpInv
<1>10. CASE UNCHANGED Udp!vars
  BY <1>10 DEF Udp!vars, UdpInv
<1> QED BY <1>1, <1>2, <1>3, <1>4, <1>5, <1>6, <1>7, <1>8, <1>9, <1>10 DEF Udp!Next

\* For any number of tasks that bind, connect, receive, send and shut down one
\* UDP socket, and any range of ports: a connected socket is bound, and until
\* it is shut down to the port smoltcp has bound.
THEOREM UdpSafety ==
    ASSUME PortsAssumption PROVE Udp!Spec => []Udp!ConnectedIsBound
<1>1. UdpInv => Udp!ConnectedIsBound
  BY DEF UdpInv, Udp!ConnectedIsBound
<1> QED BY UdpInit, UdpNext, <1>1, PTL DEF Udp!Spec
-----------------------------------------------------------------------------
(* The order of the locks of axnet *)

\* The calls of the model; NONE is neither a call nor a task.
Calls == {"poll", "poll_syn", "transfer", "connect", "query", "listen", "accept", "can_accept",
          "unlisten"}
CallsAssumption == NetOps \subseteq Calls /\ NONE \notin Calls /\ NONE \notin NetTask

\* The locks a call holds before each of its steps, and at its end.
Holding(op) ==
    CASE op = "poll" -> <<{}, {"dev"}, {"dev", "iface"}, {"dev", "iface", "sockets"},
                          {"dev", "iface"}, {"dev"}, {}>>
      [] op = "poll_syn" -> <<{}, {"dev"}, {"dev", "iface"}, {"dev", "iface", "sockets"},
                              {"dev", "iface", "sockets", "port"}, {"dev", "iface", "sockets"},
                              {"dev", "iface"}, {"dev"}, {}>>
      [] op = "transfer" -> <<{}, {"sockets"}, {}>>
      [] op = "connect" -> <<{}, {"sockets"}, {}, {"curr"}, {"curr", "port"}, {"curr"}, {},
                             {"sockets"}, {"sockets", "iface"}, {"sockets"}, {}>>
      [] op = "query" -> <<{}, {"sockets"}, {}, {"sockets"}, {"sockets", "iface"}, {"sockets"},
                           {}, {"dev"}, {"dev", "iface"}, {"dev", "iface", "sockets"},
                           {"dev", "iface"}, {"dev"}, {}, {"sockets"}, {}>>
      [] op = "listen" -> <<{}, {"curr"}, {"curr", "port"}, {"curr"}, {}, {"port"}, {}>>
      [] op = "accept" -> <<{}, {"port"}, {"port", "sockets"}, {"port"}, {"port", "sockets"},
                            {"port"}, {}>>
      [] op = "can_accept" -> <<{}, {"port"}, {"port", "sockets"}, {"port"}, {}>>
      [] op = "unlisten" -> <<{}, {"port"}, {"port", "sockets"}, {"port"}, {}>>

\* What is held when a lock is taken: nothing, or the locks of one of six places.
Nested(H, l) ==
    \/ H = {} /\ l # "iface"
    \/ H = {"dev"} /\ l = "iface"
    \/ H = {"dev", "iface"} /\ l = "sockets"
    \/ H = {"dev", "iface", "sockets"} /\ l = "port"
    \/ H = {"sockets"} /\ l = "iface"
    \/ H = {"curr"} /\ l = "port"
    \/ H = {"port"} /\ l = "sockets"

\* What the proof needs to know about a call with the script s that holds h[k]
\* before step k.
GoodScript(s, h) ==
    /\ Len(s) \in Nat \ {0} /\ h[1] = {} /\ h[Len(s) + 1] = {}
    /\ \A k \in 1..Len(s) :
          /\ s[k][1] \in {"+", "-"} /\ s[k][2] \in Locks!Lock
          /\ s[k][1] = "+" => h[k + 1] = h[k] \cup {s[k][2]} /\ Nested(h[k], s[k][2])
          /\ s[k][1] = "-" => s[k][2] \in h[k] /\ h[k + 1] = h[k] \ {s[k][2]}

Up(l) == <<"+", l>>
Down(l) == <<"-", l>>

\* Every call of axnet releases what it took, and nests the locks in one of these
\* ways.
LEMMA Scripts ==
    ASSUME NEW op \in Calls
    PROVE  GoodScript(Locks!Script(op), Holding(op))
<1> USE DEF Nested, Locks!Lock
<1>1. CASE op = "poll"
  <2> DEFINE s == Locks!Script("poll")
             h == Holding("poll")
  <2>1. /\ Len(s) = 6
        /\ s[1] = Up("dev") /\ s[2] = Up("iface") /\ s[3] = Up("sockets")
        /\ s[4] = Down("sockets") /\ s[5] = Down("iface") /\ s[6] = Down("dev")
    BY DEF Locks!Script, Locks!Poll, Locks!Inside, Up, Down
  <2>2. /\ h[1] = {} /\ h[2] = {"dev"} /\ h[3] = {"dev", "iface"}
        /\ h[4] = {"dev", "iface", "sockets"} /\ h[5] = {"dev", "iface"} /\ h[6] = {"dev"}
        /\ h[7] = {}
    BY DEF Holding
  <2> HIDE DEF s, h
  <2>3. GoodScript(s, h)
    BY <2>1, <2>2 DEF GoodScript, Up, Down
  <2> QED BY <1>1, <2>3 DEF s, h
<1>2. CASE op = "poll_syn"
  <2> DEFINE s == Locks!Script("poll_syn")
             h == Holding("poll_syn")
  <2>1. /\ Len(s) = 8
        /\ s[1] = Up("dev") /\ s[2] = Up("iface") /\ s[3] = Up("sockets")
        /\ s[4] = Up("port") /\ s[5] = Down("port") /\ s[6] = Down("sockets")
        /\ s[7] = Down("iface") /\ s[8] = Down("dev")
    BY DEF Locks!Script, Locks!Poll, Locks!incoming_tcp_packet, Locks!Locked, Locks!Inside, Up, Down
  <2>2. /\ h[1] = {} /\ h[2] = {"dev"} /\ h[3] = {"dev", "iface"}
        /\ h[4] = {"dev", "iface", "sockets"} /\ h[5] = {"dev", "iface", "sockets", "port"}
        /\ h[6] = {"dev", "iface", "sockets"} /\ h[7] = {"dev", "iface"} /\ h[8] = {"dev"}
        /\ h[9] = {}
    BY DEF Holding
  <2> HIDE DEF s, h
  <2>3. GoodScript(s, h)
    BY <2>1, <2>2 DEF GoodScript, Up, Down
  <2> QED BY <1>2, <2>3 DEF s, h
<1>3. CASE op = "transfer"
  <2> DEFINE s == Locks!Script("transfer")
             h == Holding("transfer")
  <2>1. /\ Len(s) = 2
        /\ s[1] = Up("sockets") /\ s[2] = Down("sockets")
    BY DEF Locks!Script, Locks!with_socket, Locks!Locked, Locks!Inside, Up, Down
  <2>2. /\ h[1] = {} /\ h[2] = {"sockets"} /\ h[3] = {}
    BY DEF Holding
  <2> HIDE DEF s, h
  <2>3. GoodScript(s, h)
    BY <2>1, <2>2 DEF GoodScript, Up, Down
  <2> QED BY <1>3, <2>3 DEF s, h
<1>4. CASE op = "connect"
  <2> DEFINE s == Locks!Script("connect")
             h == Holding("connect")
  <2>1. /\ Len(s) = 10
        /\ s[1] = Up("sockets") /\ s[2] = Down("sockets") /\ s[3] = Up("curr")
        /\ s[4] = Up("port") /\ s[5] = Down("port") /\ s[6] = Down("curr")
        /\ s[7] = Up("sockets") /\ s[8] = Up("iface") /\ s[9] = Down("iface")
        /\ s[10] = Down("sockets")
    BY DEF Locks!Script, Locks!connect, Locks!with_socket, Locks!get_ephemeral_port, Locks!Locked, Locks!Inside, Up, Down
  <2>2. /\ h[1] = {} /\ h[2] = {"sockets"} /\ h[3] = {} /\ h[4] = {"curr"}
        /\ h[5] = {"curr", "port"} /\ h[6] = {"curr"} /\ h[7] = {} /\ h[8] = {"sockets"}
        /\ h[9] = {"sockets", "iface"} /\ h[10] = {"sockets"} /\ h[11] = {}
    BY DEF Holding
  <2> HIDE DEF s, h
  <2>3. GoodScript(s, h)
    BY <2>1, <2>2 DEF GoodScript, Up, Down
  <2> QED BY <1>4, <2>3 DEF s, h
<1>5. CASE op = "query"
  <2> DEFINE s == Locks!Script("query")
             h == Holding("query")
  <2>1. /\ Len(s) = 14
        /\ s[1] = Up("sockets") /\ s[2] = Down("sockets") /\ s[3] = Up("sockets")
        /\ s[4] = Up("iface") /\ s[5] = Down("iface") /\ s[6] = Down("sockets")
        /\ s[7] = Up("dev") /\ s[8] = Up("iface") /\ s[9] = Up("sockets")
        /\ s[10] = Down("sockets") /\ s[11] = Down("iface") /\ s[12] = Down("dev")
        /\ s[13] = Up("sockets") /\ s[14] = Down("sockets")
    BY DEF Locks!Script, Locks!query, Locks!with_socket, Locks!Poll, Locks!Locked, Locks!Inside, Up, Down
  <2>2. /\ h[1] = {} /\ h[2] = {"sockets"} /\ h[3] = {} /\ h[4] = {"sockets"}
        /\ h[5] = {"sockets", "iface"} /\ h[6] = {"sockets"} /\ h[7] = {} /\ h[8] = {"dev"}
        /\ h[9] = {"dev", "iface"} /\ h[10] = {"dev", "iface", "sockets"}
        /\ h[11] = {"dev", "iface"} /\ h[12] = {"dev"} /\ h[13] = {} /\ h[14] = {"sockets"}
        /\ h[15] = {}
    BY DEF Holding
  <2> HIDE DEF s, h
  <2>3. GoodScript(s, h)
    BY <2>1, <2>2 DEF GoodScript, Up, Down
  <2> QED BY <1>5, <2>3 DEF s, h
<1>6. CASE op = "listen"
  <2> DEFINE s == Locks!Script("listen")
             h == Holding("listen")
  <2>1. /\ Len(s) = 6
        /\ s[1] = Up("curr") /\ s[2] = Up("port") /\ s[3] = Down("port")
        /\ s[4] = Down("curr") /\ s[5] = Up("port") /\ s[6] = Down("port")
    BY DEF Locks!Script, Locks!listen, Locks!get_ephemeral_port, Locks!Locked, Locks!Inside, Up, Down
  <2>2. /\ h[1] = {} /\ h[2] = {"curr"} /\ h[3] = {"curr", "port"} /\ h[4] = {"curr"}
        /\ h[5] = {} /\ h[6] = {"port"} /\ h[7] = {}
    BY DEF Holding
  <2> HIDE DEF s, h
  <2>3. GoodScript(s, h)
    BY <2>1, <2>2 DEF GoodScript, Up, Down
  <2> QED BY <1>6, <2>3 DEF s, h
<1>7. CASE op = "accept"
  <2> DEFINE s == Locks!Script("accept")
             h == Holding("accept")
  <2>1. /\ Len(s) = 6
        /\ s[1] = Up("port") /\ s[2] = Up("sockets") /\ s[3] = Down("sockets")
        /\ s[4] = Up("sockets") /\ s[5] = Down("sockets") /\ s[6] = Down("port")
    BY DEF Locks!Script, Locks!accept, Locks!with_socket, Locks!Locked, Locks!Inside, Up, Down
  <2>2. /\ h[1] = {} /\ h[2] = {"port"} /\ h[3] = {"port", "sockets"} /\ h[4] = {"port"}
        /\ h[5] = {"port", "sockets"} /\ h[6] = {"port"} /\ h[7] = {}
    BY DEF Holding
  <2> HIDE DEF s, h
  <2>3. GoodScript(s, h)
    BY <2>1, <2>2 DEF GoodScript, Up, Down
  <2> QED BY <1>7, <2>3 DEF s, h
<1>8. CASE op = "can_accept"
  <2> DEFINE s == Locks!Script("can_accept")
             h == Holding("can_accept")
  <2>1. /\ Len(s) = 4
        /\ s[1] = Up("port") /\ s[2] = Up("sockets") /\ s[3] = Down("sockets")
        /\ s[4] = Down("port")
    BY DEF Locks!Script, Locks!can_accept, Locks!with_socket, Locks!Locked, Locks!Inside, Up, Down
  <2>2. /\ h[1] = {} /\ h[2] = {"port"} /\ h[3] = {"port", "sockets"} /\ h[4] = {"port"}
        /\ h[5] = {}
    BY DEF Holding
  <2> HIDE DEF s, h
  <2>3. GoodScript(s, h)
    BY <2>1, <2>2 DEF GoodScript, Up, Down
  <2> QED BY <1>8, <2>3 DEF s, h
<1>9. CASE op = "unlisten"
  <2> DEFINE s == Locks!Script("unlisten")
             h == Holding("unlisten")
  <2>1. /\ Len(s) = 4
        /\ s[1] = Up("port") /\ s[2] = Up("sockets") /\ s[3] = Down("sockets")
        /\ s[4] = Down("port")
    BY DEF Locks!Script, Locks!unlisten, Locks!with_socket, Locks!Locked, Locks!Inside, Up, Down
  <2>2. /\ h[1] = {} /\ h[2] = {"port"} /\ h[3] = {"port", "sockets"} /\ h[4] = {"port"}
        /\ h[5] = {}
    BY DEF Holding
  <2> HIDE DEF s, h
  <2>3. GoodScript(s, h)
    BY <2>1, <2>2 DEF GoodScript, Up, Down
  <2> QED BY <1>9, <2>3 DEF s, h
<1> QED BY <1>1, <1>2, <1>3, <1>4, <1>5, <1>6, <1>7, <1>8, <1>9 DEF Calls
\* A task owns exactly the locks its call holds at the step where it is.
LocksInv ==
    /\ owner \in [Locks!Lock -> NetTask \cup {NONE}] /\ running \in [NetTask -> Calls \cup {NONE}]
    /\ step \in [NetTask -> Nat]
    /\ \A t \in NetTask : IF running[t] = NONE THEN step[t] = 1
                          ELSE step[t] \in 1..Len(Locks!Script(running[t]))
    /\ \A t \in NetTask, l \in Locks!Lock :
          owner[l] = t <=> running[t] # NONE /\ l \in Holding(running[t])[step[t]]

\* At the start every lock is free.
LEMMA LocksInit ==
    ASSUME CallsAssumption PROVE Locks!Init => LocksInv
BY DEF CallsAssumption, Locks!Init, LocksInv

\* Taking and releasing a lock, and starting and ending a call, keep the
\* invariant.
LEMMA LocksNext ==
    ASSUME CallsAssumption PROVE LocksInv /\ [Locks!Next]_Locks!vars => LocksInv'
<1> SUFFICES ASSUME LocksInv, [Locks!Next]_Locks!vars PROVE LocksInv'
  OBVIOUS
<1>1. ASSUME NEW t \in NetTask, NEW op \in NetOps, Locks!Call(t, op) PROVE LocksInv'
  <2>1. /\ op \in Calls /\ op # NONE /\ running[t] = NONE /\ step[t] = 1
        /\ running' = [running EXCEPT ![t] = op] /\ UNCHANGED <<owner, step>>
    BY <1>1 DEF Locks!Call, CallsAssumption, LocksInv
  <2>2. 1 \in 1..Len(Locks!Script(op)) /\ Holding(op)[1] = {}
    BY <2>1, Scripts DEF GoodScript
  <2> QED BY <2>1, <2>2 DEF LocksInv
<1>2. ASSUME NEW t \in NetTask, Locks!Step(t) PROVE LocksInv'
  <2> DEFINE op == running[t]
             s == Locks!Script(op)
             h == Holding(op)
             k == step[t]
             a == s[k][1]
             m == s[k][2]
             last == k = Len(s)
  <2>1. /\ op # NONE /\ op \in Calls /\ k \in 1..Len(s) /\ GoodScript(s, h)
    BY <1>2, Scripts DEF Locks!Step, LocksInv
  <2>2. /\ a = "+" => owner[m] = NONE
        /\ owner' = [owner EXCEPT ![m] = IF a = "+" THEN t ELSE NONE]
        /\ step' = [step EXCEPT ![t] = IF last THEN 1 ELSE k + 1]
        /\ running' = IF last THEN [running EXCEPT ![t] = NONE] ELSE running
    BY <1>2 DEF Locks!Step, Locks!Waits, Locks!NextLock
  <2>3. /\ a \in {"+", "-"} /\ m \in Locks!Lock /\ Len(s) \in Nat /\ h[1] = {} /\ h[Len(s) + 1] = {}
        /\ a = "+" => h[k + 1] = h[k] \cup {m}
        /\ a = "-" => m \in h[k] /\ h[k + 1] = h[k] \ {m}
    BY <2>1 DEF GoodScript
  <2>4. /\ \A l \in Locks!Lock : owner[l] = t <=> l \in h[k]
        /\ \A u \in NetTask, l \in Locks!Lock :
              owner[l] = u <=> running[u] # NONE /\ l \in Holding(running[u])[step[u]]
        /\ owner \in [Locks!Lock -> NetTask \cup {NONE}] /\ running \in [NetTask -> Calls \cup {NONE}]
        /\ step \in [NetTask -> Nat] /\ NONE \notin NetTask
        /\ \A u \in NetTask : IF running[u] = NONE THEN step[u] = 1
                              ELSE step[u] \in 1..Len(Locks!Script(running[u]))
    BY <2>1 DEF LocksInv, CallsAssumption
  <2> HIDE DEF s, h, a, m
  <2>5. \A l \in Locks!Lock : owner'[l] = t <=> l \in h[k + 1]
    BY <2>2, <2>3, <2>4
  <2>6. \A u \in NetTask \ {t}, l \in Locks!Lock : owner'[l] = u <=> owner[l] = u
    BY <2>2, <2>3, <2>4
  <2>7. owner' \in [Locks!Lock -> NetTask \cup {NONE}]
    BY <2>2, <2>3, <2>4
  <2>8. \A u \in NetTask \ {t} : running'[u] = running[u] /\ step'[u] = step[u]
    BY <2>2, <2>4
  <2>9. running' \in [NetTask -> Calls \cup {NONE}] /\ step' \in [NetTask -> Nat]
    BY <2>2, <2>4
  <2>10. CASE last
    <3>1. running'[t] = NONE /\ step'[t] = 1
      BY <2>2, <2>4, <2>10
    <3>2. h[k + 1] = {}
      BY <2>3, <2>10
    <3>3. \A l \in Locks!Lock : owner'[l] # t
      BY <2>5, <3>2
    <3> QED BY <2>4, <2>6, <2>7, <2>8, <2>9, <3>1, <3>3 DEF LocksInv
  <2>11. CASE ~last
    <3>1. /\ running'[t] = op /\ step'[t] = k + 1 /\ k + 1 \in 1..Len(s)
          /\ \A l \in Locks!Lock : owner'[l] = t <=> l \in Holding(op)[k + 1]
      BY <2>1, <2>2, <2>3, <2>4, <2>5, <2>11 DEF h
    <3>2. \A u \in NetTask : IF running'[u] = NONE THEN step'[u] = 1
                            ELSE step'[u] \in 1..Len(Locks!Script(running'[u]))
      BY <2>1, <2>4, <2>8, <3>1 DEF s
    <3>3. \A u \in NetTask, l \in Locks!Lock :
            owner'[l] = u <=> running'[u] # NONE /\ l \in Holding(running'[u])[step'[u]]
      BY <2>1, <2>4, <2>6, <2>8, <3>1
    <3> QED BY <2>7, <2>9, <3>2, <3>3 DEF LocksInv
  <2> QED BY <2>10, <2>11
<1>3. CASE UNCHANGED Locks!vars
  BY <1>3 DEF Locks!vars, LocksInv
<1> QED BY <1>1, <1>2, <1>3 DEF Locks!Next

\* The locks that t owns.
Held(t) == {l \in Locks!Lock : owner[l] = t}

\* A task that waits for a lock holds others in one of the ways the scripts nest
\* them, and if it belongs to a stuck set so does the owner of that lock.
LEMMA StuckHolds ==
    ASSUME CallsAssumption, LocksInv, NEW S \in SUBSET NetTask, Locks!Stuck(S), NEW t \in S
    PROVE  LET m == Locks!NextLock(t)[2]
           IN  /\ Locks!Waits(t) /\ m \in Locks!Lock /\ Nested(Held(t), m)
               /\ owner[m] \in S /\ m \in Held(owner[m])
<1> DEFINE op == running[t]
           m == Locks!NextLock(t)[2]
<1>1. Locks!Waits(t) /\ owner[m] \in S /\ t \in NetTask
  BY DEF Locks!Stuck
<1>2. op \in Calls /\ step[t] \in 1..Len(Locks!Script(op))
  BY <1>1 DEF Locks!Waits, LocksInv
<1>3. GoodScript(Locks!Script(op), Holding(op))
  BY <1>2, Scripts
<1>4. Locks!NextLock(t)[1] = "+" /\ Locks!NextLock(t) = Locks!Script(op)[step[t]]
  BY <1>1 DEF Locks!Waits, Locks!NextLock
<1>5. m \in Locks!Lock /\ Nested(Holding(op)[step[t]], m)
  BY <1>2, <1>3, <1>4 DEF GoodScript
<1>6. Held(t) = Holding(op)[step[t]]
  <2>1. \A l \in Locks!Lock : owner[l] = t <=> l \in Holding(op)[step[t]]
    BY <1>1 DEF LocksInv, Locks!Waits
  <2>2. Holding(op)[step[t]] \subseteq Locks!Lock
    BY <1>5 DEF Nested, Locks!Lock
  <2> QED BY <2>1, <2>2 DEF Held
<1> QED BY <1>1, <1>5, <1>6 DEF Held

\* For any number of tasks, and any of the calls: axnet deadlocks only where
\* SOCKET_SET and the interface, or the lock of a port and SOCKET_SET, are held by
\* two tasks of which each waits for the other's.
THEOREM LockOrder ==
    ASSUME CallsAssumption PROVE Locks!Spec => []Locks!OnlyKnownCycles
<1>1. ASSUME LocksInv, NEW S \in SUBSET NetTask, Locks!Stuck(S)
      PROVE  \E t, u \in S :
                \/ Locks!Wants(t, "sockets", "iface") /\ Locks!Wants(u, "iface", "sockets")
                \/ Locks!Wants(t, "port", "sockets") /\ Locks!Wants(u, "sockets", "port")
  <2> DEFINE Wish(t) == Locks!NextLock(t)[2]
             Goal == \E t, u \in S :
                \/ Locks!Wants(t, "sockets", "iface") /\ Locks!Wants(u, "iface", "sockets")
                \/ Locks!Wants(t, "port", "sockets") /\ Locks!Wants(u, "sockets", "port")
  <2>1. \A t \in S : /\ Locks!Waits(t) /\ Wish(t) \in Locks!Lock /\ Nested(Held(t), Wish(t))
                     /\ owner[Wish(t)] \in S /\ Wish(t) \in Held(owner[Wish(t)])
    BY <1>1, StuckHolds
  <2>2. \A t \in S : \A l \in Held(t) : owner[l] = t
    BY DEF Held
  <2>3. \A t \in S : \A k \in Held(t) : Locks!Wants(t, k, Wish(t))
    BY <2>1, <2>2 DEF Locks!Wants
  <2> HIDE DEF Wish
  <2>4. ASSUME NEW t \in S, Wish(t) = "iface" PROVE Goal
    <3> DEFINE v == owner["iface"]
    <3>1. v \in S /\ "iface" \in Held(v) /\ Nested(Held(v), Wish(v)) /\ Nested(Held(t), "iface")
      BY <2>1, <2>4
    <3>2. \/ Held(v) = {"dev", "iface"} /\ Wish(v) = "sockets"
          \/ Held(v) = {"dev", "iface", "sockets"}
      BY <3>1 DEF Nested
    <3>3. Held(t) = {"dev"} \/ Held(t) = {"sockets"}
      BY <3>1 DEF Nested
    <3>4. Held(t) # {"dev"}
      BY <2>2, <3>1, <3>2
    <3>5. Held(v) # {"dev", "iface", "sockets"}
      BY <2>2, <3>1, <3>3, <3>4
    <3>6. Locks!Wants(t, "sockets", "iface") /\ Locks!Wants(v, "iface", "sockets")
      BY <2>3, <2>4, <3>1, <3>2, <3>3, <3>4, <3>5
    <3> QED BY <3>1, <3>6
  <2>5. ASSUME NEW t \in S, Wish(t) = "sockets" PROVE Goal
    <3> DEFINE o == owner["sockets"]
    <3>1. o \in S /\ "sockets" \in Held(o) /\ Nested(Held(o), Wish(o))
      BY <2>1, <2>5
    <3>2. Wish(o) \in {"iface", "port"}
      BY <3>1 DEF Nested
    <3>3. CASE Wish(o) = "iface"
      BY <2>4, <3>1, <3>3
    <3>4. CASE Wish(o) = "port"
      <4> DEFINE p == owner["port"]
      <4>1. p \in S /\ "port" \in Held(p) /\ Nested(Held(p), Wish(p))
        BY <2>1, <3>1, <3>4
      <4>2. Wish(p) = "sockets"
        BY <4>1 DEF Nested
      <4>3. Locks!Wants(p, "port", "sockets") /\ Locks!Wants(o, "sockets", "port")
        BY <2>3, <3>1, <3>4, <4>1, <4>2
      <4> QED BY <3>1, <4>1, <4>3
    <3> QED BY <3>2, <3>3, <3>4
  <2>6. ASSUME NEW t \in S, Wish(t) = "port" PROVE Goal
    <3>1. owner["port"] \in S /\ Wish(owner["port"]) = "sockets"
      BY <2>1, <2>6 DEF Nested
    <3> QED BY <2>5, <3>1
  <2>7. ASSUME NEW t \in S, Wish(t) \in {"dev", "curr"} PROVE Goal
    <3> DEFINE v == owner[Wish(t)]
    <3>1. v \in S /\ Wish(v) \in {"iface", "sockets", "port"}
      BY <2>1, <2>7 DEF Nested
    <3> QED BY <2>4, <2>5, <2>6, <3>1
  <2>8. PICK t \in S : TRUE
    BY <1>1 DEF Locks!Stuck
  <2>9. Wish(t) \in {"dev", "iface", "sockets", "curr", "port"}
    BY <2>1 DEF Locks!Lock
  <2> QED BY <2>4, <2>5, <2>6, <2>7, <2>9
<1>2. LocksInv => Locks!OnlyKnownCycles
  BY <1>1 DEF Locks!OnlyKnownCycles
<1> QED BY LocksInit, LocksNext, <1>2, PTL DEF Locks!Spec

-----------------------------------------------------------------------------
CONSTANTS NIL, Thread, Main, Pthreads, Values

VARIABLES tstate, creating, inited, registry, boxed, packet, holders, joining, joined, ended, astray,
          panicked, unknown

Threads == INSTANCE Thread

(* A join gives the value the thread ended with *)

\* NIL is no thread and no value.
ThreadAssumption ==
    Main \in Thread /\ Pthreads \subseteq Thread /\ NIL \notin Thread \cup Values \cup {"exit", "null", "made"}

ThreadType ==
    /\ tstate \in [Thread -> {"new", "running", "exited"}]
    /\ creating \in [Thread -> Thread \cup {NIL}] /\ joining \in [Thread -> Thread \cup {NIL}]
    /\ packet \in [Thread -> Values \cup {"null"}] /\ joined \in [Thread -> Values \cup {NIL, "null"}]
    /\ holders \in [Thread -> SUBSET {"handle", "closure"}]
    /\ ended \in [Thread -> Values \cup {NIL, "exit"}]
    /\ inited \in BOOLEAN /\ registry \in [Thread -> {NIL, "own", "made"}]
    /\ unknown \subseteq Thread

\* What a thread that exited left in its packet, and who still holds it: the
\* handle alone when a thread of axstd returned, the forgotten closure as well
\* when the thread left through exit.
Left(t) ==
    IF t \in Pthreads THEN packet[t] = (IF t \in astray THEN "null" ELSE ended[t])
    ELSE \/ ended[t] = "exit" /\ "closure" \in holders[t]
         \/ packet[t] = ended[t] /\ t \notin astray /\ (joined[t] = NIL => holders[t] = {"handle"})

\* Where a thread is in its life, and where its struct and its entry are.
ThreadInv ==
    /\ ThreadType
    /\ \A t \in Thread : tstate[t] = "new" => Threads!Made(t) /\ \A q \in Thread : joining[q] # t
    /\ \A t \in Thread : tstate[t] # "exited" =>
          joined[t] = NIL /\ ended[t] = NIL /\ packet[t] = "null" /\ t \notin astray
    /\ \A t \in Thread \ {Main} : tstate[t] = "running" => holders[t] = {"handle", "closure"}
    /\ \A t \in Thread : tstate[t] = "exited" => Left(t)
    /\ \A p \in Thread : creating[p] # NIL =>
          joined[creating[p]] = NIL /\ \A q \in Thread : joining[q] # creating[p]
    /\ \A p \in Thread : joining[p] # NIL =>
          joining[p] # Main /\ (joining[p] \notin Pthreads => joined[joining[p]] = NIL)
    /\ \A p, q \in Thread : joining[p] # NIL /\ joining[p] = joining[q] => p = q
    /\ \A t \in Thread : registry[t] = "made" => inited /\ t \in Pthreads /\ joined[t] = NIL
    /\ tstate[Main] = "running" /\ Threads!JoinGetsValue

\* At the start only the main thread runs, and there is no table.
LEMMA ThreadInit ==
    ASSUME ThreadAssumption PROVE Threads!Init => ThreadInv
<1> SUFFICES ASSUME Threads!Init PROVE ThreadInv
  OBVIOUS
<1> USE DEF ThreadAssumption, Threads!Init
<1>1. ThreadType
  BY DEF ThreadType
<1>2. Threads!JoinGetsValue
  BY DEF Threads!JoinGetsValue
<1>3. \A t \in Thread : Threads!Made(t) /\ tstate[t] # "exited" /\ (tstate[t] = "running" => t = Main)
  BY DEF Threads!Made
<1>4. \A t \in Thread : joined[t] = NIL /\ ended[t] = NIL /\ packet[t] = "null" /\ t \notin astray
                        /\ registry[t] = NIL /\ joining[t] = NIL /\ creating[t] = NIL
  OBVIOUS
<1> QED BY <1>1, <1>2, <1>3, <1>4 DEF ThreadInv

\* Every call of a thread keeps the invariant.
LEMMA ThreadNext ==
    ASSUME ThreadAssumption PROVE ThreadInv /\ [Threads!Next]_Threads!vars => ThreadInv'
<1> SUFFICES ASSUME ThreadInv, [Threads!Next]_Threads!vars PROVE ThreadInv'
  OBVIOUS
<1> USE DEF ThreadAssumption
<1>1. ASSUME NEW p \in Thread, NEW t \in Thread, Threads!TaskSpawn(p, t) PROVE ThreadInv'
  <2>1. ThreadType'
    BY <1>1 DEF Threads!TaskSpawn, Threads!table, ThreadInv, ThreadType
  <2>2. \A u \in Thread : Threads!Made(u)' <=> Threads!Made(u) /\ u # t
    BY <1>1 DEF Threads!TaskSpawn, Threads!Runs, Threads!Made, ThreadInv, ThreadType
  <2>3. Threads!JoinGetsValue'
    BY <1>1, <2>2 DEF Threads!TaskSpawn, Threads!table, Threads!JoinGetsValue, ThreadInv, ThreadType
  <2>4. \A u \in Thread : Left(u)' <=> Left(u) \/ (u = t /\ Left(u)')
    BY <1>1 DEF Threads!TaskSpawn, Left, ThreadInv, ThreadType
  <2> QED
    BY <1>1, <2>1, <2>2, <2>3, <2>4 DEF Threads!TaskSpawn, Threads!table, ThreadInv, ThreadType
<1>2. ASSUME NEW p \in Thread, Threads!Created(p), unknown = {} PROVE ThreadInv'
  <2>0. Threads!TID_TO_PTHREAD(p) \in [Thread -> {NIL, "own", "made"}]
    BY DEF Threads!TID_TO_PTHREAD, ThreadInv, ThreadType
  <2>1. ThreadType'
    <3>1. creating[p] \in Thread /\ creating' \in [Thread -> Thread \cup {NIL}]
      BY <1>2 DEF Threads!Created, ThreadInv, ThreadType
    <3>2. CASE creating[p] \in Pthreads
      BY <1>2, <2>0, <3>1, <3>2 DEF Threads!Created, ThreadInv, ThreadType
    <3>3. CASE creating[p] \notin Pthreads
      BY <1>2, <3>1, <3>3 DEF Threads!Created, Threads!table, ThreadInv, ThreadType
    <3> QED BY <3>2, <3>3
  <2>2. \A u \in Thread : Threads!Made(u) => Threads!Made(u)'
    BY <1>2 DEF Threads!Created, Threads!Made, ThreadInv, ThreadType
  <2>3. \A u \in Thread : Threads!Made(u)' => Threads!Made(u) \/ u = creating[p]
    BY <1>2 DEF Threads!Created, Threads!Made, ThreadInv, ThreadType
  <2>4. /\ \A u \in Thread : registry[u] = "made" => registry'[u] = "made"
        /\ \A u \in Thread : registry'[u] = "made" => registry[u] = "made" \/ (u = creating[p] /\ u \in boxed' \cap Pthreads)
        /\ \A u \in Thread : registry'[u] = "made" => inited'
        /\ creating[p] \in Pthreads => registry'[creating[p]] = "made"
        /\ inited => inited'
        /\ boxed \subseteq boxed'
    BY <1>2 DEF Threads!Created, Threads!TID_TO_PTHREAD, Threads!table, ThreadInv, ThreadType
  <2>5. Threads!JoinGetsValue'
    BY <1>2, <2>2, <2>3, <2>4 DEF Threads!Created, Threads!JoinGetsValue, ThreadInv, ThreadType
  <2>6. \A u \in Thread : Left(u)' <=> Left(u)
    BY <1>2 DEF Threads!Created, Left
  <2> QED
    BY <1>2, <2>1, <2>2, <2>4, <2>5, <2>6 DEF Threads!Created, ThreadInv, ThreadType
<1>3. ASSUME NEW t \in Thread, Threads!pthread_self(t), unknown = {} PROVE ThreadInv'
  BY <1>3 DEF Threads!pthread_self, Threads!TID_TO_PTHREAD, Threads!Runs, Threads!Made,
              Threads!JoinGetsValue, Left, ThreadInv, ThreadType
<1>4. ASSUME NEW t \in Thread, NEW v \in Values, Threads!Return(t, v) PROVE ThreadInv'
  BY <1>4 DEF Threads!Return, Threads!table, Threads!Runs, Threads!Made, Threads!JoinGetsValue, Left,
              ThreadInv, ThreadType
<1>5. ASSUME NEW t \in Thread, NEW v \in Values, Threads!exit_current(t, v), unknown = {} PROVE ThreadInv'
  BY <1>5 DEF Threads!exit_current, Threads!TID_TO_PTHREAD, Threads!Runs, Threads!Made, Threads!JoinGetsValue, Left,
              ThreadInv, ThreadType
<1>6. ASSUME NEW t \in Thread, Threads!exit(t) PROVE ThreadInv'
  BY <1>6 DEF Threads!exit, Threads!table, Threads!Runs, Threads!Made, Threads!JoinGetsValue, Left,
              ThreadInv, ThreadType
<1>7. ASSUME NEW p \in Thread, NEW t \in Thread, Threads!join(p, t) PROVE ThreadInv'
  BY <1>7 DEF Threads!join, Threads!table, Threads!Runs, Threads!Made, Threads!JoinGetsValue, Left,
              ThreadInv, ThreadType
<1>8. ASSUME NEW p \in Thread, Threads!Taken(p) PROVE ThreadInv'
  BY <1>8 DEF Threads!Taken, Threads!Made, Threads!JoinGetsValue, Left, ThreadInv, ThreadType
<1>9. ASSUME NEW p \in Thread, Threads!Dropped(p) PROVE ThreadInv'
  <2>1. ThreadType'
    BY <1>9 DEF Threads!Dropped, ThreadInv, ThreadType
  <2>2. Threads!JoinGetsValue'
    BY <1>9 DEF Threads!Dropped, Threads!Made, Threads!JoinGetsValue, ThreadInv, ThreadType
  <2>3. \A u \in Thread : Left(u) => Left(u)'
    BY <1>9 DEF Threads!Dropped, Left, ThreadInv, ThreadType
  <2>4. \A u \in Thread : (joining'[u] = joining[u] \/ (u = p /\ joining'[u] = NIL)) /\ Threads!Made(u)' = Threads!Made(u)
    BY <1>9 DEF Threads!Dropped, Threads!Made, ThreadInv, ThreadType
  <2> QED
    BY <1>9, <2>1, <2>2, <2>3, <2>4 DEF Threads!Dropped, ThreadInv, ThreadType
<1>10. ASSUME NEW p \in Thread, Threads!HandleJoin(p) PROVE ThreadInv'
  <2>0. /\ joining[p] \in Thread \ Pthreads /\ tstate[joining[p]] = "exited"
        /\ joining' = [joining EXCEPT ![p] = NIL]
        /\ holders' = [holders EXCEPT ![joining[p]] = @ \ {"handle"}]
        /\ UNCHANGED <<tstate, creating, inited, registry, boxed, packet, ended, astray, unknown>>
        /\ \/ /\ panicked' = panicked \cup {p} /\ joined' = joined /\ holders[joining[p]] # {"handle"}
           \/ /\ joined' = [joined EXCEPT ![joining[p]] = packet[joining[p]]] /\ panicked' = panicked
              /\ holders[joining[p]] = {"handle"}
    BY <1>10 DEF Threads!HandleJoin, Threads!table
  <2>1. ThreadType'
    BY <2>0 DEF ThreadInv, ThreadType
  <2>2. \A u \in Thread : Threads!Made(u)' = Threads!Made(u)
    BY <1>10 DEF Threads!HandleJoin, Threads!Made
  <2>3. Threads!JoinGetsValue'
    <3>1. CASE joined' = joined /\ holders[joining[p]] # {"handle"}
      <4>1. ended[joining[p]] = "exit"
        BY <2>0, <3>1 DEF Left, ThreadInv
      <4> QED BY <2>0, <2>2, <3>1, <4>1 DEF Threads!JoinGetsValue, ThreadInv, ThreadType
    <3>2. CASE joined' = [joined EXCEPT ![joining[p]] = packet[joining[p]]] /\ panicked' = panicked
      <4>1. holders[joining[p]] = {"handle"} => packet[joining[p]] = ended[joining[p]] /\ joining[p] \notin astray
        BY <2>0 DEF Left, ThreadInv
      <4> QED BY <2>0, <2>2, <3>2, <4>1 DEF Threads!JoinGetsValue, ThreadInv, ThreadType
    <3> QED BY <2>0, <3>1, <3>2
  <2>4. \A u \in Thread : Left(u) => Left(u)'
    BY <2>0 DEF Left, ThreadInv, ThreadType
  <2>5. \A u \in Thread : /\ joining'[u] = IF u = p THEN NIL ELSE joining[u]
                          /\ u # joining[p] => joined'[u] = joined[u] /\ holders'[u] = holders[u]
    BY <2>0 DEF ThreadInv, ThreadType
  <2>6. joining[p] # Main /\ \A q \in Thread \ {p} : joining[q] # joining[p] /\ creating[q] # joining[p]
    BY <2>0 DEF ThreadInv, ThreadType
  <2>7. \A t \in Thread : tstate[t] = "new" => Threads!Made(t)' /\ \A q \in Thread : joining'[q] # t
    BY <2>2, <2>5 DEF ThreadInv, ThreadType
  <2>8. \A t \in Thread : tstate[t] # "exited" =>
          joined'[t] = NIL /\ ended[t] = NIL /\ packet[t] = "null" /\ t \notin astray
    BY <2>0, <2>5 DEF ThreadInv
  <2>9. \A t \in Thread \ {Main} : tstate[t] = "running" => holders'[t] = {"handle", "closure"}
    BY <2>0, <2>5 DEF ThreadInv
  <2>10. \A q \in Thread : creating[q] # NIL =>
          joined'[creating[q]] = NIL /\ \A r \in Thread : joining'[r] # creating[q]
    BY <2>0, <2>5, <2>6 DEF ThreadInv, ThreadType
  <2>11. \A q \in Thread : joining'[q] # NIL =>
          joining'[q] # Main /\ (joining'[q] \notin Pthreads => joined'[joining'[q]] = NIL)
    BY <2>0, <2>5, <2>6 DEF ThreadInv, ThreadType
  <2>12. \A q, r \in Thread : joining'[q] # NIL /\ joining'[q] = joining'[r] => q = r
    <3>1. \A q, r \in Thread : joining[q] # NIL /\ joining[q] = joining[r] => q = r
      BY DEF ThreadInv
    <3> QED BY <2>5, <3>1
  <2>13. \A t \in Thread : registry[t] = "made" => inited /\ t \in Pthreads /\ joined'[t] = NIL
    BY <2>0, <2>5 DEF ThreadInv
  <2> QED
    BY <2>0, <2>1, <2>2, <2>3, <2>4, <2>7, <2>8, <2>9, <2>10, <2>11, <2>12, <2>13 DEF ThreadInv
<1>11. CASE UNCHANGED Threads!vars
  BY <1>11 DEF Threads!vars, Threads!Made, Threads!JoinGetsValue, Left, ThreadInv, ThreadType
<1> QED
  BY <1>1, <1>2, <1>3, <1>4, <1>5, <1>6, <1>7, <1>8, <1>9, <1>10, <1>11
     DEF Threads!Next, Threads!create, Threads!spawn

\* For any threads, made with pthread_create and with spawn of axstd, however
\* they end: a join gives the value the thread ended with, unless it used
\* TID_TO_PTHREAD before anyone else did and left through pthread_exit; the
\* table names no freed struct, and every pthread that runs and whose create is
\* over; a join panics only for a thread that left through exit of axstd.
THEOREM ThreadSafety ==
    ASSUME ThreadAssumption PROVE Threads!Spec => []Threads!JoinGetsValue
<1>1. ThreadInv => Threads!JoinGetsValue
  BY DEF ThreadInv
<1> QED BY ThreadInit, ThreadNext, <1>1, PTL DEF Threads!Spec
=============================================================================
