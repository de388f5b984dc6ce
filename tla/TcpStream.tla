----------------------------- MODULE TcpStream -----------------------------
(***************************************************************************)
(* The data path of a connected TcpSocket of axnet: recv and send by       *)
(* several tasks while one of them shuts the connection down, over one     *)
(* smoltcp connection (external), whose peer sends, reads and closes.      *)
(***************************************************************************)
EXTENDS Naturals

CONSTANTS StreamTask,
          RxLen, TxLen,   \* TCP_RX_BUF_LEN, TCP_TX_BUF_LEN
          MaxSent         \* bound: bytes the peer sends

VARIABLES cell,           \* the state cell of the TcpSocket
          conn,           \* the state of the smoltcp socket
          rx, tx,         \* bytes in its buffers
          sent, got,      \* history: bytes the peer sent, bytes recv returned
          ended,          \* history: some recv returned Ok(0)
          at              \* per task: the call it is in

vars == <<cell, conn, rx, tx, sent, got, ended, at>>

Init ==
    /\ cell = "CONNECTED" /\ conn = "Established" /\ rx = 0 /\ tx = 0
    /\ sent = 0 /\ got = 0 /\ ended = FALSE /\ at = [t \in StreamTask |-> "idle"]

(* smoltcp's view of the connection *)
is_active == conn # "Closed"
may_recv == conn \in {"Established", "FinWait"} \/ rx > 0
may_send == conn \in {"Established", "CloseWait"}
can_recv == may_recv /\ rx > 0
can_send == may_send /\ tx < TxLen

Return(t) == at' = [at EXCEPT ![t] = "idle"]

\* recv and send test the state cell once, before the loop in block_on.
Call(t) ==
    /\ at[t] = "idle" /\ cell = "CONNECTED"
    /\ \E op \in {"recv", "send"} : at' = [at EXCEPT ![t] = op]
    /\ UNCHANGED <<cell, conn, rx, tx, sent, got, ended>>

RecvWouldBlock == is_active /\ may_recv /\ rx = 0

\* Variant: the end of the connection is looked at before the buffer.
RecvEndFirst(t) ==
    /\ at[t] = "recv" /\ ~RecvWouldBlock /\ Return(t)
    /\ IF ~is_active THEN UNCHANGED <<rx, got, ended>>
       ELSE IF conn # "Established" THEN ended' = TRUE /\ UNCHANGED <<rx, got>>
       ELSE \E len \in 1..RxLen :
                LET n == IF len < rx THEN len ELSE rx
                IN  rx' = rx - n /\ got' = got + n /\ UNCHANGED ended
    /\ UNCHANGED <<cell, conn, tx, sent>>

\* The turn of the loop of recv that ends it: ConnectionRefused, the end of
\* the stream (Ok(0)), or data, for a buffer of len bytes.
recv(t) ==
    /\ at[t] = "recv" /\ ~RecvWouldBlock /\ Return(t)
    /\ IF ~is_active THEN UNCHANGED <<rx, got, ended>>
       ELSE IF ~may_recv THEN ended' = TRUE /\ UNCHANGED <<rx, got>>
       ELSE \E len \in 1..RxLen :
                LET n == IF len < rx THEN len ELSE rx
                IN  rx' = rx - n /\ got' = got + n /\ UNCHANGED ended
    /\ UNCHANGED <<cell, conn, tx, sent>>

SendWouldBlock == is_active /\ may_send /\ ~can_send

\* ConnectionReset, or as much of the buffer as there is room for.
send(t) ==
    /\ at[t] = "send" /\ ~SendWouldBlock /\ Return(t)
    /\ IF ~is_active \/ ~may_send THEN UNCHANGED tx
       ELSE \E len \in 1..TxLen : tx' = IF tx + len <= TxLen THEN tx + len ELSE TxLen
    /\ UNCHANGED <<cell, conn, rx, sent, got, ended>>

shutdown(t) ==
    \/ /\ at[t] = "idle" /\ cell = "CONNECTED"
       /\ cell' = "BUSY" /\ at' = [at EXCEPT ![t] = "shutdown"]
       /\ UNCHANGED <<conn, rx, tx, sent, got, ended>>
    \/ /\ at[t] = "shutdown" /\ cell' = "CLOSED" /\ Return(t)
       /\ conn' = CASE conn = "Established" -> "FinWait" [] conn = "CloseWait" -> "LastAck"
                    [] OTHER -> conn
       /\ UNCHANGED <<rx, tx, sent, got, ended>>

\* Data, a FIN, the acknowledgement of ours, and room in the peer's window.
Remote ==
    \/ /\ conn \in {"Established", "FinWait"} /\ rx < RxLen /\ sent < MaxSent
       /\ rx' = rx + 1 /\ sent' = sent + 1 /\ UNCHANGED <<cell, conn, tx, got, ended, at>>
    \/ /\ conn = "Established" /\ conn' = "CloseWait"
       /\ UNCHANGED <<cell, rx, tx, sent, got, ended, at>>
    \/ /\ conn \in {"FinWait", "LastAck"} /\ conn' = "Closed"
       /\ UNCHANGED <<cell, rx, tx, sent, got, ended, at>>
    \/ /\ tx > 0 /\ tx' = tx - 1 /\ UNCHANGED <<cell, conn, rx, sent, got, ended, at>>

Next == Remote \/ \E t \in StreamTask : Call(t) \/ recv(t) \/ send(t) \/ shutdown(t)

Spec == Init /\ [][Next]_vars

-----------------------------------------------------------------------------
\* recv reports the end of the stream only after it has returned everything
\* the peer sent.
EofAfterData == ended => got = sent
=============================================================================
