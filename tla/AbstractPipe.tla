---------------------------- MODULE AbstractPipe ----------------------------
(* What a pipe promises to the tasks that share it. Bytes come out in the    *)
(* order in which they went in, none lost and none twice, whoever reads      *)
(* them; the bytes of one write go in in order; at most Capacity are in the  *)
(* pipe; a read comes back short only at the end of the stream, which is     *)
(* final.                                                                    *)
EXTENDS Naturals, Sequences

CONSTANTS Task, Capacity

VARIABLES stream,   \* the bytes in the pipe
          writers,  \* "new", then "open" while somebody may write, then "closed"
          got,      \* per task: the bytes its read has received
          put,      \* per task: how many bytes its write has sent
          eof       \* a read was told that the stream has ended

vars == <<stream, writers, got, put, eof>>

Init ==
    /\ stream = << >> /\ writers = "new" /\ eof = FALSE
    /\ got = [t \in Task |-> << >>] /\ put = [t \in Task |-> 0]

create ==
    /\ writers = "new" /\ writers' \in {"open", "closed"}
    /\ UNCHANGED <<stream, got, put, eof>>

\* A turn of a read: it takes the first bytes, and may return.
read(t) ==
    \E k \in 0..Len(stream) :
        /\ stream' = SubSeq(stream, k + 1, Len(stream))
        /\ got'[t] \in {got[t] \o SubSeq(stream, 1, k), << >>}
        /\ got' = [got EXCEPT ![t] = got'[t]]
        /\ writers' \in {writers, "closed"}
        /\ UNCHANGED <<put, eof>>

\* The read of t ends before its buffer is full.
end(t) ==
    /\ writers = "closed" /\ stream = << >> /\ eof' = TRUE
    /\ got' = [got EXCEPT ![t] = << >>]
    /\ UNCHANGED <<stream, writers, put>>

write(t) ==
    \E k \in 0..(Capacity - Len(stream)) :
        /\ writers = "open" /\ ~eof
        /\ stream' = stream \o [i \in 1..k |-> <<t, put[t] + i - 1>>]
        /\ \E p \in {put[t] + k, 0} : put' = [put EXCEPT ![t] = p]
        /\ writers' \in {writers, "closed"}
        /\ UNCHANGED <<got, eof>>

close == writers = "open" /\ writers' = "closed" /\ UNCHANGED <<stream, got, put, eof>>

Next == create \/ close \/ \E t \in Task : read(t) \/ end(t) \/ write(t)

Spec == Init /\ [][Next]_vars
=============================================================================
