-------------------------------- MODULE Pipe --------------------------------
(***************************************************************************)
(* A pipe of arceos_posix_api and the descriptor table through which tasks *)
(* reach it: pipe, read, write, close, dup and dup2, called by any number  *)
(* of tasks on the same table.                                             *)
(*                                                                         *)
(* Each access to the table is a step, and so is each turn of the loops in *)
(* read and write, which holds the mutex of the ring buffer throughout. A  *)
(* call keeps its end of the pipe alive (an Arc) until it returns. Errors  *)
(* the caller sees at once (EBADF, EPERM, EMFILE) leave the table alone.   *)
(***************************************************************************)
EXTENDS Naturals, Sequences, SequencesExt

CONSTANTS Task,
          NONE,
          AX_FILE_LIMIT,      \* descriptors in the table
          RING_BUFFER_SIZE,
          Lengths,            \* the sizes of the reads and writes
          MaxCalls            \* bound: calls made by all tasks

VARIABLES ring,     \* PipeRingBuffer
          table,    \* FD_TABLE: what each descriptor refers to
          created,  \* sys_pipe was called (bound: one pipe)
          pc, call, \* per task: the place in its call, and the locals of the call
          calls,    \* the calls made so far
          eof       \* history: a read has come back short

vars == <<ring, table, created, pc, call, calls, eof>>

Fd == 0..(AX_FILE_LIMIT - 1)
Slot == 0..(RING_BUFFER_SIZE - 1)
Byte == Task \X Nat       \* whose buffer it comes from, and the index there
File == {"stdio", "read_end", "write_end"}

\* held: the Arc of the call; fd: the descriptor it is about; len: the size of
\* its buffer; buf: what a read has put into it; n: write_size.
NoCall == [held |-> NONE, fd |-> 0, len |-> 0, buf |-> << >>, n |-> 0]

\* Descriptors 0 to 2 are the standard ones.
Init ==
    /\ ring = [arr |-> [i \in Slot |-> NONE], head |-> 0, tail |-> 0, status |-> "Empty"]
    /\ table = [fd \in Fd |-> IF fd < 3 THEN "stdio" ELSE NONE]
    /\ created = FALSE /\ eof = FALSE
    /\ pc = [t \in Task |-> "run"] /\ call = [t \in Task |-> NoCall]
    /\ calls = 0

-----------------------------------------------------------------------------
(* PipeRingBuffer *)

write_byte(r, byte) ==
    LET tail == (r.tail + 1) % RING_BUFFER_SIZE
    IN  [r EXCEPT !.arr[r.tail] = byte, !.tail = tail,
                  !.status = IF tail = r.head THEN "Full" ELSE "Normal"]

read_byte(r) ==
    LET head == (r.head + 1) % RING_BUFFER_SIZE
    IN  [r EXCEPT !.head = head, !.status = IF head = r.tail THEN "Empty" ELSE "Normal"]

\* Variant: equal indices mean an empty buffer.
AvailableByIndex(r) ==
    IF r.tail >= r.head THEN r.tail - r.head ELSE r.tail + RING_BUFFER_SIZE - r.head

available_read(r) ==
    IF r.status = "Empty" THEN 0
    ELSE IF r.tail > r.head THEN r.tail - r.head
    ELSE r.tail + RING_BUFFER_SIZE - r.head

available_write(r) == IF r.status = "Full" THEN 0 ELSE RING_BUFFER_SIZE - available_read(r)

\* The state of a read after one more byte: <<ring buffer, buf>>.
TakeByte(rb, i) == <<read_byte(rb[1]), Append(rb[2], rb[1].arr[rb[1].head])>>

-----------------------------------------------------------------------------
(* The descriptor table *)

\* Who keeps an end of the pipe alive: descriptors, and calls in progress.
Alive(end) == (\E fd \in Fd : table[fd] = end) \/ (\E t \in Task : call[t].held = end)

Free == {fd \in Fd : table[fd] = NONE}
FirstFree == CHOOSE fd \in Free : \A g \in Free : fd <= g

\* FlattenObjects::add; nothing is added when there is no room.
add_file_like(file) == IF Free # {} THEN [table EXCEPT ![FirstFree] = file] ELSE table

Begin(t, place, locals) ==
    /\ pc' = [pc EXCEPT ![t] = place] /\ call' = [call EXCEPT ![t] = locals]

Return(t) == Begin(t, "run", NoCall)

\* Task t makes its next call.
Calls(t) == pc[t] = "run" /\ calls < MaxCalls /\ calls' = calls + 1

\* sys_pipe: the read end goes into the table, the write end is still a local.
sys_pipe(t) ==
    /\ Calls(t) /\ ~created /\ created' = TRUE
    /\ table' = add_file_like("read_end")
    /\ IF Free = {} THEN Return(t)
       ELSE Begin(t, "pipe", [NoCall EXCEPT !.held = "write_end", !.fd = FirstFree])
    /\ UNCHANGED <<ring, eof>>

\* ... and then the write end; without room for it the write end is gone, and
\* the read descriptor is closed, whatever it refers to by then.
PipeWriteEnd(t) ==
    /\ pc[t] = "pipe" /\ table' = add_file_like("write_end")
    /\ IF Free = {} THEN Begin(t, "undo", [NoCall EXCEPT !.fd = call[t].fd]) ELSE Return(t)
    /\ UNCHANGED <<ring, created, calls, eof>>
PipeUndo(t) ==
    /\ pc[t] = "undo" /\ Return(t) /\ table' = [table EXCEPT ![call[t].fd] = NONE]
    /\ UNCHANGED <<ring, created, calls, eof>>

sys_close(t) ==
    \E fd \in Fd \ Free :
        /\ Calls(t) /\ fd > 2 /\ table' = [table EXCEPT ![fd] = NONE]
        /\ UNCHANGED <<ring, created, pc, call, eof>>

\* dup_fd: get_file_like and add_file_like take the lock of the table one after
\* the other.
sys_dup(t) ==
    \E fd \in Fd \ Free :
        /\ Calls(t) /\ Begin(t, "dup", [NoCall EXCEPT !.held = table[fd]])
        /\ UNCHANGED <<ring, table, created, eof>>

DupAdd(t) ==
    /\ pc[t] = "dup" /\ table' = add_file_like(call[t].held) /\ Return(t)
    /\ UNCHANGED <<ring, created, calls, eof>>

sys_dup2(t) ==
    \E fd \in Fd \ Free, new \in Fd :
        /\ Calls(t) /\ fd # new
        /\ Begin(t, "dup2", [NoCall EXCEPT !.held = table[fd], !.fd = new])
        /\ UNCHANGED <<ring, table, created, eof>>

\* add_at fails on a descriptor in use.
Dup2Add(t) ==
    /\ pc[t] = "dup2" /\ Return(t)
    /\ table' = IF call[t].fd \in Free THEN [table EXCEPT ![call[t].fd] = call[t].held] ELSE table
    /\ UNCHANGED <<ring, created, calls, eof>>

-----------------------------------------------------------------------------
(* read and write *)

\* get_file_like finds an end that may be read; other files answer at once.
sys_read(t) ==
    \E len \in Lengths :
        /\ Calls(t) /\ (\E fd \in Fd : table[fd] = "read_end")
        /\ Begin(t, "read", [NoCall EXCEPT !.held = "read_end", !.len = len])
        /\ UNCHANGED <<ring, table, created, eof>>

\* Variant: only the descriptors count, not the writes in progress.
WriteEndByTable(t) == \A fd \in Fd : table[fd] # "write_end"

\* The ring buffer belongs to the end of t alone.
write_end_close(t) == ~Alive("write_end")

\* An empty buffer: the stream has ended, or t yields and tries again.
ReadEmpty(t) ==
    /\ pc[t] = "read" /\ available_read(ring) = 0 /\ write_end_close(t)
    /\ eof' = (eof \/ Len(call[t].buf) < call[t].len)
    /\ Return(t)
    /\ UNCHANGED <<ring, table, created, calls>>

\* The bytes that are there go into the buffer of t; only when one is left over
\* does the loop see that the buffer is full.
ReadLoop(t) ==
    LET avail == available_read(ring)
        room == call[t].len - Len(call[t].buf)
        k == IF room < avail THEN room ELSE avail
        done == FoldLeft(TakeByte, <<ring, call[t].buf>>, [i \in 1..k |-> i])
    IN  /\ pc[t] = "read" /\ avail > 0
        /\ ring' = done[1]
        /\ IF room < avail THEN Return(t) ELSE Begin(t, "read", [call[t] EXCEPT !.buf = done[2]])
        /\ UNCHANGED <<table, created, calls, eof>>

sys_write(t) ==
    \E len \in Lengths :
        /\ Calls(t) /\ (\E fd \in Fd : table[fd] = "write_end")
        /\ Begin(t, "write", [NoCall EXCEPT !.held = "write_end", !.len = len])
        /\ UNCHANGED <<ring, table, created, eof>>

\* With a full buffer t yields and tries again.
WriteLoop(t) ==
    LET avail == available_write(ring)
        left == call[t].len - call[t].n
        k == IF left < avail THEN left ELSE avail
    IN  /\ pc[t] = "write" /\ avail > 0
        /\ ring' = FoldLeft(write_byte, ring, [i \in 1..k |-> <<t, call[t].n + i - 1>>])
        /\ IF left < avail THEN Return(t) ELSE Begin(t, "write", [call[t] EXCEPT !.n = @ + k])
        /\ UNCHANGED <<table, created, calls, eof>>

-----------------------------------------------------------------------------
InCall(t) ==
    PipeWriteEnd(t) \/ PipeUndo(t) \/ DupAdd(t) \/ Dup2Add(t) \/ ReadEmpty(t) \/ ReadLoop(t) \/ WriteLoop(t)

Next ==
    \E t \in Task :
        \/ sys_pipe(t) \/ sys_close(t) \/ sys_dup(t) \/ sys_dup2(t) \/ sys_read(t) \/ sys_write(t)
        \/ InCall(t)

Spec == Init /\ [][Next]_vars

\* A call in progress gets the processor and the mutex again and again: every
\* turn of a loop that finds nothing to do gives way with sched_yield.
FairSpec == Spec /\ \A t \in Task : WF_vars(InCall(t))

-----------------------------------------------------------------------------
(* Properties *)

\* The type invariant.
TypeOK ==
    /\ ring \in [arr : [Slot -> Byte \union {NONE}], head : Slot, tail : Slot,
                 status : {"Full", "Empty", "Normal"}]
    /\ table \in [Fd -> File \union {NONE}]
    /\ created \in BOOLEAN /\ eof \in BOOLEAN
    /\ pc \in [Task -> {"run", "pipe", "undo", "dup", "dup2", "read", "write"}]
    /\ call \in [Task -> [held : File \union {NONE}, fd : Fd, len : Lengths \union {0},
                          buf : Seq(Byte), n : Nat]]
    /\ calls \in 0..MaxCalls

\* The bytes between head and tail, oldest first.
Contents ==
    LET used == IF ring.head = ring.tail
                THEN IF ring.status = "Empty" THEN 0 ELSE RING_BUFFER_SIZE
                ELSE (ring.tail + RING_BUFFER_SIZE - ring.head) % RING_BUFFER_SIZE
    IN  [i \in 1..used |-> ring.arr[(ring.head + i - 1) % RING_BUFFER_SIZE]]

Abs == INSTANCE AbstractPipe WITH
    Capacity <- RING_BUFFER_SIZE, stream <- Contents,
    writers <- IF ~created THEN "new" ELSE IF Alive("write_end") THEN "open" ELSE "closed",
    got <- [t \in Task |-> call[t].buf], put <- [t \in Task |-> call[t].n]

\* The ring buffer, the reference counts and the descriptor table together make
\* a pipe: whatever tasks read, write, duplicate and close at the same time,
\* bytes arrive once and in order, a read returns short only when the last
\* writer is gone and the last byte is read, and no write end comes back then.
ImplementsPipe == Abs!Spec

\* Pipe::read returns once nobody can write any more, although the last close
\* wakes nobody up: the reader finds out by itself.
EofReached ==
    \A t \in Task : (pc[t] = "read" /\ created /\ ~Alive("write_end")) ~> (pc[t] = "run")

\* A read that is waiting takes the bytes that are there, a full buffer (head
\* and tail equal, as in an empty one) included.
BytesArrive ==
    \A t \in Task :
        (pc[t] = "read" /\ Contents # << >>) ~> (Contents = << >> \/ pc[t] = "run")

\* "Data not ready, wait for write end" (pipe.rs:124): a read yields for more
\* data only when it has not got all that it was asked for.
WaitsOnlyForData ==
    \A t \in Task :
        (pc[t] = "read" /\ available_read(ring) = 0 /\ Alive("write_end"))
        => Len(call[t].buf) < call[t].len
=============================================================================
