------------------------------- MODULE Serial -------------------------------
(***************************************************************************)
(* Serial consoles and the standard streams on them: the PL011, DW8250 and *)
(* 16550 UARTs, Stdin and Stdout of arceos_posix_api and of axstd. Tasks   *)
(* read and write while characters arrive; one character is exchanged with *)
(* the UART at a time, under its lock.                                     *)
(***************************************************************************)
EXTENDS Naturals, Sequences, SequencesExt

CONSTANTS Uarts,            \* of the instance: "pl011", "dw8250", "uart16550"
          Task,
          Typed,            \* the characters that arrive
          FifoSize, BufSize, \* of the UART, and of the BufReader of Stdin
          ReadSizes, Text,  \* what the tasks ask for and write
          MaxCalls,         \* bound: calls of a task
          NIL

VARIABLES uart, dev,        \* which UART, and its registers
          left,             \* what is still to be typed
          rx, tx,           \* the receive queue; what went out
          accepted,         \* what the receive queue took
          inLock, outLock,  \* holders of the Mutexes of stdin and stdout
          inBuf,            \* the bytes in the BufReader
          call, calls,      \* the call of each task, how many it made
          results,          \* of the reads, in the order in which they returned
          written           \* the texts of the writes, in the order of their locks

vars == <<uart, dev, left, rx, tx, accepted, inLock, outLock, inBuf, call, calls, results, written>>

-----------------------------------------------------------------------------
(* The initialisation: a list of register writes. With the DLAB bit of lcr *)
(* set, the data and the interrupt registers are the divisor's.            *)

Write(d, reg, v) ==
    CASE reg = "data" /\ d.dlab -> [d EXCEPT !.dll = v]
      [] reg = "data" -> [d EXCEPT !.sent = @ + 1]
      [] reg = "ier" /\ d.dlab -> [d EXCEPT !.dlh = v]
      [] OTHER -> [d EXCEPT ![reg] = v]
Writes(d, ws) == FoldLeft(LAMBDA r, w : Write(r, w[1], w[2]), d, ws)

\* 115200 baud from 25 MHz in 1/64, and from 1.8432 MHz.
Divider == (25000000 * 4) \div 115200
dw8250_init == <<<<"ier", 0>>, <<"mcr", 2>>, <<"dlab", TRUE>>, <<"data", (Divider \div 64) % 256>>,
                 <<"ier", (Divider \div (64 * 256)) % 256>>, <<"dlf", Divider % 64>>, <<"dlab", FALSE>>>>
uart16550_init ==
    LET divisor == 1843200 \div (115200 * 16)
    IN <<<<"ier", 0>>, <<"dlab", TRUE>>, <<"data", divisor % 256>>, <<"ier", divisor \div 256>>,
         <<"dlab", FALSE>>, <<"mcr", 11>>>>
\* Interrupts cleared, the one of the receiver enabled, transmitter and receiver on.
pl011_init == <<<<"ier", 1>>, <<"mcr", 1>>>>

Reset == [dlab |-> FALSE, dll |-> 0, dlh |-> 0, dlf |-> 0, ier |-> 0, mcr |-> 0, sent |-> 0]
init_early ==
    /\ dev = Reset
    /\ dev' = Writes(Reset, CASE uart = "dw8250" -> dw8250_init
                              [] uart = "uart16550" -> uart16550_init [] OTHER -> pl011_init)
    /\ UNCHANGED <<uart, left, rx, tx, accepted, inLock, outLock, inBuf, call, calls, results, written>>

\* init and init_irq, and a handler that does nothing.
init_irq ==
    /\ dev # Reset /\ uart = "dw8250" /\ dev.ier = 0 /\ dev' = Write(dev, "ier", 1)
    /\ UNCHANGED <<uart, left, rx, tx, accepted, inLock, outLock, inBuf, call, calls, results, written>>

Init ==
    /\ uart \in Uarts /\ dev = Reset /\ left = Typed /\ rx = <<>> /\ tx = <<>> /\ accepted = <<>>
    /\ inLock = NIL /\ outLock = NIL /\ inBuf = <<>>
    /\ call = [t \in Task |-> NIL] /\ calls = [t \in Task |-> 0] /\ results = <<>> /\ written = <<>>

\* A character arrives; one that finds the queue full is lost.
Arrive ==
    /\ dev # Reset /\ left # <<>> /\ left' = Tail(left)
    /\ IF Len(rx) < FifoSize THEN rx' = Append(rx, Head(left)) /\ accepted' = Append(accepted, Head(left))
       ELSE UNCHANGED <<rx, accepted>>
    /\ UNCHANGED <<uart, dev, tx, inLock, outLock, inBuf, call, calls, results, written>>

\* getchar of the UART; console_read_bytes and ax_console_read_byte turn a
\* carriage return into a newline.
getchar == IF rx = <<>> THEN NIL ELSE Head(rx)
console_read_byte == IF getchar = "cr" THEN "nl" ELSE getchar

\* putchar of each UART, under its lock.
pl011_putchar(c) == IF c = "nl" THEN <<"cr", "nl">> ELSE <<c>>
dw8250_putchar(c) == IF c \in {"cr", "nl"} THEN <<"cr", "nl">> ELSE <<c>>
uart16550_putchar(c) == IF c = "nl" THEN <<"cr", "nl">> ELSE <<c>>
putchar(c) == CASE uart = "pl011" -> pl011_putchar(c) [] uart = "dw8250" -> dw8250_putchar(c)
                [] OTHER -> uart16550_putchar(c)

-----------------------------------------------------------------------------
(* Stdin. A read holds the Mutex while it takes what the UART has.         *)

\* A call: Read::read of a Stdin (posix: read_blocked), or read_line.
Begin(t, c) == /\ dev # Reset /\ call[t] = NIL /\ calls[t] < MaxCalls /\ calls' = [calls EXCEPT ![t] = @ + 1]
               /\ call' = [call EXCEPT ![t] = c]
read(t, n) ==
    /\ Begin(t, [op |-> "read", n |-> n, raw |-> <<>>, got |-> <<>>])
    /\ UNCHANGED <<uart, dev, left, rx, tx, accepted, inLock, outLock, inBuf, results, written>>
read_line(t) ==
    /\ Begin(t, [op |-> "line", n |-> 1, raw |-> <<>>, got |-> <<>>])
    /\ UNCHANGED <<uart, dev, left, rx, tx, accepted, inLock, outLock, inBuf, results, written>>
lock(t) ==
    /\ call[t] # NIL /\ call[t].op \in {"read", "line"} /\ inLock = NIL /\ inLock' = t
    /\ UNCHANGED <<uart, dev, left, rx, tx, accepted, outLock, inBuf, call, calls, results, written>>

\* A read as large as the buffer goes past it; else an empty buffer is filled.
Direct(t) == inBuf = <<>> /\ call[t].op = "read" /\ call[t].n >= BufSize
Wanted(t) == Len(call[t].raw) < (IF Direct(t) THEN call[t].n ELSE BufSize)

\* The loop of StdinRaw::read.
StdinRaw_read(t) ==
    /\ inLock = t /\ inBuf = <<>> /\ call[t].op \in {"read", "line"} /\ Wanted(t) /\ getchar # NIL
    /\ call' = [call EXCEPT ![t].raw = Append(@, console_read_byte)] /\ rx' = Tail(rx)
    /\ UNCHANGED <<uart, dev, left, tx, accepted, inLock, outLock, inBuf, calls, results, written>>

Min2(a, b) == IF a < b THEN a ELSE b
Rest(s, k) == SubSeq(s, k + 1, Len(s))
Available(t) == inBuf \o call[t].raw
Done(t, bytes) ==
    /\ results' = Append(results, [op |-> call[t].op, n |-> call[t].n, bytes |-> bytes])
    /\ call' = [call EXCEPT ![t] = NIL]
RawDone(t) ==
    inLock = t /\ call[t].op \in {"read", "line"} /\ (inBuf = <<>> => (Wanted(t) => getchar = NIL))

\* Nothing there: the lock is dropped and, after a yield, taken again.
Retry(t, bytes) ==
    IF bytes = <<>> /\ call[t].n > 0
    THEN call' = [call EXCEPT ![t].raw = <<>>] /\ UNCHANGED results
    ELSE Done(t, bytes)

\* The end of BufReader::read.
read_end(t) ==
    /\ RawDone(t) /\ call[t].op = "read" /\ inLock' = NIL
    /\ LET k == Min2(call[t].n, Len(Available(t)))
       IN inBuf' = Rest(Available(t), k) /\ Retry(t, SubSeq(Available(t), 1, k))
    /\ UNCHANGED <<uart, dev, left, rx, tx, accepted, outLock, calls, written>>

\* One round of read_until('\n'): it ends with the line, or with nothing there.
read_until(t) ==
    /\ RawDone(t) /\ call[t].op = "line"
    /\ LET all == Available(t)
           ends == {i \in DOMAIN all : all[i] = "nl"}
           used == IF ends = {} THEN Len(all) ELSE CHOOSE i \in ends : \A j \in ends : i <= j
           got == call[t].got \o SubSeq(all, 1, used)
       IN /\ inBuf' = Rest(all, used)
          /\ IF ends # {} \/ used = 0 THEN Done(t, got) /\ inLock' = NIL
             ELSE call' = [call EXCEPT ![t].got = got, ![t].raw = <<>>] /\ UNCHANGED <<results, inLock>>
    /\ UNCHANGED <<uart, dev, left, rx, tx, accepted, outLock, calls, written>>

-----------------------------------------------------------------------------
(* Stdout: the Mutex is held for the whole text, the UART for a character. *)

write(t) ==
    /\ outLock = NIL /\ outLock' = t
    /\ Begin(t, [op |-> "write", text |-> Text[t]]) /\ written' = Append(written, Text[t])
    /\ UNCHANGED <<uart, dev, left, rx, tx, accepted, inLock, inBuf, results>>
write_bytes(t) ==
    /\ call[t] # NIL /\ call[t].op = "write" /\ call[t].text # <<>>
    /\ tx' = tx \o putchar(Head(call[t].text)) /\ call' = [call EXCEPT ![t].text = Tail(@)]
    /\ UNCHANGED <<uart, dev, left, rx, accepted, inLock, outLock, inBuf, calls, results, written>>
write_end(t) ==
    /\ call[t] # NIL /\ call[t].op = "write" /\ call[t].text = <<>>
    /\ call' = [call EXCEPT ![t] = NIL] /\ outLock' = NIL
    /\ UNCHANGED <<uart, dev, left, rx, tx, accepted, inLock, inBuf, calls, results, written>>

Next ==
    \/ init_early \/ init_irq \/ Arrive
    \/ \E t \in Task : \/ \E n \in ReadSizes : read(t, n)
                       \/ read_line(t) \/ lock(t) \/ StdinRaw_read(t) \/ read_end(t) \/ read_until(t)
                       \/ write(t) \/ write_bytes(t) \/ write_end(t)

-----------------------------------------------------------------------------
Translated(s) == [i \in DOMAIN s |-> IF s[i] = "cr" THEN "nl" ELSE s[i]]
Taken == IF inLock = NIL THEN <<>>
         ELSE (IF call[inLock].op = "line" THEN call[inLock].got ELSE <<>>) \o inBuf \o call[inLock].raw
Expected == FlattenSeq([i \in DOMAIN written |-> FlattenSeq([j \in DOMAIN written[i] |-> putchar(written[i][j])])])
Unsent == IF outLock = NIL THEN <<>>
          ELSE FlattenSeq([j \in DOMAIN call[outLock].text |-> putchar(call[outLock].text[j])])

\* Every character the UART took is delivered once and in order, to one read,
\* is in the hands of one, or waits in a buffer, whoever reads; a read that
\* asked for something returns something, and no more than it asked for. The
\* texts of two writers are not mixed. The UART runs at its divisor, nothing
\* having gone out while it was set up, and takes interrupts only when told.
SerialFaithful ==
    /\ FlattenSeq([i \in DOMAIN results |-> results[i].bytes])
          \o (IF inLock = NIL THEN inBuf ELSE Taken) \o Translated(rx) = Translated(accepted)
    /\ \A i \in DOMAIN results : results[i].op = "read" =>
          Len(results[i].bytes) <= results[i].n /\ (results[i].n > 0 => results[i].bytes # <<>>)
    /\ tx \o Unsent = Expected
    /\ dev.sent = 0 /\ ~dev.dlab
    /\ dev # Reset /\ uart = "dw8250" => dev.dlh * 16384 + dev.dll * 64 + dev.dlf = Divider
    /\ dev # Reset /\ uart = "uart16550" => dev.dlh * 256 + dev.dll = 1 /\ dev.ier = 0

\* read_line returns a line: "reads a line of input, appending it to the
\* specified buffer" (axstd io/stdio.rs).
LinesComplete ==
    \A i \in DOMAIN results : results[i].op = "line" =>
        results[i].bytes # <<>> /\ results[i].bytes[Len(results[i].bytes)] = "nl"
=============================================================================
