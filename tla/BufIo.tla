------------------------------- MODULE BufIo --------------------------------
(***************************************************************************)
(* Byte streams: BufReader and the provided methods of Read, Write and     *)
(* BufRead in axio, and the FILE of axlibc (c/stdio.c), over a source and  *)
(* a sink that may move fewer bytes than asked for. A call owns its stream *)
(* until it returns.                                                       *)
(***************************************************************************)
EXTENDS Integers, Sequences, FiniteSets

CONSTANTS Data,             \* the bytes of the source; Newline ends a line
          Newline,
          BUF_SIZE,         \* DEFAULT_BUF_SIZE and FILE_BUF_SIZE
          Lens,             \* of reads and writes
          MaxSent,          \* bound: bytes written
          NIL

VARIABLES source,           \* what the inner reader still has
          buf, pos,         \* BufReader: the filled part of the buffer
          got,              \* what was read
          reader,           \* whether a BufReader or a FILE reads, or NIL: one is written
          rcall,            \* the read in progress
          skipped,          \* history: read_exact has passed over buffered bytes
          sink,             \* what the descriptor received: <<kind, byte>>
          given,            \* what was written, and how
          fbuf,             \* FILE::buf
          wcall             \* the write in progress

rvars == <<source, buf, pos, got, reader, rcall, skipped>>
wvars == <<sink, given, fbuf, wcall>>
vars == <<source, buf, pos, got, reader, rcall, skipped, sink, given, fbuf, wcall>>

Fewer(a, b) == IF a < b THEN a ELSE b
From(s, k) == SubSeq(s, k + 1, Len(s))
buffer == From(buf, pos)
is_empty == pos >= Len(buf)

Init ==
    /\ source = Data /\ buf = << >> /\ pos = 0 /\ got = << >> /\ rcall = NIL /\ skipped = FALSE
    /\ reader \in {"BufReader", "FILE", NIL}
    /\ sink = << >> /\ given = << >> /\ fbuf = << >> /\ wcall = NIL

-----------------------------------------------------------------------------
\* The inner reader returns k of the n bytes asked for; none at the end.
InnerRead(n, k) == k \in 0..Fewer(n, Len(source)) /\ (k = 0 => n = 0 \/ source = << >>)
Amounts == 0..Len(Data)

\* fill_buf: what the buffer holds afterwards, k bytes read if it was empty.
FillBuf(k) == IF is_empty THEN InnerRead(BUF_SIZE, k) ELSE k = 0
Filled(k) == IF is_empty THEN SubSeq(source, 1, k) ELSE buffer


\* BufReader::read: a large read with nothing buffered bypasses the buffer.
read(n) ==
    /\ reader = "BufReader" /\ rcall = NIL
    /\ \E k \in Amounts :
          IF is_empty /\ n >= BUF_SIZE
          THEN /\ InnerRead(n, k) /\ got' = got \o SubSeq(source, 1, k)
               /\ source' = From(source, k) /\ buf' = << >> /\ pos' = 0
          ELSE /\ FillBuf(k)
               /\ LET m == Fewer(n, Len(Filled(k)))
                  IN  got' = got \o SubSeq(Filled(k), 1, m) /\ buf' = Filled(k) /\ pos' = m
               /\ source' = From(source, k)
    /\ UNCHANGED <<reader, skipped, rcall, wvars>>

\* BufReader::read_exact: from the buffer if it has enough, else from the
\* inner reader, in a loop, past what the buffer has.
read_exact(n) ==
    /\ reader = "BufReader" /\ rcall = NIL
    /\ skipped' = (skipped \/ Len(buffer) \in 1..(n - 1))
    /\ IF Len(buffer) >= n
       THEN got' = got \o SubSeq(buffer, 1, n) /\ pos' = pos + n /\ UNCHANGED <<source, rcall>>
       ELSE rcall' = [op |-> "inner", left |-> n] /\ UNCHANGED <<source, got, pos>>
    /\ UNCHANGED <<buf, reader, wvars>>

\* read_to_end: the buffer and then everything the inner reader has.
read_to_end ==
    /\ reader = "BufReader" /\ rcall = NIL /\ got' = got \o buffer /\ buf' = << >> /\ pos' = 0
    /\ rcall' = [op |-> "inner", left |-> Len(Data) + 1] /\ UNCHANGED <<source, reader, skipped, wvars>>

\* fread asks for what is left until nothing comes.
fread(n) ==
    /\ reader = "FILE" /\ rcall = NIL /\ rcall' = [op |-> "inner", left |-> n]
    /\ UNCHANGED <<source, buf, pos, got, reader, skipped, wvars>>

\* The loop of the three: it ends when there is enough or nothing comes.
ReadLoop ==
    /\ rcall # NIL /\ rcall.op = "inner"
    /\ \E k \in Amounts :
          /\ InnerRead(rcall.left, k) /\ got' = got \o SubSeq(source, 1, k)
          /\ source' = From(source, k)
          /\ rcall' = IF k = 0 \/ rcall.left = k THEN NIL ELSE [rcall EXCEPT !.left = @ - k]
    /\ UNCHANGED <<buf, pos, reader, skipped, wvars>>

\* read_until, and read_line with it: up to the delimiter or the end.
read_until ==
    /\ reader = "BufReader" /\ rcall = NIL /\ rcall' = [op |-> "until", left |-> 0]
    /\ UNCHANGED <<source, buf, pos, got, reader, skipped, wvars>>
UntilLoop ==
    /\ rcall # NIL /\ rcall.op = "until"
    /\ \E k \in Amounts :
          /\ FillBuf(k) /\ source' = From(source, k)
          /\ LET all == Filled(k)
                 ends == {i \in DOMAIN all : all[i] = Newline}
                 used == IF ends = {} THEN Len(all) ELSE CHOOSE i \in ends : \A j \in ends : i <= j
             IN  /\ got' = got \o SubSeq(all, 1, used) /\ buf' = all /\ pos' = used
                 /\ rcall' = IF ends # {} \/ used = 0 THEN NIL ELSE rcall
    /\ UNCHANGED <<reader, skipped, wvars>>

\* fgets: one byte at a time, to the end of the line, which is dropped.
fgets(n) ==
    /\ reader = "FILE" /\ rcall = NIL /\ n > 1 /\ rcall' = [op |-> "line", left |-> n - 1]
    /\ UNCHANGED <<source, buf, pos, got, reader, skipped, wvars>>
LineLoop ==
    /\ rcall # NIL /\ rcall.op = "line"
    /\ IF source = << >> THEN rcall' = NIL /\ UNCHANGED <<source, got>>
       ELSE /\ got' = Append(got, Head(source)) /\ source' = Tail(source)
            /\ rcall' = IF Head(source) = Newline \/ rcall.left = 1 THEN NIL
                        ELSE [rcall EXCEPT !.left = @ - 1]
    /\ UNCHANGED <<buf, pos, reader, skipped, wvars>>

-----------------------------------------------------------------------------
\* A write of s, in the kind `how`: "all" is write_all, also for each piece of
\* write_fmt, and fwrite; "out" is the buffered output of a FILE.
Give(how, s) == given' = given \o [i \in DOMAIN s |-> <<how, s[i]>>]
write(how, s) ==
    /\ reader = NIL /\ wcall = NIL /\ Len(given) + Len(s) <= MaxSent /\ Give(how, s)
    /\ wcall' = [how |-> how, left |-> s] /\ UNCHANGED <<sink, fbuf, rvars>>

\* write_all and fwrite: what was not written is written again.
WriteLoop ==
    /\ wcall # NIL /\ wcall.how = "all"
    /\ IF wcall.left = << >> THEN wcall' = NIL /\ UNCHANGED sink
       ELSE \E k \in 1..Len(wcall.left) :
              /\ sink' = sink \o [i \in 1..k |-> <<"all", wcall.left[i]>>]
              /\ wcall' = [wcall EXCEPT !.left = From(@, k)]
    /\ UNCHANGED <<given, fbuf, rvars>>

\* out: a byte goes into the buffer; a full buffer or the end of a line is
\* written. fflush writes what there is.
Flush(b) == sink' = sink \o [i \in DOMAIN b |-> <<"out", b[i]>>] /\ fbuf' = << >>
out ==
    /\ wcall # NIL /\ wcall.how = "out"
    /\ IF wcall.left = << >> THEN wcall' = NIL /\ UNCHANGED <<sink, fbuf>>
       ELSE LET c == Head(wcall.left)
            IN  /\ wcall' = [wcall EXCEPT !.left = Tail(@)]
                /\ IF Len(fbuf) + 1 = BUF_SIZE \/ c = Newline THEN Flush(Append(fbuf, c))
                   ELSE fbuf' = Append(fbuf, c) /\ UNCHANGED sink
    /\ UNCHANGED <<given, rvars>>
fflush == wcall = NIL /\ fbuf # << >> /\ Flush(fbuf) /\ UNCHANGED <<given, wcall, rvars>>

Texts == {[i \in 1..n |-> IF i = n THEN Newline ELSE i] : n \in Lens} \cup {[i \in 1..n |-> i] : n \in Lens}
Next ==
    \/ \E n \in Lens : read(n) \/ read_exact(n) \/ fread(n) \/ fgets(n)
    \/ read_to_end \/ ReadLoop \/ read_until \/ UntilLoop \/ LineLoop
    \/ \E how \in {"all", "out"}, s \in Texts : write(how, s)
    \/ WriteLoop \/ out \/ fflush

-----------------------------------------------------------------------------
\* The bytes read, the buffered ones and the ones not yet read are the bytes
\* of the source, once each, however the reads are mixed and however short the
\* inner reads are; and in order, until a read_exact asks for more than the
\* buffer has, which leaves the buffered bytes for a later read.
Occurrences(s, b) == Cardinality({i \in DOMAIN s : s[i] = b})
BytesInOrder ==
    LET all == got \o buffer \o source
    IN  /\ Len(all) = Len(Data) /\ \A i \in DOMAIN Data : Occurrences(all, Data[i]) = Occurrences(Data, Data[i])
        /\ skipped \/ all = Data

\* The bytes of each kind of write reach the descriptor in the order they
\* were written in, and all of them when no write and no buffer holds any.
\* (Unbuffered writes of a FILE overtake buffered ones.)
OfKind(s, how) == SelectSeq(s, LAMBDA e : e[1] = how)
Pending(how) ==
    (IF how = "out" THEN [i \in DOMAIN fbuf |-> <<how, fbuf[i]>>] ELSE << >>)
    \o (IF wcall # NIL /\ wcall.how = how THEN [i \in DOMAIN wcall.left |-> <<how, wcall.left[i]>>] ELSE << >>)
WritesInOrder ==
    \A how \in {"all", "out"} : OfKind(sink, how) \o Pending(how) = OfKind(given, how)

\* Neither direction loses or repeats a byte, or changes the order in ways other
\* than the two above.
StreamsKeepBytes == BytesInOrder /\ WritesInOrder
=============================================================================
