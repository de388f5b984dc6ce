------------------------------- MODULE FileIo -------------------------------
(***************************************************************************)
(* Open files: fops.rs and api/file.rs of axfs with the rights of the      *)
(* capability crate, over a file of ramfs or FAT, /dev/null, /dev/zero and *)
(* a directory. Bytes are numbers, 0 the zero byte. An append takes the lock *)
(* of the file for each of its two accesses, not over both. Below them, on  *)
(* its own: the cursor over a block device the FAT file system works on    *)
(* (dev.rs and Read, Write and Seek of fs/fatfs.rs), with RamDisk of       *)
(* driver_block below it.                                                  *)
(***************************************************************************)
EXTENDS Integers, Sequences

CONSTANTS IoTask, FileHandle,
          Uses,             \* the handles of each task
          Nodes,            \* the nodes each handle is opened on
          Options,          \* the options each task opens files with
          WriteSizes, ReadSizes,
          MaxOffset,        \* bound: positions in a file
          BLOCK_SIZE, SizeHints, Lengths, Moves,
          MaxPosition,      \* bound: positions of the cursor over the disk
          NIL

VARIABLES main,             \* the filesystem the file is in
          content,          \* of the file
          expected,         \* its content as the calls ask for it
          file,             \* the open file of each handle
          writing,          \* the append each task is in
          fill,             \* the byte written next
          data,             \* of the RAM disk
          block_id, block_offset,   \* the cursor over it
          io,               \* the read or write in progress
          flat, at,         \* a plain array of bytes and a position in it
          mark              \* the byte written next

vars == <<main, content, expected, file, writing, fill>>
diskvars == <<data, block_id, block_offset, io, flat, at, mark>>

Least(a, b) == IF a < b THEN a ELSE b

-----------------------------------------------------------------------------
\* FileNode of ramfs: write_at fills a gap with zeros; truncate cuts or extends.
RamTruncate(c, n) == [i \in 1..n |-> IF i <= Len(c) THEN c[i] ELSE 0]
RamWriteAt(c, offset, buf) ==
    LET r == RamTruncate(c, IF offset + Len(buf) > Len(c) THEN offset + Len(buf) ELSE Len(c))
    IN  [i \in DOMAIN r |-> IF i > offset /\ i <= offset + Len(buf) THEN buf[i - offset] ELSE r[i]]
RamReadAt(c, offset, n) ==
    SubSeq(c, Least(Len(c), offset) + 1, Least(Len(c), offset + n))

\* FileWrapper of fatfs.rs seeks first, and the library stops at the end.
FatSeek(c, offset) == Least(offset, Len(c))
FatReadAt(c, offset, n) == RamReadAt(c, FatSeek(c, offset), n)
FatWriteAt(c, offset, buf) == RamWriteAt(c, FatSeek(c, offset), buf)
FatTruncate(c, n) == SubSeq(c, 1, FatSeek(c, n))

\* read_at of the devices.
NullReadAt(n) == << >>
ZeroReadAt(n) == [i \in 1..n |-> 0]

ReadAt(node, offset, n) ==
    CASE node = "null" -> NullReadAt(n)
      [] node = "zero" -> ZeroReadAt(n)
      [] OTHER -> IF main = "ram" THEN RamReadAt(content, offset, n) ELSE FatReadAt(content, offset, n)
WriteAt(c, offset, buf) == IF main = "ram" THEN RamWriteAt(c, offset, buf) ELSE FatWriteAt(c, offset, buf)
Truncate(c, n) == IF main = "ram" THEN RamTruncate(c, n) ELSE FatTruncate(c, n)
NodeSize(node) == IF node = "file" THEN Len(content) ELSE 0

\* OpenOptions::is_valid, and the rights the options ask for.
is_valid(o) ==
    /\ o \cap {"read", "write", "append"} # {}
    /\ o \cap {"write", "append"} = {} => o \cap {"truncate", "create", "create_new"} = {}
    /\ "append" \in o /\ "truncate" \in o => "create_new" \in o
CapOf(o) == (IF "read" \in o THEN {"READ"} ELSE {})
            \cup (IF o \cap {"write", "append"} # {} THEN {"WRITE"} ELSE {})
\* perm_to_cap of the default modes of files and directories.
perm_to_cap(node) == IF node = "dir" THEN {"READ", "WRITE", "EXECUTE"} ELSE {"READ", "WRITE"}

\* WithCap::access.
Access(h, cap) == file[h] # NIL /\ cap \subseteq file[h].cap

Init ==
    /\ main \in {"ram", "fat"} /\ content = << >> /\ expected = << >> /\ file = [h \in FileHandle |-> NIL]
    /\ writing = [t \in IoTask |-> NIL] /\ fill = 1

\* _open_at of a node that exists. The FAT library keeps a size with every open
\* file, so its files have one handle at a time here.
open(t, h, node, o) ==
    /\ writing[t] = NIL /\ file[h] = NIL /\ is_valid(o) /\ "create_new" \notin o
    /\ main = "fat" /\ node = "file" => \A k \in FileHandle : file[k] # NIL => file[k].node # "file"
    /\ node = "dir" => o \cap {"create", "write", "append", "truncate"} = {}
    /\ CapOf(o) \subseteq perm_to_cap(node)
    /\ file' = [file EXCEPT ![h] = [node |-> node, cap |-> CapOf(o), append |-> "append" \in o, offset |-> 0]]
    /\ IF "truncate" \in o /\ node = "file" THEN content' = << >> /\ expected' = << >>
       ELSE UNCHANGED <<content, expected>>
    /\ UNCHANGED <<writing, fill>>

close(t, h) ==
    /\ writing[t] = NIL /\ file[h] # NIL /\ file' = [file EXCEPT ![h] = NIL]
    /\ UNCHANGED <<content, expected, writing, fill>>

\* read: what is read is what the position and the length say.
read(t, h, n) ==
    /\ writing[t] = NIL /\ Access(h, {"READ"}) /\ file[h].node # "dir"
    /\ LET got == ReadAt(file[h].node, file[h].offset, n)
       IN  file' = [file EXCEPT ![h].offset = @ + Len(got)]
    /\ file'[h].offset <= MaxOffset
    /\ UNCHANGED <<content, expected, writing, fill>>

Bytes(n) == [i \in 1..n |-> fill]

\* What a call asks for: bytes from a position on, with zeros before them where
\* the file was shorter; or a size. Where the code is known to do otherwise,
\* expected follows the file.
Meant(c, offset, buf) ==
    [i \in 1..(IF offset + Len(buf) > Len(c) THEN offset + Len(buf) ELSE Len(c)) |->
        IF i \in (offset + 1)..(offset + Len(buf)) THEN buf[i - offset] ELSE IF i <= Len(c) THEN c[i] ELSE 0]
Sized(c, n) == [i \in 1..n |-> IF i <= Len(c) THEN c[i] ELSE 0]
Expect(c, known) == expected' = IF known THEN content' ELSE c
BeyondFat(offset) == main = "fat" /\ offset > Len(content)

\* Variant: an append writes at the cursor.
write_at_cursor(t, h, n) ==
    /\ writing[t] = NIL /\ Access(h, {"WRITE"}) /\ file[h].node # "dir" /\ file[h].offset + n <= MaxOffset
    /\ writing' = [writing EXCEPT ![t] = [h |-> h, n |-> n, size |-> NodeSize(file[h].node)]]
    /\ UNCHANGED <<file, content, expected, fill>>

\* write: an append takes the size first ...
write(t, h, n) ==
    /\ writing[t] = NIL /\ Access(h, {"WRITE"}) /\ file[h].node # "dir"
    /\ file' = IF file[h].append THEN [file EXCEPT ![h].offset = NodeSize(file[h].node)] ELSE file
    /\ file'[h].offset + n <= MaxOffset
    /\ writing' = [writing EXCEPT ![t] = [h |-> h, n |-> n, size |-> NodeSize(file[h].node)]]
    /\ UNCHANGED <<content, expected, fill>>

\* ... and then writes there. (Overtaken: the size has changed in between.)
WriteNode(t) ==
    LET h == writing[t].h
        n == writing[t].n
        overtaken == file[h].append /\ writing[t].size # Len(content)
    IN  /\ writing[t] # NIL /\ writing' = [writing EXCEPT ![t] = NIL]
        /\ file' = [file EXCEPT ![h].offset = @ + n] /\ fill' = (fill % 2) + 1
        /\ IF file[h].node = "file"
           THEN /\ content' = WriteAt(content, file[h].offset, Bytes(n))
                /\ Expect(Meant(expected, IF file[h].append THEN Len(expected) ELSE file[h].offset, Bytes(n)),
                          overtaken \/ BeyondFat(file[h].offset))
           ELSE UNCHANGED <<content, expected>>

\* write_at, which has no cursor.
write_at(t, h, offset, n) ==
    /\ writing[t] = NIL /\ Access(h, {"WRITE"}) /\ file[h].node = "file"
    /\ content' = WriteAt(content, offset, Bytes(n))
    /\ Expect(Meant(expected, offset, Bytes(n)), BeyondFat(offset))
    /\ fill' = (fill % 2) + 1 /\ UNCHANGED <<file, writing>>

\* seek: a position before the start is an error.
seek(t, h, from, off) ==
    /\ writing[t] = NIL /\ file[h] # NIL
    /\ LET base == CASE from = "Start" -> 0 [] from = "Current" -> file[h].offset
                     [] from = "End" -> NodeSize(file[h].node)
       IN  /\ base + off >= 0 /\ base + off <= MaxOffset
           /\ file' = [file EXCEPT ![h].offset = base + off]
    /\ UNCHANGED <<content, expected, writing, fill>>

truncate(t, h, n) ==
    /\ writing[t] = NIL /\ Access(h, {"WRITE"}) /\ file[h].node = "file"
    /\ content' = Truncate(content, n) /\ Expect(Sized(expected, n), BeyondFat(n))
    /\ UNCHANGED <<file, writing, fill>>

Step ==
    \/ \E t \in IoTask : \E h \in Uses[t] :
          \/ \E node \in Nodes[h], o \in Options[t] : open(t, h, node, o)
          \/ close(t, h)
          \/ \E n \in ReadSizes : read(t, h, n)
          \/ \E n \in WriteSizes : write(t, h, n) \/ truncate(t, h, n) \/ \E p \in {0, 1} : write_at(t, h, p, n)
          \/ \E from \in {"Start", "Current", "End"}, off \in {-1, 0, 1} : seek(t, h, from, off)
    \/ \E t \in IoTask : WriteNode(t)
Next == Step /\ UNCHANGED main

-----------------------------------------------------------------------------
\* The content of the file is what the calls asked for, and a read at a cursor
\* finds it: a write starts at the position asked for, an append at the end,
\* other bytes stay, and a file opened for reading changes nothing. Two cases
\* are excepted, where the code does otherwise: an append that another call
\* overtakes between asking for the size and writing (fops.rs:202), and a
\* position or size beyond the end of a FAT file, which becomes the end
\* (fatfs.rs:83). A FAT file has one handle at a time here.
WritesAreWhole ==
    /\ content = expected
    /\ \A h \in FileHandle, n \in ReadSizes : file[h] # NIL /\ file[h].node = "file" =>
          ReadAt("file", file[h].offset, n)
            = SubSeq(expected, file[h].offset + 1, Least(Len(expected), file[h].offset + n))


-----------------------------------------------------------------------------
align_up(n) == ((n + BLOCK_SIZE - 1) \div BLOCK_SIZE) * BLOCK_SIZE
DiskSize == Len(data)
\* RamDisk::read_block and write_block of one block.
HasBlock(b) == b * BLOCK_SIZE + BLOCK_SIZE <= DiskSize
Block(b) == SubSeq(data, b * BLOCK_SIZE + 1, (b + 1) * BLOCK_SIZE)
write_block(b, buf) ==
    [i \in DOMAIN data |-> IF (i - 1) \div BLOCK_SIZE = b THEN buf[((i - 1) % BLOCK_SIZE) + 1] ELSE data[i]]

position == block_id * BLOCK_SIZE + block_offset
set_position(pos) == block_id' = pos \div BLOCK_SIZE /\ block_offset' = pos % BLOCK_SIZE

\* What a transfer on a plain array does, as far as the array goes.
Within(len) == IF at >= Len(flat) THEN 0 ELSE Least(len, Len(flat) - at)
FlatRead(len) == SubSeq(flat, at + 1, at + Within(len))
FlatWrite(buf) ==
    [i \in DOMAIN flat |-> IF i > at /\ i <= at + Len(buf) THEN buf[i - at] ELSE flat[i]]

DiskInit ==
    \E hint \in SizeHints :
       /\ data = [i \in 1..align_up(hint) |-> 0] /\ flat = data
       /\ block_id = 0 /\ block_offset = 0 /\ at = 0 /\ io = NIL /\ mark = 1

\* read and write of fatfs: a loop of read_one and write_one.
disk_read(len) ==
    /\ io = NIL /\ io' = [op |-> "read", left |-> len, buf |-> << >>, want |-> FlatRead(len), res |-> "go"]
    /\ at' = at + Within(len) /\ UNCHANGED <<data, block_id, block_offset, flat, mark>>
disk_write(len) ==
    LET buf == [i \in 1..len |-> mark]
    IN  /\ io = NIL /\ io' = [op |-> "write", left |-> len, buf |-> buf, want |-> << >>, res |-> "go"]
        /\ flat' = FlatWrite(buf) /\ at' = at + Within(len) /\ mark' = 3 - mark
        /\ UNCHANGED <<data, block_id, block_offset>>

\* One block, or the part of it from offset; count bytes of it.
WholeBlock == block_offset = 0 /\ io.left >= BLOCK_SIZE
Count == IF WholeBlock THEN BLOCK_SIZE ELSE Least(io.left, BLOCK_SIZE - block_offset)
Advance ==
    IF WholeBlock THEN block_id' = block_id + 1 /\ block_offset' = block_offset
    ELSE IF block_offset + Count >= BLOCK_SIZE
    THEN block_id' = block_id + 1 /\ block_offset' = block_offset + Count - BLOCK_SIZE
    ELSE block_id' = block_id /\ block_offset' = block_offset + Count

read_one ==
    /\ io # NIL /\ io.op = "read" /\ io.res = "go" /\ io.left > 0
    /\ IF ~HasBlock(block_id) THEN io' = [io EXCEPT !.res = "err"] /\ UNCHANGED <<block_id, block_offset>>
       ELSE /\ io' = [io EXCEPT !.left = @ - Count,
                                !.buf = @ \o SubSeq(Block(block_id), block_offset + 1, block_offset + Count)]
            /\ Advance
    /\ UNCHANGED <<data, flat, at, mark>>

write_one ==
    /\ io # NIL /\ io.op = "write" /\ io.res = "go" /\ io.left > 0
    /\ IF ~HasBlock(block_id) THEN io' = [io EXCEPT !.res = "err"] /\ UNCHANGED <<data, block_id, block_offset>>
       ELSE /\ data' = write_block(block_id, [i \in 1..BLOCK_SIZE |->
                          IF i > block_offset /\ i <= block_offset + Count THEN io.buf[i - block_offset]
                          ELSE Block(block_id)[i]])
            /\ io' = [io EXCEPT !.left = @ - Count, !.buf = SubSeq(@, Count + 1, Len(@))] /\ Advance
    /\ UNCHANGED <<flat, at, mark>>

\* The call returns; after an error the cursor is where the error was.
DiskReturn ==
    /\ io # NIL /\ (io.res = "err" \/ io.left = 0) /\ io' = NIL
    /\ UNCHANGED <<data, block_id, block_offset, flat, at, mark>>

\* seek: beyond the end is allowed, before the start is an error.
disk_seek(from, off) ==
    LET base == CASE from = "Start" -> 0 [] from = "Current" -> position [] from = "End" -> DiskSize
    IN  /\ io = NIL /\ base + off >= 0 /\ base + off <= MaxPosition
        /\ set_position(base + off) /\ at' = base + off
        /\ UNCHANGED <<data, io, flat, mark>>

DiskNext ==
    \/ \E len \in Lengths : disk_read(len) \/ disk_write(len)
    \/ read_one \/ write_one \/ DiskReturn
    \/ \E from \in {"Start", "Current", "End"}, off \in Moves : disk_seek(from, off)

-----------------------------------------------------------------------------
\* When no transfer runs the disk is the plain array: the bytes around a
\* write that starts or ends inside a block are kept, and the cursor is where
\* the bytes moved leave it, after an error at the end of the disk too.
DiskIsFlat ==
    /\ io = NIL => data = flat /\ position = at
    /\ io # NIL /\ io.op = "read" /\ (io.left = 0 \/ io.res = "err") => io.buf = io.want
=============================================================================
