------------------------------- MODULE MCUser -------------------------------
(***************************************************************************)
(* What programs use (files, descriptors, threads, streams, the C          *)
(* library), checked one after the other: the variable part selects the    *)
(* module whose steps are taken, the others stay in an initial state.      *)
(***************************************************************************)
EXTENDS Integers, Sequences

CONSTANTS Parts, NIL,
          MaxNodes,
          WriteSizes, ReadSizes, MaxOffset,
          MAX_CMD_LEN, LineKeys, MaxDepth, NAME_LEN, Dirents, MayChange,
          BLOCK_SIZE, SizeHints, Lengths, MaxPosition,
          Newline, BUF_SIZE, Lens, MaxSent,
          CAP, STDIO, o1, o2, std, MaxInput,
          Thread, Main, Pthreads, Values,
          WIDTH, HEIGHT, STDIN_BUFFER_SIZE, DebugLevels, Keys, MaxKeys,
          Uarts, FifoSize, BufSize, MaxCalls,
          Memories, Bases, LONG_MAX, GROW,
          DaySecs, Formats, Sizes,
          BufSizes, INTBUF, PtrWidth,
          Features, IntBits, Counts, Failures, NameLists, MAXADDRS, Explained

VARIABLES part,
          nodes, CURRENT_DIR, CURRENT_DIR_PATH, job, owned, raced, moved, lost,
          main, content, expected, file, writing, fill,
          cmdline, cursor, seen, column, cmds, before, line, dir, children, listing, listed,
          data, block_id, block_offset, io, flat, at, mark,
          source, buf, pos, got, reader, rcall, skipped, sink, given, fbuf, wcall,
          table, count, kind, arc, mutex, input, nonblocking, interest, call,
          tstate, creating, inited, registry, boxed, packet, holders, joining, joined, ended, astray, panicked,
          unknown,
          smp, vmem, current_x, current_y, current_color, vstate, val, log_lock, vga_lock, stdout, print,
          LEVEL_DEBUG, text, ink, ring, head, tail, size, typed, taken,
          uart, dev, left, rx, tx, accepted, inLock, outLock, inBuf, reading, calls, results, written,
          query, instant, format,
          tls, errno, strerror_buf, wrapper, result, addrs, heap, last, mine, disturbed

-----------------------------------------------------------------------------
\* Paths, as their components: absolute and relative, through mount points,
\* with "..", doubled and trailing slashes, and over a missing directory.
Root == << >>
A == <<"a">>
F == <<"f">>
MCFilePaths == {<<Root, F>>, <<F>>, <<Root, <<"tmp">>, F>>, <<<<"..">>, F>>, <<Root, <<"dev">>, <<"null">>>>}
MCDirPaths == {<<Root, A>>, <<A, Root>>, <<Root, A, <<"..">>, <<"dev">>>>}
MCMvPaths == {<<Root, F>>, <<Root, <<"tmp">>, F>>, <<Root, <<"g">>>>}
MCCdPaths == {<<Root>>, <<Root, <<"tmp">>>>, <<A>>}
MCCan == [t \in {"t1", "t2"} |-> IF t = "t1" THEN {"create_new", "create_dir", "set_current_dir"}
                                             ELSE {"remove_file", "remove_dir", "rename"}]
\* Both tasks create one of two files, and one removes.
MCCreates == [t \in {"t1", "t2"} |-> IF t = "t1" THEN {"create_new", "remove_file"} ELSE {"create", "create_new"}]

\* One task opens the file, a device or a directory in every way, the other
\* reads and appends.
MCUses == [t \in {"t1", "t2"} |-> IF t = "t1" THEN {"h1"} ELSE {"h2"}]
MCNodes == [h \in {"h1", "h2"} |-> IF h = "h1" THEN {"file", "null", "zero", "dir"} ELSE {"file"}]
MCOptions == [t \in {"t1", "t2"} |->
                IF t = "t2" THEN {{"read", "append"}}
                ELSE {{"append"}, {"read", "write"}, {"write", "truncate", "create"}, {"read", "truncate"}}]

\* What is run in the shell, and the names in a directory that is listed: short
\* ones, one that fills its place and one that is too long.
B == " "
MCLines == {<<"echo", B, "a", ">", "f">>, <<"echo", B, "b", B, ">", B, "f", B, "a">>,
            <<B, "echo", B, "a", ">", "b", ">", "d">>, <<"echo", B, "a", B, ">">>,
            <<"cat", B, "f", B, "d">>, <<"cat">>, <<"mkdir", B, "d">>, <<"mkdir">>, <<"cd", B, "d">>,
            <<"cd">>, <<"cd", B, "f", B, "d">>, <<"rm", B, "f", B, "d">>, <<"rm", B, "d", B, "-d">>, <<"rm">>,
            <<"ls">>, <<"ls", B, "f", B, "d">>, <<B>>, <<"pwd">>, <<"exit">>, <<"f">>}
MCEntries == {<<1>>, <<1, 2>>, <<2>>, <<1, 2, 1>>, <<2, 1, 1, 2>>}

\* One task closes and receives while the other makes every call.
MCCalls == [t \in {"t1", "t2"} |->
              IF t = "t1" THEN {"close"}
              ELSE {"epoll_wait", "epoll_create", "epoll_ctl", "tcp", "open", "read", "recv", "fcntl",
                    "listen", "accept", "select", "dup", "dup2", "lseek", "fstat", "write", "send",
                    "bind", "connect", "shutdown"}]
MCDups == [t \in {"t1", "t2"} |-> {"open", "read", "dup2", "close"}]

\* What is printed: a coloured log line with a newline and a backspace inside,
\* and a debug line that goes back too far.
Char(c) == <<"ch", c>>
Color(digits) == <<"color", digits>>
MCMessage == [log |-> <<Color(<<"3", "1">>), Char("nl"), Char("A"), Char("B"), Char("bs"), Color(<< >>),
                        Char("nl")>>,
              println |-> <<Char("d"), Char("e"), Char("nl")>>,
              pinfo |-> <<Char("I"), <<"set_color">>, Char("i"), Char("nl")>>,
              pdebug |-> <<Char("D"), <<"set_color">>, Char("bs"), Char("bs")>>]
MCKinds == [p \in {"p1", "p2"} |-> IF p = "p1" THEN {"log", "println"} ELSE {"println", "pinfo", "pdebug"}]
MCText == [t \in {"t1", "t2"} |-> IF t = "t1" THEN <<"x", "nl">> ELSE <<"cr", "y">>]

\* Strings, numerals (ASCII: blank, signs, digits, letters) and addresses.
Strings(chars, lengths) == UNION {[1..n -> chars] : n \in lengths}
MCHaystacks == Strings(1..2, {0, 3}) \cup {<<1, 2>> \o s : s \in Strings(1..2, {7})}
MCNeedles == Strings(1..2, {0, 1, 5}) \cup {<<1, 2>>, <<2, 1, 1>>, <<1, 2, 2, 1>>, <<3>>, <<3, 1>>}
MCNumerals == Strings({32, 45, 48, 55, 120}, 0..3)
                \cup {<<45, 49, 50, 56>>, <<45, 49, 50, 57>>, <<50, 53, 53>>, <<50, 53, 54>>,
                      <<43, 48, 120, 55, 102>>}
MCAddresses == [1..8 -> {0, 160}]

\* Days around the turns of years and of four, a hundred and four hundred.
MCDays == {-1, 0, 1, 58, 59, 60, 364, 365, 366, 789, 790, 10956, 10957, 11322, 11323}
            \cup {11017 + k * 146097 + j : k \in {-1, 0},
                  j \in {-2, -1, 0, 1, 1460, 1461, 1462, 36523, 36524, 36525, 146095, 146096}}
            \cup {i * 377 : i \in -120..120}

\* printf: flags, width, precision and length of every conversion.
FlagSeqs == {<< >>, <<"0">>, <<"-">>, <<"+">>, <<" ">>, <<"#">>, <<"#", "0">>, <<"+", "0">>, <<"-", "0">>,
             <<"-", "#">>, <<" ", "0">>, <<"-", "+">>}
WidthSeqs == {<< >>, <<"5">>, <<"*">>}
PrecisionSeqs == {<< >>, <<".">>, <<".", "0">>, <<".", "3">>}
MCFormats ==
    {<<"%">> \o f \o w \o p \o l \o <<c, "!">> :
        f \in FlagSeqs, w \in WidthSeqs, p \in PrecisionSeqs, l \in {<< >>, <<"h", "h">>},
        c \in {"d", "u", "x", "X", "o"}}
      \cup {<<"%">> \o f \o w \o p \o <<"s", "!">> :
               f \in {<< >>, <<"-">>}, w \in WidthSeqs \ {<<"*">>}, p \in PrecisionSeqs}
      \cup {<<"%", "c", "%", "%", "!">>, <<"%", "p">>, <<"%", "5", "l">>, <<"%", "b", "!">>,
            <<"%", "l", "l", "i", "!">>, <<"%", "z", "u", "!">>, <<"%", "h", "i", "!">>}
MCPrintInts == {0, 1, 8, 200, 300, -5, -300}
MCPrintStrings == {<<"a", "b", "c", "d">>, << >>, <<"NULL">>}

\* One thread makes every kind of call, the other fails now and then.
MCWrappers == [t \in {"t1", "t2"} |->
                 IF t = "t1" THEN {"nanosleep", "read", "getcwd", "dup3", "writev", "getaddrinfo", "strerror"}
                 ELSE {"lseek"}]

Names == INSTANCE Vfs WITH FsTask <- {"t1", "t2"}, Can <- MCCan, FilePaths <- MCFilePaths,
                           DirPaths <- MCDirPaths, MvPaths <- MCMvPaths, CdPaths <- MCCdPaths
Races == INSTANCE Vfs WITH FsTask <- {"t1", "t2"}, Can <- MCCreates,
                           FilePaths <- {<<Root, F>>, <<Root, <<"tmp">>, F>>},
                           DirPaths <- {}, MvPaths <- {}, CdPaths <- {}
\* A directory is made, entered, and directories are renamed around it.
Moving == INSTANCE Vfs WITH FsTask <- {"t1", "t2"}, Can <- MCCan, FilePaths <- {},
                            DirPaths <- {<<Root, A>>, <<<<"g">>>>},
                            MvPaths <- {<<Root, A>>, <<<<"..">>, <<"dev">>>>, <<<<"g">>>>},
                            CdPaths <- {<<Root>>, <<A>>}, MaxNodes <- MaxNodes - 1
Files == INSTANCE FileIo WITH IoTask <- {"t1", "t2"}, FileHandle <- {"h1", "h2"}, Uses <- MCUses,
                              Nodes <- MCNodes, Options <- MCOptions, Moves <- {-2, 0, 1, 3}
Commands == INSTANCE Shell WITH buf <- cmdline, Lines <- MCLines, Entries <- MCEntries
Buffers == INSTANCE BufIo WITH Data <- <<1, 2, 0, 3, 4>>
Fds == INSTANCE Posix WITH PosixTask <- {"t1", "t2"}, Calls <- MCCalls, FileObj <- {o1, o2, std},
                           StdObj <- std
Dups == INSTANCE Posix WITH PosixTask <- {"t1", "t2"}, Calls <- MCDups, FileObj <- {o1, o2, std},
                            StdObj <- std
Threads == INSTANCE Thread
Screen == INSTANCE Console WITH Printer <- {"p1", "p2"}, Kinds <- MCKinds, Message <- MCMessage
Tty == INSTANCE Serial WITH Task <- {"t1", "t2"}, Typed <- <<"a", "cr", "b">>, Text <- MCText,
                            ReadSizes <- {3}, call <- reading
Strs == INSTANCE CString WITH Haystacks <- MCHaystacks, Needles <- MCNeedles, Numerals <- MCNumerals,
                              Addresses <- MCAddresses, Days <- MCDays
Printf == INSTANCE CPrintf WITH PrintFormats <- MCFormats, PrintInts <- MCPrintInts,
                                PrintStrings <- MCPrintStrings, PrintWidths <- {6, -4}, job <- format
Wrappers == INSTANCE Errno WITH Caller <- {"t1", "t2"}, Calls <- MCWrappers, Vectors <- {<<3>>, <<3, 2>>},
                                call <- wrapper

names == <<nodes, CURRENT_DIR, CURRENT_DIR_PATH, job, owned, raced, moved, lost>>
files == <<main, content, expected, file, writing, fill>>
commands == <<cmdline, cursor, seen, column, cmds, before, line, dir, children, listing, listed>>
disk == <<data, block_id, block_offset, io, flat, at, mark>>
buffers == <<source, buf, pos, got, reader, rcall, skipped, sink, given, fbuf, wcall>>
fds == <<table, count, kind, arc, mutex, input, nonblocking, interest, call>>
threads == <<tstate, creating, inited, registry, boxed, packet, holders, joining, joined, ended, astray,
             panicked, unknown>>
screen == <<smp, vmem, current_x, current_y, current_color, vstate, val, log_lock, vga_lock, stdout, print,
            LEVEL_DEBUG, text, ink, ring, head, tail, size, typed, taken>>
tty == <<uart, dev, left, rx, tx, accepted, inLock, outLock, inBuf, reading, calls, results, written>>
libc == <<query, instant, format>>
wrappers == <<tls, errno, strerror_buf, wrapper, result, addrs, heap, last, mine, disturbed>>
vars == <<part, names, files, commands, disk, buffers, fds, threads, screen, tty, libc, wrappers>>

-----------------------------------------------------------------------------
\* Of a part that is not selected one initial state is enough.
Init ==
    /\ part \in Parts
    /\ Names!Init /\ Fds!Init /\ Threads!Init /\ Strs!Init /\ Strs!TimeInit /\ Printf!Init
    /\ Files!Init /\ (part # "files" => main = "ram")
    /\ Commands!Init /\ (part # "listing" => dir = "ram")
    /\ Files!DiskInit /\ (part # "disk" => \A n \in SizeHints : Len(data) >= n)
    /\ Buffers!Init /\ (part # "buffers" => reader = NIL)
    /\ Screen!Init /\ (part # "screen" => smp)
    /\ Tty!Init /\ (part # "tty" => uart = "pl011")
    /\ Wrappers!Init /\ (part # "wrappers" => tls)

Next ==
    /\ UNCHANGED part
    /\ \/ /\ part = "names" /\ Names!Next
          /\ UNCHANGED <<files, commands, disk, buffers, fds, threads, screen, tty, libc, wrappers>>
       \/ /\ part = "races" /\ Races!Next
          /\ UNCHANGED <<files, commands, disk, buffers, fds, threads, screen, tty, libc, wrappers>>
       \/ /\ part = "moves" /\ Moving!Next
          /\ UNCHANGED <<files, commands, disk, buffers, fds, threads, screen, tty, libc, wrappers>>
       \/ /\ part = "files" /\ Files!Next
          /\ UNCHANGED <<names, commands, disk, buffers, fds, threads, screen, tty, libc, wrappers>>
       \/ /\ \/ part = "editor" /\ Commands!EditNext
             \/ part = "shell" /\ Commands!CmdNext
             \/ part = "listing" /\ Commands!ListNext
          /\ UNCHANGED <<names, files, disk, buffers, fds, threads, screen, tty, libc, wrappers>>
       \/ /\ part = "disk" /\ Files!DiskNext
          /\ UNCHANGED <<names, files, commands, buffers, fds, threads, screen, tty, libc, wrappers>>
       \/ /\ part = "buffers" /\ Buffers!Next
          /\ UNCHANGED <<names, files, commands, disk, fds, threads, screen, tty, libc, wrappers>>
       \/ /\ \/ part = "fds" /\ Fds!Next
             \/ part = "dups" /\ Dups!Next
          /\ UNCHANGED <<names, files, commands, disk, buffers, threads, screen, tty, libc, wrappers>>
       \/ /\ part = "threads" /\ Threads!Next
          /\ UNCHANGED <<names, files, commands, disk, buffers, fds, screen, tty, libc, wrappers>>
       \/ /\ \/ part = "screen" /\ Screen!PrintNext
             \/ part = "keys" /\ Screen!KeyNext
          /\ UNCHANGED <<names, files, commands, disk, buffers, fds, threads, tty, libc, wrappers>>
       \/ /\ part = "tty" /\ Tty!Next
          /\ UNCHANGED <<names, files, commands, disk, buffers, fds, threads, screen, libc, wrappers>>
       \/ /\ part = "strings" /\ Strs!Next
          /\ UNCHANGED <<names, files, commands, disk, buffers, fds, threads, screen, tty, wrappers, instant, format>>
       \/ /\ part = "times" /\ Strs!TimeNext
          /\ UNCHANGED <<names, files, commands, disk, buffers, fds, threads, screen, tty, wrappers, query, format>>
       \/ /\ part = "printf" /\ Printf!Next
          /\ UNCHANGED <<names, files, commands, disk, buffers, fds, threads, screen, tty, wrappers, query, instant>>
       \/ /\ part = "wrappers" /\ Wrappers!Next
          /\ UNCHANGED <<names, files, commands, disk, buffers, fds, threads, screen, tty, libc>>

Spec == Init /\ [][Next]_vars

-----------------------------------------------------------------------------
\* Mount points stay unless a rename gets at one through "..", the current
\* directory is the one its path names unless that was renamed, and a file made
\* with create_new stays, unless another creation had looked before.
NamesConsistent ==
    part \in {"names", "races", "moves"} =>
        Names!MountPointsStay /\ Names!CurrentDirAgrees /\ Names!CreateNewIsExclusive

\* A file holds the bytes written to it, at the positions asked for, unless these
\* are beyond the end of a FAT file or an append was overtaken; a disk of blocks
\* is a plain array to the cursor over it; a command of the shell changes what
\* it names and nothing else; a listing of a directory that stays as it is names
\* every entry once.
BytesKept ==
    /\ part = "files" => Files!WritesAreWhole
    /\ part = "disk" => Files!DiskIsFlat
    /\ part = "shell" => Commands!CommandsExact
    /\ part = "listing" => Commands!ListingComplete

\* A file lives as long as a descriptor or a call uses it.
FilesAccounted == part \in {"fds", "dups"} => Fds!FilesAccounted

\* Joining a thread gives what it returned, or NULL where the table TID_TO_PTHREAD
\* was made by that thread itself and it left through pthread_exit.
JoinGetsValue == part = "threads" => Threads!JoinGetsValue



\* A C program learns from result and errno what its call did, as long as the
\* number fits c_int and, without feature "tls", no call of another thread fails.
CallsReport == part = "wrappers" => Wrappers!CallsReport

\* axlibc errno.rs:22, strerror "Returns a pointer to the string representation
\* of the given error code", and of no other.
StrerrorText == part = "wrappers" => Wrappers!StrerrorText
=============================================================================
