------------------------------- MODULE Shell --------------------------------
(***************************************************************************)
(* The shell of apps/fs/shell: the editor of its command line, the         *)
(* commands with what they call in axstd::fs, and the directory iterator   *)
(* (the same in axstd and axfs) over read_dir of a ramfs, devfs or FAT     *)
(* directory. A line is a sequence of words, blanks and ">", typed like    *)
(* letters; two words side by side are one. A path is the sequence of its  *)
(* names, and names are relative but for "/".                              *)
(***************************************************************************)
EXTENDS Integers, FiniteSets, SequencesExt

CONSTANTS MAX_CMD_LEN,
          LineKeys,         \* what is typed
          Lines,            \* lines that are run
          MaxDepth,         \* bound: depth of the current directory
          Entries,          \* names in a directory: sequences of bytes
          NAME_LEN,         \* bytes of d_name; 63 in the code
          Dirents,          \* entries of the buffer; 31 in the code
          MayChange,        \* the directory changes while it is listed
          NIL

VARIABLES buf, cursor,      \* the command line
          seen, column,     \* the line of the terminal after the prompt
          cmds,             \* file system, current directory, output, whether it runs
          before, line,     \* the file system before the last command, and the command
          dir, children,    \* a directory and its kind
          listing, listed   \* an iterator over it, and what it returned

editor == <<buf, cursor, seen, column>>
listings == <<dir, children, listing, listed>>
vars == <<editor, cmds, before, line, listings>>

-----------------------------------------------------------------------------
\* VfsNodePerm: bit 8 is OWNER_READ, bit 0 is OTHER_EXEC.
default_file == {8, 7, 5, 4, 2, 1}
default_dir == {8, 7, 6, 5, 3, 2, 0}
rwx_buf(mode) ==
    [i \in 1..9 |-> IF 9 - i \notin mode THEN "-"
                    ELSE CASE i \in {1, 4, 7} -> "r" [] i \in {2, 5, 8} -> "w" [] i \in {3, 6, 9} -> "x"]
as_char(ty) ==
    CASE ty = "Fifo" -> "p" [] ty = "CharDevice" -> "c" [] ty = "Dir" -> "d" [] ty = "BlockDevice" -> "b"
      [] ty = "File" -> "-" [] ty = "SymLink" -> "l" [] ty = "Socket" -> "s"
VfsNodeType == {"Fifo", "CharDevice", "Dir", "BlockDevice", "File", "SymLink", "Socket"}
new_file(size) == [mode |-> default_file, ty |-> "File", size |-> size]
new_dir(size) == [mode |-> default_dir, ty |-> "Dir", size |-> size]

\* The same in the shell.
file_type_to_char(ty) ==
    CASE ty = "CharDevice" -> "c" [] ty = "BlockDevice" -> "b" [] ty = "Socket" -> "s" [] ty = "Fifo" -> "p"
      [] ty = "SymLink" -> "l" [] ty = "Dir" -> "d" [] ty = "File" -> "-" [] OTHER -> "?"
Rwx(bit) == CASE bit % 3 = 2 -> "r" [] bit % 3 = 1 -> "w" [] bit % 3 = 0 -> "x"
file_perm_to_rwx(mode) ==
    [i \in 1..9 |-> IF \E bit \in mode : 8 - bit = i - 1 THEN Rwx(CHOOSE bit \in mode : 8 - bit = i - 1) ELSE "-"]

-----------------------------------------------------------------------------
\* What axstd::fs does to a state of the shell (file system fs, cwd, output).
IsDir(s, path) == path \in DOMAIN s.fs /\ s.fs[path].ty = "Dir"
IsFile(s, path) == path \in DOMAIN s.fs /\ s.fs[path].ty = "File"
ChildrenOf(s, path) == {p \in DOMAIN s.fs : Len(p) = Len(path) + 1 /\ IsPrefix(path, p)}
PathOf(s, word) == IF word = <<"/">> THEN << >> ELSE Append(s.cwd, word)
Say(s, what) == [s EXCEPT !.out = Append(@, what)]
Put(s, path, node) == [s EXCEPT !.fs = [p \in DOMAIN @ \cup {path} |-> IF p = path THEN node ELSE @[p]]]
Drop(s, path) == [s EXCEPT !.fs = [p \in DOMAIN @ \ {path} |-> @[p]]]
FileNode(data) == [ty |-> "File", data |-> data]
DirNode == [ty |-> "Dir", data |-> << >>]

\* metadata, through File::open, which opens directories too.
metadata(s, path) == IF IsDir(s, path) THEN new_dir(0) ELSE new_file(Len(s.fs[path].data))
\* File::create and the writes into it; it fails on a directory.
CreateFile(s, path, data) == IF IsDir(s, path) THEN Say(s, "err") ELSE Put(s, path, FileNode(data))
create_dir(s, path) == IF path \in DOMAIN s.fs THEN Say(s, "err") ELSE Put(s, path, DirNode)
remove_dir(s, path) ==
    IF path # << >> /\ IsDir(s, path) /\ ChildrenOf(s, path) = {} THEN Drop(s, path) ELSE Say(s, "err")
remove_file(s, path) == IF IsFile(s, path) THEN Drop(s, path) ELSE Say(s, "err")
set_current_dir(s, path) == IF IsDir(s, path) THEN [s EXCEPT !.cwd = path] ELSE Say(s, "err")

-----------------------------------------------------------------------------
\* str::trim, split_whitespace of str, and the shell's split_whitespace: the
\* first word and the rest.
Solid(str) == {i \in DOMAIN str : str[i] # " "}
Trim(str) ==
    IF Solid(str) = {} THEN << >>
    ELSE SubSeq(str, CHOOSE i \in Solid(str) : \A j \in Solid(str) : i <= j,
                     CHOOSE i \in Solid(str) : \A j \in Solid(str) : j <= i)
WordEnd(str, i) == CHOOSE j \in i..Len(str) : i..j \subseteq Solid(str) /\ j + 1 \notin Solid(str)
Words(str) ==
    LET starts == SetToSortSeq({i \in Solid(str) : i - 1 \notin Solid(str)}, <)
    IN  [n \in DOMAIN starts |-> SubSeq(str, starts[n], WordEnd(str, starts[n]))]
split_whitespace(str) ==
    LET t == Trim(str)
        n == SelectInSeq(t, LAMBDA c : c = " ")
    IN  IF n = 0 THEN <<t, << >>>> ELSE <<SubSeq(t, 1, n - 1), Trim(SubSeq(t, n + 1, Len(t)))>>

\* ls: type, permissions, size and name of a file or of the entries of a
\* directory, in order.
show_entry_info(s, path, entry) ==
    LET m == metadata(s, path)
    IN  Say(s, <<file_type_to_char(m.ty), file_perm_to_rwx(m.mode), m.size, entry>>)
InOrder(paths) == SetToSeq(paths)     \* some order of names stands for that of strings
list_one(s, path, name, print_name) ==
    LET head == IF print_name THEN Say(s, name) ELSE s
    IN  IF path \notin DOMAIN s.fs THEN Say(s, "err")
        ELSE IF ~IsDir(s, path) THEN show_entry_info(s, path, name)
        ELSE FoldLeft(LAMBDA acc, p : show_entry_info(acc, p, Last(p)), head, InOrder(ChildrenOf(s, path)))
do_ls(s, args) ==
    LET names == Words(args)
    IN  IF args = << >> THEN list_one(s, s.cwd, s.cwd, FALSE)
        ELSE FoldLeft(LAMBDA acc, w : list_one(acc, PathOf(s, w), w, Len(names) > 1), s, names)

\* cat: a directory can be opened and not read.
cat_one(s, path) == IF IsFile(s, path) THEN Say(s, s.fs[path].data) ELSE Say(s, "err")
do_cat(s, args) ==
    IF args = << >> THEN Say(s, "err") ELSE FoldLeft(LAMBDA acc, w : cat_one(acc, PathOf(s, w)), s, Words(args))

\* echo: to the file after the last ">", which the text goes around.
EchoTo(s, text_before, after) ==
    LET fname == after[1]
        text_after == after[2]
    IN  IF fname = << >> THEN Say(s, "err")
        ELSE CreateFile(s, PathOf(s, fname),
                        text_before \o (IF text_after # << >> THEN <<" ">> ELSE << >>) \o text_after \o <<"nl">>)
do_echo(s, args) ==
    LET at == SelectLastInSeq(args, LAMBDA c : c = ">")
    IN  IF at = 0 THEN Say(s, args)
        ELSE EchoTo(s, Trim(SubSeq(args, 1, at - 1)), split_whitespace(SubSeq(args, at + 1, Len(args))))

do_mkdir(s, args) ==
    IF args = << >> THEN Say(s, "err")
    ELSE FoldLeft(LAMBDA acc, w : create_dir(acc, PathOf(s, w)), s, Words(args))

\* rm: with -d anywhere, directories are removed as directories.
rm_one(s, path, rm_dir) ==
    IF rm_dir /\ path \notin DOMAIN s.fs THEN Say(s, "err")
    ELSE IF rm_dir /\ IsDir(s, path) THEN remove_dir(s, path) ELSE remove_file(s, path)
do_rm(s, args) ==
    LET words == Words(args)
        rm_dir == Contains(words, <<"-d">>)
    IN  IF args = << >> THEN Say(s, "err")
        ELSE FoldLeft(LAMBDA acc, w : IF w = <<"-d">> THEN acc ELSE rm_one(acc, PathOf(s, w), rm_dir), s, words)

do_cd(s, args) ==
    IF args = << >> THEN set_current_dir(s, << >>)
    ELSE IF ~Contains(args, " ") THEN set_current_dir(s, PathOf(s, args)) ELSE Say(s, "err")

\* pwd, uname, help, exit.
do_pwd(s, args) == Say(s, s.cwd)
do_uname(s, args) == Say(s, "ArceOS")
do_help(s, args) == Say(s, "commands")
do_exit(s, args) == [Say(s, "Bye~") EXCEPT !.runs = FALSE]

run_cmd(s, str) ==
    LET cmd == split_whitespace(str)[1]
        args == split_whitespace(str)[2]
    IN  CASE cmd = << >> -> s
          [] cmd = <<"cat">> -> do_cat(s, args)
          [] cmd = <<"cd">> -> do_cd(s, args)
          [] cmd = <<"echo">> -> do_echo(s, args)
          [] cmd = <<"exit">> -> do_exit(s, args)
          [] cmd = <<"help">> -> do_help(s, args)
          [] cmd = <<"ls">> -> do_ls(s, args)
          [] cmd = <<"mkdir">> -> do_mkdir(s, args)
          [] cmd = <<"pwd">> -> do_pwd(s, args)
          [] cmd = <<"rm">> -> do_rm(s, args)
          [] cmd = <<"uname">> -> do_uname(s, args)
          [] OTHER -> Say(s, "command not found")

-----------------------------------------------------------------------------
\* VfsDirEntry: a name in NAME_LEN bytes, filled with zeros; one that is longer
\* is a panic, after the warning. name_as_bytes takes it out again.
Fits(name) == Len(name) <= NAME_LEN
VfsDirEntry(name) == [i \in 1..NAME_LEN |-> IF i <= Len(name) THEN name[i] ELSE 0]
name_as_bytes(d_name) ==
    SubSeq(d_name, 1, LET zero == SelectInSeq(d_name, LAMBDA c : c = 0) IN IF zero = 0 THEN NAME_LEN ELSE zero - 1)

Dot == <<46>>
DotDot == <<46, 46>>

\* The order of names in a BTreeMap; FAT's own order is left out.
NameBefore(a, b) ==
    \/ IsStrictPrefix(a, b)
    \/ \E i \in DOMAIN a \cap DOMAIN b : a[i] < b[i] /\ SubSeq(a, 1, i - 1) = SubSeq(b, 1, i - 1)
Sorted(names) == SetToSortSeq(names, NameBefore)

\* read_dir from index idx: ramfs and devfs number "." and ".." 0 and 1; in FAT
\* they are entries of every directory but the root.
Filled(names, idx) == SubSeq(names, idx + 1, IF idx + Dirents < Len(names) THEN idx + Dirents ELSE Len(names))
RamReadDir(idx) == Filled(<<Dot, DotDot>> \o Sorted(children), idx)
DevReadDir(idx) == Filled(<<Dot, DotDot>> \o Sorted(children), idx)
FatReadDir(idx) == Filled((IF dir = "fat root" THEN << >> ELSE <<Dot, DotDot>>) \o Sorted(children), idx)
ReadDir(idx) ==
    CASE dir = "ram" -> RamReadDir(idx) [] dir = "dev" -> DevReadDir(idx) [] OTHER -> FatReadDir(idx)

ReadDirNew ==
    /\ listing = NIL /\ listing' = [dirent_buf |-> << >>, pos |-> 0, idx |-> 0, end |-> FALSE, panicked |-> FALSE]
    /\ listed' = << >> /\ UNCHANGED children

\* Iterator::next: the buffer is filled when it was used up; nothing is the end.
Refill ==
    /\ listing # NIL /\ listing.pos >= Len(listing.dirent_buf) /\ ~listing.end /\ ~listing.panicked
    /\ LET names == ReadDir(listing.idx)
       IN  listing' = IF \E i \in DOMAIN names : ~Fits(names[i]) THEN [listing EXCEPT !.panicked = TRUE]
                      ELSE IF names = << >> THEN [listing EXCEPT !.end = TRUE]
                      ELSE [listing EXCEPT !.dirent_buf = [i \in DOMAIN names |-> VfsDirEntry(names[i])],
                                           !.pos = 0, !.idx = @ + Len(names)]
    /\ UNCHANGED <<children, listed>>

Take ==
    /\ listing # NIL /\ listing.pos < Len(listing.dirent_buf) /\ ~listing.panicked
    /\ LET name == name_as_bytes(listing.dirent_buf[listing.pos + 1])
       IN  /\ listing' = [listing EXCEPT !.pos = @ + 1]
           /\ listed' = IF name \in {Dot, DotDot} THEN listed ELSE Append(listed, name)
    /\ UNCHANGED children

ListingDrop == listing # NIL /\ listing.end /\ listing' = NIL /\ UNCHANGED <<children, listed>>

\* Another task creates or removes an entry.
Change ==
    /\ dir # "dev" /\ (~MayChange => listing = NIL)
    /\ \E e \in Entries : children' = IF e \in children THEN children \ {e} ELSE children \cup {e}
    /\ UNCHANGED <<listing, listed>>

-----------------------------------------------------------------------------
Blank == [i \in 1..MAX_CMD_LEN |-> " "]

\* main: the prompt on a clear line.
Init ==
    /\ buf = Blank /\ cursor = 0 /\ seen = Blank /\ column = 0
    /\ cmds = [fs |-> (<< >> :> DirNode), cwd |-> << >>, out |-> << >>, runs |-> TRUE]
    /\ before = cmds /\ line = << >>
    /\ dir \in {"ram", "dev", "fat root", "fat"}
    /\ children = {e \in Entries : Fits(e)} /\ listing = NIL /\ listed = << >>

RunCmd(str) ==
    LET s == run_cmd([cmds EXCEPT !.out = << >>], str)
    IN  Len(s.cwd) <= MaxDepth /\ cmds' = s /\ before' = cmds /\ line' = str

\* The terminal shows c and moves on, or goes back.
Show(c) == seen' = [seen EXCEPT ![column + 1] = c] /\ column' = column + 1

\* Variant: only the cursor goes back.
EraseLeaves == seen' = seen /\ column' = column - 1
\* Backspace, a blank, backspace.
Erase == seen' = [seen EXCEPT ![column] = " "] /\ column' = column - 1

\* One byte of stdin in the loop of main.
Key(k) ==
    LET c == IF k = "esc" THEN "^" ELSE k
    IN  /\ cmds.runs /\ buf' = [buf EXCEPT ![cursor + 1] = c]
        /\ \/ /\ c \in {"cr", "lf"} /\ seen' = Blank /\ column' = 0 /\ cursor' = 0
              /\ IF cursor > 0 THEN RunCmd(SubSeq(buf, 1, cursor)) ELSE UNCHANGED <<cmds, before, line>>
           \/ /\ c \in {"bs", "del"} /\ UNCHANGED <<cmds, before, line>>
              /\ IF cursor > 0 THEN Erase /\ cursor' = cursor - 1 ELSE UNCHANGED <<seen, column, cursor>>
           \/ c = "ctl" /\ UNCHANGED <<cursor, seen, column, cmds, before, line>>
           \/ /\ c \notin {"cr", "lf", "bs", "del", "ctl"} /\ UNCHANGED <<cmds, before, line>>
              /\ IF cursor < MAX_CMD_LEN - 1 THEN Show(c) /\ cursor' = cursor + 1
                 ELSE UNCHANGED <<seen, column, cursor>>

\* The shell fed key by key; whole lines; a directory that is listed.
EditNext == \E k \in LineKeys : Key(k) /\ UNCHANGED listings
CmdNext == \E str \in Lines : cmds.runs /\ RunCmd(str) /\ UNCHANGED <<editor, listings>>
ListNext ==
    (ReadDirNew \/ Refill \/ Take \/ ListingDrop \/ Change) /\ UNCHANGED <<dir, editor, cmds, before, line>>

-----------------------------------------------------------------------------
\* Whatever is typed, erased, ignored or beyond the end of the line, the user
\* sees the command that Enter will run, and the next byte has a place in buf.
SeenIsTyped ==
    /\ cursor < MAX_CMD_LEN /\ column = cursor
    /\ \A i \in 1..MAX_CMD_LEN : seen[i] = IF i <= cursor THEN buf[i] ELSE " "

Changed == {p \in DOMAIN before.fs \cup DOMAIN cmds.fs :
              ~(p \in DOMAIN before.fs \cap DOMAIN cmds.fs /\ before.fs[p] = cmds.fs[p])}
Named(p) ==
    /\ SubSeq(p, 1, Len(p) - 1) = before.cwd
    /\ \E i \in DOMAIN line : SubSeq(line, i, i + Len(Last(p)) - 1) = Last(p)

\* A command changes only what its line names in the current directory; it
\* removes files, and directories only if they are empty and -d is given; what
\* echo writes to a file is all of its text, in order; the current directory
\* and the directories above every file stay. Modes and types are shown by ls
\* as the file system itself would show them.
CommandsExact ==
    /\ \A p \in Changed : Named(p)
    /\ \A p \in Changed \ DOMAIN cmds.fs :
          IsDir(before, p) => ChildrenOf(before, p) = {} /\ Contains(Words(line), <<"-d">>)
    /\ \A p \in Changed \cap DOMAIN cmds.fs :
          IsFile(cmds, p) =>
             Cardinality(Solid(cmds.fs[p].data)) + Len(Last(p)) + 1 = Cardinality(Solid(line))
    /\ IsDir(cmds, cmds.cwd)
    /\ \A p \in DOMAIN cmds.fs : p # << >> => IsDir(cmds, SubSeq(p, 1, Len(p) - 1))
    /\ line = << >> => /\ \A mode \in SUBSET (0..8) : file_perm_to_rwx(mode) = rwx_buf(mode)
                       /\ \A ty \in VfsNodeType : file_type_to_char(ty) = as_char(ty)

\* A listing that has ended returned every entry once, without "." and "..",
\* however the directory lies across the buffers and however a name fills its
\* place, provided the directory does not change meanwhile (~MayChange); it
\* ends unless a name is too long for its place.
ListingComplete ==
    /\ listing # NIL /\ listing.end =>
          {listed[i] : i \in DOMAIN listed} = children /\ Len(listed) = Cardinality(children)
    /\ listing # NIL /\ listing.panicked => \E e \in children : ~Fits(e)
=============================================================================
