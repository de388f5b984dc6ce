-------------------------------- MODULE Vfs ---------------------------------
(***************************************************************************)
(* The names of axfs: root.rs over a FAT main filesystem (fatfs is         *)
(* external), with devfs at /dev and ramfs at /tmp, /proc and /sys. A name *)
(* is a sequence of parts, so that one may begin with another; a path is a *)
(* sequence of names, where "/" at an end is an empty name. Calls of       *)
(* several tasks interleave where no lock is held from one step to the     *)
(* next.                                                                   *)
(***************************************************************************)
EXTENDS Naturals, Sequences, FiniteSets

CONSTANTS FsTask, Can,      \* the operations each task uses
          FilePaths, DirPaths,  \* of create and remove
          MvPaths, CdPaths,     \* of rename and of set_current_dir
          MaxNodes,         \* bound: files and directories made
          NIL

VARIABLES nodes,            \* kind, filesystem, parent and children by number
          CURRENT_DIR, CURRENT_DIR_PATH,
          job,              \* the call each task is in, NIL outside
          owned,            \* nodes create_new returned that nobody removed
          raced,            \* history: nodes replaced by a creation that had found
                            \* their name free before they were made,
          moved,            \* directories a rename moved, and whether through "..", and
          lost              \* files a rename removed that then failed

vars == <<nodes, CURRENT_DIR, CURRENT_DIR_PATH, job, owned, raced, moved, lost>>
history == <<raced, moved, lost>>

Dot == <<".">>
DotDot == <<"..">>
Dev == <<"dev">>
Tmp == <<"tmp">>
Proc == <<"proc">>
Sys == <<"sys">>
MainRoot == 1
DevRoot == 2
TmpRoot == 3
ProcRoot == 4
SysRoot == 5
\* ROOT_DIR, which is not a node of a filesystem.
ROOT_DIR == 0

Node(kind, fs, parent, kids) == [kind |-> kind, fs |-> fs, parent |-> parent, kids |-> kids]
With(f, k, v) == [x \in DOMAIN f \cup {k} |-> IF x = k THEN v ELSE f[x]]
Without(f, k) == [x \in DOMAIN f \ {k} |-> f[x]]

Ok(n) == [err |-> "ok", node |-> n]
Err(e) == [err |-> e, node |-> NIL]

-----------------------------------------------------------------------------
\* trim_matches('/').
RECURSIVE Trim(_)
Trim(p) ==
    IF p = << >> THEN p
    ELSE IF p[1] = << >> THEN Trim(Tail(p))
    ELSE IF p[Len(p)] = << >> THEN Trim(SubSeq(p, 1, Len(p) - 1))
    ELSE p

RECURSIVE TrimStart(_)
TrimStart(p) == IF p = << >> THEN p ELSE IF p[1] = << >> THEN TrimStart(Tail(p)) ELSE p

\* strip_prefix("./"), again and again.
RECURSIVE Strip(_)
Stripped(q) == IF Len(q) > 1 /\ q[1] = Dot THEN Strip(Tail(q)) ELSE q
Strip(p) == Stripped(Trim(p))

Slash(p) == p[Len(p)] = << >>

\* canonicalize of an absolute path.
RECURSIVE Canon(_, _)
Canon(done, p) ==
    CASE p = << >> -> done
      [] p # << >> /\ p[1] \in {<< >>, Dot} -> Canon(done, Tail(p))
      [] p # << >> /\ p[1] = DotDot ->
           Canon(IF done = << >> THEN done ELSE SubSeq(done, 1, Len(done) - 1), Tail(p))
      [] OTHER -> Canon(Append(done, p[1]), Tail(p))

Absolute(p) == p # << >> /\ p[1] = << >>
absolute_path(p) == Canon(<< >>, IF Absolute(p) THEN p ELSE CURRENT_DIR_PATH \o p)

-----------------------------------------------------------------------------
NameIn(n, name) == IF name \in DOMAIN nodes[n].kids THEN Ok(nodes[n].kids[name]) ELSE Err("NotFound")
ParentOf(n) == IF nodes[n].parent = NIL THEN Err("NotFound") ELSE Ok(nodes[n].parent)

\* The first name of a path, and the rest after its slash.
Split(q) == [name |-> IF q = << >> THEN q ELSE q[1], rest |-> IF Len(q) <= 1 THEN NIL ELSE Tail(q)]
split_path(p) == Split(TrimStart(p))

\* A name in a directory of ramfs; devfs has the same code.
RamChild(n, name) ==
    CASE name \in {<< >>, Dot} -> Ok(n)
      [] name = DotDot -> ParentOf(n)
      [] OTHER -> NameIn(n, name)
DevChild(n, name) == RamChild(n, name)

\* A name in a directory of the FAT library: its root has no "." and "..".
FatChild(n, name) ==
    CASE nodes[n].kind # "dir" -> Err("NotADirectory")
      [] nodes[n].kind = "dir" /\ n = MainRoot /\ name # << >> -> NameIn(n, name)
      [] OTHER -> RamChild(n, name)

RECURSIVE Walk(_, _)
Onto(c, p) == IF c.err # "ok" THEN c ELSE Walk(c.node, p)
Walk(n, p) == IF p = << >> THEN Ok(n) ELSE Onto(FatChild(n, p[1]), Tail(p))

\* lookup of the filesystems, each until ".." leaves it. For FAT every failure
\* is NotFound.
FatFound(r) == IF r.err = "ok" THEN r ELSE Err("NotFound")
FatFind(n, q) == IF q \in {<< >>, <<Dot>>} THEN Ok(n) ELSE FatFound(Walk(n, q))
FatLookup(n, p) == FatFind(n, Strip(p))
RECURSIVE NodeLookup(_, _)
Onward(c, rest) == IF c.err # "ok" \/ rest = NIL THEN c ELSE NodeLookup(c.node, rest)
RamLookup(n, s) == Onward(RamChild(n, s.name), s.rest)
DevLookup(n, s) == Onward(DevChild(n, s.name), s.rest)
NodeLookup(n, p) ==
    CASE nodes[n].kind # "dir" -> Err("NotADirectory")
      [] nodes[n].kind = "dir" /\ nodes[n].fs = "fat" -> FatLookup(n, p)
      [] nodes[n].kind = "dir" /\ nodes[n].fs = "ram" -> RamLookup(n, split_path(p))
      [] OTHER -> DevLookup(n, split_path(p))

\* lookup_mounted_fs: the filesystem whose mount point the path begins with,
\* character by character, and the rest of the path.
Mounts == {<<Dev, DevRoot>>, <<Tmp, TmpRoot>>, <<Proc, ProcRoot>>, <<Sys, SysRoot>>}
StartsWith(name, m) == Len(m) <= Len(name) /\ SubSeq(name, 1, Len(m)) = m
InMount(q, m, first) == [root |-> m[2], rest |-> IF first = << >> THEN Tail(q) ELSE <<first>> \o Tail(q)]
LongestMatch(q, match) ==
    IF match = {} THEN [root |-> MainRoot, rest |-> q]
    ELSE LET m == CHOOSE m \in match : \A k \in match : Len(k[1]) <= Len(m[1])
         IN  InMount(q, m, SubSeq(q[1], Len(m[1]) + 1, Len(q[1])))
MountedAt(q) == LongestMatch(q, {m \in Mounts : q # << >> /\ StartsWith(q[1], m[1])})
lookup_mounted_fs(p) == MountedAt(Strip(p))

\* parent_node_of, and a lookup there.
parent_node_of(p) == IF Absolute(p) THEN ROOT_DIR ELSE CURRENT_DIR
RootLookup(m) == NodeLookup(m.root, m.rest)
LookupAt(n, p) == IF n = ROOT_DIR THEN RootLookup(lookup_mounted_fs(p)) ELSE NodeLookup(n, p)
IsDir(n) == n = ROOT_DIR \/ nodes[n].kind = "dir"
AsNamed(p, r) == IF r.err = "ok" /\ Slash(p) /\ ~IsDir(r.node) THEN Err("NotADirectory") ELSE r
lookup(p) == IF p = << >> THEN Err("NotFound") ELSE AsNamed(p, LookupAt(parent_node_of(p), p))

-----------------------------------------------------------------------------
\* Where create and remove act: the last directory of the path and the name
\* that is left.
Place(n, name) == [err |-> "ok", dir |-> n, name |-> name]
Nowhere(e) == [err |-> e, dir |-> MainRoot, name |-> << >>]
FatPlace(d, name) ==
    IF d.err # "ok" THEN Nowhere(d.err)
    ELSE IF nodes[d.node].kind # "dir" THEN Nowhere("NotADirectory")
    ELSE Place(d.node, name)
FatDescend(n, q) ==
    IF q = << >> THEN Place(n, q) ELSE FatPlace(Walk(n, SubSeq(q, 1, Len(q) - 1)), q[Len(q)])
RECURSIVE Descend(_, _)
Deeper(c, rest) == IF c.err # "ok" THEN Nowhere(c.err) ELSE Descend(c.node, rest)
RamDescend(n, s) == IF s.rest = NIL THEN Place(n, s.name) ELSE Deeper(RamChild(n, s.name), s.rest)
DevDescend(n, s) == IF s.rest = NIL THEN Place(n, s.name) ELSE Deeper(DevChild(n, s.name), s.rest)
Descend(n, p) ==
    CASE nodes[n].kind # "dir" -> Nowhere("NotADirectory")
      [] nodes[n].kind = "dir" /\ nodes[n].fs = "fat" -> FatDescend(n, Strip(p))
      [] nodes[n].kind = "dir" /\ nodes[n].fs = "ram" -> RamDescend(n, split_path(p))
      [] OTHER -> DevDescend(n, split_path(p))

\* On the root directory a mount point itself has an empty rest.
Within(m, e) == IF m.rest = << >> THEN Nowhere(e) ELSE Descend(m.root, m.rest)
RootCreate(p) == Within(lookup_mounted_fs(p), "exists")
RootRemove(p) == Within(lookup_mounted_fs(p), "PermissionDenied")
CreateAt(n, p) == IF n = ROOT_DIR THEN RootCreate(p) ELSE Descend(n, p)
RemoveAt(n, p) == IF n = ROOT_DIR THEN RootRemove(p) ELSE Descend(n, p)

Special(name) == name \in {<< >>, Dot, DotDot}
Exists(g) == g.name \in DOMAIN nodes[g.dir].kids

\* Whether create goes on to insert a node, and remove to take the entry out:
\* devfs does neither, ramfs refuses a name that exists, FAT opens it.
RamCreates(g) == ~Special(g.name) /\ ~Exists(g)
DevCreates(g) == FALSE
FatCreates(g) == ~Special(g.name)
RamRemoves(g) == ~Special(g.name) /\ Exists(g) /\ DOMAIN nodes[nodes[g.dir].kids[g.name]].kids = {}
DevRemoves(g) == FALSE
FatRemoves(g) == ~Special(g.name) /\ Exists(g) /\ DOMAIN nodes[nodes[g.dir].kids[g.name]].kids = {}

Creates(g) == g.err = "ok" /\ (CASE nodes[g.dir].fs = "fat" -> FatCreates(g)
                                 [] nodes[g.dir].fs = "ram" -> RamCreates(g)
                                 [] OTHER -> DevCreates(g))
Removes(g) == g.err = "ok" /\ (CASE nodes[g.dir].fs = "fat" -> FatRemoves(g)
                                 [] nodes[g.dir].fs = "ram" -> RamRemoves(g)
                                 [] OTHER -> DevRemoves(g))

-----------------------------------------------------------------------------
\* create of ramfs before any task runs: the last name of each path is added to
\* the directory of the others.
RECURSIVE Find(_, _, _)
Find(ns, n, p) == IF p = << >> THEN n ELSE Find(ns, ns[n].kids[p[1]], Tail(p))
RECURSIVE Grown(_, _, _)
Grown(ns, root, entries) ==
    IF entries = << >> THEN ns
    ELSE LET e == Head(entries)
             p == e[2]
             d == Find(ns, root, SubSeq(p, 1, Len(p) - 1))
         IN  Grown(Append([ns EXCEPT ![d].kids = With(@, p[Len(p)], Len(ns) + 1)],
                          Node(e[1], ns[root].fs, d, << >>)), root, Tail(entries))

Names(s) == [i \in DOMAIN s |-> <<s[i]>>]
devfs == <<<<"dir", Names(<<"foo">>)>>, <<"dev", Names(<<"null">>)>>,
           <<"dev", Names(<<"zero">>)>>, <<"dev", Names(<<"foo", "bar">>)>>>>
procfs ==
    <<<<"dir", Names(<<"sys">>)>>, <<"dir", Names(<<"sys", "net">>)>>,
      <<"dir", Names(<<"sys", "net", "core">>)>>, <<"file", Names(<<"sys", "net", "core", "somaxconn">>)>>,
      <<"dir", Names(<<"sys", "vm">>)>>, <<"file", Names(<<"sys", "vm", "overcommit_memory">>)>>,
      <<"dir", Names(<<"self">>)>>, <<"file", Names(<<"self", "stat">>)>>>>
sysfs ==
    <<<<"dir", Names(<<"kernel">>)>>, <<"dir", Names(<<"kernel", "mm">>)>>,
      <<"dir", Names(<<"kernel", "mm", "transparent_hugepage">>)>>,
      <<"file", Names(<<"kernel", "mm", "transparent_hugepage", "enabled">>)>>,
      <<"dir", Names(<<"devices">>)>>, <<"dir", Names(<<"devices", "system">>)>>,
      <<"dir", Names(<<"devices", "system", "clocksource">>)>>,
      <<"dir", Names(<<"devices", "system", "clocksource", "clocksource0">>)>>,
      <<"file", Names(<<"devices", "system", "clocksource", "clocksource0", "current_clocksource">>)>>>>

\* mount: the mount point is created in the main filesystem, and ".." of the
\* mounted root is the directory that holds it.
mount(ns, name) == Grown(ns, MainRoot, <<<<"dir", <<name>>>>>>)
Roots == <<Node("dir", "fat", NIL, << >>), Node("dir", "dev", MainRoot, << >>),
           Node("dir", "ram", MainRoot, << >>), Node("dir", "ram", MainRoot, << >>),
           Node("dir", "ram", MainRoot, << >>)>>
init_rootfs ==
    LET mounted == mount(mount(mount(mount(Roots, Dev), Tmp), Proc), Sys)
    IN  Grown(Grown(Grown(mounted, DevRoot, devfs), ProcRoot, procfs), SysRoot, sysfs)

Init ==
    /\ nodes = init_rootfs
    /\ CURRENT_DIR = ROOT_DIR /\ CURRENT_DIR_PATH = << >>
    /\ job = [t \in FsTask |-> NIL] /\ owned = {} /\ raced = {} /\ moved = {} /\ lost = {}

Job(op, p, at, step) == [op |-> op, path |-> p, at |-> at, step |-> step, dir |-> NIL, name |-> << >>,
                         known |-> 0]   \* the nodes there were when the name was free
Goto(t, j) == job' = [job EXCEPT ![t] = j]
Return(t) == Goto(t, NIL)
May(t, op) == op \in Can[t] /\ job[t] = NIL

\* The path is looked up before anything is created: _open_at with create or
\* create_new goes on with create_file, create_dir with create.
create_file(t, op, p) ==
    /\ May(t, op) /\ lookup(p).err = "NotFound" /\ p # << >> /\ ~Slash(p)
    /\ Goto(t, Job(op, p, parent_node_of(p), "create"))
    /\ UNCHANGED <<nodes, CURRENT_DIR, CURRENT_DIR_PATH, owned, history>>

create_dir(t, p) ==
    /\ May(t, "create_dir") /\ lookup(p).err = "NotFound"
    /\ Goto(t, Job("create_dir", p, parent_node_of(p), "create"))
    /\ UNCHANGED <<nodes, CURRENT_DIR, CURRENT_DIR_PATH, owned, history>>

\* create: ramfs looks whether the name exists before it takes the lock to
\* insert it.
Checked(t, g) ==
    IF ~Creates(g) THEN Return(t)
    ELSE Goto(t, [job[t] EXCEPT !.step = "insert", !.dir = g.dir, !.name = g.name, !.known = Len(nodes)])
CreateCheck(t) ==
    /\ job[t] # NIL /\ job[t].step = "create"
    /\ Checked(t, CreateAt(job[t].at, job[t].path))
    /\ UNCHANGED <<nodes, CURRENT_DIR, CURRENT_DIR_PATH, owned, history>>

\* The node is inserted, in ramfs over one that was inserted meanwhile; in FAT
\* that one is opened.
CreateInsert(t) ==
    LET j == job[t]
        kind == IF j.op = "create_dir" THEN "dir" ELSE "file"
        new == Len(nodes) + 1
        there == {nodes[j.dir].kids[k] : k \in DOMAIN nodes[j.dir].kids \cap {j.name}}
    IN  /\ j # NIL /\ j.step = "insert" /\ Return(t)
        /\ IF nodes[j.dir].fs = "fat" /\ there # {}
           THEN UNCHANGED <<nodes, owned, raced>>
           ELSE /\ new <= MaxNodes
                /\ nodes' = Append([nodes EXCEPT ![j.dir].kids = With(@, j.name, new)],
                                   Node(kind, nodes[j.dir].fs, j.dir, << >>))
                /\ owned' = owned \cup (IF j.op = "create_new" THEN {new} ELSE {})
                /\ raced' = raced \cup {n \in there : n > j.known}
        /\ UNCHANGED <<CURRENT_DIR, CURRENT_DIR_PATH, moved, lost>>

\* The node is looked at before the path is removed.
remove_file(t, p) ==
    LET r == lookup(p)
    IN  /\ May(t, "remove_file") /\ r.err = "ok" /\ ~IsDir(r.node)
        /\ Goto(t, Job("remove_file", p, parent_node_of(p), "remove"))
        /\ UNCHANGED <<nodes, CURRENT_DIR, CURRENT_DIR_PATH, owned, history>>

\* Variant: mount points are not looked for.
RemoveUnguarded(t, p) ==
    LET r == lookup(p)
    IN  /\ May(t, "remove_dir") /\ Trim(p) # << >> /\ Trim(p)[Len(Trim(p))] \notin {Dot, DotDot}
        /\ r.err = "ok" /\ IsDir(r.node)
        /\ Goto(t, Job("remove_dir", p, parent_node_of(p), "remove"))
        /\ UNCHANGED <<nodes, CURRENT_DIR, CURRENT_DIR_PATH, owned, history>>

remove_dir(t, p) ==
    LET r == lookup(p)
    IN  /\ May(t, "remove_dir") /\ Trim(p) # << >> /\ Trim(p)[Len(Trim(p))] \notin {Dot, DotDot}
        /\ absolute_path(p) \notin {<<m[1]>> : m \in Mounts}
        /\ r.err = "ok" /\ IsDir(r.node)
        /\ Goto(t, Job("remove_dir", p, parent_node_of(p), "remove"))
        /\ UNCHANGED <<nodes, CURRENT_DIR, CURRENT_DIR_PATH, owned, history>>

\* An entry, with its directory; NIL for every kind of error.
EntryOf(g) == [dir |-> g.dir, name |-> g.name, node |-> nodes[g.dir].kids[g.name]]
EntryIfRemoved(g) == IF Removes(g) THEN EntryOf(g) ELSE NIL
Removable(at, p) == EntryIfRemoved(RemoveAt(at, p))

Unlink(v) == nodes' = [nodes EXCEPT ![v.dir].kids = Without(@, v.name)]

Removed(t, v) ==
    /\ IF v = NIL THEN UNCHANGED <<nodes, owned>> ELSE Unlink(v) /\ owned' = owned \ {v.node}
    /\ IF job[t].op = "rename"
       THEN Goto(t, [job[t] EXCEPT !.step = "rename", !.dir = v, !.at = IF v = NIL THEN NIL ELSE job[t].at])
       ELSE Return(t)
RemoveNode(t) ==
    /\ job[t] # NIL /\ job[t].step = "remove"
    /\ Removed(t, Removable(job[t].at, job[t].path))
    /\ UNCHANGED <<CURRENT_DIR, CURRENT_DIR_PATH, history>>

-----------------------------------------------------------------------------
\* rename: an existing target that is a file is removed first. name is the old
\* path here, and dir what was removed.
Rename(t, old, new) ==
    LET r == LookupAt(parent_node_of(new), new)
    IN  /\ May(t, "rename") /\ (r.err = "ok" => ~IsDir(r.node))
        /\ Goto(t, [Job("rename", new, parent_node_of(new), IF r.err = "ok" THEN "remove" ELSE "rename")
                      EXCEPT !.name = old])
        /\ UNCHANGED <<nodes, CURRENT_DIR, CURRENT_DIR_PATH, owned, history>>

\* Only FAT renames, and the new path is resolved in the main filesystem.
Moves(from, g) ==
    /\ from.err = "ok" /\ ~Special(from.name) /\ Exists(from) /\ nodes[from.dir].fs = "fat"
    /\ g.err = "ok" /\ ~Special(g.name) /\ ~Exists(g)
Relinked(old, g) ==
    [[nodes EXCEPT ![old.dir].kids = Without(@, old.name)]
        EXCEPT ![g.dir].kids = With(@, g.name, old.node), ![old.node].parent = g.dir]
MoveEntry(t, from, g) ==
    IF job[t].at = NIL \/ ~Moves(from, g)
    THEN /\ lost' = lost \cup (IF job[t].dir = NIL THEN {} ELSE {job[t].dir.node})
         /\ UNCHANGED <<nodes, moved>>
    ELSE /\ nodes' = Relinked(EntryOf(from), g) /\ UNCHANGED lost
         /\ moved' = moved \cup {<<n, \E i \in DOMAIN job[t].name : job[t].name[i] = DotDot>> :
                                    n \in {EntryOf(from).node} \cap {d \in DOMAIN nodes : IsDir(d)}}
MoveAt(t, at) ==
    MoveEntry(t, RemoveAt(at, job[t].name), Descend(IF at = ROOT_DIR THEN MainRoot ELSE at, Trim(job[t].path)))
Move(t) ==
    /\ job[t] # NIL /\ job[t].step = "rename" /\ Return(t)
    /\ MoveAt(t, parent_node_of(job[t].name))
    /\ UNCHANGED <<CURRENT_DIR, CURRENT_DIR_PATH, owned, raced>>

-----------------------------------------------------------------------------
\* set_current_dir: the directory and its path are set under locks of their own.
set_current_dir(t, p) ==
    LET abs == absolute_path(p)
        r == LookupAt(ROOT_DIR, abs)
        to == IF abs = << >> THEN ROOT_DIR ELSE r.node
    IN  /\ May(t, "set_current_dir") /\ (abs # << >> => r.err = "ok" /\ IsDir(r.node))
        /\ Goto(t, [Job("set_current_dir", abs, NIL, "node") EXCEPT !.dir = to])
        /\ UNCHANGED <<nodes, CURRENT_DIR, CURRENT_DIR_PATH, owned, history>>

SetDir(t) ==
    /\ job[t] # NIL /\ job[t].step = "node" /\ CURRENT_DIR' = job[t].dir
    /\ Goto(t, [job[t] EXCEPT !.step = "path"])
    /\ UNCHANGED <<nodes, CURRENT_DIR_PATH, owned, history>>

SetPath(t) ==
    /\ job[t] # NIL /\ job[t].step = "path" /\ CURRENT_DIR_PATH' = job[t].path /\ Return(t)
    /\ UNCHANGED <<nodes, CURRENT_DIR, owned, history>>

Next ==
    \E t \in FsTask :
        \/ \E p \in FilePaths : \/ \E op \in {"create", "create_new"} : create_file(t, op, p)
                               \/ remove_file(t, p)
        \/ \E p \in DirPaths : create_dir(t, p) \/ remove_dir(t, p)
        \/ \E old, new \in MvPaths : Rename(t, old, new)
        \/ \E p \in CdPaths : set_current_dir(t, p)
        \/ CreateCheck(t) \/ CreateInsert(t) \/ RemoveNode(t) \/ Move(t) \/ SetDir(t) \/ SetPath(t)

-----------------------------------------------------------------------------
Linked == UNION {{nodes[n].kids[k] : k \in DOMAIN nodes[n].kids} : n \in DOMAIN nodes}

\* The directories of the main filesystem that the others are mounted on.
MountPoints == 6..9

\* No path, absolute or relative, removes or renames a mount point, since root.rs
\* compares paths; except that rename compares none, so that ".." out of a FAT
\* directory leads it to one, and where it moves that one to it can be removed.
MountPointsStay == \A n \in MountPoints : n \in Linked \/ <<n, TRUE>> \in moved

RECURSIVE Above(_)
Above(n) == {n} \cup (IF nodes[n].parent = NIL THEN {} ELSE Above(nodes[n].parent))

\* Relative paths are resolved in the directory current_dir names, when nobody
\* is changing it: CURRENT_DIR is the node of CURRENT_DIR_PATH, or was removed,
\* or it or a directory above it was renamed.
CurrentDirAgrees ==
    (\A t \in FsTask : job[t] # NIL => job[t].op # "set_current_dir") =>
        LET r == LookupAt(ROOT_DIR, CURRENT_DIR_PATH)
        IN  \/ CURRENT_DIR = ROOT_DIR /\ CURRENT_DIR_PATH = << >>
            \/ CURRENT_DIR_PATH # << >> /\ r.err = "ok" /\ r.node = CURRENT_DIR
            \/ CURRENT_DIR \notin Linked \cup {ROOT_DIR, DevRoot, TmpRoot}
            \/ \E m \in moved : m[1] \in Above(CURRENT_DIR)

\* A file create_new returned, "failing if it already exists", stays the file of
\* its name until it is removed, unless another creation had found the name free
\* before the file was made: only that one takes its place, in ramfs. (In FAT
\* both calls then return the one file.)
CreateNewIsExclusive == owned \subseteq Linked \cup raced

\* A rename that fails has removed nothing.
FailedRenameKeeps == lost = {}
=============================================================================
