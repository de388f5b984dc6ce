----------------------------- MODULE FilesProofs ----------------------------
(***************************************************************************)
(* Safety of the POSIX layer, for any number of tasks, files and           *)
(* descriptors.                                                            *)
(***************************************************************************)
EXTENDS Posix, FiniteSetTheorems, TLAPS

\* The provers of a leaf: Zenon first, which is fast where it succeeds.
USE ZenonT(2), SMTT(30), ZenonT(30)

-----------------------------------------------------------------------------
(* Every file is dropped when its last user is gone, and not before *)

Ops == {"dup", "dup2", "read", "write", "fcntl", "listen", "accept", "epoll_wait", "epoll_ctl", "select"}
CallRec ==
    [op : Ops, obj : FileObj \cup {NIL}, target : Fd \cup SUBSET Fd,
     stage : {"install", "lock", "in", "drop"}, watch : SUBSET Fd, found : {0, 1},
     sub : FileObj \cup {NIL}, new : FileObj \cup {NIL}]

\* There are finitely many tasks; the standard streams fit into the table.
FilesAssumption ==
    /\ IsFiniteSet(PosixTask) /\ CAP \in Nat \ {0} /\ STDIO \in Nat \ {0} /\ STDIO <= CAP
    /\ StdObj \in FileObj /\ NIL \notin FileObj /\ NIL \notin PosixTask /\ NIL \notin CallRec

FilesType ==
    /\ table \in [Fd -> FileObj \cup {NIL}] /\ count \in Int
    /\ kind \in [FileObj -> {"free", "stdio", "file", "epoll"} \cup Sockets]
    /\ arc \in [FileObj -> Nat] /\ mutex \in [FileObj -> PosixTask \cup {NIL}]
    /\ input \in [FileObj -> Nat] /\ nonblocking \in [FileObj -> BOOLEAN]
    /\ interest \in [FileObj -> SUBSET Fd] /\ call \in [PosixTask -> CallRec \cup {NIL}]

\* Only select works on no file; a file is polled while the call is in its
\* operation, and accept has a new one until it is in the table.
CallOk(c) ==
    /\ c.op = "select" <=> c.obj = NIL
    /\ c.op = "select" => c.stage = "in" /\ c.target \subseteq Fd
    /\ c.op # "select" => c.target \in Fd
    /\ c.sub # NIL => c.stage = "in" /\ c.op \in {"select", "epoll_wait"}
    /\ c.new # NIL <=> c.stage = "install" /\ c.op = "accept"
    /\ c.op \in {"dup", "dup2"} <=> c.stage = "install" /\ c.op # "accept"

CallsOk == \A t \in PosixTask : call[t] # NIL => CallOk(call[t])

\* A task holds the mutex of a file exactly while it is in an operation on it.
MutexOk ==
    \A o \in FileObj, t \in PosixTask :
        mutex[o] = t <=> call[t] # NIL /\ call[t].obj = o /\ call[t].stage = "in"

CountsOk == (\A o \in FileObj : arc[o] = Holders(o)) /\ count = Cardinality(Assigned)
KindsOk == \A o \in FileObj : kind[o] = "free" <=> arc[o] = 0

FilesInv == FilesType /\ CallsOk /\ MutexOk /\ CountsOk /\ KindsOk

One(b) == IF b THEN 1 ELSE 0

\* The Cardinality that Posix uses is that of FiniteSets.
LEMMA SameCardinality ==
    ASSUME NEW S PROVE Cardinality(S) = Cardinality(S)
BY Zenon DEF Cardinality, Cardinality

\* When one element may enter or leave a finite set, its size changes by one.
LEMMA CardChange ==
    ASSUME NEW X, IsFiniteSet(X), NEW A \in SUBSET X, NEW B \in SUBSET X, NEW x \in X,
           \A y \in X \ {x} : y \in A <=> y \in B
    PROVE  /\ Cardinality(A) \in Nat /\ Cardinality(B) \in Nat
           /\ Cardinality(B) = Cardinality(A) - One(x \in A) + One(x \in B)
<1>1. IsFiniteSet(A) /\ IsFiniteSet(B) /\ IsFiniteSet(A \ {x})
  BY FS_Subset, FS_RemoveElement
<1>2. Cardinality(A) \in Nat /\ Cardinality(B) \in Nat
  BY <1>1, FS_CardinalityType
<1>3. Cardinality(A \ {x}) = IF x \in A THEN Cardinality(A) - 1 ELSE Cardinality(A)
  BY <1>1, FS_RemoveElement
<1>4. Cardinality(B \ {x}) = IF x \in B THEN Cardinality(B) - 1 ELSE Cardinality(B)
  BY <1>1, FS_RemoveElement, Zenon
<1>5. A \ {x} = B \ {x}
  OBVIOUS
<1> QED BY <1>2, <1>3, <1>4, <1>5 DEF One

\* The uses of file o by a call.
Mine(c, o) == One(c # NIL /\ c.obj = o) + One(c # NIL /\ c.sub = o) + One(c # NIL /\ c.new = o)

\* A step of one task that changes one descriptor keeps the counts right if it
\* adds to the Arc of a file what it adds to the uses of that file.
LEMMA CountsStep ==
    ASSUME FilesAssumption, FilesType, CountsOk, NEW a \in PosixTask, NEW d \in Fd,
           \A u \in PosixTask \ {a} : call'[u] = call[u],
           \A f \in Fd \ {d} : table'[f] = table[f],
           \A o \in FileObj :
               arc'[o] = arc[o] - Mine(call[a], o) + Mine(call'[a], o)
                         - One(table[d] = o) + One(table'[d] = o),
           count' = count - One(table[d] # NIL) + One(table'[d] # NIL)
    PROVE  CountsOk'
<1>1. IsFiniteSet(PosixTask) /\ IsFiniteSet(Fd)
  BY FS_Interval DEF FilesAssumption, Fd
<1>2. ASSUME NEW o \in FileObj PROVE arc'[o] = Holders(o)'
  <2> DEFINE F == {fd \in Fd : table[fd] = o}
             O == {t \in PosixTask : call[t] # NIL /\ call[t].obj = o}
             S == {t \in PosixTask : call[t] # NIL /\ call[t].sub = o}
             N == {t \in PosixTask : call[t] # NIL /\ call[t].new = o}
  <2>1. /\ Cardinality(F) \in Nat /\ Cardinality(F') \in Nat
        /\ Cardinality(F') = Cardinality(F) - One(table[d] = o) + One(table'[d] = o)
    <3>1. F \in SUBSET Fd /\ F' \in SUBSET Fd /\ \A f \in Fd \ {d} : f \in F <=> f \in F'
      OBVIOUS
    <3>2. (d \in F <=> table[d] = o) /\ (d \in F' <=> table'[d] = o)
      OBVIOUS
    <3> HIDE DEF F
    <3> QED BY <1>1, <3>1, <3>2, CardChange DEF One
  <2>2. /\ Cardinality(O) \in Nat /\ Cardinality(O') \in Nat
        /\ Cardinality(O') = Cardinality(O) - One(call[a] # NIL /\ call[a].obj = o)
                             + One(call'[a] # NIL /\ call'[a].obj = o)
    <3>1. O \in SUBSET PosixTask /\ O' \in SUBSET PosixTask /\ \A u \in PosixTask \ {a} : u \in O <=> u \in O'
      OBVIOUS
    <3>2. (a \in O <=> call[a] # NIL /\ call[a].obj = o) /\ (a \in O' <=> call'[a] # NIL /\ call'[a].obj = o)
      OBVIOUS
    <3> HIDE DEF O
    <3> QED BY <1>1, <3>1, <3>2, CardChange DEF One
  <2>3. /\ Cardinality(S) \in Nat /\ Cardinality(S') \in Nat
        /\ Cardinality(S') = Cardinality(S) - One(call[a] # NIL /\ call[a].sub = o)
                             + One(call'[a] # NIL /\ call'[a].sub = o)
    <3>1. S \in SUBSET PosixTask /\ S' \in SUBSET PosixTask /\ \A u \in PosixTask \ {a} : u \in S <=> u \in S'
      OBVIOUS
    <3>2. (a \in S <=> call[a] # NIL /\ call[a].sub = o) /\ (a \in S' <=> call'[a] # NIL /\ call'[a].sub = o)
      OBVIOUS
    <3> HIDE DEF S
    <3> QED BY <1>1, <3>1, <3>2, CardChange DEF One
  <2>4. /\ Cardinality(N) \in Nat /\ Cardinality(N') \in Nat
        /\ Cardinality(N') = Cardinality(N) - One(call[a] # NIL /\ call[a].new = o)
                             + One(call'[a] # NIL /\ call'[a].new = o)
    <3>1. N \in SUBSET PosixTask /\ N' \in SUBSET PosixTask /\ \A u \in PosixTask \ {a} : u \in N <=> u \in N'
      OBVIOUS
    <3>2. (a \in N <=> call[a] # NIL /\ call[a].new = o) /\ (a \in N' <=> call'[a] # NIL /\ call'[a].new = o)
      OBVIOUS
    <3> HIDE DEF N
    <3> QED BY <1>1, <3>1, <3>2, CardChange DEF One
  <2>5. arc[o] = Cardinality(F) + Cardinality(O) + Cardinality(S) + Cardinality(N)
    BY SameCardinality DEF CountsOk, Holders
  <2>6. Holders(o)' = Cardinality(F') + Cardinality(O') + Cardinality(S') + Cardinality(N')
    BY SameCardinality DEF Holders
  <2> HIDE DEF F, O, S, N
  <2> QED BY <2>1, <2>2, <2>3, <2>4, <2>5, <2>6 DEF Mine, One
<1>3. count' = Cardinality(Assigned')
  <2>1. /\ Assigned \in SUBSET Fd /\ Assigned' \in SUBSET Fd
        /\ \A f \in Fd \ {d} : f \in Assigned <=> f \in Assigned'
        /\ (d \in Assigned <=> table[d] # NIL) /\ (d \in Assigned' <=> table'[d] # NIL)
    BY DEF Assigned
  <2> QED BY <1>1, <2>1, CardChange DEF CountsOk, One
<1> QED BY <1>2, <1>3 DEF CountsOk

\* Every nonempty set of naturals has a least element.
LEMMA LeastNat ==
    ASSUME NEW T \in SUBSET Nat, T # {}
    PROVE  \E x \in T : \A y \in T : x <= y
<1>1. PICK x \in T : \A y \in T : ~(<<y, x>> \in OpToRel(<, Nat))
  BY WFMin, NatLessThanWellFounded, Zenon
<1>2. ASSUME NEW y \in T PROVE x <= y
  <2>1. ~(y < x)
    BY <1>1, Zenon DEF OpToRel
  <2> QED BY <2>1
<1> QED BY <1>2

\* The smallest of some descriptors, which is what FlattenObjects::add and poll
\* take, is one of them.
LEMMA SmallestFd ==
    ASSUME FilesAssumption, NEW D \in SUBSET Fd, D # {}
    PROVE  (CHOOSE fd \in D : \A f \in D : fd <= f) \in D
<1>1. D \in SUBSET Nat
  BY DEF FilesAssumption, Fd
<1>2. PICK fd \in D : \A f \in D : fd <= f
  BY <1>1, LeastNat
<1> QED BY <1>2

\* What add gets is a free descriptor, and a new file is none in use.
LEMMA Choices ==
    ASSUME FilesAssumption, FilesInv
    PROVE  /\ FreeFd # {} => FirstFree \in Fd /\ table[FirstFree] = NIL
           /\ FreeObj # {} => /\ NewObj \in FileObj /\ kind[NewObj] = "free"
                                    /\ arc[NewObj] = 0
           /\ \A w \in SUBSET Fd : w # {} => First(w) \in w
<1>1. FreeFd # {} => FirstFree \in FreeFd
  BY SmallestFd, Zenon DEF FreeFd, FirstFree
<1>2. FreeObj # {} => NewObj \in FreeObj
  BY DEF NewObj
<1>3. \A w \in SUBSET Fd : w # {} => First(w) \in w
  BY SmallestFd DEF First
<1> QED BY <1>1, <1>2, <1>3 DEF FreeFd, Assigned, FreeObj, FilesInv, KindsOk

\* A file that a descriptor or a call uses has not been dropped.
LEMMA UsedAlive ==
    ASSUME FilesAssumption, FilesInv, NEW o \in FileObj,
           \/ \E fd \in Fd : table[fd] = o
           \/ \E t \in PosixTask : call[t] # NIL /\ o \in {call[t].obj, call[t].sub, call[t].new}
    PROVE  arc[o] >= 1 /\ kind[o] # "free"
<1> DEFINE F == {fd \in Fd : table[fd] = o}
           O == {t \in PosixTask : call[t] # NIL /\ call[t].obj = o}
           S == {t \in PosixTask : call[t] # NIL /\ call[t].sub = o}
           N == {t \in PosixTask : call[t] # NIL /\ call[t].new = o}
<1>1. F \in SUBSET Fd /\ O \in SUBSET PosixTask /\ S \in SUBSET PosixTask /\ N \in SUBSET PosixTask
  OBVIOUS
<1>2. IsFiniteSet(PosixTask) /\ IsFiniteSet(Fd)
  BY FS_Interval DEF FilesAssumption, Fd
<1>3. F # {} \/ O # {} \/ S # {} \/ N # {}
  OBVIOUS
<1>4. arc[o] = Cardinality(F) + Cardinality(O) + Cardinality(S) + Cardinality(N)
  BY SameCardinality DEF FilesInv, CountsOk, Holders
<1> HIDE DEF F, O, S, N
<1>5. \A X \in {F, O, S, N} : IsFiniteSet(X)
  BY <1>1, <1>2, FS_Subset
<1>6. \A X \in {F, O, S, N} : Cardinality(X) \in Nat /\ (X # {} => Cardinality(X) # 0)
  BY <1>5, FS_CardinalityType, FS_EmptySet
<1>7. arc[o] >= 1
  BY <1>3, <1>4, <1>6
<1> QED BY <1>7 DEF FilesInv, KindsOk

\* At the start the standard streams are the only file.
LEMMA FilesInit ==
    ASSUME FilesAssumption PROVE Init => FilesInv
<1> SUFFICES ASSUME Init PROVE FilesInv
  OBVIOUS
<1> USE DEF FilesAssumption
<1>1. FilesType /\ CallsOk /\ MutexOk
  BY DEF Init, FilesType, CallsOk, MutexOk, Fd
<1>2. \A t \in PosixTask : call[t] = NIL
  BY DEF Init
<1>3. \A o \in FileObj : /\ {t \in PosixTask : call[t] # NIL /\ call[t].obj = o} = {}
                         /\ {t \in PosixTask : call[t] # NIL /\ call[t].sub = o} = {}
                         /\ {t \in PosixTask : call[t] # NIL /\ call[t].new = o} = {}
  BY <1>2
<1>4. Cardinality(0..(STDIO - 1)) = STDIO
  BY FS_Interval
<1>5. Assigned = 0..(STDIO - 1)
  BY DEF Init, Assigned, Fd
<1>6. \A o \in FileObj : {fd \in Fd : table[fd] = o} = IF o = StdObj THEN 0..(STDIO - 1) ELSE {}
  BY DEF Init, Fd
<1>7. ASSUME NEW o \in FileObj PROVE arc[o] = Holders(o)
  <2>1. Cardinality({}) = 0
    BY FS_EmptySet
  <2>2. Holders(o) = (IF o = StdObj THEN STDIO ELSE 0) + 0 + 0 + 0
    BY <1>3, <1>4, <1>6, <2>1, SameCardinality, Zenon DEF Holders
  <2> QED BY <2>2 DEF Init
<1>8. KindsOk
  BY DEF Init, KindsOk
<1> QED BY <1>1, <1>4, <1>5, <1>7, <1>8 DEF FilesInv, CountsOk, Init

\* A step keeps the invariant when it is the step of one task, on its own call,
\* its own mutexes and one descriptor, and adds to the Arcs what it adds to
\* the uses.
LEMMA OwnStep ==
    ASSUME FilesAssumption, FilesInv, NEW t \in PosixTask, NEW d \in Fd,
           FilesType', KindsOk',
           \A u \in PosixTask \ {t} : call'[u] = call[u],
           call'[t] # NIL => CallOk(call'[t]),
           \A o \in FileObj, u \in PosixTask \ {t} : mutex'[o] = u <=> mutex[o] = u,
           \A o \in FileObj : mutex'[o] = t <=> call'[t] # NIL /\ call'[t].obj = o /\ call'[t].stage = "in",
           \A f \in Fd \ {d} : table'[f] = table[f],
           \A o \in FileObj :
               arc'[o] = arc[o] - Mine(call[t], o) + Mine(call'[t], o)
                         - One(table[d] = o) + One(table'[d] = o),
           count' = count - One(table[d] # NIL) + One(table'[d] # NIL)
    PROVE  FilesInv'
<1>1. CountsOk'
  BY CountsStep DEF FilesInv
<1>2. \A u \in PosixTask : call'[u] # NIL => CallOk(call'[u])
  BY DEF FilesInv, CallsOk
<1>3. \A o \in FileObj, u \in PosixTask :
          mutex'[o] = u <=> call'[u] # NIL /\ call'[u].obj = o /\ call'[u].stage = "in"
  BY DEF FilesInv, MutexOk
<1>4. CallsOk'
  BY <1>2 DEF CallsOk, CallOk
<1>5. MutexOk'
  BY <1>3 DEF MutexOk
<1> QED BY <1>1, <1>4, <1>5 DEF FilesInv

\* The same for a step that leaves the table alone.
LEMMA OwnCall ==
    ASSUME FilesAssumption, FilesInv, NEW t \in PosixTask, FilesType', KindsOk', UNCHANGED <<table, count>>,
           \A u \in PosixTask \ {t} : call'[u] = call[u],
           call'[t] # NIL => CallOk(call'[t]),
           \A o \in FileObj, u \in PosixTask \ {t} : mutex'[o] = u <=> mutex[o] = u,
           \A o \in FileObj : mutex'[o] = t <=> call'[t] # NIL /\ call'[t].obj = o /\ call'[t].stage = "in",
           \A o \in FileObj : arc'[o] = arc[o] - Mine(call[t], o) + Mine(call'[t], o)
    PROVE  FilesInv'
<1>1. 0 \in Fd
  BY DEF FilesAssumption, Fd
<1>2. \A o \in FileObj : Mine(call[t], o) \in Nat /\ Mine(call'[t], o) \in Nat /\ arc[o] \in Nat
  BY DEF Mine, One, FilesInv, FilesType
<1>3. \A o \in FileObj : arc'[o] = arc[o] - Mine(call[t], o) + Mine(call'[t], o)
                                   - One(table[0] = o) + One(table'[0] = o)
  BY <1>1, <1>2 DEF One
<1>4. count' = count - One(table[0] # NIL) + One(table'[0] # NIL)
  BY DEF One, FilesInv, FilesType
<1> QED BY <1>1, <1>3, <1>4, OwnStep

\* A call is given a file.
LEMMA EnterStep ==
    ASSUME FilesAssumption, FilesInv, NEW t \in PosixTask, NEW op \in Ops \ {"select"},
           NEW fd \in Fd, NEW target \in Fd, call[t] = NIL, Enter(t, op, fd, target)
    PROVE  FilesInv'
<1> DEFINE o == table[fd]
           c == [op |-> op, obj |-> o, target |-> target,
                 stage |-> IF op \in {"dup", "dup2"} THEN "install" ELSE "lock",
                 watch |-> {}, found |-> 0, sub |-> NIL, new |-> NIL]
<1>1. /\ o \in FileObj /\ o # NIL /\ arc' = [arc EXCEPT ![o] = @ + 1] /\ call' = [call EXCEPT ![t] = c]
      /\ UNCHANGED <<table, count, kind, mutex, input, nonblocking, interest>>
  BY DEF Enter, FilesInv, FilesType
<1>2. c \in CallRec /\ c # NIL /\ CallOk(c)
  BY <1>1 DEF CallRec, Ops, CallOk, FilesAssumption
<1>3. c.obj = o /\ c.stage # "in" /\ c.sub = NIL /\ c.new = NIL
  OBVIOUS
<1> HIDE DEF c, o
<1>4. call'[t] = c /\ \A u \in PosixTask \ {t} : call'[u] = call[u]
  BY <1>1 DEF FilesInv, FilesType
<1>5. FilesType'
  BY <1>1, <1>2 DEF FilesInv, FilesType
<1>6. /\ \A p \in FileObj, u \in PosixTask \ {t} : mutex'[p] = u <=> mutex[p] = u
      /\ \A p \in FileObj : mutex'[p] = t <=> call'[t] # NIL /\ call'[t].obj = p /\ call'[t].stage = "in"
  BY <1>1, <1>3, <1>4 DEF FilesInv, MutexOk
<1>7. \A p \in FileObj : arc'[p] = arc[p] - Mine(call[t], p) + Mine(call'[t], p)
  BY <1>1, <1>2, <1>3, <1>4 DEF Mine, One, FilesInv, FilesType, FilesAssumption
<1>8. KindsOk'
  <2>1. kind[o] # "free"
    BY <1>1, UsedAlive DEF o
  <2> QED BY <1>1, <2>1 DEF FilesInv, FilesType, KindsOk
<1> QED BY <1>1, <1>2, <1>4, <1>5, <1>6, <1>7, <1>8, OwnCall

\* Dropping an Arc takes one from its count; a file is freed with its last.
LEMMA DropFacts ==
    ASSUME FilesAssumption, FilesInv, NEW o \in FileObj, ArcDrop(o), arc[o] >= 1
    PROVE  /\ \A p \in FileObj : arc'[p] = arc[p] - One(p = o)
           /\ arc' \in [FileObj -> Nat]
           /\ kind' \in [FileObj -> {"free", "stdio", "file", "epoll"} \cup Sockets]
           /\ input' \in [FileObj -> Nat] /\ nonblocking' \in [FileObj -> BOOLEAN]
           /\ interest' \in [FileObj -> SUBSET Fd]
           /\ KindsOk'
<1>1. arc \in [FileObj -> Nat] /\ arc' = [arc EXCEPT ![o] = @ - 1]
  BY DEF FilesInv, FilesType, ArcDrop
<1>2. arc' \in [FileObj -> Nat] /\ \A p \in FileObj : arc'[p] = arc[p] - One(p = o)
  BY <1>1 DEF One
<1>3. /\ kind' \in [FileObj -> {"free", "stdio", "file", "epoll"} \cup Sockets]
      /\ input' \in [FileObj -> Nat] /\ nonblocking' \in [FileObj -> BOOLEAN]
      /\ interest' \in [FileObj -> SUBSET Fd]
  <2>1. kind' \in [FileObj -> {"free", "stdio", "file", "epoll"} \cup Sockets]
    BY DEF FilesInv, FilesType, ArcDrop
  <2>2. input' \in [FileObj -> Nat]
    BY DEF FilesInv, FilesType, ArcDrop
  <2>3. nonblocking' \in [FileObj -> BOOLEAN]
    BY Zenon DEF FilesInv, FilesType, ArcDrop
  <2>4. interest' \in [FileObj -> SUBSET Fd]
    BY DEF FilesInv, FilesType, ArcDrop
  <2> QED BY <2>1, <2>2, <2>3, <2>4
<1>4. KindsOk'
  <2>1. ASSUME NEW p \in FileObj PROVE kind'[p] = "free" <=> arc'[p] = 0
    <3>1. kind[p] = "free" <=> arc[p] = 0
      BY DEF FilesInv, KindsOk
    <3>2. p # o => kind'[p] = kind[p] /\ arc'[p] = arc[p]
      BY <1>1 DEF FilesInv, FilesType, ArcDrop
    <3>3. arc[o] = 1 => kind'[o] = "free" /\ arc'[o] = 0
      BY <1>1 DEF FilesInv, FilesType, ArcDrop
    <3>4. arc[o] # 1 => kind'[o] = kind[o] /\ arc'[o] # 0 /\ arc[o] # 0
      BY <1>1 DEF FilesInv, FilesType, ArcDrop
    <3> QED BY <3>1, <3>2, <3>3, <3>4
  <2> QED BY <2>1 DEF KindsOk
<1> QED BY <1>2, <1>3, <1>4

\* A call that is in its operation and is no poll ends it: the mutex is free.
LEMMA LeaveStep ==
    ASSUME FilesAssumption, FilesInv, NEW t \in PosixTask, call[t] # NIL, call[t].stage = "in",
           call[t].op # "select", call[t].sub = NIL, Leave(t), UNCHANGED <<table, count, arc>>,
           kind' \in [FileObj -> {"free", "stdio", "file", "epoll"} \cup Sockets],
           \A o \in FileObj : kind'[o] = "free" <=> kind[o] = "free",
           input' \in [FileObj -> Nat], nonblocking' \in [FileObj -> BOOLEAN],
           interest' \in [FileObj -> SUBSET Fd]
    PROVE  FilesInv'
<1> DEFINE c == [call[t] EXCEPT !.stage = "drop"]
<1>1. call[t] \in CallRec /\ CallOk(call[t])
  BY DEF FilesInv, FilesType, CallsOk
<1>2. /\ c \in CallRec /\ c.obj = call[t].obj /\ c.op = call[t].op /\ c.target = call[t].target
      /\ c.sub = call[t].sub /\ c.new = call[t].new /\ c.stage = "drop"
  BY <1>1 DEF CallRec
<1>3. call' = [call EXCEPT ![t] = c] /\ mutex' = [mutex EXCEPT ![call[t].obj] = NIL]
  BY DEF Leave, Unlock
<1> HIDE DEF c
<1>4. c # NIL /\ CallOk(c) /\ call[t].obj \in FileObj
  BY <1>1, <1>2 DEF CallOk, FilesAssumption, CallRec
<1>5. call'[t] = c /\ \A u \in PosixTask \ {t} : call'[u] = call[u]
  BY <1>3 DEF FilesInv, FilesType
<1>6. FilesType'
  BY <1>2, <1>3, Zenon DEF FilesInv, FilesType
<1>7. KindsOk'
  BY DEF FilesInv, KindsOk
<1>8. \A o \in FileObj, u \in PosixTask \ {t} : mutex'[o] = u <=> mutex[o] = u
  BY <1>3, <1>4 DEF FilesInv, FilesType, MutexOk, FilesAssumption
<1>9. \A o \in FileObj : mutex'[o] = t <=> call'[t] # NIL /\ call'[t].obj = o /\ call'[t].stage = "in"
  BY <1>2, <1>3, <1>4, <1>5 DEF FilesInv, FilesType, MutexOk, FilesAssumption
<1>10. \A o \in FileObj : arc'[o] = arc[o] - Mine(call[t], o) + Mine(call'[t], o)
  BY <1>2, <1>4, <1>5 DEF Mine, One, FilesInv, FilesType
<1> QED BY <1>4, <1>5, <1>6, <1>7, <1>8, <1>9, <1>10, OwnCall

\* open, socket and epoll_create put a new file into a free descriptor.
LEMMA AddStep ==
    ASSUME FilesAssumption, FilesInv, NEW t \in PosixTask, NEW k \in {"file", "tcp", "udp", "epoll"},
           add_file_like(k)
    PROVE  FilesInv'
<1> DEFINE d == FirstFree
           n == NewObj
<1>1. /\ table' = [table EXCEPT ![d] = n] /\ count' = count + 1
      /\ kind' = [kind EXCEPT ![n] = k] /\ arc' = [arc EXCEPT ![n] = 1]
      /\ UNCHANGED <<mutex, input, nonblocking, interest, call>>
  BY DEF add_file_like, InsertAt
<1>2. d \in Fd /\ table[d] = NIL /\ n \in FileObj /\ kind[n] = "free" /\ arc[n] = 0
  BY Choices DEF add_file_like
<1> HIDE DEF d, n
<1>3. FilesType'
  BY <1>1, <1>2 DEF FilesInv, FilesType, Sockets
<1>4. KindsOk'
  BY <1>1, <1>2 DEF FilesInv, FilesType, KindsOk
<1>5. \A o \in FileObj : arc'[o] = arc[o] - Mine(call[t], o) + Mine(call'[t], o)
                                   - One(table[d] = o) + One(table'[d] = o)
  <2>1. \A o \in FileObj : arc[o] \in Nat /\ Mine(call[t], o) \in Nat /\ Mine(call'[t], o) = Mine(call[t], o)
    BY <1>1 DEF Mine, One, FilesInv, FilesType
  <2>2. \A o \in FileObj : arc'[o] = arc[o] - One(table[d] = o) + One(table'[d] = o)
    BY <1>1, <1>2 DEF One, FilesInv, FilesType, FilesAssumption
  <2> QED BY <2>1, <2>2 DEF One
<1>6. count' = count - One(table[d] # NIL) + One(table'[d] # NIL)
  BY <1>1, <1>2 DEF One, FilesInv, FilesType, FilesAssumption
<1>7. \A f \in Fd \ {d} : table'[f] = table[f]
  BY <1>1, <1>2 DEF FilesInv, FilesType
<1>8. (call'[t] # NIL => CallOk(call'[t])) /\ \A u \in PosixTask : call'[u] = call[u]
  BY <1>1 DEF FilesInv, CallsOk
<1>9. /\ \A o \in FileObj, u \in PosixTask \ {t} : mutex'[o] = u <=> mutex[o] = u
      /\ \A o \in FileObj : mutex'[o] = t <=> call'[t] # NIL /\ call'[t].obj = o /\ call'[t].stage = "in"
  BY <1>1 DEF FilesInv, MutexOk
<1> QED BY <1>2, <1>3, <1>4, <1>5, <1>6, <1>7, <1>8, <1>9, OwnStep

\* close drops the Arc of the table.
LEMMA CloseStep ==
    ASSUME FilesAssumption, FilesInv, NEW t \in PosixTask, NEW d \in Fd, sys_close(t, d)
    PROVE  FilesInv'
<1> DEFINE n == table[d]
<1>1. /\ table' = [table EXCEPT ![d] = NIL] /\ count' = count - 1 /\ UNCHANGED <<mutex, call>>
      /\ n # NIL /\ n \in FileObj /\ ArcDrop(n)
  BY DEF sys_close, FilesInv, FilesType
<1>2. arc[n] >= 1
  BY <1>1, UsedAlive
<1>3. table[d] = n
  OBVIOUS
<1> HIDE DEF n
<1>4. /\ \A p \in FileObj : arc'[p] = arc[p] - One(p = n)
      /\ arc' \in [FileObj -> Nat]
      /\ kind' \in [FileObj -> {"free", "stdio", "file", "epoll"} \cup Sockets]
      /\ input' \in [FileObj -> Nat] /\ nonblocking' \in [FileObj -> BOOLEAN]
      /\ interest' \in [FileObj -> SUBSET Fd]
      /\ KindsOk'
  BY <1>1, <1>2, DropFacts
<1>5. FilesType'
  BY <1>1, <1>4 DEF FilesInv, FilesType
<1>6. \A o \in FileObj : arc'[o] = arc[o] - Mine(call[t], o) + Mine(call'[t], o)
                                   - One(table[d] = o) + One(table'[d] = o)
  <2>1. \A o \in FileObj : arc[o] \in Nat /\ Mine(call[t], o) \in Nat /\ Mine(call'[t], o) = Mine(call[t], o)
    BY <1>1 DEF Mine, One, FilesInv, FilesType
  <2>2. \A o \in FileObj : arc'[o] = arc[o] - One(table[d] = o) + One(table'[d] = o)
    BY <1>1, <1>3, <1>4 DEF One, FilesInv, FilesType, FilesAssumption
  <2> QED BY <2>1, <2>2 DEF One
<1>7. count' = count - One(table[d] # NIL) + One(table'[d] # NIL)
  BY <1>1, <1>3 DEF One, FilesInv, FilesType, FilesAssumption
<1>8. \A f \in Fd \ {d} : table'[f] = table[f]
  BY <1>1 DEF FilesInv, FilesType
<1>9. (call'[t] # NIL => CallOk(call'[t])) /\ \A u \in PosixTask : call'[u] = call[u]
  BY <1>1 DEF FilesInv, CallsOk
<1>10. /\ \A o \in FileObj, u \in PosixTask \ {t} : mutex'[o] = u <=> mutex[o] = u
       /\ \A o \in FileObj : mutex'[o] = t <=> call'[t] # NIL /\ call'[t].obj = o /\ call'[t].stage = "in"
  BY <1>1 DEF FilesInv, MutexOk
<1> QED BY <1>4, <1>5, <1>6, <1>7, <1>8, <1>9, <1>10, OwnStep

\* A call whose file goes from the call into a free descriptor, or is dropped:
\* the end of dup and dup2, and of the new connection of accept.
LEMMA InstallStep ==
    ASSUME FilesAssumption, FilesInv, NEW t \in PosixTask, NEW n \in FileObj, call[t] # NIL,
           call[t].stage # "in", n \in {call[t].obj, call[t].new},
           \A u \in PosixTask \ {t} : call'[u] = call[u], call' \in [PosixTask -> CallRec \cup {NIL}],
           call'[t] # NIL => CallOk(call'[t]) /\ call'[t].stage # "in",
           \A o \in FileObj : Mine(call'[t], o) = Mine(call[t], o) - One(o = n),
           UNCHANGED mutex,
           \/ /\ \E d \in Fd : table[d] = NIL /\ InsertAt(d, n)
              /\ UNCHANGED <<arc, kind, input, nonblocking, interest>>
           \/ ArcDrop(n) /\ UNCHANGED <<table, count>>
    PROVE  FilesInv'
<1>1. arc[n] >= 1
  <2>1. n \in {call[t].obj, call[t].sub, call[t].new}
    OBVIOUS
  <2> QED BY <2>1, UsedAlive
<1>2. \A o \in FileObj : Mine(call[t], o) \in Nat /\ Mine(call'[t], o) \in Nat /\ arc[o] \in Nat
  BY DEF Mine, One, FilesInv, FilesType
<1>3. /\ \A o \in FileObj, u \in PosixTask \ {t} : mutex'[o] = u <=> mutex[o] = u
      /\ \A o \in FileObj : mutex'[o] = t <=> call'[t] # NIL /\ call'[t].obj = o /\ call'[t].stage = "in"
  BY DEF FilesInv, MutexOk
<1>4. CASE ArcDrop(n) /\ UNCHANGED <<table, count>>
  <2>1. /\ \A p \in FileObj : arc'[p] = arc[p] - One(p = n)
        /\ arc' \in [FileObj -> Nat]
        /\ kind' \in [FileObj -> {"free", "stdio", "file", "epoll"} \cup Sockets]
        /\ input' \in [FileObj -> Nat] /\ nonblocking' \in [FileObj -> BOOLEAN]
        /\ interest' \in [FileObj -> SUBSET Fd]
        /\ KindsOk'
    BY <1>1, <1>4, DropFacts
  <2>2. FilesType'
    BY <1>4, <2>1 DEF FilesInv, FilesType
  <2>3. \A o \in FileObj : arc'[o] = arc[o] - Mine(call[t], o) + Mine(call'[t], o)
    BY <1>2, <2>1 DEF One
  <2> QED BY <1>3, <1>4, <2>1, <2>2, <2>3, OwnCall
<1>5. ASSUME NEW d \in Fd, table[d] = NIL, InsertAt(d, n),
             UNCHANGED <<arc, kind, input, nonblocking, interest>>
      PROVE  FilesInv'
  <2>1. table' = [table EXCEPT ![d] = n] /\ count' = count + 1
    BY <1>5 DEF InsertAt
  <2>2. FilesType' /\ KindsOk'
    BY <1>5, <2>1 DEF FilesInv, FilesType, KindsOk
  <2>3. \A o \in FileObj : arc'[o] = arc[o] - Mine(call[t], o) + Mine(call'[t], o)
                                     - One(table[d] = o) + One(table'[d] = o)
    <3>1. table'[d] = n /\ NIL \notin FileObj
      BY <2>1 DEF FilesInv, FilesType, FilesAssumption
    <3>2. arc' = arc /\ table[d] = NIL
      BY <1>5
    <3>3. \A o \in FileObj : /\ One(table[d] = o) = 0 /\ One(table'[d] = o) = One(o = n)
                             /\ One(o = n) \in Nat
      BY <3>1, <3>2 DEF One
    <3> QED BY <1>2, <3>2, <3>3
  <2>4. count' = count - One(table[d] # NIL) + One(table'[d] # NIL)
    BY <1>5, <2>1 DEF One, FilesInv, FilesType, FilesAssumption
  <2>5. \A f \in Fd \ {d} : table'[f] = table[f]
    BY <2>1 DEF FilesInv, FilesType
  <2> QED BY <1>3, <2>2, <2>3, <2>4, <2>5, OwnStep
<1> QED BY <1>4, <1>5

\* The end of dup, dup2 and accept.
LEMMA InstallSteps ==
    ASSUME FilesAssumption, FilesInv, NEW t \in PosixTask, DupInstall(t) \/ AcceptInstall(t)
    PROVE  FilesInv'
<1>1. call[t] # NIL /\ call[t] \in CallRec /\ CallOk(call[t])
  BY DEF DupInstall, AcceptInstall, Step, FilesInv, FilesType, CallsOk
<1>2. FreeFd # {} => FirstFree \in Fd /\ table[FirstFree] = NIL
  BY Choices
<1>3. CASE DupInstall(t)
  <2> DEFINE n == call[t].obj
  <2>1. n \in FileObj /\ call[t].stage = "install" /\ call[t].sub = NIL /\ call[t].new = NIL
    BY <1>1, <1>3 DEF DupInstall, CallOk, CallRec, FilesAssumption
  <2>2. /\ call' = [call EXCEPT ![t] = NIL] /\ UNCHANGED mutex
    BY <1>3 DEF DupInstall, Return
  <2>3. call'[t] = NIL /\ (\A u \in PosixTask \ {t} : call'[u] = call[u])
        /\ call' \in [PosixTask -> CallRec \cup {NIL}]
    BY <2>2 DEF FilesInv, FilesType
  <2>4. \A o \in FileObj : Mine(call'[t], o) = Mine(call[t], o) - One(o = n)
    BY <1>1, <2>1, <2>3 DEF Mine, One, FilesAssumption
  <2>5. \/ /\ \E d \in Fd : table[d] = NIL /\ InsertAt(d, n)
           /\ UNCHANGED <<arc, kind, input, nonblocking, interest>>
        \/ ArcDrop(n) /\ UNCHANGED <<table, count>>
    <3>1. call[t].op # "dup" /\ call[t].target \in FreeFd
             => call[t].target \in Fd /\ table[call[t].target] = NIL
      BY DEF FreeFd, Assigned
    <3> QED BY <1>2, <1>3, <3>1 DEF DupInstall
  <2> HIDE DEF n
  <2>6. n \in {call[t].obj, call[t].new}
    BY DEF n
  <2> QED BY <1>1, <2>1, <2>2, <2>3, <2>4, <2>5, <2>6, InstallStep
<1>4. CASE AcceptInstall(t)
  <2> DEFINE n == call[t].new
             c == [call[t] EXCEPT !.stage = "drop", !.new = NIL]
  <2>1. call[t].op = "accept" /\ call[t].stage = "install" /\ n \in FileObj
    BY <1>1, <1>4 DEF AcceptInstall, Step, CallOk, CallRec
  <2>2. call' = [call EXCEPT ![t] = c] /\ UNCHANGED mutex
    BY <1>4, Zenon DEF AcceptInstall
  <2>3. /\ c \in CallRec /\ c.obj = call[t].obj /\ c.op = call[t].op /\ c.target = call[t].target
        /\ c.sub = call[t].sub /\ c.new = NIL /\ c.stage = "drop"
    BY <1>1, Zenon DEF CallRec
  <2>4. \/ /\ \E d \in Fd : table[d] = NIL /\ InsertAt(d, n)
           /\ UNCHANGED <<arc, kind, input, nonblocking, interest>>
        \/ ArcDrop(n) /\ UNCHANGED <<table, count>>
    BY <1>2, <1>4 DEF AcceptInstall
  <2>5. n \in {call[t].obj, call[t].new} /\ n = call[t].new
    OBVIOUS
  <2> HIDE DEF n, c
  <2>6. call'[t] = c /\ (\A u \in PosixTask \ {t} : call'[u] = call[u])
        /\ call' \in [PosixTask -> CallRec \cup {NIL}]
    BY <2>2, <2>3 DEF FilesInv, FilesType
  <2>7. CallOk(c) /\ c # NIL
    BY <1>1, <2>1, <2>3 DEF CallOk, FilesAssumption
  <2>8. \A o \in FileObj : Mine(call'[t], o) = Mine(call[t], o) - One(o = n)
    BY <1>1, <2>1, <2>3, <2>5, <2>6, <2>7 DEF Mine, One, FilesAssumption
  <2> QED BY <1>1, <2>1, <2>2, <2>3, <2>4, <2>5, <2>6, <2>7, <2>8, InstallStep, Zenon
<1> QED BY <1>3, <1>4

\* A call locks its file, or takes a connection from its listener.
LEMMA LockStep ==
    ASSUME FilesAssumption, FilesInv, NEW t \in PosixTask, LockFile(t)
    PROVE  FilesInv'
<1> DEFINE c == [call[t] EXCEPT !.stage = "in", !.watch = interest[call[t].obj]]
<1>1. call[t] # NIL /\ call[t] \in CallRec /\ CallOk(call[t]) /\ call[t].stage = "lock"
  BY DEF LockFile, FilesInv, FilesType, CallsOk
<1>2. call[t].obj \in FileObj /\ mutex[call[t].obj] = NIL
  BY <1>1 DEF CallOk, CallRec, LockFile
<1>3. /\ c \in CallRec /\ c.obj = call[t].obj /\ c.op = call[t].op /\ c.target = call[t].target
      /\ c.sub = call[t].sub /\ c.new = call[t].new /\ c.stage = "in"
  BY <1>1, <1>2, Zenon DEF CallRec, FilesInv, FilesType
<1>4. /\ call' = [call EXCEPT ![t] = c] /\ mutex' = [mutex EXCEPT ![call[t].obj] = t]
      /\ UNCHANGED <<table, count, kind, arc, input, nonblocking, interest>>
  BY Zenon DEF LockFile
<1> HIDE DEF c
<1>5. CallOk(c) /\ c # NIL
  BY <1>1, <1>3 DEF CallOk, FilesAssumption
<1>6. call'[t] = c /\ \A u \in PosixTask \ {t} : call'[u] = call[u]
  BY <1>4 DEF FilesInv, FilesType
<1>7. FilesType' /\ KindsOk'
  BY <1>3, <1>4, Zenon DEF FilesInv, FilesType, KindsOk
<1>8. \A o \in FileObj, u \in PosixTask \ {t} : mutex'[o] = u <=> mutex[o] = u
  BY <1>2, <1>4 DEF FilesInv, FilesType, FilesAssumption
<1>9. \A o \in FileObj : mutex'[o] = t <=> call'[t] # NIL /\ call'[t].obj = o /\ call'[t].stage = "in"
  BY <1>1, <1>2, <1>3, <1>4, <1>5, <1>6 DEF FilesInv, FilesType, MutexOk
<1>10. \A o \in FileObj : arc'[o] = arc[o] - Mine(call[t], o) + Mine(call'[t], o)
  BY <1>1, <1>3, <1>4, <1>5, <1>6 DEF Mine, One, FilesInv, FilesType
<1> QED BY <1>4, <1>5, <1>6, <1>7, <1>8, <1>9, <1>10, OwnCall

\* accept finds nothing on a non-blocking listener, or makes a new socket.
LEMMA AcceptStep ==
    ASSUME FilesAssumption, FilesInv, NEW t \in PosixTask, AcceptOne(t)
    PROVE  FilesInv'
<1> DEFINE l == call[t].obj
           n == NewObj
           c == [call[t] EXCEPT !.stage = "install", !.new = n]
<1>1. /\ call[t] # NIL /\ call[t] \in CallRec /\ CallOk(call[t])
      /\ call[t].op = "accept" /\ call[t].stage = "in"
  BY DEF AcceptOne, Step, FilesInv, FilesType, CallsOk
<1>2. l \in FileObj /\ call[t].sub = NIL /\ call[t].new = NIL
  BY <1>1 DEF CallOk, CallRec
<1>3. CASE input[l] = 0
  BY <1>1, <1>2, <1>3, LeaveStep DEF AcceptOne, FilesInv, FilesType
<1>4. CASE input[l] # 0
  <2>1. /\ FreeObj # {} /\ kind' = [kind EXCEPT ![n] = "tcp"] /\ arc' = [arc EXCEPT ![n] = 1]
        /\ input' = [input EXCEPT ![l] = @ - 1] /\ mutex' = [mutex EXCEPT ![l] = NIL]
        /\ call' = [call EXCEPT ![t] = c] /\ UNCHANGED <<table, count, nonblocking, interest>>
    BY <1>4, Zenon DEF AcceptOne, Unlock
  <2>2. n \in FileObj /\ kind[n] = "free" /\ arc[n] = 0
    BY <2>1, Choices
  <2>3. /\ c \in CallRec /\ c.obj = l /\ c.op = call[t].op /\ c.target = call[t].target
        /\ c.sub = call[t].sub /\ c.new = n /\ c.stage = "install"
    BY <1>1, <2>2, Zenon DEF CallRec
  <2> HIDE DEF c, n
  <2>4. CallOk(c) /\ c # NIL
    BY <1>1, <1>2, <2>2, <2>3 DEF CallOk, FilesAssumption
  <2>5. call'[t] = c /\ \A u \in PosixTask \ {t} : call'[u] = call[u]
    BY <2>1 DEF FilesInv, FilesType
  <2>6. FilesType'
    BY <1>2, <1>4, <2>1, <2>2, <2>3 DEF FilesInv, FilesType, Sockets
  <2>7. KindsOk'
    BY <2>1, <2>2 DEF FilesInv, FilesType, KindsOk
  <2>8. \A o \in FileObj, u \in PosixTask \ {t} : mutex'[o] = u <=> mutex[o] = u
    BY <1>1, <1>2, <2>1 DEF FilesInv, FilesType, MutexOk, FilesAssumption
  <2>9. \A o \in FileObj : mutex'[o] = t <=> call'[t] # NIL /\ call'[t].obj = o /\ call'[t].stage = "in"
    BY <1>1, <1>2, <2>1, <2>3, <2>5 DEF FilesInv, FilesType, MutexOk, FilesAssumption
  <2>10. \A o \in FileObj : arc'[o] = arc[o] - Mine(call[t], o) + Mine(call'[t], o)
    <3>1. \A o \in FileObj : arc[o] \in Nat /\ arc'[o] = arc[o] + One(o = n)
      BY <2>1, <2>2 DEF One, FilesInv, FilesType
    <3>2. \A o \in FileObj : Mine(call'[t], o) = Mine(call[t], o) + One(o = n) /\ Mine(call[t], o) \in Nat
      BY <1>1, <1>2, <2>2, <2>3, <2>4, <2>5 DEF Mine, One, FilesAssumption
    <3> QED BY <3>1, <3>2 DEF One
  <2> QED BY <2>1, <2>4, <2>5, <2>6, <2>7, <2>8, <2>9, <2>10, OwnCall
<1> QED BY <1>3, <1>4

\* The Arc of a call that is over is dropped.
LEMMA DropStep ==
    ASSUME FilesAssumption, FilesInv, NEW t \in PosixTask, CallDrop(t)
    PROVE  FilesInv'
<1> DEFINE n == call[t].obj
<1>1. /\ call[t] # NIL /\ call[t] \in CallRec /\ CallOk(call[t]) /\ call[t].stage = "drop"
      /\ ArcDrop(n) /\ UNCHANGED <<table, count, mutex>> /\ call' = [call EXCEPT ![t] = NIL]
  BY DEF CallDrop, Return, FilesInv, FilesType, CallsOk
<1>2. n \in FileObj /\ call[t].sub = NIL /\ call[t].new = NIL
  BY <1>1 DEF CallOk, CallRec
<1>3. call'[t] = NIL /\ (\A u \in PosixTask \ {t} : call'[u] = call[u])
      /\ call' \in [PosixTask -> CallRec \cup {NIL}]
  BY <1>1 DEF FilesInv, FilesType
<1>4. \A o \in FileObj : Mine(call'[t], o) = Mine(call[t], o) - One(o = n)
  BY <1>1, <1>2, <1>3 DEF Mine, One, FilesAssumption
<1>5. n \in {call[t].obj, call[t].new}
  OBVIOUS
<1> HIDE DEF n
<1> QED BY <1>1, <1>2, <1>3, <1>4, <1>5, InstallStep

\* select takes its sets, holding no file.
LEMMA SelectStep ==
    ASSUME FilesAssumption, FilesInv, NEW t \in PosixTask, NEW fds \in SUBSET Fd,
           sys_select(t, fds)
    PROVE  FilesInv'
<1> DEFINE c == [op |-> "select", obj |-> NIL, target |-> fds, stage |-> "in",
                 watch |-> fds, found |-> 0, sub |-> NIL, new |-> NIL]
<1>1. /\ call[t] = NIL /\ call' = [call EXCEPT ![t] = c]
      /\ UNCHANGED <<table, count, kind, arc, mutex, input, nonblocking, interest>>
  BY DEF sys_select, Idle
<1>2. c \in CallRec /\ CallOk(c) /\ c # NIL
  BY DEF CallRec, Ops, CallOk, FilesAssumption
<1>3. c.obj = NIL /\ c.sub = NIL /\ c.new = NIL
  OBVIOUS
<1> HIDE DEF c
<1>4. call'[t] = c /\ \A u \in PosixTask \ {t} : call'[u] = call[u]
  BY <1>1 DEF FilesInv, FilesType
<1>5. FilesType' /\ KindsOk'
  BY <1>1, <1>2 DEF FilesInv, FilesType, KindsOk
<1>6. /\ \A o \in FileObj, u \in PosixTask \ {t} : mutex'[o] = u <=> mutex[o] = u
      /\ \A o \in FileObj : mutex'[o] = t <=> call'[t] # NIL /\ call'[t].obj = o /\ call'[t].stage = "in"
  BY <1>1, <1>3, <1>4 DEF FilesInv, MutexOk, FilesAssumption
<1>7. \A o \in FileObj : arc'[o] = arc[o] - Mine(call[t], o) + Mine(call'[t], o)
  BY <1>1, <1>3, <1>4 DEF Mine, One, FilesInv, FilesType, FilesAssumption
<1> QED BY <1>1, <1>2, <1>4, <1>5, <1>6, <1>7, OwnCall

\* A poll that changes only its own call, and keeps its files and its mutex.
LEMMA PollKeep ==
    ASSUME FilesAssumption, FilesInv, NEW t \in PosixTask, Polling(t), NEW c \in CallRec,
           c.obj = call[t].obj, c.op = call[t].op, c.target = call[t].target, c.stage = "in", c.new = call[t].new,
           call' = [call EXCEPT ![t] = c], UNCHANGED <<table, count, mutex>>, FilesType', KindsOk',
           \A o \in FileObj : arc'[o] = arc[o] - One(call[t].sub = o) + One(c.sub = o)
    PROVE  FilesInv'
<1>1. call[t] # NIL /\ call[t] \in CallRec /\ CallOk(call[t]) /\ call[t].op \in {"select", "epoll_wait"}
      /\ call[t].stage = "in"
  BY DEF Polling, FilesInv, FilesType, CallsOk
<1>2. CallOk(c) /\ c # NIL
  BY <1>1 DEF CallOk, FilesAssumption
<1>3. call'[t] = c /\ \A u \in PosixTask \ {t} : call'[u] = call[u]
  BY DEF FilesInv, FilesType
<1>4. /\ \A o \in FileObj, u \in PosixTask \ {t} : mutex'[o] = u <=> mutex[o] = u
      /\ \A o \in FileObj : mutex'[o] = t <=> call'[t] # NIL /\ call'[t].obj = o /\ call'[t].stage = "in"
  BY <1>1, <1>2, <1>3 DEF FilesInv, MutexOk
<1>5. \A o \in FileObj : arc'[o] = arc[o] - Mine(call[t], o) + Mine(call'[t], o)
  <2>1. \A o \in FileObj : arc[o] \in Nat
    BY DEF FilesInv, FilesType
  <2> QED BY <1>1, <1>2, <1>3, <2>1 DEF Mine, One
<1> QED BY <1>2, <1>3, <1>4, <1>5, OwnCall

\* select returns, epoll_wait unlocks its events.
LEMMA PollEndStep ==
    ASSUME FilesAssumption, FilesInv, NEW t \in PosixTask, Polling(t), call[t].sub = NIL, PollEnd(t),
           UNCHANGED <<table, count, kind, arc, input, nonblocking, interest>>
    PROVE  FilesInv'
<1>1. call[t] # NIL /\ call[t] \in CallRec /\ CallOk(call[t]) /\ call[t].op \in {"select", "epoll_wait"}
      /\ call[t].stage = "in"
  BY DEF Polling, FilesInv, FilesType, CallsOk
<1>2. CASE call[t].op # "select"
  BY <1>1, <1>2, LeaveStep DEF PollEnd, FilesInv, FilesType
<1>3. CASE call[t].op = "select"
  <2>1. call' = [call EXCEPT ![t] = NIL] /\ UNCHANGED mutex
    BY <1>3 DEF PollEnd, Return
  <2>2. call'[t] = NIL /\ \A u \in PosixTask \ {t} : call'[u] = call[u]
    BY <2>1 DEF FilesInv, FilesType
  <2>3. call[t].obj = NIL /\ call[t].new = NIL
    BY <1>1, <1>3 DEF CallOk
  <2>4. FilesType' /\ KindsOk'
    BY <2>1 DEF FilesInv, FilesType, KindsOk
  <2>5. /\ \A o \in FileObj, u \in PosixTask \ {t} : mutex'[o] = u <=> mutex[o] = u
        /\ \A o \in FileObj : mutex'[o] = t <=> call'[t] # NIL /\ call'[t].obj = o /\ call'[t].stage = "in"
    BY <2>1, <2>2, <2>3 DEF FilesInv, MutexOk, FilesAssumption
  <2>6. \A o \in FileObj : arc'[o] = arc[o] - Mine(call[t], o) + Mine(call'[t], o)
    BY <2>2, <2>3 DEF Mine, One, FilesInv, FilesType, FilesAssumption
  <2> QED BY <2>2, <2>4, <2>5, <2>6, OwnCall, Zenon
<1> QED BY <1>2, <1>3

\* poll takes the Arc of the next file, and drops it when it has looked.
LEMMA PollSteps ==
    ASSUME FilesAssumption, FilesInv, NEW t \in PosixTask, PollGet(t) \/ PollFile(t)
    PROVE  FilesInv'
<1>1. call[t] # NIL /\ call[t] \in CallRec /\ CallOk(call[t]) /\ call[t].stage = "in" /\ Polling(t)
  BY DEF PollGet, PollFile, Polling, FilesInv, FilesType, CallsOk
<1>2. CASE PollGet(t)
  <2> DEFINE fd == First(call[t].watch)
             c == [call[t] EXCEPT !.sub = table[fd], !.watch = @ \ {fd}]
  <2>1. fd \in Fd
    BY <1>1, <1>2, Choices DEF PollGet, CallRec
  <2>2. CASE table[fd] = NIL
    BY <1>1, <1>2, <2>2, PollEndStep DEF PollGet
  <2>3. CASE table[fd] # NIL
    <3>1. /\ arc' = [arc EXCEPT ![table[fd]] = @ + 1] /\ call' = [call EXCEPT ![t] = c] /\ call[t].sub = NIL
          /\ UNCHANGED <<table, count, kind, mutex, input, nonblocking, interest>>
      BY <1>2, <2>3, Zenon DEF PollGet
    <3>2. table[fd] \in FileObj
      BY <2>1, <2>3 DEF FilesInv, FilesType
    <3>3. arc[table[fd]] >= 1 /\ kind[table[fd]] # "free"
      BY <2>1, <3>2, UsedAlive
    <3>4. /\ c \in CallRec /\ c.obj = call[t].obj /\ c.op = call[t].op /\ c.target = call[t].target
          /\ c.stage = "in" /\ c.new = call[t].new /\ c.sub = table[fd]
      BY <1>1, <3>2, Zenon DEF CallRec
    <3> HIDE DEF c, fd
    <3>5. FilesType' /\ KindsOk'
      BY <3>1, <3>2, <3>3, <3>4 DEF FilesInv, FilesType, KindsOk
    <3>6. \A o \in FileObj : arc'[o] = arc[o] - One(call[t].sub = o) + One(c.sub = o)
      BY <3>1, <3>2, <3>4 DEF One, FilesInv, FilesType, FilesAssumption
    <3> QED BY <1>1, <3>1, <3>4, <3>5, <3>6, PollKeep, Zenon
  <2> QED BY <2>2, <2>3
<1>3. CASE PollFile(t)
  <2> DEFINE n == call[t].sub
             c == [call[t] EXCEPT !.sub = NIL, !.found = IF Readable(n) THEN 1 ELSE @]
  <2>1. n \in FileObj /\ n # NIL
    BY <1>1, <1>3 DEF CallRec, PollFile
  <2>2. call' = [call EXCEPT ![t] = c] /\ ArcDrop(n) /\ UNCHANGED <<table, count, mutex>>
    BY <1>3, Zenon DEF PollFile
  <2>3. arc[n] >= 1
    <3>1. \E u \in PosixTask : call[u] # NIL /\ n \in {call[u].obj, call[u].sub, call[u].new}
      BY <1>1
    <3> QED BY <2>1, <3>1, UsedAlive
  <2>4. /\ c \in CallRec /\ c.obj = call[t].obj /\ c.op = call[t].op /\ c.target = call[t].target
        /\ c.stage = "in" /\ c.new = call[t].new /\ c.sub = NIL
    BY <1>1, Zenon DEF CallRec
  <2>5. n = call[t].sub
    OBVIOUS
  <2> HIDE DEF c, n
  <2>6. /\ \A p \in FileObj : arc'[p] = arc[p] - One(p = n)
        /\ arc' \in [FileObj -> Nat]
        /\ kind' \in [FileObj -> {"free", "stdio", "file", "epoll"} \cup Sockets]
        /\ input' \in [FileObj -> Nat] /\ nonblocking' \in [FileObj -> BOOLEAN]
        /\ interest' \in [FileObj -> SUBSET Fd]
        /\ KindsOk'
    BY <2>1, <2>2, <2>3, DropFacts
  <2>7. FilesType'
    BY <2>2, <2>4, <2>6 DEF FilesInv, FilesType
  <2>8. \A o \in FileObj : arc'[o] = arc[o] - One(call[t].sub = o) + One(c.sub = o)
    BY <2>4, <2>5, <2>6 DEF One, FilesInv, FilesType, FilesAssumption
  <2> QED BY <1>1, <2>2, <2>4, <2>6, <2>7, <2>8, PollKeep, Zenon
<1> QED BY <1>2, <1>3

\* After a round, a poll ends or begins the next one.
LEMMA RoundStep ==
    ASSUME FilesAssumption, FilesInv, NEW t \in PosixTask, PollRound(t)
    PROVE  FilesInv'
<1>1. /\ call[t] # NIL /\ call[t] \in CallRec /\ CallOk(call[t]) /\ call[t].op \in {"select", "epoll_wait"}
      /\ call[t].stage = "in" /\ call[t].sub = NIL /\ Polling(t)
      /\ UNCHANGED <<table, count, kind, arc, input, nonblocking, interest>>
  BY DEF PollRound, Polling, FilesInv, FilesType, CallsOk
<1>2. CASE PollEnd(t)
  BY <1>1, <1>2, PollEndStep
<1>3. CASE call[t].op = "select" /\ call' = [call EXCEPT ![t].watch = call[t].target] /\ UNCHANGED mutex
  <2> DEFINE c == [call[t] EXCEPT !.watch = call[t].target]
  <2>1. call[t].target \in SUBSET Fd
    BY <1>1, <1>3 DEF CallOk
  <2>2. /\ c \in CallRec /\ c.obj = call[t].obj /\ c.op = call[t].op /\ c.target = call[t].target
        /\ c.stage = "in" /\ c.new = call[t].new /\ c.sub = call[t].sub
    BY <1>1, <2>1 DEF CallRec
  <2>3. call' = [call EXCEPT ![t] = c]
    BY <1>3
  <2> HIDE DEF c
  <2>4. FilesType' /\ KindsOk'
    BY <1>1, <1>3, <2>2, <2>3 DEF FilesInv, FilesType, KindsOk
  <2>5. \A o \in FileObj : arc'[o] = arc[o] - One(call[t].sub = o) + One(c.sub = o)
    BY <1>1, <2>2 DEF One, FilesInv, FilesType
  <2> QED BY <1>1, <1>3, <2>2, <2>3, <2>4, <2>5, PollKeep, Zenon
<1>4. CASE call[t].op # "select" /\ call' = [call EXCEPT ![t].stage = "lock"] /\ Unlock(t)
  <2> DEFINE c == [call[t] EXCEPT !.stage = "lock"]
  <2>1. /\ c \in CallRec /\ c.obj = call[t].obj /\ c.op = call[t].op /\ c.target = call[t].target
        /\ c.stage = "lock" /\ c.new = call[t].new /\ c.sub = call[t].sub
    BY <1>1 DEF CallRec
  <2>2. call' = [call EXCEPT ![t] = c] /\ mutex' = [mutex EXCEPT ![call[t].obj] = NIL]
    BY <1>4 DEF Unlock
  <2> HIDE DEF c
  <2>3. CallOk(c) /\ c # NIL /\ call[t].obj \in FileObj
    BY <1>1, <1>4, <2>1 DEF CallOk, CallRec, FilesAssumption
  <2>4. call'[t] = c /\ \A u \in PosixTask \ {t} : call'[u] = call[u]
    BY <2>2 DEF FilesInv, FilesType
  <2>5. FilesType' /\ KindsOk'
    BY <1>1, <2>1, <2>2, Zenon DEF FilesInv, FilesType, KindsOk
  <2>6. \A o \in FileObj, u \in PosixTask \ {t} : mutex'[o] = u <=> mutex[o] = u
    BY <1>1, <2>2, <2>3 DEF FilesInv, FilesType, MutexOk, FilesAssumption
  <2>7. \A o \in FileObj : mutex'[o] = t <=> call'[t] # NIL /\ call'[t].obj = o /\ call'[t].stage = "in"
    BY <2>1, <2>2, <2>3, <2>4 DEF FilesInv, FilesType, MutexOk, FilesAssumption
  <2>8. \A o \in FileObj : arc'[o] = arc[o] - Mine(call[t], o) + Mine(call'[t], o)
    BY <1>1, <2>1, <2>3, <2>4 DEF Mine, One, FilesInv, FilesType
  <2> QED BY <1>1, <2>3, <2>4, <2>5, <2>6, <2>7, <2>8, OwnCall, Zenon
<1> QED BY <1>2, <1>3, <1>4 DEF PollRound

\* The operations that keep their files and end the call.
LEMMA OperationSteps ==
    ASSUME FilesAssumption, FilesInv, NEW t \in PosixTask,
           Receive(t) \/ Done(t) \/ SetNonblocking(t) \/ Listen(t) \/ Control(t)
    PROVE  FilesInv'
<1>1. /\ call[t] # NIL /\ call[t] \in CallRec /\ CallOk(call[t]) /\ call[t].stage = "in"
      /\ call[t].op \in {"read", "write", "fcntl", "listen", "epoll_ctl"} /\ Leave(t)
      /\ UNCHANGED <<table, count, arc>>
  BY DEF Receive, Done, SetNonblocking, Listen, Control, Step,
         FilesInv, FilesType, CallsOk
<1>2. call[t].sub = NIL /\ call[t].obj \in FileObj /\ call[t].op # "select" /\ call[t].target \in Fd
  BY <1>1 DEF CallOk, CallRec
<1>3. kind[call[t].obj] # "free"
  BY <1>1, <1>2, UsedAlive
<1>4. /\ kind' \in [FileObj -> {"free", "stdio", "file", "epoll"} \cup Sockets]
      /\ \A o \in FileObj : kind'[o] = "free" <=> kind[o] = "free"
  BY <1>2, <1>3 DEF Receive, Done, SetNonblocking, Listen, Control,
                    FilesInv, FilesType, Sockets
<1>5. input' \in [FileObj -> Nat]
  BY <1>2 DEF Receive, Done, SetNonblocking, Listen, Control,
              FilesInv, FilesType
<1>6. nonblocking' \in [FileObj -> BOOLEAN]
  BY <1>2, Zenon DEF Receive, Done, SetNonblocking, Listen, Control,
              FilesInv, FilesType
<1>7. interest' \in [FileObj -> SUBSET Fd]
  BY <1>2 DEF Receive, Done, SetNonblocking, Listen, Control,
              FilesInv, FilesType
<1> QED BY <1>1, <1>2, <1>4, <1>5, <1>6, <1>7, LeaveStep, Zenon

\* What no call changes does not matter, and neither does what arrives.
LEMMA SameFiles ==
    ASSUME FilesAssumption, FilesInv, input' \in [FileObj -> Nat],
           UNCHANGED <<table, count, kind, arc, mutex, nonblocking, interest, call>>
    PROVE  FilesInv'
<1>1. FilesType'
  BY DEF FilesInv, FilesType
<1>2. CallsOk' /\ MutexOk' /\ KindsOk'
  BY DEF FilesInv, CallsOk, MutexOk, KindsOk
<1>3. Assigned' = Assigned /\ \A o \in FileObj : Holders(o)' = Holders(o)
  BY DEF Assigned, Holders
<1>4. CountsOk'
  BY <1>3 DEF FilesInv, CountsOk
<1> QED BY <1>1, <1>2, <1>4 DEF FilesInv

\* A call by name is a call of the operation it stands for.
LEMMA FileCallStep ==
    ASSUME FilesAssumption, FilesInv, NEW t \in PosixTask, NEW fd \in Fd, NEW name, NEW kinds,
           NEW op \in Ops \ {"select"}, FileCall(t, name, op, kinds, fd)
    PROVE  FilesInv'
BY EnterStep DEF FileCall, Idle

\* Every call of a task keeps the invariant.
LEMMA FilesNext ==
    ASSUME FilesAssumption PROVE FilesInv /\ [Next]_vars => FilesInv'
<1> SUFFICES ASSUME FilesInv, [Next]_vars PROVE FilesInv'
  OBVIOUS
<1>1. ASSUME NEW t \in PosixTask, sys_open(t) \/ sys_socket(t) \/ sys_epoll_create(t)
      PROVE  FilesInv'
  BY <1>1, AddStep DEF sys_open, sys_socket, sys_epoll_create
<1>2. ASSUME NEW t \in PosixTask, NEW fd \in Fd, sys_close(t, fd) PROVE FilesInv'
  BY <1>2, CloseStep
<1>3. ASSUME NEW t \in PosixTask, NEW fd \in Fd, NEW new \in Fd,
             sys_dup(t, fd) \/ sys_dup2(t, fd, new) \/ sys_epoll_ctl(t, fd, new)
      PROVE  FilesInv'
  BY <1>3, EnterStep DEF sys_dup, sys_dup2, sys_epoll_ctl, Idle, Ops
<1>4. ASSUME NEW t \in PosixTask, NEW fd \in Fd,
             \/ sys_read(t, fd) \/ sys_recvfrom(t, fd) \/ sys_write(t, fd)
             \/ sys_lseek(t, fd) \/ sys_fstat(t, fd) \/ sys_sendto(t, fd)
             \/ sys_bind(t, fd) \/ sys_connect(t, fd) \/ sys_shutdown(t, fd)
             \/ sys_fcntl(t, fd) \/ sys_listen(t, fd) \/ sys_accept(t, fd)
             \/ sys_epoll_wait(t, fd)
      PROVE  FilesInv'
  <2>1. \E name, kinds : \E op \in Ops \ {"select"} : FileCall(t, name, op, kinds, fd)
    BY <1>4 DEF Ops, sys_read, sys_recvfrom, sys_write, sys_lseek, sys_fstat,
                sys_sendto, sys_bind, sys_connect, sys_shutdown, sys_fcntl,
                sys_listen, sys_accept, sys_epoll_wait
  <2> QED BY <2>1, FileCallStep
<1>5. ASSUME NEW t \in PosixTask, NEW fds \in SUBSET Assigned, sys_select(t, fds) PROVE FilesInv'
  BY <1>5, SelectStep DEF Assigned
<1>6. ASSUME NEW t \in PosixTask,
             \/ DupInstall(t) \/ LockFile(t) \/ Receive(t) \/ Done(t)
             \/ SetNonblocking(t) \/ Listen(t) \/ AcceptOne(t) \/ AcceptInstall(t)
             \/ Control(t) \/ CallDrop(t) \/ PollGet(t) \/ PollFile(t)
             \/ PollRound(t)
      PROVE  FilesInv'
  BY <1>6, InstallSteps, LockStep, OperationSteps, AcceptStep, DropStep, PollSteps, RoundStep
<1>7. ASSUME NEW o \in FileObj, Arrive(o) PROVE FilesInv'
  BY <1>7, SameFiles DEF Arrive, FilesInv, FilesType
<1>8. CASE UNCHANGED vars
  BY <1>8, SameFiles DEF vars, FilesInv, FilesType
<1> QED BY <1>1, <1>2, <1>3, <1>4, <1>5, <1>6, <1>7, <1>8 DEF Next

\* For any number of tasks and files and a table of any size: whatever is
\* opened, closed, duplicated, accepted and polled while calls are in progress,
\* the strong count of a file is the number of descriptors and calls that use
\* it, the file is dropped exactly at zero, FD_TABLE counts what it holds, and
\* a mutex is held by a task inside a call on that file.
THEOREM FilesSafety ==
    ASSUME FilesAssumption PROVE Spec => []FilesAccounted
<1>1. FilesInv => FilesAccounted
  <2> SUFFICES ASSUME FilesInv PROVE FilesAccounted
    OBVIOUS
  <2>1. \A o \in FileObj : arc[o] = Holders(o) /\ (kind[o] = "free" <=> arc[o] = 0)
    BY DEF FilesInv, CountsOk, KindsOk
  <2>2. count = Cardinality(Assigned)
    BY SameCardinality DEF FilesInv, CountsOk
  <2>3. \A o \in FileObj : mutex[o] # NIL => call[mutex[o]] # NIL /\ call[mutex[o]].obj = o
    BY DEF FilesInv, FilesType, MutexOk
  <2> QED BY <2>1, <2>2, <2>3 DEF FilesAccounted
<1> QED BY FilesInit, FilesNext, <1>1, PTL DEF Spec
=============================================================================
