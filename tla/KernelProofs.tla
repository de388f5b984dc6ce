---------------------------- MODULE KernelProofs ----------------------------
(***************************************************************************)
(* The schedulers, for any number of tasks and CPUs, any time slice and    *)
(* any bounds.                                                             *)
(***************************************************************************)
EXTENDS Scheduler, WellFoundedInduction, TLAPS

\* The provers of a leaf: Zenon first, which is fast where it succeeds.
USE ZenonT(2), SMTT(30), ZenonT(30)

\* remove_task of CFScheduler looks a task up by a key it may no longer have;
\* nothing in axtask calls it, and it is left out.
SchedAssumption ==
    /\ IDLE \notin Task /\ Policies \subseteq {"fifo", "rr", "cfs"} /\ "cfs" \notin Removes
    /\ MAX_TIME_SLICE \in Nat \ {0} /\ MaxLate \in Nat

Keys == Nat \X Nat
Trees == UNION {[K -> Task] : K \in SUBSET Keys}
CfsRec == [init_vruntime : Nat, delta : Nat, nice : -20..19, id : Nat]
SchedRec ==
    [queue : Seq(Task), tree : Trees, min_vruntime : {NONE, 0}, id_pool : Nat,
     slice : [Task -> Int], cfs : [Task -> CfsRec]]

Unique(q) == \A i, j \in 1..Len(q) : q[i] = q[j] => i = j

\* The data of a scheduler: a task is in it once, the ids are from the pool.
\* In SchedRec min_vruntime is 0 once it is set: only add_task sets it, to the
\* least key, which is the 0 it gives the new task.
SchedOk(s) ==
    /\ s \in SchedRec
    /\ IF policy = "cfs"
       THEN /\ s.queue = << >> /\ \A k \in DOMAIN s.tree : k[2] < s.id_pool
            /\ \A k, l \in DOMAIN s.tree : s.tree[k] = s.tree[l] => k = l
       ELSE Unique(s.queue)

Held(s) == {t \in Task : InScheduler(s, t)}

-----------------------------------------------------------------------------
\* Every nonempty set of naturals has a least element.
LEMMA LeastNat ==
    ASSUME NEW T \in SUBSET Nat, T # {}
    PROVE  \E x \in T : \A y \in T : x <= y
<1>1. PICK x \in T : \A y \in T : ~(<<y, x>> \in OpToRel(<, Nat))
  BY WFMin, NatLessThanWellFounded
<1>2. ASSUME NEW y \in T PROVE x <= y
  <2>1. ~(y < x)
    BY <1>1 DEF OpToRel
  <2> QED BY <2>1
<1> QED BY <1>2

\* A map that is not empty has a first key.
LEMMA FirstKeyFirst ==
    ASSUME NEW map, DOMAIN map \in SUBSET Keys, DOMAIN map # {}
    PROVE  FirstKey(map) \in DOMAIN map /\ \A l \in DOMAIN map : Before(FirstKey(map), l)
<1> DEFINE K == DOMAIN map
           V == {k[1] : k \in K}
<1>0. \A k \in K : k[1] \in Nat /\ k[2] \in Nat
  BY DEF Keys
<1>1. V \in SUBSET Nat /\ V # {}
  BY <1>0
<1>2. PICK v \in V : \A w \in V : v <= w
  BY <1>1, LeastNat
<1> DEFINE I == {k[2] : k \in {l \in K : l[1] = v}}
<1>3. I \in SUBSET Nat /\ I # {}
  BY <1>0, <1>2
<1>4. PICK i \in I : \A j \in I : i <= j
  BY <1>3, LeastNat
<1>5. PICK k \in K : k[1] = v /\ k[2] = i
  BY <1>4
<1>6. ASSUME NEW l \in K PROVE Before(k, l)
  <2>1. l[1] \in V /\ v <= l[1] /\ v \in Nat /\ l[1] \in Nat
    BY <1>0, <1>1, <1>2
  <2>2. l[1] = v => l[2] \in I /\ i <= l[2]
    BY <1>4
  <2> QED BY <1>5, <2>1, <2>2 DEF Before
<1>7. \E x \in DOMAIN map : \A l \in DOMAIN map : Before(x, l)
  BY <1>5, <1>6
<1> QED BY <1>7 DEF FirstKey

\* The weights are positive.
LEMMA Weights ==
    ASSUME NEW nice \in -20..19 PROVE get_weight(nice) \in Nat \ {0}
<1>1. \A i \in 1..20 : NICE2WEIGHT_POS[i] \in Nat \ {0}
  BY DEF NICE2WEIGHT_POS
<1>2. \A i \in 1..21 : NICE2WEIGHT_NEG[i] \in Nat \ {0}
  BY DEF NICE2WEIGHT_NEG
<1> QED BY <1>1, <1>2 DEF get_weight

\* A vruntime is a natural number.
LEMMA VruntimeNat ==
    ASSUME NEW e \in CfsRec PROVE get_vruntime(e) \in Nat
<1>1. e.delta * 1024 \in Nat /\ e.nice \in -20..19 /\ e.init_vruntime \in Nat /\ e.delta \in Nat
  BY DEF CfsRec
<1>2. get_weight(e.nice) \in Nat \ {0}
  BY <1>1, Weights
<1>3. ASSUME NEW a \in Nat, NEW w \in Nat \ {0} PROVE a \div w \in Nat
  OBVIOUS
<1>4. (e.delta * 1024) \div get_weight(e.nice) \in Nat
  BY <1>1, <1>2, <1>3
<1> QED BY <1>1, <1>4 DEF get_vruntime

\* m is map with task t under the new key; r is queue q with t as a new member.
Inserted(m, map, key, t) ==
    /\ m \in Trees /\ DOMAIN m = DOMAIN map \union {key} /\ m[key] = t
    /\ \A k \in DOMAIN map : m[k] = map[k]
Grown(r, q, t) ==
    /\ r \in Seq(Task)
    /\ \A u \in Task : (\E i \in 1..Len(r) : r[i] = u) <=> u = t \/ \E i \in 1..Len(q) : q[i] = u
    /\ Unique(q) /\ (\A i \in 1..Len(q) : q[i] # t) => Unique(r)

\* An insertion under a new key adds its task, and a deletion takes one away.
LEMMA InsertFacts ==
    ASSUME NEW map \in Trees, NEW key \in Keys, key \notin DOMAIN map, NEW t \in Task
    PROVE  Inserted(Insert(map, key, t), map, key, t)
<1>1. DOMAIN map \in SUBSET Keys /\ \A k \in DOMAIN map : map[k] \in Task
  BY DEF Trees
<1>2. Insert(map, key, t) \in [DOMAIN map \union {key} -> Task]
  BY <1>1 DEF Insert
<1>3. DOMAIN map \union {key} \in SUBSET Keys
  BY <1>1
<1> QED BY <1>2, <1>3 DEF Inserted, Insert, Trees

LEMMA DeleteFacts ==
    ASSUME NEW map \in Trees, NEW key \in DOMAIN map, NEW m, m = Delete(map, key)
    PROVE  m \in Trees /\ DOMAIN m = DOMAIN map \ {key} /\ \A k \in DOMAIN m : m[k] = map[k]
<1>1. DOMAIN map \in SUBSET Keys /\ \A k \in DOMAIN map : map[k] \in Task
  BY DEF Trees
<1>2. m \in [DOMAIN map \ {key} -> Task]
  BY <1>1 DEF Delete
<1>3. DOMAIN map \ {key} \in SUBSET Keys
  BY <1>1
<1> QED BY <1>2, <1>3 DEF Delete, Trees

\* The fields of a scheduler.
LEMMA Fields ==
    ASSUME NEW s \in SchedRec
    PROVE  /\ s.queue \in Seq(Task) /\ s.tree \in Trees /\ s.min_vruntime \in {NONE, 0} /\ s.id_pool \in Nat
           /\ s.slice \in [Task -> Int] /\ s.cfs \in [Task -> CfsRec]
           /\ DOMAIN s.tree \in SUBSET Keys
BY DEF SchedRec, Trees

\* What changing the data that CFS keeps in one task leaves.
CfsSet(s, t, y, n) == [s EXCEPT !.cfs = [s.cfs EXCEPT ![t] = y], !.id_pool = n]

LEMMA CfsUpdate ==
    ASSUME NEW s \in SchedRec, NEW t \in Task, NEW y \in CfsRec, NEW n \in Nat
    PROVE  LET e == CfsSet(s, t, y, n) IN
           /\ e \in SchedRec /\ e.queue = s.queue /\ e.tree = s.tree /\ e.slice = s.slice
           /\ e.id_pool = n /\ e.min_vruntime = s.min_vruntime
<1> DEFINE f == [s.cfs EXCEPT ![t] = y]
           e == CfsSet(s, t, y, n)
<1>1. f \in [Task -> CfsRec]
  BY Fields
<1>2. e = [s EXCEPT !.cfs = f, !.id_pool = n]
  BY DEF CfsSet
<1> HIDE DEF f, e
<1>3. /\ e \in SchedRec /\ e.queue = s.queue /\ e.tree = s.tree /\ e.slice = s.slice
      /\ e.id_pool = n /\ e.min_vruntime = s.min_vruntime
  BY <1>1, <1>2 DEF SchedRec
<1> QED BY <1>3 DEF e

\* Appending to a queue, or putting in front of it, what it does not have.
LEMMA QueueGrows ==
    ASSUME NEW q \in Seq(Task), NEW t \in Task
    PROVE  Grown(Append(q, t), q, t) /\ Grown(<<t>> \o q, q, t)
<1>1. ASSUME NEW r, r = Append(q, t) PROVE Grown(r, q, t)
  <2>1. r \in Seq(Task) /\ Len(r) = Len(q) + 1 /\ r[Len(q) + 1] = t /\ \A i \in 1..Len(q) : r[i] = q[i]
    BY <1>1
  <2> QED BY <2>1 DEF Unique, Grown
<1>2. ASSUME NEW r, r = <<t>> \o q PROVE Grown(r, q, t)
  <2>1. /\ r \in Seq(Task) /\ Len(r) = Len(q) + 1 /\ r[1] = t /\ \A i \in 1..Len(q) : r[i + 1] = q[i]
    BY <1>2
  <2>2. \A i \in 2..Len(r) : r[i] = q[i - 1] /\ i - 1 \in 1..Len(q)
    BY <2>1
  <2>3. \A u \in Task : (\E i \in 1..Len(r) : r[i] = u) <=> u = t \/ \E i \in 1..Len(q) : q[i] = u
    <3>1. \A u \in Task : \A i \in 1..Len(r) : r[i] = u => u = t \/ \E j \in 1..Len(q) : q[j] = u
      BY <2>1, <2>2
    <3>2. \A i \in 1..Len(q) : i + 1 \in 1..Len(r) /\ 1 \in 1..Len(r)
      BY <2>1
    <3>3. 1 \in 1..Len(r)
      BY <2>1
    <3> QED BY <2>1, <3>1, <3>2, <3>3
  <2>4. ASSUME Unique(q), \A i \in 1..Len(q) : q[i] # t, NEW i \in 1..Len(r), NEW j \in 1..Len(r), r[i] = r[j]
        PROVE  i = j
    <3>1. CASE i = 1 \/ j = 1
      <4>1. \A k \in 2..Len(r) : r[k] # t
        BY <2>2, <2>4
      <4>2. i \in Nat /\ j \in Nat /\ (i = 1 \/ i \in 2..Len(r)) /\ (j = 1 \/ j \in 2..Len(r))
        BY <2>1, <2>4
      <4> QED BY <2>1, <2>4, <3>1, <4>1, <4>2
    <3>2. CASE i # 1 /\ j # 1
      <4>1. i \in 2..Len(r) /\ j \in 2..Len(r)
        BY <3>2
      <4>2. i - 1 = j - 1
        BY <2>2, <2>4, <4>1 DEF Unique
      <4> QED BY <4>1, <4>2
    <3> QED BY <3>1, <3>2
  <2> QED BY <2>1, <2>3, <2>4 DEF Unique, Grown
<1> QED BY <1>1, <1>2

\* A scheduler whose map got the task under a new id.
LEMMA CfsInserted ==
    ASSUME policy = "cfs", NEW s, SchedOk(s), NEW t \in Task, t \notin Held(s), NEW r \in SchedRec,
           NEW v \in Nat, Inserted(r.tree, s.tree, <<v, s.id_pool>>, t),
           r.queue = s.queue, r.id_pool = s.id_pool + 1
    PROVE  SchedOk(r) /\ Held(r) = Held(s) \union {t}
<1> DEFINE key == <<v, s.id_pool>>
           m == r.tree
<1>1. m \in Trees /\ DOMAIN m = DOMAIN s.tree \union {key} /\ m[key] = t /\ \A k \in DOMAIN s.tree : m[k] = s.tree[k]
  BY DEF Inserted
<1>2. /\ s.id_pool \in Nat /\ s.queue = << >> /\ \A k \in DOMAIN s.tree : k \in Keys /\ k[2] < s.id_pool
  BY Fields DEF SchedOk
<1> HIDE DEF m
<1>3. \A k \in DOMAIN m : k[2] < r.id_pool
  BY <1>1, <1>2 DEF Keys
<1>4. \A k \in DOMAIN s.tree : s.tree[k] # t
  BY DEF Held, InScheduler
<1>5. \A k, l \in DOMAIN m : m[k] = m[l] => k = l
  BY <1>1, <1>4 DEF SchedOk
<1>6. Held(r) = Held(s) \union {t}
  <2>1. \A u \in Task : (\E k \in DOMAIN m : m[k] = u) <=> u = t \/ \E k \in DOMAIN s.tree : s.tree[k] = u
    BY <1>1
  <2> QED BY <1>2, <2>1 DEF Held, InScheduler, m
<1> QED BY <1>2, <1>3, <1>5, <1>6 DEF SchedOk, m

\* add_task puts the task into the scheduler and changes no time slice.
LEMMA AddFacts ==
    ASSUME SchedAssumption, policy \in {"fifo", "rr", "cfs"}, NEW s, SchedOk(s), NEW t \in Task, t \notin Held(s)
    PROVE  LET r == add_task(s, t) IN SchedOk(r) /\ Held(r) = Held(s) \union {t} /\ r.slice = s.slice
<1>0. s \in SchedRec
  BY DEF SchedOk
<1> DEFINE r == add_task(s, t)
<1>1. CASE policy # "cfs"
  <2>0. r = [s EXCEPT !.queue = Append(s.queue, t)] /\ Append(s.queue, t) \in Seq(Task)
    BY <1>0, <1>1, Fields DEF add_task
  <2>1. /\ r \in SchedRec /\ r.queue = Append(s.queue, t) /\ r.slice = s.slice
    BY <1>0, <2>0 DEF SchedRec
  <2> HIDE DEF r
  <2>2. \A i \in 1..Len(s.queue) : s.queue[i] # t
    BY DEF Held, InScheduler
  <2>3. Unique(s.queue)
    BY <1>1 DEF SchedOk
  <2>4. /\ r.queue \in Seq(Task) /\ Unique(r.queue)
        /\ \A u \in Task : (\E i \in 1..Len(r.queue) : r.queue[i] = u) <=> u = t \/ \E i \in 1..Len(s.queue) : s.queue[i] = u
    <3>1. s.queue \in Seq(Task)
      BY <1>0, Fields
    <3>2. Grown(r.queue, s.queue, t)
      BY <2>1, <3>1, QueueGrows
    <3> QED BY <2>2, <2>3, <3>2 DEF Grown
  <2>5. SchedOk(r) /\ Held(r) = Held(s) \union {t}
    BY <1>1, <2>1, <2>4 DEF SchedOk, Held, InScheduler
  <2> QED BY <2>1, <2>5 DEF r
<1>2. CASE policy = "cfs"
  <2> DEFINE key == <<0, s.id_pool>>
             m == Insert(s.tree, key, t)
  <2>1. key \in Keys /\ key \notin DOMAIN s.tree /\ s.queue = << >>
    <3>1. s.id_pool \in Nat /\ s.queue = << >> /\ \A k \in DOMAIN s.tree : k[2] < s.id_pool
      BY <1>0, <1>2, Fields DEF SchedOk
    <3>2. key \in Keys /\ key[2] = s.id_pool
      BY <3>1 DEF Keys
    <3> QED BY <3>1, <3>2
  <2>2. Inserted(m, s.tree, key, t)
    <3>1. s.tree \in Trees
      BY <1>0, Fields
    <3> QED BY <2>1, <3>1, InsertFacts
  <2> HIDE DEF m
  <2>3. FirstKey(m)[1] = 0
    <3>1. DOMAIN m \in SUBSET Keys /\ DOMAIN m # {} /\ key \in DOMAIN m
      BY <2>2 DEF Trees, Inserted
    <3>2. FirstKey(m) \in Keys /\ Before(FirstKey(m), key)
      BY <3>1, FirstKeyFirst
    <3> QED BY <3>2 DEF Before, Keys
  <2>4. r = WithTree([s EXCEPT !.cfs[t].init_vruntime = 0, !.cfs[t].id = s.id_pool, !.id_pool = @ + 1], m)
    <3>1. (IF s.min_vruntime = NONE THEN 0 ELSE s.min_vruntime) = 0
      BY <1>0, Fields
    <3> QED BY <1>2, <3>1 DEF add_task, CfsAdd, m
  <2>5. /\ r \in SchedRec /\ r.queue = s.queue /\ r.tree = m /\ r.slice = s.slice /\ r.id_pool = s.id_pool + 1
    <3> DEFINE e == [s EXCEPT !.cfs[t].init_vruntime = 0, !.cfs[t].id = s.id_pool, !.id_pool = @ + 1]
    <3>1. e \in SchedRec /\ e.queue = s.queue /\ e.slice = s.slice /\ e.id_pool = s.id_pool + 1
      <4> DEFINE x == s.cfs[t]
                 y == [x EXCEPT !.init_vruntime = 0, !.id = s.id_pool]
      <4>1. x \in CfsRec /\ s.id_pool \in Nat /\ s.cfs \in [Task -> CfsRec]
        BY <1>0, Fields
      <4>2. e = CfsSet(s, t, y, s.id_pool + 1)
        BY <1>0 DEF SchedRec, CfsSet
      <4> HIDE DEF x
      <4>3. y \in CfsRec
        BY <4>1 DEF CfsRec
      <4> HIDE DEF y, e
      <4>4. s.id_pool + 1 \in Nat
        BY <4>1
      <4> QED BY <1>0, <4>2, <4>3, <4>4, CfsUpdate
    <3>2. r = [e EXCEPT !.tree = m, !.min_vruntime = 0]
      BY <2>2, <2>3, <2>4 DEF WithTree, Inserted
    <3> HIDE DEF e, r
    <3> QED BY <2>2, <3>1, <3>2 DEF SchedRec, Inserted
  <2> HIDE DEF r
  <2> QED BY <1>2, <2>2, <2>5, CfsInserted DEF r
<1> QED BY <1>1, <1>2

\* put_prev_task puts the task back, with a full time slice or the one it has.
LEMMA PutFacts ==
    ASSUME SchedAssumption, policy \in {"fifo", "rr", "cfs"}, NEW s, SchedOk(s), NEW t \in Task, t \notin Held(s),
           NEW b \in BOOLEAN
    PROVE  LET r == put_prev_task(s, t, b) IN
           /\ SchedOk(r) /\ Held(r) = Held(s) \union {t}
           /\ \/ r.slice = s.slice /\ (policy = "rr" => s.slice[t] > 0 /\ b)
              \/ policy = "rr" /\ r.slice = [s.slice EXCEPT ![t] = MAX_TIME_SLICE]
<1>0. s \in SchedRec
  BY DEF SchedOk
<1> DEFINE r == put_prev_task(s, t, b)
<1>1. CASE policy # "cfs"
  <2> DEFINE q == s.queue
             p == r.queue
  <2>0. q \in Seq(Task) /\ s.slice \in [Task -> Int] /\ MAX_TIME_SLICE \in Int
    BY <1>0, Fields DEF SchedAssumption
  <2>1. Grown(Append(q, t), q, t) /\ Grown(<<t>> \o q, q, t)
    BY <2>0, QueueGrows
  <2>2. Append(q, t) \in Seq(Task) /\ <<t>> \o q \in Seq(Task)
    BY <2>1 DEF Grown
  <2>3. /\ r \in SchedRec
        /\ \/ /\ r.slice = s.slice /\ (policy = "rr" => s.slice[t] > 0 /\ b)
           \/ policy = "rr" /\ r.slice = [s.slice EXCEPT ![t] = MAX_TIME_SLICE]
        /\ p = Append(q, t) \/ p = <<t>> \o q
    <3>1. CASE policy = "rr" /\ s.slice[t] > 0 /\ b
      <4>1. r = [s EXCEPT !.queue = <<t>> \o q]
        BY <3>1 DEF put_prev_task, RRPutPrev
      <4> QED BY <1>0, <2>2, <3>1, <4>1 DEF SchedRec
    <3>2. CASE policy = "rr" /\ ~(s.slice[t] > 0 /\ b)
      <4> DEFINE f == [s.slice EXCEPT ![t] = MAX_TIME_SLICE]
                 a == Append(q, t)
      <4>1. r = [s EXCEPT !.slice = f, !.queue = a]
        BY <1>0, <3>2 DEF put_prev_task, RRPutPrev, SchedRec
      <4>2. f \in [Task -> Int] /\ a \in Seq(Task) /\ f = [s.slice EXCEPT ![t] = MAX_TIME_SLICE] /\ a = Append(q, t)
        BY <2>0, <2>2
      <4> HIDE DEF f, a, r
      <4>3. r \in SchedRec /\ r.slice = f /\ r.queue = a
        BY <1>0, <4>1, <4>2 DEF SchedRec
      <4> QED BY <3>2, <4>2, <4>3
    <3>3. CASE policy = "fifo"
      <4>1. r = [s EXCEPT !.queue = Append(q, t)]
        BY <3>3 DEF put_prev_task
      <4> QED BY <1>0, <2>2, <3>3, <4>1 DEF SchedRec
    <3> QED BY <1>1, <3>1, <3>2, <3>3
  <2> HIDE DEF r
  <2>4. Grown(p, q, t) /\ Unique(q)
    BY <1>1, <2>1, <2>3 DEF SchedOk
  <2>5. \A i \in 1..Len(q) : q[i] # t
    BY DEF Held, InScheduler
  <2>6. SchedOk(r) /\ Held(r) = Held(s) \union {t}
    BY <1>1, <2>3, <2>4, <2>5 DEF SchedOk, Held, InScheduler, Grown
  <2> QED BY <2>3, <2>6 DEF r
<1>2. CASE policy = "cfs"
  <2> DEFINE x == s.cfs[t]
             v == get_vruntime(x)
             y == [x EXCEPT !.id = s.id_pool]
             e == CfsSet(s, t, y, s.id_pool + 1)
             m == Insert(s.tree, <<v, s.id_pool>>, t)
  <2>1. /\ x \in CfsRec /\ s.id_pool \in Nat /\ s.id_pool + 1 \in Nat /\ s.tree \in Trees
        /\ \A k \in DOMAIN s.tree : k \in Keys /\ k[2] < s.id_pool
    BY <1>0, <1>2, Fields DEF SchedOk
  <2>2. y \in CfsRec /\ v \in Nat
    BY <2>1, VruntimeNat DEF CfsRec
  <2>3. Inserted(m, s.tree, <<v, s.id_pool>>, t)
    <3>1. <<v, s.id_pool>> \in Keys /\ <<v, s.id_pool>> \notin DOMAIN s.tree
      BY <2>1, <2>2 DEF Keys
    <3> QED BY <2>1, <3>1, InsertFacts
  <2>4. r = [e EXCEPT !.tree = m]
    BY <1>0, <1>2 DEF put_prev_task, CfsPutPrev, CfsSet, SchedRec
  <2>5. e \in SchedRec /\ e.queue = s.queue /\ e.slice = s.slice /\ e.id_pool = s.id_pool + 1
    BY <1>0, <2>1, <2>2, CfsUpdate
  <2> HIDE DEF e, r, m
  <2>6. r \in SchedRec /\ r.queue = s.queue /\ r.slice = s.slice /\ r.id_pool = s.id_pool + 1 /\ r.tree = m
    BY <2>3, <2>4, <2>5 DEF SchedRec, Inserted
  <2>7. SchedOk(r) /\ Held(r) = Held(s) \union {t}
    BY <1>2, <2>2, <2>3, <2>6, CfsInserted
  <2> QED BY <1>2, <2>6, <2>7 DEF r
<1> QED BY <1>1, <1>2

\* pick_next_task takes out a task that is in the scheduler, if there is one.
LEMMA PickFacts ==
    ASSUME policy \in {"fifo", "rr", "cfs"}, NEW s, SchedOk(s)
    PROVE  /\ IsEmpty(s) <=> Held(s) = {}
           /\ ~IsEmpty(s) =>
                 LET r == pick_next_task(s) IN
                 /\ NextTask(s) \in Held(s) /\ SchedOk(r) /\ Held(r) = Held(s) \ {NextTask(s)}
                 /\ r.slice = s.slice
<1>0. s \in SchedRec
  BY DEF SchedOk
<1> DEFINE r == pick_next_task(s)
<1>1. CASE policy # "cfs"
  <2> DEFINE q == s.queue
  <2>1. q \in Seq(Task) /\ Unique(q)
    BY <1>0, <1>1, Fields DEF SchedOk
  <2>2. \A u : InScheduler(s, u) <=> \E i \in 1..Len(q) : q[i] = u
    BY <1>1 DEF InScheduler
  <2>3. IsEmpty(s) <=> Len(q) = 0
    BY <1>1, <2>1 DEF IsEmpty
  <2>4. Len(q) = 0 <=> Held(s) = {}
    <3>1. Len(q) # 0 => 1 \in 1..Len(q) /\ q[1] \in Task
      BY <2>1
    <3> QED BY <2>2, <3>1 DEF Held
  <2>5. ASSUME ~IsEmpty(s)
        PROVE  /\ NextTask(s) \in Held(s) /\ SchedOk(r) /\ Held(r) = Held(s) \ {NextTask(s)} /\ r.slice = s.slice
    <3>1. /\ Tail(q) \in Seq(Task) /\ Len(Tail(q)) = Len(q) - 1 /\ \A i \in 1..Len(Tail(q)) : Tail(q)[i] = q[i + 1]
          /\ Len(q) > 0 /\ NextTask(s) = q[1] /\ q[1] \in Task
      BY <1>1, <2>1, <2>3, <2>5 DEF NextTask
    <3>2. r = [s EXCEPT !.queue = Tail(q)]
      BY <1>1 DEF pick_next_task
    <3> HIDE DEF r
    <3>3. r \in SchedRec /\ r.queue = Tail(q) /\ r.slice = s.slice
      BY <1>0, <3>1, <3>2 DEF SchedRec
    <3>4. Unique(Tail(q))
      BY <2>1, <3>1 DEF Unique
    <3>5. \A u \in Task : (\E i \in 1..Len(Tail(q)) : Tail(q)[i] = u) <=> u # q[1] /\ \E i \in 1..Len(q) : q[i] = u
      <4>1. \A i \in 1..Len(Tail(q)) : i + 1 \in 1..Len(q) /\ Tail(q)[i] = q[i + 1] /\ q[i + 1] # q[1]
        BY <2>1, <3>1 DEF Unique
      <4>2. \A i \in 1..Len(q) : i # 1 => i - 1 \in 1..Len(Tail(q)) /\ Tail(q)[i - 1] = q[i]
        BY <2>1, <3>1
      <4>3. \A u \in Task : \A i \in 1..Len(q) : u # q[1] /\ q[i] = u => i # 1
        OBVIOUS
      <4>4. \A u \in Task : u # q[1] /\ (\E i \in 1..Len(q) : q[i] = u) => \E i \in 1..Len(Tail(q)) : Tail(q)[i] = u
        BY <4>2, <4>3
      <4>5. \A u \in Task : (\E i \in 1..Len(Tail(q)) : Tail(q)[i] = u) => u # q[1] /\ \E i \in 1..Len(q) : q[i] = u
        BY <4>1
      <4> QED BY <4>4, <4>5
    <3>6. Held(r) = Held(s) \ {q[1]}
      BY <1>1, <3>3, <3>5 DEF Held, InScheduler
    <3>7. q[1] \in Held(s)
      BY <2>1, <2>2, <3>1 DEF Held
    <3> QED BY <1>1, <3>1, <3>3, <3>4, <3>6, <3>7 DEF SchedOk
  <2> QED BY <2>3, <2>4, <2>5 DEF r
<1>2. CASE policy = "cfs"
  <2> DEFINE m == s.tree
             f == FirstKey(m)
             d == Delete(m, f)
  <2>1. /\ m \in Trees /\ DOMAIN m \in SUBSET Keys /\ s.queue = << >>
        /\ \A k \in DOMAIN m : m[k] \in Task
    BY <1>0, <1>2, Fields DEF SchedOk, Trees
  <2>2. \A u : InScheduler(s, u) <=> \E k \in DOMAIN m : m[k] = u
    BY <1>2, <2>1 DEF InScheduler
  <2>3. IsEmpty(s) <=> DOMAIN m = {}
    BY <1>2 DEF IsEmpty
  <2>4. DOMAIN m = {} <=> Held(s) = {}
    BY <2>1, <2>2 DEF Held
  <2>5. ASSUME ~IsEmpty(s)
        PROVE  /\ NextTask(s) \in Held(s) /\ SchedOk(r) /\ Held(r) = Held(s) \ {NextTask(s)} /\ r.slice = s.slice
    <3>1. f \in DOMAIN m
      BY <2>1, <2>3, <2>5, FirstKeyFirst
    <3>2. d \in Trees /\ DOMAIN d = DOMAIN m \ {f} /\ \A k \in DOMAIN d : d[k] = m[k]
      BY <2>1, <3>1, DeleteFacts
    <3>3. r = [s EXCEPT !.tree = d] /\ NextTask(s) = m[f]
      BY <1>2 DEF pick_next_task, CfsPick, NextTask
    <3> HIDE DEF r, d, f
    <3>4. r \in SchedRec /\ r.tree = d /\ r.slice = s.slice /\ r.queue = s.queue /\ r.id_pool = s.id_pool
      BY <1>0, <3>2, <3>3 DEF SchedRec
    <3>5. \A k, l \in DOMAIN m : m[k] = m[l] => k = l
      BY <1>2 DEF SchedOk
    <3>6. SchedOk(r)
      BY <1>2, <2>1, <3>2, <3>4, <3>5 DEF SchedOk
    <3>7. Held(r) = Held(s) \ {m[f]}
      <4>1. \A u \in Task : (\E k \in DOMAIN d : d[k] = u) <=> u # m[f] /\ \E k \in DOMAIN m : m[k] = u
        BY <3>1, <3>2, <3>5
      <4> QED BY <1>2, <2>1, <3>4, <4>1 DEF Held, InScheduler
    <3>8. m[f] \in Held(s)
      BY <2>1, <2>2, <3>1 DEF Held
    <3> QED BY <3>3, <3>4, <3>6, <3>7, <3>8
  <2> QED BY <2>3, <2>4, <2>5 DEF r
<1> QED BY <1>1, <1>2

\* remove_task of FIFO and round robin takes the task out.
LEMMA RemoveFacts ==
    ASSUME policy \in {"fifo", "rr"}, NEW s, SchedOk(s), NEW t \in Task
    PROVE  LET r == remove_task(s, t) IN SchedOk(r) /\ Held(r) = Held(s) \ {t} /\ r.slice = s.slice
<1> DEFINE r == remove_task(s, t)
           q == s.queue
           w == QueueRemove(q, t)
<1>1. s \in SchedRec /\ q \in Seq(Task) /\ Unique(q)
  BY Fields DEF SchedOk
<1>2. /\ w \in Seq(Task)
      /\ \A k \in 1..Len(w) : w[k] # t /\ \E i \in 1..Len(q) : q[i] = w[k]
      /\ \A i \in 1..Len(q) : q[i] # t => \E k \in 1..Len(w) : w[k] = q[i]
      /\ Unique(w)
  <2> HIDE DEF q
  <2>1. CASE \A i \in 1..Len(q) : q[i] # t
    <3>1. w = q
      BY <2>1 DEF QueueRemove
    <3> QED BY <1>1, <2>1, <3>1
  <2>2. CASE \E i \in 1..Len(q) : q[i] = t
    <3>1. PICK i \in 1..Len(q) : q[i] = t
      BY <2>2
    <3> DEFINE p == Position(q, t)
    <3>2. \A j \in 1..(i - 1) : q[j] # t
      BY <1>1, <3>1 DEF Unique
    <3>3. p \in 1..Len(q) /\ q[p] = t
      BY <3>1, <3>2 DEF Position
    <3> HIDE DEF p
    <3>4. w = Removed(q, p)
      BY <2>2 DEF QueueRemove, p
    <3>5. /\ w \in Seq(Task) /\ Len(w) = Len(q) - 1 /\ Len(q) \in Nat
          /\ \A k \in 1..Len(w) : w[k] = IF k < p THEN q[k] ELSE q[k + 1]
      <4> DEFINE a == SubSeq(q, 1, p - 1)
                 z == SubSeq(q, p + 1, Len(q))
      <4>1. a \in Seq(Task) /\ Len(a) = p - 1 /\ \A k \in 1..(p - 1) : a[k] = q[k]
        BY <1>1, <3>3
      <4>2. z \in Seq(Task) /\ Len(z) = Len(q) - p /\ \A k \in 1..(Len(q) - p) : z[k] = q[p + k]
        BY <1>1, <3>3
      <4>3. w = a \o z
        BY <3>4 DEF Removed
      <4> HIDE DEF a, z, w
      <4>4. w \in Seq(Task) /\ Len(w) = Len(q) - 1 /\ Len(q) \in Nat
        BY <1>1, <3>3, <4>1, <4>2, <4>3
      <4>5. ASSUME NEW k \in 1..Len(w) PROVE w[k] = IF k < p THEN q[k] ELSE q[k + 1]
        <5>1. CASE k < p
          BY <3>3, <4>1, <4>2, <4>3, <4>4, <5>1
        <5>2. CASE k >= p
          <6>1. w[k] = z[k - (p - 1)] /\ k - (p - 1) \in 1..(Len(q) - p) /\ p + (k - (p - 1)) = k + 1
            BY <1>1, <3>3, <4>1, <4>2, <4>3, <4>4, <5>2
          <6> QED BY <3>3, <4>2, <5>2, <6>1
        <5> QED BY <3>3, <5>1, <5>2
      <4> QED BY <4>4, <4>5
    <3> HIDE DEF w
    <3>6. \A k \in 1..Len(w) : w[k] # t /\ \E j \in 1..Len(q) : q[j] = w[k]
      BY <1>1, <3>3, <3>5 DEF Unique
    <3>7. ASSUME NEW j \in 1..Len(q), q[j] # t PROVE \E k \in 1..Len(w) : w[k] = q[j]
      <4>1. CASE j < p
        BY <3>3, <3>5, <3>7, <4>1
      <4>2. CASE j > p
        <5>1. j - 1 \in 1..Len(w) /\ w[j - 1] = q[j]
          BY <3>3, <3>5, <4>2
        <5> QED BY <5>1
      <4> QED BY <3>3, <3>7, <4>1, <4>2
    <3>8. Unique(w)
      BY <1>1, <3>3, <3>5 DEF Unique
    <3> QED BY <3>5, <3>6, <3>7, <3>8
  <2> QED BY <2>1, <2>2
<1>3. r = [s EXCEPT !.queue = w]
  BY DEF remove_task
<1> HIDE DEF r, w
<1>4. r \in SchedRec /\ r.queue = w /\ r.slice = s.slice
  BY <1>1, <1>2, <1>3, Zenon DEF SchedRec
<1>5. SchedOk(r)
  BY <1>2, <1>4 DEF SchedOk
<1>6. Held(r) = Held(s) \ {t}
  <2>1. \A u \in Task : (\E k \in 1..Len(w) : w[k] = u) <=> u # t /\ \E i \in 1..Len(q) : q[i] = u
    BY <1>2
  <2> QED BY <1>4, <2>1 DEF Held, InScheduler
<1> QED BY <1>4, <1>5, <1>6 DEF r

\* What a tick and a new priority change is in no way who is in the scheduler.
LEMMA SameHeld ==
    ASSUME NEW s, SchedOk(s), NEW r \in SchedRec, r.queue = s.queue, r.tree = s.tree, r.id_pool = s.id_pool
    PROVE  SchedOk(r) /\ Held(r) = Held(s)
BY DEF SchedOk, Held, InScheduler

\* The tick counts down a time slice, or adds to the run time of a task.
LEMMA TickFacts ==
    ASSUME policy \in {"fifo", "rr", "cfs"}, NEW s, SchedOk(s), NEW t \in Task
    PROVE  LET r == Ticked(s, t) IN
           /\ SchedOk(r) /\ Held(r) = Held(s)
           /\ r.slice = IF policy = "rr" THEN [s.slice EXCEPT ![t] = @ - 1] ELSE s.slice
<1> DEFINE r == Ticked(s, t)
<1>0. s \in SchedRec /\ s.slice \in [Task -> Int]
  BY Fields DEF SchedOk
<1>1. CASE policy = "fifo"
  BY <1>1 DEF Ticked
<1>2. CASE policy = "rr"
  <2> DEFINE f == [s.slice EXCEPT ![t] = @ - 1]
  <2>1. r = [s EXCEPT !.slice = f] /\ f \in [Task -> Int] /\ f = [s.slice EXCEPT ![t] = @ - 1]
    BY <1>0, <1>2 DEF Ticked, RRTicked, SchedRec
  <2> HIDE DEF f, r
  <2>2. /\ r \in SchedRec /\ r.slice = f /\ r.queue = s.queue /\ r.tree = s.tree /\ r.id_pool = s.id_pool
    BY <1>0, <2>1 DEF SchedRec
  <2> QED BY <1>2, <2>1, <2>2, SameHeld DEF r
<1>3. CASE policy = "cfs"
  <2> DEFINE x == s.cfs[t]
             y == [x EXCEPT !.delta = @ + 1]
  <2>1. x \in CfsRec /\ s.id_pool \in Nat
    BY <1>0, Fields
  <2>2. r = CfsSet(s, t, y, s.id_pool)
    BY <1>0, <1>3 DEF Ticked, CfsTicked, CfsSet, SchedRec
  <2> HIDE DEF x
  <2>3. y \in CfsRec
    BY <2>1 DEF CfsRec
  <2> HIDE DEF y, r
  <2>4. /\ r \in SchedRec /\ r.slice = s.slice /\ r.queue = s.queue /\ r.tree = s.tree /\ r.id_pool = s.id_pool
    BY <1>0, <2>1, <2>2, <2>3, CfsUpdate
  <2> QED BY <1>3, <2>4, SameHeld DEF r
<1> QED BY <1>1, <1>2, <1>3

\* set_priority starts the account of the task anew, at the same vruntime.
LEMMA PriorityFacts ==
    ASSUME policy \in {"fifo", "rr", "cfs"}, NEW s, SchedOk(s), NEW t \in Task, NEW prio
    PROVE  LET r == set_priority(s, t, prio) IN SchedOk(r) /\ Held(r) = Held(s) /\ r.slice = s.slice
<1> DEFINE r == set_priority(s, t, prio)
<1>0. s \in SchedRec
  BY DEF SchedOk
<1>1. CASE ~(policy = "cfs" /\ prio \in -20..19)
  BY <1>1 DEF set_priority
<1>2. CASE policy = "cfs" /\ prio \in -20..19
  <2> DEFINE x == s.cfs[t]
             v == get_vruntime(x)
             y == [x EXCEPT !.init_vruntime = v, !.delta = 0, !.nice = prio]
  <2>1. x \in CfsRec /\ s.id_pool \in Nat
    BY <1>0, Fields
  <2>2. r = CfsSet(s, t, y, s.id_pool)
    BY <1>0, <1>2 DEF set_priority, CfsSet, SchedRec
  <2> HIDE DEF x
  <2>3. v \in Nat
    BY <2>1, VruntimeNat
  <2> HIDE DEF v
  <2>4. y \in CfsRec
    BY <1>2, <2>1, <2>3 DEF CfsRec
  <2> HIDE DEF y, r
  <2>5. /\ r \in SchedRec /\ r.slice = s.slice /\ r.queue = s.queue /\ r.tree = s.tree /\ r.id_pool = s.id_pool
    BY <1>0, <2>1, <2>2, <2>4, CfsUpdate
  <2> QED BY <2>5, SameHeld DEF r
<1> QED BY <1>1, <1>2

-----------------------------------------------------------------------------
(* The run queue *)

\* The present round of a task that is not yet asked to leave: with the ticks
\* it had and the ones it has left it does not exceed a time slice.
Round(c) ==
    /\ ran[c] + sched.slice[current[c]] <= MAX_TIME_SLICE
    /\ sched.slice[current[c]] <= 0 => need[c] \/ ran[c] = 0

\* A task is in the scheduler or on one CPU.
SchedInv ==
    /\ policy \in {"fifo", "rr", "cfs"} /\ SchedOk(sched)
    /\ current \in [Cpu -> Task \union {IDLE}] /\ need \in [Cpu -> BOOLEAN] /\ ran \in [Cpu -> 0..MAX_TIME_SLICE]
    /\ \A c \in Cpu : current[c] \notin Held(sched)
    /\ \A c, d \in Cpu : current[c] = current[d] /\ current[c] # IDLE => c = d
    /\ \A t \in Task : sched.slice[t] <= MAX_TIME_SLICE
    /\ policy = "rr" => \A c \in Cpu : current[c] # IDLE => Round(c)

\* The policy is fixed, so the new scheduler is judged by the same rules.
LEMMA SamePolicy ==
    ASSUME UNCHANGED policy
    PROVE  /\ SchedOk(sched)' <=> SchedOk(sched')
           /\ runnable = Held(sched) /\ runnable' = Held(sched')
BY DEF SchedOk, Unique, Held, InScheduler, runnable

\* CPU c takes a task from a scheduler s that has what H has: that is what the
\* abstract scheduler does.
LEMMA SwitchFacts ==
    ASSUME SchedAssumption, SchedInv, NEW c \in Cpu, NEW s, SchedOk(s), SwitchNext(c, s),
           Held(s) = Held(sched) \/ (current[c] \in Task /\ Held(s) = Held(sched) \union {current[c]})
    PROVE  /\ SchedOk(sched') /\ sched'.slice = s.slice
           /\ \/ Held(s) = {} /\ Held(sched') = {} /\ current' = [current EXCEPT ![c] = IDLE]
              \/ \E t \in Held(s) : Held(sched') = Held(s) \ {t} /\ current' = [current EXCEPT ![c] = t]
           /\ current' \in [Cpu -> Task \union {IDLE}]
           /\ \A d \in Cpu : current'[d] \notin Held(sched')
           /\ \A d, e \in Cpu : current'[d] = current'[e] /\ current'[d] # IDLE => d = e
<1>0. policy \in {"fifo", "rr", "cfs"} /\ current \in [Cpu -> Task \union {IDLE}]
  BY DEF SchedInv
<1>1. IsEmpty(s) <=> Held(s) = {}
  BY <1>0, PickFacts
<1>2. CASE IsEmpty(s)
  <2>1. sched' = s /\ current' = [current EXCEPT ![c] = IDLE]
    BY <1>2 DEF SwitchNext
  <2> QED BY <1>0, <1>1, <1>2, <2>1 DEF SchedInv, SchedAssumption, Held
<1>3. CASE ~IsEmpty(s)
  <2> DEFINE t == NextTask(s)
  <2>1. sched' = pick_next_task(s) /\ current' = [current EXCEPT ![c] = t]
    BY <1>3 DEF SwitchNext
  <2>2. t \in Held(s) /\ SchedOk(sched') /\ Held(sched') = Held(s) \ {t} /\ sched'.slice = s.slice
    BY <1>0, <1>3, <2>1, PickFacts
  <2> HIDE DEF t
  <2>3. t \in Task /\ IDLE \notin Held(s)
    BY <2>2 DEF Held, SchedAssumption
  <2>4. \A d \in Cpu \ {c} : current'[d] = current[d] /\ current[d] # t
    <3>1. \A d \in Cpu : current[d] \notin Held(sched)
      BY DEF SchedInv
    <3>2. \A d \in Cpu \ {c} : current[c] \in Task => current[d] # current[c]
      BY DEF SchedInv, SchedAssumption
    <3> QED BY <1>0, <2>1, <2>2, <3>1, <3>2
  <2>5. current'[c] = t
    BY <1>0, <2>1
  <2>6. current' \in [Cpu -> Task \union {IDLE}]
    BY <1>0, <2>1, <2>3
  <2>7. \A d \in Cpu : current'[d] \notin Held(sched')
    <3>1. \A d \in Cpu : current[d] \notin Held(sched)
      BY DEF SchedInv
    <3>2. \A d \in Cpu \ {c} : current[c] \in Task => current[d] # current[c]
      BY DEF SchedInv, SchedAssumption
    <3> QED BY <2>2, <2>4, <2>5, <3>1, <3>2
  <2>8. \A d, e \in Cpu : current'[d] = current'[e] /\ current'[d] # IDLE => d = e
    BY <2>4, <2>5 DEF SchedInv
  <2> QED BY <2>1, <2>2, <2>6, <2>7, <2>8
<1> QED BY <1>2, <1>3

\* When CPU c switches, the rounds of the tasks on the CPUs stay within their
\* time slices, if only the current task of c got a new one, or a used-up one
\* got it.
LEMMA SwitchRounds ==
    ASSUME SchedAssumption, SchedInv, NEW c \in Cpu, NEW s, SchedOk(s), SwitchNext(c, s),
           policy = "rr", NEW o \in Task \union {IDLE}, o = current[c],
           \/ s.slice = sched.slice /\ (o = IDLE \/ o \notin Held(s) \/ sched.slice[o] > 0)
           \/ o \in Task /\ s.slice = [sched.slice EXCEPT ![o] = MAX_TIME_SLICE],
           sched'.slice = s.slice, current' \in [Cpu -> Task \union {IDLE}],
           current'[c] \in Held(s) \union {IDLE},
           \A d \in Cpu \ {c} : current'[d] = current[d]
    PROVE  /\ ran' \in [Cpu -> 0..MAX_TIME_SLICE]
           /\ \A t \in Task : sched'.slice[t] <= MAX_TIME_SLICE
           /\ \A d \in Cpu : current'[d] # IDLE => Round(d)'
<1>1. /\ sched.slice \in [Task -> Int] /\ s.slice \in [Task -> Int] /\ MAX_TIME_SLICE \in Nat
  BY Fields DEF SchedInv, SchedOk, SchedAssumption
<1>2. /\ ran' = [ran EXCEPT ![c] = IF current'[c] = current[c] /\ sched'.slice = sched.slice THEN @ ELSE 0]
      /\ need' = [need EXCEPT ![c] = FALSE] /\ ran \in [Cpu -> 0..MAX_TIME_SLICE] /\ need \in [Cpu -> BOOLEAN]
  BY DEF SwitchNext, SchedInv
<1>3. ran' \in [Cpu -> 0..MAX_TIME_SLICE]
  BY <1>1, <1>2
<1>4. \A t \in Task : sched'.slice[t] <= MAX_TIME_SLICE /\ sched'.slice[t] \in Int
  BY <1>1 DEF SchedInv
<1>5. ASSUME NEW d \in Cpu, current'[d] # IDLE PROVE Round(d)'
  <2>0. current'[d] \in Task
    BY <1>5
  <2>1. CASE d # c
    <3>1. current'[d] = current[d] /\ current[d] # o /\ ran'[d] = ran[d] /\ need'[d] = need[d]
      BY <1>2, <1>5, <2>1 DEF SchedInv
    <3>2. sched'.slice[current[d]] = sched.slice[current[d]]
      BY <1>1, <2>0, <3>1
    <3> QED BY <1>5, <3>1, <3>2 DEF SchedInv, Round
  <2>2. CASE d = c /\ ~(current'[c] = current[c] /\ sched'.slice = sched.slice)
    <3>1. ran'[c] = 0
      BY <1>2, <2>2
    <3> QED BY <1>1, <1>4, <2>0, <2>2, <3>1 DEF Round
  <2>3. CASE d = c /\ current'[c] = current[c] /\ sched'.slice = sched.slice
    <3>1. ran'[c] = ran[c] /\ o \in Task /\ current'[c] = o
      BY <1>2, <1>5, <2>3
    <3>2. Round(c)
      BY <2>3, <3>1 DEF SchedInv, SchedAssumption
    <3>3. sched.slice[o] > 0
      <4>1. o \in Held(s) /\ o # IDLE
        BY <3>1 DEF SchedAssumption
      <4>2. CASE s.slice = [sched.slice EXCEPT ![o] = MAX_TIME_SLICE]
        BY <1>1, <2>3, <3>1, <4>2 DEF SchedAssumption
      <4> QED BY <4>1, <4>2
    <3> QED BY <1>1, <2>3, <3>1, <3>2, <3>3 DEF Round
  <2> QED BY <2>1, <2>2, <2>3
<1> QED BY <1>3, <1>4, <1>5

\* What every step is to be: one that keeps the invariant, and a step of the
\* abstract scheduler or one it does not see.
StepOk == SchedInv' /\ [Abs!Next]_(Abs!vars)

\* CPU c switches, its current task put back or not.
LEMMA SwitchStep ==
    ASSUME SchedAssumption, SchedInv, NEW c \in Cpu, NEW s, SchedOk(s), SwitchNext(c, s),
           \/ Held(s) = Held(sched) /\ s.slice = sched.slice
           \/ /\ current[c] \in Task /\ Held(s) = Held(sched) \union {current[c]}
              /\ \/ s.slice = sched.slice /\ (policy = "rr" => sched.slice[current[c]] > 0)
                 \/ policy = "rr" /\ s.slice = [sched.slice EXCEPT ![current[c]] = MAX_TIME_SLICE]
    PROVE  StepOk
<1>1. UNCHANGED policy /\ policy \in {"fifo", "rr", "cfs"} /\ current \in [Cpu -> Task \union {IDLE}]
  BY DEF SwitchNext, SchedInv
<1>2. /\ SchedOk(sched') /\ sched'.slice = s.slice
      /\ \/ Held(s) = {} /\ Held(sched') = {} /\ current' = [current EXCEPT ![c] = IDLE]
         \/ \E t \in Held(s) : Held(sched') = Held(s) \ {t} /\ current' = [current EXCEPT ![c] = t]
      /\ current' \in [Cpu -> Task \union {IDLE}]
      /\ \A d \in Cpu : current'[d] \notin Held(sched')
      /\ \A d, e \in Cpu : current'[d] = current'[e] /\ current'[d] # IDLE => d = e
  BY SwitchFacts
<1>3. /\ need' \in [Cpu -> BOOLEAN] /\ ran' \in [Cpu -> 0..MAX_TIME_SLICE]
  BY DEF SwitchNext, SchedInv, SchedAssumption
<1>4. /\ current'[c] \in Held(s) \union {IDLE} /\ \A d \in Cpu \ {c} : current'[d] = current[d]
  BY <1>1, <1>2
<1>5. \A t \in Task : sched'.slice[t] <= MAX_TIME_SLICE
  <2>1. sched.slice \in [Task -> Int] /\ MAX_TIME_SLICE \in Nat
    BY Fields DEF SchedInv, SchedOk, SchedAssumption
  <2> QED BY <1>2, <2>1 DEF SchedInv
<1>6. policy = "rr" => \A d \in Cpu : current'[d] # IDLE => Round(d)'
  <2>1. current[c] \notin Held(sched) /\ current[c] \in Task \union {IDLE}
    BY <1>1 DEF SchedInv
  <2> QED BY <1>2, <1>4, <2>1, SwitchRounds
<1>7. SchedInv'
  <2>1. SchedOk(sched)' /\ Held(sched)' = Held(sched')
    BY <1>1, <1>2, SamePolicy DEF Held, InScheduler
  <2> QED BY <1>1, <1>2, <1>3, <1>5, <1>6, <2>1 DEF SchedInv
<1>8. Abs!Next
  <2>1. runnable = Held(sched) /\ runnable' = Held(sched')
    BY <1>1, SamePolicy
  <2>2. Abs!pick_next_task(c, Held(s))
    BY <1>2, <2>1 DEF Abs!pick_next_task
  <2>3. CASE Held(s) = Held(sched) /\ current[c] # IDLE
    BY <2>1, <2>2, <2>3 DEF Abs!block, Abs!Next
  <2>4. CASE Held(s) = Held(sched) /\ current[c] = IDLE
    <3>1. runnable \union ({current[c]} \ {IDLE}) = Held(s)
      BY <2>1, <2>4
    <3> QED BY <2>2, <3>1 DEF Abs!resched, Abs!Next
  <2>5. CASE current[c] \in Task /\ Held(s) = Held(sched) \union {current[c]}
    <3>1. runnable \union ({current[c]} \ {IDLE}) = Held(s)
      BY <2>1, <2>5 DEF SchedAssumption
    <3> QED BY <2>2, <3>1 DEF Abs!resched, Abs!Next
  <2> QED BY <2>3, <2>4, <2>5
<1> QED BY <1>7, <1>8 DEF StepOk

\* resched puts the current task back and switches.
LEMMA ReschedStep ==
    ASSUME SchedAssumption, SchedInv, NEW c \in Cpu, NEW b \in BOOLEAN, resched(c, b)
    PROVE  StepOk
<1>0. policy \in {"fifo", "rr", "cfs"} /\ SchedOk(sched) /\ current[c] \in Task \union {IDLE}
      /\ current[c] \notin Held(sched)
  BY DEF SchedInv
<1>1. CASE current[c] = IDLE
  BY <1>0, <1>1, SwitchStep DEF resched
<1>2. CASE current[c] # IDLE
  <2> DEFINE s == put_prev_task(sched, current[c], b)
  <2>1. SwitchNext(c, s) /\ current[c] \in Task
    BY <1>0, <1>2 DEF resched
  <2>2. /\ SchedOk(s) /\ Held(s) = Held(sched) \union {current[c]}
        /\ \/ s.slice = sched.slice /\ (policy = "rr" => sched.slice[current[c]] > 0 /\ b)
           \/ policy = "rr" /\ s.slice = [sched.slice EXCEPT ![current[c]] = MAX_TIME_SLICE]
    BY <1>0, <2>1, PutFacts
  <2> HIDE DEF s
  <2> QED BY <2>1, <2>2, SwitchStep
<1> QED BY <1>1, <1>2

\* A step that changes neither the tasks on the CPUs nor the rounds.
LEMMA StayStep ==
    ASSUME SchedAssumption, SchedInv, UNCHANGED <<policy, current, ran>>, SchedOk(sched'),
           need' \in [Cpu -> BOOLEAN], \A c \in Cpu : need[c] => need'[c], sched'.slice = sched.slice,
           \A c \in Cpu : current[c] \notin Held(sched'),
           \/ Held(sched') = Held(sched)
           \/ \E t \in Task : /\ t \notin Held(sched) /\ Held(sched') = Held(sched) \union {t}
           \/ \E t \in Held(sched) : Held(sched') = Held(sched) \ {t}
    PROVE  StepOk
<1>1. SchedOk(sched)' /\ Held(sched)' = Held(sched') /\ runnable = Held(sched) /\ runnable' = Held(sched')
  BY SamePolicy DEF Held, InScheduler
<1>2. policy = "rr" => \A c \in Cpu : current[c] # IDLE => Round(c)'
  BY DEF SchedInv, Round
<1>3. SchedInv'
  BY <1>1, <1>2 DEF SchedInv
<1>4. [Abs!Next]_(Abs!vars)
  <2>1. CASE Held(sched') = Held(sched)
    BY <1>1, <2>1 DEF Abs!vars
  <2>2. ASSUME NEW t \in Task, t \notin Held(sched), Held(sched') = Held(sched) \union {t} PROVE Abs!Next
    <3>1. \A c \in Cpu : current[c] # t
      BY <2>2
    <3> QED BY <1>1, <2>2, <3>1 DEF Abs!add_task, Abs!Next
  <2>3. ASSUME NEW t \in Held(sched), Held(sched') = Held(sched) \ {t} PROVE Abs!Next
    <3>1. t \in Task
      BY DEF Held
    <3> QED BY <1>1, <2>3, <3>1 DEF Abs!remove_task, Abs!Next
  <2> QED BY <2>1, <2>2, <2>3
<1> QED BY <1>3, <1>4 DEF StepOk

\* The tick of the current task of c.
LEMMA TickStep ==
    ASSUME SchedAssumption, SchedInv, NEW c \in Cpu, scheduler_timer_tick(c)
    PROVE  StepOk
<1> DEFINE t == current[c]
<1>0. /\ policy \in {"fifo", "rr", "cfs"} /\ SchedOk(sched) /\ t \in Task /\ UNCHANGED <<policy, current>>
      /\ need \in [Cpu -> BOOLEAN] /\ ran \in [Cpu -> 0..MAX_TIME_SLICE] /\ sched.slice \in [Task -> Int]
      /\ MAX_TIME_SLICE \in Nat \ {0} /\ MaxLate \in Nat /\ t # IDLE
  BY Fields DEF SchedInv, SchedOk, scheduler_timer_tick, SchedAssumption
<1>1. /\ SchedOk(sched') /\ Held(sched') = Held(sched)
      /\ \/ sched'.slice = sched.slice /\ (policy = "rr" => sched.slice[t] = -MaxLate)
         \/ policy = "rr" /\ sched'.slice = [sched.slice EXCEPT ![t] = @ - 1]
  <2>1. CASE policy = "rr" /\ sched.slice[t] = -MaxLate
    BY <1>0, <2>1 DEF scheduler_timer_tick
  <2>2. CASE ~(policy = "rr" /\ sched.slice[t] = -MaxLate)
    <3>1. sched' = Ticked(sched, t)
      BY <2>2 DEF scheduler_timer_tick
    <3> QED BY <1>0, <3>1, TickFacts
  <2> QED BY <2>1, <2>2
<1>2. /\ need' = [need EXCEPT ![c] = @ \/ TickResched(sched, t)]
      /\ ran' = IF policy = "rr" THEN [ran EXCEPT ![c] = IF @ < MAX_TIME_SLICE THEN @ + 1 ELSE @] ELSE ran
  BY DEF scheduler_timer_tick
<1>3. need' \in [Cpu -> BOOLEAN] /\ \A d \in Cpu : d # c => need'[d] = need[d]
  BY <1>0, <1>2
<1>4. policy = "rr" /\ sched.slice[t] <= 1 => need'[c]
  BY <1>0, <1>2 DEF TickResched, RRTickResched
<1>5. ran' \in [Cpu -> 0..MAX_TIME_SLICE]
  BY <1>0, <1>2
<1>6. \A u \in Task : sched'.slice[u] <= MAX_TIME_SLICE
  BY <1>0, <1>1 DEF SchedInv
<1>7. ASSUME policy = "rr", NEW d \in Cpu, current[d] # IDLE PROVE Round(d)'
  <2>1. Round(d) /\ current[d] \in Task
    BY <1>7 DEF SchedInv
  <2>2. CASE d # c
    <3>1. current[d] # t /\ ran'[d] = ran[d] /\ need'[d] = need[d]
      BY <1>0, <1>2, <1>3, <1>7, <2>2 DEF SchedInv
    <3>2. sched'.slice[current[d]] = sched.slice[current[d]]
      BY <1>0, <1>1, <2>1, <3>1
    <3> QED BY <1>0, <2>1, <3>1, <3>2 DEF Round
  <2>3. CASE d = c
    <3>1. /\ ran[c] + sched.slice[t] <= MAX_TIME_SLICE /\ ran'[c] = IF ran[c] < MAX_TIME_SLICE THEN ran[c] + 1 ELSE ran[c]
          /\ ran[c] \in 0..MAX_TIME_SLICE /\ sched.slice[t] \in Int
      BY <1>0, <1>2, <1>7, <2>1, <2>3 DEF Round
    <3>2. \/ sched'.slice[t] = sched.slice[t] /\ sched.slice[t] = -MaxLate
          \/ sched'.slice[t] = sched.slice[t] - 1
      BY <1>0, <1>1, <1>7
    <3>3. ran'[c] + sched'.slice[t] <= MAX_TIME_SLICE /\ (sched'.slice[t] <= 0 => sched.slice[t] <= 1)
      BY <1>0, <3>1, <3>2
    <3> QED BY <1>0, <1>4, <1>7, <2>3, <3>3 DEF Round
  <2> QED BY <2>2, <2>3
<1>8. SchedOk(sched)' /\ Held(sched)' = Held(sched') /\ runnable = Held(sched) /\ runnable' = Held(sched')
  BY <1>0, <1>1, SamePolicy DEF Held, InScheduler
<1>9. SchedInv'
  BY <1>0, <1>1, <1>3, <1>5, <1>6, <1>7, <1>8 DEF SchedInv
<1>10. UNCHANGED Abs!vars
  BY <1>0, <1>1, <1>8 DEF Abs!vars
<1> QED BY <1>9, <1>10 DEF StepOk

\* The CPUs start idle, with nothing to run.
LEMMA SchedInit ==
    ASSUME SchedAssumption PROVE Init => SchedInv /\ Abs!Init
<1> SUFFICES ASSUME Init PROVE SchedInv /\ Abs!Init
  OBVIOUS
<1>1. policy \in {"fifo", "rr", "cfs"}
  BY DEF Init, SchedAssumption
<1>2. /\ sched.queue = << >> /\ sched.tree = << >> /\ sched.min_vruntime = NONE /\ sched.id_pool = 0
      /\ sched.slice = [t \in Task |-> MAX_TIME_SLICE]
      /\ sched.cfs = [t \in Task |-> [init_vruntime |-> 0, delta |-> 0, nice |-> 0, id |-> 0]]
  BY DEF Init
<1>3. << >> \in [{} -> Task] /\ DOMAIN << >> = {}
  OBVIOUS
<1>4. << >> \in Trees
  BY <1>3 DEF Trees
<1>5. sched \in SchedRec
  <2>1. sched.cfs \in [Task -> CfsRec]
    BY <1>2 DEF CfsRec
  <2>2. sched.slice \in [Task -> Int] /\ sched.queue \in Seq(Task)
    BY <1>2 DEF SchedAssumption
  <2>3. ASSUME NEW q \in Seq(Task), NEW m \in Trees, NEW v \in {NONE, 0}, NEW n \in Nat,
               NEW f \in [Task -> Int], NEW g \in [Task -> CfsRec]
        PROVE  [queue |-> q, tree |-> m, min_vruntime |-> v, id_pool |-> n, slice |-> f, cfs |-> g] \in SchedRec
    BY DEF SchedRec
  <2>4. sched.tree \in Trees /\ sched.min_vruntime \in {NONE, 0} /\ sched.id_pool \in Nat
    BY <1>2, <1>4
  <2> DEFINE q == sched.queue m == sched.tree v == sched.min_vruntime n == sched.id_pool
             f == sched.slice g == sched.cfs
  <2>5. sched = [queue |-> q, tree |-> m, min_vruntime |-> v, id_pool |-> n, slice |-> f, cfs |-> g]
    BY DEF Init
  <2>6. /\ q \in Seq(Task) /\ m \in Trees /\ v \in {NONE, 0} /\ n \in Nat
        /\ f \in [Task -> Int] /\ g \in [Task -> CfsRec]
    BY <2>1, <2>2, <2>4
  <2> HIDE DEF q, m, v, n, f, g
  <2> QED BY <2>3, <2>5, <2>6
<1>6. SchedOk(sched)
  BY <1>2, <1>3, <1>5 DEF SchedOk, Unique
<1>7. Held(sched) = {} /\ runnable = {}
  BY <1>2, <1>3 DEF Held, InScheduler, runnable
<1>8. \A t \in Task : sched.slice[t] <= MAX_TIME_SLICE
  BY <1>2 DEF SchedAssumption
<1>9. /\ current = [c \in Cpu |-> IDLE] /\ need = [c \in Cpu |-> FALSE] /\ ran = [c \in Cpu |-> 0]
  BY DEF Init
<1>10. SchedInv
  BY <1>1, <1>6, <1>7, <1>8, <1>9 DEF SchedInv, SchedAssumption
<1> QED BY <1>7, <1>9, <1>10 DEF Abs!Init

\* Every operation of the run queue keeps the invariant, and is what the
\* abstract scheduler allows.
LEMMA SchedStep ==
    ASSUME SchedAssumption PROVE SchedInv /\ [Next]_vars => StepOk
<1> SUFFICES ASSUME SchedInv, [Next]_vars PROVE StepOk
  OBVIOUS
<1>0. /\ policy \in {"fifo", "rr", "cfs"} /\ SchedOk(sched) /\ need \in [Cpu -> BOOLEAN]
      /\ current \in [Cpu -> Task \union {IDLE}] /\ \A c \in Cpu : current[c] \notin Held(sched)
  BY DEF SchedInv
<1>1. ASSUME NEW c \in Cpu, NEW t \in Task, NEW b \in BOOLEAN, unblock_task(c, t, b) PROVE StepOk
  <2>1. sched' = add_task(sched, t) /\ UNCHANGED <<policy, current, ran>> /\ ~IsCurrent(t) /\ t \notin Held(sched)
        /\ need' = [need EXCEPT ![c] = @ \/ b]
    BY <1>1 DEF unblock_task, Held
  <2>2. SchedOk(sched') /\ Held(sched') = Held(sched) \union {t} /\ sched'.slice = sched.slice
    BY <1>0, <2>1, AddFacts
  <2>3. need' \in [Cpu -> BOOLEAN] /\ \A d \in Cpu : need[d] => need'[d]
    BY <1>0, <2>1
  <2>4. \A d \in Cpu : current[d] \notin Held(sched')
    BY <1>0, <2>1, <2>2 DEF IsCurrent
  <2> QED BY <2>1, <2>2, <2>3, <2>4, StayStep
<1>2. ASSUME NEW c \in Cpu, yield_current(c) \/ run_idle(c) \/ preempt_resched(c) PROVE StepOk
  BY <1>2, ReschedStep DEF yield_current, run_idle, preempt_resched
<1>3. ASSUME NEW c \in Cpu, block_current(c) PROVE StepOk
  BY <1>0, <1>3, SwitchStep DEF block_current
<1>4. ASSUME NEW c \in Cpu, scheduler_timer_tick(c) PROVE StepOk
  BY <1>4, TickStep
<1>5. ASSUME NEW c \in Cpu, NEW prio \in Prios, set_current_priority(c, prio) PROVE StepOk
  <2>1. /\ sched' = set_priority(sched, current[c], prio) /\ UNCHANGED <<policy, current, need, ran>>
        /\ current[c] \in Task
    BY <1>0, <1>5 DEF set_current_priority
  <2>2. SchedOk(sched') /\ Held(sched') = Held(sched) /\ sched'.slice = sched.slice
    BY <1>0, <2>1, PriorityFacts
  <2> QED BY <1>0, <2>1, <2>2, StayStep
<1>6. ASSUME NEW t \in Task, Remove(t) PROVE StepOk
  <2>1. /\ sched' = remove_task(sched, t) /\ UNCHANGED <<policy, current, need, ran>> /\ policy \in {"fifo", "rr"}
        /\ t \in Held(sched)
    BY <1>0, <1>6 DEF Remove, Held, SchedAssumption
  <2>2. SchedOk(sched') /\ Held(sched') = Held(sched) \ {t} /\ sched'.slice = sched.slice
    BY <1>0, <2>1, RemoveFacts
  <2> QED BY <1>0, <2>1, <2>2, StayStep
<1>7. CASE UNCHANGED vars
  BY <1>0, <1>7, StayStep DEF vars
<1> QED BY <1>1, <1>2, <1>3, <1>4, <1>5, <1>6, <1>7 DEF Next, CpuStep

\* Each of the three schedulers is to axtask a set of runnable tasks, for any
\* number of tasks and CPUs: no operation of the run queue loses a task or has
\* it twice, and a CPU goes idle only when there is nothing to run.
THEOREM SchedulerRefinement ==
    ASSUME SchedAssumption PROVE Spec => ImplementsScheduler
<1>1. SchedInv /\ [Next]_vars => SchedInv' /\ [Abs!Next]_(Abs!vars)
  BY SchedStep DEF StepOk
<1> QED BY SchedInit, <1>1, PTL DEF Spec, ImplementsScheduler, Abs!Spec

\* Under round robin a task that has had MAX_TIME_SLICE ticks in a row is about
\* to be preempted, whatever was blocked, woken and preempted before and for any
\* number of tasks and CPUs: task_tick has asked for it.
THEOREM RoundRobin ==
    ASSUME SchedAssumption PROVE Spec => []RoundEnds
<1>1. SchedInv /\ [Next]_vars => SchedInv'
  BY SchedStep DEF StepOk
<1>2. SchedInv => RoundEnds
  <2> SUFFICES ASSUME SchedInv, policy = "rr", NEW c \in Cpu, ran[c] >= MAX_TIME_SLICE, current[c] # IDLE
               PROVE  need[c]
    BY DEF RoundEnds
  <2>1. Round(c) /\ sched.slice[current[c]] \in Int /\ ran[c] \in Nat /\ MAX_TIME_SLICE \in Nat \ {0}
    BY Fields DEF SchedInv, SchedOk, SchedAssumption
  <2> QED BY <2>1 DEF Round
<1> QED BY SchedInit, <1>1, <1>2, PTL DEF Spec

\* Under CFS what add_task gives to a new or woken task is no more than the
\* vruntime of any task waiting or running, for any priorities and run times.
\* The proof shows why: as nothing but add_task sets min_vruntime, it stays 0.
THEOREM CfsNewcomer ==
    ASSUME SchedAssumption PROVE Spec => []NewcomerNotBehind
<1>1. SchedInv /\ [Next]_vars => SchedInv'
  BY SchedStep DEF StepOk
<1>2. SchedInv => NewcomerNotBehind
  <2> SUFFICES ASSUME SchedInv, sched.min_vruntime # NONE
               PROVE  /\ \A k \in DOMAIN sched.tree : sched.min_vruntime <= k[1]
                      /\ \A c \in Cpu : current[c] # IDLE =>
                            sched.min_vruntime <= get_vruntime(sched.cfs[current[c]])
    BY DEF NewcomerNotBehind
  <2>1. /\ sched.min_vruntime = 0 /\ DOMAIN sched.tree \in SUBSET Keys /\ sched.cfs \in [Task -> CfsRec]
    BY Fields DEF SchedInv, SchedOk
  <2>2. \A c \in Cpu : current[c] # IDLE => get_vruntime(sched.cfs[current[c]]) \in Nat
    BY <2>1, VruntimeNat DEF SchedInv
  <2>3. \A k \in DOMAIN sched.tree : k[1] \in Nat
    BY <2>1 DEF Keys
  <2>4. \A v \in Nat : 0 <= v
    OBVIOUS
  <2> QED BY <2>1, <2>2, <2>3, <2>4
<1> QED BY SchedInit, <1>1, <1>2, PTL DEF Spec
=============================================================================
