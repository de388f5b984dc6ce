---------------------------- MODULE AxTaskProofs ----------------------------
(* Type correctness of AxTask and consistency of its run queue, for any      *)
(* number of tasks and CPUs and for any bounds.                              *)
EXTENDS AxTask, WellFoundedInduction, TLAPS

\* The provers of a leaf: Zenon first, which is fast where it succeeds.
USE ZenonT(2), SMTT(30), ZenonT(30)

-----------------------------------------------------------------------------
(* What Without returns, for every queue. Induction is by least counter-     *)
(* example, which needs no operator as a parameter.                          *)

\* Every nonempty set of naturals has a least element.
LEMMA LeastNat ==
    ASSUME NEW T \in SUBSET Nat, T # {}
    PROVE  \E x \in T : \A y \in T : x <= y
<1>1. PICK x \in T : \A y \in T : ~(<<y, x>> \in OpToRel(<, Nat))
  BY WFMin, NatLessThanWellFounded
<1>2. ASSUME NEW y \in T PROVE x <= y
  <2>1. ~(y < x)
    BY <1>1 DEF OpToRel
  <2> QED BY <2>1
<1> QED BY <1>2

Body(q, D, f, i) ==
    IF i = 0 THEN << >>
    ELSE IF q[i] \in D THEN f[i - 1] ELSE Append(f[i - 1], q[i])

KeptBy(S, q, D) ==
    {f \in [0..Len(q) -> Seq(S)] : \A i \in 0..Len(q) : f[i] = Body(q, D, f, i)}

\* The recursive function in Without exists.
LEMMA KeptExists ==
    ASSUME NEW S, NEW q \in Seq(S), NEW D
    PROVE  KeptBy(S, q, D) # {}
<1> USE DEF KeptBy
<1> DEFINE P(n) == \E f \in [0..n -> Seq(S)] : \A i \in 0..n : f[i] = Body(q, D, f, i)
           Bad == {n \in 0..Len(q) : ~P(n)}
<1>1. SUFFICES ASSUME Bad # {} PROVE FALSE
  <2>1. Len(q) \in 0..Len(q)
    OBVIOUS
  <2> QED BY <2>1
<1>2. Bad \in SUBSET Nat
  OBVIOUS
<1>3. PICK n \in Bad : \A y \in Bad : n <= y
  <2> HIDE DEF Bad
  <2> QED BY <1>1, <1>2, LeastNat
<1>4. n \in 0..Len(q) /\ ~P(n)
  OBVIOUS
<1>5. CASE n = 0
  <2>1. [i \in 0..0 |-> << >>] \in [0..0 -> Seq(S)]
    OBVIOUS
  <2>2. \A i \in 0..0 : [j \in 0..0 |-> << >>][i] = Body(q, D, [j \in 0..0 |-> << >>], i)
    BY DEF Body
  <2> QED BY <1>4, <1>5, <2>1, <2>2
<1>6. CASE n > 0
  <2>1. n - 1 \in 0..Len(q) /\ n - 1 \notin Bad
    <3>1. n - 1 \in 0..Len(q) /\ ~(n <= n - 1)
      BY <1>4, <1>6
    <3> HIDE DEF Bad
    <3> QED BY <1>3, <3>1
  <2>2. P(n - 1)
    BY <2>1
  <2>3. PICK f \in [0..(n - 1) -> Seq(S)] : \A i \in 0..(n - 1) : f[i] = Body(q, D, f, i)
    BY <2>2
  <2> DEFINE g == [i \in 0..n |-> IF i = n THEN Body(q, D, f, n) ELSE f[i]]
  <2>4. Body(q, D, f, n) \in Seq(S)
    BY <1>4, <1>6 DEF Body
  <2>5. g \in [0..n -> Seq(S)]
    BY <1>4, <1>6, <2>4
  <2>6. ASSUME NEW i \in 0..n PROVE g[i] = Body(q, D, g, i)
    <3>1. CASE i = n
      BY <1>4, <1>6, <3>1 DEF Body
    <3>2. CASE i # n
      <4>1. i \in 0..(n - 1) /\ (i # 0 => i - 1 \in 0..(n - 1) /\ i - 1 # n)
        BY <1>4, <1>6, <3>2
      <4>2. g[i] = f[i] /\ (i # 0 => g[i - 1] = f[i - 1])
        BY <1>4, <3>2, <4>1
      <4> HIDE DEF g
      <4> QED BY <2>3, <4>1, <4>2 DEF Body
    <3> QED BY <3>1, <3>2
  <2> HIDE DEF g
  <2> QED BY <1>4, <2>5, <2>6
<1> QED BY <1>4, <1>5, <1>6

\* Without(q, D) has exactly the members of q that are not in D, and repeats
\* nothing that q does not repeat.
LEMMA WithoutFacts ==
    ASSUME NEW S, NEW q \in Seq(S), NEW D
    PROVE  LET r == Without(q, D) IN
           /\ r \in Seq(S)
           /\ \A k \in 1..Len(r) : r[k] \notin D /\ \E i \in 1..Len(q) : q[i] = r[k]
           /\ \A i \in 1..Len(q) : q[i] \notin D => \E k \in 1..Len(r) : r[k] = q[i]
           /\ (\A i, j \in 1..Len(q) : q[i] = q[j] => i = j)
                  => \A k, l \in 1..Len(r) : r[k] = r[l] => k = l
<1>0. PICK f : f \in KeptBy(S, q, D)
  BY KeptExists
<1>1. f \in [0..Len(q) -> Seq(S)] /\ \A i \in 0..Len(q) : f[i] = Body(q, D, f, i)
  BY <1>0 DEF KeptBy
<1>2. f = [i \in 0..Len(q) |-> Body(q, D, f, i)]
  BY <1>1
<1> DEFINE kept == CHOOSE g : g = [i \in 0..Len(q) |-> Body(q, D, g, i)]
<1>3. kept = [i \in 0..Len(q) |-> Body(q, D, kept, i)]
  BY <1>2
<1>4. Without(q, D) = kept[Len(q)]
  BY DEF Without, Body
<1> HIDE DEF kept
<1> DEFINE Members(n) ==
               /\ kept[n] \in Seq(S)
               /\ \A k \in 1..Len(kept[n]) :
                     kept[n][k] \notin D /\ \E i \in 1..n : q[i] = kept[n][k]
               /\ \A i \in 1..n : q[i] \notin D => \E k \in 1..Len(kept[n]) : kept[n][k] = q[i]
               /\ (\A i, j \in 1..Len(q) : q[i] = q[j] => i = j)
                      => \A k, l \in 1..Len(kept[n]) : kept[n][k] = kept[n][l] => k = l
           Bad == {n \in 0..Len(q) : ~Members(n)}
<1>5. ASSUME Bad # {} PROVE FALSE
  <2>1. Bad \in SUBSET Nat
    OBVIOUS
  <2>2. PICK n \in Bad : \A y \in Bad : n <= y
    <3> HIDE DEF Bad
    <3> QED BY <1>5, <2>1, LeastNat
  <2>3. n \in 0..Len(q) /\ ~Members(n)
    BY <2>2
  <2>4. kept[n] = Body(q, D, kept, n)
    BY <1>3, <2>3
  <2>5. CASE n = 0
    <3>1. kept[n] = << >>
      BY <2>4, <2>5 DEF Body
    <3> QED BY <2>3, <2>5, <3>1
  <2>6. CASE n > 0
    <3>1. n - 1 \in 0..Len(q) /\ ~(n <= n - 1)
      BY <2>3, <2>6
    <3>2. Members(n - 1)
      <4>1. n - 1 \notin Bad
        <5> HIDE DEF Bad
        <5> QED BY <2>2, <3>1
      <4> QED BY <3>1, <4>1
    <3>3. CASE q[n] \in D
      <4>1. kept[n] = kept[n - 1]
        BY <2>3, <2>4, <2>6, <3>3 DEF Body
      <4>2. \A i \in 1..(n - 1) : i \in 1..n
        BY <2>3, <2>6
      <4>3. \A i \in 1..n : q[i] \notin D => i \in 1..(n - 1)
        BY <2>3, <2>6, <3>3
      <4>4. \A k \in 1..Len(kept[n]) :
               kept[n][k] \notin D /\ \E i \in 1..n : q[i] = kept[n][k]
        BY <3>2, <4>1, <4>2
      <4>5. \A i \in 1..n : q[i] \notin D => \E k \in 1..Len(kept[n]) : kept[n][k] = q[i]
        BY <3>2, <4>1, <4>3
      <4> QED BY <2>3, <3>2, <4>1, <4>4, <4>5
    <3>4. CASE q[n] \notin D
      <4>1. kept[n] = Append(kept[n - 1], q[n]) /\ q[n] \in S
        BY <2>3, <2>4, <2>6, <3>4 DEF Body
      <4>2. /\ kept[n] \in Seq(S) /\ Len(kept[n - 1]) \in Nat
            /\ Len(kept[n]) = Len(kept[n - 1]) + 1 /\ kept[n][Len(kept[n])] = q[n]
            /\ \A k \in 1..Len(kept[n - 1]) : kept[n][k] = kept[n - 1][k]
        BY <3>2, <4>1
      <4>3. \A k \in 1..Len(kept[n]) : k = Len(kept[n]) \/ k \in 1..Len(kept[n - 1])
        BY <4>2
      <4>4. \A i \in 1..n : i = n \/ i \in 1..(n - 1)
        BY <2>3, <2>6
      <4>5. n \in 1..n /\ (\A i \in 1..(n - 1) : i \in 1..n /\ i # n)
               /\ (\A i \in 1..n : i \in 1..Len(q))
        BY <2>3, <2>6
      <4>6. Len(kept[n]) \in 1..Len(kept[n])
               /\ (\A k \in 1..Len(kept[n - 1]) : k \in 1..Len(kept[n]))
        BY <4>2
      <4>7. ASSUME NEW k \in 1..Len(kept[n])
            PROVE  kept[n][k] \notin D /\ \E i \in 1..n : q[i] = kept[n][k]
        <5>1. CASE k = Len(kept[n])
          BY <3>4, <4>2, <4>5, <5>1
        <5>2. CASE k \in 1..Len(kept[n - 1])
          <6>1. /\ kept[n][k] = kept[n - 1][k] /\ kept[n - 1][k] \notin D
                /\ \E i \in 1..(n - 1) : q[i] = kept[n - 1][k]
            BY <3>2, <4>2, <5>2
          <6> QED BY <4>5, <6>1
        <5> QED BY <4>3, <5>1, <5>2
      <4>8. ASSUME NEW i \in 1..n, q[i] \notin D
            PROVE  \E k \in 1..Len(kept[n]) : kept[n][k] = q[i]
        <5>1. CASE i = n
          BY <4>2, <4>6, <5>1
        <5>2. CASE i \in 1..(n - 1)
          BY <3>2, <4>2, <4>6, <4>8, <5>2
        <5> QED BY <4>4, <5>1, <5>2
      <4>9. ASSUME \A i, j \in 1..Len(q) : q[i] = q[j] => i = j,
                   NEW k \in 1..Len(kept[n]), NEW l \in 1..Len(kept[n]),
                   kept[n][k] = kept[n][l]
            PROVE  k = l
        <5>1. \A m \in 1..Len(kept[n - 1]) : kept[n][m] # q[n]
          BY <3>2, <4>2, <4>5, <4>9
        <5>2. CASE k = Len(kept[n]) \/ l = Len(kept[n])
          BY <4>2, <4>3, <4>9, <5>1, <5>2
        <5>3. CASE k \in 1..Len(kept[n - 1]) /\ l \in 1..Len(kept[n - 1])
          BY <3>2, <4>2, <4>9, <5>3
        <5> QED BY <4>3, <5>2, <5>3
      <4> QED BY <2>3, <4>2, <4>7, <4>8, <4>9
    <3> QED BY <3>3, <3>4
  <2> QED BY <2>3, <2>5, <2>6
<1>6. Members(Len(q))
  <2>1. Len(q) \in 0..Len(q)
    OBVIOUS
  <2> HIDE DEF Members
  <2> QED BY <1>5, <2>1, Zenon
<1> QED BY <1>4, <1>6

\* Without keeps a queue of S a queue of S.
LEMMA WithoutSeq ==
    ASSUME NEW S, NEW q \in Seq(S), NEW D
    PROVE  Without(q, D) \in Seq(S)
BY WithoutFacts

-----------------------------------------------------------------------------
(* One field of the run queue at a time. *)

WithState(r, x) == [r EXCEPT !.state = x]
WithReady(r, x) == [r EXCEPT !.ready = x]
WithCurrent(r, x) == [r EXCEPT !.current = x]
WithNeed(r, x) == [r EXCEPT !.need = x]

\* A new value of state.
LEMMA SetState ==
    ASSUME NEW r \in RunQueueType, NEW x \in [Task -> States]
    PROVE  /\ WithState(r, x) \in RunQueueType /\ WithState(r, x).state = x
           /\ WithState(r, x).ready = r.ready /\ WithState(r, x).current = r.current /\ WithState(r, x).need = r.need
BY DEF RunQueueType, WithState

\* A new value of ready.
LEMMA SetReady ==
    ASSUME NEW r \in RunQueueType, NEW x \in Seq(Task)
    PROVE  /\ WithReady(r, x) \in RunQueueType /\ WithReady(r, x).ready = x
           /\ WithReady(r, x).state = r.state /\ WithReady(r, x).current = r.current /\ WithReady(r, x).need = r.need
BY DEF RunQueueType, WithReady

\* A new value of current.
LEMMA SetCurrent ==
    ASSUME NEW r \in RunQueueType, NEW x \in [Cpu -> Task \union {IDLE}]
    PROVE  /\ WithCurrent(r, x) \in RunQueueType /\ WithCurrent(r, x).current = x
           /\ WithCurrent(r, x).state = r.state /\ WithCurrent(r, x).ready = r.ready /\ WithCurrent(r, x).need = r.need
BY DEF RunQueueType, WithCurrent

\* A new value of need.
LEMMA SetNeed ==
    ASSUME NEW r \in RunQueueType, NEW x \in [Cpu -> BOOLEAN]
    PROVE  /\ WithNeed(r, x) \in RunQueueType /\ WithNeed(r, x).need = x
           /\ WithNeed(r, x).state = r.state /\ WithNeed(r, x).ready = r.ready /\ WithNeed(r, x).current = r.current
BY DEF RunQueueType, WithNeed

\* A task added to the ready queue.
AddReady(r, u) == [r EXCEPT !.state[u] = "Ready", !.ready = Append(@, u)]

\* What that changes, and what it leaves alone.
LEMMA ReadyRecord ==
    ASSUME NEW r \in RunQueueType, NEW u \in Task
    PROVE  /\ AddReady(r, u).state = [r.state EXCEPT ![u] = "Ready"]
           /\ AddReady(r, u).ready = Append(r.ready, u)
           /\ AddReady(r, u).current = r.current /\ AddReady(r, u).need = r.need
           /\ AddReady(r, u) \in RunQueueType
<1> DEFINE st == [r.state EXCEPT ![u] = "Ready"]
           q == Append(r.ready, u)
           s == WithState(r, st)
<1>1. st \in [Task -> States] /\ q \in Seq(Task)
  BY DEF RunQueueType, States
<1>2. AddReady(r, u) = WithReady(s, q)
  BY DEF AddReady, WithState, WithReady
<1> HIDE DEF st, q
<1>3. s \in RunQueueType /\ s.state = st /\ s.ready = r.ready /\ s.current = r.current /\ s.need = r.need
  BY <1>1, SetState
<1> HIDE DEF s
<1>4. /\ AddReady(r, u).state = st /\ AddReady(r, u).ready = q
      /\ AddReady(r, u).current = r.current /\ AddReady(r, u).need = r.need
      /\ AddReady(r, u) \in RunQueueType
  BY <1>1, <1>2, <1>3, SetReady
<1> QED BY <1>4 DEF st, q

\* Task x put on CPU c, as switch_to() does it.
LEMMA SwitchRecord ==
    ASSUME NEW r \in RunQueueType, NEW c \in Cpu, NEW x \in Task \union {IDLE}
    PROVE  /\ switch_to(r, c, x).state = IF x = IDLE THEN r.state ELSE [r.state EXCEPT ![x] = "Running"]
           /\ switch_to(r, c, x).ready = r.ready
           /\ switch_to(r, c, x).current = [r.current EXCEPT ![c] = x]
           /\ switch_to(r, c, x) \in RunQueueType
<1> DEFINE st == IF x = IDLE THEN r.state ELSE [r.state EXCEPT ![x] = "Running"]
           cu == [r.current EXCEPT ![c] = x]
           ne == [r.need EXCEPT ![c] = FALSE]
           s1 == WithState(r, st)
           s2 == WithCurrent(s1, cu)
<1>1. st \in [Task -> States] /\ cu \in [Cpu -> Task \union {IDLE}] /\ ne \in [Cpu -> BOOLEAN]
  BY DEF RunQueueType, States
<1>2. switch_to(r, c, x) = WithNeed(s2, ne)
  BY DEF switch_to, WithState, WithCurrent, WithNeed
<1> HIDE DEF st, cu, ne
<1>3. s1 \in RunQueueType /\ s1.state = st /\ s1.ready = r.ready /\ s1.current = r.current /\ s1.need = r.need
  BY <1>1, SetState
<1> HIDE DEF s1
<1>4. s2 \in RunQueueType /\ s2.state = st /\ s2.ready = r.ready /\ s2.current = cu /\ s2.need = r.need
  BY <1>1, <1>3, SetCurrent
<1> HIDE DEF s2
<1>5. /\ switch_to(r, c, x).state = st /\ switch_to(r, c, x).ready = r.ready
      /\ switch_to(r, c, x).current = cu /\ switch_to(r, c, x) \in RunQueueType
  BY <1>1, <1>2, <1>4, SetNeed
<1> QED BY <1>5 DEF st, cu

\* Appending what is not in a sequence repeats nothing.
LEMMA AppendDistinct ==
    ASSUME NEW q \in Seq(Task), NEW t \in Task,
           \A i, j \in 1..Len(q) : q[i] = q[j] => i = j,
           \A i \in 1..Len(q) : q[i] # t
    PROVE  /\ \A i, j \in 1..Len(Append(q, t)) : Append(q, t)[i] = Append(q, t)[j] => i = j
           /\ \A u \in Task : (\E i \in 1..Len(Append(q, t)) : Append(q, t)[i] = u)
                                  <=> (\E i \in 1..Len(q) : q[i] = u) \/ u = t
<1> DEFINE a == Append(q, t)
<1>1. /\ Len(a) = Len(q) + 1 /\ a[Len(a)] = t /\ Len(q) \in Nat
      /\ \A i \in 1..Len(q) : a[i] = q[i]
  OBVIOUS
<1> HIDE DEF a
<1>2. \A i \in 1..Len(a) : i = Len(a) \/ i \in 1..Len(q)
  BY <1>1
<1>3. \A i, j \in 1..Len(a) : a[i] = a[j] => i = j
  BY <1>1, <1>2
<1>4. \A u \in Task : (\E i \in 1..Len(a) : a[i] = u) <=> (\E i \in 1..Len(q) : q[i] = u) \/ u = t
  BY <1>1, <1>2
<1> QED BY <1>3, <1>4 DEF a

\* Taking the head off a sequence without repetitions removes that member only.
LEMMA TailDistinct ==
    ASSUME NEW q \in Seq(Task), q # << >>,
           \A i, j \in 1..Len(q) : q[i] = q[j] => i = j
    PROVE  /\ Head(q) \in Task /\ Tail(q) \in Seq(Task)
           /\ \A i, j \in 1..Len(Tail(q)) : Tail(q)[i] = Tail(q)[j] => i = j
           /\ \A u \in Task : (\E i \in 1..Len(Tail(q)) : Tail(q)[i] = u)
                                  <=> (\E i \in 1..Len(q) : q[i] = u) /\ u # Head(q)
           /\ \E i \in 1..Len(q) : q[i] = Head(q)
<1> DEFINE h == Tail(q)
<1>1. /\ Len(q) \in Nat /\ Len(q) > 0 /\ Head(q) = q[1] /\ Head(q) \in Task /\ h \in Seq(Task)
      /\ Len(h) = Len(q) - 1 /\ \A i \in 1..Len(h) : h[i] = q[i + 1]
  OBVIOUS
<1> HIDE DEF h
<1>2. \A i \in 1..Len(h) : i + 1 \in 1..Len(q) /\ i + 1 # 1
  BY <1>1
<1>3. \A i \in 1..Len(q) : i = 1 \/ (i - 1 \in 1..Len(h) /\ h[i - 1] = q[i])
  BY <1>1
<1>4. 1 \in 1..Len(q)
  BY <1>1
<1>5. \A i, j \in 1..Len(h) : h[i] = h[j] => i = j
  BY <1>1, <1>2
<1>6. \A u \in Task : (\E i \in 1..Len(h) : h[i] = u) <=> (\E i \in 1..Len(q) : q[i] = u) /\ u # q[1]
  BY <1>1, <1>2, <1>3, <1>4
<1> QED BY <1>1, <1>4, <1>5, <1>6 DEF h

(* The methods of AxRunQueue keep the run queue consistent. *)

\* r.unblock_task(): a blocked task goes to the end of the ready queue, and
\* nothing else changes that consistency is about.
LEMMA UnblockConsistent ==
    ASSUME NEW r \in RunQueueType, NEW lock, Consistent(r, lock),
           NEW c \in Cpu, NEW t \in Task, NEW b \in BOOLEAN
    PROVE  LET s == unblock_task(r, c, t, b) IN
           /\ s \in RunQueueType /\ Consistent(s, lock) /\ s.current = r.current
           /\ \A u \in Task : r.state[u] # "Blocked" \/ u # t => s.state[u] = r.state[u]
           /\ s.state[t] # "Blocked" /\ (r.state[t] = "Blocked" => s.state[t] = "Ready")
<1>1. CASE r.state[t] # "Blocked"
  BY <1>1 DEF unblock_task
<1>2. CASE r.state[t] = "Blocked"
  <2> DEFINE s == unblock_task(r, c, t, b)
  <2> DEFINE s1 == AddReady(r, t)
             ne == [r.need EXCEPT ![c] = @ \/ (b /\ PREEMPT)]
  <2>1. /\ s1.state = [r.state EXCEPT ![t] = "Ready"] /\ s1.ready = Append(r.ready, t)
        /\ s1.current = r.current /\ s1.need = r.need /\ s1 \in RunQueueType
    BY ReadyRecord
  <2>2. /\ s.state = [r.state EXCEPT ![t] = "Ready"] /\ s.ready = Append(r.ready, t)
        /\ s.current = r.current /\ s \in RunQueueType
    <3>1. s = WithNeed(s1, ne)
      BY <1>2 DEF unblock_task, AddReady, WithNeed
    <3>2. ne \in [Cpu -> BOOLEAN]
      BY TaskAssumption DEF RunQueueType
    <3> HIDE DEF s, s1, ne
    <3> QED BY <2>1, <3>1, <3>2, SetNeed
  <2> HIDE DEF s
  <2>3. ~InReady(r, t) /\ \A d \in Cpu : r.current[d] # t
    BY <1>2, TaskAssumption DEF Consistent
  <2>4. /\ \A u \in Task : InReady(s, u) <=> (InReady(r, u) \/ u = t)
        /\ \A i, j \in 1..Len(s.ready) : s.ready[i] = s.ready[j] => i = j
    <3>1. /\ r.ready \in Seq(Task) /\ \A i, j \in 1..Len(r.ready) : r.ready[i] = r.ready[j] => i = j
          /\ \A i \in 1..Len(r.ready) : r.ready[i] # t
      BY <2>3 DEF Consistent, RunQueueType, InReady
    <3> QED BY <2>2, <3>1, AppendDistinct DEF InReady
  <2>5. \A u \in Task : s.state[u] = IF u = t THEN "Ready" ELSE r.state[u]
    BY <2>2 DEF RunQueueType
  <2>6. \A u \in Task : /\ (s.state[u] = "Ready") <=> InReady(s, u)
                        /\ s.state[u] = "Running" => \E d \in Cpu : s.current[d] = u
    BY <2>2, <2>4, <2>5 DEF Consistent
  <2>7. \A d \in Cpu : s.current[d] # IDLE =>
            s.state[s.current[d]] = "Running" \/ (s.state[s.current[d]] = "Exited" /\ lock = d)
    <3>1. \A d \in Cpu : r.current[d] # IDLE =>
             /\ r.current[d] \in Task /\ r.current[d] # t
             /\ r.state[r.current[d]] = "Running" \/ (r.state[r.current[d]] = "Exited" /\ lock = d)
      <4>1. \A d \in Cpu : r.current[d] # IDLE => r.current[d] \in Task
        BY DEF RunQueueType
      <4>2. \A d \in Cpu : r.current[d] # IDLE =>
               r.state[r.current[d]] = "Running" \/ (r.state[r.current[d]] = "Exited" /\ lock = d)
        BY DEF Consistent
      <4> QED BY <2>3, <4>1, <4>2
    <3> QED BY <2>2, <2>5, <3>1
  <2>8. Consistent(s, lock)
    BY <2>2, <2>4, <2>6, <2>7 DEF Consistent
  <2> QED BY <1>2, <2>2, <2>5, <2>8 DEF s
<1> QED BY <1>1, <1>2

\* What resched() on CPU c finds: a consistent run queue, but the current task
\* of c may also be Blocked, or Exited whoever has the lock.
Switchable(r, c, lock) ==
    /\ \A t \in Task : /\ (r.state[t] = "Ready") <=> InReady(r, t)
                       /\ r.state[t] = "Running" => \E d \in Cpu : r.current[d] = t
    /\ r.current[c] # IDLE => r.state[r.current[c]] \in {"Running", "Blocked", "Exited"}
    /\ \A d \in Cpu \ {c} : r.current[d] # IDLE =>
           r.state[r.current[d]] = "Running" \/ (r.state[r.current[d]] = "Exited" /\ lock = d)
    /\ \A d, e \in Cpu : r.current[d] = r.current[e] => d = e \/ r.current[d] = IDLE
    /\ \A i, j \in 1..Len(r.ready) : r.ready[i] = r.ready[j] => i = j

\* What put_prev_task() makes of it: no Running task is left on CPU c.
Vacated(r, c, lock) ==
    /\ \A t \in Task : /\ (r.state[t] = "Ready") <=> InReady(r, t)
                       /\ r.state[t] = "Running" => \E d \in Cpu \ {c} : r.current[d] = t
    /\ \A d \in Cpu \ {c} : r.current[d] # IDLE =>
           r.state[r.current[d]] = "Running" \/ (r.state[r.current[d]] = "Exited" /\ lock = d)
    /\ \A d, e \in Cpu \ {c} : r.current[d] = r.current[e] => d = e \/ r.current[d] = IDLE
    /\ \A i, j \in 1..Len(r.ready) : r.ready[i] = r.ready[j] => i = j

\* What put_prev_task() and pick_next_task() do to the states and to other CPUs.
PutBack(r, s) ==
    \A t \in Task : s.state[t] = r.state[t] \/ (r.state[t] = "Running" /\ s.state[t] = "Ready")
Picked(r, n, c) ==
    /\ \A d \in Cpu \ {c} : n.current[d] = r.current[d]
    /\ \A t \in Task : n.state[t] = r.state[t] \/ (r.state[t] = "Ready" /\ n.state[t] = "Running")

\* put_prev_task() leaves on CPU c a task that is not Running.
LEMMA PutPrev ==
    ASSUME NEW r \in RunQueueType, NEW lock, NEW c \in Cpu, Switchable(r, c, lock)
    PROVE  LET s == put_prev_task(r, r.current[c]) IN
           /\ s \in RunQueueType /\ s.current = r.current /\ Vacated(s, c, lock)
           /\ PutBack(r, s)
<1> DEFINE p == r.current[c]
           s == put_prev_task(r, p)
<1>1. CASE p # IDLE /\ r.state[p] = "Running"
  <2>1. /\ s.state = [r.state EXCEPT ![p] = "Ready"] /\ s.ready = Append(r.ready, p)
        /\ s.current = r.current /\ s \in RunQueueType /\ p \in Task
    <3>1. p \in Task
      BY <1>1 DEF RunQueueType
    <3>2. s = AddReady(r, p)
      BY <1>1 DEF put_prev_task, AddReady
    <3> HIDE DEF s, p
    <3> QED BY <3>1, <3>2, ReadyRecord
  <2>3. ~InReady(r, p) /\ \A d \in Cpu \ {c} : r.current[d] # p
    BY <1>1, <2>1, TaskAssumption DEF Switchable
  <2>4. \A u \in Task : s.state[u] = IF u = p THEN "Ready" ELSE r.state[u]
    BY <2>1 DEF RunQueueType
  <2> HIDE DEF s
  <2>5. /\ \A u \in Task : InReady(s, u) <=> (InReady(r, u) \/ u = p)
        /\ \A i, j \in 1..Len(s.ready) : s.ready[i] = s.ready[j] => i = j
    <3>1. /\ r.ready \in Seq(Task) /\ \A i, j \in 1..Len(r.ready) : r.ready[i] = r.ready[j] => i = j
          /\ \A i \in 1..Len(r.ready) : r.ready[i] # p
      BY <2>3 DEF Switchable, RunQueueType, InReady
    <3> QED BY <2>1, <3>1, AppendDistinct DEF InReady
  <2>6. \A u \in Task : /\ (s.state[u] = "Ready") <=> InReady(s, u)
                        /\ s.state[u] = "Running" => \E d \in Cpu \ {c} : s.current[d] = u
    BY <2>1, <2>4, <2>5 DEF Switchable
  <2>7. \A d \in Cpu \ {c} : s.current[d] # IDLE =>
            s.state[s.current[d]] = "Running" \/ (s.state[s.current[d]] = "Exited" /\ lock = d)
    BY <2>1, <2>3, <2>4 DEF Switchable, RunQueueType
  <2>8. \A d, e \in Cpu \ {c} : s.current[d] = s.current[e] => d = e \/ s.current[d] = IDLE
    BY <2>1 DEF Switchable
  <2>9. Vacated(s, c, lock)
    BY <2>5, <2>6, <2>7, <2>8 DEF Vacated
  <2>10. PutBack(r, s)
    BY <1>1, <2>4 DEF PutBack
  <2> QED BY <2>1, <2>9, <2>10 DEF s
<1>2. CASE ~(p # IDLE /\ r.state[p] = "Running")
  <2>1. s = r
    BY <1>2 DEF put_prev_task
  <2>2. \A t \in Task : r.state[t] = "Running" => \E d \in Cpu \ {c} : r.current[d] = t
    BY <1>2, TaskAssumption DEF Switchable
  <2>3. Vacated(r, c, lock)
    BY <2>2 DEF Switchable, Vacated
  <2>4. PutBack(r, r)
    BY DEF PutBack
  <2> QED BY <2>1, <2>3, <2>4
<1> QED BY <1>1, <1>2

\* Then pick_next_task() puts the head of the ready queue, or the idle task, on
\* CPU c and the run queue is consistent again.
LEMMA PickNext ==
    ASSUME NEW r \in RunQueueType, NEW lock, NEW c \in Cpu, Vacated(r, c, lock)
    PROVE  LET n == pick_next_task(r, c) IN
           /\ n \in RunQueueType /\ Consistent(n, lock)
           /\ n.current[c] # IDLE => n.state[n.current[c]] = "Running"
           /\ Picked(r, n, c)
<1> DEFINE n == pick_next_task(r, c)
<1>1. CASE r.ready = << >>
  <2>1. /\ n.state = r.state /\ n.ready = r.ready /\ n.current = [r.current EXCEPT ![c] = IDLE]
        /\ n \in RunQueueType
    <3>1. n = switch_to(r, c, IDLE) /\ IDLE \in Task \union {IDLE}
      BY <1>1 DEF pick_next_task
    <3> HIDE DEF n
    <3>2. /\ switch_to(r, c, IDLE).state = IF IDLE = IDLE THEN r.state ELSE [r.state EXCEPT ![IDLE] = "Running"]
          /\ switch_to(r, c, IDLE).ready = r.ready
          /\ switch_to(r, c, IDLE).current = [r.current EXCEPT ![c] = IDLE]
          /\ switch_to(r, c, IDLE) \in RunQueueType
      BY <3>1, SwitchRecord, Zenon
    <3> QED BY <3>1, <3>2
  <2> HIDE DEF n
  <2>2. n.current[c] = IDLE /\ \A d \in Cpu \ {c} : n.current[d] = r.current[d]
    BY <2>1 DEF RunQueueType
  <2>4. \A t \in Task : InReady(n, t) <=> InReady(r, t)
    BY <2>1 DEF InReady
  <2>5. Consistent(n, lock)
    BY <2>1, <2>2, <2>4 DEF Vacated, Consistent
  <2>6. Picked(r, n, c)
    BY <2>1, <2>2 DEF Picked
  <2> QED BY <2>1, <2>2, <2>5, <2>6 DEF n
<1>2. CASE r.ready # << >>
  <2> DEFINE h == Head(r.ready)
  <2>1. /\ r.ready \in Seq(Task) /\ \A i, j \in 1..Len(r.ready) : r.ready[i] = r.ready[j] => i = j
    BY DEF Vacated, RunQueueType
  <2>2. /\ h \in Task /\ Tail(r.ready) \in Seq(Task) /\ InReady(r, h)
        /\ \A i, j \in 1..Len(Tail(r.ready)) : Tail(r.ready)[i] = Tail(r.ready)[j] => i = j
        /\ \A u \in Task : (\E i \in 1..Len(Tail(r.ready)) : Tail(r.ready)[i] = u)
                               <=> InReady(r, u) /\ u # h
    BY <1>2, <2>1, TailDistinct DEF InReady
  <2> HIDE DEF h
  <2>3. /\ n.state = [r.state EXCEPT ![h] = "Running"] /\ n.ready = Tail(r.ready)
        /\ n.current = [r.current EXCEPT ![c] = h] /\ n \in RunQueueType
    <3> DEFINE q == Tail(r.ready)
               r1 == WithReady(r, q)
    <3>1. n = switch_to(r1, c, h) /\ h # IDLE /\ q \in Seq(Task)
      BY <1>2, <2>2, TaskAssumption DEF pick_next_task, WithReady, h
    <3> HIDE DEF q, n
    <3>2. /\ r1 \in RunQueueType /\ r1.ready = q /\ r1.state = r.state
          /\ r1.current = r.current
      BY <3>1, SetReady
    <3> HIDE DEF r1
    <3>3. /\ n.state = [r.state EXCEPT ![h] = "Running"] /\ n.ready = q
          /\ n.current = [r.current EXCEPT ![c] = h] /\ n \in RunQueueType
      <4>1. h \in Task \union {IDLE}
        BY <2>2
      <4>2. /\ switch_to(r1, c, h).state = IF h = IDLE THEN r1.state ELSE [r1.state EXCEPT ![h] = "Running"]
            /\ switch_to(r1, c, h).ready = r1.ready
            /\ switch_to(r1, c, h).current = [r1.current EXCEPT ![c] = h]
            /\ switch_to(r1, c, h) \in RunQueueType
        BY <3>2, <4>1, SwitchRecord, ZenonT(60)
      <4> QED BY <3>1, <3>2, <4>2
    <3> QED BY <3>3 DEF q
  <2> HIDE DEF n
  <2>4. /\ n.current[c] = h /\ \A d \in Cpu \ {c} : n.current[d] = r.current[d]
        /\ \A t \in Task : n.state[t] = IF t = h THEN "Running" ELSE r.state[t]
    BY <2>2, <2>3 DEF RunQueueType
  <2>6. r.state[h] = "Ready"
    BY <2>2 DEF Vacated
  <2>7. \A t \in Task : InReady(n, t) <=> InReady(r, t) /\ t # h
    BY <2>2, <2>3 DEF InReady
  <2>8. \A t \in Task : /\ (n.state[t] = "Ready") <=> InReady(n, t)
                        /\ n.state[t] = "Running" => \E d \in Cpu : n.current[d] = t
    BY <2>4, <2>7 DEF Vacated
  <2>9. \A d \in Cpu \ {c} : r.current[d] # IDLE =>
           /\ r.current[d] \in Task /\ r.current[d] # h
           /\ r.state[r.current[d]] = "Running" \/ (r.state[r.current[d]] = "Exited" /\ lock = d)
    <3>1. \A d \in Cpu : r.current[d] # IDLE => r.current[d] \in Task
      BY DEF RunQueueType
    <3> QED BY <2>6, <3>1 DEF Vacated
  <2>10. \A d \in Cpu : n.current[d] # IDLE =>
            n.state[n.current[d]] = "Running" \/ (n.state[n.current[d]] = "Exited" /\ lock = d)
    <3>1. \A d \in Cpu : d = c \/ d \in Cpu \ {c}
      OBVIOUS
    <3>2. n.state[n.current[c]] = "Running"
      BY <2>2, <2>4
    <3>3. \A d \in Cpu \ {c} : n.current[d] # IDLE => n.state[n.current[d]] = r.state[r.current[d]]
      BY <2>4, <2>9
    <3>4. \A d \in Cpu \ {c} : n.current[d] # IDLE =>
             n.state[n.current[d]] = "Running" \/ (n.state[n.current[d]] = "Exited" /\ lock = d)
      BY <2>4, <2>9, <3>3
    <3> QED BY <3>1, <3>2, <3>4
  <2>11. \A d, e \in Cpu : n.current[d] = n.current[e] => d = e \/ n.current[d] = IDLE
    <3>1. \A d, e \in Cpu \ {c} : r.current[d] = r.current[e] => d = e \/ r.current[d] = IDLE
      BY DEF Vacated
    <3>2. h # IDLE
      BY <2>2, TaskAssumption
    <3> QED BY <2>4, <2>9, <3>1, <3>2
  <2>12. Consistent(n, lock)
    BY <2>2, <2>3, <2>8, <2>10, <2>11 DEF Consistent
  <2>13. /\ n.current[c] # IDLE => n.state[n.current[c]] = "Running"
         /\ Picked(r, n, c)
    BY <2>2, <2>4, <2>6 DEF Picked
  <2> QED BY <2>3, <2>12, <2>13 DEF n
<1> QED BY <1>1, <1>2

\* What resched() on CPU c leaves alone: other CPUs, and every task that is
\* neither Running nor Ready.
Rescheduled(r, n, c) ==
    /\ \A d \in Cpu \ {c} : n.current[d] = r.current[d]
    /\ \A t \in Task : n.state[t] = r.state[t] \/ {n.state[t], r.state[t]} \subseteq {"Running", "Ready"}

\* resched() makes a switchable run queue consistent, with a Running task or the
\* idle task on CPU c, and touches neither blocked nor exited tasks.
LEMMA ReschedConsistent ==
    ASSUME NEW r \in RunQueueType, NEW lock, NEW c \in Cpu, Switchable(r, c, lock)
    PROVE  /\ resched(r, c) \in RunQueueType /\ Consistent(resched(r, c), lock)
           /\ resched(r, c).current[c] # IDLE =>
                  resched(r, c).state[resched(r, c).current[c]] = "Running"
           /\ \A t \in Task : r.state[t] \in {"Blocked", "Exited"}
                                => resched(r, c).state[t] = r.state[t]
           /\ Rescheduled(r, resched(r, c), c)
<1> DEFINE s == put_prev_task(r, r.current[c])
<1>1. /\ s \in RunQueueType /\ s.current = r.current /\ Vacated(s, c, lock)
      /\ PutBack(r, s)
  BY PutPrev
<1>2. resched(r, c) = pick_next_task(s, c)
  BY DEF resched
<1> HIDE DEF s
<1> DEFINE n == pick_next_task(s, c)
<1>3. /\ n \in RunQueueType /\ Consistent(n, lock)
      /\ n.current[c] # IDLE => n.state[n.current[c]] = "Running"
      /\ Picked(s, n, c)
  BY <1>1, PickNext
<1> HIDE DEF n
<1>4. Rescheduled(r, n, c)
  <2>1. \A d \in Cpu \ {c} : n.current[d] = r.current[d]
    BY <1>1, <1>3 DEF Picked
  <2>2. \A t \in Task : n.state[t] = r.state[t] \/ {n.state[t], r.state[t]} \subseteq {"Running", "Ready"}
    <3> TAKE t \in Task
    <3>1. s.state[t] = r.state[t] \/ (r.state[t] = "Running" /\ s.state[t] = "Ready")
      BY <1>1 DEF PutBack
    <3>2. n.state[t] = s.state[t] \/ (s.state[t] = "Ready" /\ n.state[t] = "Running")
      BY <1>3 DEF Picked
    <3> QED BY <3>1, <3>2
  <2> QED BY <2>1, <2>2 DEF Rescheduled
<1>5. \A t \in Task : r.state[t] \in {"Blocked", "Exited"} => n.state[t] = r.state[t]
  BY <1>4 DEF Rescheduled
<1>6. resched(r, c) = n
  BY <1>2 DEF n
<1> QED BY <1>3, <1>4, <1>5, <1>6

\* A consistent run queue is switchable.
LEMMA ConsistentSwitchable ==
    ASSUME NEW r \in RunQueueType, NEW lock, NEW c \in Cpu, Consistent(r, lock)
    PROVE  Switchable(r, c, lock)
<1>1. \A d \in Cpu : r.current[d] # IDLE =>
         r.state[r.current[d]] = "Running" \/ (r.state[r.current[d]] = "Exited" /\ lock = d)
  BY DEF Consistent
<1>2. /\ \A t \in Task : /\ (r.state[t] = "Ready") <=> InReady(r, t)
                         /\ r.state[t] = "Running" => \E d \in Cpu : r.current[d] = t
      /\ \A d, e \in Cpu : r.current[d] = r.current[e] => d = e \/ r.current[d] = IDLE
      /\ \A i, j \in 1..Len(r.ready) : r.ready[i] = r.ready[j] => i = j
  BY DEF Consistent
<1> QED BY <1>1, <1>2 DEF Switchable

\* block_current() blocks the current task of CPU c, which must be Running.
LEMMA BlockConsistent ==
    ASSUME NEW r \in RunQueueType, NEW lock, Consistent(r, lock), NEW c \in Cpu,
           r.current[c] \in Task, r.state[r.current[c]] = "Running"
    PROVE  LET n == block_current(r, c) IN
           /\ n \in RunQueueType /\ Consistent(n, lock)
           /\ n.state[r.current[c]] = "Blocked"
           /\ \A t \in Task : r.state[t] = "Exited" => n.state[t] = "Exited"
           /\ Rescheduled([r EXCEPT !.state[r.current[c]] = "Blocked"], n, c)
<1> DEFINE p == r.current[c]
           s == [r EXCEPT !.state[p] = "Blocked"]
<1>1. /\ s.state = [r.state EXCEPT ![p] = "Blocked"] /\ s.ready = r.ready
      /\ s.current = r.current /\ s \in RunQueueType
  <2>1. s = WithState(r, [r.state EXCEPT ![p] = "Blocked"])
    BY DEF WithState
  <2>2. [r.state EXCEPT ![p] = "Blocked"] \in [Task -> States]
    BY DEF RunQueueType, States
  <2> HIDE DEF s, p
  <2> QED BY <2>1, <2>2, SetState
<1> HIDE DEF s
<1>2. \A t \in Task : s.state[t] = IF t = p THEN "Blocked" ELSE r.state[t]
  BY <1>1 DEF RunQueueType
<1>4. \A t \in Task : InReady(s, t) <=> InReady(r, t)
  BY <1>1 DEF InReady
<1>5. \A d \in Cpu \ {c} : r.current[d] # IDLE => r.current[d] \in Task /\ r.current[d] # p
  BY TaskAssumption DEF Consistent, RunQueueType
<1>6. Switchable(s, c, lock)
  <2>1. \A t \in Task : /\ (s.state[t] = "Ready") <=> InReady(s, t)
                        /\ s.state[t] = "Running" => \E d \in Cpu : s.current[d] = t
    BY <1>1, <1>2, <1>4 DEF Consistent
  <2>2. s.state[s.current[c]] = "Blocked"
    BY <1>1, <1>2
  <2>3. \A d \in Cpu \ {c} : r.current[d] # IDLE =>
           r.state[r.current[d]] = "Running" \/ (r.state[r.current[d]] = "Exited" /\ lock = d)
    BY DEF Consistent
  <2>4. \A d \in Cpu \ {c} : s.current[d] # IDLE =>
           s.state[s.current[d]] = "Running" \/ (s.state[s.current[d]] = "Exited" /\ lock = d)
    BY <1>1, <1>2, <1>5, <2>3
  <2>5. /\ \A d, e \in Cpu : s.current[d] = s.current[e] => d = e \/ s.current[d] = IDLE
        /\ \A i, j \in 1..Len(s.ready) : s.ready[i] = s.ready[j] => i = j
    BY <1>1 DEF Consistent
  <2> QED BY <2>1, <2>2, <2>4, <2>5, SMTT(30) DEF Switchable
<1>7. block_current(r, c) = resched(s, c)
  BY DEF block_current, s
<1>8. /\ resched(s, c) \in RunQueueType /\ Consistent(resched(s, c), lock)
      /\ \A t \in Task : s.state[t] \in {"Blocked", "Exited"} => resched(s, c).state[t] = s.state[t]
      /\ Rescheduled(s, resched(s, c), c)
  <2>1. s \in RunQueueType
    BY <1>1
  <2> QED BY <1>6, <2>1, ReschedConsistent
<1>9. Rescheduled([r EXCEPT !.state[r.current[c]] = "Blocked"], block_current(r, c), c)
  BY <1>7, <1>8 DEF s
<1> QED BY <1>2, <1>7, <1>8, <1>9

-----------------------------------------------------------------------------
(* The inductive invariant. TypeOK is taken apart by the variables that its  *)
(* conjuncts are about. RunQueueConsistent needs to know that a task inside  *)
(* exit_current() is Exited, so that no CPU picks it up again, and that a    *)
(* CPU on its way off an exited task has the lock and a proper current task, *)
(* so that the lock can be released.                                         *)

SchedType ==
    /\ rq \in RunQueueType
    /\ rqlock \in Cpu \union {NONE} /\ leaving \in [Cpu -> Task \union {NONE}]

WaitType ==
    wq \in [Queue -> Seq(Task)] /\ inwq \in [Task -> BOOLEAN] /\ cond \in [WaitQueue -> BOOLEAN]

ClockType ==
    /\ timers \in Seq((0..MaxTime) \X Task) /\ intl \in [Task -> BOOLEAN] /\ now \in 0..MaxTime
    /\ irq \in [Cpu -> {"off", "check", "fire"}] /\ firing \in [Cpu -> Task \union {NONE}]
    /\ \A c \in Cpu : (irq[c] = "fire") <=> (firing[c] # NONE)

LocalsType == [op : Ops \union {"none", "wait"}, q : Queue \union {NONE},
               deadline : 0..MaxTime, timeout : BOOLEAN]

CallType ==
    /\ pc \in [Task -> Locations] /\ calls \in [Task -> Nat]
    /\ loc \in [Task -> LocalsType]
    /\ \A t \in Task : pc[t] \in OnQueue => loc[t].q \in Queue
    /\ events \in [Task -> SUBSET {"notify", "timer"}]

GcType ==
    /\ exited \in Seq(Task) /\ handle \subseteq Task /\ freed \subseteq Task
    /\ gc \in [n : Nat, task : Task \union {NONE}]

GcHasTask == pc[GcTask] = "gc_check" => gc.task # NONE

Exiting == {"exit_notify", "exit_resched"}
ExitingIsExited == \A t \in Task : pc[t] \in Exiting => rq.state[t] = "Exited"

LeavingLocked ==
    \A c \in Cpu : leaving[c] # NONE =>
        /\ rqlock = c
        /\ rq.current[c] # IDLE => rq.state[rq.current[c]] = "Running"

SchedInv == SchedType /\ RunQueueConsistent /\ LeavingLocked

IInv ==
    /\ SchedInv /\ WaitType /\ ClockType /\ CallType /\ GcType
    /\ GcHasTask /\ ExitingIsExited

\* The parts of the invariant give the invariants that the runs check.
LEMMA IInvImplies ==
    IInv => TypeOK /\ RunQueueConsistent
BY SMTT(30) DEF IInv, TypeOK, SchedInv, SchedType, WaitType, ClockType, CallType, LocalsType, GcType,
       GcHasTask

\* Of a step: exited tasks stay so ...
ExitedStays == \A t \in Task : rq.state[t] = "Exited" => rq'.state[t] = "Exited"
\* ... and no task gets to a place that the invariant is about.
NoneArrives ==
    \A t \in Task : pc'[t] \in Exiting \union {"gc_check"} => pc'[t] = pc[t]

\* A step keeps the invariant when it keeps its parts.
LEMMA Together ==
    ASSUME IInv, SchedInv', WaitType', ClockType', CallType', GcType',
           ExitedStays, NoneArrives, gc'.task = gc.task
    PROVE  IInv'
<1>1. GcHasTask'
  BY TaskAssumption DEF IInv, GcHasTask, NoneArrives
<1>2. ExitingIsExited'
  BY DEF IInv, ExitingIsExited, ExitedStays, NoneArrives
<1> QED BY <1>1, <1>2 DEF IInv

\* The initial state satisfies the invariant.
LEMMA InitIInv == Init => IInv
<1> SUFFICES ASSUME Init PROVE IInv
  OBVIOUS
<1>1. rq \in RunQueueType
  BY TaskAssumption DEF Init, States, RunQueueType
<1>2. SchedType
  BY <1>1, SMTT(30) DEF Init, SchedType
<1>3. RunQueueConsistent
  <2>1. Len(rq.ready) = 1 /\ rq.ready[1] = GcTask
    BY DEF Init
  <2>2. \A t \in Task : InReady(rq, t) <=> t = GcTask
    BY <2>1 DEF InReady
  <2>3. \A t \in Task : rq.state[t] = IF t = MainTask THEN "Running"
                                      ELSE IF t = GcTask THEN "Ready" ELSE "New"
    BY DEF Init
  <2>4. \A c \in Cpu : rq.current[c] = IF c = BootCpu THEN MainTask ELSE IDLE
    BY DEF Init
  <2>5. \A t \in Task : /\ (rq.state[t] = "Ready") <=> InReady(rq, t)
                        /\ rq.state[t] = "Running" => \E c \in Cpu : rq.current[c] = t
    BY <2>2, <2>3, <2>4, TaskAssumption
  <2>6. \A c \in Cpu : rq.current[c] # IDLE => rq.state[rq.current[c]] = "Running" /\ c = BootCpu
    BY <2>3, <2>4, TaskAssumption
  <2> QED BY <2>1, <2>5, <2>6 DEF RunQueueConsistent, Consistent
<1>4. LeavingLocked
  BY DEF Init, LeavingLocked
<1>5. WaitType
  BY DEF Init, WaitType
<1>6. ClockType
  BY TaskAssumption DEF Init, ClockType
<1>7. CallType
  BY TaskAssumption DEF Init, CallType, LocalsType, NoLocals, Locations, OnQueue
<1>8. GcType
  BY DEF Init, GcType
<1>9. GcHasTask /\ ExitingIsExited
  BY TaskAssumption DEF Init, GcHasTask, ExitingIsExited, Exiting
<1> QED BY <1>2, <1>3, <1>4, <1>5, <1>6, <1>7, <1>8, <1>9 DEF IInv, SchedInv

-----------------------------------------------------------------------------
(* The three ways in which a step changes the run queue.                     *)

\* yield, preemption: resched() with the lock free.
LEMMA ReschedStep ==
    ASSUME IInv, NEW c \in Cpu, RunQueueFree, rq' = resched(rq, c), UNCHANGED <<rqlock, leaving>>
    PROVE  SchedInv' /\ ExitedStays
<1>1. rq \in RunQueueType /\ Consistent(rq, rqlock)
  BY DEF IInv, SchedInv, SchedType, RunQueueConsistent
<1>2. Switchable(rq, c, rqlock)
  BY <1>1, ConsistentSwitchable
<1>3. /\ rq' \in RunQueueType /\ Consistent(rq', rqlock)
      /\ \A t \in Task : rq.state[t] \in {"Blocked", "Exited"} => rq'.state[t] = rq.state[t]
  BY <1>1, <1>2, ReschedConsistent
<1>4. \A d \in Cpu : leaving[d] = NONE
  BY TaskAssumption DEF IInv, SchedInv, LeavingLocked, RunQueueFree
<1>5. SchedType' /\ RunQueueConsistent'
  BY <1>3 DEF IInv, SchedInv, SchedType, RunQueueConsistent
<1>6. LeavingLocked'
  BY <1>4 DEF LeavingLocked
<1>7. ExitedStays
  BY <1>3 DEF ExitedStays
<1> QED BY <1>5, <1>6, <1>7 DEF SchedInv

\* wait, sleep: the current task of c blocks.
LEMMA BlockStep ==
    ASSUME IInv, NEW c \in Cpu, rq.current[c] \in Task, RunQueueFree,
           rq' = block_current(rq, c), UNCHANGED <<rqlock, leaving>>
    PROVE  SchedInv' /\ ExitedStays
<1>1. rq \in RunQueueType /\ Consistent(rq, rqlock)
  BY DEF IInv, SchedInv, SchedType, RunQueueConsistent
<1>2. rq.state[rq.current[c]] = "Running"
  <2>1. rq.current[c] # IDLE /\ rqlock # c
    BY TaskAssumption DEF RunQueueFree
  <2> QED BY <1>1, <2>1 DEF Consistent
<1>3. /\ rq' \in RunQueueType /\ Consistent(rq', rqlock)
      /\ \A t \in Task : rq.state[t] = "Exited" => rq'.state[t] = "Exited"
  BY <1>1, <1>2, BlockConsistent
<1>4. \A d \in Cpu : leaving[d] = NONE
  BY TaskAssumption DEF IInv, SchedInv, LeavingLocked, RunQueueFree
<1>5. SchedType' /\ RunQueueConsistent'
  BY <1>3 DEF IInv, SchedInv, SchedType, RunQueueConsistent
<1>6. LeavingLocked'
  BY <1>4 DEF LeavingLocked
<1>7. ExitedStays
  BY <1>3 DEF ExitedStays
<1> QED BY <1>5, <1>6, <1>7 DEF SchedInv

\* notify, timer: unblock_task() of u, whoever has the lock.
LEMMA UnblockStep ==
    ASSUME IInv, NEW c \in Cpu, NEW u \in Task, NEW b \in BOOLEAN,
           rq' = unblock_task(rq, c, u, b), UNCHANGED <<rqlock, leaving>>
    PROVE  SchedInv' /\ ExitedStays
<1>1. rq \in RunQueueType /\ Consistent(rq, rqlock)
  BY DEF IInv, SchedInv, SchedType, RunQueueConsistent
<1>2. /\ rq' \in RunQueueType /\ Consistent(rq', rqlock) /\ rq'.current = rq.current
      /\ \A t \in Task : rq.state[t] # "Blocked" => rq'.state[t] = rq.state[t]
  BY <1>1, UnblockConsistent
<1>3. SchedType' /\ RunQueueConsistent'
  BY <1>2 DEF IInv, SchedInv, SchedType, RunQueueConsistent
<1>4. LeavingLocked'
  <2>1. \A d \in Cpu : rq.current[d] # IDLE => rq.current[d] \in Task
    BY <1>1 DEF RunQueueType
  <2> QED BY <1>2, <2>1 DEF IInv, SchedInv, LeavingLocked
<1>5. ExitedStays
  BY <1>2, SMTT(30) DEF ExitedStays
<1> QED BY <1>3, <1>4, <1>5 DEF SchedInv

\* Steps that leave the run queue alone.
LEMMA SameStep ==
    ASSUME IInv, UNCHANGED <<rq, rqlock, leaving>>
    PROVE  SchedInv' /\ ExitedStays
BY DEF IInv, SchedInv, SchedType, RunQueueConsistent, Consistent, InReady, LeavingLocked, ExitedStays

(* What steps do to queues and locals. *)

\* Going to a place that needs nothing.
LEMMA GotoStep ==
    ASSUME IInv, NEW t \in Task, NEW to \in Locations \ (Exiting \union {"gc_check"}),
           Goto(t, to), to \in OnQueue => loc[t].q \in Queue, UNCHANGED <<loc, calls, events>>
    PROVE  CallType' /\ NoneArrives
BY DEF IInv, CallType, NoneArrives, Goto

\* A call that may block begins.
LEMMA BeginStep ==
    ASSUME IInv, NEW t \in Task, NEW to \in Locations \ (Exiting \union {"gc_check"}),
           NEW op \in Ops \union {"wait"}, NEW q \in Queue \union {NONE}, NEW d \in 0..MaxTime,
           Goto(t, to), to \in OnQueue => q \in Queue, Locals(t, op, q, d),
           calls' \in [Task -> Nat]
    PROVE  CallType' /\ NoneArrives
<1> DEFINE l == [op |-> op, q |-> q, deadline |-> d, timeout |-> FALSE]
<1>1. l \in LocalsType /\ l.q = q
  BY DEF LocalsType
<1>2. loc' = [loc EXCEPT ![t] = l] /\ events' = [events EXCEPT ![t] = {}]
  BY DEF Locals
<1> HIDE DEF l
<1>3. loc' \in [Task -> LocalsType] /\ events' \in [Task -> SUBSET {"notify", "timer"}]
  BY <1>1, <1>2 DEF IInv, CallType
<1>4. pc' \in [Task -> Locations] /\ NoneArrives
  BY DEF IInv, CallType, NoneArrives, Goto
<1>5. \A u \in Task : pc'[u] \in OnQueue => loc'[u].q \in Queue
  BY <1>1, <1>2 DEF IInv, CallType, Goto
<1> QED BY <1>3, <1>4, <1>5 DEF CallType

\* A call returns.
LEMMA ReturnStep ==
    ASSUME IInv, NEW t \in Task, NEW to \in {"run", "gc_len"},
           Goto(t, to), loc' = [loc EXCEPT ![t] = NoLocals], UNCHANGED <<calls, events>>
    PROVE  CallType' /\ NoneArrives
<1>1. NoLocals \in LocalsType
  BY TaskAssumption DEF NoLocals, LocalsType
<1>2. loc' \in [Task -> LocalsType]
  BY <1>1 DEF IInv, CallType
<1>3. pc' \in [Task -> Locations] /\ NoneArrives
  BY DEF IInv, CallType, NoneArrives, Goto, Locations, Exiting
<1>4. \A u \in Task : pc'[u] \in OnQueue => loc'[u].q \in Queue
  BY DEF IInv, CallType, Goto, OnQueue
<1> QED BY <1>2, <1>3, <1>4 DEF IInv, CallType

\* A call notes whether it has timed out.
LEMMA LocalsStep ==
    ASSUME IInv, NEW t \in Task, NEW to \in Locations \ (Exiting \union {"gc_check"}),
           NEW b \in BOOLEAN, loc[t].q \in Queue,
           Goto(t, to), loc' = [loc EXCEPT ![t].timeout = b], UNCHANGED <<calls, events>>
    PROVE  CallType' /\ NoneArrives
<1> DEFINE l == [loc[t] EXCEPT !.timeout = b]
<1>1. loc[t] \in LocalsType
  BY DEF IInv, CallType
<1>2. l \in LocalsType /\ l.q = loc[t].q
  BY <1>1 DEF LocalsType
<1>3. loc' = [loc EXCEPT ![t] = l]
  OBVIOUS
<1> HIDE DEF l
<1>4. loc' \in [Task -> LocalsType]
  BY <1>2, <1>3 DEF IInv, CallType
<1>5. pc' \in [Task -> Locations] /\ NoneArrives
  BY DEF IInv, CallType, NoneArrives, Goto
<1>6. \A u \in Task : pc'[u] \in OnQueue => loc'[u].q \in Queue
  BY <1>2, <1>3 DEF IInv, CallType, Goto
<1> QED BY <1>4, <1>5, <1>6 DEF IInv, CallType

\* The closure of block_current() pushes t on queue q.
LEMMA PushStep ==
    ASSUME IInv, NEW c \in Cpu, NEW t \in Task, NEW q \in Queue, BlockOn(c, t, q), UNCHANGED cond
    PROVE  WaitType'
BY DEF IInv, WaitType, BlockOn

\* notify_one_locked() pops the head of queue q.
LEMMA PopStep ==
    ASSUME IInv, NEW q \in Queue, wq[q] # << >>, Pop(q), UNCHANGED <<cond, pc, loc>>,
           calls' \in [Task -> Nat]
    PROVE  WaitType' /\ CallType' /\ NoneArrives /\ Head(wq[q]) \in Task
<1>1. wq[q] \in Seq(Task)
  BY DEF IInv, WaitType
<1>2. Head(wq[q]) \in Task /\ Tail(wq[q]) \in Seq(Task)
  BY <1>1
<1>3. WaitType'
  BY <1>2 DEF IInv, WaitType, Pop
<1>4. events' \in [Task -> SUBSET {"notify", "timer"}]
  BY <1>2 DEF IInv, CallType, Pop
<1>5. CallType' /\ NoneArrives
  BY <1>4 DEF IInv, CallType, NoneArrives
<1> QED BY <1>2, <1>3, <1>5

\* Variables that a step leaves alone keep their types.
LEMMA SameTypes ==
    ASSUME IInv
    PROVE  /\ UNCHANGED wvars => WaitType'
           /\ UNCHANGED cvars => ClockType'
           /\ UNCHANGED gvars => GcType' /\ gc'.task = gc.task
           /\ UNCHANGED tvars => CallType' /\ NoneArrives
<1>1. UNCHANGED wvars => WaitType'
  BY DEF IInv, wvars, WaitType
<1>2. UNCHANGED cvars => ClockType'
  BY DEF IInv, cvars, ClockType
<1>3. UNCHANGED gvars => GcType' /\ gc'.task = gc.task
  BY DEF IInv, gvars, GcType
<1>4. UNCHANGED tvars => CallType' /\ NoneArrives
  BY DEF IInv, tvars, CallType, NoneArrives
<1> QED BY <1>1, <1>2, <1>3, <1>4

-----------------------------------------------------------------------------
(* Every step keeps the invariant, one lemma per group of operations *)

\* The calls that do not block: yield, spawn, the drop of a handle, set, notify.
LEMMA ClientSteps ==
    ASSUME IInv, NEW c \in Cpu, NEW t \in Task
    PROVE  /\ yield_now(c, t) => IInv'
           /\ \A u \in Task : spawn(c, t, u) => IInv'
           /\ \A u \in Task : drop_handle(c, t, u) => IInv'
           /\ \A q \in WaitQueue : SetCondition(c, t, q) => IInv'
           /\ \A q \in WaitQueue, b \in BOOLEAN : notify_one(c, t, q, b) => IInv'
           /\ \A q \in WaitQueue, u \in Task, b \in BOOLEAN : notify_task(c, t, q, u, b) => IInv'
<1>1. ASSUME NEW op, Call(c, t, op), UNCHANGED <<pc, loc, events>>
      PROVE  CallType' /\ NoneArrives
  BY <1>1 DEF IInv, CallType, NoneArrives, Call
<1>2. ASSUME yield_now(c, t) PROVE IInv'
  <2>1. SchedInv' /\ ExitedStays
    BY <1>2, ReschedStep DEF yield_now
  <2> QED BY <1>1, <1>2, <2>1, SameTypes, Together DEF yield_now
<1>3. ASSUME NEW u \in Task, spawn(c, t, u) PROVE IInv'
  <2>1. SchedInv' /\ ExitedStays
    <3>1. rq \in RunQueueType /\ Consistent(rq, rqlock) /\ rq.state[u] = "New"
      BY <1>3 DEF IInv, SchedInv, SchedType, RunQueueConsistent, spawn
    <3>2. /\ rq'.state = [rq.state EXCEPT ![u] = "Ready"] /\ rq'.ready = Append(rq.ready, u)
          /\ rq'.current = rq.current /\ rq' \in RunQueueType
      <4>1. rq' = AddReady(rq, u)
        BY <1>3 DEF spawn, AddReady
      <4> QED BY <3>1, <4>1, ReadyRecord
    <3>4. \A v \in Task : rq'.state[v] = IF v = u THEN "Ready" ELSE rq.state[v]
      BY <3>1, <3>2 DEF RunQueueType
    <3>6. /\ rq.ready \in Seq(Task) /\ ~InReady(rq, u)
          /\ \A i, j \in 1..Len(rq.ready) : rq.ready[i] = rq.ready[j] => i = j
      BY <3>1 DEF Consistent, RunQueueType
    <3>7. /\ \A v \in Task : InReady(rq', v) <=> (InReady(rq, v) \/ v = u)
          /\ \A i, j \in 1..Len(rq'.ready) : rq'.ready[i] = rq'.ready[j] => i = j
      <4>1. \A i \in 1..Len(rq.ready) : rq.ready[i] # u
        BY <3>6 DEF InReady
      <4>2. /\ \A v \in Task : (\E i \in 1..Len(Append(rq.ready, u)) : Append(rq.ready, u)[i] = v)
                                  <=> (\E i \in 1..Len(rq.ready) : rq.ready[i] = v) \/ v = u
            /\ \A i, j \in 1..Len(Append(rq.ready, u)) :
                  Append(rq.ready, u)[i] = Append(rq.ready, u)[j] => i = j
        BY <3>6, <4>1, AppendDistinct, Zenon
      <4> QED BY <3>2, <4>2, Zenon DEF InReady
    <3>8. \A d \in Cpu : rq.current[d] # IDLE => rq.current[d] \in Task /\ rq.current[d] # u
      BY <3>1, TaskAssumption DEF Consistent, RunQueueType
    <3>9. \A v \in Task : /\ (rq'.state[v] = "Ready") <=> InReady(rq', v)
                          /\ rq'.state[v] = "Running" => \E d \in Cpu : rq'.current[d] = v
      BY <3>1, <3>2, <3>4, <3>7 DEF Consistent
    <3>10. \A d \in Cpu : rq'.current[d] # IDLE =>
              rq'.state[rq'.current[d]] = rq.state[rq.current[d]]
      BY <3>2, <3>4, <3>8
    <3>11. Consistent(rq', rqlock)
      <4>1. /\ \A d \in Cpu : rq'.current[d] # IDLE =>
                  rq'.state[rq'.current[d]] = "Running"
                  \/ (rq'.state[rq'.current[d]] = "Exited" /\ rqlock = d)
            /\ \A d, e \in Cpu : rq'.current[d] = rq'.current[e] => d = e \/ rq'.current[d] = IDLE
        BY <3>1, <3>2, <3>10 DEF Consistent
      <4> QED BY <3>7, <3>9, <4>1 DEF Consistent
    <3>12. SchedType' /\ RunQueueConsistent'
      BY <1>3, <3>2, <3>11 DEF IInv, SchedInv, SchedType, RunQueueConsistent, spawn
    <3>13. LeavingLocked' /\ ExitedStays
      BY <1>3, <3>1, <3>2, <3>4, <3>10 DEF IInv, SchedInv, LeavingLocked, ExitedStays, spawn
    <3> QED BY <3>12, <3>13 DEF SchedInv
  <2>2. GcType' /\ gc'.task = gc.task
    BY <1>3 DEF IInv, GcType, spawn
  <2> QED BY <1>1, <1>3, <2>1, <2>2, SameTypes, Together DEF spawn
<1>4. ASSUME NEW u \in Task, drop_handle(c, t, u) PROVE IInv'
  <2>1. GcType' /\ gc'.task = gc.task
    BY <1>4 DEF IInv, GcType, drop_handle
  <2> QED BY <1>1, <1>4, <2>1, SameStep, SameTypes, Together DEF drop_handle
<1>5. ASSUME NEW q \in WaitQueue, SetCondition(c, t, q) PROVE IInv'
  <2>1. WaitType'
    BY <1>5 DEF IInv, WaitType, SetCondition
  <2> QED BY <1>1, <1>5, <2>1, SameStep, SameTypes, Together DEF SetCondition
<1>6. ASSUME NEW q \in WaitQueue, NEW b \in BOOLEAN, notify_one(c, t, q, b) PROVE IInv'
  <2>1. q \in Queue /\ calls' \in [Task -> Nat]
    BY <1>6 DEF Queue, notify_one, Call, IInv, CallType
  <2>2. CASE wq[q] = << >>
    <3>1. UNCHANGED wvars
      BY <1>6, <2>2 DEF notify_one, wvars
    <3> QED BY <1>1, <1>6, <2>2, <3>1, SameStep, SameTypes, Together DEF notify_one
  <2>3. CASE wq[q] # << >>
    <3>1. Pop(q) /\ rq' = unblock_task(rq, c, Head(wq[q]), b)
      BY <1>6, <2>3 DEF notify_one, NotifyLocked
    <3>2. WaitType' /\ CallType' /\ NoneArrives /\ Head(wq[q]) \in Task
      BY <1>6, <2>1, <2>3, <3>1, PopStep DEF notify_one
    <3>3. SchedInv' /\ ExitedStays
      BY <1>6, <3>1, <3>2, UnblockStep DEF notify_one
    <3> QED BY <1>6, <3>2, <3>3, SameTypes, Together DEF notify_one
  <2> QED BY <2>2, <2>3
<1>7. ASSUME NEW q \in WaitQueue, NEW u \in Task, NEW b \in BOOLEAN, notify_task(c, t, q, u, b)
      PROVE  IInv'
  <2>1. q \in Queue /\ wq[q] \in Seq(Task)
    BY DEF Queue, IInv, WaitType
  <2>2. PICK i \in 1..Len(wq[q]) :
            /\ wq[q][i] = u /\ \A j \in 1..(i - 1) : wq[q][j] # u
            /\ wq' = [wq EXCEPT ![q] = Removed(@, i)]
    BY <1>7, Zenon DEF notify_task
  <2>3. Removed(wq[q], i) \in Seq(Task)
    BY <2>1 DEF Removed
  <2>4. WaitType'
    <3>1. wq' \in [Queue -> Seq(Task)]
      BY <2>1, <2>2, <2>3 DEF IInv, WaitType
    <3>2. inwq' \in [Task -> BOOLEAN] /\ cond' = cond
      BY <1>7 DEF IInv, WaitType, notify_task
    <3> QED BY <3>1, <3>2 DEF IInv, WaitType
  <2>5. events' \in [Task -> SUBSET {"notify", "timer"}]
    BY <1>7 DEF IInv, CallType, notify_task
  <2>6. CallType' /\ NoneArrives
    BY <1>7, <2>5 DEF IInv, CallType, NoneArrives, Call, notify_task
  <2>7. SchedInv' /\ ExitedStays
    BY <1>7, UnblockStep DEF notify_task
  <2> QED BY <1>7, <2>4, <2>6, <2>7, SameTypes, Together DEF notify_task
<1> QED BY <1>2, <1>3, <1>4, <1>5, <1>6, <1>7

\* The calls that may block, as they begin.
LEMMA BeginSteps ==
    ASSUME IInv, NEW c \in Cpu, NEW t \in Task
    PROVE  /\ \A q \in WaitQueue : wait(c, t, q) => IInv'
           /\ \A q \in WaitQueue : wait_until(c, t, q) => IInv'
           /\ \A q \in WaitQueue : notify_all(c, t, q) => IInv'
           /\ \A u \in Task : join(c, t, u) => IInv'
           /\ \A q \in WaitQueue, d \in Durations : wait_timeout(c, t, q, d) => IInv'
           /\ \A q \in WaitQueue, d \in Durations : wait_timeout_until(c, t, q, d) => IInv'
           /\ \A d \in 0..MaxTime : sleep_until(c, t, d) => IInv'
<1>1. ASSUME NEW op, Call(c, t, op)
      PROVE  calls' \in [Task -> Nat] /\ op \in Ops \union {"wait"} /\ rq.current[c] = t
  BY <1>1 DEF IInv, CallType, Call, At
<1>2. WaitQueue \subseteq Queue /\ Task \subseteq Queue /\ 0 \in 0..MaxTime
  BY TaskAssumption DEF Queue
<1>3. /\ {"cancel_wait", "wait_until", "notify_all", "timeout_block", "until_clock", "sleep"}
            \subseteq Locations \ (Exiting \union {"gc_check"})
      /\ "sleep" \notin OnQueue
  BY DEF Locations, Exiting, OnQueue
<1>4. ASSUME NEW q \in WaitQueue, wait(c, t, q) PROVE IInv'
  <2>1. CallType' /\ NoneArrives
    BY <1>1, <1>2, <1>3, <1>4, BeginStep DEF wait
  <2>2. WaitType'
    BY <1>2, <1>4, PushStep DEF wait
  <2>3. SchedInv' /\ ExitedStays
    BY <1>1, <1>4, BlockStep DEF wait, BlockOn
  <2> QED BY <1>4, <2>1, <2>2, <2>3, SameTypes, Together DEF wait
<1>5. ASSUME NEW q \in WaitQueue, wait_until(c, t, q) PROVE IInv'
  <2>1. CallType' /\ NoneArrives
    BY <1>1, <1>2, <1>3, <1>5, BeginStep DEF wait_until
  <2> QED BY <1>5, <2>1, SameStep, SameTypes, Together DEF wait_until
<1>6. ASSUME NEW q \in WaitQueue, notify_all(c, t, q) PROVE IInv'
  <2>1. CallType' /\ NoneArrives
    BY <1>1, <1>2, <1>3, <1>6, BeginStep DEF notify_all
  <2> QED BY <1>6, <2>1, SameStep, SameTypes, Together DEF notify_all
<1>7. ASSUME NEW u \in Task, join(c, t, u) PROVE IInv'
  <2>1. CallType' /\ NoneArrives
    BY <1>1, <1>2, <1>3, <1>7, BeginStep DEF join
  <2> QED BY <1>7, <2>1, SameStep, SameTypes, Together DEF join
<1>8. ASSUME NEW op, NEW q \in WaitQueue, NEW d \in Durations, NEW to \in {"timeout_block", "until_clock"},
             SetAlarm(c, t, op, q, d), Goto(t, to)
      PROVE  IInv'
  <2>1. now + d \in 0..MaxTime
    BY <1>8, TaskAssumption DEF SetAlarm, IInv, ClockType
  <2>2. CallType' /\ NoneArrives
    <3>1. Call(c, t, op) /\ Locals(t, op, q, now + d)
      BY <1>8 DEF SetAlarm
    <3>2. calls' \in [Task -> Nat] /\ op \in Ops \union {"wait"}
      BY <1>1, <3>1
    <3>3. to \in Locations \ (Exiting \union {"gc_check"}) /\ q \in Queue
      BY <1>2, <1>3
    <3> QED BY <1>8, <2>1, <3>1, <3>2, <3>3, BeginStep
  <2>3. ClockType'
    BY <1>8, <2>1 DEF SetAlarm, IInv, ClockType
  <2> QED BY <1>8, <2>2, <2>3, SameStep, SameTypes, Together DEF SetAlarm
<1>9. ASSUME NEW q \in WaitQueue, NEW d \in Durations, wait_timeout(c, t, q, d) PROVE IInv'
  BY <1>8, <1>9 DEF wait_timeout
<1>10. ASSUME NEW q \in WaitQueue, NEW d \in Durations, wait_timeout_until(c, t, q, d) PROVE IInv'
  BY <1>8, <1>10 DEF wait_timeout_until
<1>11. ASSUME NEW d \in 0..MaxTime, sleep_until(c, t, d) PROVE IInv'
  <2>1. CASE now < d
    <3>1. CallType' /\ NoneArrives
      BY <1>1, <1>3, <1>11, <2>1, BeginStep, Zenon DEF sleep_until
    <3>2. ClockType'
      <4>1. timers' = Append(timers, <<d, t>>) /\ <<d, t>> \in (0..MaxTime) \X Task
               /\ intl' = [intl EXCEPT ![t] = TRUE] /\ UNCHANGED <<now, irq, firing>>
        BY <1>11, <2>1 DEF sleep_until
      <4> QED BY <4>1 DEF IInv, ClockType
    <3>3. SchedInv' /\ ExitedStays
      BY <1>1, <1>11, <2>1, BlockStep DEF sleep_until
    <3> QED BY <1>11, <3>1, <3>2, <3>3, SameTypes, Together DEF sleep_until
  <2>2. CASE ~(now < d)
    <3>1. CallType' /\ NoneArrives
      BY <1>1, <1>11, <2>2 DEF sleep_until, IInv, CallType, NoneArrives
    <3>2. ClockType'
      BY <1>11, <2>2 DEF sleep_until, IInv, ClockType
    <3>3. UNCHANGED <<rq, rqlock, leaving>> /\ UNCHANGED wvars /\ UNCHANGED gvars
      BY <1>11, <2>2, Zenon DEF sleep_until
    <3> QED BY <3>1, <3>2, <3>3, SameStep, SameTypes, Together, Zenon
  <2> QED BY <2>1, <2>2
<1> QED BY <1>4, <1>5, <1>6, <1>7, <1>9, <1>10, <1>11
=============================================================================
