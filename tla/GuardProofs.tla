---------------------------- MODULE GuardProofs ----------------------------
(***************************************************************************)
(* The guards of the spin locks: safety for any number of CPUs, tasks and  *)
(* locks and any depth of nested calls and interrupts.                     *)
(***************************************************************************)
EXTENDS SpinGuard, FiniteSetTheorems, SequenceTheorems, TLAPS

\* The provers of a leaf: Zenon first, which is fast where it succeeds.
USE ZenonT(2), SMTT(30), ZenonT(30)

\* Every CPU has a task, every lock one of the three guards, and the names of
\* the other frames are no locks.
GuardAssumption ==
    /\ HomeCpu \in [GuardTask -> Cpu] /\ \A c \in Cpu : \E t \in GuardTask : HomeCpu[t] = c
    /\ Guard \in [SpinLock -> {"raw", "nopreempt", "noirq"}]
    /\ "irq" \notin SpinLock /\ "resched" \notin SpinLock
    /\ MaxDepth \in [GuardTask -> Nat]

Frames ==
    [lock : SpinLock, at : {"acquire", "irq_save", "cas", "in", "release", "enable_preempt"}, saved : BOOLEAN]
    \cup [lock : {"irq"}, at : {"in", "out"}, saved : BOOLEAN]
    \cup [lock : {"resched"}, at : {"out"}, saved : BOOLEAN]

IsLock(f) == f.lock \in SpinLock
IsRaw(f) == IsLock(f) /\ Guard[f.lock] = "raw"

\* The call has reached its critical section, or is about to.
Inside(f) == IsLock(f) /\ f.at \in {"cas", "in"}

\* The frame has preemption disabled, and counts once.
Counted(f) ==
    \/ IsLock(f) /\ Guard[f.lock] # "raw" /\ f.at # "acquire"
    \/ f.lock = "irq" /\ f.at = "in"

\* Interrupts are off while the frame is there, the frames above it done.
Masked(f) ==
    /\ IsLock(f)
    /\ \/ Guard[f.lock] = "noirq" /\ f.at \in {"cas", "in", "release"}
       \/ Guard[f.lock] = "raw"
       \/ Guard[f.lock] = "nopreempt" /\ f.lock \in HandlerLock

Weight(f) == IF Counted(f) THEN 1 ELSE 0
CountFrom(s, i) == Cardinality({j \in i..Len(s) : Counted(s[j])})
HasMasked(s) == \E i \in 1..Len(s) : Masked(s[i])

\* f may stand on top of the frames s: no interrupt comes, and none is enabled
\* again, over a masked frame, and no frame of s is inside the lock of f.
MayStand(s, f) ==
    /\ HasMasked(s) => f.lock # "irq" /\ ~f.saved
    /\ IsLock(f) => \A i \in 1..Len(s) : s[i].lock = f.lock => ~Inside(s[i])

\* The stack of a task with preempt_disable_count p: every frame may stand where
\* it is, and the count is at least what the frames ask for. A raw lock was
\* taken when the count was above what is counted since.
StackOk(s, p) ==
    /\ s \in Seq(Frames) /\ p \in Nat
    /\ \A i, j \in 1..Len(s) : i < j /\ Masked(s[i]) => s[j].lock # "irq" /\ ~s[j].saved
    /\ \A i, j \in 1..Len(s) : i < j /\ IsLock(s[j]) /\ s[i].lock = s[j].lock => ~Inside(s[i])
    /\ CountFrom(s, 1) <= p
    /\ \A i \in 1..Len(s) : IsRaw(s[i]) => CountFrom(s, i) < p

\* A task that does not run has no preemption disabled; a CPU whose task has a
\* masked frame takes no interrupts.
GuardInv ==
    /\ irq \in [Cpu -> BOOLEAN] /\ on \in [Cpu -> GuardTask] /\ \A c \in Cpu : HomeCpu[on[c]] = c
    /\ preempt \in [GuardTask -> Nat] /\ DOMAIN stack = GuardTask
    /\ \A t \in GuardTask : StackOk(stack[t], preempt[t])
    /\ \A t \in GuardTask : t # on[HomeCpu[t]] => preempt[t] = 0
    /\ \A c \in Cpu : HasMasked(stack[on[c]]) => ~irq[c]

\* What is counted is a number, and positive once some frame counts.
LEMMA CountNat ==
    ASSUME NEW S, NEW s \in Seq(S), NEW i \in Nat
    PROVE  /\ IsFiniteSet({j \in i..Len(s) : Counted(s[j])}) /\ CountFrom(s, i) \in Nat
           /\ \A k \in i..Len(s) : Counted(s[k]) => CountFrom(s, i) > 0
<1> DEFINE A == {j \in i..Len(s) : Counted(s[j])}
<1>1. Len(s) \in Nat
  OBVIOUS
<1>2. IsFiniteSet(i..Len(s)) /\ A \subseteq i..Len(s)
  BY <1>1, FS_Interval
<1> HIDE DEF A
<1>3. IsFiniteSet(A)
  BY <1>2, FS_Subset
<1>4. Cardinality(A) \in Nat /\ (A # {} => Cardinality(A) > 0)
  BY <1>3, FS_CardinalityType, FS_EmptySet
<1>5. CountFrom(s, i) = Cardinality(A)
  BY DEF CountFrom, A
<1>6. \A k \in i..Len(s) : Counted(s[k]) => A # {}
  BY DEF A
<1>7. IsFiniteSet({j \in i..Len(s) : Counted(s[j])})
  BY <1>3 DEF A
<1> QED BY <1>4, <1>5, <1>6, <1>7

\* What is counted over one more frame.
LEMMA CountAppend ==
    ASSUME NEW S, NEW s \in Seq(S), NEW f \in S, NEW i \in 1..Len(s) + 1
    PROVE  /\ CountFrom(s, i) \in Nat /\ Weight(f) \in Nat
           /\ CountFrom(Append(s, f), i) = CountFrom(s, i) + Weight(f)
<1> DEFINE n == Len(s)
           A == {j \in i..n : Counted(s[j])}
           B == {j \in i..n + 1 : Counted(Append(s, f)[j])}
<1>1. n \in Nat /\ Len(Append(s, f)) = n + 1 /\ \A j \in 1..n : Append(s, f)[j] = s[j]
  OBVIOUS
<1>2. Append(s, f)[n + 1] = f
  OBVIOUS
<1>3. IsFiniteSet(A) /\ Cardinality(A) \in Nat
  <2>1. i \in Nat
    BY <1>1
  <2> QED BY <2>1, CountNat, FS_CardinalityType
<1>4. n + 1 \notin A
  BY <1>1
<1>5. CountFrom(s, i) = Cardinality(A) /\ CountFrom(Append(s, f), i) = Cardinality(B)
  BY <1>1 DEF CountFrom
<1>6. CASE Counted(f)
  <2>1. B = A \cup {n + 1}
    BY <1>1, <1>2, <1>6
  <2>2. Cardinality(B) = Cardinality(A) + 1
    BY <1>3, <1>4, <2>1, FS_AddElement
  <2> HIDE DEF A, B
  <2> QED BY <1>3, <1>6, <1>5, <2>2 DEF Weight
<1>7. CASE ~Counted(f)
  <2>1. B = A
    BY <1>1, <1>2, <1>7
  <2> HIDE DEF A, B
  <2> QED BY <1>3, <1>7, <1>5, <2>1 DEF Weight
<1> QED BY <1>6, <1>7

\* A frame is put on top of a stack.
LEMMA StackAppend ==
    ASSUME NEW s, NEW p, StackOk(s, p), NEW f \in Frames, MayStand(s, f), NEW q \in Nat,
           p + Weight(f) <= q,
           GuardAssumption, IsRaw(f) => q > 0
    PROVE  StackOk(Append(s, f), q)
<1> DEFINE n == Len(s)
           r == Append(s, f)
<1>1. s \in Seq(Frames) /\ p \in Nat /\ n \in Nat
  BY DEF StackOk
<1>2. r \in Seq(Frames) /\ Len(r) = n + 1 /\ r[n + 1] = f /\ \A i \in 1..n : r[i] = s[i]
  BY <1>1
<1>3. \A i \in 1..n + 1 : /\ CountFrom(s, i) \in Nat /\ Weight(f) \in Nat
                          /\ CountFrom(r, i) = CountFrom(s, i) + Weight(f)
  BY <1>1, CountAppend
<1>4. ASSUME NEW i \in 1..n + 1, NEW j \in 1..n + 1, i < j, Masked(r[i]) PROVE r[j].lock # "irq" /\ ~r[j].saved
  <2>1. i \in 1..n /\ Masked(s[i])
    BY <1>1, <1>2, <1>4
  <2>2. CASE j \in 1..n
    BY <1>2, <1>4, <2>1, <2>2 DEF StackOk
  <2>3. CASE j = n + 1
    BY <1>2, <2>1, <2>3 DEF MayStand, HasMasked
  <2> QED BY <1>1, <2>2, <2>3
<1>5. ASSUME NEW i \in 1..n + 1, NEW j \in 1..n + 1, i < j, IsLock(r[j]), r[i].lock = r[j].lock PROVE ~Inside(r[i])
  <2>1. i \in 1..n /\ r[i] = s[i]
    BY <1>1, <1>2, <1>5
  <2>2. CASE j \in 1..n
    <3>1. r[j] = s[j]
      BY <1>2, <2>2
    <3> QED BY <1>5, <2>1, <2>2, <3>1 DEF StackOk
  <2>3. CASE j = n + 1
    <3>1. r[j] = f
      BY <1>2, <2>3
    <3> QED BY <1>5, <2>1, <3>1 DEF MayStand
  <2> QED BY <1>1, <2>2, <2>3
<1>6. CountFrom(r, 1) <= q
  <2>1. CountFrom(s, 1) <= p
    BY DEF StackOk
  <2> QED BY <1>1, <1>3, <2>1
<1>7. ASSUME NEW i \in 1..n + 1, IsRaw(r[i]) PROVE CountFrom(r, i) < q
  <2>1. CASE i \in 1..n
    <3>1. CountFrom(s, i) < p
      BY <1>2, <1>7, <2>1 DEF StackOk
    <3> QED BY <1>1, <1>3, <2>1, <3>1
  <2>2. CASE i = n + 1
    <3>0. IsRaw(f)
      BY <1>2, <1>7, <2>2
    <3>1. Weight(f) = 0 /\ q > 0
      <4>1. f.lock # "irq"
        BY <3>0, GuardAssumption DEF IsRaw, IsLock, GuardAssumption
      <4> QED BY <3>0, <4>1 DEF IsRaw, Counted, Weight
    <3>2. {j \in i..Len(s) : Counted(s[j])} = {}
      BY <1>1, <2>2
    <3>3. CountFrom(s, i) = 0
      BY <3>2, FS_EmptySet DEF CountFrom
    <3> QED BY <1>1, <1>3, <2>2, <3>1, <3>3
  <2> QED BY <1>1, <2>1, <2>2
<1>8. r \in Seq(Frames) /\ Len(r) = n + 1
  BY <1>2
<1> HIDE DEF r, n
<1>9. StackOk(r, q)
  BY <1>4, <1>5, <1>6, <1>7, <1>8 DEF StackOk
<1> QED BY <1>9 DEF r

\* The top frame f of a stack with the frames u below it.
IsSplit(s, p, u, f) ==
    /\ s = Append(u, f) /\ u = Below(s) /\ f = s[Len(s)] /\ Len(s) = Len(u) + 1 /\ u \in Seq(Frames)
    /\ f \in Frames /\ MayStand(u, f) /\ p - Weight(f) \in Nat /\ StackOk(u, p - Weight(f))
    /\ IsRaw(f) => p > 0
    /\ HasMasked(u) => HasMasked(s)
    /\ Masked(f) => HasMasked(s)

\* A stack without its top frame.
LEMMA StackFront ==
    ASSUME NEW s, NEW p, StackOk(s, p), Len(s) > 0
    PROVE  IsSplit(s, p, Below(s), s[Len(s)])
<1> DEFINE n == Len(s) - 1
           u == Below(s)
           f == s[Len(s)]
           q == p - Weight(f)
<1>1. s \in Seq(Frames) /\ p \in Nat /\ n \in Nat /\ Len(s) = n + 1
  BY DEF StackOk
<1>2. u \in Seq(Frames) /\ Len(u) = n /\ (\A i \in 1..n : u[i] = s[i]) /\ f \in Frames /\ f = s[n + 1]
  <2>1. u = SubSeq(s, 1, n)
    BY <1>1 DEF Below
  <2> QED BY <1>1, <2>1
<1>3. s = Append(u, f)
  <2> HIDE DEF u, f, n
  <2>1. Append(u, f) \in Seq(Frames) /\ Len(Append(u, f)) = n + 1
        /\ \A i \in 1..n + 1 : Append(u, f)[i] = IF i <= n THEN u[i] ELSE f
    BY <1>1, <1>2
  <2>2. \A i \in 1..Len(s) : s[i] = Append(u, f)[i]
    BY <1>1, <1>2, <2>1
  <2> QED BY <1>1, <2>1, <2>2, SeqEqual
<1>4. \A i \in 1..n + 1 : /\ CountFrom(u, i) \in Nat /\ Weight(f) \in Nat
                          /\ CountFrom(s, i) = CountFrom(u, i) + Weight(f)
  <2> HIDE DEF u, f
  <2> QED BY <1>2, <1>3, CountAppend
<1> HIDE DEF u, f
<1>5. MayStand(u, f)
  <2>1. HasMasked(u) => f.lock # "irq" /\ ~f.saved
    <3>1. ASSUME NEW i \in 1..n, Masked(u[i]) PROVE f.lock # "irq" /\ ~f.saved
      <4>1. Masked(s[i]) /\ i \in 1..Len(s) /\ n + 1 \in 1..Len(s) /\ i < n + 1
        BY <1>1, <1>2, <3>1
      <4> QED BY <1>2, <4>1 DEF StackOk
    <3> QED BY <1>2, <3>1 DEF HasMasked
  <2>2. ASSUME IsLock(f), NEW i \in 1..n, u[i].lock = f.lock PROVE ~Inside(u[i])
    <3>1. u[i] = s[i] /\ i \in 1..Len(s) /\ n + 1 \in 1..Len(s) /\ i < n + 1
      BY <1>1, <1>2
    <3> QED BY <1>2, <2>2, <3>1 DEF StackOk
  <2> QED BY <1>2, <2>1, <2>2 DEF MayStand
<1>6. q \in Nat /\ CountFrom(u, 1) <= q
  <2>1. CountFrom(s, 1) <= p
    BY DEF StackOk
  <2>2. Weight(f) \in Nat /\ CountFrom(u, 1) \in Nat /\ CountFrom(s, 1) = CountFrom(u, 1) + Weight(f)
    BY <1>1, <1>4
  <2> QED BY <1>1, <2>1, <2>2
<1>7. ASSUME NEW i \in 1..n, IsRaw(u[i]) PROVE CountFrom(u, i) < q
  <2>1. CountFrom(s, i) < p
    BY <1>1, <1>2, <1>7 DEF StackOk
  <2>2. Weight(f) \in Nat /\ CountFrom(u, i) \in Nat /\ CountFrom(s, i) = CountFrom(u, i) + Weight(f)
    BY <1>1, <1>4
  <2> QED BY <1>1, <2>1, <2>2
<1>8. StackOk(u, q)
  <2>1. \A i \in 1..Len(u) : i \in 1..Len(s) /\ u[i] = s[i]
    BY <1>1, <1>2
  <2>2. \A i, j \in 1..Len(u) : i < j /\ Masked(u[i]) => u[j].lock # "irq" /\ ~u[j].saved
    BY <2>1 DEF StackOk
  <2>3. \A i, j \in 1..Len(u) : i < j /\ IsLock(u[j]) /\ u[i].lock = u[j].lock => ~Inside(u[i])
    BY <2>1 DEF StackOk
  <2> HIDE DEF q
  <2> QED BY <1>2, <1>6, <1>7, <2>2, <2>3 DEF StackOk
<1>9. IsRaw(f) => p > 0
  <2>1. IsRaw(f) => CountFrom(s, n + 1) < p
    BY <1>1, <1>2 DEF StackOk
  <2>2. CountFrom(s, n + 1) \in Nat
    BY <1>1, <1>4
  <2> QED BY <1>1, <2>1, <2>2
<1>10. (HasMasked(u) => HasMasked(s)) /\ (Masked(f) => HasMasked(s))
  BY <1>1, <1>2 DEF HasMasked
<1> HIDE DEF q
<1>11. IsSplit(s, p, u, f)
  BY <1>1, <1>2, <1>3, <1>5, <1>6, <1>8, <1>9, <1>10 DEF IsSplit, q, u, f
<1> QED BY <1>11 DEF u, f

\* The masked frames of a stack with one more frame.
LEMMA MaskedAppend ==
    ASSUME NEW s \in Seq(Frames), NEW f \in Frames, HasMasked(Append(s, f))
    PROVE  HasMasked(s) \/ Masked(f)
<1>1. PICK i \in 1..Len(s) + 1 : Masked(Append(s, f)[i])
  BY DEF HasMasked
<1>2. CASE i = Len(s) + 1
  BY <1>1, <1>2
<1>3. CASE i \in 1..Len(s)
  BY <1>1, <1>3 DEF HasMasked
<1> QED BY <1>2, <1>3

\* A step of the task that runs on c, without a switch.
LEMMA TaskStep ==
    ASSUME GuardInv, GuardAssumption, NEW c \in Cpu, NEW s, NEW p, NEW b \in BOOLEAN,
           stack' = [stack EXCEPT ![on[c]] = s], preempt' = [preempt EXCEPT ![on[c]] = p],
           irq' = [irq EXCEPT ![c] = b], on' = on, StackOk(s, p), HasMasked(s) => ~b
    PROVE  GuardInv'
<1> DEFINE t == on[c]
<1>1. t \in GuardTask /\ HomeCpu[t] = c
  BY DEF GuardInv
<1>2. p \in Nat
  BY DEF StackOk
<1>3. /\ irq' \in [Cpu -> BOOLEAN] /\ on' \in [Cpu -> GuardTask] /\ (\A d \in Cpu : HomeCpu[on'[d]] = d)
      /\ preempt' \in [GuardTask -> Nat] /\ DOMAIN stack' = GuardTask
  BY <1>1, <1>2 DEF GuardInv
<1>4. ASSUME NEW v \in GuardTask PROVE StackOk(stack'[v], preempt'[v])
  <2>1. CASE v = t
    BY <1>1, <2>1 DEF GuardInv
  <2>2. CASE v # t
    <3>1. stack'[v] = stack[v] /\ preempt'[v] = preempt[v]
      BY <2>2 DEF GuardInv
    <3> QED BY <3>1 DEF GuardInv
  <2> QED BY <2>1, <2>2
<1>5. ASSUME NEW v \in GuardTask, v # on'[HomeCpu[v]] PROVE preempt'[v] = 0
  <2>1. v # t
    BY <1>1, <1>5
  <2> QED BY <1>5, <2>1 DEF GuardInv
<1>6. ASSUME NEW d \in Cpu, HasMasked(stack'[on'[d]]) PROVE ~irq'[d]
  <2>1. CASE d = c
    <3>1. stack'[on'[d]] = s /\ irq'[d] = b
      BY <1>1, <2>1 DEF GuardInv
    <3> QED BY <1>6, <3>1
  <2>2. CASE d # c
    <3>1. on[d] # t /\ on[d] \in GuardTask
      BY <1>1, <2>2 DEF GuardInv
    <3>2. stack'[on'[d]] = stack[on[d]] /\ irq'[d] = irq[d]
      BY <2>2, <3>1 DEF GuardInv
    <3> QED BY <1>6, <3>2 DEF GuardInv
  <2> QED BY <2>1, <2>2
<1> QED BY <1>3, <1>4, <1>5, <1>6 DEF GuardInv

\* Replacing the top frame.
LEMMA StackTop ==
    ASSUME NEW s \in Seq(Frames), NEW p, NEW u, NEW f, IsSplit(s, p, u, f), NEW g \in Frames
    PROVE  [s EXCEPT ![Len(s)] = g] = Append(u, g)
<1> DEFINE r == [s EXCEPT ![Len(s)] = g]
<1>0. u \in Seq(Frames) /\ f \in Frames /\ Len(s) = Len(u) + 1 /\ s = Append(u, f)
  BY DEF IsSplit
<1>1. u \in Seq(Frames) /\ f \in Frames /\ Len(s) = Len(u) + 1 /\ Len(u) \in Nat /\ s = Append(u, f)
  BY <1>0
<1>2. r \in Seq(Frames) /\ Len(r) = Len(s) /\ \A i \in 1..Len(s) : r[i] = IF i = Len(s) THEN g ELSE s[i]
  <2>1. Len(s) \in 1..Len(s)
    BY <1>1
  <2> QED BY <2>1, ExceptSeq
<1>3. Append(u, g) \in Seq(Frames) /\ Len(Append(u, g)) = Len(s)
      /\ \A i \in 1..Len(s) : Append(u, g)[i] = IF i = Len(s) THEN g ELSE s[i]
  <2>1. \A i \in 1..Len(u) : Append(u, g)[i] = u[i] /\ Append(u, f)[i] = u[i]
    BY <1>1
  <2>2. Append(u, g)[Len(s)] = g /\ Append(u, g) \in Seq(Frames) /\ Len(Append(u, g)) = Len(s)
    BY <1>1
  <2> QED BY <1>1, <2>1, <2>2
<1> HIDE DEF r
<1>4. r = Append(u, g)
  BY <1>2, <1>3, SeqEqual
<1> QED BY <1>4 DEF r

\* The task that runs on c has the frame f on top of u.
OnTop(c, u, f) ==
    /\ IsSplit(stack[on[c]], preempt[on[c]], u, f) /\ Top(on[c]) = f /\ Below(stack[on[c]]) = u
    /\ HasMasked(stack[on[c]]) => ~irq[c]

\* What the invariant says of the task that runs on c.
LEMMA RunsFacts ==
    ASSUME GuardInv, NEW c \in Cpu
    PROVE  /\ on[c] \in GuardTask /\ HomeCpu[on[c]] = c /\ StackOk(stack[on[c]], preempt[on[c]])
           /\ preempt[on[c]] \in Nat /\ stack[on[c]] \in Seq(Frames) /\ irq[c] \in BOOLEAN
           /\ Depth(on[c]) > 0 => \E u, f : OnTop(c, u, f)
<1>1. /\ on[c] \in GuardTask /\ HomeCpu[on[c]] = c /\ StackOk(stack[on[c]], preempt[on[c]])
      /\ preempt[on[c]] \in Nat /\ irq[c] \in BOOLEAN /\ (HasMasked(stack[on[c]]) => ~irq[c])
  BY DEF GuardInv
<1>2. stack[on[c]] \in Seq(Frames)
  BY <1>1 DEF StackOk
<1>3. ASSUME Depth(on[c]) > 0 PROVE OnTop(c, Below(stack[on[c]]), Top(on[c]))
  <2>1. IsSplit(stack[on[c]], preempt[on[c]], Below(stack[on[c]]), stack[on[c]][Len(stack[on[c]])])
    BY <1>1, <1>3, StackFront DEF Depth
  <2> QED BY <1>1, <2>1 DEF OnTop, Top, Depth
<1> QED BY <1>1, <1>2, <1>3

TopBecomes(c, g, p, b) ==
    /\ stack' = [stack EXCEPT ![on[c]] = [@ EXCEPT ![Depth(on[c])] = g]]
    /\ preempt' = [preempt EXCEPT ![on[c]] = p]
    /\ irq' = [irq EXCEPT ![c] = b] /\ on' = on

\* A step that changes only the top frame of the task that runs on c, its count
\* and the interrupts of c.
LEMMA TopStep ==
    ASSUME GuardInv, GuardAssumption, NEW c \in Cpu, NEW u, NEW f, OnTop(c, u, f),
           NEW g \in Frames, MayStand(u, g), NEW p \in Nat, NEW b \in BOOLEAN,
           preempt[on[c]] - Weight(f) + Weight(g) <= p, IsRaw(g) => p > 0,
           HasMasked(u) \/ Masked(g) => ~b, TopBecomes(c, g, p, b)
    PROVE  GuardInv'
<1>1. IsSplit(stack[on[c]], preempt[on[c]], u, f) /\ stack[on[c]] \in Seq(Frames) /\ u \in Seq(Frames)
  BY RunsFacts DEF OnTop, IsSplit
<1>2. stack' = [stack EXCEPT ![on[c]] = Append(u, g)]
  <2>1. [stack[on[c]] EXCEPT ![Len(stack[on[c]])] = g] = Append(u, g)
    BY <1>1, StackTop
  <2> QED BY <2>1 DEF Depth, TopBecomes
<1>3. StackOk(Append(u, g), p)
  <2>1. StackOk(u, preempt[on[c]] - Weight(f))
    BY <1>1 DEF IsSplit
  <2> QED BY <2>1, StackAppend
<1>4. HasMasked(Append(u, g)) => ~b
  BY <1>1, MaskedAppend
<1> QED BY <1>2, <1>3, <1>4, TaskStep DEF TopBecomes

\* The count may be larger.
LEMMA StackMore ==
    ASSUME NEW s, NEW p, StackOk(s, p), NEW q \in Nat, p <= q
    PROVE  StackOk(s, q)
<1>1. s \in Seq(Frames) /\ p \in Nat
  BY DEF StackOk
<1>2. ASSUME NEW i \in 1..Len(s) + 1 PROVE CountFrom(s, i) \in Nat
  <2>1. i \in Nat
    BY <1>1
  <2> QED BY <1>1, <2>1, CountNat
<1>3. CountFrom(s, 1) <= q
  <2>1. CountFrom(s, 1) <= p
    BY DEF StackOk
  <2> QED BY <1>1, <1>2, <2>1
<1>4. ASSUME NEW i \in 1..Len(s), IsRaw(s[i]) PROVE CountFrom(s, i) < q
  <2>1. CountFrom(s, i) < p
    BY <1>4 DEF StackOk
  <2> QED BY <1>1, <1>2, <2>1
<1> QED BY <1>1, <1>3, <1>4 DEF StackOk

\* The frame of a task that was switched out.
LEMMA SwitchedFacts ==
    ASSUME GuardAssumption, NEW b \in BOOLEAN
    PROVE  /\ SwitchedOut(b) \in Frames /\ SwitchedOut(b).lock = "resched" /\ SwitchedOut(b).saved = b
           /\ ~IsLock(SwitchedOut(b)) /\ ~IsRaw(SwitchedOut(b)) /\ Weight(SwitchedOut(b)) = 0
<1> DEFINE f == SwitchedOut(b)
<1>1. f = [lock |-> "resched", at |-> "out", saved |-> b]
  BY DEF SwitchedOut, Frame
<1>2. f \in Frames /\ f.lock = "resched" /\ f.saved = b
  BY <1>1 DEF Frames
<1> HIDE DEF f
<1>3. ~IsLock(f) /\ ~IsRaw(f) /\ Weight(f) = 0
  BY <1>2 DEF IsLock, IsRaw, Weight, Counted, GuardAssumption
<1> QED BY <1>2, <1>3 DEF f

\* A switch from the task that runs on c to v.
LEMMA SwitchStep ==
    ASSUME GuardInv, GuardAssumption, NEW c \in Cpu, NEW s, StackOk(s, 0), HasMasked(s) => ~irq[c],
           stack' = [stack EXCEPT ![on[c]] = Append(s, SwitchedOut(irq[c]))],
           preempt' = [preempt EXCEPT ![on[c]] = 0], irq' = [irq EXCEPT ![c] = FALSE],
           NEW v \in GuardTask \ {on[c]}, HomeCpu[v] = c, on' = [on EXCEPT ![c] = v]
    PROVE  GuardInv'
<1> DEFINE t == on[c]
           f == SwitchedOut(irq[c])
<1>1. t \in GuardTask /\ HomeCpu[t] = c /\ irq[c] \in BOOLEAN /\ preempt[v] = 0
  BY RunsFacts DEF GuardInv
<1>3. f \in Frames /\ f.lock = "resched" /\ f.saved = irq[c]
  BY <1>1, SwitchedFacts
<1>4. ~IsLock(f) /\ ~IsRaw(f) /\ Weight(f) = 0
  BY <1>1, SwitchedFacts
<1>5. MayStand(s, f)
  BY <1>3, <1>4 DEF MayStand
<1> HIDE DEF f
<1>6. StackOk(Append(s, f), 0)
  BY <1>3, <1>4, <1>5, StackAppend
<1>7. /\ irq' \in [Cpu -> BOOLEAN] /\ on' \in [Cpu -> GuardTask] /\ (\A d \in Cpu : HomeCpu[on'[d]] = d)
      /\ preempt' \in [GuardTask -> Nat] /\ DOMAIN stack' = GuardTask
  BY <1>1 DEF GuardInv
<1>8. ASSUME NEW w \in GuardTask PROVE StackOk(stack'[w], preempt'[w])
  <2>1. CASE w = t
    <3>1. stack'[w] = Append(s, f) /\ preempt'[w] = 0
      BY <1>1, <2>1 DEF GuardInv, f
    <3> QED BY <1>6, <3>1
  <2>2. CASE w # t
    <3>1. stack'[w] = stack[w] /\ preempt'[w] = preempt[w]
      BY <2>2 DEF GuardInv
    <3> QED BY <3>1 DEF GuardInv
  <2> QED BY <2>1, <2>2
<1>9. ASSUME NEW w \in GuardTask, w # on'[HomeCpu[w]] PROVE preempt'[w] = 0
  <2>1. CASE w = t
    BY <1>1, <2>1 DEF GuardInv
  <2>2. CASE w # t
    <3>1. w # on[HomeCpu[w]]
      BY <1>1, <1>9, <2>2 DEF GuardInv, GuardAssumption
    <3> QED BY <2>2, <3>1 DEF GuardInv
  <2> QED BY <2>1, <2>2
<1>10. ASSUME NEW d \in Cpu, HasMasked(stack'[on'[d]]) PROVE ~irq'[d]
  <2>1. CASE d = c
    BY <2>1 DEF GuardInv
  <2>2. CASE d # c
    <3>1. on'[d] = on[d] /\ on[d] # t /\ on[d] \in GuardTask
      BY <1>1, <2>2 DEF GuardInv
    <3>2. stack'[on'[d]] = stack[on[d]] /\ irq'[d] = irq[d]
      BY <2>2, <3>1 DEF GuardInv
    <3> QED BY <1>10, <3>2 DEF GuardInv
  <2> QED BY <2>1, <2>2
<1> QED BY <1>7, <1>8, <1>9, <1>10 DEF GuardInv

\* enable_preempt, which may switch.
LEMMA EnableStep ==
    ASSUME GuardInv, GuardAssumption, NEW c \in Cpu, NEW counted \in BOOLEAN, NEW s,
           EnablePreempt(c, counted, s), counted => preempt[on[c]] > 0,
           StackOk(s, IF counted THEN preempt[on[c]] - 1 ELSE preempt[on[c]]), HasMasked(s) => ~irq[c]
    PROVE  GuardInv'
<1> DEFINE p == IF counted THEN preempt[on[c]] - 1 ELSE preempt[on[c]]
<1>1. on[c] \in GuardTask /\ preempt[on[c]] \in Nat /\ irq[c] \in BOOLEAN
  BY RunsFacts
<1>2. preempt' = [preempt EXCEPT ![on[c]] = p]
  BY <1>1 DEF EnablePreempt, GuardInv
<1>3. CASE stack' = [stack EXCEPT ![on[c]] = s] /\ UNCHANGED <<irq, on>>
  <2>1. irq' = [irq EXCEPT ![c] = irq[c]]
    BY <1>3 DEF GuardInv
  <2> HIDE DEF p
  <2>2. StackOk(s, p)
    BY DEF p
  <2> QED BY <1>1, <1>2, <1>3, <2>1, <2>2, TaskStep
<1>4. CASE /\ counted /\ preempt[on[c]] = 1
           /\ stack' = [stack EXCEPT ![on[c]] = Append(s, SwitchedOut(irq[c]))]
           /\ irq' = [irq EXCEPT ![c] = FALSE]
           /\ \E u \in GuardTask \ {on[c]} : HomeCpu[u] = c /\ on' = [on EXCEPT ![c] = u]
  <2>1. PICK v \in GuardTask \ {on[c]} : HomeCpu[v] = c /\ on' = [on EXCEPT ![c] = v]
    BY <1>4
  <2>2. p = 0
    BY <1>4
  <2>3. StackOk(s, 0) /\ preempt' = [preempt EXCEPT ![on[c]] = 0]
    BY <1>2, <2>2
  <2> QED BY <1>4, <2>1, <2>3, SwitchStep
<1> QED BY <1>3, <1>4 DEF EnablePreempt

\* A frame with the lock and the saved state of another stands where that does.
LEMMA StandsAlike ==
    ASSUME NEW u, NEW f, NEW g, MayStand(u, f), g.lock = f.lock, g.saved = f.saved
    PROVE  MayStand(u, g)
BY DEF MayStand, IsLock

Moved(f, a) == [f EXCEPT !.at = a]

\* The next step of a lock call.
LEMMA AtFacts ==
    ASSUME GuardAssumption, NEW f \in Frames,
           NEW a \in {"acquire", "irq_save", "cas", "in", "release", "enable_preempt"}, IsLock(f)
    PROVE  /\ Moved(f, a) \in Frames /\ Moved(f, a).at = a
           /\ Moved(f, a).lock = f.lock /\ Moved(f, a).saved = f.saved
           /\ Guard[f.lock] \in {"raw", "nopreempt", "noirq"} /\ f.lock # "irq"
BY DEF Frames, IsLock, GuardAssumption, Moved

\* The frames that are not at "in" or "out" are lock calls.
LEMMA LockAt ==
    ASSUME GuardAssumption, NEW f \in Frames
    PROVE  /\ f.at \notin {"in", "out"} => IsLock(f)
           /\ f.at = "out" => ~IsLock(f) /\ ~Counted(f) /\ ~Masked(f)
BY DEF Frames, IsLock, Counted, Masked, GuardAssumption

\* A call of lock, or of try_lock.
LEMMA LockStep ==
    ASSUME GuardInv, GuardAssumption, NEW c \in Cpu, NEW l \in SpinLock, lock(c, l)
    PROVE  GuardInv'
<1> DEFINE t == on[c]
           s == stack[t]
           f == Frame(l, "acquire")
<1>1. /\ t \in GuardTask /\ StackOk(s, preempt[t]) /\ preempt[t] \in Nat /\ s \in Seq(Frames)
      /\ irq[c] \in BOOLEAN
  BY RunsFacts
<1>2. HasMasked(s) => ~irq[c]
  BY DEF GuardInv
<1>3. f \in Frames /\ f.lock = l /\ f.at = "acquire" /\ f.saved = FALSE
  BY DEF Frame, Frames
<1> HIDE DEF f
<1>4. /\ l # "irq" /\ Guard[l] \in {"raw", "nopreempt", "noirq"}
      /\ IsRaw(f) => Guard[l] = "raw"
      /\ Masked(f) => Guard[l] = "raw" \/ (Guard[l] = "nopreempt" /\ l \in HandlerLock)
  <2>1. l # "irq" /\ Guard[l] \in {"raw", "nopreempt", "noirq"}
    BY DEF GuardAssumption
  <2> QED BY <1>3, <2>1 DEF IsRaw, Masked
<1>5. Weight(f) = 0
  BY <1>3, <1>4 DEF Weight, Counted
<1>6. /\ ~Holds(t, l) /\ (InHandler(t) => l \in HandlerLock) /\ (Guard[l] = "raw" => ~irq[c] /\ preempt[t] > 0)
      /\ (Guard[l] = "nopreempt" /\ l \in HandlerLock => ~irq[c])
      /\ stack' = [stack EXCEPT ![t] = Append(s, f)] /\ UNCHANGED <<irq, preempt, on>>
  BY DEF lock, MayLock, f
<1>7. ASSUME NEW i \in 1..Len(s), s[i].lock = l, Inside(s[i]) PROVE FALSE
  <2>1. PICK j \in i..Len(s) : s[j].lock = "irq"
    BY <1>6, <1>7 DEF Holds, Depth
  <2>2. j \in 1..Len(s) /\ i < j
    BY <1>1, <1>4, <1>7, <2>1
  <2>3. l \in HandlerLock
    BY <1>6, <2>1, <2>2 DEF InHandler, Depth
  <2>4. Masked(s[i])
    BY <1>4, <1>7, <2>3 DEF Masked, Inside
  <2> QED BY <1>1, <2>1, <2>2, <2>4 DEF StackOk
<1>8. MayStand(s, f)
  BY <1>3, <1>4, <1>7 DEF MayStand
<1>9. StackOk(Append(s, f), preempt[t])
  BY <1>1, <1>3, <1>4, <1>5, <1>6, <1>8, StackAppend
<1>10. HasMasked(Append(s, f)) => ~irq[c]
  BY <1>1, <1>2, <1>3, <1>4, <1>6, MaskedAppend
<1>11. irq' = [irq EXCEPT ![c] = irq[c]] /\ preempt' = [preempt EXCEPT ![t] = preempt[t]]
  BY <1>6 DEF GuardInv
<1> QED BY <1>1, <1>6, <1>9, <1>10, <1>11, TaskStep

\* G::acquire disables preemption and interrupts.
LEMMA AcquireStep ==
    ASSUME GuardInv, GuardAssumption, NEW c \in Cpu, acquire(c)
    PROVE  GuardInv'
<1> DEFINE t == on[c]
<1>1. t \in GuardTask /\ preempt[t] \in Nat /\ irq[c] \in BOOLEAN /\ stack[t] \in Seq(Frames)
  BY RunsFacts
<1>2. Depth(t) > 0 /\ Top(t).at \in {"acquire", "irq_save"}
  BY DEF acquire, At
<1>3. PICK u, f : OnTop(c, u, f)
  BY <1>2, RunsFacts
<1>4. /\ f \in Frames /\ MayStand(u, f) /\ preempt[t] - Weight(f) \in Nat /\ (IsRaw(f) => preempt[t] > 0)
      /\ (HasMasked(u) \/ Masked(f) => ~irq[c]) /\ Top(t) = f
  BY <1>3 DEF OnTop, IsSplit
<1>5. IsLock(f) /\ f.lock \in SpinLock
  BY <1>2, <1>4, LockAt DEF IsLock
<1>6. CASE At(c, "acquire")
  <2> DEFINE a == IF Guard[f.lock] = "noirq" THEN "irq_save" ELSE "cas"
             g == Moved(f, a)
             q == IF Guard[f.lock] = "raw" THEN preempt[t] ELSE preempt[t] + 1
  <2>1. /\ g \in Frames /\ g.at = a /\ g.lock = f.lock /\ g.saved = f.saved /\ f.at = "acquire"
        /\ Guard[f.lock] \in {"raw", "nopreempt", "noirq"} /\ f.lock # "irq"
    <3>1. a \in {"irq_save", "cas"} /\ f.at = "acquire"
      BY <1>4, <1>6 DEF At
    <3> HIDE DEF a
    <3> QED BY <1>4, <1>5, <3>1, AtFacts
  <2>2. TopBecomes(c, g, q, irq[c])
    <3>1. preempt' = [preempt EXCEPT ![t] = q] /\ irq' = [irq EXCEPT ![c] = irq[c]] /\ on' = on
      BY <1>4, <1>6, <2>1 DEF acquire, At, GuardInv
    <3>2. stack' = [stack EXCEPT ![t] = [@ EXCEPT ![Depth(t)] = g]]
      BY <1>4, <1>6, <2>1 DEF acquire, Goto, At, Top, Moved
    <3> QED BY <3>1, <3>2 DEF TopBecomes
  <2> HIDE DEF g
  <2>3. MayStand(u, g)
    BY <1>4, <2>1, StandsAlike
  <2>4. Weight(f) = 0 /\ Weight(g) <= q - preempt[t] /\ Weight(g) \in Nat /\ q \in Nat
    BY <1>1, <2>1 DEF Weight, Counted, IsLock
  <2>5. (IsRaw(g) => q > 0) /\ (Masked(g) => Masked(f))
    BY <1>4, <2>1 DEF IsRaw, IsLock, Masked
  <2>6. preempt[t] - Weight(f) + Weight(g) <= q
    BY <1>1, <2>4
  <2> HIDE DEF q
  <2> QED BY <1>1, <1>3, <1>4, <2>1, <2>2, <2>3, <2>4, <2>5, <2>6, TopStep
<1>7. CASE At(c, "irq_save")
  <2> DEFINE g == [f EXCEPT !.at = "cas", !.saved = irq[c]]
  <2>1. g \in Frames /\ g.at = "cas" /\ g.lock = f.lock /\ g.saved = irq[c] /\ f.at = "irq_save"
    BY <1>1, <1>4, <1>5, <1>7 DEF At, Frames, IsLock
  <2>2. TopBecomes(c, g, preempt[t], FALSE)
    BY <1>4, <1>7, <2>1 DEF acquire, At, Top, TopBecomes, GuardInv
  <2> HIDE DEF g
  <2>3. MayStand(u, g)
    BY <1>4, <2>1 DEF MayStand, IsLock
  <2>4. Weight(f) = Weight(g) /\ (IsRaw(g) => preempt[t] > 0)
    BY <1>4, <2>1 DEF Weight, Counted, IsLock, IsRaw
  <2>5. preempt[t] - Weight(f) + Weight(g) <= preempt[t]
    BY <1>1, <2>4 DEF Weight
  <2> QED BY <1>1, <1>3, <1>4, <2>1, <2>2, <2>3, <2>4, <2>5, TopStep
<1> QED BY <1>6, <1>7 DEF acquire

\* The steps of a lock call that change neither the count nor the interrupts:
\* from a step before the release to another.
LEMMA GotoStep ==
    ASSUME GuardInv, GuardAssumption, NEW c \in Cpu, NEW a, NEW b, At(c, a), IsLock(Top(on[c])),
           <<a, b>> \in {<<"cas", "in">>, <<"in", "release">>}, Goto(on[c], b),
           UNCHANGED <<irq, preempt, on>>
    PROVE  GuardInv'
<1> DEFINE t == on[c]
<1>1. t \in GuardTask /\ preempt[t] \in Nat /\ irq[c] \in BOOLEAN /\ stack[t] \in Seq(Frames)
  BY RunsFacts
<1>2. Depth(t) > 0 /\ Top(t).at = a
  BY DEF At
<1>3. PICK u, f : OnTop(c, u, f)
  BY <1>2, RunsFacts
<1>4. /\ f \in Frames /\ MayStand(u, f) /\ preempt[t] - Weight(f) \in Nat /\ (IsRaw(f) => preempt[t] > 0)
      /\ (HasMasked(u) \/ Masked(f) => ~irq[c]) /\ Top(t) = f
  BY <1>3 DEF OnTop, IsSplit
<1> DEFINE g == Moved(f, b)
<1>5. /\ g \in Frames /\ g.at = b /\ g.lock = f.lock /\ g.saved = f.saved /\ f.at = a
      /\ Guard[f.lock] \in {"raw", "nopreempt", "noirq"} /\ f.lock # "irq"
  <2>1. b \in {"in", "release"}
    OBVIOUS
  <2> QED BY <1>2, <1>4, <2>1, AtFacts
<1>6. TopBecomes(c, g, preempt[t], irq[c])
  BY <1>4, <1>5 DEF Goto, Top, TopBecomes, GuardInv, Moved
<1> HIDE DEF g
<1>7. MayStand(u, g)
  BY <1>4, <1>5, StandsAlike
<1>8. Weight(f) = Weight(g) /\ (IsRaw(g) => preempt[t] > 0) /\ (Masked(g) => Masked(f))
  <2>1. a \in {"cas", "in"} /\ b \in {"in", "release"}
    OBVIOUS
  <2> QED BY <1>4, <1>5, <2>1 DEF Weight, Counted, IsLock, IsRaw, Masked
<1>9. preempt[t] - Weight(f) + Weight(g) <= preempt[t]
  BY <1>1, <1>8 DEF Weight
<1> QED BY <1>1, <1>3, <1>4, <1>5, <1>6, <1>7, <1>8, <1>9, TopStep

\* A try_lock that fails leaves its frame, and what was counted for it.
LEMMA TryLockStep ==
    ASSUME GuardInv, GuardAssumption, NEW c \in Cpu, try_lock(c)
    PROVE  GuardInv'
<1> DEFINE t == on[c]
<1>1. t \in GuardTask /\ preempt[t] \in Nat /\ irq[c] \in BOOLEAN
  BY RunsFacts
<1>2. Depth(t) > 0 /\ stack' = [stack EXCEPT ![t] = Below(@)] /\ UNCHANGED <<irq, preempt, on>>
  BY DEF At, try_lock, Pop
<1>3. PICK u, f : OnTop(c, u, f)
  BY <1>2, RunsFacts
<1>4. StackOk(u, preempt[t] - Weight(f)) /\ Below(stack[t]) = u /\ (HasMasked(u) => ~irq[c])
  BY <1>3 DEF OnTop, IsSplit
<1>5. StackOk(u, preempt[t])
  <2>1. preempt[t] - Weight(f) <= preempt[t]
    BY <1>1 DEF Weight
  <2> QED BY <1>1, <1>4, <2>1, StackMore
<1>6. /\ stack' = [stack EXCEPT ![t] = u] /\ preempt' = [preempt EXCEPT ![t] = preempt[t]]
      /\ irq' = [irq EXCEPT ![c] = irq[c]] /\ on' = on
  BY <1>2, <1>4 DEF GuardInv
<1> QED BY <1>1, <1>4, <1>5, <1>6, TaskStep

\* G::release restores the interrupts and enables preemption again.
LEMMA ReleaseStep ==
    ASSUME GuardInv, GuardAssumption, NEW c \in Cpu, release(c)
    PROVE  GuardInv'
<1> DEFINE t == on[c]
<1>1. t \in GuardTask /\ preempt[t] \in Nat /\ irq[c] \in BOOLEAN /\ stack[t] \in Seq(Frames)
  BY RunsFacts
<1>2. Depth(t) > 0 /\ Top(t).at \in {"release", "enable_preempt"}
  BY DEF release, At
<1>3. PICK u, f : OnTop(c, u, f)
  BY <1>2, RunsFacts
<1>4. /\ f \in Frames /\ MayStand(u, f) /\ preempt[t] - Weight(f) \in Nat /\ (IsRaw(f) => preempt[t] > 0)
      /\ StackOk(u, preempt[t] - Weight(f)) /\ Below(stack[t]) = u
      /\ (HasMasked(u) \/ Masked(f) => ~irq[c]) /\ Top(t) = f
  BY <1>3 DEF OnTop, IsSplit
<1>5. IsLock(f) /\ f.lock \in SpinLock
  BY <1>2, <1>4, LockAt DEF IsLock
<1>6. CASE At(c, "release")
  <2> DEFINE g == Moved(f, "enable_preempt")
             b == IF Guard[f.lock] = "noirq" THEN f.saved ELSE irq[c]
  <2>1. /\ g \in Frames /\ g.at = "enable_preempt" /\ g.lock = f.lock /\ g.saved = f.saved
        /\ Guard[f.lock] \in {"raw", "nopreempt", "noirq"} /\ f.lock # "irq" /\ f.at = "release"
    <3>1. f.at = "release"
      BY <1>4, <1>6 DEF At
    <3> QED BY <1>4, <1>5, <3>1, AtFacts
  <2>2. b \in BOOLEAN
    BY <1>1, <1>4, <1>5 DEF Frames, IsLock
  <2>3. TopBecomes(c, g, preempt[t], b)
    <3>1. preempt' = [preempt EXCEPT ![t] = preempt[t]] /\ on' = on /\ irq' = [irq EXCEPT ![c] = b]
      BY <1>4, <1>6, <2>1 DEF release, At, GuardInv
    <3>2. stack' = [stack EXCEPT ![t] = [@ EXCEPT ![Depth(t)] = g]]
      BY <1>4, <1>6, <2>1 DEF release, Goto, At, Top, Moved
    <3> QED BY <3>1, <3>2 DEF TopBecomes
  <2> HIDE DEF g
  <2>4. MayStand(u, g)
    BY <1>4, <2>1, StandsAlike
  <2>5. Weight(f) = Weight(g) /\ (IsRaw(g) => preempt[t] > 0)
    BY <1>4, <2>1 DEF Weight, Counted, IsLock, IsRaw
  <2>6. preempt[t] - Weight(f) + Weight(g) <= preempt[t]
    BY <1>1, <2>5 DEF Weight
  <2>7. HasMasked(u) => ~b
    BY <1>4 DEF MayStand
  <2>8. Masked(g) => ~b
    BY <1>4, <1>5, <2>1 DEF Masked, IsLock
  <2> HIDE DEF b
  <2> QED BY <1>1, <1>3, <1>4, <2>1, <2>2, <2>3, <2>4, <2>5, <2>6, <2>7, <2>8, TopStep
<1>7. CASE At(c, "enable_preempt")
  <2> DEFINE counted == Guard[f.lock] # "raw"
  <2>1. f.at = "enable_preempt" /\ f.lock # "irq"
    BY <1>4, <1>5, <1>7 DEF At, GuardAssumption
  <2>2. EnablePreempt(c, counted, u)
    BY <1>4, <1>7, <2>1 DEF release, At
  <2>3. Weight(f) = IF counted THEN 1 ELSE 0
    BY <1>5, <2>1 DEF Weight, Counted
  <2> HIDE DEF counted
  <2>4. counted \in BOOLEAN
    BY DEF counted
  <2>5. (counted => preempt[t] > 0) /\ StackOk(u, IF counted THEN preempt[t] - 1 ELSE preempt[t])
    <3>1. CASE counted
      BY <1>1, <1>4, <2>3, <3>1
    <3>2. CASE ~counted
      <4>1. preempt[t] - Weight(f) = preempt[t]
        BY <1>1, <2>3, <3>2
      <4> QED BY <1>4, <3>2, <4>1
    <3> QED BY <3>1, <3>2
  <2> QED BY <1>4, <2>2, <2>4, <2>5, EnableStep
<1> QED BY <1>6, <1>7 DEF release

\* An interrupt arrives, is done, and is returned from; the task that was
\* switched to returns from its own switch.
LEMMA InterruptSteps ==
    ASSUME GuardInv, GuardAssumption, NEW c \in Cpu, handle_irq(c) \/ HandlerDone(c) \/ Return(c)
    PROVE  GuardInv'
<1> DEFINE t == on[c]
           s == stack[t]
<1>1. /\ t \in GuardTask /\ preempt[t] \in Nat /\ irq[c] \in BOOLEAN /\ s \in Seq(Frames)
      /\ StackOk(s, preempt[t]) /\ (HasMasked(s) => ~irq[c])
  BY RunsFacts DEF GuardInv
<1>2. CASE handle_irq(c)
  <2> DEFINE f == Frame("irq", "in")
  <2>1. f \in Frames /\ f.lock = "irq" /\ f.at = "in" /\ f.saved = FALSE
    BY DEF Frame, Frames
  <2>2. /\ irq[c] /\ irq' = [irq EXCEPT ![c] = FALSE] /\ preempt' = [preempt EXCEPT ![t] = preempt[t] + 1]
        /\ stack' = [stack EXCEPT ![t] = Append(s, f)] /\ on' = on
    BY <1>2 DEF handle_irq
  <2> HIDE DEF f
  <2>3. ~IsLock(f) /\ ~IsRaw(f) /\ Weight(f) = 1
    BY <2>1 DEF IsLock, IsRaw, Weight, Counted, GuardAssumption
  <2>4. MayStand(s, f)
    BY <1>1, <2>2, <2>3 DEF MayStand
  <2>5. StackOk(Append(s, f), preempt[t] + 1)
    BY <1>1, <2>1, <2>3, <2>4, StackAppend
  <2> QED BY <2>2, <2>5, TaskStep
<1>3. CASE HandlerDone(c) \/ Return(c)
  <2>1. Depth(t) > 0
    BY <1>3 DEF HandlerDone, Return, At
  <2>2. PICK u, f : OnTop(c, u, f)
    BY <2>1, RunsFacts
  <2>3. /\ f \in Frames /\ MayStand(u, f) /\ preempt[t] - Weight(f) \in Nat /\ u \in Seq(Frames)
        /\ StackOk(u, preempt[t] - Weight(f)) /\ Below(s) = u /\ IsSplit(s, preempt[t], u, f)
        /\ (HasMasked(u) => ~irq[c]) /\ Top(t) = f
    BY <2>2 DEF OnTop, IsSplit
  <2>4. CASE HandlerDone(c)
    <3> DEFINE g == [f EXCEPT !.at = "out"]
    <3>1. f.at = "in" /\ f.lock = "irq"
      BY <2>3, <2>4 DEF HandlerDone, At
    <3>2. g \in Frames /\ g.at = "out" /\ g.lock = f.lock /\ g.saved = f.saved
      BY <2>3, <3>1 DEF Frames, GuardAssumption
    <3>3. EnablePreempt(c, TRUE, [s EXCEPT ![Len(s)] = g])
      BY <2>3, <2>4 DEF HandlerDone, Depth, Top
    <3> HIDE DEF g
    <3>4. [s EXCEPT ![Len(s)] = g] = Append(u, g)
      <4>1. s \in Seq(Frames) /\ IsSplit(s, preempt[t], u, f) /\ g \in Frames
        BY <1>1, <2>3, <3>2
      <4> HIDE DEF s
      <4> QED BY <4>1, StackTop
    <3>5. Weight(f) = 1 /\ Weight(g) = 0 /\ ~IsLock(g) /\ ~IsRaw(g) /\ ~Masked(g)
      BY <3>1, <3>2 DEF Weight, Counted, IsLock, IsRaw, Masked, GuardAssumption
    <3>6. MayStand(u, g)
      BY <2>3, <3>2, StandsAlike
    <3>7. preempt[t] > 0 /\ preempt[t] - 1 \in Nat /\ StackOk(u, preempt[t] - 1)
      BY <1>1, <2>3, <3>5
    <3>8. StackOk(Append(u, g), preempt[t] - 1)
      BY <3>2, <3>5, <3>6, <3>7, StackAppend
    <3>9. HasMasked(Append(u, g)) => ~irq[c]
      BY <2>3, <3>2, <3>5, MaskedAppend
    <3>10. EnablePreempt(c, TRUE, Append(u, g))
      BY <3>3, <3>4
    <3>11. StackOk(Append(u, g), IF TRUE THEN preempt[t] - 1 ELSE preempt[t])
      BY <3>8
    <3> QED BY <3>7, <3>9, <3>10, <3>11, EnableStep
  <2>5. CASE Return(c)
    <3> DEFINE b == f.lock = "irq" \/ f.saved
    <3>1. /\ f.at = "out" /\ stack' = [stack EXCEPT ![t] = u] /\ irq' = [irq EXCEPT ![c] = b]
          /\ UNCHANGED <<preempt, on>>
      BY <2>3, <2>5 DEF Return, At, Pop
    <3>2. Weight(f) = 0
      BY <2>3, <3>1, LockAt DEF Weight
    <3>3. b \in BOOLEAN
      BY <2>3 DEF Frames
    <3>4. HasMasked(u) => ~b
      BY <2>3 DEF MayStand
    <3>5. StackOk(u, preempt[t]) /\ preempt' = [preempt EXCEPT ![t] = preempt[t]]
      BY <1>1, <2>3, <3>1, <3>2 DEF GuardInv
    <3> HIDE DEF b
    <3> QED BY <3>1, <3>3, <3>4, <3>5, TaskStep
  <2> QED BY <1>3, <2>4, <2>5
<1> QED BY <1>2, <1>3

\* The CPUs start in their first tasks, with interrupts and preemption enabled.
LEMMA GuardInit == GuardAssumption /\ Init => GuardInv
<1> SUFFICES ASSUME GuardAssumption, Init PROVE GuardInv
  OBVIOUS
<1>1. \A c \in Cpu : on[c] \in GuardTask /\ HomeCpu[on[c]] = c
  BY DEF Init, GuardAssumption
<1>2. irq \in [Cpu -> BOOLEAN] /\ on \in [Cpu -> GuardTask] /\ preempt \in [GuardTask -> Nat]
      /\ DOMAIN stack = GuardTask
  BY <1>1 DEF Init
<1>3. StackOk(<< >>, 0) /\ ~HasMasked(<< >>)
  <2>1. << >> \in Seq(Frames) /\ Len(<< >>) = 0
    OBVIOUS
  <2>2. {j \in 1..0 : Counted(<< >>[j])} = {}
    OBVIOUS
  <2>3. CountFrom(<< >>, 1) = 0
    BY <2>1, <2>2, FS_EmptySet DEF CountFrom
  <2> QED BY <2>1, <2>3 DEF StackOk, HasMasked
<1>4. StackOk(<<SwitchedOut(TRUE)>>, 0)
  <2> DEFINE f == SwitchedOut(TRUE)
  <2>1. f \in Frames /\ ~IsLock(f) /\ ~IsRaw(f) /\ Weight(f) = 0
    BY SwitchedFacts
  <2> HIDE DEF f
  <2>2. PICK e : e = << >>
    OBVIOUS
  <2>3. StackOk(e, 0) /\ MayStand(e, f)
    BY <1>3, <2>1, <2>2 DEF MayStand
  <2>5. StackOk(Append(e, f), 0)
    BY <2>1, <2>3, StackAppend
  <2>6. Append(e, f) = <<f>>
    BY <2>2
  <2> QED BY <2>5, <2>6 DEF f
<1>5. \A t \in GuardTask : StackOk(stack[t], preempt[t]) /\ preempt[t] = 0
  BY <1>3, <1>4 DEF Init
<1>6. \A c \in Cpu : stack[on[c]] = << >>
  BY <1>1 DEF Init
<1> QED BY <1>1, <1>2, <1>3, <1>5, <1>6 DEF GuardInv

\* Every step of every CPU keeps the invariant.
LEMMA GuardNext == GuardAssumption /\ GuardInv /\ [Next]_vars => GuardInv'
<1> SUFFICES ASSUME GuardAssumption, GuardInv, [Next]_vars PROVE GuardInv'
  OBVIOUS
<1>1. ASSUME NEW c \in Cpu, CompareExchange(c) PROVE GuardInv'
  <2>1. At(c, "cas") /\ Goto(on[c], "in") /\ UNCHANGED <<irq, preempt, on>>
    BY <1>1 DEF CompareExchange
  <2>2. IsLock(Top(on[c]))
    <3>1. Depth(on[c]) > 0 /\ Top(on[c]).at = "cas"
      BY <2>1 DEF At
    <3>2. PICK u, f : OnTop(c, u, f)
      BY <3>1, RunsFacts
    <3>3. f \in Frames /\ Top(on[c]) = f
      BY <3>2 DEF OnTop, IsSplit
    <3> QED BY <3>1, <3>3, LockAt
  <2> QED BY <2>1, <2>2, GotoStep
<1>2. ASSUME NEW c \in Cpu, drop(c) PROVE GuardInv'
  <2>1. At(c, "in") /\ IsLock(Top(on[c])) /\ Goto(on[c], "release") /\ UNCHANGED <<irq, preempt, on>>
    BY <1>2 DEF drop, IsLock
  <2> QED BY <2>1, GotoStep
<1>3. CASE UNCHANGED vars
  BY <1>3 DEF vars, GuardInv
<1> QED
  BY <1>1, <1>2, <1>3, AcquireStep, TryLockStep, ReleaseStep, InterruptSteps, LockStep DEF Next

\* For any number of CPUs, tasks and locks of all three kinds, however deep the
\* calls nest and with try_locks that fail: when the locks are used as their
\* docs say, no two calls of one CPU are both at or past the compare_exchange
\* of one lock, be it a task and the handler that interrupted it, or two tasks
\* one of which was preempted.
THEOREM GuardSafety == ASSUME GuardAssumption PROVE Spec => []NoSelfDeadlock
<1>1. ASSUME GuardInv PROVE NoSelfDeadlock
  <2> SUFFICES ASSUME NEW t \in GuardTask, NEW u \in GuardTask, HomeCpu[t] = HomeCpu[u],
                      NEW i \in 1..Depth(t), NEW j \in 1..Depth(u),
                      stack[t][i].lock = stack[u][j].lock, stack[t][i].lock \in SpinLock,
                      stack[t][i].at \in {"cas", "in"}, stack[u][j].at \in {"cas", "in"}
               PROVE  t = u /\ i = j
    BY DEF NoSelfDeadlock
  <2>1. Inside(stack[t][i]) /\ Inside(stack[u][j])
    BY DEF Inside, IsLock
  <2>2. ASSUME NEW v \in GuardTask, NEW k \in 1..Depth(v), Inside(stack[v][k]) PROVE v = on[HomeCpu[v]]
    <3> DEFINE s == stack[v]
    <3>1. StackOk(s, preempt[v])
      BY <1>1 DEF GuardInv
    <3>2. s \in Seq(Frames) /\ Len(s) \in Nat /\ k \in 1..Len(s)
      BY <3>1 DEF StackOk, Depth
    <3>3. ASSUME NEW m \in 1..Len(s) PROVE CountFrom(s, m) \in Nat /\ (m <= k /\ Counted(s[k]) => CountFrom(s, m) > 0)
      <4>1. m \in Nat /\ (m <= k => k \in m..Len(s))
        BY <3>2
      <4> QED BY <3>2, <4>1, CountNat, Zenon
    <3>4. preempt[v] # 0
      <4>1. CASE IsRaw(s[k])
        <5>1. CountFrom(s, k) < preempt[v] /\ preempt[v] \in Nat
          BY <3>1, <3>2, <4>1 DEF StackOk
        <5> QED BY <3>2, <3>3, <5>1
      <4>2. CASE ~IsRaw(s[k])
        <5>1. Counted(s[k])
          BY <2>2, <4>2 DEF Counted, IsRaw, Inside
        <5>2. CountFrom(s, 1) <= preempt[v]
          BY <3>1, Zenon DEF StackOk
        <5>3. 1 \in 1..Len(s) /\ 1 <= k
          BY <3>2
        <5>4. CountFrom(s, 1) > 0 /\ CountFrom(s, 1) \in Nat
          BY <3>3, <5>1, <5>3
        <5> QED BY <5>2, <5>4
      <4> QED BY <4>1, <4>2
    <3> QED BY <1>1, <3>4 DEF GuardInv
  <2>3. t = u
    BY <2>1, <2>2
  <2>4. i = j
    <3>1. StackOk(stack[t], preempt[t]) /\ IsLock(stack[t][i]) /\ IsLock(stack[t][j])
      BY <1>1, <2>1, <2>3 DEF GuardInv, Inside
    <3>2. stack[t] \in Seq(Frames)
      BY <3>1 DEF StackOk
    <3>3. i \in 1..Len(stack[t]) /\ j \in 1..Len(stack[t]) /\ i \in Nat /\ j \in Nat
      BY <2>3, <3>2 DEF Depth
    <3>4. ~(i < j)
      BY <2>1, <2>3, <3>1, <3>3 DEF StackOk
    <3>5. ~(j < i)
      BY <2>1, <2>3, <3>1, <3>3 DEF StackOk
    <3> QED BY <3>3, <3>4, <3>5
  <2> QED BY <2>3, <2>4
<1> QED BY <1>1, GuardInit, GuardNext, PTL DEF Spec
=============================================================================
