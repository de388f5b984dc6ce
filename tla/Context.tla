------------------------------ MODULE Context -------------------------------
(***************************************************************************)
(* Saved contexts: TaskContext of the three architectures (axhal arch/),   *)
(* with the floating-point state, the thread-local storage of a task       *)
(* (axhal tls.rs) and setjmp and longjmp of axlibc. Memory is counted in   *)
(* words of 8 bytes. Each task fills the registers with values of its own; *)
(* a value names its task, its register and the round of work. What is     *)
(* dead (the words below a stack pointer, the context of the running task, *)
(* a buffer whose function returned) is forgotten: nothing may use it.     *)
(***************************************************************************)
EXTENDS Integers, Sequences

CONSTANTS CtxTask, BootTask,
          Rounds,           \* how often the registers of a task change
          MaxFrames,        \* bound: words a task pushes
          TdataWords, TbssWords,
          TlsPadding,       \* words from the end of .tdata to the next page
          NIL               \* zero, and memory never written

VARIABLES cpu_arch, fp_simd,    \* the build
          running,              \* the task on the CPU
          cpu,                  \* its registers
          ctx, fpstate,         \* TaskContext of each task
          stack, tls,           \* memory: the words of stacks and TLS areas
          jmp_buf,
          round, frames,        \* what each task last did (ghost)
          tlsround, float,
          jumped                \* round and frames at setjmp; NIL without one

vars == <<cpu_arch, fp_simd, running, cpu, ctx, fpstate, stack, tls, jmp_buf, round, frames, tlsround, float, jumped>>

STACK == MaxFrames + 16
General == CASE cpu_arch = "x86_64" -> {"rbx", "rbp", "r12", "r13", "r14", "r15"}
             [] cpu_arch = "aarch64" -> 19..29
             [] cpu_arch = "riscv64" -> 0..11
Float == CASE ~fp_simd -> {}
           [] cpu_arch = "x86_64" -> {"fx"}
           [] cpu_arch = "aarch64" -> 0..33         \* V0..V31, FPCR, FPSR
           [] cpu_arch = "riscv64" -> 0..11         \* fs0..fs11
Zero(S) == [r \in S |-> NIL]

-----------------------------------------------------------------------------
\* tls.rs: the layout, in words.
TLS_ALIGN == 2
TCB_SIZE == IF cpu_arch = "x86_64" THEN 1 ELSE 0
GAP_ABOVE_TP == IF cpu_arch = "aarch64" THEN 2 ELSE 0
align_up(n) == ((n + TLS_ALIGN - 1) \div TLS_ALIGN) * TLS_ALIGN
TlsLoadSize == TdataWords + TbssWords
static_tls_size == align_up(TlsLoadSize)
static_tls_offset == IF cpu_arch = "x86_64" THEN 0 ELSE TCB_SIZE + GAP_ABOVE_TP
tp_offset == IF cpu_arch = "x86_64" THEN static_tls_size ELSE TCB_SIZE
tls_area_size == IF cpu_arch = "x86_64" THEN static_tls_size + TCB_SIZE
                 ELSE TCB_SIZE + GAP_ABOVE_TP + static_tls_size

\* The image from _stdata to _etbss, as it lies in memory: .tbss takes no room
\* there, and what is read for it is the padding up to the next page and then,
\* if it is longer, the start of .percpu, whatever it holds by now.
TlsImage(k) == CASE k < TdataWords -> <<"tdata", k>>
                 [] k \in TdataWords..TdataWords + TlsPadding - 1 -> NIL
                 [] OTHER -> <<"percpu", k>>
init_tcb(t, area) == IF cpu_arch = "x86_64" THEN [area EXCEPT ![tp_offset] = <<t, tp_offset>>] ELSE area
TlsArea(t) ==
    init_tcb(t, [i \in 0..tls_area_size - 1 |->
                    IF i \in static_tls_offset..static_tls_offset + TlsLoadSize - 1
                    THEN TlsImage(i - static_tls_offset) ELSE NIL])
tls_ptr(t) == <<t, tp_offset>>

\* Where the compiler finds the variable at k: below the thread pointer on
\* x86_64, above it on the others, after 16 bytes on aarch64.
TlsAddr(tp, k) ==
    <<tp[1], CASE cpu_arch = "x86_64" -> tp[2] - static_tls_size + k
               [] cpu_arch = "aarch64" -> tp[2] + 2 + k
               [] cpu_arch = "riscv64" -> tp[2] + k>>

-----------------------------------------------------------------------------
\* A new context: x86_64 keeps RSP and fs_base in it and the registers in a
\* ContextSwitchFrame on the stack, with a word above it so that the stack is
\* aligned; the others keep all in TaskContext, in the order of its fields.
InitX86(t) == [rsp |-> <<t, STACK - 1 - 7>>, fs_base |-> tls_ptr(t)]
ContextSwitchFrame == [r15 |-> 0, r14 |-> 1, r13 |-> 2, r12 |-> 3, rbx |-> 4, rbp |-> 5, rip |-> 6]
InitStackX86(t) == [i \in 0..STACK - 1 |-> IF i = STACK - 8 + ContextSwitchFrame.rip THEN "entry" ELSE NIL]
InitAarch64(t) == [i \in 0..13 |-> CASE i = 0 -> <<t, STACK>> [] i = 13 -> "entry"
                                     [] i = 1 -> tls_ptr(t) [] OTHER -> NIL]
InitRiscv(t) == [i \in 0..14 |-> CASE i = 1 -> <<t, STACK>> [] i = 0 -> "entry"
                                   [] i = 14 -> tls_ptr(t) [] OTHER -> NIL]
InitContext(t) == CASE cpu_arch = "x86_64" -> InitX86(t)
                    [] cpu_arch = "aarch64" -> InitAarch64(t)
                    [] cpu_arch = "riscv64" -> InitRiscv(t)
BaseFrames == IF cpu_arch = "x86_64" THEN 1 ELSE 0

\* The floating-point state in memory: the FXSAVE area as one, or FpState with
\* V0..V31 of two words each before FPCR and FPSR. riscv64 does not switch it.
FpSavedAarch64(f) == [w \in {2 * v : v \in 0..31} \cup {64, 65} |-> IF w >= 64 THEN f[w - 32] ELSE f[w \div 2]]
FpLoadedAarch64(m) == [v \in 0..33 |-> IF v >= 32 THEN m[v + 32] ELSE m[2 * v]]
FpSaved(f) == IF cpu_arch = "aarch64" /\ fp_simd THEN FpSavedAarch64(f) ELSE f
FpLoaded(m) == CASE cpu_arch = "riscv64" -> cpu.f
                 [] cpu_arch = "aarch64" /\ fp_simd -> FpLoadedAarch64(m)
                 [] OTHER -> m

\* The boot task takes over what runs; TaskInner::new makes the others.
Init ==
    /\ cpu_arch \in {"x86_64", "aarch64", "riscv64"} /\ fp_simd \in BOOLEAN
    /\ running = BootTask
    /\ cpu = [sp |-> <<BootTask, STACK - BaseFrames>>, tp |-> tls_ptr(BootTask), pc |-> "entry",
              r |-> Zero(General), f |-> Zero(Float)]
    /\ ctx = [t \in CtxTask |-> NIL] /\ fpstate = [t \in CtxTask |-> FpSaved(Zero(Float))]
    /\ stack = [t \in CtxTask |-> [i \in 0..STACK - 1 |-> NIL]]
    /\ tls = [t \in CtxTask |-> IF t = BootTask THEN TlsArea(t) ELSE NIL]
    /\ jmp_buf = [t \in CtxTask |-> NIL] /\ jumped = [t \in CtxTask |-> NIL]
    /\ round = [t \in CtxTask |-> 0] /\ frames = [t \in CtxTask |-> BaseFrames]
    /\ tlsround = [t \in CtxTask |-> 0] /\ float = [t \in CtxTask |-> Zero(Float)]
Build == <<cpu_arch, fp_simd>>
Ghosts == <<round, frames, tlsround, float, jumped>>

new(t) ==
    /\ tls[t] = NIL
    /\ ctx' = [ctx EXCEPT ![t] = InitContext(t)] /\ tls' = [tls EXCEPT ![t] = TlsArea(t)]
    /\ stack' = IF cpu_arch = "x86_64" THEN [stack EXCEPT ![t] = InitStackX86(t)] ELSE stack
    /\ UNCHANGED <<Build, running, cpu, fpstate, jmp_buf, Ghosts>>

-----------------------------------------------------------------------------
\* context_switch: <<the context of t saved, the stack of t, the registers for
\* the context c of u>>. On x86_64 the call has pushed the return address,
\* which ret takes; fs_base was switched before. On riscv64 tp was.
Pushed == <<"rip", "rbp", "rbx", "r12", "r13", "r14", "r15">>
\* Variant: the registers are taken off the stack in the order of the pushes.
PoppedAsPushed == <<"rbp", "rbx", "r12", "r13", "r14", "r15", "rip">>
Popped == <<"r15", "r14", "r13", "r12", "rbx", "rbp", "rip">>
SwitchX86(t, u) ==
    LET word(r) == IF r = "rip" THEN cpu.pc ELSE cpu.r[r]
        top == cpu.sp[2]
        at(k) == stack[u][ctx[u].rsp[2] + k - 1]
        popped == [r \in {Popped[k] : k \in 1..7} |-> at(CHOOSE k \in 1..7 : Popped[k] = r)]
    IN  <<[rsp |-> <<t, top - 7>>, fs_base |-> cpu.tp],
          [i \in 0..STACK - 1 |-> IF i \in top - 7..top - 1 THEN word(Pushed[top - i]) ELSE stack[t][i]],
          [sp |-> <<u, ctx[u].rsp[2] + 7>>, tp |-> ctx[u].fs_base, pc |-> popped["rip"],
           r |-> [r \in General |-> popped[r]], f |-> cpu.f]>>
SwitchAarch64(t, u) ==
    LET c == ctx[u]
    IN  <<[i \in 0..13 |-> CASE i = 0 -> cpu.sp [] i = 1 -> cpu.tp [] i = 13 -> cpu.pc
                             [] OTHER -> cpu.r[i + 17]],
          stack[t],
          [sp |-> c[0], tp |-> c[1], pc |-> c[13], r |-> [x \in 19..29 |-> c[x - 17]], f |-> cpu.f]>>
SwitchRiscv(t, u) ==
    LET c == ctx[u]
    IN  <<[i \in 0..14 |-> CASE i = 0 -> cpu.pc [] i = 1 -> cpu.sp [] i = 14 -> cpu.tp
                             [] OTHER -> cpu.r[i - 2]],
          stack[t],
          [sp |-> c[1], tp |-> c[14], pc |-> c[0], r |-> [s \in 0..11 |-> c[s + 2]], f |-> cpu.f]>>

Below(words, sp) == [i \in 0..STACK - 1 |-> IF i < sp THEN NIL ELSE words[i]]

\* The whole of switch_to, with the floating-point state.
switch_to(u) ==
    LET t == running
        s == CASE cpu_arch = "x86_64" -> SwitchX86(t, u)
               [] cpu_arch = "aarch64" -> SwitchAarch64(t, u)
               [] cpu_arch = "riscv64" -> SwitchRiscv(t, u)
    IN  /\ u # t /\ ctx[u] # NIL /\ running' = u
        /\ fpstate' = [fpstate EXCEPT ![t] = FpSaved(cpu.f), ![u] = FpSaved(Zero(Float))]
        /\ ctx' = [ctx EXCEPT ![t] = s[1], ![u] = NIL]
        /\ stack' = [stack EXCEPT ![t] = s[2], ![u] = Below(@, s[3].sp[2])]
        /\ cpu' = [s[3] EXCEPT !.f = FpLoaded(fpstate[u])]
        /\ float' = IF cpu_arch = "riscv64" THEN [float EXCEPT ![u] = cpu.f] ELSE float
        /\ UNCHANGED <<Build, tls, jmp_buf, round, frames, tlsround, jumped>>

-----------------------------------------------------------------------------
\* What a task does between switches: it changes its registers, calls and
\* returns, and writes its thread-local variables.
Mine(t, r, n) == IF n = 0 THEN NIL ELSE <<t, r, n>>
Work ==
    LET t == running
        n == (round[t] % Rounds) + 1
    IN  /\ cpu' = [cpu EXCEPT !.pc = <<t, "pc", n>>, !.r = [r \in General |-> Mine(t, r, n)],
                              !.f = [r \in Float |-> Mine(t, r, n)]]
        /\ round' = [round EXCEPT ![t] = n] /\ float' = [float EXCEPT ![t] = cpu'.f]
        /\ UNCHANGED <<Build, running, ctx, fpstate, stack, tls, jmp_buf, frames, tlsround, jumped>>
Push ==
    LET t == running
    IN  /\ frames[t] < MaxFrames /\ frames' = [frames EXCEPT ![t] = @ + 1]
        /\ cpu' = [cpu EXCEPT !.sp[2] = @ - 1]
        /\ stack' = [stack EXCEPT ![cpu.sp[1]][cpu.sp[2] - 1] = <<t, frames[t] + 1>>]
        /\ UNCHANGED <<Build, running, ctx, fpstate, tls, jmp_buf, round, tlsround, float, jumped>>
\* A return from the function that called setjmp ends the use of its buffer.
Pop ==
    LET t == running
    IN  /\ frames[t] > BaseFrames /\ frames' = [frames EXCEPT ![t] = @ - 1]
        /\ cpu' = [cpu EXCEPT !.sp[2] = @ + 1]
        /\ stack' = [stack EXCEPT ![t] = Below(@, cpu.sp[2] + 1)]
        /\ IF jumped[t] # NIL /\ jumped[t][2] = frames[t]
           THEN jumped' = [jumped EXCEPT ![t] = NIL] /\ jmp_buf' = [jmp_buf EXCEPT ![t] = NIL]
           ELSE UNCHANGED <<jumped, jmp_buf>>
        /\ UNCHANGED <<Build, running, ctx, fpstate, tls, round, tlsround, float>>
TlsWrite ==
    LET t == running
        n == (tlsround[t] % Rounds) + 1
        put(area, k) == [area EXCEPT ![TlsAddr(cpu.tp, k)[1]][TlsAddr(cpu.tp, k)[2]] = <<t, "tls", k, n>>]
        written[k \in 0..TlsLoadSize] == IF k = 0 THEN tls ELSE put(written[k - 1], k - 1)
    IN  /\ tls' = written[TlsLoadSize] /\ tlsround' = [tlsround EXCEPT ![t] = n]
        /\ UNCHANGED <<Build, running, cpu, ctx, fpstate, stack, jmp_buf, round, frames, float, jumped>>

-----------------------------------------------------------------------------
\* setjmp: the slots of the buffer. On x86_64 the stack pointer after the
\* return and the return address come last; on aarch64 word 12 is unused.
CalleeFloat == CASE cpu_arch = "x86_64" -> {} [] cpu_arch = "aarch64" -> Float \cap 8..15
                 [] cpu_arch = "riscv64" -> Float
JmpX86 == <<"rbx", "rbp", "r12", "r13", "r14", "r15">>
SetjmpX86 == [i \in 0..7 |-> CASE i = 6 -> cpu.sp [] i = 7 -> cpu.pc [] OTHER -> cpu.r[JmpX86[i + 1]]]
SetjmpAarch64 == [i \in (0..11) \cup {13} \cup {v + 6 : v \in CalleeFloat} |->
                     CASE i <= 10 -> cpu.r[19 + i] [] i = 11 -> cpu.pc [] i = 13 -> cpu.sp [] OTHER -> cpu.f[i - 6]]
SetjmpRiscv == [i \in (0..13) \cup {v + 14 : v \in CalleeFloat} |->
                   CASE i <= 11 -> cpu.r[i] [] i = 12 -> cpu.sp [] i = 13 -> cpu.pc [] OTHER -> cpu.f[i - 14]]
setjmp ==
    LET t == running
    IN  /\ jmp_buf' = [jmp_buf EXCEPT ![t] = CASE cpu_arch = "x86_64" -> SetjmpX86
                                               [] cpu_arch = "aarch64" -> SetjmpAarch64
                                               [] cpu_arch = "riscv64" -> SetjmpRiscv]
        /\ jumped' = [jumped EXCEPT ![t] = <<round[t], frames[t], cpu.f>>]
        /\ UNCHANGED <<Build, running, cpu, ctx, fpstate, stack, tls, round, frames, tlsround, float>>

\* longjmp, to a function that is still active. The value it returns, which is
\* never 0, is left out.
FloatFrom(f, g) == [v \in Float |-> IF v \in CalleeFloat THEN f[v] ELSE g[v]]
LongjmpX86(b) == [cpu EXCEPT !.sp = b[6], !.pc = b[7],
                             !.r = [r \in General |-> b[(CHOOSE k \in 1..6 : JmpX86[k] = r) - 1]]]
LongjmpAarch64(b) == [cpu EXCEPT !.sp = b[13], !.pc = b[11], !.r = [x \in 19..29 |-> b[x - 19]],
                                 !.f = FloatFrom([v \in CalleeFloat |-> b[v + 6]], @)]
LongjmpRiscv(b) == [cpu EXCEPT !.sp = b[12], !.pc = b[13], !.r = [s \in 0..11 |-> b[s]],
                               !.f = FloatFrom([v \in CalleeFloat |-> b[v + 14]], @)]
longjmp ==
    LET t == running
        b == jmp_buf[t]
    IN  /\ jumped[t] # NIL
        /\ cpu' = CASE cpu_arch = "x86_64" -> LongjmpX86(b) [] cpu_arch = "aarch64" -> LongjmpAarch64(b)
                    [] cpu_arch = "riscv64" -> LongjmpRiscv(b)
        /\ round' = [round EXCEPT ![t] = jumped[t][1]] /\ frames' = [frames EXCEPT ![t] = jumped[t][2]]
        /\ float' = [float EXCEPT ![t] = FloatFrom(jumped[t][3], cpu.f)]
        /\ stack' = [stack EXCEPT ![t] = Below(@, STACK - jumped[t][2])]
        /\ UNCHANGED <<Build, running, ctx, fpstate, tls, jmp_buf, tlsround, jumped>>

Next == \/ \E u \in CtxTask : new(u) \/ switch_to(u)
        \/ Work \/ Push \/ Pop \/ TlsWrite \/ setjmp \/ longjmp

-----------------------------------------------------------------------------
\* After every switch the running task finds its registers, its place, its
\* stack pointer and its thread pointer as it left them, and after longjmp those
\* that setjmp saves as they were there, on every architecture; a new one starts
\* at its entry with the stack aligned; and no switch changes a word of the stack
\* in use or a thread-local variable of any task. x86_64 and aarch64 keep the
\* floating-point state too; riscv64 does not, and of its floating-point registers
\* only what longjmp restores is claimed. The variables start with their values of
\* .tdata or with zero, as long as .tbss ends in the page of .tdata: a longer one
\* starts with what .percpu holds.
ContextsKept ==
    LET t == running
    IN  /\ \A r \in General : cpu.r[r] = Mine(t, r, round[t])
        /\ cpu.pc = (IF round[t] = 0 THEN "entry" ELSE <<t, "pc", round[t]>>)
        /\ cpu.f = float[t]
        /\ cpu.sp = <<t, STACK - frames[t]>> /\ cpu.tp = tls_ptr(t)
        /\ \A u \in CtxTask : \A i \in BaseFrames + 1..frames[u] : stack[u][STACK - i] = <<u, i>>
        /\ \A u \in CtxTask : tls[u] # NIL =>
              \A k \in 0..TlsLoadSize - 1 :
                 LET word == tls[u][TlsAddr(tls_ptr(u), k)[2]]
                 IN  IF tlsround[u] # 0 THEN word = <<u, "tls", k, tlsround[u]>>
                     ELSE k < TdataWords + TlsPadding => word = (IF k < TdataWords THEN <<"tdata", k>> ELSE NIL)

=============================================================================
