------------------------------- MODULE Errno --------------------------------
(***************************************************************************)
(* How a C program learns what a call did: the POSIX layer turns a Rust    *)
(* result into a number (syscall_body!, errors as negated Linux codes), a  *)
(* libc wrapper turns that number into -1 and errno (utils.rs e), getcwd   *)
(* passes it on as it is, getaddrinfo translates it again, and strerror    *)
(* gives the words. `last`, `mine` and `disturbed` are history: what the   *)
(* last call of each thread really did, the code of its last call that     *)
(* failed, and the threads whose errno was written since for another       *)
(* reason: by a failure of another thread, where they share it, or for a   *)
(* number too large for c_int that came out negative.                      *)
(***************************************************************************)
EXTENDS Integers, SequencesExt

CONSTANTS Caller,           \* the threads of the program
          Calls,            \* what each of them calls
          Features,         \* builds: TRUE with feature "tls"
          IntBits,          \* width of c_int
          Counts,           \* sizes, offsets and descriptors the kernel returns
          Failures,         \* errors the kernel returns, of AxError or LinuxError
          Vectors,          \* sequences of parts given to writev, by size
          NameLists,        \* numbers of addresses a name resolves to
          MAXADDRS,
          Explained,        \* codes the program asks strerror about
          NIL

VARIABLES tls, errno, strerror_buf,
          call,             \* the number the POSIX layer returned to the wrapper
          result,           \* what the last call returned
          addrs,            \* the addrinfo list each thread holds, by length
          heap,             \* aibufs allocated
          last, mine, disturbed

vars == <<tls, errno, strerror_buf, call, result, addrs, heap, last, mine, disturbed>>

-----------------------------------------------------------------------------
\* errno.h, as build.rs generates LinuxError from it; the codes used here.
Linux == [EPERM |-> 1, ENOENT |-> 2, EINTR |-> 4, EIO |-> 5, EBADF |-> 9, EAGAIN |-> 11,
          ENOMEM |-> 12, EACCES |-> 13, EFAULT |-> 14, EBUSY |-> 16, EEXIST |-> 17,
          ENOTDIR |-> 20, EISDIR |-> 21, EINVAL |-> 22, EMFILE |-> 24, ENOSPC |-> 28,
          ERANGE |-> 34, EDEADLK |-> 35, ENOSYS |-> 38, ENOTEMPTY |-> 39, EOPNOTSUPP |-> 95,
          EADDRINUSE |-> 98, ECONNRESET |-> 104, EISCONN |-> 106, ENOTCONN |-> 107,
          ECONNREFUSED |-> 111]

\* From<AxError> for LinuxError.
FromAx == [AddrInUse |-> "EADDRINUSE", AlreadyExists |-> "EEXIST", BadAddress |-> "EFAULT",
           BadState |-> "EFAULT", ConnectionRefused |-> "ECONNREFUSED",
           ConnectionReset |-> "ECONNRESET", DirectoryNotEmpty |-> "ENOTEMPTY",
           InvalidInput |-> "EINVAL", InvalidData |-> "EINVAL", Io |-> "EIO",
           IsADirectory |-> "EISDIR", NoMemory |-> "ENOMEM", NotADirectory |-> "ENOTDIR",
           NotConnected |-> "ENOTCONN", NotFound |-> "ENOENT", PermissionDenied |-> "EACCES",
           ResourceBusy |-> "EBUSY", StorageFull |-> "ENOSPC", Unsupported |-> "ENOSYS",
           UnexpectedEof |-> "EIO", WriteZero |-> "EIO", WouldBlock |-> "EAGAIN"]
AxError == DOMAIN FromAx
Code(err) == Linux[IF err \in AxError THEN FromAx[err] ELSE err]

Ok(v) == [ok |-> TRUE, v |-> v]
Err(err) == [ok |-> FALSE, v |-> Code(err)]
Answers(vs) == {Ok(v) : v \in vs} \cup {Err(err) : err \in Failures}

syscall_body(res) == IF res.ok THEN res.v ELSE -res.v

-----------------------------------------------------------------------------
\* What calls of the POSIX layer answer, from their arguments.
from_sockaddr(null, len, family) ==
    IF null THEN Err("EFAULT")
    ELSE IF len # 16 \/ family # "AF_INET" THEN Err("EINVAL") ELSE Ok(0)
\* The name is copied out once both pointers and the length are checked.
sys_getsockname(null, len, bound) ==
    CASE null -> Err("EFAULT") [] ~null /\ len < 16 -> Err("EINVAL") [] OTHER -> bound
\* shutdown needs a peer first, as getpeername does.
sys_getpeername(null, len, peer) ==
    CASE null -> Err("EFAULT") [] ~null /\ len < 16 -> Err("EINVAL") [] OTHER -> peer
shutdown(peer) == peer
sys_stat(null, opened) == IF null THEN Err("EFAULT") ELSE opened
\* A sleep of exactly the time asked for counts as interrupted.
sys_nanosleep(valid, dur, actual) ==
    IF ~valid THEN Err("EINVAL") ELSE IF actual <= dur THEN Err("EINTR") ELSE Ok(0)
sys_getrlimit(resource) ==
    IF resource \in {"DATA", "STACK", "NOFILE"} THEN Ok(0) ELSE Err("EINVAL")
sys_setrlimit(resource) == sys_getrlimit(resource)
\* The path and its NUL must fit.
sys_getcwd(null, len, size) ==
    IF null THEN Ok(0) ELSE IF len < size THEN Ok(1) ELSE Err("ERANGE")

StatusAnswers ==
    {from_sockaddr(n, l, f) : n \in BOOLEAN, l \in {8, 16}, f \in {"AF_INET", "AF_INET6"}}
        \cup {sys_getsockname(n, l, b) : n \in BOOLEAN, l \in {8, 16}, b \in Answers({0})}
        \cup {sys_getpeername(n, l, shutdown(p)) : n \in BOOLEAN, l \in {8, 16}, p \in Answers({0})}
        \cup {sys_stat(n, o) : n \in BOOLEAN, o \in Answers({0})}
        \cup {sys_nanosleep(v, 1, a) : v \in BOOLEAN, a \in {1, 2}}
        \cup {sys_getrlimit(r) : r \in {"STACK", "CORE"}} \cup {sys_setrlimit("CORE")}

\* The wrappers that hand their number to e(), a ssize_t or an off_t after
\* converting it to c_int. Numbered: those whose number means more than 0; Sized:
\* those of them whose number is such a size or offset.
fd_calls == {"close", "dup", "dup2", "ax_fcntl"}
thread_calls == {"pthread_create", "pthread_join", "pthread_mutex_init", "pthread_mutex_lock",
                 "pthread_mutex_unlock"}
mpx_calls == {"epoll_create", "epoll_ctl", "epoll_wait", "select"}
fs_calls == {"ax_open", "stat", "fstat", "lstat", "rename", "lseek"}
io_calls == {"read", "write"}
net_calls == {"socket", "bind", "connect", "listen", "accept", "shutdown", "getsockname",
              "getpeername", "send", "sendto", "recv", "recvfrom"}
time_calls == {"clock_gettime", "nanosleep"}
Numbered == {"epoll_create", "epoll_wait", "select", "ax_open", "lseek", "read", "write", "dup",
             "dup2", "ax_fcntl", "socket", "accept", "send", "sendto", "recv", "recvfrom"}
Sized == {"lseek", "read", "write", "send", "sendto", "recv", "recvfrom"}
Wrappers == fd_calls \cup thread_calls \cup mpx_calls \cup fs_calls \cup io_calls \cup net_calls
                \cup time_calls

-----------------------------------------------------------------------------
Init ==
    /\ tls \in Features /\ errno = [l \in Caller \cup {NIL} |-> 0]
    /\ strerror_buf = << >> /\ call = [t \in Caller |-> NIL]
    /\ result = [t \in Caller |-> 0] /\ addrs = [t \in Caller |-> 0] /\ heap = 0
    /\ last = [t \in Caller |-> NIL] /\ mine = [t \in Caller |-> 0] /\ disturbed = {}

LocationShared(t) == NIL
\* __errno_location: thread-local with feature "tls", else one for all.
Location(t) == IF tls THEN t ELSE NIL
set_errno(t, code) == errno' = [errno EXCEPT ![Location(t)] = code]

\* `as _` to c_int.
Fits(n) == n < 2^(IntBits - 1)
ToInt(n) == ((n + 2^(IntBits - 1)) % 2^IntBits) - 2^(IntBits - 1)
Abs(n) == IF n < 0 THEN -n ELSE n
e(t, ret) == IF ret < 0 THEN set_errno(t, Abs(ret)) ELSE UNCHANGED errno
Sees(ret) == IF ret < 0 THEN -1 ELSE ret

-----------------------------------------------------------------------------
Idle(t) == call[t] = NIL
Enter(t, kind, raw, truth) ==
    /\ Idle(t)
    /\ call' = [call EXCEPT ![t] = [kind |-> kind, raw |-> raw, truth |-> truth]]
    /\ last' = [last EXCEPT ![t] = NIL] /\ result' = [result EXCEPT ![t] = 0]
    /\ UNCHANGED <<tls, errno, strerror_buf, mine, disturbed>>
EnterPlain(t, kind, res) ==
    Enter(t, kind, syscall_body(res), res) /\ UNCHANGED <<addrs, heap>>

CallStatus(t) ==
    Calls[t] \cap (Wrappers \ Numbered) # {} /\ \E res \in StatusAnswers : EnterPlain(t, "e", res)
CallNumber(t) ==
    \/ Calls[t] \cap Sized # {} /\ \E res \in Answers(Counts) : EnterPlain(t, "e", res)
    \/ /\ Calls[t] \cap (Numbered \ Sized) # {}
       /\ \E res \in Answers({n \in Counts : Fits(n)}) : EnterPlain(t, "e", res)
getcwd(t) ==
    "getcwd" \in Calls[t] /\ \E n \in BOOLEAN, len \in {1, 2} : EnterPlain(t, "pointer", sys_getcwd(n, len, 2))

\* dup3 onto the same descriptor is EINVAL; else dup2, and the fcntl that
\* follows with O_CLOEXEC is one sys_fcntl ignores.
dup3(t, same) ==
    "dup3" \in Calls[t] /\ \E res \in Answers({n \in Counts : Fits(n)}) :
        EnterPlain(t, "e", IF same THEN Err("EINVAL") ELSE res)

\* sys_writev adds up what the sys_write of every part returns, error codes
\* included. What it did: the bytes of the parts written, or the error when
\* nothing was.
sys_writev(parts, written) ==
    FoldLeft(LAMBDA s, i : s + syscall_body(written[i]), 0, parts)
Bytes(parts, written) ==
    FoldLeft(LAMBDA s, i : s + (IF written[i].ok THEN written[i].v ELSE 0), 0, parts)
writev(t) ==
    "writev" \in Calls[t] /\ \E sizes \in Vectors :
        LET parts == [i \in DOMAIN sizes |-> i] IN
        \E fails \in SUBSET DOMAIN sizes, err \in Failures :
            LET written == [i \in DOMAIN sizes |-> IF i \in fails THEN Err(err) ELSE Ok(sizes[i])] IN
            /\ Enter(t, IF fails = {} \/ Len(sizes) = 1 THEN "e" ELSE "mixed", sys_writev(parts, written),
                     IF fails = DOMAIN sizes THEN Err(err) ELSE Ok(Bytes(parts, written)))
            /\ UNCHANGED <<addrs, heap>>

\* sys_getaddrinfo: a list of at most MAXADDRS aibufs in one vector that the
\* caller owns; with no address, or no pointer for it, nothing is allocated.
sys_getaddrinfo(t) ==
    /\ "getaddrinfo" \in Calls[t] /\ addrs[t] = 0
    /\ \/ \E n \in NameLists :
            LET len == IF n < MAXADDRS THEN n ELSE MAXADDRS IN
            /\ Enter(t, "addrinfo", len, Ok(len))
            /\ addrs' = [addrs EXCEPT ![t] = len] /\ heap' = heap + len
       \/ \E err \in Failures \cup {"EFAULT"} : EnterPlain(t, "addrinfo", Err(err))
sys_freeaddrinfo(t) ==
    /\ Idle(t) /\ addrs[t] > 0
    /\ addrs' = [addrs EXCEPT ![t] = 0] /\ heap' = heap - addrs[t]
    /\ UNCHANGED <<tls, errno, strerror_buf, call, result, last, mine, disturbed>>

EAI_FAIL == -4
EAI_NONAME == -2
getaddrinfo(ret) == IF ret < 0 THEN EAI_FAIL ELSE IF ret = 0 THEN EAI_NONAME ELSE 0

\* The wrapper returns.
Return(t) ==
    /\ call[t] # NIL
    /\ LET c == call[t]
           ret == ToInt(c.raw)
           fails == \/ c.kind = "mixed" /\ ret < 0
                    \/ c.kind \in {"e", "addrinfo"} /\ ~c.truth.ok
           code == IF c.kind = "mixed" THEN Abs(ret) ELSE c.truth.v
           others == IF tls THEN {} ELSE Caller \ {t} IN
       /\ IF c.kind = "pointer" THEN UNCHANGED errno ELSE e(t, ret)
       /\ result' = [result EXCEPT ![t] = CASE c.kind = "pointer" -> c.raw
                                            [] c.kind = "addrinfo" -> getaddrinfo(Sees(ret))
                                            [] OTHER -> Sees(ret)]
       /\ last' = [last EXCEPT ![t] = c]
       /\ mine' = [mine EXCEPT ![t] = IF fails THEN code ELSE @]
       /\ disturbed' = CASE fails -> (disturbed \ {t}) \cup others
                         [] ~fails /\ c.kind = "e" /\ ret < 0 -> disturbed \cup {t} \cup others
                         [] OTHER -> disturbed
    /\ call' = [call EXCEPT ![t] = NIL]
    /\ UNCHANGED <<tls, strerror_buf, addrs, heap>>

\* strerror copies the description over the start of one static buffer, with
\* no NUL behind it. A description is its code, once per letter.
Length(code) == CASE code = 0 -> 7 [] code = 5 -> 9 [] code = 9 -> 15 [] OTHER -> 13
Description(code) == [i \in 1..Length(code) |-> code]
CopyOver(new, old) == new \o SubSeq(old, Len(new) + 1, Len(old))
strerror(t, code) ==
    /\ Idle(t) /\ "strerror" \in Calls[t] /\ strerror_buf' = CopyOver(Description(code), strerror_buf)
    /\ UNCHANGED <<tls, errno, call, result, addrs, heap, last, mine, disturbed>>

Next ==
    \E t \in Caller :
        \/ CallStatus(t)
        \/ CallNumber(t)
        \/ getcwd(t)
        \/ \E same \in BOOLEAN : dup3(t, same)
        \/ writev(t)
        \/ sys_getaddrinfo(t)
        \/ sys_freeaddrinfo(t)
        \/ Return(t)
        \/ \E code \in Explained : strerror(t, code)

Spec == Init /\ [][Next]_vars

-----------------------------------------------------------------------------
\* A program can tell from the result and errno what its call did: the value
\* when it succeeded, -1 with the error's Linux code when it failed, and the
\* code stays until the thread's own next failure: with feature "tls" whatever
\* other threads do, without it as long as no call of theirs fails. Of a name
\* lookup, 0 says a list is there to be freed; no other is on the heap. Excepted are
\* numbers too large for c_int, which the wrappers of read, write, lseek, send and
\* recv cut off (fs.rs:27, io.rs:12); a writev of several parts of which one
\* fails (its error codes are added to its byte counts); and getcwd.
CallsReport ==
    /\ \A t \in Caller :
        /\ last[t] # NIL /\ last[t].kind = "e" /\ Fits(last[t].truth.v) =>
            result[t] = IF last[t].truth.ok THEN last[t].truth.v ELSE -1
        /\ last[t] # NIL /\ last[t].kind = "addrinfo" /\ Idle(t) =>
            (addrs[t] > 0 => last[t].truth.ok) /\ (result[t] = 0 => last[t].truth.v \in 1..MAXADDRS)
        /\ t \notin disturbed => errno[Location(t)] = mine[t]
    /\ heap = FoldLeft(LAMBDA s, t : s + addrs[t], 0, SetToSeq(Caller))

\* errno.rs:22, strerror "Returns a pointer to the string representation of
\* the given error code": whatever was asked before, the buffer then holds
\* that description and nothing else.
StrerrorText == strerror_buf = << >> \/ \E code \in Explained : strerror_buf = Description(code)
=============================================================================
