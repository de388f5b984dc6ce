------------------------------ MODULE CString -------------------------------
(***************************************************************************)
(* The pure algorithms of axlibc: string.c, the conversions of stdlib.c    *)
(* and the addresses of network.c, each beside a definition of what it     *)
(* computes. A string is the sequence of its bytes up to the NUL; an index *)
(* is a pointer into it, NULL is -1; query is the call whose result is     *)
(* compared. Then calendar time: __secs_to_tm (time.c), mktime (mktime.rs) *)
(* and strftime (strftime.rs), beside the calendar itself; instant is the  *)
(* time that is converted, with the format it is printed in.               *)
(***************************************************************************)
EXTENDS Integers, Sequences, FiniteSets

CONSTANTS Haystacks, Needles,   \* strings; Needles shorter
          Memories,             \* block lengths and offsets: memmove, memset
          Numerals, Bases,      \* texts of numbers (ASCII codes)
          LONG_MAX,             \* of the modelled long
          Addresses,            \* IPv6 addresses, eight 16-bit groups
          GROW,                 \* for 63 in twoway_strstr
          Days, DaySecs,        \* instants: days since 1970, seconds of the day
          Formats, Sizes        \* of strftime: specifiers, and buffer sizes

VARIABLES query, instant
vars == <<query, instant>>

NULL == -1
At(s, i) == IF i \in 0..Len(s) - 1 THEN s[i + 1] ELSE 0
\* Where a loop over the indices in S stops: at the first of them.
Least(S) == CHOOSE j \in S : \A k \in S : j <= k
Sub(s, i, n) == [k \in 1..n |-> At(s, i + k - 1)]
Larger(a, b) == IF a > b THEN a ELSE b

-----------------------------------------------------------------------------
strlen(s) == Least({i \in 0..Len(s) : At(s, i) = 0})
memchr(s, c, n) == LET j == Least({i \in 0..n : i = n \/ At(s, i) = c}) IN IF j < n THEN j ELSE NULL
strchr(s, c) == LET j == Least({i \in 0..Len(s) : At(s, i) \in {c, 0}}) IN IF At(s, j) = c THEN j ELSE NULL
strrchr(s, c) ==
    LET found == {i \in 0..Len(s) : At(s, i) = c}
    IN  IF found = {} THEN NULL ELSE CHOOSE i \in found : \A j \in found : j <= i
strcmp(l, r) ==
    LET i == Least({j \in 0..Len(l) : At(l, j) # At(r, j) \/ At(l, j) = 0})
    IN  At(l, i) - At(r, i)
strncmp(l, r, n) ==
    IF n = 0 THEN 0
    ELSE LET i == Least({j \in 0..Len(l) : 0 \in {At(l, j), At(r, j)} \/ j = n - 1 \/ At(l, j) # At(r, j)})
         IN  At(l, i) - At(r, i)
memcmp(s, a, b, n) ==
    LET i == Least({j \in 0..n : j = n \/ At(s, a + j) # At(s, b + j)})
    IN  IF i < n THEN At(s, a + i) - At(s, b + i) ELSE 0

SetOf(s) == {s[i] : i \in DOMAIN s}
\* With one byte in the set the loop of strcspn returns in its first round.
strcspn(s, c) ==
    IF Len(c) < 2 /\ At(s, 0) # At(c, 0) THEN 0
    ELSE Least({i \in 0..Len(s) : At(s, i) = 0 \/ At(s, i) \in SetOf(c)})
strspn(s, c) ==
    IF Len(c) = 0 THEN 0
    ELSE IF Len(c) = 1 THEN Least({i \in 0..Len(s) : At(s, i) # At(c, 0)})
    ELSE Least({i \in 0..Len(s) : At(s, i) \notin SetOf(c)})
strpbrk(s, c) == LET i == strcspn(s, c) IN IF At(s, i) # 0 THEN i ELSE NULL

\* strncat: at most n bytes of s after d.
strncat(d, s, n) == Sub(d, 0, strlen(d)) \o Sub(s, 0, IF n < strlen(s) THEN n ELSE strlen(s))

\* memmove on m, from offset s to offset d; the test that it may copy forward
\* is in unsigned arithmetic (of 2^16 here).
CopyForward(m, d, s, n) ==
    LET copy[i \in 0..n] == IF i = 0 THEN m ELSE [copy[i - 1] EXCEPT ![d + i] = copy[i - 1][s + i]]
    IN  copy[n]
memmove(m, d, s, n) ==
    LET back[i \in 0..n] == IF i = n THEN m ELSE [back[i + 1] EXCEPT ![d + i + 1] = back[i + 1][s + i + 1]]
        U(x) == x % 65536
    IN  IF d = s THEN m
        ELSE IF U(s - d - n) <= U(-2 * n) \/ d < s THEN CopyForward(m, d, s, n)
        ELSE back[0]

\* The offsets memset writes, for a block of n bytes at address a.
memset(a, n) ==
    LET k == (-a) % 4
        head == {0, n - 1}
        ends == head \cup {1, 2, n - 2, n - 3}
        more == ends \cup {3, n - 4}
    IN  CASE n = 0 -> {}
          [] n \in 1..2 -> head
          [] n \in 3..6 -> ends
          [] n \in 7..8 -> more
          [] OTHER -> more \cup k..(k + ((n - k) \div 4) * 4 - 1)

-----------------------------------------------------------------------------
\* twobyte_, threebyte_ and fourbyte_strstr: the last bytes of h are rolled
\* through one word, which is compared with the needle's.
RollStrstr(h, n, k) ==
    LET j == Least({i \in k - 1..Len(h) : At(h, i) = 0 \/ Sub(h, i - k + 1, k) = n})
    IN  IF At(h, j) # 0 THEN j - k + 1 ELSE NULL

\* Maximal suffix of the needle for an order: <<ip, p>>.
RECURSIVE MaxSuffix(_, _, _, _, _, _)
MaxSuffix(n, up, ip, jp, k, p) ==
    LET a == At(n, ip + k)
        b == At(n, jp + k)
    IN  IF jp + k >= Len(n) THEN <<ip, p>>
        ELSE IF a = b THEN IF k = p THEN MaxSuffix(n, up, ip, jp + p, 1, p) ELSE MaxSuffix(n, up, ip, jp, k + 1, p)
        ELSE IF (up /\ a > b) \/ (~up /\ a < b) THEN MaxSuffix(n, up, ip, jp + k, 1, jp + k - ip)
        ELSE MaxSuffix(n, up, jp, jp + 1, 1, 1)

\* The search: h is the offset of the window, z the known end, mem how much of
\* the needle is known to match.
RECURSIVE Search(_, _, _, _, _, _, _, _)
Search(s, n, h, z, mem, ms, p, mem0) ==
    LET l == Len(n)
        grow == Larger(l, GROW)
        z1 == IF z - h >= l THEN z ELSE IF z + grow > Len(s) THEN Len(s) ELSE z + grow
        last == At(s, h + l - 1)
        shift == CHOOSE i \in 1..l : n[i] = last /\ \A j \in i + 1..l : n[j] # last
        k == l - shift
        right == Least({i \in Larger(ms + 1, mem)..l : i = l \/ At(n, i) # At(s, h + i)})
        left == CHOOSE i \in 0..ms + 1 :
                  /\ i <= mem \/ At(n, i - 1) # At(s, h + i - 1)
                  /\ \A j \in i + 1..ms + 1 : j > mem /\ At(n, j - 1) = At(s, h + j - 1)
        Again(d, m) == Search(s, n, h + d, z1, m, ms, p, mem0)
    IN  IF z1 - h < l THEN NULL
        ELSE IF last \notin SetOf(n) THEN Again(l, 0)
        ELSE IF k > 0 THEN Again(IF k < mem THEN mem ELSE k, 0)
        ELSE IF right < l THEN Again(right - ms, 0)
        ELSE IF left <= mem THEN h
        ELSE Again(p, mem0)

twoway_strstr(s, n) ==
    LET up == MaxSuffix(n, TRUE, -1, 0, 1, 1)
        down == MaxSuffix(n, FALSE, -1, 0, 1, 1)
        ms == Larger(up[1], down[1])
        p == IF down[1] > up[1] THEN down[2] ELSE up[2]
    IN  IF Len(s) < Len(n) THEN NULL
        ELSE IF memcmp(n, 0, p, ms + 1) # 0 THEN Search(s, n, 0, 0, 0, ms, Larger(ms, Len(n) - ms - 1) + 1, 0)
        ELSE Search(s, n, 0, 0, 0, ms, p, Len(n) - p)

strstr(s, n) ==
    LET f == strchr(s, At(n, 0))
        h == Sub(s, f, Len(s) - f)
        r == IF Len(h) < Len(n) THEN NULL
             ELSE IF Len(n) \in 2..4 THEN RollStrstr(h, n, Len(n)) ELSE twoway_strstr(h, n)
    IN  IF n = << >> THEN 0
        ELSE IF f = NULL \/ Len(n) = 1 THEN f
        ELSE IF r = NULL THEN NULL ELSE f + r

-----------------------------------------------------------------------------
isspace(c) == c = 32 \/ c \in 9..13
Digit(c) ==
    CASE c \in 48..57 -> c - 48
      [] c \in 65..90 -> c - 55
      [] c \in 97..122 -> c - 87
      [] OTHER -> 99

\* What strtol and strtoul read: sign, base, and where the digits are.
Blank(s) == Least({i \in 0..Len(s) : ~isspace(At(s, i))})
AfterSign(s, i) == IF At(s, i) \in {45, 43} THEN i + 1 ELSE i
Numeral(s, neg, i, base) ==
    [neg |-> neg, base |-> base, from |-> i,
     to |-> Least({j \in i..Larger(i, Len(s)) : Digit(At(s, j)) >= base})]
Scan(s, base) ==
    LET i == AfterSign(s, Blank(s))
        neg == At(s, Blank(s)) = 45
    IN  CASE base \in {0, 16} /\ At(s, i) = 48 /\ At(s, i + 1) \in {120, 88} -> Numeral(s, neg, i + 2, 16)
          [] base = 0 /\ At(s, i) = 48 /\ At(s, i + 1) \notin {120, 88} -> Numeral(s, neg, i, 8)
          [] base = 0 /\ At(s, i) # 48 -> Numeral(s, neg, i, 10)
          [] OTHER -> Numeral(s, neg, i, base)

\* The loop of the four: the value, or -1 once it does not fit below limit.
Accumulate(s, r, limit) ==
    LET cutoff == limit \div r.base
        cutlim == limit % r.base
        acc[i \in r.from..r.to] ==
            IF i = r.from THEN 0
            ELSE LET a == acc[i - 1]
                     c == Digit(At(s, i - 1))
                 IN  IF a < 0 \/ a > cutoff \/ (a = cutoff /\ c > cutlim) THEN -1 ELSE a * r.base + c
    IN  acc[r.to]
ULONG_MAX == 2 * LONG_MAX + 1
End(r) == IF r.to = r.from THEN 0 ELSE r.to

\* The value, whether it is out of range, and the end.
SignedResult(r, v) ==
    <<IF v < 0 THEN (IF r.neg THEN -LONG_MAX - 1 ELSE LONG_MAX) ELSE IF r.neg THEN -v ELSE v, v < 0, End(r)>>
UnsignedResult(r, v) ==
    <<IF v < 0 THEN ULONG_MAX ELSE IF r.neg THEN (-v) % (ULONG_MAX + 1) ELSE v, v < 0, End(r)>>
strtol(s, base) ==
    LET r == Scan(s, base)
    IN  SignedResult(r, Accumulate(s, r, IF r.neg THEN LONG_MAX + 1 ELSE LONG_MAX))
strtoul(s, base) == LET r == Scan(s, base) IN UnsignedResult(r, Accumulate(s, r, ULONG_MAX))
strtoll(s, base) == strtol(s, base)
strtoull(s, base) == strtoul(s, base)

\* atoi counts downwards; the sign is put right at the end.
Countdown(s, from, to) ==
    LET n[i \in from..to] == IF i = from THEN 0 ELSE 10 * n[i - 1] - Digit(At(s, i - 1)) IN n[to]
atoi(s) ==
    LET r == Numeral(s, At(s, Blank(s)) = 45, AfterSign(s, Blank(s)), 10)
    IN  IF r.neg THEN Countdown(s, r.from, r.to) ELSE -Countdown(s, r.from, r.to)

-----------------------------------------------------------------------------
\* inet_ntop for IPv6: the groups in hexadecimal, and the longest run of
\* zeros and colons replaced by two colons.
Code(d) == IF d < 10 THEN 48 + d ELSE 87 + d
Hex(v) ==
    LET all == <<Code(v \div 4096), Code((v \div 256) % 16), Code((v \div 16) % 16), Code(v % 16)>>
        lead == Least({i \in 0..3 : i = 3 \/ all[i + 1] # 48})
    IN  SubSeq(all, lead + 1, 4)
Join(a) ==
    LET text[i \in 1..8] == IF i = 1 THEN Hex(a[1]) ELSE text[i - 1] \o <<58>> \o Hex(a[i])
    IN  text[8]
Run(buf, i) == Least({j \in 0..Len(buf) : At(buf, i + j) \notin {58, 48}})
Starts(buf) == {i \in 0..Len(buf) - 1 : i = 0 \/ At(buf, i) = 58}
Longest(buf) ==
    CHOOSE n \in 0..Len(buf) : (\E i \in Starts(buf) : Run(buf, i) = n) /\ \A i \in Starts(buf) : Run(buf, i) <= n
Cut(buf, i, n) == SubSeq(buf, 1, i) \o <<58, 58>> \o SubSeq(buf, i + n + 1, Len(buf))
Shortened(buf, n) ==
    IF n > 3 THEN Cut(buf, CHOOSE i \in Starts(buf) : Run(buf, i) = n /\ \A j \in Starts(buf) : Run(buf, j) = n => i <= j, n)
    ELSE buf
Compressed(buf) == Shortened(buf, Longest(buf))
inet_ntop(a) == Compressed(Join(a))

\* inet_pton for IPv6: position, group and place of the two colons. The
\* groups after them are moved to the end after their place was cleared.
\* << >> is a text that is no address. (Dotted endings are left out.)
Groups == 0..7
Expand(ip, brk, i) ==
    LET cleared == [g \in Groups |-> IF g \in brk..brk + 6 - i THEN 0 ELSE ip[g]]
    IN  IF brk < 0 THEN ip
        ELSE [g \in Groups |-> IF g >= brk + 7 - i THEN cleared[g - 7 + i] ELSE cleared[g]]
RECURSIVE Pton6(_, _, _, _, _)
Pton6(s, pos, i, brk, ip) ==
    LET to == Least({j \in pos..pos + 4 : j = pos + 4 \/ Digit(At(s, j)) >= 16})
        v[j \in pos..to] == IF j = pos THEN 0 ELSE 16 * v[j - 1] + Digit(At(s, j - 1))
        set(x) == [ip EXCEPT ![i % 8] = x]
    IN  IF At(s, pos) = 58 /\ brk < 0
        THEN IF At(s, pos + 1) = 0 THEN Expand(set(0), i, i)
             ELSE IF i = 7 THEN << >> ELSE Pton6(s, pos + 1, i + 1, i, set(0))
        ELSE IF to = pos THEN << >>
        ELSE IF At(s, to) = 0 /\ (brk >= 0 \/ i = 7) THEN Expand(set(v[to]), brk, i)
        ELSE IF i = 7 \/ At(s, to) # 58 THEN << >>
        ELSE Pton6(s, to + 1, i + 1, brk, set(v[to]))
inet_pton(s) ==
    IF At(s, 0) = 58 /\ At(s, 1) # 58 THEN << >>
    ELSE Pton6(s, IF At(s, 0) = 58 THEN 1 ELSE 0, 0, -1, [g \in Groups |-> 0])

\* hton and ntoh on a little-endian machine, 16 bits.
bswap_16(x) == ((x * 256) % 65536) + x \div 256

-----------------------------------------------------------------------------
Queries ==
    [op : {"str"}, a : Haystacks, b : Needles]
    \cup [op : {"mem"}, a : Memories, b : Memories, n : Memories]
    \cup [op : {"num"}, a : Numerals, b : Bases]
    \cup [op : {"addr"}, a : Addresses]
Init == query = [op |-> "none"]
Next == query.op = "none" /\ query' \in Queries

Sign(x) == IF x < 0 THEN -1 ELSE IF x > 0 THEN 1 ELSE 0
First(S) == IF S = {} THEN NULL ELSE CHOOSE i \in S : \A j \in S : i <= j
Before(l, r) == \E k \in 0..Len(r) - 1 : Sub(l, 0, k) = Sub(r, 0, k) /\ At(l, k) < At(r, k)

\* The searches and comparisons of string.c agree with their definitions:
\* strstr in its five algorithms with the first occurrence, strcmp and
\* strncmp with the order of strings, the spans with the first byte outside
\* or inside a set. strcspn and strpbrk with sets of less than two bytes are
\* excepted: the loop of strcspn then returns in its first round
\* (string.c:149).
StringsAgree ==
    query.op = "str" =>
    LET s == query.a
        n == query.b
        outside == {i \in 0..Len(s) : At(s, i) \notin SetOf(n)}
        inside == {i \in 0..Len(s) : At(s, i) \in SetOf(n) \cup {0}}
    IN  /\ strstr(s, n) = First({i \in 0..Len(s) - Len(n) : Sub(s, i, Len(n)) = n})
        /\ Sign(strcmp(s, n)) = (IF s = n THEN 0 ELSE IF Before(s, n) THEN -1 ELSE 1)
        /\ \A k \in 0..3 : LET p(t) == SubSeq(t, 1, IF k < Len(t) THEN k ELSE Len(t))
                           IN  /\ Sign(strncmp(s, n, k)) = Sign(strcmp(p(s), p(n)))
                               /\ strncat(s, n, k) = s \o p(n)
        /\ strspn(s, n) = First(outside)
        /\ Len(n) > 1 => strcspn(s, n) = First(inside)
                        /\ strpbrk(s, n) = First({i \in inside : At(s, i) # 0})
        /\ strlen(s) = Len(s) /\ strrchr(s, 1) = NULL <=> strchr(s, 1) = NULL
        /\ memchr(s, 1, Len(s)) = strchr(s, 1)

\* memmove copies as if through another buffer, however the blocks overlap;
\* memset writes each byte of its block and no other.
BlocksAgree ==
    query.op = "mem" =>
    LET m == [i \in 1..2 * (query.n + query.a + query.b) + 1 |-> i]
    IN  /\ memmove(m, query.a, query.b, query.n) =
             [i \in DOMAIN m |-> IF i \in query.a + 1..query.a + query.n THEN m[i - query.a + query.b] ELSE m[i]]
        /\ memset(query.a, query.n + query.b) = 0..query.n + query.b - 1

Value(s, r) ==
    LET val[i \in r.from..r.to] == IF i = r.from THEN 0 ELSE val[i - 1] * r.base + Digit(At(s, i - 1))
    IN  IF r.neg THEN -val[r.to] ELSE val[r.to]
Clamp(v) == CASE v > LONG_MAX -> LONG_MAX [] v < -LONG_MAX - 1 -> -LONG_MAX - 1 [] OTHER -> v

\* Whether s from i up to j is a numeral in the base, without its sign; base 0
\* takes it from the prefix.
Prefixed(s, i) == At(s, i) = 48 /\ At(s, i + 1) \in {120, 88}
IsNumeral(s, i, j, base) ==
    LET digits(k, b) == \A m \in k..j - 1 : Digit(At(s, m)) < b
    IN  \/ base \in {0, 16} /\ Prefixed(s, i) /\ j > i + 2 /\ digits(i + 2, 16)
        \/ j > i /\ digits(i, IF base # 0 THEN base ELSE IF At(s, i) = 48 THEN 8 ELSE 10)
LongestEnd(s, i, base) ==
    LET ends == {j \in 0..Len(s) : IsNumeral(s, i, j, base)}
    IN  IF ends = {} THEN 0 ELSE CHOOSE j \in ends : \A k \in ends : k <= j
NumberAgrees(s, base, r, v) ==
    LET big == v > ULONG_MAX \/ -v > ULONG_MAX
        i == AfterSign(s, Blank(s))
    IN  /\ strtol(s, base) = <<Clamp(v), Clamp(v) # v, End(r)>>
        /\ strtoul(s, base) = <<IF big THEN ULONG_MAX ELSE v % (ULONG_MAX + 1), big, End(r)>>
        /\ \/ End(r) = LongestEnd(s, i, base)
           \/ base \in {0, 16} /\ Prefixed(s, i) /\ Digit(At(s, i + 2)) >= 16
        /\ base = 10 => atoi(s) = v

\* strtol and strtoul read the longest numeral, and give its value or the limit
\* it exceeds with an error, at both ends of the range and in every base. A "0x"
\* without digits is excepted: the standard reads its 0, the code nothing.
NumbersAgree ==
    query.op = "num" =>
        NumberAgrees(query.a, query.b, Scan(query.a, query.b), Value(query.a, Scan(query.a, query.b)))

\* The groups that stand before the two colons of an address, all without them.
GroupsBefore(text) ==
    LET double == {i \in 1..Len(text) - 1 : text[i] = 58 /\ text[i + 1] = 58}
        colons(k) == Cardinality({i \in 1..k : text[i] = 58})
    IN  IF double = {} THEN 8 ELSE IF double = {1} THEN 0 ELSE colons(First(double) - 1) + 1
AddressAgrees(a, text, back) ==
    /\ back # << >> /\ \A g \in 0..GroupsBefore(text) - 1 : back[g] = a[g + 1]
    /\ \A g \in 1..8 : bswap_16(bswap_16(a[g])) = a[g]

\* What inet_ntop writes inet_pton accepts and reads back, up to the two colons.
\* The groups after them are excepted, and lost: inet_pton clears their place
\* before it moves them (network.c:169).
AddressesAgree ==
    query.op = "addr" => AddressAgrees(query.a, inet_ntop(query.a), inet_pton(inet_ntop(query.a)))


-----------------------------------------------------------------------------
\* Division as C does it, towards zero.
Quot(a, b) == IF a >= 0 THEN a \div b ELSE -((-a) \div b)
Rem(a, b) == a - b * Quot(a, b)

LEAPOCH == 11017            \* 2000-03-01, in days
DAYS_PER_400Y == 365 * 400 + 97
DAYS_PER_100Y == 365 * 100 + 24
DAYS_PER_4Y == 365 * 4 + 1
days_in_month == <<31, 30, 31, 30, 31, 31, 30, 31, 30, 31, 31, 29>>

\* A day after the last of a cycle belongs to the cycle.
Cycles(rem, len, last) == LET c == rem \div len IN IF c = last + 1 THEN last ELSE c

\* Years since March 2000, the day in the last of them (March to February), and
\* 1 when a leap day came before it: by cycles of 400, 100, 4 and 1 years.
YearIn4(qc, c, q, d) ==
    LET y == Cycles(d, 365, 3)
    IN  [years |-> y + 4 * q + 100 * c + 400 * qc, day |-> d - y * 365,
         leap |-> IF y = 0 /\ (q # 0 \/ c = 0) THEN 1 ELSE 0]
YearIn100(qc, c, d) == LET q == Cycles(d, DAYS_PER_4Y, 24) IN YearIn4(qc, c, q, d - q * DAYS_PER_4Y)
YearIn400(qc, d) == LET c == Cycles(d, DAYS_PER_100Y, 3) IN YearIn100(qc, c, d - c * DAYS_PER_100Y)
YearOf(days) ==
    LET r == Rem(days, DAYS_PER_400Y)
    IN  YearIn400(Quot(days, DAYS_PER_400Y) - (IF r < 0 THEN 1 ELSE 0), IF r < 0 THEN r + DAYS_PER_400Y ELSE r)

\* Days left of the year's d when the first m months are over, and the month.
DaysLeft(d) == LET left[m \in 0..12] == IF m = 0 THEN d ELSE left[m - 1] - days_in_month[m] IN left
MonthOf(left) ==
    CHOOSE m \in 0..11 : left[m] < days_in_month[m + 1] /\ \A k \in 0..m - 1 : left[k] >= days_in_month[k + 1]

Dated(t, mday, months, wday, yday, secs) ==
    [year |-> t.years + 100 + (IF months >= 10 THEN 1 ELSE 0),
     mon |-> (IF months >= 10 THEN months - 12 ELSE months) + 2,
     mday |-> mday, wday |-> wday,
     yday |-> IF yday >= 365 + t.leap THEN yday - 365 - t.leap ELSE yday,
     hour |-> secs \div 3600, min |-> (secs \div 60) % 60, sec |-> secs % 60]
InMonth(t, left, months, w, secs) ==
    Dated(t, left[months] + 1, months, IF w < 0 THEN w + 7 ELSE w, t.day + 31 + 28 + t.leap, secs)
InYear(t, left, w, secs) == InMonth(t, left, MonthOf(left), w, secs)
OfYear(t, w, secs) == InYear(t, DaysLeft(t.day), w, secs)

\* __secs_to_tm from the quotient and remainder of secs by a day.
SecsToTm(days, rem) ==
    IF rem < 0 THEN OfYear(YearOf(days - 1), Rem(3 + days - 1, 7), rem + 86400)
    ELSE OfYear(YearOf(days), Rem(3 + days, 7), rem)

\* gmtime_r and localtime_r of day d, second s: secs counts from LEAPOCH, and
\* its remainder is negative before it.
gmtime_r(d, s) ==
    IF d - LEAPOCH >= 0 \/ s = 0 THEN SecsToTm(d - LEAPOCH, s) ELSE SecsToTm(d - LEAPOCH + 1, s - 86400)

leap_year(year) == year % 4 = 0 /\ (year % 100 # 0 \/ year % 400 = 0)
YearDays(y) == IF leap_year(y) THEN 366 ELSE 365
MONTH_DAYS(leap, m) == IF m = 1 /\ leap THEN 29 ELSE <<31, 28, 31, 30, 31, 30, 31, 31, 30, 31, 30, 31>>[m + 1]
RECURSIVE SumOf(_, _, _)
SumOf(f, i, j) == IF i = j THEN f[i] ELSE LET k == (i + j) \div 2 IN SumOf(f, i, k) + SumOf(f, k + 1, j)
Total(f(_), from, to) == IF to < from THEN 0 ELSE SumOf([i \in from..to |-> f(i)], from, to)

\* mktime: days are added year by year and month by month, away from 1970,
\* counting backwards before it.
mktime(tm) ==
    LET year == tm.year + 1900
        leap == leap_year(year)
        month(m) == MONTH_DAYS(leap, m)
        before == month(tm.mon) - (tm.mday - 1) + Total(YearDays, year + 1, 1969) + Total(month, tm.mon + 1, 11)
        after == tm.mday - 1 + Total(YearDays, 1970, year - 1) + Total(month, 0, tm.mon - 1)
    IN  <<IF year < 1970 THEN -before ELSE after, tm.hour * 3600 + tm.min * 60 + tm.sec>>

-----------------------------------------------------------------------------
\* strftime: what a specifier prints, as the number it shows, and how many
\* bytes that takes.
Width(n, w) == LET len == IF n < 10 THEN 1 ELSE IF n < 100 THEN 2 ELSE IF n < 1000 THEN 3 ELSE 4 IN IF len < w THEN w ELSE len
Field(c, tm) ==
    CASE c = "d" -> tm.mday
      [] c = "H" -> tm.hour
      [] c = "I" -> ((tm.hour + 12 - 1) % 12) + 1
      [] c = "m" -> tm.mon + 1
      [] c = "M" -> tm.min
      [] c = "S" -> tm.sec
      [] c = "u" -> ((tm.wday + 7 - 1) % 7) + 1
      [] c = "w" -> tm.wday
      [] c = "U" -> (tm.yday + 7 - tm.wday) \div 7
      [] c = "W" -> (tm.yday + 7 - ((tm.wday + 6) % 7)) \div 7
      [] c = "y" -> tm.year % 100
      [] c = "Y" -> tm.year + 1900
      [] OTHER -> 0
\* The composite specifiers recurse into these.
Composite(c) ==
    CASE c = "D" -> <<"m", "/", "d", "/", "y">>
      [] c = "R" -> <<"H", ":", "M">>
      [] c = "T" -> <<"H", ":", "M", ":", "S">>
      [] c = "F" -> <<"Y", "-", "m", "-", "d">>
      [] OTHER -> <<c>>
Piece(c, tm) ==
    IF c \in {"/", ":", "-", "%"} THEN 1
    ELSE Width(Field(c, tm), IF c \in {"u", "w", "U", "W", "Y"} THEN 1 ELSE 2)

\* StringWriter: room left and bytes in the buffer; a piece is cut to what
\* fits before the NUL. CountingWriter counts all of it.
WritePiece(w, n) ==
    LET k == IF n < w.room - 1 THEN n ELSE w.room - 1
    IN  [room |-> IF w.room > 1 THEN w.room - k ELSE w.room,
         used |-> IF w.room > 1 THEN w.used + k ELSE w.used,
         nul |-> IF w.room > 1 THEN TRUE ELSE w.nul,
         written |-> w.written + n]
strftime(f, size, tm) ==
    LET c == Composite(f)
        w[i \in 0..Len(c)] == IF i = 0 THEN [room |-> size, used |-> 0, nul |-> FALSE, written |-> 0]
                              ELSE WritePiece(w[i - 1], Piece(c[i], tm))
        end == w[Len(c)]
    IN  [ret |-> IF end.written < size THEN end.written ELSE 0, used |-> end.used, nul |-> end.nul, written |-> end.written]

-----------------------------------------------------------------------------
TimeInit == instant = << >>
TimeNext == instant = << >> /\ instant' \in Days \X DaySecs \X Formats \X Sizes

\* Days of a date, from the lengths of the years and the months before it.
DayNumber(year, mon, mday) ==
    LET y == year - 1
        leaps(n) == n \div 4 - n \div 100 + n \div 400
        month(m) == MONTH_DAYS(leap_year(year), m)
    IN  365 * (year - 1970) + leaps(y) - leaps(1969) + Total(month, 0, mon - 1) + mday - 1

\* tm is the date of day d and its second s; the weeks shown are the Sundays and
\* Mondays of the year so far.
Sevenths(tm, k) == (tm.yday - ((tm.wday - k) % 7)) \div 7 + 1
DateAgrees(d, s, tm) ==
    /\ tm.mon \in 0..11 /\ tm.mday \in 1..MONTH_DAYS(leap_year(tm.year + 1900), tm.mon)
    /\ DayNumber(tm.year + 1900, tm.mon, tm.mday) = d
    /\ tm.wday = (4 + d) % 7 /\ tm.yday = d - DayNumber(tm.year + 1900, 0, 1)
    /\ tm.hour * 3600 + tm.min * 60 + tm.sec = s /\ tm.min < 60 /\ tm.sec < 60
    /\ mktime(tm) = <<d, s>>
    /\ Field("U", tm) = (IF tm.yday < tm.wday THEN 0 ELSE Sevenths(tm, 0))
    /\ Field("W", tm) = (IF tm.yday < (tm.wday + 6) % 7 THEN 0 ELSE Sevenths(tm, 1))
OutputAgrees(out, room) ==
    /\ out.used + (IF out.nul THEN 1 ELSE 0) <= room
    /\ out.ret # 0 => out.ret = out.used /\ out.nul
    /\ out.ret = 0 => out.written = 0 \/ out.written >= room

\* The broken-down time of an instant is a date of the calendar, the right
\* one, with its day of the week and of the year, before and after 1970 and
\* 2000 and at the ends of all cycles; mktime of it is the instant again; the
\* weeks strftime shows count the Sundays and the Mondays of the year so far;
\* strftime never fills its buffer past the NUL, and returns the length of
\* what it wrote when that fits and 0 when it does not.
CalendarAgrees ==
    instant # << >> =>
        /\ DateAgrees(instant[1], instant[2], gmtime_r(instant[1], instant[2]))
        /\ OutputAgrees(strftime(instant[3], instant[4], gmtime_r(instant[1], instant[2])), instant[4])
=============================================================================
