------------------------------ MODULE CPrintf -------------------------------
(***************************************************************************)
(* printf of axlibc (c/printf.c): the format loop, the integer, character, *)
(* string and pointer conversions and the output gadget of snprintf, beside*)
(* what C says of the conversions. Characters are one-character strings.   *)
(* `job` is the call: a format, its arguments and the size of the buffer.  *)
(***************************************************************************)
EXTENDS Integers, Sequences, FiniteSets

CONSTANTS PrintFormats,         \* sequences of characters; none ends in flags or digits
          PrintInts, PrintStrings, PrintWidths,         \* arguments
          BufSizes,             \* of snprintf
          INTBUF,               \* PRINTF_INTEGER_BUFFER_SIZE
          PtrWidth              \* of %p

VARIABLE job
vars == job

Digits == <<"0", "1", "2", "3", "4", "5", "6", "7", "8", "9", "a", "b", "c", "d", "e", "f">>
Capitals == <<"A", "B", "C", "D", "E", "F">>
DigitChar(d, upper) == IF upper /\ d > 9 THEN Capitals[d - 9] ELSE Digits[d + 1]
DigitValue(c) == CHOOSE d \in 0..9 : Digits[d + 1] = c
IsDigit(c) == \E d \in 1..10 : Digits[d] = c
At(f, i) == IF i <= Len(f) THEN f[i] ELSE "nul"
Repeat(c, n) == [i \in 1..n |-> c]
Reversed(s) == [i \in DOMAIN s |-> s[Len(s) + 1 - i]]
Smaller(a, b) == IF a < b THEN a ELSE b
FillTo(s, c, n) == s \o Repeat(c, n - Len(s))

\* atou_: <<value, next position>>.
RECURSIVE atou(_, _, _)
atou(f, i, v) == IF IsDigit(At(f, i)) THEN atou(f, i + 1, v * 10 + DigitValue(At(f, i))) ELSE <<v, i>>

-----------------------------------------------------------------------------
\* out_rev_: the reversed text, padded with spaces.
out_rev(buf, width, flags) ==
    LET pad == Repeat(" ", width - Len(buf))
    IN  CASE "-" \in flags -> Reversed(buf) \o pad
          [] "-" \notin flags /\ "0" \notin flags -> pad \o Reversed(buf)
          [] OTHER -> Reversed(buf)

\* print_integer: the digits, lowest first.
RECURSIVE DigitsOf(_, _, _, _)
DigitsOf(v, base, upper, len) ==
    IF v = 0 \/ len = INTBUF THEN << >>
    ELSE <<DigitChar(v % base, upper)>> \o DigitsOf(v \div base, base, upper, len + 1)

Cut(s) == SubSeq(s, 1, Smaller(Len(s), INTBUF))
Sign(negative, flags) ==
    CASE negative -> <<"-">> [] ~negative /\ "+" \in flags -> <<"+">>
      [] ~negative /\ "+" \notin flags /\ " " \in flags -> <<" ">> [] OTHER -> << >>
\* Zeros up to the width, if asked for, and up to the precision.
ZeroFilled(buf, precision, width, flags) ==
    FillTo(IF "-" \notin flags /\ "0" \in flags THEN FillTo(buf, "0", Smaller(width, INTBUF)) ELSE buf,
           "0", Smaller(precision, INTBUF))
\* "0x", "0b" or "0", in the place of zeros that fill the width.
Prefixed(long, len, base, precision, width, flags) ==
    LET room == IF base \in {16, 2} THEN 2 ELSE 1
        back == IF "." \notin flags /\ long # << >> /\ Len(long) \in {precision, width}
                THEN Smaller(Len(long) - len, room) ELSE 0
        letter == CASE base = 16 -> <<IF "upper" \in flags THEN "X" ELSE "x">> [] base = 2 -> <<"b">> [] OTHER -> << >>
    IN  IF flags \cap {"#", "pointer"} = {} THEN long
        ELSE Cut(SubSeq(long, 1, Len(long) - back) \o letter \o <<"0">>)
Finished(long, len, negative, base, precision, width, flags) ==
    out_rev(Cut(Prefixed(long, len, base, precision, width, flags) \o Sign(negative, flags)), width, flags)
FinalFor(buf, long, negative, base, precision, width, flags) ==
    Finished(long, Len(buf), negative, base, precision, width,
             IF base = 8 /\ Len(long) > Len(buf) THEN flags \ {"#"} ELSE flags)
SignRoom(negative, width, flags) ==
    IF "-" \notin flags /\ "0" \in flags /\ width > 0 /\ (negative \/ flags \cap {"+", " "} # {}) THEN 1 ELSE 0
\* print_integer_finalization: zeros, prefix and sign after the digits.
Final(buf, negative, base, precision, width, flags) ==
    LET room == width - SignRoom(negative, width, flags)
    IN  FinalFor(buf, ZeroFilled(buf, precision, room, flags), negative, base, precision, room, flags)

print_integer(value, negative, base, precision, width, flags) ==
    LET zero == value = 0
        buf == IF zero THEN (IF "." \in flags THEN << >> ELSE <<"0">>) ELSE DigitsOf(value, base, "upper" \in flags, 0)
        kept == IF zero /\ ("." \notin flags \/ base = 16) THEN flags \ {"#"} ELSE flags
    IN  Final(buf, negative, base, precision, width, kept)

-----------------------------------------------------------------------------
\* parse_flags: <<flags, next position>>.
RECURSIVE parse_flags(_, _, _)
parse_flags(f, i, flags) ==
    IF At(f, i) \in {"0", "-", "+", " ", "#"} THEN parse_flags(f, i + 1, flags \cup {At(f, i)}) ELSE <<flags, i>>

\* Width and precision, from the format or from the arguments.
Width(f, p, args) ==
    CASE IsDigit(At(f, p[2])) -> LET n == atou(f, p[2], 0) IN [flags |-> p[1], width |-> n[1], next |-> n[2], args |-> args]
      [] At(f, p[2]) = "*" -> [flags |-> IF Head(args) < 0 THEN p[1] \cup {"-"} ELSE p[1],
                               width |-> IF Head(args) < 0 THEN -Head(args) ELSE Head(args),
                               next |-> p[2] + 1, args |-> Tail(args)]
      [] OTHER -> [flags |-> p[1], width |-> 0, next |-> p[2], args |-> args]
Precision(f, w) ==
    LET i == w.next + 1
    IN  CASE At(f, w.next) # "." -> [prec |-> 0, flags |-> w.flags, next |-> w.next, args |-> w.args]
          [] IsDigit(At(f, i)) -> LET n == atou(f, i, 0) IN [prec |-> n[1], flags |-> w.flags \cup {"."}, next |-> n[2], args |-> w.args]
          [] At(f, i) = "*" -> [prec |-> IF Head(w.args) > 0 THEN Head(w.args) ELSE 0, flags |-> w.flags \cup {"."},
                                next |-> i + 1, args |-> Tail(w.args)]
          [] OTHER -> [prec |-> 0, flags |-> w.flags \cup {"."}, next |-> i, args |-> w.args]
\* The length: "hh" narrows to a char, "h" to a short; longer ones hold all
\* of the modelled integers.
Length(f, i) ==
    CASE At(f, i) = "h" -> IF At(f, i + 1) = "h" THEN [bits |-> 8, next |-> i + 2] ELSE [bits |-> 16, next |-> i + 1]
      [] At(f, i) = "l" -> [bits |-> 30, next |-> IF At(f, i + 1) = "l" THEN i + 2 ELSE i + 1]
      [] At(f, i) \in {"t", "j", "z"} -> [bits |-> 30, next |-> i + 1]
      [] OTHER -> [bits |-> 30, next |-> i]
Unsigned(v, bits) == v % 2^bits
Signed(v, bits) == ((v + 2^(bits - 1)) % 2^bits) - 2^(bits - 1)

\* d, i, u, x, X, o, b
Integer(c, v, bits, prec, width, flags0) ==
    LET base == CASE c \in {"x", "X"} -> 16 [] c = "o" -> 8 [] c = "b" -> 2 [] OTHER -> 10
        flags1 == (IF c = "X" THEN flags0 \cup {"upper"} ELSE flags0) \ (IF base = 10 THEN {"#"} ELSE {})
        flags == IF "." \in flags1 THEN flags1 \ {"0"} ELSE flags1
        s == Signed(v, bits)
    IN  IF c \in {"d", "i"} THEN print_integer(IF s > 0 THEN s ELSE -s, s < 0, base, prec, width, flags)
        ELSE print_integer(Unsigned(v, bits), FALSE, base, prec, width, flags \ {"+", " "})
\* c and s
Padded(text, width, flags) ==
    LET pad == Repeat(" ", width - Len(text)) IN IF "-" \in flags THEN text \o pad ELSE pad \o text
String(p, prec, width, flags) ==
    IF p = <<"NULL">> THEN out_rev(Reversed(<<"(", "n", "u", "l", "l", ")">>), width, flags)
    ELSE Padded(IF "." \in flags THEN SubSeq(p, 1, Smaller(Len(p), prec)) ELSE p, width, flags)
Pointer(v, prec, flags) ==
    IF v = 0 THEN out_rev(Reversed(<<"(", "n", "i", "l", ")">>), PtrWidth, flags \cup {"0", "pointer"})
    ELSE print_integer(v, FALSE, 16, prec, PtrWidth, flags \cup {"0", "pointer"})

\* A directive, from the "%" at position i on.
Directive3(f, w, p, l) ==
    [conv |-> At(f, l.next), next |-> l.next + 1, bits |-> l.bits, prec |-> p.prec, flags |-> p.flags,
     width |-> w.width, args |-> p.args]
Directive2(f, w, p) == Directive3(f, w, p, Length(f, p.next))
Directive1(f, w) == Directive2(f, w, Precision(f, w))
Directive(f, i, args) == Directive1(f, Width(f, parse_flags(f, i + 1, {}), args))
Text(d, arg) ==
    CASE d.conv \in {"d", "i", "u", "x", "X", "o", "b"} -> Integer(d.conv, arg, d.bits, d.prec, d.width, d.flags)
      [] d.conv = "c" -> Padded(<<arg>>, d.width, d.flags)
      [] d.conv = "s" -> String(arg, d.prec, d.width, d.flags)
      [] d.conv = "p" -> Pointer(arg, d.prec, d.flags)

\* format_string_loop: the output from position i on. A format that ends
\* in a length, a ".", a "*" or the "%" itself ends the output.
RECURSIVE format_string_loop(_, _, _), Converted(_, _)
Converted(f, d) ==
    CASE d.conv = "nul" -> << >>
      [] d.conv \in {"d", "i", "u", "x", "X", "o", "b", "c", "s", "p"} ->
             Text(d, Head(d.args)) \o format_string_loop(f, d.next, Tail(d.args))
      [] OTHER -> <<d.conv>> \o format_string_loop(f, d.next, d.args)
format_string_loop(f, i, args) ==
    CASE At(f, i) = "nul" -> << >>
      [] At(f, i) = "%" -> Converted(f, Directive(f, i, args))
      [] OTHER -> <<f[i]>> \o format_string_loop(f, i + 1, args)

\* putchar_via_gadget and append_termination_with_gadget, for a buffer of n
\* bytes: every character counts, those that fit are stored, the NUL last.
Stored(out, n) ==
    LET at == Smaller(Len(out), n - 1) + 1
    IN  IF n = 0 THEN << >>
        ELSE [i \in 1..(IF at > Smaller(Len(out), n) THEN at ELSE Smaller(Len(out), n)) |->
                 IF i = at THEN "nul" ELSE out[i]]
vsnprintf(f, args, n) ==
    [ret |-> Len(format_string_loop(f, 1, args)), buf |-> Stored(format_string_loop(f, 1, args), n)]

-----------------------------------------------------------------------------
Args(f) == CASE \E i \in DOMAIN f : f[i] = "s" -> {<<s>> : s \in PrintStrings}
             [] \E i \in DOMAIN f : f[i] = "*" -> PrintWidths \X PrintInts
             [] OTHER -> {<<v>> : v \in PrintInts}
Init == job = << >>
Next == job = << >> /\ \E f \in PrintFormats, n \in BufSizes : \E a \in Args(f) : job' = <<f, a, n>>

\* What C says of an integer conversion.
RECURSIVE Numeral(_, _, _)
Numeral(v, base, c) ==
    IF v < base THEN <<DigitChar(v, c = "X")>> ELSE Append(Numeral(v \div base, base, c), DigitChar(v % base, c = "X"))
Standard(c, v, bits, prec, width, flags) ==
    LET base == CASE c \in {"x", "X"} -> 16 [] c = "o" -> 8 [] c = "b" -> 2 [] OTHER -> 10
        s == IF c \in {"d", "i"} THEN Signed(v, bits) ELSE Unsigned(v, bits)
        m == IF s < 0 THEN -s ELSE s
        least == IF "." \in flags THEN prec ELSE 1
        num == IF m = 0 /\ least = 0 THEN << >> ELSE Numeral(m, base, c)
        full == Repeat("0", least - Len(num)) \o num
        octal == IF c = "o" /\ "#" \in flags /\ (full = << >> \/ full[1] # "0") THEN <<"0">> \o full ELSE full
        prefix == IF c \in {"x", "X"} /\ "#" \in flags /\ m # 0 THEN <<"0", c>> ELSE << >>
        sign == IF s < 0 THEN <<"-">> ELSE IF c \notin {"d", "i"} THEN << >>
                ELSE IF "+" \in flags THEN <<"+">> ELSE IF " " \in flags THEN <<" ">> ELSE << >>
        len == Len(sign) + Len(prefix) + Len(octal)
    IN  CASE "-" \in flags -> sign \o prefix \o octal \o Repeat(" ", width - len)
          [] "-" \notin flags /\ "0" \in flags /\ "." \notin flags -> sign \o prefix \o Repeat("0", width - len) \o octal
          [] OTHER -> Repeat(" ", width - len) \o sign \o prefix \o octal

\* The text of directive d, `out`, and what snprintf made of it, r, in n bytes.
Conforms(d, out, r, n) ==
    /\ d.conv \in {"d", "i", "u", "x", "X", "o"} =>
         out = Standard(d.conv, Head(d.args), d.bits, d.prec, d.width, d.flags) \o <<"!">>
    /\ d.conv = "s" => /\ Len(out) - 1 >= d.width
                       /\ "." \in d.flags /\ d.args # <<<<"NULL">>>> =>
                              Len(out) - 1 <= IF d.prec > d.width THEN d.prec ELSE d.width
    /\ r.ret = Len(out)
    /\ n > 0 => /\ Len(r.buf) <= n /\ r.buf[Len(r.buf)] = "nul"
                /\ SubSeq(r.buf, 1, Len(r.buf) - 1) = SubSeq(out, 1, Smaller(Len(out), n - 1))

\* Every integer conversion prints what C says: sign, prefix, precision,
\* width and padding in all their combinations, up to the sizes the digit
\* buffer holds; strings are cut and padded to precision and width; and
\* snprintf stores what fits, ends it with a NUL inside the buffer, and
\* returns the length of the whole text.
PrintfAgrees ==
    job # << >> =>
        Conforms(Directive(job[1], 1, job[2]), format_string_loop(job[1], 1, job[2]),
                 vsnprintf(job[1], job[2], job[3]), job[3])
=============================================================================
