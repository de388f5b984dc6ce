------------------------------ MODULE Console -------------------------------
(***************************************************************************)
(* The x86 console: the VGA text screen with its cursor, scrolling and     *)
(* colour sequences, the ring of typed characters filled by the keyboard   *)
(* interrupt, and the three ways text reaches the screen: log lines        *)
(* (axlog), println of axstd and pinfo, pdev and pdebug (print_debug).     *)
(***************************************************************************)
EXTENDS Integers, Sequences, TLC

CONSTANTS WIDTH, HEIGHT, STDIN_BUFFER_SIZE,
          Printer, Kinds,           \* what each printer calls
          Message,                  \* kind -> the tokens of a call's text
          DebugLevels,              \* the levels set_max_level is called with
          Keys, MaxKeys,            \* typed characters; bound on them
          NIL

VARIABLES smp,                      \* the build: spinlocks only lock with smp
          vmem,                     \* video memory, off-screen part included
          current_x, current_y, current_color, vstate, val,
          log_lock, vga_lock,       \* holders of axlog's LOCK and of VGA
          stdout,                   \* holder of the Mutex of axstd's stdout
          print,                    \* printer -> the call in progress
          LEVEL_DEBUG,
          text,                     \* what should be seen: rows of <<ch, color>>
          ink,                      \* and in which colour text is now printed
          ring, head, tail, size, typed, taken

screen == <<vmem, current_x, current_y, current_color, vstate, val>>
keyvars == <<ring, head, tail, size, typed, taken>>
vars == <<smp, vmem, current_x, current_y, current_color, vstate, val, log_lock, vga_lock,
          stdout, print, LEVEL_DEBUG, text, ink, ring, head, tail, size, typed, taken>>

Cells == 0 .. 2 * HEIGHT * WIDTH - 1
At(y, x) == y * WIDTH + x
Digit == [c \in {"0", "1", "2", "3", "4", "5", "6", "7", "8", "9"} |->
            CHOOSE n \in 0..9 : <<"0", "1", "2", "3", "4", "5", "6", "7", "8", "9">>[n + 1] = c]

\* ColorCode and from_console_color; a code that is none is the default colour.
Plain == <<"Black", "Red", "Green", "Brown", "Blue", "Purple", "Cyan", "Gray">>
Bright == <<"Gray", "LightRed", "LightGreen", "Yellow", "LightBlue", "LightPurple", "LightCyan", "White">>
ColorCode == (30..37) \cup (90..97)
from_console_color(v) == IF v < 90 THEN Plain[v - 29] ELSE Bright[v - 89]
Colour(v) == IF v \in ColorCode THEN from_console_color(v) ELSE "White"

\* A token is a character, a colour sequence or the call that sets white; its
\* bytes.
Bytes(t) == IF t[1] = "ch" THEN <<t[2]>>
            ELSE <<"esc", "[">> \o t[2] \o <<"m">>
ColourOf(t) == Colour(IF Len(t[2]) = 2 THEN Digit[t[2][1]] * 10 + Digit[t[2][2]]
                      ELSE IF Len(t[2]) = 1 THEN Digit[t[2][1]] ELSE 0)

Init ==
    /\ smp \in BOOLEAN
    /\ vmem = [i \in Cells |-> IF i < HEIGHT * WIDTH THEN <<" ", "White">> ELSE <<"?", "?">>]
    /\ current_x = 0 /\ current_y = 0 /\ current_color = "White" /\ vstate = "PutChar" /\ val = 0
    /\ log_lock = NIL /\ vga_lock = NIL /\ stdout = NIL
    /\ print = [p \in Printer |-> NIL] /\ LEVEL_DEBUG = 3
    /\ text = <<<< >>>> /\ ink = "White"
    /\ ring = [i \in 0..STDIN_BUFFER_SIZE - 1 |-> NIL] /\ head = 0 /\ tail = 0 /\ size = 0
    /\ typed = << >> /\ taken = << >>

-----------------------------------------------------------------------------
\* scroll_up copies the rows up; the count, in bytes, is used as a count of
\* cells, so that as much again of the memory after the screen moves too.
scroll_up(m, y) ==
    LET line == y - HEIGHT + 1
        count == (HEIGHT - line) * WIDTH * 2
    IN  IF line > HEIGHT THEN m
        ELSE [i \in Cells |-> IF i < count THEN m[i + line * WIDTH] ELSE m[i]]

\* process_char: the state, value and colour after ch; ch is put if the state
\* is then PutChar.
process_char(ch) ==
    CASE vstate = "PutChar" -> <<IF ch = "esc" THEN "Start" ELSE "PutChar", 0, current_color>>
      [] vstate = "Start" -> <<IF ch = "[" THEN "LeftBrackets" ELSE "PutChar", 0, current_color>>
      [] vstate = "LeftBrackets" /\ ch = "m" -> <<"End", 0, "White">>
      [] vstate = "LeftBrackets" /\ ch \in DOMAIN Digit -> <<"Value", Digit[ch], current_color>>
      [] vstate = "Value" /\ ch = "m" -> <<"End", 0, Colour(val)>>
      [] vstate = "Value" /\ ch \in DOMAIN Digit -> <<"Value", (val * 10 + Digit[ch]) % 256, current_color>>
      [] vstate = "End" -> <<IF ch = "esc" THEN "Start" ELSE "PutChar", 0, current_color>>
      [] OTHER -> <<"PutChar", 0, current_color>>

\* VgaTextMode::putchar of any character but a backspace in the first column.
PutCell(ch, color) ==
    LET x0 == CASE ch = "cr" -> 0 [] ch = "nl" -> 0 [] ch = "bs" -> current_x - 1 [] OTHER -> current_x + 1
        y0 == IF ch = "nl" THEN current_y + 1 ELSE current_y
        m0 == CASE ch \in {"cr", "nl"} -> vmem
                [] ch = "bs" -> [vmem EXCEPT ![At(y0, x0)] = <<" ", color>>]
                [] OTHER -> [vmem EXCEPT ![At(y0, current_x)] = <<ch, color>>]
        x1 == IF x0 >= WIDTH THEN 0 ELSE x0
        y1 == IF x0 >= WIDTH THEN y0 + 1 ELSE y0
    IN  /\ current_x' = x1
        /\ current_y' = (IF y1 >= HEIGHT THEN HEIGHT - 1 ELSE y1)
        /\ vmem' = (IF y1 >= HEIGHT THEN scroll_up(m0, y1) ELSE m0)

\* putchar, under the lock of the screen. A backspace in the first column
\* takes one from 0, which panics here or at the index.
putchar(ch) ==
    LET r == process_char(ch)
        left == r[1] = "PutChar" /\ ch = "bs" /\ current_x = 0
    IN  /\ vstate' = (IF left THEN "panic" ELSE r[1]) /\ val' = r[2] /\ current_color' = r[3]
        /\ IF r[1] = "PutChar" /\ ~left THEN PutCell(ch, r[3]) ELSE UNCHANGED <<vmem, current_x, current_y>>

-----------------------------------------------------------------------------
\* What the text of the calls should look like: rows of coloured characters,
\* the last HEIGHT of them, the last row the one being written.
LastRows(rows) == IF Len(rows) > HEIGHT THEN SubSeq(rows, Len(rows) - HEIGHT + 1, Len(rows)) ELSE rows
Show(t) ==
    LET n == Len(text)
        row == text[n]
    IN  IF t[1] = "color" THEN ink' = ColourOf(t) /\ UNCHANGED text
        ELSE /\ UNCHANGED ink
             /\ text' = CASE t[2] = "nl" -> LastRows(Append(text, << >>))
                          [] t[2] = "bs" /\ row = << >> -> text
                          [] t[2] = "bs" -> [text EXCEPT ![n] = SubSeq(@, 1, Len(@) - 1)]
                          [] OTHER -> LET longer == Append(row, <<t[2], ink>>)
                                      IN  IF Len(longer) = WIDTH
                                          THEN LastRows(Append([text EXCEPT ![n] = longer], << >>))
                                          ELSE [text EXCEPT ![n] = longer]

\* On one CPU a printer that disabled interrupts runs alone.
IrqsOff(p) == log_lock = p \/ vga_lock = p
Runs(p) == vstate # "panic" /\ (smp \/ \A q \in Printer \ {p} : ~IrqsOff(q))
Begin(p, kind) == print' = [print EXCEPT ![p] = [kind |-> kind, toks |-> Message[kind], done |-> 0]]

\* print_fmt of axlog: LOCK is held for the whole text.
print_fmt(p) == log_lock = NIL /\ log_lock' = p /\ UNCHANGED stdout

\* A log line, of an enabled level, goes through print_fmt; println does in an
\* smp build, and in the other holds the Mutex of stdout.
log(p) ==
    /\ print[p] = NIL /\ Runs(p) /\ "log" \in Kinds[p] /\ print_fmt(p) /\ Begin(p, "log")
    /\ UNCHANGED <<smp, vga_lock, LEVEL_DEBUG, text, ink, screen, keyvars>>
print_impl(p) ==
    /\ print[p] = NIL /\ Runs(p) /\ "println" \in Kinds[p] /\ Begin(p, "println")
    /\ IF smp THEN print_fmt(p) ELSE stdout = NIL /\ stdout' = p /\ UNCHANGED log_lock
    /\ UNCHANGED <<smp, vga_lock, LEVEL_DEBUG, text, ink, screen, keyvars>>

\* set_max_level of the screen; nothing orders it with the calls it is about.
set_max_level(level) ==
    /\ vstate # "panic" /\ LEVEL_DEBUG' = level
    /\ UNCHANGED <<smp, log_lock, vga_lock, stdout, print, text, ink, screen, keyvars>>

\* print_debug: a level above LEVEL_DEBUG is an error. It takes the lock of the
\* screen, sets the colour of the level's prefix and writes through putchar,
\* which takes that lock again; after the prefix it sets the colour to white.
Level(kind) == CASE kind = "pinfo" -> 1 [] kind = "pdev" -> 2 [] kind = "pdebug" -> 3
PrefixColor(level) == CASE level = 1 -> "LightGreen" [] level = 2 -> "LightBlue" [] level = 3 -> "Yellow"
print_debug(p, kind) ==
    /\ print[p] = NIL /\ Runs(p) /\ kind \in Kinds[p]
    /\ IF Level(kind) > LEVEL_DEBUG THEN UNCHANGED <<vga_lock, print, current_color, ink>>
       ELSE /\ vga_lock = NIL /\ vga_lock' = p /\ Begin(p, kind)
            /\ current_color' = PrefixColor(Level(kind)) /\ ink' = PrefixColor(Level(kind))
    /\ UNCHANGED <<smp, log_lock, stdout, LEVEL_DEBUG, text, vmem, current_x, current_y, vstate, val, keyvars>>

SetWhite(p) ==
    /\ print[p] # NIL /\ Runs(p) /\ print[p].toks # << >> /\ Head(print[p].toks)[1] = "set_color"
    /\ current_color' = "White" /\ ink' = "White" /\ print' = [print EXCEPT ![p].toks = Tail(@)]
    /\ UNCHANGED <<smp, log_lock, vga_lock, stdout, LEVEL_DEBUG, text, vmem, current_x, current_y, vstate, val, keyvars>>

\* One byte of the call's text.
WriteByte(p) ==
    /\ print[p] # NIL /\ Runs(p) /\ print[p].toks # << >> /\ Head(print[p].toks)[1] # "set_color"
    /\ smp => vga_lock = NIL
    /\ LET t == Head(print[p].toks)
           i == print[p].done + 1
       IN  /\ putchar(Bytes(t)[i])
           /\ IF i = Len(Bytes(t))
              THEN print' = [print EXCEPT ![p].toks = Tail(@), ![p].done = 0] /\ Show(t)
              ELSE print' = [print EXCEPT ![p].done = i] /\ UNCHANGED <<text, ink>>
    /\ UNCHANGED <<smp, log_lock, vga_lock, stdout, LEVEL_DEBUG, keyvars>>

\* The end of the call drops its guards.
Return(p) ==
    /\ print[p] # NIL /\ Runs(p) /\ print[p].toks = << >> /\ print' = [print EXCEPT ![p] = NIL]
    /\ log_lock' = (IF log_lock = p THEN NIL ELSE log_lock)
    /\ vga_lock' = (IF vga_lock = p THEN NIL ELSE vga_lock)
    /\ stdout' = (IF stdout = p THEN NIL ELSE stdout)
    /\ UNCHANGED <<smp, LEVEL_DEBUG, text, ink, screen, keyvars>>

-----------------------------------------------------------------------------
\* StdinBuffer::push drops what does not fit; pop takes the oldest.
push(c) ==
    IF size < STDIN_BUFFER_SIZE
    THEN /\ ring' = [ring EXCEPT ![tail] = c] /\ tail' = (tail + 1) % STDIN_BUFFER_SIZE
         /\ size' = size + 1 /\ typed' = Append(typed, c) /\ UNCHANGED head
    ELSE UNCHANGED <<ring, head, tail, size, typed>>
\* A scancode may give no character.
keyboard_irq_handler(c) ==
    /\ Len(typed) < MaxKeys /\ (IF c = "none" THEN UNCHANGED <<ring, head, tail, size, typed>> ELSE push(c))
    /\ UNCHANGED <<smp, log_lock, vga_lock, stdout, print, LEVEL_DEBUG, text, ink, taken, screen>>
pop ==
    /\ size > 0 /\ taken' = Append(taken, ring[head])
    /\ head' = (head + 1) % STDIN_BUFFER_SIZE /\ size' = size - 1
    /\ UNCHANGED <<smp, log_lock, vga_lock, stdout, print, LEVEL_DEBUG, text, ink, ring, tail, typed, screen>>

\* Screen and keyboard share nothing.
PrintNext ==
    \/ \E p \in Printer : \/ log(p) \/ print_impl(p) \/ SetWhite(p) \/ WriteByte(p) \/ Return(p)
                          \/ \E kind \in {"pinfo", "pdev", "pdebug"} : print_debug(p, kind)
    \/ \E level \in DebugLevels : set_max_level(level)
KeyNext == pop \/ \E c \in Keys \cup {"none"} : keyboard_irq_handler(c)

-----------------------------------------------------------------------------
\* The screen shows the last rows of what was printed, in its colours and up
\* to the cursor, with no byte of a colour sequence in it: the cursor, the
\* wrap, the scrolling and the state machine of the sequences agree with the
\* text, whichever calls are interrupted by which.
ScreenShowsText ==
    /\ current_y = Len(text) - 1 /\ current_x = Len(text[Len(text)]) /\ current_x < WIDTH
    /\ \A y \in DOMAIN text : \A x \in DOMAIN text[y] : vmem[At(y - 1, x - 1)] = text[y][x]

\* With smp, the text of a log line or of a println is never mixed with that
\* of another (stdio.rs: "to avoid interleaving with kernel logs").
LinesWhole ==
    \A p, q \in Printer : smp /\ print[p] # NIL /\ print[q] # NIL /\ p # q =>
        {print[p].kind, print[q].kind} \cap {"pinfo", "pdev", "pdebug"} # {}

\* Typed characters are read once and in order; those that found the ring
\* full are dropped.
KeysInOrder == taken \o [i \in 1..size |-> ring[(head + i - 1) % STDIN_BUFFER_SIZE]] = typed

ConsoleFaithful == ScreenShowsText /\ LinesWhole /\ KeysInOrder

\* "Prints to the standard output with pinfo log." (axstd macros.rs)
PinfoPrints ==
    \A p \in Printer : (print[p] # NIL /\ print[p].kind = "pinfo") ~> (print[p] = NIL)
=============================================================================
