------------------------------- MODULE Console -------------------------------
(***************************************************************************)
(* The text console (drivers/vga.c) and the code that prints on it: the    *)
(* kernel thread process_A, which prints with interrupts on and can be     *)
(* interrupted between any two instructions of vga_putchar; the keyboard   *)
(* handler's echo, sys_write, the boot messages and the page-fault         *)
(* handler, which print with interrupts off.  The cursor is shared and     *)
(* has no lock.                                                            *)
(*                                                                         *)
(* The steps of process_A are the memory accesses of vga_putchar as the    *)
(* Makefile's -O2 build orders them: cursor_y and cursor_x are loaded      *)
(* once, kept in registers, and stored back, so a printer that ran in      *)
(* between is not seen.  A cell of the screen is its character: colours    *)
(* are left out.                                                           *)
(***************************************************************************)
EXTENDS Integers, SequencesExt

CONSTANTS
    VGA_ROWS, VGA_COLS,
    Glyphs,      \* characters with a cell: the space, the thread's, others
    Echoed,      \* characters the keyboard handler echoes
    Written,     \* strings programs pass to sys_write
    Banner,      \* what the kernel prints before the scheduler starts
    Addresses,   \* addresses a page fault reports
    MaxOut       \* bound: characters printed on a screen in order

NL == "\n"
Space == " "
HexDigits == <<"0", "1", "2", "3", "4", "5", "6", "7", "8", "9", "A", "B", "C", "D", "E", "F">>
Chars == Glyphs \cup {NL}

ASSUME ConsoleAssumption ==
    /\ {VGA_ROWS, VGA_COLS} \subseteq Nat \ {0} /\ MaxOut \in Nat /\ Addresses \subseteq Nat
    /\ {Space, "A", "x"} \cup {HexDigits[i] : i \in 1 .. 16} \subseteq Glyphs /\ NL \notin Glyphs
    /\ Echoed \subseteq Chars /\ Written \subseteq Seq(Chars) /\ Banner \in Seq(Chars)

VARIABLES
    vga_buf,             \* the screen and one row of VGA memory below it
    cursor_x, cursor_y,
    a,                   \* process_A: pc, character, registers, scrolled cell
    msg,                 \* what the code that runs with interrupts off still prints
    halted,
    out,                 \* history: text printed since the screen was last in order
    clean                \* history: no print has ever been interrupted by another

vars == <<vga_buf, cursor_x, cursor_y, a, msg, halted, out, clean>>

Rows == 0 .. VGA_ROWS
Cols == 0 .. VGA_COLS - 1
Steps == {"idle", "load_x", "put", "store_x", "store_y", "scroll", "home"}

TypeOK ==
    /\ vga_buf \in [Rows \X Cols -> Glyphs]
    /\ cursor_x \in Cols /\ cursor_y \in Rows
    /\ a \in [pc : Steps, c : {"A", Space}, x : Cols, y : Rows, sx : Cols, sy : Rows, torn : BOOLEAN]
    /\ halted \in BOOLEAN /\ clean \in BOOLEAN

(* vga_init, and vga_print's banner to come.                               *)
Init ==
    /\ vga_buf = [p \in Rows \X Cols |-> Space]
    /\ cursor_x = 0 /\ cursor_y = 0
    /\ a = [pc |-> "idle", c |-> Space, x |-> 0, y |-> 0, sx |-> 0, sy |-> 0, torn |-> FALSE]
    /\ msg = Banner /\ out = Banner
    /\ halted = FALSE /\ clean = TRUE

-----------------------------------------------------------------------------

(* Mutant: the row that scrolls in is not blanked.                         *)
vga_scroll_dirty(buf) ==
    [p \in Rows \X Cols |->
        IF p[1] < VGA_ROWS - 1 THEN buf[<<p[1] + 1, p[2]>>] ELSE buf[p]]

vga_scroll(buf) ==
    [p \in Rows \X Cols |->
        IF p[1] < VGA_ROWS - 1 THEN buf[<<p[1] + 1, p[2]>>]
        ELSE IF p[1] = VGA_ROWS - 1 THEN Space ELSE buf[p]]

(* vga_putchar on s = [buf, x, y] without interruption.                    *)
vga_putchar(s, c) ==
    LET wrap == c = NL \/ s.x + 1 >= VGA_COLS
        row == IF wrap THEN s.y + 1 ELSE s.y
        put == IF c = NL THEN s.buf ELSE [s.buf EXCEPT ![<<s.y, s.x>>] = c]
    IN  [buf |-> IF row >= VGA_ROWS THEN vga_scroll(put) ELSE put,
         x |-> IF wrap THEN 0 ELSE s.x + 1,
         y |-> IF row >= VGA_ROWS THEN VGA_ROWS - 1 ELSE row]

(* vga_print_hex: digits are produced from the lowest and printed from the *)
(* highest.                                                                *)
nibbles[val \in Nat] ==
    IF val = 0 THEN <<>> ELSE <<HexDigits[(val % 16) + 1]>> \o nibbles[val \div 16]

vga_print_hex(val) ==
    <<"0", "x">> \o IF val = 0 THEN <<"0">> ELSE Reverse(nibbles[val])

-----------------------------------------------------------------------------

(* process_A goes round: "A", a space, then hlt until the next interrupt.  *)
(* vga_putchar begins by loading cursor_y.                                 *)
putchar_begin ==
    /\ a.pc = "idle" /\ Len(out) < MaxOut
    /\ LET c == IF a.c = "A" THEN Space ELSE "A"
       IN  /\ a' = [a EXCEPT !.pc = "load_x", !.c = c, !.y = cursor_y, !.torn = FALSE]
           /\ out' = Append(out, c)
    /\ UNCHANGED <<vga_buf, cursor_x, cursor_y, clean>>

putchar_load_x ==
    /\ a.pc = "load_x"
    /\ a' = [a EXCEPT !.pc = "put", !.x = cursor_x]
    /\ UNCHANGED <<vga_buf, cursor_x, cursor_y, out, clean>>

putchar_put ==
    /\ a.pc = "put"
    /\ vga_buf' = [vga_buf EXCEPT ![<<a.y, a.x>>] = a.c]
    /\ a' = [a EXCEPT !.pc = "store_x"]
    /\ UNCHANGED <<cursor_x, cursor_y, out, clean>>

(* The end of vga_putchar, or the scroll, as the row in the register says. *)
(* A print others interrupted leaves a screen whose order is unknown up to *)
(* the cursor.                                                             *)
Leave(row) ==
    IF row >= VGA_ROWS
    THEN a' = [a EXCEPT !.pc = "scroll", !.y = row, !.sx = 0, !.sy = 0] /\ UNCHANGED <<out, clean>>
    ELSE /\ a' = [a EXCEPT !.pc = "idle", !.y = row]
         /\ out' = IF a.torn THEN [i \in 1 .. cursor_x' |-> Space] ELSE out
         /\ clean' = (clean /\ ~a.torn)

putchar_store_x ==
    /\ a.pc = "store_x"
    /\ IF a.x + 1 < VGA_COLS
       THEN cursor_x' = a.x + 1 /\ Leave(a.y)
       ELSE /\ cursor_x' = 0
            /\ a' = [a EXCEPT !.pc = "store_y"]
            /\ UNCHANGED <<out, clean>>
    /\ UNCHANGED <<vga_buf, cursor_y>>

(* Mutant: the test for the bottom of the screen is off by one.            *)
putchar_store_y_late ==
    /\ a.pc = "store_y"
    /\ cursor_y' = a.y + 1
    /\ UNCHANGED <<vga_buf, cursor_x>>
    /\ Leave(a.y)

putchar_store_y ==
    /\ a.pc = "store_y"
    /\ cursor_y' = a.y + 1
    /\ UNCHANGED <<vga_buf, cursor_x>>
    /\ Leave(a.y + 1)

(* vga_scroll copies, then blanks, cell by cell.                           *)
scroll_cell ==
    /\ a.pc = "scroll"
    /\ vga_buf' = [vga_buf EXCEPT ![<<a.sy, a.sx>>] =
                      IF a.sy < VGA_ROWS - 1 THEN vga_buf[<<a.sy + 1, a.sx>>] ELSE Space]
    /\ a' = IF a.sx + 1 < VGA_COLS THEN [a EXCEPT !.sx = @ + 1]
            ELSE IF a.sy + 1 < VGA_ROWS THEN [a EXCEPT !.sx = 0, !.sy = @ + 1]
            ELSE [a EXCEPT !.pc = "home"]
    /\ UNCHANGED <<cursor_x, cursor_y, out, clean>>

scroll_home ==
    /\ a.pc = "home"
    /\ cursor_y' = VGA_ROWS - 1
    /\ UNCHANGED <<vga_buf, cursor_x>>
    /\ Leave(VGA_ROWS - 1)

process_A ==
    /\ msg = <<>> /\ ~halted
    /\ \/ putchar_begin \/ putchar_load_x \/ putchar_put \/ putchar_store_x
       \/ putchar_store_y \/ scroll_cell \/ scroll_home
    /\ UNCHANGED <<msg, halted>>

(* An interrupt or a system call starts to print text, which stands for    *)
(* meant.  If process_A is in the middle of a character, that print is     *)
(* torn and nothing is known of the screen until it is over.               *)
Output(text, meant) ==
    /\ msg = <<>> /\ ~halted /\ Len(out) < MaxOut
    /\ msg' = text
    /\ a' = [a EXCEPT !.torn = a.pc # "idle"]
    /\ out' = IF a.pc = "idle" THEN out \o meant ELSE <<>>
    /\ UNCHANGED <<vga_buf, cursor_x, cursor_y, clean>>

keyboard_echo == \E c \in Echoed : Output(<<c>>, <<c>>) /\ UNCHANGED halted

sys_write == \E s \in Written : Output(s, s) /\ UNCHANGED halted

(* The numeral of v in base 16: as many digits as v needs, highest first.  *)
Numeral(v) ==
    LET n == CHOOSE k \in 1 .. 16 : v < 16^k /\ (k = 1 \/ 16^(k - 1) <= v)
    IN  [k \in 1 .. n |-> HexDigits[((v \div 16^(n - k)) % 16) + 1]]

(* page_fault_handler prints the address and stops for good.               *)
page_fault_handler ==
    /\ \E v \in Addresses :
          Output(vga_print_hex(v) \o <<NL>>, <<"0", "x">> \o Numeral(v) \o <<NL>>)
    /\ halted' = TRUE

(* vga_print, and sys_write's loop: a character at a time, none in between.*)
vga_print ==
    /\ msg # <<>>
    /\ LET s == vga_putchar([buf |-> vga_buf, x |-> cursor_x, y |-> cursor_y], Head(msg))
       IN  vga_buf' = s.buf /\ cursor_x' = s.x /\ cursor_y' = s.y
    /\ msg' = Tail(msg)
    /\ UNCHANGED <<a, halted, out, clean>>

Next == process_A \/ keyboard_echo \/ sys_write \/ page_fault_handler \/ vga_print

Spec == Init /\ [][Next]_vars

-----------------------------------------------------------------------------

(* Whoever interrupts whom, the cursor is on the screen whenever nobody is *)
(* in the middle of a print, no print ever leaves the screen's memory by   *)
(* more than the row below it, and process_A, going on with registers it   *)
(* loaded before it was interrupted, writes its character on the screen    *)
(* (vga_putchar, vga_scroll).                                              *)
CursorOnScreen ==
    /\ cursor_x \in Cols
    /\ cursor_y < VGA_ROWS \/ (cursor_y = VGA_ROWS /\ a.pc \in {"scroll", "home"})
    /\ a.pc = "put" => a.x \in Cols /\ a.y \in 0 .. VGA_ROWS - 1
    /\ a.pc = "scroll" => a.sy < VGA_ROWS

(* A text broken into lines, and the part of it a screen shows.            *)
AddChar(lines, c) ==
    LET last == Len(lines)
        longer == [lines EXCEPT ![last] = Append(@, c)]
    IN  IF c = NL THEN Append(lines, <<>>)
        ELSE IF Len(longer[last]) = VGA_COLS THEN Append(longer, <<>>) ELSE longer
Lines(text) == FoldLeft(AddChar, << <<>> >>, text)

(* Row r of a screen that shows the last lines of a text.                  *)
Row(lines, r) ==
    LET k == r + 1 + Max({0, Len(lines) - VGA_ROWS})
    IN  [x \in Cols |->
            IF k <= Len(lines) /\ x < Len(lines[k]) THEN lines[k][x + 1] ELSE Space]

(* The screen shows the last VGA_ROWS lines of what was printed, in order, *)
(* numbers as their numerals, and the cursor behind the last character:    *)
(* always while no print has been interrupted by another, and, after such  *)
(* a race has left the screen and the cursor in disorder, again once the   *)
(* output has gone on for 2 * VGA_ROWS - 2 line breaks: what a race does   *)
(* to the shared cursor never reaches later output (vga_putchar,           *)
(* vga_scroll, vga_print_hex).                                             *)
ScreenShowsOutput ==
    LET lines == Lines(out)
    IN  (a.pc = "idle" /\ msg = <<>> /\ (clean \/ Len(lines) >= 2 * VGA_ROWS - 1)) =>
            /\ \A r \in 0 .. VGA_ROWS - 1 : [x \in Cols |-> vga_buf[<<r, x>>]] = Row(lines, r)
            /\ cursor_x = Len(Last(lines))
            /\ cursor_y = Min({Len(lines), VGA_ROWS}) - 1

=============================================================================
