---------------------------- MODULE DriverProofs ----------------------------
(***************************************************************************)
(* The drivers that interrupts share with the rest of the kernel: the      *)
(* cursor of the text console, for every size of screen, every text and    *)
(* every interleaving of the interrupted printer with the others; and the  *)
(* two rings of the keyboard driver, for every size, every set of keys and *)
(* every burst of bytes.                                                   *)
(***************************************************************************)
EXTENDS Console, Keyboard, TLAPS

Registers == [pc : Steps, c : {"A", Space}, x : Cols, y : Rows, sx : Cols, sy : Rows, torn : BOOLEAN]

(* The inductive invariant: while process_A has a row in its register that *)
(* it loaded and will use, that row is on the screen; the cursor is below  *)
(* the screen only between its store of cursor_y and its scroll.           *)
CInv ==
    /\ a \in Registers
    /\ cursor_x \in Cols
    /\ cursor_y \in Rows
    /\ a.pc \in {"load_x", "put", "store_x", "store_y"} => a.y < VGA_ROWS
    /\ a.pc \notin {"scroll", "home"} => cursor_y < VGA_ROWS
    /\ a.pc = "scroll" => a.sy < VGA_ROWS

(* The screen has at least one row and one column.                         *)
LEMMA ScreenSizes == VGA_ROWS \in Nat \ {0} /\ VGA_COLS \in Nat \ {0}
  BY ConsoleAssumption

(* An uninterrupted vga_putchar leaves the cursor on the screen, even if   *)
(* it found it one row below.                                              *)
LEMMA PutcharOnScreen ==
    ASSUME NEW buf, NEW x \in Cols, NEW y \in Rows, NEW c
    PROVE  LET s == vga_putchar([buf |-> buf, x |-> x, y |-> y], c)
           IN  s.x \in Cols /\ s.y \in 0 .. VGA_ROWS - 1
  BY ScreenSizes, SMT DEF vga_putchar, Rows, Cols

(* The invariant holds on the cleared screen.                              *)
LEMMA InitCInv == Init => CInv
  BY ScreenSizes DEF Init, CInv, Registers, Steps, Rows, Cols

(* Where vga_putchar goes with a row in its register.                      *)
LEMMA LeaveRegisters ==
    ASSUME a \in Registers, NEW row \in Rows, Leave(row)
    PROVE  /\ a' \in Registers
           /\ row < VGA_ROWS => a'.pc = "idle"
           /\ row = VGA_ROWS => a'.pc = "scroll" /\ a'.sy = 0
  <1>1. CASE row >= VGA_ROWS
    <2>1. a' = [a EXCEPT !.pc = "scroll", !.y = row, !.sx = 0, !.sy = 0]
      BY <1>1 DEF Leave
    <2>2. "scroll" \in Steps /\ 0 \in Cols /\ 0 \in Rows
      BY ScreenSizes DEF Steps, Rows, Cols
    <2>3. a' \in Registers
      BY <2>1, <2>2, ZenonT(60) DEF Registers
    <2>4. a'.pc = "scroll" /\ a'.sy = 0
      BY <2>1 DEF Registers
    <2>5. QED
      BY <1>1, <2>3, <2>4, ScreenSizes DEF Rows
  <1>2. CASE ~(row >= VGA_ROWS)
    <2>1. a' = [a EXCEPT !.pc = "idle", !.y = row]
      BY <1>2 DEF Leave
    <2>2. a' \in Registers
      BY <2>1, ZenonT(60) DEF Registers, Steps
    <2>3. a'.pc = "idle"
      BY <2>1 DEF Registers
    <2>4. QED
      BY <1>2, <2>2, <2>3, ScreenSizes DEF Rows
  <1>3. QED
    BY <1>1, <1>2

(* Each step of process_A preserves it.                                    *)
LEMMA ThreadCInv == CInv /\ process_A => CInv'
  <1> SUFFICES ASSUME CInv, process_A PROVE CInv'
    OBVIOUS
  <1> USE ScreenSizes DEF CInv, Rows, Cols
  <1>1. CASE putchar_begin
    BY <1>1, ZenonT(60) DEF putchar_begin, Registers, Steps
  <1>2. CASE putchar_load_x
    BY <1>2, ZenonT(60) DEF putchar_load_x, Registers, Steps
  <1>3. CASE putchar_put
    BY <1>3 DEF putchar_put, Registers, Steps
  <1>4. CASE putchar_store_x
    <2>1. CASE a.x + 1 < VGA_COLS
      <3>1. Leave(a.y) /\ a.y \in 0 .. VGA_ROWS - 1 /\ a.x \in Nat
        BY <1>4, <2>1 DEF putchar_store_x, Registers
      <3>2. a' \in Registers /\ a'.pc = "idle"
        BY <3>1, LeaveRegisters
      <3>3. QED
        BY <1>4, <2>1, <3>1, <3>2, SMTT(60) DEF putchar_store_x
    <2>2. CASE ~(a.x + 1 < VGA_COLS)
      <3>1. a' = [a EXCEPT !.pc = "store_y"] /\ cursor_x' = 0 /\ cursor_y' = cursor_y
        BY <1>4, <2>2 DEF putchar_store_x
      <3>2. QED
        BY <1>4, <3>1 DEF putchar_store_x, Registers, Steps
    <2>3. QED
      BY <2>1, <2>2
  <1>5. CASE putchar_store_y
    <2>1. a.y + 1 \in Rows /\ Leave(a.y + 1)
      BY <1>5 DEF putchar_store_y, Registers
    <2>2. a' \in Registers /\ (a.y + 1 < VGA_ROWS => a'.pc = "idle")
          /\ (a.y + 1 = VGA_ROWS => a'.pc = "scroll" /\ a'.sy = 0)
      BY <2>1, LeaveRegisters
    <2>3. QED
      BY <1>5, <2>1, <2>2 DEF putchar_store_y
  <1>6. CASE scroll_cell
    <2>1. a.sx \in Cols /\ a.sy \in 0 .. VGA_ROWS - 1
      BY <1>6 DEF scroll_cell, Registers
    <2>2. CASE a.sx + 1 < VGA_COLS
      <3>1. a' = [a EXCEPT !.sx = @ + 1]
        BY <1>6, <2>2 DEF scroll_cell
      <3>2. QED
        BY <1>6, <2>1, <2>2, <3>1 DEF scroll_cell, Registers
    <2>3. CASE ~(a.sx + 1 < VGA_COLS) /\ a.sy + 1 < VGA_ROWS
      <3>1. a' = [a EXCEPT !.sx = 0, !.sy = @ + 1]
        BY <1>6, <2>3 DEF scroll_cell
      <3>2. a' \in Registers
        <4>1. 0 \in Cols /\ a.sy + 1 \in Rows
          BY <2>1, <2>3
        <4>2. a' = [a EXCEPT !.sx = 0, !.sy = a.sy + 1]
          BY <3>1
        <4>3. QED
          BY <4>1, <4>2, ZenonT(60) DEF Registers
      <3>3. a'.pc = "scroll" /\ a'.sy = a.sy + 1
        BY <1>6, <3>1, ZenonT(60) DEF scroll_cell, Registers
      <3>4. QED
        BY <1>6, <2>3, <3>2, <3>3, SMTT(60) DEF scroll_cell
    <2>4. CASE ~(a.sx + 1 < VGA_COLS) /\ ~(a.sy + 1 < VGA_ROWS)
      <3>1. a' = [a EXCEPT !.pc = "home"]
        BY <1>6, <2>4 DEF scroll_cell
      <3>2. QED
        BY <1>6, <3>1 DEF scroll_cell, Registers, Steps
    <2>5. QED
      BY <2>2, <2>3, <2>4
  <1>7. CASE scroll_home
    <2>1. a' \in Registers /\ a'.pc = "idle"
      BY <1>7, LeaveRegisters DEF scroll_home
    <2>2. QED
      BY <1>7, <2>1 DEF scroll_home
  <1>8. QED
    BY <1>1, <1>2, <1>3, <1>4, <1>5, <1>6, <1>7 DEF process_A

(* Neither does anything that prints with interrupts off disturb it.       *)
LEMMA OutputCInv ==
    ASSUME CInv, NEW text, NEW meant, Output(text, meant)
    PROVE  CInv'
  BY ZenonT(60) DEF CInv, Registers, Output

(* Every console operation keeps the invariant.                            *)
LEMMA NextCInv == CInv /\ [Next]_vars => CInv'
  <1> SUFFICES ASSUME CInv, [Next]_vars PROVE CInv'
    OBVIOUS
  <1>1. CASE process_A
    BY <1>1, ThreadCInv
  <1>2. CASE keyboard_echo \/ sys_write \/ page_fault_handler
    BY <1>2, OutputCInv, ZenonT(60) DEF keyboard_echo, sys_write, page_fault_handler
  <1>3. CASE vga_print
    <2>1. cursor_x' \in Cols /\ cursor_y' \in 0 .. VGA_ROWS - 1 /\ a' = a
      BY <1>3, PutcharOnScreen DEF vga_print, CInv
    <2>2. QED
      BY <2>1, ScreenSizes DEF CInv, Rows
  <1>4. CASE UNCHANGED vars
    BY <1>4 DEF vars, CInv
  <1>5. QED
    BY <1>1, <1>2, <1>3, <1>4 DEF Next

(* CursorOnScreen holds for every screen size: a printer that goes on with *)
(* a stale cursor still writes on the screen, and the cursor comes back to *)
(* the screen.                                                             *)
THEOREM CursorStaysOnScreen == Spec => []CursorOnScreen
  <1>1. CInv => CursorOnScreen
    BY ScreenSizes DEF CInv, CursorOnScreen, Registers, Rows, Cols
  <1>2. QED
    BY InitCInv, NextCInv, <1>1, PTL DEF Spec

-----------------------------------------------------------------------------

(* x % n for x at most one turn away from 0 .. n-1.                        *)
LEMMA Turn ==
    ASSUME NEW n \in Nat \ {0}, NEW x \in -n .. 2 * n - 1
    PROVE  x % n = IF x < 0 THEN x + n ELSE IF x < n THEN x ELSE x - n
<1> DEFINE q == x \div n   r == x % n
<1>1. q \in Int /\ r \in 0 .. n - 1 /\ x = n * q + r
  OBVIOUS
<1> HIDE DEF q, r
<1>2. q >= 2 => n * q >= 2 * n
  BY <1>1
<1>3. q <= -2 => n * q <= -2 * n
  BY <1>1
<1>4. q \in {-1, 0, 1}
  BY <1>1, <1>2, <1>3
<1>5. r = IF x < 0 THEN x + n ELSE IF x < n THEN x ELSE x - n
  BY <1>1, <1>4
<1>6. QED
  BY <1>5 DEF r

(* The place after a place of the ring.                                    *)
LEMMA After ==
    ASSUME NEW n \in Nat \ {0}, NEW p \in 0 .. n - 1
    PROVE  (p + 1) % n = (IF p + 1 < n THEN p + 1 ELSE 0) /\ (p + 1) % n \in 0 .. n - 1
<1>1. p + 1 \in -n .. 2 * n - 1
  OBVIOUS
<1> DEFINE x == p + 1
<1>2. x % n = IF x < 0 THEN x + n ELSE IF x < n THEN x ELSE x - n
  <2> HIDE DEF x
  <2>1. x \in -n .. 2 * n - 1
    BY <1>1 DEF x
  <2>2. QED
    BY <2>1, Turn, ZenonT(60)
<1>3. QED
  BY <1>2

(* A ring without the remainders.                                          *)
Count(f, t, n) == IF f <= t THEN t - f ELSE t - f + n
Place(f, i, n) == IF f + i - 1 < n THEN f + i - 1 ELSE f + i - 1 - n
Flat(s, f, t, n) == [i \in 1 .. Count(f, t, n) |-> s[Place(f, i, n)]]
InRange(f, t, n) ==
    Count(f, t, n) \in 0 .. n - 1 /\ \A i \in 1 .. Count(f, t, n) : Place(f, i, n) \in 0 .. n - 1

(* The contents of a ring without the modulus: its length, and where each  *)
(* element lies.                                                           *)
LEMMA RingIs ==
    ASSUME NEW n \in Nat \ {0}, NEW s, NEW f \in 0 .. n - 1, NEW t \in 0 .. n - 1
    PROVE  InRange(f, t, n) /\ Ring(s, f, t, n) = Flat(s, f, t, n)
<1>1. (t - f) % n = Count(f, t, n)
  <2>1. t - f \in -n .. 2 * n - 1
    OBVIOUS
  <2>2. (t - f) % n = IF t - f < 0 THEN t - f + n ELSE IF t - f < n THEN t - f ELSE t - f - n
    BY <2>1, Turn, ZenonT(60)
  <2>3. QED
    BY <2>2 DEF Count
<1>2. Count(f, t, n) \in 0 .. n - 1
  BY DEF Count
<1>3. \A i \in 1 .. Count(f, t, n) : (f + i - 1) % n = Place(f, i, n) /\ Place(f, i, n) \in 0 .. n - 1
  <2> SUFFICES ASSUME NEW i \in 1 .. Count(f, t, n)
               PROVE  (f + i - 1) % n = Place(f, i, n) /\ Place(f, i, n) \in 0 .. n - 1
    OBVIOUS
  <2>1. i \in 1 .. n - 1
    BY <1>2
  <2> DEFINE x == f + i - 1
  <2>2. x \in -n .. 2 * n - 1 /\ x >= 0
    BY <2>1
  <2> HIDE DEF x
  <2>3. x % n = IF x < 0 THEN x + n ELSE IF x < n THEN x ELSE x - n
    BY <2>2, Turn, ZenonT(60)
  <2>4. QED
    BY <2>1, <2>2, <2>3 DEF x, Place
<1>4. QED
  BY <1>1, <1>2, <1>3, Zenon DEF Ring, Flat, InRange

(* Writing at the write position and moving on appends an element.         *)
LEMMA RingPut ==
    ASSUME NEW n \in Nat \ {0}, NEW V, NEW s \in [0 .. n - 1 -> V],
           NEW f \in 0 .. n - 1, NEW t \in 0 .. n - 1, NEW x \in V, (t + 1) % n # f
    PROVE  /\ Ring([s EXCEPT ![t] = x], f, (t + 1) % n, n) = Append(Ring(s, f, t, n), x)
           /\ Len(Ring(s, f, t, n)) < n - 1
<1> DEFINE u == (t + 1) % n
           s2 == [s EXCEPT ![t] = x]
           c == Count(f, t, n)
           d == Count(f, u, n)
<1>1. u = (IF t + 1 < n THEN t + 1 ELSE 0) /\ u \in 0 .. n - 1 /\ u # f
  BY After, ZenonT(60)
<1> HIDE DEF u
<1>2. /\ c \in 0 .. n - 1
      /\ \A i \in 1 .. c : Place(f, i, n) \in 0 .. n - 1
      /\ Ring(s, f, t, n) = [i \in 1 .. c |-> s[Place(f, i, n)]]
  <2>1. InRange(f, t, n) /\ Ring(s, f, t, n) = Flat(s, f, t, n)
    BY RingIs
  <2>2. QED
    BY <2>1 DEF InRange, Flat
<1>3. /\ d \in 0 .. n - 1
      /\ \A i \in 1 .. d : Place(f, i, n) \in 0 .. n - 1
      /\ Ring(s2, f, u, n) = [i \in 1 .. d |-> s2[Place(f, i, n)]]
  <2>1. InRange(f, u, n) /\ Ring(s2, f, u, n) = Flat(s2, f, u, n)
    BY <1>1, RingIs, ZenonT(60)
  <2>2. QED
    BY <2>1, Zenon DEF InRange, Flat
<1>4. d = c + 1 /\ Place(f, d, n) = t
  BY <1>1 DEF Count, Place
<1>5. \A i \in 1 .. c : Place(f, i, n) # t
  BY DEF Count, Place
<1> HIDE DEF c, d
<1>6. Ring(s, f, t, n) \in Seq(V) /\ Len(Ring(s, f, t, n)) = c
  BY <1>2
<1> DEFINE q == Ring(s, f, t, n)
<1>7. Append(q, x) = [i \in 1 .. c + 1 |-> IF i = c + 1 THEN x ELSE q[i]]
  BY <1>2, <1>6
<1>8. \A i \in 1 .. c + 1 : s2[Place(f, i, n)] = IF i = c + 1 THEN x ELSE q[i]
  BY <1>2, <1>3, <1>4, <1>5, SMTT(60)
<1>9. Ring(s2, f, u, n) = Append(q, x)
  BY <1>3, <1>4, <1>7, <1>8, SMTT(60)
<1>10. c < n - 1
  BY <1>2, <1>3, <1>4, SMTT(60)
<1>11. QED
  BY <1>6, <1>9, <1>10, ZenonT(60) DEF u

(* Moving the read position takes the first element off.                   *)
LEMMA RingGet ==
    ASSUME NEW n \in Nat \ {0}, NEW V, NEW s \in [0 .. n - 1 -> V],
           NEW f \in 0 .. n - 1, NEW t \in 0 .. n - 1, f # t
    PROVE  /\ Ring(s, (f + 1) % n, t, n) = Tail(Ring(s, f, t, n))
           /\ Ring(s, f, t, n) # <<>>
<1> DEFINE g == (f + 1) % n
           c == Count(f, t, n)
           d == Count(g, t, n)
<1>1. g = (IF f + 1 < n THEN f + 1 ELSE 0) /\ g \in 0 .. n - 1
  BY After, ZenonT(60)
<1> HIDE DEF g
<1>2. /\ c \in 0 .. n - 1
      /\ \A i \in 1 .. c : Place(f, i, n) \in 0 .. n - 1
      /\ Ring(s, f, t, n) = [i \in 1 .. c |-> s[Place(f, i, n)]]
  <2>1. InRange(f, t, n) /\ Ring(s, f, t, n) = Flat(s, f, t, n)
    BY RingIs
  <2>2. QED
    BY <2>1 DEF InRange, Flat
<1>3. /\ d \in 0 .. n - 1
      /\ Ring(s, g, t, n) = [i \in 1 .. d |-> s[Place(g, i, n)]]
  <2>1. InRange(g, t, n) /\ Ring(s, g, t, n) = Flat(s, g, t, n)
    BY <1>1, RingIs
  <2>2. QED
    BY <2>1 DEF InRange, Flat
<1>4. c = d + 1
  BY <1>1 DEF Count
<1>5. \A i \in 1 .. d : Place(g, i, n) = Place(f, i + 1, n)
  BY <1>1, <1>3 DEF Place
<1> HIDE DEF c, d
<1> DEFINE q == Ring(s, f, t, n)
<1>6. q \in Seq(V) /\ Len(q) = c /\ q # <<>>
  BY <1>2, <1>3, <1>4, SMTT(60)
<1>7. Tail(q) = [i \in 1 .. d |-> q[i + 1]]
  BY <1>4, <1>6
<1>8. \A i \in 1 .. d : q[i + 1] = s[Place(g, i, n)]
  BY <1>2, <1>3, <1>4, <1>5, SMTT(60)
<1>9. QED
  BY <1>3, <1>6, <1>7, <1>8, ZenonT(60) DEF g

(* A ring in which the next place is the read position has no room.        *)
LEMMA RingFull ==
    ASSUME NEW n \in Nat \ {0}, NEW V, NEW s \in [0 .. n - 1 -> V],
           NEW f \in 0 .. n - 1, NEW t \in 0 .. n - 1, (t + 1) % n = f
    PROVE  Len(Ring(s, f, t, n)) = n - 1
<1>1. f = IF t + 1 < n THEN t + 1 ELSE 0
  BY After
<1>2. InRange(f, t, n) /\ Ring(s, f, t, n) = Flat(s, f, t, n)
  BY RingIs
<1>3. Count(f, t, n) = n - 1
  BY <1>1 DEF Count
<1>4. QED
  BY <1>2, <1>3 DEF Flat

(* A ring whose two indices meet is empty.                                 *)
LEMMA RingEmpty ==
    ASSUME NEW n \in Nat \ {0}, NEW s, NEW f \in 0 .. n - 1
    PROVE  Ring(s, f, f, n) = <<>>
<1>1. InRange(f, f, n) /\ Ring(s, f, f, n) = Flat(s, f, f, n)
  BY RingIs
<1>2. Count(f, f, n) = 0
  BY DEF Count
<1>3. QED
  BY <1>1, <1>2 DEF Flat

(* The contents of a ring are a sequence of its cells' values.             *)
LEMMA RingSeq ==
    ASSUME NEW n \in Nat \ {0}, NEW V, NEW s \in [0 .. n - 1 -> V],
           NEW f \in 0 .. n - 1, NEW t \in 0 .. n - 1
    PROVE  Ring(s, f, t, n) \in Seq(V)
<1>1. InRange(f, t, n) /\ Ring(s, f, t, n) = Flat(s, f, t, n)
  BY RingIs
<1>2. QED
  BY <1>1 DEF InRange, Flat

(* The sizes of the rings and the values of their cells.                   *)
LEMMA RingSizes ==
    /\ KB_EVENT_BUF \in Nat \ {0} /\ KB_BUFFER_SIZE \in Nat \ {0} /\ Burst \in Nat \ {0}
    /\ Printing \subseteq Keys /\ Zero \in Byte
<1>1. PICK k \in Keys : k \notin Printing
  BY KeyboardAssumption
<1>2. (CHOOSE z \in Keys \ Printing : TRUE) \in Keys
  BY <1>1
<1>3. QED
  BY <1>2, KeyboardAssumption DEF Zero, Byte

(* What one run of the handler does to the controller and the rings.       *)
LEMMA Handler ==
    ASSUME KeyboardTypeOK, keyboard_handler
    PROVE  /\ fifo # <<>> /\ Head(fifo) \in Byte
           /\ put_event(Head(fifo))
           /\ \/ fifo' = Tail(fifo)
              \/ Head(fifo).pressed /\ Tail(fifo) # <<>> /\ fifo' = Tail(Tail(fifo))
           /\ UNCHANGED chars \/ \E c \in Printing : put_char(c)
<1> DEFINE p0 == [fifo |-> fifo, last |-> Zero]
           p1 == inb(p0)
           p2 == inb(p1)
<1>1. fifo # <<>> /\ fifo \in Seq(Byte)
  BY DEF keyboard_handler, KeyboardTypeOK
<1>2. p1 = [fifo |-> Tail(fifo), last |-> Head(fifo)]
  BY <1>1 DEF inb
<1>3. p2.fifo = IF Tail(fifo) = <<>> THEN Tail(fifo) ELSE Tail(Tail(fifo))
  BY <1>2, ZenonT(60) DEF inb
<1>4. /\ put_event(p1.last)
      /\ fifo' = IF p1.last.pressed THEN p2.fifo ELSE p1.fifo
      /\ IF p1.last.pressed /\ p2.last.pressed /\ p2.last.scancode \in Printing
         THEN put_char(p2.last.scancode)
         ELSE UNCHANGED chars
  BY DEF keyboard_handler
<1>5. UNCHANGED chars \/ \E c \in Printing : put_char(c)
  <2> HIDE DEF p1, p2
  <2>1. QED
    BY <1>4, Zenon
<1>6. put_event(Head(fifo))
  <2>1. p1.last = Head(fifo)
    BY <1>2
  <2> HIDE DEF p1
  <2>2. QED
    BY <1>4, <2>1
<1>7. \/ fifo' = Tail(fifo)
      \/ Head(fifo).pressed /\ Tail(fifo) # <<>> /\ fifo' = Tail(Tail(fifo))
  <2>1. p1.last = Head(fifo) /\ p1.fifo = Tail(fifo)
    BY <1>2
  <2>2. fifo' = IF p1.last.pressed THEN p2.fifo ELSE p1.fifo
    BY <1>4
  <2> HIDE DEF p1, p2
  <2>3. QED
    BY <1>3, <2>1, <2>2, SMTT(60)
<1>8. Head(fifo) \in Byte
  BY <1>1
<1>9. QED
  BY <1>1, <1>5, <1>6, <1>7, <1>8, SMTT(60)

(* One call that puts or takes: the ring as a queue.                       *)
LEMMA PutEvent ==
    ASSUME KeyboardTypeOK, NEW b \in Byte, put_event(b)
    PROVE  /\ key_events' \in [0 .. KB_EVENT_BUF - 1 -> Byte]
           /\ event_head' \in 0 .. KB_EVENT_BUF - 1 /\ event_tail' \in 0 .. KB_EVENT_BUF - 1
           /\ \/ Len(EventSeq) = KB_EVENT_BUF - 1 /\ EventSeq' = EventSeq
              \/ Len(EventSeq) < KB_EVENT_BUF - 1 /\ EventSeq' = Append(EventSeq, b)
<1> DEFINE n == KB_EVENT_BUF   u == (event_tail + 1) % n
<1>0. n \in Nat \ {0} /\ key_events \in [0 .. n - 1 -> Byte]
      /\ event_head \in 0 .. n - 1 /\ event_tail \in 0 .. n - 1
  BY RingSizes DEF KeyboardTypeOK
<1>1. u \in 0 .. n - 1
  BY <1>0, After
<1>2. /\ EventSeq = Ring(key_events, event_head, event_tail, n)
      /\ EventSeq' = Ring(key_events', event_head', event_tail', n)
  BY DEF EventSeq
<1>3. CASE u # event_head
  <2>1. key_events' = [key_events EXCEPT ![event_tail] = b] /\ event_tail' = u /\ event_head' = event_head
    BY <1>3 DEF put_event
  <2>2. /\ Ring([key_events EXCEPT ![event_tail] = b], event_head, u, n)
             = Append(Ring(key_events, event_head, event_tail, n), b)
        /\ Len(Ring(key_events, event_head, event_tail, n)) < n - 1
    BY <1>0, <1>3, RingPut, ZenonT(60)
  <2> HIDE DEF n, u
  <2>3. EventSeq' = Append(EventSeq, b) /\ Len(EventSeq) < n - 1
    BY <1>2, <2>1, <2>2, ZenonT(60)
  <2>4. key_events' \in [0 .. n - 1 -> Byte] /\ event_head' \in 0 .. n - 1 /\ event_tail' \in 0 .. n - 1
    BY <1>0, <1>1, <2>1
  <2>5. QED
    BY <2>3, <2>4 DEF n
<1>4. CASE u = event_head
  <2>1. UNCHANGED <<key_events, event_tail, event_head>>
    BY <1>4 DEF put_event
  <2>2. Len(Ring(key_events, event_head, event_tail, n)) = n - 1
    BY <1>0, <1>4, RingFull, ZenonT(60)
  <2> HIDE DEF n, u
  <2>3. QED
    BY <1>0, <1>2, <2>1, <2>2 DEF n
<1>5. QED
  BY <1>3, <1>4

(* put_char appends the character, or drops it when kb_buf is full.        *)
LEMMA PutChar ==
    ASSUME KeyboardTypeOK, NEW c \in Printing, put_char(c)
    PROVE  /\ kb_buf' \in [0 .. KB_BUFFER_SIZE - 1 -> Keys]
           /\ kb_read_pos' \in 0 .. KB_BUFFER_SIZE - 1 /\ kb_write_pos' \in 0 .. KB_BUFFER_SIZE - 1
           /\ \/ CharSeq' = CharSeq
              \/ Len(CharSeq) < KB_BUFFER_SIZE - 1 /\ CharSeq' = Append(CharSeq, c)
<1> DEFINE n == KB_BUFFER_SIZE   u == (kb_write_pos + 1) % n
<1>0. n \in Nat \ {0} /\ kb_buf \in [0 .. n - 1 -> Keys] /\ c \in Keys
      /\ kb_read_pos \in 0 .. n - 1 /\ kb_write_pos \in 0 .. n - 1
  BY RingSizes DEF KeyboardTypeOK
<1>1. u \in 0 .. n - 1
  BY <1>0, After
<1>2. /\ CharSeq = Ring(kb_buf, kb_read_pos, kb_write_pos, n)
      /\ CharSeq' = Ring(kb_buf', kb_read_pos', kb_write_pos', n)
  BY DEF CharSeq
<1>3. CASE u # kb_read_pos
  <2>1. kb_buf' = [kb_buf EXCEPT ![kb_write_pos] = c] /\ kb_write_pos' = u /\ kb_read_pos' = kb_read_pos
    BY <1>3 DEF put_char
  <2>2. /\ Ring([kb_buf EXCEPT ![kb_write_pos] = c], kb_read_pos, u, n)
             = Append(Ring(kb_buf, kb_read_pos, kb_write_pos, n), c)
        /\ Len(Ring(kb_buf, kb_read_pos, kb_write_pos, n)) < n - 1
    BY <1>0, <1>3, RingPut, ZenonT(60)
  <2> HIDE DEF n, u
  <2>3. CharSeq' = Append(CharSeq, c) /\ Len(CharSeq) < n - 1
    BY <1>2, <2>1, <2>2, ZenonT(60)
  <2>4. kb_buf' \in [0 .. n - 1 -> Keys] /\ kb_read_pos' \in 0 .. n - 1 /\ kb_write_pos' \in 0 .. n - 1
    BY <1>0, <1>1, <2>1
  <2>5. QED
    BY <2>3, <2>4 DEF n
<1>4. CASE u = kb_read_pos
  <2>1. UNCHANGED <<kb_buf, kb_write_pos, kb_read_pos>>
    BY <1>4 DEF put_char
  <2> HIDE DEF n, u
  <2>2. QED
    BY <1>0, <1>2, <2>1 DEF n
<1>5. QED
  BY <1>3, <1>4

(* keyboard_get_event takes the oldest event.                              *)
LEMMA GetEvent ==
    ASSUME KeyboardTypeOK, keyboard_get_event
    PROVE  event_head' \in 0 .. KB_EVENT_BUF - 1 /\ EventSeq # <<>> /\ EventSeq' = Tail(EventSeq)
<1> DEFINE n == KB_EVENT_BUF   u == (event_head + 1) % n
<1>0. n \in Nat \ {0} /\ key_events \in [0 .. n - 1 -> Byte] /\ event_head # event_tail
      /\ event_head \in 0 .. n - 1 /\ event_tail \in 0 .. n - 1
  BY RingSizes DEF KeyboardTypeOK, keyboard_get_event
<1>1. u \in 0 .. n - 1
  BY <1>0, After
<1>2. UNCHANGED <<key_events, event_tail>> /\ event_head' = u
  BY DEF keyboard_get_event
<1>3. /\ Ring(key_events, event_head, event_tail, n) # <<>>
      /\ Ring(key_events, u, event_tail, n) = Tail(Ring(key_events, event_head, event_tail, n))
  BY <1>0, RingGet, ZenonT(60)
<1> HIDE DEF n, u
<1>4. QED
  BY <1>1, <1>2, <1>3 DEF EventSeq, n

(* keyboard_getchar takes the oldest character.                            *)
LEMMA GetChar ==
    ASSUME KeyboardTypeOK, keyboard_getchar
    PROVE  kb_read_pos' \in 0 .. KB_BUFFER_SIZE - 1 /\ CharSeq # <<>> /\ CharSeq' = Tail(CharSeq)
<1> DEFINE n == KB_BUFFER_SIZE   u == (kb_read_pos + 1) % n
<1>0. n \in Nat \ {0} /\ kb_buf \in [0 .. n - 1 -> Keys] /\ kb_read_pos # kb_write_pos
      /\ kb_read_pos \in 0 .. n - 1 /\ kb_write_pos \in 0 .. n - 1
  BY RingSizes DEF KeyboardTypeOK, keyboard_getchar
<1>1. u \in 0 .. n - 1
  BY <1>0, After
<1>2. UNCHANGED <<kb_buf, kb_write_pos>> /\ kb_read_pos' = u
  BY DEF keyboard_getchar
<1>3. /\ Ring(kb_buf, kb_read_pos, kb_write_pos, n) # <<>>
      /\ Ring(kb_buf, u, kb_write_pos, n) = Tail(Ring(kb_buf, kb_read_pos, kb_write_pos, n))
  BY <1>0, RingGet, ZenonT(60)
<1> HIDE DEF n, u
<1>4. QED
  BY <1>1, <1>2, <1>3 DEF CharSeq, n

(* The queues and the modifier flags are well typed from the start.        *)
LEMMA KeyboardTypeInit == KeyboardInit => KeyboardTypeOK
<1>1. Zero \in Byte /\ Zero.scancode \in Keys
  BY RingSizes DEF Byte
<1>2. QED
  BY <1>1, RingSizes DEF KeyboardInit, KeyboardTypeOK

(* Every keyboard step keeps them well typed.                              *)
LEMMA KeyboardTypeStep == KeyboardTypeOK /\ [KeyboardNext]_KeyboardVars => KeyboardTypeOK'
<1> SUFFICES ASSUME KeyboardTypeOK, [KeyboardNext]_KeyboardVars
             PROVE  KeyboardTypeOK'
  OBVIOUS
<1>1. ASSUME NEW b \in Byte, Strike(b)
      PROVE  KeyboardTypeOK'
  BY <1>1, RingSizes DEF KeyboardTypeOK, Strike, events, chars
<1>2. CASE keyboard_handler
  <2>1. fifo' \in Seq(Byte) /\ Len(fifo') <= Burst
    <3>1. fifo \in Seq(Byte) /\ fifo # <<>> /\ Len(fifo) <= Burst
      BY <1>2, Handler DEF KeyboardTypeOK
    <3>2. Tail(fifo) \in Seq(Byte) /\ Len(Tail(fifo)) = Len(fifo) - 1
      BY <3>1
    <3>3. Tail(fifo) # <<>> => Tail(Tail(fifo)) \in Seq(Byte) /\ Len(Tail(Tail(fifo))) = Len(fifo) - 2
      BY <3>2
    <3>4. fifo' = Tail(fifo) \/ (Tail(fifo) # <<>> /\ fifo' = Tail(Tail(fifo)))
      BY <1>2, Handler
    <3>5. Len(fifo) \in Nat /\ Burst \in Nat
      BY <3>1, RingSizes
    <3>6. CASE fifo' = Tail(fifo)
      <4>1. Len(fifo') = Len(fifo) - 1
        BY <3>2, <3>6
      <4>2. fifo' \in Seq(Byte)
        BY <3>2, <3>6
      <4>3. QED
        BY <3>1, <3>5, <4>1, <4>2, SMTT(60)
    <3>7. CASE Tail(fifo) # <<>> /\ fifo' = Tail(Tail(fifo))
      <4>1. Len(fifo') = Len(fifo) - 2
        BY <3>3, <3>7, SMTT(60)
      <4>2. fifo' \in Seq(Byte)
        BY <3>3, <3>7
      <4>3. QED
        BY <3>1, <3>5, <4>1, <4>2, SMTT(60)
    <3>8. QED
      BY <3>4, <3>6, <3>7
  <2>2. /\ key_events' \in [0 .. KB_EVENT_BUF - 1 -> Byte]
        /\ event_head' \in 0 .. KB_EVENT_BUF - 1 /\ event_tail' \in 0 .. KB_EVENT_BUF - 1
    BY <1>2, Handler, PutEvent
  <2>3. /\ kb_buf' \in [0 .. KB_BUFFER_SIZE - 1 -> Keys]
        /\ kb_read_pos' \in 0 .. KB_BUFFER_SIZE - 1 /\ kb_write_pos' \in 0 .. KB_BUFFER_SIZE - 1
    <3>1. CASE UNCHANGED chars
      BY <3>1 DEF chars, KeyboardTypeOK
    <3>2. CASE \E c \in Printing : put_char(c)
      BY <3>2, PutChar
    <3>3. QED
      BY <1>2, <3>1, <3>2, Handler, SMTT(60)
  <2>4. QED
    BY <2>1, <2>2, <2>3 DEF KeyboardTypeOK
<1>3. CASE keyboard_getchar
  BY <1>3, GetChar DEF KeyboardTypeOK, keyboard_getchar, events
<1>4. CASE keyboard_get_event
  BY <1>4, GetEvent DEF KeyboardTypeOK, keyboard_get_event, chars
<1>5. CASE UNCHANGED KeyboardVars
  BY <1>5 DEF KeyboardTypeOK, KeyboardVars
<1>6. QED
  BY <1>1, <1>2, <1>3, <1>4, <1>5 DEF KeyboardNext

(* The positions of both rings stay inside their arrays and every slot     *)
(* keeps its type, whatever is struck and read.                            *)
THEOREM KeyboardTypes == KeyboardSpec => []KeyboardTypeOK
BY KeyboardTypeInit, KeyboardTypeStep, PTL DEF KeyboardSpec

(* The ring of key events is a first-in first-out queue that only drops    *)
(* what arrives when it is full.                                           *)
THEOREM EventsQueue == KeyboardSpec => EventsAreAQueue
<1>1. KeyboardInit => EQ!QInit
  BY RingSizes, RingEmpty DEF KeyboardInit, EQ!QInit, EventSeq
<1>2. ASSUME KeyboardTypeOK, [KeyboardNext]_KeyboardVars
      PROVE  [EQ!QNext]_EventSeq
  <2>1. ASSUME NEW b \in Byte, Strike(b)
        PROVE  UNCHANGED EventSeq
    BY <2>1 DEF Strike, events, EventSeq
  <2>2. CASE keyboard_handler
    BY <1>2, <2>2, Handler, PutEvent, SMTT(60) DEF EQ!QNext, EQ!Put
  <2>3. CASE keyboard_getchar
    BY <2>3 DEF keyboard_getchar, events, EventSeq
  <2>4. CASE keyboard_get_event
    BY <1>2, <2>4, GetEvent DEF EQ!QNext, EQ!Get
  <2>5. CASE UNCHANGED KeyboardVars
    BY <2>5, SMTT(60) DEF KeyboardVars, EventSeq
  <2>6. QED
    BY <1>2, <2>1, <2>2, <2>3, <2>4, <2>5, SMTT(60) DEF KeyboardNext
<1>3. QED
  BY <1>1, <1>2, KeyboardTypes, PTL DEF KeyboardSpec, EventsAreAQueue, EQ!QSpec

(* So is the ring of characters.                                           *)
THEOREM CharsQueue == KeyboardSpec => CharsAreAQueue
<1>1. KeyboardInit => CQ!QInit
  BY RingSizes, RingEmpty, SMTT(60) DEF KeyboardInit, CQ!QInit, CharSeq
<1>2. ASSUME KeyboardTypeOK, [KeyboardNext]_KeyboardVars
      PROVE  [CQ!QNext]_CharSeq
  <2>1. ASSUME NEW b \in Byte, Strike(b)
        PROVE  UNCHANGED CharSeq
    BY <2>1 DEF Strike, chars, CharSeq
  <2>2. CASE keyboard_handler
    <3>1. CASE UNCHANGED chars
      BY <3>1 DEF chars, CharSeq
    <3>2. CASE \E c \in Printing : put_char(c)
      BY <1>2, <3>2, PutChar, SMTT(60) DEF CQ!QNext, CQ!Put
    <3>3. QED
      BY <1>2, <2>2, <3>1, <3>2, Handler, SMTT(60)
  <2>3. CASE keyboard_getchar
    BY <1>2, <2>3, GetChar DEF CQ!QNext, CQ!Get
  <2>4. CASE keyboard_get_event
    BY <2>4 DEF keyboard_get_event, chars, CharSeq
  <2>5. CASE UNCHANGED KeyboardVars
    BY <2>5 DEF KeyboardVars, CharSeq
  <2>6. QED
    BY <1>2, <2>1, <2>2, <2>3, <2>4, <2>5 DEF KeyboardNext
<1>3. QED
  BY <1>1, <1>2, KeyboardTypes, PTL DEF KeyboardSpec, CharsAreAQueue, CQ!QSpec

(* A byte the handler takes without an event, the ring not being full, was *)
(* waiting behind a make code: nothing else is lost.                       *)
THEOREM LostBehindMake == KeyboardSpec => LostOnlyBehindMake
<1> DEFINE taken == SubSeq(fifo, 1, Len(fifo) - Len(fifo'))
           Kept == Len(fifo') < Len(fifo) =>
                     \/ Len(EventSeq) = KB_EVENT_BUF - 1
                     \/ EventSeq' = EventSeq \o taken
                     \/ /\ Head(taken).pressed /\ Len(taken) = 2
                        /\ EventSeq' = Append(EventSeq, Head(taken))
<1>1. ASSUME KeyboardTypeOK, [KeyboardNext]_KeyboardVars
      PROVE  [Kept]_KeyboardVars
  <2>0. fifo \in Seq(Byte)
    BY <1>1 DEF KeyboardTypeOK
  <2>1. ASSUME NEW b \in Byte, Strike(b)
        PROVE  Kept
    <3>1. fifo' = Append(fifo, b)
      BY <2>1 DEF Strike
    <3>2. ~(Len(fifo') < Len(fifo))
      BY <2>0, <3>1
    <3>3. QED
      BY <3>2
  <2>2. CASE keyboard_handler
    <3> DEFINE b == Head(fifo)
    <3>1. /\ fifo # <<>> /\ b \in Byte
          /\ put_event(b)
          /\ \/ fifo' = Tail(fifo)
             \/ b.pressed /\ Tail(fifo) # <<>> /\ fifo' = Tail(Tail(fifo))
      BY <1>1, <2>2, Handler
    <3>2. Len(EventSeq) = KB_EVENT_BUF - 1 \/ EventSeq' = Append(EventSeq, b)
      BY <1>1, <3>1, PutEvent
    <3>3. CASE fifo' = Tail(fifo)
      <4>1. Len(fifo) - Len(fifo') = 1
        BY <2>0, <3>1, <3>3
      <4>2. SubSeq(fifo, 1, 1) = <<b>>
        <5>1. Len(fifo) >= 1 /\ b = fifo[1]
          BY <2>0, <3>1
        <5>2. SubSeq(fifo, 1, 1) = [i \in 1 .. 1 |-> fifo[i]]
          BY <2>0, <5>1
        <5>3. <<b>> = [i \in 1 .. 1 |-> b]
          BY <3>1
        <5> HIDE DEF b
        <5>4. [i \in 1 .. 1 |-> fifo[i]] = [i \in 1 .. 1 |-> b]
          BY <5>1
        <5>5. QED
          BY <5>2, <5>3, <5>4, ZenonT(60)
      <4>3. EventSeq \in Seq(Byte)
        BY <1>1, RingSeq, RingSizes, SMTT(60) DEF EventSeq, KeyboardTypeOK
      <4>4. Append(EventSeq, b) = EventSeq \o <<b>>
        BY <3>1, <4>3
      <4>5. taken = <<b>>
        BY <4>1, <4>2
      <4> HIDE DEF taken, b
      <4>6. QED
        BY <3>2, <4>4, <4>5
    <3>4. CASE b.pressed /\ Tail(fifo) # <<>> /\ fifo' = Tail(Tail(fifo))
      <4>1. Tail(fifo) \in Seq(Byte) /\ Len(Tail(fifo)) = Len(fifo) - 1
        BY <2>0, <3>1
      <4>2. Len(fifo) >= 2 /\ Len(fifo) - Len(fifo') = 2
        BY <2>0, <3>4, <4>1
      <4>3. Len(SubSeq(fifo, 1, 2)) = 2 /\ Head(SubSeq(fifo, 1, 2)) = b
        BY <2>0, <3>1, <4>2
      <4>4. QED
        BY <3>2, <3>4, <4>2, <4>3
    <3>5. QED
      BY <3>1, <3>3, <3>4, ZenonT(60)
  <2>3. CASE keyboard_getchar \/ keyboard_get_event
    <3>1. fifo' = fifo
      BY <2>3 DEF keyboard_getchar, keyboard_get_event
    <3>2. ~(Len(fifo') < Len(fifo))
      BY <2>0, <3>1
    <3>3. QED
      BY <3>2
  <2>4. CASE UNCHANGED KeyboardVars
    BY <2>4
  <2>5. QED
    BY <1>1, <2>1, <2>2, <2>3, <2>4, SMTT(60) DEF KeyboardNext
<1>2. QED
  BY <1>1, KeyboardTypes, PTL DEF KeyboardSpec, LostOnlyBehindMake

=============================================================================
