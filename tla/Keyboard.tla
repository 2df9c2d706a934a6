------------------------------ MODULE Keyboard -------------------------------
(***************************************************************************)
(* The keyboard driver (drivers/keyboard.c): an interrupt handler that     *)
(* fills two rings, one of key events and one of characters, and the       *)
(* system calls that empty them, with the 8042 controller it reads from.   *)
(* The handler and the calls run with interrupts off, so each is one step. *)
(* The wake-up of a blocked reader and the end-of-interrupt that close the *)
(* handler change the scheduler's and the PIC's state: see Scheduler.      *)
(***************************************************************************)
EXTENDS Integers, Sequences

CONSTANTS
    Keys,             \* scancodes
    Printing,         \* those scancode_table gives a character
    KB_BUFFER_SIZE,   \* slots of kb_buf
    KB_EVENT_BUF,     \* slots of key_events
    Burst             \* bytes the controller holds at most before the handler runs

ASSUME KeyboardAssumption ==
    /\ Printing \subseteq Keys /\ Printing # Keys
    /\ {KB_BUFFER_SIZE, KB_EVENT_BUF, Burst} \subseteq Nat \ {0}

VARIABLES
    fifo,            \* bytes waiting in the controller
    key_events, event_head, event_tail,
    kb_buf, kb_read_pos, kb_write_pos

events == <<key_events, event_head, event_tail>>
chars == <<kb_buf, kb_read_pos, kb_write_pos>>
KeyboardVars == <<fifo, key_events, event_head, event_tail, kb_buf, kb_read_pos, kb_write_pos>>

(* A byte: a key's make code, or its break code (bit 7 set).               *)
Byte == [scancode : Keys, pressed : BOOLEAN]
Zero == [scancode |-> CHOOSE k \in Keys \ Printing : TRUE, pressed |-> FALSE]

KeyboardTypeOK ==
    /\ fifo \in Seq(Byte) /\ Len(fifo) <= Burst
    /\ key_events \in [0 .. KB_EVENT_BUF - 1 -> Byte]
    /\ {event_head, event_tail} \subseteq 0 .. KB_EVENT_BUF - 1
    /\ kb_buf \in [0 .. KB_BUFFER_SIZE - 1 -> Keys]
    /\ {kb_read_pos, kb_write_pos} \subseteq 0 .. KB_BUFFER_SIZE - 1

KeyboardInit ==
    /\ fifo = <<>>
    /\ key_events = [i \in 0 .. KB_EVENT_BUF - 1 |-> Zero]
    /\ kb_buf = [i \in 0 .. KB_BUFFER_SIZE - 1 |-> Zero.scancode]
    /\ event_head = 0 /\ event_tail = 0
    /\ kb_read_pos = 0 /\ kb_write_pos = 0

(* The user presses or releases a key.                                     *)
Strike(b) ==
    /\ Len(fifo) < Burst
    /\ fifo' = Append(fifo, b)
    /\ UNCHANGED <<events, chars>>

(* A read of the data register: the next byte, or again the last one.      *)
inb(p) ==
    IF p.fifo = <<>> THEN p
    ELSE [fifo |-> Tail(p.fifo), last |-> Head(p.fifo)]

(* Mutant: an event goes in even when the ring is full.                    *)
put_event_over(b) ==
    /\ key_events' = [key_events EXCEPT ![event_tail] = b]
    /\ event_tail' = (event_tail + 1) % KB_EVENT_BUF
    /\ UNCHANGED event_head

put_event(b) ==
    LET next == (event_tail + 1) % KB_EVENT_BUF
    IN  /\ IF next # event_head
           THEN /\ key_events' = [key_events EXCEPT ![event_tail] = b]
                /\ event_tail' = next
           ELSE UNCHANGED <<key_events, event_tail>>
        /\ UNCHANGED event_head

(* Drop if full.                                                           *)
put_char(c) ==
    LET next == (kb_write_pos + 1) % KB_BUFFER_SIZE
    IN  /\ IF next # kb_read_pos
           THEN /\ kb_buf' = [kb_buf EXCEPT ![kb_write_pos] = c]
                /\ kb_write_pos' = next
           ELSE UNCHANGED <<kb_buf, kb_write_pos>>
        /\ UNCHANGED kb_read_pos

(* Mutant: the byte read first makes no event if it is a break code.       *)
keyboard_handler_make_only ==
    /\ fifo # <<>>
    /\ LET p1 == inb([fifo |-> fifo, last |-> Zero])
       IN  /\ IF p1.last.pressed THEN put_event(p1.last) ELSE UNCHANGED events
           /\ fifo' = p1.fifo
           /\ UNCHANGED chars

(* IRQ 1 is raised while the controller has a byte.  A make code makes     *)
(* the handler read the data register a second time for the character.    *)
keyboard_handler ==
    /\ fifo # <<>>
    /\ LET p1 == inb([fifo |-> fifo, last |-> Zero])
           p2 == inb(p1)
       IN  /\ put_event(p1.last)
           /\ fifo' = IF p1.last.pressed THEN p2.fifo ELSE p1.fifo
           /\ IF p1.last.pressed /\ p2.last.pressed /\ p2.last.scancode \in Printing
              THEN put_char(p2.last.scancode)
              ELSE UNCHANGED chars

(* Mutant: the read position moves two slots on.                           *)
keyboard_getchar_next ==
    /\ kb_read_pos # kb_write_pos
    /\ kb_read_pos' = (kb_read_pos + 2) % KB_BUFFER_SIZE
    /\ UNCHANGED <<fifo, events, kb_buf, kb_write_pos>>

(* sys_read and sys_getkey; with the ring empty it returns 0.              *)
keyboard_getchar ==
    /\ kb_read_pos # kb_write_pos
    /\ kb_read_pos' = (kb_read_pos + 1) % KB_BUFFER_SIZE
    /\ UNCHANGED <<fifo, events, kb_buf, kb_write_pos>>

(* sys_get_raw_key.                                                        *)
keyboard_get_event ==
    /\ event_head # event_tail
    /\ event_head' = (event_head + 1) % KB_EVENT_BUF
    /\ UNCHANGED <<fifo, key_events, event_tail, chars>>

KeyboardNext ==
    \/ \E b \in Byte : Strike(b)
    \/ keyboard_handler \/ keyboard_getchar \/ keyboard_get_event

KeyboardSpec == KeyboardInit /\ [][KeyboardNext]_KeyboardVars

-----------------------------------------------------------------------------

(* What a ring of n slots holds between its two positions, oldest first.   *)
Ring(slots, from, to, n) == [i \in 1 .. (to - from) % n |-> slots[(from + i - 1) % n]]

EventSeq == Ring(key_events, event_head, event_tail, KB_EVENT_BUF)
CharSeq == Ring(kb_buf, kb_read_pos, kb_write_pos, KB_BUFFER_SIZE)

EQ == INSTANCE DropQueue WITH Elem <- Byte, Cap <- KB_EVENT_BUF - 1, q <- EventSeq
CQ == INSTANCE DropQueue WITH Elem <- Printing, Cap <- KB_BUFFER_SIZE - 1, q <- CharSeq

(* The ring of key events is a queue of KB_EVENT_BUF - 1 places: events    *)
(* come out in the order they went in, across wrap-around and overflow.    *)
EventsAreAQueue == EQ!QSpec

(* So is the ring of characters.                                           *)
CharsAreAQueue == CQ!QSpec

(* The handler takes a byte without making a key event of it only when     *)
(* the ring is full, or when the byte was already waiting behind a make    *)
(* code: the second read of port 0x60 then swallows it, a release too.     *)
LostOnlyBehindMake ==
    [][Len(fifo') < Len(fifo) =>
         LET taken == SubSeq(fifo, 1, Len(fifo) - Len(fifo'))
         IN  \/ Len(EventSeq) = KB_EVENT_BUF - 1
             \/ EventSeq' = EventSeq \o taken
             \/ /\ Head(taken).pressed /\ Len(taken) = 2
                /\ EventSeq' = Append(EventSeq, Head(taken))]_KeyboardVars

=============================================================================
