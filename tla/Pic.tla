--------------------------------- MODULE Pic ---------------------------------
(***************************************************************************)
(* The pair of 8259A interrupt controllers and the driver of it            *)
(* (drivers/pic.c).  Line 2 of the master is the slave's output; a request *)
(* of a slave line in service also occupies line 2.  The chips themselves  *)
(* are external: requests, priorities, the in-service bits and what the    *)
(* command words do to them are modelled from how the driver uses them.    *)
(***************************************************************************)
EXTENDS Integers

CONSTANT Wired    \* lines with a device

ASSUME PicAssumption == Wired \subseteq (0 .. 15) \ {2} /\ {0, 1} \subseteq Wired

VARIABLES
    imr,    \* masked lines
    irr,    \* latched requests
    isr,    \* lines in service
    icw2    \* first vectors of master and slave

pic == <<imr, irr, isr, icw2>>

(* As the firmware leaves them: any mask, the vectors of real mode.        *)
PicInit ==
    /\ imr \in SUBSET (Wired \cup {2})
    /\ irr = {} /\ isr = {}
    /\ icw2 = <<8, 112>>

vector(l) == IF l < 8 THEN icw2[1] + l ELSE icw2[2] + l - 8

(* Nothing of the same or a higher priority is in service.                 *)
Unblocked(l) ==
    IF l < 8 THEN isr \cap (0 .. l) = {}
    ELSE 2 \notin imr /\ isr \cap ((0 .. 2) \cup (8 .. l)) = {}

(* Priorities fall from 0, 1, the slave's 8 to 15, to 3 ... 7.             *)
Rank(l) == IF l < 2 THEN l ELSE IF l < 8 THEN l + 8 ELSE l - 6

Raised == {l \in irr \ imr : Unblocked(l)}

(* The line the controller presents to the CPU.                            *)
Presented(l) == l \in Raised /\ \A k \in Raised : Rank(l) <= Rank(k)

Request(l) ==
    /\ l \in Wired
    /\ irr' = irr \cup {l}
    /\ UNCHANGED <<imr, isr, icw2>>

Acknowledge(l) ==
    /\ irr' = irr \ {l}
    /\ isr' = isr \cup IF l < 8 THEN {l} ELSE {2, l}
    /\ UNCHANGED <<imr, icw2>>

(* ICW1 resets both chips, mask included; the saved masks are put back.    *)
pic_init ==
    /\ icw2' = <<32, 40>>
    /\ irr' = {} /\ isr' = {}
    /\ UNCHANGED imr

(* A non-specific end of interrupt drops the chip's highest line.          *)
Served(lines) == {l \in isr \cap lines : \A k \in isr \cap lines : l <= k}

(* Mutant: a request of the master is acknowledged at the slave.           *)
pic_send_eoi_slave(irq) ==
    /\ isr' = isr \ Served(8 .. 15)
    /\ UNCHANGED <<imr, irr, icw2>>

pic_send_eoi(irq) ==
    /\ isr' = isr \ (Served(0 .. 7) \cup IF irq < 8 THEN {} ELSE Served(8 .. 15))
    /\ UNCHANGED <<imr, irr, icw2>>

pic_unmask(irq) ==
    /\ imr' = imr \ {irq}
    /\ UNCHANGED <<irr, isr, icw2>>

=============================================================================
