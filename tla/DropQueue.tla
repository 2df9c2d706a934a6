------------------------------ MODULE DropQueue ------------------------------
(***************************************************************************)
(* A bounded first-in first-out queue that drops what arrives when it is   *)
(* full: what a ring buffer between an interrupt handler and its readers   *)
(* promises.                                                               *)
(***************************************************************************)
EXTENDS Naturals, Sequences

CONSTANTS Elem, Cap

VARIABLE q

QInit == q = <<>>
Put(x) == Len(q) < Cap /\ q' = Append(q, x)
Get == q # <<>> /\ q' = Tail(q)

QNext == Get \/ \E x \in Elem : Put(x)
QSpec == QInit /\ [][QNext]_q
=============================================================================
