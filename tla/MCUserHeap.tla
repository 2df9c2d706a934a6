------------------------------ MODULE MCUserHeap ------------------------------
(* Pages of three bytes: every position of the break in a page occurs.     *)
EXTENDS UserHeap, TLC

(* Less than a page, more than a page, up and down.                        *)
MCDelta == {-4, -1, 1, 2, 4}

(* Which frame is which makes no difference to any property.               *)
FrameSymmetry == Permutations(Frame)

=============================================================================
