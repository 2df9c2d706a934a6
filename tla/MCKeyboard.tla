----------------------------- MODULE MCKeyboard ------------------------------
(* The keys that print are interchangeable.                                *)
EXTENDS Keyboard, TLC

PrintingSymmetry == Permutations(Printing)

=============================================================================
