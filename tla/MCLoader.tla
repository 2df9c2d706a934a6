------------------------------ MODULE MCLoader -------------------------------
EXTENDS Loader

Seg(o, v, f, m) == [load |-> TRUE, offset |-> o, vaddr |-> v, filesz |-> f, memsz |-> m]
Note(o, v) == [load |-> FALSE, offset |-> o, vaddr |-> v, filesz |-> 2, memsz |-> 2]

(* Text and data with bss as user_linker.ld lays them out, each on pages   *)
(* of its own; the same with the headers in the other order; a header that *)
(* is not loaded and an empty one; a segment that is all bss and ends      *)
(* inside a page; no segment at all; a bad header.                         *)
MCFiles == {
    [ok |-> TRUE, phdrs |-> <<Seg(8, 20, 4, 4), Seg(12, 24, 3, 7)>>],
    [ok |-> TRUE, phdrs |-> <<Seg(12, 24, 3, 7), Seg(8, 20, 4, 4)>>],
    [ok |-> TRUE, phdrs |-> <<Note(4, 2), Seg(8, 21, 2, 2), Seg(10, 24, 0, 0)>>],
    [ok |-> TRUE, phdrs |-> <<Seg(8, 22, 0, 5), Seg(9, 32, 1, 1)>>],
    [ok |-> TRUE, phdrs |-> <<>>],
    [ok |-> FALSE, phdrs |-> <<>>]}
=============================================================================
