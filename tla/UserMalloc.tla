----------------------------- MODULE UserMalloc ------------------------------
(***************************************************************************)
(* The allocator linked into user programs (user/malloc.c): first fit over *)
(* a doubly linked list of blocks that grows with sbrk.  Headers stay in   *)
(* memory where they were written, so the header of a block merged into    *)
(* another is there for a second free to meet, until the memory is given   *)
(* to the program again.  magic and free always change together and are    *)
(* one field here.                                                         *)
(***************************************************************************)
EXTENDS Integers, FiniteSetsExt, SequencesExt

CONSTANTS
    Start,    \* the break when the program starts
    Limit,    \* the kernel refuses to move the break beyond it
    HDR,      \* sizeof(blk_t)
    Sizes     \* sizes asked for

(* Sizes stay below 2^64 - 7, where rounding up would wrap to 0.           *)
ASSUME MallocAssumption ==
    Start \in Nat \ {0} /\ Start % 8 = 0 /\ Limit \in Nat /\ HDR % 8 = 0 /\ Sizes \subseteq Nat \ {0}

VARIABLES
    hdr,         \* hdr[a]: the header written at a: [size, free, next, prev]
    heap_list,   \* address of the first header
    brk,         \* the kernel's break
    held         \* held[ptr]: bytes asked for, of each region in use

vars == <<hdr, heap_list, brk, held>>

NULL == 0
Memory == [hdr |-> hdr, heap_list |-> heap_list, brk |-> brk, ret |-> NULL]
Addr == Start .. Limit

TypeOK ==
    /\ \A a \in DOMAIN hdr :
         /\ a \in Addr /\ hdr[a].size \in 0 .. Limit /\ hdr[a].free \in BOOLEAN
         /\ {hdr[a].next, hdr[a].prev} \subseteq Addr \cup {NULL}
    /\ heap_list \in Addr \cup {NULL}
    /\ brk \in Addr
    /\ \A p \in DOMAIN held : p \in Addr /\ held[p] \in Sizes

Init ==
    /\ hdr = [a \in {} |-> 0]
    /\ heap_list = NULL
    /\ brk = Start
    /\ held = [p \in {} |-> 0]

-----------------------------------------------------------------------------
(* What the functions do to the memory m.                                  *)

ALIGN8(n) == ((n + 7) \div 8) * 8

(* The headers a walk along next meets, from a on.                         *)
RECURSIVE Chain(_, _)
Chain(h, a) == IF a = NULL THEN <<>> ELSE <<a>> \o Chain(h, h[a].next)

Write(h, a, rec) == [x \in DOMAIN h \cup {a} |-> IF x = a THEN rec ELSE h[x]]
SetPrev(h, a, p) == IF a = NULL THEN h ELSE [h EXCEPT ![a].prev = p]

(* The kernel gives bytes more, or says -1.                                *)
blk_extend(m, bytes, prev) ==
    IF m.brk + HDR + bytes > Limit THEN [m EXCEPT !.ret = NULL]
    ELSE [hdr |-> LET h == Write(m.hdr, m.brk,
                              [size |-> bytes, free |-> FALSE, next |-> NULL, prev |-> prev])
                  IN  IF prev = NULL THEN h ELSE [h EXCEPT ![prev].next = m.brk],
          heap_list |-> IF prev = NULL THEN m.brk ELSE m.heap_list,
          brk |-> m.brk + HDR + bytes,
          ret |-> m.brk + HDR]

(* Mutant: the block after the new one keeps its old prev.                 *)
split_keeps_prev(h, b, n) ==
    IF h[b].size >= n + HDR + 8
    THEN LET tail == b + HDR + n
         IN  [Write(h, tail, [size |-> h[b].size - n - HDR, free |-> TRUE,
                              next |-> h[b].next, prev |-> b])
                EXCEPT ![b].next = tail, ![b].size = n]
    ELSE h

(* Cut block b after n bytes if a header and 8 bytes are left.             *)
split(h, b, n) ==
    IF h[b].size >= n + HDR + 8
    THEN LET tail == b + HDR + n
             cut == Write(h, tail, [size |-> h[b].size - n - HDR, free |-> TRUE,
                                    next |-> h[b].next, prev |-> b])
         IN  [SetPrev(cut, h[b].next, tail) EXCEPT ![b].next = tail, ![b].size = n]
    ELSE h

(* Block b is the program's, old headers inside it included.               *)
give(h, b) ==
    [a \in {x \in DOMAIN h : x <= b \/ x >= b + HDR + h[b].size} |->
        IF a = b THEN [h[b] EXCEPT !.free = FALSE] ELSE h[a]]

do_malloc(m, size) ==
    LET n == ALIGN8(size)
        list == Chain(m.hdr, m.heap_list)
        fit == {i \in DOMAIN list : m.hdr[list[i]].free /\ m.hdr[list[i]].size >= n}
        b == list[Min(fit)]
    IN  IF fit = {} THEN blk_extend(m, n, IF list = <<>> THEN NULL ELSE Last(list))
        ELSE [m EXCEPT !.hdr = give(split(m.hdr, b, n), b), !.ret = b + HDR]

(* Block b takes in block n, its neighbour on the right.                   *)
absorb(h, b, n) ==
    SetPrev([h EXCEPT ![b].size = @ + HDR + h[n].size, ![b].next = h[n].next], h[n].next, b)

(* Mutant: the double-free guard is missing.                               *)
do_free_unguarded(h, ptr) ==
    LET b == ptr - HDR
        h1 == [h EXCEPT ![b].free = TRUE]
        h2 == IF h1[b].next # NULL /\ h1[h1[b].next].free THEN absorb(h1, b, h1[b].next) ELSE h1
    IN  IF h2[b].prev # NULL /\ h2[h2[b].prev].free THEN absorb(h2, h2[b].prev, b) ELSE h2

do_free(h, ptr) ==
    LET b == ptr - HDR
        h1 == [h EXCEPT ![b].free = TRUE]
        h2 == IF h1[b].next # NULL /\ h1[h1[b].next].free THEN absorb(h1, b, h1[b].next) ELSE h1
    IN  IF h[b].free THEN h
        ELSE IF h2[b].prev # NULL /\ h2[h2[b].prev].free THEN absorb(h2, h2[b].prev, b)
        ELSE h2

-----------------------------------------------------------------------------

Store(m) == hdr' = m.hdr /\ heap_list' = m.heap_list /\ brk' = m.brk

Hold(s, p, size) == [q \in s \cup {p} |-> IF q = p THEN size ELSE held[q]]

(* malloc and calloc.                                                      *)
malloc(size) ==
    LET m == do_malloc(Memory, size)
    IN  /\ Store(m)
        /\ held' = IF m.ret = NULL THEN held ELSE Hold(DOMAIN held, m.ret, size)

free(ptr) ==
    /\ hdr' = do_free(hdr, ptr)
    /\ held' = [q \in DOMAIN held \ {ptr} |-> held[q]]
    /\ UNCHANGED <<heap_list, brk>>

(* Mutant: the block is freed before the new one is taken.                 *)
realloc_free_first(ptr, size) ==
    LET m == do_malloc([Memory EXCEPT !.hdr = do_free(hdr, ptr)], size)
    IN  IF hdr[ptr - HDR].size >= ALIGN8(size)
        THEN held' = [held EXCEPT ![ptr] = size] /\ UNCHANGED <<hdr, heap_list, brk>>
        ELSE /\ m.ret # NULL
             /\ Store(m)
             /\ held' = Hold(DOMAIN held \ {ptr}, m.ret, size)

(* In place if the block is large enough; otherwise a new block, a copy of *)
(* all bytes of the old one, and a free.  NULL leaves the old one in use.  *)
(* With no block to resize it is malloc, with no size it is free.          *)
realloc(ptr, size) ==
    LET m == do_malloc(Memory, size)
    IN  IF hdr[ptr - HDR].size >= ALIGN8(size)
        THEN held' = [held EXCEPT ![ptr] = size] /\ UNCHANGED <<hdr, heap_list, brk>>
        ELSE /\ m.ret # NULL
             /\ Store([m EXCEPT !.hdr = do_free(m.hdr, ptr)])
             /\ held' = Hold(DOMAIN held \ {ptr}, m.ret, size)

Next ==
    \/ \E size \in Sizes : malloc(size)
    \/ \E ptr \in DOMAIN held : free(ptr) \/ \E size \in Sizes : realloc(ptr, size)

Spec == Init /\ [][Next]_vars

-----------------------------------------------------------------------------

Blocks == Chain(hdr, heap_list)

(* The list and the memory agree: blocks follow each other without a gap   *)
(* from the start to the break, prev is the inverse of next, those in use  *)
(* are the callers', and each has the room that was asked for; and merging *)
(* with the direct neighbours is enough: no two free blocks are ever next  *)
(* to each other.                                                          *)
ListIsMemory ==
    /\ TypeOK
    /\ \A i \in DOMAIN Blocks :
         LET b == hdr[Blocks[i]]
         IN  /\ Blocks[i] + HDR + b.size = IF i = Len(Blocks) THEN brk ELSE Blocks[i + 1]
             /\ b.prev = IF i = 1 THEN NULL ELSE Blocks[i - 1]
             /\ ~b.free => Blocks[i] + HDR \in DOMAIN held /\ held[Blocks[i] + HDR] <= b.size
    /\ \A i \in 1 .. Len(Blocks) - 1 : ~(hdr[Blocks[i]].free /\ hdr[Blocks[i + 1]].free)
    /\ heap_list \in {NULL, Start}
    /\ \A p \in DOMAIN held : Contains(Blocks, p - HDR) /\ ~hdr[p - HDR].free

R == INSTANCE Regions WITH Header <- HDR, Align <- 8,
                           live <- {[ptr |-> p, size |-> held[p]] : p \in DOMAIN held}

(* The program sees separate, aligned regions; realloc moves a region only *)
(* to one apart from it, so its copy reads what the program wrote.         *)
ImplementsRegions == R!RSpec

(* A second free of a region that nobody was given since changes nothing:  *)
(* the old header still says free, even inside a merged block.             *)
DoubleFreeIgnored ==
    [][\A p \in DOMAIN held \ DOMAIN held' :
         DOMAIN held' \subseteq DOMAIN held => do_free(hdr', p) = hdr']_vars

=============================================================================
