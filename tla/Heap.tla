-------------------------------- MODULE Heap ---------------------------------
(***************************************************************************)
(* The kernel heap (memory/heap.c): first fit over a list of blocks that   *)
(* tile one region, splitting on allocation and merging on release.  The   *)
(* list is a sequence; sizes and addresses are bytes from HEAP_START.      *)
(***************************************************************************)
EXTENDS Integers, Sequences, FiniteSetsExt

CONSTANTS
    HeapBytes,   \* HEAP_PAGES * PAGE_SIZE
    HDR,         \* sizeof(block_header_t)
    Sizes        \* sizes asked for

(* Sizes stay below 2^64 - 7, where rounding up would wrap to 0.           *)
ASSUME HeapAssumption ==
    /\ {HDR, HeapBytes} \subseteq Nat /\ Sizes \subseteq Nat \ {0}
    /\ HDR % 8 = 0 /\ HeapBytes % 8 = 0 /\ HeapBytes > HDR

VARIABLES
    blocks,   \* the list: [addr, size, free], addr being the header's
    held      \* held[ptr]: bytes asked for, of each region in use

vars == <<blocks, held>>

TypeOK ==
    /\ blocks \in Seq([addr : 0 .. HeapBytes, size : 0 .. HeapBytes, free : BOOLEAN])
    /\ \A p \in DOMAIN held : p \in 0 .. HeapBytes /\ held[p] \in Sizes

(* heap_init: one free block.                                              *)
Init ==
    /\ blocks = <<[addr |-> 0, size |-> HeapBytes - HDR, free |-> TRUE]>>
    /\ held = [p \in {} |-> 0]

(* Mutant: sizes are not rounded up.                                       *)
align_none(size) == size

align8(size) == ((size + 7) \div 8) * 8

(* Blocks a request of n bytes could take.                                 *)
Fits(n) == {i \in DOMAIN blocks : blocks[i].free /\ blocks[i].size >= n}

(* Mutant: the new block's size does not allow for its header.             *)
split_too_large(b, n) ==
    IF b.size > n + HDR + 8
    THEN <<[b EXCEPT !.size = n, !.free = FALSE],
           [addr |-> b.addr + HDR + n, size |-> b.size - n, free |-> TRUE]>>
    ELSE <<[b EXCEPT !.free = FALSE]>>

(* Block b, given to a request of n bytes: whole, or cut in two.           *)
split(b, n) ==
    IF b.size > n + HDR + 8
    THEN <<[b EXCEPT !.size = n, !.free = FALSE],
           [addr |-> b.addr + HDR + n, size |-> b.size - n - HDR, free |-> TRUE]>>
    ELSE <<[b EXCEPT !.free = FALSE]>>

(* kmalloc and kcalloc; NULL, and no change, if no block fits.             *)
kmalloc(size) ==
    LET n == align8(size)
        i == Min(Fits(n))
        p == blocks[i].addr + HDR
    IN  /\ Fits(n) # {}
        /\ blocks' = SubSeq(blocks, 1, i - 1) \o split(blocks[i], n) \o SubSeq(blocks, i + 1, Len(blocks))
        /\ held' = [q \in DOMAIN held \cup {p} |-> IF q = p THEN size ELSE held[q]]

(* Mutant: the walk ends with the first merge.                             *)
coalesce_first(bs) ==
    LET pairs == {i \in 1 .. Len(bs) - 1 : bs[i].free /\ bs[i + 1].free}
        i == Min(pairs)
    IN  IF pairs = {} THEN bs
        ELSE SubSeq(bs, 1, i - 1) \o <<[bs[i] EXCEPT !.size = @ + HDR + bs[i + 1].size]>>
               \o SubSeq(bs, i + 2, Len(bs))

(* The walk that merges every free block with the free ones after it: a    *)
(* block joins the last one behind it or becomes the last.                 *)
join(out, b) ==
    IF out # <<>> /\ out[Len(out)].free /\ b.free
    THEN [out EXCEPT ![Len(out)].size = @ + HDR + b.size]
    ELSE Append(out, b)

coalesce(bs) ==
    LET walked[k \in 0 .. Len(bs)] == IF k = 0 THEN <<>> ELSE join(walked[k - 1], bs[k])
    IN  walked[Len(bs)]

kfree(ptr) ==
    /\ blocks' = coalesce([i \in DOMAIN blocks |->
                    IF blocks[i].addr = ptr - HDR THEN [blocks[i] EXCEPT !.free = TRUE] ELSE blocks[i]])
    /\ held' = [q \in DOMAIN held \ {ptr} |-> held[q]]

Next == (\E size \in Sizes : kmalloc(size)) \/ (\E ptr \in DOMAIN held : kfree(ptr))

Spec == Init /\ [][Next]_vars

-----------------------------------------------------------------------------

(* The blocks tile the heap without gap or overlap, those in use are the   *)
(* callers', and each has the room that was asked for.                     *)
Tiling ==
    /\ TypeOK
    /\ blocks[1].addr = 0
    /\ \A i \in DOMAIN blocks :
         blocks[i].addr + HDR + blocks[i].size =
            IF i = Len(blocks) THEN HeapBytes ELSE blocks[i + 1].addr
    /\ {blocks[i].addr + HDR : i \in {k \in DOMAIN blocks : ~blocks[k].free}} = DOMAIN held
    /\ \A i \in DOMAIN blocks : ~blocks[i].free => held[blocks[i].addr + HDR] <= blocks[i].size

(* kmalloc gives up only when there really is no room: no stretch of the   *)
(* heap between the blocks in use could hold the block and its header.     *)
FailsOnlyWhenFull ==
    \A size \in Sizes : Fits(align8(size)) = {} =>
        \A a \in {8 * k : k \in 0 .. (HeapBytes - HDR - align8(size)) \div 8} :
           \E i \in DOMAIN blocks :
              /\ ~blocks[i].free
              /\ a < blocks[i].addr + HDR + blocks[i].size
              /\ blocks[i].addr < a + HDR + align8(size)

R == INSTANCE Regions WITH Header <- HDR, Align <- 8,
                           live <- {[ptr |-> p, size |-> held[p]] : p \in DOMAIN held}

(* Callers see an allocator of separate, aligned regions.                  *)
ImplementsRegions == R!RSpec

=============================================================================
