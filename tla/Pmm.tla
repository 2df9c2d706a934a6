--------------------------------- MODULE Pmm ---------------------------------
(***************************************************************************)
(* The physical memory manager (memory/pmm.c): one bit per 4 KB frame,     *)
(* eight to a byte, set when the frame is used, and a running count of the *)
(* free ones.  A byte is the set of its bits that are 1.  The module has   *)
(* actions of its own (PmmNext) and is the memory of Vmm, whose steps make *)
(* several calls in a row.                                                 *)
(*                                                                         *)
(* `held' is not kernel state: it is the set of frames the callers got and *)
(* did not give back.  They free only what they hold.                      *)
(***************************************************************************)
EXTENDS Integers, FiniteSets

CONSTANTS
    TOTAL_FRAMES,   \* 65536 in the code
    StartFrame,     \* first frame above 1 MB (256)
    KernelStart,    \* frame of kernel_start
    KernelEnd       \* first frame past kernel_end

(* linker.ld puts the kernel at 1 MB and pmm.c assumes 256 MB of RAM.      *)
ASSUME PmmAssumption ==
    /\ TOTAL_FRAMES \in Nat /\ StartFrame \in Nat \ {0}
    /\ KernelStart \in Nat /\ KernelEnd \in Nat
    /\ TOTAL_FRAMES % 8 = 0
    /\ StartFrame <= KernelStart /\ KernelStart <= KernelEnd /\ KernelEnd <= TOTAL_FRAMES

VARIABLES bitmap, free_frame_count, held

pmm_vars == <<bitmap, free_frame_count, held>>

Frames == 0 .. TOTAL_FRAMES - 1
Bytes == 0 .. (TOTAL_FRAMES \div 8) - 1

PmmTypeOK ==
    /\ bitmap \in [Bytes -> SUBSET (0 .. 7)]
    /\ free_frame_count \in Nat
    /\ held \subseteq Frames

(* Mutant: the mask sets every bit of the byte.                            *)
set_whole_byte(fs) ==
    [b \in Bytes |-> IF \E k \in 0 .. 7 : 8 * b + k \in fs THEN 0 .. 7 ELSE bitmap[b]]

(* The bit of every frame of fs.                                           *)
bitmap_set(fs) == [b \in Bytes |-> bitmap[b] \cup {k \in 0 .. 7 : 8 * b + k \in fs}]

bitmap_clear(frame) == [bitmap EXCEPT ![frame \div 8] = @ \ {frame % 8}]

bitmap_test(frame) == frame % 8 \in bitmap[frame \div 8]

(* Mutant: the frames of the kernel image are not taken back.              *)
init_used_low(frame) == frame < StartFrame

(* Everything used, then frames from 1 MB up freed, then the kernel's      *)
(* re-reserved.                                                            *)
init_used(frame) == frame < StartFrame \/ frame \in KernelStart .. KernelEnd - 1

(* After pmm_init.                                                         *)
PmmInit ==
    /\ bitmap = [b \in Bytes |-> {k \in 0 .. 7 : init_used(8 * b + k)}]
    /\ free_frame_count = (TOTAL_FRAMES - StartFrame) - (KernelEnd - KernelStart)
    /\ held = {}

Free == {f \in Frames : ~bitmap_test(f)}

(* One call takes the first free frame; the calls of one step of a caller  *)
(* take the first ones.  A scan that finds nothing changes nothing.        *)
pmm_alloc(fs) ==
    /\ fs \subseteq Free /\ \A f \in fs, g \in Free \ fs : f < g
    /\ bitmap' = bitmap_set(fs)
    /\ free_frame_count' = free_frame_count - Cardinality(fs)
    /\ held' = held \cup fs

pmm_free(frame) ==
    /\ frame \in held
    /\ bitmap' = bitmap_clear(frame)
    /\ free_frame_count' = free_frame_count + 1
    /\ held' = held \ {frame}

PmmNext ==
    \/ \E fs \in SUBSET Free : pmm_alloc(fs)
    \/ \E frame \in Frames : pmm_free(frame)

PmmSpec == PmmInit /\ [][PmmNext]_pmm_vars

-----------------------------------------------------------------------------

(* RAM above 1 MB, without the kernel image.                               *)
Usable == (StartFrame .. TOTAL_FRAMES - 1) \ (KernelStart .. KernelEnd - 1)

(* The bitmap never shows a held frame as free, however frames that share  *)
(* a byte are allocated and freed; and no frame is lost: a usable one is   *)
(* held or free.                                                           *)
HeldOrFree == held \cap Free = {} /\ held \cup Free = Usable

(* What pmm_free_frames reports is the number of clear bits.               *)
CountExact == IsFiniteSet(Free) /\ free_frame_count = Cardinality(Free)

(* Both, through every order of allocations and frees: the bitmap, the     *)
(* count and the callers agree.                                            *)
FramesAccounted == HeldOrFree /\ CountExact

(* The manager implements the frame allocator: nothing below 1 MB and no   *)
(* frame of the kernel image is ever handed out.                           *)
Allocator == INSTANCE FrameAllocator WITH Pool <- Usable, avail <- Free

ImplementsAllocator == Allocator!FSpec

=============================================================================
