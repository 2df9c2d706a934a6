------------------------------- MODULE Loader --------------------------------
(***************************************************************************)
(* How a user process is made (process_create_elf in filesystem/elf.c and  *)
(* process_create_user in process/process.c): the steps of one call, each  *)
(* of which may fail for want of kernel heap or of frames, and the memory  *)
(* the process then starts with.  Memory is a function on byte addresses.  *)
(* The tables vmm_map_in needs are Vmm's; frames here are those of pages.  *)
(***************************************************************************)
EXTENDS Integers, Sequences, FiniteSetsExt

CONSTANTS
    PAGE,                               \* PAGE_SIZE
    USER_STACK_VIRT, USER_STACK_PAGES,
    USER_CODE_VIRT, CODE_PAGES,         \* the window process_create_user maps
    USER_HEAP_BASE,
    Files,       \* ELF files: [ok, phdrs], phdrs a sequence of program headers
    MaxFrames,   \* frames the pmm may have left
    MaxBlocks    \* blocks the kernel heap may have left

ASSUME LoaderAssumption ==
    /\ PAGE \in Nat \ {0} /\ {MaxFrames, MaxBlocks, CODE_PAGES} \subseteq Nat
    /\ {USER_STACK_VIRT, USER_CODE_VIRT, USER_HEAP_BASE} \subseteq {a \in Nat : a % PAGE = 0}
    /\ USER_STACK_PAGES \in Nat \ {0} /\ USER_STACK_PAGES * PAGE <= USER_STACK_VIRT
    /\ Files \subseteq
         [ok : BOOLEAN,
          phdrs : Seq([load : BOOLEAN, offset : Nat, vaddr : Nat, filesz : Nat, memsz : Nat])]
    /\ \A f \in Files : \A k \in DOMAIN f.phdrs : f.phdrs[k].filesz <= f.phdrs[k].memsz

VARIABLES
    pc,          \* the next step of the call; "done" or "NULL" once it has returned
    call,        \* [kind, file]: which call this is
    i,           \* its loop counter
    fd_open,     \* its descriptor is open
    kheap,       \* kernel heap blocks it holds
    blocks,      \* kernel heap blocks left
    frames,      \* frames left
    taken,       \* frames it took
    mem,         \* mem[a]: byte a of the new address space, if mapped
    last_vend,
    heap_start

LoaderVars == <<pc, call, i, fd_open, kheap, blocks, frames, taken, mem, last_vend, heap_start>>

Phdrs == call.file.phdrs
NoFile == [ok |-> FALSE, phdrs |-> <<>>]

LoaderTypeOK ==
    /\ pc \in {"open", "alloc", "kstack", "space", "stack", "code", "segments", "done", "NULL"}
    /\ call \in [kind : {"elf", "user"}, file : Files \cup {NoFile}]
    /\ i \in Nat /\ fd_open \in BOOLEAN
    /\ kheap \subseteq {"proc", "kstack"}
    /\ blocks \in 0 .. MaxBlocks /\ frames \in 0 .. MaxFrames /\ taken \in 0 .. MaxFrames
    /\ DOMAIN mem \subseteq Nat
    /\ last_vend \in Nat /\ heap_start \in Nat

LoaderInit ==
    /\ \/ \E f \in Files : call = [kind |-> "elf", file |-> f] /\ pc = "open"
       \/ call = [kind |-> "user", file |-> NoFile] /\ pc = "alloc"
    /\ i = 0 /\ fd_open = FALSE /\ kheap = {} /\ taken = 0
    /\ blocks \in 0 .. MaxBlocks /\ frames \in 0 .. MaxFrames
    /\ mem = [a \in {} |-> 0]
    /\ last_vend = 0 /\ heap_start = 0

-----------------------------------------------------------------------------

PageBytes(v) == v .. v + PAGE - 1

(* A fresh frame holds whatever was in it.                                 *)
MapPage(m, v, what) == [a \in DOMAIN m \cup PageBytes(v) |-> IF a \in PageBytes(v) THEN what ELSE m[a]]

(* ramdisk_open, ramdisk_read and the header check.                        *)
open_and_check ==
    /\ pc = "open"
    /\ fd_open' = call.file.ok
    /\ pc' = IF call.file.ok THEN "alloc" ELSE "NULL"
    /\ UNCHANGED <<call, i, kheap, blocks, frames, taken, mem, last_vend, heap_start>>

(* kcalloc of the process_t; an ELF load closes its file on failure.       *)
process_alloc_proc ==
    /\ pc = "alloc"
    /\ IF blocks = 0
       THEN pc' = "NULL" /\ fd_open' = FALSE /\ UNCHANGED <<kheap, blocks>>
       ELSE pc' = "kstack" /\ kheap' = {"proc"} /\ blocks' = blocks - 1 /\ UNCHANGED fd_open
    /\ UNCHANGED <<call, i, frames, taken, mem, last_vend, heap_start>>

(* kmalloc of the kernel stack; the process_t goes back on failure.        *)
process_alloc_stack ==
    /\ pc = "kstack"
    /\ IF blocks = 0
       THEN pc' = "NULL" /\ fd_open' = FALSE /\ kheap' = {} /\ blocks' = blocks + 1
       ELSE pc' = "space" /\ kheap' = kheap \cup {"kstack"} /\ blocks' = blocks - 1 /\ UNCHANGED fd_open
    /\ UNCHANGED <<call, i, frames, taken, mem, last_vend, heap_start>>

(* Mutant: process_destroy gives the process_t back but not its stack.     *)
destroy_proc_only ==
    /\ kheap' = kheap \ {"proc"}
    /\ blocks' = blocks + 1

process_destroy ==
    /\ kheap' = {}
    /\ blocks' = blocks + Cardinality(kheap)

create_address_space ==
    /\ pc = "space"
    /\ IF frames = 0
       THEN pc' = "NULL" /\ fd_open' = FALSE /\ process_destroy /\ UNCHANGED <<frames, taken>>
       ELSE pc' = "stack" /\ frames' = frames - 1 /\ taken' = taken + 1
            /\ UNCHANGED <<fd_open, kheap, blocks>>
    /\ i' = 0
    /\ UNCHANGED <<call, mem, last_vend, heap_start>>

(* Out of frames in the middle: NULL, with all that was taken so far kept. *)
OutOfFrames ==
    /\ frames = 0
    /\ pc' = "NULL" /\ fd_open' = FALSE
    /\ UNCHANGED <<call, i, kheap, blocks, frames, taken, mem, last_vend, heap_start>>

stack_page(k) == USER_STACK_VIRT - (USER_STACK_PAGES - k) * PAGE

map_stack ==
    /\ pc = "stack"
    /\ \/ i < USER_STACK_PAGES /\ OutOfFrames
       \/ /\ i < USER_STACK_PAGES /\ frames > 0
          /\ mem' = MapPage(mem, stack_page(i), "junk")
          /\ frames' = frames - 1 /\ taken' = taken + 1 /\ i' = i + 1
          /\ UNCHANGED <<pc, call, fd_open, kheap, blocks, last_vend, heap_start>>
       \/ /\ i = USER_STACK_PAGES
          /\ pc' = IF call.kind = "elf" THEN "segments" ELSE "code"
          /\ i' = 1
          /\ UNCHANGED <<call, fd_open, kheap, blocks, frames, taken, mem, last_vend, heap_start>>

(* process_create_user: the kernel pages from the entry function on.       *)
map_code ==
    /\ pc = "code"
    /\ mem' = [a \in DOMAIN mem \cup (USER_CODE_VIRT .. USER_CODE_VIRT + CODE_PAGES * PAGE - 1) |->
                 IF a \in USER_CODE_VIRT .. USER_CODE_VIRT + CODE_PAGES * PAGE - 1
                 THEN "kernel" ELSE mem[a]]
    /\ pc' = "done"
    /\ UNCHANGED <<call, i, fd_open, kheap, blocks, frames, taken, last_vend, heap_start>>

-----------------------------------------------------------------------------

PageStart(a) == (a \div PAGE) * PAGE

page_end(p) == PageStart(p.vaddr + p.memsz + PAGE - 1)

SegPages(p) == {v \in PageStart(p.vaddr) .. page_end(p) - 1 : v % PAGE = 0}
SegBytes(p) == p.vaddr .. p.vaddr + p.memsz - 1

IsLoaded(p) == p.load /\ p.memsz > 0

(* user_linker.ld and process.h: the program, its window and the heap lie  *)
(* above the stack, and every segment has pages of its own.                *)
ASSUME ProgramLayout ==
    /\ USER_STACK_VIRT <= USER_CODE_VIRT /\ USER_STACK_VIRT <= USER_HEAP_BASE
    /\ \A f \in Files : \A j, k \in DOMAIN f.phdrs :
         LET p == f.phdrs[j]
             q == f.phdrs[k]
         IN  /\ IsLoaded(p) => USER_STACK_VIRT <= p.vaddr
             /\ IsLoaded(p) /\ IsLoaded(q) /\ j # k => SegPages(p) \cap SegPages(q) = {}

(* Mutant: only the file's bytes are written; the rest is not zeroed.      *)
fill_file_only(m, p) ==
    [a \in DOMAIN m |-> IF a \in p.vaddr .. p.vaddr + p.filesz - 1
                        THEN <<"file", p.offset + a - p.vaddr>> ELSE m[a]]

(* Zero the segment, then read the file's part of it.                      *)
fill_segment(m, p) ==
    [a \in DOMAIN m |-> IF a \in p.vaddr .. p.vaddr + p.filesz - 1
                        THEN <<"file", p.offset + a - p.vaddr>>
                        ELSE IF a \in SegBytes(p) THEN "zero" ELSE m[a]]

vend_so_far(p) == Max({last_vend, page_end(p)})

(* One turn of the loop over program headers.  When frames run out in it,  *)
(* nothing refers to the half-made address space any more, so mem is left. *)
load_segment ==
    /\ pc = "segments" /\ i <= Len(Phdrs)
    /\ LET p == Phdrs[i]
           need == Cardinality(SegPages(p))
           mapped == [a \in DOMAIN mem \cup UNION {PageBytes(v) : v \in SegPages(p)} |->
                        IF \E v \in SegPages(p) : a \in PageBytes(v) THEN "junk" ELSE mem[a]]
       IN  IF ~IsLoaded(p)
           THEN i' = i + 1 /\ UNCHANGED <<pc, fd_open, frames, taken, mem, last_vend>>
           ELSE /\ last_vend' = vend_so_far(p)
                /\ IF need <= frames
                   THEN /\ mem' = fill_segment(mapped, p)
                        /\ frames' = frames - need /\ taken' = taken + need /\ i' = i + 1
                        /\ UNCHANGED <<pc, fd_open>>
                   ELSE /\ frames' = 0 /\ taken' = taken + frames
                        /\ pc' = "NULL" /\ fd_open' = FALSE
                        /\ UNCHANGED <<i, mem>>
    /\ UNCHANGED <<call, kheap, blocks, heap_start>>

finish_elf ==
    /\ pc = "segments" /\ i > Len(Phdrs)
    /\ fd_open' = FALSE
    /\ heap_start' = IF last_vend = 0 THEN USER_HEAP_BASE ELSE last_vend
    /\ pc' = "done"
    /\ UNCHANGED <<call, i, kheap, blocks, frames, taken, mem, last_vend>>

LoaderNext ==
    \/ open_and_check \/ process_alloc_proc \/ process_alloc_stack \/ create_address_space
    \/ map_stack \/ map_code \/ load_segment \/ finish_elf

LoaderSpec == LoaderInit /\ [][LoaderNext]_LoaderVars

-----------------------------------------------------------------------------

Loaded == {k \in DOMAIN Phdrs : IsLoaded(Phdrs[k])}

(* The process starts with the program the file describes: every byte of   *)
(* every segment is the file's, or zero beyond the file's part; and all of *)
(* the stack below USER_STACK_VIRT is mapped and nobody else's.  The heap  *)
(* that sbrk will grow begins on a page of its own, above every page of    *)
(* the program.                                                            *)
ProgramReady ==
    pc = "done" =>
        /\ \A k \in Loaded : \A z \in 0 .. Phdrs[k].memsz - 1 :
             /\ Phdrs[k].vaddr + z \in DOMAIN mem
             /\ mem[Phdrs[k].vaddr + z] =
                  IF z < Phdrs[k].filesz THEN <<"file", Phdrs[k].offset + z>> ELSE "zero"
        /\ \A a \in USER_STACK_VIRT - USER_STACK_PAGES * PAGE .. USER_STACK_VIRT - 1 :
             a \in DOMAIN mem /\ mem[a] = "junk"
        /\ call.kind = "elf" =>
             /\ heap_start % PAGE = 0
             /\ \A a \in DOMAIN mem : a < heap_start
             /\ \A k \in Loaded : \A a \in SegBytes(Phdrs[k]) : a < heap_start

(* However the call ends, its descriptor is closed, so loads that fail do  *)
(* not use up the table of 64; and one that fails before it has an address *)
(* space keeps nothing of the kernel heap.                                 *)
EarlyFailureKeepsNothing ==
    /\ LoaderTypeOK
    /\ pc \in {"done", "NULL"} => ~fd_open
    /\ pc = "NULL" /\ taken = 0 => kheap = {}

=============================================================================
