------------------------------- MODULE UserHeap -------------------------------
(***************************************************************************)
(* The heap of a user process: sbrk, and the Linux calls brk and mmap, all *)
(* of which move heap_end and map fresh frames behind it                   *)
(* (syscall/syscall.c).  A page table is a flat map from pages to frames   *)
(* here; which frame pmm_alloc picks is left open.  System calls run with  *)
(* interrupts off, so each is one step.                                    *)
(***************************************************************************)
EXTENDS Integers

CONSTANTS
    Proc,        \* processes made by process_create_elf
    Frame,       \* frames pmm_alloc has to give
    NoFrame,     \* an absent page table entry
    PAGE_SIZE,   \* bytes in a page
    StartPage,   \* first page of the heap; the pages below hold the program
    MaxPage,     \* pages a program may ask for end here
    Delta        \* arguments of sbrk, in bytes, and of mmap when positive

ASSUME UserHeapAssumption ==
    /\ PAGE_SIZE \in Nat \ {0}
    /\ StartPage \in Nat \ {0} /\ MaxPage \in Nat /\ StartPage <= MaxPage
    /\ Delta \subseteq Int
    /\ NoFrame \notin Frame

VARIABLES
    heap_end,    \* process_t.heap_end
    page,        \* page[p][v]: the frame page v of p is mapped to
    free,        \* frames pmm_alloc can still give
    hung         \* brk found no frame: `while(1)' with interrupts off

UserHeapVars == <<heap_end, page, free, hung>>

Pages == 0 .. MaxPage - 1
Top == PAGE_SIZE * MaxPage
heap_start == PAGE_SIZE * StartPage

(* process_create_elf: the image is mapped, the heap is empty.             *)
UserHeapInit ==
    /\ heap_end = [p \in Proc |-> heap_start]
    /\ \E g \in [Proc \X (0 .. StartPage - 1) -> Frame] :
         /\ \A x, y \in DOMAIN g : x # y => g[x] # g[y]
         /\ page = [p \in Proc |-> [v \in Pages |-> IF v < StartPage THEN g[<<p, v>>] ELSE NoFrame]]
         /\ free = {f \in Frame : \A x \in DOMAIN g : g[x] # f}
    /\ hung = FALSE

(* Mutant: the division rounds down.                                       *)
PageDown(x) == x \div PAGE_SIZE

(* Bytes to pages, rounded up.                                             *)
PageUp(x) == (x + PAGE_SIZE - 1) \div PAGE_SIZE

(* Mutant: the frames stay marked free.                                    *)
map_shared(p, a, b, done) ==
    \E g \in [a .. b - 1 -> free] :
       /\ done
       /\ page' = [page EXCEPT ![p] = [v \in Pages |-> IF v \in DOMAIN g THEN g[v] ELSE page[p][v]]]
       /\ UNCHANGED free

(* The loop `pmm_alloc, vmm_map_in' over the pages a, a+1 ... of p below b. *)
(* When it is not done, it used up every frame before it reached b.        *)
map_pages(p, a, b, done) ==
    \E k \in 0 .. MaxPage : \E g \in [a .. a + k - 1 -> free] :
       /\ \A v, w \in DOMAIN g : v # w => g[v] # g[w]
       /\ IF done THEN k = (IF a < b THEN b - a ELSE 0)
                  ELSE a + k < b /\ \A f \in free : \E v \in DOMAIN g : g[v] = f
       /\ page' = [page EXCEPT ![p] = [v \in Pages |-> IF v \in DOMAIN g THEN g[v] ELSE page[p][v]]]
       /\ free' = {f \in free : \A v \in DOMAIN g : g[v] # f}

(* Mutant: a partly used last page is counted as not yet mapped.           *)
pages_floor(end) == IF end > heap_start THEN PageDown(end - heap_start) ELSE 0

(* old_pages and new_pages.                                                *)
pages_of(end) == IF end > heap_start THEN PageUp(end - heap_start) ELSE 0

(* sys_sbrk from the break `old', which mmap has just rounded up.          *)
grow(p, old, increment) ==
    LET new == old + increment
        a == StartPage + pages_of(old)
        b == StartPage + pages_of(new)
    IN  /\ new \in 0 .. Top
        /\ \/ map_pages(p, a, b, TRUE) /\ heap_end' = [heap_end EXCEPT ![p] = new]
           \/ map_pages(p, a, b, FALSE) /\ heap_end' = [heap_end EXCEPT ![p] = old]

sys_sbrk(p) ==
    /\ ~hung
    /\ \E increment \in Delta \ {0} : grow(p, heap_end[p], increment)
    /\ UNCHANGED hung

(* linux_syscall_dispatch, case 9; munmap is ignored.                      *)
mmap(p) ==
    /\ ~hung
    /\ \E arg2 \in {d \in Delta : d > 0} :
         grow(p, PAGE_SIZE * PageUp(heap_end[p]), PAGE_SIZE * PageUp(arg2))
    /\ UNCHANGED hung

(* linux_syscall_dispatch, case 12.                                        *)
brk(p) ==
    /\ ~hung
    /\ \E target_addr \in heap_start .. Top :
         LET a == PageUp(heap_end[p])
             b == PageUp(target_addr)
         IN  \/ /\ target_addr > heap_end[p]
                /\ map_pages(p, a, b, TRUE)
                /\ heap_end' = [heap_end EXCEPT ![p] = target_addr]
                /\ UNCHANGED hung
             \/ /\ target_addr > heap_end[p]
                /\ map_pages(p, a, b, FALSE)
                /\ hung' = TRUE
                /\ UNCHANGED heap_end
             \/ /\ target_addr <= heap_end[p]
                /\ heap_end' = [heap_end EXCEPT ![p] = target_addr]
                /\ UNCHANGED <<page, free, hung>>

UserHeapNext == \E p \in Proc : sys_sbrk(p) \/ mmap(p) \/ brk(p)

UserHeapSpec == UserHeapInit /\ [][UserHeapNext]_UserHeapVars

-----------------------------------------------------------------------------

UserHeapTypeOK ==
    /\ heap_end \in [Proc -> 0 .. Top]
    /\ page \in [Proc -> [Pages -> Frame \cup {NoFrame}]]
    /\ free \subseteq Frame
    /\ hung \in BOOLEAN

(* Every byte below the break is backed by a frame, whichever of the three *)
(* calls moved the break there, by however many bytes, and whatever failed *)
(* half way before.                                                        *)
HeapBacked ==
    \A p \in Proc, v \in Pages :
       heap_start <= PAGE_SIZE * v /\ PAGE_SIZE * v < heap_end[p] => page[p][v] # NoFrame

(* No frame backs two pages, of one process or of two, and none that is    *)
(* mapped can be given out again.                                          *)
FramesPrivate ==
    \A p, q \in Proc, v, w \in Pages :
       page[p][v] # NoFrame =>
          /\ page[p][v] \notin free
          /\ page[p][v] = page[q][w] => p = q /\ v = w

(* A call never exchanges the frame of a page that holds data: neither one *)
(* below the break, the partly used last page included, nor, as long as    *)
(* the break is not below heap_start, one of the program.                  *)
DataKept ==
    [][\A p \in Proc, v \in Pages :
         heap_start <= heap_end[p] /\ PAGE_SIZE * v < heap_end[p] => page'[p][v] = page[p][v]]_UserHeapVars

=============================================================================
