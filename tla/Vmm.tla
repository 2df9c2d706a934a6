--------------------------------- MODULE Vmm ---------------------------------
(***************************************************************************)
(* The virtual memory manager (memory/vmm.c): four levels of page tables   *)
(* in physical frames, address spaces that share the kernel's subtree, and *)
(* the callers that put pages into them.  A page is the tuple of its four  *)
(* table indices.  The frames come from the physical memory manager (Pmm). *)
(* All of it runs with interrupts off, so vmm_map_in's switch to another   *)
(* CR3 and back is one step.                                               *)
(***************************************************************************)
EXTENDS Pmm, FiniteSetsExt, SequencesExt

CONSTANTS
    Idx,                            \* table indices (0 .. 511 in the code)
    BootPml4, BootPdpt, BootPd,     \* the tables of boot.asm
    BootHuge,                       \* entries of BootPd that boot.asm fills in
    HeapPages,                      \* sequence of pages: the kernel heap
    UserPages,                      \* pages of programs, stacks and user heaps
    FbPages, FbFrame,               \* sequence of pages for sys_map_fb; its frame
    MaxSpaces,                      \* address spaces created at most
    MaxLoose                        \* frames the tests hold at once (2)

ASSUME VmmAssumption ==
    /\ Idx \subseteq Nat /\ 0 \in Idx
    /\ {BootPml4, BootPdpt, BootPd} \subseteq KernelStart .. KernelEnd - 1 /\ FbFrame < StartFrame
    /\ \A i \in DOMAIN HeapPages : HeapPages[i][1] = 0 /\ HeapPages[i][2] # 0
    /\ \A v \in UserPages : v[1] # 0

VARIABLES
    table,     \* table[f]: what frame f holds, read as a table
    loose,     \* frames in the hands of test_pmm.c
    spaces,    \* PML4 frames made by vmm_create_address_space
    stage      \* "boot", "mapped" (vmm_init done), "up" (heap_init done), "halt"

vars == <<table, pmm_vars, loose, spaces, stage>>

Tables == Usable \cup {BootPml4, BootPdpt, BootPd}
Flags == SUBSET {"P", "W", "U", "HUGE"}
Absent == [addr |-> 0, flags |-> {}]
ZeroTable == [i \in Idx |-> Absent]

TypeOK ==
    /\ table \in [Tables -> [Idx -> [addr : Nat, flags : Flags]]]
    /\ PmmTypeOK
    /\ loose \cup spaces \subseteq held
    /\ stage \in {"boot", "mapped", "up", "halt"}

(* RAM nobody has written yet: it might look like a table.                 *)
Garbage == [i \in Idx |-> [addr |-> BootPd, flags |-> {"P", "U", "W"}]]

Huge(i) == [addr |-> i, flags |-> {"P", "W", "HUGE"}]

Init ==
    /\ table = [f \in Tables |->
         CASE f = BootPml4 -> [ZeroTable EXCEPT ![0] = [addr |-> BootPdpt, flags |-> {"P", "W"}]]
           [] f = BootPdpt -> [ZeroTable EXCEPT ![0] = [addr |-> BootPd, flags |-> {"P", "W"}]]
           [] f = BootPd -> [i \in Idx |-> IF i \in BootHuge THEN Huge(i) ELSE Absent]
           [] OTHER -> Garbage]
    /\ PmmInit
    /\ loose = {} /\ spaces = {}
    /\ stage = "boot"

(* Identity-map what is left of the first gigabyte.                        *)
vmm_init ==
    /\ stage = "boot"
    /\ table' = [table EXCEPT ![BootPd] =
                   [i \in Idx |-> IF "P" \in @[i].flags THEN @[i] ELSE Huge(i)]]
    /\ stage' = "mapped"
    /\ UNCHANGED <<pmm_vars, loose, spaces>>

-----------------------------------------------------------------------------
(* A walk is a record: the memory, the table it has reached, and whether   *)
(* it still goes on ("ok"), has no leaf frame ("null"), or has halted.     *)

Walk(pml4) == [table |-> table, avail |-> Free, at |-> pml4, end |-> "ok"]

(* pmm_alloc's answer: the lowest frame, or NULL.                          *)
first_free(free) == IF free = {} THEN 0 ELSE Min(free)

get_or_create_table(w, i, flags) ==
    LET e == w.table[w.at][i]
        f == first_free(w.avail)
    IN  IF w.end # "ok" THEN w
        ELSE IF "P" \notin e.flags /\ w.avail = {} THEN [w EXCEPT !.end = "halt"]
        ELSE IF "P" \notin e.flags
             THEN [w EXCEPT !.table = [@ EXCEPT ![f] = ZeroTable,
                                         ![w.at][i] = [addr |-> f, flags |-> flags \cup {"P"}]],
                            !.avail = @ \ {f}, !.at = f]
        ELSE IF "HUGE" \in e.flags THEN [w EXCEPT !.end = "halt"]
        ELSE [w EXCEPT !.table[w.at][i].flags = @ \cup flags, !.at = e.addr]

vmm_map(w, v, phys, flags) ==
    LET UW == {"W", "U"}
        pt == get_or_create_table(get_or_create_table(get_or_create_table(
                w, v[1], UW), v[2], UW), v[3], UW)
    IN  IF pt.end # "ok" THEN pt
        ELSE [pt EXCEPT !.table[pt.at][v[4]] = [addr |-> phys, flags |-> flags \cup {"P"}],
                        !.at = w.at]

(* The loop body of heap_init, of the loaders and of the heap calls:       *)
(* a frame for the page, then the mapping.                                 *)
map_fresh(w, v, flags) ==
    IF w.end # "ok" THEN w
    ELSE IF w.avail = {} THEN [w EXCEPT !.end = "null"]
    ELSE LET f == first_free(w.avail) IN vmm_map([w EXCEPT !.avail = @ \ {f}], v, f, flags)

Store(w) == table' = w.table /\ pmm_alloc(Free \ w.avail) /\ UNCHANGED loose

heap_flags == {"P", "W"}

heap_init ==
    /\ stage = "mapped"
    /\ LET step(w, v) == map_fresh(w, v, heap_flags)
           w == FoldLeft(step, Walk(BootPml4), HeapPages)
       IN  /\ Store(w)
           /\ stage' = IF w.end = "ok" THEN "up" ELSE "halt"
    /\ UNCHANGED spaces

(* Mutant: a new PML4 starts from an empty one.                            *)
copy_none(pml4) == ZeroTable

(* Mutant: the entries come from the address space made last.              *)
copy_last(pml4) == table[IF spaces = {} THEN pml4 ELSE Max(spaces)]

(* Every entry of the current PML4, opened to user mode where present.     *)
copy_pml4(pml4) ==
    [i \in Idx |-> LET e == table[pml4][i]
                   IN  IF "P" \in e.flags THEN [e EXCEPT !.flags = @ \cup {"U"}] ELSE e]

(* Called from kernel_main only, under the boot page table; returns 0,     *)
(* changing nothing, when there is no frame.                               *)
vmm_create_address_space ==
    /\ stage = "up" /\ Cardinality(spaces) < MaxSpaces
    /\ loose = {} /\ first_free(Free) # 0
    /\ LET new_pml4 == first_free(Free)
       IN  /\ table' = [table EXCEPT ![new_pml4] = copy_pml4(BootPml4)]
           /\ pmm_alloc({new_pml4})
           /\ spaces' = spaces \cup {new_pml4}
    /\ UNCHANGED <<loose, stage>>

(* One page of a program, its stack or its heap; remapping is allowed.     *)
vmm_map_in(s) ==
    /\ stage = "up" /\ s \in spaces
    /\ \E v \in UserPages :
         LET w == map_fresh(Walk(s), v, {"P", "W", "U"})
         IN  /\ Store(w)
             /\ stage' = IF w.end = "halt" THEN "halt" ELSE stage
    /\ UNCHANGED spaces

sys_map_fb(s) ==
    /\ stage = "up" /\ s \in spaces
    /\ LET step(w, v) == vmm_map(w, v, FbFrame, {"P", "W", "U"})
           w == FoldLeft(step, Walk(s), FbPages)
       IN  /\ Store(w)
           /\ stage' = IF w.end = "halt" THEN "halt" ELSE stage
    /\ UNCHANGED spaces

(* The walks that only read: the entry at each level, or Absent below one  *)
(* that is not present or is a huge page.                                  *)
Down(e, i) == IF "P" \in e.flags /\ "HUGE" \notin e.flags THEN table[e.addr][i] ELSE Absent

Path(pml4, v) ==
    LET l4 == table[pml4][v[1]]
        l3 == Down(l4, v[2])
        l2 == Down(l3, v[3])
        l1 == Down(l2, v[4])
    IN  <<l4, l3, l2, l1>>

(* Mutant: the walk stops one level early and clears the entry of the PT.  *)
vmm_unmap_pt(s) ==
    /\ stage = "up" /\ s \in spaces
    /\ \E v \in UserPages :
         LET p == Path(s, v)
         IN  table' = IF \E k \in 1 .. 2 : "P" \notin p[k].flags THEN table
                      ELSE [table EXCEPT ![p[2].addr][v[3]] = Absent]
    /\ UNCHANGED <<pmm_vars, loose, spaces, stage>>

(* Under the space's own CR3; the leaf's frame stays with the caller.      *)
vmm_unmap(s) ==
    /\ stage = "up" /\ s \in spaces
    /\ \E v \in UserPages :
         LET p == Path(s, v)
         IN  table' = IF \E k \in 1 .. 3 : "P" \notin p[k].flags THEN table
                      ELSE [table EXCEPT ![p[3].addr][v[4]] = Absent]
    /\ UNCHANGED <<pmm_vars, loose, spaces, stage>>

(* kernel_main runs the tests before it creates a process: frames are      *)
(* taken and given back in any order.                                      *)
test_pmm ==
    /\ stage = "up" /\ spaces = {}
    /\ \/ /\ Free # {} /\ Cardinality(loose) < MaxLoose
          /\ pmm_alloc({first_free(Free)})
          /\ loose' = loose \cup {first_free(Free)}
       \/ \E frame \in loose : pmm_free(frame) /\ loose' = loose \ {frame}
    /\ UNCHANGED <<table, spaces, stage>>

Next ==
    \/ vmm_init \/ test_pmm \/ heap_init \/ vmm_create_address_space
    \/ \E s \in spaces : vmm_map_in(s) \/ sys_map_fb(s) \/ vmm_unmap(s)

Spec == Init /\ [][Next]_vars

-----------------------------------------------------------------------------

(* The frame a page lies in, with the indices inside a huge page; <<>> is  *)
(* the 0 that says "not mapped".                                           *)
vmm_get_phys(pml4, v) ==
    LET p == Path(pml4, v)
        leaf == {k \in 2 .. 4 : "P" \in p[k].flags /\ (k = 4 \/ "HUGE" \in p[k].flags)}
    IN  IF leaf = {} THEN <<>> ELSE <<p[Min(leaf)].addr>> \o SubSeq(v, Min(leaf) + 1, 4)

(* Ring 3 may use a page if every present level of its path allows it.     *)
UserCanUse(pml4, v) ==
    /\ vmm_get_phys(pml4, v) # <<>>
    /\ \A k \in 1 .. 4 : "P" \in Path(pml4, v)[k].flags => "U" \in Path(pml4, v)[k].flags

KernelPages == {<<0, j, k, l>> : j \in Idx, k \in Idx, l \in Idx}

(* Whatever address space is loaded, the kernel finds its code, its heap   *)
(* and all of the identity-mapped memory where it left them, and no page   *)
(* of it is open to ring 3, though PML4 entries, and the tables above the  *)
(* heap, are.                                                              *)
KernelEverywhere ==
    \A s \in spaces, v \in KernelPages :
       /\ vmm_get_phys(s, v) = vmm_get_phys(BootPml4, v)
       /\ v[2] = 0 => vmm_get_phys(s, v) = <<v[3], v[4]>>
       /\ ~UserCanUse(s, v)

(* Every entry that a walk from some PML4 can meet, by the level it is at. *)
Entries(fs) ==
    {<<f, i>> \in fs \X Idx : "P" \in table[f][i].flags /\ "HUGE" \notin table[f][i].flags}
Below(fs) == {table[r[1]][r[2]].addr : r \in Entries(fs)}
Pml4s == {BootPml4} \cup spaces
Pdpts == Below(Pml4s)
Pds == Below(Pdpts)
Pts == Below(Pds)
Met == Entries(Pml4s) \cup Entries(Pdpts) \cup Entries(Pds) \cup Entries(Pts)

(* Every table is well formed, and a frame that get_or_create_table's      *)
(* walks can reach has one use: it is a table in one place of one tree, or *)
(* one mapped page; it is not available and no PML4.  Only the kernel's    *)
(* subtree hangs in several trees.                                         *)
OneUse ==
    LET met == Met
        target(r) == table[r[1]][r[2]].addr
    IN  /\ TypeOK
        /\ \A r \in met : target(r) \in Usable =>
             /\ target(r) \notin Free \cup loose \cup spaces
             /\ \A q \in met \ {r} : target(q) # target(r)

FbSet == {FbPages[i] : i \in DOMAIN FbPages}

UserMap ==
    [s \in spaces |-> [v \in UserPages \cup FbSet |->
        LET phys == vmm_get_phys(s, v) IN IF phys = <<>> THEN 0 ELSE phys[1]]]

PM == INSTANCE PageMap WITH Page <- UserPages \cup FbSet, Fb <- FbSet, Frame <- Usable,
                            Unmapped <- 0, umap <- UserMap

(* To user programs the trees of tables are flat maps, one per address     *)
(* space: mapping a page changes that page of that space and nothing else, *)
(* a new space has no user page, and no frame is in two places.            *)
ImplementsPageMap == PM!PSpec

=============================================================================
