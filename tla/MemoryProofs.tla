----------------------------- MODULE MemoryProofs -----------------------------
(***************************************************************************)
(* The physical memory manager is correct for every amount of memory and   *)
(* every size of kernel.  Then the memory a process starts with, for every *)
(* file laid out as the linker does and every amount of kernel heap and    *)
(* frames.                                                                 *)
(***************************************************************************)
EXTENDS Pmm, Loader, FiniteSetTheorems, TLAPS

-----------------------------------------------------------------------------
(* The physical memory manager.                                            *)

(* A frame's byte and bit exist, and determine the frame.                  *)
LEMMA FrameBits ==
    /\ \A f \in Frames : f \div 8 \in Bytes /\ f % 8 \in 0 .. 7 /\ f = 8 * (f \div 8) + (f % 8)
    /\ \A b \in Bytes, k \in 0 .. 7 : 8 * b + k \in Frames
<1>1. ASSUME NEW f \in Frames
      PROVE  f \div 8 \in Bytes /\ f % 8 \in 0 .. 7 /\ f = 8 * (f \div 8) + (f % 8)
  <2>1. f \in Nat /\ f < TOTAL_FRAMES /\ TOTAL_FRAMES \in Nat /\ TOTAL_FRAMES % 8 = 0
    BY PmmAssumption DEF Frames
  <2>2. f \div 8 \in Int /\ f % 8 \in 0 .. 7 /\ f = 8 * (f \div 8) + (f % 8)
    BY <2>1
  <2>3. TOTAL_FRAMES \div 8 \in Int /\ TOTAL_FRAMES = 8 * (TOTAL_FRAMES \div 8)
    BY <2>1
  <2>4. QED
    BY <2>1, <2>2, <2>3 DEF Bytes
<1>2. ASSUME NEW b \in Bytes, NEW k \in 0 .. 7 PROVE 8 * b + k \in Frames
  BY PmmAssumption DEF Frames, Bytes
<1>3. QED
  BY <1>1, <1>2

(* Setting bits removes their frames from the free ones, clearing a bit    *)
(* adds one, and neither touches another frame of the byte.                *)
LEMMA SetBits ==
    ASSUME bitmap \in [Bytes -> SUBSET (0 .. 7)], NEW fs \in SUBSET Frames,
           bitmap' = bitmap_set(fs)
    PROVE  bitmap' \in [Bytes -> SUBSET (0 .. 7)] /\ Free' = Free \ fs
<1>1. \A f \in Frames : bitmap_test(f)' <=> (bitmap_test(f) \/ f \in fs)
  <2> SUFFICES ASSUME NEW f \in Frames
               PROVE  bitmap_test(f)' <=> (bitmap_test(f) \/ f \in fs)
    OBVIOUS
  <2> DEFINE b == f \div 8   j == f % 8
  <2>1. b \in Bytes /\ j \in 0 .. 7 /\ f = 8 * b + j
    BY FrameBits
  <2>2. bitmap_test(f)' <=> j \in bitmap'[b]
    BY DEF bitmap_test
  <2>3. bitmap_test(f) <=> j \in bitmap[b]
    BY DEF bitmap_test
  <2> HIDE DEF b, j
  <2>4. bitmap'[b] = bitmap[b] \cup {k \in 0 .. 7 : 8 * b + k \in fs}
    BY <2>1 DEF bitmap_set
  <2>5. QED
    BY <2>1, <2>2, <2>3, <2>4
<1>2. bitmap' \in [Bytes -> SUBSET (0 .. 7)]
  BY DEF bitmap_set
<1>3. QED
  BY <1>1, <1>2 DEF Free

(* bitmap_clear frees one frame and touches no other.                      *)
LEMMA ClearBit ==
    ASSUME bitmap \in [Bytes -> SUBSET (0 .. 7)], NEW x \in Frames, bitmap' = bitmap_clear(x)
    PROVE  bitmap' \in [Bytes -> SUBSET (0 .. 7)] /\ Free' = Free \cup {x}
<1>1. \A f \in Frames : bitmap_test(f)' <=> (bitmap_test(f) /\ f # x)
  <2> SUFFICES ASSUME NEW f \in Frames
               PROVE  bitmap_test(f)' <=> (bitmap_test(f) /\ f # x)
    OBVIOUS
  <2>1. f \div 8 \in Bytes /\ x \div 8 \in Bytes
        /\ (f \div 8 = x \div 8 /\ f % 8 = x % 8 => f = x)
    BY FrameBits DEF Frames
  <2> DEFINE b == f \div 8   c == x \div 8   j == f % 8   k == x % 8
  <2>2. bitmap_test(f)' <=> j \in bitmap'[b]
    BY DEF bitmap_test
  <2>3. bitmap_test(f) <=> j \in bitmap[b]
    BY DEF bitmap_test
  <2>4. bitmap' = [bitmap EXCEPT ![c] = @ \ {k}]
    BY DEF bitmap_clear
  <2>5. f = x => b = c /\ j = k
    OBVIOUS
  <2> HIDE DEF b, c, j, k
  <2>6. QED
    BY <2>1, <2>2, <2>3, <2>4, <2>5 DEF b, c, j, k
<1>2. bitmap' \in [Bytes -> SUBSET (0 .. 7)]
  BY FrameBits, ZenonT(60) DEF bitmap_clear
<1>3. QED
  BY <1>1, <1>2 DEF Free

PmmIInv == PmmTypeOK /\ HeldOrFree /\ CountExact

(* pmm_init leaves exactly the usable frames free, and counts them.        *)
LEMMA PmmInitFacts == PmmInit => PmmIInv /\ Free = Usable
<1> SUFFICES ASSUME PmmInit PROVE PmmIInv /\ Free = Usable
  OBVIOUS
<1> USE PmmAssumption
<1>1. bitmap \in [Bytes -> SUBSET (0 .. 7)]
  BY DEF PmmInit
<1>2. \A f \in Frames : bitmap_test(f) <=> init_used(f)
  <2> SUFFICES ASSUME NEW f \in Frames PROVE bitmap_test(f) <=> init_used(f)
    OBVIOUS
  <2> DEFINE b == f \div 8   k == f % 8
  <2>1. b \in Bytes /\ k \in 0 .. 7 /\ f = 8 * b + k
    BY FrameBits
  <2>2. bitmap_test(f) <=> k \in bitmap[b]
    BY DEF bitmap_test
  <2> HIDE DEF b, k
  <2>3. QED
    BY <2>1, <2>2 DEF PmmInit
<1>3. Free = Usable
  BY <1>2 DEF Free, Usable, init_used, Frames
<1> DEFINE All == StartFrame .. TOTAL_FRAMES - 1
           Kern == KernelStart .. KernelEnd - 1
<1>4. IsFiniteSet(All) /\ Cardinality(All) = TOTAL_FRAMES - StartFrame
  <2>1. StartFrame \in Int /\ TOTAL_FRAMES - 1 \in Int
    OBVIOUS
  <2>2. /\ IsFiniteSet(All)
        /\ Cardinality(All) = IF StartFrame > TOTAL_FRAMES - 1 THEN 0
                              ELSE (TOTAL_FRAMES - 1) - StartFrame + 1
    BY <2>1, FS_Interval, Zenon
  <2> HIDE DEF All
  <2>3. QED
    BY <2>2
<1>5. IsFiniteSet(Kern) /\ Cardinality(Kern) = KernelEnd - KernelStart
  BY FS_Interval
<1>6. All \cap Kern = Kern
  OBVIOUS
<1>7. IsFiniteSet(All \ Kern) /\ Cardinality(All \ Kern) = Cardinality(All) - Cardinality(All \cap Kern)
  BY <1>4, FS_Difference, ZenonT(60)
<1>8. IsFiniteSet(Free) /\ free_frame_count = Cardinality(Free)
  BY <1>3, <1>4, <1>5, <1>6, <1>7, ZenonT(60) DEF PmmInit, Usable
<1>9. free_frame_count \in Nat
  BY DEF PmmInit
<1>10. QED
  BY <1>1, <1>3, <1>8, <1>9 DEF PmmInit, PmmIInv, PmmTypeOK, HeldOrFree, CountExact

(* One step of the manager on its free set: what the proofs below need.    *)
LEMMA PmmSteps ==
    ASSUME PmmIInv, PmmNext
    PROVE  /\ PmmIInv'
           /\ \/ \E fs \in SUBSET Free : Free' = Free \ fs /\ held' = held \cup fs
              \/ \E x \in held : Free' = Free \cup {x} /\ held' = held \ {x}
<1> USE PmmAssumption
<1>0. IsFiniteSet(Free) /\ free_frame_count = Cardinality(Free) /\ Cardinality(Free) \in Nat
      /\ held \cap Free = {} /\ held \cup Free = Usable
      /\ bitmap \in [Bytes -> SUBSET (0 .. 7)] /\ held \subseteq Frames
  BY FS_CardinalityType DEF PmmIInv, CountExact, HeldOrFree, PmmTypeOK
<1>1. CASE \E fs \in SUBSET Free : pmm_alloc(fs)
  <2>1. PICK fs \in SUBSET Free : pmm_alloc(fs)
    BY <1>1
  <2>2. bitmap' = bitmap_set(fs) /\ held' = held \cup fs
        /\ free_frame_count' = free_frame_count - Cardinality(fs)
    BY <2>1 DEF pmm_alloc
  <2>3. fs \subseteq Frames
    BY <2>1 DEF Free
  <2>4. bitmap' \in [Bytes -> SUBSET (0 .. 7)] /\ Free' = Free \ fs
    BY <1>0, <2>2, <2>3, SetBits
  <2>5. IsFiniteSet(Free') /\ Cardinality(Free') = Cardinality(Free) - Cardinality(fs)
    <3>1. Free \cap fs = fs
      OBVIOUS
    <3>2. QED
      BY <1>0, <2>4, <3>1, FS_Difference, ZenonT(60)
  <2>6. Cardinality(Free') \in Nat
    BY <2>5, FS_CardinalityType
  <2>7. PmmIInv'
    BY <1>0, <2>1, <2>2, <2>3, <2>4, <2>5, <2>6 DEF PmmIInv, PmmTypeOK, HeldOrFree, CountExact, Usable
  <2>8. QED
    BY <2>1, <2>2, <2>4, <2>7
<1>2. CASE \E frame \in Frames : pmm_free(frame)
  <2>1. PICK x \in Frames : pmm_free(x)
    BY <1>2
  <2>2. x \in held /\ x \notin Free
    BY <1>0, <2>1 DEF pmm_free
  <2>3. bitmap' \in [Bytes -> SUBSET (0 .. 7)] /\ Free' = Free \cup {x}
    BY <1>0, <2>1, ClearBit DEF pmm_free
  <2>4. IsFiniteSet(Free') /\ Cardinality(Free') = Cardinality(Free) + 1
    BY <1>0, <2>2, <2>3, FS_AddElement
  <2>5. PmmIInv'
    BY <1>0, <2>1, <2>2, <2>3, <2>4 DEF pmm_free, PmmIInv, PmmTypeOK, HeldOrFree, CountExact, Usable
  <2>6. QED
    BY <2>1, <2>2, <2>3, <2>5 DEF pmm_free
<1>3. QED
  BY <1>1, <1>2 DEF PmmNext

(* The bitmap, the count and the callers agree in every reachable state,   *)
(* however the frames of one byte are allocated and freed (pmm_alloc and   *)
(* pmm_free in pmm.c).                                                     *)
THEOREM PmmInvariant == PmmSpec => [](PmmTypeOK /\ FramesAccounted)
<1>1. PmmInit => PmmIInv
  BY PmmInitFacts
<1>2. PmmIInv /\ [PmmNext]_pmm_vars => PmmIInv'
  <2>1. PmmIInv /\ UNCHANGED pmm_vars => PmmIInv'
    BY DEF pmm_vars, PmmIInv, PmmTypeOK, HeldOrFree, CountExact, Free, bitmap_test
  <2>2. QED
    BY <2>1, PmmSteps
<1>3. QED
  <2>1. PmmIInv => PmmTypeOK /\ FramesAccounted
    BY DEF PmmIInv, FramesAccounted
  <2>2. QED
    BY <1>1, <1>2, <2>1, PTL DEF PmmSpec

(* pmm.c implements the frame allocator over the usable frames: it hands   *)
(* out no frame below 1 MB, none of the kernel's, and none twice.          *)
THEOREM PmmImplements == PmmSpec => ImplementsAllocator
<1>1. PmmInit => Allocator!FInit
  BY PmmInitFacts DEF PmmInit, Allocator!FInit
<1>2. PmmIInv /\ [PmmNext]_pmm_vars => [Allocator!Grant \/ Allocator!Return]_Allocator!fvars
  <2> SUFFICES ASSUME PmmIInv, [PmmNext]_pmm_vars PROVE [Allocator!Grant \/ Allocator!Return]_Allocator!fvars
    OBVIOUS
  <2>2. CASE UNCHANGED pmm_vars
    BY <2>2 DEF pmm_vars, Allocator!fvars, Free, bitmap_test
  <2>3. CASE PmmNext
    <3>1. CASE \E fs \in SUBSET Free : Free' = Free \ fs /\ held' = held \cup fs
      BY <3>1 DEF Allocator!Grant
    <3>2. CASE \E x \in held : Free' = Free \cup {x} /\ held' = held \ {x}
      BY <3>2 DEF Allocator!Return
    <3>3. QED
      BY <2>3, <3>1, <3>2, PmmSteps
  <2>4. QED
    BY <2>2, <2>3
<1>3. PmmSpec => []PmmIInv
  <2>1. PmmTypeOK /\ FramesAccounted => PmmIInv
    BY DEF PmmIInv, FramesAccounted
  <2>2. QED
    BY <2>1, PmmInvariant, PTL
<1>4. QED
  BY <1>1, <1>2, <1>3, PTL DEF PmmSpec, ImplementsAllocator, Allocator!FSpec

-----------------------------------------------------------------------------
(* The loader.                                                             *)

(* Addresses of pages are at least a page apart.                           *)
LEMMA PagesApart ==
    ASSUME NEW x \in Int, NEW y \in Int, x % PAGE = 0, y % PAGE = 0, x < y
    PROVE  x + PAGE <= y
<1> DEFINE q == x \div PAGE   c == y \div PAGE
<1>1. PAGE \in Nat /\ PAGE > 0
  BY LoaderAssumption
<1>2. q \in Int /\ c \in Int /\ x = PAGE * q /\ y = PAGE * c
  BY <1>1
<1> HIDE DEF q, c
<1>3. q < c
  <2> SUFFICES ASSUME q >= c PROVE FALSE
    BY <1>2
  <2>1. q - c \in Nat /\ q = c + (q - c)
    BY <1>2
  <2>2. PAGE * q = PAGE * c + PAGE * (q - c) /\ PAGE * (q - c) >= 0
    BY <1>1, <1>2, <2>1
  <2>3. QED
    BY <1>1, <1>2, <2>2
<1>4. PAGE * c = PAGE * q + PAGE + PAGE * (c - q - 1) /\ PAGE * (c - q - 1) >= 0
  BY <1>1, <1>2, <1>3
<1>5. QED
  BY <1>1, <1>2, <1>4

(* PageStart rounds down to a page.                                        *)
LEMMA PageStartFacts ==
    ASSUME NEW a \in Nat
    PROVE  /\ PageStart(a) \in Nat /\ PageStart(a) % PAGE = 0
           /\ PageStart(a) <= a /\ a < PageStart(a) + PAGE
<1> DEFINE q == a \div PAGE   r == a % PAGE
<1>1. PAGE \in Nat /\ PAGE > 0
  BY LoaderAssumption
<1>2. q \in Int /\ r \in 0 .. PAGE - 1 /\ a = PAGE * q + r
  BY <1>1
<1>3. PageStart(a) = q * PAGE
  BY DEF PageStart
<1> HIDE DEF q, r
<1>4. q * PAGE = PAGE * q /\ q * PAGE \in Int /\ (q * PAGE) % PAGE = 0
  BY <1>1, <1>2
<1>5. q >= 0
  <2> SUFFICES ASSUME q + 1 <= 0 PROVE FALSE
    BY <1>2
  <2>1. PAGE * (q + 1) <= 0 /\ PAGE * (q + 1) = PAGE * q + PAGE
    BY <1>1, <1>2
  <2>2. QED
    BY <1>1, <1>2, <1>4, <2>1
<1>6. q * PAGE >= 0
  BY <1>1, <1>2, <1>5
<1>7. QED
  BY <1>1, <1>2, <1>3, <1>4, <1>6

(* A program header.                                                       *)
Header == [load : BOOLEAN, offset : Nat, vaddr : Nat, filesz : Nat, memsz : Nat]

(* The pages of a segment cover its bytes, end with page_end and begin no  *)
(* lower than the page of vaddr.                                           *)
LEMMA SegmentPages ==
    ASSUME NEW p \in Header
    PROVE  /\ page_end(p) \in Nat /\ page_end(p) % PAGE = 0
           /\ p.vaddr + p.memsz <= page_end(p)
           /\ IsFiniteSet(SegPages(p)) /\ Cardinality(SegPages(p)) \in Nat
           /\ \A v \in SegPages(p) : v \in Nat /\ v % PAGE = 0
           /\ \A a \in SegBytes(p) : a \in Nat /\ PageStart(a) \in SegPages(p) /\ a < page_end(p)
           /\ \A v \in SegPages(p) : \A a \in PageBytes(v) :
                a \in Nat /\ PageStart(p.vaddr) <= a /\ a < page_end(p)
<1> DEFINE s == PageStart(p.vaddr)   e == page_end(p)   va == p.vaddr   sz == p.memsz
<1>1. PAGE \in Nat /\ PAGE > 0
  BY LoaderAssumption
<1>2. va \in Nat /\ sz \in Nat
  BY DEF Header
<1>3. s \in Nat /\ s % PAGE = 0 /\ s <= va
  BY <1>2, PageStartFacts
<1>4. e \in Nat /\ e % PAGE = 0 /\ va + sz <= e
  <2> DEFINE t == va + sz + PAGE - 1
  <2>1. t \in Nat /\ e = PageStart(t)
    BY <1>1, <1>2 DEF page_end
  <2> HIDE DEF t, e
  <2>2. PageStart(t) \in Nat /\ PageStart(t) % PAGE = 0 /\ t < PageStart(t) + PAGE
    BY <2>1, PageStartFacts
  <2>3. QED
    BY <1>1, <1>2, <2>1, <2>2 DEF t
<1>5. SegPages(p) = {v \in s .. e - 1 : v % PAGE = 0}
  BY DEF SegPages
<1>6. SegBytes(p) = va .. va + sz - 1
  BY DEF SegBytes
<1> HIDE DEF s, e, va, sz
<1>7. IsFiniteSet(SegPages(p)) /\ Cardinality(SegPages(p)) \in Nat
  <2>1. SegPages(p) \subseteq s .. e - 1 /\ e - 1 \in Int
    BY <1>4, <1>5
  <2>2. IsFiniteSet(s .. e - 1)
    BY <1>3, <2>1, FS_Interval
  <2>3. QED
    BY <2>1, <2>2, FS_Subset, FS_CardinalityType, ZenonT(60)
<1>8. \A v \in SegPages(p) : v \in Nat /\ v % PAGE = 0 /\ s <= v /\ v < e
  BY <1>3, <1>4, <1>5
<1>9. ASSUME NEW a \in SegBytes(p) PROVE a \in Nat /\ PageStart(a) \in SegPages(p) /\ a < e
  <2> DEFINE u == PageStart(a)
  <2>1. a \in Nat /\ va <= a /\ a < va + sz
    BY <1>2, <1>6, <1>9
  <2>2. u \in Nat /\ u % PAGE = 0 /\ u <= a /\ a < u + PAGE
    BY <2>1, PageStartFacts
  <2> HIDE DEF u
  <2>3. ~(u < s)
    <3>1. u < s => u + PAGE <= s
      BY <1>3, <2>2, PagesApart
    <3>2. QED
      BY <1>1, <1>2, <1>3, <2>1, <2>2, <3>1
  <2>4. u \in s .. e - 1
    BY <1>2, <1>3, <1>4, <2>1, <2>2, <2>3
  <2>5. QED
    BY <1>2, <1>4, <1>5, <2>1, <2>2, <2>4 DEF u
<1>10. ASSUME NEW v \in SegPages(p), NEW a \in PageBytes(v)
       PROVE  a \in Nat /\ s <= a /\ a < e
  <2>1. v \in Nat /\ v % PAGE = 0 /\ s <= v /\ v < e
    BY <1>8, <1>10
  <2>2. v + PAGE <= e
    BY <1>4, <2>1, PagesApart, SMTT(60)
  <2>3. v <= a /\ a <= v + PAGE - 1 /\ a \in Int
    BY <1>1, <2>1, <1>10 DEF PageBytes
  <2>4. QED
    BY <1>1, <1>3, <1>4, <2>1, <2>2, <2>3, SMTT(60)
<1>11. QED
  BY <1>4, <1>7, <1>8, <1>9, <1>10 DEF s, e, va, sz

-----------------------------------------------------------------------------

(* The call and its descriptor.                                            *)
Descriptor ==
    /\ call.kind = "elf" => call.file \in Files
    /\ call.kind = "user" => ~fd_open /\ call.file = NoFile
    /\ pc \in {"open", "segments"} => call.kind = "elf"
    /\ pc = "code" => call.kind = "user"
    /\ pc \in {"open", "done", "NULL"} => ~fd_open

(* What it holds of the kernel heap, and whether it has taken a frame.     *)
KernelHeap ==
    /\ pc \in {"open", "alloc"} => kheap = {}
    /\ pc = "kstack" => kheap = {"proc"} /\ blocks + 1 <= MaxBlocks
    /\ pc = "space" => kheap = {"proc", "kstack"} /\ blocks + 2 <= MaxBlocks
    /\ pc \in {"open", "alloc", "kstack", "space"} => taken = 0
    /\ pc \in {"stack", "code", "segments"} => taken > 0
    /\ pc = "NULL" /\ taken = 0 => kheap = {}

(* The loop counter and the frames.                                        *)
Counters ==
    /\ pc = "stack" => i <= USER_STACK_PAGES
    /\ pc = "segments" => i > 0
    /\ frames + taken <= MaxFrames

Progress == LoaderTypeOK /\ Descriptor /\ KernelHeap /\ Counters

(* Where the stack begins.                                                 *)
StackBase == USER_STACK_VIRT - USER_STACK_PAGES * PAGE

(* The first n pages of the stack are there.                               *)
StackMapped(n) ==
    \A a \in StackBase .. StackBase + n * PAGE - 1 : a \in DOMAIN mem /\ mem[a] = "junk"

(* In memory m a segment is the file's bytes followed by zeroes.           *)
SegmentRight(m, p) ==
    \A a \in SegBytes(p) :
        /\ a \in DOMAIN m
        /\ m[a] = IF a \in p.vaddr .. p.vaddr + p.filesz - 1
                    THEN <<"file", p.offset + a - p.vaddr>> ELSE "zero"

(* So are those of the headers before n, which end below last_vend.        *)
SegmentsRight(n) ==
    \A k \in Loaded : k < n => SegmentRight(mem, Phdrs[k]) /\ page_end(Phdrs[k]) <= last_vend

(* last_vend is above all that is mapped, or there is only the stack.      *)
VendAbove ==
    /\ last_vend % PAGE = 0 /\ (last_vend = 0 \/ USER_STACK_VIRT <= last_vend)
    /\ \A a \in DOMAIN mem : a < USER_STACK_VIRT \/ a < last_vend

(* What is mapped at each step.                                            *)
Memory ==
    /\ pc \in {"open", "alloc", "kstack", "space"} => DOMAIN mem = {} /\ last_vend = 0
    /\ pc = "stack" => /\ StackMapped(i) /\ last_vend = 0
                       /\ \A a \in DOMAIN mem : a < USER_STACK_VIRT
    /\ pc \in {"code", "segments"} => StackMapped(USER_STACK_PAGES)
    /\ pc = "segments" => SegmentsRight(i) /\ VendAbove
    /\ ProgramReady

LInv == Progress /\ Memory

(* The bounds on memory are numbers.                                       *)
LEMMA Sizes == MaxFrames \in Nat /\ MaxBlocks \in Nat /\ USER_STACK_PAGES \in Nat \ {0}
  BY LoaderAssumption

(* A header of a file that is loaded.                                      *)
LEMMA Headers ==
    ASSUME NEW f \in Files, NEW k \in DOMAIN f.phdrs
    PROVE  f.phdrs[k] \in Header
<1> DEFINE s == f.phdrs
<1>1. s \in Seq(Header)
  BY LoaderAssumption DEF Header
<1> HIDE DEF s
<1>2. \A n \in DOMAIN s : s[n] \in Header
  BY <1>1
<1>3. QED
  BY <1>2 DEF s

(* A call that begins has nothing yet.                                     *)
LEMMA InitProgress == LoaderInit => Progress
<1> SUFFICES ASSUME LoaderInit PROVE Progress
  OBVIOUS
<1>1. /\ \/ \E f \in Files : call = [kind |-> "elf", file |-> f] /\ pc = "open"
         \/ call = [kind |-> "user", file |-> NoFile] /\ pc = "alloc"
      /\ i = 0 /\ fd_open = FALSE /\ kheap = {} /\ taken = 0
      /\ blocks \in 0 .. MaxBlocks /\ frames \in 0 .. MaxFrames
      /\ DOMAIN mem = {} /\ last_vend = 0 /\ heap_start = 0
  BY DEF LoaderInit
<1>2. LoaderTypeOK
  <2>1. call \in [kind : {"elf", "user"}, file : Files \cup {NoFile}]
    BY <1>1
  <2>2. i \in Nat /\ taken \in 0 .. MaxFrames /\ last_vend \in Nat /\ heap_start \in Nat
    BY <1>1, Sizes
  <2>3. QED
    BY <1>1, <2>1, <2>2, Zenon DEF LoaderTypeOK
<1>3. Descriptor
  <2>1. CASE call = [kind |-> "user", file |-> NoFile] /\ pc = "alloc"
    <3>1. call.kind = "user" /\ call.file = NoFile
      BY <2>1
    <3>2. QED
      BY <1>1, <2>1, <3>1, Zenon DEF Descriptor
  <2>2. CASE \E f \in Files : call = [kind |-> "elf", file |-> f] /\ pc = "open"
    <3>1. call.kind = "elf" /\ call.file \in Files /\ pc = "open"
      BY <2>2
    <3>2. QED
      BY <1>1, <3>1, Zenon DEF Descriptor
  <2>3. QED
    BY <1>1, <2>1, <2>2
<1>4. KernelHeap /\ Counters
  BY <1>1, Sizes DEF KernelHeap, Counters
<1>5. QED
  BY <1>2, <1>3, <1>4 DEF Progress

(* The steps before the first page of the stack.                           *)
LEMMA FirstSteps ==
    ASSUME Progress, open_and_check \/ process_alloc_proc \/ process_alloc_stack
    PROVE  Progress'
<1>1. CASE open_and_check
  <2>1. call.kind = "elf" /\ call.file.ok \in BOOLEAN
    BY <1>1, LoaderAssumption DEF open_and_check, Progress, Descriptor
  <2>2. LoaderTypeOK'
    BY <1>1, <2>1 DEF open_and_check, Progress, LoaderTypeOK
  <2>3. Descriptor'
    BY <1>1, <2>1, Zenon DEF open_and_check, Progress, Descriptor
  <2>4. KernelHeap' /\ Counters'
    BY <1>1 DEF open_and_check, Progress, KernelHeap, Counters
  <2>5. QED
    BY <2>2, <2>3, <2>4 DEF Progress
<1>2. CASE process_alloc_proc
  <2>1. /\ UNCHANGED <<call, i, frames, taken, mem, last_vend, heap_start>>
        /\ \/ pc' = "NULL" /\ fd_open' = FALSE /\ kheap' = kheap /\ blocks' = blocks
           \/ /\ blocks # 0 /\ pc' = "kstack" /\ kheap' = {"proc"} /\ blocks' = blocks - 1
              /\ fd_open' = fd_open
    BY <1>2, Zenon DEF process_alloc_proc
  <2>a. blocks \in 0 .. MaxBlocks /\ kheap = {} /\ taken = 0 /\ pc = "alloc"
    BY <1>2 DEF process_alloc_proc, Progress, LoaderTypeOK, KernelHeap
  <2>b. blocks' \in 0 .. MaxBlocks /\ (pc' = "kstack" => blocks' + 1 <= MaxBlocks)
    BY <2>1, <2>a, Sizes
  <2>2. LoaderTypeOK'
    BY <2>1, <2>b, Zenon DEF Progress, LoaderTypeOK
  <2>3. Descriptor'
    BY <1>2, Zenon DEF process_alloc_proc, Progress, Descriptor
  <2>4. KernelHeap' /\ Counters'
    BY <2>1, <2>a, <2>b DEF Progress, KernelHeap, Counters
  <2>5. QED
    BY <2>2, <2>3, <2>4 DEF Progress
<1>3. CASE process_alloc_stack
  <2>1. /\ UNCHANGED <<call, i, frames, taken, mem, last_vend, heap_start>>
        /\ \/ pc' = "NULL" /\ fd_open' = FALSE /\ kheap' = {} /\ blocks' = blocks + 1
           \/ /\ blocks # 0 /\ pc' = "space" /\ kheap' = kheap \cup {"kstack"} /\ blocks' = blocks - 1
              /\ fd_open' = fd_open
    BY <1>3, Zenon DEF process_alloc_stack
  <2>a. blocks \in 0 .. MaxBlocks /\ blocks + 1 <= MaxBlocks /\ kheap = {"proc"} /\ taken = 0 /\ pc = "kstack"
    BY <1>3 DEF process_alloc_stack, Progress, LoaderTypeOK, KernelHeap
  <2>b. blocks' \in 0 .. MaxBlocks /\ (pc' = "space" => blocks' + 2 <= MaxBlocks)
    BY <2>1, <2>a, Sizes
  <2>c. kheap' = {} \/ kheap' = {"proc", "kstack"}
    BY <2>1, <2>a
  <2>2. LoaderTypeOK'
    BY <2>1, <2>b, <2>c, Zenon DEF Progress, LoaderTypeOK
  <2>3. Descriptor'
    BY <1>3, Zenon DEF process_alloc_stack, Progress, Descriptor
  <2>4. KernelHeap' /\ Counters'
    BY <1>3, Sizes DEF process_alloc_stack, Progress, LoaderTypeOK, KernelHeap, Counters
  <2>5. QED
    BY <2>2, <2>3, <2>4 DEF Progress
<1>4. QED
  BY <1>1, <1>2, <1>3

(* The new address space, or its failure, which returns both blocks.       *)
LEMMA SpaceStep ==
    ASSUME Progress, create_address_space
    PROVE  Progress'
<1>1. Cardinality({"proc", "kstack"}) = 2
  <2>1. IsFiniteSet({}) /\ Cardinality({}) = 0
    BY FS_EmptySet
  <2>2. IsFiniteSet({"proc"}) /\ Cardinality({"proc"}) = 1
    BY FS_Singleton
  <2>3. {"proc", "kstack"} = {"proc"} \cup {"kstack"} /\ "kstack" \notin {"proc"}
    OBVIOUS
  <2>4. QED
    BY <2>2, <2>3, FS_AddElement
<1>2. pc = "space" /\ kheap = {"proc", "kstack"} /\ blocks + 2 <= MaxBlocks /\ taken = 0
  BY DEF create_address_space, Progress, KernelHeap
<1>3. \/ /\ pc' = "NULL" /\ fd_open' = FALSE /\ kheap' = {} /\ blocks' = blocks + 2
         /\ UNCHANGED <<frames, taken>>
      \/ /\ frames # 0 /\ pc' = "stack" /\ frames' = frames - 1 /\ taken' = taken + 1
         /\ UNCHANGED <<fd_open, kheap, blocks>>
  BY <1>1, <1>2, Zenon DEF create_address_space, process_destroy
<1>4. i' = 0 /\ UNCHANGED <<call, mem, last_vend, heap_start>>
  BY DEF create_address_space
<1>5. LoaderTypeOK'
  <2>1. blocks \in Nat /\ frames \in Nat /\ frames <= MaxFrames /\ taken \in Nat
    BY Sizes DEF Progress, LoaderTypeOK
  <2>2. blocks' \in 0 .. MaxBlocks /\ frames' \in 0 .. MaxFrames /\ taken' \in 0 .. MaxFrames
    BY <1>2, <1>3, <2>1, Sizes DEF Progress, LoaderTypeOK
  <2>3. QED
    BY <1>3, <1>4, <2>2, Zenon DEF Progress, LoaderTypeOK
<1>6. Descriptor'
  <2>1. pc' \in {"NULL", "stack"} /\ (fd_open' = FALSE \/ fd_open' = fd_open) /\ call' = call
        /\ (pc' = "NULL" => fd_open' = FALSE)
    BY <1>3, <1>4, Zenon
  <2>2. pc' \notin {"open", "segments", "code", "done"}
    BY <2>1
  <2>3. call.kind = "user" => ~fd_open'
    BY <2>1, ZenonT(60) DEF Progress, Descriptor
  <2>4. QED
    BY <2>1, <2>2, <2>3, Zenon DEF Progress, Descriptor
<1>7. KernelHeap' /\ Counters'
  BY <1>2, <1>3, <1>4, Sizes, SMTT(60) DEF Progress, LoaderTypeOK, KernelHeap, Counters
<1>8. QED
  BY <1>5, <1>6, <1>7 DEF Progress

(* Where the pages of the stack lie.                                       *)
LEMMA StackPages ==
    ASSUME NEW n \in Nat, n < USER_STACK_PAGES
    PROVE  /\ StackBase \in Nat /\ n * PAGE \in Nat /\ (n + 1) * PAGE = n * PAGE + PAGE
           /\ stack_page(n) = StackBase + n * PAGE
           /\ StackBase + n * PAGE + PAGE <= USER_STACK_VIRT
<1> DEFINE N == USER_STACK_PAGES   V == USER_STACK_VIRT
<1>1. PAGE \in Nat /\ N \in Nat /\ V \in Nat /\ N * PAGE <= V /\ N * PAGE \in Nat
  BY LoaderAssumption
<1>2. StackBase = V - N * PAGE /\ stack_page(n) = V - (N - n) * PAGE
  BY DEF StackBase, stack_page
<1> HIDE DEF N, V
<1>3. n < N
  BY DEF N
<1>4. (N - n) * PAGE = N * PAGE - n * PAGE /\ n * PAGE \in Nat /\ (n + 1) * PAGE = n * PAGE + PAGE
  BY <1>1
<1>5. N * PAGE = n * PAGE + PAGE + (N - n - 1) * PAGE /\ (N - n - 1) * PAGE >= 0
  BY <1>1, <1>3
<1>6. (N - n - 1) * PAGE \in Int
  BY <1>1
<1>7. QED
  BY <1>1, <1>2, <1>4, <1>5, <1>6, SMTT(60) DEF V

(* A page of the stack, the end of that loop, or no frame for the page.    *)
LEMMA StackStep ==
    ASSUME Progress, map_stack
    PROVE  Progress'
<1>1. pc = "stack" /\ taken > 0 /\ i \in Nat /\ i <= USER_STACK_PAGES
  BY DEF map_stack, Progress, LoaderTypeOK, KernelHeap, Counters
<1>2. frames \in Nat /\ taken \in Nat /\ frames + taken <= MaxFrames /\ frames <= MaxFrames
  BY Sizes DEF Progress, LoaderTypeOK, Counters
<1>3. CASE i < USER_STACK_PAGES /\ OutOfFrames
  <2>1. LoaderTypeOK'
    BY <1>3, Zenon DEF OutOfFrames, Progress, LoaderTypeOK
  <2>2. Descriptor'
    <3>1. pc' \notin {"open", "segments", "code", "done"} /\ ~fd_open' /\ call' = call
      BY <1>3 DEF OutOfFrames
    <3>2. QED
      BY <3>1, Zenon DEF Progress, Descriptor
  <2>3. KernelHeap' /\ Counters'
    BY <1>1, <1>2, <1>3 DEF OutOfFrames, KernelHeap, Counters
  <2>4. QED
    BY <2>1, <2>2, <2>3 DEF Progress
<1>4. CASE /\ i < USER_STACK_PAGES /\ frames > 0
           /\ mem' = MapPage(mem, stack_page(i), "junk")
           /\ frames' = frames - 1 /\ taken' = taken + 1 /\ i' = i + 1
           /\ UNCHANGED <<pc, call, fd_open, kheap, blocks, last_vend, heap_start>>
  <2>1. frames' \in 0 .. MaxFrames /\ taken' \in 0 .. MaxFrames /\ i' \in Nat
        /\ frames' + taken' <= MaxFrames /\ i' <= USER_STACK_PAGES /\ taken' > 0
    BY <1>1, <1>2, <1>4, Sizes, SMTT(60)
  <2>2. DOMAIN mem' \subseteq Nat
    <3>1. DOMAIN mem' = DOMAIN mem \cup PageBytes(stack_page(i))
      BY <1>4 DEF MapPage
    <3>2. stack_page(i) \in Nat /\ PAGE \in Nat
      <4>1. PAGE \in Nat
        BY LoaderAssumption, SMTT(60)
      <4>2. StackBase \in Nat /\ i * PAGE \in Nat /\ stack_page(i) = StackBase + i * PAGE
        BY <1>1, <1>4, StackPages
      <4>3. QED
        BY <4>1, <4>2, SMTT(60)
    <3>3. PageBytes(stack_page(i)) \subseteq Nat
      BY <3>2 DEF PageBytes
    <3>4. QED
      BY <3>1, <3>3, SMTT(60) DEF Progress, LoaderTypeOK
  <2>3. LoaderTypeOK'
    BY <1>4, <2>1, <2>2, Zenon DEF Progress, LoaderTypeOK
  <2>4. Descriptor'
    BY <1>4, Zenon DEF Progress, Descriptor
  <2>5. KernelHeap' /\ Counters'
    BY <1>1, <1>4, <2>1, SMTT(60) DEF KernelHeap, Counters
  <2>6. QED
    BY <2>3, <2>4, <2>5 DEF Progress
<1>5. CASE /\ pc' = IF call.kind = "elf" THEN "segments" ELSE "code"
           /\ i' = 1
           /\ UNCHANGED <<call, fd_open, kheap, blocks, frames, taken, mem, last_vend, heap_start>>
  <2>1. call.kind \in {"elf", "user"}
    BY DEF Progress, LoaderTypeOK
  <2>2. LoaderTypeOK'
    BY <1>5, Sizes DEF Progress, LoaderTypeOK
  <2>3. Descriptor'
    <3>1. pc' \notin {"open", "done", "NULL"} /\ (pc' = "segments" => call.kind = "elf")
          /\ (pc' = "code" => call.kind = "user") /\ call' = call /\ fd_open' = fd_open
      BY <1>5, <2>1
    <3>2. QED
      BY <3>1, Zenon DEF Progress, Descriptor
  <2>4. KernelHeap' /\ Counters'
    BY <1>1, <1>2, <1>5 DEF KernelHeap, Counters
  <2>5. QED
    BY <2>2, <2>3, <2>4 DEF Progress
<1>6. QED
  BY <1>3, <1>4, <1>5, ZenonT(60) DEF map_stack

(* The last step of process_create_user and of process_create_elf.         *)
LEMMA LastSteps ==
    ASSUME Progress, map_code \/ finish_elf
    PROVE  Progress'
<1>1. CASE map_code
  <2> DEFINE W == USER_CODE_VIRT .. USER_CODE_VIRT + CODE_PAGES * PAGE - 1
  <2>1. /\ pc = "code" /\ pc' = "done" /\ DOMAIN mem' = DOMAIN mem \cup W
        /\ UNCHANGED <<call, i, fd_open, kheap, blocks, frames, taken, last_vend, heap_start>>
    BY <1>1 DEF map_code
  <2>2. W \subseteq Nat
    <3>1. USER_CODE_VIRT \in Nat /\ CODE_PAGES * PAGE \in Nat
      BY LoaderAssumption
    <3>2. QED
      BY <3>1
  <2> HIDE DEF W
  <2>3. DOMAIN mem' \subseteq Nat
    BY <2>1, <2>2, ZenonT(60) DEF Progress, LoaderTypeOK
  <2>4. LoaderTypeOK'
    BY <2>1, <2>3, Zenon DEF Progress, LoaderTypeOK
  <2>5. Descriptor'
    <3>1. ~fd_open /\ pc' \notin {"open", "segments", "code"}
      BY <2>1 DEF Progress, Descriptor
    <3>2. QED
      BY <2>1, <3>1, Zenon DEF Progress, Descriptor
  <2>6. KernelHeap' /\ Counters'
    BY <2>1 DEF Progress, KernelHeap, Counters
  <2>7. QED
    BY <2>4, <2>5, <2>6 DEF Progress
<1>2. CASE finish_elf
  <2>1. /\ pc = "segments" /\ pc' = "done" /\ fd_open' = FALSE
        /\ heap_start' = IF last_vend = 0 THEN USER_HEAP_BASE ELSE last_vend
        /\ UNCHANGED <<call, i, kheap, blocks, frames, taken, mem, last_vend>>
    BY <1>2 DEF finish_elf
  <2>2. heap_start' \in Nat
    BY <2>1, LoaderAssumption DEF Progress, LoaderTypeOK
  <2>4. LoaderTypeOK'
    BY <2>1, <2>2, Zenon DEF Progress, LoaderTypeOK
  <2>5. Descriptor'
    <3>1. ~fd_open' /\ pc' \notin {"open", "segments", "code"}
      BY <2>1
    <3>2. QED
      BY <2>1, <3>1, Zenon DEF Progress, Descriptor
  <2>6. KernelHeap' /\ Counters'
    BY <2>1 DEF Progress, KernelHeap, Counters
  <2>7. QED
    BY <2>4, <2>5, <2>6 DEF Progress
<1>3. QED
  BY <1>1, <1>2

(* The bytes of a segment's pages.                                         *)
SegArea(p) == {a \in Nat : \E v \in SegPages(p) : a \in PageBytes(v)}

(* A segment lies in its area, above the stack and below page_end, and     *)
(* outside the areas of the others.                                        *)
LEMMA Areas ==
    ASSUME NEW f \in Files, NEW j \in DOMAIN f.phdrs, IsLoaded(f.phdrs[j])
    PROVE  LET p == f.phdrs[j]
           IN  /\ SegBytes(p) \subseteq SegArea(p)
               /\ \A a \in SegArea(p) : USER_STACK_VIRT <= a /\ a < page_end(p)
               /\ \A k \in DOMAIN f.phdrs : k # j /\ IsLoaded(f.phdrs[k]) =>
                    \A a \in SegBytes(f.phdrs[k]) : a \notin SegArea(p)
<1> DEFINE p == f.phdrs[j]
<1>1. p \in Header
  BY Headers
<1>2. USER_STACK_VIRT <= p.vaddr
  BY ProgramLayout
<1>3. \A k \in DOMAIN f.phdrs : k # j /\ IsLoaded(f.phdrs[k]) => SegPages(p) \cap SegPages(f.phdrs[k]) = {}
  BY ProgramLayout
<1>4. PAGE \in Nat /\ PAGE > 0 /\ USER_STACK_VIRT \in Nat /\ USER_STACK_VIRT % PAGE = 0
  BY LoaderAssumption
<1> HIDE DEF p
<1>5. ASSUME NEW a \in SegBytes(p) PROVE a \in SegArea(p)
  <2>1. a \in Nat /\ PageStart(a) \in SegPages(p)
    BY <1>1, <1>5, SegmentPages
  <2>2. a \in PageBytes(PageStart(a))
    <3>1. PageStart(a) \in Nat /\ PageStart(a) <= a /\ a < PageStart(a) + PAGE
      BY <2>1, PageStartFacts
    <3>2. QED
      BY <1>4, <2>1, <3>1 DEF PageBytes
  <2>3. QED
    BY <2>1, <2>2 DEF SegArea
<1>6. ASSUME NEW a \in SegArea(p) PROVE USER_STACK_VIRT <= a /\ a < page_end(p)
  <2> DEFINE s == PageStart(p.vaddr)
  <2>1. a \in Nat /\ s <= a /\ a < page_end(p)
    BY <1>1, <1>6, SegmentPages DEF SegArea
  <2>2. p.vaddr \in Nat
    BY <1>1 DEF Header
  <2>3. s \in Nat /\ s % PAGE = 0 /\ p.vaddr < s + PAGE
    BY <2>2, PageStartFacts
  <2> HIDE DEF s
  <2>4. s < USER_STACK_VIRT => s + PAGE <= USER_STACK_VIRT
    BY <1>4, <2>3, PagesApart
  <2>5. QED
    BY <1>2, <1>4, <2>1, <2>2, <2>3, <2>4, SMTT(60)
<1>7. ASSUME NEW k \in DOMAIN f.phdrs, k # j, IsLoaded(f.phdrs[k]),
             NEW a \in SegBytes(f.phdrs[k]), a \in SegArea(p)
      PROVE  FALSE
  <2> DEFINE q == f.phdrs[k]   u == PageStart(a)
  <2>1. q \in Header
    BY Headers
  <2> HIDE DEF q
  <2>2. a \in SegBytes(q) /\ SegPages(p) \cap SegPages(q) = {}
    BY <1>3, <1>7 DEF q
  <2>3. a \in Nat /\ u \in SegPages(q)
    BY <2>1, <2>2, SegmentPages
  <2>4. u \in Nat /\ u % PAGE = 0 /\ u <= a /\ a < u + PAGE
    BY <2>3, PageStartFacts
  <2>5. PICK v \in SegPages(p) : a \in PageBytes(v)
    BY <1>7 DEF SegArea
  <2>6. v \in Nat /\ v % PAGE = 0
    BY <1>1, <2>5, SegmentPages
  <2>7. v <= a /\ a < v + PAGE
    BY <1>4, <2>3, <2>5, <2>6 DEF PageBytes
  <2> HIDE DEF u
  <2>8. (u < v => u + PAGE <= v) /\ (v < u => v + PAGE <= u)
    BY <2>4, <2>6, PagesApart
  <2>9. u = v
    BY <1>4, <2>3, <2>4, <2>6, <2>7, <2>8, SMTT(60)
  <2>10. QED
    BY <2>2, <2>3, <2>5, <2>9
<1>8. QED
  BY <1>5, <1>6, <1>7 DEF p

(* What one turn of the loop over program headers does to memory.          *)
Filled(p) ==
    /\ DOMAIN mem' = DOMAIN mem \cup SegArea(p)
    /\ \A a \in DOMAIN mem \cup SegArea(p) :
         mem'[a] = IF a \in p.vaddr .. p.vaddr + p.filesz - 1
                   THEN <<"file", p.offset + a - p.vaddr>>
                   ELSE IF a \in SegBytes(p) THEN "zero"
                   ELSE IF a \in SegArea(p) THEN "junk" ELSE mem[a]

Skips(p) ==
    ~IsLoaded(p) /\ i' = i + 1 /\ UNCHANGED <<pc, fd_open, frames, taken, mem, last_vend>>

Loads(p) ==
    LET need == Cardinality(SegPages(p))
    IN  /\ IsLoaded(p) /\ last_vend' = vend_so_far(p) /\ need <= frames /\ Filled(p)
        /\ frames' = frames - need /\ taken' = taken + need /\ i' = i + 1
        /\ UNCHANGED <<pc, fd_open>>

Fails(p) ==
    /\ IsLoaded(p) /\ last_vend' = vend_so_far(p)
    /\ frames' = 0 /\ taken' = taken + frames /\ pc' = "NULL" /\ fd_open' = FALSE
    /\ UNCHANGED <<i, mem>>

(* A turn of that loop is one of the three, for a header of the file.      *)
LEMMA Turn ==
    ASSUME Progress, load_segment
    PROVE  /\ pc = "segments" /\ call.kind = "elf" /\ call.file \in Files
           /\ i \in DOMAIN call.file.phdrs /\ i \in Nat /\ i <= Len(Phdrs)
           /\ Phdrs[i] \in Header
           /\ UNCHANGED <<call, kheap, blocks, heap_start>>
           /\ Skips(Phdrs[i]) \/ Loads(Phdrs[i]) \/ Fails(Phdrs[i])
<1> DEFINE p == Phdrs[i]
           area == UNION {PageBytes(v) : v \in SegPages(p)}
           mapped == [a \in DOMAIN mem \cup area |->
                        IF \E v \in SegPages(p) : a \in PageBytes(v) THEN "junk" ELSE mem[a]]
<1>1. pc = "segments" /\ i <= Len(Phdrs) /\ UNCHANGED <<call, kheap, blocks, heap_start>>
  BY DEF load_segment
<1>2. call.kind = "elf" /\ call.file \in Files
  BY <1>1, Zenon DEF Progress, Descriptor
<1>3. i \in Nat /\ i > 0
  BY <1>1 DEF Progress, LoaderTypeOK, Counters
<1>4. i \in DOMAIN call.file.phdrs
  <2> DEFINE s == call.file.phdrs
  <2>1. s \in Seq(Header)
    BY <1>2, LoaderAssumption, SMTT(60) DEF Header
  <2>2. i <= Len(s)
    BY <1>1 DEF Phdrs
  <2> HIDE DEF s
  <2>3. i \in DOMAIN s
    BY <1>3, <2>1, <2>2
  <2>4. QED
    BY <2>3 DEF s
<1>5. p \in Header
  BY <1>2, <1>4, Headers, Zenon DEF Phdrs
<1>6. IF ~IsLoaded(p)
      THEN i' = i + 1 /\ UNCHANGED <<pc, fd_open, frames, taken, mem, last_vend>>
      ELSE /\ last_vend' = vend_so_far(p)
           /\ IF Cardinality(SegPages(p)) <= frames
              THEN /\ mem' = fill_segment(mapped, p)
                   /\ frames' = frames - Cardinality(SegPages(p))
                   /\ taken' = taken + Cardinality(SegPages(p)) /\ i' = i + 1
                   /\ UNCHANGED <<pc, fd_open>>
              ELSE /\ frames' = 0 /\ taken' = taken + frames
                   /\ pc' = "NULL" /\ fd_open' = FALSE
                   /\ UNCHANGED <<i, mem>>
  BY Zenon DEF load_segment
<1> HIDE DEF p
<1>7. area = SegArea(p)
  <2>1. \A v \in SegPages(p) : \A a \in PageBytes(v) : a \in Nat
    BY <1>5, SegmentPages
  <2>2. QED
    BY <2>1 DEF SegArea
<1> HIDE DEF area
<1>8. ASSUME mem' = fill_segment(mapped, p) PROVE Filled(p)
  <2>1. DOMAIN mapped = DOMAIN mem \cup SegArea(p)
    BY <1>7
  <2>2. \A a \in DOMAIN mem \cup SegArea(p) :
           mapped[a] = IF a \in SegArea(p) THEN "junk" ELSE mem[a]
    <3>1. DOMAIN mem \subseteq Nat
      BY DEF Progress, LoaderTypeOK
    <3>2. \A a \in Nat : a \in SegArea(p) <=> \E v \in SegPages(p) : a \in PageBytes(v)
      BY DEF SegArea
    <3>3. SegArea(p) \subseteq Nat
      BY DEF SegArea
    <3>4. QED
      BY <1>7, <3>1, <3>2, <3>3, SMTT(60)
  <2> HIDE DEF mapped
  <2>3. QED
    BY <1>8, <2>1, <2>2 DEF fill_segment, Filled
<1>9. Skips(p) \/ Loads(p) \/ Fails(p)
  BY <1>6, <1>8, Zenon DEF Skips, Loads, Fails
<1>10. QED
  BY <1>1, <1>2, <1>3, <1>4, <1>5, <1>9, SMTT(60) DEF p

(* last_vend is the larger of what it was and the end of the segment.      *)
LEMMA Vend ==
    ASSUME NEW p \in Header, last_vend \in Nat
    PROVE  vend_so_far(p) = IF last_vend < page_end(p) THEN page_end(p) ELSE last_vend
<1> DEFINE a == last_vend   b == page_end(p)
<1>1. a \in Nat /\ b \in Nat
  BY SegmentPages
<1> HIDE DEF a, b
<1>2. Max({a, b}) = IF a < b THEN b ELSE a
  BY <1>1 DEF Max
<1>3. QED
  BY <1>2 DEF vend_so_far, a, b

(* A turn takes no more frames than there are and keeps the rest of the    *)
(* progress.                                                               *)
LEMMA SegmentStep ==
    ASSUME Progress, load_segment
    PROVE  Progress'
<1> DEFINE p == Phdrs[i]   need == Cardinality(SegPages(p))
<1>1. /\ pc = "segments" /\ call.kind = "elf" /\ call.file \in Files /\ i \in Nat
      /\ p \in Header /\ UNCHANGED <<call, kheap, blocks, heap_start>>
      /\ Skips(p) \/ Loads(p) \/ Fails(p)
  BY Turn
<1>2. /\ frames \in Nat /\ taken \in Nat /\ frames + taken <= MaxFrames /\ taken > 0
      /\ last_vend \in Nat /\ i > 0
  BY <1>1, Sizes DEF Progress, LoaderTypeOK, KernelHeap, Counters
<1>3. need \in Nat /\ page_end(p) \in Nat /\ SegArea(p) \subseteq Nat
  BY <1>1, SegmentPages DEF SegArea
<1>4. vend_so_far(p) \in Nat
  BY <1>1, <1>2, <1>3, Vend
<1> HIDE DEF p, need
<1>5. /\ frames' \in 0 .. MaxFrames /\ taken' \in 0 .. MaxFrames /\ frames' + taken' <= MaxFrames
      /\ taken' > 0 /\ i' \in Nat /\ i' > 0 /\ last_vend' \in Nat
  BY <1>1, <1>2, <1>3, <1>4, Sizes DEF Skips, Loads, Fails, need
<1>6. DOMAIN mem' \subseteq Nat
  BY <1>1, <1>3 DEF Skips, Loads, Fails, Filled, Progress, LoaderTypeOK
<1>7. (pc' = "segments" /\ fd_open' = fd_open) \/ (pc' = "NULL" /\ fd_open' = FALSE)
  BY <1>1, Zenon DEF Skips, Loads, Fails
<1>8. LoaderTypeOK'
  BY <1>1, <1>5, <1>6, <1>7, Zenon DEF Progress, LoaderTypeOK
<1>9. Descriptor'
  <2>1. pc' \notin {"open", "code", "done"} /\ (pc' = "NULL" => ~fd_open') /\ call.kind # "user"
    BY <1>1, <1>7
  <2>2. QED
    BY <1>1, <2>1, Zenon DEF Progress, Descriptor
<1>10. KernelHeap' /\ Counters'
  BY <1>1, <1>5, <1>7 DEF KernelHeap, Counters
<1>11. QED
  BY <1>8, <1>9, <1>10 DEF Progress

(* Only a call that loads a file has segments, and they are its own.       *)
LEMMA LoadedHeaders ==
    ASSUME Progress, NEW k \in Loaded
    PROVE  /\ call.kind = "elf" /\ call.file \in Files /\ k \in DOMAIN call.file.phdrs
           /\ k \in Nat /\ 1 <= k /\ k <= Len(Phdrs)
           /\ Phdrs[k] \in Header /\ IsLoaded(Phdrs[k])
<1> DEFINE s == call.file.phdrs
<1>1. k \in DOMAIN s /\ IsLoaded(Phdrs[k]) /\ Phdrs = s
  BY DEF Loaded, Phdrs
<1>2. call.kind \in {"elf", "user"}
  BY DEF Progress, LoaderTypeOK
<1>3. call.kind # "user"
  <2>1. call.kind = "user" => s = <<>>
    BY DEF Progress, Descriptor, NoFile
  <2>2. QED
    BY <1>1, <2>1
<1>4. call.file \in Files
  BY <1>2, <1>3, Zenon DEF Progress, Descriptor
<1>5. s \in Seq(Header)
  BY <1>4, LoaderAssumption DEF Header
<1>6. Phdrs[k] \in Header
  BY <1>1, <1>4, Headers, Zenon DEF Phdrs
<1> HIDE DEF s
<1>7. k \in Nat /\ 1 <= k /\ k <= Len(s)
  BY <1>1, <1>5
<1>8. QED
  BY <1>1, <1>2, <1>3, <1>4, <1>6, <1>7, SMTT(60) DEF s

(* A call that begins has mapped nothing.                                  *)
LEMMA InitMemory == LoaderInit => Memory
<1> SUFFICES ASSUME LoaderInit PROVE Memory
  OBVIOUS
<1>1. pc \in {"open", "alloc"} /\ DOMAIN mem = {} /\ last_vend = 0
  BY DEF LoaderInit
<1>2. QED
  BY <1>1 DEF Memory, ProgramReady

(* Until it has an address space it maps nothing.                          *)
LEMMA FirstMemory ==
    ASSUME Progress, Memory,
           open_and_check \/ process_alloc_proc \/ process_alloc_stack \/ create_address_space
    PROVE  Memory'
<1>1. /\ pc \in {"open", "alloc", "kstack", "space"} /\ pc' \in {"alloc", "kstack", "space", "stack", "NULL"}
      /\ UNCHANGED <<mem, last_vend>> /\ (pc' = "stack" => i' = 0)
  BY Zenon DEF open_and_check, process_alloc_proc, process_alloc_stack, create_address_space
<1>2. DOMAIN mem' = {} /\ last_vend' = 0
  BY <1>1 DEF Memory
<1>3. pc' = "stack" => StackMapped(i)'
  <2>1. StackBase \in Nat /\ 0 * PAGE = 0
    BY Sizes, StackPages, LoaderAssumption
  <2>2. QED
    BY <1>1, <2>1 DEF StackMapped
<1>4. QED
  BY <1>1, <1>2, <1>3 DEF Memory, ProgramReady

(* Every page of the stack is mapped below the ones already there.         *)
LEMMA StackMemory ==
    ASSUME Progress, Memory, map_stack
    PROVE  Memory'
<1>1. pc = "stack" /\ i \in Nat /\ i <= USER_STACK_PAGES
  BY DEF map_stack, Progress, LoaderTypeOK, Counters
<1>2. StackMapped(i) /\ last_vend = 0 /\ \A a \in DOMAIN mem : a < USER_STACK_VIRT
  BY <1>1, SMTT(60) DEF Memory
<1>3. CASE i < USER_STACK_PAGES /\ OutOfFrames
  BY <1>3, SMTT(60) DEF OutOfFrames, Memory, ProgramReady
<1>4. CASE /\ i < USER_STACK_PAGES /\ frames > 0
           /\ mem' = MapPage(mem, stack_page(i), "junk")
           /\ frames' = frames - 1 /\ taken' = taken + 1 /\ i' = i + 1
           /\ UNCHANGED <<pc, call, fd_open, kheap, blocks, last_vend, heap_start>>
  <2> DEFINE v == stack_page(i)
  <2>1. PAGE \in Nat /\ PAGE > 0 /\ USER_STACK_VIRT \in Nat
    BY LoaderAssumption
  <2>2. /\ StackBase \in Nat /\ i * PAGE \in Nat /\ (i + 1) * PAGE = i * PAGE + PAGE
        /\ v = StackBase + i * PAGE /\ StackBase + i * PAGE + PAGE <= USER_STACK_VIRT
    BY <1>1, <1>4, StackPages, SMTT(60)
  <2>3. /\ DOMAIN mem' = DOMAIN mem \cup PageBytes(v)
        /\ \A a \in DOMAIN mem' : mem'[a] = IF a \in PageBytes(v) THEN "junk" ELSE mem[a]
    BY <1>4 DEF MapPage
  <2> HIDE DEF v
  <2>4. StackMapped(i)'
    <3> DEFINE t == i * PAGE   B == StackBase
    <3>1. B \in Nat /\ t \in Nat /\ v = B + t
      BY <2>2
    <3>2. \A a \in B .. B + t - 1 : a \in DOMAIN mem /\ mem[a] = "junk"
      BY <1>2 DEF StackMapped
    <3>3. i' * PAGE = t + PAGE
      BY <1>4, <2>2
    <3> HIDE DEF t, B
    <3>4. PageBytes(v) = B + t .. B + t + PAGE - 1
      BY <3>1, SMTT(60) DEF PageBytes
    <3>5. \A a \in B .. B + (t + PAGE) - 1 : a \in B .. B + t - 1 \/ a \in B + t .. B + t + PAGE - 1
      BY <2>1, <3>1
    <3>6. \A a \in B .. B + (t + PAGE) - 1 : a \in DOMAIN mem' /\ mem'[a] = "junk"
      BY <2>3, <3>2, <3>4, <3>5
    <3>7. QED
      BY <3>3, <3>6, Zenon DEF StackMapped, B, StackBase
  <2>5. \A a \in DOMAIN mem' : a < USER_STACK_VIRT
    BY <1>2, <2>1, <2>2, <2>3, SMTT(60) DEF PageBytes
  <2>6. QED
    BY <1>1, <1>2, <1>4, <2>4, <2>5, SMTT(60) DEF Memory, ProgramReady
<1>5. CASE /\ i = USER_STACK_PAGES
           /\ pc' = IF call.kind = "elf" THEN "segments" ELSE "code"
           /\ i' = 1
           /\ UNCHANGED <<call, fd_open, kheap, blocks, frames, taken, mem, last_vend, heap_start>>
  <2>1. StackMapped(USER_STACK_PAGES)'
    BY <1>2, <1>5 DEF StackMapped, StackBase
  <2>2. SegmentsRight(i)'
    <3>1. Loaded' = Loaded /\ i' = 1
      BY <1>5 DEF Loaded, Phdrs
    <3>2. \A k \in Loaded : ~(k < 1)
      BY LoadedHeaders
    <3>3. QED
      BY <3>1, <3>2 DEF SegmentsRight
  <2>3. VendAbove'
    BY <1>2, <1>5, LoaderAssumption DEF VendAbove
  <2>4. QED
    BY <1>5, <2>1, <2>2, <2>3 DEF Memory, ProgramReady
<1>6. QED
  BY <1>3, <1>4, <1>5, ZenonT(60) DEF map_stack

(* A turn of the loop leaves the stack and the other segments alone.       *)
LEMMA SegmentMemory ==
    ASSUME Progress, Memory, load_segment
    PROVE  Memory'
<1> DEFINE p == Phdrs[i]
<1>1. /\ pc = "segments" /\ call.kind = "elf" /\ call.file \in Files
      /\ i \in DOMAIN call.file.phdrs /\ i \in Nat
      /\ p \in Header /\ UNCHANGED <<call, kheap, blocks, heap_start>>
      /\ Skips(p) \/ Loads(p) \/ Fails(p)
  BY Turn
<1>2. StackMapped(USER_STACK_PAGES) /\ SegmentsRight(i) /\ VendAbove
  BY <1>1 DEF Memory
<1>3. Loaded' = Loaded /\ Phdrs' = Phdrs
  BY <1>1 DEF Loaded, Phdrs
<1>4. \A k \in Loaded : k \in Nat /\ k \in DOMAIN call.file.phdrs /\ Phdrs[k] \in Header /\ IsLoaded(Phdrs[k])
  BY LoadedHeaders
<1>5. last_vend \in Nat
  BY DEF Progress, LoaderTypeOK
<1> HIDE DEF p
<1>a. ASSUME pc' = "segments", StackMapped(USER_STACK_PAGES)', SegmentsRight(i)', VendAbove'
      PROVE  Memory'
  <2>1. /\ pc' \notin {"open", "alloc", "kstack", "space"}
        /\ pc' # "stack" /\ pc' # "done"
    BY <1>a
  <2>2. QED
    BY <1>a, <2>1, Zenon DEF Memory, ProgramReady
<1>6. CASE Fails(p)
  <2>1. pc' = "NULL"
    BY <1>6, Zenon DEF Fails
  <2>2. /\ pc' \notin {"open", "alloc", "kstack", "space"} /\ pc' \notin {"code", "segments"}
        /\ pc' # "stack" /\ pc' # "done" /\ pc' # "segments"
    BY <2>1
  <2>3. QED
    BY <2>2, Zenon DEF Memory, ProgramReady
<1>7. CASE Skips(p)
  <2> USE DEF p
  <2>1. i \notin Loaded
    BY <1>7 DEF Skips, Loaded
  <2>2. SegmentsRight(i)'
    <3>1. \A k \in Loaded : k < i + 1 => k < i
      BY <1>1, <1>4, <2>1
    <3>2. QED
      BY <1>2, <1>3, <1>7, <3>1, ZenonT(60) DEF Skips, SegmentsRight, SegmentRight
  <2>3. StackMapped(USER_STACK_PAGES)' /\ VendAbove'
    BY <1>2, <1>7 DEF Skips, StackMapped, StackBase, VendAbove
  <2>4. QED
    BY <1>1, <1>7, <1>a, <2>2, <2>3, Zenon DEF Skips
<1>8. CASE Loads(p)
  <2>1. IsLoaded(p) /\ last_vend' = vend_so_far(p) /\ Filled(p) /\ i' = i + 1 /\ pc' = pc
    BY <1>8, Zenon DEF Loads
  <2>2. /\ page_end(p) \in Nat /\ page_end(p) % PAGE = 0 /\ last_vend' \in Nat
        /\ last_vend' = IF last_vend < page_end(p) THEN page_end(p) ELSE last_vend
    <3>1. page_end(p) \in Nat /\ page_end(p) % PAGE = 0
      BY <1>1, SegmentPages, Zenon
    <3>2. last_vend' = IF last_vend < page_end(p) THEN page_end(p) ELSE last_vend
      BY <1>1, <1>5, <2>1, Vend, Zenon
    <3>3. QED
      BY <1>5, <3>1, <3>2, Zenon
  <2>3. last_vend <= last_vend' /\ page_end(p) <= last_vend' /\ last_vend' % PAGE = 0
    BY <1>2, <1>5, <2>2 DEF VendAbove
  <2>4. /\ SegBytes(p) \subseteq SegArea(p)
        /\ \A a \in SegArea(p) : USER_STACK_VIRT <= a /\ a < page_end(p)
        /\ \A k \in Loaded : k # i => \A a \in SegBytes(Phdrs[k]) : a \notin SegArea(p)
    BY <1>1, <1>4, <2>1, Areas, Zenon DEF Phdrs, p
  <2>5. p.vaddr .. p.vaddr + p.filesz - 1 \subseteq SegBytes(p)
    <3>1. p.vaddr \in Nat /\ p.filesz \in Nat /\ p.memsz \in Nat
      BY <1>1 DEF Header
    <3>2. p.filesz <= p.memsz
      BY <1>1, LoaderAssumption, ZenonT(60) DEF Phdrs, p
    <3>3. QED
      BY <3>1, <3>2 DEF SegBytes
  <2>6. \A a \in DOMAIN mem : a \notin SegArea(p) => a \in DOMAIN mem' /\ mem'[a] = mem[a]
    BY <2>1, <2>4, <2>5, ZenonT(60) DEF Filled
  <2>7. StackMapped(USER_STACK_PAGES)'
    <3>1. StackBase + USER_STACK_PAGES * PAGE - 1 = USER_STACK_VIRT - 1
      BY LoaderAssumption DEF StackBase
    <3>2. StackBase \in Nat /\ USER_STACK_VIRT \in Nat /\ SegArea(p) \subseteq Nat
      BY LoaderAssumption DEF StackBase, SegArea
    <3>3. \A a \in StackBase .. USER_STACK_VIRT - 1 : a \in DOMAIN mem /\ mem[a] = "junk"
      BY <1>2, <3>1, Zenon DEF StackMapped
    <3>4. \A a \in StackBase .. USER_STACK_VIRT - 1 : a \notin SegArea(p)
      BY <2>4, <3>2
    <3>5. \A a \in StackBase .. USER_STACK_VIRT - 1 : a \in DOMAIN mem' /\ mem'[a] = "junk"
      BY <2>6, <3>3, <3>4, ZenonT(60)
    <3>6. QED
      BY <3>1, <3>5, ZenonT(60) DEF StackMapped, StackBase
  <2>8. SegmentRight(mem', p)
    BY <2>1, <2>4, <2>5 DEF Filled, SegmentRight
  <2>9. SegmentsRight(i)'
    <3> SUFFICES ASSUME NEW k \in Loaded, k < i + 1
                 PROVE  SegmentRight(mem', Phdrs[k]) /\ page_end(Phdrs[k]) <= last_vend'
      BY <1>3, <2>1 DEF SegmentsRight
    <3>1. CASE k = i
      BY <1>3, <2>3, <2>8, <3>1, SMTT(60) DEF p
    <3>2. CASE k # i
      <4> DEFINE q == Phdrs[k]
      <4>1. k < i
        BY <1>1, <1>4, <3>2
      <4>2. SegmentRight(mem, q) /\ page_end(q) <= last_vend
        BY <1>2, <4>1 DEF SegmentsRight
      <4>3. \A a \in SegBytes(q) : a \notin SegArea(p)
        BY <2>4, <3>2, SMTT(60)
      <4>4. page_end(q) \in Nat
        BY <1>4, SegmentPages, SMTT(60)
      <4> HIDE DEF q
      <4>6. SegmentRight(mem', q)
        BY <2>6, <4>2, <4>3, SMTT(60) DEF SegmentRight
      <4>7. page_end(q) <= last_vend'
        BY <1>5, <2>2, <2>3, <4>2, <4>4, SMTT(60)
      <4>8. QED
        BY <4>6, <4>7 DEF q
    <3>3. QED
      BY <3>1, <3>2
  <2>10. VendAbove'
    <3>1. last_vend' = 0 \/ USER_STACK_VIRT <= last_vend'
      <4>1. USER_STACK_VIRT \in Nat
        BY LoaderAssumption
      <4>2. USER_STACK_VIRT <= page_end(p)
        <5>1. p.vaddr \in SegBytes(p) /\ p.vaddr \in Nat
          BY <1>1, <2>1 DEF SegBytes, IsLoaded, Header
        <5>2. USER_STACK_VIRT <= p.vaddr /\ p.vaddr < page_end(p)
          BY <2>4, <5>1
        <5>3. QED
          BY <2>2, <4>1, <5>1, <5>2, SMTT(60)
      <4>3. QED
        BY <2>2, <2>3, <4>1, <4>2
    <3>2. ASSUME NEW a \in DOMAIN mem' PROVE a < USER_STACK_VIRT \/ a < last_vend'
      <4>1. a \in Nat /\ (a \in DOMAIN mem \/ a \in SegArea(p))
        BY <2>1, <3>2 DEF Filled, SegArea, Progress, LoaderTypeOK
      <4>2. CASE a \in SegArea(p)
        BY <2>2, <2>3, <2>4, <4>1, <4>2, SMTT(60)
      <4>3. CASE a \in DOMAIN mem
        BY <1>2, <1>5, <2>2, <2>3, <4>1, <4>3, SMTT(60) DEF VendAbove
      <4>4. QED
        BY <4>1, <4>2, <4>3, SMTT(60)
    <3>3. QED
      BY <2>3, <3>1, <3>2 DEF VendAbove
  <2>11. QED
    BY <1>1, <1>a, <2>1, <2>7, <2>9, <2>10, Zenon
<1>9. QED
  BY <1>1, <1>6, <1>7, <1>8

(* The stack as ProgramReady states it.                                    *)
LEMMA WholeStack ==
    StackMapped(USER_STACK_PAGES) <=>
        \A a \in USER_STACK_VIRT - USER_STACK_PAGES * PAGE .. USER_STACK_VIRT - 1 :
            a \in DOMAIN mem /\ mem[a] = "junk"
<1>1. StackBase + USER_STACK_PAGES * PAGE - 1 = USER_STACK_VIRT - 1
  BY LoaderAssumption DEF StackBase
<1>2. QED
  BY <1>1, Zenon DEF StackMapped, StackBase

(* A segment as ProgramReady states it.                                    *)
LEMMA WholeSegment ==
    ASSUME NEW p \in Header, SegmentRight(mem, p), NEW z \in 0 .. p.memsz - 1
    PROVE  /\ p.vaddr + z \in DOMAIN mem
           /\ mem[p.vaddr + z] = IF z < p.filesz THEN <<"file", p.offset + z>> ELSE "zero"
<1> DEFINE v == p.vaddr   f == p.filesz   o == p.offset   m == p.memsz
<1>1. v \in Nat /\ f \in Nat /\ o \in Nat /\ m \in Nat
  BY DEF Header
<1>2. \A a \in v .. v + m - 1 :
        /\ a \in DOMAIN mem
        /\ mem[a] = IF a \in v .. v + f - 1 THEN <<"file", o + a - v>> ELSE "zero"
  BY DEF SegmentRight, SegBytes
<1>3. z \in 0 .. m - 1
  OBVIOUS
<1> HIDE DEF v, f, o, m
<1>4. v + z \in v .. v + m - 1 /\ o + (v + z) - v = o + z /\ (v + z \in v .. v + f - 1 <=> z < f)
  BY <1>1, <1>3
<1>5. v + z \in DOMAIN mem /\ mem[v + z] = IF z < f THEN <<"file", o + z>> ELSE "zero"
  BY <1>2, <1>4, Zenon
<1>6. QED
  BY <1>5 DEF v, f, o, m

(* The window of process_create_user does not reach into the stack.        *)
LEMMA CodeMemory ==
    ASSUME Progress, Memory, map_code
    PROVE  Memory'
<1> DEFINE W == USER_CODE_VIRT .. USER_CODE_VIRT + CODE_PAGES * PAGE - 1
           S == USER_STACK_VIRT - USER_STACK_PAGES * PAGE .. USER_STACK_VIRT - 1
<1>1. /\ pc = "code" /\ pc' = "done" /\ call' = call
      /\ mem' = [a \in DOMAIN mem \cup W |-> IF a \in W THEN "kernel" ELSE mem[a]]
  BY DEF map_code
<1>2. call.kind = "user" /\ StackMapped(USER_STACK_PAGES)
  BY <1>1 DEF Progress, Descriptor, Memory
<1>3. \A a \in S : a \in DOMAIN mem /\ mem[a] = "junk"
  BY <1>2, WholeStack
<1>4. \A a \in S : a \notin W
  <2>1. /\ USER_STACK_PAGES * PAGE \in Nat /\ CODE_PAGES * PAGE \in Nat
        /\ USER_STACK_VIRT \in Nat /\ USER_CODE_VIRT \in Nat
    BY LoaderAssumption
  <2>2. USER_STACK_VIRT <= USER_CODE_VIRT
    BY ProgramLayout
  <2>3. QED
    BY <2>1, <2>2
<1>5. Loaded' = {}
  <2>1. Loaded' = Loaded
    BY <1>1 DEF Loaded, Phdrs
  <2>2. \A k \in Loaded : FALSE
    BY <1>2, LoadedHeaders
  <2>3. QED
    BY <2>1, <2>2
<1> HIDE DEF W, S
<1>6. \A a \in S : a \in DOMAIN mem' /\ mem'[a] = "junk"
  BY <1>1, <1>3, <1>4
<1>7. call'.kind # "elf"
  BY <1>1, <1>2
<1>8. ProgramReady'
  BY <1>5, <1>6, <1>7, Zenon DEF ProgramReady, S
<1>9. QED
  BY <1>1, <1>8 DEF Memory

(* When all headers are done, every segment is right and the heap begins   *)
(* above all of it.                                                        *)
LEMMA FinishMemory ==
    ASSUME Progress, Memory, finish_elf
    PROVE  Memory'
<1>1. /\ pc = "segments" /\ i > Len(Phdrs) /\ pc' = "done"
      /\ heap_start' = IF last_vend = 0 THEN USER_HEAP_BASE ELSE last_vend
      /\ UNCHANGED <<call, mem, last_vend>>
  BY DEF finish_elf
<1>2. StackMapped(USER_STACK_PAGES) /\ SegmentsRight(i) /\ VendAbove
  BY <1>1 DEF Memory
<1>3. i \in Nat /\ last_vend \in Nat /\ DOMAIN mem \subseteq Nat
  BY DEF Progress, LoaderTypeOK
<1>4. Loaded' = Loaded /\ Phdrs' = Phdrs
  BY <1>1 DEF Loaded, Phdrs
<1>5. \A k \in Loaded : /\ Phdrs[k] \in Header /\ SegmentRight(mem, Phdrs[k])
                        /\ page_end(Phdrs[k]) <= last_vend
  <2> SUFFICES ASSUME NEW k \in Loaded
               PROVE  /\ Phdrs[k] \in Header /\ SegmentRight(mem, Phdrs[k])
                      /\ page_end(Phdrs[k]) <= last_vend
    OBVIOUS
  <2>1. k \in Nat /\ k <= Len(Phdrs) /\ Phdrs[k] \in Header /\ call.file \in Files
    BY LoadedHeaders
  <2>2. Len(Phdrs) \in Nat
    <3> DEFINE s == call.file.phdrs
    <3>1. s \in Seq(Header)
      BY <2>1, LoaderAssumption DEF Header
    <3> HIDE DEF s
    <3>2. Len(s) \in Nat
      BY <3>1
    <3>3. QED
      BY <3>2 DEF s, Phdrs
  <2>3. k < i
    BY <1>1, <1>3, <2>1, <2>2
  <2>4. QED
    BY <1>2, <2>1, <2>3 DEF SegmentsRight
<1>6. \A k \in Loaded : \A z \in 0 .. Phdrs[k].memsz - 1 :
        /\ Phdrs[k].vaddr + z \in DOMAIN mem
        /\ mem[Phdrs[k].vaddr + z] =
             IF z < Phdrs[k].filesz THEN <<"file", Phdrs[k].offset + z>> ELSE "zero"
  BY <1>5, WholeSegment, Zenon
<1>7. \A a \in USER_STACK_VIRT - USER_STACK_PAGES * PAGE .. USER_STACK_VIRT - 1 :
        a \in DOMAIN mem /\ mem[a] = "junk"
  BY <1>2, WholeStack
<1>8. /\ USER_STACK_VIRT \in Nat /\ USER_HEAP_BASE \in Nat /\ USER_HEAP_BASE % PAGE = 0
      /\ USER_STACK_VIRT <= USER_HEAP_BASE
  BY LoaderAssumption, ProgramLayout
<1>9. heap_start' % PAGE = 0
  BY <1>1, <1>2, <1>8, Zenon DEF VendAbove
<1>10. USER_STACK_VIRT <= heap_start' /\ last_vend <= heap_start' /\ heap_start' \in Nat
  BY <1>1, <1>2, <1>3, <1>8 DEF VendAbove
<1>11. \A a \in DOMAIN mem : a < heap_start'
  <2>1. \A a \in DOMAIN mem : a \in Nat /\ (a < USER_STACK_VIRT \/ a < last_vend)
    BY <1>2, <1>3 DEF VendAbove
  <2>2. QED
    BY <1>3, <1>8, <1>10, <2>1
<1>12. \A k \in Loaded : \A a \in SegBytes(Phdrs[k]) : a < heap_start'
  <2> SUFFICES ASSUME NEW k \in Loaded, NEW a \in SegBytes(Phdrs[k]) PROVE a < heap_start'
    OBVIOUS
  <2>1. a \in Nat /\ a < page_end(Phdrs[k]) /\ page_end(Phdrs[k]) \in Nat
    BY <1>5, SegmentPages
  <2>2. page_end(Phdrs[k]) <= last_vend
    BY <1>5
  <2>3. QED
    BY <1>3, <1>10, <2>1, <2>2
<1>13. ProgramReady'
  BY <1>1, <1>4, <1>6, <1>7, <1>9, <1>11, <1>12, Zenon DEF ProgramReady, SegBytes
<1>14. QED
  BY <1>1, <1>13 DEF Memory

(* Every step keeps the invariant.                                         *)
LEMMA LoaderStep == LInv /\ [LoaderNext]_LoaderVars => LInv'
<1> SUFFICES ASSUME Progress, Memory, [LoaderNext]_LoaderVars PROVE Progress' /\ Memory'
  BY DEF LInv
<1>1. CASE open_and_check \/ process_alloc_proc \/ process_alloc_stack
  BY <1>1, FirstSteps, FirstMemory
<1>2. CASE create_address_space
  BY <1>2, SpaceStep, FirstMemory
<1>3. CASE map_stack
  BY <1>3, StackStep, StackMemory
<1>4. CASE map_code
  BY <1>4, LastSteps, CodeMemory
<1>5. CASE load_segment
  BY <1>5, SegmentStep, SegmentMemory
<1>6. CASE finish_elf
  BY <1>6, LastSteps, FinishMemory
<1>7. CASE UNCHANGED LoaderVars
  <2>1. UNCHANGED <<pc, call, i, fd_open, kheap, blocks, frames, taken, mem, last_vend, heap_start>>
    BY <1>7 DEF LoaderVars
  <2>2. LoaderTypeOK' /\ Descriptor' /\ KernelHeap' /\ Counters'
    BY <2>1, ZenonT(60) DEF Progress, LoaderTypeOK, Descriptor, KernelHeap, Counters
  <2>3. StackMapped(USER_STACK_PAGES)' = StackMapped(USER_STACK_PAGES) /\ StackMapped(i)' = StackMapped(i)
    BY <2>1 DEF StackMapped, StackBase
  <2>4. SegmentsRight(i)' = SegmentsRight(i) /\ VendAbove' = VendAbove /\ ProgramReady' = ProgramReady
    BY <2>1 DEF SegmentsRight, VendAbove, ProgramReady, Loaded, Phdrs
  <2>5. Memory'
    BY <2>1, <2>3, <2>4, Zenon DEF Memory
  <2>6. QED
    BY <2>2, <2>5 DEF Progress
<1>8. QED
  BY <1>1, <1>2, <1>3, <1>4, <1>5, <1>6, <1>7, ZenonT(60) DEF LoaderNext

(* The inductive invariant of the two loaders.                             *)
LEMMA LoaderInvariant == LoaderSpec => []LInv
<1>1. LoaderInit => LInv
  BY InitProgress, InitMemory DEF LInv
<1>2. QED
  BY <1>1, LoaderStep, PTL DEF LoaderSpec

(* Whatever file process_create_elf loads and however much memory there    *)
(* is, a process that it or process_create_user returns starts with its    *)
(* program, zeroed beyond the file's part, with its whole stack, and with  *)
(* a heap that begins above both.                                          *)
THEOREM ProgramStartsReady == LoaderSpec => []ProgramReady
<1>1. LInv => ProgramReady
  BY DEF LInv, Memory
<1>2. QED
  BY <1>1, LoaderInvariant, PTL

(* Every return of the loaders closes the descriptor, and one that fails   *)
(* before it has an address space returns all of the kernel heap it took.  *)
THEOREM EarlyFailureReturnsAll == LoaderSpec => []EarlyFailureKeepsNothing
<1>1. LInv => EarlyFailureKeepsNothing
  BY Zenon DEF LInv, Progress, Descriptor, KernelHeap, EarlyFailureKeepsNothing
<1>2. QED
  BY <1>1, LoaderInvariant, PTL

===============================================================================
