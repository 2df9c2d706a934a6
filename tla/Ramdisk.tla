------------------------------- MODULE Ramdisk -------------------------------
(***************************************************************************)
(* The read-only file system (filesystem/ramdisk.c): a USTAR archive       *)
(* linked into the kernel and one table of descriptors for all processes,  *)
(* with the system calls that reach it.  A read is the range of image      *)
(* bytes it copies.  Calls run with interrupts off, so each is one step.   *)
(***************************************************************************)
EXTENDS Integers, Sequences, FiniteSetsExt

CONSTANTS
    Archive,     \* sequence of [dot, base, type, size]: the headers of the image
    Layout,      \* where tar put each header, and the end of the last file
    BLK,         \* bytes of a header and unit of padding (512)
    MAX_FDS,
    Paths,       \* paths programs open: [pre, base]
    Len64,       \* lengths they read
    Offsets,     \* offsets they seek to
    Iovs,        \* sequences of lengths they pass to readv
    WORD         \* 2^64

ASSUME RamdiskAssumption ==
    /\ BLK \in Nat \ {0} /\ MAX_FDS \in Nat /\ WORD \in Nat
    /\ Archive \in Seq([dot : BOOLEAN, base : STRING, type : STRING, size : Nat])
    /\ Len64 \subseteq Nat /\ Offsets \subseteq Int
    /\ Iovs \subseteq Seq(Nat)

(* The USTAR format: a header block, the file, and padding to whole blocks.*)
ASSUME UstarLayout ==
    /\ Layout \in Seq(Nat) /\ Len(Layout) = Len(Archive) + 1 /\ Layout[1] = 0
    /\ \A i \in DOMAIN Archive :
         LET room == Layout[i + 1] - Layout[i] - BLK
         IN  room % BLK = 0 /\ Archive[i].size <= room /\ room < Archive[i].size + BLK

(* The lengths of a vector together.                                       *)
SumSeq(iov) ==
    LET s[k \in 0 .. Len(iov)] == IF k = 0 THEN 0 ELSE s[k - 1] + iov[k]
    IN  s[Len(iov)]

(* No length makes pos + len wrap around.                                  *)
ASSUME NoWrap ==
    \A i \in DOMAIN Archive :
        /\ \A n \in Len64 : Archive[i].size + n < WORD
        /\ \A iov \in Iovs : Archive[i].size + SumSeq(iov) < WORD

VARIABLES
    fds,     \* fds[i] = [data, size, pos, in_use]
    copied   \* what the last read call copied: [data, size, from, to] of image bytes

vars == <<fds, copied>>

Fd == 0 .. MAX_FDS - 1
Entry == [data : Nat, size : Nat, pos : Nat, in_use : BOOLEAN]

TypeOK ==
    /\ fds \in [Fd -> Entry]
    /\ copied \in [data : Nat, size : Nat, from : Nat, to : Nat]

Nothing == [data |-> 0, size |-> 0, from |-> 0, to |-> 0]

(* fds is in .bss; ramdisk_init marks every entry free.                    *)
Init ==
    /\ fds = [i \in Fd |-> [data |-> 0, size |-> 0, pos |-> 0, in_use |-> FALSE]]
    /\ copied = Nothing

-----------------------------------------------------------------------------

(* Mutant: the size is not rounded up to whole blocks.                     *)
stride_unpadded(size) == BLK + size

(* From one header to the next.                                            *)
stride(size) == BLK + ((size + BLK - 1) \div BLK) * BLK

(* Where the walk of ramdisk_open looks for header i.                      *)
header[i \in DOMAIN Archive] ==
    IF i = 1 THEN 0 ELSE header[i - 1] + stride(Archive[i - 1].size)

(* "./" is dropped from the archive's name and "/" from the caller's.      *)
path_match(arc, want) == arc.base = want.base /\ want.pre # "./"

(* Headers open's walk reaches that name a regular file of this path.      *)
Matches(path) ==
    {i \in DOMAIN Archive : Archive[i].type \in {"0", "NUL"} /\ path_match(Archive[i], path)}

Unused == {i \in Fd : ~fds[i].in_use}

(* Mutant: the search for an entry does not look at in_use.                *)
open_any(path) ==
    /\ Matches(path) # {} /\ MAX_FDS > 0
    /\ fds' = [fds EXCEPT ![0] =
         [data |-> header[Min(Matches(path))] + BLK, size |-> Archive[Min(Matches(path))].size,
          pos |-> 0, in_use |-> TRUE]]
    /\ copied' = Nothing

(* The first match goes into the first unused entry; otherwise -1.         *)
ramdisk_open(path) ==
    /\ Matches(path) # {} /\ Unused # {}
    /\ LET m == Min(Matches(path))
       IN  fds' = [fds EXCEPT ![Min(Unused)] =
             [data |-> header[m] + BLK, size |-> Archive[m].size, pos |-> 0, in_use |-> TRUE]]
    /\ copied' = Nothing

(* How much a read of len bytes of entry f copies.                         *)
clip(f, len) ==
    IF f.pos >= f.size THEN 0
    ELSE IF (f.pos + len) % WORD > f.size THEN f.size - f.pos
    ELSE len

ramdisk_read(fd, len) ==
    /\ fds[fd].in_use
    /\ fds' = [fds EXCEPT ![fd].pos = @ + clip(fds[fd], len)]
    /\ copied' = [data |-> fds[fd].data, size |-> fds[fd].size,
                  from |-> fds[fd].data + fds[fd].pos,
                  to |-> fds[fd].data + fds[fd].pos + clip(fds[fd], len)]

clamp(np, size) == IF np < 0 THEN 0 ELSE IF np > size THEN size ELSE np

ramdisk_seek(fd, off, whence) ==
    /\ fds[fd].in_use
    /\ LET f == fds[fd]
           base == CASE whence = "SET" -> 0 [] whence = "CUR" -> f.pos [] whence = "END" -> f.size
       IN  fds' = [fds EXCEPT ![fd].pos = clamp(base + off, f.size)]
    /\ copied' = Nothing

(* Closing what is not open is allowed.                                    *)
ramdisk_close(fd) ==
    /\ fds' = [fds EXCEPT ![fd].in_use = FALSE]
    /\ copied' = Nothing

Start(f) == [f |-> f, total |-> 0, stop |-> FALSE]

(* Mutant: readv goes on after a short read.                               *)
readv_greedy(r, len) == [r EXCEPT !.f.pos = @ + clip(r.f, len), !.total = @ + len]

(* One entry of readv's vector: the loop stops at a read that gives        *)
(* nothing or less than asked for; -1 if nothing was read by then.         *)
readv_step(r, len) ==
    LET got == clip(r.f, len)
    IN  IF r.stop \/ len = 0 THEN r
        ELSE IF got = 0
             THEN [f |-> r.f, total |-> IF r.total = 0 THEN -1 ELSE r.total, stop |-> TRUE]
        ELSE [f |-> [r.f EXCEPT !.pos = @ + got], total |-> r.total + got, stop |-> got < len]

readv_loop(f, iov) ==
    LET r[k \in 0 .. Len(iov)] ==
            IF k = 0 THEN Start(f) ELSE readv_step(r[k - 1], iov[k])
    IN  r[Len(iov)]

readv(fd, iov) ==
    /\ fds[fd].in_use
    /\ fds' = [fds EXCEPT ![fd] = readv_loop(fds[fd], iov).f]
    /\ copied' = [data |-> fds[fd].data, size |-> fds[fd].size,
                  from |-> fds[fd].data + fds[fd].pos,
                  to |-> fds[fd].data + readv_loop(fds[fd], iov).f.pos]

Next ==
    \/ \E path \in Paths : ramdisk_open(path)
    \/ \E fd \in Fd :
         \/ \E len \in Len64 : ramdisk_read(fd, len)
         \/ \E off \in Offsets, whence \in {"SET", "CUR", "END"} : ramdisk_seek(fd, off, whence)
         \/ ramdisk_close(fd)
         \/ \E iov \in Iovs : readv(fd, iov)

Spec == Init /\ [][Next]_vars

-----------------------------------------------------------------------------

(* An open descriptor is a regular file of the archive: its bytes are the  *)
(* file's, where tar put them, its position is inside it, and a read never *)
(* copies image bytes from outside it.                                     *)
OpenIsAFile ==
    /\ TypeOK
    /\ \A fd \in Fd : fds[fd].in_use =>
         /\ fds[fd].pos <= fds[fd].size
         /\ \E i \in DOMAIN Archive :
              /\ Archive[i].type # "5"
              /\ fds[fd].data = Layout[i] + BLK /\ fds[fd].size = Archive[i].size
    /\ copied.data <= copied.from /\ copied.from <= copied.to
    /\ copied.to <= copied.data + copied.size

(* The table is one for all processes, yet descriptors are independent: a  *)
(* call changes one of them, and while it is open a descriptor stays with  *)
(* its file.                                                               *)
DescriptorsIndependent ==
    [][/\ \A d, j \in Fd : fds'[d] # fds[d] /\ fds'[j] # fds[j] => d = j
       /\ \A d \in Fd : fds[d].in_use /\ fds'[d].in_use =>
            fds'[d].data = fds[d].data /\ fds'[d].size = fds[d].size
       /\ \A d \in Fd : ~fds[d].in_use /\ fds'[d].in_use => fds'[d].pos = 0]_vars

(* A readv is one read of all its lengths together: same bytes, same new   *)
(* position, same count, except that nothing at all is -1, not 0.          *)
ReadvIsOneRead ==
    \A fd \in Fd, iov \in Iovs : fds[fd].in_use /\ SumSeq(iov) > 0 =>
       LET one == clip(fds[fd], SumSeq(iov))
           many == readv_loop(fds[fd], iov)
       IN  /\ many.f.pos = fds[fd].pos + one
           /\ many.total = IF one = 0 THEN -1 ELSE one

=============================================================================
