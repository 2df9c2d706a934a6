---------------------------- MODULE SyscallProofs ----------------------------
(***************************************************************************)
(* Two families of system calls.  First the files: the descriptors, for    *)
(* every archive that tar lays out, every number of descriptors and every  *)
(* mix of calls.  Then the heap: it stays backed and its frames private,   *)
(* for every page size, number of processes and amount of memory.          *)
(***************************************************************************)
EXTENDS Ramdisk, UserHeap, KernelLemmas

-----------------------------------------------------------------------------
(* The files.                                                              *)

(* Rounding a size up to whole blocks as the walk does gives tar's padding. *)
LEMMA Padding ==
    ASSUME NEW b \in Nat \ {0}, NEW s \in Nat, NEW room \in Int,
           room % b = 0, s <= room, room < s + b
    PROVE  ((s + b - 1) \div b) * b = room
<1> DEFINE q == room \div b   t == s + b - 1   p == t \div b   r == t % b
<1>1. q \in Int /\ room = b * q
  OBVIOUS
<1>2. t \in Int /\ p \in Int /\ r \in 0 .. b - 1 /\ t = b * p + r
  OBVIOUS
<1>3. t >= room /\ t < room + b
  OBVIOUS
<1> HIDE DEF q, t, p, r
<1>4. p > q => b * p >= b * q + b
  <2> SUFFICES ASSUME p > q PROVE b * p >= b * q + b
    OBVIOUS
  <2>1. b * (p - q - 1) >= 0
    BY <1>1, <1>2
  <2>2. b * (p - q - 1) = b * p - b * q - b
    BY <1>1, <1>2
  <2>3. QED
    BY <1>1, <1>2, <2>1, <2>2
<1>5. p < q => b * p <= b * q - b
  <2> SUFFICES ASSUME p < q PROVE b * p <= b * q - b
    OBVIOUS
  <2>1. b * (q - p - 1) >= 0
    BY <1>1, <1>2
  <2>2. b * (q - p - 1) = b * q - b * p - b
    BY <1>1, <1>2
  <2>3. QED
    BY <1>1, <1>2, <2>1, <2>2
<1>6. p = q
  BY <1>1, <1>2, <1>3, <1>4, <1>5
<1>7. p * b = room
  BY <1>1, <1>2, <1>6
<1>8. QED
  BY <1>7 DEF p, t

(* The walk of ramdisk_open finds every header where tar put it.           *)
LEMMA HeaderFound ==
    \A d \in DOMAIN Archive : header[d] = Layout[d]
<1> DEFINE n == Len(Archive)
           g == [d \in DOMAIN Archive |-> Layout[d]]
           body(h) == [d \in DOMAIN Archive |->
                          IF d = 1 THEN 0 ELSE h[d - 1] + stride(Archive[d - 1].size)]
<1>1. /\ n \in Nat /\ DOMAIN Archive = 1 .. n /\ Layout \in Seq(Nat) /\ Len(Layout) = n + 1
      /\ \A d \in 1 .. n : Archive[d].size \in Nat
      /\ BLK \in Nat \ {0} /\ Layout[1] = 0
  <2> DEFINE H == [dot : BOOLEAN, base : STRING, type : STRING, size : Nat]
  <2>1. Archive \in Seq(H)
    BY RamdiskAssumption
  <2>2. n \in Nat /\ DOMAIN Archive = 1 .. n
    BY <2>1
  <2>3. \A d \in 1 .. n : Archive[d] \in H
    <3> HIDE DEF H
    <3>1. QED
      BY <2>1, <2>2
  <2>4. \A d \in 1 .. n : Archive[d].size \in Nat
    BY <2>3
  <2>5. BLK \in Nat \ {0} /\ Layout \in Seq(Nat) /\ Len(Layout) = n + 1 /\ Layout[1] = 0
    BY RamdiskAssumption, UstarLayout, Zenon
  <2>6. QED
    BY <2>2, <2>4, <2>5
<1>2. \A d \in 1 .. n : Layout[d + 1] = Layout[d] + stride(Archive[d].size)
  <2> SUFFICES ASSUME NEW d \in 1 .. n
               PROVE  Layout[d + 1] = Layout[d] + stride(Archive[d].size)
    OBVIOUS
  <2> DEFINE room == Layout[d + 1] - Layout[d] - BLK   s == Archive[d].size
  <2>1. room % BLK = 0 /\ s <= room /\ room < s + BLK
    BY <1>1, UstarLayout, Zenon
  <2>2. Layout[d] \in Nat /\ Layout[d + 1] \in Nat /\ room \in Int /\ s \in Nat
    <3>1. Layout[d] \in Nat /\ Layout[d + 1] \in Nat
      BY <1>1
    <3>2. QED
      BY <1>1, <3>1, SMTT(60)
  <2>3. ((s + BLK - 1) \div BLK) * BLK = room
    <3> HIDE DEF room, s
    <3>1. QED
      BY <1>1, <2>1, <2>2, Padding, Zenon
  <2>4. stride(s) = BLK + room
    BY <2>3, Zenon DEF stride
  <2> DEFINE st == stride(s)
  <2>5. Layout[d + 1] = Layout[d] + st
    <3> DEFINE a == Layout[d]   z == Layout[d + 1]
    <3>1. st = BLK + (z - a - BLK) /\ a \in Nat /\ z \in Nat /\ BLK \in Nat
      BY <1>1, <2>2, <2>4, Zenon
    <3> HIDE DEF st, a, z
    <3>2. z = a + st
      BY <3>1
    <3>3. QED
      BY <3>2 DEF a, z
  <2>6. QED
    BY <2>5
<1>3. g = body(g)
  <2>1. \A d \in 1 .. n : d # 1 => d - 1 \in 1 .. n /\ (d - 1) + 1 = d
    BY <1>1
  <2>2. \A d \in 1 .. n : d # 1 => g[d - 1] = Layout[d - 1] /\ Layout[d] = Layout[d - 1] + stride(Archive[d - 1].size)
    BY <1>1, <1>2, <2>1, Zenon
  <2>3. QED
    BY <1>1, <2>2, SMTT(60)
<1>4. header = body(header)
  <2>1. header = CHOOSE h : h = body(h)
    BY DEF header
  <2> HIDE DEF g, body
  <2>2. QED
    BY <1>3, <2>1
<1>5. \A d \in 1 .. n : header[d] = IF d = 1 THEN 0 ELSE header[d - 1] + stride(Archive[d - 1].size)
  <2>1. \A d \in DOMAIN Archive : body(header)[d] = IF d = 1 THEN 0 ELSE header[d - 1] + stride(Archive[d - 1].size)
    OBVIOUS
  <2> HIDE DEF body
  <2>2. QED
    BY <1>1, <1>4, <2>1, Zenon
<1> DEFINE S == {k \in Nat : k + 1 \in 1 .. n => header[k + 1] = Layout[k + 1]}
<1>6. Nat \subseteq S
  <2>1. 0 \in S
    BY <1>1, <1>5
  <2>2. ASSUME NEW k \in Nat, k \in S PROVE k + 1 \in S
    <3> SUFFICES ASSUME k + 2 \in 1 .. n PROVE header[k + 2] = Layout[k + 2]
      OBVIOUS
    <3>1. k + 1 \in 1 .. n /\ k + 2 # 1 /\ (k + 2) - 1 = k + 1
      BY <1>1
    <3>2. header[k + 1] = Layout[k + 1]
      BY <2>2, <3>1
    <3>3. header[k + 2] = header[k + 1] + stride(Archive[k + 1].size)
      BY <1>5, <3>1
    <3>4. Layout[(k + 1) + 1] = Layout[k + 1] + stride(Archive[k + 1].size)
      BY <1>2, <3>1
    <3>5. QED
      BY <3>2, <3>3, <3>4
  <2> HIDE DEF S
  <2>3. QED
    BY <2>1, <2>2, Counting, Zenon
<1>7. QED
  <2> SUFFICES ASSUME NEW d \in 1 .. n PROVE header[d] = Layout[d]
    BY <1>1
  <2>1. d - 1 \in Nat /\ (d - 1) + 1 = d
    BY <1>1
  <2>2. d - 1 \in S
    BY <1>6, <2>1, Zenon
  <2>3. QED
    BY <2>1, <2>2

-----------------------------------------------------------------------------
(* The lengths of a vector add up step by step, and no part is longer than *)
(* the whole.                                                              *)
LEMMA Sums ==
    ASSUME NEW iov \in Seq(Nat)
    PROVE  \E s \in [0 .. Len(iov) -> Nat] :
              /\ s[0] = 0 /\ s[Len(iov)] = SumSeq(iov)
              /\ \A k \in 1 .. Len(iov) : s[k] = s[k - 1] + iov[k]
              /\ \A k \in 0 .. Len(iov) : s[k] <= s[Len(iov)]
<1> DEFINE n == Len(iov)
           body(h) == [k \in 0 .. n |-> IF k = 0 THEN 0 ELSE h[k - 1] + iov[k]]
           S == {m \in Nat : \E g \in [0 .. n -> Nat] :
                    g[0] = 0 /\ \A k \in 1 .. n : k <= m => g[k] = g[k - 1] + iov[k]}
<1>1. n \in Nat /\ \A k \in 1 .. n : iov[k] \in Nat
  OBVIOUS
<1>2. Nat \subseteq S
  <2>1. 0 \in S
    <3>1. [k \in 0 .. n |-> 0] \in [0 .. n -> Nat] /\ [k \in 0 .. n |-> 0][0] = 0
      BY <1>1
    <3>2. \A k \in 1 .. n : ~(k <= 0)
      BY <1>1
    <3>3. QED
      BY <3>1, <3>2
  <2>2. ASSUME NEW m \in Nat, m \in S PROVE m + 1 \in S
    <3>1. PICK g \in [0 .. n -> Nat] :
             g[0] = 0 /\ \A k \in 1 .. n : k <= m => g[k] = g[k - 1] + iov[k]
      BY <2>2
    <3>2. CASE m + 1 > n
      BY <1>1, <3>1, <3>2, SMTT(60)
    <3>3. CASE m + 1 <= n
      <4> DEFINE h == [g EXCEPT ![m + 1] = g[m] + iov[m + 1]]
      <4>0. m \in 0 .. n /\ m + 1 \in 1 .. n /\ m + 1 # 0 /\ g[m] + iov[m + 1] \in Nat
        <5>1. m \in 0 .. n /\ m + 1 \in 1 .. n /\ m + 1 # 0
          BY <1>1, <3>3
        <5>2. g[m] \in Nat /\ iov[m + 1] \in Nat
          BY <1>1, <5>1, SMTT(60)
        <5>3. QED
          BY <5>1, <5>2, SMTT(60)
      <4>1. h \in [0 .. n -> Nat] /\ h[0] = 0
        BY <1>1, <3>1, <4>0
      <4>2. \A k \in 1 .. n : k <= m + 1 => h[k] = h[k - 1] + iov[k]
        BY <1>1, <3>1, <3>3, SMTT(60)
      <4> HIDE DEF h
      <4>3. QED
        BY <4>1, <4>2
    <3>4. m + 1 > n \/ m + 1 <= n
      BY <1>1
    <3>5. QED
      BY <3>2, <3>3, <3>4, Zenon
  <2> HIDE DEF S
  <2>3. QED
    BY <2>1, <2>2, Counting, Zenon
<1>3. PICK g \in [0 .. n -> Nat] : g[0] = 0 /\ \A k \in 1 .. n : g[k] = g[k - 1] + iov[k]
  <2>1. n \in S
    BY <1>1, <1>2, Zenon
  <2>2. PICK h \in [0 .. n -> Nat] :
           h[0] = 0 /\ \A k \in 1 .. n : k <= n => h[k] = h[k - 1] + iov[k]
    BY <2>1
  <2>3. \A k \in 1 .. n : k <= n
    BY <1>1
  <2>4. QED
    BY <2>2, <2>3, Zenon
<1> HIDE DEF S
<1> DEFINE s == CHOOSE h : h = body(h)
<1>4. SumSeq(iov) = s[n]
  BY DEF SumSeq
<1>5. s = body(s)
  <2>1. g = body(g)
    BY <1>1, <1>3
  <2> HIDE DEF body
  <2>2. QED
    BY <2>1
<1> HIDE DEF s
<1>6. s[0] = 0 /\ \A k \in 1 .. n : s[k] = s[k - 1] + iov[k]
  <2>1. \A k \in 0 .. n : body(s)[k] = IF k = 0 THEN 0 ELSE s[k - 1] + iov[k]
    OBVIOUS
  <2> HIDE DEF body
  <2>2. \A k \in 0 .. n : s[k] = IF k = 0 THEN 0 ELSE s[k - 1] + iov[k]
    BY <1>5, <2>1, Zenon
  <2>3. QED
    BY <1>1, <2>2
<1> DEFINE Same == {k \in Nat : k <= n => s[k] = g[k]}
<1>7. Nat \subseteq Same
  <2>1. 0 \in Same
    BY <1>3, <1>6
  <2>2. ASSUME NEW k \in Nat, k \in Same PROVE k + 1 \in Same
    <3> SUFFICES ASSUME k + 1 <= n PROVE s[k + 1] = g[k + 1]
      OBVIOUS
    <3>1. k + 1 \in 1 .. n /\ (k + 1) - 1 = k /\ s[k] = g[k]
      BY <1>1, <2>2
    <3>2. QED
      BY <1>3, <1>6, <3>1
  <2> HIDE DEF Same
  <2>3. QED
    BY <2>1, <2>2, Counting, Zenon
<1>8. s[n] = g[n]
  <2>1. n \in Same
    BY <1>1, <1>7, Zenon
  <2>2. QED
    BY <1>1, <2>1
<1> DEFINE Below == {j \in Nat : j <= n => g[n - j] <= g[n]}
<1>9. Nat \subseteq Below
  <2>1. 0 \in Below
    BY <1>1, <1>3
  <2>2. ASSUME NEW j \in Nat, j \in Below PROVE j + 1 \in Below
    <3> SUFFICES ASSUME j + 1 <= n PROVE g[n - (j + 1)] <= g[n]
      OBVIOUS
    <3> DEFINE k == n - j
    <3>1. k \in 1 .. n /\ n - (j + 1) = k - 1 /\ g[k] <= g[n] /\ k - 1 \in 0 .. n /\ n \in 0 .. n
      BY <1>1, <2>2
    <3> HIDE DEF k
    <3>2. g[k] = g[k - 1] + iov[k] /\ iov[k] \in Nat
      BY <1>1, <1>3, <3>1, Zenon
    <3>3. k \in 0 .. n
      BY <1>1, <3>1
    <3>4. g[k] \in Nat /\ g[k - 1] \in Nat /\ g[n] \in Nat
      BY <1>3, <3>1, <3>3, Zenon
    <3>5. g[k - 1] <= g[n]
      BY <3>1, <3>2, <3>4
    <3>6. QED
      BY <3>1, <3>5, Zenon
  <2> HIDE DEF Below
  <2>3. QED
    BY <2>1, <2>2, Counting, Zenon
<1>10. \A k \in 0 .. n : g[k] <= g[n]
  <2> SUFFICES ASSUME NEW k \in 0 .. n PROVE g[k] <= g[n]
    OBVIOUS
  <2>1. n - k \in Nat /\ n - k <= n /\ n - (n - k) = k
    BY <1>1
  <2>2. n - k \in Below
    BY <1>9, <2>1, Zenon
  <2>3. QED
    BY <2>1, <2>2
<1>11. QED
  BY <1>3, <1>4, <1>8, <1>10, SMTT(60)

(* The state of the loop of readv when its lengths so far add up to x: the *)
(* reads were complete, or one has met the end of the file.                *)
At(f, p) == [f EXCEPT !.pos = p]
ReadSoFar(f, x) ==
    IF f.pos + x <= f.size
    THEN [f |-> At(f, f.pos + x), total |-> x, stop |-> FALSE]
    ELSE [f |-> At(f, f.size), total |-> IF f.pos = f.size THEN -1 ELSE f.size - f.pos,
          stop |-> TRUE]

(* What clip computes when pos + len does not wrap around.                 *)
LEMMA ClipFacts ==
    ASSUME NEW f \in Entry, f.pos <= f.size, NEW len \in Nat, f.size + len < WORD, WORD \in Nat
    PROVE  /\ clip(f, len) = IF f.pos + len > f.size THEN f.size - f.pos ELSE len
           /\ clip(f, len) \in Nat /\ f.pos + clip(f, len) <= f.size
<1> DEFINE p == f.pos   z == f.size
<1>1. p \in Nat /\ z \in Nat /\ p <= z
  BY DEF Entry
<1>2. clip(f, len) = IF p >= z THEN 0 ELSE IF (p + len) % WORD > z THEN z - p ELSE len
  BY DEF clip
<1>3. z + len < WORD
  OBVIOUS
<1> HIDE DEF p, z
<1>4. (p + len) % WORD = p + len
  <2> DEFINE y == p + len
  <2>1. y \in 0 .. WORD - 1 /\ WORD \in Nat \ {0}
    BY <1>1, <1>3
  <2> HIDE DEF y
  <2>2. y % WORD = y
    BY <2>1
  <2>3. QED
    BY <2>2 DEF y
<1>5. clip(f, len) = IF p + len > z THEN z - p ELSE len
  BY <1>1, <1>2, <1>4
<1>6. QED
  <2>1. clip(f, len) \in Nat /\ p + clip(f, len) <= z
    BY <1>1, <1>5
  <2>2. QED
    BY <1>5, <2>1 DEF p, z

(* One entry of the vector takes the loop from x to x + len.               *)
LEMMA ReadvStep ==
    ASSUME NEW f \in Entry, f.pos <= f.size, NEW x \in Nat, NEW len \in Nat,
           f.size + (x + len) < WORD, WORD \in Nat
    PROVE  readv_step(ReadSoFar(f, x), len) = ReadSoFar(f, x + len)
<1> DEFINE p == f.pos   z == f.size   r == ReadSoFar(f, x)
<1>1. p \in Nat /\ z \in Nat /\ p <= z /\ z + (x + len) < WORD
  BY DEF Entry
<1>2. \A y, w : y \in Nat => /\ At(f, y) \in Entry /\ At(f, y).pos = y /\ At(f, y).size = z
                             /\ [At(f, y) EXCEPT !.pos = w] = At(f, w)
  BY Zenon DEF At, Entry
<1>3. CASE p + x <= z
  <2> DEFINE e == At(f, p + x)   c == clip(e, len)
  <2>1. /\ r = [f |-> e, total |-> x, stop |-> FALSE]
        /\ r.f = e /\ r.total = x /\ r.stop = FALSE
    BY <1>3 DEF ReadSoFar
  <2>2. p + x \in Nat
    BY <1>1
  <2>3. e \in Entry /\ e.pos = p + x /\ e.size = z
    BY <1>2, <2>2
  <2>4. c = (IF p + x + len > z THEN z - (p + x) ELSE len) /\ c \in Nat
    <3>1. e.pos <= e.size /\ e.size + len < WORD
      BY <1>1, <1>3, <2>3
    <3> HIDE DEF e
    <3>2. c = (IF e.pos + len > e.size THEN e.size - e.pos ELSE len) /\ c \in Nat
      BY <2>3, <3>1, ClipFacts
    <3>3. QED
      BY <2>3, <3>2
  <2>5. readv_step(r, len) = IF len = 0 THEN r
                             ELSE IF c = 0 THEN [f |-> e, total |-> IF x = 0 THEN -1 ELSE x, stop |-> TRUE]
                             ELSE [f |-> [e EXCEPT !.pos = @ + c], total |-> x + c, stop |-> c < len]
    <3> HIDE DEF e, r
    <3>1. QED
      BY <2>1 DEF readv_step
  <2>6. [e EXCEPT !.pos = @ + c] = At(f, p + x + c)
    <3>1. [e EXCEPT !.pos = @ + c] = [e EXCEPT !.pos = p + x + c]
      <4> HIDE DEF e, c
      <4>1. QED
        BY <2>3
    <3>2. [At(f, p + x) EXCEPT !.pos = p + x + c] = At(f, p + x + c)
      <4> HIDE DEF c
      <4>1. QED
        BY <1>2, <2>2
    <3>3. QED
      BY <3>1, <3>2
  <2> HIDE DEF e, c, r, p, z
  <2>7. ReadSoFar(f, x + len) =
           IF p + (x + len) <= z
           THEN [f |-> At(f, p + (x + len)), total |-> x + len, stop |-> FALSE]
           ELSE [f |-> At(f, z), total |-> IF p = z THEN -1 ELSE z - p, stop |-> TRUE]
    BY DEF ReadSoFar, p, z
  <2>8. CASE len = 0
    <3>1. x + len = x
      BY <2>8
    <3>2. QED
      BY <2>5, <2>8, <3>1 DEF r
  <2>9. CASE len # 0 /\ c = 0
    <3>1. p + x = z /\ ~(p + (x + len) <= z) /\ (p = z <=> x = 0) /\ z - p = x
      BY <1>1, <1>3, <2>4, <2>9
    <3>2. e = At(f, z)
      BY <3>1 DEF e
    <3>3. QED
      BY <2>5, <2>7, <2>9, <3>1, <3>2, Zenon DEF r
  <2>10. CASE len # 0 /\ c # 0 /\ p + x + len > z
    <3>1. c = z - (p + x) /\ p + x + c = z /\ ~(p + (x + len) <= z) /\ p # z /\ x + c = z - p /\ c < len
      BY <1>1, <1>3, <2>4, <2>10
    <3>2. QED
      BY <2>5, <2>6, <2>7, <2>10, <3>1, Zenon DEF r
  <2>11. CASE len # 0 /\ c # 0 /\ ~(p + x + len > z)
    <3>1. c = len /\ p + (x + len) <= z /\ p + x + c = p + (x + len) /\ ~(c < len) /\ x + c = x + len
      BY <1>1, <1>3, <2>4, <2>11
    <3>2. (c < len) = FALSE
      BY <2>4, <3>1
    <3>3. readv_step(r, len) = [f |-> At(f, p + x + c), total |-> x + c, stop |-> FALSE]
      BY <2>5, <2>6, <2>11, <3>2, Zenon
    <3>4. QED
      BY <2>7, <3>1, <3>3, Zenon DEF r
  <2>12. QED
    BY <2>8, <2>9, <2>10, <2>11
<1>4. CASE ~(p + x <= z)
  <2>1. ~(p + (x + len) <= z)
    BY <1>1, <1>4
  <2>2. r.stop /\ ReadSoFar(f, x + len) = r
    BY <1>4, <2>1 DEF ReadSoFar
  <2> HIDE DEF r
  <2>3. readv_step(r, len) = r
    BY <2>2 DEF readv_step
  <2>4. QED
    BY <2>2, <2>3 DEF r
<1>5. QED
  BY <1>3, <1>4

(* The whole loop, by induction on the entries of the vector.              *)
LEMMA ReadvLoop ==
    ASSUME NEW f \in Entry, f.pos <= f.size, NEW iov \in Seq(Nat),
           f.size + SumSeq(iov) < WORD, WORD \in Nat
    PROVE  SumSeq(iov) \in Nat /\ readv_loop(f, iov) = ReadSoFar(f, SumSeq(iov))
<1> DEFINE n == Len(iov)
           body(h) == [k \in 0 .. n |->
                          IF k = 0 THEN Start(f) ELSE readv_step(h[k - 1], iov[k])]
<1>1. n \in Nat /\ \A k \in 1 .. n : iov[k] \in Nat
  OBVIOUS
<1>2. PICK s \in [0 .. n -> Nat] :
         /\ s[0] = 0 /\ s[n] = SumSeq(iov)
         /\ \A k \in 1 .. n : s[k] = s[k - 1] + iov[k]
         /\ \A k \in 0 .. n : s[k] <= s[n]
  BY Sums, SMTT(60)
<1>3. \A k \in 1 .. n : readv_step(ReadSoFar(f, s[k - 1]), iov[k]) = ReadSoFar(f, s[k])
  <2> SUFFICES ASSUME NEW k \in 1 .. n
               PROVE  readv_step(ReadSoFar(f, s[k - 1]), iov[k]) = ReadSoFar(f, s[k])
    OBVIOUS
  <2> DEFINE x == s[k - 1]   len == iov[k]
  <2>1. k - 1 \in 0 .. n /\ k \in 0 .. n /\ n \in 0 .. n
    BY <1>1
  <2>2. x \in Nat /\ len \in Nat /\ s[k] = x + len /\ s[k] <= s[n] /\ s[n] \in Nat
    BY <1>1, <1>2, <2>1, Zenon
  <2>3. f.size \in Nat /\ f.size + s[n] < WORD
    BY <1>2 DEF Entry
  <2> HIDE DEF x, len
  <2>4. f.size + (x + len) < WORD
    BY <2>2, <2>3
  <2>5. readv_step(ReadSoFar(f, x), len) = ReadSoFar(f, x + len)
    BY <2>2, <2>4, ReadvStep
  <2>6. QED
    BY <2>2, <2>5 DEF x, len
<1>4. ReadSoFar(f, 0) = Start(f)
  <2>1. f.pos \in Nat /\ f.pos + 0 = f.pos /\ f.pos + 0 <= f.size
    BY DEF Entry
  <2>2. At(f, f.pos) = f
    BY DEF At, Entry
  <2>3. QED
    BY <2>1, <2>2, Zenon DEF ReadSoFar, Start
<1> DEFINE w == [k \in 0 .. n |-> ReadSoFar(f, s[k])]
           r == CHOOSE h : h = body(h)
<1>5. w = body(w)
  <2>1. \A k \in 0 .. n : k # 0 => k \in 1 .. n /\ k - 1 \in 0 .. n
    BY <1>1
  <2>2. \A k \in 0 .. n : ReadSoFar(f, s[k]) = IF k = 0 THEN Start(f) ELSE readv_step(w[k - 1], iov[k])
    BY <1>2, <1>3, <1>4, <2>1, ZenonT(60)
  <2>3. QED
    BY <2>2, Zenon
<1>6. readv_loop(f, iov) = r[n]
  BY DEF readv_loop
<1>7. r = body(r)
  <2> HIDE DEF w, body
  <2>1. QED
    BY <1>5
<1> HIDE DEF r
<1>8. \A k \in 0 .. n : r[k] = IF k = 0 THEN Start(f) ELSE readv_step(r[k - 1], iov[k])
  <2>1. \A k \in 0 .. n : body(r)[k] = IF k = 0 THEN Start(f) ELSE readv_step(r[k - 1], iov[k])
    BY Zenon
  <2> HIDE DEF body
  <2>2. QED
    BY <1>7, <2>1, Zenon
<1> DEFINE Same == {k \in Nat : k <= n => r[k] = ReadSoFar(f, s[k])}
<1>9. Nat \subseteq Same
  <2>1. 0 \in Same
    <3>1. 0 \in 0 .. n
      BY <1>1
    <3>2. r[0] = ReadSoFar(f, s[0])
      BY <1>2, <1>4, <1>8, <3>1, Zenon
    <3>3. QED
      BY <3>2
  <2>2. ASSUME NEW k \in Nat, k \in Same PROVE k + 1 \in Same
    <3> SUFFICES ASSUME k + 1 <= n PROVE r[k + 1] = ReadSoFar(f, s[k + 1])
      OBVIOUS
    <3>1. k + 1 \in 1 .. n /\ k + 1 \in 0 .. n /\ k + 1 # 0 /\ (k + 1) - 1 = k /\ k <= n
      BY <1>1
    <3>2. r[k] = ReadSoFar(f, s[k])
      BY <2>2, <3>1, Zenon
    <3>3. QED
      BY <1>3, <1>8, <3>1, <3>2, Zenon
  <2> HIDE DEF Same
  <2>3. QED
    BY <2>1, <2>2, Counting, Zenon
<1>10. r[n] = ReadSoFar(f, s[n])
  <2>1. n \in Same /\ n <= n
    BY <1>1, <1>9
  <2>2. QED
    BY <2>1, Zenon
<1>11. s[n] \in Nat
  BY <1>1
<1>12. QED
  BY <1>2, <1>6, <1>10, <1>11, Zenon

-----------------------------------------------------------------------------
(* A descriptor in use has a file of the archive behind it, and the        *)
(* lengths that are asked of it do not wrap around.                        *)
LEMMA InUse ==
    ASSUME OpenIsAFile, NEW fd \in Fd, fds[fd].in_use
    PROVE  /\ fds[fd] \in Entry /\ fds[fd].pos <= fds[fd].size /\ WORD \in Nat
           /\ \A len \in Len64 : len \in Nat /\ fds[fd].size + len < WORD
           /\ \A iov \in Iovs : iov \in Seq(Nat) /\ fds[fd].size + SumSeq(iov) < WORD
<1>1. fds[fd] \in Entry /\ fds[fd].pos <= fds[fd].size
  BY DEF OpenIsAFile, TypeOK
<1>2. PICK d \in DOMAIN Archive : fds[fd].size = Archive[d].size
  BY DEF OpenIsAFile
<1>3. WORD \in Nat /\ (\A len \in Len64 : len \in Nat) /\ (\A iov \in Iovs : iov \in Seq(Nat))
  BY RamdiskAssumption, Zenon
<1>4. QED
  BY <1>1, <1>2, <1>3, NoWrap, Zenon

(* The first match of a path is a regular file of the archive.             *)
LEMMA FirstMatch ==
    ASSUME NEW path, Matches(path) # {}
    PROVE  LET m == Min(Matches(path))
           IN  /\ m \in DOMAIN Archive /\ Archive[m].type # "5"
               /\ header[m] = Layout[m] /\ Layout[m] \in Nat /\ Archive[m].size \in Nat
<1> DEFINE m == Min(Matches(path))
           H == [dot : BOOLEAN, base : STRING, type : STRING, size : Nat]
<1>1. Archive \in Seq(H) /\ Layout \in Seq(Nat) /\ Len(Layout) = Len(Archive) + 1
  BY RamdiskAssumption, UstarLayout, Zenon
<1>2. DOMAIN Archive = 1 .. Len(Archive) /\ Len(Archive) \in Nat
  <2> HIDE DEF H
  <2>1. QED
    BY <1>1
<1>3. Matches(path) \subseteq Nat
  BY <1>2 DEF Matches
<1>4. m \in Matches(path)
  BY <1>3, LeastNatural, Zenon DEF Min
<1> HIDE DEF m
<1>5. m \in DOMAIN Archive /\ Archive[m].type \in {"0", "NUL"}
  BY <1>4, Zenon DEF Matches
<1>6. Layout[m] \in Nat
  BY <1>1, <1>2, <1>5
<1>7. Archive[m] \in H
  <2> HIDE DEF H
  <2>1. QED
    BY <1>1, <1>2, <1>5
<1>8. header[m] = Layout[m] /\ Archive[m].size \in Nat /\ Archive[m].type # "5"
  BY <1>5, <1>7, HeaderFound
<1>9. QED
  BY <1>5, <1>6, <1>8 DEF m

-----------------------------------------------------------------------------
(* A call has left every descriptor but fd alone, and copied bytes of its  *)
(* file at most.                                                           *)
OneChanged(fd) == fds' = [fds EXCEPT ![fd] = fds'[fd]]

IsFile(e) ==
    /\ e \in Entry
    /\ e.in_use =>
         /\ e.pos <= e.size
         /\ \E d \in DOMAIN Archive :
              Archive[d].type # "5" /\ e.data = Layout[d] + BLK /\ e.size = Archive[d].size

CopiedInside(c) ==
    /\ c \in [data : Nat, size : Nat, from : Nat, to : Nat]
    /\ c.data <= c.from /\ c.from <= c.to /\ c.to <= c.data + c.size

Independent ==
    /\ \A d, j \in Fd : fds'[d] # fds[d] /\ fds'[j] # fds[j] => d = j
    /\ \A d \in Fd : fds[d].in_use /\ fds'[d].in_use =>
         fds'[d].data = fds[d].data /\ fds'[d].size = fds[d].size
    /\ \A d \in Fd : ~fds[d].in_use /\ fds'[d].in_use => fds'[d].pos = 0

(* It is enough to look at the descriptor of the call.                     *)
LEMMA OneCall ==
    ASSUME OpenIsAFile, NEW fd \in Fd, OneChanged(fd), IsFile(fds'[fd]), CopiedInside(copied'),
           fds[fd].in_use /\ fds'[fd].in_use =>
              fds'[fd].data = fds[fd].data /\ fds'[fd].size = fds[fd].size,
           ~fds[fd].in_use /\ fds'[fd].in_use => fds'[fd].pos = 0
    PROVE  OpenIsAFile' /\ Independent
<1> DEFINE e == fds'[fd]
<1>1. fds \in [Fd -> Entry] /\ fds' = [fds EXCEPT ![fd] = e] /\ e \in Entry
  BY DEF OpenIsAFile, TypeOK, OneChanged, IsFile
<1> HIDE DEF e
<1>2. fds' \in [Fd -> Entry] /\ \A d \in Fd : d # fd => fds'[d] = fds[d]
  BY <1>1
<1>3. \A d \in Fd : IsFile(fds'[d])
  <2>1. \A d \in Fd : IsFile(fds[d])
    BY <1>1, Zenon DEF OpenIsAFile, IsFile
  <2>2. QED
    BY <1>2, <2>1, Zenon
<1>4. OpenIsAFile'
  BY <1>2, <1>3, Zenon DEF OpenIsAFile, TypeOK, IsFile, CopiedInside
<1>5. Independent
  BY <1>2, Zenon DEF Independent
<1>6. QED
  BY <1>4, <1>5

(* Every call, from states in which open descriptors are files.            *)
LEMMA EveryCall ==
    ASSUME OpenIsAFile, Next
    PROVE  OpenIsAFile' /\ Independent
<1>0. /\ fds \in [Fd -> Entry] /\ BLK \in Nat /\ CopiedInside(Nothing)
      /\ \A fd \in Fd : fds[fd].data \in Nat /\ fds[fd].size \in Nat /\ fds[fd].pos \in Nat
  BY RamdiskAssumption, SMTT(60) DEF OpenIsAFile, TypeOK, Entry, CopiedInside, Nothing
<1>1. ASSUME NEW path \in Paths, ramdisk_open(path) PROVE OpenIsAFile' /\ Independent
  <2> DEFINE m == Min(Matches(path))
             u == Min(Unused)
             e == [data |-> header[m] + BLK, size |-> Archive[m].size, pos |-> 0, in_use |-> TRUE]
  <2>1. /\ m \in DOMAIN Archive /\ Archive[m].type # "5"
        /\ header[m] = Layout[m] /\ Layout[m] \in Nat /\ Archive[m].size \in Nat
    BY <1>1, FirstMatch DEF ramdisk_open
  <2>2. u \in Unused
    <3>1. Unused \subseteq Nat
      BY DEF Unused, Fd
    <3>2. QED
      BY <1>1, <3>1, LeastNatural, Zenon DEF ramdisk_open, Min
  <2>3. u \in Fd /\ ~fds[u].in_use
    BY <2>2, Zenon DEF Unused
  <2>4. fds' = [fds EXCEPT ![u] = e] /\ copied' = Nothing
    BY <1>1 DEF ramdisk_open
  <2>5. e \in Entry /\ e.pos = 0 /\ e.data = Layout[m] + BLK /\ e.size = Archive[m].size
    BY <1>0, <2>1 DEF Entry
  <2>6. e.pos <= e.size
    BY <2>1, <2>5
  <2> HIDE DEF m, u, e
  <2>7. fds'[u] = e
    BY <1>0, <2>3, <2>4
  <2>8. OneChanged(u) /\ IsFile(fds'[u]) /\ CopiedInside(copied')
    BY <1>0, <2>1, <2>4, <2>5, <2>6, <2>7, ZenonT(60) DEF OneChanged, IsFile
  <2>9. QED
    BY <2>3, <2>5, <2>7, <2>8, OneCall
<1>2. ASSUME NEW fd \in Fd, fds[fd].in_use, NEW p \in Nat, p <= fds[fd].size,
             fds' = [fds EXCEPT ![fd] = At(fds[fd], p)], CopiedInside(copied')
      PROVE  OpenIsAFile' /\ Independent
  <2> DEFINE f == fds[fd]
  <2>1. IsFile(f)
    BY <1>0, <1>2 DEF OpenIsAFile, IsFile
  <2> HIDE DEF f
  <2>2. /\ At(f, p) \in Entry /\ At(f, p).pos = p /\ At(f, p).size = f.size
        /\ At(f, p).data = f.data /\ At(f, p).in_use = f.in_use
    BY <2>1 DEF At, Entry, IsFile
  <2>3. fds'[fd] = At(f, p) /\ OneChanged(fd)
    BY <1>0, <1>2 DEF f, OneChanged
  <2>4. f.in_use /\ p <= f.size
    BY <1>2 DEF f
  <2>5. IsFile(At(f, p))
    BY <2>1, <2>2, <2>4, Zenon DEF IsFile
  <2>6. f = fds[fd]
    BY DEF f
  <2>7. QED
    BY <1>2, <2>2, <2>3, <2>4, <2>5, <2>6, OneCall, ZenonT(60)
<1>3. ASSUME NEW fd \in Fd, NEW len \in Len64, ramdisk_read(fd, len)
      PROVE  OpenIsAFile' /\ Independent
  <2> DEFINE f == fds[fd]   c == clip(f, len)
  <2>1. /\ f.in_use /\ fds' = [fds EXCEPT ![fd].pos = @ + c]
        /\ copied' = [data |-> f.data, size |-> f.size, from |-> f.data + f.pos,
                      to |-> f.data + f.pos + c]
    BY <1>3 DEF ramdisk_read
  <2>2. /\ f \in Entry /\ f.pos <= f.size /\ WORD \in Nat /\ len \in Nat /\ f.size + len < WORD
    BY <2>1, InUse
  <2>3. c \in Nat /\ f.pos + c <= f.size
    BY <2>2, ClipFacts
  <2> HIDE DEF c
  <2>4. fds' = [fds EXCEPT ![fd] = At(fds[fd], f.pos + c)] /\ f.pos + c \in Nat
    BY <1>0, <2>1, <2>3 DEF At
  <2>5. CopiedInside(copied')
    BY <1>0, <2>1, <2>3 DEF CopiedInside
  <2>6. QED
    BY <1>2, <2>1, <2>3, <2>4, <2>5, ZenonT(60)
<1>4. ASSUME NEW fd \in Fd, NEW off \in Offsets, NEW whence \in {"SET", "CUR", "END"},
             ramdisk_seek(fd, off, whence)
      PROVE  OpenIsAFile' /\ Independent
  <2> DEFINE f == fds[fd]
             base == CASE whence = "SET" -> 0 [] whence = "CUR" -> f.pos [] whence = "END" -> f.size
             p == clamp(base + off, f.size)
  <2>1. f.in_use /\ fds' = [fds EXCEPT ![fd].pos = p] /\ copied' = Nothing
    BY <1>4 DEF ramdisk_seek
  <2>2. off \in Int /\ base \in Int
    BY <1>0, RamdiskAssumption
  <2> HIDE DEF base
  <2>3. p \in Nat /\ p <= f.size
    BY <1>0, <2>2 DEF clamp
  <2> HIDE DEF p
  <2>4. fds' = [fds EXCEPT ![fd] = At(fds[fd], p)]
    BY <1>0, <2>1 DEF At
  <2>5. QED
    BY <1>0, <1>2, <2>1, <2>3, <2>4, Zenon
<1>5. ASSUME NEW fd \in Fd, ramdisk_close(fd) PROVE OpenIsAFile' /\ Independent
  <2> DEFINE e == [fds[fd] EXCEPT !.in_use = FALSE]
  <2>1. fds' = [fds EXCEPT ![fd] = e] /\ copied' = Nothing
    BY <1>0, <1>5 DEF ramdisk_close
  <2>2. e \in Entry /\ e.in_use = FALSE
    BY <1>0, Zenon DEF Entry
  <2> HIDE DEF e
  <2>3. fds'[fd] = e
    BY <1>0, <2>1
  <2>4. OneChanged(fd) /\ IsFile(fds'[fd]) /\ CopiedInside(copied') /\ ~fds'[fd].in_use
    BY <1>0, <2>1, <2>2, <2>3, Zenon DEF OneChanged, IsFile
  <2>5. QED
    BY <2>4, OneCall, Zenon
<1>6. ASSUME NEW fd \in Fd, NEW iov \in Iovs, readv(fd, iov) PROVE OpenIsAFile' /\ Independent
  <2> DEFINE f == fds[fd]   x == SumSeq(iov)
             p == IF f.pos + x <= f.size THEN f.pos + x ELSE f.size
             r == readv_loop(f, iov)
  <2>1. /\ f.in_use /\ fds' = [fds EXCEPT ![fd] = r.f]
        /\ copied' = [data |-> f.data, size |-> f.size, from |-> f.data + f.pos,
                      to |-> f.data + r.f.pos]
    BY <1>6 DEF readv
  <2>2. f \in Entry /\ f.pos <= f.size /\ WORD \in Nat /\ iov \in Seq(Nat) /\ f.size + x < WORD
    BY <2>1, InUse
  <2>3. x \in Nat /\ r = ReadSoFar(f, x)
    BY <2>2, ReadvLoop
  <2> HIDE DEF x, r
  <2>4. r.f = At(f, p)
    BY <2>3 DEF ReadSoFar
  <2>5. p \in Nat /\ f.pos <= p /\ p <= f.size
    BY <1>0, <2>2, <2>3
  <2> HIDE DEF p
  <2>6. r.f.pos = p
    BY <2>2, <2>4 DEF At, Entry
  <2>7. CopiedInside(copied')
    BY <1>0, <2>1, <2>5, <2>6 DEF CopiedInside
  <2>8. QED
    BY <1>2, <2>1, <2>4, <2>5, <2>7, Zenon
<1>7. QED
  BY <1>1, <1>3, <1>4, <1>5, <1>6, Zenon DEF Next

(* An open descriptor is a file of the archive where tar put it, and no    *)
(* read copies bytes from outside it, for every archive in tar's layout    *)
(* and every sequence of open, read, readv, seek and close.                *)
THEOREM OpenStaysAFile == Spec => []OpenIsAFile
<1>1. Init => OpenIsAFile
  <2> SUFFICES ASSUME Init PROVE OpenIsAFile
    OBVIOUS
  <2>1. TypeOK /\ \A fd \in Fd : fds[fd].in_use = FALSE
    BY Zenon DEF Init, TypeOK, Entry, Nothing
  <2>2. copied.data = 0 /\ copied.size = 0 /\ copied.from = 0 /\ copied.to = 0
    BY DEF Init, Nothing
  <2>3. QED
    BY <2>1, <2>2 DEF OpenIsAFile
<1>2. OpenIsAFile /\ [Next]_vars => OpenIsAFile'
  <2>1. OpenIsAFile /\ UNCHANGED vars => OpenIsAFile'
    BY DEF vars, OpenIsAFile, TypeOK
  <2>2. QED
    BY <2>1, EveryCall
<1>3. QED
  BY <1>1, <1>2, PTL DEF Spec

(* Descriptors are independent: a call of one process changes no           *)
(* descriptor but its own, and none is moved to another file while open.   *)
THEOREM DescriptorsStayIndependent == Spec => DescriptorsIndependent
<1>1. OpenIsAFile /\ [Next]_vars => [Independent]_vars
  BY EveryCall
<1>2. QED
  BY <1>1, OpenStaysAFile, PTL DEF Spec, DescriptorsIndependent, Independent

(* A readv is one read of its lengths together, for every vector.          *)
THEOREM ReadvReadsOnce == Spec => []ReadvIsOneRead
<1>1. OpenIsAFile => ReadvIsOneRead
  <2> SUFFICES ASSUME OpenIsAFile, NEW fd \in Fd, NEW iov \in Iovs, fds[fd].in_use, SumSeq(iov) > 0
               PROVE  LET one == clip(fds[fd], SumSeq(iov))
                          many == readv_loop(fds[fd], iov)
                      IN  /\ many.f.pos = fds[fd].pos + one
                          /\ many.total = IF one = 0 THEN -1 ELSE one
    BY DEF ReadvIsOneRead
  <2> DEFINE f == fds[fd]   x == SumSeq(iov)   one == clip(f, x)   many == readv_loop(f, iov)
  <2>1. f \in Entry /\ f.pos <= f.size /\ WORD \in Nat /\ iov \in Seq(Nat) /\ f.size + x < WORD
    BY InUse
  <2>2. x \in Nat /\ many = ReadSoFar(f, x) /\ x > 0
    BY <2>1, ReadvLoop
  <2>3. f.pos \in Nat /\ f.size \in Nat
    BY <2>1 DEF Entry
  <2> HIDE DEF f, x, many
  <2>4. one = IF f.pos + x > f.size THEN f.size - f.pos ELSE x
    BY <2>1, <2>2, ClipFacts
  <2> HIDE DEF one
  <2>5. \A p : At(f, p).pos = p
    BY <2>1 DEF At, Entry
  <2>6. CASE f.pos + x <= f.size
    <3>1. many = [f |-> At(f, f.pos + x), total |-> x, stop |-> FALSE]
      BY <2>2, <2>6, Zenon DEF ReadSoFar
    <3>2. many.f.pos = f.pos + x /\ many.total = x
      BY <2>5, <3>1, Zenon
    <3>3. one = x /\ one # 0
      BY <2>2, <2>3, <2>4, <2>6
    <3>4. QED
      BY <3>2, <3>3 DEF f, x, one, many
  <2>7. CASE ~(f.pos + x <= f.size)
    <3>1. many = [f |-> At(f, f.size), total |-> IF f.pos = f.size THEN -1 ELSE f.size - f.pos,
                  stop |-> TRUE]
      BY <2>2, <2>7, Zenon DEF ReadSoFar
    <3>2. many.f.pos = f.size /\ many.total = IF f.pos = f.size THEN -1 ELSE f.size - f.pos
      BY <2>5, <3>1, Zenon
    <3>3. one = f.size - f.pos /\ f.size = f.pos + one /\ (one = 0 <=> f.pos = f.size)
      BY <2>1, <2>2, <2>3, <2>4, <2>7, SMTT(60)
    <3>4. many.f.pos = f.pos + one /\ many.total = IF one = 0 THEN -1 ELSE one
      BY <3>2, <3>3, Zenon
    <3>5. QED
      BY <3>4 DEF f, x, one, many
  <2>8. QED
    BY <2>6, <2>7, SMTT(60)
<1>2. QED
  BY <1>1, OpenStaysAFile, PTL

-----------------------------------------------------------------------------
(* The heap.                                                               *)

(* Multiplication by the page size keeps the order of page numbers.        *)
LEMMA PageOrder ==
    ASSUME NEW q \in Int, NEW c \in Int, q < c
    PROVE  PAGE_SIZE * q + PAGE_SIZE <= PAGE_SIZE * c
<1>1. PICK d \in Nat : c = q + 1 + d
  <2>1. c - q - 1 \in Nat
    OBVIOUS
  <2>2. QED
    BY <2>1
<1>2. PAGE_SIZE * c = PAGE_SIZE * q + PAGE_SIZE + PAGE_SIZE * d
  BY <1>1, UserHeapAssumption
<1>3. PAGE_SIZE * d >= 0
  BY UserHeapAssumption
<1>4. QED
  BY <1>2, <1>3, UserHeapAssumption

(* The pages below PageUp(x) are those that start below x.                 *)
LEMMA PageUpFacts ==
    ASSUME NEW x \in Nat
    PROVE  PageUp(x) \in Nat /\ \A q \in Int : q < PageUp(x) <=> PAGE_SIZE * q < x
<1> DEFINE c == PageUp(x)
<1>1. PAGE_SIZE \in Nat /\ PAGE_SIZE > 0
  BY UserHeapAssumption
<1>2. x + PAGE_SIZE - 1 \in Nat
  BY <1>1
<1>3. c \in Nat /\ PAGE_SIZE * c <= x + PAGE_SIZE - 1 /\ x + PAGE_SIZE - 1 < PAGE_SIZE * c + PAGE_SIZE
  BY <1>1, <1>2 DEF PageUp
<1> HIDE DEF c
<1>4. ASSUME NEW q \in Int PROVE q < c <=> PAGE_SIZE * q < x
  <2>1. PAGE_SIZE * q \in Int /\ PAGE_SIZE * c \in Int
    BY <1>1, <1>3
  <2>2. q < c => PAGE_SIZE * q + PAGE_SIZE <= PAGE_SIZE * c
    BY <1>3, PageOrder
  <2>3. c < q => PAGE_SIZE * c + PAGE_SIZE <= PAGE_SIZE * q
    BY <1>3, PageOrder
  <2>4. QED
    BY <1>1, <1>3, <2>1, <2>2, <2>3
<1>5. QED
  BY <1>3, <1>4 DEF c

(* old_pages and new_pages count the pages from heap_start to the break.   *)
LEMMA PagesOfFacts ==
    ASSUME NEW e \in 0 .. Top
    PROVE  /\ StartPage + pages_of(e) \in StartPage .. MaxPage
           /\ \A v \in Int : StartPage <= v =>
                 (v < StartPage + pages_of(e) <=> PAGE_SIZE * v < e)
<1>1. /\ PAGE_SIZE \in Nat /\ PAGE_SIZE > 0 /\ StartPage \in Nat /\ MaxPage \in Nat
      /\ StartPage <= MaxPage /\ heap_start \in Nat /\ Top \in Nat /\ e \in Nat /\ e <= Top
  BY UserHeapAssumption DEF heap_start, Top
<1>2. \A v \in Int : /\ PAGE_SIZE * v \in Int
                     /\ PAGE_SIZE * (v - StartPage) = PAGE_SIZE * v - heap_start
  BY <1>1 DEF heap_start
<1>3. \A v \in Int : StartPage <= v => heap_start <= PAGE_SIZE * v
  BY <1>1, <1>2, PageOrder DEF heap_start
<1>4. CASE e > heap_start
  <2>1. e - heap_start \in Nat /\ pages_of(e) = PageUp(e - heap_start)
    BY <1>1, <1>4 DEF pages_of
  <2>2. /\ pages_of(e) \in Nat
        /\ \A q \in Int : q < pages_of(e) <=> PAGE_SIZE * q < e - heap_start
    BY <2>1, PageUpFacts
  <2>3. ASSUME NEW v \in Int
        PROVE  v < StartPage + pages_of(e) <=> PAGE_SIZE * v < e
    <3>1. v - StartPage \in Int
      BY <1>1
    <3>2. v - StartPage < pages_of(e) <=> PAGE_SIZE * (v - StartPage) < e - heap_start
      BY <2>2, <3>1
    <3>3. v < StartPage + pages_of(e) <=> v - StartPage < pages_of(e)
      BY <1>1, <2>2
    <3>4. PAGE_SIZE * (v - StartPage) < e - heap_start <=> PAGE_SIZE * v < e
      BY <1>1, <1>2
    <3>5. QED
      BY <3>2, <3>3, <3>4
  <2>4. ~(MaxPage < StartPage + pages_of(e))
    BY <1>1, <2>3 DEF Top
  <2>5. QED
    BY <1>1, <2>2, <2>3, <2>4
<1>5. CASE ~(e > heap_start)
  BY <1>1, <1>2, <1>3, <1>5 DEF pages_of
<1>6. QED
  BY <1>4, <1>5

UserHeapIInv == UserHeapTypeOK /\ HeapBacked /\ FramesPrivate

(* The mapping loop, complete or cut short, takes free frames for pages    *)
(* from a on, and no mapped page loses its frame but for a fresh one.      *)
LEMMA MapPages ==
    ASSUME UserHeapIInv, NEW p \in Proc, NEW a \in 0 .. MaxPage, NEW b \in 0 .. MaxPage,
           NEW done \in BOOLEAN, map_pages(p, a, b, done)
    PROVE  /\ page' \in [Proc -> [Pages -> Frame \cup {NoFrame}]]
           /\ free' \subseteq Frame
           /\ FramesPrivate'
           /\ \A q \in Proc, v \in Pages : q # p \/ v < a => page'[q][v] = page[q][v]
           /\ \A v \in Pages : page[p][v] # NoFrame => page'[p][v] # NoFrame
           /\ done => \A v \in Pages : a <= v /\ v < b => page'[p][v] # NoFrame
<1>0. PICK k \in 0 .. MaxPage : \E g \in [a .. a + k - 1 -> free] :
        /\ \A v, w \in DOMAIN g : v # w => g[v] # g[w]
        /\ done => k = (IF a < b THEN b - a ELSE 0)
        /\ page' = [page EXCEPT ![p] = [v \in Pages |-> IF v \in DOMAIN g THEN g[v] ELSE page[p][v]]]
        /\ free' = {f \in free : \A v \in DOMAIN g : g[v] # f}
  BY ZenonT(60) DEF map_pages
<1>1. PICK g \in [a .. a + k - 1 -> free] :
        /\ \A v, w \in DOMAIN g : v # w => g[v] # g[w]
        /\ done => k = (IF a < b THEN b - a ELSE 0)
        /\ page' = [page EXCEPT ![p] = [v \in Pages |-> IF v \in DOMAIN g THEN g[v] ELSE page[p][v]]]
        /\ free' = {f \in free : \A v \in DOMAIN g : g[v] # f}
  BY <1>0, ZenonT(60)
<1> DEFINE D == a .. a + k - 1
<1>2. /\ page \in [Proc -> [Pages -> Frame \cup {NoFrame}]] /\ free \subseteq Frame
      /\ NoFrame \notin Frame /\ FramesPrivate
  BY UserHeapAssumption DEF UserHeapIInv, UserHeapTypeOK
<1>3. DOMAIN g = D /\ \A v \in D : g[v] \in free /\ g[v] \in Frame /\ g[v] # NoFrame
  BY <1>2
<1>4. \A q \in Proc, v \in Pages :
        page'[q][v] = IF q = p /\ v \in D THEN g[v] ELSE page[q][v]
  BY <1>1, <1>2, <1>3
<1>5. page' \in [Proc -> [Pages -> Frame \cup {NoFrame}]]
  <2>1. [v \in Pages |-> IF v \in DOMAIN g THEN g[v] ELSE page[p][v]]
          \in [Pages -> Frame \cup {NoFrame}]
    BY <1>2, <1>3
  <2>2. QED
    BY <1>1, <1>2, <2>1
<1>6. free' \subseteq Frame /\ \A v \in D : g[v] \notin free'
  BY <1>1, <1>2, <1>3
<1>7. FramesPrivate'
  <2> SUFFICES ASSUME NEW q \in Proc, NEW r \in Proc, NEW v \in Pages, NEW w \in Pages,
                      page'[q][v] # NoFrame
               PROVE  /\ page'[q][v] \notin free'
                      /\ page'[q][v] = page'[r][w] => q = r /\ v = w
    BY DEF FramesPrivate
  <2>1. page'[q][v] \notin free'
    BY <1>1, <1>2, <1>3, <1>4, <1>6 DEF FramesPrivate
  <2>2. ASSUME page'[q][v] = page'[r][w] PROVE q = r /\ v = w
    <3>1. CASE (q = p /\ v \in D) /\ (r = p /\ w \in D)
      BY <1>1, <1>3, <1>4, <2>2, <3>1
    <3>2. CASE (q = p /\ v \in D) /\ ~(r = p /\ w \in D)
      BY <1>2, <1>3, <1>4, <2>2, <3>2 DEF FramesPrivate
    <3>3. CASE ~(q = p /\ v \in D) /\ (r = p /\ w \in D)
      BY <1>2, <1>3, <1>4, <2>2, <3>3 DEF FramesPrivate
    <3>4. CASE ~(q = p /\ v \in D) /\ ~(r = p /\ w \in D)
      BY <1>2, <1>4, <2>2, <3>4 DEF FramesPrivate
    <3>5. QED
      BY <3>1, <3>2, <3>3, <3>4
  <2>3. QED
    BY <2>1, <2>2
<1>8. \A v \in Pages : v \in D => a <= v
  BY DEF Pages
<1>9. done => \A v \in Pages : a <= v /\ v < b => v \in D
  BY <1>1, UserHeapAssumption DEF Pages
<1>10. QED
  BY <1>3, <1>4, <1>5, <1>6, <1>7, <1>8, <1>9

-----------------------------------------------------------------------------
(* What a call may do to the pages at and above the break, and must leave  *)
(* alone below it.                                                         *)
Kept == \A p \in Proc, v \in Pages :
           heap_start <= heap_end[p] /\ PAGE_SIZE * v < heap_end[p] => page'[p][v] = page[p][v]

(* sys_sbrk from `old', whose last page is the last page of the heap.      *)
LEMMA Grow ==
    ASSUME UserHeapIInv, NEW p \in Proc, NEW old \in 0 .. Top, NEW increment \in Int,
           heap_end[p] <= old,
           \A v \in Int : PAGE_SIZE * v < old <=> PAGE_SIZE * v < heap_end[p],
           grow(p, old, increment), hung' \in BOOLEAN
    PROVE  UserHeapIInv' /\ Kept
<1> DEFINE new == old + increment
           a == StartPage + pages_of(old)
           b == StartPage + pages_of(new)
<1>1. new \in 0 .. Top /\ new \in Nat
  BY UserHeapAssumption DEF grow, Top
<1>2. /\ StartPage \in Nat /\ MaxPage \in Nat /\ PAGE_SIZE \in Nat /\ heap_start \in Nat
      /\ Top \in Nat /\ heap_end \in [Proc -> 0 .. Top]
      /\ \A v \in Pages : v \in Int /\ PAGE_SIZE * v \in Int
  BY UserHeapAssumption DEF heap_start, Top, UserHeapIInv, UserHeapTypeOK, Pages
<1>3. /\ a \in 0 .. MaxPage /\ a >= StartPage
      /\ \A v \in Int : StartPage <= v => (v < a <=> PAGE_SIZE * v < old)
  BY <1>2, PagesOfFacts
<1>4. /\ b \in 0 .. MaxPage
      /\ \A v \in Int : StartPage <= v => (v < b <=> PAGE_SIZE * v < new)
  BY <1>1, <1>2, PagesOfFacts
<1>5. \A v \in Int : heap_start <= PAGE_SIZE * v <=> StartPage <= v
  <2>1. \A v \in Int : v < StartPage => PAGE_SIZE * v < heap_start
    BY <1>2, PageOrder, UserHeapAssumption DEF heap_start
  <2>2. \A v \in Int : StartPage < v => heap_start < PAGE_SIZE * v
    BY <1>2, PageOrder, UserHeapAssumption DEF heap_start
  <2>3. QED
    BY <1>2, <2>1, <2>2 DEF heap_start
<1>6. \/ map_pages(p, a, b, TRUE) /\ heap_end' = [heap_end EXCEPT ![p] = new]
      \/ map_pages(p, a, b, FALSE) /\ heap_end' = [heap_end EXCEPT ![p] = old]
  BY ZenonT(60) DEF grow
<1> HIDE DEF new, a, b
<1>7. /\ page' \in [Proc -> [Pages -> Frame \cup {NoFrame}]] /\ free' \subseteq Frame
      /\ FramesPrivate'
      /\ \A q \in Proc, v \in Pages : q # p \/ v < a => page'[q][v] = page[q][v]
      /\ \A v \in Pages : page[p][v] # NoFrame => page'[p][v] # NoFrame
  BY <1>3, <1>4, <1>6, MapPages, ZenonT(60)
<1>8. heap_end' \in [Proc -> 0 .. Top]
  BY <1>1, <1>2, <1>6, ZenonT(60)
<1>9. HeapBacked'
  <2> SUFFICES ASSUME NEW q \in Proc, NEW v \in Pages,
                      heap_start <= PAGE_SIZE * v, PAGE_SIZE * v < heap_end'[q]
               PROVE  page'[q][v] # NoFrame
    BY DEF HeapBacked, heap_start
  <2>1. HeapBacked /\ StartPage <= v
    BY <1>2, <1>5 DEF UserHeapIInv
  <2>2. CASE q # p
    BY <1>2, <1>6, <1>7, <2>1, <2>2, ZenonT(60) DEF HeapBacked
  <2>3. CASE q = p /\ v < a
    <3>1. PAGE_SIZE * v < heap_end[p]
      BY <1>2, <1>3, <2>1, <2>3
    <3>2. QED
      BY <1>7, <2>1, <2>3, <3>1 DEF HeapBacked
  <2>4. CASE q = p /\ ~(v < a) /\ heap_end' = [heap_end EXCEPT ![p] = old]
    BY <1>2, <1>3, <2>1, <2>4
  <2>5. CASE q = p /\ ~(v < a) /\ heap_end' = [heap_end EXCEPT ![p] = new] /\ map_pages(p, a, b, TRUE)
    <3>1. v < b
      BY <1>2, <1>4, <2>1, <2>5
    <3>2. a <= v
      <4>1. a \in Int /\ v \in Int
        BY <1>2, <1>3
      <4>2. QED
        BY <2>5, <4>1
    <3>3. \A w \in Pages : a <= w /\ w < b => page'[p][w] # NoFrame
      <4>1. a \in 0 .. MaxPage /\ b \in 0 .. MaxPage /\ TRUE \in BOOLEAN /\ map_pages(p, a, b, TRUE)
        BY <1>3, <1>4, <2>5, ZenonT(60)
      <4>2. TRUE => \A w \in Pages : a <= w /\ w < b => page'[p][w] # NoFrame
        BY <4>1, MapPages, Zenon
      <4>3. QED
        BY <4>2
    <3>4. QED
      BY <2>5, <3>1, <3>2, <3>3
  <2>6. QED
    BY <1>6, <2>2, <2>3, <2>4, <2>5, ZenonT(60)
<1>10. Kept
  <2> SUFFICES ASSUME NEW q \in Proc, NEW v \in Pages,
                      heap_start <= heap_end[q], PAGE_SIZE * v < heap_end[q]
               PROVE  page'[q][v] = page[q][v]
    BY DEF Kept
  <2>1. CASE q # p
    BY <1>7, <2>1
  <2>2. CASE q = p
    <3>1. PAGE_SIZE * v < old
      BY <1>2, <2>2
    <3>2. v < a
      <4>1. a \in Int /\ v \in Int /\ StartPage \in Int /\ StartPage <= a
        BY <1>2, <1>3
      <4>2. StartPage <= v => v < a
        BY <1>3, <3>1, <4>1
      <4>3. QED
        BY <4>1, <4>2
    <3>3. QED
      BY <1>7, <3>2
  <2>3. QED
    BY <2>1, <2>2
<1>11. QED
  BY <1>7, <1>8, <1>9, <1>10 DEF UserHeapIInv, UserHeapTypeOK

(* Each of the three calls preserves the invariant and keeps the data.     *)
LEMMA Call ==
    ASSUME UserHeapIInv, UserHeapNext
    PROVE  UserHeapIInv' /\ Kept
<1>1. PICK p \in Proc : sys_sbrk(p) \/ mmap(p) \/ brk(p)
  BY DEF UserHeapNext
<1>2. /\ PAGE_SIZE \in Nat /\ PAGE_SIZE > 0 /\ MaxPage \in Nat /\ StartPage \in Nat
      /\ StartPage > 0 /\ Top \in Nat /\ heap_start \in Nat /\ heap_start <= Top
      /\ heap_end \in [Proc -> 0 .. Top] /\ heap_end[p] \in Nat /\ heap_end[p] <= Top
      /\ UserHeapTypeOK /\ HeapBacked /\ FramesPrivate
      /\ \A v \in Int : PAGE_SIZE * v \in Int
  <2>1. PAGE_SIZE * StartPage <= PAGE_SIZE * MaxPage
    BY UserHeapAssumption, PageOrder
  <2>2. QED
    BY <2>1, UserHeapAssumption DEF heap_start, Top, UserHeapIInv, UserHeapTypeOK
<1>3. \A x \in 0 .. Top : PageUp(x) \in 0 .. MaxPage
  <2> SUFFICES ASSUME NEW x \in 0 .. Top PROVE PageUp(x) \in 0 .. MaxPage
    OBVIOUS
  <2>1. x \in Nat /\ x <= PAGE_SIZE * MaxPage
    BY <1>2 DEF Top
  <2>2. PageUp(x) \in Nat /\ ~(MaxPage < PageUp(x))
    BY <1>2, <2>1, PageUpFacts
  <2>3. QED
    BY <1>2, <2>2
<1>4. CASE sys_sbrk(p)
  <2>1. PICK increment \in Delta \ {0} : grow(p, heap_end[p], increment)
    BY <1>4 DEF sys_sbrk
  <2>2. increment \in Int /\ heap_end[p] \in 0 .. Top /\ heap_end[p] <= heap_end[p]
    BY <1>2, UserHeapAssumption
  <2>3. hung' \in BOOLEAN
    BY <1>2, <1>4 DEF sys_sbrk, UserHeapTypeOK
  <2>4. QED
    BY <2>1, <2>2, <2>3, Grow
<1>5. CASE mmap(p)
  <2> DEFINE old == PAGE_SIZE * PageUp(heap_end[p])
  <2>1. PICK arg2 \in {d \in Delta : d > 0} : grow(p, old, PAGE_SIZE * PageUp(arg2))
    BY <1>5 DEF mmap
  <2> DEFINE len == PAGE_SIZE * PageUp(arg2)
  <2>2. arg2 \in Nat /\ PageUp(arg2) \in Nat /\ len \in Int
    BY <1>2, UserHeapAssumption, PageUpFacts
  <2>3. PageUp(heap_end[p]) \in 0 .. MaxPage
    BY <1>2, <1>3
  <2>4. old \in 0 .. Top /\ old \in Nat
    <3>1. PageUp(heap_end[p]) = MaxPage \/ old + PAGE_SIZE <= Top
      <4>1. PageUp(heap_end[p]) \in Int /\ MaxPage \in Int
            /\ (PageUp(heap_end[p]) = MaxPage \/ PageUp(heap_end[p]) < MaxPage)
        BY <1>2, <2>3
      <4>2. QED
        BY <4>1, PageOrder DEF Top
    <3>2. old \in Nat
      BY <1>2, <2>3
    <3>3. QED
      BY <1>2, <3>1, <3>2 DEF Top
  <2>5. \A v \in Int : PAGE_SIZE * v < old <=> v < PageUp(heap_end[p])
    <3> SUFFICES ASSUME NEW v \in Int PROVE PAGE_SIZE * v < old <=> v < PageUp(heap_end[p])
      OBVIOUS
    <3>1. v < PageUp(heap_end[p]) => PAGE_SIZE * v + PAGE_SIZE <= old
      BY <2>3, PageOrder
    <3>2. PageUp(heap_end[p]) < v => old + PAGE_SIZE <= PAGE_SIZE * v
      BY <2>3, PageOrder
    <3>3. QED
      BY <1>2, <2>3, <2>4, <3>1, <3>2
  <2>6. \A v \in Int : PAGE_SIZE * v < old <=> PAGE_SIZE * v < heap_end[p]
    BY <1>2, <2>5, PageUpFacts, ZenonT(60)
  <2>7. heap_end[p] <= old
    BY <1>2, <2>3, <2>4, PageUpFacts
  <2> HIDE DEF old, len
  <2>8. hung' \in BOOLEAN
    BY <1>2, <1>5 DEF mmap, UserHeapTypeOK
  <2>9. grow(p, old, len)
    BY <2>1 DEF len
  <2>10. QED
    BY <2>2, <2>4, <2>6, <2>7, <2>8, <2>9, Grow
<1>6. CASE brk(p)
  <2>1. PICK target \in heap_start .. Top :
          LET a == PageUp(heap_end[p])
              b == PageUp(target)
          IN  \/ /\ target > heap_end[p]
                 /\ map_pages(p, a, b, TRUE)
                 /\ heap_end' = [heap_end EXCEPT ![p] = target]
                 /\ UNCHANGED hung
              \/ /\ target > heap_end[p]
                 /\ map_pages(p, a, b, FALSE)
                 /\ hung' = TRUE
                 /\ UNCHANGED heap_end
              \/ /\ target <= heap_end[p]
                 /\ heap_end' = [heap_end EXCEPT ![p] = target]
                 /\ UNCHANGED <<page, free, hung>>
    BY <1>6, ZenonT(60) DEF brk
  <2> DEFINE a == PageUp(heap_end[p])
             b == PageUp(target)
  <2>2. target \in 0 .. Top /\ target \in Nat
    BY <1>2
  <2>3. a \in 0 .. MaxPage /\ b \in 0 .. MaxPage
    BY <1>2, <1>3, <2>2
  <2>4. /\ \A v \in Int : v < a <=> PAGE_SIZE * v < heap_end[p]
        /\ \A v \in Int : v < b <=> PAGE_SIZE * v < target
    BY <1>2, <2>2, PageUpFacts
  <2>5. /\ hung' \in BOOLEAN
        /\ heap_end' \in [Proc -> 0 .. Top]
    BY <1>2, <1>6, <2>1, <2>2, ZenonT(60) DEF brk, UserHeapTypeOK
  <2>6. \A v \in Pages : v \in Int /\ PAGE_SIZE * v \in Int
    BY <1>2 DEF Pages
  <2>7. CASE target <= heap_end[p]
    <3>1. page' = page /\ free' = free /\ heap_end' = [heap_end EXCEPT ![p] = target]
      <4>1. ~(target > heap_end[p])
        BY <1>2, <2>2, <2>7
      <4>2. QED
        BY <2>1, <4>1, Zenon
    <3>2. HeapBacked'
      BY <1>2, <2>2, <2>6, <2>7, <3>1 DEF HeapBacked, heap_start
    <3>3. QED
      BY <1>2, <2>5, <3>1, <3>2 DEF UserHeapIInv, UserHeapTypeOK, FramesPrivate, Kept
  <2>8. CASE target > heap_end[p]
    <3> HIDE DEF a, b
    <3>1. \/ map_pages(p, a, b, TRUE) /\ heap_end' = [heap_end EXCEPT ![p] = target]
          \/ map_pages(p, a, b, FALSE) /\ heap_end' = heap_end
      <4>1. ~(target <= heap_end[p])
        BY <1>2, <2>2, <2>8
      <4>2. QED
        BY <2>1, <4>1, Zenon DEF a, b
    <3>2. /\ page' \in [Proc -> [Pages -> Frame \cup {NoFrame}]] /\ free' \subseteq Frame
          /\ FramesPrivate'
          /\ \A q \in Proc, v \in Pages : q # p \/ v < a => page'[q][v] = page[q][v]
          /\ \A v \in Pages : page[p][v] # NoFrame => page'[p][v] # NoFrame
      BY <2>3, <3>1, MapPages, ZenonT(60)
    <3>3. HeapBacked'
      <4> SUFFICES ASSUME NEW q \in Proc, NEW v \in Pages,
                          heap_start <= PAGE_SIZE * v, PAGE_SIZE * v < heap_end'[q]
                   PROVE  page'[q][v] # NoFrame
        BY DEF HeapBacked, heap_start
      <4>1. CASE q # p \/ heap_end' = heap_end
        BY <1>2, <3>1, <3>2, <4>1, ZenonT(60) DEF HeapBacked
      <4>2. CASE q = p /\ v < a
        BY <1>2, <2>4, <2>6, <3>2, <4>2 DEF HeapBacked
      <4>3. CASE /\ q = p /\ ~(v < a) /\ map_pages(p, a, b, TRUE)
                 /\ heap_end' = [heap_end EXCEPT ![p] = target]
        <5>1. a <= v /\ v < b
          <6>1. a \in Int /\ v \in Int /\ PAGE_SIZE * v < target
            BY <1>2, <2>3, <2>6, <4>3
          <6>2. QED
            BY <2>4, <4>3, <6>1
        <5>2. TRUE => \A w \in Pages : a <= w /\ w < b => page'[p][w] # NoFrame
          <6>1. TRUE \in BOOLEAN
            OBVIOUS
          <6>2. QED
            BY <2>3, <4>3, <6>1, MapPages, Zenon
        <5>3. QED
          BY <4>3, <5>1, <5>2
      <4>4. QED
        BY <3>1, <4>1, <4>2, <4>3, ZenonT(60)
    <3>4. Kept
      BY <1>2, <2>4, <2>6, <3>2 DEF Kept
    <3>5. QED
      BY <2>5, <3>2, <3>3, <3>4 DEF UserHeapIInv, UserHeapTypeOK
  <2>9. QED
    BY <1>2, <2>2, <2>7, <2>8
<1>7. QED
  BY <1>1, <1>4, <1>5, <1>6

(* The invariant holds before the first system call.                       *)
LEMMA InitUserHeap == UserHeapInit => UserHeapIInv
<1> SUFFICES ASSUME UserHeapInit PROVE UserHeapIInv
  OBVIOUS
<1> USE UserHeapAssumption
<1>1. PICK g \in [Proc \X (0 .. StartPage - 1) -> Frame] :
        /\ \A x, y \in DOMAIN g : x # y => g[x] # g[y]
        /\ page = [p \in Proc |-> [v \in Pages |-> IF v < StartPage THEN g[<<p, v>>] ELSE NoFrame]]
        /\ free = {f \in Frame : \A x \in DOMAIN g : g[x] # f}
  BY DEF UserHeapInit
<1>2. heap_start \in 0 .. Top
  <2>1. PAGE_SIZE * StartPage <= PAGE_SIZE * MaxPage
    BY PageOrder
  <2>2. QED
    BY <2>1 DEF heap_start, Top
<1>3. \A p \in Proc, v \in Pages : v < StartPage =>
        <<p, v>> \in DOMAIN g /\ g[<<p, v>>] \in Frame
  BY DEF Pages
<1>4. page \in [Proc -> [Pages -> Frame \cup {NoFrame}]]
  BY <1>1, <1>3
<1>5. UserHeapTypeOK
  BY <1>1, <1>2, <1>4, ZenonT(60) DEF UserHeapInit, UserHeapTypeOK
<1>6. HeapBacked
  BY <1>2 DEF UserHeapInit, HeapBacked, Pages, heap_start
<1>7. FramesPrivate
  <2> SUFFICES ASSUME NEW p \in Proc, NEW q \in Proc, NEW v \in Pages, NEW w \in Pages,
                      page[p][v] # NoFrame
               PROVE  page[p][v] \notin free /\ (page[p][v] = page[q][w] => p = q /\ v = w)
    BY DEF FramesPrivate
  <2>1. v < StartPage /\ page[p][v] = g[<<p, v>>] /\ <<p, v>> \in DOMAIN g
    BY <1>1, <1>3
  <2>2. page[p][v] \notin free
    BY <1>1, <2>1
  <2>3. CASE w < StartPage
    <3>1. page[q][w] = g[<<q, w>>] /\ <<q, w>> \in DOMAIN g
      BY <1>1, <1>3, <2>3
    <3>2. <<p, v>> # <<q, w>> => g[<<p, v>>] # g[<<q, w>>]
      BY <1>1, <2>1, <3>1
    <3>3. QED
      BY <2>1, <2>2, <3>1, <3>2
  <2>4. CASE ~(w < StartPage)
    BY <1>1, <1>3, <2>1, <2>2, <2>4
  <2>5. QED
    BY <2>3, <2>4
<1>8. QED
  BY <1>5, <1>6, <1>7 DEF UserHeapIInv

(* However sbrk, brk and mmap are mixed, and whatever fails half way: the  *)
(* heap is backed up to the break and no frame is in two places.           *)
THEOREM HeapInvariant == UserHeapSpec => [](UserHeapTypeOK /\ HeapBacked /\ FramesPrivate)
<1>1. UserHeapIInv /\ [UserHeapNext]_UserHeapVars => UserHeapIInv'
  <2>1. UserHeapIInv /\ UNCHANGED UserHeapVars => UserHeapIInv'
    BY DEF UserHeapVars, UserHeapIInv, UserHeapTypeOK, HeapBacked, FramesPrivate
  <2>2. QED
    BY <2>1, Call
<1>2. QED
  BY <1>1, InitUserHeap, PTL DEF UserHeapSpec, UserHeapIInv

(* In particular no frame is ever mapped at two places or mapped while it  *)
(* is free, for every number of processes, pages and frames.               *)
THEOREM FramesStayPrivate == UserHeapSpec => []FramesPrivate
  BY HeapInvariant, PTL

(* No call exchanges a page that holds data for a fresh one.               *)
THEOREM HeapDataKept == UserHeapSpec => DataKept
<1>1. UserHeapIInv /\ [UserHeapNext]_UserHeapVars => [Kept]_UserHeapVars
  BY Call
<1>2. UserHeapSpec => []UserHeapIInv
  BY HeapInvariant, PTL DEF UserHeapIInv
<1>3. QED
  BY <1>1, <1>2, PTL DEF UserHeapSpec, DataKept, Kept

===============================================================================
