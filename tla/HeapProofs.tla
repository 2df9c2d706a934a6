----------------------------- MODULE HeapProofs ------------------------------
(***************************************************************************)
(* The kernel heap for every size of heap and header, every set of request *)
(* sizes and every sequence of kmalloc and kfree.                          *)
(***************************************************************************)
EXTENDS Heap, KernelLemmas

Block == [addr : Nat, size : Nat, free : BOOLEAN]

End(b) == b.addr + HDR + b.size

(* A block that holds something and lies on multiples of eight.            *)
Sound(b) == b \in Block /\ b.size > 0 /\ b.addr % 8 = 0 /\ b.size % 8 = 0

(* Blocks that follow one another from the start of the heap to e.         *)
Chain(bs, e) ==
    /\ bs \in Seq(Block) /\ Len(bs) > 0 /\ bs[1].addr = 0
    /\ \A i \in 1 .. Len(bs) : Sound(bs[i])
    /\ \A i \in 1 .. Len(bs) - 1 : End(bs[i]) = bs[i + 1].addr
    /\ End(bs[Len(bs)]) = e

(* No two free blocks are neighbours.                                      *)
Merged(bs) == \A i \in 1 .. Len(bs) - 1 : ~(bs[i].free /\ bs[i + 1].free)

Used(bs) == {bs[i] : i \in {k \in 1 .. Len(bs) : ~bs[k].free}}

(* The blocks in use are the callers', with the room they asked for.       *)
Owned ==
    /\ DOMAIN held = {b.addr + HDR : b \in Used(blocks)}
    /\ \A b \in Used(blocks) :
          held[b.addr + HDR] \in Sizes /\ held[b.addr + HDR] <= b.size

(* The inductive invariant.  Tiling alone is not inductive: that kfree     *)
(* frees one block and no other needs blocks that are not empty, alignment *)
(* needs aligned sizes, and that a request fails only for want of room     *)
(* needs every free block to be as large as it can be.                     *)
HInv == Chain(blocks, HeapBytes) /\ Merged(blocks) /\ Owned

(* The heap, the header and the requests are numbers.                      *)
LEMMA Lengths == HDR \in Nat /\ HeapBytes \in Nat /\ HeapBytes > HDR
  BY HeapAssumption

(* Heap and header are multiples of eight.                                 *)
LEMMA Eighths == HDR % 8 = 0 /\ HeapBytes % 8 = 0
  BY HeapAssumption

(* Requests are not empty.                                                 *)
LEMMA Requests == Sizes \subseteq Nat \ {0}
  BY HeapAssumption

(* The end of a sound block is aligned and past its start.                 *)
LEMMA SoundEnd ==
    ASSUME NEW b, Sound(b)
    PROVE  /\ b.addr \in Nat /\ b.size \in Nat /\ b.free \in BOOLEAN
           /\ End(b) \in Nat /\ End(b) % 8 = 0 /\ End(b) > b.addr + HDR
<1>1. b.addr \in Nat /\ b.size \in Nat /\ b.free \in BOOLEAN
  BY DEF Sound, Block
<1>2. b.size > 0 /\ b.addr % 8 = 0 /\ b.size % 8 = 0
  BY DEF Sound
<1>3. QED
  BY <1>1, <1>2, Lengths, Eighths DEF End

(* Each block ends before the next ones begin.                             *)
LEMMA Ordered ==
    ASSUME NEW bs, NEW e, Chain(bs, e)
    PROVE  \A i, j \in 1 .. Len(bs) : i < j => End(bs[i]) <= bs[j].addr
<1> SUFFICES ASSUME NEW i \in 1 .. Len(bs)
             PROVE  \A j \in 1 .. Len(bs) : i < j => End(bs[i]) <= bs[j].addr
  OBVIOUS
<1> DEFINE n == Len(bs)
           S == {k \in Nat : i + k + 1 <= n => End(bs[i]) <= bs[i + k + 1].addr}
<1>1. n \in Nat /\ i \in 1 .. n
  BY DEF Chain
<1>2. \A k \in 1 .. n : /\ bs[k].addr \in Nat /\ End(bs[k]) \in Nat
                        /\ End(bs[k]) > bs[k].addr
  <2> SUFFICES ASSUME NEW k \in 1 .. n
               PROVE  bs[k].addr \in Nat /\ End(bs[k]) \in Nat /\ End(bs[k]) > bs[k].addr
    OBVIOUS
  <2>1. Sound(bs[k])
    BY DEF Chain
  <2>2. QED
    BY <2>1, SoundEnd, Lengths
<1>3. \A k \in 1 .. n - 1 : End(bs[k]) = bs[k + 1].addr
  BY DEF Chain
<1>4. 0 \in S
  BY <1>1, <1>2, <1>3
<1>5. ASSUME NEW k \in Nat, k \in S PROVE k + 1 \in S
  <2> SUFFICES ASSUME i + (k + 1) + 1 <= n PROVE End(bs[i]) <= bs[i + (k + 1) + 1].addr
    OBVIOUS
  <2> DEFINE j == i + k + 1
  <2>1. j \in 1 .. n /\ j \in 1 .. n - 1 /\ i + (k + 1) + 1 = j + 1 /\ j <= n /\ j + 1 \in 1 .. n
    BY <1>1
  <2>2. End(bs[i]) <= bs[j].addr
    BY <1>5, <2>1
  <2> HIDE DEF j
  <2>3. End(bs[j]) = bs[j + 1].addr /\ End(bs[j]) > bs[j].addr
    BY <1>2, <1>3, <2>1
  <2>4. QED
    BY <1>1, <1>2, <2>1, <2>2, <2>3, SMTT(60)
<1>6. Nat \subseteq S
  <2> HIDE DEF S
  <2>1. QED
    BY <1>4, <1>5, Counting, Zenon
<1>7. QED
  <2> SUFFICES ASSUME NEW j \in 1 .. n, i < j PROVE End(bs[i]) <= bs[j].addr
    OBVIOUS
  <2>1. j - i - 1 \in Nat /\ i + (j - i - 1) + 1 = j /\ j <= n
    BY <1>1
  <2>2. j - i - 1 \in S
    BY <1>6, <2>1
  <2>3. QED
    BY <2>1, <2>2

(* Every block lies inside the heap, and its address is its own.           *)
LEMMA Inside ==
    ASSUME NEW bs, NEW e, Chain(bs, e)
    PROVE  /\ Len(bs) \in Nat /\ e \in Nat
           /\ \A i \in 1 .. Len(bs) : Sound(bs[i]) /\ End(bs[i]) <= e
           /\ \A i, j \in 1 .. Len(bs) : bs[i].addr = bs[j].addr => i = j
<1> DEFINE n == Len(bs)
<1>1. n \in Nat /\ n \in 1 .. n /\ End(bs[n]) = e /\ \A i \in 1 .. n : Sound(bs[i])
  BY DEF Chain
<1>2. \A i \in 1 .. n : /\ bs[i].addr \in Nat /\ End(bs[i]) \in Nat
                        /\ End(bs[i]) > bs[i].addr
  <2> SUFFICES ASSUME NEW k \in 1 .. n
               PROVE  bs[k].addr \in Nat /\ End(bs[k]) \in Nat /\ End(bs[k]) > bs[k].addr
    OBVIOUS
  <2>1. QED
    BY <1>1, SoundEnd, Lengths
<1>3. \A i, j \in 1 .. n : i < j => End(bs[i]) <= bs[j].addr
  BY Ordered
<1> HIDE DEF n
<1>4. \A i \in 1 .. n : End(bs[i]) <= e
  BY <1>1, <1>2, <1>3
<1>5. \A i, j \in 1 .. n : bs[i].addr = bs[j].addr => i = j
  BY <1>1, <1>2, <1>3
<1>6. QED
  BY <1>1, <1>2, <1>4, <1>5 DEF n

(* One round of the walk in kfree: block b, which begins where the blocks  *)
(* walked so far end, joins the last of them or follows it.                *)
LEMMA Joined ==
    ASSUME NEW out, NEW b, Chain(out, b.addr), Merged(out), Sound(b)
    PROVE  /\ Chain(join(out, b), End(b)) /\ Merged(join(out, b))
           /\ Used(join(out, b)) = Used(out) \cup (IF b.free THEN {} ELSE {b})
<1> DEFINE n == Len(out)   last == out[n]   o == join(out, b)
<1>1. /\ n \in Nat \ {0} /\ n \in 1 .. n /\ out \in Seq(Block) /\ out # <<>>
      /\ \A i \in 1 .. n : Sound(out[i])
      /\ \A i \in 1 .. n - 1 : End(out[i]) = out[i + 1].addr
      /\ out[1].addr = 0 /\ End(last) = b.addr
  BY DEF Chain
<1>2. \A i \in 1 .. n - 1 : ~(out[i].free /\ out[i + 1].free)
  BY DEF Merged
<1>3. b \in Block /\ Sound(b)
  BY DEF Sound
<1>4. CASE last.free /\ b.free
  <2> DEFINE m == [last EXCEPT !.size = last.size + HDR + b.size]
  <2>1. o = [out EXCEPT ![n] = m]
    BY <1>1, <1>4 DEF join
  <2>2. last \in Block /\ last.size \in Nat /\ last.addr \in Nat /\ b.size \in Nat /\ b.addr \in Nat
    BY <1>1, <1>3, SoundEnd DEF Sound
  <2>3. m \in Block /\ m.addr = last.addr /\ m.free = last.free /\ m.size = last.size + HDR + b.size
    <3>1. last.size + HDR + b.size \in Nat
      BY <2>2, Lengths, SMTT(60)
    <3>2. QED
      BY <2>2, <3>1, Zenon DEF Block
  <2>4. Sound(m) /\ End(m) = End(b)
    <3>1. last.size % 8 = 0 /\ last.addr % 8 = 0 /\ b.size % 8 = 0 /\ b.size > 0
      BY <1>1, <1>3 DEF Sound
    <3>2. b.addr = last.addr + HDR + last.size
      BY <1>1 DEF End
    <3> HIDE DEF m, last
    <3>3. m.size > 0 /\ m.size % 8 = 0 /\ m.addr % 8 = 0
      BY <2>2, <2>3, <3>1, Lengths, Eighths
    <3>4. m.addr + HDR + m.size = b.addr + HDR + b.size
      BY <2>2, <2>3, <3>2, Lengths
    <3>5. QED
      BY <2>3, <3>3, <3>4 DEF Sound, End
  <2> HIDE DEF m
  <2>5. /\ o \in Seq(Block) /\ Len(o) = n /\ o[n] = m
        /\ \A i \in 1 .. n - 1 : o[i] = out[i]
    <3> HIDE DEF o
    <3>1. QED
      BY <1>1, <2>1, <2>3
  <2> HIDE DEF o
  <2>6. Chain(o, End(b))
    <3>1. \A i \in 1 .. n : o[i].addr = out[i].addr /\ Sound(o[i])
      BY <1>1, <2>3, <2>4, <2>5
    <3>2. \A i \in 1 .. n - 1 : End(o[i]) = o[i + 1].addr
      BY <1>1, <2>5, <3>1
    <3>3. 1 \in 1 .. n
      BY <1>1
    <3>4. QED
      BY <1>1, <2>4, <2>5, <3>1, <3>2, <3>3 DEF Chain
  <2>7. Merged(o)
    <3>1. \A i \in 1 .. n : o[i].free = out[i].free
      BY <1>1, <2>3, <2>5
    <3>2. QED
      BY <1>1, <1>2, <2>5, <3>1 DEF Merged
  <2>8. Used(o) = Used(out)
    <3>1. \A i \in 1 .. n : o[i].free = out[i].free /\ (~out[i].free => o[i] = out[i])
      <4> SUFFICES ASSUME NEW i \in 1 .. n
                   PROVE  o[i].free = out[i].free /\ (~out[i].free => o[i] = out[i])
        OBVIOUS
      <4>1. i \in 1 .. n - 1 \/ i = n
        BY <1>1
      <4>2. CASE i = n
        BY <1>4, <2>3, <2>5, <4>2, Zenon
      <4>3. QED
        BY <2>5, <4>1, <4>2, Zenon
    <3>2. QED
      BY <2>5, <3>1 DEF Used
  <2>9. QED
    BY <1>4, <2>6, <2>7, <2>8 DEF o
<1>5. CASE ~(last.free /\ b.free)
  <2>1. o = Append(out, b)
    BY <1>1, <1>5 DEF join
  <2>2. /\ o \in Seq(Block) /\ Len(o) = n + 1 /\ o[n + 1] = b
        /\ \A i \in 1 .. n : o[i] = out[i]
    BY <1>1, <1>3, <2>1
  <2> HIDE DEF o
  <2>3. Chain(o, End(b))
    <3>1. \A i \in 1 .. n + 1 : Sound(o[i])
      BY <1>1, <1>3, <2>2
    <3>2. \A i \in 1 .. n : End(o[i]) = o[i + 1].addr
      BY <1>1, <2>2
    <3>3. QED
      BY <1>1, <2>2, <3>1, <3>2 DEF Chain
  <2>4. Merged(o)
    BY <1>1, <1>2, <1>5, <2>2 DEF Merged
  <2>5. Used(o) = Used(out) \cup (IF b.free THEN {} ELSE {b})
    <3>1. b.free \in BOOLEAN
      BY <1>3 DEF Block
    <3>2. Used(o) = {o[i] : i \in {k \in 1 .. n + 1 : ~o[k].free}}
      BY <2>2 DEF Used
    <3>3. \A x : x \in Used(o) <=> \E k \in 1 .. n + 1 : ~o[k].free /\ x = o[k]
      BY <3>2
    <3>4. \A x : x \in Used(out) <=> \E k \in 1 .. n : ~out[k].free /\ x = out[k]
      BY DEF Used
    <3>5. \A k \in 1 .. n + 1 : k \in 1 .. n \/ k = n + 1
      BY <1>1
    <3>6. 1 .. n \subseteq 1 .. n + 1 /\ n + 1 \in 1 .. n + 1
      BY <1>1
    <3>7. \A x : x \in Used(o) <=> x \in Used(out) \/ (~b.free /\ x = b)
      <4> SUFFICES ASSUME NEW x
                   PROVE  x \in Used(o) <=> x \in Used(out) \/ (~b.free /\ x = b)
        OBVIOUS
      <4>1. ASSUME x \in Used(o) PROVE x \in Used(out) \/ (~b.free /\ x = b)
        <5>1. PICK k \in 1 .. n + 1 : ~o[k].free /\ x = o[k]
          BY <3>3, <4>1, Zenon
        <5>2. CASE k \in 1 .. n
          BY <2>2, <3>4, <5>1, <5>2, Zenon
        <5>3. CASE k = n + 1
          BY <2>2, <5>1, <5>3, Zenon
        <5>4. QED
          BY <3>5, <5>2, <5>3, Zenon
      <4>2. ASSUME x \in Used(out) PROVE x \in Used(o)
        <5>1. PICK k \in 1 .. n : ~out[k].free /\ x = out[k]
          BY <3>4, <4>2, Zenon
        <5>2. QED
          BY <2>2, <3>3, <3>6, <5>1
      <4>3. ASSUME ~b.free, x = b PROVE x \in Used(o)
        BY <2>2, <3>3, <3>6, <4>3, Zenon
      <4>4. QED
        BY <4>1, <4>2, <4>3, Zenon
    <3>8. QED
      BY <3>1, <3>7
  <2>6. QED
    BY <2>3, <2>4, <2>5 DEF o
<1>6. QED
  BY <1>4, <1>5

(* The walk as a whole: it ends where the blocks end, no two free blocks   *)
(* are neighbours any more, and the blocks in use are untouched.           *)
LEMMA Coalesced ==
    ASSUME NEW bs, NEW e, Chain(bs, e)
    PROVE  Chain(coalesce(bs), e) /\ Merged(coalesce(bs)) /\ Used(coalesce(bs)) = Used(bs)
<1> DEFINE n == Len(bs)
           body(h) == [k \in 0 .. n |-> IF k = 0 THEN <<>> ELSE join(h[k - 1], bs[k])]
           r == CHOOSE h : h = body(h)
           step == [k \in 1 .. n |-> [x \in Seq(Block) |-> join(x, bs[k])]]
<1>1. /\ n \in Nat \ {0} /\ bs \in Seq(Block) /\ bs[1].addr = 0 /\ End(bs[n]) = e
      /\ \A k \in 1 .. n : Sound(bs[k]) /\ bs[k] \in Block
      /\ \A k \in 1 .. n - 1 : End(bs[k]) = bs[k + 1].addr
  BY DEF Chain, Sound
<1>2. ASSUME NEW x \in Seq(Block), NEW b \in Block PROVE join(x, b) \in Seq(Block)
  <2>1. CASE x # <<>> /\ x[Len(x)].free /\ b.free
    <3> DEFINE j == Len(x)   last == x[j]   m == [last EXCEPT !.size = last.size + HDR + b.size]
    <3>1. j \in 1 .. j /\ last \in Block
      BY <2>1
    <3>2. m \in Block
      <4>1. last.size + HDR + b.size \in Nat
        BY <3>1, Lengths, SMTT(60) DEF Block
      <4> HIDE DEF last
      <4>2. QED
        BY <3>1, <4>1, SMTT(60) DEF Block
    <3>3. join(x, b) = [x EXCEPT ![j] = m]
      BY <2>1 DEF join
    <3> HIDE DEF m
    <3>4. QED
      BY <3>1, <3>2, <3>3
  <2>2. CASE ~(x # <<>> /\ x[Len(x)].free /\ b.free)
    BY <2>2 DEF join
  <2>3. QED
    BY <2>1, <2>2
<1>3. step \in [1 .. n -> [Seq(Block) -> Seq(Block)]]
  BY <1>1, <1>2, ZenonT(60)
<1>4. PICK w \in [0 .. n -> Seq(Block)] :
         w[0] = <<>> /\ \A k \in 1 .. n : w[k] = step[k][w[k - 1]]
  <2>1. <<>> \in Seq(Block) /\ n \in Nat
    BY <1>1
  <2> DEFINE X == Seq(Block)   x0 == <<>>
  <2>2. x0 \in X /\ step \in [1 .. n -> [X -> X]]
    BY <1>3, <2>1
  <2> HIDE DEF n, step, X, x0
  <2>3. \E w \in [0 .. n -> X] : w[0] = x0 /\ \A k \in 1 .. n : w[k] = step[k][w[k - 1]]
    BY <2>1, <2>2, History
  <2>4. QED
    BY <2>3, ZenonT(60) DEF X, x0
<1>5. w = body(w)
  <2>1. \A k \in 1 .. n : w[k] = join(w[k - 1], bs[k])
    <3> SUFFICES ASSUME NEW k \in 1 .. n PROVE w[k] = join(w[k - 1], bs[k])
      OBVIOUS
    <3>1. k - 1 \in 0 .. n
      BY <1>1
    <3>2. w[k - 1] \in Seq(Block)
      BY <3>1
    <3>3. step[k][w[k - 1]] = join(w[k - 1], bs[k])
      BY <3>2, Zenon
    <3>4. QED
      BY <1>4, <3>3, Zenon
  <2>2. \A k \in 0 .. n : k # 0 => k \in 1 .. n
    BY <1>1
  <2>3. \A k \in 0 .. n : w[k] = IF k = 0 THEN <<>> ELSE join(w[k - 1], bs[k])
    BY <1>4, <2>1, <2>2, Zenon
  <2>4. QED
    BY <2>3
<1>6. coalesce(bs) = r[n]
  BY DEF coalesce
<1>7. r = body(r)
  <2> HIDE DEF body
  <2>1. QED
    BY <1>5
<1> HIDE DEF r
<1>8. r[0] = <<>> /\ \A k \in 1 .. n : r[k] = join(r[k - 1], bs[k])
  <2>1. \A k \in 0 .. n : body(r)[k] = IF k = 0 THEN <<>> ELSE join(r[k - 1], bs[k])
    BY Zenon
  <2> HIDE DEF body
  <2>2. \A k \in 0 .. n : r[k] = IF k = 0 THEN <<>> ELSE join(r[k - 1], bs[k])
    BY <1>7, <2>1, Zenon
  <2>3. 0 \in 0 .. n /\ \A k \in 1 .. n : k \in 0 .. n /\ k # 0
    BY <1>1
  <2>4. QED
    BY <2>2, <2>3, Zenon
<1> HIDE DEF step, body
<1> DEFINE Upto(k) == {bs[i] : i \in {j \in 1 .. k : ~bs[j].free}}
           Good(k) == Chain(r[k], End(bs[k])) /\ Merged(r[k]) /\ Used(r[k]) = Upto(k)
           S == {k \in Nat : k + 1 <= n => Good(k + 1)}
<1>9. 0 \in S
  <2>1. 1 \in 1 .. n /\ 1 - 1 = 0 /\ Sound(bs[1]) /\ bs[1] \in Block
    BY <1>1
  <2>2. r[1] = <<bs[1]>>
    <3>1. r[1] = join(<<>>, bs[1])
      BY <1>8, <2>1, Zenon
    <3>2. join(<<>>, bs[1]) = Append(<<>>, bs[1])
      BY Zenon DEF join
    <3>3. QED
      BY <3>1, <3>2
  <2>3. Chain(r[1], End(bs[1])) /\ Merged(r[1])
    BY <1>1, <2>1, <2>2 DEF Chain, Merged
  <2>4. Used(r[1]) = Upto(1)
    BY <2>1, <2>2 DEF Used
  <2>5. QED
    BY <2>3, <2>4
<1>10. ASSUME NEW j \in Nat, j \in S PROVE j + 1 \in S
  <2> SUFFICES ASSUME (j + 1) + 1 <= n PROVE Good((j + 1) + 1)
    OBVIOUS
  <2> DEFINE k == j + 1   b == bs[k + 1]
  <2>1. k \in 1 .. n /\ k \in 1 .. n - 1 /\ k + 1 \in 1 .. n /\ (k + 1) - 1 = k /\ k <= n
    BY <1>1
  <2>2. Good(k)
    BY <1>10, <2>1
  <2>3. b.addr = End(bs[k]) /\ Sound(b) /\ b \in Block
    BY <1>1, <2>1
  <2>4. r[k + 1] = join(r[k], b)
    BY <1>8, <2>1
  <2>5. /\ Chain(r[k + 1], End(b)) /\ Merged(r[k + 1])
        /\ Used(r[k + 1]) = Upto(k) \cup (IF b.free THEN {} ELSE {b})
    <3>1. Chain(r[k], b.addr) /\ Merged(r[k]) /\ Used(r[k]) = Upto(k)
      BY <2>2, <2>3
    <3> HIDE DEF b, k, Upto
    <3>2. QED
      BY <2>3, <2>4, <3>1, Joined
  <2>6. Upto(k + 1) = Upto(k) \cup (IF b.free THEN {} ELSE {b})
    <3>1. b.free \in BOOLEAN /\ b = bs[k + 1]
      BY <2>3 DEF Block
    <3>2. \A i : i \in 1 .. k + 1 <=> i \in 1 .. k \/ i = k + 1
      BY <2>1
    <3> HIDE DEF b, k
    <3>3. QED
      BY <3>1, <3>2, ZenonT(60)
  <2>7. QED
    BY <2>5, <2>6
<1>11. Nat \subseteq S
  <2> HIDE DEF S
  <2>1. QED
    BY <1>9, <1>10, Counting, Zenon
<1>12. Good(n)
  <2>1. n - 1 \in Nat /\ (n - 1) + 1 = n /\ n <= n
    BY <1>1
  <2>2. n - 1 \in S
    BY <1>11, <2>1, ZenonT(60)
  <2>3. QED
    BY <2>1, <2>2
<1>13. Upto(n) = Used(bs)
  BY DEF Used
<1>14. QED
  BY <1>1, <1>6, <1>12, <1>13

-----------------------------------------------------------------------------

(* Multiples of eight: where a block begins after the one that is cut off. *)
LEMMA Eights ==
    ASSUME NEW x \in Int, NEW y \in Int, NEW z \in Int, x % 8 = 0, y % 8 = 0, z % 8 = 0
    PROVE  (x + y + z) % 8 = 0 /\ (x - y - z) % 8 = 0
  OBVIOUS

(* Rounding up gives a multiple of eight that is not smaller.              *)
LEMMA Rounded ==
    ASSUME NEW size \in Nat \ {0}
    PROVE  align8(size) \in Nat /\ align8(size) % 8 = 0 /\ align8(size) >= size
  BY DEF align8

(* kmalloc's cut: the blocks still tile the heap, no two free blocks have  *)
(* become neighbours, and one block more is in use.                        *)
LEMMA Cut ==
    ASSUME NEW bs, NEW e, Chain(bs, e), Merged(bs), NEW i \in 1 .. Len(bs), bs[i].free,
           NEW n \in Nat, n % 8 = 0, n > 0, n <= bs[i].size
    PROVE  LET f == SubSeq(bs, 1, i - 1) \o split(bs[i], n) \o SubSeq(bs, i + 1, Len(bs))
           IN  /\ Chain(f, e) /\ Merged(f)
               /\ \E g \in Block : /\ g.addr = bs[i].addr /\ g.size >= n
                                   /\ Used(f) = Used(bs) \cup {g}
<1> DEFINE b == bs[i]   len == Len(bs)   t == split(b, n)
           f == SubSeq(bs, 1, i - 1) \o t \o SubSeq(bs, i + 1, len)
<1>1. /\ len \in Nat \ {0} /\ i \in 1 .. len /\ bs \in Seq(Block) /\ bs[1].addr = 0 /\ End(bs[len]) = e
      /\ \A k \in 1 .. len : Sound(bs[k]) /\ bs[k] \in Block
      /\ \A k \in 1 .. len - 1 : End(bs[k]) = bs[k + 1].addr
  BY DEF Chain, Sound
<1>2. \A k \in 1 .. len - 1 : ~(bs[k].free /\ bs[k + 1].free)
  BY DEF Merged
<1>a. len \in Nat \ {0} /\ i \in 1 .. len
  BY <1>1
<1>3. Sound(b) /\ b \in Block /\ b.addr \in Nat /\ b.size \in Nat /\ b.free /\ n <= b.size
  BY <1>1 DEF Sound, Block
<1>b. b.addr % 8 = 0 /\ b.size % 8 = 0 /\ b.size > 0
  BY <1>3 DEF Sound
<1>4. \A x : x \in Used(bs) <=> \E k \in 1 .. len : ~bs[k].free /\ x = bs[k]
  BY DEF Used
<1>0. b = bs[i]
  OBVIOUS
<1> HIDE DEF b, len
<1>5. CASE b.size > n + HDR + 8
  <2> DEFINE g == [b EXCEPT !.size = n, !.free = FALSE]
             r == [addr |-> b.addr + HDR + n, size |-> b.size - n - HDR, free |-> TRUE]
  <2>1. t = <<g, r>>
    BY <1>5, ZenonT(60) DEF split
  <2>2. g \in Block /\ g.addr = b.addr /\ g.size = n /\ ~g.free
    BY <1>3, ZenonT(60) DEF Block
  <2>3. r \in Block /\ r.addr = b.addr + HDR + n /\ r.size = b.size - n - HDR /\ r.free
    <3>1. b.addr + HDR + n \in Nat /\ b.size - n - HDR \in Nat
      <4> DEFINE x == b.addr   y == b.size
      <4>1. x \in Nat /\ y \in Nat /\ HDR \in Nat /\ y > n + HDR + 8
        BY <1>3, <1>5, Lengths, Zenon
      <4> HIDE DEF x, y
      <4>2. x + HDR + n \in Nat /\ y - n - HDR \in Nat
        BY <4>1
      <4>3. QED
        BY <4>2 DEF x, y
    <3>2. QED
      BY <3>1 DEF Block
  <2> HIDE DEF g, r
  <2>4. Sound(g) /\ End(g) = r.addr
    <3>1. Sound(g)
      BY <1>b, <2>2 DEF Sound
    <3>2. b.addr + HDR + n = r.addr
      BY <2>3
    <3>3. QED
      BY <2>2, <3>1, <3>2 DEF End
  <2>5. Sound(r) /\ End(r) = End(b)
    <3>1. r.size > 0 /\ r.addr % 8 = 0 /\ r.size % 8 = 0
      <4> DEFINE x == b.addr   y == b.size
      <4>1. /\ x \in Int /\ y \in Int /\ n \in Int /\ HDR \in Int /\ y > n + HDR + 8
            /\ x % 8 = 0 /\ y % 8 = 0 /\ n % 8 = 0 /\ HDR % 8 = 0
        BY <1>3, <1>b, <1>5, Lengths, Eighths
      <4>2. r.addr = x + HDR + n /\ r.size = y - n - HDR
        BY <2>3
      <4> HIDE DEF x, y
      <4>3. (x + HDR + n) % 8 = 0 /\ (y - n - HDR) % 8 = 0
        BY <4>1, Eights
      <4>4. y - n - HDR > 0
        BY <4>1
      <4>5. QED
        BY <4>2, <4>3, <4>4
    <3>2. r.addr + HDR + r.size = b.addr + HDR + b.size
      BY <1>3, <2>3, Lengths, SMTT(60)
    <3>3. QED
      BY <2>3, <3>1, <3>2 DEF Sound, End
  <2>6. t \in Seq(Block) /\ Len(t) = 2 /\ t[1] = g /\ t[2] = r
    BY <2>1, <2>2, <2>3
  <2>7. /\ f \in Seq(Block) /\ Len(f) = len + 1
        /\ \A k \in 1 .. i - 1 : f[k] = bs[k]
        /\ f[i] = g /\ f[i + 1] = r
        /\ \A k \in i + 1 .. len : f[k + 1] = bs[k]
    <3> DEFINE S == Block
    <3>1. bs \in Seq(S) /\ t \in Seq(S) /\ i \in 1 .. len
      BY <1>1, <2>6
    <3> HIDE DEF t, S
    <3>2. /\ f \in Seq(S) /\ Len(f) = len - 1 + Len(t)
          /\ \A k \in 1 .. i - 1 : f[k] = bs[k]
          /\ \A k \in 1 .. Len(t) : f[i - 1 + k] = t[k]
          /\ \A k \in i + 1 .. len : f[k - 1 + Len(t)] = bs[k]
      BY <3>1, Replacement, Zenon DEF len
    <3> HIDE DEF f, len
    <3>3. Len(f) = len + 1
      BY <1>1, <2>6, <3>2
    <3>4. i - 1 + 1 = i /\ i - 1 + 2 = i + 1 /\ 1 \in 1 .. 2 /\ 2 \in 1 .. 2
      BY <3>1, <1>1
    <3>5. f[i] = g /\ f[i + 1] = r
      BY <2>6, <3>2, <3>4
    <3>6. \A k \in i + 1 .. len : k - 1 + 2 = k + 1
      BY <1>a
    <3>7. \A k \in i + 1 .. len : f[k + 1] = bs[k]
      <4>1. \A k \in i + 1 .. len : f[k - 1 + 2] = bs[k]
        BY <2>6, <3>2, Zenon
      <4>2. QED
        BY <3>6, <4>1, Zenon
    <3>8. QED
      BY <3>2, <3>3, <3>5, <3>7 DEF S
  <2> HIDE DEF f, t, b, len
  <2>8. \A k \in 1 .. len + 1 : k \in 1 .. i - 1 \/ k = i \/ k = i + 1
                               \/ (k - 1 \in i + 1 .. len /\ (k - 1) + 1 = k)
    BY <1>a
  <2>9. Chain(f, e)
    <3>1. \A k \in 1 .. len + 1 : Sound(f[k])
      <4> SUFFICES ASSUME NEW k \in 1 .. len + 1 PROVE Sound(f[k])
        OBVIOUS
      <4>1. CASE k \in 1 .. i - 1
        BY <1>1, <2>7, <4>1
      <4>2. CASE k - 1 \in i + 1 .. len /\ (k - 1) + 1 = k
        <5>1. k - 1 \in 1 .. len
          BY <1>a, <4>2
        <5>2. f[k] = bs[k - 1]
          BY <2>7, <4>2, Zenon
        <5>3. QED
          BY <1>1, <5>1, <5>2
      <4>3. QED
        BY <2>4, <2>5, <2>7, <2>8, <4>1, <4>2, Zenon
    <3>2. f[1].addr = 0
      BY <1>0, <1>1, <2>2, <2>7
    <3>3. End(f[len + 1]) = e
      BY <1>0, <1>1, <2>5, <2>7
    <3>4. \A k \in 1 .. len : End(f[k]) = f[k + 1].addr
      <4> SUFFICES ASSUME NEW k \in 1 .. len PROVE End(f[k]) = f[k + 1].addr
        OBVIOUS
      <4>1. CASE k < i - 1
        <5>1. k \in 1 .. i - 1 /\ k + 1 \in 1 .. i - 1 /\ k \in 1 .. len - 1
          BY <1>a, <4>1
        <5>2. QED
          BY <1>1, <2>7, <5>1, Zenon
      <4>2. CASE k = i - 1
        <5>1. k \in 1 .. i - 1 /\ k \in 1 .. len - 1 /\ k + 1 = i
          BY <1>a, <4>2
        <5>2. End(bs[k]) = bs[k + 1].addr /\ f[k] = bs[k]
          BY <1>1, <2>7, <5>1, Zenon
        <5>3. QED
          BY <1>0, <2>2, <2>7, <5>1, <5>2
      <4>3. CASE k = i
        BY <2>4, <2>7, <4>3
      <4>4. CASE k = i + 1
        <5>1. k \in i + 1 .. len /\ i \in 1 .. len - 1
          BY <1>a, <4>4
        <5>2. End(bs[i]) = bs[k].addr /\ f[k + 1] = bs[k] /\ f[k] = r
          BY <1>1, <2>7, <4>4, <5>1
        <5>3. QED
          BY <1>0, <2>5, <5>2
      <4>5. CASE k > i + 1
        <5>1. k - 1 \in i + 1 .. len /\ k \in i + 1 .. len /\ (k - 1) + 1 = k /\ k - 1 \in 1 .. len - 1
          BY <1>a, <4>5
        <5>2. f[k] = bs[k - 1] /\ f[k + 1] = bs[k]
          BY <2>7, <5>1, Zenon
        <5>3. End(bs[k - 1]) = bs[k].addr
          BY <1>1, <5>1, Zenon
        <5>4. QED
          BY <5>2, <5>3, Zenon
      <4>6. QED
        BY <1>a, <4>1, <4>2, <4>3, <4>4, <4>5
    <3>5. QED
      BY <1>1, <2>7, <3>1, <3>2, <3>3, <3>4, SMTT(60) DEF Chain
  <2>10. Merged(f)
    <3> SUFFICES ASSUME NEW k \in 1 .. len, f[k].free, f[k + 1].free PROVE FALSE
      BY <1>1, <2>7 DEF Merged
    <3>1. CASE k < i - 1
      <4>1. k \in 1 .. i - 1 /\ k + 1 \in 1 .. i - 1 /\ k \in 1 .. len - 1
        BY <1>a, <3>1
      <4>2. QED
        BY <1>2, <2>7, <4>1, Zenon
    <3>2. CASE k = i - 1
      BY <1>1, <2>2, <2>7, <3>2
    <3>3. CASE k = i
      BY <2>2, <2>7, <3>3
    <3>4. CASE k = i + 1
      <4>1. i \in 1 .. len - 1 /\ k \in i + 1 .. len /\ bs[i].free
        BY <1>0, <1>1, <1>3, <3>4
      <4>2. f[k + 1] = bs[i + 1]
        BY <2>7, <3>4, <4>1
      <4>3. QED
        BY <1>2, <4>1, <4>2
    <3>5. CASE k > i + 1
      <4>1. k - 1 \in i + 1 .. len /\ k \in i + 1 .. len /\ (k - 1) + 1 = k /\ k - 1 \in 1 .. len - 1
        BY <1>a, <3>5
      <4>2. f[k] = bs[k - 1] /\ f[k + 1] = bs[k]
        BY <2>7, <4>1, Zenon
      <4>3. QED
        BY <1>2, <4>1, <4>2
    <3>6. QED
      BY <1>a, <3>1, <3>2, <3>3, <3>4, <3>5
  <2>11. Used(f) = Used(bs) \cup {g}
    <3>1. \A x : x \in Used(f) <=> \E k \in 1 .. len + 1 : ~f[k].free /\ x = f[k]
      BY <2>7 DEF Used
    <3>2. ASSUME NEW x, x \in Used(f) PROVE x \in Used(bs) \cup {g}
      <4>1. PICK k \in 1 .. len + 1 : ~f[k].free /\ x = f[k]
        BY <3>1, <3>2
      <4>2. CASE k \in 1 .. i - 1
        BY <1>1, <1>4, <2>7, <4>1, <4>2, SMTT(60)
      <4>3. CASE k - 1 \in i + 1 .. len /\ (k - 1) + 1 = k
        <5>1. k - 1 \in 1 .. len
          BY <1>1, <4>3
        <5>2. x = bs[k - 1]
          BY <2>7, <4>1, <4>3, Zenon
        <5>3. QED
          BY <1>4, <4>1, <5>1, <5>2
      <4>4. QED
        BY <2>3, <2>7, <2>8, <4>1, <4>2, <4>3
    <3>3. ASSUME NEW x, x \in Used(bs) PROVE x \in Used(f)
      <4>1. PICK k \in 1 .. len : ~bs[k].free /\ x = bs[k]
        BY <1>4, <3>3
      <4>2. CASE k \in 1 .. i - 1
        BY <1>1, <2>7, <3>1, <4>1, <4>2
      <4>3. CASE k \in i + 1 .. len
        <5>1. k + 1 \in 1 .. len + 1 /\ f[k + 1] = bs[k]
          BY <1>1, <2>7, <4>3
        <5>2. QED
          BY <3>1, <4>1, <5>1
      <4>4. QED
        BY <1>1, <4>1, <4>2, <4>3
    <3>4. g \in Used(f)
      BY <1>1, <2>2, <2>7, <3>1
    <3>5. QED
      BY <3>2, <3>3, <3>4
  <2>12. QED
    BY <2>2, <2>9, <2>10, <2>11 DEF f, t, b, len
<1>6. CASE ~(b.size > n + HDR + 8)
  <2> DEFINE g == [b EXCEPT !.free = FALSE]
  <2>1. t = <<g>>
    BY <1>6, ZenonT(60) DEF split
  <2>2. g \in Block /\ g.addr = b.addr /\ g.size = b.size /\ ~g.free
    BY <1>3, ZenonT(60) DEF Block
  <2> HIDE DEF g
  <2>3. Sound(g) /\ End(g) = End(b)
    BY <1>3, <2>2 DEF Sound, End
  <2>4. t \in Seq(Block) /\ Len(t) = 1 /\ t[1] = g
    BY <2>1, <2>2
  <2>5. /\ f \in Seq(Block) /\ Len(f) = len /\ f[i] = g
        /\ \A k \in 1 .. len : k # i => f[k] = bs[k]
    <3> DEFINE S == Block
    <3>1. bs \in Seq(S) /\ t \in Seq(S) /\ i \in 1 .. len
      BY <1>1, <2>4
    <3> HIDE DEF t, S
    <3>2. /\ f \in Seq(S) /\ Len(f) = len - 1 + Len(t)
          /\ \A k \in 1 .. i - 1 : f[k] = bs[k]
          /\ \A k \in 1 .. Len(t) : f[i - 1 + k] = t[k]
          /\ \A k \in i + 1 .. len : f[k - 1 + Len(t)] = bs[k]
      BY <3>1, Replacement, Zenon DEF len
    <3> HIDE DEF f, len
    <3>3. Len(f) = len /\ i - 1 + 1 = i /\ 1 \in 1 .. 1
      BY <1>1, <2>4, <3>1, <3>2
    <3>4. f[i] = g
      BY <2>4, <3>2, <3>3
    <3>5. \A k \in 1 .. len : k # i => k \in 1 .. i - 1 \/ (k \in i + 1 .. len /\ k - 1 + 1 = k)
      BY <1>1, <3>1
    <3>6. \A k \in 1 .. len : k # i => f[k] = bs[k]
      BY <2>4, <3>2, <3>5
    <3>7. QED
      BY <3>2, <3>3, <3>4, <3>6 DEF S
  <2> HIDE DEF f, t, b, len
  <2>6. \A k \in 1 .. len : Sound(f[k]) /\ f[k].addr = bs[k].addr /\ End(f[k]) = End(bs[k])
    BY <1>0, <1>1, <2>2, <2>3, <2>5, SMTT(60)
  <2>7. Chain(f, e)
    <3>1. f[1].addr = 0 /\ End(f[len]) = e
      BY <1>1, <2>6
    <3>2. \A k \in 1 .. len - 1 : k \in 1 .. len /\ k + 1 \in 1 .. len
      BY <1>a
    <3>3. \A k \in 1 .. len - 1 : End(f[k]) = f[k + 1].addr
      BY <1>1, <2>6, <3>2, Zenon
    <3>4. QED
      BY <1>a, <2>5, <2>6, <3>1, <3>3 DEF Chain
  <2>8. Merged(f)
    <3>1. \A k \in 1 .. len : f[k].free => bs[k].free
      BY <2>2, <2>5
    <3>2. QED
      <4>1. \A k \in 1 .. len - 1 : k \in 1 .. len /\ k + 1 \in 1 .. len
        BY <1>a
      <4>2. \A k \in 1 .. len - 1 : ~(f[k].free /\ f[k + 1].free)
        BY <1>2, <3>1, <4>1, Zenon
      <4>3. QED
        BY <2>5, <4>2, Zenon DEF Merged
  <2>9. Used(f) = Used(bs) \cup {g}
    <3>1. \A x : x \in Used(f) <=> \E k \in 1 .. len : ~f[k].free /\ x = f[k]
      BY <2>5, SMTT(60) DEF Used
    <3>2. ASSUME NEW x, x \in Used(f) PROVE x \in Used(bs) \cup {g}
      <4>1. PICK k \in 1 .. len : ~f[k].free /\ x = f[k]
        BY <3>1, <3>2
      <4>2. QED
        BY <1>4, <2>5, <4>1
    <3>3. ASSUME NEW x, x \in Used(bs) PROVE x \in Used(f)
      <4>1. PICK k \in 1 .. len : ~bs[k].free /\ x = bs[k]
        BY <1>4, <3>3
      <4>2. k # i
        BY <1>0, <1>3, <4>1
      <4>3. QED
        BY <2>5, <3>1, <4>1, <4>2
    <3>4. g \in Used(f)
      BY <1>1, <2>2, <2>5, <3>1
    <3>5. QED
      BY <3>2, <3>3, <3>4
  <2>10. QED
    BY <1>3, <2>2, <2>7, <2>8, <2>9 DEF f, t, b, len
<1>7. QED
  BY <1>5, <1>6

(* kfree's store: one block becomes free and nothing else changes.         *)
LEMMA Marked ==
    ASSUME NEW bs, NEW e, Chain(bs, e), NEW i \in 1 .. Len(bs), ~bs[i].free
    PROVE  LET m == [k \in DOMAIN bs |->
                        IF bs[k].addr = bs[i].addr THEN [bs[k] EXCEPT !.free = TRUE] ELSE bs[k]]
           IN  Chain(m, e) /\ Used(m) = Used(bs) \ {bs[i]}
<1> DEFINE n == Len(bs)   g == [bs[i] EXCEPT !.free = TRUE]
           m == [k \in DOMAIN bs |->
                    IF bs[k].addr = bs[i].addr THEN [bs[k] EXCEPT !.free = TRUE] ELSE bs[k]]
<1>1. /\ n \in Nat \ {0} /\ i \in 1 .. n /\ bs \in Seq(Block) /\ DOMAIN bs = 1 .. n
      /\ bs[1].addr = 0 /\ End(bs[n]) = e
      /\ \A k \in 1 .. n : Sound(bs[k]) /\ bs[k] \in Block
      /\ \A k \in 1 .. n - 1 : End(bs[k]) = bs[k + 1].addr
  BY DEF Chain, Sound
<1>2. \A k \in 1 .. n : bs[k].addr = bs[i].addr => k = i
  BY <1>1, Inside
<1>3. g \in Block /\ g.addr = bs[i].addr /\ g.size = bs[i].size /\ g.free = TRUE
  <2> DEFINE b == bs[i]
  <2>1. b \in Block
    BY <1>1
  <2> HIDE DEF b
  <2>2. [b EXCEPT !.free = TRUE] \in Block /\ [b EXCEPT !.free = TRUE].addr = b.addr
        /\ [b EXCEPT !.free = TRUE].size = b.size /\ [b EXCEPT !.free = TRUE].free = TRUE
    BY <2>1, ZenonT(60) DEF Block
  <2>3. QED
    BY <2>2 DEF b
<1>4. Sound(g) /\ End(g) = End(bs[i])
  BY <1>1, <1>3 DEF Sound, End
<1>5. m[i] = g /\ \A k \in 1 .. n : k # i => m[k] = bs[k]
  BY <1>1, <1>2, Zenon
<1> HIDE DEF g
<1>6. m \in Seq(Block) /\ Len(m) = n
  <2>1. \A k \in 1 .. n : m[k] \in Block
    BY <1>1, <1>3, <1>5, Zenon
  <2>2. DOMAIN m = 1 .. n /\ m = [k \in 1 .. n |-> m[k]]
    BY <1>1, Zenon
  <2> HIDE DEF m
  <2>3. m \in [1 .. n -> Block]
    BY <2>1, <2>2
  <2>4. QED
    BY <1>1, <2>2, <2>3
<1> HIDE DEF m
<1>7. \A k \in 1 .. n : Sound(m[k]) /\ m[k].addr = bs[k].addr /\ End(m[k]) = End(bs[k])
  BY <1>1, <1>3, <1>4, <1>5
<1>8. Chain(m, e)
  BY <1>1, <1>6, <1>7 DEF Chain
<1>9. Used(m) = Used(bs) \ {bs[i]}
  <2>1. \A x : x \in Used(m) <=> \E k \in 1 .. n : ~m[k].free /\ x = m[k]
    BY <1>6 DEF Used
  <2>2. \A x : x \in Used(bs) <=> \E k \in 1 .. n : ~bs[k].free /\ x = bs[k]
    BY DEF Used
  <2>3. \A k \in 1 .. n : bs[k] = bs[i] => k = i
    BY <1>2
  <2>4. ASSUME NEW x, x \in Used(m) PROVE x \in Used(bs) \ {bs[i]}
    <3>1. PICK k \in 1 .. n : ~m[k].free /\ x = m[k]
      BY <2>1, <2>4
    <3>2. k # i
      BY <1>3, <1>5, <3>1
    <3>3. QED
      BY <1>5, <2>2, <2>3, <3>1, <3>2
  <2>5. ASSUME NEW x, x \in Used(bs), x # bs[i] PROVE x \in Used(m)
    <3>1. PICK k \in 1 .. n : ~bs[k].free /\ x = bs[k]
      BY <2>2, <2>5
    <3>2. QED
      BY <1>5, <2>1, <2>5, <3>1
  <2>6. QED
    BY <2>4, <2>5
<1>10. QED
  BY <1>8, <1>9 DEF m

-----------------------------------------------------------------------------

(* heap_init makes one free block of the whole heap.                       *)
LEMMA InitHInv == Init => HInv
<1> SUFFICES ASSUME Init PROVE HInv
  OBVIOUS
<1> DEFINE b == [addr |-> 0, size |-> HeapBytes - HDR, free |-> TRUE]
<1>1. blocks = <<b>> /\ held = [p \in {} |-> 0]
  BY DEF Init
<1>2. HeapBytes - HDR \in Nat /\ HeapBytes - HDR > 0 /\ (HeapBytes - HDR) % 8 = 0
      /\ 0 % 8 = 0 /\ 0 + HDR + (HeapBytes - HDR) = HeapBytes
  BY Lengths, Eighths
<1>3. b \in Block /\ b.addr = 0 /\ b.size = HeapBytes - HDR /\ b.free
  BY <1>2 DEF Block
<1> HIDE DEF b
<1>4. Sound(b) /\ End(b) = HeapBytes
  BY <1>2, <1>3 DEF Sound, End
<1>5. blocks \in Seq(Block) /\ Len(blocks) = 1 /\ blocks[1] = b
  BY <1>1, <1>3
<1>6. Chain(blocks, HeapBytes) /\ Merged(blocks)
  BY <1>3, <1>4, <1>5 DEF Chain, Merged
<1>7. Used(blocks) = {}
  BY <1>3, <1>5 DEF Used
<1>8. Owned
  BY <1>1, <1>7 DEF Owned
<1>9. QED
  BY <1>6, <1>8 DEF HInv

(* What a successful kmalloc does: a free block, cut to size or not, goes  *)
(* to the caller.                                                          *)
LEMMA Request ==
    ASSUME HInv, NEW size \in Sizes, kmalloc(size)
    PROVE  \E i \in 1 .. Len(blocks), g \in Block :
              /\ blocks[i].free /\ g.addr = blocks[i].addr
              /\ size \in Nat /\ size <= g.size /\ g.size \in Nat /\ size <= blocks[i].size
              /\ Chain(blocks', HeapBytes) /\ Merged(blocks') /\ Used(blocks') = Used(blocks) \cup {g}
              /\ held' = [q \in DOMAIN held \cup {g.addr + HDR} |->
                             IF q = g.addr + HDR THEN size ELSE held[q]]
<1> DEFINE n == align8(size)   i == Min(Fits(n))   b == blocks[i]
           f == SubSeq(blocks, 1, i - 1) \o split(b, n) \o SubSeq(blocks, i + 1, Len(blocks))
<1>1. Chain(blocks, HeapBytes) /\ Merged(blocks) /\ blocks \in Seq(Block)
  BY DEF HInv, Chain
<1>2. size \in Nat \ {0}
  BY Requests
<1>3. n \in Nat /\ n % 8 = 0 /\ n >= size /\ n > 0
  <2>1. n \in Nat /\ n % 8 = 0 /\ n >= size
    BY <1>2, Rounded
  <2> HIDE DEF n
  <2>2. QED
    BY <1>2, <2>1
<1>4. i \in Fits(n)
  <2>1. Fits(n) # {}
    BY Zenon DEF kmalloc
  <2>2. Fits(n) \subseteq Nat
    BY <1>1 DEF Fits
  <2>3. QED
    BY <2>1, <2>2, LeastNatural, Zenon DEF Min
<1>5. i \in 1 .. Len(blocks) /\ b.free /\ n <= b.size /\ b.size \in Nat
  <2>1. i \in DOMAIN blocks /\ b.free /\ b.size >= n
    BY <1>4 DEF Fits
  <2>2. i \in 1 .. Len(blocks)
    BY <1>1, <2>1
  <2>3. Sound(b)
    BY <1>1, <2>2 DEF Chain
  <2>4. b.size \in Nat
    BY <2>3, SoundEnd
  <2> HIDE DEF n, i, b
  <2>5. QED
    BY <1>3, <2>1, <2>2, <2>4
<1>6. blocks' = f /\ held' = [q \in DOMAIN held \cup {b.addr + HDR} |->
                                IF q = b.addr + HDR THEN size ELSE held[q]]
  BY DEF kmalloc
<1> HIDE DEF n, i
<1>7. /\ Chain(f, HeapBytes) /\ Merged(f)
      /\ \E g \in Block : g.addr = b.addr /\ g.size >= n /\ Used(f) = Used(blocks) \cup {g}
  BY <1>1, <1>3, <1>5, Cut, Zenon
<1> HIDE DEF f
<1>8. PICK g \in Block : g.addr = b.addr /\ g.size >= n /\ Used(f) = Used(blocks) \cup {g}
  BY <1>7
<1>9. g.size \in Nat /\ size <= g.size /\ size <= b.size
  <2>1. g.size \in Nat
    BY DEF Block
  <2> HIDE DEF b
  <2>2. QED
    BY <1>2, <1>3, <1>5, <1>8, <2>1
<1>10. QED
  BY <1>2, <1>5, <1>6, <1>7, <1>8, <1>9, Zenon

(* Blocks in use have their own addresses, and a free block has none of    *)
(* them.                                                                   *)
LEMMA OwnAddress ==
    ASSUME NEW bs, NEW e, Chain(bs, e)
    PROVE  /\ \A b \in Used(bs) : Sound(b) /\ End(b) <= e
           /\ \A b, c \in Used(bs) : b.addr + HDR = c.addr + HDR => b = c
           /\ \A i \in 1 .. Len(bs), b \in Used(bs) :
                 bs[i].free => b.addr + HDR # bs[i].addr + HDR
<1>1. /\ \A i \in 1 .. Len(bs) : Sound(bs[i]) /\ End(bs[i]) <= e
      /\ \A i, j \in 1 .. Len(bs) : bs[i].addr = bs[j].addr => i = j
  BY Inside
<1>2. \A b \in Used(bs) : \E k \in 1 .. Len(bs) : ~bs[k].free /\ b = bs[k]
  BY DEF Used
<1>3. \A i, j \in 1 .. Len(bs) : bs[i].addr + HDR = bs[j].addr + HDR => i = j
  <2> SUFFICES ASSUME NEW i \in 1 .. Len(bs), NEW j \in 1 .. Len(bs),
                      bs[i].addr + HDR = bs[j].addr + HDR
               PROVE  i = j
    OBVIOUS
  <2>1. bs[i].addr \in Nat /\ bs[j].addr \in Nat
    BY <1>1, SoundEnd, SMTT(60)
  <2>2. bs[i].addr = bs[j].addr
    BY <2>1, Lengths, SMTT(60)
  <2>3. QED
    BY <1>1, <2>2
<1>4. \A b \in Used(bs) : Sound(b) /\ End(b) <= e
  BY <1>1, <1>2
<1>5. \A b, c \in Used(bs) : b.addr + HDR = c.addr + HDR => b = c
  <2> SUFFICES ASSUME NEW b \in Used(bs), NEW c \in Used(bs), b.addr + HDR = c.addr + HDR
               PROVE  b = c
    OBVIOUS
  <2>1. PICK k \in 1 .. Len(bs) : b = bs[k]
    BY <1>2
  <2>2. PICK l \in 1 .. Len(bs) : c = bs[l]
    BY <1>2
  <2>3. k = l
    BY <1>3, <2>1, <2>2, Zenon
  <2>4. QED
    BY <2>1, <2>2, <2>3, Zenon
<1>6. ASSUME NEW i \in 1 .. Len(bs), NEW b \in Used(bs), bs[i].free,
             b.addr + HDR = bs[i].addr + HDR
      PROVE  FALSE
  <2>1. PICK k \in 1 .. Len(bs) : ~bs[k].free /\ b = bs[k]
    BY <1>2
  <2>2. k = i
    BY <1>3, <1>6, <2>1, Zenon
  <2>3. QED
    BY <1>6, <2>1, <2>2
<1>7. QED
  BY <1>4, <1>5, <1>6, Zenon

(* kmalloc preserves the invariant.                                        *)
LEMMA AllocHInv ==
    ASSUME HInv, NEW size \in Sizes, kmalloc(size)
    PROVE  HInv'
<1>1. PICK i \in 1 .. Len(blocks), g \in Block :
         /\ blocks[i].free /\ g.addr = blocks[i].addr
         /\ size \in Nat /\ size <= g.size /\ g.size \in Nat /\ size <= blocks[i].size
         /\ Chain(blocks', HeapBytes) /\ Merged(blocks') /\ Used(blocks') = Used(blocks) \cup {g}
         /\ held' = [q \in DOMAIN held \cup {g.addr + HDR} |->
                        IF q = g.addr + HDR THEN size ELSE held[q]]
  BY Request, ZenonT(60)
<1>2. \A b \in Used(blocks) : b.addr + HDR # g.addr + HDR
  BY <1>1, OwnAddress DEF HInv
<1> DEFINE p == g.addr + HDR   U == Used(blocks)
<1>3. DOMAIN held = {b.addr + HDR : b \in U}
      /\ \A b \in U : held[b.addr + HDR] \in Sizes /\ held[b.addr + HDR] <= b.size
  BY DEF HInv, Owned
<1>4. DOMAIN held' = {b.addr + HDR : b \in U \cup {g}}
  <2>1. DOMAIN held' = DOMAIN held \cup {p}
    BY <1>1
  <2> HIDE DEF U
  <2>2. QED
    BY <1>3, <2>1
<1>5. \A b \in U \cup {g} : held'[b.addr + HDR] \in Sizes /\ held'[b.addr + HDR] <= b.size
  <2> SUFFICES ASSUME NEW b \in U \cup {g}
               PROVE  held'[b.addr + HDR] \in Sizes /\ held'[b.addr + HDR] <= b.size
    OBVIOUS
  <2>1. CASE b = g
    <3>1. held'[g.addr + HDR] = size
      BY <1>1, Zenon
    <3>2. QED
      BY <1>1, <2>1, <3>1
  <2>2. CASE b # g
    <3>1. b \in U /\ b.addr + HDR \in DOMAIN held /\ b.addr + HDR # p
      BY <1>2, <1>3, <2>2
    <3>2. held'[b.addr + HDR] = held[b.addr + HDR]
      BY <1>1, <3>1, Zenon
    <3>3. QED
      BY <1>3, <3>1, <3>2
  <2>3. QED
    BY <2>1, <2>2
<1>6. Owned'
  BY <1>1, <1>4, <1>5, ZenonT(60) DEF Owned
<1>7. QED
  BY <1>1, <1>6 DEF HInv

(* What kfree of a held pointer does: the block behind it is no longer in  *)
(* use.                                                                    *)
LEMMA Return ==
    ASSUME HInv, NEW ptr \in DOMAIN held, kfree(ptr)
    PROVE  \E b \in Used(blocks) :
              /\ ptr = b.addr + HDR
              /\ Chain(blocks', HeapBytes) /\ Merged(blocks') /\ Used(blocks') = Used(blocks) \ {b}
              /\ held' = [q \in DOMAIN held \ {ptr} |-> held[q]]
<1>1. Chain(blocks, HeapBytes) /\ blocks \in Seq(Block)
  BY DEF HInv, Chain
<1>2. PICK b \in Used(blocks) : ptr = b.addr + HDR
  BY DEF HInv, Owned
<1>3. PICK i \in 1 .. Len(blocks) : ~blocks[i].free /\ b = blocks[i]
  BY DEF Used
<1>4. ptr - HDR = blocks[i].addr
  <2>1. Sound(b)
    BY <1>1, <1>3 DEF Chain
  <2>2. b.addr \in Nat
    BY <2>1, SoundEnd
  <2>3. ptr - HDR = b.addr
    BY <1>2, <2>2, Lengths
  <2>4. QED
    BY <1>3, <2>3
<1> DEFINE m == [k \in DOMAIN blocks |->
                    IF blocks[k].addr = blocks[i].addr THEN [blocks[k] EXCEPT !.free = TRUE]
                    ELSE blocks[k]]
<1>5. blocks' = coalesce(m) /\ held' = [q \in DOMAIN held \ {ptr} |-> held[q]]
  BY <1>4, ZenonT(60) DEF kfree
<1>6. Chain(m, HeapBytes) /\ Used(m) = Used(blocks) \ {blocks[i]}
  BY <1>1, <1>3, Marked, Zenon
<1> HIDE DEF m
<1>7. Chain(blocks', HeapBytes) /\ Merged(blocks') /\ Used(blocks') = Used(m)
  BY <1>5, <1>6, Coalesced
<1>8. QED
  BY <1>2, <1>3, <1>5, <1>6, <1>7

(* kfree preserves the invariant.                                          *)
LEMMA FreeHInv ==
    ASSUME HInv, NEW ptr \in DOMAIN held, kfree(ptr)
    PROVE  HInv'
<1>1. PICK b \in Used(blocks) :
         /\ ptr = b.addr + HDR
         /\ Chain(blocks', HeapBytes) /\ Merged(blocks') /\ Used(blocks') = Used(blocks) \ {b}
         /\ held' = [q \in DOMAIN held \ {ptr} |-> held[q]]
  BY Return
<1> DEFINE U == Used(blocks)
<1>2. \A c \in U : c.addr + HDR = b.addr + HDR => c = b
  BY OwnAddress DEF HInv
<1>3. DOMAIN held = {c.addr + HDR : c \in U}
      /\ \A c \in U : held[c.addr + HDR] \in Sizes /\ held[c.addr + HDR] <= c.size
  BY DEF HInv, Owned
<1>4. DOMAIN held' = DOMAIN held \ {ptr}
  BY <1>1
<1> HIDE DEF U
<1>5. DOMAIN held' = {c.addr + HDR : c \in U \ {b}}
  BY <1>1, <1>2, <1>3, <1>4
<1>6. \A c \in U \ {b} : held'[c.addr + HDR] = held[c.addr + HDR]
  <2> SUFFICES ASSUME NEW c \in U \ {b} PROVE held'[c.addr + HDR] = held[c.addr + HDR]
    OBVIOUS
  <2>1. c.addr + HDR \in DOMAIN held \ {ptr}
    BY <1>1, <1>2, <1>3
  <2>2. QED
    BY <1>1, <2>1, Zenon
<1>7. Owned'
  BY <1>1, <1>3, <1>5, <1>6, ZenonT(60) DEF Owned, U
<1>8. QED
  BY <1>1, <1>7 DEF HInv

(* Every heap operation keeps the invariant.                               *)
LEMMA NextHInv == HInv /\ [Next]_vars => HInv'
<1> SUFFICES ASSUME HInv, [Next]_vars PROVE HInv'
  OBVIOUS
<1>1. ASSUME NEW size \in Sizes, kmalloc(size) PROVE HInv'
  BY <1>1, AllocHInv
<1>2. ASSUME NEW ptr \in DOMAIN held, kfree(ptr) PROVE HInv'
  BY <1>2, FreeHInv
<1>3. CASE UNCHANGED vars
  BY <1>3 DEF vars, HInv, Owned
<1>4. QED
  BY <1>1, <1>2, <1>3 DEF Next

(* The inductive invariant holds throughout.                               *)
LEMMA HeapInvariant == Spec => []HInv
  BY InitHInv, NextHInv, PTL DEF Spec

-----------------------------------------------------------------------------

(* Tiling holds for every heap: whatever was allocated and freed in        *)
(* whatever order, kmalloc's splits and kfree's merges leave blocks that   *)
(* cover the heap without gap or overlap, and the blocks in use are the    *)
(* callers'.                                                               *)
THEOREM BlocksTile == Spec => []Tiling
<1>1. HInv => Tiling
  <2> SUFFICES ASSUME HInv PROVE Tiling
    OBVIOUS
  <2> DEFINE n == Len(blocks)   U == Used(blocks)
  <2>1. /\ n \in Nat \ {0} /\ blocks \in Seq(Block) /\ DOMAIN blocks = 1 .. n
        /\ blocks[1].addr = 0 /\ End(blocks[n]) = HeapBytes
        /\ \A i \in 1 .. n - 1 : End(blocks[i]) = blocks[i + 1].addr
    BY DEF HInv, Chain
  <2>2. \A i \in 1 .. n : Sound(blocks[i]) /\ End(blocks[i]) <= HeapBytes
    BY Inside DEF HInv
  <2>3. /\ DOMAIN held = {b.addr + HDR : b \in U}
        /\ \A b \in U : held[b.addr + HDR] \in Sizes /\ held[b.addr + HDR] <= b.size
        /\ \A b \in U : Sound(b) /\ End(b) <= HeapBytes
    BY OwnAddress DEF HInv, Owned
  <2>4. \A x : x \in U <=> \E k \in 1 .. n : ~blocks[k].free /\ x = blocks[k]
    BY DEF Used
  <2>5. blocks \in Seq([addr : 0 .. HeapBytes, size : 0 .. HeapBytes, free : BOOLEAN])
    <3> DEFINE B == [addr : 0 .. HeapBytes, size : 0 .. HeapBytes, free : BOOLEAN]
    <3>1. \A i \in 1 .. n : blocks[i] \in B
      <4> SUFFICES ASSUME NEW i \in 1 .. n PROVE blocks[i] \in B
        OBVIOUS
      <4> DEFINE b == blocks[i]
      <4>1. Sound(b) /\ End(b) <= HeapBytes /\ b \in Block
        BY <2>2 DEF Sound
      <4> HIDE DEF b
      <4>2. b.addr \in 0 .. HeapBytes /\ b.size \in 0 .. HeapBytes
        BY <4>1, SoundEnd, Lengths, SMTT(60) DEF End
      <4>3. b \in B
        BY <4>1, <4>2 DEF Block
      <4>4. QED
        BY <4>3 DEF b
    <3> HIDE DEF B
    <3>2. blocks \in [1 .. n -> B]
      BY <2>1, <3>1
    <3>3. blocks \in Seq(B)
      BY <2>1, <3>2
    <3>4. QED
      BY <3>3 DEF B
  <2>6. \A p \in DOMAIN held : p \in 0 .. HeapBytes /\ held[p] \in Sizes
    <3> SUFFICES ASSUME NEW b \in U
                 PROVE  b.addr + HDR \in 0 .. HeapBytes /\ held[b.addr + HDR] \in Sizes
      BY <2>3
    <3>1. Sound(b) /\ End(b) <= HeapBytes
      BY <2>3
    <3>2. b.addr + HDR \in 0 .. HeapBytes
      BY <3>1, SoundEnd, Lengths
    <3>3. QED
      BY <2>3, <3>2
  <2>7. \A i \in 1 .. n : blocks[i].addr + HDR + blocks[i].size =
           IF i = n THEN HeapBytes ELSE blocks[i + 1].addr
    <3> SUFFICES ASSUME NEW i \in 1 .. n
                 PROVE  End(blocks[i]) = IF i = n THEN HeapBytes ELSE blocks[i + 1].addr
      BY Zenon DEF End
    <3>1. i # n => i \in 1 .. n - 1
      <4>1. n \in Nat
        BY <2>1
      <4> HIDE DEF n
      <4>2. QED
        BY <4>1
    <3>2. QED
      BY <2>1, <3>1, Zenon
  <2>8. {blocks[i].addr + HDR : i \in {k \in 1 .. n : ~blocks[k].free}} = DOMAIN held
    <3> HIDE DEF U
    <3>1. QED
      BY <2>3, <2>4
  <2>9. \A i \in 1 .. n : ~blocks[i].free => held[blocks[i].addr + HDR] <= blocks[i].size
    BY <2>3, <2>4
  <2>10. QED
    BY <2>1, <2>5, <2>6, <2>7, <2>8, <2>9, ZenonT(60) DEF Tiling, TypeOK
<1>2. QED
  BY HeapInvariant, <1>1, PTL

(* FailsOnlyWhenFull holds for every heap: because kfree leaves no two     *)
(* free blocks side by side, a request that finds no block would not fit   *)
(* anywhere between the blocks in use.                                     *)
THEOREM FailsWhenFull == Spec => []FailsOnlyWhenFull
<1>1. HInv => FailsOnlyWhenFull
  <2> SUFFICES ASSUME HInv, NEW size \in Sizes, Fits(align8(size)) = {},
                      NEW k \in 0 .. (HeapBytes - HDR - align8(size)) \div 8
               PROVE  \E i \in DOMAIN blocks :
                         /\ ~blocks[i].free
                         /\ 8 * k < blocks[i].addr + HDR + blocks[i].size
                         /\ blocks[i].addr < 8 * k + HDR + align8(size)
    BY DEF FailsOnlyWhenFull
  <2> DEFINE n == align8(size)   len == Len(blocks)   a == 8 * k
             S == {j \in Nat : j + 1 <= len /\ a < End(blocks[j + 1])}
             j == CHOOSE x \in S : \A y \in S : x <= y
             i == j + 1
  <2>1. n \in Nat /\ n > 0
    <3>1. size \in Nat \ {0}
      BY Requests
    <3>2. QED
      BY <3>1, Rounded
  <2>2. a \in Nat /\ a + HDR + n <= HeapBytes
    <3> DEFINE room == HeapBytes - HDR - n
    <3>1. room \in Int /\ k \in 0 .. (room \div 8)
      BY <2>1, Lengths
    <3> HIDE DEF room
    <3>2. a <= room /\ a \in Nat
      BY <3>1
    <3>3. QED
      BY <2>1, <3>2, Lengths DEF room
  <2>3. /\ len \in Nat \ {0} /\ DOMAIN blocks = 1 .. len
        /\ blocks[1].addr = 0 /\ End(blocks[len]) = HeapBytes
        /\ \A x \in 1 .. len - 1 : End(blocks[x]) = blocks[x + 1].addr
        /\ \A x \in 1 .. len - 1 : ~(blocks[x].free /\ blocks[x + 1].free)
        /\ \A x \in 1 .. len : Sound(blocks[x])
    BY DEF HInv, Chain, Merged
  <2>4. \A x \in 1 .. len : ~blocks[x].free \/ ~(blocks[x].size >= n)
    BY <2>3 DEF Fits
  <2> HIDE DEF n, len, a
  <2>5. j \in S /\ \A y \in S : j <= y
    <3>1. len - 1 \in S
      <4>1. len - 1 \in Nat /\ (len - 1) + 1 = len /\ a < HeapBytes
        BY <2>1, <2>2, <2>3, Lengths
      <4>2. QED
        BY <2>3, <4>1
    <3>2. S \subseteq Nat /\ S # {}
      BY <3>1
    <3> HIDE DEF S
    <3>3. QED
      BY <3>2, LeastNatural, Zenon
  <2> HIDE DEF j
  <2>6. i \in 1 .. len /\ a < End(blocks[i])
    BY <2>3, <2>5
  <2>7. blocks[i].addr <= a
    <3>1. CASE j = 0
      BY <2>2, <2>3, <3>1
    <3>2. CASE j # 0
      <4>1. j \in 1 .. len - 1 /\ j - 1 \in Nat /\ (j - 1) + 1 = j /\ j \in 1 .. len /\ ~(j <= j - 1)
        BY <2>3, <2>5, <2>6, <3>2
      <4>2. j - 1 \notin S
        BY <2>5, <4>1
      <4>3. ~(a < End(blocks[j]))
        BY <2>3, <4>1, <4>2
      <4>4. End(blocks[j]) = blocks[i].addr /\ End(blocks[j]) \in Nat
        BY <2>3, <4>1, SoundEnd, SMTT(60)
      <4>5. QED
        BY <2>2, <4>3, <4>4
    <3>3. QED
      BY <3>1, <3>2
  <2> DEFINE b == blocks[i]
  <2>8. Sound(b) /\ b.addr \in Nat /\ b.size \in Nat /\ End(b) = b.addr + HDR + b.size
    BY <2>3, <2>6, SoundEnd DEF End
  <2>9. CASE ~b.free
    <3>1. a < b.addr + HDR + b.size /\ b.addr < a + HDR + n
      <4>1. a < End(b) /\ b.addr <= a
        BY <2>6, <2>7
      <4> HIDE DEF b
      <4>2. QED
        BY <2>1, <2>2, <2>8, <4>1, Lengths
    <3>2. QED
      BY <2>3, <2>6, <2>9, <3>1, SMTT(60) DEF a, n
  <2>10. CASE b.free
    <3>1. ~(b.size >= n)
      BY <2>4, <2>6, <2>10
    <3>2. End(b) < a + HDR + n /\ End(b) < HeapBytes
      <4>1. b.addr <= a
        BY <2>7
      <4> HIDE DEF b
      <4>2. QED
        BY <2>1, <2>2, <2>8, <3>1, <4>1, Lengths
    <3>3. i # len
      BY <2>3, <3>2, Lengths
    <3>4. i \in 1 .. len - 1 /\ i + 1 \in 1 .. len
      BY <2>3, <2>6, <3>3
    <3> DEFINE c == blocks[i + 1]
    <3>5. ~c.free /\ c.addr = End(b) /\ Sound(c)
      BY <2>3, <2>10, <3>4
    <3>6. a < c.addr + HDR + c.size /\ c.addr < a + HDR + n
      <4>1. a < End(b)
        BY <2>6
      <4>2. c.addr \in Nat /\ c.size \in Nat
        BY <3>5, SoundEnd
      <4> HIDE DEF b, c, i
      <4>3. QED
        BY <2>1, <2>2, <3>2, <3>5, <4>1, <4>2, Lengths
    <3>7. QED
      BY <2>3, <3>4, <3>5, <3>6, ZenonT(60) DEF a, n
  <2>11. QED
    BY <2>9, <2>10
<1>2. QED
  BY HeapInvariant, <1>1, PTL

(* Callers see separate, aligned regions, for every heap: kmalloc takes a  *)
(* region apart from all that are in use, and kfree gives back exactly the *)
(* one it is called with.                                                  *)
THEOREM HeapImplements == Spec => ImplementsRegions
<1> DEFINE L == {[ptr |-> p, size |-> held[p]] : p \in DOMAIN held}
<1>1. Init => R!RInit
  BY DEF Init, R!RInit
<1>2. ASSUME HInv, [Next]_vars PROVE [R!RNext]_L
  <2> DEFINE U == Used(blocks)
  <2>1. /\ DOMAIN held = {b.addr + HDR : b \in U}
        /\ \A b \in U : held[b.addr + HDR] \in Sizes /\ held[b.addr + HDR] <= b.size
    BY <1>2 DEF HInv, Owned
  <2>2. \A b \in U : \E k \in 1 .. Len(blocks) : ~blocks[k].free /\ b = blocks[k]
    BY DEF Used
  <2>3. \A i \in 1 .. Len(blocks) : Sound(blocks[i])
    BY <1>2 DEF HInv, Chain
  <2>4. \A i, j \in 1 .. Len(blocks) : i < j => End(blocks[i]) <= blocks[j].addr
    BY <1>2, Ordered DEF HInv
  <2>5. ASSUME NEW size \in Sizes, kmalloc(size) PROVE R!RNext
    <3>1. PICK i \in 1 .. Len(blocks), g \in Block :
             /\ blocks[i].free /\ g.addr = blocks[i].addr
             /\ size \in Nat /\ size <= g.size /\ g.size \in Nat /\ size <= blocks[i].size
             /\ Chain(blocks', HeapBytes) /\ Merged(blocks') /\ Used(blocks') = Used(blocks) \cup {g}
             /\ held' = [q \in DOMAIN held \cup {g.addr + HDR} |->
                            IF q = g.addr + HDR THEN size ELSE held[q]]
      BY <1>2, <2>5, Request, ZenonT(60)
    <3> DEFINE p == g.addr + HDR   r == [ptr |-> p, size |-> size]
    <3>2. p \notin DOMAIN held
      <4>1. \A b \in U : b.addr + HDR # blocks[i].addr + HDR
        BY <1>2, <3>1, OwnAddress DEF HInv
      <4>2. QED
        BY <2>1, <3>1, <4>1
    <3>3. DOMAIN held' = DOMAIN held \cup {p} /\ held'[p] = size
          /\ \A q \in DOMAIN held : held'[q] = held[q]
      <4>1. \A q \in DOMAIN held : q # p
        BY <3>2
      <4>2. QED
        BY <3>1, <4>1, Zenon
    <3> HIDE DEF p
    <3>4. L' = L \cup {r}
      BY <3>3
    <3>5. r \notin L /\ r.ptr = p /\ r.size = size
      BY <3>2, ZenonT(60)
    <3>6. p % 8 = 0 /\ p \in Nat
      <4>1. Sound(blocks[i])
        BY <2>3
      <4>2. blocks[i].addr \in Nat /\ blocks[i].addr % 8 = 0
        BY <4>1, SoundEnd DEF Sound
      <4>3. p = blocks[i].addr + HDR
        BY <3>1 DEF p
      <4>4. QED
        BY <4>2, <4>3, Lengths, Eighths, SMTT(60)
    <3>7. ASSUME NEW s \in L PROVE R!Apart(r, s)
      <4>1. PICK b \in U : s = [ptr |-> b.addr + HDR, size |-> held[b.addr + HDR]]
        BY <2>1
      <4>2. PICK k \in 1 .. Len(blocks) : ~blocks[k].free /\ b = blocks[k]
        BY <2>2
      <4> DEFINE x == blocks[i].addr   xs == blocks[i].size   y == b.addr   ys == b.size
                 h == held[b.addr + HDR]
      <4>3. /\ x \in Nat /\ xs \in Nat /\ y \in Nat /\ ys \in Nat
            /\ End(blocks[i]) = x + HDR + xs /\ End(blocks[k]) = y + HDR + ys
        BY <2>3, <4>2, SoundEnd, SMTT(60) DEF End
      <4>4. h \in Nat /\ h <= ys
        BY <2>1, Requests, ZenonT(60)
      <4>5. p = x + HDR /\ s.ptr = y + HDR /\ s.size = h /\ size <= xs /\ size \in Nat
        BY <3>1, <4>1 DEF p
      <4>6. i # k
        BY <3>1, <4>2
      <4>7. x + HDR + xs <= y \/ y + HDR + ys <= x
        <5>1. i < k \/ k < i
          BY <4>6
        <5>2. End(blocks[i]) <= blocks[k].addr \/ End(blocks[k]) <= blocks[i].addr
          BY <2>4, <5>1
        <5>3. QED
          BY <4>2, <4>3, <5>2
      <4> HIDE DEF x, xs, y, ys, h
      <4>8. p + size + HDR <= s.ptr \/ s.ptr + s.size + HDR <= p
        BY <4>3, <4>4, <4>5, <4>7, Lengths
      <4>9. QED
        BY <3>5, <4>8 DEF R!Apart
    <3>8. R!Allocate(r)
      BY <3>4, <3>5, <3>6, <3>7 DEF R!Allocate, R!Fresh
    <3>9. r \in L' \ L
      BY <3>4, <3>5
    <3>10. QED
      BY <3>8, <3>9, ZenonT(60) DEF R!RNext
  <2>6. ASSUME NEW ptr \in DOMAIN held, kfree(ptr) PROVE R!RNext
    <3>1. held' = [q \in DOMAIN held \ {ptr} |-> held[q]]
      BY <2>6 DEF kfree
    <3> DEFINE r == [ptr |-> ptr, size |-> held[ptr]]
    <3>2. r \in L
      OBVIOUS
    <3>3. L' = L \ {r}
      <4>1. DOMAIN held' = DOMAIN held \ {ptr} /\ \A q \in DOMAIN held \ {ptr} : held'[q] = held[q]
        BY <3>1
      <4>2. QED
        BY <4>1
    <3>4. QED
      BY <3>2, <3>3 DEF R!RNext, R!Release
  <2>7. CASE UNCHANGED vars
    BY <2>7 DEF vars
  <2>8. QED
    BY <1>2, <2>5, <2>6, <2>7 DEF Next
<1>3. QED
  BY <1>1, <1>2, HeapInvariant, PTL DEF Spec, ImplementsRegions, R!RSpec

=============================================================================
