----------------------------- MODULE KernelLemmas -----------------------------
(* Facts about numbers and sequences that several proofs need.             *)
EXTENDS Integers, Sequences, WellFoundedInduction, TLAPS

(* A nonempty set of naturals has a least element, so the CHOOSE of a      *)
(* minimum, which stands for a scan from the low end that stops at the     *)
(* first hit (scheduler_tick, scheduler_wake_key_waiter, pmm_alloc), is    *)
(* the element it looks for.                                               *)
LEMMA LeastNatural ==
    ASSUME NEW S, S \subseteq Nat, S # {}
    PROVE  LET m == CHOOSE k \in S : \A j \in S : k <= j
           IN  m \in S /\ \A j \in S : m <= j
<1>1. PICK x \in S : \A y \in S : ~ (<<y, x>> \in OpToRel(<, Nat))
  BY NatLessThanWellFounded, WFMin, Zenon
<1>2. \A y \in S : x <= y
  <2>1. \A a, b \in Nat : a < b => <<a, b>> \in OpToRel(<, Nat)
    BY DEF OpToRel
  <2>2. \A y \in S : ~ (y < x)
    BY <1>1, <2>1, Zenon
  <2>3. QED
    BY <2>2
<1>3. QED
  BY <1>2, ZenonT(60)

(* Induction, with the set of numbers the claim holds of in place of a     *)
(* predicate: a loop that counts up.                                       *)
LEMMA Counting ==
    ASSUME NEW S, 0 \in S, \A n \in Nat : n \in S => n + 1 \in S
    PROVE  Nat \subseteq S
<1> DEFINE Bad == {n \in Nat : n \notin S}
           m == CHOOSE k \in Bad : \A j \in Bad : k <= j
<1> SUFFICES ASSUME Bad # {} PROVE FALSE
  OBVIOUS
<1>1. m \in Bad /\ \A j \in Bad : m <= j
  BY LeastNatural, ZenonT(60)
<1> HIDE DEF m
<1>2. m \in Nat \ {0} /\ m - 1 \in Nat
  BY <1>1
<1>3. m - 1 \notin Bad
  BY <1>1, <1>2
<1>4. QED
  BY <1>1, <1>2, <1>3

(* A loop that runs over 1 .. n and turns one value of X into the next has *)
(* a history: what a recursive function over 0 .. n computes exists.       *)
LEMMA History ==
    ASSUME NEW X, NEW x0 \in X, NEW n \in Nat, NEW step \in [1 .. n -> [X -> X]]
    PROVE  \E w \in [0 .. n -> X] :
              w[0] = x0 /\ \A k \in 1 .. n : w[k] = step[k][w[k - 1]]
<1> DEFINE S == {m \in Nat : \E w \in [0 .. n -> X] :
                    w[0] = x0 /\ \A k \in 1 .. n : k <= m => w[k] = step[k][w[k - 1]]}
<1>1. 0 \in S
  <2> DEFINE c == [k \in 0 .. n |-> x0]
  <2>1. c \in [0 .. n -> X] /\ c[0] = x0
    OBVIOUS
  <2>2. \A k \in 1 .. n : ~(k <= 0)
    OBVIOUS
  <2> HIDE DEF c
  <2>3. QED
    BY <2>1, <2>2
<1>2. ASSUME NEW m \in Nat, m \in S PROVE m + 1 \in S
  <2>1. PICK w \in [0 .. n -> X] :
           w[0] = x0 /\ \A k \in 1 .. n : k <= m => w[k] = step[k][w[k - 1]]
    BY <1>2
  <2>2. CASE m + 1 > n
    BY <2>1, <2>2
  <2>3. CASE m + 1 <= n
    <3> DEFINE h == [w EXCEPT ![m + 1] = step[m + 1][w[m]]]
    <3>1. m \in 0 .. n /\ m + 1 \in 1 .. n /\ m + 1 \in 0 .. n /\ m + 1 # 0
      BY <2>3
    <3>2. step[m + 1][w[m]] \in X
      BY <3>1
    <3>3. h \in [0 .. n -> X] /\ h[0] = x0
      BY <2>1, <3>1, <3>2
    <3>4. \A k \in 1 .. n : k <= m + 1 => h[k] = step[k][h[k - 1]]
      BY <2>1, <3>1
    <3> HIDE DEF h
    <3>5. QED
      BY <3>3, <3>4
  <2>4. QED
    BY <2>2, <2>3
<1>3. Nat \subseteq S
  <2> HIDE DEF S
  <2>1. QED
    BY <1>1, <1>2, Counting, Zenon
<1>4. n \in S
  BY <1>3
<1>5. \A k \in 1 .. n : k <= n
  OBVIOUS
<1>6. QED
  BY <1>4, <1>5

(* Where the elements of three sequences are in their concatenation.       *)
LEMMA ThreeParts ==
    ASSUME NEW S, NEW a \in Seq(S), NEW b \in Seq(S), NEW c \in Seq(S), NEW f, f = a \o b \o c
    PROVE  /\ f \in Seq(S) /\ Len(f) = Len(a) + Len(b) + Len(c)
           /\ \A k \in 1 .. Len(a) : f[k] = a[k]
           /\ \A k \in 1 .. Len(b) : f[k + Len(a)] = b[k]
           /\ \A k \in 1 .. Len(c) : f[k + Len(a) + Len(b)] = c[k]
  OBVIOUS

(* An element of a sequence replaced by the elements of another one.       *)
LEMMA Replacement ==
    ASSUME NEW S, NEW s \in Seq(S), NEW t \in Seq(S), NEW i \in 1 .. Len(s)
    PROVE  LET f == SubSeq(s, 1, i - 1) \o t \o SubSeq(s, i + 1, Len(s))
           IN  /\ f \in Seq(S) /\ Len(f) = Len(s) - 1 + Len(t)
               /\ \A k \in 1 .. i - 1 : f[k] = s[k]
               /\ \A k \in 1 .. Len(t) : f[i - 1 + k] = t[k]
               /\ \A k \in i + 1 .. Len(s) : f[k - 1 + Len(t)] = s[k]
<1> DEFINE a == SubSeq(s, 1, i - 1)   c == SubSeq(s, i + 1, Len(s))   f == a \o t \o c
           n == Len(s)   m == Len(t)
<1>1. a \in Seq(S) /\ Len(a) = i - 1 /\ \A k \in 1 .. i - 1 : a[k] = s[k]
  OBVIOUS
<1>2. c \in Seq(S) /\ Len(c) = n - i /\ \A k \in 1 .. n - i : c[k] = s[i + k]
  OBVIOUS
<1>3. n \in Nat /\ m \in Nat /\ i \in 1 .. n
  OBVIOUS
<1>4. /\ f \in Seq(S) /\ Len(f) = Len(a) + m + Len(c)
      /\ \A k \in 1 .. Len(a) : f[k] = a[k]
      /\ \A k \in 1 .. m : f[k + Len(a)] = t[k]
      /\ \A k \in 1 .. Len(c) : f[k + Len(a) + m] = c[k]
  <2>1. f = a \o t \o c
    OBVIOUS
  <2>2. a \in Seq(S) /\ c \in Seq(S)
    BY <1>1, <1>2
  <2> HIDE DEF a, c, f
  <2>3. QED
    BY <2>1, <2>2, ThreeParts
<1> HIDE DEF a, c, f, n, m
<1>5. Len(f) = n - 1 + m
  BY <1>1, <1>2, <1>3, <1>4
<1>6. \A k \in 1 .. i - 1 : f[k] = s[k]
  BY <1>1, <1>4, ZenonT(60)
<1>7. \A k \in 1 .. m : f[i - 1 + k] = t[k]
  <2> SUFFICES ASSUME NEW k \in 1 .. m PROVE f[i - 1 + k] = t[k]
    OBVIOUS
  <2>1. k + (i - 1) = i - 1 + k
    BY <1>3
  <2>2. QED
    BY <1>1, <1>4, <2>1
<1>8. \A k \in i + 1 .. n : f[k - 1 + m] = s[k]
  <2> SUFFICES ASSUME NEW k \in i + 1 .. n PROVE f[k - 1 + m] = s[k]
    OBVIOUS
  <2>1. k - i \in 1 .. n - i /\ k - 1 + m = (k - i) + (i - 1) + m /\ i + (k - i) = k
    BY <1>3
  <2>2. QED
    BY <1>1, <1>2, <1>4, <2>1
<1>9. QED
  BY <1>4, <1>5, <1>6, <1>7, <1>8, ZenonT(60) DEF f, a, c, n, m

=============================================================================
