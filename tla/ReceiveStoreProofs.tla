------------------------- MODULE ReceiveStoreProofs -------------------------
(***************************************************************************)
(* What the operators of SeqNumber compute, and those of ControlBlock on   *)
(* queues of buffers and on the out-of-order store, for every width of the *)
(* sequence numbers and every size of the buffers.                         *)
(***************************************************************************)
EXTENDS ControlBlock, SequenceTheorems, WellFoundedInduction, TLAPS

----------------------------------------------------------------------------
(* Induction and recursive functions.  The library states induction for an *)
(* operator; here it is stated for the set of the numbers that satisfy it. *)

\* Every nonempty set of natural numbers has a least element.
LEMMA LeastNat ==
    ASSUME NEW T \in SUBSET Nat, T # {}
    PROVE  \E x \in T : \A y \in T : x <= y
<1>. DEFINE R == {ss \in Nat \X Nat : ss[1] < ss[2]}
<1>1. IsWellFoundedOn(R, Nat)
  BY NatLessThanWellFounded, Zenon DEF OpToRel
<1>2. \A m \in Nat, n \in Nat : m < n => << m, n >> \in R
  BY Zenon
<1>. HIDE DEF R
<1>3. PICK x \in T : \A y \in T : ~ (<< y, x >> \in R)
  BY <1>1, WFMin, Zenon
<1>4. \A y \in T : ~ (y < x)
  BY <1>2, <1>3, Zenon
<1>. QED  BY <1>4

\* A set that has 0 and with every number its successor has all of them.
LEMMA SetInduction ==
    ASSUME NEW S, 0 \in S, \A n \in Nat : n \in S => n + 1 \in S
    PROVE  Nat \subseteq S
<1>1. SUFFICES ASSUME Nat \ S # {} PROVE FALSE
  BY Zenon
<1>2. PICK x \in Nat \ S : \A y \in Nat \ S : x <= y
  BY <1>1, LeastNat, Zenon
<1>3. x # 0 /\ x - 1 \in Nat /\ x - 1 \in S
  BY <1>2
<1>. QED  BY <1>2, <1>3

\* The function F gives the value at i of a recursion from the one before.
IsStep(F, n, A, a0) == n \in Nat /\ a0 \in A /\ F \in [(1..n) \X A -> A]

Recursion(f, F, n, A, a0) ==
    f \in [0..n -> A] /\ f[0] = a0 /\ \A i \in 1..n : f[i] = F[<<i, f[i - 1]>>]

\* A recursion has a solution.
LEMMA RecursiveFunction ==
    ASSUME NEW A, NEW a0, NEW n, NEW F, IsStep(F, n, A, a0)
    PROVE  \E f : Recursion(f, F, n, A, a0)
<1>. USE DEF IsStep
<1>. DEFINE P(m, f) == f[0] = a0 /\ \A i \in 1..m : f[i] = F[<<i, f[i - 1]>>]
            S == {m \in Nat : m <= n => \E f \in [0..m -> A] : P(m, f)}
<1>1. 0 \in S
  <2>1. [i \in 0..0 |-> a0] \in [0..0 -> A] /\ P(0, [i \in 0..0 |-> a0])
    OBVIOUS
  <2>. QED  BY <2>1, Zenon
<1>2. ASSUME NEW m \in Nat, m \in S PROVE m + 1 \in S
  <2>. SUFFICES ASSUME m + 1 <= n PROVE \E f \in [0..(m + 1) -> A] : P(m + 1, f)
    OBVIOUS
  <2>1. PICK f \in [0..m -> A] : P(m, f)
    BY <1>2
  <2>. DEFINE v == F[<<m + 1, f[m]>>]
              g == [i \in 0..(m + 1) |-> IF i <= m THEN f[i] ELSE v]
  <2>2. v \in A
    BY <2>1
  <2>3. g \in [0..(m + 1) -> A]
    BY <2>1, <2>2
  <2>4. g[0] = a0
    BY <2>1
  <2>5. ASSUME NEW i \in 1..(m + 1) PROVE g[i] = F[<<i, g[i - 1]>>]
    <3>1. g[i - 1] = f[i - 1]
      OBVIOUS
    <3>2. CASE i <= m
      <4>1. i \in 1..m /\ g[i] = f[i]
        BY <3>2
      <4>. QED  BY <4>1, <3>1, <2>1, Zenon
    <3>3. CASE i = m + 1
      <4>1. g[i] = v /\ i - 1 = m
        BY <3>3
      <4>. QED  BY <4>1, <3>1, <3>3, Zenon
    <3>. QED  BY <3>2, <3>3
  <2>. QED  BY <2>3, <2>4, <2>5, Zenon
<1>3. n \in S
  <2>. HIDE DEF S
  <2>. QED  BY <1>1, <1>2, SetInduction, Zenon
<1>. QED  BY <1>3 DEF Recursion

----------------------------------------------------------------------------
(* Sequence numbers. *)

\* Sums and differences of sequence numbers are sequence numbers.
LEMMA SeqClosed ==
    ASSUME NEW a \in SeqNumbers, NEW b \in SeqNumbers
    PROVE  Plus(a, b) \in SeqNumbers /\ Minus(a, b) \in SeqNumbers
BY HalfAssumption DEF SeqNumbers, Modulus, Plus, Minus

\* A sequence number is found again from its distance to another one.
LEMMA MinusPlus ==
    ASSUME NEW a \in SeqNumbers, NEW n \in SeqNumbers
    PROVE  Minus(Plus(a, n), a) = n /\ Plus(a, Minus(n, a)) = n
BY HalfAssumption DEF SeqNumbers, Modulus, Plus, Minus

\* Lt compares offsets: two bytes of a stream less than half of the space
\* apart are ordered by lt as they are in the stream.
THEOREM LtComparesOffsets ==
    ASSUME NEW base \in SeqNumbers, NEW i \in 0..(Half - 1), NEW j \in 0..(Half - 1)
    PROVE  /\ Lt(Plus(base, i), Plus(base, j)) <=> i < j
           /\ Le(Plus(base, i), Plus(base, j)) <=> i =< j
           /\ Ge(Plus(base, i), Plus(base, j)) <=> i >= j
<1>1. Lt(Plus(base, i), Plus(base, j)) <=> i < j
  BY HalfAssumption DEF SeqNumbers, Modulus, Plus, Minus, Lt
<1>2. Plus(base, i) = Plus(base, j) <=> i = j
  BY HalfAssumption DEF SeqNumbers, Modulus, Plus
<1>. QED  BY <1>1, <1>2 DEF Le, Ge

\* The test with which receive decides that a segment starts inside the
\* window (ctrlblk.rs:413-429) holds of exactly the numbers the window spans.
THEOREM WindowTest ==
    ASSUME NEW nxt \in SeqNumbers, NEW wnd \in 1..(Half - 1), NEW x \in SeqNumbers
    PROVE  (Ge(x, nxt) /\ Lt(x, Plus(nxt, wnd))) <=> Minus(x, nxt) < wnd
BY HalfAssumption, SMTT(60) DEF SeqNumbers, Modulus, Plus, Minus, Lt, Ge

\* Below half of the space lt never holds in both directions; at exactly half
\* it does, which is why a window may not be that large.
THEOREM LtAsymmetric ==
    ASSUME NEW a \in SeqNumbers, NEW b \in SeqNumbers
    PROVE  (Lt(a, b) /\ Lt(b, a)) <=> Minus(a, b) = Half
BY HalfAssumption DEF SeqNumbers, Modulus, Minus, Lt

\* The sequence number of the byte at offset o of a stream whose SYN is isn.
At(isn, o) == Plus(isn, o + 1)

\* The offsets of a stream that fit in half of the space; -1 is the SYN.
Offsets == -1 .. (Half - 2)

\* At is one to one, lt and minus compare offsets.
LEMMA AtCompare ==
    ASSUME NEW isn \in SeqNumbers, NEW i \in Offsets, NEW j \in Offsets
    PROVE  /\ At(isn, i) \in SeqNumbers
           /\ At(isn, i) = At(isn, j) <=> i = j
           /\ Lt(At(isn, i), At(isn, j)) <=> i < j
           /\ Le(At(isn, i), At(isn, j)) <=> i <= j
           /\ Ge(At(isn, i), At(isn, j)) <=> i >= j
           /\ j <= i => Minus(At(isn, i), At(isn, j)) = i - j
<1>1. i + 1 \in 0..(Half - 1) /\ j + 1 \in 0..(Half - 1) /\ i \in Int /\ j \in Int
  BY HalfAssumption DEF Offsets
<1>2. Plus(isn, i + 1) = Plus(isn, j + 1) <=> i = j
  BY <1>1, HalfAssumption DEF SeqNumbers, Modulus, Plus
<1>3. j <= i => Minus(Plus(isn, i + 1), Plus(isn, j + 1)) = i - j
  BY <1>1, HalfAssumption DEF SeqNumbers, Modulus, Plus, Minus
<1>4. Plus(isn, i + 1) \in SeqNumbers
  BY <1>1, HalfAssumption DEF SeqNumbers, Modulus, Plus
<1>5. /\ Lt(At(isn, i), At(isn, j)) <=> i < j
      /\ Le(At(isn, i), At(isn, j)) <=> i <= j
      /\ Ge(At(isn, i), At(isn, j)) <=> i >= j
  BY <1>1, LtComparesOffsets DEF At
<1>. QED  BY <1>2, <1>3, <1>4, <1>5, Zenon DEF At

\* Adding to a sequence number, and taking away from it, moves the offset.
LEMMA AtMove ==
    ASSUME NEW isn \in SeqNumbers, NEW i \in Offsets, NEW k \in Nat
    PROVE  /\ i + k \in Offsets => Plus(At(isn, i), k) = At(isn, i + k)
           /\ i - k \in Offsets => Minus(At(isn, i), k) = At(isn, i - k)
BY HalfAssumption DEF At, Offsets, SeqNumbers, Modulus, Plus, Minus

----------------------------------------------------------------------------
(* Queues of buffers. *)

Bufs == [off : Nat, len : Nat]

\* q holds the bytes from offset from up to offset to of a stream, in order,
\* without gaps or repetitions.
Chain(q, from, to) ==
    /\ q \in Seq(Bufs)
    /\ IF q = << >> THEN from = to
       ELSE q[1].off = from /\ q[Len(q)].off + q[Len(q)].len = to
    /\ \A i \in 1 .. Len(q) - 1 : q[i + 1].off = q[i].off + q[i].len

\* The buffers of a queue.
LEMMA BufElement ==
    ASSUME NEW q \in Seq(Bufs)
    PROVE  /\ Len(q) \in Nat
           /\ q # << >> => Len(q) >= 1
           /\ \A i \in 1..Len(q) : q[i] \in Bufs /\ q[i].off \in Nat /\ q[i].len \in Nat
<1>1. Len(q) \in Nat /\ (q # << >> => Len(q) >= 1)
  OBVIOUS
<1>2. \A i \in 1..Len(q) : q[i] \in Bufs
  BY ElementOfSeq, Zenon
<1>3. \A buf \in Bufs : buf.off \in Nat /\ buf.len \in Nat
  BY Zenon DEF Bufs
<1>. QED  BY <1>1, <1>2, <1>3, Zenon

\* The recursion of TotalLen is well founded.
LEMMA TotalLenDef ==
    ASSUME NEW q \in Seq(Bufs)
    PROVE  \E sum \in [0..Len(q) -> Nat] :
              /\ sum[0] = 0
              /\ \A i \in 1..Len(q) : sum[i] = sum[i - 1] + q[i].len
              /\ TotalLen(q) = sum[Len(q)]
<1>. DEFINE n == Len(q)
            F == [x \in (1..n) \X Nat |-> x[2] + q[x[1]].len]
            Def(f) == [i \in 0..n |-> IF i = 0 THEN 0 ELSE f[i - 1] + q[i].len]
            sum == CHOOSE f : f = Def(f)
<1>1. n \in Nat /\ \A i \in 1..n : q[i].len \in Nat
  BY BufElement, Zenon
<1>2. IsStep(F, n, Nat, 0)
  BY <1>1 DEF IsStep
<1>3. \A i \in 1..n, k \in Nat : F[<<i, k>>] = k + q[i].len
  BY Zenon
<1>. HIDE DEF F, n
<1>4. PICK f \in [0..n -> Nat] : f[0] = 0 /\ \A i \in 1..n : f[i] = F[<<i, f[i - 1]>>]
  BY <1>2, RecursiveFunction DEF Recursion
<1>5. f = Def(f)
  <2>1. ASSUME NEW i \in 1..n PROVE f[i] = f[i - 1] + q[i].len
    <3>1. f[i - 1] \in Nat
      BY <1>1, <1>4
    <3>. QED  BY <3>1, <1>3, <1>4, Zenon
  <2>. QED  BY <2>1, <1>4
<1>6. sum = Def(sum)
  BY <1>5, Zenon
<1>7. TotalLen(q) = sum[n]
  BY Zenon DEF TotalLen, n
<1>. HIDE DEF sum
<1>8. sum[0] = 0 /\ \A i \in 1..n : sum[i] = sum[i - 1] + q[i].len
  BY <1>1, <1>6
<1>. DEFINE S == {i \in Nat : i <= n => sum[i] \in Nat}
<1>9. Nat \subseteq S
  <2>1. 0 \in S
    BY <1>8
  <2>2. ASSUME NEW i \in Nat, i \in S PROVE i + 1 \in S
    <3>. SUFFICES ASSUME i + 1 <= n PROVE sum[i + 1] \in Nat
      OBVIOUS
    <3>1. i + 1 \in 1..n /\ (i + 1) - 1 = i /\ sum[i] \in Nat
      BY <2>2, <1>1
    <3>2. sum[i + 1] = sum[(i + 1) - 1] + q[i + 1].len /\ q[i + 1].len \in Nat
      BY <3>1, <1>1, <1>8, Zenon
    <3>. QED  BY <3>1, <3>2
  <2>. HIDE DEF S
  <2>. QED  BY <2>1, <2>2, SetInduction, Zenon
<1>10. sum \in [0..n -> Nat]
  BY <1>6, <1>9, SMTT(30)
<1>. QED  BY <1>7, <1>8, <1>10, Zenon DEF n

\* The bytes of a chain are as many as the distance of its ends.
LEMMA ChainLen ==
    ASSUME NEW q, NEW from \in Nat, NEW to \in Nat, Chain(q, from, to)
    PROVE  /\ from <= to
           /\ TotalLen(q) = to - from
           /\ \A i \in 1..Len(q) : q[i].off >= from /\ q[i].off + q[i].len <= to
<1>. DEFINE n == Len(q)
<1>1. /\ q \in Seq(Bufs) /\ n \in Nat
      /\ \A i \in 1..n : q[i].off \in Nat /\ q[i].len \in Nat
      /\ q # << >> => n >= 1
  BY BufElement, Zenon DEF Chain
<1>2. PICK sum \in [0..n -> Nat] :
              /\ sum[0] = 0
              /\ \A i \in 1..n : sum[i] = sum[i - 1] + q[i].len
              /\ TotalLen(q) = sum[n]
  BY <1>1, TotalLenDef, Zenon
<1>3. CASE q = << >>
  BY <1>2, <1>3 DEF Chain
<1>4. CASE q # << >>
  <2>. HIDE DEF n
  <2>1. /\ n >= 1 /\ \A i \in 1..n : q[i].off \in Nat /\ q[i].len \in Nat
        /\ q[1].off = from /\ q[n].off + q[n].len = to
        /\ \A i \in 1..(n - 1) : q[i + 1].off = q[i].off + q[i].len
    BY <1>1, <1>4, Zenon DEF Chain, n
  <2>. DEFINE S == {i \in Nat : i + 1 <= n => q[i + 1].off = from + sum[i]}
  <2>2. 0 \in S
    BY <1>2, <2>1
  <2>3. ASSUME NEW i \in Nat, i \in S PROVE i + 1 \in S
    <3>. SUFFICES ASSUME i + 2 <= n PROVE q[i + 2].off = from + sum[i + 1]
      OBVIOUS
    <3>1. q[i + 2].off = q[i + 1].off + q[i + 1].len
      <4>1. i + 1 \in 1..(n - 1)
        BY <1>1
      <4>2. q[(i + 1) + 1].off = q[i + 1].off + q[i + 1].len
        BY <4>1, <2>1, Zenon
      <4>. QED  BY <4>2
    <3>2. q[i + 1].off = from + sum[i] /\ sum[i + 1] = sum[i] + q[i + 1].len
      <4>1. i + 1 \in 1..n /\ (i + 1) - 1 = i
        BY <1>1
      <4>. QED  BY <4>1, <2>3, <1>1, <1>2
    <3>3. sum[i] \in Nat /\ q[i + 1].len \in Nat
      <4>1. i + 1 \in 1..n /\ i \in 0..n
        BY <1>1
      <4>. QED  BY <4>1, <1>2, <2>1, Zenon
    <3>. QED  BY <3>1, <3>2, <3>3
  <2>4. Nat \subseteq S
    <3>. HIDE DEF S
    <3>. QED  BY <2>2, <2>3, SetInduction, Zenon
  <2>5. \A i \in 1..n : q[i].off = from + sum[i - 1] /\ q[i].off + q[i].len = from + sum[i]
    <3>. SUFFICES ASSUME NEW i \in 1..n
                  PROVE  q[i].off = from + sum[i - 1] /\ q[i].off + q[i].len = from + sum[i]
      BY Zenon
    <3>1. i - 1 \in S
      BY <2>4
    <3>2. q[i].off = from + sum[i - 1]
      BY <3>1
    <3>3. sum[i] = sum[i - 1] + q[i].len /\ sum[i - 1] \in Nat /\ q[i].len \in Nat
      <4>1. i - 1 \in 0..n
        BY <1>1
      <4>. QED  BY <4>1, <1>2, <2>1, Zenon
    <3>. QED  BY <3>2, <3>3
  <2>6. to = from + sum[n]
    <3>1. n \in 1..n
      BY <1>1, <2>1
    <3>. QED  BY <3>1, <2>1, <2>5, Zenon
  <2>. DEFINE T == {i \in Nat : i <= n => \A j \in 0..i : sum[j] <= sum[i]}
  <2>7. Nat \subseteq T
    <3>1. 0 \in T
      BY <1>2
    <3>2. ASSUME NEW i \in Nat, i \in T PROVE i + 1 \in T
      <4>. SUFFICES ASSUME i + 1 <= n, NEW j \in 0..(i + 1) PROVE sum[j] <= sum[i + 1]
        OBVIOUS
      <4>1. sum[i + 1] = sum[i] + q[i + 1].len /\ q[i + 1].len \in Nat /\ sum[i] \in Nat
        <5>1. i + 1 \in 1..n /\ (i + 1) - 1 = i /\ i \in 0..n
          BY <1>1
        <5>. QED  BY <5>1, <1>2, <2>1, Zenon
      <4>2. sum[j] \in Nat
        BY <1>1, <1>2
      <4>3. CASE j <= i
        <5>1. sum[j] <= sum[i]
          BY <3>2, <4>3, <1>1
        <5>. QED  BY <5>1, <4>1, <4>2, SMTT(30)
      <4>4. CASE j = i + 1
        BY <4>4, <4>2
      <4>. QED  BY <4>3, <4>4
    <3>. HIDE DEF T
    <3>. QED  BY <3>1, <3>2, SetInduction
  <2>8. \A j \in 0..n : sum[j] <= sum[n] /\ sum[j] \in Nat
    <3>1. n \in T /\ n \in 0..n
      BY <2>7, <1>1
    <3>2. \A j \in 0..n : sum[j] <= sum[n]
      BY <3>1, <1>1
    <3>. QED  BY <3>2, <1>2, Zenon
  <2>. HIDE DEF S, T
  <2>9. \A i \in 1..n : q[i].off >= from /\ q[i].off + q[i].len <= to
    <3>. SUFFICES ASSUME NEW i \in 1..n
                  PROVE  q[i].off >= from /\ q[i].off + q[i].len <= to
      BY Zenon
    <3>1. i - 1 \in 0..n /\ i \in 0..n
      BY <1>1
    <3>2. /\ q[i].off = from + sum[i - 1] /\ sum[i - 1] \in Nat
          /\ q[i].off + q[i].len = from + sum[i] /\ sum[i] <= sum[n] /\ sum[i] \in Nat /\ sum[n] \in Nat
      BY <3>1, <2>5, <2>8, <1>2, <1>1, SMTT(30)
    <3>. QED  BY <3>2, <2>6, SMTT(30)
  <2>10. sum[n] \in Nat
    BY <1>1, <1>2
  <2>. QED  BY <2>6, <2>9, <2>10, <1>2 DEF n
<1>. QED  BY <1>3, <1>4, Zenon

\* A buffer that starts where the chain ends makes it longer.
LEMMA ChainAppend ==
    ASSUME NEW q, NEW from \in Nat, NEW to \in Nat, Chain(q, from, to),
           NEW buf \in Bufs, buf.off = to
    PROVE  Chain(Append(q, buf), from, to + buf.len)
<1>1. q \in Seq(Bufs) /\ Len(q) \in Nat
  BY DEF Chain
<1>2. /\ Append(q, buf) \in Seq(Bufs) /\ Len(Append(q, buf)) = Len(q) + 1
      /\ Append(q, buf)[Len(q) + 1] = buf
      /\ \A i \in 1..Len(q) : Append(q, buf)[i] = q[i]
      /\ Append(q, buf) # << >>
  BY <1>1, AppendProperties
<1>. DEFINE r == Append(q, buf)
<1>. HIDE DEF r
<1>3. r[1].off = from
  <2>1. CASE q = << >>
    BY <2>1, <1>2 DEF Chain, r
  <2>2. CASE q # << >>
    BY <2>2, <1>1, <1>2 DEF Chain, r
  <2>. QED  BY <2>1, <2>2, Zenon
<1>4. ASSUME NEW i \in 1 .. Len(q) PROVE r[i + 1].off = r[i].off + r[i].len
  <2>1. CASE i = Len(q)
    BY <2>1, <1>1, <1>2 DEF Chain, r
  <2>2. CASE i < Len(q)
    <3>1. i \in 1 .. Len(q) - 1 /\ i + 1 \in 1..Len(q)
      BY <2>2, <1>1
    <3>. QED  BY <3>1, <1>2, Zenon DEF Chain, r
  <2>. QED  BY <2>1, <2>2, <1>1
<1>. QED  BY <1>1, <1>2, <1>3, <1>4 DEF Chain, r

\* Two chains that meet make one.
LEMMA ChainConcat ==
    ASSUME NEW q, NEW r, NEW from \in Nat, NEW mid \in Nat, NEW to \in Nat,
           Chain(q, from, mid), Chain(r, mid, to)
    PROVE  Chain(q \o r, from, to)
<1>. DEFINE s == q \o r
<1>1. q \in Seq(Bufs) /\ r \in Seq(Bufs) /\ Len(q) \in Nat /\ Len(r) \in Nat
  BY DEF Chain
<1>2. /\ s \in Seq(Bufs)
      /\ Len(s) = Len(q) + Len(r)
      /\ \A i \in 1 .. Len(q) : s[i] = q[i]
      /\ \A i \in 1 .. Len(r) : s[Len(q) + i] = r[i]
  BY <1>1, ConcatProperties
<1>. HIDE DEF s
<1>3. CASE q = << >>
  BY <1>3, <1>1, ConcatEmptySeq, Zenon DEF Chain, s
<1>4. CASE r = << >>
  BY <1>4, <1>1, ConcatEmptySeq, Zenon DEF Chain, s
<1>5. CASE q # << >> /\ r # << >>
  <2>1. Len(q) >= 1 /\ Len(r) >= 1 /\ s # << >>
    BY <1>1, <1>2, <1>5
  <2>2. s[1].off = from /\ s[Len(s)].off + s[Len(s)].len = to
    <3>1. s[1] = q[1] /\ s[Len(s)] = r[Len(r)]
      <4>1. Len(r) \in 1 .. Len(r) /\ 1 \in 1 .. Len(q)
        BY <2>1, <1>1
      <4>. QED  BY <4>1, <1>2, Zenon
    <3>. QED  BY <3>1, <1>5, Zenon DEF Chain
  <2>3. ASSUME NEW i \in 1 .. Len(s) - 1 PROVE s[i + 1].off = s[i].off + s[i].len
    <3>1. CASE i < Len(q)
      <4>1. i \in 1 .. Len(q) - 1 /\ i + 1 \in 1 .. Len(q) /\ i \in 1 .. Len(q)
        BY <3>1, <1>1
      <4>. QED  BY <4>1, <1>2, Zenon DEF Chain
    <3>2. CASE i = Len(q)
      <4>1. s[i] = q[Len(q)] /\ s[i + 1] = r[1]
        BY <3>2, <2>1, <1>1, <1>2
      <4>. QED  BY <4>1, <1>5, Zenon DEF Chain
    <3>3. CASE i > Len(q)
      <4>. DEFINE j == i - Len(q)
      <4>1. j \in 1 .. Len(r) - 1 /\ j \in 1 .. Len(r) /\ j + 1 \in 1 .. Len(r)
        BY <3>3, <1>1, <1>2
      <4>2. s[i] = r[j] /\ s[i + 1] = r[j + 1]
        <5>1. i = Len(q) + j /\ i + 1 = Len(q) + (j + 1)
          BY <1>1, <1>2
        <5>. HIDE DEF j
        <5>. QED  BY <5>1, <4>1, <1>2, Zenon
      <4>. HIDE DEF j
      <4>. QED  BY <4>1, <4>2, Zenon DEF Chain
    <3>. QED  BY <3>1, <3>2, <3>3, <1>1, <1>2
  <2>. QED  BY <2>1, <2>2, <2>3, <1>2, Zenon DEF Chain, s
<1>. QED  BY <1>3, <1>4, <1>5, Zenon

\* Without its first buffer a chain starts where that one ended.
LEMMA ChainTail ==
    ASSUME NEW q, NEW from \in Nat, NEW to \in Nat, Chain(q, from, to), q # << >>
    PROVE  /\ Head(q) = q[1] /\ q[1] \in Bufs /\ q[1].off = from
           /\ Chain(Tail(q), from + q[1].len, to)
<1>1. q \in Seq(Bufs) /\ Len(q) \in Nat /\ Len(q) >= 1
  BY BufElement, Zenon DEF Chain
<1>2. /\ Tail(q) \in Seq(Bufs) /\ Len(Tail(q)) = Len(q) - 1
      /\ \A i \in 1 .. Len(q) - 1 : Tail(q)[i] = q[i + 1]
  BY <1>1, HeadTailProperties, Zenon
<1>3. Head(q) = q[1] /\ q[1] \in Bufs
  BY <1>1
<1>. DEFINE t == Tail(q)
<1>. HIDE DEF t
<1>4. ASSUME NEW i \in 1 .. Len(t) - 1 PROVE t[i + 1].off = t[i].off + t[i].len
  <2>1. i \in 1 .. Len(q) - 1 /\ i + 1 \in 1 .. Len(q) - 1
    BY <1>1, <1>2 DEF t
  <2>2. t[i] = q[i + 1] /\ t[i + 1] = q[(i + 1) + 1]
    BY <2>1, <1>2, Zenon DEF t
  <2>. QED  BY <2>1, <2>2, SMTT(30) DEF Chain
<1>5. CASE Len(q) = 1
  <2>1. t = << >>
    <3>1. Len(t) = 0 /\ t \in Seq(Bufs)
      BY <1>5, <1>2 DEF t
    <3>. QED  BY <3>1, EmptySeq, Zenon
  <2>2. from + q[1].len = to
    BY <1>5, <1>1, Zenon DEF Chain
  <2>. QED  BY <2>1, <2>2, <1>2, <1>3, <1>4, Zenon DEF Chain, t
<1>6. CASE Len(q) # 1
  <2>1. Len(q) - 1 >= 1
    <3>1. \A n \in Nat : n >= 1 /\ n # 1 => n - 1 >= 1
      OBVIOUS
    <3>. QED  BY <3>1, <1>1, <1>6, Zenon
  <2>2. t # << >> /\ t[1] = q[2] /\ t[Len(t)] = q[Len(q)]
    <3>1. Len(t) = Len(q) - 1 /\ t \in Seq(Bufs) /\ Len(t) >= 1
      BY <1>6, <1>1, <1>2 DEF t
    <3>2. t # << >>
      BY <3>1, EmptySeq
    <3>3. 1 \in 1 .. Len(q) - 1 /\ Len(t) \in 1 .. Len(q) - 1
      BY <3>1, <1>1
    <3>4. t[1] = q[1 + 1] /\ t[Len(t)] = q[Len(t) + 1]
      BY <3>3, <1>2, Zenon DEF t
    <3>. QED  BY <3>1, <3>2, <3>4, <1>1
  <2>3. q[1 + 1].off = q[1].off + q[1].len
    <3>1. 1 \in 1 .. Len(q) - 1
      BY <2>1, <1>1
    <3>. QED  BY <3>1, Zenon DEF Chain
  <2>4. q[2].off = from + q[1].len
    BY <2>3 DEF Chain
  <2>5. q[1].off = from /\ q[Len(q)].off + q[Len(q)].len = to
    BY Zenon DEF Chain
  <2>6. Chain(t, from + q[1].len, to)
    BY <2>2, <2>4, <2>5, <1>2, <1>4, SMTT(30) DEF Chain, t
  <2>. QED  BY <2>5, <2>6, <1>3, Zenon DEF t
<1>. QED  BY <1>5, <1>6, Zenon

----------------------------------------------------------------------------
(* The out-of-order store. *)

Entries == [start : SeqNumbers, buf : Bufs]

\* Bytes of the stream below offset lim, filed under their sequence numbers.
StreamEntries(isn, lim) ==
    {e \in Entries : /\ e.buf.len > 0
                     /\ e.start = At(isn, e.buf.off)
                     /\ e.buf.off + e.buf.len <= lim}

Todos == {"scan", "insert", "replace", "append", "drop"}

ScanRecords == [start : SeqNumbers, end : SeqNumbers, buf : Bufs, index : Nat, todo : Todos]

\* The same of the segment that store_out_of_order_segment finds a place for.
Scans(isn, lim) ==
    {a \in ScanRecords :
        /\ a.buf.len > 0
        /\ a.start = At(isn, a.buf.off)
        /\ a.end = At(isn, a.buf.off + a.buf.len - 1)
        /\ a.buf.off + a.buf.len <= lim}

\* The offsets that the comparisons of a scan are about.
LEMMA ScanOffsets ==
    ASSUME NEW isn \in SeqNumbers, NEW lim \in Nat, lim < Half - 1,
           NEW acc \in Scans(isn, lim), NEW entry \in StreamEntries(isn, lim)
    PROVE  LET s == acc.buf.off
               e == acc.buf.off + acc.buf.len - 1
               es == entry.buf.off
               ee == entry.buf.off + entry.buf.len - 1
           IN  /\ {s, e, es, ee} \subseteq Offsets /\ {s, e, es, ee} \subseteq Nat
               /\ acc.start = At(isn, s) /\ acc.end = At(isn, e)
               /\ entry.start = At(isn, es) /\ StoredEnd(entry) = At(isn, ee)
               /\ s <= e /\ es <= ee /\ e < lim /\ ee < lim
<1>1. /\ acc.buf.off \in Nat /\ acc.buf.len \in Nat /\ acc.buf.len > 0
      /\ acc.buf.off + acc.buf.len <= lim
      /\ acc.start = At(isn, acc.buf.off)
      /\ acc.end = At(isn, acc.buf.off + acc.buf.len - 1)
  BY Zenon DEF Scans, ScanRecords, Bufs
<1>2. /\ entry.buf.off \in Nat /\ entry.buf.len \in Nat /\ entry.buf.len > 0
      /\ entry.buf.off + entry.buf.len <= lim
      /\ entry.start = At(isn, entry.buf.off)
  BY Zenon DEF StreamEntries, Entries, Bufs
<1>3. /\ entry.buf.off \in Offsets /\ entry.buf.len - 1 \in Nat
      /\ entry.buf.off + (entry.buf.len - 1) \in Offsets
  BY <1>2, HalfAssumption DEF Offsets
<1>4. StoredEnd(entry) = At(isn, entry.buf.off + (entry.buf.len - 1))
  BY <1>2, <1>3, AtMove DEF StoredEnd
<1>5. entry.buf.off + (entry.buf.len - 1) = entry.buf.off + entry.buf.len - 1
  BY <1>2, Zenon
<1>6. acc.buf.off \in Offsets /\ acc.buf.off + acc.buf.len - 1 \in Offsets
  BY <1>1, HalfAssumption DEF Offsets
<1>. QED  BY <1>1, <1>2, <1>3, <1>4, <1>5, <1>6

\* A step of the scan keeps the bytes that are left at their sequence numbers:
\* what it cuts off the front or the end is in the store.
LEMMA ScanEntryKeeps ==
    ASSUME NEW isn \in SeqNumbers, NEW lim \in Nat, lim < Half - 1,
           NEW acc \in Scans(isn, lim), NEW entry \in StreamEntries(isn, lim)
    PROVE  LET r == ScanEntry(acc, entry)
           IN  /\ r \in Scans(isn, lim)
               /\ r.index \in {acc.index, acc.index + 1}
               /\ acc.todo # "scan" => r = acc
               /\ acc.todo = "scan" /\ r.todo \in {"insert", "replace"} => r.index = acc.index + 1
<1>. DEFINE s == acc.buf.off
            e == acc.buf.off + acc.buf.len - 1
            es == entry.buf.off
            ee == entry.buf.off + entry.buf.len - 1
            r == ScanEntry(acc, entry)
            overlap == Minus(StoredEnd(entry), acc.start)
            excess == Minus(acc.end, entry.start) + 1
<1>1. /\ s \in Offsets /\ e \in Offsets /\ es \in Offsets /\ ee \in Offsets
      /\ s \in Nat /\ e \in Nat /\ es \in Nat /\ ee \in Nat
      /\ acc.start = At(isn, s) /\ acc.end = At(isn, e)
      /\ entry.start = At(isn, es) /\ StoredEnd(entry) = At(isn, ee)
      /\ s <= e /\ es <= ee /\ e < lim /\ ee < lim
  BY ScanOffsets
<1>2. /\ acc.index \in Nat /\ acc.todo \in Todos /\ acc.buf \in Bufs
      /\ acc.buf.off \in Nat /\ acc.buf.len \in Nat /\ acc.buf.len > 0
  BY Zenon DEF Scans, ScanRecords, Bufs
<1>3. /\ Lt(acc.start, entry.start) <=> s < es
      /\ Lt(acc.end, entry.start) <=> e < es
      /\ Lt(StoredEnd(entry), acc.end) <=> ee < e
      /\ Le(acc.end, StoredEnd(entry)) <=> e <= ee
      /\ Lt(StoredEnd(entry), acc.start) <=> ee < s
  <2>. HIDE DEF s, e, es, ee
  <2>. QED  BY <1>1, AtCompare
<1>. DEFINE Same(x) == x.buf = acc.buf /\ x.start = acc.start /\ x.end = acc.end
<1>4. ASSUME NEW x \in ScanRecords, Same(x) PROVE x \in Scans(isn, lim)
  BY <1>4, Zenon DEF Scans
<1>5. acc \in ScanRecords
  BY Zenon DEF Scans
<1>6. "insert" \in Todos /\ "replace" \in Todos /\ "append" \in Todos /\ "drop" \in Todos
  BY Zenon DEF Todos
<1>7. acc.index + 1 \in Nat
  BY <1>2
<1>8. CASE acc.todo # "scan"
  BY <1>8, <1>2, Zenon DEF ScanEntry
<1>9. CASE acc.todo = "scan" /\ s < es /\ e < es
  <2>1. r = [acc EXCEPT !.todo = "insert", !.index = acc.index + 1]
    BY <1>3, <1>9, Zenon DEF ScanEntry
  <2>2. r \in ScanRecords /\ Same(r) /\ r.todo = "insert" /\ r.index = acc.index + 1
    BY <2>1, <1>5, <1>6, <1>7, Zenon DEF ScanRecords
  <2>. QED  BY <2>2, <1>9, <1>4, Zenon
<1>10. CASE acc.todo = "scan" /\ s < es /\ ~ (e < es) /\ ee < e
  <2>1. r = [acc EXCEPT !.todo = "replace", !.index = acc.index + 1]
    BY <1>3, <1>10, Zenon DEF ScanEntry
  <2>2. r \in ScanRecords /\ Same(r) /\ r.todo = "replace" /\ r.index = acc.index + 1
    BY <2>1, <1>5, <1>6, <1>7, Zenon DEF ScanRecords
  <2>. QED  BY <2>2, <1>10, <1>4, Zenon
<1>11. CASE acc.todo = "scan" /\ s < es /\ ~ (e < es) /\ ~ (ee < e)
  <2>1. r = [acc EXCEPT !.todo = "append", !.buf = trim(acc.buf, excess),
                        !.end = Minus(acc.end, excess)]
    BY <1>3, <1>11, Zenon DEF ScanEntry
  <2>2. excess = e - es + 1
    <3>. HIDE DEF s, e, es, ee
    <3>. QED  BY <1>1, <1>11, AtCompare
  <2>3. Minus(acc.end, excess) = At(isn, es - 1) /\ At(isn, es - 1) \in SeqNumbers
    <3>1. e - es + 1 \in Nat /\ e - (e - es + 1) = es - 1 /\ es - 1 \in Offsets
      BY <1>1, <1>11, HalfAssumption DEF Offsets
    <3>. HIDE DEF s, e, es, ee, excess
    <3>. QED  BY <3>1, <2>2, <1>1, AtMove, AtCompare
  <2>4. trim(acc.buf, excess) = [off |-> s, len |-> es - s]
    <3>1. acc.buf.len - (e - es + 1) = es - s
      BY <1>1, <1>2
    <3>. QED  BY <3>1, <2>2, Zenon DEF trim, Buf
  <2>5. r = [acc EXCEPT !.todo = "append", !.buf = [off |-> s, len |-> es - s],
                        !.end = At(isn, es - 1)]
    BY <2>1, <2>3, <2>4, Zenon
  <2>6. [off |-> s, len |-> es - s] \in Bufs /\ es - s > 0 /\ s + (es - s) - 1 = es - 1 /\ s + (es - s) <= lim
    BY <1>1, <1>11 DEF Bufs
  <2>. HIDE DEF s, e, es, ee, excess
  <2>7. r \in ScanRecords
    BY <2>3, <2>5, <2>6, <1>5, <1>6, Zenon DEF ScanRecords
  <2>8. /\ r.buf = [off |-> s, len |-> es - s] /\ r.start = acc.start /\ r.end = At(isn, es - 1)
        /\ r.todo = "append" /\ r.index = acc.index
    BY <2>5, <1>5, Zenon DEF ScanRecords
  <2>9. r.buf.off = s /\ r.buf.len = es - s
    BY <2>8
  <2>. QED  BY <2>6, <2>7, <2>8, <2>9, <1>1, <1>11, Zenon DEF Scans
<1>12. CASE acc.todo = "scan" /\ ~ (s < es) /\ e <= ee
  <2>1. r = [acc EXCEPT !.todo = "drop"]
    BY <1>3, <1>12, Zenon DEF ScanEntry
  <2>2. r \in ScanRecords /\ Same(r) /\ r.todo = "drop" /\ r.index = acc.index
    BY <2>1, <1>5, <1>6, Zenon DEF ScanRecords
  <2>. QED  BY <2>2, <1>12, <1>4, Zenon
<1>13. CASE acc.todo = "scan" /\ ~ (s < es) /\ ~ (e <= ee) /\ ee < s
  <2>1. r = [acc EXCEPT !.index = acc.index + 1]
    BY <1>3, <1>13, Zenon DEF ScanEntry
  <2>2. r \in ScanRecords /\ Same(r) /\ r.todo = acc.todo /\ r.index = acc.index + 1
    BY <2>1, <1>5, <1>7, Zenon DEF ScanRecords
  <2>. QED  BY <2>2, <1>13, <1>4, Zenon
<1>14. CASE acc.todo = "scan" /\ ~ (s < es) /\ ~ (e <= ee) /\ ~ (ee < s)
  <2>1. r = [acc EXCEPT !.index = acc.index + 1, !.start = Plus(acc.start, overlap),
                        !.buf = adjust(acc.buf, overlap)]
    BY <1>3, <1>14, Zenon DEF ScanEntry
  <2>2. overlap = ee - s
    <3>. HIDE DEF s, e, es, ee
    <3>. QED  BY <1>1, <1>14, AtCompare
  <2>3. Plus(acc.start, overlap) = At(isn, ee) /\ At(isn, ee) \in SeqNumbers
    <3>1. ee - s \in Nat /\ s + (ee - s) = ee
      BY <1>1, <1>14
    <3>. HIDE DEF s, e, es, ee, overlap
    <3>. QED  BY <3>1, <2>2, <1>1, AtMove, AtCompare
  <2>4. adjust(acc.buf, overlap) = [off |-> ee, len |-> e - ee + 1]
    BY <2>2, <1>1, <1>2 DEF adjust, Buf
  <2>5. r = [acc EXCEPT !.index = acc.index + 1, !.start = At(isn, ee),
                        !.buf = [off |-> ee, len |-> e - ee + 1]]
    BY <2>1, <2>3, <2>4, Zenon
  <2>6. [off |-> ee, len |-> e - ee + 1] \in Bufs /\ e - ee + 1 > 0 /\ ee + (e - ee + 1) - 1 = e /\ ee + (e - ee + 1) <= lim
    BY <1>1, <1>14 DEF Bufs
  <2>. HIDE DEF s, e, es, ee, overlap
  <2>7. r \in ScanRecords
    BY <2>3, <2>5, <2>6, <1>5, <1>7, Zenon DEF ScanRecords
  <2>8. /\ r.buf = [off |-> ee, len |-> e - ee + 1] /\ r.start = At(isn, ee) /\ r.end = acc.end
        /\ r.todo = "scan" /\ r.index = acc.index + 1
    BY <2>5, <1>14, <1>5, Zenon DEF ScanRecords
  <2>9. r.buf.off = ee /\ r.buf.len = e - ee + 1
    BY <2>8
  <2>. QED  BY <2>6, <2>7, <2>8, <2>9, <1>1, <1>14, Zenon DEF Scans
<1>. QED  BY <1>8, <1>9, <1>10, <1>11, <1>12, <1>13, <1>14, Zenon

\* A pass over the store ends with a segment that is still part of the stream,
\* and with the index of an entry when there is one to insert at or replace.
LEMMA ScanStoreKeeps ==
    ASSUME NEW isn \in SeqNumbers, NEW lim \in Nat, lim < Half - 1,
           NEW q \in Seq(StreamEntries(isn, lim)),
           NEW new \in Scans(isn, lim), new.index = 0, new.todo = "scan"
    PROVE  /\ ScanStore(q, new) \in Scans(isn, lim)
           /\ ScanStore(q, new).todo \in {"insert", "replace"}
                 => ScanStore(q, new).index \in 1..Len(q)
<1>. DEFINE n == Len(q)
            A == Scans(isn, lim)
            F == [x \in (1..n) \X A |-> ScanEntry(x[2], q[x[1]])]
            Def(f) == [i \in 0..n |-> IF i = 0 THEN new ELSE ScanEntry(f[i - 1], q[i])]
            scan == CHOOSE f : f = Def(f)
<1>1. n \in Nat /\ \A i \in 1..n : q[i] \in StreamEntries(isn, lim)
  BY ElementOfSeq
<1>2. \A a \in A, i \in 1..n : ScanEntry(a, q[i]) \in A
  BY <1>1, ScanEntryKeeps, Zenon
<1>. HIDE DEF A, n
<1>3. IsStep(F, n, A, new)
  <2>1. F \in [(1..n) \X A -> A]
    BY <1>2, Zenon
  <2>. QED  BY <2>1, <1>1, Zenon DEF IsStep, A
<1>4. \A i \in 1..n, a \in A : F[<<i, a>>] = ScanEntry(a, q[i])
  BY Zenon
<1>. HIDE DEF F
<1>5. PICK f : Recursion(f, F, n, A, new)
  BY <1>3, RecursiveFunction, Zenon
<1>6. f = Def(f)
  <2>1. f \in [0..n -> A] /\ f[0] = new /\ \A i \in 1..n : f[i] = F[<<i, f[i - 1]>>]
    BY <1>5, Zenon DEF Recursion
  <2>2. ASSUME NEW i \in 1..n PROVE f[i] = ScanEntry(f[i - 1], q[i])
    <3>1. f[i - 1] \in A
      BY <1>1, <2>1
    <3>. QED  BY <3>1, <1>4, <2>1, Zenon
  <2>3. \A i \in 0..n : f[i] = Def(f)[i]
    BY <2>1, <2>2, <1>1
  <2>. QED  BY <2>1, <2>3, ZenonT(30)
<1>7. scan = Def(scan)
  BY <1>6, Zenon
<1>8. ScanStore(q, new) = scan[n]
  BY Zenon DEF ScanStore, n
<1>. HIDE DEF scan
<1>9. scan[0] = new /\ \A i \in 1..n : scan[i] = ScanEntry(scan[i - 1], q[i])
  BY <1>1, <1>7
<1>. DEFINE Good(i) == /\ scan[i] \in A
                       /\ scan[i].index \in Nat /\ scan[i].index <= i
                       /\ scan[i].todo \in {"insert", "replace"} => scan[i].index >= 1
            S == {i \in Nat : i <= n => Good(i)}
<1>10. 0 \in S
  <2>1. new \in A
    BY Zenon DEF A
  <2>. QED  BY <2>1, <1>9
<1>11. ASSUME NEW i \in Nat, i \in S PROVE i + 1 \in S
  <2>. SUFFICES ASSUME i + 1 <= n PROVE Good(i + 1)
    OBVIOUS
  <2>1. Good(i) /\ i + 1 \in 1..n /\ (i + 1) - 1 = i
    BY <1>1, <1>11
  <2>2. scan[i + 1] = ScanEntry(scan[i], q[i + 1])
    BY <2>1, <1>9, Zenon
  <2>3. /\ scan[i + 1] \in A
        /\ scan[i + 1].index \in {scan[i].index, scan[i].index + 1}
        /\ scan[i].todo # "scan" => scan[i + 1] = scan[i]
        /\ scan[i].todo = "scan" /\ scan[i + 1].todo \in {"insert", "replace"}
              => scan[i + 1].index = scan[i].index + 1
    BY <2>1, <2>2, <1>1, ScanEntryKeeps, SMTT(30) DEF A
  <2>. QED  BY <2>1, <2>3, SMTT(30)
<1>12. n \in S
  <2>. HIDE DEF S
  <2>. QED  BY <1>1, <1>10, <1>11, SetInduction, Zenon
<1>13. Good(n)
  BY <1>1, <1>12
<1>. QED  BY <1>1, <1>8, <1>13 DEF A, n

\* Taking out and inserting an element, with SequencesExt.
LEMMA RemoveAtSeq ==
    ASSUME NEW S, NEW q \in Seq(S), NEW i \in 1..Len(q)
    PROVE  remove(q, i) \in Seq(S) /\ Len(remove(q, i)) = Len(q) - 1
<1>. DEFINE a == SubSeq(q, 1, i - 1)
            b == SubSeq(q, i + 1, Len(q))
            r == a \o b
<1>1. Len(q) \in Nat
  OBVIOUS
<1>2. a \in Seq(S) /\ Len(a) = i - 1
  <2>1. i - 1 \in Int /\ \A j \in 1..(i - 1) : q[j] \in S
    BY <1>1, ElementOfSeq
  <2>2. a \in Seq(S) /\ Len(a) = IF 1 <= i - 1 THEN i - 1 - 1 + 1 ELSE 0
    BY <2>1, SubSeqProperties
  <2>. QED  BY <2>2
<1>3. b \in Seq(S) /\ Len(b) = Len(q) - i
  <2>1. i + 1 \in Int /\ Len(q) \in Int /\ \A j \in (i + 1)..Len(q) : q[j] \in S
    BY <1>1, ElementOfSeq
  <2>2. b \in Seq(S) /\ Len(b) = IF i + 1 <= Len(q) THEN Len(q) - (i + 1) + 1 ELSE 0
    BY <2>1, SubSeqProperties
  <2>. QED  BY <2>2, <1>1
<1>4. remove(q, i) = r
  BY Zenon DEF remove
<1>. HIDE DEF a, b
<1>5. r \in Seq(S) /\ Len(r) = Len(a) + Len(b)
  BY <1>2, <1>3, ConcatProperties, Zenon
<1>. HIDE DEF r
<1>. QED  BY <1>1, <1>2, <1>3, <1>4, <1>5

\* insert of an element into a sequence over the same set.
LEMMA InsertAtSeq ==
    ASSUME NEW S, NEW q \in Seq(S), NEW i \in 1..Len(q), NEW e \in S
    PROVE  insert(q, i, e) \in Seq(S)
<1>. DEFINE a == SubSeq(q, 1, i - 1)
            c == SubSeq(q, i, Len(q))
            d == a \o <<e>>
<1>1. Len(q) \in Nat
  OBVIOUS
<1>2. a \in Seq(S)
  <2>1. i - 1 \in Int /\ \A j \in 1..(i - 1) : q[j] \in S
    BY <1>1, ElementOfSeq
  <2>. QED  BY <2>1, SubSeqProperties
<1>3. c \in Seq(S)
  <2>1. i \in Int /\ Len(q) \in Int /\ \A j \in i..Len(q) : q[j] \in S
    BY <1>1, ElementOfSeq
  <2>. QED  BY <2>1, SubSeqProperties, Zenon
<1>4. insert(q, i, e) = d \o c
  BY Zenon DEF insert
<1>. HIDE DEF a, c
<1>5. d \in Seq(S)
  BY <1>2, ConcatProperties
<1>. HIDE DEF d
<1>. QED  BY <1>3, <1>4, <1>5, ConcatProperties, Zenon

\* The passes leave entries of the stream, no more than there were, and a
\* segment of the stream; the last one does not end at an entry to replace
\* unless the store is empty.
LEMMA ScanPassesKeeps ==
    ASSUME NEW isn \in SeqNumbers, NEW lim \in Nat, lim < Half - 1,
           NEW q \in Seq(StreamEntries(isn, lim)),
           NEW new \in Scans(isn, lim), new.index = 0, new.todo = "scan"
    PROVE  LET last == ScanPasses(q, new)
           IN  /\ last.q \in Seq(StreamEntries(isn, lim)) /\ Len(last.q) <= Len(q)
               /\ last.acc \in Scans(isn, lim)
               /\ last.acc.todo = "insert" => last.acc.index \in 1..Len(last.q)
<1>. DEFINE n == Len(q)
            SE == StreamEntries(isn, lim)
            Acc == Scans(isn, lim)
            Good(p) == /\ Len(p.q) <= n
                       /\ p.acc.todo \in {"insert", "replace"} => p.acc.index \in 1..Len(p.q)
            A == {p \in [q : Seq(SE), acc : Acc] : Good(p)}
            Rest(p) == remove(p.q, p.acc.index)
            Again(p) == [p.acc EXCEPT !.index = 0, !.todo = "scan"]
            Pass(p) == IF p.acc.todo # "replace" THEN p
                       ELSE [q |-> Rest(p), acc |-> ScanStore(Rest(p), Again(p))]
            first == [q |-> q, acc |-> ScanStore(q, new)]
            F == [x \in (1..n) \X A |-> Pass(x[2])]
            Def(f) == [k \in 0..n |-> IF k = 0 THEN first ELSE Pass(f[k - 1])]
            pass == CHOOSE f : f = Def(f)
<1>1. n \in Nat
  OBVIOUS
<1>2. first \in A
  <2>1. ScanStore(q, new) \in Acc
        /\ (ScanStore(q, new).todo \in {"insert", "replace"} => ScanStore(q, new).index \in 1..Len(q))
    BY ScanStoreKeeps, Zenon
  <2>. QED  BY <2>1, <1>1
<1>3. ASSUME NEW p \in A PROVE Pass(p) \in A
  <2>. SUFFICES ASSUME p.acc.todo = "replace" PROVE [q |-> Rest(p), acc |-> ScanStore(Rest(p), Again(p))] \in A
    BY Zenon
  <2>1. p.q \in Seq(SE) /\ p.acc \in Acc /\ p.acc.index \in 1..Len(p.q) /\ Len(p.q) <= n
    BY Zenon
  <2>2. Rest(p) \in Seq(SE) /\ Len(Rest(p)) <= n
    <3>1. p.q[p.acc.index] \in SE
      BY <2>1, ElementOfSeq, Zenon
    <3>. DEFINE r == p.q
                i == p.acc.index
                T == SE
    <3>2. Rest(p) \in Seq(SE) /\ Len(Rest(p)) = Len(p.q) - 1
      <4>1. r \in Seq(T) /\ i \in 1..Len(r) /\ r[i] \in T
        BY <2>1, <3>1, Zenon
      <4>2. Rest(p) = remove(r, i)
        BY Zenon
      <4>. HIDE DEF r, i, T, Rest, A, n
      <4>3. Rest(p) \in Seq(T) /\ Len(Rest(p)) = Len(r) - 1
        BY <4>1, <4>2, RemoveAtSeq, Zenon
      <4>. QED  BY <4>3, Zenon DEF r, T
    <3>3. Len(p.q) \in Nat
      BY <2>1
    <3>. HIDE DEF n, Rest
    <3>. QED  BY <2>1, <3>2, <3>3, <1>1
  <2>3. Again(p) \in Acc /\ Again(p).index = 0 /\ Again(p).todo = "scan"
    BY <2>1, Zenon DEF Scans, ScanRecords, Todos
  <2>4. ScanStore(Rest(p), Again(p)) \in Acc
        /\ (ScanStore(Rest(p), Again(p)).todo \in {"insert", "replace"}
              => ScanStore(Rest(p), Again(p)).index \in 1..Len(Rest(p)))
    <3>. HIDE DEF Rest, Again
    <3>. QED  BY <2>2, <2>3, ScanStoreKeeps, Zenon
  <2>. HIDE DEF Rest, Again
  <2>. QED  BY <2>2, <2>4, Zenon
<1>4. ScanPasses(q, new) = pass[n]
  BY Zenon DEF ScanPasses
<1>5. \A p \in A : p.q \in Seq(SE) /\ Len(p.q) <= n /\ p.acc \in Acc /\ (p.acc.todo = "insert" => p.acc.index \in 1..Len(p.q))
  BY Zenon
<1>. HIDE DEF A, n, Pass, first
<1>6. IsStep(F, n, A, first)
  <2>1. F \in [(1..n) \X A -> A]
    BY <1>3, Zenon
  <2>. QED  BY <2>1, <1>1, <1>2, Zenon DEF IsStep
<1>7. \A k \in 1..n, p \in A : F[<<k, p>>] = Pass(p)
  BY Zenon
<1>. HIDE DEF F
<1>8. PICK f : Recursion(f, F, n, A, first)
  BY <1>6, RecursiveFunction, Zenon
<1>9. f \in [0..n -> A] /\ f[0] = first /\ \A k \in 1..n : f[k] = F[<<k, f[k - 1]>>]
  BY <1>8, Zenon DEF Recursion
<1>10. f = Def(f)
  <2>1. ASSUME NEW k \in 1..n PROVE f[k] = Pass(f[k - 1])
    <3>1. f[k - 1] \in A
      BY <1>1, <1>9
    <3>. QED  BY <3>1, <1>7, <1>9, Zenon
  <2>2. ASSUME NEW k \in 0..n PROVE f[k] = IF k = 0 THEN first ELSE Pass(f[k - 1])
    <3>1. k = 0 \/ k \in 1..n
      BY <1>1
    <3>. QED  BY <3>1, <2>1, <1>9, Zenon
  <2>. QED  BY <2>2, <1>9, Zenon
<1>11. pass = Def(pass)
  BY <1>10, Zenon
<1>. HIDE DEF pass
<1>12. pass[0] = first /\ \A k \in 1..n : pass[k] = Pass(pass[k - 1])
  BY <1>1, <1>11
<1>. DEFINE S == {k \in Nat : k <= n => pass[k] \in A}
<1>13. 0 \in S
  BY <1>2, <1>12, Zenon
<1>14. ASSUME NEW k \in Nat, k \in S PROVE k + 1 \in S
  <2>1. k + 1 <= n => k + 1 \in 1..n /\ (k + 1) - 1 = k /\ pass[k] \in A
    BY <1>1, <1>14
  <2>. QED  BY <2>1, <1>3, <1>12
<1>15. n \in S
  <2>. HIDE DEF S
  <2>. QED  BY <1>1, <1>13, <1>14, SetInduction, Zenon
<1>16. pass[n] \in A
  BY <1>1, <1>15
<1>. QED  BY <1>4, <1>5, <1>16, Zenon DEF n

\* Storing a segment of the stream leaves a store of parts of the stream.
LEMMA StoreKeeps ==
    ASSUME NEW isn \in SeqNumbers, NEW lim \in Nat, lim < Half - 1,
           NEW q \in Seq(StreamEntries(isn, lim)),
           NEW new \in Scans(isn, lim), new.index = 0, new.todo = "scan"
    PROVE  LET last == ScanPasses(q, new)
               entry == [start |-> last.acc.start, buf |-> last.acc.buf]
               stored == IF last.acc.todo = "insert" THEN insert(last.q, last.acc.index, entry)
                         ELSE Append(last.q, entry)
               kept == SubSeq(stored, 1, Min({Len(stored), MAX_OUT_OF_ORDER}))
           IN  /\ last.q \in Seq(StreamEntries(isn, lim)) /\ Len(last.q) <= Len(q)
               /\ kept \in Seq(StreamEntries(isn, lim)) /\ Len(kept) <= MAX_OUT_OF_ORDER
<1>. DEFINE last == ScanPasses(q, new)
            SE == StreamEntries(isn, lim)
            entry == [start |-> last.acc.start, buf |-> last.acc.buf]
            stored == IF last.acc.todo = "insert" THEN insert(last.q, last.acc.index, entry)
                      ELSE Append(last.q, entry)
            m == Min({Len(stored), MAX_OUT_OF_ORDER})
<1>1. /\ last.q \in Seq(SE) /\ Len(last.q) <= Len(q)
      /\ last.acc \in Scans(isn, lim)
      /\ last.acc.todo = "insert" => last.acc.index \in 1..Len(last.q)
  BY ScanPassesKeeps, Zenon
<1>. HIDE DEF last
<1>2. entry \in SE
  BY <1>1, Zenon DEF Scans, ScanRecords, StreamEntries, Entries
<1>. HIDE DEF entry, SE
<1>3. stored \in Seq(SE)
  <2>1. CASE last.acc.todo = "insert"
    BY <2>1, <1>1, <1>2, InsertAtSeq, Zenon
  <2>2. CASE last.acc.todo # "insert"
    BY <2>2, <1>1, <1>2, AppendProperties, Zenon
  <2>. QED  BY <2>1, <2>2, Zenon
<1>. HIDE DEF stored
<1>4. m \in Nat /\ m <= Len(stored) /\ m <= MAX_OUT_OF_ORDER
  <2>1. Len(stored) \in Nat /\ MAX_OUT_OF_ORDER \in Nat
    BY <1>3, ControlBlockAssumption
  <2>2. \E x \in {Len(stored), MAX_OUT_OF_ORDER} : \A y \in {Len(stored), MAX_OUT_OF_ORDER} : x <= y
    BY <2>1
  <2>. QED  BY <2>1, <2>2, Zenon DEF Min
<1>5. \A i \in 1..m : stored[i] \in SE
  BY <1>3, <1>4, ElementOfSeq
<1>6. SubSeq(stored, 1, m) \in Seq(SE) /\ Len(SubSeq(stored, 1, m)) <= MAX_OUT_OF_ORDER
  <2>. HIDE DEF m
  <2>1. /\ SubSeq(stored, 1, m) \in Seq(SE)
        /\ Len(SubSeq(stored, 1, m)) = IF 1 <= m THEN m - 1 + 1 ELSE 0
    BY <1>3, <1>4, <1>5, SubSeqProperties
  <2>. QED  BY <2>1, <1>4, ControlBlockAssumption
<1>. QED  BY <1>1, <1>6, Zenon DEF last, SE, entry, stored

----------------------------------------------------------------------------
(* In-order data. *)

\* A byte of the stream is at one sequence number only.
LEMMA AtInjective ==
    ASSUME NEW isn \in SeqNumbers, NEW i \in Offsets, NEW j \in Offsets,
           At(isn, i) = At(isn, j)
    PROVE  i = j
BY AtCompare, Zenon

\* The largest of finitely many numbers.
LEMMA MaxOfBounded ==
    ASSUME NEW n \in Nat, NEW T \in SUBSET (0..n), T # {}
    PROVE  Max(T) \in T /\ \A y \in T : Max(T) >= y
<1>. DEFINE R == {x \in Nat : \E y \in T : x = n - y}
<1>1. R \in SUBSET Nat /\ R # {}
  <2>1. PICK y : y \in T
    BY Zenon
  <2>2. y \in 0..n
    BY <2>1, Zenon
  <2>3. n - y \in R
    BY <2>1, <2>2
  <2>. QED  BY <2>3, Zenon
<1>. HIDE DEF R
<1>2. PICK x \in R : \A z \in R : x <= z
  BY <1>1, LeastNat, Zenon
<1>3. PICK m \in T : x = n - m
  BY Zenon DEF R
<1>4. ASSUME NEW y \in T PROVE m >= y
  <2>1. n - y \in R /\ y \in 0..n /\ m \in 0..n
    BY DEF R
  <2>2. n - m <= n - y
    BY <2>1, <1>2, <1>3, Zenon
  <2>. QED  BY <2>1, <2>2
<1>5. \E z \in T : \A y \in T : z >= y
  BY <1>4, Zenon
<1>. QED  BY <1>5, Zenon DEF Max

\* The bytes of an entry of the store.
LEMMA EntryOffsets ==
    ASSUME NEW isn \in SeqNumbers, NEW lim \in Nat, lim < Half - 1,
           NEW e \in StreamEntries(isn, lim)
    PROVE  /\ e.buf \in Bufs /\ e.buf.off \in Nat /\ e.buf.len \in Nat /\ e.buf.len > 0
           /\ e.buf.off + e.buf.len <= lim
           /\ e.start = At(isn, e.buf.off)
           /\ e.buf.off \in Offsets /\ e.buf.off + e.buf.len \in Offsets
           /\ StoredEnd(e) = At(isn, e.buf.off + e.buf.len - 1)
           /\ Plus(StoredEnd(e), 1) = At(isn, e.buf.off + e.buf.len)
<1>1. /\ e.buf \in Bufs /\ e.buf.off \in Nat /\ e.buf.len \in Nat /\ e.buf.len > 0
      /\ e.buf.off + e.buf.len <= lim
      /\ e.start = At(isn, e.buf.off)
  BY Zenon DEF StreamEntries, Entries, Bufs
<1>. DEFINE o == e.buf.off
            k == e.buf.len - 1
<1>2. o \in Offsets /\ k \in Nat /\ o + k \in Offsets /\ (o + k) + 1 \in Offsets
      /\ o + k = e.buf.off + e.buf.len - 1 /\ (o + k) + 1 = e.buf.off + e.buf.len
  BY <1>1, HalfAssumption DEF Offsets
<1>3. StoredEnd(e) = Plus(At(isn, o), k)
  BY <1>1, Zenon DEF StoredEnd
<1>. HIDE DEF o, k
<1>4. StoredEnd(e) = At(isn, o + k)
  BY <1>2, <1>3, AtMove, Zenon
<1>5. Plus(At(isn, o + k), 1) = At(isn, (o + k) + 1)
  <2>1. 1 \in Nat
    BY Zenon
  <2>. QED  BY <2>1, <1>2, AtMove, Zenon
<1>6. o = e.buf.off
  BY Zenon DEF o
<1>. QED  BY <1>1, <1>2, <1>4, <1>5, <1>6, Zenon

\* The buffers of the first n entries.
Run(q, n) == [i \in 1..n |-> q[i].buf]

\* The leading entries of the store that receive_data takes continue the
\* stream where the new data ends.
LEMMA InOrderRun ==
    ASSUME NEW isn \in SeqNumbers, NEW lim \in Nat, lim < Half - 1,
           NEW q \in Seq(StreamEntries(isn, lim)),
           NEW o \in Nat, o \in Offsets
    PROVE  LET n == InOrderEntries(q, At(isn, o))
           IN  /\ n \in 0..Len(q)
               /\ \E e \in Nat :
                     /\ o <= e /\ (n = 0 => e = o) /\ (n > 0 => o < e /\ e <= lim)
                     /\ Chain(Run(q, n), o, e)
                     /\ At(isn, e) = IF n = 0 THEN At(isn, o) ELSE Plus(StoredEnd(q[n]), 1)
<1>. DEFINE Next_(i) == IF i = 1 THEN At(isn, o) ELSE Plus(StoredEnd(q[i - 1]), 1)
            T == {k \in 0 .. Len(q) : \A i \in 1 .. k : q[i].start = Next_(i)}
            n == InOrderEntries(q, At(isn, o))
            run == Run(q, n)
            e == IF n = 0 THEN o ELSE q[n].buf.off + q[n].buf.len
<1>1. Len(q) \in Nat /\ \A i \in 1..Len(q) : q[i] \in StreamEntries(isn, lim)
  BY ElementOfSeq
<1>2. n = Max(T)
  BY Zenon DEF InOrderEntries
<1>3. T \in SUBSET (0..Len(q)) /\ T # {}
  <2>1. 0 \in T
    BY <1>1
  <2>. QED  BY <2>1, Zenon
<1>. HIDE DEF n
<1>4. n \in T
  <2>. HIDE DEF T
  <2>. QED  BY <1>1, <1>2, <1>3, MaxOfBounded, Zenon
<1>5. n \in 0..Len(q) /\ n \in Nat /\ \A i \in 1..n : q[i].start = Next_(i) /\ q[i] \in StreamEntries(isn, lim)
  BY <1>1, <1>4
<1>6. \A i \in 1..n :
         /\ q[i].buf \in Bufs /\ q[i].buf.off \in Nat /\ q[i].buf.len \in Nat /\ q[i].buf.len > 0
         /\ q[i].buf.off + q[i].buf.len <= lim
         /\ q[i].start = At(isn, q[i].buf.off)
         /\ q[i].buf.off \in Offsets /\ q[i].buf.off + q[i].buf.len \in Offsets
         /\ Plus(StoredEnd(q[i]), 1) = At(isn, q[i].buf.off + q[i].buf.len)
  BY <1>5, EntryOffsets, ZenonT(30)
<1>7. n > 0 => q[1].buf.off = o
  <2>. SUFFICES ASSUME n > 0 PROVE q[1].buf.off = o
    BY Zenon
  <2>1. 1 \in 1..n
    BY <1>5
  <2>2. At(isn, q[1].buf.off) = At(isn, o) /\ q[1].buf.off \in Offsets
    BY <2>1, <1>5, <1>6, Zenon
  <2>. QED  BY <2>2, AtInjective, Zenon
<1>8. ASSUME NEW i \in 1 .. n - 1 PROVE q[i + 1].buf.off = q[i].buf.off + q[i].buf.len
  <2>1. i \in 1..n /\ i + 1 \in 1..n /\ i + 1 # 1 /\ (i + 1) - 1 = i
    BY <1>5
  <2>2. q[i + 1].start = Plus(StoredEnd(q[i]), 1)
    BY <2>1, <1>5, Zenon
  <2>3. At(isn, q[i + 1].buf.off) = At(isn, q[i].buf.off + q[i].buf.len)
    BY <2>1, <2>2, <1>6, Zenon
  <2>4. q[i + 1].buf.off \in Offsets /\ q[i].buf.off + q[i].buf.len \in Offsets
    BY <2>1, <1>6, Zenon
  <2>. QED  BY <2>3, <2>4, AtInjective, Zenon
<1>. HIDE DEF Next_, T
<1>9. run \in Seq(Bufs) /\ Len(run) = n /\ \A i \in 1..n : run[i] = q[i].buf
  <2>1. run \in [1..n -> Bufs]
    BY <1>6, Zenon DEF Run
  <2>. QED  BY <2>1, <1>5 DEF Run
<1>10. run = << >> <=> n = 0
  BY <1>9, <1>5, EmptySeq, Zenon
<1>. HIDE DEF run
<1>11. Chain(run, o, e)
  <2>1. \A i \in 1 .. Len(run) - 1 : run[i + 1].off = run[i].off + run[i].len
    <3>. SUFFICES ASSUME NEW i \in 1 .. n - 1 PROVE run[i + 1].off = run[i].off + run[i].len
      BY <1>9, Zenon
    <3>1. i \in 1..n /\ i + 1 \in 1..n
      BY <1>5
    <3>. QED  BY <3>1, <1>8, <1>9, Zenon
  <2>2. CASE n = 0
    BY <2>1, <2>2, <1>9, <1>10, Zenon DEF Chain
  <2>3. CASE n > 0
    <3>1. 1 \in 1..n /\ n \in 1..n
      BY <2>3, <1>5
    <3>2. run[1].off = o /\ run[n].off + run[n].len = e
      BY <3>1, <2>3, <1>7, <1>9
    <3>. QED  BY <3>2, <2>1, <2>3, <1>9, <1>10, <1>5, Zenon DEF Chain
  <2>. QED  BY <2>2, <2>3, <1>5
<1>12. n > 0 => e \in Nat /\ e <= lim /\ At(isn, e) = Plus(StoredEnd(q[n]), 1) /\ q[n].buf.len > 0 /\ q[n].buf.len \in Nat
                /\ e = q[n].buf.off + q[n].buf.len
  <2>1. n > 0 => n \in 1..n
    BY <1>5
  <2>. QED  BY <2>1, <1>6, SMTT(30)
<1>13. e \in Nat /\ o <= e /\ (n > 0 => o < e)
  <2>1. CASE n = 0
    BY <2>1
  <2>2. CASE n > 0
    <3>1. e \in Nat /\ 1 \in 1..n /\ n \in 1..n
      BY <2>2, <1>5, <1>12
    <3>2. run[n].off >= o
      <4>. HIDE DEF e
      <4>. QED  BY <3>1, <1>9, <1>11, ChainLen, Zenon
    <3>3. q[n].buf.off >= o /\ q[n].buf.off \in Nat
      BY <3>1, <3>2, <1>9, <1>6, Zenon
    <3>. QED  BY <3>1, <3>3, <2>2, <1>12, SMTT(30)
  <2>. QED  BY <2>1, <2>2, <1>5
<1>14. At(isn, e) = IF n = 0 THEN At(isn, o) ELSE Plus(StoredEnd(q[n]), 1)
  BY <1>5, <1>12
<1>. HIDE DEF e
<1>15. n = 0 => e = o
  BY Zenon DEF e
<1>. QED  BY <1>5, <1>11, <1>12, <1>13, <1>14, <1>15, Zenon DEF n, run

=============================================================================
