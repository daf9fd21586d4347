---------------------------- MODULE SmallProofs -----------------------------
(***************************************************************************)
(* The ASCII conversion, the commands and cwd_path.  What each of them     *)
(* computes is defined by recursion over a text, so the first two sections *)
(* are about induction and recursion.  Neither takes a predicate or an     *)
(* operator for an argument, which the provers could not supply: induction *)
(* is about a set, and recursion about a function on the values.           *)
(***************************************************************************)
EXTENDS Ascii, CmdIO, CwdPath, SequenceTheorems, WellFoundedInduction, TLAPS

-----------------------------------------------------------------------------
(* Induction and recursion over the natural numbers.                       *)

LEMMA LeastNumber ==
    ASSUME NEW T \in SUBSET Nat, T # {}
    PROVE  \E m \in T : \A k \in T : m <= k
<1> DEFINE R == OpToRel(<, Nat)
<1>1. \A x, y \in Nat : x < y => <<x, y>> \in R
  BY DEF OpToRel
<1>2. IsWellFoundedOn(R, Nat)  BY NatLessThanWellFounded
<1> HIDE DEF R
<1>3. PICK m \in T : \A k \in T : ~ (<<k, m>> \in R)
  BY <1>2, WFMin
<1>4. m \in Nat /\ \A k \in T : k \in Nat  OBVIOUS
<1>5. \A k \in T : ~ (k < m)  BY <1>1, <1>3, <1>4
<1>6. \A k \in T : m <= k  BY <1>4, <1>5
<1> QED  BY <1>6

LEMMA Induction ==
    ASSUME NEW S, 0 \in S, \A n \in Nat : n \in S => n + 1 \in S
    PROVE  \A n \in Nat : n \in S
<1>1. SUFFICES ASSUME Nat \ S # {} PROVE FALSE  OBVIOUS
<1>2. PICK m \in Nat \ S : \A k \in Nat \ S : m <= k
  <2> DEFINE T == Nat \ S
  <2>1. T \in SUBSET Nat /\ T # {}  BY <1>1
  <2> HIDE DEF T
  <2>2. \E m \in T : \A k \in T : m <= k  BY <2>1, LeastNumber
  <2> QED  BY <2>2 DEF T
<1>3. m # 0 /\ m - 1 \in Nat /\ m - 1 < m /\ (m - 1) + 1 = m
  BY <1>2
<1>4. m - 1 \in S  BY <1>2, <1>3
<1> QED  BY <1>2, <1>3, <1>4

\* As much of a function as a recursion defines below n.
Below(D, c, G, n) ==
    {f \in [0..n -> D] : f[0] = c /\ \A i \in 1..n : f[i] = G[f[i - 1]][i]}

\* G gives the next value of D from the one before and its number.
Closed(D, G, n) == \A d \in D, i \in 1..n : G[d][i] \in D

Recurs(f, c, G, n) == f = [i \in 0..n |-> IF i = 0 THEN c ELSE G[f[i - 1]][i]]

LEMMA Recursion ==
    ASSUME NEW D, NEW c \in D, NEW n \in Nat, NEW G, Closed(D, G, n)
    PROVE  \E f \in [0..n -> D] : Recurs(f, c, G, n)
<1> DEFINE S == {k \in Nat : k <= n => Below(D, c, G, k) # {}}
<1>1. 0 \in S
  <2> DEFINE f == [i \in 0..0 |-> c]
  <2>1. f \in [0..0 -> D] /\ f[0] = c /\ 1..0 = {}  OBVIOUS
  <2>2. f \in Below(D, c, G, 0)  BY <2>1 DEF Below
  <2> QED  BY <2>2
<1>2. ASSUME NEW k \in Nat, k \in S PROVE k + 1 \in S
  <2>1. SUFFICES ASSUME k + 1 <= n PROVE Below(D, c, G, k + 1) # {}
    OBVIOUS
  <2>2. PICK f \in [0..k -> D] : f[0] = c /\ \A i \in 1..k : f[i] = G[f[i - 1]][i]
    BY <1>2, <2>1 DEF Below
  <2> DEFINE next == G[f[k]][k + 1]
             g == [i \in 0..(k + 1) |-> IF i = k + 1 THEN next ELSE f[i]]
  <2>3. next \in D
    <3>1. f[k] \in D /\ k + 1 \in 1..n  BY <2>1, <2>2
    <3> QED  BY <3>1 DEF Closed
  <2> HIDE DEF next
  <2>4. g \in [0..(k + 1) -> D]
    <3>1. \A i \in 0..(k + 1) : i # k + 1 => i \in 0..k  OBVIOUS
    <3> QED  BY <2>2, <2>3, <3>1
  <2>5. g[0] = c  BY <2>2
  <2>6. ASSUME NEW i \in 1..(k + 1) PROVE g[i] = G[g[i - 1]][i]
    <3>1. i - 1 \in 0..k /\ g[i - 1] = f[i - 1]  OBVIOUS
    <3>2. CASE i = k + 1
      <4>1. i - 1 = k /\ g[i] = next  BY <3>2
      <4> QED  BY <3>1, <3>2, <4>1 DEF next
    <3>3. CASE i # k + 1
      <4>1. i \in 1..k /\ g[i] = f[i]  BY <3>3
      <4> QED  BY <2>2, <3>1, <4>1
    <3> QED  BY <3>2, <3>3
  <2> HIDE DEF g
  <2> QED  BY <2>4, <2>5, <2>6 DEF Below
<1> HIDE DEF S
<1>3. n \in S  BY <1>1, <1>2, Induction
<1>4. PICK f \in Below(D, c, G, n) : TRUE
  BY <1>3 DEF S
<1>5. f \in [0..n -> D] /\ f[0] = c /\ \A i \in 1..n : f[i] = G[f[i - 1]][i]
  BY <1>4 DEF Below
<1>6. \A i \in 0..n : i # 0 => i \in 1..n  OBVIOUS
<1>7. f = [i \in 0..n |-> IF i = 0 THEN c ELSE G[f[i - 1]][i]]
  BY <1>5, <1>6
<1> QED  BY <1>5, <1>7 DEF Recurs

-----------------------------------------------------------------------------
(* Sequences.                                                              *)

LEMMA Nth ==
    ASSUME NEW S, NEW s \in Seq(S)
    PROVE  /\ Len(s) \in Nat /\ DOMAIN s = 1..Len(s)
           /\ \A i \in 1..Len(s) : s[i] \in S
BY LenProperties, ElementOfSeq

\* A piece of a sequence.
LEMMA PieceFacts ==
    ASSUME NEW S, NEW s \in Seq(S), NEW m \in Nat, NEW n \in Nat, m + n <= Len(s)
    PROVE  /\ SubSeq(s, m + 1, m + n) \in Seq(S)
           /\ Len(SubSeq(s, m + 1, m + n)) = n
           /\ \A i \in 1..n : SubSeq(s, m + 1, m + n)[i] = s[m + i]
<1> DEFINE p == SubSeq(s, m + 1, m + n)
<1>1. Len(s) \in Nat /\ \A i \in 1..Len(s) : s[i] \in S  BY Nth
<1>2. \A i \in (m + 1)..(m + n) : s[i] \in S  BY <1>1
<1>3. m + 1 \in Int /\ m + n \in Int  OBVIOUS
<1>4. /\ p \in Seq(S)
      /\ Len(p) = IF m + 1 <= m + n THEN (m + n) - (m + 1) + 1 ELSE 0
      /\ \A i \in 1..((m + n) - (m + 1) + 1) : p[i] = s[(m + 1) + i - 1]
  BY <1>2, <1>3, SubSeqProperties
<1> HIDE DEF p
<1>5. (m + n) - (m + 1) + 1 = n  OBVIOUS
<1>6. Len(p) = n  BY <1>4, <1>5
<1>7. \A i \in 1..n : p[i] = s[m + i]
  <2>1. \A i \in 1..n : (m + 1) + i - 1 = m + i  OBVIOUS
  <2> QED  BY <1>4, <1>5, <2>1
<1> QED  BY <1>4, <1>6, <1>7 DEF p

LEMMA PrefixFacts ==
    ASSUME NEW S, NEW s \in Seq(S), NEW k \in 0..Len(s)
    PROVE  /\ SubSeq(s, 1, k) \in Seq(S) /\ Len(SubSeq(s, 1, k)) = k
           /\ \A i \in 1..k : SubSeq(s, 1, k)[i] = s[i]
<1>1. Len(s) \in Nat /\ k \in Nat /\ 0 + k <= Len(s)  BY Nth
<1>2. 0 + 1 = 1 /\ 0 + k = k /\ \A i \in 1..k : 0 + i = i  BY <1>1
<1> QED  BY <1>1, <1>2, PieceFacts

LEMMA Whole == ASSUME NEW S, NEW s \in Seq(S) PROVE SubSeq(s, 1, Len(s)) = s
<1>1. Len(s) \in 0..Len(s)  BY Nth
<1> QED  BY <1>1, PrefixFacts, SeqEqual

-----------------------------------------------------------------------------
(* FlattenSeq.                                                             *)

Flattened(q) ==
    CHOOSE f : f = [i \in 1..Len(q) |-> IF i = 1 THEN q[i] ELSE f[i - 1] \o q[i]]

\* The first of the sequences in q, joined.
Joined(q) == [i \in 0..Len(q) |-> IF i = 0 THEN <<>> ELSE Flattened(q)[i]]

LEMMA JoinedFacts ==
    ASSUME NEW C, NEW q \in Seq(Seq(C))
    PROVE  /\ Len(q) \in Nat
           /\ \A i \in 0..Len(q) : Joined(q)[i] \in Seq(C)
           /\ Joined(q)[0] = <<>>
           /\ \A i \in 1..Len(q) : Joined(q)[i] = Joined(q)[i - 1] \o q[i]
           /\ FlattenSeq(q) = Joined(q)[Len(q)]
<1> DEFINE n == Len(q)
           G == [d \in Seq(C) |-> [i \in 1..n |-> d \o q[i]]]
           h == Flattened(q)
           w == Joined(q)
<1>1. n \in Nat /\ \A i \in 1..n : q[i] \in Seq(C)  BY Nth
<1>2. <<>> \in Seq(C) /\ \A d \in Seq(C) : <<>> \o d = d  BY ConcatEmptySeq
<1>3. \A d \in Seq(C), i \in 1..n : d \o q[i] \in Seq(C)
  BY <1>1, ConcatProperties
<1>4. \A d \in Seq(C), i \in 1..n : G[d][i] = d \o q[i]
  OBVIOUS
<1> HIDE DEF G
<1>5. Closed(Seq(C), G, n)  BY <1>3, <1>4 DEF Closed
<1>6. PICK f \in [0..n -> Seq(C)] :
          f = [i \in 0..n |-> IF i = 0 THEN <<>> ELSE G[f[i - 1]][i]]
  <2> HIDE DEF n
  <2>1. \E f \in [0..n -> Seq(C)] : Recurs(f, <<>>, G, n)
    BY <1>1, <1>2, <1>5, Recursion
  <2> QED  BY <2>1 DEF Recurs
<1>7. \A i \in 1..n : i - 1 \in 0..n /\ i \in 0..n /\ i # 0  BY <1>1
<1>8. f[0] = <<>> /\ \A i \in 1..n : f[i] = f[i - 1] \o q[i]
  <2>1. 0 \in 0..n  BY <1>1
  <2>2. f[0] = <<>>  BY <1>6, <2>1
  <2>3. \A i \in 1..n : f[i] = G[f[i - 1]][i]  BY <1>6, <1>7
  <2>4. \A i \in 1..n : f[i - 1] \in Seq(C)  BY <1>6, <1>7
  <2> QED  BY <1>4, <2>2, <2>3, <2>4
<1> DEFINE g == [i \in 1..n |-> f[i]]
<1>9. g = [i \in 1..n |-> IF i = 1 THEN q[i] ELSE g[i - 1] \o q[i]]
  <2>1. ASSUME NEW i \in 1..n
        PROVE  g[i] = IF i = 1 THEN q[i] ELSE g[i - 1] \o q[i]
    <3>1. CASE i = 1
      <4>1. f[i] = f[i - 1] \o q[i]  BY <1>8
      <4>2. i - 1 = 0  BY <3>1
      <4>3. f[i] = <<>> \o q[i]  BY <1>8, <4>1, <4>2
      <4>4. f[i] = q[i]  BY <1>1, <1>2, <4>3
      <4> QED  BY <3>1, <4>4
    <3>2. CASE i # 1
      <4>1. i - 1 \in 1..n  BY <1>1, <3>2
      <4> QED  BY <1>8, <3>2, <4>1
    <3> QED  BY <3>1, <3>2
  <2> QED  BY <2>1
<1>10. h = [i \in 1..n |-> IF i = 1 THEN q[i] ELSE h[i - 1] \o q[i]]
  <2> HIDE DEF g
  <2> QED  BY <1>9 DEF Flattened
<1>11. w = [i \in 0..n |-> IF i = 0 THEN <<>> ELSE h[i]]
  BY DEF Joined
<1>12. FlattenSeq(q) = w[n]
  <2>1. CASE n = 0
    <3>1. q = <<>>  BY <2>1, EmptySeq
    <3> QED  BY <2>1, <3>1, <1>11 DEF FlattenSeq
  <2>2. CASE n # 0
    <3>1. FlattenSeq(q) = h[n]  BY <2>2 DEF FlattenSeq, Flattened
    <3> QED  BY <1>1, <1>11, <2>2, <3>1
  <2> QED  BY <2>1, <2>2
<1> HIDE DEF w, h, n
<1>13. w[0] = <<>>  BY <1>1, <1>11
<1>14. ASSUME NEW i \in 1..n PROVE w[i] = w[i - 1] \o q[i]
  <2>1. w[i] = h[i] /\ i \in 0..n  BY <1>7, <1>11
  <2>2. CASE i = 1
    <3>1. h[i] = q[i] /\ w[i - 1] = <<>>  BY <1>10, <1>13, <2>2
    <3> QED  BY <1>1, <1>2, <2>1, <3>1
  <2>3. CASE i # 1
    <3>1. h[i] = h[i - 1] \o q[i] /\ w[i - 1] = h[i - 1]
      <4>1. i - 1 \in 0..n /\ i - 1 # 0  BY <1>1, <2>3
      <4> QED  BY <1>10, <1>11, <2>3, <4>1
    <3> QED  BY <2>1, <3>1
  <2> QED  BY <2>2, <2>3
<1> DEFINE S == {i \in Nat : i <= n => w[i] \in Seq(C)}
<1>15. 0 \in S  BY <1>2, <1>13
<1>16. ASSUME NEW i \in Nat, i \in S PROVE i + 1 \in S
  <2>1. SUFFICES ASSUME i + 1 <= n PROVE w[i + 1] \in Seq(C)
    OBVIOUS
  <2>2. i + 1 \in 1..n /\ (i + 1) - 1 = i /\ w[i] \in Seq(C)
    BY <1>1, <1>16, <2>1
  <2>3. w[i + 1] = w[i] \o q[i + 1]  BY <1>14, <2>2
  <2> QED  BY <1>3, <2>2, <2>3
<1> HIDE DEF S
<1>17. \A i \in Nat : i \in S  BY <1>15, <1>16, Induction
<1>18. \A i \in 0..n : w[i] \in Seq(C)  BY <1>1, <1>17 DEF S
<1> QED  BY <1>1, <1>12, <1>13, <1>14, <1>18 DEF w, n

\* From a on, q has the first m sequences of r.
Continues(q, r, a, m) ==
    m <= Len(r) /\ a + m <= Len(q) /\ \A j \in 1..m : q[a + j] = r[j]

\* There it goes on with what r makes.
GoesOn(q, r, a, m) == Joined(q)[a + m] = Joined(q)[a] \o Joined(r)[m]

LEMMA JoinedShift ==
    ASSUME NEW C, NEW q \in Seq(Seq(C)), NEW r \in Seq(Seq(C)),
           NEW a \in Nat, NEW m \in Nat, Continues(q, r, a, m)
    PROVE  GoesOn(q, r, a, m)
<1> DEFINE u == Joined(q)
           w == Joined(r)
           Shifted(j) == u[a + j] = u[a] \o w[j]
           S == {j \in Nat : j <= m => Shifted(j)}
<1>1. /\ Len(q) \in Nat /\ \A i \in 0..Len(q) : u[i] \in Seq(C)
      /\ \A i \in 1..Len(q) : u[i] = u[i - 1] \o q[i]
  BY JoinedFacts
<1>2. /\ Len(r) \in Nat /\ \A i \in 0..Len(r) : w[i] \in Seq(C)
      /\ w[0] = <<>> /\ \A i \in 1..Len(r) : w[i] = w[i - 1] \o r[i]
  BY JoinedFacts
<1>3. \A i \in 1..Len(r) : r[i] \in Seq(C)  BY Nth
<1> HIDE DEF u, w, Shifted
<1>4. a \in 0..Len(q) /\ u[a] \in Seq(C)  BY <1>1 DEF Continues
<1>5. 0 \in S
  <2>1. a + 0 = a /\ u[a] \o <<>> = u[a]  BY <1>4, ConcatEmptySeq
  <2>2. Shifted(0)  BY <1>2, <2>1 DEF Shifted
  <2> QED  BY <2>2
<1>6. ASSUME NEW j \in Nat, j \in S PROVE j + 1 \in S
  <2>1. SUFFICES ASSUME j + 1 <= m PROVE Shifted(j + 1)
    OBVIOUS
  <2>2. /\ j + 1 \in 1..m /\ j + 1 \in 1..Len(r) /\ j \in 0..Len(r)
        /\ (j + 1) - 1 = j /\ a + (j + 1) \in 1..Len(q)
        /\ (a + (j + 1)) - 1 = a + j
    <3>1. m <= Len(r) /\ a + m <= Len(q)  BY DEF Continues
    <3> DEFINE lq == Len(q)
               lr == Len(r)
    <3>2. lq \in Nat /\ lr \in Nat /\ m <= lr /\ a + m <= lq  BY <1>1, <1>2, <3>1
    <3> HIDE DEF lq, lr
    <3>3. j + 1 \in 1..m /\ j + 1 \in 1..lr /\ j \in 0..lr  BY <2>1, <3>2
    <3>4. a + (j + 1) \in 1..lq  BY <2>1, <3>2
    <3>5. (j + 1) - 1 = j /\ (a + (j + 1)) - 1 = a + j  OBVIOUS
    <3> QED  BY <3>3, <3>4, <3>5 DEF lq, lr
  <2>3. u[a + j] = u[a] \o w[j]
    <3>1. j <= m  BY <2>1
    <3>2. Shifted(j)  BY <1>6, <3>1
    <3> QED  BY <3>2 DEF Shifted
  <2>4. u[a + (j + 1)] = u[a + j] \o r[j + 1]
    <3>1. q[a + (j + 1)] = r[j + 1]  BY <2>2 DEF Continues
    <3> QED  BY <1>1, <2>2, <3>1
  <2>5. w[j + 1] = w[j] \o r[j + 1]  BY <1>2, <2>2
  <2>6. w[j] \in Seq(C) /\ r[j + 1] \in Seq(C)  BY <1>2, <1>3, <2>2
  <2>7. (u[a] \o w[j]) \o r[j + 1] = u[a] \o (w[j] \o r[j + 1])
    <3> DEFINE x == u[a]
               y == w[j]
               z == r[j + 1]
    <3>1. x \in Seq(C) /\ y \in Seq(C) /\ z \in Seq(C)  BY <1>4, <2>6
    <3> HIDE DEF x, y, z
    <3>2. (x \o y) \o z = x \o (y \o z)  BY ONLY <3>1, ConcatAssociative
    <3> QED  BY <3>2 DEF x, y, z
  <2> QED  BY <2>3, <2>4, <2>5, <2>7 DEF Shifted
<1> HIDE DEF S
<1>7. m \in S  BY <1>5, <1>6, Induction
<1>8. u[a + m] = u[a] \o w[m]
  <2>1. Shifted(m)  BY <1>7 DEF S
  <2> QED  BY <2>1 DEF Shifted
<1> QED  BY <1>8 DEF u, w, GoesOn

\* Two that begin alike make the same so far.
LEMMA JoinedAlike ==
    ASSUME NEW C, NEW q \in Seq(Seq(C)), NEW r \in Seq(Seq(C)),
           NEW m \in Nat, Continues(q, r, 0, m)
    PROVE  Joined(q)[m] = Joined(r)[m]
<1>1. GoesOn(q, r, 0, m)  BY JoinedShift
<1>2. Joined(q)[m] = Joined(q)[0] \o Joined(r)[m]
  <2>1. 0 + m = m  OBVIOUS
  <2> QED  BY <1>1, <2>1 DEF GoesOn
<1>3. Joined(q)[0] = <<>>  BY JoinedFacts
<1>4. Joined(r)[m] \in Seq(C)
  <2>1. m \in 0..Len(r)  BY Nth DEF Continues
  <2> QED  BY <2>1, JoinedFacts
<1> QED  BY <1>2, <1>3, <1>4, ConcatEmptySeq

-----------------------------------------------------------------------------
(* The conversions.                                                        *)

\* What becomes of each character: in the other conversion, in a whole text, in
\* a chunk of it.
Doubled(t) == [i \in 1..Len(t) |-> IF t[i] = LF THEN <<CR, LF>> ELSE <<t[i]>>]

Kept(t) == [i \in 1..Len(t) |->
               IF t[i] = CR /\ i < Len(t) /\ t[i + 1] = LF THEN <<>> ELSE <<t[i]>>]

KeptOfChunk(t) == [i \in 1..Len(t) |->
               IF t[i] = CR /\ (i = Len(t) \/ t[i + 1] = LF) THEN <<>> ELSE <<t[i]>>]

LEMMA Expanded ==
    ASSUME NEW t, NEW held
    PROVE  /\ BinToAscii(t) = FlattenSeq(Doubled(t))
           /\ Plain(t) = FlattenSeq(Kept(t))
           /\ AsciiToBin(t, held) =
                [stored |-> (IF held /\ (t = <<>> \/ t[1] # LF) THEN <<CR>> ELSE <<>>)
                            \o FlattenSeq(KeptOfChunk(t)),
                 last_was_cr |-> t # <<>> /\ t[Len(t)] = CR]
BY DEF BinToAscii, Plain, AsciiToBin, Translate, Doubled, Kept, KeptOfChunk

\* A sequence of n sequences.
LEMMA SeqOfSeqs ==
    ASSUME NEW C, NEW n \in Nat, NEW q, q = [i \in 1..n |-> q[i]],
           \A i \in 1..n : q[i] \in Seq(C)
    PROVE  q \in Seq(Seq(C)) /\ Len(q) = n
<1>1. q \in [1..n -> Seq(C)]  OBVIOUS
<1>2. q \in Seq(Seq(C))  BY <1>1, SeqDef
<1>3. DOMAIN q = 1..n  BY <1>1
<1> QED  BY <1>2, <1>3, LenProperties

LEMMA Translated ==
    ASSUME NEW t \in Seq(Chars)
    PROVE  /\ Len(t) \in Nat
           /\ Doubled(t) \in Seq(Seq(Chars)) /\ Len(Doubled(t)) = Len(t)
           /\ Kept(t) \in Seq(Seq(Chars)) /\ Len(Kept(t)) = Len(t)
           /\ KeptOfChunk(t) \in Seq(Seq(Chars)) /\ Len(KeptOfChunk(t)) = Len(t)
<1>1. Len(t) \in Nat /\ \A i \in 1..Len(t) : t[i] \in Chars  BY Nth
<1>2. CR \in Chars /\ LF \in Chars  BY DEF Chars
<1>3. /\ <<>> \in Seq(Chars) /\ <<CR, LF>> \in Seq(Chars)
      /\ \A c \in Chars : <<c>> \in Seq(Chars)
  BY <1>2
<1>4. /\ \A i \in 1..Len(t) : Doubled(t)[i] \in Seq(Chars)
      /\ Doubled(t) = [i \in 1..Len(t) |-> Doubled(t)[i]]
  BY <1>1, <1>3 DEF Doubled
<1>5. /\ \A i \in 1..Len(t) : Kept(t)[i] \in Seq(Chars)
      /\ Kept(t) = [i \in 1..Len(t) |-> Kept(t)[i]]
  BY <1>1, <1>3 DEF Kept
<1>6. /\ \A i \in 1..Len(t) : KeptOfChunk(t)[i] \in Seq(Chars)
      /\ KeptOfChunk(t) = [i \in 1..Len(t) |-> KeptOfChunk(t)[i]]
  BY <1>1, <1>3 DEF KeptOfChunk
<1> QED  BY <1>1, <1>4, <1>5, <1>6, SeqOfSeqs

\* A text put to one that does not begin with a line feed.
LEMMA PlainOfConcat ==
    ASSUME NEW u \in Seq(Chars), NEW v \in Seq(Chars), v # <<>>, v[1] # LF
    PROVE  Plain(u \o v) = Plain(u) \o Plain(v)
<1> DEFINE t == u \o v
           m == Len(u)
           n == Len(v)
<1>1. m \in Nat /\ n \in Nat \ {0}  BY EmptySeq, Nth
<1>2. /\ t \in Seq(Chars) /\ Len(t) = m + n
      /\ \A i \in 1..(m + n) : t[i] = IF i <= m THEN u[i] ELSE v[i - m]
  BY ConcatProperties
<1>3. \A i \in 1..m : t[i] = u[i]  BY <1>1, <1>2
<1>4. \A j \in 1..n : t[m + j] = v[j]
  <2>1. ASSUME NEW j \in 1..n PROVE t[m + j] = v[j]
    <3>1. m + j \in 1..(m + n) /\ ~(m + j <= m) /\ (m + j) - m = j  BY <1>1
    <3> QED  BY <1>2, <3>1
  <2> QED  BY <2>1
<1> HIDE DEF t, m, n
<1>5. Continues(Kept(t), Kept(u), 0, m)
  <2>1. ASSUME NEW i \in 1..m PROVE Kept(t)[i] = Kept(u)[i]
    <3>1. i \in 1..Len(t) /\ t[i] = u[i] /\ i < Len(t)  BY <1>1, <1>2, <1>3
    <3>2. Kept(t)[i] = IF u[i] = CR /\ t[i + 1] = LF THEN <<>> ELSE <<u[i]>>
      BY <3>1 DEF Kept
    <3>3. Kept(u)[i] = IF u[i] = CR /\ i < m /\ u[i + 1] = LF THEN <<>> ELSE <<u[i]>>
      BY DEF Kept, m
    <3>4. CASE i < m
      <4>1. i + 1 \in 1..m  BY <1>1, <3>4
      <4> QED  BY <1>3, <3>2, <3>3, <3>4, <4>1
    <3>5. CASE ~(i < m)
      <4>1. i = m /\ 1 \in 1..n  BY <1>1, <3>5
      <4>2. t[i + 1] = v[1]  BY <1>4, <4>1
      <4> QED  BY <3>2, <3>3, <3>5, <4>2
    <3> QED  BY <3>4, <3>5
  <2>2. Len(Kept(t)) = m + n /\ Len(Kept(u)) = m  BY <1>2, Translated DEF m
  <2>3. \A i \in 1..m : 0 + i = i  BY <1>1
  <2> QED  BY <1>1, <2>1, <2>2, <2>3 DEF Continues
<1>6. Continues(Kept(t), Kept(v), m, n)
  <2>1. ASSUME NEW i \in 1..n PROVE Kept(t)[m + i] = Kept(v)[i]
    <3>1. m + i \in 1..Len(t) /\ t[m + i] = v[i]  BY <1>1, <1>2, <1>4
    <3>2. Kept(t)[m + i] = IF v[i] = CR /\ m + i < Len(t) /\ t[(m + i) + 1] = LF
                           THEN <<>> ELSE <<v[i]>>
      BY <3>1 DEF Kept
    <3>3. Kept(v)[i] = IF v[i] = CR /\ i < n /\ v[i + 1] = LF THEN <<>> ELSE <<v[i]>>
      BY DEF Kept, n
    <3>4. i < n => t[(m + i) + 1] = v[i + 1]
      <4>1. i < n => i + 1 \in 1..n /\ (m + i) + 1 = m + (i + 1)  BY <1>1
      <4> QED  BY <1>4, <4>1
    <3>5. m + i < Len(t) <=> i < n  BY <1>1, <1>2
    <3> QED  BY <3>2, <3>3, <3>4, <3>5
  <2>2. Len(Kept(t)) = m + n /\ Len(Kept(v)) = n  BY <1>2, Translated DEF n
  <2> QED  BY <1>1, <2>1, <2>2 DEF Continues
<1>7. /\ Kept(t) \in Seq(Seq(Chars)) /\ Kept(u) \in Seq(Seq(Chars))
      /\ Kept(v) \in Seq(Seq(Chars)) /\ Len(Kept(t)) = m + n
      /\ Len(Kept(u)) = m /\ Len(Kept(v)) = n
  BY <1>2, Translated DEF m, n
<1>8. Joined(Kept(t))[m] = Joined(Kept(u))[m]  BY <1>1, <1>5, <1>7, JoinedAlike
<1>9. GoesOn(Kept(t), Kept(v), m, n)  BY <1>1, <1>6, <1>7, JoinedShift
<1>10. /\ Plain(t) = Joined(Kept(t))[m + n] /\ Plain(u) = Joined(Kept(u))[m]
       /\ Plain(v) = Joined(Kept(v))[n]
  BY <1>7, Expanded, JoinedFacts
<1> QED  BY <1>8, <1>9, <1>10 DEF GoesOn, t

\* What one, two or three sequences make.
LEMMA JoinedFew ==
    ASSUME NEW C, NEW q \in Seq(Seq(C))
    PROVE  /\ Len(q) = 1 => FlattenSeq(q) = q[1]
           /\ Len(q) = 2 => FlattenSeq(q) = q[1] \o q[2]
           /\ Len(q) = 3 => FlattenSeq(q) = (q[1] \o q[2]) \o q[3]
<1> DEFINE w == Joined(q)
           n == Len(q)
<1>1. /\ n \in Nat /\ w[0] = <<>> /\ FlattenSeq(q) = w[n]
      /\ \A i \in 1..n : w[i] = w[i - 1] \o q[i]
  BY JoinedFacts
<1>2. \A i \in 1..n : q[i] \in Seq(C)  BY Nth
<1> HIDE DEF w, n
<1>3. ASSUME n >= 1 PROVE w[1] = q[1]
  <2>1. 1 \in 1..n /\ 1 - 1 = 0  BY <1>1, <1>3
  <2>2. w[1] = <<>> \o q[1]  BY <1>1, <2>1
  <2> QED  BY <1>2, <2>1, <2>2, ConcatEmptySeq
<1>4. ASSUME n >= 2 PROVE w[2] = q[1] \o q[2]
  <2>1. 2 \in 1..n /\ 2 - 1 = 1 /\ n >= 1  BY <1>1, <1>4
  <2> QED  BY <1>1, <1>3, <2>1
<1>5. ASSUME n >= 3 PROVE w[3] = (q[1] \o q[2]) \o q[3]
  <2>1. 3 \in 1..n /\ 3 - 1 = 2 /\ n >= 2  BY <1>1, <1>5
  <2> QED  BY <1>1, <1>4, <2>1
<1>6. n = 1 => FlattenSeq(q) = q[1]  BY <1>1, <1>3
<1>7. ASSUME n = 2 PROVE FlattenSeq(q) = q[1] \o q[2]
  <2>1. n >= 2 /\ FlattenSeq(q) = w[2]  BY <1>1, <1>7
  <2> QED  BY <1>4, <2>1
<1>8. ASSUME n = 3 PROVE FlattenSeq(q) = (q[1] \o q[2]) \o q[3]
  <2>1. n >= 3 /\ FlattenSeq(q) = w[3]  BY <1>1, <1>8
  <2> QED  BY <1>5, <2>1
<1> QED  BY <1>6, <1>7, <1>8 DEF n

LEMMA PlainOfDoubled ==
    /\ Plain(<<CR, LF>>) = <<LF>>
    /\ \A c \in Chars : Plain(<<c>>) = <<c>>
<1>1. Plain(<<CR, LF>>) = <<LF>>
  <2> DEFINE t == <<CR, LF>>
             q == Kept(t)
  <2>1. t \in Seq(Chars) /\ Len(t) = 2 /\ t[1] = CR /\ t[2] = LF  BY DEF Chars
  <2> HIDE DEF t
  <2>2. q \in Seq(Seq(Chars)) /\ Len(q) = 2  BY <2>1, Translated
  <2>3. q[1] = <<>> /\ q[2] = <<LF>>  BY <2>1, AsciiAssumption DEF Kept
  <2>4. FlattenSeq(q) = <<>> \o <<LF>>  BY <2>2, <2>3, JoinedFew
  <2>5. <<LF>> \in Seq({LF})  OBVIOUS
  <2>6. FlattenSeq(q) = <<LF>>  BY <2>4, <2>5, ConcatEmptySeq
  <2> QED  BY <2>6, Expanded DEF t
<1>2. ASSUME NEW c \in Chars PROVE Plain(<<c>>) = <<c>>
  <2> DEFINE t == <<c>>
             q == Kept(t)
  <2>1. t \in Seq(Chars) /\ Len(t) = 1 /\ t[1] = c  OBVIOUS
  <2> HIDE DEF t
  <2>2. q \in Seq(Seq(Chars)) /\ Len(q) = 1  BY <2>1, Translated
  <2>3. q[1] = <<c>>  BY <2>1 DEF Kept
  <2>4. FlattenSeq(q) = <<c>>  BY <2>2, <2>3, JoinedFew
  <2> QED  BY <2>4, Expanded DEF t
<1> QED  BY <1>1, <1>2

\* The one conversion undoes the other.
LEMMA PlainUndoes ==
    ASSUME NEW t \in Seq(Chars)
    PROVE  BinToAscii(t) \in Seq(Chars) /\ Plain(BinToAscii(t)) = t
<1> DEFINE q == Doubled(t)
           n == Len(t)
           B == Joined(q)
           Undone(k) == Plain(B[k]) = SubSeq(t, 1, k)
           S == {k \in Nat : k <= n => Undone(k)}
<1>1. /\ n \in Nat /\ \A i \in 1..n : t[i] \in Chars  BY Nth
<1>2. q \in Seq(Seq(Chars)) /\ Len(q) = n  BY Translated
<1>3. /\ B[0] = <<>> /\ BinToAscii(t) = B[n]
      /\ \A i \in 0..n : B[i] \in Seq(Chars)
      /\ \A i \in 1..n : B[i] = B[i - 1] \o q[i]
  BY <1>2, JoinedFacts, Expanded
<1>4. \A i \in 1..n : q[i] = IF t[i] = LF THEN <<CR, LF>> ELSE <<t[i]>>
  BY DEF Doubled
<1> HIDE DEF q, B, n, Undone
<1>5. 0 \in S
  <2>1. SubSeq(t, 1, 0) = <<>>  BY SubSeqEmpty
  <2>2. Plain(<<>>) = <<>>
    <3>1. <<>> \in Seq(Chars) /\ Len(<<>>) = 0  OBVIOUS
    <3>2. Kept(<<>>) = <<>>
      <4>1. Kept(<<>>) \in Seq(Seq(Chars)) /\ Len(Kept(<<>>)) = 0
        BY <3>1, Translated
      <4> QED  BY <4>1, EmptySeq
    <3>3. FlattenSeq(<<>>) = <<>>  BY DEF FlattenSeq
    <3> QED  BY <3>2, <3>3, Expanded
  <2>3. Undone(0)  BY <1>3, <2>1, <2>2 DEF Undone
  <2> QED  BY <2>3
<1>6. ASSUME NEW k \in Nat, k \in S PROVE k + 1 \in S
  <2>1. SUFFICES ASSUME k + 1 <= n PROVE Undone(k + 1)
    OBVIOUS
  <2>2. /\ k + 1 \in 1..n /\ (k + 1) - 1 = k /\ k \in 0..n /\ k <= n
    BY <1>1, <2>1
  <2>3. Plain(B[k]) = SubSeq(t, 1, k)
    <3>1. Undone(k)  BY <1>6, <2>2
    <3> QED  BY <3>1 DEF Undone
  <2> DEFINE c == t[k + 1]
             d == q[k + 1]
             u == B[k]
  <2>4. c \in Chars /\ d = IF c = LF THEN <<CR, LF>> ELSE <<c>>
    BY <1>1, <1>4, <2>2
  <2>5. u \in Seq(Chars) /\ B[k + 1] = u \o d  BY <1>3, <2>2
  <2> HIDE DEF c, d, u
  <2>6. d \in Seq(Chars) /\ d # <<>> /\ d[1] # LF /\ Plain(d) = <<c>>
    <3>1. CASE c = LF
      <4>1. d = <<CR, LF>>  BY <2>4, <3>1
      <4>2. Plain(d) = <<c>>  BY <3>1, <4>1, PlainOfDoubled
      <4>3. d \in Seq(Chars)  BY <4>1 DEF Chars
      <4>4. d # <<>> /\ d[1] # LF  BY <4>1, AsciiAssumption
      <4> QED  BY <4>2, <4>3, <4>4
    <3>2. CASE c # LF
      <4>1. d = <<c>>  BY <2>4, <3>2
      <4>2. Plain(d) = <<c>>  BY <2>4, <4>1, PlainOfDoubled
      <4>3. d \in Seq(Chars) /\ d # <<>> /\ d[1] # LF  BY <2>4, <3>2, <4>1
      <4> QED  BY <4>2, <4>3
    <3> QED  BY <3>1, <3>2
  <2>7. Plain(u \o d) = Plain(u) \o <<c>>  BY <2>5, <2>6, PlainOfConcat
  <2>8. SubSeq(t, 1, k + 1) = SubSeq(t, 1, k) \o <<c>>
    <3> DEFINE x == SubSeq(t, 1, k + 1)
               y == SubSeq(t, 1, k)
    <3>1. /\ x \in Seq(Chars) /\ Len(x) = k + 1
          /\ \A i \in 1..(k + 1) : x[i] = t[i]
      <4>1. k + 1 \in 0..Len(t)  BY <2>2 DEF n
      <4> QED  BY <4>1, PrefixFacts
    <3>2. y \in Seq(Chars) /\ Len(y) = k /\ \A i \in 1..k : y[i] = t[i]
      <4>1. k \in 0..Len(t)  BY <2>2 DEF n
      <4> QED  BY <4>1, PrefixFacts
    <3> HIDE DEF x, y
    <3> DEFINE z == Append(y, c)
    <3>3. /\ z \in Seq(Chars) /\ Len(z) = k + 1
          /\ \A i \in 1..k : z[i] = y[i]
          /\ z[k + 1] = c
      BY <2>4, <3>2, AppendProperties
    <3> HIDE DEF z
    <3>4. \A i \in 1..(k + 1) : x[i] = z[i]
      <4>1. ASSUME NEW i \in 1..(k + 1) PROVE x[i] = z[i]
        <5>1. CASE i = k + 1  BY <3>1, <3>3, <5>1 DEF c
        <5>2. CASE i # k + 1
          <6>1. i \in 1..k  BY <5>2
          <6> QED  BY <3>1, <3>2, <3>3, <6>1
        <5> QED  BY <5>1, <5>2
      <4> QED  BY <4>1
    <3>5. x = z  BY <3>1, <3>3, <3>4, SeqEqual
    <3>6. z = y \o <<c>>  BY <2>4, <3>2, AppendIsConcat DEF z
    <3> QED  BY <3>5, <3>6 DEF x, y
  <2> QED  BY <2>3, <2>5, <2>7, <2>8 DEF Undone, u
<1> HIDE DEF S
<1>7. n \in S  BY <1>1, <1>5, <1>6, Induction
<1>8. Undone(n)  BY <1>1, <1>7 DEF S
<1>9. Plain(B[n]) = t
  <2>1. SubSeq(t, 1, n) = t  BY Whole DEF n
  <2> QED  BY <1>8, <2>1 DEF Undone
<1>10. B[n] \in Seq(Chars)  BY <1>1, <1>3
<1> QED  BY <1>3, <1>9, <1>10

-----------------------------------------------------------------------------
(* The upload of a text in chunks.                                         *)

\* s is what the first a characters of t make, but for the last if it is held.
MadeOf(t, a, held, s) ==
    /\ s \in Seq(Chars)
    /\ IF held THEN a >= 1 /\ t[a] = CR /\ s = Joined(Kept(t))[a - 1]
       ELSE s = Joined(Kept(t))[a]

LEMMA KeptFacts ==
    ASSUME NEW t \in Seq(Chars)
    PROVE  /\ Len(t) \in Nat /\ Len(Kept(t)) = Len(t) /\ Kept(t) \in Seq(Seq(Chars))
           /\ Joined(Kept(t))[0] = <<>>
           /\ \A i \in 0..Len(t) : Joined(Kept(t))[i] \in Seq(Chars)
           /\ \A i \in 1..Len(t) :
                 Joined(Kept(t))[i] = Joined(Kept(t))[i - 1] \o Kept(t)[i]
           /\ Plain(t) = Joined(Kept(t))[Len(t)]
<1> DEFINE q == Kept(t)
<1>1. Len(t) \in Nat /\ Len(q) = Len(t) /\ q \in Seq(Seq(Chars))
  BY Translated
<1>2. Plain(t) = FlattenSeq(q)  BY Expanded
<1> HIDE DEF q
<1>3. /\ Joined(q)[0] = <<>> /\ FlattenSeq(q) = Joined(q)[Len(q)]
      /\ \A i \in 0..Len(q) : Joined(q)[i] \in Seq(Chars)
      /\ \A i \in 1..Len(q) : Joined(q)[i] = Joined(q)[i - 1] \o q[i]
  BY <1>1, JoinedFacts
<1> QED  BY <1>1, <1>2, <1>3 DEF q

LEMMA Converted ==
    ASSUME NEW x, NEW y, NEW c, c = [stored |-> x, last_was_cr |-> y]
    PROVE  c.stored = x /\ c.last_was_cr = y
OBVIOUS

LEMMA ChunkStep ==
    ASSUME NEW t \in Seq(Chars), NEW a \in Nat, NEW n \in Nat, n >= 1,
           a + n <= Len(t), NEW held \in BOOLEAN, NEW s, MadeOf(t, a, held, s),
           NEW c, c = AsciiToBin(SubSeq(t, a + 1, a + n), held)
    PROVE  MadeOf(t, a + n, c.last_was_cr, s \o c.stored)
<1> DEFINE p == SubSeq(t, a + 1, a + n)
           K == Kept(t)
           J == Joined(K)
           R == KeptOfChunk(p)
           H == IF held /\ p[1] # LF THEN <<CR>> ELSE <<>>
           last == t[a + n] = CR
           m == IF last THEN n - 1 ELSE n
           z == Len(t)
<1>1. p \in Seq(Chars) /\ Len(p) = n /\ \A i \in 1..n : p[i] = t[a + i]
  BY PieceFacts
<1>2. p # <<>>
  <2>1. n # 0  OBVIOUS
  <2> QED  BY <1>1, <2>1, EmptySeq
<1>3. c.stored = H \o FlattenSeq(R) /\ c.last_was_cr = last
  <2> DEFINE x == H \o FlattenSeq(R)
             y == p # <<>> /\ p[Len(p)] = CR
  <2>1. c = [stored |-> x, last_was_cr |-> y]  BY <1>2, Expanded
  <2>2. p[Len(p)] = t[a + n]  BY <1>1
  <2>3. y = last  BY <1>2, <2>2
  <2> HIDE DEF x, y
  <2>4. c.stored = x /\ c.last_was_cr = y  BY <2>1, Converted
  <2> QED  BY <2>3, <2>4 DEF x
<1>4. /\ z \in Nat /\ K \in Seq(Seq(Chars)) /\ Len(K) = z
      /\ \A i \in 0..z : J[i] \in Seq(Chars)
      /\ \A i \in 1..z : J[i] = J[i - 1] \o K[i]
  BY KeptFacts
<1>5. \A i \in 1..z : K[i] = IF t[i] = CR /\ i < z /\ t[i + 1] = LF
                             THEN <<>> ELSE <<t[i]>>
  BY DEF Kept
<1>6. \A i \in 1..n : R[i] = IF p[i] = CR /\ (i = n \/ p[i + 1] = LF)
                             THEN <<>> ELSE <<p[i]>>
  BY <1>1 DEF KeptOfChunk
<1>7. R \in Seq(Seq(Chars)) /\ Len(R) = n  BY <1>1, Translated
<1>8. a + n <= z  OBVIOUS
<1> HIDE DEF p, K, J, R, H, z
<1>9. s \o H = J[a] /\ J[a] \in Seq(Chars) /\ s \in Seq(Chars) /\ H \in Seq(Chars)
  <2>1. s \in Seq(Chars)  BY DEF MadeOf
  <2>2. a \in 0..z /\ J[a] \in Seq(Chars)  BY <1>4, <1>8
  <2>3. CASE held
    <3>1. a >= 1 /\ t[a] = CR /\ s = J[a - 1]  BY <2>3 DEF MadeOf, J, K
    <3>2. a \in 1..z /\ a < z /\ 1 \in 1..n  BY <1>4, <1>8, <3>1
    <3>3. p[1] = t[a + 1]  BY <1>1, <3>2
    <3>4. K[a] = H  BY <1>5, <2>3, <3>1, <3>2, <3>3 DEF H
    <3>5. H \in Seq(Chars)
      <4>1. <<CR>> \in Seq(Chars) /\ <<>> \in Seq(Chars)  BY DEF Chars
      <4>2. H = <<CR>> \/ H = <<>>  BY DEF H
      <4> QED  BY <4>1, <4>2
    <3> QED  BY <1>4, <2>1, <2>2, <3>1, <3>2, <3>4, <3>5
  <2>4. CASE ~held
    <3>1. s = J[a] /\ H = <<>>  BY <2>4 DEF MadeOf, J, K, H
    <3>2. <<>> \in Seq(Chars)  OBVIOUS
    <3> QED  BY <2>1, <2>2, <3>1, <3>2, ConcatEmptySeq
  <2> QED  BY <2>3, <2>4
<1>10. m \in Nat /\ m <= n /\ a + m <= z  BY <1>4, <1>8
<1>11. Continues(K, R, a, m)
  <2>1. ASSUME NEW j \in 1..m PROVE K[a + j] = R[j]
    <3>1. /\ j \in 1..n /\ a + j \in 1..z
          /\ (a + j) + 1 = a + (j + 1)
      BY <1>4, <1>8, <1>10
    <3>2. p[j] = t[a + j]  BY <1>1, <3>1
    <3>3. CASE j < n
      <4>1. j + 1 \in 1..n /\ a + j < z /\ j # n  BY <1>4, <1>8, <3>1, <3>3
      <4>2. p[j + 1] = t[(a + j) + 1]  BY <1>1, <3>1, <4>1
      <4> QED  BY <1>5, <1>6, <3>1, <3>2, <4>1, <4>2
    <3>4. CASE ~(j < n)
      <4>1. j = n /\ ~last  BY <3>1, <3>4
      <4>2. t[a + j] # CR  BY <4>1
      <4> QED  BY <1>5, <1>6, <3>1, <3>2, <4>2
    <3> QED  BY <3>3, <3>4
  <2> QED  BY <1>4, <1>7, <1>10, <2>1 DEF Continues
<1>12. J[a + m] = J[a] \o Joined(R)[m]
  <2> HIDE DEF m
  <2>1. GoesOn(K, R, a, m)  BY <1>4, <1>7, <1>10, <1>11, JoinedShift
  <2> QED  BY <2>1 DEF GoesOn, J
<1>13. FlattenSeq(R) = Joined(R)[m] /\ FlattenSeq(R) \in Seq(Chars)
  <2>1. /\ FlattenSeq(R) = Joined(R)[n]
        /\ \A i \in 0..n : Joined(R)[i] \in Seq(Chars)
        /\ \A i \in 1..n : Joined(R)[i] = Joined(R)[i - 1] \o R[i]
    BY <1>7, JoinedFacts
  <2>2. n \in 1..n /\ n \in 0..n /\ n - 1 \in 0..n  OBVIOUS
  <2>3. CASE last
    <3>1. p[n] = CR  BY <1>1, <2>2, <2>3
    <3>2. R[n] = <<>>  BY <1>6, <2>2, <3>1
    <3>3. Joined(R)[n] = Joined(R)[n - 1]
      <4> DEFINE x == Joined(R)[n - 1]
      <4>1. Joined(R)[n] = x \o <<>> /\ x \in Seq(Chars)  BY <2>1, <2>2, <3>2
      <4> HIDE DEF x
      <4>2. x \o <<>> = x  BY <4>1, ConcatEmptySeq
      <4> QED  BY <4>1, <4>2 DEF x
    <3> QED  BY <2>1, <2>2, <2>3, <3>3
  <2>4. CASE ~last
    BY <2>1, <2>2, <2>4
  <2> QED  BY <2>3, <2>4
<1>14. s \o c.stored = J[a + m]
  <2> DEFINE f == FlattenSeq(R)
  <2>1. f \in Seq(Chars)  BY <1>13
  <2>2. c.stored = H \o f  BY <1>3
  <2> HIDE DEF f
  <2>3. s \o (H \o f) = (s \o H) \o f
    <3>1. s \in Seq(Chars) /\ H \in Seq(Chars)  BY <1>9
    <3> QED  BY ONLY <2>1, <3>1, ConcatAssociative
  <2>4. J[a] \o f = J[a + m]  BY <1>12, <1>13 DEF f
  <2> QED  BY <1>9, <2>2, <2>3, <2>4
<1>15. J[a + m] \in Seq(Chars)  BY <1>4, <1>10
<1>16. CASE last
  <2>1. a + m = (a + n) - 1 /\ a + n >= 1  BY <1>16
  <2>2. c.last_was_cr = TRUE /\ t[a + n] = CR  BY <1>3, <1>16
  <2>3. s \o c.stored = J[(a + n) - 1] /\ J[(a + n) - 1] \in Seq(Chars)
    BY <1>14, <1>15, <2>1
  <2> QED  BY <2>1, <2>2, <2>3 DEF MadeOf, J, K
<1>17. CASE ~last
  <2>1. a + m = a + n /\ c.last_was_cr = FALSE  BY <1>3, <1>17
  <2>2. s \o c.stored = J[a + n] /\ J[a + n] \in Seq(Chars)  BY <1>14, <1>15, <2>1
  <2> QED  BY <2>1, <2>2 DEF MadeOf, J, K
<1> QED  BY <1>16, <1>17

\* The end of the data brings what was held.
LEMMA EndStep ==
    ASSUME NEW t \in Seq(Chars), NEW s, MadeOf(t, Len(t), TRUE, s),
           NEW c, c = AsciiToBin(SubSeq(t, Len(t) + 1, Len(t) + 0), TRUE)
    PROVE  c.last_was_cr = FALSE /\ MadeOf(t, Len(t), FALSE, s \o c.stored)
<1> DEFINE a == Len(t)
           p == SubSeq(t, a + 1, a + 0)
           J == Joined(Kept(t))
<1>1. a \in Nat  BY Nth
<1>2. p = <<>>
  <2>1. a + 0 <= Len(t) /\ a \in Nat /\ 0 \in Nat  BY <1>1
  <2> HIDE DEF a
  <2>2. p \in Seq(Chars) /\ Len(p) = 0  BY <2>1, PieceFacts
  <2> QED  BY <2>2, EmptySeq
<1>3. c.stored = <<CR>> /\ c.last_was_cr = FALSE
  <2>1. KeptOfChunk(<<>>) = <<>>
    <3>1. <<>> \in Seq(Chars) /\ Len(<<>>) = 0  OBVIOUS
    <3>2. KeptOfChunk(<<>>) \in Seq(Seq(Chars)) /\ Len(KeptOfChunk(<<>>)) = 0
      BY <3>1, Translated
    <3> QED  BY <3>2, EmptySeq
  <2>2. FlattenSeq(<<>>) = <<>>  BY DEF FlattenSeq
  <2>3. c = AsciiToBin(<<>>, TRUE)  BY <1>2
  <2> DEFINE x == <<CR>> \o <<>>
             y == FALSE
  <2>4. c = [stored |-> x, last_was_cr |-> y]
    BY <2>1, <2>2, <2>3, Expanded
  <2>5. <<CR>> \in Seq(Chars)  BY DEF Chars
  <2>6. x = <<CR>>  BY <2>5, ConcatEmptySeq
  <2> HIDE DEF x, y
  <2>7. c.stored = x /\ c.last_was_cr = y  BY ONLY <2>4, Converted
  <2> QED  BY <2>6, <2>7 DEF y
<1>4. a >= 1 /\ t[a] = CR /\ s = J[a - 1] /\ s \in Seq(Chars)  BY DEF MadeOf
<1>5. a \in 1..a  BY <1>1, <1>4
<1>6. Kept(t)[a] = <<CR>>  BY <1>4, <1>5 DEF Kept
<1>7. J[a] = J[a - 1] \o Kept(t)[a] /\ J[a] \in Seq(Chars)
  <2>1. a \in 0..a  BY <1>1
  <2> QED  BY <1>5, <2>1, KeptFacts
<1>8. s \o c.stored = J[a]  BY <1>3, <1>4, <1>6, <1>7
<1> HIDE DEF a
<1>9. MadeOf(t, a, FALSE, s \o c.stored)  BY <1>7, <1>8 DEF MadeOf
<1> QED  BY <1>3, <1>9 DEF a

\* What is written is what the text as a whole makes, so far.
AsciiInv ==
    /\ file \in Seq(Chars) /\ sent \in Seq(Chars)
    /\ taken \in 0..Len(sent) /\ prev_cr \in BOOLEAN
    /\ phase \in {"idle", "receive", "stored"}
    /\ phase = "idle" =>
           sent = <<>> /\ taken = 0 /\ prev_cr = FALSE /\ stored = <<>>
    /\ phase = "stored" => taken = Len(sent) /\ prev_cr = FALSE
    /\ MadeOf(sent, taken, prev_cr, stored)

LEMMA BeginUploadStep ==
    ASSUME AsciiInv, BeginUpload
    PROVE  AsciiInv'
<1>1. /\ sent = <<>> /\ taken = 0 /\ prev_cr = FALSE /\ stored = <<>>
      /\ taken' = 0 /\ prev_cr' = FALSE /\ stored' = <<>> /\ phase' = "receive"
  BY DEF AsciiInv, BeginUpload
<1>2. file' \in Seq(Chars)
  <2>1. PICK k \in 0..MaxText : file' \in [1..k -> Chars]
    BY DEF BeginUpload, TextsUpTo
  <2>2. k \in Nat  OBVIOUS
  <2> QED  BY <2>1, <2>2, SeqDef
<1>3. sent' \in Seq(Chars)
  <2>1. sent' = file' \/ sent' = BinToAscii(file')  BY DEF BeginUpload
  <2> QED  BY <1>2, <2>1, PlainUndoes
<1>4. Len(sent') \in Nat /\ Joined(Kept(sent'))[0] = <<>>  BY <1>3, KeptFacts
<1>5. <<>> \in Seq(Chars)  OBVIOUS
<1>6. MadeOf(sent', taken', prev_cr', stored')  BY <1>1, <1>4, <1>5 DEF MadeOf
<1>7. taken' \in 0..Len(sent')  BY <1>1, <1>4
<1> QED  BY <1>1, <1>2, <1>3, <1>6, <1>7 DEF AsciiInv

LEMMA RecvChunkStep ==
    ASSUME AsciiInv, RecvChunk
    PROVE  AsciiInv'
<1>1. PICK n \in 1..BufSize : taken + n <= Len(sent) /\ Convert(n)
  BY DEF RecvChunk
<1> DEFINE c == AsciiToBin(SubSeq(sent, taken + 1, taken + n), prev_cr)
<1>2. /\ sent \in Seq(Chars) /\ taken \in Nat /\ n \in Nat /\ n >= 1
      /\ prev_cr \in BOOLEAN /\ MadeOf(sent, taken, prev_cr, stored)
      /\ Len(sent) \in Nat
  BY Nth DEF AsciiInv
<1>3. /\ stored' = stored \o c.stored /\ prev_cr' = c.last_was_cr
      /\ taken' = taken + n /\ file' = file /\ sent' = sent /\ phase' = phase
      /\ phase = "receive"
  BY <1>1 DEF Convert, RecvChunk
<1>4. prev_cr' \in BOOLEAN  BY <1>3 DEF AsciiToBin
<1> HIDE DEF c
<1>5. MadeOf(sent, taken + n, c.last_was_cr, stored \o c.stored)
  BY <1>1, <1>2, ChunkStep DEF c
<1>6. taken' \in 0..Len(sent)  BY <1>1, <1>2, <1>3
<1>7. MadeOf(sent', taken', prev_cr', stored')  BY <1>3, <1>5
<1> QED  BY <1>3, <1>4, <1>6, <1>7 DEF AsciiInv

LEMMA RecvEndStep ==
    ASSUME AsciiInv, RecvEnd
    PROVE  AsciiInv'
<1>1. phase = "receive" /\ taken = Len(sent)  BY DEF RecvEnd
<1>2. CASE prev_cr
  <2> DEFINE c == AsciiToBin(SubSeq(sent, Len(sent) + 1, Len(sent) + 0), TRUE)
  <2>1. prev_cr = TRUE  BY <1>2
  <2>2. Convert(0)  BY <1>2 DEF RecvEnd
  <2>3. /\ stored' = stored \o c.stored /\ prev_cr' = c.last_was_cr
        /\ taken' = taken + 0 /\ file' = file /\ sent' = sent /\ phase' = phase
    BY <1>1, <2>1, <2>2 DEF Convert
  <2>4. sent \in Seq(Chars) /\ MadeOf(sent, Len(sent), TRUE, stored)
        /\ Len(sent) \in Nat
    BY <1>1, <2>1, Nth DEF AsciiInv
  <2> HIDE DEF c
  <2>5. c.last_was_cr = FALSE /\ MadeOf(sent, Len(sent), FALSE, stored \o c.stored)
    BY <2>4, EndStep DEF c
  <2>6. taken' = Len(sent) /\ Len(sent) \in 0..Len(sent)  BY <1>1, <2>3, <2>4
  <2>7. MadeOf(sent', taken', prev_cr', stored')  BY <2>3, <2>5, <2>6
  <2> QED  BY <1>1, <2>3, <2>5, <2>6, <2>7 DEF AsciiInv
<1>3. CASE ~prev_cr
  <2>1. phase' = "stored" /\ UNCHANGED <<file, sent, taken, prev_cr, stored>>
    BY <1>3 DEF RecvEnd
  <2> QED  BY <1>1, <1>3, <2>1 DEF AsciiInv
<1> QED  BY <1>2, <1>3

LEMMA AsciiInvAlways == AsciiSpec => []AsciiInv
<1>1. AsciiInit => AsciiInv
  <2> SUFFICES ASSUME AsciiInit PROVE AsciiInv  OBVIOUS
  <2>1. <<>> \in Seq(Chars) /\ Len(<<>>) = 0  OBVIOUS
  <2>2. /\ file = <<>> /\ sent = <<>> /\ taken = 0 /\ prev_cr = FALSE
        /\ stored = <<>> /\ phase = "idle"
    BY DEF AsciiInit
  <2>3. MadeOf(sent, taken, prev_cr, stored)  BY <2>1, <2>2, KeptFacts DEF MadeOf
  <2>4. taken \in 0..Len(sent)  BY <2>1, <2>2
  <2> QED  BY <2>1, <2>2, <2>3, <2>4 DEF AsciiInv
<1>2. AsciiInv /\ [AsciiNext]_asciiVars => AsciiInv'
  <2> SUFFICES ASSUME AsciiInv, [AsciiNext]_asciiVars PROVE AsciiInv'  OBVIOUS
  <2>1. CASE UNCHANGED asciiVars  BY <2>1 DEF AsciiInv, asciiVars
  <2> QED  BY <2>1, BeginUploadStep, RecvChunkStep, RecvEndStep
           DEF AsciiNext, AsciiDone
<1> QED  BY <1>1, <1>2, PTL DEF AsciiSpec

\* A carriage return that is held is the last of what has come.
LEMMA HeldMakesText ==
    ASSUME NEW t \in Seq(Chars), NEW a \in 0..Len(t), NEW s, MadeOf(t, a, TRUE, s)
    PROVE  s \o <<CR>> = Plain(SubSeq(t, 1, a))
<1> DEFINE v == SubSeq(t, 1, a)
           K == Kept(t)
           J == Joined(K)
           U == Joined(Kept(v))
           b == a - 1
<1>1. a >= 1 /\ t[a] = CR /\ s = J[b] /\ a \in Nat  BY DEF MadeOf
<1>2. v \in Seq(Chars) /\ Len(v) = a /\ \A i \in 1..a : v[i] = t[i]
  BY PrefixFacts
<1>3. /\ K \in Seq(Seq(Chars)) /\ Len(K) = Len(t) /\ Len(t) \in Nat
  BY KeptFacts
<1> HIDE DEF v, K, J
<1>4. /\ Kept(v) \in Seq(Seq(Chars)) /\ Len(Kept(v)) = a
      /\ \A i \in 1..a : U[i] = U[i - 1] \o Kept(v)[i]
      /\ Plain(v) = U[a]
  BY <1>2, KeptFacts
<1>5. b \in Nat /\ a \in 1..a /\ b <= a /\ b <= Len(t)  BY <1>1, <1>3
<1>6. Continues(K, Kept(v), 0, b)
  <2>1. ASSUME NEW i \in 1..b PROVE K[i] = Kept(v)[i]
    <3>1. i \in 1..a /\ i + 1 \in 1..a /\ i < a /\ i < Len(t) /\ i \in 1..Len(t)
      BY <1>1, <1>3
    <3>2. v[i] = t[i] /\ v[i + 1] = t[i + 1]  BY <1>2, <3>1
    <3>3. K[i] = IF t[i] = CR /\ t[i + 1] = LF THEN <<>> ELSE <<t[i]>>
      BY <3>1 DEF K, Kept
    <3>4. Kept(v)[i] = IF v[i] = CR /\ v[i + 1] = LF THEN <<>> ELSE <<v[i]>>
      BY <1>2, <3>1 DEF Kept
    <3> QED  BY <3>2, <3>3, <3>4
  <2>2. \A i \in 1..b : 0 + i = i  OBVIOUS
  <2>3. 0 + b = b  BY <1>5
  <2> QED  BY <1>3, <1>4, <1>5, <2>1, <2>2, <2>3 DEF Continues
<1>7. J[b] = U[b]
  <2> HIDE DEF b
  <2> QED  BY <1>3, <1>4, <1>5, <1>6, JoinedAlike DEF J
<1>8. Kept(v)[a] = <<CR>>
  <2>1. v[a] = CR /\ a \in 1..Len(v) /\ ~(a < Len(v))  BY <1>1, <1>2, <1>5
  <2> QED  BY <2>1 DEF Kept
<1> QED  BY <1>1, <1>4, <1>5, <1>7, <1>8 DEF v

\* However an upload in ASCII mode is cut into chunks, the file of the server
\* gets the text with each CR LF made LF and no other carriage return removed,
\* and one at the end of a chunk is neither lost nor doubled (utils.c 108).
THEOREM ChunksMakeTheTextAlways == AsciiSpec => []ChunksMakeTheText
<1>1. AsciiInv => ChunksMakeTheText
  <2> SUFFICES ASSUME AsciiInv PROVE ChunksMakeTheText  OBVIOUS
  <2>1. ASSUME phase = "receive", prev_cr
        PROVE  stored \o <<CR>> = Plain(SubSeq(sent, 1, taken))
    <3>1. prev_cr = TRUE  BY <2>1 DEF AsciiInv
    <3> QED  BY <3>1, HeldMakesText DEF AsciiInv
  <2>2. ASSUME phase = "stored" PROVE stored = Plain(sent)
    <3>1. stored = Joined(Kept(sent))[Len(sent)]  BY <2>2 DEF AsciiInv, MadeOf
    <3> QED  BY <3>1, KeptFacts DEF AsciiInv
  <2> QED  BY <2>1, <2>2 DEF ChunksMakeTheText
<1> QED  BY <1>1, AsciiInvAlways, PTL

\* A file that a client converts for the way and the server converts back is
\* stored as it was, with whatever line ends it had (utils.c 87, 108).
THEOREM RoundTripAlways == AsciiSpec => []RoundTrip
<1>1. AsciiInv => RoundTrip
  <2> SUFFICES ASSUME AsciiInv, phase = "stored", sent = BinToAscii(file)
               PROVE  stored = file
    BY DEF RoundTrip
  <2>1. stored = Joined(Kept(sent))[Len(sent)]  BY DEF AsciiInv, MadeOf
  <2>2. stored = Plain(sent)  BY <2>1, KeptFacts DEF AsciiInv
  <2> QED  BY <2>2, PlainUndoes DEF AsciiInv
<1> QED  BY <1>1, AsciiInvAlways, PTL

-----------------------------------------------------------------------------
(* Lines, and what is heard of them.                                       *)

Commands == [name : Letters, arg : Args]
Bytes == Letters \cup {SP, EndCR, EndLF}

\* What the loop should get of a command.
Echo(c) == [name |-> <<c.name>>, arg |-> c.arg]
Echoes == {Echo(c) : c \in Commands}

LEMMA Least ==
    ASSUME NEW S, S \subseteq Nat, NEW m \in S, \A y \in S : m <= y
    PROVE  Min(S) = m
<1> DEFINE x == CHOOSE x \in S : \A y \in S : x <= y
<1>1. x \in S /\ \A y \in S : x <= y  OBVIOUS
<1> HIDE DEF x
<1>2. x <= m /\ m <= x /\ x \in Nat /\ m \in Nat  BY <1>1
<1>3. x = m  BY <1>2
<1> QED  BY <1>3 DEF x, Min

\* j is the first place from i on where s has one of the set, or its end.
FirstAt(s, i, set, j) ==
    /\ (j \in i..Len(s) /\ s[j] \in set) \/ j = Len(s) + 1
    /\ \A k \in i..Len(s) : s[k] \in set => j <= k

LEMMA FirstIsLeast ==
    ASSUME NEW S, NEW s \in Seq(S), NEW i \in Nat, NEW set, NEW j \in Nat,
           FirstAt(s, i, set, j)
    PROVE  Min({k \in i..Len(s) : s[k] \in set} \cup {Len(s) + 1}) = j
<1> DEFINE n == Len(s)
           F == {k \in i..n : s[k] \in set} \cup {n + 1}
<1>1. n \in Nat  BY Nth
<1>2. /\ (j \in i..n /\ s[j] \in set) \/ j = n + 1
      /\ \A k \in i..n : s[k] \in set => j <= k
  BY DEF FirstAt
<1> HIDE DEF n
<1>3. F \subseteq Nat  BY <1>1
<1>4. j \in F  BY <1>2
<1>5. \A y \in F : j <= y  BY <1>1, <1>2
<1> HIDE DEF F
<1>6. Min(F) = j  BY <1>3, <1>4, <1>5, Least
<1> QED  BY <1>6 DEF F, n

LEMMA TokenIs ==
    ASSUME NEW S, NEW s \in Seq(S), NEW i \in Nat \ {0},
           NEW first \in Nat, NEW end \in Nat, NEW separators,
           FirstAt(s, i, S \ separators, first), FirstAt(s, first, separators, end)
    PROVE  Token(s, i, separators) =
               [text |-> SubSeq(s, first, end - 1), next |-> end + 1]
<1> DEFINE F == {j \in i..Len(s) : s[j] \notin separators}
           E == {j \in first..Len(s) : s[j] \in separators}
<1>1. Len(s) \in Nat /\ \A j \in 1..Len(s) : s[j] \in S  BY Nth
<1>2. F = {j \in i..Len(s) : s[j] \in S \ separators}
  <2>1. \A j \in i..Len(s) : s[j] \in S  BY <1>1
  <2> QED  BY <2>1
<1>3. Min(F \cup {Len(s) + 1}) = first  BY <1>2, FirstIsLeast
<1>4. Min(E \cup {Len(s) + 1}) = end  BY FirstIsLeast
<1> QED  BY <1>3, <1>4 DEF Token

\* One that fits the buffer and has no NUL is found there as it came.
LEMMA FilledHasIt ==
    ASSUME NEW p \in Seq(Bytes), Len(p) < BufLen
    PROVE  Strings(Filled(p)) = {p}
<1> DEFINE n == Len(p)
           b == Filled(p)
           S == Bytes \cup {NUL}
           N == {i \in 1..BufLen : b[i] = NUL} \cup {BufLen + 1}
<1>1. n \in Nat /\ BufLen \in Nat /\ n < BufLen /\ \A i \in 1..n : p[i] \in Bytes
  BY Nth, CmdIOAssumption
<1>2. NUL \notin Bytes  BY CmdIOAssumption DEF Bytes
<1>3. b = [i \in 1..BufLen |-> IF i <= n THEN p[i] ELSE NUL]  BY DEF Filled
<1> HIDE DEF n, b
<1>4. \A i \in 1..BufLen : b[i] \in S
  <2>1. \A i \in 1..BufLen : i <= n => i \in 1..n  BY <1>1
  <2> QED  BY <1>1, <1>3, <2>1
<1>5. b \in Seq(S) /\ Len(b) = BufLen
  <2>1. b \in [1..BufLen -> S]  BY <1>3, <1>4
  <2>2. b \in Seq(S)  BY <1>1, <2>1, SeqDef
  <2> QED  BY <1>1, <2>1, <2>2, LenProperties
<1>6. Min(N) = n + 1
  <2>1. N \subseteq Nat  BY <1>1
  <2>2. n + 1 \in N  BY <1>1, <1>3
  <2>3. \A i \in 1..BufLen : b[i] = NUL => n + 1 <= i
    <3>1. \A i \in 1..BufLen : i <= n => b[i] \in Bytes
      <4>1. \A i \in 1..BufLen : i <= n => i \in 1..n  BY <1>1
      <4> QED  BY <1>1, <1>3, <4>1
    <3>2. \A i \in 1..BufLen : ~(i <= n) => n + 1 <= i  BY <1>1
    <3> QED  BY <1>2, <3>1, <3>2
  <2>4. \A i \in N : n + 1 <= i  BY <1>1, <2>3
  <2> HIDE DEF N
  <2> QED  BY <2>1, <2>2, <2>4, Least
<1>7. SubSeq(b, 1, n) = p
  <2>1. n \in 0..Len(b) /\ \A i \in 1..n : b[i] = p[i]  BY <1>1, <1>3, <1>5
  <2> DEFINE v == SubSeq(b, 1, n)
  <2>2. v \in Seq(S) /\ Len(v) = n /\ \A i \in 1..n : v[i] = b[i]
    <3> HIDE DEF S
    <3> QED  BY <1>5, <2>1, PrefixFacts
  <2>3. p \in Seq(S)  OBVIOUS
  <2> HIDE DEF v, S
  <2>4. v = p  BY <2>1, <2>2, <2>3, SeqEqual DEF n
  <2> QED  BY <2>4 DEF v
<1>8. Strings(b) = IF Min(N) <= BufLen THEN {SubSeq(b, 1, Min(N) - 1)}
                   ELSE {b \o junk : junk \in {<<>>} \cup {<<c>> : c \in Letters}}
  BY DEF Strings
<1>9. n + 1 <= BufLen /\ (n + 1) - 1 = n  BY <1>1
<1> HIDE DEF N
<1>10. Strings(b) = {SubSeq(b, 1, n)}  BY <1>6, <1>8, <1>9
<1> QED  BY <1>7, <1>10 DEF b

\* The name is found with or without the line end behind it.
LEMMA SqueezedName ==
    ASSUME NEW l \in Letters
    PROVE  Squeezed(<<l>>) = <<l>> /\ Squeezed(<<l, EndCR, EndLF>>) = <<l>>
<1>1. l \notin {EndCR, EndLF}  BY CmdIOAssumption
<1>2. <<>> \in Seq(Letters) /\ <<l>> \in Seq(Letters)  OBVIOUS
<1>3. Squeezed(<<l>>) = <<l>>
  <2> DEFINE q == [i \in 1..1 |-> <<l>>]
  <2>1. Squeezed(<<l>>) = FlattenSeq(q)
    <3>1. Len(<<l>>) = 1 /\ \A i \in 1..1 : <<l>>[i] = l  OBVIOUS
    <3>2. q = [i \in 1..Len(<<l>>) |->
                 IF <<l>>[i] \in {EndCR, EndLF} THEN <<>> ELSE << <<l>>[i] >>]
      BY <1>1, <3>1
    <3> QED  BY <3>2 DEF Squeezed
  <2>2. q[1] = <<l>> /\ q = [i \in 1..1 |-> q[i]]
        /\ \A i \in 1..1 : q[i] \in Seq(Letters)
    BY <1>2
  <2> HIDE DEF q
  <2>3. q \in Seq(Seq(Letters)) /\ Len(q) = 1  BY <2>2, SeqOfSeqs
  <2> QED  BY <2>1, <2>2, <2>3, JoinedFew
<1>4. Squeezed(<<l, EndCR, EndLF>>) = <<l>>
  <2> DEFINE t == <<l, EndCR, EndLF>>
             q == [i \in 1..3 |->
                      IF t[i] \in {EndCR, EndLF} THEN <<>> ELSE <<t[i]>>]
  <2>1. Len(t) = 3 /\ t[1] = l /\ t[2] = EndCR /\ t[3] = EndLF  OBVIOUS
  <2> HIDE DEF t
  <2>2. Squeezed(t) = FlattenSeq(q)  BY <2>1 DEF Squeezed
  <2>3. q[1] = <<l>> /\ q[2] = <<>> /\ q[3] = <<>>  BY <1>1, <2>1
  <2>4. q = [i \in 1..3 |-> q[i]] /\ \A i \in 1..3 : q[i] \in Seq(Letters)
    <3>1. \A i \in 1..3 : i = 1 \/ i = 2 \/ i = 3  OBVIOUS
    <3> QED  BY <1>2, <2>3, <3>1
  <2> HIDE DEF q
  <2>5. q \in Seq(Seq(Letters)) /\ Len(q) = 3  BY <2>4, SeqOfSeqs
  <2>6. FlattenSeq(q) = (<<l>> \o <<>>) \o <<>>  BY <2>3, <2>5, JoinedFew
  <2>7. <<l>> \o <<>> = <<l>>  BY <1>2, ConcatEmptySeq
  <2>8. FlattenSeq(q) = <<l>>  BY <2>6, <2>7
  <2> QED  BY <2>2, <2>8 DEF t
<1> QED  BY <1>3, <1>4

LEMMA CommandFacts ==
    ASSUME NEW c \in Commands
    PROVE  /\ c.name \in Letters /\ c.arg \in Seq(Letters \cup {SP})
           /\ Echo(c) \in Echoes
<1>1. c.name \in Letters /\ c.arg \in Args  BY DEF Commands
<1>2. PICK k \in 0..MaxArg : c.arg \in [1..k -> Letters \cup {SP}]
  BY <1>1 DEF Args
<1>3. k \in Nat  OBVIOUS
<1>4. c.arg \in Seq(Letters \cup {SP})  BY <1>2, <1>3, SeqDef
<1> QED  BY <1>1, <1>4 DEF Echoes

\* A line without an argument, and one with.
LEMMA LineFacts ==
    ASSUME NEW c \in Commands
    PROVE  /\ Line(c) \in Seq(Bytes)
           /\ c.arg = <<>> => Line(c) = <<c.name, EndCR, EndLF>>
           /\ c.arg # <<>> =>
                 /\ Len(Line(c)) = Len(c.arg) + 4
                 /\ Line(c)[1] = c.name /\ Line(c)[2] = SP
                 /\ \A i \in 1..Len(c.arg) : Line(c)[i + 2] = c.arg[i]
                 /\ Line(c)[Len(c.arg) + 3] = EndCR
<1> DEFINE l == c.name
           a == c.arg
           m == Len(a)
           e == <<EndCR, EndLF>>
<1>1. l \in Letters /\ a \in Seq(Letters \cup {SP})  BY CommandFacts
<1>2. Line(c) = (<<l>> \o (IF a = <<>> THEN <<>> ELSE <<SP>> \o a)) \o e
  BY DEF Line
<1>3. /\ <<l>> \in Seq(Bytes) /\ <<SP>> \in Seq(Bytes) /\ a \in Seq(Bytes)
      /\ e \in Seq(Bytes)
  BY <1>1 DEF Bytes
<1>4. /\ Len(<<l>>) = 1 /\ <<l>>[1] = l /\ Len(<<SP>>) = 1 /\ <<SP>>[1] = SP
      /\ Len(e) = 2 /\ e[1] = EndCR
  OBVIOUS
<1>5. CASE a = <<>>
  <2>1. <<l>> \o <<>> = <<l>>  BY <1>3, ConcatEmptySeq
  <2>2. Line(c) = <<l>> \o e  BY <1>2, <1>5, <2>1
  <2> DEFINE y == <<l, EndCR, EndLF>>
             x == <<l>> \o e
  <2>3. y \in Seq(Bytes)  BY <1>1 DEF Bytes
  <2>4. x = y
    <3>1. Len(y) = 3 /\ y[1] = l /\ y[2] = EndCR /\ y[3] = EndLF  OBVIOUS
    <3>2. e[2] = EndLF  OBVIOUS
    <3> HIDE DEF e, y
    <3>3. /\ x \in Seq(Bytes) /\ Len(x) = 1 + 2
          /\ \A i \in 1..(1 + 2) : x[i] = IF i <= 1 THEN <<l>>[i] ELSE e[i - 1]
      BY <1>3, <1>4, ConcatProperties
    <3> HIDE DEF x
    <3>4. 1 + 2 = 3 /\ 2 - 1 = 1 /\ 3 - 1 = 2  OBVIOUS
    <3>5. x[1] = l /\ x[2] = EndCR /\ x[3] = EndLF  BY <1>4, <3>2, <3>3, <3>4
    <3>6. \A i \in 1..3 : x[i] = y[i]
      <4>1. \A i \in 1..3 : i = 1 \/ i = 2 \/ i = 3  OBVIOUS
      <4> QED  BY <3>1, <3>5, <4>1
    <3> QED  BY <2>3, <3>1, <3>3, <3>4, <3>6, SeqEqual
  <2>5. Line(c) = <<c.name, EndCR, EndLF>>  BY <2>2, <2>4
  <2> QED  BY <1>5, <2>3, <2>5
<1>6. CASE a # <<>>
  <2> DEFINE u == <<SP>> \o a
             v == <<l>> \o u
             w == v \o e
  <2>1. m \in Nat  BY <1>3, Nth
  <2> HIDE DEF a, m, e, l
  <2>2. u \in Seq(Bytes) /\ Len(u) = 1 + m
        /\ \A i \in 1..(1 + m) : u[i] = IF i <= 1 THEN <<SP>>[i] ELSE a[i - 1]
    BY <1>3, <1>4, ConcatProperties DEF m
  <2> HIDE DEF u
  <2>3. v \in Seq(Bytes) /\ Len(v) = 1 + (1 + m)
        /\ \A i \in 1..(1 + (1 + m)) : v[i] = IF i <= 1 THEN <<l>>[i] ELSE u[i - 1]
    BY <1>3, <1>4, <2>2, ConcatProperties
  <2> HIDE DEF v
  <2>4. w \in Seq(Bytes) /\ Len(w) = (1 + (1 + m)) + 2
        /\ \A i \in 1..((1 + (1 + m)) + 2) :
              w[i] = IF i <= 1 + (1 + m) THEN v[i] ELSE e[i - (1 + (1 + m))]
    <3> DEFINE k == 1 + (1 + m)
    <3>1. Len(v) = k /\ v \in Seq(Bytes)  BY <2>3
    <3> HIDE DEF k
    <3>2. /\ w \in Seq(Bytes) /\ Len(w) = Len(v) + Len(e)
          /\ \A i \in 1..(Len(v) + Len(e)) :
                w[i] = IF i <= Len(v) THEN v[i] ELSE e[i - Len(v)]
      BY <1>3, <3>1, ConcatProperties
    <3> HIDE DEF w
    <3>3. /\ w \in Seq(Bytes) /\ Len(w) = k + 2
          /\ \A i \in 1..(k + 2) : w[i] = IF i <= k THEN v[i] ELSE e[i - k]
      BY <1>4, <3>1, <3>2
    <3> QED  BY <3>3 DEF k
  <2> HIDE DEF w
  <2>5. Len(w) = m + 4  BY <2>1, <2>4
  <2>6. w[1] = l
    <3>1. 1 \in 1..((1 + (1 + m)) + 2) /\ 1 \in 1..(1 + (1 + m)) /\ 1 <= 1 + (1 + m)
      BY <2>1
    <3> QED  BY <1>4, <2>3, <2>4, <3>1
  <2>7. w[2] = SP
    <3>1. /\ 2 \in 1..((1 + (1 + m)) + 2) /\ 2 \in 1..(1 + (1 + m))
          /\ 2 <= 1 + (1 + m) /\ ~(2 <= 1) /\ 2 - 1 = 1 /\ 1 \in 1..(1 + m)
      BY <2>1
    <3>2. w[2] = v[2] /\ v[2] = u[1] /\ u[1] = SP
      BY <1>4, <2>2, <2>3, <2>4, <3>1
    <3> QED  BY <3>2
  <2>8. ASSUME NEW i \in 1..m PROVE w[i + 2] = a[i]
    <3>1. /\ i + 2 \in 1..((1 + (1 + m)) + 2) /\ i + 2 \in 1..(1 + (1 + m))
          /\ i + 2 <= 1 + (1 + m) /\ ~(i + 2 <= 1) /\ (i + 2) - 1 = i + 1
          /\ i + 1 \in 1..(1 + m) /\ ~(i + 1 <= 1) /\ (i + 1) - 1 = i
      BY <2>1
    <3>2. w[i + 2] = v[i + 2]  BY <2>4, <3>1
    <3>3. v[i + 2] = u[i + 1]  BY <2>3, <3>1
    <3>4. u[i + 1] = a[i]  BY <2>2, <3>1
    <3> QED  BY <3>2, <3>3, <3>4
  <2>9. w[m + 3] = EndCR
    <3>1. /\ m + 3 \in 1..((1 + (1 + m)) + 2) /\ ~(m + 3 <= 1 + (1 + m))
          /\ (m + 3) - (1 + (1 + m)) = 1
      BY <2>1
    <3> QED  BY <1>4, <2>4, <3>1
  <2>10. Line(c) = w  BY <1>2, <1>6 DEF u, v, w
  <2> QED  BY <1>6, <2>4, <2>5, <2>6, <2>7, <2>8, <2>9, <2>10 DEF a, l, m
<1> QED  BY <1>5, <1>6

\* Of one whole line the loop gets the name and the argument.
LEMMA HeardOfLine ==
    ASSUME NEW c \in Commands,
           NEW name, name = Token(Line(c), 1, {SP}),
           NEW arg, arg = Token(Line(c), name.next, {EndCR, EndLF})
    PROVE  /\ name.text # <<>>
           /\ [name |-> Squeezed(name.text), arg |-> arg.text] = Echo(c)
<1> DEFINE l == c.name
           a == c.arg
           m == Len(a)
           p == Line(c)
           Ends == {EndCR, EndLF}
<1>1. l \in Letters /\ a \in Seq(Letters \cup {SP}) /\ p \in Seq(Bytes)
  BY CommandFacts, LineFacts
<1>2. m \in Nat /\ \A i \in 1..m : a[i] \in Letters \cup {SP}  BY <1>1, Nth
<1>3. /\ SP \notin Letters /\ SP \notin Ends /\ l \notin Ends /\ l # SP
      /\ \A i \in 1..m : a[i] \notin Ends
  BY <1>1, <1>2, CmdIOAssumption
<1>4. l \in Bytes /\ EndCR \in Bytes /\ \A i \in 1..m : a[i] \in Bytes
  BY <1>1, <1>2 DEF Bytes
<1>5. CASE a = <<>>
  <2>1. p = <<l, EndCR, EndLF>>  BY <1>5, LineFacts
  <2>2. Len(p) = 3 /\ p[1] = l /\ p[2] = EndCR /\ p[3] = EndLF  BY <2>1
  <2> HIDE DEF p, l, a
  <2>3. FirstAt(p, 1, Bytes \ {SP}, 1)
    BY <1>3, <1>4, <2>2 DEF FirstAt
  <2>4. FirstAt(p, 1, {SP}, 4)
    <3>1. \A k \in 1..3 : k = 1 \/ k = 2 \/ k = 3  OBVIOUS
    <3>2. \A k \in 1..3 : p[k] # SP  BY <1>3, <2>2, <3>1
    <3> QED  BY <2>2, <3>2 DEF FirstAt
  <2>5. FirstAt(p, 5, Bytes \ Ends, 4) /\ FirstAt(p, 4, Ends, 4)
    BY <2>2 DEF FirstAt
  <2>6. Token(p, 1, {SP}) = [text |-> SubSeq(p, 1, 4 - 1), next |-> 4 + 1]
    <3> DEFINE Space == {SP}
               e == 4
    <3>1. FirstAt(p, 1, Bytes \ Space, 1) /\ FirstAt(p, 1, Space, e)
      BY <2>3, <2>4
    <3>2. 1 \in Nat \ {0} /\ 1 \in Nat /\ e \in Nat  OBVIOUS
    <3> HIDE DEF Space, e, Ends
    <3>3. Token(p, 1, Space) = [text |-> SubSeq(p, 1, e - 1), next |-> e + 1]
      BY <1>1, <3>1, <3>2, TokenIs
    <3> QED  BY <3>3 DEF Space, e
  <2>7. Token(p, 5, Ends) = [text |-> SubSeq(p, 4, 4 - 1), next |-> 4 + 1]
    BY <1>1, <2>5, TokenIs
  <2>8. SubSeq(p, 1, 3) = p  BY <1>1, <2>2, Whole
  <2>9. SubSeq(p, 4, 3) = <<>>
    <3>1. \A i \in 4..3 : p[i] \in Bytes  OBVIOUS
    <3> QED  BY SubSeqEmpty
  <2>10. name.text = p /\ name.next = 5
    <3>1. 4 - 1 = 3 /\ 4 + 1 = 5  OBVIOUS
    <3>2. name = [text |-> p, next |-> 5]  BY <2>6, <2>8, <3>1 DEF p
    <3> QED  BY <3>2
  <2>11. arg.text = <<>>
    <3>1. arg = Token(p, 5, Ends)  BY <2>10 DEF p
    <3>2. 4 - 1 = 3 /\ 4 + 1 = 5  OBVIOUS
    <3>3. arg = [text |-> <<>>, next |-> 5]  BY <2>7, <2>9, <3>1, <3>2
    <3> QED  BY <3>3
  <2>12. name.text # <<>>
    <3>1. Len(name.text) = 3 /\ Len(<<>>) = 0  BY <2>2, <2>10
    <3> QED  BY <3>1
  <2>13. Squeezed(name.text) = <<l>>  BY <1>1, <2>1, <2>10, SqueezedName
  <2> QED  BY <1>5, <2>11, <2>12, <2>13 DEF Echo, l, a
<1>6. CASE a # <<>>
  <2>1. /\ Len(p) = m + 4 /\ p[1] = l /\ p[2] = SP
        /\ \A i \in 1..m : p[i + 2] = a[i]
        /\ p[m + 3] = EndCR
    BY <1>6, LineFacts
  <2>2. m >= 1
    <3>1. m # 0  BY <1>1, <1>6, EmptySeq
    <3> QED  BY <1>2, <3>1
  <2> HIDE DEF p, l, a, m
  <2>3. FirstAt(p, 1, Bytes \ {SP}, 1)
    BY <1>2, <1>3, <1>4, <2>1 DEF FirstAt
  <2>4. FirstAt(p, 1, {SP}, 2)
    <3>1. 2 \in 1..(m + 4) /\ \A k \in 1..(m + 4) : k # 1 => 2 <= k  BY <1>2
    <3> QED  BY <1>3, <2>1, <3>1 DEF FirstAt
  <2>5. FirstAt(p, 3, Bytes \ Ends, 3)
    <3>1. 1 \in 1..m /\ 3 \in 3..(m + 4) /\ 1 + 2 = 3  BY <1>2, <2>2
    <3>2. p[3] \in Bytes \ Ends  BY <1>3, <1>4, <2>1, <3>1
    <3> QED  BY <1>2, <2>1, <3>1, <3>2 DEF FirstAt
  <2>6. FirstAt(p, 3, Ends, m + 3)
    <3>1. m + 3 \in 3..(m + 4)  BY <1>2
    <3>2. ASSUME NEW k \in 3..(m + 4), p[k] \in Ends PROVE m + 3 <= k
      <4>1. SUFFICES ASSUME k < m + 3 PROVE FALSE  BY <1>2
      <4>2. k - 2 \in 1..m /\ (k - 2) + 2 = k  BY <1>2, <4>1
      <4>3. p[k] = a[k - 2]  BY <2>1, <4>2
      <4> QED  BY <1>3, <3>2, <4>2, <4>3
    <3> QED  BY <2>1, <3>1, <3>2 DEF FirstAt
  <2>7. Token(p, 1, {SP}) = [text |-> SubSeq(p, 1, 2 - 1), next |-> 2 + 1]
    BY <1>1, <2>3, <2>4, TokenIs
  <2>8. Token(p, 3, Ends) = [text |-> SubSeq(p, 3, (m + 3) - 1), next |-> (m + 3) + 1]
    <3> DEFINE e == m + 3
    <3>1. e \in Nat /\ FirstAt(p, 3, Ends, e)  BY <1>2, <2>6
    <3> HIDE DEF e, Ends
    <3>2. Token(p, 3, Ends) = [text |-> SubSeq(p, 3, e - 1), next |-> e + 1]
      BY <1>1, <2>5, <3>1, TokenIs
    <3> QED  BY <3>2 DEF e
  <2>9. SubSeq(p, 1, 1) = <<l>>
    <3> DEFINE v == SubSeq(p, 1, 1)
    <3>1. 1 \in 0..Len(p)  BY <1>2, <2>1
    <3>2. v \in Seq(Bytes) /\ Len(v) = 1 /\ \A i \in 1..1 : v[i] = p[i]
      BY <1>1, <3>1, PrefixFacts
    <3>3. <<l>> \in Seq(Bytes) /\ Len(<<l>>) = 1 /\ <<l>>[1] = l  BY <1>4
    <3> HIDE DEF v
    <3>4. \A i \in 1..1 : v[i] = <<l>>[i]
      <4>1. \A i \in 1..1 : i = 1  OBVIOUS
      <4> QED  BY <2>1, <3>2, <3>3, <4>1
    <3>5. v = <<l>>  BY <3>2, <3>3, <3>4, SeqEqual
    <3> QED  BY <3>5 DEF v
  <2>10. SubSeq(p, 3, m + 2) = a
    <3> DEFINE v == SubSeq(p, 2 + 1, 2 + m)
    <3>1. 2 + m <= Len(p)  BY <1>2, <2>1
    <3>2. v \in Seq(Bytes) /\ Len(v) = m /\ \A i \in 1..m : v[i] = p[2 + i]
      BY <1>1, <1>2, <3>1, PieceFacts
    <3>3. 2 + 1 = 3 /\ 2 + m = m + 2 /\ \A i \in 1..m : 2 + i = i + 2  BY <1>2
    <3>4. a \in Seq(Bytes) /\ Len(a) = m  BY <1>1 DEF m, Bytes
    <3> HIDE DEF v
    <3>5. \A i \in 1..m : v[i] = a[i]  BY <2>1, <3>2, <3>3
    <3>6. v = a  BY <3>2, <3>4, <3>5, SeqEqual
    <3> QED  BY <3>3, <3>6 DEF v
  <2>11. name.text = <<l>> /\ name.next = 3
    <3>1. 2 - 1 = 1 /\ 2 + 1 = 3  OBVIOUS
    <3>2. name = [text |-> <<l>>, next |-> 3]  BY <2>7, <2>9, <3>1 DEF p
    <3> QED  BY <3>2
  <2>12. arg.text = a
    <3>1. arg = Token(p, 3, Ends)  BY <2>11 DEF p
    <3>2. (m + 3) - 1 = m + 2  BY <1>2
    <3>3. arg = [text |-> a, next |-> (m + 3) + 1]  BY <2>8, <2>10, <3>1, <3>2
    <3> QED  BY <3>3
  <2>13. Squeezed(name.text) = <<l>>  BY <1>1, <2>11, SqueezedName
  <2>14. name.text # <<>>
    <3>1. Len(name.text) = 1 /\ Len(<<>>) = 0  BY <2>11
    <3> QED  BY <3>1
  <2> QED  BY <2>12, <2>13, <2>14 DEF Echo, l, a
<1> QED  BY <1>5, <1>6

\* While no receive was torn, what is heard is what was said, so far.
CmdInv ==
    /\ said \in Seq(Commands) /\ wire \in Seq(Bytes) /\ torn \in BOOLEAN
    /\ ~torn => /\ alive
                /\ heard \in Seq(Echoes) /\ Len(heard) <= Len(said)
                /\ \A i \in 1..Len(heard) : heard[i] = Echo(said[i])

LEMMA SayStep ==
    ASSUME CmdInv, NEW c \in Commands, Say(c)
    PROVE  CmdInv'
<1>1. /\ said' = Append(said, c) /\ wire' = wire \o Line(c)
      /\ heard' = heard /\ torn' = torn /\ alive' = alive
  BY DEF Say
<1>2. said \in Seq(Commands) /\ wire \in Seq(Bytes) /\ torn \in BOOLEAN
  BY DEF CmdInv
<1>3. /\ said' \in Seq(Commands) /\ Len(said') = Len(said) + 1
      /\ \A i \in 1..Len(said) : said'[i] = said[i]
      /\ Len(said) \in Nat
  BY <1>1, <1>2, AppendProperties, Nth
<1>4. wire' \in Seq(Bytes)
  <2> DEFINE l == Line(c)
  <2>1. l \in Seq(Bytes) /\ wire' = wire \o l  BY <1>1, LineFacts
  <2> HIDE DEF l
  <2>2. wire \o l \in Seq(Bytes)  BY <1>2, <2>1, ConcatProperties
  <2> QED  BY <2>1, <2>2
<1>5. ASSUME ~torn
      PROVE  /\ alive' /\ heard' \in Seq(Echoes) /\ Len(heard') <= Len(said')
             /\ \A i \in 1..Len(heard') : heard'[i] = Echo(said'[i])
  <2>1. /\ alive /\ heard \in Seq(Echoes) /\ Len(heard) <= Len(said)
        /\ \A i \in 1..Len(heard) : heard[i] = Echo(said[i])
    BY <1>5 DEF CmdInv
  <2>2. Len(heard) \in Nat  BY <2>1, Nth
  <2>3. Len(heard) <= Len(said') /\ \A i \in 1..Len(heard) : i \in 1..Len(said)
    BY <1>3, <2>1, <2>2
  <2> QED  BY <1>1, <1>3, <2>1, <2>3
<1> QED  BY <1>1, <1>2, <1>3, <1>4, <1>5 DEF CmdInv

LEMMA ReceiveStep ==
    ASSUME CmdInv, NEW n \in 1..BufLen, Receive(n)
    PROVE  CmdInv'
<1> DEFINE p == SubSeq(wire, 1, n)
           k == Len(heard)
           c == said[k + 1]
<1>1. /\ buffer' = Filled(p) /\ said' = said /\ n <= Len(wire) /\ alive
      /\ wire' = SubSeq(wire, n + 1, Len(wire))
      /\ torn' = (torn \/ n = BufLen \/ k >= Len(said) \/ p # Line(c))
  BY DEF Receive
<1>2. said \in Seq(Commands) /\ wire \in Seq(Bytes) /\ torn \in BOOLEAN
  BY DEF CmdInv
<1>3. torn' \in BOOLEAN  BY <1>1
<1>4. wire' \in Seq(Bytes)
  <2> DEFINE w == Len(wire)
             r == w - n
  <2>1. w \in Nat /\ n \in Nat /\ n <= w  BY <1>1, <1>2, Nth
  <2> HIDE DEF w
  <2>2. r \in Nat /\ n + r = w  BY <2>1
  <2> HIDE DEF r
  <2>3. n + r <= Len(wire)  BY <2>1, <2>2 DEF w
  <2>4. SubSeq(wire, n + 1, n + r) \in Seq(Bytes)
    BY <1>2, <2>1, <2>2, <2>3, PieceFacts
  <2> QED  BY <1>1, <2>2, <2>4 DEF w
<1>5. ASSUME ~torn'
      PROVE  /\ alive' /\ heard' \in Seq(Echoes) /\ Len(heard') <= Len(said')
             /\ \A i \in 1..Len(heard') : heard'[i] = Echo(said'[i])
  <2>1. ~torn /\ n # BufLen /\ ~(k >= Len(said)) /\ p = Line(c)  BY <1>1, <1>5
  <2>2. /\ heard \in Seq(Echoes)
        /\ \A i \in 1..Len(heard) : heard[i] = Echo(said[i])
    BY <2>1 DEF CmdInv
  <2>3. k \in Nat /\ Len(said) \in Nat /\ k + 1 \in 1..Len(said)
    BY <1>2, <2>1, <2>2, Nth
  <2>4. c \in Commands  BY <1>2, <2>3, Nth
  <2>5. p \in Seq(Bytes) /\ Len(p) < BufLen
    <3>1. n \in 0..Len(wire) /\ n < BufLen  BY <1>1, <1>2, <2>1, Nth, CmdIOAssumption
    <3> QED  BY <1>2, <3>1, PrefixFacts
  <2>6. Strings(buffer') = {p}  BY <1>1, <2>5, FilledHasIt
  <2>7. Hear(p)
    <3>1. \E s \in Strings(buffer') : Hear(s)  BY DEF Receive
    <3> QED  BY <2>6, <3>1
  <2>8. heard' = Append(heard, Echo(c)) /\ alive' = alive
    <3> DEFINE name == Token(p, 1, {SP})
               arg == Token(p, name.next, {EndCR, EndLF})
    <3>1. /\ name.text # <<>>
          /\ [name |-> Squeezed(name.text), arg |-> arg.text] = Echo(c)
      <4> HIDE DEF c, p
      <4>1. name = Token(Line(c), 1, {SP})  BY <2>1
      <4>2. arg = Token(Line(c), name.next, {EndCR, EndLF})  BY <2>1
      <4> HIDE DEF name, arg
      <4> QED  BY <2>4, <4>1, <4>2, HeardOfLine
    <3>2. IF name.text = <<>>
          THEN alive' = FALSE /\ UNCHANGED heard
          ELSE /\ heard' = Append(heard, [name |-> Squeezed(name.text),
                                          arg |-> arg.text])
               /\ UNCHANGED alive
      BY <2>7 DEF Hear
    <3> HIDE DEF name, arg
    <3> QED  BY <3>1, <3>2
  <2> DEFINE e == Echo(c)
  <2>9. e \in Echoes /\ heard' = Append(heard, e) /\ e = Echo(said[k + 1])
    BY <2>4, <2>8, CommandFacts
  <2> HIDE DEF e, c, k
  <2>10. /\ heard' \in Seq(Echoes) /\ Len(heard') = k + 1
         /\ \A i \in 1..k : heard'[i] = heard[i]
         /\ heard'[k + 1] = e
    BY <2>2, <2>9, AppendProperties DEF k
  <2>11. ASSUME NEW i \in 1..(k + 1) PROVE heard'[i] = Echo(said[i])
    <3>1. CASE i = k + 1  BY <2>9, <2>10, <3>1
    <3>2. CASE i # k + 1
      <4>1. i \in 1..k  BY <2>3, <3>2
      <4> QED  BY <2>2, <2>10, <4>1 DEF k
    <3> QED  BY <3>1, <3>2
  <2>12. Len(heard') <= Len(said')  BY <1>1, <2>3, <2>10
  <2> QED  BY <1>1, <2>8, <2>10, <2>11, <2>12
<1> QED  BY <1>1, <1>2, <1>3, <1>4, <1>5 DEF CmdInv

\* Commands written one at a time, each of which fits the buffer, are got once
\* each, in order and as they were written; nothing of an earlier one sticks to
\* a later one (cmdio.c 60, 74).
THEOREM WholeLinesHeardAlways == CmdSpec => []WholeLinesHeard
<1>1. CmdInit => CmdInv
  <2> SUFFICES ASSUME CmdInit PROVE CmdInv  OBVIOUS
  <2>1. /\ said = <<>> /\ wire = <<>> /\ heard = <<>> /\ torn = FALSE
        /\ alive = TRUE
    BY DEF CmdInit
  <2>2. said \in Seq(Commands) /\ wire \in Seq(Bytes) /\ heard \in Seq(Echoes)
        /\ Len(heard) = 0 /\ Len(said) = 0
    BY <2>1
  <2>3. \A i \in 1..Len(heard) : heard[i] = Echo(said[i])  BY <2>2
  <2>4. Len(heard) <= Len(said)  BY <2>2
  <2>5. alive  BY <2>1, Zenon
  <2>6. torn \in BOOLEAN  BY <2>1
  <2> QED  BY <2>2, <2>3, <2>4, <2>5, <2>6 DEF CmdInv
<1>2. CmdInv /\ [CmdNext]_cmdVars => CmdInv'
  <2> SUFFICES ASSUME CmdInv, [CmdNext]_cmdVars PROVE CmdInv'  OBVIOUS
  <2>1. ASSUME NEW l \in Letters, NEW a \in Args, Say([name |-> l, arg |-> a])
        PROVE  CmdInv'
    <3>1. [name |-> l, arg |-> a] \in Commands  BY DEF Commands
    <3> QED  BY <2>1, <3>1, SayStep
  <2>2. ASSUME NEW n \in 1..BufLen, Receive(n) PROVE CmdInv'
    BY <2>2, ReceiveStep
  <2>3. CASE UNCHANGED cmdVars  BY <2>3 DEF CmdInv, cmdVars
  <2> QED  BY <2>1, <2>2, <2>3 DEF CmdNext, CmdDone
<1>3. CmdInv => WholeLinesHeard
  <2> SUFFICES ASSUME CmdInv, ~torn PROVE WholeLinesHeard
    BY DEF WholeLinesHeard
  <2>1. /\ alive /\ heard \in Seq(Echoes) /\ Len(heard) <= Len(said)
        /\ \A i \in 1..Len(heard) : heard[i] = Echo(said[i])
    BY DEF CmdInv
  <2>2. DOMAIN heard = 1..Len(heard)  BY <2>1, Nth
  <2> QED  BY <2>1, <2>2 DEF WholeLinesHeard, Echo
<1> QED  BY <1>1, <1>2, <1>3, PTL DEF CmdSpec

-----------------------------------------------------------------------------
(* cwd_path.                                                               *)

Places == Seq(Names) \cup {Nowhere}

\* The directories make a tree.
Tree(dirs) ==
    /\ dirs \subseteq Seq(Names)
    /\ <<>> \in dirs
    /\ \A d \in dirs : d # <<>> => Butlast(d) \in dirs

\* Where the kernel is after each component of a path.
Way(dirs, path) ==
    CHOOSE w : w = [i \in 0..Len(path) |->
                      IF i = 0 THEN <<>> ELSE StepInto(dirs, w[i - 1], path[i])]

LEMMA ButlastFacts ==
    ASSUME NEW S, NEW s \in Seq(S), s # <<>>
    PROVE  /\ Butlast(s) \in Seq(S) /\ Len(Butlast(s)) = Len(s) - 1
           /\ Len(s) \in Nat \ {0}
           /\ \A k \in 0..(Len(s) - 1) : SubSeq(Butlast(s), 1, k) = SubSeq(s, 1, k)
<1>1. Len(s) \in Nat \ {0}  BY EmptySeq, LenProperties
<1> DEFINE n == Len(s) - 1
           b == Butlast(s)
<1>2. n \in 0..Len(s)  BY <1>1
<1>3. b \in Seq(S) /\ Len(b) = n /\ \A i \in 1..n : b[i] = s[i]
  BY <1>2, PrefixFacts DEF Butlast
<1>4. ASSUME NEW k \in 0..n PROVE SubSeq(b, 1, k) = SubSeq(s, 1, k)
  <2>1. k \in 0..Len(b) /\ k \in 0..Len(s) /\ \A i \in 1..k : i \in 1..n
    BY <1>2, <1>3
  <2>2. /\ SubSeq(b, 1, k) \in Seq(S) /\ Len(SubSeq(b, 1, k)) = k
        /\ \A i \in 1..k : SubSeq(b, 1, k)[i] = b[i]
    BY <1>3, <2>1, PrefixFacts
  <2>3. /\ SubSeq(s, 1, k) \in Seq(S) /\ Len(SubSeq(s, 1, k)) = k
        /\ \A i \in 1..k : SubSeq(s, 1, k)[i] = s[i]
    BY <2>1, PrefixFacts
  <2> QED  BY <1>3, <2>1, <2>2, <2>3, SeqEqual
<1> QED  BY <1>1, <1>3, <1>4

LEMMA StepFacts ==
    ASSUME NEW dirs, Tree(dirs), NEW d \in Places, NEW c
    PROVE  /\ StepInto(dirs, d, c) \in Places
           /\ d \in dirs => StepInto(dirs, d, c) \in dirs \cup {Nowhere}
           /\ d = Nowhere => StepInto(dirs, d, c) = Nowhere
<1>1. CASE d = Nowhere
  <2>1. StepInto(dirs, d, c) = Nowhere  BY <1>1 DEF StepInto
  <2> QED  BY <2>1 DEF Places
<1>2. CASE d # Nowhere
  <2>1. d \in Seq(Names)  BY <1>2 DEF Places
  <2>2. d # <<>> => Butlast(d) \in Seq(Names)  BY <2>1, ButlastFacts
  <2>3. StepInto(dirs, d, c) \in {d} \cup (IF d = <<>> THEN {} ELSE {Butlast(d)})
                                \cup dirs \cup {Nowhere}
    BY <1>2 DEF StepInto
  <2> QED  BY <1>2, <2>1, <2>2, <2>3 DEF Places, Tree
<1> QED  BY <1>1, <1>2

LEMMA NowhereNoDir == ASSUME NEW dirs, Tree(dirs) PROVE Nowhere \notin dirs
<1>1. SUFFICES ASSUME <<"">> \in Seq(Names) PROVE FALSE
  BY DEF Tree, Nowhere
<1>2. <<"">>[1] \in Names
  <2>1. Len(<<"">>) = 1 /\ 1 \in 1..Len(<<"">>)  OBVIOUS
  <2> QED  BY <1>1, <2>1, ElementOfSeq
<1> QED  BY <1>2, CwdPathAssumption

LEMMA WayFacts ==
    ASSUME NEW dirs, Tree(dirs), NEW path \in Seq(Components)
    PROVE  /\ Len(path) \in Nat
           /\ Way(dirs, path) \in [0..Len(path) -> Places]
           /\ Way(dirs, path)[0] = <<>>
           /\ \A i \in 1..Len(path) :
                 Way(dirs, path)[i] = StepInto(dirs, Way(dirs, path)[i - 1], path[i])
           /\ Walk(dirs, path) = Way(dirs, path)[Len(path)]
<1> DEFINE n == Len(path)
           G == [d \in Places |-> [i \in 1..n |-> StepInto(dirs, d, path[i])]]
<1>1. n \in Nat  BY LenProperties
<1>2. <<>> \in Places  BY DEF Places
<1>3. \A d \in Places, i \in 1..n : StepInto(dirs, d, path[i]) \in Places
  BY StepFacts
<1>4. \A d \in Places, i \in 1..n : G[d][i] = StepInto(dirs, d, path[i])
  OBVIOUS
<1> HIDE DEF G
<1>5. Closed(Places, G, n)  BY <1>3, <1>4 DEF Closed
<1>6. PICK f \in [0..n -> Places] :
          f = [i \in 0..n |-> IF i = 0 THEN <<>> ELSE G[f[i - 1]][i]]
  <2> HIDE DEF n
  <2>1. \E f \in [0..n -> Places] : Recurs(f, <<>>, G, n)
    BY <1>1, <1>2, <1>5, Recursion
  <2> QED  BY <2>1 DEF Recurs
<1>7. \A i \in 0..n : i # 0 => i \in 1..n /\ i - 1 \in 0..n  BY <1>1
<1>8. f = [i \in 0..n |-> IF i = 0 THEN <<>>
                         ELSE StepInto(dirs, f[i - 1], path[i])]
  <2>1. \A i \in 0..n : f[i] = IF i = 0 THEN <<>>
                               ELSE StepInto(dirs, f[i - 1], path[i])
    BY <1>4, <1>6, <1>7
  <2> QED  BY <1>6, <2>1
<1> DEFINE w == Way(dirs, path)
<1>9. w = [i \in 0..n |-> IF i = 0 THEN <<>> ELSE StepInto(dirs, w[i - 1], path[i])]
  BY <1>8 DEF Way
<1>10. Walk(dirs, path) = w[n]  BY DEF Walk, Way
<1> HIDE DEF w, n
<1>11. w[0] = <<>> /\ \A i \in 1..n : w[i] = StepInto(dirs, w[i - 1], path[i])
  BY <1>1, <1>9
<1>12. w \in [0..n -> Places]
  <2> DEFINE S == {i \in Nat : i <= n => w[i] \in Places}
  <2>1. 0 \in S  BY <1>2, <1>11
  <2>2. ASSUME NEW k \in Nat, k \in S PROVE k + 1 \in S
    <3>1. SUFFICES ASSUME k + 1 <= n PROVE w[k + 1] \in Places
      OBVIOUS
    <3>2. k <= n /\ k + 1 \in 1..n /\ (k + 1) - 1 = k  BY <1>1, <3>1
    <3>3. w[k] \in Places /\ w[k + 1] = StepInto(dirs, w[k], path[k + 1])
      BY <1>11, <2>2, <3>2
    <3> QED  BY <3>3, StepFacts
  <2> HIDE DEF S
  <2>3. \A i \in Nat : i \in S  BY <2>1, <2>2, Induction
  <2>4. \A i \in 0..n : w[i] \in Places  BY <1>1, <2>3 DEF S
  <2> QED  BY <1>9, <2>4
<1> QED  BY <1>1, <1>10, <1>11, <1>12 DEF w, n

\* The way along a path begins with the ways along its beginnings.
LEMMA WalkOfPrefix ==
    ASSUME NEW dirs, Tree(dirs), NEW path \in Seq(Components),
           NEW k \in 0..Len(path)
    PROVE  Walk(dirs, SubSeq(path, 1, k)) = Way(dirs, path)[k]
<1> DEFINE p == SubSeq(path, 1, k)
           u == Way(dirs, p)
           w == Way(dirs, path)
           S == {i \in Nat : i <= k => u[i] = w[i]}
<1>1. Len(path) \in Nat /\ k \in Nat /\ k <= Len(path)  BY Nth
<1>2. p \in Seq(Components) /\ Len(p) = k /\ \A i \in 1..k : p[i] = path[i]
  BY PrefixFacts
<1> HIDE DEF p
<1>3. /\ u[0] = <<>> /\ Walk(dirs, p) = u[k]
      /\ \A i \in 1..k : u[i] = StepInto(dirs, u[i - 1], p[i])
  BY <1>2, WayFacts
<1>4. /\ w[0] = <<>>
      /\ \A i \in 1..Len(path) : w[i] = StepInto(dirs, w[i - 1], path[i])
  BY WayFacts
<1> HIDE DEF u, w
<1>5. 0 \in S  BY <1>3, <1>4
<1>6. ASSUME NEW i \in Nat, i \in S PROVE i + 1 \in S
  <2>1. SUFFICES ASSUME i + 1 <= k PROVE u[i + 1] = w[i + 1]
    OBVIOUS
  <2>2. /\ i + 1 \in 1..k /\ i + 1 \in 1..Len(path)
        /\ (i + 1) - 1 = i /\ u[i] = w[i]
    BY <1>1, <1>6, <2>1
  <2> QED  BY <1>2, <1>3, <1>4, <2>2
<1> HIDE DEF S
<1>7. k \in S  BY <1>1, <1>5, <1>6, Induction
<1>8. u[k] = w[k]  BY <1>1, <1>7 DEF S
<1> QED  BY <1>3, <1>8 DEF p, w

\* Who has lost the way does not find it again.
LEMMA WayStaysInTree ==
    ASSUME NEW dirs, Tree(dirs), NEW path \in Seq(Components),
           Walk(dirs, path) \in dirs, NEW k \in 0..Len(path)
    PROVE  Way(dirs, path)[k] \in dirs
<1> DEFINE n == Len(path)
           w == Way(dirs, path)
<1>1. /\ n \in Nat /\ w \in [0..n -> Places] /\ w[0] = <<>>
      /\ \A i \in 1..n : w[i] = StepInto(dirs, w[i - 1], path[i])
      /\ w[n] \in dirs
  BY WayFacts
<1> HIDE DEF n, w
<1>2. ASSUME NEW i \in 1..n PROVE /\ w[i - 1] \in dirs => w[i] \in dirs \cup {Nowhere}
                                  /\ w[i - 1] = Nowhere => w[i] = Nowhere
  <2>1. i - 1 \in 0..n  BY <1>1
  <2>2. w[i - 1] \in Places  BY <1>1, <2>1
  <2> QED  BY <1>1, <2>2, StepFacts
<1> DEFINE S == {i \in Nat : i <= n => w[i] \in dirs \cup {Nowhere}}
<1>3. 0 \in S  BY <1>1 DEF Tree
<1>4. ASSUME NEW i \in Nat, i \in S PROVE i + 1 \in S
  <2>1. SUFFICES ASSUME i + 1 <= n PROVE w[i + 1] \in dirs \cup {Nowhere}
    OBVIOUS
  <2>2. i + 1 \in 1..n /\ (i + 1) - 1 = i /\ w[i] \in dirs \cup {Nowhere}
    BY <1>1, <1>4, <2>1
  <2> QED  BY <1>2, <2>2
<1> HIDE DEF S
<1>5. \A i \in Nat : i \in S  BY <1>3, <1>4, Induction
<1>6. k \in Nat /\ k <= n  BY <1>1 DEF n
<1>7. w[k] \in dirs \cup {Nowhere}  BY <1>5, <1>6 DEF S
<1>8. SUFFICES ASSUME w[k] = Nowhere PROVE FALSE
  BY <1>7 DEF w
<1> DEFINE T == {i \in Nat : k + i <= n => w[k + i] = Nowhere}
<1>9. 0 \in T  BY <1>6, <1>8
<1>10. ASSUME NEW i \in Nat, i \in T PROVE i + 1 \in T
  <2>1. SUFFICES ASSUME k + (i + 1) <= n PROVE w[k + (i + 1)] = Nowhere
    OBVIOUS
  <2>2. /\ k + (i + 1) \in 1..n /\ (k + (i + 1)) - 1 = k + i
        /\ w[k + i] = Nowhere
    BY <1>1, <1>6, <1>10, <2>1
  <2> QED  BY <1>2, <2>2
<1> HIDE DEF T
<1>11. \A i \in Nat : i \in T  BY <1>9, <1>10, Induction
<1>12. n - k \in Nat /\ k + (n - k) = n  BY <1>1, <1>6
<1>13. w[n] = Nowhere
  <2>1. n - k \in T  BY <1>11, <1>12
  <2>2. w[k + (n - k)] = Nowhere  BY <1>1, <1>12, <2>1 DEF T
  <2> QED  BY <1>12, <2>2
<1> QED  BY <1>1, <1>13, NowhereNoDir

\* A path that leads to a directory still does when there are more of them.
LEMMA WalkInLarger ==
    ASSUME NEW dirs, Tree(dirs), NEW more, Tree(more), dirs \subseteq more,
           NEW path \in Seq(Components), Walk(dirs, path) \in dirs
    PROVE  Walk(more, path) = Walk(dirs, path)
<1> DEFINE n == Len(path)
           u == Way(dirs, path)
           w == Way(more, path)
           S == {i \in Nat : i <= n => w[i] = u[i]}
<1>1. \A k \in 0..n : u[k] \in dirs  BY WayStaysInTree
<1>2. /\ n \in Nat /\ u[0] = <<>> /\ Walk(dirs, path) = u[n]
      /\ \A i \in 1..n : u[i] = StepInto(dirs, u[i - 1], path[i])
  BY WayFacts
<1>3. /\ w[0] = <<>> /\ Walk(more, path) = w[n]
      /\ \A i \in 1..n : w[i] = StepInto(more, w[i - 1], path[i])
  BY WayFacts
<1> HIDE DEF n, u, w
<1>4. 0 \in S  BY <1>2, <1>3
<1>5. ASSUME NEW i \in Nat, i \in S PROVE i + 1 \in S
  <2>1. SUFFICES ASSUME i + 1 <= n PROVE w[i + 1] = u[i + 1]
    OBVIOUS
  <2>2. /\ i + 1 \in 1..n /\ (i + 1) - 1 = i /\ w[i] = u[i]
        /\ i + 1 \in 0..n
    BY <1>2, <1>5, <2>1
  <2>3. u[i + 1] = StepInto(dirs, u[i], path[i + 1])  BY <1>2, <2>2
  <2>4. w[i + 1] = StepInto(more, u[i], path[i + 1])  BY <1>3, <2>2
  <2>5. u[i + 1] # Nowhere  BY <1>1, <2>2, NowhereNoDir
  <2> QED  BY <2>3, <2>4, <2>5 DEF StepInto
<1> HIDE DEF S
<1>6. n \in S  BY <1>2, <1>4, <1>5, Induction
<1>7. w[n] = u[n]  BY <1>2, <1>6 DEF S
<1> QED  BY <1>2, <1>3, <1>7

-----------------------------------------------------------------------------
(* The steps of a session and of those that make and remove directories.   *)

\* Every beginning of the path leads to a directory.
Valid(dirs, path) ==
    \A k \in 0..Len(path) : Walk(dirs, SubSeq(path, 1, k)) \in dirs

CwdInv == /\ Tree(tree)
          /\ cwd \in Seq(Components)
          /\ ~gone => Valid(tree, cwd)

\* It is enough that the whole path does.
LEMMA ValidIfWhole ==
    ASSUME NEW dirs, Tree(dirs), NEW path \in Seq(Components),
           Walk(dirs, path) \in dirs
    PROVE  Valid(dirs, path)
BY WalkOfPrefix, WayStaysInTree DEF Valid

LEMMA ValidPrefix ==
    ASSUME NEW dirs, NEW path \in Seq(Components), path # <<>>, Valid(dirs, path)
    PROVE  Valid(dirs, Butlast(path))
<1>1. /\ Len(Butlast(path)) = Len(path) - 1 /\ Len(path) \in Nat \ {0}
      /\ \A k \in 0..(Len(path) - 1) :
            SubSeq(Butlast(path), 1, k) = SubSeq(path, 1, k)
  BY ButlastFacts
<1>2. \A k \in 0..(Len(path) - 1) : k \in 0..Len(path)  BY <1>1
<1> QED  BY <1>1, <1>2 DEF Valid

LEMMA SeqIfUpTo ==
    ASSUME NEW S, NEW n \in Nat, NEW s \in SeqsUpTo(S, n)
    PROVE  s \in Seq(S)
<1>1. PICK k \in 0..n : s \in [1..k -> S]  BY DEF SeqsUpTo
<1>2. k \in Nat  OBVIOUS
<1> QED  BY <1>1, <1>2, SeqDef

LEMMA MakeDirStep ==
    ASSUME CwdInv, NEW d \in Seq(Names), MakeDir(d)
    PROVE  CwdInv'
<1>1. /\ tree' = tree \cup {d} /\ cwd' = cwd /\ gone' = gone
      /\ Butlast(d) \in tree
  BY DEF MakeDir
<1>2. Tree(tree) /\ cwd \in Seq(Components)  BY DEF CwdInv
<1>3. Tree(tree')  BY <1>1, <1>2 DEF Tree
<1>4. ASSUME ~gone PROVE Valid(tree', cwd)
  <2>1. Valid(tree, cwd)  BY <1>4 DEF CwdInv
  <2> SUFFICES ASSUME NEW k \in 0..Len(cwd)
               PROVE  Walk(tree', SubSeq(cwd, 1, k)) \in tree'
    BY DEF Valid
  <2> DEFINE p == SubSeq(cwd, 1, k)
  <2>2. p \in Seq(Components) /\ Walk(tree, p) \in tree
    BY <1>2, <2>1, PrefixFacts DEF Valid
  <2> HIDE DEF p
  <2>3. Walk(tree', p) = Walk(tree, p)  BY <1>1, <1>2, <1>3, <2>2, WalkInLarger
  <2> QED  BY <1>1, <2>2, <2>3 DEF p
<1> QED  BY <1>1, <1>2, <1>3, <1>4 DEF CwdInv

LEMMA RemoveDirStep ==
    ASSUME CwdInv, NEW d \in Seq(Names), RemoveDir(d)
    PROVE  CwdInv'
<1>1. /\ tree' = tree \ {d} /\ cwd' = cwd /\ gone' = TRUE /\ d # <<>>
      /\ \A e \in tree : Len(e) > Len(d) => SubSeq(e, 1, Len(d)) # d
  BY DEF RemoveDir
<1>2. Tree(tree) /\ cwd \in Seq(Components)  BY DEF CwdInv
<1>3. \A e \in tree' : e # <<>> => Butlast(e) \in tree'
  <2>1. SUFFICES ASSUME NEW e \in tree', e # <<>> PROVE Butlast(e) # d
    BY <1>1, <1>2 DEF Tree
  <2>2. e \in tree /\ e \in Seq(Names)  BY <1>1, <1>2 DEF Tree
  <2>3. Len(Butlast(e)) = Len(e) - 1 /\ Len(e) \in Nat  BY <2>1, <2>2, ButlastFacts
  <2>4. SUFFICES ASSUME Butlast(e) = d PROVE FALSE  OBVIOUS
  <2>5. Len(d) = Len(e) - 1 /\ Len(e) > Len(d)  BY <2>3, <2>4
  <2>6. SubSeq(e, 1, Len(d)) = d  BY <2>4, <2>5 DEF Butlast
  <2> QED  BY <1>1, <2>2, <2>5, <2>6
<1>4. Tree(tree')  BY <1>1, <1>2, <1>3 DEF Tree
<1> QED  BY <1>1, <1>2, <1>4 DEF CwdInv

LEMMA CdupStep ==
    ASSUME CwdInv, Cdup
    PROVE  CwdInv'
<1>1. UNCHANGED <<tree, gone>>  BY DEF Cdup
<1>2. CASE cwd = <<>>
  BY <1>1, <1>2 DEF CwdInv, Cdup, CdupPath
<1>3. CASE cwd # <<>>
  <2>1. cwd' = Butlast(cwd)  BY <1>3 DEF Cdup, CdupPath
  <2>2. cwd' \in Seq(Components)  BY <1>3, <2>1, ButlastFacts DEF CwdInv
  <2> QED  BY <1>1, <1>3, <2>1, <2>2, ValidPrefix DEF CwdInv
<1> QED  BY <1>2, <1>3

LEMMA CwdStep ==
    ASSUME CwdInv, NEW absolute \in BOOLEAN, NEW arg \in Seq(Components),
           Cwd(absolute, arg)
    PROVE  CwdInv'
<1> DEFINE abs == AbsPath(absolute, arg)
           path == Slashed(abs)
<1>1. Tree(tree) /\ cwd \in Seq(Components)  BY DEF CwdInv
<1>2. abs \in Seq(Components)
  <2>1. cwd \o arg \in Seq(Components)  BY <1>1, ConcatProperties
  <2> QED  BY <2>1 DEF AbsPath
<1> HIDE DEF abs
<1>3. path \in Seq(Components)
  <2>1. abs # <<>> => Butlast(abs) \in Seq(Components)  BY <1>2, ButlastFacts
  <2> QED  BY <1>2, <2>1 DEF Slashed
<1>4. /\ UNCHANGED <<tree, gone>>
      /\ cwd' = IF Walk(tree, path) \in tree THEN path ELSE cwd
  BY DEF Cwd, abs
<1> HIDE DEF path
<1>5. CASE Walk(tree, path) \in tree
  <2>1. Valid(tree, path)  BY <1>1, <1>3, <1>5, ValidIfWhole
  <2> QED  BY <1>1, <1>3, <1>4, <1>5, <2>1 DEF CwdInv
<1>6. CASE Walk(tree, path) \notin tree
  BY <1>4, <1>6 DEF CwdInv
<1> QED  BY <1>5, <1>6

\* Whatever a session does with CWD and CDUP, its directory stays one, with all
\* those above it, until somebody removes one (cmdhandler.c 211-239, 241-273).
THEOREM CwdStaysValidAlways == CwdSpec => []CwdStaysValid
<1>1. CwdInit => CwdInv
  <2> SUFFICES ASSUME CwdInit PROVE CwdInv  OBVIOUS
  <2>1. tree = {<<>>} /\ cwd = <<>> /\ <<>> \in Seq(Names) /\ <<>> \in Seq(Components)
    BY DEF CwdInit
  <2>2. Tree(tree)  BY <2>1 DEF Tree
  <2>3. Walk(tree, cwd) = <<>>
    <3>1. Len(cwd) = 0 /\ cwd \in Seq(Components)  BY <2>1
    <3>2. /\ Walk(tree, cwd) = Way(tree, cwd)[Len(cwd)]
          /\ Way(tree, cwd)[0] = <<>>
      BY <2>2, <3>1, WayFacts
    <3> QED  BY <3>1, <3>2
  <2>4. Valid(tree, cwd)  BY <2>1, <2>2, <2>3, ValidIfWhole
  <2> QED  BY <2>1, <2>2, <2>4 DEF CwdInv
<1>2. CwdInv /\ [CwdNext]_cwdVars => CwdInv'
  <2> SUFFICES ASSUME CwdInv, [CwdNext]_cwdVars PROVE CwdInv'  OBVIOUS
  <2>1. ASSUME NEW d \in SeqsUpTo(Names, MaxTree), MakeDir(d) \/ RemoveDir(d)
        PROVE  CwdInv'
    <3>1. d \in Seq(Names)  BY SeqIfUpTo, CwdPathAssumption
    <3> QED  BY <2>1, <3>1, MakeDirStep, RemoveDirStep
  <2>2. CASE UNCHANGED cwdVars
    BY <2>2 DEF CwdInv, cwdVars
  <2>3. ASSUME NEW absolute \in BOOLEAN, NEW arg \in SeqsUpTo(Components, 2),
               CwdCommand(absolute, arg)
        PROVE  CwdInv'
    <3>1. arg \in Seq(Components)  BY SeqIfUpTo
    <3> QED  BY <2>2, <2>3, <3>1, CdupStep, CwdStep DEF CwdCommand
  <2> QED  BY <2>1, <2>2, <2>3, CdupStep DEF CwdNext
<1>3. CwdInv => CwdStaysValid  BY DEF CwdInv, CwdStaysValid, Valid
<1> QED  BY <1>1, <1>2, <1>3, PTL DEF CwdSpec
=============================================================================
