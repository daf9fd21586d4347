---------------------------- MODULE LklFileProofs ----------------------------
(***************************************************************************)
(* The lkl_file_t of fileops.c, for every size of its buffer, every file   *)
(* and request and every set of things that kernel calls may do: it reads  *)
(* ahead what the file has, its _full calls move all that they are asked   *)
(* for, and it is the text with a place in it that FileText promises.      *)
(***************************************************************************)
EXTENDS LklFile, SequenceTheorems, TLAPS

\* Reading, the buffer holds what the file has before the descriptor; writing,
\* it holds bufpos bytes.  An unbuffered handle has nothing in it.
ReadInv ==
    /\ file.bufpos <= file.dataRead
    /\ file.dataRead = Len(file.buffer)
    /\ file.dataRead <= pos
    /\ file.dataRead > 0 => pos <= Len(content)
    /\ \A i \in 1..file.dataRead :
          file.buffer[i] = content[pos - file.dataRead + i]

WriteInv == file.bufpos = Len(file.buffer) /\ file.dataRead = 0

FileInv ==
    /\ ~Opened => pos = 0
    /\ file.dataRead <= file.filePtr
    /\ IF Writing THEN WriteInv ELSE ReadInv
    /\ ~Has("BUFFERED") => ~Writing /\ file.dataRead = 0

\* What a buffered call has moved since lkl_file_read or lkl_file_write was last
\* entered is left - amt; an unbuffered one has told all that it has moved.
InHand == IF Has("BUFFERED") THEN call.left - call.amt ELSE 0

CallInv ==
    /\ call.rv = "running" =>
          /\ Opened
          /\ call.op \in {"read", "write"}
          /\ call.op = "write" => Len(call.data) = call.asked
          /\ call.asked = call.told + call.left
          /\ 0 <= call.amt /\ call.amt <= call.left
          /\ call.told >= 0
          /\ Len(call.moved) = call.told + InHand
    /\ call.full /\ call.rv = "SUCCESS" =>
          call.told = call.asked /\ Len(call.moved) = call.asked

LklFileInv == TypeOK /\ FileInv /\ (~astray => CallInv)

-----------------------------------------------------------------------------
(* Sequences of bytes.                                                     *)

LEMMA Empty ==
    /\ <<>> \in Seq(Bytes) /\ Len(<<>>) = 0
    /\ \A s \in Seq(Bytes) : Len(s) \in Nat /\ (s = <<>> <=> Len(s) = 0)
BY EmptySeq

\* n elements of s from position m + 1 on.
LEMMA Slice ==
    ASSUME NEW s \in Seq(Bytes), NEW m \in Nat, NEW n \in Nat,
           m + n <= Len(s)
    PROVE  /\ SubSeq(s, m + 1, m + n) \in Seq(Bytes)
           /\ Len(SubSeq(s, m + 1, m + n)) = n
           /\ \A i \in 1..n : SubSeq(s, m + 1, m + n)[i] = s[m + i]
<1>1. Len(s) \in Nat  BY Empty
<1>2. \A i \in m + 1..m + n : s[i] \in Bytes
  BY <1>1, ElementOfSeq
<1> DEFINE from == m + 1
           to == m + n
<1>3. /\ SubSeq(s, from, to) \in Seq(Bytes)
      /\ Len(SubSeq(s, from, to)) = IF from <= to THEN to - from + 1 ELSE 0
      /\ \A i \in 1..to - from + 1 : SubSeq(s, from, to)[i] = s[from + i - 1]
  <2>1. from \in Int /\ to \in Int /\ \A i \in from..to : s[i] \in Bytes
    BY <1>2
  <2> HIDE DEF from, to
  <2> QED  BY <2>1, SubSeqProperties
<1> QED  BY <1>3

LEMMA SliceAll ==
    ASSUME NEW s \in Seq(Bytes)
    PROVE  SubSeq(s, 1, Len(s)) = s
BY SubSeqFull

LEMMA Joined ==
    ASSUME NEW s \in Seq(Bytes), NEW t \in Seq(Bytes)
    PROVE  /\ s \o t \in Seq(Bytes)
           /\ Len(s \o t) = Len(s) + Len(t)
           /\ \A i \in 1..Len(s) + Len(t) :
                 (s \o t)[i] = IF i <= Len(s) THEN s[i] ELSE t[i - Len(s)]
BY ConcatProperties

LEMMA JoinedEmpty ==
    ASSUME NEW s \in Seq(Bytes)
    PROVE  s \o <<>> = s /\ <<>> \o s = s
BY ConcatEmptySeq

LEMMA Bounds ==
    ASSUME NEW m \in Int, NEW n \in Int
    PROVE  /\ Smaller(m, n) \in {m, n} /\ Smaller(m, n) <= m /\ Smaller(m, n) <= n
           /\ Larger(m, n) \in {m, n} /\ Larger(m, n) >= m /\ Larger(m, n) >= n
BY DEF Smaller, Larger

\* The kernel's write, at every place of the file.
LEMMA OverlayFacts ==
    ASSUME NEW c \in Seq(Bytes), NEW p \in Nat, NEW b \in Seq(Bytes), b # <<>>
    PROVE  /\ Overlay(c, p, b) \in Seq(Bytes)
           /\ Len(Overlay(c, p, b)) = Larger(Len(c), p + Len(b))
           /\ \A i \in 1..Len(Overlay(c, p, b)) :
                 Overlay(c, p, b)[i] = IF i \in p + 1..p + Len(b) THEN b[i - p]
                                       ELSE IF i <= Len(c) THEN c[i] ELSE Zero
<1> DEFINE n == Larger(Len(c), p + Len(b))
           e(i) == IF i \in p + 1..p + Len(b) THEN b[i - p]
                   ELSE IF i <= Len(c) THEN c[i] ELSE Zero
<1>1. Len(c) \in Nat /\ Len(b) \in Nat  BY Empty
<1>2. n \in Nat  BY <1>1, Bounds
<1>3. \A i \in 1..n : e(i) \in Bytes
  <2> SUFFICES ASSUME NEW i \in 1..n PROVE e(i) \in Bytes  OBVIOUS
  <2>1. CASE i \in p + 1..p + Len(b)
    <3>1. i - p \in 1..Len(b)  BY <1>1, <2>1
    <3> QED  BY <2>1, <3>1, ElementOfSeq
  <2>2. CASE i \notin p + 1..p + Len(b) /\ i <= Len(c)
    <3>1. i \in 1..Len(c)  BY <1>1, <1>2, <2>2
    <3> QED  BY <2>2, <3>1, ElementOfSeq
  <2> QED  BY <2>1, <2>2, LklFileAssumption
<1>4. Overlay(c, p, b) = [i \in 1..n |-> e(i)]  BY DEF Overlay
<1>5. [i \in 1..n |-> e(i)] \in Seq(Bytes)
  <2> HIDE DEF n, e
  <2> QED  BY <1>2, <1>3, IsASeq
<1>6. Len([i \in 1..n |-> e(i)]) = n
  <2> HIDE DEF n, e
  <2> QED  BY <1>2, <1>5, LenProperties
<1> QED  BY <1>4, <1>5, <1>6

LEMMA OverlayNothing ==
    ASSUME NEW c, NEW p
    PROVE  Overlay(c, p, <<>>) = c
BY DEF Overlay

LEMMA OverlayType ==
    ASSUME NEW c \in Seq(Bytes), NEW p \in Nat, NEW b \in Seq(Bytes)
    PROVE  Overlay(c, p, b) \in Seq(Bytes)
BY OverlayFacts, OverlayNothing

\* Two writes one after the other are one write of both.
LEMMA OverlayTwice ==
    ASSUME NEW c \in Seq(Bytes), NEW p \in Nat,
           NEW a \in Seq(Bytes), NEW b \in Seq(Bytes)
    PROVE  Overlay(Overlay(c, p, a), p + Len(a), b) = Overlay(c, p, a \o b)
<1>1. /\ Len(a) \in Nat /\ Len(b) \in Nat /\ Len(c) \in Nat
      /\ a \o b \in Seq(Bytes)
      /\ Len(a \o b) = Len(a) + Len(b)
  BY Empty, Joined
<1>2. CASE a = <<>>
  BY <1>1, <1>2, Empty, JoinedEmpty, OverlayNothing
<1>3. CASE b = <<>>
  BY <1>3, JoinedEmpty, OverlayNothing
<1>4. CASE a # <<>> /\ b # <<>>
  <2> DEFINE d == Overlay(c, p, a)
             q == p + Len(a)
             x == Overlay(d, q, b)
             y == Overlay(c, p, a \o b)
             n == Larger(Len(c), p + Len(a) + Len(b))
  <2>1. Len(a) > 0 /\ Len(b) > 0 /\ a \o b # <<>>
    BY <1>1, <1>4, Empty
  <2>2. /\ d \in Seq(Bytes)
        /\ Len(d) = Larger(Len(c), q)
        /\ \A i \in 1..Len(d) :
              d[i] = IF i \in p + 1..q THEN a[i - p]
                     ELSE IF i <= Len(c) THEN c[i] ELSE Zero
    BY ONLY <1>4, OverlayFacts, c \in Seq(Bytes), a \in Seq(Bytes), p \in Nat
  <2>3. /\ x \in Seq(Bytes)
        /\ Len(x) = Larger(Len(d), q + Len(b))
        /\ \A i \in 1..Len(x) :
              x[i] = IF i \in q + 1..q + Len(b) THEN b[i - q]
                     ELSE IF i <= Len(d) THEN d[i] ELSE Zero
    <3> HIDE DEF d
    <3>1. q \in Nat  BY <1>1
    <3> HIDE DEF q
    <3> QED  BY <1>4, <2>2, <3>1, OverlayFacts
  <2>4. /\ y \in Seq(Bytes)
        /\ Len(y) = Larger(Len(c), p + Len(a \o b))
        /\ \A i \in 1..Len(y) :
              y[i] = IF i \in p + 1..p + Len(a \o b) THEN (a \o b)[i - p]
                     ELSE IF i <= Len(c) THEN c[i] ELSE Zero
    <3>1. \A ab \in Seq(Bytes) : ab # <<>> =>
             LET z == Overlay(c, p, ab)
             IN  /\ z \in Seq(Bytes)
                 /\ Len(z) = Larger(Len(c), p + Len(ab))
                 /\ \A i \in 1..Len(z) :
                       z[i] = IF i \in p + 1..p + Len(ab) THEN ab[i - p]
                              ELSE IF i <= Len(c) THEN c[i] ELSE Zero
      BY OverlayFacts
    <3> QED  BY <1>1, <2>1, <3>1
  <2>5. Len(x) = Len(y) /\ Len(y) \in Nat
    BY <1>1, <2>2, <2>3, <2>4 DEF Larger
  <2>6. ASSUME NEW i \in 1..Len(y) PROVE x[i] = y[i]
    <3> HIDE DEF d, x, y
    <3>1. CASE i \in q + 1..q + Len(b)
      <4>1. /\ i - p \in 1..Len(a) + Len(b) /\ ~(i - p <= Len(a))
            /\ i - p - Len(a) = i - q /\ i \in p + 1..p + Len(a \o b)
        BY <1>1, <2>5, <3>1
      <4>2. (a \o b)[i - p] = b[i - p - Len(a)]  BY <4>1, Joined
      <4> QED  BY <2>3, <2>4, <2>5, <3>1, <4>1, <4>2
    <3>2. CASE i \in p + 1..q
      <4>1. /\ i - p \in 1..Len(a) + Len(b) /\ i - p <= Len(a)
            /\ i \in p + 1..p + Len(a \o b) /\ i \notin q + 1..q + Len(b)
            /\ i \in 1..Len(d)
        BY <1>1, <2>2, <2>5, <3>2 DEF Larger
      <4>2. (a \o b)[i - p] = a[i - p]  BY <4>1, Joined
      <4>3. y[i] = a[i - p]  BY <2>4, <4>1, <4>2
      <4>4. x[i] = d[i]  BY <1>1, <2>2, <2>3, <2>5, <4>1
      <4>5. d[i] = a[i - p]  BY <2>2, <3>2, <4>1
      <4> QED  BY <4>3, <4>4, <4>5
    <3>3. CASE i \notin p + 1..q /\ i \notin q + 1..q + Len(b)
      <4>1. i \notin p + 1..p + Len(a \o b)  BY <1>1, <2>5, <3>3
      <4>2. i \in 1..Len(d)
        BY <1>1, <2>2, <2>4, <2>5, <3>3 DEF Larger
      <4>3. y[i] = IF i <= Len(c) THEN c[i] ELSE Zero  BY <2>4, <4>1
      <4>4. d[i] = IF i <= Len(c) THEN c[i] ELSE Zero  BY <2>2, <3>3, <4>2
      <4>5. x[i] = d[i]
        <5>1. i \in 1..Len(x) /\ i <= Len(d)  BY <1>1, <2>2, <2>5, <4>2
        <5> QED  BY <2>3, <3>3, <5>1
      <4> QED  BY <4>3, <4>4, <4>5
    <3> QED  BY <3>1, <3>2, <3>3
  <2>7. x = y
    <3> HIDE DEF x, y
    <3> QED  BY <2>3, <2>4, <2>5, <2>6, SeqEqual
  <2> QED  BY <2>7
<1> QED  BY <1>2, <1>3, <1>4

-----------------------------------------------------------------------------
(* The handle.                                                             *)

LEMMA FileType ==
    ASSUME TypeOK
    PROVE  /\ content \in Seq(Bytes) /\ Len(content) \in Nat /\ pos \in Nat
           /\ file.buffer \in Seq(Bytes) /\ Len(file.buffer) \in Nat
           /\ file.bufpos \in Nat /\ file.dataRead \in Nat
           /\ file.filePtr \in Nat /\ file.direction \in {0, 1}
           /\ file.eof_hit \in BOOLEAN
           /\ WriteAt \in Nat
BY Empty DEF TypeOK, Files, WriteAt

LEMMA CallType ==
    ASSUME TypeOK
    PROVE  /\ call.op \in Ops /\ call.full \in BOOLEAN /\ call.asked \in Int
           /\ call.data \in Seq(Bytes) /\ Len(call.data) \in Nat
           /\ call.left \in Int /\ call.amt \in Int /\ call.again \in BOOLEAN
           /\ call.moved \in Seq(Bytes) /\ Len(call.moved) \in Nat
           /\ call.told \in Int /\ call.rv \in Results
BY Empty DEF TypeOK, Calls

\* What waits is the whole buffer.
LEMMA DirtyIs ==
    ASSUME TypeOK, FileInv
    PROVE  /\ Dirty = IF Writing THEN file.buffer ELSE <<>>
           /\ Dirty \in Seq(Bytes) /\ Len(Dirty) \in Nat
<1>1. Writing => Dirty = file.buffer
  BY FileType, SliceAll DEF FileInv, WriteInv, Dirty
<1> QED  BY <1>1, FileType, Empty DEF Dirty

\* A flush that has nothing to do, or fails, changes nothing.
Kept(r) == /\ r.content = content /\ r.pos = pos /\ r.file = file /\ ~r.lost

\* One that does its work leaves the text in the file.
Emptied(r) ==
    /\ r.content = Text /\ r.pos = WriteAt + Len(Dirty)
    /\ r.file.filePtr = file.filePtr + Len(Dirty)

LEMMA CountsType ==
    ASSUME NEW n \in Nat, NEW k \in Counts(n)
    PROVE  k \in Nat /\ k <= n /\ (n > 0 => k > 0)
BY DEF Counts

LEMMA FlushFacts ==
    ASSUME TypeOK, FileInv, NEW r \in Flushes
    PROVE  /\ r.content \in Seq(Bytes) /\ r.pos \in Nat /\ r.file \in Files
           /\ r.ok \in BOOLEAN /\ r.lost \in BOOLEAN
           /\ r.file.flags = file.flags
           /\ r.file.direction = file.direction
           /\ r.file.dataRead = file.dataRead
           /\ \/ Dirty = <<>> /\ r.ok /\ Kept(r)
              \/ Dirty # <<>> /\ ~r.ok /\ Kept(r)
              \/ /\ Dirty # <<>> /\ r.ok /\ Writing
                 /\ r.file.buffer = <<>> /\ r.file.bufpos = 0
                 /\ r.file.filePtr \in Nat
                 /\ ~r.lost => Emptied(r)
<1>1. CASE Dirty = <<>>
  <2>1. r = [content |-> content, pos |-> pos, file |-> file,
             ok |-> TRUE, lost |-> FALSE]
    BY <1>1 DEF Flushes
  <2> QED  BY <1>1, <2>1 DEF Kept, TypeOK
<1>2. CASE Dirty # <<>> /\ r = [content |-> content, pos |-> pos, file |-> file,
                                ok |-> FALSE, lost |-> FALSE]
  BY <1>2 DEF Kept, TypeOK
<1>3. ASSUME NEW k \in Counts(Len(Dirty)), Dirty # <<>>,
             r = [content |-> Overlay(content, WriteAt, SubSeq(Dirty, 1, k)),
                  pos |-> WriteAt + k,
                  file |-> [file EXCEPT !.filePtr = @ + k, !.bufpos = 0,
                                        !.buffer = <<>>],
                  ok |-> TRUE, lost |-> k < Len(Dirty)]
      PROVE  /\ r.content \in Seq(Bytes) /\ r.pos \in Nat /\ r.file \in Files
             /\ r.ok = TRUE /\ r.lost \in BOOLEAN
             /\ r.file.flags = file.flags
             /\ r.file.direction = file.direction
             /\ r.file.dataRead = file.dataRead
             /\ Writing
             /\ r.file.buffer = <<>> /\ r.file.bufpos = 0
             /\ r.file.filePtr \in Nat
             /\ ~r.lost => Emptied(r)
  <2>1. k \in Nat /\ k <= Len(Dirty)  BY DirtyIs, CountsType
  <2>2. SubSeq(Dirty, 1, k) \in Seq(Bytes)
    <3>1. SubSeq(Dirty, 0 + 1, 0 + k) \in Seq(Bytes)  BY <2>1, DirtyIs, Slice
    <3> QED  BY <2>1, <3>1
  <2>3. r.content \in Seq(Bytes)  BY <1>3, <2>2, FileType, OverlayType
  <2>4. r.pos \in Nat  BY <1>3, <2>1, FileType
  <2>5. /\ r.file \in Files
        /\ r.file.flags = file.flags
        /\ r.file.direction = file.direction
        /\ r.file.dataRead = file.dataRead
        /\ r.file.buffer = <<>> /\ r.file.bufpos = 0
        /\ r.file.filePtr = file.filePtr + k
    <3> DEFINE n == file.filePtr + k
    <3>1. n \in Nat  BY <2>1, FileType
    <3>2. r.file = [file EXCEPT !.filePtr = n, !.bufpos = 0, !.buffer = <<>>]
      BY <1>3
    <3> HIDE DEF n
    <3>3. file \in Files /\ 0 \in Nat  BY DEF TypeOK
    <3>4. r.file \in Files  BY <3>1, <3>2, <3>3, Empty DEF Files
    <3>5. /\ r.file.flags = file.flags
          /\ r.file.direction = file.direction
          /\ r.file.dataRead = file.dataRead
          /\ r.file.buffer = <<>> /\ r.file.bufpos = 0
          /\ r.file.filePtr = n
      BY <3>1, <3>2, <3>3 DEF Files
    <3> QED  BY <3>4, <3>5 DEF n
  <2>6. Writing  BY <1>3 DEF Dirty
  <2>7. /\ r.ok = TRUE /\ r.lost \in BOOLEAN
        /\ ~r.lost => ~(k < Len(Dirty))
    <3> DEFINE l == k < Len(Dirty)
               f == [file EXCEPT !.filePtr = @ + k, !.bufpos = 0, !.buffer = <<>>]
               w == Overlay(content, WriteAt, SubSeq(Dirty, 1, k))
    <3>1. r = [content |-> w, pos |-> WriteAt + k, file |-> f, ok |-> TRUE,
               lost |-> l]
      BY <1>3
    <3> HIDE DEF l, f, w
    <3>2. r.ok = TRUE /\ r.lost = l  BY <3>1
    <3>3. l \in BOOLEAN /\ (~l => ~(k < Len(Dirty)))  BY <2>1, DirtyIs DEF l
    <3> QED  BY <3>2, <3>3, Zenon
  <2>8. ASSUME ~r.lost PROVE Emptied(r)
    <3>1. k = Len(Dirty)  BY <2>1, <2>7, <2>8, DirtyIs
    <3>2. SubSeq(Dirty, 1, k) = Dirty  BY <3>1, DirtyIs, SliceAll
    <3> QED  BY <1>3, <2>5, <3>1, <3>2 DEF Emptied, Text
  <2> QED  BY <2>1, <2>3, <2>4, <2>5, <2>6, <2>7, <2>8, FileType
<1> QED  BY <1>1, <1>2, <1>3 DEF Flushes

-----------------------------------------------------------------------------
(* The call.                                                               *)

LEMMA CallFields ==
    ASSUME NEW c \in Calls
    PROVE  /\ c.op \in Ops /\ c.full \in BOOLEAN /\ c.asked \in Int
           /\ c.data \in Seq(Bytes) /\ c.left \in Int /\ c.amt \in Int
           /\ c.again \in BOOLEAN /\ c.moved \in Seq(Bytes)
           /\ c.told \in Int /\ c.rv \in Results
BY DEF Calls

LEMMA Ended ==
    ASSUME NEW c \in Calls, NEW status \in Results,
           NEW d, d = [c EXCEPT !.rv = status]
    PROVE  /\ d \in Calls
           /\ d.op = c.op /\ d.full = c.full /\ d.asked = c.asked
           /\ d.data = c.data /\ d.moved = c.moved /\ d.rv = status
           /\ d.left = c.left /\ d.amt = c.amt /\ d.told = c.told
<1>1. d \in Calls  BY DEF Calls
<1>2. /\ d.op = c.op /\ d.full = c.full /\ d.asked = c.asked
      /\ d.data = c.data /\ d.moved = c.moved /\ d.rv = status
      /\ d.left = c.left /\ d.amt = c.amt /\ d.told = c.told
  BY DEF Calls
<1> QED  BY <1>1, <1>2

\* A call that returns, or goes round again.
LEMMA ReturnedFacts ==
    ASSUME NEW c \in Calls, NEW status \in Results, NEW n \in Int,
           NEW d, d = Returned(c, status, n)
    PROVE  /\ d \in Calls
           /\ d.op = c.op /\ d.full = c.full /\ d.asked = c.asked
           /\ d.data = c.data /\ d.moved = c.moved
           /\ d.left = c.left - n /\ d.amt = c.left - n /\ d.told = c.told + n
           /\ d.rv = IF c.full /\ status = "SUCCESS" /\ c.left - n > 0
                     THEN c.rv ELSE status
<1> DEFINE l == c.left - n
           t == c.told + n
           e == [c EXCEPT !.left = l, !.amt = l, !.told = t, !.again = FALSE]
           goesOn == c.full /\ status = "SUCCESS" /\ l > 0
<1>1. l \in Int /\ t \in Int  BY CallFields
<1>2. /\ e \in Calls
      /\ e.op = c.op /\ e.full = c.full /\ e.asked = c.asked
      /\ e.data = c.data /\ e.moved = c.moved /\ e.rv = c.rv
      /\ e.left = l /\ e.amt = l /\ e.told = t
  <2> HIDE DEF l, t
  <2>1. e \in Calls  BY <1>1 DEF Calls
  <2>2. /\ e.op = c.op /\ e.full = c.full /\ e.asked = c.asked
        /\ e.data = c.data /\ e.moved = c.moved /\ e.rv = c.rv
        /\ e.left = l /\ e.amt = l /\ e.told = t
    BY <1>1 DEF Calls
  <2> QED  BY <2>1, <2>2
<1>3. d = IF e.full /\ status = "SUCCESS" /\ e.left > 0 THEN e
          ELSE [e EXCEPT !.rv = status]
  BY DEF Returned
<1>4. d = IF goesOn THEN e ELSE [e EXCEPT !.rv = status]
  <2> HIDE DEF e
  <2> QED  BY <1>2, <1>3
<1>5. CASE goesOn
  <2>1. d = e  BY <1>4, <1>5
  <2> HIDE DEF e
  <2> QED  BY <1>2, <1>5, <2>1
<1>6. CASE ~goesOn
  <2>1. d = [e EXCEPT !.rv = status]  BY <1>4, <1>6
  <2> HIDE DEF e
  <2>2. /\ d \in Calls
        /\ d.op = e.op /\ d.full = e.full /\ d.asked = e.asked
        /\ d.data = e.data /\ d.moved = e.moved /\ d.rv = status
        /\ d.left = e.left /\ d.amt = e.amt /\ d.told = e.told
    BY <1>2, <2>1, Ended
  <2> QED  BY <1>2, <1>6, <2>2
<1> QED  BY <1>5, <1>6

-----------------------------------------------------------------------------
(* What a step does to the text, the place and the call, as FileText sees  *)
(* it.                                                                     *)

TextStep == [T!Next]_(T!vars)

\* T!Honest, in the variables of LklFile.
TellsTruth ==
    /\ call.rv = "SUCCESS" => call.told = Len(call.moved)
    /\ call.rv = "SUCCESS" /\ call.full => call.told = call.asked
    /\ call.rv = "EOF" => /\ call.op = "read" /\ At >= Len(Text)
                          /\ call.told = Len(call.moved)

\* The request stays the same.
SameRequest ==
    /\ call'.op = call.op /\ call'.full = call.full
    /\ call'.asked = call.asked /\ call'.data = call.data

SameFlags == file'.flags = file.flags

LEMMA TextType ==
    ASSUME TypeOK, FileInv
    PROVE  /\ Text \in Seq(Bytes) /\ Len(Text) \in Nat
           /\ At \in Nat
           /\ ~Writing => Text = content /\ At = pos - file.dataRead + file.bufpos
           /\ Dirty = <<>> /\ Writing => Text = content /\ At = pos
           /\ Dirty # <<>> /\ Writing => At = WriteAt + Len(Dirty)
<1>1. Text \in Seq(Bytes) /\ Len(Text) \in Nat
  BY FileType, DirtyIs, OverlayType, Empty DEF Text
<1>2. At \in Nat
  BY FileType, DirtyIs, Empty DEF At, FileInv, ReadInv
<1>3. Dirty = <<>> => Text = content  BY OverlayNothing DEF Text
<1>4. ~Writing => Dirty = <<>>  BY DEF Dirty
<1>5. /\ ~Writing => At = pos - file.dataRead + file.bufpos
      /\ Dirty = <<>> /\ Writing => At = pos
      /\ Dirty # <<>> /\ Writing => At = WriteAt + Len(Dirty)
  BY FileType, Empty DEF At
<1> QED  BY <1>1, <1>2, <1>3, <1>4, <1>5

LEMMA Stutters ==
    ASSUME Text' = Text, At' = At, SameFlags, UNCHANGED <<call, astray>>
    PROVE  TextStep
BY DEF TextStep, T!vars, SameFlags

LEMMA GoesAstray ==
    ASSUME ~astray, astray'
    PROVE  TextStep
BY DEF TextStep, T!Next

LEMMA Takes ==
    ASSUME ~astray, ~astray', astray' \in BOOLEAN, astray \in BOOLEAN,
           call.rv = "running", call.op = "read",
           SameRequest, SameFlags, Text' = Text,
           NEW n \in 0..Len(Text), At' = At + n,
           call'.moved = call.moved \o SubSeq(Text, At + 1, At + n),
           TellsTruth'
    PROVE  TextStep
<1>1. T!Honest'  BY DEF TellsTruth, T!Honest
<1>2. UNCHANGED [op |-> call.op, full |-> call.full, asked |-> call.asked,
                 data |-> call.data]
  BY DEF SameRequest
<1>3. T!Take  BY <1>1, <1>2 DEF T!Take, SameFlags
<1>4. UNCHANGED astray  OBVIOUS
<1> QED  BY <1>3, <1>4 DEF TextStep, T!Next

LEMMA Puts ==
    ASSUME ~astray, ~astray', astray' \in BOOLEAN, astray \in BOOLEAN,
           call.rv = "running", call.op = "write",
           SameRequest, SameFlags,
           NEW n \in 0..call.asked - Len(call.moved),
           NEW b, b = SubSeq(call.data, Len(call.moved) + 1, Len(call.moved) + n),
           Text' = Overlay(Text, T!PutAt, b),
           At' = IF n = 0 THEN At ELSE T!PutAt + n,
           call'.moved = call.moved \o b,
           TellsTruth'
    PROVE  TextStep
<1>1. T!Honest'  BY DEF TellsTruth, T!Honest
<1>2. UNCHANGED [op |-> call.op, full |-> call.full, asked |-> call.asked,
                 data |-> call.data]
  BY DEF SameRequest
<1>3. Overlay(Text, T!PutAt, b) = T!Overlay(Text, T!PutAt, b)
  BY DEF Overlay, T!Overlay, Larger, T!Larger
<1>4. T!Put  BY <1>1, <1>2, <1>3 DEF T!Put, SameFlags
<1>5. UNCHANGED astray  OBVIOUS
<1> QED  BY <1>4, <1>5 DEF TextStep, T!Next

\* A call that has moved nothing.
LEMMA TakesNothing ==
    ASSUME TypeOK, FileInv, ~astray, astray' = astray,
           call.rv = "running", call.op = "read",
           SameRequest, SameFlags, Text' = Text, At' = At,
           call'.moved = call.moved, TellsTruth'
    PROVE  TextStep
<1>1. SubSeq(Text, At + 1, At + 0) = <<>>  BY TextType, SubSeqEmpty
<1>2. call'.moved = call.moved \o SubSeq(Text, At + 1, At + 0)
  BY <1>1, CallType, JoinedEmpty
<1>3. 0 \in 0..Len(Text) /\ At' = At + 0  BY TextType
<1>4. astray \in BOOLEAN  BY DEF TypeOK
<1> QED  BY <1>2, <1>3, <1>4, Takes

LEMMA PutsNothing ==
    ASSUME TypeOK, FileInv, CallInv, ~astray, astray' = astray,
           call.rv = "running", call.op = "write",
           SameRequest, SameFlags, Text' = Text, At' = At,
           call'.moved = call.moved, TellsTruth'
    PROVE  TextStep
<1> DEFINE m == Len(call.moved)
           b == SubSeq(call.data, m + 1, m + 0)
<1>1. m \in Nat /\ call.asked \in Int  BY CallType
<1>2. b = <<>>  BY <1>1, SubSeqEmpty
<1>3. call'.moved = call.moved \o b  BY <1>2, CallType, JoinedEmpty
<1>4. Text' = Overlay(Text, T!PutAt, b)  BY <1>2, OverlayNothing
<1>5. 0 \in 0..call.asked - m
  BY <1>1, CallType DEF CallInv, InHand
<1>6. At' = IF 0 = 0 THEN At ELSE T!PutAt + 0  OBVIOUS
<1>7. astray \in BOOLEAN  BY DEF TypeOK
<1> QED  BY <1>3, <1>4, <1>5, <1>6, <1>7, Puts

-----------------------------------------------------------------------------
(* Parts that several steps share.                                         *)

LEMMA NothingWaits ==
    ASSUME ~Writing'
    PROVE  Text' = content' /\ At' = pos' - file'.dataRead + file'.bufpos
BY DEF Text, Dirty, At, Overlay, Writing

LEMMA BufferEmptied ==
    ASSUME Writing', file'.bufpos = 0, pos' \in Nat
    PROVE  Text' = content' /\ At' = pos'
<1>1. Dirty' = <<>>
  BY SubSeqEmpty DEF Dirty, Writing
<1>2. Text' = content'  BY <1>1 DEF Text, Overlay
<1>3. Len(Dirty') = 0  BY <1>1, Empty
<1>4. At' = pos' + 0
  <2>1. At' = (IF Dirty' = <<>> THEN pos' ELSE WriteAt') + Len(Dirty')
    BY DEF At, Writing
  <2> QED  BY <1>1, <1>3, <2>1
<1>5. pos' + 0 = pos'
  <2>1. \A p \in Nat : p + 0 = p  OBVIOUS
  <2> QED  BY <2>1
<1> QED  BY <1>2, <1>4, <1>5

\* The handle holds the same, whatever else has changed in it.
SameHandle ==
    /\ file'.flags = file.flags /\ file'.buffer = file.buffer
    /\ file'.bufpos = file.bufpos /\ file'.dataRead = file.dataRead
    /\ file'.direction = file.direction /\ file'.filePtr = file.filePtr

LEMMA SameText ==
    ASSUME SameHandle, UNCHANGED <<content, pos>>
    PROVE  /\ Text' = Text /\ At' = At
           /\ FileInv => FileInv'
           /\ SameFlags
<1>1. Dirty' = Dirty /\ WriteAt' = WriteAt
  BY DEF SameHandle, Dirty, WriteAt, Writing, Has
<1>2. Text' = Text /\ At' = At
  BY <1>1 DEF SameHandle, Text, At, Writing
<1>3. FileInv => FileInv'
  BY DEF SameHandle, FileInv, ReadInv, WriteInv, Writing, Has, Opened
<1> QED  BY <1>2, <1>3 DEF SameFlags, SameHandle

LEMMA SameCall ==
    ASSUME CallInv, UNCHANGED call, SameFlags
    PROVE  CallInv'
BY DEF CallInv, InHand, SameFlags, Has, Opened

LEMMA FlushedText ==
    ASSUME TypeOK, FileInv, NEW r \in Flushes, r.ok, ~r.lost
    PROVE  /\ r.content = Text
           /\ Writing => r.pos = At /\ r.file.bufpos = 0
           /\ ~Writing => Kept(r)
<1>1. \/ Dirty = <<>> /\ Kept(r)
      \/ /\ Dirty # <<>> /\ Writing /\ Emptied(r)
         /\ r.file.bufpos = 0
  BY FlushFacts
<1>2. CASE Dirty = <<>> /\ Kept(r)
  <2>1. Writing => file.bufpos = 0
    BY <1>2, DirtyIs, Empty DEF FileInv, WriteInv
  <2> QED  BY <1>2, <2>1, TextType DEF Kept
<1>3. CASE /\ Dirty # <<>> /\ Writing /\ Emptied(r)
           /\ r.file.bufpos = 0
  BY <1>3, TextType DEF Emptied
<1> QED  BY <1>1, <1>2, <1>3

\* A handle that has been turned round.
Turned(f, way, g) ==
    /\ g \in Files /\ g.flags = f.flags /\ g.direction = way
    /\ g.buffer = <<>> /\ g.bufpos = 0 /\ g.dataRead = 0
    /\ g.filePtr = f.filePtr /\ g.filePtr \in Nat

LEMMA TurnedRound ==
    ASSUME NEW f \in Files, NEW way \in {0, 1}, NEW g,
           g = [f EXCEPT !.bufpos = 0, !.buffer = <<>>,
                         !.direction = way, !.dataRead = 0]
    PROVE  Turned(f, way, g)
<1>1. g \in Files  BY Empty DEF Files
<1>2. /\ g.flags = f.flags /\ g.direction = way
      /\ g.buffer = <<>> /\ g.bufpos = 0 /\ g.dataRead = 0
      /\ g.filePtr = f.filePtr
  BY DEF Files
<1>3. g.filePtr \in Nat  BY <1>1 DEF Files
<1> QED  BY <1>1, <1>2, <1>3 DEF Turned

LEMMA TurnedInv ==
    ASSUME TypeOK, SameFlags, Opened, file'.dataRead = 0, file'.bufpos = 0,
           file'.buffer = <<>>, file'.filePtr \in Nat, pos' \in Nat,
           file'.direction \in {0, 1}, Has("BUFFERED")
    PROVE  FileInv'
<1>1. 0 <= file'.filePtr /\ 0 <= pos' /\ 0 = Len(<<>>)
  BY Empty
<1>2. WriteInv' /\ ReadInv'
  BY <1>1 DEF WriteInv, ReadInv
<1> QED  BY <1>1, <1>2 DEF FileInv, SameFlags, Opened, Has

LEMMA SomeCounted ==
    ASSUME NEW n \in Int, NEW k \in Counts(n), k > 0
    PROVE  k \in Nat /\ k <= n
BY DEF Counts

\* A call that returns with nothing new done to the handle.
LEMMA ReturnsIdle ==
    ASSUME LklFileInv, ~astray, call.rv = "running", call.op \in {"read", "write"},
           SameHandle, file' \in Files, UNCHANGED <<content, pos, astray>>,
           NEW status \in Results \ {"running"}, NEW n \in Int,
           call' = Returned(call, status, n),
           status = "SUCCESS" => n = call.left - call.amt /\ Has("BUFFERED") /\ n > 0,
           status = "EOF" => /\ call.op = "read" /\ At >= Len(Text)
                             /\ call.told + n = Len(call.moved)
    PROVE  LklFileInv' /\ TextStep
<1>1. TypeOK /\ FileInv /\ CallInv  BY DEF LklFileInv
<1>2. /\ call' \in Calls /\ SameRequest
      /\ call'.moved = call.moved
      /\ call'.left = call.left - n /\ call'.amt = call.left - n
      /\ call'.told = call.told + n
      /\ call'.rv = IF call.full /\ status = "SUCCESS" /\ call.left - n > 0
                    THEN "running" ELSE status
  BY <1>1, ReturnedFacts DEF SameRequest, TypeOK
<1>3. Text' = Text /\ At' = At /\ FileInv' /\ SameFlags
  BY <1>1, SameText
<1>4. TypeOK'  BY <1>1, <1>2 DEF TypeOK
<1>5. /\ call.asked \in Int /\ call.left \in Int /\ call.amt \in Int
      /\ call.told \in Int /\ Len(call.moved) \in Nat /\ call.full \in BOOLEAN
  BY <1>1, CallType
<1>6. /\ Opened
      /\ call.op = "write" => Len(call.data) = call.asked
      /\ call.asked = call.told + call.left
      /\ 0 <= call.amt /\ call.amt <= call.left
      /\ call.told >= 0
      /\ Len(call.moved) = call.told + InHand
  BY <1>1 DEF CallInv
<1>7. Opened' /\ (Has("BUFFERED"))' = Has("BUFFERED")
  BY <1>3, <1>6 DEF SameFlags, Opened, Has
<1>8. ASSUME status = "SUCCESS"
      PROVE  CallInv' /\ TellsTruth'
  <2>1. n = call.left - call.amt /\ Has("BUFFERED") /\ n > 0  BY <1>8
  <2>2. Len(call.moved) = call'.told  BY <1>2, <1>5, <1>6, <2>1 DEF InHand
  <2>3. call'.rv = "running" => call'.left > 0 /\ call'.left <= call.asked
    BY <1>2, <1>5, <1>6, <1>8, <2>1
  <2>4. call'.rv = "SUCCESS" /\ call'.full => call'.told = call'.asked
    BY <1>2, <1>5, <1>6, <1>8, <2>1 DEF SameRequest
  <2>5. InHand' = 0  BY <1>2, <1>5, <1>7 DEF InHand
  <2>6. call'.asked = call'.told + call'.left /\ call'.told >= 0
    BY <1>2, <1>5, <1>6, <2>1 DEF SameRequest
  <2>7. CallInv'
    <3>1. call'.amt = call'.left /\ call'.moved = call.moved
      BY <1>2
    <3>2. ASSUME call'.rv = "running"
          PROVE  /\ Opened' /\ call'.op \in {"read", "write"}
                 /\ call'.op = "write" => Len(call'.data) = call'.asked
                 /\ 0 <= call'.amt /\ call'.amt <= call'.left
                 /\ Len(call'.moved) = call'.told + InHand'
      <4>1. call'.left > 0 /\ call'.left \in Int  BY <1>2, <1>5, <2>1, <2>3, <3>2
      <4>2. call'.told \in Int  BY <1>2, <1>5, <2>1
      <4>3. call'.told + 0 = call'.told  BY <4>2
      <4>4. 0 <= call'.amt /\ call'.amt <= call'.left  BY <3>1, <4>1
      <4>5. Len(call'.moved) = call'.told + InHand'
        BY <2>2, <2>5, <3>1, <4>3
      <4> QED  BY <1>2, <1>6, <1>7, <4>4, <4>5 DEF SameRequest
    <3>3. call'.full /\ call'.rv = "SUCCESS" =>
             call'.told = call'.asked /\ Len(call'.moved) = call'.asked
      BY <2>2, <2>4, <3>1
    <3> QED  BY <2>6, <3>2, <3>3 DEF CallInv
  <2>8. call'.rv \in {"running", "SUCCESS"}  BY <1>2, <1>8
  <2>9. TellsTruth'  BY <1>2, <2>2, <2>4, <2>8 DEF TellsTruth
  <2> QED  BY <2>7, <2>9
<1>9. ASSUME status # "SUCCESS"
      PROVE  CallInv' /\ TellsTruth'
  <2>1. call'.rv = status  BY <1>2, <1>9
  <2>2. CallInv'  BY <1>9, <2>1 DEF CallInv
  <2>3. TellsTruth'
    BY <1>2, <1>3, <1>9, <2>1 DEF TellsTruth, SameRequest
  <2> QED  BY <2>2, <2>3
<1>10. ASSUME CallInv', TellsTruth' PROVE LklFileInv' /\ TextStep
  <2>1. CASE call.op = "read"
    <3>1. TextStep  BY <1>1, <1>2, <1>3, <1>10, <2>1, TakesNothing
    <3> QED  BY <1>3, <1>4, <1>10, <3>1 DEF LklFileInv
  <2>2. CASE call.op = "write"
    <3>1. TextStep  BY <1>1, <1>2, <1>3, <1>10, <2>2, PutsNothing
    <3> QED  BY <1>3, <1>4, <1>10, <3>1 DEF LklFileInv
  <2> QED  BY <2>1, <2>2
<1> QED  BY <1>8, <1>9, <1>10

-----------------------------------------------------------------------------
(* lkl_file_read.                                                          *)

LEMMA ReadTurnStep ==
    ASSUME LklFileInv, ReadTurn
    PROVE  LklFileInv' /\ TextStep
<1>1. /\ TypeOK /\ FileInv /\ CallInv /\ ~astray
      /\ call.rv = "running" /\ call.op = "read"
      /\ Has("BUFFERED") /\ Writing /\ Opened
  BY DEF LklFileInv, ReadTurn, Reading, In, CallInv
<1>2. PICK r \in Flushes :
          /\ After(r)
          /\ IF r.ok
             THEN /\ file' = [r.file EXCEPT !.bufpos = 0, !.buffer = <<>>,
                                            !.direction = 0, !.dataRead = 0]
                  /\ UNCHANGED call
             ELSE /\ call' = Returned(call, "ERROR", call.left)
                  /\ UNCHANGED file
  BY DEF ReadTurn
<1>3. /\ r.content \in Seq(Bytes) /\ r.pos \in Nat /\ r.file \in Files
      /\ r.ok \in BOOLEAN /\ r.lost \in BOOLEAN
      /\ r.file.flags = file.flags
      /\ ~r.ok => Kept(r)
  BY <1>1, FlushFacts
<1>4. content' = r.content /\ pos' = r.pos /\ astray' = r.lost
  BY <1>2 DEF After
<1>5. CASE r.ok
  <2>1. /\ file' = [r.file EXCEPT !.bufpos = 0, !.buffer = <<>>,
                                  !.direction = 0, !.dataRead = 0]
        /\ UNCHANGED call
    BY <1>2, <1>5
  <2>2. /\ file' \in Files /\ SameFlags /\ file'.direction = 0
        /\ file'.buffer = <<>> /\ file'.bufpos = 0 /\ file'.dataRead = 0
        /\ file'.filePtr \in Nat
    <3> DEFINE way == 0
    <3>1. way \in {0, 1} /\ r.file \in Files
          /\ file' = [r.file EXCEPT !.bufpos = 0, !.buffer = <<>>,
                                    !.direction = way, !.dataRead = 0]
      BY <1>3, <2>1
    <3> HIDE DEF way
    <3>2. Turned(r.file, way, file')  BY ONLY <3>1, TurnedRound
    <3> QED  BY <1>3, <3>2 DEF SameFlags, Turned, way
  <2>3. TypeOK'  BY <1>1, <1>3, <1>4, <2>1, <2>2 DEF TypeOK
  <2>4. FileInv'  BY <1>1, <1>3, <1>4, <2>2, TurnedInv
  <2>5. CallInv'  BY <1>1, <2>1, <2>2, SameCall
  <2>6. ASSUME r.lost PROVE TextStep
    <3>1. astray'  BY <1>4, <2>6
    <3> QED  BY <1>1, <3>1, GoesAstray
  <2>7. ASSUME ~r.lost PROVE TextStep
    <3>1. Text' = content' /\ At' = pos' - 0 + 0
      BY <2>2, NothingWaits DEF Writing
    <3>2. content' = Text /\ pos' = At
      BY <1>1, <1>4, <1>5, <2>7, FlushedText
    <3>3. Text' = Text /\ At' = At  BY <1>3, <1>4, <3>1, <3>2
    <3>4. astray' = astray  BY <1>1, <1>3, <1>4, <2>7 DEF TypeOK
    <3>5. UNCHANGED <<call, astray>>  BY <2>1, <3>4
    <3> QED  BY <2>2, <3>3, <3>5, Stutters
  <2> QED  BY <1>3, <2>3, <2>4, <2>5, <2>6, <2>7 DEF LklFileInv
<1>6. CASE ~r.ok
  <2>1. call' = Returned(call, "ERROR", call.left) /\ UNCHANGED file
    BY <1>2, <1>6
  <2>2. UNCHANGED <<content, pos, astray>>
    BY <1>1, <1>3, <1>4, <1>6 DEF Kept, TypeOK
  <2>3. SameHandle /\ file' \in Files
    BY <1>1, <2>1 DEF SameHandle, TypeOK
  <2>4. call.left \in Int /\ "ERROR" \in Results \ {"running"}
    BY <1>1, CallType DEF Results
  <2> QED  BY <1>1, <2>1, <2>2, <2>3, <2>4, ReturnsIdle
<1> QED  BY <1>3, <1>5, <1>6

LEMMA ReadFillStep ==
    ASSUME LklFileInv, ReadFill
    PROVE  LklFileInv' /\ TextStep
<1>1. /\ TypeOK /\ FileInv /\ CallInv /\ ~astray
      /\ call.rv = "running" /\ call.op = "read"
      /\ Has("BUFFERED") /\ ~Writing /\ Opened
      /\ file.bufpos >= file.dataRead
      /\ UNCHANGED <<content, astray>>
  BY DEF LklFileInv, ReadFill, Reading, In, CallInv
<1>2. ReadInv  BY <1>1 DEF FileInv
<1>3. Text = content /\ At = pos
  BY <1>1, <1>2, TextType, FileType DEF ReadInv
<1>4. ASSUME NEW k \in Counts(Smaller(BufSize, Len(content) - pos)), k > 0,
             pos' = pos + k,
             file' = [file EXCEPT !.buffer = SubSeq(content, pos + 1, pos + k),
                                  !.dataRead = k, !.filePtr = @ + k, !.bufpos = 0],
             UNCHANGED call
      PROVE  LklFileInv' /\ TextStep
  <2>1. k \in Nat /\ k <= Len(content) - pos
    <3> DEFINE n == Smaller(BufSize, Len(content) - pos)
    <3>1. n \in Int /\ n <= Len(content) - pos
      BY <1>1, FileType, LklFileAssumption DEF Smaller
    <3>2. k \in Nat /\ k <= n
      <4>1. k \in Counts(n)  BY <1>4
      <4> HIDE DEF n
      <4> QED  BY <1>4, <3>1, <4>1, SomeCounted
    <3> HIDE DEF n
    <3> QED  BY <1>1, <3>1, <3>2, FileType
  <2> DEFINE ahead == SubSeq(content, pos + 1, pos + k)
             n == file.filePtr + k
  <2>2. /\ ahead \in Seq(Bytes) /\ Len(ahead) = k
        /\ \A i \in 1..k : ahead[i] = content[pos + i]
    <3>1. content \in Seq(Bytes) /\ pos \in Nat /\ pos + k <= Len(content)
      BY <1>1, <2>1, FileType
    <3> QED  BY <2>1, <3>1, Slice
  <2>3. n \in Nat /\ k <= n  BY <1>1, <2>1, FileType
  <2>4. /\ file' \in Files /\ SameFlags /\ file'.direction = file.direction
        /\ file'.buffer = ahead /\ file'.bufpos = 0 /\ file'.dataRead = k
        /\ file'.filePtr = n
    <3>1. file' = [file EXCEPT !.buffer = ahead, !.dataRead = k,
                               !.filePtr = n, !.bufpos = 0]
      BY <1>4
    <3>2. file \in Files  BY <1>1 DEF TypeOK
    <3> HIDE DEF ahead, n
    <3>3. file' \in Files  BY <2>1, <2>2, <2>3, <3>1, <3>2 DEF Files
    <3>4. /\ file'.flags = file.flags /\ file'.direction = file.direction
          /\ file'.buffer = ahead /\ file'.bufpos = 0 /\ file'.dataRead = k
          /\ file'.filePtr = n
      BY <3>1, <3>2 DEF Files
    <3> QED  BY <3>3, <3>4 DEF SameFlags
  <2> HIDE DEF ahead, n
  <2>5. pos \in Nat /\ pos' = pos + k /\ Len(content) \in Nat
    BY <1>1, <1>4, FileType
  <2>6. TypeOK'  BY <1>1, <1>4, <2>1, <2>4, <2>5 DEF TypeOK
  <2>7. ReadInv'
    <3>1. /\ 0 <= k /\ k <= pos + k /\ pos + k <= Len(content)
          /\ \A i \in 1..k : pos + k - k + i = pos + i
      BY <2>1, <2>5
    <3>2. content' = content  BY <1>1
    <3> QED  BY <2>2, <2>4, <2>5, <3>1, <3>2 DEF ReadInv
  <2>8. FileInv'
    BY <1>1, <2>3, <2>4, <2>7 DEF FileInv, SameFlags, Opened, Has, Writing
  <2>9. CallInv'  BY <1>1, <1>4, <2>4, SameCall
  <2>10. Text' = Text /\ At' = At
    <3>1. ~Writing'  BY <1>1, <2>4 DEF Writing
    <3>2. Text' = content' /\ At' = pos' - k + 0
      BY <2>4, <3>1, NothingWaits
    <3> QED  BY <1>1, <1>3, <2>1, <2>5, <3>2
  <2>11. TextStep
    <3>1. UNCHANGED <<call, astray>>  BY <1>1, <1>4
    <3> QED  BY <2>4, <2>10, <3>1, Stutters
  <2> QED  BY <1>1, <2>6, <2>8, <2>9, <2>11 DEF LklFileInv
<1>5. ASSUME NEW status \in {"EOF", "EINTR", "ERROR"}, call' = Broken(status),
             UNCHANGED pos, SameHandle, file' \in Files,
             status = "EOF" => pos >= Len(content)
      PROVE  LklFileInv' /\ TextStep
  <2> DEFINE n == call.left - call.amt
             st == IF n > 0 THEN "SUCCESS" ELSE status
  <2>1. n \in Int /\ n >= 0 /\ call.told \in Int /\ Len(call.moved) \in Nat
    BY <1>1, CallType DEF CallInv
  <2>2. call' = Returned(call, st, n)  BY <1>5 DEF Broken
  <2>3. st \in Results \ {"running"}  BY <1>5 DEF Results
  <2>4. st = "SUCCESS" => n = call.left - call.amt /\ Has("BUFFERED") /\ n > 0
    BY <1>1, <1>5
  <2>5. st = "EOF" => /\ call.op = "read" /\ At >= Len(Text)
                      /\ call.told + n = Len(call.moved)
    BY <1>1, <1>3, <1>5, <2>1 DEF CallInv, InHand
  <2>6. UNCHANGED <<content, pos, astray>>  BY <1>1, <1>5
  <2> HIDE DEF n, st
  <2> QED  BY <1>1, <1>5, <2>1, <2>2, <2>3, <2>4, <2>5, <2>6, ReturnsIdle
           DEF n
<1>6. ASSUME file' = [file EXCEPT !.eof_hit = TRUE]
      PROVE  SameHandle /\ file' \in Files
  BY <1>1, <1>6 DEF SameHandle, TypeOK, Files
<1>7. ASSUME UNCHANGED file PROVE SameHandle /\ file' \in Files
  BY <1>1, <1>7 DEF SameHandle, TypeOK
<1> QED  BY <1>4, <1>5, <1>6, <1>7 DEF ReadFill

\* The call as it must be while it runs, by its fields.
LEMMA CallParts ==
    ASSUME TypeOK, CallInv, call.rv = "running"
    PROVE  /\ call \in Calls /\ call.op \in {"read", "write"} /\ Opened
           /\ call.op = "write" => Len(call.data) = call.asked
           /\ call.asked = call.told + call.left
           /\ 0 <= call.amt /\ call.amt <= call.left
           /\ call.told >= 0
           /\ Len(call.moved) = call.told + InHand
           /\ call.asked \in Int /\ call.left \in Int /\ call.amt \in Int
           /\ call.told \in Int /\ Len(call.moved) \in Nat
           /\ call.moved \in Seq(Bytes)
BY CallType DEF CallInv, TypeOK

\* d is c after n more bytes.
GoneOn(c, n, d) ==
    /\ d \in Calls
    /\ d.op = c.op /\ d.full = c.full /\ d.asked = c.asked
    /\ d.data = c.data /\ d.moved = c.moved
    /\ d.left = c.left - n /\ d.amt = c.left - n /\ d.told = c.told + n
    /\ d.rv = IF c.full /\ c.left - n > 0 THEN c.rv ELSE "SUCCESS"

LEMMA Succeeded ==
    ASSUME NEW c \in Calls, NEW n \in Int, NEW d, d = Returned(c, "SUCCESS", n)
    PROVE  GoneOn(c, n, d)
<1> DEFINE st == "SUCCESS"
<1>1. st \in Results /\ d = Returned(c, st, n) /\ st = "SUCCESS"  BY DEF Results
<1> HIDE DEF st
<1> QED  BY <1>1, ReturnedFacts DEF GoneOn

\* A buffered call copies the bytes b.
Copies(b) ==
    LET c == [call EXCEPT !.amt = call.amt - Len(b), !.moved = call.moved \o b]
    IN  call' = IF c.amt = 0 THEN Returned(c, "SUCCESS", c.left) ELSE c

LEMMA CopiedCall ==
    ASSUME TypeOK, CallInv, call.rv = "running", Has("BUFFERED"), SameFlags,
           NEW b \in Seq(Bytes), Len(b) <= call.amt, Copies(b)
    PROVE  /\ call' \in Calls /\ SameRequest /\ CallInv' /\ TellsTruth'
           /\ call'.moved = call.moved \o b
<1> DEFINE m == call.moved \o b
           a == call.amt - Len(b)
           c == [call EXCEPT !.amt = a, !.moved = m]
<1>1. /\ m \in Seq(Bytes) /\ Len(m) = Len(call.moved) + Len(b)
      /\ Len(b) \in Nat
  BY CallParts, Joined, Empty
<1>2. a \in Int /\ 0 <= a /\ a = call.amt - Len(b) /\ a <= call.left
  BY <1>1, CallParts
<1>3. call' = IF c.amt = 0 THEN Returned(c, "SUCCESS", c.left) ELSE c
  BY DEF Copies
<1> HIDE DEF m, a
<1>4. c \in Calls  BY <1>1, <1>2, CallParts DEF Calls
<1>5. /\ c.op = call.op /\ c.full = call.full /\ c.asked = call.asked
      /\ c.data = call.data /\ c.left = call.left /\ c.told = call.told
      /\ c.rv = "running" /\ c.amt = a /\ c.moved = m
  BY CallParts DEF Calls
<1> HIDE DEF c
<1>6. Opened' /\ (Has("BUFFERED"))'
  BY CallParts DEF SameFlags, Opened, Has
<1>7. CASE a = 0
  <2>1. call' = Returned(c, "SUCCESS", call.left)  BY <1>3, <1>5, <1>7
  <2>2. "SUCCESS" \in Results /\ call.left \in Int
    BY CallParts DEF Results
  <2>3. /\ call' \in Calls /\ SameRequest
        /\ call'.moved = m /\ call'.told = call.told + call.left
        /\ call'.rv = "SUCCESS"
    <3> DEFINE n == call.left
    <3>1. /\ call' \in Calls
          /\ call'.op = c.op /\ call'.full = c.full /\ call'.asked = c.asked
          /\ call'.data = c.data /\ call'.moved = c.moved
          /\ call'.told = c.told + n
          /\ call'.rv = IF c.full /\ c.left - n > 0 THEN c.rv ELSE "SUCCESS"
      <4>1. n \in Int /\ call' = Returned(c, "SUCCESS", n)  BY <2>1, <2>2
      <4> HIDE DEF n
      <4>2. GoneOn(c, n, call')  BY ONLY <1>4, <4>1, Succeeded
      <4> QED  BY ONLY <4>2 DEF GoneOn
    <3>2. ~(call.left - call.left > 0)  BY CallParts
    <3> QED  BY <1>5, <3>1, <3>2 DEF SameRequest
  <2>4. call'.told = call'.asked /\ Len(call'.moved) = call'.asked
    <3>1. /\ Len(call.moved) = call.told + (call.left - call.amt)
          /\ call.asked = call.told + call.left
      BY CallParts DEF InHand
    <3>2. Len(m) = call.told + call.left
      BY <1>1, <1>2, <1>7, <3>1, CallParts
    <3> QED  BY <2>3, <3>1, <3>2 DEF SameRequest
  <2>5. CallInv' /\ TellsTruth'
    BY <2>3, <2>4 DEF CallInv, TellsTruth
  <2> QED  BY <2>3, <2>5 DEF m
<1>8. CASE a # 0
  <2>1. call' = c  BY <1>3, <1>5, <1>8
  <2>2. call' \in Calls /\ SameRequest /\ call'.moved = m
    BY <1>4, <1>5, <2>1 DEF SameRequest
  <2>3. TellsTruth'  BY <1>5, <2>1 DEF TellsTruth
  <2>4. InHand' = call.left - a
    BY <1>5, <1>6, <2>1 DEF InHand
  <2>5. Len(m) = call.told + (call.left - a)
    <3>1. Len(call.moved) = call.told + (call.left - call.amt)
      BY CallParts DEF InHand
    <3>2. Len(call.moved) \in Nat /\ call.told \in Int /\ call.left \in Int
          /\ call.amt \in Int
      BY CallParts
    <3> DEFINE p == Len(call.moved)
               t == call.told
               l == call.left
               x == call.amt
               n == Len(b)
    <3>3. /\ p \in Int /\ t \in Int /\ l \in Int /\ x \in Int /\ n \in Int
          /\ Len(m) = p + n /\ p = t + (l - x) /\ a = x - n
      BY <1>1, <1>2, <3>1, <3>2
    <3> HIDE DEF p, t, l, x, n
    <3>4. Len(m) = t + (l - a)  BY ONLY <3>3
    <3> QED  BY <3>4 DEF t, l
  <2>6. CallInv'
    BY <1>2, <1>5, <1>6, <2>1, <2>4, <2>5, CallParts DEF CallInv
  <2> QED  BY <2>2, <2>3, <2>6 DEF m
<1> QED  BY <1>7, <1>8

\* A call without a buffer that has moved the bytes b.
LEMMA MovedCall ==
    ASSUME TypeOK, CallInv, call.rv = "running", ~Has("BUFFERED"), SameFlags,
           NEW b \in Seq(Bytes), Len(b) <= call.amt,
           NEW c, c = [call EXCEPT !.moved = call.moved \o b],
           call' = Returned(c, "SUCCESS", Len(b))
    PROVE  /\ call' \in Calls /\ SameRequest /\ CallInv' /\ TellsTruth'
           /\ call'.moved = call.moved \o b
<1> DEFINE m == call.moved \o b
           k == Len(b)
<1>1. m \in Seq(Bytes) /\ Len(m) = Len(call.moved) + k /\ k \in Nat
  BY CallParts, Joined, Empty
<1>2. c = [call EXCEPT !.moved = m]  OBVIOUS
<1>3. k <= call.amt /\ call' = Returned(c, "SUCCESS", k)  OBVIOUS
<1> HIDE DEF m, k
<1>4. c \in Calls  BY <1>1, <1>2, CallParts DEF Calls
<1>5. /\ c.op = call.op /\ c.full = call.full /\ c.asked = call.asked
      /\ c.data = call.data /\ c.left = call.left /\ c.told = call.told
      /\ c.rv = "running" /\ c.moved = m
  BY <1>2, CallParts DEF Calls
<1>6. "SUCCESS" \in Results /\ k \in Int  BY <1>1 DEF Results
<1>7. /\ call' \in Calls /\ SameRequest /\ call'.moved = m
      /\ call'.left = call.left - k /\ call'.amt = call.left - k
      /\ call'.told = call.told + k
      /\ call'.rv = IF call.full /\ call.left - k > 0
                    THEN "running" ELSE "SUCCESS"
  <2>1. /\ call' \in Calls
        /\ call'.op = c.op /\ call'.full = c.full /\ call'.asked = c.asked
        /\ call'.data = c.data /\ call'.moved = c.moved
        /\ call'.left = c.left - k /\ call'.amt = c.left - k
        /\ call'.told = c.told + k
        /\ call'.rv = IF c.full /\ c.left - k > 0 THEN c.rv ELSE "SUCCESS"
    <3>1. GoneOn(c, k, call')  BY ONLY <1>3, <1>4, <1>6, Succeeded
    <3> QED  BY ONLY <3>1 DEF GoneOn
  <2> QED  BY <1>5, <2>1 DEF SameRequest
<1>8. Opened' /\ ~(Has("BUFFERED"))'
  BY CallParts DEF SameFlags, Opened, Has
<1>9. Len(call.moved) = call.told  BY CallParts DEF InHand
<1>10. Len(m) = call'.told /\ InHand' = 0
  BY <1>1, <1>7, <1>8, <1>9, CallParts DEF InHand
<1>11. /\ call'.asked = call'.told + call'.left
       /\ 0 <= call'.left /\ call'.told >= 0 /\ call'.left \in Int
       /\ call'.told \in Int
  <2>1. /\ call.asked = (call.told + k) + (call.left - k)
        /\ 0 <= call.left - k /\ call.told + k >= 0 /\ call.left - k \in Int
        /\ call.told + k \in Int
    <3>1. /\ call.asked = call.told + call.left /\ call.amt <= call.left
          /\ call.told >= 0 /\ call.told \in Int /\ call.left \in Int
          /\ call.amt \in Int /\ k \in Nat /\ k <= call.amt
      BY <1>1, <1>3, CallParts
    <3> QED  BY ONLY <3>1
  <2> QED  BY <1>7, <2>1 DEF SameRequest
<1>12. call'.rv = "SUCCESS" /\ call'.full => call'.told = call'.asked
  BY <1>7, <1>11 DEF SameRequest
<1>13. call'.rv \in {"running", "SUCCESS"}  BY <1>7
<1>14. TellsTruth'  BY <1>7, <1>10, <1>12, <1>13 DEF TellsTruth
<1>15. CallInv'
  <2>1. /\ call'.op \in {"read", "write"} /\ call'.amt = call'.left
        /\ call'.op = "write" => Len(call'.data) = call'.asked
    BY <1>7, CallParts DEF SameRequest
  <2>2. Len(call'.moved) = call'.told /\ call'.told + 0 = call'.told
    BY <1>7, <1>10, <1>11
  <2>3. 0 <= call'.amt /\ call'.amt <= call'.left  BY <1>11, <2>1
  <2>4. Len(call'.moved) = call'.told + InHand'  BY <1>10, <2>2
  <2> QED  BY <1>8, <1>11, <1>12, <2>1, <2>2, <2>3, <2>4 DEF CallInv
<1> QED  BY <1>7, <1>14, <1>15 DEF m

-----------------------------------------------------------------------------
(* lkl_file_read goes on.                                                  *)

LEMMA ReadCopyStep ==
    ASSUME LklFileInv, ReadCopy
    PROVE  LklFileInv' /\ TextStep
<1> DEFINE k == Smaller(call.amt, file.dataRead - file.bufpos)
           b == SubSeq(file.buffer, file.bufpos + 1, file.bufpos + k)
           n == file.bufpos + k
           c == [call EXCEPT !.amt = call.amt - k, !.moved = call.moved \o b]
<1>1. /\ TypeOK /\ FileInv /\ CallInv /\ ~astray
      /\ call.rv = "running" /\ call.op = "read"
      /\ Has("BUFFERED") /\ ~Writing
      /\ file.bufpos < file.dataRead
      /\ UNCHANGED <<content, pos, astray>>
  BY DEF LklFileInv, ReadCopy, Reading, In
<1>2. /\ file' = [file EXCEPT !.bufpos = n]
      /\ call' = IF c.amt = 0 THEN Returned(c, "SUCCESS", c.left) ELSE c
  BY DEF ReadCopy
<1>3. /\ file.bufpos <= file.dataRead
      /\ file.dataRead = Len(file.buffer)
      /\ file.dataRead <= pos
      /\ file.dataRead > 0 => pos <= Len(content)
      /\ \A i \in 1..file.dataRead :
            file.buffer[i] = content[pos - file.dataRead + i]
  BY <1>1 DEF FileInv, ReadInv
<1>4. /\ file.bufpos \in Nat /\ file.dataRead \in Nat /\ file.filePtr \in Nat
      /\ pos \in Nat /\ Len(content) \in Nat /\ file.buffer \in Seq(Bytes)
      /\ content \in Seq(Bytes)
  BY <1>1, FileType
<1>5. k \in Nat /\ k <= call.amt /\ file.bufpos + k <= file.dataRead
  BY <1>1, <1>4, CallParts, Bounds DEF Smaller
<1>6. Text = content /\ At = pos - file.dataRead + file.bufpos
  BY <1>1, TextType
<1>7. At \in Nat /\ At + k <= Len(content)
  BY <1>1, <1>3, <1>4, <1>5, <1>6
<1> HIDE DEF k
<1>8. /\ b \in Seq(Bytes) /\ Len(b) = k
      /\ \A i \in 1..k : b[i] = file.buffer[file.bufpos + i]
  <2>1. file.bufpos + k <= Len(file.buffer)  BY <1>3, <1>5
  <2>2. file.buffer \in Seq(Bytes) /\ file.bufpos \in Nat /\ k \in Nat
    BY <1>4, <1>5
  <2> DEFINE s == file.buffer
             m == file.bufpos
  <2>3. s \in Seq(Bytes) /\ m \in Nat /\ k \in Nat /\ m + k <= Len(s)
    BY <2>1, <2>2
  <2> HIDE DEF s, m
  <2>4. /\ SubSeq(s, m + 1, m + k) \in Seq(Bytes)
        /\ Len(SubSeq(s, m + 1, m + k)) = k
        /\ \A i \in 1..k : SubSeq(s, m + 1, m + k)[i] = s[m + i]
    BY ONLY <2>3, Slice
  <2> QED  BY <2>4 DEF s, m
<1>9. SubSeq(content, At + 1, At + k) = b
  <2> DEFINE d == SubSeq(content, At + 1, At + k)
  <2>1. /\ d \in Seq(Bytes) /\ Len(d) = k
        /\ \A i \in 1..k : d[i] = content[At + i]
    <3> DEFINE m == At
    <3>1. content \in Seq(Bytes) /\ k \in Nat /\ m \in Nat
          /\ m + k <= Len(content)
      BY <1>4, <1>5, <1>7
    <3> HIDE DEF m
    <3>2. /\ SubSeq(content, m + 1, m + k) \in Seq(Bytes)
          /\ Len(SubSeq(content, m + 1, m + k)) = k
          /\ \A i \in 1..k : SubSeq(content, m + 1, m + k)[i] = content[m + i]
      BY ONLY <3>1, Slice
    <3> QED  BY <3>2 DEF m
  <2>2. ASSUME NEW i \in 1..k PROVE d[i] = b[i]
    <3>1. /\ file.bufpos + i \in 1..file.dataRead
          /\ pos - file.dataRead + (file.bufpos + i) = At + i
      <4> DEFINE m == file.bufpos
                 l == file.dataRead
                 p == pos
                 at == At
      <4>1. /\ m \in Nat /\ l \in Nat /\ p \in Nat /\ k \in Nat
            /\ m + k <= l /\ at = p - l + m
        BY <1>4, <1>5, <1>6
      <4> HIDE DEF m, l, p, at
      <4>2. m + i \in 1..l /\ p - l + (m + i) = at + i  BY ONLY <4>1, i \in 1..k
      <4> QED  BY <4>2 DEF m, l, p, at
    <3>2. file.buffer[file.bufpos + i] = content[At + i]  BY <1>3, <3>1
    <3>3. b[i] = file.buffer[file.bufpos + i]  BY <1>8
    <3>4. d[i] = content[At + i]  BY <2>1
    <3> HIDE DEF d, b
    <3> QED  BY ONLY <3>2, <3>3, <3>4
  <2>3. d \in Seq(Bytes) /\ b \in Seq(Bytes) /\ Len(d) = Len(b)
        /\ \A i \in 1..Len(d) : d[i] = b[i]
    <3> HIDE DEF d, b
    <3> QED  BY <1>8, <2>1, <2>2
  <2> HIDE DEF d, b
  <2>4. d = b  BY ONLY <2>3, SeqEqual
  <2> QED  BY <2>4 DEF d
<1>10. /\ file' \in Files /\ SameFlags /\ file'.direction = file.direction
       /\ file'.buffer = file.buffer /\ file'.bufpos = n
       /\ file'.dataRead = file.dataRead /\ file'.filePtr = file.filePtr
  <2>1. n \in Nat /\ file \in Files  BY <1>1, <1>4, <1>5 DEF TypeOK
  <2> HIDE DEF n
  <2>2. file' \in Files  BY <1>2, <2>1 DEF Files
  <2>3. /\ file'.flags = file.flags /\ file'.direction = file.direction
        /\ file'.buffer = file.buffer /\ file'.bufpos = n
        /\ file'.dataRead = file.dataRead /\ file'.filePtr = file.filePtr
    BY <1>2, <2>1 DEF Files
  <2> QED  BY <2>2, <2>3 DEF SameFlags
<1>11. /\ call' \in Calls /\ SameRequest /\ CallInv' /\ TellsTruth'
       /\ call'.moved = call.moved \o b
  <2>1. Copies(b)
    <3> DEFINE e == [call EXCEPT !.amt = call.amt - Len(b),
                                 !.moved = call.moved \o b]
    <3>1. e = c  BY <1>8
    <3>2. call' = IF e.amt = 0 THEN Returned(e, "SUCCESS", e.left) ELSE e
      <4> HIDE DEF e, c
      <4> QED  BY <1>2, <3>1
    <3> QED  BY <3>2 DEF Copies
  <2>2. b \in Seq(Bytes) /\ Len(b) <= call.amt  BY <1>5, <1>8
  <2> HIDE DEF b, c
  <2> QED  BY ONLY <1>1, <1>10, <2>1, <2>2, CopiedCall
<1>12. TypeOK'  BY <1>1, <1>10, <1>11 DEF TypeOK
<1>13. FileInv'
  <2>1. /\ file.bufpos + k <= file.dataRead
        /\ ~Writing' /\ Has("BUFFERED")' /\ (Opened' <=> Opened)
    BY <1>1, <1>5, <1>10 DEF Writing, SameFlags, Has, Opened
  <2>2. ReadInv'  BY <1>1, <1>3, <1>10, <2>1 DEF ReadInv
  <2> QED  BY <1>1, <1>10, <2>1, <2>2 DEF FileInv
<1>14. TextStep
  <2>1. Text' = content' /\ At' = pos' - file'.dataRead + file'.bufpos
    <3>1. ~Writing'  BY <1>1, <1>10 DEF Writing
    <3> QED  BY <3>1, NothingWaits
  <2>2. Text' = Text /\ At' = At + k
    <3>1. pos - file.dataRead + n = At + k  BY <1>4, <1>5, <1>6
    <3> QED  BY <1>1, <1>6, <1>10, <2>1, <3>1
  <2>3. k \in 0..Len(Text)  BY <1>4, <1>5, <1>6, <1>7
  <2>4. call'.moved = call.moved \o SubSeq(Text, At + 1, At + k)
    BY <1>6, <1>9, <1>11
  <2>5. ~astray' /\ astray \in BOOLEAN /\ astray' \in BOOLEAN
    BY <1>1 DEF TypeOK
  <2> QED  BY ONLY <1>1, <1>10, <1>11, <2>2, <2>3, <2>4, <2>5, Takes
<1> QED  BY <1>11, <1>12, <1>13, <1>14 DEF LklFileInv

LEMMA ReadPlainStep ==
    ASSUME LklFileInv, ReadPlain
    PROVE  LklFileInv' /\ TextStep
<1>1. /\ TypeOK /\ FileInv /\ CallInv /\ ~astray
      /\ call.rv = "running" /\ call.op = "read"
      /\ ~Has("BUFFERED") /\ ~Writing
      /\ UNCHANGED <<content, astray>>
  BY DEF LklFileInv, FileInv, ReadPlain, In
<1>2. file.dataRead = 0 /\ file.bufpos = 0
  BY <1>1, FileType DEF FileInv, ReadInv
<1>3. Text = content /\ At = pos
  BY <1>1, <1>2, TextType, FileType
<1>4. ASSUME NEW k \in Counts(Smaller(call.amt, Len(content) - pos)), k > 0,
             pos' = pos + k,
             call' = Returned([call EXCEPT !.moved =
                                  @ \o SubSeq(content, pos + 1, pos + k)],
                              "SUCCESS", k),
             UNCHANGED file
      PROVE  LklFileInv' /\ TextStep
  <2> DEFINE m == Smaller(call.amt, Len(content) - pos)
             b == SubSeq(content, pos + 1, pos + k)
             c == [call EXCEPT !.moved = call.moved \o b]
  <2>1. k \in Nat /\ k <= call.amt /\ pos + k <= Len(content)
    <3>1. m \in Int /\ m <= call.amt /\ m <= Len(content) - pos
      BY <1>1, FileType, CallParts DEF Smaller
    <3>2. k \in Counts(m)  BY <1>4
    <3> HIDE DEF m
    <3>3. k \in Nat /\ k <= m  BY <1>4, <3>1, <3>2, SomeCounted
    <3> QED  BY <1>1, <3>1, <3>3, FileType, CallParts
  <2>2. b \in Seq(Bytes) /\ Len(b) = k
    <3>1. content \in Seq(Bytes) /\ pos \in Nat  BY <1>1, FileType
    <3> QED  BY ONLY <2>1, <3>1, Slice DEF b
  <2>3. call' = Returned(c, "SUCCESS", Len(b))  BY <1>4, <2>2
  <2>4. SameHandle /\ SameFlags /\ file' = file
    BY <1>4 DEF SameHandle, SameFlags
  <2>5. /\ call' \in Calls /\ SameRequest /\ CallInv' /\ TellsTruth'
        /\ call'.moved = call.moved \o b
    <3>1. c = [call EXCEPT !.moved = call.moved \o b]  OBVIOUS
    <3> HIDE DEF b, c
    <3> QED  BY ONLY <1>1, <2>1, <2>2, <2>3, <2>4, <3>1, MovedCall
  <2>6. pos \in Nat /\ pos' \in Nat /\ pos' = pos + k
    BY <1>1, <1>4, <2>1, FileType
  <2>7. TypeOK'  BY <1>1, <1>4, <2>5, <2>6 DEF TypeOK
  <2>8. FileInv'
    <3>1. /\ Opened /\ Opened' /\ ~Writing' /\ ~(Has("BUFFERED"))'
          /\ file'.dataRead = 0 /\ file'.bufpos = 0
          /\ file'.dataRead <= file'.filePtr
      BY <1>1, <1>2, <2>4, CallParts, FileType DEF Opened, Writing, Has
    <3>2. ReadInv'
      BY <1>1, <1>2, <2>4, <2>6 DEF FileInv, ReadInv
    <3> QED  BY <3>1, <3>2 DEF FileInv
  <2>9. TextStep
    <3>1. ~Writing'  BY <1>1, <2>4 DEF Writing
    <3>2. Text' = content' /\ At' = pos' - 0 + 0
      BY <1>2, <2>4, <3>1, NothingWaits
    <3>3. Text' = Text /\ At' = At + k  BY <1>1, <1>3, <2>1, <2>6, <3>2
    <3>4. k \in 0..Len(Text)  BY <1>1, <1>3, <2>1, <2>6, FileType
    <3>5. call'.moved = call.moved \o SubSeq(Text, At + 1, At + k)
      BY <1>3, <2>5
    <3>6. ~astray' /\ astray \in BOOLEAN /\ astray' \in BOOLEAN
      BY <1>1 DEF TypeOK
    <3> QED  BY ONLY <1>1, <2>4, <2>5, <3>3, <3>4, <3>5, <3>6, Takes
  <2> QED  BY <2>5, <2>7, <2>8, <2>9 DEF LklFileInv
<1>5. ASSUME NEW status \in {"EOF", "ERROR", "TIMEUP"},
             call' = Returned(call, status, 0),
             UNCHANGED pos, SameHandle, file' \in Files,
             status = "EOF" => pos >= Len(content)
      PROVE  LklFileInv' /\ TextStep
  <2>1. status \in Results \ {"running"} /\ status # "SUCCESS"
    BY DEF Results
  <2>2. status = "EOF" => /\ call.op = "read" /\ At >= Len(Text)
                          /\ call.told + 0 = Len(call.moved)
    BY <1>1, <1>3, <1>5, CallParts DEF InHand
  <2>3. UNCHANGED <<content, pos, astray>> /\ 0 \in Int  BY <1>1, <1>5
  <2> QED  BY <1>1, <1>5, <2>1, <2>2, <2>3, ReturnsIdle
<1>6. ASSUME file' = [file EXCEPT !.eof_hit = TRUE]
      PROVE  SameHandle /\ file' \in Files
  BY <1>1, <1>6 DEF SameHandle, TypeOK, Files
<1>7. ASSUME UNCHANGED file PROVE SameHandle /\ file' \in Files
  BY <1>1, <1>7 DEF SameHandle, TypeOK
<1> QED  BY <1>4, <1>5, <1>6, <1>7 DEF ReadPlain

-----------------------------------------------------------------------------
(* lkl_file_write.                                                         *)

LEMMA PieceFacts ==
    ASSUME TypeOK, CallInv, call.rv = "running", call.op = "write",
           NEW k \in Nat, k <= call.amt
    PROVE  /\ Piece(k) \in Seq(Bytes) /\ Len(Piece(k)) = k
           /\ Piece(k) = SubSeq(call.data, Len(call.moved) + 1,
                                Len(call.moved) + k)
           /\ k \in 0..call.asked - Len(call.moved)
<1> DEFINE m == Len(call.moved)
<1>1. m \in Nat /\ m + k <= Len(call.data) /\ Len(call.data) = call.asked
      /\ call.asked \in Int
  BY CallParts DEF InHand
<1>2. call.data \in Seq(Bytes)  BY CallType
<1>3. Piece(k) = SubSeq(call.data, m + 1, m + k)  BY DEF Piece
<1> HIDE DEF m
<1>4. /\ SubSeq(call.data, m + 1, m + k) \in Seq(Bytes)
      /\ Len(SubSeq(call.data, m + 1, m + k)) = k
  BY <1>1, <1>2, Slice
<1>5. k \in 0..call.asked - m  BY <1>1
<1> QED  BY <1>3, <1>4, <1>5 DEF m

\* The bytes that a write adds go behind those that wait.
LEMMA PutPlace ==
    ASSUME TypeOK, FileInv, Writing \/ ~Has("BUFFERED")
    PROVE  T!PutAt = WriteAt + Len(Dirty)
<1>1. T!PutAt = IF Has("APPEND") THEN Len(Text) ELSE At
  BY DEF T!PutAt, Has
<1>2. CASE Dirty = <<>>
  <2>1. Text = content /\ At = pos
    <3>1. CASE Writing  BY <1>2, <3>1, TextType
    <3>2. CASE ~Writing
      <4>1. file.dataRead = 0 /\ file.bufpos = 0
        BY <3>2, FileType DEF FileInv, ReadInv
      <4> QED  BY <3>2, <4>1, TextType, FileType
    <3> QED  BY <3>1, <3>2
  <2>2. WriteAt + Len(Dirty) = WriteAt
    <3>1. Len(Dirty) = 0  BY <1>2, Empty
    <3>2. WriteAt \in Nat  BY FileType
    <3> QED  BY <3>1, <3>2
  <2> QED  BY <1>1, <2>1, <2>2 DEF WriteAt
<1>3. CASE Dirty # <<>>
  <2>1. Writing  BY <1>3 DEF Dirty
  <2>2. At = WriteAt + Len(Dirty)  BY <1>3, <2>1, TextType
  <2>3. Len(Text) = Larger(Len(content), WriteAt + Len(Dirty))
    <3>1. content \in Seq(Bytes) /\ WriteAt \in Nat /\ Dirty \in Seq(Bytes)
      BY DirtyIs, FileType
    <3> QED  BY ONLY <1>3, <3>1, OverlayFacts DEF Text
  <2>4. Has("APPEND") => Len(Text) = WriteAt + Len(Dirty)
    <3>1. Has("APPEND") => WriteAt = Len(content)  BY DEF WriteAt
    <3> QED  BY <2>3, <3>1, DirtyIs, FileType DEF Larger
  <2> QED  BY <1>1, <2>2, <2>4
<1> QED  BY <1>2, <1>3

LEMMA WriteTurnStep ==
    ASSUME LklFileInv, WriteTurn
    PROVE  LklFileInv' /\ TextStep
<1>1. /\ TypeOK /\ FileInv /\ CallInv /\ ~astray
      /\ call.rv = "running" /\ Has("BUFFERED") /\ ~Writing /\ Opened
      /\ UNCHANGED <<content, call>>
      /\ file' = [file EXCEPT !.bufpos = 0, !.dataRead = 0, !.buffer = <<>>,
                              !.direction = 1]
      /\ pos' = IF Offset(file) # file.filePtr THEN Offset(file) ELSE pos
      /\ astray' = (Offset(file) # file.filePtr /\ file.filePtr # pos)
  BY DEF LklFileInv, WriteTurn, In, CallInv
<1>2. /\ pos \in Nat /\ file.bufpos \in Nat /\ file.dataRead \in Nat
      /\ file.filePtr \in Nat /\ file.dataRead <= file.filePtr
      /\ file.dataRead <= pos
  BY <1>1, FileType DEF FileInv, ReadInv
<1>3. /\ Offset(file) = file.filePtr - file.dataRead + file.bufpos
      /\ Offset(file) \in Nat
  BY <1>2 DEF Offset
<1>4. /\ file' \in Files /\ SameFlags /\ file'.direction = 1
      /\ file'.buffer = <<>> /\ file'.bufpos = 0 /\ file'.dataRead = 0
      /\ file'.filePtr = file.filePtr
  <2>1. file \in Files /\ 1 \in {0, 1}  BY <1>1 DEF TypeOK
  <2>2. file' \in Files  BY <1>1, <2>1, Empty DEF Files
  <2>3. /\ file'.flags = file.flags /\ file'.direction = 1
        /\ file'.buffer = <<>> /\ file'.bufpos = 0 /\ file'.dataRead = 0
        /\ file'.filePtr = file.filePtr
    BY <1>1, <2>1 DEF Files
  <2> QED  BY <2>2, <2>3 DEF SameFlags
<1>5. pos' \in Nat  BY <1>1, <1>2, <1>3
<1>6. astray' \in BOOLEAN
  <2>1. (Offset(file) # file.filePtr /\ file.filePtr # pos) \in BOOLEAN
    OBVIOUS
  <2> QED  BY <1>1, <2>1, Zenon
<1>7. TypeOK'  BY <1>1, <1>4, <1>5, <1>6 DEF TypeOK
<1>8. FileInv'
  <2>1. file'.filePtr \in Nat /\ file'.direction \in {0, 1}
    BY <1>2, <1>4
  <2> QED  BY <1>1, <1>4, <1>5, <2>1, TurnedInv
<1>9. CallInv'  BY <1>1, <1>4, SameCall
<1>10. CASE astray'
  <2>1. TextStep  BY <1>1, <1>10, GoesAstray
  <2> QED  BY <1>7, <1>8, <1>9, <2>1 DEF LklFileInv
<1>11. CASE ~astray'
  <2>1. ~(Offset(file) # file.filePtr /\ file.filePtr # pos)
    BY <1>1, <1>11
  <2>2. Text = content /\ At = pos - file.dataRead + file.bufpos
    BY <1>1, TextType
  <2>3. pos' = At  BY <1>1, <1>2, <1>3, <2>1, <2>2
  <2>4. Text' = content' /\ At' = pos'
    BY <1>4, <1>5, BufferEmptied DEF Writing
  <2>5. Text' = Text /\ At' = At  BY <1>1, <2>2, <2>3, <2>4
  <2>6. UNCHANGED <<call, astray>>  BY <1>1, <1>6, <1>11 DEF TypeOK
  <2>7. TextStep  BY <1>4, <2>5, <2>6, Stutters
  <2> QED  BY <1>7, <1>8, <1>9, <2>7 DEF LklFileInv
<1> QED  BY <1>10, <1>11

LEMMA WriteFlushStep ==
    ASSUME LklFileInv, WriteFlush
    PROVE  LklFileInv' /\ TextStep
<1>1. /\ TypeOK /\ FileInv /\ CallInv /\ ~astray
      /\ call.rv = "running" /\ call.op = "write"
      /\ Has("BUFFERED") /\ Writing /\ Opened
      /\ file.bufpos = BufSize
  BY DEF LklFileInv, WriteFlush, In, CallInv
<1>2. PICK r \in Flushes :
          /\ After(r)
          /\ file' = r.file
          /\ call' = IF r.ok THEN call ELSE Returned(call, "ERROR", call.left)
  BY DEF WriteFlush
<1>3. file.dataRead = 0 /\ Len(Dirty) = BufSize /\ Dirty # <<>>
  <2>1. file.dataRead = 0 /\ file.bufpos = Len(file.buffer)
    BY <1>1 DEF FileInv, WriteInv
  <2>2. Dirty = file.buffer  BY <1>1, DirtyIs
  <2> QED  BY <1>1, <2>1, <2>2, Empty, LklFileAssumption
<1>4. /\ r.content \in Seq(Bytes) /\ r.pos \in Nat /\ r.file \in Files
      /\ r.ok \in BOOLEAN /\ r.lost \in BOOLEAN
      /\ r.file.flags = file.flags
      /\ r.file.direction = file.direction
      /\ r.file.dataRead = file.dataRead
      /\ \/ ~r.ok /\ Kept(r)
         \/ /\ r.ok /\ r.file.buffer = <<>> /\ r.file.bufpos = 0
            /\ r.file.filePtr \in Nat
  BY <1>1, <1>3, FlushFacts
<1>5. content' = r.content /\ pos' = r.pos /\ astray' = r.lost
  BY <1>2 DEF After
<1>6. CASE r.ok
  <2>1. /\ file' \in Files /\ SameFlags /\ file'.direction = file.direction
        /\ file'.buffer = <<>> /\ file'.bufpos = 0 /\ file'.dataRead = 0
        /\ file'.filePtr \in Nat /\ UNCHANGED call
    BY <1>2, <1>3, <1>4, <1>6 DEF SameFlags
  <2>2. TypeOK'  BY <1>1, <1>4, <1>5, <2>1 DEF TypeOK
  <2>3. FileInv'
    <3>1. file'.direction \in {0, 1} /\ pos' \in Nat
      BY <1>1, <1>4, <1>5, <2>1, FileType
    <3> QED  BY <1>1, <2>1, <3>1, TurnedInv
  <2>4. CallInv'  BY <1>1, <2>1, SameCall
  <2>5. ASSUME r.lost PROVE TextStep
    <3>1. astray'  BY <1>5, <2>5
    <3> QED  BY <1>1, <3>1, GoesAstray
  <2>6. ASSUME ~r.lost PROVE TextStep
    <3>1. content' = Text /\ pos' = At
      BY <1>1, <1>5, <1>6, <2>6, FlushedText
    <3>2. Text' = content' /\ At' = pos'
      <4>1. Writing'  BY <1>1, <2>1 DEF Writing
      <4>2. pos' \in Nat  BY <1>4, <1>5
      <4> QED  BY <2>1, <4>1, <4>2, BufferEmptied
    <3>3. Text' = Text /\ At' = At  BY <3>1, <3>2
    <3>4. astray' = astray  BY <1>1, <1>4, <1>5, <2>6 DEF TypeOK
    <3>5. UNCHANGED <<call, astray>>  BY <2>1, <3>4
    <3> QED  BY <2>1, <3>3, <3>5, Stutters
  <2> QED  BY <1>4, <2>2, <2>3, <2>4, <2>5, <2>6 DEF LklFileInv
<1>7. CASE ~r.ok
  <2>1. call' = Returned(call, "ERROR", call.left) /\ UNCHANGED file
    BY <1>2, <1>4, <1>7 DEF Kept
  <2>2. UNCHANGED <<content, pos, astray>>
    BY <1>1, <1>4, <1>5, <1>7 DEF Kept, TypeOK
  <2>3. SameHandle /\ file' \in Files
    BY <1>1, <2>1 DEF SameHandle, TypeOK
  <2>4. call.left \in Int /\ "ERROR" \in Results \ {"running"}
    BY <1>1, CallType DEF Results
  <2> QED  BY <1>1, <2>1, <2>2, <2>3, <2>4, ReturnsIdle
<1> QED  BY <1>4, <1>6, <1>7

LEMMA WriteCopyStep ==
    ASSUME LklFileInv, WriteCopy
    PROVE  LklFileInv' /\ TextStep
<1> DEFINE k == Smaller(call.amt, BufSize - file.bufpos)
           b == Piece(k)
           n == file.bufpos + k
           buf == file.buffer \o b
           c == [call EXCEPT !.amt = call.amt - k, !.moved = call.moved \o b]
<1>1. /\ TypeOK /\ FileInv /\ CallInv /\ ~astray
      /\ call.rv = "running" /\ call.op = "write"
      /\ Has("BUFFERED") /\ Writing /\ Opened
      /\ file.bufpos < BufSize
      /\ UNCHANGED <<content, pos, astray>>
  BY DEF LklFileInv, WriteCopy, In, CallInv
<1>2. /\ file' = [file EXCEPT !.buffer = buf, !.bufpos = n]
      /\ call' = IF c.amt = 0 THEN Returned(c, "SUCCESS", c.left) ELSE c
  BY DEF WriteCopy
<1>3. /\ file.bufpos = Len(file.buffer) /\ file.dataRead = 0
      /\ file.bufpos \in Nat /\ file.buffer \in Seq(Bytes)
      /\ file.filePtr \in Nat /\ Dirty = file.buffer
      /\ content \in Seq(Bytes) /\ WriteAt \in Nat
  BY <1>1, FileType, DirtyIs DEF FileInv, WriteInv
<1>4. k \in Nat /\ k <= call.amt
  BY <1>1, <1>3, CallParts, LklFileAssumption DEF Smaller
<1> HIDE DEF k
<1>5. /\ b \in Seq(Bytes) /\ Len(b) = k
      /\ b = SubSeq(call.data, Len(call.moved) + 1, Len(call.moved) + k)
      /\ k \in 0..call.asked - Len(call.moved)
  BY <1>1, <1>4, PieceFacts
<1>6. /\ buf \in Seq(Bytes) /\ Len(buf) = n /\ n \in Nat
  <2> HIDE DEF b
  <2>1. buf \in Seq(Bytes) /\ Len(buf) = Len(file.buffer) + Len(b)
    BY ONLY <1>3, <1>5, Joined DEF buf
  <2>2. n \in Nat  BY <1>3, <1>4
  <2>3. Len(file.buffer) + Len(b) = n  BY <1>3, <1>5
  <2> QED  BY <2>1, <2>2, <2>3
<1>7. /\ file' \in Files /\ SameFlags /\ file'.direction = file.direction
      /\ file'.buffer = buf /\ file'.bufpos = n
      /\ file'.dataRead = 0 /\ file'.filePtr = file.filePtr
  <2>1. file \in Files  BY <1>1 DEF TypeOK
  <2> HIDE DEF n, buf
  <2>2. file' \in Files  BY <1>2, <1>6, <2>1 DEF Files
  <2>3. /\ file'.flags = file.flags /\ file'.direction = file.direction
        /\ file'.buffer = buf /\ file'.bufpos = n
        /\ file'.dataRead = file.dataRead /\ file'.filePtr = file.filePtr
    BY <1>2, <1>6, <2>1 DEF Files
  <2> QED  BY <1>3, <2>2, <2>3 DEF SameFlags
<1>8. /\ call' \in Calls /\ SameRequest /\ CallInv' /\ TellsTruth'
      /\ call'.moved = call.moved \o b
  <2>1. Copies(b)
    <3> DEFINE e == [call EXCEPT !.amt = call.amt - Len(b),
                                 !.moved = call.moved \o b]
    <3>1. e = c  BY <1>5
    <3>2. call' = IF e.amt = 0 THEN Returned(e, "SUCCESS", e.left) ELSE e
      <4> HIDE DEF e, c
      <4> QED  BY <1>2, <3>1
    <3> QED  BY <3>2 DEF Copies
  <2>2. b \in Seq(Bytes) /\ Len(b) <= call.amt  BY <1>4, <1>5
  <2> HIDE DEF b, c
  <2> QED  BY ONLY <1>1, <1>7, <2>1, <2>2, CopiedCall
<1>9. TypeOK'  BY <1>1, <1>7, <1>8 DEF TypeOK
<1>10. Writing' /\ Has("BUFFERED")' /\ Opened'
  BY <1>1, <1>7 DEF Writing, SameFlags, Has, Opened
<1>11. FileInv'
  <2>1. WriteInv'  BY <1>6, <1>7 DEF WriteInv
  <2>2. file'.dataRead <= file'.filePtr  BY <1>3, <1>7
  <2> QED  BY <1>10, <2>1, <2>2 DEF FileInv
<1>12. TextStep
  <2>1. Dirty' = Dirty \o b /\ WriteAt' = WriteAt
    <3>1. SubSeq(buf, 1, n) = buf
      <4> HIDE DEF buf, n
      <4> QED  BY <1>6, SliceAll
    <3>2. Dirty' = buf
      <4> HIDE DEF buf, n
      <4> QED  BY <1>7, <1>10, <3>1 DEF Dirty
    <3>3. WriteAt' = WriteAt  BY <1>1, <1>7 DEF WriteAt, Has, SameFlags
    <3> QED  BY <1>3, <3>2, <3>3
  <2> DEFINE d == Dirty
             p == WriteAt + Len(d)
  <2>2. T!PutAt = p  BY <1>1, PutPlace
  <2>3. d \in Seq(Bytes) /\ Len(d) \in Nat /\ p \in Nat
    BY <1>1, <1>3, DirtyIs
  <2>4. Text' = Overlay(content, WriteAt, d \o b)
    BY <1>1, <2>1 DEF Text
  <2>5. Text = Overlay(content, WriteAt, d)  BY DEF Text
  <2> HIDE DEF d, b
  <2>6. Text' = Overlay(Text, T!PutAt, b)
    <3>1. Overlay(Overlay(content, WriteAt, d), WriteAt + Len(d), b)
              = Overlay(content, WriteAt, d \o b)
      <4>1. content \in Seq(Bytes) /\ WriteAt \in Nat /\ b \in Seq(Bytes)
            /\ d \in Seq(Bytes)
        BY <1>3, <1>5, <2>3
      <4> DEFINE w == WriteAt
      <4>2. w \in Nat  BY <4>1
      <4> HIDE DEF w
      <4>3. Overlay(Overlay(content, w, d), w + Len(d), b)
                = Overlay(content, w, d \o b)
        BY ONLY <4>1, <4>2, OverlayTwice
      <4> QED  BY <4>3 DEF w
    <3> QED  BY <2>2, <2>4, <2>5, <3>1
  <2>7. At' = IF k = 0 THEN At ELSE T!PutAt + k
    <3>1. /\ At' = (IF Dirty' = <<>> THEN pos' ELSE WriteAt') + Len(Dirty')
          /\ At = (IF Dirty = <<>> THEN pos ELSE WriteAt) + Len(Dirty)
      BY <1>1, <1>10 DEF At
    <3>2. CASE k = 0
      <4>1. b = <<>>  BY <1>5, <3>2, Empty
      <4>2. d \o b = d  BY <2>3, <4>1, JoinedEmpty
      <4>3. Dirty' = Dirty  BY <2>1, <4>2 DEF d
      <4> QED  BY <1>1, <2>1, <3>1, <3>2, <4>3
    <3>3. CASE k # 0
      <4>1. Len(d \o b) = Len(d) + k /\ d \o b \in Seq(Bytes)
        BY <1>5, <2>3, Joined
      <4>2. d \o b # <<>>  BY <1>4, <2>3, <3>3, <4>1, Empty
      <4>3. Dirty' = d \o b  BY <2>1 DEF d
      <4>4. At' = WriteAt + (Len(d) + k)
        BY <2>1, <3>1, <4>1, <4>2, <4>3
      <4> QED  BY <1>3, <1>4, <2>2, <2>3, <3>3, <4>4
    <3> QED  BY <3>2, <3>3
  <2>8. ~astray' /\ astray \in BOOLEAN /\ astray' \in BOOLEAN
    BY <1>1 DEF TypeOK
  <2> QED  BY ONLY <1>1, <1>5, <1>7, <1>8, <2>6, <2>7, <2>8, Puts
<1> QED  BY <1>8, <1>9, <1>11, <1>12 DEF LklFileInv

LEMMA WriteTakesStep ==
    ASSUME LklFileInv, NEW k \in Nat, WriteTakes(k)
    PROVE  LklFileInv' /\ TextStep
<1> DEFINE b == Piece(k)
           c == [call EXCEPT !.moved = call.moved \o b]
<1>1. /\ TypeOK /\ FileInv /\ CallInv /\ ~astray
      /\ call.rv = "running" /\ call.op = "write"
      /\ ~Has("BUFFERED") /\ ~Writing /\ Opened
      /\ k \in Counts(call.amt)
      /\ content' = Overlay(content, WriteAt, b)
      /\ pos' = IF k = 0 THEN pos ELSE WriteAt + k
      /\ call' = Returned(c, "SUCCESS", k)
      /\ UNCHANGED <<file, astray>>
  BY DEF LklFileInv, FileInv, WriteTakes, In, CallInv
<1>2. k <= call.amt
  BY <1>1, CallParts, CountsType
<1>3. /\ b \in Seq(Bytes) /\ Len(b) = k
      /\ b = SubSeq(call.data, Len(call.moved) + 1, Len(call.moved) + k)
      /\ k \in 0..call.asked - Len(call.moved)
  BY <1>1, <1>2, PieceFacts
<1>4. /\ content \in Seq(Bytes) /\ WriteAt \in Nat /\ pos \in Nat
      /\ file.dataRead = 0 /\ file.bufpos = 0 /\ Dirty = <<>>
      /\ file.filePtr \in Nat
  BY <1>1, FileType, DirtyIs DEF FileInv, ReadInv
<1>5. Text = content /\ At = pos
  BY <1>1, <1>4, TextType
<1>6. SameFlags /\ ~Writing' /\ Opened' /\ ~(Has("BUFFERED"))'
  BY <1>1 DEF SameFlags, Writing, Opened, Has
<1>7. /\ call' \in Calls /\ SameRequest /\ CallInv' /\ TellsTruth'
      /\ call'.moved = call.moved \o b
  <2>1. c = [call EXCEPT !.moved = call.moved \o b]  OBVIOUS
  <2>2. call' = Returned(c, "SUCCESS", Len(b))  BY <1>1, <1>3
  <2>3. Len(b) <= call.amt  BY <1>2, <1>3
  <2> HIDE DEF b, c
  <2> QED  BY ONLY <1>1, <1>3, <1>6, <2>1, <2>2, <2>3, MovedCall
<1>8. content' \in Seq(Bytes) /\ pos' \in Nat
  <2>1. pos' \in Nat  BY <1>1, <1>4
  <2> HIDE DEF b
  <2>2. Overlay(content, WriteAt, b) \in Seq(Bytes)
    BY ONLY <1>3, <1>4, OverlayType
  <2> QED  BY <1>1, <2>1, <2>2
<1>9. TypeOK'  BY <1>1, <1>7, <1>8 DEF TypeOK
<1>10. FileInv'
  <2>1. ReadInv'
    BY <1>1, <1>4, <1>8 DEF FileInv, ReadInv
  <2>2. file'.dataRead = 0 /\ file'.dataRead <= file'.filePtr  BY <1>1, <1>4
  <2> QED  BY <1>6, <2>1, <2>2 DEF FileInv
<1>11. TextStep
  <2>1. T!PutAt = WriteAt
    <3>1. T!PutAt = WriteAt + Len(Dirty)  BY <1>1, PutPlace
    <3>2. Len(Dirty) = 0  BY <1>4, Empty
    <3> QED  BY <1>4, <3>1, <3>2
  <2>2. Text' = content' /\ At' = pos' - 0 + 0
    BY <1>1, <1>4, <1>6, NothingWaits
  <2>3. Text' = Overlay(Text, T!PutAt, b)  BY <1>1, <1>5, <2>1, <2>2
  <2>4. At' = IF k = 0 THEN At ELSE T!PutAt + k
    BY <1>1, <1>4, <1>5, <1>8, <2>1, <2>2
  <2>5. ~astray' /\ astray \in BOOLEAN /\ astray' \in BOOLEAN
    BY <1>1 DEF TypeOK
  <2> HIDE DEF b
  <2> QED  BY ONLY <1>1, <1>3, <1>6, <1>7, <2>3, <2>4, <2>5, Puts
<1> QED  BY <1>7, <1>9, <1>10, <1>11 DEF LklFileInv

\* A refusal that is offered again.
LEMMA WriteRefusedStep ==
    ASSUME LklFileInv, WriteRefused
    PROVE  LklFileInv' /\ TextStep
<1>1. /\ TypeOK /\ FileInv /\ CallInv /\ ~astray
      /\ call.rv = "running" /\ call.op = "write" /\ ~Has("BUFFERED")
      /\ UNCHANGED <<content, pos, file, astray>>
  BY DEF LklFileInv, WriteRefused, In
<1>2. SameHandle /\ SameFlags /\ file' \in Files
  BY <1>1 DEF SameHandle, SameFlags, TypeOK
<1>3. Text' = Text /\ At' = At /\ FileInv'  BY <1>1, <1>2, SameText
<1>4. ASSUME NEW a \in Int, 0 <= a, a <= call.left, NEW g \in BOOLEAN,
             call' = [call EXCEPT !.amt = a, !.again = g]
      PROVE  LklFileInv' /\ TextStep
  <2>1. call \in Calls  BY <1>1 DEF TypeOK
  <2>2. call' \in Calls  BY <1>4, <2>1 DEF Calls
  <2>3. /\ SameRequest /\ call'.left = call.left /\ call'.amt = a
        /\ call'.moved = call.moved /\ call'.told = call.told
        /\ call'.rv = "running"
    BY <1>1, <1>4, <2>1 DEF Calls, SameRequest
  <2>4. InHand' = InHand /\ Opened'
    <3>1. ~(Has("BUFFERED"))' /\ Opened'
      BY <1>1, <1>2, CallParts DEF SameFlags, Has, Opened
    <3> QED  BY <1>1, <3>1 DEF InHand
  <2>5. CallInv'
    BY <1>1, <1>4, <2>3, <2>4, CallParts DEF CallInv, SameRequest
  <2>6. TypeOK'  BY <1>1, <1>2, <2>2 DEF TypeOK
  <2>7. TextStep
    BY <1>1, <1>2, <1>3, <2>3 DEF TextStep, T!vars, SameRequest, SameFlags
  <2> QED  BY <1>3, <2>5, <2>6, <2>7 DEF LklFileInv
<1>5. /\ call \in Calls /\ call.amt \in Int /\ call.again \in BOOLEAN
      /\ 0 <= call.amt /\ call.amt <= call.left /\ call.left \in Int
  BY <1>1, CallType, CallParts
<1>6. CASE call' = [call EXCEPT !.amt = @ \div 2]
  <2> DEFINE a == call.amt \div 2
             g == call.again
  <2>1. a \in Int /\ 0 <= a /\ a <= call.left  BY <1>5
  <2>2. g \in BOOLEAN /\ call' = [call EXCEPT !.amt = a, !.again = g]
    <3>1. call' = [call EXCEPT !.amt = a]  BY <1>6
    <3> HIDE DEF a
    <3> QED  BY <1>5, <3>1 DEF Calls
  <2> HIDE DEF a, g
  <2> QED  BY <1>4, <2>1, <2>2
<1>7. CASE call' = [call EXCEPT !.again = TRUE]
  <2> DEFINE a == call.amt
  <2>1. a \in Int /\ 0 <= a /\ a <= call.left  BY <1>5
  <2>2. TRUE \in BOOLEAN /\ call' = [call EXCEPT !.amt = a, !.again = TRUE]
    BY <1>5, <1>7 DEF Calls
  <2> HIDE DEF a
  <2> QED  BY <1>4, <2>1, <2>2
<1>8. CASE call' = Returned(call, "TIMEUP", 0)
  <2> DEFINE st == "TIMEUP"
             n == 0
  <2>1. /\ n \in Int /\ st \in Results \ {"running"} /\ st # "SUCCESS"
        /\ st # "EOF" /\ call' = Returned(call, st, n)
    BY <1>8 DEF Results
  <2> HIDE DEF st, n
  <2> QED  BY <1>1, <1>2, <2>1, ReturnsIdle
<1> QED  BY <1>6, <1>7, <1>8 DEF WriteRefused

LEMMA WriteErrorStep ==
    ASSUME LklFileInv, WriteError
    PROVE  LklFileInv' /\ TextStep
<1>1. /\ TypeOK /\ FileInv /\ ~astray /\ astray' = TRUE
      /\ call' = Returned(call, "SUCCESS", -1)
      /\ UNCHANGED <<content, pos, file>>
  BY DEF LklFileInv, WriteError, In
<1>2. FileInv'
  <2>1. SameHandle  BY <1>1 DEF SameHandle
  <2> QED  BY <1>1, <2>1, SameText
<1>3. call' \in Calls
  <2> DEFINE n == -1
  <2>1. n \in Int /\ call \in Calls /\ call' = Returned(call, "SUCCESS", n)
    BY <1>1 DEF TypeOK
  <2> HIDE DEF n
  <2> QED  BY ONLY <2>1, Succeeded DEF GoneOn
<1>4. TypeOK'  BY <1>1, <1>3 DEF TypeOK
<1>5. TextStep  BY <1>1, GoesAstray
<1> QED  BY <1>1, <1>2, <1>4, <1>5 DEF LklFileInv

-----------------------------------------------------------------------------
(* The other calls.                                                        *)

LEMMA AnsweredFacts ==
    ASSUME NEW op \in Ops, NEW asked \in Int, NEW told \in Int, NEW ok,
           NEW c, c = Answered(op, asked, told, ok)
    PROVE  /\ c \in Calls /\ c.op = op /\ c.asked = asked /\ c.told = told
           /\ ~c.full /\ c.rv = IF ok THEN "SUCCESS" ELSE "ERROR"
<1> DEFINE st == IF ok THEN "SUCCESS" ELSE "ERROR"
<1>1. st \in Results  BY DEF Results
<1>2. c = [NoCall EXCEPT !.op = op, !.asked = asked, !.told = told, !.rv = st]
  BY DEF Answered
<1> HIDE DEF st
<1>3. c = [op |-> op, full |-> FALSE, asked |-> asked, data |-> <<>>,
           left |-> 0, amt |-> 0, again |-> FALSE, moved |-> <<>>,
           told |-> told, rv |-> st]
  BY <1>2 DEF NoCall
<1>4. c \in Calls  BY <1>1, <1>3, Empty DEF Calls
<1>5. c.op = op /\ c.asked = asked /\ c.told = told /\ ~c.full /\ c.rv = st
  BY <1>3
<1> QED  BY <1>4, <1>5 DEF st

\* A call that is over and is not one of the _full calls.
LEMMA OverInv ==
    ASSUME call'.rv \in {"SUCCESS", "ERROR"}, ~call'.full
    PROVE  CallInv'
BY DEF CallInv

LEMMA IdleFacts ==
    ASSUME LklFileInv, Idle
    PROVE  /\ TypeOK /\ FileInv /\ CallInv /\ ~astray /\ call.rv # "running"
           /\ ~Has("BUFFERED") => /\ ~Writing /\ file.dataRead = 0
                                  /\ file.bufpos = 0
                                  /\ Text = content /\ At = pos
<1>1. TypeOK /\ FileInv /\ CallInv /\ ~astray /\ call.rv # "running"
  BY DEF LklFileInv, Idle
<1>2. ASSUME ~Has("BUFFERED")
      PROVE  /\ ~Writing /\ file.dataRead = 0 /\ file.bufpos = 0
             /\ Text = content /\ At = pos
  <2>1. ~Writing /\ file.dataRead = 0  BY <1>1, <1>2 DEF FileInv
  <2>2. file.bufpos = 0  BY <1>1, <2>1, FileType DEF FileInv, ReadInv
  <2> QED  BY <1>1, <2>1, <2>2, TextType, FileType
<1> QED  BY <1>1, <1>2

LEMMA OpenStep ==
    ASSUME LklFileInv, NEW flags \in Opens, Open(flags)
    PROVE  LklFileInv' /\ TextStep
<1>1. Idle /\ ~Opened /\ UNCHANGED <<pos, astray>>  BY DEF Open
<1>2. /\ TypeOK /\ FileInv /\ ~astray /\ astray \in BOOLEAN
      /\ pos = 0 /\ ~Writing /\ file.dataRead = 0 /\ file.bufpos = 0
      /\ Text = content /\ At = 0 /\ content \in Seq(Bytes)
      /\ T!Next <=> (T!Open \/ T!Begin \/ T!Take \/ T!Put \/ T!Seek
                            \/ T!Flush \/ T!Close)
  <2>1. TypeOK /\ FileInv /\ ~astray  BY <1>1, IdleFacts
  <2>2. ~Has("BUFFERED")  BY <1>1 DEF Has, Opened
  <2>3. pos = 0  BY <1>1, <2>1 DEF FileInv
  <2> QED  BY <1>1, <2>1, <2>2, <2>3, IdleFacts, FileType DEF TypeOK, T!Next
<1>3. file.flags = {}  BY <1>1 DEF Opened
<1>4. ASSUME NEW rv \in {"SUCCESS", "ERROR"}, call' = [NoCall EXCEPT !.rv = rv]
      PROVE  call' \in Calls /\ CallInv'
  <2>1. call' = [op |-> "none", full |-> FALSE, asked |-> 0, data |-> <<>>,
                 left |-> 0, amt |-> 0, again |-> FALSE, moved |-> <<>>,
                 told |-> 0, rv |-> rv]
    BY <1>4 DEF NoCall
  <2>2. rv \in Results /\ "none" \in Ops  BY DEF Results, Ops
  <2>3. call' \in Calls  BY <2>1, <2>2, Empty DEF Calls
  <2>4. call'.rv \in {"SUCCESS", "ERROR"} /\ ~call'.full  BY <2>1
  <2> QED  BY <2>3, <2>4, OverInv
<1>5. CASE /\ flags \cap {"READ", "WRITE"} # {}
           /\ file' = [NoFile EXCEPT !.flags = flags]
           /\ content' = IF "TRUNCATE" \in flags THEN <<>> ELSE content
           /\ call' = [NoCall EXCEPT !.rv = "SUCCESS"]
  <2>1. file' = [flags |-> flags, buffer |-> <<>>, bufpos |-> 0, dataRead |-> 0,
                 direction |-> 0, filePtr |-> 0, eof_hit |-> FALSE]
    BY <1>5 DEF NoFile
  <2>2. flags \in SUBSET Flags  BY LklFileAssumption
  <2>3. file' \in Files  BY <2>1, <2>2, Empty DEF Files
  <2>4. /\ file'.flags = flags /\ file'.buffer = <<>> /\ file'.bufpos = 0
        /\ file'.dataRead = 0 /\ file'.direction = 0 /\ file'.filePtr = 0
    BY <2>1
  <2>5. content' \in Seq(Bytes)  BY <1>2, <1>5, Empty
  <2>6. call' \in Calls /\ CallInv'  BY <1>4, <1>5
  <2>7. TypeOK'  BY <1>1, <1>2, <2>3, <2>5, <2>6 DEF TypeOK
  <2>8. FileInv'
    <3>1. ~Writing' /\ pos' = 0  BY <1>1, <1>2, <2>4 DEF Writing
    <3>2. ReadInv'  BY <2>4, <3>1, Empty DEF ReadInv
    <3> QED  BY <2>4, <3>1, <3>2 DEF FileInv
  <2>9. Text' = content' /\ At' = 0
    <3>1. Text' = content' /\ At' = pos' - 0 + 0
      BY <2>4, NothingWaits DEF Writing
    <3> QED  BY <1>1, <1>2, <3>1
  <2>10. flags # {}  BY <1>5
  <2>11. T!Open  BY <1>2, <1>3, <1>5, <2>4, <2>9, <2>10 DEF T!Open
  <2>12. TextStep  BY <1>2, <2>11 DEF TextStep
  <2> QED  BY <2>6, <2>7, <2>8, <2>12 DEF LklFileInv
<1>6. CASE call' = [NoCall EXCEPT !.rv = "ERROR"] /\ UNCHANGED <<content, file>>
  <2>1. SameHandle  BY <1>6 DEF SameHandle
  <2>2. Text' = Text /\ At' = At /\ FileInv'  BY <1>1, <1>2, <1>6, <2>1, SameText
  <2>3. call' \in Calls /\ CallInv'  BY <1>4, <1>6
  <2>4. TypeOK'  BY <1>1, <1>2, <1>6, <2>3 DEF TypeOK
  <2>5. T!Open  BY <1>2, <1>3, <2>2 DEF T!Open
  <2>6. TextStep  BY <1>2, <2>5 DEF TextStep
  <2> QED  BY <2>2, <2>3, <2>4, <2>6 DEF LklFileInv
<1> QED  BY <1>5, <1>6 DEF Open

\* A read or a write is asked for.
LEMMA BeginStep ==
    ASSUME LklFileInv, Idle, Opened, UNCHANGED <<content, pos, file, astray>>,
           NEW op \in {"read", "write"}, NEW full \in BOOLEAN,
           NEW data \in Seq(Bytes), NEW n \in Nat, op = "write" => Len(data) = n,
           call' = [op |-> op, full |-> full, asked |-> n, data |-> data,
                    left |-> n, amt |-> n, again |-> FALSE, moved |-> <<>>,
                    told |-> 0, rv |-> "running"]
    PROVE  LklFileInv' /\ TextStep
<1>1. TypeOK /\ FileInv /\ ~astray /\ call.rv # "running"  BY IdleFacts
<1>2. SameHandle /\ file' = file  BY DEF SameHandle
<1>3. Text' = Text /\ At' = At /\ FileInv'  BY <1>1, <1>2, SameText
<1>4. /\ call'.op = op /\ call'.full = full /\ call'.asked = n
      /\ call'.data = data /\ call'.left = n /\ call'.amt = n
      /\ call'.moved = <<>> /\ call'.told = 0 /\ call'.rv = "running"
  OBVIOUS
<1>5. call' \in Calls
  <2>1. op \in Ops /\ "running" \in Results /\ n \in Int  BY DEF Ops, Results
  <2> QED  BY <2>1, Empty DEF Calls
<1>6. TypeOK'  BY <1>1, <1>5 DEF TypeOK
<1>7. Opened' /\ InHand' = 0
  <2>1. n - n = 0  OBVIOUS
  <2> QED  BY <1>2, <1>4, <2>1 DEF Opened, InHand
<1>8. CallInv'
  <2>1. n = 0 + n /\ 0 <= n /\ n <= n /\ 0 >= 0 /\ Len(<<>>) = 0 + 0  BY Empty
  <2> QED  BY <1>4, <1>7, <2>1 DEF CallInv
<1>9. T!Begin  BY <1>1, <1>2, <1>3, <1>4 DEF T!Begin
<1>10. TextStep  BY <1>1, <1>9 DEF TextStep, T!Next
<1> QED  BY <1>3, <1>6, <1>8, <1>10 DEF LklFileInv

LEMMA BeginReadStep ==
    ASSUME LklFileInv, NEW n \in 1..MaxReq, NEW full \in BOOLEAN,
           BeginRead(n, full)
    PROVE  LklFileInv' /\ TextStep
<1>1. /\ Idle /\ Opened /\ UNCHANGED <<content, pos, file, astray>>
      /\ call' = [op |-> "read", full |-> full, asked |-> n, data |-> <<>>,
                  left |-> n, amt |-> n, again |-> FALSE, moved |-> <<>>,
                  told |-> 0, rv |-> "running"]
  BY DEF BeginRead, NoCall, Has, Opened
<1> DEFINE op == "read"
           data == <<>>
<1>2. /\ op \in {"read", "write"} /\ (op = "write" => Len(data) = n)
      /\ data \in Seq(Bytes) /\ n \in Nat
      /\ call' = [op |-> op, full |-> full, asked |-> n, data |-> data,
                  left |-> n, amt |-> n, again |-> FALSE, moved |-> <<>>,
                  told |-> 0, rv |-> "running"]
  BY <1>1, Empty, LklFileAssumption
<1> HIDE DEF op, data
<1> QED  BY <1>1, <1>2, BeginStep

LEMMA TextsType ==
    ASSUME NEW n \in Nat, NEW t \in Texts(n)
    PROVE  t \in Seq(Bytes) /\ Len(t) \in Nat
<1>1. PICK k \in 0..n : t \in [1..k -> Bytes]  BY DEF Texts
<1>2. k \in Nat  OBVIOUS
<1>3. t \in Seq(Bytes)  BY <1>1, <1>2, SeqDef
<1> QED  BY <1>3, Empty

LEMMA BeginWriteStep ==
    ASSUME LklFileInv, NEW data \in Texts(MaxReq), NEW full \in BOOLEAN,
           BeginWrite(data, full)
    PROVE  LklFileInv' /\ TextStep
<1> DEFINE n == Len(data)
           op == "write"
<1>1. data \in Seq(Bytes) /\ n \in Nat  BY TextsType, LklFileAssumption
<1>2. /\ Idle /\ Opened /\ UNCHANGED <<content, pos, file, astray>>
      /\ op \in {"read", "write"} /\ (op = "write" => Len(data) = n)
      /\ call' = [op |-> op, full |-> full, asked |-> n, data |-> data,
                  left |-> n, amt |-> n, again |-> FALSE, moved |-> <<>>,
                  told |-> 0, rv |-> "running"]
  BY DEF BeginWrite, NoCall, Has, Opened
<1> HIDE DEF op, n
<1> QED  BY <1>1, <1>2, BeginStep

LEMMA FlushStep ==
    ASSUME LklFileInv, Flush
    PROVE  LklFileInv' /\ TextStep
<1>1. /\ TypeOK /\ FileInv /\ ~astray /\ call.rv # "running"
      /\ Idle /\ Opened
  BY IdleFacts DEF Flush
<1>2. PICK r \in Flushes : /\ After(r) /\ file' = r.file
                           /\ call' = Answered("flush", 0, 0, r.ok)
  BY DEF Flush
<1>3. /\ r.content \in Seq(Bytes) /\ r.pos \in Nat /\ r.file \in Files
      /\ r.ok \in BOOLEAN /\ r.lost \in BOOLEAN
      /\ r.file.flags = file.flags
      /\ r.file.direction = file.direction
      /\ r.file.dataRead = file.dataRead
      /\ \/ Kept(r)
         \/ /\ r.ok /\ Writing /\ r.file.buffer = <<>> /\ r.file.bufpos = 0
            /\ r.file.filePtr \in Nat
  BY <1>1, FlushFacts
<1>4. content' = r.content /\ pos' = r.pos /\ astray' = r.lost
  BY <1>2 DEF After
<1>5. call' \in Calls /\ CallInv'
  <2> DEFINE op == "flush"
             z == 0
  <2>1. op \in Ops /\ z \in Int /\ call' = Answered(op, z, z, r.ok)
    BY <1>2 DEF Ops
  <2> HIDE DEF op, z
  <2>2. /\ call' \in Calls /\ ~call'.full
        /\ call'.rv = IF r.ok THEN "SUCCESS" ELSE "ERROR"
    BY <2>1, AnsweredFacts
  <2>3. call'.rv \in {"SUCCESS", "ERROR"}  BY <2>2
  <2> QED  BY <2>2, <2>3, OverInv
<1>6. TypeOK'  BY <1>1, <1>2, <1>3, <1>4, <1>5 DEF TypeOK
<1>7. ASSUME r.lost PROVE TextStep
  <2>1. astray'  BY <1>4, <1>7
  <2> QED  BY <1>1, <2>1, GoesAstray
<1>8. ASSUME ~r.lost, Text' = Text, At' = At, file'.flags = file.flags PROVE TextStep
  <2>1. astray' = astray  BY <1>1, <1>3, <1>4, <1>8 DEF TypeOK
  <2>2. T!Flush  BY <1>1, <1>8 DEF T!Flush
  <2> QED  BY <1>1, <2>1, <2>2 DEF TextStep, T!Next
<1>9. CASE Kept(r)
  <2>1. SameHandle /\ UNCHANGED <<content, pos>> /\ ~r.lost
    BY <1>2, <1>4, <1>9 DEF Kept, SameHandle
  <2>2. Text' = Text /\ At' = At /\ FileInv' /\ file'.flags = file.flags
    BY <1>1, <2>1, SameText DEF SameFlags
  <2> QED  BY <1>5, <1>6, <1>8, <2>1, <2>2 DEF LklFileInv
<1>10. CASE /\ r.ok /\ Writing /\ r.file.buffer = <<>> /\ r.file.bufpos = 0
            /\ r.file.filePtr \in Nat
  <2>1. /\ file'.flags = file.flags /\ file'.direction = file.direction
        /\ file'.dataRead = 0 /\ file'.buffer = <<>> /\ file'.bufpos = 0
        /\ file'.filePtr \in Nat /\ pos' \in Nat /\ Has("BUFFERED")
    BY <1>1, <1>2, <1>3, <1>4, <1>10 DEF FileInv, WriteInv
  <2>2. FileInv'
    <3>1. file'.direction \in {0, 1} /\ SameFlags
      BY <1>1, <2>1, FileType DEF SameFlags
    <3> QED  BY <1>1, <2>1, <3>1, TurnedInv
  <2>3. ASSUME ~r.lost PROVE TextStep
    <3>1. content' = Text /\ pos' = At
      BY <1>1, <1>4, <1>10, <2>3, FlushedText
    <3>2. Writing'  BY <1>10, <2>1 DEF Writing
    <3>3. Text' = content' /\ At' = pos'  BY <2>1, <3>2, BufferEmptied
    <3> QED  BY <1>8, <2>1, <2>3, <3>1, <3>3
  <2> QED  BY <1>3, <1>5, <1>6, <1>7, <2>2, <2>3 DEF LklFileInv
<1> QED  BY <1>3, <1>9, <1>10

LEMMA CloseStep ==
    ASSUME LklFileInv, Close
    PROVE  LklFileInv' /\ TextStep
<1>1. /\ TypeOK /\ FileInv /\ ~astray /\ call.rv # "running"
      /\ pos' = 0 /\ file' = NoFile
  BY IdleFacts DEF Close
<1>2. PICK r \in Flushes, e \in {"no"} \cup (Faults \cap {"EIO"}) :
          /\ content' = r.content
          /\ astray' = r.lost
          /\ call' = Answered("close", 0, 0, r.ok /\ e = "no")
  BY DEF Close
<1>3. r.content \in Seq(Bytes) /\ r.ok \in BOOLEAN /\ r.lost \in BOOLEAN
  BY <1>1, FlushFacts
<1>4. /\ call' \in Calls /\ CallInv'
      /\ call'.rv = "SUCCESS" => r.ok
  <2> DEFINE op == "close"
             z == 0
             ok == r.ok /\ e = "no"
  <2>1. op \in Ops /\ z \in Int /\ call' = Answered(op, z, z, ok)
    BY <1>2 DEF Ops
  <2> HIDE DEF op, z, ok
  <2>2. /\ call' \in Calls /\ ~call'.full
        /\ call'.rv = IF ok THEN "SUCCESS" ELSE "ERROR"
    BY <2>1, AnsweredFacts
  <2>3. call'.rv \in {"SUCCESS", "ERROR"}  BY <2>2
  <2>4. CallInv'  BY <2>2, <2>3, OverInv
  <2>5. call'.rv = "SUCCESS" => ok  BY <2>2
  <2>6. ok => r.ok  BY DEF ok
  <2> QED  BY <2>2, <2>4, <2>5, <2>6
<1>5. /\ file' \in Files /\ file'.flags = {} /\ file'.buffer = <<>>
      /\ file'.bufpos = 0 /\ file'.dataRead = 0 /\ file'.direction = 0
      /\ file'.filePtr = 0
  BY <1>1, Empty DEF NoFile, Files
<1>6. TypeOK'  BY <1>1, <1>2, <1>3, <1>4, <1>5 DEF TypeOK
<1>7. FileInv'
  <2>1. ~Writing' /\ ~(Opened') /\ ~(Has("BUFFERED")')
    BY <1>5 DEF Writing, Opened, Has
  <2>2. ReadInv'  BY <1>1, <1>5, Empty DEF ReadInv
  <2> QED  BY <1>1, <1>5, <2>1, <2>2 DEF FileInv
<1>8. ASSUME r.lost PROVE TextStep
  <2>1. astray'  BY <1>2, <1>8
  <2> QED  BY <1>1, <2>1, GoesAstray
<1>9. ASSUME ~r.lost PROVE TextStep
  <2>1. astray' = astray  BY <1>1, <1>2, <1>3, <1>9 DEF TypeOK
  <2>2. Text' = content'  BY <1>5, NothingWaits DEF Writing
  <2>3. r.ok => Text' = Text  BY <1>1, <1>2, <1>9, <2>2, FlushedText
  <2>4. T!Close  BY <1>1, <1>4, <1>5, <2>3 DEF T!Close
  <2> QED  BY <1>1, <2>1, <2>4 DEF TextStep, T!Next
<1> QED  BY <1>3, <1>4, <1>6, <1>7, <1>8, <1>9 DEF LklFileInv

LEMMA SeekPlainStep ==
    ASSUME LklFileInv, NEW where \in {"SET", "CUR", "END"},
           NEW offset \in Int, SeekPlain(where, offset)
    PROVE  LklFileInv' /\ TextStep
<1> DEFINE to == offset + CASE where = "SET" -> 0
                            [] where = "CUR" -> pos
                            [] where = "END" -> Len(content)
           told == IF to >= 0 THEN to ELSE -1
           ok == to >= 0
<1>1. /\ TypeOK /\ FileInv /\ ~astray /\ call.rv # "running"
      /\ Opened /\ ~Has("BUFFERED") /\ ~Writing
      /\ file.dataRead = 0 /\ file.bufpos = 0
      /\ Text = content /\ At = pos
      /\ UNCHANGED <<content, astray>>
  BY IdleFacts DEF SeekPlain
<1>2. /\ file' = [file EXCEPT !.eof_hit = FALSE]
      /\ pos' = IF to >= 0 THEN to ELSE pos
      /\ call' = Answered(where, offset, told, ok)
  BY DEF SeekPlain
<1>3. content \in Seq(Bytes) /\ Len(content) \in Nat /\ pos \in Nat
  BY <1>1, FileType
<1>4. /\ to \in Int
      /\ where = "SET" => to = offset
      /\ where = "CUR" => to = pos + offset
      /\ where = "END" => to = Len(content) + offset
  <2>1. CASE where = "SET"
    <3>1. to = offset + 0  BY <2>1
    <3> QED  BY <2>1, <3>1
  <2>2. CASE where = "CUR"
    <3>1. to = offset + pos  BY <2>2
    <3> QED  BY <1>3, <2>2, <3>1
  <2>3. CASE where = "END"
    <3>1. to = offset + Len(content)  BY <2>3
    <3> QED  BY <1>3, <2>3, <3>1
  <2> QED  BY <2>1, <2>2, <2>3
<1> HIDE DEF to
<1>5. pos' \in Nat  BY <1>2, <1>3, <1>4
<1>6. SameHandle /\ SameFlags /\ file' \in Files
  BY <1>1, <1>2 DEF SameHandle, SameFlags, TypeOK, Files
<1>7. /\ call' \in Calls /\ call'.op = where /\ call'.asked = offset
      /\ call'.told = told /\ CallInv'
      /\ call'.rv = IF ok THEN "SUCCESS" ELSE "ERROR"
  <2>1. where \in Ops /\ told \in Int  BY <1>4 DEF Ops
  <2> HIDE DEF told, ok
  <2>2. /\ call' \in Calls /\ call'.op = where /\ call'.asked = offset
        /\ call'.told = told /\ ~call'.full
        /\ call'.rv = IF ok THEN "SUCCESS" ELSE "ERROR"
    BY <1>2, <2>1, AnsweredFacts
  <2>3. call'.rv \in {"SUCCESS", "ERROR"}  BY <2>2
  <2> QED  BY <2>2, <2>3, OverInv
<1>8. TypeOK'  BY <1>1, <1>5, <1>6, <1>7 DEF TypeOK
<1>9. /\ ~Writing' /\ file'.dataRead = 0 /\ file'.bufpos = 0 /\ Opened'
      /\ ~(Has("BUFFERED")')
  BY <1>1, <1>6 DEF SameHandle, Writing, Opened, Has
<1>10. FileInv'
  <2>1. ReadInv'
    BY <1>1, <1>5, <1>6, <1>9 DEF FileInv, ReadInv, SameHandle
  <2>2. file'.dataRead <= file'.filePtr
    BY <1>1, <1>6, <1>9 DEF FileInv, SameHandle
  <2> QED  BY <1>9, <2>1, <2>2 DEF FileInv
<1>11. Text' = content' /\ At' = pos' - 0 + 0
  BY <1>9, NothingWaits
<1>12. Text' = Text /\ At' = pos'
  <2>1. \A p \in Nat : p - 0 + 0 = p  OBVIOUS
  <2>2. At' = pos'  BY <1>5, <1>11, <2>1
  <2> QED  BY <1>1, <1>11, <2>2
<1>13. IF call'.rv = "SUCCESS" THEN At' = to /\ call'.told = to ELSE At' = At
  <2>1. CASE to >= 0
    BY <1>2, <1>7, <1>12, <2>1
  <2>2. CASE ~(to >= 0)
    BY <1>1, <1>2, <1>7, <1>12, <2>2
  <2> QED  BY <2>1, <2>2
<1>14. to = CASE where = "SET" -> offset
              [] where = "CUR" -> At + offset
              [] where = "END" -> Len(Text) + offset
  BY <1>1, <1>4
<1>15. T!Seek
  BY <1>1, <1>6, <1>7, <1>12, <1>13, <1>14 DEF T!Seek, SameFlags
<1>16. TextStep  BY <1>1, <1>15 DEF TextStep, T!Next
<1> QED  BY <1>7, <1>8, <1>10, <1>16 DEF LklFileInv

\* What setptr finds after its flush: a handle that reads, and that believes
\* itself to be where it did before.
ReadsAhead(f, c, p) ==
    /\ f.bufpos <= f.dataRead
    /\ f.dataRead = Len(f.buffer)
    /\ f.dataRead <= p
    /\ f.dataRead > 0 => p <= Len(c)
    /\ \A i \in 1..f.dataRead : f.buffer[i] = c[p - f.dataRead + i]

LEMMA FlushedToRead ==
    ASSUME TypeOK, FileInv, NEW r \in Flushes, r.ok,
           NEW f, f = IF r.ok /\ Writing
                      THEN [r.file EXCEPT !.bufpos = 0, !.buffer = <<>>,
                                          !.direction = 0, !.dataRead = 0]
                      ELSE r.file
    PROVE  /\ f \in Files /\ f.flags = file.flags /\ f.direction = 0
           /\ f.dataRead <= f.filePtr
           /\ ReadsAhead(f, r.content, r.pos)
           /\ ~r.lost => /\ Offset(f) = Offset(file)
                         /\ Text = r.content
                         /\ At = r.pos - f.dataRead + f.bufpos
<1>1. /\ r.content \in Seq(Bytes) /\ r.pos \in Nat /\ r.file \in Files
      /\ r.file.flags = file.flags
      /\ r.file.direction = file.direction
      /\ r.file.dataRead = file.dataRead
      /\ \/ Dirty = <<>> /\ Kept(r)
         \/ /\ Dirty # <<>> /\ Writing
            /\ ~r.lost => Emptied(r)
  BY FlushFacts
<1>2. CASE Writing
  <2>1. f = [r.file EXCEPT !.bufpos = 0, !.buffer = <<>>,
                           !.direction = 0, !.dataRead = 0]
    BY <1>2
  <2>2. /\ f \in Files /\ f.flags = file.flags /\ f.direction = 0
        /\ f.buffer = <<>> /\ f.bufpos = 0 /\ f.dataRead = 0
        /\ f.filePtr = r.file.filePtr /\ f.filePtr \in Nat
    <3> DEFINE way == 0
    <3>1. way \in {0, 1} /\ r.file \in Files
          /\ f = [r.file EXCEPT !.bufpos = 0, !.buffer = <<>>,
                                !.direction = way, !.dataRead = 0]
      BY <1>1, <2>1
    <3> HIDE DEF way
    <3>2. Turned(r.file, way, f)  BY ONLY <3>1, TurnedRound
    <3> QED  BY <1>1, <3>2 DEF Turned, way
  <2>3. f.dataRead <= f.filePtr /\ ReadsAhead(f, r.content, r.pos)
    BY <1>1, <2>2, Empty DEF ReadsAhead
  <2>4. ASSUME ~r.lost
        PROVE  /\ Offset(f) = Offset(file)
               /\ Text = r.content
               /\ At = r.pos - f.dataRead + f.bufpos
    <3>1. Text = r.content /\ At = r.pos  BY <1>2, <2>4, FlushedText
    <3>2. At = r.pos - f.dataRead + f.bufpos  BY <1>1, <2>2, <3>1
    <3>3. file.dataRead = 0 /\ file.bufpos = Len(file.buffer) /\ Dirty = file.buffer
      BY <1>2, DirtyIs DEF FileInv, WriteInv
    <3>4. f.filePtr = file.filePtr + Len(Dirty)
      <4>1. CASE Dirty = <<>> /\ Kept(r)
        <5>1. Len(Dirty) = 0  BY <4>1, Empty
        <5> QED  BY <2>2, <4>1, <5>1, FileType DEF Kept
      <4>2. CASE Emptied(r)  BY <2>2, <4>2 DEF Emptied
      <4> QED  BY <1>1, <2>4, <4>1, <4>2
    <3>5. Offset(f) = Offset(file)
      BY <2>2, <3>3, <3>4, FileType, DirtyIs DEF Offset
    <3> QED  BY <3>1, <3>2, <3>5
  <2> QED  BY <2>2, <2>3, <2>4
<1>3. CASE ~Writing
  <2>1. f = file /\ r.content = content /\ r.pos = pos
    BY <1>1, <1>3 DEF Kept
  <2>2. f.direction = 0  BY <1>3, <2>1, FileType DEF Writing
  <2>3. f \in Files /\ f.dataRead <= f.filePtr
    BY <2>1 DEF TypeOK, FileInv
  <2>4. ReadsAhead(f, r.content, r.pos)
    BY <1>3, <2>1 DEF FileInv, ReadInv, ReadsAhead
  <2>5. Text = content /\ At = pos - file.dataRead + file.bufpos
    BY <1>3, TextType
  <2> QED  BY <2>1, <2>2, <2>3, <2>4, <2>5
<1> QED  BY <1>2, <1>3

\* setptr, by the three ways that it can go.
Placed(f, to, g) ==
    /\ g \in Files /\ g.flags = f.flags /\ g.direction = f.direction
    /\ g.dataRead <= g.filePtr /\ g.bufpos <= g.dataRead
    /\ \/ /\ InBuffer(f, to) /\ Offset(g) = to
          /\ g.bufpos = to - (f.filePtr - f.dataRead)
          /\ g.buffer = f.buffer /\ g.dataRead = f.dataRead
          /\ g.filePtr = f.filePtr
       \/ /\ ~InBuffer(f, to) /\ to >= 0 /\ Offset(g) = to
          /\ g.buffer = <<>> /\ g.bufpos = 0 /\ g.dataRead = 0
          /\ g.filePtr = to
       \/ /\ ~InBuffer(f, to) /\ to < 0
          /\ g.buffer = f.buffer /\ g.dataRead = f.dataRead
          /\ g.filePtr = f.filePtr /\ g.bufpos = f.bufpos

LEMMA SetPtrFacts ==
    ASSUME NEW f \in Files, NEW to \in Int, f.dataRead <= f.filePtr,
           f.bufpos <= f.dataRead,
           NEW g, g = [SetPtr(f, to) EXCEPT !.eof_hit = FALSE]
    PROVE  Placed(f, to, g)
<1>1. f.bufpos \in Nat /\ f.dataRead \in Nat /\ f.filePtr \in Nat
  BY DEF Files
<1>2. CASE InBuffer(f, to)
  <2> DEFINE p == to - (f.filePtr - f.dataRead)
  <2>1. p \in Nat /\ p <= f.dataRead /\ f.filePtr - f.dataRead + p = to
    BY <1>1, <1>2 DEF InBuffer
  <2>2. g = [[f EXCEPT !.bufpos = p] EXCEPT !.eof_hit = FALSE]
    BY <1>2 DEF SetPtr
  <2> HIDE DEF p
  <2>3. g \in Files  BY <2>1, <2>2 DEF Files
  <2>4. /\ g.flags = f.flags /\ g.direction = f.direction
        /\ g.bufpos = p /\ g.buffer = f.buffer /\ g.dataRead = f.dataRead
        /\ g.filePtr = f.filePtr
    BY <2>1, <2>2 DEF Files
  <2>5. Offset(g) = to  BY <2>1, <2>4 DEF Offset
  <2>6. g.bufpos = to - (f.filePtr - f.dataRead)  BY <2>4 DEF p
  <2> QED  BY <1>2, <2>1, <2>3, <2>4, <2>5, <2>6 DEF Placed
<1>3. CASE ~InBuffer(f, to) /\ to >= 0
  <2>1. to \in Nat  BY <1>3
  <2>2. g = [[f EXCEPT !.bufpos = 0, !.dataRead = 0, !.buffer = <<>>,
                       !.filePtr = to] EXCEPT !.eof_hit = FALSE]
    BY <1>3 DEF SetPtr
  <2>3. g \in Files  BY <2>1, <2>2, Empty DEF Files
  <2>4. /\ g.flags = f.flags /\ g.direction = f.direction
        /\ g.bufpos = 0 /\ g.buffer = <<>> /\ g.dataRead = 0
        /\ g.filePtr = to
    BY <2>1, <2>2 DEF Files
  <2>5. Offset(g) = to  BY <2>1, <2>4 DEF Offset
  <2> QED  BY <1>3, <2>1, <2>3, <2>4, <2>5 DEF Placed
<1>4. CASE ~InBuffer(f, to) /\ to < 0
  <2>1. g = [f EXCEPT !.eof_hit = FALSE]
    <3>1. ~(to >= 0)  BY <1>4
    <3>2. SetPtr(f, to) = f  BY <1>4, <3>1 DEF SetPtr
    <3> QED  BY <3>2
  <2>2. g \in Files  BY <2>1 DEF Files
  <2>3. /\ g.flags = f.flags /\ g.direction = f.direction
        /\ g.bufpos = f.bufpos /\ g.buffer = f.buffer
        /\ g.dataRead = f.dataRead /\ g.filePtr = f.filePtr
    BY <2>1 DEF Files
  <2> QED  BY <1>4, <2>2, <2>3 DEF Placed
<1> QED  BY <1>2, <1>3, <1>4

LEMMA SeekBufferedStep ==
    ASSUME LklFileInv, NEW where \in {"SET", "CUR", "END"},
           NEW offset \in Int, SeekBuffered(where, offset)
    PROVE  LklFileInv' /\ TextStep
<1> DEFINE F(r) == IF r.ok /\ Writing
                   THEN [r.file EXCEPT !.bufpos = 0, !.buffer = <<>>,
                                       !.direction = 0, !.dataRead = 0]
                   ELSE r.file
           To(r) == offset + CASE where = "SET" -> 0
                               [] where = "CUR" -> Offset(file)
                               [] where = "END" -> Len(r.content)
           G(r) == [(IF r.ok THEN SetPtr(F(r), To(r)) ELSE F(r))
                        EXCEPT !.eof_hit = FALSE]
           Jumps(r) == r.ok /\ To(r) >= 0 /\ ~InBuffer(F(r), To(r))
           Ok(r) == r.ok /\ (Jumps(r) \/ InBuffer(F(r), To(r)))
           Stray(r) == \/ r.lost
                       \/ /\ F(r).filePtr # r.pos
                          /\ ~(Jumps(r) /\ where \in {"SET", "END"})
<1>1. /\ TypeOK /\ FileInv /\ ~astray /\ astray \in BOOLEAN
      /\ call.rv # "running" /\ Opened /\ Has("BUFFERED")
  BY IdleFacts DEF SeekBuffered, TypeOK
<1>2. PICK r \in Flushes :
          /\ content' = r.content
          /\ pos' = IF Jumps(r) THEN To(r) ELSE r.pos
          /\ file' = G(r)
          /\ call' = Answered(where, offset, Offset(G(r)), Ok(r))
          /\ astray' = Stray(r)
  BY DEF SeekBuffered
<1>3. /\ r.content \in Seq(Bytes) /\ Len(r.content) \in Nat
      /\ r.pos \in Nat /\ r.file \in Files
      /\ r.ok \in BOOLEAN /\ r.lost \in BOOLEAN
      /\ ~r.ok => Kept(r) /\ Dirty # <<>>
  BY <1>1, FlushFacts, Empty
<1> DEFINE f == F(r)
           to == To(r)
           g == G(r)
<1>4. Offset(file) \in Int
  BY <1>1, FileType DEF Offset
<1>5. /\ to \in Int
      /\ where = "SET" => to = offset
      /\ where = "CUR" => to = Offset(file) + offset
      /\ where = "END" => to = Len(r.content) + offset
  <2>1. CASE where = "SET"
    <3>1. to = offset + 0  BY <2>1
    <3> QED  BY <2>1, <3>1
  <2>2. CASE where = "CUR"
    <3>1. to = offset + Offset(file)  BY <2>2
    <3> QED  BY <1>4, <2>2, <3>1
  <2>3. CASE where = "END"
    <3>1. to = offset + Len(r.content)  BY <2>3
    <3> QED  BY <1>3, <2>3, <3>1
  <2> QED  BY <2>1, <2>2, <2>3
<1>6. astray' \in BOOLEAN
  <2>1. Stray(r) \in BOOLEAN
    <3>1. (/\ F(r).filePtr # r.pos
           /\ ~(Jumps(r) /\ where \in {"SET", "END"})) \in BOOLEAN
      OBVIOUS
    <3> QED  BY <1>3, <3>1, Zenon
  <2> QED  BY <1>2, <2>1, Zenon
<1>7. astray' \/ (~astray' /\ ~r.lost
                  /\ (F(r).filePtr = r.pos
                      \/ (Jumps(r) /\ where \in {"SET", "END"})))
  BY <1>2, <1>3, <1>6, Zenon
<1>8. file' = g /\ call' = Answered(where, offset, Offset(g), Ok(r))
  BY <1>2
<1>9. ASSUME g \in Files, g.direction \in {0, 1}
      PROVE  /\ call' \in Calls /\ call'.op = where /\ call'.asked = offset
             /\ call'.told = Offset(g) /\ CallInv'
             /\ call'.rv = IF Ok(r) THEN "SUCCESS" ELSE "ERROR"
  <2> DEFINE told == Offset(g)
             ok == Ok(r)
  <2>1. told \in Int
    <3> HIDE DEF g
    <3> QED  BY <1>9 DEF Offset, Files
  <2>2. where \in Ops /\ call' = Answered(where, offset, told, ok)
    BY <1>8 DEF Ops
  <2> HIDE DEF told, ok
  <2>3. /\ call' \in Calls /\ call'.op = where /\ call'.asked = offset
        /\ call'.told = told /\ ~call'.full
        /\ call'.rv = IF ok THEN "SUCCESS" ELSE "ERROR"
    BY ONLY <2>1, <2>2, AnsweredFacts
  <2>4. call'.rv \in {"SUCCESS", "ERROR"}  BY <2>3
  <2> QED  BY <2>3, <2>4, OverInv DEF told, ok
<1> DEFINE Where == CASE where = "SET" -> offset
                      [] where = "CUR" -> At + offset
                      [] where = "END" -> Len(Text) + offset
\* What is left to show of each way that the call can go.
<1>10. ASSUME call'.op = where, call'.asked = offset, ~astray', SameFlags,
              Text' = Text,
              IF call'.rv = "SUCCESS" THEN At' = Where /\ call'.told = Where
              ELSE At' = At
       PROVE  TextStep
  <2>1. T!Seek  BY <1>1, <1>10 DEF T!Seek, SameFlags
  <2>2. UNCHANGED astray  BY <1>1, <1>6, <1>10
  <2> QED  BY <1>1, <2>1, <2>2 DEF TextStep, T!Next
<1>11. ASSUME astray' PROVE TextStep  BY <1>1, <1>11, GoesAstray
<1>12. CASE ~r.ok
  <2>1. /\ g = [file EXCEPT !.eof_hit = FALSE] /\ ~Jumps(r) /\ ~Ok(r)
        /\ r.content = content /\ r.pos = pos
    BY <1>3, <1>12 DEF Kept
  <2>2. file' = [file EXCEPT !.eof_hit = FALSE] /\ UNCHANGED <<content, pos>>
    BY <1>2, <2>1
  <2>3. SameHandle /\ SameFlags /\ file' \in Files /\ file'.direction \in {0, 1}
    BY <1>1, <2>2, FileType DEF SameHandle, SameFlags, TypeOK, Files
  <2>4. Text' = Text /\ At' = At /\ FileInv'  BY <1>1, <2>2, <2>3, SameText
  <2>5. /\ call' \in Calls /\ call'.op = where /\ call'.asked = offset
        /\ CallInv' /\ call'.rv = "ERROR"
    BY <1>8, <1>9, <2>1, <2>3
  <2>6. TypeOK'  BY <1>1, <1>6, <2>2, <2>3, <2>5 DEF TypeOK
  <2>7. ASSUME ~astray' PROVE TextStep
    BY <1>10, <2>3, <2>4, <2>5, <2>7
  <2> QED  BY <1>6, <1>11, <2>4, <2>5, <2>6, <2>7 DEF LklFileInv
<1>13. CASE r.ok
  <2>1. /\ f \in Files /\ f.flags = file.flags /\ f.direction = 0
        /\ f.dataRead <= f.filePtr
        /\ ReadsAhead(f, r.content, r.pos)
        /\ ~r.lost => /\ Offset(f) = Offset(file)
                      /\ Text = r.content
                      /\ At = r.pos - f.dataRead + f.bufpos
    BY <1>1, <1>13, FlushedToRead
  <2>2. g = [SetPtr(f, to) EXCEPT !.eof_hit = FALSE]  BY <1>13
  <2>3. /\ Jumps(r) <=> to >= 0 /\ ~InBuffer(f, to)
        /\ Ok(r) <=> (to >= 0 /\ ~InBuffer(f, to)) \/ InBuffer(f, to)
    BY <1>13
  <2>4. /\ pos' = IF to >= 0 /\ ~InBuffer(f, to) THEN to ELSE r.pos
        /\ content' = r.content /\ file' = g
    BY <1>2, <2>3
  <2>5. /\ f.dataRead \in Nat /\ f.bufpos \in Nat /\ f.filePtr \in Nat
        /\ f.bufpos <= f.dataRead /\ f.dataRead <= r.pos
        /\ f.dataRead = Len(f.buffer)
        /\ f.dataRead > 0 => r.pos <= Len(r.content)
    BY <2>1 DEF Files, ReadsAhead
  <2>6. astray' \/ (~astray' /\ ~r.lost
                    /\ (f.filePtr = r.pos
                        \/ (to >= 0 /\ ~InBuffer(f, to) /\ where \in {"SET", "END"})))
    BY <1>7, <2>3
  <2> HIDE DEF F, To, G, Jumps, Ok, Stray
  <2> HIDE DEF f, to, g
  <2>7. /\ g \in Files /\ g.flags = f.flags /\ g.direction = f.direction
        /\ g.dataRead <= g.filePtr /\ g.bufpos <= g.dataRead
        /\ \/ /\ InBuffer(f, to) /\ Offset(g) = to
              /\ g.bufpos = to - (f.filePtr - f.dataRead)
              /\ g.buffer = f.buffer /\ g.dataRead = f.dataRead
              /\ g.filePtr = f.filePtr
           \/ /\ ~InBuffer(f, to) /\ to >= 0 /\ Offset(g) = to
              /\ g.buffer = <<>> /\ g.bufpos = 0 /\ g.dataRead = 0
              /\ g.filePtr = to
           \/ /\ ~InBuffer(f, to) /\ to < 0
              /\ g.buffer = f.buffer /\ g.dataRead = f.dataRead
              /\ g.filePtr = f.filePtr /\ g.bufpos = f.bufpos
    <3>1. f \in Files /\ to \in Int /\ f.dataRead <= f.filePtr /\ f.bufpos <= f.dataRead
      BY <1>5, <2>1, <2>5
    <3>2. Placed(f, to, g)  BY ONLY <2>2, <3>1, SetPtrFacts
    <3> QED  BY ONLY <3>2 DEF Placed
  <2>8. /\ call' \in Calls /\ call'.op = where /\ call'.asked = offset
        /\ call'.told = Offset(g) /\ CallInv'
        /\ call'.rv = IF (to >= 0 /\ ~InBuffer(f, to)) \/ InBuffer(f, to)
                      THEN "SUCCESS" ELSE "ERROR"
    BY <1>9, <2>1, <2>3, <2>7
  <2>9. pos' \in Nat  BY <1>3, <1>5, <2>4
  <2>10. TypeOK'
    BY <1>3, <1>6, <2>4, <2>7, <2>8, <2>9 DEF TypeOK
  <2>11. SameFlags /\ ~Writing' /\ Has("BUFFERED")' /\ Opened'
    BY <1>1, <2>1, <2>4, <2>7 DEF SameFlags, Writing, Has, Opened
  <2>12. /\ Text' = r.content
         /\ At' = pos' - g.dataRead + g.bufpos
    BY <2>4, <2>11, NothingWaits
  <2>13. ReadInv'
    <3>1. CASE ~(to >= 0 /\ ~InBuffer(f, to))
      <4>1. pos' = r.pos /\ g.buffer = f.buffer /\ g.dataRead = f.dataRead
        BY <1>5, <2>4, <2>7, <3>1
      <4> QED  BY <2>1, <2>4, <2>7, <4>1 DEF ReadInv, ReadsAhead
    <3>2. CASE to >= 0 /\ ~InBuffer(f, to)
      <4>1. g.buffer = <<>> /\ g.dataRead = 0 /\ g.bufpos = 0
        BY <1>5, <2>7, <3>2
      <4> QED  BY <2>4, <2>9, <4>1, Empty DEF ReadInv
    <3> QED  BY <3>1, <3>2
  <2>14. FileInv'  BY <2>4, <2>7, <2>11, <2>13 DEF FileInv
  <2>15. ASSUME ~astray' PROVE TextStep
    <3>1. /\ ~r.lost /\ Offset(f) = Offset(file) /\ Text = r.content
          /\ At = r.pos - f.dataRead + f.bufpos
          /\ f.filePtr = r.pos
             \/ (to >= 0 /\ ~InBuffer(f, to) /\ where \in {"SET", "END"})
      BY <2>1, <2>6, <2>15
    <3>2. Offset(f) = f.filePtr - f.dataRead + f.bufpos  BY DEF Offset
    <3>3. f.filePtr = r.pos \/ where \in {"SET", "END"} => to = Where
      <4>1. where = "CUR" /\ f.filePtr = r.pos => to = At + offset
        BY <1>5, <3>1, <3>2
      <4>2. where = "END" => to = Len(Text) + offset  BY <1>5, <3>1
      <4> HIDE DEF Where
      <4>3. CASE where = "SET"
        BY <1>5, <4>3 DEF Where
      <4>4. CASE where = "CUR"
        BY <4>1, <4>4 DEF Where
      <4>5. CASE where = "END"
        BY <4>2, <4>5 DEF Where
      <4> QED  BY <4>3, <4>4, <4>5
    <3>4. to = Where  BY <3>1, <3>3
    <3> HIDE DEF Where
    <3>5. CASE InBuffer(f, to)
      <4>1. /\ g.bufpos = to - (f.filePtr - f.dataRead)
            /\ g.dataRead = f.dataRead /\ pos' = r.pos
            /\ f.filePtr = r.pos /\ call'.told = to /\ call'.rv = "SUCCESS"
        BY <2>4, <2>7, <2>8, <3>1, <3>5
      <4>2. r.pos - f.dataRead + (to - (r.pos - f.dataRead)) = to
        BY <1>3, <1>5, <2>5
      <4>3. At' = to  BY <2>12, <4>1, <4>2
      <4> QED  BY <1>10, <2>8, <2>11, <2>12, <2>15, <3>1, <3>4, <4>1, <4>3
    <3>6. CASE ~InBuffer(f, to) /\ to >= 0
      <4>1. /\ g.bufpos = 0 /\ g.dataRead = 0 /\ pos' = to
            /\ call'.told = to /\ call'.rv = "SUCCESS"
        <5>1. ~(to < 0)  BY <1>5, <3>6
        <5>2. g.bufpos = 0 /\ g.dataRead = 0 /\ Offset(g) = to
          BY <2>7, <3>6, <5>1
        <5>3. pos' = to /\ call'.rv = "SUCCESS"  BY <2>4, <2>8, <3>6
        <5> QED  BY <2>8, <5>2, <5>3
      <4>2. to - 0 + 0 = to  BY <1>5
      <4>3. At' = to  BY <2>12, <4>1, <4>2
      <4> QED  BY <1>10, <2>8, <2>11, <2>12, <2>15, <3>1, <3>4, <4>1, <4>3
    <3>7. CASE ~InBuffer(f, to) /\ ~(to >= 0)
      <4>1. /\ g.bufpos = f.bufpos /\ g.dataRead = f.dataRead /\ pos' = r.pos
            /\ call'.rv = "ERROR"
        BY <2>4, <2>7, <2>8, <3>7
      <4>2. At' = At  BY <2>12, <3>1, <4>1
      <4>3. call'.rv # "SUCCESS"  BY <4>1
      <4> QED  BY <1>10, <2>8, <2>11, <2>12, <2>15, <3>1, <4>2, <4>3
    <3> QED  BY <3>5, <3>6, <3>7
  <2> QED  BY <1>6, <1>11, <2>8, <2>10, <2>14, <2>15 DEF LklFileInv
<1> QED  BY <1>3, <1>12, <1>13

-----------------------------------------------------------------------------
(* The whole.                                                              *)

LEMMA InitFacts ==
    ASSUME Init
    PROVE  LklFileInv /\ T!Init
<1>1. content \in Seq(Bytes)  BY TextsType, LklFileAssumption DEF Init
<1>2. pos = 0 /\ file = NoFile /\ call = NoCall /\ astray = FALSE  BY DEF Init
<1>3. /\ file.flags = {} /\ file.buffer = <<>> /\ file.bufpos = 0
      /\ file.dataRead = 0 /\ file.direction = 0 /\ file.filePtr = 0
  BY <1>2 DEF NoFile
<1>4. /\ call.op = "none" /\ call.full = FALSE /\ call.asked = 0
      /\ call.data = <<>> /\ call.moved = <<>> /\ call.told = 0
      /\ call.rv = "none"
  BY <1>2 DEF NoCall
<1>5. TypeOK
  <2>1. file \in Files  BY <1>2, Empty DEF NoFile, Files
  <2>2. call \in Calls  BY <1>2, Empty DEF NoCall, Calls, Ops, Results
  <2> QED  BY <1>1, <1>2, <2>1, <2>2 DEF TypeOK
<1>6. FileInv
  <2>1. ~Writing /\ pos = 0  BY <1>2, <1>3 DEF Writing
  <2>2. ReadInv  BY <1>3, <2>1, Empty DEF ReadInv
  <2> QED  BY <1>3, <2>1, <2>2 DEF FileInv
<1>7. CallInv  BY <1>4 DEF CallInv
<1>8. Text = content /\ At = 0
  <2>1. ~Writing  BY <1>3 DEF Writing
  <2>2. Text = content /\ At = 0 - 0 + 0
    BY <1>2, <1>3, <1>5, <1>6, <2>1, TextType
  <2> QED  BY <2>2
<1>9. T!Init
  <2>1. [op |-> call.op, full |-> call.full, asked |-> call.asked,
         data |-> call.data]
            = [op |-> "none", full |-> FALSE, asked |-> 0, data |-> <<>>]
    BY <1>4
  <2> QED  BY <1>1, <1>2, <1>3, <1>4, <1>8, <2>1 DEF T!Init
<1> QED  BY <1>5, <1>6, <1>7, <1>9 DEF LklFileInv

\* A step of LklFile keeps the invariant and is one of FileText, or none.
LEMMA LklFileInvStep ==
    ASSUME LklFileInv, [Next]_vars
    PROVE  LklFileInv' /\ TextStep
<1>1. CASE UNCHANGED vars
  <2>1. UNCHANGED <<content, pos, file, call, astray>>  BY <1>1 DEF vars
  <2>2. SameHandle /\ SameFlags  BY <2>1 DEF SameHandle, SameFlags
  <2>3. Text' = Text /\ At' = At /\ (FileInv => FileInv')
    BY <2>1, <2>2, SameText
  <2>4. TextStep  BY <2>1, <2>2, <2>3, Stutters
  <2>5. TypeOK => TypeOK'  BY <2>1 DEF TypeOK
  <2>6. CallInv => CallInv'  BY <2>1, <2>2, SameCall
  <2> QED  BY <2>1, <2>3, <2>4, <2>5, <2>6 DEF LklFileInv
<1>2. CASE Step
  <2>1. CASE ReadTurn  BY <2>1, ReadTurnStep
  <2>2. CASE ReadFill  BY <2>2, ReadFillStep
  <2>3. CASE ReadCopy  BY <2>3, ReadCopyStep
  <2>4. CASE ReadPlain  BY <2>4, ReadPlainStep
  <2>5. CASE WriteTurn  BY <2>5, WriteTurnStep
  <2>6. CASE WriteFlush  BY <2>6, WriteFlushStep
  <2>7. CASE WriteCopy  BY <2>7, WriteCopyStep
  <2>8. CASE \E k \in 0..MaxReq : WriteTakes(k)
    <3>1. PICK k \in 0..MaxReq : WriteTakes(k)  BY <2>8
    <3>2. k \in Nat  BY LklFileAssumption
    <3> QED  BY <3>1, <3>2, WriteTakesStep
  <2>9. CASE WriteRefused  BY <2>9, WriteRefusedStep
  <2>10. CASE WriteError  BY <2>10, WriteErrorStep
  <2> QED
    BY <1>2, <2>1, <2>2, <2>3, <2>4, <2>5, <2>6, <2>7, <2>8, <2>9, <2>10
       DEF Step
<1>3. CASE Ask
  <2>1. CASE \E flags \in Opens : Open(flags)
    BY <2>1, OpenStep
  <2>2. CASE \E n \in 1..MaxReq, full \in BOOLEAN : BeginRead(n, full)
    BY <2>2, BeginReadStep
  <2>3. CASE \E d \in Texts(MaxReq) \ {<<>>}, full \in BOOLEAN :
                BeginWrite(d, full)
    BY <2>3, BeginWriteStep
  <2>4. CASE \E where \in {"SET", "CUR", "END"}, o \in -1..MaxLen :
                SeekPlain(where, o) \/ SeekBuffered(where, o)
    <3>1. PICK where \in {"SET", "CUR", "END"}, o \in -1..MaxLen :
                  SeekPlain(where, o) \/ SeekBuffered(where, o)
      BY <2>4
    <3>2. o \in Int  BY LklFileAssumption
    <3> QED  BY <3>1, <3>2, SeekPlainStep, SeekBufferedStep
  <2>5. CASE Flush  BY <2>5, FlushStep
  <2>6. CASE Close  BY <2>6, CloseStep
  <2> QED  BY <1>3, <2>1, <2>2, <2>3, <2>4, <2>5, <2>6 DEF Ask
<1>4. CASE Lost  BY <1>1, <1>4 DEF Lost
<1> QED  BY <1>1, <1>2, <1>3, <1>4 DEF Next

THEOREM LklFileInvariant == Spec => []LklFileInv
<1>1. Init => LklFileInv  BY InitFacts
<1>2. LklFileInv /\ [Next]_vars => LklFileInv'  BY LklFileInvStep
<1> QED  BY <1>1, <1>2, PTL DEF Spec

\* The handle, the call and the file have their types: no count, offset or place
\* in the buffer (fileops.c 10-598) goes below zero, whatever kernel calls do.
THEOREM LklTypeCorrect == Spec => []TypeOK
<1>1. LklFileInv => TypeOK  BY DEF LklFileInv
<1> QED  BY <1>1, LklFileInvariant, PTL

\* What the handle has read ahead is what the file has there, through every
\* sequence of reads, writes, seeks and failures (fileops.c 276, 390, 517, 532).
THEOREM ReadAheadCurrentAlways == Spec => []ReadAheadCurrent
<1>1. LklFileInv => ReadAheadCurrent
  <2> SUFFICES ASSUME LklFileInv, ~astray, ~Writing
               PROVE  /\ file.bufpos <= file.dataRead
                      /\ file.dataRead = Len(file.buffer)
                      /\ \A i \in 1..file.dataRead :
                            LET j == pos - file.dataRead + i
                            IN  /\ j \in 1..Len(content)
                                /\ file.buffer[i] = content[j]
    BY DEF ReadAheadCurrent
  <2>1. TypeOK /\ ReadInv  BY DEF LklFileInv, FileInv
  <2>2. file.bufpos <= file.dataRead /\ file.dataRead = Len(file.buffer)
    BY <2>1 DEF ReadInv
  <2>3. ASSUME NEW i \in 1..file.dataRead
        PROVE  /\ pos - file.dataRead + i \in 1..Len(content)
               /\ file.buffer[i] = content[pos - file.dataRead + i]
    <3>1. file.dataRead \in Nat /\ pos \in Nat /\ Len(content) \in Nat
      BY <2>1, FileType
    <3>2. file.dataRead <= pos /\ pos <= Len(content)
      BY <2>1, <3>1 DEF ReadInv
    <3>3. pos - file.dataRead + i \in 1..Len(content)  BY <3>1, <3>2
    <3> QED  BY <2>1, <3>3 DEF ReadInv
  <2> QED  BY <2>2, <2>3
<1> QED  BY <1>1, LklFileInvariant, PTL

\* A _full call (fileops.c 461, 484) that is content has moved every byte that it
\* was asked for and none twice, however often the kernel falls short.
THEOREM FullMeansAllAlways == Spec => []FullMeansAll
<1>1. LklFileInv => FullMeansAll
  BY DEF LklFileInv, CallInv, FullMeansAll
<1> QED  BY <1>1, LklFileInvariant, PTL

\* The whole of lkl_file_t implements the text with a place in it: every step of
\* fileops.c 10-598 is a step of FileText, or one that it does not see.
THEOREM KeepsTextAlways == Spec => KeepsText
<1>1. Init => T!Init  BY InitFacts
<1>2. LklFileInv /\ [Next]_vars => [T!Next]_(T!vars)
  BY LklFileInvStep DEF TextStep
<1>3. Spec => []LklFileInv  BY LklFileInvariant
<1> QED  BY <1>1, <1>2, <1>3, PTL DEF Spec, KeepsText, T!Spec

=============================================================================
