-------------------------- MODULE DirListingProofs --------------------------
(***************************************************************************)
(* LIST among the changes of other sessions (cmdhandler.c list_dir,        *)
(* dirops.c), for every set of names and attributes, every size of the     *)
(* buffer, any number of changes and of calls that fail.                   *)
(***************************************************************************)
EXTENDS DirListing, SequenceTheorems, FiniteSetTheorems, TLAPS

\* Where a name can be on its way from the kernel to the listing: unread, in the
\* buffer, in hand, listed.
Waiting == thedir.offset + 1 .. Len(thedir.data)
Buffered == {thedir.data[i] : i \in Waiting}
InHand == IF pc = "stat" THEN {entry} ELSE {}
Listed == {list[i].name : i \in DOMAIN list}
Somewhere == unread \cup Buffered \cup InHand \cup Listed

\* Entries that list_dir passes over.
Unshown == IF flagA THEN {} ELSE Hidden

StartInv ==
    /\ pc \in {"open", "refused"} =>
          /\ reborn = {} /\ steady = {} /\ unread = {} /\ list = <<>>
          /\ thedir = [data |-> <<>>, offset |-> 0]
    /\ thedir.offset <= Len(thedir.data)
    /\ pc = "stat" => entry \in Names
    /\ pc = "listed" /\ ~cut => unread = {} /\ Buffered = {}

\* What has been there since the open is on its way or listed.
PlacesInv ==
    /\ steady \subseteq Present
    /\ steady \cap reborn = {}
    /\ steady \subseteq Somewhere \cup Unshown

\* And it is at one place, as everything that was not made since.
BufferedOnce ==
    \A i, j \in Waiting : thedir.data[i] = thedir.data[j] =>
                              i = j \/ thedir.data[i] \in reborn

OnceInv ==
    /\ BufferedOnce
    /\ \A i, j \in DOMAIN list : list[i].name = list[j].name =>
                                    i = j \/ list[i].name \in reborn
    /\ Buffered \cap InHand \subseteq reborn
    /\ Buffered \cap unread \subseteq reborn
    /\ Buffered \cap Listed \subseteq reborn
    /\ InHand \cap unread \subseteq reborn
    /\ InHand \cap Listed \subseteq reborn
    /\ unread \cap Listed \subseteq reborn

\* The attributes that each name has or had.
TruthInv ==
    /\ pc \notin {"open", "refused"} => \A n \in Present : dir[n] \in had[n]
    /\ \A n \in Somewhere : had[n] # {}
    /\ \A i \in DOMAIN list : \/ list[i].name \in excused
                              \/ list[i].attr \in had[list[i].name]

DirInv == TypeOK /\ StartInv /\ PlacesInv /\ OnceInv /\ TruthInv

-----------------------------------------------------------------------------
(* Types, and where the names are.                                         *)

LEMMA Types ==
    ASSUME TypeOK
    PROVE  /\ dir \in [Names -> Attrs \cup {Absent}] /\ unread \subseteq Names
           /\ thedir.data \in Seq(Names) /\ thedir.offset \in Nat
           /\ Len(thedir.data) \in Nat
           /\ \A i \in 1..Len(thedir.data) : thedir.data[i] \in Names
           /\ Buffered \subseteq Names
           /\ list \in Seq(Lines) /\ Len(list) \in Nat
           /\ DOMAIN list = 1..Len(list)
           /\ \A i \in DOMAIN list : /\ list[i] \in Lines
                                     /\ list[i].name \in Names
           /\ Listed \subseteq Names
           /\ had \in [Names -> SUBSET Attrs]
<1>1. thedir.data \in Seq(Names) /\ thedir.offset \in Nat
  BY DEF TypeOK
<1>2. /\ Len(thedir.data) \in Nat
      /\ \A i \in 1..Len(thedir.data) : thedir.data[i] \in Names
  BY <1>1, LenProperties, ElementOfSeq
<1>3. Buffered \subseteq Names
  BY <1>1, <1>2 DEF Buffered, Waiting
<1>4. list \in Seq(Lines)  BY DEF TypeOK
<1>5. Len(list) \in Nat /\ DOMAIN list = 1..Len(list)
  BY <1>4, LenProperties
<1>6. \A i \in DOMAIN list : list[i] \in Lines
  BY <1>4, <1>5, ElementOfSeq
<1>7. \A l \in Lines : l.name \in Names  BY DEF Lines
<1>8. \A i \in DOMAIN list : list[i] \in Lines /\ list[i].name \in Names
  BY <1>6, <1>7
<1>9. Listed \subseteq Names  BY <1>8 DEF Listed
<1> QED  BY <1>1, <1>2, <1>3, <1>4, <1>5, <1>8, <1>9 DEF TypeOK

\* The other sessions do not touch what the handler has.
LEMMA SamePlaces ==
    ASSUME UNCHANGED listVars
    PROVE  /\ Waiting' = Waiting /\ Buffered' = Buffered /\ InHand' = InHand
           /\ Listed' = Listed /\ Unshown' = Unshown
           /\ UNCHANGED <<thedir, entry, finfo, flagA, pc, list, cut>>
BY DEF listVars, Waiting, Buffered, InHand, Listed, Unshown

LEMMA OthersStep ==
    ASSUME DirInv, Others
    PROVE  DirInv'
<1>1. TypeOK /\ StartInv /\ PlacesInv /\ OnceInv /\ TruthInv  BY DEF DirInv
<1>2. /\ dir \in [Names -> Attrs \cup {Absent}] /\ unread \subseteq Names
      /\ had \in [Names -> SUBSET Attrs] /\ changes \in 0..MaxChanges
      /\ reborn \subseteq Names /\ steady \subseteq Names
      /\ excused \subseteq Names /\ Absent \notin Attrs
      /\ Buffered \subseteq Names /\ Listed \subseteq Names
      /\ InHand \subseteq Names
      /\ \A i \in DOMAIN list : list[i].name \in Names
  BY <1>1, Types, DirListingAssumption DEF TypeOK, StartInv, InHand
<1>3. PICK n \in Names : Remove(n) \/ \E a \in Attrs : Create(n, a) \/ Change(n, a)
  BY DEF Others
<1>4. Meanwhile /\ UNCHANGED listVars
  BY <1>3 DEF Remove, Create, Change
<1>5. /\ Waiting' = Waiting /\ Buffered' = Buffered /\ InHand' = InHand
      /\ Listed' = Listed /\ Unshown' = Unshown
      /\ UNCHANGED <<thedir, entry, finfo, flagA, pc, list, cut>>
  BY <1>4, SamePlaces
<1>6. pc \in {"readdir", "stat"} /\ changes' \in 0..MaxChanges
  BY <1>1, <1>2, <1>4, DirListingAssumption DEF Meanwhile, Listing
<1>7. StartInv'
  BY <1>1, <1>5, <1>6 DEF StartInv
<1>8. CASE Remove(n)
  <2>1. /\ n \in Present /\ dir' = [dir EXCEPT ![n] = Absent]
        /\ unread' = unread \ {n} /\ steady' = steady \ {n}
        /\ excused' = excused \cup {n} /\ UNCHANGED <<had, reborn>>
    BY <1>8 DEF Remove
  <2>2. dir' \in [Names -> Attrs \cup {Absent}] /\ Present' = Present \ {n}
    BY <1>2, <2>1 DEF Present
  <2>3. TypeOK'  BY <1>1, <1>2, <1>5, <1>6, <2>1, <2>2 DEF TypeOK
  <2>4. Somewhere' \subseteq Somewhere /\ Somewhere \subseteq Somewhere' \cup {n}
    BY <1>5, <2>1 DEF Somewhere
  <2>5. PlacesInv'
    BY <1>1, <1>5, <2>1, <2>2, <2>4 DEF PlacesInv
  <2>6. OnceInv'
    BY <1>1, <1>5, <2>1 DEF OnceInv, BufferedOnce
  <2>7. TruthInv'
    <3>1. \A m \in Present' : m \in Present /\ dir'[m] = dir[m]
      BY <1>2, <2>1, <2>2 DEF Present
    <3> QED  BY <1>1, <1>5, <2>1, <2>4, <3>1 DEF TruthInv
  <2> QED  BY <1>7, <2>3, <2>5, <2>6, <2>7 DEF DirInv
<1>9. ASSUME NEW a \in Attrs, Create(n, a) PROVE DirInv'
  <2>1. /\ dir[n] = Absent /\ dir' = [dir EXCEPT ![n] = a]
        /\ unread' \in {unread, unread \cup {n}}
        /\ had' = [had EXCEPT ![n] = @ \cup {a}]
        /\ reborn' = reborn \cup {n} /\ UNCHANGED <<steady, excused>>
    BY <1>9 DEF Create
  <2>2. /\ dir' \in [Names -> Attrs \cup {Absent}]
        /\ Present' = Present \cup {n} /\ n \notin Present
    BY <1>2, <2>1 DEF Present
  <2>3. had' \in [Names -> SUBSET Attrs]
    BY <1>2, <2>1
  <2>4. \A m \in Names : had[m] \subseteq had'[m] /\ a \in had'[n]
    BY <1>2, <2>1
  <2>5. TypeOK'
    <3>1. unread' \subseteq Names /\ reborn' \subseteq Names  BY <1>2, <2>1
    <3> QED  BY <1>1, <1>2, <1>5, <1>6, <2>1, <2>2, <2>3, <3>1 DEF TypeOK
  <2>6. Somewhere \subseteq Somewhere' /\ Somewhere' \subseteq Somewhere \cup {n}
    BY <1>5, <2>1 DEF Somewhere
  <2>7. PlacesInv'
    BY <1>1, <1>5, <2>1, <2>2, <2>6 DEF PlacesInv
  <2>8. OnceInv'
    BY <1>1, <1>5, <2>1 DEF OnceInv, BufferedOnce
  <2>9. TruthInv'
    <3>1. \A m \in Present' : dir'[m] \in had'[m]
      <4>1. ASSUME NEW m \in Present', m # n PROVE dir'[m] \in had'[m]
        <5>1. m \in Names /\ m \in Present /\ dir'[m] = dir[m]
          BY <1>2, <2>1, <2>2, <4>1 DEF Present
        <5>2. dir[m] \in had[m]  BY <1>1, <1>6, <5>1 DEF TruthInv
        <5> QED  BY <2>4, <5>1, <5>2
      <4>2. dir'[n] = a /\ a \in had'[n]  BY <1>2, <2>1, <2>4
      <4> QED  BY <4>1, <4>2
    <3>2. \A m \in Somewhere' : had'[m] # {}
      <4>1. Somewhere \subseteq Names  BY <1>2 DEF Somewhere
      <4>2. \A m \in Somewhere : had'[m] # {}
        BY <1>1, <2>4, <4>1 DEF TruthInv
      <4>3. had'[n] # {}  BY <2>4
      <4> QED  BY <2>6, <4>2, <4>3
    <3>3. \A i \in DOMAIN list : \/ list[i].name \in excused
                                 \/ list[i].attr \in had'[list[i].name]
      BY <1>1, <1>2, <2>4 DEF TruthInv
    <3> QED  BY <1>5, <2>1, <3>1, <3>2, <3>3 DEF TruthInv
  <2> QED  BY <1>7, <2>5, <2>7, <2>8, <2>9 DEF DirInv
<1>10. ASSUME NEW a \in Attrs, Change(n, a) PROVE DirInv'
  <2>1. /\ n \in Present /\ dir' = [dir EXCEPT ![n] = a]
        /\ had' = [had EXCEPT ![n] = @ \cup {a}]
        /\ UNCHANGED <<unread, steady, reborn, excused>>
    BY <1>10 DEF Change
  <2>2. dir' \in [Names -> Attrs \cup {Absent}] /\ Present' = Present
    BY <1>2, <2>1 DEF Present
  <2>3. had' \in [Names -> SUBSET Attrs]
    BY <1>2, <2>1
  <2>4. \A m \in Names : had[m] \subseteq had'[m] /\ a \in had'[n]
    BY <1>2, <2>1
  <2>5. TypeOK'
    BY <1>1, <1>2, <1>5, <1>6, <2>1, <2>2, <2>3 DEF TypeOK
  <2>6. Somewhere' = Somewhere  BY <1>5, <2>1 DEF Somewhere
  <2>7. PlacesInv'
    BY <1>1, <1>5, <2>1, <2>2, <2>6 DEF PlacesInv
  <2>8. OnceInv'
    BY <1>1, <1>5, <2>1 DEF OnceInv, BufferedOnce
  <2>9. TruthInv'
    <3>1. \A m \in Present' : dir'[m] \in had'[m]
      <4>1. ASSUME NEW m \in Present', m # n PROVE dir'[m] \in had'[m]
        <5>1. m \in Names /\ m \in Present /\ dir'[m] = dir[m]
          BY <1>2, <2>1, <2>2, <4>1 DEF Present
        <5>2. dir[m] \in had[m]  BY <1>1, <1>6, <5>1 DEF TruthInv
        <5> QED  BY <2>4, <5>1, <5>2
      <4>2. dir'[n] = a /\ a \in had'[n]  BY <1>2, <2>1, <2>4
      <4> QED  BY <4>1, <4>2
    <3>2. \A m \in Somewhere' : had'[m] # {}
      <4>1. Somewhere \subseteq Names  BY <1>2 DEF Somewhere
      <4> QED  BY <1>1, <2>4, <2>6, <4>1 DEF TruthInv
    <3>3. \A i \in DOMAIN list : \/ list[i].name \in excused
                                 \/ list[i].attr \in had'[list[i].name]
      BY <1>1, <1>2, <2>4 DEF TruthInv
    <3> QED  BY <1>5, <2>1, <3>1, <3>2, <3>3 DEF TruthInv
  <2> QED  BY <1>7, <2>5, <2>7, <2>8, <2>9 DEF DirInv
<1> QED  BY <1>3, <1>8, <1>9, <1>10

-----------------------------------------------------------------------------
(* The handler.                                                            *)

LEMMA OpenDirStep ==
    ASSUME DirInv, OpenDir
    PROVE  DirInv'
<1>1. TypeOK /\ StartInv /\ PlacesInv /\ OnceInv /\ TruthInv  BY DEF DirInv
<1>2. /\ dir \in [Names -> Attrs \cup {Absent}]
      /\ had \in [Names -> SUBSET Attrs]
      /\ thedir = [data |-> <<>>, offset |-> 0] /\ list = <<>>
      /\ reborn = {} /\ steady = {} /\ unread = {}
  BY <1>1 DEF TypeOK, StartInv, OpenDir
<1>3. UNCHANGED <<dir, changes, reborn, thedir, entry, finfo, flagA, list,
                  excused, cut>>
  BY DEF OpenDir
<1>4. /\ Waiting' = {} /\ Buffered' = {} /\ Listed' = {} /\ DOMAIN list = {}
      /\ thedir.offset <= Len(thedir.data)
  <2>1. Len(thedir.data) = 0 /\ thedir.offset = 0  BY <1>2
  <2>2. 0 + 1 .. 0 = {}  OBVIOUS
  <2>3. Waiting' = {}  BY <1>3, <2>1, <2>2 DEF Waiting
  <2>4. DOMAIN list = {}  BY <1>2
  <2> QED  BY <1>3, <2>1, <2>3, <2>4 DEF Buffered, Listed
<1>5. Present' = Present /\ Unshown' = Unshown /\ Present \subseteq Names
  BY <1>3 DEF Present, Unshown
<1>6. CASE /\ pc' = "readdir" /\ unread' = Present /\ steady' = Present
           /\ had' = [n \in Names |-> {dir[n]} \ {Absent}]
  <2>1. InHand' = {} /\ Somewhere' = Present
    BY <1>4, <1>6 DEF InHand, Somewhere
  <2>2. had' \in [Names -> SUBSET Attrs]
    <3>1. \A n \in Names : {dir[n]} \ {Absent} \subseteq Attrs  BY <1>2
    <3> QED  BY <1>6, <3>1
  <2>3. TypeOK'  BY <1>1, <1>3, <1>5, <1>6, <2>2 DEF TypeOK
  <2>4. StartInv'  BY <1>3, <1>4, <1>6 DEF StartInv
  <2>5. PlacesInv'
    BY <1>2, <1>3, <1>5, <1>6, <2>1 DEF PlacesInv
  <2>6. OnceInv'
    BY <1>3, <1>4, <2>1 DEF OnceInv, BufferedOnce
  <2>7. TruthInv'
    <3>1. \A n \in Present : n \in Names /\ dir[n] # Absent  BY DEF Present
    <3>2. \A n \in Present : dir[n] \in had'[n]  BY <1>6, <3>1
    <3> QED  BY <1>3, <1>4, <1>5, <2>1, <3>2 DEF TruthInv
  <2> QED  BY <2>3, <2>4, <2>5, <2>6, <2>7 DEF DirInv
<1>7. CASE pc' = "refused" /\ UNCHANGED <<unread, steady, had>>
  <2>1. InHand' = {} /\ Somewhere' = {}
    BY <1>2, <1>4, <1>7 DEF InHand, Somewhere
  <2>2. TypeOK'  BY <1>1, <1>3, <1>7 DEF TypeOK
  <2>3. StartInv'  BY <1>2, <1>3, <1>4, <1>7 DEF StartInv
  <2>4. PlacesInv'  BY <1>2, <1>3, <1>7 DEF PlacesInv
  <2>5. OnceInv'  BY <1>3, <1>4, <2>1 DEF OnceInv, BufferedOnce
  <2>6. TruthInv'  BY <1>3, <1>4, <1>7, <2>1 DEF TruthInv
  <2> QED  BY <2>2, <2>3, <2>4, <2>5, <2>6 DEF DirInv
<1> QED  BY <1>6, <1>7 DEF OpenDir

\* A name goes from the kernel or the buffer into the hand, others perhaps from
\* the kernel into the buffer.
LEMMA HandStep ==
    ASSUME DirInv, pc = "readdir", pc' = "stat",
           UNCHANGED <<dir, changes, steady, had, reborn, finfo, flagA, list,
                       excused, cut>>,
           entry' \in Names, unread' \subseteq unread,
           thedir' \in [data : Seq(Names), offset : Nat],
           thedir'.offset <= Len(thedir'.data),
           unread \cup Buffered = unread' \cup Buffered' \cup {entry'},
           BufferedOnce',
           Buffered' \cap {entry'} \subseteq reborn,
           Buffered' \cap unread' \subseteq reborn,
           {entry'} \cap unread' \subseteq reborn
    PROVE  DirInv'
<1>1. TypeOK /\ StartInv /\ PlacesInv /\ OnceInv /\ TruthInv  BY DEF DirInv
<1>2. /\ InHand = {} /\ InHand' = {entry'} /\ Listed' = Listed
      /\ Unshown' = Unshown /\ Present' = Present
  BY DEF InHand, Listed, Unshown, Present
<1>3. Somewhere' = Somewhere  BY <1>2 DEF Somewhere
<1>4. TypeOK'  BY <1>1 DEF TypeOK
<1>5. StartInv'  BY DEF StartInv
<1>6. PlacesInv'  BY <1>1, <1>2, <1>3 DEF PlacesInv
<1>7. OnceInv'
  <2>1. (unread \cup Buffered) \cap Listed \subseteq reborn
    BY <1>1 DEF OnceInv
  <2>2. /\ unread' \cap Listed \subseteq reborn
        /\ Buffered' \cap Listed \subseteq reborn
        /\ {entry'} \cap Listed \subseteq reborn
    BY <2>1
  <2> QED  BY <1>1, <1>2, <2>2 DEF OnceInv
<1>8. TruthInv'  BY <1>1, <1>2, <1>3 DEF TruthInv
<1> QED  BY <1>4, <1>5, <1>6, <1>7, <1>8 DEF DirInv

LEMMA FromBufferStep ==
    ASSUME DirInv, FromBuffer
    PROVE  DirInv'
<1> DEFINE d == thedir.data
           o == thedir.offset
<1>1. TypeOK /\ StartInv /\ OnceInv  BY DEF DirInv
<1>2. /\ d \in Seq(Names) /\ o \in Nat /\ Len(d) \in Nat
      /\ \A i \in 1..Len(d) : d[i] \in Names
  BY <1>1, Types
<1>3. /\ pc = "readdir" /\ pc' = "stat" /\ entry' = d[o + 1]
      /\ thedir' = [data |-> d, offset |-> o + 1]
      /\ UNCHANGED <<dir, unread, changes, steady, had, reborn, finfo, flagA,
                     list, excused, cut>>
      /\ ~(o >= Len(d))
  BY DEF FromBuffer, Take, Emptied, kernelVars
<1>4. thedir'.data = d /\ thedir'.offset = o + 1  BY <1>3
<1>5. /\ o + 1 \in 1..Len(d) /\ o + 1 \in Nat /\ o + 1 <= Len(d)
      /\ o + 1 .. Len(d) = (o + 2 .. Len(d)) \cup {o + 1}
      /\ o + 1 \notin o + 2 .. Len(d) /\ (o + 1) + 1 = o + 2
  BY <1>2, <1>3
<1>6. Waiting = o + 1 .. Len(d)  BY DEF Waiting
<1>7. Waiting' = o + 2 .. Len(d)
  BY <1>4, <1>5 DEF Waiting
<1>8. Waiting = Waiting' \cup {o + 1} /\ o + 1 \notin Waiting'
  BY <1>5, <1>6, <1>7
<1>9. Buffered = {d[i] : i \in Waiting} /\ Buffered' = {d[i] : i \in Waiting'}
  BY <1>4 DEF Buffered
<1>10. \A i, j \in Waiting : d[i] = d[j] => i = j \/ d[i] \in reborn
  BY <1>1 DEF OnceInv, BufferedOnce
<1>11. BufferedOnce'
  BY <1>3, <1>4, <1>8, <1>10 DEF BufferedOnce
<1>12. Buffered = Buffered' \cup {entry'}
  BY <1>3, <1>8, <1>9
<1>13. Buffered' \cap {entry'} \subseteq reborn
  <2>1. SUFFICES ASSUME entry' \in Buffered' PROVE entry' \in reborn
    OBVIOUS
  <2>2. PICK i \in Waiting' : d[i] = entry'  BY <1>9, <2>1
  <2>3. i \in Waiting /\ o + 1 \in Waiting /\ i # o + 1  BY <1>8, <2>2
  <2>4. d[o + 1] = d[i]  BY <1>3, <2>2
  <2>5. d[i] \in reborn  BY <1>10, <2>3, <2>4
  <2> QED  BY <2>2, <2>5
<1>14. Buffered \cap unread \subseteq reborn  BY <1>1 DEF OnceInv
<1>15. entry' \in Names  BY <1>2, <1>3, <1>5
<1>16. thedir' \in [data : Seq(Names), offset : Nat]
  BY <1>2, <1>3, <1>5
<1>17. thedir'.offset <= Len(thedir'.data)  BY <1>4, <1>5
<1>18. /\ unread' \subseteq unread
       /\ unread \cup Buffered = unread' \cup Buffered' \cup {entry'}
       /\ Buffered' \cap unread' \subseteq reborn
       /\ {entry'} \cap unread' \subseteq reborn
  BY <1>3, <1>12, <1>14
<1>19. UNCHANGED <<dir, changes, steady, had, reborn, finfo, flagA, list,
                   excused, cut>>
  BY <1>3
<1> QED
  BY ONLY DirInv, <1>3, <1>11, <1>13, <1>15, <1>16, <1>17, <1>18, <1>19, HandStep

LEMMA FillBufferStep ==
    ASSUME DirInv, FillBuffer
    PROVE  DirInv'
<1>1. TypeOK /\ StartInv /\ OnceInv  BY DEF DirInv
<1>2. /\ unread \subseteq Names /\ thedir.offset \in Nat
      /\ Len(thedir.data) \in Nat
  BY <1>1, Types
<1>3. PICK b \in Batches : /\ Take(b, 0)
                           /\ unread' = unread \ {b[i] : i \in DOMAIN b}
  BY DEF FillBuffer
<1>4. /\ pc = "readdir" /\ thedir.offset >= Len(thedir.data)
      /\ UNCHANGED <<dir, changes, steady, had, reborn, finfo, flagA, list,
                     excused, cut>>
  BY DEF FillBuffer, Emptied
<1>5. pc' = "stat" /\ entry' = b[1] /\ thedir' = [data |-> b, offset |-> 1]
  BY <1>3 DEF Take
<1>6. Buffered = {}
  <2>1. thedir.offset + 1 .. Len(thedir.data) = {}  BY <1>2, <1>4
  <2> QED  BY <2>1 DEF Buffered, Waiting
<1>7. PICK k \in 1..Batch : b \in [1..k -> unread]
  BY DEF Batches
<1>8. \A i, j \in DOMAIN b : b[i] = b[j] => i = j
  BY DEF Batches
<1>9. k \in Nat /\ 1 <= k /\ 1 \in 1..k /\ 1..k = (2..k) \cup {1} /\ 1 \notin 2..k
  BY DirListingAssumption
<1>10. DOMAIN b = 1..k /\ \A i \in 1..k : b[i] \in unread /\ b[i] \in Names
  BY <1>2, <1>7
<1>11. b \in Seq(Names) /\ Len(b) = k
  <2>1. b \in [1..k -> Names]  BY <1>2, <1>7
  <2>2. b \in Seq(Names)  BY <1>9, <2>1, IsASeq
  <2> QED  BY <1>9, <1>10, <2>2, LenProperties
<1>12. thedir'.data = b /\ thedir'.offset = 1  BY <1>5
<1>13. Waiting' = 2..k
  BY <1>11, <1>12 DEF Waiting
<1>14. Buffered' = {b[i] : i \in 2..k}
  BY <1>12, <1>13 DEF Buffered
<1>15. BufferedOnce'
  BY <1>8, <1>9, <1>10, <1>12, <1>13 DEF BufferedOnce
<1>16. b[1] \notin Buffered'
  BY <1>8, <1>9, <1>10, <1>14
<1>17. {b[i] : i \in DOMAIN b} = Buffered' \cup {entry'}
  BY <1>5, <1>9, <1>10, <1>14
<1>18. {b[i] : i \in DOMAIN b} \subseteq unread  BY <1>10
<1>19. /\ entry' \in Names
       /\ thedir' \in [data : Seq(Names), offset : Nat]
       /\ thedir'.offset <= Len(thedir'.data)
  BY <1>5, <1>9, <1>10, <1>11
<1>20. /\ unread' \subseteq unread
       /\ unread \cup Buffered = unread' \cup Buffered' \cup {entry'}
       /\ Buffered' \cap {entry'} \subseteq reborn
       /\ Buffered' \cap unread' \subseteq reborn
       /\ {entry'} \cap unread' \subseteq reborn
  BY <1>3, <1>5, <1>6, <1>16, <1>17, <1>18
<1> QED
  BY ONLY DirInv, <1>4, <1>5, <1>15, <1>19, <1>20, HandStep

LEMMA NoMoreStep ==
    ASSUME DirInv, NoMore
    PROVE  DirInv'
<1>1. TypeOK /\ StartInv /\ PlacesInv /\ OnceInv /\ TruthInv  BY DEF DirInv
<1>2. thedir.offset \in Nat /\ Len(thedir.data) \in Nat  BY <1>1, Types
<1>3. /\ pc = "readdir" /\ pc' = "listed" /\ cut' \in BOOLEAN
      /\ ~cut' => unread = {}
      /\ UNCHANGED <<dir, unread, changes, steady, had, reborn, thedir, entry,
                     finfo, flagA, list, excused>>
      /\ thedir.offset >= Len(thedir.data)
  BY <1>1 DEF NoMore, Emptied, kernelVars, TypeOK
<1>4. Buffered = {}
  <2>1. thedir.offset + 1 .. Len(thedir.data) = {}  BY <1>2, <1>3
  <2> QED  BY <2>1 DEF Buffered, Waiting
<1>5. /\ Waiting' = Waiting /\ Buffered' = Buffered /\ InHand' = InHand
      /\ Listed' = Listed /\ Unshown' = Unshown /\ Present' = Present
  BY <1>3 DEF Waiting, Buffered, InHand, Listed, Unshown, Present
<1>6. Somewhere' = Somewhere  BY <1>3, <1>5 DEF Somewhere
<1>7. TypeOK'  BY <1>1, <1>3 DEF TypeOK
<1>8. StartInv'  BY <1>1, <1>3, <1>4, <1>5 DEF StartInv
<1>9. PlacesInv'  BY <1>1, <1>3, <1>5, <1>6 DEF PlacesInv
<1>10. OnceInv'  BY <1>1, <1>3, <1>5 DEF OnceInv, BufferedOnce
<1>11. TruthInv'  BY <1>1, <1>3, <1>5, <1>6 DEF TruthInv
<1> QED  BY <1>7, <1>8, <1>9, <1>10, <1>11 DEF DirInv

\* The name in hand is passed over or gets its line.
LEMMA StatEntryStep ==
    ASSUME DirInv, StatEntry
    PROVE  DirInv'
<1> DEFINE line == [name |-> entry, attr |-> finfo']
<1>1. TypeOK /\ StartInv /\ PlacesInv /\ OnceInv /\ TruthInv  BY DEF DirInv
<1>2. /\ dir \in [Names -> Attrs \cup {Absent}]
      /\ had \in [Names -> SUBSET Attrs]
      /\ list \in Seq(Lines) /\ Len(list) \in Nat /\ DOMAIN list = 1..Len(list)
      /\ finfo \in Attrs \cup {Garbage} /\ excused \subseteq Names
  BY <1>1, Types DEF TypeOK
<1>3. /\ pc = "stat" /\ pc' = "readdir"
      /\ UNCHANGED <<dir, unread, changes, steady, had, reborn, thedir, entry,
                     flagA, cut>>
  BY DEF StatEntry, kernelVars
<1>4. entry \in Names /\ InHand = {entry} /\ InHand' = {}
  BY <1>1, <1>3 DEF StartInv, InHand
<1>5. \/ dir[entry] # Absent /\ finfo' = dir[entry] /\ excused' = excused
      \/ excused' = excused \cup {entry} /\ finfo' = finfo
  BY DEF StatEntry
<1>6. /\ finfo' \in Attrs \cup {Garbage} /\ excused' \subseteq Names
      /\ excused \subseteq excused'
  BY <1>2, <1>4, <1>5
<1>7. line \in Lines  BY <1>4, <1>6 DEF Lines
<1>8. entry \in excused' \/ finfo' \in had[entry]
  BY <1>1, <1>3, <1>4, <1>5 DEF TruthInv, Present
<1>9. /\ Waiting' = Waiting /\ Buffered' = Buffered /\ Unshown' = Unshown
      /\ Present' = Present
  BY <1>3 DEF Waiting, Buffered, Unshown, Present
<1>10. StartInv'  BY <1>1, <1>3 DEF StartInv
<1>11. BufferedOnce'  BY <1>1, <1>3, <1>9 DEF OnceInv, BufferedOnce
<1>12. CASE entry \in Hidden /\ ~flagA
  <2>1. list' = list  BY <1>12 DEF StatEntry
  <2>2. Listed' = Listed /\ entry \in Unshown
    BY <1>12, <2>1 DEF Listed, Unshown
  <2>3. Somewhere' \subseteq Somewhere /\ Somewhere \subseteq Somewhere' \cup {entry}
    BY <1>3, <1>4, <1>9, <2>2 DEF Somewhere
  <2>4. TypeOK'  BY <1>1, <1>3, <1>6, <2>1 DEF TypeOK
  <2>5. PlacesInv'  BY <1>1, <1>3, <1>9, <2>2, <2>3 DEF PlacesInv
  <2>6. OnceInv'  BY <1>1, <1>3, <1>4, <1>9, <1>11, <2>1, <2>2 DEF OnceInv
  <2>7. TruthInv'  BY <1>1, <1>3, <1>6, <1>9, <2>1, <2>3 DEF TruthInv
  <2> QED  BY <1>10, <2>4, <2>5, <2>6, <2>7 DEF DirInv
<1>13. CASE ~(entry \in Hidden /\ ~flagA)
  <2> DEFINE n == Len(list)
  <2>1. list' = Append(list, line)  BY <1>13 DEF StatEntry
  <2>2. /\ list' \in Seq(Lines) /\ Len(list') = n + 1
        /\ \A i \in 1..n : list'[i] = list[i]
        /\ list'[n + 1] = line
    BY <1>2, <1>7, <2>1, AppendProperties
  <2>3. DOMAIN list' = 1..(n + 1)  BY <2>2, LenProperties
  <2>4. DOMAIN list' = DOMAIN list \cup {n + 1} /\ n + 1 \notin DOMAIN list
    BY <1>2, <2>3
  <2>5. /\ \A i \in DOMAIN list : list'[i] = list[i]
        /\ list'[n + 1].name = entry /\ list'[n + 1].attr = finfo'
    BY <1>2, <2>2
  <2> HIDE DEF n
  <2>6. Listed' = Listed \cup {entry}
    BY <2>4, <2>5 DEF Listed
  <2>7. Somewhere' = Somewhere
    BY <1>3, <1>4, <1>9, <2>6 DEF Somewhere
  <2>8. TypeOK'  BY <1>1, <1>3, <1>6, <2>2 DEF TypeOK
  <2>9. PlacesInv'  BY <1>1, <1>3, <1>9, <2>7 DEF PlacesInv
  <2>10. \A i \in DOMAIN list : list[i].name = entry => entry \in reborn
    <3>1. InHand \cap Listed \subseteq reborn  BY <1>1 DEF OnceInv
    <3> QED  BY <1>4, <3>1 DEF Listed
  <2>11. \A i, j \in DOMAIN list' : list'[i].name = list'[j].name =>
                                       i = j \/ list'[i].name \in reborn
    <3>1. \A i, j \in DOMAIN list : list[i].name = list[j].name =>
                                       i = j \/ list[i].name \in reborn
      BY <1>1 DEF OnceInv
    <3> QED  BY <2>4, <2>5, <2>10, <3>1
  <2>12. OnceInv'
    <3>1. /\ Buffered \cap InHand \subseteq reborn
          /\ Buffered \cap unread \subseteq reborn
          /\ Buffered \cap Listed \subseteq reborn
          /\ InHand \cap unread \subseteq reborn
          /\ unread \cap Listed \subseteq reborn
      BY <1>1 DEF OnceInv
    <3> QED  BY <1>3, <1>4, <1>9, <1>11, <2>6, <2>11, <3>1 DEF OnceInv
  <2>13. TruthInv'
    <3>1. \A i \in DOMAIN list' : \/ list'[i].name \in excused'
                                   \/ list'[i].attr \in had[list'[i].name]
      BY <1>1, <1>6, <1>8, <2>4, <2>5 DEF TruthInv
    <3> QED  BY <1>1, <1>3, <1>9, <2>7, <3>1 DEF TruthInv
  <2> QED  BY <1>10, <2>8, <2>9, <2>12, <2>13 DEF DirInv
<1> QED  BY <1>12, <1>13

-----------------------------------------------------------------------------
(* The invariant and what follows from it.                                 *)

LEMMA DirInit ==
    ASSUME Init
    PROVE  DirInv
<1>1. /\ thedir = [data |-> <<>>, offset |-> 0] /\ list = <<>> /\ unread = {}
      /\ steady = {} /\ reborn = {} /\ pc = "open"
  BY DEF Init
<1>2. Len(thedir.data) = 0 /\ thedir.offset = 0 /\ 0 + 1 .. 0 = {}
  BY <1>1
<1>3. DOMAIN list = {} /\ Waiting = {}  BY <1>1, <1>2 DEF Waiting
<1>4. Buffered = {} /\ Listed = {} /\ InHand = {} /\ Somewhere = {}
  BY <1>1, <1>3 DEF Buffered, Listed, InHand, Somewhere
<1>5. TypeOK
  <2>1. <<>> \in Seq(Names) /\ <<>> \in Seq(Lines)  OBVIOUS
  <2>2. 0 \in 0..MaxChanges  BY DirListingAssumption
  <2> QED  BY <2>1, <2>2 DEF Init, TypeOK
<1>6. StartInv  BY <1>1, <1>2 DEF StartInv
<1>7. PlacesInv  BY <1>1 DEF PlacesInv
<1>8. OnceInv  BY <1>3, <1>4 DEF OnceInv, BufferedOnce
<1>9. TruthInv  BY <1>1, <1>3, <1>4 DEF TruthInv
<1> QED  BY <1>5, <1>6, <1>7, <1>8, <1>9 DEF DirInv

LEMMA DirStutter ==
    ASSUME DirInv, UNCHANGED vars
    PROVE  DirInv'
<1>1. UNCHANGED <<dir, unread, changes, steady, had, reborn, thedir, entry,
                  finfo, flagA, pc, list, cut, excused>>
  BY DEF vars, kernelVars, listVars
<1>2. UNCHANGED <<Present, Waiting, Buffered, InHand, Listed, Unshown>>
  BY <1>1 DEF Present, Waiting, Buffered, InHand, Listed, Unshown
<1>3. Somewhere' = Somewhere  BY <1>1, <1>2 DEF Somewhere
<1>4. TypeOK /\ StartInv /\ PlacesInv /\ OnceInv /\ TruthInv  BY DEF DirInv
<1>5. TypeOK'  BY <1>1, <1>4 DEF TypeOK
<1>6. StartInv' /\ PlacesInv'
  BY <1>1, <1>2, <1>3, <1>4 DEF StartInv, PlacesInv
<1>7. OnceInv'  BY <1>1, <1>2, <1>4 DEF OnceInv, BufferedOnce
<1>8. TruthInv'  BY <1>1, <1>2, <1>3, <1>4 DEF TruthInv
<1> QED  BY <1>5, <1>6, <1>7, <1>8 DEF DirInv

\* Every name is where DirInv says, through any interleaving of list_dir with
\* the other sessions (cmdhandler.c 814 to 840, dirops.c 57 to 118).
THEOREM DirInvariant == Spec => []DirInv
<1>1. Init => DirInv  BY DirInit
<1>2. DirInv /\ [Next]_vars => DirInv'
  <2> SUFFICES ASSUME DirInv, [Next]_vars PROVE DirInv'  OBVIOUS
  <2>1. CASE Handler
    BY <2>1, OpenDirStep, FromBufferStep, FillBufferStep, NoMoreStep, StatEntryStep
       DEF Handler
  <2>2. CASE Others  BY <2>2, OthersStep
  <2>3. CASE Ended \/ UNCHANGED vars  BY <2>3, DirStutter DEF Ended
  <2> QED  BY <2>1, <2>2, <2>3 DEF Next
<1> QED  BY <1>1, <1>2, PTL DEF Spec

\* The variables keep their types: the offset into the buffer, the name in hand
\* and what finfo holds included (dirops.c 57).
THEOREM DirTypeCorrect == Spec => []TypeOK
<1>1. DirInv => TypeOK  BY DEF DirInv
<1> QED  BY <1>1, DirInvariant, PTL

\* LIST shows once what was there all the time, unless getdents failed
\* (dirops.c 68, 73, 78).
THEOREM SurvivorsListedAlways == Spec => []SurvivorsListed
<1>1. DirInv => SurvivorsListed
  <2> SUFFICES ASSUME DirInv, pc = "listed", ~cut, NEW n \in steady,
                      n \notin Hidden \/ flagA
               PROVE  ListedOnce(n)
    BY DEF SurvivorsListed
  <2>1. StartInv /\ PlacesInv /\ OnceInv  BY DEF DirInv
  <2>2. unread = {} /\ Buffered = {} /\ InHand = {}
    BY <2>1 DEF StartInv, InHand
  <2>3. n \notin Unshown /\ n \notin reborn
    BY <2>1 DEF Unshown, PlacesInv
  <2>4. n \in Listed  BY <2>1, <2>2, <2>3 DEF PlacesInv, Somewhere
  <2>5. PICK i \in DOMAIN list : list[i].name = n  BY <2>4 DEF Listed
  <2>6. \A j \in DOMAIN list : list[j].name = n <=> j = i
    BY <2>1, <2>3, <2>5 DEF OnceInv
  <2> QED  BY <2>5, <2>6 DEF ListedOnce
<1> QED  BY <1>1, DirInvariant, PTL

\* What a line says of an entry was so at some time of the listing, unless the
\* entry went or could not be asked for; no line comes twice unless its name was
\* made meanwhile (dirops.c 111, cmdhandler.c 834).
THEOREM LinesAreTrueAlways == Spec => []LinesAreTrue
<1>1. DirInv => LinesAreTrue
  <2> SUFFICES ASSUME DirInv, NEW i \in DOMAIN list, NEW j \in DOMAIN list
               PROVE  /\ had[list[i].name] # {}
                      /\ list[i].name = list[j].name /\ list[i].name \notin reborn
                            => i = j
                      /\ \/ list[i].name \in excused
                         \/ list[i].attr \in had[list[i].name]
    BY DEF LinesAreTrue
  <2>1. OnceInv /\ TruthInv  BY DEF DirInv
  <2>2. list[i].name \in Somewhere  BY DEF Somewhere, Listed
  <2> QED  BY <2>1, <2>2 DEF OnceInv, TruthInv
<1> QED  BY <1>1, DirInvariant, PTL

-----------------------------------------------------------------------------
(* What is still to be done.                                               *)

Advances == \/ ToDo' < ToDo
            \/ changes' > changes /\ ToDo' <= ToDo + 2

LEMMA Counts ==
    ASSUME NEW S \in SUBSET Names
    PROVE  /\ IsFiniteSet(S) /\ Cardinality(S) \in Nat
           /\ Cardinality(Names) \in Nat
           /\ Cardinality(S) <= Cardinality(Names)
BY NamesAssumption, FS_Subset, FS_CardinalityType

LEMMA ComingType ==
    ASSUME TypeOK, StartInv
    PROVE  /\ Cardinality(unread) \in Nat
           /\ Len(thedir.data) - thedir.offset \in Nat
           /\ Coming = Cardinality(unread) + (Len(thedir.data) - thedir.offset)
           /\ Coming \in Nat
<1>1. Cardinality(unread) \in Nat  BY Counts DEF TypeOK
<1>2. Len(thedir.data) \in Nat /\ thedir.offset \in Nat  BY Types
<1>3. thedir.offset <= Len(thedir.data)  BY DEF StartInv
<1> QED  BY <1>1, <1>2, <1>3 DEF Coming

LEMMA OthersAdvance ==
    ASSUME TypeOK, StartInv, Others
    PROVE  Advances
<1>1. PICK n \in Names : Remove(n) \/ \E a \in Attrs : Create(n, a) \/ Change(n, a)
  BY DEF Others
<1>2. UNCHANGED <<thedir, pc>> /\ pc \in {"readdir", "stat"}
      /\ changes' = changes + 1
  BY <1>1 DEF Remove, Create, Change, listVars, Meanwhile, Listing
<1>3. changes' > changes
  <2>1. changes \in Nat  BY DirListingAssumption DEF TypeOK
  <2> QED  BY <1>2, <2>1
<1>4. unread \subseteq Names /\ IsFiniteSet(unread) /\ Cardinality(unread) \in Nat
  BY Counts DEF TypeOK
<1>5. unread' \in {unread, unread \cup {n}, unread \ {n}}
  BY <1>1 DEF Remove, Create, Change
<1>6. /\ Cardinality(unread') \in Nat
      /\ Cardinality(unread') <= Cardinality(unread) + 1
  <2>1. CASE unread' = unread  BY <1>4, <2>1
  <2>2. CASE unread' = unread \cup {n}  BY <1>4, <2>2, FS_AddElement
  <2>3. CASE unread' = unread \ {n}
    <3>1. unread' \in SUBSET unread  BY <2>3
    <3> QED  BY <1>4, <3>1, FS_Subset, FS_CardinalityType
  <2> QED  BY <1>5, <2>1, <2>2, <2>3
<1>7. Len(thedir.data) - thedir.offset \in Nat  BY ComingType
<1>8. Coming \in Nat /\ Coming' \in Nat /\ Coming' <= Coming + 1
  <2>1. /\ Len(thedir.data) \in Nat /\ thedir.offset \in Nat  BY Types
  <2> QED  BY <1>2, <1>4, <1>6, <1>7, <2>1 DEF Coming
<1>9. ToDo' <= ToDo + 2  BY <1>2, <1>8 DEF ToDo
<1> QED  BY <1>3, <1>9 DEF Advances

LEMMA OpenDirAdvances ==
    ASSUME TypeOK, StartInv, OpenDir
    PROVE  Advances
<1>1. pc = "open" /\ pc' \in {"readdir", "refused"} /\ thedir' = thedir
  BY DEF OpenDir
<1>2. Cardinality(Names) \in Nat  BY Counts
<1>3. CASE pc' = "refused"  BY <1>1, <1>2, <1>3 DEF ToDo, Advances
<1>4. CASE pc' = "readdir"
  <2>1. unread' = Present  BY <1>4 DEF OpenDir
  <2>2. Cardinality(unread') \in Nat /\ Cardinality(unread') <= Cardinality(Names)
    <3>1. Present \in SUBSET Names  BY DEF Present
    <3> QED  BY <2>1, <3>1, Counts
  <2>3. thedir' = [data |-> <<>>, offset |-> 0]
    BY <1>1 DEF StartInv
  <2>4. Coming' = Cardinality(unread')
    <3>1. Len(thedir'.data) = 0 /\ thedir'.offset = 0  BY <2>3
    <3> QED  BY <2>2, <3>1 DEF Coming
  <2> QED  BY <1>1, <1>2, <1>4, <2>2, <2>4 DEF ToDo, Advances
<1> QED  BY <1>1, <1>3, <1>4

LEMMA FromBufferAdvances ==
    ASSUME TypeOK, StartInv, FromBuffer
    PROVE  Advances
<1>1. /\ pc = "readdir" /\ pc' = "stat" /\ unread' = unread
      /\ thedir' = [data |-> thedir.data, offset |-> thedir.offset + 1]
  BY DEF FromBuffer, Take, kernelVars
<1>2. thedir'.data = thedir.data /\ thedir'.offset = thedir.offset + 1
  BY <1>1
<1>3. /\ Len(thedir.data) \in Nat /\ thedir.offset \in Nat  BY Types
<1>4. Cardinality(unread) \in Nat /\ Coming \in Nat  BY ComingType
<1>5. Coming' = Coming - 1  BY <1>1, <1>2, <1>3, <1>4 DEF Coming
<1> QED  BY <1>1, <1>4, <1>5 DEF ToDo, Advances

\* getdents takes as many names from the kernel as it puts into the buffer.
LEMMA BatchCount ==
    ASSUME TypeOK, NEW b \in Batches
    PROVE  /\ Len(b) \in Nat \ {0}
           /\ Cardinality(unread \ {b[i] : i \in DOMAIN b})
                  = Cardinality(unread) - Len(b)
<1>1. PICK k \in 1..Batch : b \in [1..k -> unread]  BY DEF Batches
<1>2. \A i, j \in DOMAIN b : b[i] = b[j] => i = j  BY DEF Batches
<1>3. k \in Nat \ {0} /\ DOMAIN b = 1..k /\ Len(b) = k
  BY <1>1, DirListingAssumption, LenProperties, SeqDef
<1> DEFINE U == {b[i] : i \in DOMAIN b}
<1>4. b \in Bijection(1..k, U)
  <2>1. b \in [1..k -> U]  BY <1>1, <1>3
  <2>2. IsInjective(b)  BY <1>2 DEF IsInjective
  <2>3. \A t \in U : \E i \in 1..k : b[i] = t  BY <1>3
  <2> QED  BY <2>1, <2>2, <2>3 DEF Bijection, Injection, Surjection
<1>5. ExistsBijection(1..k, U)  BY <1>4 DEF ExistsBijection
<1>6. IsFiniteSet(1..k) /\ Cardinality(1..k) = k  BY <1>3, FS_Interval
<1>7. Cardinality(U) = k  BY <1>5, <1>6, FS_Bijection
<1>8. U \subseteq unread  BY <1>1
<1>9. IsFiniteSet(unread)  BY Counts DEF TypeOK
<1>10. unread \cap U = U  BY <1>8
<1>11. Cardinality(unread \ U) = Cardinality(unread) - Cardinality(unread \cap U)
  BY <1>9, FS_Difference
<1> QED  BY <1>3, <1>7, <1>10, <1>11

LEMMA FillBufferAdvances ==
    ASSUME TypeOK, StartInv, FillBuffer
    PROVE  Advances
<1>1. PICK b \in Batches : /\ Take(b, 0)
                           /\ unread' = unread \ {b[i] : i \in DOMAIN b}
  BY DEF FillBuffer
<1>2. pc = "readdir" /\ pc' = "stat" /\ thedir' = [data |-> b, offset |-> 1]
  BY <1>1 DEF FillBuffer, Take
<1>3. Len(b) \in Nat \ {0} /\ Cardinality(unread') = Cardinality(unread) - Len(b)
  BY <1>1, BatchCount
<1>4. thedir'.data = b /\ thedir'.offset = 1  BY <1>2
<1>5. Cardinality(unread) \in Nat /\ Coming = Cardinality(unread)
  <2>1. thedir.offset >= Len(thedir.data)  BY DEF FillBuffer, Emptied
  <2>2. Len(thedir.data) \in Nat /\ thedir.offset \in Nat  BY Types
  <2>3. thedir.offset = Len(thedir.data)  BY <2>1, <2>2 DEF StartInv
  <2> QED  BY <2>2, <2>3, ComingType
<1>6. Coming' = Coming - 1  BY <1>3, <1>4, <1>5 DEF Coming
<1> QED  BY <1>2, <1>5, <1>6 DEF ToDo, Advances

LEMMA AdvanceStep == DirInv /\ Next => Advances \/ UNCHANGED vars
<1> SUFFICES ASSUME DirInv, Next PROVE Advances \/ UNCHANGED vars
  OBVIOUS
<1>1. TypeOK /\ StartInv  BY DEF DirInv
<1>2. Coming \in Nat  BY <1>1, ComingType
<1>3. CASE NoMore
  <2>1. pc = "readdir" /\ pc' = "listed"  BY <1>3 DEF NoMore
  <2> QED  BY <1>2, <2>1 DEF ToDo, Advances
<1>4. CASE StatEntry
  <2>1. pc = "stat" /\ pc' = "readdir" /\ UNCHANGED <<unread, thedir>>
    BY <1>4 DEF StatEntry, kernelVars
  <2>2. Coming' = Coming  BY <2>1 DEF Coming
  <2> QED  BY <1>2, <2>1, <2>2 DEF ToDo, Advances
<1> QED
  BY <1>1, <1>3, <1>4, OthersAdvance, OpenDirAdvances, FromBufferAdvances,
     FillBufferAdvances
  DEF Next, Handler, Ended

\* However many entries there are, and whatever the others do meanwhile, each
\* step of list_dir leaves it less to do, and each change of theirs adds at most
\* the one entry (cmdhandler.c 814).
THEOREM ListingAdvancesAlways == Spec => ListingAdvances
<1>1. DirInv /\ [Next]_vars => [Advances]_vars  BY AdvanceStep
<1>2. Advances <=> \/ ToDo' < ToDo
                   \/ changes' > changes /\ ToDo' <= ToDo + 2
  BY DEF Advances
<1> QED  BY <1>1, <1>2, DirInvariant, PTL DEF Spec, ListingAdvances
=============================================================================
