------------------------- MODULE SharedFilesProofs -------------------------
(* Safety of SharedFiles, for any number of sessions, names and inodes.    *)
EXTENDS SharedFiles, TLAPS

-----------------------------------------------------------------------------
(* Sequences.                                                              *)

LEMMA AppendChunk ==
    ASSUME NEW T, NEW q \in Seq(T), NEW c \in T
    PROVE  /\ Append(q, c) \in Seq(T)
           /\ Len(Append(q, c)) = Len(q) + 1
           /\ \A j \in 1..Len(q) : Append(q, c)[j] = q[j]
           /\ Append(q, c)[Len(q) + 1] = c
           /\ Len(q) \in Nat
OBVIOUS

LEMMA ElementOfSeq ==
    ASSUME NEW T, NEW q \in Seq(T), NEW j \in 1..Len(q)
    PROVE  q[j] \in T
OBVIOUS

LEMMA EmptySeqFacts ==
    /\ Len(<<>>) = 0
    /\ \A T : <<>> \in Seq(T)
OBVIOUS

-----------------------------------------------------------------------------
(* Types.                                                                  *)

LEMMA RebindType ==
    ASSUME TypeOK, NEW s, NEW d \in [Names -> Inodes \cup {NoInode}],
           Rebind(s, d)
    PROVE  /\ dir' \in [Names -> Inodes \cup {NoInode}]
           /\ touched' \in [Sessions -> SUBSET Names]
BY DEF Rebind, TypeOK

LEMMA ReclaimType ==
    ASSUME TypeOK, Reclaim
    PROVE  content' \in [Inodes -> Seq(Chunks)]
BY EmptySeqFacts DEF Reclaim, TypeOK

LEMMA CreateType ==
    ASSUME TypeOK, NEW s, NEW n \in Names, NEW i \in Inodes, Create(s, n, i)
    PROVE  /\ dir' \in [Names -> Inodes \cup {NoInode}]
           /\ touched' \in [Sessions -> SUBSET Names]
           /\ content' \in [Inodes -> Seq(Chunks)]
<1>1. [dir EXCEPT ![n] = i] \in [Names -> Inodes \cup {NoInode}]
  BY DEF TypeOK
<1>2. QED
  BY <1>1, RebindType, EmptySeqFacts DEF Create, TypeOK

LEMMA StartsType ==
    ASSUME TypeOK, NEW s \in Sessions, NEW v, Starts(s, v)
    PROVE  /\ from' \in [Sessions -> Names \cup {NoName}]
           /\ made' \in [Sessions -> Inodes \cup {NoInode}]
BY DEF Starts, TypeOK

\* The types of what a handler works with.
WorkType ==
    /\ pc \in [Sessions -> {"command", "probe", "create", "receive", "stat",
                            "send", "mkdir"}]
    /\ kind \in [Sessions -> UploadKinds \cup {"none"}]
    /\ name \in [Sessions -> Names \cup {NoName}]
    /\ fd \in [Sessions -> Inodes \cup {NoInode}]
    /\ stored \in [Sessions -> 0..MaxChunks]
    /\ sent \in [Sessions -> Seq(Chunks)]
    /\ before \in [Sessions -> Seq(Chunks)]
    /\ cut \in [Sessions -> BOOLEAN]

LEMMA ReturnsType ==
    ASSUME TypeOK, NEW s \in Sessions, Returns(s)
    PROVE  WorkType'
BY EmptySeqFacts, SharedFilesAssumption DEF Returns, WorkType, TypeOK

LEMMA OpenUploadType ==
    ASSUME TypeOK, NEW s \in Sessions, NEW v \in UploadKinds, NEW n \in Names,
           OpenUpload(s, v, n)
    PROVE  /\ WorkType'
           /\ dir' \in [Names -> Inodes \cup {NoInode}]
           /\ isDir' \subseteq Inodes
           /\ content' \in [Inodes -> Seq(Chunks)]
           /\ touched' \in [Sessions -> SUBSET Names]
<1>1. /\ pc' \in [Sessions -> {"command", "probe", "create", "receive", "stat",
                               "send", "mkdir"}]
      /\ kind' \in [Sessions -> UploadKinds \cup {"none"}]
      /\ name' \in [Sessions -> Names \cup {NoName}]
      /\ stored' \in [Sessions -> 0..MaxChunks]
      /\ sent' \in [Sessions -> Seq(Chunks)]
  BY DEF OpenUpload, TypeOK
<1>2. CASE Regular(n) /\ fd' = [fd EXCEPT ![s] = dir[n]]
           /\ content' = (IF v = "APPE" THEN content
                          ELSE [content EXCEPT ![dir[n]] = <<>>])
           /\ cut' = [t \in Sessions |->
                        \/ cut[t]
                        \/ v # "APPE" /\ t # s /\ fd[t] = dir[n]]
           /\ before' = [before EXCEPT ![s] = content'[dir[n]]]
           /\ UNCHANGED <<dir, isDir, touched>>
  <2>1. dir[n] \in Inodes
    BY <1>2 DEF Regular, Bound, TypeOK
  <2>2. content' \in [Inodes -> Seq(Chunks)]
    BY <1>2, EmptySeqFacts DEF TypeOK
  <2>3. fd' \in [Sessions -> Inodes \cup {NoInode}]
    BY <1>2, <2>1 DEF TypeOK
  <2>4. before' \in [Sessions -> Seq(Chunks)]
    BY <1>2, <2>1, <2>2 DEF TypeOK
  <2>5. cut' \in [Sessions -> BOOLEAN]
    BY <1>2, Zenon DEF TypeOK
  <2>6. QED
    BY <1>1, <1>2, <2>2, <2>3, <2>4, <2>5 DEF WorkType, TypeOK
<1>3. CASE \E i \in FreeInodes :
             /\ Create(s, n, i)
             /\ isDir' = isDir \ {i}
             /\ fd' = [fd EXCEPT ![s] = i]
             /\ UNCHANGED <<cut, before>>
  <2>1. PICK i \in FreeInodes : /\ Create(s, n, i)
                                /\ isDir' = isDir \ {i}
                                /\ fd' = [fd EXCEPT ![s] = i]
                                /\ UNCHANGED <<cut, before>>
    BY <1>3
  <2>2. i \in Inodes
    BY DEF FreeInodes
  <2>3. QED
    BY <1>1, <2>1, <2>2, CreateType DEF WorkType, TypeOK
<1>4. QED
  BY <1>2, <1>3 DEF OpenUpload

LEMMA RemoveType ==
    ASSUME TypeOK, NEW s \in Sessions, NEW n \in Names, Remove(s, n)
    PROVE  /\ WorkType'
           /\ dir' \in [Names -> Inodes \cup {NoInode}]
           /\ isDir' \subseteq Inodes
           /\ content' \in [Inodes -> Seq(Chunks)]
           /\ touched' \in [Sessions -> SUBSET Names]
<1>1. [dir EXCEPT ![n] = NoInode] \in [Names -> Inodes \cup {NoInode}]
  BY DEF TypeOK
<1>2. QED
  BY <1>1, RebindType, ReclaimType DEF Remove, WorkType, TypeOK, workVars

LEMMA TypeStep ==
    ASSUME TypeOK, NEW s \in Sessions, HasName(s), FileOpen(s), Step(s)
    PROVE  TypeOK'
<1> USE DEF fsVars, workVars
<1>1. CASE Refused(s)
  BY <1>1, StartsType DEF Refused, TypeOK
<1>2. CASE Upload(s)
  <2>1. PICK v \in {"STOR", "APPE"}, n \in Names :
            Starts(s, v) /\ OpenUpload(s, v, n)
    BY <1>2 DEF Upload
  <2>2. v \in UploadKinds
    BY DEF UploadKinds
  <2>3. QED
    BY <2>1, <2>2, StartsType, OpenUploadType DEF TypeOK, WorkType
<1>3. CASE Stou(s)
  <2>1. PICK b \in Bases : name' = [name EXCEPT ![s] = <<b, 0>>]
    BY <1>3 DEF Stou
  <2>2. <<b, 0>> \in Names
    BY SharedFilesAssumption DEF Names
  <2>3. name' \in [Sessions -> Names \cup {NoName}]
    BY <2>1, <2>2 DEF TypeOK
  <2>4. from' \in [Sessions -> Names \cup {NoName}]
        /\ made' \in [Sessions -> Inodes \cup {NoInode}]
    BY <1>3, StartsType DEF Stou
  <2>5. QED
    BY <1>3, <2>3, <2>4 DEF Stou, TypeOK, UploadKinds
<1>4. CASE Probe(s)
  <2>1. name[s] \in Names
    BY <1>4 DEF Probe, HasName
  <2>2. CASE Bound(name[s])
    <3>1. name[s][2] < MaxSuffix
          /\ name' = [name EXCEPT ![s] = <<@[1], @[2] + 1>>]
          /\ UNCHANGED pc
      BY <1>4, <2>2 DEF Probe
    <3>2. <<name[s][1], name[s][2] + 1>> \in Names
      BY <2>1, <3>1, SharedFilesAssumption DEF Names
    <3>3. name' \in [Sessions -> Names \cup {NoName}]
      BY <3>1, <3>2 DEF TypeOK
    <3>4. QED
      BY <1>4, <3>1, <3>3 DEF Probe, TypeOK
  <2>3. CASE ~Bound(name[s])
    BY <1>4, <2>3 DEF Probe, TypeOK
  <2>4. QED
    BY <2>2, <2>3
<1>5. CASE OpenUnique(s)
  <2>1. name[s] \in Names
    BY <1>5 DEF OpenUnique, HasName
  <2>2. "STOU" \in UploadKinds
    BY DEF UploadKinds
  <2>3. QED
    BY <1>5, <2>1, <2>2, OpenUploadType DEF OpenUnique, TypeOK, WorkType
<1>6. CASE OpenUniqueFails(s)
  BY <1>6, ReturnsType DEF OpenUniqueFails, TypeOK, WorkType
<1>7. CASE WriteChunk(s)
  <2>1. fd[s] \in Inodes
    BY <1>7 DEF WriteChunk, FileOpen, TypeOK
  <2>2. /\ stored[s] + 1 \in 1..MaxChunks
        /\ stored' \in [Sessions -> 0..MaxChunks]
    BY <1>7, SharedFilesAssumption DEF WriteChunk, TypeOK
  <2>3. <<s, stored[s] + 1>> \in Chunks
    BY <2>2 DEF Chunks
  <2>4. Append(content[fd[s]], <<s, stored[s] + 1>>) \in Seq(Chunks)
    BY <2>1, <2>3, AppendChunk DEF TypeOK
  <2>5. content' \in [Inodes -> Seq(Chunks)]
    BY <1>7, <2>1, <2>4 DEF WriteChunk, TypeOK
  <2>6. QED
    BY <1>7, <2>2, <2>5 DEF WriteChunk, TypeOK
<1>8. CASE EndUpload(s)
  BY <1>8, ReturnsType, ReclaimType DEF EndUpload, TypeOK, WorkType
<1>9. CASE Retr(s)
  <2>1. PICK n \in Names : /\ Bound(n)
                           /\ fd' = [fd EXCEPT ![s] = dir[n]]
                           /\ name' = [name EXCEPT ![s] = n]
    BY <1>9 DEF Retr
  <2>2. Starts(s, "RETR")
    BY <1>9 DEF Retr
  <2>3. QED
    BY <1>9, <2>1, <2>2, StartsType DEF Retr, TypeOK
<1>10. CASE StatRetr(s)
  BY <1>10 DEF StatRetr, TypeOK
<1>11. CASE ReadChunk(s)
  <2>1. fd[s] \in Inodes
    BY <1>11 DEF ReadChunk, FileOpen, TypeOK
  <2>2. /\ sent[s] \in Seq(Chunks)
        /\ content[fd[s]] \in Seq(Chunks)
        /\ Len(sent[s]) < Len(content[fd[s]])
    BY <1>11, <2>1 DEF ReadChunk, TypeOK
  <2>3. Len(sent[s]) + 1 \in 1..Len(content[fd[s]])
    BY <2>2
  <2>4. content[fd[s]][Len(sent[s]) + 1] \in Chunks
    BY <2>2, <2>3, ElementOfSeq
  <2>5. Append(sent[s], content[fd[s]][Len(sent[s]) + 1]) \in Seq(Chunks)
    BY <2>2, <2>4, AppendChunk
  <2>6. sent' \in [Sessions -> Seq(Chunks)]
    BY <1>11, <2>5 DEF ReadChunk, TypeOK
  <2>7. QED
    BY <1>11, <2>6 DEF ReadChunk, TypeOK
<1>12. CASE EndRetr(s)
  BY <1>12, ReturnsType, ReclaimType DEF EndRetr, TypeOK, WorkType
<1>13. CASE Dele(s)
  BY <1>13, StartsType, RemoveType DEF Dele, TypeOK, WorkType
<1>14. CASE Rmd(s)
  BY <1>14, StartsType, RemoveType DEF Rmd, TypeOK, WorkType
<1>15. CASE Mkd(s)
  BY <1>15, StartsType DEF Mkd, TypeOK
<1>16. CASE MkdCall(s)
  <2>1. WorkType'
    BY <1>16, ReturnsType DEF MkdCall
  <2>2. CASE UNCHANGED <<dir, isDir, content, touched, made>>
    BY <1>16, <2>1, <2>2 DEF MkdCall, TypeOK, WorkType
  <2>3. CASE \E i \in FreeInodes :
               /\ Create(s, name[s], i)
               /\ isDir' = isDir \cup {i}
               /\ made' = [made EXCEPT ![s] = i]
    <3>1. PICK i \in FreeInodes : /\ Create(s, name[s], i)
                                  /\ isDir' = isDir \cup {i}
                                  /\ made' = [made EXCEPT ![s] = i]
      BY <2>3
    <3>2. i \in Inodes /\ name[s] \in Names
      BY <1>16 DEF FreeInodes, MkdCall, HasName
    <3>3. QED
      BY <1>16, <2>1, <3>1, <3>2, CreateType DEF MkdCall, TypeOK, WorkType
  <2>4. QED
    BY <1>16, <2>2, <2>3 DEF MkdCall
<1>17. CASE Rnfr(s)
  BY <1>17 DEF Rnfr, TypeOK
<1>18. CASE Rnto(s)
  <2>1. PICK n \in Names :
            Rebind(s, [dir EXCEPT ![from[s]] = NoInode, ![n] = dir[from[s]]])
    BY <1>18 DEF Rnto
  <2>2. from[s] \in Names
    BY <1>18 DEF Rnto, TypeOK
  <2>3. [dir EXCEPT ![from[s]] = NoInode, ![n] = dir[from[s]]]
            \in [Names -> Inodes \cup {NoInode}]
    BY <2>2 DEF TypeOK
  <2>4. QED
    BY <1>18, <2>1, <2>3, StartsType, RebindType, ReclaimType
       DEF Rnto, TypeOK, WorkType
<1>19. QED
  BY <1>1, <1>2, <1>3, <1>4, <1>5, <1>6, <1>7, <1>8, <1>9, <1>10, <1>11, <1>12,
     <1>13, <1>14, <1>15, <1>16, <1>17, <1>18 DEF Step

-----------------------------------------------------------------------------
(* Directories made.                                                       *)

LEMMA MadeStep ==
    ASSUME NEW s \in Sessions, Step(s)
    PROVE  \/ UNCHANGED made
           \/ made' = [made EXCEPT ![s] = NoInode]
           \/ \E i \in Inodes : /\ \A t \in Sessions : made[t] # i
                                /\ made' = [made EXCEPT ![s] = i]
BY DEF Step, Refused, Upload, Stou, Probe, OpenUnique, OpenUniqueFails,
   WriteChunk, EndUpload, Retr, StatRetr, ReadChunk, EndRetr, Dele, Rmd, Mkd,
   MkdCall, Rnfr, Rnto, Starts, FreeInodes

LEMMA OneMakerStep ==
    ASSUME TypeOK, MkdHasOneMaker, NEW s \in Sessions, Step(s)
    PROVE  MkdHasOneMaker'
<1> SUFFICES ASSUME NEW u \in Sessions, NEW t \in Sessions, u # t,
                    made'[u] # NoInode
             PROVE  made'[u] # made'[t]
  BY DEF MkdHasOneMaker
<1>1. made[u] # NoInode => made[u] # made[t]
  BY DEF MkdHasOneMaker
<1>2. CASE UNCHANGED made
  BY <1>1, <1>2
<1>3. CASE made' = [made EXCEPT ![s] = NoInode]
  BY <1>1, <1>3 DEF TypeOK
<1>4. ASSUME NEW i \in Inodes, \A w \in Sessions : made[w] # i,
             made' = [made EXCEPT ![s] = i]
      PROVE  made'[u] # made'[t]
  BY <1>1, <1>4 DEF TypeOK
<1>5. QED
  BY <1>2, <1>3, <1>4, MadeStep

-----------------------------------------------------------------------------
(* What a step of session s does to another session.                       *)

LEMMA OthersLocals ==
    ASSUME TypeOK, NEW s \in Sessions, Step(s), NEW t \in Sessions, t # s
    PROVE  /\ pc'[t] = pc[t]
           /\ name'[t] = name[t]
           /\ fd'[t] = fd[t]
           /\ stored'[t] = stored[t]
           /\ sent'[t] = sent[t]
           /\ before'[t] = before[t]
           /\ cut[t] => cut'[t]
<1> USE DEF TypeOK, fsVars, workVars
<1>1. CASE Returns(s)
  BY <1>1 DEF Returns
<1>2. CASE UNCHANGED <<workVars, cut>>
  BY <1>2
<1>3. ASSUME NEW v, NEW n, OpenUpload(s, v, n)
      PROVE  /\ pc'[t] = pc[t]
             /\ name'[t] = name[t]
             /\ fd'[t] = fd[t]
             /\ stored'[t] = stored[t]
             /\ sent'[t] = sent[t]
             /\ before'[t] = before[t]
             /\ cut[t] => cut'[t]
  BY <1>3 DEF OpenUpload
<1>4. CASE Refused(s) \/ Dele(s) \/ Rmd(s) \/ Rnfr(s) \/ Rnto(s)
  BY <1>4, <1>2 DEF Refused, Dele, Rmd, Rnfr, Rnto, Remove
<1>5. CASE Upload(s) \/ OpenUnique(s)
  BY <1>5, <1>3 DEF Upload, OpenUnique
<1>6. CASE OpenUniqueFails(s) \/ EndUpload(s) \/ EndRetr(s) \/ MkdCall(s)
  BY <1>6, <1>1 DEF OpenUniqueFails, EndUpload, EndRetr, MkdCall
<1>7. CASE Stou(s) \/ Probe(s)
  BY <1>7 DEF Stou, Probe
<1>8. CASE WriteChunk(s) \/ StatRetr(s) \/ ReadChunk(s)
  BY <1>8 DEF WriteChunk, StatRetr, ReadChunk
<1>9. CASE Retr(s) \/ Mkd(s)
  BY <1>9 DEF Retr, Mkd
<1>10. QED
  BY <1>4, <1>5, <1>6, <1>7, <1>8, <1>9 DEF Step

\* A file that session t has open is truncated, and t marked, or it stays as
\* it is or gets one chunk of session s.
FileOf(s, t) ==
    \/ cut'[t]
    \/ content'[fd[t]] = content[fd[t]]
    \/ \E c \in Chunks : /\ c[1] = s
                         /\ content'[fd[t]] = Append(content[fd[t]], c)

LEMMA ReclaimKeepsOpen ==
    ASSUME TypeOK, Reclaim, NEW t \in Sessions, fd'[t] = fd[t], fd[t] \in Inodes
    PROVE  content'[fd[t]] = content[fd[t]]
BY DEF Reclaim, TypeOK

LEMMA CreateKeepsOpen ==
    ASSUME TypeOK, NEW s \in Sessions, NEW n, NEW i \in FreeInodes,
           Create(s, n, i), NEW t \in Sessions, fd[t] \in Inodes
    PROVE  content'[fd[t]] = content[fd[t]]
BY DEF Create, FreeInodes, TypeOK

LEMMA OpenUploadFile ==
    ASSUME TypeOK, NEW s \in Sessions, NEW v, NEW n \in Names,
           OpenUpload(s, v, n),
           NEW t \in Sessions, t # s, fd[t] \in Inodes
    PROVE  FileOf(s, t)
<1>1. CASE \E i \in FreeInodes : Create(s, n, i)
  BY <1>1, CreateKeepsOpen DEF FileOf
<1>2. CASE /\ Regular(n)
           /\ content' = (IF v = "APPE" THEN content
                          ELSE [content EXCEPT ![dir[n]] = <<>>])
           /\ cut' = [u \in Sessions |->
                        \/ cut[u]
                        \/ v # "APPE" /\ u # s /\ fd[u] = dir[n]]
  <2>1. CASE v # "APPE" /\ fd[t] = dir[n]
    BY <1>2, <2>1, Zenon DEF FileOf
  <2>2. CASE v = "APPE" \/ fd[t] # dir[n]
    BY <1>2, <2>2 DEF FileOf, TypeOK
  <2>3. QED
    BY <2>1, <2>2
<1>3. QED
  BY <1>1, <1>2 DEF OpenUpload

LEMMA OthersFile ==
    ASSUME TypeOK, NEW s \in Sessions, FileOpen(s), HasName(s), Step(s),
           NEW t \in Sessions, t # s, fd[t] \in Inodes
    PROVE  FileOf(s, t)
<1> USE DEF fsVars
<1>1. fd'[t] = fd[t]
  BY OthersLocals
<1>2. CASE UNCHANGED content
  BY <1>2 DEF FileOf
<1>3. CASE Reclaim
  BY <1>1, <1>3, ReclaimKeepsOpen DEF FileOf
<1>4. CASE Refused(s) \/ Rnfr(s) \/ Stou(s) \/ Probe(s) \/ OpenUniqueFails(s)
           \/ Retr(s) \/ StatRetr(s) \/ ReadChunk(s) \/ Mkd(s)
  BY <1>2, <1>4 DEF Refused, Rnfr, Stou, Probe, OpenUniqueFails, Retr, StatRetr,
     ReadChunk, Mkd
<1>5. CASE EndUpload(s) \/ EndRetr(s) \/ Dele(s) \/ Rmd(s) \/ Rnto(s)
  BY <1>3, <1>5 DEF EndUpload, EndRetr, Dele, Rmd, Remove, Rnto
<1>6. CASE Upload(s)
  BY <1>6, OpenUploadFile DEF Upload
<1>7. CASE OpenUnique(s)
  BY <1>7, OpenUploadFile DEF OpenUnique, HasName
<1>8. CASE WriteChunk(s)
  <2>1. <<s, stored[s] + 1>> \in Chunks
    <3>1. stored[s] + 1 \in 1..MaxChunks
      BY <1>8, SharedFilesAssumption DEF WriteChunk, TypeOK
    <3>2. QED
      BY <3>1 DEF Chunks
  <2>2. <<s, stored[s] + 1>>[1] = s
    OBVIOUS
  <2>3. content' = [content EXCEPT ![fd[s]] =
                        Append(content[fd[s]], <<s, stored[s] + 1>>)]
    BY <1>8 DEF WriteChunk, TypeOK
  <2>4. CASE fd[t] = fd[s]
    BY <2>1, <2>2, <2>3, <2>4 DEF FileOf, TypeOK
  <2>5. CASE fd[t] # fd[s]
    BY <2>3, <2>5 DEF FileOf, TypeOK
  <2>6. QED
    BY <2>4, <2>5
<1>9. CASE MkdCall(s)
  BY <1>9, <1>2, CreateKeepsOpen DEF MkdCall, FileOf
<1>10. QED
  BY <1>4, <1>5, <1>6, <1>7, <1>8, <1>9 DEF Step

\* While t looks for a name, touched records what s rebinds.
LEMMA OthersTouched ==
    ASSUME TypeOK, NEW s \in Sessions, Step(s), NEW t \in Sessions, t # s,
           pc[t] = "create"
    PROVE  \A n \in Names :
               n \in touched[t] \/ dir'[n] # dir[n] => n \in touched'[t]
<1> USE DEF fsVars, TypeOK
<1>1. CASE UNCHANGED dir /\ touched'[t] = touched[t]
  BY <1>1
<1>2. ASSUME NEW d, Rebind(s, d)
      PROVE  \A n \in Names :
                 n \in touched[t] \/ dir'[n] # dir[n] => n \in touched'[t]
  BY <1>2 DEF Rebind
<1>3. CASE Refused(s) \/ Rnfr(s) \/ Stou(s) \/ Probe(s) \/ OpenUniqueFails(s)
           \/ Retr(s) \/ StatRetr(s) \/ ReadChunk(s) \/ Mkd(s) \/ WriteChunk(s)
           \/ EndUpload(s) \/ EndRetr(s)
  BY <1>1, <1>3 DEF Refused, Rnfr, Stou, Probe, OpenUniqueFails, Retr, StatRetr,
     ReadChunk, Mkd, WriteChunk, EndUpload, EndRetr
<1>4. CASE Upload(s) \/ OpenUnique(s)
  BY <1>1, <1>2, <1>4 DEF Upload, OpenUnique, OpenUpload, Create
<1>5. CASE Dele(s) \/ Rmd(s) \/ Rnto(s)
  BY <1>2, <1>5 DEF Dele, Rmd, Remove, Rnto
<1>6. CASE MkdCall(s)
  BY <1>1, <1>2, <1>6 DEF MkdCall, Create
<1>7. QED
  BY <1>3, <1>4, <1>5, <1>6 DEF Step

\* A chunk that another session appends does not disturb an upload.
LEMMA ForeignChunk ==
    ASSUME TypeOK, NEW s \in Sessions, NEW t \in Sessions, t # s,
           KeepsUpload(t), Numbered(t), fd[t] \in Inodes,
           NEW c \in Chunks, c[1] = s,
           content'[fd[t]] = Append(content[fd[t]], c),
           fd'[t] = fd[t], before'[t] = before[t], stored'[t] = stored[t]
    PROVE  KeepsUpload(t)' /\ Numbered(t)'
<1> DEFINE f == content[fd[t]]
           g == Append(f, c)
           b == Len(before[t])
<1>1. /\ f \in Seq(Chunks)
      /\ before[t] \in Seq(Chunks)
  BY DEF TypeOK
<1>2. /\ Len(f) \in Nat /\ b \in Nat
      /\ Len(g) = Len(f) + 1
      /\ \A j \in 1..Len(f) : g[j] = f[j]
      /\ g[Len(f) + 1] = c
  BY <1>1, AppendChunk
<1> HIDE DEF f, g, b
<1>3. /\ b <= Len(f)
      /\ \A j \in 1..b : f[j] = before[t][j]
      /\ \A k \in 1..stored[t] : \E j \in (b + 1)..Len(f) : f[j] = <<t, k>>
      /\ \A j, k \in (b + 1)..Len(f) :
             j < k /\ f[j][1] = t /\ f[k][1] = t => f[j][2] < f[k][2]
      /\ \A j \in (b + 1)..Len(f) : f[j][1] = t => f[j][2] <= stored[t]
  BY DEF KeepsUpload, Numbered, f, b
<1>4. /\ b <= Len(g)
      /\ \A j \in 1..b : g[j] = before[t][j]
  BY <1>2, <1>3
<1>5. \A k \in 1..stored[t] : \E j \in (b + 1)..Len(g) : g[j] = <<t, k>>
  <2> TAKE k \in 1..stored[t]
  <2>1. PICK j \in (b + 1)..Len(f) : f[j] = <<t, k>>
    BY <1>3
  <2>2. j \in (b + 1)..Len(g) /\ g[j] = <<t, k>>
    BY <1>2, <2>1
  <2>3. QED
    BY <2>2
<1>6. ASSUME NEW j \in (b + 1)..Len(g), g[j][1] = t
      PROVE  j \in (b + 1)..Len(f) /\ g[j] = f[j]
  <2>1. j # Len(f) + 1  BY <1>2, <1>6
  <2>2. j \in (b + 1)..Len(f)  BY <1>2, <1>6, <2>1
  <2>3. j \in 1..Len(f)  BY <1>2, <2>2
  <2> QED  BY <1>2, <2>2, <2>3
<1>7. ASSUME NEW j \in (b + 1)..Len(g), NEW k \in (b + 1)..Len(g),
             j < k, g[j][1] = t, g[k][1] = t
      PROVE  g[j][2] < g[k][2]
  <2>1. j \in (b + 1)..Len(f) /\ g[j] = f[j]  BY <1>6, <1>7
  <2>2. k \in (b + 1)..Len(f) /\ g[k] = f[k]  BY <1>6, <1>7
  <2> QED  BY <1>3, <1>7, <2>1, <2>2
<1>8. ASSUME NEW j \in (b + 1)..Len(g), g[j][1] = t
      PROVE  g[j][2] <= stored[t]
  <2>1. j \in (b + 1)..Len(f) /\ g[j] = f[j]  BY <1>6, <1>8
  <2> QED  BY <1>3, <1>8, <2>1
<1>9. content'[fd'[t]] = g
  BY DEF g, f
<1>10. QED
  BY <1>4, <1>5, <1>7, <1>8, <1>9 DEF KeepsUpload, Numbered, b

LEMMA ForeignChunkSent ==
    ASSUME TypeOK, NEW t \in Sessions, SendsOpenFile(t), fd[t] \in Inodes,
           NEW c \in Chunks,
           content'[fd[t]] = Append(content[fd[t]], c),
           fd'[t] = fd[t], sent'[t] = sent[t]
    PROVE  SendsOpenFile(t)'
<1>1. content[fd[t]] \in Seq(Chunks) /\ sent[t] \in Seq(Chunks)
  BY DEF TypeOK
<1>2. /\ Len(sent[t]) <= Len(content[fd[t]]) + 1
      /\ \A j \in 1..Len(sent[t]) : j \in 1..Len(content[fd[t]])
  BY <1>1 DEF SendsOpenFile
<1>3. QED
  BY <1>1, <1>2, AppendChunk DEF SendsOpenFile

LEMMA OthersStep ==
    ASSUME TypeOK, NEW s \in Sessions, SessionInv(s), Step(s),
           NEW t \in Sessions, t # s, SessionInv(t)
    PROVE  SessionInv(t)'
<1>1. /\ pc'[t] = pc[t]
      /\ name'[t] = name[t]
      /\ fd'[t] = fd[t]
      /\ stored'[t] = stored[t]
      /\ sent'[t] = sent[t]
      /\ before'[t] = before[t]
      /\ cut[t] => cut'[t]
  BY OthersLocals
<1>2. FileOpen(t)' /\ HasName(t)' /\ CleanStart(t)'
  BY <1>1 DEF SessionInv, FileOpen, HasName, CleanStart
<1>3. FreeOrTouched(t)'
  <2> SUFFICES ASSUME pc'[t] = "create", dir'[name[t]] # NoInode
               PROVE  name[t] \in touched'[t]
    BY <1>1 DEF FreeOrTouched, Bound
  <2>1. pc[t] = "create" /\ name[t] \in Names
    BY <1>1 DEF SessionInv, HasName
  <2>2. name[t] \in touched[t] \/ dir'[name[t]] # dir[name[t]]
    BY <2>1 DEF SessionInv, FreeOrTouched, Bound
  <2>3. QED
    BY <2>1, <2>2, OthersTouched
<1>4. pc[t] \in {"receive", "send"} => fd[t] \in Inodes /\ FileOf(s, t)
  BY OthersFile DEF SessionInv, FileOpen, TypeOK
<1>5. ASSUME pc'[t] = "receive", ~cut'[t]
      PROVE  KeepsUpload(t)' /\ Numbered(t)'
  <2>1. KeepsUpload(t) /\ Numbered(t) /\ fd[t] \in Inodes /\ FileOf(s, t)
    BY <1>1, <1>4, <1>5 DEF SessionInv
  <2>2. CASE content'[fd[t]] = content[fd[t]]
    <3>1. /\ content'[fd'[t]] = content[fd[t]]
          /\ before'[t] = before[t]
          /\ stored'[t] = stored[t]
      BY <1>1, <2>2
    <3>2. QED
      BY <2>1, <3>1, Zenon DEF KeepsUpload, Numbered
  <2>3. CASE \E c \in Chunks : /\ c[1] = s
                               /\ content'[fd[t]] = Append(content[fd[t]], c)
    BY <1>1, <2>1, <2>3, ForeignChunk
  <2>4. QED
    BY <1>5, <2>1, <2>2, <2>3 DEF FileOf
<1>6. ASSUME pc'[t] = "send", ~cut'[t]
      PROVE  SendsOpenFile(t)'
  <2>1. SendsOpenFile(t) /\ fd[t] \in Inodes /\ FileOf(s, t)
    BY <1>1, <1>4, <1>6 DEF SessionInv
  <2>2. CASE content'[fd[t]] = content[fd[t]]
    BY <1>1, <2>1, <2>2 DEF SendsOpenFile
  <2>3. CASE \E c \in Chunks : content'[fd[t]] = Append(content[fd[t]], c)
    BY <1>1, <2>1, <2>3, ForeignChunkSent
  <2>4. QED
    BY <1>6, <2>1, <2>2, <2>3 DEF FileOf
<1>7. QED
  BY <1>2, <1>3, <1>5, <1>6 DEF SessionInv

-----------------------------------------------------------------------------
(* What a step of session s does to itself.                                *)

\* Nothing is asked of a session between two commands but that its handler has
\* left nothing behind.
LEMMA AtCommand ==
    ASSUME TypeOK', NEW s \in Sessions,
           pc'[s] = "command", fd'[s] = NoInode,
           stored'[s] = 0, before'[s] = <<>>, sent'[s] = <<>>
    PROVE  SessionInv(s)'
BY DEF SessionInv, FileOpen, HasName, CleanStart, FreeOrTouched

\* An upload starts with the file as it has opened it.
LEMMA OpenUploadOwn ==
    ASSUME TypeOK, NEW s \in Sessions, NEW v \in UploadKinds, NEW n \in Names,
           CleanStart(s), pc[s] # "receive", pc[s] # "send",
           OpenUpload(s, v, n)
    PROVE  SessionInv(s)'
<1>1. stored[s] = 0 /\ before[s] = <<>> /\ sent[s] = <<>>
  BY DEF CleanStart
<1>2. /\ pc'[s] = "receive"
      /\ stored'[s] = 0
      /\ sent'[s] = <<>>
      /\ name'[s] \in Names
  BY <1>1 DEF OpenUpload, TypeOK
<1>3. fd'[s] \in Inodes /\ content'[fd'[s]] = before'[s]
  <2>1. CASE Regular(n) /\ fd' = [fd EXCEPT ![s] = dir[n]]
             /\ before' = [before EXCEPT ![s] = content'[dir[n]]]
    BY <2>1 DEF Regular, Bound, TypeOK
  <2>2. ASSUME NEW i \in FreeInodes, Create(s, n, i),
               fd' = [fd EXCEPT ![s] = i], UNCHANGED before
        PROVE  fd'[s] \in Inodes /\ content'[fd'[s]] = before'[s]
    BY <1>1, <2>2 DEF Create, FreeInodes, TypeOK
  <2>3. QED
    BY <2>1, <2>2 DEF OpenUpload
<1>4. before'[s] \in Seq(Chunks)
  BY OpenUploadType DEF WorkType
<1>5. KeepsUpload(s)' /\ Numbered(s)'
  BY <1>2, <1>3, <1>4 DEF KeepsUpload, Numbered
<1>6. QED
  BY <1>2, <1>3, <1>5, SharedFilesAssumption
     DEF SessionInv, FileOpen, HasName, CleanStart, FreeOrTouched

\* A chunk of its own has the next number.
LEMMA WriteChunkOwn ==
    ASSUME TypeOK, NEW s \in Sessions, KeepsUpload(s), Numbered(s),
           fd[s] \in Inodes, WriteChunk(s)
    PROVE  KeepsUpload(s)' /\ Numbered(s)'
<1> DEFINE f == content[fd[s]]
           n == stored[s] + 1
           g == Append(f, <<s, n>>)
           b == Len(before[s])
<1>1. /\ f \in Seq(Chunks)
      /\ before[s] \in Seq(Chunks)
      /\ stored[s] \in Nat /\ n \in 1..MaxChunks
  BY SharedFilesAssumption DEF TypeOK, WriteChunk
<1>2. <<s, n>> \in Chunks
  BY <1>1 DEF Chunks
<1>3. /\ Len(f) \in Nat /\ b \in Nat
      /\ Len(g) = Len(f) + 1
      /\ \A j \in 1..Len(f) : g[j] = f[j]
      /\ g[Len(f) + 1] = <<s, n>>
  BY <1>1, <1>2, AppendChunk
<1>4. /\ content'[fd'[s]] = g
      /\ stored'[s] = n
      /\ before'[s] = before[s]
  BY DEF WriteChunk, TypeOK
<1>5. /\ b <= Len(f)
      /\ \A j \in 1..b : f[j] = before[s][j]
      /\ \A k \in 1..stored[s] : \E j \in (b + 1)..Len(f) : f[j] = <<s, k>>
      /\ \A j, k \in (b + 1)..Len(f) :
             j < k /\ f[j][1] = s /\ f[k][1] = s => f[j][2] < f[k][2]
      /\ \A j \in (b + 1)..Len(f) : f[j][1] = s => f[j][2] <= stored[s]
  BY DEF KeepsUpload, Numbered
<1>6. \A j \in (b + 1)..Len(f) : f[j][2] \in Nat
  <2> TAKE j \in (b + 1)..Len(f)
  <2>1. f[j] \in Chunks
    BY <1>1, <1>3, ElementOfSeq
  <2>2. QED
    BY <2>1, SharedFilesAssumption DEF Chunks
<1> HIDE DEF f, g, b, n
<1>7. /\ b <= Len(g)
      /\ \A j \in 1..b : g[j] = before[s][j]
  BY <1>3, <1>5
<1>8. \A k \in 1..n : \E j \in (b + 1)..Len(g) : g[j] = <<s, k>>
  <2> TAKE k \in 1..n
  <2>1. CASE k = n
    <3>1. Len(f) + 1 \in (b + 1)..Len(g)
      BY <1>3, <1>5
    <3>2. QED
      BY <1>3, <2>1, <3>1
  <2>2. CASE k # n
    <3>1. k \in 1..stored[s]
      BY <1>1, <2>2 DEF n
    <3>2. PICK j \in (b + 1)..Len(f) : f[j] = <<s, k>>
      BY <1>5, <3>1
    <3>3. j \in (b + 1)..Len(g) /\ g[j] = <<s, k>>
      BY <1>3, <3>2
    <3>4. QED
      BY <3>3
  <2>3. QED
    BY <2>1, <2>2
<1>9. \A j \in (b + 1)..Len(g) :
          \/ j \in (b + 1)..Len(f) /\ g[j] = f[j]
          \/ j = Len(f) + 1 /\ g[j] = <<s, n>>
  BY <1>3
<1>10. \A j \in (b + 1)..Len(f) : f[j][1] = s => f[j][2] < n
  BY <1>1, <1>5, <1>6 DEF n
<1>11. /\ <<s, n>>[1] = s
       /\ <<s, n>>[2] = n
  OBVIOUS
<1>12. \A j, k \in (b + 1)..Len(g) :
          j < k /\ g[j][1] = s /\ g[k][1] = s => g[j][2] < g[k][2]
  <2> SUFFICES ASSUME NEW j \in (b + 1)..Len(g), NEW k \in (b + 1)..Len(g),
                      j < k, g[j][1] = s, g[k][1] = s
               PROVE  g[j][2] < g[k][2]
    OBVIOUS
  <2>1. j \in (b + 1)..Len(f) /\ g[j] = f[j]
    BY <1>3, <1>9
  <2>2. CASE k \in (b + 1)..Len(f) /\ g[k] = f[k]
    BY <1>5, <2>1, <2>2
  <2>3. CASE k = Len(f) + 1 /\ g[k] = <<s, n>>
    BY <1>10, <1>11, <2>1, <2>3
  <2>4. QED
    BY <1>9, <2>2, <2>3
<1>13. \A j \in (b + 1)..Len(g) : g[j][1] = s => g[j][2] <= n
  <2> SUFFICES ASSUME NEW j \in (b + 1)..Len(g), g[j][1] = s
               PROVE  g[j][2] <= n
    OBVIOUS
  <2>1. n \in Nat
    BY <1>1 DEF n
  <2>2. CASE j \in (b + 1)..Len(f) /\ g[j] = f[j]
    BY <1>6, <1>10, <2>1, <2>2
  <2>3. CASE j = Len(f) + 1 /\ g[j] = <<s, n>>
    BY <1>11, <2>1, <2>3
  <2>4. QED
    BY <1>9, <2>2, <2>3
<1>14. QED
  BY <1>4, <1>7, <1>8, <1>12, <1>13 DEF KeepsUpload, Numbered, b

LEMMA ReadChunkOwn ==
    ASSUME TypeOK, NEW s \in Sessions, SendsOpenFile(s), fd[s] \in Inodes,
           ReadChunk(s)
    PROVE  SendsOpenFile(s)'
<1> DEFINE f == content[fd[s]]
           q == sent[s]
           c == f[Len(q) + 1]
<1>1. f \in Seq(Chunks) /\ q \in Seq(Chunks) /\ Len(q) < Len(f)
  BY DEF TypeOK, ReadChunk
<1>2. c \in Chunks
  BY <1>1, ElementOfSeq
<1>3. /\ Len(Append(q, c)) = Len(q) + 1
      /\ \A j \in 1..Len(q) : Append(q, c)[j] = q[j]
      /\ Append(q, c)[Len(q) + 1] = c
  BY <1>1, <1>2, AppendChunk
<1>4. /\ sent'[s] = Append(q, c)
      /\ content'[fd'[s]] = f
  BY DEF TypeOK, ReadChunk, fsVars
<1>5. \A j \in 1..Len(q) : q[j] = f[j]
  BY DEF SendsOpenFile
<1>6. \A j \in 1..(Len(q) + 1) : j \in 1..Len(q) \/ j = Len(q) + 1
  BY <1>1
<1>7. Len(q) + 1 <= Len(f)
  BY <1>1
<1> HIDE DEF f, q
<1>8. QED
  BY <1>3, <1>4, <1>5, <1>6, <1>7 DEF SendsOpenFile

LEMMA OwnStep ==
    ASSUME TypeOK, TypeOK', NEW s \in Sessions, SessionInv(s), Step(s)
    PROVE  SessionInv(s)'
<1> USE DEF fsVars, workVars
<1>1. pc[s] = "command" => /\ fd[s] = NoInode /\ stored[s] = 0
                           /\ before[s] = <<>> /\ sent[s] = <<>>
  BY DEF SessionInv, FileOpen, CleanStart
<1>2. CASE Returns(s)
  BY <1>2, AtCommand DEF Returns, TypeOK
<1>3. CASE pc[s] = "command" /\ UNCHANGED workVars
  BY <1>1, <1>3, AtCommand
<1>4. CASE Refused(s) \/ Dele(s) \/ Rmd(s) \/ Rnfr(s) \/ Rnto(s)
  BY <1>3, <1>4 DEF Refused, Dele, Rmd, Rnfr, Rnto, Remove, Starts
<1>5. CASE OpenUniqueFails(s) \/ EndUpload(s) \/ EndRetr(s) \/ MkdCall(s)
  BY <1>2, <1>5 DEF OpenUniqueFails, EndUpload, EndRetr, MkdCall
<1>6. CASE Upload(s)
  <2>1. PICK v \in {"STOR", "APPE"}, n \in Names :
            Starts(s, v) /\ OpenUpload(s, v, n)
    BY <1>6 DEF Upload
  <2>2. v \in UploadKinds /\ pc[s] = "command" /\ CleanStart(s)
    BY <2>1 DEF UploadKinds, Starts, SessionInv
  <2>3. QED
    BY <2>1, <2>2, OpenUploadOwn
<1>7. CASE OpenUnique(s)
  <2>1. /\ pc[s] = "create" /\ CleanStart(s) /\ name[s] \in Names
        /\ OpenUpload(s, "STOU", name[s]) /\ "STOU" \in UploadKinds
    BY <1>7 DEF OpenUnique, SessionInv, HasName, UploadKinds
  <2>2. QED
    BY <2>1, OpenUploadOwn
<1>8. CASE Stou(s)
  <2>1. /\ pc[s] = "command" /\ pc'[s] = "probe"
        /\ name'[s] \in Names
        /\ fd'[s] = fd[s] /\ stored'[s] = stored[s]
        /\ before'[s] = before[s] /\ sent'[s] = sent[s]
    BY <1>8, SharedFilesAssumption DEF Stou, Starts, TypeOK, Names
  <2>2. QED
    BY <1>1, <2>1
       DEF SessionInv, FileOpen, HasName, CleanStart, FreeOrTouched
<1>9. CASE Probe(s)
  <2>1. /\ pc[s] = "probe" /\ pc'[s] \in {"probe", "create"}
        /\ dir' = dir
        /\ fd'[s] = fd[s] /\ stored'[s] = stored[s]
        /\ before'[s] = before[s] /\ sent'[s] = sent[s]
    BY <1>9 DEF Probe, TypeOK
  <2>2. pc'[s] = "create" => dir[name'[s]] = NoInode
    BY <1>9 DEF Probe, TypeOK, Bound
  <2>3. name'[s] \in Names
    <3>1. name[s] \in Names
      BY <2>1 DEF SessionInv, HasName
    <3>2. CASE name' = name
      BY <3>1, <3>2
    <3>3. CASE /\ name[s][2] < MaxSuffix
               /\ name' = [name EXCEPT ![s] = <<@[1], @[2] + 1>>]
      <4>1. <<name[s][1], name[s][2] + 1>> \in Names
        BY <3>1, <3>3, SharedFilesAssumption DEF Names
      <4>2. QED
        BY <3>3, <4>1 DEF TypeOK
    <3>4. QED
      BY <1>9, <3>2, <3>3 DEF Probe
  <2>4. QED
    BY <2>1, <2>2, <2>3
       DEF SessionInv, FileOpen, HasName, CleanStart, FreeOrTouched, Bound
<1>10. CASE WriteChunk(s)
  <2>1. /\ pc[s] = "receive" /\ pc'[s] = pc[s] /\ fd'[s] = fd[s]
        /\ sent'[s] = sent[s] /\ cut'[s] = cut[s]
    BY <1>10 DEF WriteChunk
  <2>2. fd[s] \in Inodes
    BY <2>1 DEF SessionInv, FileOpen, TypeOK
  <2>3. ~cut'[s] => KeepsUpload(s)' /\ Numbered(s)'
    BY <1>10, <2>1, <2>2, WriteChunkOwn DEF SessionInv
  <2>4. QED
    BY <2>1, <2>3 DEF SessionInv, FileOpen, HasName, CleanStart, FreeOrTouched
<1>11. CASE Retr(s)
  <2>1. PICK n \in Names : /\ Bound(n)
                           /\ fd' = [fd EXCEPT ![s] = dir[n]]
                           /\ name' = [name EXCEPT ![s] = n]
    BY <1>11 DEF Retr
  <2>2. /\ pc[s] = "command" /\ pc'[s] = "stat"
        /\ fd'[s] # NoInode /\ name'[s] \in Names
        /\ stored'[s] = stored[s]
        /\ before'[s] = before[s] /\ sent'[s] = sent[s]
    BY <1>11, <2>1 DEF Retr, Starts, Bound, TypeOK
  <2>3. QED
    BY <1>1, <2>2
       DEF SessionInv, FileOpen, HasName, CleanStart, FreeOrTouched
<1>12. CASE StatRetr(s)
  <2>1. /\ pc[s] = "stat" /\ pc'[s] = "send"
        /\ fd'[s] = fd[s] /\ content' = content
        /\ stored'[s] = stored[s]
        /\ before'[s] = before[s] /\ sent'[s] = sent[s]
    BY <1>12 DEF StatRetr, TypeOK
  <2>2. fd[s] \in Inodes /\ sent[s] = <<>>
    BY <2>1 DEF SessionInv, FileOpen, CleanStart, TypeOK
  <2>3. SendsOpenFile(s)'
    BY <2>1, <2>2, EmptySeqFacts DEF SendsOpenFile, TypeOK
  <2>4. QED
    BY <2>1, <2>3
       DEF SessionInv, FileOpen, HasName, CleanStart, FreeOrTouched
<1>13. CASE ReadChunk(s)
  <2>1. /\ pc[s] = "send" /\ pc'[s] = pc[s] /\ fd'[s] = fd[s]
        /\ stored'[s] = stored[s] /\ before'[s] = before[s]
        /\ cut'[s] = cut[s]
    BY <1>13 DEF ReadChunk
  <2>2. fd[s] \in Inodes
    BY <2>1 DEF SessionInv, FileOpen, TypeOK
  <2>3. ~cut'[s] => SendsOpenFile(s)'
    BY <1>13, <2>1, <2>2, ReadChunkOwn DEF SessionInv
  <2>4. QED
    BY <2>1, <2>3 DEF SessionInv, FileOpen, HasName, CleanStart, FreeOrTouched
<1>14. CASE Mkd(s)
  <2>1. /\ pc[s] = "command" /\ pc'[s] = "mkdir"
        /\ name'[s] \in Names
        /\ fd'[s] = fd[s] /\ stored'[s] = stored[s]
        /\ before'[s] = before[s] /\ sent'[s] = sent[s]
    BY <1>14 DEF Mkd, Starts, TypeOK
  <2>2. QED
    BY <1>1, <2>1
       DEF SessionInv, FileOpen, HasName, CleanStart, FreeOrTouched
<1>15. QED
  BY <1>4, <1>5, <1>6, <1>7, <1>8, <1>9, <1>10, <1>11, <1>12, <1>13, <1>14
     DEF Step

-----------------------------------------------------------------------------
(* The theorems.                                                           *)

LEMMA FilesInit == Init => FilesInv
<1> SUFFICES ASSUME Init PROVE FilesInv
  OBVIOUS
<1>1. TypeOK
  BY EmptySeqFacts, SharedFilesAssumption DEF Init, TypeOK
<1>2. MkdHasOneMaker
  BY DEF Init, MkdHasOneMaker
<1>3. \A s \in Sessions : SessionInv(s)
  BY DEF Init, SessionInv, FileOpen, HasName, CleanStart, FreeOrTouched
<1>4. QED
  BY <1>1, <1>2, <1>3 DEF FilesInv

LEMMA FilesStutter == FilesInv /\ UNCHANGED vars => FilesInv'
<1> SUFFICES ASSUME FilesInv, UNCHANGED vars PROVE FilesInv'
  OBVIOUS
<1> USE DEF vars, fsVars, workVars
<1>1. TypeOK' /\ MkdHasOneMaker'
  BY DEF FilesInv, TypeOK, MkdHasOneMaker
<1>2. ASSUME NEW s \in Sessions PROVE SessionInv(s)'
  <2>1. SessionInv(s)
    BY DEF FilesInv
  <2>2. /\ pc' = pc /\ fd' = fd /\ name' = name /\ dir' = dir
        /\ touched' = touched /\ cut' = cut
        /\ stored' = stored /\ before' = before /\ sent' = sent
        /\ content' = content
    OBVIOUS
  <2>3. /\ KeepsUpload(s) <=> KeepsUpload(s)'
        /\ Numbered(s) <=> Numbered(s)'
        /\ SendsOpenFile(s) <=> SendsOpenFile(s)'
    BY <2>2, Zenon DEF KeepsUpload, Numbered, SendsOpenFile
  <2>4. FileOpen(s)' /\ HasName(s)' /\ CleanStart(s)' /\ FreeOrTouched(s)'
    BY <2>1, <2>2 DEF SessionInv, FileOpen, HasName, CleanStart, FreeOrTouched,
       Bound
  <2>5. QED
    BY <2>1, <2>2, <2>3, <2>4 DEF SessionInv
<1>3. QED
  BY <1>1, <1>2 DEF FilesInv

LEMMA FilesStep == FilesInv /\ [Next]_vars => FilesInv'
<1>1. CASE UNCHANGED vars
  BY <1>1, FilesStutter
<1>2. ASSUME FilesInv, NEW s \in Sessions, Step(s)
      PROVE  FilesInv'
  <2>1. TypeOK /\ MkdHasOneMaker /\ SessionInv(s)
    BY <1>2 DEF FilesInv
  <2>2. TypeOK'
    BY <1>2, <2>1, TypeStep DEF SessionInv
  <2>3. MkdHasOneMaker'
    BY <1>2, <2>1, OneMakerStep
  <2>4. SessionInv(s)'
    BY <1>2, <2>1, <2>2, OwnStep
  <2>5. ASSUME NEW t \in Sessions, t # s PROVE SessionInv(t)'
    <3>1. SessionInv(t)
      BY <1>2 DEF FilesInv
    <3>2. QED
      BY <1>2, <2>1, <2>5, <3>1, OthersStep
  <2>6. QED
    BY <2>2, <2>3, <2>4, <2>5 DEF FilesInv
<1>3. QED
  BY <1>1, <1>2 DEF Next

\* FilesInv holds in every state, whatever the sessions do to one directory.
THEOREM FilesAlways == Spec => []FilesInv
BY FilesInit, FilesStep, PTL DEF Spec

\* Names, inodes, descriptors and contents keep their types, however the calls
\* of the sessions interleave.
THEOREM FilesTypeCorrect == Spec => []TypeOK
<1>1. FilesInv => TypeOK
  BY DEF FilesInv
<1>2. QED
  BY <1>1, FilesAlways, PTL

\* An upload keeps what the file held and what it has written, unless another
\* session truncates the file: uploads are opened with APR_FOPEN_APPEND.
THEOREM UploadsKeptAlways == Spec => []UploadsKept
<1>1. FilesInv => UploadsKept
  BY DEF FilesInv, SessionInv, UploadsKept
<1>2. QED
  BY <1>1, FilesAlways, PTL

\* A RETR sends the beginning of the file that it has opened, unless another
\* session truncates that: handle_retr reads through its descriptor.
THEOREM RetrSendsOneFileAlways == Spec => []RetrSendsOneFile
<1>1. FilesInv => RetrSendsOneFile
  BY DEF FilesInv, SessionInv, RetrSendsOneFile
<1>2. QED
  BY <1>1, FilesAlways, PTL

\* No two sessions are told to have made the same directory: handle_dir_create
\* looks at the result of lkl_dir_make, and not only at that of its lkl_stat.
THEOREM MkdHasOneMakerAlways == Spec => []MkdHasOneMaker
<1>1. FilesInv => MkdHasOneMaker
  BY DEF FilesInv
<1>2. QED
  BY <1>1, FilesAlways, PTL

\* STOU truncates no file that had its name since the command began.
THEOREM StouSparesOldFilesAlways == Spec => StouSparesOldFiles
<1>1. FilesInv /\ [Next]_vars =>
          [\A s \in Sessions :
              pc[s] = "create" /\ pc'[s] = "receive" /\ Bound(name[s])
                  => name[s] \in touched[s]]_vars
  BY DEF FilesInv, SessionInv, FreeOrTouched
<1>2. QED
  BY <1>1, FilesAlways, PTL DEF Spec, StouSparesOldFiles
=============================================================================
