-------------------------- MODULE FtpSessionProofs --------------------------
(***************************************************************************)
(* Machine-checked safety of FtpSession, for every set of sessions, paths  *)
(* and commands, every bound on the chunks and both builds.                *)
(***************************************************************************)
EXTENDS FtpSession, TLAPS

\* What the only-answering handlers say is among the codes.
LEMMA PlainCodes == \A v \in Plain : PlainReplies[v] \subseteq Codes
BY DEF Codes

\* The codes that the handlers name are among the codes.
LEMMA NamedCodes == HandlerCodes \subseteq Codes
BY DEF Codes

\* Updating a function at one point keeps its type.
LEMMA Update ==
    ASSUME NEW S, NEW T, NEW f \in [S -> T], NEW x \in S, NEW v \in T
    PROVE  [f EXCEPT ![x] = v] \in [S -> T]
OBVIOUS

\* Going to a place keeps pc in its type.
LEMMA GotoType ==
    ASSUME pc \in [Sessions -> Locations], NEW s \in Sessions,
           NEW where \in Locations, Goto(s, where)
    PROVE  pc' \in [Sessions -> Locations]
BY Update DEF Goto

\* Changing what the pool of one session holds keeps loopPool in its type.
LEMMA PoolType ==
    ASSUME loopPool \in [Sessions -> SUBSET {"file", "sock"}],
           NEW s \in Sessions, NEW gone, NEW come \in SUBSET {"file", "sock"},
           loopPool' = [loopPool EXCEPT ![s] = (@ \ gone) \cup come]
    PROVE  loopPool' \in [Sessions -> SUBSET {"file", "sock"}]
<1>1. (loopPool[s] \ gone) \cup come \in SUBSET {"file", "sock"}  OBVIOUS
<1> QED  BY <1>1, Update

\* The pool grows by what is opened ...
LEMMA PoolGrows ==
    ASSUME loopPool \in [Sessions -> SUBSET {"file", "sock"}],
           NEW s \in Sessions, NEW come \in SUBSET {"file", "sock"},
           loopPool' = [loopPool EXCEPT ![s] = @ \cup come]
    PROVE  loopPool' \in [Sessions -> SUBSET {"file", "sock"}]
<1>1. loopPool[s] \cup come \in SUBSET {"file", "sock"}  OBVIOUS
<1> QED  BY <1>1, Update

\* ... and shrinks by what is closed.
LEMMA PoolShrinks ==
    ASSUME loopPool \in [Sessions -> SUBSET {"file", "sock"}],
           NEW s \in Sessions, NEW gone,
           loopPool' = [loopPool EXCEPT ![s] = @ \ gone]
    PROVE  loopPool' \in [Sessions -> SUBSET {"file", "sock"}]
<1>1. loopPool[s] \ gone \in SUBSET {"file", "sock"}  OBVIOUS
<1> QED  BY <1>1, Update

\* Writing a reply keeps the record of replies a sequence of codes.
LEMMA WriteType ==
    ASSUME out \in [Sessions -> Seq(Codes)], NEW s \in Sessions,
           NEW code \in Codes, Write(s, code)
    PROVE  out' \in [Sessions -> Seq(Codes)]
<1>1. Append(out[s], code) \in Seq(Codes)  OBVIOUS
<1> QED  BY <1>1, Update DEF Write

\* Returning to the command loop keeps rc and pc in their types.
LEMMA ReturnType ==
    ASSUME pc \in [Sessions -> Locations], rc \in [Sessions -> BOOLEAN],
           NEW s \in Sessions, NEW ok \in BOOLEAN, Return(s, ok)
    PROVE  pc' \in [Sessions -> Locations] /\ rc' \in [Sessions -> BOOLEAN]
<1>1. "loop" \in Locations  BY DEF Locations
<1>2. pc' \in [Sessions -> Locations]  BY <1>1, GotoType DEF Return
<1>3. rc' \in [Sessions -> BOOLEAN]  BY Update DEF Return
<1> QED  BY <1>2, <1>3

\* So does returning with the result of a write.
LEMMA ReturnWriteType ==
    ASSUME TypeOK, NEW s \in Sessions, NEW code \in Codes, ReturnWrite(s, code)
    PROVE  /\ pc' \in [Sessions -> Locations]
           /\ rc' \in [Sessions -> BOOLEAN]
           /\ out' \in [Sessions -> Seq(Codes)]
<1>1. PICK ok \in BOOLEAN : Return(s, ok)  BY DEF ReturnWrite
<1>2. Write(s, code)  BY DEF ReturnWrite
<1>3. out' \in [Sessions -> Seq(Codes)]  BY <1>2, WriteType DEF TypeOK
<1>4. /\ pc' \in [Sessions -> Locations]
      /\ rc' \in [Sessions -> BOOLEAN]
  BY <1>1, ReturnType DEF TypeOK
<1> QED  BY <1>3, <1>4

LEMMA ReturnErrorType ==
    ASSUME TypeOK, NEW s \in Sessions, NEW code \in Codes, ReturnError(s, code)
    PROVE  /\ pc' \in [Sessions -> Locations]
           /\ rc' \in [Sessions -> BOOLEAN]
           /\ out' \in [Sessions -> Seq(Codes)]
<1>1. Write(s, code) /\ Return(s, FALSE)  BY DEF ReturnError
<1>2. out' \in [Sessions -> Seq(Codes)]  BY <1>1, WriteType DEF TypeOK
<1>3. /\ pc' \in [Sessions -> Locations]
      /\ rc' \in [Sessions -> BOOLEAN]
  BY <1>1, ReturnType DEF TypeOK
<1> QED  BY <1>2, <1>3

\* Cleaning up the channel keeps its variables in their types.
LEMMA CleanupType ==
    ASSUME TypeOK, NEW s \in Sessions, CommunicationCleanup(s)
    PROVE  /\ portAddr' \in [Sessions -> BOOLEAN]
           /\ pasvFd' \in [Sessions -> BOOLEAN]
           /\ backlog' \in [Sessions -> {0, 1}]
BY DEF CommunicationCleanup, PortCleanup, PasvCleanup, TypeOK

-----------------------------------------------------------------------------
(* Type correctness, one lemma per group of actions.                       *)

LEMMA TypeThread ==
    ASSUME TypeOK, NEW s \in Sessions,
           \/ SessCreateFails(s) \/ EmitGreeting(s) \/ LoopTop(s)
           \/ EndOfStream(s) \/ EmptyLine(s) \/ SessDestroy(s) \/ ThreadExit(s)
    PROVE  TypeOK'
<1> USE DEF loopVars, chanVars, xferVars
<1>1. CASE SessCreateFails(s)
  <2>1. "exit" \in Locations  BY DEF Locations
  <2>2. pc' \in [Sessions -> Locations]
    BY <1>1, <2>1, GotoType DEF SessCreateFails, TypeOK
  <2> QED  BY <1>1, <2>2 DEF SessCreateFails, TypeOK
<1>2. CASE EmitGreeting(s)
  <2>1. 220 \in Codes  BY NamedCodes DEF HandlerCodes
  <2>2. out' \in [Sessions -> Seq(Codes)]
    BY <1>2, <2>1, WriteType DEF EmitGreeting, TypeOK
  <2>3. PICK where \in Locations : Goto(s, where)
    BY <1>2 DEF EmitGreeting, Locations
  <2>4. pc' \in [Sessions -> Locations]  BY <2>3, GotoType DEF TypeOK
  <2> QED  BY <1>2, <2>2, <2>4 DEF EmitGreeting, TypeOK
<1>3. CASE LoopTop(s)
  <2>1. PICK where \in Locations : Goto(s, where)
    <3>1. "command" \in Locations /\ "destroy" \in Locations  BY DEF Locations
    <3> QED  BY <1>3, <3>1 DEF LoopTop
  <2>2. pc' \in [Sessions -> Locations]  BY <2>1, GotoType DEF TypeOK
  <2>3. loopPool' \in [Sessions -> SUBSET {"file", "sock"}]
    <3>1. loopPool' = [loopPool EXCEPT ![s] = {}] \/ loopPool' = loopPool
      BY <1>3 DEF LoopTop
    <3>2. [loopPool EXCEPT ![s] = {}] \in [Sessions -> SUBSET {"file", "sock"}]
      <4>1. {} \in SUBSET {"file", "sock"}  OBVIOUS
      <4> QED  BY <4>1, Update DEF TypeOK
    <3>3. CASE loopPool' = [loopPool EXCEPT ![s] = {}]  BY <3>2, <3>3
    <3>4. CASE loopPool' = loopPool  BY <3>4 DEF TypeOK
    <3> QED  BY <3>1, <3>3, <3>4
  <2> QED  BY <1>3, <2>2, <2>3 DEF LoopTop, TypeOK
<1>4. CASE EndOfStream(s) \/ EmptyLine(s)
  <2>1. "destroy" \in Locations  BY DEF Locations
  <2>2. pc' \in [Sessions -> Locations]
    BY <1>4, <2>1, GotoType DEF EndOfStream, EmptyLine, TypeOK
  <2> QED  BY <1>4, <2>2 DEF EndOfStream, EmptyLine, TypeOK
<1>5. CASE SessDestroy(s)
  <2>1. "exit" \in Locations  BY DEF Locations
  <2>2. pc' \in [Sessions -> Locations]
    BY <1>5, <2>1, GotoType DEF SessDestroy, TypeOK
  <2>3. {} \in SUBSET {"file", "sock"}  OBVIOUS
  <2>4. loopPool' \in [Sessions -> SUBSET {"file", "sock"}]
    BY <1>5, <2>3, Update DEF SessDestroy, TypeOK
  <2> QED  BY <1>5, <2>2, <2>4 DEF SessDestroy, TypeOK
<1>6. CASE ThreadExit(s)
  <2>1. "exited" \in Locations  BY DEF Locations
  <2>2. pc' \in [Sessions -> Locations]
    BY <1>6, <2>1, GotoType DEF ThreadExit, TypeOK
  <2> QED  BY <1>6, <2>2, CleanupType DEF ThreadExit, TypeOK
<1> QED  BY <1>1, <1>2, <1>3, <1>4, <1>5, <1>6

LEMMA TypeReceive ==
    ASSUME TypeOK, NEW s \in Sessions, ReceiveCommand(s)
    PROVE  TypeOK'
<1>1. \A v \in Commands : v \in AllCommands  BY ConstantsAssumption
<1>2. NoData \in DataStreams
  BY ConstantsAssumption DEF NoData, DataStreams
<1>3. <<>> \in Seq(Codes)  OBVIOUS
<1>4. out' \in [Sessions -> Seq(Codes)]
  BY <1>3, Update DEF ReceiveCommand, TypeOK
<1>5. data' \in [Sessions -> DataStreams]
  BY <1>2, Update DEF ReceiveCommand, TypeOK
<1>6. verb' \in [Sessions -> AllCommands \cup {"NONE"}]
  <2>1. PICK v \in Commands : verb' = [verb EXCEPT ![s] = v]
    BY DEF ReceiveCommand
  <2>2. v \in AllCommands \cup {"NONE"}  BY <1>1
  <2> QED  BY <2>1, <2>2, Update DEF TypeOK
<1>7. arg' \in [Sessions -> Paths \cup {NoPath}]
  <2>1. PICK a \in Paths \cup {NoPath} : arg' = [arg EXCEPT ![s] = a]
    BY DEF ReceiveCommand
  <2> QED  BY <2>1, Update DEF TypeOK
<1>8. granted' \in [Sessions -> Paths \cup {NoPath}]
  <2>1. PICK a \in Paths \cup {NoPath} : granted' = [granted EXCEPT ![s] = a]
    BY DEF ReceiveCommand, TypeOK
  <2> QED  BY <2>1, Update DEF TypeOK
<1>9. status' \in [Sessions -> {0, 226, 426, 451}]
  BY Update DEF ReceiveCommand, TypeOK
<1>10. pc' \in [Sessions -> Locations]
  <2>1. "dispatch" \in Locations  BY DEF Locations
  <2> QED  BY <2>1, GotoType DEF ReceiveCommand, TypeOK
<1> QED
  BY <1>4, <1>5, <1>6, <1>7, <1>8, <1>9, <1>10
  DEF ReceiveCommand, TypeOK, chanVars

LEMMA TypeAnswers ==
    ASSUME TypeOK, NEW s \in Sessions,
           \/ HandlePlain(s) \/ HandleFeat(s) \/ HandleSite(s)
           \/ HandleSiteNull(s) \/ HandleQuit(s) \/ HandlePortNull(s)
           \/ NeitherActive(s)
    PROVE  TypeOK'
<1> USE DEF vars, loopVars, chanVars, xferVars
<1>1. CASE HandlePlain(s)
  <2>1. PICK v \in Plain : \E code \in PlainReplies[v] :
          IF v \in DropsWriteResult THEN Write(s, code) /\ Return(s, TRUE)
                                    ELSE ReturnWrite(s, code)
    BY <1>1 DEF HandlePlain
  <2>2. PICK code \in Codes :
          IF v \in DropsWriteResult THEN Write(s, code) /\ Return(s, TRUE)
                                    ELSE ReturnWrite(s, code)
    BY <2>1, PlainCodes
  <2>3. /\ pc' \in [Sessions -> Locations]
        /\ rc' \in [Sessions -> BOOLEAN]
        /\ out' \in [Sessions -> Seq(Codes)]
    <3>1. CASE ReturnWrite(s, code)  BY <3>1, ReturnWriteType
    <3>2. CASE Write(s, code) /\ Return(s, TRUE)
      BY <3>2, WriteType, ReturnType DEF TypeOK
    <3> QED  BY <2>2, <3>1, <3>2
  <2> QED  BY <1>1, <2>3 DEF HandlePlain, TypeOK
<1>2. CASE HandleFeat(s)
  <2>1. 211 \in Codes /\ 211 + FTP_MORE \in Codes
    BY NamedCodes DEF HandlerCodes
  <2>2. out[s] \o <<211 + FTP_MORE, 211>> \in Seq(Codes)  BY <2>1 DEF TypeOK
  <2>3. out' \in [Sessions -> Seq(Codes)]
    BY <1>2, <2>2, Update DEF HandleFeat, TypeOK
  <2>4. pc' \in [Sessions -> Locations] /\ rc' \in [Sessions -> BOOLEAN]
    BY <1>2, ReturnType DEF HandleFeat, TypeOK
  <2> QED  BY <1>2, <2>3, <2>4 DEF HandleFeat, TypeOK
<1>3. CASE HandleSite(s)
  <2>1. {214, 500} \subseteq Codes  BY NamedCodes DEF HandlerCodes
  <2>2. /\ pc' \in [Sessions -> Locations]
        /\ rc' \in [Sessions -> BOOLEAN]
        /\ out' \in [Sessions -> Seq(Codes)]
    <3>1. CASE Return(s, TRUE) /\ UNCHANGED out
      BY <3>1, ReturnType DEF TypeOK
    <3>2. CASE \E code \in {214, 500} : ReturnWrite(s, code)
      BY <3>2, <2>1, ReturnWriteType
    <3> QED  BY <1>3, <3>1, <3>2 DEF HandleSite
  <2> QED  BY <1>3, <2>2 DEF HandleSite, TypeOK
<1>4. CASE HandleQuit(s)
  <2>1. 221 \in Codes  BY NamedCodes DEF HandlerCodes
  <2>2. out' \in [Sessions -> Seq(Codes)]
    BY <1>4, <2>1, WriteType DEF HandleQuit, TypeOK
  <2>3. "destroy" \in Locations  BY DEF Locations
  <2>4. pc' \in [Sessions -> Locations]
    BY <1>4, <2>3, GotoType DEF HandleQuit, TypeOK
  <2> QED  BY <1>4, <2>2, <2>4 DEF HandleQuit, TypeOK
<1>5. CASE HandleSiteNull(s) \/ HandlePortNull(s) \/ NeitherActive(s)
  BY <1>5 DEF HandleSiteNull, HandlePortNull, NeitherActive, ProcessExit, TypeOK
<1> QED  BY <1>1, <1>2, <1>3, <1>4, <1>5

LEMMA TypeRename ==
    ASSUME TypeOK, NEW s \in Sessions,
           HandleRnfr(s) \/ HandleRnto(s) \/ BadSequence(s)
    PROVE  TypeOK'
<1> USE DEF chanVars, xferVars
<1>1. CASE HandleRnfr(s)
  <2>1. 350 \in Codes /\ 550 \in Codes  BY NamedCodes DEF HandlerCodes
  <2>2. PICK ok \in BOOLEAN, found \in BOOLEAN :
          /\ Return(s, ok)
          /\ IF arg[s] # NoPath /\ found
             THEN /\ Write(s, 350)
                  /\ tempName' = [tempName EXCEPT ![s] = arg[s]]
                  /\ rnfrto' = [rnfrto EXCEPT ![s] = ok]
             ELSE /\ Write(s, 550)
                  /\ tempName' = [tempName EXCEPT ![s] = NoPath]
                  /\ UNCHANGED rnfrto
    BY <1>1 DEF HandleRnfr
  <2>3. out' \in [Sessions -> Seq(Codes)]  BY <2>1, <2>2, WriteType DEF TypeOK
  <2>4. /\ pc' \in [Sessions -> Locations]
        /\ rc' \in [Sessions -> BOOLEAN]
    BY <2>2, ReturnType DEF TypeOK
  <2>5. tempName' \in [Sessions -> Paths \cup {NoPath}]
    <3>1. \/ tempName' = [tempName EXCEPT ![s] = arg[s]]
          \/ tempName' = [tempName EXCEPT ![s] = NoPath]
      BY <2>2
    <3>2. arg[s] \in Paths \cup {NoPath}  BY DEF TypeOK
    <3> QED  BY <3>1, <3>2, Update DEF TypeOK
  <2>6. rnfrto' \in [Sessions -> BOOLEAN]
    <3>1. rnfrto' = [rnfrto EXCEPT ![s] = ok] \/ rnfrto' = rnfrto  BY <2>2
    <3> QED  BY <3>1, Update DEF TypeOK
  <2> QED  BY <1>1, <2>3, <2>4, <2>5, <2>6 DEF HandleRnfr, TypeOK
<1>2. CASE HandleRnto(s)
  <2>1. {250, 501} \subseteq Codes  BY NamedCodes DEF HandlerCodes
  <2>2. \E code \in Codes : ReturnWrite(s, code)  BY <1>2, <2>1 DEF HandleRnto
  <2>3. /\ pc' \in [Sessions -> Locations]
        /\ rc' \in [Sessions -> BOOLEAN]
        /\ out' \in [Sessions -> Seq(Codes)]
    BY <2>2, ReturnWriteType
  <2>4. rnfrto' \in [Sessions -> BOOLEAN]
    BY <1>2, Update DEF HandleRnto, TypeOK
  <2> QED  BY <1>2, <2>3, <2>4 DEF HandleRnto, TypeOK
<1>3. CASE BadSequence(s)
  <2>1. 503 \in Codes  BY NamedCodes DEF HandlerCodes
  <2>2. ReturnWrite(s, 503)  BY <1>3 DEF BadSequence
  <2>3. /\ pc' \in [Sessions -> Locations]
        /\ rc' \in [Sessions -> BOOLEAN]
        /\ out' \in [Sessions -> Seq(Codes)]
    BY <2>1, <2>2, ReturnWriteType
  <2>4. rnfrto' \in [Sessions -> BOOLEAN]
    BY <1>3, Update DEF BadSequence, TypeOK
  <2> QED  BY <1>3, <2>3, <2>4 DEF BadSequence, TypeOK
<1> QED  BY <1>1, <1>2, <1>3

LEMMA TypeChannel ==
    ASSUME TypeOK, NEW s \in Sessions, HandlePasv(s) \/ HandlePort(s)
    PROVE  TypeOK'
<1> USE DEF loopVars, xferVars
<1>1. {200, 227, 500} \subseteq Codes  BY NamedCodes DEF HandlerCodes
<1>2. CASE HandlePasv(s)
  <2>1. /\ portAddr' \in [Sessions -> BOOLEAN]
        /\ backlog' \in [Sessions -> {0, 1}]
    BY <1>2 DEF HandlePasv, PortCleanup, TypeOK
  <2>2. PICK bound \in BOOLEAN, listening \in BOOLEAN :
          /\ pasvFd' = [pasvFd EXCEPT ![s] = bound]
          /\ IF bound /\ listening THEN ReturnWrite(s, 227)
                                   ELSE Return(s, FALSE) /\ UNCHANGED out
    BY <1>2 DEF HandlePasv
  <2>3. pasvFd' \in [Sessions -> BOOLEAN]  BY <2>2 DEF TypeOK
  <2>4. /\ pc' \in [Sessions -> Locations]
        /\ rc' \in [Sessions -> BOOLEAN]
        /\ out' \in [Sessions -> Seq(Codes)]
    <3>1. CASE bound /\ listening  BY <1>1, <2>2, <3>1, ReturnWriteType
    <3>2. CASE ~(bound /\ listening)
      <4>1. Return(s, FALSE) /\ out' = out  BY <2>2, <3>2
      <4> QED  BY <4>1, ReturnType DEF TypeOK
    <3> QED  BY <3>1, <3>2
  <2> QED  BY <1>2, <2>1, <2>3, <2>4 DEF HandlePasv, TypeOK
<1>3. CASE HandlePort(s)
  <2>1. /\ pasvFd' \in [Sessions -> BOOLEAN]
        /\ backlog' \in [Sessions -> {0, 1}]
    BY <1>3 DEF HandlePort, PasvCleanup, TypeOK
  <2>2. portAddr' \in [Sessions -> BOOLEAN]
    <3>1. CASE portAddr' = [portAddr EXCEPT ![s] = TRUE]
      BY <3>1, Update DEF TypeOK
    <3>2. CASE PortCleanup(s)  BY <3>2, Update DEF PortCleanup, TypeOK
    <3> QED  BY <1>3, <3>1, <3>2 DEF HandlePort
  <2>3. (Write(s, 200) /\ Return(s, TRUE)) \/ ReturnError(s, 500)
    BY <1>3 DEF HandlePort
  <2>4. /\ pc' \in [Sessions -> Locations]
        /\ rc' \in [Sessions -> BOOLEAN]
        /\ out' \in [Sessions -> Seq(Codes)]
    <3>1. CASE Write(s, 200) /\ Return(s, TRUE)
      <4>1. out' \in [Sessions -> Seq(Codes)]
        BY <1>1, <3>1, WriteType DEF TypeOK
      <4>2. pc' \in [Sessions -> Locations] /\ rc' \in [Sessions -> BOOLEAN]
        BY <3>1, ReturnType DEF TypeOK
      <4> QED  BY <4>1, <4>2
    <3>2. CASE ReturnError(s, 500)  BY <1>1, <3>2, ReturnErrorType
    <3> QED  BY <2>3, <3>1, <3>2
  <2> QED  BY <1>3, <2>1, <2>2, <2>4 DEF HandlePort, TypeOK
<1> QED  BY <1>2, <1>3

LEMMA GetTransferFdType ==
    ASSUME TypeOK, NEW s \in Sessions, NEW n \in 0..MaxChunks,
           NEW opened \in SUBSET {"file", "sock"}, GetTransferFd(s, opened, n)
    PROVE  /\ pc' \in [Sessions -> Locations]
           /\ loopPool' \in [Sessions -> SUBSET {"file", "sock"}]
           /\ data' \in [Sessions -> DataStreams]
           /\ UNCHANGED <<rc, dataSock, status>>
<1>1. pc' \in [Sessions -> Locations]
  <2>1. "fd" \in Locations  BY DEF Locations
  <2> QED  BY <2>1, GotoType DEF GetTransferFd, TypeOK
<1>2. loopPool' \in [Sessions -> SUBSET {"file", "sock"}]
  BY PoolGrows DEF GetTransferFd, TypeOK
<1>3. data[s] \in DataStreams  BY DEF TypeOK
<1>4. [data[s] EXCEPT !.want = n] \in DataStreams  BY <1>3 DEF DataStreams
<1>5. data' \in [Sessions -> DataStreams]
  BY <1>4, Update DEF GetTransferFd, TypeOK
<1> QED  BY <1>1, <1>2, <1>5 DEF GetTransferFd

LEMMA TypeTransferStarts ==
    ASSUME TypeOK, NEW s \in Sessions,
           HandleRetr(s) \/ HandleUpload(s) \/ HandleList(s)
    PROVE  TypeOK'
<1> DEFINE Typed == /\ pc' \in [Sessions -> Locations]
                    /\ rc' \in [Sessions -> BOOLEAN]
                    /\ out' \in [Sessions -> Seq(Codes)]
                    /\ dataSock' \in [Sessions -> BOOLEAN]
                    /\ loopPool' \in [Sessions -> SUBSET {"file", "sock"}]
                    /\ status' \in [Sessions -> {0, 226, 426, 451}]
                    /\ data' \in [Sessions -> DataStreams]
<1>1. {150, 425, 501, 550, 553} \subseteq Codes  BY NamedCodes DEF HandlerCodes
<1>2. ASSUME NEW code \in {425, 501, 550, 553},
             ReturnWrite(s, code) \/ ReturnError(s, code), UNCHANGED xferVars
      PROVE  Typed
  <2>1. code \in Codes  BY <1>1
  <2>2. /\ pc' \in [Sessions -> Locations]
        /\ rc' \in [Sessions -> BOOLEAN]
        /\ out' \in [Sessions -> Seq(Codes)]
        /\ UNCHANGED <<dataSock, loopPool, status, data>>
    <3>1. CASE ReturnWrite(s, code)
      BY <1>2, <2>1, <3>1, ReturnWriteType DEF xferVars
    <3>2. CASE ReturnError(s, code)
      BY <1>2, <2>1, <3>2, ReturnErrorType DEF xferVars
    <3> QED  BY <1>2, <3>1, <3>2
  <2> QED  BY <2>2 DEF TypeOK
<1>3. ASSUME NEW n \in 0..MaxChunks, NEW opened \in SUBSET {"file", "sock"},
             GetTransferFd(s, opened, n), out' \in [Sessions -> Seq(Codes)]
      PROVE  Typed
  BY <1>3, GetTransferFdType DEF TypeOK
<1>4. CASE HandleRetr(s)
  <2> SUFFICES Typed
    BY <1>4 DEF HandleRetr, TypeOK, loopVars, chanVars
  <2>1. CASE \/ Refuse(s, 501, TRUE) \/ Refuse(s, 425, FALSE)
             \/ Refuse(s, 550, FALSE)
    <3> HIDE DEF Typed
    <3>1. CASE Refuse(s, 501, TRUE)   BY <1>2, <3>1 DEF Refuse
    <3>2. CASE Refuse(s, 425, FALSE)  BY <1>2, <3>2 DEF Refuse
    <3>3. CASE Refuse(s, 550, FALSE)  BY <1>2, <3>3 DEF Refuse
    <3> QED  BY <2>1, <3>1, <3>2, <3>3
  <2>2. CASE Write(s, 550) /\ Return(s, TRUE) /\ UNCHANGED xferVars
    <3>1. out' \in [Sessions -> Seq(Codes)]
      BY <1>1, <2>2, WriteType DEF TypeOK
    <3>2. pc' \in [Sessions -> Locations] /\ rc' \in [Sessions -> BOOLEAN]
      BY <2>2, ReturnType DEF TypeOK
    <3> QED  BY <2>2, <3>1, <3>2 DEF xferVars, TypeOK
  <2>3. CASE /\ \E n \in 0..MaxChunks : GetTransferFd(s, {"file"}, n)
             /\ UNCHANGED out
    <3>1. PICK n \in 0..MaxChunks : GetTransferFd(s, {"file"}, n)  BY <2>3
    <3>2. out' \in [Sessions -> Seq(Codes)]  BY <2>3 DEF TypeOK
    <3> HIDE DEF Typed
    <3> QED  BY <1>3, <3>1, <3>2
  <2> HIDE DEF Typed
  <2> QED  BY <1>4, <2>1, <2>2, <2>3 DEF HandleRetr, Refuse
<1>5. CASE HandleUpload(s)
  <2> SUFFICES Typed
    BY <1>5 DEF HandleUpload, TypeOK, loopVars, chanVars
  <2>1. CASE \/ Refuse(s, 501, TRUE) \/ Refuse(s, 425, FALSE)
             \/ Refuse(s, 553, FALSE)
    <3> HIDE DEF Typed
    <3>1. CASE Refuse(s, 501, TRUE)   BY <1>2, <3>1 DEF Refuse
    <3>2. CASE Refuse(s, 425, FALSE)  BY <1>2, <3>2 DEF Refuse
    <3>3. CASE Refuse(s, 553, FALSE)  BY <1>2, <3>3 DEF Refuse
    <3> QED  BY <2>1, <3>1, <3>2, <3>3
  <2>2. CASE /\ GetTransferFd(s, {"file"}, 0)
             /\ IF verb[s] = "STOU" THEN Write(s, 150) ELSE UNCHANGED out
    <3>1. out' \in [Sessions -> Seq(Codes)]
      BY <1>1, <2>2, WriteType DEF TypeOK
    <3>2. 0 \in 0..MaxChunks  BY ConstantsAssumption
    <3> HIDE DEF Typed
    <3> QED  BY <1>3, <2>2, <3>1, <3>2
  <2>3. CASE /\ ReturnError(s, 150)
             /\ loopPool' = [loopPool EXCEPT ![s] = @ \cup {"file"}]
             /\ UNCHANGED <<dataSock, status, data>>
    <3>1. loopPool' \in [Sessions -> SUBSET {"file", "sock"}]
      BY <2>3, PoolGrows DEF TypeOK
    <3>2. /\ pc' \in [Sessions -> Locations]
          /\ rc' \in [Sessions -> BOOLEAN]
          /\ out' \in [Sessions -> Seq(Codes)]
      BY <1>1, <2>3, ReturnErrorType
    <3> QED  BY <2>3, <3>1, <3>2 DEF TypeOK
  <2> HIDE DEF Typed
  <2> QED  BY <1>5, <2>1, <2>2, <2>3 DEF HandleUpload, Refuse
<1>6. CASE HandleList(s)
  <2> SUFFICES Typed
    BY <1>6 DEF HandleList, TypeOK, loopVars, chanVars
  <2>1. CASE Refuse(s, 501, TRUE)
    <3> HIDE DEF Typed
    <3> QED  BY <1>2, <2>1 DEF Refuse
  <2>2. CASE /\ \E n \in 0..MaxChunks : GetTransferFd(s, {}, n)
             /\ UNCHANGED out
    <3>1. PICK n \in 0..MaxChunks : GetTransferFd(s, {}, n)  BY <2>2
    <3>2. out' \in [Sessions -> Seq(Codes)]  BY <2>2 DEF TypeOK
    <3>3. {} \in SUBSET {"file", "sock"}  OBVIOUS
    <3> HIDE DEF Typed
    <3> QED  BY <1>3, <3>1, <3>2, <3>3
  <2> QED  BY <1>6, <2>1, <2>2 DEF HandleList
<1> QED  BY <1>4, <1>5, <1>6

LEMMA ConnectedType ==
    ASSUME TypeOK, NEW s \in Sessions, Connected(s),
           backlog' \in [Sessions -> {0, 1}]
    PROVE  TypeOK'
<1>1. 150 \in Codes  BY NamedCodes DEF HandlerCodes
<1>2. out' \in [Sessions -> Seq(Codes)]
  BY <1>1, WriteType DEF Connected, TypeOK
<1>3. loopPool' \in [Sessions -> SUBSET {"file", "sock"}]
  BY PoolGrows DEF Connected, TypeOK
<1>4. pc' \in [Sessions -> Locations]
  <2>1. "transfer" \in Locations  BY DEF Locations
  <2> QED  BY <2>1, GotoType DEF Connected, TypeOK
<1>5. dataSock' \in [Sessions -> BOOLEAN]  BY Update DEF Connected, TypeOK
<1> QED  BY <1>2, <1>3, <1>4, <1>5 DEF Connected, loopVars, TypeOK

LEMMA NotConnectedType ==
    ASSUME TypeOK, NEW s \in Sessions, NEW left \in SUBSET {"sock"},
           NotConnected(s, left)
    PROVE  TypeOK'
<1>1. 425 \in Codes  BY NamedCodes DEF HandlerCodes
<1>2. ReturnError(s, 425)  BY DEF NotConnected
<1>3. /\ pc' \in [Sessions -> Locations]
      /\ rc' \in [Sessions -> BOOLEAN]
      /\ out' \in [Sessions -> Seq(Codes)]
  BY <1>1, <1>2, ReturnErrorType
<1>4. /\ portAddr' \in [Sessions -> BOOLEAN]
      /\ pasvFd' \in [Sessions -> BOOLEAN]
      /\ backlog' \in [Sessions -> {0, 1}]
      /\ loopPool' \in [Sessions -> SUBSET {"file", "sock"}]
  <2>1. CASE verb[s] = "RETR"
    <3>1. /\ CommunicationCleanup(s)
          /\ loopPool' = [loopPool EXCEPT ![s] = (@ \ {"file"}) \cup left]
      BY <2>1 DEF NotConnected
    <3>2. loopPool' \in [Sessions -> SUBSET {"file", "sock"}]
      <4>1. left \in SUBSET {"file", "sock"}  OBVIOUS
      <4> QED  BY <3>1, <4>1, PoolType DEF TypeOK
    <3> QED  BY <3>1, <3>2, CleanupType
  <2>2. CASE verb[s] # "RETR"
    <3>1. /\ UNCHANGED chanVars
          /\ loopPool' = [loopPool EXCEPT ![s] = @ \cup left]
      BY <2>2 DEF NotConnected
    <3>2. loopPool' \in [Sessions -> SUBSET {"file", "sock"}]
      <4>1. left \in SUBSET {"file", "sock"}  OBVIOUS
      <4> QED  BY <3>1, <4>1, PoolGrows DEF TypeOK
    <3> QED  BY <3>1, <3>2 DEF chanVars, TypeOK
  <2> QED  BY <2>1, <2>2
<1> QED  BY <1>3, <1>4 DEF NotConnected, loopVars, TypeOK

LEMMA TypeConnects ==
    ASSUME TypeOK, NEW s \in Sessions,
           \/ AwaitPasv(s) \/ AcceptPasv(s) \/ AcceptFails(s)
           \/ ConnectPort(s) \/ ConnectFails(s)
    PROVE  TypeOK'
<1>1. CASE AwaitPasv(s)
  <2>1. "accept" \in Locations  BY DEF Locations
  <2>2. pc' \in [Sessions -> Locations]
    BY <1>1, <2>1, GotoType DEF AwaitPasv, TypeOK
  <2> QED
    BY <1>1, <2>2 DEF AwaitPasv, loopVars, chanVars, xferVars, TypeOK
<1>2. CASE AcceptPasv(s)
  <2>1. backlog' \in [Sessions -> {0, 1}]  BY <1>2 DEF AcceptPasv, TypeOK
  <2> QED  BY <1>2, <2>1, ConnectedType DEF AcceptPasv
<1>3. CASE ConnectPort(s)
  BY <1>3, ConnectedType DEF ConnectPort, TypeOK
<1>4. CASE AcceptFails(s) \/ ConnectFails(s)
  <2>1. PICK left \in SUBSET {"sock"} : NotConnected(s, left)
    BY <1>4 DEF AcceptFails, ConnectFails
  <2> QED  BY <2>1, NotConnectedType
<1> QED  BY <1>1, <1>2, <1>3, <1>4

\* A loop that ends leaves with one of the codes for it.
LEMMA FinishType ==
    ASSUME TypeOK, NEW s \in Sessions, NEW code \in {226, 426, 451},
           Finish(s, code)
    PROVE  /\ pc' \in [Sessions -> Locations]
           /\ status' \in [Sessions -> {0, 226, 426, 451}]
<1>1. Goto(s, "complete") \/ Goto(s, "dispose")  BY DEF Finish
<1>2. "complete" \in Locations /\ "dispose" \in Locations  BY DEF Locations
<1>3. PICK where \in Locations : Goto(s, where)  BY <1>1, <1>2
<1>4. pc' \in [Sessions -> Locations]  BY <1>3, GotoType DEF TypeOK
<1>5. status' \in [Sessions -> {0, 226, 426, 451}]
  BY Update DEF Finish, TypeOK
<1> QED  BY <1>4, <1>5

LEMMA TypeStreams ==
    ASSUME TypeOK, NEW s \in Sessions,
           \/ SendChunk(s) \/ SendEnds(s) \/ SendFails(s) \/ SendListing(s)
           \/ RecvChunk(s) \/ RecvEnds(s) \/ RecvFails(s) \/ WriteFails(s)
           \/ PeerSends(s) \/ PeerEnds(s, "shut") \/ PeerEnds(s, "reset")
    PROVE  TypeOK'
<1> DEFINE Typed == /\ pc' \in [Sessions -> Locations]
                    /\ status' \in [Sessions -> {0, 226, 426, 451}]
                    /\ data' \in [Sessions -> DataStreams]
<1>1. StreamStays
  BY DEF SendChunk, SendEnds, SendFails, SendListing, RecvChunk, RecvEnds,
         RecvFails, WriteFails, PeerSends, PeerEnds
<1> SUFFICES Typed  BY <1>1 DEF StreamStays, loopVars, chanVars, TypeOK
<1>2. data[s] \in DataStreams /\ MaxChunks \in Nat
  BY ConstantsAssumption DEF TypeOK
<1>3. ASSUME NEW d \in DataStreams, data' = [data EXCEPT ![s] = d]
      PROVE  data' \in [Sessions -> DataStreams]
  BY <1>3, Update DEF TypeOK
<1>4. CASE SendChunk(s)
  <2>1. [data[s] EXCEPT !.moved = @ + 1] \in DataStreams
    BY <1>2, <1>4 DEF SendChunk, DataStreams
  <2> QED  BY <1>3, <1>4, <2>1 DEF SendChunk, TypeOK
<1>5. CASE SendEnds(s)  BY <1>5, FinishType DEF SendEnds, TypeOK
<1>6. CASE SendFails(s)  BY <1>6, FinishType DEF SendFails, TypeOK
<1>7. CASE SendListing(s)
  <2>1. PICK n \in 0..data[s].want :
          /\ n < data[s].want => data[s].peer = "reset"
          /\ data' = [data EXCEPT ![s].moved = n]
          /\ Finish(s, IF n = data[s].want THEN 226 ELSE 426)
    BY <1>7 DEF SendListing
  <2>2. [data[s] EXCEPT !.moved = n] \in DataStreams  BY <1>2 DEF DataStreams
  <2>3. Finish(s, 226) \/ Finish(s, 426)  BY <2>1
  <2> QED  BY <1>3, <2>1, <2>2, <2>3, FinishType DEF TypeOK
<1>8. CASE RecvChunk(s)
  <2> DEFINE how == IF data[s].stored = "failing" THEN "damaged"
                                                  ELSE data[s].stored
             after == [data[s] EXCEPT !.moved = data[s].moved + 1, !.stored = how]
  <2>1. how \in {"whole", "failing", "damaged"}  BY <1>2 DEF DataStreams
  <2>2. data' = [data EXCEPT ![s] = after]  BY <1>8 DEF RecvChunk
  <2>3. data[s].moved + 1 \in 0..MaxChunks  BY <1>2, <1>8 DEF RecvChunk, DataStreams
  <2>4. after \in DataStreams
    <3> HIDE DEF how
    <3> QED  BY <1>2, <2>1, <2>3 DEF DataStreams
  <2>5. UNCHANGED <<pc, status>>  BY <1>8 DEF RecvChunk
  <2>6. data' \in [Sessions -> DataStreams]
    <3> HIDE DEF after
    <3> QED  BY <1>3, <2>2, <2>4
  <2> QED  BY <2>5, <2>6 DEF TypeOK
<1>9. CASE RecvEnds(s)  BY <1>9, FinishType DEF RecvEnds, TypeOK
<1>10. CASE RecvFails(s)  BY <1>10, FinishType DEF RecvFails, TypeOK
<1>11. CASE WriteFails(s)
  <2> DEFINE how == IF LklFileApis THEN "failing" ELSE "damaged"
  <2>1. [data[s] EXCEPT !.stored = how] \in DataStreams
    BY <1>2 DEF DataStreams
  <2>2. data' = [data EXCEPT ![s].stored = how]
    BY <1>11 DEF WriteFails
  <2>3. data' \in [Sessions -> DataStreams]
    <3> HIDE DEF how
    <3> QED  BY <1>3, <2>1, <2>2
  <2>4. UNCHANGED <<pc, status>> \/ Finish(s, 451)
    BY <1>11 DEF WriteFails
  <2> QED  BY <2>3, <2>4, FinishType DEF TypeOK
<1>12. CASE PeerSends(s)
  <2>1. [data[s] EXCEPT !.sent = @ + 1] \in DataStreams
    BY <1>2, <1>12 DEF PeerSends, DataStreams
  <2> QED  BY <1>3, <1>12, <2>1 DEF PeerSends, TypeOK
<1>13. ASSUME NEW how \in {"shut", "reset"}, PeerEnds(s, how)
       PROVE  Typed
  <2>1. [data[s] EXCEPT !.peer = how] \in DataStreams  BY <1>2 DEF DataStreams
  <2> QED  BY <1>3, <1>13, <2>1 DEF PeerEnds, TypeOK
<1>14. PeerEnds(s, "shut") => Typed  BY <1>13
<1>15. PeerEnds(s, "reset") => Typed  BY <1>13
<1> HIDE DEF Typed
<1> QED  BY <1>4, <1>5, <1>6, <1>7, <1>8, <1>9, <1>10, <1>11, <1>12, <1>14,
            <1>15

LEMMA TypeTransferEnds ==
    ASSUME TypeOK, StatusKnown, NEW s \in Sessions,
           Dispose(s) \/ Complete(s) \/ Cleanup(s)
    PROVE  TypeOK'
<1> USE DEF loopVars, chanVars, xferVars
<1>1. CASE Dispose(s)
  <2>1. PICK where \in Locations : Goto(s, where)
    BY <1>1 DEF Dispose, Locations
  <2>2. pc' \in [Sessions -> Locations]  BY <2>1, GotoType DEF TypeOK
  <2>3. loopPool' \in [Sessions -> SUBSET {"file", "sock"}]
    BY <1>1, PoolShrinks DEF Dispose, TypeOK
  <2>4. dataSock' \in [Sessions -> BOOLEAN]
    BY <1>1, Update DEF Dispose, TypeOK
  <2> QED  BY <1>1, <2>2, <2>3, <2>4 DEF Dispose, TypeOK
<1>2. CASE Complete(s)
  <2>1. status[s] \in Codes
    <3>1. status[s] \in {226, 426, 451}
      BY <1>2 DEF Complete, At, StatusKnown, TypeOK
    <3> QED  BY <3>1, NamedCodes DEF HandlerCodes
  <2>2. out' \in [Sessions -> Seq(Codes)]
    BY <1>2, <2>1, WriteType DEF Complete, TypeOK
  <2>3. PICK where \in Locations : Goto(s, where)
    BY <1>2 DEF Complete, Locations
  <2>4. pc' \in [Sessions -> Locations]  BY <2>3, GotoType DEF TypeOK
  <2>5. ASSUME NEW ok \in BOOLEAN, rc' = [rc EXCEPT ![s] = ok]
        PROVE  rc' \in [Sessions -> BOOLEAN]
    BY <2>5, Update DEF TypeOK
  <2>6. rc' \in [Sessions -> BOOLEAN]  BY <1>2, <2>5 DEF Complete, TypeOK
  <2> QED  BY <1>2, <2>2, <2>4, <2>6 DEF Complete, TypeOK
<1>3. CASE Cleanup(s)
  <2>1. loopPool' \in [Sessions -> SUBSET {"file", "sock"}]
    BY <1>3, PoolShrinks DEF Cleanup, TypeOK
  <2>2. /\ pc' \in [Sessions -> Locations]
        /\ rc' \in [Sessions -> BOOLEAN]
    BY <1>3, ReturnType DEF Cleanup, TypeOK
  <2>3. /\ portAddr' \in [Sessions -> BOOLEAN]
        /\ pasvFd' \in [Sessions -> BOOLEAN]
        /\ backlog' \in [Sessions -> {0, 1}]
    BY <1>3, CleanupType DEF Cleanup
  <2> QED  BY <1>3, <2>1, <2>2, <2>3 DEF Cleanup, TypeOK
<1> QED  BY <1>1, <1>2, <1>3

-----------------------------------------------------------------------------
(* The control invariant.                                                  *)

\* Most steps leave the channel and the data socket alone and take a session
\* that is not in a transfer to a place that is not the end of one.
LEMMA QuietStep ==
    ASSUME ControlInv, NEW s \in Sessions,
           NEW where \in Locations \ {"dispose", "complete"},
           pc[s] \notin {"transfer", "dispose", "complete"},
           Goto(s, where),
           UNCHANGED <<pasvFd, portAddr, dataSock>>,
           \A t \in Sessions \ {s} : status'[t] = status[t] /\ verb'[t] = verb[t]
    PROVE  Control'
<1> USE DEF ControlInv, Control
<1>1. \A t \in Sessions : pc'[t] = IF t = s THEN where ELSE pc[t]
  BY DEF Goto, TypeOK
<1>2. StatusKnown'  BY <1>1 DEF StatusKnown
<1>3. OneChannel'  BY DEF OneChannel
<1>4. ~dataSock[s]  BY DEF DataSockWhere
<1>5. DataSockWhere'  BY <1>1, <1>4 DEF DataSockWhere
<1> QED  BY <1>2, <1>3, <1>5

\* A handler that returns to the command loop without touching the channel.
LEMMA QuietReturn ==
    ASSUME ControlInv, NEW s \in Sessions, pc[s] \in {"dispatch", "fd", "accept"},
           \/ \E code : ReturnWrite(s, code) \/ ReturnError(s, code)
           \/ \E ok : Return(s, ok),
           UNCHANGED <<pasvFd, portAddr, dataSock, status, verb>>
    PROVE  Control'
<1>1. Goto(s, "loop")  BY DEF ReturnWrite, ReturnError, Return
<1>2. "loop" \in Locations \ {"dispose", "complete"}  BY DEF Locations
<1> QED  BY <1>1, <1>2, QuietStep

LEMMA ControlThread ==
    ASSUME ControlInv, NEW s \in Sessions,
           \/ SessCreateFails(s) \/ EmitGreeting(s) \/ LoopTop(s)
           \/ ReceiveCommand(s) \/ EndOfStream(s) \/ EmptyLine(s)
           \/ SessDestroy(s) \/ HandleQuit(s) \/ AwaitPasv(s)
    PROVE  Control'
<1>1. /\ pc[s] \in {"start", "loop", "command", "destroy", "dispatch", "fd"}
      /\ UNCHANGED <<pasvFd, portAddr, dataSock>>
  BY DEF SessCreateFails, EmitGreeting, LoopTop, ReceiveCommand, EndOfStream,
         EmptyLine, SessDestroy, HandleQuit, AwaitPasv, Dispatches, At,
         chanVars, xferVars
<1>2. \E where \in {"exit", "loop", "destroy", "command", "dispatch", "accept"} :
          Goto(s, where)
  BY DEF SessCreateFails, EmitGreeting, LoopTop, ReceiveCommand, EndOfStream,
         EmptyLine, SessDestroy, HandleQuit, AwaitPasv
<1>3. \A t \in Sessions \ {s} : status'[t] = status[t] /\ verb'[t] = verb[t]
  <2>1. CASE ReceiveCommand(s)  BY <2>1 DEF ReceiveCommand, ControlInv, TypeOK
  <2>2. CASE ~ReceiveCommand(s)
    BY <2>2 DEF SessCreateFails, EmitGreeting, LoopTop, EndOfStream, EmptyLine,
                SessDestroy, HandleQuit, AwaitPasv, loopVars, xferVars
  <2> QED  BY <2>1, <2>2
<1> QED  BY <1>1, <1>2, <1>3, QuietStep DEF Locations

\* Steps that move no session and touch no channel.
LEMMA ControlStays ==
    ASSUME ControlInv,
           UNCHANGED <<pc, verb, status, pasvFd, portAddr, dataSock>>
    PROVE  Control'
BY DEF ControlInv, Control, StatusKnown, OneChannel, DataSockWhere

LEMMA ControlAnswers ==
    ASSUME ControlInv, NEW s \in Sessions,
           \/ HandlePlain(s) \/ HandleFeat(s) \/ HandleSite(s)
           \/ HandleSiteNull(s) \/ HandlePortNull(s) \/ NeitherActive(s)
           \/ HandleRnfr(s) \/ HandleRnto(s) \/ BadSequence(s)
    PROVE  Control'
<1> USE DEF loopVars, chanVars, xferVars, Dispatches, At
<1>1. CASE HandlePlain(s)
  <2>1. (\E code : ReturnWrite(s, code)) \/ (\E ok : Return(s, ok))
    BY <1>1 DEF HandlePlain
  <2> QED  BY <1>1, <2>1, QuietReturn DEF HandlePlain
<1>2. CASE HandleFeat(s)  BY <1>2, QuietReturn DEF HandleFeat
<1>3. CASE HandleSite(s)
  <2>1. (\E code : ReturnWrite(s, code)) \/ (\E ok : Return(s, ok))
    BY <1>3 DEF HandleSite
  <2> QED  BY <1>3, <2>1, QuietReturn DEF HandleSite
<1>4. CASE HandleRnfr(s)
  <2>1. \E ok : Return(s, ok)  BY <1>4 DEF HandleRnfr
  <2> QED  BY <1>4, <2>1, QuietReturn DEF HandleRnfr
<1>5. CASE HandleRnto(s)
  <2>1. \E code : ReturnWrite(s, code)  BY <1>5 DEF HandleRnto
  <2> QED  BY <1>5, <2>1, QuietReturn DEF HandleRnto
<1>6. CASE BadSequence(s)
  <2>1. \E code : ReturnWrite(s, code)  BY <1>6 DEF BadSequence
  <2> QED  BY <1>6, <2>1, QuietReturn DEF BadSequence
<1>7. CASE HandleSiteNull(s) \/ HandlePortNull(s) \/ NeitherActive(s)
  BY <1>7, ControlStays
  DEF HandleSiteNull, HandlePortNull, NeitherActive, ProcessExit
<1> QED  BY <1>1, <1>2, <1>3, <1>4, <1>5, <1>6, <1>7

\* The steps that open or close the channel.
LEMMA ControlChannel ==
    ASSUME ControlInv, NEW s \in Sessions,
           HandlePasv(s) \/ HandlePort(s) \/ ThreadExit(s) \/ Cleanup(s)
    PROVE  Control'
<1> USE DEF ControlInv, Control
<1>1. /\ pc[s] \in {"dispatch", "exit", "cleanup"}
      /\ Goto(s, "loop") \/ Goto(s, "exited")
      /\ UNCHANGED <<dataSock, status, verb>>
  BY DEF HandlePasv, HandlePort, ThreadExit, Cleanup, Dispatches, At, Return,
         ReturnWrite, ReturnError, loopVars, xferVars
<1>2. \A t \in Sessions :
          pc'[t] = pc[t] \/ (t = s /\ pc'[t] \in {"loop", "exited"})
  <2>1. PICK where \in {"loop", "exited"} : pc' = [pc EXCEPT ![s] = where]
    BY <1>1 DEF Goto
  <2> QED  BY <2>1 DEF TypeOK
<1>3. StatusKnown'  BY <1>1, <1>2 DEF StatusKnown
<1>4. DataSockWhere'  BY <1>1, <1>2 DEF DataSockWhere
<1>5. OneChannel'
  <2>1. CASE HandlePasv(s)
    <3>1. portAddr' = [portAddr EXCEPT ![s] = FALSE]
      BY <2>1 DEF HandlePasv, PortCleanup
    <3>2. \E bound \in BOOLEAN : pasvFd' = [pasvFd EXCEPT ![s] = bound]
      BY <2>1 DEF HandlePasv
    <3> QED  BY <3>1, <3>2 DEF OneChannel, TypeOK
  <2>2. CASE HandlePort(s)
    <3>1. pasvFd' = [pasvFd EXCEPT ![s] = FALSE]
      BY <2>2 DEF HandlePort, PasvCleanup
    <3>2. \E active \in BOOLEAN : portAddr' = [portAddr EXCEPT ![s] = active]
      BY <2>2 DEF HandlePort, PortCleanup
    <3> QED  BY <3>1, <3>2 DEF OneChannel, TypeOK
  <2>3. CASE ThreadExit(s) \/ Cleanup(s)
    <3>1. CommunicationCleanup(s)  BY <2>3 DEF ThreadExit, Cleanup
    <3> QED
      BY <3>1
      DEF CommunicationCleanup, PortCleanup, PasvCleanup, OneChannel, TypeOK
  <2> QED  BY <2>1, <2>2, <2>3
<1> QED  BY <1>3, <1>4, <1>5

LEMMA ControlTransferStarts ==
    ASSUME ControlInv, NEW s \in Sessions,
           HandleRetr(s) \/ HandleUpload(s) \/ HandleList(s)
    PROVE  Control'
<1>1. pc[s] = "dispatch" /\ UNCHANGED <<pasvFd, portAddr, verb>>
  BY DEF HandleRetr, HandleUpload, HandleList, Dispatches, At, chanVars, loopVars
<1>2. Goto(s, "loop") \/ Goto(s, "fd")
  BY DEF HandleRetr, HandleUpload, HandleList, Refuse, GetTransferFd, Return,
         ReturnWrite, ReturnError
<1>3. UNCHANGED <<dataSock, status>>
  BY DEF HandleRetr, HandleUpload, HandleList, Refuse, GetTransferFd, xferVars
<1> QED  BY <1>1, <1>2, <1>3, QuietStep DEF Locations

LEMMA ControlConnects ==
    ASSUME ControlInv, NEW s \in Sessions,
           AcceptPasv(s) \/ AcceptFails(s) \/ ConnectPort(s) \/ ConnectFails(s)
    PROVE  Control'
<1> USE DEF ControlInv, Control
<1>1. pc[s] \in {"fd", "accept"}
  BY DEF AcceptPasv, AcceptFails, ConnectPort, ConnectFails, At
<1>2. CASE Connected(s)
  <2>1. /\ pc' = [pc EXCEPT ![s] = "transfer"]
        /\ dataSock' = [dataSock EXCEPT ![s] = TRUE]
        /\ UNCHANGED <<pasvFd, portAddr, status, verb>>
    BY <1>2 DEF Connected, Goto, loopVars
  <2>2. StatusKnown'  BY <2>1 DEF StatusKnown, TypeOK
  <2>3. OneChannel'  BY <2>1 DEF OneChannel
  <2>4. DataSockWhere'  BY <2>1 DEF DataSockWhere, TypeOK
  <2> QED  BY <2>2, <2>3, <2>4
<1>3. ASSUME NEW left, NotConnected(s, left) PROVE Control'
  <2>1. /\ pc' = [pc EXCEPT ![s] = "loop"]
        /\ UNCHANGED <<dataSock, status, verb>>
    BY <1>3 DEF NotConnected, ReturnError, Return, Goto, loopVars
  <2>2. StatusKnown'  BY <2>1 DEF StatusKnown, TypeOK
  <2>3. DataSockWhere'  BY <1>1, <2>1 DEF DataSockWhere, TypeOK
  <2>4. OneChannel'
    <3>1. CASE CommunicationCleanup(s)
      BY <3>1
      DEF CommunicationCleanup, PortCleanup, PasvCleanup, OneChannel, TypeOK
    <3>2. CASE UNCHANGED chanVars  BY <3>2 DEF chanVars, OneChannel
    <3> QED  BY <1>3, <3>1, <3>2 DEF NotConnected
  <2> QED  BY <2>2, <2>3, <2>4
<1> QED
  BY <1>2, <1>3 DEF AcceptPasv, AcceptFails, ConnectPort, ConnectFails

LEMMA ControlStreams ==
    ASSUME ControlInv, NEW s \in Sessions,
           \/ SendChunk(s) \/ SendEnds(s) \/ SendFails(s) \/ SendListing(s)
           \/ RecvChunk(s) \/ RecvEnds(s) \/ RecvFails(s) \/ WriteFails(s)
           \/ PeerSends(s) \/ PeerEnds(s, "shut") \/ PeerEnds(s, "reset")
    PROVE  Control'
<1> USE DEF ControlInv, Control
<1>1. UNCHANGED <<pasvFd, portAddr, dataSock, verb>>
  BY DEF SendChunk, SendEnds, SendFails, SendListing, RecvChunk, RecvEnds,
         RecvFails, WriteFails, PeerSends, PeerEnds, StreamStays, loopVars,
         chanVars
<1>2. \/ UNCHANGED <<pc, status>>
      \/ \E code \in {226, 426, 451} : Finish(s, code)
  BY DEF SendChunk, SendEnds, SendFails, SendListing, RecvChunk, RecvEnds,
         RecvFails, WriteFails, PeerSends, PeerEnds
<1>3. CASE UNCHANGED <<pc, status>>  BY <1>1, <1>3, ControlStays
<1>4. ASSUME NEW code \in {226, 426, 451}, Finish(s, code)
      PROVE  Control'
  <2>1. status' = [status EXCEPT ![s] = code]  BY <1>4 DEF Finish
  <2>2. \/ verb[s] = "LIST" /\ pc' = [pc EXCEPT ![s] = "complete"]
        \/ verb[s] # "LIST" /\ pc' = [pc EXCEPT ![s] = "dispose"]
    BY <1>4 DEF Finish, Goto
  <2>3. StatusKnown'  BY <2>1, <2>2 DEF StatusKnown, TypeOK
  <2>4. OneChannel'  BY <1>1 DEF OneChannel
  <2>5. ASSUME NEW t \in Sessions, t # s  PROVE pc'[t] = pc[t]
    BY <2>2, <2>5 DEF TypeOK
  <2>6. \/ verb[s] = "LIST" /\ pc'[s] = "complete"
        \/ pc'[s] = "dispose"
    BY <2>2 DEF TypeOK
  <2>7. DataSockWhere'  BY <1>1, <2>5, <2>6 DEF DataSockWhere
  <2> QED  BY <2>3, <2>4, <2>7
<1> QED  BY <1>2, <1>3, <1>4

LEMMA ControlTransferEnds ==
    ASSUME ControlInv, NEW s \in Sessions, Dispose(s) \/ Complete(s)
    PROVE  Control'
<1> USE DEF ControlInv, Control
<1>1. UNCHANGED <<pasvFd, portAddr, status, verb>>
  BY DEF Dispose, Complete, loopVars, chanVars, xferVars
<1>2. pc[s] \in {"dispose", "complete"}  BY DEF Dispose, Complete, At
<1>3. OneChannel'  BY <1>1 DEF OneChannel
<1>4. \E where \in {"loop", "complete", "dispose", "cleanup"} : Goto(s, where)
  BY DEF Dispose, Complete
<1>5. StatusKnown'
  <2>1. ASSUME NEW t \in Sessions, pc'[t] \in {"dispose", "complete"}
        PROVE  pc[t] \in {"dispose", "complete"}
    <3>1. CASE t = s  BY <1>2, <3>1
    <3>2. CASE t # s  BY <1>4, <2>1, <3>2 DEF Goto, TypeOK
    <3> QED  BY <3>1, <3>2
  <2> QED  BY <1>1, <2>1 DEF StatusKnown
<1>6. CASE Dispose(s)
  <2>1. dataSock' = [dataSock EXCEPT ![s] = FALSE]  BY <1>6 DEF Dispose
  <2>2. ASSUME NEW t \in Sessions, dataSock'[t]
        PROVE  pc'[t] = pc[t] /\ dataSock[t] /\ verb'[t] = verb[t]
    <3>1. t # s  BY <2>1, <2>2 DEF TypeOK
    <3> QED  BY <1>1, <1>4, <2>1, <2>2, <3>1 DEF Goto, TypeOK
  <2>3. DataSockWhere'  BY <2>2 DEF DataSockWhere
  <2> QED  BY <1>3, <1>5, <2>3
<1>7. CASE Complete(s)
  <2>1. /\ dataSock' = dataSock
        /\ pc[s] = "complete"
        /\ \/ verb[s] = "LIST" /\ pc' = [pc EXCEPT ![s] = "dispose"]
           \/ verb[s] # "LIST" /\ pc' = [pc EXCEPT ![s] = "cleanup"]
    BY <1>7 DEF Complete, Goto, At, xferVars
  <2>2. pc \in [Sessions -> Locations]  BY DEF TypeOK
  <2>3. verb[s] # "LIST" => ~dataSock[s]  BY <2>1 DEF DataSockWhere
  <2>4. DataSockWhere'  BY <1>1, <2>1, <2>2, <2>3 DEF DataSockWhere
  <2> QED  BY <1>3, <1>5, <2>4
<1> QED  BY <1>6, <1>7

-----------------------------------------------------------------------------
(* The theorems.                                                           *)

LEMMA ControlInit == Init => ControlInv
<1> SUFFICES ASSUME Init PROVE ControlInv  OBVIOUS
<1>1. NoData \in DataStreams  BY ConstantsAssumption DEF NoData, DataStreams
<1>2. <<>> \in Seq(Codes)  OBVIOUS
<1>3. TypeOK  BY <1>1, <1>2 DEF Init, TypeOK, Locations
<1>4. Control
  BY DEF Init, Control, StatusKnown, OneChannel, DataSockWhere
<1> QED  BY <1>3, <1>4 DEF ControlInv

LEMMA ControlStep == ControlInv /\ [Next]_vars => ControlInv'
<1> SUFFICES ASSUME ControlInv, [Next]_vars PROVE ControlInv'  OBVIOUS
<1> USE DEF ControlInv
<1>1. ASSUME NEW s \in Sessions, Progress(s) PROVE ControlInv'
  <2>1. CASE \/ EmitGreeting(s) \/ LoopTop(s) \/ SessDestroy(s)
             \/ EndOfStream(s)
    BY <2>1, TypeThread, ControlThread
  <2>2. CASE ThreadExit(s)  BY <2>2, TypeThread, ControlChannel
  <2>3. CASE HandleQuit(s)  BY <2>3, TypeAnswers, ControlThread
  <2>4. CASE \/ HandlePlain(s) \/ HandleFeat(s) \/ HandleSite(s)
             \/ HandleSiteNull(s) \/ NeitherActive(s)
    BY <2>4, TypeAnswers, ControlAnswers
  <2>5. CASE HandleRnfr(s) \/ HandleRnto(s) \/ BadSequence(s)
    BY <2>5, TypeRename, ControlAnswers
  <2>6. CASE HandlePasv(s) \/ HandlePort(s)
    BY <2>6, TypeChannel, ControlChannel
  <2>7. CASE HandleRetr(s) \/ HandleUpload(s) \/ HandleList(s)
    BY <2>7, TypeTransferStarts, ControlTransferStarts
  <2>8. CASE AwaitPasv(s)  BY <2>8, TypeConnects, ControlThread
  <2>9. CASE AcceptPasv(s) \/ ConnectPort(s) \/ ConnectFails(s)
    BY <2>9, TypeConnects, ControlConnects
  <2>10. CASE \/ SendChunk(s) \/ SendEnds(s) \/ SendListing(s)
              \/ RecvChunk(s) \/ RecvEnds(s) \/ RecvFails(s)
    BY <2>10, TypeStreams, ControlStreams
  <2>11. CASE Dispose(s) \/ Complete(s)
    BY <2>11, TypeTransferEnds, ControlTransferEnds DEF Control
  <2>12. CASE Cleanup(s)
    BY <2>12, TypeTransferEnds, ControlChannel DEF Control
  <2> QED
    BY <1>1, <2>1, <2>2, <2>3, <2>4, <2>5, <2>6, <2>7, <2>8, <2>9, <2>10,
       <2>11, <2>12
    DEF Progress
<1>2. ASSUME NEW s \in Sessions, Chance(s) PROVE ControlInv'
  <2>1. CASE SessCreateFails(s) \/ EmptyLine(s)
    BY <2>1, TypeThread, ControlThread
  <2>2. CASE ReceiveCommand(s)  BY <2>2, TypeReceive, ControlThread
  <2>3. CASE HandlePortNull(s)  BY <2>3, TypeAnswers, ControlAnswers
  <2>4. CASE AcceptFails(s)  BY <2>4, TypeConnects, ControlConnects
  <2>5. CASE SendFails(s) \/ WriteFails(s)
    BY <2>5, TypeStreams, ControlStreams
  <2> QED  BY <1>2, <2>1, <2>2, <2>3, <2>4, <2>5 DEF Chance
<1>3. ASSUME NEW s \in Sessions, Environment(s) PROVE ControlInv'
  <2>1. CASE ClientLeaves(s)
    <3>1. TypeOK'
      BY <2>1 DEF ClientLeaves, TypeOK, loopVars, chanVars, xferVars
    <3> QED
      BY <2>1, <3>1, ControlStays DEF ClientLeaves, loopVars, chanVars, xferVars
  <2>2. CASE PeerConnects(s)
    <3>1. TypeOK'  BY <2>2 DEF PeerConnects, TypeOK, loopVars, xferVars
    <3> QED
      BY <2>2, <3>1, ControlStays DEF PeerConnects, loopVars, xferVars
  <2>3. CASE PeerSends(s) \/ PeerEnds(s, "shut") \/ PeerEnds(s, "reset")
    BY <2>3, TypeStreams, ControlStreams
  <2> QED  BY <1>3, <2>1, <2>2, <2>3 DEF Environment
<1>4. CASE UNCHANGED vars
  <2>1. TypeOK'  BY <1>4 DEF vars, TypeOK, loopVars, chanVars, xferVars
  <2> QED  BY <1>4, <2>1, ControlStays DEF vars, loopVars, chanVars, xferVars
<1> QED  BY <1>1, <1>2, <1>3, <1>4 DEF Next, Terminated

\* The control invariant holds of every reachable state.
THEOREM ControlAlways == Spec => []ControlInv
BY ControlInit, ControlStep, PTL DEF Spec

\* Every variable keeps its type, whatever the client and the network do.
THEOREM TypeCorrect == Spec => []TypeOK
<1>1. ControlInv => TypeOK  BY DEF ControlInv
<1> QED  BY <1>1, ControlAlways, PTL

\* PORT and PASV are never both in force, so the two bug() calls of
\* port_active and pasv_active, and their endless recursion, are unreachable.
THEOREM OneChannelAlways == Spec => []OneChannel
<1>1. ControlInv => OneChannel  BY DEF ControlInv, Control
<1> QED  BY <1>1, ControlAlways, PTL

\* The bug() of init_data_sock_params is unreachable: no session that reads,
\* dispatches or connects still has the data socket of an earlier transfer.
THEOREM NoDataSockLeftAlways == Spec => []NoDataSockLeft
<1>1. ControlInv => NoDataSockLeft
  BY DEF ControlInv, Control, DataSockWhere, NoDataSockLeft
<1> QED  BY <1>1, ControlAlways, PTL

=============================================================================
