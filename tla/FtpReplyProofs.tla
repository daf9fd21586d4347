--------------------------- MODULE FtpReplyProofs ---------------------------
(***************************************************************************)
(* What FtpSession promises about RNFR and RNTO, the pool of a command and *)
(* its replies, machine-checked for every value of the constants; that     *)
(* every session keeps to the dialogue of FtpDialogue; and that one whose  *)
(* client has gone runs down.                                              *)
(***************************************************************************)
EXTENDS FtpSessionProofs

\* Where a worker is while it runs RETR, LIST or an upload.
Busy == {"fd", "accept", "transfer", "dispose", "complete", "cleanup"}

\* The replies that end a transfer.
Concluding == {226, 426, 451}

Says(s, C) == \E i \in DOMAIN out[s] : out[s][i] \in C

\* Everything there was to move has been moved.
Moved(s) == IF verb[s] \in Uploads
            THEN data[s].moved = data[s].sent /\ data[s].peer = "shut"
            ELSE data[s].moved = data[s].want

\* The flag rnfrto follows the answer to RNFR, and is kept for one command.
RenameInv(s) ==
    /\ pc[s] \in Busy \cup {"start"} => ~rnfrto[s]
    /\ pc[s] = "start" => verb[s] # "RNFR"
    /\ pc[s] = "dispatch" => /\ rnfrto[s] <=> granted[s] # NoPath
                             /\ rnfrto[s] => tempName[s] = granted[s]
    /\ pc[s] = "command" \/ (pc[s] = "loop" /\ rc[s]) =>
           /\ rnfrto[s] <=> verb[s] = "RNFR" /\ out[s] = <<350>>
           /\ rnfrto[s] => tempName[s] = arg[s] /\ arg[s] # NoPath

\* What the pool of the command holds open.
PoolInv(s) ==
    /\ pc[s] \in {"start", "command", "dispatch"} => loopPool[s] = {}
    /\ pc[s] = "loop" /\ rc[s] => loopPool[s] = {}
    /\ pc[s] \in Busy /\ verb[s] = "LIST" => "file" \notin loopPool[s]
    /\ pc[s] \in Busy /\ verb[s] # "LIST" /\ "sock" \in loopPool[s]
           => pc[s] \in {"transfer", "dispose"}
    /\ pc[s] = "cleanup" => verb[s] # "LIST"

\* The channel of a transfer is gone once the transfer is over.
UsedInv(s) ==
    /\ \/ pc[s] \in {"start", "dispatch", "fd", "accept", "transfer"}
       \/ pc[s] \in {"dispose", "complete"} /\ verb[s] # "LIST"
       => ~Says(s, Concluding)
    /\ /\ pc[s] \in {"loop", "command"}
       /\ verb[s] \in Transfers \ {"LIST"}
       /\ Says(s, Concluding)
       => ~ChannelReady(s) /\ backlog[s] = 0

\* The status 226 stands for a complete transfer, and 226 is said of it alone.
MovedInv(s) ==
    /\ pc[s] \in {"dispatch", "fd", "accept", "transfer"} => status[s] = 0
    /\ status[s] = 226 => Moved(s)
    /\ Says(s, {226}) => status[s] = 226

\* The conclusion of a command has been said.
Done(s) == Dialogue!Concluded(out[s])

\* What STOU says before it goes for a connection, the others nothing.
Preamble(s) == IF verb[s] = "STOU" THEN <<150>> ELSE <<>>

\* What exactly has been said at each place.
AnswerInv(s) ==
    /\ pc[s] = "start" => out[s] = <<>> /\ verb[s] = "NONE"
    /\ pc[s] = "dispatch" => out[s] = <<>>
    /\ pc[s] \in Busy => verb[s] \in Transfers
    /\ pc[s] \in {"fd", "accept"} => out[s] = Preamble(s)
    /\ \/ pc[s] \in {"transfer", "complete"}
       \/ pc[s] = "dispose" /\ verb[s] # "LIST"
       => out[s] = Append(Preamble(s), 150)
    /\ pc[s] = "cleanup" \/ (pc[s] = "dispose" /\ verb[s] = "LIST") => Done(s)
    /\ pc[s] = "loop" /\ rc[s] =>
           Done(s) \/ (out[s] = <<>> /\ verb[s] = "SITE")

\* With the APR file operations a file that is not whole has been noticed, and
\* what the transfer is to end with is 451.
IntactInv(s) ==
    ~LklFileApis => \/ data[s].stored = "whole"
                    \/ data[s].stored = "damaged" /\ status[s] = 451

ReplyInv(s) == /\ RenameInv(s) /\ PoolInv(s) /\ UsedInv(s) /\ MovedInv(s)
               /\ AnswerInv(s) /\ IntactInv(s)

-----------------------------------------------------------------------------
(* A step of one session leaves the others alone.                          *)

Untouched(t) ==
    /\ pc'[t] = pc[t] /\ verb'[t] = verb[t] /\ arg'[t] = arg[t]
    /\ rc'[t] = rc[t] /\ rnfrto'[t] = rnfrto[t] /\ tempName'[t] = tempName[t]
    /\ granted'[t] = granted[t] /\ pasvFd'[t] = pasvFd[t]
    /\ portAddr'[t] = portAddr[t] /\ backlog'[t] = backlog[t]
    /\ loopPool'[t] = loopPool[t] /\ status'[t] = status[t]
    /\ out'[t] = out[t] /\ data'[t] = data[t]

LEMMA UntouchedKeeps ==
    ASSUME NEW t \in Sessions, ReplyInv(t), Untouched(t)
    PROVE  ReplyInv(t)'
<1> USE DEF ReplyInv, Untouched
<1>1. RenameInv(t)'  BY DEF RenameInv
<1>2. PoolInv(t)'  BY DEF PoolInv
<1>3. UsedInv(t)'  BY DEF UsedInv, Says, ChannelReady
<1>4. MovedInv(t)'  BY DEF MovedInv, Moved, Says
<1>5. AnswerInv(t)'  BY DEF AnswerInv, Done, Preamble
<1>6. IntactInv(t)'  BY DEF IntactInv
<1> QED  BY <1>1, <1>2, <1>3, <1>4, <1>5, <1>6

LEMMA FrameThread ==
    ASSUME TypeOK, NEW s \in Sessions, NEW t \in Sessions, t # s,
           \/ SessCreateFails(s) \/ EmitGreeting(s) \/ LoopTop(s)
           \/ ReceiveCommand(s) \/ EndOfStream(s) \/ EmptyLine(s)
           \/ SessDestroy(s) \/ ThreadExit(s)
    PROVE  Untouched(t)
<1> USE DEF TypeOK, Untouched, loopVars, chanVars, xferVars, Goto
<1>1. CASE SessCreateFails(s)  BY <1>1 DEF SessCreateFails
<1>2. CASE EmitGreeting(s)  BY <1>2 DEF EmitGreeting, Write
<1>3. CASE LoopTop(s)  BY <1>3 DEF LoopTop
<1>4. CASE ReceiveCommand(s)  BY <1>4 DEF ReceiveCommand
<1>5. CASE EndOfStream(s) \/ EmptyLine(s)  BY <1>5 DEF EndOfStream, EmptyLine
<1>6. CASE SessDestroy(s)  BY <1>6 DEF SessDestroy
<1>7. CASE ThreadExit(s)
  BY <1>7 DEF ThreadExit, CommunicationCleanup, PortCleanup, PasvCleanup
<1> QED  BY <1>1, <1>2, <1>3, <1>4, <1>5, <1>6, <1>7

LEMMA FrameAnswers ==
    ASSUME TypeOK, NEW s \in Sessions, NEW t \in Sessions, t # s,
           \/ HandlePlain(s) \/ HandleFeat(s) \/ HandleSite(s)
           \/ HandleSiteNull(s) \/ HandleQuit(s) \/ HandlePortNull(s)
           \/ HandleRnfr(s) \/ HandleRnto(s) \/ BadSequence(s)
           \/ HandlePasv(s) \/ HandlePort(s) \/ NeitherActive(s)
    PROVE  Untouched(t)
<1> USE DEF TypeOK, Untouched, loopVars, chanVars, xferVars, Goto, Write,
            Return, ReturnWrite
<1>1. CASE HandlePlain(s)  BY <1>1 DEF HandlePlain
<1>2. CASE HandleFeat(s)  BY <1>2 DEF HandleFeat
<1>3. CASE HandleSite(s)  BY <1>3 DEF HandleSite
<1>4. CASE HandleSiteNull(s) \/ HandlePortNull(s) \/ NeitherActive(s)
  BY <1>4 DEF HandleSiteNull, HandlePortNull, NeitherActive, ProcessExit
<1>5. CASE HandleQuit(s)  BY <1>5 DEF HandleQuit
<1>6. CASE HandleRnfr(s)  BY <1>6 DEF HandleRnfr
<1>7. CASE HandleRnto(s)  BY <1>7 DEF HandleRnto
<1>8. CASE BadSequence(s)  BY <1>8 DEF BadSequence
<1>9. CASE HandlePasv(s)  BY <1>9 DEF HandlePasv, PortCleanup
<1>10. CASE HandlePort(s)
  BY <1>10 DEF HandlePort, PasvCleanup, PortCleanup, ReturnError
<1> QED  BY <1>1, <1>2, <1>3, <1>4, <1>5, <1>6, <1>7, <1>8, <1>9, <1>10

LEMMA FrameTransfer ==
    ASSUME TypeOK, NEW s \in Sessions, NEW t \in Sessions, t # s,
           \/ HandleRetr(s) \/ HandleUpload(s) \/ HandleList(s)
           \/ AwaitPasv(s) \/ AcceptPasv(s) \/ AcceptFails(s)
           \/ ConnectPort(s) \/ ConnectFails(s)
           \/ Dispose(s) \/ Complete(s) \/ Cleanup(s)
    PROVE  Untouched(t)
<1> USE DEF TypeOK, Untouched, loopVars, chanVars, xferVars, Goto, Write,
            Return
<1>1. CASE HandleRetr(s)
  BY <1>1 DEF HandleRetr, Refuse, GetTransferFd, ReturnWrite, ReturnError
<1>2. CASE HandleUpload(s)
  BY <1>2 DEF HandleUpload, Refuse, GetTransferFd, ReturnWrite, ReturnError
<1>3. CASE HandleList(s)
  BY <1>3 DEF HandleList, Refuse, GetTransferFd, ReturnWrite, ReturnError
<1>4. CASE AwaitPasv(s)  BY <1>4 DEF AwaitPasv
<1>5. CASE AcceptPasv(s) \/ ConnectPort(s)
  BY <1>5 DEF AcceptPasv, ConnectPort, Connected
<1>6. CASE AcceptFails(s) \/ ConnectFails(s)
  <2>1. PICK left : NotConnected(s, left)
    BY <1>6 DEF AcceptFails, ConnectFails
  <2> QED
    BY <2>1 DEF NotConnected, ReturnError, CommunicationCleanup, PortCleanup,
                PasvCleanup
<1>7. CASE Dispose(s)  BY <1>7 DEF Dispose
<1>8. CASE Complete(s)  BY <1>8 DEF Complete
<1>9. CASE Cleanup(s)
  BY <1>9 DEF Cleanup, CommunicationCleanup, PortCleanup, PasvCleanup
<1> QED  BY <1>1, <1>2, <1>3, <1>4, <1>5, <1>6, <1>7, <1>8, <1>9

LEMMA FrameStreams ==
    ASSUME TypeOK, NEW s \in Sessions, NEW t \in Sessions, t # s,
           \/ SendChunk(s) \/ SendEnds(s) \/ SendFails(s) \/ SendListing(s)
           \/ RecvChunk(s) \/ RecvEnds(s) \/ RecvFails(s) \/ WriteFails(s)
           \/ Environment(s)
    PROVE  Untouched(t)
<1> USE DEF TypeOK, Untouched, loopVars, chanVars, xferVars
<1>1. CASE ClientLeaves(s)  BY <1>1 DEF ClientLeaves
<1>2. CASE PeerConnects(s)  BY <1>2 DEF PeerConnects
<1>3. CASE ~ClientLeaves(s) /\ ~PeerConnects(s)
  <2>1. StreamStays
    BY <1>3 DEF SendChunk, SendEnds, SendFails, SendListing, RecvChunk,
                RecvEnds, RecvFails, WriteFails, Environment, PeerSends, PeerEnds
  <2>2. data' = data \/ \E d : data' = [data EXCEPT ![s] = d]
    BY <1>3 DEF SendChunk, SendEnds, SendFails, SendListing, RecvChunk,
                RecvEnds, RecvFails, WriteFails, Environment, PeerSends, PeerEnds
  <2>3. UNCHANGED <<pc, status>> \/ \E code : Finish(s, code)
    BY <1>3 DEF SendChunk, SendEnds, SendFails, SendListing, RecvChunk,
                RecvEnds, RecvFails, WriteFails, Environment, PeerSends, PeerEnds
  <2> QED  BY <2>1, <2>2, <2>3 DEF StreamStays, Finish, Goto
<1> QED  BY <1>1, <1>2, <1>3

\* A step of the session s leaves every other session as it is.
LEMMA Frame ==
    ASSUME TypeOK, NEW s \in Sessions, NEW t \in Sessions, t # s,
           Progress(s) \/ Chance(s) \/ Environment(s)
    PROVE  Untouched(t)
BY FrameThread, FrameAnswers, FrameTransfer, FrameStreams
DEF Progress, Chance

-----------------------------------------------------------------------------
(* What a reply adds.                                                      *)

\* The codes that conclude.
Conclusions == 200..399 \cup 400..599

LEMMA WriteSays ==
    ASSUME TypeOK, NEW s \in Sessions, NEW code \in Codes, Write(s, code)
    PROVE  /\ out'[s] = Append(out[s], code)
           /\ Done(s)' <=> code \in Conclusions
           /\ \A C : Says(s, C)' <=> Says(s, C) \/ code \in C
<1>1. out'[s] = Append(out[s], code)  BY DEF Write, TypeOK
<1>2. out[s] \in Seq(Codes)  BY DEF TypeOK
<1>3. /\ Len(out'[s]) = Len(out[s]) + 1
      /\ out'[s][Len(out[s]) + 1] = code
      /\ \A i \in 1..Len(out[s]) : out'[s][i] = out[s][i]
      /\ DOMAIN out[s] = 1..Len(out[s])
      /\ DOMAIN out'[s] = 1..(Len(out[s]) + 1)
      /\ Len(out[s]) \in Nat
  BY <1>1, <1>2
<1>4. out'[s] # <<>>  BY <1>3
<1>5. Done(s)' <=> code \in Conclusions
  BY <1>3, <1>4 DEF Done, Dialogue!Concluded, Dialogue!Success,
     Dialogue!Refusal, Conclusions
<1>6. ASSUME NEW C PROVE Says(s, C)' <=> Says(s, C) \/ code \in C
  <2>1. 1..(Len(out[s]) + 1) = 1..Len(out[s]) \cup {Len(out[s]) + 1}  BY <1>3
  <2> QED  BY <1>3, <2>1 DEF Says
<1> QED  BY <1>1, <1>5, <1>6

\* The first reply to a command.
LEMMA FirstReply ==
    ASSUME TypeOK, NEW s \in Sessions, out[s] = <<>>, NEW code \in Codes,
           Write(s, code)
    PROVE  /\ out'[s] = <<code>>
           /\ Done(s)' <=> code \in Conclusions
           /\ \A C : Says(s, C)' <=> code \in C
<1>1. ASSUME NEW C PROVE ~Says(s, C)  BY DEF Says
<1> QED  BY <1>1, WriteSays

\* The handlers that only answer never say 226, 350, 426 or 451, nor 1xx.
LEMMA PlainAnswers ==
    ASSUME NEW v \in Plain, NEW code \in PlainReplies[v]
    PROVE  code \in Codes \ {226, 350, 426, 451} /\ code \in Conclusions
           /\ v \notin Transfers /\ v \notin {"SITE", "RNFR", "RNTO"}
BY PlainCodes DEF Plain, PlainReplies, Transfers, Uploads, Conclusions

LEMMA Named ==
    /\ {150, 200, 211, 211 + FTP_MORE, 214, 220, 221, 226, 227, 250} \subseteq Codes
    /\ {350, 425, 426, 451, 500, 501, 502, 503, 550, 553} \subseteq Codes
BY NamedCodes DEF HandlerCodes

LEMMA NamedConclude ==
    /\ {200, 211, 214, 220, 221, 226, 227, 250, 350} \subseteq Conclusions
    /\ {425, 426, 451, 500, 501, 502, 503, 550, 553} \subseteq Conclusions
    /\ 150 \notin Conclusions
BY DEF Conclusions

-----------------------------------------------------------------------------
(* Steps of the thread itself.                                             *)

LEMMA ReplyThread ==
    ASSUME TypeOK, NEW s \in Sessions, ReplyInv(s),
           \/ SessCreateFails(s) \/ EmitGreeting(s) \/ LoopTop(s)
           \/ EndOfStream(s) \/ EmptyLine(s) \/ SessDestroy(s)
           \/ ThreadExit(s) \/ HandleQuit(s)
    PROVE  ReplyInv(s)'
<1> USE DEF loopVars, chanVars, xferVars, At, Goto
<1>1. CASE pc'[s] \in {"destroy", "exit", "exited"}
  <2>1. UNCHANGED <<verb, rnfrto, status, data>>
    BY DEF SessCreateFails, EmitGreeting, LoopTop, EndOfStream, EmptyLine,
           SessDestroy, ThreadExit, HandleQuit
  <2>2. Says(s, {226})' => Says(s, {226})
    <3>1. CASE out' = out  BY <3>1 DEF Says
    <3>2. CASE Write(s, 220) \/ Write(s, 221)
      BY <3>2, Named, WriteSays
    <3> QED
      BY <3>1, <3>2 DEF SessCreateFails, EmitGreeting, LoopTop, EndOfStream,
             EmptyLine, SessDestroy, ThreadExit, HandleQuit
  <2> QED
    BY <1>1, <2>1, <2>2 DEF ReplyInv, RenameInv, PoolInv, UsedInv, MovedInv,
           Moved, AnswerInv, IntactInv, Busy
<1>2. CASE EmitGreeting(s) /\ pc'[s] = "loop"
  <2>1. /\ pc[s] = "start"
        /\ UNCHANGED <<verb, rnfrto, status, data, loopPool>>
        /\ Write(s, 220)
    BY <1>2 DEF EmitGreeting
  <2>2. Done(s)' /\ \A C : Says(s, C)' <=> Says(s, C) \/ 220 \in C
    BY <2>1, Named, NamedConclude, WriteSays
  <2>3. RenameInv(s)'  BY <1>2, <2>1 DEF ReplyInv, RenameInv, Busy
  <2>4. PoolInv(s)'  BY <1>2, <2>1 DEF ReplyInv, PoolInv, Busy
  <2>5. UsedInv(s)'
    BY <1>2, <2>1, <2>2 DEF ReplyInv, UsedInv, Concluding
  <2>6. MovedInv(s)'  BY <1>2, <2>1, <2>2 DEF ReplyInv, MovedInv, Moved
  <2>7. AnswerInv(s)'  BY <1>2, <2>1, <2>2 DEF AnswerInv, Busy
  <2>8. IntactInv(s)'  BY <2>1 DEF ReplyInv, IntactInv
  <2> QED  BY <2>3, <2>4, <2>5, <2>6, <2>7, <2>8 DEF ReplyInv
<1>3. CASE LoopTop(s) /\ pc'[s] = "command"
  <2>1. /\ pc[s] = "loop" /\ rc[s] /\ loopPool'[s] = {}
        /\ UNCHANGED <<verb, arg, rnfrto, tempName, status, data, out>>
        /\ UNCHANGED <<pasvFd, portAddr, backlog>>
    BY <1>3 DEF LoopTop, TypeOK
  <2>2. RenameInv(s)'  BY <1>3, <2>1 DEF ReplyInv, RenameInv, Busy
  <2>3. PoolInv(s)'  BY <1>3, <2>1 DEF PoolInv, Busy
  <2>4. UsedInv(s)'  BY <1>3, <2>1 DEF ReplyInv, UsedInv, Says, ChannelReady
  <2>5. MovedInv(s)'  BY <1>3, <2>1 DEF ReplyInv, MovedInv, Moved, Says
  <2>6. AnswerInv(s)'  BY <1>3, <2>1 DEF AnswerInv, Busy
  <2>7. IntactInv(s)'  BY <2>1 DEF ReplyInv, IntactInv
  <2> QED  BY <2>2, <2>3, <2>4, <2>5, <2>6, <2>7 DEF ReplyInv
<1>4. \/ pc'[s] \in {"destroy", "exit", "exited"}
      \/ EmitGreeting(s) /\ pc'[s] = "loop"
      \/ LoopTop(s) /\ pc'[s] = "command"
  BY DEF SessCreateFails, EmitGreeting, LoopTop, EndOfStream, EmptyLine,
         SessDestroy, ThreadExit, HandleQuit, TypeOK
<1> QED  BY <1>1, <1>2, <1>3, <1>4

LEMMA ReplyReceive ==
    ASSUME TypeOK, NEW s \in Sessions, ReplyInv(s), ReceiveCommand(s)
    PROVE  ReplyInv(s)'
<1>1. /\ pc[s] = "command" /\ pc'[s] = "dispatch"
      /\ out'[s] = <<>> /\ data'[s] = NoData /\ status'[s] = 0
      /\ granted'[s] = IF verb[s] = "RNFR" /\ out[s] = <<350>> THEN arg[s]
                                                               ELSE NoPath
      /\ UNCHANGED <<rnfrto, tempName, loopPool>>
  BY DEF ReceiveCommand, At, Goto, TypeOK
<1>2. RenameInv(s)'  BY <1>1 DEF ReplyInv, RenameInv, Busy
<1>3. PoolInv(s)'  BY <1>1 DEF ReplyInv, PoolInv, Busy
<1>4. ASSUME NEW C PROVE ~Says(s, C)'  BY <1>1 DEF Says
<1>5. UsedInv(s)' /\ MovedInv(s)'  BY <1>1, <1>4 DEF UsedInv, MovedInv
<1>6. AnswerInv(s)'  BY <1>1 DEF AnswerInv, Busy
<1>7. IntactInv(s)'  BY <1>1 DEF IntactInv, NoData
<1> QED  BY <1>2, <1>3, <1>5, <1>6, <1>7 DEF ReplyInv

-----------------------------------------------------------------------------
(* Commands that are answered at once.                                     *)

\* What a handler that moves nothing and opens nothing has to get right.
LEMMA ReplyReturns ==
    ASSUME NEW s \in Sessions, ReplyInv(s),
           pc[s] = "dispatch", pc'[s] = "loop",
           UNCHANGED <<verb, arg, status, data>>,
           rc'[s] => loopPool'[s] = {},
           ~Says(s, Concluding)',
           rc'[s] => /\ rnfrto'[s] <=> verb[s] = "RNFR" /\ out'[s] = << 350 >>
                     /\ rnfrto'[s] => tempName'[s] = arg[s] /\ arg[s] # NoPath,
           rc'[s] => Done(s)' \/ (out'[s] = <<>> /\ verb[s] = "SITE")
    PROVE  ReplyInv(s)'
<1>1. RenameInv(s)'  BY DEF RenameInv, Busy
<1>2. PoolInv(s)'  BY DEF PoolInv, Busy
<1>3. UsedInv(s)'  BY DEF UsedInv
<1>4. ~Says(s, {226})'  BY DEF Says, Concluding
<1>5. MovedInv(s)'  BY <1>4 DEF ReplyInv, MovedInv, Moved
<1>6. AnswerInv(s)'  BY DEF AnswerInv, Busy
<1>7. IntactInv(s)'  BY DEF ReplyInv, IntactInv
<1> QED  BY <1>1, <1>2, <1>3, <1>5, <1>6, <1>7 DEF ReplyInv

\* A session is where it has gone.
LEMMA Arrives ==
    ASSUME TypeOK, NEW s \in Sessions, NEW where, Goto(s, where)
    PROVE  pc'[s] = where
BY DEF Goto, TypeOK

\* One reply, and no more than that, while no RNFR is pending.
LEMMA ReplyOnce ==
    ASSUME TypeOK, NEW s \in Sessions, ReplyInv(s), pc[s] = "dispatch",
           NEW code \in Codes \ {226, 350, 426, 451}, Write(s, code),
           pc'[s] = "loop",
           rc'[s] => code \in Conclusions /\ loopPool'[s] = loopPool[s],
           UNCHANGED <<verb, arg, status, data>>, ~rnfrto'[s]
    PROVE  ReplyInv(s)'
<1>1. out[s] = <<>> /\ loopPool[s] = {}
  BY DEF ReplyInv, AnswerInv, PoolInv
<1>2. /\ out'[s] = <<code>> /\ (Done(s)' <=> code \in Conclusions)
      /\ \A C : Says(s, C)' <=> code \in C
  BY <1>1, FirstReply
<1>3. <<code>> # <<350>>  OBVIOUS
<1> QED  BY <1>1, <1>2, <1>3, ReplyReturns DEF Concluding

LEMMA ReplyAnswers ==
    ASSUME TypeOK, NEW s \in Sessions, ReplyInv(s),
           \/ HandlePlain(s) \/ HandleFeat(s) \/ HandleSite(s)
           \/ HandleRnfr(s) \/ HandleRnto(s) \/ BadSequence(s)
    PROVE  ReplyInv(s)'
<1> USE DEF loopVars, chanVars, xferVars, Dispatches, At
<1>1. CASE HandlePlain(s)
  <2>1. PICK v \in Plain :
          /\ Dispatches(s, v)
          /\ \E code \in PlainReplies[v] :
               IF v \in DropsWriteResult THEN Write(s, code) /\ Return(s, TRUE)
                                         ELSE ReturnWrite(s, code)
    BY <1>1 DEF HandlePlain
  <2>2. PICK code \in PlainReplies[v] :
          IF v \in DropsWriteResult THEN Write(s, code) /\ Return(s, TRUE)
                                    ELSE ReturnWrite(s, code)
    BY <2>1
  <2>3. Write(s, code) /\ pc'[s] = "loop"  BY <2>2, Arrives DEF Return, ReturnWrite
  <2>4. UNCHANGED <<verb, arg, rnfrto, status, data, loopPool>>
    BY <1>1 DEF HandlePlain
  <2>5. /\ code \in Codes \ {226, 350, 426, 451} /\ code \in Conclusions
        /\ pc[s] = "dispatch" /\ ~rnfrto[s]
    BY <2>1, PlainAnswers
  <2> QED  BY <2>3, <2>4, <2>5, ReplyOnce
<1>2. CASE HandleFeat(s)
  <2>1. out[s] = <<>> /\ loopPool[s] = {} /\ ~rnfrto[s] /\ verb[s] = "FEAT"
    BY <1>2 DEF HandleFeat, ReplyInv, AnswerInv, PoolInv
  <2>2. out'[s] = <<211 + FTP_MORE, 211>>
    BY <1>2, <2>1 DEF HandleFeat, TypeOK
  <2>3. Done(s)' /\ ~Says(s, Concluding)' /\ out'[s] # <<350>>
    <3>1. Len(out'[s]) = 2 /\ out'[s][2] = 211 /\ out'[s][1] = 211 + FTP_MORE
      BY <2>2
    <3>2. DOMAIN out'[s] = {1, 2}  BY <2>2
    <3>3. 211 + FTP_MORE \notin Concluding /\ 211 \notin Concluding
      BY DEF FTP_MORE, Concluding
    <3>4. out'[s] # <<>> /\ out'[s] # <<350>>  BY <3>1
    <3>5. Done(s)'
      BY <3>1, <3>4 DEF Done, Dialogue!Concluded, Dialogue!Success
    <3> QED  BY <3>1, <3>2, <3>3, <3>4, <3>5 DEF Says
  <2>4. pc'[s] = "loop"  BY <1>2 DEF HandleFeat, Return, Goto, TypeOK
  <2> QED  BY <1>2, <2>1, <2>3, <2>4, ReplyReturns DEF HandleFeat
<1>3. CASE HandleSite(s)
  <2>1. CASE \E code \in {214, 500} : ReturnWrite(s, code)
    BY <1>3, <2>1, Arrives, Named, NamedConclude, ReplyOnce DEF HandleSite, ReturnWrite, Return
  <2>2. CASE Return(s, TRUE) /\ UNCHANGED out
    <3>1. out[s] = <<>> /\ loopPool[s] = {} /\ ~rnfrto[s] /\ verb[s] = "SITE"
      BY <1>3 DEF HandleSite, ReplyInv, AnswerInv, PoolInv
    <3>2. pc'[s] = "loop"  BY <2>2 DEF Return, Goto, TypeOK
    <3>3. ~Says(s, Concluding)'  BY <2>2, <3>1 DEF Says
    <3> QED  BY <1>3, <2>2, <3>1, <3>2, <3>3, ReplyReturns DEF HandleSite
  <2> QED  BY <1>3, <2>1, <2>2 DEF HandleSite
<1>4. CASE HandleRnfr(s)
  <2>1. out[s] = <<>> /\ loopPool[s] = {} /\ ~rnfrto[s] /\ verb[s] = "RNFR"
    BY <1>4 DEF HandleRnfr, ReplyInv, AnswerInv, PoolInv
  <2>2. PICK ok \in BOOLEAN, found \in BOOLEAN :
          /\ Return(s, ok)
          /\ IF arg[s] # NoPath /\ found
             THEN /\ Write(s, 350)
                  /\ tempName' = [tempName EXCEPT ![s] = arg[s]]
                  /\ rnfrto' = [rnfrto EXCEPT ![s] = ok]
             ELSE /\ Write(s, 550)
                  /\ tempName' = [tempName EXCEPT ![s] = NoPath]
                  /\ UNCHANGED rnfrto
    BY <1>4 DEF HandleRnfr
  <2>3. pc'[s] = "loop" /\ rc'[s] = ok  BY <2>2 DEF Return, Goto, TypeOK
  <2>4. CASE arg[s] # NoPath /\ found
    <3>1. out'[s] = <<350>> /\ Done(s)' /\ ~Says(s, Concluding)'
      BY <2>1, <2>2, <2>4, Named, NamedConclude, FirstReply DEF Concluding
    <3>2. rnfrto'[s] = ok /\ tempName'[s] = arg[s]
      BY <2>2, <2>4 DEF TypeOK
    <3>3. UNCHANGED <<verb, arg, status, data, loopPool>>
      BY <1>4 DEF HandleRnfr
    <3>4. rc'[s] => /\ rnfrto'[s] <=> verb[s] = "RNFR" /\ out'[s] = <<350>>
                    /\ rnfrto'[s] => tempName'[s] = arg[s] /\ arg[s] # NoPath
      BY <2>1, <2>3, <2>4, <3>1, <3>2
    <3>5. pc[s] = "dispatch"  BY <1>4 DEF HandleRnfr
    <3> QED  BY <2>1, <2>3, <3>1, <3>3, <3>4, <3>5, ReplyReturns
  <2>5. CASE ~(arg[s] # NoPath /\ found)
    BY <1>4, <2>1, <2>2, <2>3, <2>5, Named, NamedConclude, ReplyOnce DEF HandleRnfr
  <2> QED  BY <2>4, <2>5
<1>5. CASE HandleRnto(s)
  <2>1. \E code \in {250, 501} : ReturnWrite(s, code)  BY <1>5 DEF HandleRnto
  <2>2. ~rnfrto'[s]  BY <1>5 DEF HandleRnto, TypeOK
  <2> QED
    BY <1>5, <2>1, <2>2, Arrives, Named, NamedConclude, ReplyOnce
    DEF HandleRnto, ReturnWrite, Return
<1>6. CASE BadSequence(s)
  <2>1. ~rnfrto'[s]  BY <1>6 DEF BadSequence, TypeOK
  <2> QED
    BY <1>6, <2>1, Arrives, Named, NamedConclude, ReplyOnce
    DEF BadSequence, ReturnWrite, Return
<1> QED  BY <1>1, <1>2, <1>3, <1>4, <1>5, <1>6

LEMMA ReplyChannel ==
    ASSUME TypeOK, NEW s \in Sessions, ReplyInv(s),
           HandlePasv(s) \/ HandlePort(s)
    PROVE  ReplyInv(s)'
<1> USE DEF loopVars, chanVars, xferVars, Dispatches, At
<1>1. CASE HandlePasv(s)
  <2>1. CASE ReturnWrite(s, 227)
    BY <1>1, <2>1, Arrives, Named, NamedConclude, ReplyOnce DEF HandlePasv, ReturnWrite, Return
  <2>2. CASE Return(s, FALSE) /\ out' = out
    <3>1. pc'[s] = "loop" /\ ~rc'[s]  BY <2>2, Arrives DEF Return, TypeOK
    <3>2. out[s] = <<>>  BY <1>1 DEF HandlePasv, ReplyInv, AnswerInv
    <3>3. ~Says(s, Concluding)'  BY <2>2, <3>2 DEF Says
    <3> QED  BY <1>1, <3>1, <3>3, ReplyReturns DEF HandlePasv
  <2>3. PICK bound \in BOOLEAN, listening \in BOOLEAN :
          /\ pasvFd' = [pasvFd EXCEPT ![s] = bound]
          /\ IF bound /\ listening THEN ReturnWrite(s, 227)
                                   ELSE Return(s, FALSE) /\ UNCHANGED out
    BY <1>1 DEF HandlePasv
  <2>4. CASE bound /\ listening  BY <2>1, <2>3, <2>4
  <2>5. CASE ~(bound /\ listening)
    <3>1. Return(s, FALSE) /\ out' = out  BY <2>3, <2>5
    <3> QED  BY <2>2, <3>1
  <2> QED  BY <2>4, <2>5
<1>2. CASE HandlePort(s)
  <2>1. (Write(s, 200) \/ Write(s, 500)) /\ pc'[s] = "loop"
    BY <1>2, Arrives DEF HandlePort, ReturnError, Return
  <2>2. UNCHANGED <<verb, arg, rnfrto, status, data, loopPool>>
    BY <1>2 DEF HandlePort
  <2>3. pc[s] = "dispatch" /\ ~rnfrto[s]  BY <1>2 DEF HandlePort
  <2> QED  BY <2>1, <2>2, <2>3, Named, NamedConclude, ReplyOnce
<1> QED  BY <1>1, <1>2

-----------------------------------------------------------------------------
(* Transfers.                                                              *)

\* The transfer commands refuse ...
LEMMA ReplyRefuse ==
    ASSUME TypeOK, NEW s \in Sessions, ReplyInv(s), pc[s] = "dispatch",
           ~rnfrto[s], NEW code \in {425, 501, 550, 553},
           Write(s, code), Goto(s, "loop"), UNCHANGED <<loopVars, xferVars>>
    PROVE  ReplyInv(s)'
<1>1. UNCHANGED <<verb, arg, rnfrto, status, data, loopPool>>
  BY DEF loopVars, xferVars
<1> QED  BY <1>1, Named, NamedConclude, Arrives, ReplyOnce

\* ... or go for a data connection.
LEMMA ReplyGoes ==
    ASSUME TypeOK, NEW s \in Sessions, ReplyInv(s), pc[s] = "dispatch",
           ~rnfrto[s], verb[s] \in Transfers,
           NEW opened, NEW n, GetTransferFd(s, opened, n),
           opened = IF verb[s] = "LIST" THEN {} ELSE {"file"},
           IF verb[s] = "STOU" THEN Write(s, 150) ELSE UNCHANGED out,
           UNCHANGED loopVars
    PROVE  ReplyInv(s)'
<1>1. /\ pc'[s] = "fd" /\ loopPool'[s] = loopPool[s] \cup opened
      /\ data'[s] = [data[s] EXCEPT !.want = n]
      /\ UNCHANGED <<verb, rnfrto, status>>
  BY DEF GetTransferFd, Goto, TypeOK, loopVars
<1>2. /\ out[s] = <<>> /\ loopPool[s] = {} /\ status[s] = 0
      /\ LklFileApis \/ data[s].stored = "whole"
  BY DEF ReplyInv, AnswerInv, PoolInv, MovedInv, IntactInv
<1>3. ~Says(s, Concluding)' /\ out'[s] = Preamble(s)'
  <2>1. CASE verb[s] # "STOU"  BY <1>1, <1>2, <2>1 DEF Says, Preamble
  <2>2. CASE verb[s] = "STOU"
    BY <1>1, <1>2, <2>2, Named, FirstReply DEF Concluding, Preamble
  <2> QED  BY <2>1, <2>2
<1>4. ~Says(s, {226})'  BY <1>3 DEF Says, Concluding
<1>5. RenameInv(s)'  BY <1>1 DEF RenameInv
<1>6. PoolInv(s)'  BY <1>1, <1>2 DEF PoolInv
<1>7. UsedInv(s)'  BY <1>1, <1>3 DEF UsedInv
<1>8. MovedInv(s)'  BY <1>1, <1>2, <1>4 DEF MovedInv
<1>9. AnswerInv(s)'  BY <1>1, <1>3 DEF AnswerInv
<1>10. IntactInv(s)'
  <2>1. data[s] \in DataStreams  BY DEF TypeOK
  <2>2. data'[s].stored = data[s].stored  BY <1>1, <2>1 DEF DataStreams
  <2> QED  BY <1>2, <2>2 DEF IntactInv
<1> QED  BY <1>5, <1>6, <1>7, <1>8, <1>9, <1>10 DEF ReplyInv

LEMMA ReplyTransferStarts ==
    ASSUME TypeOK, NEW s \in Sessions, ReplyInv(s),
           HandleRetr(s) \/ HandleUpload(s) \/ HandleList(s)
    PROVE  ReplyInv(s)'
<1> USE DEF Dispatches, At
<1>1. /\ pc[s] = "dispatch" /\ ~rnfrto[s] /\ verb[s] \in Transfers
      /\ UNCHANGED loopVars
  <2>1. CASE HandleRetr(s)  BY <2>1 DEF HandleRetr, Transfers
  <2>2. CASE HandleUpload(s)  BY <2>2 DEF HandleUpload, Transfers
  <2>3. CASE HandleList(s)  BY <2>3 DEF HandleList, Transfers
  <2> QED  BY <2>1, <2>2, <2>3
<1>2. CASE HandleRetr(s)
  <2>1. verb[s] = "RETR" /\ verb[s] # "STOU"  BY <1>2 DEF HandleRetr
  <2>2. CASE \E code \in {425, 501, 550} :
                 Write(s, code) /\ Goto(s, "loop") /\ UNCHANGED xferVars
    BY <1>1, <2>2, ReplyRefuse
  <2>3. CASE (\E n : GetTransferFd(s, {"file"}, n)) /\ UNCHANGED out
    BY <1>1, <2>1, <2>3, ReplyGoes
  <2> QED
    BY <1>2, <2>2, <2>3
    DEF HandleRetr, Refuse, ReturnWrite, ReturnError, Return
<1>3. CASE HandleUpload(s)
  <2>1. verb[s] # "LIST"  BY <1>3 DEF HandleUpload, Uploads
  <2>2. CASE \E code \in {425, 501, 553} :
                 Write(s, code) /\ Goto(s, "loop") /\ UNCHANGED xferVars
    BY <1>1, <2>2, ReplyRefuse
  <2>3. CASE /\ GetTransferFd(s, {"file"}, 0)
             /\ IF verb[s] = "STOU" THEN Write(s, 150) ELSE UNCHANGED out
    BY <1>1, <2>1, <2>3, ReplyGoes
  <2>4. CASE ReturnError(s, 150) /\ UNCHANGED <<status, data>>
    <3>1. Write(s, 150) /\ pc'[s] = "loop" /\ ~rc'[s]
      BY <2>4, Arrives DEF ReturnError, Return, TypeOK
    <3> QED  BY <1>1, <2>4, <3>1, Named, NamedConclude, ReplyOnce DEF loopVars
  <2> QED
    BY <1>3, <2>2, <2>3, <2>4
    DEF HandleUpload, Refuse, ReturnWrite, ReturnError, Return
<1>4. CASE HandleList(s)
  <2>1. verb[s] = "LIST" /\ verb[s] # "STOU"  BY <1>4 DEF HandleList
  <2>2. CASE Write(s, 501) /\ Goto(s, "loop") /\ UNCHANGED xferVars
    BY <1>1, <2>2, ReplyRefuse
  <2>3. CASE (\E n : GetTransferFd(s, {}, n)) /\ UNCHANGED out
    BY <1>1, <2>1, <2>3, ReplyGoes
  <2> QED  BY <1>4, <2>2, <2>3 DEF HandleList, Refuse, ReturnWrite, Return
<1> QED  BY <1>2, <1>3, <1>4

LEMMA ReplyConnects ==
    ASSUME TypeOK, NEW s \in Sessions, ReplyInv(s),
           \/ AwaitPasv(s) \/ AcceptPasv(s) \/ AcceptFails(s)
           \/ ConnectPort(s) \/ ConnectFails(s)
    PROVE  ReplyInv(s)'
<1>1. /\ pc[s] \in {"fd", "accept"}
      /\ ~rnfrto[s] /\ status[s] = 0 /\ ~Says(s, Concluding)
      /\ verb[s] \in Transfers /\ out[s] = Preamble(s)
      /\ verb[s] = "LIST" => "file" \notin loopPool[s]
      /\ verb[s] # "LIST" => "sock" \notin loopPool[s]
      /\ LklFileApis \/ data[s].stored = "whole"
      /\ UNCHANGED <<verb, rnfrto, status, data>>
  <2>1. pc[s] \in {"fd", "accept"}
    BY DEF AwaitPasv, AcceptPasv, AcceptFails, ConnectPort, ConnectFails, At
  <2>2. UNCHANGED <<verb, rnfrto, status, data>>
    BY DEF AwaitPasv, AcceptPasv, AcceptFails, ConnectPort, ConnectFails,
           Connected, NotConnected, loopVars, xferVars
  <2> QED
    BY <2>1, <2>2 DEF ReplyInv, RenameInv, PoolInv, UsedInv, MovedInv,
       AnswerInv, IntactInv, Busy
<1>2. CASE AwaitPasv(s)
  <2>1. pc'[s] = "accept" /\ UNCHANGED <<out, loopPool>>
    BY <1>2, Arrives DEF AwaitPasv, xferVars
  <2>2. ~Says(s, Concluding)' /\ out'[s] = Preamble(s)'
    BY <1>1, <2>1 DEF Says, Preamble
  <2>3. ~Says(s, {226})'  BY <2>2 DEF Says, Concluding
  <2>4. RenameInv(s)' /\ PoolInv(s)'
    BY <1>1, <2>1 DEF RenameInv, PoolInv
  <2>5. UsedInv(s)' /\ MovedInv(s)'
    BY <1>1, <2>1, <2>2, <2>3 DEF UsedInv, MovedInv
  <2>6. AnswerInv(s)' /\ IntactInv(s)'
    BY <1>1, <2>1, <2>2 DEF AnswerInv, IntactInv
  <2> QED  BY <2>4, <2>5, <2>6 DEF ReplyInv
<1>3. CASE Connected(s)
  <2>1. /\ pc'[s] = "transfer" /\ Write(s, 150)
        /\ loopPool'[s] = loopPool[s] \cup {"sock"}
    BY <1>3, Arrives DEF Connected, TypeOK
  <2>2. ~Says(s, Concluding)' /\ out'[s] = Append(Preamble(s), 150)'
    <3>1. out'[s] = Append(out[s], 150)  BY <2>1, Named, WriteSays
    <3>2. ~Says(s, Concluding)'
      BY <1>1, <2>1, Named, WriteSays DEF Concluding
    <3>3. Preamble(s)' = Preamble(s)  BY <1>1 DEF Preamble
    <3> QED  BY <1>1, <3>1, <3>2, <3>3
  <2>3. ~Says(s, {226})'  BY <2>2 DEF Says, Concluding
  <2>4. RenameInv(s)' /\ PoolInv(s)'
    BY <1>1, <2>1 DEF RenameInv, PoolInv
  <2>5. UsedInv(s)' /\ MovedInv(s)'
    BY <1>1, <2>1, <2>2, <2>3 DEF UsedInv, MovedInv
  <2>6. AnswerInv(s)' /\ IntactInv(s)'
    BY <1>1, <2>1, <2>2 DEF AnswerInv, IntactInv
  <2> QED  BY <2>4, <2>5, <2>6 DEF ReplyInv
<1>4. ASSUME NEW left, NotConnected(s, left) PROVE ReplyInv(s)'
  <2>1. pc'[s] = "loop" /\ ~rc'[s] /\ Write(s, 425)
    BY <1>4, Arrives DEF NotConnected, ReturnError, Return, TypeOK
  <2>2. ~Says(s, Concluding)'
    BY <1>1, <2>1, Named, WriteSays DEF Concluding
  <2>3. ~Says(s, {226})'  BY <2>2 DEF Says, Concluding
  <2>4. RenameInv(s)' /\ PoolInv(s)'
    BY <1>1, <2>1 DEF RenameInv, PoolInv, Busy
  <2>5. UsedInv(s)' /\ MovedInv(s)'
    BY <1>1, <2>1, <2>2, <2>3 DEF UsedInv, MovedInv
  <2>6. AnswerInv(s)' /\ IntactInv(s)'
    BY <1>1, <2>1 DEF AnswerInv, IntactInv, Busy
  <2> QED  BY <2>4, <2>5, <2>6 DEF ReplyInv
<1> QED
  BY <1>2, <1>3, <1>4 DEF AcceptPasv, AcceptFails, ConnectPort, ConnectFails

\* While data moves, the status is still open and nothing is said.
LEMMA ReplyMoves ==
    ASSUME TypeOK, NEW s \in Sessions, ReplyInv(s), pc[s] = "transfer",
           StreamStays, UNCHANGED <<pc, status>>,
           LklFileApis \/ data'[s].stored = data[s].stored
    PROVE  ReplyInv(s)'
<1>1. UNCHANGED <<pc, rc, verb, arg, rnfrto, tempName, granted, loopPool,
                  status, out>>
  BY DEF StreamStays, loopVars
<1>2. status[s] = 0 /\ UNCHANGED <<pasvFd, portAddr, backlog>>
  BY DEF ReplyInv, MovedInv, StreamStays, chanVars
<1>3. RenameInv(s)'  BY <1>1 DEF ReplyInv, RenameInv
<1>4. PoolInv(s)'  BY <1>1 DEF ReplyInv, PoolInv
<1>5. UsedInv(s)'  BY <1>1, <1>2 DEF ReplyInv, UsedInv, Says, ChannelReady
<1>6. MovedInv(s)'  BY <1>1, <1>2 DEF ReplyInv, MovedInv, Says
<1>7. AnswerInv(s)'  BY <1>1 DEF ReplyInv, AnswerInv, Done, Preamble
<1>8. IntactInv(s)'  BY <1>1 DEF ReplyInv, IntactInv
<1> QED  BY <1>3, <1>4, <1>5, <1>6, <1>7, <1>8 DEF ReplyInv

\* The loop ends; 226 is right when everything has moved, and nothing but 451
\* when the file lacks what could not be written.
LEMMA ReplyFinish ==
    ASSUME TypeOK, NEW s \in Sessions, ReplyInv(s), pc[s] = "transfer",
           StreamStays, NEW code, Finish(s, code),
           code = 226 => Moved(s)',
           \/ LklFileApis \/ data'[s].stored = data[s].stored
           \/ data'[s].stored = "damaged" /\ code = 451
    PROVE  ReplyInv(s)'
<1>1. /\ UNCHANGED <<rc, verb, rnfrto, loopPool, out>>
      /\ status'[s] = code
      /\ pc'[s] = IF verb[s] = "LIST" THEN "complete" ELSE "dispose"
  BY Arrives DEF StreamStays, Finish, loopVars, TypeOK
<1>2. /\ ~rnfrto[s] /\ ~Says(s, Concluding) /\ verb[s] \in Transfers
      /\ out[s] = Append(Preamble(s), 150)
      /\ verb[s] = "LIST" => "file" \notin loopPool[s]
      /\ LklFileApis \/ data[s].stored = "whole"
  BY DEF ReplyInv, RenameInv, UsedInv, MovedInv, AnswerInv, PoolInv, IntactInv,
         Busy
<1>3. ~Says(s, Concluding)'  BY <1>1, <1>2 DEF Says
<1>4. ~Says(s, {226})'  BY <1>3 DEF Says, Concluding
<1>5. RenameInv(s)'  BY <1>1, <1>2 DEF RenameInv
<1>6. PoolInv(s)'  BY <1>1, <1>2 DEF PoolInv
<1>7. UsedInv(s)'  BY <1>1, <1>3 DEF UsedInv
<1>8. MovedInv(s)'  BY <1>1, <1>4 DEF MovedInv
<1>9. AnswerInv(s)'  BY <1>1, <1>2 DEF AnswerInv, Preamble
<1>10. IntactInv(s)'  BY <1>1, <1>2 DEF IntactInv
<1> QED  BY <1>5, <1>6, <1>7, <1>8, <1>9, <1>10 DEF ReplyInv

LEMMA ReplyStreams ==
    ASSUME TypeOK, NEW s \in Sessions, ReplyInv(s),
           \/ SendChunk(s) \/ SendEnds(s) \/ SendFails(s) \/ SendListing(s)
           \/ RecvChunk(s) \/ RecvEnds(s) \/ RecvFails(s) \/ WriteFails(s)
    PROVE  ReplyInv(s)'
<1>1. data[s] \in DataStreams  BY DEF TypeOK
<1>2. pc[s] = "transfer" /\ StreamStays
  BY DEF SendChunk, SendEnds, SendFails, SendListing, RecvChunk, RecvEnds,
         RecvFails, WriteFails, InTransfer, At
<1>3. CASE SendChunk(s)
  <2>1. data' = [data EXCEPT ![s].moved = @ + 1] /\ UNCHANGED <<pc, status>>
    BY <1>3 DEF SendChunk
  <2>2. data'[s].stored = data[s].stored
    BY <1>1, <2>1 DEF TypeOK, DataStreams
  <2> QED  BY <1>2, <2>1, <2>2, ReplyMoves
<1>10. CASE RecvChunk(s)
  <2>1. LklFileApis \/ data[s].stored # "failing"
    BY DEF ReplyInv, IntactInv
  <2>2. /\ data' = [data EXCEPT ![s].moved = data[s].moved + 1,
                                ![s].stored = IF data[s].stored = "failing"
                                              THEN "damaged" ELSE data[s].stored]
        /\ UNCHANGED <<pc, status>>
    BY <1>10 DEF RecvChunk
  <2>3. LklFileApis \/ data'[s].stored = data[s].stored
    BY <1>1, <2>1, <2>2 DEF TypeOK, DataStreams
  <2> QED  BY <1>2, <2>2, <2>3, ReplyMoves
<1>4. CASE SendEnds(s)
  <2>1. verb[s] \notin Uploads /\ verb' = verb /\ data' = data
    BY <1>2, <1>4 DEF SendEnds, InTransfer, Uploads, StreamStays, loopVars
  <2>2. Moved(s)'  BY <1>4, <2>1 DEF SendEnds, Moved
  <2> QED  BY <1>2, <1>4, <2>1, <2>2, ReplyFinish DEF SendEnds
<1>5. CASE SendFails(s)
  BY <1>2, <1>5, ReplyFinish DEF SendFails
<1>6. CASE SendListing(s)
  <2>1. PICK n \in 0..data[s].want :
          /\ n < data[s].want => data[s].peer = "reset"
          /\ data' = [data EXCEPT ![s].moved = n]
          /\ Finish(s, IF n = data[s].want THEN 226 ELSE 426)
    BY <1>6 DEF SendListing
  <2>2. /\ data'[s].stored = data[s].stored
        /\ data'[s].moved = n /\ data'[s].want = data[s].want
    BY <1>1, <2>1 DEF TypeOK, DataStreams
  <2>3. verb[s] \notin Uploads /\ verb' = verb
    BY <1>2, <1>6 DEF SendListing, InTransfer, Uploads, StreamStays, loopVars
  <2>4. n = data[s].want => Moved(s)'  BY <2>2, <2>3 DEF Moved
  <2> QED  BY <1>2, <2>1, <2>2, <2>4, ReplyFinish
<1>7. CASE RecvEnds(s)
  <2>1. verb' = verb /\ data' = data
    BY <1>2, <1>7 DEF RecvEnds, StreamStays, loopVars
  <2>2. Moved(s)'  BY <1>7, <2>1 DEF RecvEnds, InTransfer, Moved
  <2> QED  BY <1>2, <1>7, <2>1, <2>2, ReplyFinish DEF RecvEnds
<1>8. CASE RecvFails(s)
  BY <1>2, <1>8, ReplyFinish DEF RecvFails
<1>9. CASE WriteFails(s)
  <2>1. CASE LklFileApis
    BY <1>2, <1>9, <2>1, ReplyMoves DEF WriteFails
  <2>2. CASE ~LklFileApis
    <3>1. data' = [data EXCEPT ![s].stored = "damaged"] /\ Finish(s, 451)
      BY <1>9, <2>2 DEF WriteFails
    <3>2. data'[s].stored = "damaged"
      BY <1>1, <3>1 DEF TypeOK, DataStreams
    <3> QED  BY <1>2, <3>1, <3>2, ReplyFinish
  <2> QED  BY <2>1, <2>2
<1> QED  BY <1>3, <1>4, <1>5, <1>6, <1>7, <1>8, <1>9, <1>10

LEMMA ReplyEnvironment ==
    ASSUME TypeOK, NEW s \in Sessions, ReplyInv(s), Environment(s)
    PROVE  ReplyInv(s)'
<1>1. UNCHANGED <<pc, rc, verb, arg, rnfrto, tempName, granted, loopPool,
                  status, out, pasvFd, portAddr>>
  BY DEF Environment, ClientLeaves, PeerConnects, PeerSends, PeerEnds,
         StreamStays, loopVars, chanVars, xferVars
<1>2. RenameInv(s)'  BY <1>1 DEF ReplyInv, RenameInv
<1>3. PoolInv(s)'  BY <1>1 DEF ReplyInv, PoolInv
<1>4. AnswerInv(s)'  BY <1>1 DEF ReplyInv, AnswerInv, Done, Preamble
<1>5. UsedInv(s)'
  <2>1. backlog' = backlog \/ ChannelReady(s)
    BY DEF Environment, ClientLeaves, PeerConnects, PeerSends, PeerEnds,
           StreamStays, chanVars, ChannelReady
  <2> QED  BY <1>1, <2>1 DEF ReplyInv, UsedInv, Says, ChannelReady
<1>6. MovedInv(s)' /\ IntactInv(s)'
  <2>1. data[s] \in DataStreams  BY DEF TypeOK
  <2> DEFINE Kept == /\ data'[s].moved = data[s].moved
                     /\ data'[s].want = data[s].want
                     /\ data'[s].stored = data[s].stored
                     /\ \/ /\ data'[s].sent = data[s].sent
                           /\ data'[s].peer = data[s].peer
                        \/ data[s].peer = "open"
  <2>2. Kept
    <3>1. CASE UNCHANGED data  BY <3>1
    <3>2. CASE PeerSends(s)
      BY <2>1, <3>2 DEF PeerSends, PeerOpen, TypeOK, DataStreams
    <3>3. ASSUME NEW how, PeerEnds(s, how) PROVE Kept
      BY <2>1, <3>3 DEF PeerEnds, PeerOpen, TypeOK, DataStreams
    <3> QED
      BY <3>1, <3>2, <3>3 DEF Environment, ClientLeaves, PeerConnects, xferVars
  <2>3. Moved(s) => Moved(s)'
    BY <1>1, <2>2 DEF Moved
  <2> QED  BY <1>1, <2>2, <2>3 DEF ReplyInv, MovedInv, IntactInv, Says
<1> QED  BY <1>2, <1>3, <1>4, <1>5, <1>6 DEF ReplyInv

\* The connection is closed, the reply that ends the transfer is sent, the
\* channel and the file are closed; LIST answers first and keeps the channel.
LEMMA ReplyEnds ==
    ASSUME TypeOK, StatusKnown, NEW s \in Sessions, ReplyInv(s),
           Dispose(s) \/ Complete(s) \/ Cleanup(s)
    PROVE  ReplyInv(s)'
<1>1. UNCHANGED <<verb, rnfrto, status, data>>
  BY DEF Dispose, Complete, Cleanup, loopVars, xferVars
<1>2. CASE Dispose(s)
  <2>1. /\ pc[s] = "dispose"
        /\ pc'[s] = IF verb[s] = "LIST" THEN "loop" ELSE "complete"
        /\ loopPool'[s] = loopPool[s] \ {"sock"}
        /\ UNCHANGED <<out, pasvFd, portAddr, backlog>>
    BY <1>2, Arrives DEF Dispose, At, TypeOK, chanVars
  <2>2. loopPool[s] \in SUBSET {"file", "sock"}  BY DEF TypeOK
  <2>3. RenameInv(s)'
    BY <1>1, <2>1 DEF ReplyInv, RenameInv, AnswerInv, Busy
  <2>4. PoolInv(s)'  BY <1>1, <2>1, <2>2 DEF ReplyInv, PoolInv, Busy
  <2>5. UsedInv(s)'  BY <1>1, <2>1 DEF ReplyInv, UsedInv, Says
  <2>6. MovedInv(s)'  BY <1>1, <2>1 DEF ReplyInv, MovedInv, Moved, Says
  <2>7. AnswerInv(s)'
    BY <1>1, <2>1 DEF ReplyInv, AnswerInv, Busy, Done, Preamble
  <2>8. IntactInv(s)'  BY <1>1 DEF ReplyInv, IntactInv
  <2> QED  BY <2>3, <2>4, <2>5, <2>6, <2>7, <2>8 DEF ReplyInv
<1>3. CASE Complete(s)
  <2>1. /\ pc[s] = "complete" /\ Write(s, status[s])
        /\ pc'[s] = IF verb[s] = "LIST" THEN "dispose" ELSE "cleanup"
        /\ UNCHANGED loopPool
    BY <1>3, Arrives DEF Complete, At, xferVars
  <2>2. status[s] \in {226, 426, 451}  BY <2>1 DEF StatusKnown, TypeOK
  <2>3. Done(s)' /\ (Says(s, {226})' <=> Says(s, {226}) \/ status[s] = 226)
    BY <2>1, <2>2, Named, NamedConclude, WriteSays
  <2>4. RenameInv(s)'
    BY <1>1, <2>1 DEF ReplyInv, RenameInv, Busy
  <2>5. PoolInv(s)'  BY <1>1, <2>1 DEF ReplyInv, PoolInv, Busy
  <2>6. UsedInv(s)'  BY <1>1, <2>1 DEF UsedInv
  <2>7. MovedInv(s)'  BY <1>1, <2>1, <2>3 DEF ReplyInv, MovedInv, Moved
  <2>8. AnswerInv(s)'
    BY <1>1, <2>1, <2>2, <2>3 DEF ReplyInv, AnswerInv, Busy
  <2>9. IntactInv(s)'  BY <1>1 DEF ReplyInv, IntactInv
  <2> QED  BY <2>4, <2>5, <2>6, <2>7, <2>8, <2>9 DEF ReplyInv
<1>4. CASE Cleanup(s)
  <2>1. /\ pc[s] = "cleanup" /\ pc'[s] = "loop"
        /\ loopPool'[s] = loopPool[s] \ {"file"}
        /\ ~pasvFd'[s] /\ ~portAddr'[s] /\ backlog'[s] = 0
        /\ UNCHANGED out
    BY <1>4, Arrives DEF Cleanup, Return, CommunicationCleanup, PortCleanup,
       PasvCleanup, At, TypeOK
  <2>2. loopPool[s] \in SUBSET {"file", "sock"}  BY DEF TypeOK
  <2>3. RenameInv(s)'
    BY <1>1, <2>1 DEF ReplyInv, RenameInv, AnswerInv, Busy, Transfers, Uploads
  <2>4. PoolInv(s)'  BY <1>1, <2>1, <2>2 DEF ReplyInv, PoolInv, Busy
  <2>5. UsedInv(s)'  BY <1>1, <2>1 DEF UsedInv, ChannelReady
  <2>6. MovedInv(s)'  BY <1>1, <2>1 DEF ReplyInv, MovedInv, Moved, Says
  <2>7. AnswerInv(s)'  BY <1>1, <2>1 DEF ReplyInv, AnswerInv, Busy, Done, Preamble
  <2>8. IntactInv(s)'  BY <1>1 DEF ReplyInv, IntactInv
  <2> QED  BY <2>3, <2>4, <2>5, <2>6, <2>7, <2>8 DEF ReplyInv
<1> QED  BY <1>2, <1>3, <1>4

-----------------------------------------------------------------------------
(* The theorems.                                                           *)

RepliesInv == \A s \in Sessions : ReplyInv(s)

LEMMA ReplyProcessExit ==
    ASSUME NEW s \in Sessions, ReplyInv(s),
           HandleSiteNull(s) \/ HandlePortNull(s) \/ NeitherActive(s)
    PROVE  ReplyInv(s)'
<1>1. Untouched(s)
  BY DEF HandleSiteNull, HandlePortNull, NeitherActive, ProcessExit, Untouched,
         loopVars, chanVars, xferVars
<1> QED  BY <1>1, UntouchedKeeps

\* What a session does to itself.
LEMMA ReplyOwnStep ==
    ASSUME TypeOK, StatusKnown, NEW s \in Sessions, ReplyInv(s),
           Progress(s) \/ Chance(s) \/ Environment(s)
    PROVE  ReplyInv(s)'
BY ReplyThread, ReplyReceive, ReplyAnswers, ReplyChannel, ReplyTransferStarts,
   ReplyConnects, ReplyStreams, ReplyEnvironment, ReplyEnds, ReplyProcessExit
DEF Progress, Chance

LEMMA RepliesInit == Init => RepliesInv
<1> SUFFICES ASSUME Init, NEW s \in Sessions PROVE ReplyInv(s)
  BY DEF RepliesInv
<1>1. /\ pc[s] = "start" /\ verb[s] = "NONE" /\ ~rnfrto[s]
      /\ loopPool[s] = {} /\ out[s] = <<>> /\ status[s] = 0
      /\ data[s].stored = "whole"
  BY DEF Init, NoData
<1>2. ASSUME NEW C PROVE ~Says(s, C)  BY <1>1 DEF Says
<1> QED
  BY <1>1, <1>2 DEF ReplyInv, RenameInv, PoolInv, UsedInv, MovedInv, AnswerInv,
     IntactInv, Busy

LEMMA RepliesStep == ControlInv /\ RepliesInv /\ [Next]_vars => RepliesInv'
<1> SUFFICES ASSUME ControlInv, RepliesInv, [Next]_vars, NEW t \in Sessions
             PROVE  ReplyInv(t)'
  BY DEF RepliesInv
<1>1. TypeOK /\ StatusKnown /\ ReplyInv(t)
  BY DEF ControlInv, Control, RepliesInv
<1>2. ASSUME NEW s \in Sessions, Progress(s) \/ Chance(s) \/ Environment(s)
      PROVE  ReplyInv(t)'
  <2>1. CASE s = t  BY <1>1, <1>2, <2>1, ReplyOwnStep
  <2>2. CASE s # t
    <3>1. Untouched(t)  BY <1>1, <1>2, <2>2, Frame
    <3> QED  BY <1>1, <3>1, UntouchedKeeps
  <2> QED  BY <2>1, <2>2
<1>3. CASE UNCHANGED vars
  <2>1. Untouched(t)
    BY <1>3 DEF vars, Untouched, loopVars, chanVars, xferVars
  <2> QED  BY <1>1, <2>1, UntouchedKeeps
<1> QED  BY <1>2, <1>3 DEF Next, Terminated

\* What every session has said, holds open and remembers of a RNFR, wherever
\* it is.
THEOREM RepliesAlways == Spec => []RepliesInv
BY RepliesInit, RepliesStep, ControlAlways, PTL DEF Spec

\* RNTO renames the path that the RNFR just before it named and was answered
\* 350 for, and no other, whatever came before: lfd_worker_protocol_main.
THEOREM RenameFollowsRnfrAlways == Spec => []RenameFollowsRnfr
<1>1. RepliesInv => RenameFollowsRnfr
  BY DEF RepliesInv, ReplyInv, RenameInv, RenameFollowsRnfr
<1> QED  BY <1>1, RepliesAlways, PTL

\* After RETR or an upload has had its data connection neither PORT nor PASV is
\* in force, and nobody waits on the listener: lfd_communication_cleanup.
THEOREM ChannelUsedOnceAlways == Spec => []ChannelUsedOnce
<1>1. RepliesInv => ChannelUsedOnce
  BY DEF RepliesInv, ReplyInv, UsedInv, ChannelUsedOnce, Says, Concluding
<1> QED  BY <1>1, RepliesAlways, PTL

\* A handler that lets its session go on has closed all that it opened.
THEOREM HandlersCloseAlways == Spec => []HandlersCloseWhatTheyOpen
<1>1. RepliesInv => HandlersCloseWhatTheyOpen
  BY DEF RepliesInv, ReplyInv, PoolInv, HandlersCloseWhatTheyOpen
<1> QED  BY <1>1, RepliesAlways, PTL

\* 226 is not said before everything has been moved: do_file_send_rwloop,
\* do_file_recv and list_dir.
THEOREM CompleteMeansAllAlways == Spec => []CompleteMeansAll
<1>1. RepliesInv => CompleteMeansAll
  BY DEF RepliesInv, ReplyInv, MovedInv, Moved, Says, CompleteMeansAll,
         Answered226
<1> QED  BY <1>1, RepliesAlways, PTL

\* With the APR file operations the file of an upload that is answered 226 holds
\* what was received: a write that failed, of any chunk, was answered 451 (with
\* those of LKL it may be answered 226: fileops.c 451).
THEOREM CompleteMeansIntactAlways ==
    ~LklFileApis => (Spec => []CompleteMeansIntact)
<1> SUFFICES ASSUME ~LklFileApis PROVE Spec => []CompleteMeansIntact
  OBVIOUS
<1>1. RepliesInv => CompleteMeansIntact
  <2> SUFFICES ASSUME RepliesInv, NEW s \in Sessions, Answered226(s)
               PROVE  data[s].stored = "whole"
    BY DEF CompleteMeansIntact
  <2>1. ReplyInv(s)  BY DEF RepliesInv
  <2>2. status[s] = 226  BY <2>1 DEF ReplyInv, MovedInv, Says, Answered226
  <2> QED  BY <2>1, <2>2 DEF ReplyInv, IntactInv
<1> QED  BY <1>1, RepliesAlways, PTL

-----------------------------------------------------------------------------
(* FtpSession implements FtpDialogue.                                      *)

\* What a step of s says, if it says anything, is what may be said there.
Speaks(s) == Dialogue!Speaks(Kind(s), out[s], out'[s])

\* What a step of s does to its own dialogue: nothing, or one step of it.
DialogueMove(s) ==
    LET from == Phase(s)
        to   == Phase(s)'
    IN  \/ to = from /\ Kind(s)' = Kind(s) /\ out'[s] = out[s]
        \/ from = "idle" /\ to = "busy" /\ out'[s] = <<>>
        \/ /\ Kind(s)' = Kind(s)
           /\ \/ from \in {"greeting", "busy"} /\ to = "busy" /\ Speaks(s)
              \/ /\ from = "busy" /\ to = "idle" /\ out'[s] = out[s]
                 /\ Done(s) \/ (Kind(s) = "mute" /\ out[s] = <<>>)
              \/ /\ from # "closed" /\ to = "closed"
                 /\ out'[s] = out[s] \/ Speaks(s)

\* The state functions that stand for phase and kind of FtpDialogue.
PhaseMap == [s \in Sessions |-> Phase(s)]
KindMap  == [s \in Sessions |-> Kind(s)]

LEMMA DialogueStep ==
    ASSUME NEW s \in Sessions, DialogueMove(s), TypeOK, TypeOK',
           \A t \in Sessions \ {s} : /\ Phase(t)' = Phase(t)
                                     /\ Kind(t)' = Kind(t)
                                     /\ out'[t] = out[t]
    PROVE  [Dialogue!Next]_(Dialogue!vars)
<1>1. PhaseMap' = [PhaseMap EXCEPT ![s] = Phase(s)']
  BY DEF PhaseMap
<1>2. KindMap' = [KindMap EXCEPT ![s] = Kind(s)']
  BY DEF KindMap
<1>3. PhaseMap[s] = Phase(s) /\ KindMap[s] = Kind(s)
  BY DEF PhaseMap, KindMap
<1>4. out' = [out EXCEPT ![s] = out'[s]]  BY DEF TypeOK
<1>5. ASSUME Kind(s)' = Kind(s) PROVE KindMap' = KindMap
  BY <1>5 DEF KindMap
<1>6. ASSUME out'[s] = out[s] PROVE out' = out
  BY <1>6 DEF TypeOK
<1>7. CASE Phase(s)' = Phase(s) /\ Kind(s)' = Kind(s) /\ out'[s] = out[s]
  <2>1. PhaseMap' = PhaseMap /\ KindMap' = KindMap
    BY <1>7 DEF PhaseMap, KindMap
  <2> QED  BY <1>6, <1>7, <2>1 DEF Dialogue!vars, PhaseMap, KindMap
<1>8. CASE Phase(s) = "idle" /\ Phase(s)' = "busy" /\ out'[s] = <<>>
  <2>1. Kind(s)' \in Dialogue!Kinds  BY DEF Kind, Dialogue!Kinds
  <2>2. Dialogue!Ask(s)
    BY <1>1, <1>2, <1>3, <1>4, <1>8, <2>1
    DEF Dialogue!Ask, Dialogue!Move, PhaseMap, KindMap
  <2> QED  BY <2>2 DEF Dialogue!Next
<1>9. Dialogue!Move(s, Phase(s), Phase(s)')
  BY <1>1, <1>3 DEF Dialogue!Move, PhaseMap
<1>10. Speaks(s) => Dialogue!Says(s)
  BY <1>3, <1>4 DEF Speaks, Dialogue!Says, KindMap
<1>11. CASE Kind(s)' = Kind(s)
  <2>1. KindMap' = KindMap  BY <1>5, <1>11
  <2>2. CASE Phase(s) = "greeting" /\ Phase(s)' = "busy" /\ Speaks(s)
    <3>1. Dialogue!Greet(s)
      BY <1>9, <1>10, <2>1, <2>2 DEF Dialogue!Greet, KindMap
    <3> QED  BY <3>1 DEF Dialogue!Next
  <2>3. CASE Phase(s) = "busy" /\ Phase(s)' = "busy" /\ Speaks(s)
    <3>1. PhaseMap' = PhaseMap  BY <1>1, <1>3, <2>3 DEF PhaseMap
    <3>2. Dialogue!Reply(s)
      BY <1>3, <1>10, <2>1, <2>3, <3>1 DEF Dialogue!Reply, PhaseMap, KindMap
    <3> QED  BY <3>2 DEF Dialogue!Next
  <2>4. CASE /\ Phase(s) = "busy" /\ Phase(s)' = "idle" /\ out'[s] = out[s]
             /\ Done(s) \/ (Kind(s) = "mute" /\ out[s] = <<>>)
    <3>1. Dialogue!Ready(s)
      BY <1>3, <1>6, <1>9, <2>1, <2>4 DEF Dialogue!Ready, Done, KindMap
    <3> QED  BY <3>1 DEF Dialogue!Next
  <2>5. CASE /\ Phase(s) # "closed" /\ Phase(s)' = "closed"
             /\ out'[s] = out[s] \/ Speaks(s)
    <3>1. Dialogue!Close(s)
      BY <1>3, <1>6, <1>9, <1>10, <2>1, <2>5
      DEF Dialogue!Close, PhaseMap, KindMap
    <3> QED  BY <3>1 DEF Dialogue!Next
  <2> QED
    BY <1>7, <1>8, <1>11, <2>2, <2>3, <2>4, <2>5 DEF DialogueMove
<1> QED
  BY <1>7, <1>8, <1>11 DEF DialogueMove

\* Where a session is within its dialogue, and not at the end of one.
Open == Locations \ {"start", "command", "destroy", "exit", "exited"}

LEMMA OpenIsBusy ==
    ASSUME NEW s \in Sessions, Running, UNCHANGED exitCause,
           pc[s] \in Open, pc'[s] \in Open
    PROVE  Phase(s) = "busy" /\ Phase(s)' = "busy"
BY DEF Open, Phase, Running

\* A step in silence.
LEMMA Silent ==
    ASSUME NEW s \in Sessions, UNCHANGED <<exitCause, out, verb>>,
           pc'[s] = pc[s] \/ (pc[s] \in Open /\ pc'[s] \in Open)
    PROVE  DialogueMove(s)
<1>1. Kind(s)' = Kind(s)  BY DEF Kind
<1>2. Running' <=> Running  BY DEF Running
<1>3. Phase(s)' = Phase(s)  BY <1>2 DEF Phase, Open
<1> QED  BY <1>1, <1>3 DEF DialogueMove

\* The replies that are no conclusion yet.
LEMMA Beginnings ==
    /\ ~Dialogue!Concluded(<<>>) /\ Len(<<>>) = 0
    /\ ~Dialogue!Concluded(<<150>>) /\ Len(<<150>>) = 1
    /\ ~Dialogue!Concluded(Append(<<150>>, 150)) /\ Len(Append(<<150>>, 150)) = 2
<1>1. Len(Append(<<150>>, 150)) = 2 /\ Append(<<150>>, 150)[2] = 150
  OBVIOUS
<1> QED  BY <1>1 DEF Dialogue!Concluded, Dialogue!Success, Dialogue!Refusal

LEMMA PreliminaryCounts ==
    /\ Dialogue!Preliminaries["plain"] = 0 /\ Dialogue!Preliminaries["mute"] = 0
    /\ Dialogue!Preliminaries["transfer"] = 1
    /\ Dialogue!Preliminaries["unique"] = 2
BY DEF Dialogue!Preliminaries

\* A code that fits is one that may be said.
LEMMA Fitting ==
    ASSUME TypeOK, NEW s \in Sessions, NEW code \in Codes, Write(s, code),
           Dialogue!Fits(Kind(s), out[s], code)
    PROVE  Speaks(s)
<1>1. out'[s] = Append(out[s], code)  BY WriteSays
<1> QED  BY <1>1 DEF Speaks, Dialogue!Speaks

\* The only reply to a command that is no transfer.
LEMMA OnlyReply ==
    ASSUME TypeOK, NEW s \in Sessions, out[s] = <<>>, NEW code \in Codes,
           Write(s, code),
           \/ code \in Dialogue!Refusal
           \/ code \in Dialogue!Success /\ verb[s] \notin Transfers
    PROVE  Speaks(s)
<1>1. verb[s] \notin Transfers => Kind(s) \in {"plain", "mute"}
  BY DEF Kind, Transfers, Uploads
<1>2. Dialogue!Fits(Kind(s), out[s], code)
  BY <1>1, Beginnings, PreliminaryCounts DEF Dialogue!Fits
<1> QED  BY <1>2, Fitting

\* A reply of a transfer: a refusal at any time before the conclusion, as many
\* 150 as there have to be, and 226 after the last of them.
LEMMA TransferReply ==
    ASSUME TypeOK, NEW s \in Sessions, verb[s] \in Transfers,
           NEW code \in Codes, Write(s, code),
           \/ /\ out[s] \in {<<>>, Preamble(s), Append(Preamble(s), 150)}
              /\ code \in Dialogue!Refusal
           \/ out[s] = Preamble(s) /\ code = 150
           \/ out[s] = <<>> /\ verb[s] = "STOU" /\ code = 150
           \/ out[s] = Append(Preamble(s), 150) /\ code = 226
    PROVE  Speaks(s)
<1>1. /\ 150 \in Dialogue!Preliminary /\ 226 \in Dialogue!Success
      /\ 150 \notin Dialogue!Refusal
  BY DEF Dialogue!Preliminary, Dialogue!Success, Dialogue!Refusal
<1>2. CASE verb[s] = "STOU"
  <2> DEFINE twice == Append(<<150>>, 150)
  <2>1. Preamble(s) = <<150>>  BY <1>2 DEF Preamble
  <2>2. Append(Preamble(s), 150) = twice  BY <2>1
  <2>3. Kind(s) = "unique"  BY <1>2 DEF Kind
  <2> HIDE DEF twice
  <2>4. \/ out[s] \in {<<>>, <<150>>, twice} /\ code \in Dialogue!Refusal
        \/ out[s] \in {<<>>, <<150>>} /\ code = 150
        \/ out[s] = twice /\ code = 226
    BY <2>1, <2>2
  <2>5. /\ ~Dialogue!Concluded(out[s])
        /\ \/ code \in Dialogue!Refusal
           \/ code = 150 /\ Len(out[s]) < 2
           \/ code = 226 /\ Len(out[s]) = 2
    <3>1. ~Dialogue!Concluded(twice) /\ Len(twice) = 2
      BY Beginnings DEF twice
    <3>2. ~Dialogue!Concluded(out[s])  BY <2>4, <3>1, Beginnings
    <3>3. CASE code \in Dialogue!Refusal  BY <3>2, <3>3
    <3>4. CASE out[s] \in {<<>>, <<150>>} /\ code = 150
      <4>1. Len(out[s]) = 0 \/ Len(out[s]) = 1  BY <3>4, Beginnings
      <4>2. \A n \in {0, 1} : n < 2  OBVIOUS
      <4>3. Len(out[s]) \in {0, 1}  BY <4>1, Zenon
      <4>4. Len(out[s]) < 2  BY <4>2, <4>3, Zenon
      <4> QED  BY <3>2, <3>4, <4>4, Zenon
    <3>5. CASE out[s] = twice /\ code = 226  BY <3>1, <3>2, <3>5
    <3> QED  BY <2>4, <3>3, <3>4, <3>5
  <2>6. Dialogue!Fits("unique", out[s], code)
    BY <1>1, <2>5, PreliminaryCounts DEF Dialogue!Fits
  <2> QED  BY <2>3, <2>6, Fitting
<1>3. CASE verb[s] # "STOU"
  <2>1. Preamble(s) = <<>> /\ Append(Preamble(s), 150) = <<150>>
    BY <1>3 DEF Preamble
  <2>2. Kind(s) = "transfer"  BY <1>3 DEF Kind
  <2>3. Dialogue!Fits("transfer", out[s], code)
    BY <1>1, <1>3, <2>1, Beginnings, PreliminaryCounts DEF Dialogue!Fits
  <2> QED  BY <2>2, <2>3, Fitting
<1> QED  BY <1>2, <1>3

\* What the handlers say, by what it means.
LEMMA NamedMeanings ==
    /\ {200, 211, 214, 220, 221, 226, 227, 250, 350} \subseteq Dialogue!Success
    /\ {425, 426, 451, 500, 501, 502, 503, 550, 553} \subseteq Dialogue!Refusal
BY DEF Dialogue!Success, Dialogue!Refusal

LEMMA PlainMeanings ==
    ASSUME NEW v \in Plain, NEW code \in PlainReplies[v]
    PROVE  code \in Dialogue!Success \cup Dialogue!Refusal
BY DEF Plain, PlainReplies, Dialogue!Success, Dialogue!Refusal

LEMMA MovesThread ==
    ASSUME TypeOK, NEW s \in Sessions, ReplyInv(s),
           \/ SessCreateFails(s) \/ EmitGreeting(s) \/ LoopTop(s)
           \/ ReceiveCommand(s) \/ EndOfStream(s) \/ EmptyLine(s)
           \/ SessDestroy(s) \/ ThreadExit(s) \/ HandleQuit(s)
    PROVE  DialogueMove(s)
<1> USE DEF loopVars, At
<1>1. Running /\ UNCHANGED exitCause
  BY DEF SessCreateFails, EmitGreeting, LoopTop, ReceiveCommand, EndOfStream,
         EmptyLine, SessDestroy, ThreadExit, HandleQuit, Dispatches
<1>2. ASSUME EmitGreeting(s) \/ HandleQuit(s) PROVE Speaks(s)
  <2>1. out[s] = <<>> /\ (Write(s, 220) \/ Write(s, 221))
    BY <1>2 DEF EmitGreeting, HandleQuit, Dispatches, ReplyInv, AnswerInv
  <2>2. verb[s] \in {"NONE", "QUIT"}
    BY <1>2 DEF EmitGreeting, HandleQuit, Dispatches, ReplyInv, AnswerInv
  <2>3. verb[s] \notin Transfers  BY <2>2 DEF Transfers, Uploads
  <2> QED  BY <2>1, <2>3, Named, NamedMeanings, OnlyReply
<1>3. CASE pc'[s] \in {"destroy", "exit", "exited"}
  <2>1. Phase(s)' = "closed"  BY <1>3 DEF Phase
  <2>2. ~ReceiveCommand(s)  BY <1>3, Arrives DEF ReceiveCommand
  <2>3. Kind(s)' = Kind(s)
    BY <2>2 DEF SessCreateFails, EmitGreeting, LoopTop, EndOfStream,
           EmptyLine, SessDestroy, ThreadExit, HandleQuit, Kind
  <2>4. out'[s] = out[s] \/ Speaks(s)
    BY <1>2, <2>2 DEF SessCreateFails, LoopTop, EndOfStream, EmptyLine,
           SessDestroy, ThreadExit
  <2>5. CASE Phase(s) # "closed"  BY <2>1, <2>3, <2>4, <2>5 DEF DialogueMove
  <2>6. CASE Phase(s) = "closed"
    <3>1. pc[s] \in {"destroy", "exit", "exited"}  BY <1>1, <2>6 DEF Phase
    <3>2. out'[s] = out[s]
      BY <2>2, <3>1 DEF SessCreateFails, EmitGreeting, LoopTop, EndOfStream,
         EmptyLine, SessDestroy, ThreadExit, HandleQuit, Dispatches
    <3> QED  BY <2>1, <2>3, <2>6, <3>2 DEF DialogueMove
  <2> QED  BY <2>5, <2>6
<1>4. CASE EmitGreeting(s) /\ pc'[s] = "loop"
  <2>1. Phase(s) = "greeting"  BY <1>4 DEF EmitGreeting, Phase
  <2>2. Running'  BY <1>1 DEF Running
  <2>3. Phase(s)' = "busy"  BY <1>4, <2>2 DEF Phase
  <2>4. Kind(s)' = Kind(s)  BY <1>4 DEF EmitGreeting, Kind
  <2> QED  BY <1>2, <1>4, <2>1, <2>3, <2>4 DEF DialogueMove
<1>5. CASE LoopTop(s) /\ pc'[s] = "command"
  <2>1. pc[s] = "loop" /\ rc[s] /\ UNCHANGED <<exitCause, verb, out>>
    BY <1>5 DEF LoopTop, TypeOK, Goto
  <2>2. Done(s) \/ (out[s] = <<>> /\ verb[s] = "SITE")
    BY <2>1 DEF ReplyInv, AnswerInv
  <2>3. Phase(s)' = "idle" /\ Phase(s) = "busy"
    BY <1>1, <1>5, <2>1 DEF Phase, Running
  <2>4. Kind(s)' = Kind(s)  BY <2>1 DEF Kind
  <2>5. verb[s] = "SITE" => Kind(s) = "mute"  BY DEF Kind, Transfers, Uploads
  <2> QED  BY <2>1, <2>2, <2>3, <2>4, <2>5 DEF DialogueMove
<1>6. CASE ReceiveCommand(s)
  <2>1. pc[s] = "command" /\ pc'[s] = "dispatch" /\ out'[s] = <<>>
    BY <1>6, Arrives DEF ReceiveCommand, TypeOK
  <2>2. Phase(s) = "idle" /\ Phase(s)' = "busy"
    BY <1>1, <2>1 DEF Phase, Running
  <2> QED  BY <2>1, <2>2 DEF DialogueMove
<1>7. \/ pc'[s] \in {"destroy", "exit", "exited"}
      \/ EmitGreeting(s) /\ pc'[s] = "loop"
      \/ LoopTop(s) /\ pc'[s] = "command"
      \/ ReceiveCommand(s)
  BY Arrives DEF SessCreateFails, EmitGreeting, LoopTop, EndOfStream,
     EmptyLine, SessDestroy, ThreadExit, HandleQuit
<1> QED  BY <1>3, <1>4, <1>5, <1>6, <1>7

\* A step within a command moves its dialogue by what it says.
LEMMA Within ==
    ASSUME NEW s \in Sessions, Running, UNCHANGED <<exitCause, verb>>,
           pc[s] \in Open, pc'[s] \in Open,
           out' = out \/ Speaks(s)
    PROVE  DialogueMove(s)
<1>1. Phase(s) = "busy" /\ Phase(s)' = "busy"  BY OpenIsBusy
<1>2. Kind(s)' = Kind(s)  BY DEF Kind
<1> QED  BY <1>1, <1>2 DEF DialogueMove

LEMMA MovesAnswers ==
    ASSUME TypeOK, NEW s \in Sessions, ReplyInv(s),
           \/ HandlePlain(s) \/ HandleFeat(s) \/ HandleSite(s)
           \/ HandleRnfr(s) \/ HandleRnto(s) \/ BadSequence(s)
           \/ HandlePasv(s) \/ HandlePort(s)
    PROVE  DialogueMove(s)
<1>1. /\ Running /\ pc[s] = "dispatch" /\ out[s] = <<>>
      /\ UNCHANGED <<exitCause, verb>>
  <2>1. Running /\ pc[s] = "dispatch"
    BY DEF HandlePlain, HandleFeat, HandleSite, HandleRnfr, HandleRnto,
           BadSequence, HandlePasv, HandlePort, Dispatches, At
  <2>2. UNCHANGED <<exitCause, verb>>
    BY DEF HandlePlain, HandleFeat, HandleSite, HandleRnfr, HandleRnto,
           BadSequence, HandlePasv, HandlePort, loopVars
  <2> QED  BY <2>1, <2>2 DEF ReplyInv, AnswerInv
<1>2. pc'[s] = "loop"
  BY Arrives DEF HandlePlain, HandleFeat, HandleSite, HandleRnfr, HandleRnto,
     BadSequence, HandlePasv, HandlePort, ReturnWrite, ReturnError, Return
<1>3. pc[s] \in Open /\ pc'[s] \in Open  BY <1>1, <1>2 DEF Open, Locations
<1>4. ASSUME NEW code \in Codes, Write(s, code), code \in Dialogue!Refusal
      PROVE  Speaks(s)
  BY <1>1, <1>4, OnlyReply
<1>5. ASSUME NEW code \in Codes, Write(s, code), code \in Dialogue!Success,
             verb[s] \notin Transfers
      PROVE  Speaks(s)
  BY <1>1, <1>5, OnlyReply
<1>6. CASE HandlePlain(s)
  <2>1. PICK v \in Plain :
          /\ Dispatches(s, v)
          /\ \E code \in PlainReplies[v] :
               IF v \in DropsWriteResult THEN Write(s, code) /\ Return(s, TRUE)
                                         ELSE ReturnWrite(s, code)
    BY <1>6 DEF HandlePlain
  <2>2. PICK code \in PlainReplies[v] : Write(s, code)
    BY <2>1 DEF ReturnWrite
  <2>3. v \notin Transfers /\ verb[s] = v
    BY <2>1, PlainAnswers DEF Dispatches
  <2>4. code \in Codes  BY PlainCodes
  <2> QED  BY <1>1, <1>3, <1>4, <1>5, <2>2, <2>3, <2>4, PlainMeanings, Within
<1>7. CASE HandleFeat(s)
  <2>1. verb[s] = "FEAT"  BY <1>7 DEF HandleFeat, Dispatches
  <2>2. out'[s] = <<211 + FTP_MORE, 211>>
    BY <1>1, <1>7 DEF HandleFeat, TypeOK
  <2>3. Kind(s) = "plain"  BY <2>1 DEF Kind, Transfers, Uploads
  <2>4. Speaks(s)
    BY <1>1, <2>2, <2>3, Named, NamedMeanings DEF Speaks, Dialogue!Speaks
  <2> QED  BY <1>1, <1>3, <2>4, Within
<1>8. CASE HandleSite(s)
  <2>1. verb[s] \notin Transfers
    BY <1>8 DEF HandleSite, Dispatches, Transfers, Uploads
  <2>2. out' = out \/ Write(s, 214) \/ Write(s, 500)
    <3>1. UNCHANGED out \/ \E code \in {214, 500} : ReturnWrite(s, code)
      BY <1>8 DEF HandleSite
    <3>2. ASSUME NEW code, ReturnWrite(s, code) PROVE Write(s, code)
      BY <3>2 DEF ReturnWrite
    <3> QED  BY <3>1, <3>2
  <2> QED  BY <1>1, <1>3, <1>4, <1>5, <2>1, <2>2, Named, NamedMeanings, Within
<1>9. CASE HandleRnfr(s)
  <2>1. verb[s] \notin Transfers
    BY <1>9 DEF HandleRnfr, Dispatches, Transfers, Uploads
  <2>2. Write(s, 350) \/ Write(s, 550)  BY <1>9 DEF HandleRnfr
  <2> QED  BY <1>1, <1>3, <1>4, <1>5, <2>1, <2>2, Named, NamedMeanings, Within
<1>10. CASE HandleRnto(s)
  <2>1. verb[s] \notin Transfers  BY <1>10 DEF HandleRnto, Transfers, Uploads
  <2>2. Write(s, 250) \/ Write(s, 501)  BY <1>10 DEF HandleRnto, ReturnWrite
  <2> QED  BY <1>1, <1>3, <1>4, <1>5, <2>1, <2>2, Named, NamedMeanings, Within
<1>11. CASE BadSequence(s)
  <2>1. Write(s, 503)  BY <1>11 DEF BadSequence, ReturnWrite
  <2> QED  BY <1>1, <1>3, <1>4, <2>1, Named, NamedMeanings, Within
<1>12. CASE HandlePasv(s)
  <2>1. verb[s] \notin Transfers
    BY <1>12 DEF HandlePasv, Dispatches, Transfers, Uploads
  <2>2. out' = out \/ Write(s, 227)  BY <1>12 DEF HandlePasv, ReturnWrite
  <2> QED  BY <1>1, <1>3, <1>5, <2>1, <2>2, Named, NamedMeanings, Within
<1>13. CASE HandlePort(s)
  <2>1. verb[s] \notin Transfers
    BY <1>13 DEF HandlePort, Dispatches, Transfers, Uploads
  <2>2. Write(s, 200) \/ Write(s, 500)  BY <1>13 DEF HandlePort, ReturnError
  <2> QED  BY <1>1, <1>3, <1>4, <1>5, <2>1, <2>2, Named, NamedMeanings, Within
<1> QED  BY <1>6, <1>7, <1>8, <1>9, <1>10, <1>11, <1>12, <1>13

LEMMA MovesTransfers ==
    ASSUME TypeOK, StatusKnown, NEW s \in Sessions, ReplyInv(s),
           \/ HandleRetr(s) \/ HandleUpload(s) \/ HandleList(s)
           \/ AwaitPasv(s) \/ AcceptPasv(s) \/ AcceptFails(s)
           \/ ConnectPort(s) \/ ConnectFails(s)
           \/ Dispose(s) \/ Complete(s) \/ Cleanup(s)
    PROVE  DialogueMove(s)
<1>1. /\ Running /\ pc[s] \in {"dispatch"} \cup Busy
      /\ UNCHANGED <<exitCause, verb>>
  BY DEF HandleRetr, HandleUpload, HandleList, AwaitPasv, AcceptPasv,
         AcceptFails, ConnectPort, ConnectFails, Connected, NotConnected,
         Dispose, Complete, Cleanup, Dispatches, At, loopVars, Busy
<1>2. pc[s] \in Open /\ pc'[s] \in Open
  <2>1. PICK where \in {"loop"} \cup Busy : Goto(s, where)
    BY DEF HandleRetr, HandleUpload, HandleList, AwaitPasv, AcceptPasv,
           AcceptFails, ConnectPort, ConnectFails, Connected, NotConnected,
           Dispose, Complete, Cleanup, Refuse, GetTransferFd, ReturnWrite,
           ReturnError, Return, Busy
  <2>2. pc'[s] = where  BY <2>1, Arrives
  <2> QED  BY <1>1, <2>1, <2>2 DEF Open, Locations, Busy
<1> SUFFICES out' = out \/ Speaks(s)  BY <1>1, <1>2, Within
<1>3. CASE HandleRetr(s) \/ HandleUpload(s) \/ HandleList(s)
  <2>1. pc[s] = "dispatch"
    BY <1>3 DEF HandleRetr, HandleUpload, HandleList, Dispatches, At
  <2>2. out[s] = <<>>  BY <2>1 DEF ReplyInv, AnswerInv
  <2>3. verb[s] \in Transfers
    <3>1. CASE HandleRetr(s)  BY <3>1 DEF HandleRetr, Dispatches, Transfers
    <3>2. CASE HandleUpload(s)  BY <3>2 DEF HandleUpload, Dispatches, Transfers
    <3>3. CASE HandleList(s)  BY <3>3 DEF HandleList, Dispatches, Transfers
    <3> QED  BY <1>3, <3>1, <3>2, <3>3
  <2>4. \/ out' = out \/ \E code \in {425, 501, 550, 553} : Write(s, code)
        \/ verb[s] = "STOU" /\ Write(s, 150)
    <3>1. CASE HandleRetr(s)
      BY <3>1 DEF HandleRetr, Refuse, ReturnWrite, ReturnError, Return
    <3>2. CASE HandleUpload(s)
      BY <3>2 DEF HandleUpload, Refuse, ReturnWrite, ReturnError, Return
    <3>3. CASE HandleList(s)
      BY <3>3 DEF HandleList, Refuse, ReturnWrite, ReturnError, Return
    <3> QED  BY <1>3, <3>1, <3>2, <3>3
  <2> QED  BY <2>2, <2>3, <2>4, Named, NamedMeanings, TransferReply
<1>4. CASE AwaitPasv(s) \/ Dispose(s) \/ Cleanup(s)
  BY <1>4 DEF AwaitPasv, Dispose, Cleanup
<1>5. CASE AcceptPasv(s) \/ AcceptFails(s) \/ ConnectPort(s) \/ ConnectFails(s)
  <2>1. pc[s] \in {"fd", "accept"}
    BY <1>5 DEF AcceptPasv, AcceptFails, ConnectPort, ConnectFails, At
  <2>2. verb[s] \in Transfers /\ out[s] = Preamble(s)
    BY <2>1 DEF ReplyInv, AnswerInv, Busy
  <2>3. Write(s, 150) \/ Write(s, 425)
    BY <1>5 DEF AcceptPasv, AcceptFails, ConnectPort, ConnectFails, Connected,
                NotConnected, ReturnError
  <2> QED  BY <2>2, <2>3, Named, NamedMeanings, TransferReply
<1>6. CASE Complete(s)
  <2>1. pc[s] = "complete" /\ Write(s, status[s])  BY <1>6 DEF Complete, At
  <2>2. verb[s] \in Transfers /\ out[s] = Append(Preamble(s), 150)
    BY <2>1 DEF ReplyInv, AnswerInv, Busy
  <2>3. status[s] \in {226, 426, 451}  BY <2>1 DEF StatusKnown, TypeOK
  <2> QED  BY <2>1, <2>2, <2>3, Named, NamedMeanings, TransferReply
<1> QED  BY <1>3, <1>4, <1>5, <1>6

LEMMA MovesStreams ==
    ASSUME TypeOK, NEW s \in Sessions,
           \/ SendChunk(s) \/ SendEnds(s) \/ SendFails(s) \/ SendListing(s)
           \/ RecvChunk(s) \/ RecvEnds(s) \/ RecvFails(s) \/ WriteFails(s)
           \/ Environment(s)
    PROVE  DialogueMove(s)
<1>1. UNCHANGED <<exitCause, out, verb>>
  BY DEF SendChunk, SendEnds, SendFails, SendListing, RecvChunk, RecvEnds,
         RecvFails, WriteFails, Environment, ClientLeaves, PeerConnects,
         PeerSends, PeerEnds, StreamStays, loopVars
<1>2. pc'[s] = pc[s] \/ (pc[s] \in Open /\ pc'[s] \in Open)
  <2>1. CASE Environment(s)
    BY <2>1 DEF Environment, ClientLeaves, PeerConnects, PeerSends, PeerEnds
  <2>2. CASE ~Environment(s)
    <3>1. pc[s] = "transfer"
      BY <2>2 DEF SendChunk, SendEnds, SendFails, SendListing, RecvChunk,
                  RecvEnds, RecvFails, WriteFails, InTransfer, At
    <3>2. UNCHANGED pc \/ Goto(s, "complete") \/ Goto(s, "dispose")
      BY <2>2 DEF SendChunk, SendEnds, SendFails, SendListing, RecvChunk,
                  RecvEnds, RecvFails, WriteFails, Finish
    <3>3. pc'[s] \in {"transfer", "complete", "dispose"}
      BY <3>1, <3>2, Arrives
    <3> QED  BY <3>1, <3>3 DEF Open, Locations
  <2> QED  BY <2>1, <2>2
<1> QED  BY <1>1, <1>2, Silent

\* The exit of the process closes every dialogue at once.
LEMMA MovesExit ==
    ASSUME NEW s \in Sessions,
           HandleSiteNull(s) \/ HandlePortNull(s) \/ NeitherActive(s)
    PROVE  Dialogue!CloseAll
<1>1. exitCause' \in {"null", "neither"} /\ verb' = verb
  BY DEF HandleSiteNull, HandlePortNull, NeitherActive, ProcessExit, loopVars
<1>2. \A t \in Sessions : Phase(t)' = "closed" /\ Kind(t)' = Kind(t)
  BY <1>1 DEF Phase, Running, Kind
<1>3. out' = out
  BY DEF HandleSiteNull, HandlePortNull, NeitherActive, ProcessExit
<1> QED  BY <1>2, <1>3 DEF Dialogue!CloseAll

LEMMA DialogueSafe ==
    ControlInv /\ ControlInv' /\ RepliesInv /\ [Next]_vars
    => [Dialogue!Next]_(Dialogue!vars)
<1> SUFFICES ASSUME ControlInv, ControlInv', RepliesInv, [Next]_vars
             PROVE  [Dialogue!Next]_(Dialogue!vars)
  OBVIOUS
<1>1. TypeOK /\ TypeOK' /\ StatusKnown /\ \A s \in Sessions : ReplyInv(s)
  BY DEF ControlInv, Control, RepliesInv
<1>2. ASSUME NEW s \in Sessions, Progress(s) \/ Chance(s) \/ Environment(s)
      PROVE  [Dialogue!Next]_(Dialogue!vars)
  <2>1. CASE HandleSiteNull(s) \/ HandlePortNull(s) \/ NeitherActive(s)
    BY <2>1, MovesExit DEF Dialogue!Next
  <2>2. CASE ~(HandleSiteNull(s) \/ HandlePortNull(s) \/ NeitherActive(s))
    <3>1. DialogueMove(s)
      BY <1>1, <1>2, <2>2, MovesThread, MovesAnswers, MovesTransfers, MovesStreams
      DEF Progress, Chance
    <3>2. exitCause' = exitCause
      <4>1. CASE Progress(s)
        BY <2>2, <4>1
        DEF Progress, EmitGreeting, LoopTop, SessDestroy, ThreadExit,
            EndOfStream, HandlePlain, HandleFeat, HandleSite, HandleQuit,
            HandleRnfr, HandleRnto, BadSequence, HandlePasv, HandlePort,
            HandleRetr, HandleUpload, HandleList, AwaitPasv, AcceptPasv,
            ConnectPort, ConnectFails, Connected, NotConnected, SendChunk,
            SendEnds, SendListing, RecvChunk, RecvEnds, RecvFails,
            StreamStays, Dispose, Complete, Cleanup
      <4>2. CASE Chance(s)
        BY <2>2, <4>2
        DEF Chance, SessCreateFails, ReceiveCommand, EmptyLine, AcceptFails,
            NotConnected, SendFails, WriteFails, StreamStays
      <4>3. CASE Environment(s)
        BY <4>3
        DEF Environment, ClientLeaves, PeerConnects, PeerSends, PeerEnds,
            StreamStays
      <4> QED  BY <1>2, <4>1, <4>2, <4>3
    <3>3. ASSUME NEW t \in Sessions \ {s}
          PROVE  /\ Phase(t)' = Phase(t) /\ Kind(t)' = Kind(t)
                 /\ out'[t] = out[t]
      <4>1. Untouched(t)  BY <1>1, <1>2, Frame
      <4> QED  BY <3>2, <4>1 DEF Untouched, Phase, Kind, Running
    <3> QED  BY <1>1, <3>1, <3>3, DialogueStep
  <2> QED  BY <2>1, <2>2
<1>3. CASE UNCHANGED vars
  <2>1. \A t \in Sessions : Phase(t)' = Phase(t) /\ Kind(t)' = Kind(t)
    BY <1>3 DEF vars, loopVars, Phase, Kind, Running
  <2> QED  BY <1>3, <2>1 DEF Dialogue!vars, vars
<1> QED  BY <1>2, <1>3 DEF Next, Terminated

LEMMA DialogueInit == Init => Dialogue!Init
<1> SUFFICES ASSUME Init PROVE Dialogue!Init  OBVIOUS
<1>1. \A s \in Sessions : Phase(s) = "greeting"
  BY DEF Init, Phase, Running
<1>2. \A s \in Sessions : Kind(s) = "plain"
  BY DEF Init, Kind, Transfers, Uploads
<1>3. out = [s \in Sessions |-> <<>>]  BY DEF Init
<1> QED  BY <1>1, <1>2, <1>3 DEF Dialogue!Init

\* Every session keeps to the dialogue that FtpDialogue promises the client, every
\* reply it writes being a step of it: one concluding answer to a command and no
\* reply after it, and before 226 exactly the 150s of its transfer.
THEOREM KeepsDialogueAlways == Spec => KeepsDialogue
BY DialogueInit, DialogueSafe, ControlAlways, RepliesAlways, PTL
DEF Spec, KeepsDialogue, Dialogue!Spec

-----------------------------------------------------------------------------
(* The way of a worker whose client has gone.                              *)

RunsDown(s) ==
    /\ ~commUp[s]
    /\ pc'[s] # pc[s] \/ data'[s].moved # data[s].moved
    => StepsLeft(s)' < StepsLeft(s)

\* Where something may have been moved, or may still be.
Moving == {"start", "dispatch", "fd", "accept", "transfer"}

LEMMA Ranks ==
    /\ Rank["start"] = 12 /\ Rank["dispatch"] = 11 /\ Rank["fd"] = 10
    /\ Rank["accept"] = 9 /\ Rank["transfer"] = 8 /\ Rank["dispose"] = 7
    /\ Rank["complete"] = 6 /\ Rank["cleanup"] = 5 /\ Rank["loop"] = 4
    /\ Rank["command"] = 3 /\ Rank["destroy"] = 2 /\ Rank["exit"] = 1
    /\ Rank["exited"] = 0
BY DEF Rank

LEMMA RankType ==
    ASSUME NEW where \in Locations
    PROVE  /\ Rank[where] \in 0..12
           /\ Rank[where] >= 8 <=> where \in Moving
BY Ranks DEF Locations, Moving

\* A worker that gets on and leaves the data alone comes nearer its end.
LEMMA Nearer ==
    ASSUME TypeOK, TypeOK', NEW s \in Sessions, Stage(s)' < Stage(s),
           data'[s] = data[s] \/ pc'[s] \notin Moving
    PROVE  StepsLeft(s)' < StepsLeft(s)
<1>1. /\ Stage(s) \in 0..12
      /\ Stage(s) >= 8 <=> pc[s] \in Moving
  <2>1. pc[s] \in Locations  BY DEF TypeOK
  <2> QED  BY <2>1, RankType DEF Stage, Moving
<1>2. /\ Stage(s)' \in 0..12
      /\ Stage(s)' >= 8 <=> pc'[s] \in Moving
  <2>1. pc'[s] \in Locations  BY DEF TypeOK
  <2> QED  BY <2>1, RankType DEF Stage, Moving
<1>3. MaxChunks - data[s].moved \in Nat
  <2>1. data[s].moved \in 0..MaxChunks  BY DEF TypeOK, DataStreams
  <2> QED  BY <2>1, ConstantsAssumption
<1> QED  BY <1>1, <1>2, <1>3 DEF StepsLeft

LEMMA ThreadRunsDown ==
    ASSUME TypeOK, TypeOK', NEW s \in Sessions,
           \/ SessCreateFails(s) \/ EmitGreeting(s) \/ LoopTop(s)
           \/ ReceiveCommand(s) \/ EndOfStream(s) \/ EmptyLine(s)
           \/ SessDestroy(s) \/ ThreadExit(s) \/ HandleQuit(s)
    PROVE  RunsDown(s)
<1> SUFFICES ASSUME ~commUp[s] PROVE StepsLeft(s)' < StepsLeft(s)
  BY DEF RunsDown
<1>1. ~ReceiveCommand(s)  BY DEF ReceiveCommand
<1>2. /\ \/ pc[s] \in {"start", "dispatch"}
            /\ pc'[s] \in {"loop", "destroy", "exit"}
         \/ pc[s] = "loop" /\ pc'[s] \in {"command", "destroy"}
         \/ pc[s] = "command" /\ pc'[s] = "destroy"
         \/ pc[s] = "destroy" /\ pc'[s] = "exit"
         \/ pc[s] = "exit" /\ pc'[s] = "exited"
      /\ data' = data
  BY <1>1, Arrives
  DEF SessCreateFails, EmitGreeting, LoopTop, EndOfStream, EmptyLine,
      SessDestroy, ThreadExit, HandleQuit, Dispatches, At, xferVars
<1>3. Stage(s)' < Stage(s)  BY <1>2, Ranks DEF Stage
<1> QED  BY <1>2, <1>3, Nearer

LEMMA AnswersRunDown ==
    ASSUME TypeOK, TypeOK', NEW s \in Sessions,
           \/ HandlePlain(s) \/ HandleFeat(s) \/ HandleSite(s)
           \/ HandleRnfr(s) \/ HandleRnto(s) \/ BadSequence(s)
           \/ HandlePasv(s) \/ HandlePort(s)
    PROVE  RunsDown(s)
<1>1. pc[s] = "dispatch" /\ data' = data
  BY DEF HandlePlain, HandleFeat, HandleSite, HandleRnfr, HandleRnto,
         BadSequence, HandlePasv, HandlePort, Dispatches, At, xferVars
<1>2. pc'[s] = "loop"
  BY Arrives DEF HandlePlain, HandleFeat, HandleSite, HandleRnfr, HandleRnto,
     BadSequence, HandlePasv, HandlePort, ReturnWrite, ReturnError, Return
<1>3. Stage(s)' < Stage(s)  BY <1>1, <1>2, Ranks DEF Stage
<1> QED  BY <1>1, <1>3, Nearer DEF RunsDown

LEMMA TransfersRunDown ==
    ASSUME TypeOK, TypeOK', NEW s \in Sessions,
           \/ HandleRetr(s) \/ HandleUpload(s) \/ HandleList(s)
           \/ AwaitPasv(s) \/ AcceptPasv(s) \/ AcceptFails(s)
           \/ ConnectPort(s) \/ ConnectFails(s)
           \/ Dispose(s) \/ Complete(s) \/ Cleanup(s)
    PROVE  RunsDown(s)
<1>1. CASE HandleRetr(s) \/ HandleUpload(s) \/ HandleList(s)
  <2>1. pc[s] = "dispatch"
    BY <1>1 DEF HandleRetr, HandleUpload, HandleList, Dispatches, At
  <2>2. data' = data \/ \E n : data' = [data EXCEPT ![s].want = n]
    BY <1>1 DEF HandleRetr, HandleUpload, HandleList, Refuse, GetTransferFd,
                xferVars
  <2>3. data'[s].moved = data[s].moved
    BY <2>2 DEF TypeOK, DataStreams
  <2>4. pc'[s] \in {"loop", "fd"}
    BY <1>1, Arrives
    DEF HandleRetr, HandleUpload, HandleList, Refuse, GetTransferFd,
        ReturnWrite, ReturnError, Return
  <2>5. MaxChunks - data[s].moved \in Nat
    <3>1. data[s].moved \in 0..MaxChunks  BY DEF TypeOK, DataStreams
    <3> QED  BY <3>1, ConstantsAssumption
  <2>6. StepsLeft(s) = 11 + (MaxChunks - data[s].moved)
    BY <2>1, Ranks DEF StepsLeft, Stage
  <2>7. StepsLeft(s)' \in {4, 10 + (MaxChunks - data[s].moved)}
    BY <2>3, <2>4, Ranks DEF StepsLeft, Stage
  <2> QED  BY <2>5, <2>6, <2>7 DEF RunsDown
<1>2. CASE \/ AwaitPasv(s) \/ AcceptPasv(s) \/ AcceptFails(s)
           \/ ConnectPort(s) \/ ConnectFails(s)
  <2>1. data' = data
    BY <1>2 DEF AwaitPasv, AcceptPasv, AcceptFails, ConnectPort, ConnectFails,
                Connected, NotConnected, xferVars
  <2>2. \/ pc[s] = "fd" /\ pc'[s] \in {"accept", "transfer", "loop"}
        \/ pc[s] = "accept" /\ pc'[s] \in {"transfer", "loop"}
    BY <1>2, Arrives
    DEF AwaitPasv, AcceptPasv, AcceptFails, ConnectPort, ConnectFails,
        Connected, NotConnected, ReturnError, Return, At
  <2>3. Stage(s)' < Stage(s)  BY <2>2, Ranks DEF Stage
  <2> QED  BY <2>1, <2>3, Nearer DEF RunsDown
<1>3. CASE Dispose(s) \/ Complete(s) \/ Cleanup(s)
  <2>1. UNCHANGED <<data, verb>>
    BY <1>3 DEF Dispose, Complete, Cleanup, xferVars, loopVars
  <2>2. \/ pc[s] = "dispose" /\ verb[s] = "LIST" /\ pc'[s] = "loop"
        \/ pc[s] = "dispose" /\ verb[s] # "LIST" /\ pc'[s] = "complete"
        \/ pc[s] = "complete" /\ verb[s] = "LIST" /\ pc'[s] = "dispose"
        \/ pc[s] = "complete" /\ verb[s] # "LIST" /\ pc'[s] = "cleanup"
        \/ pc[s] = "cleanup" /\ pc'[s] = "loop"
    BY <1>3, Arrives DEF Dispose, Complete, Cleanup, Return, At
  <2>3. Stage(s)' < Stage(s)  BY <2>1, <2>2, Ranks DEF Stage
  <2> QED  BY <2>1, <2>3, Nearer DEF RunsDown
<1> QED  BY <1>1, <1>2, <1>3

LEMMA StreamsRunDown ==
    ASSUME TypeOK, TypeOK', NEW s \in Sessions,
           \/ SendChunk(s) \/ SendEnds(s) \/ SendFails(s) \/ SendListing(s)
           \/ RecvChunk(s) \/ RecvEnds(s) \/ RecvFails(s) \/ WriteFails(s)
    PROVE  RunsDown(s)
<1>1. pc[s] = "transfer"
  BY DEF SendChunk, SendEnds, SendFails, SendListing, RecvChunk, RecvEnds,
         RecvFails, WriteFails, InTransfer, At
<1>2. verb' = verb
  BY DEF SendChunk, SendEnds, SendFails, SendListing, RecvChunk, RecvEnds,
         RecvFails, WriteFails, StreamStays, loopVars
<1>3. CASE \E code : Finish(s, code)
  <2>1. \/ verb[s] = "LIST" /\ pc'[s] = "complete"
        \/ verb[s] # "LIST" /\ pc'[s] = "dispose"
    BY <1>3, Arrives DEF Finish
  <2>2. pc'[s] \notin Moving  BY <2>1 DEF Moving
  <2>3. Stage(s)' < Stage(s)  BY <1>1, <1>2, <2>1, Ranks DEF Stage
  <2> QED  BY <2>2, <2>3, Nearer DEF RunsDown
<1>4. CASE SendChunk(s) \/ RecvChunk(s)
  <2>1. pc' = pc /\ data'[s].moved = data[s].moved + 1
    BY <1>4 DEF SendChunk, RecvChunk, TypeOK, DataStreams
  <2>2. data[s].moved \in 0..MaxChunks  BY DEF TypeOK, DataStreams
  <2>3. StepsLeft(s) = 8 + (MaxChunks - data[s].moved)
    BY <1>1, Ranks DEF StepsLeft, Stage
  <2>4. StepsLeft(s)' = 8 + (MaxChunks - (data[s].moved + 1))
    BY <1>1, <1>4, <2>1, Ranks DEF StepsLeft, Stage
  <2> QED  BY <2>2, <2>3, <2>4, ConstantsAssumption DEF RunsDown
<1>5. CASE WriteFails(s) /\ pc' = pc
  <2>1. data'[s].moved = data[s].moved
    BY <1>5 DEF WriteFails, TypeOK, DataStreams
  <2> QED  BY <1>5, <2>1 DEF RunsDown
<1> QED
  BY <1>3, <1>4, <1>5
  DEF SendChunk, SendEnds, SendFails, SendListing, RecvChunk, RecvEnds,
      RecvFails, WriteFails

\* The client, its peer and the exit of the process do not move a worker.
LEMMA OthersMoveNone ==
    ASSUME TypeOK, NEW s \in Sessions,
           \/ Environment(s)
           \/ HandleSiteNull(s) \/ HandlePortNull(s) \/ NeitherActive(s)
    PROVE  RunsDown(s)
<1>1. pc' = pc
  BY DEF Environment, ClientLeaves, PeerConnects, PeerSends, PeerEnds,
         HandleSiteNull, HandlePortNull, NeitherActive, ProcessExit
<1>2. \/ data' = data
      \/ data' = [data EXCEPT ![s].sent = @ + 1]
      \/ \E how : data' = [data EXCEPT ![s].peer = how]
  BY DEF Environment, ClientLeaves, PeerConnects, PeerSends, PeerEnds,
         HandleSiteNull, HandlePortNull, NeitherActive, ProcessExit, xferVars
<1>3. data'[s].moved = data[s].moved  BY <1>2 DEF TypeOK, DataStreams
<1> QED  BY <1>1, <1>3 DEF RunsDown

LEMMA RunDownStep ==
    ControlInv /\ ControlInv' /\ [Next]_vars => \A t \in Sessions : RunsDown(t)
<1> SUFFICES ASSUME ControlInv, ControlInv', [Next]_vars, NEW t \in Sessions
             PROVE  RunsDown(t)
  OBVIOUS
<1>1. TypeOK /\ TypeOK'  BY DEF ControlInv
<1>2. ASSUME NEW s \in Sessions, Progress(s) \/ Chance(s) \/ Environment(s)
      PROVE  RunsDown(t)
  <2>1. CASE s = t
    BY <1>1, <1>2, <2>1, ThreadRunsDown, AnswersRunDown, TransfersRunDown,
       StreamsRunDown, OthersMoveNone
    DEF Progress, Chance
  <2>2. CASE s # t
    <3>1. Untouched(t)  BY <1>1, <1>2, <2>2, Frame
    <3> QED  BY <3>1 DEF Untouched, RunsDown
  <2> QED  BY <2>1, <2>2
<1>3. CASE UNCHANGED vars  BY <1>3 DEF vars, xferVars, RunsDown
<1> QED  BY <1>2, <1>3 DEF Next, Terminated

\* Once its client has gone a worker only comes nearer its exit, from whatever
\* command, transfer or error it is in, and however long the transfer: the loop
\* of ftp_protocol_loop, the handlers and the transfer loops.
THEOREM GoneClientsSessionRunsDownAlways == Spec => GoneClientsSessionRunsDown
<1>1. (\A t \in Sessions : RunsDown(t)) <=>
      \A s \in Sessions :
          /\ ~commUp[s]
          /\ pc'[s] # pc[s] \/ data'[s].moved # data[s].moved
          => StepsLeft(s)' < StepsLeft(s)
  BY DEF RunsDown
<1> QED  BY <1>1, RunDownStep, ControlAlways, PTL
         DEF Spec, GoneClientsSessionRunsDown

=============================================================================
