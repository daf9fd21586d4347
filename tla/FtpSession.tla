----------------------------- MODULE FtpSession -----------------------------
(***************************************************************************)
(* The worker threads of lklftpd: the command loop of worker.c, the        *)
(* handlers of cmdhandler.c it dispatches to, and the data channel of      *)
(* connection.c.  Each session is one thread with its own struct lfd_sess; *)
(* the sessions share the process, so a call to bug() by one of them ends  *)
(* all of them.                                                            *)
(*                                                                         *)
(* The file system answers "done" or "failed" here; what the sessions do   *)
(* to each other's files is a matter for another module.  The features the *)
(* code never switches on (is_ascii, restart_pos, in_progress and          *)
(* abor_received are read but never set) are left out with the branches    *)
(* they guard.                                                             *)
(***************************************************************************)
EXTENDS Integers, Sequences, FiniteSets

CONSTANTS
    Sessions,      \* the worker threads, one per accepted control connection
    Paths,         \* the path names that commands mention
    NoPath,        \* a missing argument, a NULL temp_name
    Commands,      \* the commands the clients send
    MaxChunks,     \* bound on the chunks of a file, a listing or an upload
    LklFileApis    \* the build flag LKL_FILE_APIS: LKL or APR file operations

-----------------------------------------------------------------------------
(* Commands and reply codes (ftpcodes.h).                                  *)

Uploads   == {"STOR", "APPE", "STOU"}
Transfers == {"RETR", "LIST"} \cup Uploads

\* What the handlers that only answer may say.  "UNKNOWN" is any command
\* without a handler; REIN stands for ACCT and SMNT too.
PlainReplies ==
    [USER |-> {230}, PASS |-> {230}, SYST |-> {215}, TYPE |-> {200},
     ABOR |-> {225}, PWD  |-> {257}, ALLO |-> {202}, REIN |-> {502},
     CWD  |-> {250, 202, 550}, CDUP |-> {202}, RMD |-> {250, 550},
     MKD  |-> {257, 550}, DELE |-> {250, 501, 550}, UNKNOWN |-> {502}]

Plain == DOMAIN PlainReplies

\* Commands with an optional path as argument.
TakesPath == Transfers \cup {"RNFR", "RNTO", "SITE", "PORT"}

AllCommands == Plain \cup TakesPath \cup {"PASV", "FEAT", "QUIT"}

\* Handlers that drop the result of lfd_cmdio_write and report success.
DropsWriteResult == {"TYPE", "ABOR", "UNKNOWN"}

FTP_MORE == 100000

HandlerCodes == {150, 200, 211, 211 + FTP_MORE, 214, 220, 221, 226, 227, 250,
                 350, 425, 426, 451, 500, 501, 502, 503, 550, 553}

Codes == HandlerCodes \cup UNION {PlainReplies[v] : v \in Plain}

ASSUME ConstantsAssumption ==
    /\ NoPath \notin Paths
    /\ Commands \subseteq AllCommands
    /\ MaxChunks \in Nat
    /\ LklFileApis \in BOOLEAN

-----------------------------------------------------------------------------
VARIABLES
    exitCause,  \* why the process has exited, "none" while it runs
    pc,         \* where each worker is
    verb,       \* ftp_cmd_str: the command last received
    arg,        \* ftp_arg_str
    rc,         \* the local rc of the command loop: APR_SUCCESS or not
    rnfrto,     \* local of the command loop: a RNFR waits for its RNTO
    tempName,   \* local of the command loop: the path that RNFR named
    pasvFd,     \* sess->pasv_listen_fd is not NULL
    portAddr,   \* sess->p_port_sockaddr is not NULL
    dataSock,   \* sess->data_conn->data_sock is not NULL
    loopPool,   \* what sess->loop_pool still holds open: "file", "sock"
    status,     \* reply code the finished transfer is to end with
    out,        \* the replies written since the command was received
    commUp,     \* the client has its end of the control connection, or
                \* something that it sent is still unread
    backlog,    \* connections waiting at the PASV listener (kernel)
    data,       \* the data connection and what has moved over it
    granted     \* history: path of the RNFR granted by the previous command

loopVars == <<verb, arg, rnfrto, tempName, granted>>
chanVars == <<pasvFd, portAddr, backlog>>
xferVars == <<dataSock, loopPool, status, data>>
vars     == <<exitCause, pc, rc, out, commUp, loopVars, chanVars, xferVars>>

Locations == {"start", "command", "dispatch", "fd", "accept", "transfer",
              "dispose", "complete", "cleanup", "loop", "destroy", "exit",
              "exited"}

\* want: chunks a download has to send; sent: chunks the peer of an upload
\* has sent; moved: chunks the transfer loop has dealt with; peer: the other
\* end of the connection; stored: whether the file has what was received, or
\* it is damaged, or a write of the chunk in hand has failed and is gone on with.
DataStreams == [want : 0..MaxChunks, sent : 0..MaxChunks, moved : 0..MaxChunks,
                peer : {"open", "shut", "reset"},
                stored : {"whole", "failing", "damaged"}]

NoData == [want |-> 0, sent |-> 0, moved |-> 0, peer |-> "open",
           stored |-> "whole"]

TypeOK ==
    /\ exitCause \in {"none", "neither", "null"}
    /\ pc        \in [Sessions -> Locations]
    /\ verb      \in [Sessions -> AllCommands \cup {"NONE"}]
    /\ arg       \in [Sessions -> Paths \cup {NoPath}]
    /\ rc        \in [Sessions -> BOOLEAN]
    /\ rnfrto    \in [Sessions -> BOOLEAN]
    /\ tempName  \in [Sessions -> Paths \cup {NoPath}]
    /\ pasvFd    \in [Sessions -> BOOLEAN]
    /\ portAddr  \in [Sessions -> BOOLEAN]
    /\ dataSock  \in [Sessions -> BOOLEAN]
    /\ loopPool  \in [Sessions -> SUBSET {"file", "sock"}]
    /\ status    \in [Sessions -> {0, 226, 426, 451}]
    /\ out       \in [Sessions -> Seq(Codes)]
    /\ commUp    \in [Sessions -> BOOLEAN]
    /\ backlog   \in [Sessions -> {0, 1}]
    /\ data      \in [Sessions -> DataStreams]
    /\ granted   \in [Sessions -> Paths \cup {NoPath}]

Init ==
    /\ exitCause = "none"
    /\ pc        = [s \in Sessions |-> "start"]
    /\ verb      = [s \in Sessions |-> "NONE"]
    /\ arg       = [s \in Sessions |-> NoPath]
    /\ rc        = [s \in Sessions |-> TRUE]
    /\ rnfrto    = [s \in Sessions |-> FALSE]
    /\ tempName  = [s \in Sessions |-> NoPath]
    /\ pasvFd    = [s \in Sessions |-> FALSE]
    /\ portAddr  = [s \in Sessions |-> FALSE]
    /\ dataSock  = [s \in Sessions |-> FALSE]
    /\ loopPool  = [s \in Sessions |-> {}]
    /\ status    = [s \in Sessions |-> 0]
    /\ out       = [s \in Sessions |-> <<>>]
    /\ commUp    = [s \in Sessions |-> TRUE]
    /\ backlog   = [s \in Sessions |-> 0]
    /\ data      = [s \in Sessions |-> NoData]
    /\ granted   = [s \in Sessions |-> NoPath]

Running == exitCause = "none"

At(s, where)   == Running /\ pc[s] = where
Goto(s, where) == pc' = [pc EXCEPT ![s] = where]

-----------------------------------------------------------------------------
(* The pieces that the handlers share.                                     *)

\* A reply counts as written whether or not apr_socket_send succeeds.
Write(s, code) == out' = [out EXCEPT ![s] = Append(@, code)]

\* The handler returns to the command loop with the given rc.
Return(s, ok) == /\ rc' = [rc EXCEPT ![s] = ok]
                 /\ Goto(s, "loop")

\* The handler returns what its last write returned.  A write fails when the
\* client has gone, which the session need not have noticed otherwise.
ReturnWrite(s, code) == /\ Write(s, code)
                        /\ \E ok \in BOOLEAN : Return(s, ok)

\* The handler answers and returns an error of its own.
ReturnError(s, code) == /\ Write(s, code)
                        /\ Return(s, FALSE)

PortCleanup(s) == portAddr' = [portAddr EXCEPT ![s] = FALSE]

\* Slip: the listener is closed but its pointer is not reset.
PasvCleanupDangling(s) == backlog' = [backlog EXCEPT ![s] = 0] /\ UNCHANGED pasvFd

\* Closing the listener resets the connection that waits on it.
PasvCleanup(s) == /\ pasvFd'  = [pasvFd EXCEPT ![s] = FALSE]
                  /\ backlog' = [backlog EXCEPT ![s] = 0]

CommunicationCleanup(s) == PortCleanup(s) /\ PasvCleanup(s)

\* One of pasv_active and port_active.
ChannelReady(s) == pasvFd[s] \/ portAddr[s]

\* A command is run as itself unless a granted RNFR waits for its RNTO.
Dispatches(s, v) == At(s, "dispatch") /\ verb[s] = v /\ ~rnfrto[s]

-----------------------------------------------------------------------------
(* The worker's thread: worker.c and sess.c.                               *)

\* lfd_sess_create fails: the worker closes the socket and leaves.
SessCreateFails(s) ==
    /\ At(s, "start")
    /\ Goto(s, "exit")
    /\ UNCHANGED <<exitCause, rc, out, commUp, loopVars, chanVars, xferVars>>

EmitGreeting(s) ==
    /\ At(s, "start")
    /\ Write(s, 220)
    /\ \E ok \in BOOLEAN : Goto(s, IF ok THEN "loop" ELSE "destroy")
    /\ UNCHANGED <<exitCause, rc, commUp, loopVars, chanVars, xferVars>>

\* The condition of the command loop, and the apr_pool_clear at its top: a
\* file or a socket that a handler left open is closed here.
LoopTop(s) ==
    /\ At(s, "loop")
    /\ IF rc[s] THEN /\ Goto(s, "command")
                     /\ loopPool' = [loopPool EXCEPT ![s] = {}]
                ELSE /\ Goto(s, "destroy")
                     /\ UNCHANGED loopPool
    /\ UNCHANGED <<exitCause, rc, out, commUp, loopVars, chanVars, dataSock,
                   status, data>>

\* lfd_cmdio_get_cmd_and_arg returns a command and its argument.
ReceiveCommand(s) ==
    /\ At(s, "command")
    /\ commUp[s]
    /\ \E v \in Commands :
         /\ verb' = [verb EXCEPT ![s] = v]
         /\ \E a \in IF v \in TakesPath THEN Paths \cup {NoPath} ELSE {NoPath} :
                arg' = [arg EXCEPT ![s] = a]
    /\ granted' = [granted EXCEPT ![s] =
           IF verb[s] = "RNFR" /\ out[s] = <<350>> THEN arg[s] ELSE NoPath]
    /\ out'    = [out EXCEPT ![s] = <<>>]
    /\ data'   = [data EXCEPT ![s] = NoData]
    /\ status' = [status EXCEPT ![s] = 0]
    /\ Goto(s, "dispatch")
    /\ UNCHANGED <<exitCause, rc, commUp, rnfrto, tempName, chanVars,
                   dataSock, loopPool>>

\* Slip: a length of 0 is taken for an empty command.
EndOfStreamIgnored(s) ==
    /\ At(s, "command")
    /\ ~commUp[s]
    /\ Return(s, TRUE)
    /\ UNCHANGED <<exitCause, out, commUp, loopVars, chanVars, xferVars>>

\* It returns an error instead: the end of the stream or a reset ...
EndOfStream(s) ==
    /\ At(s, "command")
    /\ ~commUp[s]
    /\ Goto(s, "destroy")
    /\ UNCHANGED <<exitCause, rc, out, commUp, loopVars, chanVars, xferVars>>

\* ... or a line that holds no command, APR_INCOMPLETE.
EmptyLine(s) ==
    /\ At(s, "command")
    /\ commUp[s]
    /\ Goto(s, "destroy")
    /\ UNCHANGED <<exitCause, rc, out, commUp, loopVars, chanVars, xferVars>>

\* lfd_sess_destroy, and then apr_thread_exit, which frees the thread's pool.
SessDestroy(s) ==
    /\ At(s, "destroy")
    /\ loopPool' = [loopPool EXCEPT ![s] = {}]
    /\ Goto(s, "exit")
    /\ UNCHANGED <<exitCause, rc, out, commUp, loopVars, chanVars, dataSock,
                   status, data>>

ThreadExit(s) ==
    /\ At(s, "exit")
    /\ Goto(s, "exited")
    /\ CommunicationCleanup(s)
    /\ UNCHANGED <<exitCause, rc, out, commUp, loopVars, xferVars>>

\* bug() or a NULL argument takes the whole process down.
ProcessExit(s, cause) ==
    /\ exitCause' = cause
    /\ UNCHANGED <<pc, rc, out, commUp, loopVars, chanVars, xferVars>>

-----------------------------------------------------------------------------
(* Commands that only answer.                                              *)

HandlePlain(s) ==
    /\ \E v \in Plain :
         /\ Dispatches(s, v)
         /\ \E code \in PlainReplies[v] :
              IF v \in DropsWriteResult THEN Write(s, code) /\ Return(s, TRUE)
                                        ELSE ReturnWrite(s, code)
    /\ UNCHANGED <<exitCause, commUp, loopVars, chanVars, xferVars>>

HandleFeat(s) ==
    /\ Dispatches(s, "FEAT")
    /\ out' = [out EXCEPT ![s] = @ \o <<211 + FTP_MORE, 211>>]
    /\ Return(s, TRUE)
    /\ UNCHANGED <<exitCause, commUp, loopVars, chanVars, xferVars>>

\* CHMOD and UMASK are logged and not answered; HELP and the rest are.
HandleSite(s) ==
    /\ Dispatches(s, "SITE")
    /\ arg[s] # NoPath
    /\ \/ Return(s, TRUE) /\ UNCHANGED out
       \/ \E code \in {214, 500} : ReturnWrite(s, code)
    /\ UNCHANGED <<exitCause, commUp, loopVars, chanVars, xferVars>>

\* Without an argument the comparison reads through a NULL pointer.
HandleSiteNull(s) ==
    /\ Dispatches(s, "SITE")
    /\ arg[s] = NoPath
    /\ ProcessExit(s, "null")

HandleQuit(s) ==
    /\ Dispatches(s, "QUIT")
    /\ Write(s, 221)
    /\ Goto(s, "destroy")
    /\ UNCHANGED <<exitCause, rc, commUp, loopVars, chanVars, xferVars>>

-----------------------------------------------------------------------------
(* RNFR and RNTO.                                                          *)

HandleRnfr(s) ==
    /\ Dispatches(s, "RNFR")
    /\ \E ok, found \in BOOLEAN :
         /\ Return(s, ok)
         /\ IF arg[s] # NoPath /\ found
            THEN /\ Write(s, 350)
                 /\ tempName' = [tempName EXCEPT ![s] = arg[s]]
                 /\ rnfrto' = [rnfrto EXCEPT ![s] = ok]
            ELSE /\ Write(s, 550)
                 /\ tempName' = [tempName EXCEPT ![s] = NoPath]
                 /\ UNCHANGED rnfrto
    /\ UNCHANGED <<exitCause, commUp, verb, arg, granted, chanVars, xferVars>>

\* RNTO after a granted RNFR renames tempName to the argument.
HandleRnto(s) ==
    /\ At(s, "dispatch") /\ verb[s] = "RNTO" /\ rnfrto[s]
    /\ rnfrto' = [rnfrto EXCEPT ![s] = FALSE]
    /\ IF arg[s] = NoPath THEN ReturnWrite(s, 501)
                          ELSE \E code \in {250, 501} : ReturnWrite(s, code)
    /\ UNCHANGED <<exitCause, commUp, verb, arg, tempName, granted, chanVars,
                   xferVars>>

\* Slip: rnfrto is not reset when another command comes in between.
BadSequenceKeepsRnfr(s) ==
    /\ At(s, "dispatch")
    /\ (verb[s] = "RNTO") # rnfrto[s]
    /\ ReturnWrite(s, 503)
    /\ UNCHANGED <<exitCause, commUp, loopVars, chanVars, xferVars>>

\* handle_bad_rnto: RNTO out of sequence, or anything else in its place.
BadSequence(s) ==
    /\ At(s, "dispatch")
    /\ (verb[s] = "RNTO") # rnfrto[s]
    /\ rnfrto' = [rnfrto EXCEPT ![s] = FALSE]
    /\ ReturnWrite(s, 503)
    /\ UNCHANGED <<exitCause, commUp, verb, arg, tempName, granted, chanVars,
                   xferVars>>

-----------------------------------------------------------------------------
(* The data channel: PASV and PORT, connection.c.                          *)

\* Any earlier channel is closed first.  A port cannot be bound, or the
\* listener cannot be set up: the session ends without an answer.
HandlePasv(s) ==
    /\ Dispatches(s, "PASV")
    /\ PortCleanup(s)
    /\ backlog' = [backlog EXCEPT ![s] = 0]
    /\ \E bound, listening \in BOOLEAN :
         /\ pasvFd' = [pasvFd EXCEPT ![s] = bound]
         /\ IF bound /\ listening THEN ReturnWrite(s, 227)
                                  ELSE Return(s, FALSE) /\ UNCHANGED out
    /\ UNCHANGED <<exitCause, commUp, loopVars, xferVars>>

\* A bad argument and an address that cannot be resolved end the session;
\* apr_sockaddr_info_get leaves a NULL address when it fails.
HandlePort(s) ==
    /\ Dispatches(s, "PORT")
    /\ PasvCleanup(s)
    /\ \/ /\ arg[s] # NoPath
          /\ portAddr' = [portAddr EXCEPT ![s] = TRUE]
          /\ Write(s, 200)
          /\ Return(s, TRUE)
       \/ /\ PortCleanup(s)
          /\ ReturnError(s, 500)
    /\ UNCHANGED <<exitCause, commUp, loopVars, xferVars>>

\* Without an argument apr_strtok may read through its NULL pointer.
HandlePortNull(s) ==
    /\ Dispatches(s, "PORT")
    /\ arg[s] = NoPath
    /\ ProcessExit(s, "null")

-----------------------------------------------------------------------------
(* The transfer commands up to the data connection, cmdhandler.c.          *)

\* On to lfd_get_remote_transfer_fd, with the pool holding what was opened.
GetTransferFd(s, opened, n) ==
    /\ loopPool' = [loopPool EXCEPT ![s] = @ \cup opened]
    /\ data' = [data EXCEPT ![s].want = n]
    /\ Goto(s, "fd")
    /\ UNCHANGED <<rc, dataSock, status>>

\* A command refused before it opens anything.
Refuse(s, code, continue) ==
    /\ IF continue THEN ReturnWrite(s, code) ELSE ReturnError(s, code)
    /\ UNCHANGED xferVars

HandleRetr(s) ==
    /\ Dispatches(s, "RETR")
    /\ \/ arg[s] = NoPath /\ Refuse(s, 501, TRUE)
       \/ arg[s] # NoPath /\ ~ChannelReady(s) /\ Refuse(s, 425, FALSE)
       \/ /\ arg[s] # NoPath /\ ChannelReady(s)
          /\ \/ Refuse(s, 550, FALSE)               \* open or stat fails
             \/ /\ Write(s, 550) /\ Return(s, TRUE) \* not a regular file
                /\ UNCHANGED xferVars
             \/ /\ \E n \in 0..MaxChunks : GetTransferFd(s, {"file"}, n)
                /\ UNCHANGED out
    /\ UNCHANGED <<exitCause, commUp, loopVars, chanVars>>

\* handle_upload_common.  The file is created or truncated before there is a
\* data connection; STOU announces the name it chose with a 150 of its own.
HandleUpload(s) ==
    /\ \E v \in Uploads : Dispatches(s, v)
    /\ \/ arg[s] = NoPath /\ Refuse(s, 501, TRUE)
       \/ arg[s] # NoPath /\ ~ChannelReady(s) /\ Refuse(s, 425, FALSE)
       \/ /\ arg[s] # NoPath /\ ChannelReady(s)
          /\ \/ Refuse(s, 553, FALSE)
             \/ /\ GetTransferFd(s, {"file"}, 0)
                /\ IF verb[s] = "STOU" THEN Write(s, 150) ELSE UNCHANGED out
             \/ /\ verb[s] = "STOU" /\ ReturnError(s, 150) \* not written
                /\ loopPool' = [loopPool EXCEPT ![s] = @ \cup {"file"}]
                /\ UNCHANGED <<dataSock, status, data>>
    /\ UNCHANGED <<exitCause, commUp, loopVars, chanVars>>

\* LIST goes for a data connection without data_transfer_checks_ok.
HandleList(s) ==
    /\ Dispatches(s, "LIST")
    /\ \/ Refuse(s, 501, TRUE)
       \/ /\ \E n \in 0..MaxChunks : GetTransferFd(s, {}, n)
          /\ UNCHANGED out
    /\ UNCHANGED <<exitCause, commUp, loopVars, chanVars>>

-----------------------------------------------------------------------------
(* lfd_get_remote_transfer_fd.                                             *)

\* bug("neither PORT nor PASV active in get_remote_transfer_fd")
NeitherActive(s) ==
    /\ At(s, "fd")
    /\ ~ChannelReady(s)
    /\ ProcessExit(s, "neither")

\* The worker blocks in apr_socket_accept.
AwaitPasv(s) ==
    /\ At(s, "fd")
    /\ pasvFd[s]
    /\ Goto(s, "accept")
    /\ UNCHANGED <<exitCause, rc, out, commUp, loopVars, chanVars, xferVars>>

\* init_data_sock_params, and the 150 whose result nobody looks at.
Connected(s) ==
    /\ dataSock' = [dataSock EXCEPT ![s] = TRUE]
    /\ loopPool' = [loopPool EXCEPT ![s] = @ \cup {"sock"}]
    /\ Write(s, 150)
    /\ Goto(s, "transfer")
    /\ UNCHANGED <<exitCause, rc, commUp, loopVars, pasvFd, portAddr, status,
                   data>>

\* Slip: the caller that gets NULL answers, as lfd_ftpdataio_get_pasv_fd has done.
NotConnectedTwice(s, left) ==
    /\ out' = [out EXCEPT ![s] = @ \o <<425, 425>>]
    /\ Return(s, FALSE)
    /\ IF verb[s] = "RETR"
       THEN /\ CommunicationCleanup(s)
            /\ loopPool' = [loopPool EXCEPT ![s] = (@ \ {"file"}) \cup left]
       ELSE /\ UNCHANGED chanVars
            /\ loopPool' = [loopPool EXCEPT ![s] = @ \cup left]
    /\ UNCHANGED <<exitCause, commUp, loopVars, dataSock, status, data>>

\* The caller gets NULL and returns APR_EINVAL; RETR alone cleans up.  What
\* is left of the attempt stays in the pool.
NotConnected(s, left) ==
    /\ ReturnError(s, 425)
    /\ IF verb[s] = "RETR"
       THEN /\ CommunicationCleanup(s)
            /\ loopPool' = [loopPool EXCEPT ![s] = (@ \ {"file"}) \cup left]
       ELSE /\ UNCHANGED chanVars
            /\ loopPool' = [loopPool EXCEPT ![s] = @ \cup left]
    /\ UNCHANGED <<exitCause, commUp, loopVars, dataSock, status, data>>

AcceptPasv(s) ==
    /\ At(s, "accept")
    /\ backlog[s] > 0
    /\ backlog' = [backlog EXCEPT ![s] = @ - 1]
    /\ Connected(s)

\* Slip: an accept that fails is tried again.
AcceptRetried(s) ==
    /\ At(s, "accept")
    /\ Goto(s, "fd")
    /\ UNCHANGED <<exitCause, rc, out, commUp, loopVars, chanVars, xferVars>>

AcceptFails(s) == At(s, "accept") /\ NotConnected(s, {})

ConnectPort(s) == /\ At(s, "fd") /\ portAddr[s] /\ ~pasvFd[s]
                  /\ Connected(s)
                  /\ UNCHANGED backlog

ConnectFails(s) == /\ At(s, "fd") /\ portAddr[s] /\ ~pasvFd[s]
                   /\ \E left \in {{}, {"sock"}} : NotConnected(s, left)

-----------------------------------------------------------------------------
(* The transfer loops.                                                     *)

InTransfer(s, verbs) == At(s, "transfer") /\ verb[s] \in verbs

StreamStays == UNCHANGED <<exitCause, rc, out, commUp, loopVars, chanVars,
                           dataSock, loopPool>>

\* The loop ends; RETR and the uploads close the connection and then answer,
\* LIST answers first.
Finish(s, code) ==
    /\ status' = [status EXCEPT ![s] = code]
    /\ Goto(s, IF verb[s] = "LIST" THEN "complete" ELSE "dispose")

\* do_file_send_rwloop reads a chunk and sends it.  lfd_socket_write_full
\* fails once the peer has reset the connection.
SendChunk(s) ==
    /\ InTransfer(s, {"RETR"})
    /\ data[s].moved < data[s].want
    /\ data' = [data EXCEPT ![s].moved = @ + 1]
    /\ UNCHANGED <<pc, status>>
    /\ StreamStays

SendEnds(s) ==
    /\ InTransfer(s, {"RETR"})
    /\ data[s].moved = data[s].want
    /\ Finish(s, 226)
    /\ UNCHANGED data
    /\ StreamStays

SendFails(s) ==
    /\ InTransfer(s, {"RETR"})
    /\ data[s].moved < data[s].want
    /\ \/ Finish(s, 451)                                \* lkl_file_read
       \/ data[s].peer = "reset" /\ Finish(s, 426)      \* apr_socket_send
    /\ UNCHANGED data
    /\ StreamStays

\* The listing goes out in one apr_socket_send, in full or not.
SendListing(s) ==
    /\ InTransfer(s, {"LIST"})
    /\ \E n \in 0..data[s].want :
         /\ n < data[s].want => data[s].peer = "reset"
         /\ data' = [data EXCEPT ![s].moved = n]
         /\ Finish(s, IF n = data[s].want THEN 226 ELSE 426)
    /\ StreamStays

\* Slip: a receive of 0 bytes counts as a chunk.
RecvChunkEmpty(s) ==
    /\ InTransfer(s, Uploads)
    /\ data' = [data EXCEPT ![s].moved = @ + 1]
    /\ UNCHANGED <<pc, status>>
    /\ StreamStays

\* do_file_recv receives a chunk and writes it.  After an error that was taken
\* for a count lkl_file_write_full ends having written something else.
RecvChunk(s) ==
    /\ InTransfer(s, Uploads)
    /\ data[s].moved < data[s].sent
    /\ data' = [data EXCEPT ![s].moved = data[s].moved + 1,
                            ![s].stored = IF data[s].stored = "failing"
                                          THEN "damaged" ELSE data[s].stored]
    /\ UNCHANGED <<pc, status>>
    /\ StreamStays

\* Slip: the upload ends when nothing is there to receive.
RecvEndsEarly(s) ==
    /\ InTransfer(s, Uploads)
    /\ data[s].moved = data[s].sent
    /\ Finish(s, 226)
    /\ UNCHANGED data
    /\ StreamStays

RecvEnds(s) ==
    /\ InTransfer(s, Uploads)
    /\ data[s].peer = "shut"
    /\ data[s].moved = data[s].sent
    /\ Finish(s, 226)
    /\ UNCHANGED data
    /\ StreamStays

RecvFails(s) ==
    /\ InTransfer(s, Uploads)
    /\ data[s].peer = "reset"
    /\ data[s].stored # "failing"
    /\ Finish(s, 426)
    /\ UNCHANGED data
    /\ StreamStays

\* Slip: do_file_recv does not look at what lkl_file_write_full returns.
WriteFailsUnseen(s) ==
    /\ InTransfer(s, Uploads)
    /\ data[s].moved < data[s].sent
    /\ data' = [data EXCEPT ![s].moved = @ + 1, ![s].stored = "damaged"]
    /\ UNCHANGED <<pc, status>>
    /\ StreamStays

\* The file system refuses a write of the chunk just received.  apr_file_write
\* reports it, and the file lacks the chunk.  The unsigned rv of lkl_file_write
\* hides it: lkl_file_write_full moves its buffer back by the error number and
\* tries again from there, until a write comes back that is no error.
WriteFails(s) ==
    /\ InTransfer(s, Uploads)
    /\ data[s].moved < data[s].sent
    /\ data' = [data EXCEPT ![s].stored =
                    IF LklFileApis THEN "failing" ELSE "damaged"]
    /\ IF LklFileApis THEN UNCHANGED <<pc, status>> ELSE Finish(s, 451)
    /\ StreamStays

\* Slip: the closed data socket stays in data_conn.
DisposeDangling(s) ==
    /\ At(s, "dispose")
    /\ loopPool' = [loopPool EXCEPT ![s] = @ \ {"sock"}]
    /\ Goto(s, IF verb[s] = "LIST" THEN "loop" ELSE "complete")
    /\ UNCHANGED <<exitCause, rc, out, commUp, loopVars, chanVars, dataSock,
                   status, data>>

\* lfd_dispose_transfer_fd.
Dispose(s) ==
    /\ At(s, "dispose")
    /\ dataSock' = [dataSock EXCEPT ![s] = FALSE]
    /\ loopPool' = [loopPool EXCEPT ![s] = @ \ {"sock"}]
    /\ Goto(s, IF verb[s] = "LIST" THEN "loop" ELSE "complete")
    /\ UNCHANGED <<exitCause, rc, out, commUp, loopVars, chanVars, status,
                   data>>

\* The reply that ends the transfer; only LIST heeds the result of the write.
Complete(s) ==
    /\ At(s, "complete")
    /\ Write(s, status[s])
    /\ IF verb[s] = "LIST"
       THEN /\ \E ok \in BOOLEAN : rc' = [rc EXCEPT ![s] = ok]
            /\ Goto(s, "dispose")
       ELSE /\ Goto(s, "cleanup")
            /\ UNCHANGED rc
    /\ UNCHANGED <<exitCause, commUp, loopVars, chanVars, xferVars>>

\* Slip: lfd_communication_cleanup is left out, as handle_list does.
CleanupKeepsChannel(s) ==
    /\ At(s, "cleanup")
    /\ loopPool' = [loopPool EXCEPT ![s] = @ \ {"file"}]
    /\ Return(s, TRUE)
    /\ UNCHANGED <<exitCause, out, commUp, loopVars, chanVars, dataSock, status,
                   data>>

\* Slip: lkl_file_close is left out.
CleanupKeepsFile(s) ==
    /\ At(s, "cleanup")
    /\ CommunicationCleanup(s)
    /\ Return(s, TRUE)
    /\ UNCHANGED <<exitCause, out, commUp, loopVars, xferVars>>

\* lfd_communication_cleanup and lkl_file_close, after RETR and the uploads.
Cleanup(s) ==
    /\ At(s, "cleanup")
    /\ CommunicationCleanup(s)
    /\ loopPool' = [loopPool EXCEPT ![s] = @ \ {"file"}]
    /\ Return(s, TRUE)
    /\ UNCHANGED <<exitCause, out, commUp, loopVars, dataSock, status, data>>

-----------------------------------------------------------------------------
(* The client and the network.                                             *)

\* The client closes or resets its control connection.
ClientLeaves(s) ==
    /\ Running
    /\ commUp[s]
    /\ commUp' = [commUp EXCEPT ![s] = FALSE]
    /\ UNCHANGED <<exitCause, pc, rc, out, loopVars, chanVars, xferVars>>

\* Somebody connects to the PASV listener, whose backlog is one.
PeerConnects(s) ==
    /\ Running
    /\ pasvFd[s]
    /\ backlog[s] = 0
    /\ backlog' = [backlog EXCEPT ![s] = 1]
    /\ UNCHANGED <<exitCause, pc, rc, out, commUp, loopVars, pasvFd, portAddr,
                   xferVars>>

PeerOpen(s) == Running /\ dataSock[s] /\ data[s].peer = "open"

PeerSends(s) ==
    /\ PeerOpen(s)
    /\ verb[s] \in Uploads
    /\ data[s].sent < MaxChunks
    /\ data' = [data EXCEPT ![s].sent = @ + 1]
    /\ UNCHANGED <<pc, status>>
    /\ StreamStays

PeerEnds(s, how) ==
    /\ PeerOpen(s)
    /\ data' = [data EXCEPT ![s].peer = how]
    /\ UNCHANGED <<pc, status>>
    /\ StreamStays

-----------------------------------------------------------------------------
\* Steps a scheduled worker takes of itself, whatever the client does ...
Progress(s) ==
    \/ EmitGreeting(s) \/ LoopTop(s) \/ SessDestroy(s) \/ ThreadExit(s)
    \/ EndOfStream(s)
    \/ HandlePlain(s) \/ HandleFeat(s) \/ HandleSite(s) \/ HandleSiteNull(s)
    \/ HandleQuit(s) \/ HandleRnfr(s) \/ HandleRnto(s) \/ BadSequence(s)
    \/ HandlePasv(s) \/ HandlePort(s)
    \/ HandleRetr(s) \/ HandleUpload(s) \/ HandleList(s)
    \/ NeitherActive(s) \/ AwaitPasv(s) \/ AcceptPasv(s)
    \/ ConnectPort(s) \/ ConnectFails(s)
    \/ SendChunk(s) \/ SendEnds(s) \/ SendListing(s)
    \/ RecvChunk(s) \/ RecvEnds(s) \/ RecvFails(s)
    \/ Dispose(s) \/ Complete(s) \/ Cleanup(s)

\* ... and those that take a command, or something else to go wrong.
Chance(s) ==
    \/ SessCreateFails(s) \/ ReceiveCommand(s) \/ EmptyLine(s)
    \/ HandlePortNull(s) \/ AcceptFails(s) \/ SendFails(s) \/ WriteFails(s)

Environment(s) ==
    \/ ClientLeaves(s) \/ PeerConnects(s) \/ PeerSends(s)
    \/ PeerEnds(s, "shut") \/ PeerEnds(s, "reset")

\* The process is gone, or every thread is.
Terminated ==
    /\ Running => \A s \in Sessions : pc[s] = "exited"
    /\ UNCHANGED vars

Next == \/ \E s \in Sessions : Progress(s) \/ Chance(s) \/ Environment(s)
        \/ Terminated

Spec == Init /\ [][Next]_vars

\* The next step of a transfer is not the worker's alone: a send returns when the
\* peer reads (or resets the connection), and a write that fails may do so again.
HeldUp(s) ==
    /\ pc[s] = "transfer"
    /\ \/ verb[s] \notin Uploads
          /\ data[s].moved < data[s].want /\ data[s].peer # "reset"
       \/ data[s].stored = "failing"

\* A thread runs while it can, the threads being the operating system's.  Nobody
\* else has to do anything: no client, no peer of a data connection (keep-alive,
\* connection.c 278, ends the connections of dead hosts only) and no disk.
Fairness == \A s \in Sessions : WF_vars(~HeldUp(s) /\ Progress(s))

FairSpec == Spec /\ Fairness

-----------------------------------------------------------------------------
(* Safety.                                                                 *)

\* PORT and PASV are never both in force.  Two of the calls to bug() in
\* connection.c (port_active and pasv_active) are for this; the two functions
\* call each other, so a session in such a state would never return from them.
OneChannel == \A s \in Sessions : ~(pasvFd[s] /\ portAddr[s])

\* A worker that is about to set up a data connection has none: the bug() of
\* init_data_sock_params cannot be reached, on any path by which an earlier
\* transfer of the session has ended.
NoDataSockLeft ==
    \A s \in Sessions :
        pc[s] \in {"command", "dispatch", "fd", "accept"} => ~dataSock[s]

\* Strengthening of the above: where the data socket can be.  RETR and the
\* uploads close it before their last reply, LIST after it.
DataSockWhere ==
    \A s \in Sessions :
        dataSock[s] => \/ pc[s] \in {"transfer", "dispose"}
                       \/ pc[s] = "complete" /\ verb[s] = "LIST"

\* Strengthening of TypeOK: a transfer that is over has its reply code.
StatusKnown ==
    \A s \in Sessions : pc[s] \in {"dispose", "complete"} => status[s] # 0

\* The inductive invariant of the control part: TypeOK needs StatusKnown, and
\* NoDataSockLeft follows from DataSockWhere.
Control == StatusKnown /\ OneChannel /\ DataSockWhere

ControlInv == TypeOK /\ Control

\* RNTO renames only the path that the command just before it, a RNFR that
\* was answered 350, has named; and it does so whenever there was such a RNFR.
RenameFollowsRnfr ==
    \A s \in Sessions :
        pc[s] = "dispatch" =>
            /\ rnfrto[s] <=> granted[s] # NoPath
            /\ rnfrto[s] => tempName[s] = granted[s]

\* Once RETR or an upload has had a data connection, the channel it used is
\* gone when the next command is read: no connection still waiting on the
\* listener can be taken for the next transfer's.  (LIST leaves it in force.)
ChannelUsedOnce ==
    \A s \in Sessions :
        /\ pc[s] = "command"
        /\ verb[s] \in Transfers \ {"LIST"}
        /\ \E i \in DOMAIN out[s] : out[s][i] \in {226, 426, 451}
        => ~ChannelReady(s) /\ backlog[s] = 0

\* A handler that lets the session go on has closed the file and the sockets
\* it opened.  Where one leaves them to its pool, the session ends.
HandlersCloseWhatTheyOpen ==
    \A s \in Sessions : pc[s] = "loop" /\ rc[s] => loopPool[s] = {}

Answered226(s) == \E i \in DOMAIN out[s] : out[s][i] = 226

\* 226 is not said before everything has been moved: all of the file or the
\* listing, or all that the peer of an upload sent up to its orderly close.
CompleteMeansAll ==
    \A s \in Sessions :
        Answered226(s) =>
            IF verb[s] \in Uploads
            THEN data[s].moved = data[s].sent /\ data[s].peer = "shut"
            ELSE data[s].moved = data[s].want

\* After 226 the stored file is what was received: a write that failed, of any
\* chunk, has led to another reply.  lkl_file_write_full promises as much
\* (fileops.h 285: "out of space" terminates with an error).
CompleteMeansIntact ==
    \A s \in Sessions : Answered226(s) => data[s].stored = "whole"

\* The assertion of lfd_get_remote_transfer_fd, connection.c 366: no command
\* asks for a data connection when neither PORT nor PASV is active.
TransferFdHasChannel == exitCause # "neither"

-----------------------------------------------------------------------------
(* The dialogue of replies, as FtpDialogue promises it.                    *)

\* Where the session is between its commands; what it has said is out.
Phase(s) ==
    IF ~Running \/ pc[s] \in {"destroy", "exit", "exited"} THEN "closed"
    ELSE IF pc[s] = "start"   THEN "greeting"
    ELSE IF pc[s] = "command" THEN "idle"
    ELSE "busy"

\* STOU announces the name it has chosen and then the connection.
Kind(s) == IF verb[s] = "STOU" THEN "unique"
           ELSE IF verb[s] \in Transfers THEN "transfer"
           ELSE IF verb[s] = "SITE" THEN "mute" ELSE "plain"

Dialogue == INSTANCE FtpDialogue
                WITH phase <- [s \in Sessions |-> Phase(s)],
                     kind  <- [s \in Sessions |-> Kind(s)],
                     said  <- out,
                     More  <- FTP_MORE

\* Every session keeps to the dialogue.  The mapping hides no reply: one command
\* is answered by one conclusion and nothing after it, whichever functions write
\* replies on the way (connection.c 328, 346 and 381, cmdhandler.c 732-768), and
\* before the next command is read (SITE CHMOD and UMASK pass in silence); 226
\* comes after the 150 of its transfer, of which there is one, and two in STOU.
KeepsDialogue == Dialogue!Spec

\* How far a worker is from its exit.  LIST answers before it closes its
\* connection, the other transfers after.
Rank == [start |-> 12, dispatch |-> 11, fd |-> 10, accept |-> 9, transfer |-> 8,
         dispose |-> 7, complete |-> 6, cleanup |-> 5, loop |-> 4, command |-> 3,
         destroy |-> 2, exit |-> 1, exited |-> 0]

Stage(s) == IF pc[s] = "dispose" /\ verb[s] = "LIST" THEN 5 ELSE Rank[pc[s]]

StepsLeft(s) ==
    Stage(s) + (IF Stage(s) >= 8 THEN MaxChunks - data[s].moved ELSE 0)

\* What a worker does once its client has gone: whatever command it is in, each
\* step that moves it brings it nearer its exit: no command is run again, and none
\* is taken up after it (worker.c 46).  The safe half of ClientGoneEndsSession.
GoneClientsSessionRunsDown ==
    [][\A s \in Sessions :
          /\ ~commUp[s]
          /\ pc'[s] # pc[s] \/ data'[s].moved # data[s].moved
          => StepsLeft(s)' < StepsLeft(s)]_vars

-----------------------------------------------------------------------------
(* Liveness.                                                               *)

\* What a worker can wait for: a connection to its PASV listener, a peer that is
\* to send or to read, and a disk that is to take a chunk.
Waits(s) ==
    \/ pc[s] = "accept" /\ backlog[s] = 0
    \/ HeldUp(s)
    \/ /\ pc[s] = "transfer" /\ verb[s] \in Uploads
       /\ data[s].moved = data[s].sent /\ data[s].peer = "open"

\* When a client has gone its worker ends, or waits for its data connection (or
\* its disk) and for ever: in no other place, and not from one wait to the next.
ClientGoneEndsSession ==
    \A s \in Sessions :
        ~commUp[s] ~> (pc[s] = "exited" \/ ~Running \/ []Waits(s))

\* config.c 22, of lfd_config_pasv_listen_socket_timeout: "because the client
\* might have died since he requested a passive transfer mode, we shouldn't
\* block forever, and thus we timeout after a while".
AcceptTimesOut ==
    \A s \in Sessions : pc[s] = "accept" ~> (pc[s] # "accept" \/ ~Running)

=============================================================================
