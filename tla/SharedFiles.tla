---------------------------- MODULE SharedFiles ----------------------------
(***************************************************************************)
(* Sessions of lklftpd at work on the same directory.  The handlers of     *)
(* cmdhandler.c take no lock: they meet in the file system, one system     *)
(* call (fileops.c, dirops.c, filestat.c) at a time, and whatever another  *)
(* session does may come between two calls of the same handler.            *)
(*                                                                         *)
(* A name is <<b, 0>>, or <<b, k>> for the "b.k" that STOU makes of it.    *)
(* Names are bound to inodes; an inode that has lost its name lives on     *)
(* while a session has it open.  Data moves in chunks, which carry the     *)
(* session that uploaded them and their number in that upload.  Replies    *)
(* and the data connection are left to FtpSession, and so is what happens  *)
(* after a failed write.                                                   *)
(***************************************************************************)
EXTENDS Integers, Sequences

CONSTANTS
    Sessions,   \* the worker threads
    Bases,      \* the names that clients think of
    MaxSuffix,  \* bound on the suffix of a name
    NoName,     \* a path that is NULL
    Inodes,     \* the inodes of the disk
    NoInode,    \* what a free name is bound to and what a closed file is
    Commands,   \* the commands the clients send
    MaxChunks,  \* bound on the chunks of an upload
    MaxLen      \* bound on the chunks of a file

Names == Bases \X (0..MaxSuffix)

Chunks == Sessions \X (1..MaxChunks)

ASSUME SharedFilesAssumption ==
    /\ NoName \notin Names
    /\ NoInode \notin Inodes
    /\ MaxSuffix \in Nat
    /\ MaxChunks \in Nat
    /\ MaxLen \in Nat

VARIABLES
    dir,       \* the inode that each name is bound to
    isDir,     \* the inodes that are directories
    content,   \* the chunks in each inode
    pc,        \* the system call that each session makes next
    kind,      \* the upload command in hand
    name,      \* the path that the handler works on
    fd,        \* the inode that the session has open
    stored,    \* chunks that the upload has written
    sent,      \* chunks that the download has read and sent
    from,      \* temp_name: the path of a RNFR that waits for its RNTO
    before,    \* history: what the file held once the upload had opened it
    cut,       \* history: another session has truncated the open file
    touched,   \* history: names rebound since the STOU in hand began
    made       \* history: the directory that the last command, a MKD, made

fsVars   == <<dir, isDir, content>>
workVars == <<pc, kind, name, fd, stored, sent, before>>
vars     == <<fsVars, workVars, from, cut, touched, made>>

UploadKinds == {"STOR", "APPE", "STOU"}

TypeOK ==
    /\ dir \in [Names -> Inodes \cup {NoInode}]
    /\ isDir \subseteq Inodes
    /\ content \in [Inodes -> Seq(Chunks)]
    /\ pc \in [Sessions -> {"command", "probe", "create", "receive", "stat",
                            "send", "mkdir"}]
    /\ kind \in [Sessions -> UploadKinds \cup {"none"}]
    /\ name \in [Sessions -> Names \cup {NoName}]
    /\ fd \in [Sessions -> Inodes \cup {NoInode}]
    /\ stored \in [Sessions -> 0..MaxChunks]
    /\ sent \in [Sessions -> Seq(Chunks)]
    /\ from \in [Sessions -> Names \cup {NoName}]
    /\ before \in [Sessions -> Seq(Chunks)]
    /\ cut \in [Sessions -> BOOLEAN]
    /\ touched \in [Sessions -> SUBSET Names]
    /\ made \in [Sessions -> Inodes \cup {NoInode}]

Init ==
    /\ dir = [n \in Names |-> NoInode]
    /\ isDir = {}
    /\ content = [i \in Inodes |-> <<>>]
    /\ pc = [s \in Sessions |-> "command"]
    /\ kind = [s \in Sessions |-> "none"]
    /\ name = [s \in Sessions |-> NoName]
    /\ fd = [s \in Sessions |-> NoInode]
    /\ stored = [s \in Sessions |-> 0]
    /\ sent = [s \in Sessions |-> <<>>]
    /\ from = [s \in Sessions |-> NoName]
    /\ before = [s \in Sessions |-> <<>>]
    /\ cut = [s \in Sessions |-> FALSE]
    /\ touched = [s \in Sessions |-> {}]
    /\ made = [s \in Sessions |-> NoInode]

-----------------------------------------------------------------------------
(* The file system.                                                        *)

Bound(n) == dir[n] # NoInode
Regular(n) == Bound(n) /\ dir[n] \notin isDir
Directory(n) == Bound(n) /\ dir[n] \in isDir

\* An inode that made still remembers is not given away again.
FreeInodes == {i \in Inodes : /\ \A n \in Names : dir[n] # i
                              /\ \A s \in Sessions : fd[s] # i /\ made[s] # i}

\* The binding of names to inodes becomes d by a call of session s.
Rebind(s, d) ==
    /\ dir' = d
    /\ touched' = [t \in Sessions |->
           IF t # s /\ pc[t] \in {"probe", "create"}
           THEN touched[t] \cup {n \in Names : d[n] # dir[n]}
           ELSE {}]

\* An inode without a name gives its chunks back when nobody has it open.
Reclaim ==
    content' = [i \in Inodes |->
        IF \/ \E n \in Names : dir'[n] = i
           \/ \E s \in Sessions : fd'[s] = i
        THEN content[i] ELSE <<>>]

\* A new, empty inode i gets the free name n.
Create(s, n, i) ==
    /\ ~Bound(n)
    /\ i \in FreeInodes
    /\ Rebind(s, [dir EXCEPT ![n] = i])
    /\ content' = [content EXCEPT ![i] = <<>>]

-----------------------------------------------------------------------------
(* The frame of a handler.                                                 *)

\* Session s starts to execute command v.  A RNFR lasts until then.
Starts(s, v) ==
    /\ v \in Commands
    /\ pc[s] = "command"
    /\ from' = [from EXCEPT ![s] = NoName]
    /\ made' = [made EXCEPT ![s] = NoInode]

\* The handler returns and its file, if any, is closed.
Returns(s) ==
    /\ pc' = [pc EXCEPT ![s] = "command"]
    /\ kind' = [kind EXCEPT ![s] = "none"]
    /\ name' = [name EXCEPT ![s] = NoName]
    /\ fd' = [fd EXCEPT ![s] = NoInode]
    /\ stored' = [stored EXCEPT ![s] = 0]
    /\ sent' = [sent EXCEPT ![s] = <<>>]
    /\ before' = [before EXCEPT ![s] = <<>>]
    /\ cut' = [cut EXCEPT ![s] = FALSE]

\* A command that finds its name missing, taken or of the wrong type, or whose
\* first system call fails for another reason, only answers.
Refused(s) ==
    /\ \E v \in Commands : Starts(s, v)
    /\ UNCHANGED <<fsVars, workVars, cut, touched>>

-----------------------------------------------------------------------------
(* STOR, APPE and STOU: handle_upload_common.                              *)

\* lkl_file_open with O_CREAT and O_APPEND, and O_TRUNC but for APPE.
OpenUpload(s, v, n) ==
    /\ \/ /\ Regular(n)
          /\ fd' = [fd EXCEPT ![s] = dir[n]]
          /\ content' = IF v = "APPE" THEN content
                        ELSE [content EXCEPT ![dir[n]] = <<>>]
          /\ cut' = [t \in Sessions |->
                        \/ cut[t]
                        \/ v # "APPE" /\ t # s /\ fd[t] = dir[n]]
          /\ before' = [before EXCEPT ![s] = content'[dir[n]]]
          /\ UNCHANGED <<dir, isDir, touched>>
       \/ \E i \in FreeInodes :
             /\ Create(s, n, i)
             /\ isDir' = isDir \ {i}
             /\ fd' = [fd EXCEPT ![s] = i]
             /\ UNCHANGED <<cut, before>>
    /\ pc' = [pc EXCEPT ![s] = "receive"]
    /\ kind' = [kind EXCEPT ![s] = v]
    /\ name' = [name EXCEPT ![s] = n]
    /\ UNCHANGED <<stored, sent>>

Upload(s) ==
    \E v \in {"STOR", "APPE"}, n \in Names :
        /\ Starts(s, v)
        /\ OpenUpload(s, v, n)

Stou(s) ==
    /\ Starts(s, "STOU")
    /\ \E b \in Bases : name' = [name EXCEPT ![s] = <<b, 0>>]
    /\ pc' = [pc EXCEPT ![s] = "probe"]
    /\ kind' = [kind EXCEPT ![s] = "STOU"]
    /\ touched' = [touched EXCEPT ![s] = {}]
    /\ UNCHANGED <<fsVars, fd, stored, sent, before, cut>>

\* Slip: the suffix is counted on once more, after the stat that found the
\* name free.
ProbeOneTooFar(s) ==
    /\ pc[s] = "probe"
    /\ name[s][2] < MaxSuffix
    /\ name' = [name EXCEPT ![s] = <<@[1], @[2] + 1>>]
    /\ pc' = IF Bound(name[s]) THEN pc ELSE [pc EXCEPT ![s] = "create"]
    /\ UNCHANGED <<fsVars, kind, fd, stored, sent, before, from, cut, touched,
                   made>>

\* One lkl_stat of get_unique_filename.
Probe(s) ==
    /\ pc[s] = "probe"
    /\ \/ /\ ~Bound(name[s])
          /\ pc' = [pc EXCEPT ![s] = "create"]
          /\ UNCHANGED name
       \/ /\ Bound(name[s])
          /\ name[s][2] < MaxSuffix
          /\ name' = [name EXCEPT ![s] = <<@[1], @[2] + 1>>]
          /\ UNCHANGED pc
    /\ UNCHANGED <<fsVars, kind, fd, stored, sent, before, from, cut, touched,
                   made>>

\* The open that follows; it is not exclusive.
OpenUnique(s) ==
    /\ pc[s] = "create"
    /\ OpenUpload(s, "STOU", name[s])
    /\ UNCHANGED <<from, made>>

\* lkl_file_open has failed.
OpenUniqueFails(s) ==
    /\ pc[s] = "create"
    /\ Returns(s)
    /\ UNCHANGED <<fsVars, from, touched, made>>

\* Slip: the empty receive at the end of the data is written as one more chunk.
WriteChunkAtEnd(s) ==
    /\ pc[s] = "receive"
    /\ stored[s] <= MaxChunks
    /\ content' = [content EXCEPT ![fd[s]] = Append(@, <<s, stored[s] + 1>>)]
    /\ stored' = [stored EXCEPT ![s] = @ + 1]
    /\ UNCHANGED <<dir, isDir, pc, kind, name, fd, sent, before, from, cut,
                   touched, made>>

\* Slip: the file is open without APR_FOPEN_APPEND, at an offset of its own.
WriteChunkAtOffset(s) ==
    /\ pc[s] = "receive"
    /\ stored[s] < MaxChunks
    /\ stored[s] <= Len(content[fd[s]])
    /\ content' = [content EXCEPT ![fd[s]] =
           IF stored[s] = Len(@) THEN Append(@, <<s, stored[s] + 1>>)
           ELSE [@ EXCEPT ![stored[s] + 1] = <<s, stored[s] + 1>>]]
    /\ stored' = [stored EXCEPT ![s] = @ + 1]
    /\ UNCHANGED <<dir, isDir, pc, kind, name, fd, sent, before, from, cut,
                   touched, made>>

\* A chunk is received and written with O_APPEND.
WriteChunk(s) ==
    /\ pc[s] = "receive"
    /\ stored[s] < MaxChunks
    /\ Len(content[fd[s]]) < MaxLen
    /\ content' = [content EXCEPT ![fd[s]] = Append(@, <<s, stored[s] + 1>>)]
    /\ stored' = [stored EXCEPT ![s] = @ + 1]
    /\ UNCHANGED <<dir, isDir, pc, kind, name, fd, sent, before, from, cut,
                   touched, made>>

\* The end of the data, or of the data connection, or a failure.
EndUpload(s) ==
    /\ pc[s] = "receive"
    /\ Returns(s)
    /\ UNCHANGED <<dir, isDir, from, touched, made>>
    /\ Reclaim

-----------------------------------------------------------------------------
(* RETR: handle_retr.                                                      *)

\* lkl_file_open for reading, which takes a directory too.
Retr(s) ==
    /\ Starts(s, "RETR")
    /\ \E n \in Names :
          /\ Bound(n)
          /\ fd' = [fd EXCEPT ![s] = dir[n]]
          /\ name' = [name EXCEPT ![s] = n]
    /\ pc' = [pc EXCEPT ![s] = "stat"]
    /\ UNCHANGED <<fsVars, kind, stored, sent, before, cut, touched>>

\* lkl_stat asks for the name once more and finds a regular file there.
StatRetr(s) ==
    /\ pc[s] = "stat"
    /\ Regular(name[s])
    /\ pc' = [pc EXCEPT ![s] = "send"]
    /\ UNCHANGED <<fsVars, kind, name, fd, stored, sent, before, from, cut,
                   touched, made>>

\* Slip: each chunk is looked up by the name.
ReadChunkByName(s) ==
    /\ pc[s] = "send"
    /\ Regular(name[s])
    /\ Len(sent[s]) < Len(content[dir[name[s]]])
    /\ sent' = [sent EXCEPT ![s] = Append(@, content[dir[name[s]]][Len(@) + 1])]
    /\ UNCHANGED <<fsVars, pc, kind, name, fd, stored, before, from, cut,
                   touched, made>>

\* lkl_file_read reads on in the open file; of a directory it reads nothing.
ReadChunk(s) ==
    /\ pc[s] = "send"
    /\ fd[s] \notin isDir
    /\ Len(sent[s]) < Len(content[fd[s]])
    /\ sent' = [sent EXCEPT ![s] = Append(@, content[fd[s]][Len(@) + 1])]
    /\ UNCHANGED <<fsVars, pc, kind, name, fd, stored, before, from, cut,
                   touched, made>>

\* The end of the file, a failure to read or to send, or a stat that finds no
\* regular file.
EndRetr(s) ==
    /\ pc[s] \in {"stat", "send"}
    /\ Returns(s)
    /\ UNCHANGED <<dir, isDir, from, touched, made>>
    /\ Reclaim

-----------------------------------------------------------------------------
(* Names: DELE, RMD, MKD, RNFR and RNTO.                                   *)

\* unlink and rmdir; there are no files in the directories.
Remove(s, n) ==
    /\ Rebind(s, [dir EXCEPT ![n] = NoInode])
    /\ Reclaim
    /\ UNCHANGED <<isDir, workVars, cut>>

Dele(s) ==
    /\ Starts(s, "DELE")
    /\ \E n \in Names : Regular(n) /\ fd' = fd /\ Remove(s, n)

Rmd(s) ==
    /\ Starts(s, "RMD")
    /\ \E n \in Names : Directory(n) /\ fd' = fd /\ Remove(s, n)

\* lkl_stat finds the name free.
Mkd(s) ==
    /\ Starts(s, "MKD")
    /\ \E n \in Names : ~Bound(n) /\ name' = [name EXCEPT ![s] = n]
    /\ pc' = [pc EXCEPT ![s] = "mkdir"]
    /\ UNCHANGED <<fsVars, kind, fd, stored, sent, before, cut, touched>>

\* Slip: an EEXIST of mkdir is taken for success, the directory being there.
MkdCallExists(s) ==
    /\ pc[s] = "mkdir"
    /\ Returns(s)
    /\ \/ \E i \in FreeInodes :
             /\ Create(s, name[s], i)
             /\ isDir' = isDir \cup {i}
             /\ made' = [made EXCEPT ![s] = i]
       \/ /\ Directory(name[s])
          /\ made' = [made EXCEPT ![s] = dir[name[s]]]
          /\ UNCHANGED <<fsVars, touched>>
       \/ UNCHANGED <<fsVars, touched, made>>
    /\ UNCHANGED from

\* lkl_dir_make, which another session may have forestalled.
MkdCall(s) ==
    /\ pc[s] = "mkdir"
    /\ Returns(s)
    /\ \/ \E i \in FreeInodes :
             /\ Create(s, name[s], i)
             /\ isDir' = isDir \cup {i}
             /\ made' = [made EXCEPT ![s] = i]
       \/ UNCHANGED <<fsVars, touched, made>>
    /\ UNCHANGED from

Rnfr(s) ==
    /\ "RNFR" \in Commands
    /\ pc[s] = "command"
    /\ \E n \in Names : Bound(n) /\ from' = [from EXCEPT ![s] = n]
    /\ made' = [made EXCEPT ![s] = NoInode]
    /\ UNCHANGED <<fsVars, workVars, cut, touched>>

\* rename, of whatever has the name of the RNFR now.  It replaces a file by a
\* file and a directory, being empty, by a directory.
Rnto(s) ==
    /\ Starts(s, "RNTO")
    /\ from[s] # NoName
    /\ Bound(from[s])
    /\ \E n \in Names :
          /\ Bound(n) => (dir[n] \in isDir <=> dir[from[s]] \in isDir)
          /\ Rebind(s, [dir EXCEPT ![from[s]] = NoInode, ![n] = dir[from[s]]])
    /\ fd' = fd
    /\ Reclaim
    /\ UNCHANGED <<isDir, workVars, cut>>

-----------------------------------------------------------------------------
Step(s) ==
    \/ Refused(s)
    \/ Upload(s) \/ Stou(s) \/ Probe(s) \/ OpenUnique(s) \/ OpenUniqueFails(s)
    \/ WriteChunk(s) \/ EndUpload(s)
    \/ Retr(s) \/ StatRetr(s) \/ ReadChunk(s) \/ EndRetr(s)
    \/ Dele(s) \/ Rmd(s) \/ Mkd(s) \/ MkdCall(s) \/ Rnfr(s) \/ Rnto(s)

Next == \E s \in Sessions : Step(s)

Spec == Init /\ [][Next]_vars

-----------------------------------------------------------------------------
(* Properties.                                                             *)

\* The file that session s receives holds what it held when it was opened,
\* and after that all that the session has written, in order; what others
\* append may stand between (APR_FOPEN_APPEND, cmdhandler.c 712).
KeepsUpload(s) ==
    LET f == content[fd[s]]
        new == (Len(before[s]) + 1)..Len(f)
    IN  /\ Len(before[s]) <= Len(f)
        /\ \A j \in 1..Len(before[s]) : f[j] = before[s][j]
        /\ \A k \in 1..stored[s] : \E j \in new : f[j] = <<s, k>>
        /\ \A j, k \in new : j < k /\ f[j][1] = s /\ f[k][1] = s
                                => f[j][2] < f[k][2]

\* What session s has sent is the beginning of the file it has open.
SendsOpenFile(s) ==
    /\ Len(sent[s]) <= Len(content[fd[s]])
    /\ \A j \in 1..Len(sent[s]) : sent[s][j] = content[fd[s]][j]

\* No session spoils the upload of another one (do_file_recv) but by truncating
\* its file, whatever it appends, renames or deletes.
UploadsKept ==
    \A s \in Sessions : pc[s] = "receive" /\ ~cut[s] => KeepsUpload(s)

\* What a RETR (do_file_send_rwloop) has sent is the beginning of one file, the
\* one it opened, though that be renamed, replaced, deleted or appended to in
\* the meantime; only a truncation by another session makes it a mixture.
RetrSendsOneFile ==
    \A s \in Sessions : pc[s] = "send" /\ ~cut[s] => SendsOpenFile(s)

\* Two sessions that were both told to have made a directory have made two
\* different ones: the test for the name at cmdhandler.c 157 decides nothing.
MkdHasOneMaker ==
    \A s, t \in Sessions : s # t /\ made[s] # NoInode => made[s] # made[t]

\* STOU opens, and so truncates, no file that had its name all the time since
\* the command began: what it can lose is only what came in between
\* (get_unique_filename, cmdhandler.c 586).
StouSparesOldFiles ==
    [][\A s \in Sessions :
          pc[s] = "create" /\ pc'[s] = "receive" /\ Bound(name[s])
              => name[s] \in touched[s]]_vars

\* The comment at cmdhandler.c 596 on get_unique_filename: "we should have an
\* unique filename".  Two STOU in progress would never share a file.
StouFilesDiffer ==
    \A s, t \in Sessions :
        s # t /\ kind[s] = "STOU" /\ kind[t] = "STOU"
            /\ pc[s] = "receive" /\ pc[t] = "receive" => fd[s] # fd[t]

-----------------------------------------------------------------------------
(* The inductive invariant behind these properties.                        *)

\* A session has a file open in the places where its handler has.
FileOpen(s) ==
    fd[s] # NoInode <=> pc[s] \in {"receive", "stat", "send"}

\* The handlers that are about to use a path have one.
HasName(s) ==
    pc[s] \in {"probe", "create", "stat", "mkdir"} => name[s] \in Names

\* A transfer starts from nothing.
CleanStart(s) ==
    /\ pc[s] # "receive" => stored[s] = 0 /\ before[s] = <<>>
    /\ pc[s] # "send" => sent[s] = <<>>

\* The chunks that the upload in hand has added are numbered by it so far.
Numbered(s) ==
    \A j \in (Len(before[s]) + 1)..Len(content[fd[s]]) :
        content[fd[s]][j][1] = s => content[fd[s]][j][2] <= stored[s]

\* The name STOU is about to open was free when it was looked for last.
FreeOrTouched(s) ==
    pc[s] = "create" /\ Bound(name[s]) => name[s] \in touched[s]

SessionInv(s) ==
    /\ FileOpen(s)
    /\ HasName(s)
    /\ CleanStart(s)
    /\ FreeOrTouched(s)
    /\ pc[s] = "receive" /\ ~cut[s] => KeepsUpload(s) /\ Numbered(s)
    /\ pc[s] = "send" /\ ~cut[s] => SendsOpenFile(s)

FilesInv == /\ TypeOK
            /\ MkdHasOneMaker
            /\ \A s \in Sessions : SessionInv(s)

=============================================================================
