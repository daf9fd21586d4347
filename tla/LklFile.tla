------------------------------ MODULE LklFile -------------------------------
(***************************************************************************)
(* One lkl_file_t (fileops.c) between the thread that uses it and the LKL  *)
(* kernel: open, read, write, their _full forms, seek, flush, close, with  *)
(* and without APR_BUFFERED.  A step is one call of the kernel, or one     *)
(* copy between the caller's buffer and the handle's, with the code around *)
(* it.  Nobody else uses the file meanwhile; SharedFiles is about that.    *)
(*                                                                         *)
(* The server opens {"READ"} for RETR and {"WRITE", "APPEND", ...} for the *)
(* uploads; the buffered mode is what fileops.h offers beyond that.        *)
(*                                                                         *)
(* A kernel call that is interrupted is made again, which changes nothing  *)
(* and has no step here; file_read_buffered alone does not.  When a write  *)
(* has lost bytes or taken an error for a count, or when a stale filePtr   *)
(* was used, astray is set and the handle is followed no further.          *)
(***************************************************************************)
EXTENDS Integers, Sequences

CONSTANTS
    Bytes,     \* the values of a byte
    Zero,      \* what a hole in a file reads as
    BufSize,   \* APR_FILE_BUFSIZE
    MaxLen,    \* bound on the length of a file
    MaxReq,    \* bound on the bytes of one call
    Opens,     \* the flags that files are opened with
    Faults     \* what kernel calls may do: "SHORT", "EIO", "EAGAIN", "EINTR"

\* What lkl_file_open can be told that matters to the text of the file.
Flags == {"READ", "WRITE", "APPEND", "CREATE", "EXCL", "TRUNCATE", "BUFFERED"}

ASSUME LklFileAssumption ==
    /\ Zero \in Bytes
    /\ BufSize \in Nat \ {0}
    /\ MaxLen \in Nat
    /\ MaxReq \in Nat \ {0}
    /\ Opens \subseteq SUBSET Flags

VARIABLES
    content,   \* kernel: the bytes of the file
    pos,       \* kernel: the offset of the descriptor
    file,      \* the lkl_file_t; of its buffer only the part that counts
    call,      \* the call in hand, and after it what it answered
    astray     \* history: see above

vars == <<content, pos, file, call, astray>>

Results == {"none", "running", "SUCCESS", "EOF", "EINTR", "TIMEUP", "ERROR"}

Ops == {"none", "read", "write", "SET", "CUR", "END", "flush", "close"}

\* Bytes asked for, still to be moved when lkl_file_read or lkl_file_write was
\* last entered (left) and now (amt), moved, and told; again: in the loop that
\* follows a wait.
Calls == [op : Ops, full : BOOLEAN, asked : Int, data : Seq(Bytes),
          left : Int, amt : Int, again : BOOLEAN, moved : Seq(Bytes),
          told : Int, rv : Results]

Files == [flags : SUBSET Flags,
          buffer : Seq(Bytes), bufpos : Nat, dataRead : Nat,
          direction : {0, 1}, filePtr : Nat, eof_hit : BOOLEAN]

TypeOK ==
    /\ content \in Seq(Bytes)
    /\ pos \in Nat
    /\ file \in Files
    /\ call \in Calls
    /\ astray \in BOOLEAN

NoFile == [flags |-> {}, buffer |-> <<>>, bufpos |-> 0, dataRead |-> 0,
           direction |-> 0, filePtr |-> 0, eof_hit |-> FALSE]

NoCall == [op |-> "none", full |-> FALSE, asked |-> 0, data |-> <<>>,
           left |-> 0, amt |-> 0, again |-> FALSE, moved |-> <<>>,
           told |-> 0, rv |-> "none"]

Texts(n) == UNION {[1..k -> Bytes] : k \in 0..n}

Init ==
    /\ content \in Texts(MaxLen)
    /\ pos = 0
    /\ file = NoFile
    /\ call = NoCall
    /\ astray = FALSE

-----------------------------------------------------------------------------
(* The handle and the text it stands for.                                  *)

Smaller(m, n) == IF m <= n THEN m ELSE n
Larger(m, n) == IF m >= n THEN m ELSE n

Has(flag) == flag \in file.flags
Opened == file.flags # {}
Writing == file.direction = 1

\* The kernel's write of b at offset p; a gap is filled with zeros.
Overlay(c, p, b) ==
    IF b = <<>> THEN c
    ELSE [i \in 1..Larger(Len(c), p + Len(b)) |->
              IF i \in p + 1..p + Len(b) THEN b[i - p]
              ELSE IF i <= Len(c) THEN c[i] ELSE Zero]

WriteAt == IF Has("APPEND") THEN Len(content) ELSE pos

\* Bytes in the buffer that wait to be written.
Dirty == IF Writing THEN SubSeq(file.buffer, 1, file.bufpos) ELSE <<>>

Text == Overlay(content, WriteAt, Dirty)
At == IF Writing THEN (IF Dirty = <<>> THEN pos ELSE WriteAt) + Len(Dirty)
      ELSE pos - file.dataRead + file.bufpos

\* Where the handle believes that it stands.
Offset(f) == f.filePtr - f.dataRead + f.bufpos

\* How many of n bytes the kernel moves.
Counts(n) == IF "SHORT" \in Faults /\ n > 0 THEN 1..n ELSE {n}
Failing(fault) == fault \in Faults

\* The ways that lkl_file_flush_locked can go.  A short write is taken for a
\* whole one.
Flushes ==
    IF Dirty = <<>>
    THEN {[content |-> content, pos |-> pos, file |-> file,
           ok |-> TRUE, lost |-> FALSE]}
    ELSE {[content |-> Overlay(content, WriteAt, SubSeq(Dirty, 1, k)),
           pos |-> WriteAt + k,
           file |-> [file EXCEPT !.filePtr = @ + k, !.bufpos = 0, !.buffer = <<>>],
           ok |-> TRUE, lost |-> k < Len(Dirty)] : k \in Counts(Len(Dirty))}
         \cup {[content |-> content, pos |-> pos, file |-> file,
                ok |-> FALSE, lost |-> FALSE] : e \in Faults \cap {"EIO"}}

After(r) == content' = r.content /\ pos' = r.pos /\ astray' = r.lost

-----------------------------------------------------------------------------
(* A call begins and returns.                                              *)

Idle == call.rv # "running" /\ ~astray
In(op) == call.rv = "running" /\ call.op = op /\ ~astray

\* Slip: the loop does not look whether anything is left.
ReturnedOnce(c, status, n) ==
    [c EXCEPT !.left = @ - n, !.amt = c.left - n, !.told = @ + n,
              !.again = FALSE, !.rv = status]

\* Slip: the loop does not look at the status.
ReturnedRegardless(c, status, n) ==
    LET d == [c EXCEPT !.left = @ - n, !.amt = c.left - n,
                       !.told = @ + n, !.again = FALSE]
    IN  IF c.full /\ d.left > 0 THEN d ELSE [d EXCEPT !.rv = status]

\* lkl_file_read or lkl_file_write returns status and says that it moved n.
\* A _full call enters it again while there is no error and something to do.
Returned(c, status, n) ==
    LET d == [c EXCEPT !.left = @ - n, !.amt = c.left - n,
                       !.told = @ + n, !.again = FALSE]
    IN  IF c.full /\ status = "SUCCESS" /\ d.left > 0 THEN d
        ELSE [d EXCEPT !.rv = status]

Open(flags) ==
    /\ Idle /\ ~Opened
    /\ UNCHANGED <<pos, astray>>
    /\ \/ /\ flags \cap {"READ", "WRITE"} # {}
          /\ "EXCL" \notin flags
          /\ file' = [NoFile EXCEPT !.flags = flags]
          /\ content' = IF "TRUNCATE" \in flags THEN <<>> ELSE content
          /\ call' = [NoCall EXCEPT !.rv = "SUCCESS"]
       \/ call' = [NoCall EXCEPT !.rv = "ERROR"] /\ UNCHANGED <<content, file>>

BeginRead(n, full) ==
    /\ Idle /\ Has("READ")
    /\ call' = [NoCall EXCEPT !.op = "read", !.full = full, !.asked = n,
                              !.left = n, !.amt = n, !.rv = "running"]
    /\ UNCHANGED <<content, pos, file, astray>>

\* MaxLen bounds what is asked for.
BeginWrite(data, full) ==
    /\ Idle /\ Has("WRITE")
    /\ (IF Has("APPEND") THEN Len(Text) ELSE At) + Len(data) <= MaxLen
    /\ call' = [NoCall EXCEPT !.op = "write", !.full = full, !.data = data,
                              !.asked = Len(data), !.left = Len(data),
                              !.amt = Len(data), !.rv = "running"]
    /\ UNCHANGED <<content, pos, file, astray>>

-----------------------------------------------------------------------------
(* lkl_file_read.                                                          *)

Reading == In("read") /\ Has("BUFFERED")

\* What was to be written goes first.  If that fails *nbytes stays as it was.
ReadTurn ==
    /\ Reading /\ Writing
    /\ \E r \in Flushes :
        /\ After(r)
        /\ IF r.ok
           THEN /\ file' = [r.file EXCEPT !.bufpos = 0, !.buffer = <<>>,
                                          !.direction = 0, !.dataRead = 0]
                /\ UNCHANGED call
           ELSE /\ call' = Returned(call, "ERROR", call.left)
                /\ UNCHANGED file

\* The loop is left with an error, which is kept back if there is data.
Broken(status) ==
    LET n == call.left - call.amt
    IN  Returned(call, IF n > 0 THEN "SUCCESS" ELSE status, n)

ReadFill ==
    /\ Reading /\ ~Writing
    /\ file.bufpos >= file.dataRead
    /\ UNCHANGED <<content, astray>>
    /\ \/ \E k \in Counts(Smaller(BufSize, Len(content) - pos)) :
           /\ k > 0
           /\ pos' = pos + k
           /\ file' = [file EXCEPT !.buffer = SubSeq(content, pos + 1, pos + k),
                                   !.dataRead = k, !.filePtr = @ + k, !.bufpos = 0]
           /\ UNCHANGED call
       \/ /\ pos >= Len(content)
          /\ file' = [file EXCEPT !.eof_hit = TRUE]
          /\ call' = Broken("EOF")
          /\ UNCHANGED pos
       \/ /\ \/ Failing("EINTR") /\ call' = Broken("EINTR")
             \/ Failing("EIO") /\ call' = Broken("ERROR")
          /\ UNCHANGED <<pos, file>>

ReadCopy ==
    /\ Reading /\ ~Writing
    /\ file.bufpos < file.dataRead
    /\ LET k == Smaller(call.amt, file.dataRead - file.bufpos)
           c == [call EXCEPT !.amt = @ - k,
                     !.moved = @ \o SubSeq(file.buffer, file.bufpos + 1, file.bufpos + k)]
       IN  /\ file' = [file EXCEPT !.bufpos = @ + k]
           /\ call' = IF c.amt = 0 THEN Returned(c, "SUCCESS", c.left) ELSE c
    /\ UNCHANGED <<content, pos, astray>>

\* Without a buffer.  A wait (fileops.c 212) polls once, with no time to wait:
\* timeout is -1, and a thousandth of that is 0.  The second read may fail as
\* the first did.
ReadPlain ==
    /\ In("read") /\ ~Has("BUFFERED")
    /\ UNCHANGED <<content, astray>>
    /\ \/ \E k \in Counts(Smaller(call.amt, Len(content) - pos)) :
           /\ k > 0
           /\ pos' = pos + k
           /\ call' = Returned([call EXCEPT !.moved =
                                    @ \o SubSeq(content, pos + 1, pos + k)],
                               "SUCCESS", k)
           /\ UNCHANGED file
       \/ /\ pos >= Len(content)
          /\ file' = [file EXCEPT !.eof_hit = TRUE]
          /\ call' = Returned(call, "EOF", 0)
          /\ UNCHANGED pos
       \/ /\ \/ Failing("EIO") /\ call' = Returned(call, "ERROR", 0)
             \/ Failing("EAGAIN") /\ \E e \in {"TIMEUP", "ERROR"} :
                                        call' = Returned(call, e, 0)
          /\ UNCHANGED <<pos, file>>

-----------------------------------------------------------------------------
(* lkl_file_write.                                                         *)

\* The next n bytes of the request.
Piece(n) == LET m == Len(call.moved) IN SubSeq(call.data, m + 1, m + n)

\* Slip: the offset of what was read ahead is not taken back.
WriteTurnAhead ==
    /\ In("write") /\ Has("BUFFERED") /\ ~Writing
    /\ file' = [file EXCEPT !.bufpos = 0, !.dataRead = 0, !.buffer = <<>>,
                            !.direction = 1]
    /\ UNCHANGED <<content, pos, call, astray>>

\* The kernel goes back to where the reader is; filePtr stays where it was.
WriteTurn ==
    /\ In("write") /\ Has("BUFFERED") /\ ~Writing
    /\ pos' = IF Offset(file) # file.filePtr THEN Offset(file) ELSE pos
    /\ astray' = (Offset(file) # file.filePtr /\ file.filePtr # pos)
    /\ file' = [file EXCEPT !.bufpos = 0, !.dataRead = 0, !.buffer = <<>>,
                            !.direction = 1]
    /\ UNCHANGED <<content, call>>

\* If the buffer cannot be emptied *nbytes stays as it was.
WriteFlush ==
    /\ In("write") /\ Has("BUFFERED") /\ Writing
    /\ file.bufpos = BufSize
    /\ \E r \in Flushes :
        /\ After(r)
        /\ file' = r.file
        /\ call' = IF r.ok THEN call ELSE Returned(call, "ERROR", call.left)

WriteCopy ==
    /\ In("write") /\ Has("BUFFERED") /\ Writing
    /\ file.bufpos < BufSize
    /\ LET k == Smaller(call.amt, BufSize - file.bufpos)
           c == [call EXCEPT !.amt = @ - k, !.moved = @ \o Piece(k)]
       IN  /\ file' = [file EXCEPT !.buffer = @ \o Piece(k), !.bufpos = @ + k]
           /\ call' = IF c.amt = 0 THEN Returned(c, "SUCCESS", c.left) ELSE c
    /\ UNCHANGED <<content, pos, astray>>

\* Without a buffer: the kernel takes k bytes of the amt offered.
WriteTakes(k) ==
    /\ In("write") /\ ~Has("BUFFERED")
    /\ k \in Counts(call.amt)
    /\ content' = Overlay(content, WriteAt, Piece(k))
    /\ pos' = IF k = 0 THEN pos ELSE WriteAt + k
    /\ call' = Returned([call EXCEPT !.moved = @ \o Piece(k)], "SUCCESS", k)
    /\ UNCHANGED <<file, astray>>

\* After the first refusal there is a wait; after each of the next ones half is
\* offered.
WriteRefused ==
    /\ In("write") /\ ~Has("BUFFERED") /\ Failing("EAGAIN")
    /\ \/ call.again /\ call' = [call EXCEPT !.amt = @ \div 2]
       \/ ~call.again /\ call' = [call EXCEPT !.again = TRUE]
       \/ ~call.again /\ call' = Returned(call, "TIMEUP", 0)
    /\ UNCHANGED <<content, pos, file, astray>>

\* rv is unsigned: the error, here 1, is taken for a count of 2^64 - 1.
WriteError ==
    /\ In("write") /\ ~Has("BUFFERED") /\ Failing("EIO")
    /\ call' = Returned(call, "SUCCESS", -1)
    /\ astray' = TRUE
    /\ UNCHANGED <<content, pos, file>>

-----------------------------------------------------------------------------
(* lkl_file_seek, flush and close.                                         *)

Answered(op, asked, told, ok) ==
    [NoCall EXCEPT !.op = op, !.asked = asked, !.told = told,
                   !.rv = IF ok THEN "SUCCESS" ELSE "ERROR"]

SeekPlain(where, offset) ==
    LET to == offset + CASE where = "SET" -> 0
                         [] where = "CUR" -> pos
                         [] where = "END" -> Len(content)
    IN  /\ Idle /\ Opened /\ ~Has("BUFFERED")
        /\ to <= MaxLen
        /\ file' = [file EXCEPT !.eof_hit = FALSE]
        /\ pos' = IF to >= 0 THEN to ELSE pos
        /\ call' = Answered(where, offset, IF to >= 0 THEN to ELSE -1, to >= 0)
        /\ UNCHANGED <<content, astray>>

\* setptr, after its flush has left the handle as f: a place inside what has
\* been read needs no lseek.
InBuffer(f, to) == to - (f.filePtr - f.dataRead) \in 0..f.dataRead

\* Slip: the result of lseek is not looked at.
SetPtrUnchecked(f, to) ==
    IF InBuffer(f, to) THEN [f EXCEPT !.bufpos = to - (f.filePtr - f.dataRead)]
    ELSE [f EXCEPT !.bufpos = 0, !.dataRead = 0, !.buffer = <<>>, !.filePtr = to]

\* Slip: what was read ahead is kept after lseek.
SetPtrKeepsBuffer(f, to) ==
    IF InBuffer(f, to) THEN [f EXCEPT !.bufpos = to - (f.filePtr - f.dataRead)]
    ELSE IF to >= 0 THEN [f EXCEPT !.bufpos = 0, !.filePtr = to]
    ELSE f

SetPtr(f, to) ==
    IF InBuffer(f, to) THEN [f EXCEPT !.bufpos = to - (f.filePtr - f.dataRead)]
    ELSE IF to >= 0 THEN [f EXCEPT !.bufpos = 0, !.dataRead = 0, !.buffer = <<>>,
                                   !.filePtr = to]
    ELSE f

\* A stale filePtr does no harm if the place is absolute and lseek is called.
SeekBuffered(where, offset) ==
    /\ Idle /\ Opened /\ Has("BUFFERED")
    /\ \E r \in Flushes :
        LET f == IF r.ok /\ Writing
                 THEN [r.file EXCEPT !.bufpos = 0, !.buffer = <<>>,
                                     !.direction = 0, !.dataRead = 0]
                 ELSE r.file
            to == offset + CASE where = "SET" -> 0
                             [] where = "CUR" -> Offset(file)
                             [] where = "END" -> Len(r.content)
            g == [(IF r.ok THEN SetPtr(f, to) ELSE f) EXCEPT !.eof_hit = FALSE]
            jumps == r.ok /\ to >= 0 /\ ~InBuffer(f, to)
        IN  /\ to <= MaxLen
            /\ content' = r.content
            /\ pos' = IF jumps THEN to ELSE r.pos
            /\ file' = g
            /\ call' = Answered(where, offset, Offset(g),
                                r.ok /\ (jumps \/ InBuffer(f, to)))
            /\ astray' = \/ r.lost
                         \/ /\ f.filePtr # r.pos
                            /\ ~(jumps /\ where \in {"SET", "END"})

\* lkl_file_flush, and the flush that lkl_file_info_get begins with.
Flush ==
    /\ Idle /\ Opened
    /\ \E r \in Flushes : /\ After(r)
                          /\ file' = r.file
                          /\ call' = Answered("flush", 0, 0, r.ok)

\* The kernel may report an error of an earlier write.
Close ==
    /\ Idle /\ Opened
    /\ \E r \in Flushes, e \in {"no"} \cup (Faults \cap {"EIO"}) :
        /\ content' = r.content
        /\ astray' = r.lost
        /\ call' = Answered("close", 0, 0, r.ok /\ e = "no")
    /\ pos' = 0
    /\ file' = NoFile

-----------------------------------------------------------------------------
(* The whole.                                                              *)

Step == \/ ReadTurn \/ ReadFill \/ ReadCopy \/ ReadPlain
        \/ WriteTurn \/ WriteFlush \/ WriteCopy
        \/ \E k \in 0..MaxReq : WriteTakes(k)
        \/ WriteRefused \/ WriteError

Ask == \/ \E flags \in Opens : Open(flags)
       \/ \E n \in 1..MaxReq, full \in BOOLEAN : BeginRead(n, full)
       \/ \E d \in Texts(MaxReq) \ {<<>>}, full \in BOOLEAN : BeginWrite(d, full)
       \/ \E where \in {"SET", "CUR", "END"}, o \in -1..MaxLen :
             SeekPlain(where, o) \/ SeekBuffered(where, o)
       \/ Flush \/ Close

\* The handle is followed no further.
Lost == astray /\ UNCHANGED vars

Next == Step \/ Ask \/ Lost

Spec == Init /\ [][Next]_vars

\* The thread runs, and a kernel that keeps refusing a write takes some of it
\* now and then, or nothing when nothing is left to offer.
FairSpec == /\ Spec
            /\ WF_vars(Step)
            /\ SF_vars(\E k \in 1..MaxReq : WriteTakes(k))
            /\ SF_vars(WriteTakes(0))

-----------------------------------------------------------------------------
(* What must hold.                                                         *)

\* What has been read ahead is what the file has there, through writes, seeks
\* and failures (fileops.c 276, 390, 517, 532).
ReadAheadCurrent ==
    ~astray /\ ~Writing =>
        /\ file.bufpos <= file.dataRead
        /\ file.dataRead = Len(file.buffer)
        /\ \A i \in 1..file.dataRead :
              LET j == pos - file.dataRead + i
              IN  j \in 1..Len(content) /\ file.buffer[i] = content[j]

\* fileops.h 269 and 290: a _full call that is content has moved every byte,
\* and none twice, over any number of short or refused kernel calls.
FullMeansAll ==
    ~astray /\ call.full /\ call.rv = "SUCCESS" =>
        call.told = call.asked /\ Len(call.moved) = call.asked

\* The handle is the text and the place that fileops.h speaks of: bytes go
\* where the caller is, reads take what stands there whatever is buffered and
\* whatever was read ahead, a call tells what it did, a close that succeeds
\* has lost nothing (all of fileops.c up to 598).
T == INSTANCE FileText WITH
         text <- Text, at <- At, mode <- file.flags,
         ask <- [op |-> call.op, full |-> call.full, asked |-> call.asked,
                 data |-> call.data],
         moved <- call.moved, told <- call.told, rv <- call.rv

KeepsText == T!Spec

\* A call comes back, the _full loops and the loop that offers half as well
\* (fileops.c 434, 467, 490).
CallsReturn == (call.rv = "running") ~> (call.rv # "running" \/ astray)
=============================================================================
