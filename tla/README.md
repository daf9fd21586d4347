# lklftpd in TLA+

lklftpd is an FTP server whose file system is a Linux kernel linked into the
program (LKL).  This directory models it in TLA+, checks the models with TLC on
small instances, and proves theorems about them with TLAPS.  Paths like
`worker.c` are files of the repository; `PROJECT.json` maps every definition to
the lines it stands for.

## 1. The system

| Part | Files | State it keeps | Operations | Modelled in |
|---|---|---|---|---|
| Main thread | `main.c`, `listen.c` | `ftp_must_exit`, the listening socket, `thd_pool`, the mounted kernel | boot, poll, accept, `apr_thread_create`, signal, umount, halt | `Server` |
| Session | `worker.c`, `sess.c` | one `struct lfd_sess` per thread; `rc`, `rnfrto`, `temp_name` of the loop | greeting, command loop, dispatch, destroy | `FtpSession` |
| Handlers | `cmdhandler.c` | open file, transfer result, `cwd_path` | one per command, the three transfer loops | `FtpSession`; their system calls in `SharedFiles`; `CwdPath`; LIST in `DirListing` |
| Data channel | `connection.c` | `pasv_listen_fd`, `p_port_sockaddr`, `data_conn->data_sock` | PASV, PORT, accept, connect, dispose, cleanup | `FtpSession`; the random port in `PasvPort` |
| Command input, replies | `cmdio.c` | the 100 byte input buffer | receive and split a command, write a reply | `FtpSession` (one receive, one command); the byte stream in `CmdIO` |
| File operations | `fileops.c` | `lkl_file_t` | open, read, write, their `_full` forms, seek, flush, close, remove, rename | `LklFile` against `FileText`; `SharedFiles`; effect of a failed write in `FtpSession` |
| Directory, stat | `dirops.c`, `filestat.c` | `lkl_dir_t`: the entries of one getdents | open, read, close of a directory; else one system call each | `DirListing`; stat, mkdir, rmdir in `SharedFiles` |
| Helpers | `utils.c`, `config.c` | none | `bug()`, ASCII conversion, constants | `bug()` in `FtpSession`; `Ascii` |

The main thread starts one worker thread per connection and never joins it.
The workers share no data of their own: they meet in the file system, in the
process (a `bug()` or a fault in one ends all), and in the LKL kernel that
`main()` takes down while they may still run.  The README of the program speaks
of further threads for data transmissions; no code starts any, so a worker is
strictly sequential: it does not read commands while it transfers.

What is hard here: a session is a long sequence of commands, any of which can
end in the middle because its control or its data connection fails, and what
each leaves behind (channel, data socket, open file, rename flag) is the next
one's starting point.  Accepts and connects block.  The listener runs against
signals and against the failure of every call it makes.  `PROJECT.json` lists
the hazards with their lines and the properties for each.

What makes each part correct:

- Session and handlers: one concluding answer per command, in order, and nothing
  after it; RNTO
  renames only what the RNFR before it named; no handler leaves a file or a
  socket open and goes on; 226 only when everything was moved, and moved intact.
- Data channel: PORT or PASV, never both; no data socket left from a transfer;
  no stale connection taken for a new one; the waits end.
- Main thread: no accepted connection is forgotten; pools do not pile up on
  failures; the signal stops the accepting and the server comes down.
- Files: uploads of different sessions do not destroy one another unless one
  truncates; a download is of one file; STOU spares what was there before; a
  directory has one maker.
- A file handle: whatever is buffered, read ahead, cut short or refused, it is a
  text with a place in it; a `_full` call accounts for every byte.
- Listings: what was there all the time is listed once, and no line is false.
- Input: while each receive brings a line, each command is got once.
- `cwd_path`: CDUP cuts text and asks nobody, and still names a directory (though
  not the parent, see section 6).
- Numbers: the random port lies in its interval.

## 2. Modules

- `FtpDialogue` - abstract: what a session promises its client about replies.
  Per session `phase`, the `kind` of the command in hand and `said`, every reply
  that it got.  A reply may be said only if it `Fits` those before it: nothing
  after a conclusion, no success before all of the preliminary replies, and no
  more of them than the kind of command has.
- `FtpSession` - the worker threads, handlers and data channel, one action per
  handler or per piece of a handler between two points where something else can
  happen (a blocking call, a chunk of a transfer, a reply that ends one).  `pc`
  says where the worker is; `pasvFd`, `portAddr`, `dataSock` are the three
  pointers being non-NULL; `rc`, `rnfrto`, `tempName` are the locals of
  `ftp_protocol_loop`; `loopPool` is what an `apr_pool_clear` would close; `out`
  is the replies to the command in hand; `data` is the data connection and the
  chunks moved over it, with `stored` for what has become of the file.  `granted` is
  a history variable.  It instantiates `FtpDialogue` with a refinement mapping:
  `Phase` and `Kind` are computed from `pc` and `verb`, and `said` is `out` itself,
  so a reply that two functions write for one command is there twice.
- `FtpSessionProofs`, `FtpReplyProofs` - theorems about `FtpSession`: types and
  the channel; replies, renames, resources and the refinement.
- `Server` - `main()`, `lfd_listen` and the signal handler; a worker is a thread
  that ends at some time.  `late` is a history variable.
- `ServerProofs` - theorems about `Server`.
- `SharedFiles` - several sessions on one directory, one action per system call
  that a handler makes, since the handlers lock nothing.  `dir` binds names to
  inodes, `content` is the chunks in an inode, `fd` the inode a session has open;
  an inode without a name lives as long as it is open.  A chunk carries its
  uploader and its number, so that a file shows who has written what.  `before`,
  `cut`, `touched` and `made` are history variables.
- `SharedFilesProofs` - theorems about `SharedFiles`.
- `FileText` - abstract: what `fileops.h` promises of an open file to the thread
  that uses it, a text and a place in it.
- `LklFile` - one `lkl_file_t` between its user and the kernel, with and without
  `APR_BUFFERED`.  `file` has the fields of the struct (of the buffer only the
  bytes that count), `content` and `pos` are the kernel's, `call` is the request
  in hand with the locals of the `_full` loops.  A step is one kernel call or one
  copy.  It instantiates `FileText`: the text is the file with the bytes that wait
  in the buffer laid over it (`Text`), the place is where the next byte comes from
  or goes to (`At`).  `astray` is a history variable, set by the faults of
  `fileops.c` that section 6 lists; from there on nothing is claimed.
- `LklFileProofs` - theorems about `LklFile`.
- `DirListing` - `list_dir` over `lkl_dir_read`, with other sessions changing the
  directory between its calls.  `thedir` is the buffer of `lkl_dir_t`, `finfo` the
  variable of `list_dir`, which keeps its value when a stat fails.  `steady`,
  `had`, `reborn`, `excused` and `cut` are history variables.
- `DirListingProofs` - theorems about `DirListing`.
- `Ascii`, `CmdIO`, `CwdPath`, `PasvPort` - four small machines: the conversions
  and the receive loop that would call them; the input buffer and the byte stream;
  `cwd_path` as the sequence of what stands between its slashes; the port words
  and the bind loop.
- `SmallProofs` - theorems about the first three; `PasvPortProofs` - one about the
  last.
- `MCFtpSession` - `FtpSession` in both builds; `MCSharedFiles` - two instances of
  `SharedFiles`, one rich in names and one in data, and a symmetry set for TLC;
  `MCSmall` - the four small machines side by side.  In each of them a variable
  (`build`, `part`) says at the start which one runs, so the states add up.

Abstractions in `SharedFiles`.  One flat directory; directories are empty; a stat
of a name that is there succeeds, as `get_unique_filename` takes it to.  A system
call of the kernel is one step.  Whether the connection, the peer or the disk
ends a transfer is one choice (`EndUpload`, `EndRetr`), replies are left to
`FtpSession`.  `MaxSuffix`, `MaxChunks` and `MaxLen` are bounds of the model; STOU
is given names without a suffix.

Operators whose comment begins with "Slip" are plausible mistakes, kept beside
the definition they would replace.  With each put in its place TLC finds the
property named in `PROJECT.json` violated, which is how we know the properties
say something.

Abstractions in `FtpSession`.  Commands that only answer are one action with the
set of codes each handler can answer (`PlainReplies`); which of them depends on
the file system, which here answers as it likes.  Data is chunks: the number of
chunks a download has to send and the peer of an upload sends.  Features that the
code reads but never sets (`is_ascii`, `restart_pos`, `in_progress`,
`abor_received`) are left out with their branches.  A reply write may fail at any
time, since a client can be gone before the session notices.  A NULL argument in
SITE, or in PORT where `apr_strtok` follows it, ends the process.  A write that
fails (`WriteFails`) is what the build makes of it: `apr_file_write` reports it, the
file is left without the chunk and the transfer ends with 451; `lkl_file_write_full`
goes on, and the chunk is damaged when the next write comes back.

## 3. Runs

| Run | Question | Bounds |
|---|---|---|
| `session_all` | the safety properties and the dialogue, over all commands; a worker whose client has gone runs down and ends, or waits; in the APR build no upload that lost a write is answered 226 | 1 session, 2 paths, 2 chunks, both builds |
| `server` | connections, pools, late accepts, mounted disk; shutdown completes | 4 connections, backlog 2 |
| `shared` | one maker for a directory, STOU spares old files; uploads and downloads of one file by several sessions | 2 sessions, 2 inodes; 3 names and 1 chunk, or 2 names and 2 chunks without STOU, MKD and RMD |
| `lkl_file` | one handle is a text with a place in it; calls come back | 2 byte values, buffer of 2, files and calls of up to 3 bytes, 6 sets of flags |
| `dir_listing` | LIST among changes: what it shows, and that it gets on | 3 names (1 hidden), 2 attributes, 2 entries per getdents, 2 changes |
| `small` | ASCII conversion, command input, `cwd_path`, random port | texts of 5, chunks of 3; 2 commands, buffer of 7; depth 4, tree of depth 2; words of 16 values, 3 tries |
| `stou_same_file` | violation, see 6 | 2 sessions, STOU only |
| `list_without_channel` | violation, see 6 | 1 session |
| `accept_blocks` | violation, see 6 | 1 session |
| `write_error_hidden` | violation, see 6 | 1 session |
| `listener_spins` | violation, see 6 | 1 connection |
| `cdup_not_parent` | violation, see 6 | 2 names, depth 4, tree of depth 2 |

Why the bounds are enough.  A session's state between two commands is a few
flags, two paths and what the last command left behind, and TLC reaches every
sequence of commands, because nothing bounds their number: the state space
closes.  Two paths are needed for a RNFR of one and a refused RNFR of another;
two chunks for a transfer that is cut after some of it has moved.  Sessions
interact in `FtpSession` only through the end of the process; what it does to the
dialogue of the others is a case of `KeepsDialogueAlways`, for any number of them.
In `Server` the third connection of a backlog of two is the first that
has to wait for the queue, and two late accepts need two connections waiting
when the signal comes; a fourth leaves one being served.  In `SharedFiles` every
race is between a handler of one session and calls of another.  Two inodes are
needed for a file replaced by another; there are more names than inodes so that
STOU always finds a free one, and never waits at the bound of the suffix; two
chunks make an order that can go wrong.  A request of three bytes is more than
the buffer of two of `LklFile`, so buffers are filled, emptied and filled again
within a call; a file of three is read ahead in two pieces; the number of calls
is not bounded.  In `DirListing` three entries need two getdents of two, so that
a change falls before, into and after what is buffered; an entry can be removed
and made again.  A text of five holds two CR LF and a cut inside each; the input
buffer of seven takes the second of two short lines together with the first, and
is filled by the longest; `cwd_path` has room for a name, two `..` and one more.
The port words of 4 bits keep the shape of the interval: the lower end is clamped
to the first free port, the upper one is below the largest word.  The theorems of
section 5 do without these bounds.

Fairness.  `FtpSession!FairSpec` asks weak fairness of the steps a scheduled
thread takes of itself (`Progress`) where it is not held up, and nothing else: not
of the client's commands, of failing calls or of anybody connecting to a PASV
listener; nor that the peer of a data connection sends, reads or goes away (the
keep-alive set in `init_data_sock_params` ends the connections of dead hosts only),
nor that a write which has failed comes back.  `HeldUp` says where the next step
takes the peer or the disk besides the thread.  `Server!ThreadSpec` asks weak
fairness of the main thread, whatever its calls return.  That is not enough for
`ShutdownCompletes` (run `listener_spins`): `Server!FairSpec` asks besides that
where `apr_pool_create` is called again and again it gives a pool at last (strong
fairness of `CreatePool`).  Workers and clients get none, so `ShutdownCompletes`
holds with workers that never end.
`LklFile!FairSpec` asks weak fairness of the thread in the middle of a call, and
that a kernel which is asked to take bytes again and again takes some in the end,
with or without waiting in between: without that the loop of `fileops.c` 431 has
no reason to end.  `DirListing!FairSpec` asks weak fairness of the handler;
the others may make entries forever in the code, which `MaxChanges` bounds.

## 4. What the properties say

`TypeOK` aside, `FtpSession` has: `OneChannel` and `NoDataSockLeft` (three of the
`bug()` calls of `connection.c` cannot be reached), `RenameFollowsRnfr`,
`ChannelUsedOnce` (RETR and the uploads leave no channel and no waiting
connection behind; LIST does, line 909, and is excluded by name),
`HandlersCloseWhatTheyOpen` (the paths of the upload handler that do leave a file
open all end the session), `CompleteMeansAll`, `CompleteMeansIntact` (in the APR
build, `IntactInApr`: a failed write damages the file there, and has to lead to
another reply than 226),
`KeepsDialogue` (`FtpSession` implements `FtpDialogue`),
`GoneClientsSessionRunsDown` and `ClientGoneEndsSession`.

`ClientGoneEndsSession` promises less than an end, because the code does: a worker
whose client has gone comes to its exit or stays for ever in one of the three waits
that `Waits` names.  It waits for somebody to connect to its PASV listener
(connection.c 325), for a live but silent peer to send or to read (cmdhandler.c 638
and the `apr_socket_send` of the downloads), or for a disk that refuses a write over
and over (fileops.c 490, LKL build).  What it rules out is any other way of not
ending: a worker stuck in another place, or one that goes from wait to wait.

`Server` has: `AtMostOneLateAccept`, `AcceptedIsHeld`, `AcceptedOnMountedDisk`,
`PoolsAccounted` (an equation: it shows both that failures cost no pool and that
an ended session returns none) and `ShutdownCompletes`.

`SharedFiles` has: `UploadsKept` (what the file held, and the session's chunks in
order, others' in between), `RetrSendsOneFile`, `MkdHasOneMaker` and the action
property `StouSparesOldFiles`.  The first two except a file that another session
has truncated, which `cut` remembers: STOR does that to a file in use, by design
and before it has a data connection.

`LklFile` has: `ReadAheadCurrent` (what the buffer holds of the file is what the
file has there), `FullMeansAll`, `KeepsText` (`LklFile` implements `FileText`: in
particular bytes written after a partly used read-ahead go where the reader was,
reads see what waits in the buffer, and a close that succeeds has lost nothing)
and `CallsReturn`.

`DirListing` has: `SurvivorsListed`, `LinesAreTrue`, `ListingAdvances` and
`ListingEnds`.  The first
holds since an entry leaves the kernel's list only by getdents and the buffer only
by being listed; the second excuses the entries that could not be asked for, whose
line is made of the attributes of the entry before.

`ChunksMakeTheText` and `RoundTrip` (`Ascii`) compare the conversion of chunks
with one of the whole text, and with its inverse; `WholeLinesHeard` (`CmdIO`) is
about the input buffer, which is cleared but not kept; `CwdStaysValid` (`CwdPath`)
says that every prefix of `cwd_path` leads to a directory, `..` or not, while none
is removed: that is why CDUP may cut, though which directory it leads to is another
matter (`CdupGoesToParent`, violated); `PortInInterval` (`PasvPort`) is about the
scaling of words below the upper end and the sockets that the failing tries of one
PASV leave behind.

Two of the liveness properties have a safe half, an action property that no
fairness enters: a measure (`StepsLeft`, `ToDo`) that every step of the
thread in question brings down, and that only what the property names may raise.
`GoneClientsSessionRunsDown` says so of a worker without a client in every place it
can be in, `ListingAdvances` of a listing, where the others may add two to the measure for an
entry they make and nothing otherwise.  With them a thread that does not come to
its end is one that waits or is not scheduled, never one that goes round.  They say
more than the liveness where that says nothing: `AcceptRetried`, an accept that is
tried again when it fails, is a loop that `ClientGoneEndsSession` lets pass.  The
exception is a write of the LKL build that fails (`WriteFails`), which moves
neither the worker nor the data and may repeat.

## 5. Theorems

The proof modules assume only the named assumptions on the constants:
`ConstantsAssumption` (`NoPath` is no path, the commands are known ones,
`MaxChunks` is a natural number, `LklFileApis` is a Boolean),
`SharedFilesAssumption` (the null values are no names and no inodes, the bounds
are natural numbers), `ServerAssumption` (finitely many connections, `NoConn` is
none of them, a backlog of at least one), `PasvPortAssumption` (the
intervals are not empty and end among the ports; the tries fit the counter),
`LklFileAssumption` (zero is a byte, the buffer and a call hold at least one, files
are opened with flags that there are), `DirListingAssumption` (hidden names are
names, no entry has the attributes of a missing one, the buffer holds at least one
entry) and `NamesAssumption` (there are finitely many names), `AsciiAssumption` (a carriage return is no line feed), `CmdIOAssumption`
(space, line ends and NUL are no letters, and space and NUL are none of the
others) and `CwdPathAssumption` (no directory is called `.`, `..` or nothing at
all); the bounds of the last three are natural numbers.

`FtpSessionProofs`, for any number of sessions, paths and chunks and any set of
commands: `TypeCorrect`, `OneChannelAlways`, `NoDataSockLeftAlways`.  All three
follow from the inductive invariant `ControlInv`, which is `TypeOK` with

- `StatusKnown`: a transfer that is over has its reply code.  Without it
  `Complete` could append a 0 to `out` and `TypeOK` would not be inductive;
- `OneChannel` itself;
- `DataSockWhere`: the data socket is there only in the transfer, until it is
  disposed of, and in LIST until after the answer.  `NoDataSockLeft` speaks of
  the places before a transfer only and says nothing of where a socket can come
  from, so it is not inductive.

The proof has one lemma per group of actions for the types and one for the
control part; `QuietStep` covers the many steps that touch neither channel nor
socket.

`FtpReplyProofs`, on top of `ControlInv` and under the same assumption:
`RenameFollowsRnfrAlways`, `ChannelUsedOnceAlways`, `HandlersCloseAlways`,
`CompleteMeansAllAlways`, `CompleteMeansIntactAlways` (which assumes the APR file
operations besides), `KeepsDialogueAlways` and
`GoneClientsSessionRunsDownAlways`.  None of the invariants among them is
inductive: each speaks of the place where a command has been answered, and what
makes it true was done several steps before.  `ReplyInv` follows one session from
`dispatch` on:

- `RenameInv`: `rnfrto` is set just when the last command was a RNFR answered
  350, with its argument in `tempName`; `LoopTop` hands that on to one command;
- `PoolInv`: what the pool of the command holds at each place, empty when a
  command starts;
- `UsedInv`: no concluding reply of a transfer before the channel is cleaned up;
- `MovedInv`: the status 226 is given to a whole transfer only, and a 226 that has
  been said is that status;
- `AnswerInv`: exactly what has been said at each place: nothing at dispatch, the
  150 of STOU while it goes for a connection, with one more 150 in the transfer, and
  a conclusion, or the silence of SITE, where the loop goes on;
- `IntactInv`: with APR a file that is not whole is damaged and the transfer has the
  status 451; with `MovedInv`, by which 226 is said for the status 226 alone, it
  gives `CompleteMeansIntact`.

`Frame` says that a step of one session leaves what `ReplyInv` reads of another
`Untouched`, so that `RepliesStep` is about one session, one lemma per group of
handlers.  The refinement goes the same way: `DialogueMove(s)` says what a step of
`s` does to its phase and kind, `DialogueStep` turns that into a step of
`FtpDialogue` or a stutter, and one lemma per group of actions shows the move:
`OnlyReply` where a command has one reply, `TransferReply` where a transfer has
counted its 150s.  `AnswerInv` is what they need: that a reply may be said is a
fact about all of those in `out` before it.  `GoneClientsSessionRunsDownAlways` needs `TypeOK` only, with
`Frame` and again a lemma per group: `Nearer` is the step to a lower rank, and
`StreamsRunDown` the one that stays in the transfer and moves a chunk.

`PasvPortProofs`, for every width of a port, every interval and number of tries:
`PortInIntervalAlways`.  `Tries` counts the sockets that are left behind against
the tries; `ScaledInInterval` is the arithmetic, that a word below the upper end is
scaled into the interval and does not wrap.

`ServerProofs`, for any finite set of connections and any backlog:
`AtMostOneLateAcceptAlways`, `AcceptedIsHeldAlways`,
`AcceptedOnMountedDiskAlways`, `PoolsAccountedAlways` and `ServerTypeCorrect`.  The
invariant `ServerInv` adds that nothing is accepted after a late accept (`NoMoreAfterLate`: the flag
stays set and `Check` leaves), that the listener holds a pool from `poll` on and
a connection when it spawns (`ListenerHolds`), and that the disk is mounted while
it listens.  `PoolsStep` counts: only `CreatePool` and `CreateThread` change the
equation, the latter by moving one connection into `HadWorker`.

`SharedFilesProofs`, for any number of sessions, names, inodes and chunks:
`UploadsKeptAlways`, `RetrSendsOneFileAlways`, `MkdHasOneMakerAlways`,
`StouSparesOldFilesAlways` and `FilesTypeCorrect`, from the invariant `FilesInv`: `TypeOK`,
`MkdHasOneMaker` and, for each session, `SessionInv`.  Its parts say that a file
is open just where the handler has one, that a transfer starts from nothing
(`CleanStart`), that the chunks added so far are numbered by the upload in hand
(`Numbered`, without which the next chunk need not come after them), and that the
name STOU is about to open was free or has been touched since (`FreeOrTouched`,
which turns the action property into one of states).  The proof takes a step of
`s` and asks what it does to `s` (`OwnStep`) and to another session
(`OthersStep`).  The second rests on `OthersFile`: a file that another session has
open stays as it is, gets one chunk of `s` at its end, or is truncated and marked.

`LklFileProofs`, for every set of byte values, size of the buffer, file, request,
set of flags and of faults of the kernel: `LklTypeCorrect`,
`ReadAheadCurrentAlways`, `FullMeansAllAlways` and `KeepsTextAlways`.  The
invariant `LklFileInv` is `TypeOK` with

- `FileInv`: reading, the buffer is what stands in the file before the descriptor
  and `bufpos` is in it (`ReadInv`); writing, it is the bytes that wait
  (`WriteInv`); an unbuffered handle has nothing in it, and `dataRead` never
  exceeds `filePtr`, so that offsets stay natural numbers;
- `CallInv`, while the handle is not `astray`: what was asked for is told or left,
  and what has been moved is what was told and what the call has in hand
  (`InHand`).  `FullMeansAll` speaks of the end of a call only and says nothing of
  how it got there.

Each action has one lemma, which shows that it keeps the invariant and that it is a
step of `FileText` or none (`TextStep`): the two need the same facts.  A flush moves
bytes from the buffer to the file and leaves `Text` and `At` alone (`FlushedText`,
`BufferEmptied`); a copy into the buffer is a write of the text (`PutPlace`), since
two writes one after the other are one write of both (`OverlayTwice`); a seek ends
where it tells because the handle is where it believes to be or is put there
(`FlushedToRead`, `SetPtrFacts`).

`DirListingProofs`, for every set of names and attributes, size of the buffer, any
number of changes by other sessions and any calls that fail: `DirTypeCorrect`,
`SurvivorsListedAlways`, `LinesAreTrueAlways` and `ListingAdvancesAlways`.  The first
two properties speak of the lines that are made; `DirInv` follows each name on its way there, from `unread`
through the buffer (`Buffered`) and the hand (`InHand`) to the lines (`Listed`):

- `PlacesInv`: an entry that has been there since the open is at one of these
  places, or passed over as hidden;
- `OnceInv`: no name is at two of them, nor twice at one, unless it was made since;
- `TruthInv`: the attributes in the directory are among those a name has had, and
  a line shows one of them unless the entry is excused;
- `StartInv`: nothing is anywhere before the open, and when the end is reached
  without an error nothing is left unread or in the buffer.

`HandStep` is the step of a name into the hand, out of the buffer or out of a fresh
getdents; `OthersStep` shows that what the others do disturbs nobody's place.
`ListingAdvancesAlways` counts: `StartInv` keeps the offset within the buffer, and
`BatchCount` says that getdents takes as many names from the kernel as it gives.

`SmallProofs`, for every set of characters, letters and names, every text, line
and path, and any bounds: `ChunksMakeTheTextAlways`, `RoundTripAlways`,
`WholeLinesHeardAlways` and `CwdStaysValidAlways`.  What the operators of these
modules compute goes along a sequence (`FlattenSeq`, and the function inside
`Walk`), so the module first proves what it needs of induction and recursion, for
sets and functions instead of predicates and operators: `Induction` (a set with 0
and with the successor of each of its numbers has them all) and `Recursion` (there
is a function with given first value and given step), both from the library's fact
that `<` is well-founded on the natural numbers.  Then

- `JoinedFacts` is the recursion that `FlattenSeq` obeys; `JoinedShift` that a part
  of a sequence makes the same wherever it stands;
- `AsciiInv` says that `stored` is what the first `taken` characters make of the
  whole text, but for the last of them if it is held (`MadeOf`).  The properties
  speak of the end of the text and of a held character only, and are not inductive.
  `ChunkStep` is the heart: what `AsciiToBin` makes of a chunk goes on where the
  text stopped, since it looks ahead in the chunk just where the text looks ahead,
  but at its end, which `prev_cr` carries over.  `PlainUndoes` is the round trip,
  by induction on the text;
- `CmdInv` is `WholeLinesHeard` with the types of what is said and on the wire;
  `HeardOfLine` follows one line through `Filled`, `Strings`, `Token` and
  `Squeezed`;
- `CwdInv` adds to the property that the directories make a tree (`Tree`), which
  RMD keeps too, since it removes empty directories only: without it a longer path
  need not lead anywhere, and `..` would not stay among the directories
  (`WayStaysInTree`).  `WalkInLarger` is why MKD disturbs nobody's `cwd_path`,
  `WalkOfPrefix` why CDUP may cut it.

Only model-checked: `ClientGoneEndsSession`, `ShutdownCompletes`, `CallsReturn` and
`ListingEnds`.  They rest on fairness, and `ENABLED` is beyond the prover.  Of the
first and the last the safe half is proved.  The other two have none: the kernel may
refuse the bytes of a call any number of times and the loops start again with all of
them (fileops.c 437), and the listener may go round any number of times without a
pool (listen.c 129).  Every
invariant and every other action property of a passing run is a theorem, and so
are both refinements.

## 6. Where the code and its words part

- `list_without_channel`: LIST as the first command of a session ends the whole
  server: `handle_list` does not call `data_transfer_checks_ok`, and
  `lfd_get_remote_transfer_fd` (connection.c 366) has a `bug()` for it.
- `accept_blocks`: config.c 22 promises a timeout for the PASV listener; nothing
  reads it and connection.c 325 blocks (the FIXME above it says so).
- `write_error_hidden`: fileops.h 285 promises that an error such as "out of
  space" ends `lkl_file_write_full` with an error; the unsigned `rv` of
  `lkl_file_write` (fileops.c 373, 451) hides it, and an upload is answered 226.
- `stou_same_file`: the comment at cmdhandler.c 596 has `get_unique_filename`
  return a unique name, and the one at 604 doubts it; two STOU at the same time
  receive into one file, since the open at 716 is not exclusive, and the second
  open truncates what the first has stored.
- `listener_spins`: main.c 31 has the flag of the shutdown signal "periodically
  checked by the loop that accepts client connections"; when `apr_pool_create` fails
  the loop goes round (listen.c 129) before it comes to the check (143), for as long
  as there is no memory.
- `cdup_not_parent`: the comment at cmdhandler.c 250 has CDUP change to the parent;
  it cuts the last component off `cwd_path` as text.  CWD leaves `.`, `..` and empty
  components there, so from `/a/.` CDUP stays in `/a`, and from `/a/..`, the root, it
  goes down into `/a`.

Seen while modelling, without a run of its own:

- connection.c 57 "scale it to fit the interval": a random word at or above the
  upper end scales beyond it, and 65535 to 0 in 16 bits, for which the kernel chooses
  a port that the 227 does not tell.  `PortInInterval` is about the other words.  The
  clamp in line 39 looks at the lower end.  config.c 16 speaks of ten tries, the
  loop of connection.c 47 makes nine; and the sockets of failing tries stay in the
  session's pool from one PASV to the next.
- cmdhandler.c 909: LIST leaves its channel in force, and whoever waits at the
  listener is the peer of the next transfer.
- cmdhandler.c 716 and 502: STOR truncates what another session is sending or
  uploading; RETR tells in its 150 the size of the file that has the name by then.
- fileops.c 388: after a write that follows a partly used read, and after an
  append, `filePtr` is not where the descriptor is; a later `lkl_file_seek` tells
  another offset than the one it moved to (fileops.h 373) or moves elsewhere.
- fileops.c 23: a flush that is cut short drops the rest and reports success.
- fileops.c 264: a buffered read returns APR_EINTR, which fileops.h 209 rules out.
- fileops.c 490 with 451: while the disk stays full `lkl_file_write_full` goes
  round for ever, with a count of bytes that grows.
- dirops.c 72: an error of getdents looks like the end of the directory; and
  cmdhandler.c 834 prints the attributes of the entry before for one that has gone.
- cmdio.c 61: a receive of 100 bytes leaves the buffer without a NUL; of two
  commands in one receive the second is lost or becomes part of the first.

## 7. Not modelled

Formatting of replies and listings, logging, option parsing, setting of
permissions, attributes and times, file locks, ungetc and the further functions of
`fileops.h` that are declared only, `lfd_connect` and `lfd_data_sess_*` (no
callers), the ASCII branch of `do_file_send`, the LKL kernel itself.  A handle of
`LklFile` has one user: `APR_XTHREAD` and its lock are left out, since no code
gives a handle to a second thread.

## 8. Plan

In this order, the most important first.

1. `FtpSession`, `FtpDialogue`, `FtpSessionProofs` - done.
2. `Server`, `ServerProofs` - done.
3. `SharedFiles`, `SharedFilesProofs` - done.
4. `FileText`, `LklFile` - done.
5. `DirListing` - done.
6. `Ascii`, `CmdIO`, `CwdPath`, `PasvPort`, `MCSmall` - done.
7. `FtpReplyProofs`, `PasvPortProofs` - done.
8. `LklFileProofs` - done.
9. `DirListingProofs` - done.
10. `SmallProofs` - done.
11. The safe halves of two of the liveness properties, with their theorems; a
    dialogue in which every reply counts; fairness without help from peers and disk;
    the violation runs of the listener and of CDUP - done.  Nothing of the plan
    is left; what section 5 says is only model-checked is beyond the prover.
