------------------------------- MODULE Ascii --------------------------------
(***************************************************************************)
(* ASCII conversion (utils.c 85-148) and the loop of do_file_recv          *)
(* (cmdhandler.c 617) that an upload in ASCII mode would run.  The data    *)
(* come in chunks as the network cuts them; a carriage return at the end of*)
(* a chunk is held back until the next one tells what it was.  Nothing sets*)
(* is_ascii at present.                                                    *)
(***************************************************************************)
EXTENDS Naturals, Sequences, SequencesExt

CONSTANTS CR, LF, Others,  \* the characters
          MaxText,         \* bound on the length of a text
          BufSize          \* VSFTP_DATA_BUFSIZE

ASSUME AsciiAssumption == /\ CR # LF
                          /\ MaxText \in Nat
                          /\ BufSize \in Nat

VARIABLES
    file,      \* what the client keeps in its own file
    sent,      \* what it sends of it
    taken,     \* how much of that has been received
    prev_cr,   \* the last chunk ended with a carriage return
    stored,    \* what has been written to the file of the server
    phase      \* "idle", "receive" or "stored"

asciiVars == <<file, sent, taken, prev_cr, stored, phase>>

Chars == {CR, LF} \cup Others
TextsUpTo(n) == UNION {[1..k -> Chars] : k \in 0..n}

AsciiInit == /\ file = <<>> /\ sent = <<>> /\ taken = 0
             /\ prev_cr = FALSE /\ stored = <<>> /\ phase = "idle"

\* Each character of t becomes the sequence F(t, i).
Translate(t, F(_, _)) == FlattenSeq([i \in 1..Len(t) |-> F(t, i)])

\* Slip: a line feed that has its carriage return gets no second one.
BinToAsciiTidy(t) ==
    Translate(t, LAMBDA u, i : IF u[i] = LF /\ (i = 1 \/ u[i - 1] # CR)
                               THEN <<CR, LF>> ELSE <<u[i]>>)

\* lfd_ascii_bin_to_ascii
BinToAscii(t) ==
    Translate(t, LAMBDA u, i : IF u[i] = LF THEN <<CR, LF>> ELSE <<u[i]>>)

\* Slip: the carriage return held back is forgotten if the chunk is empty.
AsciiToBinForgets(chunk, held) ==
    [stored |-> (IF held /\ chunk # <<>> /\ chunk[1] # LF THEN <<CR>> ELSE <<>>)
                \o Translate(chunk, LAMBDA u, i :
                       IF u[i] = CR /\ (i = Len(u) \/ u[i + 1] = LF)
                       THEN <<>> ELSE <<u[i]>>),
     last_was_cr |-> chunk # <<>> /\ chunk[Len(chunk)] = CR]

\* lfd_ascii_ascii_to_bin
AsciiToBin(chunk, held) ==
    [stored |-> (IF held /\ (chunk = <<>> \/ chunk[1] # LF) THEN <<CR>> ELSE <<>>)
                \o Translate(chunk, LAMBDA u, i :
                       IF u[i] = CR /\ (i = Len(u) \/ u[i + 1] = LF)
                       THEN <<>> ELSE <<u[i]>>),
     last_was_cr |-> chunk # <<>> /\ chunk[Len(chunk)] = CR]

\* A client sends its file as it is or as lfd_ascii_bin_to_ascii would.
BeginUpload ==
    /\ phase = "idle"
    /\ file' \in TextsUpTo(MaxText)
    /\ sent' \in {file', BinToAscii(file')}
    /\ phase' = "receive"
    /\ UNCHANGED <<taken, prev_cr, stored>>

\* One turn of the loop with a chunk of n bytes; there are none at the end.
Convert(n) ==
    LET c == AsciiToBin(SubSeq(sent, taken + 1, taken + n), prev_cr)
    IN  /\ stored' = stored \o c.stored
        /\ prev_cr' = c.last_was_cr
        /\ taken' = taken + n
        /\ UNCHANGED <<file, sent, phase>>

RecvChunk ==
    /\ phase = "receive"
    /\ \E n \in 1..BufSize : taken + n <= Len(sent) /\ Convert(n)

RecvEnd ==
    /\ phase = "receive" /\ taken = Len(sent)
    /\ IF prev_cr THEN Convert(0)
       ELSE phase' = "stored" /\ UNCHANGED <<file, sent, taken, prev_cr, stored>>

AsciiDone == phase = "stored" /\ UNCHANGED asciiVars

AsciiNext == BeginUpload \/ RecvChunk \/ RecvEnd \/ AsciiDone

AsciiSpec == AsciiInit /\ [][AsciiNext]_asciiVars

-----------------------------------------------------------------------------
\* The whole text without its carriage returns that stand before a line feed.
Plain(t) == Translate(t, LAMBDA u, i :
                IF u[i] = CR /\ i < Len(u) /\ u[i + 1] = LF THEN <<>> ELSE <<u[i]>>)

\* utils.c 108: however the text is cut, all CR LF become LF and no other
\* carriage return is removed; one that is held back is not lost either.
ChunksMakeTheText ==
    /\ phase = "receive" /\ prev_cr =>
           stored \o <<CR>> = Plain(SubSeq(sent, 1, taken))
    /\ phase = "stored" => stored = Plain(sent)

\* What one conversion does the other undoes, whatever the file has for line
\* ends (utils.c 87, 108).
RoundTrip ==
    phase = "stored" /\ sent = BinToAscii(file) => stored = file
=============================================================================
