------------------------------- MODULE CmdIO --------------------------------
(***************************************************************************)
(* How commands come out of the control connection (cmdio.c 47).  A client *)
(* writes lines; TCP delivers their bytes in pieces of its own making; each*)
(* receive is taken for one command.  The buffer is cleared before each    *)
(* receive, and nothing of a piece is kept for the next.                   *)
(*                                                                         *)
(* The command loop compares names with apr_strnatcasecmp, which skips     *)
(* white space: a name that came without an argument still has its line end*)
(* and is found all the same.  A piece that fills the buffer leaves no room*)
(* for a NUL, and the string goes on into what lies behind the buffer.     *)
(***************************************************************************)
EXTENDS Naturals, Sequences, SequencesExt

CONSTANTS Letters,     \* what names and arguments are made of
          SP, EndCR, EndLF, NUL,
          BufLen,      \* cmd_input_buffer_len
          MaxCmds,     \* bound on the commands of a session
          MaxArg       \* bound on the length of an argument

ASSUME CmdIOAssumption ==
    /\ {SP, EndCR, EndLF, NUL} \cap Letters = {}
    /\ SP \notin {EndCR, EndLF, NUL} /\ NUL \notin {EndCR, EndLF}
    /\ BufLen \in Nat /\ MaxCmds \in Nat /\ MaxArg \in Nat

VARIABLES
    said,      \* the commands that the client has sent
    wire,      \* the bytes that have not been received
    buffer,    \* sess->cmd_input_buffer
    heard,     \* the commands that the loop has got
    torn,      \* history: a receive did not bring just one line, or too long a one
    alive      \* the session goes on

cmdVars == <<said, wire, buffer, heard, torn, alive>>

Args == UNION {[1..k -> Letters \cup {SP}] : k \in 0..MaxArg}
Cleared == [i \in 1..BufLen |-> NUL]

CmdInit == /\ said = <<>> /\ wire = <<>> /\ buffer = Cleared
           /\ heard = <<>> /\ torn = FALSE /\ alive = TRUE

Line(c) == <<c.name>> \o (IF c.arg = <<>> THEN <<>> ELSE <<SP>> \o c.arg)
           \o <<EndCR, EndLF>>

\* The client writes without waiting for an answer.
Say(c) == /\ alive /\ Len(said) < MaxCmds
          /\ said' = Append(said, c)
          /\ wire' = wire \o Line(c)
          /\ UNCHANGED <<buffer, heard, torn, alive>>

\* apr_strtok from position i on: the token, and where the next one may begin.
Token(s, i, separators) ==
    LET first == Min({j \in i..Len(s) : s[j] \notin separators} \cup {Len(s) + 1})
        end == Min({j \in first..Len(s) : s[j] \in separators} \cup {Len(s) + 1})
    IN  [text |-> SubSeq(s, first, end - 1), next |-> end + 1]

\* What apr_strnatcasecmp sees of a name.
Squeezed(s) ==
    FlattenSeq([i \in 1..Len(s) |-> IF s[i] \in {EndCR, EndLF} THEN <<>> ELSE <<s[i]>>])

\* The string in b, which may go on with junk when no NUL is in the way.
Strings(b) ==
    LET end == Min({i \in 1..BufLen : b[i] = NUL} \cup {BufLen + 1})
    IN  IF end <= BufLen THEN {SubSeq(b, 1, end - 1)}
        ELSE {b \o junk : junk \in {<<>>} \cup {<<c>> : c \in Letters}}

\* Slip: the buffer is not cleared.
FilledOver(piece) == piece \o SubSeq(buffer, Len(piece) + 1, BufLen)

\* The buffer after a receive.
Filled(piece) == [i \in 1..BufLen |-> IF i <= Len(piece) THEN piece[i] ELSE NUL]

\* lfd_cmdio_get_cmd_and_arg; a string of spaces ends the session.
Hear(s) ==
    LET name == Token(s, 1, {SP})
        arg == Token(s, name.next, {EndCR, EndLF})
    IN  IF name.text = <<>>
        THEN alive' = FALSE /\ UNCHANGED heard
        ELSE /\ heard' = Append(heard, [name |-> Squeezed(name.text), arg |-> arg.text])
             /\ UNCHANGED alive

Receive(n) ==
    LET piece == SubSeq(wire, 1, n)
    IN  /\ alive /\ n <= Len(wire)
        /\ buffer' = Filled(piece)
        /\ wire' = SubSeq(wire, n + 1, Len(wire))
        /\ torn' = \/ torn
                   \/ n = BufLen
                   \/ Len(heard) >= Len(said)
                   \/ piece # Line(said[Len(heard) + 1])
        /\ \E s \in Strings(buffer') : Hear(s)
        /\ UNCHANGED said

CmdDone == /\ ~alive \/ (Len(said) = MaxCmds /\ wire = <<>>)
           /\ UNCHANGED cmdVars

CmdNext == \/ \E l \in Letters, a \in Args : Say([name |-> l, arg |-> a])
           \/ \E n \in 1..BufLen : Receive(n)
           \/ CmdDone

CmdSpec == CmdInit /\ [][CmdNext]_cmdVars

-----------------------------------------------------------------------------
\* While each receive brings one line, and not one that fills the buffer, every
\* command is got once, in order, and nothing of an earlier one sticks to it
\* (cmdio.c 60, 74).
WholeLinesHeard ==
    ~torn => /\ alive
             /\ Len(heard) <= Len(said)
             /\ \A i \in DOMAIN heard :
                   heard[i] = [name |-> <<said[i].name>>, arg |-> said[i].arg]
=============================================================================
