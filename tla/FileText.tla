------------------------------ MODULE FileText ------------------------------
(***************************************************************************)
(* What fileops.h promises of an open file to the one thread that uses it: *)
(* a text and a place in it.  A read takes what stands at the place, a     *)
(* write puts bytes there or, when appending, at the end; both move the    *)
(* place on.  Buffers and the kernel's offset do not show.                 *)
(* Once astray is set nothing more is promised.                            *)
(***************************************************************************)
EXTENDS Integers, Sequences

CONSTANTS Bytes,   \* the values of a byte
          Zero     \* what a hole in a file reads as

VARIABLES text,    \* what a reader of the file would find
          at,      \* where the handle stands
          mode,    \* the flags the file is open with, {} when it is closed
          ask,     \* the call in hand: [op, full, asked, data]
          moved,   \* the bytes that it has moved
          told,    \* the count or offset that it has told
          rv,      \* "running", or how it ended
          astray   \* something that the header does not provide for

vars == <<text, at, mode, ask, moved, told, rv, astray>>

Larger(m, n) == IF m >= n THEN m ELSE n

\* The text c with the bytes b put at offset p; a gap is filled with zeros.
Overlay(c, p, b) ==
    IF b = <<>> THEN c
    ELSE [i \in 1..Larger(Len(c), p + Len(b)) |->
              IF i \in p + 1..p + Len(b) THEN b[i - p]
              ELSE IF i <= Len(c) THEN c[i] ELSE Zero]

PutAt == IF "APPEND" \in mode THEN Len(text) ELSE at

\* fileops.h 207, 237, 265, 286.  A call that succeeds has moved what it tells,
\* and all of it when it is one of the _full calls.  EOF is for the end.
Honest ==
    /\ rv = "SUCCESS" => told = Len(moved)
    /\ rv = "SUCCESS" /\ ask.full => told = ask.asked
    /\ rv = "EOF" => ask.op = "read" /\ at >= Len(text) /\ told = Len(moved)

Init == /\ text \in Seq(Bytes) /\ at = 0 /\ mode = {}
        /\ moved = <<>> /\ told = 0 /\ rv = "none" /\ astray = FALSE
        /\ ask = [op |-> "none", full |-> FALSE, asked |-> 0, data |-> <<>>]

\* A file that is opened is as it was, or truncated.
Open == /\ mode = {} /\ at' = 0
        /\ text' = text \/ (mode' # {} /\ text' = <<>>)

\* A read or a write is asked for.
Begin == /\ rv # "running" /\ rv' = "running"
         /\ moved' = <<>>
         /\ UNCHANGED <<text, at, mode>>

Take == /\ rv = "running" /\ ask.op = "read"
        /\ \E n \in 0..Len(text) : /\ moved' = moved \o SubSeq(text, at + 1, at + n)
                                   /\ at' = at + n
        /\ Honest'
        /\ UNCHANGED <<text, mode, ask>>

Put == /\ rv = "running" /\ ask.op = "write"
       /\ \E n \in 0..ask.asked - Len(moved) :
              LET b == SubSeq(ask.data, Len(moved) + 1, Len(moved) + n)
              IN  /\ text' = Overlay(text, PutAt, b)
                  /\ at' = IF n = 0 THEN at ELSE PutAt + n
                  /\ moved' = moved \o b
       /\ Honest'
       /\ UNCHANGED <<mode, ask>>

\* The handle moves to the place asked for and tells it, or stays.
Seek ==
    LET to == CASE ask'.op = "SET" -> ask'.asked
                [] ask'.op = "CUR" -> at + ask'.asked
                [] ask'.op = "END" -> Len(text) + ask'.asked
    IN  /\ rv # "running" /\ ask'.op \in {"SET", "CUR", "END"}
        /\ IF rv' = "SUCCESS" THEN at' = to /\ told' = to ELSE at' = at
        /\ UNCHANGED <<text, mode>>

Flush == rv # "running" /\ UNCHANGED <<text, at, mode>>

\* A close that succeeds has lost nothing.
Close == /\ rv # "running" /\ mode' = {}
         /\ rv' = "SUCCESS" => UNCHANGED text

Next == /\ ~astray
        /\ \/ astray'
           \/ /\ UNCHANGED astray
              /\ Open \/ Begin \/ Take \/ Put \/ Seek \/ Flush \/ Close

Spec == Init /\ [][Next]_vars
=============================================================================
