---------------------------- MODULE FtpDialogue -----------------------------
(***************************************************************************)
(* What a session promises its client about replies, and nothing else.     *)
(* A command is received only when the previous one is done with.  A       *)
(* command gets one concluding reply, a success or a refusal, and not a    *)
(* word after it, of whatever class; those that may pass in silence may    *)
(* get none.  The preliminary replies of a transfer come before its        *)
(* conclusion and are counted: no success before all of them, and never    *)
(* one more.  A session that breaks off may leave its command unanswered.  *)
(***************************************************************************)
EXTENDS Integers, Sequences

CONSTANTS Sessions,
          Codes,     \* the reply codes
          More       \* what marks a line that others of the same reply follow

VARIABLES phase,   \* where the dialogue of each session stands
          kind,    \* what the command last received is
          said     \* every reply since that command was received

vars == <<phase, kind, said>>

Phases == {"greeting", "idle", "busy", "closed"}
Kinds  == {"plain", "transfer", "unique", "mute"}

TypeOK == /\ phase \in [Sessions -> Phases]
          /\ kind  \in [Sessions -> Kinds]
          /\ said  \in [Sessions -> Seq(Codes)]

Init == /\ phase = [s \in Sessions |-> "greeting"]
        /\ kind  = [s \in Sessions |-> "plain"]
        /\ said  = [s \in Sessions |-> <<>>]

Preliminary == 100..199
Success     == 200..399
Refusal     == 400..599

\* How many preliminary replies a success takes.
Preliminaries == [plain |-> 0, transfer |-> 1, unique |-> 2, mute |-> 0]

\* The conclusion has been said: nothing else concludes, so it is the last reply.
Concluded(replies) ==
    replies # <<>> /\ replies[Len(replies)] \in Success \cup Refusal

\* A reply that may come after those of "replies", to a command of kind k.
Fits(k, replies, code) ==
    /\ ~Concluded(replies)
    /\ \/ code \in Refusal
       \/ code \in Preliminary /\ Len(replies) < Preliminaries[k]
       \/ code \in Success /\ Len(replies) = Preliminaries[k]

\* One reply, or the two lines of one that tells more.
Speaks(k, before, after) ==
    \E code \in Codes :
        \/ Fits(k, before, code) /\ after = Append(before, code)
        \/ /\ k = "plain" /\ before = <<>> /\ code \in Success
           /\ after = <<code + More, code>>

\* The session s says something, and only s does.
Says(s) == /\ Speaks(kind[s], said[s], said'[s])
           /\ said' = [said EXCEPT ![s] = said'[s]]

Move(s, from, to) == /\ phase[s] = from
                     /\ phase' = [phase EXCEPT ![s] = to]

Greet(s) == Move(s, "greeting", "busy") /\ Says(s) /\ UNCHANGED kind

Ask(s) == /\ Move(s, "idle", "busy")
          /\ said' = [said EXCEPT ![s] = <<>>]
          /\ \E k \in Kinds : kind' = [kind EXCEPT ![s] = k]

Reply(s) == phase[s] = "busy" /\ Says(s) /\ UNCHANGED <<phase, kind>>

\* The next command may come.
Ready(s) == /\ Move(s, "busy", "idle")
            /\ Concluded(said[s]) \/ (kind[s] = "mute" /\ said[s] = <<>>)
            /\ UNCHANGED <<kind, said>>

\* The session ends, with a last reply or without.
Close(s) == /\ phase[s] # "closed"
            /\ Move(s, phase[s], "closed")
            /\ UNCHANGED said \/ Says(s)
            /\ UNCHANGED kind

\* The process goes away, and every session with it.
CloseAll == /\ phase' = [s \in Sessions |-> "closed"]
            /\ UNCHANGED <<kind, said>>

Next == \/ CloseAll
        \/ \E s \in Sessions : \/ Greet(s) \/ Ask(s) \/ Reply(s)
                               \/ Ready(s) \/ Close(s)

Spec == Init /\ [][Next]_vars
=============================================================================
