------------------------------ MODULE MCSmall -------------------------------
(***************************************************************************)
(* The four small machines side by side: which of them runs is chosen at   *)
(* the start, so their states add up and do not multiply.                  *)
(***************************************************************************)
EXTENDS Ascii, CmdIO, CwdPath, PasvPort

VARIABLE part

MCInit == /\ part \in {"ascii", "command", "cwd", "port"}
          /\ AsciiInit /\ CmdInit /\ CwdInit /\ PortInit

MCNext ==
    /\ UNCHANGED part
    /\ \/ part = "ascii" /\ AsciiNext /\ UNCHANGED <<cmdVars, cwdVars, portVars>>
       \/ part = "command" /\ CmdNext /\ UNCHANGED <<asciiVars, cwdVars, portVars>>
       \/ part = "cwd" /\ CwdNext /\ UNCHANGED <<asciiVars, cmdVars, portVars>>
       \/ part = "port" /\ PortNext /\ UNCHANGED <<asciiVars, cmdVars, cwdVars>>
=============================================================================
