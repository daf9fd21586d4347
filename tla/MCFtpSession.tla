---------------------------- MODULE MCFtpSession ----------------------------
(***************************************************************************)
(* FtpSession in both builds, for TLC: with the LKL file operations as the *)
(* configuration has it, or with those of APR, as is chosen at the start.  *)
(* The builds differ in Next; what fairness asks of a worker is the same.  *)
(***************************************************************************)
EXTENDS FtpSession

VARIABLE build

Apr == INSTANCE FtpSession WITH LklFileApis <- FALSE

MCInit == Init /\ build \in {"lkl", "apr"}

MCNext == /\ \/ build = "lkl" /\ Next
             \/ build = "apr" /\ Apr!Next
          /\ UNCHANGED build

MCSpec == MCInit /\ [][MCNext]_<<vars, build>> /\ Fairness

\* In the APR build a file that is answered 226 holds what was received
\* (CompleteMeansIntact; cmdhandler.c 663-671).
IntactInApr == build = "apr" => CompleteMeansIntact
=============================================================================
