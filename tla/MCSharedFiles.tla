--------------------------- MODULE MCSharedFiles ---------------------------
(***************************************************************************)
(* Two instances of SharedFiles for TLC in one: which of them runs is      *)
(* chosen at the start, so their states add up.  "names" has every name,   *)
(* the commands that deal in names, and files of one chunk; "data" has two *)
(* names, and files that grow.                                             *)
(***************************************************************************)
EXTENDS SharedFiles, TLC

VARIABLE part

NamesOnly == /\ \A s \in Sessions : kind[s] # "APPE" /\ stored[s] <= 1
             /\ \A i \in Inodes : Len(content[i]) <= 1

DataOnly == /\ \A s \in Sessions : /\ pc[s] \notin {"probe", "create", "mkdir"}
                                   /\ name[s] # NoName => name[s][2] <= 1
            /\ \A n \in Names : n[2] > 1 => ~Bound(n)

MCInit == Init /\ part \in {"names", "data"}

MCNext == /\ Next
          /\ \/ part = "names" /\ NamesOnly'
             \/ part = "data"  /\ DataOnly'
          /\ UNCHANGED part

\* Sessions and inodes are interchangeable.
Symmetry == Permutations(Sessions) \cup Permutations(Inodes)
=============================================================================
