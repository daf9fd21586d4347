------------------------------ MODULE CwdPath -------------------------------
(***************************************************************************)
(* sess->cwd_path and what CWD and CDUP do to it (cmdhandler.c 78, 188,    *)
(* 241).  The text always ends with a slash; here it is the sequence of    *)
(* what stands between the slashes, "" where two of them meet, so "/" is   *)
(* <<>> and "/a/../" is <<"a", "..">>.  CWD asks the kernel whether the    *)
(* path is a directory; CDUP cuts off the last component and asks nobody.  *)
(***************************************************************************)
EXTENDS Naturals, Sequences

CONSTANTS Names,     \* of directories
          MaxDepth,  \* bound on the components of cwd_path
          MaxTree    \* bound on the depth of the tree

ASSUME CwdPathAssumption == /\ Names \cap {"", ".", ".."} = {}
                            /\ MaxDepth \in Nat
                            /\ MaxTree \in Nat

VARIABLES tree,      \* the directories there are, as the names from the root
          cwd,       \* sess->cwd_path
          gone       \* history: a directory was removed since the session began

cwdVars == <<tree, cwd, gone>>

Components == Names \cup {"", ".", ".."}
SeqsUpTo(S, n) == UNION {[1..k -> S] : k \in 0..n}
Butlast(s) == SubSeq(s, 1, Len(s) - 1)

CwdInit == tree = {<<>>} /\ cwd = <<>> /\ gone = FALSE

\* No directory has this place: names are not empty.
Nowhere == <<"">>

\* Where the kernel gets from the directory d by one component, when there are
\* the directories of dirs.
StepInto(dirs, d, c) ==
    IF d = Nowhere THEN Nowhere
    ELSE IF c \in {"", "."} THEN d
    ELSE IF c = ".." THEN (IF d = <<>> THEN d ELSE Butlast(d))
    ELSE IF Append(d, c) \in dirs THEN Append(d, c) ELSE Nowhere

\* Where the kernel gets by a whole path.
Walk(dirs, path) ==
    LET w[i \in 0..Len(path)] ==
            IF i = 0 THEN <<>> ELSE StepInto(dirs, w[i - 1], path[i])
    IN  w[Len(path)]

\* MKD and RMD of this session or another.
MakeDir(d) == /\ d # <<>> /\ d \notin tree /\ Butlast(d) \in tree
              /\ tree' = tree \cup {d}
              /\ UNCHANGED <<cwd, gone>>

RemoveDir(d) == /\ d \in tree /\ d # <<>>
                /\ \A e \in tree : Len(e) > Len(d) => SubSeq(e, 1, Len(d)) # d
                /\ tree' = tree \ {d}
                /\ gone' = TRUE
                /\ UNCHANGED cwd

\* What CDUP makes of a path: the last component is cut off as text.
CdupPath(path) == IF path = <<>> THEN path ELSE Butlast(path)

\* handle_cdup
Cdup == /\ cwd' = CdupPath(cwd)
        /\ UNCHANGED <<tree, gone>>

\* A slash is added to a path that does not end with one.
Slashed(path) == IF path # <<>> /\ path[Len(path)] = "" THEN Butlast(path) ELSE path

\* get_abs_path
AbsPath(absolute, arg) == IF absolute THEN arg ELSE cwd \o arg

\* Slip: the path is put together and not looked at.
CwdBlind(absolute, arg) ==
    LET path == Slashed(AbsPath(absolute, arg))
    IN  /\ Len(path) <= MaxDepth
        /\ cwd' = path
        /\ UNCHANGED <<tree, gone>>

\* handle_cwd with an argument other than "." and ".."; a path that is no
\* directory is refused.
Cwd(absolute, arg) ==
    LET path == Slashed(AbsPath(absolute, arg))
    IN  /\ Len(path) <= MaxDepth
        /\ cwd' = IF Walk(tree, path) \in tree THEN path ELSE cwd
        /\ UNCHANGED <<tree, gone>>

\* "." changes nothing, ".." is CDUP.
CwdCommand(absolute, arg) ==
    IF ~absolute /\ arg = <<"..">> THEN Cdup
    ELSE IF ~absolute /\ arg = <<".">> THEN UNCHANGED cwdVars
    ELSE Cwd(absolute, arg)

CwdNext == \/ \E d \in SeqsUpTo(Names, MaxTree) : MakeDir(d) \/ RemoveDir(d)
           \/ \E absolute \in BOOLEAN, arg \in SeqsUpTo(Components, 2) :
                 /\ absolute \/ (arg # <<>> /\ arg[1] # "")
                 /\ CwdCommand(absolute, arg)
           \/ Cdup

CwdSpec == CwdInit /\ [][CwdNext]_cwdVars

-----------------------------------------------------------------------------
\* CDUP need not ask (cmdhandler.c 241-273): while nobody removes directories,
\* the path and all that CDUP can make of it lead to some directory, .. or not.
\* It is not said which one.
CwdStaysValid ==
    ~gone => \A k \in 0..Len(cwd) : Walk(tree, SubSeq(cwd, 1, k)) \in tree

\* CDUP "changes the current directory with it's parent" (cmdhandler.c 250): what
\* it makes of the path leads where the kernel gets by .. from the directory the
\* session is in.  It does not once ., .. or an empty component is in the path.
CdupGoesToParent ==
    ~gone => Walk(tree, CdupPath(cwd)) = StepInto(tree, Walk(tree, cwd), "..")
=============================================================================
