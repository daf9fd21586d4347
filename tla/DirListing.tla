----------------------------- MODULE DirListing -----------------------------
(***************************************************************************)
(* How LIST comes by its text: list_dir (cmdhandler.c) reads a directory   *)
(* through lkl_dir_read (dirops.c), which takes the names of the entries   *)
(* from a buffer that getdents fills, and asks for the attributes of each  *)
(* one with a call of its own (lkl_stat).  Other sessions make, remove and *)
(* replace entries between any two of these calls.                         *)
(*                                                                         *)
(* The finfo that receives the attributes is one variable of list_dir; when*)
(* an entry has gone before it is asked for, it still holds what it had for*)
(* the entry before, and list_dir does not look at finfo.valid.            *)
(***************************************************************************)
EXTENDS Naturals, Sequences, FiniteSets

CONSTANTS
    Names,      \* of entries
    Hidden,     \* those that begin with a dot
    Attrs,      \* what lstat tells: type, size, permissions, time
    Absent,     \* the "attributes" of a name without an entry
    Batch,      \* bound on the entries that fit the buffer (4096 bytes)
    MaxChanges, \* bound on what the other sessions do meanwhile
    Faults      \* calls that may fail for no reason of ours: "getdents", "stat"

ASSUME DirListingAssumption ==
    /\ Hidden \subseteq Names
    /\ Absent \notin Attrs
    /\ Batch \in Nat \ {0}
    /\ MaxChanges \in Nat

\* A name has 255 bytes at most.
ASSUME NamesAssumption == IsFiniteSet(Names)

VARIABLES
    dir,       \* kernel: the entries
    unread,    \* kernel: the names that getdents has still to give
    thedir,    \* lkl_dir_t: the names in its buffer and how many are used
    entry,     \* thedir->entry, the name in hand
    finfo,     \* the attributes in the finfo of list_dir
    flagA,     \* LIST -a
    pc,        \* the call that the handler makes next
    list,      \* the lines made so far
    changes,   \* how much the others have done
    steady,    \* history: names that have been there since the open
    had,       \* history: the attributes each name has had since the open
    reborn,    \* history: names that were made since the open
    excused,   \* history: names that went away, or that lstat failed for
    cut        \* history: getdents has failed

kernelVars == <<dir, unread, changes, steady, had, reborn>>
listVars   == <<thedir, entry, finfo, flagA, pc, list, cut>>
vars       == <<kernelVars, listVars, excused>>

Present == {n \in Names : dir[n] # Absent}
Garbage == "garbage"   \* of an uninitialised finfo
Lines == [name : Names, attr : Attrs \cup {Garbage}]

TypeOK ==
    /\ dir \in [Names -> Attrs \cup {Absent}]
    /\ unread \subseteq Names
    /\ thedir \in [data : Seq(Names), offset : Nat]
    /\ entry \in Names \cup {Absent}
    /\ finfo \in Attrs \cup {Garbage}
    /\ flagA \in BOOLEAN
    /\ pc \in {"open", "readdir", "stat", "listed", "refused"}
    /\ list \in Seq(Lines)
    /\ changes \in 0..MaxChanges
    /\ steady \subseteq Names
    /\ had \in [Names -> SUBSET Attrs]
    /\ reborn \subseteq Names
    /\ excused \subseteq Names
    /\ cut \in BOOLEAN

Init ==
    /\ dir \in [Names -> Attrs \cup {Absent}]
    /\ unread = {}
    /\ thedir = [data |-> <<>>, offset |-> 0]
    /\ entry = Absent
    /\ finfo = Garbage
    /\ flagA \in BOOLEAN
    /\ pc = "open"
    /\ list = <<>>
    /\ changes = 0
    /\ steady = {}
    /\ had = [n \in Names |-> {}]
    /\ reborn = {}
    /\ excused = {}
    /\ cut = FALSE

-----------------------------------------------------------------------------
(* The other sessions.                                                     *)

Listing == pc \in {"readdir", "stat"}

\* MaxChanges counts what happens between the open and the end of the listing.
Meanwhile == Listing /\ changes < MaxChanges /\ changes' = changes + 1

\* MKD, STOR, RNTO: a new entry comes before or after where getdents is.
Create(n, a) ==
    /\ Meanwhile
    /\ dir[n] = Absent
    /\ dir' = [dir EXCEPT ![n] = a]
    /\ unread' \in {unread, unread \cup {n}}
    /\ had' = [had EXCEPT ![n] = @ \cup {a}]
    /\ reborn' = reborn \cup {n}
    /\ UNCHANGED <<listVars, steady, excused>>

\* RMD, DELE, RNTO.
Remove(n) ==
    /\ Meanwhile
    /\ n \in Present
    /\ dir' = [dir EXCEPT ![n] = Absent]
    /\ unread' = unread \ {n}
    /\ steady' = steady \ {n}
    /\ excused' = excused \cup {n}
    /\ UNCHANGED <<listVars, had, reborn>>

\* An upload makes a file longer, a rename puts another in its place.
Change(n, a) ==
    /\ Meanwhile
    /\ n \in Present
    /\ dir' = [dir EXCEPT ![n] = a]
    /\ had' = [had EXCEPT ![n] = @ \cup {a}]
    /\ UNCHANGED <<listVars, unread, steady, reborn, excused>>

-----------------------------------------------------------------------------
(* The handler.                                                            *)

OpenDir ==
    /\ pc = "open"
    /\ \/ /\ pc' = "readdir"
          /\ unread' = Present
          /\ steady' = Present
          /\ had' = [n \in Names |-> {dir[n]} \ {Absent}]
       \/ /\ pc' = "refused"
          /\ UNCHANGED <<unread, steady, had>>
    /\ UNCHANGED <<dir, changes, reborn, thedir, entry, finfo, flagA, list, excused, cut>>

\* The next name of the buffer.
Take(data, offset) ==
    /\ entry' = data[offset + 1]
    /\ thedir' = [data |-> data, offset |-> offset + 1]
    /\ pc' = "stat"

\* Slip: the last entry of the buffer is not reached.
EmptiedEarly == thedir.offset + 1 >= Len(thedir.data)

Emptied == thedir.offset >= Len(thedir.data)

\* Slip: thedir->offset stays.
FromBufferStays ==
    /\ pc = "readdir" /\ ~Emptied
    /\ entry' = thedir.data[thedir.offset]
    /\ pc' = "stat"
    /\ UNCHANGED <<kernelVars, thedir, finfo, flagA, list, excused, cut>>

FromBuffer ==
    /\ pc = "readdir" /\ ~Emptied
    /\ Take(thedir.data, thedir.offset)
    /\ UNCHANGED <<kernelVars, finfo, flagA, list, excused, cut>>

\* getdents gives some of the names that it has not given, in any order.
Batches == {b \in UNION {[1..k -> unread] : k \in 1..Batch} :
                \A i, j \in DOMAIN b : b[i] = b[j] => i = j}

FillBuffer ==
    /\ pc = "readdir" /\ Emptied
    /\ \E b \in Batches : /\ Take(b, 0)
                          /\ unread' = unread \ {b[i] : i \in DOMAIN b}
    /\ UNCHANGED <<dir, changes, steady, had, reborn, finfo, flagA, list, excused, cut>>

\* Slip: lkl_dir_read goes on when there is no entry.
NoMoreUnseen ==
    /\ pc = "readdir" /\ Emptied /\ unread = {}
    /\ list' = Append(list, [name |-> Absent, attr |-> finfo])
    /\ UNCHANGED <<kernelVars, thedir, entry, finfo, flagA, pc, excused, cut>>

\* Nothing more, or an error: lkl_readdir does not tell them apart.
\* The directory is closed.
NoMore ==
    /\ pc = "readdir" /\ Emptied
    /\ \/ unread = {} /\ UNCHANGED cut
       \/ "getdents" \in Faults /\ cut' = TRUE
    /\ pc' = "listed"
    /\ UNCHANGED <<kernelVars, thedir, entry, finfo, flagA, list, excused>>

\* Slip: lkl_dir_read asks for the entry after the one in hand.
StatEntryBehind ==
    /\ pc = "stat"
    /\ finfo' = IF Emptied \/ dir[thedir.data[thedir.offset + 1]] = Absent
                THEN finfo ELSE dir[thedir.data[thedir.offset + 1]]
    /\ list' = IF entry \in Hidden /\ ~flagA THEN list
               ELSE Append(list, [name |-> entry, attr |-> finfo'])
    /\ pc' = "readdir"
    /\ UNCHANGED <<kernelVars, thedir, entry, flagA, excused, cut>>

\* The rest of lkl_dir_read and the line that list_dir makes of finfo.
StatEntry ==
    /\ pc = "stat"
    /\ \/ /\ dir[entry] # Absent
          /\ finfo' = dir[entry]
          /\ UNCHANGED excused
       \/ /\ dir[entry] = Absent \/ "stat" \in Faults
          /\ excused' = excused \cup {entry}
          /\ UNCHANGED finfo
    /\ list' = IF entry \in Hidden /\ ~flagA THEN list
               ELSE Append(list, [name |-> entry, attr |-> finfo'])
    /\ pc' = "readdir"
    /\ UNCHANGED <<kernelVars, thedir, entry, flagA, cut>>

Ended == pc \in {"listed", "refused"} /\ UNCHANGED vars

Handler == OpenDir \/ FromBuffer \/ FillBuffer \/ NoMore \/ StatEntry

Others == \E n \in Names : \/ Remove(n)
                           \/ \E a \in Attrs : Create(n, a) \/ Change(n, a)

Next == Handler \/ Others \/ Ended

Spec == Init /\ [][Next]_vars

\* The worker runs; MaxChanges ends what the others do.
FairSpec == Spec /\ WF_vars(Handler)

-----------------------------------------------------------------------------
(* What must hold.                                                         *)

ListedOnce(n) == \E i \in DOMAIN list :
                    \A j \in DOMAIN list : list[j].name = n <=> j = i

\* LIST shows, once, every entry that was there all the time, whatever comes and
\* goes around it; unless getdents failed, which lkl_readdir takes for the end
\* (dirops.c 68, 73, 78).
SurvivorsListed ==
    pc = "listed" /\ ~cut =>
        \A n \in steady : n \notin Hidden \/ flagA => ListedOnce(n)

\* Nothing is shown that was not there, nor twice unless it was made meanwhile,
\* and what is shown of an entry was true of it at some time of the listing,
\* unless it went away or could not be asked for (dirops.c 111, cmdhandler.c 834).
LinesAreTrue ==
    \A i, j \in DOMAIN list :
        LET n == list[i].name
        IN  /\ had[n] # {}
            /\ n = list[j].name /\ n \notin reborn => i = j
            /\ n \in excused \/ list[i].attr \in had[n]

\* The names that are still to come, in the kernel and in the buffer.
Coming == Cardinality(unread) + Len(thedir.data) - thedir.offset

\* What list_dir has still to do: a name is taken and then asked for.
ToDo == CASE pc = "open"    -> 2 * Cardinality(Names) + 2
          [] pc = "readdir" -> 2 * Coming + 1
          [] pc = "stat"    -> 2 * Coming + 2
          [] OTHER          -> 0

\* Every step of list_dir leaves it less to do, so that it neither takes a name
\* again nor waits for one; only an entry made meanwhile adds to it, and no more
\* than itself (cmdhandler.c 814).  The safe half of ListingEnds.
ListingAdvances ==
    [][\/ ToDo' < ToDo
       \/ changes' > changes /\ ToDo' <= ToDo + 2]_vars

\* The listing comes to its end (cmdhandler.c 814).
ListingEnds == <>(pc \in {"listed", "refused"})
=============================================================================
