---------------------------- MODULE ServerProofs ----------------------------
(* The safety properties of Server, for every set of connections.          *)
EXTENDS Server, FiniteSetTheorems, TLAPS

\* A connection that gets its worker is one more of those that had one.
LEMMA OneMoreServed ==
    ASSUME NEW S \in SUBSET Conns, NEW c \in Conns, c \notin S
    PROVE  Cardinality(S \cup {c}) = Cardinality(S) + 1
BY FS_AddElement, FS_Subset, ServerAssumption

LEMMA ServedIsNat == /\ Cardinality(HadWorker) \in Nat
                     /\ Cardinality(Conns) \in Nat
                     /\ Cardinality(HadWorker) <= Cardinality(Conns)
<1>1. HadWorker \subseteq Conns
  BY DEF HadWorker
<1>2. QED
  BY <1>1, FS_Subset, FS_CardinalityType, ServerAssumption

LEMMA InitInv == Init => ServerInv
<1> SUFFICES ASSUME Init PROVE ServerInv
  OBVIOUS
<1>1. HadWorker = {}
  BY DEF Init, HadWorker
<1>2. PoolsAccounted
  BY <1>1, FS_EmptySet DEF PoolsAccounted, Init
<1>3. 0 \in 0..(Cardinality(Conns) + 1)
  BY ServedIsNat
<1>4. QED
  BY <1>2, <1>3, ServerAssumption DEF Init, ServerInv, TypeOK, MainLocations,
     ConnStates, AcceptedIsHeld, ListenerHolds, NoMoreAfterLate,
     MountedWhileListening, Listening

\* Everything but the count of the pools.
Routine == /\ TypeOK
           /\ AcceptedIsHeld
           /\ ListenerHolds
           /\ NoMoreAfterLate
           /\ MountedWhileListening

LEMMA MainRoutine == ASSUME ServerInv, Main PROVE Routine'
<1> USE ServerAssumption DEF ServerInv, Routine, TypeOK, MainLocations,
    ConnStates, AcceptedIsHeld, ListenerHolds, NoMoreAfterLate,
    MountedWhileListening, Listening, Goto
<1>1. CASE Boot
  BY <1>1 DEF Boot
<1>2. CASE CreateListenSocket \/ LoopTop
  BY <1>2 DEF CreateListenSocket, LoopTop
<1>3. CASE CreatePool
  <2>1. pools' \in 0..(Cardinality(Conns) + 1)
    BY <1>3, ServedIsNat DEF CreatePool, PoolsAccounted
  <2>2. QED
    BY <1>3, <2>1 DEF CreatePool
<1>4. CASE Poll
  BY <1>4 DEF Poll
<1>5. CASE Check
  BY <1>5 DEF Check
<1>6. CASE Accept
  <2>1. PICK c \in Waiting : /\ conn' = [conn EXCEPT ![c] = "accepted"]
                             /\ clientSock' = c
    BY <1>6 DEF Accept
  <2>2. c \in Conns /\ conn[c] = "waiting"
    BY DEF Waiting
  <2>3. QED
    BY <1>6, <2>1, <2>2 DEF Accept
<1>7. CASE CreateThread
  BY <1>7 DEF CreateThread
<1>8. CASE Umount
  BY <1>8 DEF Umount
<1>9. CASE Halt
  BY <1>9 DEF Halt
<1>10. CASE Exit
  BY <1>10 DEF Exit
<1>11. QED
  BY <1>1, <1>2, <1>3, <1>4, <1>5, <1>6, <1>7, <1>8, <1>9, <1>10 DEF Main

LEMMA OtherRoutine == ASSUME ServerInv, Faults \/ Others PROVE Routine'
<1> USE ServerAssumption DEF ServerInv, Routine, TypeOK, MainLocations,
    ConnStates, AcceptedIsHeld, ListenerHolds, NoMoreAfterLate,
    MountedWhileListening, Listening, Goto
<1>1. CASE CreatePoolFails
  BY <1>1 DEF CreatePoolFails
<1>2. CASE AcceptFails
  <2>1. PICK c \in Waiting :
            conn' \in {conn, [conn EXCEPT ![c] = "dropped"]}
    BY <1>2 DEF AcceptFails
  <2>2. c \in Conns /\ conn[c] = "waiting"
    BY DEF Waiting
  <2>3. QED
    BY <1>2, <2>1, <2>2 DEF AcceptFails
<1>3. CASE CreateThreadFails
  BY <1>3 DEF CreateThreadFails
<1>4. CASE Signal
  BY <1>4 DEF Signal
<1>5. ASSUME NEW c \in Conns, WorkerEnds(c) PROVE Routine'
  BY <1>5 DEF WorkerEnds
<1>6. ASSUME NEW c \in Conns, Arrive(c) PROVE Routine'
  BY <1>6 DEF Arrive
<1>7. QED
  BY <1>1, <1>2, <1>3, <1>4, <1>5, <1>6 DEF Faults, Others

\* Only CreatePool and CreateThread touch the pools; the other steps leave the
\* set of the connections that had a worker as it is.
LEMMA PoolsStay ==
    ASSUME PoolsAccounted, HadWorker' = HadWorker, UNCHANGED <<pools, thdPool>>
    PROVE  PoolsAccounted'
BY DEF PoolsAccounted

LEMMA PoolsStep == ASSUME ServerInv, [Next]_vars PROVE PoolsAccounted'
<1> USE DEF ServerInv
<1>1. CASE CreatePool
  <2>1. HadWorker' = HadWorker
    BY <1>1 DEF CreatePool, HadWorker
  <2>2. QED
    BY <1>1, <2>1, ServedIsNat DEF CreatePool, PoolsAccounted, Goto, TypeOK
<1>2. CASE CreateThread
  <2>1. /\ clientSock \in Conns
        /\ conn[clientSock] = "accepted"
        /\ thdPool /\ ~thdPool'
    BY <1>2 DEF CreateThread, Goto, ListenerHolds, AcceptedIsHeld
  <2>2. clientSock \notin HadWorker
    BY <2>1 DEF HadWorker
  <2>3. HadWorker' = HadWorker \cup {clientSock}
    BY <1>2, <2>1 DEF CreateThread, HadWorker, TypeOK
  <2>4. Cardinality(HadWorker') = Cardinality(HadWorker) + 1
    BY <2>1, <2>2, <2>3, OneMoreServed DEF HadWorker
  <2>5. QED
    BY <1>2, <2>1, <2>4, ServedIsNat DEF CreateThread, PoolsAccounted, TypeOK
<1>3. CASE Accept
  <2>1. HadWorker' = HadWorker
    BY <1>3 DEF Accept, Waiting, HadWorker, TypeOK
  <2>2. QED
    BY <1>3, <2>1, PoolsStay DEF Accept
<1>4. CASE AcceptFails
  <2>1. HadWorker' = HadWorker
    BY <1>4 DEF AcceptFails, Waiting, HadWorker, TypeOK
  <2>2. QED
    BY <1>4, <2>1, PoolsStay DEF AcceptFails
<1>5. CASE CreateThreadFails
  <2>1. HadWorker' = HadWorker
    BY <1>5 DEF CreateThreadFails, HadWorker, TypeOK, ListenerHolds,
       AcceptedIsHeld, Goto
  <2>2. QED
    BY <1>5, <2>1, PoolsStay DEF CreateThreadFails
<1>6. CASE Exit
  <2>1. HadWorker' = HadWorker
    BY <1>6 DEF Exit, HadWorker, TypeOK
  <2>2. QED
    BY <1>6, <2>1, PoolsStay DEF Exit
<1>7. ASSUME NEW c \in Conns, WorkerEnds(c) \/ Arrive(c) PROVE PoolsAccounted'
  <2>1. HadWorker' = HadWorker
    BY <1>7 DEF WorkerEnds, Arrive, HadWorker, TypeOK
  <2>2. QED
    BY <1>7, <2>1, PoolsStay DEF WorkerEnds, Arrive
<1>8. CASE \/ Boot \/ CreateListenSocket \/ LoopTop \/ CreatePoolFails \/ Poll
           \/ Check \/ Umount \/ Halt \/ Signal \/ Terminated \/ UNCHANGED vars
  <2>1. UNCHANGED <<conn, pools, thdPool>>
    BY <1>8 DEF Boot, CreateListenSocket, LoopTop, CreatePoolFails, Poll, Check,
       Umount, Halt, Signal, Terminated, vars
  <2>2. QED
    BY <2>1, PoolsStay DEF HadWorker
<1>9. QED
  BY <1>1, <1>2, <1>3, <1>4, <1>5, <1>6, <1>7, <1>8
  DEF Next, Main, Faults, Others

LEMMA StepInv == ServerInv /\ [Next]_vars => ServerInv'
<1> SUFFICES ASSUME ServerInv, [Next]_vars PROVE ServerInv'
  OBVIOUS
<1>1. CASE UNCHANGED vars
  BY <1>1, PoolsStep DEF vars, ServerInv, TypeOK, AcceptedIsHeld,
     ListenerHolds, NoMoreAfterLate, MountedWhileListening
<1>2. CASE Main
  BY <1>2, MainRoutine, PoolsStep DEF ServerInv, Routine
<1>3. CASE Faults \/ Others
  BY <1>3, OtherRoutine, PoolsStep DEF ServerInv, Routine
<1>4. QED
  BY <1>1, <1>2, <1>3 DEF Next, Terminated

\* The inductive invariant of the main thread of lklftpd, main.c and listen.c.
THEOREM ServerAlways == Spec => []ServerInv
BY InitInv, StepInv, PTL DEF Spec

\* Every variable of the main thread, the pools and the connections keeps its
\* type, whichever call fails.
THEOREM ServerTypeCorrect == Spec => []TypeOK
<1>1. ServerInv => TypeOK
  BY DEF ServerInv
<1>2. QED
  BY <1>1, ServerAlways, PTL

\* lfd_listen: after the shutdown signal at most one connection is accepted.
THEOREM AtMostOneLateAcceptAlways == Spec => []AtMostOneLateAccept
<1>1. ServerInv => AtMostOneLateAccept
  BY DEF ServerInv, NoMoreAfterLate, AtMostOneLateAccept
<1>2. QED
  BY <1>1, ServerAlways, PTL

\* lfd_listen: an accepted connection is the listener's until it has a worker
\* or is closed.
THEOREM AcceptedIsHeldAlways == Spec => []AcceptedIsHeld
<1>1. ServerInv => AcceptedIsHeld
  BY DEF ServerInv
<1>2. QED
  BY <1>1, ServerAlways, PTL

\* main(): connections are accepted only while the disk is mounted.
THEOREM AcceptedOnMountedDiskAlways == Spec => []AcceptedOnMountedDisk
<1>1. ServerInv => AcceptedOnMountedDisk
  BY DEF ServerInv, AcceptedIsHeld, MountedWhileListening, Listening,
     AcceptedOnMountedDisk
<1>2. QED
  BY <1>1, ServerAlways, PTL

\* lfd_listen: a thread pool for every connection that ever had a worker, one
\* in the listener's hands at most, and no other.
THEOREM PoolsAccountedAlways == Spec => []PoolsAccounted
<1>1. ServerInv => PoolsAccounted
  BY DEF ServerInv
<1>2. QED
  BY <1>1, ServerAlways, PTL

=============================================================================
