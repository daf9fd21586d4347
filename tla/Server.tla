------------------------------- MODULE Server -------------------------------
(***************************************************************************)
(* The main thread of lklftpd and the threads it starts: main() brings up  *)
(* the LKL kernel and mounts the disk, lfd_listen accepts connections and  *)
(* starts a worker for each until a signal has set ftp_must_exit, and      *)
(* main() then takes the kernel down while the workers may still run.      *)
(* What a worker does inside its session is FtpSession; here it is a       *)
(* thread that ends at some time.                                          *)
(***************************************************************************)
EXTENDS Integers, FiniteSets

CONSTANTS
    Conns,      \* the client connections that may arrive
    NoConn,     \* a client_sock that holds none of them
    Backlog     \* lfd_config_backlog: connections the listening socket holds

ASSUME ServerAssumption == /\ IsFiniteSet(Conns)
                           /\ NoConn \notin Conns
                           /\ Backlog \in Nat \ {0}

VARIABLES
    mustExit,   \* ftp_must_exit
    mpc,        \* where the main thread is
    polled,     \* what apr_poll has returned
    thdPool,    \* thd_pool of the listener is not NULL
    clientSock, \* client_sock of the listener, while it is the listener's
    conn,       \* where each connection is
    pools,      \* root pools made for threads that are still allocated
    kernel,     \* the LKL kernel and the disk mounted in it
    late        \* history: connections accepted after ftp_must_exit was set

vars == <<mustExit, mpc, polled, thdPool, clientSock, conn, pools, kernel,
          late>>

MainLocations == {"boot", "socket", "top", "pool", "poll", "check", "accept", "spawn",
                  "umount", "halt", "close", "exited"}

\* A "working" connection has a worker, a "served" one had one that has ended,
\* a "dropped" one is closed and never had one.
ConnStates == {"away", "waiting", "accepted", "working", "served", "dropped"}

Waiting == {c \in Conns : conn[c] = "waiting"}

TypeOK ==
    /\ mustExit \in BOOLEAN
    /\ mpc \in MainLocations
    /\ polled \in {"none", "ready", "timeup", "intr", "other", "error"}
    /\ thdPool \in BOOLEAN
    /\ clientSock \in Conns \cup {NoConn}
    /\ conn \in [Conns -> ConnStates]
    /\ pools \in 0..(Cardinality(Conns) + 1)
    /\ kernel \in {"down", "mounted", "unmounted", "halted"}
    /\ late \in Nat

Init ==
    /\ mustExit = FALSE
    /\ mpc = "boot"
    /\ polled = "none"
    /\ thdPool = FALSE
    /\ clientSock = NoConn
    /\ conn = [c \in Conns |-> "away"]
    /\ pools = 0
    /\ kernel = "down"
    /\ late = 0

Alive == mpc # "exited"

Goto(from, to) == mpc = from /\ mpc' = to

-----------------------------------------------------------------------------
(* main(): up to the listener.                                             *)

\* Slip: the results of lkl_env_init and lkl_mount_dev are not looked at.
BootAnyway ==
    /\ Goto("boot", "socket")
    /\ kernel' \in {"mounted", "down"}
    /\ UNCHANGED <<mustExit, polled, thdPool, clientSock, conn, pools, late>>

\* The kernel is up, the disk is added and mounted; or one of the steps has
\* failed, and the kernel is halted.
Boot ==
    /\ \/ Goto("boot", "socket") /\ kernel' = "mounted"
       \/ Goto("boot", "exited") /\ kernel' \in {"down", "halted"}
    /\ UNCHANGED <<mustExit, polled, thdPool, clientSock, conn, pools, late>>

\* create_listen_socket on one of the addresses, and apr_threadattr_create.
CreateListenSocket ==
    /\ Goto("socket", "top") \/ Goto("socket", "umount")
    /\ UNCHANGED <<mustExit, polled, thdPool, clientSock, conn, pools, kernel,
                   late>>

-----------------------------------------------------------------------------
(* The loop of lfd_listen.                                                 *)

\* while(1): to here the loop comes round, whatever made it.
LoopTop ==
    /\ Goto("top", "pool")
    /\ UNCHANGED <<mustExit, polled, thdPool, clientSock, conn, pools, kernel,
                   late>>

\* Slip: a pool per attempt, whatever became of the last one.
CreatePoolAnyway ==
    /\ Goto("pool", "poll")
    /\ thdPool' = TRUE
    /\ pools' = pools + 1
    /\ UNCHANGED <<mustExit, polled, clientSock, conn, kernel, late>>

\* The pool that an attempt has left over is used for the next one.
CreatePool ==
    /\ Goto("pool", "poll")
    /\ thdPool' = TRUE
    /\ pools' = IF thdPool THEN pools ELSE pools + 1
    /\ UNCHANGED <<mustExit, polled, clientSock, conn, kernel, late>>

\* apr_pool_create fails: round again, without a look at ftp_must_exit.
CreatePoolFails ==
    /\ ~thdPool
    /\ Goto("pool", "top")
    /\ UNCHANGED <<mustExit, polled, thdPool, clientSock, conn, pools, kernel,
                   late>>

\* A connection is there, the half second is over, a signal has come, an
\* event other than APR_POLLIN alone, or an error.
Poll ==
    /\ Goto("poll", "check")
    /\ \/ Waiting # {} /\ polled' = "ready"
       \/ Waiting = {} /\ polled' = "timeup"
       \/ polled' \in {"intr", "other", "error"}
    /\ UNCHANGED <<mustExit, thdPool, clientSock, conn, pools, kernel, late>>

\* Slip: the flag is looked at only when there is nothing to accept.
CheckWhenIdle ==
    /\ mpc = "check"
    /\ mpc' = IF polled = "error" THEN "umount"
              ELSE IF polled = "ready" THEN "accept"
              ELSE IF mustExit THEN "umount" ELSE "top"
    /\ polled' = "none"
    /\ UNCHANGED <<mustExit, thdPool, clientSock, conn, pools, kernel, late>>

\* After the poll: break on an error, return on ftp_must_exit, go round again
\* unless there is a connection to accept.
Check ==
    /\ mpc = "check"
    /\ mpc' = IF polled = "error" \/ mustExit THEN "umount"
              ELSE IF polled = "ready" THEN "accept" ELSE "top"
    /\ polled' = "none"
    /\ UNCHANGED <<mustExit, thdPool, clientSock, conn, pools, kernel, late>>

Accept ==
    /\ Goto("accept", "spawn")
    /\ \E c \in Waiting :
         /\ conn' = [conn EXCEPT ![c] = "accepted"]
         /\ clientSock' = c
    /\ late' = IF mustExit THEN late + 1 ELSE late
    /\ UNCHANGED <<mustExit, polled, thdPool, pools, kernel>>

\* apr_socket_accept fails, the connection may have been aborted.
AcceptFails ==
    /\ Goto("accept", "top")
    /\ \E c \in Waiting : conn' \in {conn, [conn EXCEPT ![c] = "dropped"]}
    /\ UNCHANGED <<mustExit, polled, thdPool, clientSock, pools, kernel, late>>

\* The worker gets the connection and the pool; nobody joins the thread.
CreateThread ==
    /\ Goto("spawn", "top")
    /\ conn' = [conn EXCEPT ![clientSock] = "working"]
    /\ clientSock' = NoConn
    /\ thdPool' = FALSE
    /\ UNCHANGED <<mustExit, polled, pools, kernel, late>>

\* Slip: the socket is not closed.
CreateThreadFailsLeaks ==
    /\ Goto("spawn", "top")
    /\ clientSock' = NoConn
    /\ UNCHANGED <<mustExit, polled, thdPool, conn, pools, kernel, late>>

\* apr_thread_create fails: the socket is closed, the pool kept.
CreateThreadFails ==
    /\ Goto("spawn", "top")
    /\ conn' = [conn EXCEPT ![clientSock] = "dropped"]
    /\ clientSock' = NoConn
    /\ UNCHANGED <<mustExit, polled, thdPool, pools, kernel, late>>

-----------------------------------------------------------------------------
(* main(): after the listener.                                             *)

\* The disk may be busy with the files of the workers; the result of
\* lkl_sys_umount is not looked at.
Umount ==
    /\ Goto("umount", "halt")
    /\ kernel' \in {"mounted", "unmounted"}
    /\ UNCHANGED <<mustExit, polled, thdPool, clientSock, conn, pools, late>>

Halt ==
    /\ Goto("halt", "close")
    /\ kernel' = "halted"
    /\ UNCHANGED <<mustExit, polled, thdPool, clientSock, conn, pools, late>>

\* apr_file_close and the return from main: every thread is gone.
Exit ==
    /\ Goto("close", "exited")
    /\ conn' = [c \in Conns |->
                   IF conn[c] = "working" THEN "served"
                   ELSE IF conn[c] = "waiting" THEN "dropped" ELSE conn[c]]
    /\ UNCHANGED <<mustExit, polled, thdPool, clientSock, pools, kernel, late>>

-----------------------------------------------------------------------------
(* The workers, the clients and the signals.                               *)

\* The session is over.  apr_thread_exit frees the thread's own pool, a child
\* of thd_pool; thd_pool itself is never destroyed.
WorkerEnds(c) ==
    /\ Alive /\ conn[c] = "working"
    /\ conn' = [conn EXCEPT ![c] = "served"]
    /\ UNCHANGED <<mustExit, mpc, polled, thdPool, clientSock, pools, kernel,
                   late>>

\* The listening socket takes connections from its creation to the end of the
\* process, up to its backlog.
Arrive(c) ==
    /\ mpc \notin {"boot", "socket", "exited"}
    /\ conn[c] = "away"
    /\ Cardinality(Waiting) < Backlog
    /\ conn' = [conn EXCEPT ![c] = "waiting"]
    /\ UNCHANGED <<mustExit, mpc, polled, thdPool, clientSock, pools, kernel,
                   late>>

\* sig_func.
Signal ==
    /\ Alive /\ ~mustExit
    /\ mustExit' = TRUE
    /\ UNCHANGED <<mpc, polled, thdPool, clientSock, conn, pools, kernel, late>>

Main == \/ Boot \/ CreateListenSocket
        \/ LoopTop \/ CreatePool \/ Poll \/ Check \/ Accept \/ CreateThread
        \/ Umount \/ Halt \/ Exit

Faults == CreatePoolFails \/ AcceptFails \/ CreateThreadFails

Others == \/ Signal
          \/ \E c \in Conns : WorkerEnds(c) \/ Arrive(c)

Terminated == ~Alive /\ UNCHANGED vars

Next == Main \/ Faults \/ Others \/ Terminated

Spec == Init /\ [][Next]_vars

\* The main thread runs, whatever the calls it makes return ...
ThreadSpec == Spec /\ WF_vars(Main \/ Faults)

\* ... and where the loop tries again until a pool is there, there is one at last.
FairSpec == ThreadSpec /\ SF_vars(CreatePool)

-----------------------------------------------------------------------------
(* Properties.                                                             *)

\* sig_func, main.c 32: the listener that sees the flag "will stop receiving
\* connections".  A connection that arrives on either side of the signal can
\* slip through the gap between the check and the accept, but only one.
AtMostOneLateAccept == late <= 1

\* No accepted connection is forgotten: it is in the listener's hands between
\* accept and apr_thread_create, and then a worker's, or closed.
AcceptedIsHeld ==
    \A c \in Conns : conn[c] = "accepted" <=> (mpc = "spawn" /\ clientSock = c)

HadWorker == {c \in Conns : conn[c] \in {"working", "served"}}

\* A connection is taken and given a worker only while the disk is mounted:
\* not after a failed start, and not once main() takes the kernel down.
AcceptedOnMountedDisk ==
    \A c \in Conns : conn[c] = "accepted" => kernel = "mounted"

\* The pools of the process: one for each connection that was ever given a
\* worker, and the listener's own.  A failed accept or apr_thread_create costs
\* none, and the end of a session gives none back.
PoolsAccounted == pools = Cardinality(HadWorker) + (IF thdPool THEN 1 ELSE 0)

\* What the four need to be inductive: when the listener holds a connection,
\* and a pool to accept it from; that nothing is accepted after a late accept;
\* and where main() has the disk mounted.
ListenerHolds ==
    /\ mpc = "spawn" => clientSock \in Conns
    /\ mpc \in {"poll", "check", "accept", "spawn"} => thdPool

NoMoreAfterLate == late = 0 \/ (late = 1 /\ mustExit /\ mpc # "accept")

Listening == {"socket", "top", "pool", "poll", "check", "accept", "spawn"}

MountedWhileListening == mpc \in Listening => kernel = "mounted"

ServerInv == /\ TypeOK
             /\ AcceptedIsHeld
             /\ ListenerHolds
             /\ NoMoreAfterLate
             /\ MountedWhileListening
             /\ PoolsAccounted

\* After a shutdown signal the server comes down, whatever the clients do, however
\* many connections are waiting and whichever calls fail: the flag "is periodically
\* checked by the loop that accepts client connections" (main.c 31).
ShutdownCompletes == mustExit ~> mpc = "exited"

=============================================================================
