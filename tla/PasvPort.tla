------------------------------ MODULE PasvPort ------------------------------
(***************************************************************************)
(* bind_to_random_passive_port (connection.c 35): how PASV comes by its    *)
(* port.  Ports are words of apr_port_t; two random bytes are scaled to the*)
(* configured interval.  Every try may make a socket, and a try that fails *)
(* leaves it to the pool of the session.                                   *)
(***************************************************************************)
EXTENDS Naturals

CONSTANTS Top,       \* the largest apr_port_t, 65535
          Reserved,  \* the first port that is free for all, 1024
          MinPasv, MaxPasv,  \* lfd_config_min_pasv_port, lfd_config_max_pasv_port
          Retries    \* lfd_config_max_sockets_to_try_to_bind

ASSUME PasvPortAssumption ==
    /\ Top \in Nat /\ Reserved \in 1..Top /\ Retries \in 1..Top
    /\ MinPasv \in 0..Top /\ MaxPasv \in 1..Top
    /\ Reserved <= MaxPasv /\ MinPasv <= MaxPasv

VARIABLES
    bind_retries,  \* counted down
    rand,          \* the random word of the last try
    port,          \* what it became
    held,          \* sockets that the pool of the session holds
    state          \* "ready", "trying", "bound" or "failed"

portVars == <<bind_retries, rand, port, held, state>>

\* The clamps of lines 38 and 39: 1023 is let through, and the second one looks
\* at the wrong end.
MinPort == IF MinPasv + 1 < Reserved THEN Reserved ELSE MinPasv
MaxPort == IF MinPasv > Top THEN Top ELSE MaxPasv

PortInit == /\ bind_retries = Retries /\ rand = 0 /\ port = 0
            /\ held = 0 /\ state = "ready"

HandlePasv == /\ state = "ready"
              /\ state' = "trying"
              /\ UNCHANGED <<bind_retries, rand, port, held>>

\* Slip: the interval is taken to begin at 0.
ScaledFromZero(r) == (((MaxPort + 1) * r) \div MaxPort + MinPort) % (Top + 1)

\* Line 57, cut to a word.
Scaled(r) == (((MaxPort - MinPort + 1) * r) \div MaxPort + MinPort) % (Top + 1)

\* The test of the while; the last try is never made.
CountDown == bind_retries' = (bind_retries + Top) % (Top + 1)

Try(r) ==
    /\ state = "trying" /\ bind_retries # 1
    /\ CountDown
    /\ \/ UNCHANGED <<rand, port, held, state>>      \* no random bytes
       \/ /\ rand' = r /\ port' = Scaled(r)
          /\ \/ UNCHANGED <<held, state>>            \* no address, no socket
             \/ held' = held + 1 /\ UNCHANGED state  \* SO_REUSEADDR or bind fails
             \/ held' = held + 1 /\ state' = "bound"

GiveUp == /\ state = "trying" /\ bind_retries = 1
          /\ CountDown
          /\ state' = "failed"
          /\ UNCHANGED <<rand, port, held>>

PortDone == state \in {"bound", "failed"} /\ UNCHANGED portVars

PortNext == HandlePasv \/ (\E r \in 0..Top : Try(r)) \/ GiveUp \/ PortDone

PortSpec == PortInit /\ [][PortNext]_portVars

-----------------------------------------------------------------------------
\* The port that PASV binds and tells lies in the configured interval ("scale it
\* to fit the interval", connection.c 56) while the random word is below the upper
\* end; for 65535, and for every word above a lower upper end, it need not.  And one
\* PASV leaves no more sockets behind than tries are allowed.
PortInInterval ==
    /\ state = "bound" /\ rand < MaxPort => port \in MinPort..MaxPort
    /\ held < Retries
=============================================================================
