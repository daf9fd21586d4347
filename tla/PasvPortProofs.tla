--------------------------- MODULE PasvPortProofs ---------------------------
(***************************************************************************)
(* The port of PASV, for every width of a port, every configured interval  *)
(* and every number of tries.                                              *)
(***************************************************************************)
EXTENDS PasvPort, TLAPS

\* Division rounds down.
LEMMA DivBelow ==
    ASSUME NEW m \in Nat \ {0}, NEW a \in Nat, NEW x \in Nat, x < a * m
    PROVE  x \div m \in Nat /\ x \div m < a
OBVIOUS

\* The clamped interval is one, and lies among the ports.
LEMMA Interval ==
    /\ MinPort \in Nat /\ MaxPort \in Nat \ {0}
    /\ MinPort <= MaxPort /\ MaxPort <= Top
BY PasvPortAssumption DEF MinPort, MaxPort

\* A word below the upper end is scaled into the interval.
LEMMA ScaledInInterval ==
    ASSUME NEW r \in Nat, r < MaxPort
    PROVE  Scaled(r) \in MinPort..MaxPort
<1> DEFINE width == MaxPort - MinPort + 1
<1>1. width \in Nat \ {0} /\ MaxPort \in Nat \ {0}  BY Interval
<1>2. width * r \in Nat /\ width * r < width * MaxPort
  <2> HIDE DEF width
  <2> QED  BY <1>1
<1>3. /\ (width * r) \div MaxPort \in Nat
      /\ (width * r) \div MaxPort < width
  <2> HIDE DEF width
  <2> QED  BY <1>1, <1>2, DivBelow
<1> DEFINE sum == (width * r) \div MaxPort + MinPort
<1>4. sum \in MinPort..MaxPort
  <2> DEFINE quotient == (width * r) \div MaxPort
  <2>1. quotient \in Nat /\ quotient < MaxPort - MinPort + 1  BY <1>3
  <2> HIDE DEF quotient
  <2> QED  BY <2>1, Interval
<1>5. sum % (Top + 1) = sum
  <2>1. sum \in Nat /\ sum <= Top /\ Top \in Nat
    BY <1>4, Interval, PasvPortAssumption
  <2> HIDE DEF sum
  <2> QED  BY <2>1
<1> QED  BY <1>4, <1>5 DEF Scaled

\* Every try that leaves a socket behind has been counted.
Tries ==
    /\ bind_retries \in Nat /\ held \in Nat /\ rand \in Nat
    /\ state \in {"ready", "trying", "bound", "failed"}
    /\ state \in {"ready", "trying"} => bind_retries >= 1
    /\ held + bind_retries <= Retries
    /\ state = "failed" => held < Retries
    /\ state # "failed" => bind_retries >= 1
    /\ state = "bound" => port = Scaled(rand)

LEMMA TriesInit == PortInit => Tries
BY PasvPortAssumption DEF PortInit, Tries

LEMMA Counted ==
    ASSUME bind_retries \in 1..Top, CountDown
    PROVE  bind_retries' = bind_retries - 1
<1> DEFINE n == bind_retries - 1
<1>1. /\ n \in Nat /\ n < Top + 1 /\ Top + 1 \in Nat
      /\ bind_retries + Top = n + (Top + 1)
  BY PasvPortAssumption
<1>2. (n + (Top + 1)) % (Top + 1) = n
  <2> HIDE DEF n
  <2> QED  BY <1>1
<1> QED  BY <1>1, <1>2 DEF CountDown

LEMMA TriesStep == Tries /\ [PortNext]_portVars => Tries'
<1> SUFFICES ASSUME Tries, [PortNext]_portVars PROVE Tries'  OBVIOUS
<1> USE DEF Tries
<1>1. Retries \in 1..Top /\ Top \in Nat  BY PasvPortAssumption
<1>2. CASE HandlePasv  BY <1>2 DEF HandlePasv
<1>3. ASSUME NEW r \in 0..Top, Try(r) PROVE Tries'
  <2>1. bind_retries \in 1..Top /\ bind_retries # 1
    BY <1>1, <1>3 DEF Try
  <2>2. bind_retries' = bind_retries - 1  BY <1>3, <2>1, Counted DEF Try
  <2>3. /\ held' = held \/ held' = held + 1
        /\ rand' \in Nat
        /\ state' \in {"trying", "bound"}
        /\ state' = "bound" => port' = Scaled(rand')
    BY <1>1, <1>3 DEF Try
  <2> QED  BY <1>1, <2>1, <2>2, <2>3
<1>4. CASE GiveUp
  <2>1. bind_retries' = 0  BY <1>1, <1>4, Counted DEF GiveUp
  <2> QED  BY <1>1, <1>4, <2>1 DEF GiveUp
<1>5. CASE PortDone \/ UNCHANGED portVars  BY <1>5 DEF PortDone, portVars
<1> QED  BY <1>2, <1>3, <1>4, <1>5 DEF PortNext

\* connection.c 35-80: the port that is bound lies in the configured interval if
\* the random word is below its upper end, and fewer sockets are left behind
\* than tries are allowed.
THEOREM PortInIntervalAlways == PortSpec => []PortInInterval
<1>1. Tries => PortInInterval
  <2> SUFFICES ASSUME Tries PROVE PortInInterval  OBVIOUS
  <2>1. held < Retries  BY PasvPortAssumption DEF Tries
  <2>2. ASSUME state = "bound", rand < MaxPort PROVE port \in MinPort..MaxPort
    BY <2>2, ScaledInInterval DEF Tries
  <2> QED  BY <2>1, <2>2 DEF PortInInterval
<1> QED  BY <1>1, TriesInit, TriesStep, PTL DEF PortSpec

=============================================================================
