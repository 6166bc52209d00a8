------------------------------ MODULE Telemetry ------------------------------
(***************************************************************************)
(* The telemetry of a kart: CANsniff.py hears the frames of the CAN bus    *)
(* and publishes them; the connection program keeps up the link that the   *)
(* publishing needs.  The two are separate services that share the link.   *)
(* The bus carries frames of the GPS parser (GpsParser) and of the kart;   *)
(* the subscriber that gets the topic is modelled in Subscriber.           *)
(***************************************************************************)
EXTENDS Connection, CanSniffer

CONSTANTS
    MaxFrames,      \* bound: frames on the bus
    MaxFaults       \* bound: faults of the surroundings

ASSUME BoundsAssumption == MaxFrames \in Nat /\ MaxFaults \in Nat

VARIABLES
    can,        \* the CAN interface is up
    carried,    \* frames the bus has carried
    faults

vars == <<connection, sniffer, can, carried, faults>>

TypeOK ==
    /\ ConnectionTypeOK /\ SnifferTypeOK
    /\ can \in BOOLEAN
    /\ carried \in Nat /\ faults \in Nat

Init ==
    /\ ConnectionInit /\ SnifferInit
    /\ can \in BOOLEAN /\ carried = 0 /\ faults = 0

-----------------------------------------------------------------------------
Connecting ==
    /\ ConnectionRuns
    /\ UNCHANGED <<sniffer, can, carried, faults>>

Sniffer ==
    /\ \/ Check \/ Close \/ DialOk(link) \/ DialFails(link) \/ LoopStart
       \/ OpenBus(can) \/ Recv \/ BusFails(can) \/ RestartSniffer
    /\ UNCHANGED <<connection, can, carried, faults>>

Library ==
    /\ Connack(FALSE) \/ Disconnected \/ Reconnect(link) \/ SendPacket
    /\ UNCHANGED <<connection, can, carried, faults>>

(* Another node of the bus sends a frame. *)
Carry ==
    /\ can /\ carried < MaxFrames
    /\ carried' = carried + 1
    /\ Hear(carried')
    /\ UNCHANGED <<connection, can, faults>>

(* What the surroundings do: mends are free, faults are counted. *)
Mend ==
    /\ \/ ~can /\ can' = TRUE /\ UNCHANGED connection
       \/ CoverageFound /\ UNCHANGED can
    /\ UNCHANGED <<sniffer, carried, faults>>

Fault ==
    /\ faults < MaxFaults
    /\ faults' = faults + 1
    /\ \/ can /\ can' = FALSE /\ UNCHANGED <<connection, sniffer>>
       \/ PollTimesOut /\ UNCHANGED <<can, sniffer>>
       \/ (CoverageLost \/ HangUp) /\ LinkLost /\ UNCHANGED can
       \/ (Crash \/ Connack(TRUE)) /\ UNCHANGED <<can, connection>>
    /\ UNCHANGED carried

Next == Connecting \/ Sniffer \/ Library \/ Carry \/ Mend \/ Fault

Spec == Init /\ [][Next]_vars

(* The threads run on when they can, systemd's restarts among their steps. *)
(* Nothing is assumed of the surroundings.                                 *)
FairSpec ==
    /\ Spec
    /\ WF_vars(Connecting) /\ WF_vars(Sniffer) /\ WF_vars(Library)

-----------------------------------------------------------------------------
(* The topic carries frames of the bus in their order, none twice, however *)
(* often the client is restarted, its socket replaced and the link lost.   *)
Feed == INSTANCE FrameFeed
ImplementsFrameFeed == Feed!Spec

InFlight(n) == \E q \in {rx, outbox} : \E k \in DOMAIN q : q[k] = n
Arrived(n) == \E k \in DOMAIN topic : topic[k] = n
Online == spc = "recv" /\ sock = "session"

(* A frame the client has heard reaches the broker, unless the session or  *)
(* the client was lost on the way: no frame stays in a buffer.             *)
FramesArrive ==
    \A n \in 1 .. MaxFrames : InFlight(n) ~> Arrived(n) \/ ~Online

(* With coverage, a client that has got past its start-up is online again  *)
(* in the end, and the LED says so: the polling program notices the broken *)
(* link and ends, is started again and dials; the library reconnects.      *)
BackOnline ==
    <>[](coverage /\ spc = "recv") => <>[](link /\ led /\ sock = "session")

==============================================================================
