------------------------------ MODULE FrameFeed ------------------------------
(***************************************************************************)
(* What the kart's telemetry promises of the topic gokart/1/can: frames    *)
(* that were on the bus, in the order of the bus, none of them twice.      *)
(* Frames may be missing; a frame is its place on the bus.                 *)
(***************************************************************************)
EXTENDS Naturals, Sequences

VARIABLES
    carried,    \* how many frames the bus has carried
    topic       \* the published ones, in order

Newest == IF topic = <<>> THEN 0 ELSE topic[Len(topic)]

Init == carried = 0 /\ topic = <<>>

Carry ==
    /\ carried' = carried + 1
    /\ UNCHANGED topic

Arrive ==
    /\ \E n \in Newest + 1 .. carried : topic' = Append(topic, n)
    /\ UNCHANGED carried

Spec == Init /\ [][Carry \/ Arrive]_<<carried, topic>>
==============================================================================
