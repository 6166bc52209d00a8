------------------------------- MODULE FrameLog -------------------------------
(***************************************************************************)
(* What the hand-over through can_data.csv promises: frames are converted  *)
(* in the order in which they were received.  Some are skipped, the last   *)
(* one may be converted again, and before the first one the converter may  *)
(* convert what its memory held, which is number 0 here.                   *)
(***************************************************************************)
EXTENDS Naturals, Sequences

VARIABLES received,     \* how many frames have been read from the bus
          converted     \* the frames converted, in order

LastConverted == IF converted = <<>> THEN 0 ELSE converted[Len(converted)]

Init == received = 0 /\ converted = <<>>

(* One frame from the bus, or the lines of a file put in place by hand. *)
Receive ==
    /\ received' \in Nat /\ received' > received
    /\ UNCHANGED converted

Convert ==
    /\ \E f \in LastConverted .. received : converted' = Append(converted, f)
    /\ UNCHANGED received

Spec == Init /\ [][Receive \/ Convert]_<<received, converted>>
===============================================================================
