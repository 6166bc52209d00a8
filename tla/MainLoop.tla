------------------------------- MODULE MainLoop -------------------------------
(***************************************************************************)
(* The scheduling of the subscriber's main thread and nothing else: how    *)
(* many messages wait, whether the timer has expired, and which of the     *)
(* three parts of the loop in main (pro_subscriber.cpp) is being executed. *)
(* Messages are anonymous, so traffic never ends: this module decides      *)
(* which of the loop's duties another one can postpone forever.            *)
(***************************************************************************)
EXTENDS Integers

CONSTANT MaxQueue   \* bound: messages waiting in a queue

VARIABLES
    canLen,     \* q.size()
    powerLen,   \* power_msg_q.size()
    update,     \* the timer has expired
    phase       \* the part of main that runs; "down": before or after the loop

vars == <<canLen, powerLen, update, phase>>

Init == canLen = 0 /\ powerLen = 0 /\ update = FALSE /\ phase = "down"

GotCan ==
    /\ canLen < MaxQueue
    /\ canLen' = canLen + 1
    /\ UNCHANGED <<powerLen, update, phase>>

GotPower ==
    /\ powerLen < MaxQueue
    /\ powerLen' = powerLen + 1
    /\ UNCHANGED <<canLen, update, phase>>

TimerExpires ==
    /\ phase # "down"
    /\ update' = TRUE
    /\ UNCHANGED <<canLen, powerLen, phase>>

EnterLoop ==
    /\ phase = "down"
    /\ phase' = "check"
    /\ UNCHANGED <<canLen, powerLen, update>>

Check ==
    /\ phase = "check"
    /\ phase' = IF update THEN "reload" ELSE "can"
    /\ UNCHANGED <<canLen, powerLen, update>>

Reloaded ==
    /\ phase = "reload"
    /\ update' = FALSE
    /\ phase' = "can"
    /\ UNCHANGED <<canLen, powerLen>>

ServeCan ==
    /\ phase = "can" /\ canLen > 0
    /\ canLen' = canLen - 1
    /\ UNCHANGED <<powerLen, update, phase>>

CanDone ==
    /\ phase = "can" /\ canLen = 0
    /\ phase' = "power"
    /\ UNCHANGED <<canLen, powerLen, update>>

ServePower ==
    /\ phase = "power" /\ powerLen > 0
    /\ powerLen' = powerLen - 1
    /\ UNCHANGED <<canLen, update, phase>>

PowerDone ==
    /\ phase = "power" /\ powerLen = 0
    /\ phase' = "check"
    /\ UNCHANGED <<canLen, powerLen, update>>

Stop ==
    /\ phase' = "down"
    /\ canLen' = 0 /\ powerLen' = 0 /\ update' = FALSE

Loop == Check \/ Reloaded \/ ServeCan \/ CanDone \/ ServePower \/ PowerDone

Next == GotCan \/ GotPower \/ TimerExpires \/ EnterLoop \/ Loop \/ Stop

Spec == Init /\ [][Next]_vars

===============================================================================
