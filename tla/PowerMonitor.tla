----------------------------- MODULE PowerMonitor -----------------------------
(***************************************************************************)
(* Power_off/lost_power.cpp on the kart: connect to the broker, report ON, *)
(* then watch the power pin.  A lost pin is reported LOST; 2.5 seconds     *)
(* later the pin is read again, and the monitor reports either RESTORED or *)
(* OFF, after which it shuts the system down.  Each report is published    *)
(* once more after a reconnection if the client refused it, and waited for *)
(* at most 10 seconds.                                                     *)
(*                                                                         *)
(* The link and the MQTT client library are modelled from how the program  *)
(* uses them: the client notices a dead link late (keepAliveInterval is    *)
(* 2000), and until then accepts publications that never arrive.           *)
(***************************************************************************)
EXTENDS Naturals, Sequences

CONSTANTS
    MaxSent,    \* bound: reports after which a halting system samples no more
    MaxFlips,   \* bound: changes of the power in a behaviour
    Events      \* the events of a run, a subset of EventKind

EventKind == {"net", "slow", "battery"}

ASSUME BoundAssumption == MaxSent \in Nat /\ MaxFlips \in Nat
ASSUME EventAssumption == Events \subseteq EventKind

VARIABLES
    power,      \* whether the kart's power is on
    flips,      \* how often it has changed
    gpio,       \* whether the pin's value file could be opened
    link,       \* the client's connection
    sent,       \* history: reports the client accepted
    inflight,   \* those not acknowledged yet, as indices of sent
    heard,      \* history: those the server received, as indices of sent
    pubmsg,     \* the report being published
    token,      \* the delivery token of the last one accepted
    pc,         \* where the program is
    halting,    \* shutdown has been asked of the system
    unsure,     \* history: a report of this boot was refused, dropped with its
                \* session, or given up while it was not acknowledged
    early       \* history: this boot asked for shutdown before it had a connection

pin == <<power, flips, gpio>>
channel == <<link, sent, inflight, heard>>
vars == <<pin, channel, pubmsg, token, pc, halting, unsure, early>>

Report == {"ON", "LOST", "OFF", "RESTORED"}

TypeOK ==
    /\ power \in BOOLEAN /\ flips \in 0..MaxFlips /\ gpio \in BOOLEAN
    /\ link \in {"none", "up", "dead", "down"}
    /\ sent \in Seq(Report)
    /\ inflight \in Seq(Nat)
    /\ heard \in Seq(Nat)
    /\ pubmsg \in Report
    /\ token \in 0..Len(sent)
    /\ pc \in {"connect", "publish", "reconnect", "republish", "wait", "sample",
               "second", "shutdown", "crashed", "off"}
    /\ halting \in BOOLEAN /\ unsure \in BOOLEAN /\ early \in BOOLEAN

Init ==
    /\ power \in BOOLEAN /\ flips = 0 /\ gpio \in BOOLEAN
    /\ link = "none"
    /\ sent = <<>> /\ inflight = <<>> /\ heard = <<>>
    /\ pubmsg = "ON" /\ token = 0
    /\ pc = "connect"
    /\ halting = FALSE /\ unsure = FALSE /\ early = FALSE

\* getValue: what cannot be read counts as power.
ReadsZero == gpio /\ ~power

(***************************************************************************)
(* The connect loop of main, which has no one to tell of the shutdown it   *)
(* asks for when the power is gone.  `shutdown -h now` returns at once:    *)
(* the program goes on until the system is down.                           *)
(***************************************************************************)
Connects ==
    /\ pc = "connect"
    /\ link' = "up"
    /\ pubmsg' = "ON" /\ pc' = "publish"
    /\ UNCHANGED <<pin, sent, inflight, heard, token, halting, unsure, early>>

\* Wrong version: the pin is not looked at before there is a connection.
ConnectFailsBlind ==
    /\ pc = "connect"
    /\ UNCHANGED vars

ConnectFails ==
    /\ pc = "connect"
    /\ halting' = (halting \/ ReadsZero)
    /\ early' = (early \/ ReadsZero)
    /\ UNCHANGED <<pin, channel, pubmsg, token, pc, unsure>>

(***************************************************************************)
(* MQTTClient_publishMessage.  A client that knows it is disconnected      *)
(* refuses; the report ON is then dropped, any other is tried once more    *)
(* after cli_reconnect.                                                    *)
(***************************************************************************)
\* Wrong version: the report is published again whatever the first try gave.
AcceptedTwice ==
    /\ pc \in {"publish", "republish"}
    /\ link \in {"up", "dead"}
    /\ sent' = Append(sent, pubmsg)
    /\ token' = Len(sent) + 1
    /\ inflight' = Append(inflight, token')
    /\ pc' = IF pc = "publish" /\ pubmsg # "ON" THEN "republish" ELSE "wait"
    /\ UNCHANGED <<pin, link, heard, pubmsg, halting, unsure, early>>

\* Wrong version: the token is one too far.
AcceptedNext ==
    /\ pc \in {"publish", "republish"}
    /\ link \in {"up", "dead"}
    /\ sent' = Append(sent, pubmsg)
    /\ token' = Len(sent) + 2
    /\ inflight' = Append(inflight, Len(sent) + 1)
    /\ pc' = "wait"
    /\ UNCHANGED <<pin, link, heard, pubmsg, halting, unsure, early>>

Accepted ==
    /\ pc \in {"publish", "republish"}
    /\ link \in {"up", "dead"}
    /\ sent' = Append(sent, pubmsg)
    /\ token' = Len(sent) + 1
    /\ inflight' = Append(inflight, Len(sent) + 1)
    /\ pc' = "wait"
    /\ UNCHANGED <<pin, link, heard, pubmsg, halting, unsure, early>>

Refused ==
    /\ pc \in {"publish", "republish"}
    /\ link = "down"
    /\ pc' = IF pc = "publish" /\ pubmsg # "ON" THEN "reconnect" ELSE "wait"
    /\ unsure' = TRUE
    /\ UNCHANGED <<pin, channel, pubmsg, token, halting, early>>

(***************************************************************************)
(* cli_reconnect hands the library the address of a handle, and the        *)
(* address of that, as handles: it either finds no client there and        *)
(* returns an error, which is printed, or follows a wild pointer.          *)
(***************************************************************************)
\* Wrong version: a connection comes back, what was in flight does not.
cli_reconnectWorks ==
    /\ pc = "reconnect"
    /\ link' = "up"
    /\ pc' = "republish"
    /\ UNCHANGED <<pin, sent, inflight, heard, pubmsg, token, halting, unsure, early>>

cli_reconnect ==
    /\ pc = "reconnect"
    /\ pc' \in {"republish", "crashed"}
    /\ UNCHANGED <<pin, channel, pubmsg, token, halting, unsure, early>>

(***************************************************************************)
(* MQTTClient_waitForCompletion: returns when the token is no longer in    *)
(* flight, when the client is disconnected, or after TIMEOUT; its result   *)
(* is not looked at.                                                       *)
(***************************************************************************)
AfterWait(m) ==
    CASE m \in {"ON", "RESTORED"} -> "sample"
      [] m = "LOST" -> "second"
      [] m = "OFF" -> "shutdown"

InFlight(t) == \E n \in 1..Len(inflight) : inflight[n] = t

\* Wrong version: the delivery is not waited for.
CompletedAtOnce ==
    /\ pc = "wait"
    /\ pc' = AfterWait(pubmsg)
    /\ UNCHANGED <<pin, channel, pubmsg, token, halting, unsure, early>>

Completed ==
    /\ pc = "wait"
    /\ ~InFlight(token) \/ link = "down"
    /\ pc' = AfterWait(pubmsg)
    /\ UNCHANGED <<pin, channel, pubmsg, token, halting, unsure, early>>

TimedOut ==
    /\ pc = "wait"
    /\ link = "dead" \/ "slow" \in Events
    /\ InFlight(token)
    /\ pc' = AfterWait(pubmsg)
    /\ unsure' = TRUE
    /\ UNCHANGED <<pin, channel, pubmsg, token, halting, early>>

(***************************************************************************)
(* check_power_pin.  Sampling a pin that is not 0 changes nothing.  The    *)
(* bound only stops a monitor whose system is already going down: the      *)
(* changes of the power bound the others.                                  *)
(***************************************************************************)
Sample ==
    /\ pc = "sample"
    /\ ReadsZero
    /\ halting => Len(sent) < MaxSent
    /\ pubmsg' = "LOST" /\ pc' = "publish"
    /\ UNCHANGED <<pin, channel, token, halting, unsure, early>>

Second ==
    /\ pc = "second"
    /\ pubmsg' = IF ReadsZero THEN "OFF" ELSE "RESTORED"
    /\ pc' = "publish"
    /\ UNCHANGED <<pin, channel, token, halting, unsure, early>>

Shutdown ==
    /\ pc = "shutdown"
    /\ halting' = TRUE
    /\ pc' = "sample"
    /\ UNCHANGED <<pin, channel, pubmsg, token, unsure, early>>

(***************************************************************************)
(* The environment: the power, the broker's acknowledgements, the link,    *)
(* the end of the system and its next boot.                                *)
(***************************************************************************)
PowerChange ==
    /\ flips < MaxFlips
    /\ power' = ~power /\ flips' = flips + 1
    /\ UNCHANGED <<gpio, channel, pubmsg, token, pc, halting, unsure, early>>

Deliver ==
    /\ link = "up" /\ inflight # <<>>
    /\ heard' = Append(heard, Head(inflight))
    /\ inflight' = Tail(inflight)
    /\ UNCHANGED <<pin, link, sent, pubmsg, token, pc, halting, unsure, early>>

LinkDies ==
    /\ "net" \in Events
    /\ link = "up" /\ link' = "dead"
    /\ UNCHANGED <<pin, sent, inflight, heard, pubmsg, token, pc, halting, unsure,
                   early>>

\* The client drops its clean session with what was in flight.
LinkNoticed ==
    /\ link = "dead" /\ link' = "down"
    /\ inflight' = <<>>
    /\ unsure' = (unsure \/ inflight # <<>>)
    /\ UNCHANGED <<pin, sent, heard, pubmsg, token, pc, halting, early>>

Halt ==
    /\ pc # "off"
    /\ halting \/ ("battery" \in Events /\ ~power)
    /\ pc' = "off" /\ link' = "none" /\ inflight' = <<>>
    /\ UNCHANGED <<pin, sent, heard, pubmsg, token, halting, unsure, early>>

Boot ==
    /\ pc = "off" /\ power
    /\ gpio' \in BOOLEAN
    /\ pubmsg' = "ON" /\ token' = 0 /\ pc' = "connect"
    /\ halting' = FALSE /\ unsure' = FALSE /\ early' = FALSE
    /\ UNCHANGED <<power, flips, channel>>

Monitor ==
    \/ ConnectFails \/ Accepted \/ Refused \/ cli_reconnect
    \/ Completed \/ TimedOut \/ Sample \/ Second \/ Shutdown

Environment == PowerChange \/ Deliver \/ LinkDies \/ LinkNoticed \/ Halt \/ Boot

Next == Connects \/ Monitor \/ Environment

Spec == Init /\ [][Next]_vars

\* The program runs, init obeys `shutdown -h now`, and a live link delivers.
FairSpec ==
    Spec /\ WF_vars(Monitor) /\ WF_vars(Halt /\ halting) /\ WF_vars(Deliver)

(***************************************************************************)
(* Properties.                                                             *)
(***************************************************************************)

(***************************************************************************)
(* The monitor and its link implement PowerReports: although a refused     *)
(* report is published again and a time-out is ignored, no report is made  *)
(* twice or out of turn, and the server misses only the end of a boot.     *)
(***************************************************************************)
Reports == INSTANCE PowerReports

ImplementsPowerReports == Reports!Spec

(***************************************************************************)
(* OFF and RESTORED reach the server right after the LOST they end, and    *)
(* nothing reaches it twice, whatever the link drops, the client refuses   *)
(* and a reboot interrupts.                                                *)
(***************************************************************************)
LossesHeardInTurn == Reports!HeardInTurn

(***************************************************************************)
(* When the shutdown has been asked, the server has been told OFF before   *)
(* the kart goes silent, except in two cases: the shutdown was asked for   *)
(* in the connect loop, which reports nothing, or a report of this boot    *)
(* was refused, dropped with its session or given up unacknowledged.       *)
(***************************************************************************)
ToldOff ==
    \E k \in 1..Len(heard) :
        /\ sent[heard[k]] = "OFF"
        /\ \A j \in heard[k]..Len(sent) : sent[j] # "ON"

SilenceExplained == halting => ToldOff \/ early \/ unsure

(***************************************************************************)
(* If the pin can be read and the program is not lost in cli_reconnect, a  *)
(* power loss that lasts ends in a system that is down, however slow the   *)
(* broker is, whatever becomes of the link, and whatever the program was   *)
(* doing when the power went.                                              *)
(***************************************************************************)
PowerLossHalts ==
    [](pc # "crashed") => (<>[](~power /\ gpio) => <>[](pc = "off"))

===============================================================================
