----------------------------- MODULE PowerReports -----------------------------
(***************************************************************************)
(* What the server may be told about a kart's power, with no pin, no link  *)
(* and no client library: each boot says ON, then LOST and RESTORED or OFF *)
(* in turn.  The server hears each report at most once and in order, and   *)
(* what it misses of a boot is the end of it, never something in between.  *)
(***************************************************************************)
EXTENDS Naturals, Sequences

VARIABLES
    sent,       \* the reports made, oldest first
    heard       \* those the server has received, as indices of sent

vars == <<sent, heard>>

Report == {"ON", "LOST", "OFF", "RESTORED"}

Last(log) == log[Len(log)]

\* Whether report m may come after the reports of log.
MayFollow(log, m) ==
    CASE m = "ON" -> TRUE
      [] m = "LOST" -> log # <<>> /\ Last(log) # "LOST"
      [] m \in {"OFF", "RESTORED"} -> log # <<>> /\ Last(log) = "LOST"

LastHeard(log) == IF log = <<>> THEN 0 ELSE Last(log)

Init == sent = <<>> /\ heard = <<>>

Say(m) ==
    /\ MayFollow(sent, m)
    /\ sent' = Append(sent, m)
    /\ UNCHANGED heard

Hear(k) ==
    /\ k > LastHeard(heard)
    /\ k = LastHeard(heard) + 1 \/ sent[k] = "ON"
    /\ heard' = Append(heard, k)
    /\ UNCHANGED sent

Next ==
    \/ \E m \in Report : Say(m)
    \/ \E k \in 1..Len(sent) : Hear(k)

Spec == Init /\ [][Next]_vars

(***************************************************************************)
(* The server never hears how a power loss ended without having heard,     *)
(* just before, that it began; and it hears no report twice.               *)
(***************************************************************************)
HeardInTurn ==
    /\ \A k \in 1..Len(heard) : \A j \in 1..k - 1 : heard[j] < heard[k]
    /\ \A k \in 1..Len(heard) :
          sent[heard[k]] \in {"OFF", "RESTORED"} =>
             k > 1 /\ heard[k - 1] = heard[k] - 1 /\ sent[heard[k - 1]] = "LOST"

===============================================================================
