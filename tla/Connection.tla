------------------------------ MODULE Connection ------------------------------
(***************************************************************************)
(* The 3G connection of the kart: a service that runs NET_CONNECT once,    *)
(* asks a web site every 10 seconds whether there is internet, shows the   *)
(* answer on a LED and ends when there is none; systemd starts it again.   *)
(* sakis3g, which NET_CONNECT calls, is external: it gets a link where     *)
(* there is coverage, and leaves one alone that is there.                  *)
(***************************************************************************)
EXTENDS Naturals

VARIABLES
    cpc,        \* "dial", "poll" (every 10 seconds) or "exited"
    link,       \* packets reach the internet
    led,        \* gpio65
    coverage    \* the modem can get a link

connection == <<cpc, link, led, coverage>>

ConnectionTypeOK ==
    /\ cpc \in {"dial", "poll", "exited"}
    /\ link \in BOOLEAN /\ led \in BOOLEAN /\ coverage \in BOOLEAN

ConnectionInit ==
    /\ cpc = "dial" /\ link = FALSE /\ led = FALSE
    /\ coverage \in BOOLEAN

(* NET_CONNECT; its exit status is not looked at.                          *)
Dial ==
    /\ cpc = "dial"
    /\ link' = (link \/ coverage)
    /\ cpc' = "poll"
    /\ UNCHANGED <<led, coverage>>

\* Wrong version: without internet the program keeps asking.
PollForEver ==
    /\ cpc = "poll"
    /\ led' = link
    /\ UNCHANGED <<cpc, link, coverage>>

(* have_internet, when the request tells the truth *)
Poll ==
    /\ cpc = "poll"
    /\ cpc' = IF link THEN "poll" ELSE "exited"
    /\ led' = link
    /\ UNCHANGED <<link, coverage>>

(* and when it times out although there is a link. *)
PollTimesOut ==
    /\ cpc = "poll" /\ link
    /\ cpc' = "exited"
    /\ led' = FALSE
    /\ UNCHANGED <<link, coverage>>

RestartConnection ==
    /\ cpc = "exited"
    /\ cpc' = "dial"
    /\ UNCHANGED <<link, led, coverage>>

ConnectionRuns == Dial \/ Poll \/ RestartConnection

(* The kart drives out of coverage and into it, or the modem hangs up.     *)
CoverageLost ==
    /\ coverage
    /\ coverage' = FALSE /\ link' = FALSE
    /\ UNCHANGED <<cpc, led>>

CoverageFound ==
    /\ ~coverage
    /\ coverage' = TRUE
    /\ UNCHANGED <<cpc, link, led>>

HangUp ==
    /\ link
    /\ link' = FALSE
    /\ UNCHANGED <<cpc, led, coverage>>

===============================================================================
