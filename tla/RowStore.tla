------------------------------- MODULE RowStore -------------------------------
(***************************************************************************)
(* What the subscriber promises to a reader of api.gokarts, with no        *)
(* queues, no threads and no conversion: messages are received, and each   *)
(* row that appears belongs to one of them, carries the name of the kart   *)
(* that sent it, and appears in the order of arrival of its topic, once.   *)
(* A row's value was taken from its own message or from earlier ones,      *)
(* never from one that came later.                                         *)
(***************************************************************************)
EXTENDS Naturals, Sequences

VARIABLES mail, table

vars == <<mail, table>>

Init == mail = <<>> /\ table = <<>>

Topic(row) == mail[row.src].topic

Before(r, s) == r.src < s.src \/ (r.src = s.src /\ r.i < s.i)

Admissible(row) ==
    /\ row.src \in 1..Len(mail)
    /\ row.gokart = mail[row.src].kart
    /\ \A v \in row.value : v <= row.src
    /\ \A n \in 1..Len(table) :
          Topic(table[n]) = Topic(row) => Before(table[n], row)

\* The new element of a log that has grown by one.
New(log) == log[Len(log)]

Receive ==
    /\ Len(mail') = Len(mail) + 1
    /\ mail' = Append(mail, New(mail'))
    /\ UNCHANGED table

Write ==
    /\ Len(table') = Len(table) + 1
    /\ table' = Append(table, New(table'))
    /\ Admissible(New(table'))
    /\ UNCHANGED mail

Next == Receive \/ Write

Spec == Init /\ [][Next]_vars

(***************************************************************************)
(* The rows of one topic are in the order its messages arrived in, and no  *)
(* signal of a message is stored twice (Before is irreflexive).            *)
(***************************************************************************)
ArrivalOrder ==
    \A n \in 1..Len(table) : \A m \in 1..n - 1 :
        Topic(table[m]) = Topic(table[n]) => Before(table[m], table[n])

===============================================================================
