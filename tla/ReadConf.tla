------------------------------- MODULE ReadConf -------------------------------
(***************************************************************************)
(* read_configuration of the server and of the kart: the file server.conf  *)
(* is read once, line by line, into global variables, most of them arrays  *)
(* of characters that strcpy fills without looking at their size.  The     *)
(* kart makes its topic of the same lines.                                 *)
(*                                                                         *)
(* A text is a model value with a length.  A line is a key and what stands *)
(* behind its tab, or has no tab at all.  Keys carry the names of the      *)
(* variables they fill; a comment is a line with another key.              *)
(***************************************************************************)
EXTENDS Naturals, Sequences, FiniteSets

CONSTANTS
    Texts, LengthOf,    \* texts and their lengths
    Gokart, Power,      \* the texts "gokart/" and "/power"
    Keys, CutKey,       \* keys in the file, and each without its last character
    MaxLines            \* bound: lines in the file

ASSUME TextsAssumption ==
    /\ LengthOf \in [Texts -> Nat]
    /\ {Gokart, Power} \subseteq Texts
    /\ CutKey \in [Keys -> Texts]
    /\ LengthOf[Gokart] = 7 /\ LengthOf[Power] = 6

Room == [host |-> 100, ca_path |-> 60, cert_path |-> 60, key_path |-> 60,
         client_id |-> 60, topic |-> 50, table_name |-> 50]

Strings == {"pg_username", "pg_password", "pg_host_addr", "pg_host_port",
            "pg_database_name", "ssl_check"}

Reads == [server |-> (DOMAIN Room \ {"topic"}) \cup Strings,
          kart |-> (DOMAIN Room \ {"table_name"}) \cup {"ssl_check"}]

Line == [key : Keys, tab : {TRUE}, text : Texts] \cup [key : Keys, tab : {FALSE}]

VARIABLES
    reader,     \* the program, "server" or "kart"
    file,       \* the lines of server.conf that have been read
    value,      \* the texts each variable holds, joined
    spilled     \* arrays that were written past their end

vars == <<reader, file, value, spilled>>

Variables == DOMAIN Room \cup Strings

TypeOK ==
    /\ reader \in {"server", "kart"}
    /\ file \in Seq(Line)
    /\ value \in [Variables -> Seq(Texts)]
    /\ spilled \subseteq DOMAIN Room

Initially(r) ==
    [v \in Variables |-> IF r = "kart" /\ v = "topic" THEN <<Gokart>> ELSE <<>>]

Init ==
    /\ reader \in {"server", "kart"}
    /\ file = <<>>
    /\ value = Initially(reader)
    /\ spilled = {}

-----------------------------------------------------------------------------
\* Wrong version: a string takes what stands before the tab.
ValueBefore(l) ==
    IF l.key \in Strings THEN l.key ELSE IF l.tab THEN l.text ELSE CutKey[l.key]
(* find says -1 without a tab: the whole line is the key, and the value    *)
(* starts at 0 and is one character shorter than the line.                 *)
Value(l) == IF l.tab THEN l.text ELSE CutKey[l.key]

StrLen(parts) ==
    LET length[k \in 0..Len(parts)] ==
            IF k = 0 THEN 0 ELSE length[k - 1] + LengthOf[parts[k]]
    IN  length[Len(parts)]

(* What strcpy and strcat write, with the zero behind it.                  *)
Spills(now) == {v \in DOMAIN Room : StrLen(now[v]) + 1 > Room[v]}

\* Wrong version: an array is written once.
SetFirst(v, text) ==
    value' = IF value[v] = <<>> THEN [value EXCEPT ![v] = <<text>>] ELSE value
Set(v, text) == value' = [value EXCEPT ![v] = <<text>>]

\* Wrong version: the topic is made of the name alone.
NameKartAfresh(text) ==
    value' = [value EXCEPT !.client_id = <<text>>,
                           !.topic = <<Gokart, text, Power>>]
\* Wrong version: adds "gokart/", which the topic begins with.
NameKartTwice(text) ==
    value' = [value EXCEPT !.client_id = <<text>>,
                           !.topic = @ \o <<Gokart, text, Power>>]
NameKart(text) ==
    value' = [value EXCEPT !.client_id = <<text>>,
                           !.topic = @ \o <<text, Power>>]

Assign(l) ==
    \/ l.key \notin Reads[reader] /\ UNCHANGED value
    \/ l.key \in Reads[reader] \ {"client_id"} /\ Set(l.key, Value(l))
    \/ l.key = "client_id" /\ reader = "server" /\ Set("client_id", Value(l))
    \/ l.key = "client_id" /\ reader = "kart" /\ NameKart(Value(l))

(* The file may end after any line, and may not be there at all.  What     *)
(* happens after a write past an array's end is not defined, and not       *)
(* modelled.  remove_trailing finds no newline in what getline returned.   *)
ReadLine(l) ==
    /\ spilled = {}
    /\ Len(file) < MaxLines
    /\ file' = Append(file, l)
    /\ Assign(l)
    /\ spilled' = Spills(value')
    /\ UNCHANGED reader

Next == \E l \in Line : ReadLine(l)

Spec == Init /\ [][Next]_vars

-----------------------------------------------------------------------------
Lines == {k \in DOMAIN file : file[k].key \in Reads[reader]}
LinesOf(v) == {k \in Lines : file[k].key = v}
LastOf(v) == CHOOSE k \in LinesOf(v) : \A j \in LinesOf(v) : j <= k

(* Every variable but the kart's topic holds what the last line of its key *)
(* says, and nothing when no line names it or there is no file.            *)
LastLineCounts ==
    \A v \in Variables \ {"topic"} :
        value[v] = IF LinesOf(v) = {} THEN <<>> ELSE <<Value(file[LastOf(v)])>>

(* The kart's reports go to gokart/<name>/power when the file names it     *)
(* once.  A topic line replaces all of that when it comes after the name;  *)
(* when it comes before, the name and "/power" are added to it.            *)
TopicNamesKart ==
    reader = "kart" /\ Cardinality(LinesOf("client_id")) = 1 =>
        LET name == LastOf("client_id")
            start == IF LinesOf("topic") = {} THEN Gokart
                     ELSE Value(file[LastOf("topic")])
        IN  value["topic"] =
                IF LinesOf("topic") # {} /\ LastOf("topic") > name
                THEN <<start>> ELSE <<start, Value(file[name]), Power>>

(* A configuration as the example file has it, with no topic, one name and *)
(* values that fit their own arrays, is written past the end of an array   *)
(* in one case only: the name is longer than 36 characters.  client_id     *)
(* takes up to 59, but "gokart/", the name, "/power" and the zero then     *)
(* need more than the 50 characters of the topic.                          *)
Fits(l) ==
    l.key \in DOMAIN Room => LengthOf[Value(l)] < Room[l.key]
UsualFile ==
    /\ \A k \in Lines : Fits(file[k])
    /\ reader = "kart" =>
          LinesOf("topic") = {} /\ Cardinality(LinesOf("client_id")) <= 1
LongName ==
    /\ reader = "kart"
    /\ \E k \in LinesOf("client_id") : LengthOf[Value(file[k])] > 36
StaysInside == UsualFile => spilled = IF LongName THEN {"topic"} ELSE {}

===============================================================================
