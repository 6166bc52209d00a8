-------------------------- MODULE SubscriberInvariant --------------------------
(***************************************************************************)
(* The inductive invariant behind the safety properties of Subscriber.     *)
(***************************************************************************)
EXTENDS Subscriber

MailOK == mail \in Seq(Traffic)

\* A queue holds messages of its topic, each once, in the order of arrival.
QueueOK(queue, log, topic) ==
    /\ \A k \in 1..Len(queue) :
          queue[k] \in 1..Len(log) /\ log[queue[k]].topic = topic
    /\ \A j, k \in 1..Len(queue) : j < k => queue[j] < queue[k]

QueuesOK ==
    /\ QueueOK(q, mail, "can") /\ QueueOK(power_msg_q, mail, "power")
    /\ Len(q) + Len(power_msg_q) <= Len(mail)
    /\ pc = "insert" => q # <<>>

\* The block holds the lines of one version of the file, as far as it
\* reaches, and behind them nothing but lines of earlier ones.
BlockOK ==
    /\ \E d \in Dbc : \A s \in 1..Len(d) : s <= id_count => dbc_array[s] = d[s]
    /\ \A s \in 1..id_count : dbc_array[s] \in Entries \cup {NoEntry}

(***************************************************************************)
(* What is given back, and by whom.  Main frees the entries for a reload   *)
(* only; the handler frees them when no reload is under way, and main then *)
(* never begins one, because freeing them again would end the process.     *)
(***************************************************************************)
FreedOK ==
    /\ ~allocated => pc \in {"reload", "exited"} \/ HandlerFreed
    /\ pc = "reload" \/ HandlerFreed => ~allocated
    /\ pc = "reload" => ~HandlerFreed
    /\ conn = "finished" => handler = "exit"
    /\ pc = "exited" => handler = "idle"

\* No byte in memory is newer than the message main is working on.
Older(v) ==
    /\ v <= Len(mail)
    /\ q # <<>> => IF pc = "insert" THEN v <= Head(q) ELSE v < Head(q)

MemoryOK ==
    /\ \A b \in Cell : Older(data_frame.data[b])
    /\ \A x \in Signal : \A v \in conv_data.conv[x].value : Older(v)

\* The container holds what frame f of message n gave.
ConvertedFrom(container, f, n) ==
    /\ \E e \in Entries : e.id = f.id /\ container.size = e.count
    /\ \A x \in Signal :
          x <= container.size =>
            /\ container.conv[x].signal = [id |-> f.id, x |-> x]
            /\ Whole(f, x) => container.conv[x].value = {n}

\* What conv_data holds while the rows of the front message are stored.
ConversionOK ==
    pc = "insert" =>
      LET n == Head(q)
          f == mail[n].frame
      IN  /\ conv_data.gokart = mail[n].kart
          /\ f.id # None /\ matched => ConvertedFrom(conv_data, f, n)
          /\ ~matched /\ ~HandlerFreed => ~Described(f)
          /\ ~matched => \A x \in Signal : \A v \in conv_data.conv[x].value : v < n

\* The rows of a topic are older than every message that still waits.
RowOK(row) ==
    /\ row.src \in 1..Len(mail)
    /\ row.gokart = mail[row.src].kart
    /\ row.kind = "power" <=> mail[row.src].topic = "power"
    /\ mail[row.src].topic = "can" /\ q # <<>> =>
          \/ row.src < Head(q)
          \/ pc = "insert" /\ row.src = Head(q) /\ row.i < i
    /\ mail[row.src].topic = "power" /\ power_msg_q # <<>> =>
          row.src < Head(power_msg_q)

TableOK == \A n \in 1..Len(table) : RowOK(table[n])

\* How far the loop over the signals of a described frame has come, and
\* that the table has their rows while the database answers.
StoredSoFar ==
    IF IsPosition THEN (IF i = 1 THEN {} ELSE {1}) ELSE 1..(i - 1)

StoredOK ==
    pc = "insert" /\ matched =>
      /\ conv_data.size \in 1..MaxSignal
      /\ \A x \in 1..conv_data.size : conv_data.conv[x].signal # Junk
      /\ IF IsPosition THEN i \in {1, MaxSignal + 2} ELSE i <= conv_data.size + 1
      /\ conn = "ok" => StoredParts(Head(q)) = StoredSoFar

\* Nothing is missing before the process has a database, or while it answers
\* and the handler has not freed the entries;
\* a dead process has left nothing to the next one, and receives nothing.
KeptOK ==
    /\ (conn = "ok" \/ pc \in {"connect", "db", "exited"}) /\ ~HandlerFreed =>
          \A n \in born + 1 .. Len(mail) : Kept(n)
    /\ pc = "exited" => born = Len(mail) /\ ~session

\* A size that is too large is that of the start: no described frame of this
\* process has been converted.
SizeOK ==
    conv_data.size > MaxSignal /\ ~HandlerFreed =>
        \A n \in born + 1 .. Len(mail) :
            mail[n].topic = "can" /\ Begun(n) => ~Described(mail[n].frame)

IInv ==
    /\ TypeOK
    /\ MailOK
    /\ QueuesOK
    /\ BlockOK
    /\ FreedOK
    /\ MemoryOK
    /\ ConversionOK
    /\ TableOK
    /\ Provenance
    /\ StoredOK
    /\ KeptOK
    /\ SizeOK
===============================================================================
