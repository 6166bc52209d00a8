------------------------------ MODULE Subscriber ------------------------------
(***************************************************************************)
(* The server's subscriber process (Server_subscriber/source):             *)
(*                                                                         *)
(*   - the MQTT client's own thread runs got_mail, which parses a topic    *)
(*     "gokart/<kart>/can" or "gokart/<kart>/power" and pushes the         *)
(*     message on one of two queues;                                       *)
(*   - the main thread drains the queues, converts CAN frames with the     *)
(*     entries of DBC.csv and inserts rows in the table api.gokarts;       *)
(*   - a timer signal asks for a reload of DBC.csv;                        *)
(*   - SIGINT runs handler on whichever thread the kernel picks.           *)
(*                                                                         *)
(* Data is abstracted to its provenance: accepted messages are numbered, a *)
(* byte carries the number of the message it was taken from (0: memory     *)
(* nobody has written), and a converted value the numbers of the messages  *)
(* whose bytes it was made of.                                             *)
(***************************************************************************)
EXTENDS Naturals, Sequences

CONSTANTS
    Kart,       \* names of gokarts, the <kart> of a topic
    CanId,      \* CAN identifiers
    PosId,      \* 450 = 0x1C2, the identifier of position frames
    None,       \* not an identifier: unparsable or uninitialized
    MaxSignal,  \* MAX_SIGNAL_IN_ID
    MaxByte,    \* bytes of can_data.data
    Dbc,        \* the contents of DBC.csv, as the slots its lines fill
    Traffic,    \* the messages that may be published on accepted topics
    MaxMail,    \* bound: messages accepted in a behaviour
    Events      \* the environment events of a run, a subset of EventKind

Signal == 1..MaxSignal
Byte == 0..MaxByte - 1
Cell == 0..MaxByte      \* data, and the memory behind its last byte
Frame == [id : CanId \cup {None}, len : 0..MaxByte]
Message == [kart : Kart, topic : {"can", "power"}, frame : Frame]
EventKind == {"edit", "db", "session", "sigint", "kill"}

\* A slot of dbc_array: the bytes start..stop of data hold a signal.
Slot == [id : CanId \cup {None}, count : 0..MaxSignal, big : BOOLEAN,
         start : [Signal -> Byte], stop : [Signal -> Byte]]

(***************************************************************************)
(* What no frame matches: a slot nobody wrote, the closing "EOF" line (its *)
(* E is read as an identifier) and an entry of three signals, which loses  *)
(* its identifier.  How a slot comes to be one of these is DbcLoader; a    *)
(* final newline, which makes the loop read the last line twice, is a      *)
(* repeated line of Dbc.                                                   *)
(***************************************************************************)
NoEntry == [id |-> None, count |-> 0, big |-> TRUE,
            start |-> [x \in Signal |-> 0], stop |-> [x \in Signal |-> 0]]

ASSUME SignalAssumption == MaxSignal \in Nat \ {0} /\ MaxByte \in Nat \ {0}
ASSUME IdAssumption == PosId \in CanId /\ None \notin CanId
ASSUME DbcAssumption ==
    \A d \in Dbc : /\ d \in Seq(Slot)
                   /\ \A s \in 1..Len(d) : d[s].id # None => d[s].count > 0
ASSUME TrafficAssumption == Traffic \subseteq Message
ASSUME BoundAssumption == MaxMail \in Nat
ASSUME EventAssumption == Events \subseteq EventKind

VARIABLES
    mail,           \* history: every message got_mail accepted
    born,           \* history: how many of them earlier processes accepted
    q,              \* CAN messages not yet popped, as indices of mail
    power_msg_q,    \* power messages not yet popped, as indices of mail
    update,         \* set by the timer's signal handler
    dbc_file,       \* DBC.csv as it is on disk
    id_count,       \* its lines when the process started, the size of the block
    dbc_array,      \* the slots of the block
    allocated,      \* whether dbc_array points to a live block
    data_frame,     \* main's struct can_data
    conv_data,      \* main's struct converted_data_container
    matched,        \* history: the last convert_can_data found the identifier
    i,              \* the loop index over conv_data.conv
    table,          \* api.gokarts, in the order of its SERIAL id
    pc,             \* where the main thread is
    session,        \* whether the broker delivers to this process
    conn,           \* the PostgreSQL connection
    handler,        \* where the SIGINT handler is
    handlerThread   \* the thread it interrupted

intake == <<mail, born, q, power_msg_q>>
dbc == <<dbc_file, id_count, dbc_array, allocated>>
conversion == <<data_frame, conv_data, matched, i>>
links == <<session, conn>>
shutdown == <<handler, handlerThread>>
vars == <<intake, update, dbc, conversion, table, pc, links, shutdown>>

\* A signal text of conv_data: the x-th signal of an identifier, or junk.
SignalName == [id : CanId \cup {None}, x : 0..MaxSignal]
Junk == [id |-> None, x |-> 0]
Converted == [signal : SignalName, value : SUBSET Nat]

CanData == [can_id : CanId \cup {None}, data : [Cell -> Nat]]

Container == [gokart : Kart \cup {None}, size : 0..MaxSignal + 1,
              can_id : {PosId, None}, conv : [Signal -> Converted]]

Row == [src : Nat, i : Nat, kind : {"value", "gps", "power"},
        gokart : Kart \cup {None}, signal : SignalName, value : SUBSET Nat,
        matched : BOOLEAN]

IntakeType ==
    /\ mail \in Seq(Message) /\ born \in Nat
    /\ q \in Seq(Nat) /\ power_msg_q \in Seq(Nat)

DbcType ==
    /\ dbc_file \in Dbc /\ id_count \in Nat
    /\ dbc_array \in [1..id_count -> Slot]
    /\ allocated \in BOOLEAN

ConversionType ==
    /\ data_frame \in CanData
    /\ conv_data \in Container
    /\ matched \in BOOLEAN
    /\ i \in 1..MaxSignal + 2

TableType == table \in Seq(Row)

ControlType ==
    /\ update \in BOOLEAN
    /\ pc \in {"connect", "db", "check", "reload", "clear", "can", "insert",
               "power", "exited"}
    /\ session \in BOOLEAN
    /\ conn \in {"none", "ok", "bad", "finished"}
    /\ handler \in {"idle", "disconnect", "free", "finish", "exit"}
    /\ handlerThread \in {"main", "mqtt"}

TypeOK == IntakeType /\ DbcType /\ ConversionType /\ TableType /\ ControlType

(***************************************************************************)
(* Start.  main's locals are uninitialized: data_frame.can_id may happen   *)
(* to be any identifier, conv_data.size any number (MaxSignal + 1 stands   *)
(* for every one that is too large).  conv_data.can_id is assigned nowhere *)
(* in the program, so what the stack held decides main's position test     *)
(* once and for all.                                                       *)
(***************************************************************************)
UninitializedFrame ==
    [can_id : CanId \cup {None}, data : {[b \in Cell |-> 0]}]

UninitializedContainer ==
    [gokart : {None}, size : 0..MaxSignal + 1, can_id : {PosId, None},
     conv : {[x \in Signal |-> [signal |-> Junk, value |-> {0}]]}]

Init ==
    /\ mail = <<>> /\ born = 0 /\ q = <<>> /\ power_msg_q = <<>>
    /\ update = FALSE
    /\ dbc_file \in Dbc /\ id_count = Len(dbc_file)
    /\ dbc_array = dbc_file /\ allocated = TRUE
    /\ data_frame \in UninitializedFrame
    /\ conv_data \in UninitializedContainer
    /\ matched = FALSE /\ i = 1
    /\ table = <<>>
    /\ pc = "connect"
    /\ session = FALSE /\ conn = "none"
    /\ handler = "idle" /\ handlerThread = "main"

(* The process is gone: its memory, its sockets and its queues with it. *)
Die ==
    /\ pc' = "exited"
    /\ q' = <<>> /\ power_msg_q' = <<>>
    /\ born' = Len(mail)
    /\ session' = FALSE /\ conn' = "none"
    /\ handler' = "idle" /\ update' = FALSE
    /\ UNCHANGED <<mail, dbc, conversion, table, handlerThread>>

(* main runs unless a handler interrupts its own thread. *)
MainRuns == handler = "idle" \/ handlerThread = "mqtt"

(***************************************************************************)
(* main before its loop: the connect loop, the subscription whose result   *)
(* is only printed, and the database connection.                           *)
(***************************************************************************)
Connect ==
    /\ pc = "connect" /\ MainRuns
    /\ pc' = "db"
    /\ session' \in BOOLEAN
    /\ UNCHANGED <<intake, update, dbc, conversion, table, conn, shutdown>>

OpenDb ==
    /\ pc = "db" /\ MainRuns
    /\ \/ /\ conn' = "ok" /\ pc' = "check"
          /\ UNCHANGED <<intake, update, dbc, conversion, table, session, shutdown>>
       \/ "db" \in Events /\ Die

(***************************************************************************)
(* got_mail, on the client's thread.  Other topics change nothing.         *)
(***************************************************************************)
\* Wrong version: the last message in is the first one out.
GotMailStack(m) ==
    /\ session
    /\ handler = "idle" \/ handlerThread = "main"
    /\ Len(mail) < MaxMail
    /\ mail' = Append(mail, m)
    /\ \/ m.topic = "can" /\ q' = <<Len(mail) + 1>> \o q /\ UNCHANGED power_msg_q
       \/ m.topic = "power" /\ power_msg_q' = <<Len(mail) + 1>> \o power_msg_q
          /\ UNCHANGED q
    /\ UNCHANGED <<born, update, dbc, conversion, table, pc, links, shutdown>>

GotMail(m) ==
    /\ session
    /\ handler = "idle" \/ handlerThread = "main"
    /\ Len(mail) < MaxMail
    /\ mail' = Append(mail, m)
    /\ \/ m.topic = "can" /\ q' = Append(q, Len(mail) + 1) /\ UNCHANGED power_msg_q
       \/ m.topic = "power" /\ power_msg_q' = Append(power_msg_q, Len(mail) + 1)
          /\ UNCHANGED q
    /\ UNCHANGED <<born, update, dbc, conversion, table, pc, links, shutdown>>

(***************************************************************************)
(* The reload of DBC.csv: timer_handler, and updateDBC in three steps,     *)
(* since a signal may arrive between them.  Freeing a block twice aborts.  *)
(***************************************************************************)
timer_handler ==
    /\ pc \notin {"connect", "db", "exited"}
    /\ ~update
    /\ update' = TRUE
    /\ UNCHANGED <<intake, dbc, conversion, table, pc, links, shutdown>>

NoReload ==
    /\ pc = "check" /\ MainRuns
    /\ ~update
    /\ pc' = "can"
    /\ UNCHANGED <<intake, update, dbc, conversion, table, links, shutdown>>

FreeDbc ==
    /\ pc = "check" /\ MainRuns
    /\ update
    /\ \/ /\ allocated
          /\ allocated' = FALSE
          /\ pc' = "reload"
          /\ UNCHANGED <<intake, update, dbc_file, id_count, dbc_array,
                         conversion, table, links, shutdown>>
       \/ ~allocated /\ Die

(***************************************************************************)
(* The new block has the size of the first one, is the old block with its  *)
(* old slots or another one, and is filled with the lines the file has     *)
(* now: slots behind them stay, and lines behind the block's end are       *)
(* written past it, which the process may not survive.                     *)
(***************************************************************************)
Loaded(block, file) ==
    [s \in 1..id_count |-> IF s <= Len(file) THEN file[s] ELSE block[s]]

NewBlock == [s \in 1..id_count |-> NoEntry]

\* Wrong versions: the block is not allocated again; the file is not read.
LoadDbcUnallocated ==
    /\ pc = "reload" /\ MainRuns
    /\ dbc_array' = Loaded(dbc_array, dbc_file)
    /\ pc' = "clear"
    /\ UNCHANGED <<intake, update, dbc_file, id_count, allocated, conversion,
                   table, links, shutdown>>

LoadDbcUnread ==
    /\ pc = "reload" /\ MainRuns
    /\ allocated' = TRUE
    /\ pc' = "clear"
    /\ UNCHANGED <<intake, update, dbc_file, id_count, dbc_array, conversion,
                   table, links, shutdown>>

LoadDbc ==
    /\ pc = "reload" /\ MainRuns
    /\ \/ /\ allocated' = TRUE
          /\ \E block \in {dbc_array, NewBlock} :
                dbc_array' = Loaded(block, dbc_file)
          /\ pc' = "clear"
          /\ UNCHANGED <<intake, update, dbc_file, id_count, conversion, table,
                         links, shutdown>>
       \/ Len(dbc_file) > id_count /\ Die

ClearUpdate ==
    /\ pc = "clear" /\ MainRuns
    /\ update' = FALSE
    /\ pc' = "can"
    /\ UNCHANGED <<intake, dbc, conversion, table, links, shutdown>>

(***************************************************************************)
(* One CAN message.  splitmsg always copies the name of the kart; sscanf   *)
(* stores only what the text has, the rest of data_frame keeps what        *)
(* earlier messages left.                                                  *)
(***************************************************************************)
Brings(f) == IF f.id = None THEN {} ELSE 0..f.len - 1

splitmsg(n) ==
    LET f == mail[n].frame
    IN  [can_id |-> IF f.id = None THEN data_frame.can_id ELSE f.id,
         data |-> [b \in Cell |-> IF b \in Brings(f) THEN n
                                  ELSE data_frame.data[b]]]

(***************************************************************************)
(* The bytes convert_can_data takes for signal x of an entry: from start   *)
(* to stop, or, if it is not big-endian, from the one after start to the   *)
(* one after stop.                                                         *)
(***************************************************************************)
Bytes(e, x) ==
    IF e.big THEN e.start[x]..e.stop[x] ELSE e.start[x] + 1 .. e.stop[x] + 1

\* The search looks at id_count slots and does not stop at the first hit.
Search(c) == {s \in 1..id_count : c # None /\ dbc_array[s].id = c}

\* Wrong version: the signals are computed before the message is split.
SignalsLate(frame, hits) ==
    [x \in Signal |->
        LET having == {s \in hits : x <= dbc_array[s].count}
            bytes == {b \in Cell : \E s \in having : b \in Bytes(dbc_array[s], x)}
        IN  IF having = {} THEN conv_data.conv[x]
            ELSE [signal |-> [id |-> frame.can_id, x |-> x],
                  value |-> {data_frame.data[b] : b \in bytes}]]

\* Raw values are or-ed over the hits; a signal no hit has keeps its value.
Signals(frame, hits) ==
    [x \in Signal |->
        LET having == {s \in hits : x <= dbc_array[s].count}
            bytes == {b \in Cell : \E s \in having : b \in Bytes(dbc_array[s], x)}
        IN  IF having = {} THEN conv_data.conv[x]
            ELSE [signal |-> [id |-> frame.can_id, x |-> x],
                  value |-> {frame.data[b] : b \in bytes}]]

(***************************************************************************)
(* The last hit gives the size.  An identifier without a hit leaves        *)
(* conv_data's size and signals alone.                                     *)
(***************************************************************************)
\* Wrong versions: the signals are added to those of the message before; the
\* kart's name is copied with the signals only.
convert_can_dataMore(n, hits) ==
    LET frame == splitmsg(n)
        named == [conv_data EXCEPT !.gokart = mail[n].kart]
    IN  /\ data_frame' = frame
        /\ matched' = (hits # {})
        /\ \/ hits = {} /\ conv_data' = named
           \/ \E last \in hits :
                 /\ \A s \in hits : s <= last
                 /\ conv_data' = [named EXCEPT !.size = @ + dbc_array[last].count]

convert_can_dataNoName(n, hits) ==
    LET frame == splitmsg(n)
    IN  /\ data_frame' = frame
        /\ matched' = (hits # {})
        /\ \/ hits = {} /\ conv_data' = conv_data
           \/ \E last \in hits :
                 /\ \A s \in hits : s <= last
                 /\ conv_data' = [conv_data EXCEPT !.gokart = mail[n].kart,
                                                   !.size = dbc_array[last].count]

convert_can_data(n, hits) ==
    LET frame == splitmsg(n)
        named == [conv_data EXCEPT !.gokart = mail[n].kart]
    IN  /\ data_frame' = frame
        /\ matched' = (hits # {})
        /\ \/ hits = {} /\ conv_data' = named
           \/ \E last \in hits :
                 /\ \A s \in hits : s <= last
                 /\ conv_data' = [named EXCEPT !.size = dbc_array[last].count,
                                               !.conv = Signals(frame, hits)]

\* A freed block may crash the process, or hold slots that were overwritten
\* and match nothing.
Convert ==
    /\ pc = "can" /\ MainRuns
    /\ q # <<>>
    /\ \/ /\ LET found == Search(splitmsg(Head(q)).can_id)
             IN  \E hits \in IF allocated THEN {found} ELSE SUBSET found :
                    convert_can_data(Head(q), hits)
          /\ i' = 1
          /\ pc' = "insert"
          /\ UNCHANGED <<intake, update, dbc, table, links, shutdown>>
       \/ ~allocated /\ Die

(***************************************************************************)
(* PQexecParams: a failed insert is printed and forgotten, and the         *)
(* connection is never reset.  Junk text may be refused by the server.     *)
(***************************************************************************)
Insert(row) ==
    \/ conn = "ok" /\ table' = Append(table, row)
    \/ /\ conn # "ok" \/ (row.kind # "power" /\ row.signal = Junk)
       /\ table' = table

\* Past the end of conv there is whatever the stack holds.
Conv(x) ==
    IF x \in Signal THEN conv_data.conv[x] ELSE [signal |-> Junk, value |-> {0}]

CanRow(kind, x, v) ==
    [src |-> Head(q), i |-> x, kind |-> kind, gokart |-> conv_data.gokart,
     signal |-> Conv(x).signal, value |-> Conv(v).value, matched |-> matched]

IsPosition == conv_data.can_id = PosId

\* One row holds both coordinates; its value stands for the first of them.
StoreGps ==
    /\ pc = "insert" /\ MainRuns
    /\ IsPosition /\ i = 1
    /\ conn # "finished"
    /\ Insert(CanRow("gps", 1, 1))
    /\ i' = MaxSignal + 2
    /\ UNCHANGED <<intake, update, dbc, data_frame, conv_data, matched, pc,
                   links, shutdown>>

\* Wrong version: the loop runs to i <= size.
StoreSignalInclusive ==
    /\ pc = "insert" /\ MainRuns
    /\ ~IsPosition /\ i <= conv_data.size + 1
    /\ conn # "finished"
    /\ Insert(CanRow("value", i, i))
    /\ i' = i + 1
    /\ UNCHANGED <<intake, update, dbc, data_frame, conv_data, matched, pc,
                   links, shutdown>>

StoreSignal ==
    /\ pc = "insert" /\ MainRuns
    /\ ~IsPosition /\ i <= conv_data.size
    /\ conn # "finished"
    /\ Insert(CanRow("value", i, i))
    /\ i' = i + 1
    /\ UNCHANGED <<intake, update, dbc, data_frame, conv_data, matched, pc,
                   links, shutdown>>

\* The loop read past the end of conv and fell off the stack.
WalkOff ==
    /\ pc = "insert" /\ MainRuns
    /\ ~IsPosition /\ i > MaxSignal /\ i <= conv_data.size
    /\ Die

\* Wrong version: the message is popped before its last signal is stored.
InsertedEarly == IF IsPosition THEN i > 1 ELSE i >= conv_data.size

Inserted == IF IsPosition THEN i > 1 ELSE i > conv_data.size

PopCan ==
    /\ pc = "insert" /\ MainRuns
    /\ Inserted
    /\ q' = Tail(q)
    /\ pc' = "can"
    /\ UNCHANGED <<mail, born, power_msg_q, update, dbc, conversion, table, links,
                   shutdown>>

\* Wrong versions: one message per round; the power queue is never drained.
CanDoneOne ==
    /\ pc = "can" /\ MainRuns
    /\ pc' = "power"
    /\ UNCHANGED <<intake, update, dbc, conversion, table, links, shutdown>>

CanDoneSkip ==
    /\ pc = "can" /\ MainRuns
    /\ q = <<>>
    /\ pc' = "check"
    /\ UNCHANGED <<intake, update, dbc, conversion, table, links, shutdown>>

CanDone ==
    /\ pc = "can" /\ MainRuns
    /\ q = <<>>
    /\ pc' = "power"
    /\ UNCHANGED <<intake, update, dbc, conversion, table, links, shutdown>>

(***************************************************************************)
(* One power message: insert, then pop.                                    *)
(***************************************************************************)
\* Wrong version: the name of the kart is taken from the CAN conversion.
PowerRowWrong ==
    [src |-> Head(power_msg_q), i |-> 0, kind |-> "power",
     gokart |-> conv_data.gokart, signal |-> Junk,
     value |-> {Head(power_msg_q)}, matched |-> TRUE]

PowerRow ==
    [src |-> Head(power_msg_q), i |-> 0, kind |-> "power",
     gokart |-> mail[Head(power_msg_q)].kart, signal |-> Junk,
     value |-> {Head(power_msg_q)}, matched |-> TRUE]

StorePower ==
    /\ pc = "power" /\ MainRuns
    /\ power_msg_q # <<>>
    /\ conn # "finished"
    /\ Insert(PowerRow)
    /\ power_msg_q' = Tail(power_msg_q)
    /\ UNCHANGED <<mail, born, q, update, dbc, conversion, pc, links, shutdown>>

PowerDone ==
    /\ pc = "power" /\ MainRuns
    /\ power_msg_q = <<>>
    /\ pc' = "check"
    /\ UNCHANGED <<intake, update, dbc, conversion, table, links, shutdown>>

\* main hands a connection the handler has finished to PQexecParams.
UsesFinished ==
    /\ conn = "finished"
    /\ \/ pc = "insert" /\ ~Inserted
       \/ pc = "power" /\ power_msg_q # <<>>

CrashOnFinished == MainRuns /\ UsesFinished /\ Die

(***************************************************************************)
(* handler.  The client it disconnects and destroys is the global one,     *)
(* which is NULL: main's client is a local of the same name, and both      *)
(* calls return at once.                                                   *)
(***************************************************************************)
Sigint(thread) ==
    /\ "sigint" \in Events
    /\ pc # "exited" /\ handler = "idle"
    /\ thread = "mqtt" => pc # "connect"
    /\ handler' = "disconnect" /\ handlerThread' = thread
    /\ UNCHANGED <<intake, update, dbc, conversion, table, pc, links>>

HandlerDisconnect ==
    /\ handler = "disconnect"
    /\ handler' = "free"
    /\ UNCHANGED <<intake, update, dbc, conversion, table, pc, links, handlerThread>>

HandlerFree ==
    /\ handler = "free"
    /\ \/ /\ allocated
          /\ allocated' = FALSE
          /\ handler' = "finish"
          /\ UNCHANGED <<intake, update, dbc_file, id_count, dbc_array,
                         conversion, table, pc, links, handlerThread>>
       \/ ~allocated /\ Die

HandlerFinish ==
    /\ handler = "finish"
    /\ conn' = "finished"
    /\ handler' = "exit"
    /\ UNCHANGED <<intake, update, dbc, conversion, table, pc, session,
                   handlerThread>>

HandlerExit == handler = "exit" /\ Die

(***************************************************************************)
(* The environment: an operator edits DBC.csv, the database or the broker  *)
(* goes away (neither connection is ever made again), the container is     *)
(* killed, and docker compose starts a new process on the same table.      *)
(***************************************************************************)
EditDbc ==
    /\ "edit" \in Events
    /\ dbc_file' \in Dbc \ {dbc_file}
    /\ UNCHANGED <<intake, update, id_count, dbc_array, allocated, conversion,
                   table, pc, links, shutdown>>

DbLost ==
    /\ "db" \in Events
    /\ conn = "ok"
    /\ conn' = "bad"
    /\ UNCHANGED <<intake, update, dbc, conversion, table, pc, session, shutdown>>

SessionLost ==
    /\ "session" \in Events
    /\ session
    /\ session' = FALSE
    /\ UNCHANGED <<intake, update, dbc, conversion, table, pc, conn, shutdown>>

Kill == "kill" \in Events /\ pc # "exited" /\ Die

Restart ==
    /\ pc = "exited"
    /\ pc' = "connect"
    /\ id_count' = Len(dbc_file)
    /\ dbc_array' = dbc_file /\ allocated' = TRUE
    /\ data_frame' \in UninitializedFrame
    /\ conv_data' \in UninitializedContainer
    /\ matched' = FALSE /\ i' = 1
    /\ UNCHANGED <<intake, update, dbc_file, table, links, shutdown>>

Loop ==
    \/ NoReload \/ FreeDbc \/ LoadDbc \/ ClearUpdate
    \/ Convert \/ StoreGps \/ StoreSignal \/ WalkOff \/ PopCan \/ CanDone
    \/ StorePower \/ PowerDone \/ CrashOnFinished

Main == Connect \/ OpenDb \/ Loop

Handler == HandlerDisconnect \/ HandlerFree \/ HandlerFinish \/ HandlerExit

Environment == EditDbc \/ DbLost \/ SessionLost \/ Kill \/ Restart

Next ==
    \/ Main
    \/ \E m \in Traffic : GotMail(m)
    \/ timer_handler
    \/ \E thread \in {"main", "mqtt"} : Sigint(thread)
    \/ Handler
    \/ Environment

Spec == Init /\ [][Next]_vars

\* The kernel runs both threads, and PQconnectdb gives up after 10 seconds.
\* The timer is periodic.
FairSpec ==
    Spec /\ WF_vars(OpenDb \/ Loop) /\ WF_vars(Handler) /\ WF_vars(timer_handler)

(***************************************************************************)
(* Properties.                                                             *)
(***************************************************************************)
Running == pc \notin {"connect", "db", "exited"}

\* The handler has freed the entries and is about to end the process.
HandlerFreed == handler \in {"finish", "exit"}

\* The lines some version of DBC.csv has.
Entries == UNION {{d[s] : s \in 1..Len(d)} : d \in Dbc}

(***************************************************************************)
(* Each row of api.gokarts names the kart that published the message the   *)
(* row was made from, although conv_data is shared by all messages and     *)
(* got_mail pushes while main reads the front of the queue.                *)
(***************************************************************************)
KartAttribution ==
    \A n \in 1..Len(table) : table[n].gokart = mail[table[n].src].kart

(***************************************************************************)
(* A row converted from a frame in an entry of its identifier is stored    *)
(* under the name of its own signal, and if every version of DBC.csv takes *)
(* that signal from bytes the frame brings, with the frame's own bytes     *)
(* only, although data_frame and conv_data keep those of earlier messages. *)
(* For a little-endian entry the bytes include the one behind the signal:  *)
(* a frame that ends with the signal does not bring it.  A row made from a *)
(* frame no entry matched never shows bytes of that frame.                 *)
(***************************************************************************)
Whole(f, x) ==
    \A e \in Entries :
        e.id = f.id /\ x <= e.count => Bytes(e, x) # {} /\ Bytes(e, x) \subseteq Brings(f)

CanProvenance(row, log) ==
    LET f == log[row.src].frame
    IN  /\ row.matched /\ f.id # None =>
              /\ row.signal = [id |-> f.id, x |-> row.i]
              /\ Whole(f, row.i) => row.value = {row.src}
        /\ ~row.matched => \A v \in row.value : v < row.src

Provenance ==
    \A n \in 1..Len(table) : table[n].kind # "power" => CanProvenance(table[n], mail)

(***************************************************************************)
(* While the database answers, a CAN message leaves the queue only after   *)
(* exactly the signals DBC.csv gives its identifier have been stored (one  *)
(* row when main takes the frame for a position).                          *)
(***************************************************************************)
RowsOf(n) == {r \in 1..Len(table) : table[r].src = n}

StoredParts(n) == {table[r].i : r \in RowsOf(n)}

StoredBeforePop ==
    [][q # <<>> /\ q' = Tail(q) /\ pc' # "exited" /\ conn = "ok" /\ matched =>
         StoredParts(Head(q)) = IF IsPosition THEN {1} ELSE 1..conv_data.size]_vars

(***************************************************************************)
(* As long as the database answers a process, and no SIGINT has taken its  *)
(* entries away, no message it accepted is missing: it waits in its queue, *)
(* or is in the table - a power message with its row, a CAN message with   *)
(* exactly the signals of some version of its entry, provided that every   *)
(* version of DBC.csv has one within the lines counted at the start -      *)
(* although the client's thread pushes while main serves the front,        *)
(* DBC.csv is reloaded in between, longer or shorter, and frames nobody    *)
(* describes pass through the same container.                              *)
(***************************************************************************)
Waits(queue, n) == \E k \in 1..Len(queue) : queue[k] = n

Described(f) ==
    /\ f.id # None
    /\ \A d \in Dbc : \E s \in 1..Len(d) : s <= id_count /\ d[s].id = f.id

Stored(n) ==
    \E e \in Entries :
        /\ e.id = mail[n].frame.id
        /\ StoredParts(n) = IF IsPosition THEN {1} ELSE 1..e.count

Kept(n) ==
    IF mail[n].topic = "power" THEN Waits(power_msg_q, n) \/ RowsOf(n) # {}
    ELSE Waits(q, n) \/ (Described(mail[n].frame) => Stored(n))

NoneMissing ==
    conn = "ok" /\ ~HandlerFreed => \A n \in born + 1 .. Len(mail) : Kept(n)

(***************************************************************************)
(* The size that conv_data happens to have at the start sends main past    *)
(* the end of conv only until the process has begun to convert its first   *)
(* frame that DBC.csv describes; no later frame, described or not, does    *)
(* (unless a SIGINT has freed the entries).                                *)
(***************************************************************************)
Begun(n) == Waits(q, n) => pc = "insert" /\ n = Head(q)

WalksOff ==
    pc = "insert" /\ ~IsPosition /\ i > MaxSignal /\ i <= conv_data.size

WalksOffEarly ==
    WalksOff /\ ~HandlerFreed =>
        \A n \in born + 1 .. Len(mail) :
            mail[n].topic = "can" /\ Begun(n) => ~Described(mail[n].frame)

(***************************************************************************)
(* Only a SIGINT makes the program touch memory it has given back: main    *)
(* uses the freed entries or the finished connection only while the        *)
(* handler runs beside it on the client's thread, and the handler frees    *)
(* the entries a second time only if it arrived in the middle of a reload. *)
(***************************************************************************)
UsesFreed ==
    \/ ~allocated /\ pc = "can" /\ q # <<>>
    \/ ~allocated /\ pc = "check" /\ update
    \/ UsesFinished

FreedOnlyBySigint ==
    /\ MainRuns /\ UsesFreed => handler \in {"finish", "exit"}
    /\ handler = "free" /\ ~allocated => pc = "reload"

(***************************************************************************)
(* When traffic ends, every accepted message is served or lost with its    *)
(* process: nothing stays in a queue for ever.                             *)
(***************************************************************************)
QueuesRunDry == <>[](q = <<>> /\ power_msg_q = <<>>)

(***************************************************************************)
(* If the process keeps running and DBC.csv stays the same, its lines are  *)
(* in memory in the end, as far as the lines counted at the start reach,   *)
(* although a timer expiry during a reload is forgotten.  Lines of a grown *)
(* file beyond that are never looked at, and slots behind the lines of a   *)
(* shrunk one may keep the entries they had.                               *)
(***************************************************************************)
EditsReachMemory ==
    \A f \in Dbc :
        <>[](dbc_file = f /\ Running) =>
            <>[](\A s \in 1..Len(f) : s <= id_count => dbc_array[s] = f[s])

(***************************************************************************)
(* The subscriber implements the row store.                                *)
(***************************************************************************)
Store == INSTANCE RowStore

ImplementsRowStore == Store!Spec

(***************************************************************************)
(* The rows of one topic are in the order its messages arrived in, and no  *)
(* signal of a message is stored twice, across reloads, losses and         *)
(* restarts.                                                               *)
(***************************************************************************)
RowsInOrder == Store!ArrivalOrder

(***************************************************************************)
(* The subscriber keeps the schedule of MainLoop: q is drained before      *)
(* power_msg_q, that before the timer's flag is looked at, and the flag is *)
(* cleared where a reload ends.                                            *)
(***************************************************************************)
Phase ==
    CASE pc \in {"connect", "db", "exited"} -> "down"
      [] pc = "check" -> "check"
      [] pc \in {"reload", "clear"} -> "reload"
      [] pc \in {"can", "insert"} -> "can"
      [] pc = "power" -> "power"

Schedule == INSTANCE MainLoop WITH canLen <- Len(q), powerLen <- Len(power_msg_q),
                                   phase <- Phase, MaxQueue <- MaxMail

ImplementsMainLoop == Schedule!Spec

(***************************************************************************)
(* "Split one message": the rows stored for a message show that message's  *)
(* data, and not those of another kart.                                    *)
(***************************************************************************)
NoValueOfAnotherKart ==
    \A n \in 1..Len(table) :
        \A v \in table[n].value \ {0} : mail[v].kart = table[n].gokart

===============================================================================
