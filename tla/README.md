# Dataformatter: TLA+ models, checks and proofs

The repository is an IoT system for an electric go-kart. On the kart, small
programs read a CAN bus and a GPS receiver, publish frames over MQTT, and watch
the power pin. On a server, a broker hands the messages to a subscriber that
converts them with the entries of `DBC.csv` and stores rows in PostgreSQL, which
PostgREST serves as a web API.

```
 GPS parser --frames--> CAN bus --> CANsniff.py --gokart/<n>/can--.
                          |                                        >-- Mosquitto --> Subscriber --> api.gokarts --> PostgREST
                          |        lost_power  --gokart/<n>/power-'                     ^
                          '--> CAN_read --can_data.csv--> CAN_convert (v1, v2)          '-- DBC.csv (reloaded every 60 s)
```

All line numbers below are those of the files under `src/`.

## 1. Inventory

| Part | State | Operations | Talks to | Hard |
|---|---|---|---|---|
| **Subscriber** `Server_subscriber/source/pro_subscriber.cpp` | queues `q`, `power_msg_q`; flag `update`; block `dbc_array`; main's `data_frame`, `conv_data`; PostgreSQL connection; MQTT session | `got_mail`, the loop of `main`, `timer_handler`, `updateDBC`, `handler` | broker (callback on the library's thread), database, DBC.csv, signals | two threads and two signals on shared memory; leftovers of earlier messages; failed inserts; restarts; starvation |
| **DBC loader** `can_convert.cpp` 10-146 | the block and its size `id_count` | `id_count_dbc_data`, `load_dbc_data`, `updateDBC` | DBC.csv, edited by an operator | `feof` loops; a block sized once; contents of a reused block |
| **CAN conversion** `can_convert.cpp` 148-250, `CAN_convert2_git.c` 251-340, `CAN_convert_data.c` 154-200 | counters, the raw words | `convert_can_data` | its caller | byte order, bounds, reused counters, promotions |
| **CAN file hand-over** `CAN_read.c`, `CAN_convert_data.c` 41-94, `CAN_convert2_git.c` 65-119 | `can_data.csv`, an open file in each program, `data_frame` | append; open, read, convert, remove | each other, through the file only | no lock: lines appended while the file is removed; short lines that leave old bytes in the struct |
| **Power monitor** `Power_off/lost_power.cpp` | position in its loop, the report in hand, a delivery token, the client's link | connect loop, `publishMessage`, `cli_reconnect`, `waitForCompletion`, samples, `shutdown` | GPIO pin, broker, init | time-outs and late acknowledgements, a refused report, a link that is dead and not known to be, shutdown that returns at once |
| **GPS parser** `GPS_USB_NMEA_PARCER` | the port, the counter `t` | open, read, checksum, GGA, VTG, time, send; restart | serial port, CAN bus, systemd | uninitialized counter, 16-bit speed, an open that fails and is not noticed |
| **CAN to MQTT** `Onboard_CAN_MQTT_Client/CANsniff.py` | `connected`; the library's socket and packets; the CAN socket's buffer | start-up loop, callbacks, publish (QoS 0); restart | bus, broker, link | callback thread against start-up loop; a link that breaks with frames in two buffers |
| **Data formatter** `DataFormatter/Formatter.py` | `data` | read two files, write JSON, sleep | files | half-written files, negative sleep |
| **3G connection** `3G_sakis3g_mod` | the LED | dial once, poll every 10 s, end; restart | modem, through sakis3g (third party) | only its own end makes it dial again |
| **Configuration readers** `read_conf.cpp` (two) | globals, arrays of fixed size | read `server.conf` line by line | the file | unbounded `strcpy`; the kart's topic depends on the order of lines |
| **Server stack** `Server_docker` | configuration | restart policies, start-up order | all server parts | restarts |
| **Board setup, hardware, keys** | - | shell scripts, schematics, certificates | - | - |

What makes each part correct:

* Subscriber: a row names the kart that sent its message; what a frame carried is
  stored under its own name with its own bytes; rows of a topic follow arrival
  order, none twice, over failures and restarts; a message is popped when its
  rows are stored; nothing waits for ever; freed memory is not used; an edit of
  DBC.csv takes effect.
* Loader: no write outside the block; every entry of the file is loaded.
* Conversion: the value has the bytes of its signal, in its byte order, and no
  others; no known identifier is missed.
* Hand-over: frames are converted in the order of the bus; none waits for ever.
* Power monitor: a lasting loss of power halts the kart; the server is told
  before the kart goes silent; reports come in turn and are never doubled.
* GPS: frames show the last valid sentence; time is sent about every 30 s; the
  parser ends up on the receiver when there is one.
* CANsniff and 3G: frames keep their order and none is sent twice; none stays in
  a buffer; with coverage the client comes back.
* Configuration: the last line of a key counts, the topic names the kart, the
  arrays are large enough for the file as the example has it.
* Formatter: every output holds one reading of each input.

`PROJECT.json` lists all components with their status, and under "hazards" the
places in the code where these can go wrong, each with the properties that
would notice.

## 2. Modules

| Module | Models | Used by |
|---|---|---|
| `Subscriber` | the server process, two threads, signals, its environment | `SubscriberInvariant` |
| `SubscriberInvariant` | the inductive invariant `IInv` | `MCSubscriber`, proofs |
| `RowStore` | abstract: what a reader of `api.gokarts` is promised | `Subscriber` (INSTANCE) |
| `MainLoop` | the schedule of main's thread, messages only counted | `Subscriber` (INSTANCE) |
| `DbcLoader` | counting, loading and reloading DBC.csv | `MCDbcLoader`, proofs |
| `CanDecode` | the byte loops of three versions of `convert_can_data` | `MCCanDecode`, proofs |
| `CanFile` | `CAN_read`, or an operator, and a converter on `can_data.csv` | proofs |
| `FrameLog` | abstract: frames converted in order | `CanFile` (INSTANCE) |
| `GpsParser` | the GPS parser, its receiver, its restarts | `MCGpsParser`, proofs |
| `CanSniffer` | `CANsniff.py` and the MQTT library under it | `Telemetry` |
| `Connection` | the 3G connection service | `Telemetry` |
| `Telemetry` | the two composed over the link they share, with faults | proofs |
| `FrameFeed` | abstract: what the topic `gokart/1/can` may carry | `Telemetry` (INSTANCE) |
| `ReadConf` | both `read_configuration` | `MCReadConf`, proofs |
| `PowerMonitor` | `lost_power.cpp`, its link and its boots | proofs |
| `PowerReports` | abstract: which reports may follow which | `PowerMonitor` (INSTANCE) |
| `MC*` | small instances | the `.cfg` files |
| `SubscriberProofs`, `DbcLoaderProofs`, `CanDecodeProofs`, `PowerMonitorProofs`, `GpsProofs`, `TelemetryProofs`, `CanFileProofs`, `ReadConfProofs` | theorems | - |

Names in the models are those of the code where the syntax allows it. An operator
under a comment "Wrong version" (or "Mistake to be noticed") is not part of a
model: it is a plausible error that each property is tested against.

### Subscriber

Data is kept as provenance. Each message that `got_mail` accepts has a number; a
byte carries the number of the message it was stored from, 0 where nobody wrote,
and a converted value the set of the numbers of the bytes it was made of. A frame
is an identifier and how many bytes its text has; `data_frame.data` has `MaxByte`
bytes and one behind them. `born` is a history variable: how many messages earlier
processes accepted, so that `NoneMissing` can speak of those of the one that runs.

A slot of `dbc_array` is an identifier, its number of signals, the byte order and
each signal's first and last byte. `Bytes` is what the two loops read: for a
little-endian entry the bytes from the one after `start` to the one after `stop`
(`can_convert.cpp:198`). The block keeps the size `id_count` of the file at the
start. `LoadDbc` puts the lines the file has now over the old block or a new one:
what is behind the lines of a shorter file stays, and a longer file ends the
process or loses the lines behind the block. `convert_can_data` looks at the
`id_count` slots and does not stop at the first with the identifier.

| Actions | Code |
|---|---|
| `Connect`, `OpenDb` | `main` 118-159; `return 1` when the database does not answer |
| `GotMail` | `got_mail` 324-394, on the library's thread |
| `Convert` = `splitmsg` + `convert_can_data` | 169-173, `can_convert.cpp` 148-278 |
| `StoreGps`, `StoreSignal`, `PopCan`, `CanDone` | 175-254, one insert a step |
| `StorePower`, `PowerDone` | 255-306 |
| `timer_handler`, `NoReload`, `FreeDbc`, `LoadDbc`, `ClearUpdate` | 412-415, 163-168, 400-411 |
| `Sigint`, `HandlerDisconnect`, `HandlerFree`, `HandlerFinish`, `HandlerExit` | 310-322, on main's thread (then main does not run) or on the other (then it does) |
| `WalkOff`, `CrashOnFinished`, `Die` | undefined behaviour that ends the process |
| `EditDbc`, `DbLost`, `SessionLost`, `Kill`, `Restart` | the environment; restart from `docker-compose.yml:79` |

Facts of the code the model keeps, and which surprise: `main`'s locals are
uninitialized, so `conv_data.size` may be anything until a known frame came, and
`conv_data.can_id`, which nothing assigns, decides the position test (:176) once
and for all - positions are as a rule stored as two values and not as a gps
string. `main`'s client (:96) hides the global one, so the handler's disconnect
does nothing. A freed `dbc_array` yields its old slots, all or some, or a crash:
slots that were overwritten, and those of a new block nobody wrote, are taken to
match no frame. Nor do the identifiers 0xE (read from the closing "EOF") and 0
(entries of three signals), which no frame of the kart has.

Unlocked `std::queue` objects are shared by two threads. A torn queue has no
bounded set of outcomes, so the model takes push, front and pop as atomic: what
is shown of the subscriber holds under that reading, and the race is listed as a
hazard of the code.

### DbcLoader

A file is a sequence of (identifier, number of signals) and whether a newline
ends it, which decides when `feof` is noticed: `Fgets` models that, and the
line buffer that a failing `fgets` leaves. A line may have an identifier and no
number, as the closing "EOF", whose E is read as 0xE (`None`), or neither, as a blank
line and the header do: then the slot keeps what it had (`IdIn`). A slot nobody wrote has an unknown
count, and `malloc` after `free` returns the old contents or fresh ones, because
the `switch` of `load_dbc_data` looks at the count the slot *has* when the line
brings none. `Edit` replaces the file at any moment, by a longer one as well; an
open file keeps its own. `version` selects the program: the server, and the two
converters of the board, which load once. They agree line by line except that v1
(`CAN_convert_data.c:141-148`) has one signal a line and always moves on, and that
only the server loses the identifier of entries of three signals
(`can_convert.cpp:99`). `counted` remembers the file of the start, for
`OverflowMeansGrown`.

### CanDecode

A byte is a set of bits and a word eight bytes, so shift-and-or is a union at a
place. `version` selects the code: the server indexes the table and counts
down for little endian; v2 walks a pointer and reuses the counter `i` in its
copy loops (`AfterCopy`); v1 knows little endian only and promotes bytes to a
signed `int` (`Or`). Pointers that leave the block may crash (`Outside`).

### CanFile

A frame is its number on the bus, which stands for the time stamp and the
identifier; a data byte of the struct is the number of the frame it was stored
from. The writer's steps are open the socket, read, open the file, close (the
buffered line reaches the file there); it ends when the socket, a read or the
file fails. The converter's are open, one line, the failing `fgets` that converts
once more what the struct holds, close, remove. A file removed under the writer
takes its line along.

The two versions of the converter have the same loop and another `sscanf`: v1's
stops after the identifier, so the bytes are never stored; v2's stores as many
bytes as the line has. CAN_read prints all eight bytes of a frame in v1's format.
Lines in v2's format come from files that an operator copies into place (as
`CAN_convert_git/README.txt` describes), with short lines and without a final
newline, as the sample beside v2 has; `CopyFile` is that operator. (v1 may be fed
that way too; its file then differs from CAN_read's in the final newline only.)

### GpsParser

A line of the receiver is what `main` takes from it: talker, type, whether it has
a `*`, the two digits behind it (-1 for a character that is none, as
`hexchar2int` says), the exclusive or of its characters, the numbers in its
fields. So a checksum of which only the first digit arrived can be right: the
model keeps that, and counts such a line as accepted, as the code does. A byte is
`n >> 8k` modulo 256. A line has the fields that its type has in NMEA 0183: from one
with a right checksum and fewer fields `main` would read pointers it never set, which
is not modelled. `Start` sets the counter to any value, since `t` is
uninitialized; `Count` wraps it at 255. When the port cannot be opened
`OpenGPSPort` says 1 and `main` reads descriptor 1, which under systemd is the
journal's socket and yields the end of a file, so the parser ends and is
restarted (`GPS.service`, `Restart=always`). An open port does not come back with
the plug. The result of `ioctl` at :68 is not looked at either: without a CAN
interface the index stays 0, `bind` succeeds, and no write of that run can: `bound`. Lines that need no reply from the code (wrong checksum, other types)
are one action that changes nothing.

### CanSniffer, Connection, Telemetry

`CanSniffer` has two threads: the script (`Check`, `Close`, `DialOk`, `DialFails`,
`LoopStart`, then `OpenBus`, `Recv`) and the library's loop (`Connack`,
`Disconnected`, `Reconnect`, `SendPacket`), which calls `on_connect` and
`on_disconnect`. `client.connect` closes the socket that the loop may be about to
use: `Close` and `DialOk` are two steps so that the loop can run between them.
The MQTT library is not in the repository: it keeps packets while it has a
socket, drops them without one and empties its queue when it connects again.
`Hear` drops a frame when the receive buffer of the CAN socket is full.

`Connection` is the script `connection`: `Dial` (NET_CONNECT), `Poll`
(`have_internet`, with the LED), `PollTimesOut`, and the restart by systemd, which
is what makes it dial again. `Telemetry` joins the two by the state of the link
they share, and adds the surroundings: faults of interface, coverage, modem,
broker and process. A broken link is fatal for the socket on it, since a new dial
gets a new address. That CAN frames come from `GpsParser` and from the kart, and
that `Subscriber` receives the topic, is not composed in one model: the
interfaces are `FrameFeed` on one side and, on the other, `got_mail` with
any messages in any order, of which those are a special case.

### ReadConf

A text is a model value with a length; a line is a key with a text behind its
tab, or has no tab (then `find` says -1, the whole line is the key and the value
is the line without its last character). `value` holds the texts a variable was
made of, joined, so that the kart's topic is `gokart/`, name, `/power`. `Room` is
the sizes of the arrays; an array that is written past its end ends the model,
since what follows is undefined.

### PowerMonitor

The pin, the client's link (`up`, `dead` and not noticed, `down`), the reports
the client accepted, those in flight and those the server got. `Accepted` /
`Refused` are the outcomes of `publishMessage`, first or second try (`ON` has no
second); `Completed` / `TimedOut` those of the wait whose result nobody reads.
`cli_reconnect` passes the library wrong handles: it returns an error or crashes,
and never reconnects. Two history variables say why the server may not have been
told: `unsure`, a report of this boot was refused, dropped with its session or given
up after its time-out; `early`, the shutdown was asked for in the connect loop, which
reports nothing. A connect that merely fails sets neither. `Shutdown` only asks: the program goes on until `Halt`.

## 3. Runs

| Run | Question | Size |
|---|---|---|
| `Subscriber_any` | big-endian and little-endian, whole, short, unknown, unparsable frames and power messages of two karts, without faults: `KartAttribution`, `Provenance`, `RowsInOrder`, `StoredBeforePop`, `NoneMissing`, `WalksOffEarly` | 3 messages of 7 kinds |
| `Subscriber_faults` | with loss of database and session, SIGINT on both threads, kill and restart: `ImplementsRowStore`, `ImplementsMainLoop`, `FreedOnlyBySigint`, and `IInv` | 2 messages of 2 kinds, little-endian |
| `Subscriber_live` | with edits of DBC.csv, longer and shorter, and loss of the session: `QueuesRunDry`, `EditsReachMemory` | 2 messages of 2 kinds, 2 files |
| `DbcLoader_edits` | any file replaced by any other, three programs: `OverflowMeansGrown`, `EntriesLoaded` | 20 files |
| `CanDecode_right` | `Decoded`, `KnownIdsAreDecoded` | 4 tables, 8 one-bit bytes |
| `CanFile_live` | both versions, a writer that fails: `ImplementsFrameLog`, `BytesAreLatest`, `NoFrameWaits` | 4 frames of 2 bytes |
| `GpsParser_time` | plug, interface, any counter at the start: `FramesShowTheirLines`, `TimeIsSent`, `ParserListens` | 7 lines, 4 accepted |
| `Telemetry_live` | two services, two threads and their surroundings: `ImplementsFrameFeed`, `FramesArrive`, `BackOnline` | 4 frames, 3 faults |
| `ReadConf_lines` | server and kart: `LastLineCounts`, `TopicNamesKart`, `StaysInside` | 3 lines, 5 keys, 7 texts |
| `PowerMonitor_reports` | all faults: `SilenceExplained`, `LossesHeardInTurn`, `ImplementsPowerReports`, `PowerLossHalts` | 3 power changes |

All but `Subscriber_live` check `TypeOK` (or `IInv`, which contains it) as well. Two
runs end
in a violation: what a comment of the repository says and the code does not do.

| Run | Says | Does |
|---|---|---|
| `Subscriber_mixup` | "Split one message and pop it" (`pro_subscriber.cpp:171`) | an unknown identifier stores the last known frame's values again, under the sender's name |
| `CanDecode_little` | "check endian notation and convert" (`can_convert.cpp:181`) | the little-endian loop (:198) takes bytes start+1..stop+1 in the wrong order |

What the properties above leave room for, because the code does it:

* A reload of a `DBC.csv` with more lines than the counted one writes past the
  block (`pro_subscriber.cpp:407`). `OverflowMeansGrown` says that this is the
  only way.
* The same reload never counts the lines again: what a longer file has behind the
  counted lines is not found (`can_convert.cpp:171`), and what a shorter one has lost
  may stay in the slots behind its lines. `EditsReachMemory` and `NoneMissing` are
  about the lines within the counted ones.
* A little-endian signal is made of the byte behind it as well
  (`can_convert.cpp:198`). A frame that ends with its signal, as 0x5A5 of `DBC.csv:5`
  in two bytes (`Server_subscriber/can_data.csv:4`), does not bring that byte, and an
  earlier message's, perhaps another kart's, is mixed in. `Provenance` asks for the
  frame's own bytes where the frame brings all that the loops read.
* If the power goes while the monitor is still connecting it asks for the shutdown
  without a report, and the server never hears OFF (`lost_power.cpp:108-112`).
  `SilenceExplained` excepts that (`early`), besides reports that were refused,
  dropped or not acknowledged in time (`unsure`).
* A GPS parser that starts without a CAN interface goes on with a socket bound to
  none, and sends nothing until it is restarted (`GPS_USB_NMEA_PARCER.c:68`).
  `ParserListens` is about the receiver, and `TimeIsSent` about what is written.
* v2's pointer past its block (`CAN_convert2_git.c:338`) may crash the program or read
  memory that is taken not to equal the frame's identifier (`Outside`).
* While CAN messages arrive as fast as they are stored, `while (!q.empty())` does
  not end and the reload waits (`pro_subscriber.cpp:169`). `MainLoop` allows it;
  `EditsReachMemory` is about traffic that ends.
* `cli_reconnect` gives the library wrong pointers (`lost_power.cpp:320`); if it
  crashes, a power loss is not acted on. `PowerLossHalts` excepts that.
* The start-up loop of `CANsniff.py` connects again while the answer to the last
  attempt is on its way, which closes that session. Whether it ends depends on
  who is faster, and no fairness of threads decides that. `BackOnline` is about a
  client that has got past it.
* Nobody sees frames that the bus carries while the client is not on it, or the
  interface is down; `FrameFeed` and `FrameLog` promise order, not completeness.
* Entries of three signals are loaded by the server under identifier 0
  (`can_convert.cpp:99`; `EntriesLoaded` excepts them); `id_count` counts lines,
  not identifiers; frames appended before `remove` are lost and the last line of a file is
  converted twice; the handler disconnects nobody.
* A GGA sentence without a fix has empty fields and is sent as position 0, 0; a
  speed above 65.535 km/h is sent modulo 65536 (`GPS_USB_NMEA_PARCER.c:107, 127`).
* A kart's name of 37 to 59 characters is longer than its topic has room for
  (`Power_off/read_conf.cpp:60`). `StaysInside` says that, for a file like the
  example with values that fit their own arrays, this is the only overflow, and
  that it happens.
* What the stack holds when `main` starts may send it past the end of `conv`
  (`pro_subscriber.cpp:71, 217`). `WalksOffEarly` says that this can only happen
  before the process has begun to convert its first described frame: from then on
  the size is one that `convert_can_data` set.
* Rows are lost with the database connection, which is never made again
  (`pro_subscriber.cpp:244`). `NoneMissing` is about a process whose database
  answers, and about frames that every version of DBC.csv describes.

### Bounds

* `MaxMail` (3 or 2 messages): a mix-up needs a message that leaves something
  behind and one that meets it; a third is in the queue meanwhile. The invariant
  speaks of adjacent messages only, and the theorems cover any number.
* `MaxSignal` 2 instead of 4 and `MaxByte` 3 instead of 8: signals of one and of two
  bytes, a frame of one byte that is short of the second signal of its entry, a
  little-endian signal with and without the byte behind it; size 3 stands for every
  uninitialized size beyond the array.
* Two karts, three identifiers: position, another known one, one that the file
  lacks. The files of `Subscriber_live` have two and four lines, so that either may
  be the counted one and an edit adds or removes two.
* `AllFiles`: every shape that matters to the loops - empty, only a mark, with and
  without final newline, entries of 1, 2, 3 and 4 signals, a mark or a blank line before an
  entry,
  and files longer and shorter than each other.
* `CanDecode`: one bit per byte, the most significant, since bits move together;
  frames take all 256 values of eight such bytes; signals of one to four bytes.
* `MaxFlips` 3: off, on, off - loss, restoration within a report, loss again;
  `MaxSent` only stops a monitor whose system is already going down (each turn
  adds reports as long as the system does not stop), and 5 holds two turns.
* `MaxFrames` 4, `MaxCopy` 2 and `Bytes` 2 in `CanFile`: two files, one written
  while the other is removed, and lines that lack the second byte, or both.
* `Period` 1 and `MaxT` 3 in `GpsParser`: the counter starts below, at and above the
  period, and at the value that would wrap; `MaxLines` 4 is two periods.
* `MaxFaults` 3 in `Telemetry`: a fault, one during the recovery, one after it;
  mends are not counted, so they do not run out. `MaxRx` 2 and 4 frames fill
  the receive buffer.
* `MaxLines` 3 in `ReadConf`: the name, the topic before or after it, and a repetition
  of either; the lengths 36, 37 and 60 are the ones at the edges of the arrays.

Deadlock is not checked where the bound on messages, frames or power changes, or
a process that has ended, lets the system stop.

### Fairness

* Subscriber: weak fairness of main's steps after the connection and of the
  handler's (threads are scheduled; `PQconnectdb` has a time-out, :138), and of
  the periodic timer (`timer_settime` with an interval, :456-458). None of
  `Connect` - the broker may be away for ever - nor of arrivals, edits, restarts.
* PowerMonitor: the program's steps, `Halt` once shutdown was asked, and delivery
  over a live link. None of `Connects`, of power, of the link.
* CanFile: the writer's steps once it has a frame, and the converter's. None of the
  bus or of the operator.
* GpsParser: the program's steps and systemd's restart. None of the receiver, the
  plug or the interface.
* Telemetry: weak fairness of the script, of the library's thread and of the
  connection program, each with systemd's restart (`Restart=always` in both units).
  None of the surroundings: `BackOnline` asks for coverage and an interface
  that last.

## 4. Proofs

Checked by TLAPS for every value of the constants that satisfies the named
ASSUMEs.

* **Subscriber** (`SubscriberProofs`). `InvariantHolds`: `IInv` is inductive.
  Its parts, and why each is needed:
  - `KartAttribution` is not inductive by itself: a row's name is that of
    `conv_data`, so `ConversionOK` says that while rows are stored `conv_data`
    belongs to the message at the front; that message stays there because queues
    hold increasing numbers (`QueuesOK`); no byte in memory is newer than the message
    in work (`MemoryOK`), so an unmatched frame's values are older; rows are older than what waits (`TableOK`). From these
    `TypeCorrect`, `RowsNameTheirKart`, `RowsShowTheirFrame`, `RowsAreInOrder` and
    `SubscriberImplementsRowStore` (initial states and steps mapped).
  - `BlockOK`: the slots are lines of versions of DBC.csv or match nothing, and the
    lines of one version are there as far as the block reaches. A hit is therefore an
    entry, and a frame that every version describes within the counted lines is hit.
    `Provenance` rests on the first, `KeptOK` and `SizeOK` on the second. `FreedOK`
    says that a conversion sees a freed block only after the handler: until then no
    hit is missing.
  - `StoredOK`: between two inserts of a described message the table has exactly
    its signals before `i`, as long as the database answers. At the pop `i` is
    past the size, which is `PoppedAfterStoring`; only `PopCan` takes a message from
    the queue of a process that lives (`OnlyPopCan`).
  - `KeptOK`: a message this process accepted waits or has its rows. It
    needs `StoredOK` at the pop, `QueuesOK` so that a push or a pop moves no other
    message, and one clause on dead processes, because `Restart` begins with
    `born = Len(mail)` and empty queues. It gives `NothingIsLost`.
  - `SizeOK`: a size beyond the array is that of the start, since the first
    described frame replaces it and no other frame touches it. It gives
    `OnlyTheStartWalksOff`.

  `SubscriberImplementsMainLoop` maps the steps to the schedule of main's thread:
  it needs only types and the lengths of the queues, which `QueuesOK` bounds by
  that of `mail`. `OnlySigintFrees` is from `FreedOK` alone, which is inductive
  by itself: the block is free during a reload or once the handler has freed it, and
  only the handler finishes the connection. The steps are grouped into those that
  touch intake, memory or table and quiet ones (`Quiet`), so that each part
  of the invariant has one case per action that can disturb it. Assumptions:
  `DbcAssumption`, `TrafficAssumption`, `IdAssumption`, `SignalAssumption`,
  `BoundAssumption`.
* **DbcLoader** (`DbcLoaderProofs`). The invariant ties `id_count` to the number
  of iterations of the file that was counted, `ptr` to the lines read, and each
  loaded entry among them to a slot below `ptr`. `LoaderTypes`, `LoadsItsEntries`
  and `StaysInItsBlock`, for all three programs.
* **CanDecode** (`CanDecodeProofs`). `WalkInv` says where table pointer and
  counter stand - in v2 the counter may fall behind the pointer but the entry of
  the frame's identifier is never behind both without having been copied -
  giving `ConverterTypes` and `NoEntryIsMissed`; `ValueInv` says which bytes of
  the signal are in the word, giving `ValuesAreRight` under `ServerIsBigEndian`,
  without which `CanDecode_little` is a counterexample.
* **PowerMonitor** (`PowerMonitorProofs`). The invariant relates the place in the
  program to the last report made, in-flight reports to the ends of the two logs,
  and `unsure` to a gap; a boot that is halting without an OFF that was heard is
  `early` or `unsure`. `MonitorTypes`, `ServerIsTold`,
  `MonitorImplementsPowerReports`. `LossesAreHeardInTurn` is proved of
  `PowerReports` and carried over by the refinement: `SaidInTurn` says that each
  OFF or RESTORED was made right after a LOST, and a step of `Hear` skips nothing
  but the end of a boot, so the LOST was heard just before.
* **CanFile** (`CanFileProofs`). Order over a hand-over through a file that may be
  removed under its writer: `FileOK` says that the lines of the file are
  increasing and older than what the writer holds, `PosOK` that a file the
  converter has open is not removed by anyone else, `LastOK` that the struct is
  what was converted last, `NewerOK` that nothing still to be converted is older.
  `BytesAreLatest` becomes inductive with `LastOK`. From them `TypeCorrect`,
  `BytesAlwaysLatest`, `HandOverIsLog`.
* **GpsParser** (`GpsProofs`). `CounterInv`: the speed sentences since the last time
  message are at most `t`, and after the first of them `t` is at most `Period + 1`,
  whatever it was when the program started; `Period < MaxT` keeps the counter from
  wrapping. It gives `TimeAlwaysSent`. `FramesAlwaysShow`: four bytes give back the
  number they were made of, by division and remainder, for every number an `int`
  holds.
* **Telemetry** (`TelemetryProofs`). `FeedInv`: what the broker got, the packets of the
  library and the receive buffer are, one after the other, one increasing
  sequence of frames that the bus has carried; restarts, reconnections and lost
  sockets only take pieces out. It gives `TelemetryIsFeed`.
* **ReadConf** (`ReadConfProofs`). `ReadInv` says of each variable what the last line
  of its key says, and of the kart's topic what it is made of as long as at most one
  line names the kart. A step adds one line, and the last line of a key is the new
  one or the one before (`LineAdded`, `LineElsewhere`): `TypeCorrect`,
  `LastLineAlwaysCounts`, `TopicAlwaysNamesKart`. `ArraysHold` also needs lengths.
  `StrLen` is a recursive function, whose value for every sequence would take an
  induction; a file like the example makes variables of no more than three texts,
  for which the definition is unfolded (`StrLenOne`, `StrLenThree`).

Only model-checked is liveness (`QueuesRunDry`, `EditsReachMemory`,
`PowerLossHalts`, `NoFrameWaits`, `ParserListens`, `FramesArrive`, `BackOnline`),
which is beyond the prover. Every invariant, action property and refinement
of the passing runs is a theorem. The two violated properties are false as stated,
and their runs give the counterexamples.

## 5. Plan

Done: Subscriber with RowStore and MainLoop, DbcLoader, PowerMonitor with
PowerReports, CanDecode, CanFile with FrameLog, GpsParser, Telemetry with FrameFeed
(CanSniffer, Connection), ReadConf; each with a run and proofs of all its safety
properties.

Next, proofs: consequences of the abstract specifications that a reader of the
table or the topic can use, proved once and carried over as `LossesAreHeardInTurn`
is; then facts that the liveness properties rest on and that are safety.

Next, models, if the code grows: `Formatter`; the race on `std::queue` refined to
its deque operations.

## 6. Not modelled

* The data formatter: an early prototype of one thread, which reads files that no
  other part of the repository writes; its one hazard (a negative sleep,
  `Formatter.py:63`) is visible in the line itself.
* Board setup scripts, which run once at boot or installation: they bring up both
  CAN interfaces and the LED's pin, which the models assume or leave to the
  environment. Hardware, keys, certificates.
* sakis3g, Mosquitto, PostgreSQL, PostgREST, the MQTT libraries, beyond what the
  code's use of them shows.
* `SetTime` and the commented-out `main` of `gps.c`, which nothing calls;
  `is_there_internet`, which a person runs.
* Text formats, printing and time stamps; the growth of the heap (`splitmsg` and
  the power branch never release the parsed JSON); the unbounded `strcpy` of
  `splitmsg` (`can_convert.cpp:263, 267`), which a longer transmission or name than
  the kart's programs publish would overrun; data races on memory as such;
  file systems that fail; a `DBC.csv` that is missing.
