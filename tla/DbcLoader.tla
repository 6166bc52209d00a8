------------------------------- MODULE DbcLoader -------------------------------
(***************************************************************************)
(* How the subscriber (the server) and the two converters of the board (v1 *)
(* and v2) turn DBC.csv into their array of entries: id_count_dbc_data     *)
(* counts the lines once, when the program starts; load_dbc_data fills a   *)
(* block of that many slots, then and, in the server, after every expiry   *)
(* of the timer, from whatever the file has become.  Both read with        *)
(* `while (!feof(pfile)) fgets(...)`, whose last iteration repeats the     *)
(* last line when the file ends with a newline.                            *)
(*                                                                         *)
(* A line is the identifier and the number of signals that sscanf finds in *)
(* it; without a number its count is 0.  In the closing "EOF" it finds the *)
(* identifier 0xE, None here; in a blank line no identifier at all.  A     *)
(* slot that was never written has an unknown count: reading it yields     *)
(* any.  A line of v1 describes one signal and has no number; its count    *)
(* is 1.                                                                   *)
(***************************************************************************)
EXTENDS Naturals, Sequences

CONSTANTS
    CanId,      \* identifiers of entries, 0 not among them
    None,       \* 0xE, or whatever else is the identifier of no entry
    Blank,      \* no identifier: the line does not begin with a number
    Unknown,    \* the count of a slot nobody has written
    Files       \* the contents DBC.csv may have, without its header

MaxSignal == 4
Line == [id : CanId \cup {None}, count : 0..MaxSignal]
            \cup [id : {Blank, 0}, count : {0}]
File == [lines : Seq(Line), nl : BOOLEAN]

ASSUME IdAssumption == {0, None, Blank} \cap CanId = {} /\ None # Blank
ASSUME UnknownAssumption == Unknown \notin Nat
ASSUME FilesAssumption == Files \subseteq File

VARIABLES
    version,    \* the program: "server", "v2" or "v1"
    counted,    \* DBC.csv as it was when the program started
    file,       \* DBC.csv on disk
    opened,     \* the contents the open FILE reads
    pos,        \* lines read from it
    eof,        \* feof(pfile)
    line,       \* the line buffer
    id_count,   \* slots of the array
    slots,      \* the array
    ptr,        \* the slot load_dbc_data fills next
    pc          \* counting, loading, or converting frames

reading == <<opened, pos, eof, line>>
start == <<version, counted>>
vars == <<start, file, reading, id_count, slots, ptr, pc>>

\* The header: "0xID" in v1, of which "0x" is read as 0, and "ID" elsewhere.
Header == [id |-> IF version = "v1" THEN 0 ELSE Blank, count |-> 0]

Slot == [id : CanId \cup {None, 0}, count : 0..MaxSignal \cup {Unknown}]
Unwritten == [id |-> None, count |-> Unknown]

TypeOK ==
    /\ version \in {"server", "v2", "v1"}
    /\ counted \in Files /\ file \in Files /\ opened \in Files
    /\ pos \in 0..Len(opened.lines)
    /\ eof \in BOOLEAN
    /\ line \in Line
    /\ id_count \in Nat
    /\ slots \in [1..id_count -> Slot]
    /\ ptr \in Nat \ {0}
    /\ pc \in {"count", "load", "ready", "overflow"}

\* How many times the reading loop goes round.
Iterations(f) == Len(f.lines) + (IF f.nl THEN 1 ELSE 0)

(***************************************************************************)
(* fopen, and the fgets that skips the header: the end of the file shows   *)
(* at once only if the header is all there is and no newline closes it.    *)
(***************************************************************************)
Open(f) ==
    /\ opened' = f
    /\ pos' = 0
    /\ eof' = (Len(f.lines) = 0 /\ ~f.nl)
    /\ line' = Header

\* The files a version can make sense of.
FilesOf(v) ==
    {f \in Files : v = "v1" => \A k \in 1..Len(f.lines) : f.lines[k].count <= 1}

Init ==
    /\ version \in {"server", "v2", "v1"}
    /\ file \in FilesOf(version)
    /\ counted = file /\ opened = file /\ pos = 0 /\ line = Header
    /\ eof = (Len(file.lines) = 0 /\ ~file.nl)
    /\ id_count = 0
    /\ slots = [s \in 1..0 |-> Unwritten]
    /\ ptr = 1
    /\ pc = "count"

\* Wrong version: a read at the end moves on as well.
FgetsPast ==
    /\ UNCHANGED opened
    /\ pos' = pos + 1
    /\ line' = IF pos < Len(opened.lines) THEN opened.lines[pos + 1] ELSE line
    /\ eof' = (pos + 1 >= Len(opened.lines) /\ (pos = Len(opened.lines) \/ ~opened.nl))

\* fgets: at the end it sets feof and leaves the buffer as it was.
Fgets ==
    /\ UNCHANGED opened
    /\ IF pos < Len(opened.lines)
       THEN /\ pos' = pos + 1
            /\ line' = opened.lines[pos + 1]
            /\ eof' = (pos + 1 = Len(opened.lines) /\ ~opened.nl)
       ELSE /\ UNCHANGED <<pos, line>>
            /\ eof' = TRUE

\* Wrong version: lines that are not entries are not counted.
CountLineEntries ==
    /\ pc = "count" /\ ~eof
    /\ Fgets
    /\ id_count' = id_count + IF line'.count > 0 THEN 1 ELSE 0
    /\ slots' = [s \in 1..id_count' |-> Unwritten]
    /\ UNCHANGED <<start, file, ptr, pc>>

CountLine ==
    /\ pc = "count" /\ ~eof
    /\ Fgets
    /\ id_count' = id_count + 1
    /\ slots' = [s \in 1..id_count' |-> Unwritten]
    /\ UNCHANGED <<start, file, ptr, pc>>

\* The array is allocated when the count is known.
Allocate ==
    /\ pc = "count" /\ eof
    /\ Open(file)
    /\ ptr' = 1
    /\ pc' = "load"
    /\ UNCHANGED <<start, file, id_count, slots>>

(***************************************************************************)
(* One iteration of load_dbc_data on the line just read.  The first sscanf *)
(* stores the identifier and the count; a line without one of them leaves  *)
(* the slot's own.  The sscanf of the case for three signals reads the         *)
(* identifier with "%d" in the server and gets 0 from "0x...".  Any other  *)
(* number of signals does not advance ptr; in v1 every line does.          *)
(***************************************************************************)
CountsIn(slot) == IF slot.count = Unknown THEN 0..MaxSignal ELSE {slot.count}

IdIn(slot, text) ==
    IF version = "server" /\ text.count = 3 THEN 0
    ELSE IF text.id = Blank THEN slot.id ELSE text.id

\* Wrong version: the slot's own count is not touched by the first sscanf.
FilledFirst(slot, text, count) == [id |-> IdIn(slot, text), count |-> slot.count]

Filled(slot, text, count) == [id |-> IdIn(slot, text), count |-> count]

LoadLine ==
    /\ pc = "load" /\ ~eof
    /\ Fgets
    /\ IF ptr > id_count
       THEN pc' = "overflow" /\ UNCHANGED <<slots, ptr>>
       ELSE \E count \in IF line'.count > 0 THEN {line'.count}
                         ELSE CountsIn(slots[ptr]) :
              /\ slots' = [slots EXCEPT ![ptr] = Filled(@, line', count)]
              /\ ptr' = IF count > 0 \/ version = "v1" THEN ptr + 1 ELSE ptr
              /\ UNCHANGED pc
    /\ UNCHANGED <<start, file, id_count>>

LoadDone ==
    /\ pc = "load" /\ eof
    /\ pc' = "ready"
    /\ UNCHANGED <<start, file, reading, id_count, slots, ptr>>

(***************************************************************************)
(* updateDBC: free, malloc of the same size, load.  The new block is the   *)
(* old one with its contents, or another.                                  *)
(***************************************************************************)
updateDBC ==
    /\ version = "server"
    /\ pc = "ready"
    /\ slots' \in {slots, [s \in 1..id_count |-> Unwritten]}
    /\ Open(file)
    /\ ptr' = 1
    /\ pc' = "load"
    /\ UNCHANGED <<start, file, id_count>>

\* An operator replaces DBC.csv.
Edit ==
    /\ \E f \in FilesOf(version) :
         /\ f # file
         /\ file' = f
    /\ UNCHANGED <<start, reading, id_count, slots, ptr, pc>>

Next == CountLine \/ Allocate \/ LoadLine \/ LoadDone \/ updateDBC \/ Edit

Spec == Init /\ [][Next]_vars

-------------------------------------------------------------------------------
(***************************************************************************)
(* load_dbc_data writes past the block that was allocated at the start     *)
(* only when the file it reads has more lines than the file of the start:  *)
(* counting and loading agree on every file, with and without a newline at *)
(* its end, and whatever is replaced between them.                         *)
(***************************************************************************)
OverflowMeansGrown ==
    pc = "overflow" => Iterations(opened) > Iterations(counted)

(***************************************************************************)
(* After a load, every entry of the file is in a slot with its identifier  *)
(* and its number of signals - except, in the server, those of three.      *)
(***************************************************************************)
LoadedEntry(k) == \E s \in 1..id_count : slots[s] = opened.lines[k]

IsEntry(k) == opened.lines[k].count > 0

\* The entries whose identifier the server loses.
Spoiled(k) == version = "server" /\ opened.lines[k].count = 3

EntriesLoaded ==
    pc = "ready" => \A k \in 1..Len(opened.lines) :
                       IsEntry(k) /\ ~Spoiled(k) => LoadedEntry(k)

===============================================================================
