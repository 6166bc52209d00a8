-------------------------------- MODULE CanFile --------------------------------
(***************************************************************************)
(* CAN_read appends every frame it reads from the bus to can_data.csv; the *)
(* converter of the first version (CAN_convert_git) reads the file line by *)
(* line, converts each line and removes the file.  The second version      *)
(* (CAN_convert2_git) has the same loop for lines that no program of the   *)
(* repository writes: an operator copies files with them into place.  The  *)
(* programs share nothing else: no lock, no rename.                        *)
(*                                                                         *)
(* A frame is its number, for the time stamp and the identifier that the   *)
(* converter's sscanf stores.  A line reaches the file whole, in the write *)
(* of fclose.  fgets looks at the file only when its buffer is used up,    *)
(* and the file only grows, so it fails exactly when the file has no       *)
(* further line.  A byte of the struct is the frame it was stored from, or *)
(* 0 for what the memory held before.                                      *)
(***************************************************************************)
EXTENDS Naturals, Sequences

CONSTANTS MaxFrames,    \* bound: frames on the bus
          MaxCopy,      \* bound: lines of a copied file
          Bytes,        \* data bytes of a frame, 8 in the code
          NoFile        \* can_data.csv does not exist

ASSUME FramesAssumption == MaxFrames \in Nat
ASSUME CopyAssumption == MaxCopy \in Nat
ASSUME BytesAssumption == Bytes \in Nat
ASSUME NoFileAssumption == NoFile \notin Seq(1 .. MaxFrames)

Frames == 1 .. MaxFrames

VARIABLES
    version,    \* of the converter: "v1" or "v2"
    bytes,      \* how many data bytes the line of a frame has
    received,   \* frames read from the bus, or on copied lines
    held,       \* how many of them the writer is about to write
    wpc,        \* CAN_read: "socket", "read", "open", "write" or "exited";
                \* the operator of the second version: "idle", "open", "write"
    fptr,       \* the file it writes to: "none", "linked" or "removed"
    file,       \* the lines of can_data.csv
    nl,         \* whether the last line ends with a newline
    cpc,        \* the converter: "open", "lines" or "remove"
    pos,        \* lines it has taken from the open file
    eof,        \* feof
    data_frame, \* its struct
    converted   \* what it has converted, in order

config == <<version, bytes>>
writer == <<received, held, wpc, fptr>>
disk == <<file, nl>>
converter == <<cpc, pos, eof, data_frame, converted>>
vars == <<config, writer, disk, converter>>

Data == [frame : 0 .. MaxFrames, data : [1 .. Bytes -> 0 .. MaxFrames]]

TypeOK ==
    /\ version \in {"v1", "v2"}
    /\ bytes \in [Frames -> 0 .. Bytes]
    /\ received \in 0 .. MaxFrames
    /\ held \in 0 .. received
    /\ wpc \in {"socket", "idle", "read", "open", "write", "exited"}
    /\ fptr \in {"none", "linked", "removed"}
    /\ file = NoFile \/ file \in Seq(Frames)
    /\ nl \in BOOLEAN
    /\ cpc \in {"open", "lines", "remove"}
    /\ pos \in 0 .. MaxFrames
    /\ eof \in BOOLEAN
    /\ data_frame \in Data
    /\ converted \in Seq(Data)

(* write_to_file prints all eight bytes, whatever the length of the frame. *)
Init ==
    /\ version \in {"v1", "v2"}
    /\ bytes \in [Frames -> IF version = "v1" THEN {Bytes} ELSE 0 .. Bytes]
    /\ received = 0 /\ held = 0
    /\ wpc = (IF version = "v1" THEN "socket" ELSE "idle")
    /\ fptr = "none"
    /\ file = NoFile /\ nl = TRUE
    /\ cpc = "open" /\ pos = 0 /\ eof = FALSE
    /\ data_frame = [frame |-> 0, data |-> [b \in 1 .. Bytes |-> 0]]
    /\ converted = <<>>

-----------------------------------------------------------------------------
(* CAN_read, for the first version *)

OpenSocket ==
    /\ wpc = "socket"
    /\ wpc' \in {"read", "exited"}
    /\ UNCHANGED <<config, received, held, fptr, disk, converter>>

ReadFrame ==
    /\ wpc = "read"
    /\ received < MaxFrames
    /\ received' = received + 1
    /\ held' = 1
    /\ wpc' = "open"
    /\ UNCHANGED <<config, fptr, disk, converter>>

ReadFails ==
    /\ wpc = "read"
    /\ wpc' = "exited"
    /\ UNCHANGED <<config, received, held, fptr, disk, converter>>

OpenAppend ==
    /\ wpc = "open"
    /\ file' = IF file = NoFile THEN <<>> ELSE file
    /\ fptr' = "linked"
    /\ wpc' = "write"
    /\ UNCHANGED <<config, received, held, nl, converter>>

(* Without a FILE fprintf ends the program, and the frame is lost. *)
OpenFails ==
    /\ version = "v1"
    /\ wpc = "open"
    /\ wpc' = "exited"
    /\ UNCHANGED <<config, received, held, fptr, disk, converter>>

Lines == [k \in 1 .. held |-> received - held + k]

CloseAppend ==
    /\ wpc = "write"
    /\ file' = IF fptr = "linked" THEN file \o Lines ELSE file
    /\ fptr' = "none"
    /\ held' = 0
    /\ wpc' = IF version = "v1" THEN "read" ELSE "idle"
    /\ UNCHANGED <<config, received, nl, converter>>

(* The operator, for the second version, makes a file when there is none,  *)
(* whose last line may lack its newline.                                   *)
CopyFile ==
    /\ wpc = "idle"
    /\ file = NoFile
    /\ \E lines \in 1 .. MaxCopy :
         /\ received + lines <= MaxFrames
         /\ received' = received + lines
         /\ held' = lines
    /\ nl' \in BOOLEAN
    /\ wpc' = "open"
    /\ UNCHANGED <<config, fptr, file, converter>>

-----------------------------------------------------------------------------
(* The converter *)

\* Wrong version: a missing file ends the program.
OpenOrExit ==
    /\ cpc = "open"
    /\ cpc' = IF file = NoFile THEN "exit" ELSE "lines"
    /\ pos' = 0
    /\ eof' = FALSE
    /\ UNCHANGED <<config, writer, disk, data_frame, converted>>

(* Without a file the program sleeps and tries again. *)
OpenRead ==
    /\ cpc = "open"
    /\ file # NoFile
    /\ cpc' = "lines"
    /\ pos' = 0
    /\ eof' = FALSE
    /\ UNCHANGED <<config, writer, disk, data_frame, converted>>

\* Wrong version: the first data byte of the line is passed over.
ScanRest(f) ==
    [frame |-> f,
     data |-> [b \in 1 .. Bytes |->
                 IF version = "v2" /\ 1 < b /\ b <= bytes[f] THEN f ELSE data_frame.data[b]]]

(* sscanf: the "%02 " of the first version stops it before the first data  *)
(* byte; the second stores the bytes that the line has.                    *)
Scan(f) ==
    [frame |-> f,
     data |-> [b \in 1 .. Bytes |->
                 IF version = "v2" /\ b <= bytes[f] THEN f ELSE data_frame.data[b]]]

GetLine ==
    /\ cpc = "lines"
    /\ ~eof
    /\ pos < Len(file)
    /\ pos' = pos + 1
    /\ eof' = (pos + 1 = Len(file) /\ ~nl)
    /\ data_frame' = Scan(file[pos + 1])
    /\ converted' = Append(converted, data_frame')
    /\ UNCHANGED <<config, writer, disk, cpc>>

\* Wrong version: the end of the file counts as a line.
GetNothingPast ==
    /\ cpc = "lines"
    /\ ~eof
    /\ pos = Len(file)
    /\ pos' = pos + 1
    /\ eof' = TRUE
    /\ converted' = Append(converted, data_frame)
    /\ UNCHANGED <<config, writer, disk, cpc, data_frame>>

(* fgets fails and leaves the line as it was; the line, or what the struct *)
(* holds when nothing can be scanned from it, is converted nevertheless.   *)
GetNothing ==
    /\ cpc = "lines"
    /\ ~eof
    /\ pos = Len(file)
    /\ eof' = TRUE
    /\ converted' = Append(converted, data_frame)
    /\ UNCHANGED <<config, writer, disk, cpc, pos, data_frame>>

CloseRead ==
    /\ cpc = "lines"
    /\ eof
    /\ cpc' = "remove"
    /\ UNCHANGED <<config, writer, disk, pos, eof, data_frame, converted>>

\* Wrong version: the file stays.
Keep ==
    /\ cpc = "remove"
    /\ cpc' = "open"
    /\ UNCHANGED <<config, writer, disk, pos, eof, data_frame, converted>>

Remove ==
    /\ cpc = "remove"
    /\ file' = NoFile
    /\ fptr' = IF fptr = "linked" THEN "removed" ELSE fptr
    /\ cpc' = "open"
    /\ UNCHANGED <<config, received, held, wpc, nl, pos, eof, data_frame, converted>>

Write == OpenAppend \/ OpenFails \/ CloseAppend
Convert == OpenRead \/ GetLine \/ GetNothing \/ CloseRead \/ Remove
Next == OpenSocket \/ ReadFrame \/ ReadFails \/ CopyFile \/ Write \/ Convert

Spec == Init /\ [][Next]_vars

(* Both programs run on; the bus need not carry anything. *)
FairSpec == Spec /\ WF_vars(Write) /\ WF_vars(Convert)

-----------------------------------------------------------------------------
(* Frames are converted in the order of the bus, only the last one again,  *)
(* and leftovers of the memory only before the first: the hand-over does   *)
(* what FrameLog says, with nothing but the file between the programs.     *)
Shown == [k \in 1 .. Len(converted) |-> converted[k].frame]
Log == INSTANCE FrameLog WITH converted <- Shown
ImplementsFrameLog == Log!Spec

(* Frame f was converted with a line that has byte b. *)
Carries(k, b) == converted[k].frame # 0 /\ b <= bytes[converted[k].frame]

(* A byte that the line of a frame does not have is converted all the same *)
(* as the byte of the last line that had it, and as what the memory held   *)
(* if there was none; the first version converts memory only.              *)
LatestByte(k, b) ==
    LET g == converted[k].data[b]
    IN  \/ /\ g = 0
           /\ version = "v2" => \A j \in 1 .. k : ~Carries(j, b)
        \/ /\ version = "v2"
           /\ \E j \in 1 .. k : /\ Carries(j, b) /\ converted[j].frame = g
                                /\ \A i \in j + 1 .. k : ~Carries(i, b)
BytesAreLatest == \A k \in 1 .. Len(converted), b \in 1 .. Bytes : LatestByte(k, b)

(* A frame that is still to be converted: in the writer's hands, or in the *)
(* file behind what the converter has taken.                               *)
Taken == IF cpc = "open" THEN 0 ELSE pos
Waiting(f) ==
    \/ wpc \in {"open", "write"} /\ f \in received - held + 1 .. received
    \/ file # NoFile /\ \E k \in 1 .. Len(file) : k > Taken /\ file[k] = f

(* No frame waits for ever: it is converted, goes with a removed file, or  *)
(* is lost with CAN_read itself when the file cannot be opened.            *)
NoFrameWaits == \A f \in Frames : Waiting(f) ~> ~Waiting(f)

================================================================================
