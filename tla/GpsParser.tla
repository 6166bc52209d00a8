------------------------------- MODULE GpsParser -------------------------------
(***************************************************************************)
(* The GPS parser: reads NMEA sentences from a serial port, one line a     *)
(* read, and puts position, speed and time frames on the CAN bus.  It is   *)
(* a systemd service that is started again whenever it ends.               *)
(*                                                                         *)
(* A line is what main takes from it: who sent it, its type, whether it    *)
(* has a "*", the two digits behind it, the exclusive or of the characters *)
(* before it, and the numbers in its fields (0 for an empty one, as strtod *)
(* says; latitude, longitude and speed already scaled by 100000 and 1000). *)
(* A position or speed frame remembers the line it was made from.  A line  *)
(* with a valid checksum has the fields its type has in NMEA 0183: of a    *)
(* shorter one main would read pointers it never set.                      *)
(***************************************************************************)
EXTENDS Integers, Sequences

CONSTANTS
    Lines,      \* the lines the receiver may send
    Period,     \* 30: the counter is compared with this
    MaxT,       \* 255: the largest uint8_t
    MaxLines    \* bound: lines accepted

HexDigit == -1 .. 15                \* -1 for a character that is none
MaxInt == 2147483647
Fields == {2, 4, 7}                 \* latitude, longitude; speed
Line == [talker : {"$GP", "$GN", "other"}, type : {"GGA", "VTG", "other"},
         star : BOOLEAN, high : HexDigit, low : HexDigit, xor : 0 .. 255,
         field : [Fields -> 0 .. MaxInt]]

ASSUME LinesAssumption == Lines \subseteq Line
ASSUME CounterAssumption == Period \in Nat /\ MaxT \in Nat /\ Period < MaxT

VARIABLES
    gpc,        \* "start", "read", "count" (after a speed frame) or "exited"
    fd,         \* what read() reads: "gps" or "nothing"
    plugged,    \* the receiver is there
    can,        \* the CAN interface is up
    bound,      \* the socket is bound to it
    t,          \* the counter of the time message
    speeds,     \* speed sentences since the last time message, or the start
    said,       \* lines accepted so far
    bus         \* every frame that went over the bus

parser == <<gpc, fd, bound, t, speeds, said, bus>>
board == <<plugged, can>>
vars == <<parser, board>>

LineFrame == [id : {"position", "speed"}, line : Lines, data : Seq(0 .. 255)]
Frame == LineFrame \cup [id : {"time"}, data : Seq(0 .. 255)]

TypeOK ==
    /\ gpc \in {"start", "read", "count", "exited"}
    /\ fd \in {"gps", "nothing"}
    /\ plugged \in BOOLEAN /\ can \in BOOLEAN /\ bound \in BOOLEAN
    /\ t \in 0 .. MaxT
    /\ speeds \in Nat /\ said \in Nat
    /\ bus \in Seq(Frame)

Shift(n) == n \div 256                \* n >> 8
\* Wrong version: the shifted number, not its last eight bits.
BytesWide(n) == <<Shift(Shift(Shift(n))), Shift(Shift(n)), Shift(n), n>>
Bytes(n) == <<Shift(Shift(Shift(n))) % 256, Shift(Shift(n)) % 256,
              Shift(n) % 256, n % 256>>

PositionFrame(l) == [id |-> "position", line |-> l,
                     data |-> Bytes(l.field[2]) \o Bytes(l.field[4])]
\* Wrong version: the bytes of the speed in the other order.
SpeedFrameLittle(l) == [id |-> "speed", line |-> l,
                        data |-> <<Bytes(l.field[7])[4], Bytes(l.field[7])[3]>>]
SpeedFrame(l) == [id |-> "speed", line |-> l,
                  data |-> <<Bytes(l.field[7])[3], Bytes(l.field[7])[4]>>]
TimeFrame(now) == [id |-> "time", data |-> Bytes(now)]

Init ==
    /\ gpc = "start" /\ fd = "nothing"
    /\ plugged \in BOOLEAN /\ can \in BOOLEAN /\ bound = FALSE
    /\ t = 0 /\ speeds = 0
    /\ said = 0
    /\ bus = <<>>

-----------------------------------------------------------------------------
(* OpenGPSPort says 1 when it cannot open the port; main takes that for a  *)
(* descriptor and reads the journal's end of stdout, which is empty.       *)
(* Nor does it look at what ioctl says: where there is no CAN interface    *)
(* the index stays 0, bind takes that for all interfaces and succeeds, and *)
(* no write of this run will.  An interface that is there but down is      *)
(* bound all the same.                                                     *)
Start ==
    /\ gpc = "start"
    /\ fd' = IF plugged THEN "gps" ELSE "nothing"
    /\ bound' \in IF can THEN {TRUE} ELSE BOOLEAN
    /\ gpc' = "read"
    /\ t' \in 0 .. MaxT                            \* uninitialized
    /\ speeds' = 0
    /\ UNCHANGED <<said, bus, board>>

hex2int(high, low) == high * 16 + low
checksum_valid(l) == l.star /\ hex2int(l.high, l.low) = l.xor
Accepted(l) == checksum_valid(l) /\ l.talker \in {"$GP", "$GN"}

(* SendCANdata: a write that fails is printed and forgotten. *)
Send(frame) == bus' \in IF can /\ bound THEN {bus, Append(bus, frame)} ELSE {bus}

Read(l) ==
    /\ gpc = "read" /\ fd = "gps"
    /\ Accepted(l)
    /\ said < MaxLines
    /\ said' = said + 1
    /\ UNCHANGED <<fd, bound, t, board>>

ReadGGA(l) ==
    /\ l.type = "GGA"
    /\ Read(l)
    /\ Send(PositionFrame(l))
    /\ UNCHANGED <<gpc, speeds>>

ReadVTG(l) ==
    /\ l.type = "VTG"
    /\ Read(l)
    /\ Send(SpeedFrame(l))
    /\ speeds' = speeds + 1
    /\ gpc' = "count"

ReadOther(l) ==
    /\ gpc = "read" /\ fd = "gps"
    /\ ~Accepted(l) \/ l.type = "other"
    /\ UNCHANGED <<parser, board>>

\* Wrong version: the time goes out when the counter has just the value.
TimeDueOnce == t = Period + 1
TimeDue == t > Period

SendTime ==
    /\ gpc = "count"
    /\ TimeDue
    /\ Send(TimeFrame(said))
    /\ t' = 0 /\ speeds' = 0
    /\ gpc' = "read"
    /\ UNCHANGED <<fd, bound, said, board>>

Count ==
    /\ gpc = "count"
    /\ ~TimeDue
    /\ t' = (t + 1) % (MaxT + 1)
    /\ gpc' = "read"
    /\ UNCHANGED <<fd, bound, speeds, said, bus, board>>

\* Wrong version: reads again.
ReadNothingAgain ==
    /\ gpc = "read"
    /\ fd = "nothing"
    /\ UNCHANGED <<parser, board>>

(* The end of the port, or of what stands in for it: the program returns. *)
ReadNothing ==
    /\ gpc = "read"
    /\ fd = "nothing"
    /\ gpc' = "exited"
    /\ UNCHANGED <<fd, bound, t, speeds, said, bus, board>>

Restart ==
    /\ gpc = "exited"
    /\ gpc' = "start"
    /\ UNCHANGED <<fd, bound, t, speeds, said, bus, board>>

(* The receiver's plug, and the interface.  An open port does not come     *)
(* back with the plug.                                                     *)
Unplug ==
    /\ plugged
    /\ plugged' = FALSE /\ fd' = "nothing"
    /\ UNCHANGED <<gpc, can, bound, t, speeds, said, bus>>

Plug ==
    /\ ~plugged
    /\ plugged' = TRUE
    /\ UNCHANGED <<parser, can>>

CanChanges ==
    /\ can' = ~can
    /\ UNCHANGED <<parser, plugged>>

Program == Start \/ SendTime \/ Count \/ ReadNothing \/ Restart
Receiver == \E l \in Lines : ReadGGA(l) \/ ReadVTG(l) \/ ReadOther(l)

Next == Program \/ Receiver \/ Unplug \/ Plug \/ CanChanges

Spec == Init /\ [][Next]_vars

(* The program runs on and systemd restarts it; the receiver need not send *)
(* anything, nor the interface and the plug change.                        *)
FairSpec == Spec /\ WF_vars(Program)

-----------------------------------------------------------------------------
(* What the frames say, read most significant byte first as DBC.csv does.  *)
Half(data) == data[1] * 256 + data[2]
Word(data, k) == ((data[k] * 256 + data[k+1]) * 256 + data[k+2]) * 256 + data[k+3]

(* A position or a speed on the bus is made of one line whose checksum was *)
(* right and which a GPS receiver sent: it shows that line's latitude and  *)
(* longitude, or that line's speed as far as two bytes can.                *)
ShowsItsLine(f) ==
    /\ f.id # "time" => Accepted(f.line)
    /\ f.id = "position" =>
          /\ f.line.type = "GGA"
          /\ Word(f.data, 1) = f.line.field[2]
          /\ Word(f.data, 5) = f.line.field[4]
    /\ f.id = "speed" =>
          /\ f.line.type = "VTG"
          /\ f.line.field[7] < 65536 <=> Half(f.data) = f.line.field[7]

FramesShowTheirLines == \A k \in DOMAIN bus : ShowsItsLine(bus[k])

(* "Approximately once every 30 seconds", with one speed sentence a        *)
(* second: no more than Period + 1 of them pass before a time message is   *)
(* written, whatever the counter held when the program started.            *)
TimeIsSent == speeds <= Period + (IF gpc = "count" THEN 2 ELSE 1)

(* With the receiver plugged in the parser ends up reading it, although it *)
(* did not notice that opening failed.                                     *)
ParserListens == <>[]plugged => <>[](gpc \in {"read", "count"} /\ fd = "gps")

================================================================================
