------------------------------ MODULE GpsProofs ------------------------------
(***************************************************************************)
(* Proofs about GpsParser, for any lines, any period and any counter.      *)
(***************************************************************************)
EXTENDS GpsParser, SequenceTheorems, TLAPS

USE DEF vars, parser, board

LEMMA ShiftOne ==
    ASSUME NEW n \in Nat
    PROVE  \E a \in Nat : a = Shift(n) /\ n = 256 * a + (n % 256) /\ n % 256 \in 0 .. 255
<1>1. Shift(n) \in Nat /\ n = 256 * Shift(n) + (n % 256) /\ n % 256 \in 0 .. 255
  BY SMT DEF Shift
<1> QED
  BY <1>1

LEMMA MaxIntNat == MaxInt \in Nat
  BY SMT DEF MaxInt

LEMMA ShiftBound ==
    ASSUME NEW n \in Nat, n <= MaxInt
    PROVE  Shift(Shift(Shift(n))) < 128
<1>1. n <= 2147483647
  BY SMT DEF MaxInt
<1>2. PICK a \in Nat : a = Shift(n) /\ a <= 8388607
  BY <1>1, SMT DEF Shift
<1>3. PICK b \in Nat : b = Shift(a) /\ b <= 32767
  BY <1>2, SMT DEF Shift
<1>4. Shift(b) < 128
  BY <1>3, SMT DEF Shift
<1> QED
  BY <1>1, <1>2, <1>3, <1>4

LEMMA BytesAreBytes ==
    ASSUME NEW n \in Nat
    PROVE  /\ Bytes(n) \in Seq(0 .. 255) /\ Len(Bytes(n)) = 4
           /\ <<Bytes(n)[3], Bytes(n)[4]>> \in Seq(0 .. 255)
<1>1. PICK a \in Nat : a = Shift(n) /\ n = 256 * a + (n % 256) /\ n % 256 \in 0 .. 255
  BY ShiftOne
<1>2. PICK b \in Nat : b = Shift(a) /\ a = 256 * b + (a % 256) /\ a % 256 \in 0 .. 255
  BY ShiftOne
<1>3. PICK c \in Nat : c = Shift(b) /\ b = 256 * c + (b % 256) /\ b % 256 \in 0 .. 255
  BY ShiftOne
<1>4. c % 256 \in 0 .. 255
  BY SMT
<1>5. Bytes(n) = <<c % 256, b % 256, a % 256, n % 256>>
  BY <1>1, <1>2, <1>3 DEF Bytes
<1> QED
  BY <1>1, <1>2, <1>3, <1>4, <1>5

(* Four bytes, most significant first, say the number they were made of.   *)
LEMMA BytesSay ==
    ASSUME NEW n \in Nat, n <= MaxInt
    PROVE  Word(Bytes(n), 1) = n
<1>1. PICK a \in Nat : a = Shift(n) /\ n = 256 * a + (n % 256) /\ n % 256 \in 0 .. 255
  BY ShiftOne
<1>2. PICK b \in Nat : b = Shift(a) /\ a = 256 * b + (a % 256) /\ a % 256 \in 0 .. 255
  BY ShiftOne
<1>3. PICK c \in Nat : c = Shift(b) /\ b = 256 * c + (b % 256) /\ b % 256 \in 0 .. 255
  BY ShiftOne
<1>4. c < 128
  BY <1>1, <1>2, <1>3, ShiftBound
<1>5. c % 256 = c
  BY <1>4, SMT
<1>6. Bytes(n) = <<c, b % 256, a % 256, n % 256>>
  BY <1>1, <1>2, <1>3, <1>5 DEF Bytes
<1>7. Word(Bytes(n), 1) = ((c * 256 + (b % 256)) * 256 + (a % 256)) * 256 + (n % 256)
  BY <1>6 DEF Word
<1>8. c * 256 + (b % 256) = b
  BY <1>3
<1>9. b * 256 + (a % 256) = a
  BY <1>2
<1>10. a * 256 + (n % 256) = n
  BY <1>1
<1> QED
  BY <1>7, <1>8, <1>9, <1>10

(* The last two say it when it is below 65536, and only then.              *)
LEMMA HalfSays ==
    ASSUME NEW n \in Nat
    PROVE  n < 65536 <=> Half(<<Bytes(n)[3], Bytes(n)[4]>>) = n
<1>1. PICK a \in Nat : a = Shift(n) /\ n = 256 * a + (n % 256) /\ n % 256 \in 0 .. 255
  BY ShiftOne
<1>2. a % 256 \in 0 .. 255 /\ (a < 256 <=> a % 256 = a)
  BY SMT
<1>3. n < 65536 <=> a < 256
  BY <1>1
<1>4. Bytes(n)[3] = a % 256 /\ Bytes(n)[4] = n % 256
  BY <1>1 DEF Bytes
<1>5. Half(<<Bytes(n)[3], Bytes(n)[4]>>) = (a % 256) * 256 + (n % 256)
  BY <1>4 DEF Half
<1> QED
  BY <1>1, <1>2, <1>3, <1>5

(***************************************************************************)
(* Type correctness                                                        *)
(***************************************************************************)
LEMMA FieldsOfLine ==
    ASSUME NEW l \in Lines, NEW k \in Fields
    PROVE  l.field[k] \in Nat /\ l.field[k] <= MaxInt
<1>1. l \in Line
  BY LinesAssumption
<1>2. l.field \in [Fields -> 0 .. MaxInt]
  BY <1>1 DEF Line
<1> QED
  BY <1>2, MaxIntNat

LEMMA FieldsThere == 2 \in Fields /\ 4 \in Fields /\ 7 \in Fields
  BY DEF Fields

(* Frames have bytes for data.                                             *)
LEMMA FrameTypes ==
    ASSUME NEW l \in Lines
    PROVE  /\ PositionFrame(l) \in Frame
           /\ SpeedFrame(l) \in Frame
<1>1. Bytes(l.field[2]) \o Bytes(l.field[4]) \in Seq(0 .. 255)
  BY FieldsThere, FieldsOfLine, BytesAreBytes, ConcatProperties
<1>2. <<Bytes(l.field[7])[3], Bytes(l.field[7])[4]>> \in Seq(0 .. 255)
  BY FieldsThere, FieldsOfLine, BytesAreBytes
<1> QED
  BY <1>1, <1>2 DEF PositionFrame, SpeedFrame, Frame, LineFrame

LEMMA TimeType ==
    ASSUME NEW n \in Nat
    PROVE  TimeFrame(n) \in Frame
<1>1. [id |-> "time", data |-> Bytes(n)] \in [id : {"time"}, data : Seq(0 .. 255)]
  BY BytesAreBytes
<1> QED
  BY <1>1 DEF TimeFrame, Frame

(* Init and every step keep the types.                                     *)
LEMMA TypeInit == Init => TypeOK
<1> SUFFICES ASSUME Init PROVE TypeOK
  OBVIOUS
<1>1. 0 \in 0 .. MaxT /\ 0 \in Nat
  BY CounterAssumption
<1>2. bound \in BOOLEAN /\ plugged \in BOOLEAN /\ can \in BOOLEAN
  BY DEF Init
<1>3. bus = <<>> /\ <<>> \in Seq(Frame)
  BY DEF Init
<1> QED
  BY <1>1, <1>2, <1>3 DEF Init, TypeOK

LEMMA TypeStep == TypeOK /\ [Next]_vars => TypeOK'
<1> SUFFICES ASSUME TypeOK, [Next]_vars PROVE TypeOK'
  OBVIOUS
<1>1. ASSUME NEW f \in Frame, Send(f) PROVE bus' \in Seq(Frame)
  <2>1. bus \in Seq(Frame) /\ Append(bus, f) \in Seq(Frame)
    BY <1>1, AppendProperties DEF TypeOK
  <2>2. bus' = bus \/ bus' = Append(bus, f)
    BY <1>1 DEF Send
  <2> QED
    BY <2>1, <2>2
<1>3. ASSUME NEW l \in Lines, ReadGGA(l) PROVE TypeOK'
  <2>1. bus' \in Seq(Frame)
    BY <1>1, <1>3, FrameTypes DEF ReadGGA
  <2> QED
    BY <1>3, <2>1 DEF ReadGGA, Read, TypeOK
<1>4. ASSUME NEW l \in Lines, ReadVTG(l) PROVE TypeOK'
  <2>1. bus' \in Seq(Frame)
    BY <1>1, <1>4, FrameTypes DEF ReadVTG
  <2> QED
    BY <1>4, <2>1 DEF ReadVTG, Read, TypeOK
<1>5. CASE SendTime
  <2>1. bus' \in Seq(Frame)
    BY <1>1, <1>5, TimeType DEF SendTime, TypeOK
  <2>2. 0 \in 0 .. MaxT
    BY CounterAssumption
  <2> QED
    BY <1>5, <2>1, <2>2 DEF SendTime, TypeOK
<1>6. CASE Count
  <2>1. (t + 1) % (MaxT + 1) \in 0 .. MaxT
    BY CounterAssumption, SMT DEF TypeOK
  <2> QED
    BY <1>6, <2>1 DEF Count, TypeOK
<1>7. CASE Start
  BY <1>7 DEF Start, TypeOK
<1>8. CASE ReadNothing \/ Restart
  BY <1>8 DEF ReadNothing, Restart, TypeOK
<1>9. CASE Unplug \/ Plug \/ CanChanges
  BY <1>9 DEF Unplug, Plug, CanChanges, TypeOK
<1>10. ASSUME NEW l \in Lines, ReadOther(l) PROVE TypeOK'
  BY <1>10 DEF ReadOther, TypeOK
<1>11. CASE UNCHANGED vars
  BY <1>11 DEF TypeOK
<1> QED
  BY <1>3, <1>4, <1>5, <1>6, <1>7, <1>8, <1>9, <1>10, <1>11 DEF Next, Program, Receiver

(* Every reachable state has its types: the data of a frame are bytes.     *)
THEOREM TypeCorrect == Spec => []TypeOK
  BY TypeInit, TypeStep, PTL DEF Spec

(***************************************************************************)
(* The time message: what the counter and the speeds have to do with each  *)
(* other.  An uninitialized counter is above the speeds, or above Period.  *)
(***************************************************************************)
CounterInv ==
    /\ gpc # "count" => speeds <= t /\ (speeds = 0 \/ t <= Period + 1)
    /\ gpc = "count" => speeds <= t + 1 /\ (speeds <= 1 \/ t <= Period + 1)

LEMMA CounterStep == TypeOK /\ CounterInv /\ [Next]_vars => CounterInv'
<1> SUFFICES ASSUME TypeOK, CounterInv, [Next]_vars PROVE CounterInv'
  OBVIOUS
<1> USE CounterAssumption DEF CounterInv, TypeOK
<1>1. ASSUME NEW l \in Lines, ReadGGA(l) \/ ReadOther(l) PROVE CounterInv'
  BY <1>1 DEF ReadGGA, ReadOther, Read
<1>2. ASSUME NEW l \in Lines, ReadVTG(l) PROVE CounterInv'
  BY <1>2 DEF ReadVTG, Read
<1>3. CASE SendTime
  BY <1>3 DEF SendTime
<1>4. CASE Count
  <2>1. t <= Period /\ t + 1 < MaxT + 1 /\ t \in Nat
    BY <1>4 DEF Count, TimeDue
  <2>2. t' = t + 1
    BY <1>4, <2>1, SMT DEF Count
  <2> QED
    BY <1>4, <2>1, <2>2 DEF Count
<1>5. CASE Start
  BY <1>5 DEF Start
<1>6. CASE ReadNothing \/ Restart \/ Unplug \/ Plug \/ CanChanges \/ UNCHANGED vars
  BY <1>6 DEF ReadNothing, Restart, Unplug, Plug, CanChanges
<1> QED
  BY <1>1, <1>2, <1>3, <1>4, <1>5, <1>6 DEF Next, Program, Receiver

LEMMA CounterMeans == TypeOK /\ CounterInv => TimeIsSent
  BY CounterAssumption DEF TypeOK, CounterInv, TimeIsSent

(* For every period below the largest counter value, and whatever the      *)
(* counter held at the start: at most Period + 2 speeds before a time.     *)
THEOREM TimeAlwaysSent == Spec => []TimeIsSent
<1>1. Init => CounterInv
  BY CounterAssumption DEF Init, CounterInv
<1> QED
  BY <1>1, TypeInit, TypeStep, CounterStep, CounterMeans, PTL DEF Spec

(***************************************************************************)
(* The frames say what their lines said.                                   *)
(***************************************************************************)
LEMMA WordsOfEight ==
    ASSUME NEW S, NEW p \in Seq(S), NEW q \in Seq(S), Len(p) = 4, Len(q) = 4
    PROVE  Word(p \o q, 1) = Word(p, 1) /\ Word(p \o q, 5) = Word(q, 1)
<1> DEFINE r == p \o q
<1>1. /\ \A i \in 1 .. 4 : r[i] = p[i]
      /\ \A i \in 5 .. 8 : r[i] = q[i - 4]
  <2>1. \A i \in 1 .. Len(p) + Len(q) : r[i] = IF i <= Len(p) THEN p[i] ELSE q[i - Len(p)]
    BY ConcatProperties
  <2> HIDE DEF r
  <2>2. \A i \in 1 .. 4 + 4 : r[i] = IF i <= 4 THEN p[i] ELSE q[i - 4]
    BY <2>1, Zenon
  <2> QED
    BY <2>2
<1> HIDE DEF r
<1>2. r[1] = p[1] /\ r[2] = p[2] /\ r[3] = p[3] /\ r[4] = p[4]
  BY <1>1
<1>3. r[5] = q[1] /\ r[6] = q[2] /\ r[7] = q[3] /\ r[8] = q[4]
  <2>1. r[5] = q[5 - 4] /\ r[6] = q[6 - 4] /\ r[7] = q[7 - 4] /\ r[8] = q[8 - 4]
    BY <1>1
  <2>2. 5 - 4 = 1 /\ 6 - 4 = 2 /\ 7 - 4 = 3 /\ 8 - 4 = 4
    OBVIOUS
  <2> QED
    BY <2>1, <2>2
<1>4. 1 + 1 = 2 /\ 1 + 2 = 3 /\ 1 + 3 = 4 /\ 5 + 1 = 6 /\ 5 + 2 = 7 /\ 5 + 3 = 8
  OBVIOUS
<1>5. Word(r, 1) = Word(p, 1) /\ Word(r, 5) = Word(q, 1)
  BY <1>2, <1>3, <1>4 DEF Word
<1> QED
  BY <1>5 DEF r

LEMMA PositionShows ==
    ASSUME NEW l \in Lines, Accepted(l), l.type = "GGA"
    PROVE  ShowsItsLine(PositionFrame(l))
<1> DEFINE f == PositionFrame(l)
<1>1. PICK p, q : p = Bytes(l.field[2]) /\ q = Bytes(l.field[4])
  OBVIOUS
<1>2. f.id = "position" /\ f.line = l /\ f.data = p \o q
  BY <1>1 DEF PositionFrame
<1>3. /\ p \in Seq(0 .. 255) /\ Len(p) = 4 /\ Word(p, 1) = l.field[2]
      /\ q \in Seq(0 .. 255) /\ Len(q) = 4 /\ Word(q, 1) = l.field[4]
  BY <1>1, FieldsThere, FieldsOfLine, BytesAreBytes, BytesSay
<1> HIDE DEF f
<1>4. Word(p \o q, 1) = Word(p, 1) /\ Word(p \o q, 5) = Word(q, 1)
  BY <1>3, WordsOfEight
<1>5. f.id # "speed" /\ Word(f.data, 1) = l.field[2] /\ Word(f.data, 5) = l.field[4]
  BY <1>2, <1>3, <1>4
<1>6. ShowsItsLine(f)
  BY <1>2, <1>5 DEF ShowsItsLine
<1> QED
  BY <1>6 DEF f

LEMMA SpeedShows ==
    ASSUME NEW l \in Lines, Accepted(l), l.type = "VTG"
    PROVE  ShowsItsLine(SpeedFrame(l))
<1> DEFINE f == SpeedFrame(l)
           d == <<Bytes(l.field[7])[3], Bytes(l.field[7])[4]>>
<1>1. f.id = "speed" /\ f.line = l /\ f.data = d
  BY DEF SpeedFrame
<1>2. l.field[7] < 65536 <=> Half(d) = l.field[7]
  BY FieldsThere, FieldsOfLine, HalfSays
<1> HIDE DEF d, f
<1>3. ShowsItsLine(f)
  BY <1>1, <1>2 DEF ShowsItsLine
<1> QED
  BY <1>3 DEF f

LEMMA ShowStep == TypeOK /\ FramesShowTheirLines /\ [Next]_vars => FramesShowTheirLines'
<1> SUFFICES ASSUME TypeOK, FramesShowTheirLines, [Next]_vars PROVE FramesShowTheirLines'
  OBVIOUS
<1>1. ASSUME NEW f \in Frame, ShowsItsLine(f), Send(f) PROVE FramesShowTheirLines'
  <2>1. CASE bus' = bus
    BY <2>1 DEF FramesShowTheirLines
  <2>2. CASE bus' = Append(bus, f)
    <3>1. /\ bus' \in Seq(Frame) /\ Len(bus') = Len(bus) + 1 /\ bus'[Len(bus) + 1] = f
          /\ \A k \in 1 .. Len(bus) : bus'[k] = bus[k]
      BY <2>2, AppendProperties DEF TypeOK
    <3>2. /\ Len(bus) \in Nat /\ DOMAIN bus = 1 .. Len(bus)
          /\ DOMAIN bus' = 1 .. Len(bus) + 1
      BY <3>1, LenProperties DEF TypeOK
    <3>3. ASSUME NEW k \in DOMAIN bus' PROVE ShowsItsLine(bus'[k])
      <4>1. CASE k \in 1 .. Len(bus)
        BY <3>1, <3>2, <4>1 DEF FramesShowTheirLines
      <4>2. CASE k = Len(bus) + 1
        BY <1>1, <3>1, <4>2
      <4> QED
        BY <3>2, <3>3, <4>1, <4>2
    <3> QED
      BY <3>3 DEF FramesShowTheirLines
  <2> QED
    BY <1>1, <2>1, <2>2 DEF Send
<1>2. ASSUME NEW l \in Lines, ReadGGA(l) PROVE FramesShowTheirLines'
  BY <1>1, <1>2, PositionShows, FrameTypes DEF ReadGGA, Read
<1>3. ASSUME NEW l \in Lines, ReadVTG(l) PROVE FramesShowTheirLines'
  BY <1>1, <1>3, SpeedShows, FrameTypes DEF ReadVTG, Read
<1>4. CASE SendTime
  <2>1. ShowsItsLine(TimeFrame(said)) /\ TimeFrame(said) \in Frame
    BY TimeType DEF ShowsItsLine, TimeFrame, TypeOK
  <2> QED
    BY <1>1, <1>4, <2>1 DEF SendTime
<1>5. CASE UNCHANGED bus
  BY <1>5 DEF FramesShowTheirLines
<1> QED
  BY <1>2, <1>3, <1>4, <1>5 DEF Next, Program, Receiver, Start, Count, ReadNothing,
     Restart, ReadOther, Unplug, Plug, CanChanges

(* Every position and speed frame on the bus, for all lines there can be.  *)
THEOREM FramesAlwaysShow == Spec => []FramesShowTheirLines
<1>1. Init => FramesShowTheirLines
  BY DEF Init, FramesShowTheirLines
<1> QED
  BY <1>1, TypeInit, TypeStep, ShowStep, PTL DEF Spec
==============================================================================
