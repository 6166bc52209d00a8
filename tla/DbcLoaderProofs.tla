---------------------------- MODULE DbcLoaderProofs ----------------------------
(***************************************************************************)
(* For every set of files: the loader's types, that it writes past its     *)
(* block only when it reads a file with more lines than the one that was   *)
(* counted, and that what it has read is in its slots.                     *)
(***************************************************************************)
EXTENDS DbcLoader, SequenceTheorems, TLAPS

\* The reading position agrees with feof and with the buffer.
ReadingOK ==
    /\ eof => pos = Len(opened.lines)
    /\ ~eof => (pos < Len(opened.lines) \/ opened.nl)
    /\ line = IF pos = 0 THEN Header ELSE opened.lines[pos]

\* How many times the loop has gone round.
Done == pos + (IF eof /\ opened.nl THEN 1 ELSE 0)

\* While counting there is a slot for each round, and nothing else is done.
CountOK == pc = "count" => id_count = Done /\ ptr = 1

\* The slot to fill next is at most one per round of the load.
PtrOK == pc = "load" => ptr <= Done + 1

\* The block has a slot for every round the loop goes on the file of the start.
RoomOK ==
    /\ pc = "count" => opened = counted
    /\ pc # "count" => id_count = Iterations(counted)

\* Every entry read so far is in a slot before the next one to fill.
FilledOK ==
    pc \in {"load", "ready"} =>
        /\ ptr <= id_count + 1
        /\ \A k \in 1..pos : IsEntry(k) /\ ~Spoiled(k) =>
             \E s \in 1..(ptr - 1) : slots[s] = opened.lines[k]

\* A load is over at the end of the file.
ReadyOK == pc = "ready" => eof

IInv ==
    /\ TypeOK
    /\ ReadingOK
    /\ CountOK
    /\ PtrOK
    /\ RoomOK
    /\ FilledOK
    /\ ReadyOK
    /\ OverflowMeansGrown

-------------------------------------------------------------------------------
\* What the assumption on Files says of one of them.
LEMMA FileType ==
    ASSUME NEW f \in Files
    PROVE  /\ f.lines \in Seq(Line)
           /\ Len(f.lines) \in Nat
           /\ f.nl \in BOOLEAN
           /\ Iterations(f) \in Nat
           /\ \A k \in 1..Len(f.lines) : f.lines[k] \in Line
<1>1. f \in File
  BY FilesAssumption
<1>2. f.lines \in Seq(Line) /\ f.nl \in BOOLEAN
  BY <1>1 DEF File
<1>3. Len(f.lines) \in Nat
  BY <1>2
<1>4. \A k \in 1..Len(f.lines) : f.lines[k] \in Line
  BY <1>2, ElementOfSeq
<1>5. Iterations(f) \in Nat
  <2>1. CASE f.nl
    BY <2>1, <1>3 DEF Iterations
  <2>2. CASE ~f.nl
    BY <2>2, <1>3 DEF Iterations
  <2>3. QED
    BY <2>1, <2>2
<1>6. QED
  BY <1>2, <1>3, <1>4, <1>5

\* The fields of a line.
LEMMA LineType ==
    \A l \in Line : /\ l.count \in 0..MaxSignal
                    /\ l.id \in CanId \cup {None, Blank, 0}
                    /\ l.count > 0 => l.id \in CanId \cup {None}
                    /\ l = [id |-> l.id, count |-> l.count]
BY DEF Line, MaxSignal

\* The header is a line without a number of signals: its count is 0.
LEMMA HeaderType == Header \in Line
BY DEF Header, Line, MaxSignal

\* Opening a file leaves the position before its first line.
LEMMA OpenReads ==
    ASSUME NEW f \in Files, Open(f), version' = version
    PROVE  /\ opened' \in Files /\ pos' = 0 /\ pos' \in 0..Len(opened'.lines)
           /\ eof' \in BOOLEAN /\ line' \in Line
           /\ ReadingOK'
           /\ Done' = (IF FALSE THEN 1 ELSE 0)
<1>1. f.lines \in Seq(Line) /\ Len(f.lines) \in Nat /\ f.nl \in BOOLEAN
  BY FileType
<1>2. Header \in Line /\ Header' = Header
  BY HeaderType DEF Header
<1>3. opened' = f /\ pos' = 0 /\ line' = Header /\ eof' = (Len(f.lines) = 0 /\ ~f.nl)
  BY DEF Open
<1>4. opened' \in Files /\ pos' \in 0..Len(opened'.lines) /\ eof' \in BOOLEAN /\ line' \in Line
  BY <1>1, <1>2, <1>3
<1>5. (eof' => pos' = Len(opened'.lines)) /\ (~eof' => (pos' < Len(opened'.lines) \/ opened'.nl))
  <2>1. eof' <=> Len(f.lines) = 0 /\ ~f.nl
    BY <1>3
  <2>2. eof' => pos' = Len(opened'.lines)
    BY <2>1, <1>3
  <2>3. ~eof' => pos' < Len(opened'.lines) \/ opened'.nl
    BY <2>1, <1>1, <1>3
  <2>4. QED
    BY <2>2, <2>3
<1>6. ~(eof' /\ opened'.nl)
  BY <1>3
<1>7. ReadingOK'
  BY <1>2, <1>3, <1>5 DEF ReadingOK
<1>8. Done' = 0
  BY <1>3, <1>6 DEF Done
<1>9. QED
  BY <1>3, <1>4, <1>7, <1>8

\* A read goes one round further, and stays in the file.
LEMMA FgetsReads ==
    ASSUME TypeOK, ReadingOK, ~eof, Fgets, version' = version
    PROVE  /\ opened' = opened /\ pos' \in 0..Len(opened.lines)
           /\ eof' \in BOOLEAN /\ line' \in Line
           /\ ReadingOK'
           /\ Done \in Nat /\ Done < Iterations(opened) /\ Done' = Done + 1
           /\ pos' \in {pos, pos + 1}
           /\ pos' = pos + 1 => line' = opened.lines[pos']
<1>1. opened.lines \in Seq(Line) /\ Len(opened.lines) \in Nat /\ opened.nl \in BOOLEAN
  BY FileType DEF TypeOK
<1>2. pos \in 0..Len(opened.lines) /\ pos \in Nat /\ line \in Line
  BY <1>1 DEF TypeOK
<1>3. Done = pos
  BY <1>2 DEF Done
<1>4. opened' = opened
  BY DEF Fgets
<1>5. Done \in Nat /\ Done < Iterations(opened)
  <2>1. CASE opened.nl
    BY <2>1, <1>1, <1>2, <1>3 DEF Iterations
  <2>2. CASE ~opened.nl
    <3>1. pos < Len(opened.lines)
      BY <2>2 DEF ReadingOK
    <3>2. Iterations(opened) = Len(opened.lines)
      BY <2>2, <1>1 DEF Iterations
    <3>3. QED
      BY <3>1, <3>2, <1>2, <1>3
  <2>3. QED
    BY <2>1, <2>2
<1>6. CASE pos < Len(opened.lines)
  <2>1. pos' = pos + 1 /\ line' = opened.lines[pos + 1]
        /\ eof' = (pos + 1 = Len(opened.lines) /\ ~opened.nl)
    BY <1>6 DEF Fgets
  <2>2. pos + 1 \in 1..Len(opened.lines)
    BY <1>6, <1>1, <1>2
  <2>3. opened.lines[pos + 1] \in Line
    BY <2>2, <1>1, ElementOfSeq
  <2>4. ~(eof' /\ opened'.nl)
    BY <2>1, <1>4
  <2>5. Done' = Done + 1
    BY <2>1, <2>4, <1>3 DEF Done
  <2>6. ReadingOK'
    <3>1. eof' <=> pos + 1 = Len(opened.lines) /\ ~opened.nl
      BY <2>1
    <3>2. eof' => pos' = Len(opened'.lines)
      BY <3>1, <2>1, <1>4
    <3>3. ~eof' => pos' < Len(opened'.lines) \/ opened'.nl
      BY <3>1, <2>1, <2>2, <1>4, <1>1, <1>2
    <3>4. pos' # 0
      BY <2>1, <1>2
    <3>5. QED
      BY <3>2, <3>3, <3>4, <2>1, <1>4 DEF ReadingOK
  <2>7. pos' \in 0..Len(opened.lines) /\ eof' \in BOOLEAN /\ line' \in Line
    BY <2>1, <2>2, <2>3, <1>1
  <2>8. QED
    BY <2>1, <2>5, <2>6, <2>7, <1>4, <1>5
<1>7. CASE ~(pos < Len(opened.lines))
  <2>1. pos' = pos /\ line' = line /\ eof' = TRUE
    BY <1>7 DEF Fgets
  <2>2. pos = Len(opened.lines) /\ opened.nl
    BY <1>7, <1>1, <1>2 DEF ReadingOK
  <2>3. Done' = Done + 1
    BY <2>1, <2>2, <1>3, <1>4, <1>2 DEF Done
  <2>4. ReadingOK'
    BY <2>1, <2>2, <1>4, <1>2 DEF ReadingOK, Header
  <2>5. QED
    BY <2>1, <2>3, <2>4, <1>2, <1>4, <1>5
<1>8. QED
  BY <1>6, <1>7

\* What a load stores is a slot; an entry is stored as it is, but for those of
\* three signals in the server.
LEMMA FilledSlot ==
    ASSUME NEW slot \in Slot, NEW text \in Line, NEW count \in 0..MaxSignal
    PROVE  /\ Filled(slot, text, count) \in Slot
           /\ text.count > 0 /\ ~(version = "server" /\ text.count = 3) /\ count = text.count
                => Filled(slot, text, count) = text
<1>1. slot.id \in CanId \cup {None, 0}
  BY DEF Slot
<1>2. IdIn(slot, text) \in CanId \cup {None, 0}
  BY <1>1, LineType DEF IdIn
<1>3. Filled(slot, text, count) \in Slot
  BY <1>2 DEF Filled, Slot
<1>4. ASSUME text.count > 0, ~(version = "server" /\ text.count = 3), count = text.count
      PROVE  Filled(slot, text, count) = text
  <2>1. text.id # Blank
    BY <1>4, LineType, IdAssumption
  <2>2. IdIn(slot, text) = text.id
    BY <1>4, <2>1 DEF IdIn
  <2>3. QED
    BY <1>4, <2>2, LineType DEF Filled
<1>5. QED
  BY <1>3, <1>4

\* The slots below ptr are 1..(ptr - 1).
LEMMA BelowNext ==
    \A n, s \in Nat : 1 <= s /\ s <= n - 1 => s \in 1..(n - 1)
OBVIOUS

\* A slot nobody has written is a slot.
LEMMA UnwrittenSlot == Unwritten \in Slot
BY DEF Unwritten, Slot

-------------------------------------------------------------------------------
\* The invariant holds when the program starts to count.
LEMMA InitInv == Init => IInv
<1> SUFFICES ASSUME Init PROVE IInv
  OBVIOUS
<1> USE DEF Init
<1>0. file \in Files
  BY DEF FilesOf
<1>1. file \in Files /\ opened = file /\ pos = 0 /\ line = Header
      /\ eof = (Len(file.lines) = 0 /\ ~file.nl)
  BY <1>0
<1>2. opened.lines \in Seq(Line) /\ Len(opened.lines) \in Nat /\ opened.nl \in BOOLEAN
      /\ Iterations(opened) \in Nat
  BY <1>1, FileType
<1>3. TypeOK
  BY <1>1, <1>2, HeaderType DEF TypeOK
<1>4. ReadingOK
  <2>1. eof <=> Len(opened.lines) = 0 /\ ~opened.nl
    BY <1>1
  <2>2. eof => pos = Len(opened.lines)
    BY <2>1, <1>1
  <2>3. ~eof => pos < Len(opened.lines) \/ opened.nl
    BY <2>1, <1>1, <1>2
  <2>4. QED
    BY <2>2, <2>3, <1>1 DEF ReadingOK
<1>5. ~(eof /\ opened.nl)
  BY <1>1
<1>6. CountOK
  BY <1>5, <1>1 DEF CountOK, Done
<1>7. RoomOK
  BY <1>1, <1>2 DEF RoomOK
<1>8. QED
  BY <1>3, <1>4, <1>6, <1>7 DEF IInv, PtrOK, FilledOK, ReadyOK, OverflowMeansGrown

\* Counting a line keeps it: count and file position move together.
LEMMA CountLineInv == IInv /\ CountLine => IInv'
<1> SUFFICES ASSUME IInv, CountLine PROVE IInv'
  OBVIOUS
<1>0. version' = version
  BY DEF CountLine, start
<1>1. TypeOK /\ ReadingOK /\ pc = "count" /\ ~eof /\ Fgets
  BY DEF IInv, CountLine
<1>2. /\ opened' = opened /\ pos' \in 0..Len(opened.lines)
      /\ eof' \in BOOLEAN /\ line' \in Line /\ ReadingOK'
      /\ Done \in Nat /\ Done' = Done + 1
  BY <1>0, <1>1, FgetsReads
<1>3. /\ id_count' = id_count + 1 /\ file' = file /\ ptr' = ptr /\ pc' = pc
      /\ version' = version /\ counted' = counted
      /\ slots' = [s \in 1..id_count' |-> Unwritten]
  BY DEF CountLine, start
<1>4. id_count \in Nat /\ file \in Files /\ opened \in Files /\ id_count = Done /\ ptr = 1
  BY <1>1 DEF TypeOK, IInv, CountOK
<1>5. slots' \in [1..id_count' -> Slot]
  BY <1>3, UnwrittenSlot
<1>6. TypeOK'
  BY <1>1, <1>2, <1>3, <1>4, <1>5 DEF TypeOK
<1>7. CountOK'
  BY <1>2, <1>3, <1>4 DEF CountOK
<1>8. RoomOK'
  BY <1>1, <1>2, <1>3 DEF RoomOK, IInv, Iterations
<1>9. QED
  BY <1>1, <1>2, <1>3, <1>6, <1>7, <1>8 DEF IInv, PtrOK, FilledOK, ReadyOK, OverflowMeansGrown

\* Allocating and reopening the file keeps it.
LEMMA AllocateInv == IInv /\ Allocate => IInv'
<1> SUFFICES ASSUME IInv, Allocate PROVE IInv'
  OBVIOUS
<1>0. version' = version
  BY DEF Allocate, start
<1>1. TypeOK /\ pc = "count" /\ eof /\ Open(file) /\ file \in Files /\ opened \in Files
  BY DEF IInv, Allocate, TypeOK
<1>2. /\ opened' \in Files /\ pos' = 0 /\ pos' \in 0..Len(opened'.lines)
      /\ eof' \in BOOLEAN /\ line' \in Line /\ ReadingOK' /\ Done' = 0
  BY <1>0, <1>1, OpenReads
<1>3. /\ file' = file /\ id_count' = id_count /\ slots' = slots /\ ptr' = 1
      /\ pc' = "load" /\ opened' = file
      /\ version' = version /\ counted' = counted
  BY <1>1 DEF Allocate, Open, start
<1>4. TypeOK'
  BY <1>1, <1>2, <1>3 DEF TypeOK
<1>5. /\ opened.lines \in Seq(Line) /\ Len(opened.lines) \in Nat /\ opened.nl \in BOOLEAN
      /\ id_count \in Nat
  BY <1>1, FileType DEF TypeOK
<1>6. id_count = Iterations(opened)
  BY <1>1, <1>5 DEF IInv, CountOK, Done, ReadingOK, Iterations
<1>7. RoomOK'
  BY <1>1, <1>3, <1>6 DEF RoomOK, IInv, Iterations
<1>8. FilledOK'
  BY <1>2, <1>3, <1>5 DEF FilledOK
<1>9. PtrOK'
  BY <1>2, <1>3 DEF PtrOK
<1>10. QED
  BY <1>2, <1>3, <1>4, <1>7, <1>8, <1>9 DEF IInv, CountOK, ReadyOK, OverflowMeansGrown

\* A reload starts over on an old or a fresh block of the same size.
LEMMA updateDBCInv == IInv /\ updateDBC => IInv'
<1> SUFFICES ASSUME IInv, updateDBC PROVE IInv'
  OBVIOUS
<1>0. version' = version
  BY DEF updateDBC, start
<1>1. TypeOK /\ pc = "ready" /\ Open(file) /\ file \in Files /\ id_count \in Nat
  BY DEF IInv, updateDBC, TypeOK
<1>2. /\ opened' \in Files /\ pos' = 0 /\ pos' \in 0..Len(opened'.lines)
      /\ eof' \in BOOLEAN /\ line' \in Line /\ ReadingOK' /\ Done' = 0
  BY <1>0, <1>1, OpenReads
<1>3. /\ file' = file /\ id_count' = id_count /\ ptr' = 1 /\ pc' = "load" /\ opened' = file
      /\ version' = version /\ counted' = counted
      /\ slots' \in {slots, [s \in 1..id_count |-> Unwritten]}
  BY <1>1 DEF updateDBC, Open, start
<1>4. slots' \in [1..id_count' -> Slot]
  BY <1>1, <1>3, UnwrittenSlot DEF TypeOK
<1>5. TypeOK'
  BY <1>1, <1>2, <1>3, <1>4 DEF TypeOK
<1>6. RoomOK'
  BY <1>1, <1>3 DEF RoomOK, IInv, Iterations
<1>7. FilledOK'
  BY <1>1, <1>2, <1>3 DEF FilledOK
<1>8. PtrOK'
  BY <1>2, <1>3 DEF PtrOK
<1>9. QED
  BY <1>2, <1>3, <1>5, <1>6, <1>7, <1>8 DEF IInv, CountOK, ReadyOK, OverflowMeansGrown

\* An edit changes the file on disk, not the one that is open.
LEMMA EditInv == IInv /\ Edit => IInv'
<1> SUFFICES ASSUME IInv, Edit PROVE IInv'
  OBVIOUS
<1>1. PICK f \in Files : file' = f
  BY DEF Edit, FilesOf
<1>2. /\ opened' = opened /\ pos' = pos /\ eof' = eof /\ line' = line
      /\ id_count' = id_count /\ slots' = slots /\ ptr' = ptr /\ pc' = pc
      /\ version' = version /\ counted' = counted
  BY DEF Edit, reading, start
<1>3. TypeOK /\ file \in Files /\ opened \in Files /\ id_count \in Nat
  BY DEF IInv, TypeOK
<1>4. TypeOK'
  BY <1>1, <1>2, <1>3 DEF TypeOK
<1>5. Iterations(f) \in Nat /\ Iterations(file) \in Nat /\ Iterations(opened) \in Nat
  BY <1>1, <1>3, FileType
<1>6. Iterations(file)' = Iterations(f) /\ Iterations(opened)' = Iterations(opened)
  BY <1>1, <1>2 DEF Iterations
<1>7. RoomOK'
  BY <1>1, <1>2, <1>3, <1>5, <1>6 DEF RoomOK, IInv
<1>8. ReadingOK' /\ CountOK' /\ PtrOK' /\ ReadyOK'
  BY <1>2 DEF IInv, ReadingOK, Header, CountOK, PtrOK, ReadyOK, Done
<1>9. FilledOK'
  BY <1>2 DEF IInv, FilledOK, IsEntry, Spoiled
<1>10. QED
  BY <1>2, <1>4, <1>7, <1>8, <1>9 DEF IInv, OverflowMeansGrown

\* The end of a load keeps it.
LEMMA LoadDoneInv == IInv /\ LoadDone => IInv'
<1> SUFFICES ASSUME IInv, LoadDone PROVE IInv'
  OBVIOUS
<1>1. /\ file' = file /\ opened' = opened /\ pos' = pos /\ eof' = eof /\ line' = line
      /\ id_count' = id_count /\ slots' = slots /\ ptr' = ptr
      /\ pc = "load" /\ pc' = "ready" /\ eof /\ version' = version /\ counted' = counted
  BY DEF LoadDone, reading, start
<1>2. TypeOK'
  BY <1>1 DEF IInv, TypeOK
<1>3. RoomOK'
  BY <1>1 DEF IInv, RoomOK, Iterations
<1>4. FilledOK'
  BY <1>1 DEF IInv, FilledOK, IsEntry, Spoiled
<1>5. ReadingOK'
  BY <1>1 DEF IInv, ReadingOK, Header
<1>6. QED
  BY <1>1, <1>2, <1>3, <1>4, <1>5 DEF IInv, CountOK, PtrOK, ReadyOK, OverflowMeansGrown

\* Filling a slot keeps it: ptr is never ahead of the lines read.
LEMMA LoadLineInv == IInv /\ LoadLine => IInv'
<1> SUFFICES ASSUME IInv, LoadLine PROVE IInv'
  OBVIOUS
<1>0. version' = version
  BY DEF LoadLine, start
<1>1. TypeOK /\ ReadingOK /\ pc = "load" /\ ~eof /\ Fgets
  BY DEF IInv, LoadLine
<1>2. /\ opened' = opened /\ pos' \in 0..Len(opened.lines)
      /\ eof' \in BOOLEAN /\ line' \in Line /\ ReadingOK'
      /\ Done \in Nat /\ Done < Iterations(opened) /\ Done' = Done + 1
      /\ pos' \in {pos, pos + 1}
      /\ pos' = pos + 1 => line' = opened.lines[pos']
  BY <1>0, <1>1, FgetsReads
<1>3. file' = file /\ id_count' = id_count /\ version' = version /\ counted' = counted
  BY DEF LoadLine, start
<1>4. /\ file \in Files /\ opened \in Files /\ id_count \in Nat
      /\ slots \in [1..id_count -> Slot] /\ ptr \in Nat \ {0}
      /\ Len(opened.lines) \in Nat /\ pos \in Nat /\ Iterations(opened) \in Nat
  BY <1>1, FileType DEF TypeOK
<1>5. ptr <= Done + 1
  BY <1>1 DEF IInv, PtrOK
<1>6. CASE ptr > id_count
  <2>1. pc' = "overflow" /\ slots' = slots /\ ptr' = ptr
    BY <1>6 DEF LoadLine
  <2>2. OverflowMeansGrown'
    <3>1. id_count = Iterations(counted) /\ Iterations(counted)' = Iterations(counted)
      BY <1>1, <1>3 DEF IInv, RoomOK, Iterations
    <3>2. Iterations(opened)' = Iterations(opened)
      BY <1>2 DEF Iterations
    <3> QED
      BY <3>1, <3>2, <1>2, <1>4, <1>5, <1>6 DEF OverflowMeansGrown
  <2>3. TypeOK'
    BY <1>1, <1>2, <1>3, <1>4, <2>1 DEF TypeOK
  <2>4. RoomOK'
    BY <1>1, <1>2, <1>3, <2>1 DEF IInv, RoomOK, Iterations
  <2>5. QED
    BY <1>2, <2>1, <2>2, <2>3, <2>4 DEF IInv, CountOK, PtrOK, FilledOK, ReadyOK
<1>7. CASE ~(ptr > id_count)
  <2>1. ptr \in 1..id_count /\ slots[ptr] \in Slot
    BY <1>7, <1>4
  <2>2. PICK count \in IF line'.count > 0 THEN {line'.count} ELSE CountsIn(slots[ptr]) :
           /\ slots' = [slots EXCEPT ![ptr] = Filled(@, line', count)]
           /\ ptr' = IF count > 0 \/ version = "v1" THEN ptr + 1 ELSE ptr
           /\ pc' = pc
    BY <1>7 DEF LoadLine
  <2>3. line'.count \in 0..MaxSignal
    BY <1>2, LineType
  <2>4. CountsIn(slots[ptr]) \subseteq 0..MaxSignal
    BY <2>1 DEF CountsIn, Slot
  <2>5. count \in 0..MaxSignal
    BY <2>2, <2>3, <2>4
  <2>6. count \in Nat /\ line'.count \in Nat
    BY <2>3, <2>5 DEF MaxSignal
  <2>7. Filled(slots[ptr], line', count) \in Slot
    BY <2>1, <2>5, <1>2, FilledSlot
  <2>8. slots' \in [1..id_count -> Slot]
    BY <2>2, <2>7, <1>4
  <2>9. ptr' \in Nat \ {0} /\ ptr' \in {ptr, ptr + 1} /\ ptr' <= id_count + 1
    BY <2>1, <2>2, <2>6, <1>4
  <2>10. TypeOK'
    BY <1>1, <1>2, <1>3, <1>4, <2>2, <2>8, <2>9 DEF TypeOK
  <2>11. PtrOK'
    BY <1>2, <1>4, <1>5, <2>9 DEF PtrOK
  <2>12. RoomOK'
    BY <1>1, <1>2, <1>3, <2>2 DEF IInv, RoomOK, Iterations
  <2>13. ASSUME NEW k \in 1..pos', IsEntry(k)', ~Spoiled(k)'
         PROVE  \E s \in 1..(ptr' - 1) : slots'[s] = opened'.lines[k]
    <3>0. opened.lines[k].count > 0 /\ ~(version = "server" /\ opened.lines[k].count = 3)
      BY <2>13, <1>2, <1>3 DEF IsEntry, Spoiled
    <3>1. CASE k \in 1..pos
      <4>1. PICK s \in 1..(ptr - 1) : slots[s] = opened.lines[k]
        BY <3>0, <3>1, <1>1 DEF IInv, FilledOK, IsEntry, Spoiled
      <4>2. s \in 1..id_count /\ s # ptr /\ s \in 1..(ptr' - 1)
        <5>1. s \in Nat /\ 1 <= s /\ s <= ptr - 1
          BY <4>1, <1>4
        <5>2. ptr' = ptr \/ ptr' = ptr + 1
          BY <2>9
        <5>3. ptr \in Nat /\ ptr <= id_count
          BY <2>1, <1>4
        <5>4. s <= id_count /\ s # ptr
          BY <5>1, <5>3, <1>4
        <5>5. s <= ptr' - 1 /\ ptr' \in Nat
          BY <5>1, <5>2, <5>3
        <5>6. s \in 1..id_count
          BY <5>1, <5>4, <1>4
        <5>7. s \in 1..(ptr' - 1)
          BY <5>1, <5>5, BelowNext
        <5>8. QED
          BY <5>4, <5>6, <5>7
      <4>3. slots'[s] = slots[s]
        BY <4>2, <2>2, <1>4
      <4> QED
        BY <4>1, <4>2, <4>3, <1>2
    <3>2. CASE k \notin 1..pos
      <4>1. k = pos + 1 /\ pos' = pos + 1
        BY <3>2, <1>2, <1>4
      <4>2. line' = opened.lines[k]
        BY <4>1, <1>2
      <4>3. line'.count > 0 /\ ~(version = "server" /\ line'.count = 3)
        BY <4>2, <3>0
      <4>4. count = line'.count
        BY <2>2, <4>3
      <4>5. Filled(slots[ptr], line', count) = line'
        BY <4>3, <4>4, <2>1, <2>5, <1>2, FilledSlot
      <4>6. slots'[ptr] = line'
        BY <4>5, <2>1, <2>2, <1>4
      <4>7. ptr' = ptr + 1
        BY <4>3, <4>4, <2>2
      <4>8. ptr \in 1..(ptr' - 1)
        BY <4>7, <1>4
      <4> QED
        BY <4>2, <4>6, <4>8, <1>2
    <3> QED
      BY <3>1, <3>2
  <2>14. FilledOK'
    BY <2>9, <2>13, <1>3 DEF FilledOK
  <2>15. QED
    BY <1>1, <1>2, <2>2, <2>10, <2>11, <2>12, <2>14 DEF IInv, CountOK, ReadyOK, OverflowMeansGrown
<1>8. QED
  BY <1>6, <1>7

\* A step that changes nothing keeps it.
LEMMA StutterInv == IInv /\ UNCHANGED vars => IInv'
<1> SUFFICES ASSUME IInv, UNCHANGED vars PROVE IInv'
  OBVIOUS
<1>1. /\ file' = file /\ opened' = opened /\ pos' = pos /\ eof' = eof /\ line' = line
      /\ id_count' = id_count /\ slots' = slots /\ ptr' = ptr /\ pc' = pc
      /\ version' = version /\ counted' = counted
  BY DEF vars, reading, start
<1>2. TypeOK'
  BY <1>1 DEF IInv, TypeOK
<1>3. ReadingOK' /\ CountOK' /\ PtrOK' /\ ReadyOK'
  BY <1>1 DEF IInv, ReadingOK, Header, CountOK, PtrOK, ReadyOK, Done
<1>4. RoomOK'
  BY <1>1 DEF IInv, RoomOK, Iterations
<1>5. FilledOK'
  BY <1>1 DEF IInv, FilledOK, IsEntry, Spoiled
<1>6. QED
  BY <1>1, <1>2, <1>3, <1>4, <1>5 DEF IInv, OverflowMeansGrown

\* The invariant that carries the results below: the block always has a slot
\* for each round the loop may still go, and each entry read is in its slot.
THEOREM LoaderInvariant == Spec => []IInv
<1>1. Init => IInv
  BY InitInv
<1>2. IInv /\ [Next]_vars => IInv'
  BY CountLineInv, AllocateInv, LoadLineInv, LoadDoneInv, updateDBCInv, EditInv, StutterInv
     DEF Next
<1>3. QED
  BY <1>1, <1>2, PTL DEF Spec

\* id_count_dbc_data and load_dbc_data keep the types of the array, the
\* reading position and the slot to fill, whatever the files contain.
THEOREM LoaderTypes == Spec => []TypeOK
<1>1. IInv => TypeOK
  BY DEF IInv
<1>2. QED
  BY <1>1, LoaderInvariant, PTL

\* load_dbc_data writes past the block that main allocated only for a file
\* longer than the one main counted, however often it is loaded again.
THEOREM StaysInItsBlock == Spec => []OverflowMeansGrown
<1>1. IInv => OverflowMeansGrown
  BY DEF IInv
<1>2. QED
  BY <1>1, LoaderInvariant, PTL

\* After each load, of a file that grew as well, every entry of the file that
\* has not three signals (in the server) is in a slot, with its identifier and its count.
THEOREM LoadsItsEntries == Spec => []EntriesLoaded
<1>1. IInv => EntriesLoaded
  <2> SUFFICES ASSUME IInv, pc = "ready", NEW k \in 1..Len(opened.lines),
                      IsEntry(k), ~Spoiled(k)
               PROVE  LoadedEntry(k)
    BY DEF EntriesLoaded
  <2>1. pos = Len(opened.lines)
    BY DEF IInv, ReadyOK, ReadingOK
  <2>2. PICK s \in 1..(ptr - 1) : slots[s] = opened.lines[k]
    BY <2>1 DEF IInv, FilledOK
  <2>3. ptr <= id_count + 1 /\ ptr \in Nat /\ id_count \in Nat
    BY DEF IInv, FilledOK, TypeOK
  <2>4. s \in 1..id_count
    BY <2>3
  <2>5. QED
    BY <2>2, <2>4 DEF LoadedEntry
<1>2. QED
  BY <1>1, LoaderInvariant, PTL

===============================================================================
