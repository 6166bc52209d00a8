---------------------------- MODULE CanDecodeProofs ----------------------------
(***************************************************************************)
(* For every set of tables: the types of the three converters, that no     *)
(* entry is missed, and that the values are right wherever the byte loop   *)
(* is not the server's little-endian one.                                  *)
(***************************************************************************)
EXTENDS CanDecode, TLAPS

\* The tables in which the server has no little-endian entry.
ServerIsBigEndian ==
    "server" \in Versions =>
        \A t \in Tables["server"] : \A k \in 1 .. Len(t) : t[k].big

Busy == pc \in {"signal", "byte", "copy"}

\* A busy call is at an entry of the table that has the frame's id, and at
\* one of its signals.
PlaceOK ==
    Busy =>
        /\ entry \in 1 .. Count
        /\ Here.id = id
        /\ out = <<>>
        /\ ii \in 1 .. Len(Here.signals) + 1
        /\ pc = "byte" => ii <= Len(Here.signals)
        /\ pc = "copy" => ii = Len(Here.signals) + 1

\* The byte of the word follows the byte of the frame.
LoopOK ==
    pc = "byte" =>
        /\ iii \in Signal.start .. Signal.stop + 1
        /\ num = IF Here.big THEN Signal.stop - iii
                 ELSE IF Backwards THEN Signal.stop + 1 - iii
                 ELSE iii - Signal.start

\* Until a value is written the counter and the pointer go together, over
\* entries of other ids; afterwards the entry of this id is behind them.
SearchOK ==
    /\ out = <<>> =>
           /\ i = entry
           /\ \A k \in 1 .. Count : k < entry => table[k].id # id
           /\ pc = "idle" => id = NoId \/ entry > Count
    /\ out # <<>> =>
           \E k \in 1 .. Count : k < entry /\ table[k].id = id

WalkInv == TypeOK /\ PlaceOK /\ LoopOK /\ SearchOK

\* A word into which the bytes of s have been shifted, those for the places
\* above n of a big-endian one, below n of a little-endian one.
Partly(s, big, n) ==
    [d \in 0 .. 7 |->
        IF big THEN (IF d <= s.stop - s.start /\ d > n THEN data[s.stop - d] ELSE {})
               ELSE (IF d < n THEN data[s.start + d] ELSE {})]

\* The words before the present one are complete, those after it are empty.
WordsOK ==
    /\ pc = "entry" /\ out = <<>> => \A k \in 1 .. MaxSignals : raw[k] = Zero
    /\ Busy => \A k \in 1 .. MaxSignals :
           /\ k < ii => raw[k] = Meaning(Here)[k]
           /\ k > ii => raw[k] = Zero
           /\ k = ii /\ pc = "signal" => raw[k] = Zero
           /\ k = ii /\ pc = "byte" => raw[k] = Partly(Signal, Here.big, num)

ValueInv == WalkInv /\ WordsOK /\ Decoded

--------------------------------------------------------------------------------
\* What the assumption says of one entry, and of one signal.
LEMMA EntryFacts ==
    ASSUME TypeOK, NEW k \in 1 .. Count
    PROVE  /\ table[k] \in EntryType
           /\ table[k].id \in Ids
           /\ table[k].big \in BOOLEAN
           /\ Len(table[k].signals) \in 1 .. MaxSignals
           /\ \A q \in 1 .. Len(table[k].signals) : table[k].signals[q] \in SignalType
           /\ \A j \in 1 .. Count : table[j].id = table[k].id => j = k
           /\ version = "v1" => ~table[k].big /\ Len(table[k].signals) = 1
           /\ version = "v1" => table[k].signals[1].stop - table[k].signals[1].start < 3
<1>1. version \in Versions /\ table \in Tables[version]
  BY DEF TypeOK
<1>2. table \in Seq(EntryType)
  BY <1>1, TablesAssumption
<1>3. DOMAIN table = 1 .. Count
  BY <1>2 DEF Count
<1>4. table[k] \in EntryType
  BY <1>2 DEF Count
<1>5. /\ table[k].id \in Ids
      /\ table[k].big \in BOOLEAN
      /\ table[k].signals \in Seq(SignalType)
      /\ Len(table[k].signals) \in 1 .. MaxSignals
  BY <1>4 DEF EntryType
<1>6. \A q \in 1 .. Len(table[k].signals) : table[k].signals[q] \in SignalType
  BY <1>5
<1>7. \A j \in 1 .. Count : table[j].id = table[k].id => j = k
  BY <1>1, <1>3, TablesAssumption
<1>8. version = "v1" => ~table[k].big /\ Len(table[k].signals) = 1
  BY <1>1, <1>3, TablesAssumption
<1>9. version = "v1" => table[k].signals[1].stop - table[k].signals[1].start < 3
  BY <1>1, <1>3, TablesAssumption
<1>10. QED
  BY <1>4, <1>5, <1>6, <1>7, <1>8, <1>9

\* The bounds of a signal.
LEMMA SignalFacts ==
    ASSUME NEW s \in SignalType
    PROVE  s.start \in 0 .. 7 /\ s.stop \in 0 .. 7 /\ s.start <= s.stop
           /\ s.stop - s.start <= 3
BY DEF SignalType

\* A signal of an entry has a word, and a successor.
LEMMA Within ==
    ASSUME NEW m \in 1 .. MaxSignals, NEW k \in 1 .. m
    PROVE  k \in 1 .. MaxSignals /\ k + 1 \in 1 .. MaxSignals + 1 /\ k + 1 \in 1 .. m + 1
BY DEF MaxSignals

\* The table's length is a number.
LEMMA CountNat == TypeOK => Count \in Nat
<1> SUFFICES ASSUME TypeOK PROVE Count \in Nat
  OBVIOUS
<1>1. table \in Seq(EntryType)
  BY TablesAssumption DEF TypeOK
<1> QED
  BY <1>1 DEF Count

\* Or writes a word, and in what the tables have nothing but the byte.
LEMMA OrWord ==
    ASSUME NEW word \in Word, NEW n \in 0 .. 7, NEW byte \in Byte
    PROVE  Or(word, n, byte) \in Word
BY DEF Or, Word, Byte

\* Without v1's promotion, |= changes byte n of the word and no other.
LEMMA OrOne ==
    ASSUME NEW word \in Word, NEW n \in 0 .. 7, NEW byte \in Byte,
           version = "v1" => n # 3
    PROVE  Or(word, n, byte) =
               [d \in 0 .. 7 |-> IF d = n THEN word[d] \cup byte ELSE word[d]]
BY DEF Or, Word, Byte

\* The bytes that are taken are bytes.
LEMMA BytesAreBytes == TypeOK => \A k \in 0 .. 8 : BytesAt(k) \subseteq Byte
BY DEF TypeOK, BytesAt, Word

\* A busy call's entry and signal, with what is assumed of them.
LEMMA HereFacts ==
    ASSUME TypeOK, PlaceOK, Busy
    PROVE  /\ entry \in 1 .. Count
           /\ Here \in EntryType
           /\ Here.big \in BOOLEAN
           /\ Len(Here.signals) \in 1 .. MaxSignals
           /\ ii <= Len(Here.signals) => ii \in 1 .. Len(Here.signals)
           /\ ii \in 1 .. Len(Here.signals) => Signal \in SignalType
           /\ version = "v1" /\ ii \in 1 .. Len(Here.signals) =>
                  ~Here.big /\ Signal.stop - Signal.start < 3
<1>1. entry \in 1 .. Count /\ ii \in 1 .. Len(Here.signals) + 1
  BY DEF PlaceOK
<1>2. /\ Here \in EntryType
      /\ Here.big \in BOOLEAN
      /\ Len(Here.signals) \in 1 .. MaxSignals
      /\ \A q \in 1 .. Len(Here.signals) : Here.signals[q] \in SignalType
      /\ version = "v1" => ~Here.big /\ Len(Here.signals) = 1
      /\ version = "v1" => Here.signals[1].stop - Here.signals[1].start < 3
  BY <1>1, EntryFacts DEF Here
<1>3. ii <= Len(Here.signals) => ii \in 1 .. Len(Here.signals)
  BY <1>1, <1>2
<1>4. ii \in 1 .. Len(Here.signals) => Signal \in SignalType
  BY <1>2 DEF Signal
<1>5. version = "v1" /\ ii \in 1 .. Len(Here.signals) =>
          ~Here.big /\ Signal.stop - Signal.start < 3
  <2> SUFFICES ASSUME version = "v1", ii \in 1 .. Len(Here.signals)
               PROVE  ~Here.big /\ Signal.stop - Signal.start < 3
    OBVIOUS
  <2>1. Len(Here.signals) = 1
    BY <1>2
  <2>2. ii = 1
    BY <2>1
  <2> QED
    BY <1>2, <2>2 DEF Signal
<1> QED
  BY <1>1, <1>2, <1>3, <1>4, <1>5

\* Between calls, before the first, nothing has been walked.
LEMMA InitWalk == Init => WalkInv
<1> SUFFICES ASSUME Init PROVE WalkInv
  OBVIOUS
<1>1. TypeOK
  BY DEF Init, TypeOK, Word, Zero, Byte, MaxSignals
<1>2. PlaceOK /\ LoopOK
  BY DEF Init, PlaceOK, LoopOK, Busy
<1>3. Count \in Nat
  BY <1>1, CountNat
<1>4. SearchOK
  BY <1>3 DEF Init, SearchOK
<1> QED
  BY <1>1, <1>2, <1>4 DEF WalkInv

\* Every step of a call keeps its place in the table and in the loops.
LEMMA NextWalk == WalkInv /\ [Next]_vars => WalkInv'
<1> SUFFICES ASSUME WalkInv, [Next]_vars PROVE WalkInv'
  OBVIOUS
<1> USE DEF WalkInv
<1>0. Count \in Nat
  BY CountNat
<1>1. ASSUME NEW newId \in Ids, NEW newData \in Word, Call(newId, newData)
      PROVE  WalkInv'
  <2>1. TypeOK'
    BY <1>1 DEF TypeOK, Call, Word, Zero, Byte, MaxSignals
  <2>2. PlaceOK' /\ LoopOK'
    BY <1>1 DEF Call, PlaceOK, LoopOK, Busy
  <2>3. SearchOK'
    BY <1>1, <1>0 DEF Call, SearchOK, Count
  <2> QED
    BY <2>1, <2>2, <2>3
<1>2. CASE Outside
  <2>1. TypeOK'
    BY <1>2 DEF TypeOK, Outside, job
  <2>2. PlaceOK' /\ LoopOK'
    BY <1>2 DEF Outside, PlaceOK, LoopOK, Busy
  <2>3. out # <<>>
    BY <1>2, <1>0 DEF Outside, SearchOK, TypeOK
  <2>4. PICK k \in 1 .. Count : k < entry /\ table[k].id = id
    BY <2>3 DEF SearchOK
  <2>5. SearchOK'
    BY <1>2, <1>0, <2>3, <2>4 DEF Outside, SearchOK, Count, job, TypeOK
  <2> QED
    BY <2>1, <2>2, <2>5
<1>3. CASE OtherId
  <2>1. TypeOK'
    BY <1>3 DEF TypeOK, OtherId, job
  <2>2. PlaceOK' /\ LoopOK'
    BY <1>3 DEF OtherId, PlaceOK, LoopOK, Busy
  <2>3. SearchOK'
    BY <1>3, <1>0 DEF OtherId, SearchOK, Count, job, TypeOK, Here
  <2> QED
    BY <2>1, <2>2, <2>3
<1>4. CASE SameId
  <2>1. entry \in 1 .. Count /\ i \in 1 .. Count
    BY <1>4, <1>0 DEF SameId, TypeOK
  <2>2. Len(Here.signals) \in 1 .. MaxSignals
    BY <2>1, EntryFacts DEF Here
  <2>3. TypeOK'
    BY <1>4 DEF TypeOK, SameId, job, MaxSignals
  <2>4. out = <<>>
    <3> SUFFICES ASSUME out # <<>> PROVE FALSE
      OBVIOUS
    <3>1. PICK k \in 1 .. Count : k < entry /\ table[k].id = id
      BY DEF SearchOK
    <3>2. k = entry
      BY <3>1, <2>1, <1>4, EntryFacts DEF SameId, Here
    <3> QED
      BY <3>1, <3>2, <1>0, <2>1
  <2>5. PlaceOK' /\ LoopOK'
    BY <1>4, <2>1, <2>2, <2>4 DEF SameId, PlaceOK, LoopOK, Busy, Count, Here, job
  <2>6. SearchOK'
    BY <1>4, <2>4 DEF SameId, SearchOK, Count, job
  <2> QED
    BY <2>3, <2>5, <2>6
<1>5. CASE Return
  <2>1. TypeOK'
    BY <1>5 DEF TypeOK, Return, job
  <2>2. PlaceOK' /\ LoopOK'
    BY <1>5 DEF Return, PlaceOK, LoopOK, Busy
  <2>3. SearchOK'
    BY <1>5 DEF Return, SearchOK, Count, job
  <2> QED
    BY <2>1, <2>2, <2>3
<1>6. CASE StartSignal
  <2>0. Busy
    BY <1>6 DEF StartSignal, Busy
  <2>1. /\ entry \in 1 .. Count
        /\ ii \in 1 .. Len(Here.signals)
        /\ Here.big \in BOOLEAN
        /\ Signal \in SignalType
    BY <1>6, <2>0, HereFacts DEF StartSignal
  <2>2. /\ Signal.start \in 0 .. 7 /\ Signal.stop \in 0 .. 7
        /\ Signal.start <= Signal.stop /\ Signal.stop - Signal.start <= 3
    BY <2>1, SignalFacts
  <2>3. iii' \in Signal.start .. Signal.stop + 1 /\ iii' \in 0 .. 8 /\ num' \in 0 .. 3
    <3>1. iii' = Signal.stop + 1 \/ iii' = Signal.start
      BY <1>6 DEF StartSignal, FirstByte
    <3>2. num' = Signal.stop - Signal.start \/ num' = 0
      BY <1>6 DEF StartSignal
    <3>3. iii' \in Signal.start .. Signal.stop + 1 /\ iii' \in 0 .. 8
      BY <2>2, <3>1
    <3>4. num' \in 0 .. 3
      BY <2>2, <3>2
    <3> QED
      BY <3>3, <3>4
  <2>4. TypeOK'
    BY <1>6, <2>3 DEF TypeOK, StartSignal, job
  <2>5. Here' = Here /\ Signal' = Signal /\ Backwards' = Backwards /\ Count' = Count
    BY <1>6 DEF StartSignal, Here, Signal, Backwards, Count, job
  <2>6. PlaceOK'
    BY <1>6, <2>0, <2>1, <2>5 DEF StartSignal, PlaceOK, Busy, job
  <2>7. Backwards <=> version = "server" /\ ~Here.big
    BY DEF Backwards
  <2>8. num' = IF Here.big THEN Signal.stop - iii'
               ELSE IF Backwards THEN Signal.stop + 1 - iii' ELSE iii' - Signal.start
    <3>1. CASE Here.big
      BY <1>6, <2>2, <2>7, <3>1 DEF StartSignal, FirstByte
    <3>2. CASE ~Here.big
      BY <1>6, <2>2, <2>7, <3>2 DEF StartSignal, FirstByte
    <3> QED
      BY <3>1, <3>2
  <2>9. LoopOK'
    BY <2>3, <2>5, <2>8 DEF LoopOK
  <2>10. SearchOK'
    BY <1>6, <2>5 DEF StartSignal, SearchOK, job
  <2> QED
    BY <2>4, <2>6, <2>9, <2>10
<1>7. CASE LastSignal
  <2>0. Busy
    BY <1>7 DEF LastSignal, Busy
  <2>1. TypeOK'
    BY <1>7 DEF TypeOK, LastSignal, job
  <2>2. Here' = Here /\ Count' = Count
    BY <1>7 DEF LastSignal, Here, Count, job
  <2>3. Len(Here.signals) \in 1 .. MaxSignals
    BY <2>0, HereFacts
  <2>4. PlaceOK' /\ LoopOK'
    BY <1>7, <2>0, <2>2, <2>3 DEF LastSignal, PlaceOK, LoopOK, Busy, job, MaxSignals
  <2>5. SearchOK'
    BY <1>7, <2>2 DEF LastSignal, SearchOK, job
  <2> QED
    BY <2>1, <2>4, <2>5
<1>8. CASE TakeByte
  <2>0. Busy
    BY <1>8 DEF TakeByte, Busy
  <2>1. /\ entry \in 1 .. Count
        /\ ii \in 1 .. Len(Here.signals)
        /\ Len(Here.signals) \in 1 .. MaxSignals
        /\ Here.big \in BOOLEAN
        /\ Signal \in SignalType
    BY <1>8, <2>0, HereFacts DEF TakeByte, PlaceOK
  <2>2. /\ Signal.start \in 0 .. 7 /\ Signal.stop \in 0 .. 7
        /\ Signal.start <= Signal.stop /\ Signal.stop - Signal.start <= 3
    BY <2>1, SignalFacts
  <2>3. Here' = Here /\ Signal' = Signal /\ Backwards' = Backwards /\ Count' = Count
    BY <1>8 DEF TakeByte, Here, Signal, Backwards, Count, job
  <2>4. Backwards <=> version = "server" /\ ~Here.big
    BY DEF Backwards
  <2>5. /\ iii \in Signal.start .. Signal.stop + 1
        /\ num = IF Here.big THEN Signal.stop - iii
                 ELSE IF Backwards THEN Signal.stop + 1 - iii ELSE iii - Signal.start
        /\ IF Backwards THEN iii > Signal.start ELSE iii <= Signal.stop
    BY <1>8 DEF TakeByte, LoopOK, MoreBytes
  <2>6. num \in 0 .. 3 /\ num' \in -1 .. 4 /\ iii' \in Signal.start .. Signal.stop + 1
    <3>1. CASE Here.big
      BY <1>8, <2>2, <2>4, <2>5, <3>1 DEF TakeByte
    <3>2. CASE ~Here.big /\ Backwards
      BY <1>8, <2>2, <2>4, <2>5, <3>2 DEF TakeByte
    <3>3. CASE ~Here.big /\ ~Backwards
      BY <1>8, <2>2, <2>4, <2>5, <3>3 DEF TakeByte
    <3> QED
      BY <3>1, <3>2, <3>3
  <2>7. num' = IF Here.big THEN Signal.stop - iii'
               ELSE IF Backwards THEN Signal.stop + 1 - iii' ELSE iii' - Signal.start
    <3>1. CASE Here.big
      BY <1>8, <2>2, <2>4, <2>5, <3>1 DEF TakeByte
    <3>2. CASE ~Here.big /\ Backwards
      BY <1>8, <2>2, <2>4, <2>5, <3>2 DEF TakeByte
    <3>3. CASE ~Here.big /\ ~Backwards
      BY <1>8, <2>2, <2>4, <2>5, <3>3 DEF TakeByte
    <3> QED
      BY <3>1, <3>2, <3>3
  <2>8. raw' \in [1 .. MaxSignals -> Word]
    <3>1. iii \in 0 .. 8
      BY DEF TypeOK
    <3>2. PICK byte \in BytesAt(iii) : raw' = [raw EXCEPT ![ii] = Or(raw[ii], num, byte)]
      BY <1>8 DEF TakeByte
    <3>3. byte \in Byte
      BY <3>1, <3>2, BytesAreBytes
    <3>4. raw \in [1 .. MaxSignals -> Word] /\ ii \in 1 .. MaxSignals /\ num \in 0 .. 7
      <4>1. ii \in 1 .. MaxSignals
        BY <2>1, Within
      <4> QED
        BY <4>1, <2>6 DEF TypeOK
    <3>5. Or(raw[ii], num, byte) \in Word
      BY <3>3, <3>4, OrWord
    <3> QED
      BY <3>2, <3>4, <3>5
  <2>9. iii' \in 0 .. 8
    BY <2>2, <2>6
  <2>10. TypeOK'
    BY <1>8, <2>6, <2>8, <2>9 DEF TypeOK, TakeByte, job
  <2>11. PlaceOK'
    BY <1>8, <2>0, <2>1, <2>3 DEF TakeByte, PlaceOK, Busy, job
  <2>12. LoopOK'
    BY <2>3, <2>6, <2>7 DEF LoopOK
  <2>13. SearchOK'
    BY <1>8, <2>3 DEF TakeByte, SearchOK, job
  <2> QED
    BY <2>10, <2>11, <2>12, <2>13
<1>9. CASE SignalDone
  <2>0. Busy
    BY <1>9 DEF SignalDone, Busy
  <2>1. /\ ii \in 1 .. Len(Here.signals)
        /\ Len(Here.signals) \in 1 .. MaxSignals
    BY <1>9, <2>0, HereFacts DEF SignalDone, PlaceOK
  <2>2. Here' = Here /\ Count' = Count
    BY <1>9 DEF SignalDone, Here, Count, job
  <2>3. ii' \in 1 .. MaxSignals + 1 /\ ii' \in 1 .. Len(Here.signals) + 1
    BY <1>9, <2>1, Within DEF SignalDone
  <2>4. TypeOK'
    BY <1>9, <2>3 DEF TypeOK, SignalDone, job
  <2>5. PlaceOK' /\ LoopOK'
    BY <1>9, <2>0, <2>2, <2>3 DEF SignalDone, PlaceOK, LoopOK, Busy, job
  <2>6. SearchOK'
    BY <1>9, <2>2 DEF SignalDone, SearchOK, job
  <2> QED
    BY <2>4, <2>5, <2>6
<1>10. CASE Copy
  <2>0. Busy
    BY <1>10 DEF Copy, Busy
  <2>1. /\ entry \in 1 .. Count
        /\ Len(Here.signals) \in 1 .. MaxSignals
        /\ Here.id = id
    BY <2>0, HereFacts DEF PlaceOK
  <2>2. AfterCopy \in Nat \ {0}
    BY <2>1 DEF AfterCopy, TypeOK
  <2>3. out' = [k \in 1 .. Len(Here.signals) |-> raw[k]]
    BY <1>10 DEF Copy
  <2>4. \A k \in 1 .. Len(Here.signals) : raw[k] \in Word
    BY <2>1, Within DEF TypeOK
  <2>5. out' \in Seq(Word) /\ Len(out') = Len(Here.signals)
    BY <2>1, <2>3, <2>4
  <2>6. out' # <<>>
    BY <2>1, <2>5
  <2>7. TypeOK'
    BY <1>10, <2>1, <2>2, <2>5 DEF TypeOK, Copy, job
  <2>8. PlaceOK' /\ LoopOK'
    BY <1>10 DEF Copy, PlaceOK, LoopOK, Busy
  <2>9. entry < entry' /\ table'[entry].id = id' /\ entry \in 1 .. Count'
    BY <1>10, <2>1 DEF Copy, Here, Count, job
  <2>10. SearchOK'
    BY <2>6, <2>9 DEF SearchOK
  <2> QED
    BY <2>7, <2>8, <2>10
<1>11. CASE UNCHANGED vars
  BY <1>11 DEF vars, TypeOK, PlaceOK, LoopOK, SearchOK, Busy, Here, Signal, Backwards, Count
<1> QED
  BY <1>1, <1>2, <1>3, <1>4, <1>5, <1>6, <1>7, <1>8, <1>9, <1>10, <1>11 DEF Next

\* The place of a call, in every reachable state.
THEOREM PlaceIsKept == Spec => []WalkInv
<1>1. Init => WalkInv
  BY InitWalk
<1>2. WalkInv /\ [Next]_vars => WalkInv'
  BY NextWalk
<1> QED
  BY <1>1, <1>2, PTL DEF Spec

\* Every variable of the three functions keeps its type, whatever the
\* tables and the frames.
THEOREM ConverterTypes == Spec => []TypeOK
<1>1. WalkInv => TypeOK
  BY DEF WalkInv
<1> QED
  BY <1>1, PlaceIsKept, PTL

\* A call returns without values for unknown ids only, in all three versions:
\* the entries that v2's copying makes it skip have other ids.
THEOREM NoEntryIsMissed == Spec => []KnownIdsAreDecoded
<1>1. WalkInv => KnownIdsAreDecoded
  <2> SUFFICES ASSUME WalkInv, pc = "idle", out = <<>>,
                      NEW k \in 1 .. Count, table[k].id = id
               PROVE  FALSE
    BY DEF KnownIdsAreDecoded
  <2> USE DEF WalkInv
  <2>1. table[k].id \in Ids
    BY EntryFacts
  <2>2. id # NoId
    BY <2>1, BitsAssumption
  <2>3. entry > Count
    BY <2>2 DEF SearchOK
  <2>4. k < entry
    BY <2>3, CountNat DEF TypeOK
  <2> QED
    BY <2>4 DEF SearchOK
<1> QED
  BY <1>1, PlaceIsKept, PTL

--------------------------------------------------------------------------------
\* Nothing is shifted in at the start, everything at the end.
LEMMA PartlyNothing ==
    ASSUME NEW s \in SignalType, NEW big \in BOOLEAN
    PROVE  Partly(s, big, IF big THEN s.stop - s.start ELSE 0) = Zero
<1>0. s.start \in 0 .. 7 /\ s.stop \in 0 .. 7 /\ s.start <= s.stop
  BY SignalFacts
<1>1. CASE big
  <2>1. \A d \in 0 .. 7 : ~(d <= s.stop - s.start /\ d > s.stop - s.start)
    BY <1>0
  <2> QED
    BY <1>1, <2>1 DEF Partly, Zero
<1>2. CASE ~big
  <2>1. \A d \in 0 .. 7 : ~(d < 0)
    OBVIOUS
  <2> QED
    BY <1>2, <2>1 DEF Partly, Zero
<1> QED
  BY <1>1, <1>2

\* When num has gone below 0 the partial word is the big-endian value.
LEMMA PartlyBig ==
    ASSUME NEW s \in SignalType
    PROVE  Partly(s, TRUE, -1) = BigEndian(s)
<1>1. \A d \in 0 .. 7 : d > -1
  OBVIOUS
<1> QED
  BY <1>1 DEF Partly, BigEndian

\* When every byte is in, the partial word is the little-endian value.
LEMMA PartlyLittle ==
    ASSUME NEW s \in SignalType
    PROVE  Partly(s, FALSE, s.stop - s.start + 1) = LittleEndian(s)
<1>0. s.start \in 0 .. 7 /\ s.stop \in 0 .. 7 /\ s.start <= s.stop
  BY SignalFacts
<1>1. \A d \in 0 .. 7 : d < s.stop - s.start + 1 <=> d <= s.stop - s.start
  BY <1>0
<1> QED
  BY <1>1 DEF Partly, LittleEndian

\* One turn of the loop shifts one more byte in.
LEMMA PartlyMoreBig ==
    ASSUME NEW s \in SignalType, NEW n \in 0 .. 3, n <= s.stop - s.start,
           TypeOK, version = "v1" => n # 3
    PROVE  Or(Partly(s, TRUE, n), n, data[s.stop - n]) = Partly(s, TRUE, n - 1)
<1>0. s.start \in 0 .. 7 /\ s.stop \in 0 .. 7 /\ s.start <= s.stop
  BY SignalFacts
<1>1. data \in [0 .. 7 -> Byte]
  BY DEF TypeOK, Word
<1>2. \A d \in 0 .. 7 : d <= s.stop - s.start => s.stop - d \in 0 .. 7
  BY <1>0
<1>3. Partly(s, TRUE, n) \in Word
  <2>1. \A d \in 0 .. 7 : (IF d <= s.stop - s.start /\ d > n THEN data[s.stop - d] ELSE {}) \in Byte
    <3>1. {} \in Byte
      BY DEF Byte
    <3> QED
      BY <1>1, <1>2, <3>1
  <2>2. Partly(s, TRUE, n) =
            [d \in 0 .. 7 |-> IF d <= s.stop - s.start /\ d > n THEN data[s.stop - d] ELSE {}]
    BY DEF Partly
  <2> QED
    BY <2>1, <2>2 DEF Word
<1>4. data[s.stop - n] \in Byte
  BY <1>0, <1>1
<1>5. Or(Partly(s, TRUE, n), n, data[s.stop - n]) =
          [d \in 0 .. 7 |-> IF d = n THEN Partly(s, TRUE, n)[d] \cup data[s.stop - n]
                            ELSE Partly(s, TRUE, n)[d]]
  <2> DEFINE word == Partly(s, TRUE, n)
             byte == data[s.stop - n]
  <2>0. n \in 0 .. 7
    OBVIOUS
  <2>1. word \in Word /\ byte \in Byte
    BY <1>3, <1>4, Zenon
  <2> HIDE DEF word, byte
  <2>2. Or(word, n, byte) =
            [d \in 0 .. 7 |-> IF d = n THEN word[d] \cup byte ELSE word[d]]
    BY <2>0, <2>1, OrOne
  <2> QED
    BY <2>2 DEF word, byte
<1>6. ASSUME NEW d \in 0 .. 7
      PROVE  (IF d = n THEN Partly(s, TRUE, n)[d] \cup data[s.stop - n]
              ELSE Partly(s, TRUE, n)[d]) = Partly(s, TRUE, n - 1)[d]
  <2>1. CASE d = n
    <3>1. Partly(s, TRUE, n)[d] = {}
      BY <2>1 DEF Partly
    <3>2. Partly(s, TRUE, n - 1)[d] = data[s.stop - n]
      BY <2>1 DEF Partly
    <3> QED
      BY <2>1, <3>1, <3>2
  <2>2. CASE d # n
    <3>1. d > n <=> d > n - 1
      BY <2>2
    <3> QED
      BY <2>2, <3>1 DEF Partly
  <2> QED
    BY <2>1, <2>2
<1> QED
  BY <1>5, <1>6 DEF Partly

\* One more byte from start upwards: the partial word grows by one.
LEMMA PartlyMoreLittle ==
    ASSUME NEW s \in SignalType, NEW n \in 0 .. 3, n <= s.stop - s.start,
           TypeOK, version = "v1" => n # 3
    PROVE  Or(Partly(s, FALSE, n), n, data[s.start + n]) = Partly(s, FALSE, n + 1)
<1>0. s.start \in 0 .. 7 /\ s.stop \in 0 .. 7 /\ s.start <= s.stop
  BY SignalFacts
<1>1. data \in [0 .. 7 -> Byte]
  BY DEF TypeOK, Word
<1>2. \A d \in 0 .. 7 : d < n => s.start + d \in 0 .. 7
  BY <1>0
<1>3. Partly(s, FALSE, n) \in Word
  <2>1. \A d \in 0 .. 7 : (IF d < n THEN data[s.start + d] ELSE {}) \in Byte
    <3>1. {} \in Byte
      BY DEF Byte
    <3> QED
      BY <1>1, <1>2, <3>1
  <2>2. Partly(s, FALSE, n) =
            [d \in 0 .. 7 |-> IF d < n THEN data[s.start + d] ELSE {}]
    BY DEF Partly
  <2> QED
    BY <2>1, <2>2 DEF Word
<1>4. data[s.start + n] \in Byte
  BY <1>0, <1>1
<1>5. Or(Partly(s, FALSE, n), n, data[s.start + n]) =
          [d \in 0 .. 7 |-> IF d = n THEN Partly(s, FALSE, n)[d] \cup data[s.start + n]
                            ELSE Partly(s, FALSE, n)[d]]
  <2> DEFINE word == Partly(s, FALSE, n)
             byte == data[s.start + n]
  <2>0. n \in 0 .. 7
    OBVIOUS
  <2>1. word \in Word /\ byte \in Byte
    BY <1>3, <1>4, Zenon
  <2> HIDE DEF word, byte
  <2>2. Or(word, n, byte) =
            [d \in 0 .. 7 |-> IF d = n THEN word[d] \cup byte ELSE word[d]]
    BY <2>0, <2>1, OrOne
  <2> QED
    BY <2>2 DEF word, byte
<1>6. ASSUME NEW d \in 0 .. 7
      PROVE  (IF d = n THEN Partly(s, FALSE, n)[d] \cup data[s.start + n]
              ELSE Partly(s, FALSE, n)[d]) = Partly(s, FALSE, n + 1)[d]
  <2>1. CASE d = n
    <3>1. Partly(s, FALSE, n)[d] = {}
      BY <2>1 DEF Partly
    <3>2. Partly(s, FALSE, n + 1)[d] = data[s.start + n]
      BY <2>1 DEF Partly
    <3> QED
      BY <2>1, <3>1, <3>2
  <2>2. CASE d # n
    <3>1. d < n <=> d < n + 1
      BY <2>2
    <3> QED
      BY <2>2, <3>1 DEF Partly
  <2> QED
    BY <2>1, <2>2
<1> QED
  BY <1>5, <1>6 DEF Partly

\* Without a little-endian entry in the server no loop counts down.
LEMMA Forwards ==
    ASSUME ServerIsBigEndian, TypeOK, entry \in 1 .. Count
    PROVE  ~Backwards
<1> SUFFICES ASSUME version = "server", ~Here.big PROVE FALSE
  BY DEF Backwards
<1>1. version \in Versions /\ table \in Tables[version]
  BY DEF TypeOK
<1>2. table \in Tables["server"] /\ "server" \in Versions
  BY <1>1
<1>3. table[entry].big
  BY <1>2 DEF ServerIsBigEndian, Count
<1> QED
  BY <1>3 DEF Here

\* Before the first call no value has been computed.
LEMMA InitValues == Init => ValueInv
<1> SUFFICES ASSUME Init PROVE ValueInv
  OBVIOUS
<1>1. WalkInv
  BY InitWalk
<1>2. WordsOK /\ Decoded
  BY DEF Init, WordsOK, Decoded, Busy
<1> QED
  BY <1>1, <1>2 DEF ValueInv

\* The place in the word of byte c of the frame, and the number after the loop.
LEMMA Places ==
    ASSUME NEW a \in 0 .. 7, NEW b \in 0 .. 7, a <= b, b - a <= 3, NEW c \in a .. b
    PROVE  /\ b - c \in 0 .. 3 /\ b - c <= b - a /\ b - (b - c) = c
           /\ c - a \in 0 .. 3 /\ c - a <= b - a /\ a + (c - a) = c
           /\ b - a < 3 => c - a # 3
           /\ b - (b + 1) = -1 /\ (b + 1) - a = b - a + 1
OBVIOUS

\* One more byte in its place.
LEMMA TakeByteValues ==
    ASSUME ServerIsBigEndian, ValueInv, TakeByte
    PROVE  raw' = [raw EXCEPT ![ii] = Partly(Signal, Here.big, num')]
<1> USE DEF ValueInv, WalkInv
<1>0. Busy
  BY DEF TakeByte, Busy
<1>1. /\ entry \in 1 .. Count
      /\ ii \in 1 .. Len(Here.signals)
      /\ Len(Here.signals) \in 1 .. MaxSignals
      /\ Here.big \in BOOLEAN
      /\ Signal \in SignalType
      /\ version = "v1" => ~Here.big /\ Signal.stop - Signal.start < 3
  BY <1>0, HereFacts DEF TakeByte, PlaceOK
<1>2. /\ Signal.start \in 0 .. 7 /\ Signal.stop \in 0 .. 7
      /\ Signal.start <= Signal.stop /\ Signal.stop - Signal.start <= 3
  BY <1>1, SignalFacts
<1>3. ~Backwards
  BY <1>1, Forwards
<1>4. ii \in 1 .. MaxSignals
  BY <1>1, Within
<1>5. iii \in Signal.start .. Signal.stop
  BY <1>2, <1>3 DEF TakeByte, LoopOK, MoreBytes
<1>6. BytesAt(iii) = {data[iii]}
  BY <1>2, <1>5 DEF BytesAt
<1>7. raw' = [raw EXCEPT ![ii] = Or(raw[ii], num, data[iii])]
  BY <1>6 DEF TakeByte
<1>8. raw[ii] = Partly(Signal, Here.big, num)
  BY <1>0, <1>4 DEF WordsOK, TakeByte
<1>9. CASE Here.big
  <2>1. num = Signal.stop - iii /\ num' = num - 1
    BY <1>9 DEF TakeByte, LoopOK
  <2>2. num \in 0 .. 3 /\ num <= Signal.stop - Signal.start /\ iii = Signal.stop - num
    <3>1. /\ Signal.stop - iii \in 0 .. 3
          /\ Signal.stop - iii <= Signal.stop - Signal.start
          /\ Signal.stop - (Signal.stop - iii) = iii
      BY <1>2, <1>5, Places
    <3> QED
      BY <2>1, <3>1
  <2>3. version # "v1" /\ Here.big = TRUE
    BY <1>1, <1>9
  <2> DEFINE s == Signal
             n == num
  <2>a. s \in SignalType /\ n \in 0 .. 3 /\ n <= s.stop - s.start
    BY <1>1, <2>2
  <2> HIDE DEF s, n
  <2>b. Or(Partly(s, TRUE, n), n, data[s.stop - n]) = Partly(s, TRUE, n - 1)
    BY <2>3, <2>a, PartlyMoreBig
  <2>4. Or(Partly(Signal, TRUE, num), num, data[Signal.stop - num])
            = Partly(Signal, TRUE, num - 1)
    BY <2>b DEF s, n
  <2> QED
    BY <1>7, <1>8, <2>1, <2>2, <2>3, <2>4, Zenon
<1>10. CASE ~Here.big
  <2>1. num = iii - Signal.start /\ num' = num + 1
    BY <1>3, <1>10 DEF TakeByte, LoopOK
  <2>2. num \in 0 .. 3 /\ num <= Signal.stop - Signal.start /\ iii = Signal.start + num
    <3>1. /\ iii - Signal.start \in 0 .. 3
          /\ iii - Signal.start <= Signal.stop - Signal.start
          /\ Signal.start + (iii - Signal.start) = iii
      BY <1>2, <1>5, Places
    <3> QED
      BY <2>1, <3>1
  <2>3. version = "v1" => num # 3
    <3>1. Signal.stop - Signal.start < 3 => iii - Signal.start # 3
      BY <1>2, <1>5, Places
    <3> QED
      BY <1>1, <2>1, <3>1
  <2>4. Here.big = FALSE
    BY <1>1, <1>10
  <2> DEFINE s == Signal
             n == num
  <2>a. /\ s \in SignalType /\ n \in 0 .. 3 /\ n <= s.stop - s.start
        /\ version = "v1" => n # 3
    BY <1>1, <2>2, <2>3
  <2> HIDE DEF s, n
  <2>b. Or(Partly(s, FALSE, n), n, data[s.start + n]) = Partly(s, FALSE, n + 1)
    BY <2>a, PartlyMoreLittle
  <2>5. Or(Partly(Signal, FALSE, num), num, data[Signal.start + num])
            = Partly(Signal, FALSE, num + 1)
    BY <2>b DEF s, n
  <2> QED
    BY <1>7, <1>8, <2>1, <2>2, <2>4, <2>5, Zenon
<1> QED
  BY <1>9, <1>10

\* The word is complete when the loop ends.
LEMMA SignalDoneValues ==
    ASSUME ServerIsBigEndian, ValueInv, SignalDone
    PROVE  raw[ii] = Meaning(Here)[ii]
<1> USE DEF ValueInv, WalkInv
<1>0. Busy
  BY DEF SignalDone, Busy
<1>1. /\ entry \in 1 .. Count
      /\ ii \in 1 .. Len(Here.signals)
      /\ Len(Here.signals) \in 1 .. MaxSignals
      /\ Here.big \in BOOLEAN
      /\ Signal \in SignalType
  BY <1>0, HereFacts DEF SignalDone, PlaceOK
<1>2. /\ Signal.start \in 0 .. 7 /\ Signal.stop \in 0 .. 7
      /\ Signal.start <= Signal.stop
  BY <1>1, SignalFacts
<1>3. ~Backwards
  BY <1>1, Forwards
<1>4. iii = Signal.stop + 1
  BY <1>2, <1>3 DEF SignalDone, LoopOK, MoreBytes
<1>5. raw[ii] = Partly(Signal, Here.big, num)
  <2>1. ii \in 1 .. MaxSignals
    BY <1>1, Within
  <2> QED
    BY <1>0, <2>1 DEF WordsOK, SignalDone
<1>6. Meaning(Here)[ii] = IF Here.big THEN BigEndian(Signal) ELSE LittleEndian(Signal)
  BY <1>1 DEF Meaning, Signal
<1>7. CASE Here.big
  <2>1. num = -1 /\ Here.big = TRUE
    BY <1>1, <1>2, <1>4, <1>7 DEF SignalDone, LoopOK
  <2>2. Partly(Signal, TRUE, -1) = BigEndian(Signal)
    BY <1>1, PartlyBig
  <2> QED
    BY <1>5, <1>6, <2>1, <2>2, Zenon
<1>8. CASE ~Here.big
  <2>0. num = iii - Signal.start
    BY <1>3, <1>8 DEF SignalDone, LoopOK
  <2>1. num = Signal.stop - Signal.start + 1 /\ Here.big = FALSE
    <3>1. num = Signal.stop - Signal.start + 1
      <4>1. \A a, b \in 0 .. 7 : (b + 1) - a = b - a + 1
        OBVIOUS
      <4> QED
        BY <1>2, <1>4, <2>0, <4>1
    <3>2. Here.big = FALSE
      BY <1>1, <1>8
    <3> QED
      BY <3>1, <3>2
  <2>2. Partly(Signal, FALSE, Signal.stop - Signal.start + 1) = LittleEndian(Signal)
    BY <1>1, PartlyLittle
  <2> QED
    BY <1>5, <1>6, <2>1, <2>2, Zenon
<1> QED
  BY <1>7, <1>8

\* A step of a call that writes no values keeps the written ones right.
LEMMA DecodedKept ==
    ASSUME Decoded, UNCHANGED job, UNCHANGED out
    PROVE  Decoded'
<1>1. CASE out = <<>>
  BY <1>1 DEF Decoded
<1>2. CASE out # <<>>
  <2>1. PICK k \in 1 .. Count : table[k].id = id /\ out = Meaning(table[k])
    BY <1>2 DEF Decoded
  <2>2. k \in 1 .. Count' /\ table'[k].id = id' /\ out' = Meaning(table[k])'
    BY <2>1 DEF job, Count, Meaning, BigEndian, LittleEndian
  <2> QED
    BY <2>2 DEF Decoded, Meaning, BigEndian, LittleEndian
<1> QED
  BY <1>1, <1>2

\* Every step of a call keeps the words right.
LEMMA NextValues ==
    ASSUME ServerIsBigEndian, ValueInv, [Next]_vars
    PROVE  ValueInv'
<1> USE DEF ValueInv
<1>0. WalkInv'
  BY NextWalk
<1>1. ASSUME NEW newId \in Ids, NEW newData \in Word, Call(newId, newData)
      PROVE  WordsOK' /\ Decoded'
  BY <1>1 DEF Call, WordsOK, Decoded, Busy
<1>2. CASE Outside
  <2>1. UNCHANGED job /\ UNCHANGED <<out, raw>> /\ ~Busy'
    BY <1>2 DEF Outside, Busy
  <2>2. Decoded'
    BY <2>1, DecodedKept
  <2>3. WordsOK'
    BY <1>2, <2>1 DEF Outside, WordsOK
  <2> QED
    BY <1>0, <2>2, <2>3
<1>3. CASE OtherId
  <2>1. UNCHANGED job /\ UNCHANGED <<out, raw>> /\ ~Busy'
    BY <1>3 DEF OtherId, Busy
  <2>2. Decoded'
    BY <2>1, DecodedKept
  <2>3. WordsOK'
    BY <1>3, <2>1 DEF OtherId, WordsOK
  <2> QED
    BY <1>0, <2>2, <2>3
<1>4. CASE SameId
  <2>0. out = <<>>
    BY <1>0, <1>4 DEF WalkInv, PlaceOK, Busy, SameId
  <2>1. \A k \in 1 .. MaxSignals : raw'[k] = Zero
    BY <1>4, <2>0 DEF SameId, WordsOK
  <2>2. ii' = 1 /\ \A k \in 1 .. MaxSignals : ~(k < ii')
    BY <1>4 DEF SameId, MaxSignals
  <2>3. WordsOK'
    BY <1>4, <2>1, <2>2 DEF SameId, WordsOK, Busy
  <2>4. Decoded'
    BY <1>4, <2>0 DEF SameId, Decoded
  <2> QED
    BY <1>0, <2>3, <2>4
<1>5. CASE Return
  <2>1. UNCHANGED job /\ UNCHANGED <<out, raw>> /\ ~Busy'
    BY <1>5 DEF Return, Busy
  <2>2. Decoded'
    BY <2>1, DecodedKept
  <2>3. WordsOK'
    BY <1>5, <2>1 DEF Return, WordsOK
  <2> QED
    BY <1>0, <2>2, <2>3
<1>6. CASE StartSignal
  <2>0. Busy
    BY <1>6 DEF StartSignal, Busy
  <2>1. Here' = Here /\ Meaning(Here)' = Meaning(Here) /\ Signal' = Signal
    BY <1>6 DEF StartSignal, Here, Meaning, BigEndian, LittleEndian, Signal, job
  <2>2. Signal \in SignalType /\ Here.big \in BOOLEAN
    BY <1>6, <2>0, HereFacts DEF StartSignal, WalkInv, PlaceOK
  <2>3. num' = IF Here.big THEN Signal.stop - Signal.start ELSE 0
    BY <1>6 DEF StartSignal
  <2>4. Partly(Signal, Here.big, num') = Zero
    <3> DEFINE s == Signal
               big == Here.big
               n == num'
    <3>1. s \in SignalType /\ big \in BOOLEAN
      BY <2>2
    <3>2. n = IF big THEN s.stop - s.start ELSE 0
      BY <2>3
    <3> HIDE DEF s, big, n
    <3>3. Partly(s, big, IF big THEN s.stop - s.start ELSE 0) = Zero
      BY <3>1, PartlyNothing
    <3>4. Partly(s, big, n) = Zero
      BY <3>2, <3>3
    <3> QED
      BY <3>4 DEF s, big, n
  <2>5. Partly(Signal, Here.big, num)' = Partly(Signal, Here.big, num')
    BY <1>6, <2>1 DEF StartSignal, Partly, job
  <2>6. WordsOK'
    BY <1>6, <2>0, <2>1, <2>4, <2>5 DEF StartSignal, WordsOK, Busy
  <2>7. Decoded'
    BY <1>6, <2>0 DEF StartSignal, Decoded, WalkInv, PlaceOK
  <2> QED
    BY <1>0, <2>6, <2>7
<1>7. CASE LastSignal
  <2>0. Busy
    BY <1>7 DEF LastSignal, Busy
  <2>1. Here' = Here /\ Meaning(Here)' = Meaning(Here)
    BY <1>7 DEF LastSignal, Here, Meaning, BigEndian, LittleEndian, job
  <2>2. WordsOK'
    BY <1>7, <2>0, <2>1 DEF LastSignal, WordsOK, Busy
  <2>3. Decoded'
    BY <1>7, <2>0 DEF LastSignal, Decoded, WalkInv, PlaceOK
  <2> QED
    BY <1>0, <2>2, <2>3
<1>8. CASE TakeByte
  <2>0. Busy
    BY <1>8 DEF TakeByte, Busy
  <2>1. Here' = Here /\ Meaning(Here)' = Meaning(Here) /\ Signal' = Signal
    BY <1>8 DEF TakeByte, Here, Meaning, BigEndian, LittleEndian, Signal, job
  <2>2. raw' = [raw EXCEPT ![ii] = Partly(Signal, Here.big, num')]
    BY <1>8, TakeByteValues
  <2>3. Partly(Signal, Here.big, num)' = Partly(Signal, Here.big, num')
    BY <1>8, <2>1 DEF TakeByte, Partly, job
  <2>4. raw \in [1 .. MaxSignals -> Word] /\ ii \in 1 .. MaxSignals + 1
    BY DEF WalkInv, TypeOK
  <2>5. \A k \in 1 .. MaxSignals : k < ii \/ k > ii => raw'[k] = raw[k]
    BY <2>2, <2>4 DEF MaxSignals
  <2>6. \A k \in 1 .. MaxSignals : k = ii => raw'[k] = Partly(Signal, Here.big, num')
    BY <2>2, <2>4
  <2>7. WordsOK'
    BY <1>8, <2>0, <2>1, <2>3, <2>5, <2>6 DEF TakeByte, WordsOK, Busy
  <2>8. Decoded'
    BY <1>8, <2>0 DEF TakeByte, Decoded, WalkInv, PlaceOK
  <2> QED
    BY <1>0, <2>7, <2>8
<1>9. CASE SignalDone
  <2>0. Busy
    BY <1>9 DEF SignalDone, Busy
  <2>1. Here' = Here /\ Meaning(Here)' = Meaning(Here) /\ raw' = raw
    BY <1>9 DEF SignalDone, Here, Meaning, BigEndian, LittleEndian, job
  <2>2. raw[ii] = Meaning(Here)[ii]
    BY <1>9, SignalDoneValues
  <2>3. ii' = ii + 1 /\ ii \in 1 .. MaxSignals + 1
    BY <1>9 DEF SignalDone, WalkInv, TypeOK
  <2>4. \A k \in 1 .. MaxSignals : k < ii' => k < ii \/ k = ii
    BY <2>3 DEF MaxSignals
  <2>5. \A k \in 1 .. MaxSignals : k > ii' \/ k = ii' => k > ii
    BY <2>3 DEF MaxSignals
  <2>6. \A k \in 1 .. MaxSignals : k < ii' => raw'[k] = Meaning(Here)[k]
    BY <2>0, <2>1, <2>2, <2>4 DEF WordsOK
  <2>7. \A k \in 1 .. MaxSignals : k > ii' \/ k = ii' => raw'[k] = Zero
    BY <2>0, <2>1, <2>5 DEF WordsOK
  <2>8. WordsOK'
    BY <1>9, <2>1, <2>6, <2>7 DEF SignalDone, WordsOK, Busy
  <2>9. Decoded'
    BY <1>9, <2>0 DEF SignalDone, Decoded, WalkInv, PlaceOK
  <2> QED
    BY <1>0, <2>8, <2>9
<1>10. CASE Copy
  <2>0. Busy
    BY <1>10 DEF Copy, Busy
  <2>1. /\ entry \in 1 .. Count
        /\ Len(Here.signals) \in 1 .. MaxSignals
        /\ Here.id = id
        /\ ii = Len(Here.signals) + 1
    BY <1>10, <2>0, HereFacts DEF Copy, WalkInv, PlaceOK
  <2>2. out' = [k \in 1 .. Len(Here.signals) |-> raw[k]]
    BY <1>10 DEF Copy
  <2>3. \A k \in 1 .. Len(Here.signals) : k \in 1 .. MaxSignals /\ k < ii
    <3> DEFINE m == Len(Here.signals)
    <3>1. m \in 1 .. MaxSignals /\ ii = m + 1
      BY <2>1
    <3> HIDE DEF m
    <3>2. \A k \in 1 .. m : k \in 1 .. MaxSignals /\ k < ii
      BY <3>1, Within DEF MaxSignals
    <3> QED
      BY <3>2 DEF m
  <2>4. \A k \in 1 .. Len(Here.signals) : raw[k] = Meaning(Here)[k]
    BY <2>0, <2>3 DEF WordsOK
  <2>5. out' = Meaning(Here)
    BY <2>2, <2>4 DEF Meaning
  <2>6. PICK k \in 1 .. Count : k = entry
    BY <2>1
  <2>7. Decoded'
    <3>1. table[k].id = id /\ out' = Meaning(table[k])
      BY <2>1, <2>5, <2>6 DEF Here
    <3>2. /\ k \in 1 .. Count'
          /\ table'[k].id = id'
          /\ out' = Meaning(table[k])'
      BY <1>10, <3>1 DEF Copy, Count, Meaning, BigEndian, LittleEndian, job
    <3> QED
      BY <3>2 DEF Decoded, Meaning, BigEndian, LittleEndian
  <2>8. out' # <<>>
    <3>1. Len(out') = Len(Here.signals)
      BY <2>1, <2>2
    <3> QED
      BY <2>1, <3>1
  <2>9. WordsOK'
    BY <1>10, <2>8 DEF Copy, WordsOK, Busy
  <2> QED
    BY <1>0, <2>7, <2>9
<1>11. CASE UNCHANGED vars
  <2>1. Decoded'
    BY <1>11, DecodedKept DEF vars, job
  <2>2. WordsOK'
    <3>1. Here' = Here /\ Meaning(Here)' = Meaning(Here) /\ (Busy' <=> Busy)
      BY <1>11 DEF vars, Here, Meaning, BigEndian, LittleEndian, Busy
    <3>2. Partly(Signal, Here.big, num)' = Partly(Signal, Here.big, num)
      BY <1>11 DEF vars, Here, Signal, Partly
    <3> QED
      BY <1>11, <3>1, <3>2 DEF vars, WordsOK
  <2> QED
    BY <1>0, <2>1, <2>2
<1> QED
  BY <1>0, <1>1, <1>2, <1>3, <1>4, <1>5, <1>6, <1>7, <1>8, <1>9, <1>10, <1>11 DEF Next

\* Whatever the table and the frames, a call writes the value of each signal
\* of the entry with the frame's id, its bytes in the order of the endian
\* field: in v1 and v2 always, in the server for big-endian entries.
THEOREM ValuesAreRight == ASSUME ServerIsBigEndian PROVE Spec => []Decoded
<1>1. Init => ValueInv
  BY InitValues
<1>2. ValueInv /\ [Next]_vars => ValueInv'
  BY NextValues
<1>3. ValueInv => Decoded
  BY DEF ValueInv
<1> QED
  BY <1>1, <1>2, <1>3, PTL DEF Spec
================================================================================
