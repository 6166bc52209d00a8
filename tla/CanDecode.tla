----------------------------- MODULE CanDecode -----------------------------
(***************************************************************************)
(* convert_can_data: how the bytes of one CAN frame become the raw values  *)
(* of the signals that the DBC table names in it.  The repository has      *)
(* three versions of the function,                                         *)
(*   "server"  Server_subscriber/source/can_convert.cpp                    *)
(*   "v2"      CAN_convert2_git/src/CAN_convert2_git.c                     *)
(*   "v1"      CAN_convert_git/src/CAN_convert_data.c                      *)
(* which walk the table with a counter, shift byte after byte into a       *)
(* 64-bit word and differ in how they do it.  One step of this module is   *)
(* one turn of one of the loops.                                           *)
(*                                                                         *)
(* A byte is a set of bits and a word is the eight bytes of a uint64_t,    *)
(* number 0 the least significant: << (num * 8) chooses a byte and |= is   *)
(* a union.  The line splitting before the loops, and the linear scaling   *)
(* offset + scale * raw and the strings after them, are left out.          *)
(* Counters start at 1 where the code's start at 0, byte numbers at 0.     *)
(***************************************************************************)
EXTENDS Integers, Sequences

CONSTANTS
    Bits,       \* the bits of a byte that are told apart
    SignBit,    \* the one that is a byte's most significant
    Ids,        \* the CAN ids that frames carry
    NoId,       \* no frame yet
    Tables      \* the loaded tables, a set for each version of the function

Versions == DOMAIN Tables
Byte == SUBSET Bits
Word == [0 .. 7 -> Byte]
Zero == [d \in 0 .. 7 |-> {}]
MaxSignals == 4                                \* MAX_SIGNAL_IN_ID

SignalType == {s \in [start : 0 .. 7, stop : 0 .. 7] :
                   s.start <= s.stop /\ s.stop - s.start <= 3}
EntryType == [id : Ids, big : BOOLEAN,
              signals : {q \in Seq(SignalType) : Len(q) \in 1 .. MaxSignals}]

(* A signal is at most as wide as the unsigned int that is shifted, the    *)
(* table names an id once, and v1 knows one little-endian signal for each  *)
(* id, narrower than the int its bytes are promoted to.                    *)
ASSUME TablesAssumption ==
    /\ Versions \subseteq {"server", "v2", "v1"}
    /\ \A v \in Versions : \A t \in Tables[v] :
           /\ t \in Seq(EntryType)
           /\ \A j, k \in DOMAIN t : t[j].id = t[k].id => j = k
           /\ v = "v1" => \A k \in DOMAIN t :
                  /\ ~t[k].big
                  /\ Len(t[k].signals) = 1
                  /\ t[k].signals[1].stop - t[k].signals[1].start < 3

ASSUME BitsAssumption == SignBit \in Bits /\ NoId \notin Ids

VARIABLES
    version,    \* which of the three functions runs
    table,      \* dbc_array, *count entries of it
    id,         \* data_frame->can_id, NoId before the first call
    data,       \* data_frame->data
    pc,         \* where the call is: "idle" between calls, "dead" after a crash
    i,          \* the counter of the loop over the entries
    entry,      \* the entry that is read: dbc_array[i], or where dbc_array points
    ii,         \* the signal of that entry
    iii,        \* the byte of the frame
    num,        \* the byte of the word
    raw,        \* raw_value_decimal
    out         \* what the call has written to final_data, or printed

vars == <<version, table, id, data, pc, i, entry, ii, iii, num, raw, out>>
job == <<version, table, id, data>>

Count == Len(table)
Here == table[entry]
Signal == Here.signals[ii]
Backwards == version = "server" /\ ~Here.big   \* the loop that counts down

TypeOK ==
    /\ version \in Versions
    /\ table \in Tables[version]
    /\ id \in Ids \cup {NoId}
    /\ data \in Word
    /\ pc \in {"idle", "entry", "signal", "byte", "copy", "dead"}
    /\ i \in Nat \ {0}
    /\ entry \in Nat \ {0}
    /\ ii \in 1 .. MaxSignals + 1
    /\ iii \in 0 .. 8
    /\ num \in -1 .. 4
    /\ raw \in [1 .. MaxSignals -> Word]
    /\ out \in Seq(Word)

Init ==
    /\ version \in Versions
    /\ table \in Tables[version]
    /\ id = NoId
    /\ data = Zero
    /\ pc = "idle"
    /\ i = 1 /\ entry = 1 /\ ii = 1 /\ iii = 0 /\ num = 0
    /\ raw = [k \in 1 .. MaxSignals |-> Zero]
    /\ out = <<>>

-----------------------------------------------------------------------------
(* The call, with the frame that was split from the message. *)

(* Mistake to be noticed: the values are not cleared between calls. *)
CallKeepsRaw(newId, newData) ==
    /\ pc = "idle"
    /\ id' = newId
    /\ data' = newData
    /\ out' = <<>>
    /\ i' = 1
    /\ entry' = 1
    /\ pc' = "entry"
    /\ UNCHANGED <<version, table, ii, iii, num, raw>>

Call(newId, newData) ==
    /\ pc = "idle"
    /\ id' = newId
    /\ data' = newData
    /\ raw' = [k \in 1 .. MaxSignals |-> Zero]
    /\ out' = <<>>
    /\ i' = 1
    /\ entry' = 1
    /\ pc' = "entry"
    /\ UNCHANGED <<version, table, ii, iii, num>>

(* Behind the block there is memory that the program never wrote.  It is   *)
(* not the id of the frame, or the read is what ends the program.          *)
Outside ==
    /\ pc = "entry"
    /\ i <= Count
    /\ entry > Count
    /\ \/ pc' = "entry" /\ i' = i + 1 /\ entry' = entry + 1
       \/ pc' = "dead" /\ UNCHANGED <<i, entry>>
    /\ UNCHANGED <<job, ii, iii, num, raw, out>>

OtherId ==
    /\ pc = "entry"
    /\ i <= Count
    /\ entry <= Count
    /\ Here.id # id
    /\ i' = i + 1
    /\ entry' = entry + 1
    /\ UNCHANGED <<job, pc, ii, iii, num, raw, out>>

SameId ==
    /\ pc = "entry"
    /\ i <= Count
    /\ entry <= Count
    /\ Here.id = id
    /\ ii' = 1
    /\ pc' = "signal"
    /\ UNCHANGED <<job, i, entry, iii, num, raw, out>>

(* Mistake to be noticed: the loop ends before the last entry. *)
ReturnEarly ==
    /\ pc = "entry"
    /\ i >= Count
    /\ pc' = "idle"
    /\ UNCHANGED <<job, i, entry, ii, iii, num, raw, out>>

Return ==
    /\ pc = "entry"
    /\ i > Count
    /\ pc' = "idle"
    /\ UNCHANGED <<job, i, entry, ii, iii, num, raw, out>>

FirstByte == IF Backwards THEN Signal.stop + 1 ELSE Signal.start

StartSignal ==
    /\ pc = "signal"
    /\ ii <= Len(Here.signals)
    /\ num' = IF Here.big THEN Signal.stop - Signal.start ELSE 0
    /\ iii' = FirstByte
    /\ pc' = "byte"
    /\ UNCHANGED <<job, i, entry, ii, raw, out>>

LastSignal ==
    /\ pc = "signal"
    /\ ii > Len(Here.signals)
    /\ pc' = "copy"
    /\ UNCHANGED <<job, i, entry, ii, iii, num, raw, out>>

(* Mistake to be noticed: one byte too many is shifted in. *)
MoreBytesInclusive == IF Backwards THEN iii >= Signal.start ELSE iii <= Signal.stop + 1

MoreBytes == IF Backwards THEN iii > Signal.start ELSE iii <= Signal.stop

(* data has eight elements; the padding behind it holds anything. *)
BytesAt(k) == IF k <= 7 THEN {data[k]} ELSE Byte

(* The word after raw |= byte << (n * 8).  In v1 the byte is promoted to   *)
(* a signed int, and a sign bit shifted to its top fills the upper half.   *)
Or(word, n, byte) ==
    [d \in 0 .. 7 |->
        word[d] \cup
            (IF d = n THEN byte
             ELSE IF version = "v1" /\ n = 3 /\ d > 3 /\ SignBit \in byte THEN Bits
             ELSE {})]

TakeByte ==
    /\ pc = "byte"
    /\ MoreBytes
    /\ \E byte \in BytesAt(iii) : raw' = [raw EXCEPT ![ii] = Or(@, num, byte)]
    /\ num' = IF Here.big THEN num - 1 ELSE num + 1
    /\ iii' = IF Backwards THEN iii - 1 ELSE iii + 1
    /\ UNCHANGED <<job, pc, i, entry, ii, out>>

SignalDone ==
    /\ pc = "byte"
    /\ ~MoreBytes
    /\ ii' = ii + 1
    /\ pc' = "signal"
    /\ UNCHANGED <<job, i, entry, iii, num, raw, out>>

(* v2 copies the values with the counter of the loop it is in. *)
AfterCopy == IF version = "v2" THEN Len(Here.signals) + 2 ELSE i + 1

Copy ==
    /\ pc = "copy"
    /\ out' = [k \in 1 .. Len(Here.signals) |-> raw[k]]
    /\ i' = AfterCopy
    /\ entry' = entry + 1
    /\ pc' = "entry"
    /\ UNCHANGED <<job, ii, iii, num, raw>>

Next ==
    \/ \E newId \in Ids, newData \in Word : Call(newId, newData)
    \/ Outside \/ OtherId \/ SameId \/ Return
    \/ StartSignal \/ LastSignal \/ TakeByte \/ SignalDone
    \/ Copy

Spec == Init /\ [][Next]_vars

-----------------------------------------------------------------------------
(* What the bytes from start to stop mean in the two byte orders. *)

BigEndian(s) ==
    [d \in 0 .. 7 |-> IF d <= s.stop - s.start THEN data[s.stop - d] ELSE {}]

LittleEndian(s) ==
    [d \in 0 .. 7 |-> IF d <= s.stop - s.start THEN data[s.start + d] ELSE {}]

Meaning(e) ==
    [k \in 1 .. Len(e.signals) |->
        IF e.big THEN BigEndian(e.signals[k]) ELSE LittleEndian(e.signals[k])]

(* The values a call writes are those of the entry that has the frame's    *)
(* id, each signal's bytes in the order the entry's endian field says, and *)
(* no bit of another signal or of an earlier call is among them.           *)
Decoded ==
    out # <<>> =>
        \E k \in 1 .. Count : table[k].id = id /\ out = Meaning(table[k])

(* A call returns without values only for an id the table does not have,   *)
(* whatever the copying has done to the counter on the way.                *)
KnownIdsAreDecoded ==
    pc = "idle" /\ (\E k \in 1 .. Count : table[k].id = id) => out # <<>>

=============================================================================
