--------------------------- MODULE SubscriberProofs ---------------------------
(***************************************************************************)
(* Theorems about Subscriber, for all karts, identifiers, entries of       *)
(* DBC.csv, traffic and events.                                            *)
(***************************************************************************)
EXTENDS SubscriberInvariant, SequenceTheorems, TLAPS

-------------------------------------------------------------------------------
(***************************************************************************)
(* A queue of message numbers, when a message is received and when the     *)
(* oldest is popped.                                                       *)
(***************************************************************************)
LEMMA QueueKeeps ==
    ASSUME NEW log \in Seq(Message), NEW queue \in Seq(Nat), NEW topic,
           QueueOK(queue, log, topic), NEW m \in Message
    PROVE  QueueOK(queue, Append(log, m), topic)
BY DEF QueueOK

\* Pushing the number of a new message keeps a queue in order.
LEMMA QueuePushes ==
    ASSUME NEW log \in Seq(Message), NEW queue \in Seq(Nat),
           NEW m \in Message, QueueOK(queue, log, m.topic)
    PROVE  QueueOK(Append(queue, Len(log) + 1), Append(log, m), m.topic)
<1> DEFINE n == Len(log) + 1
           longer == Append(queue, n)
           mails == Append(log, m)
<1>1. /\ Len(longer) = Len(queue) + 1 /\ longer[Len(queue) + 1] = n
      /\ \A k \in 1..Len(queue) : longer[k] = queue[k]
  OBVIOUS
<1>2. /\ Len(mails) = n /\ mails[n] = m
      /\ \A k \in 1..Len(log) : mails[k] = log[k]
  OBVIOUS
<1>3. n \in Nat \ {0} /\ Len(queue) \in Nat
  OBVIOUS
<1> HIDE DEF n, longer, mails
<1>4. ASSUME NEW k \in 1..Len(longer)
      PROVE  longer[k] \in 1..Len(mails) /\ mails[longer[k]].topic = m.topic
  <2>1. CASE k = Len(queue) + 1
    BY <1>1, <1>2, <1>3, <2>1
  <2>2. CASE k \in 1..Len(queue)
    <3>1. queue[k] \in 1..Len(log) /\ log[queue[k]].topic = m.topic
      BY <2>2 DEF QueueOK
    <3>2. longer[k] = queue[k] /\ mails[queue[k]] = log[queue[k]]
      BY <1>1, <1>2, <2>2, <3>1
    <3>3. Len(log) \in Nat /\ Len(mails) = Len(log) + 1
      BY <1>2 DEF n
    <3>4. queue[k] \in 1..Len(mails)
      BY <3>1, <3>3
    <3> QED
      BY <3>1, <3>2, <3>4
  <2> QED
    BY <1>1, <1>3, <2>1, <2>2
<1>5. ASSUME NEW j \in 1..Len(longer), NEW k \in 1..Len(longer), j < k
      PROVE  longer[j] < longer[k]
  <2>1. j \in 1..Len(queue)
    BY <1>1, <1>3, <1>5
  <2>2. longer[j] = queue[j] /\ queue[j] \in 1..Len(log)
    BY <1>1, <2>1 DEF QueueOK
  <2>3. CASE k = Len(queue) + 1
    BY <1>1, <1>3, <2>2, <2>3 DEF n
  <2>4. CASE k \in 1..Len(queue)
    BY <1>1, <1>5, <2>1, <2>4 DEF QueueOK
  <2> QED
    BY <1>1, <1>3, <2>3, <2>4
<1> QED
  BY <1>4, <1>5 DEF QueueOK, longer, mails, n

\* Popping keeps a queue in order; the next front is younger.
LEMMA QueuePops ==
    ASSUME NEW log \in Seq(Message), NEW queue \in Seq(Nat), NEW topic,
           QueueOK(queue, log, topic), queue # <<>>
    PROVE  /\ Tail(queue) \in Seq(Nat)
           /\ Len(Tail(queue)) = Len(queue) - 1
           /\ QueueOK(Tail(queue), log, topic)
           /\ Tail(queue) # <<>> => Head(queue) < Head(Tail(queue))
<1> DEFINE rest == Tail(queue)
<1>1. /\ rest \in Seq(Nat) /\ Len(rest) = Len(queue) - 1
      /\ \A k \in 1..Len(rest) : rest[k] = queue[k + 1]
  BY HeadTailProperties
<1>2. Len(queue) \in Nat /\ Len(rest) \in Nat
  BY <1>1
<1> HIDE DEF rest
<1>3. ASSUME NEW k \in 1..Len(rest)
      PROVE  k + 1 \in 1..Len(queue) /\ rest[k] = queue[k + 1]
  BY <1>1, <1>2
<1>4. QueueOK(rest, log, topic)
  <2>1. ASSUME NEW j \in 1..Len(rest), NEW k \in 1..Len(rest), j < k
        PROVE  rest[j] < rest[k]
    <3>1. j + 1 < k + 1
      BY <1>2, <2>1
    <3> QED
      BY <1>3, <3>1 DEF QueueOK
  <2>2. ASSUME NEW k \in 1..Len(rest)
        PROVE  rest[k] \in 1..Len(log) /\ log[rest[k]].topic = topic
    BY <1>3 DEF QueueOK
  <2> QED
    BY <2>1, <2>2 DEF QueueOK
<1>5. ASSUME rest # <<>> PROVE Head(queue) < Head(rest)
  <2>1. Len(rest) >= 1
    BY <1>1, <1>2, <1>5, EmptySeq
  <2>2. Head(queue) = queue[1] /\ Head(rest) = rest[1]
    BY <1>1, <1>5
  <2>3. rest[1] = queue[2] /\ 2 \in 1..Len(queue) /\ 1 \in 1..Len(queue)
    BY <1>1, <1>2, <2>1
  <2> QED
    BY <2>2, <2>3 DEF QueueOK
<1> QED
  BY <1>1, <1>4, <1>5 DEF rest

\* The front of a queue is a message of its topic.
LEMMA QueueHead ==
    ASSUME NEW log \in Seq(Message), NEW queue \in Seq(Nat), NEW topic,
           QueueOK(queue, log, topic), queue # <<>>
    PROVE  /\ Head(queue) \in 1..Len(log)
           /\ log[Head(queue)].topic = topic
<1>1. Len(queue) >= 1 /\ Head(queue) = queue[1]
  OBVIOUS
<1> QED
  BY <1>1 DEF QueueOK

-------------------------------------------------------------------------------
(***************************************************************************)
(* The queues: what the client's thread pushes and main pops.              *)
(***************************************************************************)
IntakeInv == IntakeType /\ MailOK /\ QueuesOK

\* Every step either ends the process, leaves the queues alone, receives a
\* message or pops one.
LEMMA IntakeSteps ==
    ASSUME [Next]_vars
    PROVE  \/ Die
           \/ UNCHANGED intake /\ (pc' = "insert" => pc = "insert" \/ q # <<>>)
           \/ \E m \in Traffic : GotMail(m)
           \/ PopCan
           \/ StorePower
<1>1. CASE UNCHANGED vars
  BY <1>1 DEF vars
<1>2. CASE Connect \/ OpenDb
  BY <1>2 DEF Connect, OpenDb
<1>3. CASE NoReload \/ FreeDbc \/ LoadDbc \/ ClearUpdate
  BY <1>3 DEF NoReload, FreeDbc, LoadDbc, ClearUpdate
<1>4. CASE Convert
  BY <1>4 DEF Convert
<1>5. CASE StoreGps \/ StoreSignal \/ WalkOff
  BY <1>5 DEF StoreGps, StoreSignal, WalkOff
<1>6. CASE CanDone \/ PowerDone \/ CrashOnFinished
  BY <1>6 DEF CanDone, PowerDone, CrashOnFinished
<1>7. CASE timer_handler
  BY <1>7 DEF timer_handler
<1>8. CASE \E thread \in {"main", "mqtt"} : Sigint(thread)
  BY <1>8 DEF Sigint
<1>9. CASE Handler
  BY <1>9 DEF Handler, HandlerDisconnect, HandlerFree, HandlerFinish, HandlerExit
<1>10. CASE Environment
  BY <1>10 DEF Environment, EditDbc, DbLost, SessionLost, Kill, Restart
<1> QED
  BY <1>1, <1>2, <1>3, <1>4, <1>5, <1>6, <1>7, <1>8, <1>9, <1>10
     DEF Next, Main, Loop

\* The queues start empty.
LEMMA IntakeInit == Init => IntakeInv
<1> SUFFICES ASSUME Init PROVE IntakeInv
  OBVIOUS
<1>1. IntakeType /\ MailOK
  BY DEF Init, IntakeType, MailOK
<1>2. QueuesOK
  BY DEF Init, QueuesOK, QueueOK
<1> QED
  BY <1>1, <1>2 DEF IntakeInv

\* The queues of a dead process are empty.
LEMMA IntakeDie == IntakeInv /\ Die => IntakeInv'
<1> SUFFICES ASSUME IntakeInv, Die PROVE IntakeInv'
  OBVIOUS
<1>1. /\ q' = <<>> /\ power_msg_q' = <<>> /\ mail' = mail /\ pc' = "exited"
      /\ born' = Len(mail)
  BY DEF Die
<1>2. IntakeType' /\ MailOK'
  BY <1>1 DEF IntakeInv, IntakeType, MailOK
<1>3. QueueOK(<<>>, mail, "can") /\ QueueOK(<<>>, mail, "power")
  BY DEF QueueOK
<1>4. Len(<<>>) + Len(<<>>) <= Len(mail)
  BY DEF IntakeInv, IntakeType
<1>5. QueuesOK'
  BY <1>1, <1>3, <1>4 DEF QueuesOK
<1> QED
  BY <1>2, <1>5 DEF IntakeInv

\* Every step keeps the queues in order.
LEMMA IntakeStep == IntakeInv /\ [Next]_vars => IntakeInv'
<1> SUFFICES ASSUME IntakeInv, [Next]_vars PROVE IntakeInv'
  OBVIOUS
<1> USE DEF IntakeInv
<1>1. CASE Die
  BY <1>1, IntakeDie
<1>2. CASE UNCHANGED intake /\ (pc' = "insert" => pc = "insert" \/ q # <<>>)
  BY <1>2 DEF intake, IntakeType, MailOK, QueuesOK
<1>3. ASSUME NEW m \in Traffic, GotMail(m) PROVE IntakeInv'
  <2>1. m \in Message
    BY TrafficAssumption
  <2>2. mail' = Append(mail, m) /\ born' = born /\ pc' = pc
    BY <1>3 DEF GotMail
  <2>3. MailOK' /\ mail' \in Seq(Message) /\ born' \in Nat
    BY <2>1, <2>2 DEF MailOK, IntakeType
  <2>4. CASE m.topic = "can" /\ q' = Append(q, Len(mail) + 1) /\ UNCHANGED power_msg_q
    <3>1. QueueOK(q', mail', "can") /\ QueueOK(power_msg_q', mail', "power")
      BY <2>1, <2>2, <2>4, QueueKeeps, QueuePushes DEF IntakeType, QueuesOK
    <3>2. q' \in Seq(Nat) /\ Len(q') = Len(q) + 1
      BY <2>4 DEF IntakeType
    <3>3. q' # <<>>
      BY <3>2 DEF IntakeType
    <3>4. Len(q') + Len(power_msg_q') <= Len(mail')
      BY <2>1, <2>2, <2>4, <3>2 DEF IntakeType, QueuesOK
    <3> QED
      BY <2>3, <2>4, <3>1, <3>2, <3>3, <3>4 DEF IntakeType, QueuesOK
  <2>5. CASE m.topic = "power" /\ power_msg_q' = Append(power_msg_q, Len(mail) + 1)
             /\ UNCHANGED q
    <3>1. QueueOK(q', mail', "can") /\ QueueOK(power_msg_q', mail', "power")
      BY <2>1, <2>2, <2>5, QueueKeeps, QueuePushes DEF IntakeType, QueuesOK
    <3>2. power_msg_q' \in Seq(Nat) /\ Len(power_msg_q') = Len(power_msg_q) + 1
      BY <2>5 DEF IntakeType
    <3>3. Len(q') + Len(power_msg_q') <= Len(mail')
      BY <2>1, <2>2, <2>5, <3>2 DEF IntakeType, QueuesOK
    <3> QED
      BY <2>2, <2>3, <2>5, <3>1, <3>2, <3>3 DEF IntakeType, QueuesOK
  <2> QED
    BY <1>3, <2>4, <2>5 DEF GotMail
<1>4. CASE PopCan
  <2>1. /\ q' = Tail(q) /\ q # <<>> /\ mail' = mail /\ born' = born
        /\ power_msg_q' = power_msg_q /\ pc' = "can"
    BY <1>4 DEF PopCan, QueuesOK
  <2>2. q' \in Seq(Nat) /\ Len(q') = Len(q) - 1 /\ QueueOK(q', mail, "can")
    BY <2>1, QueuePops DEF IntakeType, QueuesOK
  <2>3. Len(q') + Len(power_msg_q') <= Len(mail')
    BY <2>1, <2>2 DEF IntakeType, QueuesOK
  <2> QED
    BY <2>1, <2>2, <2>3 DEF IntakeType, MailOK, QueuesOK
<1>5. CASE StorePower
  <2>1. /\ power_msg_q' = Tail(power_msg_q) /\ power_msg_q # <<>> /\ mail' = mail
        /\ born' = born /\ q' = q /\ pc' = pc
    BY <1>5 DEF StorePower
  <2>2. /\ power_msg_q' \in Seq(Nat) /\ Len(power_msg_q') = Len(power_msg_q) - 1
        /\ QueueOK(power_msg_q', mail, "power")
    BY <2>1, QueuePops DEF IntakeType, QueuesOK
  <2>3. Len(q') + Len(power_msg_q') <= Len(mail')
    BY <2>1, <2>2 DEF IntakeType, QueuesOK
  <2> QED
    BY <2>1, <2>2, <2>3 DEF IntakeType, MailOK, QueuesOK
<1> QED
  BY <1>1, <1>2, <1>3, <1>4, <1>5, IntakeSteps

-------------------------------------------------------------------------------
(***************************************************************************)
(* Type correctness.                                                       *)
(***************************************************************************)
TypeInv == TypeOK /\ IntakeInv

\* Files are made of slots, and a slot's signals lie in data or behind it.
LEMMA SlotTypes ==
    /\ NoEntry \in Slot
    /\ Entries \subseteq Slot
    /\ \A d \in Dbc : Len(d) \in Nat /\ d \in [1..Len(d) -> Slot]
    /\ \A e \in Entries : e.id # None => e.count \in 1..MaxSignal
<1>1. NoEntry \in Slot
  BY SignalAssumption DEF NoEntry, Slot, Byte
<1>2. ASSUME NEW d \in Dbc
      PROVE  /\ Len(d) \in Nat /\ d \in [1..Len(d) -> Slot]
             /\ \A s \in 1..Len(d) : d[s] \in Slot /\ (d[s].id # None => d[s].count > 0)
  BY DbcAssumption
<1>3. ASSUME NEW e \in Entries
      PROVE  e \in Slot /\ (e.id # None => e.count > 0)
  BY <1>2, <1>3 DEF Entries
<1>4. ASSUME NEW e \in Slot, e.count > 0 PROVE e.count \in 1..MaxSignal
  BY <1>4, SignalAssumption DEF Slot
<1> QED
  BY <1>1, <1>2, <1>3, <1>4

LEMMA BytesType ==
    ASSUME NEW e \in Slot, NEW x \in Signal
    PROVE  Bytes(e, x) \subseteq Cell
<1>1. e.start[x] \in Byte /\ e.stop[x] \in Byte
  BY DEF Slot
<1> QED
  BY <1>1, SignalAssumption DEF Bytes, Byte, Cell

\* Uninitialized memory still has the type of its variable.
LEMMA TypeUninitialized ==
    /\ UninitializedFrame \subseteq CanData
    /\ UninitializedContainer \subseteq Container
    /\ 1 \in 1..MaxSignal + 2
<1>1. UninitializedFrame \subseteq CanData
  BY DEF UninitializedFrame, CanData
<1>2. Junk \in SignalName /\ [signal |-> Junk, value |-> {0}] \in Converted
  BY SignalAssumption DEF Junk, SignalName, Converted
<1>3. UninitializedContainer \subseteq Container
  BY <1>2 DEF UninitializedContainer, Container
<1>4. 1 \in 1..MaxSignal + 2
  BY SignalAssumption
<1> QED
  BY <1>1, <1>3, <1>4

\* The initial state is typed.
LEMMA TypeInit == Init => TypeInv
<1> SUFFICES ASSUME Init PROVE TypeInv
  OBVIOUS
<1>1. ConversionType
  BY TypeUninitialized DEF Init, ConversionType
<1>2. TableType
  BY DEF Init, TableType
<1>3. DbcType /\ ControlType
  BY SlotTypes DEF Init, DbcType, ControlType
<1> QED
  BY <1>1, <1>2, <1>3, IntakeInit DEF TypeInv, TypeOK, IntakeInv

\* Splitting a message leaves a frame, and the message's bytes in it.
LEMMA SplitFrame ==
    ASSUME TypeInv, NEW n \in 1..Len(mail)
    PROVE  LET f == mail[n].frame
           IN  /\ splitmsg(n) \in CanData
               /\ f \in Frame
               /\ f.id # None => splitmsg(n).can_id = f.id
               /\ \A b \in Cell : splitmsg(n).data[b] =
                     IF b \in Brings(f) THEN n ELSE data_frame.data[b]
<1>1. mail[n] \in Message /\ n \in Nat /\ data_frame \in CanData
  BY DEF TypeInv, TypeOK, IntakeType, ConversionType
<1>2. mail[n].frame \in Frame /\ mail[n].frame.id \in CanId \cup {None}
  BY <1>1 DEF Message, Frame
<1>3. splitmsg(n) \in CanData
  BY <1>1, <1>2 DEF splitmsg, CanData
<1> QED
  BY <1>2, <1>3 DEF splitmsg

\* The signals of a conversion are texts and sets of message numbers.
LEMMA SignalsType ==
    ASSUME TypeInv, NEW frame \in CanData, NEW hits \in SUBSET (1..id_count)
    PROVE  Signals(frame, hits) \in [Signal -> Converted]
<1> SUFFICES ASSUME NEW x \in Signal PROVE Signals(frame, hits)[x] \in Converted
  BY DEF Signals
<1>1. frame.can_id \in CanId \cup {None} /\ \A b \in Cell : frame.data[b] \in Nat
  BY DEF CanData
<1>2. x \in 0..MaxSignal
  BY SignalAssumption DEF Signal
<1>3. conv_data.conv[x] \in Converted
  BY DEF TypeInv, TypeOK, ConversionType, Container
<1> DEFINE having == {s \in hits : x <= dbc_array[s].count}
           bytes == {b \in Cell : \E s \in having : b \in Bytes(dbc_array[s], x)}
           values == {frame.data[b] : b \in bytes}
<1>4. values \in SUBSET Nat
  BY <1>1
<1>5. Signals(frame, hits)[x] =
         IF having = {} THEN conv_data.conv[x]
         ELSE [signal |-> [id |-> frame.can_id, x |-> x], value |-> values]
  BY DEF Signals
<1> HIDE DEF values, having
<1> QED
  BY <1>1, <1>2, <1>3, <1>4, <1>5 DEF Converted, SignalName

\* What a conversion leaves in memory has its type.
LEMMA TypeConvert ==
    ASSUME TypeInv, NEW n \in 1..Len(mail), NEW hits \in SUBSET (1..id_count),
           convert_can_data(n, hits)
    PROVE  /\ data_frame' \in CanData
           /\ conv_data' \in Container
           /\ matched' \in BOOLEAN
<1> DEFINE signals == Signals(splitmsg(n), hits)
<1>1. splitmsg(n) \in CanData /\ signals \in [Signal -> Converted]
  BY SplitFrame, SignalsType
<1>2. /\ data_frame' = splitmsg(n)
      /\ matched' = (hits # {})
      /\ \/ conv_data' = [conv_data EXCEPT !.gokart = mail[n].kart]
         \/ \E last \in hits :
               conv_data' = [[conv_data EXCEPT !.gokart = mail[n].kart]
                               EXCEPT !.size = dbc_array[last].count, !.conv = signals]
  BY DEF convert_can_data
<1>3. mail[n].kart \in Kart \cup {None} /\ conv_data \in Container
  <2>1. mail[n] \in Message /\ conv_data \in Container
    BY DEF TypeInv, TypeOK, IntakeType, ConversionType
  <2> QED
    BY <2>1 DEF Message
<1>4. \A last \in hits : dbc_array[last].count \in 0..MaxSignal + 1
  BY SignalAssumption DEF TypeInv, TypeOK, DbcType, Slot
<1> HIDE DEF signals
<1>5. conv_data' \in Container
  BY <1>1, <1>2, <1>3, <1>4 DEF Container
<1>6. (hits # {}) \in BOOLEAN
  OBVIOUS
<1> QED
  BY <1>1, <1>2, <1>5, <1>6

\* The rows main stores have their type.
LEMMA TypeCanRow ==
    ASSUME TypeInv, pc = "insert", NEW kind \in {"value", "gps"},
           NEW x \in Nat, NEW v \in Nat
    PROVE  CanRow(kind, x, v) \in Row
<1>1. Head(q) \in Nat
  BY QueueHead DEF TypeInv, IntakeInv, IntakeType, QueuesOK
<1>2. ASSUME NEW y \in Nat PROVE Conv(y) \in Converted
  BY SignalAssumption
     DEF Conv, Converted, SignalName, Junk, TypeInv, TypeOK, ConversionType, Container
<1>3. conv_data.gokart \in Kart \cup {None} /\ matched \in BOOLEAN
  BY DEF TypeInv, TypeOK, ConversionType, Container
<1>4. Conv(x).signal \in SignalName /\ Conv(v).value \in SUBSET Nat
  BY <1>2 DEF Converted
<1> QED
  BY <1>1, <1>3, <1>4 DEF CanRow, Row

\* The row of a power message is a row.
LEMMA TypePowerRow ==
    ASSUME TypeInv, power_msg_q # <<>>
    PROVE  PowerRow \in Row
<1>1. Head(power_msg_q) \in 1..Len(mail)
  BY QueueHead DEF TypeInv, IntakeInv, IntakeType, QueuesOK
<1>2. Junk \in SignalName
  BY SignalAssumption DEF Junk, SignalName
<1>3. mail[Head(power_msg_q)] \in Message /\ Head(power_msg_q) \in Nat
  BY <1>1 DEF TypeInv, TypeOK, IntakeType
<1>4. mail[Head(power_msg_q)].kart \in Kart
  BY <1>3 DEF Message
<1> QED
  BY <1>2, <1>3, <1>4 DEF PowerRow, Row

\* An insert, done or failed, leaves a table of rows.
LEMMA TypeInsert ==
    ASSUME TableType, NEW row \in Row, Insert(row)
    PROVE  TableType'
BY DEF TableType, Insert

\* Steps that leave the entries, the conversion and the table alone.
LEMMA TypeControl ==
    ASSUME TypeInv, UNCHANGED <<dbc, conversion, table>>, ControlType', IntakeInv'
    PROVE  TypeInv'
<1>1. DbcType' /\ ConversionType' /\ TableType'
  BY DEF TypeInv, TypeOK, DbcType, ConversionType, TableType, dbc, conversion
<1> QED
  BY <1>1 DEF TypeInv, TypeOK, IntakeInv

\* The death of the process keeps the types.
LEMMA TypeDie ==
    ASSUME TypeInv, Die, IntakeInv'
    PROVE  TypeInv'
<1>1. ControlType'
  BY DEF TypeInv, TypeOK, ControlType, Die
<1> QED
  BY <1>1, TypeControl DEF Die

\* Every step keeps the types.
LEMMA TypeStep == TypeInv /\ [Next]_vars => TypeInv'
<1> SUFFICES ASSUME TypeInv, [Next]_vars PROVE TypeInv'
  OBVIOUS
<1> USE DEF ControlType
<1>1. IntakeInv'
  BY IntakeStep DEF TypeInv
<1>2. DbcType /\ ConversionType /\ TableType /\ ControlType /\ IntakeInv
  BY DEF TypeInv, TypeOK
<1>3. CASE UNCHANGED vars
  BY <1>1, <1>2, <1>3, TypeControl DEF vars, links, shutdown
<1>4. CASE Connect
  BY <1>1, <1>2, <1>4, TypeControl DEF Connect, shutdown
<1>5. CASE OpenDb
  BY <1>1, <1>2, <1>5, TypeControl, TypeDie DEF OpenDb, shutdown
<1>6. CASE \E m \in Traffic : GotMail(m)
  BY <1>1, <1>2, <1>6, TypeControl DEF GotMail, links, shutdown
<1>7. CASE timer_handler \/ NoReload \/ ClearUpdate
  BY <1>1, <1>2, <1>7, TypeControl
     DEF timer_handler, NoReload, ClearUpdate, links, shutdown
<1>8. CASE FreeDbc \/ LoadDbc \/ HandlerFree \/ EditDbc
  <2>1. CASE Die
    BY <1>1, <2>1, TypeDie
  <2>2. CASE ~Die
    <3>1. DbcType'
      <4>1. CASE LoadDbc
        <5>1. PICK block \in [1..id_count -> Slot] : dbc_array' = Loaded(block, dbc_file)
          BY <1>2, <2>2, <4>1, SlotTypes DEF LoadDbc, NewBlock, DbcType
        <5>2. Loaded(block, dbc_file) \in [1..id_count -> Slot]
          BY <1>2, <5>1, SlotTypes DEF Loaded, DbcType
        <5> QED
          BY <1>2, <2>2, <4>1, <5>1, <5>2 DEF LoadDbc, DbcType
      <4>2. CASE FreeDbc \/ HandlerFree \/ EditDbc
        BY <1>2, <2>2, <4>2 DEF FreeDbc, HandlerFree, EditDbc, DbcType
      <4> QED
        BY <1>8, <4>1, <4>2
    <3>2. ConversionType' /\ TableType'
      BY <1>2, <1>8, <2>2 DEF FreeDbc, LoadDbc, HandlerFree, EditDbc,
                               ConversionType, TableType, conversion
    <3>3. ControlType'
      BY <1>2, <1>8, <2>2 DEF FreeDbc, LoadDbc, HandlerFree, EditDbc, links, shutdown
    <3> QED
      BY <1>1, <3>1, <3>2, <3>3 DEF TypeInv, TypeOK, IntakeInv
  <2> QED
    BY <2>1, <2>2
<1>9. CASE Convert
  <2>1. CASE Die
    BY <1>1, <2>1, TypeDie
  <2>2. CASE ~Die
    <3>1. PICK hits \in SUBSET (1..id_count) : convert_can_data(Head(q), hits)
      BY <1>9, <2>2 DEF Convert, Search
    <3>2. /\ i' = 1 /\ pc' = "insert"
          /\ UNCHANGED <<intake, update, dbc, table, links, shutdown>>
      BY <1>9, <2>2 DEF Convert
    <3>3. Head(q) \in 1..Len(mail)
      BY <1>9, QueueHead DEF TypeInv, IntakeInv, IntakeType, QueuesOK, Convert
    <3>4. data_frame' \in CanData /\ conv_data' \in Container /\ matched' \in BOOLEAN
      BY <3>1, <3>3, TypeConvert
    <3>5. 1 \in 1..MaxSignal + 2
      BY SignalAssumption
    <3>6. ConversionType'
      BY <3>2, <3>4, <3>5 DEF ConversionType
    <3>7. DbcType' /\ TableType' /\ ControlType'
      BY <1>2, <3>2 DEF DbcType, TableType, dbc, links, shutdown
    <3> QED
      BY <1>1, <3>6, <3>7 DEF TypeInv, TypeOK, IntakeInv
  <2> QED
    BY <2>1, <2>2
<1>10. CASE StoreGps \/ StoreSignal
  <2>1. PICK row \in Row : Insert(row)
    BY <1>2, <1>10, TypeCanRow DEF StoreGps, StoreSignal, ConversionType
  <2>2. TableType'
    BY <1>2, <2>1, TypeInsert
  <2>3. i' \in 1..MaxSignal + 2
    <3>1. conv_data.size \in 0..MaxSignal + 1 /\ i \in 1..MaxSignal + 2
      BY <1>2 DEF ConversionType, Container
    <3>2. CASE StoreGps
      BY <3>2, SignalAssumption DEF StoreGps
    <3>3. CASE StoreSignal
      BY <3>1, <3>3, SignalAssumption DEF StoreSignal
    <3> QED
      BY <1>10, <3>2, <3>3
  <2>4. ConversionType'
    BY <1>2, <1>10, <2>3 DEF StoreGps, StoreSignal, ConversionType
  <2>5. DbcType' /\ ControlType'
    BY <1>2, <1>10 DEF StoreGps, StoreSignal, DbcType, dbc, links, shutdown
  <2> QED
    BY <1>1, <2>2, <2>4, <2>5 DEF TypeInv, TypeOK, IntakeInv
<1>11. CASE StorePower
  <2>1. TableType'
    BY <1>2, <1>11, TypePowerRow, TypeInsert DEF StorePower
  <2>2. DbcType' /\ ConversionType' /\ ControlType'
    BY <1>2, <1>11
       DEF StorePower, DbcType, ConversionType, dbc, conversion, links, shutdown
  <2> QED
    BY <1>1, <2>1, <2>2 DEF TypeInv, TypeOK, IntakeInv
<1>12. CASE PopCan \/ CanDone \/ PowerDone
  BY <1>1, <1>2, <1>12, TypeControl DEF PopCan, CanDone, PowerDone, links, shutdown
<1>13. CASE WalkOff \/ CrashOnFinished \/ Kill \/ HandlerExit
  BY <1>1, <1>13, TypeDie DEF WalkOff, CrashOnFinished, Kill, HandlerExit
<1>14. CASE \E thread \in {"main", "mqtt"} : Sigint(thread)
  BY <1>1, <1>2, <1>14, TypeControl DEF Sigint, links
<1>15. CASE HandlerDisconnect \/ HandlerFinish \/ DbLost \/ SessionLost
  BY <1>1, <1>2, <1>15, TypeControl
     DEF HandlerDisconnect, HandlerFinish, DbLost, SessionLost, links, shutdown
<1>16. CASE Restart
  <2>1. DbcType' /\ TableType' /\ ControlType'
    BY <1>2, <1>16, SlotTypes DEF Restart, DbcType, TableType, links, shutdown
  <2>2. ConversionType'
    BY <1>16, TypeUninitialized DEF Restart, ConversionType
  <2> QED
    BY <1>1, <2>1, <2>2 DEF TypeInv, TypeOK, IntakeInv
<1> QED
  BY <1>3, <1>4, <1>5, <1>6, <1>7, <1>8, <1>9, <1>10, <1>11, <1>12, <1>13, <1>14,
     <1>15, <1>16
     DEF Next, Main, Loop, Handler, Environment

(***************************************************************************)
(* Every variable keeps its type: main never pops an empty queue, its loop *)
(* index stays in bounds, and the rows it sends are well-formed.           *)
(***************************************************************************)
THEOREM TypeCorrect == Spec => []TypeOK
<1>1. TypeInv => TypeOK
  BY DEF TypeInv
<1> QED
  BY <1>1, TypeInit, TypeStep, PTL DEF Spec

-----------------------------------------------------------------------------
(***************************************************************************)
(* What is given back, and by whom.                                        *)
(***************************************************************************)
LEMMA FreedInit == Init => FreedOK
BY DEF Init, FreedOK, HandlerFreed

\* Steps that touch none of it, and neither begin nor end a reload.
LEMMA FreedKeeps ==
    ASSUME FreedOK, UNCHANGED <<allocated, handler>>, conn' = conn \/ conn' # "finished",
           pc' = pc \/ (pc \notin {"reload", "exited"} /\ pc' \notin {"reload", "exited"})
    PROVE  FreedOK'
BY DEF FreedOK, HandlerFreed

\* The process dies with its handler.
LEMMA FreedDie == ASSUME Die PROVE FreedOK'
BY DEF FreedOK, HandlerFreed, Die

\* Main frees, loads and starts again.
LEMMA FreedByMain == ASSUME FreedOK, FreeDbc \/ LoadDbc \/ Restart PROVE FreedOK'
<1>1. CASE FreeDbc
  <2>1. CASE Die
    BY <2>1, FreedDie
  <2>2. CASE ~Die
    BY <1>1, <2>2 DEF FreeDbc, FreedOK, HandlerFreed, links, shutdown
  <2>3. QED
    BY <2>1, <2>2
<1>2. CASE LoadDbc
  BY <1>2, FreedDie DEF LoadDbc, FreedOK, HandlerFreed, links, shutdown
<1>3. CASE Restart
  BY <1>3 DEF Restart, FreedOK, HandlerFreed, links, shutdown
<1>4. QED
  BY <1>1, <1>2, <1>3

\* The handler begins, frees and finishes.
LEMMA FreedByHandler ==
    ASSUME FreedOK,
           \/ \E thread \in {"main", "mqtt"} : Sigint(thread)
           \/ HandlerDisconnect \/ HandlerFree \/ HandlerFinish
    PROVE  FreedOK'
<1>1. CASE \E thread \in {"main", "mqtt"} : Sigint(thread)
  BY <1>1 DEF Sigint, FreedOK, HandlerFreed, dbc, links
<1>2. CASE HandlerDisconnect
  BY <1>2 DEF HandlerDisconnect, FreedOK, HandlerFreed, dbc, links
<1>3. CASE HandlerFree
  <2>1. CASE Die
    BY <2>1, FreedDie
  <2>2. CASE ~Die
    BY <1>3, <2>2 DEF HandlerFree, FreedOK, HandlerFreed, links
  <2>3. QED
    BY <2>1, <2>2
<1>4. CASE HandlerFinish
  BY <1>4 DEF HandlerFinish, FreedOK, HandlerFreed, dbc
<1>5. QED
  BY <1>1, <1>2, <1>3, <1>4

LEMMA FreedStep == FreedOK /\ [Next]_vars => FreedOK'
<1> SUFFICES ASSUME FreedOK, [Next]_vars PROVE FreedOK'
  OBVIOUS
<1>1. CASE UNCHANGED vars
  BY <1>1, FreedKeeps DEF vars, dbc, links, shutdown
<1>2. CASE Connect \/ NoReload \/ PopCan \/ CanDone \/ PowerDone
  BY <1>2, FreedKeeps DEF Connect, NoReload, PopCan, CanDone, PowerDone, dbc, links, shutdown
<1>3. CASE ClearUpdate \/ timer_handler \/ \E m \in Traffic : GotMail(m)
  BY <1>3, FreedKeeps DEF ClearUpdate, timer_handler, GotMail, dbc, links, shutdown
<1>4. CASE StoreGps \/ StoreSignal \/ StorePower
  BY <1>4, FreedKeeps DEF StoreGps, StoreSignal, StorePower, dbc, links, shutdown
<1>5. CASE EditDbc \/ DbLost \/ SessionLost
  BY <1>5, FreedKeeps DEF EditDbc, DbLost, SessionLost, dbc, links, shutdown
<1>6. CASE OpenDb \/ Convert
  BY <1>6, FreedKeeps, FreedDie DEF OpenDb, Convert, dbc, links, shutdown
<1>7. CASE FreeDbc \/ LoadDbc \/ Restart
  BY <1>7, FreedByMain
<1>8. CASE \/ \E thread \in {"main", "mqtt"} : Sigint(thread)
           \/ HandlerDisconnect \/ HandlerFree \/ HandlerFinish
  BY <1>8, FreedByHandler
<1>9. CASE WalkOff \/ CrashOnFinished \/ Kill \/ HandlerExit
  BY <1>9, FreedDie DEF WalkOff, CrashOnFinished, Kill, HandlerExit
<1>10. QED
  BY <1>1, <1>2, <1>3, <1>4, <1>5, <1>6, <1>7, <1>8, <1>9
     DEF Next, Main, Loop, Handler, Environment

(***************************************************************************)
(* Without a SIGINT neither thread touches the entries or the connection   *)
(* after they were given back; with one, only main beside the handler, or  *)
(* the handler in the middle of a reload.                                  *)
(***************************************************************************)
THEOREM OnlySigintFrees == Spec => []FreedOnlyBySigint
<1>1. FreedOK => FreedOnlyBySigint
  BY DEF FreedOK, HandlerFreed, FreedOnlyBySigint, UsesFreed, UsesFinished
<1> QED
  BY <1>1, FreedInit, FreedStep, PTL DEF Spec

-------------------------------------------------------------------------------
(***************************************************************************)
(* The inductive invariant, and what follows from it: rows name the right  *)
(* kart, show the right bytes, and implement RowStore.                     *)
(***************************************************************************)
\* IInv, on top of the type invariant.
Data == BlockOK /\ FreedOK /\ MemoryOK /\ ConversionOK /\ TableOK /\ Provenance
SafeInv == TypeInv /\ Data

\* The grouping used here is the invariant that TLC checks.
LEMMA SafeInvIsIInv == SafeInv /\ StoredOK /\ KeptOK /\ SizeOK <=> IInv
BY DEF SafeInv, Data, IInv, TypeInv, IntakeInv, TypeOK

\* What the queues' fronts are.
LEMMA Numbers ==
    ASSUME TypeInv
    PROVE  /\ Len(mail) \in Nat
           /\ q # <<>> => /\ Head(q) \in 1..Len(mail)
                          /\ mail[Head(q)] \in Traffic /\ mail[Head(q)] \in Message
                          /\ mail[Head(q)].topic = "can"
           /\ power_msg_q # <<>> =>
                          /\ Head(power_msg_q) \in 1..Len(mail)
                          /\ mail[Head(power_msg_q)] \in Message
                          /\ mail[Head(power_msg_q)].topic = "power"
           /\ pc = "insert" => q # <<>>
<1>1. /\ mail \in Seq(Traffic) /\ mail \in Seq(Message)
      /\ q \in Seq(Nat) /\ power_msg_q \in Seq(Nat)
  BY DEF TypeInv, IntakeInv, MailOK, IntakeType
<1>2. /\ q # <<>> => Head(q) \in 1..Len(mail) /\ mail[Head(q)].topic = "can"
      /\ power_msg_q # <<>> => /\ Head(power_msg_q) \in 1..Len(mail)
                               /\ mail[Head(power_msg_q)].topic = "power"
  BY <1>1, QueueHead DEF TypeInv, IntakeInv, QueuesOK
<1>3. /\ Len(mail) \in Nat
      /\ \A n \in 1..Len(mail) : mail[n] \in Traffic /\ mail[n] \in Message
  BY <1>1
<1>4. pc = "insert" => q # <<>>
  BY DEF TypeInv, IntakeInv, QueuesOK
<1> QED
  BY <1>2, <1>3, <1>4

\* Rows and memory refer to messages that a new one does not change.
LEMMA MailGrows ==
    ASSUME TypeInv, NEW m \in Traffic, GotMail(m)
    PROVE  /\ Len(mail') = Len(mail) + 1
           /\ \A n \in 1..Len(mail) : mail'[n] = mail[n]
           /\ q # <<>> => q' # <<>> /\ Head(q') = Head(q)
           /\ q = <<>> /\ q' # <<>> => Head(q') = Len(mail) + 1
           /\ power_msg_q # <<>> =>
                power_msg_q' # <<>> /\ Head(power_msg_q') = Head(power_msg_q)
           /\ power_msg_q = <<>> /\ power_msg_q' # <<>> =>
                Head(power_msg_q') = Len(mail) + 1
<1>1. /\ mail \in Seq(Message) /\ m \in Message
      /\ q \in Seq(Nat) /\ power_msg_q \in Seq(Nat)
  BY TrafficAssumption DEF TypeInv, IntakeInv, IntakeType
<1>2. mail' = Append(mail, m)
  BY DEF GotMail
<1>3. ASSUME NEW old \in Seq(Nat), NEW new, NEW n \in Nat, new = old \/ new = Append(old, n)
      PROVE  /\ old # <<>> => new # <<>> /\ Head(new) = Head(old)
             /\ old = <<>> /\ new # <<>> => Head(new) = n
  <2>1. CASE new = old
    BY <2>1
  <2>2. CASE new = Append(old, n)
    BY <2>2
  <2> QED
    BY <1>3, <2>1, <2>2
<1>4. /\ q' = q \/ q' = Append(q, Len(mail) + 1)
      /\ power_msg_q' = power_msg_q \/ power_msg_q' = Append(power_msg_q, Len(mail) + 1)
  BY DEF GotMail
<1>5. Len(mail) + 1 \in Nat
  BY <1>1
<1>6. /\ Len(mail') = Len(mail) + 1
      /\ \A n \in 1..Len(mail) : mail'[n] = mail[n]
  BY <1>1, <1>2
<1>7. /\ q # <<>> => q' # <<>> /\ Head(q') = Head(q)
      /\ q = <<>> /\ q' # <<>> => Head(q') = Len(mail) + 1
  BY <1>1, <1>3, <1>4, <1>5, Zenon
<1>8. /\ power_msg_q # <<>> =>
           power_msg_q' # <<>> /\ Head(power_msg_q') = Head(power_msg_q)
      /\ power_msg_q = <<>> /\ power_msg_q' # <<>> =>
           Head(power_msg_q') = Len(mail) + 1
  BY <1>1, <1>3, <1>4, <1>5, Zenon
<1> QED
  BY <1>6, <1>7, <1>8

\* Every step is one of these, as far as Data is concerned.
Quiet ==
    /\ UNCHANGED <<intake, conversion, table>>
    /\ pc' = "insert" <=> pc = "insert"

ConvertStep ==
    /\ pc = "can" /\ pc' = "insert"
    /\ q # <<>>
    /\ \E hits \in SUBSET Search(splitmsg(Head(q)).can_id) :
          /\ ~allocated \/ hits = Search(splitmsg(Head(q)).can_id)
          /\ convert_can_data(Head(q), hits)
    /\ i' = 1
    /\ UNCHANGED <<intake, dbc, table, handler>>

\* The steps as the memory and the table see them: most are quiet.
LEMMA Steps ==
    ASSUME TypeInv, [Next]_vars
    PROVE  \/ Die
           \/ Quiet
           \/ \E m \in Traffic : GotMail(m)
           \/ ConvertStep
           \/ StoreGps \/ StoreSignal
           \/ PopCan
           \/ StorePower
           \/ Restart
<1> USE DEF Quiet
<1>1. CASE UNCHANGED vars
  BY <1>1 DEF vars
<1>2. CASE Connect \/ OpenDb
  BY <1>2 DEF Connect, OpenDb
<1>3. CASE NoReload \/ FreeDbc \/ LoadDbc \/ ClearUpdate
  BY <1>3 DEF NoReload, FreeDbc, LoadDbc, ClearUpdate
<1>4. CASE Convert
  <2>1. CASE Die
    BY <2>1
  <2>2. CASE ~Die
    <3>1. /\ pc = "can" /\ q # <<>> /\ i' = 1 /\ pc' = "insert"
          /\ UNCHANGED <<intake, dbc, table, handler>>
      BY <1>4, <2>2 DEF Convert, shutdown
    <3> DEFINE found == Search(splitmsg(Head(q)).can_id)
    <3>2. \E hits \in IF allocated THEN {found} ELSE SUBSET found :
             convert_can_data(Head(q), hits)
      BY <1>4, <2>2 DEF Convert
    <3> HIDE DEF found
    <3>3. \E hits \in SUBSET found :
             (~allocated \/ hits = found) /\ convert_can_data(Head(q), hits)
      BY <3>2
    <3> QED
      BY <3>1, <3>3 DEF ConvertStep, found
  <2> QED
    BY <2>1, <2>2
<1>5. CASE WalkOff \/ CanDone \/ PowerDone \/ CrashOnFinished
  BY <1>5 DEF WalkOff, CanDone, PowerDone, CrashOnFinished
<1>6. CASE timer_handler
  BY <1>6 DEF timer_handler
<1>7. CASE \E thread \in {"main", "mqtt"} : Sigint(thread)
  BY <1>7 DEF Sigint
<1>8. CASE Handler
  BY <1>8 DEF Handler, HandlerDisconnect, HandlerFree, HandlerFinish, HandlerExit
<1>9. CASE EditDbc \/ DbLost \/ SessionLost \/ Kill
  BY <1>9 DEF EditDbc, DbLost, SessionLost, Kill
<1> QED
  BY <1>1, <1>2, <1>3, <1>4, <1>5, <1>6, <1>7, <1>8, <1>9
     DEF Next, Main, Loop, Environment

-------------------------------------------------------------------------------
(***************************************************************************)
(* The block of entries.                                                   *)
(***************************************************************************)
\* A block filled from a version of the file.
LEMMA BlockFilled ==
    ASSUME NEW d \in Dbc, id_count' \in Nat,
           \A s \in 1..id_count' : /\ s <= Len(d) => dbc_array'[s] = d[s]
                                  /\ dbc_array'[s] \in Entries \cup {NoEntry}
    PROVE  BlockOK'
<1>1. \A s \in 1..Len(d) : s <= id_count' => s \in 1..id_count' /\ dbc_array'[s] = d[s]
  BY SlotTypes
<1> QED
  BY <1>1 DEF BlockOK

LEMMA BlockInit == Init => BlockOK
<1> SUFFICES ASSUME Init PROVE BlockOK
  OBVIOUS
<1>1. dbc_file \in Dbc /\ dbc_array = dbc_file /\ id_count = Len(dbc_file)
  BY DEF Init
<1>2. \A s \in 1..Len(dbc_file) : dbc_file[s] \in Entries
  BY <1>1 DEF Entries
<1> QED
  BY <1>1, <1>2 DEF BlockOK

LEMMA BlockStep ==
    ASSUME TypeInv, BlockOK, [Next]_vars
    PROVE  BlockOK'
<1>1. /\ dbc_file \in Dbc /\ id_count \in Nat
      /\ \A s \in 1..Len(dbc_file) : dbc_file[s] \in Entries
      /\ Len(dbc_file) \in Nat
  BY SlotTypes DEF TypeInv, TypeOK, DbcType, Entries
<1>2. CASE UNCHANGED <<id_count, dbc_array>>
  BY <1>2 DEF BlockOK
<1>3. CASE LoadDbc /\ ~Die
  <2>1. /\ id_count' = id_count
        /\ \E block \in {dbc_array, NewBlock} : dbc_array' = Loaded(block, dbc_file)
    BY <1>3 DEF LoadDbc
  <2>2. \A s \in 1..id_count :
           /\ s <= Len(dbc_file) => dbc_array'[s] = dbc_file[s]
           /\ s <= Len(dbc_file) \/ dbc_array'[s] \in {dbc_array[s], NoEntry}
    BY <2>1 DEF Loaded, NewBlock
  <2>3. \A s \in 1..id_count : dbc_array'[s] \in Entries \cup {NoEntry}
    BY <1>1, <2>2 DEF BlockOK
  <2> QED
    BY <1>1, <2>1, <2>2, <2>3, BlockFilled
<1>4. CASE Restart
  <2>1. id_count' = Len(dbc_file) /\ dbc_array' = dbc_file
    BY <1>4 DEF Restart
  <2> QED
    BY <1>1, <2>1, BlockFilled
<1>5. \/ UNCHANGED <<id_count, dbc_array>>
      \/ LoadDbc /\ ~Die
      \/ Restart
  <2> USE DEF dbc
  <2>1. CASE UNCHANGED vars
    BY <2>1 DEF vars
  <2>2. CASE Die
    BY <2>2 DEF Die
  <2>3. CASE Connect \/ OpenDb \/ NoReload \/ FreeDbc \/ ClearUpdate \/ Convert
    BY <2>2, <2>3 DEF Connect, OpenDb, NoReload, FreeDbc, ClearUpdate, Convert
  <2>4. CASE StoreGps \/ StoreSignal \/ WalkOff \/ PopCan \/ CanDone
    BY <2>2, <2>4 DEF StoreGps, StoreSignal, WalkOff, PopCan, CanDone
  <2>5. CASE StorePower \/ PowerDone \/ CrashOnFinished
    BY <2>2, <2>5 DEF StorePower, PowerDone, CrashOnFinished
  <2>6. CASE timer_handler \/ \E m \in Traffic : GotMail(m)
    BY <2>6 DEF timer_handler, GotMail
  <2>7. CASE \E thread \in {"main", "mqtt"} : Sigint(thread)
    BY <2>7 DEF Sigint
  <2>8. CASE Handler
    BY <2>2, <2>8 DEF Handler, HandlerDisconnect, HandlerFree, HandlerFinish, HandlerExit
  <2>9. CASE EditDbc \/ DbLost \/ SessionLost \/ Kill
    BY <2>2, <2>9 DEF EditDbc, DbLost, SessionLost, Kill
  <2> QED
    BY <2>1, <2>2, <2>3, <2>4, <2>5, <2>6, <2>7, <2>8, <2>9
       DEF Next, Main, Loop, Environment
<1> QED
  BY <1>2, <1>3, <1>4, <1>5

-------------------------------------------------------------------------------
(***************************************************************************)
(* What a conversion takes from the entries that were hit.                 *)
(***************************************************************************)
\* A hit is a line of some version of the file.
LEMMA HitsAreEntries ==
    ASSUME TypeInv, BlockOK, NEW c, NEW s \in Search(c)
    PROVE  /\ dbc_array[s] \in Entries /\ dbc_array[s].id = c /\ c # None
           /\ dbc_array[s].count \in 1..MaxSignal
<1>1. dbc_array[s] \in Entries \cup {NoEntry} /\ dbc_array[s].id = c /\ c # None
  BY DEF BlockOK, Search
<1>2. dbc_array[s] \in Entries
  BY <1>1 DEF NoEntry
<1> QED
  BY <1>1, <1>2, SlotTypes

\* The bytes frame f of message n brings are in data.
Brought(frame, f, n) == \A b \in Brings(f) : b \in Cell => frame.data[b] = n

\* A signal that a hit has gets its name; if the frame brings all its bytes
\* in every version of the entry, its value is made of the frame's only.
LEMMA SignalsHit ==
    ASSUME TypeInv, BlockOK, NEW frame \in CanData,
           NEW hits \in SUBSET Search(frame.can_id), NEW last \in hits,
           NEW x \in Signal, x <= dbc_array[last].count,
           NEW f, NEW n, Brought(frame, f, n)
    PROVE  /\ Signals(frame, hits)[x].signal = [id |-> frame.can_id, x |-> x]
           /\ f.id = frame.can_id /\ Whole(f, x) => Signals(frame, hits)[x].value = {n}
<1> DEFINE having == {s \in hits : x <= dbc_array[s].count}
           bytes == {b \in Cell : \E s \in having : b \in Bytes(dbc_array[s], x)}
           values == {frame.data[b] : b \in bytes}
<1>1. last \in having
  OBVIOUS
<1>2. Signals(frame, hits)[x] = [signal |-> [id |-> frame.can_id, x |-> x],
                                 value |-> values]
  BY <1>1 DEF Signals
<1>3. ASSUME f.id = frame.can_id, Whole(f, x) PROVE values = {n}
  <2>1. ASSUME NEW s \in having
        PROVE  /\ Bytes(dbc_array[s], x) # {} /\ Bytes(dbc_array[s], x) \subseteq Cell
               /\ Bytes(dbc_array[s], x) \subseteq Brings(f)
    <3>1. dbc_array[s] \in Entries /\ dbc_array[s].id = f.id /\ x <= dbc_array[s].count
      BY <1>3, HitsAreEntries
    <3> QED
      BY <1>3, <3>1, BytesType, SlotTypes DEF Whole
  <2>2. bytes # {}
    BY <1>1, <2>1
  <2>3. \A b \in bytes : frame.data[b] = n
    BY <2>1 DEF Brought
  <2> HIDE DEF bytes
  <2> QED
    BY <2>2, <2>3
<1> HIDE DEF values
<1> QED
  BY <1>2, <1>3

\* A value is made of bytes of the frame, or is the one that was there.
LEMMA SignalsOld ==
    ASSUME NEW frame, NEW hits, NEW x \in Signal,
           NEW v \in Signals(frame, hits)[x].value
    PROVE  v \in conv_data.conv[x].value \/ \E b \in Cell : v = frame.data[b]
BY DEF Signals

\* What a step that converts leaves behind.
LEMMA ConvertFacts ==
    ASSUME TypeInv, BlockOK, ConvertStep
    PROVE  LET n == Head(q)
               f == mail[n].frame
           IN  /\ data_frame' = splitmsg(n)
               /\ conv_data'.gokart = mail[n].kart /\ conv_data'.can_id = conv_data.can_id
               /\ \A x \in Signal : \A v \in conv_data'.conv[x].value :
                     v \in conv_data.conv[x].value \/ \E b \in Cell : v = data_frame'.data[b]
               /\ ~matched' => /\ conv_data'.size = conv_data.size
                               /\ conv_data'.conv = conv_data.conv
                               /\ allocated => Search(data_frame'.can_id) = {}
               /\ matched' =>
                     /\ data_frame'.can_id # None
                     /\ \E e \in Entries : /\ e.id = data_frame'.can_id
                                           /\ conv_data'.size = e.count
                     /\ conv_data'.size \in 1..MaxSignal
                     /\ \A x \in Signal : x <= conv_data'.size =>
                          /\ conv_data'.conv[x].signal = [id |-> data_frame'.can_id, x |-> x]
                          /\ f.id = data_frame'.can_id /\ Whole(f, x) =>
                                conv_data'.conv[x].value = {n}
<1> DEFINE n == Head(q)
           f == mail[n].frame
           frame == splitmsg(n)
<1>1. n \in 1..Len(mail)
  BY Numbers DEF ConvertStep
<1>2. PICK hits \in SUBSET Search(frame.can_id) :
         (~allocated \/ hits = Search(frame.can_id)) /\ convert_can_data(n, hits)
  BY DEF ConvertStep
<1>3. /\ frame \in CanData
      /\ Brought(frame, f, n)
  BY <1>1, SplitFrame DEF Brought
<1>4. /\ data_frame' = frame /\ matched' = (hits # {})
      /\ \/ hits = {} /\ conv_data' = [conv_data EXCEPT !.gokart = mail[n].kart]
         \/ \E last \in hits :
               conv_data' = [[conv_data EXCEPT !.gokart = mail[n].kart]
                               EXCEPT !.size = dbc_array[last].count,
                                      !.conv = Signals(frame, hits)]
  BY <1>2 DEF convert_can_data
<1>5. conv_data \in Container
  BY DEF TypeInv, TypeOK, ConversionType
<1> HIDE DEF n, frame, f
<1>6. CASE hits = {}
  <2>1. conv_data' = [conv_data EXCEPT !.gokart = mail[n].kart] /\ ~matched'
    BY <1>4, <1>6
  <2>2. /\ conv_data'.gokart = mail[n].kart /\ conv_data'.can_id = conv_data.can_id
        /\ conv_data'.size = conv_data.size /\ conv_data'.conv = conv_data.conv
    BY <1>5, <2>1 DEF Container
  <2> QED
    BY <1>2, <1>4, <1>6, <2>1, <2>2 DEF n, f, frame
<1>7. CASE hits # {}
  <2>1. PICK last \in hits :
           conv_data' = [[conv_data EXCEPT !.gokart = mail[n].kart]
                           EXCEPT !.size = dbc_array[last].count,
                                  !.conv = Signals(frame, hits)]
    BY <1>4, <1>7
  <2>2. /\ conv_data'.gokart = mail[n].kart /\ conv_data'.can_id = conv_data.can_id
        /\ conv_data'.size = dbc_array[last].count
        /\ conv_data'.conv = Signals(frame, hits)
    BY <1>5, <2>1 DEF Container
  <2>3. /\ dbc_array[last] \in Entries /\ dbc_array[last].id = frame.can_id
        /\ frame.can_id # None /\ dbc_array[last].count \in 1..MaxSignal
    <3>1. last \in Search(frame.can_id)
      BY <1>2
    <3> QED
      BY <3>1, HitsAreEntries
  <2>4. ASSUME NEW x \in Signal, x <= conv_data'.size
        PROVE  /\ conv_data'.conv[x].signal = [id |-> frame.can_id, x |-> x]
               /\ f.id = frame.can_id /\ Whole(f, x) => conv_data'.conv[x].value = {n}
    <3>1. x <= dbc_array[last].count
      BY <2>2, <2>4
    <3>2. /\ Signals(frame, hits)[x].signal = [id |-> frame.can_id, x |-> x]
          /\ f.id = frame.can_id /\ Whole(f, x) => Signals(frame, hits)[x].value = {n}
      BY <1>2, <1>3, <2>1, <3>1, SignalsHit
    <3> QED
      BY <2>2, <3>2
  <2>5. \A x \in Signal : \A v \in conv_data'.conv[x].value :
           v \in conv_data.conv[x].value \/ \E b \in Cell : v = frame.data[b]
    BY <2>2, SignalsOld
  <2>6. matched'
    BY <1>4, <1>7
  <2>7. data_frame' = frame
    BY <1>4
  <2>8. \E e \in Entries : e.id = frame.can_id /\ conv_data'.size = e.count
    BY <2>2, <2>3
  <2>9. conv_data'.size \in 1..MaxSignal
    BY <2>2, <2>3
  <2> QED
    BY <2>2, <2>3, <2>4, <2>5, <2>6, <2>7, <2>8, <2>9 DEF n, f, frame
<1> QED
  BY <1>6, <1>7

-------------------------------------------------------------------------------
(***************************************************************************)
(* No byte in memory is newer than the message at the front of q.          *)
(***************************************************************************)
LEMMA Values ==
    ASSUME TypeInv
    PROVE  /\ \A b \in Cell : data_frame.data[b] \in Nat
           /\ \A x \in Signal : conv_data.conv[x].value \in SUBSET Nat
BY DEF TypeInv, TypeOK, ConversionType, CanData, Container, Converted

\* What Older needs when no byte in memory changes.
LEMMA OlderKeeps ==
    ASSUME TypeInv, TypeInv', [Next]_vars, ~ConvertStep,
           NEW v \in Nat, Older(v)
    PROVE  Older(v)'
<1>1. Len(mail) \in Nat
  BY Numbers
<1>2. CASE Die
  BY <1>2 DEF Older, Die
<1>3. CASE Quiet
  BY <1>3 DEF Older, Quiet, intake
<1>4. ASSUME NEW m \in Traffic, GotMail(m) PROVE Older(v)'
  <2>1. pc' = pc
    BY <1>4 DEF GotMail
  <2>2. Len(mail') = Len(mail) + 1
    BY <1>4, MailGrows
  <2>3. CASE q # <<>>
    BY <1>1, <1>4, <2>1, <2>2, <2>3, MailGrows DEF Older
  <2>4. CASE q = <<>>
    <3>1. pc # "insert"
      BY <2>4, Numbers
    <3>2. q' # <<>> => Head(q') = Len(mail) + 1
      BY <1>4, <2>4, MailGrows
    <3> QED
      BY <1>1, <2>1, <2>2, <3>1, <3>2 DEF Older
  <2> QED
    BY <2>3, <2>4
<1>5. CASE StoreGps \/ StoreSignal \/ StorePower
  BY <1>5 DEF Older, StoreGps, StoreSignal, StorePower, intake
<1>6. CASE PopCan
  <2>1. q # <<>> /\ pc = "insert" /\ pc' = "can" /\ q' = Tail(q) /\ mail' = mail
    BY <1>6, Numbers DEF PopCan
  <2>2. v <= Head(q) /\ Head(q) \in Nat
    BY <2>1, Numbers DEF Older
  <2>3. q' # <<>> => Head(q) < Head(q') /\ Head(q') \in Nat
    <3>1. q' # <<>> => Head(q) < Head(q')
      BY <2>1, QueuePops DEF TypeInv, IntakeInv, IntakeType, QueuesOK
    <3>2. q' \in Seq(Nat)
      BY DEF TypeInv, IntakeInv, IntakeType
    <3> QED
      BY <3>1, <3>2, HeadTailProperties
  <2> QED
    BY <2>1, <2>2, <2>3 DEF Older
<1>7. CASE Restart
  BY <1>7 DEF Older, Restart, intake
<1> QED
  BY <1>2, <1>3, <1>4, <1>5, <1>6, <1>7, Steps

\* No step brings a byte newer than the message in work.
LEMMA MemoryStep ==
    ASSUME TypeInv, TypeInv', BlockOK, MemoryOK, [Next]_vars
    PROVE  MemoryOK'
<1>1. CASE ConvertStep
  <2>1. /\ q' = q /\ mail' = mail /\ pc' = "insert" /\ pc = "can" /\ q # <<>>
    BY <1>1 DEF ConvertStep, intake
  <2>2. Head(q) \in 1..Len(mail) /\ Len(mail) \in Nat
    BY <2>1, Numbers
  <2>3. /\ data_frame' = splitmsg(Head(q))
        /\ \A x \in Signal : \A v \in conv_data'.conv[x].value :
              v \in conv_data.conv[x].value \/ \E b \in Cell : v = data_frame'.data[b]
    BY <1>1, ConvertFacts
  <2>4. ASSUME NEW v \in Nat, Older(v) \/ v = Head(q) PROVE Older(v)'
    BY <2>1, <2>2, <2>4 DEF Older
  <2>5. ASSUME NEW b \in Cell PROVE Older(data_frame.data[b])'
    <3>1. data_frame'.data[b] = data_frame.data[b] \/ data_frame'.data[b] = Head(q)
      BY <2>2, <2>3, SplitFrame
    <3>2. data_frame'.data[b] \in Nat
      BY <2>5 DEF TypeInv, TypeOK, ConversionType, CanData
    <3> QED
      BY <2>4, <3>1, <3>2 DEF MemoryOK
  <2>6. ASSUME NEW x \in Signal, NEW v \in conv_data'.conv[x].value PROVE Older(v)'
    <3>1. v \in Nat
      BY <2>6 DEF TypeInv, TypeOK, ConversionType, Container, Converted
    <3>2. CASE v \in conv_data.conv[x].value
      BY <2>4, <3>1, <3>2 DEF MemoryOK
    <3>3. CASE \E b \in Cell : v = data_frame'.data[b]
      BY <2>5, <3>3
    <3> QED
      BY <2>3, <3>2, <3>3
  <2> QED
    BY <2>5, <2>6 DEF MemoryOK
<1>2. CASE ~ConvertStep /\ UNCHANGED <<data_frame, conv_data>>
  BY <1>2, Values, OlderKeeps DEF MemoryOK
<1>3. CASE Restart
  <2>1. \A b \in Cell : data_frame'.data[b] = 0
    BY <1>3 DEF Restart, UninitializedFrame
  <2>2. \A x \in Signal : conv_data'.conv[x].value = {0}
    BY <1>3 DEF Restart, UninitializedContainer
  <2>3. Older(0)'
    BY Numbers, <1>3 DEF Older, Restart, intake
  <2> QED
    BY <2>1, <2>2, <2>3 DEF MemoryOK
<1>4. ConvertStep \/ Restart \/ UNCHANGED <<data_frame, conv_data>>
  BY Steps DEF Die, Quiet, GotMail, StoreGps, StoreSignal, PopCan, StorePower, conversion
<1> QED
  BY <1>1, <1>2, <1>3, <1>4

-------------------------------------------------------------------------------
(***************************************************************************)
(* While rows are stored, conv_data holds what the front message gave.     *)
(***************************************************************************)
LEMMA ConvertEstablishes ==
    ASSUME TypeInv, BlockOK, FreedOK, MemoryOK, ConvertStep
    PROVE  ConversionOK'
<1> DEFINE n == Head(q)
           f == mail[n].frame
<1>1. /\ q' = q /\ mail' = mail /\ pc = "can" /\ q # <<>>
      /\ UNCHANGED <<id_count, dbc_array, allocated, handler>>
  BY DEF ConvertStep, intake, dbc
<1>2. n \in 1..Len(mail)
  BY <1>1, Numbers
<1>3. f.id # None => data_frame'.can_id = f.id
  BY <1>2, ConvertFacts, SplitFrame
<1>4. ASSUME f.id # None, matched'
      PROVE  ConvertedFrom(conv_data', f, n)
  BY <1>3, <1>4, ConvertFacts DEF ConvertedFrom
<1>5. ASSUME ~matched', ~HandlerFreed, Described(f)
      PROVE  FALSE
  <2>1. allocated
    BY <1>1, <1>5 DEF FreedOK
  <2>2. Search(f.id) = {} /\ f.id # None
    BY <1>3, <1>5, <2>1, ConvertFacts DEF Described
  <2>3. PICK d \in Dbc : \A s \in 1..Len(d) : s <= id_count => dbc_array[s] = d[s]
    BY DEF BlockOK
  <2>4. PICK s \in 1..Len(d) : s <= id_count /\ d[s].id = f.id
    BY <1>5 DEF Described
  <2>5. s \in 1..id_count /\ dbc_array[s].id = f.id
    BY <2>3, <2>4 DEF TypeInv, TypeOK, DbcType
  <2> QED
    BY <2>2, <2>5 DEF Search
<1>6. ASSUME ~matched', NEW x \in Signal, NEW v \in conv_data'.conv[x].value
      PROVE  v < n
  <2>1. v \in conv_data.conv[x].value
    BY <1>6, ConvertFacts
  <2> QED
    BY <1>1, <2>1 DEF MemoryOK, Older
<1>7. conv_data'.gokart = mail[n].kart
  BY ConvertFacts
<1>8. Head(q') = n /\ mail'[n] = mail[n]
  BY <1>1
<1>9. HandlerFreed' = HandlerFreed /\ Described(f)' = Described(f)
  BY <1>1 DEF HandlerFreed, Described
<1> QED
  BY <1>4, <1>5, <1>6, <1>7, <1>8, <1>9 DEF ConversionOK

\* The handler does not go back, and the block keeps its size.
LEMMA HandlerLasts ==
    ASSUME [Next]_vars, ~Die
    PROVE  /\ HandlerFreed => HandlerFreed'
           /\ Restart \/ id_count' = id_count
<1> USE DEF HandlerFreed, shutdown, dbc
<1>1. CASE UNCHANGED vars
  BY <1>1 DEF vars
<1>2. CASE Connect \/ OpenDb
  BY <1>2 DEF Connect, OpenDb
<1>3. CASE NoReload \/ FreeDbc \/ LoadDbc \/ ClearUpdate
  BY <1>3 DEF NoReload, FreeDbc, LoadDbc, ClearUpdate
<1>4. CASE Convert \/ StoreGps \/ StoreSignal \/ WalkOff \/ PopCan \/ CanDone
  BY <1>4 DEF Convert, StoreGps, StoreSignal, WalkOff, PopCan, CanDone
<1>5. CASE StorePower \/ PowerDone \/ CrashOnFinished
  BY <1>5 DEF StorePower, PowerDone, CrashOnFinished
<1>6. CASE timer_handler \/ \E m \in Traffic : GotMail(m)
  BY <1>6 DEF timer_handler, GotMail
<1>7. CASE \E thread \in {"main", "mqtt"} : Sigint(thread)
  BY <1>7 DEF Sigint
<1>8. CASE Handler
  BY <1>8 DEF Handler, HandlerDisconnect, HandlerFree, HandlerFinish, HandlerExit
<1>9. CASE Environment
  BY <1>9 DEF Environment, EditDbc, DbLost, SessionLost, Kill, Restart
<1> QED
  BY <1>1, <1>2, <1>3, <1>4, <1>5, <1>6, <1>7, <1>8, <1>9 DEF Next, Main, Loop

\* While rows are stored conv_data belongs to the front message.
LEMMA ConversionStep ==
    ASSUME TypeInv, TypeInv', BlockOK, FreedOK, MemoryOK, ConversionOK, [Next]_vars
    PROVE  ConversionOK'
<1>1. CASE ConvertStep
  BY <1>1, ConvertEstablishes
<1>2. CASE Die \/ PopCan \/ Restart
  BY <1>2 DEF Die, PopCan, Restart, ConversionOK
<1>3. CASE StorePower
  BY <1>3 DEF StorePower, ConversionOK
<1>4. ASSUME ~Die, ~Restart, pc' = "insert" => pc = "insert",
             UNCHANGED <<conv_data, matched>>,
             pc = "insert" => Head(q') = Head(q) /\ mail'[Head(q)] = mail[Head(q)]
      PROVE  ConversionOK'
  <2>1. HandlerFreed => HandlerFreed'
    BY <1>4, HandlerLasts
  <2>2. \A f : Described(f)' = Described(f)
    BY <1>4, HandlerLasts DEF Described
  <2> QED
    BY <1>4, <2>1, <2>2 DEF ConversionOK
<1>5. CASE Quiet
  BY <1>2, <1>4, <1>5 DEF Quiet, intake, conversion
<1>6. CASE StoreGps \/ StoreSignal
  BY <1>2, <1>4, <1>6 DEF StoreGps, StoreSignal, intake
<1>7. ASSUME NEW m \in Traffic, GotMail(m) PROVE ConversionOK'
  <2>1. pc' = pc /\ UNCHANGED <<conv_data, matched>>
    BY <1>7 DEF GotMail, conversion
  <2>2. pc = "insert" => /\ Head(q') = Head(q)
                         /\ mail'[Head(q)] = mail[Head(q)]
    BY <1>7, Numbers, MailGrows
  <2> QED
    BY <1>2, <1>4, <2>1, <2>2
<1> QED
  BY <1>1, <1>2, <1>3, <1>5, <1>6, <1>7, Steps

-------------------------------------------------------------------------------
(***************************************************************************)
(* A row main is about to store for the front message.                     *)
(***************************************************************************)
LEMMA NewCanRow ==
    ASSUME SafeInv, pc = "insert", NEW kind \in {"value", "gps"},
           NEW x \in Nat \ {0}, x = 1 \/ x <= conv_data.size
    PROVE  LET row == CanRow(kind, x, x)
           IN  /\ CanProvenance(row, mail)
               /\ row.gokart = mail[row.src].kart
               /\ \A v \in row.value : v <= row.src
<1> DEFINE n == Head(q)
           f == mail[n].frame
           row == CanRow(kind, x, x)
<1>1. n \in 1..Len(mail) /\ n \in Nat \ {0} /\ q # <<>>
  BY Numbers DEF SafeInv
<1>2. /\ row.src = n /\ row.i = x /\ row.gokart = conv_data.gokart
      /\ row.matched = matched /\ row.signal = Conv(x).signal
      /\ row.value = Conv(x).value
  BY DEF CanRow
<1>3. /\ conv_data.gokart = mail[n].kart
      /\ f.id # None /\ matched => ConvertedFrom(conv_data, f, n)
      /\ ~matched => \A y \in Signal : \A v \in conv_data.conv[y].value : v < n
  BY DEF SafeInv, Data, ConversionOK
<1>4. x \in Signal \/ Conv(x).value = {0}
  BY DEF Conv
<1>5. x \in Signal => Conv(x) = conv_data.conv[x]
  BY DEF Conv
<1>6. \A y \in Signal : \A v \in conv_data.conv[y].value : v \in Nat /\ v <= n
  BY <1>1, Values DEF SafeInv, Data, MemoryOK, Older
<1> HIDE DEF n, f, row
<1>7. \A v \in Conv(x).value : v <= n
  BY <1>1, <1>4, <1>5, <1>6
<1>8. ASSUME matched, f.id # None
      PROVE  /\ Conv(x).signal = [id |-> f.id, x |-> x]
             /\ Whole(f, x) => Conv(x).value = {n}
  <2>1. PICK e \in Entries : e.id = f.id /\ conv_data.size = e.count
    BY <1>3, <1>8 DEF ConvertedFrom
  <2>2. conv_data.size \in 1..MaxSignal
    BY <1>8, <2>1, SlotTypes
  <2>3. x \in Signal /\ x <= conv_data.size
    BY <2>2, SignalAssumption DEF Signal
  <2> QED
    BY <1>3, <1>5, <1>8, <2>3 DEF ConvertedFrom
<1>9. ~matched => \A v \in Conv(x).value : v < n
  BY <1>1, <1>3, <1>4, <1>5
<1>10. CanProvenance(row, mail)
  <2>1. mail[row.src].frame = f
    BY <1>2 DEF f
  <2> QED
    BY <1>2, <1>8, <1>9, <2>1 DEF CanProvenance
<1> QED
  BY <1>2, <1>3, <1>7, <1>10 DEF row

\* The steps that store a row of the front CAN message.
LEMMA CanRowStored ==
    ASSUME SafeInv, StoreGps \/ StoreSignal
    PROVE  /\ pc = "insert" /\ pc' = pc /\ UNCHANGED intake
           /\ \/ table' = table /\ i' > i
              \/ \E kind \in {"value", "gps"} :
                    /\ table' = Append(table, CanRow(kind, i, i))
                    /\ i \in Nat \ {0} /\ (i = 1 \/ i <= conv_data.size)
                    /\ i' > i
<1>1. i \in 1..MaxSignal + 2 /\ MaxSignal \in Nat \ {0}
  BY SignalAssumption DEF SafeInv, TypeInv, TypeOK, ConversionType
<1>2. CASE StoreGps
  BY <1>1, <1>2 DEF StoreGps, Insert
<1>3. CASE StoreSignal
  BY <1>1, <1>3 DEF StoreSignal, Insert
<1> QED
  BY <1>2, <1>3

\* The history of messages changes in got_mail only.
LEMMA MailSteps ==
    ASSUME SafeInv, [Next]_vars
    PROVE  \/ mail' = mail
           \/ \E m \in Traffic : GotMail(m)
BY Steps DEF SafeInv, Die, Quiet, ConvertStep, StoreGps, StoreSignal, PopCan, StorePower,
             Restart, intake

\* Every step keeps the provenance of the rows.
LEMMA ProvenanceStep ==
    ASSUME SafeInv, [Next]_vars
    PROVE  Provenance'
<1>1. \A n \in 1..Len(mail) : mail'[n] = mail[n]
  BY MailSteps, MailGrows DEF SafeInv
<1>2. table \in Seq(Row)
  BY DEF SafeInv, TypeInv, TypeOK, TableType
<1>3. \A n \in 1..Len(table) : table[n].kind # "power" => CanProvenance(table[n], mail')
  <2> SUFFICES ASSUME NEW n \in 1..Len(table), table[n].kind # "power"
               PROVE  CanProvenance(table[n], mail')
    OBVIOUS
  <2>1. table[n].src \in 1..Len(mail) /\ CanProvenance(table[n], mail)
    BY DEF SafeInv, Data, TableOK, RowOK, Provenance
  <2>2. \A m \in 1..Len(mail) : mail'[m] = mail[m]
    BY <1>1
  <2> QED
    BY <2>1, <2>2 DEF CanProvenance
<1>4. CASE UNCHANGED table
  BY <1>3, <1>4 DEF Provenance
<1>5. ASSUME NEW row, table' = Append(table, row), row \in Row,
             row.kind # "power" => CanProvenance(row, mail')
      PROVE  Provenance'
  BY <1>2, <1>3, <1>5 DEF Provenance
<1>6. CASE StoreGps \/ StoreSignal
  <2>1. CASE UNCHANGED table
    BY <1>4, <2>1
  <2>2. CASE ~UNCHANGED table
    <3>1. PICK kind \in {"value", "gps"} :
            /\ table' = Append(table, CanRow(kind, i, i))
            /\ i \in Nat \ {0} /\ (i = 1 \/ i <= conv_data.size)
      BY <1>6, <2>2, CanRowStored
    <3>2. pc = "insert" /\ mail' = mail
      BY <1>6, CanRowStored DEF intake
    <3> DEFINE row == CanRow(kind, i, i)
    <3>3. CanProvenance(row, mail) /\ row \in Row
      BY <3>1, <3>2, NewCanRow, TypeCanRow DEF SafeInv
    <3> HIDE DEF row
    <3> QED
      BY <1>5, <3>1, <3>2, <3>3 DEF row
  <2> QED
    BY <2>1, <2>2
<1>7. CASE StorePower
  <2>1. CASE UNCHANGED table
    BY <1>4, <2>1
  <2>2. CASE table' = Append(table, PowerRow)
    <3>1. PowerRow \in Row /\ PowerRow.kind = "power"
      BY <1>7, TypePowerRow DEF SafeInv, StorePower, PowerRow
    <3> QED
      BY <1>5, <2>2, <3>1
  <2> QED
    BY <1>7, <2>1, <2>2 DEF StorePower, Insert
<1>8. CASE ~(StoreGps \/ StoreSignal \/ StorePower)
  BY <1>4, <1>8, Steps
     DEF SafeInv, Die, Quiet, GotMail, ConvertStep, PopCan, Restart
<1> QED
  BY <1>6, <1>7, <1>8

-------------------------------------------------------------------------------
(***************************************************************************)
(* A stored row stays behind every message that waits.                     *)
(***************************************************************************)
LEMMA RowKeeps ==
    ASSUME SafeInv, TypeInv', [Next]_vars, NEW row \in Row, RowOK(row)
    PROVE  RowOK(row)'
<1>1. /\ row.src \in 1..Len(mail) /\ row.src \in Nat /\ row.i \in Nat
      /\ Len(mail) \in Nat
  BY Numbers DEF RowOK, Row, SafeInv
<1>2. CASE Die
  BY <1>2 DEF Die, RowOK
<1>3. CASE Quiet
  BY <1>3 DEF Quiet, intake, conversion, RowOK
<1>4. ASSUME NEW m \in Traffic, GotMail(m) PROVE RowOK(row)'
  <2>1. /\ Len(mail') = Len(mail) + 1 /\ mail'[row.src] = mail[row.src]
        /\ pc' = pc /\ i' = i
    BY <1>1, <1>4, MailGrows DEF SafeInv, GotMail, conversion
  <2>2. row.src \in 1..Len(mail') /\ row.src < Len(mail) + 1
    BY <1>1, <2>1
  <2>3. CASE mail[row.src].topic = "can"
    <3>1. q # <<>> => q' # <<>> /\ Head(q') = Head(q)
      BY <1>4, MailGrows DEF SafeInv
    <3>2. q = <<>> /\ q' # <<>> => Head(q') = Len(mail) + 1
      BY <1>4, MailGrows DEF SafeInv
    <3> QED
      BY <2>1, <2>2, <2>3, <3>1, <3>2 DEF RowOK
  <2>4. CASE mail[row.src].topic # "can"
    <3>1. power_msg_q # <<>> =>
             power_msg_q' # <<>> /\ Head(power_msg_q') = Head(power_msg_q)
      BY <1>4, MailGrows DEF SafeInv
    <3>2. power_msg_q = <<>> /\ power_msg_q' # <<>> =>
             Head(power_msg_q') = Len(mail) + 1
      BY <1>4, MailGrows DEF SafeInv
    <3> QED
      BY <2>1, <2>2, <2>4, <3>1, <3>2 DEF RowOK
  <2> QED
    BY <2>3, <2>4
<1>5. CASE ConvertStep
  BY <1>5 DEF ConvertStep, intake, RowOK
<1>6. CASE StoreGps \/ StoreSignal
  <2>1. pc = "insert" /\ pc' = pc /\ UNCHANGED intake /\ i' > i
    BY <1>6, CanRowStored
  <2>2. i \in Nat /\ i' \in Nat
    BY DEF SafeInv, TypeInv, TypeOK, ConversionType
  <2>3. row.i < i => row.i < i'
    BY <1>1, <2>1, <2>2
  <2> QED
    BY <2>1, <2>3 DEF RowOK, intake
<1>7. CASE PopCan
  <2>1. /\ pc = "insert" /\ q' = Tail(q) /\ mail' = mail /\ q # <<>>
        /\ power_msg_q' = power_msg_q
    BY <1>7, Numbers DEF PopCan, SafeInv
  <2>2. mail[row.src].topic = "can" => row.src <= Head(q)
    <3>1. Head(q) \in Nat
      BY <2>1, Numbers DEF SafeInv
    <3> QED
      BY <1>1, <2>1, <3>1 DEF RowOK
  <2>3. q' # <<>> => /\ Head(q) < Head(q')
                     /\ Head(q) \in Nat /\ Head(q') \in Nat
    <3>1. q' # <<>> => Head(q) < Head(q')
      BY <2>1, QueuePops DEF SafeInv, TypeInv, IntakeInv, IntakeType, QueuesOK
    <3>2. q \in Seq(Nat) /\ q' \in Seq(Nat)
      BY DEF SafeInv, TypeInv, IntakeInv, IntakeType
    <3> QED
      BY <2>1, <3>1, <3>2, HeadTailProperties
  <2>4. mail[row.src].topic = "can" /\ q' # <<>> => row.src < Head(q')
    BY <1>1, <2>2, <2>3
  <2> QED
    BY <2>1, <2>4 DEF RowOK
<1>8. CASE StorePower
  <2>1. /\ power_msg_q' = Tail(power_msg_q) /\ mail' = mail /\ power_msg_q # <<>>
        /\ q' = q /\ pc' = pc /\ i' = i
    BY <1>8 DEF StorePower, conversion
  <2>2. power_msg_q' # <<>> => /\ Head(power_msg_q) < Head(power_msg_q')
                               /\ Head(power_msg_q) \in Nat
                               /\ Head(power_msg_q') \in Nat
    <3>1. power_msg_q' # <<>> => Head(power_msg_q) < Head(power_msg_q')
      BY <2>1, QueuePops DEF SafeInv, TypeInv, IntakeInv, IntakeType, QueuesOK
    <3>2. power_msg_q \in Seq(Nat) /\ power_msg_q' \in Seq(Nat)
      BY DEF SafeInv, TypeInv, IntakeInv, IntakeType
    <3> QED
      BY <2>1, <3>1, <3>2, HeadTailProperties
  <2>3. mail[row.src].topic = "power" /\ power_msg_q' # <<>> =>
           row.src < Head(power_msg_q')
    BY <1>1, <2>1, <2>2 DEF RowOK
  <2> QED
    BY <2>1, <2>3 DEF RowOK
<1>9. CASE Restart
  BY <1>9 DEF Restart, intake, RowOK
<1> QED
  BY <1>2, <1>3, <1>4, <1>5, <1>6, <1>7, <1>8, <1>9, Steps DEF SafeInv

\* The rows main adds are in place.
LEMMA CanRowOK ==
    ASSUME SafeInv, StoreGps \/ StoreSignal, NEW kind \in {"value", "gps"},
           i \in Nat \ {0}, i = 1 \/ i <= conv_data.size, i' > i,
           NEW row, row = CanRow(kind, i, i)
    PROVE  RowOK(row)'
<1>1. pc = "insert" /\ pc' = pc /\ UNCHANGED intake
  BY CanRowStored
<1>2. row.gokart = mail[row.src].kart /\ row.src = Head(q) /\ row.i = i /\ row.kind = kind
  BY <1>1, NewCanRow DEF CanRow
<1>3. Head(q) \in 1..Len(mail) /\ mail[Head(q)].topic = "can" /\ q # <<>>
  BY <1>1, Numbers DEF SafeInv
<1> QED
  BY <1>1, <1>2, <1>3 DEF RowOK, intake

\* A stored power message makes a row of its kart and topic.
LEMMA PowerRowOK ==
    ASSUME SafeInv, StorePower, NEW row, row = PowerRow
    PROVE  RowOK(row)'
<1>1. /\ power_msg_q' = Tail(power_msg_q) /\ mail' = mail /\ power_msg_q # <<>>
  BY DEF StorePower
<1>2. /\ row.src = Head(power_msg_q) /\ row.kind = "power"
      /\ row.gokart = mail[row.src].kart
  BY DEF PowerRow
<1>3. row.src \in 1..Len(mail) /\ mail[row.src].topic = "power"
  BY <1>1, <1>2, Numbers DEF SafeInv
<1>4. power_msg_q' # <<>> => row.src < Head(power_msg_q')
  BY <1>1, <1>2, QueuePops DEF SafeInv, TypeInv, IntakeInv, IntakeType, QueuesOK
<1> QED
  BY <1>1, <1>2, <1>3, <1>4 DEF RowOK

\* Every step keeps the rows older than what waits.
LEMMA TableStep ==
    ASSUME SafeInv, TypeInv', [Next]_vars
    PROVE  TableOK'
<1>1. table \in Seq(Row) /\ table' \in Seq(Row)
  BY DEF SafeInv, TypeInv, TypeOK, TableType
<1>2. \A n \in 1..Len(table) : RowOK(table[n])
  BY DEF SafeInv, Data, TableOK
<1>3. ASSUME NEW row \in Row, RowOK(row) PROVE RowOK(row)'
  BY <1>3, RowKeeps
<1>4. CASE UNCHANGED table
  BY <1>1, <1>2, <1>3, <1>4 DEF TableOK
<1>5. ASSUME NEW row \in Row, table' = Append(table, row), RowOK(row)'
      PROVE  TableOK'
  <2> SUFFICES ASSUME NEW n \in 1..Len(table') PROVE RowOK(table[n])'
    BY DEF TableOK
  <2>1. table'[n] = row \/ (n \in 1..Len(table) /\ table'[n] = table[n])
    BY <1>1, <1>5
  <2>2. table'[n] \in Row
    BY <1>1
  <2>3. CASE table'[n] = row
    BY <1>5, <2>3
  <2>4. CASE n \in 1..Len(table) /\ table'[n] = table[n]
    <3>1. RowOK(table'[n])
      BY <1>2, <2>4
    <3> QED
      BY <1>3, <2>2, <3>1
  <2> QED
    BY <2>1, <2>3, <2>4
<1>6. CASE StoreGps \/ StoreSignal
  <2>1. CASE UNCHANGED table
    BY <1>4, <2>1
  <2>2. CASE ~UNCHANGED table
    <3>1. PICK kind \in {"value", "gps"} :
            /\ table' = Append(table, CanRow(kind, i, i))
            /\ i \in Nat \ {0} /\ (i = 1 \/ i <= conv_data.size) /\ i' > i
      BY <1>6, <2>2, CanRowStored
    <3>2. PICK row : row = CanRow(kind, i, i)
      OBVIOUS
    <3>3. row \in Row /\ RowOK(row)'
      BY <1>6, <3>1, <3>2, CanRowOK, TypeCanRow, CanRowStored DEF SafeInv
    <3> QED
      BY <1>5, <3>1, <3>2, <3>3
  <2> QED
    BY <2>1, <2>2
<1>7. CASE StorePower
  <2>1. CASE UNCHANGED table
    BY <1>4, <2>1
  <2>2. CASE table' = Append(table, PowerRow)
    <3>1. PICK row : row = PowerRow
      OBVIOUS
    <3>2. row \in Row /\ RowOK(row)'
      BY <1>7, <3>1, PowerRowOK, TypePowerRow DEF SafeInv, StorePower
    <3> QED
      BY <1>5, <2>2, <3>1, <3>2
  <2> QED
    BY <1>7, <2>1, <2>2 DEF StorePower, Insert
<1>8. CASE ~(StoreGps \/ StoreSignal \/ StorePower)
  BY <1>4, <1>8, Steps
     DEF SafeInv, Die, Quiet, GotMail, ConvertStep, PopCan, Restart
<1> QED
  BY <1>6, <1>7, <1>8

-------------------------------------------------------------------------------
\* The invariant holds initially.
LEMMA SafeInit == Init => SafeInv
<1> SUFFICES ASSUME Init PROVE SafeInv
  OBVIOUS
<1>1. TypeInv
  BY TypeInit
<1>2. mail = <<>> /\ q = <<>> /\ table = <<>> /\ pc = "connect"
  BY DEF Init
<1>3. MemoryOK
  <2>1. \A b \in Cell : data_frame.data[b] = 0
    BY DEF Init, UninitializedFrame
  <2>2. \A x \in Signal : conv_data.conv[x].value = {0}
    BY DEF Init, UninitializedContainer
  <2>3. Older(0)
    BY <1>2 DEF Older
  <2> QED
    BY <2>1, <2>2, <2>3 DEF MemoryOK
<1>4. ConversionOK /\ TableOK /\ Provenance
  BY <1>2 DEF ConversionOK, TableOK, Provenance
<1> QED
  BY <1>1, <1>3, <1>4, BlockInit, FreedInit DEF SafeInv, Data

\* The invariant is inductive.
LEMMA SafeStep == SafeInv /\ [Next]_vars => SafeInv'
<1> SUFFICES ASSUME SafeInv, [Next]_vars PROVE SafeInv'
  OBVIOUS
<1>1. TypeInv'
  BY TypeStep DEF SafeInv
<1>2. MemoryOK' /\ ConversionOK'
  BY <1>1, MemoryStep, ConversionStep DEF SafeInv, Data
<1>3. TableOK' /\ Provenance'
  BY <1>1, TableStep, ProvenanceStep
<1>4. BlockOK' /\ FreedOK'
  BY BlockStep, FreedStep DEF SafeInv, Data
<1> QED
  BY <1>1, <1>2, <1>3, <1>4 DEF SafeInv, Data

\* The invariant holds always.
LEMMA Safe == Spec => []SafeInv
BY SafeInit, SafeStep, PTL DEF Spec

-------------------------------------------------------------------------------
(***************************************************************************)
(* How many rows of the front message are stored.                          *)
(***************************************************************************)
PartsIn(rows, n) == {rows[r].i : r \in {k \in 1..Len(rows) : rows[k].src = n}}

LEMMA StoredPartsIn == ASSUME NEW n PROVE StoredParts(n) = PartsIn(table, n)
BY DEF StoredParts, RowsOf, PartsIn

\* A row adds its part to those of its message.
LEMMA PartsAppend ==
    ASSUME NEW rows \in Seq(Row), NEW row \in Row
    PROVE  PartsIn(Append(rows, row), row.src) = PartsIn(rows, row.src) \cup {row.i}
<1> DEFINE longer == Append(rows, row)
           n == Len(rows) + 1
<1>1. /\ Len(longer) = n /\ longer[n] = row /\ n \in 1..n
      /\ \A k \in 1..Len(rows) : longer[k] = rows[k] /\ k \in 1..n
      /\ \A k \in 1..n : k = n \/ k \in 1..Len(rows)
  OBVIOUS
<1> HIDE DEF longer, n
<1>2. PartsIn(longer, row.src) \subseteq PartsIn(rows, row.src) \cup {row.i}
  BY <1>1 DEF PartsIn
<1>3. PartsIn(rows, row.src) \subseteq PartsIn(longer, row.src)
  BY <1>1 DEF PartsIn
<1>4. row.i \in PartsIn(longer, row.src)
  BY <1>1 DEF PartsIn
<1> QED
  BY <1>2, <1>3, <1>4 DEF longer

\* The database connection does not come up while rows are stored.
LEMMA ConnLasts ==
    ASSUME [Next]_vars, pc' = "insert", conn' = "ok"
    PROVE  conn = "ok"
<1>1. CASE UNCHANGED conn
  BY <1>1
<1>2. CASE UNCHANGED vars
  BY <1>2 DEF vars, links
<1>3. CASE Connect \/ OpenDb
  BY <1>3 DEF Connect, OpenDb, Die
<1>4. CASE NoReload \/ FreeDbc \/ LoadDbc \/ ClearUpdate
  BY <1>4 DEF NoReload, FreeDbc, LoadDbc, ClearUpdate, Die, links
<1>5. CASE Convert \/ StoreGps \/ StoreSignal \/ WalkOff \/ PopCan \/ CanDone
  BY <1>5 DEF Convert, StoreGps, StoreSignal, WalkOff, PopCan, CanDone, Die, links
<1>6. CASE StorePower \/ PowerDone \/ CrashOnFinished
  BY <1>6 DEF StorePower, PowerDone, CrashOnFinished, Die, links
<1>7. CASE timer_handler \/ \E m \in Traffic : GotMail(m)
  BY <1>7 DEF timer_handler, GotMail, links
<1>8. CASE \E thread \in {"main", "mqtt"} : Sigint(thread)
  BY <1>8 DEF Sigint, links
<1>9. CASE Handler
  BY <1>9 DEF Handler, HandlerDisconnect, HandlerFree, HandlerFinish, HandlerExit,
              Die, links
<1>10. CASE Environment
  BY <1>10 DEF Environment, EditDbc, DbLost, SessionLost, Kill, Restart, Die, links
<1> QED
  BY <1>1, <1>2, <1>3, <1>4, <1>5, <1>6, <1>7, <1>8, <1>9, <1>10
     DEF Next, Main, Loop

\* No row of a message is stored before its conversion.
LEMMA NothingStored ==
    ASSUME SafeInv, pc = "can", q # <<>>
    PROVE  PartsIn(table, Head(q)) = {}
<1>1. mail[Head(q)].topic = "can" /\ Head(q) \in Nat
  BY Numbers DEF SafeInv
<1>2. \A r \in 1..Len(table) : RowOK(table[r])
  BY DEF SafeInv, Data, TableOK
<1>3. \A r \in 1..Len(table) : table[r].src # Head(q)
  BY <1>1, <1>2 DEF RowOK
<1> QED
  BY <1>3 DEF PartsIn

\* The loop over the signals begins with none of them stored.
LEMMA StoredConvert ==
    ASSUME SafeInv, ConvertStep, [Next]_vars
    PROVE  StoredOK'
<1> SUFFICES ASSUME matched'
             PROVE  /\ conv_data'.size \in 1..MaxSignal
                    /\ \A x \in 1..conv_data'.size : conv_data'.conv[x].signal # Junk
                    /\ i' = 1 /\ StoredParts(Head(q))' = {}
  <2>1. i' = 1 => /\ i' \in {1, MaxSignal + 2}
                  /\ 1..(i' - 1) = {}
    OBVIOUS
  <2>2. i' = 1 => StoredSoFar' = {}
    BY <2>1 DEF StoredSoFar
  <2>3. i' = 1 => \A s \in 1..MaxSignal : i' <= s + 1
    BY SignalAssumption
  <2> QED
    BY <2>1, <2>2, <2>3, Zenon DEF StoredOK
<1> DEFINE id == data_frame'.can_id
<1>1. /\ id # None /\ conv_data'.size \in 1..MaxSignal
      /\ \A x \in Signal : x <= conv_data'.size =>
            conv_data'.conv[x].signal = [id |-> id, x |-> x]
  BY ConvertFacts DEF SafeInv, Data
<1> HIDE DEF id
<1>2. ASSUME NEW x \in 1..conv_data'.size PROVE conv_data'.conv[x].signal # Junk
  <2>1. x \in Signal /\ x <= conv_data'.size
    BY <1>1, SignalAssumption DEF Signal
  <2>2. conv_data'.conv[x].signal = [id |-> id, x |-> x]
    BY <1>1, <2>1, Zenon
  <2>3. [id |-> id, x |-> x] # [id |-> None, x |-> 0]
    BY <1>1
  <2> QED
    BY <2>2, <2>3 DEF Junk
<1>3. StoredParts(Head(q))' = {}
  <2>1. q' = q /\ table' = table /\ pc = "can" /\ q # <<>>
    BY DEF ConvertStep, intake
  <2>2. StoredParts(Head(q))' = PartsIn(table, Head(q))
    BY <2>1 DEF StoredParts, RowsOf, PartsIn
  <2> QED
    BY <2>1, <2>2, NothingStored
<1> QED
  BY <1>1, <1>2, <1>3 DEF ConvertStep

\* A signal of a described frame is stored if the database answers.
LEMMA RowIsStored ==
    ASSUME SafeInv, StoredOK, matched, StoreGps \/ StoreSignal, conn = "ok"
    PROVE  PartsIn(table', Head(q)) = PartsIn(table, Head(q)) \cup {i}
<1>1. pc = "insert" /\ i \in 1..conv_data.size /\ conv_data.size \in 1..MaxSignal
  <2>1. pc = "insert" /\ conv_data.size \in 1..MaxSignal
    BY DEF StoreGps, StoreSignal, StoredOK
  <2>2. i \in 1..MaxSignal + 2
    BY DEF SafeInv, TypeInv, TypeOK, ConversionType
  <2>3. i = 1 \/ i <= conv_data.size
    BY DEF StoreGps, StoreSignal
  <2> QED
    BY <2>1, <2>2, <2>3, SignalAssumption
<1>2. PICK kind \in {"value", "gps"} : Insert(CanRow(kind, i, i))
  BY DEF StoreGps, StoreSignal
<1> DEFINE row == CanRow(kind, i, i)
<1>3. row \in Row
  BY <1>1, TypeCanRow DEF SafeInv
<1>4. row.src = Head(q) /\ row.i = i /\ row.signal = Conv(i).signal
  BY DEF CanRow
<1>5. row.signal # Junk
  <2>1. Conv(i) = conv_data.conv[i]
    BY <1>1, SignalAssumption DEF Conv, Signal
  <2> QED
    BY <1>1, <1>4, <2>1 DEF StoredOK
<1> HIDE DEF row
<1>6. table' = Append(table, row)
  BY <1>2, <1>5 DEF Insert, row
<1>7. table \in Seq(Row)
  BY DEF SafeInv, TypeInv, TypeOK, TableType
<1> QED
  BY <1>3, <1>4, <1>6, <1>7, PartsAppend

\* Each turn of the loop stores one more.
LEMMA StoredTurn ==
    ASSUME SafeInv, StoredOK, StoreGps \/ StoreSignal
    PROVE  StoredOK'
<1> SUFFICES ASSUME matched' PROVE StoredOK'
  BY DEF StoredOK
<1>1. /\ pc = "insert" /\ pc' = pc /\ q' = q /\ conv_data' = conv_data
      /\ matched' = matched /\ conn' = conn
  BY DEF StoreGps, StoreSignal, intake, links
<1>2. /\ conv_data.size \in 1..MaxSignal
      /\ \A x \in 1..conv_data.size : conv_data.conv[x].signal # Junk
      /\ conn = "ok" => PartsIn(table, Head(q)) = StoredSoFar
  BY <1>1, StoredPartsIn DEF StoredOK
<1>3. i \in Nat
  BY DEF SafeInv, TypeInv, TypeOK, ConversionType
<1>4. CASE StoreGps
  <2>1. IsPosition /\ i = 1 /\ i' = MaxSignal + 2
    BY <1>4 DEF StoreGps
  <2>2. conn = "ok" => PartsIn(table', Head(q)) = {1}
    BY <1>1, <1>2, <1>4, <2>1, RowIsStored DEF StoredSoFar
  <2>3. StoredSoFar' = {1} /\ IsPosition'
    BY <1>1, <2>1, SignalAssumption DEF StoredSoFar, IsPosition
  <2>4. StoredParts(Head(q))' = PartsIn(table', Head(q))
    BY <1>1 DEF StoredParts, RowsOf, PartsIn
  <2> QED
    BY <1>1, <1>2, <2>1, <2>2, <2>3, <2>4 DEF StoredOK
<1>5. CASE StoreSignal
  <2>1. ~IsPosition /\ i <= conv_data.size /\ i' = i + 1
    BY <1>5 DEF StoreSignal
  <2>2. conn = "ok" => PartsIn(table', Head(q)) = 1..(i - 1) \cup {i}
    BY <1>1, <1>2, <1>5, <2>1, RowIsStored DEF StoredSoFar
  <2>3. ~IsPosition' /\ i' - 1 = i /\ i' <= conv_data.size + 1
    BY <1>1, <1>2, <1>3, <2>1 DEF IsPosition
  <2>4. i \in 1..MaxSignal + 2
    BY DEF SafeInv, TypeInv, TypeOK, ConversionType
  <2>5. 1..(i - 1) \cup {i} = 1..i
    BY <2>4, SignalAssumption
  <2>6. StoredSoFar' = 1..i
    BY <2>3 DEF StoredSoFar
  <2>7. StoredParts(Head(q))' = PartsIn(table', Head(q))
    BY <1>1 DEF StoredParts, RowsOf, PartsIn
  <2> QED
    BY <1>1, <1>2, <2>2, <2>3, <2>5, <2>6, <2>7 DEF StoredOK
<1> QED
  BY <1>4, <1>5

\* Steps that leave the loop over the signals where it is.
LEMMA StoredKeeps ==
    ASSUME StoredOK, [Next]_vars, UNCHANGED <<conversion, table>>,
           pc' = "insert" => pc = "insert" /\ Head(q') = Head(q)
    PROVE  StoredOK'
<1> SUFFICES ASSUME pc' = "insert", matched' PROVE StoredOK'
  BY DEF StoredOK
<1>1. StoredParts(Head(q))' = StoredParts(Head(q)) /\ StoredSoFar' = StoredSoFar
  BY DEF StoredParts, RowsOf, StoredSoFar, IsPosition, conversion
<1>2. conn' = "ok" => conn = "ok"
  BY ConnLasts
<1> QED
  BY <1>1, <1>2 DEF StoredOK, IsPosition, conversion

LEMMA StoredStep ==
    ASSUME SafeInv, StoredOK, [Next]_vars
    PROVE  StoredOK'
<1>1. CASE Die \/ PopCan \/ Restart \/ StorePower
  BY <1>1 DEF Die, PopCan, Restart, StorePower, StoredOK
<1>2. CASE Quiet
  BY <1>2, StoredKeeps DEF Quiet, intake
<1>3. ASSUME NEW m \in Traffic, GotMail(m) PROVE StoredOK'
  <2>1. UNCHANGED <<conversion, table>> /\ pc' = pc
    BY <1>3 DEF GotMail
  <2>2. pc = "insert" => Head(q') = Head(q)
    BY <1>3, Numbers, MailGrows DEF SafeInv
  <2> QED
    BY <2>1, <2>2, StoredKeeps
<1>4. CASE ConvertStep
  BY <1>4, StoredConvert
<1>5. CASE StoreGps \/ StoreSignal
  BY <1>5, StoredTurn
<1> QED
  BY <1>1, <1>2, <1>3, <1>4, <1>5, Steps DEF SafeInv

\* When main pops a described frame, its rows are complete.
LEMMA PoppedWhole ==
    ASSUME SafeInv, StoredOK, PopCan, conn = "ok", matched
    PROVE  StoredParts(Head(q)) = IF IsPosition THEN {1} ELSE 1..conv_data.size
<1>1. /\ pc = "insert" /\ Inserted
      /\ conv_data.size \in 1..MaxSignal
      /\ IF IsPosition THEN i \in {1, MaxSignal + 2} ELSE i <= conv_data.size + 1
      /\ StoredParts(Head(q)) = StoredSoFar
  BY DEF PopCan, StoredOK
<1>2. i \in Nat
  BY DEF SafeInv, TypeInv, TypeOK, ConversionType
<1>3. CASE IsPosition
  BY <1>1, <1>3 DEF Inserted, StoredSoFar
<1>4. CASE ~IsPosition
  <2>1. i - 1 = conv_data.size
    BY <1>1, <1>2, <1>4 DEF Inserted
  <2> QED
    BY <1>1, <1>4, <2>1 DEF StoredSoFar
<1> QED
  BY <1>3, <1>4

-------------------------------------------------------------------------------
(***************************************************************************)
(* No message is missing while the database answers.                       *)
(***************************************************************************)
Answering == conn = "ok" \/ pc \in {"connect", "db", "exited"}
Keeping == Answering /\ ~HandlerFreed

\* A message waits on after a push, and after a pop unless it was the front.
LEMMA WaitsPush ==
    ASSUME NEW queue \in Seq(Nat), NEW m \in Nat
    PROVE  /\ \A n : Waits(queue, n) => Waits(Append(queue, m), n)
           /\ Waits(Append(queue, m), m)
<1> DEFINE longer == Append(queue, m)
<1>1. /\ Len(longer) = Len(queue) + 1 /\ longer[Len(queue) + 1] = m
      /\ \A k \in 1..Len(queue) : longer[k] = queue[k]
      /\ Len(queue) \in Nat
  OBVIOUS
<1> HIDE DEF longer
<1>2. Len(queue) + 1 \in 1..Len(longer) /\ \A k \in 1..Len(queue) : k \in 1..Len(longer)
  BY <1>1
<1> QED
  BY <1>1, <1>2 DEF Waits, longer

LEMMA WaitsPop ==
    ASSUME NEW queue \in Seq(Nat), queue # <<>>, NEW n, Waits(queue, n), n # Head(queue)
    PROVE  Waits(Tail(queue), n)
<1>1. PICK k \in 1..Len(queue) : queue[k] = n
  BY DEF Waits
<1>2. /\ Len(Tail(queue)) = Len(queue) - 1
      /\ \A j \in 1..Len(Tail(queue)) : Tail(queue)[j] = queue[j + 1]
      /\ Head(queue) = queue[1] /\ Len(queue) \in Nat
  BY HeadTailProperties
<1>3. k - 1 \in 1..Len(Tail(queue)) /\ (k - 1) + 1 = k
  BY <1>1, <1>2
<1> QED
  BY <1>1, <1>2, <1>3 DEF Waits

\* A new row adds to the rows of its message and leaves the others' alone.
LEMMA OtherParts ==
    ASSUME NEW rows \in Seq(Row), NEW row \in Row, NEW n, row.src # n
    PROVE  PartsIn(Append(rows, row), n) = PartsIn(rows, n)
<1> DEFINE longer == Append(rows, row)
<1>1. /\ longer[Len(rows) + 1] = row
      /\ \A k \in 1..Len(rows) : longer[k] = rows[k] /\ k \in 1..Len(longer)
      /\ \A k \in 1..Len(longer) : k = Len(rows) + 1 \/ k \in 1..Len(rows)
  OBVIOUS
<1> HIDE DEF longer
<1> QED
  BY <1>1 DEF PartsIn, longer

LEMMA RowsGrow ==
    ASSUME TableType, NEW row \in Row, Insert(row), NEW n
    PROVE  /\ RowsOf(n) \subseteq RowsOf(n)'
           /\ row.src # n => StoredParts(n)' = StoredParts(n)
<1>1. CASE table' = table
  BY <1>1 DEF RowsOf, StoredParts
<1>2. CASE table' = Append(table, row)
  <2>1. table \in Seq(Row) /\ \A k \in 1..Len(table) : /\ k \in 1..Len(table')
                                                      /\ table'[k] = table[k]
    BY <1>2 DEF TableType
  <2>2. StoredParts(n) = PartsIn(table, n) /\ StoredParts(n)' = PartsIn(table', n)
    BY DEF StoredParts, RowsOf, PartsIn
  <2> QED
    BY <1>2, <2>1, <2>2, OtherParts DEF RowsOf
<1> QED
  BY <1>1, <1>2 DEF Insert

\* A database is found, or not, before the loop only.
LEMMA AnsweringLasts ==
    ASSUME [Next]_vars, ~Die, Answering'
    PROVE  Answering
<1> USE DEF Answering
<1>1. CASE UNCHANGED vars
  BY <1>1 DEF vars, links
<1>2. CASE Connect \/ OpenDb
  BY <1>2 DEF Connect, OpenDb
<1>3. CASE NoReload \/ FreeDbc \/ LoadDbc \/ ClearUpdate
  BY <1>3 DEF NoReload, FreeDbc, LoadDbc, ClearUpdate, links
<1>4. CASE Convert \/ StoreGps \/ StoreSignal \/ WalkOff \/ PopCan \/ CanDone
  BY <1>4 DEF Convert, StoreGps, StoreSignal, WalkOff, PopCan, CanDone, links
<1>5. CASE StorePower \/ PowerDone \/ CrashOnFinished
  BY <1>5 DEF StorePower, PowerDone, CrashOnFinished, links
<1>6. CASE timer_handler \/ \E m \in Traffic : GotMail(m)
  BY <1>6 DEF timer_handler, GotMail, links
<1>7. CASE \E thread \in {"main", "mqtt"} : Sigint(thread)
  BY <1>7 DEF Sigint, links
<1>8. CASE Handler
  BY <1>8 DEF Handler, HandlerDisconnect, HandlerFree, HandlerFinish, HandlerExit, links
<1>9. CASE Environment
  BY <1>9 DEF Environment, EditDbc, DbLost, SessionLost, Kill, Restart, links
<1> QED
  BY <1>1, <1>2, <1>3, <1>4, <1>5, <1>6, <1>7, <1>8, <1>9 DEF Next, Main, Loop

LEMMA KeepingLasts ==
    ASSUME [Next]_vars, ~Die, Keeping'
    PROVE  Keeping
BY AnsweringLasts, HandlerLasts DEF Keeping

\* A dead process stays dead until it is started, and nothing reaches it.
LEMMA ExitLasts ==
    ASSUME [Next]_vars, ~Die, pc' = "exited"
    PROVE  /\ pc = "exited" /\ (session' => session)
           /\ UNCHANGED intake \/ session
<1>1. CASE UNCHANGED vars
  BY <1>1 DEF vars, links
<1>2. CASE Connect \/ OpenDb
  BY <1>2 DEF Connect, OpenDb
<1>3. CASE NoReload \/ FreeDbc \/ LoadDbc \/ ClearUpdate
  BY <1>3 DEF NoReload, FreeDbc, LoadDbc, ClearUpdate
<1>4. CASE Convert \/ StoreGps \/ StoreSignal \/ WalkOff \/ PopCan \/ CanDone
  BY <1>4 DEF Convert, StoreGps, StoreSignal, WalkOff, PopCan, CanDone
<1>5. CASE StorePower \/ PowerDone \/ CrashOnFinished
  BY <1>5 DEF StorePower, PowerDone, CrashOnFinished
<1>6. CASE timer_handler \/ \E m \in Traffic : GotMail(m)
  BY <1>6 DEF timer_handler, GotMail, links
<1>7. CASE \E thread \in {"main", "mqtt"} : Sigint(thread)
  BY <1>7 DEF Sigint, links
<1>8. CASE Handler
  BY <1>8 DEF Handler, HandlerDisconnect, HandlerFree, HandlerFinish, HandlerExit, links
<1>9. CASE Environment
  BY <1>9 DEF Environment, EditDbc, DbLost, SessionLost, Kill, Restart, links
<1> QED
  BY <1>1, <1>2, <1>3, <1>4, <1>5, <1>6, <1>7, <1>8, <1>9 DEF Next, Main, Loop

\* What keeps a message from going missing in a step.
LEMMA KeptKeeps ==
    ASSUME NEW n, Kept(n), mail'[n] = mail[n], id_count' = id_count,
           mail[n].topic = "power" =>
              /\ Waits(power_msg_q, n) => Waits(power_msg_q', n) \/ RowsOf(n)' # {}
              /\ RowsOf(n) \subseteq RowsOf(n)',
           mail[n].topic # "power" =>
              /\ Waits(q, n) => Waits(q', n) \/ (Described(mail[n].frame) => Stored(n)')
              /\ Stored(n) => Waits(q', n) \/ Stored(n)'
    PROVE  Kept(n)'
<1>1. CASE mail[n].topic = "power"
  BY <1>1 DEF Kept, Waits
<1>2. CASE mail[n].topic # "power"
  BY <1>2 DEF Kept, Waits, Described
<1> QED
  BY <1>1, <1>2

\* The step keeps the messages that were not missing.
LEMMA KeptMessage ==
    ASSUME SafeInv, StoredOK, [Next]_vars, Keeping', ~Die, ~Restart,
           NEW n \in 1..Len(mail), Kept(n)
    PROVE  Kept(n)'
<1> USE DEF SafeInv
<1>1. /\ TableType /\ mail[n] \in Message
      /\ q \in Seq(Nat) /\ power_msg_q \in Seq(Nat) /\ conv_data \in Container
  BY DEF TypeInv, TypeOK, IntakeType, ConversionType
<1>2. mail[n].topic \in {"can", "power"}
  BY <1>1 DEF Message
<1> id_count' = id_count
  BY HandlerLasts
<1>3. CASE Quiet
  BY <1>3, KeptKeeps DEF Quiet, intake, conversion, Stored, StoredParts, RowsOf, IsPosition
<1>4. CASE ConvertStep
  <2>4. conv_data'.can_id = conv_data.can_id
    BY <1>4, ConvertFacts DEF Data
  <2>5. IsPosition' = IsPosition
    BY <2>4 DEF IsPosition
  <2>6. UNCHANGED <<mail, q, power_msg_q, table>>
    BY <1>4 DEF ConvertStep, intake
  <2>7. RowsOf(n)' = RowsOf(n) /\ Stored(n)' = Stored(n)
    BY <2>5, <2>6 DEF Stored, StoredParts, RowsOf
  <2> QED
    BY <2>6, <2>7, KeptKeeps
<1>5. ASSUME NEW m \in Traffic, GotMail(m) PROVE Kept(n)'
  <2>1. mail'[n] = mail[n] /\ UNCHANGED <<conversion, table>>
    BY <1>5, MailGrows DEF GotMail
  <2>2. /\ q' = q \/ q' = Append(q, Len(mail) + 1)
        /\ power_msg_q' = power_msg_q \/ power_msg_q' = Append(power_msg_q, Len(mail) + 1)
        /\ Len(mail) + 1 \in Nat
    BY <1>5, Numbers DEF GotMail
  <2>3. /\ Waits(q, n) => Waits(q', n)
        /\ Waits(power_msg_q, n) => Waits(power_msg_q', n)
    BY <1>1, <2>2, WaitsPush
  <2>4. RowsOf(n)' = RowsOf(n) /\ StoredParts(n)' = StoredParts(n) /\ IsPosition' = IsPosition
    BY <2>1 DEF RowsOf, StoredParts, IsPosition, conversion
  <2> QED
    BY <2>1, <2>3, <2>4, KeptKeeps DEF Stored
<1>6. CASE StoreGps \/ StoreSignal
  <2>1. /\ UNCHANGED <<intake, conv_data>> /\ pc = "insert"
        /\ i \in Nat
    BY <1>6 DEF StoreGps, StoreSignal, TypeInv, TypeOK, ConversionType
  <2>2. PICK row \in Row : Insert(row) /\ row.src = Head(q)
    BY <1>6, <2>1, TypeCanRow DEF StoreGps, StoreSignal, CanRow
  <2>3. RowsOf(n) \subseteq RowsOf(n)' /\ (n # Head(q) => StoredParts(n)' = StoredParts(n))
    BY <1>1, <2>2, RowsGrow
  <2>4. mail' = mail /\ q' = q /\ power_msg_q' = power_msg_q /\ IsPosition' = IsPosition
    BY <2>1 DEF intake, IsPosition
  <2>5. Waits(q, Head(q))
    <3>1. q # <<>>
      BY <2>1, Numbers
    <3>2. 1 \in 1..Len(q) /\ q[1] = Head(q)
      BY <1>1, <3>1, EmptySeq
    <3> QED
      BY <3>2 DEF Waits
  <2>6. Stored(n) => Waits(q', n) \/ Stored(n)'
    BY <2>3, <2>4, <2>5 DEF Stored
  <2> QED
    BY <2>3, <2>4, <2>6, KeptKeeps
<1>7. CASE PopCan
  <2>1. /\ mail' = mail /\ power_msg_q' = power_msg_q /\ q' = Tail(q) /\ q # <<>>
        /\ UNCHANGED <<conversion, table>> /\ conn = "ok" /\ pc = "insert"
        /\ ~HandlerFreed
    BY <1>7, Numbers, KeepingLasts DEF PopCan, Keeping, Answering, links
  <2>2. RowsOf(n)' = RowsOf(n) /\ StoredParts(n)' = StoredParts(n) /\ Stored(n)' = Stored(n)
    BY <2>1 DEF RowsOf, StoredParts, Stored, IsPosition, conversion
  <2>3. CASE n = Head(q)
    <3>1. ASSUME Described(mail[n].frame) PROVE Stored(n)
      <4>1. matched /\ ConvertedFrom(conv_data, mail[n].frame, n)
        BY <2>1, <2>3, <3>1 DEF Data, ConversionOK, Described
      <4>2. PICK e \in Entries : e.id = mail[n].frame.id /\ conv_data.size = e.count
        BY <4>1 DEF ConvertedFrom
      <4> QED
        BY <1>7, <2>1, <2>3, <4>1, <4>2, PoppedWhole DEF Stored
    <3>2. mail[n].topic # "power"
      BY <2>1, <2>3, Numbers
    <3> QED
      BY <2>1, <2>2, <3>1, <3>2, KeptKeeps
  <2>4. CASE n # Head(q)
    BY <1>1, <2>1, <2>2, <2>4, WaitsPop, KeptKeeps
  <2> QED
    BY <2>3, <2>4
<1>8. CASE StorePower
  <2>1. /\ mail' = mail /\ q' = q /\ UNCHANGED conversion /\ conn = "ok"
        /\ power_msg_q' = Tail(power_msg_q) /\ power_msg_q # <<>> /\ Insert(PowerRow)
    BY <1>8 DEF StorePower, Keeping, Answering, links
  <2>2. /\ PowerRow \in Row /\ PowerRow.src = Head(power_msg_q) /\ PowerRow.kind = "power"
        /\ mail[Head(power_msg_q)].topic = "power"
    BY <2>1, TypePowerRow, Numbers DEF PowerRow
  <2>3. table' = Append(table, PowerRow)
    BY <2>1, <2>2 DEF Insert
  <2>4. RowsOf(n) \subseteq RowsOf(n)'
    BY <1>1, <2>1, <2>2, RowsGrow
  <2>5. CASE mail[n].topic = "power"
    <3>1. n = Head(power_msg_q) => Len(table) + 1 \in RowsOf(n)'
      BY <1>1, <2>2, <2>3 DEF RowsOf, TableType
    <3>2. Waits(power_msg_q, n) => Waits(power_msg_q', n) \/ RowsOf(n)' # {}
      BY <1>1, <2>1, <3>1, WaitsPop
    <3> QED
      BY <2>1, <2>4, <2>5, <3>2, KeptKeeps
  <2>6. CASE mail[n].topic # "power"
    <3>1. StoredParts(n)' = StoredParts(n) /\ IsPosition' = IsPosition
      BY <1>1, <2>1, <2>2, <2>6, RowsGrow DEF IsPosition, conversion
    <3> QED
      BY <2>1, <2>6, <3>1, KeptKeeps DEF Stored
  <2> QED
    BY <2>5, <2>6
<1> QED
  BY <1>3, <1>4, <1>5, <1>6, <1>7, <1>8, Steps

\* A message waits when it has just been received.
LEMMA KeptNew ==
    ASSUME SafeInv, NEW m \in Traffic, GotMail(m), NEW n, n = Len(mail) + 1
    PROVE  Kept(n)'
<1>1. /\ mail \in Seq(Message) /\ m \in Message
      /\ q \in Seq(Nat) /\ power_msg_q \in Seq(Nat)
  BY TrafficAssumption DEF SafeInv, TypeInv, TypeOK, IntakeType
<1>2. n \in Nat /\ mail'[n] = m
  BY <1>1 DEF GotMail
<1>3. CASE m.topic = "can" /\ q' = Append(q, n)
  BY <1>1, <1>2, <1>3, WaitsPush DEF Kept
<1>4. CASE m.topic = "power" /\ power_msg_q' = Append(power_msg_q, n)
  BY <1>1, <1>2, <1>4, WaitsPush DEF Kept
<1> QED
  BY <1>3, <1>4 DEF GotMail

LEMMA KeptStep ==
    ASSUME SafeInv, StoredOK, KeptOK, [Next]_vars
    PROVE  KeptOK'
<1>1. Len(mail) \in Nat /\ born \in Nat
  BY Numbers DEF SafeInv, TypeInv, TypeOK, IntakeType
<1>2. CASE Die
  <2>1. mail' = mail /\ born' = Len(mail) /\ ~session'
    BY <1>2 DEF Die
  <2>2. (born + 1 .. Len(mail))' = {}
    BY <1>1, <2>1
  <2> QED
    BY <2>1, <2>2 DEF KeptOK
<1>3. CASE Restart
  <2>1. UNCHANGED intake /\ born = Len(mail) /\ pc' # "exited"
    BY <1>3 DEF Restart, KeptOK
  <2>2. (born + 1 .. Len(mail))' = {}
    BY <1>1, <2>1 DEF intake
  <2> QED
    BY <2>1, <2>2 DEF KeptOK
<1>4. CASE ~Die /\ ~Restart
  <2>1. ASSUME Keeping', NEW n \in (born + 1 .. Len(mail))' PROVE Kept(n)'
    <3>1. \A k \in born + 1 .. Len(mail) : Kept(k)
      BY <1>4, <2>1, KeepingLasts DEF Keeping, Answering, KeptOK
    <3>2. CASE \E m \in Traffic : GotMail(m)
      <4>1. PICK m \in Traffic : GotMail(m)
        BY <3>2
      <4>2. born' = born /\ Len(mail') = Len(mail) + 1
        BY <4>1, MailGrows DEF GotMail, SafeInv
      <4>3. CASE n = Len(mail) + 1
        BY <4>1, <4>3, KeptNew
      <4>4. CASE n # Len(mail) + 1
        <5>1. n \in born + 1 .. Len(mail) /\ n \in 1..Len(mail)
          BY <1>1, <4>2, <4>4
        <5> QED
          BY <1>4, <2>1, <3>1, <5>1, KeptMessage
      <4> QED
        BY <4>3, <4>4
    <3>3. CASE mail' = mail /\ born' = born
      <4>1. n \in born + 1 .. Len(mail) /\ n \in 1..Len(mail)
        BY <1>1, <3>3
      <4> QED
        BY <1>4, <2>1, <3>1, <4>1, KeptMessage
    <3> QED
      BY <1>4, <3>2, <3>3, IntakeSteps DEF PopCan, StorePower, intake
  <2>2. ASSUME pc' = "exited" PROVE (born = Len(mail))' /\ ~session'
    BY <1>4, <2>2, ExitLasts DEF KeptOK, intake
  <2> QED
    BY <2>1, <2>2 DEF KeptOK, Keeping, Answering
<1> QED
  BY <1>2, <1>3, <1>4

-------------------------------------------------------------------------------
(***************************************************************************)
(* A size that is too large is that of the start.                          *)
(***************************************************************************)
\* A conversion leaves such a size only if the frame is not described.
LEMMA SizeConvert ==
    ASSUME SafeInv, ConvertStep, conv_data'.size > MaxSignal, ~HandlerFreed
    PROVE  conv_data.size > MaxSignal /\ ~Described(mail[Head(q)].frame)
<1>1. ~matched'
  <2>1. matched' => conv_data'.size \in 1..MaxSignal
    BY ConvertFacts DEF SafeInv, Data
  <2> QED
    BY <2>1, SignalAssumption
<1>2. conv_data'.size = conv_data.size
  BY <1>1, ConvertFacts DEF SafeInv, Data
<1>3. ConversionOK'
  BY ConvertEstablishes DEF SafeInv, Data
<1>4. /\ pc' = "insert" /\ UNCHANGED intake
      /\ HandlerFreed' = HandlerFreed /\ id_count' = id_count
  BY DEF ConvertStep, dbc, HandlerFreed
<1>5. ~Described(mail[Head(q)].frame)
  BY <1>1, <1>3, <1>4 DEF ConversionOK, Described, intake
<1> QED
  BY <1>2, <1>5

\* Serving a message does not begin with a step that leaves it waiting.
LEMMA BegunBefore ==
    ASSUME NEW n, Waits(q, n) => Waits(q', n),
           pc' = "insert" /\ n = Head(q') => pc = "insert" /\ n = Head(q),
           Begun(n)'
    PROVE  Begun(n)
BY DEF Begun, Waits

\* In a process that lives, no message it begins to serve later shows one.
LEMMA SizeLasts ==
    ASSUME SafeInv, SizeOK, [Next]_vars, ~Die, ~Restart
    PROVE  SizeOK'
<1> SUFFICES ASSUME (conv_data.size > MaxSignal)', ~HandlerFreed',
                    NEW n \in (born + 1 .. Len(mail))',
                    (mail[n].topic = "can")', Begun(n)'
             PROVE  ~Described(mail'[n].frame)
  <2>1. \A f : Described(f)' = Described(f)
    BY HandlerLasts DEF Described
  <2> QED
    BY <2>1 DEF SizeOK
<1>0. ~HandlerFreed
  BY HandlerLasts
<1>1. /\ Len(mail) \in Nat /\ born \in Nat /\ q \in Seq(Nat)
      /\ pc = "insert" => q # <<>>
  BY Numbers DEF SafeInv, TypeInv, TypeOK, IntakeType
<1>2. ASSUME conv_data.size > MaxSignal, n \in born + 1 .. Len(mail), mail'[n] = mail[n],
             Begun(n)
      PROVE  ~Described(mail'[n].frame)
  BY <1>0, <1>2 DEF SizeOK
<1>4. CASE Quiet \/ StoreGps \/ StoreSignal
  <2>1. UNCHANGED <<intake, conv_data>> /\ (pc' = "insert" => pc = "insert")
    BY <1>4 DEF Quiet, StoreGps, StoreSignal, conversion
  <2> QED
    BY <1>2, <2>1, BegunBefore DEF intake
<1>5. ASSUME NEW m \in Traffic, GotMail(m) PROVE ~Described(mail'[n].frame)
  <2>1. /\ conv_data' = conv_data /\ born' = born /\ pc' = pc
        /\ Len(mail') = Len(mail) + 1 /\ (pc = "insert" => Head(q') = Head(q))
    BY <1>1, <1>5, MailGrows DEF SafeInv, GotMail, conversion
  <2>2. CASE n = Len(mail) + 1
    <3>1. mail'[n].topic = m.topic
      BY <1>5, <2>2 DEF GotMail, SafeInv, TypeInv, TypeOK, IntakeType
    <3>2. q' = Append(q, n)
      BY <1>5, <2>2, <3>1 DEF GotMail
    <3>3. Waits(q', n)
      BY <1>1, <2>2, <3>2, WaitsPush
    <3>4. pc = "insert" => Head(q) \in 1..Len(mail)
      BY <1>1, Numbers DEF SafeInv
    <3>5. pc' = "insert" /\ n = Head(q')
      BY <3>3 DEF Begun, Waits
    <3>6. n \in 1..Len(mail)
      BY <2>1, <3>4, <3>5
    <3> QED
      BY <1>1, <2>2, <3>6
  <2>3. CASE n # Len(mail) + 1
    <3>1. n \in born + 1 .. Len(mail) /\ mail'[n] = mail[n]
      BY <1>1, <1>5, <2>1, <2>3, MailGrows DEF SafeInv
    <3>2. Waits(q, n) => Waits(q', n)
      <4>1. q' = Append(q, Len(mail) + 1) \/ q' = q
        BY <1>5 DEF GotMail
      <4>2. Len(mail) + 1 \in Nat
        BY <1>1
      <4>3. Waits(q, n) => Waits(Append(q, Len(mail) + 1), n)
        BY <1>1, <4>2, WaitsPush
      <4> QED
        BY <4>1, <4>3
    <3>3. Begun(n)
      BY <2>1, <3>2, BegunBefore
    <3> QED
      BY <1>2, <2>1, <3>1, <3>3
  <2> QED
    BY <2>2, <2>3
<1>6. CASE ConvertStep
  <2>1. conv_data.size > MaxSignal /\ ~Described(mail[Head(q)].frame) /\ UNCHANGED intake
    BY <1>0, <1>6, SizeConvert DEF ConvertStep
  <2>2. CASE n = Head(q)
    BY <2>1, <2>2 DEF intake
  <2>3. CASE n # Head(q)
    BY <1>2, <2>1, <2>3, BegunBefore DEF intake
  <2> QED
    BY <2>2, <2>3
<1>7. CASE PopCan
  <2>1. /\ UNCHANGED <<mail, born, conv_data>> /\ q' = Tail(q) /\ q # <<>>
        /\ pc = "insert" /\ pc' # "insert"
    BY <1>1, <1>7 DEF PopCan, conversion
  <2>2. Begun(n)
    BY <1>1, <2>1, WaitsPop DEF Begun
  <2> QED
    BY <1>2, <2>1, <2>2
<1>8. CASE StorePower
  <2>1. UNCHANGED <<mail, born, q, conv_data, pc>>
    BY <1>8 DEF StorePower, conversion
  <2> QED
    BY <1>2, <2>1, BegunBefore
<1> QED
  BY <1>4, <1>5, <1>6, <1>7, <1>8, Steps DEF SafeInv

LEMMA SizeStep ==
    ASSUME SafeInv, KeptOK, SizeOK, [Next]_vars
    PROVE  SizeOK'
<1>1. CASE Die \/ Restart
  <2>1. Len(mail) \in Nat /\ born' = Len(mail) /\ mail' = mail
    BY <1>1, Numbers DEF Die, Restart, KeptOK, intake, SafeInv
  <2>2. (born + 1 .. Len(mail))' = {}
    BY <2>1
  <2> QED
    BY <2>2 DEF SizeOK
<1>2. CASE ~Die /\ ~Restart
  BY <1>2, SizeLasts
<1> QED
  BY <1>1, <1>2
-------------------------------------------------------------------------------
(***************************************************************************)
(* The invariant the small instances check, for every instance.            *)
(***************************************************************************)
THEOREM InvariantHolds == Spec => []IInv
<1> DEFINE Inv == SafeInv /\ StoredOK /\ KeptOK /\ SizeOK
<1>1. Init => Inv
  <2> SUFFICES ASSUME Init PROVE Inv
    OBVIOUS
  <2>1. SafeInv /\ StoredOK
    BY SafeInit DEF Init, StoredOK
  <2>2. born = 0 /\ Len(mail) = 0 /\ pc # "exited"
    BY DEF Init
  <2>3. born + 1 .. Len(mail) = {}
    BY <2>2
  <2> QED
    BY <2>1, <2>2, <2>3 DEF KeptOK, SizeOK
<1>2. Inv /\ [Next]_vars => Inv'
  BY SafeStep, StoredStep, KeptStep, SizeStep
<1>3. Inv => IInv
  BY SafeInvIsIInv
<1> HIDE DEF Inv
<1> QED
  BY <1>1, <1>2, <1>3, PTL DEF Spec

(***************************************************************************)
(* As long as its database answers and no SIGINT has freed its entries, a  *)
(* process has, for every message it accepted, the message in its queue or *)
(* its rows in the table: pushing beside main, reloads of DBC.csv, longer  *)
(* or shorter, and undescribed frames lose none.                           *)
(***************************************************************************)
THEOREM NothingIsLost == Spec => []NoneMissing
<1>1. IInv => NoneMissing
  BY DEF IInv, KeptOK, NoneMissing
<1> QED
  BY <1>1, InvariantHolds, PTL

(***************************************************************************)
(* What the stack held where conv_data.size is can send main past the end  *)
(* of conv only before it has converted its first described frame (or      *)
(* after a SIGINT has freed the entries).                                  *)
(***************************************************************************)
THEOREM OnlyTheStartWalksOff == Spec => []WalksOffEarly
<1>1. ASSUME IInv, WalksOff PROVE conv_data.size > MaxSignal
  BY <1>1, SignalAssumption
     DEF WalksOff, IInv, TypeOK, ConversionType, Container
<1>2. IInv => WalksOffEarly
  BY <1>1 DEF IInv, SizeOK, WalksOffEarly
<1> QED
  BY <1>2, InvariantHolds, PTL

\* Only PopCan takes a CAN message from the queue of a process that lives.
LEMMA OnlyPopCan ==
    ASSUME TypeInv, [Next]_vars, q # <<>>, q' = Tail(q), pc' # "exited"
    PROVE  PopCan
<1>1. q \in Seq(Nat) /\ q' # q
  BY HeadTailProperties DEF TypeInv, TypeOK, IntakeType
<1>2. ASSUME NEW m \in Traffic, GotMail(m) PROVE FALSE
  <2>1. q' = Append(q, Len(mail) + 1) /\ Len(mail) + 1 \in Nat
    BY <1>1, <1>2 DEF GotMail, TypeInv, TypeOK, IntakeType
  <2> QED
    BY <1>1, <2>1, HeadTailProperties
<1> QED
  BY <1>1, <1>2, IntakeSteps DEF Die, StorePower, intake

(***************************************************************************)
(* While the database answers, a described CAN message is popped when      *)
(* exactly its signals are in the table (one row when it is taken for a    *)
(* position): main's loop over conv_data loses none and stops in time.     *)
(***************************************************************************)
THEOREM PoppedAfterStoring == Spec => StoredBeforePop
<1> DEFINE Complete == q # <<>> /\ q' = Tail(q) /\ pc' # "exited" /\ conn = "ok" /\ matched =>
                      StoredParts(Head(q)) = IF IsPosition THEN {1} ELSE 1..conv_data.size
<1>1. ASSUME IInv, [Next]_vars, q # <<>>, q' = Tail(q), pc' # "exited", conn = "ok", matched
      PROVE  StoredParts(Head(q)) = IF IsPosition THEN {1} ELSE 1..conv_data.size
  BY <1>1, OnlyPopCan, PoppedWhole, SafeInvIsIInv DEF SafeInv
<1>2. IInv /\ [Next]_vars => [Complete]_vars
  BY <1>1
<1> QED
  BY <1>2, InvariantHolds, PTL DEF Spec, StoredBeforePop

(***************************************************************************)
(* Every row names the kart that published the message it was made from.   *)
(***************************************************************************)
THEOREM RowsNameTheirKart == Spec => []KartAttribution
<1>1. SafeInv => KartAttribution
  BY DEF SafeInv, Data, TableOK, RowOK, KartAttribution
<1> QED
  BY <1>1, Safe, PTL

(***************************************************************************)
(* A row made from a frame an entry matched shows that entry's signal, and *)
(* the frame's own bytes only if the frame brings all the bytes every      *)
(* version of the entry takes, the one behind a little-endian signal among *)
(* them; a row no entry matched shows none of the frame's bytes.           *)
(***************************************************************************)
THEOREM RowsShowTheirFrame == Spec => []Provenance
<1>1. SafeInv => Provenance
  BY DEF SafeInv, Data
<1> QED
  BY <1>1, Safe, PTL

-------------------------------------------------------------------------------
(***************************************************************************)
(* The subscriber implements RowStore.                                     *)
(***************************************************************************)
LEMMA StoreInit == Init => Store!Init
BY DEF Init, Store!Init

\* A row with these facts is a Write of the row store.
LEMMA RowWritten ==
    ASSUME SafeInv, NEW row \in Row, table' = Append(table, row), mail' = mail,
           row.src \in 1..Len(mail), row.gokart = mail[row.src].kart,
           \A v \in row.value : v <= row.src,
           \A n \in 1..Len(table) :
              mail[table[n].src].topic = mail[row.src].topic =>
                \/ table[n].src < row.src
                \/ table[n].src = row.src /\ table[n].i < row.i
    PROVE  Store!Next
<1>1. table \in Seq(Row)
  BY DEF SafeInv, TypeInv, TypeOK, TableType
<1>2. Len(table') = Len(table) + 1 /\ Store!New(table') = row
  BY <1>1 DEF Store!New
<1>3. Store!Admissible(row)
  BY DEF Store!Admissible, Store!Topic, Store!Before
<1> QED
  BY <1>2, <1>3 DEF Store!Next, Store!Write

\* Every step of the subscriber is a step of the row store or none.
LEMMA StoreStep ==
    ASSUME SafeInv, [Next]_vars
    PROVE  [Store!Next]_Store!vars
<1>1. CASE UNCHANGED <<mail, table>>
  BY <1>1 DEF Store!vars
<1>2. ASSUME NEW m \in Traffic, GotMail(m) PROVE Store!Next
  <2>1. mail \in Seq(Message) /\ m \in Message
    BY TrafficAssumption DEF SafeInv, TypeInv, TypeOK, IntakeType
  <2>2. mail' = Append(mail, m) /\ table' = table
    BY <1>2 DEF GotMail
  <2>3. Len(mail') = Len(mail) + 1 /\ Store!New(mail') = m
    BY <2>1, <2>2 DEF Store!New
  <2> QED
    BY <2>2, <2>3 DEF Store!Next, Store!Receive
<1>3. \A n \in 1..Len(table) : table[n] \in Row /\ RowOK(table[n])
  BY DEF SafeInv, Data, TableOK, TypeInv, TypeOK, TableType
<1>4. CASE (StoreGps \/ StoreSignal) /\ ~UNCHANGED table
  <2>1. PICK kind \in {"value", "gps"} :
          /\ table' = Append(table, CanRow(kind, i, i))
          /\ i \in Nat \ {0} /\ (i = 1 \/ i <= conv_data.size)
    BY <1>4, CanRowStored
  <2>2. pc = "insert" /\ mail' = mail
    BY <1>4, CanRowStored DEF intake
  <2> DEFINE row == CanRow(kind, i, i)
  <2>3. /\ row \in Row /\ row.gokart = mail[row.src].kart
        /\ \A v \in row.value : v <= row.src
    BY <2>1, <2>2, NewCanRow, TypeCanRow DEF SafeInv
  <2>4. /\ row.src = Head(q) /\ row.i = i
        /\ Head(q) \in 1..Len(mail) /\ mail[Head(q)].topic = "can" /\ q # <<>>
    BY <2>2, Numbers DEF SafeInv, CanRow
  <2> HIDE DEF row
  <2>5. \A n \in 1..Len(table) :
           mail[table[n].src].topic = mail[row.src].topic =>
             \/ table[n].src < row.src
             \/ table[n].src = row.src /\ table[n].i < row.i
    BY <1>3, <2>4 DEF RowOK
  <2> QED
    BY <2>1, <2>2, <2>3, <2>4, <2>5, RowWritten DEF row
<1>5. CASE StorePower /\ ~UNCHANGED table
  <2>1. table' = Append(table, PowerRow) /\ mail' = mail /\ power_msg_q # <<>>
    BY <1>5 DEF StorePower, Insert
  <2> DEFINE row == PowerRow
  <2>2. row \in Row
    BY <2>1, TypePowerRow DEF SafeInv
  <2>3. /\ row.src = Head(power_msg_q) /\ row.value = {row.src}
        /\ row.gokart = mail[row.src].kart
    BY DEF PowerRow
  <2>4. row.src \in 1..Len(mail) /\ mail[row.src].topic = "power"
    BY <2>1, <2>3, Numbers DEF SafeInv
  <2> HIDE DEF row
  <2>5. \A v \in row.value : v <= row.src
    BY <2>3, <2>4
  <2>6. \A n \in 1..Len(table) :
           mail[table[n].src].topic = mail[row.src].topic => table[n].src < row.src
    BY <1>3, <2>1, <2>3, <2>4 DEF RowOK
  <2> QED
    BY <2>1, <2>2, <2>3, <2>4, <2>5, <2>6, RowWritten DEF row
<1>6. \/ UNCHANGED <<mail, table>>
      \/ \E m \in Traffic : GotMail(m)
      \/ (StoreGps \/ StoreSignal \/ StorePower) /\ ~UNCHANGED table
  BY Steps DEF SafeInv, Die, Quiet, ConvertStep, StoreGps, StoreSignal, PopCan,
               StorePower, Restart, intake
<1> QED
  BY <1>1, <1>2, <1>4, <1>5, <1>6

(***************************************************************************)
(* Whatever the traffic, the table is a log of rows in the order of        *)
(* arrival, each once, under the right kart, with values no newer than     *)
(* their message.                                                          *)
(***************************************************************************)
THEOREM SubscriberImplementsRowStore == Spec => ImplementsRowStore
<1>1. Init => Store!Init
  BY StoreInit
<1>2. SafeInv /\ [Next]_vars => [Store!Next]_Store!vars
  BY StoreStep
<1> QED
  BY <1>1, <1>2, Safe, PTL DEF Spec, ImplementsRowStore, Store!Spec

\* Every step keeps the rows of a topic in order.
LEMMA OrderStep ==
    ASSUME SafeInv, Store!ArrivalOrder, [Next]_vars
    PROVE  Store!ArrivalOrder'
<1>1. table \in Seq(Row)
  BY DEF SafeInv, TypeInv, TypeOK, TableType
<1>2. /\ \A n \in 1..Len(mail) : mail'[n] = mail[n]
      /\ \A n \in 1..Len(table) : table[n].src \in 1..Len(mail)
  BY MailSteps, MailGrows DEF SafeInv, Data, TableOK, RowOK
<1>3. \A n \in 1..Len(table) : mail'[table[n].src] = mail[table[n].src]
  BY <1>2
<1>4. CASE UNCHANGED table
  BY <1>3, <1>4 DEF Store!ArrivalOrder, Store!Topic, Store!Before
<1>5. CASE ~UNCHANGED table
  <2>1. Store!Write
    BY <1>5, StoreStep DEF Store!Next, Store!vars, Store!Receive
  <2>2. PICK row : table' = Append(table, row) /\ mail' = mail /\ Store!Admissible(row)
    BY <2>1 DEF Store!Write
  <2>3. Len(table) \in Nat /\ Len(table') = Len(table) + 1
    BY <1>1, <2>1 DEF Store!Write
  <2>4. table'[Len(table) + 1] = row /\ \A n \in 1..Len(table) : table'[n] = table[n]
    BY <1>1, <2>2
  <2> SUFFICES ASSUME NEW n \in 1..Len(table'), NEW m \in 1..n - 1,
                      Store!Topic(table[m])' = Store!Topic(table[n])'
               PROVE  Store!Before(table[m], table[n])'
    BY DEF Store!ArrivalOrder
  <2>5. m \in 1..Len(table) /\ table'[m] = table[m]
    BY <2>3, <2>4
  <2>6. CASE n = Len(table) + 1
    BY <2>2, <2>4, <2>5, <2>6 DEF Store!Admissible, Store!Topic, Store!Before
  <2>7. CASE n # Len(table) + 1
    <3>1. n \in 1..Len(table) /\ table'[n] = table[n]
      BY <2>3, <2>4, <2>7
    <3> QED
      BY <2>2, <2>5, <3>1 DEF Store!ArrivalOrder, Store!Topic, Store!Before
  <2> QED
    BY <2>6, <2>7
<1> QED
  BY <1>4, <1>5

(***************************************************************************)
(* Rows of a topic appear in the order of arrival, and no signal twice.    *)
(***************************************************************************)
THEOREM RowsAreInOrder == Spec => []RowsInOrder
<1>1. Init => Store!ArrivalOrder
  BY DEF Init, Store!ArrivalOrder
<1>2. SafeInv /\ Store!ArrivalOrder /\ [Next]_vars => Store!ArrivalOrder'
  BY OrderStep
<1> QED
  BY <1>1, <1>2, Safe, PTL DEF Spec, RowsInOrder

-------------------------------------------------------------------------------
(***************************************************************************)
(* The subscriber keeps the schedule of MainLoop.                          *)
(***************************************************************************)
\* A step that leaves the queues, the flag and the part of main's loop alone.
Idle == UNCHANGED <<Len(q), Len(power_msg_q), update, Phase>>

LEMMA IdleStutters == Idle => UNCHANGED Schedule!vars
BY DEF Idle, Schedule!vars

\* The part of main for each place in it.
LEMMA Phases ==
    /\ pc \in {"connect", "db", "exited"} => Phase = "down"
    /\ pc = "check" => Phase = "check"
    /\ pc \in {"reload", "clear"} => Phase = "reload"
    /\ pc \in {"can", "insert"} => Phase = "can"
    /\ pc = "power" => Phase = "power"
BY DEF Phase

LEMMA NextPhases ==
    /\ pc' \in {"connect", "db", "exited"} => Phase' = "down"
    /\ pc' = "check" => Phase' = "check"
    /\ pc' \in {"reload", "clear"} => Phase' = "reload"
    /\ pc' \in {"can", "insert"} => Phase' = "can"
    /\ pc' = "power" => Phase' = "power"
    /\ pc' = pc => Phase' = Phase
BY DEF Phase

\* A process that dies stops its loop.
LEMMA ScheduleDie == ASSUME Die PROVE Schedule!Stop
<1>1. Len(<<>>) = 0
  OBVIOUS
<1> QED
  BY <1>1, NextPhases DEF Die, Schedule!Stop

\* A new message waits in one of the queues.
LEMMA ScheduleMail ==
    ASSUME TypeInv, NEW m \in Traffic, GotMail(m)
    PROVE  Schedule!GotCan \/ Schedule!GotPower
<1>1. /\ Len(q) \in Nat /\ Len(power_msg_q) \in Nat /\ Len(mail) \in Nat
      /\ Len(q) + Len(power_msg_q) <= Len(mail) /\ Len(mail) < MaxMail
  BY DEF TypeInv, IntakeInv, IntakeType, QueuesOK, GotMail
<1>2. Len(q) < MaxMail /\ Len(power_msg_q) < MaxMail
  BY <1>1, BoundAssumption
<1>3. update' = update /\ Phase' = Phase
  BY NextPhases DEF GotMail
<1>4. CASE q' = Append(q, Len(mail) + 1) /\ UNCHANGED power_msg_q
  <2>1. Len(q') = Len(q) + 1
    BY <1>4 DEF TypeInv, IntakeInv, IntakeType
  <2> QED
    BY <1>2, <1>3, <1>4, <2>1 DEF Schedule!GotCan
<1>5. CASE power_msg_q' = Append(power_msg_q, Len(mail) + 1) /\ UNCHANGED q
  <2>1. Len(power_msg_q') = Len(power_msg_q) + 1
    BY <1>5 DEF TypeInv, IntakeInv, IntakeType
  <2> QED
    BY <1>2, <1>3, <1>5, <2>1 DEF Schedule!GotPower
<1> QED
  BY <1>4, <1>5 DEF GotMail

\* The front of a queue is served.
LEMMA ScheduleServe ==
    ASSUME TypeInv, PopCan \/ StorePower
    PROVE  Schedule!ServeCan \/ Schedule!ServePower
<1>1. CASE PopCan
  <2>1. /\ q # <<>> /\ q' = Tail(q) /\ pc = "insert" /\ pc' = "can"
        /\ UNCHANGED <<power_msg_q, update>>
    BY <1>1, Numbers DEF PopCan
  <2>2. Len(q') = Len(q) - 1 /\ Len(q) > 0
    BY <2>1, HeadTailProperties, EmptySeq DEF TypeInv, IntakeInv, IntakeType
  <2>3. Phase = "can" /\ Phase' = "can"
    BY <2>1, Phases, NextPhases
  <2> QED
    BY <2>1, <2>2, <2>3 DEF Schedule!ServeCan
<1>2. CASE StorePower
  <2>1. /\ power_msg_q # <<>> /\ power_msg_q' = Tail(power_msg_q)
        /\ pc = "power" /\ pc' = "power" /\ UNCHANGED <<q, update>>
    BY <1>2 DEF StorePower
  <2>2. Len(power_msg_q') = Len(power_msg_q) - 1 /\ Len(power_msg_q) > 0
    BY <2>1, HeadTailProperties, EmptySeq DEF TypeInv, IntakeInv, IntakeType
  <2>3. Phase = "power" /\ Phase' = "power"
    BY <2>1, Phases, NextPhases
  <2> QED
    BY <2>1, <2>2, <2>3 DEF Schedule!ServePower
<1> QED
  BY <1>1, <1>2

\* Main goes from one part of its loop to the next.
LEMMA ScheduleLoop ==
    ASSUME Loop, ~Die
    PROVE  Schedule!Loop \/ Idle \/ PopCan \/ StorePower
<1> USE Phases, NextPhases DEF Schedule!Loop
<1>1. Len(<<>>) = 0
  OBVIOUS
<1>2. CASE NoReload \/ FreeDbc
  BY <1>2 DEF NoReload, FreeDbc, Schedule!Check, intake
<1>3. CASE LoadDbc
  BY <1>3 DEF LoadDbc, Idle, intake
<1>4. CASE ClearUpdate
  BY <1>4 DEF ClearUpdate, Schedule!Reloaded, intake
<1>5. CASE Convert \/ StoreGps \/ StoreSignal
  BY <1>5 DEF Convert, StoreGps, StoreSignal, Idle, intake
<1>6. CASE CanDone
  BY <1>1, <1>6 DEF CanDone, Schedule!CanDone, intake
<1>7. CASE PowerDone
  BY <1>1, <1>7 DEF PowerDone, Schedule!PowerDone, intake
<1> QED
  BY <1>2, <1>3, <1>4, <1>5, <1>6, <1>7 DEF Loop, WalkOff, CrashOnFinished

\* Everything else is the timer, the start of the loop, or not its business.
LEMMA ScheduleRest ==
    ASSUME TypeInv, ~Die,
           \/ Connect \/ OpenDb \/ timer_handler \/ Handler \/ Environment
           \/ \E thread \in {"main", "mqtt"} : Sigint(thread)
    PROVE  Schedule!TimerExpires \/ Schedule!EnterLoop \/ Idle
<1> USE Phases, NextPhases
<1>1. CASE Connect
  BY <1>1 DEF Connect, Idle, intake
<1>2. CASE OpenDb
  BY <1>2 DEF OpenDb, Schedule!EnterLoop, intake
<1>3. CASE timer_handler
  <2>1. pc \in {"check", "reload", "clear", "can", "insert", "power"}
    BY <1>3 DEF timer_handler, TypeInv, TypeOK, ControlType
  <2> QED
    BY <1>3, <2>1 DEF timer_handler, Schedule!TimerExpires, intake
<1>4. CASE Handler
  BY <1>4 DEF Handler, HandlerDisconnect, HandlerFree, HandlerFinish, HandlerExit,
              Idle, intake
<1>5. CASE Environment
  BY <1>5 DEF Environment, EditDbc, DbLost, SessionLost, Kill, Restart, Idle, intake
<1>6. CASE \E thread \in {"main", "mqtt"} : Sigint(thread)
  BY <1>6 DEF Sigint, Idle, intake
<1> QED
  BY <1>1, <1>2, <1>3, <1>4, <1>5, <1>6

\* Every step is one of the schedule, or none of its business.
LEMMA ScheduleStep ==
    ASSUME TypeInv, [Next]_vars
    PROVE  [Schedule!Next]_Schedule!vars
<1> USE DEF Schedule!Next
<1>1. CASE UNCHANGED vars
  BY <1>1, IdleStutters, NextPhases DEF vars, intake, Idle
<1>2. CASE Die
  BY <1>2, ScheduleDie
<1>3. CASE \E m \in Traffic : GotMail(m)
  BY <1>3, ScheduleMail
<1>4. CASE PopCan \/ StorePower
  BY <1>4, ScheduleServe DEF Schedule!Loop
<1>5. CASE Loop /\ ~Die
  BY <1>4, <1>5, ScheduleLoop, IdleStutters
<1>6. CASE /\ \/ Connect \/ OpenDb \/ timer_handler \/ Handler \/ Environment
              \/ \E thread \in {"main", "mqtt"} : Sigint(thread)
           /\ ~Die
  BY <1>6, ScheduleRest, IdleStutters
<1> QED
  BY <1>1, <1>2, <1>3, <1>4, <1>5, <1>6 DEF Next, Main

(***************************************************************************)
(* Whatever it receives, converts and stores, main empties q before it     *)
(* looks at power_msg_q, empties that before it looks at the timer's flag, *)
(* and clears the flag at the end of a reload only.                        *)
(***************************************************************************)
THEOREM SubscriberImplementsMainLoop == Spec => ImplementsMainLoop
<1>1. Init => Schedule!Init
  <2>1. Len(<<>>) = 0
    OBVIOUS
  <2> QED
    BY <2>1, Phases DEF Init, Schedule!Init
<1>2. TypeInv /\ [Next]_vars => [Schedule!Next]_Schedule!vars
  BY ScheduleStep
<1> QED
  BY <1>1, <1>2, TypeInit, TypeStep, PTL DEF Spec, ImplementsMainLoop, Schedule!Spec
===============================================================================
