--------------------------- MODULE TelemetryProofs ---------------------------
(***************************************************************************)
(* Proofs about Telemetry: its types, and that the topic is a feed of the  *)
(* frames of the bus, for any buffer and any number of frames and faults.  *)
(***************************************************************************)
EXTENDS Telemetry, SequenceTheorems, TLAPS

USE DEF vars, connection, sniffer, script, library

(***************************************************************************)
(* Type correctness                                                        *)
(***************************************************************************)
Place == Nat \ {0}

LEMMA TypeInit == Init => TypeOK
<1>1. <<>> \in Seq(Nat \ {0}) /\ Len(<<>>) <= MaxRx
  BY RxAssumption, SMT
<1>2. Init => SnifferTypeOK
  BY <1>1 DEF Init, SnifferInit, SnifferTypeOK
<1>3. Init => ConnectionTypeOK
  BY DEF Init, ConnectionInit, ConnectionTypeOK
<1> QED
  BY <1>2, <1>3 DEF Init, TypeOK

(* Publishing keeps the types of the buffers.                              *)
LEMMA RecvTypes == TypeOK /\ Recv => SnifferTypeOK'
<1> SUFFICES ASSUME TypeOK, Recv PROVE SnifferTypeOK'
  OBVIOUS
<1>1. /\ rx \in Seq(Place) /\ rx # <<>> /\ outbox \in Seq(Place)
      /\ Len(rx) <= MaxRx
  BY DEF TypeOK, SnifferTypeOK, Recv, Place
<1>2. Head(rx) \in Place /\ Tail(rx) \in Seq(Place) /\ Len(Tail(rx)) = Len(rx) - 1
  BY <1>1, HeadTailProperties
<1>3. Append(outbox, Head(rx)) \in Seq(Place)
  BY <1>1, <1>2, AppendProperties
<1>4. Len(Tail(rx)) <= MaxRx
  BY <1>1, <1>2, RxAssumption, LenProperties, SMT
<1> QED
  BY <1>1, <1>2, <1>3, <1>4 DEF TypeOK, SnifferTypeOK, Recv, Publish, Place

LEMMA SendTypes == TypeOK /\ SendPacket => SnifferTypeOK'
<1> SUFFICES ASSUME TypeOK, SendPacket PROVE SnifferTypeOK'
  OBVIOUS
<1>1. outbox \in Seq(Place) /\ outbox # <<>> /\ topic \in Seq(Place)
  BY DEF TypeOK, SnifferTypeOK, SendPacket, Place
<1>2. Head(outbox) \in Place /\ Tail(outbox) \in Seq(Place)
  BY <1>1, HeadTailProperties
<1>3. Append(topic, Head(outbox)) \in Seq(Place)
  BY <1>1, <1>2, AppendProperties
<1> QED
  BY <1>1, <1>2, <1>3 DEF TypeOK, SnifferTypeOK, SendPacket, Place

LEMMA HearTypes ==
    ASSUME TypeOK, NEW n \in Place, Hear(n)
    PROVE  SnifferTypeOK'
<1>1. rx \in Seq(Place)
  BY DEF TypeOK, SnifferTypeOK, Place
<1>2. Append(rx, n) \in Seq(Place) /\ Len(Append(rx, n)) = Len(rx) + 1
  BY <1>1, AppendProperties
<1>3. Len(rx) < MaxRx => Len(Append(rx, n)) <= MaxRx
  BY <1>1, <1>2, RxAssumption, LenProperties, SMT
<1> QED
  BY <1>2, <1>3 DEF TypeOK, SnifferTypeOK, Hear, Place

(* The other steps of the client give their variables members of their     *)
(* types, or empty the buffers.                                            *)
LEMMA OtherTypes ==
    ASSUME SnifferTypeOK, NEW up \in BOOLEAN, NEW no \in BOOLEAN,
           \/ Check \/ Close \/ DialOk(up) \/ DialFails(up) \/ LoopStart
           \/ OpenBus(up) \/ BusFails(up) \/ RestartSniffer \/ Crash
           \/ Connack(no) \/ Disconnected \/ Reconnect(up) \/ LinkLost
    PROVE  SnifferTypeOK'
<1>1. <<>> \in Seq(Nat \ {0}) /\ Len(<<>>) <= MaxRx
  BY RxAssumption, SMT
<1> QED
  BY <1>1 DEF SnifferTypeOK, Check, Close, DialOk, DialFails, LoopStart, OpenBus,
     BusFails, Ended, RestartSniffer, Crash, Connack, Disconnected, Reconnect,
     LinkLost

LEMMA ConnectionTypes ==
    ASSUME ConnectionTypeOK,
           \/ ConnectionRuns \/ CoverageFound \/ PollTimesOut \/ CoverageLost
           \/ HangUp \/ UNCHANGED connection
    PROVE  ConnectionTypeOK'
  BY DEF ConnectionTypeOK, ConnectionRuns, Dial, Poll, RestartConnection,
     CoverageFound, PollTimesOut, CoverageLost, HangUp

LEMMA TypeStep == TypeOK /\ [Next]_vars => TypeOK'
<1> SUFFICES ASSUME TypeOK, [Next]_vars PROVE TypeOK'
  OBVIOUS
<1>0. /\ SnifferTypeOK /\ ConnectionTypeOK /\ can \in BOOLEAN /\ link \in BOOLEAN
      /\ carried \in Nat /\ faults \in Nat /\ TRUE \in BOOLEAN /\ FALSE \in BOOLEAN
  BY DEF TypeOK, ConnectionTypeOK
<1>1. UNCHANGED sniffer => SnifferTypeOK'
  BY <1>0 DEF SnifferTypeOK
<1>2. CASE Connecting
  BY <1>0, <1>1, <1>2, ConnectionTypes DEF Connecting, TypeOK
<1>3. CASE Sniffer
  <2>1. SnifferTypeOK'
    BY <1>0, <1>3, RecvTypes, OtherTypes DEF Sniffer
  <2>2. ConnectionTypeOK'
    BY <1>0, <1>3, ConnectionTypes DEF Sniffer
  <2> QED
    BY <1>0, <1>3, <2>1, <2>2 DEF Sniffer, TypeOK
<1>4. CASE Library
  <2>1. SnifferTypeOK'
    BY <1>0, <1>4, SendTypes, OtherTypes DEF Library
  <2>2. ConnectionTypeOK'
    BY <1>0, <1>4, ConnectionTypes DEF Library
  <2> QED
    BY <1>0, <1>4, <2>1, <2>2 DEF Library, TypeOK
<1>5. CASE Carry
  <2>1. carried' \in Nat /\ carried' \in Place
    BY <1>0, <1>5 DEF Carry, Place
  <2>2. SnifferTypeOK'
    BY <1>5, <2>1, HearTypes DEF Carry
  <2>3. ConnectionTypeOK'
    BY <1>0, <1>5, ConnectionTypes DEF Carry
  <2> QED
    BY <1>0, <1>5, <2>1, <2>2, <2>3 DEF Carry, TypeOK
<1>6. CASE Mend
  <2>1. SnifferTypeOK' /\ ConnectionTypeOK'
    BY <1>0, <1>1, <1>6, ConnectionTypes DEF Mend
  <2> QED
    BY <1>0, <1>6, <2>1 DEF Mend, TypeOK
<1>7. CASE Fault
  <2>1. SnifferTypeOK'
    BY <1>0, <1>1, <1>7, OtherTypes DEF Fault
  <2>2. ConnectionTypeOK'
    BY <1>0, <1>7, ConnectionTypes DEF Fault
  <2>3. can' \in BOOLEAN
    BY <1>0, <1>7 DEF Fault
  <2>4. faults' \in Nat /\ carried' \in Nat
    BY <1>0, <1>7 DEF Fault
  <2> QED
    BY <2>1, <2>2, <2>3, <2>4 DEF TypeOK
<1>8. CASE UNCHANGED vars
  BY <1>0, <1>1, <1>8, ConnectionTypes DEF TypeOK
<1> QED
  BY <1>2, <1>3, <1>4, <1>5, <1>6, <1>7, <1>8 DEF Next

(* Every reachable state has its types: the buffer of the CAN socket holds *)
(* no more than it can.                                                    *)
THEOREM TypeCorrect == Spec => []TypeOK
  BY TypeInit, TypeStep, PTL DEF Spec

(***************************************************************************)
(* The frames behind the topic: in the library and in the receive buffer   *)
(* they rise, and each of them is above those before it.                   *)
(***************************************************************************)
Elems(s) == {s[k] : k \in DOMAIN s}
Rising(s) == \A j, k \in DOMAIN s : j < k => s[j] < s[k]
Below(s, u) == \A x \in Elems(s), y \in Elems(u) : x < y

FeedInv ==
    /\ Rising(outbox) /\ Rising(rx)
    /\ Below(topic, outbox) /\ Below(topic, rx) /\ Below(outbox, rx)
    /\ \A s \in {topic, outbox, rx} : \A x \in Elems(s) : x <= carried

LEMMA OfEmpty == Elems(<<>>) = {} /\ Rising(<<>>)
  BY DEF Elems, Rising

LEMMA OfTail ==
    ASSUME NEW s \in Seq(Nat), s # <<>>, Rising(s)
    PROVE  /\ Rising(Tail(s))
           /\ Elems(Tail(s)) \subseteq Elems(s)
           /\ Head(s) \in Elems(s) /\ Head(s) \in Nat
           /\ \A y \in Elems(Tail(s)) : Head(s) < y
<1>1. /\ Tail(s) \in Seq(Nat) /\ Len(Tail(s)) = Len(s) - 1
      /\ \A k \in 1 .. Len(Tail(s)) : Tail(s)[k] = s[k + 1]
  BY HeadTailProperties
<1>2. /\ DOMAIN s = 1 .. Len(s) /\ Len(s) \in Nat /\ Len(s) >= 1
      /\ DOMAIN Tail(s) = 1 .. Len(s) - 1 /\ Head(s) = s[1] /\ Head(s) \in Nat
  BY <1>1, LenProperties, EmptySeq, HeadTailProperties
<1>3. \A k \in DOMAIN Tail(s) : k + 1 \in DOMAIN s /\ Tail(s)[k] = s[k + 1] /\ k \in Nat /\ 1 < k + 1
  BY <1>1, <1>2
<1>4. Rising(Tail(s))
  BY <1>3 DEF Rising
<1>5. 1 \in DOMAIN s
  BY <1>2
<1>6. ASSUME NEW y \in Elems(Tail(s)) PROVE y \in Elems(s) /\ Head(s) < y
  <2>1. PICK k \in DOMAIN Tail(s) : y = Tail(s)[k]
    BY DEF Elems
  <2>2. y = s[k + 1] /\ k + 1 \in DOMAIN s /\ 1 < k + 1
    BY <1>3, <2>1
  <2>3. s[1] < s[k + 1]
    BY <1>5, <2>2 DEF Rising
  <2> QED
    BY <1>2, <2>2, <2>3 DEF Elems
<1> QED
  BY <1>2, <1>4, <1>5, <1>6 DEF Elems

LEMMA OfAppend ==
    ASSUME NEW s \in Seq(Nat), NEW e \in Nat
    PROVE  /\ Elems(Append(s, e)) = Elems(s) \cup {e}
           /\ Rising(s) /\ (\A x \in Elems(s) : x < e) => Rising(Append(s, e))
<1>1. /\ Append(s, e) \in Seq(Nat) /\ Len(Append(s, e)) = Len(s) + 1
      /\ \A k \in 1 .. Len(s) : Append(s, e)[k] = s[k]
      /\ Append(s, e)[Len(s) + 1] = e
  BY AppendProperties
<1>2. /\ DOMAIN s = 1 .. Len(s) /\ Len(s) \in Nat
      /\ DOMAIN Append(s, e) = 1 .. Len(s) + 1
  BY <1>1, LenProperties
<1>3. Elems(Append(s, e)) = Elems(s) \cup {e}
  <2>1. ASSUME NEW k \in DOMAIN Append(s, e) PROVE Append(s, e)[k] \in Elems(s) \cup {e}
    <3>1. k \in DOMAIN s \/ k = Len(s) + 1
      BY <1>2
    <3> QED
      BY <1>1, <1>2, <3>1 DEF Elems
  <2>2. ASSUME NEW x \in Elems(s) PROVE x \in Elems(Append(s, e))
    <3>1. PICK k \in DOMAIN s : x = s[k]
      BY DEF Elems
    <3>2. k \in DOMAIN Append(s, e) /\ Append(s, e)[k] = x
      BY <1>1, <1>2, <3>1
    <3> QED
      BY <3>2 DEF Elems
  <2>3. Len(s) + 1 \in DOMAIN Append(s, e)
    BY <1>2
  <2>4. e \in Elems(Append(s, e))
    BY <1>1, <2>3 DEF Elems
  <2>5. Elems(Append(s, e)) \subseteq Elems(s) \cup {e}
    BY <2>1 DEF Elems
  <2> QED
    BY <2>2, <2>4, <2>5
<1>4. ASSUME Rising(s), \A x \in Elems(s) : x < e PROVE Rising(Append(s, e))
  <2> SUFFICES ASSUME NEW j \in DOMAIN Append(s, e), NEW k \in DOMAIN Append(s, e), j < k
               PROVE  Append(s, e)[j] < Append(s, e)[k]
    BY DEF Rising
  <2>1. j \in 1 .. Len(s)
    BY <1>2
  <2>2. Append(s, e)[j] = s[j] /\ s[j] \in Elems(s)
    BY <1>1, <1>2, <2>1 DEF Elems
  <2>3. CASE k = Len(s) + 1
    BY <1>1, <1>4, <2>2, <2>3
  <2>4. CASE k \in 1 .. Len(s)
    BY <1>1, <1>2, <1>4, <2>1, <2>4 DEF Rising
  <2> QED
    BY <1>2, <2>3, <2>4
<1> QED
  BY <1>3, <1>4

LEMMA FeedTypes ==
    ASSUME TypeOK
    PROVE  rx \in Seq(Nat) /\ outbox \in Seq(Nat) /\ topic \in Seq(Nat) /\ carried \in Nat
  BY SeqMonotonic DEF TypeOK, SnifferTypeOK

(* Steps that leave a buffer as it is or empty it.                         *)
Drops ==
    /\ rx' = rx \/ rx' = <<>>
    /\ outbox' = outbox \/ outbox' = <<>>
    /\ topic' = topic /\ carried' = carried

LEMMA DropStep == FeedInv /\ Drops => FeedInv'
  BY OfEmpty DEF FeedInv, Drops, Below

LEMMA RecvStep ==
    ASSUME TypeOK, FeedInv, Recv, carried' = carried
    PROVE  FeedInv'
<1>1. /\ rx # <<>> /\ rx' = Tail(rx) /\ topic' = topic
      /\ outbox' = outbox \/ outbox' = Append(outbox, Head(rx))
  BY DEF Recv, Publish
<1>2. /\ Rising(rx') /\ Elems(rx') \subseteq Elems(rx) /\ Head(rx) \in Elems(rx)
      /\ Head(rx) \in Nat /\ \A y \in Elems(rx') : Head(rx) < y
  BY <1>1, OfTail, FeedTypes DEF FeedInv
<1>3. CASE outbox' = outbox
  BY <1>1, <1>2, <1>3 DEF FeedInv, Below
<1>4. CASE outbox' = Append(outbox, Head(rx))
  <2>1. \A x \in Elems(outbox) : x < Head(rx)
    BY <1>2 DEF FeedInv, Below
  <2>2. Rising(outbox') /\ Elems(outbox') = Elems(outbox) \cup {Head(rx)}
    BY <1>2, <1>4, <2>1, OfAppend, FeedTypes DEF FeedInv
  <2> QED
    BY <1>1, <1>2, <2>2 DEF FeedInv, Below
<1> QED
  BY <1>1, <1>3, <1>4

LEMMA SendStep ==
    ASSUME TypeOK, FeedInv, SendPacket, carried' = carried
    PROVE  FeedInv'
<1>1. /\ outbox # <<>> /\ outbox' = Tail(outbox) /\ rx' = rx
      /\ topic' = topic \/ topic' = Append(topic, Head(outbox))
  BY DEF SendPacket
<1>2. /\ Rising(outbox') /\ Elems(outbox') \subseteq Elems(outbox)
      /\ Head(outbox) \in Elems(outbox) /\ Head(outbox) \in Nat
      /\ \A y \in Elems(outbox') : Head(outbox) < y
  BY <1>1, OfTail, FeedTypes DEF FeedInv
<1>3. Elems(topic') \subseteq Elems(topic) \cup {Head(outbox)}
  BY <1>1, <1>2, OfAppend, FeedTypes
<1> QED
  BY <1>1, <1>2, <1>3 DEF FeedInv, Below

LEMMA CarryStep ==
    ASSUME TypeOK, FeedInv, Carry
    PROVE  FeedInv'
<1>1. /\ carried' = carried + 1 /\ outbox' = outbox /\ topic' = topic
      /\ rx' = rx \/ rx' = Append(rx, carried')
  BY DEF Carry, Hear
<1>2. carried \in Nat /\ carried' \in Nat
  BY <1>1, FeedTypes
<1>3. /\ Elems(rx) \subseteq Nat /\ Elems(outbox) \subseteq Nat /\ Elems(topic) \subseteq Nat
  BY FeedTypes, ElementOfSeq, LenProperties DEF Elems
<1>4. \A s \in {topic, outbox, rx} : \A x \in Elems(s) : x < carried'
  BY <1>1, <1>2, <1>3 DEF FeedInv
<1>5. Rising(rx') /\ Elems(rx') \subseteq Elems(rx) \cup {carried'}
  <2>1. \A x \in Elems(rx) : x < carried'
    BY <1>4
  <2>2. Rising(rx) /\ rx \in Seq(Nat)
    BY FeedTypes DEF FeedInv
  <2>3. /\ Elems(Append(rx, carried')) = Elems(rx) \cup {carried'}
        /\ Rising(Append(rx, carried'))
    BY <1>2, <2>1, <2>2, OfAppend
  <2> QED
    BY <1>1, <2>2, <2>3
<1> QED
  BY <1>1, <1>2, <1>3, <1>4, <1>5 DEF FeedInv, Below

(* Every other step of the system is one that drops or changes nothing.    *)
LEMMA QuietSteps ==
    ASSUME Next, ~(Sniffer /\ Recv), ~(Library /\ SendPacket), ~Carry
    PROVE  Drops
<1>1. CASE Connecting \/ Mend
  BY <1>1 DEF Connecting, Mend, Drops
<1>2. CASE Sniffer
  BY <1>2 DEF Sniffer, Drops, Check, Close, DialOk, DialFails, LoopStart, OpenBus,
     BusFails, Ended, RestartSniffer
<1>3. CASE Library
  BY <1>3 DEF Library, Drops, Connack, Disconnected, Reconnect
<1>4. CASE Fault
  BY <1>4 DEF Fault, Drops, Crash, Ended, Connack, LinkLost
<1> QED
  BY <1>1, <1>2, <1>3, <1>4 DEF Next

LEMMA FeedStep == TypeOK /\ FeedInv /\ [Next]_vars => FeedInv'
<1> SUFFICES ASSUME TypeOK, FeedInv, [Next]_vars PROVE FeedInv'
  OBVIOUS
<1>1. CASE Sniffer /\ Recv
  BY <1>1, RecvStep DEF Sniffer
<1>2. CASE Library /\ SendPacket
  BY <1>2, SendStep DEF Library
<1>3. CASE Carry
  BY <1>3, CarryStep
<1>4. CASE UNCHANGED vars
  <2>1. Drops
    BY <1>4 DEF Drops
  <2> QED
    BY <2>1, DropStep
<1> QED
  BY <1>1, <1>2, <1>3, <1>4, QuietSteps, DropStep

(***************************************************************************)
(* Refinement                                                              *)
(***************************************************************************)
LEMMA NewestBelow ==
    ASSUME TypeOK, FeedInv, outbox # <<>>
    PROVE  Head(outbox) \in Feed!Newest + 1 .. carried
<1>1. Head(outbox) \in Elems(outbox) /\ Head(outbox) \in Nat
  BY OfTail, FeedTypes DEF FeedInv
<1>2. Head(outbox) <= carried /\ carried \in Nat
  BY <1>1, FeedTypes DEF FeedInv
<1>3. CASE topic = <<>>
  <2>1. Feed!Newest = 0 /\ Head(outbox) # 0
    BY <1>3, HeadTailProperties DEF Feed!Newest, TypeOK, SnifferTypeOK
  <2> QED
    BY <1>1, <1>2, <2>1
<1>4. CASE topic # <<>>
  <2>1. Len(topic) \in DOMAIN topic /\ topic[Len(topic)] \in Nat
    BY <1>4, FeedTypes, EmptySeq, LenProperties, ElementOfSeq
  <2>2. topic[Len(topic)] < Head(outbox)
    BY <1>1, <2>1 DEF FeedInv, Below, Elems
  <2> QED
    BY <1>1, <1>2, <1>4, <2>1, <2>2 DEF Feed!Newest
<1> QED
  BY <1>3, <1>4

LEMMA RefinementStep ==
    ASSUME TypeOK, FeedInv, [Next]_vars
    PROVE  [Feed!Carry \/ Feed!Arrive]_<<carried, topic>>
<1>1. CASE Sniffer /\ Recv
  BY <1>1 DEF Sniffer, Recv
<1>2. CASE Library /\ SendPacket
  <2>1. CASE topic' = topic
    BY <1>2, <2>1 DEF Library
  <2>2. CASE topic' = Append(topic, Head(outbox))
    BY <1>2, <2>2, NewestBelow DEF Library, SendPacket, Feed!Arrive
  <2> QED
    BY <1>2, <2>1, <2>2 DEF SendPacket
<1>3. CASE Carry
  BY <1>3 DEF Carry, Hear, Feed!Carry
<1>4. CASE Drops \/ UNCHANGED vars
  BY <1>4 DEF Drops
<1> QED
  BY <1>1, <1>2, <1>3, <1>4, QuietSteps

(* Whatever the surroundings do, the topic is a feed of the bus: its       *)
(* frames are frames of the bus, in order, none twice.                     *)
THEOREM TelemetryIsFeed == Spec => ImplementsFrameFeed
<1>1. Init => Feed!Init
  BY DEF Init, SnifferInit, Feed!Init
<1>2. Init => FeedInv
  BY OfEmpty DEF Init, SnifferInit, FeedInv, Below
<1>3. TypeOK /\ FeedInv /\ [Next]_vars => [Feed!Carry \/ Feed!Arrive]_<<carried, topic>>
  BY RefinementStep
<1> QED
  BY <1>1, <1>2, <1>3, TypeInit, TypeStep, FeedStep, PTL
     DEF Spec, ImplementsFrameFeed, Feed!Spec
==============================================================================
