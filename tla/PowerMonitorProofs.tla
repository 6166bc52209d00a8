-------------------------- MODULE PowerMonitorProofs --------------------------
(***************************************************************************)
(* For every bound and every set of events: the types of the power         *)
(* monitor, that it implements PowerReports, that losses are heard in      *)
(* turn, and that the server has been told OFF when the kart is shut down, *)
(* unless a report was lost or the connect loop asked for the shutdown.    *)
(***************************************************************************)
EXTENDS PowerMonitor, SequenceTheorems, TLAPS

\* The client accepts reports, or would have nothing left to deliver.
Knows == link \in {"up", "dead"} \/ (link = "down" /\ ~unsure)

\* There is a connection between the connect loop and the end; a retry is
\* only made without one; without one nothing is in flight.
LinkOK ==
    /\ pc \in {"connect", "off"} <=> link = "none"
    /\ pc \in {"reconnect", "republish"} => link = "down" /\ unsure
    /\ link \in {"none", "down"} => inflight = <<>>

\* The last report accepted is the one the program's place asks for.
SpeakOK ==
    Knows =>
        /\ pc = "publish" => Reports!MayFollow(sent, pubmsg)
        /\ pc = "wait" => sent # <<>> /\ sent[Len(sent)] = pubmsg /\ token = Len(sent)
        /\ pc = "sample" => sent # <<>> /\ sent[Len(sent)] # "LOST"
        /\ pc = "second" => sent # <<>> /\ sent[Len(sent)] = "LOST"
        /\ pc = "shutdown" => sent # <<>> /\ sent[Len(sent)] = "OFF"

\* What is in flight is the end of what was accepted, and follows what was
\* heard, or starts with the ON of this boot.
FlightOK ==
    /\ \A n \in 1..Len(inflight) : inflight[n] = Len(sent) - Len(inflight) + n
    /\ Reports!LastHeard(heard) + Len(inflight) <= Len(sent)
    /\ \A k \in 1..Len(heard) : heard[k] \in 1..Len(sent)

NextToHear(h, first, said, flying, where, msg) ==
    \/ said = h + flying
    \/ flying # 0 /\ first = "ON"
    \/ flying = 0 /\ where = "publish" /\ msg = "ON"

GapOK ==
    Knows => NextToHear(Reports!LastHeard(heard), sent[Len(sent) - Len(inflight) + 1],
                        Len(sent), Len(inflight), pc, pubmsg)

\* OFF has been heard where the shutdown is about to be asked, and from then on.
ToldOK ==
    ~unsure =>
        /\ halting /\ ~early =>
              ToldOff /\ pc # "connect" /\ ~(pc = "publish" /\ pubmsg = "ON")
        /\ pc = "shutdown" => ToldOff

IInv == TypeOK /\ LinkOK /\ SpeakOK /\ FlightOK /\ GapOK /\ ToldOK

-------------------------------------------------------------------------------
\* Lengths, and the last element heard.
LEMMA Logs ==
    ASSUME TypeOK
    PROVE  /\ Len(sent) \in Nat /\ Len(inflight) \in Nat /\ Len(heard) \in Nat
           /\ sent # <<>> => Len(sent) >= 1
           /\ inflight # <<>> => Len(inflight) >= 1
           /\ heard # <<>> => Len(heard) >= 1
           /\ inflight = <<>> => Len(inflight) = 0
           /\ heard = <<>> => Len(heard) = 0
           /\ sent \in Seq(Report) /\ inflight \in Seq(Nat) /\ heard \in Seq(Nat)
<1>1. sent \in Seq(Report) /\ inflight \in Seq(Nat) /\ heard \in Seq(Nat)
  BY DEF TypeOK
<1>2. QED
  BY <1>1, EmptySeq

\* The last report heard is a number.
LEMMA HeardNat ==
    ASSUME NEW log \in Seq(Nat)
    PROVE  Reports!LastHeard(log) \in Nat
<1>1. CASE log = <<>>
  BY <1>1 DEF Reports!LastHeard
<1>2. CASE log # <<>>
  <2>1. Len(log) \in 1..Len(log)
    BY <1>2, EmptySeq
  <2>2. log[Len(log)] \in Nat
    BY <2>1, ElementOfSeq
  <2>3. QED
    BY <1>2, <2>2 DEF Reports!LastHeard, Reports!Last
<1>3. QED
  BY <1>1, <1>2

\* What Append does to a log.
LEMMA AppendFacts ==
    ASSUME NEW S, NEW log \in Seq(S), NEW e \in S
    PROVE  /\ Append(log, e) \in Seq(S) /\ Append(log, e) # <<>>
           /\ Len(Append(log, e)) = Len(log) + 1
           /\ \A n \in 1..Len(log) : Append(log, e)[n] = log[n]
           /\ Append(log, e)[Len(log) + 1] = e
BY AppendProperties

\* After one more report is heard it is the last.
LEMMA HeardAppend ==
    ASSUME NEW log \in Seq(Nat), NEW k \in Nat
    PROVE  Reports!LastHeard(Append(log, k)) = k
BY AppendFacts DEF Reports!LastHeard, Reports!Last

\* A step that changes only the program's place, the report being published,
\* the token, the pin and the history flags keeps what the logs say.
LEMMA SameLogs ==
    ASSUME sent' = sent, inflight' = inflight, heard' = heard, FlightOK
    PROVE  FlightOK'
BY DEF FlightOK

\* OFF stays told while neither log changes.
LEMMA SameTold ==
    ASSUME sent' = sent, heard' = heard, ToldOff
    PROVE  ToldOff'
BY DEF ToldOff

\* Outside the connect loop a monitor that is sure knows its link.
LEMMA SureKnows ==
    ASSUME TypeOK, LinkOK, ~unsure, pc \notin {"connect", "off"}
    PROVE  Knows
BY DEF TypeOK, LinkOK, Knows

-------------------------------------------------------------------------------
\* The invariant holds before the first boot.
LEMMA InitInv == Init => IInv
<1> SUFFICES ASSUME Init PROVE IInv
  OBVIOUS
<1>1. /\ sent = <<>> /\ inflight = <<>> /\ heard = <<>>
      /\ flips = 0 /\ token = 0 /\ link = "none" /\ pc = "connect"
      /\ power \in BOOLEAN /\ gpio \in BOOLEAN /\ pubmsg = "ON"
      /\ halting = FALSE /\ unsure = FALSE /\ early = FALSE
  BY DEF Init
<1>2. <<>> \in Seq(Report) /\ <<>> \in Seq(Nat) /\ Len(sent) = 0
      /\ Len(inflight) = 0 /\ Len(heard) = 0
  BY <1>1, EmptySeq
<1>3. flips \in 0..MaxFlips /\ token \in 0..Len(sent)
  BY <1>1, <1>2, BoundAssumption
<1>4. TypeOK
  BY <1>1, <1>2, <1>3 DEF TypeOK, Report
<1>5. ~Knows
  BY <1>1 DEF Knows
<1>6. Reports!LastHeard(heard) = 0
  BY <1>1 DEF Reports!LastHeard
<1>7. FlightOK
  BY <1>1, <1>2, <1>6 DEF FlightOK
<1>8. QED
  BY <1>1, <1>4, <1>5, <1>7 DEF IInv, LinkOK, SpeakOK, GapOK, ToldOK

\* Connecting keeps it: the report ON is next.
LEMMA ConnectsInv == IInv /\ Connects => IInv'
<1> SUFFICES ASSUME IInv, Connects PROVE IInv'
  OBVIOUS
<1>1. /\ pc = "connect" /\ pc' = "publish" /\ link' = "up" /\ pubmsg' = "ON"
      /\ power' = power /\ flips' = flips /\ gpio' = gpio
      /\ sent' = sent /\ inflight' = inflight /\ heard' = heard
      /\ token' = token /\ halting' = halting
      /\ unsure' = unsure /\ early' = early
  BY DEF Connects, pin
<1>2. TypeOK /\ LinkOK /\ FlightOK /\ ToldOK
  BY DEF IInv
<1>3. TypeOK'
  BY <1>1, <1>2 DEF TypeOK, Report
<1>4. inflight = <<>>
  BY <1>1, <1>2 DEF LinkOK
<1>5. LinkOK'
  BY <1>1 DEF LinkOK
<1>6. SpeakOK'
  BY <1>1 DEF SpeakOK, Reports!MayFollow
<1>7. FlightOK'
  BY <1>1, <1>2, SameLogs
<1>8. Len(inflight') = 0
  BY <1>1, <1>2, <1>4, Logs
<1>9. GapOK'
  BY <1>1, <1>8 DEF GapOK, NextToHear
<1>10. ToldOK'
  BY <1>1, <1>2 DEF ToldOK
<1>11. QED
  BY <1>3, <1>5, <1>6, <1>7, <1>9, <1>10 DEF IInv

\* A failed connect, with or without shutdown, keeps it.
LEMMA ConnectFailsInv == IInv /\ ConnectFails => IInv'
<1> SUFFICES ASSUME IInv, ConnectFails PROVE IInv'
  OBVIOUS
<1>1. /\ pc = "connect" /\ pc' = pc /\ unsure' = unsure
      /\ halting' = (halting \/ ReadsZero) /\ early' = (early \/ ReadsZero)
      /\ power' = power /\ flips' = flips /\ gpio' = gpio
      /\ link' = link /\ sent' = sent /\ inflight' = inflight /\ heard' = heard
      /\ pubmsg' = pubmsg /\ token' = token
  BY DEF ConnectFails, pin, channel
<1>2. TypeOK /\ LinkOK /\ FlightOK /\ ToldOK
  BY DEF IInv
<1>3. TypeOK'
  BY <1>1, <1>2 DEF TypeOK, ReadsZero
<1>4. link = "none"
  BY <1>1, <1>2 DEF LinkOK
<1>5. ~Knows'
  BY <1>1, <1>4 DEF Knows
<1>6. LinkOK'
  BY <1>1, <1>2 DEF LinkOK
<1>7. FlightOK'
  BY <1>1, <1>2, SameLogs
<1>8. ToldOK'
  BY <1>1, <1>2 DEF ToldOK
<1>9. QED
  BY <1>3, <1>5, <1>6, <1>7, <1>8 DEF IInv, SpeakOK, GapOK

\* An accepted report goes to the end of sent and of inflight.
LEMMA AcceptedInv == IInv /\ Accepted => IInv'
<1> SUFFICES ASSUME IInv, Accepted PROVE IInv'
  OBVIOUS
<1>1. /\ pc \in {"publish", "republish"} /\ link \in {"up", "dead"}
      /\ sent' = Append(sent, pubmsg) /\ token' = Len(sent) + 1
      /\ inflight' = Append(inflight, Len(sent) + 1)
      /\ pc' = "wait"
      /\ power' = power /\ flips' = flips /\ gpio' = gpio
      /\ link' = link /\ heard' = heard /\ pubmsg' = pubmsg
      /\ halting' = halting /\ unsure' = unsure /\ early' = early
  BY DEF Accepted, pin
<1>2. TypeOK /\ LinkOK /\ SpeakOK /\ FlightOK /\ GapOK /\ ToldOK
  BY DEF IInv
<1>3. /\ Len(sent) \in Nat /\ Len(inflight) \in Nat /\ Len(heard) \in Nat
      /\ sent \in Seq(Report) /\ inflight \in Seq(Nat) /\ heard \in Seq(Nat)
      /\ pubmsg \in Report /\ Len(sent) + 1 \in Nat
  BY <1>2, Logs DEF TypeOK
<1>4. /\ sent' \in Seq(Report) /\ sent' # <<>> /\ Len(sent') = Len(sent) + 1
      /\ \A n \in 1..Len(sent) : sent'[n] = sent[n]
      /\ sent'[Len(sent) + 1] = pubmsg
  <2>1. /\ Append(sent, pubmsg) \in Seq(Report) /\ Append(sent, pubmsg) # <<>>
        /\ Len(Append(sent, pubmsg)) = Len(sent) + 1
        /\ \A n \in 1..Len(sent) : Append(sent, pubmsg)[n] = sent[n]
        /\ Append(sent, pubmsg)[Len(sent) + 1] = pubmsg
    BY <1>3, AppendFacts
  <2>2. sent' = Append(sent, pubmsg)
    BY <1>1
  <2> QED
    BY <2>1, <2>2, Zenon
<1>5. /\ inflight' \in Seq(Nat) /\ inflight' # <<>> /\ Len(inflight') = Len(inflight) + 1
      /\ \A n \in 1..Len(inflight) : inflight'[n] = inflight[n]
      /\ inflight'[Len(inflight) + 1] = Len(sent) + 1
  <2> DEFINE e == Len(sent) + 1
  <2>1. e \in Nat /\ inflight' = Append(inflight, e)
    BY <1>1, <1>3
  <2> HIDE DEF e
  <2>2. /\ Append(inflight, e) \in Seq(Nat) /\ Append(inflight, e) # <<>>
        /\ Len(Append(inflight, e)) = Len(inflight) + 1
        /\ \A n \in 1..Len(inflight) : Append(inflight, e)[n] = inflight[n]
        /\ Append(inflight, e)[Len(inflight) + 1] = e
    BY <2>1, <1>3, AppendFacts
  <2>3. QED
    BY <2>1, <2>2 DEF e
<1>6. token' \in 0..Len(sent')
  BY <1>1, <1>3, <1>4
<1>7. TypeOK'
  BY <1>1, <1>2, <1>4, <1>5, <1>6 DEF TypeOK
<1>8. pc = "publish"
  BY <1>1, <1>2 DEF LinkOK
<1>9. LinkOK'
  BY <1>1, <1>2 DEF LinkOK
<1>10. SpeakOK'
  BY <1>1, <1>4 DEF SpeakOK
<1>11. Reports!LastHeard(heard) \in Nat /\ Reports!LastHeard(heard)' = Reports!LastHeard(heard)
  BY <1>1, <1>3, HeardNat
<1>12. FlightOK'
  <2>1. ASSUME NEW n \in 1..Len(inflight')
        PROVE  inflight'[n] = Len(sent') - Len(inflight') + n
    <3>1. CASE n \in 1..Len(inflight)
      BY <3>1, <1>2, <1>3, <1>4, <1>5 DEF FlightOK
    <3>2. CASE n = Len(inflight) + 1
      BY <3>2, <1>3, <1>4, <1>5
    <3>3. n \in 1..Len(inflight) \/ n = Len(inflight) + 1
      BY <1>3, <1>5
    <3>4. QED
      BY <3>1, <3>2, <3>3
  <2>2. Reports!LastHeard(heard)' + Len(inflight') <= Len(sent')
    BY <1>2, <1>3, <1>4, <1>5, <1>11 DEF FlightOK
  <2>3. \A k \in 1..Len(heard') : heard'[k] \in 1..Len(sent')
    BY <1>1, <1>2, <1>3, <1>4 DEF FlightOK
  <2>4. QED
    BY <2>1, <2>2, <2>3 DEF FlightOK
<1>13. GapOK'
  <2> DEFINE h == Reports!LastHeard(heard)
             first == Len(sent) - Len(inflight) + 1
  <2>1. NextToHear(h, sent[first], Len(sent), Len(inflight), pc, pubmsg)
    BY <1>1, <1>2 DEF GapOK, Knows
  <2>2. Len(sent') - Len(inflight') + 1 = first /\ Len(inflight') # 0
    BY <1>3, <1>4, <1>5
  <2>3. CASE Len(sent) = h + Len(inflight)
    <3>1. Len(sent') = h + Len(inflight')
      BY <2>3, <1>3, <1>4, <1>5, <1>11
    <3>2. QED
      BY <3>1, <1>11 DEF GapOK, NextToHear
  <2>4. CASE Len(inflight) # 0 /\ sent[first] = "ON"
    <3>1. first \in 1..Len(sent)
      BY <2>4, <1>2, <1>3, <1>11 DEF FlightOK
    <3>2. sent'[first] = "ON"
      BY <3>1, <2>4, <1>4
    <3>3. QED
      BY <3>2, <2>2 DEF GapOK, NextToHear
  <2>5. CASE Len(inflight) = 0 /\ pubmsg = "ON"
    <3>1. first = Len(sent) + 1
      BY <2>5, <1>3
    <3>2. sent'[first] = "ON"
      BY <3>1, <2>5, <1>4
    <3>3. QED
      BY <3>2, <2>2 DEF GapOK, NextToHear
  <2>6. QED
    BY <2>1, <2>3, <2>4, <2>5 DEF NextToHear
<1>14. ToldOK'
  <2> SUFFICES ASSUME ~unsure, halting, ~early PROVE ToldOff'
    BY <1>1 DEF ToldOK
  <2>1. ToldOff /\ pubmsg # "ON"
    BY <1>2, <1>8 DEF ToldOK
  <2>2. PICK k \in 1..Len(heard) : sent[heard[k]] = "OFF"
                                   /\ \A j \in heard[k]..Len(sent) : sent[j] # "ON"
    BY <2>1 DEF ToldOff
  <2>3. heard[k] \in 1..Len(sent)
    BY <1>2 DEF FlightOK
  <2>4. sent'[heard[k]] = "OFF"
    BY <2>2, <2>3, <1>4
  <2>5. ASSUME NEW j \in heard[k]..Len(sent') PROVE sent'[j] # "ON"
    <3>1. j \in heard[k]..Len(sent) \/ j = Len(sent) + 1
      BY <2>3, <1>3, <1>4
    <3>2. CASE j \in heard[k]..Len(sent)
      <4>1. j \in 1..Len(sent)
        BY <3>2, <2>3, <1>3
      <4>2. QED
        BY <3>2, <4>1, <2>2, <1>4
    <3>3. CASE j = Len(sent) + 1
      BY <3>3, <2>1, <1>4
    <3>4. QED
      BY <3>1, <3>2, <3>3
  <2>6. QED
    BY <2>4, <2>5, <1>1 DEF ToldOff
<1>15. QED
  BY <1>7, <1>9, <1>10, <1>12, <1>13, <1>14 DEF IInv

\* A refused report leaves the logs alone and the boot unsure.
LEMMA RefusedInv == IInv /\ Refused => IInv'
<1> SUFFICES ASSUME IInv, Refused PROVE IInv'
  OBVIOUS
<1>1. /\ pc \in {"publish", "republish"} /\ link = "down"
      /\ pc' \in {"reconnect", "wait"} /\ unsure' = TRUE
      /\ power' = power /\ flips' = flips /\ gpio' = gpio
      /\ link' = link /\ sent' = sent /\ inflight' = inflight /\ heard' = heard
      /\ pubmsg' = pubmsg /\ token' = token /\ halting' = halting /\ early' = early
  BY DEF Refused, pin, channel
<1>2. TypeOK /\ LinkOK /\ FlightOK
  BY DEF IInv
<1>3. TypeOK'
  BY <1>1, <1>2 DEF TypeOK
<1>4. ~Knows'
  BY <1>1 DEF Knows
<1>5. LinkOK'
  BY <1>1, <1>2 DEF LinkOK
<1>6. FlightOK'
  BY <1>1, <1>2, SameLogs
<1>7. QED
  BY <1>1, <1>3, <1>4, <1>5, <1>6 DEF IInv, SpeakOK, GapOK, ToldOK

\* cli_reconnect touches no log, whether it returns or crashes.
LEMMA ReconnectInv == IInv /\ cli_reconnect => IInv'
<1> SUFFICES ASSUME IInv, cli_reconnect PROVE IInv'
  OBVIOUS
<1>1. /\ pc = "reconnect" /\ pc' \in {"republish", "crashed"}
      /\ power' = power /\ flips' = flips /\ gpio' = gpio
      /\ link' = link /\ sent' = sent /\ inflight' = inflight /\ heard' = heard
      /\ pubmsg' = pubmsg /\ token' = token /\ halting' = halting
      /\ unsure' = unsure /\ early' = early
  BY DEF cli_reconnect, pin, channel
<1>2. TypeOK /\ LinkOK /\ FlightOK
  BY DEF IInv
<1>3. TypeOK'
  BY <1>1, <1>2 DEF TypeOK
<1>4. link = "down" /\ unsure
  BY <1>1, <1>2 DEF LinkOK
<1>5. ~Knows'
  BY <1>1, <1>4 DEF Knows
<1>6. LinkOK'
  BY <1>1, <1>2, <1>4 DEF LinkOK
<1>7. FlightOK'
  BY <1>1, <1>2, SameLogs
<1>8. QED
  BY <1>1, <1>3, <1>4, <1>5, <1>6, <1>7 DEF IInv, SpeakOK, GapOK, ToldOK

\* Where the program goes after waiting for each report.
LEMMA AfterWaitPlace ==
    \A m \in Report : /\ AfterWait(m) \in {"sample", "second", "shutdown"}
                      /\ AfterWait(m) = "sample" => m \in {"ON", "RESTORED"}
                      /\ AfterWait(m) = "second" => m = "LOST"
                      /\ AfterWait(m) = "shutdown" => m = "OFF"
BY DEF AfterWait, Report

\* A completed wait: the report was delivered, or the boot is unsure.
LEMMA CompletedInv == IInv /\ Completed => IInv'
<1> SUFFICES ASSUME IInv, Completed PROVE IInv'
  OBVIOUS
<1>1. /\ pc = "wait" /\ (~InFlight(token) \/ link = "down") /\ pc' = AfterWait(pubmsg)
      /\ power' = power /\ flips' = flips /\ gpio' = gpio
      /\ link' = link /\ sent' = sent /\ inflight' = inflight /\ heard' = heard
      /\ pubmsg' = pubmsg /\ token' = token /\ halting' = halting
      /\ unsure' = unsure /\ early' = early
  BY DEF Completed, pin, channel
<1>2. TypeOK /\ LinkOK /\ SpeakOK /\ FlightOK /\ GapOK /\ ToldOK /\ pubmsg \in Report
  BY DEF IInv, TypeOK
<1>3. /\ pc' \in {"sample", "second", "shutdown"}
      /\ pc' = "sample" => pubmsg \in {"ON", "RESTORED"}
      /\ pc' = "second" => pubmsg = "LOST"
      /\ pc' = "shutdown" => pubmsg = "OFF"
  BY <1>1, <1>2, AfterWaitPlace
<1>4. TypeOK'
  BY <1>1, <1>2, <1>3 DEF TypeOK
<1>5. LinkOK'
  BY <1>1, <1>2, <1>3 DEF LinkOK
<1>6. Knows' <=> Knows
  BY <1>1 DEF Knows
<1>7. SpeakOK'
  BY <1>1, <1>2, <1>3, <1>6 DEF SpeakOK
<1>8. FlightOK'
  BY <1>1, <1>2, SameLogs
<1>9. GapOK'
  BY <1>1, <1>2, <1>6 DEF GapOK, NextToHear
<1>10. ASSUME ~unsure, pubmsg = "OFF" PROVE ToldOff
  <2>1. Knows
    BY <1>1, <1>2, <1>10, SureKnows
  <2>2. sent # <<>> /\ sent[Len(sent)] = "OFF" /\ token = Len(sent)
    BY <2>1, <1>1, <1>2, <1>10 DEF SpeakOK
  <2>3. /\ Len(sent) \in Nat /\ Len(sent) >= 1 /\ Len(inflight) \in Nat /\ Len(heard) \in Nat
        /\ inflight = <<>> => Len(inflight) = 0
        /\ heard # <<>> => Len(heard) >= 1
    BY <1>2, <2>2, Logs
  <2>4. Len(inflight) = 0
    <3>1. CASE link = "down"
      BY <3>1, <2>3, <1>2 DEF LinkOK
    <3>2. CASE ~InFlight(token)
      <4> SUFFICES ASSUME Len(inflight) # 0 PROVE FALSE
        OBVIOUS
      <4>1. Len(inflight) \in 1..Len(inflight)
        BY <2>3
      <4>2. inflight[Len(inflight)] = Len(sent) - Len(inflight) + Len(inflight)
        BY <4>1, <1>2 DEF FlightOK
      <4>3. inflight[Len(inflight)] = token
        BY <4>2, <2>2, <2>3
      <4>4. QED
        BY <4>1, <4>3, <3>2 DEF InFlight
    <3>3. QED
      BY <3>1, <3>2, <1>1
  <2>5. NextToHear(Reports!LastHeard(heard), sent[Len(sent) - Len(inflight) + 1],
                   Len(sent), Len(inflight), pc, pubmsg)
    BY <2>1, <1>2 DEF GapOK
  <2>6. Reports!LastHeard(heard) \in Nat
    BY <1>2, HeardNat, Logs
  <2>7. Len(sent) = Reports!LastHeard(heard)
    BY <2>3, <2>4, <2>5, <2>6, <1>1 DEF NextToHear
  <2>8. heard # <<>>
    BY <2>3, <2>7 DEF Reports!LastHeard
  <2>9. heard[Len(heard)] = Len(sent) /\ Len(heard) \in 1..Len(heard)
    BY <2>3, <2>7, <2>8 DEF Reports!LastHeard, Reports!Last
  <2>10. \A j \in Len(sent)..Len(sent) : sent[j] # "ON"
    BY <2>2, <2>3
  <2>11. QED
    BY <2>2, <2>9, <2>10 DEF ToldOff
<1>11. ToldOK'
  <2>1. ASSUME ~unsure, halting, ~early PROVE ToldOff'
    BY <2>1, <1>1, <1>2, SameTold DEF ToldOK
  <2>2. ASSUME ~unsure, pc' = "shutdown" PROVE ToldOff'
    BY <2>2, <1>1, <1>3, <1>10, SameTold
  <2>3. QED
    BY <2>1, <2>2, <1>1, <1>3 DEF ToldOK
<1>12. QED
  BY <1>4, <1>5, <1>7, <1>8, <1>9, <1>11 DEF IInv

\* A wait that timed out makes the boot unsure.
LEMMA TimedOutInv == IInv /\ TimedOut => IInv'
<1> SUFFICES ASSUME IInv, TimedOut PROVE IInv'
  OBVIOUS
<1>1. /\ pc = "wait" /\ InFlight(token) /\ pc' = AfterWait(pubmsg) /\ unsure' = TRUE
      /\ power' = power /\ flips' = flips /\ gpio' = gpio
      /\ link' = link /\ sent' = sent /\ inflight' = inflight /\ heard' = heard
      /\ pubmsg' = pubmsg /\ token' = token /\ halting' = halting /\ early' = early
  BY DEF TimedOut, pin, channel
<1>2. TypeOK /\ LinkOK /\ SpeakOK /\ FlightOK /\ GapOK /\ pubmsg \in Report
  BY DEF IInv, TypeOK
<1>3. /\ pc' \in {"sample", "second", "shutdown"}
      /\ pc' = "sample" => pubmsg \in {"ON", "RESTORED"}
      /\ pc' = "second" => pubmsg = "LOST"
      /\ pc' = "shutdown" => pubmsg = "OFF"
  BY <1>1, <1>2, AfterWaitPlace
<1>4. TypeOK'
  BY <1>1, <1>2, <1>3 DEF TypeOK
<1>5. LinkOK'
  BY <1>1, <1>2, <1>3 DEF LinkOK
<1>6. Knows' => Knows
  BY <1>1 DEF Knows
<1>7. SpeakOK'
  BY <1>1, <1>2, <1>3, <1>6 DEF SpeakOK
<1>8. FlightOK'
  BY <1>1, <1>2, SameLogs
<1>9. GapOK'
  BY <1>1, <1>2, <1>6 DEF GapOK, NextToHear
<1>10. QED
  BY <1>1, <1>4, <1>5, <1>7, <1>8, <1>9 DEF IInv, ToldOK

\* A sampled power loss keeps it: LOST follows ON or RESTORED.
LEMMA SampleInv == IInv /\ Sample => IInv'
<1> SUFFICES ASSUME IInv, Sample PROVE IInv'
  OBVIOUS
<1>1. /\ pc = "sample" /\ pc' = "publish" /\ pubmsg' = "LOST"
      /\ power' = power /\ flips' = flips /\ gpio' = gpio
      /\ link' = link /\ sent' = sent /\ inflight' = inflight /\ heard' = heard
      /\ token' = token /\ halting' = halting
      /\ unsure' = unsure /\ early' = early
  BY DEF Sample, pin, channel
<1>2. TypeOK /\ LinkOK /\ SpeakOK /\ FlightOK /\ GapOK /\ ToldOK
  BY DEF IInv
<1>3. TypeOK'
  BY <1>1, <1>2 DEF TypeOK, Report
<1>4. LinkOK'
  BY <1>1, <1>2 DEF LinkOK
<1>5. Knows' <=> Knows
  BY <1>1 DEF Knows
<1>6. SpeakOK'
  BY <1>1, <1>2, <1>5 DEF SpeakOK, Reports!MayFollow, Reports!Last
<1>7. FlightOK'
  BY <1>1, <1>2, SameLogs
<1>8. GapOK'
  BY <1>1, <1>2, <1>5 DEF GapOK, NextToHear
<1>9. ToldOff' <=> ToldOff
  BY <1>1 DEF ToldOff
<1>10. ToldOK'
  BY <1>1, <1>2, <1>9 DEF ToldOK
<1>11. QED
  BY <1>3, <1>4, <1>6, <1>7, <1>8, <1>10 DEF IInv

\* The second reading keeps it: OFF or RESTORED follows LOST.
LEMMA SecondInv == IInv /\ Second => IInv'
<1> SUFFICES ASSUME IInv, Second PROVE IInv'
  OBVIOUS
<1>1. /\ pc = "second" /\ pc' = "publish" /\ pubmsg' \in {"OFF", "RESTORED"}
      /\ power' = power /\ flips' = flips /\ gpio' = gpio
      /\ link' = link /\ sent' = sent /\ inflight' = inflight /\ heard' = heard
      /\ token' = token /\ halting' = halting
      /\ unsure' = unsure /\ early' = early
  BY DEF Second, pin, channel
<1>2. TypeOK /\ LinkOK /\ SpeakOK /\ FlightOK /\ GapOK /\ ToldOK
  BY DEF IInv
<1>3. TypeOK'
  BY <1>1, <1>2 DEF TypeOK, Report
<1>4. LinkOK'
  BY <1>1, <1>2 DEF LinkOK
<1>5. Knows' <=> Knows
  BY <1>1 DEF Knows
<1>6. SpeakOK'
  BY <1>1, <1>2, <1>5 DEF SpeakOK, Reports!MayFollow, Reports!Last
<1>7. FlightOK'
  BY <1>1, <1>2, SameLogs
<1>8. GapOK'
  BY <1>1, <1>2, <1>5 DEF GapOK, NextToHear
<1>9. ToldOff' <=> ToldOff
  BY <1>1 DEF ToldOff
<1>10. ToldOK'
  BY <1>1, <1>2, <1>9 DEF ToldOK
<1>11. QED
  BY <1>3, <1>4, <1>6, <1>7, <1>8, <1>10 DEF IInv

\* Asking for shutdown keeps it: OFF was told or the boot is unsure.
LEMMA ShutdownInv == IInv /\ Shutdown => IInv'
<1> SUFFICES ASSUME IInv, Shutdown PROVE IInv'
  OBVIOUS
<1>1. /\ pc = "shutdown" /\ pc' = "sample" /\ halting' = TRUE
      /\ power' = power /\ flips' = flips /\ gpio' = gpio
      /\ link' = link /\ sent' = sent /\ inflight' = inflight /\ heard' = heard
      /\ token' = token /\ pubmsg' = pubmsg /\ unsure' = unsure /\ early' = early
  BY DEF Shutdown, pin, channel
<1>2. TypeOK /\ LinkOK /\ SpeakOK /\ FlightOK /\ GapOK /\ ToldOK
  BY DEF IInv
<1>3. TypeOK'
  BY <1>1, <1>2 DEF TypeOK
<1>4. LinkOK'
  BY <1>1, <1>2 DEF LinkOK
<1>5. Knows' <=> Knows
  BY <1>1 DEF Knows
<1>6. SpeakOK'
  BY <1>1, <1>2, <1>5 DEF SpeakOK
<1>7. FlightOK'
  BY <1>1, <1>2, SameLogs
<1>8. GapOK'
  BY <1>1, <1>2, <1>5 DEF GapOK, NextToHear
<1>9. ToldOff' <=> ToldOff
  BY <1>1 DEF ToldOff
<1>10. ToldOK'
  BY <1>1, <1>2, <1>9 DEF ToldOK
<1>11. QED
  BY <1>3, <1>4, <1>6, <1>7, <1>8, <1>10 DEF IInv

\* The power pin is not part of it.
LEMMA PowerChangeInv == IInv /\ PowerChange => IInv'
<1> SUFFICES ASSUME IInv, PowerChange PROVE IInv'
  OBVIOUS
<1>1. /\ flips < MaxFlips /\ flips' = flips + 1 /\ power' = ~power /\ gpio' = gpio
      /\ link' = link /\ sent' = sent /\ inflight' = inflight /\ heard' = heard
      /\ pubmsg' = pubmsg /\ token' = token /\ pc' = pc
      /\ halting' = halting /\ unsure' = unsure /\ early' = early
  BY DEF PowerChange, channel
<1>2. TypeOK /\ LinkOK /\ SpeakOK /\ FlightOK /\ GapOK /\ ToldOK
  BY DEF IInv
<1>3. flips' \in 0..MaxFlips
  BY <1>1, <1>2, BoundAssumption DEF TypeOK
<1>4. TypeOK'
  BY <1>1, <1>2, <1>3 DEF TypeOK
<1>5. Knows' <=> Knows
  BY <1>1 DEF Knows
<1>6. LinkOK' /\ SpeakOK' /\ FlightOK' /\ GapOK'
  BY <1>1, <1>2, <1>5 DEF LinkOK, SpeakOK, FlightOK, GapOK
<1>7. ToldOff' <=> ToldOff
  BY <1>1 DEF ToldOff
<1>8. ToldOK'
  BY <1>1, <1>2, <1>7 DEF ToldOK
<1>9. QED
  BY <1>4, <1>6, <1>8 DEF IInv

\* What is delivered comes right after what was heard, or is this boot's ON.
LEMMA DeliverHears ==
    ASSUME IInv, Deliver
    PROVE  /\ Head(inflight) \in 1..Len(sent)
           /\ Head(inflight) = Len(sent) - Len(inflight) + 1
           /\ Head(inflight) > Reports!LastHeard(heard)
           /\ \/ Head(inflight) = Reports!LastHeard(heard) + 1
              \/ sent[Head(inflight)] = "ON"
<1>1. link = "up" /\ inflight # <<>>
  BY DEF Deliver
<1>2. TypeOK /\ FlightOK /\ GapOK
  BY DEF IInv
<1>3. /\ Len(sent) \in Nat /\ Len(inflight) \in Nat /\ Len(inflight) >= 1
      /\ Reports!LastHeard(heard) \in Nat /\ inflight \in Seq(Nat)
  BY <1>1, <1>2, Logs, HeardNat
<1>4. Head(inflight) = inflight[1]
  BY <1>1, <1>3
<1>5. Head(inflight) = Len(sent) - Len(inflight) + 1
  BY <1>2, <1>3, <1>4 DEF FlightOK
<1>6. Head(inflight) \in 1..Len(sent) /\ Head(inflight) > Reports!LastHeard(heard)
  BY <1>2, <1>3, <1>5 DEF FlightOK
<1>7. NextToHear(Reports!LastHeard(heard), sent[Len(sent) - Len(inflight) + 1],
                 Len(sent), Len(inflight), pc, pubmsg)
  BY <1>1, <1>2 DEF GapOK, Knows
<1>8. \/ Head(inflight) = Reports!LastHeard(heard) + 1
      \/ sent[Head(inflight)] = "ON"
  BY <1>3, <1>5, <1>7 DEF NextToHear
<1>9. QED
  BY <1>5, <1>6, <1>8

\* A delivery hears the oldest report in flight.
LEMMA DeliverInv == IInv /\ Deliver => IInv'
<1> SUFFICES ASSUME IInv, Deliver PROVE IInv'
  OBVIOUS
<1>1. /\ link = "up" /\ inflight # <<>> /\ heard' = Append(heard, Head(inflight))
      /\ inflight' = Tail(inflight)
      /\ power' = power /\ flips' = flips /\ gpio' = gpio
      /\ link' = link /\ sent' = sent /\ pubmsg' = pubmsg /\ token' = token /\ pc' = pc
      /\ halting' = halting /\ unsure' = unsure /\ early' = early
  BY DEF Deliver, pin
<1>2. TypeOK /\ LinkOK /\ SpeakOK /\ FlightOK /\ GapOK /\ ToldOK
  BY DEF IInv
<1>3. /\ Len(sent) \in Nat /\ Len(inflight) \in Nat /\ Len(inflight) >= 1
      /\ Len(heard) \in Nat /\ inflight \in Seq(Nat) /\ heard \in Seq(Nat)
  BY <1>1, <1>2, Logs
<1>4. /\ Head(inflight) \in 1..Len(sent) /\ Head(inflight) \in Nat
      /\ Head(inflight) = Len(sent) - Len(inflight) + 1
  BY <1>3, DeliverHears
<1>5. /\ heard' \in Seq(Nat) /\ Len(heard') = Len(heard) + 1
      /\ \A n \in 1..Len(heard) : heard'[n] = heard[n]
      /\ heard'[Len(heard) + 1] = Head(inflight)
  BY <1>1, <1>3, <1>4, AppendFacts
<1>6. /\ inflight' \in Seq(Nat) /\ Len(inflight') = Len(inflight) - 1
      /\ \A n \in 1..Len(inflight') : inflight'[n] = inflight[n + 1]
  BY <1>1, <1>3, HeadTailProperties
<1>7. TypeOK'
  BY <1>1, <1>2, <1>5, <1>6 DEF TypeOK
<1>8. LinkOK'
  BY <1>1, <1>2 DEF LinkOK
<1>9. Knows' <=> Knows
  BY <1>1 DEF Knows
<1>10. SpeakOK'
  BY <1>1, <1>2, <1>9 DEF SpeakOK
<1>11. Reports!LastHeard(heard)' = Head(inflight)
  BY <1>1, <1>3, <1>4, HeardAppend
<1>12. FlightOK'
  <2>1. ASSUME NEW n \in 1..Len(inflight')
        PROVE  inflight'[n] = Len(sent') - Len(inflight') + n
    <3>1. n + 1 \in 1..Len(inflight)
      BY <1>3, <1>6
    <3>2. inflight'[n] = Len(sent) - Len(inflight) + (n + 1)
      BY <3>1, <1>2, <1>6 DEF FlightOK
    <3>3. QED
      BY <3>2, <1>1, <1>3, <1>6
  <2>2. Reports!LastHeard(heard)' + Len(inflight') <= Len(sent')
    BY <1>1, <1>3, <1>4, <1>6, <1>11
  <2>3. ASSUME NEW k \in 1..Len(heard') PROVE heard'[k] \in 1..Len(sent')
    <3>1. CASE k \in 1..Len(heard)
      BY <3>1, <1>1, <1>2, <1>5 DEF FlightOK
    <3>2. CASE k = Len(heard) + 1
      BY <3>2, <1>1, <1>4, <1>5
    <3>3. QED
      BY <3>1, <3>2, <1>3, <1>5
  <2>4. QED
    BY <2>1, <2>2, <2>3 DEF FlightOK
<1>13. Len(sent') = Reports!LastHeard(heard)' + Len(inflight')
  BY <1>1, <1>3, <1>4, <1>6, <1>11
<1>14. GapOK'
  BY <1>13 DEF GapOK, NextToHear
<1>15. ASSUME ToldOff PROVE ToldOff'
  <2>1. PICK k \in 1..Len(heard) : sent[heard[k]] = "OFF"
                                   /\ \A j \in heard[k]..Len(sent) : sent[j] # "ON"
    BY <1>15 DEF ToldOff
  <2>2. k \in 1..Len(heard') /\ heard'[k] = heard[k]
    BY <1>3, <1>5
  <2>3. QED
    BY <2>1, <2>2, <1>1 DEF ToldOff
<1>16. ToldOK'
  BY <1>1, <1>2, <1>15 DEF ToldOK
<1>17. QED
  BY <1>7, <1>8, <1>10, <1>12, <1>14, <1>16 DEF IInv

\* A dead link keeps what is in flight.
LEMMA LinkDiesInv == IInv /\ LinkDies => IInv'
<1> SUFFICES ASSUME IInv, LinkDies PROVE IInv'
  OBVIOUS
<1>1. /\ link = "up" /\ link' = "dead"
      /\ power' = power /\ flips' = flips /\ gpio' = gpio
      /\ sent' = sent /\ inflight' = inflight /\ heard' = heard
      /\ pubmsg' = pubmsg /\ token' = token /\ pc' = pc
      /\ halting' = halting /\ unsure' = unsure /\ early' = early
  BY DEF LinkDies, pin
<1>2. TypeOK /\ LinkOK /\ SpeakOK /\ FlightOK /\ GapOK /\ ToldOK
  BY DEF IInv
<1>3. Knows
  BY <1>1 DEF Knows
<1>4. TypeOK'
  BY <1>1, <1>2 DEF TypeOK
<1>5. LinkOK'
  BY <1>1, <1>2 DEF LinkOK
<1>6. SpeakOK' /\ FlightOK' /\ GapOK'
  BY <1>1, <1>2, <1>3 DEF SpeakOK, FlightOK, GapOK
<1>7. ToldOff' <=> ToldOff
  BY <1>1 DEF ToldOff
<1>8. ToldOK'
  BY <1>1, <1>2, <1>7 DEF ToldOK
<1>9. QED
  BY <1>4, <1>5, <1>6, <1>8 DEF IInv

\* Dropping what is in flight makes the boot unsure if there was any.
LEMMA LinkNoticedInv == IInv /\ LinkNoticed => IInv'
<1> SUFFICES ASSUME IInv, LinkNoticed PROVE IInv'
  OBVIOUS
<1>1. /\ link = "dead" /\ link' = "down" /\ inflight' = <<>>
      /\ unsure' = (unsure \/ inflight # <<>>)
      /\ power' = power /\ flips' = flips /\ gpio' = gpio
      /\ sent' = sent /\ heard' = heard
      /\ pubmsg' = pubmsg /\ token' = token /\ pc' = pc
      /\ halting' = halting /\ early' = early
  BY DEF LinkNoticed, pin
<1>2. TypeOK /\ LinkOK /\ SpeakOK /\ FlightOK /\ GapOK /\ ToldOK
  BY DEF IInv
<1>3. Knows
  BY <1>1 DEF Knows
<1>4. /\ Len(sent) \in Nat /\ Len(inflight) \in Nat /\ Len(inflight') = 0
      /\ inflight' \in Seq(Nat) /\ Reports!LastHeard(heard) \in Nat
  BY <1>1, <1>2, Logs, HeardNat, EmptySeq
<1>5. TypeOK'
  BY <1>1, <1>2, <1>4 DEF TypeOK
<1>6. pc \notin {"connect", "off", "reconnect", "republish"}
  BY <1>1, <1>2 DEF LinkOK
<1>7. LinkOK'
  BY <1>1, <1>6 DEF LinkOK
<1>8. SpeakOK'
  BY <1>1, <1>2, <1>3 DEF SpeakOK
<1>9. FlightOK'
  BY <1>1, <1>2, <1>4 DEF FlightOK
<1>10. GapOK'
  <2>1. ~unsure' => inflight' = inflight
    BY <1>1
  <2>2. QED
    BY <2>1, <1>1, <1>2, <1>3 DEF GapOK, NextToHear, Knows
<1>11. ToldOff' <=> ToldOff
  BY <1>1 DEF ToldOff
<1>12. ToldOK'
  BY <1>1, <1>2, <1>11 DEF ToldOK
<1>13. QED
  BY <1>5, <1>7, <1>8, <1>9, <1>10, <1>12 DEF IInv

\* A halt drops what is in flight.
LEMMA HaltInv == IInv /\ Halt => IInv'
<1> SUFFICES ASSUME IInv, Halt PROVE IInv'
  OBVIOUS
<1>1. /\ pc' = "off" /\ link' = "none" /\ inflight' = <<>>
      /\ power' = power /\ flips' = flips /\ gpio' = gpio
      /\ sent' = sent /\ heard' = heard
      /\ pubmsg' = pubmsg /\ token' = token
      /\ halting' = halting /\ unsure' = unsure /\ early' = early
  BY DEF Halt, pin
<1>2. TypeOK /\ FlightOK /\ ToldOK
  BY DEF IInv
<1>3. /\ Len(sent) \in Nat /\ Len(inflight) \in Nat /\ Len(inflight') = 0
      /\ inflight' \in Seq(Nat) /\ Reports!LastHeard(heard) \in Nat
  BY <1>1, <1>2, Logs, HeardNat, EmptySeq
<1>4. TypeOK'
  BY <1>1, <1>2, <1>3 DEF TypeOK
<1>5. LinkOK' /\ ~Knows'
  BY <1>1 DEF LinkOK, Knows
<1>6. FlightOK'
  BY <1>1, <1>2, <1>3 DEF FlightOK
<1>7. ToldOff' <=> ToldOff
  BY <1>1 DEF ToldOff
<1>8. ToldOK'
  BY <1>1, <1>2, <1>7 DEF ToldOK
<1>9. QED
  BY <1>4, <1>5, <1>6, <1>8 DEF IInv, SpeakOK, GapOK

\* A boot starts with ON and nothing in flight.
LEMMA BootInv == IInv /\ Boot => IInv'
<1> SUFFICES ASSUME IInv, Boot PROVE IInv'
  OBVIOUS
<1>1. /\ pc = "off" /\ pc' = "connect" /\ gpio' \in BOOLEAN
      /\ pubmsg' = "ON" /\ token' = 0
      /\ halting' = FALSE /\ unsure' = FALSE /\ early' = FALSE
      /\ power' = power /\ flips' = flips
      /\ link' = link /\ sent' = sent /\ inflight' = inflight /\ heard' = heard
  BY DEF Boot, channel
<1>2. TypeOK /\ LinkOK /\ FlightOK
  BY DEF IInv
<1>3. token' \in 0..Len(sent')
  BY <1>1, <1>2, Logs
<1>4. TypeOK'
  BY <1>1, <1>2, <1>3 DEF TypeOK, Report
<1>5. link = "none"
  BY <1>1, <1>2 DEF LinkOK
<1>6. LinkOK' /\ ~Knows'
  BY <1>1, <1>2, <1>5 DEF LinkOK, Knows
<1>7. FlightOK'
  BY <1>1, <1>2, SameLogs
<1>8. QED
  BY <1>1, <1>4, <1>6, <1>7 DEF IInv, SpeakOK, GapOK, ToldOK

\* A step that changes nothing keeps it.
LEMMA StutterInv == IInv /\ UNCHANGED vars => IInv'
<1> SUFFICES ASSUME IInv, UNCHANGED vars PROVE IInv'
  OBVIOUS
<1>1. /\ power' = power /\ flips' = flips /\ gpio' = gpio
      /\ link' = link /\ sent' = sent /\ inflight' = inflight /\ heard' = heard
      /\ pubmsg' = pubmsg /\ token' = token /\ pc' = pc
      /\ halting' = halting /\ unsure' = unsure /\ early' = early
  BY DEF vars, pin, channel
<1>2. TypeOK' /\ LinkOK' /\ FlightOK'
  BY <1>1 DEF IInv, TypeOK, LinkOK, FlightOK
<1>3. Knows' <=> Knows
  BY <1>1 DEF Knows
<1>4. SpeakOK' /\ GapOK'
  BY <1>1, <1>3 DEF IInv, SpeakOK, GapOK
<1>5. ToldOff' <=> ToldOff
  BY <1>1 DEF ToldOff
<1>6. ToldOK'
  BY <1>1, <1>5 DEF IInv, ToldOK
<1>7. QED
  BY <1>2, <1>4, <1>6 DEF IInv

-------------------------------------------------------------------------------
\* The invariant behind the results below: what is in flight is the end of
\* what was said, follows what was heard, and fits the program's place.
THEOREM MonitorInvariant == Spec => []IInv
<1>1. Init => IInv
  BY InitInv
<1>2. IInv /\ [Next]_vars => IInv'
  BY ConnectsInv, ConnectFailsInv, AcceptedInv, RefusedInv, ReconnectInv, CompletedInv,
     TimedOutInv, SampleInv, SecondInv, ShutdownInv, PowerChangeInv, DeliverInv,
     LinkDiesInv, LinkNoticedInv, HaltInv, BootInv, StutterInv
     DEF Next, Monitor, Environment
<1>3. QED
  BY <1>1, <1>2, PTL DEF Spec

\* lost_power.cpp keeps the types of its state, whatever the pin, the link
\* and the broker do.
THEOREM MonitorTypes == Spec => []TypeOK
<1>1. IInv => TypeOK
  BY DEF IInv
<1>2. QED
  BY <1>1, MonitorInvariant, PTL

(***************************************************************************)
(* A boot that asks for the shutdown has told the server OFF, unless the   *)
(* connect loop asked, where nobody listens, or a report of this boot was  *)
(* refused, dropped with its session or given up unacknowledged.           *)
(***************************************************************************)
THEOREM ServerIsTold == Spec => []SilenceExplained
<1>1. IInv => SilenceExplained
  BY DEF IInv, ToldOK, SilenceExplained
<1>2. QED
  BY <1>1, MonitorInvariant, PTL

\* Publishing with one retry over a link that may die makes no report twice
\* or out of turn, and the server misses only the end of a boot.
THEOREM MonitorImplementsPowerReports == Spec => ImplementsPowerReports
<1>1. Init => Reports!Init
  BY DEF Init, Reports!Init
<1>2. IInv /\ [Next]_vars => [Reports!Next]_(Reports!vars)
  <2> SUFFICES ASSUME IInv, [Next]_vars PROVE [Reports!Next]_(Reports!vars)
    OBVIOUS
  <2>1. CASE Accepted
    <3>1. /\ pc \in {"publish", "republish"} /\ link \in {"up", "dead"}
          /\ sent' = Append(sent, pubmsg) /\ heard' = heard
      BY <2>1 DEF Accepted
    <3>2. pc = "publish" /\ Knows
      BY <3>1 DEF IInv, LinkOK, Knows
    <3>3. Reports!MayFollow(sent, pubmsg) /\ pubmsg \in Report
      BY <3>2 DEF IInv, SpeakOK, TypeOK
    <3>4. Reports!Say(pubmsg)
      BY <3>1, <3>3 DEF Reports!Say
    <3>5. QED
      BY <3>3, <3>4 DEF Reports!Next, Reports!Report, Report
  <2>2. CASE Deliver
    <3>1. heard' = Append(heard, Head(inflight)) /\ sent' = sent
      BY <2>2 DEF Deliver
    <3>2. /\ Head(inflight) \in 1..Len(sent)
          /\ Head(inflight) > Reports!LastHeard(heard)
          /\ \/ Head(inflight) = Reports!LastHeard(heard) + 1
             \/ sent[Head(inflight)] = "ON"
      BY <2>2, DeliverHears
    <3>3. Reports!Hear(Head(inflight))
      BY <3>1, <3>2 DEF Reports!Hear
    <3>4. QED
      BY <3>2, <3>3 DEF Reports!Next
  <2>3. CASE ~Accepted /\ ~Deliver
    <3>1. sent' = sent /\ heard' = heard
      BY <2>3 DEF Next, Monitor, Environment, Connects, ConnectFails, Refused, cli_reconnect,
            Completed, TimedOut, Sample, Second, Shutdown, PowerChange, LinkDies,
            LinkNoticed, Halt, Boot, vars, channel
    <3>2. QED
      BY <3>1 DEF Reports!vars
  <2>4. QED
    BY <2>1, <2>2, <2>3
<1>3. QED
  BY <1>1, <1>2, MonitorInvariant, PTL DEF Spec, ImplementsPowerReports, Reports!Spec

-------------------------------------------------------------------------------
\* What is said of a loss follows its LOST, and so does what is heard.
SaidInTurn ==
    \A n \in 1..Len(sent) :
        sent[n] \in {"OFF", "RESTORED"} => n > 1 /\ sent[n - 1] = "LOST"

TurnInv == SaidInTurn /\ LossesHeardInTurn

\* One more report that may follow keeps the turn.
LEMMA SayInTurn ==
    ASSUME IInv, TurnInv, NEW m \in Report, Reports!Say(m)
    PROVE  TurnInv'
<1>1. /\ sent' = Append(sent, m) /\ heard' = heard /\ Reports!MayFollow(sent, m)
      /\ sent \in Seq(Report) /\ heard \in Seq(Nat)
      /\ \A k \in 1..Len(heard) : heard[k] \in 1..Len(sent)
  BY DEF Reports!Say, IInv, TypeOK, FlightOK
<1>2. /\ Len(sent') = Len(sent) + 1 /\ sent'[Len(sent) + 1] = m /\ Len(sent) \in Nat
      /\ \A n \in 1..Len(sent) : sent'[n] = sent[n]
  BY <1>1
<1>3. ASSUME m \in {"OFF", "RESTORED"}
      PROVE  Len(sent) \in 1..Len(sent) /\ sent[Len(sent)] = "LOST"
  <2>1. sent # <<>> /\ sent[Len(sent)] = "LOST"
    BY <1>1, <1>3 DEF Reports!MayFollow, Reports!Last
  <2> QED
    BY <1>1, <2>1
<1>4. SaidInTurn'
  <2> SUFFICES ASSUME NEW n \in 1..Len(sent'), sent'[n] \in {"OFF", "RESTORED"}
               PROVE  n > 1 /\ sent'[n - 1] = "LOST"
    BY DEF SaidInTurn
  <2>1. CASE n = Len(sent) + 1
    BY <1>2, <1>3, <2>1
  <2>2. CASE n \in 1..Len(sent)
    <3>1. n > 1 /\ sent[n - 1] = "LOST"
      BY <1>2, <2>2 DEF TurnInv, SaidInTurn
    <3>2. n - 1 \in 1..Len(sent)
      BY <1>2, <2>2, <3>1
    <3> QED
      BY <1>2, <3>1, <3>2
  <2> QED
    BY <1>2, <2>1, <2>2
<1>5. Reports!HeardInTurn'
  <2>1. \A k \in 1..Len(heard) : sent'[heard[k]] = sent[heard[k]]
    BY <1>1, <1>2
  <2>2. \A k \in 1..Len(heard) : k > 1 => k - 1 \in 1..Len(heard)
    BY <1>1
  <2> QED
    BY <1>1, <2>1, <2>2 DEF TurnInv, LossesHeardInTurn, Reports!HeardInTurn
<1> QED
  BY <1>4, <1>5 DEF TurnInv, LossesHeardInTurn

\* So does the next report heard, or the ON of a later boot.
LEMMA HearInTurn ==
    ASSUME IInv, TurnInv, NEW h \in 1..Len(sent), Reports!Hear(h)
    PROVE  TurnInv'
<1>1. /\ heard' = Append(heard, h) /\ sent' = sent /\ h > Reports!LastHeard(heard)
      /\ h = Reports!LastHeard(heard) + 1 \/ sent[h] = "ON"
      /\ sent \in Seq(Report) /\ heard \in Seq(Nat)
      /\ \A k \in 1..Len(heard) : heard[k] \in 1..Len(sent)
  BY DEF Reports!Hear, IInv, TypeOK, FlightOK
<1>2. /\ Len(heard') = Len(heard) + 1 /\ heard'[Len(heard) + 1] = h /\ Len(heard) \in Nat
      /\ \A k \in 1..Len(heard) : heard'[k] = heard[k]
  BY <1>1
<1>3. SaidInTurn'
  BY <1>1 DEF TurnInv, SaidInTurn
<1>4. ASSUME NEW k \in 1..Len(heard'), NEW j \in 1..k - 1 PROVE heard'[j] < heard'[k]
  <2>1. j \in 1..Len(heard) /\ heard'[j] = heard[j] /\ heard[j] \in Nat
    BY <1>1, <1>2, <1>4
  <2>2. CASE k = Len(heard) + 1
    <3>1. heard # <<>> /\ Len(heard) \in 1..Len(heard)
      BY <1>2, <2>1
    <3>2. heard[j] <= heard[Len(heard)]
      <4>1. j = Len(heard) \/ j \in 1..Len(heard) - 1
        BY <1>2, <2>1
      <4>2. j \in 1..Len(heard) - 1 => heard[j] < heard[Len(heard)]
        BY <3>1 DEF TurnInv, LossesHeardInTurn, Reports!HeardInTurn
      <4>3. heard[Len(heard)] \in Nat
        BY <1>1, <3>1
      <4> QED
        BY <2>1, <4>1, <4>2, <4>3
    <3>3. Reports!LastHeard(heard) = heard[Len(heard)] /\ heard[Len(heard)] \in Nat
      BY <1>1, <3>1 DEF Reports!LastHeard, Reports!Last
    <3> QED
      BY <1>1, <1>2, <2>1, <2>2, <3>2, <3>3
  <2>3. CASE k \in 1..Len(heard)
    BY <1>2, <2>1, <2>3 DEF TurnInv, LossesHeardInTurn, Reports!HeardInTurn
  <2> QED
    BY <1>2, <2>2, <2>3
<1>5. ASSUME NEW k \in 1..Len(heard'), sent[heard'[k]] \in {"OFF", "RESTORED"}
      PROVE  k > 1 /\ heard'[k - 1] = heard'[k] - 1 /\ sent[heard'[k - 1]] = "LOST"
  <2>1. CASE k = Len(heard) + 1
    <3>1. h = Reports!LastHeard(heard) + 1 /\ h > 1 /\ sent[h - 1] = "LOST"
      BY <1>1, <1>2, <1>5, <2>1 DEF TurnInv, SaidInTurn
    <3>2. heard # <<>>
      BY <3>1 DEF Reports!LastHeard
    <3>3. Len(heard) \in 1..Len(heard) /\ Reports!LastHeard(heard) = heard[Len(heard)]
      BY <1>1, <3>2, EmptySeq DEF Reports!LastHeard, Reports!Last
    <3>4. heard'[Len(heard)] = h - 1
      BY <1>1, <1>2, <3>1, <3>3
    <3> QED
      BY <1>2, <2>1, <3>1, <3>3, <3>4
  <2>2. CASE k \in 1..Len(heard)
    <3>1. k > 1 /\ heard[k - 1] = heard[k] - 1 /\ sent[heard[k - 1]] = "LOST"
      BY <1>2, <1>5, <2>2 DEF TurnInv, LossesHeardInTurn, Reports!HeardInTurn
    <3>2. k - 1 \in 1..Len(heard)
      BY <1>2, <2>2, <3>1
    <3> QED
      BY <1>2, <2>2, <3>1, <3>2
  <2> QED
    BY <1>2, <2>1, <2>2
<1> QED
  BY <1>1, <1>3, <1>4, <1>5 DEF TurnInv, LossesHeardInTurn, Reports!HeardInTurn

(***************************************************************************)
(* A power loss that the server hears the end of is one it heard begin,    *)
(* for every power, link and sequence of boots.                            *)
(***************************************************************************)
THEOREM LossesAreHeardInTurn == Spec => []LossesHeardInTurn
<1>1. Init => TurnInv
  <2>1. Init => Len(sent) = 0 /\ Len(heard) = 0
    BY DEF Init
  <2> QED
    BY <2>1 DEF TurnInv, SaidInTurn, LossesHeardInTurn, Reports!HeardInTurn
<1>2. IInv /\ TurnInv /\ [Reports!Next]_(Reports!vars) => TurnInv'
  <2> SUFFICES ASSUME IInv, TurnInv, [Reports!Next]_(Reports!vars) PROVE TurnInv'
    OBVIOUS
  <2>1. CASE UNCHANGED Reports!vars
    BY <2>1 DEF Reports!vars, TurnInv, SaidInTurn, LossesHeardInTurn, Reports!HeardInTurn
  <2>2. CASE Reports!Next
    BY <2>2, SayInTurn, HearInTurn DEF Reports!Next, Reports!Report, Report
  <2> QED
    BY <2>1, <2>2
<1>3. TurnInv => LossesHeardInTurn
  BY DEF TurnInv
<1> QED
  BY <1>1, <1>2, <1>3, MonitorInvariant, MonitorImplementsPowerReports, PTL
     DEF Spec, ImplementsPowerReports, Reports!Spec

===============================================================================
