---------------------------- MODULE ReadConfProofs ----------------------------
(***************************************************************************)
(* Theorems about ReadConf, for any texts with any lengths, any keys and   *)
(* files of any size.                                                      *)
(***************************************************************************)
EXTENDS ReadConf, SequenceTheorems, FiniteSetTheorems, TLAPS

-------------------------------------------------------------------------------
(***************************************************************************)
(* The length of what a few texts make together.                           *)
(***************************************************************************)
\* The lengths of the first k texts, for each k.
IsLength(length, parts) ==
    length = [k \in 0..Len(parts) |->
                IF k = 0 THEN 0 ELSE length[k - 1] + LengthOf[parts[k]]]

LEMMA StrLenIs ==
    ASSUME NEW parts, NEW some, IsLength(some, parts)
    PROVE  \E length : IsLength(length, parts) /\ StrLen(parts) = length[Len(parts)]
BY DEF StrLen, IsLength

LEMMA StrLenEmpty == StrLen(<<>>) = 0
<1> DEFINE some == [k \in 0..0 |-> 0]
<1>1. Len(<<>>) = 0
  OBVIOUS
<1>2. IsLength(some, <<>>)
  BY <1>1 DEF IsLength
<1> HIDE DEF some
<1>3. PICK length : IsLength(length, <<>>) /\ StrLen(<<>>) = length[Len(<<>>)]
  BY <1>2, StrLenIs
<1> QED
  BY <1>1, <1>3 DEF IsLength

LEMMA StrLenOne == ASSUME NEW a \in Texts PROVE StrLen(<<a>>) = LengthOf[a]
<1> DEFINE some == [k \in 0..1 |-> IF k = 0 THEN 0 ELSE LengthOf[a]]
<1>1. Len(<<a>>) = 1 /\ <<a>>[1] = a /\ LengthOf[a] \in Nat
  BY TextsAssumption
<1>2. IsLength(some, <<a>>)
  BY <1>1 DEF IsLength
<1> HIDE DEF some
<1>3. PICK length : IsLength(length, <<a>>) /\ StrLen(<<a>>) = length[Len(<<a>>)]
  BY <1>2, StrLenIs
<1>4. length[0] = 0 /\ length[1] = length[0] + LengthOf[a]
  BY <1>1, <1>3 DEF IsLength
<1> QED
  BY <1>1, <1>3, <1>4

LEMMA StrLenThree ==
    ASSUME NEW a \in Texts, NEW b \in Texts, NEW c \in Texts
    PROVE  StrLen(<<a, b, c>>) = LengthOf[a] + LengthOf[b] + LengthOf[c]
<1> DEFINE parts == <<a, b, c>>
           some == [k \in 0..3 |->
                      CASE k = 0 -> 0
                        [] k = 1 -> LengthOf[a]
                        [] k = 2 -> LengthOf[a] + LengthOf[b]
                        [] k = 3 -> LengthOf[a] + LengthOf[b] + LengthOf[c]]
<1>1. Len(parts) = 3 /\ parts[1] = a /\ parts[2] = b /\ parts[3] = c
  OBVIOUS
<1>2. LengthOf[a] \in Nat /\ LengthOf[b] \in Nat /\ LengthOf[c] \in Nat
  BY TextsAssumption
<1> HIDE DEF parts
<1>3. ASSUME NEW k \in 0..3
      PROVE  some[k] = IF k = 0 THEN 0 ELSE some[k - 1] + LengthOf[parts[k]]
  <2>1. k = 0 \/ k = 1 \/ k = 2 \/ k = 3
    OBVIOUS
  <2> QED
    BY <1>1, <1>2, <2>1
<1>4. IsLength(some, parts)
  BY <1>1, <1>3 DEF IsLength
<1> HIDE DEF some
<1>5. PICK length : IsLength(length, parts) /\ StrLen(parts) = length[Len(parts)]
  BY <1>4, StrLenIs
<1>6. /\ length[0] = 0 /\ length[1] = length[0] + LengthOf[a]
      /\ length[2] = length[1] + LengthOf[b] /\ length[3] = length[2] + LengthOf[c]
  BY <1>1, <1>5 DEF IsLength
<1> QED
  BY <1>1, <1>2, <1>5, <1>6 DEF parts

-------------------------------------------------------------------------------
(***************************************************************************)
(* Keys, lines and texts.                                                  *)
(***************************************************************************)
LEMMA ReadsVariables ==
    ASSUME NEW r \in {"server", "kart"}
    PROVE  /\ Reads[r] \subseteq Variables
           /\ "client_id" \in Reads[r]
           /\ "topic" \in Reads[r] => r = "kart"
<1>1. DOMAIN Room = {"host", "ca_path", "cert_path", "key_path", "client_id", "topic",
                     "table_name"}
  BY DEF Room
<1> QED
  BY <1>1 DEF Reads, Variables, Strings

LEMMA ValueText == ASSUME NEW l \in Line PROVE Value(l) \in Texts /\ l.key \in Keys
BY TextsAssumption DEF Line, Value

\* The lines of a key, numbered by their place in the file.
LEMMA LinesInFile ==
    ASSUME TypeOK, NEW v
    PROVE  /\ LinesOf(v) \subseteq 1..Len(file)
           /\ \A k \in LinesOf(v) : file[k] \in Line
           /\ IsFiniteSet(LinesOf(v)) /\ Cardinality(LinesOf(v)) \in Nat
<1>1. file \in Seq(Line) /\ DOMAIN file = 1..Len(file) /\ Len(file) \in Nat
  BY DEF TypeOK
<1>2. LinesOf(v) \subseteq 1..Len(file)
  BY <1>1 DEF LinesOf, Lines
<1>3. IsFiniteSet(1..Len(file))
  BY <1>1, FS_Interval
<1>4. IsFiniteSet(LinesOf(v)) /\ Cardinality(LinesOf(v)) \in Nat
  BY <1>2, <1>3, FS_Subset, FS_CardinalityType
<1> QED
  BY <1>1, <1>2, <1>4

-------------------------------------------------------------------------------
(***************************************************************************)
(* The inductive invariant.                                                *)
(***************************************************************************)
\* A key that was read has a last line.
HasLast ==
    \A v \in Variables :
        LinesOf(v) # {} => \E k \in LinesOf(v) : \A j \in LinesOf(v) : j <= k

\* What the kart's topic begins with.
Start == IF LinesOf("topic") = {} THEN Gokart ELSE Value(file[LastOf("topic")])

\* The topic before the first line that names the kart, and after it.
TopicInv ==
    /\ reader = "server" => value["topic"] = <<>>
    /\ reader = "kart" /\ LinesOf("client_id") = {} => value["topic"] = <<Start>>
    /\ TopicNamesKart

ReadInv == TypeOK /\ HasLast /\ LastLineCounts /\ TopicInv /\ spilled = Spills(value)

\* The last line is the one with the largest number.
LEMMA LastIsMax ==
    ASSUME NEW v, NEW k \in LinesOf(v), \A j \in LinesOf(v) : j <= k, TypeOK
    PROVE  LastOf(v) = k
<1>1. LinesOf(v) \subseteq 1..Len(file) /\ Len(file) \in Nat
  BY LinesInFile DEF TypeOK
<1>2. LastOf(v) \in LinesOf(v) /\ \A j \in LinesOf(v) : j <= LastOf(v)
  BY DEF LastOf
<1>3. LastOf(v) <= k /\ k <= LastOf(v)
  BY <1>2
<1> QED
  BY <1>1, <1>2, <1>3

LEMMA LastIsLine ==
    ASSUME TypeOK, HasLast, NEW v \in Variables, LinesOf(v) # {}
    PROVE  /\ LastOf(v) \in LinesOf(v)
           /\ file[LastOf(v)] \in Line
           /\ LastOf(v) \in 1..Len(file)
<1>1. LastOf(v) \in LinesOf(v)
  BY DEF HasLast, LastOf
<1> QED
  BY <1>1, LinesInFile

\* A line that is read becomes the last of its key.
LEMMA LineAdded ==
    ASSUME TypeOK, TypeOK', NEW l \in Line, ReadLine(l), NEW v,
           v = l.key, v \in Reads[reader]
    PROVE  /\ LinesOf(v)' = LinesOf(v) \cup {Len(file) + 1}
           /\ Cardinality(LinesOf(v)') = Cardinality(LinesOf(v)) + 1
           /\ LastOf(v)' = Len(file) + 1
           /\ file'[Len(file) + 1] = l
           /\ \A j \in LinesOf(v)' : j <= Len(file) + 1
<1> DEFINE n == Len(file) + 1
<1>1. file \in Seq(Line) /\ file' = Append(file, l) /\ reader' = reader
  BY DEF TypeOK, ReadLine
<1>2. /\ Len(file) \in Nat /\ n \in Nat /\ DOMAIN file = 1..Len(file)
      /\ DOMAIN file' = 1..n /\ file'[n] = l
      /\ \A k \in 1..Len(file) : file'[k] = file[k]
  BY <1>1
<1>3. LinesOf(v)' = LinesOf(v) \cup {n}
  BY <1>1, <1>2 DEF LinesOf, Lines
<1>4. LinesOf(v) \subseteq 1..Len(file) /\ IsFiniteSet(LinesOf(v))
  BY LinesInFile
<1>5. n \notin LinesOf(v) /\ \A j \in LinesOf(v)' : j <= n
  BY <1>2, <1>3, <1>4
<1>6. Cardinality(LinesOf(v) \cup {n}) = Cardinality(LinesOf(v)) + 1
  BY <1>4, <1>5, FS_AddElement
<1>7. LastOf(v)' = n
  <2>1. n \in LinesOf(v)'
    BY <1>3
  <2>2. LastOf(v)' \in LinesOf(v)' /\ \A j \in LinesOf(v)' : j <= LastOf(v)'
    BY <1>5, <2>1 DEF LastOf
  <2>3. LastOf(v)' \in 1..n
    BY <1>2, <1>3, <1>4, <2>2
  <2>4. n <= LastOf(v)'
    BY <2>1, <2>2
  <2> QED
    BY <1>2, <2>3, <2>4
<1> QED
  BY <1>2, <1>3, <1>5, <1>6, <1>7

\* The lines of other keys stay what they are.
LEMMA LineElsewhere ==
    ASSUME TypeOK, NEW l \in Line, ReadLine(l), NEW v,
           v # l.key \/ v \notin Reads[reader]
    PROVE  /\ LinesOf(v)' = LinesOf(v)
           /\ LastOf(v)' = LastOf(v)
           /\ \A k \in LinesOf(v) : file'[k] = file[k]
<1> DEFINE n == Len(file) + 1
<1>1. file \in Seq(Line) /\ file' = Append(file, l) /\ reader' = reader
  BY DEF TypeOK, ReadLine
<1>2. /\ Len(file) \in Nat /\ n \in Nat /\ DOMAIN file = 1..Len(file)
      /\ DOMAIN file' = 1..n /\ file'[n] = l
      /\ \A k \in 1..Len(file) : file'[k] = file[k]
  BY <1>1
<1>3. LinesOf(v)' = LinesOf(v)
  BY <1>1, <1>2 DEF LinesOf, Lines
<1>4. LinesOf(v) \subseteq 1..Len(file)
  BY LinesInFile
<1> QED
  BY <1>2, <1>3, <1>4 DEF LastOf

\* What strcat makes of a beginning and two more texts.
LEMMA TopicJoined ==
    ASSUME NEW a \in Texts, NEW b \in Texts, NEW c \in Texts
    PROVE  <<a>> \o <<b, c>> = <<a, b, c>>
<1> DEFINE joined == <<a>> \o <<b, c>>
<1>1. <<a>> \in Seq(Texts) /\ <<b, c>> \in Seq(Texts) /\ <<a, b, c>> \in Seq(Texts)
  OBVIOUS
<1>2. /\ joined \in Seq(Texts) /\ Len(joined) = 3
      /\ joined[1] = a /\ joined[2] = b /\ joined[3] = c
  BY <1>1, ConcatProperties
<1> HIDE DEF joined
<1>3. \A k \in 1..3 : joined[k] = <<a, b, c>>[k]
  BY <1>2
<1> QED
  BY <1>1, <1>2, <1>3, SeqEqual DEF joined

-------------------------------------------------------------------------------
(***************************************************************************)
(* Every line that is read keeps the invariant.                            *)
(***************************************************************************)
LEMMA ReadInit == Init => ReadInv
<1> SUFFICES ASSUME Init PROVE ReadInv
  OBVIOUS
<1>1. file = <<>> /\ value = Initially(reader) /\ spilled = {} /\ reader \in {"server", "kart"}
  BY DEF Init
<1>2. {"client_id", "topic"} \subseteq Variables /\ Gokart \in Texts
  BY TextsAssumption DEF Variables, Room
<1>3. value \in [Variables -> Seq(Texts)]
  BY <1>1, <1>2 DEF Initially
<1>4. TypeOK
  BY <1>1, <1>3 DEF TypeOK
<1>5. \A v \in Variables : LinesOf(v) = {}
  BY <1>1 DEF LinesOf, Lines
<1>6. HasLast /\ LastLineCounts
  BY <1>1, <1>5 DEF HasLast, LastLineCounts, Initially
<1>7. TopicInv
  <2>1. Cardinality({}) = 0
    BY FS_EmptySet
  <2>2. value["topic"] = IF reader = "kart" THEN <<Gokart>> ELSE <<>>
    BY <1>1, <1>2 DEF Initially
  <2>3. LinesOf("topic") = {} /\ LinesOf("client_id") = {}
    BY <1>2, <1>5
  <2>4. Cardinality(LinesOf("client_id")) = 0
    BY <2>1, <2>3
  <2> QED
    BY <2>2, <2>3, <2>4 DEF TopicInv, TopicNamesKart, Start
<1>8. Spills(value) = {}
  <2> SUFFICES ASSUME NEW v \in DOMAIN Room PROVE ~(StrLen(value[v]) + 1 > Room[v])
    BY DEF Spills
  <2>1. value[v] = <<>> \/ (v = "topic" /\ value[v] = <<Gokart>>)
    BY <1>1 DEF Initially, Variables
  <2>2. CASE value[v] = <<>>
    BY <2>2, StrLenEmpty DEF Room
  <2>3. CASE v = "topic" /\ value[v] = <<Gokart>>
    BY <1>2, <2>3, StrLenOne, TextsAssumption DEF Room
  <2> QED
    BY <2>1, <2>2, <2>3
<1> QED
  BY <1>1, <1>4, <1>6, <1>7, <1>8 DEF ReadInv

\* What a line assigns, and to what.
LEMMA Assigned ==
    ASSUME TypeOK, NEW l \in Line, ReadLine(l)
    PROVE  /\ \A v \in Variables \ {"topic"} :
                 value'[v] = IF v = l.key /\ v \in Reads[reader]
                             THEN <<Value(l)>> ELSE value[v]
           /\ value'["topic"] =
                 IF l.key \notin Reads[reader] THEN value["topic"]
                 ELSE IF l.key = "topic" THEN <<Value(l)>>
                 ELSE IF l.key = "client_id" /\ reader = "kart"
                      THEN value["topic"] \o <<Value(l), Power>>
                      ELSE value["topic"]
           /\ value' \in [Variables -> Seq(Texts)]
<1>1. /\ value \in [Variables -> Seq(Texts)] /\ reader \in {"server", "kart"}
      /\ Value(l) \in Texts /\ Power \in Texts
  BY ValueText, TextsAssumption DEF TypeOK
<1>2. Reads[reader] \subseteq Variables /\ {"client_id", "topic"} \subseteq Variables
  BY <1>1, ReadsVariables DEF Variables, Room
<1>3. <<Value(l)>> \in Seq(Texts) /\ <<Value(l), Power>> \in Seq(Texts)
  BY <1>1
<1>4. CASE l.key \notin Reads[reader]
  <2>1. "client_id" \in Reads[reader]
    BY <1>1, ReadsVariables
  <2>2. value' = value
    BY <1>4, <2>1 DEF ReadLine, Assign
  <2> QED
    BY <1>1, <1>4, <2>2
<1>5. CASE l.key \in Reads[reader] /\ Set(l.key, Value(l))
           /\ ~(l.key = "client_id" /\ reader = "kart")
  BY <1>1, <1>2, <1>3, <1>5 DEF Set
<1>6. CASE l.key = "client_id" /\ reader = "kart" /\ NameKart(Value(l))
  <2>1. value["topic"] \o <<Value(l), Power>> \in Seq(Texts)
    BY <1>1, <1>2, <1>3
  <2>2. "client_id" \in Reads[reader]
    BY <1>1, ReadsVariables
  <2> QED
    BY <1>1, <1>2, <1>3, <1>6, <2>1, <2>2 DEF NameKart
<1> QED
  BY <1>4, <1>5, <1>6 DEF ReadLine, Assign

LEMMA TypeStep ==
    ASSUME TypeOK, NEW l \in Line, ReadLine(l)
    PROVE  TypeOK'
<1>1. file' \in Seq(Line) /\ reader' = reader /\ spilled' = Spills(value')
  BY DEF TypeOK, ReadLine
<1>2. spilled' \subseteq DOMAIN Room
  BY <1>1 DEF Spills
<1> QED
  BY <1>1, <1>2, Assigned DEF TypeOK

LEMMA LastStep ==
    ASSUME ReadInv, NEW l \in Line, ReadLine(l)
    PROVE  HasLast' /\ LastLineCounts'
<1>1. TypeOK /\ TypeOK' /\ HasLast /\ LastLineCounts /\ reader' = reader
  BY TypeStep DEF ReadInv, ReadLine
<1>2. ASSUME NEW v \in Variables, v = l.key, v \in Reads[reader]
      PROVE  /\ LinesOf(v)' # {} /\ \E k \in LinesOf(v)' : \A j \in LinesOf(v)' : j <= k
             /\ v # "topic" => value'[v] = <<Value(file'[LastOf(v)'])>>
  <2>1. /\ LinesOf(v)' = LinesOf(v) \cup {Len(file) + 1}
        /\ LastOf(v)' = Len(file) + 1 /\ file'[Len(file) + 1] = l
        /\ \A j \in LinesOf(v)' : j <= Len(file) + 1
    BY <1>1, <1>2, LineAdded
  <2>2. v # "topic" => value'[v] = <<Value(l)>>
    BY <1>1, <1>2, Assigned
  <2> QED
    BY <2>1, <2>2
<1>3. ASSUME NEW v \in Variables, v # l.key \/ v \notin Reads[reader]
      PROVE  /\ LinesOf(v)' = LinesOf(v)
             /\ LinesOf(v)' # {} => \E k \in LinesOf(v)' : \A j \in LinesOf(v)' : j <= k
             /\ v # "topic" =>
                  value'[v] = IF LinesOf(v)' = {} THEN <<>>
                              ELSE <<Value(file'[LastOf(v)'])>>
  <2>1. /\ LinesOf(v)' = LinesOf(v) /\ LastOf(v)' = LastOf(v)
        /\ \A k \in LinesOf(v) : file'[k] = file[k]
    BY <1>1, <1>3, LineElsewhere
  <2>2. ASSUME v # "topic" PROVE value'[v] = value[v]
    <3>1. value'[v] = IF v = l.key /\ v \in Reads[reader] THEN <<Value(l)>> ELSE value[v]
      BY <1>1, <2>2, Assigned
    <3> QED
      BY <1>3, <3>1
  <2>3. v # "topic" => value[v] = IF LinesOf(v) = {} THEN <<>>
                                  ELSE <<Value(file[LastOf(v)])>>
    BY <1>1 DEF LastLineCounts
  <2>4. LinesOf(v) # {} => LastOf(v) \in LinesOf(v)
    BY <1>1, LastIsLine
  <2>5. LinesOf(v) # {} => file'[LastOf(v)] = file[LastOf(v)]
    BY <2>1, <2>4
  <2>6. LinesOf(v) # {} => \E k \in LinesOf(v) : \A j \in LinesOf(v) : j <= k
    BY <1>1 DEF HasLast
  <2> QED
    BY <2>1, <2>2, <2>3, <2>5, <2>6
<1>4. HasLast'
  BY <1>2, <1>3 DEF HasLast
<1>5. LastLineCounts'
  BY <1>2, <1>3 DEF LastLineCounts
<1> QED
  BY <1>4, <1>5

\* The place where the topic of the kart is put together.
LEMMA TopicStep ==
    ASSUME ReadInv, NEW l \in Line, ReadLine(l)
    PROVE  TopicInv'
<1> DEFINE names == LinesOf("client_id")
           topics == LinesOf("topic")
           n == Len(file) + 1
<1>1. /\ TypeOK /\ TypeOK' /\ HasLast /\ TopicInv /\ reader' = reader
      /\ reader \in {"server", "kart"} /\ Len(file) \in Nat
  BY TypeStep DEF ReadInv, ReadLine, TypeOK
<1>2. /\ {"client_id", "topic"} \subseteq Variables /\ "client_id" \in Reads[reader]
      /\ "topic" \in Reads[reader] => reader = "kart"
  BY <1>1, ReadsVariables DEF Variables, Room
<1>3. CASE reader = "server"
  BY <1>1, <1>2, <1>3, Assigned DEF TopicInv, TopicNamesKart
<1>4. ASSUME reader = "kart", l.key \notin {"client_id", "topic"} \/ l.key \notin Reads[reader]
      PROVE  TopicInv'
  <2>1. value'["topic"] = value["topic"]
    BY <1>1, <1>4, Assigned
  <2>2. names' = names /\ LastOf("client_id")' = LastOf("client_id")
        /\ \A k \in names : file'[k] = file[k]
    BY <1>1, <1>2, <1>4, LineElsewhere
  <2>3. topics' = topics /\ LastOf("topic")' = LastOf("topic")
        /\ \A k \in topics : file'[k] = file[k]
    BY <1>1, <1>2, <1>4, LineElsewhere
  <2>4. names # {} => file'[LastOf("client_id")] = file[LastOf("client_id")]
    BY <1>1, <1>2, <2>2, LastIsLine
  <2>5. topics # {} => file'[LastOf("topic")] = file[LastOf("topic")]
    BY <1>1, <1>2, <2>3, LastIsLine
  <2>6. Cardinality(names) = 1 => names # {}
    BY FS_EmptySet
  <2>7. Start' = Start
    BY <2>3, <2>5 DEF Start
  <2> HIDE DEF names, topics
  <2> QED
    BY <1>1, <1>4, <2>1, <2>2, <2>3, <2>4, <2>5, <2>6, <2>7
       DEF TopicInv, TopicNamesKart, Start, names, topics
<1>5. ASSUME reader = "kart", l.key = "topic", "topic" \in Reads[reader]
      PROVE  TopicInv'
  <2>1. value'["topic"] = <<Value(l)>>
    BY <1>1, <1>5, Assigned
  <2>2. names' = names /\ LastOf("client_id")' = LastOf("client_id")
    BY <1>1, <1>5, LineElsewhere
  <2>3. topics' # {} /\ LastOf("topic")' = n /\ file'[n] = l
    BY <1>1, <1>5, LineAdded
  <2>4. Start' = Value(l)
    BY <2>3 DEF Start
  <2>5. Cardinality(names) = 1 => LastOf("client_id") < n
    <3>1. Cardinality(names) = 1 => names # {}
      BY FS_EmptySet
    <3> QED
      BY <1>1, <1>2, <3>1, LastIsLine
  <2> HIDE DEF names, topics
  <2> QED
    BY <1>1, <1>5, <2>1, <2>2, <2>3, <2>4, <2>5
       DEF TopicInv, TopicNamesKart, Start, names, topics
<1>6. ASSUME reader = "kart", l.key = "client_id"
      PROVE  TopicInv'
  <2>1. value'["topic"] = value["topic"] \o <<Value(l), Power>>
    BY <1>1, <1>2, <1>6, Assigned
  <2>2. /\ names' = names \cup {n} /\ Cardinality(names') = Cardinality(names) + 1
        /\ LastOf("client_id")' = n /\ file'[n] = l
    BY <1>1, <1>2, <1>6, LineAdded
  <2>3. topics' = topics /\ LastOf("topic")' = LastOf("topic")
        /\ \A k \in topics : file'[k] = file[k]
    BY <1>1, <1>6, LineElsewhere
  <2>4. topics # {} => /\ file'[LastOf("topic")] = file[LastOf("topic")]
                       /\ ~(LastOf("topic") > n)
    BY <1>1, <1>2, <2>3, LastIsLine
  <2>5. Start' = Start
    BY <2>3, <2>4 DEF Start
  <2>6. ASSUME Cardinality(names') = 1
        PROVE  value'["topic"] = <<Start, Value(l), Power>>
    <3>1. IsFiniteSet(names) /\ Cardinality(names) \in Nat
      BY <1>1, LinesInFile
    <3>2. Cardinality(names) = 0
      BY <2>2, <2>6, <3>1
    <3>3. names = {}
      BY <3>1, <3>2, FS_EmptySet
    <3>4. value["topic"] = <<Start>>
      BY <1>1, <1>6, <3>3 DEF TopicInv
    <3>5. Start \in Texts /\ Value(l) \in Texts /\ Power \in Texts
      BY <1>1, <1>2, LastIsLine, ValueText, TextsAssumption DEF Start
    <3> QED
      BY <2>1, <3>4, <3>5, TopicJoined
  <2> HIDE DEF names, topics
  <2>7. names' # {}
    BY <2>2
  <2> QED
    BY <1>1, <1>6, <2>2, <2>3, <2>4, <2>5, <2>6, <2>7
       DEF TopicInv, TopicNamesKart, Start, names, topics
<1> QED
  BY <1>1, <1>2, <1>3, <1>4, <1>5, <1>6

LEMMA ReadStep == ReadInv /\ [Next]_vars => ReadInv'
<1> SUFFICES ASSUME ReadInv, [Next]_vars PROVE ReadInv'
  OBVIOUS
<1>1. CASE UNCHANGED vars
  <2>1. UNCHANGED <<reader, file, value, spilled>>
    BY <1>1 DEF vars
  <2>2. TypeOK' /\ (spilled = Spills(value))'
    BY <2>1 DEF ReadInv, TypeOK, Spills
  <2>3. HasLast' /\ LastLineCounts'
    BY <2>1 DEF ReadInv, HasLast, LastLineCounts, LinesOf, Lines, LastOf
  <2>4. TopicInv'
    BY <2>1 DEF ReadInv, TopicInv, TopicNamesKart, Start, LinesOf, Lines, LastOf
  <2> QED
    BY <2>2, <2>3, <2>4 DEF ReadInv
<1>2. ASSUME NEW l \in Line, ReadLine(l) PROVE ReadInv'
  <2>1. spilled' = Spills(value')
    BY <1>2 DEF ReadLine
  <2> QED
    BY <1>2, <2>1, TypeStep, LastStep, TopicStep DEF ReadInv
<1> QED
  BY <1>1, <1>2 DEF Next

LEMMA Reading == Spec => []ReadInv
BY ReadInit, ReadStep, PTL DEF Spec

(***************************************************************************)
(* Every variable holds texts, and only arrays can be overrun.             *)
(***************************************************************************)
THEOREM TypeCorrect == Spec => []TypeOK
<1>1. ReadInv => TypeOK
  BY DEF ReadInv
<1> QED
  BY <1>1, Reading, PTL

(***************************************************************************)
(* The last line of a key counts, for server.conf files of any size in any *)
(* order, with keys that only the other program reads in between.          *)
(***************************************************************************)
THEOREM LastLineAlwaysCounts == Spec => []LastLineCounts
<1>1. ReadInv => LastLineCounts
  BY DEF ReadInv
<1> QED
  BY <1>1, Reading, PTL

(***************************************************************************)
(* A file that names the kart once gives the topic gokart/<name>/power,    *)
(* unless it has a topic line, whose place decides what becomes of it.     *)
(***************************************************************************)
THEOREM TopicAlwaysNamesKart == Spec => []TopicNamesKart
<1>1. ReadInv => TopicNamesKart
  BY DEF ReadInv, TopicInv
<1> QED
  BY <1>1, Reading, PTL

\* In a usual file each text fits its array; the topic, which is made of three,
\* only when the name is not too long.
LEMMA UsualFits ==
    ASSUME ReadInv, UsualFile, NEW v \in DOMAIN Room
    PROVE  StrLen(value[v]) + 1 > Room[v] <=> v = "topic" /\ LongName
<1>1. TypeOK /\ HasLast /\ LastLineCounts /\ TopicInv
  BY DEF ReadInv
<1>2. v \in Variables /\ {"client_id", "topic"} \subseteq Variables
      /\ Room[v] \in Nat /\ Room[v] > 0 /\ Room["topic"] = 50
  BY DEF Variables, Room
<1>3. CASE v # "topic" /\ LinesOf(v) # {}
  <2>1. LastOf(v) \in LinesOf(v) /\ file[LastOf(v)] \in Line
    BY <1>1, <1>2, <1>3, LastIsLine
  <2>2. LastOf(v) \in Lines /\ file[LastOf(v)].key = v
    BY <2>1 DEF LinesOf
  <2>3. LengthOf[Value(file[LastOf(v)])] < Room[v]
    BY <2>2 DEF UsualFile, Fits
  <2>4. Value(file[LastOf(v)]) \in Texts
    BY <2>1, ValueText
  <2>5. value[v] = <<Value(file[LastOf(v)])>>
    BY <1>1, <1>2, <1>3 DEF LastLineCounts
  <2>6. StrLen(value[v]) = LengthOf[Value(file[LastOf(v)])]
    BY <2>4, <2>5, StrLenOne
  <2>7. LengthOf[Value(file[LastOf(v)])] \in Nat
    BY <2>4, TextsAssumption
  <2> QED
    BY <1>2, <1>3, <2>3, <2>6, <2>7
<1>4. CASE value[v] = <<>> /\ (v = "topic" => reader # "kart")
  BY <1>2, <1>4, StrLenEmpty DEF LongName
<1>5. CASE v = "topic" /\ reader = "kart"
  <2>1. LinesOf("topic") = {} /\ Cardinality(LinesOf("client_id")) <= 1
    BY <1>5 DEF UsualFile
  <2>2. IsFiniteSet(LinesOf("client_id")) /\ Cardinality(LinesOf("client_id")) \in Nat
    BY <1>1, LinesInFile
  <2>3. CASE LinesOf("client_id") = {}
    <3>1. value["topic"] = <<Gokart>> /\ ~LongName
      BY <1>1, <1>5, <2>1, <2>3 DEF TopicInv, Start, LongName
    <3>2. StrLen(value["topic"]) = 7
      BY <3>1, StrLenOne, TextsAssumption
    <3> QED
      BY <1>2, <1>5, <3>1, <3>2
  <2>4. CASE LinesOf("client_id") # {}
    <3> DEFINE last == LastOf("client_id")
               name == Value(file[last])
    <3>1. Cardinality(LinesOf("client_id")) = 1
      BY <2>1, <2>2, <2>4, FS_EmptySet
    <3>2. last \in LinesOf("client_id") /\ file[last] \in Line
      BY <1>1, <1>2, <2>4, LastIsLine
    <3>3. name \in Texts /\ LengthOf[name] \in Nat
      BY <3>2, ValueText, TextsAssumption
    <3>4. value["topic"] = <<Gokart, name, Power>>
      BY <1>1, <1>5, <2>1, <3>1 DEF TopicInv, TopicNamesKart
    <3>5. LongName <=> LengthOf[name] > 36
      <4>1. \A k \in LinesOf("client_id") : k = last
        BY <2>2, <3>1, <3>2, FS_Singleton
      <4> QED
        BY <1>5, <3>2, <4>1 DEF LongName
    <3> HIDE DEF name, last
    <3>6. StrLen(value["topic"]) = LengthOf[Gokart] + LengthOf[name] + LengthOf[Power]
      BY <3>3, <3>4, StrLenThree, TextsAssumption
    <3>7. StrLen(value["topic"]) = LengthOf[name] + 13
      BY <3>3, <3>6, TextsAssumption
    <3> QED
      BY <1>2, <1>5, <3>3, <3>5, <3>7
  <2> QED
    BY <2>3, <2>4
<1>6. \/ v # "topic" /\ LinesOf(v) # {}
      \/ value[v] = <<>> /\ (v = "topic" => reader # "kart")
      \/ v = "topic" /\ reader = "kart"
  BY <1>1, <1>2 DEF LastLineCounts, TopicInv, TypeOK
<1> QED
  BY <1>3, <1>4, <1>5, <1>6

(***************************************************************************)
(* A file like the example makes strcpy and strcat write past the end of   *)
(* an array exactly when the kart's name has more than 36 characters, and  *)
(* then it is the topic: 7 + 36 + 6 and the zero are its 50 characters.    *)
(***************************************************************************)
THEOREM ArraysHold == Spec => []StaysInside
<1>1. ASSUME ReadInv, UsualFile PROVE spilled = IF LongName THEN {"topic"} ELSE {}
  <2>1. \A v \in DOMAIN Room : StrLen(value[v]) + 1 > Room[v] <=> v = "topic" /\ LongName
    BY <1>1, UsualFits
  <2>2. "topic" \in DOMAIN Room
    BY DEF Room
  <2>3. spilled = {v \in DOMAIN Room : v = "topic" /\ LongName}
    BY <1>1, <2>1 DEF ReadInv, Spills
  <2> QED
    BY <2>2, <2>3
<1>2. ReadInv => StaysInside
  BY <1>1 DEF StaysInside
<1> QED
  BY <1>2, Reading, PTL
===============================================================================
