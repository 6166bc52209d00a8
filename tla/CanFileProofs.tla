------------------------------ MODULE CanFileProofs ------------------------------
(***************************************************************************)
(* For any number of frames, of lines of a copied file and of data bytes:  *)
(* the types of the hand-over, that it converts frames as FrameLog says,   *)
(* and which line each converted byte is from.                             *)
(***************************************************************************)
EXTENDS CanFile, SequenceTheorems, TLAPS

\* The file holds frames in order, all of them before those in the writer's hands.
FileOK ==
    /\ fptr = "linked" => file # NoFile
    /\ file # NoFile =>
         /\ Len(file) <= received - held
         /\ \A k \in 1 .. Len(file) : file[k] <= received - held
         /\ \A j, k \in 1 .. Len(file) : j < k => file[j] < file[k]

\* An open file stays there until the converter removes it.
PosOK == cpc # "open" => file # NoFile /\ pos <= Len(file)

\* The struct is what was converted last.
LastOK ==
    /\ converted = <<>> => data_frame = [frame |-> 0, data |-> [b \in 1 .. Bytes |-> 0]]
    /\ converted # <<>> => data_frame = converted[Len(converted)]

\* Nothing that is still to be converted is older than the struct.
NewerOK ==
    /\ data_frame.frame <= received - held
    /\ file # NoFile =>
         \A k \in 1 .. Len(file) : k > Taken => data_frame.frame <= file[k]

IInv == TypeOK /\ FileOK /\ PosOK /\ LastOK /\ NewerOK /\ BytesAreLatest

LogVars == <<received, Shown>>
LogStep == Log!Receive \/ Log!Convert \/ UNCHANGED LogVars

-----------------------------------------------------------------------------
\* What is known of a file, once it exists.
LEMMA FileType ==
    ASSUME TypeOK, file # NoFile
    PROVE  /\ file \in Seq(Frames) /\ Len(file) \in Nat
           /\ \A k \in 1 .. Len(file) : file[k] \in Frames
<1>1. file \in Seq(Frames)
  BY DEF TypeOK
<1>2. QED
  BY <1>1, ElementOfSeq

\* A sequence is the name of no missing file.
LEMMA SeqIsFile == \A s \in Seq(Frames) : s # NoFile
BY NoFileAssumption DEF Frames

\* The order of numbers is transitive.
LEMMA Further == \A n, a, b \in Int : n <= a /\ a <= b => n <= b
OBVIOUS

\* The last number shown is the struct's.
LEMMA LastShown ==
    ASSUME TypeOK, LastOK
    PROVE  Log!LastConverted = data_frame.frame
<1>1. converted \in Seq(Data) /\ Len(converted) \in Nat
  BY DEF TypeOK
<1>2. CASE converted = <<>>
  <2>1. Len(converted) = 0
    BY <1>2
  <2>2. Shown = <<>>
    BY <2>1 DEF Shown
  <2>3. QED
    BY <1>2, <2>2 DEF Log!LastConverted, LastOK
<1>3. CASE converted # <<>>
  <2>1. Len(converted) \in 1 .. Len(converted)
    BY <1>1, <1>3, EmptySeq
  <2>2. Len(Shown) = Len(converted) /\ Shown # <<>>
    BY <1>1, <2>1 DEF Shown
  <2>3. Shown[Len(Shown)] = converted[Len(converted)].frame
    BY <2>1, <2>2 DEF Shown
  <2>4. QED
    BY <1>3, <2>2, <2>3 DEF Log!LastConverted, LastOK
<1>4. QED
  BY <1>2, <1>3

\* Converting a struct appends its frame to the numbers shown.
LEMMA ShownAppends ==
    ASSUME TypeOK, NEW d \in Data, converted' = Append(converted, d)
    PROVE  Shown' = Append(Shown, d.frame)
<1>1. converted \in Seq(Data) /\ Len(converted) \in Nat
  BY DEF TypeOK
<1>2. /\ Len(converted') = Len(converted) + 1
      /\ \A k \in 1 .. Len(converted) : converted'[k] = converted[k]
      /\ converted'[Len(converted) + 1] = d
  BY <1>1, AppendProperties
<1>3. DEFINE n == Len(converted)
<1>4. Shown = [k \in 1 .. n |-> converted[k].frame] /\ Len(Shown) = n
  BY <1>1 DEF Shown
<1>5. Append(Shown, d.frame) = [k \in 1 .. n + 1 |-> IF k = n + 1 THEN d.frame ELSE Shown[k]]
  BY <1>1, <1>4 DEF Shown
<1>6. Shown' = [k \in 1 .. n + 1 |-> converted'[k].frame]
  BY <1>2 DEF Shown
<1>7. \A k \in 1 .. n + 1 :
         converted'[k].frame = IF k = n + 1 THEN d.frame ELSE Shown[k]
  <2> SUFFICES ASSUME NEW k \in 1 .. n + 1
               PROVE  converted'[k].frame = IF k = n + 1 THEN d.frame ELSE Shown[k]
    OBVIOUS
  <2>1. CASE k = n + 1
    BY <2>1, <1>2
  <2>2. CASE k # n + 1
    <3>1. k \in 1 .. n
      BY <2>2, <1>1
    <3> QED
      BY <3>1, <2>2, <1>2, <1>4
  <2> QED
    BY <2>1, <2>2
<1>8. QED
  BY <1>5, <1>6, <1>7

-----------------------------------------------------------------------------
\* Steps that convert nothing leave the parts about what was converted.
LEMMA NothingConverted ==
    ASSUME IInv, UNCHANGED <<config, converter>>
    PROVE  LastOK' /\ BytesAreLatest' /\ Shown' = Shown
<1>1. UNCHANGED <<version, bytes, converted, data_frame>>
  BY DEF config, converter
<1>2. LastOK'
  BY <1>1 DEF IInv, LastOK
<1>3. BytesAreLatest'
  BY <1>1 DEF IInv, BytesAreLatest, LatestByte, Carries
<1>4. QED
  BY <1>1, <1>2, <1>3 DEF Shown

\* The converter opening, closing or removing converts nothing either.
LEMMA NothingConverted2 ==
    ASSUME IInv, UNCHANGED <<config, data_frame, converted>>
    PROVE  LastOK' /\ BytesAreLatest' /\ Shown' = Shown
<1>1. UNCHANGED <<version, bytes, converted, data_frame>>
  BY DEF config
<1>2. LastOK'
  BY <1>1 DEF IInv, LastOK
<1>3. BytesAreLatest'
  BY <1>1 DEF IInv, BytesAreLatest, LatestByte, Carries
<1>4. QED
  BY <1>1, <1>2, <1>3 DEF Shown

\* A step that reads no line and leaves the struct, the writer and the disk.
LEMMA OnlyConverter ==
    ASSUME IInv, UNCHANGED <<config, writer, disk, data_frame, converted>>,
           cpc' \in {"open", "lines", "remove"}, pos' \in 0 .. MaxFrames, eof' \in BOOLEAN,
           PosOK', Taken <= Taken'
    PROVE  IInv' /\ LogStep
<1>1. UNCHANGED <<version, bytes, received, held, wpc, fptr, file, nl, data_frame, converted>>
  BY DEF config, writer, disk
<1>2. LastOK' /\ BytesAreLatest' /\ Shown' = Shown
  BY NothingConverted2
<1>3. TypeOK'
  BY <1>1 DEF IInv, TypeOK
<1>4. FileOK'
  BY <1>1 DEF IInv, FileOK
<1>5. NewerOK'
  <2>1. Taken \in Nat /\ Taken' \in Nat
    BY <1>3 DEF IInv, TypeOK, Taken
  <2>2. file # NoFile => \A k \in 1 .. Len(file) : k > Taken' => k > Taken
    BY <2>1, FileType DEF IInv
  <2>3. QED
    BY <1>1, <2>2 DEF IInv, NewerOK
<1>6. QED
  BY <1>1, <1>2, <1>3, <1>4, <1>5 DEF IInv, LogStep, LogVars

\* A step of the writer that leaves the file, and takes no frame in its hands
\* but new ones.
LEMMA OnlyWriter ==
    ASSUME IInv, UNCHANGED <<config, converter, file>>, nl' \in BOOLEAN,
           received' \in 0 .. MaxFrames, held' \in 0 .. received',
           wpc' \in {"socket", "idle", "read", "open", "write", "exited"}, fptr' = fptr,
           received - held <= received' - held'
    PROVE  IInv'
<1>1. UNCHANGED <<version, bytes, file, cpc, pos, eof, data_frame, converted>>
  BY DEF config, converter
<1>2. LastOK' /\ BytesAreLatest'
  BY NothingConverted
<1>3. TypeOK'
  BY <1>1 DEF IInv, TypeOK
<1>4. \A n \in Nat : n <= received - held => n <= received' - held'
  <2>1. /\ received \in Nat /\ held \in Nat /\ received' \in Nat /\ held' \in Nat
    BY FramesAssumption DEF IInv, TypeOK
  <2>2. received - held \in Int /\ received' - held' \in Int
    BY <2>1
  <2>3. \A n \in Nat : n \in Int
    OBVIOUS
  <2>4. QED
    BY <2>2, <2>3, Further
<1>5. FileOK'
  <2>1. fptr' = "linked" => file' # NoFile
    BY <1>1 DEF IInv, FileOK
  <2>2. ASSUME file # NoFile
        PROVE  /\ Len(file) <= received' - held'
               /\ \A k \in 1 .. Len(file) : file[k] <= received' - held'
    <3>1. Len(file) \in Nat /\ \A k \in 1 .. Len(file) : file[k] \in Nat
      BY <2>2, FileType DEF IInv, Frames
    <3>2. Len(file) <= received - held /\ \A k \in 1 .. Len(file) : file[k] <= received - held
      BY <2>2 DEF IInv, FileOK
    <3>3. QED
      BY <3>1, <3>2, <1>4
  <2>3. QED
    BY <1>1, <2>1, <2>2 DEF IInv, FileOK
<1>6. PosOK'
  BY <1>1 DEF IInv, PosOK
<1>7. NewerOK'
  <2>1. data_frame.frame \in Nat
    BY DEF IInv, TypeOK, Data
  <2>2. data_frame.frame <= received - held
    BY DEF IInv, NewerOK
  <2>3. Taken' = Taken
    BY <1>1 DEF Taken
  <2>4. QED
    BY <1>1, <1>4, <2>1, <2>2, <2>3 DEF IInv, NewerOK
<1>8. QED
  BY <1>2, <1>3, <1>5, <1>6, <1>7 DEF IInv

-----------------------------------------------------------------------------
\* The programs start with no file and nothing converted.
LEMMA InitInv == Init => IInv /\ Log!Init
<1> SUFFICES ASSUME Init PROVE IInv /\ Log!Init
  OBVIOUS
<1> USE DEF Init
<1>1. data_frame \in Data /\ converted = <<>> /\ Len(converted) = 0 /\ data_frame.frame = 0
  BY FramesAssumption DEF Data
<1>2. bytes \in [Frames -> 0 .. Bytes]
  <2>1. Bytes \in 0 .. Bytes
    BY BytesAssumption
  <2>2. CASE version = "v1"
    BY <2>1, <2>2
  <2>3. CASE version # "v1"
    BY <2>3
  <2>4. QED
    BY <2>2, <2>3
<1>3. TypeOK
  <2>1. received \in 0 .. MaxFrames /\ held \in 0 .. received /\ pos \in 0 .. MaxFrames
    BY FramesAssumption
  <2>2. wpc \in {"socket", "idle", "read", "open", "write", "exited"}
    BY Zenon
  <2>3. /\ fptr \in {"none", "linked", "removed"} /\ file = NoFile /\ nl \in BOOLEAN
        /\ cpc \in {"open", "lines", "remove"} /\ eof \in BOOLEAN
        /\ version \in {"v1", "v2"}
    OBVIOUS
  <2>4. converted \in Seq(Data)
    BY <1>1, EmptySeq
  <2>5. QED
    BY <1>1, <1>2, <2>1, <2>2, <2>3, <2>4, Zenon DEF TypeOK
<1>4. FileOK /\ PosOK /\ LastOK /\ NewerOK
  BY <1>1 DEF FileOK, PosOK, LastOK, NewerOK
<1>5. BytesAreLatest
  BY <1>1 DEF BytesAreLatest
<1>6. Shown = <<>>
  BY <1>1 DEF Shown
<1>7. QED
  BY <1>3, <1>4, <1>5, <1>6 DEF IInv, Log!Init

\* CAN_read starting, failing and losing its last frame changes no file.
LEMMA WriterStopsInv ==
    ASSUME IInv, OpenSocket \/ ReadFails \/ OpenFails
    PROVE  IInv' /\ LogStep
<1>1. UNCHANGED <<config, converter, file, nl, received, held, fptr>>
  BY DEF OpenSocket, ReadFails, OpenFails, disk
<1>2. wpc' \in {"socket", "idle", "read", "open", "write", "exited"}
  BY DEF OpenSocket, ReadFails, OpenFails
<1>3. IInv'
  BY <1>1, <1>2, OnlyWriter DEF IInv, TypeOK
<1>4. Shown' = Shown
  BY <1>1, NothingConverted
<1>5. QED
  BY <1>1, <1>3, <1>4 DEF LogStep, LogVars

\* New frames are newer than all the rest.
LEMMA NewFramesInv ==
    ASSUME IInv, ReadFrame \/ CopyFile
    PROVE  IInv' /\ LogStep
<1>1. PICK n \in Nat \ {0} : received' = received + n /\ held' = n
  BY CopyAssumption DEF ReadFrame, CopyFile
<1>2. received \in Nat /\ held \in Nat /\ held <= received
  BY DEF IInv, TypeOK
<1>3. received + n <= MaxFrames
  BY <1>1, <1>2, FramesAssumption DEF ReadFrame, CopyFile
<1>4. /\ received' \in 0 .. MaxFrames /\ held' \in 0 .. received'
      /\ received - held <= received' - held'
  BY <1>1, <1>2, <1>3, FramesAssumption
<1>5. /\ UNCHANGED <<config, converter, file, fptr>> /\ nl' \in BOOLEAN /\ wpc' = "open"
  BY DEF ReadFrame, CopyFile, disk, IInv, TypeOK
<1>6. IInv'
  BY <1>4, <1>5, OnlyWriter
<1>7. Shown' = Shown
  BY <1>5, NothingConverted
<1>8. converted' = converted
  BY <1>5 DEF converter
<1>9. Log!Receive
  BY <1>1, <1>2, <1>7 DEF Log!Receive
<1>10. QED
  BY <1>6, <1>9 DEF LogStep

\* The file is made, empty, if it does not exist.
LEMMA OpenAppendInv == ASSUME IInv, OpenAppend PROVE IInv' /\ LogStep
<1>1. /\ UNCHANGED <<config, converter, nl, received, held>>
      /\ file' = (IF file = NoFile THEN <<>> ELSE file)
      /\ fptr' = "linked" /\ wpc' = "write"
  BY DEF OpenAppend
<1>2. /\ UNCHANGED <<version, bytes, cpc, pos, eof, data_frame, converted>>
  BY <1>1 DEF config, converter
<1>3. /\ LastOK' /\ BytesAreLatest' /\ Shown' = Shown
  BY <1>1, NothingConverted
<1>4. <<>> \in Seq(Frames) /\ <<>> # NoFile /\ Len(<<>>) = 0
  BY EmptySeq, SeqIsFile
<1>5. file' # NoFile
  BY <1>1, <1>4
<1>6. TypeOK'
  BY <1>1, <1>2, <1>4 DEF IInv, TypeOK
<1>7. FileOK'
  BY <1>1, <1>4, <1>5 DEF IInv, FileOK, TypeOK
<1>8. PosOK'
  BY <1>1, <1>2 DEF IInv, PosOK
<1>9. NewerOK'
  BY <1>1, <1>2, <1>4 DEF IInv, NewerOK, Taken
<1>10. QED
  BY <1>1, <1>3, <1>6, <1>7, <1>8, <1>9 DEF IInv, LogStep, LogVars

\* fclose appends the frames that were held, in order, if the file is still there.
LEMMA CloseAppendInv == ASSUME IInv, CloseAppend PROVE IInv' /\ LogStep
<1>1. /\ UNCHANGED <<config, converter, nl, received>>
      /\ fptr' = "none" /\ held' = 0 /\ wpc' \in {"read", "idle"}
      /\ file' = IF fptr = "linked" THEN file \o Lines ELSE file
  BY DEF CloseAppend
<1>2. UNCHANGED <<version, bytes, cpc, pos, eof, data_frame, converted>>
  BY <1>1 DEF config, converter
<1>3. LastOK' /\ BytesAreLatest' /\ Shown' = Shown
  BY <1>1, NothingConverted
<1>4. /\ received \in Nat /\ held \in Nat /\ held <= received /\ received <= MaxFrames
      /\ MaxFrames \in Nat
  BY FramesAssumption DEF IInv, TypeOK
<1>5. CASE fptr # "linked"
  <2>1. IInv
    OBVIOUS
  <2>2. file' = file /\ received' = received
    BY <1>1, <1>5
  <2>3. TypeOK'
    <3>1. held' \in 0 .. received' /\ fptr' \in {"none", "linked", "removed"}
      BY <1>1, <1>4
    <3>2. wpc' \in {"socket", "idle", "read", "open", "write", "exited"}
      BY <1>1
    <3>3. UNCHANGED <<version, bytes, received, file, nl, cpc, pos, eof, data_frame, converted>>
      BY <1>1, <1>2, <2>2
    <3>4. QED
      BY <3>1, <3>2, <3>3, Zenon DEF IInv, TypeOK
  <2>4. \A n \in Nat : n <= received - held => n <= received - 0
    BY <1>4
  <2>5. FileOK'
    <3>1. ASSUME file # NoFile
          PROVE  /\ Len(file) <= received - 0
                 /\ \A k \in 1 .. Len(file) : file[k] <= received - 0
      BY <3>1, <2>4, FileType DEF IInv, FileOK, Frames
    <3>2. QED
      BY <1>1, <2>2, <3>1 DEF IInv, FileOK
  <2>6. PosOK'
    BY <1>2, <2>2 DEF IInv, PosOK
  <2>7. NewerOK'
    <3>1. data_frame.frame \in Nat /\ data_frame.frame <= received - held
      BY DEF IInv, TypeOK, Data, NewerOK
    <3>2. Taken' = Taken
      BY <1>2 DEF Taken
    <3>3. QED
      BY <1>1, <1>2, <2>2, <2>4, <3>1, <3>2 DEF IInv, NewerOK
  <2>8. QED
    BY <1>1, <1>3, <2>3, <2>5, <2>6, <2>7 DEF IInv, LogStep, LogVars
<1>6. CASE fptr = "linked"
  <2>1. file # NoFile /\ file \in Seq(Frames) /\ Len(file) \in Nat
    BY <1>6, FileType DEF IInv, FileOK
  <2>2. /\ Lines \in Seq(Frames) /\ Len(Lines) = held
        /\ \A k \in 1 .. held : Lines[k] = received - held + k
    <3>1. \A k \in 1 .. held : received - held + k \in Frames
      BY <1>4 DEF Frames
    <3>2. QED
      BY <3>1, <1>4 DEF Lines
  <2>3. DEFINE n == Len(file)
  <2>4. /\ file' = file \o Lines /\ file' \in Seq(Frames) /\ Len(file') = n + held
        /\ \A k \in 1 .. n : file'[k] = file[k]
        /\ \A k \in n + 1 .. n + held : file'[k] = Lines[k - n]
    <3>1. file' = file \o Lines
      BY <1>1, <1>6
    <3>2. /\ file \o Lines \in Seq(Frames) /\ Len(file \o Lines) = n + held
          /\ \A k \in 1 .. n + held :
               (file \o Lines)[k] = IF k <= n THEN file[k] ELSE Lines[k - n]
      BY <2>1, <2>2, ConcatProperties
    <3>3. \A k \in 1 .. n : k \in 1 .. n + held /\ k <= n
      BY <2>1, <1>4
    <3>4. \A k \in n + 1 .. n + held : k \in 1 .. n + held /\ ~(k <= n)
      BY <2>1, <1>4
    <3>5. QED
      BY <3>1, <3>2, <3>3, <3>4
  <2>5. file' # NoFile
    BY <2>4, SeqIsFile
  <2>6. \A k \in n + 1 .. n + held : file'[k] = received - held + (k - n)
    BY <2>1, <2>2, <2>4, <1>4
  <2>7. /\ n <= received - held
        /\ \A k \in 1 .. n : file[k] \in Nat /\ file[k] <= received - held
        /\ \A j, k \in 1 .. n : j < k => file[j] < file[k]
    BY <2>1, FileType DEF IInv, FileOK, Frames
  <2>8. \A k \in 1 .. n + held : k \in 1 .. n \/ k \in n + 1 .. n + held
    BY <2>1, <1>4
  <2>9. TypeOK'
    BY <1>1, <1>2, <1>4, <2>4 DEF IInv, TypeOK
  <2>10. FileOK'
    <3>1. Len(file') <= received' - held'
      BY <1>1, <1>4, <2>1, <2>4, <2>7
    <3>2. ASSUME NEW k \in 1 .. Len(file') PROVE file'[k] <= received' - held'
      BY <1>1, <1>4, <2>1, <2>4, <2>6, <2>7, <2>8
    <3>3. ASSUME NEW j \in 1 .. Len(file'), NEW k \in 1 .. Len(file'), j < k
          PROVE  file'[j] < file'[k]
      <4>1. CASE k \in 1 .. n
        <5>1. j \in 1 .. n
          BY <4>1, <3>3, <2>1, <2>4
        <5> QED
          BY <4>1, <5>1, <3>3, <2>4, <2>7
      <4>2. CASE k \in n + 1 .. n + held /\ j \in 1 .. n
        <5>1. file'[j] = file[j] /\ file[j] \in Nat /\ file[j] <= received - held
          BY <4>2, <2>4, <2>7
        <5>2. file'[k] = received - held + (k - n)
          BY <4>2, <2>6
        <5> QED
          BY <5>1, <5>2, <4>2, <1>4, <2>1
      <4>3. CASE k \in n + 1 .. n + held /\ j \in n + 1 .. n + held
        BY <4>3, <3>3, <2>1, <2>6, <1>4
      <4> QED
        BY <4>1, <4>2, <4>3, <2>4, <2>8
    <3>4. QED
      BY <1>1, <2>5, <3>1, <3>2, <3>3 DEF FileOK
  <2>11. PosOK'
    BY <1>2, <1>4, <2>1, <2>4, <2>5 DEF IInv, PosOK, TypeOK
  <2>12. NewerOK'
    <3>1. data_frame.frame \in Nat /\ data_frame.frame <= received - held
      BY DEF IInv, TypeOK, Data, NewerOK
    <3>2. data_frame.frame <= received' - held'
      BY <1>1, <1>4, <3>1
    <3>3. Taken' = Taken
      BY <1>2 DEF Taken
    <3>4. ASSUME NEW k \in 1 .. Len(file'), k > Taken
          PROVE  data_frame.frame <= file'[k]
      <4>1. CASE k \in 1 .. n
        BY <4>1, <3>4, <2>1, <2>4 DEF IInv, NewerOK
      <4>2. CASE k \in n + 1 .. n + held
        BY <4>2, <3>1, <2>1, <2>6, <1>4
      <4> QED
        BY <4>1, <4>2, <2>4, <2>8
    <3>5. QED
      BY <1>2, <3>2, <3>3, <3>4 DEF NewerOK
  <2>13. QED
    BY <1>1, <1>3, <2>9, <2>10, <2>11, <2>12 DEF IInv, LogStep, LogVars
<1>7. QED
  BY <1>5, <1>6

-----------------------------------------------------------------------------
\* What converting one more struct means for the history.
LEMMA Appended ==
    ASSUME TypeOK, NEW d \in Data, converted' = Append(converted, d), bytes' = bytes
    PROVE  /\ Len(converted) \in Nat /\ Len(converted') = Len(converted) + 1
           /\ converted' \in Seq(Data)
           /\ \A k \in 1 .. Len(converted) : converted'[k] = converted[k]
           /\ converted'[Len(converted) + 1] = d
           /\ \A k \in 1 .. Len(converted), b \in 1 .. Bytes : Carries(k, b)' <=> Carries(k, b)
<1>1. converted \in Seq(Data) /\ Len(converted) \in Nat
  BY DEF TypeOK
<1>2. /\ converted' \in Seq(Data) /\ Len(converted') = Len(converted) + 1
      /\ \A k \in 1 .. Len(converted) : converted'[k] = converted[k]
      /\ converted'[Len(converted) + 1] = d
  BY <1>1, AppendProperties
<1>3. QED
  BY <1>1, <1>2 DEF Carries

\* A byte that the new line has is its frame's.
LEMMA OwnByte ==
    ASSUME TypeOK, NEW n \in Nat, n = Len(converted), NEW d \in Data, converted' = Append(converted, d),
           version' = "v2", bytes' = bytes, NEW b \in 1 .. Bytes,
           d.frame # 0, b <= bytes[d.frame], d.data[b] = d.frame
    PROVE  LatestByte(n + 1, b)'
<1>2. converted'[n + 1] = d
  BY Appended
<1>3. Carries(n + 1, b)'
  BY <1>2 DEF Carries
<1>4. n + 1 \in 1 .. n + 1 /\ (n + 1) + 1 .. n + 1 = {}
  BY <1>2
<1>5. QED
  BY <1>2, <1>3, <1>4 DEF LatestByte

\* A byte that it does not have stays what it was.
LEMMA KeptByte ==
    ASSUME IInv, NEW n \in Nat, n = Len(converted), NEW d \in Data, converted' = Append(converted, d),
           version' = version, bytes' = bytes, NEW b \in 1 .. Bytes,
           d.data[b] = data_frame.data[b],
           version = "v2" => ~(d.frame # 0 /\ b <= bytes[d.frame])
    PROVE  LatestByte(n + 1, b)'
<1>2. /\ converted'[n + 1] = d
      /\ \A k \in 1 .. n : converted'[k] = converted[k]
      /\ \A k \in 1 .. n : Carries(k, b)' <=> Carries(k, b)
  BY Appended DEF IInv
<1>3. version = "v2" => ~Carries(n + 1, b)'
  BY <1>2 DEF Carries
<1>4. \A k \in 1 .. n + 1 : k \in 1 .. n \/ k = n + 1
  BY <1>2
<1>5. CASE n = 0
  <2>1. converted = <<>>
    BY <1>5, EmptySeq DEF IInv, TypeOK
  <2>2. d.data[b] = 0
    <3>1. data_frame = [frame |-> 0, data |-> [c \in 1 .. Bytes |-> 0]]
      BY <2>1 DEF IInv, LastOK
    <3>2. data_frame.data[b] = 0
      BY <3>1
    <3>3. QED
      BY <3>2
  <2>3. \A k \in 1 .. n + 1 : k = n + 1
    BY <1>5
  <2>4. QED
    BY <1>2, <1>3, <2>2, <2>3 DEF LatestByte
<1>6. CASE n # 0
  <2>1. n \in 1 .. n /\ converted # <<>>
    BY <1>2, <1>6
  <2>2. data_frame = converted[n] /\ LatestByte(n, b)
    BY <2>1 DEF IInv, LastOK, BytesAreLatest
  <2>3. converted'[n + 1].data[b] = converted[n].data[b]
    BY <1>2, <2>2
  <2>4. CASE /\ converted[n].data[b] = 0
             /\ version = "v2" => \A j \in 1 .. n : ~Carries(j, b)
    BY <1>2, <1>3, <1>4, <2>3, <2>4 DEF LatestByte
  <2>5. CASE /\ version = "v2"
             /\ \E j \in 1 .. n : /\ Carries(j, b) /\ converted[j].frame = converted[n].data[b]
                                  /\ \A i \in j + 1 .. n : ~Carries(i, b)
    <3>1. PICK j \in 1 .. n : /\ Carries(j, b) /\ converted[j].frame = converted[n].data[b]
                              /\ \A i \in j + 1 .. n : ~Carries(i, b)
      BY <2>5
    <3>2. j \in 1 .. n + 1 /\ Carries(j, b)' /\ converted'[j].frame = converted'[n + 1].data[b]
      BY <1>2, <2>3, <3>1
    <3>3. \A i \in j + 1 .. n + 1 : i \in j + 1 .. n \/ i = n + 1
      BY <1>2
    <3>4. \A i \in j + 1 .. n : i \in 1 .. n
      BY <1>2
    <3>5. \A i \in j + 1 .. n + 1 : ~Carries(i, b)'
      BY <1>2, <1>3, <2>5, <3>1, <3>3, <3>4
    <3>6. QED
      BY <2>5, <3>2, <3>5 DEF LatestByte
  <2>6. QED
    BY <2>2, <2>4, <2>5 DEF LatestByte
<1>7. QED
  BY <1>5, <1>6

\* Together: the new struct's bytes are all of the latest lines.
LEMMA Converts ==
    ASSUME IInv, NEW n \in Nat, n = Len(converted), NEW d \in Data, converted' = Append(converted, d), data_frame' = d,
           version' = version, bytes' = bytes, received' = received,
           d.frame \in data_frame.frame .. received,
           \A b \in 1 .. Bytes : LatestByte(n + 1, b)'
    PROVE  LastOK' /\ BytesAreLatest' /\ converted' \in Seq(Data) /\ Log!Convert
<1>2. /\ Len(converted') = n + 1 /\ converted'[n + 1] = d
      /\ converted' \in Seq(Data)
      /\ \A k \in 1 .. n : converted'[k] = converted[k]
      /\ \A k \in 1 .. n, b \in 1 .. Bytes : Carries(k, b)' <=> Carries(k, b)
  BY Appended DEF IInv
<1>3. converted' # <<>>
  BY <1>2
<1>4. LastOK'
  BY <1>2, <1>3 DEF LastOK
<1>5. BytesAreLatest'
  <2> SUFFICES ASSUME NEW k \in 1 .. n + 1, NEW b \in 1 .. Bytes
               PROVE  LatestByte(k, b)'
    BY <1>2 DEF BytesAreLatest
  <2>1. CASE k = n + 1
    BY <2>1
  <2>2. CASE k # n + 1
    <3>1. k \in 1 .. n /\ \A j \in 1 .. k : j \in 1 .. n
      BY <2>2, <1>2
    <3>2. \A j \in 1 .. k : \A i \in j + 1 .. k : i \in 1 .. n
      BY <3>1, <1>2
    <3>3. LatestByte(k, b)
      BY <3>1 DEF IInv, BytesAreLatest
    <3>4. /\ converted'[k] = converted[k]
          /\ \A j \in 1 .. k : /\ converted'[j] = converted[j]
                               /\ Carries(j, b)' <=> Carries(j, b)
      BY <1>2, <3>1
    <3>5. \A j \in 1 .. k : \A i \in j + 1 .. k : Carries(i, b)' <=> Carries(i, b)
      BY <1>2, <3>2
    <3>6. ASSUME converted[k].data[b] = 0, version = "v2" => \A j \in 1 .. k : ~Carries(j, b)
          PROVE  LatestByte(k, b)'
      BY <3>4, <3>6 DEF LatestByte
    <3>7. ASSUME version = "v2", NEW j \in 1 .. k, Carries(j, b),
                 converted[j].frame = converted[k].data[b],
                 \A i \in j + 1 .. k : ~Carries(i, b)
          PROVE  LatestByte(k, b)'
      <4>1. Carries(j, b)' /\ converted'[j].frame = converted'[k].data[b]
        BY <3>4, <3>7
      <4>2. \A i \in j + 1 .. k : ~Carries(i, b)'
        BY <3>5, <3>7
      <4>3. QED
        BY <3>7, <4>1, <4>2 DEF LatestByte
    <3>8. QED
      BY <3>3, <3>6, <3>7 DEF LatestByte
  <2>3. QED
    BY <2>1, <2>2
<1>6. Shown' = Append(Shown, d.frame)
  BY ShownAppends DEF IInv
<1>7. Log!LastConverted = data_frame.frame
  BY LastShown DEF IInv
<1>8. Log!Convert
  BY <1>6, <1>7 DEF Log!Convert
<1>9. QED
  BY <1>2, <1>4, <1>5, <1>8

-----------------------------------------------------------------------------
\* Opening, closing and taking a file at its end: nothing is converted.
LEMMA OpenReadInv == ASSUME IInv, OpenRead PROVE IInv' /\ LogStep
<1>1. /\ UNCHANGED <<config, writer, disk, data_frame, converted>>
      /\ cpc = "open" /\ cpc' = "lines" /\ pos' = 0 /\ eof' = FALSE /\ file # NoFile
  BY DEF OpenRead
<1>2. pos' \in 0 .. MaxFrames /\ Taken <= Taken' /\ file' = file
  BY <1>1, FramesAssumption DEF Taken, disk
<1>3. PosOK'
  BY <1>1, <1>2, FileType DEF PosOK, IInv
<1>4. QED
  BY <1>1, <1>2, <1>3, OnlyConverter

LEMMA CloseReadInv == ASSUME IInv, CloseRead PROVE IInv' /\ LogStep
<1>1. /\ UNCHANGED <<config, writer, disk, data_frame, converted>>
      /\ cpc = "lines" /\ cpc' = "remove" /\ pos' = pos /\ eof' = eof
  BY DEF CloseRead
<1>2. pos' \in 0 .. MaxFrames /\ eof' \in BOOLEAN /\ Taken <= Taken' /\ file' = file
  BY <1>1 DEF Taken, disk, IInv, TypeOK
<1>3. PosOK'
  BY <1>1, <1>2 DEF PosOK, IInv
<1>4. QED
  BY <1>1, <1>2, <1>3, OnlyConverter

\* With the file go its lines; what the writer holds is written to nowhere.
LEMMA RemoveInv == ASSUME IInv, Remove PROVE IInv' /\ LogStep
<1>1. /\ UNCHANGED <<config, received, held, wpc, nl, pos, eof, data_frame, converted>>
      /\ file' = NoFile /\ fptr' = (IF fptr = "linked" THEN "removed" ELSE fptr)
      /\ cpc' = "open"
  BY DEF Remove
<1>2. LastOK' /\ BytesAreLatest' /\ Shown' = Shown
  BY <1>1, NothingConverted2
<1>3. fptr' \in {"none", "removed"}
  BY <1>1 DEF IInv, TypeOK
<1>4. TypeOK'
  BY <1>1, <1>3, Zenon DEF IInv, TypeOK, config
<1>5. FileOK' /\ PosOK' /\ NewerOK'
  BY <1>1, <1>3 DEF IInv, FileOK, PosOK, NewerOK
<1>6. QED
  BY <1>1, <1>2, <1>4, <1>5 DEF IInv, LogStep, LogVars

\* At the end of the file the struct is converted once more.
LEMMA GetNothingInv == ASSUME IInv, GetNothing PROVE IInv' /\ LogStep
<1>1. /\ UNCHANGED <<config, writer, disk, cpc, pos, data_frame>>
      /\ eof' = TRUE /\ converted' = Append(converted, data_frame)
  BY DEF GetNothing
<1>2. UNCHANGED <<version, bytes, received, held, wpc, fptr, file, nl, cpc, pos, data_frame>>
  BY <1>1 DEF config, writer, disk
<1>3. data_frame \in Data /\ data_frame.frame \in data_frame.frame .. received
  BY DEF IInv, TypeOK, NewerOK, Data
<1>4. PICK n \in Nat : n = Len(converted)
  BY DEF IInv, TypeOK
<1>5. ASSUME NEW b \in 1 .. Bytes PROVE LatestByte(n + 1, b)'
  <2>1. CASE version = "v2" /\ data_frame.frame # 0 /\ b <= bytes[data_frame.frame]
    <3>1. n # 0 /\ n \in 1 .. n /\ data_frame = converted[n]
      <4>1. CASE converted = <<>>
        BY <2>1, <4>1 DEF IInv, LastOK
      <4>2. CASE converted # <<>>
        BY <1>4, <4>2, EmptySeq DEF IInv, LastOK, TypeOK
      <4>3. QED
        BY <4>1, <4>2
    <3>2. Carries(n, b) /\ LatestByte(n, b)
      BY <1>4, <2>1, <3>1 DEF Carries, IInv, BytesAreLatest
    <3>3. PICK j \in 1 .. n : /\ converted[j].frame = converted[n].data[b]
                              /\ \A i \in j + 1 .. n : ~Carries(i, b)
      BY <2>1, <3>1, <3>2 DEF LatestByte
    <3>4. j = n
      BY <3>2, <3>3
    <3>5. data_frame.data[b] = data_frame.frame
      BY <3>1, <3>3, <3>4
    <3>6. QED
      BY <1>1, <1>2, <1>3, <1>4, <2>1, <3>5, OwnByte DEF IInv
  <2>2. CASE ~(version = "v2" /\ data_frame.frame # 0 /\ b <= bytes[data_frame.frame])
    BY <1>1, <1>2, <1>3, <1>4, <2>2, KeptByte
  <2>3. QED
    BY <2>1, <2>2
<1>6. LastOK' /\ BytesAreLatest' /\ converted' \in Seq(Data) /\ Log!Convert
  BY <1>1, <1>2, <1>3, <1>4, <1>5, Converts
<1>7. TypeOK'
  BY <1>1, <1>2, <1>6 DEF IInv, TypeOK
<1>8. FileOK' /\ PosOK' /\ NewerOK'
  BY <1>2 DEF IInv, FileOK, PosOK, NewerOK, Taken
<1>9. QED
  BY <1>6, <1>7, <1>8 DEF IInv, LogStep

\* A line is scanned and converted: it is newer than the struct, older than
\* the lines behind it.
LEMMA GetLineInv == ASSUME IInv, GetLine PROVE IInv' /\ LogStep
<1>1. /\ UNCHANGED <<config, writer, disk, cpc>>
      /\ cpc = "lines" /\ pos < Len(file) /\ pos' = pos + 1
      /\ eof' = (pos + 1 = Len(file) /\ ~nl)
      /\ data_frame' = Scan(file[pos + 1]) /\ converted' = Append(converted, data_frame')
  BY DEF GetLine
<1>2. UNCHANGED <<version, bytes, received, held, wpc, fptr, file, nl, cpc>>
  BY <1>1 DEF config, writer, disk
<1>3. PICK f : f = file[pos + 1]
  OBVIOUS
<1>4. PICK d : d = Scan(f)
  OBVIOUS
<1>5. /\ file # NoFile /\ Len(file) \in Nat /\ pos \in Nat /\ received \in Nat /\ held \in Nat
      /\ held <= received /\ received <= MaxFrames /\ MaxFrames \in Nat
  BY <1>1, FileType, FramesAssumption DEF IInv, PosOK, TypeOK
<1>6. pos + 1 \in 1 .. Len(file) /\ pos + 1 > Taken /\ Taken = pos
  BY <1>1, <1>5 DEF Taken
<1>7. f \in Frames /\ f \in Nat /\ f # 0 /\ f <= received - held /\ data_frame.frame <= f
  <2>1. f \in Frames
    BY <1>3, <1>5, <1>6, FileType DEF IInv
  <2>2. f <= received - held
    BY <1>3, <1>5, <1>6 DEF IInv, FileOK
  <2>3. data_frame.frame <= f
    BY <1>3, <1>5, <1>6 DEF IInv, NewerOK
  <2>4. QED
    BY <2>1, <2>2, <2>3 DEF Frames
<1>8. /\ d.frame = f /\ d \in Data
      /\ \A b \in 1 .. Bytes :
           d.data[b] = IF version = "v2" /\ b <= bytes[f] THEN f ELSE data_frame.data[b]
  <2>1. data_frame.data \in [1 .. Bytes -> 0 .. MaxFrames]
    BY DEF IInv, TypeOK, Data
  <2>2. f \in 0 .. MaxFrames
    BY <1>5, <1>7
  <2>3. \A b \in 1 .. Bytes :
          (IF version = "v2" /\ b <= bytes[f] THEN f ELSE data_frame.data[b]) \in 0 .. MaxFrames
    BY <2>1, <2>2
  <2>4. QED
    BY <1>4, <2>2, <2>3 DEF Scan, Data
<1>9. d.frame \in data_frame.frame .. received
  <2>1. data_frame.frame \in Nat
    BY DEF IInv, TypeOK, Data
  <2>2. QED
    BY <1>5, <1>7, <1>8, <2>1
<1>10. PICK n \in Nat : n = Len(converted)
  BY DEF IInv, TypeOK
<1>11. converted' = Append(converted, d) /\ data_frame' = d
  BY <1>1, <1>3, <1>4
<1>12. ASSUME NEW b \in 1 .. Bytes PROVE LatestByte(n + 1, b)'
  <2>1. CASE version = "v2" /\ b <= bytes[f]
    BY <1>2, <1>7, <1>8, <1>10, <1>11, <2>1, OwnByte DEF IInv
  <2>2. CASE ~(version = "v2" /\ b <= bytes[f])
    BY <1>2, <1>8, <1>10, <1>11, <2>2, KeptByte
  <2>3. QED
    BY <2>1, <2>2
<1>13. LastOK' /\ BytesAreLatest' /\ converted' \in Seq(Data) /\ Log!Convert
  BY <1>2, <1>8, <1>9, <1>10, <1>11, <1>12, Converts
<1>14. pos' \in 0 .. MaxFrames /\ eof' \in BOOLEAN
  <2>1. Len(file) <= received - held
    BY <1>5 DEF IInv, FileOK
  <2>2. QED
    BY <1>1, <1>5, <2>1
<1>15. TypeOK'
  BY <1>2, <1>8, <1>11, <1>13, <1>14 DEF IInv, TypeOK
<1>16. FileOK' /\ PosOK'
  BY <1>1, <1>2, <1>5 DEF IInv, FileOK, PosOK
<1>17. NewerOK'
  <2>1. Taken' = pos + 1
    BY <1>1, <1>2 DEF Taken
  <2>2. ASSUME NEW k \in 1 .. Len(file), k > pos + 1 PROVE f <= file[k]
    <3>1. f < file[k] /\ file[k] \in Nat
      BY <1>3, <1>5, <1>6, <2>2, FileType DEF IInv, FileOK, Frames
    <3>2. QED
      BY <1>7, <3>1
  <2>3. QED
    BY <1>2, <1>7, <1>8, <1>11, <2>1, <2>2 DEF NewerOK
<1>18. QED
  BY <1>13, <1>15, <1>16, <1>17 DEF IInv, LogStep

\* Nothing changes.
LEMMA StutterInv == ASSUME IInv, UNCHANGED vars PROVE IInv' /\ LogStep
<1>1. UNCHANGED <<config, writer, disk, data_frame, converted, cpc, pos, eof>>
  BY DEF vars, converter
<1>2. PosOK' /\ Taken <= Taken' /\ eof' \in BOOLEAN
      /\ cpc' \in {"open", "lines", "remove"} /\ pos' \in 0 .. MaxFrames
  BY <1>1 DEF IInv, PosOK, Taken, TypeOK, disk
<1>3. QED
  BY <1>1, <1>2, OnlyConverter

-----------------------------------------------------------------------------
\* Every step keeps the invariant and is a step of the log, or none.
LEMMA Step == ASSUME IInv, [Next]_vars PROVE IInv' /\ LogStep
<1>1. CASE OpenSocket \/ ReadFails \/ OpenFails
  BY <1>1, WriterStopsInv
<1>2. CASE ReadFrame \/ CopyFile
  BY <1>2, NewFramesInv
<1>3. CASE OpenAppend
  BY <1>3, OpenAppendInv
<1>4. CASE CloseAppend
  BY <1>4, CloseAppendInv
<1>5. CASE OpenRead
  BY <1>5, OpenReadInv
<1>6. CASE GetLine
  BY <1>6, GetLineInv
<1>7. CASE GetNothing
  BY <1>7, GetNothingInv
<1>8. CASE CloseRead
  BY <1>8, CloseReadInv
<1>9. CASE Remove
  BY <1>9, RemoveInv
<1>10. CASE UNCHANGED vars
  BY <1>10, StutterInv
<1>11. QED
  BY <1>1, <1>2, <1>3, <1>4, <1>5, <1>6, <1>7, <1>8, <1>9, <1>10 DEF Next, Write, Convert

\* The invariant behind the theorems: lines are in order in the file, nothing
\* still to be read is older than the struct, and the struct is what was
\* converted last.
THEOREM HandOverInvariant == Spec => []IInv
<1>1. Init => IInv
  BY InitInv
<1>2. IInv /\ [Next]_vars => IInv'
  BY Step
<1>3. QED
  BY <1>1, <1>2, PTL DEF Spec

\* CAN_read and the converters keep their types, whatever is on the bus.
THEOREM TypeCorrect == Spec => []TypeOK
<1>1. IInv => TypeOK
  BY DEF IInv
<1>2. QED
  BY <1>1, HandOverInvariant, PTL

\* A data byte that a line lacks is converted as the latest line with that
\* byte left it in the struct; the first version converts no byte of a frame.
THEOREM BytesAlwaysLatest == Spec => []BytesAreLatest
<1>1. IInv => BytesAreLatest
  BY DEF IInv
<1>2. QED
  BY <1>1, HandOverInvariant, PTL

\* The file alone makes the two programs convert frames in the order of the
\* bus, each at most once but for the last.
THEOREM HandOverIsLog == Spec => ImplementsFrameLog
<1>1. Init => Log!Init
  BY InitInv
<1>2. IInv /\ [Next]_vars => [Log!Receive \/ Log!Convert]_LogVars
  BY Step DEF LogStep
<1>3. QED
  BY <1>1, <1>2, HandOverInvariant, PTL DEF Spec, ImplementsFrameLog, Log!Spec, LogVars

=================================================================================
