---------------------------- MODULE ChannelProofs ----------------------------
(***************************************************************************)
(* Proofs, for every size of the header, of the socket and of the          *)
(* messages, that the two ends of a Channel never lose step: the           *)
(* descriptors are met by recvmsg, and what recv() returns is what         *)
(* MessageStream promises.                                                 *)
(***************************************************************************)
EXTENDS Channel, SequenceTheorems, WellFoundedInduction, TLAPS

Byte == [frame : Nat \ {0}, at : Nat \ {0}, fd : Descriptors \cup {None}]

\* The frame recv() is in, and how many of its bytes it has read.
Current == Len(received) + 1
Place == CASE receiver = "header" -> Len(got)
           [] receiver = "payload" -> HEADER + Len(got)
           [] OTHER -> 0

\* Byte b comes right after the first k bytes of the n-th frame.
Follows(n, k, b) ==
  \/ b.frame = n /\ b.at = k + 1
  \/ n \in DOMAIN frames /\ k = Size(frames[n]) /\ b.frame = n + 1 /\ b.at = 1

\* A byte of a frame begun, with the descriptor that left with it.
OfItsFrame(b) ==
  /\ b.frame \in DOMAIN frames
  /\ b.at <= Size(frames[b.frame])
  /\ b.fd = IF b.at = 1 THEN frames[b.frame].fd ELSE None

\* The last frame begun is written in full.
AllWritten == frames # <<>> => written = Size(frames[Len(frames)])

Typed ==
  /\ TypeOK
  /\ stream \in Seq(Byte)
  /\ got \in Seq(Byte)
  /\ received \in Seq([message : Frames, fd : Descriptors \cup {None}])

\* send() is between two frames, or in the middle of one.
WriterInStep ==
  /\ frames # <<>> => written \in 1 .. Size(frames[Len(frames)])
  /\ sender = "idle" => AllWritten
  /\ sender = "writing" => frames # <<>> /\ ~AllWritten

\* The socket holds consecutive bytes, up to the last one written.
StreamInStep ==
  /\ \A i \in DOMAIN stream : OfItsFrame(stream[i])
  /\ \A i \in 1 .. Len(stream) - 1 :
       Follows(stream[i].frame, stream[i].at, stream[i + 1])
  /\ stream # <<>> =>
       stream[Len(stream)].frame = Len(frames) /\ stream[Len(stream)].at = written

\* The next byte of the socket, or else the next one written, is the one recv()
\* has come to.
MeetsReader ==
  receiver \notin Ended =>
    IF stream # <<>>
    THEN Follows(Current, Place, stream[1])
    ELSE \/ Current = Len(frames) /\ Place = written
         \/ Current = Len(frames) + 1 /\ Place = 0 /\ AllWritten

\* What recv() holds of the frame it is in.
ReaderInStep ==
  /\ receiver = "recvmsg" => got = <<>> /\ fd = None
  /\ receiver \in {"header", "payload"} =>
       /\ Current \in DOMAIN frames
       /\ fd = frames[Current].fd
       /\ got # <<>> => got[1].frame = Current
  /\ receiver = "header" => Len(got) \in 1 .. HEADER /\ OfOneFrame(got, 1)
  /\ receiver = "payload" =>
       /\ length = frames[Current].length
       /\ Len(got) <= length
       /\ OfOneFrame(got, HEADER + 1)

\* What recv() returned is what was sent, frame by frame.
DeliveredInStep ==
  /\ Len(received) <= Len(Sent)
  /\ \A i \in DOMAIN received :
       /\ frames[i].valid
       /\ received[i] = [message |-> frames[i], fd |-> frames[i].fd]

\* The inductive invariant.
IInv ==
  /\ Typed /\ WriterInStep /\ StreamInStep
  /\ MeetsReader /\ ReaderInStep /\ DeliveredInStep

-----------------------------------------------------------------------------
(* Frames and their bytes                                                  *)

\* A frame is at least its header long, and a message within the limit.
LEMMA FrameSizes ==
  ASSUME NEW m \in Frames
  PROVE  /\ m.length \in Nat /\ m.fd \in Descriptors \cup {None}
         /\ Size(m) \in Nat \ {0} /\ Size(m) = HEADER + m.length
         /\ m.valid => m.length \in 1 .. MAX_MESSAGE_BYTES
<1>1. HEADER \in Nat \ {0} /\ MAX_MESSAGE_BYTES \in Nat /\ Lengths \subseteq Nat
  BY ChannelAssumption
<1>2. m.length \in Lengths /\ m.fd \in Descriptors \cup {None}
  BY DEF Frames
<1>3. m.valid => m.length \in 1 .. MAX_MESSAGE_BYTES
  BY DEF Frames
<1>4. Size(m) = HEADER + m.length
  BY DEF Size
<1>5. Size(m) \in Nat \ {0} /\ m.length \in Nat
  <2>1. m.length \in Nat
    BY <1>1, <1>2
  <2>2. HEADER + m.length \in Nat \ {0}
    BY <1>1, <2>1
  <2> QED
    BY <1>4, <2>1, <2>2, Zenon
<1> QED
  BY <1>2, <1>3, <1>4, <1>5, Zenon

\* The bytes first..last of a frame are as many.
LEMMA BytesLength ==
  ASSUME NEW n \in Nat \ {0}, NEW m \in Frames,
         NEW first \in Nat \ {0}, NEW last \in Nat, first <= last
  PROVE  /\ Bytes(n, m, first, last) \in Seq(Byte)
         /\ Len(Bytes(n, m, first, last)) = last - first + 1
<1> DEFINE b == Bytes(n, m, first, last)
<1>1. last - first + 1 \in Nat
  OBVIOUS
<1>2. \A k \in 1 .. last - first + 1 :
        [frame |-> n, at |-> first + k - 1,
         fd |-> IF first + k - 1 = 1 THEN m.fd ELSE None] \in Byte
  BY FrameSizes DEF Byte
<1>3. b \in [1 .. last - first + 1 -> Byte]
  BY <1>2 DEF Bytes
<1>4. b \in Seq(Byte)
  BY <1>1, <1>3
<1>5. Len(b) = last - first + 1
  BY <1>1, <1>3
<1> QED
  BY <1>4, <1>5

\* Each of them is in its place, the first with the descriptor.
LEMMA BytesInPlace ==
  ASSUME NEW n, NEW m, NEW first, NEW last, NEW k \in 1 .. last - first + 1
  PROVE  /\ Bytes(n, m, first, last)[k].frame = n
         /\ Bytes(n, m, first, last)[k].at = first + k - 1
         /\ Bytes(n, m, first, last)[k].fd = IF first + k - 1 = 1 THEN m.fd ELSE None
  BY DEF Bytes

\* Inside a frame, the next byte is the next of the frame.
LEMMA NextInFrame ==
  ASSUME NEW n \in DOMAIN frames, NEW k, NEW b,
         Follows(n, k, b), k # Size(frames[n])
  PROVE  b.frame = n /\ b.at = k + 1
  BY DEF Follows

\* The bytes that recv() takes of a frame are those of the frame, one after the
\* other, as long as it takes no more than the frame has left.
LEMMA RunOfOneFrame ==
  ASSUME Typed, StreamInStep,
         NEW n \in DOMAIN frames, NEW p \in Nat,
         NEW k \in 1 .. Len(stream), p + k <= Size(frames[n]),
         Follows(n, p, stream[1])
  PROVE  \A i \in 1 .. k : stream[i].frame = n /\ stream[i].at = p + i
<1> DEFINE astray == {i \in 1 .. k : ~(stream[i].frame = n /\ stream[i].at = p + i)}
<1>0. /\ Len(stream) \in Nat /\ frames \in Seq(Frames)
      /\ Size(frames[n]) \in Nat
  BY FrameSizes DEF Typed, TypeOK
<1>1. SUFFICES ASSUME astray # {} PROVE FALSE
  OBVIOUS
<1>2. PICK i \in astray : \A j \in astray : <<j, i>> \notin OpToRel(<, Nat)
  <2>1. astray \subseteq Nat
    OBVIOUS
  <2> QED
    BY <1>1, <2>1, NatLessThanWellFounded, WFMin, Zenon
<1>3. \A j \in astray : ~(j < i)
  <2>1. astray \subseteq Nat
    OBVIOUS
  <2> QED
    BY <1>2, <2>1, Zenon DEF OpToRel
<1>4. CASE i = 1
  BY <1>0, <1>4, NextInFrame
<1>5. CASE i # 1
  <2>0. i \in 1 .. k /\ k \in Nat
    OBVIOUS
  <2>1. i - 1 \in 1 .. k /\ i - 1 \notin astray
    <3>1. i - 1 \in 1 .. k /\ i - 1 < i
      BY <2>0, <1>5
    <3> QED
      BY <1>3, <3>1
  <2>2. stream[i - 1].frame = n /\ stream[i - 1].at = p + i - 1
    BY <2>1
  <2>3. i - 1 \in 1 .. Len(stream) - 1
    BY <1>0, <1>5
  <2>4. Follows(stream[i - 1].frame, stream[i - 1].at, stream[(i - 1) + 1])
    BY <2>3 DEF StreamInStep
  <2>5. Follows(n, p + i - 1, stream[i])
    BY <2>2, <2>4, <1>0
  <2>6. p + i - 1 # Size(frames[n])
    BY <1>0
  <2> QED
    BY <2>5, <2>6, <1>0, NextInFrame
<1> QED
  BY <1>4, <1>5

-----------------------------------------------------------------------------
(* Both ends of the socket                                                 *)

\* Taking bytes out of the socket leaves consecutive bytes in it.
LEMMA TakeKeepsStep ==
  ASSUME Typed, StreamInStep, NEW k \in Nat \ {0}, Take(k),
         UNCHANGED <<frames, written>>
  PROVE  /\ StreamInStep'
         /\ stream' \in Seq(Byte) /\ Len(stream') = Len(stream) - k
         /\ \A i \in 1 .. Len(stream) - k : stream'[i] = stream[k + i]
<1>1. stream \in Seq(Byte) /\ Len(stream) \in Nat /\ k <= Len(stream)
  BY DEF Typed, Take
<1>2. /\ stream' \in Seq(Byte) /\ Len(stream') = Len(stream) - k
      /\ \A i \in 1 .. Len(stream) - k : stream'[i] = stream[k + i]
  <2>1. \A i \in k + 1 .. Len(stream) : stream[i] \in Byte
    BY <1>1
  <2>2. stream' = SubSeq(stream, k + 1, Len(stream))
    BY DEF Take
  <2>3. k + 1 \in Int /\ Len(stream) \in Int
    BY <1>1
  <2>4. /\ SubSeq(stream, k + 1, Len(stream)) \in Seq(Byte)
        /\ Len(SubSeq(stream, k + 1, Len(stream))) =
             IF k + 1 <= Len(stream) THEN Len(stream) - (k + 1) + 1 ELSE 0
        /\ \A i \in 1 .. Len(stream) - (k + 1) + 1 :
             SubSeq(stream, k + 1, Len(stream))[i] = stream[k + 1 + i - 1]
    BY <2>1, <2>3, SubSeqProperties
  <2>5. \A i \in 1 .. Len(stream) - k : k + 1 + i - 1 = k + i
    BY <1>1
  <2> QED
    BY <1>1, <2>2, <2>4, <2>5
<1>0. frames' = frames /\ written' = written
  OBVIOUS
<1>3. ASSUME NEW i \in DOMAIN stream'
      PROVE  OfItsFrame(stream[i])'
  <2>1. i \in 1 .. Len(stream) - k /\ k + i \in DOMAIN stream
    BY <1>1, <1>2
  <2>2. OfItsFrame(stream[k + i]) /\ stream'[i] = stream[k + i]
    BY <1>2, <2>1 DEF StreamInStep
  <2> QED
    BY <1>0, <2>2 DEF OfItsFrame, Size
<1>4. ASSUME NEW i \in 1 .. Len(stream') - 1
      PROVE  Follows(stream[i].frame, stream[i].at, stream[i + 1])'
  <2>1. k + i \in 1 .. Len(stream) - 1 /\ i + 1 \in 1 .. Len(stream) - k
    BY <1>1, <1>2
  <2>2. Follows(stream[k + i].frame, stream[k + i].at, stream[(k + i) + 1])
    BY <2>1 DEF StreamInStep
  <2>3. stream'[i] = stream[k + i] /\ stream'[i + 1] = stream[(k + i) + 1]
    BY <1>1, <1>2, <2>1
  <2> QED
    BY <1>0, <2>2, <2>3 DEF Follows, Size
<1>5. stream' # <<>> =>
        stream'[Len(stream')].frame = Len(frames') /\ stream'[Len(stream')].at = written'
  <2>1. SUFFICES ASSUME stream' # <<>>
                 PROVE  /\ stream'[Len(stream')].frame = Len(frames')
                        /\ stream'[Len(stream')].at = written'
    OBVIOUS
  <2>2. Len(stream') \in 1 .. Len(stream) - k
    BY <1>1, <1>2, <2>1
  <2>3. stream'[Len(stream')] = stream[Len(stream)] /\ stream # <<>>
    BY <1>1, <1>2, <2>2
  <2> QED
    BY <1>0, <2>3 DEF StreamInStep
<1> QED
  BY <1>2, <1>3, <1>4, <1>5 DEF StreamInStep

\* The bytes first..last of the n-th frame, m, are put in the socket, right after
\* those that are already written.
Puts(n, m, first, last) ==
  /\ frames' \in Seq(Frames) /\ n = Len(frames') /\ m = frames'[n]
  /\ Len(frames) <= Len(frames')
  /\ \A i \in DOMAIN frames : frames'[i] = frames[i]
  /\ stream' = stream \o Bytes(n, m, first, last)
  /\ written' = last
  /\ \/ n = Len(frames) /\ first = written + 1
     \/ n = Len(frames) + 1 /\ first = 1 /\ AllWritten
  /\ UNCHANGED receiving

\* They are consecutive with those in the socket, or the next that recv() meets.
LEMMA PutKeepsStep ==
  ASSUME Typed, StreamInStep, MeetsReader, receiver \notin Ended,
         NEW n \in Nat \ {0}, NEW m \in Frames,
         NEW first \in Nat \ {0}, NEW last \in Nat,
         first <= last, last <= Size(m),
         Puts(n, m, first, last)
  PROVE  stream' \in Seq(Byte) /\ StreamInStep' /\ MeetsReader'
<1> DEFINE b == Bytes(n, m, first, last)
<1>1. /\ frames \in Seq(Frames) /\ Len(frames) \in Nat /\ DOMAIN frames = 1 .. Len(frames)
      /\ stream \in Seq(Byte) /\ Len(stream) \in Nat /\ DOMAIN stream = 1 .. Len(stream)
      /\ written \in Nat
  BY DEF Typed, TypeOK
<1>1a. /\ frames' \in Seq(Frames) /\ Len(frames') = n /\ DOMAIN frames' = 1 .. n
       /\ frames'[n] = m /\ written' = last
       /\ \A i \in DOMAIN frames : i \in DOMAIN frames' /\ frames'[i] = frames[i]
       /\ \/ n = Len(frames) /\ first = written + 1
          \/ n = Len(frames) + 1 /\ first = 1 /\ AllWritten
  <2>1. frames' \in Seq(Frames) /\ n = Len(frames') /\ frames'[n] = m /\ written' = last
    BY DEF Puts
  <2>2. DOMAIN frames' = 1 .. n
    BY <2>1
  <2>3. Len(frames) <= n /\ \A i \in DOMAIN frames : frames'[i] = frames[i]
    BY DEF Puts
  <2>4. \A i \in DOMAIN frames : i \in DOMAIN frames'
    BY <1>1, <2>2, <2>3
  <2>5. \/ n = Len(frames) /\ first = written + 1
        \/ n = Len(frames) + 1 /\ first = 1 /\ AllWritten
    BY DEF Puts
  <2> QED
    BY <2>1, <2>2, <2>3, <2>4, <2>5
<1>1b. receiver' = receiver /\ got' = got /\ received' = received
  BY DEF Puts, receiving
<1>2. /\ b \in Seq(Byte) /\ Len(b) = last - first + 1
      /\ \A k \in 1 .. last - first + 1 :
           /\ b[k].frame = n /\ b[k].at = first + k - 1
           /\ b[k].fd = IF first + k - 1 = 1 THEN m.fd ELSE None
  <2>1. b \in Seq(Byte) /\ Len(b) = last - first + 1
    BY BytesLength
  <2>2. ASSUME NEW k \in 1 .. last - first + 1
        PROVE  /\ b[k].frame = n /\ b[k].at = first + k - 1
               /\ b[k].fd = IF first + k - 1 = 1 THEN m.fd ELSE None
    BY BytesInPlace
  <2> QED
    BY <2>1, <2>2, Zenon
<1> HIDE DEF b
<1>3. /\ stream' \in Seq(Byte) /\ Len(stream') = Len(stream) + Len(b)
      /\ \A i \in 1 .. Len(stream) + Len(b) :
           stream'[i] = IF i <= Len(stream) THEN stream[i] ELSE b[i - Len(stream)]
  <2>1. stream' = stream \o b
    BY DEF b, Puts
  <2>2. b \in Seq(Byte) /\ stream \in Seq(Byte)
    BY <1>1, <1>2
  <2>3. /\ stream \o b \in Seq(Byte)
        /\ Len(stream \o b) = Len(stream) + Len(b)
        /\ \A i \in 1 .. Len(stream) + Len(b) : (stream \o b)[i] =
             IF i <= Len(stream) THEN stream[i] ELSE b[i - Len(stream)]
    BY <2>2, ConcatProperties
  <2> QED
    BY <2>1, <2>3, Zenon
<1>4. Len(b) \in Nat \ {0} /\ Len(stream') \in Nat \ {0} /\ DOMAIN stream' = 1 .. Len(stream')
  BY <1>1, <1>2, <1>3
<1>0. Len(stream) \in Nat /\ Len(stream') = Len(stream) + (last - first + 1)
  BY <1>1, <1>2, <1>3
\* what was there
<1>5. ASSUME NEW i \in 1 .. Len(stream)
      PROVE  stream'[i] = stream[i] /\ i \in DOMAIN stream'
  <2>1. i \in 1 .. Len(stream) + Len(b) /\ i <= Len(stream) /\ i \in 1 .. Len(stream')
    BY <1>0, <1>2
  <2>2. stream'[i] = stream[i]
    BY <1>3, <2>1
  <2> QED
    BY <1>4, <2>1, <2>2
\* what is put there
<1>6. ASSUME NEW k \in 1 .. last - first + 1
      PROVE  /\ stream'[Len(stream) + k].frame = n
             /\ stream'[Len(stream) + k].at = first + k - 1
             /\ stream'[Len(stream) + k].fd = IF first + k - 1 = 1 THEN m.fd ELSE None
  <2>1. Len(stream) + k \in 1 .. Len(stream) + Len(b) /\ ~(Len(stream) + k <= Len(stream))
    BY <1>1, <1>2
  <2>2. stream'[Len(stream) + k] = b[(Len(stream) + k) - Len(stream)]
    BY <1>3, <2>1
  <2>3. (Len(stream) + k) - Len(stream) = k
    BY <1>1
  <2>4. stream'[Len(stream) + k] = b[k]
    BY <2>2, <2>3
  <2> QED
    BY <1>2, <2>4
<1>7. ASSUME NEW i \in DOMAIN stream'
      PROVE  OfItsFrame(stream[i])'
  <2>1. CASE i <= Len(stream)
    <3>1. OfItsFrame(stream[i])
      BY <1>1, <1>4, <2>1 DEF StreamInStep
    <3>2. stream[i].frame \in DOMAIN frames' /\ frames'[stream[i].frame] = frames[stream[i].frame]
      BY <1>1, <1>1a, <3>1 DEF OfItsFrame
    <3>3. stream'[i] = stream[i]
      BY <1>1, <1>4, <1>5, <2>1
    <3> QED
      BY <3>1, <3>2, <3>3 DEF OfItsFrame, Size
  <2>2. CASE i > Len(stream)
    <3>1. PICK k \in 1 .. last - first + 1 : i = Len(stream) + k
      <4>1. i - Len(stream) \in 1 .. last - first + 1 /\ i = Len(stream) + (i - Len(stream))
        <5>1. i \in 1 .. Len(stream')
          BY <1>4
        <5> QED
          BY <1>0, <2>2, <5>1
      <4> QED
        BY <4>1
    <3>2. first + k - 1 <= last /\ first + k - 1 \in Nat \ {0}
      OBVIOUS
    <3>3. /\ stream'[i].frame = n /\ stream'[i].at = first + k - 1
          /\ stream'[i].fd = IF first + k - 1 = 1 THEN m.fd ELSE None
      BY <1>6, <3>1
    <3>4. Size(m) \in Nat /\ last <= Size(m) /\ first + k - 1 <= Size(m)
      BY <1>1, <3>2, FrameSizes
    <3> QED
      BY <1>1a, <3>3, <3>4 DEF OfItsFrame, Size
  <2> QED
    BY <1>1, <1>4, <2>1, <2>2
\* the first of them
<1>8. /\ stream'[Len(stream) + 1].frame = n
      /\ stream'[Len(stream) + 1].at = first
  <2>1. 1 \in 1 .. last - first + 1 /\ first + 1 - 1 = first
    OBVIOUS
  <2> QED
    BY <1>6, <2>1
<1>9. ASSUME NEW j, NEW k, j = Len(frames), k = written, j # 0 \/ n = Len(frames)
      PROVE  Follows(j, k, stream'[Len(stream) + 1])
  <2>1. CASE n = Len(frames) /\ first = written + 1
    BY <1>8, <1>9, <2>1 DEF Follows
  <2>2. CASE n = Len(frames) + 1 /\ first = 1 /\ AllWritten
    <3>1. Len(frames) # 0
      BY <1>1, <1>1a, <1>9, <2>2
    <3>2. Len(frames) \in DOMAIN frames /\ written = Size(frames[Len(frames)])
      BY <1>1, <3>1, <2>2 DEF AllWritten
    <3> QED
      BY <1>8, <1>9, <2>2, <3>2 DEF Follows
  <2> QED
    BY <1>1a, <2>1, <2>2
<1>10. ASSUME NEW j, NEW k, NEW i \in DOMAIN stream', Follows(j, k, stream'[i])
       PROVE  Follows(j, k, stream[i])'
  BY <1>1, <1>1a, <1>10 DEF Follows, Size
<1>11. ASSUME NEW i \in 1 .. Len(stream') - 1
       PROVE  Follows(stream[i].frame, stream[i].at, stream[i + 1])'
  <2>1. CASE i < Len(stream)
    <3>1. i \in 1 .. Len(stream) - 1 /\ i + 1 \in 1 .. Len(stream)
      BY <1>1, <1>4, <2>1
    <3>2. Follows(stream[i].frame, stream[i].at, stream[i + 1])
      BY <3>1 DEF StreamInStep
    <3>3. stream'[i] = stream[i] /\ stream'[i + 1] = stream[i + 1]
      BY <1>1, <1>5, <3>1
    <3> QED
      BY <1>1a, <3>2, <3>3 DEF Follows, Size
  <2>2. CASE i = Len(stream)
    <3>1. stream # <<>> /\ stream'[i] = stream[i]
      BY <1>1, <1>5, <2>2
    <3>2. stream[i].frame = Len(frames) /\ stream[i].at = written /\ Len(frames) # 0
      BY <1>1, <3>1, <2>2 DEF StreamInStep, OfItsFrame
    <3>3. Follows(stream'[i].frame, stream'[i].at, stream'[i + 1])
      BY <1>9, <2>2, <3>1, <3>2
    <3> QED
      BY <1>1a, <3>3 DEF Follows, Size
  <2>3. CASE i > Len(stream)
    <3>1. PICK k \in 1 .. last - first : i = Len(stream) + k
      <4>1. i - Len(stream) \in 1 .. last - first /\ i = Len(stream) + (i - Len(stream))
        BY <1>0, <2>3
      <4> QED
        BY <4>1
    <3>2. k \in 1 .. last - first + 1 /\ k + 1 \in 1 .. last - first + 1
      OBVIOUS
    <3>3. /\ stream'[i].frame = n /\ stream'[i].at = first + k - 1
          /\ stream'[Len(stream) + (k + 1)].frame = n
          /\ stream'[Len(stream) + (k + 1)].at = first + (k + 1) - 1
      BY <1>6, <3>1, <3>2
    <3>4. Len(stream) + (k + 1) = i + 1 /\ first + (k + 1) - 1 = (first + k - 1) + 1
      BY <1>1, <3>1
    <3> QED
      BY <3>3, <3>4 DEF Follows
  <2> QED
    <3>1. i < Len(stream) \/ i = Len(stream) \/ i > Len(stream)
      BY <1>0
    <3> QED
      BY <2>1, <2>2, <2>3, <3>1, Zenon
<1>12. stream'[Len(stream')].frame = Len(frames') /\ stream'[Len(stream')].at = written'
  <2>1. last - first + 1 \in 1 .. last - first + 1 /\ first + (last - first + 1) - 1 = last
    OBVIOUS
  <2>2. Len(stream') = Len(stream) + (last - first + 1)
    BY <1>2, <1>3
  <2> QED
    BY <1>1a, <1>6, <2>1, <2>2
<1>13. StreamInStep'
  BY <1>7, <1>11, <1>12 DEF StreamInStep
<1>14. MeetsReader'
  <2>1. receiver' \notin Ended /\ stream' # <<>>
    BY <1>4, <1>1b
  <2>2. Current' = Current /\ Place' = Place
    BY <1>1b DEF Current, Place
  <2>3. Follows(Current, Place, stream'[1])
    <3>1. CASE stream # <<>>
      <4>1. stream'[1] = stream[1]
        BY <1>1, <1>5, <3>1
      <4> QED
        BY <3>1, <4>1 DEF MeetsReader
    <3>2. CASE stream = <<>> /\ Current = Len(frames) /\ Place = written
      <4>1. Len(frames) # 0 /\ Len(stream) + 1 = 1
        BY <1>1, <3>2 DEF Current, Typed
      <4> QED
        BY <1>9, <3>2, <4>1
    <3>3. CASE stream = <<>> /\ Current = Len(frames) + 1 /\ Place = 0 /\ AllWritten
      <4>1. Len(stream) + 1 = 1
        BY <1>1, <3>3
      <4>2. n = Len(frames) + 1 /\ first = 1
        <5>1. SUFFICES ASSUME n = Len(frames), first = written + 1
                       PROVE  FALSE
          BY <1>1a
        <5>2. frames # <<>> /\ frames'[n] = frames[n]
          BY <1>1, <1>1a, <5>1
        <5>3. written = Size(frames'[n]) /\ Size(frames'[n]) \in Nat
          BY <1>1, <3>3, <5>1, <5>2, FrameSizes DEF AllWritten
        <5> QED
          BY <1>1a, <5>1, <5>3
      <4> QED
        BY <1>8, <3>3, <4>1, <4>2 DEF Follows
    <3> QED
      BY <3>1, <3>2, <3>3 DEF MeetsReader
  <2> QED
    BY <1>1a, <2>1, <2>2, <2>3 DEF MeetsReader, Follows, Size
<1> QED
  BY <1>3, <1>13, <1>14

-----------------------------------------------------------------------------
(* The invariant is kept: send()                                           *)

\* Of the frames fs, w bytes of the last being written, the complete ones.
Whole(fs, w) ==
  IF fs # <<>> /\ w < Size(fs[Len(fs)]) THEN SubSeq(fs, 1, Len(fs) - 1) ELSE fs

\* They are all of them, or all but the last.
LEMMA WholeFrames ==
  ASSUME NEW fs \in Seq(Frames), NEW w \in Nat
  PROVE  /\ Whole(fs, w) \in Seq(Frames)
         /\ \A i \in 1 .. Len(Whole(fs, w)) : i \in 1 .. Len(fs) /\ Whole(fs, w)[i] = fs[i]
         /\ IF fs # <<>> /\ w < Size(fs[Len(fs)])
            THEN Len(Whole(fs, w)) = Len(fs) - 1
            ELSE Whole(fs, w) = fs
         /\ Len(fs) - 1 <= Len(Whole(fs, w)) /\ Len(Whole(fs, w)) <= Len(fs)
<1>1. CASE fs # <<>> /\ w < Size(fs[Len(fs)])
  <2>1. Len(fs) \in Nat /\ Len(fs) - 1 \in Nat /\ \A i \in 1 .. Len(fs) - 1 : fs[i] \in Frames
    BY <1>1
  <2>2. Whole(fs, w) = SubSeq(fs, 1, Len(fs) - 1)
    BY <1>1 DEF Whole
  <2>3. /\ SubSeq(fs, 1, Len(fs) - 1) \in Seq(Frames)
        /\ Len(SubSeq(fs, 1, Len(fs) - 1)) = IF 1 <= Len(fs) - 1 THEN Len(fs) - 1 - 1 + 1 ELSE 0
        /\ \A i \in 1 .. Len(fs) - 1 - 1 + 1 :
             SubSeq(fs, 1, Len(fs) - 1)[i] = fs[1 + i - 1]
    BY <2>1, SubSeqProperties
  <2>4. Len(Whole(fs, w)) = Len(fs) - 1
    <3>1. (IF 1 <= Len(fs) - 1 THEN Len(fs) - 1 - 1 + 1 ELSE 0) = Len(fs) - 1
      <4>1. \A n \in Nat : n - 1 \in Nat =>
              (IF 1 <= n - 1 THEN n - 1 - 1 + 1 ELSE 0) = n - 1
        OBVIOUS
      <4> QED
        BY <2>1, <4>1
    <3> QED
      BY <2>2, <2>3, <3>1, Zenon
  <2>5. ASSUME NEW i \in 1 .. Len(fs) - 1
        PROVE  i \in 1 .. Len(fs) /\ Whole(fs, w)[i] = fs[i]
    <3>1. i \in 1 .. Len(fs) - 1 - 1 + 1 /\ 1 + i - 1 = i /\ i \in 1 .. Len(fs)
      BY <2>1
    <3> QED
      BY <2>2, <2>3, <3>1
  <2> QED
    <3>1. Whole(fs, w) \in Seq(Frames)
      BY <2>2, <2>3, Zenon
    <3> HIDE DEF Whole
    <3> QED
      BY <1>1, <2>1, <2>4, <2>5, <3>1
<1>2. CASE ~(fs # <<>> /\ w < Size(fs[Len(fs)]))
  BY <1>2 DEF Whole
<1> QED
  BY <1>1, <1>2

\* The messages wholly sent, before and after a step.
LEMMA SentFrames ==
  Sent = Whole(frames, written) /\ Sent' = Whole(frames', written')
  BY DEF Sent, Whole, Size

\* sendmsg begins a frame.
LEMMA SendKeepsInvariant ==
  ASSUME IInv, NEW m \in Frames, Send(m)
  PROVE  IInv'
<1>1. PICK k \in 1 .. Size(m) :
        /\ Room(k)
        /\ stream' = stream \o Bytes(Len(frames) + 1, m, 1, k)
        /\ AfterWrite(m, k)
  BY DEF Send
<1>2. /\ frames \in Seq(Frames) /\ Len(frames) \in Nat /\ written \in Nat
      /\ received \in Seq([message : Frames, fd : Descriptors \cup {None}])
      /\ Len(received) \in Nat /\ stream \in Seq(Byte) /\ Len(stream) \in Nat
      /\ Size(m) \in Nat \ {0} /\ k \in Nat \ {0} /\ k <= Size(m)
  BY FrameSizes DEF IInv, Typed, TypeOK
<1>3. /\ frames' = Append(frames, m) /\ written' = k
      /\ sender' = IF k = Size(m) THEN "idle" ELSE "writing"
      /\ UNCHANGED receiving /\ receiver \notin Ended /\ AllWritten
  BY <1>1 DEF Send, AfterWrite, IInv, WriterInStep
<1>4. /\ frames' \in Seq(Frames) /\ Len(frames') = Len(frames) + 1
      /\ frames'[Len(frames) + 1] = m
      /\ \A i \in 1 .. Len(frames) : frames'[i] = frames[i]
  BY <1>2, <1>3
<1>5. stream' \in Seq(Byte) /\ StreamInStep' /\ MeetsReader'
  <2> DEFINE n == Len(frames) + 1
  <2>1. n \in Nat \ {0} /\ n = Len(frames')
    BY <1>2, <1>4
  <2>2. Puts(n, m, 1, k)
    BY <1>1, <1>2, <1>3, <1>4 DEF Puts
  <2> HIDE DEF n
  <2> QED
    BY <1>2, <1>3, <2>1, <2>2, PutKeepsStep DEF IInv
<1>6. Typed'
  <2>1. Len(stream') <= Capacity
    <3>1. /\ Bytes(Len(frames) + 1, m, 1, k) \in Seq(Byte)
          /\ Len(Bytes(Len(frames) + 1, m, 1, k)) = k - 1 + 1
      <4> DEFINE n == Len(frames) + 1
      <4>1. n \in Nat \ {0}
        BY <1>2
      <4> HIDE DEF n
      <4>2. Bytes(n, m, 1, k) \in Seq(Byte) /\ Len(Bytes(n, m, 1, k)) = k - 1 + 1
        <5>1. 1 \in Nat \ {0} /\ k \in Nat /\ 1 <= k
          BY <1>2
        <5> QED
          BY <4>1, <5>1, BytesLength, Zenon
      <4> QED
        BY <4>2 DEF n
    <3>2. Len(stream \o Bytes(Len(frames) + 1, m, 1, k)) = Len(stream) + k
      BY <1>2, <3>1
    <3> QED
      BY <1>1, <3>2 DEF Room
  <2> QED
    BY <1>2, <1>3, <1>4, <1>5, <2>1 DEF IInv, Typed, TypeOK, receiving, Ended
<1>7. WriterInStep'
  BY <1>2, <1>3, <1>4 DEF WriterInStep, AllWritten, Size
<1>8. ReaderInStep'
  <2>1. UNCHANGED <<receiver, got, fd, length, received, Current>>
    BY <1>3 DEF receiving, Current
  <2>2. Current \in DOMAIN frames => Current \in DOMAIN frames' /\ frames'[Current] = frames[Current]
    BY <1>2, <1>4
  <2> QED
    BY <2>1, <2>2 DEF IInv, ReaderInStep, OfOneFrame
<1>9. DeliveredInStep'
  <2>1. received' = received /\ Len(received) <= Len(frames)
    BY <1>2, <1>3, SentFrames, WholeFrames DEF receiving, IInv, DeliveredInStep
  <2>2. Len(received) <= Len(Sent')
    <3>1. frames' \in Seq(Frames) /\ written' \in Nat
      BY <1>2, <1>3, <1>4
    <3>2. Len(Whole(frames', written')) >= Len(frames') - 1
      BY <3>1, WholeFrames
    <3> QED
      BY <1>2, <1>4, <2>1, <3>2, SentFrames
  <2>3. \A i \in DOMAIN received : frames'[i] = frames[i]
    <3>1. \A i \in DOMAIN received : i \in 1 .. Len(frames)
      BY <1>2, <2>1
    <3> QED
      BY <1>4, <3>1
  <2> QED
    BY <2>1, <2>2, <2>3 DEF IInv, DeliveredInStep
<1> QED
  BY <1>5, <1>6, <1>7, <1>8, <1>9 DEF IInv

\* Plain writes go on with it.
LEMMA WriteKeepsInvariant ==
  ASSUME IInv, Write
  PROVE  IInv'
<1> DEFINE n == Len(frames)
           m == frames[n]
<1>1. PICK k \in 1 .. Size(m) - written :
        /\ Room(k)
        /\ stream' = stream \o Rest(n, m, k)
        /\ AfterWrite(m, written + k)
  BY DEF Write
<1>2. /\ frames \in Seq(Frames) /\ frames # <<>> /\ n \in Nat \ {0} /\ m \in Frames
      /\ Size(m) \in Nat \ {0} /\ written \in 1 .. Size(m) /\ ~AllWritten
      /\ received \in Seq([message : Frames, fd : Descriptors \cup {None}])
      /\ Len(received) \in Nat /\ stream \in Seq(Byte) /\ Len(stream) \in Nat
  <2>1. frames \in Seq(Frames) /\ frames # <<>> /\ written \in 1 .. Size(m) /\ ~AllWritten
    BY DEF IInv, Typed, TypeOK, WriterInStep, Write
  <2>2. n \in Nat \ {0} /\ m \in Frames
    BY <2>1
  <2> QED
    BY <2>1, <2>2, FrameSizes DEF IInv, Typed
<1>3. /\ frames' = frames /\ written' = written + k
      /\ sender' = IF written + k = Size(m) THEN "idle" ELSE "writing"
      /\ UNCHANGED receiving /\ receiver \notin Ended
  BY <1>1 DEF Write, AfterWrite
<1>4. /\ written + 1 \in Nat \ {0} /\ written + k \in Nat /\ written + 1 <= written + k
      /\ written + k <= Size(m) /\ written + k \in 1 .. Size(m)
      /\ (written + k) - (written + 1) + 1 = k
  BY <1>2
<1> HIDE DEF n, m
<1>5. stream' \in Seq(Byte) /\ StreamInStep' /\ MeetsReader'
  <2>1. Puts(n, m, written + 1, written + k)
    BY <1>1, <1>2, <1>3 DEF Puts, Rest, n, m
  <2>2. Typed /\ StreamInStep /\ MeetsReader
    BY DEF IInv
  <2> QED
    BY <1>2, <1>3, <1>4, <2>1, <2>2, PutKeepsStep, Zenon
<1>6. Typed'
  <2>1. Len(stream') <= Capacity
    <3>1. /\ Bytes(n, m, written + 1, written + k) \in Seq(Byte)
          /\ Len(Bytes(n, m, written + 1, written + k)) = (written + k) - (written + 1) + 1
      <4>1. /\ n \in Nat \ {0} /\ m \in Frames /\ written + 1 \in Nat \ {0}
            /\ written + k \in Nat /\ written + 1 <= written + k
        BY <1>2, <1>4
      <4> QED
        BY <4>1, BytesLength, Zenon
    <3>2. Len(stream \o Bytes(n, m, written + 1, written + k)) = Len(stream) + k
      <4> DEFINE b == Bytes(n, m, written + 1, written + k)
      <4>1. b \in Seq(Byte) /\ Len(b) = k
        BY <1>4, <3>1
      <4> HIDE DEF b
      <4>2. Len(stream \o b) = Len(stream) + Len(b)
        BY <1>2, <4>1, ConcatProperties
      <4> QED
        BY <4>1, <4>2 DEF b
    <3> QED
      BY <1>1, <3>2 DEF Room, Rest
  <2> QED
    BY <1>2, <1>3, <1>4, <1>5, <2>1 DEF IInv, Typed, TypeOK, receiving, Ended
<1>7. WriterInStep'
  BY <1>2, <1>3, <1>4 DEF WriterInStep, AllWritten, Size, n, m
<1>8. ReaderInStep'
  <2>1. UNCHANGED <<receiver, got, fd, length, received, Current, frames>>
    BY <1>3 DEF receiving, Current
  <2> QED
    BY <2>1 DEF IInv, ReaderInStep, OfOneFrame
<1>9. DeliveredInStep'
  <2>1. written \in Nat /\ written' \in Nat
    BY <1>2, <1>3, <1>4
  <2>2. Len(Whole(frames, written)) = n - 1
    BY <1>2, <2>1, WholeFrames DEF AllWritten, n, m
  <2>3. Len(Whole(frames, written')) >= n - 1 /\ Len(Whole(frames, written')) \in Nat
    BY <1>2, <2>1, WholeFrames DEF n
  <2>4. Len(received) <= Len(Sent')
    BY <1>2, <1>3, <2>2, <2>3, SentFrames DEF IInv, DeliveredInStep
  <2> QED
    BY <1>3, <2>4 DEF IInv, DeliveredInStep, receiving
<1> QED
  BY <1>5, <1>6, <1>7, <1>8, <1>9 DEF IInv

\* The sender ends, in the middle of a frame or not.
LEMMA SenderEndsKeepsInvariant ==
  ASSUME IInv, SenderEnds
  PROVE  IInv'
<1>1. UNCHANGED <<frames, written, stream, receiver, got, fd, length, received>> /\ sender' = "ended"
  BY DEF SenderEnds, receiving
<1>2. UNCHANGED <<Sent, Current, Place, AllWritten>>
  BY <1>1 DEF Sent, Current, Place, AllWritten, Size
<1>3. Typed'
  BY <1>1 DEF IInv, Typed, TypeOK
<1>4. WriterInStep'
  BY <1>1, <1>2 DEF IInv, WriterInStep, Size
<1>5. StreamInStep' /\ MeetsReader'
  BY <1>1, <1>2 DEF IInv, StreamInStep, MeetsReader, OfItsFrame, Follows, Size
<1>6. ReaderInStep' /\ DeliveredInStep'
  BY <1>1, <1>2 DEF IInv, ReaderInStep, DeliveredInStep, OfOneFrame
<1> QED
  BY <1>3, <1>4, <1>5, <1>6 DEF IInv

-----------------------------------------------------------------------------
(* The invariant is kept: recv()                                           *)

\* The frame recv() is in has begun, when it holds bytes or there are some.
LEMMA CurrentBegun ==
  ASSUME IInv, receiver \notin Ended, stream # <<>> \/ receiver # "recvmsg"
  PROVE  Current \in DOMAIN frames /\ frames[Current] \in Frames
<1>1. frames \in Seq(Frames)
  BY DEF IInv, Typed, TypeOK
<1>2. CASE receiver \in {"header", "payload"}
  BY <1>1, <1>2 DEF IInv, ReaderInStep
<1>3. CASE receiver = "recvmsg"
  <2>1. Place = 0 /\ stream # <<>> /\ Follows(Current, 0, stream[1])
    BY <1>3 DEF Place, IInv, MeetsReader
  <2>2. stream \in Seq(Byte) /\ 1 \in DOMAIN stream
    BY <2>1 DEF IInv, Typed
  <2>3. stream[1].frame \in DOMAIN frames
    BY <2>2 DEF IInv, StreamInStep, OfItsFrame
  <2>4. CASE stream[1].frame = Current
    BY <1>1, <2>3, <2>4
  <2>5. CASE stream[1].frame # Current
    <3>1. Current \in DOMAIN frames /\ 0 = Size(frames[Current])
      BY <2>1, <2>5 DEF Follows
    <3>2. frames[Current] \in Frames
      BY <1>1, <3>1
    <3> QED
      BY <3>1, <3>2, FrameSizes
  <2> QED
    BY <2>4, <2>5
<1> QED
  BY <1>2, <1>3 DEF IInv, Typed, TypeOK

\* What recv() takes is the frame it is in, from its place on, and what is left
\* comes after.
LEMMA TakenInStep ==
  ASSUME IInv, receiver \notin Ended, NEW k \in Nat \ {0}, Take(k),
         UNCHANGED <<frames, written>>,
         Current \in DOMAIN frames => Place + k <= Size(frames[Current])
  PROVE  /\ Current \in DOMAIN frames /\ frames[Current] \in Frames
         /\ k <= Len(stream) /\ Len(stream) \in Nat /\ Place \in Nat
         /\ \A i \in 1 .. k : stream[i].frame = Current /\ stream[i].at = Place + i
         /\ StreamInStep' /\ stream' \in Seq(Byte) /\ Len(stream') <= Len(stream)
         /\ IF stream' # <<>>
            THEN Follows(Current, Place + k, stream'[1])
            ELSE Current = Len(frames) /\ Place + k = written
<1>1. /\ frames \in Seq(Frames) /\ stream \in Seq(Byte) /\ Len(stream) \in Nat
      /\ got \in Seq(Byte) /\ Len(got) \in Nat /\ HEADER \in Nat \ {0}
      /\ k <= Len(stream) /\ stream # <<>> /\ k \in 1 .. Len(stream)
  BY ChannelAssumption DEF IInv, Typed, TypeOK, Take
<1>2. Place \in Nat
  BY <1>1 DEF Place
<1>3. Current \in DOMAIN frames /\ frames[Current] \in Frames
  BY <1>1, CurrentBegun
<1>4. Follows(Current, Place, stream[1])
  BY <1>1 DEF IInv, MeetsReader
<1>5. \A i \in 1 .. k : stream[i].frame = Current /\ stream[i].at = Place + i
  <2> DEFINE n == Current
             p == Place
  <2>1. n \in DOMAIN frames /\ p \in Nat /\ p + k <= Size(frames[n]) /\ Follows(n, p, stream[1])
    BY <1>2, <1>3, <1>4
  <2> HIDE DEF n, p
  <2>2. \A i \in 1 .. k : stream[i].frame = n /\ stream[i].at = p + i
    BY <1>1, <2>1, RunOfOneFrame DEF IInv
  <2> QED
    BY <2>2 DEF n, p
<1>6. /\ StreamInStep' /\ stream' \in Seq(Byte) /\ Len(stream') = Len(stream) - k
      /\ \A i \in 1 .. Len(stream) - k : stream'[i] = stream[k + i]
  BY TakeKeepsStep DEF IInv
<1>7. stream[k].frame = Current /\ stream[k].at = Place + k
  BY <1>1, <1>5
<1>8. CASE stream' # <<>>
  <2>1. Len(stream) - k \in Nat \ {0} /\ 1 \in 1 .. Len(stream) - k
    BY <1>1, <1>6, <1>8
  <2>2. stream'[1] = stream[k + 1] /\ k \in 1 .. Len(stream) - 1
    BY <1>1, <1>6, <2>1
  <2>3. Follows(stream[k].frame, stream[k].at, stream[k + 1])
    BY <2>2 DEF IInv, StreamInStep
  <2> QED
    BY <1>1, <1>2, <1>3, <1>5, <1>6, <1>7, <1>8, <2>2, <2>3
<1>9. CASE stream' = <<>>
  <2>1. k = Len(stream)
    BY <1>1, <1>6, <1>9
  <2>2. stream[k].frame = Len(frames) /\ stream[k].at = written
    BY <1>1, <2>1 DEF IInv, StreamInStep
  <2> QED
    BY <1>1, <1>2, <1>3, <1>5, <1>6, <1>7, <1>9, <2>2
<1> QED
  BY <1>8, <1>9

\* The part of the invariant that is the sender's, while it waits.
LEMMA SenderWaits ==
  ASSUME IInv, UNCHANGED <<sender, frames, written>>
  PROVE  WriterInStep' /\ Sent' = Sent /\ (AllWritten <=> AllWritten')
  BY DEF IInv, WriterInStep, AllWritten, Sent, Size

\* The first k bytes of the socket.
LEMMA FirstBytes ==
  ASSUME Typed, NEW k \in Nat \ {0}, k <= Len(stream)
  PROVE  /\ SubSeq(stream, 1, k) \in Seq(Byte) /\ Len(SubSeq(stream, 1, k)) = k
         /\ \A i \in 1 .. k : SubSeq(stream, 1, k)[i] = stream[i]
<1>1. stream \in Seq(Byte) /\ Len(stream) \in Nat
  BY DEF Typed
<1>2. 1 \in Int /\ k \in Int /\ \A i \in 1 .. k : stream[i] \in Byte
  BY <1>1
<1>3. /\ SubSeq(stream, 1, k) \in Seq(Byte)
      /\ Len(SubSeq(stream, 1, k)) = IF 1 <= k THEN k - 1 + 1 ELSE 0
      /\ \A i \in 1 .. k - 1 + 1 : SubSeq(stream, 1, k)[i] = stream[1 + i - 1]
  BY <1>2, SubSeqProperties
<1>4. \A i \in 1 .. k : i \in 1 .. k - 1 + 1 /\ 1 + i - 1 = i
  OBVIOUS
<1> QED
  BY <1>3, <1>4

\* Of bytes of which only the first may carry a descriptor, recvmsg receives it.
LEMMA CarriedByFirst ==
  ASSUME NEW bytes \in Seq(Byte), Len(bytes) > 0,
         \A i \in 2 .. Len(bytes) : bytes[i].fd = None
  PROVE  Carried(bytes) = bytes[1].fd
<1> DEFINE with == {i \in DOMAIN bytes : bytes[i].fd # None}
<1>1. DOMAIN bytes = 1 .. Len(bytes) /\ Len(bytes) \in Nat /\ 1 \in DOMAIN bytes
  OBVIOUS
<1>2. \A i \in with : i = 1
  BY <1>1
<1>3. CASE with = {}
  <2>1. Carried(bytes) = None
    BY <1>3 DEF Carried
  <2> QED
    BY <1>1, <1>3, <2>1
<1>4. CASE with # {}
  <2>1. with = {1}
    BY <1>2, <1>4
  <2>2. (CHOOSE i \in with : \A j \in with : i <= j) = 1
    BY <2>1
  <2> QED
    BY <1>4, <2>2 DEF Carried
<1> QED
  BY <1>3, <1>4

\* recvmsg takes the header, or a part of it, and the frame's descriptor.
LEMMA RecvHeaderKeepsInvariant ==
  ASSUME IInv, RecvHeader
  PROVE  IInv'
<1> DEFINE c == Current
<1>1. PICK k \in 1 .. HEADER :
        /\ Take(k)
        /\ got' = SubSeq(stream, 1, k)
        /\ fd' = Carried(SubSeq(stream, 1, k))
  BY DEF RecvHeader
<1>2. /\ receiver = "recvmsg" /\ receiver' = "header"
      /\ UNCHANGED <<sender, frames, written, length, received>>
      /\ receiver \notin Ended /\ receiver' \notin Ended
  BY DEF RecvHeader, sending, Ended
<1>3. /\ HEADER \in Nat \ {0} /\ k \in Nat \ {0} /\ k <= HEADER /\ Place = 0
      /\ frames \in Seq(Frames) /\ stream \in Seq(Byte) /\ Len(stream) \in Nat
  BY <1>2, ChannelAssumption DEF Place, IInv, Typed, TypeOK
<1>4. Current \in DOMAIN frames => Place + k <= Size(frames[Current])
  <2>1. SUFFICES ASSUME Current \in DOMAIN frames PROVE k <= Size(frames[Current])
    BY <1>3
  <2>2. frames[Current] \in Frames
    BY <1>3, <2>1
  <2> QED
    BY <1>3, <2>2, FrameSizes
<1>5. /\ c \in DOMAIN frames /\ frames[c] \in Frames
      /\ k <= Len(stream)
      /\ \A i \in 1 .. k : stream[i].frame = c /\ stream[i].at = i
      /\ StreamInStep' /\ stream' \in Seq(Byte) /\ Len(stream') <= Len(stream)
      /\ IF stream' # <<>>
         THEN Follows(c, k, stream'[1])
         ELSE c = Len(frames) /\ k = written
  BY <1>1, <1>2, <1>3, <1>4, TakenInStep
<1>6. /\ got' \in Seq(Byte) /\ Len(got') = k
      /\ \A i \in 1 .. k : got'[i] = stream[i]
  BY <1>1, <1>3, <1>5, FirstBytes DEF IInv
<1>7. Current' = c
  BY <1>2 DEF Current
<1>8. fd' = frames[c].fd
  <2>1. \A i \in 1 .. k : got'[i].fd = IF i = 1 THEN frames[c].fd ELSE None
    <3>1. \A i \in 1 .. k : OfItsFrame(stream[i])
      BY <1>3, <1>5 DEF IInv, StreamInStep
    <3> QED
      BY <1>5, <1>6, <3>1 DEF OfItsFrame
  <2>2. Carried(SubSeq(stream, 1, k)) = SubSeq(stream, 1, k)[1].fd
    <3> DEFINE b == SubSeq(stream, 1, k)
    <3>1. b = got'
      BY <1>1
    <3> HIDE DEF b
    <3>2. b \in Seq(Byte) /\ Len(b) > 0 /\ \A i \in 2 .. Len(b) : b[i].fd = None
      BY <1>3, <1>6, <2>1, <3>1
    <3>3. Carried(b) = b[1].fd
      BY <3>2, CarriedByFirst
    <3> QED
      BY <3>3 DEF b
  <2> QED
    BY <1>1, <1>3, <2>1, <2>2
<1> HIDE DEF c
<1>9. Typed'
  BY <1>2, <1>3, <1>5, <1>6, <1>8, FrameSizes, ChannelAssumption DEF IInv, Typed, TypeOK
<1>10. WriterInStep' /\ Sent' = Sent
  BY <1>2, SenderWaits
<1>11. MeetsReader'
  <2>1. Place' = k
    BY <1>2, <1>6 DEF Place
  <2> QED
    BY <1>2, <1>5, <1>7, <2>1 DEF MeetsReader, Follows, Size
<1>12. ReaderInStep'
  <2>1. \A i \in 1 .. k : got'[i].frame = c /\ got'[i].at = i
    BY <1>5, <1>6
  <2>2. DOMAIN got' = 1 .. k /\ 1 \in 1 .. k /\ Len(got') \in 1 .. HEADER
    BY <1>3, <1>6
  <2>3. got'[1].frame = c /\ \A i \in DOMAIN got' : got'[i].frame = c /\ got'[i].at = 1 + i - 1
    BY <2>1, <2>2
  <2>4. OfOneFrame(got, 1)'
    BY <2>3 DEF OfOneFrame
  <2> QED
    BY <1>2, <1>5, <1>7, <1>8, <2>2, <2>3, <2>4 DEF ReaderInStep
<1>13. DeliveredInStep'
  BY <1>2, <1>10 DEF IInv, DeliveredInStep
<1> QED
  BY <1>5, <1>9, <1>10, <1>11, <1>12, <1>13 DEF IInv

\* read_exact goes on with the header, or with the payload.
LEMMA ReadExactKeepsInvariant ==
  ASSUME IInv, ReadExact
  PROVE  IInv'
<1> DEFINE c == Current
           base == IF receiver = "header" THEN 0 ELSE HEADER
<1>1. PICK k \in 1 .. Wanted - Len(got) :
        Take(k) /\ got' = got \o SubSeq(stream, 1, k)
  BY DEF ReadExact
<1>2. /\ receiver \in {"header", "payload"} /\ receiver' = receiver
      /\ UNCHANGED <<sender, frames, written, fd, length, received>>
      /\ receiver \notin Ended /\ receiver' \notin Ended
  BY DEF ReadExact, sending, Ended
<1>3. /\ HEADER \in Nat \ {0} /\ frames \in Seq(Frames)
      /\ stream \in Seq(Byte) /\ Len(stream) \in Nat
      /\ got \in Seq(Byte) /\ Len(got) \in Nat /\ length \in Nat
  BY ChannelAssumption DEF IInv, Typed, TypeOK
<1>4. c \in DOMAIN frames /\ frames[c] \in Frames
  BY <1>2, <1>3 DEF IInv, ReaderInStep
<1>5. /\ k \in Nat \ {0} /\ Len(got) + k <= Wanted /\ Wanted \in Nat
      /\ base \in Nat /\ Place = base + Len(got) /\ Place + k <= Size(frames[c])
      /\ fd = frames[c].fd
  <2>1. Wanted \in Nat
    BY <1>3 DEF Wanted
  <2>2. k \in Nat \ {0} /\ Len(got) + k <= Wanted
    BY <1>3, <2>1
  <2>3. base \in Nat /\ Place = base + Len(got)
    BY <1>2, <1>3 DEF Place
  <2>4. Size(frames[c]) = HEADER + frames[c].length /\ frames[c].length \in Nat
    BY <1>4, FrameSizes
  <2>5. receiver = "payload" => length = frames[c].length
    BY DEF IInv, ReaderInStep
  <2>6. base + Wanted <= Size(frames[c])
    BY <1>2, <1>3, <2>4, <2>5 DEF Wanted
  <2>7. fd = frames[c].fd
    BY <1>2 DEF IInv, ReaderInStep
  <2> QED
    BY <1>3, <2>1, <2>2, <2>3, <2>4, <2>6, <2>7
<1>6. /\ k <= Len(stream)
      /\ \A i \in 1 .. k : stream[i].frame = c /\ stream[i].at = Place + i
      /\ StreamInStep' /\ stream' \in Seq(Byte) /\ Len(stream') <= Len(stream)
      /\ IF stream' # <<>>
         THEN Follows(c, Place + k, stream'[1])
         ELSE c = Len(frames) /\ Place + k = written
  BY <1>1, <1>2, <1>5, TakenInStep
<1>7. Current' = c
  BY <1>2 DEF Current
<1> HIDE DEF c, base
<1>8. /\ got' \in Seq(Byte) /\ Len(got') = Len(got) + k
      /\ \A i \in 1 .. Len(got) + k :
           got'[i] = IF i <= Len(got) THEN got[i] ELSE stream[i - Len(got)]
  <2> DEFINE b == SubSeq(stream, 1, k)
  <2>1. b \in Seq(Byte) /\ Len(b) = k /\ \A i \in 1 .. k : b[i] = stream[i]
    BY <1>5, <1>6, FirstBytes DEF IInv
  <2>2. got' = got \o b
    BY <1>1
  <2> HIDE DEF b
  <2>3. /\ got \o b \in Seq(Byte) /\ Len(got \o b) = Len(got) + Len(b)
        /\ \A i \in 1 .. Len(got) + Len(b) :
             (got \o b)[i] = IF i <= Len(got) THEN got[i] ELSE b[i - Len(got)]
    BY <1>3, <2>1, ConcatProperties
  <2>4. \A i \in 1 .. Len(got) + k : i > Len(got) => i - Len(got) \in 1 .. k
    BY <1>3, <1>5
  <2> QED
    BY <1>3, <1>5, <2>1, <2>2, <2>3, <2>4
<1>9. \A i \in 1 .. Len(got') : got'[i].frame = c /\ got'[i].at = base + i
  <2> SUFFICES ASSUME NEW i \in 1 .. Len(got')
               PROVE  got'[i].frame = c /\ got'[i].at = base + i
    OBVIOUS
  <2>1. CASE i <= Len(got)
    <3>1. i \in DOMAIN got /\ got # <<>> /\ got'[i] = got[i]
      BY <1>3, <1>5, <1>8, <2>1
    <3>2. got[1].frame = c
      BY <1>2, <3>1 DEF IInv, ReaderInStep, c
    <3>3. OfOneFrame(got, base + 1)
      BY <1>2 DEF IInv, ReaderInStep, base
    <3>4. got[i].frame = c /\ got[i].at = base + 1 + i - 1
      BY <3>1, <3>2, <3>3 DEF OfOneFrame
    <3> QED
      BY <1>5, <3>1, <3>4
  <2>2. CASE i > Len(got)
    <3>1. i - Len(got) \in 1 .. k /\ got'[i] = stream[i - Len(got)]
      BY <1>3, <1>5, <1>8, <2>2
    <3>2. got'[i].frame = c /\ got'[i].at = Place + (i - Len(got))
      BY <1>6, <3>1
    <3> QED
      BY <1>3, <1>5, <3>2
  <2> QED
    BY <1>3, <1>5, <1>8, <2>1, <2>2
<1>10. Typed'
  BY <1>2, <1>3, <1>6, <1>8, ChannelAssumption DEF IInv, Typed, TypeOK
<1>11. WriterInStep' /\ Sent' = Sent
  BY <1>2, SenderWaits
<1>12. MeetsReader'
  <2>1. Place' = Place + k
    BY <1>2, <1>3, <1>5, <1>8 DEF Place
  <2> QED
    BY <1>2, <1>6, <1>7, <2>1 DEF MeetsReader, Follows, Size
<1>13. ReaderInStep'
  <2>1. DOMAIN got' = 1 .. Len(got') /\ 1 \in 1 .. Len(got') /\ Len(got') \in Nat \ {0}
    BY <1>3, <1>5, <1>8
  <2>2. \A i \in DOMAIN got' : got'[i].frame = got'[1].frame /\ got'[i].at = (base + 1) + i - 1
    <3>1. got'[1].frame = c
      BY <1>9, <2>1
    <3>2. \A i \in DOMAIN got' : base + i = (base + 1) + i - 1
      BY <1>5, <2>1
    <3> QED
      BY <1>9, <2>1, <3>1, <3>2
  <2>3. receiver = "header" => OfOneFrame(got, 1)' /\ Len(got') \in 1 .. HEADER
    BY <1>2, <1>3, <1>5, <1>8, <2>1, <2>2 DEF OfOneFrame, base, Wanted
  <2>4. receiver = "payload" => OfOneFrame(got, HEADER + 1)' /\ Len(got') <= length
    BY <1>2, <1>3, <1>5, <1>8, <2>1, <2>2 DEF OfOneFrame, base, Wanted
  <2>5. receiver = "payload" => length = frames[c].length
    BY DEF IInv, ReaderInStep, c
  <2> QED
    BY <1>2, <1>4, <1>5, <1>7, <1>9, <2>1, <2>3, <2>4, <2>5 DEF ReaderInStep
<1>14. DeliveredInStep'
  BY <1>2, <1>11 DEF IInv, DeliveredInStep
<1> QED
  BY <1>6, <1>10, <1>11, <1>12, <1>13, <1>14 DEF IInv

\* What the header announces is the length of the frame, believed only when it
\* is within the limit.
LEMMA HeaderKeepsInvariant ==
  ASSUME IInv, Header
  PROVE  IInv'
<1> DEFINE c == Current
<1>1. PICK n \in Announced(got) :
        IF n > MAX_MESSAGE_BYTES
        THEN receiver' = "error" /\ UNCHANGED length
        ELSE receiver' = "payload" /\ length' = n
  BY DEF Header
<1>2. /\ receiver = "header" /\ Len(got) = HEADER /\ got' = <<>>
      /\ UNCHANGED <<sender, frames, written, stream, fd, received>>
      /\ receiver \notin Ended
  BY DEF Header, sending, Ended
<1>3. /\ HEADER \in Nat \ {0} /\ MAX_MESSAGE_BYTES \in Nat
      /\ frames \in Seq(Frames) /\ got \in Seq(Byte) /\ got # <<>>
  BY <1>2, ChannelAssumption DEF IInv, Typed, TypeOK
<1>4. c \in DOMAIN frames /\ frames[c] \in Frames /\ fd = frames[c].fd /\ got[1].frame = c
  BY <1>2, <1>3 DEF IInv, ReaderInStep
<1>5. n = frames[c].length /\ n \in Nat
  <2>1. OfOneFrame(got, 1)
    BY <1>2 DEF IInv, ReaderInStep
  <2>2. frames[c].length \in Nat
    BY <1>4, FrameSizes
  <2> QED
    BY <1>1, <1>4, <2>1, <2>2 DEF Announced
<1>6. Current' = c /\ receiver' \in {"error", "payload"}
  BY <1>1, <1>2 DEF Current
<1>7. receiver' = "payload" => length' = n /\ n <= MAX_MESSAGE_BYTES
  BY <1>1, <1>3, <1>5
<1>8. length' \in 0 .. MAX_MESSAGE_BYTES
  BY <1>1, <1>3, <1>5 DEF IInv, Typed, TypeOK
<1> HIDE DEF c
<1>9. Typed'
  BY <1>2, <1>6, <1>8 DEF IInv, Typed, TypeOK, Ended
<1>10. WriterInStep' /\ Sent' = Sent /\ (AllWritten <=> AllWritten')
  BY <1>2, SenderWaits
<1>11. StreamInStep'
  BY <1>2 DEF IInv, StreamInStep, OfItsFrame, Follows, Size
<1>12. MeetsReader'
  <2>1. SUFFICES ASSUME receiver' = "payload" PROVE MeetsReader'
    BY <1>6 DEF MeetsReader, Ended
  <2>2. Place' = Place
    BY <1>2, <1>3, <2>1 DEF Place
  <2>3. Current' = Current
    BY <1>6 DEF c
  <2> QED
    BY <1>2, <1>10, <2>2, <2>3 DEF IInv, MeetsReader, Follows, Size
<1>13. ReaderInStep'
  <2>1. Len(got') = 0 /\ DOMAIN got' = {}
    BY <1>2
  <2>2. OfOneFrame(got, HEADER + 1)'
    BY <2>1 DEF OfOneFrame
  <2> QED
    BY <1>2, <1>4, <1>5, <1>6, <1>7, <2>1, <2>2 DEF ReaderInStep
<1>14. DeliveredInStep'
  BY <1>2, <1>10 DEF IInv, DeliveredInStep
<1> QED
  BY <1>9, <1>10, <1>11, <1>12, <1>13, <1>14 DEF IInv

\* A payload read in full is the current frame's, and all of it was sent.
LEMMA PayloadIsWhole ==
  ASSUME IInv, receiver = "payload", Len(got) = length
  PROVE  /\ Current \in DOMAIN frames /\ frames[Current] \in Frames
         /\ fd = frames[Current].fd
         /\ Place = Size(frames[Current])
         /\ Decoded(got) = IF got # <<>> /\ frames[Current].valid
                           THEN {frames[Current]} ELSE {None}
         /\ Current <= Len(Sent)
<1>1. /\ frames \in Seq(Frames) /\ got \in Seq(Byte) /\ HEADER \in Nat \ {0}
      /\ received \in Seq([message : Frames, fd : Descriptors \cup {None}])
      /\ stream \in Seq(Byte) /\ written \in Nat
  BY ChannelAssumption DEF IInv, Typed, TypeOK
<1>2. /\ Current \in DOMAIN frames /\ frames[Current] \in Frames
      /\ fd = frames[Current].fd /\ length = frames[Current].length
      /\ got # <<>> => got[1].frame = Current
      /\ OfOneFrame(got, HEADER + 1)
  BY <1>1 DEF IInv, ReaderInStep
<1>3. Place = Size(frames[Current])
  BY <1>2 DEF Place, Size
<1>4. Decoded(got) = IF got # <<>> /\ frames[Current].valid
                     THEN {frames[Current]} ELSE {None}
  BY <1>2 DEF Decoded
<1>5. Current <= Len(Sent)
  <2>1. Current \in 1 .. Len(frames) /\ Len(frames) \in Nat
    BY <1>1, <1>2
  <2>2. Len(Whole(frames, written)) >= Len(frames) - 1
    BY <1>1, WholeFrames
  <2>3. CASE Current < Len(frames)
    BY <2>1, <2>2, <2>3, SentFrames
  <2>4. CASE Current = Len(frames)
    <3>1. CASE stream = <<>>
      <4>1. Size(frames[Current]) \in Nat \ {0}
        BY <1>2, FrameSizes
      <4>2. Place = written
        BY <1>3, <2>1, <2>4, <3>1, <4>1 DEF IInv, MeetsReader, Ended
      <4>3. Whole(frames, written) = frames
        BY <1>1, <1>3, <2>4, <4>1, <4>2 DEF Whole
      <4> QED
        BY <2>1, <4>3, SentFrames
    <3>2. CASE stream # <<>>
      <4>1. 1 \in DOMAIN stream /\ OfItsFrame(stream[1])
        BY <1>1, <3>2 DEF IInv, StreamInStep
      <4>2. Follows(Current, Place, stream[1])
        BY <3>2 DEF IInv, MeetsReader, Ended
      <4>3. stream[1].frame \in 1 .. Len(frames) /\ stream[1].at <= Size(frames[stream[1].frame])
        BY <1>1, <4>1 DEF OfItsFrame
      <4>4. Size(frames[Current]) \in Nat
        BY <1>2, FrameSizes
      <4> QED
        BY <1>3, <2>1, <2>4, <4>2, <4>3, <4>4 DEF Follows
    <3> QED
      BY <3>1, <3>2
  <2> QED
    BY <2>1, <2>3, <2>4
<1> QED
  BY <1>2, <1>3, <1>4, <1>5

\* The message is returned with the descriptor received, or is an error.
LEMMA DecodeKeepsInvariant ==
  ASSUME IInv, Decode
  PROVE  IInv'
<1> DEFINE c == Current
           m == frames[c]
<1>1. PICK d \in Decoded(got) :
        IF d = None
        THEN receiver' = "error" /\ UNCHANGED received
        ELSE /\ receiver' = "recvmsg"
             /\ received' = Append(received, [message |-> d, fd |-> fd])
  BY DEF Decode
<1>2. /\ receiver = "payload" /\ Len(got) = length
      /\ got' = <<>> /\ fd' = None /\ length' = 0
      /\ UNCHANGED <<sender, frames, written, stream>> /\ receiver \notin Ended
  BY DEF Decode, sending, Ended
<1>3. /\ c \in DOMAIN frames /\ m \in Frames /\ fd = m.fd /\ Place = Size(m)
      /\ Decoded(got) = IF got # <<>> /\ m.valid THEN {m} ELSE {None}
      /\ c <= Len(Sent)
  BY <1>2, PayloadIsWhole
<1>4. /\ frames \in Seq(Frames) /\ stream \in Seq(Byte) /\ written \in Nat
      /\ received \in Seq([message : Frames, fd : Descriptors \cup {None}])
      /\ Len(received) \in Nat /\ c = Len(received) + 1 /\ MAX_MESSAGE_BYTES \in Nat
      /\ HEADER \in Nat \ {0}
  BY ChannelAssumption DEF IInv, Typed, TypeOK, Current
<1>5. CASE receiver' = "error" /\ UNCHANGED received
  <2>1. Typed'
    BY <1>2, <1>4, <1>5 DEF IInv, Typed, TypeOK, Ended
  <2>2. WriterInStep' /\ Sent' = Sent
    BY <1>2, SenderWaits
  <2>3. StreamInStep'
    BY <1>2 DEF IInv, StreamInStep, OfItsFrame, Follows, Size
  <2>4. MeetsReader' /\ ReaderInStep'
    BY <1>5 DEF MeetsReader, ReaderInStep, Ended
  <2>5. DeliveredInStep'
    BY <1>2, <1>5, <2>2 DEF IInv, DeliveredInStep
  <2> QED
    BY <2>1, <2>2, <2>3, <2>4, <2>5 DEF IInv
<1>6. CASE /\ receiver' = "recvmsg" /\ m.valid
           /\ received' = Append(received, [message |-> m, fd |-> m.fd])
  <2> DEFINE r == [message |-> m, fd |-> m.fd]
  <2>1. r \in [message : Frames, fd : Descriptors \cup {None}]
    BY <1>3, FrameSizes
  <2>2. /\ received' \in Seq([message : Frames, fd : Descriptors \cup {None}])
        /\ Len(received') = c /\ received'[c] = r
        /\ \A i \in 1 .. Len(received) : received'[i] = received[i]
    BY <1>4, <1>6, <2>1
  <2>3. Current' = c + 1 /\ Place' = 0
    BY <1>6, <2>2 DEF Current, Place
  <2> HIDE DEF c, m, r
  <2>4. Typed'
    BY <1>2, <1>4, <1>6, <2>2 DEF IInv, Typed, TypeOK
  <2>5. WriterInStep' /\ Sent' = Sent /\ (AllWritten <=> AllWritten')
    BY <1>2, SenderWaits
  <2>6. StreamInStep'
    BY <1>2 DEF IInv, StreamInStep, OfItsFrame, Follows, Size
  <2>7. Size(m) \in Nat \ {0} /\ c \in 1 .. Len(frames)
    BY <1>3, <1>4, FrameSizes
  <2>8. MeetsReader'
    <3>1. CASE stream # <<>>
      <4>1. 1 \in DOMAIN stream /\ OfItsFrame(stream[1])
        BY <1>4, <3>1 DEF IInv, StreamInStep
      <4>2. Follows(c, Size(m), stream[1])
        BY <1>2, <1>3, <3>1 DEF IInv, MeetsReader, c
      <4>3. stream[1].frame = c + 1 /\ stream[1].at = 1
        <5>1. CASE stream[1].frame = c /\ stream[1].at = Size(m) + 1
          <6>1. stream[1].at <= Size(m)
            BY <4>1, <5>1 DEF OfItsFrame, m
          <6> QED
            BY <2>7, <5>1, <6>1
        <5> QED
          BY <4>2, <5>1 DEF Follows
      <4>4. Follows(c + 1, 0, stream[1])
        BY <4>3 DEF Follows
      <4> QED
        BY <1>2, <2>3, <3>1, <4>4 DEF MeetsReader, Follows, Size
    <3>2. CASE stream = <<>>
      <4>1. c = Len(frames) /\ Size(m) = written
        BY <1>2, <1>3, <2>7, <3>2 DEF IInv, MeetsReader, c
      <4>2. AllWritten
        BY <4>1 DEF AllWritten, m
      <4> QED
        BY <1>2, <2>3, <2>5, <3>2, <4>1, <4>2 DEF MeetsReader
    <3> QED
      BY <3>1, <3>2
  <2>9. ReaderInStep'
    BY <1>2, <1>6 DEF ReaderInStep
  <2>10. DeliveredInStep'
    <3>1. Len(received') <= Len(Sent')
      BY <1>3, <2>2, <2>5
    <3>2. ASSUME NEW i \in DOMAIN received'
          PROVE  frames[i].valid /\ received'[i] = [message |-> frames[i], fd |-> frames[i].fd]
      <4>1. i \in 1 .. c
        BY <2>2
      <4>2. CASE i = c
        BY <1>6, <2>2, <4>2 DEF r, m
      <4>3. CASE i # c
        <5>1. i \in 1 .. Len(received) /\ i \in DOMAIN received
          BY <1>4, <4>1, <4>3
        <5> QED
          BY <2>2, <5>1 DEF IInv, DeliveredInStep
      <4> QED
        BY <4>2, <4>3
    <3> QED
      BY <1>2, <3>1, <3>2 DEF DeliveredInStep
  <2> QED
    BY <2>4, <2>5, <2>6, <2>8, <2>9, <2>10 DEF IInv
<1>7. (receiver' = "error" /\ UNCHANGED received)
      \/ /\ receiver' = "recvmsg" /\ m.valid
         /\ received' = Append(received, [message |-> m, fd |-> m.fd])
  <2>1. CASE d = None
    BY <1>1, <2>1
  <2>2. CASE d # None
    <3>1. d = m /\ m.valid
      BY <1>3, <2>2
    <3> QED
      BY <1>1, <1>3, <2>2, <3>1
  <2> QED
    BY <2>1, <2>2
<1> QED
  BY <1>5, <1>6, <1>7

\* recv() meets the end of the stream or an error: nothing more is read.
LEMMA EndKeepsInvariant ==
  ASSUME IInv, receiver' \in Ended,
         UNCHANGED <<sending, stream, got, fd, length, received>>
  PROVE  IInv'
<1>1. UNCHANGED <<sender, frames, written, stream, got, fd, length, received>>
  BY DEF sending
<1>2. WriterInStep' /\ Sent' = Sent
  BY <1>1, SenderWaits
<1>3. Typed'
  BY <1>1 DEF IInv, Typed, TypeOK, Ended
<1>4. StreamInStep'
  BY <1>1 DEF IInv, StreamInStep, OfItsFrame, Follows, Size
<1>5. MeetsReader' /\ ReaderInStep'
  BY DEF MeetsReader, ReaderInStep, Ended
<1>6. DeliveredInStep'
  BY <1>1, <1>2 DEF IInv, DeliveredInStep
<1> QED
  BY <1>2, <1>3, <1>4, <1>5, <1>6 DEF IInv

-----------------------------------------------------------------------------
(* The theorems                                                            *)

\* At first nothing is written, and nothing read.
LEMMA InitInvariant ==
  ASSUME Init
  PROVE  IInv
<1>1. /\ frames = <<>> /\ stream = <<>> /\ got = <<>> /\ received = <<>>
      /\ written = 0 /\ sender = "idle" /\ receiver = "recvmsg" /\ fd = None /\ length = 0
  BY DEF Init
<1>2. Len(received) = 0 /\ Len(frames) = 0 /\ Len(stream) = 0 /\ Current = 1 /\ Place = 0
  BY <1>1 DEF Current, Place
<1>3. Typed
  BY <1>1, <1>2, ChannelAssumption DEF Typed, TypeOK
<1>4. WriterInStep /\ AllWritten
  BY <1>1 DEF WriterInStep, AllWritten
<1>5. StreamInStep /\ ReaderInStep
  BY <1>1 DEF StreamInStep, ReaderInStep
<1>6. MeetsReader
  BY <1>1, <1>2, <1>4 DEF MeetsReader
<1>7. DeliveredInStep
  <2>1. Sent = <<>>
    BY <1>1 DEF Sent
  <2> QED
    BY <1>1, <2>1 DEF DeliveredInStep
<1> QED
  BY <1>3, <1>4, <1>5, <1>6, <1>7 DEF IInv

\* A step of the world around the channel keeps it.
LEMMA StutterKeepsInvariant ==
  ASSUME IInv, UNCHANGED vars
  PROVE  IInv'
<1>1. UNCHANGED <<sender, frames, written, stream, receiver, got, fd, length, received>>
  BY DEF vars, sending, receiving
<1>2. WriterInStep' /\ Sent' = Sent /\ (AllWritten <=> AllWritten')
  BY <1>1, SenderWaits
<1>3. Typed'
  BY <1>1 DEF IInv, Typed, TypeOK
<1>4. StreamInStep'
  BY <1>1 DEF IInv, StreamInStep, OfItsFrame, Follows, Size
<1>5. MeetsReader'
  BY <1>1, <1>2 DEF IInv, MeetsReader, Follows, Size, Current, Place
<1>6. ReaderInStep' /\ DeliveredInStep'
  BY <1>1, <1>2 DEF IInv, ReaderInStep, DeliveredInStep, Current, OfOneFrame
<1> QED
  BY <1>2, <1>3, <1>4, <1>5, <1>6 DEF IInv

\* Every step keeps the invariant.
LEMMA NextKeepsInvariant ==
  ASSUME IInv, [Next]_vars
  PROVE  IInv'
<1>1. CASE \E m \in Frames : Send(m)
  BY <1>1, SendKeepsInvariant
<1>2. CASE Write
  BY <1>2, WriteKeepsInvariant
<1>3. CASE SenderEnds
  BY <1>3, SenderEndsKeepsInvariant
<1>4. CASE RecvHeader
  BY <1>4, RecvHeaderKeepsInvariant
<1>5. CASE ReadExact
  BY <1>5, ReadExactKeepsInvariant
<1>6. CASE Header
  BY <1>6, HeaderKeepsInvariant
<1>7. CASE Decode
  BY <1>7, DecodeKeepsInvariant
<1>8. CASE Eof \/ ReceiverEnds
  BY <1>8, EndKeepsInvariant DEF Eof, ReceiverEnds, Ended
<1>9. CASE UNCHANGED vars
  BY <1>9, StutterKeepsInvariant
<1> QED
  BY <1>1, <1>2, <1>3, <1>4, <1>5, <1>6, <1>7, <1>8, <1>9
  DEF Next, Receive, Finished

\* The invariant holds of every behaviour: whatever the sizes of the writes and
\* of the reads, and wherever an end closes.
THEOREM InductiveInvariant == Spec => []IInv
<1>1. Init => IInv
  BY InitInvariant
<1>2. IInv /\ [Next]_vars => IInv'
  BY NextKeepsInvariant
<1> QED
  BY <1>1, <1>2, PTL DEF Spec

\* Every variable keeps its type: in particular recv() never prepares a buffer
\* longer than MAX_MESSAGE_BYTES, though its peer announces what it likes.
THEOREM TypeCorrect == Spec => []TypeOK
<1>1. IInv => TypeOK
  BY DEF IInv, Typed
<1> QED
  BY <1>1, InductiveInvariant, PTL

\* No descriptor is met by a call that would discard it: recvmsg always begins a
\* frame, and no other byte of the socket carries one.
THEOREM DescriptorsAreMet == Spec => []DescriptorsMetByRecvmsg
<1>1. ASSUME IInv PROVE DescriptorsMetByRecvmsg
  <2>1. ASSUME NEW i \in DOMAIN stream, stream[i].fd # None
        PROVE  stream[i].at = 1
    <3>1. OfItsFrame(stream[i])
      BY <1>1, <2>1 DEF IInv, StreamInStep
    <3> QED
      BY <2>1, <3>1 DEF OfItsFrame
  <2>2. ASSUME receiver = "recvmsg", stream # <<>>
        PROVE  stream[1].at = 1
    <3>1. Place = 0 /\ Follows(Current, 0, stream[1])
      <4>1. Place = 0 /\ receiver \notin Ended
        BY <2>2 DEF Place, Ended
      <4> QED
        BY <1>1, <2>2, <4>1 DEF IInv, MeetsReader
    <3>2. 1 \in DOMAIN stream
      BY <1>1, <2>2 DEF IInv, Typed
    <3> QED
      BY <3>1, <3>2 DEF Follows
  <2> QED
    BY <2>1, <2>2 DEF DescriptorsMetByRecvmsg
<1> QED
  BY <1>1, InductiveInvariant, PTL

-----------------------------------------------------------------------------
(* Channel implements MessageStream                                        *)

Outcome == IF receiver \in Ended THEN receiver ELSE "open"

\* A step that sends no last byte, returns no message and ends nothing is a
\* stutter of the stream of messages.
LEMMA QuietStep ==
  ASSUME Sent' = Sent, received' = received, Outcome' = Outcome
  PROVE  UNCHANGED Stream!vars
  BY DEF Stream!vars, Outcome

\* An error of recv(), or the end of its process, breaks the stream.
LEMMA BreakStep ==
  ASSUME UNCHANGED <<sender, frames, written, received>>,
         receiver \notin Ended, receiver' = "error"
  PROVE  Stream!Break
<1>1. Sent' = Sent
  BY DEF Sent, Size
<1> QED
  BY <1>1 DEF Stream!Break, Ended

\* The last byte of a frame is what sends its message.
LEMMA PutStep ==
  ASSUME IInv, frames' \in Seq(Frames), written' \in Nat,
         UNCHANGED receiving, NEW m \in Frames,
         Whole(frames', written') \in {Whole(frames, written),
                                       Append(Whole(frames, written), m)}
  PROVE  [Stream!Next]_Stream!vars
<1>1. Sent' = Sent \/ Sent' = Append(Sent, m)
  BY SentFrames
<1>2. received' = received /\ receiver' = receiver
  BY DEF receiving
<1>3. CASE Sent' = Sent
  BY <1>2, <1>3, QuietStep DEF Outcome
<1>4. CASE Sent' = Append(Sent, m)
  BY <1>2, <1>4 DEF Stream!Next, Stream!Put
<1> QED
  BY <1>1, <1>3, <1>4

\* sendmsg sends the message when it takes the whole frame.
LEMMA SendSimulates ==
  ASSUME IInv, NEW m \in Frames, Send(m)
  PROVE  [Stream!Next]_Stream!vars
<1>1. PICK k \in 1 .. Size(m) : AfterWrite(m, k)
  BY DEF Send
<1>2. /\ frames \in Seq(Frames) /\ Len(frames) \in Nat /\ written \in Nat
      /\ Size(m) \in Nat \ {0} /\ k \in Nat /\ k <= Size(m)
  BY FrameSizes DEF IInv, Typed, TypeOK
<1>3. /\ frames' = Append(frames, m) /\ written' = k
      /\ UNCHANGED receiving /\ AllWritten
  BY <1>1 DEF Send, AfterWrite, IInv, WriterInStep
<1>4. /\ frames' \in Seq(Frames) /\ Len(frames') = Len(frames) + 1
      /\ frames'[Len(frames')] = m /\ frames' # <<>> /\ Len(frames') - 1 = Len(frames)
      /\ SubSeq(frames', 1, Len(frames)) = frames
  BY <1>2, <1>3
<1>5. Whole(frames, written) = frames
  <2>1. \A i \in 1 .. Len(frames) : Size(frames[i]) \in Nat
    BY <1>2, FrameSizes
  <2> QED
    BY <1>2, <1>3, <2>1 DEF Whole, AllWritten
<1>6. Whole(frames', written') \in {frames, Append(frames, m)}
  BY <1>3, <1>4 DEF Whole
<1> QED
  BY <1>2, <1>3, <1>4, <1>5, <1>6, PutStep

\* A plain write sends it when it is the last.
LEMMA WriteSimulates ==
  ASSUME IInv, Write
  PROVE  [Stream!Next]_Stream!vars
<1> DEFINE n == Len(frames)
           m == frames[n]
<1>1. PICK k \in 1 .. Size(m) - written : AfterWrite(m, written + k)
  BY DEF Write
<1>2. /\ frames \in Seq(Frames) /\ frames # <<>> /\ n \in Nat \ {0} /\ m \in Frames
      /\ written \in Nat /\ written \in 1 .. Size(m) /\ Size(m) \in Nat /\ ~AllWritten
  BY FrameSizes DEF IInv, Typed, TypeOK, WriterInStep, Write
<1>3. frames' = frames /\ written' = written + k /\ UNCHANGED receiving
  BY <1>1 DEF Write, AfterWrite
<1>4. written' \in Nat /\ written' <= Size(m)
  BY <1>2, <1>3
<1>5. Whole(frames, written) = SubSeq(frames, 1, n - 1)
  BY <1>2 DEF Whole, AllWritten
<1>6. Append(SubSeq(frames, 1, n - 1), m) = frames
  BY <1>2
<1>7. Whole(frames', written') \in {SubSeq(frames, 1, n - 1), frames}
  BY <1>3 DEF Whole
<1> QED
  BY <1>2, <1>3, <1>4, <1>5, <1>6, <1>7, PutStep

\* A message is got when its payload decodes, and it is the next one sent, with
\* its own descriptor.
LEMMA DecodeSimulates ==
  ASSUME IInv, Decode
  PROVE  [Stream!Next]_Stream!vars
<1> DEFINE c == Current
           m == frames[c]
<1>1. PICK d \in Decoded(got) :
        IF d = None
        THEN receiver' = "error" /\ UNCHANGED received
        ELSE /\ receiver' = "recvmsg"
             /\ received' = Append(received, [message |-> d, fd |-> fd])
  BY DEF Decode
<1>2. /\ receiver = "payload" /\ Len(got) = length
      /\ UNCHANGED <<sender, frames, written>> /\ receiver \notin Ended
  BY DEF Decode, sending, Ended
<1>3. /\ m \in Frames /\ fd = m.fd
      /\ Decoded(got) = IF got # <<>> /\ m.valid THEN {m} ELSE {None}
      /\ c <= Len(Sent)
  BY <1>2, PayloadIsWhole
<1>4. CASE d = None
  BY <1>1, <1>2, <1>4, BreakStep DEF Stream!Next
<1>5. CASE d # None
  <2>1. d = m /\ m.valid
    BY <1>3, <1>5
  <2>2. /\ frames \in Seq(Frames) /\ written \in Nat /\ c = Len(received) + 1
        /\ Len(received) \in Nat
    BY DEF IInv, Typed, TypeOK, Current
  <2>3. Sent \in Seq(Frames) /\ \A i \in 1 .. Len(Sent) : Sent[i] = frames[i]
    BY <2>2, SentFrames, WholeFrames
  <2>4. Sent[Len(received) + 1] = m /\ Len(received) < Len(Sent)
    BY <1>3, <2>2, <2>3
  <2>5. Sent' = Sent
    BY <1>2, SenderWaits
  <2>6. Outcome = "open" /\ Outcome' = "open"
    BY <1>1, <1>2, <1>5 DEF Outcome, Ended
  <2> HIDE DEF c, m
  <2>7. received' = Append(received, [message |-> m, fd |-> m.fd])
    BY <1>1, <1>3, <1>5, <2>1
  <2>8. Stream!Get
    BY <2>1, <2>4, <2>5, <2>6, <2>7 DEF Stream!Get, Outcome
  <2> QED
    BY <2>8 DEF Stream!Next
<1> QED
  BY <1>4, <1>5

\* The end of the stream is met only when every message sent was received.
LEMMA EofSimulates ==
  ASSUME IInv, Eof
  PROVE  [Stream!Next]_Stream!vars
<1>1. /\ stream = <<>> /\ receiver' = "eof" /\ receiver \notin Ended
      /\ UNCHANGED <<sender, frames, written, received>>
  BY DEF Eof, sending, Ended
<1>2. /\ frames \in Seq(Frames) /\ written \in Nat /\ Len(frames) \in Nat
      /\ Len(received) \in Nat /\ Current = Len(received) + 1
      /\ HEADER \in Nat \ {0} /\ got \in Seq(Byte)
  BY ChannelAssumption DEF IInv, Typed, TypeOK, Current
<1>3. Len(received) = Len(Sent)
  <2>1. CASE Current = Len(frames) /\ Place = written
    <3>1. frames # <<>> /\ frames[Len(frames)] \in Frames
      BY <1>2, <2>1
    <3>2. written < Size(frames[Len(frames)])
      <4>1. CASE receiver = "recvmsg"
        BY <3>1, <2>1, <4>1, FrameSizes DEF Place
      <4>2. CASE receiver = "header" /\ Len(got) < HEADER
        BY <1>2, <3>1, <2>1, <4>2, FrameSizes DEF Place
      <4>3. CASE receiver = "payload" /\ Len(got) < length
        <5>1. length = frames[Len(frames)].length
          BY <2>1, <4>3 DEF IInv, ReaderInStep
        <5> QED
          BY <1>2, <3>1, <2>1, <4>3, <5>1, FrameSizes DEF Place
      <4> QED
        BY <4>1, <4>2, <4>3 DEF Eof, Wanted
    <3>3. Len(Whole(frames, written)) = Len(frames) - 1
      BY <1>2, <3>1, <3>2, WholeFrames
    <3> QED
      BY <1>2, <2>1, <3>3, SentFrames
  <2>2. CASE Current = Len(frames) + 1 /\ Place = 0 /\ AllWritten
    <3>1. Whole(frames, written) = frames
      <4>1. \A i \in 1 .. Len(frames) : Size(frames[i]) \in Nat
        BY <1>2, FrameSizes
      <4> QED
        BY <1>2, <2>2, <4>1 DEF Whole, AllWritten
    <3> QED
      BY <1>2, <2>2, <3>1, SentFrames
  <2> QED
    BY <1>1, <2>1, <2>2 DEF IInv, MeetsReader
<1>4. Sent' = Sent
  BY <1>1, SenderWaits
<1>5. Stream!Eof
  BY <1>1, <1>3, <1>4 DEF Stream!Eof, Ended
<1> QED
  BY <1>5 DEF Stream!Next

\* Every step of the two ends is a step of the stream of messages, or none.
LEMMA NextSimulates ==
  ASSUME IInv, [Next]_vars
  PROVE  [Stream!Next]_Stream!vars
<1>1. CASE \E m \in Frames : Send(m)
  BY <1>1, SendSimulates
<1>2. CASE Write
  BY <1>2, WriteSimulates
<1>3. CASE SenderEnds
  <2>1. UNCHANGED <<frames, written, receiver, received>>
    BY <1>3 DEF SenderEnds, receiving
  <2>2. Sent' = Sent
    BY <2>1 DEF Sent, Size
  <2> QED
    BY <2>1, <2>2, QuietStep DEF Outcome
<1>4. CASE RecvHeader \/ ReadExact
  <2>1. /\ UNCHANGED <<sender, frames, written, received>>
        /\ receiver \notin Ended /\ receiver' \notin Ended
    BY <1>4 DEF RecvHeader, ReadExact, sending, Ended
  <2>2. Sent' = Sent
    BY <2>1, SenderWaits
  <2> QED
    BY <2>1, <2>2, QuietStep DEF Outcome
<1>5. CASE Header
  <2>1. /\ UNCHANGED <<sender, frames, written, received>>
        /\ receiver \notin Ended /\ receiver' \in {"error", "payload"}
    BY <1>5 DEF Header, sending, Ended
  <2>2. CASE receiver' = "error"
    BY <2>1, <2>2, BreakStep DEF Stream!Next
  <2>3. CASE receiver' = "payload"
    <3>1. Sent' = Sent
      BY <2>1, SenderWaits
    <3> QED
      BY <2>1, <2>3, <3>1, QuietStep DEF Outcome, Ended
  <2> QED
    BY <2>1, <2>2, <2>3
<1>6. CASE Decode
  BY <1>6, DecodeSimulates
<1>7. CASE Eof
  BY <1>7, EofSimulates
<1>8. CASE ReceiverEnds
  BY <1>8, BreakStep DEF ReceiverEnds, sending, Stream!Next
<1>9. CASE UNCHANGED vars
  <2>1. UNCHANGED <<sender, frames, written, receiver, received>>
    BY <1>9 DEF vars, sending, receiving
  <2>2. Sent' = Sent
    BY <2>1, SenderWaits
  <2> QED
    BY <2>1, <2>2, QuietStep DEF Outcome
<1> QED
  BY <1>1, <1>2, <1>3, <1>4, <1>5, <1>6, <1>7, <1>8, <1>9
  DEF Next, Receive, Finished

\* Messages arrive whole, once, in order and with their own descriptor, for every
\* size of the socket and of the messages; this is what Helper takes for granted.
THEOREM ChannelImplementsStream == Spec => ImplementsStream
<1>1. Init => Stream!Init
  BY DEF Init, Stream!Init, Sent, Ended
<1>2. IInv /\ [Next]_vars => [Stream!Next]_Stream!vars
  BY NextSimulates
<1> QED
  BY <1>1, <1>2, InductiveInvariant, PTL DEF Spec, ImplementsStream, Stream!Spec
=============================================================================
