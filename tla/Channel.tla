------------------------------ MODULE Channel ------------------------------
(***************************************************************************)
(* One direction of protocol/src/channel.rs: send() at one end of a Unix   *)
(* stream socket, recv() at the other.  The socket carries bytes, each     *)
(* known by its frame and its place in it; a descriptor rides on a byte.   *)
(* sendmsg, write, recvmsg and read move any number of bytes, and a read   *)
(* that takes no ancillary data discards the descriptors it meets.         *)
(*                                                                         *)
(* After an error a caller of this repository closes its end (main()       *)
(* returns), so no end is used again.                                      *)
(***************************************************************************)
EXTENDS Naturals, Sequences

CONSTANTS
  HEADER,            \* bytes of a frame's length (4)
  MAX_MESSAGE_BYTES,
  Capacity,          \* bytes the socket holds
  Lengths,           \* payload lengths
  Descriptors,
  Foreign,           \* may frames come from a sender that is not send()?
  MaxFrames,         \* bound: frames begun
  None

ASSUME ChannelAssumption ==
  /\ HEADER \in Nat \ {0}
  /\ MAX_MESSAGE_BYTES \in Nat
  /\ Capacity \in Nat \ {0}
  /\ Lengths \subseteq Nat
  /\ Foreign \in BOOLEAN
  /\ None \notin Descriptors

\* A message as the framing sees it; valid: its payload is within the limit
\* and decodes to the type the receiver expects (no bytes decode to nothing).
Frames ==
  {m \in [length : Lengths, valid : BOOLEAN, fd : Descriptors \cup {None}] :
     m.valid => m.length \in 1 .. MAX_MESSAGE_BYTES}

VARIABLES
  sender,    \* "idle", "writing" or "ended"
  frames,    \* frames begun
  written,   \* bytes of the last one written
  stream,    \* bytes in the socket
  receiver,  \* "recvmsg", "header", "payload", or its end: "eof", "error"
  got,       \* bytes of the header, or of the payload, read so far
  fd,        \* descriptor received with the header
  length,    \* of the payload buffer
  received   \* what recv() returned

sending == <<sender, frames, written>>
receiving == <<receiver, got, fd, length, received>>
vars == <<sending, stream, receiving>>

-----------------------------------------------------------------------------
Lesser(a, b) == IF a < b THEN a ELSE b

Size(m) == HEADER + m.length

\* The bytes first..last of message m, the n-th frame: its descriptor went
\* with the first.
Bytes(n, m, first, last) ==
  [k \in 1 .. last - first + 1 |->
     [frame |-> n, at |-> first + k - 1,
      fd |-> IF first + k - 1 = 1 THEN m.fd ELSE None]]

\* Room for k more bytes.
Room(k) == Len(stream) + k <= Capacity

Ended == {"eof", "error"}

Init ==
  /\ sender = "idle" /\ frames = <<>> /\ written = 0
  /\ stream = <<>>
  /\ receiver = "recvmsg" /\ got = <<>> /\ fd = None /\ length = 0
  /\ received = <<>>

-----------------------------------------------------------------------------
(* send()                                                                  *)

\* Mutant: send() returns after a short write.
AfterWriteOnce(m, count) ==
  /\ written' = count
  /\ sender' = "idle"

AfterWrite(m, count) ==
  /\ written' = count
  /\ sender' = IF count = Size(m) THEN "idle" ELSE "writing"

\* sendmsg: the first bytes and the descriptor.  Of the senders only send()
\* keeps its frames within the limit.
Send(m) ==
  /\ sender = "idle"
  /\ Len(frames) < MaxFrames
  /\ m.length <= MAX_MESSAGE_BYTES \/ Foreign
  /\ receiver \notin Ended
  /\ \E k \in 1 .. Size(m) :
       /\ Room(k)
       /\ stream' = stream \o Bytes(Len(frames) + 1, m, 1, k)
       /\ AfterWrite(m, k)
  /\ frames' = Append(frames, m)
  /\ UNCHANGED receiving

\* Mutant: what sendmsg left over is written from the start of the frame.
RestAgain(n, m, k) == Bytes(n, m, 1, k)

\* The next k bytes of a frame.
Rest(n, m, k) == Bytes(n, m, written + 1, written + k)

\* The rest of the frame, by plain writes.
Write ==
  /\ sender = "writing"
  /\ receiver \notin Ended
  /\ LET n == Len(frames)
         m == frames[n]
     IN  \E k \in 1 .. Size(m) - written :
           /\ Room(k)
           /\ stream' = stream \o Rest(n, m, k)
           /\ AfterWrite(m, written + k)
  /\ UNCHANGED <<frames, receiving>>

\* The message is too large, a call fails (the receiver is gone), or the
\* sender closes, possibly killed in the middle of a frame.
SenderEnds ==
  /\ sender # "ended"
  /\ sender' = "ended"
  /\ UNCHANGED <<frames, written, stream, receiving>>

-----------------------------------------------------------------------------
(* recv()                                                                  *)

\* The next k bytes leave the socket.
Take(k) ==
  /\ k <= Len(stream)
  /\ stream' = SubSeq(stream, k + 1, Len(stream))

\* The first descriptor on these bytes, which recvmsg receives.
Carried(bytes) ==
  LET with == {i \in DOMAIN bytes : bytes[i].fd # None}
  IN  IF with = {} THEN None
      ELSE bytes[CHOOSE i \in with : \A j \in with : i <= j].fd

\* Mutant: the first call takes all it can, beyond the header.
RecvHeaderGreedy ==
  /\ receiver = "recvmsg"
  /\ \E k \in 1 .. Len(stream) :
       /\ Take(k)
       /\ got' = SubSeq(stream, 1, Lesser(k, HEADER))
       /\ fd' = Carried(SubSeq(stream, 1, k))
  /\ receiver' = "header"
  /\ UNCHANGED <<sending, length, received>>

\* recvmsg: up to a header, and the first descriptor among its bytes.
RecvHeader ==
  /\ receiver = "recvmsg"
  /\ \E k \in 1 .. HEADER :
       /\ Take(k)
       /\ got' = SubSeq(stream, 1, k)
       /\ fd' = Carried(SubSeq(stream, 1, k))
  /\ receiver' = "header"
  /\ UNCHANGED <<sending, length, received>>

\* read_exact: what is missing of the header, or of the payload.
Wanted == IF receiver = "header" THEN HEADER ELSE length

ReadExact ==
  /\ receiver \in {"header", "payload"}
  /\ \E k \in 1 .. Wanted - Len(got) :
       /\ Take(k)
       /\ got' = got \o SubSeq(stream, 1, k)
  /\ UNCHANGED <<sending, receiver, fd, length, received>>

\* The bytes are those of one frame, from place `first` on.
OfOneFrame(bytes, first) ==
  \A i \in DOMAIN bytes :
    bytes[i].frame = bytes[1].frame /\ bytes[i].at = first + i - 1

\* What the header announces; any length when its bytes are not a header.
Announced(bytes) ==
  IF OfOneFrame(bytes, 1) THEN {frames[bytes[1].frame].length} ELSE Lengths

\* Mutant: any length is believed.
HeaderBelieved ==
  /\ receiver = "header"
  /\ Len(got) = HEADER
  /\ length' \in Announced(got)
  /\ receiver' = "payload"
  /\ got' = <<>>
  /\ UNCHANGED <<sending, stream, fd, received>>

Header ==
  /\ receiver = "header"
  /\ Len(got) = HEADER
  /\ \E n \in Announced(got) :
       IF n > MAX_MESSAGE_BYTES
       THEN receiver' = "error" /\ UNCHANGED length
       ELSE receiver' = "payload" /\ length' = n
  /\ got' = <<>>
  /\ UNCHANGED <<sending, stream, fd, received>>

\* postcard::from_bytes: the message these bytes encode, or None, an error.
\* Bytes that are not the payload of one frame could decode to anything.
Decoded(bytes) ==
  IF bytes = <<>> THEN {None}
  ELSE IF ~OfOneFrame(bytes, HEADER + 1) THEN Frames \cup {None}
  ELSE LET m == frames[bytes[1].frame] IN IF m.valid THEN {m} ELSE {None}

Decode ==
  /\ receiver = "payload"
  /\ Len(got) = length
  /\ \E m \in Decoded(got) :
       IF m = None
       THEN receiver' = "error" /\ UNCHANGED received
       ELSE /\ receiver' = "recvmsg"
            /\ received' = Append(received, [message |-> m, fd |-> fd])
  /\ got' = <<>>
  /\ fd' = None
  /\ length' = 0
  /\ UNCHANGED <<sending, stream>>

\* The stream ends, be it between two frames or in the middle of one.
Eof ==
  /\ stream = <<>>
  /\ sender = "ended"
  /\ \/ receiver = "recvmsg"
     \/ receiver \in {"header", "payload"} /\ Len(got) < Wanted
  /\ receiver' = "eof"
  /\ UNCHANGED <<sending, stream, got, fd, length, received>>

\* A system call fails, or the receiver closes its end.
ReceiverEnds ==
  /\ receiver \notin Ended
  /\ receiver' = "error"
  /\ UNCHANGED <<sending, stream, got, fd, length, received>>

Receive == RecvHeader \/ ReadExact \/ Header \/ Decode \/ Eof

Finished == sender = "ended" /\ receiver \in Ended /\ UNCHANGED vars

Next ==
  (\E m \in Frames : Send(m)) \/ Write \/ SenderEnds
    \/ Receive \/ ReceiverEnds \/ Finished

Spec == Init /\ [][Next]_vars

\* Both ends keep working while they can.
FairSpec == Spec /\ WF_vars(Write) /\ WF_vars(Receive)
-----------------------------------------------------------------------------
(* Properties                                                              *)

\* Every variable has its type; the payload buffer is never longer than a
\* message may be.
TypeOK ==
  /\ sender \in {"idle", "writing", "ended"}
  /\ frames \in Seq(Frames)
  /\ written \in Nat
  /\ receiver \in {"recvmsg", "header", "payload"} \cup Ended
  /\ length \in 0 .. MAX_MESSAGE_BYTES
  /\ fd \in Descriptors \cup {None}
  /\ Len(stream) <= Capacity

\* recvmsg, the only call that can receive a descriptor, is made exactly at the
\* first byte of a frame, and while the rest of a frame is read no descriptor
\* is left on its bytes for a plain read to discard.  Short writes and short
\* reads, in any combination, never move the two ends apart.
DescriptorsMetByRecvmsg ==
  /\ receiver = "recvmsg" /\ stream # <<>> => stream[1].at = 1
  /\ \A i \in DOMAIN stream : stream[i].fd # None => stream[i].at = 1

\* The messages wholly written.
Sent ==
  IF frames # <<>> /\ written < Size(frames[Len(frames)])
  THEN SubSeq(frames, 1, Len(frames) - 1)
  ELSE frames

\* Messages arrive whole, once, in order and with their own descriptor,
\* whatever the sizes of the writes and reads, and a message cut short by the
\* end of its sender is not delivered.
Stream == INSTANCE MessageStream WITH
  sent <- Sent,
  outcome <- IF receiver \in Ended THEN receiver ELSE "open"

ImplementsStream == Stream!Spec

\* A frame begun is received, even through a socket smaller than the frame,
\* unless an end closes or its bytes are no message.
FramesArrive ==
  \A n \in 1 .. MaxFrames :
    Len(frames) >= n ~>
      Len(received) >= n \/ sender = "ended" \/ receiver \in Ended
=============================================================================
