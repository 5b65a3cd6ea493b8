------------------------------- MODULE Helper -------------------------------
(***************************************************************************)
(* The helper process: main(), handle() and OpenFile of                    *)
(* helper/src/main.rs, for one life of the process.                        *)
(*                                                                         *)
(* The application is the environment: it sends messages on the socket,    *)
(* closes it, or kills the process.  The socket is seen as two sequences,  *)
(* everything the application has sent and everything the helper has       *)
(* answered (module Channel models its bytes and its descriptors).  A      *)
(* decoding step is seen through what the caller can tell apart: it        *)
(* returns, fails, panics, or takes the process down (a refused            *)
(* allocation, a signal).  A decoder that hangs is a helper that never     *)
(* takes the step.                                                         *)
(***************************************************************************)
EXTENDS Protocol, FiniteSetsExt

CONSTANTS
  Fds,              \* descriptor numbers of the helper process
  MacOS,            \* TRUE where system decoders and the sandbox exist
  Messages,         \* what the application may send
  MaxRequests,      \* bound: messages sent in one life of the helper
  Window            \* bound: messages sent and not yet answered

\* An entry of `files`.  system: the cached Option<Result<SystemFile, _>>.
OpenFile ==
  [fd : Fds, source : Files, rawler : BOOLEAN, system : {"untried", "ok", "err"}]

\* What a descriptor number refers to: a file, or shared memory that holds
\* the pixels decoded from one.
Empty == [holds |-> "nothing", file |-> None]
FileSlot(f) == [holds |-> "file", file |-> f]
PixelSlot(f) == [holds |-> "pixels", file |-> f]
Slot == {Empty} \cup [holds : {"file", "pixels"}, file : Files]

ASSUME HelperAssumption ==
  /\ Fds \subseteq Nat
  /\ None \notin Fds \cup OpenFile
  /\ MacOS \in BOOLEAN
  /\ Messages \subseteq Message
  /\ MaxRequests \in Nat
  /\ Window \in Nat

Outcome == {"ok", "err", "panic", "abort"}

\* Without system decoders every call reports an unsupported format.
SystemOutcome == IF MacOS THEN Outcome ELSE {"err"}

\* A panic inside a decoding step becomes an error.
Guarded(outcome) == IF outcome = "panic" THEN "err" ELSE outcome

Fatal == {"panic", "abort"}

Ended == {"success", "failure", "panic", "abort", "killed"}

VARIABLES
  pc,        \* "start", "recv", "handle", "return", "send", or how the process ended
  sandboxed, \* the local of main(): did enter_sandbox() succeed
  fdTable,   \* the kernel's table of the helper's open descriptors
  files,     \* the HashMap<u64, OpenFile>: an OpenFile or None per id
  taken,     \* messages received so far
  received,  \* the descriptor received with the message in hand, or None
  reply,     \* what handle() returned, or None
  buffer,    \* the descriptor of the reply's SharedBuffer, or None
  requests,  \* all the application has sent
  replies,   \* all the helper has sent: replies and the pixels attached
  closed     \* has the application closed its end

process == <<pc, sandboxed, fdTable, files, taken, received, reply, buffer>>
vars == <<process, requests, replies, closed>>

-----------------------------------------------------------------------------

OpenIds == {id \in Ids : files[id] # None}
FreeFds == {n \in Fds : fdTable[n].holds = "nothing"}

\* The number the kernel gives to a new descriptor: the lowest that is free, so
\* that of the last one closed as a rule.
NewFd == {n \in FreeFds : \A k \in FreeFds : n <= k}
Alive == pc \notin Ended

\* The request handle() is working on.
Current == requests[taken].request

\* fdTable without the descriptors in S.
Without(S) == [n \in Fds |-> IF n \in S THEN Empty ELSE fdTable[n]]

\* The process ends: the kernel closes everything it held.
End(how) ==
  /\ pc' = how
  /\ fdTable' = [n \in Fds |-> Empty]
  /\ files' = [id \in Ids |-> None]
  /\ received' = None
  /\ reply' = None
  /\ buffer' = None
  /\ UNCHANGED <<sandboxed, taken, requests, replies, closed>>

\* Mutant: closing a file gets no reply.
ReturnQuiet(r) ==
  /\ pc' = IF r.kind = "Closed" THEN "recv" ELSE "send"
  /\ reply' = r
  /\ received' = None
  /\ UNCHANGED <<sandboxed, taken, buffer, requests, replies, closed>>

\* handle() returns a reply without shared memory; whatever it did not store
\* is dropped.
Return(r) ==
  /\ pc' = "send"
  /\ reply' = r
  /\ received' = None
  /\ UNCHANGED <<sandboxed, taken, buffer, requests, replies, closed>>

\* Mutant: the descriptor received with a refused request stays open.
FailLeaking(id, error) ==
  /\ Return([kind |-> "Failed", id |-> id, error |-> error])
  /\ UNCHANGED fdTable

Fail(id, error) ==
  /\ Return([kind |-> "Failed", id |-> id, error |-> error])
  /\ fdTable' = Without({received})

-----------------------------------------------------------------------------
(* main(): start-up, reception, answer                                     *)

Init ==
  /\ pc = "start"
  /\ sandboxed = FALSE
  /\ fdTable = [n \in Fds |-> Empty]
  /\ files = [id \in Ids |-> None]
  /\ taken = 0
  /\ received = None
  /\ reply = None
  /\ buffer = None
  /\ requests = <<>>
  /\ replies = <<>>
  /\ closed = FALSE

\* Mutant: a helper that could not enter its sandbox goes on, as elsewhere.
UnconfinedAllowed == TRUE

\* Only on macOS does the helper refuse to run unconfined.
MayRunUnconfined == ~MacOS

\* enter(): the system may refuse; elsewhere there is no sandbox to enter.
EnterSandbox == IF MacOS THEN BOOLEAN ELSE {FALSE}

\* warm_up(), then the sandbox.
Start ==
  /\ pc = "start"
  /\ \E entered \in EnterSandbox :
       \/ /\ entered \/ MayRunUnconfined
          /\ sandboxed' = entered
          /\ pc' = "recv"
          /\ UNCHANGED <<fdTable, files, taken, received, reply, buffer,
                         requests, replies, closed>>
       \/ ~entered /\ ~MayRunUnconfined /\ End("failure")

\* recv::<Request>() returns a message, and its descriptor under a number of
\* this process.
Recv ==
  /\ pc = "recv"
  /\ taken < Len(requests)
  /\ LET m == requests[taken + 1]
     IN  /\ m.request.op # "Malformed"
         /\ IF m.attached = None
            THEN received' = None /\ UNCHANGED fdTable
            ELSE \E n \in NewFd :
                   /\ received' = n
                   /\ fdTable' = [fdTable EXCEPT ![n] = FileSlot(m.attached)]
  /\ taken' = taken + 1
  /\ pc' = "handle"
  /\ UNCHANGED <<sandboxed, files, reply, buffer, requests, replies, closed>>

\* recv fails otherwise than at the end of the stream: on bytes that are no
\* request, or because the application closed its end before it read every
\* reply (a reset connection, where the kernel reports one).
RecvFails ==
  /\ pc = "recv"
  /\ \/ taken < Len(requests) /\ requests[taken + 1].request.op = "Malformed"
     \/ taken = Len(requests) /\ closed /\ replies # <<>>
  /\ End("failure")

\* Mutant: the end of the stream is taken for an interrupted call and retried.
RecvEofRetried ==
  /\ pc = "recv"
  /\ taken = Len(requests)
  /\ closed
  /\ UNCHANGED vars

\* The application closed the channel.
RecvEof ==
  /\ pc = "recv"
  /\ taken = Len(requests)
  /\ closed
  /\ End("success")

\* Mutant: the number of the descriptor is sent, not what it refers to.
OutgoingNumber == [reply |-> reply, attached |-> buffer]

\* What send() is given: the reply, and the pixels its descriptor leads to.
Outgoing ==
  [reply |-> reply,
   attached |-> IF buffer = None THEN None ELSE fdTable[buffer].file]

\* Mutant: the buffer outlives its reply and is attached to the next one too.
BufferKept == UNCHANGED <<buffer, fdTable>>

BufferDropped ==
  /\ buffer' = None
  /\ fdTable' = Without({buffer})

\* The reply and its descriptor leave, and the buffer is dropped.
Send ==
  /\ pc = "send"
  /\ ~closed
  /\ replies' = Append(replies, Outgoing)
  /\ pc' = "recv"
  /\ reply' = None
  /\ BufferDropped
  /\ UNCHANGED <<sandboxed, files, taken, received, requests, closed>>

\* The application is gone, or the reply is larger than a message may be
\* (strings and lens corrections of a file are not cut to fit).
SendFails ==
  /\ pc = "send"
  /\ closed \/ reply.kind \in {"Opened", "Sensor"}
  /\ End("failure")

-----------------------------------------------------------------------------
(* handle()                                                                *)

Hello ==
  /\ Current.op = "Hello"
  /\ Return([kind |-> "Hello", version |-> PROTOCOL_VERSION,
             sandboxed |-> sandboxed])
  /\ fdTable' = Without({received})
  /\ UNCHANGED files

\* Mutant: one place of the table is never used.
FullEarly == Cardinality(OpenIds) >= MAX_OPEN_FILES - 1

\* Mutant: one file too many.
FullLate == Cardinality(OpenIds) > MAX_OPEN_FILES

Full == Cardinality(OpenIds) >= MAX_OPEN_FILES

OpenRefused ==
  /\ Current.op = "Open"
  /\ \/ received = None /\ Fail(Current.id, {"no descriptor"})
     \/ received # None /\ Full /\ Fail(Current.id, {"too many"})
  /\ UNCHANGED files

Admitted == Current.op = "Open" /\ received # None /\ ~Full

\* Mutant: an entry already under this id is kept and the new file dropped.
InsertOnce(id, rawler, system) ==
  /\ Return([kind |-> "Opened", id |-> id])
  /\ IF files[id] = None
     THEN /\ files' = [files EXCEPT ![id] =
                [fd |-> received, source |-> fdTable[received].file,
                 rawler |-> rawler, system |-> system]]
          /\ UNCHANGED fdTable
     ELSE fdTable' = Without({received}) /\ UNCHANGED files

\* files.insert: an entry already under this id is dropped, descriptor included.
Insert(id, rawler, system) ==
  /\ Return([kind |-> "Opened", id |-> id])
  /\ files' = [files EXCEPT ![id] =
       [fd |-> received, source |-> fdTable[received].file,
        rawler |-> rawler, system |-> system]]
  /\ fdTable' = IF files[id] = None THEN fdTable ELSE Without({files[id].fd})

Open ==
  /\ Admitted
  /\ \/ Fail(Current.id, {"cannot map"}) /\ UNCHANGED files
     \/ \E info \in Outcome, system \in SystemOutcome :
          LET raw == Guarded(info)
              sys == Guarded(system)
          IN  \/ raw = "ok" /\ Insert(Current.id, TRUE, "untried")
              \/ raw \in Fatal /\ End(raw)
              \/ /\ raw = "err"
                 /\ \/ sys = "ok" /\ Insert(Current.id, FALSE, "ok")
                    \/ /\ sys = "err"
                       /\ Fail(Current.id, {"raw", "system"})
                       /\ UNCHANGED files
                    \/ sys \in Fatal /\ End(sys)

\* A decoder returned its pixels in a new SharedBuffer.  The descriptor that came
\* with the request, a parameter of handle(), is still open.
Deliver(kind, id) ==
  /\ Current.op = kind
  /\ pc' = "return"
  /\ reply' = [kind |-> kind, id |-> id]
  /\ \E b \in NewFd :
       /\ buffer' = b
       /\ fdTable' = [fdTable EXCEPT ![b] = PixelSlot(files[id].source)]
  /\ UNCHANGED <<sandboxed, taken, received, requests, replies, closed>>

\* Mutant: a descriptor attached to a request for pixels stays open.
ReturnLeaking ==
  /\ pc = "return"
  /\ pc' = "send"
  /\ received' = None
  /\ UNCHANGED <<sandboxed, fdTable, files, taken, reply, buffer, requests, replies,
                 closed>>

\* handle() returns the pixels and drops its parameters.
ReturnPixels ==
  /\ pc = "return"
  /\ pc' = "send"
  /\ received' = None
  /\ fdTable' = Without({received})
  /\ UNCHANGED <<sandboxed, files, taken, reply, buffer, requests, replies, closed>>

\* Both decoders' reasons, when rawler had one.
Join(file) == IF file.rawler THEN {"raw", "system"} ELSE {"system"}

\* Mutant: only a success is cached, a failure is tried again.
SystemRetried(file, open) ==
  IF file.system = "ok" THEN file.system ELSE Guarded(open)

\* OpenFile::system(): the cached decoder, opened on first need.
System(file, open) ==
  IF file.system = "untried" THEN Guarded(open) ELSE file.system

\* What rawler could not decode, decoded by the system.
Fallback(kind, id) ==
  \E open \in SystemOutcome, decode \in SystemOutcome :
    LET sys == System(files[id], open)
        pixels == Guarded(decode)
    IN  \/ sys \in Fatal /\ End(sys)
        \/ /\ sys = "err"
           /\ Fail(id, {"system"})
           /\ files' = [files EXCEPT ![id].system = sys]
        \/ /\ sys = "ok"
           /\ \/ pixels \in Fatal /\ End(pixels)
              \/ /\ pixels = "err"
                 /\ Fail(id, Join(files[id]))
                 /\ files' = [files EXCEPT ![id].system = sys]
              \/ /\ pixels = "ok"
                 /\ Deliver(kind, id)
                 /\ files' = [files EXCEPT ![id].system = sys]

\* Request::Preview and Request::Sensor.
Decode(kind) ==
  /\ Current.op = kind
  /\ LET id == Current.id
     IN  \/ /\ files[id] = None
            /\ Fail(id, {"not open"})
            /\ UNCHANGED files
         \/ /\ files[id] # None
            /\ \E raw \in Outcome :
                 LET pixels == IF files[id].rawler THEN Guarded(raw) ELSE "err"
                 IN  \/ pixels \in Fatal /\ End(pixels)
                     \/ pixels = "ok" /\ Deliver(kind, id) /\ UNCHANGED files
                     \/ pixels = "err" /\ Fallback(kind, id)

\* sandbox_escapes(): a probe succeeds only where no sandbox holds.
Escapes == IF sandboxed THEN {{}} ELSE SUBSET Probes

SandboxCheck ==
  /\ Current.op = "SandboxCheck"
  /\ \E escapes \in Escapes :
       Return([kind |-> "SandboxCheck", sandboxed |-> sandboxed,
               escapes |-> escapes])
  /\ fdTable' = Without({received})
  /\ UNCHANGED files

Close ==
  /\ Current.op = "Close"
  /\ LET id == Current.id
     IN  /\ Return([kind |-> "Closed", id |-> id])
         /\ files' = [files EXCEPT ![id] = None]
         /\ fdTable' = Without({received} \cup
                          IF files[id] = None THEN {} ELSE {files[id].fd})

Handle ==
  /\ pc = "handle"
  /\ \/ Hello \/ OpenRefused \/ Open
     \/ Decode("Preview") \/ Decode("Sensor")
     \/ SandboxCheck \/ Close

HelperStep ==
  \/ Start \/ Recv \/ RecvFails \/ RecvEof
  \/ Handle \/ ReturnPixels \/ Send \/ SendFails

-----------------------------------------------------------------------------
(* The application                                                         *)

AppSend(m) ==
  /\ Alive
  /\ ~closed
  /\ Len(requests) < MaxRequests
  /\ Len(requests) - Len(replies) < Window
  /\ requests' = Append(requests, m)
  /\ UNCHANGED <<process, replies, closed>>

AppClose ==
  /\ ~closed
  /\ closed' = TRUE
  /\ UNCHANGED <<process, requests, replies>>

Kill == Alive /\ End("killed")

\* The process is gone and so is the application's end: nothing is left to do.
Finished == ~Alive /\ closed /\ UNCHANGED vars

Next ==
  HelperStep \/ (\E m \in Messages : AppSend(m)) \/ AppClose \/ Kill \/ Finished

Spec == Init /\ [][Next]_vars

\* Every call of the loop returns: decoders that do not hang, a socket with
\* room for the reply.
FairSpec == Spec /\ WF_vars(HelperStep)
-----------------------------------------------------------------------------
(* Properties                                                              *)

\* Every variable has its type.
TypeOK ==
  /\ pc \in {"start", "recv", "handle", "return", "send"} \cup Ended
  /\ sandboxed \in BOOLEAN
  /\ fdTable \in [Fds -> Slot]
  /\ files \in [Ids -> OpenFile \cup {None}]
  /\ taken \in 0 .. Len(requests)
  /\ received \in Fds \cup {None}
  /\ reply \in Reply \cup {None}
  /\ buffer \in Fds \cup {None}
  /\ requests \in Seq(Message)
  /\ replies \in Seq(Answer)
  /\ closed \in BOOLEAN

\* Every descriptor the process holds has exactly one owner: an open file,
\* whose number still refers to the file that was mapped, the message in hand,
\* or the reply about to leave.  None leaks on an early return of handle(), on
\* a refused or repeated Open, on a descriptor attached to another request;
\* none is closed twice (its number could by then name something else).
DescriptorsOwnedOnce ==
  /\ \A id \in OpenIds : fdTable[files[id].fd] = FileSlot(files[id].source)
  /\ \A i, j \in OpenIds : files[i].fd = files[j].fd => i = j
  /\ received # None => /\ fdTable[received].holds = "file"
                        /\ \A id \in OpenIds : files[id].fd # received
  /\ buffer # None => fdTable[buffer].holds = "pixels"
  /\ \A n \in Fds : fdTable[n].holds # "nothing" =>
        n \in {received, buffer} \cup {files[id].fd : id \in OpenIds}

\* The table keeps at most MAX_OPEN_FILES files.  Beyond them the process holds at
\* most two descriptors, that of the message in hand and that of the pixels made
\* for it, and none while it waits for a request, however many came before.
DescriptorsBounded ==
  /\ Cardinality(OpenIds) <= MAX_OPEN_FILES
  /\ Cardinality(Fds \ FreeFds) <= MAX_OPEN_FILES + 2
  /\ pc = "recv" => Cardinality(Fds \ FreeFds) <= MAX_OPEN_FILES

IsAnswer(request, answer) ==
  LET kind == answer.reply.kind
  IN  CASE request.op = "Hello" -> kind = "Hello"
        [] request.op = "SandboxCheck" -> kind = "SandboxCheck"
        [] OTHER ->
             /\ answer.reply.id = request.id
             /\ kind = "Failed" \/ <<request.op, kind>> \in
                  {<<"Open", "Opened">>, <<"Preview", "Preview">>,
                   <<"Sensor", "Sensor">>, <<"Close", "Closed">>}

\* Replies carry no request number: the application relies on their order.
\* The n-th reply answers the n-th request, under its id, and shared memory is
\* attached exactly when the reply announces pixels.
AnswersInOrder ==
  /\ Len(replies) <= taken
  /\ \A n \in DOMAIN replies :
       /\ IsAnswer(requests[n].request, replies[n])
       /\ replies[n].attached # None
            <=> replies[n].reply.kind \in {"Preview", "Sensor"}

\* The file that `id` names after the first n exchanges, as the application
\* reads it off the messages alone: the one of the last successful Open, unless
\* a Close came after it.
BoundAfter(n, id) ==
  LET touches == {k \in 1 .. n : /\ replies[k].reply.kind \in {"Opened", "Closed"}
                                 /\ replies[k].reply.id = id}
  IN  IF touches = {} \/ replies[Max(touches)].reply.kind = "Closed"
      THEN None
      ELSE requests[Max(touches)].attached

\* Pixels sent for an id are those of the file the application last opened
\* under it, however requests were pipelined, files replaced and ids reused;
\* for an id that names no file there are none.
PixelsOfBoundFile ==
  \A n \in DOMAIN replies :
    replies[n].reply.kind \in {"Preview", "Sensor"} =>
      replies[n].attached = BoundAfter(n - 1, replies[n].reply.id)

\* "too many open files" is answered only when the application itself can
\* count MAX_OPEN_FILES files it has open; files it closed, replaced or that
\* failed to open never use up a place.
RefusedOnlyWhenFull ==
  \A n \in DOMAIN replies :
    (replies[n].reply.kind = "Failed" /\ "too many" \in replies[n].reply.error) =>
      Cardinality({id \in Ids : BoundAfter(n - 1, id) # None}) = MAX_OPEN_FILES

\* On macOS no request is read outside the sandbox, and no reply says otherwise.
NoUnconfinedRequest ==
  MacOS => /\ taken > 0 => sandboxed
           /\ \A n \in DOMAIN replies :
                replies[n].reply.kind = "Hello" => replies[n].reply.sandboxed

\* While a file stays open, the system decoder is opened at most once, and what
\* came of it, a decoder or an error, is kept; a file rawler did not recognise
\* always has one.
SystemDecoderKept ==
  [][\A id \in OpenIds :
       (files'[id] # None /\ files'[id].fd = files[id].fd) =>
         /\ files[id].system # "untried" => files'[id].system = files[id].system
         /\ ~files[id].rawler => files'[id].system = "ok"]_vars

\* With decoders that return, every message sent is answered, unless the
\* process ends first.
EveryRequestAnswered ==
  \A n \in 1 .. MaxRequests :
    Len(requests) >= n ~> (Len(replies) >= n \/ ~Alive)

\* A helper whose application is gone ends: it neither waits for a request that
\* cannot come nor stays with a reply nobody reads.
EndsWithApplication == closed ~> ~Alive

\* protocol/src/lib.rs: "both sides check it with `Hello`".  A peer that
\* announced another version is not served.
MismatchedPeerNotServed ==
  \A k, n \in DOMAIN replies :
    ( /\ k < n
      /\ requests[k].request.op = "Hello"
      /\ requests[k].request.version # PROTOCOL_VERSION )
      => replies[n].reply.kind \notin {"Opened", "Preview", "Sensor"}

\* main.rs, join(): "Both decoders' reasons, when both failed."  A Preview or
\* Sensor that fails for a file rawler recognised (so both decoders failed)
\* gives both reasons.
BothReasonsGiven ==
  ( /\ pc = "send"
    /\ Current.op \in {"Preview", "Sensor"}
    /\ files[Current.id] # None
    /\ files[Current.id].rawler
    /\ reply.kind = "Failed" )
    => reply.error = {"raw", "system"}

\* The helper implements the service the application relies on: the table of
\* open files is the service's, and handle() has answered once it returns.
Service == INSTANCE RawService WITH
  bound <- [id \in Ids |-> IF files[id] = None THEN None ELSE files[id].source],
  pending <- IF pc \in {"return", "send"} THEN Outgoing ELSE None,
  stopped <- ~Alive

ImplementsService == Service!Spec

=============================================================================
