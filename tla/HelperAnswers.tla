---------------------------- MODULE HelperAnswers ----------------------------
(***************************************************************************)
(* Proofs, for every value of the constants, of what the application       *)
(* relies on when it reads the replies: their order, the file whose pixels *)
(* come with them, the reason "too many", the sandbox they report; and     *)
(* that it implements RawService, the service it relies on.                *)
(***************************************************************************)
EXTENDS HelperProofs, WellFoundedInduction

\* The file each id names in the helper's table.
Bound == [id \in Ids |-> IF files[id] = None THEN None ELSE files[id].source]

\* handle() has made its reply.
Replied == pc \in {"return", "send"}

\* While handle() runs, the descriptor received is that of the file attached to
\* the message taken last.
InHand ==
  pc = "handle" =>
    /\ received = None <=> requests[taken].attached = None
    /\ received # None => fdTable[received] = FileSlot(requests[taken].attached)

\* One reply per message taken; the last is on its way between recv and send.
OneReplyEach ==
  /\ Len(replies) <= taken
  /\ pc \in {"start", "recv"} => Len(replies) = taken
  /\ pc = "handle" \/ Replied => Len(replies) + 1 = taken

\* The file `id` will name once the reply in hand, if there is one, is read.
BoundNext(id) ==
  IF Replied /\ reply.kind \in {"Opened", "Closed"} /\ reply.id = id
  THEN IF reply.kind = "Opened" THEN requests[taken].attached ELSE None
  ELSE BoundAfter(Len(replies), id)

\* The table of the helper is the one the application reads off the messages.
TableAgrees == Alive => \A id \in Ids : Bound[id] = BoundNext(id)

\* The reply in hand is already what the properties ask of it once sent.
ReplyReady ==
  Replied =>
    /\ IsAnswer(requests[taken].request, Outgoing)
    /\ Outgoing.attached # None <=> reply.kind \in {"Preview", "Sensor"}
    /\ reply.kind \in {"Preview", "Sensor"} =>
         Outgoing.attached = BoundAfter(Len(replies), reply.id)
    /\ (reply.kind = "Failed" /\ "too many" \in reply.error) =>
         Cardinality({id \in Ids : BoundAfter(Len(replies), id) # None})
           = MAX_OPEN_FILES

\* The inductive invariant of the answers.
AnswersInv ==
  /\ InHand /\ OneReplyEach /\ TableAgrees /\ ReplyReady
  /\ AnswersInOrder /\ PixelsOfBoundFile /\ RefusedOnlyWhenFull

\* The inductive invariant of the sandbox.
ConfinedInv ==
  MacOS =>
    /\ pc = "start" => taken = 0
    /\ pc \in {"recv", "handle"} \/ Replied \/ taken > 0 => sandboxed
    /\ Replied /\ reply.kind = "Hello" => reply.sandboxed
    /\ \A n \in DOMAIN replies :
         replies[n].reply.kind = "Hello" => replies[n].reply.sandboxed

-----------------------------------------------------------------------------
(* Facts about natural numbers and sequences                               *)

\* A set of natural numbers has a least element.
LEMMA LeastNatural ==
  ASSUME NEW S \in SUBSET Nat, S # {}
  PROVE  \E m \in S : \A k \in S : m <= k
<1>1. PICK m \in S : \A k \in S : <<k, m>> \notin OpToRel(<, Nat)
  BY NatLessThanWellFounded, WFMin, Zenon
<1>2. \A k \in S : ~(k < m)
  BY <1>1, Zenon DEF OpToRel
<1> QED
  BY <1>2

\* Max() is the greatest element of a set of positions.
LEMMA MaxOfPositions ==
  ASSUME NEW n \in Nat, NEW S \in SUBSET (1 .. n), S # {}
  PROVE  Max(S) \in S /\ \A k \in S : Max(S) >= k
<1> DEFINE down == {n - k : k \in S}
<1>1. down \in SUBSET Nat
  OBVIOUS
<1>2. down # {}
  <2>1. PICK k \in S : TRUE
    OBVIOUS
  <2>2. n - k \in down
    BY <2>1
  <2> QED
    BY <2>2
<1>3. PICK d \in down : \A k \in down : d <= k
  BY <1>1, <1>2, LeastNatural
<1>4. PICK m \in S : d = n - m
  OBVIOUS
<1>5. \A k \in S : m >= k
  BY <1>3, <1>4
<1> QED
  BY <1>5 DEF Max

-----------------------------------------------------------------------------
(* handle(), as the application sees it                                    *)

\* handle() returns the reply r; pixels is what its buffer holds, or None.
Answers(r, pixels) ==
  /\ Replied'
  /\ reply' = r
  /\ Outgoing' = [reply |-> r, attached |-> pixels]
  /\ UNCHANGED <<sandboxed, taken, requests, replies, closed>>

Greets ==
  /\ Current.op = "Hello"
  /\ Answers([kind |-> "Hello", version |-> PROTOCOL_VERSION,
              sandboxed |-> sandboxed], None)
  /\ Bound' = Bound

Tests ==
  /\ Current.op = "SandboxCheck"
  /\ \E escapes \in SUBSET Probes :
       Answers([kind |-> "SandboxCheck", sandboxed |-> sandboxed,
                escapes |-> escapes], None)
  /\ Bound' = Bound

Refuses ==
  /\ Current.op \in {"Open", "Preview", "Sensor"}
  /\ \E error \in SUBSET Reason :
       /\ "too many" \in error => Full
       /\ Answers([kind |-> "Failed", id |-> Current.id, error |-> error], None)
  /\ Bound' = Bound

Binds ==
  /\ Current.op = "Open"
  /\ requests[taken].attached # None
  /\ ~Full
  /\ Answers([kind |-> "Opened", id |-> Current.id], None)
  /\ Bound' = [Bound EXCEPT ![Current.id] = requests[taken].attached]

GivesPixels ==
  /\ Current.op \in {"Preview", "Sensor"}
  /\ Bound[Current.id] # None
  /\ Answers([kind |-> Current.op, id |-> Current.id], Bound[Current.id])
  /\ Bound' = Bound

Unbinds ==
  /\ Current.op = "Close"
  /\ Answers([kind |-> "Closed", id |-> Current.id], None)
  /\ Bound' = [Bound EXCEPT ![Current.id] = None]

HandleSeen == Greets \/ Tests \/ Refuses \/ Binds \/ GivesPixels \/ Unbinds

\* A reply without a buffer carries no pixels.
LEMMA ReturnSeen ==
  ASSUME IInv, pc = "handle", NEW r, Return(r)
  PROVE  Answers(r, None)
BY DEF IInv, Control, Return, Answers, Replied, Outgoing

\* What the table binds depends on the files its entries were opened for.
LEMMA BoundKept ==
  ASSUME OpenIds' = OpenIds, \A id \in OpenIds : files'[id].source = files[id].source
  PROVE  Bound' = Bound
BY DEF Bound, OpenIds

\* Whatever it cannot do, handle() changes no binding.
LEMMA FailSeen ==
  ASSUME IInv, pc = "handle", Current.op \in {"Open", "Preview", "Sensor"},
         NEW error \in SUBSET Reason, Fail(Current.id, error),
         "too many" \in error => Full, Bound' = Bound
  PROVE  Refuses
<1>1. Answers([kind |-> "Failed", id |-> Current.id, error |-> error], None)
  BY ReturnSeen DEF Fail
<1> QED
  BY <1>1 DEF Refuses

\* Insert() binds the id to the file attached to the message.
LEMMA InsertSeen ==
  ASSUME IInv, InHand, pc = "handle", Admitted,
         NEW rawler \in BOOLEAN, NEW system \in {"untried", "ok", "err"},
         Insert(Current.id, rawler, system)
  PROVE  Binds
<1> DEFINE id == Current.id
           file == requests[taken].attached
           entry == [fd |-> received, source |-> fdTable[received].file,
                     rawler |-> rawler, system |-> system]
<1>1. id \in Ids
  BY CurrentInRequest DEF IInv, Admitted
<1>2. received \in Fds /\ fdTable[received] = FileSlot(file) /\ file # None
  BY DEF IInv, TypeOK, InHand, Admitted
<1>3. entry.source = file
  BY <1>2 DEF FileSlot
<1>4. entry # None
  <2>1. taken \in 1 .. Len(requests)
    BY DEF IInv, TypeOK, Control
  <2>2. requests[taken] \in Message
    BY <2>1 DEF IInv, TypeOK
  <2>3. file \in Files
    BY <2>2, <1>2 DEF Message
  <2>4. entry \in OpenFile
    BY <2>3, <1>2, <1>3 DEF OpenFile
  <2> QED
    BY <2>4, HelperAssumption
<1>5. files' = [files EXCEPT ![id] = entry]
  BY DEF Insert
<1>6. Bound' = [Bound EXCEPT ![id] = file]
  BY <1>1, <1>3, <1>4, <1>5 DEF Bound, IInv, TypeOK
<1>7. Answers([kind |-> "Opened", id |-> id], None)
  BY ReturnSeen DEF Insert
<1> QED
  BY <1>2, <1>6, <1>7 DEF Binds, Admitted

\* Deliver() sends the pixels of the file its id is bound to.
LEMMA DeliverSeen ==
  ASSUME IInv, pc = "handle", Current.op \in {"Preview", "Sensor"},
         files[Current.id] # None, Deliver(Current.op, Current.id), Bound' = Bound
  PROVE  GivesPixels
<1> DEFINE id == Current.id
           kind == Current.op
<1>1. id \in Ids
  BY CurrentInRequest DEF IInv
<1>2. Bound[id] = files[id].source /\ files[id].source \in Files
  BY <1>1 DEF Bound, IInv, TypeOK, OpenFile
<1>3. PICK b \in NewFd :
        /\ buffer' = b
        /\ fdTable' = [fdTable EXCEPT ![b] = PixelSlot(files[id].source)]
  BY DEF Deliver
<1>4. b \in Fds /\ b # None
  BY HelperAssumption DEF NewFd, FreeFds
<1>5. fdTable'[b].file = files[id].source
  BY <1>3, <1>4 DEF IInv, TypeOK, PixelSlot
<1>6. Answers([kind |-> kind, id |-> id], Bound[id])
  BY <1>2, <1>3, <1>4, <1>5 DEF Answers, Replied, Deliver, Outgoing
<1>7. Bound[id] # None
  BY <1>2, ProtocolAssumption
<1> QED
  BY <1>6, <1>7 DEF GivesPixels

\* What the fallback to the system decoder does: end, refuse or give pixels.
LEMMA FallbackSeen ==
  ASSUME IInv, pc = "handle", Current.op \in {"Preview", "Sensor"},
         files[Current.id] # None, Fallback(Current.op, Current.id)
  PROVE  (\E how \in Ended : End(how)) \/ Refuses \/ GivesPixels
<1> DEFINE id == Current.id
<1>1. PICK open \in SystemOutcome, decode \in SystemOutcome :
        LET sys == System(files[id], open)
            pixels == Guarded(decode)
        IN  \/ sys \in Fatal /\ End(sys)
            \/ /\ sys = "err"
               /\ Fail(id, {"system"})
               /\ files' = [files EXCEPT ![id].system = sys]
            \/ /\ sys = "ok"
               /\ \/ pixels \in Fatal /\ End(pixels)
                  \/ /\ pixels = "err"
                     /\ Fail(id, Join(files[id]))
                     /\ files' = [files EXCEPT ![id].system = sys]
                  \/ /\ pixels = "ok"
                     /\ Deliver(Current.op, id)
                     /\ files' = [files EXCEPT ![id].system = sys]
  BY DEF Fallback
<1> DEFINE sys == System(files[id], open)
           pixels == Guarded(decode)
<1>2. id \in Ids
  BY CurrentInRequest DEF IInv
<1>3. ASSUME sys \in {"ok", "err"}, files' = [files EXCEPT ![id].system = sys]
      PROVE  Bound' = Bound
  BY <1>2, <1>3, SystemKeepsOwner, BoundKept
<1>4. CASE (sys \in Fatal /\ End(sys)) \/ (pixels \in Fatal /\ End(pixels))
  BY <1>4 DEF Fatal, Ended
<1>5. CASE (Fail(id, {"system"}) \/ Fail(id, Join(files[id]))) /\ Bound' = Bound
  <2>1. /\ {"system"} \in SUBSET Reason /\ "too many" \notin {"system"}
        /\ Join(files[id]) \in SUBSET Reason /\ "too many" \notin Join(files[id])
    BY DEF Reason, Join
  <2> QED
    BY <1>5, <2>1, FailSeen
<1>6. CASE Deliver(Current.op, id) /\ Bound' = Bound
  BY <1>6, DeliverSeen
<1>7. CASE sys = "err" /\ Fail(id, {"system"})
           /\ files' = [files EXCEPT ![id].system = sys]
  BY <1>3, <1>5, <1>7
<1>8. CASE sys = "ok" /\ (Fail(id, Join(files[id])) \/ Deliver(Current.op, id))
           /\ files' = [files EXCEPT ![id].system = sys]
  BY <1>3, <1>5, <1>6, <1>8
<1> QED
  BY <1>1, <1>4, <1>7, <1>8

\* A Preview or a Sensor gives the pixels of the file its id is bound to, is refused
\* as unreadable, or stops the process: never an answer of another kind.
LEMMA DecodeSeen ==
  ASSUME IInv, pc = "handle", NEW kind \in {"Preview", "Sensor"}, Decode(kind)
  PROVE  (\E how \in Ended : End(how)) \/ Refuses \/ GivesPixels
<1> DEFINE id == Current.id
<1>1. Current.op = kind
  BY DEF Decode
<1>2. UNCHANGED files => Bound' = Bound
  BY DEF Bound
<1>3. CASE files[id] = None /\ Fail(id, {"not open"}) /\ UNCHANGED files
  <2>1. {"not open"} \in SUBSET Reason /\ "too many" \notin {"not open"}
    BY DEF Reason
  <2> QED
    BY <1>1, <1>2, <1>3, <2>1, FailSeen
<1>4. ASSUME files[id] # None, NEW raw \in Outcome,
             NEW pixels, pixels = IF files[id].rawler THEN Guarded(raw) ELSE "err",
             \/ pixels \in Fatal /\ End(pixels)
             \/ pixels = "ok" /\ Deliver(kind, id) /\ UNCHANGED files
             \/ pixels = "err" /\ Fallback(kind, id)
      PROVE  (\E how \in Ended : End(how)) \/ Refuses \/ GivesPixels
  <2>1. CASE pixels \in Fatal /\ End(pixels)
    BY <2>1 DEF Fatal, Ended
  <2>2. CASE Deliver(kind, id) /\ UNCHANGED files
    BY <1>1, <1>2, <1>4, <2>2, DeliverSeen
  <2>3. CASE Fallback(kind, id)
    BY <1>1, <1>4, <2>3, FallbackSeen
  <2> QED
    BY <1>4, <2>1, <2>2, <2>3
<1> QED
  BY <1>3, <1>4 DEF Decode

\* Every step of handle() ends the process or answers the request in hand.
LEMMA HandleIsSeen ==
  ASSUME IInv, InHand, Handle
  PROVE  (\E how \in Ended : End(how)) \/ HandleSeen
<1>1. pc = "handle"
  BY DEF Handle
<1>2. UNCHANGED files => Bound' = Bound
  BY DEF Bound
<1>3. CASE Hello
  BY <1>1, <1>2, <1>3, ReturnSeen DEF Hello, Greets, HandleSeen
<1>4. CASE SandboxCheck
  BY <1>1, <1>2, <1>4, ReturnSeen DEF SandboxCheck, Escapes, Tests, HandleSeen
<1>5. CASE OpenRefused
  <2>1. /\ {"no descriptor"} \in SUBSET Reason /\ "too many" \notin {"no descriptor"}
        /\ {"too many"} \in SUBSET Reason
    BY DEF Reason
  <2> QED
    BY <1>1, <1>2, <1>5, <2>1, FailSeen DEF OpenRefused, HandleSeen
<1>6. CASE Open
  <2>1. /\ {"cannot map"} \in SUBSET Reason /\ "too many" \notin {"cannot map"}
        /\ {"raw", "system"} \in SUBSET Reason /\ "too many" \notin {"raw", "system"}
    BY DEF Reason
  <2>2. CASE (Fail(Current.id, {"cannot map"}) \/ Fail(Current.id, {"raw", "system"}))
             /\ UNCHANGED files
    BY <1>1, <1>2, <1>6, <2>1, <2>2, FailSeen DEF Open, Admitted, HandleSeen
  <2>3. ASSUME NEW how \in Fatal, End(how) PROVE \E e \in Ended : End(e)
    BY <2>3 DEF Fatal, Ended
  <2>4. CASE Insert(Current.id, TRUE, "untried") \/ Insert(Current.id, FALSE, "ok")
    BY <1>1, <1>6, <2>4, InsertSeen DEF Open, HandleSeen
  <2> QED
    BY <1>6, <2>2, <2>3, <2>4 DEF Open
<1>7. CASE Decode("Preview") \/ Decode("Sensor")
  BY <1>1, <1>7, DecodeSeen DEF HandleSeen
<1>8. CASE Close
  <2>1. Current.id \in Ids /\ files' = [files EXCEPT ![Current.id] = None]
    BY <1>1, <1>8, CurrentInRequest DEF IInv, Close
  <2>2. Bound' = [Bound EXCEPT ![Current.id] = None]
    BY <2>1 DEF Bound, IInv, TypeOK
  <2> QED
    BY <1>1, <1>8, <2>2, ReturnSeen DEF Close, Unbinds, HandleSeen
<1> QED
  BY <1>3, <1>4, <1>5, <1>6, <1>7, <1>8 DEF Handle

-----------------------------------------------------------------------------
(* What the application reads off the messages                             *)

\* More messages change nothing of what the earlier ones bound.
LEMMA BoundAfterKept ==
  ASSUME NEW n \in Nat, NEW id,
         \A k \in 1 .. n : /\ replies'[k] = replies[k]
                           /\ requests'[k].attached = requests[k].attached
  PROVE  BoundAfter(n, id)' = BoundAfter(n, id)
<1> DEFINE T == {k \in 1 .. n : /\ replies[k].reply.kind \in {"Opened", "Closed"}
                                /\ replies[k].reply.id = id}
<1>1. T' = T
  OBVIOUS
<1>2. T # {} => Max(T) \in 1 .. n
  BY MaxOfPositions
<1> HIDE DEF T
<1>3. BoundAfter(n, id) =
        IF T = {} \/ replies[Max(T)].reply.kind = "Closed"
        THEN None ELSE requests[Max(T)].attached
  BY DEF BoundAfter, T
<1>4. BoundAfter(n, id)' =
        IF T' = {} \/ replies'[Max(T')].reply.kind = "Closed"
        THEN None ELSE requests'[Max(T')].attached
  BY DEF BoundAfter, T
<1> QED
  BY <1>1, <1>2, <1>3, <1>4

\* The answer that leaves binds or unbinds the id it names, and no other.
LEMMA AnswerBinds ==
  ASSUME replies \in Seq(Answer), NEW n \in Nat, n = Len(replies), NEW a,
         replies' = Append(replies, a), requests' = requests, NEW id
  PROVE  BoundAfter(n + 1, id)' =
           IF a.reply.kind \in {"Opened", "Closed"} /\ a.reply.id = id
           THEN IF a.reply.kind = "Opened" THEN requests[n + 1].attached ELSE None
           ELSE BoundAfter(n, id)
<1> DEFINE Touches(k) == /\ replies'[k].reply.kind \in {"Opened", "Closed"}
                         /\ replies'[k].reply.id = id
           T == {k \in 1 .. n : Touches(k)}
           U == {k \in 1 .. n + 1 : Touches(k)}
<1>1. replies'[n + 1] = a /\ \A k \in 1 .. n : replies'[k] = replies[k]
  OBVIOUS
<1>2. BoundAfter(n, id)' = BoundAfter(n, id)
  BY <1>1, BoundAfterKept
<1>3. BoundAfter(n, id)' =
        IF T = {} \/ replies'[Max(T)].reply.kind = "Closed"
        THEN None ELSE requests'[Max(T)].attached
  BY DEF BoundAfter
<1>4. BoundAfter(n + 1, id)' =
        IF U = {} \/ replies'[Max(U)].reply.kind = "Closed"
        THEN None ELSE requests'[Max(U)].attached
  BY DEF BoundAfter
<1>5. CASE Touches(n + 1)
  <2>1. n + 1 \in U
    BY <1>5
  <2>2. U # {} /\ U \in SUBSET (1 .. n + 1) /\ n + 1 \in Nat
    BY <2>1
  <2>3. Max(U) \in U /\ \A k \in U : Max(U) >= k
    <3> HIDE DEF U
    <3> QED
      BY <2>2, MaxOfPositions
  <2>4. Max(U) = n + 1
    <3> HIDE DEF U
    <3>1. Max(U) \in 1 .. n + 1
      BY <2>2, <2>3
    <3>2. Max(U) >= n + 1
      BY <2>1, <2>3
    <3> QED
      BY <3>1, <3>2
  <2> QED
    BY <1>1, <1>4, <1>5, <2>2, <2>4
<1>6. CASE ~Touches(n + 1)
  <2>1. U = T
    BY <1>6
  <2> QED
    BY <1>1, <1>2, <1>3, <1>4, <1>6, <2>1
<1> QED
  BY <1>5, <1>6

\* The properties of the answers sent so far.
Sent == AnswersInOrder /\ PixelsOfBoundFile /\ RefusedOnlyWhenFull

\* As long as no answer leaves, they stay, and so do the bindings.
LEMMA SentKept ==
  ASSUME IInv, OneReplyEach, Sent, replies' = replies, taken' \in {taken, taken + 1},
         \A k \in 1 .. Len(requests) : requests'[k] = requests[k]
  PROVE  /\ Sent'
         /\ \A n \in 0 .. Len(replies), id \in Ids :
              BoundAfter(n, id)' = BoundAfter(n, id)
<1>1. /\ Len(replies) \in Nat /\ taken \in 0 .. Len(requests)
      /\ Len(requests) \in Nat /\ DOMAIN replies = 1 .. Len(replies)
  BY DEF IInv, TypeOK
<1>2. Len(replies) <= taken
  BY DEF OneReplyEach
<1>3. \A k \in 1 .. Len(replies) : requests'[k] = requests[k]
  BY <1>1, <1>2
<1>4. \A n \in 0 .. Len(replies) : \A id : BoundAfter(n, id)' = BoundAfter(n, id)
  <2> SUFFICES ASSUME NEW n \in 0 .. Len(replies), NEW id
               PROVE  BoundAfter(n, id)' = BoundAfter(n, id)
    OBVIOUS
  <2>1. n \in Nat /\ \A k \in 1 .. n : requests'[k] = requests[k]
    BY <1>1, <1>3
  <2> QED
    BY <2>1, BoundAfterKept
<1>5. AnswersInOrder'
  BY <1>1, <1>2, <1>3 DEF Sent, AnswersInOrder
<1>6. \A n \in DOMAIN replies : \A id : BoundAfter(n - 1, id)' = BoundAfter(n - 1, id)
  BY <1>1, <1>4
<1>7. PixelsOfBoundFile'
  BY <1>6 DEF Sent, PixelsOfBoundFile
<1>8. RefusedOnlyWhenFull'
  <2> SUFFICES ASSUME NEW n \in DOMAIN replies,
                      replies[n].reply.kind = "Failed",
                      "too many" \in replies[n].reply.error
               PROVE  Cardinality({id \in Ids : BoundAfter(n - 1, id)' # None})
                        = MAX_OPEN_FILES
    BY DEF RefusedOnlyWhenFull
  <2>1. {id \in Ids : BoundAfter(n - 1, id)' # None}
          = {id \in Ids : BoundAfter(n - 1, id) # None}
    BY <1>6
  <2> QED
    BY <2>1 DEF Sent, RefusedOnlyWhenFull
<1> QED
  BY <1>4, <1>5, <1>7, <1>8 DEF Sent

-----------------------------------------------------------------------------
(* The invariant, step by step                                             *)

\* Nothing is asked, nothing is answered.
LEMMA InitAnswers == Init => AnswersInv
<1> SUFFICES ASSUME Init PROVE AnswersInv
  OBVIOUS
<1>1. Len(replies) = 0 /\ DOMAIN replies = {}
  BY DEF Init
<1>2. InHand /\ OneReplyEach /\ ReplyReady
  BY <1>1 DEF Init, InHand, OneReplyEach, Replied, ReplyReady
<1>3. TableAgrees
  <2> SUFFICES ASSUME NEW id \in Ids PROVE Bound[id] = BoundNext(id)
    BY DEF TableAgrees
  <2>1. Bound[id] = None
    BY DEF Init, Bound
  <2>2. BoundNext(id) = BoundAfter(0, id)
    BY <1>1 DEF Init, BoundNext, Replied
  <2>3. BoundAfter(0, id) = None
    BY DEF BoundAfter
  <2> QED
    BY <2>1, <2>2, <2>3
<1>4. AnswersInOrder /\ PixelsOfBoundFile /\ RefusedOnlyWhenFull
  BY <1>1 DEF Init, AnswersInOrder, PixelsOfBoundFile, RefusedOnlyWhenFull
<1> QED
  BY <1>2, <1>3, <1>4 DEF AnswersInv

\* A process that ends answers nothing more.
LEMMA EndKeepsAnswers ==
  ASSUME IInv, AnswersInv, NEW how \in Ended, End(how)
  PROVE  AnswersInv'
<1>1. Sent'
  <2>1. \A k \in 1 .. Len(requests) : requests'[k] = requests[k]
    BY DEF End
  <2> QED
    BY <2>1, SentKept DEF End, AnswersInv, Sent
<1>2. (InHand /\ OneReplyEach /\ ReplyReady /\ TableAgrees)'
  BY DEF AnswersInv, InHand, OneReplyEach, Replied, ReplyReady, TableAgrees, Alive,
         End, Ended
<1> QED
  BY <1>1, <1>2 DEF AnswersInv, Sent

\* While handle() runs, "full" means that the application can count the files.
LEMMA FullIsCounted ==
  ASSUME IInv, TableBounded, AnswersInv, pc = "handle", Full
  PROVE  Cardinality({id \in Ids : BoundAfter(Len(replies), id) # None})
           = MAX_OPEN_FILES
<1>1. \A id \in Ids : Bound[id] = BoundAfter(Len(replies), id)
  BY DEF AnswersInv, TableAgrees, BoundNext, Replied, Alive, Ended
<1>2. \A id \in Ids : files[id] # None => files[id].source # None
  BY ProtocolAssumption DEF IInv, TypeOK, OpenFile
<1>3. {id \in Ids : BoundAfter(Len(replies), id) # None} = OpenIds
  BY <1>1, <1>2 DEF Bound, OpenIds
<1>4. Cardinality(OpenIds) \in Nat /\ MAX_OPEN_FILES \in Nat
  BY FS_CardinalityType, ProtocolAssumption DEF TableBounded
<1>5. Cardinality(OpenIds) = MAX_OPEN_FILES
  BY <1>4 DEF TableBounded, Full
<1> QED
  BY <1>3, <1>5

\* The reply r, with the pixels it attaches, answers the request in hand as the
\* properties ask, and Bound' is what the application will read off it.
Fits(r, pixels) ==
  /\ IsAnswer(Current, [reply |-> r, attached |-> pixels])
  /\ pixels # None <=> r.kind \in {"Preview", "Sensor"}
  /\ r.kind \in {"Preview", "Sensor"} => r.id \in Ids /\ pixels = Bound[r.id]
  /\ (r.kind = "Failed" /\ "too many" \in r.error) => Full
  /\ \A id \in Ids :
       Bound'[id] = IF r.kind \in {"Opened", "Closed"} /\ r.id = id
                    THEN IF r.kind = "Opened" THEN requests[taken].attached ELSE None
                    ELSE Bound[id]

\* A reply that fits the request in hand may be the next one sent.
LEMMA FitAnswerKept ==
  ASSUME IInv, TableBounded, AnswersInv, pc = "handle",
         NEW r, NEW pixels, Answers(r, pixels), Fits(r, pixels)
  PROVE  AnswersInv'
<1> DEFINE n == Len(replies)
<1>1. UNCHANGED <<taken, requests, replies>> /\ Replied' /\ reply' = r
      /\ Outgoing' = [reply |-> r, attached |-> pixels]
  BY DEF Answers
<1>2. n \in Nat /\ Len(replies)' = n
  BY <1>1 DEF IInv, TypeOK
<1>3. /\ Sent'
      /\ \A m \in 0 .. n, id \in Ids : BoundAfter(m, id)' = BoundAfter(m, id)
  <2>1. \A k \in 1 .. Len(requests) : requests'[k] = requests[k]
    BY <1>1
  <2> QED
    BY <1>1, <2>1, SentKept DEF AnswersInv, Sent
<1>4. \A id \in Ids : Bound[id] = BoundAfter(n, id)
  BY DEF AnswersInv, TableAgrees, BoundNext, Replied, Alive, Ended
<1>5. \A id \in Ids : BoundAfter(Len(replies), id)' = BoundAfter(n, id)
  BY <1>1 DEF BoundAfter
<1>6. InHand' /\ OneReplyEach'
  BY <1>1 DEF AnswersInv, InHand, OneReplyEach, Replied
<1>7. TableAgrees'
  <2> SUFFICES ASSUME NEW id \in Ids PROVE Bound'[id] = BoundNext(id)'
    BY DEF TableAgrees
  <2> QED
    BY <1>1, <1>4, <1>5 DEF BoundNext, Fits
<1>8. ReplyReady'
  <2>1. (r.kind = "Failed" /\ "too many" \in r.error) =>
          Cardinality({id \in Ids : BoundAfter(Len(replies), id)' # None})
            = MAX_OPEN_FILES
    <3>1. {id \in Ids : BoundAfter(Len(replies), id)' # None}
            = {id \in Ids : BoundAfter(n, id) # None}
      BY <1>5
    <3> QED
      BY <3>1, FullIsCounted DEF Fits
  <2>2. r.kind \in {"Preview", "Sensor"} => pixels = BoundAfter(Len(replies), r.id)'
    BY <1>1, <1>4, ZenonT(60) DEF Fits, BoundAfter
  <2>3. IsAnswer(requests[taken].request, Outgoing)'
    BY <1>1 DEF Fits, Current, IsAnswer
  <2> QED
    BY <1>1, <2>1, <2>2, <2>3 DEF ReplyReady, Fits
<1> QED
  BY <1>3, <1>6, <1>7, <1>8 DEF AnswersInv, Sent

\* What handle() answers is ready to be sent, and agrees with the table.
LEMMA HandleKeepsAnswers ==
  ASSUME IInv, TableBounded, AnswersInv, Handle
  PROVE  AnswersInv'
<1> DEFINE id == Current.id
<1>1. pc = "handle" /\ InHand
  BY DEF Handle, AnswersInv
<1>2. CASE \E how \in Ended : End(how)
  BY <1>2, EndKeepsAnswers
<1>3. CASE Greets
  <2> DEFINE r == [kind |-> "Hello", version |-> PROTOCOL_VERSION,
                   sandboxed |-> sandboxed]
  <2>1. Fits(r, None)
    BY <1>3 DEF Greets, Fits, IsAnswer
  <2> QED
    BY <1>1, <1>3, <2>1, FitAnswerKept DEF Greets
<1>4. CASE Tests
  <2>1. PICK escapes \in SUBSET Probes :
          Answers([kind |-> "SandboxCheck", sandboxed |-> sandboxed,
                   escapes |-> escapes], None)
    BY <1>4 DEF Tests
  <2>2. Fits([kind |-> "SandboxCheck", sandboxed |-> sandboxed,
              escapes |-> escapes], None)
    BY <1>4 DEF Tests, Fits, IsAnswer
  <2> QED
    BY <1>1, <2>1, <2>2, FitAnswerKept
<1>5. CASE Refuses
  <2>1. PICK error \in SUBSET Reason :
          /\ "too many" \in error => Full
          /\ Answers([kind |-> "Failed", id |-> id, error |-> error], None)
    BY <1>5 DEF Refuses
  <2>2. Fits([kind |-> "Failed", id |-> id, error |-> error], None)
    BY <1>5, <2>1 DEF Refuses, Fits, IsAnswer
  <2> QED
    BY <1>1, <2>1, <2>2, FitAnswerKept
<1>6. CASE Binds
  <2>1. Fits([kind |-> "Opened", id |-> id], None)
    BY <1>6 DEF Binds, Fits, IsAnswer, Bound
  <2> QED
    BY <1>1, <1>6, <2>1, FitAnswerKept DEF Binds
<1>7. CASE GivesPixels
  <2>1. id \in Ids
    BY <1>1, <1>7, CurrentInRequest DEF IInv, GivesPixels
  <2>2. Fits([kind |-> Current.op, id |-> id], Bound[id])
    BY <1>7, <2>1 DEF GivesPixels, Fits, IsAnswer
  <2> QED
    BY <1>1, <1>7, <2>2, FitAnswerKept DEF GivesPixels
<1>8. CASE Unbinds
  <2>1. Fits([kind |-> "Closed", id |-> id], None)
    BY <1>8 DEF Unbinds, Fits, IsAnswer, Bound
  <2> QED
    BY <1>1, <1>8, <2>1, FitAnswerKept DEF Unbinds
<1> QED
  BY <1>1, <1>2, <1>3, <1>4, <1>5, <1>6, <1>7, <1>8, HandleIsSeen DEF HandleSeen

\* recv: what is received is what was attached to the message.
LEMMA RecvKeepsAnswers ==
  ASSUME IInv, AnswersInv, Recv
  PROVE  AnswersInv'
<1> DEFINE n == Len(replies)
           m == requests[taken + 1]
<1>1. UNCHANGED <<files, requests, replies>> /\ pc = "recv" /\ pc' = "handle"
      /\ taken' = taken + 1
  BY DEF Recv
<1>2. taken \in Nat /\ n \in Nat /\ n = taken
  BY <1>1 DEF IInv, TypeOK, AnswersInv, OneReplyEach
<1>3. Sent'
  <2>1. \A k \in 1 .. Len(requests) : requests'[k] = requests[k]
    BY <1>1
  <2> QED
    BY <1>1, <2>1, SentKept DEF AnswersInv, Sent
<1>4. OneReplyEach'
  BY <1>1, <1>2 DEF OneReplyEach, Replied
<1>5. ReplyReady'
  BY <1>1 DEF ReplyReady, Replied
<1>6. TableAgrees'
  <2> SUFFICES ASSUME NEW id \in Ids PROVE Bound'[id] = BoundNext(id)'
    BY DEF TableAgrees
  <2>1. Bound'[id] = BoundAfter(n, id)
    BY <1>1 DEF AnswersInv, TableAgrees, BoundNext, Replied, Bound, Alive, Ended
  <2>2. BoundNext(id)' = BoundAfter(Len(replies), id)'
    BY <1>1 DEF BoundNext, Replied
  <2>3. BoundAfter(Len(replies), id)' = BoundAfter(n, id)
    BY <1>1 DEF BoundAfter
  <2> QED
    BY <2>1, <2>2, <2>3
<1>7. InHand'
  <2>1. CASE m.attached = None
    BY <1>1, <2>1 DEF Recv, InHand
  <2>2. CASE m.attached # None
    <3>1. PICK k \in NewFd : /\ received' = k
                             /\ fdTable' = [fdTable EXCEPT ![k] = FileSlot(m.attached)]
      BY <2>2 DEF Recv
    <3>2. k \in Fds /\ k # None
      BY HelperAssumption DEF NewFd, FreeFds
    <3>3. fdTable'[k] = FileSlot(m.attached)
      BY <3>1, <3>2 DEF IInv, TypeOK
    <3> QED
      BY <1>1, <2>2, <3>1, <3>2, <3>3 DEF InHand
  <2> QED
    BY <2>1, <2>2
<1> QED
  BY <1>3, <1>4, <1>5, <1>6, <1>7 DEF AnswersInv, Sent

\* An Open is refused because the table is full.
SaysTooMany(answer) ==
  answer.reply.kind = "Failed" /\ "too many" \in answer.reply.error

\* The reply that leaves has the properties of those before it.
LEMMA SendKeepsAnswers ==
  ASSUME IInv, AnswersInv, Send
  PROVE  AnswersInv'
<1> PICK n : n = Len(replies)
  OBVIOUS
<1>1. /\ UNCHANGED <<files, requests, taken>> /\ pc = "send" /\ pc' = "recv"
      /\ replies' = Append(replies, Outgoing)
  BY DEF Send
<1>2. /\ replies \in Seq(Answer) /\ n \in Nat /\ taken \in Nat /\ n + 1 = taken
      /\ DOMAIN replies = 1 .. n
  BY <1>1 DEF IInv, TypeOK, AnswersInv, OneReplyEach, Replied
<1>0. n \in Nat
  BY <1>2
<1>3. /\ Len(replies') = n + 1 /\ DOMAIN replies' = 1 .. n + 1
      /\ replies'[n + 1] = Outgoing
      /\ \A k \in 1 .. n : replies'[k] = replies[k]
  BY <1>1, <1>2
<1>4. /\ Outgoing.reply = reply
      /\ IsAnswer(requests[n + 1].request, Outgoing)
      /\ Outgoing.attached # None <=> reply.kind \in {"Preview", "Sensor"}
      /\ reply.kind \in {"Preview", "Sensor"} =>
           Outgoing.attached = BoundAfter(n, reply.id)
      /\ (reply.kind = "Failed" /\ "too many" \in reply.error) =>
           Cardinality({id \in Ids : BoundAfter(n, id) # None}) = MAX_OPEN_FILES
  BY <1>1, <1>2 DEF AnswersInv, ReplyReady, Replied, Outgoing
<1>5. \A k \in 0 .. n : \A id : BoundAfter(k, id)' = BoundAfter(k, id)
  <2> SUFFICES ASSUME NEW k \in 0 .. n, NEW id
               PROVE  BoundAfter(k, id)' = BoundAfter(k, id)
    OBVIOUS
  <2>1. k \in Nat /\ \A i \in 1 .. k : replies'[i] = replies[i]
    BY <1>2, <1>3
  <2> QED
    BY <1>1, <2>1, BoundAfterKept
<1>6. OneReplyEach' /\ InHand' /\ ReplyReady'
  BY <1>1, <1>2, <1>3 DEF OneReplyEach, InHand, ReplyReady, Replied
<1>7. TableAgrees'
  <2> SUFFICES ASSUME NEW id \in Ids PROVE Bound'[id] = BoundNext(id)'
    BY DEF TableAgrees
  <2>1. Bound'[id] = BoundNext(id)
    BY <1>1 DEF AnswersInv, TableAgrees, Bound, Alive, Ended
  <2>2. BoundAfter(n + 1, id)' =
          IF reply.kind \in {"Opened", "Closed"} /\ reply.id = id
          THEN IF reply.kind = "Opened" THEN requests[n + 1].attached ELSE None
          ELSE BoundAfter(n, id)
    BY <1>1, <1>2, <1>4, AnswerBinds, ZenonT(60)
  <2>3. BoundAfter(n + 1, id)' = BoundNext(id)
    BY <1>1, <1>2, <2>2 DEF BoundNext, Replied
  <2>4. BoundNext(id)' = BoundAfter(n + 1, id)'
    BY <1>1, <1>3 DEF BoundNext, Replied, BoundAfter
  <2> QED
    BY <2>1, <2>3, <2>4
<1>8. AnswersInOrder'
  <2> SUFFICES ASSUME NEW k \in 1 .. n + 1
               PROVE  /\ IsAnswer(requests[k].request, replies'[k])
                      /\ replies'[k].attached # None
                           <=> replies'[k].reply.kind \in {"Preview", "Sensor"}
    BY <1>1, <1>2, <1>3 DEF AnswersInOrder, IsAnswer
  <2>1. CASE k = n + 1
    BY <1>3, <1>4, <2>1
  <2>2. CASE k \in 1 .. n
    BY <1>2, <1>3, <2>2 DEF AnswersInv, AnswersInOrder
  <2> QED
    BY <1>2, <2>1, <2>2
<1>9. PixelsOfBoundFile'
  <2> SUFFICES ASSUME NEW k \in 1 .. n + 1, NEW j, j = k - 1,
                      replies'[k].reply.kind \in {"Preview", "Sensor"},
                      NEW id, id = replies'[k].reply.id
               PROVE  replies'[k].attached = BoundAfter(j, id)'
    BY <1>3 DEF PixelsOfBoundFile
  <2>1. j \in 0 .. n /\ k = j + 1
    BY <1>2
  <2>2. BoundAfter(j, id)' = BoundAfter(j, id)
    BY <1>5, <2>1
  <2>3. CASE k = n + 1
    <3>1. j = n
      BY <1>2, <2>1, <2>3
    <3> QED
      BY <1>3, <1>4, <2>2, <2>3, <3>1
  <2>4. CASE k \in 1 .. n
    BY <1>2, <1>3, <2>2, <2>4 DEF AnswersInv, PixelsOfBoundFile
  <2> QED
    BY <1>2, <2>3, <2>4
<1>10. \A k \in 1 .. n + 1 : SaysTooMany(replies'[k]) =>
         Cardinality({id \in Ids : BoundAfter(k - 1, id)' # None}) = MAX_OPEN_FILES
  <2> SUFFICES ASSUME NEW k \in 1 .. n + 1, NEW j, j = k - 1, SaysTooMany(replies'[k])
               PROVE  Cardinality({id \in Ids : BoundAfter(j, id)' # None})
                        = MAX_OPEN_FILES
    OBVIOUS
  <2>1. j \in 0 .. n /\ k = j + 1
    BY <1>0
  <2>2. {id \in Ids : BoundAfter(j, id)' # None}
          = {id \in Ids : BoundAfter(j, id) # None}
    BY <1>5, <2>1
  <2>3. CASE k = n + 1
    <3>1. j = n
      BY <1>0, <2>1, <2>3
    <3>2. SaysTooMany(Outgoing)
      BY <1>3, <2>3
    <3> QED
      BY <1>4, <2>2, <3>1, <3>2 DEF SaysTooMany
  <2>4. CASE k \in 1 .. n
    <3>1. k \in DOMAIN replies /\ replies'[k] = replies[k]
      BY <1>2, <1>3, <2>4
    <3> QED
      BY <2>2, <3>1 DEF AnswersInv, RefusedOnlyWhenFull, SaysTooMany
  <2> QED
    BY <1>0, <2>3, <2>4
<1>11. RefusedOnlyWhenFull'
  BY <1>3, <1>10 DEF RefusedOnlyWhenFull, SaysTooMany
<1> QED
  BY <1>6, <1>7, <1>8, <1>9, <1>11 DEF AnswersInv

\* A step that leaves the handler, the table and the answers alone: handle()'s
\* parameters are dropped once the reply is made.
LEMMA QuietStepKeepsAnswers ==
  ASSUME IInv, AnswersInv,
         \/ UNCHANGED <<pc, fdTable, received>>
         \/ pc = "start" /\ pc' = "recv"
         \/ pc = "return" /\ pc' = "send",
         UNCHANGED <<files, taken, reply, replies, Outgoing>>,
         \A k \in 1 .. Len(requests) : requests'[k] = requests[k]
  PROVE  AnswersInv'
<1> DEFINE n == Len(replies)
<1>1. n \in Nat /\ taken \in 0 .. Len(requests) /\ Len(requests) \in Nat
  BY DEF IInv, TypeOK
<1>2. /\ Sent'
      /\ \A k \in 0 .. n, id \in Ids : BoundAfter(k, id)' = BoundAfter(k, id)
  BY SentKept DEF AnswersInv, Sent
<1>3. \A id \in Ids : BoundAfter(Len(replies), id)' = BoundAfter(n, id)
  <2> PICK k : k = n
    OBVIOUS
  <2>1. \A id \in Ids : BoundAfter(k, id)' = BoundAfter(k, id)
    BY <1>1, <1>2
  <2>2. \A id \in Ids : BoundAfter(Len(replies), id)' = BoundAfter(k, id)'
    BY DEF BoundAfter
  <2> QED
    BY <2>1, <2>2
<1>4. pc = "handle" \/ Replied => requests'[taken] = requests[taken]
  BY <1>1 DEF IInv, AnswersInv, OneReplyEach
<1>5. InHand' /\ OneReplyEach' /\ Replied' = Replied
  BY <1>4 DEF AnswersInv, InHand, OneReplyEach, Replied
<1>6. TableAgrees'
  <2> SUFFICES ASSUME Alive', NEW id \in Ids PROVE Bound'[id] = BoundNext(id)'
    BY DEF TableAgrees
  <2>1. Bound'[id] = BoundNext(id)
    BY DEF AnswersInv, TableAgrees, Bound, Alive, Ended
  <2>2. BoundNext(id)' = BoundNext(id)
    BY <1>3, <1>4, <1>5 DEF BoundNext
  <2> QED
    BY <2>1, <2>2
<1>7. ReplyReady'
  <2> SUFFICES ASSUME Replied, Replied' PROVE ReplyReady'
    BY <1>5 DEF ReplyReady
  <2>1. reply.id \in Ids \/ reply.kind \notin {"Preview", "Sensor"}
    BY DEF IInv, Control, Replied, Reply
  <2>2. Outgoing' = Outgoing
    OBVIOUS
  <2>3. reply.kind \in {"Preview", "Sensor"} =>
          Outgoing.attached = BoundAfter(Len(replies), reply.id)'
    <3>1. PICK id : id = reply.id
      OBVIOUS
    <3>2. BoundAfter(Len(replies), reply.id)' = BoundAfter(Len(replies), id)'
      BY <3>1 DEF BoundAfter
    <3>3. reply.kind \in {"Preview", "Sensor"} =>
            BoundAfter(Len(replies), id)' = BoundAfter(n, id)
      BY <1>3, <2>1, <3>1
    <3> QED
      BY <3>1, <3>2, <3>3 DEF AnswersInv, ReplyReady
  <2>4. {id \in Ids : BoundAfter(Len(replies), id)' # None}
          = {id \in Ids : BoundAfter(n, id) # None}
    BY <1>3
  <2>5. IsAnswer(requests[taken].request, Outgoing)'
    BY <1>4, <2>2 DEF AnswersInv, ReplyReady, IsAnswer
  <2> QED
    BY <2>2, <2>3, <2>4, <2>5 DEF AnswersInv, ReplyReady
<1> QED
  BY <1>2, <1>5, <1>6, <1>7 DEF AnswersInv, Sent

\* What the reply attaches is not what came with the request.
LEMMA ReturnKeepsOutgoing ==
  ASSUME IInv, ReturnPixels
  PROVE  Outgoing' = Outgoing
<1>1. ASSUME buffer # None PROVE fdTable'[buffer] = fdTable[buffer]
  <2>1. buffer \in Fds /\ fdTable[buffer].holds = "pixels"
    BY <1>1 DEF IInv, TypeOK, DescriptorsOwnedOnce
  <2>2. buffer # received
    BY <2>1, HelperAssumption DEF IInv, DescriptorsOwnedOnce
  <2> QED
    BY <2>1, <2>2 DEF ReturnPixels, Without
<1> QED
  BY <1>1 DEF ReturnPixels, Outgoing

\* Every step keeps the answers right.
LEMMA NextKeepsAnswers ==
  IInv /\ TableBounded /\ AnswersInv /\ [Next]_vars => AnswersInv'
<1> SUFFICES ASSUME IInv, TableBounded, AnswersInv, [Next]_vars PROVE AnswersInv'
  OBVIOUS
<1>1. ASSUME NEW how \in Ended, End(how) PROVE AnswersInv'
  BY <1>1, EndKeepsAnswers
<1>2. CASE Start
  BY <1>1, <1>2, QuietStepKeepsAnswers DEF Start, Outgoing, Ended
<1>3. CASE Recv
  BY <1>3, RecvKeepsAnswers
<1>4. CASE RecvFails \/ RecvEof \/ SendFails \/ Kill
  BY <1>1, <1>4 DEF RecvFails, RecvEof, SendFails, Kill, Ended
<1>5. CASE Handle
  BY <1>5, HandleKeepsAnswers
<1>6. CASE ReturnPixels \/ Send
  BY <1>6, SendKeepsAnswers, ReturnKeepsOutgoing, QuietStepKeepsAnswers DEF ReturnPixels
<1>7. ASSUME NEW m \in Messages, AppSend(m) PROVE AnswersInv'
  <2>1. \A k \in 1 .. Len(requests) : requests'[k] = requests[k]
    BY <1>7, HelperAssumption DEF AppSend, IInv, TypeOK
  <2> QED
    BY <1>7, <2>1, QuietStepKeepsAnswers DEF AppSend, process, Outgoing
<1>8. CASE AppClose \/ UNCHANGED vars
  BY <1>8, QuietStepKeepsAnswers DEF AppClose, vars, process, Outgoing
<1> QED
  BY <1>2, <1>3, <1>4, <1>5, <1>6, <1>7, <1>8 DEF Next, HelperStep, Finished

\* The invariant of the answers holds throughout.
THEOREM AnswersInvariant == Spec => []AnswersInv
<1>1. Init => AnswersInv
  BY InitAnswers
<1>2. IInv /\ TableBounded /\ AnswersInv /\ [Next]_vars => AnswersInv'
  BY NextKeepsAnswers
<1> QED
  BY <1>1, <1>2, InductiveInvariant, TableStaysBounded, PTL DEF Spec

\* The n-th reply answers the n-th request, under its id, however deep the
\* application pipelines; shared memory comes with pixels and only with them.
THEOREM RepliesInOrder == Spec => []AnswersInOrder
<1>1. AnswersInv => AnswersInOrder
  BY DEF AnswersInv
<1> QED
  BY <1>1, AnswersInvariant, PTL

\* The pixels sent for an id are those of the file last opened under it, as the
\* application reads it off the messages: after any number of files replaced,
\* closed and opened again, under any reuse of descriptor numbers.
THEOREM PixelsAreOfBoundFile == Spec => []PixelsOfBoundFile
<1>1. AnswersInv => PixelsOfBoundFile
  BY DEF AnswersInv
<1> QED
  BY <1>1, AnswersInvariant, PTL

\* No file that was closed, replaced or refused ever uses up a place: "too many"
\* is answered only when the application counts MAX_OPEN_FILES files itself.
THEOREM RefusalsAreJustified == Spec => []RefusedOnlyWhenFull
<1>1. AnswersInv => RefusedOnlyWhenFull
  BY DEF AnswersInv
<1> QED
  BY <1>1, AnswersInvariant, PTL

-----------------------------------------------------------------------------
(* The sandbox                                                             *)

\* No step reads a request, or reports a sandbox, outside the sandbox.
LEMMA NextKeepsConfined ==
  IInv /\ AnswersInv /\ ConfinedInv /\ [Next]_vars => ConfinedInv'
<1> SUFFICES ASSUME IInv, AnswersInv, ConfinedInv, MacOS, [Next]_vars
             PROVE  ConfinedInv'
  BY DEF ConfinedInv
<1>1. ASSUME NEW how \in Ended, End(how) PROVE ConfinedInv'
  BY <1>1 DEF ConfinedInv, Replied, End, Ended
<1>2. CASE Start
  BY <1>1, <1>2 DEF Start, MayRunUnconfined, ConfinedInv, Replied, Ended
<1>3. CASE Recv
  BY <1>3 DEF Recv, ConfinedInv, Replied
<1>4. CASE RecvFails \/ RecvEof \/ SendFails \/ Kill
  BY <1>1, <1>4 DEF RecvFails, RecvEof, SendFails, Kill, Ended
<1>5. CASE Handle
  <2>1. pc = "handle"
    BY <1>5 DEF Handle
  <2>2. ASSUME NEW r, NEW pixels, Answers(r, pixels),
               r.kind = "Hello" => r.sandboxed = sandboxed
        PROVE  ConfinedInv'
    BY <2>1, <2>2 DEF Answers, ConfinedInv, Replied
  <2>3. CASE Greets
    BY <2>2, <2>3 DEF Greets
  <2>4. CASE Tests
    BY <2>2, <2>4 DEF Tests
  <2>5. CASE Refuses
    BY <2>2, <2>5 DEF Refuses
  <2>6. CASE Binds
    BY <2>2, <2>6 DEF Binds
  <2>7. CASE GivesPixels
    BY <2>2, <2>7 DEF GivesPixels
  <2>8. CASE Unbinds
    BY <2>2, <2>8 DEF Unbinds
  <2> QED
    BY <1>1, <1>5, <2>3, <2>4, <2>5, <2>6, <2>7, <2>8, HandleIsSeen
    DEF HandleSeen, AnswersInv
<1>6. CASE Send
  <2>1. /\ replies \in Seq(Answer) /\ replies' = Append(replies, Outgoing)
        /\ Outgoing.reply = reply /\ pc = "send" /\ pc' = "recv"
        /\ UNCHANGED <<sandboxed, taken>>
    BY <1>6 DEF IInv, TypeOK, Send, Outgoing
  <2>2. \A n \in DOMAIN replies' :
          replies'[n] = Outgoing \/ (n \in DOMAIN replies /\ replies'[n] = replies[n])
    BY <2>1
  <2> QED
    BY <2>1, <2>2 DEF ConfinedInv, Replied
<1>7. CASE ReturnPixels \/ AppClose \/ UNCHANGED vars \/ \E m \in Messages : AppSend(m)
  BY <1>7 DEF ReturnPixels, AppClose, AppSend, vars, process, ConfinedInv, Replied
<1> QED
  BY <1>2, <1>3, <1>4, <1>5, <1>6, <1>7 DEF Next, HelperStep, Finished

\* On macOS the helper reads no request outside its sandbox, and no Hello it
\* answers says otherwise.
THEOREM NeverUnconfined == Spec => []NoUnconfinedRequest
<1>1. Init => ConfinedInv
  BY DEF Init, ConfinedInv, Replied
<1>2. IInv /\ AnswersInv /\ ConfinedInv /\ [Next]_vars => ConfinedInv'
  BY NextKeepsConfined
<1>3. ConfinedInv => NoUnconfinedRequest
  BY DEF ConfinedInv, NoUnconfinedRequest
<1> QED
  BY <1>1, <1>2, <1>3, InductiveInvariant, AnswersInvariant, PTL DEF Spec

-----------------------------------------------------------------------------
(* The service without descriptors, buffers and decoders                   *)

\* The answer on its way, as the refinement mapping has it.
Pending == IF Replied THEN Outgoing ELSE None

\* Cardinality means the same in the instance.
LEMMA SameCardinality ==
  ASSUME NEW S
  PROVE  Service!Cardinality(S) = Cardinality(S)
BY DEF Service!Cardinality, Cardinality

\* The mapping of every variable of the service.
LEMMA Mapping ==
  /\ Service!vars = <<requests, replies, Bound, Pending, ~Alive>>
  /\ Service!vars' = <<requests', replies', Bound', Pending', ~Alive'>>
BY DEF Service!vars, Bound, Pending, Replied

\* The end of the process is the service that stops.
LEMMA EndStops ==
  ASSUME NEW how \in Ended, End(how)
  PROVE  Service!Stop
<1>1. Bound' = [id \in Ids |-> None] /\ Pending' = None /\ ~Alive'
  BY DEF End, Bound, Pending, Replied, Alive, Ended
<1> QED
  BY <1>1 DEF Service!Stop, End, Bound, Pending, Replied

\* handle() is one step of the service.
LEMMA HandleServes ==
  ASSUME IInv, TableBounded, AnswersInv, Handle
  PROVE  Service!Stop \/ Service!Serve
<1>1. CASE \E how \in Ended : End(how)
  BY <1>1, EndStops
<1>2. CASE HandleSeen
  <2> DEFINE Served == \/ Service!Greet \/ Service!SelfTest \/ Service!Refuse
                       \/ Service!Bind \/ Service!GivePixels \/ Service!Unbind
  <2>1. pc = "handle" /\ Pending = None /\ Alive
    BY DEF Handle, Pending, Replied, Alive, Ended
  <2>2. /\ taken \in 1 .. Len(requests) /\ Len(requests) \in Nat /\ Len(replies) \in Nat
        /\ Len(replies) + 1 = taken
    BY <2>1 DEF IInv, TypeOK, Control, AnswersInv, OneReplyEach
  <2>3. Len(replies) < Len(requests)
    BY <2>2
  <2>4. Service!Asked = requests[taken]
    BY <2>2 DEF Service!Asked
  <2>5. Service!Asked.request = Current
    BY <2>4 DEF Current
  <2>6. ASSUME NEW r, NEW pixels, Answers(r, pixels), NEW kinds, r \in kinds
        PROVE  Service!Answered(kinds, pixels)
    BY <2>6 DEF Answers, Replied, Service!Answered
  <2>7. sandboxed \in BOOLEAN /\ None \notin Files
    BY ProtocolAssumption DEF IInv, TypeOK
  <2>8. ASSUME Greets PROVE Served
    <3>1. [kind |-> "Hello", version |-> PROTOCOL_VERSION, sandboxed |-> sandboxed]
            \in [kind : {"Hello"}, version : {PROTOCOL_VERSION}, sandboxed : BOOLEAN]
      BY <2>7
    <3>2. Service!Greet
      BY <2>5, <2>6, <2>8, <3>1 DEF Greets, Service!Greet, Bound
    <3> QED
      BY <3>2
  <2>9. ASSUME Tests PROVE Served
    <3> DEFINE kinds == [kind : {"SandboxCheck"}, sandboxed : BOOLEAN,
                         escapes : SUBSET Probes]
               r(e) == [kind |-> "SandboxCheck", sandboxed |-> sandboxed, escapes |-> e]
    <3>1. PICK escapes \in SUBSET Probes : Answers(r(escapes), None)
      BY <2>9 DEF Tests
    <3>2. r(escapes) \in kinds
      BY <2>7
    <3>3. Service!Answered(kinds, None)
      <4> HIDE DEF kinds, r
      <4> QED
        BY <2>6, <3>1, <3>2
    <3> QED
      BY <2>5, <2>9, <3>3 DEF Tests, Service!SelfTest, Bound
  <2>10. ASSUME Refuses PROVE Served
    <3>1. \A error \in SUBSET Reason :
            [kind |-> "Failed", id |-> Current.id, error |-> error]
              \in Service!Failure(Current.id)
      BY DEF Service!Failure, Reason, Service!Reason
    <3> QED
      BY <2>5, <2>6, <2>10, <3>1 DEF Refuses, Service!Refuse, Bound
  <2>11. ASSUME Binds PROVE Served
    <3>1. [kind |-> "Opened", id |-> Current.id]
            \in Service!Success("Opened", Current.id)
      BY DEF Service!Success
    <3>2. Cardinality(OpenIds) < MAX_OPEN_FILES
      BY <2>11, FS_CardinalityType, ProtocolAssumption DEF Binds, Full, TableBounded
    <3>3. {id \in Ids : Bound[id] # None} = OpenIds
      BY <2>7 DEF Bound, OpenIds, IInv, TypeOK, OpenFile
    <3>4. Service!Answered(Service!Success("Opened", Current.id), None)
      BY <2>6, <2>11, <3>1 DEF Binds
    <3>5. Bound' = [Bound EXCEPT ![Current.id] = Service!Asked.attached]
      BY <2>4, <2>11 DEF Binds
    <3>6. Service!Cardinality({id \in Ids : Bound[id] # None}) < MAX_OPEN_FILES
      BY <3>2, <3>3, SameCardinality
    <3>7. Current.op = "Open" /\ Service!Asked.attached # None
      BY <2>4, <2>11 DEF Binds
    <3> QED
      BY <2>5, <3>4, <3>5, <3>6, <3>7 DEF Service!Bind, Bound
  <2>12. ASSUME GivesPixels PROVE Served
    <3>1. [kind |-> Current.op, id |-> Current.id]
            \in Service!Success(Current.op, Current.id)
      BY DEF Service!Success
    <3> QED
      BY <2>5, <2>6, <2>12, <3>1 DEF GivesPixels, Service!GivePixels, Bound
  <2>13. ASSUME Unbinds PROVE Served
    <3>1. [kind |-> "Closed", id |-> Current.id]
            \in Service!Success("Closed", Current.id)
      BY DEF Service!Success
    <3> QED
      BY <2>5, <2>6, <2>13, <3>1 DEF Unbinds, Service!Unbind, Bound
  <2>14. Served
    BY <1>2, <2>8, <2>9, <2>10, <2>11, <2>12, <2>13 DEF HandleSeen
  <2>15. UNCHANGED <<requests, replies, ~Alive>>
    BY <1>2, <2>1 DEF HandleSeen, Greets, Tests, Refuses, Binds, GivesPixels, Unbinds,
                     Answers, Replied, Alive, Ended
  <2> HIDE DEF Served
  <2> QED
    BY <2>1, <2>3, <2>14, <2>15 DEF Service!Serve, Pending, Replied, Served
<1> QED
  BY <1>1, <1>2, HandleIsSeen DEF AnswersInv

\* The reply and its descriptor leave as one answer of the service.
LEMMA SendPublishes ==
  ASSUME IInv, Send
  PROVE  Service!Publish
<1>1. Outgoing # None
  <2>1. buffer # None => fdTable[buffer] \in Slot /\ fdTable[buffer].holds = "pixels"
    BY DEF IInv, TypeOK, DescriptorsOwnedOnce
  <2>2. buffer # None => fdTable[buffer].file \in Files
    BY <2>1 DEF Slot, Empty
  <2>3. Outgoing \in Answer
    BY <2>2 DEF IInv, Control, Send, Outgoing, Answer
  <2> QED
    BY <2>3, AnswerAssumption
<1>2. Pending = Outgoing /\ Pending' = None
  BY DEF Send, Pending, Replied
<1>3. Bound' = Bound /\ Alive /\ Alive'
  BY DEF Send, Bound, Alive, Ended
<1> QED
  BY <1>1, <1>2, <1>3 DEF Service!Publish, Send, Bound, Pending, Replied

\* A step the service does not see.
LEMMA Stutters ==
  ASSUME UNCHANGED <<files, requests, replies>>,
         \/ UNCHANGED <<pc, Outgoing>>
         \/ {pc, pc'} \subseteq {"start", "recv", "handle"}
         \/ pc = "return" /\ pc' = "send" /\ UNCHANGED Outgoing
  PROVE  UNCHANGED Service!vars
<1>1. Pending' = Pending /\ Alive' = Alive /\ Bound' = Bound
  BY DEF Pending, Replied, Alive, Ended, Bound
<1> QED
  BY <1>1, Mapping

\* Every step of the helper and its application is a step of the service, or
\* one the service does not see.
LEMMA NextSimulates ==
  IInv /\ TableBounded /\ AnswersInv /\ [Next]_vars => [Service!Next]_(Service!vars)
<1> SUFFICES ASSUME IInv, TableBounded, AnswersInv, [Next]_vars
             PROVE  Service!Next \/ UNCHANGED Service!vars
  OBVIOUS
<1>1. ASSUME NEW how \in Ended, End(how) PROVE Service!Next
  BY <1>1, EndStops DEF Service!Next
<1>2. CASE Start
  BY <1>1, <1>2, Stutters DEF Start, Ended
<1>3. CASE Recv
  BY <1>3, Stutters DEF Recv
<1>4. CASE RecvFails \/ RecvEof \/ SendFails \/ Kill
  BY <1>1, <1>4 DEF RecvFails, RecvEof, SendFails, Kill, Ended
<1>5. CASE Handle
  BY <1>5, HandleServes DEF Service!Next
<1>6. CASE ReturnPixels \/ Send
  BY <1>6, SendPublishes, ReturnKeepsOutgoing, Stutters DEF ReturnPixels, Service!Next
<1>7. ASSUME NEW m \in Messages, AppSend(m) PROVE Service!Next
  <2>1. m \in Service!Message
    BY HelperAssumption DEF Message, Request, Service!Message, Service!Request
  <2>2. Pending' = Pending /\ Alive' = Alive /\ Bound' = Bound
    BY <1>7 DEF AppSend, process, Pending, Replied, Alive, Outgoing, Bound
  <2>3. Service!Submit
    BY <1>7, <2>1, <2>2 DEF Service!Submit, AppSend, Bound, Pending, Replied
  <2> QED
    BY <2>3 DEF Service!Next
<1>8. CASE AppClose \/ UNCHANGED vars
  BY <1>8, Stutters DEF AppClose, vars, process, Outgoing
<1> QED
  BY <1>2, <1>3, <1>4, <1>5, <1>6, <1>7, <1>8 DEF Next, HelperStep, Finished

\* The helper implements the service: whatever the application observes of it,
\* requests and answers, a service that keeps nothing but a table from ids to
\* files could have done.
THEOREM HelperImplementsService == Spec => ImplementsService
<1>1. Init => Service!Init
  BY DEF Init, Service!Init, Alive, Ended
<1>2. IInv /\ TableBounded /\ AnswersInv /\ [Next]_vars
        => [Service!Next]_(Service!vars)
  BY NextSimulates
<1> QED
  BY <1>1, <1>2, InductiveInvariant, TableStaysBounded, AnswersInvariant, PTL
  DEF Spec, ImplementsService, Service!Spec

-----------------------------------------------------------------------------
(* The cached system decoder                                               *)

\* A file rawler does not know stays in the table only with a system decoder.
DecoderKnown ==
  \A id \in OpenIds : ~files[id].rawler => files[id].system = "ok"

\* What a step does to an entry that keeps its descriptor.
Kept ==
  \A id \in OpenIds :
    (files'[id] # None /\ files'[id].fd = files[id].fd) =>
      /\ files'[id].rawler = files[id].rawler
      /\ files[id].system # "untried" => files'[id].system = files[id].system

\* Either no step touches the cache of an entry that is open, or it is the
\* first use that fills it.
LEMMA FallbackKeepsDecoder ==
  ASSUME IInv, DecoderKnown, NEW kind \in {"Preview", "Sensor"}, NEW id \in Ids,
         files[id] # None, Fallback(kind, id)
  PROVE  Kept /\ DecoderKnown'
<1>1. ASSUME NEW open, files' = [files EXCEPT ![id].system = System(files[id], open)],
             System(files[id], open) \in {"ok", "err"}
      PROVE  Kept /\ DecoderKnown'
  <2> DEFINE s == System(files[id], open)
  <2>1. files[id] \in OpenFile /\ files \in [Ids -> OpenFile \cup {None}]
    BY DEF IInv, TypeOK
  <2>2. files[id].system # "untried" => s = files[id].system
    BY DEF System
  <2>3. /\ files'[id].rawler = files[id].rawler
        /\ files'[id].system = s
        /\ \A i \in Ids : i # id => files'[i] = files[i]
    BY <1>1, <2>1 DEF OpenFile
  <2>4. OpenIds' = OpenIds
    BY <1>1, SystemKeepsOwner
  <2>5. Kept
    BY <2>2, <2>3 DEF Kept, OpenIds
  <2>6. DecoderKnown'
    BY <2>2, <2>3, <2>4 DEF DecoderKnown, OpenIds
  <2> QED
    BY <2>5, <2>6
<1>2. ASSUME NEW how, End(how) PROVE Kept /\ DecoderKnown'
  BY <1>2 DEF End, Kept, DecoderKnown, OpenIds
<1> QED
  BY <1>1, <1>2 DEF Fallback

\* No handler replaces the system's decoder of a file that stays open.
LEMMA HandleKeepsDecoder ==
  ASSUME IInv, DecoderKnown, Handle
  PROVE  Kept /\ DecoderKnown'
<1>1. pc = "handle"
  BY DEF Handle
<1>2. ASSUME UNCHANGED files PROVE Kept /\ DecoderKnown'
  BY <1>2 DEF Kept, DecoderKnown, OpenIds
<1>3. ASSUME NEW how, End(how) PROVE Kept /\ DecoderKnown'
  BY <1>3 DEF End, Kept, DecoderKnown, OpenIds
<1>4. CASE Hello \/ OpenRefused \/ SandboxCheck
  BY <1>2, <1>4 DEF Hello, OpenRefused, SandboxCheck
<1>5. CASE Open
  <2> DEFINE id == Current.id
  <2>1. id \in Ids /\ received # None
    BY <1>1, <1>5, CurrentInRequest DEF IInv, Open, Admitted
  <2>2. ASSUME NEW rawler, NEW system, Insert(id, rawler, system),
               rawler = TRUE \/ system = "ok"
        PROVE  Kept /\ DecoderKnown'
    <3>1. /\ files'[id].fd = received /\ files'[id].rawler = rawler
          /\ files'[id].system = system
          /\ \A i \in Ids : i # id => files'[i] = files[i]
      BY <2>1, <2>2 DEF Insert, IInv, TypeOK
    <3>2. id \in OpenIds => files[id].fd # received
      BY <2>1 DEF IInv, DescriptorsOwnedOnce
    <3>3. Kept
      BY <3>1, <3>2 DEF Kept, OpenIds
    <3>4. DecoderKnown'
      BY <2>2, <3>1 DEF DecoderKnown, OpenIds
    <3> QED
      BY <3>3, <3>4
  <2> QED
    BY <1>2, <1>3, <1>5, <2>2 DEF Open
<1>6. ASSUME NEW kind \in {"Preview", "Sensor"}, Decode(kind)
      PROVE  Kept /\ DecoderKnown'
  <2>1. Current.id \in Ids
    BY <1>1, <1>6, CurrentInRequest DEF IInv, Decode
  <2> QED
    BY <1>2, <1>3, <1>6, <2>1, FallbackKeepsDecoder DEF Decode
<1>7. CASE Close
  <2>1. Current.id \in Ids /\ files' = [files EXCEPT ![Current.id] = None]
    BY <1>1, <1>7, CurrentInRequest DEF IInv, Close
  <2>2. \A i \in OpenIds' : i \in OpenIds /\ files'[i] = files[i]
    BY <2>1 DEF OpenIds, IInv, TypeOK
  <2> QED
    BY <2>2 DEF Kept, DecoderKnown, OpenIds
<1> QED
  BY <1>4, <1>5, <1>6, <1>7 DEF Handle

\* Nor does any other step.
LEMMA NextKeepsDecoder ==
  IInv /\ DecoderKnown /\ [Next]_vars => Kept /\ DecoderKnown'
<1> SUFFICES ASSUME IInv, DecoderKnown, [Next]_vars PROVE Kept /\ DecoderKnown'
  OBVIOUS
<1>1. ASSUME UNCHANGED files PROVE Kept /\ DecoderKnown'
  BY <1>1 DEF Kept, DecoderKnown, OpenIds
<1>2. ASSUME NEW how, End(how) PROVE Kept /\ DecoderKnown'
  BY <1>2 DEF End, Kept, DecoderKnown, OpenIds
<1>3. CASE Start \/ RecvFails \/ RecvEof \/ SendFails \/ Kill
  BY <1>1, <1>2, <1>3 DEF Start, RecvFails, RecvEof, SendFails, Kill
<1>4. CASE \/ Recv \/ ReturnPixels \/ Send \/ AppClose \/ UNCHANGED vars
          \/ \E m \in Messages : AppSend(m)
  BY <1>1, <1>4 DEF Recv, ReturnPixels, Send, AppClose, AppSend, vars, process
<1>5. CASE Handle
  BY <1>5, HandleKeepsDecoder
<1> QED
  BY <1>3, <1>4, <1>5 DEF Next, HelperStep, Finished

\* While a file stays open its system decoder is opened at most once, a failure
\* is remembered as much as a success, and a file rawler refused always has one.
THEOREM DecoderOpenedOnce == Spec => SystemDecoderKept
<1>1. Init => DecoderKnown
  BY DEF Init, DecoderKnown, OpenIds
<1>2. IInv /\ DecoderKnown /\ [Next]_vars => DecoderKnown'
  BY NextKeepsDecoder
<1>3. IInv /\ DecoderKnown /\ [Next]_vars =>
        [\A id \in OpenIds :
           (files'[id] # None /\ files'[id].fd = files[id].fd) =>
             /\ files[id].system # "untried" => files'[id].system = files[id].system
             /\ ~files[id].rawler => files'[id].system = "ok"]_vars
  BY NextKeepsDecoder DEF Kept, DecoderKnown
<1> QED
  BY <1>1, <1>2, <1>3, InductiveInvariant, PTL DEF Spec, SystemDecoderKept
=============================================================================
