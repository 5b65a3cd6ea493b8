---------------------------- MODULE HelperProofs ----------------------------
(***************************************************************************)
(* Proofs, for every value of the constants, that the helper keeps its     *)
(* types and that every descriptor it holds has exactly one owner.         *)
(***************************************************************************)
EXTENDS Helper, TLAPS, FiniteSetTheorems

\* Where the message in hand, the reply and its buffer exist.
Control ==
  /\ pc = "handle" => taken > 0
  /\ pc \in {"return", "send"} => reply \in Reply
  /\ received # None => pc \in {"handle", "return"}
  /\ buffer # None => pc \in {"return", "send"}

\* The inductive invariant: the types of Insert() and of the pixels sent need
\* the descriptors to refer to what their owners believe.
IInv == TypeOK /\ Control /\ DescriptorsOwnedOnce

-----------------------------------------------------------------------------
(* The request in hand, and the types of what is built from it             *)

\* The request being handled is one of the protocol's, its id one of the ids.
LEMMA CurrentInRequest ==
  ASSUME TypeOK, Control, pc = "handle"
  PROVE  /\ Current \in Request
         /\ Current.op \in {"Open", "Preview", "Sensor", "Close"} => Current.id \in Ids
<1>1. taken \in 1 .. Len(requests)
  BY DEF TypeOK, Control
<1>2. requests[taken] \in Message
  BY <1>1 DEF TypeOK
<1>3. Current \in Request
  BY <1>2 DEF Current, Message
<1> QED
  BY <1>3 DEF Request

\* Every reply the handlers make is one of the protocol's.
LEMMA ReplyTypes ==
  /\ \A id \in Ids, e \in SUBSET Reason :
       [kind |-> "Failed", id |-> id, error |-> e] \in Reply
  /\ \A id \in Ids, k \in {"Opened", "Preview", "Sensor", "Closed"} :
       [kind |-> k, id |-> id] \in Reply
  /\ \A v \in Versions, b \in BOOLEAN :
       [kind |-> "Hello", version |-> v, sandboxed |-> b] \in Reply
  /\ \A e \in SUBSET Probes, b \in BOOLEAN :
       [kind |-> "SandboxCheck", sandboxed |-> b, escapes |-> e] \in Reply
BY DEF Reply

-----------------------------------------------------------------------------
(* Steps that many actions share                                           *)

\* The end of the process leaves nothing to own.
LEMMA EndKeepsInvariant ==
  ASSUME IInv, NEW how \in Ended, End(how)
  PROVE  IInv'
<1>1. TypeOK'
  BY DEF IInv, TypeOK, End, Slot
<1>2. Control'
  BY DEF Control, End, Ended
<1>3. OpenIds' = {}
  BY DEF OpenIds, End
<1>4. DescriptorsOwnedOnce'
  BY <1>3 DEF DescriptorsOwnedOnce, End, Empty
<1> QED
  BY <1>1, <1>2, <1>4 DEF IInv
\* In handle(): a reply that stores nothing closes the descriptor received.
LEMMA ReturnKeepsInvariant ==
  ASSUME IInv, pc = "handle", NEW r \in Reply, Return(r),
         fdTable' = Without({received}),
         files' \in [Ids -> OpenFile \cup {None}],
         OpenIds' = OpenIds,
         \A id \in OpenIds : /\ files'[id].fd = files[id].fd
                             /\ files'[id].source = files[id].source
  PROVE  IInv'
<1> USE DEF IInv
<1>1. TypeOK'
  BY DEF TypeOK, Return, Without, Slot
<1>2. Control'
  BY DEF Control, Return
<1>3. DescriptorsOwnedOnce'
  <2>1. buffer = None /\ buffer' = None /\ received' = None
    BY DEF Control, Return
  <2>2. \A n \in Fds : fdTable'[n] = IF n = received THEN Empty ELSE fdTable[n]
    BY DEF Without
  <2>3. \A id \in OpenIds : files[id].fd # received /\ files[id].fd \in Fds
    BY HelperAssumption DEF DescriptorsOwnedOnce, TypeOK, OpenIds, OpenFile
  <2>4. \A id \in OpenIds' : fdTable'[files'[id].fd] = FileSlot(files'[id].source)
    <3> SUFFICES ASSUME NEW id \in OpenIds
                 PROVE  fdTable'[files'[id].fd] = FileSlot(files'[id].source)
      OBVIOUS
    <3>1. fdTable[files[id].fd] = FileSlot(files[id].source)
      BY DEF DescriptorsOwnedOnce
    <3> QED
      BY <3>1, <2>2, <2>3 DEF FileSlot
  <2>5. \A n \in Fds : fdTable'[n].holds # "nothing" =>
          n \in {files'[id].fd : id \in OpenIds'}
    <3> SUFFICES ASSUME NEW n \in Fds, fdTable'[n].holds # "nothing"
                 PROVE  \E id \in OpenIds : n = files'[id].fd
      OBVIOUS
    <3>1. fdTable[n].holds # "nothing" /\ n # received
      BY <2>2 DEF Empty
    <3>2. \E id \in OpenIds : n = files[id].fd
      BY <3>1, <2>1, HelperAssumption DEF DescriptorsOwnedOnce
    <3> QED
      BY <3>2
  <2>6. \A i, j \in OpenIds' : files'[i].fd = files'[j].fd => i = j
    BY DEF DescriptorsOwnedOnce
  <2> QED
    BY <2>1, <2>4, <2>5, <2>6 DEF DescriptorsOwnedOnce
<1> QED
  BY <1>1, <1>2, <1>3

\* A request that fails changes no file and gives back the descriptor it came with.
LEMMA FailKeepsInvariant ==
  ASSUME IInv, pc = "handle", NEW id \in Ids, NEW e \in SUBSET Reason,
         Fail(id, e), UNCHANGED files
  PROVE  IInv'
<1>1. [kind |-> "Failed", id |-> id, error |-> e] \in Reply
  BY ReplyTypes
<1>2. OpenIds' = OpenIds
  BY DEF OpenIds
<1> QED
  BY <1>1, <1>2, ReturnKeepsInvariant DEF Fail, IInv, TypeOK

\* The system decoder's state changes nothing of what an entry owns.
LEMMA SystemKeepsOwner ==
  ASSUME IInv, NEW id \in Ids, files[id] # None, NEW s \in {"untried", "ok", "err"},
         files' = [files EXCEPT ![id].system = s]
  PROVE  /\ files' \in [Ids -> OpenFile \cup {None}]
         /\ OpenIds' = OpenIds
         /\ \A i \in OpenIds : /\ files'[i].fd = files[i].fd
                               /\ files'[i].source = files[i].source
<1>1. files \in [Ids -> OpenFile \cup {None}] /\ files[id] \in OpenFile
  BY DEF IInv, TypeOK
<1>2. files' = [files EXCEPT ![id] = [files[id] EXCEPT !.system = s]]
  BY <1>1
<1>3. [files[id] EXCEPT !.system = s] \in OpenFile
  BY <1>1 DEF OpenFile
<1>4. [files[id] EXCEPT !.system = s] # None
  BY <1>3, HelperAssumption
<1>5. OpenIds' = OpenIds
  BY <1>1, <1>2, <1>4 DEF OpenIds
<1>6. [files[id] EXCEPT !.system = s].fd = files[id].fd
      /\ [files[id] EXCEPT !.system = s].source = files[id].source
  BY <1>1 DEF OpenFile
<1>7. \A i \in Ids : files'[i].fd = files[i].fd /\ files'[i].source = files[i].source
  BY <1>1, <1>2, <1>6
<1> QED
  BY <1>1, <1>2, <1>3, <1>5, <1>7 DEF OpenIds

\* Insert stores the descriptor received and closes that of the entry replaced.
LEMMA InsertKeepsInvariant ==
  ASSUME IInv, pc = "handle", received # None,
         NEW id \in Ids, NEW rawler \in BOOLEAN,
         NEW system \in {"untried", "ok", "err"}, Insert(id, rawler, system)
  PROVE  IInv'
<1> USE DEF IInv
<1> DEFINE entry == [fd |-> received, source |-> fdTable[received].file,
                     rawler |-> rawler, system |-> system]
<1>1. received \in Fds /\ fdTable[received] \in Slot
      /\ fdTable[received].holds = "file"
  BY DEF TypeOK, DescriptorsOwnedOnce
<1>2. fdTable[received].file \in Files
      /\ fdTable[received] = FileSlot(fdTable[received].file)
  BY <1>1 DEF Slot, Empty, FileSlot
<1>3. entry \in OpenFile /\ entry # None
  BY <1>1, <1>2, HelperAssumption DEF OpenFile
<1>4. files' = [files EXCEPT ![id] = entry]
  BY DEF Insert
<1>5. files' \in [Ids -> OpenFile \cup {None}]
  BY <1>3, <1>4 DEF TypeOK
<1>6. fdTable' \in [Fds -> Slot]
  BY DEF Insert, TypeOK, Without, Slot
<1>7. TypeOK'
  BY <1>5, <1>6, ReplyTypes DEF TypeOK, Insert, Return
<1>8. Control'
  BY ReplyTypes DEF Control, Insert, Return
<1>9. DescriptorsOwnedOnce'
  <2>1. buffer' = None /\ received' = None /\ buffer = None
    BY DEF Control, Insert, Return
  <2>2. OpenIds' = OpenIds \cup {id}
    BY <1>3, <1>4 DEF OpenIds, TypeOK
  <2>3. files'[id] = entry /\ \A i \in Ids : i # id => files'[i] = files[i]
    BY <1>4 DEF TypeOK
  <2>4. \A n \in Fds : fdTable'[n] =
          IF files[id] # None /\ n = files[id].fd THEN Empty ELSE fdTable[n]
    BY DEF Insert, Without, TypeOK
  <2>5. \A i \in OpenIds : files[i].fd # received /\ files[i].fd \in Fds
    BY DEF DescriptorsOwnedOnce, TypeOK, OpenIds, OpenFile
  <2>6. \A i \in OpenIds' : fdTable'[files'[i].fd] = FileSlot(files'[i].source)
    <3> SUFFICES ASSUME NEW i \in OpenIds'
                 PROVE  fdTable'[files'[i].fd] = FileSlot(files'[i].source)
      OBVIOUS
    <3>1. CASE i = id
      <4>1. fdTable'[received] = fdTable[received]
        BY <1>1, <2>4, <2>5 DEF OpenIds
      <4> QED
        BY <3>1, <4>1, <1>2, <2>3
    <3>2. CASE i # id
      <4>1. i \in OpenIds /\ files'[i] = files[i]
        BY <3>2, <2>2, <2>3 DEF OpenIds
      <4>2. files[id] # None => files[i].fd # files[id].fd
        BY <3>2, <4>1 DEF DescriptorsOwnedOnce, OpenIds
      <4> QED
        BY <4>1, <4>2, <2>4, <2>5 DEF DescriptorsOwnedOnce
    <3> QED
      BY <3>1, <3>2
  <2>7. \A i, j \in OpenIds' : files'[i].fd = files'[j].fd => i = j
    BY <2>2, <2>3, <2>5 DEF DescriptorsOwnedOnce, OpenIds
  <2>8. \A n \in Fds : fdTable'[n].holds # "nothing" =>
          n \in {files'[i].fd : i \in OpenIds'}
    <3> SUFFICES ASSUME NEW n \in Fds, fdTable'[n].holds # "nothing"
                 PROVE  \E i \in OpenIds' : n = files'[i].fd
      OBVIOUS
    <3>1. fdTable[n].holds # "nothing" /\ (files[id] # None => n # files[id].fd)
      BY <2>4 DEF Empty
    <3>2. n = received \/ \E i \in OpenIds : n = files[i].fd
      BY <3>1, <2>1, HelperAssumption DEF DescriptorsOwnedOnce
    <3>3. CASE n = received
      BY <3>3, <2>2, <2>3
    <3>4. ASSUME NEW i \in OpenIds, n = files[i].fd
          PROVE  \E k \in OpenIds' : n = files'[k].fd
      <4>1. i # id
        BY <3>1, <3>4 DEF OpenIds
      <4> QED
        BY <3>4, <4>1, <2>2, <2>3 DEF OpenIds
    <3> QED
      BY <3>2, <3>3, <3>4
  <2> QED
    BY <2>1, <2>6, <2>7, <2>8 DEF DescriptorsOwnedOnce
<1> QED
  BY <1>7, <1>8, <1>9

\* Deliver stores the pixels under a free number, beside what was received.
LEMMA DeliverKeepsInvariant ==
  ASSUME IInv, pc = "handle", NEW id \in Ids, files[id] # None,
         NEW kind \in {"Preview", "Sensor"}, Deliver(kind, id),
         files' \in [Ids -> OpenFile \cup {None}],
         OpenIds' = OpenIds,
         \A i \in OpenIds : /\ files'[i].fd = files[i].fd
                            /\ files'[i].source = files[i].source
  PROVE  IInv'
<1> USE DEF IInv
<1>1. PICK b \in NewFd :
        /\ buffer' = b
        /\ fdTable' = [fdTable EXCEPT ![b] = PixelSlot(files[id].source)]
  BY DEF Deliver
<1>2. b \in Fds /\ fdTable[b].holds = "nothing" /\ b # None
  BY HelperAssumption DEF NewFd, FreeFds
<1>3. files[id].source \in Files
  BY DEF TypeOK, OpenFile
<1>4. PixelSlot(files[id].source) \in Slot
  BY <1>3 DEF PixelSlot, Slot
<1>5. \A n \in Fds : fdTable'[n] =
        IF n = b THEN PixelSlot(files[id].source) ELSE fdTable[n]
  BY <1>1, <1>2 DEF TypeOK
<1>6. fdTable' \in [Fds -> Slot]
  BY <1>1, <1>4 DEF TypeOK
<1>7. TypeOK'
  BY <1>1, <1>2, <1>6, ReplyTypes DEF TypeOK, Deliver
<1>8. Control'
  BY ReplyTypes DEF Control, Deliver
<1>9. DescriptorsOwnedOnce'
  <2>1. buffer = None /\ received' = received /\ buffer' = b
    BY <1>1 DEF Control, Deliver
  <2>2. \A i \in OpenIds : files[i].fd \in Fds /\ files[i].fd # b
    <3> SUFFICES ASSUME NEW i \in OpenIds
                 PROVE  files[i].fd \in Fds /\ files[i].fd # b
      OBVIOUS
    <3>1. files[i].fd \in Fds
      BY DEF TypeOK, OpenIds, OpenFile
    <3>2. fdTable[files[i].fd] = FileSlot(files[i].source)
      BY DEF DescriptorsOwnedOnce
    <3>3. fdTable[files[i].fd].holds = "file"
      BY <3>2 DEF FileSlot
    <3> QED
      BY <3>1, <3>3, <1>2
  <2>3. \A i \in OpenIds' : fdTable'[files'[i].fd] = FileSlot(files'[i].source)
    <3> SUFFICES ASSUME NEW i \in OpenIds
                 PROVE  fdTable'[files'[i].fd] = FileSlot(files'[i].source)
      OBVIOUS
    <3>1. fdTable[files[i].fd] = FileSlot(files[i].source)
      BY DEF DescriptorsOwnedOnce
    <3> QED
      BY <3>1, <1>5, <2>2 DEF FileSlot
  <2>4. received # None =>
          fdTable'[received].holds = "file" /\ \A i \in OpenIds : files'[i].fd # received
    <3> SUFFICES ASSUME received # None
                 PROVE  /\ fdTable'[received].holds = "file"
                        /\ \A i \in OpenIds : files'[i].fd # received
      OBVIOUS
    <3>1. received \in Fds /\ fdTable[received].holds = "file"
      BY DEF TypeOK, DescriptorsOwnedOnce
    <3>2. received # b
      BY <3>1, <1>2
    <3>3. \A i \in OpenIds : files[i].fd # received
      BY DEF DescriptorsOwnedOnce
    <3> QED
      BY <3>1, <3>2, <3>3, <1>5
  <2>5. \A n \in Fds : fdTable'[n].holds # "nothing" =>
          n = b \/ n = received \/ n \in {files'[i].fd : i \in OpenIds'}
    <3> SUFFICES ASSUME NEW n \in Fds, fdTable'[n].holds # "nothing", n # b,
                        n # received
                 PROVE  \E i \in OpenIds : n = files'[i].fd
      OBVIOUS
    <3>1. fdTable[n].holds # "nothing"
      BY <1>5
    <3>2. \E i \in OpenIds : n = files[i].fd
      BY <3>1, <2>1, HelperAssumption DEF DescriptorsOwnedOnce
    <3> QED
      BY <3>2
  <2>6. \A i, j \in OpenIds' : files'[i].fd = files'[j].fd => i = j
    BY DEF DescriptorsOwnedOnce
  <2>7. fdTable'[b].holds = "pixels"
    BY <1>2, <1>5 DEF PixelSlot
  <2> QED
    BY <2>1, <2>3, <2>4, <2>5, <2>6, <2>7 DEF DescriptorsOwnedOnce
<1> QED
  BY <1>7, <1>8, <1>9

\* handle() returns: a descriptor that came with a request for pixels is closed.
LEMMA ReturnPixelsKeepsInvariant ==
  ASSUME IInv, ReturnPixels
  PROVE  IInv'
<1> USE DEF IInv
<1>1. TypeOK'
  BY DEF TypeOK, ReturnPixels, Without, Slot
<1>2. Control'
  BY DEF Control, ReturnPixels
<1>3. DescriptorsOwnedOnce'
  <2>1. received' = None /\ buffer' = buffer /\ files' = files /\ OpenIds' = OpenIds
    BY DEF ReturnPixels, OpenIds
  <2>2. \A n \in Fds : fdTable'[n] = IF n = received THEN Empty ELSE fdTable[n]
    BY DEF ReturnPixels, Without
  <2>3. \A i \in OpenIds : fdTable'[files[i].fd] = FileSlot(files[i].source)
    <3> SUFFICES ASSUME NEW i \in OpenIds
                 PROVE  fdTable'[files[i].fd] = FileSlot(files[i].source)
      OBVIOUS
    <3>1. files[i].fd \in Fds
      BY DEF TypeOK, OpenIds, OpenFile
    <3>2. files[i].fd # received
      BY <3>1, HelperAssumption DEF DescriptorsOwnedOnce
    <3>3. fdTable[files[i].fd] = FileSlot(files[i].source)
      BY DEF DescriptorsOwnedOnce
    <3> QED
      BY <3>1, <3>2, <3>3, <2>2
  <2>4. buffer # None => fdTable'[buffer].holds = "pixels"
    <3> SUFFICES ASSUME buffer # None PROVE fdTable'[buffer].holds = "pixels"
      OBVIOUS
    <3>1. buffer \in Fds /\ fdTable[buffer].holds = "pixels"
      BY DEF TypeOK, DescriptorsOwnedOnce
    <3>2. buffer # received
      BY <3>1 DEF DescriptorsOwnedOnce
    <3> QED
      BY <3>1, <3>2, <2>2
  <2>5. \A n \in Fds : fdTable'[n].holds # "nothing" =>
          n = buffer \/ n \in {files[i].fd : i \in OpenIds}
    <3> SUFFICES ASSUME NEW n \in Fds, fdTable'[n].holds # "nothing"
                 PROVE  n = buffer \/ n \in {files[i].fd : i \in OpenIds}
      OBVIOUS
    <3>1. fdTable[n].holds # "nothing" /\ n # received
      BY <2>2 DEF Empty
    <3> QED
      BY <3>1 DEF DescriptorsOwnedOnce
  <2>6. \A i, j \in OpenIds : files[i].fd = files[j].fd => i = j
    BY DEF DescriptorsOwnedOnce
  <2> QED
    BY <2>1, <2>3, <2>4, <2>5, <2>6 DEF DescriptorsOwnedOnce
<1> QED
  BY <1>1, <1>2, <1>3

\* Close removes the entry, if there is one, and closes its descriptor.
LEMMA CloseKeepsInvariant ==
  ASSUME IInv, pc = "handle", Close
  PROVE  IInv'
<1> USE DEF IInv
<1> DEFINE id == Current.id
<1>1. id \in Ids
  BY CurrentInRequest DEF Close
<1>2. files' = [files EXCEPT ![id] = None]
  BY DEF Close
<1>3. \A n \in Fds : fdTable'[n] =
        IF n = received \/ (files[id] # None /\ n = files[id].fd)
        THEN Empty ELSE fdTable[n]
  BY DEF Close, Without
<1>4. TypeOK'
  <2>1. files' \in [Ids -> OpenFile \cup {None}]
    BY <1>2 DEF TypeOK
  <2>2. fdTable' \in [Fds -> Slot]
    BY DEF Close, TypeOK, Without, Slot
  <2>3. reply' \in Reply
    BY <1>1, ReplyTypes DEF Close, Return
  <2> QED
    BY <2>1, <2>2, <2>3 DEF TypeOK, Close, Return
<1>5. Control'
  BY <1>1, ReplyTypes DEF Control, Close, Return
<1>6. DescriptorsOwnedOnce'
  <2>1. buffer = None /\ buffer' = None /\ received' = None
    BY DEF Control, Close, Return
  <2>2. /\ OpenIds' = OpenIds \ {id}
        /\ \A i \in OpenIds' : files'[i] = files[i]
    BY <1>1, <1>2 DEF OpenIds, TypeOK
  <2>3. \A i \in OpenIds : files[i].fd # received /\ files[i].fd \in Fds
    BY HelperAssumption DEF DescriptorsOwnedOnce, TypeOK, OpenIds, OpenFile
  <2>4. \A i \in OpenIds' : fdTable'[files'[i].fd] = FileSlot(files'[i].source)
    <3> SUFFICES ASSUME NEW i \in OpenIds'
                 PROVE  fdTable'[files[i].fd] = FileSlot(files[i].source)
      BY <2>2
    <3>1. i \in OpenIds /\ i # id
      BY <2>2
    <3>2. files[id] # None => files[i].fd # files[id].fd
      BY <3>1, <1>1 DEF DescriptorsOwnedOnce, OpenIds
    <3> QED
      BY <3>1, <3>2, <1>3, <2>3 DEF DescriptorsOwnedOnce
  <2>5. \A n \in Fds : fdTable'[n].holds # "nothing" =>
          n \in {files'[i].fd : i \in OpenIds'}
    <3> SUFFICES ASSUME NEW n \in Fds, fdTable'[n].holds # "nothing"
                 PROVE  \E i \in OpenIds' : n = files[i].fd
      BY <2>2
    <3>1. /\ fdTable[n].holds # "nothing"
          /\ n # received
          /\ files[id] # None => n # files[id].fd
      BY <1>3 DEF Empty
    <3>2. \E i \in OpenIds : n = files[i].fd
      BY <3>1, <2>1, HelperAssumption DEF DescriptorsOwnedOnce
    <3> QED
      BY <3>1, <3>2, <2>2 DEF OpenIds
  <2>6. \A i, j \in OpenIds' : files'[i].fd = files'[j].fd => i = j
    BY <2>2 DEF DescriptorsOwnedOnce
  <2> QED
    BY <2>1, <2>4, <2>5, <2>6 DEF DescriptorsOwnedOnce
<1> QED
  BY <1>4, <1>5, <1>6

-----------------------------------------------------------------------------
(* The handler, and the whole process                                      *)

\* The system's decoder, opened now or before, keeps to the file of its id.
LEMMA FallbackKeepsInvariant ==
  ASSUME IInv, pc = "handle", NEW kind \in {"Preview", "Sensor"}, NEW id \in Ids,
         files[id] # None, Fallback(kind, id)
  PROVE  IInv'
<1>1. PICK open \in SystemOutcome, decode \in SystemOutcome :
        LET sys == System(files[id], open)
            pixels == Guarded(decode)
        IN  \/ sys \in Fatal /\ End(sys)
            \/ /\ sys = "err"
               /\ Fail(id, {"system"})
               /\ files' = [files EXCEPT ![id].system = sys]
            \/ /\ sys = "ok"
               /\ \/ pixels \in Fatal /\ End(pixels)
                  \/ /\ pixels = "err"
                     /\ Fail(id, Join(files[id]))
                     /\ files' = [files EXCEPT ![id].system = sys]
                  \/ /\ pixels = "ok"
                     /\ Deliver(kind, id)
                     /\ files' = [files EXCEPT ![id].system = sys]
  BY DEF Fallback
<1> DEFINE sys == System(files[id], open)
           pixels == Guarded(decode)
<1>2. CASE sys \in Fatal /\ End(sys)
  BY <1>2, EndKeepsInvariant DEF Fatal, Ended
<1>3. CASE pixels \in Fatal /\ End(pixels)
  BY <1>3, EndKeepsInvariant DEF Fatal, Ended
<1>4. ASSUME NEW e \in SUBSET Reason, Fail(id, e), sys \in {"ok", "err"},
             files' = [files EXCEPT ![id].system = sys]
      PROVE  IInv'
  <2>1. /\ files' \in [Ids -> OpenFile \cup {None}]
        /\ OpenIds' = OpenIds
        /\ \A i \in OpenIds : /\ files'[i].fd = files[i].fd
                              /\ files'[i].source = files[i].source
    BY <1>4, SystemKeepsOwner
  <2>2. [kind |-> "Failed", id |-> id, error |-> e] \in Reply
    BY ReplyTypes
  <2> QED
    BY <1>4, <2>1, <2>2, ReturnKeepsInvariant DEF Fail
<1>5. CASE sys = "ok" /\ Deliver(kind, id)
           /\ files' = [files EXCEPT ![id].system = sys]
  <2>1. /\ files' \in [Ids -> OpenFile \cup {None}]
        /\ OpenIds' = OpenIds
        /\ \A i \in OpenIds : /\ files'[i].fd = files[i].fd
                              /\ files'[i].source = files[i].source
    BY <1>5, SystemKeepsOwner
  <2> QED
    BY <1>5, <2>1, DeliverKeepsInvariant
<1>6. {"system"} \in SUBSET Reason /\ Join(files[id]) \in SUBSET Reason
  BY DEF Reason, Join
<1> QED
  BY <1>1, <1>2, <1>3, <1>4, <1>5, <1>6

\* rawler's turn, then the system's.
LEMMA DecodeKeepsInvariant ==
  ASSUME IInv, pc = "handle", NEW kind \in {"Preview", "Sensor"}, Decode(kind)
  PROVE  IInv'
<1> DEFINE id == Current.id
<1>1. Current.op = kind /\ id \in Ids
  BY CurrentInRequest DEF Decode, IInv
<1>2. CASE files[id] = None /\ Fail(id, {"not open"}) /\ UNCHANGED files
  BY <1>1, <1>2, FailKeepsInvariant DEF Reason
<1>3. ASSUME files[id] # None, NEW raw \in Outcome,
             NEW pixels, pixels = IF files[id].rawler THEN Guarded(raw) ELSE "err",
             \/ pixels \in Fatal /\ End(pixels)
             \/ pixels = "ok" /\ Deliver(kind, id) /\ UNCHANGED files
             \/ pixels = "err" /\ Fallback(kind, id)
      PROVE  IInv'
  <2>1. CASE pixels \in Fatal /\ End(pixels)
    BY <2>1, EndKeepsInvariant, <1>3 DEF Fatal, Ended
  <2>2. CASE Deliver(kind, id) /\ UNCHANGED files
    <3>1. files' \in [Ids -> OpenFile \cup {None}] /\ OpenIds' = OpenIds
      BY <2>2 DEF IInv, TypeOK, OpenIds
    <3> QED
      BY <1>1, <1>3, <2>2, <3>1, DeliverKeepsInvariant
  <2>3. CASE Fallback(kind, id)
    BY <1>1, <1>3, <2>3, FallbackKeepsInvariant
  <2> QED
    BY <1>3, <2>1, <2>2, <2>3
<1> QED
  BY <1>2, <1>3 DEF Decode

\* An Open that is admitted maps its file, refuses it or fails on it: the
\* descriptor received ends up in the table or closed.
LEMMA OpenKeepsInvariant ==
  ASSUME IInv, pc = "handle", Open
  PROVE  IInv'
<1> DEFINE id == Current.id
<1>1. received # None /\ id \in Ids
  BY CurrentInRequest DEF Open, Admitted, IInv
<1>2. CASE Fail(id, {"cannot map"}) /\ UNCHANGED files
  BY <1>1, <1>2, FailKeepsInvariant DEF Reason
<1>3. CASE Fail(id, {"raw", "system"}) /\ UNCHANGED files
  BY <1>1, <1>3, FailKeepsInvariant DEF Reason
<1>4. ASSUME NEW how \in Fatal, End(how)
      PROVE  IInv'
  BY <1>4, EndKeepsInvariant DEF Fatal, Ended
<1>5. CASE Insert(id, TRUE, "untried") \/ Insert(id, FALSE, "ok")
  BY <1>1, <1>5, InsertKeepsInvariant
<1> QED
  BY <1>2, <1>3, <1>4, <1>5 DEF Open

\* Whatever the request, its handler keeps the invariant.
LEMMA HandleKeepsInvariant ==
  ASSUME IInv, Handle
  PROVE  IInv'
<1>1. pc = "handle"
  BY DEF Handle
<1>2. ASSUME NEW r \in Reply, Return(r), fdTable' = Without({received}),
             UNCHANGED files
      PROVE  IInv'
  <2>1. files' \in [Ids -> OpenFile \cup {None}] /\ OpenIds' = OpenIds
    BY <1>2 DEF IInv, TypeOK, OpenIds
  <2> QED
    BY <1>1, <1>2, <2>1, ReturnKeepsInvariant
<1>3. CASE Hello
  <2>1. sandboxed \in BOOLEAN
    BY DEF IInv, TypeOK
  <2> QED
    BY <1>2, <1>3, <2>1, ReplyTypes, ProtocolAssumption DEF Hello
<1>4. CASE OpenRefused
  <2>1. Current.id \in Ids
    BY <1>1, <1>4, CurrentInRequest DEF OpenRefused, IInv
  <2> QED
    BY <1>1, <1>4, <2>1, FailKeepsInvariant DEF OpenRefused, Reason
<1>5. CASE Open
  BY <1>1, <1>5, OpenKeepsInvariant
<1>6. CASE Decode("Preview") \/ Decode("Sensor")
  BY <1>1, <1>6, DecodeKeepsInvariant
<1>7. CASE SandboxCheck
  <2>1. sandboxed \in BOOLEAN
    BY DEF IInv, TypeOK
  <2> QED
    BY <1>2, <1>7, <2>1, ReplyTypes DEF SandboxCheck, Escapes
<1>8. CASE Close
  BY <1>1, <1>8, CloseKeepsInvariant
<1> QED
  BY <1>3, <1>4, <1>5, <1>6, <1>7, <1>8 DEF Handle

\* Initially the process holds nothing.
LEMMA InitInvariant == Init => IInv
<1> SUFFICES ASSUME Init PROVE IInv
  OBVIOUS
<1>1. TypeOK
  <2>1. requests \in Seq(Message) /\ replies \in Seq(Answer) /\ Len(requests) = 0
    BY DEF Init
  <2>2. Empty \in Slot
    BY DEF Slot
  <2>3. fdTable \in [Fds -> Slot]
    BY <2>2 DEF Init
  <2>4. files \in [Ids -> OpenFile \cup {None}]
    BY DEF Init
  <2>5. taken = 0
    BY DEF Init
  <2>6. taken \in 0 .. Len(requests)
    BY <2>1, <2>5
  <2>7. /\ pc \in {"start", "recv", "handle", "return", "send"} \cup Ended
        /\ sandboxed \in BOOLEAN /\ closed \in BOOLEAN
        /\ received \in Fds \cup {None} /\ buffer \in Fds \cup {None}
        /\ reply \in Reply \cup {None}
    BY DEF Init
  <2> QED
    BY <2>1, <2>3, <2>4, <2>6, <2>7 DEF TypeOK
<1>2. Control /\ OpenIds = {}
  BY DEF Init, Control, OpenIds
<1>3. DescriptorsOwnedOnce
  BY <1>2 DEF Init, DescriptorsOwnedOnce, Empty
<1> QED
  BY <1>1, <1>2, <1>3 DEF IInv

\* A descriptor that arrives takes a free number.
LEMMA RecvKeepsInvariant ==
  ASSUME IInv, Recv
  PROVE  IInv'
<1> USE DEF IInv
<1> DEFINE m == requests[taken + 1]
<1>1. m \in Message /\ taken + 1 \in 1 .. Len(requests)
  BY DEF TypeOK, Recv
<1>2. received = None /\ buffer = None
  BY DEF Recv, Control
<1>3. OpenIds' = OpenIds /\ files' = files /\ buffer' = None
  BY <1>2 DEF Recv, OpenIds
<1>4. CASE received' = None /\ UNCHANGED fdTable
  <2>1. TypeOK' /\ Control'
    BY <1>1, <1>4 DEF TypeOK, Control, Recv
  <2>2. DescriptorsOwnedOnce'
    BY <1>2, <1>3, <1>4 DEF DescriptorsOwnedOnce
  <2> QED
    BY <2>1, <2>2
<1>5. ASSUME m.attached # None, NEW n \in NewFd, received' = n,
             fdTable' = [fdTable EXCEPT ![n] = FileSlot(m.attached)]
      PROVE  IInv'
  <2>1. m.attached \in Files /\ FileSlot(m.attached) \in Slot
    BY <1>1, <1>5 DEF Message, Slot, FileSlot
  <2>2. n \in Fds /\ fdTable[n].holds = "nothing" /\ n # None
    BY HelperAssumption DEF NewFd, FreeFds
  <2>3. TypeOK' /\ Control'
    BY <1>1, <1>5, <2>1, <2>2 DEF TypeOK, Control, Recv
  <2>4. \A k \in Fds : fdTable'[k] = IF k = n THEN FileSlot(m.attached) ELSE fdTable[k]
    BY <1>5, <2>2 DEF TypeOK
  <2>5. \A i \in OpenIds : files[i].fd \in Fds /\ files[i].fd # n
    <3> SUFFICES ASSUME NEW i \in OpenIds
                 PROVE  files[i].fd \in Fds /\ files[i].fd # n
      OBVIOUS
    <3>1. files[i].fd \in Fds
      BY DEF TypeOK, OpenIds, OpenFile
    <3>2. fdTable[files[i].fd] = FileSlot(files[i].source)
      BY DEF DescriptorsOwnedOnce
    <3>3. fdTable[files[i].fd].holds = "file"
      BY <3>2 DEF FileSlot
    <3> QED
      BY <3>1, <3>3, <2>2
  <2>6. \A i \in OpenIds : fdTable'[files[i].fd] = FileSlot(files[i].source)
    <3> SUFFICES ASSUME NEW i \in OpenIds
                 PROVE  fdTable'[files[i].fd] = FileSlot(files[i].source)
      OBVIOUS
    <3>1. fdTable[files[i].fd] = FileSlot(files[i].source)
      BY DEF DescriptorsOwnedOnce
    <3> QED
      BY <3>1, <2>4, <2>5
  <2>7. fdTable'[n].holds = "file"
    BY <2>2, <2>4 DEF FileSlot
  <2>8. \A k \in Fds : fdTable'[k].holds # "nothing" =>
          k = n \/ k \in {files[i].fd : i \in OpenIds}
    <3> SUFFICES ASSUME NEW k \in Fds, fdTable'[k].holds # "nothing", k # n
                 PROVE  k \in {files[i].fd : i \in OpenIds}
      OBVIOUS
    <3>1. fdTable[k].holds # "nothing"
      BY <2>4
    <3> QED
      BY <3>1, <1>2, HelperAssumption DEF DescriptorsOwnedOnce
  <2>9. \A i, j \in OpenIds : files[i].fd = files[j].fd => i = j
    BY DEF DescriptorsOwnedOnce
  <2>10. DescriptorsOwnedOnce'
    BY <1>3, <1>5, <2>5, <2>6, <2>7, <2>8, <2>9 DEF DescriptorsOwnedOnce
  <2> QED
    BY <2>3, <2>10
<1> QED
  BY <1>4, <1>5 DEF Recv

\* The buffer leaves with its reply.
LEMMA SendKeepsInvariant ==
  ASSUME IInv, Send
  PROVE  IInv'
<1> USE DEF IInv
<1>1. Outgoing \in Answer
  <2>1. buffer # None => fdTable[buffer] \in Slot /\ fdTable[buffer].holds = "pixels"
    BY DEF TypeOK, DescriptorsOwnedOnce
  <2>2. buffer # None => fdTable[buffer].file \in Files
    BY <2>1 DEF Slot, Empty
  <2> QED
    BY <2>2 DEF Send, Control, Outgoing, Answer
<1>2. TypeOK'
  BY <1>1 DEF TypeOK, Send, BufferDropped, Without, Slot
<1>3. Control'
  BY DEF Control, Send, BufferDropped
<1>4. DescriptorsOwnedOnce'
  <2>1. received = None /\ received' = None /\ buffer' = None
    BY DEF Control, Send, BufferDropped
  <2>2. OpenIds' = OpenIds /\ files' = files
    BY DEF Send, OpenIds
  <2>3. \A n \in Fds : fdTable'[n] = IF n = buffer THEN Empty ELSE fdTable[n]
    BY DEF Send, BufferDropped, Without
  <2>4. \A i \in OpenIds : fdTable'[files[i].fd] = FileSlot(files[i].source)
    <3> SUFFICES ASSUME NEW i \in OpenIds
                 PROVE  fdTable'[files[i].fd] = FileSlot(files[i].source)
      OBVIOUS
    <3>1. files[i].fd \in Fds
      BY DEF TypeOK, OpenIds, OpenFile
    <3>2. fdTable[files[i].fd] = FileSlot(files[i].source)
      BY DEF DescriptorsOwnedOnce
    <3>3. fdTable[files[i].fd].holds = "file"
      BY <3>2 DEF FileSlot
    <3>4. files[i].fd # buffer
      BY <3>1, <3>3, HelperAssumption DEF DescriptorsOwnedOnce
    <3> QED
      BY <3>1, <3>2, <3>4, <2>3
  <2>5. \A n \in Fds : fdTable'[n].holds # "nothing" =>
          n \in {files[i].fd : i \in OpenIds}
    <3> SUFFICES ASSUME NEW n \in Fds, fdTable'[n].holds # "nothing"
                 PROVE  n \in {files[i].fd : i \in OpenIds}
      OBVIOUS
    <3>1. fdTable[n].holds # "nothing" /\ n # buffer
      BY <2>3 DEF Empty
    <3> QED
      BY <3>1, <2>1, HelperAssumption DEF DescriptorsOwnedOnce
  <2>6. \A i, j \in OpenIds : files[i].fd = files[j].fd => i = j
    BY DEF DescriptorsOwnedOnce
  <2> QED
    BY <2>1, <2>2, <2>4, <2>5, <2>6 DEF DescriptorsOwnedOnce
<1> QED
  BY <1>2, <1>3, <1>4

\* A step that leaves the process as it is, or only lets it begin.
LEMMA SameProcessKeepsInvariant ==
  ASSUME IInv, TypeOK',
         \/ UNCHANGED <<pc, taken>>
         \/ pc = "start" /\ pc' = "recv",
         UNCHANGED <<fdTable, files, received, reply, buffer>>
  PROVE  IInv'
<1>1. Control'
  BY DEF IInv, Control
<1>2. OpenIds' = OpenIds
  BY DEF OpenIds
<1>3. DescriptorsOwnedOnce'
  BY <1>2 DEF IInv, DescriptorsOwnedOnce
<1> QED
  BY <1>1, <1>3 DEF IInv

\* Every step keeps the invariant.
LEMMA NextKeepsInvariant == IInv /\ [Next]_vars => IInv'
<1> SUFFICES ASSUME IInv, [Next]_vars PROVE IInv'
  OBVIOUS
<1>1. CASE Start
  <2>1. CASE End("failure")
    BY <2>1, EndKeepsInvariant DEF Ended
  <2>2. CASE pc = "start" /\ pc' = "recv" /\ sandboxed' \in BOOLEAN
             /\ UNCHANGED <<fdTable, files, taken, received, reply, buffer,
                            requests, replies, closed>>
    <3>1. TypeOK'
      BY <2>2 DEF IInv, TypeOK
    <3> QED
      BY <2>2, <3>1, SameProcessKeepsInvariant
  <2>3. sandboxed \in BOOLEAN
    BY DEF IInv, TypeOK
  <2> QED
    BY <1>1, <2>1, <2>2, <2>3 DEF Start, EnterSandbox
<1>2. CASE Recv
  BY <1>2, RecvKeepsInvariant
<1>3. CASE RecvFails \/ RecvEof \/ SendFails \/ Kill
  BY <1>3, EndKeepsInvariant DEF RecvFails, RecvEof, SendFails, Kill, Ended
<1>4. CASE Handle
  BY <1>4, HandleKeepsInvariant
<1>5. CASE ReturnPixels \/ Send
  BY <1>5, ReturnPixelsKeepsInvariant, SendKeepsInvariant
<1>6. ASSUME NEW m \in Messages, AppSend(m)
      PROVE  IInv'
  <2>1. m \in Message
    BY HelperAssumption
  <2>2. TypeOK'
    BY <1>6, <2>1 DEF IInv, TypeOK, AppSend, process
  <2> QED
    BY <1>6, <2>2, SameProcessKeepsInvariant DEF AppSend, process
<1>7. CASE AppClose
  <2>1. TypeOK'
    BY <1>7 DEF IInv, TypeOK, AppClose, process
  <2> QED
    BY <1>7, <2>1, SameProcessKeepsInvariant DEF AppClose, process
<1>8. CASE UNCHANGED vars
  <2>1. TypeOK'
    BY <1>8 DEF IInv, TypeOK, vars, process
  <2> QED
    BY <1>8, <2>1, SameProcessKeepsInvariant DEF vars, process
<1> QED
  BY <1>1, <1>2, <1>3, <1>4, <1>5, <1>6, <1>7, <1>8
  DEF Next, HelperStep, Finished

\* The inductive invariant holds throughout.
THEOREM InductiveInvariant == Spec => []IInv
<1>1. Init => IInv
  BY InitInvariant
<1>2. IInv /\ [Next]_vars => IInv'
  BY NextKeepsInvariant
<1> QED
  BY <1>1, <1>2, PTL DEF Spec

\* Every variable of the helper keeps its type: in particular every entry of
\* `files` maps a file the application sent, and every reply is a Reply.
THEOREM TypeCorrect == Spec => []TypeOK
<1>1. IInv => TypeOK
  BY DEF IInv
<1> QED
  BY <1>1, InductiveInvariant, PTL

\* handle() neither leaks a descriptor on any of its returns nor closes one
\* twice: each has exactly one owner, for any number of files and requests.
THEOREM DescriptorsHaveOneOwner == Spec => []DescriptorsOwnedOnce
<1>1. IInv => DescriptorsOwnedOnce
  BY DEF IInv
<1> QED
  BY <1>1, InductiveInvariant, PTL

-----------------------------------------------------------------------------
(* The limit                                                               *)

\* The table holds at most MAX_OPEN_FILES entries: every Open tests its length
\* first, and nothing else adds an entry.
TableBounded == IsFiniteSet(OpenIds) /\ Cardinality(OpenIds) <= MAX_OPEN_FILES

\* Only an Open that was admitted adds an entry, and only one.
LEMMA TableGrowsByOne ==
  ASSUME IInv, [Next]_vars
  PROVE  \/ OpenIds' \subseteq OpenIds
         \/ /\ ~Full
            /\ \E id \in Ids : OpenIds' \subseteq OpenIds \cup {id}
<1> DEFINE Goal == \/ OpenIds' \subseteq OpenIds
                   \/ /\ ~Full
                      /\ \E id \in Ids : OpenIds' \subseteq OpenIds \cup {id}
<1>1. ASSUME NEW how, End(how) PROVE Goal
  BY <1>1 DEF End, OpenIds
<1>2. ASSUME UNCHANGED files PROVE Goal
  BY <1>2 DEF OpenIds
<1>3. ASSUME NEW id \in Ids, files[id] # None, NEW s,
             files' = [files EXCEPT ![id].system = s]
      PROVE  Goal
  <2>1. \A i \in Ids : i # id => files'[i] = files[i]
    BY <1>3 DEF IInv, TypeOK
  <2> QED
    BY <1>3, <2>1 DEF OpenIds
<1>4. ASSUME Open, pc = "handle" PROVE Goal
  <2>1. ~Full
    BY <1>4 DEF Open, Admitted
  <2>2. ASSUME NEW id, NEW rawler, NEW system, Insert(id, rawler, system), id \in Ids
        PROVE  Goal
    <3>1. \A i \in Ids : i # id => files'[i] = files[i]
      BY <2>2 DEF Insert, IInv, TypeOK
    <3> QED
      BY <2>1, <2>2, <3>1 DEF OpenIds
  <2>3. ASSUME NEW how, End(how) PROVE Goal
    BY <2>3, <1>1
  <2>4. Current.id \in Ids
    BY <1>4, CurrentInRequest DEF IInv, Open, Admitted
  <2> QED
    BY <1>2, <1>4, <2>2, <2>3, <2>4 DEF Open
<1>5. ASSUME NEW kind \in {"Preview", "Sensor"}, Decode(kind), pc = "handle"
      PROVE  Goal
  <2> DEFINE id == Current.id
  <2>1. id \in Ids
    BY <1>5, CurrentInRequest DEF IInv, Decode
  <2>2. CASE UNCHANGED files
    BY <2>2, <1>2
  <2>3. ASSUME NEW how, End(how) PROVE Goal
    BY <2>3, <1>1
  <2>4. ASSUME files[id] # None, Fallback(kind, id) PROVE Goal
    BY <1>1, <1>3, <2>1, <2>4 DEF Fallback
  <2> QED
    BY <1>5, <2>2, <2>3, <2>4 DEF Decode
<1>6. ASSUME Close, pc = "handle" PROVE Goal
  <2>1. Current.id \in Ids /\ files' = [files EXCEPT ![Current.id] = None]
    BY <1>6, CurrentInRequest DEF IInv, Close
  <2> QED
    BY <2>1 DEF OpenIds, IInv, TypeOK
<1>7. CASE Handle
  BY <1>2, <1>4, <1>5, <1>6, <1>7 DEF Handle, Hello, OpenRefused, SandboxCheck
<1>8. CASE Start \/ RecvFails \/ RecvEof \/ SendFails \/ Kill
  BY <1>1, <1>2, <1>8 DEF Start, RecvFails, RecvEof, SendFails, Kill
<1>9. CASE Recv \/ ReturnPixels \/ Send \/ AppClose \/ \E m \in Messages : AppSend(m)
  BY <1>2, <1>9 DEF Recv, ReturnPixels, Send, BufferDropped, AppClose, AppSend, process
<1>10. CASE UNCHANGED vars
  BY <1>2, <1>10 DEF vars, process
<1> QED
  BY <1>7, <1>8, <1>9, <1>10 DEF Next, HelperStep, Finished

\* The table stays within its limit.
LEMMA TableBoundedKept == IInv /\ TableBounded /\ [Next]_vars => TableBounded'
<1> SUFFICES ASSUME IInv, TableBounded, [Next]_vars PROVE TableBounded'
  OBVIOUS
<1>1. MAX_OPEN_FILES \in Nat /\ Cardinality(OpenIds) \in Nat
  BY ProtocolAssumption, FS_CardinalityType DEF TableBounded
<1>2. CASE OpenIds' \subseteq OpenIds
  <2>1. IsFiniteSet(OpenIds') /\ Cardinality(OpenIds') <= Cardinality(OpenIds)
    BY <1>2, FS_Subset DEF TableBounded
  <2>2. Cardinality(OpenIds') \in Nat
    BY <2>1, FS_CardinalityType
  <2> QED
    BY <1>1, <2>1, <2>2 DEF TableBounded
<1>3. ASSUME ~Full, NEW id \in Ids, OpenIds' \subseteq OpenIds \cup {id}
      PROVE  TableBounded'
  <2>1. /\ IsFiniteSet(OpenIds \cup {id})
        /\ Cardinality(OpenIds \cup {id}) \in
             {Cardinality(OpenIds), Cardinality(OpenIds) + 1}
    BY FS_AddElement DEF TableBounded
  <2>2. /\ IsFiniteSet(OpenIds')
        /\ Cardinality(OpenIds') <= Cardinality(OpenIds \cup {id})
    BY <1>3, <2>1, FS_Subset
  <2>3. Cardinality(OpenIds') \in Nat
    BY <2>2, FS_CardinalityType
  <2> QED
    BY <1>1, <1>3, <2>1, <2>2, <2>3 DEF TableBounded, Full
<1> QED
  BY <1>2, <1>3, TableGrowsByOne

\* Every descriptor belongs to the table, to the message or to the reply; the last
\* two have none while the helper waits.
LEMMA DescriptorsFollowTable == IInv /\ TableBounded => DescriptorsBounded
<1> SUFFICES ASSUME IInv, TableBounded PROVE DescriptorsBounded
  OBVIOUS
<1> DEFINE owned == {files[id].fd : id \in OpenIds}
           owner == [id \in OpenIds |-> files[id].fd]
           used == Fds \ FreeFds
<1>1. owner \in Surjection(OpenIds, owned)
  BY DEF Surjection
<1>2. IsFiniteSet(owned) /\ Cardinality(owned) <= Cardinality(OpenIds)
  BY <1>1, FS_Surjection DEF TableBounded
<1>3. /\ IsFiniteSet(owned \cup {received})
      /\ Cardinality(owned \cup {received}) \in {Cardinality(owned), Cardinality(owned) + 1}
  BY <1>2, FS_AddElement
<1>4. /\ IsFiniteSet((owned \cup {received}) \cup {buffer})
      /\ Cardinality((owned \cup {received}) \cup {buffer}) \in
           {Cardinality(owned \cup {received}), Cardinality(owned \cup {received}) + 1}
  BY <1>3, FS_AddElement
<1>5. used \subseteq (owned \cup {received}) \cup {buffer}
  BY DEF FreeFds, IInv, DescriptorsOwnedOnce
<1>6. /\ IsFiniteSet(used)
      /\ Cardinality(used) <= Cardinality((owned \cup {received}) \cup {buffer})
  BY <1>4, <1>5, FS_Subset
<1>7. /\ Cardinality(used) \in Nat /\ Cardinality(owned) \in Nat
      /\ Cardinality(OpenIds) \in Nat /\ MAX_OPEN_FILES \in Nat
  BY <1>2, <1>6, FS_CardinalityType, ProtocolAssumption DEF TableBounded
<1>8. Cardinality(used) <= MAX_OPEN_FILES + 2
  BY <1>2, <1>3, <1>4, <1>6, <1>7 DEF TableBounded
<1>9. pc = "recv" => Cardinality(used) <= MAX_OPEN_FILES
  <2> SUFFICES ASSUME pc = "recv" PROVE Cardinality(used) <= MAX_OPEN_FILES
    OBVIOUS
  <2>1. received = None /\ buffer = None
    BY DEF IInv, Control
  <2>2. used \subseteq owned
    BY <1>5, <2>1, HelperAssumption DEF FreeFds
  <2>3. Cardinality(used) <= Cardinality(owned)
    BY <1>2, <2>2, FS_Subset
  <2> QED
    BY <1>2, <1>7, <2>3 DEF TableBounded
<1> QED
  BY <1>8, <1>9 DEF DescriptorsBounded, TableBounded

\* The table stays within its limit throughout.
LEMMA TableStaysBounded == Spec => []TableBounded
<1>1. Init => TableBounded
  <2> SUFFICES ASSUME Init PROVE TableBounded
    OBVIOUS
  <2>1. OpenIds = {}
    BY DEF Init, OpenIds
  <2> QED
    BY <2>1, FS_EmptySet, ProtocolAssumption DEF TableBounded
<1>2. IInv /\ TableBounded /\ [Next]_vars => TableBounded'
  BY TableBoundedKept
<1> QED
  BY <1>1, <1>2, InductiveInvariant, PTL DEF Spec

\* However many files the application opens, closes and replaces, and whatever it
\* attaches to its other requests, the helper keeps at most MAX_OPEN_FILES files, at
\* most two descriptors more, and none beside the files while it waits.
THEOREM DescriptorsStayBounded == Spec => []DescriptorsBounded
<1>1. IInv /\ TableBounded => DescriptorsBounded
  BY DescriptorsFollowTable
<1> QED
  BY <1>1, TableStaysBounded, InductiveInvariant, PTL
=============================================================================
