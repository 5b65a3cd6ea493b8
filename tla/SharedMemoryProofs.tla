-------------------------- MODULE SharedMemoryProofs --------------------------
(***************************************************************************)
(* Proofs, for every value of the constants, that a buffer is complete     *)
(* when it is sent, leads nowhere by its name, is given back on every      *)
(* return and is never mapped past its end, across crashes of the helper   *)
(* and restarts under the same process number.                             *)
(***************************************************************************)
EXTENDS SharedMemory, TLAPS

InCreate == {"opened", "unlinked", "sized", "mapped", "filled"}

\* Where the helper is in the life of the object it holds.
InTheHand ==
  /\ pc = "idle" <=> object = None
  /\ pid = None => pc = "idle"
  /\ \A o \in Objects : o # object => handles[o] \cap OfHelper = {}
  /\ pc \in InCreate => handles[object] \subseteq OfHelper
  /\ pc \notin {"idle", "opened"} => ~HasName(object)
  /\ pc \in {"filled", "sent"} => pixels[object]

\* The application checks an object it has received; what fstat found is enough for
\* what was announced, and is still there unless the sender changed the size.
CheckedByHandle ==
  \A o \in Objects : checked[o] # 0 =>
    /\ "app_fd" \in handles[o]
    /\ announced[o] <= checked[o]
    /\ resized[o] \/ checked[o] <= size[o]

\* The application maps an object through a handle.
MappedByHandle == \A o \in Objects : mapped[o] # 0 => "app_map" \in handles[o]

\* The inductive invariant.
IInv ==
  /\ TypeOK
  /\ InTheHand
  /\ CheckedByHandle
  /\ MappedByHandle
  /\ NamedObjectsAreEmpty
  /\ CompleteWhenSent
  /\ MappedWithinObject

-----------------------------------------------------------------------------
(* Arithmetic of the model                                                 *)

\* A size rounded up to whole pages is a size.
LEMMA WholePagesType ==
  ASSUME NEW n \in Nat
  PROVE  WholePages(n) \in Nat
<1>1. PAGE \in Nat \ {0} /\ USIZE \in Nat \ {0}
  BY LayoutsAssumption
<1>2. n + PAGE - 1 \in Nat
  BY <1>1
<1>3. (n + PAGE - 1) \div PAGE \in Nat
  BY <1>1, <1>2
<1>4. ((n + PAGE - 1) \div PAGE) * PAGE \in Nat
  BY <1>1, <1>3
<1> QED
  BY <1>1, <1>4 DEF WholePages

\* map_received() maps no more than the object holds.
LEMMA MappedFits ==
  ASSUME NEW n \in Nat, NEW held \in Nat, held >= n
  PROVE  Mapped(n, held) \in Nat /\ Mapped(n, held) <= held
<1>1. WholePages(n) \in Nat
  BY WholePagesType
<1> QED
  BY <1>1 DEF Mapped

-----------------------------------------------------------------------------
(* The helper                                                              *)

\* The types of everything a step of create() may leave alone.
LEMMA LengthTypes ==
  /\ Lengths \subseteq Nat
  /\ None \notin Objects /\ None \notin Pids
  /\ U32 \in Nat \ {0}
BY SharedMemoryAssumption, LayoutsAssumption

\* shm_open gives a new name to a new object, which is empty.
LEMMA OpenKeepsInvariant ==
  ASSUME IInv, Open
  PROVE  IInv'
<1> USE DEF IInv
<1>1. counter' \in 0 .. U32 - 1
  BY LengthTypes DEF Open, NextCounter, TypeOK
<1>2. CASE UNCHANGED <<pc, object, len, memory>>
  <2>1. TypeOK'
    BY <1>1, <1>2 DEF Open, TypeOK, memory, application
  <2> QED
    BY <1>2, <2>1 DEF Open, memory, application, InTheHand, CheckedByHandle,
                      MappedByHandle, HasName, NamedObjectsAreEmpty, CompleteWhenSent, MappedWithinObject
<1>3. ASSUME NEW n \in Lengths \ {0}, NEW o \in Objects,
             named[<<pid, counter>>] = None,
             Unused(o),
             named' = [named EXCEPT ![<<pid, counter>>] = o],
             handles' = [handles EXCEPT ![o] = {"fd"}],
             size' = [size EXCEPT ![o] = 0],
             resized' = [resized EXCEPT ![o] = FALSE],
             pixels' = [pixels EXCEPT ![o] = FALSE],
             object' = o, len' = n, pc' = "opened"
      PROVE  IInv'
  <2>1. UNCHANGED <<pid, lives, announced, checked, mapped>> /\ pc = "idle" /\ pid # None
    BY DEF Open, application
  <2>2. <<pid, counter>> \in Names
    BY <2>1 DEF TypeOK, Names
  <2>3. /\ \A p \in Objects : handles'[p] = IF p = o THEN {"fd"} ELSE handles[p]
        /\ \A p \in Objects : size'[p] = IF p = o THEN 0 ELSE size[p]
        /\ \A p \in Objects : pixels'[p] = IF p = o THEN FALSE ELSE pixels[p]
        /\ \A name \in Names :
             named'[name] = IF name = <<pid, counter>> THEN o ELSE named[name]
    BY <1>3, <2>2 DEF TypeOK
  <2>4. handles[o] = {} /\ ~HasName(o) /\ o # None
    BY <1>3, LengthTypes DEF Unused
  <2>5. TypeOK'
    BY <1>1, <1>3, <2>1, <2>2 DEF TypeOK, Handles
  <2>6. InTheHand'
    <3>1. \A p \in Objects : handles[p] \cap OfHelper = {}
      BY <2>1, <2>4, LengthTypes DEF InTheHand
    <3>2. \A p \in Objects : p # o => handles'[p] \cap OfHelper = {}
      BY <2>3, <3>1
    <3>3. handles'[o] \subseteq OfHelper
      BY <2>3 DEF OfHelper
    <3> QED
      BY <1>3, <2>1, <2>4, <3>2, <3>3 DEF InTheHand, InCreate
  <2>7. CheckedByHandle' /\ MappedByHandle' /\ MappedWithinObject'
    <3>1. checked[o] = 0
      BY <2>4 DEF CheckedByHandle, MappedByHandle
    <3>2. mapped[o] = 0
      BY <3>1 DEF MappedWithinObject, TypeOK
    <3>3. \A p \in Objects : p # o => (resized'[p] <=> resized[p])
      BY <1>3 DEF TypeOK
    <3>4. CheckedByHandle'
      BY <2>1, <2>3, <3>1, <3>3 DEF CheckedByHandle
    <3>5. MappedByHandle'
      BY <2>1, <2>3, <3>2 DEF MappedByHandle
    <3>6. MappedWithinObject'
      <4> SUFFICES ASSUME NEW p \in Objects
                   PROVE  /\ mapped'[p] <= checked'[p]
                          /\ resized'[p] \/ mapped'[p] <= size'[p]
        BY DEF MappedWithinObject
      <4>1. CASE p = o
        BY <2>1, <2>3, <3>1, <3>2, <4>1
      <4>2. CASE p # o
        BY <2>1, <2>3, <3>3, <4>2 DEF MappedWithinObject
      <4> QED
        BY <4>1, <4>2
    <3> QED
      BY <3>4, <3>5, <3>6
  <2>8. NamedObjectsAreEmpty'
    <3>1. \A name \in Names : named[name] # None => named[name] \in Objects \ {o}
      BY <2>4 DEF TypeOK, HasName
    <3> QED
      BY <2>3, <3>1, ZenonT(60) DEF NamedObjectsAreEmpty
  <2>9. CompleteWhenSent'
    BY <2>3 DEF CompleteWhenSent, OfHelper
  <2> QED
    BY <2>5, <2>6, <2>7, <2>8, <2>9
<1> QED
  BY <1>2, <1>3 DEF Open

\* shm_unlink takes the name back while the object is still empty.
LEMMA UnlinkKeepsInvariant ==
  ASSUME IInv, Unlink
  PROVE  IInv'
<1> USE DEF IInv
<1>1. /\ pc = "opened" /\ pc' = "unlinked"
      /\ UNCHANGED <<pid, counter, lives, object, len, handles, size, resized, pixels,
                     announced, checked, mapped>>
      /\ named' = [name \in Names |-> IF name \in Own THEN None ELSE named[name]]
  BY DEF Unlink, Proceeds, application
<1>2. object \in Objects /\ object # None
  BY <1>1, LengthTypes DEF InTheHand, TypeOK
<1>3. \A name \in Names :
        /\ named'[name] \in {None, named[name]}
        /\ named'[name] # object
  BY <1>1, <1>2 DEF Own
<1>4. TypeOK'
  BY <1>1 DEF TypeOK
<1>5. ~HasName(object)'
  BY <1>1, <1>3 DEF HasName
<1>6. InTheHand'
  BY <1>1, <1>5 DEF InTheHand, InCreate
<1>7. NamedObjectsAreEmpty'
  BY <1>1, <1>3 DEF NamedObjectsAreEmpty
<1>8. CheckedByHandle' /\ MappedByHandle' /\ CompleteWhenSent' /\ MappedWithinObject'
  BY <1>1 DEF CheckedByHandle, MappedByHandle, CompleteWhenSent, MappedWithinObject
<1> QED
  BY <1>4, <1>6, <1>7, <1>8

\* Only an object whose name is gone is given a size.
LEMMA TruncateKeepsInvariant ==
  ASSUME IInv, Truncate
  PROVE  IInv'
<1> USE DEF IInv
<1>1. PICK n \in Lengths \cup {WholePages(len)} : size' = [size EXCEPT ![object] = n]
  BY DEF Truncate
<1>2. /\ pc = "unlinked" /\ pc' = "sized"
      /\ UNCHANGED <<pid, counter, lives, object, len, named, handles, resized, pixels,
                     announced, checked, mapped>>
  BY DEF Truncate, Proceeds, application
<1>3. n \in Nat
  BY LengthTypes, WholePagesType DEF TypeOK
<1>4. object \in Objects /\ ~HasName(object) /\ handles[object] \subseteq OfHelper
  BY <1>2 DEF InTheHand, InCreate, TypeOK
<1>5. \A o \in Objects : size'[o] = IF o = object THEN n ELSE size[o]
  BY <1>1 DEF TypeOK
<1>6. checked[object] = 0 /\ mapped[object] = 0
  <2>1. checked[object] = 0
    BY <1>4 DEF CheckedByHandle, MappedByHandle, OfHelper
  <2> QED
    BY <1>4, <2>1 DEF MappedWithinObject, TypeOK
<1>7. TypeOK'
  BY <1>1, <1>2, <1>3 DEF TypeOK
<1>8. InTheHand'
  BY <1>2 DEF InTheHand, InCreate, HasName
<1>9. NamedObjectsAreEmpty'
  BY <1>2, <1>4, <1>5 DEF NamedObjectsAreEmpty, HasName, TypeOK
<1>10. MappedWithinObject'
  BY <1>2, <1>3, <1>5, <1>6 DEF MappedWithinObject
<1>11. CheckedByHandle' /\ MappedByHandle' /\ CompleteWhenSent'
  BY <1>2, <1>5, <1>6 DEF CheckedByHandle, MappedByHandle, CompleteWhenSent
<1> QED
  BY <1>7, <1>8, <1>9, <1>10, <1>11

\* Map, Fill and Send.
LEMMA MapKeepsInvariant ==
  ASSUME IInv, Map
  PROVE  IInv'
<1> USE DEF IInv
<1>1. /\ pc = "sized" /\ pc' = "mapped"
      /\ UNCHANGED <<pid, counter, lives, object, len, named, size, resized, pixels,
                     announced, checked, mapped>>
      /\ handles' = [handles EXCEPT ![object] = @ \cup {"map"}]
  BY DEF Map, Proceeds, application
<1>2. object \in Objects
  BY <1>1 DEF InTheHand, TypeOK
<1>3. \A o \in Objects :
        handles'[o] = IF o = object THEN handles[o] \cup {"map"} ELSE handles[o]
  BY <1>1 DEF TypeOK
<1>4. TypeOK'
  BY <1>1 DEF TypeOK, Handles
<1>5. InTheHand'
  BY <1>1, <1>2, <1>3 DEF InTheHand, InCreate, OfHelper, HasName
<1>6. CheckedByHandle' /\ MappedByHandle' /\ CompleteWhenSent'
  BY <1>1, <1>3 DEF CheckedByHandle, MappedByHandle, CompleteWhenSent, OfHelper
<1>7. NamedObjectsAreEmpty' /\ MappedWithinObject'
  BY <1>1 DEF NamedObjectsAreEmpty, MappedWithinObject
<1> QED
  BY <1>4, <1>5, <1>6, <1>7

\* The pixels are written in the mapping of the object in hand.
LEMMA FillKeepsInvariant ==
  ASSUME IInv, Fill
  PROVE  IInv'
<1> USE DEF IInv
<1>1. /\ pc = "mapped" /\ pc' = "filled"
      /\ UNCHANGED <<pid, counter, lives, object, len, named, handles, size, resized,
                     announced, checked, mapped>>
      /\ pixels' = [pixels EXCEPT ![object] = TRUE]
  BY DEF Fill, Proceeds, application
<1>2. object \in Objects /\ ~HasName(object)
  BY <1>1 DEF InTheHand, TypeOK
<1>3. \A o \in Objects : pixels'[o] = IF o = object THEN TRUE ELSE pixels[o]
  BY <1>1 DEF TypeOK
<1>4. TypeOK'
  BY <1>1 DEF TypeOK
<1>5. InTheHand'
  BY <1>1, <1>2, <1>3 DEF InTheHand, InCreate, HasName
<1>6. NamedObjectsAreEmpty'
  BY <1>1, <1>2, <1>3 DEF NamedObjectsAreEmpty, HasName, TypeOK
<1>7. CompleteWhenSent'
  BY <1>1, <1>3 DEF CompleteWhenSent
<1>8. CheckedByHandle' /\ MappedByHandle' /\ MappedWithinObject'
  BY <1>1 DEF CheckedByHandle, MappedByHandle, MappedWithinObject
<1> QED
  BY <1>4, <1>5, <1>6, <1>7, <1>8

\* What is sent was filled before, and the helper lets go of it.
LEMMA SendKeepsInvariant ==
  ASSUME IInv, Send
  PROVE  IInv'
<1> USE DEF IInv
<1>1. /\ pc = "filled" /\ pc' = "sent"
      /\ UNCHANGED <<pid, counter, lives, object, len, named, size, resized, pixels,
                     checked, mapped>>
      /\ handles' = [handles EXCEPT ![object] = @ \cup {"socket"}]
  BY DEF Send
<1>2. PICK n \in Lengths : announced' = [announced EXCEPT ![object] = n]
  BY DEF Send
<1>3. /\ object \in Objects /\ pixels[object] /\ ~HasName(object)
      /\ handles[object] \subseteq OfHelper
  BY <1>1 DEF InTheHand, InCreate, TypeOK
<1>4. \A o \in Objects :
        handles'[o] = IF o = object THEN handles[o] \cup {"socket"} ELSE handles[o]
  BY <1>1 DEF TypeOK
<1>5. TypeOK'
  BY <1>1, <1>2 DEF TypeOK, Handles
<1>6. InTheHand'
  BY <1>1, <1>3, <1>4 DEF InTheHand, InCreate, HasName
<1>7. CompleteWhenSent'
  BY <1>1, <1>3, <1>4 DEF CompleteWhenSent
<1>8. CheckedByHandle' /\ MappedByHandle'
  <2>1. checked[object] = 0
    BY <1>3 DEF CheckedByHandle, MappedByHandle, OfHelper
  <2>2. \A o \in Objects : o # object => announced'[o] = announced[o]
    BY <1>2 DEF TypeOK
  <2> QED
    BY <1>1, <1>4, <2>1, <2>2 DEF CheckedByHandle, MappedByHandle
<1>9. NamedObjectsAreEmpty' /\ MappedWithinObject'
  BY <1>1 DEF NamedObjectsAreEmpty, MappedWithinObject
<1> QED
  BY <1>5, <1>6, <1>7, <1>8, <1>9

\* Sizing an object again changes what it holds, never what fstat found in it.
LEMMA ResizeKeepsInvariant ==
  ASSUME IInv, Resize
  PROVE  IInv'
<1> USE DEF IInv
<1>1. PICK n \in Lengths : size' = [size EXCEPT ![object] = n]
  BY DEF Resize
<1>2. /\ pc \in {"sized", "mapped", "filled", "sent"}
      /\ UNCHANGED <<pid, counter, lives, pc, object, len, named, handles, pixels,
                     announced, checked, mapped>>
      /\ resized' = [resized EXCEPT ![object] = @ \/ size[object] # 0]
  BY DEF Resize, helper, application
<1>3. n \in Nat
  BY LengthTypes
<1>4. object \in Objects /\ ~HasName(object)
  BY <1>2 DEF InTheHand, InCreate, TypeOK
<1>5. /\ \A o \in Objects : o # object => size'[o] = size[o] /\ resized'[o] = resized[o]
      /\ size'[object] = n
      /\ resized'[object] <=> resized[object] \/ size[object] # 0
  BY <1>1, <1>2, <1>4 DEF TypeOK
<1>6. TypeOK'
  BY <1>1, <1>2, <1>3 DEF TypeOK
<1>7. InTheHand'
  BY <1>2 DEF InTheHand, InCreate, HasName
<1>8. NamedObjectsAreEmpty'
  BY <1>2, <1>4, <1>5 DEF NamedObjectsAreEmpty, HasName, TypeOK
<1>9. ~resized'[object] => checked[object] = 0 /\ mapped[object] = 0
  <2> SUFFICES ASSUME ~resized'[object]
               PROVE  checked[object] = 0 /\ mapped[object] = 0
    OBVIOUS
  <2>1. ~resized[object] /\ size[object] = 0
    BY <1>5
  <2>2. checked[object] = 0
    BY <1>4, <2>1 DEF CheckedByHandle, MappedByHandle, TypeOK
  <2> QED
    BY <1>4, <2>2 DEF MappedWithinObject, TypeOK
<1>10. CheckedByHandle' /\ MappedByHandle'
  BY <1>2, <1>4, <1>5, <1>9 DEF CheckedByHandle, MappedByHandle
<1>11. MappedWithinObject'
  BY <1>2, <1>3, <1>4, <1>5, <1>9 DEF MappedWithinObject
<1>12. CompleteWhenSent'
  BY <1>2 DEF CompleteWhenSent
<1> QED
  BY <1>6, <1>7, <1>8, <1>10, <1>11, <1>12

\* Whatever part of a SharedBuffer exists is given back when it is dropped.
LEMMA FailsKeepsInvariant ==
  ASSUME IInv, NEW at \in (InCreate \cup {"sent"}), Fails(at)
  PROVE  IInv'
<1> USE DEF IInv
<1>1. /\ pc = at /\ pc' = "idle" /\ object' = None /\ len' = 0
      /\ UNCHANGED <<pid, counter, lives, named, size, resized, pixels,
                     announced, checked, mapped>>
      /\ handles' = [handles EXCEPT ![object] = @ \ OfHelper]
  BY DEF Fails, Drop, application
<1>2. \A o \in Objects :
        /\ handles'[o] \subseteq handles[o]
        /\ handles'[o] \ OfHelper = handles[o] \ OfHelper
        /\ handles'[o] \cap OfHelper = {}
  BY <1>1 DEF TypeOK, InTheHand
<1>3. TypeOK'
  BY <1>1 DEF TypeOK, Handles
<1>4. InTheHand'
  BY <1>1, <1>2 DEF InTheHand, InCreate
<1>5. CheckedByHandle' /\ MappedByHandle'
  BY <1>1, <1>2 DEF CheckedByHandle, MappedByHandle, OfHelper
<1>6. CompleteWhenSent'
  BY <1>1, <1>2 DEF CompleteWhenSent
<1>7. NamedObjectsAreEmpty' /\ MappedWithinObject'
  BY <1>1 DEF NamedObjectsAreEmpty, MappedWithinObject
<1> QED
  BY <1>3, <1>4, <1>5, <1>6, <1>7

\* The kernel gives back what a dead helper held, and nothing else.
LEMMA HelperEndsKeepsInvariant ==
  ASSUME IInv, HelperEnds
  PROVE  IInv'
<1> USE DEF IInv
<1>1. /\ pid' = None /\ pc' = "idle" /\ object' = None /\ len' = 0
      /\ UNCHANGED <<counter, lives, named, size, resized, pixels,
                     announced, checked, mapped>>
      /\ handles' = [o \in Objects |-> handles[o] \ OfHelper]
  BY DEF HelperEnds, application
<1>2. \A o \in Objects : handles'[o] = handles[o] \ OfHelper
  BY <1>1
<1>3. TypeOK'
  BY <1>1 DEF TypeOK
<1>4. InTheHand'
  BY <1>1, <1>2 DEF InTheHand, InCreate
<1>5. CheckedByHandle' /\ MappedByHandle'
  BY <1>1, <1>2 DEF CheckedByHandle, MappedByHandle, OfHelper
<1>6. CompleteWhenSent'
  BY <1>1, <1>2 DEF CompleteWhenSent
<1>7. NamedObjectsAreEmpty' /\ MappedWithinObject'
  BY <1>1 DEF NamedObjectsAreEmpty, MappedWithinObject
<1> QED
  BY <1>3, <1>4, <1>5, <1>6, <1>7

-----------------------------------------------------------------------------
(* The application, and the whole system                                   *)

\* The application's steps leave the helper's handles, and the names, alone.
LEMMA ApplicationKeepsHand ==
  ASSUME IInv, NEW o \in Objects, UNCHANGED <<helper, named, size, resized, pixels>>,
         NEW S, S \cap OfHelper = {},
         handles' = [handles EXCEPT ![o] = (@ \cap OfHelper) \cup S],
         handles[o] \ OfHelper # {}
  PROVE  InTheHand'
<1>1. \A p \in Objects : handles'[p] \cap OfHelper = handles[p] \cap OfHelper
  BY DEF IInv, TypeOK
<1>2. pc \in InCreate => handles'[object] = handles[object]
  BY DEF IInv, TypeOK, InTheHand, helper
<1> QED
  BY <1>1, <1>2 DEF IInv, InTheHand, HasName, helper, InCreate

\* Receiving an object changes nothing of what is in it.
LEMMA ReceiveKeepsInvariant ==
  ASSUME IInv, NEW o \in Objects, Receive(o)
  PROVE  IInv'
<1> USE DEF IInv
<1>1. /\ UNCHANGED <<helper, named, size, resized, pixels, application>>
      /\ "socket" \in handles[o]
      /\ handles' = [handles EXCEPT ![o] = (@ \ {"socket"}) \cup {"app_fd"}]
  BY DEF Receive
<1>2. \A p \in Objects : handles'[p] =
        IF p = o THEN (handles[o] \ {"socket"}) \cup {"app_fd"} ELSE handles[p]
  BY <1>1 DEF TypeOK
<1>3. TypeOK'
  BY <1>1 DEF TypeOK, Handles, helper, application
<1>4. InTheHand'
  <2> DEFINE S == ((handles[o] \ OfHelper) \ {"socket"}) \cup {"app_fd"}
  <2>1. (handles[o] \ {"socket"}) \cup {"app_fd"} = (handles[o] \cap OfHelper) \cup S
    BY DEF OfHelper
  <2>2. handles' = [handles EXCEPT ![o] = (@ \cap OfHelper) \cup S]
    BY <1>1, <2>1
  <2>3. S \cap OfHelper = {} /\ handles[o] \ OfHelper # {}
    BY <1>1 DEF OfHelper
  <2> HIDE DEF S
  <2> QED
    BY <1>1, <2>2, <2>3, ApplicationKeepsHand
<1>5. CompleteWhenSent'
  BY <1>1, <1>2 DEF CompleteWhenSent, OfHelper
<1>6. CheckedByHandle' /\ MappedByHandle'
  BY <1>1, <1>2 DEF CheckedByHandle, MappedByHandle, application
<1>7. NamedObjectsAreEmpty' /\ MappedWithinObject'
  BY <1>1 DEF NamedObjectsAreEmpty, MappedWithinObject, application
<1> QED
  BY <1>3, <1>4, <1>5, <1>6, <1>7

\* fstat reads the size the object has at that moment.
LEMMA StatKeepsInvariant ==
  ASSUME IInv, NEW o \in Objects, Stat(o)
  PROVE  IInv'
<1> USE DEF IInv
<1>1. /\ UNCHANGED <<helper, memory, announced, mapped>>
      /\ "app_fd" \in handles[o] /\ "app_map" \notin handles[o]
      /\ size[o] >= announced[o]
      /\ checked' = [checked EXCEPT ![o] = size[o]]
  BY DEF Stat
<1>2. \A p \in Objects : checked'[p] = IF p = o THEN size[o] ELSE checked[p]
  BY <1>1 DEF TypeOK
<1>3. mapped[o] = 0
  BY <1>1 DEF MappedByHandle
<1>4. TypeOK'
  BY <1>1 DEF TypeOK, helper, memory
<1>5. InTheHand' /\ MappedByHandle'
  BY <1>1 DEF InTheHand, InCreate, HasName, MappedByHandle, helper, memory
<1>6. CheckedByHandle'
  BY <1>1, <1>2 DEF CheckedByHandle, memory, TypeOK
<1>7. MappedWithinObject'
  BY <1>1, <1>2, <1>3 DEF MappedWithinObject, memory, TypeOK
<1>8. NamedObjectsAreEmpty' /\ CompleteWhenSent'
  BY <1>1 DEF NamedObjectsAreEmpty, CompleteWhenSent, memory
<1> QED
  BY <1>4, <1>5, <1>6, <1>7, <1>8

\* What the application maps is within what fstat found.
LEMMA MapReceivedKeepsInvariant ==
  ASSUME IInv, NEW o \in Objects, MapReceived(o)
  PROVE  IInv'
<1> USE DEF IInv
<1> DEFINE n == Mapped(announced[o], checked[o])
<1>1. /\ UNCHANGED <<helper, named, size, resized, pixels, announced, checked>>
      /\ "app_fd" \in handles[o] /\ checked[o] # 0 /\ checked[o] >= announced[o]
      /\ mapped' = [mapped EXCEPT ![o] = n]
      /\ handles' = [handles EXCEPT ![o] = @ \cup {"app_map"}]
  BY DEF MapReceived, CheckedByHandle, TypeOK
<1>2. n \in Nat /\ n <= checked[o]
  BY <1>1, MappedFits, LengthTypes DEF TypeOK
<1> HIDE DEF n
<1>3. /\ \A p \in Objects : handles'[p] =
           IF p = o THEN handles[o] \cup {"app_map"} ELSE handles[p]
      /\ \A p \in Objects : mapped'[p] = IF p = o THEN n ELSE mapped[p]
  BY <1>1 DEF TypeOK
<1>4. TypeOK'
  BY <1>1, <1>2 DEF TypeOK, Handles, helper
<1>5. InTheHand'
  <2> DEFINE S == (handles[o] \ OfHelper) \cup {"app_map"}
  <2>1. handles[o] \cup {"app_map"} = (handles[o] \cap OfHelper) \cup S
    OBVIOUS
  <2>2. handles' = [handles EXCEPT ![o] = (@ \cap OfHelper) \cup S]
    BY <1>1, <2>1
  <2>3. S \cap OfHelper = {} /\ handles[o] \ OfHelper # {}
    BY <1>1 DEF OfHelper
  <2> HIDE DEF S
  <2> QED
    BY <1>1, <2>2, <2>3, ApplicationKeepsHand
<1>6. CompleteWhenSent'
  BY <1>1, <1>3 DEF CompleteWhenSent, OfHelper
<1>7. CheckedByHandle' /\ MappedByHandle'
  BY <1>1, <1>3 DEF CheckedByHandle, MappedByHandle
<1>9. MappedWithinObject'
  <2>1. resized[o] \/ n <= size[o]
    BY <1>1, <1>2 DEF CheckedByHandle, TypeOK
  <2> QED
    BY <1>1, <1>2, <1>3, <2>1 DEF MappedWithinObject
<1>8. NamedObjectsAreEmpty'
  BY <1>1 DEF NamedObjectsAreEmpty
<1> QED
  BY <1>4, <1>5, <1>6, <1>7, <1>8, <1>9

\* Releasing one object leaves the others as they were.
LEMMA ReleaseKeepsInvariant ==
  ASSUME IInv, NEW o \in Objects, Release(o)
  PROVE  IInv'
<1> USE DEF IInv
<1>1. /\ UNCHANGED <<helper, named, size, resized, pixels, announced>>
      /\ handles[o] \ OfHelper # {}
      /\ checked' = [checked EXCEPT ![o] = 0]
      /\ mapped' = [mapped EXCEPT ![o] = 0]
      /\ handles' = [handles EXCEPT ![o] = @ \cap OfHelper]
  BY DEF Release
<1>2. /\ \A p \in Objects : handles'[p] =
           IF p = o THEN handles[o] \cap OfHelper ELSE handles[p]
      /\ \A p \in Objects : checked'[p] = IF p = o THEN 0 ELSE checked[p]
      /\ \A p \in Objects : mapped'[p] = IF p = o THEN 0 ELSE mapped[p]
  BY <1>1 DEF TypeOK
<1>3. TypeOK'
  BY <1>1 DEF TypeOK, Handles, helper
<1>4. InTheHand'
  BY <1>1, ApplicationKeepsHand
<1>5. CompleteWhenSent'
  BY <1>1, <1>2 DEF CompleteWhenSent
<1>6. CheckedByHandle' /\ MappedByHandle' /\ MappedWithinObject'
  BY <1>1, <1>2 DEF CheckedByHandle, MappedByHandle, MappedWithinObject, TypeOK
<1>7. NamedObjectsAreEmpty'
  BY <1>1 DEF NamedObjectsAreEmpty
<1> QED
  BY <1>3, <1>4, <1>5, <1>6, <1>7

\* At first there are no names and no objects.
LEMMA InitInvariant == Init => IInv
<1> SUFFICES ASSUME Init PROVE IInv
  OBVIOUS
<1>1. TypeOK
  BY LengthTypes, SharedMemoryAssumption DEF Init, TypeOK
<1>2. InTheHand /\ CheckedByHandle /\ MappedByHandle
  BY DEF Init, InTheHand, InCreate, CheckedByHandle, MappedByHandle
<1>3. NamedObjectsAreEmpty /\ CompleteWhenSent /\ MappedWithinObject
  BY DEF Init, NamedObjectsAreEmpty, CompleteWhenSent, MappedWithinObject
<1> QED
  BY <1>1, <1>2, <1>3 DEF IInv

\* Every step keeps the invariant.
LEMMA NextKeepsInvariant == IInv /\ [Next]_vars => IInv'
<1> SUFFICES ASSUME IInv, [Next]_vars PROVE IInv'
  OBVIOUS
<1>1. CASE Spawn
  <2>1. TypeOK'
    BY <1>1, LengthTypes, SharedMemoryAssumption
    DEF IInv, TypeOK, Spawn, memory, application
  <2> QED
    BY <1>1, <2>1 DEF IInv, Spawn, memory, application, InTheHand, CheckedByHandle,
                      MappedByHandle, HasName, InCreate, NamedObjectsAreEmpty, CompleteWhenSent, MappedWithinObject
<1>2. CASE HelperStep
  <2>1. CASE Open
    BY <2>1, OpenKeepsInvariant
  <2>2. CASE Unlink \/ Truncate
    BY <2>2, UnlinkKeepsInvariant, TruncateKeepsInvariant
  <2>3. CASE Map \/ Fill \/ Send \/ Resize
    BY <2>3, MapKeepsInvariant, FillKeepsInvariant, SendKeepsInvariant,
       ResizeKeepsInvariant
  <2>4. CASE Dropped \/ \E at \in {"opened", "unlinked", "sized", "mapped"} : Fails(at)
    BY <2>4, FailsKeepsInvariant DEF Dropped, InCreate
  <2> QED
    BY <1>2, <2>1, <2>2, <2>3, <2>4 DEF HelperStep
<1>3. CASE HelperEnds
  BY <1>3, HelperEndsKeepsInvariant
<1>4. ASSUME NEW o \in Objects, Receive(o) \/ Stat(o) \/ MapReceived(o) \/ Release(o)
      PROVE  IInv'
  BY <1>4, ReceiveKeepsInvariant, StatKeepsInvariant, MapReceivedKeepsInvariant,
     ReleaseKeepsInvariant
<1>5. CASE UNCHANGED vars
  <2>1. TypeOK'
    BY <1>5 DEF IInv, TypeOK, vars, helper, memory, application
  <2> QED
    BY <1>5, <2>1 DEF IInv, vars, helper, memory, application, InTheHand, CheckedByHandle,
         MappedByHandle, HasName, NamedObjectsAreEmpty, CompleteWhenSent, MappedWithinObject
<1> QED
  BY <1>1, <1>2, <1>3, <1>4, <1>5 DEF Next, Finished

\* The inductive invariant holds throughout.
THEOREM InductiveInvariant == Spec => []IInv
<1>1. Init => IInv
  BY InitInvariant
<1>2. IInv /\ [Next]_vars => IInv'
  BY NextKeepsInvariant
<1> QED
  BY <1>1, <1>2, PTL DEF Spec

\* Every variable keeps its type.
THEOREM TypeCorrect == Spec => []TypeOK
<1>1. IInv => TypeOK
  BY DEF IInv
<1> QED
  BY <1>1, InductiveInvariant, PTL

\* Wherever create() fails or the helper dies, a name that is left leads to no
\* pixel: for any number of helpers, objects and process numbers that repeat.
THEOREM NamesLeadNowhere == Spec => []NamedObjectsAreEmpty
<1>1. IInv => NamedObjectsAreEmpty
  BY DEF IInv
<1> QED
  BY <1>1, InductiveInvariant, PTL

\* What travels in the socket, or has arrived, holds all its pixels.
THEOREM SentIsComplete == Spec => []CompleteWhenSent
<1>1. IInv => CompleteWhenSent
  BY DEF IInv
<1> QED
  BY <1>1, InductiveInvariant, PTL

\* Every return of create() and of the decoders gives the buffer back.
THEOREM BuffersGivenBack == Spec => []NothingHeldBetweenBuffers
<1>1. IInv => NothingHeldBetweenBuffers
  BY LengthTypes DEF IInv, InTheHand, NothingHeldBetweenBuffers
<1> QED
  BY <1>1, InductiveInvariant, PTL

\* Whatever length a peer announces, and whatever it does between the application's
\* fstat and its mmap, the application maps no more than fstat found; of an object
\* that was given its size once it maps no byte past the end, for as long as the
\* mapping lasts.
THEOREM MappingsFit == Spec => []MappedWithinObject
<1>1. IInv => MappedWithinObject
  BY DEF IInv
<1> QED
  BY <1>1, InductiveInvariant, PTL
=============================================================================
