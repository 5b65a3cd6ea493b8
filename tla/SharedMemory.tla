---------------------------- MODULE SharedMemory ----------------------------
(***************************************************************************)
(* Shared memory, protocol/src/shm.rs: SharedBuffer::create() and the life *)
(* of a buffer in the helper, call by call, map_received() in the          *)
(* application (its fstat and its mmap apart), and the kernel's objects    *)
(* between them, across crashes and restarts of the helper with process    *)
(* numbers that come back.                                                 *)
(*                                                                         *)
(* Lengths are in bytes; an object lives while it has a name or a handle.  *)
(***************************************************************************)
EXTENDS Layouts, FiniteSets

CONSTANTS
  Pids,      \* process numbers a helper may be given
  Lengths,   \* of the buffers asked for
  Objects,   \* the kernel's shared memory objects
  Foreign,   \* may a helper size, announce or resize as create() would not?
  MaxLives,  \* bound: helpers started
  None

ASSUME SharedMemoryAssumption ==
  /\ Lengths \subseteq 0 .. USIZE - 1
  /\ Foreign \in BOOLEAN
  /\ MaxLives \in Nat
  /\ None \notin Pids \cup Objects

Names == Pids \X (0 .. U32 - 1)

\* Who keeps an object alive: the helper's descriptor and mapping, a descriptor
\* travelling in the socket, the application's descriptor and mapping.
Handles == {"fd", "map", "socket", "app_fd", "app_map"}
OfHelper == {"fd", "map"}

VARIABLES
  pid,       \* of the running helper, or None
  counter,   \* its COUNTER
  lives,     \* helpers started
  pc,        \* where the helper is in the life of a buffer
  object,    \* the object of the SharedBuffer in hand, or None
  len,       \* the length asked for
  named,     \* what each name refers to: an object or None
  handles,   \* [Objects -> SUBSET Handles]
  size,      \* of each object
  resized,   \* history: was an object that had a size given another
  pixels,    \* has the helper written all the pixels of each object
  announced, \* the length sent along with each object
  checked,   \* the size fstat found in the object about to be mapped, or 0
  mapped     \* the length the application maps of each object, or 0

helper == <<pid, counter, lives, pc, object, len>>
memory == <<named, handles, size, resized, pixels>>
application == <<announced, checked, mapped>>
vars == <<helper, memory, application>>

-----------------------------------------------------------------------------
HasName(o) == \E name \in Names : named[name] = o
Unused(o) == handles[o] = {} /\ ~HasName(o)

Init ==
  /\ pid = None /\ counter = 0 /\ lives = 0
  /\ pc = "idle" /\ object = None /\ len = 0
  /\ named = [name \in Names |-> None]
  /\ handles = [o \in Objects |-> {}]
  /\ size = [o \in Objects |-> 0]
  /\ resized = [o \in Objects |-> FALSE]
  /\ pixels = [o \in Objects |-> FALSE]
  /\ announced = [o \in Objects |-> 0]
  /\ checked = [o \in Objects |-> 0]
  /\ mapped = [o \in Objects |-> 0]

\* The application starts a helper.
Spawn ==
  /\ pid = None
  /\ lives < MaxLives
  /\ pid' \in Pids
  /\ counter' = 0
  /\ lives' = lives + 1
  /\ UNCHANGED <<pc, object, len, memory, application>>

\* Mutant: an early return closes the descriptor and forgets the mapping.
DropDescriptor(o) ==
  /\ handles' = [handles EXCEPT ![o] = @ \ {"fd"}]
  /\ object' = None
  /\ len' = 0
  /\ pc' = "idle"

\* The SharedBuffer, or what there is of it, is dropped.
Drop(o) ==
  /\ handles' = [handles EXCEPT ![o] = @ \ OfHelper]
  /\ object' = None
  /\ len' = 0
  /\ pc' = "idle"

\* create() fails, or the decoder that fills the buffer does.
Fails(at) ==
  /\ pc = at
  /\ Drop(object)
  /\ UNCHANGED <<pid, counter, lives, named, size, resized, pixels, application>>

Proceeds(at, next) ==
  /\ pc = at
  /\ pc' = next
  /\ UNCHANGED <<pid, counter, lives, object, len, application>>

\* Mutant: the counter does not wrap.
CounterUnwrapped == counter + 1

\* COUNTER.fetch_add(1), which wraps.
NextCounter == (counter + 1) % U32

\* shm_open: a name of its own, which must be new; a name taken, or another
\* refusal, is an error.
Open ==
  /\ pid # None
  /\ pc = "idle"
  /\ \E n \in Lengths \ {0} :
       /\ counter' = NextCounter
       /\ \/ UNCHANGED <<pc, object, len, memory>>
          \/ \E o \in Objects :
               /\ named[<<pid, counter>>] = None
               /\ Unused(o)
               /\ named' = [named EXCEPT ![<<pid, counter>>] = o]
               /\ handles' = [handles EXCEPT ![o] = {"fd"}]
               /\ size' = [size EXCEPT ![o] = 0]
               /\ resized' = [resized EXCEPT ![o] = FALSE]
               /\ pixels' = [pixels EXCEPT ![o] = FALSE]
               /\ object' = o
               /\ len' = n
               /\ pc' = "opened"
  /\ UNCHANGED <<pid, lives, application>>

Own == {name \in Names : named[name] = object}

\* Mutant: the name is removed last, once the object has its size.
UnlinkLate ==
  /\ Proceeds("opened", "unlinked")
  /\ UNCHANGED memory

Unlink ==
  /\ Proceeds("opened", "unlinked")
  /\ named' = [name \in Names |-> IF name \in Own THEN None ELSE named[name]]
  /\ UNCHANGED <<handles, size, resized, pixels>>

Truncate ==
  /\ Proceeds("unlinked", "sized")
  /\ \E n \in Lengths \cup {WholePages(len)} :
       /\ n = WholePages(len) \/ Foreign
       /\ size' = [size EXCEPT ![object] = n]
  /\ UNCHANGED <<named, handles, resized, pixels>>

\* Mutant: the reply leaves before the decoder has written its pixels.
MapUnfilled ==
  /\ Proceeds("sized", "filled")
  /\ handles' = [handles EXCEPT ![object] = @ \cup {"map"}]
  /\ UNCHANGED <<named, size, resized, pixels>>

Map ==
  /\ Proceeds("sized", "mapped")
  /\ handles' = [handles EXCEPT ![object] = @ \cup {"map"}]
  /\ UNCHANGED <<named, size, resized, pixels>>

\* The decoder copies its pixels into the buffer.
Fill ==
  /\ Proceeds("mapped", "filled")
  /\ pixels' = [pixels EXCEPT ![object] = TRUE]
  /\ UNCHANGED <<named, handles, size, resized>>

\* The reply leaves with the descriptor and the announced length.
Send ==
  /\ pc = "filled"
  /\ pc' = "sent"
  /\ handles' = [handles EXCEPT ![object] = @ \cup {"socket"}]
  /\ \E n \in Lengths :
       /\ n = len \/ Foreign
       /\ announced' = [announced EXCEPT ![object] = n]
  /\ UNCHANGED <<pid, counter, lives, object, len, named, size, resized, pixels, checked,
                 mapped>>

\* A foreign helper uses the descriptor it keeps to size its object again, at any
\* moment after create()'s ftruncate: before or after it sent it, while the
\* application checks it, maps it or uses it.  A system may refuse to size an object
\* twice (macOS does); create() never does it.
Resize ==
  /\ Foreign
  /\ pc \in {"sized", "mapped", "filled", "sent"}
  /\ \E n \in Lengths : size' = [size EXCEPT ![object] = n]
  /\ resized' = [resized EXCEPT ![object] = @ \/ size[object] # 0]
  /\ UNCHANGED <<helper, named, handles, pixels, application>>

\* The buffer is dropped after its reply.
Dropped == Fails("sent")

\* The helper ends: exit, crash, kill, at any moment.
HelperEnds ==
  /\ pid # None
  /\ pid' = None
  /\ handles' = [o \in Objects |-> handles[o] \ OfHelper]
  /\ pc' = "idle" /\ object' = None /\ len' = 0
  /\ UNCHANGED <<counter, lives, named, size, resized, pixels, application>>

HelperStep ==
  \/ Open \/ Unlink \/ Truncate \/ Map \/ Fill \/ Send \/ Resize \/ Dropped
  \/ \E at \in {"opened", "unlinked", "sized", "mapped"} : Fails(at)

-----------------------------------------------------------------------------
(* The application                                                         *)

Receive(o) ==
  /\ "socket" \in handles[o]
  /\ handles' = [handles EXCEPT ![o] = (@ \ {"socket"}) \cup {"app_fd"}]
  /\ UNCHANGED <<helper, named, size, resized, pixels, application>>

\* Mutant: whole pages are mapped whatever the object holds.
MappedPages(n, held) == WholePages(n)

\* What map_received() maps of an object that holds `held` bytes.
Mapped(n, held) == IF held >= WholePages(n) THEN WholePages(n) ELSE n

\* map_received(): the object's own size decides.
Stat(o) ==
  /\ handles[o] \cap {"app_fd", "app_map"} = {"app_fd"}
  /\ announced[o] # 0
  /\ size[o] >= announced[o]
  /\ checked' = [checked EXCEPT ![o] = size[o]]
  /\ UNCHANGED <<helper, memory, announced, mapped>>

\* The mapping is made with the size that was read, whatever the object has by now.
MapReceived(o) ==
  /\ checked[o] # 0
  /\ "app_map" \notin handles[o]
  /\ mapped' = [mapped EXCEPT ![o] = Mapped(announced[o], checked[o])]
  /\ handles' = [handles EXCEPT ![o] = @ \cup {"app_map"}]
  /\ UNCHANGED <<helper, named, size, resized, pixels, announced, checked>>

\* The application is done with the object, or never mapped it, or closed the
\* socket that held it.
Release(o) ==
  /\ handles[o] \ OfHelper # {}
  /\ handles' = [handles EXCEPT ![o] = @ \cap OfHelper]
  /\ checked' = [checked EXCEPT ![o] = 0]
  /\ mapped' = [mapped EXCEPT ![o] = 0]
  /\ UNCHANGED <<helper, named, size, resized, pixels, announced>>

Finished ==
  /\ pid = None
  /\ lives = MaxLives
  /\ \A o \in Objects : handles[o] = {}
  /\ UNCHANGED vars

Next ==
  \/ Spawn \/ HelperStep \/ HelperEnds
  \/ \E o \in Objects : Receive(o) \/ Stat(o) \/ MapReceived(o) \/ Release(o)
  \/ Finished

Spec == Init /\ [][Next]_vars
-----------------------------------------------------------------------------
(* Properties                                                              *)

\* Every variable has its type.
TypeOK ==
  /\ pid \in Pids \cup {None}
  /\ counter \in 0 .. U32 - 1
  /\ lives \in 0 .. MaxLives
  /\ pc \in {"idle", "opened", "unlinked", "sized", "mapped", "filled", "sent"}
  /\ object \in Objects \cup {None}
  /\ len \in Lengths \cup {0}
  /\ named \in [Names -> Objects \cup {None}]
  /\ handles \in [Objects -> SUBSET Handles]
  /\ size \in [Objects -> Nat]
  /\ resized \in [Objects -> BOOLEAN]
  /\ pixels \in [Objects -> BOOLEAN]
  /\ announced \in [Objects -> Lengths \cup {0}]
  /\ checked \in [Objects -> Nat]
  /\ mapped \in [Objects -> Nat]

\* create() unlinks before it sizes: whatever call fails and wherever the
\* helper dies, a name that is left over leads to an object without a byte, so
\* no pixel can be reached by name and no memory is lost with it.
NamedObjectsAreEmpty ==
  \A name \in Names :
    named[name] # None => size[named[name]] = 0 /\ ~pixels[named[name]]

\* The comment of map_received(): the helper finished writing before replying.
\* All the pixels of what travels or has arrived are written, even when the helper
\* died since.
CompleteWhenSent ==
  \A o \in Objects : handles[o] \ OfHelper # {} => pixels[o]

\* Whatever length the reply announced and whatever size the object was given, and
\* whatever its sender does between the application's fstat and its mmap, the
\* application maps no more than fstat found; and no byte past the end of the object
\* for as long as it is mapped, unless the sender changed a size the object already
\* had (see README.md: fstat before mmap cannot see that).
MappedWithinObject ==
  \A o \in Objects : /\ mapped[o] <= checked[o]
                     /\ resized[o] \/ mapped[o] <= size[o]

\* Between two buffers the helper holds neither a descriptor nor a mapping:
\* every early return of create() and of the decoders gives back both.
NothingHeldBetweenBuffers ==
  pc = "idle" => \A o \in Objects : handles[o] \cap OfHelper = {}

\* protocol/src/shm.rs: the object "has no name while in use and disappears
\* with its last descriptor or mapping".
DisappearsWithLastHandle == \A o \in Objects : handles[o] = {} => ~HasName(o)
=============================================================================
