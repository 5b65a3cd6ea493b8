----------------------------- MODULE RawService -----------------------------
(***************************************************************************)
(* What the helper promises to the application, without descriptors,       *)
(* buffers or decoders: a service that answers requests one at a time, in  *)
(* order, and keeps a table from ids to files.  It may refuse or fail what *)
(* it is asked, and stop at any moment, but it never answers with the      *)
(* pixels of another file and never fills more than MAX_OPEN_FILES places. *)
(***************************************************************************)
EXTENDS Protocol

VARIABLES
  requests, \* all that was asked
  replies,  \* all that was answered
  bound,    \* the file each id names, or None
  pending,  \* the answer being sent, or None
  stopped

vars == <<requests, replies, bound, pending, stopped>>

Init ==
  /\ requests = <<>>
  /\ replies = <<>>
  /\ bound = [id \in Ids |-> None]
  /\ pending = None
  /\ stopped = FALSE

Submit ==
  /\ \E m \in Message : requests' = Append(requests, m)
  /\ UNCHANGED <<replies, bound, pending, stopped>>

Asked == requests[Len(replies) + 1]

\* The answer is one of the replies, with these pixels.
Answered(kinds, pixels) == pending' \in [reply : kinds, attached : {pixels}]

Failure(id) == [kind : {"Failed"}, id : {id}, error : SUBSET Reason]
Success(kind, id) == [kind : {kind}, id : {id}]

Greet ==
  /\ Asked.request.op = "Hello"
  /\ Answered([kind : {"Hello"}, version : {PROTOCOL_VERSION},
               sandboxed : BOOLEAN], None)
  /\ UNCHANGED bound

SelfTest ==
  /\ Asked.request.op = "SandboxCheck"
  /\ Answered([kind : {"SandboxCheck"}, sandboxed : BOOLEAN,
               escapes : SUBSET Probes], None)
  /\ UNCHANGED bound

Refuse ==
  /\ Asked.request.op \in {"Open", "Preview", "Sensor"}
  /\ Answered(Failure(Asked.request.id), None)
  /\ UNCHANGED bound

Bind ==
  /\ Asked.request.op = "Open"
  /\ Asked.attached # None
  /\ Cardinality({id \in Ids : bound[id] # None}) < MAX_OPEN_FILES
  /\ Answered(Success("Opened", Asked.request.id), None)
  /\ bound' = [bound EXCEPT ![Asked.request.id] = Asked.attached]

GivePixels ==
  /\ Asked.request.op \in {"Preview", "Sensor"}
  /\ bound[Asked.request.id] # None
  /\ Answered(Success(Asked.request.op, Asked.request.id),
              bound[Asked.request.id])
  /\ UNCHANGED bound

Unbind ==
  /\ Asked.request.op = "Close"
  /\ Answered(Success("Closed", Asked.request.id), None)
  /\ bound' = [bound EXCEPT ![Asked.request.id] = None]

Serve ==
  /\ ~stopped
  /\ pending = None
  /\ Len(replies) < Len(requests)
  /\ Greet \/ SelfTest \/ Refuse \/ Bind \/ GivePixels \/ Unbind
  /\ UNCHANGED <<requests, replies, stopped>>

Publish ==
  /\ pending # None
  /\ replies' = Append(replies, pending)
  /\ pending' = None
  /\ UNCHANGED <<requests, bound, stopped>>

Stop ==
  /\ stopped' = TRUE
  /\ pending' = None
  /\ bound' = [id \in Ids |-> None]
  /\ UNCHANGED <<requests, replies>>

Next == Submit \/ Serve \/ Publish \/ Stop

Spec == Init /\ [][Next]_vars
=============================================================================
