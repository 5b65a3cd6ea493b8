--------------------------- MODULE MessageStream ---------------------------
(***************************************************************************)
(* What one direction of a Channel promises to its two callers: messages   *)
(* arrive whole, once, in order, each with its own descriptor, until one   *)
(* of them cannot be read or an end closes.  This is the view module       *)
(* Helper takes of the socket.                                             *)
(***************************************************************************)
EXTENDS Naturals, Sequences

CONSTANTS Frames, None

VARIABLES
  sent,     \* messages wholly written
  received, \* messages returned by recv(), with the descriptor returned
  outcome   \* "open", or how the receiver ended: "eof" or "error"

vars == <<sent, received, outcome>>

Init == sent = <<>> /\ received = <<>> /\ outcome = "open"

Put ==
  /\ \E m \in Frames : sent' = Append(sent, m)
  /\ UNCHANGED <<received, outcome>>

Get ==
  /\ outcome = "open"
  /\ Len(received) < Len(sent)
  /\ LET m == sent[Len(received) + 1]
     IN  /\ m.valid
         /\ received' = Append(received, [message |-> m, fd |-> m.fd])
  /\ UNCHANGED <<sent, outcome>>

\* The end of the stream is met only when nothing whole is left to receive.
Eof ==
  /\ outcome = "open"
  /\ Len(received) = Len(sent)
  /\ outcome' = "eof"
  /\ UNCHANGED <<sent, received>>

Break ==
  /\ outcome = "open"
  /\ outcome' = "error"
  /\ UNCHANGED <<sent, received>>

Next == Put \/ Get \/ Eof \/ Break

Spec == Init /\ [][Next]_vars
=============================================================================
