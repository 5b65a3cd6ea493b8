------------------------------ MODULE Session ------------------------------
(***************************************************************************)
(* The application's session with its helpers, one after the other: the    *)
(* service of module RawService (which Helper implements) behind a socket, *)
(* and an application that pipelines, gives up the file that cost it a     *)
(* helper and starts another one.                                          *)
(*                                                                         *)
(* A request is a few bytes: the socket holds some whole ones.  A reply    *)
(* that describes a file may be larger than the socket: replies are        *)
(* written, and read, in parts, and send() waits for room in the middle    *)
(* of one.  A part is what a short reply takes.                            *)
(*                                                                         *)
(* The application is not in this repository: it is what README.md ("a     *)
(* crash or a hang only costs the file being read: the application         *)
(* restarts the helper"), alloc.rs and main.rs expect of it.  send() and   *)
(* recv() borrow the channel exclusively, so it writes or reads, never     *)
(* both; only its timer runs beside.  An id is the file it names.          *)
(***************************************************************************)
EXTENDS RawService

CONSTANTS
  Crashing, \* files that may take the helper down
  Slow,     \* files that may keep it for longer than the application waits
  ToHelper, \* requests the socket holds
  ToApp,    \* parts of replies the socket holds
  Sizes     \* in parts, of a reply that describes a file

ASSUME SessionAssumption ==
  /\ Ids = Files
  /\ Crashing \cup Slow \subseteq Files
  /\ ToHelper \in Nat \ {0}
  /\ ToApp \in Nat \ {0}
  /\ Sizes \subseteq Nat \ {0}

VARIABLES
  parts,   \* of a reply that describes a file
  put,     \* parts this helper has written in the socket
  got,     \* parts the application has read
  edges,   \* the n-th reply is the parts from edges[n] to edges[n + 1]
  read,    \* replies the application has received from this helper
  sending, \* the message it is writing, or None
  timed,   \* does it have a timer (else no file is slow)
  suspect, \* the request it waited for too long, 0 when there is none
  settled  \* of each file: "waiting", "read" or "given_up"

stream == <<parts, put, got, edges>>
application == <<read, sending, timed, suspect, settled>>
sessionVars == <<vars, stream, application>>

SessionInit ==
  /\ Init
  /\ parts \in Sizes /\ put = 0 /\ got = 0 /\ edges = <<0>>
  /\ read = 0 /\ sending = None /\ timed \in BOOLEAN /\ suspect = 0
  /\ settled = [f \in Files |-> "waiting"]

\* Requests in the socket: of those not answered, the helper has one.
Unserved == Len(requests) - Len(replies) - 1

\* Opened and Sensor carry the file's description.
PartsOf(answer) == IF answer.reply.kind \in {"Opened", "Sensor"} THEN parts ELSE 1

\* One more request may be sent.  Without a timer the application leaves as many
\* unanswered as keep the helper from waiting for it: of those that fit neither in
\* the socket nor in the helper, the replies fit in the socket.  With a timer it
\* never waits to write, so that what it times is a reply.
MayAsk ==
  IF timed THEN Len(requests) - read <= ToHelper
  ELSE (Len(requests) - read - ToHelper) * parts <= ToApp

-----------------------------------------------------------------------------
(* The helper                                                              *)

\* Mutant: one place of the table is never used.
FullEarly == Cardinality({id \in Ids : bound[id] # None}) >= MAX_OPEN_FILES - 1

Full == Cardinality({id \in Ids : bound[id] # None}) >= MAX_OPEN_FILES

Asks == ~stopped /\ pending = None /\ Len(replies) < Len(requests)

\* handle(): these files are sound, so that only a full table and an id that
\* names none are refused.
Serves ==
  /\ Serve
  /\ pending'.reply.kind = "Failed" =>
       /\ Cardinality(pending'.reply.error) = 1
       /\ IF Asked.request.op = "Open"
          THEN Full /\ "too many" \in pending'.reply.error
          ELSE bound[Asked.request.id] = None /\ "not open" \in pending'.reply.error
  /\ UNCHANGED <<stream, application>>

\* Mutant: send() waits for the application to take what it was sent before.
RoomInStep == put = got

\* send() waits for the socket to have room.
Room == put - got < ToApp

\* send() writes one part more; the reply is sent with its last.
Publishes ==
  /\ pending # None
  /\ Room
  /\ put' = put + 1
  /\ IF put' = edges[Len(replies) + 1] + PartsOf(pending)
     THEN Publish /\ edges' = Append(edges, put')
     ELSE UNCHANGED <<vars, edges>>
  /\ UNCHANGED <<parts, got, application>>

\* Mutant: replies go through a buffer of the process, lost with it.
DiesBuffering ==
  /\ Asks
  /\ Asked.request.id \in Crashing
  /\ \E n \in read .. Len(replies) :
       /\ got <= edges[n + 1]
       /\ put' = edges[n + 1]
       /\ replies' = SubSeq(replies, 1, n)
       /\ edges' = SubSeq(edges, 1, n + 1)
  /\ stopped' = TRUE
  /\ UNCHANGED <<requests, pending, bound, parts, got, application>>

\* A decoder takes the process down, or send() refuses the reply as too large and
\* main() returns: either way nothing of this reply is written, and all that is
\* open is lost.  What was sent before is in the socket, and stays.
Dies ==
  /\ Asks
  /\ Asked.request.id \in Crashing
  /\ Stop
  /\ UNCHANGED <<stream, application>>

-----------------------------------------------------------------------------
(* The application                                                         *)

Sent(op, f) == \E n \in DOMAIN requests :
  requests[n].request = [op |-> op, id |-> f]

\* Files it has open, by its own account.
Held == {f \in Files : Sent("Open", f) /\ ~Sent("Close", f)}

\* What it may ask next of a file: to open it, its samples, to close it.
Work(f) ==
  IF ~Sent("Open", f)
  THEN IF settled[f] = "waiting" /\ Cardinality(Held) < MAX_OPEN_FILES
       THEN {[request |-> [op |-> "Open", id |-> f], attached |-> f]} ELSE {}
  ELSE {[request |-> [op |-> op, id |-> f], attached |-> None] :
          op \in IF ~Sent("Sensor", f) THEN {"Sensor"}
                 ELSE IF ~Sent("Close", f) THEN {"Close"} ELSE {}}

Begins ==
  /\ sending = None
  /\ got = edges[read + 1]
  /\ MayAsk
  /\ \E f \in Files : sending' \in Work(f)
  /\ UNCHANGED <<vars, stream, read, timed, suspect, settled>>

\* send(), once there is room; it fails, and is the last, if the helper is gone.
Writes ==
  /\ sending # None
  /\ ~stopped
  /\ Unserved < ToHelper
  /\ requests' = Append(requests, sending)
  /\ sending' = None
  /\ UNCHANGED <<replies, bound, pending, stopped, stream, read, timed, suspect, settled>>

\* Replies carry no number, they are counted.
Receives ==
  /\ read' = read + 1
  /\ LET reply == replies[read + 1].reply
         f == requests[read + 1].request.id
     IN  settled' = [settled EXCEPT ![f] =
           CASE @ = "waiting" /\ reply.kind = "Sensor" -> "read"
             [] @ = "waiting" /\ reply.kind = "Failed" -> "given_up"
             [] OTHER -> @]

\* recv() reads one part more; it returns with the last of a reply.
Reads ==
  /\ sending = None \/ stopped
  /\ got < put
  /\ got' = got + 1
  /\ IF read < Len(replies) /\ got' = edges[read + 2]
     THEN Receives
     ELSE UNCHANGED <<read, settled>>
  /\ UNCHANGED <<vars, parts, put, edges, sending, timed, suspect>>

\* The request the helper works on has been waited for too long.
TimesOut ==
  /\ timed
  /\ Asks
  /\ Asked.request.id \in Slow
  /\ read = Len(replies)
  /\ suspect = 0
  /\ suspect' = read + 1
  /\ UNCHANGED <<vars, stream, read, sending, timed, settled>>

\* The helper is killed, wherever it has got to since.
Kills ==
  /\ suspect # 0
  /\ ~stopped
  /\ Stop
  /\ UNCHANGED <<stream, application>>

\* Mutant: the end of the stream is taken for an interrupted call.
EofRetried == FALSE

\* recv(): the end of the stream comes after all that was written, be it in the
\* middle of a reply.
Eof == stopped /\ got = put

\* The file whose request was waited for too long, or else the first not
\* answered, has cost the helper: it is given up, unless its pixels came, and a
\* new helper is started for the others.
Restarts ==
  /\ Eof
  /\ LET culprit == requests[IF suspect # 0 THEN suspect ELSE read + 1].request.id
     IN  settled' = [settled EXCEPT ![culprit] = IF @ = "waiting" THEN "given_up" ELSE @]
  /\ requests' = <<>> /\ replies' = <<>> /\ stopped' = FALSE
  /\ put' = 0 /\ got' = 0 /\ edges' = <<0>>
  /\ read' = 0 /\ sending' = None /\ suspect' = 0
  /\ UNCHANGED <<bound, pending, parts, timed>>

AllSettled == \A f \in Files : settled[f] # "waiting"

Over == AllSettled /\ UNCHANGED sessionVars

Application == Begins \/ Writes \/ Reads \/ Kills \/ Restarts

SessionNext == Serves \/ Publishes \/ Dies \/ TimesOut \/ Application \/ Over

\* The helper serves what is not slow and sends what it has room for; the
\* application goes on with its work, and its timer runs.  No crash is forced.
SessionSpec ==
  /\ SessionInit /\ [][SessionNext]_sessionVars
  /\ WF_sessionVars(Serves /\ ~(timed /\ Asked.request.id \in Slow))
  /\ WF_sessionVars(Publishes)
  /\ WF_sessionVars(TimesOut)
  /\ WF_sessionVars(Application)
-----------------------------------------------------------------------------
(* Properties                                                              *)

\* The two sides never both wait for room in the socket, the application to write a
\* request and the helper in the middle of a reply, be the reply larger than the
\* socket: what is written of it while the application does not read fits.
NoMutualWait ==
  ~ /\ sending # None /\ ~stopped /\ Unserved >= ToHelper
    /\ pending # None /\ ~Room

\* README.md: "a crash or a hang only costs the file being read".  No other file
\* is given up, though several are in flight when the helper ends, and though a
\* kill races the answer that was waited for and those after it.
OnlyCulpritsGivenUp ==
  \A f \in Files : settled[f] = "given_up" => f \in Crashing \cup Slow

\* An application that keeps count of its own Opens and Closes, without waiting
\* for their replies, is never told that there are too many files or none.
NeverRefused == \A n \in DOMAIN replies : replies[n].reply.kind # "Failed"

\* Every file is read or given up in the end: no file is tried for ever, and no
\* crash, hang, full socket or reply larger than the socket stops the session.
EveryFileSettled == \A f \in Files : <>(settled[f] # "waiting")
=============================================================================
