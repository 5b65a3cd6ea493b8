------------------------------ MODULE Protocol ------------------------------
(***************************************************************************)
(* The messages of protocol/src/lib.rs, reduced to what the control flow   *)
(* of the two sides tells apart: names of files, descriptors attached, the *)
(* kind of a reply and the reasons of a failure.                           *)
(***************************************************************************)
EXTENDS Naturals, Sequences, FiniteSets

CONSTANTS
  Ids,              \* the names the application gives to its files
  Files,            \* what a descriptor can refer to: files of the user
  Versions,         \* protocol versions a peer may announce
  PROTOCOL_VERSION, \* the one this helper was built with
  Probes,           \* what the sandbox self-test tries
  MAX_OPEN_FILES,   \* files the helper keeps open
  None              \* "nothing": no descriptor, no file, no reply

ASSUME ProtocolAssumption ==
  /\ MAX_OPEN_FILES \in Nat \ {0}
  /\ PROTOCOL_VERSION \in Versions
  /\ None \notin Ids \cup Files

\* "Malformed" stands for bytes that decode to no Request.
Request ==
       [op : {"Hello"}, version : Versions]
  \cup [op : {"Open", "Preview", "Sensor", "Close"}, id : Ids]
  \cup [op : {"SandboxCheck", "Malformed"}]

\* A request and the file whose descriptor is attached to it, if any.
Message == [request : Request, attached : Files \cup {None}]

\* Why a request failed; "raw" and "system" are the two decoders' reasons.
Reason == {"no descriptor", "too many", "cannot map", "not open",
           "raw", "system"}

Reply ==
       [kind : {"Hello"}, version : Versions, sandboxed : BOOLEAN]
  \cup [kind : {"Opened", "Preview", "Sensor", "Closed"}, id : Ids]
  \cup [kind : {"SandboxCheck"}, sandboxed : BOOLEAN, escapes : SUBSET Probes]
  \cup [kind : {"Failed"}, id : Ids, error : SUBSET Reason]

\* A reply and the file whose pixels are in the shared memory attached to it.
Answer == [reply : Reply, attached : Files \cup {None}]

ASSUME AnswerAssumption == None \notin Answer
=============================================================================
