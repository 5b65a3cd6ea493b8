------------------------------ MODULE MCHelper ------------------------------
(***************************************************************************)
(* Small instances of Helper for TLC.                                      *)
(***************************************************************************)
EXTENDS Helper, TLC

Msg(request, attached) == [request |-> request, attached |-> attached]

\* What changes or reads the table; requests for pixels with a descriptor that
\* does not belong there too.
TableMessages ==
       {Msg([op |-> "Open", id |-> i], f) : i \in Ids, f \in Files}
  \cup {Msg([op |-> "Preview", id |-> i], f) : i \in Ids, f \in Files \cup {None}}
  \cup {Msg([op |-> "Close", id |-> i], None) : i \in Ids}

\* Every request of the protocol, for one file.
ProtocolMessages ==
       {Msg([op |-> "Hello", version |-> v], None) : v \in Versions}
  \cup {Msg([op |-> o, id |-> i], f) :
          o \in {"Open", "Preview", "Sensor"}, i \in Ids, f \in Files \cup {None}}
  \cup {Msg([op |-> "Close", id |-> i], None) : i \in Ids}
  \cup {Msg([op |-> "SandboxCheck"], None), Msg([op |-> "Malformed"], None)}

Symmetry == Permutations(Ids) \cup Permutations(Files)
=============================================================================
