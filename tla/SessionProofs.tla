---------------------------- MODULE SessionProofs ----------------------------
(***************************************************************************)
(* Proofs, for any number of files, any room in the socket, replies of any *)
(* size and a table of any size, that the two sides of a session never     *)
(* wait for each other, that a file is given up only for its own fault and *)
(* that no request of an application that counts its own Opens and Closes  *)
(* is refused.                                                             *)
(***************************************************************************)
EXTENDS Session, FiniteSetTheorems, TLAPS

\* What the application of module Session asks, and what it is answered.
Ask(op, f) ==
  [request |-> [op |-> op, id |-> f], attached |-> IF op = "Open" THEN f ELSE None]
Questions == {Ask(op, f) : op \in {"Open", "Sensor", "Close"}, f \in Files}
Results ==
  [reply : [kind : {"Opened", "Sensor", "Closed"}, id : Files],
   attached : Files \cup {None}]

\* Was this asked of f, among the first n requests?
AskedBy(n, op, f) == \E i \in 1 .. n : requests[i] = Ask(op, f)

\* Files open when the first n requests are served.
OpenAfter(n) == {f \in Files : AskedBy(n, "Open", f) /\ ~AskedBy(n, "Close", f)}

\* The request can be served when the first n are.
Servable(m, n) ==
  IF m.request.op = "Open"
  THEN /\ ~AskedBy(n, "Close", m.request.id)
       /\ Cardinality(OpenAfter(n)) < MAX_OPEN_FILES
  ELSE /\ m.request.id \in OpenAfter(n)
       /\ m.request.op = "Close" => AskedBy(n, "Sensor", m.request.id)

\* Requests whose effect is in the table.
Served == Len(replies) + (IF pending = None THEN 0 ELSE 1)

Typed ==
  /\ requests \in Seq(Questions)
  /\ replies \in Seq(Results)
  /\ bound \in [Files -> Files \cup {None}]
  /\ pending \in Results \cup {None}
  /\ stopped \in BOOLEAN
  /\ parts \in Nat \ {0}
  /\ put \in Nat
  /\ got \in Nat
  /\ edges \in Seq(Nat)
  /\ read \in Nat
  /\ sending \in Questions \cup {None}
  /\ timed \in BOOLEAN
  /\ suspect \in Nat
  /\ settled \in [Files -> {"waiting", "read", "given_up"}]

\* Who is ahead of whom.
Counted ==
  /\ read <= Len(replies)
  /\ Served <= Len(requests)
  /\ sending # None => MayAsk

\* Each reply has parts, and no more than one that describes a file.
EdgesRise ==
  /\ Len(edges) = Len(replies) + 1
  /\ \A i, j \in 1 .. Len(edges) :
       i < j => edges[i] < edges[j] /\ edges[j] - edges[i] <= (j - i) * parts

\* The application is in the reply it reads next, or waits for it to begin; the
\* helper is in the one it writes, and has not written the last part of it.
StreamFits ==
  /\ edges[read + 1] <= got
  /\ read < Len(replies) => got < edges[read + 2]
  /\ got <= put
  /\ edges[Len(replies) + 1] <= put
  /\ ~stopped => put < edges[Len(replies) + 1] + (IF pending = None THEN 1 ELSE PartsOf(pending))

\* The table follows the requests, each of which finds what it needs there.
TableFollows ==
  /\ stopped => pending = None /\ \A f \in Files : bound[f] = None
  /\ ~stopped => \A f \in Files : bound[f] # None <=> f \in OpenAfter(Served)
  /\ \A n \in DOMAIN requests : Servable(requests[n], n - 1)
  /\ sending # None => Servable(sending, Len(requests))

\* A helper that has ended was taken down by the request it had, or killed for
\* the one that was waited for too long.
BlameKnown ==
  /\ suspect # 0 => suspect \in DOMAIN requests /\ requests[suspect].request.id \in Slow
  /\ stopped /\ suspect = 0 =>
       Len(replies) < Len(requests) /\ Asked.request.id \in Crashing

\* The inductive invariant.
IInv ==
  /\ Typed /\ Counted /\ EdgesRise /\ StreamFits
  /\ TableFollows /\ BlameKnown /\ OnlyCulpritsGivenUp

-----------------------------------------------------------------------------
(* Questions and answers                                                   *)

\* What a question asks, and of which file.
LEMMA QuestionTypes ==
  ASSUME NEW m \in Questions
  PROVE  /\ \E op \in {"Open", "Sensor", "Close"}, f \in Files : m = Ask(op, f)
         /\ m.request.op \in {"Open", "Sensor", "Close"} /\ m.request.id \in Files
         /\ m = Ask(m.request.op, m.request.id)
<1>1. PICK op \in {"Open", "Sensor", "Close"}, f \in Files : m = Ask(op, f)
  BY DEF Questions
<1>2. m.request.op = op /\ m.request.id = f
  BY <1>1 DEF Ask
<1> QED
  BY <1>1, <1>2

\* Two questions are equal when they ask the same of the same file.
LEMMA AskInjective ==
  ASSUME NEW o, NEW g, NEW op, NEW f, Ask(o, g) = Ask(op, f)
  PROVE  o = op /\ g = f
<1>1. Ask(o, g).request.op = o /\ Ask(o, g).request.id = g
  BY DEF Ask
<1>2. Ask(op, f).request.op = op /\ Ask(op, f).request.id = f
  BY DEF Ask
<1> QED
  BY <1>1, <1>2

\* "Nothing" is neither a question nor an answer nor a file, and ids are files.
LEMMA NothingApart ==
  None \notin Results /\ None \notin Files /\ Ids = Files
<1>1. None \notin Files /\ Ids = Files
  BY ProtocolAssumption, SessionAssumption
<1>2. ASSUME NEW a \in Results PROVE a \in Answer
  <2>1. a.reply \in [kind : {"Opened", "Sensor", "Closed"}, id : Files]
    BY DEF Results
  <2>2. a.reply \in [kind : {"Opened", "Preview", "Sensor", "Closed"}, id : Ids]
    BY <1>1, <2>1
  <2>3. a.reply \in Reply
    BY <2>2, Zenon DEF Reply
  <2>4. a = [reply |-> a.reply, attached |-> a.attached] /\ a.attached \in Files \cup {None}
    BY DEF Results
  <2> QED
    BY <2>3, <2>4 DEF Answer
<1> QED
  BY <1>1, <1>2, AnswerAssumption

\* One more request, one more thing asked.
LEMMA AskedOneMore ==
  ASSUME NEW n \in Nat, NEW op, NEW f, NEW o, NEW g, requests[n + 1] = Ask(op, f)
  PROVE  AskedBy(n + 1, o, g) <=> AskedBy(n, o, g) \/ (o = op /\ g = f)
<1>1. ASSUME AskedBy(n, o, g) PROVE AskedBy(n + 1, o, g)
  <2>1. PICK i \in 1 .. n : requests[i] = Ask(o, g)
    BY <1>1 DEF AskedBy
  <2>2. i \in 1 .. n + 1
    OBVIOUS
  <2> QED
    BY <2>1, <2>2 DEF AskedBy
<1>2. ASSUME o = op, g = f PROVE AskedBy(n + 1, o, g)
  <2>1. n + 1 \in 1 .. n + 1
    OBVIOUS
  <2> QED
    BY <1>2, <2>1 DEF AskedBy
<1>3. ASSUME AskedBy(n + 1, o, g) PROVE AskedBy(n, o, g) \/ (o = op /\ g = f)
  <2>1. PICK i \in 1 .. n + 1 : requests[i] = Ask(o, g)
    BY <1>3 DEF AskedBy
  <2>2. CASE i = n + 1
    <3>1. Ask(o, g) = Ask(op, f)
      BY <2>1, <2>2
    <3> QED
      BY <3>1, AskInjective
  <2>3. CASE i \in 1 .. n
    BY <2>1, <2>3 DEF AskedBy
  <2> QED
    BY <2>2, <2>3
<1> QED
  BY <1>1, <1>2, <1>3

\* What a request served does to the files open.
LEMMA OpenOneMore ==
  ASSUME NEW n \in Nat, NEW op \in {"Open", "Sensor", "Close"}, NEW f \in Files,
         requests[n + 1] = Ask(op, f), Servable(Ask(op, f), n)
  PROVE  \A g \in Files : g \in OpenAfter(n + 1) <=>
           CASE op = "Open" -> g \in OpenAfter(n) \/ g = f
             [] op = "Close" -> g \in OpenAfter(n) /\ g # f
             [] OTHER -> g \in OpenAfter(n)
<1> SUFFICES ASSUME NEW g \in Files
             PROVE  g \in OpenAfter(n + 1) <=>
                      CASE op = "Open" -> g \in OpenAfter(n) \/ g = f
                        [] op = "Close" -> g \in OpenAfter(n) /\ g # f
                        [] OTHER -> g \in OpenAfter(n)
  OBVIOUS
<1>1. \A o \in {"Open", "Sensor", "Close"} :
        AskedBy(n + 1, o, g) <=> AskedBy(n, o, g) \/ (o = op /\ g = f)
  BY AskedOneMore
<1>2. Ask(op, f).request.op = op /\ Ask(op, f).request.id = f
  BY DEF Ask
<1>3. op = "Open" => ~AskedBy(n, "Close", f)
  BY <1>2 DEF Servable
<1>4. op = "Sensor" => f \in OpenAfter(n)
  BY <1>2 DEF Servable
<1>5. \A k \in {n, n + 1} : g \in OpenAfter(k) <=> AskedBy(k, "Open", g) /\ ~AskedBy(k, "Close", g)
  BY DEF OpenAfter
<1>6. CASE op = "Open"
  BY <1>1, <1>3, <1>5, <1>6
<1>7. CASE op = "Sensor"
  BY <1>1, <1>5, <1>7
<1>8. CASE op = "Close"
  BY <1>1, <1>5, <1>8
<1> QED
  BY <1>6, <1>7, <1>8

\* A request further on asks nothing earlier.
LEMMA AskedBefore ==
  ASSUME NEW n \in Nat, \A i \in 1 .. n : requests'[i] = requests[i]
  PROVE  /\ \A o, g : AskedBy(n, o, g)' <=> AskedBy(n, o, g)
         /\ OpenAfter(n)' = OpenAfter(n)
<1>1. \A o, g : AskedBy(n, o, g)' <=> AskedBy(n, o, g)
  BY DEF AskedBy
<1> QED
  BY <1>1 DEF OpenAfter

\* Files open are as many as a number.
LEMMA OpenIsFinite ==
  ASSUME requests \in Seq(Questions), NEW n \in 0 .. Len(requests)
  PROVE  Cardinality(OpenAfter(n)) \in Nat
<1> DEFINE g == [i \in 1 .. n |-> requests[i].request.id]
           T == {g[i] : i \in 1 .. n}
<1>1. IsFiniteSet(1 .. n)
  BY FS_Interval
<1>2. g \in Surjection(1 .. n, T)
  BY DEF Surjection
<1>3. IsFiniteSet(T)
  BY <1>1, <1>2, FS_Surjection
<1>4. OpenAfter(n) \subseteq T
  <2> SUFFICES ASSUME NEW f \in OpenAfter(n) PROVE f \in T
    OBVIOUS
  <2>1. PICK i \in 1 .. n : requests[i] = Ask("Open", f)
    BY DEF OpenAfter, AskedBy
  <2>2. g[i] = f
    BY <2>1 DEF Ask
  <2> QED
    BY <2>2
<1> QED
  BY <1>3, <1>4, FS_Subset, FS_CardinalityType

\* The application's own account: what it has sent, and the files it has open.
LEMMA Account ==
  ASSUME requests \in Seq(Questions)
  PROVE  /\ \A o, g : Sent(o, g) <=> AskedBy(Len(requests), o, g)
         /\ Held = OpenAfter(Len(requests))
<1>1. ASSUME NEW o, NEW g PROVE Sent(o, g) <=> AskedBy(Len(requests), o, g)
  <2>1. ASSUME NEW i \in 1 .. Len(requests)
        PROVE  requests[i].request = [op |-> o, id |-> g] <=> requests[i] = Ask(o, g)
    <3>1. requests[i] \in Questions
      OBVIOUS
    <3>2. PICK op \in {"Open", "Sensor", "Close"}, f \in Files : requests[i] = Ask(op, f)
      BY <3>1, QuestionTypes
    <3>3. requests[i].request = [op |-> op, id |-> f]
      BY <3>2 DEF Ask
    <3>4. ASSUME [op |-> op, id |-> f] = [op |-> o, id |-> g] PROVE op = o /\ f = g
      <4>1. [op |-> op, id |-> f].op = [op |-> o, id |-> g].op
        BY <3>4
      <4>2. [op |-> op, id |-> f].id = [op |-> o, id |-> g].id
        BY <3>4
      <4> QED
        BY <4>1, <4>2
    <3>5. ASSUME requests[i].request = [op |-> o, id |-> g] PROVE requests[i] = Ask(o, g)
      BY <3>2, <3>3, <3>4, <3>5
    <3>6. ASSUME requests[i] = Ask(o, g) PROVE requests[i].request = [op |-> o, id |-> g]
      BY <3>6 DEF Ask
    <3> QED
      BY <3>5, <3>6
  <2> QED
    BY <2>1 DEF Sent, AskedBy
<1> QED
  BY <1>1 DEF Held, OpenAfter

\* What was closed was open before, and its samples were asked for.
LEMMA ClosedWasOpen ==
  ASSUME IInv, NEW f \in Files, AskedBy(Len(requests), "Close", f), NEW op \in {"Open", "Sensor"}
  PROVE  AskedBy(Len(requests), op, f)
<1>1. PICK i \in 1 .. Len(requests) : requests[i] = Ask("Close", f)
  BY DEF AskedBy
<1>2. requests \in Seq(Questions) /\ i \in DOMAIN requests /\ Len(requests) \in Nat
  BY DEF IInv, Typed
<1>3. Servable(Ask("Close", f), i - 1)
  BY <1>1, <1>2 DEF IInv, TableFollows
<1>4. f \in OpenAfter(i - 1) /\ AskedBy(i - 1, "Sensor", f)
  <2>1. Ask("Close", f).request.op = "Close" /\ Ask("Close", f).request.id = f
    BY DEF Ask
  <2> QED
    BY <1>3, <2>1 DEF Servable
<1>5. PICK j \in 1 .. i - 1 : requests[j] = Ask(op, f)
  BY <1>4 DEF OpenAfter, AskedBy
<1>6. j \in 1 .. Len(requests)
  BY <1>2
<1> QED
  BY <1>5, <1>6 DEF AskedBy

\* The application asks only for what will be served.
LEMMA WorkIsServable ==
  ASSUME IInv, NEW f \in Files, NEW m \in Work(f)
  PROVE  m \in Questions /\ Servable(m, Len(requests))
<1> DEFINE n == Len(requests)
<1>1. requests \in Seq(Questions) /\ n \in Nat
  BY DEF IInv, Typed
<1>2. /\ Sent("Open", f) <=> AskedBy(n, "Open", f)
      /\ Sent("Sensor", f) <=> AskedBy(n, "Sensor", f)
      /\ Sent("Close", f) <=> AskedBy(n, "Close", f)
      /\ Held = OpenAfter(n)
  BY <1>1, Account
<1> HIDE DEF n
<1>3. CASE ~Sent("Open", f)
  <2>1. m = Ask("Open", f) /\ Cardinality(Held) < MAX_OPEN_FILES
    BY <1>3 DEF Work, Ask
  <2>2. ~AskedBy(n, "Close", f)
    BY <1>2, <1>3, ClosedWasOpen DEF n
  <2>3. m.request.op = "Open" /\ m.request.id = f /\ m \in Questions
    BY <2>1 DEF Ask, Questions
  <2> QED
    BY <1>2, <2>1, <2>2, <2>3 DEF Servable, n
<1>4. CASE Sent("Open", f)
  <2>1. PICK op \in {"Sensor", "Close"} :
          /\ m = [request |-> [op |-> op, id |-> f], attached |-> None]
          /\ IF op = "Sensor" THEN ~Sent("Sensor", f) ELSE Sent("Sensor", f) /\ ~Sent("Close", f)
    <3>1. CASE ~Sent("Sensor", f)
      <4>1. m = [request |-> [op |-> "Sensor", id |-> f], attached |-> None]
        BY <1>4, <3>1 DEF Work
      <4> QED
        BY <3>1, <4>1
    <3>2. CASE Sent("Sensor", f)
      <4>1. ~Sent("Close", f)
        BY <1>4, <3>2 DEF Work
      <4>2. m = [request |-> [op |-> "Close", id |-> f], attached |-> None]
        BY <1>4, <3>2, <4>1 DEF Work
      <4> QED
        BY <3>2, <4>1, <4>2
    <3> QED
      BY <3>1, <3>2
  <2>2. m = Ask(op, f)
    BY <2>1 DEF Ask
  <2>3. m \in Questions /\ m.request.op = op /\ m.request.id = f
    BY <2>1, <2>2 DEF Questions
  <2>4. ~AskedBy(n, "Close", f)
    BY <1>2, <2>1, ClosedWasOpen DEF n
  <2>5. f \in OpenAfter(n)
    BY <1>2, <1>4, <2>4 DEF OpenAfter
  <2>6. op = "Close" => AskedBy(n, "Sensor", f)
    BY <1>2, <2>1
  <2> QED
    BY <2>1, <2>3, <2>5, <2>6 DEF Servable, n
<1> QED
  BY <1>3, <1>4

-----------------------------------------------------------------------------
(* The stream                                                              *)

\* A reply has a part, and no more than one that describes a file.
LEMMA PartsOfFits ==
  ASSUME parts \in Nat \ {0}, NEW a
  PROVE  PartsOf(a) \in Nat /\ 1 <= PartsOf(a) /\ PartsOf(a) <= parts
BY DEF PartsOf

\* One reply more has its parts more.
LEMMA OneMore ==
  ASSUME NEW k \in Nat, NEW p \in Nat
  PROVE  k * p \in Nat /\ (k + 1) * p = k * p + p
<1>1. k * p \in Nat
  OBVIOUS
<1>2. (k + 1) * p = k * p + p
  OBVIOUS
<1> QED
  BY <1>1, <1>2

\* More replies have more parts.
LEMMA Monotone ==
  ASSUME NEW k \in Int, NEW m \in Int, NEW p \in Nat, k <= m
  PROVE  k * p \in Int /\ m * p \in Int /\ k * p <= m * p
<1>1. k * p \in Int /\ m * p \in Int /\ (m - k) * p \in Int
  OBVIOUS
<1>2. m - k \in Nat
  OBVIOUS
<1>3. (m - k) * p >= 0
  BY <1>2
<1>4. (m - k) * p = m * p - k * p
  OBVIOUS
<1> QED
  BY <1>1, <1>3, <1>4

\* Two edges are as far apart as the replies between them take.
LEMMA EdgesApart ==
  ASSUME IInv, NEW i \in 1 .. Len(edges), NEW j \in 1 .. Len(edges), i < j,
         NEW k \in Nat, k = j - i
  PROVE  edges[i] < edges[j] /\ edges[j] - edges[i] <= k * parts
<1>1. edges[i] < edges[j] /\ edges[j] - edges[i] <= (j - i) * parts
  BY DEF IInv, EdgesRise
<1>2. (j - i) * parts = k * parts
  BY Zenon
<1> QED
  BY <1>1, <1>2, Zenon

\* A step that neither writes nor reads, unless it is the helper's last, and does
\* not change what it was writing, keeps what is said of the stream.
LEMMA StreamStill ==
  ASSUME IInv, UNCHANGED <<stream, replies, read>>,
         stopped' \/ (~stopped /\ pending = None) \/ UNCHANGED <<pending, stopped>>
  PROVE  EdgesRise' /\ StreamFits'
<1>1. UNCHANGED <<parts, put, got, edges, replies, read>>
  BY DEF stream
<1>2. EdgesRise'
  BY <1>1 DEF IInv, EdgesRise
<1>3. /\ parts \in Nat \ {0} /\ put \in Nat /\ edges \in Seq(Nat)
      /\ Len(replies) + 1 \in DOMAIN edges
  <2>1. replies \in Seq(Results) /\ edges \in Seq(Nat) /\ Len(edges) = Len(replies) + 1
    BY DEF IInv, Typed, EdgesRise
  <2>2. parts \in Nat \ {0} /\ put \in Nat
    BY DEF IInv, Typed
  <2> QED
    BY <2>1, <2>2
<1>4. (~stopped => put < edges[Len(replies) + 1] + (IF pending = None THEN 1 ELSE PartsOf(pending)))'
  <2>1. CASE stopped'
    BY <2>1
  <2>2. CASE ~stopped /\ pending = None
    <3>1. put < edges[Len(replies) + 1] + 1 /\ edges[Len(replies) + 1] \in Nat
      BY <1>3, <2>2 DEF IInv, StreamFits
    <3>2. PartsOf(pending)' \in Nat /\ 1 <= PartsOf(pending)'
      BY <1>1, <1>3 DEF PartsOf
    <3>3. put < edges[Len(replies) + 1] + PartsOf(pending)'
      BY <1>3, <3>1, <3>2
    <3> QED
      BY <1>1, <3>1, <3>3
  <2>3. CASE UNCHANGED <<pending, stopped>>
    BY <1>1, <2>3 DEF IInv, StreamFits, PartsOf
  <2> QED
    BY <2>1, <2>2, <2>3
<1>5. StreamFits'
  BY <1>1, <1>4 DEF IInv, StreamFits
<1> QED
  BY <1>2, <1>5

-----------------------------------------------------------------------------
(* The helper                                                              *)

\* A refusal is for a full table, or for an id that names no file in it.
LEMMA RefusesOnly ==
  ASSUME Serves
  PROVE  /\ Serve /\ UNCHANGED <<stream, application>>
         /\ pending'.reply.kind = "Failed" =>
              IF Asked.request.op = "Open" THEN Full ELSE bound[Asked.request.id] = None
<1>1. Serve /\ UNCHANGED <<stream, application>>
  BY Zenon DEF Serves
<1>2. ASSUME pending'.reply.kind = "Failed", Asked.request.op = "Open" PROVE Full
  BY <1>2, Zenon DEF Serves
<1>3. ASSUME pending'.reply.kind = "Failed", Asked.request.op # "Open"
      PROVE  bound[Asked.request.id] = None
  BY <1>3, Zenon DEF Serves
<1> QED
  BY <1>1, <1>2, <1>3, Zenon

\* The request the helper has, and what is known of it.
LEMMA AskedIsServable ==
  ASSUME IInv, Len(replies) < Len(requests)
  PROVE  /\ Len(replies) \in Nat /\ Len(requests) \in Nat
         /\ Asked = requests[Len(replies) + 1] /\ Asked \in Questions
         /\ Asked.request.op \in {"Open", "Sensor", "Close"} /\ Asked.request.id \in Files
         /\ Asked = Ask(Asked.request.op, Asked.request.id)
         /\ Servable(Asked, Len(replies))
<1>1. requests \in Seq(Questions) /\ replies \in Seq(Results)
  BY DEF IInv, Typed
<1>2. Len(replies) + 1 \in DOMAIN requests /\ (Len(replies) + 1) - 1 = Len(replies)
  BY <1>1
<1>3. Asked = requests[Len(replies) + 1] /\ Asked \in Questions
  BY <1>1, <1>2 DEF Asked
<1>4. Servable(requests[Len(replies) + 1], (Len(replies) + 1) - 1)
  BY <1>2 DEF IInv, TableFollows
<1> QED
  BY <1>1, <1>2, <1>3, <1>4, QuestionTypes

\* The table has a place for a file that is opened, and the file that is read.
LEMMA NothingToRefuse ==
  ASSUME IInv, ~stopped, pending = None, Len(replies) < Len(requests)
  PROVE  IF Asked.request.op = "Open" THEN ~Full ELSE bound[Asked.request.id] # None
<1>1. /\ Len(replies) \in Nat /\ Asked.request.id \in Files
      /\ Servable(Asked, Len(replies)) /\ requests \in Seq(Questions)
  BY AskedIsServable DEF IInv, Typed
<1>2. \A f \in Files : bound[f] # None <=> f \in OpenAfter(Len(replies))
  BY <1>1 DEF IInv, TableFollows, Served
<1>3. CASE Asked.request.op = "Open"
  <2>1. {id \in Ids : bound[id] # None} = OpenAfter(Len(replies))
    BY <1>2, NothingApart DEF OpenAfter
  <2>2. Cardinality(OpenAfter(Len(replies))) < MAX_OPEN_FILES
    BY <1>1, <1>3 DEF Servable
  <2>3. Cardinality(OpenAfter(Len(replies))) \in Nat /\ MAX_OPEN_FILES \in Nat
    BY <1>1, OpenIsFinite, ProtocolAssumption
  <2> QED
    <3>1. ~(Cardinality(OpenAfter(Len(replies))) >= MAX_OPEN_FILES)
      BY <2>2, <2>3
    <3>2. Full <=> Cardinality(OpenAfter(Len(replies))) >= MAX_OPEN_FILES
      BY <2>1, Zenon DEF Full
    <3> QED
      BY <1>3, <3>1, <3>2
<1>4. CASE Asked.request.op # "Open"
  BY <1>1, <1>2, <1>4 DEF Servable
<1> QED
  BY <1>3, <1>4

\* handle() answers as it should, and the table follows.
LEMMA ServesGrants ==
  ASSUME IInv, Serves
  PROVE  /\ pending' \in Results
         /\ bound' = CASE Asked.request.op = "Open" -> [bound EXCEPT ![Asked.request.id] = Asked.attached]
                       [] Asked.request.op = "Close" -> [bound EXCEPT ![Asked.request.id] = None]
                       [] OTHER -> bound
<1>1. /\ Serve
      /\ ~stopped /\ pending = None /\ Len(replies) < Len(requests)
      /\ Greet \/ SelfTest \/ Refuse \/ Bind \/ GivePixels \/ Unbind
  BY RefusesOnly DEF Serve
<1>2. Asked.request.op \in {"Open", "Sensor", "Close"} /\ Asked.request.id \in Files
  BY <1>1, AskedIsServable
<1>3. pending'.reply.kind # "Failed"
  BY <1>1, RefusesOnly, NothingToRefuse
<1>4. CASE Refuse
  <2>1. pending'.reply.kind = "Failed"
    BY <1>4 DEF Refuse, Answered, Failure
  <2> QED
    BY <1>3, <2>1
<1>5. CASE Bind
  <2>1. Asked.request.op = "Open" /\ bound' = [bound EXCEPT ![Asked.request.id] = Asked.attached]
    BY <1>5 DEF Bind
  <2>2. pending' \in Results
    BY <1>2, <1>5 DEF Bind, Answered, Success, Results
  <2> QED
    BY <2>1, <2>2
<1>6. CASE GivePixels
  <2>1. Asked.request.op = "Sensor" /\ bound' = bound
    BY <1>2, <1>6 DEF GivePixels
  <2>2. bound[Asked.request.id] \in Files \cup {None}
    BY <1>2 DEF IInv, Typed
  <2>3. pending' \in Results
    BY <1>2, <1>6, <2>1, <2>2 DEF GivePixels, Answered, Success, Results
  <2> QED
    BY <2>1, <2>3
<1>7. CASE Unbind
  <2>1. Asked.request.op = "Close" /\ bound' = [bound EXCEPT ![Asked.request.id] = None]
    BY <1>7 DEF Unbind
  <2>2. pending' \in Results
    BY <1>2, <1>7 DEF Unbind, Answered, Success, Results
  <2> QED
    BY <2>1, <2>2
<1>8. ~Greet /\ ~SelfTest
  BY <1>2 DEF Greet, SelfTest
<1> QED
  BY <1>1, <1>4, <1>5, <1>6, <1>7, <1>8

\* serving a request keeps the invariant.
LEMMA ServesKeepsInvariant ==
  ASSUME IInv, Serves
  PROVE  IInv'
<1> DEFINE n == Len(replies)
           f == Asked.request.id
           op == Asked.request.op
<1>1. /\ ~stopped /\ pending = None /\ n < Len(requests)
      /\ UNCHANGED <<requests, replies, stopped, stream, parts, put, got, edges>>
      /\ UNCHANGED <<read, sending, timed, suspect, settled>>
  BY RefusesOnly DEF Serve, stream, application
<1>2. /\ n \in Nat /\ Len(requests) \in Nat
      /\ requests[n + 1] = Ask(op, f) /\ op \in {"Open", "Sensor", "Close"} /\ f \in Files
      /\ Servable(Ask(op, f), n) /\ Asked.attached = IF op = "Open" THEN f ELSE None
  <2>1. Asked = Ask(op, f)
    BY <1>1, AskedIsServable
  <2>2. Ask(op, f).attached = IF op = "Open" THEN f ELSE None
    BY DEF Ask
  <2> QED
    BY <1>1, <2>1, <2>2, AskedIsServable
<1>3. /\ pending' \in Results /\ pending' # None
      /\ bound' = CASE op = "Open" -> [bound EXCEPT ![f] = f]
                    [] op = "Close" -> [bound EXCEPT ![f] = None]
                    [] OTHER -> bound
  BY <1>2, ServesGrants, NothingApart
<1> HIDE DEF n, f, op
<1>4. bound \in [Files -> Files \cup {None}] /\ bound' \in [Files -> Files \cup {None}]
  BY <1>2, <1>3 DEF IInv, Typed
<1>5. Typed'
  BY <1>1, <1>3, <1>4 DEF IInv, Typed
<1>6. Served = n /\ Served' = n + 1
  BY <1>1, <1>2, <1>3 DEF Served, n
<1>7. Counted'
  BY <1>1, <1>2, <1>6 DEF IInv, Counted, MayAsk
<1>8. TableFollows'
  <2>1. ASSUME NEW g \in Files
        PROVE  bound'[g] # None <=> g \in OpenAfter(n + 1)
    <3>1. bound[g] # None <=> g \in OpenAfter(n)
      BY <1>1, <1>6 DEF IInv, TableFollows
    <3>2. g \in OpenAfter(n + 1) <=>
            CASE op = "Open" -> g \in OpenAfter(n) \/ g = f
              [] op = "Close" -> g \in OpenAfter(n) /\ g # f
              [] OTHER -> g \in OpenAfter(n)
      BY <1>2, OpenOneMore
    <3>3. bound'[g] # None <=>
            CASE op = "Open" -> bound[g] # None \/ g = f
              [] op = "Close" -> bound[g] # None /\ g # f
              [] OTHER -> bound[g] # None
      BY <1>2, <1>3, <1>4, NothingApart
    <3> QED
      BY <1>2, <3>1, <3>2, <3>3
  <2>2. \A g \in Files : bound'[g] # None <=> g \in OpenAfter(Served)'
    <3>1. OpenAfter(Served)' = OpenAfter(n + 1)
      BY <1>1, <1>6 DEF OpenAfter, AskedBy
    <3> QED
      BY <2>1, <3>1
  <2>3. (\A k \in DOMAIN requests : Servable(requests[k], k - 1))'
    BY <1>1, ZenonT(60) DEF IInv, TableFollows, Servable, OpenAfter, AskedBy
  <2>4. (sending # None => Servable(sending, Len(requests)))'
    BY <1>1 DEF IInv, TableFollows, Servable, OpenAfter, AskedBy
  <2> QED
    BY <1>1, <2>2, <2>3, <2>4 DEF TableFollows
<1>9. BlameKnown' /\ OnlyCulpritsGivenUp'
  BY <1>1 DEF IInv, BlameKnown, OnlyCulpritsGivenUp
<1>10. EdgesRise' /\ StreamFits'
  BY <1>1, StreamStill
<1> QED
  BY <1>5, <1>7, <1>8, <1>9, <1>10 DEF IInv

\* A step that leaves the requests and the table as they are, and the helper's
\* place among them, keeps what is said of the table.
LEMMA TableStill ==
  ASSUME IInv, UNCHANGED <<requests, bound, stopped>>, Served' = Served,
         stopped => pending' = None,
         sending' # None => Servable(sending', Len(requests))
  PROVE  TableFollows'
<1>1. ASSUME NEW k PROVE OpenAfter(k)' = OpenAfter(k) /\ \A o, g : AskedBy(k, o, g)' <=> AskedBy(k, o, g)
  BY DEF OpenAfter, AskedBy
<1>2. OpenAfter(Served)' = OpenAfter(Served)
  BY DEF OpenAfter, AskedBy
<1>3. (\A k \in DOMAIN requests : Servable(requests[k], k - 1))'
  BY ZenonT(60) DEF IInv, TableFollows, Servable, OpenAfter, AskedBy
<1>4. (sending # None => Servable(sending, Len(requests)))'
  BY DEF Servable, OpenAfter, AskedBy
<1> QED
  BY <1>2, <1>3, <1>4 DEF IInv, TableFollows

\* A part of the answer goes to the socket, or its last, and with it the answer.
LEMMA PublishesKeepsInvariant ==
  ASSUME IInv, Publishes
  PROVE  IInv'
<1> DEFINE n == Len(replies)
<1>1. /\ pending # None /\ put' = put + 1
      /\ UNCHANGED <<requests, bound, stopped, parts, got>>
      /\ UNCHANGED <<read, sending, timed, suspect, settled>>
      /\ ~stopped
  BY DEF Publishes, Publish, vars, application, IInv, TableFollows
<1>2. /\ replies \in Seq(Results) /\ pending \in Results /\ n \in Nat /\ read \in Nat
      /\ parts \in Nat \ {0} /\ put \in Nat /\ got \in Nat /\ edges \in Seq(Nat)
      /\ Len(edges) = n + 1 /\ read <= n
  BY <1>1 DEF IInv, Typed, EdgesRise, Counted
<1>3. PartsOf(pending) \in Nat /\ 1 <= PartsOf(pending) /\ PartsOf(pending) <= parts
  BY <1>2, PartsOfFits
<1>4. edges[n + 1] \in Nat /\ edges[read + 1] \in Nat
  BY <1>2
<1>5. /\ edges[read + 1] <= got /\ got <= put
      /\ edges[n + 1] <= put /\ put < edges[n + 1] + PartsOf(pending)
      /\ read < n => got < edges[read + 2]
  BY <1>1 DEF IInv, StreamFits
<1>6. BlameKnown' /\ OnlyCulpritsGivenUp'
  BY <1>1 DEF IInv, BlameKnown, OnlyCulpritsGivenUp
<1> HIDE DEF n
<1>7. CASE put' # edges[n + 1] + PartsOf(pending)
  <2>1. UNCHANGED <<replies, pending, edges>>
    BY <1>7 DEF Publishes, vars, n
  <2>2. Served' = Served /\ MayAsk' = MayAsk
    BY <1>1, <2>1 DEF Served, MayAsk
  <2>3. Typed'
    BY <1>1, <1>2, <2>1 DEF IInv, Typed
  <2>4. Counted'
    BY <1>1, <2>1, <2>2 DEF IInv, Counted
  <2>5. EdgesRise'
    BY <1>1, <2>1 DEF IInv, EdgesRise
  <2>6. StreamFits'
    <3>1. put' < edges[n + 1] + PartsOf(pending) /\ got <= put' /\ edges[n + 1] <= put'
      BY <1>1, <1>2, <1>3, <1>4, <1>5, <1>7
    <3>2. PartsOf(pending)' = PartsOf(pending)
      BY <1>1, <2>1 DEF PartsOf
    <3> QED
      BY <1>1, <1>5, <2>1, <3>1, <3>2 DEF StreamFits, n
  <2>7. TableFollows'
    BY <1>1, <2>1, <2>2, TableStill DEF IInv, TableFollows
  <2> QED
    BY <1>6, <2>3, <2>4, <2>5, <2>6, <2>7 DEF IInv
<1>8. CASE put' = edges[n + 1] + PartsOf(pending)
  <2>1. replies' = Append(replies, pending) /\ pending' = None /\ edges' = Append(edges, put')
    BY <1>8 DEF Publishes, Publish, n
  <2>2. /\ replies' \in Seq(Results) /\ Len(replies') = n + 1 /\ put' \in Nat
        /\ edges' \in Seq(Nat) /\ Len(edges') = n + 2 /\ edges'[n + 2] = put'
        /\ \A i \in 1 .. n + 1 : edges'[i] = edges[i]
    BY <1>1, <1>2, <2>1 DEF n
  <2>3. Served' = Served /\ MayAsk' = MayAsk
    BY <1>1, <1>2, <2>1, <2>2 DEF Served, MayAsk, n
  <2>4. Typed'
    BY <1>1, <2>1, <2>2 DEF IInv, Typed
  <2>5. Counted'
    BY <1>1, <1>2, <2>2, <2>3 DEF IInv, Counted
  <2>6. EdgesRise'
    <3>1. ASSUME NEW i \in 1 .. n + 2, NEW j \in 1 .. n + 2, i < j
          PROVE  edges'[i] < edges'[j] /\ edges'[j] - edges'[i] <= (j - i) * parts
      <4>1. i \in 1 .. n + 1 /\ edges'[i] = edges[i] /\ edges[i] \in Nat
        BY <1>2, <2>2, <3>1
      <4>2. CASE j # n + 2
        <5>1. j \in 1 .. n + 1 /\ edges'[j] = edges[j]
          BY <1>2, <2>2, <4>2
        <5> QED
          BY <1>2, <3>1, <4>1, <5>1 DEF IInv, EdgesRise
      <4>3. CASE j = n + 2
        <5>1. PICK k \in Nat : k = n + 1 - i
          BY <1>2, <4>1
        <5>2. k * parts \in Nat /\ (k + 1) * parts = k * parts + parts
          BY <1>2, <5>1, OneMore
        <5>3. edges[i] <= edges[n + 1] /\ edges[n + 1] - edges[i] <= k * parts
          <6>1. CASE i = n + 1
            BY <1>4, <5>1, <5>2, <6>1
          <6>2. CASE i # n + 1
            <7>1. /\ i \in 1 .. Len(edges) /\ n + 1 \in 1 .. Len(edges) /\ i < n + 1
                  /\ k \in Nat /\ k = (n + 1) - i
              BY <1>2, <4>1, <5>1, <6>2
            <7>2. edges[i] < edges[n + 1] /\ edges[n + 1] - edges[i] <= k * parts
              BY <7>1, EdgesApart, Zenon
            <7> QED
              BY <1>4, <4>1, <7>2
          <6> QED
            BY <6>1, <6>2
        <5>4. put' - edges[i] <= (k + 1) * parts /\ edges[i] < put'
          <6>1. PICK p \in Nat : p = k * parts
            BY <5>2
          <6>2. (k + 1) * parts = p + parts /\ edges[n + 1] - edges[i] <= p
            BY <5>2, <5>3, <6>1
          <6>3. put' = edges[n + 1] + PartsOf(pending) /\ edges[i] \in Nat
            BY <1>8, <4>1
          <6>4. put' - edges[i] <= p + parts /\ edges[i] < put'
            <7>1. edges[i] <= edges[n + 1] /\ edges[n + 1] - edges[i] <= p
              BY <5>3, <6>2
            <7>2. parts \in Nat
              BY <1>2
            <7> QED
              BY <1>3, <1>4, <6>3, <7>1, <7>2
          <6> QED
            BY <6>2, <6>4
        <5>5. k + 1 = j - i
          BY <1>2, <4>1, <4>3, <5>1
        <5> QED
          BY <2>2, <4>1, <4>3, <5>4, <5>5
      <4> QED
        BY <4>2, <4>3
    <3> QED
      BY <1>1, <1>2, <2>2, <3>1 DEF EdgesRise
  <2>7. StreamFits'
    <3>1. edges'[read + 1] = edges[read + 1]
      BY <1>2, <2>2
    <3>2. read < n + 1 => got < edges'[read + 2]
      <4>1. CASE read = n
        <5>1. edges'[read + 2] = put'
          BY <2>2, <4>1
        <5> QED
          BY <1>1, <1>2, <1>5, <5>1
      <4>2. CASE read # n
        <5>1. read < n /\ read + 2 \in 1 .. n + 1
          BY <1>2, <4>2
        <5>2. edges'[read + 2] = edges[read + 2]
          BY <2>2, <5>1
        <5> QED
          BY <1>5, <5>1, <5>2
      <4> QED
        BY <4>1, <4>2
    <3>3. got <= put' /\ put' <= put' /\ put' < put' + 1
      BY <1>1, <1>2, <1>5
    <3>4. (n + 1) + 1 = n + 2
      BY <1>2
    <3> QED
      BY <1>1, <1>5, <2>1, <2>2, <3>1, <3>2, <3>3, <3>4 DEF StreamFits
  <2>8. TableFollows'
    BY <1>1, <2>1, <2>3, TableStill DEF IInv, TableFollows
  <2> QED
    BY <1>6, <2>4, <2>5, <2>6, <2>7, <2>8 DEF IInv
<1> QED
  BY <1>7, <1>8

\* The helper ends, in the hand of a decoder or killed, while it is blamed for
\* the request it has or for the one that was waited for too long.
LEMMA StopKeepsInvariant ==
  ASSUME IInv, Stop, UNCHANGED <<stream, application>>,
         \/ suspect # 0
         \/ Len(replies) < Len(requests) /\ Asked.request.id \in Crashing
  PROVE  IInv'
<1>1. /\ stopped' = TRUE /\ pending' = None /\ bound' = [id \in Ids |-> None]
      /\ UNCHANGED <<requests, replies, stream, parts, put, got, edges>>
      /\ UNCHANGED <<read, sending, timed, suspect, settled>>
  BY DEF Stop, stream, application
<1>2. replies \in Seq(Results) /\ Len(replies) \in Nat /\ requests \in Seq(Questions)
  BY DEF IInv, Typed
<1>3. Typed'
  BY <1>1, NothingApart DEF IInv, Typed
<1>4. Counted'
  <2>1. Served' <= Served
    BY <1>1, <1>2 DEF Served
  <2>2. Served' \in Nat /\ Served \in Nat /\ Len(requests) \in Nat
    BY <1>1, <1>2 DEF Served
  <2> QED
    BY <1>1, <2>1, <2>2 DEF IInv, Counted, MayAsk
<1>5. TableFollows'
  <2>1. \A f \in Files : bound'[f] = None
    BY <1>1, NothingApart
  <2>2. (\A k \in DOMAIN requests : Servable(requests[k], k - 1))'
    BY <1>1, ZenonT(60) DEF IInv, TableFollows, Servable, OpenAfter, AskedBy
  <2>3. (sending # None => Servable(sending, Len(requests)))'
    BY <1>1 DEF IInv, TableFollows, Servable, OpenAfter, AskedBy
  <2> QED
    BY <1>1, <2>1, <2>2, <2>3 DEF TableFollows
<1>6. BlameKnown'
  BY <1>1 DEF IInv, BlameKnown, Asked
<1>7. OnlyCulpritsGivenUp'
  BY <1>1 DEF IInv, OnlyCulpritsGivenUp
<1>8. EdgesRise' /\ StreamFits'
  BY <1>1, StreamStill
<1> QED
  BY <1>3, <1>4, <1>5, <1>6, <1>7, <1>8 DEF IInv

-----------------------------------------------------------------------------
(* The application                                                         *)

\* The timer suspects the request the helper has.
LEMMA TimesOutKeepsInvariant ==
  ASSUME IInv, TimesOut
  PROVE  IInv'
<1>1. /\ ~stopped /\ Len(replies) < Len(requests) /\ Asked.request.id \in Slow
      /\ read = Len(replies) /\ suspect' = read + 1
      /\ UNCHANGED <<requests, replies, bound, pending, stopped, read, sending, timed, settled>>
      /\ UNCHANGED <<stream, parts, put, got, edges>>
  BY DEF TimesOut, Asks, vars, stream
<1>2. Asked = requests[read + 1] /\ read + 1 \in DOMAIN requests /\ read + 1 \in Nat
  BY <1>1, AskedIsServable DEF IInv, Typed
<1>3. Typed'
  BY <1>1, <1>2 DEF IInv, Typed
<1>4. Counted' /\ Served' = Served
  BY <1>1 DEF IInv, Counted, MayAsk, Served
<1>5. TableFollows'
  BY <1>1, <1>4, TableStill DEF IInv, TableFollows
<1>6. BlameKnown' /\ OnlyCulpritsGivenUp'
  BY <1>1, <1>2 DEF IInv, BlameKnown, OnlyCulpritsGivenUp
<1>7. EdgesRise' /\ StreamFits'
  BY <1>1, StreamStill
<1> QED
  BY <1>3, <1>4, <1>5, <1>6, <1>7 DEF IInv

\* The application begins a request only when it may ask.
LEMMA BeginsKeepsInvariant ==
  ASSUME IInv, Begins
  PROVE  IInv'
<1>1. /\ MayAsk
      /\ UNCHANGED <<requests, replies, bound, pending, stopped, read, timed, suspect, settled>>
      /\ UNCHANGED <<stream, parts, put, got, edges>>
  BY DEF Begins, vars, stream
<1>2. sending' \in Questions /\ Servable(sending', Len(requests))
  <2>1. PICK f \in Files : sending' \in Work(f)
    BY DEF Begins
  <2>2. PICK m \in Work(f) : m = sending'
    BY <2>1
  <2>3. m \in Questions /\ Servable(m, Len(requests))
    BY <2>2, WorkIsServable
  <2> QED
    BY <2>2, <2>3
<1>3. Typed'
  BY <1>1, <1>2 DEF IInv, Typed
<1>4. Counted' /\ Served' = Served
  BY <1>1 DEF IInv, Counted, MayAsk, Served
<1>5. TableFollows'
  BY <1>1, <1>2, <1>4, TableStill DEF IInv, TableFollows
<1>6. BlameKnown' /\ OnlyCulpritsGivenUp'
  BY <1>1 DEF IInv, BlameKnown, OnlyCulpritsGivenUp, Asked
<1>7. EdgesRise' /\ StreamFits'
  BY <1>1, StreamStill
<1> QED
  BY <1>3, <1>4, <1>5, <1>6, <1>7 DEF IInv

\* send() puts in the socket what the application began.
LEMMA WritesKeepsInvariant ==
  ASSUME IInv, Writes
  PROVE  IInv'
<1> DEFINE n == Len(requests)
<1>1. /\ sending # None /\ ~stopped /\ requests' = Append(requests, sending) /\ sending' = None
      /\ UNCHANGED <<replies, bound, pending, stopped, read, timed, suspect, settled>>
      /\ UNCHANGED <<stream, parts, put, got, edges>>
  BY DEF Writes, stream
<1>2. /\ requests \in Seq(Questions) /\ sending \in Questions /\ n \in Nat
      /\ replies \in Seq(Results) /\ Len(replies) \in Nat
  BY <1>1 DEF IInv, Typed
<1>3. /\ requests' \in Seq(Questions) /\ Len(requests') = n + 1
      /\ requests'[n + 1] = sending /\ \A i \in 1 .. n : requests'[i] = requests[i]
      /\ DOMAIN requests' = 1 .. n + 1 /\ DOMAIN requests = 1 .. n
  BY <1>1, <1>2
<1>4. Typed'
  BY <1>1, <1>3 DEF IInv, Typed
<1>5. Served' = Served /\ Served \in Nat /\ Served <= n
  BY <1>1, <1>2 DEF IInv, Counted, Served
<1> HIDE DEF n
<1>6. Counted'
  BY <1>1, <1>2, <1>3, <1>5 DEF IInv, Counted
<1>7. ASSUME NEW k \in 0 .. n
      PROVE  OpenAfter(k)' = OpenAfter(k) /\ \A o, g : AskedBy(k, o, g)' <=> AskedBy(k, o, g)
  <2>1. k \in Nat /\ \A i \in 1 .. k : requests'[i] = requests[i]
    BY <1>2, <1>3
  <2> QED
    BY <2>1, AskedBefore
<1>8. ASSUME NEW m, NEW k \in 0 .. n, Servable(m, k)
      PROVE  Servable(m, k)'
  BY <1>7, <1>8 DEF Servable
<1>9. TableFollows'
  <2>1. \A f \in Files : bound'[f] # None <=> f \in OpenAfter(Served)'
    <3>1. Served \in 0 .. n
      BY <1>2, <1>5
    <3>2. PICK k \in 0 .. n : k = Served /\ k = Served'
      BY <1>5, <3>1
    <3>3. OpenAfter(Served)' = OpenAfter(k)' /\ OpenAfter(Served) = OpenAfter(k)
      BY <3>2 DEF OpenAfter, AskedBy
    <3> QED
      BY <1>1, <1>7, <3>3 DEF IInv, TableFollows
  <2>2. ASSUME NEW k \in DOMAIN requests'
        PROVE  Servable(requests[k], k - 1)'
    <3>1. k - 1 \in 0 .. n
      BY <1>2, <1>3
    <3>2. PICK m \in Questions : m = requests'[k]
      BY <1>3
    <3>3. Servable(m, k - 1)
      <4>1. CASE k = n + 1
        <5>1. k - 1 = n /\ m = sending
          BY <1>2, <1>3, <3>2, <4>1
        <5> QED
          BY <1>1, <5>1 DEF IInv, TableFollows, n
      <4>2. CASE k # n + 1
        <5>1. k \in DOMAIN requests /\ m = requests[k]
          BY <1>2, <1>3, <3>2, <4>2
        <5> QED
          BY <5>1 DEF IInv, TableFollows
      <4> QED
        BY <4>1, <4>2
    <3>4. Servable(m, k - 1)'
      BY <1>8, <3>1, <3>3
    <3> QED
      BY <3>2, <3>4
  <2> QED
    BY <1>1, <2>1, <2>2 DEF IInv, TableFollows
<1>10. BlameKnown'
  <2>1. suspect # 0 => suspect \in DOMAIN requests' /\ requests'[suspect] = requests[suspect]
    BY <1>2, <1>3 DEF IInv, BlameKnown
  <2> QED
    BY <1>1, <2>1 DEF IInv, BlameKnown
<1>11. OnlyCulpritsGivenUp'
  BY <1>1 DEF IInv, OnlyCulpritsGivenUp
<1>12. EdgesRise' /\ StreamFits'
  BY <1>1, StreamStill
<1> QED
  BY <1>4, <1>6, <1>9, <1>10, <1>11, <1>12 DEF IInv

\* A reply received gives up no file: none of them is a failure.
LEMMA ReceivesGivesUpNone ==
  ASSUME IInv, Receives, read < Len(replies)
  PROVE  /\ settled' \in [Files -> {"waiting", "read", "given_up"}]
         /\ \A g \in Files : settled'[g] = "given_up" => settled[g] = "given_up"
<1> DEFINE f == requests[read + 1].request.id
           reply == replies[read + 1].reply
<1>1. settled' = [settled EXCEPT ![f] =
           CASE @ = "waiting" /\ reply.kind = "Sensor" -> "read"
             [] @ = "waiting" /\ reply.kind = "Failed" -> "given_up"
             [] OTHER -> @]
  BY DEF Receives
<1>2. /\ read \in Nat /\ Len(replies) \in Nat /\ Len(requests) \in Nat
      /\ replies \in Seq(Results) /\ requests \in Seq(Questions)
      /\ Served <= Len(requests) /\ Len(replies) <= Served /\ read + 1 \in DOMAIN replies
  BY DEF IInv, Typed, Counted, Served
<1>3. replies[read + 1] \in Results /\ requests[read + 1] \in Questions
  <2>1. Served \in Nat
    BY <1>2 DEF Served
  <2>2. read + 1 \in 1 .. Len(requests)
    BY <1>2, <2>1
  <2> QED
    BY <1>2, <2>2
<1>4. reply.kind # "Failed" /\ f \in Files
  <2>1. reply.kind \in {"Opened", "Sensor", "Closed"}
    BY <1>3 DEF Results
  <2> QED
    BY <1>3, <2>1, QuestionTypes
<1> HIDE DEF f, reply
<1>5. settled \in [Files -> {"waiting", "read", "given_up"}]
  BY DEF IInv, Typed
<1> QED
  BY <1>1, <1>4, <1>5

\* The application reads a part of a reply, or its last.
LEMMA ReadsKeepsInvariant ==
  ASSUME IInv, Reads
  PROVE  IInv'
<1> DEFINE n == Len(replies)
<1>1. /\ sending = None \/ stopped
      /\ got < put /\ got' = got + 1
      /\ UNCHANGED <<requests, replies, bound, pending, stopped, sending, timed, suspect>>
      /\ UNCHANGED <<parts, put, edges>>
  BY DEF Reads, vars
<1>2. /\ read \in Nat /\ n \in Nat /\ Len(requests) \in Nat /\ read <= n
      /\ parts \in Nat \ {0} /\ put \in Nat /\ got \in Nat /\ edges \in Seq(Nat)
      /\ Len(edges) = n + 1 /\ timed \in BOOLEAN /\ ToHelper \in Nat /\ ToApp \in Nat
  BY SessionAssumption DEF IInv, Typed, EdgesRise, Counted
<1>3. /\ edges[read + 1] \in Nat /\ edges[read + 1] <= got
      /\ read < n => got < edges[read + 2]
  BY <1>2 DEF IInv, StreamFits
<1> HIDE DEF n
<1>4. /\ read' \in {read, read + 1} /\ read' <= n
      /\ edges[read' + 1] <= got'
      /\ read' < n => got' < edges[read' + 2]
      /\ settled' \in [Files -> {"waiting", "read", "given_up"}]
      /\ \A g \in Files : settled'[g] = "given_up" => settled[g] = "given_up"
  <2>1. CASE read < n /\ got' = edges[read + 2]
    <3>1. Receives /\ read' = read + 1
      BY <2>1 DEF Reads, Receives, n
    <3>2. (read + 1) + 1 = read + 2 /\ read + 1 <= n
      BY <1>2, <2>1
    <3>3. read + 1 < n => got' < edges[(read + 1) + 2]
      <4>1. ASSUME read + 1 < n PROVE edges[read + 2] < edges[(read + 1) + 2]
        <5>1. /\ read + 2 \in 1 .. Len(edges) /\ (read + 1) + 2 \in 1 .. Len(edges)
              /\ read + 2 < (read + 1) + 2
          BY <1>2, <4>1
        <5> QED
          BY <5>1 DEF IInv, EdgesRise
      <4> QED
        BY <2>1, <4>1
    <3>4. edges[read + 2] <= got'
      BY <1>1, <1>2, <2>1
    <3> QED
      BY <2>1, <3>1, <3>2, <3>3, <3>4, ReceivesGivesUpNone DEF n
  <2>2. CASE ~(read < n /\ got' = edges[read + 2])
    <3>1. UNCHANGED <<read, settled>>
      BY <2>2 DEF Reads, n
    <3>2. read < n => edges[read + 2] \in Nat
      BY <1>2
    <3>3. edges[read + 1] <= got' /\ (read < n => got' < edges[read + 2])
      BY <1>1, <1>2, <1>3, <2>2, <3>2
    <3>4. settled \in [Files -> {"waiting", "read", "given_up"}]
      BY DEF IInv, Typed
    <3> QED
      BY <1>2, <3>1, <3>3, <3>4
  <2> QED
    BY <2>1, <2>2
<1>5. Typed'
  <2>1. read' \in Nat /\ got' \in Nat
    BY <1>1, <1>2, <1>4
  <2> QED
    BY <1>1, <1>4, <2>1 DEF IInv, Typed
<1>6. Served' = Served
  BY <1>1 DEF Served
<1>7. Counted'
  <2>1. MayAsk => MayAsk'
    <3>1. CASE timed
      BY <1>1, <1>2, <1>4, <3>1 DEF MayAsk
    <3>2. CASE ~timed
      <4>1. Len(requests) - read' - ToHelper \in Int /\ Len(requests) - read - ToHelper \in Int
        BY <1>2, <1>4
      <4> PICK k \in Int : k = Len(requests) - read' - ToHelper
        BY <4>1, Zenon
      <4> PICK m \in Int : m = Len(requests) - read - ToHelper
        BY <4>1, Zenon
      <4>2. k <= m
        BY <1>2, <1>4
      <4>3. k * parts \in Int /\ m * parts \in Int /\ k * parts <= m * parts
        BY <1>2, <4>2, Monotone
      <4>4. MayAsk <=> m * parts <= ToApp
        BY <3>2 DEF MayAsk
      <4>5. MayAsk' <=> k * parts <= ToApp
        BY <1>1, <3>2 DEF MayAsk
      <4> QED
        BY <1>2, <4>3, <4>4, <4>5
    <3> QED
      BY <3>1, <3>2
  <2> QED
    BY <1>1, <1>4, <1>6, <2>1 DEF IInv, Counted, n
<1>8. EdgesRise'
  BY <1>1 DEF IInv, EdgesRise
<1>9. StreamFits'
  <2>1. got' <= put
    BY <1>1, <1>2
  <2>2. PartsOf(pending)' = PartsOf(pending)
    BY <1>1 DEF PartsOf
  <2> QED
    BY <1>1, <1>4, <2>1, <2>2 DEF IInv, StreamFits, n
<1>10. TableFollows'
  BY <1>1, <1>6, TableStill DEF IInv, TableFollows
<1>11. BlameKnown'
  BY <1>1 DEF IInv, BlameKnown, Asked
<1>12. OnlyCulpritsGivenUp'
  BY <1>4 DEF IInv, OnlyCulpritsGivenUp
<1> QED
  BY <1>5, <1>7, <1>8, <1>9, <1>10, <1>11, <1>12 DEF IInv

\* At the end of the stream, all replies have been received.
LEMMA AllReceived ==
  ASSUME IInv, Eof
  PROVE  read = Len(replies)
<1>1. /\ read \in Nat /\ Len(replies) \in Nat /\ read <= Len(replies)
      /\ put \in Nat /\ edges \in Seq(Nat) /\ Len(edges) = Len(replies) + 1
  BY DEF IInv, Typed, Counted, EdgesRise
<1>2. got = put /\ edges[Len(replies) + 1] <= put
  BY DEF Eof, IInv, StreamFits
<1>3. ASSUME read < Len(replies) PROVE FALSE
  <2>1. read + 2 \in 1 .. Len(edges) /\ Len(replies) + 1 \in 1 .. Len(edges)
    BY <1>1, <1>3
  <2>2. edges[read + 2] \in Nat /\ edges[Len(replies) + 1] \in Nat
    BY <1>1, <2>1
  <2>3. edges[read + 2] <= edges[Len(replies) + 1]
    <3>1. CASE read + 2 = Len(replies) + 1
      BY <2>2, <3>1
    <3>2. CASE read + 2 # Len(replies) + 1
      <4>1. read + 2 < Len(replies) + 1
        BY <1>1, <1>3, <3>2
      <4>2. edges[read + 2] < edges[Len(replies) + 1]
        BY <2>1, <4>1 DEF IInv, EdgesRise
      <4> QED
        BY <2>2, <4>2
    <3> QED
      BY <3>1, <3>2
  <2>4. got < edges[read + 2]
    BY <1>3 DEF IInv, StreamFits
  <2> QED
    BY <1>1, <1>2, <2>2, <2>3, <2>4
<1> QED
  BY <1>1, <1>3

\* Of a helper that has ended, the file given up is the one that cost it.
LEMMA RestartsKeepsInvariant ==
  ASSUME IInv, Restarts
  PROVE  IInv'
<1> DEFINE n == IF suspect # 0 THEN suspect ELSE read + 1
           culprit == requests[n].request.id
<1>1. /\ stopped /\ read = Len(replies)
      /\ settled' = [settled EXCEPT ![culprit] = IF @ = "waiting" THEN "given_up" ELSE @]
      /\ requests' = <<>> /\ replies' = <<>> /\ stopped' = FALSE
      /\ put' = 0 /\ got' = 0 /\ edges' = <<0>>
      /\ read' = 0 /\ sending' = None /\ suspect' = 0
      /\ UNCHANGED <<bound, pending, parts, timed>>
  BY AllReceived DEF Restarts, Eof
<1>2. /\ requests \in Seq(Questions) /\ Len(requests) \in Nat
      /\ settled \in [Files -> {"waiting", "read", "given_up"}]
      /\ timed \in BOOLEAN /\ bound \in [Files -> Files \cup {None}] /\ parts \in Nat \ {0}
  BY DEF IInv, Typed
<1>3. culprit \in Files /\ culprit \in Crashing \cup Slow
  <2>1. CASE suspect # 0
    BY <1>2, <2>1, QuestionTypes DEF IInv, BlameKnown
  <2>2. CASE suspect = 0
    <3>1. Len(replies) < Len(requests) /\ Asked.request.id \in Crashing
      BY <1>1, <2>2 DEF IInv, BlameKnown
    <3>2. Asked = requests[n] /\ Asked.request.id \in Files
      BY <1>1, <2>2, <3>1, AskedIsServable
    <3> QED
      BY <3>1, <3>2
  <2> QED
    BY <2>1, <2>2
<1> HIDE DEF culprit, n
<1>4. /\ settled' \in [Files -> {"waiting", "read", "given_up"}]
      /\ \A g \in Files : settled'[g] = "given_up" => settled[g] = "given_up" \/ g = culprit
  BY <1>1, <1>2, <1>3
<1>5. pending = None /\ \A f \in Files : bound[f] = None
  BY <1>1 DEF IInv, TableFollows
<1>6. Len(requests') = 0 /\ DOMAIN requests' = {} /\ Len(replies') = 0
  BY <1>1
<1>7. Typed'
  <2>1. requests' \in Seq(Questions) /\ replies' \in Seq(Results) /\ edges' \in Seq(Nat)
    BY <1>1
  <2> QED
    BY <1>1, <1>2, <1>4, <1>5, <2>1 DEF Typed
<1>8. Served' = 0 /\ Counted'
  BY <1>1, <1>5, <1>6 DEF Served, Counted
<1>9. TableFollows'
  <2>1. OpenAfter(Served)' = {}
    BY <1>8 DEF OpenAfter, AskedBy
  <2> QED
    BY <1>1, <1>5, <1>6, <2>1 DEF TableFollows
<1>10. BlameKnown'
  BY <1>1 DEF BlameKnown
<1>11. OnlyCulpritsGivenUp'
  BY <1>3, <1>4 DEF IInv, OnlyCulpritsGivenUp
<1>12. EdgesRise' /\ StreamFits'
  BY <1>1, <1>5, <1>6 DEF EdgesRise, StreamFits
<1> QED
  BY <1>7, <1>8, <1>9, <1>10, <1>11, <1>12 DEF IInv

-----------------------------------------------------------------------------
(* The theorems                                                            *)

\* A session begins with nothing asked, nothing open and no file settled.
LEMMA InitInvariant ==
  ASSUME SessionInit
  PROVE  IInv
<1>1. /\ requests = <<>> /\ replies = <<>> /\ bound = [id \in Ids |-> None]
      /\ pending = None /\ stopped = FALSE
      /\ parts \in Nat \ {0} /\ put = 0 /\ got = 0 /\ edges = <<0>>
      /\ read = 0 /\ sending = None /\ timed \in BOOLEAN /\ suspect = 0
      /\ settled = [f \in Files |-> "waiting"]
  BY SessionAssumption DEF SessionInit, Init
<1>2. Len(requests) = 0 /\ DOMAIN requests = {} /\ Len(replies) = 0 /\ Served = 0
  BY <1>1 DEF Served
<1>3. Typed
  <2>1. requests \in Seq(Questions) /\ replies \in Seq(Results) /\ edges \in Seq(Nat)
    BY <1>1
  <2>2. bound \in [Files -> Files \cup {None}]
    BY <1>1, NothingApart
  <2>3. settled \in [Files -> {"waiting", "read", "given_up"}]
    BY <1>1
  <2> QED
    BY <1>1, <2>1, <2>2, <2>3 DEF Typed
<1>4. Counted
  BY <1>1, <1>2 DEF Counted
<1>5. TableFollows
  <2>1. OpenAfter(Served) = {}
    BY <1>2 DEF OpenAfter, AskedBy
  <2> QED
    BY <1>1, <1>2, <2>1, NothingApart DEF TableFollows
<1>6. BlameKnown /\ OnlyCulpritsGivenUp
  BY <1>1 DEF BlameKnown, OnlyCulpritsGivenUp
<1>7. EdgesRise /\ StreamFits
  BY <1>1, <1>2 DEF EdgesRise, StreamFits
<1> QED
  BY <1>3, <1>4, <1>5, <1>6, <1>7 DEF IInv

\* A step that changes nothing keeps the invariant.
LEMMA StutterKeepsInvariant ==
  ASSUME IInv, UNCHANGED sessionVars
  PROVE  IInv'
<1>1. /\ UNCHANGED <<requests, replies, bound, pending, stopped, stream, parts, put, got, edges>>
      /\ UNCHANGED <<read, sending, timed, suspect, settled>>
  BY DEF sessionVars, vars, stream, application
<1>2. Typed'
  BY <1>1 DEF IInv, Typed
<1>3. Served' = Served /\ Counted'
  BY <1>1 DEF IInv, Counted, MayAsk, Served
<1>4. TableFollows'
  BY <1>1, <1>3, TableStill DEF IInv, TableFollows
<1>5. BlameKnown' /\ OnlyCulpritsGivenUp'
  BY <1>1 DEF IInv, BlameKnown, OnlyCulpritsGivenUp, Asked
<1>6. EdgesRise' /\ StreamFits'
  BY <1>1, StreamStill
<1> QED
  BY <1>2, <1>3, <1>4, <1>5, <1>6 DEF IInv

\* Every step of the helper, of the application and of its timer keeps it.
LEMMA NextKeepsInvariant ==
  ASSUME IInv, [SessionNext]_sessionVars
  PROVE  IInv'
<1>1. CASE Serves
  BY <1>1, ServesKeepsInvariant
<1>2. CASE Publishes
  BY <1>2, PublishesKeepsInvariant
<1>3. CASE Dies
  BY <1>3, StopKeepsInvariant DEF Dies, Asks
<1>4. CASE TimesOut
  BY <1>4, TimesOutKeepsInvariant
<1>5. CASE Begins
  BY <1>5, BeginsKeepsInvariant
<1>6. CASE Writes
  BY <1>6, WritesKeepsInvariant
<1>7. CASE Reads
  BY <1>7, ReadsKeepsInvariant
<1>8. CASE Kills
  BY <1>8, StopKeepsInvariant DEF Kills
<1>9. CASE Restarts
  BY <1>9, RestartsKeepsInvariant
<1>10. CASE UNCHANGED sessionVars
  BY <1>10, StutterKeepsInvariant
<1> QED
  BY <1>1, <1>2, <1>3, <1>4, <1>5, <1>6, <1>7, <1>8, <1>9, <1>10
  DEF SessionNext, Application, Over

\* The invariant holds of every session, with or without a timer.
THEOREM InductiveInvariant == SessionSpec => []IInv
<1>1. SessionInit => IInv
  BY InitInvariant
<1>2. IInv /\ [SessionNext]_sessionVars => IInv'
  BY NextKeepsInvariant
<1> QED
  BY <1>1, <1>2, PTL DEF SessionSpec

\* What the helper has written and the application has not read, while the helper is
\* in the middle of a reply, is less than the parts of the replies that remain.
LEMMA UnreadFits ==
  ASSUME IInv, ~stopped, pending # None
  PROVE  /\ Len(replies) - read + 1 \in Nat
         /\ put - got < (Len(replies) - read + 1) * parts
<1> DEFINE n == Len(replies)
<1>1. /\ read \in Nat /\ n \in Nat /\ read <= n /\ parts \in Nat \ {0}
      /\ put \in Nat /\ got \in Nat /\ edges \in Seq(Nat) /\ Len(edges) = n + 1
  BY DEF IInv, Typed, EdgesRise, Counted
<1>2. PartsOf(pending) \in Nat /\ PartsOf(pending) <= parts
  BY <1>1, PartsOfFits
<1>3. edges[read + 1] <= got /\ put < edges[n + 1] + PartsOf(pending)
  BY DEF IInv, StreamFits
<1> HIDE DEF n
<1>4. edges[read + 1] \in Nat /\ edges[n + 1] \in Nat
  BY <1>1
<1>5. PICK k \in Nat : k = n - read
  BY <1>1
<1>6. k * parts \in Nat /\ (k + 1) * parts = k * parts + parts
  BY <1>1, OneMore
<1>7. edges[n + 1] - edges[read + 1] <= k * parts
  <2>1. CASE read = n
    BY <1>4, <1>6, <2>1
  <2>2. CASE read # n
    <3>1. /\ read + 1 \in 1 .. Len(edges) /\ n + 1 \in 1 .. Len(edges) /\ read + 1 < n + 1
          /\ k = (n + 1) - (read + 1)
      BY <1>1, <1>5, <2>2
    <3> QED
      BY <3>1, EdgesApart
  <2> QED
    BY <2>1, <2>2
<1>8. put - got < (k + 1) * parts
  BY <1>1, <1>2, <1>3, <1>4, <1>6, <1>7
<1>9. k + 1 = n - read + 1 /\ k + 1 \in Nat
  BY <1>5
<1> QED
  BY <1>8, <1>9 DEF n

\* However many requests and parts of replies the socket holds, be a reply larger
\* than it or not, the application never waits to write a request to a helper that
\* waits to write a reply.
THEOREM NeverWaitForEachOther == SessionSpec => []NoMutualWait
<1>1. ASSUME IInv PROVE NoMutualWait
  <2>1. /\ Len(requests) \in Nat /\ Len(replies) \in Nat /\ read \in Nat /\ read <= Len(replies)
        /\ ToHelper \in Nat /\ ToApp \in Nat /\ timed \in BOOLEAN /\ parts \in Nat
        /\ put \in Nat /\ got \in Nat
    BY <1>1, SessionAssumption DEF IInv, Typed, Counted
  <2>2. ASSUME sending # None, ~stopped, Unserved >= ToHelper, pending # None, ~Room PROVE FALSE
    <3>1. MayAsk /\ Len(requests) - Len(replies) - 1 >= ToHelper /\ ~(put - got < ToApp)
      BY <1>1, <2>2 DEF IInv, Counted, Unserved, Room
    <3>2. CASE timed
      <4>1. Len(requests) - read <= ToHelper
        BY <3>1, <3>2 DEF MayAsk
      <4> QED
        BY <2>1, <3>1, <4>1
    <3>3. CASE ~timed
      <4>1. Len(replies) - read + 1 \in Int /\ Len(requests) - read - ToHelper \in Int
        BY <2>1
      <4> PICK k \in Int : k = Len(replies) - read + 1
        BY <4>1, Zenon
      <4> PICK m \in Int : m = Len(requests) - read - ToHelper
        BY <4>1, Zenon
      <4>2. k <= m
        BY <2>1, <3>1
      <4>3. k * parts \in Int /\ m * parts \in Int /\ k * parts <= m * parts
        BY <2>1, <4>2, Monotone
      <4>4. m * parts <= ToApp
        BY <3>1, <3>3 DEF MayAsk
      <4>5. put - got < k * parts
        BY <1>1, <2>2, UnreadFits
      <4> QED
        BY <2>1, <3>1, <4>3, <4>4, <4>5
    <3> QED
      BY <2>1, <3>2, <3>3
  <2> QED
    BY <2>2 DEF NoMutualWait
<1> QED
  BY <1>1, InductiveInvariant, PTL

\* A file is given up only when it took a helper down or kept one for too long,
\* however a kill races the answers.
THEOREM OthersAreNotGivenUp == SessionSpec => []OnlyCulpritsGivenUp
<1>1. IInv => OnlyCulpritsGivenUp
  BY DEF IInv
<1> QED
  BY <1>1, InductiveInvariant, PTL

\* No request of an application that counts its own Opens and Closes is refused,
\* for a table of any size.
THEOREM NothingIsRefused == SessionSpec => []NeverRefused
<1>1. ASSUME IInv PROVE NeverRefused
  <2>1. replies \in Seq(Results)
    BY <1>1 DEF IInv, Typed
  <2>2. ASSUME NEW n \in DOMAIN replies PROVE replies[n].reply.kind # "Failed"
    <3>1. replies[n] \in Results
      BY <2>1
    <3>2. replies[n].reply.kind \in {"Opened", "Sensor", "Closed"}
      BY <3>1 DEF Results
    <3> QED
      BY <3>2
  <2> QED
    BY <2>2 DEF NeverRefused
<1> QED
  BY <1>1, InductiveInvariant, PTL
=============================================================================
