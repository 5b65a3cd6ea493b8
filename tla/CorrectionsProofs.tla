------------------------- MODULE CorrectionsProofs --------------------------
(***************************************************************************)
(* Proofs about Corrections: what gain_maps() and lens() keep of a list,   *)
(* whatever opcodes it was written from and wherever it is cut.            *)
(***************************************************************************)
EXTENDS OpcodesProofs

-----------------------------------------------------------------------------
(* Sequences of units, and fields read of them                             *)

\* Two sequences joined: the units of one, then those of the other.
LEMMA Joined ==
  ASSUME NEW S, NEW s \in Seq(S), NEW t \in Seq(S)
  PROVE  /\ s \o t \in Seq(S) /\ Len(s \o t) = Len(s) + Len(t)
         /\ \A i \in 1 .. Len(s) : (s \o t)[i] = s[i]
         /\ \A i \in 1 .. Len(t) : (s \o t)[Len(s) + i] = t[i]
<1>1. /\ s \o t \in Seq(S) /\ Len(s \o t) = Len(s) + Len(t)
      /\ \A i \in 1 .. Len(s) + Len(t) :
           (s \o t)[i] = IF i <= Len(s) THEN s[i] ELSE t[i - Len(s)]
  BY ConcatProperties, Zenon
<1> DEFINE u == s \o t
           a == Len(s)
           b == Len(t)
<1>0. a \in Nat /\ b \in Nat
  BY LenProperties
<1>2. /\ u \in Seq(S) /\ Len(u) = a + b
      /\ \A i \in 1 .. a + b : u[i] = IF i <= a THEN s[i] ELSE t[i - a]
  BY <1>1
<1> HIDE DEF u, a, b
<1>3. \A i \in 1 .. a : u[i] = s[i]
  BY <1>0, <1>2
<1>4. ASSUME NEW i \in 1 .. b PROVE u[a + i] = t[i]
  <2>1. a + i \in 1 .. a + b /\ ~(a + i <= a) /\ (a + i) - a = i
    BY <1>0
  <2> QED
    BY <1>2, <2>1
<1> QED
  BY <1>2, <1>3, <1>4 DEF u, a, b

\* A short sequence is a function.
LEMMA TupleIsSeq ==
  ASSUME NEW S, NEW n \in Nat, NEW s \in [1 .. n -> S]
  PROVE  s \in Seq(S) /\ Len(s) = n /\ DOMAIN s = 1 .. n
OBVIOUS

Read == Unit \cup {Missing}

\* Fields that are wholly in the bytes are there, and no others.
LEMMA FieldsRead ==
  ASSUME NEW bytes \in Seq(Unit), NEW from \in Nat, NEW n \in Nat, NEW width \in {1, 2}
  PROVE  LET f == Fields(bytes, from, n, width)
         IN  /\ f \in Seq(Read) /\ Len(f) = n /\ DOMAIN f = 1 .. n
             /\ AllRead(f) <=> n = 0 \/ from + n * width <= Len(bytes)
             /\ from + n * width <= Len(bytes) =>
                  \A i \in 1 .. n : /\ f[i] = bytes[from + (i - 1) * width + 1]
                                    /\ f[i] \in Unit
<1> DEFINE f == Fields(bytes, from, n, width)
           b == Len(bytes)
<1>1. b \in Nat /\ \A i \in 1 .. b : bytes[i] \in Unit
  BY ElementOfSeq
<1>2. f = [i \in 1 .. n |-> IF from + (i - 1) * width + width <= b
                            THEN bytes[from + (i - 1) * width + 1] ELSE Missing]
  BY Zenon DEF Fields, Take
<1> HIDE DEF f, b
<1>3. ASSUME NEW i \in 1 .. n, from + (i - 1) * width + width <= b
      PROVE  f[i] = bytes[from + (i - 1) * width + 1] /\ f[i] \in Unit
  <2> DEFINE k == from + (i - 1) * width + 1
  <2>1. k \in 1 .. b
    <3>1. CASE width = 1
      BY <1>1, <1>3, <3>1
    <3>2. CASE width = 2
      BY <1>1, <1>3, <3>2
    <3> QED
      BY <3>1, <3>2
  <2>2. f[i] = bytes[k]
    BY <1>2, <1>3
  <2> HIDE DEF k
  <2> QED
    BY <1>1, <2>1, <2>2 DEF k
<1>4. ASSUME NEW i \in 1 .. n, ~(from + (i - 1) * width + width <= b)
      PROVE  f[i] = Missing
  BY <1>2, <1>4
<1>5. \A i \in 1 .. n : f[i] \in Read
  BY <1>3, <1>4 DEF Read
<1>6. f \in [1 .. n -> Read]
  BY <1>2, <1>5
<1>7. Missing \notin Unit
  BY ListsAssumption
<1>8. CASE from + n * width <= b
  <2>1. \A i \in 1 .. n : from + (i - 1) * width + width <= b
    <3>1. CASE width = 1
      BY <1>1, <1>8, <3>1
    <3>2. CASE width = 2
      BY <1>1, <1>8, <3>2
    <3> QED
      BY <3>1, <3>2
  <2>2. \A i \in 1 .. n : f[i] = bytes[from + (i - 1) * width + 1] /\ f[i] \in Unit
    BY <1>3, <2>1
  <2>3. AllRead(f)
    BY <1>6, <1>7, <2>2 DEF AllRead
  <2> QED
    BY <1>6, <1>8, <2>2, <2>3, TupleIsSeq DEF f, b
<1>9. CASE ~(from + n * width <= b)
  <2>1. AllRead(f) <=> n = 0
    <3>1. CASE n = 0
      BY <1>6, <3>1 DEF AllRead
    <3>2. CASE n # 0
      <4>1. n \in 1 .. n /\ ~(from + (n - 1) * width + width <= b)
        <5>1. CASE width = 1
          BY <1>1, <1>9, <3>2, <5>1
        <5>2. CASE width = 2
          BY <1>1, <1>9, <3>2, <5>2
        <5> QED
          BY <5>1, <5>2
      <4>2. f[n] = Missing /\ n \in DOMAIN f
        BY <1>4, <1>6, <4>1
      <4> QED
        BY <3>2, <4>2 DEF AllRead
    <3> QED
      BY <3>1, <3>2
  <2> QED
    BY <1>6, <1>9, <2>1, TupleIsSeq DEF f, b
<1> QED
  BY <1>8, <1>9

\* Of two runs of fields joined, all is read when all of each is; and so for
\* what is finite.
LEMMA AllOfJoined ==
  ASSUME NEW S, NEW s \in Seq(S), NEW t \in Seq(S)
  PROVE  /\ AllRead(s \o t) <=> AllRead(s) /\ AllRead(t)
         /\ AllFinite(s \o t) <=> AllFinite(s) /\ AllFinite(t)
         /\ s \o t \in Seq(S)
<1> DEFINE a == Len(s)
           b == Len(t)
           u == s \o t
<1>1. a \in Nat /\ b \in Nat /\ DOMAIN s = 1 .. a /\ DOMAIN t = 1 .. b
  BY LenProperties
<1>2. /\ u \in Seq(S) /\ Len(u) = a + b
      /\ \A i \in 1 .. a : u[i] = s[i]
      /\ \A i \in 1 .. b : u[a + i] = t[i]
  BY <1>1, Joined
<1>3. DOMAIN u = 1 .. a + b
  BY <1>2, LenProperties
<1> HIDE DEF a, b, u
<1>4. ASSUME NEW v PROVE (\A i \in DOMAIN u : u[i] # v) <=>
                           (\A i \in DOMAIN s : s[i] # v) /\ (\A i \in DOMAIN t : t[i] # v)
  <2>1. ASSUME \A i \in DOMAIN u : u[i] # v
        PROVE  (\A i \in DOMAIN s : s[i] # v) /\ (\A i \in DOMAIN t : t[i] # v)
    <3>1. \A i \in 1 .. a : i \in 1 .. a + b
      BY <1>1
    <3>2. \A i \in 1 .. b : a + i \in 1 .. a + b
      BY <1>1
    <3> QED
      BY <1>1, <1>2, <1>3, <2>1, <3>1, <3>2
  <2>2. ASSUME \A i \in DOMAIN s : s[i] # v, \A i \in DOMAIN t : t[i] # v,
               NEW i \in DOMAIN u
        PROVE  u[i] # v
    <3>1. CASE i <= a
      <4>1. i \in 1 .. a
        BY <1>1, <1>3, <3>1
      <4> QED
        BY <1>1, <1>2, <2>2, <4>1
    <3>2. CASE ~(i <= a)
      <4>1. i - a \in 1 .. b /\ a + (i - a) = i
        BY <1>1, <1>3, <3>2
      <4>2. u[a + (i - a)] = t[i - a]
        BY <1>2, <4>1
      <4> QED
        BY <1>1, <2>2, <4>1, <4>2
    <3> QED
      BY <3>1, <3>2
  <2> QED
    BY <2>1, <2>2
<1> QED
  BY <1>2, <1>4 DEF AllRead, AllFinite, u

\* So many units.
IsUnits(s, n) == s \in Seq(Unit) /\ n \in Nat /\ Len(s) = n

\* The first m of u are those of s, the next n those of t.
Joins(u, s, m, t, n) == /\ \A i \in 1 .. m : u[i] = s[i]
                        /\ \A i \in 1 .. n : u[m + i] = t[i]

\* Units joined to others.
LEMMA UnitsJoined ==
  ASSUME NEW s, NEW t, NEW m, NEW n, NEW k, IsUnits(s, m), IsUnits(t, n), k = m + n
  PROVE  IsUnits(s \o t, k) /\ Joins(s \o t, s, m, t, n)
<1>1. s \in Seq(Unit) /\ t \in Seq(Unit)
  BY DEF IsUnits
<1>2. m \in Nat /\ n \in Nat /\ Len(s) = m /\ Len(t) = n
  BY DEF IsUnits
<1>3. /\ s \o t \in Seq(Unit) /\ Len(s \o t) = Len(s) + Len(t)
      /\ \A i \in 1 .. Len(s) : (s \o t)[i] = s[i]
      /\ \A i \in 1 .. Len(t) : (s \o t)[Len(s) + i] = t[i]
  BY <1>1, Joined
<1> DEFINE u == s \o t
<1> HIDE DEF u
<1>4. /\ u \in Seq(Unit) /\ Len(u) = m + n
      /\ \A i \in 1 .. m : u[i] = s[i]
      /\ \A i \in 1 .. n : u[m + i] = t[i]
  BY <1>2, <1>3 DEF u
<1> QED
  BY <1>2, <1>4 DEF u, IsUnits, Joins


\* The part of a sequence that agrees with another one.
LEMMA PartIs ==
  ASSUME NEW S, NEW s, NEW t \in Seq(S), NEW m \in Nat, NEW n \in Nat,
         Len(t) = n, \A i \in 1 .. n : s[m + i] = t[i]
  PROVE  SubSeq(s, m + 1, m + n) = t
<1> DEFINE u == SubSeq(s, m + 1, m + n)
<1>1. \A i \in 1 .. n : t[i] \in S
  BY ElementOfSeq
<1>2. \A i \in m + 1 .. m + n : s[i] \in S
  <2>1. ASSUME NEW i \in m + 1 .. m + n PROVE s[i] \in S
    <3>1. i - m \in 1 .. n /\ m + (i - m) = i
      OBVIOUS
    <3>2. s[m + (i - m)] = t[i - m]
      BY <3>1
    <3> QED
      BY <1>1, <3>1, <3>2
  <2> QED
    BY <2>1
<1>3. /\ u \in Seq(S)
      /\ Len(u) = IF m + 1 <= m + n THEN (m + n) - (m + 1) + 1 ELSE 0
      /\ \A i \in 1 .. (m + n) - (m + 1) + 1 : u[i] = s[m + 1 + i - 1]
  <2>1. m + 1 \in Int /\ m + n \in Int
    OBVIOUS
  <2> QED
    BY <1>2, <2>1, SubSeqProperties
<1> HIDE DEF u
<1>4. Len(u) = n
  BY <1>3
<1>5. ASSUME NEW i \in 1 .. n PROVE u[i] = t[i]
  <2>1. i \in 1 .. (m + n) - (m + 1) + 1 /\ m + 1 + i - 1 = m + i
    OBVIOUS
  <2> QED
    BY <1>3, <2>1
<1>6. u = t
  BY <1>3, <1>4, <1>5, SeqEqual
<1> QED
  BY <1>6 DEF u

\* What is written as f64 fields: every other unit is a value.
LEMMA UnitsWide ==
  ASSUME NEW s, NEW n, NEW k, IsUnits(s, n), k = 2 * n
  PROVE  IsUnits(Wide(s), k) /\ \A i \in 1 .. n : Wide(s)[2 * i - 1] = s[i]
<1>1. s \in Seq(Unit) /\ n \in Nat /\ Len(s) = n
  BY DEF IsUnits
<1>2. /\ Wide(s) \in Seq(Unit) /\ Len(Wide(s)) = 2 * Len(s)
      /\ \A i \in 1 .. Len(s) : Wide(s)[2 * i - 1] = s[i]
  BY <1>1, WideIsUnits
<1> DEFINE w == Wide(s)
<1> HIDE DEF w
<1>3. w \in Seq(Unit) /\ Len(w) = 2 * n /\ \A i \in 1 .. n : w[2 * i - 1] = s[i]
  BY <1>1, <1>2 DEF w
<1> QED
  BY <1>1, <1>3 DEF w, IsUnits

\* A fixed number of values is so many units.
LEMMA UnitsOfFunction ==
  ASSUME NEW n \in Nat, NEW s \in [1 .. n -> Unit]
  PROVE  IsUnits(s, n)
BY TupleIsSeq DEF IsUnits

\* So is a fixed number of numbers.
LEMMA UnitsOfNumbers ==
  ASSUME NEW n \in Nat, NEW s \in [1 .. n -> Nat]
  PROVE  IsUnits(s, n)
<1>1. s \in [1 .. n -> Unit]
  BY DEF Unit
<1> QED
  BY <1>1, UnitsOfFunction

\* One value is one unit.
LEMMA UnitsOfOne ==
  ASSUME NEW x \in Unit
  PROVE  IsUnits(<<x>>, 1)
BY DEF IsUnits

\* Two values are two units.
LEMMA UnitsOfTwo ==
  ASSUME NEW x \in Unit, NEW y \in Unit
  PROVE  IsUnits(<<x, y>>, 2)
BY DEF IsUnits

\* The fields f are the n of this width that end at to, when those are there.
ReadFrom(f, bytes, from, n, width, to) ==
  /\ f \in Seq(Read) /\ Len(f) = n /\ DOMAIN f = 1 .. n
  /\ AllRead(f) <=> n = 0 \/ to <= Len(bytes)
  /\ to <= Len(bytes) =>
       \A i \in 1 .. n : f[i] = bytes[from + (i - 1) * width + 1] /\ f[i] \in Unit

\* From its unit m on, s has the units of t.
Has(s, m, t, n) == \A i \in 1 .. n : s[m + i] = t[i]

\* Its part from one place to another is t.
IsPart(s, from, to, t) == SubSeq(s, from, to) = t

\* What a sequence has from some unit on is its part there.
LEMMA PartFrom ==
  ASSUME NEW s, NEW t, NEW m \in Nat, NEW n, NEW from, NEW to,
         IsUnits(t, n), Has(s, m, t, n), from = m + 1, to = m + n
  PROVE  IsPart(s, from, to, t)
<1>1. t \in Seq(Unit) /\ n \in Nat /\ Len(t) = n /\ \A i \in 1 .. n : s[m + i] = t[i]
  BY DEF IsUnits, Has
<1>2. SubSeq(s, m + 1, m + n) = t
  BY <1>1, PartIs
<1> QED
  BY <1>2 DEF IsPart

\* What is read is what it should be, field by field.
LEMMA ReadEqual ==
  ASSUME NEW f, NEW t, NEW n, IsUnits(t, n), f \in Seq(Read), Len(f) = n, Has(f, 0, t, n)
  PROVE  f = t
<1>1. t \in Seq(Read) /\ n \in Nat /\ Len(t) = n
  BY DEF IsUnits, Read
<1>2. \A i \in 1 .. n : f[i] = t[i]
  BY <1>1 DEF Has
<1> QED
  BY <1>1, <1>2, SeqEqual

\* Fields end where their number and width say.
LEMMA FieldsTo ==
  ASSUME NEW bytes \in Seq(Unit), NEW from \in Nat, NEW n \in Nat, NEW width \in {1, 2},
         NEW to, to = from + n * width
  PROVE  ReadFrom(Fields(bytes, from, n, width), bytes, from, n, width, to)
<1> DEFINE f == Fields(bytes, from, n, width)
<1>1. /\ f \in Seq(Read) /\ Len(f) = n /\ DOMAIN f = 1 .. n
      /\ AllRead(f) <=> n = 0 \/ from + n * width <= Len(bytes)
      /\ from + n * width <= Len(bytes) =>
           \A i \in 1 .. n : f[i] = bytes[from + (i - 1) * width + 1] /\ f[i] \in Unit
  BY FieldsRead, Zenon
<1> HIDE DEF f
<1> QED
  BY <1>1 DEF f, ReadFrom

-----------------------------------------------------------------------------
(* A vignette                                                              *)

\* A vignette is read back as it was written, and skipped when it is cut or not
\* finite.
LEMMA VignetteRead ==
  ASSUME NEW op, op.id = FIX_VIGNETTE_RADIAL, op.body \in Seq(Unit),
         WrittenFrom(op, Vignettes, VignetteUnits(op.content))
  PROVE  RadialVignette(op.body) = IF Sound(op) THEN op.content ELSE Missing
<1> DEFINE c == op.content
           body == op.body
           b == Len(body)
           j == c.k \o c.centre
           units == Wide(j)
           v == Fields(body, 0, 7, F64)
<1>1. /\ c \in Vignettes /\ b \in Nat
      /\ \A i \in 1 .. b : i <= Len(units) => body[i] = units[i]
  BY Zenon, LenProperties DEF WrittenFrom, VignetteUnits
<1>2. /\ c.k \in [1 .. 5 -> Unit] /\ c.centre \in [1 .. 2 -> Unit]
      /\ c = [k |-> c.k, centre |-> c.centre]
  BY <1>1 DEF Vignettes
<1>3. /\ c.k \in Seq(Unit) /\ Len(c.k) = 5 /\ DOMAIN c.k = 1 .. 5
      /\ c.centre \in Seq(Unit) /\ Len(c.centre) = 2 /\ DOMAIN c.centre = 1 .. 2
  BY <1>2, TupleIsSeq
<1>4. /\ j \in Seq(Unit) /\ Len(j) = 7
      /\ \A i \in 1 .. 5 : j[i] = c.k[i]
      /\ \A i \in 1 .. 2 : j[5 + i] = c.centre[i]
      /\ AllFinite(j) <=> AllFinite(c.k) /\ AllFinite(c.centre)
  <2>1. IsUnits(c.k, 5) /\ IsUnits(c.centre, 2) /\ 7 = 5 + 2
    BY <1>3 DEF IsUnits
  <2>2. IsUnits(j, 7) /\ Joins(j, c.k, 5, c.centre, 2)
    BY <2>1, UnitsJoined
  <2>3. AllFinite(j) <=> AllFinite(c.k) /\ AllFinite(c.centre)
    BY <1>3, AllOfJoined, Zenon
  <2> HIDE DEF j
  <2> QED
    BY <2>2, <2>3 DEF IsUnits, Joins
<1> HIDE DEF j
<1>5. Len(units) = 14 /\ \A i \in 1 .. 7 : units[2 * i - 1] = j[i]
  <2>1. /\ Len(units) = 2 * Len(j)
        /\ \A i \in 1 .. Len(j) : units[2 * i - 1] = j[i]
    BY <1>4, WideIsUnits, Zenon
  <2> HIDE DEF units
  <2> QED
    BY <1>4, <2>1
<1> HIDE DEF c, body, units
<1>6. /\ v \in Seq(Read) /\ Len(v) = 7 /\ DOMAIN v = 1 .. 7
      /\ AllRead(v) <=> 0 + 7 * 2 <= b
      /\ 0 + 7 * 2 <= b => \A i \in 1 .. 7 : v[i] = body[0 + (i - 1) * 2 + 1]
  <2> DEFINE f == Fields(body, 0, 7, 2)
  <2>1. body \in Seq(Unit) /\ 0 \in Nat /\ 7 \in Nat /\ 2 \in {1, 2} /\ f = v
    BY DEF body, F64
  <2>2. /\ f \in Seq(Read) /\ Len(f) = 7 /\ DOMAIN f = 1 .. 7
        /\ AllRead(f) <=> 7 = 0 \/ 0 + 7 * 2 <= Len(body)
        /\ 0 + 7 * 2 <= Len(body) =>
             \A i \in 1 .. 7 : f[i] = body[0 + (i - 1) * 2 + 1] /\ f[i] \in Unit
    BY <2>1, FieldsRead, Zenon
  <2> HIDE DEF f, v
  <2> QED
    BY <2>1, <2>2 DEF b
<1>7. RadialVignette(body) = IF AllRead(v) /\ AllFinite(v)
                             THEN [k |-> SubSeq(v, 1, 5), centre |-> SubSeq(v, 6, 7)]
                             ELSE Missing
  BY Zenon DEF RadialVignette
<1>8. Sound(op) <=> b >= 14 /\ SoundVignette(c)
  <2>1. Sound(op) <=> Len(op.body) >= Len(VignetteUnits(op.content)) /\ SoundVignette(op.content)
    BY CorrectionsAssumption DEF Sound
  <2>2. Len(VignetteUnits(op.content)) = 14
    BY <1>5 DEF VignetteUnits, units, j, c
  <2> QED
    BY <2>1, <2>2 DEF c, body
<1> HIDE DEF b, v
<1>9. CASE b >= 14
  <2>1. ASSUME NEW i \in 1 .. 7 PROVE v[i] = j[i]
    <3>1. 0 + (i - 1) * 2 + 1 = 2 * i - 1 /\ 2 * i - 1 \in 1 .. b /\ 2 * i - 1 <= 14
      BY <1>1, <1>9 DEF b
    <3> QED
      BY <1>1, <1>5, <1>6, <1>9, <3>1
  <2>2. AllFinite(v) <=> SoundVignette(c)
    <3>1. DOMAIN j = 1 .. 7
      BY <1>4, LenProperties
    <3>2. AllFinite(v) <=> AllFinite(j)
      BY <1>6, <2>1, <3>1 DEF AllFinite
    <3>3. SoundVignette(c) <=> AllFinite(c.k) /\ AllFinite(c.centre)
      BY DEF SoundVignette, AllFinite, Range
    <3> QED
      BY <1>4, <3>2, <3>3
  <2>3. SubSeq(v, 1, 5) = c.k
    <3>1. \A i \in 1 .. 5 : v[0 + i] = c.k[i]
      BY <1>4, <2>1
    <3>2. SubSeq(v, 0 + 1, 0 + 5) = c.k
      BY <1>3, <3>1, PartIs
    <3> QED
      BY <3>2
  <2>4. SubSeq(v, 6, 7) = c.centre
    <3>1. \A i \in 1 .. 2 : v[5 + i] = c.centre[i]
      BY <1>4, <2>1
    <3>2. SubSeq(v, 5 + 1, 5 + 2) = c.centre
      BY <1>3, <3>1, PartIs
    <3> QED
      BY <3>2
  <2> QED
    <3>1. AllRead(v) /\ (Sound(op) <=> AllFinite(v))
      BY <1>1, <1>6, <1>8, <1>9, <2>2
    <3>2. RadialVignette(body) = IF Sound(op) THEN [k |-> c.k, centre |-> c.centre] ELSE Missing
      BY <1>7, <2>3, <2>4, <3>1
    <3> QED
      BY <1>2, <3>2 DEF c, body
<1>10. CASE ~(b >= 14)
  BY <1>1, <1>6, <1>7, <1>8, <1>10 DEF b, body
<1> QED
  BY <1>9, <1>10

-----------------------------------------------------------------------------
(* A gain map                                                              *)

\* Where the units of a gain map are.
LEMMA GainMapLayout ==
  ASSUME NEW m \in GainMaps
  PROVE  LET u == GainMapUnits(m)
             g == Len(m.gains)
         IN  /\ g \in Nat /\ IsUnits(u, 19 + g)
             /\ \A i \in 1 .. 4 : u[i] = m.area[i]
             /\ u[5] = m.plane /\ u[6] = m.planes
             /\ \A i \in 1 .. 2 : u[6 + i] = m.pitch[i]
             /\ \A i \in 1 .. 2 : u[8 + i] = m.points[i]
             /\ \A i \in 1 .. 2 : u[9 + 2 * i] = m.spacing[i]
             /\ \A i \in 1 .. 2 : u[13 + 2 * i] = m.origin[i]
             /\ u[19] = m.map_planes
             /\ \A i \in 1 .. g : u[19 + i] = m.gains[i]
<1> DEFINE g == Len(m.gains)
           w == m.spacing \o m.origin
           a == m.area \o <<m.plane, m.planes>>
           b == a \o m.pitch
           c == b \o m.points
           d == c \o Wide(w)
           e == d \o <<m.map_planes>>
           u == e \o m.gains
<1>1. /\ m.area \in [1 .. 4 -> Nat] /\ m.plane \in Nat /\ m.planes \in Nat
      /\ m.pitch \in [1 .. 2 -> Nat] /\ m.points \in [1 .. 2 -> Nat]
      /\ m.spacing \in [1 .. 2 -> Unit] /\ m.origin \in [1 .. 2 -> Unit]
      /\ m.map_planes \in Nat /\ m.gains \in Seq(Unit)
  BY DEF GainMaps
<1>2. m.plane \in Unit /\ m.planes \in Unit /\ m.map_planes \in Unit
  BY <1>1 DEF Unit
<1>3. /\ IsUnits(m.area, 4) /\ IsUnits(m.pitch, 2) /\ IsUnits(m.points, 2)
      /\ IsUnits(m.spacing, 2) /\ IsUnits(m.origin, 2)
  <2>1. IsUnits(m.area, 4) /\ IsUnits(m.pitch, 2) /\ IsUnits(m.points, 2)
    BY <1>1, UnitsOfNumbers
  <2>2. IsUnits(m.spacing, 2) /\ IsUnits(m.origin, 2)
    BY <1>1, UnitsOfFunction
  <2> QED
    BY <2>1, <2>2
<1>4. /\ IsUnits(<<m.plane, m.planes>>, 2) /\ IsUnits(<<m.map_planes>>, 1)
      /\ g \in Nat /\ IsUnits(m.gains, g)
  <2>1. g \in Nat /\ IsUnits(m.gains, g)
    BY <1>1, LenProperties DEF IsUnits
  <2> QED
    BY <1>2, <2>1, UnitsOfOne, UnitsOfTwo
<1> HIDE DEF g
<1>5. IsUnits(w, 4) /\ Joins(w, m.spacing, 2, m.origin, 2)
  BY <1>3, UnitsJoined
<1>6. IsUnits(Wide(w), 8) /\ \A i \in 1 .. 4 : Wide(w)[2 * i - 1] = w[i]
  <2> HIDE DEF w
  <2> QED
    BY <1>5, UnitsWide
<1>7. IsUnits(a, 6) /\ Joins(a, m.area, 4, <<m.plane, m.planes>>, 2)
  BY <1>3, <1>4, UnitsJoined
<1> HIDE DEF w, a
<1>8. IsUnits(b, 8) /\ Joins(b, a, 6, m.pitch, 2)
  BY <1>3, <1>7, UnitsJoined
<1> HIDE DEF b
<1>9. IsUnits(c, 10) /\ Joins(c, b, 8, m.points, 2)
  BY <1>3, <1>8, UnitsJoined
<1> HIDE DEF c
<1>10. IsUnits(d, 18) /\ Joins(d, c, 10, Wide(w), 8)
  BY <1>6, <1>9, UnitsJoined
<1> HIDE DEF d
<1>11. IsUnits(e, 19) /\ Joins(e, d, 18, <<m.map_planes>>, 1)
  <2>1. 19 = 18 + 1 /\ IsUnits(<<m.map_planes>>, 1)
    BY <1>4
  <2> QED
    BY <1>10, <2>1, UnitsJoined
<1> HIDE DEF e
<1>12. IsUnits(u, 19 + g) /\ Joins(u, e, 19, m.gains, g)
  BY <1>4, <1>11, UnitsJoined
<1>13. u = GainMapUnits(m)
  BY Zenon DEF GainMapUnits, u, e, d, c, b, a, w
<1> HIDE DEF u
<1>14. /\ \A i \in 1 .. 19 : u[i] = e[i]
       /\ \A i \in 1 .. 18 : e[i] = d[i]
       /\ \A i \in 1 .. 10 : d[i] = c[i]
       /\ \A i \in 1 .. 8 : c[i] = b[i]
       /\ \A i \in 1 .. 6 : b[i] = a[i]
       /\ \A i \in 1 .. 4 : a[i] = m.area[i]
  BY <1>7, <1>8, <1>9, <1>10, <1>11, <1>12 DEF Joins
<1>15. /\ \A i \in 1 .. 4 : u[i] = m.area[i]
       /\ u[5] = a[4 + 1] /\ u[6] = a[4 + 2]
       /\ \A i \in 1 .. 2 : u[6 + i] = b[6 + i]
       /\ \A i \in 1 .. 2 : u[8 + i] = c[8 + i]
  BY <1>14
<1>16. /\ a[4 + 1] = m.plane /\ a[4 + 2] = m.planes
  BY <1>7 DEF Joins
<1>17. /\ \A i \in 1 .. 2 : b[6 + i] = m.pitch[i]
       /\ \A i \in 1 .. 2 : c[8 + i] = m.points[i]
  BY <1>8, <1>9 DEF Joins
<1>18. \A i \in 1 .. 4 : u[9 + 2 * i] = w[i]
  <2>1. ASSUME NEW i \in 1 .. 4 PROVE u[9 + 2 * i] = w[i]
    <3>1. 2 * i - 1 \in 1 .. 8 /\ 10 + (2 * i - 1) = 9 + 2 * i
          /\ 9 + 2 * i \in 1 .. 18 /\ 9 + 2 * i \in 1 .. 19
      OBVIOUS
    <3>2. d[10 + (2 * i - 1)] = Wide(w)[2 * i - 1]
      BY <1>10, <3>1 DEF Joins
    <3> QED
      BY <1>6, <1>14, <3>1, <3>2
  <2> QED
    BY <2>1
<1>19. /\ \A i \in 1 .. 2 : w[i] = m.spacing[i]
       /\ \A i \in 1 .. 2 : w[2 + i] = m.origin[i]
  BY <1>5 DEF Joins
<1>20. /\ \A i \in 1 .. 2 : u[9 + 2 * i] = m.spacing[i]
       /\ \A i \in 1 .. 2 : u[13 + 2 * i] = m.origin[i]
  <2>1. ASSUME NEW i \in 1 .. 2
        PROVE  u[9 + 2 * i] = m.spacing[i] /\ u[13 + 2 * i] = m.origin[i]
    <3>1. i \in 1 .. 4 /\ 2 + i \in 1 .. 4 /\ 9 + 2 * (2 + i) = 13 + 2 * i
      OBVIOUS
    <3>2. u[9 + 2 * i] = w[i] /\ u[9 + 2 * (2 + i)] = w[2 + i]
      BY <1>18, <3>1
    <3> QED
      BY <1>19, <3>1, <3>2
  <2> QED
    BY <2>1
<1>21. u[19] = m.map_planes
  <2>1. e[18 + 1] = m.map_planes
    BY <1>11 DEF Joins
  <2> QED
    BY <1>14, <2>1
<1>22. \A i \in 1 .. g : u[19 + i] = m.gains[i]
  BY <1>12 DEF Joins
<1> QED
  BY <1>4, <1>12, <1>13, <1>15, <1>16, <1>17, <1>20, <1>21, <1>22 DEF g

\* A gain map is read back as it was written, and skipped when it is cut or not
\* within its limits.
LEMMA GainMapRead ==
  ASSUME NEW op, op.id = GAIN_MAP, op.body \in Seq(Unit),
         WrittenFrom(op, GainMaps, GainMapUnits(op.content))
  PROVE  GainMap(op.body) = IF Sound(op) THEN op.content ELSE Missing
<1> DEFINE m == op.content
           body == op.body
           b == Len(body)
           units == GainMapUnits(m)
           g == Len(m.gains)
           v == Fields(body, 0, 10, U32)
           spacing == Fields(body, 10, 2, F64)
           origin == Fields(body, 14, 2, F64)
           one == Fields(body, 18, 1, U32)
           mapPlanes == one[1]
           count == v[9] * v[10] * mapPlanes
           gains == Fields(body, 19, count, U32)
           Within == /\ v[1] < v[3] /\ v[2] < v[4]
                     /\ v[5] < PLANES_MAX /\ v[6] \in 1 .. PLANES_MAX
                     /\ v[7] >= 1 /\ v[8] >= 1
                     /\ {v[9], v[10]} \subseteq 1 .. POINTS_MAX
                     /\ mapPlanes \in 1 .. PLANES_MAX
                     /\ AllFinite(spacing \o origin)
                     /\ spacing[1] >= 0 /\ spacing[2] >= 0
                     /\ ~TooMany(count)
           Gains == /\ AllRead(gains) /\ AllFinite(gains)
                    /\ \A i \in DOMAIN gains : gains[i] >= 0
           whole == AllRead(v \o spacing \o origin \o <<mapPlanes>>)
           map == [area |-> SubSeq(v, 1, 4), plane |-> v[5], planes |-> v[6],
                   pitch |-> SubSeq(v, 7, 8), points |-> SubSeq(v, 9, 10),
                   spacing |-> spacing, origin |-> origin, map_planes |-> mapPlanes,
                   gains |-> gains]
<1>1. GainMap(body) = IF whole /\ Within /\ Gains THEN map ELSE Missing
  BY Zenon DEF GainMap
<1>2. /\ m \in GainMaps /\ body \in Seq(Unit) /\ b \in Nat
      /\ \A i \in 1 .. b : i <= Len(units) => body[i] = units[i]
  BY Zenon, LenProperties DEF WrittenFrom
<1>3. /\ m.area \in [1 .. 4 -> Nat] /\ m.plane \in Nat /\ m.planes \in Nat
      /\ m.pitch \in [1 .. 2 -> Nat] /\ m.points \in [1 .. 2 -> Nat]
      /\ m.spacing \in [1 .. 2 -> Unit] /\ m.origin \in [1 .. 2 -> Unit]
      /\ m.map_planes \in Nat /\ m.gains \in Seq(Unit)
      /\ g = m.points[1] * m.points[2] * m.map_planes
  BY <1>2 DEF GainMaps
<1>13. m = [area |-> m.area, plane |-> m.plane, planes |-> m.planes, pitch |-> m.pitch,
            points |-> m.points, spacing |-> m.spacing, origin |-> m.origin,
            map_planes |-> m.map_planes, gains |-> m.gains]
  BY <1>2 DEF GainMaps
<1>4. /\ g \in Nat /\ IsUnits(units, 19 + g)
      /\ \A i \in 1 .. 4 : units[i] = m.area[i]
      /\ units[5] = m.plane /\ units[6] = m.planes
      /\ \A i \in 1 .. 2 : units[6 + i] = m.pitch[i]
      /\ \A i \in 1 .. 2 : units[8 + i] = m.points[i]
      /\ \A i \in 1 .. 2 : units[9 + 2 * i] = m.spacing[i]
      /\ \A i \in 1 .. 2 : units[13 + 2 * i] = m.origin[i]
      /\ units[19] = m.map_planes
      /\ \A i \in 1 .. g : units[19 + i] = m.gains[i]
  BY <1>2, GainMapLayout, Zenon
<1>5. Len(units) = 19 + g
  BY <1>4 DEF IsUnits
<1>6. Sound(op) <=> b >= 19 + g /\ SoundMap(m)
  <2>1. Sound(op) <=> Len(op.body) >= Len(GainMapUnits(op.content)) /\ SoundMap(op.content)
    BY CorrectionsAssumption DEF Sound
  <2> QED
    BY <1>5, <2>1 DEF units, m, b, body
<1>7. /\ ReadFrom(v, body, 0, 10, 1, 10)
      /\ ReadFrom(spacing, body, 10, 2, 2, 14)
      /\ ReadFrom(origin, body, 14, 2, 2, 18)
      /\ ReadFrom(one, body, 18, 1, 1, 19)
  <2>1. /\ 10 = 0 + 10 * 1 /\ 14 = 10 + 2 * 2 /\ 18 = 14 + 2 * 2 /\ 19 = 18 + 1 * 1
    OBVIOUS
  <2>2. 1 \in {1, 2} /\ 2 \in {1, 2} /\ body \in Seq(Unit)
    BY <1>2
  <2> HIDE DEF body
  <2>3. ReadFrom(Fields(body, 0, 10, 1), body, 0, 10, 1, 10)
    BY <2>1, <2>2, FieldsTo
  <2>4. ReadFrom(Fields(body, 10, 2, 2), body, 10, 2, 2, 14)
    BY <2>1, <2>2, FieldsTo
  <2>5. ReadFrom(Fields(body, 14, 2, 2), body, 14, 2, 2, 18)
    BY <2>1, <2>2, FieldsTo
  <2>6. ReadFrom(Fields(body, 18, 1, 1), body, 18, 1, 1, 19)
    BY <2>1, <2>2, FieldsTo
  <2> QED
    BY <2>3, <2>4, <2>5, <2>6 DEF U32, F64
<1> HIDE DEF v, spacing, origin, one, units, body, m
<1>8. /\ v \in Seq(Read) /\ Len(v) = 10 /\ DOMAIN v = 1 .. 10
      /\ spacing \in Seq(Read) /\ Len(spacing) = 2 /\ DOMAIN spacing = 1 .. 2
      /\ origin \in Seq(Read) /\ Len(origin) = 2 /\ DOMAIN origin = 1 .. 2
      /\ one \in Seq(Read) /\ Len(one) = 1 /\ DOMAIN one = 1 .. 1
      /\ AllRead(v) <=> 10 <= b
      /\ AllRead(spacing) <=> 14 <= b
      /\ AllRead(origin) <=> 18 <= b
      /\ AllRead(one) <=> 19 <= b
  BY <1>7 DEF ReadFrom
<1>9. mapPlanes \in Read /\ <<mapPlanes>> \in Seq(Read)
      /\ (AllRead(<<mapPlanes>>) <=> 19 <= b)
  <2>1. mapPlanes \in Read
    <3>1. 1 \in 1 .. Len(one)
      BY <1>8
    <3> QED
      BY <1>8, <3>1, ElementOfSeq, Zenon
  <2>2. AllRead(<<mapPlanes>>) <=> AllRead(one)
    BY <1>8 DEF AllRead
  <2> HIDE DEF mapPlanes
  <2> QED
    BY <1>8, <2>1, <2>2
<1>10. whole <=> 19 <= b
  <2> DEFINE x == v \o spacing
             y == x \o origin
             last == <<mapPlanes>>
  <2>1. (AllRead(x) <=> AllRead(v) /\ AllRead(spacing)) /\ x \in Seq(Read)
    BY <1>8, AllOfJoined
  <2> HIDE DEF x
  <2>2. (AllRead(y) <=> AllRead(x) /\ AllRead(origin)) /\ y \in Seq(Read)
    BY <1>8, <2>1, AllOfJoined
  <2> HIDE DEF y, mapPlanes
  <2>3. last \in Seq(Read)
    BY <1>9
  <2> HIDE DEF last
  <2>4. AllRead(y \o last) <=> AllRead(y) /\ AllRead(last)
    BY <2>2, <2>3, AllOfJoined
  <2>5. AllRead(last) <=> 19 <= b
    BY <1>9 DEF last
  <2>6. whole <=> AllRead(y \o last)
    BY DEF y, x, last
  <2> HIDE DEF whole
  <2> QED
    BY <1>2, <1>8, <2>1, <2>2, <2>4, <2>5, <2>6
<1>11. CASE ~(19 <= b)
  <2>1. ~(b >= 19 + g)
    BY <1>2, <1>4, <1>11
  <2> HIDE DEF whole, Within, Gains, map
  <2> QED
    BY <1>1, <1>6, <1>10, <1>11, <2>1 DEF body
<1>12. CASE 19 <= b
  <2>1. /\ \A i \in 1 .. 10 : v[i] = body[0 + (i - 1) * 1 + 1]
        /\ \A i \in 1 .. 2 : spacing[i] = body[10 + (i - 1) * 2 + 1]
        /\ \A i \in 1 .. 2 : origin[i] = body[14 + (i - 1) * 2 + 1]
        /\ one[1] = body[18 + (1 - 1) * 1 + 1]
    <3>1. 10 <= b /\ 14 <= b /\ 18 <= b /\ 19 <= b
      BY <1>2, <1>12
    <3>2. 1 \in 1 .. 1
      OBVIOUS
    <3> QED
      BY <1>7, <3>1, <3>2 DEF ReadFrom, b
  <2>2. \A i \in 1 .. 19 : body[i] = units[i]
    <3>1. ASSUME NEW i \in 1 .. 19 PROVE body[i] = units[i]
      <4>1. b \in Nat /\ g \in Nat /\ Len(units) = 19 + g /\ 19 <= b
        BY <1>2, <1>4, <1>5, <1>12
      <4> HIDE DEF b, g
      <4>2. i \in 1 .. b /\ i <= Len(units)
        BY <4>1
      <4> QED
        BY <1>2, <4>2
    <3> QED
      BY <3>1
  <2>3. \A i \in 1 .. 10 : v[i] = units[i]
    <3>1. ASSUME NEW i \in 1 .. 10 PROVE v[i] = units[i]
      <4>1. 0 + (i - 1) * 1 + 1 = i /\ i \in 1 .. 19
        OBVIOUS
      <4> QED
        BY <2>1, <2>2, <4>1
    <3> QED
      BY <3>1
  <2>4. /\ \A i \in 1 .. 4 : v[i] = m.area[i]
        /\ v[5] = m.plane /\ v[6] = m.planes
        /\ \A i \in 1 .. 2 : v[6 + i] = m.pitch[i]
        /\ \A i \in 1 .. 2 : v[8 + i] = m.points[i]
    BY <1>4, <2>3
  <2>5. ASSUME NEW i \in 1 .. 2
        PROVE  spacing[i] = m.spacing[i] /\ origin[i] = m.origin[i]
    <3>1. /\ 10 + (i - 1) * 2 + 1 = 9 + 2 * i /\ 9 + 2 * i \in 1 .. 19
          /\ 14 + (i - 1) * 2 + 1 = 13 + 2 * i /\ 13 + 2 * i \in 1 .. 19
      OBVIOUS
    <3>2. spacing[i] = body[9 + 2 * i] /\ origin[i] = body[13 + 2 * i]
      BY <2>1, <3>1
    <3>3. /\ body[9 + 2 * i] = units[9 + 2 * i]
          /\ body[13 + 2 * i] = units[13 + 2 * i]
      BY <2>2, <3>1
    <3>4. units[9 + 2 * i] = m.spacing[i] /\ units[13 + 2 * i] = m.origin[i]
      BY <1>4
    <3> QED
      BY <3>2, <3>3, <3>4
  <2>6. mapPlanes = m.map_planes
    <3>1. 18 + (1 - 1) * 1 + 1 = 19 /\ 19 \in 1 .. 19
      OBVIOUS
    <3>2. one[1] = body[19]
      BY <2>1, <3>1
    <3>3. body[19] = units[19]
      BY <2>2, <3>1
    <3> QED
      BY <1>4, <3>2, <3>3
  <2>7. spacing = m.spacing /\ origin = m.origin
    <3>1. IsUnits(m.spacing, 2) /\ IsUnits(m.origin, 2)
      BY <1>3, UnitsOfFunction
    <3>2. Has(spacing, 0, m.spacing, 2) /\ Has(origin, 0, m.origin, 2)
      BY <2>5 DEF Has
    <3> QED
      BY <1>8, <3>1, <3>2, ReadEqual
  <2>8. /\ SubSeq(v, 1, 4) = m.area /\ SubSeq(v, 7, 8) = m.pitch
        /\ SubSeq(v, 9, 10) = m.points
    <3>1. IsUnits(m.area, 4) /\ IsUnits(m.pitch, 2) /\ IsUnits(m.points, 2)
      BY <1>3, UnitsOfNumbers
    <3>2. Has(v, 0, m.area, 4) /\ Has(v, 6, m.pitch, 2) /\ Has(v, 8, m.points, 2)
      BY <2>4 DEF Has
    <3>3. /\ 1 = 0 + 1 /\ 4 = 0 + 4 /\ 7 = 6 + 1 /\ 8 = 6 + 2 /\ 9 = 8 + 1 /\ 10 = 8 + 2
      OBVIOUS
    <3>4. IsPart(v, 1, 4, m.area)
      BY <3>1, <3>2, <3>3, PartFrom
    <3>5. IsPart(v, 7, 8, m.pitch)
      BY <3>1, <3>2, <3>3, PartFrom
    <3>6. IsPart(v, 9, 10, m.points)
      BY <3>1, <3>2, <3>3, PartFrom
    <3> QED
      BY <3>4, <3>5, <3>6 DEF IsPart
  <2>9. /\ m.points[1] \in Nat /\ m.points[2] \in Nat
        /\ v[9] = m.points[1] /\ v[10] = m.points[2]
        /\ v[7] = m.pitch[1] /\ v[8] = m.pitch[2]
        /\ m.pitch[1] \in Nat /\ m.pitch[2] \in Nat
        /\ \A i \in 1 .. 4 : v[i] = m.area[i]
    <3>1. 1 \in 1 .. 2 /\ 2 \in 1 .. 2 /\ 8 + 1 = 9 /\ 8 + 2 = 10 /\ 6 + 1 = 7 /\ 6 + 2 = 8
      OBVIOUS
    <3> QED
      BY <1>3, <2>4, <3>1
  <2>10. count = g
    BY <1>3, <2>6, <2>9
  <2>11. ReadFrom(gains, body, 19, g, 1, 19 + g)
    <3>1. 19 + g = 19 + g * 1 /\ body \in Seq(Unit) /\ 19 \in Nat /\ 1 \in {1, 2}
      BY <1>2, <1>4
    <3> HIDE DEF g, count
    <3>2. ReadFrom(Fields(body, 19, g, 1), body, 19, g, 1, 19 + g)
      BY <1>4, <3>1, FieldsTo
    <3> QED
      BY <2>10, <3>2 DEF U32
  <2> HIDE DEF mapPlanes, count, gains, g
  <2>12. map = m <=> gains = m.gains
    <3> DEFINE with(x) == [area |-> m.area, plane |-> m.plane, planes |-> m.planes,
                           pitch |-> m.pitch, points |-> m.points, spacing |-> m.spacing,
                           origin |-> m.origin, map_planes |-> m.map_planes, gains |-> x]
    <3>1. map = with(gains)
      BY <2>4, <2>6, <2>7, <2>8
    <3>2. m = with(m.gains)
      BY <1>13
    <3>3. \A x : with(x).gains = x
      OBVIOUS
    <3> HIDE DEF with, map
    <3> QED
      BY <3>1, <3>2, <3>3
  <2>13. CASE ~(19 + g <= b)
    <3>1. g # 0
      BY <1>2, <1>4, <1>12, <2>13
    <3>2. ~AllRead(gains)
      BY <2>11, <2>13, <3>1 DEF ReadFrom, b
    <3>3. ~Gains /\ ~Sound(op)
      BY <1>2, <1>4, <1>6, <2>13, <3>2
    <3> HIDE DEF whole, Within, Gains, map
    <3> QED
      BY <1>1, <3>3 DEF body
  <2>14. CASE 19 + g <= b
    <3>1. /\ gains \in Seq(Read) /\ Len(gains) = g /\ DOMAIN gains = 1 .. g
          /\ AllRead(gains)
          /\ \A i \in 1 .. g : gains[i] = body[19 + (i - 1) * 1 + 1]
      BY <2>11, <2>14 DEF ReadFrom, b
    <3>2. ASSUME NEW i \in 1 .. g PROVE gains[i] = m.gains[i]
      <4>1. 19 + (i - 1) * 1 + 1 = 19 + i /\ 19 + i \in 1 .. b /\ 19 + i <= Len(units)
        BY <1>2, <1>4, <1>5, <2>14
      <4>2. gains[i] = body[19 + i] /\ body[19 + i] = units[19 + i]
        BY <1>2, <3>1, <4>1
      <4> QED
        BY <1>4, <4>2 DEF g
    <3>3. gains = m.gains
      <4>1. IsUnits(m.gains, g) /\ Has(gains, 0, m.gains, g)
        <5>1. m.gains \in Seq(Unit) /\ Len(m.gains) = g /\ g \in Nat
          BY <1>3, <1>4 DEF g
        <5>2. \A i \in 1 .. g : gains[0 + i] = m.gains[i]
          BY <1>4, <3>2
        <5> QED
          BY <5>1, <5>2 DEF IsUnits, Has
      <4> QED
        BY <3>1, <4>1, ReadEqual
    <3>4. map = m
      BY <2>12, <3>3
    <3>5. Within /\ Gains <=> SoundMap(m)
      <4>2. /\ DOMAIN m.pitch = 1 .. 2 /\ DOMAIN m.points = 1 .. 2
            /\ DOMAIN m.spacing = 1 .. 2
        BY <1>3
      <4>3. v[7] >= 1 /\ v[8] >= 1 <=> 0 \notin Range(m.pitch)
        BY <2>9, <4>2 DEF Range
      <4>4. {v[9], v[10]} \subseteq 1 .. POINTS_MAX <=> Range(m.points) \subseteq 1 .. POINTS_MAX
        <5>1. Range(m.points) = {m.points[1], m.points[2]}
          BY <4>2 DEF Range
        <5> QED
          BY <2>9, <5>1
      <4>5. AllFinite(spacing \o origin) <=> NotFinite \notin Range(m.spacing) \cup Range(m.origin)
        <5>1. AllFinite(spacing \o origin) <=> AllFinite(spacing) /\ AllFinite(origin)
          BY <1>8, AllOfJoined
        <5> QED
          BY <2>7, <5>1 DEF AllFinite, Range
      <4>6. Gains <=> NotFinite \notin Range(m.gains) /\ \A x \in Range(m.gains) : x >= 0
        <5>1. Gains <=> AllFinite(gains) /\ \A i \in DOMAIN gains : gains[i] >= 0
          BY <3>1
        <5> HIDE DEF Gains
        <5> QED
          BY <3>3, <5>1 DEF AllFinite, Range
      <4>7. spacing[1] >= 0 /\ spacing[2] >= 0 <=> \A x \in Range(m.spacing) : x >= 0
        <5>1. Range(m.spacing) = {m.spacing[1], m.spacing[2]}
          BY <4>2 DEF Range
        <5> QED
          BY <2>7, <5>1
      <4>8. ~TooMany(count) <=> Len(m.gains) <= VALUES_MAX
        <5>1. VALUES_MAX \in Nat /\ g \in Nat
          BY <1>4, CorrectionsAssumption
        <5>2. ~(g > VALUES_MAX) <=> g <= VALUES_MAX
          BY <5>1
        <5> QED
          BY <2>10, <5>2 DEF TooMany, g
      <4>9. /\ v[1] = m.area[1] /\ v[2] = m.area[2] /\ v[3] = m.area[3] /\ v[4] = m.area[4]
            /\ v[5] = m.plane /\ v[6] = m.planes /\ mapPlanes = m.map_planes
        BY <2>4, <2>6
      <4> DEFINE A == m.area[1] < m.area[3] /\ m.area[2] < m.area[4]
                 B == m.plane < PLANES_MAX
                 C == m.planes \in 1 .. PLANES_MAX /\ m.map_planes \in 1 .. PLANES_MAX
                 D == 0 \notin Range(m.pitch)
                 E == Range(m.points) \subseteq 1 .. POINTS_MAX
                 F == Len(m.gains) <= VALUES_MAX
                 F1 == NotFinite \notin Range(m.spacing) \cup Range(m.origin)
                 F2 == NotFinite \notin Range(m.gains)
                 G1 == \A x \in Range(m.spacing) : x >= 0
                 G2 == \A x \in Range(m.gains) : x >= 0
      <4>10. SoundMap(m) <=> A /\ B /\ C /\ D /\ E /\ F /\ F1 /\ F2 /\ G1 /\ G2
        <5>1. C <=> {m.planes, m.map_planes} \subseteq 1 .. PLANES_MAX
          OBVIOUS
        <5>2. F1 /\ F2 <=> NotFinite \notin Range(m.spacing) \cup Range(m.origin) \cup Range(m.gains)
          OBVIOUS
        <5>3. G1 /\ G2 <=> \A x \in Range(m.spacing) \cup Range(m.gains) : x >= 0
          OBVIOUS
        <5> HIDE DEF C, F1, F2, G1, G2
        <5> QED
          BY <5>1, <5>2, <5>3, Zenon DEF SoundMap
      <4>11. Within <=> A /\ B /\ C /\ D /\ E /\ F /\ F1 /\ G1
        BY <4>3, <4>4, <4>5, <4>7, <4>8, <4>9
      <4>12. Gains <=> F2 /\ G2
        BY <4>6
      <4> HIDE DEF Within, Gains, A, B, C, D, E, F, F1, F2, G1, G2
      <4> QED
        BY <4>10, <4>11, <4>12
    <3>6. whole /\ (Sound(op) <=> SoundMap(m))
      BY <1>2, <1>4, <1>6, <1>10, <1>12, <2>14
    <3> HIDE DEF whole, Within, Gains, map
    <3> QED
      BY <1>1, <3>4, <3>5, <3>6 DEF body, m
  <2> QED
    BY <2>13, <2>14
<1> QED
  BY <1>11, <1>12

-----------------------------------------------------------------------------
(* A warp                                                                  *)

\* A number is so many sixes and a rest.
LEMMA Sixths ==
  ASSUME NEW e \in Nat, NEW r \in 0 .. 5, NEW x \in Nat, x = 6 * e + r
  PROVE  x \div 6 = e /\ x % 6 = r
OBVIOUS

\* The value is one of those of n planes.
IsOf(value, planes, n) ==
  \E p \in 1 .. n : \E k \in 1 .. 6 : value = planes[p][k] /\ value \in Unit

\* Every coefficient of a warp is one of a plane.
LEMMA CoefficientOfPlane ==
  ASSUME NEW planes \in Seq([1 .. 6 -> Unit]), NEW n, n = Len(planes),
         NEW i \in 1 .. 6 * n
  PROVE  IsOf(Coefficients(planes)[i], planes, n)
<1> DEFINE q == Coefficients(planes)
           p == ((i - 1) \div 6) + 1
           k == ((i - 1) % 6) + 1
<1>1. n \in Nat /\ \A j \in 1 .. n : planes[j] \in [1 .. 6 -> Unit]
  BY ElementOfSeq, LenProperties
<1>2. q = [j \in 1 .. 6 * n |-> planes[((j - 1) \div 6) + 1][((j - 1) % 6) + 1]]
  BY Zenon DEF Coefficients
<1> HIDE DEF q
<1>3. p \in 1 .. n /\ k \in 1 .. 6
  BY <1>1
<1>4. q[i] = planes[p][k]
  BY <1>2
<1> HIDE DEF p, k
<1> QED
  BY <1>1, <1>3, <1>4 DEF q, IsOf

\* The values are those of n planes, six after six.
AreOf(values, planes, n) ==
  /\ n \in Nat /\ IsUnits(values, 6 * n)
  /\ \A p \in 1 .. n : \A k \in 1 .. 6 : values[6 * p - 6 + k] = planes[p][k]

\* The coefficients of a warp are those of its planes.
LEMMA CoefficientsOfPlanes ==
  ASSUME NEW planes \in Seq([1 .. 6 -> Unit]), NEW n, n = Len(planes)
  PROVE  AreOf(Coefficients(planes), planes, n)
<1> DEFINE q == Coefficients(planes)
<1>1. n \in Nat /\ \A p \in 1 .. n : planes[p] \in [1 .. 6 -> Unit]
  BY ElementOfSeq, LenProperties
<1>2. q = [i \in 1 .. 6 * n |-> planes[((i - 1) \div 6) + 1][((i - 1) % 6) + 1]]
  BY Zenon DEF Coefficients
<1> HIDE DEF q
<1>3. ASSUME NEW i \in 1 .. 6 * n PROVE q[i] \in Unit
  <2>1. IsOf(q[i], planes, n)
    BY CoefficientOfPlane DEF q
  <2> QED
    BY <2>1 DEF IsOf
<1>4. IsUnits(q, 6 * n)
  <2> DEFINE m == 6 * n
  <2>1. m \in Nat
    BY <1>1
  <2>2. q \in [1 .. m -> Unit]
    BY <1>2, <1>3
  <2> HIDE DEF m
  <2>3. IsUnits(q, m)
    BY <2>1, <2>2, UnitsOfFunction
  <2> QED
    BY <2>3 DEF m
<1>5. ASSUME NEW p \in 1 .. n, NEW k \in 1 .. 6
      PROVE  q[6 * p - 6 + k] = planes[p][k]
  <2> DEFINE i == 6 * p - 6 + k
  <2>1. i \in 1 .. 6 * n /\ ((i - 1) \div 6) + 1 = p /\ ((i - 1) % 6) + 1 = k
    <3>1. p \in Int /\ 1 <= p /\ p <= n /\ k \in Int /\ 1 <= k /\ k <= 6 /\ n \in Int
      BY <1>1
    <3>2. i \in Int /\ i - 1 = 6 * (p - 1) + (k - 1) /\ i \in 1 .. 6 * n
      BY <3>1
    <3> DEFINE x == i - 1
               e == p - 1
               r == k - 1
    <3>3. x \in Nat /\ e \in Nat /\ r \in 0 .. 5 /\ x = 6 * e + r
      BY <3>1, <3>2
    <3> HIDE DEF x, e, r
    <3>4. x \div 6 = e /\ x % 6 = r
      BY <3>3, Sixths
    <3>5. e + 1 = p /\ r + 1 = k
      BY <3>1 DEF e, r
    <3> HIDE DEF i
    <3> QED
      BY <3>2, <3>4, <3>5 DEF x
  <2> HIDE DEF i
  <2>2. q[i] = planes[((i - 1) \div 6) + 1][((i - 1) % 6) + 1]
    BY <1>2, <2>1
  <2> QED
    BY <2>1, <2>2 DEF i
<1> QED
  BY <1>1, <1>4, <1>5 DEF q, AreOf

\* They are finite when those of every plane are.
LEMMA FiniteCoefficients ==
  ASSUME NEW planes \in Seq([1 .. 6 -> Unit])
  PROVE  AllFinite(Coefficients(planes)) <=>
           NotFinite \notin UNION {Range(c) : c \in Range(planes)}
<1> DEFINE q == Coefficients(planes)
<1>0. PICK n : n = Len(planes)
  OBVIOUS
<1>1. /\ n \in Nat /\ IsUnits(q, 6 * n)
      /\ \A p \in 1 .. n : \A k \in 1 .. 6 : q[6 * p - 6 + k] = planes[p][k]
  <2>1. AreOf(q, planes, n)
    BY <1>0, CoefficientsOfPlanes
  <2> HIDE DEF q
  <2> QED
    BY <2>1 DEF AreOf
<1>6. \A i \in 1 .. 6 * n : \E p \in 1 .. n : \E k \in 1 .. 6 : q[i] = planes[p][k]
  <2>1. ASSUME NEW i \in 1 .. 6 * n
        PROVE  IsOf(q[i], planes, n)
    BY <1>0, CoefficientOfPlane
  <2> HIDE DEF q
  <2> QED
    BY <2>1 DEF IsOf
<1> HIDE DEF q
<1>2. DOMAIN q = 1 .. 6 * n
  BY <1>1, LenProperties DEF IsUnits
<1>3. DOMAIN planes = 1 .. n /\ \A p \in 1 .. n : DOMAIN planes[p] = 1 .. 6
  <2>1. DOMAIN planes = 1 .. n
    BY <1>0, LenProperties
  <2>2. \A p \in 1 .. n : planes[p] \in [1 .. 6 -> Unit]
    BY <1>0, ElementOfSeq
  <2> QED
    BY <2>1, <2>2
<1>4. NotFinite \in UNION {Range(c) : c \in Range(planes)} <=>
        \E p \in 1 .. n : \E k \in 1 .. 6 : planes[p][k] = NotFinite
  <2>1. \A p \in 1 .. n : NotFinite \in Range(planes[p]) <=>
                            \E k \in 1 .. 6 : planes[p][k] = NotFinite
    BY <1>3 DEF Range
  <2>2. NotFinite \in UNION {Range(c) : c \in Range(planes)} <=>
          \E p \in 1 .. n : NotFinite \in Range(planes[p])
    <3>1. \A c : c \in Range(planes) <=> \E p \in 1 .. n : c = planes[p]
      BY <1>3 DEF Range
    <3>2. NotFinite \in UNION {Range(c) : c \in Range(planes)} <=>
            \E c \in Range(planes) : NotFinite \in Range(c)
      OBVIOUS
    <3> QED
      BY <3>1, <3>2
  <2> QED
    BY <2>1, <2>2
<1>5. \A p \in 1 .. n, k \in 1 .. 6 : 6 * p - 6 + k \in 1 .. 6 * n
  BY <1>1
<1> QED
  <2>1. AllFinite(q) <=> \A i \in 1 .. 6 * n : q[i] # NotFinite
    BY <1>2 DEF AllFinite
  <2>2. (\A i \in 1 .. 6 * n : q[i] # NotFinite) =>
          ~ \E p \in 1 .. n : \E k \in 1 .. 6 : planes[p][k] = NotFinite
    <3>1. ASSUME \A i \in 1 .. 6 * n : q[i] # NotFinite, NEW p \in 1 .. n, NEW k \in 1 .. 6
          PROVE  planes[p][k] # NotFinite
      <4>1. 6 * p - 6 + k \in 1 .. 6 * n /\ q[6 * p - 6 + k] = planes[p][k]
        BY <1>1, <1>5
      <4> QED
        BY <3>1, <4>1
    <3> QED
      BY <3>1
  <2>3. (~ \E p \in 1 .. n : \E k \in 1 .. 6 : planes[p][k] = NotFinite) =>
          \A i \in 1 .. 6 * n : q[i] # NotFinite
    BY <1>6
  <2> QED
    BY <1>4, <2>1, <2>2, <2>3 DEF q

\* Where the units of a warp are.
LEMMA WarpLayout ==
  ASSUME NEW w \in Warps, NEW n, n = Len(w.planes)
  PROVE  LET u == WarpUnits(w)
             q == Coefficients(w.planes)
         IN  /\ n \in Nat /\ IsUnits(u, 5 + 12 * n) /\ u[1] = n
             /\ IsUnits(q, 6 * n) /\ IsUnits(w.centre, 2)
             /\ \A p \in 1 .. n : \A k \in 1 .. 6 : q[6 * p - 6 + k] = w.planes[p][k]
             /\ \A i \in 1 .. 6 * n : u[2 * i] = q[i]
             /\ \A i \in 1 .. 2 : u[12 * n + 2 * i] = w.centre[i]
             /\ w.planes \in Seq([1 .. 6 -> Unit])
             /\ w = [planes |-> w.planes, centre |-> w.centre]
<1> DEFINE q == Coefficients(w.planes)
           m == 6 * n
           j == q \o w.centre
           wide == Wide(j)
           one == <<n>>
           u == one \o wide
<1>1. /\ w.planes \in Seq([1 .. 6 -> Unit]) /\ w.centre \in [1 .. 2 -> Unit]
      /\ w = [planes |-> w.planes, centre |-> w.centre]
  BY DEF Warps
<1>2. /\ n \in Nat /\ IsUnits(q, m)
      /\ \A p \in 1 .. n : \A k \in 1 .. 6 : q[6 * p - 6 + k] = w.planes[p][k]
  <2> DEFINE planes == w.planes
  <2>1. planes \in Seq([1 .. 6 -> Unit]) /\ n = Len(planes)
    BY <1>1
  <2> HIDE DEF planes
  <2>2. AreOf(q, planes, n)
    BY <2>1, CoefficientsOfPlanes DEF planes
  <2> HIDE DEF q
  <2> QED
    BY <2>2 DEF planes, AreOf
<1>3. IsUnits(w.centre, 2)
  BY <1>1, UnitsOfFunction
<1>4. IsUnits(one, 1) /\ one[1] = n
  BY <1>2, UnitsOfOne DEF Unit
<1>5. u = WarpUnits(w)
  BY Zenon DEF WarpUnits
<1>6. m \in Nat
  BY <1>2
<1> HIDE DEF q, m, one
<1>7. IsUnits(j, m + 2) /\ Joins(j, q, m, w.centre, 2)
  BY <1>2, <1>3, UnitsJoined
<1> HIDE DEF j
<1>8. IsUnits(wide, 2 * (m + 2)) /\ \A i \in 1 .. m + 2 : wide[2 * i - 1] = j[i]
  BY <1>7, UnitsWide
<1> HIDE DEF wide
<1>9. IsUnits(u, 1 + 2 * (m + 2)) /\ Joins(u, one, 1, wide, 2 * (m + 2))
  BY <1>4, <1>8, UnitsJoined
<1> HIDE DEF u
<1>10. ASSUME NEW i \in 1 .. m + 2 PROVE u[2 * i] = j[i]
  <2>1. 2 * i - 1 \in 1 .. 2 * (m + 2) /\ 1 + (2 * i - 1) = 2 * i
    BY <1>6
  <2>2. u[1 + (2 * i - 1)] = wide[2 * i - 1]
    BY <1>9, <2>1 DEF Joins
  <2> QED
    BY <1>8, <2>1, <2>2
<1>11. u[1] = n
  BY <1>4, <1>9 DEF Joins
<1>12. \A i \in 1 .. m : u[2 * i] = q[i]
  <2>1. ASSUME NEW i \in 1 .. m PROVE u[2 * i] = q[i]
    <3>1. i \in 1 .. m + 2
      BY <1>6
    <3>2. j[i] = q[i]
      BY <1>7 DEF Joins
    <3> QED
      BY <1>10, <3>1, <3>2
  <2> QED
    BY <2>1
<1>13. \A i \in 1 .. 2 : u[2 * m + 2 * i] = w.centre[i]
  <2>1. ASSUME NEW i \in 1 .. 2 PROVE u[2 * m + 2 * i] = w.centre[i]
    <3>1. m + i \in 1 .. m + 2 /\ 2 * (m + i) = 2 * m + 2 * i
      BY <1>6
    <3>2. j[m + i] = w.centre[i]
      BY <1>7 DEF Joins
    <3> QED
      BY <1>10, <3>1, <3>2
  <2> QED
    BY <2>1
<1>14. 2 * m = 12 * n /\ 1 + 2 * (m + 2) = 5 + 12 * n
  BY <1>2 DEF m
<1>15. IsUnits(u, 5 + 12 * n) /\ \A i \in 1 .. 2 : u[12 * n + 2 * i] = w.centre[i]
  BY <1>9, <1>13, <1>14
<1> QED
  BY <1>1, <1>2, <1>3, <1>5, <1>11, <1>12, <1>15 DEF m, q

\* A warp is read back as it was written, and skipped when it is cut or not
\* within its limits.
LEMMA WarpRead ==
  ASSUME NEW op, op.id = WARP_RECTILINEAR, op.body \in Seq(Unit),
         WrittenFrom(op, Warps, WarpUnits(op.content))
  PROVE  Warp(op.body) = IF Sound(op) THEN op.content ELSE Missing
<1> DEFINE w == op.content
           body == op.body
           b == Len(body)
           units == WarpUnits(w)
           n == Len(w.planes)
           q == Coefficients(w.planes)
           one == Fields(body, 0, 1, U32)
           number == one[1]
           c == Fields(body, 1, 6 * number, F64)
           centre == Fields(body, 1 + 12 * number, 2, F64)
           Within == number \in 1 .. PLANES_MAX
           Whole == AllRead(c \o centre)
           Finite == AllFinite(c \o centre)
           warped == [planes |-> [p \in 1 .. number |-> SubSeq(c, 6 * p - 5, 6 * p)],
                      centre |-> centre]
<1>1. Warp(body) = IF Within /\ Whole /\ Finite THEN warped ELSE Missing
  BY Zenon DEF Warp
<1>2. /\ w \in Warps /\ body \in Seq(Unit) /\ b \in Nat
      /\ \A i \in 1 .. b : i <= Len(units) => body[i] = units[i]
  BY Zenon, LenProperties DEF WrittenFrom
<1> HIDE DEF body, w
<1>3. /\ n \in Nat /\ IsUnits(units, 5 + 12 * n) /\ units[1] = n
      /\ IsUnits(q, 6 * n) /\ IsUnits(w.centre, 2)
      /\ \A p \in 1 .. n : \A k \in 1 .. 6 : q[6 * p - 6 + k] = w.planes[p][k]
      /\ \A i \in 1 .. 6 * n : units[2 * i] = q[i]
      /\ \A i \in 1 .. 2 : units[12 * n + 2 * i] = w.centre[i]
      /\ w.planes \in Seq([1 .. 6 -> Unit])
      /\ w = [planes |-> w.planes, centre |-> w.centre]
  BY <1>2, WarpLayout, Zenon
<1>4. Sound(op) <=> Len(units) <= b /\ SoundWarp(w)
  <2>1. Sound(op) <=> Len(op.body) >= Len(WarpUnits(op.content)) /\ SoundWarp(op.content)
    BY CorrectionsAssumption DEF Sound
  <2>2. Len(WarpUnits(op.content)) \in Nat
    BY <1>3 DEF IsUnits, units, w
  <2> QED
    BY <1>2, <2>1, <2>2 DEF w, body
<1> HIDE DEF n, units, q, b
<1>5. Len(units) = 5 + 12 * n
  BY <1>3 DEF IsUnits
<1>6. ReadFrom(one, body, 0, 1, 1, 1)
  <2>1. 1 = 0 + 1 * 1 /\ 1 \in {1, 2}
    OBVIOUS
  <2>2. ReadFrom(Fields(body, 0, 1, 1), body, 0, 1, 1, 1)
    BY <1>2, <2>1, FieldsTo
  <2> QED
    BY <2>2 DEF U32
<1>7. CASE b = 0
  <2>1. Len(one) = 1 /\ one \in Seq(Read) /\ DOMAIN one = 1 .. 1 /\ ~AllRead(one)
    BY <1>6, <1>7 DEF ReadFrom, b
  <2>2. number = Missing
    BY <2>1 DEF AllRead
  <2>3. ~Within
    BY <2>2, ListsAssumption, LimitsAssumption DEF Unit
  <2>4. ~Sound(op)
    BY <1>3, <1>4, <1>5, <1>7
  <2> HIDE DEF Within, Whole, Finite, warped
  <2> QED
    BY <1>1, <2>3, <2>4 DEF body
<1>8. CASE b # 0
  <2>1. number = n
    <3>1. 1 <= b /\ 1 \in 1 .. b /\ 1 <= Len(units)
      BY <1>2, <1>3, <1>5, <1>8
    <3>2. \A i \in 1 .. 1 : one[i] = body[0 + (i - 1) * 1 + 1]
      BY <1>6, <3>1 DEF ReadFrom, b
    <3>3. number = body[1]
      <4>1. 1 \in 1 .. 1 /\ 0 + (1 - 1) * 1 + 1 = 1
        OBVIOUS
      <4> QED
        BY <3>2, <4>1
    <3>4. body[1] = units[1]
      BY <1>2, <3>1
    <3> QED
      BY <1>3, <3>3, <3>4
  <2> HIDE DEF number
  <2>2. CASE ~Within
    <3>1. ~SoundWarp(w)
      BY <2>1, <2>2 DEF SoundWarp, n
    <3> HIDE DEF Within, Whole, Finite, warped
    <3> QED
      BY <1>1, <1>4, <2>2, <3>1 DEF body
  <2>3. CASE Within
    <3> DEFINE m == 6 * n
               end == 1 + 12 * n
    <3>1. m \in Nat /\ end \in Nat /\ end = 1 + m * 2 /\ end + 4 = end + 2 * 2
          /\ end + 4 = 5 + 12 * n /\ m # 0
      <4>1. n \in Nat /\ 1 <= n
        BY <1>3, <2>1, <2>3, LimitsAssumption
      <4> QED
        BY <4>1
    <3>2. 1 \in Nat /\ 2 \in {1, 2} /\ 2 \in Nat
      OBVIOUS
    <3> HIDE DEF m, end
    <3>3. ReadFrom(c, body, 1, m, 2, end)
      <4>1. ReadFrom(Fields(body, 1, m, 2), body, 1, m, 2, end)
        BY <1>2, <3>1, <3>2, FieldsTo
      <4> QED
        BY <2>1, <4>1 DEF F64, m
    <3>4. ReadFrom(centre, body, end, 2, 2, end + 4)
      <4>1. ReadFrom(Fields(body, end, 2, 2), body, end, 2, 2, end + 4)
        BY <1>2, <3>1, <3>2, FieldsTo
      <4> QED
        BY <2>1, <4>1 DEF F64, end
    <3> HIDE DEF c, centre
    <3>5. /\ c \in Seq(Read) /\ Len(c) = m /\ DOMAIN c = 1 .. m
          /\ centre \in Seq(Read) /\ Len(centre) = 2 /\ DOMAIN centre = 1 .. 2
          /\ AllRead(c) <=> end <= b
          /\ AllRead(centre) <=> end + 4 <= b
      BY <3>1, <3>3, <3>4 DEF ReadFrom, b
    <3>6. /\ Whole <=> AllRead(c) /\ AllRead(centre)
          /\ Finite <=> AllFinite(c) /\ AllFinite(centre)
      BY <3>5, AllOfJoined
    <3>7. Whole <=> Len(units) <= b
      BY <1>2, <1>5, <3>1, <3>5, <3>6
    <3>8. CASE ~(Len(units) <= b)
      <4> HIDE DEF Within, Whole, Finite, warped
      <4> QED
        BY <1>1, <1>4, <3>7, <3>8 DEF body
    <3>9. CASE Len(units) <= b
      <4>1. /\ \A i \in 1 .. m : c[i] = body[1 + (i - 1) * 2 + 1]
            /\ \A i \in 1 .. 2 : centre[i] = body[end + (i - 1) * 2 + 1]
        <5>1. end <= b /\ end + 4 <= b
          BY <1>2, <1>5, <3>1, <3>9
        <5> QED
          BY <3>3, <3>4, <5>1 DEF ReadFrom, b
      <4>2. ASSUME NEW i \in 1 .. m PROVE c[0 + i] = q[i]
        <5>1. /\ 1 + (i - 1) * 2 + 1 = 2 * i /\ 2 * i \in 1 .. b /\ 2 * i <= Len(units)
              /\ i \in 1 .. 6 * n /\ 0 + i = i
          <6>1. b \in Nat /\ n \in Nat /\ 5 + 12 * n <= b /\ Len(units) = 5 + 12 * n
            BY <1>2, <1>3, <1>5, <3>9
          <6>2. i \in 1 .. 6 * n
            BY DEF m
          <6> QED
            BY <6>1, <6>2
        <5>2. c[i] = body[2 * i] /\ body[2 * i] = units[2 * i]
          BY <1>2, <4>1, <5>1
        <5> QED
          BY <1>3, <5>1, <5>2
      <4>3. c = q
        <5>1. IsUnits(q, m) /\ Has(c, 0, q, m)
          BY <1>3, <4>2 DEF m, Has
        <5> QED
          BY <3>5, <5>1, ReadEqual
      <4>4. ASSUME NEW i \in 1 .. 2 PROVE centre[0 + i] = w.centre[i]
        <5>1. /\ end + (i - 1) * 2 + 1 = 12 * n + 2 * i
              /\ 12 * n + 2 * i \in 1 .. b /\ 12 * n + 2 * i <= Len(units) /\ 0 + i = i
          <6>1. b \in Nat /\ n \in Nat /\ 5 + 12 * n <= b /\ Len(units) = 5 + 12 * n
            BY <1>2, <1>3, <1>5, <3>9
          <6> QED
            BY <6>1 DEF end
        <5>2. centre[i] = body[12 * n + 2 * i]
              /\ body[12 * n + 2 * i] = units[12 * n + 2 * i]
          BY <1>2, <4>1, <5>1
        <5> QED
          BY <1>3, <5>1, <5>2
      <4>5. centre = w.centre
        <5>1. Has(centre, 0, w.centre, 2)
          BY <4>4 DEF Has
        <5> QED
          BY <1>3, <3>5, <5>1, ReadEqual
      <4>6. ASSUME NEW p \in 1 .. n PROVE SubSeq(c, 6 * p - 5, 6 * p) = w.planes[p]
        <5> DEFINE r == w.planes[p]
                   k == 6 * p - 6
        <5>1. r \in [1 .. 6 -> Unit]
          <6>1. p \in 1 .. Len(w.planes)
            BY DEF n
          <6> QED
            BY <1>3, <6>1, ElementOfSeq
        <5>2. k \in Nat /\ 6 * p - 5 = k + 1 /\ 6 * p = k + 6
          <6>1. n \in Nat
            BY <1>3
          <6>2. p \in Int /\ 1 <= p
            BY <6>1
          <6> HIDE DEF r
          <6> QED
            BY <6>2
        <5>3. Has(c, k, r, 6)
          BY <1>3, <4>3 DEF Has
        <5> HIDE DEF r, k
        <5>4. IsUnits(r, 6)
          BY <5>1, UnitsOfFunction
        <5>5. IsPart(c, 6 * p - 5, 6 * p, r)
          BY <5>2, <5>3, <5>4, PartFrom
        <5> QED
          BY <5>5 DEF IsPart, r
      <4>7. [p \in 1 .. number |-> SubSeq(c, 6 * p - 5, 6 * p)] = w.planes
        <5>1. w.planes = [p \in 1 .. n |-> w.planes[p]]
          BY <1>3 DEF n
        <5> QED
          BY <2>1, <4>6, <5>1
      <4>8. warped = w
        BY <1>3, <4>5, <4>7
      <4>9. Finite <=> SoundWarp(w)
        <5>1. Finite <=> AllFinite(q) /\ AllFinite(w.centre)
          BY <3>6, <4>3, <4>5
        <5>2. AllFinite(q) <=> NotFinite \notin UNION {Range(x) : x \in Range(w.planes)}
          BY <1>3, FiniteCoefficients DEF q
        <5>3. AllFinite(w.centre) <=> NotFinite \notin Range(w.centre)
          BY DEF AllFinite, Range
        <5>4. n \in 1 .. PLANES_MAX
          BY <2>1, <2>3
        <5> HIDE DEF Finite
        <5> QED
          BY <5>1, <5>2, <5>3, <5>4 DEF SoundWarp, n
      <4> HIDE DEF Within, Whole, Finite, warped
      <4> QED
        BY <1>1, <1>4, <2>3, <3>7, <3>9, <4>8, <4>9 DEF body, w
    <3> QED
      BY <3>8, <3>9
  <2> QED
    BY <2>2, <2>3
<1> QED
  BY <1>7, <1>8

-----------------------------------------------------------------------------
(* The sound opcodes among those gone through                              *)

\* What the opcodes were written from.
Contents == {written.ops[i].content : i \in 1 .. Len(written.ops)}

\* The opcode n is a sound one of this kind.
IsSound(n, id) == written.ops[n].id = id /\ Sound(written.ops[n])

\* One opcode more adds what it was written from, when it is sound.
LEMMA SoundUnfolds ==
  ASSUME Len(written.ops) \in Nat, NEW n \in 0 .. Len(written.ops), NEW id
  PROVE  /\ SoundAmong(0, id) = <<>>
         /\ SoundAmong(n, id) \in Seq(Contents)
         /\ n < Len(written.ops) =>
              /\ IsSound(n + 1, id) =>
                   SoundAmong(n + 1, id) = Append(SoundAmong(n, id), written.ops[n + 1].content)
              /\ ~IsSound(n + 1, id) => SoundAmong(n + 1, id) = SoundAmong(n, id)
<1> DEFINE op(i) == written.ops[i]
           step(f, i) == IF op(i).id = id /\ Sound(op(i)) THEN Append(f[i - 1], op(i).content)
                         ELSE f[i - 1]
           Sounds(f, m) == f = [i \in 0 .. m |-> IF i = 0 THEN <<>> ELSE step(f, i)]
           v(m) == CHOOSE f : Sounds(f, m)
           last == Len(written.ops)
           S == Seq(Contents)
<1>1. last \in Nat /\ <<>> \in S
  OBVIOUS
<1>2. \A i \in 1 .. last : op(i).content \in Contents
  BY DEF Contents
<1>3. \A i \in 1 .. last : \A y \in S : Append(y, op(i).content) \in S
  <2> HIDE DEF op, last
  <2> QED
    BY <1>2
<1>4. ASSUME NEW m \in 0 .. last
      PROVE  \E f : Sounds(f, m) /\ f \in [0 .. m -> S]
  <2> DEFINE G == [q \in (1 .. m) \X S |->
                     IF op(q[1]).id = id /\ Sound(op(q[1])) THEN Append(q[2], op(q[1]).content)
                     ELSE q[2]]
  <2> HIDE DEF S, op
  <2>1. ASSUME NEW i \in 1 .. m, NEW y \in S
        PROVE  /\ G[<<i, y>>] = IF op(i).id = id /\ Sound(op(i)) THEN Append(y, op(i).content)
                                ELSE y
               /\ G[<<i, y>>] \in S
    <3>1. i \in 1 .. last
      BY <1>1
    <3>2. G[<<i, y>>] = IF op(i).id = id /\ Sound(op(i)) THEN Append(y, op(i).content) ELSE y
      OBVIOUS
    <3> HIDE DEF G
    <3> QED
      BY <1>3, <3>1, <3>2
  <2> HIDE DEF G
  <2>2. m \in Nat /\ StaysIn(S, m, G)
    BY <1>1, <2>1 DEF StaysIn
  <2>3. \E f : Recurses(f, S, m, <<>>, G)
    <3> DEFINE base == <<>>
    <3>1. base \in S
      BY <1>1
    <3> HIDE DEF base
    <3>2. \E f : Recurses(f, S, m, base, G)
      BY <2>2, <3>1, Recursion
    <3> QED
      BY <3>2 DEF base
  <2>4. PICK f : f \in [0 .. m -> S] /\ f[0] = <<>> /\ \A i \in 1 .. m : f[i] = G[<<i, f[i - 1]>>]
    BY <2>3 DEF Recurses
  <2>5. ASSUME NEW i \in 1 .. m PROVE f[i] = step(f, i)
    <3>1. f[i - 1] \in S
      BY <2>4
    <3> QED
      BY <2>1, <2>4, <3>1
  <2>6. f = [i \in 0 .. m |-> IF i = 0 THEN <<>> ELSE step(f, i)]
    <3> HIDE DEF step
    <3> QED
      BY <2>2, <2>4, <2>5
  <2> QED
    BY <2>4, <2>6
<1>5. ASSUME NEW m \in 0 .. last
      PROVE  /\ SoundAmong(m, id) = v(m)[m] /\ v(m)[0] = <<>>
             /\ \A i \in 1 .. m : v(m)[i] = step(v(m), i)
  <2>1. SoundAmong(m, id) = v(m)[m]
    BY Zenon DEF SoundAmong
  <2>2. Sounds(v(m), m)
    <3>1. \E f : Sounds(f, m)
      BY <1>4
    <3> HIDE DEF Sounds
    <3> QED
      BY <3>1
  <2> HIDE DEF v
  <2>3. v(m) = [i \in 0 .. m |-> IF i = 0 THEN <<>> ELSE step(v(m), i)]
    BY <2>2
  <2> HIDE DEF step
  <2> DEFINE w == v(m)
             g(i) == step(w, i)
  <2>4. w = [i \in 0 .. m |-> IF i = 0 THEN <<>> ELSE g(i)]
    BY <2>3
  <2> HIDE DEF w, g
  <2>5. m \in Nat
    BY <1>1
  <2>6. w[0] = <<>> /\ \A i \in 1 .. m : w[i] = g(i)
    BY <2>4, <2>5
  <2> QED
    BY <2>1, <2>6 DEF w, g
<1> HIDE DEF v
<1>6. SoundAmong(0, id) = <<>>
  <2>1. 0 \in 0 .. last
    BY <1>1
  <2> QED
    BY <1>5, <2>1
<1>7. ASSUME n < last
      PROVE  SoundAmong(n + 1, id) = IF IsSound(n + 1, id)
                                     THEN Append(SoundAmong(n, id), op(n + 1).content)
                                     ELSE SoundAmong(n, id)
  <2>0. n \in Nat /\ n + 1 \in 0 .. last /\ n \in 0 .. last
    BY <1>1, <1>7
  <2> DEFINE a == v(n)
             c == v(n + 1)
             A == {i \in 0 .. n : a[i] = c[i]}
  <2>1. /\ SoundAmong(n, id) = a[n] /\ a[0] = <<>>
        /\ \A i \in 1 .. n : a[i] = step(a, i)
    BY <1>5, <2>0
  <2>2. /\ SoundAmong(n + 1, id) = c[n + 1] /\ c[0] = <<>>
        /\ \A i \in 1 .. n + 1 : c[i] = step(c, i)
    BY <1>5, <2>0
  <2> HIDE DEF a, c, op
  <2>3. 0 \in A /\ \A i \in 1 .. n : i - 1 \in A => i \in A
    BY <2>0, <2>1, <2>2
  <2> HIDE DEF A
  <2>4. n \in A
    <3>1. 0 .. n \subseteq A
      BY <2>0, <2>3, InductionTo
    <3> QED
      BY <2>0, <3>1
  <2>5. a[n] = c[n]
    BY <2>4 DEF A
  <2>6. c[n + 1] = step(c, n + 1) /\ (n + 1) - 1 = n
    <3>1. n + 1 \in 1 .. n + 1 /\ (n + 1) - 1 = n
      BY <2>0
    <3> QED
      BY <2>2, <3>1
  <2> QED
    BY <2>1, <2>2, <2>5, <2>6 DEF IsSound, op
<1>8. SoundAmong(n, id) \in Seq(Contents)
  <2> DEFINE w == v(n)
             A == {i \in 0 .. n : w[i] \in S}
  <2>0. n \in Nat
    BY <1>1
  <2>1. /\ SoundAmong(n, id) = w[n] /\ w[0] = <<>>
        /\ \A i \in 1 .. n : w[i] = step(w, i)
    BY <1>5
  <2> HIDE DEF w, op, S
  <2>2. 0 \in A
    BY <1>1, <2>0, <2>1
  <2>3. ASSUME NEW i \in 1 .. n, i - 1 \in A PROVE i \in A
    <3>1. i \in 1 .. last /\ w[i - 1] \in S
      BY <1>1, <2>3
    <3>2. Append(w[i - 1], op(i).content) \in S
      BY <1>3, <3>1
    <3> QED
      BY <2>0, <2>1, <3>1, <3>2
  <2> HIDE DEF A
  <2>4. 0 .. n \subseteq A
    BY <2>0, <2>2, <2>3, InductionTo
  <2>5. n \in A
    BY <2>0, <2>4
  <2> QED
    BY <2>1, <2>5 DEF A, S
<1> QED
  BY <1>6, <1>7, <1>8

\* Min is the lesser of two numbers.
LEMMA LeastOfTwo ==
  ASSUME NEW a \in Nat, NEW b \in Nat
  PROVE  Min({a, b}) = IF a <= b THEN a ELSE b
<1> DEFINE c == IF a <= b THEN a ELSE b
<1>1. c \in {a, b} /\ \A x \in {a, b} : c <= x
  OBVIOUS
<1>2. \A x \in {a, b} : (\A y \in {a, b} : x <= y) => x = c
  OBVIOUS
<1> HIDE DEF c
<1>3. \E x \in {a, b} : \A y \in {a, b} : x <= y
  BY <1>1
<1>4. Min({a, b}) \in {a, b} /\ \A y \in {a, b} : Min({a, b}) <= y
  BY <1>3, Zenon DEF Min
<1> QED
  BY <1>2, <1>4 DEF c

\* The first of them, K at most.
FirstOf(s, K) == SubSeq(s, 1, Min({Len(s), K}))

\* One more is added to the first ones while there are fewer than K.
LEMMA FirstOfAppended ==
  ASSUME NEW S, NEW s \in Seq(S), NEW c \in S, NEW K \in Nat
  PROVE  /\ Len(FirstOf(s, K)) = K => FirstOf(Append(s, c), K) = FirstOf(s, K)
         /\ Len(FirstOf(s, K)) # K => FirstOf(Append(s, c), K) = Append(FirstOf(s, K), c)
<1> DEFINE n == Len(s)
           t == Append(s, c)
           f == FirstOf(s, K)
           g == FirstOf(t, K)
<1>1. /\ n \in Nat /\ t \in Seq(S) /\ Len(t) = n + 1
      /\ \A i \in 1 .. n : t[i] = s[i]
      /\ t[n + 1] = c
      /\ \A i \in 1 .. n : s[i] \in S
      /\ \A i \in 1 .. n + 1 : t[i] \in S
  <2>1. n \in Nat /\ t \in Seq(S) /\ Len(t) = n + 1
    BY AppendProperties, LenProperties
  <2>2. (\A i \in 1 .. n : t[i] = s[i]) /\ t[n + 1] = c
    BY AppendProperties
  <2> HIDE DEF t
  <2> QED
    BY <2>1, <2>2, ElementOfSeq
<1> HIDE DEF n, t
<1> DEFINE k == IF n <= K THEN n ELSE K
           l == IF n + 1 <= K THEN n + 1 ELSE K
<1>2. f = SubSeq(s, 1, k)
  <2>1. Min({n, K}) = k
    BY <1>1, LeastOfTwo
  <2> HIDE DEF k
  <2> QED
    BY <2>1 DEF FirstOf, n
<1>3. g = SubSeq(t, 1, l)
  <2>1. Min({n + 1, K}) = l
    <3>1. n + 1 \in Nat
      BY <1>1
    <3> QED
      BY <3>1, LeastOfTwo
  <2> HIDE DEF l
  <2> QED
    BY <1>1, <2>1 DEF FirstOf
<1>4. k \in Nat /\ k <= n /\ l \in Nat /\ l <= n + 1
  BY <1>1
<1> HIDE DEF f, g
<1>5. /\ f \in Seq(S) /\ Len(f) = k /\ \A i \in 1 .. k : f[i] = s[i]
  <2> HIDE DEF k
  <2>1. \A i \in 1 .. k : s[i] \in S
    BY <1>1, <1>4
  <2>2. /\ f \in Seq(S)
        /\ Len(f) = IF 1 <= k THEN k - 1 + 1 ELSE 0
        /\ \A i \in 1 .. k - 1 + 1 : f[i] = s[1 + i - 1]
    <3>1. k \in Int /\ 1 \in Int
      BY <1>4
    <3> QED
      BY <1>2, <2>1, <3>1, SubSeqProperties
  <2> QED
    BY <1>4, <2>2
<1>6. /\ g \in Seq(S) /\ Len(g) = l /\ \A i \in 1 .. l : g[i] = t[i]
  <2> HIDE DEF l
  <2>1. \A i \in 1 .. l : t[i] \in S
    BY <1>1, <1>4
  <2>2. /\ g \in Seq(S)
        /\ Len(g) = IF 1 <= l THEN l - 1 + 1 ELSE 0
        /\ \A i \in 1 .. l - 1 + 1 : g[i] = t[1 + i - 1]
    <3>1. l \in Int /\ 1 \in Int
      BY <1>4
    <3> QED
      BY <1>3, <2>1, <3>1, SubSeqProperties
  <2> QED
    BY <1>4, <2>2
<1>7. ASSUME k = K PROVE g = f
  <2>1. l = k
    BY <1>1, <1>7
  <2>2. \A i \in 1 .. k : g[i] = f[i]
    BY <1>1, <1>4, <1>5, <1>6, <2>1
  <2> HIDE DEF k, l
  <2> QED
    BY <1>5, <1>6, <2>1, <2>2, SeqEqual
<1>8. ASSUME k # K PROVE g = Append(f, c)
  <2> DEFINE h == Append(f, c)
  <2>1. k = n /\ l = n + 1
    BY <1>1, <1>8
  <2> HIDE DEF k, l
  <2>2. /\ h \in Seq(S) /\ Len(h) = k + 1
        /\ \A i \in 1 .. k : h[i] = f[i]
        /\ h[k + 1] = c
    <3>1. /\ h \in Seq(S) /\ Len(h) = Len(f) + 1
          /\ \A i \in 1 .. Len(f) : h[i] = f[i]
          /\ h[Len(f) + 1] = c
      BY <1>5, AppendProperties
    <3> QED
      BY <1>5, <3>1
  <2> HIDE DEF h
  <2>3. ASSUME NEW i \in 1 .. l PROVE g[i] = h[i]
    <3>1. CASE i = n + 1
      BY <1>1, <1>6, <2>1, <2>2, <3>1
    <3>2. CASE i # n + 1
      <4>1. i \in 1 .. n
        BY <1>1, <2>1, <3>2
      <4> QED
        BY <1>1, <1>5, <1>6, <2>1, <2>2, <4>1
    <3> QED
      BY <3>1, <3>2
  <2>4. Len(h) = l /\ Len(g) = l
    BY <1>6, <2>1, <2>2
  <2> QED
    BY <1>6, <2>2, <2>3, <2>4, SeqEqual DEF h
<1> HIDE DEF k
<1> QED
  BY <1>5, <1>7, <1>8 DEF f, g, t

\* The last of the sound opcodes of this kind among the first n.
LastOf(n, id) ==
  LET sound == SoundAmong(n, id) IN IF sound = <<>> THEN Missing ELSE sound[Len(sound)]

\* One opcode more is the last one, when it is sound.
LEMMA LastUnfolds ==
  ASSUME Len(written.ops) \in Nat, NEW n \in 0 .. Len(written.ops), NEW id,
         n < Len(written.ops)
  PROVE  /\ IsSound(n + 1, id) => LastOf(n + 1, id) = written.ops[n + 1].content
         /\ ~IsSound(n + 1, id) => LastOf(n + 1, id) = LastOf(n, id)
<1> DEFINE s == SoundAmong(n, id)
           t == SoundAmong(n + 1, id)
           c == written.ops[n + 1].content
<1>1. /\ s \in Seq(Contents)
      /\ IsSound(n + 1, id) => t = Append(s, c)
      /\ ~IsSound(n + 1, id) => t = s
  BY SoundUnfolds
<1>2. c \in Contents
  BY DEF Contents
<1> HIDE DEF s, t, c
<1>3. CASE IsSound(n + 1, id)
  <2>1. t = Append(s, c)
    BY <1>1, <1>3
  <2>2. t # <<>> /\ t[Len(t)] = c
    <3>1. Append(s, c) \in Seq(Contents) /\ Len(Append(s, c)) = Len(s) + 1
          /\ Append(s, c)[Len(s) + 1] = c /\ Len(s) \in Nat
      BY <1>1, <1>2, AppendProperties, LenProperties
    <3> QED
      BY <2>1, <3>1
  <2> QED
    BY <1>3, <2>2 DEF LastOf, t, c
<1>4. CASE ~IsSound(n + 1, id)
  BY <1>1, <1>4 DEF LastOf, s, t
<1> QED
  BY <1>3, <1>4

\* What is kept is what was written, soundly, up to the opcodes gone through.
CorrectionsInv ==
  /\ \A i \in 1 .. Len(written.ops) : IsCorrection(written.ops[i])
  /\ read \in 0 .. Len(found)
  /\ pc # "done" => read = 0
  /\ FirstSoundMaps
  /\ LastSoundLens

\* The properties, said of these functions.
LEMMA CorrectionsParts ==
  /\ FirstSoundMaps <=> maps = FirstOf(SoundAmong(read, GAIN_MAP), MAPS_MAX)
  /\ LastSoundLens <=> /\ vignette = LastOf(read, FIX_VIGNETTE_RADIAL)
                       /\ warp = LastOf(read, WARP_RECTILINEAR)
<1>1. FirstSoundMaps <=> maps = FirstOf(SoundAmong(read, GAIN_MAP), MAPS_MAX)
  BY Zenon DEF FirstSoundMaps, FirstOf
<1>2. LastSoundLens <=> /\ vignette = LastOf(read, FIX_VIGNETTE_RADIAL)
                        /\ warp = LastOf(read, WARP_RECTILINEAR)
  BY Zenon DEF LastSoundLens, LastOf
<1> QED
  BY <1>1, <1>2

\* Nothing is kept at first.
LEMMA InitCorrections ==
  ASSUME CorrectionsInit
  PROVE  CorrectionsInv
<1>1. ReadingInv
  BY InitReading
<1>2. Len(written.ops) \in Nat /\ DOMAIN written.ops = 1 .. Len(written.ops)
  BY <1>1, ListTypes DEF ReadingInv, IsOps
<1>3. \A i \in 1 .. Len(written.ops) : IsCorrection(written.ops[i])
  <2>1. PICK l \in Lists : written = l.written
    BY DEF CorrectionsInit, Init
  <2> QED
    BY <1>2, <2>1, CorrectionsAssumption
<1>4. read = 0 /\ maps = <<>> /\ vignette = Missing /\ warp = Missing /\ found = <<>>
  BY DEF CorrectionsInit, Init
<1>5. \A id : SoundAmong(0, id) = <<>>
  <2>1. 0 \in 0 .. Len(written.ops)
    BY <1>2
  <2> QED
    BY <1>2, <2>1, SoundUnfolds
<1>6. FirstOf(<<>>, MAPS_MAX) = <<>>
  <2>1. Min({0, MAPS_MAX}) = 0
    <3>1. MAPS_MAX \in Nat /\ 0 \in Nat /\ 0 <= MAPS_MAX
      BY CorrectionsAssumption
    <3>2. 0 \in {0, MAPS_MAX} /\ \A x \in {0, MAPS_MAX} : 0 <= x
      BY <3>1
    <3>3. \A x \in {0, MAPS_MAX} : (\A y \in {0, MAPS_MAX} : x <= y) => x = 0
      BY <3>1
    <3> QED
      BY <3>2, <3>3, Zenon DEF Min
  <2>2. Len(<<>>) = 0 /\ SubSeq(<<>>, 1, 0) = <<>>
    OBVIOUS
  <2> QED
    BY <2>1, <2>2 DEF FirstOf
<1>7. FirstSoundMaps /\ LastSoundLens
  <2>1. \A id : LastOf(0, id) = Missing
    BY <1>5 DEF LastOf
  <2> QED
    BY <1>4, <1>5, <1>6, <2>1, CorrectionsParts
<1> QED
  BY <1>3, <1>4, <1>7 DEF CorrectionsInv

\* The opcode visited is the next one written.
LEMMA NextVisited ==
  ASSUME ReadingInv, CorrectionsInv, NEW id, Visit(id)
  PROVE  LET op == written.ops[read + 1]
         IN  /\ Len(written.ops) \in Nat /\ read \in 0 .. Len(written.ops)
             /\ read < Len(written.ops)
             /\ op.id = id /\ Body = op.body /\ op.body \in Seq(Unit) /\ IsCorrection(op)
             /\ IsSound(read + 1, id) <=> Sound(op)
             /\ \A j : j # id => ~IsSound(read + 1, j)
             /\ read' \in 0 .. Len(found') /\ pc' = "done"
             /\ (\A i \in 1 .. Len(written.ops) : IsCorrection(written.ops[i]))'
             /\ \A j : SoundAmong(read, j)' = SoundAmong(read + 1, j)
             /\ \A j : LastOf(read, j)' = LastOf(read + 1, j)
<1> DEFINE op == written.ops[read + 1]
           last == Len(written.ops)
<1>1. /\ pc = "done" /\ read < Len(found) /\ found[read + 1].id = id
      /\ read' = read + 1 /\ UNCHANGED <<written, found, pc>>
  BY DEF Visit, vars
<1>2. IsOps(written.ops) /\ last \in Nat
  BY ListTypes DEF ReadingInv
<1>3. /\ Len(found) \in 0 .. last
      /\ found = [i \in 1 .. Len(found) |-> [id |-> written.ops[i].id, body |-> written.ops[i].body]]
  BY Zenon DEF ReadingInv, FoundAsWritten
<1>4. read \in 0 .. Len(found) /\ \A i \in 1 .. last : IsCorrection(written.ops[i])
  BY DEF CorrectionsInv
<1>5. read + 1 \in 1 .. Len(found) /\ read + 1 \in 1 .. last /\ read \in 0 .. last /\ read < last
  BY <1>1, <1>2, <1>3, <1>4
<1>6. found[read + 1] = [id |-> op.id, body |-> op.body]
  BY <1>3, <1>5
<1>7. op.id = id /\ Body = op.body /\ op.body \in Seq(Unit) /\ IsCorrection(op)
  BY <1>1, <1>2, <1>4, <1>5, <1>6 DEF Body, IsOps
<1>8. (\A i \in 1 .. Len(written.ops) : IsCorrection(written.ops[i]))'
  BY <1>1, <1>4 DEF IsCorrection
<1>9. read' \in 0 .. Len(found')
  BY <1>1, <1>3, <1>5
<1>10. ASSUME NEW j
       PROVE  SoundAmong(read, j)' = SoundAmong(read + 1, j)
              /\ LastOf(read, j)' = LastOf(read + 1, j)
  <2>1. SoundAmong(read, j)' = SoundAmong(read + 1, j)
    BY <1>1, Zenon DEF SoundAmong
  <2> QED
    BY <2>1, Zenon DEF LastOf
<1>11. (IsSound(read + 1, id) <=> Sound(op)) /\ \A j : j # id => ~IsSound(read + 1, j)
  BY <1>7 DEF IsSound
<1> HIDE DEF op, last
<1> QED
  BY <1>1, <1>2, <1>5, <1>7, <1>8, <1>9, <1>10, <1>11 DEF op, last

\* What the sound opcodes were written from, when there is one more to go through.
LEMMA SoundNext ==
  ASSUME Len(written.ops) \in Nat, read \in 0 .. Len(written.ops), read < Len(written.ops),
         NEW id
  PROVE  LET s == SoundAmong(read, id)
             t == SoundAmong(read + 1, id)
             c == written.ops[read + 1].content
         IN  /\ s \in Seq(Contents) /\ c \in Contents
             /\ IsSound(read + 1, id) => t = Append(s, c) /\ LastOf(read + 1, id) = c
             /\ ~IsSound(read + 1, id) => t = s /\ LastOf(read + 1, id) = LastOf(read, id)
<1>1. PICK n \in 0 .. Len(written.ops) : n = read
  OBVIOUS
<1>2. /\ SoundAmong(n, id) \in Seq(Contents)
      /\ IsSound(n + 1, id) =>
           SoundAmong(n + 1, id) = Append(SoundAmong(n, id), written.ops[n + 1].content)
      /\ ~IsSound(n + 1, id) => SoundAmong(n + 1, id) = SoundAmong(n, id)
  BY <1>1, SoundUnfolds
<1>3. /\ IsSound(n + 1, id) => LastOf(n + 1, id) = written.ops[n + 1].content
      /\ ~IsSound(n + 1, id) => LastOf(n + 1, id) = LastOf(n, id)
  BY <1>1, LastUnfolds
<1>4. written.ops[n + 1].content \in Contents
  BY <1>1 DEF Contents
<1> QED
  BY <1>1, <1>2, <1>3, <1>4

\* The first maps, when there is one more.
LEMMA FirstMapsNext ==
  ASSUME Len(written.ops) \in Nat, read \in 0 .. Len(written.ops), read < Len(written.ops),
         maps = FirstOf(SoundAmong(read, GAIN_MAP), MAPS_MAX)
  PROVE  LET first == FirstOf(SoundAmong(read + 1, GAIN_MAP), MAPS_MAX)
         IN  /\ IsSound(read + 1, GAIN_MAP) =>
                  /\ Len(maps) = MAPS_MAX => first = maps
                  /\ Len(maps) # MAPS_MAX =>
                       first = Append(maps, written.ops[read + 1].content)
             /\ ~IsSound(read + 1, GAIN_MAP) => first = maps
<1>1. PICK S, s, t, c : /\ S = Contents /\ s = SoundAmong(read, GAIN_MAP)
                        /\ t = SoundAmong(read + 1, GAIN_MAP)
                        /\ c = written.ops[read + 1].content
  OBVIOUS
<1>2. /\ s \in Seq(S) /\ c \in S
      /\ IsSound(read + 1, GAIN_MAP) => t = Append(s, c)
      /\ ~IsSound(read + 1, GAIN_MAP) => t = s
  BY <1>1, SoundNext, Zenon
<1>3. /\ Len(FirstOf(s, MAPS_MAX)) = MAPS_MAX =>
           FirstOf(Append(s, c), MAPS_MAX) = FirstOf(s, MAPS_MAX)
      /\ Len(FirstOf(s, MAPS_MAX)) # MAPS_MAX =>
           FirstOf(Append(s, c), MAPS_MAX) = Append(FirstOf(s, MAPS_MAX), c)
  <2>1. MAPS_MAX \in Nat
    BY CorrectionsAssumption
  <2> QED
    BY <1>2, <2>1, FirstOfAppended
<1> QED
  BY <1>1, <1>2, <1>3

\* When what is kept is right for one opcode more, so is the invariant.
LEMMA KeepsCorrections ==
  ASSUME ReadingInv, CorrectionsInv, NEW id, Visit(id),
         maps' = FirstOf(SoundAmong(read + 1, GAIN_MAP), MAPS_MAX),
         vignette' = LastOf(read + 1, FIX_VIGNETTE_RADIAL),
         warp' = LastOf(read + 1, WARP_RECTILINEAR)
  PROVE  CorrectionsInv'
<1>1. /\ read' \in 0 .. Len(found') /\ pc' = "done"
      /\ (\A i \in 1 .. Len(written.ops) : IsCorrection(written.ops[i]))'
      /\ \A j : SoundAmong(read, j)' = SoundAmong(read + 1, j)
      /\ \A j : LastOf(read, j)' = LastOf(read + 1, j)
  BY NextVisited, Zenon
<1>2. /\ maps' = FirstOf(SoundAmong(read, GAIN_MAP), MAPS_MAX)'
      /\ vignette' = LastOf(read, FIX_VIGNETTE_RADIAL)'
      /\ warp' = LastOf(read, WARP_RECTILINEAR)'
  <2>1. FirstOf(SoundAmong(read, GAIN_MAP), MAPS_MAX)'
          = FirstOf(SoundAmong(read + 1, GAIN_MAP), MAPS_MAX)
    BY <1>1 DEF FirstOf
  <2> QED
    BY <1>1, <2>1
<1>3. FirstSoundMaps' /\ LastSoundLens'
  BY <1>2, Zenon DEF FirstSoundMaps, LastSoundLens, FirstOf, LastOf
<1> QED
  BY <1>1, <1>3 DEF CorrectionsInv

\* What is kept of a kind that the opcode is not.
LEMMA OtherKinds ==
  ASSUME ReadingInv, CorrectionsInv, NEW id, Visit(id)
  PROVE  /\ GAIN_MAP # id => maps = FirstOf(SoundAmong(read + 1, GAIN_MAP), MAPS_MAX)
         /\ FIX_VIGNETTE_RADIAL # id => vignette = LastOf(read + 1, FIX_VIGNETTE_RADIAL)
         /\ WARP_RECTILINEAR # id => warp = LastOf(read + 1, WARP_RECTILINEAR)
<1>1. /\ Len(written.ops) \in Nat /\ read \in 0 .. Len(written.ops)
      /\ read < Len(written.ops)
      /\ \A j : j # id => ~IsSound(read + 1, j)
  BY NextVisited, Zenon
<1>2. /\ maps = FirstOf(SoundAmong(read, GAIN_MAP), MAPS_MAX)
      /\ vignette = LastOf(read, FIX_VIGNETTE_RADIAL)
      /\ warp = LastOf(read, WARP_RECTILINEAR)
  BY CorrectionsParts DEF CorrectionsInv
<1>3. \A j : j # id => LastOf(read + 1, j) = LastOf(read, j)
  BY <1>1, SoundNext
<1>4. GAIN_MAP # id => FirstOf(SoundAmong(read + 1, GAIN_MAP), MAPS_MAX) = maps
  BY <1>1, <1>2, FirstMapsNext, Zenon
<1> QED
  BY <1>2, <1>3, <1>4

\* A gain map is added while there are fewer than MAPS_MAX.
LEMMA ReadGainMapKeeps ==
  ASSUME ReadingInv, CorrectionsInv, ReadGainMap
  PROVE  CorrectionsInv'
<1> DEFINE op == written.ops[read + 1]
           map == GainMap(Body)
<1>1. /\ Visit(GAIN_MAP)
      /\ maps' = IF map = Missing \/ Len(maps) = MAPS_MAX THEN maps ELSE Append(maps, map)
      /\ UNCHANGED <<vignette, warp>>
  BY Zenon DEF ReadGainMap
<1>2. /\ Len(written.ops) \in Nat /\ read \in 0 .. Len(written.ops)
      /\ read < Len(written.ops)
      /\ op.id = GAIN_MAP /\ Body = op.body /\ op.body \in Seq(Unit) /\ IsCorrection(op)
      /\ IsSound(read + 1, GAIN_MAP) <=> Sound(op)
  BY <1>1, NextVisited, Zenon
<1>3. map = (IF Sound(op) THEN op.content ELSE Missing) /\ op.content # Missing
  <2>1. PICK o : o = op
    OBVIOUS
  <2> HIDE DEF op
  <2>2. /\ o.id = GAIN_MAP /\ o.body \in Seq(Unit)
        /\ WrittenFrom(o, GainMaps, GainMapUnits(o.content))
    BY <1>2, <2>1 DEF IsCorrection
  <2>3. GainMap(o.body) = IF Sound(o) THEN o.content ELSE Missing
    BY <2>2, GainMapRead
  <2>4. o.content # Missing
    BY <2>2, CorrectionsAssumption DEF WrittenFrom
  <2> QED
    BY <1>2, <2>1, <2>3, <2>4
<1>4. maps = FirstOf(SoundAmong(read, GAIN_MAP), MAPS_MAX)
  BY CorrectionsParts DEF CorrectionsInv
<1> HIDE DEF op, map
<1>5. LET first == FirstOf(SoundAmong(read + 1, GAIN_MAP), MAPS_MAX)
      IN  /\ Sound(op) => /\ Len(maps) = MAPS_MAX => first = maps
                          /\ Len(maps) # MAPS_MAX => first = Append(maps, op.content)
          /\ ~Sound(op) => first = maps
  BY <1>2, <1>4, FirstMapsNext, Zenon DEF op
<1>6. maps' = FirstOf(SoundAmong(read + 1, GAIN_MAP), MAPS_MAX)
  BY <1>1, <1>3, <1>5
<1>7. /\ vignette = LastOf(read + 1, FIX_VIGNETTE_RADIAL)
      /\ warp = LastOf(read + 1, WARP_RECTILINEAR)
  BY <1>1, OtherKinds, CorrectionsAssumption
<1> QED
  BY <1>1, <1>6, <1>7, KeepsCorrections

\* A vignette takes the place of the one before when it is sound.
LEMMA ReadVignetteKeeps ==
  ASSUME ReadingInv, CorrectionsInv, ReadVignette
  PROVE  CorrectionsInv'
<1> DEFINE op == written.ops[read + 1]
           value == RadialVignette(Body)
<1>1. /\ Visit(FIX_VIGNETTE_RADIAL)
      /\ vignette' = IF value = Missing THEN vignette ELSE value
      /\ UNCHANGED <<maps, warp>>
  BY Zenon DEF ReadVignette, Kept
<1>2. /\ Len(written.ops) \in Nat /\ read \in 0 .. Len(written.ops)
      /\ read < Len(written.ops)
      /\ op.id = FIX_VIGNETTE_RADIAL /\ Body = op.body /\ op.body \in Seq(Unit)
      /\ IsCorrection(op)
      /\ IsSound(read + 1, FIX_VIGNETTE_RADIAL) <=> Sound(op)
  BY <1>1, NextVisited, Zenon
<1>3. value = (IF Sound(op) THEN op.content ELSE Missing) /\ op.content # Missing
  <2>1. PICK o : o = op
    OBVIOUS
  <2> HIDE DEF op
  <2>2. /\ o.id = FIX_VIGNETTE_RADIAL /\ o.body \in Seq(Unit)
        /\ WrittenFrom(o, Vignettes, VignetteUnits(o.content))
    BY <1>2, <2>1 DEF IsCorrection
  <2>3. RadialVignette(o.body) = IF Sound(o) THEN o.content ELSE Missing
    BY <2>2, VignetteRead
  <2>4. o.content # Missing
    BY <2>2, CorrectionsAssumption DEF WrittenFrom
  <2> QED
    BY <1>2, <2>1, <2>3, <2>4
<1>4. vignette = LastOf(read, FIX_VIGNETTE_RADIAL)
  BY CorrectionsParts DEF CorrectionsInv
<1>5. /\ Sound(op) => LastOf(read + 1, FIX_VIGNETTE_RADIAL) = op.content
      /\ ~Sound(op) => LastOf(read + 1, FIX_VIGNETTE_RADIAL) = LastOf(read, FIX_VIGNETTE_RADIAL)
  <2> HIDE DEF op
  <2> QED
    BY <1>2, SoundNext, Zenon DEF op
<1> HIDE DEF op, value
<1>6. vignette' = LastOf(read + 1, FIX_VIGNETTE_RADIAL)
  BY <1>1, <1>3, <1>4, <1>5
<1>7. /\ maps = FirstOf(SoundAmong(read + 1, GAIN_MAP), MAPS_MAX)
      /\ warp = LastOf(read + 1, WARP_RECTILINEAR)
  BY <1>1, OtherKinds, CorrectionsAssumption
<1> QED
  BY <1>1, <1>6, <1>7, KeepsCorrections

\* A warp takes the place of the one before when it is sound.
LEMMA ReadWarpKeeps ==
  ASSUME ReadingInv, CorrectionsInv, ReadWarp
  PROVE  CorrectionsInv'
<1> DEFINE op == written.ops[read + 1]
           value == Warp(Body)
<1>1. /\ Visit(WARP_RECTILINEAR)
      /\ warp' = IF value = Missing THEN warp ELSE value
      /\ UNCHANGED <<maps, vignette>>
  BY Zenon DEF ReadWarp, Kept
<1>2. /\ Len(written.ops) \in Nat /\ read \in 0 .. Len(written.ops)
      /\ read < Len(written.ops)
      /\ op.id = WARP_RECTILINEAR /\ Body = op.body /\ op.body \in Seq(Unit)
      /\ IsCorrection(op)
      /\ IsSound(read + 1, WARP_RECTILINEAR) <=> Sound(op)
  BY <1>1, NextVisited, Zenon
<1>3. value = (IF Sound(op) THEN op.content ELSE Missing) /\ op.content # Missing
  <2>1. PICK o : o = op
    OBVIOUS
  <2> HIDE DEF op
  <2>2. /\ o.id = WARP_RECTILINEAR /\ o.body \in Seq(Unit)
        /\ WrittenFrom(o, Warps, WarpUnits(o.content))
    BY <1>2, <2>1 DEF IsCorrection
  <2>3. Warp(o.body) = IF Sound(o) THEN o.content ELSE Missing
    BY <2>2, WarpRead
  <2>4. o.content # Missing
    BY <2>2, CorrectionsAssumption DEF WrittenFrom
  <2> QED
    BY <1>2, <2>1, <2>3, <2>4
<1>4. warp = LastOf(read, WARP_RECTILINEAR)
  BY CorrectionsParts DEF CorrectionsInv
<1>5. /\ Sound(op) => LastOf(read + 1, WARP_RECTILINEAR) = op.content
      /\ ~Sound(op) => LastOf(read + 1, WARP_RECTILINEAR) = LastOf(read, WARP_RECTILINEAR)
  <2> HIDE DEF op
  <2> QED
    BY <1>2, SoundNext, Zenon DEF op
<1> HIDE DEF op, value
<1>6. warp' = LastOf(read + 1, WARP_RECTILINEAR)
  BY <1>1, <1>3, <1>4, <1>5
<1>7. /\ maps = FirstOf(SoundAmong(read + 1, GAIN_MAP), MAPS_MAX)
      /\ vignette = LastOf(read + 1, FIX_VIGNETTE_RADIAL)
  BY <1>1, OtherKinds, CorrectionsAssumption
<1> QED
  BY <1>1, <1>6, <1>7, KeepsCorrections

\* Any other opcode leaves all of them.
LEMMA ReadOtherKeeps ==
  ASSUME ReadingInv, CorrectionsInv, ReadOther
  PROVE  CorrectionsInv'
<1>1. PICK id : /\ Visit(id)
                /\ id \notin {GAIN_MAP, FIX_VIGNETTE_RADIAL, WARP_RECTILINEAR}
  BY DEF ReadOther
<1>2. UNCHANGED <<maps, vignette, warp>>
  BY DEF ReadOther
<1>3. /\ maps = FirstOf(SoundAmong(read + 1, GAIN_MAP), MAPS_MAX)
      /\ vignette = LastOf(read + 1, FIX_VIGNETTE_RADIAL)
      /\ warp = LastOf(read + 1, WARP_RECTILINEAR)
  BY <1>1, OtherKinds
<1> QED
  BY <1>1, <1>2, <1>3, KeepsCorrections

\* The opcodes found are some of those written.
LEMMA FoundTypes ==
  ReadingInv => Len(found) \in 0 .. Len(written.ops) /\ Len(written.ops) \in Nat
BY ListTypes DEF ReadingInv, FoundAsWritten

\* The sound opcodes depend on what was written and how far it was read.
LEMMA AmongStays ==
  ASSUME UNCHANGED <<written, read>>, NEW id
  PROVE  SoundAmong(read, id)' = SoundAmong(read, id)
<1>1. written' = written /\ read' = read
  OBVIOUS
<1> QED
  BY <1>1 DEF SoundAmong

\* While the list is read, nothing has been gone through.
LEMMA NextKeepsCorrections ==
  ASSUME ReadingInv, ReadingInv', CorrectionsInv, [CorrectionsNext]_<<vars, kept>>
  PROVE  CorrectionsInv'
<1>1. ASSUME Next, UNCHANGED kept
      PROVE  CorrectionsInv'
  <2>1. pc # "done" /\ UNCHANGED <<written, read, maps, vignette, warp>>
    BY <1>1 DEF Next, Count, Opcode, Exhausted, kept
  <2>2. read' = 0 /\ Len(found') \in Nat
    <3>1. (Len(found) \in 0 .. Len(written.ops) /\ Len(written.ops) \in Nat)'
      BY FoundTypes, PTL
    <3> QED
      BY <2>1, <3>1 DEF CorrectionsInv
  <2>3. FirstSoundMaps' /\ LastSoundLens'
    <3>1. FirstSoundMaps /\ LastSoundLens
      BY DEF CorrectionsInv
    <3>2. \A j : SoundAmong(read, j)' = SoundAmong(read, j)
      BY <2>1, AmongStays
    <3> QED
      BY <2>1, <3>1, <3>2, Zenon DEF FirstSoundMaps, LastSoundLens
  <2>4. (\A i \in 1 .. Len(written.ops) : IsCorrection(written.ops[i]))'
    BY <2>1 DEF CorrectionsInv, IsCorrection
  <2> QED
    BY <2>2, <2>3, <2>4 DEF CorrectionsInv
<1>2. ASSUME UNCHANGED <<vars, kept>>
      PROVE  CorrectionsInv'
  <2>1. UNCHANGED <<written, found, pc, read, maps, vignette, warp>>
    BY <1>2 DEF vars, kept
  <2>2. \A j : SoundAmong(read, j)' = SoundAmong(read, j)
    BY <2>1, AmongStays
  <2>3. FirstSoundMaps' /\ LastSoundLens'
    BY <2>1, <2>2, Zenon DEF CorrectionsInv, FirstSoundMaps, LastSoundLens
  <2> QED
    BY <2>1, <2>3 DEF CorrectionsInv, IsCorrection
<1>3. Done => UNCHANGED <<vars, kept>>
  BY Zenon DEF Done
<1> QED
  BY <1>1, <1>2, <1>3, ReadGainMapKeeps, ReadVignetteKeeps, ReadWarpKeeps, ReadOtherKeeps,
     Zenon DEF CorrectionsNext

\* What is kept is right all along.
THEOREM CorrectionsInvariant == CorrectionsSpec => []CorrectionsInv
<1>1. CorrectionsInit => CorrectionsInv
  BY InitCorrections
<1>2. ReadingInv /\ ReadingInv' /\ CorrectionsInv /\ [CorrectionsNext]_<<vars, kept>>
        => CorrectionsInv'
  BY NextKeepsCorrections
<1> QED
  BY <1>1, <1>2, ReadingInvariant, PTL DEF CorrectionsSpec

\* gain_maps() returns the first MAPS_MAX gain maps of the list that are whole and
\* within their limits, in order and as they were written, whatever lies between
\* them and wherever the list is cut.
THEOREM GainMapsAreTheFirstSound == CorrectionsSpec => []FirstSoundMaps
<1>1. CorrectionsInv => FirstSoundMaps
  BY DEF CorrectionsInv
<1> QED
  BY <1>1, CorrectionsInvariant, PTL

\* lens() returns the last vignette and the last warp that are whole and within
\* their limits, as they were written: one that cannot be read erases nothing.
THEOREM LensIsTheLastSound == CorrectionsSpec => []LastSoundLens
<1>1. CorrectionsInv => LastSoundLens
  BY DEF CorrectionsInv
<1> QED
  BY <1>1, CorrectionsInvariant, PTL
=============================================================================
