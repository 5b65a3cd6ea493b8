--------------------------- MODULE OpcodesProofs ---------------------------
(***************************************************************************)
(* Proofs about Opcodes, for lists of any length, of opcodes of any size,  *)
(* cut anywhere and announcing any number of them.                         *)
(***************************************************************************)
EXTENDS Corrections, SequenceTheorems, WellFoundedInduction, TLAPS

-----------------------------------------------------------------------------
(* What Encoding computes                                                  *)

\* A non-empty set of numbers has a least one.
LEMMA LeastNumber ==
  ASSUME NEW S, S \subseteq Nat, S # {}
  PROVE  \E m \in S : \A k \in S : m <= k
<1>1. PICK m \in S : \A k \in S : <<k, m>> \notin OpToRel(<, Nat)
  BY NatLessThanWellFounded, WFMin, Zenon
<1>2. \A k \in S : ~(k < m)
  BY <1>1, Zenon DEF OpToRel
<1> QED
  BY <1>2

\* An opcode takes its header and its body.
LEMMA EncodedSize ==
  ASSUME NEW op, op.id \in Nat, op.body \in Seq(Unit)
  PROVE  /\ Encoded(op) \in Seq(Unit)
         /\ Len(op.body) \in Nat
         /\ Len(Encoded(op)) = 4 + Len(op.body)
         /\ Encoded(op)[1] = op.id
         /\ Encoded(op)[4] = Len(op.body)
         /\ \A k \in 1 .. Len(op.body) : Encoded(op)[4 + k] = op.body[k]
<1> DEFINE header == <<op.id, 1, 0, Len(op.body)>>
           body == op.body
<1>1. Len(body) \in Nat
  BY LenProperties
<1>2. header \in Seq(Unit) /\ Len(header) = 4 /\ header[1] = op.id /\ header[4] = Len(op.body)
  BY <1>1 DEF Unit
<1> HIDE DEF header, body
<1>3. body \in Seq(Unit)
  BY DEF body
<1>4. /\ header \o body \in Seq(Unit)
      /\ Len(header \o body) = 4 + Len(body)
      /\ \A i \in 1 .. 4 + Len(body) :
           (header \o body)[i] = IF i <= 4 THEN header[i] ELSE body[i - 4]
  <2>1. /\ header \o body \in Seq(Unit)
        /\ Len(header \o body) = Len(header) + Len(body)
        /\ \A i \in 1 .. Len(header) + Len(body) :
             (header \o body)[i] = IF i <= Len(header) THEN header[i] ELSE body[i - Len(header)]
    <3>1. header \in Seq(Unit)
      BY <1>2
    <3> QED
      BY <1>3, <3>1, ConcatProperties, Zenon
  <2> QED
    BY <1>2, <2>1
<1>5. Encoded(op) = header \o body
  BY Zenon DEF Encoded, header, body
<1> QED
  BY <1>1, <1>2, <1>4, <1>5 DEF body

\* The parts a list is made of: part i has the first i opcodes.
Parts(f, ops, n) ==
  f = [i \in 0 .. n |-> IF i = 0 THEN <<>> ELSE f[i - 1] \o Encoded(ops[i])]

\* Parts have one value each.
LEMMA PartsAgree ==
  ASSUME NEW ops, NEW n \in Nat, NEW m \in Nat, n <= m,
         NEW f, NEW g, Parts(f, ops, n), Parts(g, ops, m)
  PROVE  \A i \in 0 .. n : f[i] = g[i]
<1> DEFINE differ == {i \in 0 .. n : f[i] # g[i]}
<1>1. SUFFICES ASSUME differ # {} PROVE FALSE
  OBVIOUS
<1>2. PICK i \in differ : \A j \in differ : i <= j
  <2>1. differ \subseteq Nat
    OBVIOUS
  <2> QED
    BY <1>1, <2>1, LeastNumber
<1>3. i \in 0 .. n /\ i \in 0 .. m /\ f[i] # g[i]
  OBVIOUS
<1>4. f[i] = (IF i = 0 THEN <<>> ELSE f[i - 1] \o Encoded(ops[i]))
  BY <1>3 DEF Parts
<1>5. g[i] = (IF i = 0 THEN <<>> ELSE g[i - 1] \o Encoded(ops[i]))
  BY <1>3 DEF Parts
<1>6. CASE i = 0
  BY <1>3, <1>4, <1>5, <1>6
<1>7. CASE i # 0
  <2>1. i - 1 \in 0 .. n /\ i - 1 \notin differ
    BY <1>2, <1>3, <1>7
  <2>2. f[i - 1] = g[i - 1]
    BY <2>1
  <2> QED
    BY <1>3, <1>4, <1>5, <1>7, <2>2
<1> QED
  BY <1>6, <1>7

\* There are parts for any number of opcodes.
LEMMA PartsExist ==
  ASSUME NEW ops, NEW n \in Nat
  PROVE  \E f : Parts(f, ops, n)
<1> DEFINE lacking == {k \in Nat : ~ \E f : Parts(f, ops, k)}
<1>1. SUFFICES ASSUME lacking # {} PROVE FALSE
  OBVIOUS
<1>2. PICK k \in lacking : \A j \in lacking : k <= j
  <2>1. lacking \subseteq Nat
    OBVIOUS
  <2> QED
    BY <1>1, <2>1, LeastNumber
<1>3. k \in Nat /\ ~ \E f : Parts(f, ops, k)
  OBVIOUS
<1>4. CASE k = 0
  <2> DEFINE f == [i \in 0 .. 0 |-> <<>>]
  <2>1. f = [i \in 0 .. 0 |-> IF i = 0 THEN <<>> ELSE f[i - 1] \o Encoded(ops[i])]
    OBVIOUS
  <2> HIDE DEF f
  <2>2. Parts(f, ops, 0)
    BY <2>1 DEF Parts
  <2> QED
    BY <1>3, <1>4, <2>2
<1>5. CASE k # 0
  <2>1. k - 1 \in Nat /\ k - 1 \notin lacking
    BY <1>2, <1>3, <1>5
  <2>2. PICK f : Parts(f, ops, k - 1)
    BY <2>1
  <2> DEFINE g == [i \in 0 .. k |-> IF i = k THEN f[k - 1] \o Encoded(ops[k]) ELSE f[i]]
  <2>3. \A i \in 0 .. k - 1 : g[i] = f[i]
    BY <1>3
  <2>4. \A i \in 0 .. k : g[i] = IF i = 0 THEN <<>> ELSE g[i - 1] \o Encoded(ops[i])
    <3>1. ASSUME NEW i \in 0 .. k
          PROVE  g[i] = IF i = 0 THEN <<>> ELSE g[i - 1] \o Encoded(ops[i])
      <4>1. CASE i = k
        <5>1. g[i] = f[k - 1] \o Encoded(ops[k])
          BY <4>1
        <5>2. g[i - 1] = f[k - 1]
          BY <1>3, <1>5, <2>3, <4>1
        <5> HIDE DEF g
        <5> QED
          BY <1>5, <4>1, <5>1, <5>2
      <4>2. CASE i # k
        <5>1. i \in 0 .. k - 1
          BY <1>3, <4>2
        <5>2. f[i] = IF i = 0 THEN <<>> ELSE f[i - 1] \o Encoded(ops[i])
          BY <2>2, <5>1 DEF Parts
        <5>3. g[i] = f[i]
          BY <2>3, <5>1
        <5>4. i # 0 => g[i - 1] = f[i - 1]
          BY <2>3, <5>1
        <5> HIDE DEF g
        <5> QED
          BY <5>2, <5>3, <5>4
      <4> QED
        BY <4>1, <4>2
    <3> QED
      BY <3>1
  <2>5. g = [i \in 0 .. k |-> g[i]]
    OBVIOUS
  <2> HIDE DEF g
  <2>6. Parts(g, ops, k)
    BY <2>4, <2>5 DEF Parts
  <2> QED
    BY <1>3, <2>6
<1> QED
  BY <1>4, <1>5

\* Encoding is the last of its parts.
LEMMA EncodingIsPart ==
  ASSUME NEW ops, NEW n \in Nat, NEW f, Parts(f, ops, n)
  PROVE  Encoding(ops, n) = f[n]
<1> DEFINE g == CHOOSE g : Parts(g, ops, n)
<1>1. Encoding(ops, n) = g[n]
  BY Zenon DEF Encoding, Parts
<1>2. Parts(g, ops, n)
  OBVIOUS
<1> HIDE DEF g
<1> QED
  BY <1>1, <1>2, PartsAgree

\* The list of n + 1 opcodes is that of n, followed by one more.
LEMMA EncodingUnfolds ==
  ASSUME NEW ops, NEW n \in Nat
  PROVE  /\ Encoding(ops, 0) = <<>>
         /\ Encoding(ops, n + 1) = Encoding(ops, n) \o Encoded(ops[n + 1])
<1>1. PICK f : Parts(f, ops, n + 1)
  BY PartsExist
<1>2. PICK g : Parts(g, ops, n)
  BY PartsExist
<1>3. PICK h : Parts(h, ops, 0)
  BY PartsExist
<1>4. f[n] = g[n]
  BY <1>1, <1>2, PartsAgree
<1>5. f[n + 1] = f[n] \o Encoded(ops[n + 1])
  <2>1. n + 1 \in 0 .. n + 1 /\ n + 1 # 0 /\ (n + 1) - 1 = n
    OBVIOUS
  <2> QED
    BY <1>1, <2>1 DEF Parts
<1>6. h[0] = <<>>
  BY <1>3 DEF Parts
<1>7. Encoding(ops, 0) = h[0] /\ Encoding(ops, n) = g[n] /\ Encoding(ops, n + 1) = f[n + 1]
  BY <1>1, <1>2, <1>3, EncodingIsPart
<1> QED
  BY <1>4, <1>5, <1>6, <1>7

-----------------------------------------------------------------------------
(* Where the opcodes of a list are                                         *)

\* A list of n opcodes is made of units.
LEMMA EncodingIsUnits ==
  ASSUME NEW ops, IsOps(ops), NEW n \in 0 .. Len(ops)
  PROVE  Encoding(ops, n) \in Seq(Unit) /\ Len(Encoding(ops, n)) \in Nat
<1> DEFINE astray == {k \in 0 .. Len(ops) : Encoding(ops, k) \notin Seq(Unit)}
<1>0. Len(ops) \in Nat
  BY DEF IsOps
<1>1. astray = {}
  <2>1. SUFFICES ASSUME astray # {} PROVE FALSE
    OBVIOUS
  <2>2. PICK k \in astray : \A j \in astray : k <= j
    <3>1. astray \subseteq Nat
      OBVIOUS
    <3> QED
      BY <2>1, <3>1, LeastNumber
  <2>3. CASE k = 0
    BY <2>3, EncodingUnfolds, EmptySeq
  <2>4. CASE k # 0
    <3>1. k \in 1 .. Len(ops) /\ k - 1 \in 0 .. Len(ops) /\ k - 1 \in Nat /\ (k - 1) + 1 = k
      BY <1>0, <2>4
    <3>2. Encoding(ops, k - 1) \in Seq(Unit)
      BY <2>2, <3>1
    <3>3. Encoded(ops[k]) \in Seq(Unit)
      BY <3>1, EncodedSize DEF IsOps
    <3>4. Encoding(ops, k) = Encoding(ops, k - 1) \o Encoded(ops[k])
      BY <3>1, EncodingUnfolds
    <3> QED
      BY <3>2, <3>3, <3>4, ConcatProperties
  <2> QED
    BY <2>3, <2>4
<1> QED
  BY <1>1, LenProperties

\* Opcode n + 1 comes after the first n, and takes a header and a body.
LEMMA NextEncoded ==
  ASSUME NEW ops, IsOps(ops), NEW n \in 0 .. Len(ops), n < Len(ops)
  PROVE  LET from == Len(Encoding(ops, n))
             op == ops[n + 1]
         IN  /\ from \in Nat /\ Len(op.body) \in Nat
             /\ Len(Encoding(ops, n + 1)) = from + 4 + Len(op.body)
             /\ \A j \in 1 .. from : Encoding(ops, n + 1)[j] = Encoding(ops, n)[j]
             /\ \A k \in 1 .. 4 + Len(op.body) :
                  Encoding(ops, n + 1)[from + k] = Encoded(op)[k]
<1> DEFINE op == ops[n + 1]
           e == Encoding(ops, n)
           o == Encoded(op)
<1>1. n + 1 \in 1 .. Len(ops) /\ n \in Nat
  BY DEF IsOps
<1>2. e \in Seq(Unit) /\ Len(e) \in Nat
  BY EncodingIsUnits
<1>3. o \in Seq(Unit) /\ Len(op.body) \in Nat /\ Len(o) = 4 + Len(op.body)
  BY <1>1, EncodedSize DEF IsOps
<1>4. Encoding(ops, n + 1) = e \o o
  BY <1>1, EncodingUnfolds
<1> HIDE DEF e, o, op
<1>5. /\ Len(e \o o) = Len(e) + Len(o)
      /\ \A i \in 1 .. Len(e) + Len(o) : (e \o o)[i] = IF i <= Len(e) THEN e[i] ELSE o[i - Len(e)]
  BY <1>2, <1>3, ConcatProperties, Zenon
<1>6. \A j \in 1 .. Len(e) : (e \o o)[j] = e[j]
  BY <1>2, <1>3, <1>5
<1>7. \A k \in 1 .. 4 + Len(op.body) : (e \o o)[Len(e) + k] = o[k]
  BY <1>2, <1>3, <1>5
<1>8. Len(e \o o) = Len(e) + 4 + Len(op.body)
  <2> DEFINE a == Len(e)
             b == Len(op.body)
             c == Len(o)
             d == Len(e \o o)
  <2>1. a \in Nat /\ b \in Nat /\ c = 4 + b /\ d = a + c
    BY <1>2, <1>3, <1>5, Zenon
  <2> HIDE DEF a, b, c, d
  <2>2. d = a + 4 + b
    BY <2>1
  <2> QED
    BY <2>2 DEF a, b, d
<1> QED
  BY <1>2, <1>3, <1>4, <1>6, <1>7, <1>8, Zenon DEF e, o, op

\* The first n opcodes stay where they are when more follow.
LEMMA EncodingExtends ==
  ASSUME NEW ops, IsOps(ops), NEW n \in 0 .. Len(ops), NEW m \in n .. Len(ops)
  PROVE  /\ Len(Encoding(ops, n)) <= Len(Encoding(ops, m))
         /\ \A j \in 1 .. Len(Encoding(ops, n)) : Encoding(ops, m)[j] = Encoding(ops, n)[j]
<1> DEFINE Extends(k) == /\ Len(Encoding(ops, n)) <= Len(Encoding(ops, k))
                         /\ \A j \in 1 .. Len(Encoding(ops, n)) :
                              Encoding(ops, k)[j] = Encoding(ops, n)[j]
           astray == {k \in n .. Len(ops) : ~Extends(k)}
<1>0. Len(ops) \in Nat /\ n \in Nat /\ Len(Encoding(ops, n)) \in Nat
  BY EncodingIsUnits DEF IsOps
<1>1. astray = {}
  <2>1. SUFFICES ASSUME astray # {} PROVE FALSE
    OBVIOUS
  <2>2. PICK k \in astray : \A j \in astray : k <= j
    <3>1. astray \subseteq Nat
      BY <1>0
    <3> QED
      BY <2>1, <3>1, LeastNumber
  <2>3. k \in n .. Len(ops) /\ ~Extends(k)
    OBVIOUS
  <2>4. CASE k = n
    BY <1>0, <2>3, <2>4
  <2>5. CASE k # n
    <3>1. k - 1 \in n .. Len(ops) /\ k - 1 \in 0 .. Len(ops) /\ k - 1 < Len(ops) /\ (k - 1) + 1 = k
      BY <1>0, <2>3, <2>5
    <3>2. Extends(k - 1)
      BY <2>2, <3>1
    <3>3. /\ Len(Encoding(ops, k - 1)) \in Nat
          /\ Len(Encoding(ops, k - 1)) <= Len(Encoding(ops, k))
          /\ \A j \in 1 .. Len(Encoding(ops, k - 1)) : Encoding(ops, k)[j] = Encoding(ops, k - 1)[j]
      <4> DEFINE p == k - 1
      <4>1. p \in 0 .. Len(ops) /\ p < Len(ops) /\ p + 1 = k
        BY <3>1
      <4> HIDE DEF p
      <4>2. /\ Len(Encoding(ops, p)) \in Nat /\ Len(ops[p + 1].body) \in Nat
            /\ Len(Encoding(ops, p + 1)) = Len(Encoding(ops, p)) + 4 + Len(ops[p + 1].body)
            /\ \A j \in 1 .. Len(Encoding(ops, p)) : Encoding(ops, p + 1)[j] = Encoding(ops, p)[j]
        BY <4>1, NextEncoded, Zenon
      <4>3. Len(Encoding(ops, p)) <= Len(Encoding(ops, p + 1))
        <5> DEFINE a == Len(Encoding(ops, p))
                   b == Len(ops[p + 1].body)
                   c == Len(Encoding(ops, p + 1))
        <5>1. a \in Nat /\ b \in Nat /\ c = a + 4 + b
          BY <4>2
        <5> HIDE DEF a, b, c
        <5>2. a <= c
          BY <5>1
        <5> QED
          BY <5>2 DEF a, c
      <4> QED
        BY <4>1, <4>2, <4>3 DEF p
    <3>4. Len(Encoding(ops, k)) \in Nat
      BY <1>0, <2>3, EncodingIsUnits
    <3> QED
      BY <1>0, <2>3, <3>2, <3>3, <3>4
  <2> QED
    BY <2>4, <2>5
<1> QED
  BY <1>1

-----------------------------------------------------------------------------
(* The invariant of the reading                                            *)

\* Where the reader is after n opcodes.
End(n) == 1 + Len(Encoding(written.ops, n))

\* The list is still one of those that were written.
Intact == Written([written |-> written, units |-> list])

\* The opcodes found are the first ones written.
FoundAsWritten ==
  /\ Len(found) \in 0 .. Len(written.ops)
  /\ found = [i \in 1 .. Len(found) |-> [id |-> written.ops[i].id, body |-> written.ops[i].body]]

\* The loop has as many passes left as the count allows, the reader is at the end
\* of the last opcode found, and the loop ends when no other fits.
ReaderInStep ==
  /\ pc \in {"count", "opcode", "done"}
  /\ pc = "count" => found = <<>> /\ at = 0
  /\ pc = "opcode" =>
       /\ at = End(Len(found)) /\ at <= Len(list)
       /\ left \in Nat /\ Len(found) + left = written.count
  /\ pc = "done" =>
       \/ list = <<>> /\ found = <<>>
       \/ /\ End(Len(found)) <= Len(list)
          /\ Len(found) <= written.count
          /\ \/ Len(found) \in {written.count, Len(written.ops)}
             \/ End(Len(found) + 1) > Len(list)

ReadingInv == Intact /\ FoundAsWritten /\ ReaderInStep

\* The types of what was written and of the list.
LEMMA ListTypes ==
  ASSUME Intact
  PROVE  /\ IsOps(written.ops) /\ written.count \in Nat /\ Len(written.ops) \in Nat
         /\ list \in Seq(Unit) /\ Len(list) \in Nat
         /\ Len(list) <= End(Len(written.ops))
         /\ \A i \in 1 .. Len(list) :
              list[i] = IF i = 1 THEN written.count
                        ELSE Encoding(written.ops, Len(written.ops))[i - 1]
<1> DEFINE first == <<written.count>>
           rest == Encoding(written.ops, Len(written.ops))
           all == first \o rest
           n == Len(list)
<1>1. /\ IsOps(written.ops) /\ written.count \in Nat
      /\ n \in 0 .. Len(all) /\ list = SubSeq(all, 1, n)
  BY Zenon DEF Intact, Written
<1> HIDE DEF n
<1>2. Len(written.ops) \in Nat
  BY <1>1 DEF IsOps
<1>3. rest \in Seq(Unit) /\ Len(rest) \in Nat
  BY <1>1, <1>2, EncodingIsUnits
<1>4. first \in Seq(Unit) /\ Len(first) = 1 /\ first[1] = written.count
  BY <1>1 DEF Unit
<1> HIDE DEF first, rest
<1>5. /\ all \in Seq(Unit) /\ Len(all) = Len(first) + Len(rest)
      /\ \A i \in 1 .. Len(first) + Len(rest) :
           all[i] = IF i <= Len(first) THEN first[i] ELSE rest[i - Len(first)]
  <2>1. first \in Seq(Unit) /\ rest \in Seq(Unit)
    BY <1>3, <1>4
  <2> QED
    BY <2>1, ConcatProperties, Zenon
<1> HIDE DEF all
<1>6. Len(all) = 1 + Len(rest)
  BY <1>4, <1>5
<1>7. n \in Nat /\ n <= Len(all)
  BY <1>1, <1>3, <1>6
<1>8. \A i \in 1 .. n : all[i] \in Unit
  <2>1. \A i \in 1 .. n : i \in 1 .. Len(all)
    BY <1>3, <1>6, <1>7
  <2> QED
    BY <1>5, <2>1, ElementOfSeq
<1>9. /\ SubSeq(all, 1, n) \in Seq(Unit)
      /\ \A i \in 1 .. n - 1 + 1 : SubSeq(all, 1, n)[i] = all[1 + i - 1]
  <2>1. 1 \in Int /\ n \in Int
    BY <1>7
  <2> QED
    BY <1>8, <2>1, SubSeqProperties
<1>10. ASSUME NEW i \in 1 .. n
       PROVE  list[i] = IF i = 1 THEN written.count ELSE rest[i - 1]
  <2>1. list[i] = all[i]
    <3>1. i \in 1 .. n - 1 + 1 /\ 1 + i - 1 = i
      BY <1>7
    <3> QED
      BY <1>1, <1>9, <3>1
  <2>2. all[i] = IF i <= 1 THEN first[i] ELSE rest[i - 1]
    BY <1>3, <1>4, <1>5, <1>6, <1>7
  <2> QED
    BY <1>4, <2>1, <2>2
<1> QED
  BY <1>1, <1>2, <1>3, <1>6, <1>7, <1>9, <1>10 DEF End, rest, n

\* The units after the reader are those of the opcode that comes next.
LEMMA UnitsOfNext ==
  ASSUME Intact, NEW n \in 0 .. Len(written.ops), n < Len(written.ops)
  PROVE  LET op == written.ops[n + 1]
         IN  /\ End(n) \in Nat /\ Len(op.body) \in Nat
             /\ op.id \in Nat /\ op.body \in Seq(Unit)
             /\ End(n + 1) = End(n) + 4 + Len(op.body)
             /\ \A k \in 1 .. 4 + Len(op.body) :
                  End(n) + k <= Len(list) => list[End(n) + k] = Encoded(op)[k]
<1> DEFINE ops == written.ops
           op == ops[n + 1]
           e(m) == Encoding(ops, m)
<1>1. /\ IsOps(ops) /\ Len(ops) \in Nat /\ Len(list) \in Nat
      /\ \A i \in 1 .. Len(list) :
           list[i] = IF i = 1 THEN written.count ELSE e(Len(ops))[i - 1]
  BY ListTypes
<1>2. op.id \in Nat /\ op.body \in Seq(Unit)
  BY <1>1 DEF IsOps
<1>3. /\ Len(e(n)) \in Nat /\ Len(op.body) \in Nat
      /\ Len(e(n + 1)) = Len(e(n)) + 4 + Len(op.body)
      /\ \A k \in 1 .. 4 + Len(op.body) : e(n + 1)[Len(e(n)) + k] = Encoded(op)[k]
  <2>1. IsOps(ops) /\ n \in 0 .. Len(ops) /\ n < Len(ops)
    BY <1>1
  <2> HIDE DEF ops
  <2> QED
    BY <2>1, NextEncoded, Zenon
<1>4. \A j \in 1 .. Len(e(n + 1)) : e(Len(ops))[j] = e(n + 1)[j]
  <2>1. n + 1 \in 0 .. Len(ops) /\ Len(ops) \in n + 1 .. Len(ops)
    BY <1>1
  <2> QED
    BY <1>1, <2>1, EncodingExtends, Zenon
<1>5. ASSUME NEW k \in 1 .. 4 + Len(op.body), End(n) + k <= Len(list)
      PROVE  list[End(n) + k] = Encoded(op)[k]
  <2> DEFINE a == Len(e(n))
             b == Len(op.body)
             c == Len(e(n + 1))
             i == End(n) + k
  <2>1. a \in Nat /\ b \in Nat /\ c = a + 4 + b /\ i = 1 + a + k
    BY <1>3, Zenon DEF End
  <2>2. k \in 1 .. 4 + b /\ i <= Len(list)
    BY <1>5, Zenon
  <2> HIDE DEF a, b, c, i
  <2>3. i \in 1 .. Len(list) /\ i # 1 /\ i - 1 = a + k /\ a + k \in 1 .. c
    BY <1>1, <2>1, <2>2
  <2>4. list[i] = e(Len(ops))[a + k]
    BY <1>1, <2>3
  <2>5. e(Len(ops))[a + k] = e(n + 1)[a + k]
    BY <1>4, <2>3 DEF c
  <2>6. e(n + 1)[a + k] = Encoded(op)[k]
    BY <1>3, <2>2 DEF a, b
  <2> QED
    BY <2>4, <2>5, <2>6 DEF i
<1>6. End(n) \in Nat /\ End(n + 1) = End(n) + 4 + Len(op.body)
  <2> DEFINE a == Len(e(n))
             b == Len(op.body)
             c == Len(e(n + 1))
  <2>1. a \in Nat /\ b \in Nat /\ c = a + 4 + b
    BY <1>3, Zenon
  <2> HIDE DEF a, b, c
  <2>2. 1 + a \in Nat /\ 1 + c = 1 + a + 4 + b
    BY <2>1
  <2> QED
    BY <2>2, Zenon DEF End, a, b, c
<1> QED
  BY <1>2, <1>3, <1>5, <1>6

\* The reader has the next header, and then the next body, as they were written,
\* when the list is not cut before; past the last opcode there is nothing.
LEMMA HeaderRead ==
  ASSUME Intact, NEW n \in 0 .. Len(written.ops), at = End(n), at <= Len(list)
  PROVE  LET header == Fields(list, at, 4, U32)
             op == written.ops[n + 1]
         IN  AllRead(header) =>
               /\ n < Len(written.ops)
               /\ header[1] = op.id /\ header[4] = Len(op.body)
<1> DEFINE header == Fields(list, at, 4, U32)
           op == written.ops[n + 1]
<1>1. SUFFICES ASSUME AllRead(header)
               PROVE  n < Len(written.ops) /\ header[1] = op.id /\ header[4] = Len(op.body)
  BY Zenon
<1>2. /\ IsOps(written.ops) /\ Len(written.ops) \in Nat /\ Len(list) \in Nat
      /\ Len(list) <= End(Len(written.ops))
  BY ListTypes
<1>3. at \in Nat
  <2>1. End(n) \in Nat
    BY <1>2, EncodingIsUnits DEF End
  <2> QED
    BY <2>1
<1>4. ASSUME NEW i \in 1 .. 4
      PROVE  header[i] = IF at + i <= Len(list) THEN list[at + i] ELSE Missing
  BY <1>3 DEF Fields, Take, U32
<1>5. ASSUME NEW i \in 1 .. 4
      PROVE  at + i <= Len(list) /\ header[i] = list[at + i]
  <2>1. header[i] # Missing
    <3>1. DOMAIN header = 1 .. 4
      BY DEF Fields
    <3> QED
      BY <1>1, <3>1 DEF AllRead
  <2> QED
    BY <1>4, <2>1
<1>6. n < Len(written.ops)
  <2>1. SUFFICES ASSUME n = Len(written.ops) PROVE FALSE
    BY <1>2
  <2>2. at + 1 <= Len(list)
    BY <1>5
  <2>3. at = End(Len(written.ops))
    BY <2>1
  <2> HIDE DEF header, op
  <2> QED
    BY <1>2, <1>3, <2>2, <2>3
<1>7. /\ Len(op.body) \in Nat /\ op.id \in Nat /\ op.body \in Seq(Unit)
      /\ \A k \in 1 .. 4 + Len(op.body) :
           End(n) + k <= Len(list) => list[End(n) + k] = Encoded(op)[k]
  BY <1>6, UnitsOfNext, Zenon
<1>8. Encoded(op)[1] = op.id /\ Encoded(op)[4] = Len(op.body)
  BY <1>7, EncodedSize
<1>9. 1 \in 1 .. 4 + Len(op.body) /\ 4 \in 1 .. 4 + Len(op.body)
  BY <1>7
<1>10. header[1] = Encoded(op)[1]
  BY <1>5, <1>7, <1>9
<1>11. header[4] = Encoded(op)[4]
  BY <1>5, <1>7, <1>9
<1> QED
  BY <1>6, <1>8, <1>10, <1>11

\* The body of an opcode that is wholly in the list is the one written.
LEMMA BodyRead ==
  ASSUME Intact, NEW n \in 0 .. Len(written.ops), n < Len(written.ops),
         End(n + 1) <= Len(list)
  PROVE  SubSeq(list, End(n) + 5, End(n) + 4 + Len(written.ops[n + 1].body))
           = written.ops[n + 1].body
<1> DEFINE op == written.ops[n + 1]
           body == op.body
           b == Len(body)
           a == End(n)
           sub == SubSeq(list, a + 5, a + 4 + b)
<1>1. /\ a \in Nat /\ b \in Nat /\ op.id \in Nat /\ body \in Seq(Unit)
      /\ End(n + 1) = a + 4 + b
      /\ \A k \in 1 .. 4 + b : a + k <= Len(list) => list[a + k] = Encoded(op)[k]
  BY UnitsOfNext, Zenon
<1>2. \A k \in 1 .. b : Encoded(op)[4 + k] = body[k]
  BY <1>1, EncodedSize, Zenon
<1>3. list \in Seq(Unit) /\ Len(list) \in Nat
  BY ListTypes
<1>4. a + 4 + b <= Len(list)
  BY <1>1, Zenon
<1> HIDE DEF a, b, body, op
<1>5. a + 5 \in Int /\ a + 4 + b \in Int
  BY <1>1
<1>6. \A i \in a + 5 .. a + 4 + b : list[i] \in Unit
  <2>1. \A i \in a + 5 .. a + 4 + b : i \in 1 .. Len(list)
    BY <1>1, <1>3, <1>4
  <2> QED
    BY <1>3, <2>1, ElementOfSeq
<1>7. /\ sub \in Seq(Unit)
      /\ Len(sub) = IF a + 5 <= a + 4 + b THEN (a + 4 + b) - (a + 5) + 1 ELSE 0
      /\ \A i \in 1 .. (a + 4 + b) - (a + 5) + 1 : sub[i] = list[a + 5 + i - 1]
  BY <1>5, <1>6, SubSeqProperties
<1> HIDE DEF sub
<1>8. Len(sub) = b
  BY <1>1, <1>7
<1>9. ASSUME NEW i \in 1 .. b
      PROVE  sub[i] = body[i]
  <2>1. i \in 1 .. (a + 4 + b) - (a + 5) + 1 /\ a + 5 + i - 1 = a + (4 + i)
    BY <1>1
  <2>2. 4 + i \in 1 .. 4 + b /\ a + (4 + i) <= Len(list)
    BY <1>1, <1>3, <1>4
  <2>3. sub[i] = list[a + (4 + i)]
    BY <1>7, <2>1
  <2>4. list[a + (4 + i)] = Encoded(op)[4 + i]
    BY <1>1, <2>2
  <2> QED
    BY <1>2, <2>3, <2>4
<1>10. sub = body
  <2>1. Len(body) = b
    BY DEF b
  <2> QED
    BY <1>1, <1>7, <1>8, <1>9, <2>1, SeqEqual
<1> QED
  BY <1>10, Zenon DEF sub, a, b, body, op

-----------------------------------------------------------------------------
(* The steps of the reading                                                *)

\* The count is the first unit of the list.
LEMMA CountKeepsInvariant ==
  ASSUME ReadingInv, Count
  PROVE  ReadingInv' /\ (pc' = "done" \/ at' > at)
<1>1. /\ Intact /\ pc = "count" /\ found = <<>> /\ at = 0
      /\ UNCHANGED <<written, list, found>>
  BY DEF ReadingInv, ReaderInStep, Count
<1>2. /\ written.count \in Nat /\ Len(written.ops) \in Nat /\ Len(list) \in Nat
      /\ list \in Seq(Unit)
      /\ \A i \in 1 .. Len(list) :
           list[i] = IF i = 1 THEN written.count
                     ELSE Encoding(written.ops, Len(written.ops))[i - 1]
  BY <1>1, ListTypes
<1> DEFINE n == Fields(list, 0, 1, U32)[1]
<1>3. n = IF 1 <= Len(list) THEN list[1] ELSE Missing
  BY DEF Fields, Take, U32
<1>4. Intact' /\ FoundAsWritten'
  BY <1>1 DEF ReadingInv, FoundAsWritten, Intact
<1>5. Len(found) = 0 /\ End(0) = 1
  <2>1. Encoding(written.ops, 0) = <<>>
    BY EncodingUnfolds
  <2> QED
    BY <1>1, <2>1 DEF End
<1>6. CASE Len(list) = 0
  <2>1. n = Missing
    BY <1>3, <1>6
  <2>2. pc' = "done"
    BY <2>1 DEF Count
  <2>3. list = <<>>
    BY <1>2, <1>6, EmptySeq
  <2>4. ReaderInStep'
    BY <1>1, <2>2, <2>3 DEF ReaderInStep
  <2> QED
    BY <1>4, <2>2, <2>4 DEF ReadingInv
<1>7. CASE Len(list) # 0
  <2>1. n = written.count /\ n # Missing
    <3>1. 1 \in 1 .. Len(list)
      BY <1>2, <1>7
    <3> QED
      BY <1>2, <1>3, <3>1, ListsAssumption DEF Unit
  <2>2. pc' = "opcode" /\ left' = written.count /\ at' = 1
    BY <2>1 DEF Count, U32
  <2>3. End(Len(found))' = End(Len(found))
    BY <1>1 DEF End
  <2>4. ReaderInStep'
    BY <1>1, <1>2, <1>5, <1>7, <2>2, <2>3 DEF ReaderInStep
  <2> QED
    BY <1>1, <1>4, <2>2, <2>4 DEF ReadingInv
<1> QED
  BY <1>6, <1>7

\* An opcode that is wholly in the list is read as it was written.
LEMMA OpcodeRead ==
  ASSUME ReadingInv, Opcode,
         AllRead(Fields(list, at, 4, U32)),
         Take(list, at + 4, Fields(list, at, 4, U32)[4])
  PROVE  LET n == Len(found)
             op == written.ops[n + 1]
         IN  /\ n < Len(written.ops) /\ End(n + 1) <= Len(list)
             /\ End(n) \in Nat /\ Len(op.body) \in Nat
             /\ End(n + 1) = End(n) + 4 + Len(op.body)
             /\ Found(op.id, op.body)
             /\ at' = at + 4 + Len(op.body) /\ left' = left - 1 /\ pc' = pc
<1> DEFINE n == Len(found)
           header == Fields(list, at, 4, U32)
           body == SubSeq(list, at + 5, at + 4 + header[4])
           op == written.ops[n + 1]
<1>1. /\ Intact /\ pc = "opcode" /\ at = End(n) /\ at <= Len(list)
      /\ n \in 0 .. Len(written.ops)
  BY DEF ReadingInv, ReaderInStep, FoundAsWritten, Opcode
<1>2. n < Len(written.ops) /\ header[1] = op.id /\ header[4] = Len(op.body)
  BY <1>1, HeaderRead, Zenon
<1>3. /\ End(n) \in Nat /\ Len(op.body) \in Nat
      /\ End(n + 1) = End(n) + 4 + Len(op.body)
  BY <1>1, <1>2, UnitsOfNext, Zenon
<1>4. End(n + 1) <= Len(list)
  BY <1>1, <1>2, <1>3 DEF Take
<1>5. body = op.body
  BY <1>1, <1>2, <1>4, BodyRead
<1>6. /\ Found(header[1], body)
      /\ at' = at + 4 + header[4] /\ left' = left - 1 /\ pc' = pc
  BY Zenon DEF Opcode
<1> HIDE DEF header, body
<1> QED
  BY <1>2, <1>3, <1>4, <1>5, <1>6

\* An opcode that is wholly in the list is found as it was written; one that is
\* not ends the loop, and none after it could be in the list.
LEMMA OpcodeKeepsInvariant ==
  ASSUME ReadingInv, Opcode
  PROVE  ReadingInv' /\ (pc' = "done" \/ at' > at)
<1> DEFINE n == Len(found)
           header == Fields(list, at, 4, U32)
           op == written.ops[n + 1]
<1>1. /\ Intact /\ FoundAsWritten /\ pc = "opcode" /\ left > 0
      /\ at = End(n) /\ at <= Len(list)
      /\ left \in Nat /\ n + left = written.count
      /\ n \in 0 .. Len(written.ops)
      /\ UNCHANGED <<written, list>>
  BY DEF ReadingInv, ReaderInStep, FoundAsWritten, Opcode
<1>2. /\ written.count \in Nat /\ Len(written.ops) \in Nat /\ Len(list) \in Nat
      /\ Len(list) <= End(Len(written.ops))
  BY <1>1, ListTypes
<1>3. Intact' /\ \A k : End(k)' = End(k)
  BY <1>1 DEF Intact, End
<1>4. AllRead(header) => n < Len(written.ops) /\ header[1] = op.id /\ header[4] = Len(op.body)
  BY <1>1, HeaderRead, Zenon
<1>5. n < Len(written.ops) =>
        /\ End(n) \in Nat /\ Len(op.body) \in Nat /\ op.id \in Nat
        /\ End(n + 1) = End(n) + 4 + Len(op.body)
  BY <1>1, UnitsOfNext, Zenon
<1>6. CASE AllRead(header) /\ Take(list, at + 4, header[4])
  <2>1. /\ n < Len(written.ops) /\ End(n + 1) <= Len(list)
        /\ End(n) \in Nat /\ Len(op.body) \in Nat
        /\ End(n + 1) = End(n) + 4 + Len(op.body)
        /\ Found(op.id, op.body)
        /\ at' = at + 4 + Len(op.body) /\ left' = left - 1 /\ pc' = pc
    BY <1>6, OpcodeRead, Zenon
  <2>2. End(n + 1) <= Len(list)
    BY <2>1
  <2>4. at' = at + 4 + Len(op.body) /\ left' = left - 1 /\ pc' = pc
    BY <2>1
  <2>5. found' = Append(found, [id |-> op.id, body |-> op.body])
    BY <2>1 DEF Found
  <2> HIDE DEF header
  <2>6. Len(found') = n + 1 /\ n + 1 \in 0 .. Len(written.ops)
    BY <1>1, <1>2, <2>1, <2>5 DEF FoundAsWritten
  <2>7. FoundAsWritten'
    <3> DEFINE opened(i) == [id |-> written.ops[i].id, body |-> written.ops[i].body]
    <3>1. found = [i \in 1 .. n |-> opened(i)] /\ n \in Nat
      BY <1>1 DEF FoundAsWritten
    <3>2. found' = Append(found, opened(n + 1))
      BY <2>5
    <3> HIDE DEF opened
    <3>3. found' = [i \in 1 .. n + 1 |-> opened(i)]
      BY <3>1, <3>2
    <3>4. found' = [i \in 1 .. Len(found') |->
                      [id |-> written.ops[i].id, body |-> written.ops[i].body]]
      BY <2>6, <3>3 DEF opened
    <3> QED
      BY <1>1, <2>6, <3>4 DEF FoundAsWritten
  <2>8. at' = End(n + 1) /\ at' > at
    BY <1>1, <2>1, <2>4
  <2>9. ReaderInStep'
    <3>1. left' \in Nat /\ Len(found') + left' = written.count
      BY <1>1, <1>2, <2>4, <2>6
    <3>2. at' = End(Len(found'))
      BY <2>6, <2>8
    <3>3. pc' = "opcode" /\ at' <= Len(list)
      BY <1>1, <2>2, <2>4, <2>8
    <3>4. End(Len(found'))= End(Len(found))'
      BY <1>1 DEF End
    <3> QED
      BY <1>1, <3>1, <3>2, <3>3, <3>4 DEF ReaderInStep
  <2> QED
    BY <1>3, <2>7, <2>8, <2>9 DEF ReadingInv
<1>7. CASE ~(AllRead(header) /\ Take(list, at + 4, header[4]))
  <2>1. pc' = "done" /\ found' = found
    BY <1>7, Zenon DEF Opcode, Cut
  <2>2. n = Len(written.ops) \/ End(n + 1) > Len(list)
    <3>1. SUFFICES ASSUME n < Len(written.ops), End(n + 1) <= Len(list)
                   PROVE  FALSE
      <4>1. End(n + 1) \in Nat \/ n = Len(written.ops)
        BY <1>1, <1>2, <1>5
      <4> HIDE DEF n
      <4> QED
        BY <1>1, <1>2, <4>1
    <3>2. End(n) \in Nat /\ Len(op.body) \in Nat /\ End(n + 1) = End(n) + 4 + Len(op.body)
      BY <1>5, <3>1
    <3>3. AllRead(header)
      <4>1. list \in Seq(Unit)
        BY <1>1, ListTypes
      <4>2. ASSUME NEW i \in 1 .. 4 PROVE header[i] = list[at + i] /\ at + i \in 1 .. Len(list)
        <5>1. at \in Nat /\ at + 4 <= Len(list)
          <6> DEFINE b == Len(op.body)
          <6>1. b \in Nat /\ End(n + 1) = End(n) + 4 + b /\ End(n) \in Nat
            BY <3>2
          <6> HIDE DEF b, n
          <6> QED
            BY <1>1, <1>2, <3>1, <6>1
        <5>2. header[i] = IF at + i <= Len(list) THEN list[at + i] ELSE Missing
          BY <5>1 DEF Fields, Take, U32
        <5> HIDE DEF header
        <5> QED
          BY <1>2, <5>1, <5>2
      <4>3. ASSUME NEW i \in 1 .. 4 PROVE header[i] # Missing
        BY <4>1, <4>2, ElementOfSeq, ListsAssumption
      <4>4. DOMAIN header = 1 .. 4
        BY DEF Fields
      <4> QED
        BY <4>3, <4>4 DEF AllRead
    <3>4. Take(list, at + 4, header[4])
      <4>1. header[4] = Len(op.body)
        BY <1>4, <3>3
      <4> HIDE DEF header
      <4> QED
        BY <1>1, <3>1, <3>2, <4>1 DEF Take
    <3> QED
      BY <1>7, <3>3, <3>4
  <2>3. FoundAsWritten'
    BY <1>1, <2>1 DEF FoundAsWritten
  <2>4. ReaderInStep'
    <3>1. n <= written.count
      BY <1>1, <1>2
    <3>2. End(n) <= Len(list)
      BY <1>1
    <3> QED
      BY <1>1, <2>1, <2>2, <3>1, <3>2 DEF ReaderInStep, End
  <2> QED
    BY <1>3, <2>1, <2>3, <2>4 DEF ReadingInv
<1> QED
  BY <1>6, <1>7

\* The loop ends when it has made as many passes as announced.
LEMMA ExhaustedKeepsInvariant ==
  ASSUME ReadingInv, Exhausted
  PROVE  ReadingInv' /\ pc' = "done"
<1>1. /\ Intact /\ FoundAsWritten /\ pc = "opcode" /\ left = 0 /\ pc' = "done"
      /\ at = End(Len(found)) /\ at <= Len(list) /\ Len(found) + left = written.count
      /\ Len(found) \in 0 .. Len(written.ops)
      /\ UNCHANGED <<written, list, at, left, found, tables>>
  BY DEF ReadingInv, ReaderInStep, FoundAsWritten, Exhausted
<1>2. written.count \in Nat /\ Len(written.ops) \in Nat
  BY <1>1, ListTypes
<1>3. Intact' /\ FoundAsWritten'
  BY <1>1 DEF Intact, FoundAsWritten
<1>4. Len(found) = written.count
  BY <1>1, <1>2
<1>5. ReaderInStep'
  BY <1>1, <1>2, <1>4 DEF ReaderInStep, End
<1> QED
  BY <1>1, <1>3, <1>5 DEF ReadingInv

\* Each list starts as it was written, unread.
LEMMA InitReading ==
  ASSUME CorrectionsInit
  PROVE  ReadingInv
<1>1. PICK l \in Lists : written = l.written /\ list = l.units
  BY DEF CorrectionsInit, Init
<1>2. /\ at = 0 /\ pc = "count" /\ found = <<>>
  BY DEF CorrectionsInit, Init
<1>3. Written(l)
  BY ListsAssumption
<1>4. Intact
  BY <1>1, <1>3 DEF Intact, Written
<1>5. Len(written.ops) \in Nat
  BY <1>4, ListTypes
<1> QED
  BY <1>2, <1>4, <1>5 DEF ReadingInv, FoundAsWritten, ReaderInStep

\* What reads the list leaves the corrections alone, and the other way round.
LEMMA StepsOfReading ==
  ASSUME [CorrectionsNext]_<<vars, kept>>
  PROVE  Next \/ UNCHANGED vars
<1>1. ASSUME NEW id, Visit(id) PROVE UNCHANGED vars
  BY <1>1 DEF Visit
<1>2. ReadGainMap \/ ReadVignette \/ ReadWarp \/ ReadOther => UNCHANGED vars
  BY <1>1, Zenon DEF ReadGainMap, ReadVignette, ReadWarp, ReadOther
<1>3. Done \/ UNCHANGED <<vars, kept>> => UNCHANGED vars
  BY Zenon DEF Done
<1> QED
  BY <1>2, <1>3, Zenon DEF CorrectionsNext

\* Every step keeps the invariant, and every pass of the loop moves the reader or
\* is the last.
LEMMA NextKeepsReading ==
  ASSUME ReadingInv, [CorrectionsNext]_<<vars, kept>>
  PROVE  ReadingInv' /\ [pc' = "done" \/ at' > at]_vars
<1>1. CASE Next
  BY <1>1, CountKeepsInvariant, OpcodeKeepsInvariant, ExhaustedKeepsInvariant DEF Next
<1>2. CASE UNCHANGED vars
  <2>1. UNCHANGED <<written, list, at, left, pc, found>>
    BY <1>2 DEF vars
  <2>2. Intact' /\ FoundAsWritten'
    BY <2>1 DEF ReadingInv, Intact, FoundAsWritten
  <2>3. ReaderInStep'
    BY <2>1 DEF ReadingInv, ReaderInStep, End
  <2> QED
    BY <1>2, <2>2, <2>3 DEF ReadingInv
<1> QED
  BY <1>1, <1>2, StepsOfReading

\* The invariant holds of every behaviour, whatever the list.
THEOREM ReadingInvariant == CorrectionsSpec => []ReadingInv
<1>1. CorrectionsInit => ReadingInv
  BY InitReading
<1>2. ReadingInv /\ [CorrectionsNext]_<<vars, kept>> => ReadingInv'
  BY NextKeepsReading
<1> QED
  BY <1>1, <1>2, PTL DEF CorrectionsSpec

\* Every pass of the loop consumes units of the list or is the last: a list keeps
\* the helper busy no longer than its own length, whatever count it announces.
THEOREM NoPassIsIdle == CorrectionsSpec => EachPassConsumes
<1>1. ReadingInv /\ [CorrectionsNext]_<<vars, kept>> => [pc' = "done" \/ at' > at]_vars
  BY NextKeepsReading
<1> QED
  BY <1>1, ReadingInvariant, PTL DEF CorrectionsSpec, EachPassConsumes

\* each() finds the opcodes announced that are wholly in the list, with their
\* bodies, in order and no other, wherever the list is cut.
THEOREM FoundIsWhatFits == CorrectionsSpec => []FindsWhatFits
<1>1. ASSUME ReadingInv PROVE FindsWhatFits
  <2> DEFINE ops == written.ops
             fit == {n \in 0 .. Len(ops) :
                       /\ n <= written.count
                       /\ 1 + Len(Encoding(ops, n)) <= Len(list)}
             n == IF list = <<>> THEN 0 ELSE Max(fit)
  <2>1. SUFFICES ASSUME pc = "done"
                 PROVE  found = [i \in 1 .. n |-> [id |-> ops[i].id, body |-> ops[i].body]]
    BY Zenon DEF FindsWhatFits
  <2>2. /\ IsOps(ops) /\ written.count \in Nat /\ Len(ops) \in Nat /\ Len(list) \in Nat
    BY <1>1, ListTypes DEF ReadingInv
  <2>3. /\ Len(found) \in 0 .. Len(ops)
        /\ found = [i \in 1 .. Len(found) |-> [id |-> ops[i].id, body |-> ops[i].body]]
    BY <1>1, Zenon DEF ReadingInv, FoundAsWritten
  <2>4. CASE list = <<>>
    <3>1. Len(found) = 0
      <4>1. End(Len(found)) \in Nat /\ End(Len(found)) >= 1
        BY <2>2, <2>3, EncodingIsUnits DEF End
      <4>2. ~(End(Len(found)) <= Len(list))
        BY <2>4, <4>1
      <4>3. found = <<>>
        BY <1>1, <2>1, <4>2 DEF ReadingInv, ReaderInStep
      <4> QED
        BY <4>3
    <3>2. n = Len(found)
      BY <2>4, <3>1
    <3> HIDE DEF n
    <3> QED
      BY <2>3, <3>2
  <2>5. CASE list # <<>>
    <3> DEFINE k == Len(found)
    <3>1. /\ End(k) <= Len(list) /\ k <= written.count
          /\ k \in {written.count, Len(ops)} \/ End(k + 1) > Len(list)
      BY <1>1, <2>1, <2>5 DEF ReadingInv, ReaderInStep
    <3>2. k \in fit
      BY <2>3, <3>1 DEF End
    <3>3. ASSUME NEW m \in fit PROVE k >= m
      <4>1. m \in 0 .. Len(ops) /\ m <= written.count /\ End(m) <= Len(list) /\ m \in Nat
        BY <2>2 DEF End
      <4>2. k \in Nat
        BY <2>2, <2>3
      <4>3. SUFFICES ASSUME m >= k + 1 PROVE FALSE
        BY <4>1, <4>2
      <4>4. k + 1 \in 0 .. Len(ops) /\ m \in k + 1 .. Len(ops)
        BY <2>2, <4>1, <4>2, <4>3
      <4>5. End(k + 1) > Len(list)
        BY <2>2, <3>1, <4>1, <4>2, <4>3
      <4>6. End(k + 1) <= End(m) /\ End(k + 1) \in Nat /\ End(m) \in Nat
        <5> HIDE DEF k, ops
        <5>1. /\ Len(Encoding(ops, k + 1)) <= Len(Encoding(ops, m))
              /\ Len(Encoding(ops, k + 1)) \in Nat /\ Len(Encoding(ops, m)) \in Nat
          BY <2>2, <4>1, <4>4, EncodingExtends, EncodingIsUnits
        <5> QED
          BY <5>1 DEF End, ops
      <4> QED
        BY <2>2, <4>1, <4>5, <4>6
    <3>4. \A m \in fit : m \in Nat
      BY <2>2
    <3> HIDE DEF fit
    <3>5. Max(fit) = k
      <4>1. Max(fit) \in fit /\ \A m \in fit : Max(fit) >= m
        BY <3>2, <3>3, Zenon DEF Max
      <4> HIDE DEF k
      <4> QED
        BY <3>2, <3>3, <3>4, <4>1
    <3>6. n = k
      BY <2>5, <3>5
    <3> HIDE DEF n
    <3> QED
      BY <2>3, <3>6
  <2> QED
    BY <2>4, <2>5
<1> QED
  BY <1>1, ReadingInvariant, PTL

-----------------------------------------------------------------------------
(* What the other recursive functions compute                              *)

\* Induction over the first numbers, for a set.
LEMMA InductionTo ==
  ASSUME NEW n \in Nat, NEW S, 0 \in S, \A i \in 1 .. n : i - 1 \in S => i \in S
  PROVE  0 .. n \subseteq S
<1> DEFINE astray == (0 .. n) \ S
<1>1. SUFFICES ASSUME astray # {} PROVE FALSE
  OBVIOUS
<1>2. PICK k \in astray : \A j \in astray : k <= j
  <2>1. astray \subseteq Nat
    OBVIOUS
  <2> QED
    BY <1>1, <2>1, LeastNumber
<1>3. k \in 1 .. n /\ k - 1 \in 0 .. n /\ k - 1 \notin astray
  BY <1>2
<1> QED
  BY <1>2, <1>3

\* f starts from base and goes on by the steps G.
Recurses(f, S, n, base, G) ==
  f \in [0 .. n -> S] /\ f[0] = base /\ \A i \in 1 .. n : f[i] = G[<<i, f[i - 1]>>]

\* The steps G from values in S lead to values in S.
StaysIn(S, n, G) == \A i \in 1 .. n : \A v \in S : G[<<i, v>>] \in S

\* A value and a step give a function on the first numbers, when the step stays
\* within a set.
LEMMA Recursion ==
  ASSUME NEW S, NEW n \in Nat, NEW base \in S, NEW G, StaysIn(S, n, G)
  PROVE  \E f : Recurses(f, S, n, base, G)
<1>0. \A i \in 1 .. n : \A v \in S : G[<<i, v>>] \in S
  BY DEF StaysIn
<1> DEFINE Built(f, k) == /\ f \in [0 .. k -> S]
                          /\ f[0] = base
                          /\ \A i \in 1 .. k : f[i] = G[<<i, f[i - 1]>>]
           reached == {k \in 0 .. n : \E f : Built(f, k)}
<1>1. 0 \in reached
  <2> DEFINE f == [i \in 0 .. 0 |-> base]
  <2>1. Built(f, 0)
    OBVIOUS
  <2> HIDE DEF Built
  <2> QED
    BY <2>1
<1>2. ASSUME NEW k \in 1 .. n, k - 1 \in reached
      PROVE  k \in reached
  <2>1. PICK f : Built(f, k - 1)
    BY <1>2
  <2> DEFINE g == [i \in 0 .. k |-> IF i = k THEN G[<<k, f[k - 1]>>] ELSE f[i]]
  <2>2. f \in [0 .. k - 1 -> S] /\ f[0] = base /\ \A i \in 1 .. k - 1 : f[i] = G[<<i, f[i - 1]>>]
    BY <2>1
  <2>3. f[k - 1] \in S /\ G[<<k, f[k - 1]>>] \in S
    BY <1>0, <2>2
  <2>4. g \in [0 .. k -> S]
    BY <1>2, <2>2, <2>3
  <2>5. g[0] = base
    BY <2>2
  <2>6. ASSUME NEW i \in 1 .. k PROVE g[i] = G[<<i, g[i - 1]>>]
    <3>1. g[i - 1] = f[i - 1]
      OBVIOUS
    <3>2. CASE i = k
      <4>1. g[i] = G[<<k, f[k - 1]>>]
        BY <3>2
      <4> HIDE DEF g
      <4> QED
        BY <3>1, <3>2, <4>1
    <3>3. CASE i # k
      <4>1. i \in 1 .. k - 1
        BY <3>3
      <4>2. g[i] = f[i]
        BY <3>3
      <4> HIDE DEF g
      <4> QED
        BY <2>2, <3>1, <4>1, <4>2
    <3> QED
      BY <3>2, <3>3
  <2>7. Built(g, k)
    BY <2>4, <2>5, <2>6
  <2> HIDE DEF Built, g
  <2> QED
    BY <2>7
<1>3. n \in reached
  <2> HIDE DEF reached
  <2>1. 0 .. n \subseteq reached
    BY <1>1, <1>2, InductionTo
  <2> QED
    BY <2>1
<1> QED
  BY <1>3 DEF Recurses

\* The powers of x, as Power makes them.
Powers(f, x, n) == f = [i \in 0 .. n |-> IF i = 0 THEN 1 ELSE f[i - 1] * x]

\* There are powers, and they are integers.
LEMMA PowersExist ==
  ASSUME NEW x \in Int, NEW n \in Nat
  PROVE  /\ \E f : Powers(f, x, n)
         /\ \A f : Powers(f, x, n) => f \in [0 .. n -> Int]
<1>1. \E f : Powers(f, x, n)
  <2> DEFINE G == [p \in (1 .. n) \X Int |-> p[2] * x]
  <2>1. \A i \in 1 .. n : \A v \in Int : G[<<i, v>>] = v * x /\ G[<<i, v>>] \in Int
    OBVIOUS
  <2> HIDE DEF G
  <2>2. PICK f \in [0 .. n -> Int] : f[0] = 1 /\ \A i \in 1 .. n : f[i] = G[<<i, f[i - 1]>>]
    <3>1. 1 \in Int /\ StaysIn(Int, n, G)
      BY <2>1 DEF StaysIn
    <3>2. \E f : Recurses(f, Int, n, 1, G)
      BY <3>1, Recursion
    <3> QED
      BY <3>2 DEF Recurses
  <2>3. ASSUME NEW i \in 0 .. n
        PROVE  f[i] = IF i = 0 THEN 1 ELSE f[i - 1] * x
    <3>1. ASSUME i \in 1 .. n PROVE f[i] = f[i - 1] * x
      <4>1. f[i - 1] \in Int
        BY <2>2, <3>1
      <4> QED
        BY <3>1, <2>1, <2>2, <4>1
    <3>2. CASE i = 0
      BY <2>2, <3>2
    <3>3. CASE i # 0
      <4>1. i \in 1 .. n
        BY <3>3
      <4> QED
        BY <3>1, <3>3, <4>1
    <3> QED
      BY <3>2, <3>3
  <2>4. Powers(f, x, n)
    BY <2>3 DEF Powers
  <2> QED
    BY <2>4
<1>2. ASSUME NEW f, Powers(f, x, n)
      PROVE  f \in [0 .. n -> Int]
  <2> DEFINE S == {i \in 0 .. n : f[i] \in Int}
  <2>1. f = [i \in 0 .. n |-> IF i = 0 THEN 1 ELSE f[i - 1] * x]
    BY <1>2 DEF Powers
  <2>2. 0 \in S
    BY <2>1
  <2>3. \A i \in 1 .. n : i - 1 \in S => i \in S
    BY <2>1
  <2> HIDE DEF S
  <2>4. 0 .. n \subseteq S
    BY <2>2, <2>3, InductionTo
  <2>5. \A i \in 0 .. n : f[i] \in Int
    BY <2>4 DEF S
  <2>6. f = [i \in 0 .. n |-> f[i]]
    <3> DEFINE g == [i \in 0 .. n |-> IF i = 0 THEN 1 ELSE f[i - 1] * x]
    <3>1. f = g /\ g = [i \in 0 .. n |-> g[i]]
      BY <2>1, Zenon
    <3> HIDE DEF g
    <3> QED
      BY <3>1
  <2> QED
    BY <2>5, <2>6
<1> QED
  BY <1>1, <1>2

\* A power more is one multiplication more.
LEMMA PowerUnfolds ==
  ASSUME NEW x \in Int, NEW n \in Nat
  PROVE  /\ Power(x, 0) = 1 /\ Power(x, n) \in Int
         /\ Power(x, n + 1) = Power(x, n) * x
<1> DEFINE f(m) == CHOOSE f : Powers(f, x, m)
<1>1. ASSUME NEW m \in Nat
      PROVE  /\ Power(x, m) = f(m)[m] /\ f(m)[0] = 1
             /\ f(m) \in [0 .. m -> Int]
             /\ \A i \in 1 .. m : f(m)[i] = f(m)[i - 1] * x
  <2>1. Power(x, m) = f(m)[m]
    BY Zenon DEF Power, Powers
  <2>2. Powers(f(m), x, m)
    BY PowersExist
  <2> HIDE DEF f
  <2>3. f(m) \in [0 .. m -> Int]
    BY <2>2, PowersExist
  <2>4. f(m) = [i \in 0 .. m |-> IF i = 0 THEN 1 ELSE f(m)[i - 1] * x]
    BY <2>2 DEF Powers
  <2>5. f(m)[0] = 1 /\ \A i \in 1 .. m : f(m)[i] = f(m)[i - 1] * x
    BY <2>4
  <2> QED
    BY <2>1, <2>3, <2>5
<1> HIDE DEF f
<1> DEFINE S == {i \in 0 .. n : f(n)[i] = f(n + 1)[i]}
<1>2. 0 \in S /\ \A i \in 1 .. n : i - 1 \in S => i \in S
  <2>1. /\ f(n)[0] = 1 /\ f(n + 1)[0] = 1
        /\ \A i \in 1 .. n : f(n)[i] = f(n)[i - 1] * x
        /\ \A i \in 1 .. n + 1 : f(n + 1)[i] = f(n + 1)[i - 1] * x
    BY <1>1
  <2> QED
    BY <2>1
<1> HIDE DEF S
<1>3. f(n)[n] = f(n + 1)[n]
  <2>1. n \in S
    BY <1>2, InductionTo
  <2> QED
    BY <2>1 DEF S
<1>4. f(n + 1)[n + 1] = f(n + 1)[n] * x
  <2>1. n + 1 \in 1 .. n + 1 /\ (n + 1) - 1 = n
    OBVIOUS
  <2> QED
    BY <1>1, <2>1
<1>5. Power(x, 0) = f(0)[0] /\ f(0)[0] = 1 /\ Power(x, n) = f(n)[n] /\ f(n)[n] \in Int
  BY <1>1
<1>6. Power(x, n + 1) = f(n + 1)[n + 1]
  BY <1>1
<1> QED
  BY <1>3, <1>4, <1>5, <1>6

\* The steps of Horner.
LEMMA HornerSteps ==
  ASSUME NEW c \in Seq(Int), NEW x \in Int
  PROVE  \E h \in [0 .. Len(c) -> Int] :
           /\ Horner(c, x) = h[Len(c)] /\ h[0] = 0
           /\ \A i \in 1 .. Len(c) : h[i] = h[i - 1] * x + c[Len(c) + 1 - i]
<1> DEFINE n == Len(c)
           Sums(f) == f = [i \in 0 .. n |-> IF i = 0 THEN 0 ELSE f[i - 1] * x + c[n + 1 - i]]
           h == CHOOSE f : Sums(f)
<1>1. n \in Nat /\ \A i \in 1 .. n : c[n + 1 - i] \in Int
  BY ElementOfSeq
<1>2. \E f : Sums(f)
  <2> DEFINE G == [p \in (1 .. n) \X Int |-> p[2] * x + c[n + 1 - p[1]]]
  <2>1. \A i \in 1 .. n : \A v \in Int : G[<<i, v>>] = v * x + c[n + 1 - i] /\ G[<<i, v>>] \in Int
    <3>1. ASSUME NEW i \in 1 .. n, NEW v \in Int
          PROVE  /\ G[<<i, v>>] = v * x + c[n + 1 - i]
                 /\ v * x + c[n + 1 - i] \in Int
      <4>1. v * x \in Int /\ c[n + 1 - i] \in Int
        BY <1>1
      <4> QED
        BY <4>1
    <3> QED
      BY <3>1
  <2> HIDE DEF G, n
  <2>2. PICK f \in [0 .. n -> Int] : f[0] = 0 /\ \A i \in 1 .. n : f[i] = G[<<i, f[i - 1]>>]
    <3>1. 0 \in Int /\ StaysIn(Int, n, G)
      BY <2>1 DEF StaysIn
    <3>2. \E f : Recurses(f, Int, n, 0, G)
      BY <1>1, <3>1, Recursion
    <3> QED
      BY <3>2 DEF Recurses
  <2>3. ASSUME NEW i \in 0 .. n
        PROVE  f[i] = IF i = 0 THEN 0 ELSE f[i - 1] * x + c[n + 1 - i]
    <3>1. ASSUME i \in 1 .. n PROVE f[i] = f[i - 1] * x + c[n + 1 - i]
      <4>1. f[i - 1] \in Int
        BY <3>1, <1>1, <2>2
      <4> QED
        BY <3>1, <2>1, <2>2, <4>1
    <3>2. CASE i = 0
      BY <2>2, <3>2
    <3>3. CASE i # 0
      <4>1. i \in 1 .. n
        BY <1>1, <3>3
      <4> QED
        BY <3>1, <3>3, <4>1
    <3> QED
      BY <3>2, <3>3
  <2>4. f = [i \in 0 .. n |-> IF i = 0 THEN 0 ELSE f[i - 1] * x + c[n + 1 - i]]
    BY <2>2, <2>3
  <2> HIDE DEF n
  <2> QED
    BY <2>4 DEF n
<1>3. Horner(c, x) = h[n]
  BY Zenon DEF Horner
<1>4. Sums(h)
  BY <1>2
<1> HIDE DEF h, n
<1>5. h = [i \in 0 .. n |-> IF i = 0 THEN 0 ELSE h[i - 1] * x + c[n + 1 - i]]
  BY <1>4
<1>6. h[0] = 0 /\ \A i \in 1 .. n : h[i] = h[i - 1] * x + c[n + 1 - i]
  BY <1>1, <1>5
<1> DEFINE S == {i \in 0 .. n : h[i] \in Int}
<1>7. 0 \in S /\ \A i \in 1 .. n : i - 1 \in S => i \in S
  <2>1. ASSUME NEW i \in 1 .. n, h[i - 1] \in Int PROVE h[i] \in Int
    <3>1. h[i - 1] * x \in Int /\ c[n + 1 - i] \in Int
      BY <1>1, <2>1
    <3> QED
      BY <1>6, <3>1
  <2> QED
    BY <1>1, <1>6, <2>1
<1> HIDE DEF S
<1>8. \A i \in 0 .. n : h[i] \in Int
  <2>1. 0 .. n \subseteq S
    BY <1>1, <1>7, InductionTo
  <2> QED
    BY <2>1 DEF S
<1>9. h = [i \in 0 .. n |-> h[i]]
  <2> DEFINE g == [i \in 0 .. n |-> IF i = 0 THEN 0 ELSE h[i - 1] * x + c[n + 1 - i]]
  <2>1. h = g /\ g = [i \in 0 .. n |-> g[i]]
    BY <1>5, Zenon
  <2> HIDE DEF g
  <2> QED
    BY <2>1
<1>10. h \in [0 .. n -> Int]
  BY <1>8, <1>9
<1> QED
  BY <1>3, <1>6, <1>10 DEF n

\* The steps of SumOfTerms.
LEMMA SumSteps ==
  ASSUME NEW c \in Seq(Int), NEW x \in Int
  PROVE  \E s \in [0 .. Len(c) -> Int] :
           /\ SumOfTerms(c, x) = s[Len(c)] /\ s[0] = 0
           /\ \A i \in 1 .. Len(c) : s[i] = s[i - 1] + c[i] * Power(x, i - 1)
<1> DEFINE n == Len(c)
           Sums(f) == f = [i \in 0 .. n |-> IF i = 0 THEN 0 ELSE f[i - 1] + c[i] * Power(x, i - 1)]
           s == CHOOSE f : Sums(f)
<1>1. n \in Nat /\ \A i \in 1 .. n : c[i] \in Int /\ Power(x, i - 1) \in Int
  <2>1. \A i \in 1 .. n : c[i] \in Int
    BY ElementOfSeq
  <2>2. \A i \in 1 .. n : Power(x, i - 1) \in Int
    <3>1. \A i \in 1 .. n : i - 1 \in Nat
      OBVIOUS
    <3> QED
      BY <3>1, PowerUnfolds
  <2> QED
    BY <2>1, <2>2
<1>2. \E f : Sums(f)
  <2> DEFINE G == [p \in (1 .. n) \X Int |-> p[2] + c[p[1]] * Power(x, p[1] - 1)]
  <2>1. \A i \in 1 .. n : \A v \in Int :
          G[<<i, v>>] = v + c[i] * Power(x, i - 1) /\ G[<<i, v>>] \in Int
    BY <1>1
  <2> HIDE DEF G, n
  <2>2. PICK f \in [0 .. n -> Int] : f[0] = 0 /\ \A i \in 1 .. n : f[i] = G[<<i, f[i - 1]>>]
    <3>1. 0 \in Int /\ StaysIn(Int, n, G)
      BY <2>1 DEF StaysIn
    <3>2. \E f : Recurses(f, Int, n, 0, G)
      BY <1>1, <3>1, Recursion
    <3> QED
      BY <3>2 DEF Recurses
  <2>3. ASSUME NEW i \in 0 .. n
        PROVE  f[i] = IF i = 0 THEN 0 ELSE f[i - 1] + c[i] * Power(x, i - 1)
    <3>1. ASSUME i \in 1 .. n PROVE f[i] = f[i - 1] + c[i] * Power(x, i - 1)
      <4>1. f[i - 1] \in Int
        BY <3>1, <1>1, <2>2
      <4> QED
        BY <3>1, <2>1, <2>2, <4>1
    <3>2. CASE i = 0
      BY <2>2, <3>2
    <3>3. CASE i # 0
      <4>1. i \in 1 .. n
        BY <1>1, <3>3
      <4> QED
        BY <3>1, <3>3, <4>1
    <3> QED
      BY <3>2, <3>3
  <2>4. f = [i \in 0 .. n |-> IF i = 0 THEN 0 ELSE f[i - 1] + c[i] * Power(x, i - 1)]
    BY <2>2, <2>3
  <2> HIDE DEF n
  <2> QED
    BY <2>4 DEF n
<1>3. SumOfTerms(c, x) = s[n]
  BY Zenon DEF SumOfTerms
<1>4. Sums(s)
  BY <1>2
<1> HIDE DEF s, n
<1>5. s = [i \in 0 .. n |-> IF i = 0 THEN 0 ELSE s[i - 1] + c[i] * Power(x, i - 1)]
  BY <1>4
<1>6. s[0] = 0 /\ \A i \in 1 .. n : s[i] = s[i - 1] + c[i] * Power(x, i - 1)
  BY <1>1, <1>5
<1> DEFINE S == {i \in 0 .. n : s[i] \in Int}
<1>7. 0 \in S /\ \A i \in 1 .. n : i - 1 \in S => i \in S
  <2>1. ASSUME NEW i \in 1 .. n, s[i - 1] \in Int PROVE s[i] \in Int
    BY <1>1, <1>6, <2>1
  <2> QED
    BY <1>1, <1>6, <2>1
<1> HIDE DEF S
<1>8. \A i \in 0 .. n : s[i] \in Int
  <2>1. 0 .. n \subseteq S
    BY <1>1, <1>7, InductionTo
  <2> QED
    BY <2>1 DEF S
<1>9. s = [i \in 0 .. n |-> s[i]]
  <2> DEFINE g == [i \in 0 .. n |-> IF i = 0 THEN 0 ELSE s[i - 1] + c[i] * Power(x, i - 1)]
  <2>1. s = g /\ g = [i \in 0 .. n |-> g[i]]
    BY <1>5, Zenon
  <2> HIDE DEF g
  <2> QED
    BY <2>1
<1>10. s \in [0 .. n -> Int]
  BY <1>8, <1>9
<1> QED
  BY <1>3, <1>6, <1>10 DEF n

\* From the highest degree down, or term by term, a polynomial has one value.
LEMMA HornerIsSum ==
  ASSUME NEW c \in Seq(Int), NEW x \in Int
  PROVE  Horner(c, x) = SumOfTerms(c, x) /\ Horner(c, x) \in Int
<1> DEFINE n == Len(c)
<1>1. PICK h \in [0 .. n -> Int] :
        /\ Horner(c, x) = h[n] /\ h[0] = 0
        /\ \A i \in 1 .. n : h[i] = h[i - 1] * x + c[n + 1 - i]
  BY HornerSteps
<1>2. PICK s \in [0 .. n -> Int] :
        /\ SumOfTerms(c, x) = s[n] /\ s[0] = 0
        /\ \A i \in 1 .. n : s[i] = s[i - 1] + c[i] * Power(x, i - 1)
  BY SumSteps
<1>3. n \in Nat /\ \A i \in 1 .. n : c[i] \in Int
  BY ElementOfSeq
<1> HIDE DEF n
<1> DEFINE S == {i \in 0 .. n : h[i] * Power(x, n - i) + s[n - i] = s[n]}
<1>4. 0 \in S
  <2>1. Power(x, n) \in Int /\ s[n] \in Int /\ n - 0 = n
    BY <1>2, <1>3, PowerUnfolds
  <2> HIDE DEF S
  <2>2. h[0] * Power(x, n - 0) + s[n - 0] = s[n]
    BY <1>1, <2>1
  <2> QED
    BY <1>3, <2>2 DEF S
<1>5. ASSUME NEW i \in 1 .. n, i - 1 \in S
      PROVE  i \in S
  <2> DEFINE m == n - i
  <2>1. m \in Nat /\ m \in 0 .. n /\ m + 1 \in 1 .. n /\ n - (i - 1) = m + 1 /\ n + 1 - i = m + 1
    BY <1>3
  <2>2. Power(x, m) \in Int /\ Power(x, m + 1) = Power(x, m) * x
    BY <2>1, PowerUnfolds
  <2>3. h[i - 1] * Power(x, m + 1) + s[m + 1] = s[n]
    BY <1>5, <2>1
  <2>4. s[m + 1] = s[m] + c[m + 1] * Power(x, m)
    <3>1. (m + 1) - 1 = m
      BY <2>1
    <3> HIDE DEF m
    <3> QED
      BY <1>2, <2>1, <3>1
  <2>5. h[i] = h[i - 1] * x + c[m + 1]
    BY <1>1, <2>1
  <2>6. h[i - 1] \in Int /\ s[m] \in Int /\ c[m + 1] \in Int
    BY <1>1, <1>2, <1>3, <2>1
  <2> HIDE DEF m, S
  <2>7. h[i] * Power(x, m) + s[m] = s[n]
    <3> DEFINE a == h[i - 1]
               p == Power(x, m)
               k == c[m + 1]
               t == s[m]
    <3>1. a \in Int /\ p \in Int /\ k \in Int /\ t \in Int
      BY <2>2, <2>6
    <3>2. s[n] = a * (p * x) + (t + k * p)
      BY <2>2, <2>3, <2>4
    <3>3. h[i] * p + t = (a * x + k) * p + t
      BY <2>5
    <3> HIDE DEF a, p, k, t
    <3>4. (a * x + k) * p + t = a * (p * x) + (t + k * p)
      BY <3>1, SMT
    <3> QED
      BY <3>2, <3>3, <3>4 DEF p, t
  <2> QED
    BY <2>7 DEF S, m
<1> HIDE DEF S
<1>6. n \in S
  <2>1. 0 .. n \subseteq S
    BY <1>3, <1>4, <1>5, InductionTo
  <2> QED
    BY <1>3, <2>1
<1>7. h[n] * Power(x, n - n) + s[n - n] = s[n]
  BY <1>6 DEF S
<1>8. Power(x, 0) = 1 /\ n - n = 0 /\ h[n] \in Int /\ s[0] = 0
  BY <1>1, <1>2, <1>3, PowerUnfolds
<1>9. h[n] = s[n]
  BY <1>7, <1>8
<1> QED
  BY <1>1, <1>2, <1>8, <1>9

-----------------------------------------------------------------------------
(* What is read of a mapping                                               *)

\* The area part of Maps: the opcode is of the whole image, and of this plane.
Covers(op, p) ==
  /\ op.area[1] = 0 /\ op.area[2] = 0
  /\ op.area[3] >= HEIGHT /\ op.area[4] >= WIDTH
  /\ op.area[7] = 1 /\ op.area[8] = 1
  /\ op.area[5] <= p /\ p < op.area[5] + op.area[6]

\* An f64 takes two units, the first for its value.
LEMMA WideIsUnits ==
  ASSUME NEW values \in Seq(Unit)
  PROVE  /\ Wide(values) \in Seq(Unit) /\ Len(Wide(values)) = 2 * Len(values)
         /\ \A i \in 1 .. Len(values) : Wide(values)[2 * i - 1] = values[i]
<1> DEFINE n == Len(values)
<1>1. n \in Nat /\ \A i \in 1 .. n : values[i] \in Unit
  BY ElementOfSeq
<1>2. Wide(values) = [i \in 1 .. 2 * n |-> IF i % 2 = 1 THEN values[(i + 1) \div 2] ELSE 0]
  BY DEF Wide
<1> HIDE DEF n
<1>3. 2 * n \in Nat
  BY <1>1
<1>4. ASSUME NEW i \in 1 .. 2 * n
      PROVE  Wide(values)[i] \in Unit
  <2>1. CASE i % 2 = 1
    <3>1. (i + 1) \div 2 \in 1 .. n
      BY <1>1, <2>1
    <3> QED
      BY <1>1, <1>2, <2>1, <3>1
  <2>2. CASE i % 2 # 1
    BY <1>2, <2>2 DEF Unit
  <2> QED
    BY <2>1, <2>2
<1>5. Wide(values) \in [1 .. 2 * n -> Unit]
  BY <1>2, <1>4
<1>6. Wide(values) \in Seq(Unit) /\ Len(Wide(values)) = 2 * n
  BY <1>3, <1>5
<1>7. ASSUME NEW i \in 1 .. n
      PROVE  Wide(values)[2 * i - 1] = values[i]
  <2>1. 2 * i - 1 \in 1 .. 2 * n /\ (2 * i - 1) % 2 = 1 /\ ((2 * i - 1) + 1) \div 2 = i
    BY <1>1
  <2> QED
    BY <1>2, <2>1
<1> QED
  BY <1>6, <1>7 DEF n

\* What the body of a mapping holds, as far as it goes: the area, the number of
\* values announced, the values.
LEMMA BodyOfMapping ==
  ASSUME NEW op, IsMapping(op), op.body \in Seq(Unit), Len(op.body) >= 9
  PROVE  LET b == Len(op.body)
             width == IF op.id = MAP_POLYNOMIAL THEN 2 ELSE 1
         IN  /\ b \in Nat /\ Len(op.values) \in Nat
             /\ b <= 9 + width * Len(op.values)
             /\ op.announced \in Nat /\ op.body[9] = op.announced
             /\ \A i \in 1 .. 8 : op.area[i] \in Nat /\ op.body[i] = op.area[i]
             /\ \A i \in 1 .. Len(op.values) :
                  9 + width * i <= b => op.body[9 + width * (i - 1) + 1] = op.values[i]
<1> DEFINE b == Len(op.body)
           width == IF op.id = MAP_POLYNOMIAL THEN 2 ELSE 1
           area == op.area
           number == <<op.announced>>
           head == area \o number
           tail == IF op.id = MAP_POLYNOMIAL THEN Wide(op.values) ELSE op.values
           units == head \o tail
           n == Len(op.values)
<1>1. /\ area \in Seq(Nat) /\ Len(area) = 8 /\ op.announced \in Nat
      /\ op.values \in Seq(Unit)
      /\ b \in 0 .. Len(units) /\ op.body = SubSeq(units, 1, b)
  <2>1. /\ area \in Seq(Nat) /\ Len(area) = 8 /\ op.announced \in Nat
        /\ op.values \in Seq(IF op.id = MAP_TABLE THEN Int ELSE Unit)
        /\ b \in 0 .. Len(units) /\ op.body = SubSeq(units, 1, b)
    BY Zenon DEF IsMapping, Units
  <2>2. op.values \in Seq(Unit)
    BY <2>1 DEF Unit
  <2> QED
    BY <2>1, <2>2
<1>2. b \in Nat /\ b >= 9 /\ n \in Nat
  BY <1>1
<1>3. /\ tail \in Seq(Unit) /\ Len(tail) = width * n
      /\ \A i \in 1 .. n : tail[width * (i - 1) + 1] = op.values[i]
  <2>1. CASE op.id = MAP_POLYNOMIAL
    <3> DEFINE w == Wide(op.values)
    <3>1. \A i \in 1 .. n : width * (i - 1) + 1 = 2 * i - 1
      BY <1>2, <2>1
    <3>2. w \in Seq(Unit) /\ Len(w) = 2 * n /\ \A i \in 1 .. n : w[2 * i - 1] = op.values[i]
      BY <1>1, WideIsUnits, Zenon
    <3>3. tail = w /\ width = 2
      BY <2>1
    <3> HIDE DEF tail, width, w, n
    <3> QED
      BY <3>1, <3>2, <3>3
  <2>2. CASE op.id # MAP_POLYNOMIAL
    <3>1. \A i \in 1 .. n : width * (i - 1) + 1 = i
      BY <1>2, <2>2
    <3>2. width = 1 /\ tail = op.values
      BY <2>2
    <3>3. Len(op.values) = n /\ 1 * n = n
      BY <1>2
    <3> HIDE DEF tail, width, n
    <3> QED
      BY <1>1, <3>1, <3>2, <3>3
  <2> QED
    BY <2>1, <2>2
<1>4. number \in Seq(Unit) /\ Len(number) = 1 /\ number[1] = op.announced /\ area \in Seq(Unit)
  BY <1>1 DEF Unit
<1>5. \A i \in 1 .. 8 : area[i] \in Nat
  BY <1>1, ElementOfSeq
<1> HIDE DEF area, number, tail
<1>6. /\ head \in Seq(Unit) /\ Len(head) = Len(area) + Len(number)
      /\ \A i \in 1 .. Len(area) + Len(number) :
           head[i] = IF i <= Len(area) THEN area[i] ELSE number[i - Len(area)]
  <2>1. area \in Seq(Unit) /\ number \in Seq(Unit)
    BY <1>4
  <2> QED
    BY <2>1, ConcatProperties, Zenon
<1>7. Len(head) = 9 /\ head[9] = op.announced /\ \A i \in 1 .. 8 : head[i] = area[i]
  <2>1. Len(area) + Len(number) = 9
    BY <1>1, <1>4 DEF area
  <2>2. 9 \in 1 .. 9 /\ ~(9 <= 8) /\ 9 - 8 = 1 /\ \A i \in 1 .. 8 : i \in 1 .. 9 /\ i <= 8
    OBVIOUS
  <2>3. Len(area) = 8
    BY <1>1 DEF area
  <2> HIDE DEF head
  <2> QED
    BY <1>4, <1>6, <2>1, <2>2, <2>3
<1> HIDE DEF head
<1>8. /\ units \in Seq(Unit) /\ Len(units) = Len(head) + Len(tail)
      /\ \A i \in 1 .. Len(head) + Len(tail) :
           units[i] = IF i <= Len(head) THEN head[i] ELSE tail[i - Len(head)]
  <2>1. head \in Seq(Unit) /\ tail \in Seq(Unit)
    BY <1>3, <1>6
  <2> QED
    BY <2>1, ConcatProperties, Zenon
<1> HIDE DEF units, b, n, width
<1>9. width \in {1, 2}
  BY DEF width
<1>10. Len(units) = 9 + width * n /\ b <= 9 + width * n
  BY <1>1, <1>2, <1>3, <1>7, <1>8, <1>9
<1>11. \A i \in 1 .. b : op.body[i] = units[i]
  <2>1. \A i \in 1 .. b : units[i] \in Unit
    <3>1. \A i \in 1 .. b : i \in 1 .. Len(units)
      BY <1>1, <1>2
    <3> QED
      BY <1>8, <3>1, ElementOfSeq
  <2>2. \A i \in 1 .. b - 1 + 1 : SubSeq(units, 1, b)[i] = units[1 + i - 1]
    <3>1. 1 \in Int /\ b \in Int
      BY <1>2
    <3> QED
      BY <2>1, <3>1, SubSeqProperties
  <2>3. \A i \in 1 .. b : i \in 1 .. b - 1 + 1 /\ 1 + i - 1 = i
    BY <1>2
  <2> QED
    BY <1>1, <2>2, <2>3
<1>12. \A i \in 1 .. 9 : op.body[i] = head[i]
  <2>1. \A i \in 1 .. 9 : i \in 1 .. b /\ i \in 1 .. Len(head) + Len(tail)
    BY <1>1, <1>2, <1>7, <1>8
  <2> QED
    BY <1>7, <1>8, <1>11, <2>1
<1>13. ASSUME NEW i \in 1 .. n, 9 + width * i <= b
       PROVE  op.body[9 + width * (i - 1) + 1] = op.values[i]
  <2> DEFINE k == width * (i - 1) + 1
  <2>1. k \in 1 .. width * n /\ 9 + k \in 1 .. b
    <3>1. CASE width = 1
      BY <1>2, <1>13, <3>1
    <3>2. CASE width = 2
      BY <1>2, <1>13, <3>2
    <3> QED
      BY <1>9, <3>1, <3>2
  <2>2. tail[k] = op.values[i]
    BY <1>3
  <2>3. 9 + width * (i - 1) + 1 = 9 + k
    BY <1>9
  <2> HIDE DEF k
  <2>4. units[9 + k] = tail[k]
    <3>1. 9 + k \in 1 .. Len(head) + Len(tail) /\ ~(9 + k <= 9) /\ (9 + k) - 9 = k
      BY <1>2, <1>8, <1>10, <2>1
    <3> QED
      BY <1>7, <1>8, <3>1
  <2> QED
    BY <1>11, <2>1, <2>2, <2>3, <2>4
<1>14. op.body[9] = op.announced /\ \A i \in 1 .. 8 : op.body[i] = area[i]
  BY <1>7, <1>12
<1> QED
  BY <1>1, <1>2, <1>5, <1>10, <1>13, <1>14 DEF b, n, width, area

\* Bodies of an opcode that may be in a list.
IsOp(op) ==
  /\ op.id \in Nat /\ op.body \in Seq(Unit)
  /\ op.id \in {MAP_POLYNOMIAL, MAP_TABLE} => IsMapping(op)

\* The rest of Maps: the opcode is a mapping, complete and within its limits.
Usable(op) ==
  /\ op.id \in {MAP_POLYNOMIAL, MAP_TABLE}
  /\ IF op.id = MAP_POLYNOMIAL THEN op.announced <= DEGREE_MAX
     ELSE op.announced \in 1 .. TABLE_MAX
  /\ Needed(op) <= Len(op.values)
  /\ Len(op.body) >= 9 + Needed(op) * (IF op.id = MAP_POLYNOMIAL THEN F64 ELSE 1)
  /\ op.id = MAP_POLYNOMIAL => \A i \in 1 .. Needed(op) : op.values[i] # NotFinite

\* The planes read are those covered.
LEMMA WholeImageRead ==
  ASSUME NEW op, op.id \in {MAP_POLYNOMIAL, MAP_TABLE}, IsOp(op), Len(op.body) >= 9
  PROVE  WholeImage(op.body) = {p \in 0 .. PLANES_MAX - 1 : Covers(op, p)}
<1> DEFINE field == Fields(op.body, 0, 8, U32)
           v == [i \in 1 .. 8 |-> IF field[i] = Missing THEN U32_MAX ELSE field[i]]
<1>1. /\ Len(op.body) \in Nat
      /\ \A i \in 1 .. 8 : op.area[i] \in Nat /\ op.body[i] = op.area[i]
  BY BodyOfMapping DEF IsOp
<1>2. \A i \in 1 .. 8 : v[i] = op.area[i]
  <2>1. ASSUME NEW i \in 1 .. 8 PROVE field[i] = op.area[i]
    <3>1. field[i] = IF 0 + (i - 1) * 1 + 1 <= Len(op.body)
                     THEN op.body[0 + (i - 1) * 1 + 1] ELSE Missing
      BY Zenon DEF Fields, Take, U32
    <3>2. 0 + (i - 1) * 1 + 1 = i /\ i <= Len(op.body)
      <4> DEFINE b == Len(op.body)
      <4>1. b \in Nat /\ b >= 9
        BY <1>1
      <4> HIDE DEF b
      <4>2. i <= b
        BY <4>1
      <4> QED
        BY <4>2 DEF b
    <3> HIDE DEF field
    <3> QED
      BY <1>1, <3>1, <3>2
  <2>2. ASSUME NEW i \in 1 .. 8 PROVE op.area[i] # Missing
    <3>1. Missing \notin Nat
      BY ListsAssumption DEF Unit
    <3> QED
      BY <1>1, <3>1
  <2> HIDE DEF field
  <2> QED
    BY <2>1, <2>2
<1>3. WholeImage(op.body) =
        IF /\ v[1] = 0 /\ v[2] = 0 /\ v[3] >= HEIGHT /\ v[4] >= WIDTH
           /\ v[7] = 1 /\ v[8] = 1
           /\ v[5] < PLANES_MAX /\ v[6] >= 1
        THEN PlanesFrom(v[5], v[6]) ELSE {}
  BY Zenon DEF WholeImage
<1> HIDE DEF v, field
<1>4. /\ v[1] = op.area[1] /\ v[2] = op.area[2] /\ v[3] = op.area[3] /\ v[4] = op.area[4]
      /\ v[5] = op.area[5] /\ v[6] = op.area[6] /\ v[7] = op.area[7] /\ v[8] = op.area[8]
      /\ op.area[5] \in Nat /\ op.area[6] \in Nat
  BY <1>1, <1>2
<1>5. PLANES_MAX \in Nat
  BY LimitsAssumption
<1> DEFINE a == op.area[5]
           n == op.area[6]
           image == /\ op.area[1] = 0 /\ op.area[2] = 0
                    /\ op.area[3] >= HEIGHT /\ op.area[4] >= WIDTH
                    /\ op.area[7] = 1 /\ op.area[8] = 1
<1>6. /\ WholeImage(op.body) = IF image /\ a < PLANES_MAX /\ n >= 1
                               THEN {p \in a .. a + n - 1 : p < PLANES_MAX} ELSE {}
      /\ \A p : Covers(op, p) <=> image /\ a <= p /\ p < a + n
      /\ a \in Nat /\ n \in Nat
  BY <1>3, <1>4 DEF PlanesFrom, Covers
<1> HIDE DEF image, a, n
<1> QED
  BY <1>5, <1>6

\* A body that ends before the values maps nothing.
LEMMA ShortBody ==
  ASSUME NEW op, IsOp(op), ~(Len(op.body) >= 9) \/ op.id \notin {MAP_POLYNOMIAL, MAP_TABLE}
  PROVE  Mapping(op.id, op.body) = Missing /\ ~Usable(op)
<1>1. Len(op.body) \in Nat
  BY LenProperties DEF IsOp
<1>2. CASE op.id \notin {MAP_POLYNOMIAL, MAP_TABLE}
  BY <1>2, Zenon DEF Mapping, Usable
<1>3. CASE op.id \in {MAP_POLYNOMIAL, MAP_TABLE} /\ Len(op.body) < 9
  <2>1. Fields(op.body, 8, 1, U32)[1] = Missing
    BY <1>1, <1>3 DEF Fields, Take, U32
  <2>2. Polynomial(op.body) = Missing /\ Table(op.body) = Missing
    BY <2>1, Zenon DEF Polynomial, Table
  <2>3. Mapping(op.id, op.body) = Missing
    <3>1. MAP_TABLE # MAP_POLYNOMIAL
      BY LimitsAssumption
    <3> QED
      BY <1>3, <2>2, <3>1 DEF Mapping
  <2>4. ~Usable(op)
    <3>1. SUFFICES ASSUME Usable(op) PROVE FALSE
      OBVIOUS
    <3>2. op.announced \in Nat
      BY <1>3 DEF IsOp, IsMapping
    <3>3. Needed(op) \in Nat
      BY <3>2 DEF Needed
    <3>4. Len(op.body) >= 9 + Needed(op) * (IF op.id = MAP_POLYNOMIAL THEN 2 ELSE 1)
      BY <3>1 DEF Usable, F64
    <3> QED
      BY <1>1, <1>3, <3>3, <3>4
  <2> QED
    BY <2>3, <2>4
<1> QED
  BY <1>1, <1>2, <1>3

\* What is clamped is a value of a sample.
LEMMA ClampInSteps ==
  ASSUME NEW v \in Int
  PROVE  Clamp(v) \in Steps
BY LimitsAssumption DEF Clamp, Steps

\* The polynomial read is the one written, and is skipped when it is not sound.
LEMMA PolynomialRead ==
  ASSUME NEW op, op.id = MAP_POLYNOMIAL, IsOp(op), Len(op.body) >= 9
  PROVE  /\ ~Usable(op) => Polynomial(op.body) = Missing
         /\ Usable(op) => /\ Polynomial(op.body) = [x \in Steps |-> Image(op, x)]
                         /\ \A x \in Steps : Image(op, x) \in Steps
<1> DEFINE body == op.body
           degree == Fields(body, 8, 1, U32)[1]
           c == Fields(body, 9, degree + 1, F64)
           b == Len(body)
           n == Len(op.values)
<1>1. /\ b \in Nat /\ n \in Nat /\ b <= 9 + 2 * n
      /\ op.announced \in Nat /\ body[9] = op.announced
      /\ \A i \in 1 .. n : 9 + 2 * i <= b => body[9 + 2 * (i - 1) + 1] = op.values[i]
      /\ op.values \in Seq(Unit)
  <2>1. IsMapping(op)
    BY DEF IsOp
  <2>2. op.values \in Seq(Unit)
    BY <2>1, LimitsAssumption DEF IsMapping
  <2> QED
    BY <2>1, <2>2, BodyOfMapping DEF IsOp
<1>2. degree = op.announced /\ degree # Missing /\ b >= 9
  <2>1. b >= 9
    OBVIOUS
  <2>2. degree = body[9]
    BY <1>1, <2>1 DEF Fields, Take, U32
  <2> HIDE DEF degree
  <2> QED
    BY <1>1, <2>1, <2>2, ListsAssumption DEF Unit
<1> DEFINE m == degree + 1
<1>3. m \in Nat /\ m >= 1 /\ Needed(op) = m
  BY <1>1, <1>2 DEF Needed
<1>4. c = [i \in 1 .. m |-> IF 9 + (i - 1) * 2 + 2 <= b THEN body[9 + (i - 1) * 2 + 1] ELSE Missing]
  BY Zenon DEF Fields, Take, F64
<1>5. Polynomial(body) =
        IF \/ degree = Missing \/ degree > DEGREE_MAX \/ ~AllRead(c)
           \/ \E i \in DOMAIN c : c[i] = NotFinite
        THEN Missing ELSE [x \in Steps |-> Clamp(Horner(c, x))]
  BY Zenon DEF Polynomial
<1>6. Usable(op) <=> /\ degree <= DEGREE_MAX /\ m <= n /\ b >= 9 + m * 2
                    /\ \A i \in 1 .. m : op.values[i] # NotFinite
  BY <1>2, <1>3 DEF Usable, F64
<1> HIDE DEF c, m
<1>7. CASE b >= 9 + m * 2
  <2>1. m <= n
    BY <1>1, <1>3, <1>7
  <2>2. ASSUME NEW i \in 1 .. m PROVE c[i] = op.values[i] /\ op.values[i] \in Unit
    <3>1. /\ i \in 1 .. n /\ 9 + 2 * i <= b /\ 9 + (i - 1) * 2 + 2 <= b
          /\ 9 + (i - 1) * 2 + 1 = 9 + 2 * (i - 1) + 1
      BY <1>1, <1>3, <1>7, <2>1
    <3>2. op.values[i] \in Unit
      BY <1>1, <3>1, ElementOfSeq
    <3> HIDE DEF b, n, body
    <3> QED
      BY <1>1, <1>4, <3>1, <3>2 DEF n
  <2>3. DOMAIN c = 1 .. m
    BY <1>4
  <2>4. AllRead(c)
    BY <2>2, <2>3, ListsAssumption DEF AllRead
  <2>5. (\E i \in DOMAIN c : c[i] = NotFinite) <=> ~\A i \in 1 .. m : op.values[i] # NotFinite
    BY <2>2, <2>3
  <2>6. DEGREE_MAX \in Nat
    BY LimitsAssumption
  <2>7. ~Usable(op) => Polynomial(body) = Missing
    BY <1>1, <1>2, <1>5, <1>6, <1>7, <2>1, <2>5, <2>6
  <2>8. ASSUME Usable(op)
        PROVE  /\ Polynomial(op.body) = [x \in Steps |-> Image(op, x)]
               /\ \A x \in Steps : Image(op, x) \in Steps
    <3>1. Polynomial(body) = [x \in Steps |-> Clamp(Horner(c, x))]
      BY <1>1, <1>2, <1>5, <1>6, <2>4, <2>5, <2>6, <2>8
    <3>2. \A i \in 1 .. m : op.values[i] \in Int
      BY <1>6, <2>2, <2>8 DEF Unit
    <3> DEFINE d == SubSeq(op.values, 1, m)
    <3>3. d \in Seq(Int) /\ Len(d) = m /\ \A i \in 1 .. m : d[i] = op.values[i]
      <4>1. /\ d \in Seq(Int) /\ Len(d) = IF 1 <= m THEN m - 1 + 1 ELSE 0
            /\ \A i \in 1 .. m - 1 + 1 : d[i] = op.values[1 + i - 1]
        <5>1. 1 \in Int /\ m \in Int
          BY <1>3
        <5> QED
          BY <3>2, <5>1, SubSeqProperties
      <4> HIDE DEF d
      <4> QED
        BY <1>3, <4>1
    <3> HIDE DEF d
    <3>4. c = d
      <4>1. d = [i \in 1 .. m |-> d[i]]
        BY <1>3, <3>3
      <4>2. \A i \in 1 .. m : c[i] = d[i]
        BY <2>2, <3>3
      <4> DEFINE g(i) == IF 9 + (i - 1) * 2 + 2 <= b THEN body[9 + (i - 1) * 2 + 1] ELSE Missing
      <4>3. c = [i \in 1 .. m |-> g(i)]
        BY <1>4, Zenon
      <4> HIDE DEF g
      <4>4. c = [i \in 1 .. m |-> c[i]]
        BY <4>3
      <4> QED
        BY <4>1, <4>2, <4>4
    <3>5. ASSUME NEW x \in Steps
          PROVE  Clamp(Horner(c, x)) = Image(op, x) /\ Image(op, x) \in Steps
      <4>1. x \in Int
        BY DEF Steps
      <4>2. Horner(c, x) = SumOfTerms(d, x) /\ Horner(c, x) \in Int
        BY <3>3, <3>4, <4>1, HornerIsSum
      <4>3. Image(op, x) = Clamp(SumOfTerms(d, x))
        BY <1>3, Zenon DEF Image, d
      <4> QED
        BY <4>2, <4>3, ClampInSteps
    <3> QED
      BY <3>1, <3>5
  <2> QED
    BY <2>7, <2>8
<1>8. CASE ~(b >= 9 + m * 2)
  <2>1. ~Usable(op)
    BY <1>6, <1>8
  <2>2. c[m] = Missing /\ m \in DOMAIN c
    <3>1. m \in 1 .. m /\ ~(9 + (m - 1) * 2 + 2 <= b)
      BY <1>1, <1>3, <1>8
    <3> HIDE DEF b
    <3> QED
      BY <1>4, <3>1
  <2>3. ~AllRead(c)
    BY <2>2 DEF AllRead
  <2> QED
    BY <1>5, <2>1, <2>3
<1> QED
  BY <1>7, <1>8

\* The table read is the one written, and is skipped when it is not sound.
LEMMA TableRead ==
  ASSUME NEW op, op.id = MAP_TABLE, IsOp(op), Len(op.body) >= 9
  PROVE  /\ ~Usable(op) => Table(op.body) = Missing
         /\ Usable(op) => /\ Table(op.body) = [x \in Steps |-> Image(op, x)]
                         /\ \A x \in Steps : Image(op, x) \in Steps
<1> DEFINE body == op.body
           m == Fields(body, 8, 1, U32)[1]
           entry == Fields(body, 9, m, U32)
           b == Len(body)
           n == Len(op.values)
<1>0. MAP_TABLE # MAP_POLYNOMIAL /\ op.id # MAP_POLYNOMIAL
  BY LimitsAssumption
<1>1. /\ b \in Nat /\ n \in Nat /\ b <= 9 + n
      /\ op.announced \in Nat /\ body[9] = op.announced
      /\ \A i \in 1 .. n : 9 + i <= b => body[9 + i] = op.values[i]
      /\ op.values \in Seq(Int)
  <2>1. IsMapping(op)
    BY DEF IsOp
  <2>2. op.values \in Seq(Int)
    BY <2>1 DEF IsMapping
  <2>3. /\ b \in Nat /\ n \in Nat /\ b <= 9 + 1 * n
        /\ op.announced \in Nat /\ body[9] = op.announced
        /\ \A i \in 1 .. n : 9 + 1 * i <= b => body[9 + 1 * (i - 1) + 1] = op.values[i]
    BY <1>0, <2>1, BodyOfMapping DEF IsOp
  <2> HIDE DEF b, n, body
  <2>4. \A i \in 1 .. n : 9 + 1 * i = 9 + i /\ 9 + 1 * (i - 1) + 1 = 9 + i
    OBVIOUS
  <2> QED
    BY <2>2, <2>3, <2>4
<1>2. m = op.announced /\ m # Missing /\ b >= 9 /\ m \in Nat /\ Needed(op) = m
  <2>1. b >= 9
    OBVIOUS
  <2>2. m = body[9]
    BY <1>1, <2>1 DEF Fields, Take, U32
  <2>3. Missing \notin Nat
    BY ListsAssumption DEF Unit
  <2> HIDE DEF m
  <2> QED
    BY <1>0, <1>1, <2>1, <2>2, <2>3 DEF Needed
<1>3. Table(body) =
        IF m = Missing \/ m \notin 1 .. TABLE_MAX \/ ~AllRead(entry)
        THEN Missing ELSE [x \in Steps |-> Clamp(entry[IF x < m THEN x + 1 ELSE m])]
  BY Zenon DEF Table
<1>4. entry = [i \in 1 .. m |-> IF 9 + (i - 1) * 1 + 1 <= b THEN body[9 + (i - 1) * 1 + 1] ELSE Missing]
  BY Zenon DEF Fields, Take, U32
<1>5. Usable(op) <=> m \in 1 .. TABLE_MAX /\ m <= n /\ b >= 9 + m * 1
  BY <1>0, <1>2 DEF Usable
<1> HIDE DEF entry, m, b, n, body
<1>6. CASE b >= 9 + m
  <2>1. m <= n
    BY <1>1, <1>2, <1>6
  <2>2. ASSUME NEW i \in 1 .. m PROVE entry[i] = op.values[i] /\ op.values[i] \in Int
    <3>1. i \in 1 .. n /\ 9 + i <= b /\ 9 + (i - 1) * 1 + 1 = 9 + i
      BY <1>1, <1>2, <1>6, <2>1
    <3>2. op.values[i] \in Int
      BY <1>1, <3>1, ElementOfSeq DEF n
    <3> QED
      BY <1>1, <1>4, <3>1, <3>2
  <2>3. DOMAIN entry = 1 .. m
    BY <1>4
  <2>4. AllRead(entry)
    BY <2>2, <2>3, ListsAssumption DEF AllRead, Unit
  <2>5. ~Usable(op) => Table(body) = Missing
    BY <1>2, <1>3, <1>5, <1>6, <2>1
  <2>6. ASSUME Usable(op)
        PROVE  /\ Table(body) = [x \in Steps |-> Image(op, x)]
               /\ \A x \in Steps : Image(op, x) \in Steps
    <3>1. m \in 1 .. TABLE_MAX
      BY <1>5, <2>6
    <3>2. Table(body) = [x \in Steps |-> Clamp(entry[IF x < m THEN x + 1 ELSE m])]
      BY <1>2, <1>3, <2>4, <3>1
    <3>3. ASSUME NEW x \in Steps
          PROVE  /\ Clamp(entry[IF x < m THEN x + 1 ELSE m]) = Image(op, x)
                 /\ Image(op, x) \in Steps
      <4> DEFINE i == IF x < m THEN x + 1 ELSE m
      <4>1. i \in 1 .. m
        BY <1>2, <3>1, LimitsAssumption DEF Steps
      <4>2. Image(op, x) = Clamp(op.values[i])
        BY <1>0, <1>2, Zenon DEF Image
      <4> HIDE DEF i
      <4>3. entry[i] = op.values[i] /\ op.values[i] \in Int
        BY <2>2, <4>1
      <4> QED
        BY <4>2, <4>3, ClampInSteps DEF i
    <3> QED
      BY <3>2, <3>3
  <2> QED
    BY <2>5, <2>6 DEF body
<1>7. CASE ~(b >= 9 + m)
  <2>1. ~Usable(op)
    BY <1>1, <1>2, <1>5, <1>7
  <2>2. Table(body) = Missing
    <3>1. SUFFICES ASSUME m \in 1 .. TABLE_MAX PROVE ~AllRead(entry)
      BY <1>3
    <3>2. m \in 1 .. m /\ ~(9 + (m - 1) * 1 + 1 <= b)
      BY <1>1, <1>2, <1>7, <3>1
    <3>3. entry[m] = Missing /\ m \in DOMAIN entry
      BY <1>4, <3>2
    <3> QED
      BY <3>3 DEF AllRead
  <2> QED
    BY <2>1, <2>2 DEF body
<1> QED
  BY <1>6, <1>7

\* An opcode is skipped exactly when it maps no plane; otherwise the planes and
\* the mapping read are those of the reference.
LEMMA MappingRead ==
  ASSUME NEW op, IsOp(op)
  PROVE  LET map == Mapping(op.id, op.body)
             planes == {p \in 0 .. PLANES_MAX - 1 : Maps(op, p)}
         IN  /\ map = Missing => planes = {}
             /\ map # Missing => /\ planes # {} /\ WholeImage(op.body) = planes
                                 /\ map = [x \in Steps |-> Image(op, x)]
                                 /\ \A x \in Steps : Image(op, x) \in Steps
<1> DEFINE map == Mapping(op.id, op.body)
           covered == {p \in 0 .. PLANES_MAX - 1 : Covers(op, p)}
           planes == {p \in 0 .. PLANES_MAX - 1 : Maps(op, p)}
<1>1. \A p : Maps(op, p) <=> Usable(op) /\ Covers(op, p)
  BY Zenon DEF Maps, Usable, Covers
<1>2. planes = IF Usable(op) THEN covered ELSE {}
  BY <1>1
<1>3. CASE ~(Len(op.body) >= 9) \/ op.id \notin {MAP_POLYNOMIAL, MAP_TABLE}
  BY <1>2, <1>3, ShortBody
<1>4. CASE Len(op.body) >= 9 /\ op.id \in {MAP_POLYNOMIAL, MAP_TABLE}
  <2>1. WholeImage(op.body) = covered
    BY <1>4, WholeImageRead
  <2> DEFINE got == IF op.id = MAP_POLYNOMIAL THEN Polynomial(op.body) ELSE Table(op.body)
  <2>2. map = IF covered = {} THEN Missing ELSE got
    <3>1. MAP_TABLE # MAP_POLYNOMIAL
      BY LimitsAssumption
    <3>2. map = IF WholeImage(op.body) = {} THEN Missing
                ELSE CASE op.id = MAP_POLYNOMIAL -> Polynomial(op.body)
                       [] op.id = MAP_TABLE -> Table(op.body)
                       [] OTHER -> Missing
      BY DEF Mapping
    <3> HIDE DEF map, covered
    <3> QED
      BY <1>4, <2>1, <3>1, <3>2
  <2>3. /\ ~Usable(op) => got = Missing
        /\ Usable(op) => /\ got = [x \in Steps |-> Image(op, x)]
                        /\ \A x \in Steps : Image(op, x) \in Steps
    BY <1>4, PolynomialRead, TableRead
  <2>4. ASSUME Usable(op) PROVE got # Missing
    <3>1. got \in [Steps -> Steps]
      BY <2>3, <2>4
    <3> QED
      BY <3>1, ListsAssumption
  <2> HIDE DEF map, covered, planes, got
  <2>5. /\ map = Missing => planes = {}
        /\ map # Missing => /\ planes # {} /\ WholeImage(op.body) = planes
                            /\ map = [x \in Steps |-> Image(op, x)]
                            /\ \A x \in Steps : Image(op, x) \in Steps
    BY <1>2, <2>1, <2>2, <2>3, <2>4, Zenon
  <2> QED
    BY <2>5 DEF map, planes
<1> QED
  BY <1>3, <1>4

\* A value through one opcode more.
LEMMA ThroughUnfolds ==
  ASSUME Intact, NEW n \in 0 .. Len(written.ops), NEW p \in 0 .. PLANES_MAX - 1, NEW x \in Steps
  PROVE  /\ Through(0, p, x) = x
         /\ n < Len(written.ops) =>
              Through(n + 1, p, x) = IF Maps(written.ops[n + 1], p)
                                     THEN Image(written.ops[n + 1], Through(n, p, x))
                                     ELSE Through(n, p, x)
<1> DEFINE op(i) == written.ops[i]
           step(f, i) == IF Maps(op(i), p) THEN Image(op(i), f[i - 1]) ELSE f[i - 1]
           Values(f, m) == f = [i \in 0 .. m |-> IF i = 0 THEN x ELSE step(f, i)]
           v(m) == CHOOSE f : Values(f, m)
           last == Len(written.ops)
<1>1. last \in Nat /\ IsOps(written.ops)
  BY ListTypes
<1>2. \A i \in 1 .. last : IsOp(op(i))
  BY <1>1, Zenon DEF IsOps, IsOp
<1>3. \A i \in 1 .. last : \A y \in Steps : Maps(op(i), p) => Image(op(i), y) \in Steps
  <2>1. ASSUME NEW i \in 1 .. last, Maps(op(i), p), NEW y \in Steps
        PROVE  Image(op(i), y) \in Steps
    <3>1. IsOp(op(i))
      BY <1>2
    <3> DEFINE o == op(i)
               planes == {q \in 0 .. PLANES_MAX - 1 : Maps(o, q)}
               map == Mapping(o.id, o.body)
    <3>2. p \in planes
      BY <2>1
    <3>3. /\ map = Missing => planes = {}
          /\ map # Missing => \A z \in Steps : Image(o, z) \in Steps
      BY <3>1, MappingRead, Zenon
    <3> HIDE DEF map, planes
    <3> QED
      BY <3>2, <3>3
  <2> QED
    BY <2>1
<1>4. ASSUME NEW m \in 0 .. last
      PROVE  \E f : Values(f, m)
  <2> DEFINE G == [q \in (1 .. m) \X Steps |->
                     IF Maps(op(q[1]), p) THEN Image(op(q[1]), q[2]) ELSE q[2]]
  <2>1. ASSUME NEW i \in 1 .. m, NEW y \in Steps
        PROVE  /\ G[<<i, y>>] = IF Maps(op(i), p) THEN Image(op(i), y) ELSE y
               /\ G[<<i, y>>] \in Steps
    <3>1. i \in 1 .. last
      BY <1>1
    <3>2. G[<<i, y>>] = IF Maps(op(i), p) THEN Image(op(i), y) ELSE y
      <4> HIDE DEF op
      <4> QED
        OBVIOUS
    <3> HIDE DEF G, op
    <3> QED
      BY <1>3, <3>1, <3>2
  <2> HIDE DEF G, op
  <2>2. m \in Nat /\ StaysIn(Steps, m, G)
    BY <1>1, <2>1 DEF StaysIn
  <2>3. \E f : Recurses(f, Steps, m, x, G)
    BY <2>2, Recursion
  <2>4. PICK f : f \in [0 .. m -> Steps] /\ f[0] = x /\ \A i \in 1 .. m : f[i] = G[<<i, f[i - 1]>>]
    BY <2>3 DEF Recurses
  <2>5. ASSUME NEW i \in 1 .. m PROVE f[i] = step(f, i)
    <3>1. f[i - 1] \in Steps
      BY <2>4
    <3> QED
      BY <2>1, <2>4, <3>1
  <2>6. f = [i \in 0 .. m |-> IF i = 0 THEN x ELSE step(f, i)]
    <3> HIDE DEF step
    <3> QED
      BY <2>2, <2>4, <2>5
  <2> QED
    BY <2>6
<1>5. ASSUME NEW m \in 0 .. last
      PROVE  /\ Through(m, p, x) = v(m)[m] /\ v(m)[0] = x
             /\ \A i \in 1 .. m : v(m)[i] = step(v(m), i)
  <2>1. Through(m, p, x) = v(m)[m]
    BY Zenon DEF Through
  <2>2. Values(v(m), m)
    BY <1>4
  <2> HIDE DEF v
  <2>3. v(m) = [i \in 0 .. m |-> IF i = 0 THEN x ELSE step(v(m), i)]
    BY <2>2
  <2> HIDE DEF step
  <2> DEFINE w == v(m)
             g(i) == step(w, i)
  <2>4. w = [i \in 0 .. m |-> IF i = 0 THEN x ELSE g(i)]
    BY <2>3
  <2> HIDE DEF w, g
  <2>5. m \in Nat
    BY <1>1
  <2>6. w[0] = x /\ \A i \in 1 .. m : w[i] = g(i)
    BY <2>4, <2>5
  <2> QED
    BY <2>1, <2>6 DEF w, g
<1>6. Through(0, p, x) = x
  <2>1. 0 \in 0 .. last
    BY <1>1
  <2> QED
    BY <1>5, <2>1
<1>7. ASSUME n < last
      PROVE  Through(n + 1, p, x) = IF Maps(op(n + 1), p) THEN Image(op(n + 1), Through(n, p, x))
                                     ELSE Through(n, p, x)
  <2>0. n \in Nat /\ n + 1 \in 0 .. last /\ n \in 0 .. last
    BY <1>1, <1>7
  <2> DEFINE a == v(n)
             c == v(n + 1)
             S == {i \in 0 .. n : a[i] = c[i]}
  <2> HIDE DEF v
  <2>1. /\ Through(n, p, x) = a[n] /\ a[0] = x
        /\ \A i \in 1 .. n : a[i] = step(a, i)
    BY <1>5, <2>0
  <2>2. /\ Through(n + 1, p, x) = c[n + 1] /\ c[0] = x
        /\ \A i \in 1 .. n + 1 : c[i] = step(c, i)
    BY <1>5, <2>0
  <2> HIDE DEF a, c, op
  <2>3. 0 \in S /\ \A i \in 1 .. n : i - 1 \in S => i \in S
    BY <2>0, <2>1, <2>2
  <2> HIDE DEF S
  <2>4. n \in S
    <3>1. 0 .. n \subseteq S
      BY <2>0, <2>3, InductionTo
    <3> QED
      BY <2>0, <3>1
  <2>5. a[n] = c[n]
    BY <2>4 DEF S
  <2>6. c[n + 1] = step(c, n + 1) /\ (n + 1) - 1 = n
    <3>1. n + 1 \in 1 .. n + 1 /\ (n + 1) - 1 = n
      BY <2>0
    <3> QED
      BY <2>2, <3>1
  <2> QED
    BY <2>1, <2>2, <2>5, <2>6
<1> QED
  BY <1>6, <1>7

-----------------------------------------------------------------------------
(* What an opcode does to the tables                                       *)

\* The greatest member of a set, when it has one.
LEMMA GreatestIsMax ==
  ASSUME NEW S, NEW m \in S, \A k \in S : k \in Int /\ k <= m
  PROVE  Max(S) = m
<1>1. \A k \in S : m >= k
  OBVIOUS
<1>2. Max(S) \in S /\ \A k \in S : Max(S) >= k
  BY <1>1, Zenon DEF Max
<1> QED
  BY <1>2

\* Planes of a sample have a last one, with any number beside them.
LEMMA LastOfPlanes ==
  ASSUME NEW planes, planes \subseteq 0 .. PLANES_MAX - 1, NEW n \in Int
  PROVE  LET S == planes \cup {n}
         IN  /\ Max(S) \in S /\ Max(S) \in Int
             /\ \A k \in S : k <= Max(S)
<1> DEFINE S == planes \cup {n}
           top == IF n >= PLANES_MAX THEN n ELSE PLANES_MAX
           D == {d \in Nat : top - d \in S}
<1>1. PLANES_MAX \in Nat
  BY LimitsAssumption
<1>2. top \in Int /\ n <= top /\ PLANES_MAX <= top
  BY <1>1
<1> HIDE DEF top
<1>3. \A k \in S : k \in Int /\ k <= top
  BY <1>1, <1>2
<1>4. D \subseteq Nat /\ D # {}
  <2>1. top - n \in D
    BY <1>2
  <2> QED
    BY <2>1
<1>5. PICK d \in D : \A e \in D : d <= e
  <2> HIDE DEF D
  <2> QED
    BY <1>4, LeastNumber
<1> DEFINE m == top - d
<1>6. d \in Nat /\ m \in S /\ m \in Int
  BY <1>2, <1>5
<1>7. ASSUME NEW k \in S PROVE k \in Int /\ k <= m
  <2>1. top - k \in D
    BY <1>2, <1>3
  <2> QED
    BY <1>2, <1>3, <1>5, <1>6, <2>1
<1> HIDE DEF m, S
<1>8. Max(S) = m
  BY <1>6, <1>7, GreatestIsMax
<1> QED
  BY <1>6, <1>7, <1>8 DEF S

\* A value of a plane as the tables t have it: those past the last are linear.
Value(t, p, x) == IF p < Len(t) THEN t[p + 1][x] ELSE x

\* The tables after a mapping: up to the last plane, and through the mapping for
\* the planes mapped.
LEMMA TablesApplied ==
  ASSUME tables \in Seq([Steps -> Steps]),
         NEW planes, planes \subseteq 0 .. PLANES_MAX - 1,
         NEW map \in [Steps -> Steps],
         tables' = Apply(planes, map)
  PROVE  /\ tables' \in Seq([Steps -> Steps])
         /\ Len(tables') = Max(planes \cup {Len(tables) - 1}) + 1
         /\ \A p \in 0 .. PLANES_MAX - 1, x \in Steps :
              /\ Value(tables, p, x) \in Steps
              /\ p \in planes => Value(tables', p, x) = map[Value(tables, p, x)]
              /\ p \notin planes => Value(tables', p, x) = Value(tables, p, x)
<1> DEFINE n == Len(tables)
           last == Max(planes \cup {n - 1})
           table(p) == IF p <= n THEN tables[p] ELSE Identity
           new(p) == IF p - 1 \in planes THEN Composed(map, table(p)) ELSE table(p)
<1>1. n \in Nat /\ \A p \in 1 .. n : tables[p] \in [Steps -> Steps]
  BY ElementOfSeq
<1>2. /\ last \in Int /\ last >= n - 1
      /\ \A k \in planes : k <= last
  <2> HIDE DEF n
  <2>1. n - 1 \in Int
    BY <1>1
  <2>2. last \in Int /\ \A k \in planes \cup {n - 1} : k <= last
    BY <2>1, LastOfPlanes
  <2> HIDE DEF last
  <2> QED
    BY <1>1, <2>2
<1>3. tables' = [p \in 1 .. last + 1 |-> new(p)]
  BY Zenon DEF Apply
<1> HIDE DEF n, last
<1>4. ASSUME NEW p \in Nat, p >= 1
      PROVE  /\ table(p) \in [Steps -> Steps] /\ new(p) \in [Steps -> Steps]
             /\ \A x \in Steps : new(p)[x] = IF p - 1 \in planes THEN map[table(p)[x]] ELSE table(p)[x]
  <2>1. table(p) \in [Steps -> Steps]
    BY <1>1, <1>4 DEF Identity, n
  <2> HIDE DEF table
  <2> QED
    BY <2>1 DEF Composed
<1>5. ASSUME NEW x \in Steps, NEW p \in Nat
      PROVE  table(p + 1)[x] = Value(tables, p, x) /\ Value(tables, p, x) \in Steps
  <2>1. p + 1 <= n <=> p < n
    BY <1>1
  <2>2. p + 1 >= 1 /\ p + 1 \in Nat
    OBVIOUS
  <2>3. table(p + 1) \in [Steps -> Steps]
    BY <1>4, <2>2
  <2>4. table(p + 1)[x] = Value(tables, p, x)
    BY <2>1 DEF Value, Identity, n
  <2> HIDE DEF table
  <2> QED
    BY <2>3, <2>4
<1> HIDE DEF table, new
<1>6. last + 1 \in Nat /\ \A p \in 1 .. last + 1 : new(p) \in [Steps -> Steps]
  BY <1>1, <1>2, <1>4
<1>7. tables' \in Seq([Steps -> Steps]) /\ Len(tables') = last + 1
  BY <1>3, <1>6
<1>8. ASSUME NEW p \in 0 .. PLANES_MAX - 1, NEW x \in Steps
      PROVE  /\ Value(tables, p, x) \in Steps
             /\ Value(tables', p, x) = IF p \in planes THEN map[Value(tables, p, x)] ELSE Value(tables, p, x)
  <2>1. p \in Nat /\ (p + 1) - 1 = p /\ p + 1 >= 1 /\ p + 1 \in Nat
    BY LimitsAssumption
  <2>2. Value(tables, p, x) \in Steps /\ table(p + 1)[x] = Value(tables, p, x)
    BY <1>5, <2>1
  <2>3. Value(tables', p, x) = IF p < Len(tables') THEN tables'[p + 1][x] ELSE x
    BY DEF Value
  <2>4. CASE p < last + 1
    <3>1. p + 1 \in 1 .. last + 1
      BY <1>2, <2>1, <2>4
    <3>2. tables'[p + 1] = new(p + 1)
      BY <1>3, <3>1
    <3>3. new(p + 1)[x] = IF p \in planes THEN map[table(p + 1)[x]] ELSE table(p + 1)[x]
      BY <1>4, <2>1
    <3> QED
      BY <1>7, <2>2, <2>3, <2>4, <3>2, <3>3
  <2>5. CASE ~(p < last + 1)
    <3>1. p \notin planes /\ ~(p < n)
      BY <1>1, <1>2, <2>1, <2>5
    <3>2. Value(tables, p, x) = x
      BY <3>1 DEF Value, n
    <3> QED
      BY <1>7, <2>3, <2>5, <3>1, <3>2
  <2> QED
    BY <2>4, <2>5
<1> QED
  BY <1>7, <1>8 DEF last, n

-----------------------------------------------------------------------------
(* The tables of a list                                                    *)

\* The tables so far, with what was found.
TablesInv ==
  /\ tables \in Seq([Steps -> Steps])
  /\ ComposedInOrder
  /\ TablesEndWithPlanes

\* The planes mapped by the first opcodes found, n of them.
Mapped(n) == {p \in 0 .. PLANES_MAX - 1 : \E i \in 1 .. n : Maps(written.ops[i], p)}

\* There are no tables at first.
LEMMA InitTables ==
  ASSUME CorrectionsInit
  PROVE  TablesInv
<1>1. found = <<>> /\ tables = <<>> /\ ReadingInv
  BY InitReading DEF CorrectionsInit, Init
<1>2. Intact /\ Len(written.ops) \in Nat
  BY <1>1, ListTypes DEF ReadingInv
<1>3. ComposedInOrder
  <2>1. ASSUME NEW p \in 0 .. PLANES_MAX - 1, NEW x \in Steps
        PROVE  Through(0, p, x) = x /\ ~(p < 0)
    <3>1. 0 \in 0 .. Len(written.ops)
      BY <1>2
    <3> QED
      BY <1>2, <3>1, ThroughUnfolds, LimitsAssumption
  <2>2. Len(found) = 0 /\ Len(tables) = 0
    BY <1>1
  <2> QED
    BY <2>1, <2>2 DEF ComposedInOrder
<1>4. TablesEndWithPlanes
  <2>1. {p \in 0 .. PLANES_MAX - 1 : \E i \in DOMAIN found : Maps(written.ops[i], p)} = {}
    BY <1>1
  <2>2. Max({-1}) = -1
    BY GreatestIsMax
  <2>3. {-1} \cup {} = {-1} /\ Len(tables) = 0 /\ -1 + 1 = 0
    BY <1>1
  <2> QED
    BY <2>1, <2>2, <2>3 DEF TablesEndWithPlanes
<1> QED
  BY <1>1, <1>3, <1>4 DEF TablesInv

\* An opcode found takes the values of the planes it maps through it, after the
\* opcodes before it.
LEMMA OpcodeKeepsTables ==
  ASSUME ReadingInv, TablesInv, Opcode
  PROVE  TablesInv'
<1> DEFINE n == Len(found)
           op == written.ops[n + 1]
           map == Mapping(op.id, op.body)
           planes == {p \in 0 .. PLANES_MAX - 1 : Maps(op, p)}
           header == Fields(list, at, 4, U32)
<1>1. /\ Intact /\ tables \in Seq([Steps -> Steps]) /\ written' = written
      /\ n \in 0 .. Len(written.ops) /\ DOMAIN found = 1 .. n
      /\ found \in Seq([id : Nat, body : Seq(Unit)])
  <2>1. /\ Intact /\ tables \in Seq([Steps -> Steps]) /\ written' = written
        /\ n \in 0 .. Len(written.ops)
        /\ found = [i \in 1 .. n |-> [id |-> written.ops[i].id, body |-> written.ops[i].body]]
    BY DEF ReadingInv, TablesInv, Opcode, FoundAsWritten
  <2>2. IsOps(written.ops) /\ Len(written.ops) \in Nat
    BY <2>1, ListTypes
  <2>3. ASSUME NEW i \in 1 .. n
        PROVE  [id |-> written.ops[i].id, body |-> written.ops[i].body]
                 \in [id : Nat, body : Seq(Unit)]
    <3> HIDE DEF n
    <3>1. i \in 1 .. Len(written.ops)
      BY <2>1, <2>2
    <3> QED
      BY <2>2, <3>1 DEF IsOps
  <2> HIDE DEF n
  <2>4. n \in Nat
    BY <2>1, <2>2
  <2> QED
    BY <2>1, <2>3, <2>4
<1>2. CASE ~(AllRead(header) /\ Take(list, at + 4, header[4]))
  <2>1. found' = found /\ tables' = tables
    BY <1>2, Zenon DEF Opcode, Cut
  <2>2. ComposedInOrder'
    <3>1. SUFFICES ASSUME NEW p \in 0 .. PLANES_MAX - 1, NEW x \in Steps
                   PROVE  Value(tables', p, x) = Through(Len(found), p, x)'
      BY DEF ComposedInOrder, Value
    <3>2. Through(Len(found), p, x)' = Through(Len(found), p, x)
      BY <1>1, <2>1, Zenon DEF Through
    <3>3. Value(tables', p, x) = Value(tables, p, x)
      BY <2>1, Zenon DEF Value
    <3>4. Value(tables, p, x) = Through(Len(found), p, x)
      BY DEF TablesInv, ComposedInOrder, Value
    <3> QED
      BY <3>2, <3>3, <3>4
  <2> QED
    BY <1>1, <2>1, <2>2 DEF TablesInv, TablesEndWithPlanes
<1>3. CASE AllRead(header) /\ Take(list, at + 4, header[4])
  <2>1. n < Len(written.ops) /\ Found(op.id, op.body)
    BY <1>3, OpcodeRead, Zenon
  <2>2. /\ found' = Append(found, [id |-> op.id, body |-> op.body])
        /\ tables' = IF map = Missing THEN tables ELSE Apply(WholeImage(op.body), map)
    BY <2>1 DEF Found
  <2>3. Len(found') = n + 1 /\ DOMAIN found' = 1 .. n + 1
    BY <1>1, <2>2
  <2>4. IsOp(op) /\ Len(written.ops) \in Nat /\ n + 1 \in 1 .. Len(written.ops)
    <3>1. IsOps(written.ops) /\ Len(written.ops) \in Nat
      BY <1>1, ListTypes
    <3> HIDE DEF n
    <3>2. n + 1 \in 1 .. Len(written.ops)
      BY <1>1, <2>1, <3>1
    <3> QED
      BY <3>1, <3>2 DEF IsOps, IsOp
  <2>5. /\ map = Missing => planes = {}
        /\ map # Missing => /\ planes # {} /\ WholeImage(op.body) = planes
                            /\ map = [x \in Steps |-> Image(op, x)]
                            /\ \A x \in Steps : Image(op, x) \in Steps
    BY <2>4, MappingRead, Zenon
  <2> HIDE DEF op, map
  <2>6. /\ tables' \in Seq([Steps -> Steps])
        /\ Len(tables') = Max(planes \cup {Len(tables) - 1}) + 1
        /\ \A p \in 0 .. PLANES_MAX - 1, x \in Steps :
             Value(tables', p, x) = IF p \in planes THEN Image(op, Value(tables, p, x)) ELSE Value(tables, p, x)
    <3>1. CASE map = Missing
      <4>1. planes = {} /\ tables' = tables
        BY <2>2, <2>5, <3>1
      <4>2. Max({Len(tables) - 1}) + 1 = Len(tables)
        <5> DEFINE k == Len(tables)
        <5>1. k \in Nat
          BY <1>1
        <5> HIDE DEF k
        <5>2. Max({k - 1}) = k - 1
          BY <5>1, GreatestIsMax
        <5>3. Max({k - 1}) + 1 = k
          BY <5>1, <5>2
        <5> QED
          BY <5>3 DEF k
      <4>3. planes \cup {Len(tables) - 1} = {Len(tables) - 1}
        BY <4>1
      <4>4. \A p, x : Value(tables', p, x) = Value(tables, p, x)
        BY <4>1 DEF Value
      <4> HIDE DEF planes
      <4> QED
        BY <1>1, <4>1, <4>2, <4>3, <4>4
    <3>2. CASE map # Missing
      <4>1. /\ map \in [Steps -> Steps] /\ \A x \in Steps : map[x] = Image(op, x)
            /\ tables' = Apply(planes, map)
        BY <2>2, <2>5, <3>2
      <4>2. planes \subseteq 0 .. PLANES_MAX - 1
        OBVIOUS
      <4> HIDE DEF planes
      <4>3. /\ tables' \in Seq([Steps -> Steps])
            /\ Len(tables') = Max(planes \cup {Len(tables) - 1}) + 1
            /\ \A p \in 0 .. PLANES_MAX - 1, x \in Steps :
                 /\ Value(tables, p, x) \in Steps
                 /\ p \in planes => Value(tables', p, x) = map[Value(tables, p, x)]
                 /\ p \notin planes => Value(tables', p, x) = Value(tables, p, x)
        <5>1. PICK P, m : P = planes /\ m = map
          OBVIOUS
        <5>2. /\ tables \in Seq([Steps -> Steps]) /\ P \subseteq 0 .. PLANES_MAX - 1
              /\ m \in [Steps -> Steps] /\ tables' = Apply(P, m)
          BY <1>1, <4>1, <4>2, <5>1
        <5>3. /\ tables' \in Seq([Steps -> Steps])
              /\ Len(tables') = Max(P \cup {Len(tables) - 1}) + 1
              /\ \A p \in 0 .. PLANES_MAX - 1, x \in Steps :
                   /\ Value(tables, p, x) \in Steps
                   /\ p \in P => Value(tables', p, x) = m[Value(tables, p, x)]
                   /\ p \notin P => Value(tables', p, x) = Value(tables, p, x)
          BY <5>2, TablesApplied
        <5> QED
          BY <5>1, <5>3
      <4> QED
        BY <4>1, <4>3
    <3> QED
      BY <3>1, <3>2
  <2>7. ComposedInOrder'
    <3>1. SUFFICES ASSUME NEW p \in 0 .. PLANES_MAX - 1, NEW x \in Steps
                   PROVE  Value(tables', p, x) = Through(Len(found), p, x)'
      BY <1>1 DEF ComposedInOrder, Value
    <3>2. Through(Len(found), p, x)' = Through(n + 1, p, x)
      BY <1>1, <2>3, Zenon DEF Through
    <3>3. Value(tables, p, x) = Through(n, p, x)
      BY DEF TablesInv, ComposedInOrder, Value
    <3>4. Through(n + 1, p, x) = IF Maps(op, p) THEN Image(op, Through(n, p, x))
                                 ELSE Through(n, p, x)
      BY <1>1, <2>1, ThroughUnfolds DEF op
    <3>5. p \in planes <=> Maps(op, p)
      OBVIOUS
    <3> HIDE DEF planes
    <3> QED
      BY <2>6, <3>2, <3>3, <3>4, <3>5
  <2>8. TablesEndWithPlanes'
    <3> DEFINE before == {-1} \cup Mapped(n)
               after == {-1} \cup Mapped(n + 1)
               k == Len(tables)
    <3>1. k = Max(before) + 1 /\ k \in Nat
      BY <1>1 DEF TablesInv, TablesEndWithPlanes, Mapped
    <3>2. after = before \cup planes
      <4> HIDE DEF n
      <4>1. n \in Nat
        BY <1>1, <2>4
      <4> QED
        BY <4>1 DEF Mapped, op
    <3>3. TablesEndWithPlanes' <=> Len(tables') = Max(after) + 1
      BY <1>1, <2>3 DEF TablesEndWithPlanes, Mapped
    <3>4. /\ Max(before) \in before /\ Max(before) \in Int
          /\ \A j \in before : j <= Max(before)
      <4>1. Mapped(n) \subseteq 0 .. PLANES_MAX - 1 /\ -1 \in Int
        BY DEF Mapped
      <4>2. Mapped(n) \cup {-1} = before
        OBVIOUS
      <4> QED
        BY <4>1, <4>2, LastOfPlanes
    <3>5. k - 1 = Max(before)
      BY <3>1, <3>4
    <3> DEFINE m == Max(planes \cup {k - 1})
    <3>6. /\ m \in planes \cup {k - 1} /\ m \in Int
          /\ \A j \in planes \cup {k - 1} : j <= m
      <4>1. planes \subseteq 0 .. PLANES_MAX - 1 /\ k - 1 \in Int
        BY <3>1
      <4> QED
        BY <4>1, LastOfPlanes
    <3>7. Len(tables') = m + 1
      BY <2>6
    <3>8. before \subseteq Int
      BY DEF Mapped
    <3> HIDE DEF m, before, after, k, planes
    <3>9. m \in after /\ \A j \in after : j \in Int /\ j <= m
      <4>1. k - 1 <= m
        BY <3>6
      <4>2. ASSUME NEW j \in before PROVE j \in Int /\ j <= m
        BY <3>4, <3>5, <3>6, <3>8, <4>1
      <4>3. \A j \in planes : j \in Int /\ j <= m
        BY <3>6 DEF planes
      <4> QED
        BY <3>2, <3>4, <3>5, <3>6, <4>2, <4>3
    <3>10. Max(after) = m
      BY <3>9, GreatestIsMax
    <3> QED
      BY <3>3, <3>7, <3>10
  <2> QED
    BY <2>6, <2>7, <2>8 DEF TablesInv
<1> QED
  BY <1>2, <1>3

\* The steps of the corrections, and those of the loop that find nothing, leave
\* the tables alone.
LEMMA NextKeepsTables ==
  ASSUME ReadingInv, TablesInv, [CorrectionsNext]_<<vars, kept>>
  PROVE  TablesInv'
<1>1. CASE Opcode
  BY <1>1, OpcodeKeepsTables
<1>2. CASE UNCHANGED <<written, found, tables>>
  <2>1. ComposedInOrder'
    <3>1. SUFFICES ASSUME NEW p \in 0 .. PLANES_MAX - 1, NEW x \in Steps
                   PROVE  Value(tables', p, x) = Through(Len(found), p, x)'
      BY DEF ComposedInOrder, Value
    <3>2. Through(Len(found), p, x)' = Through(Len(found), p, x)
      BY <1>2, Zenon DEF Through
    <3>3. Value(tables', p, x) = Value(tables, p, x)
      BY <1>2, Zenon DEF Value
    <3>4. Value(tables, p, x) = Through(Len(found), p, x)
      BY DEF TablesInv, ComposedInOrder, Value
    <3> QED
      BY <3>2, <3>3, <3>4
  <2> QED
    BY <1>2, <2>1 DEF TablesInv, TablesEndWithPlanes
<1>3. Count \/ Exhausted \/ UNCHANGED vars => UNCHANGED <<written, found, tables>>
  BY DEF Count, Exhausted, vars
<1> QED
  BY <1>1, <1>2, <1>3, StepsOfReading, Zenon DEF Next

\* The tables are right all along.
THEOREM TablesInvariant == CorrectionsSpec => []TablesInv
<1>1. CorrectionsInit => TablesInv
  BY InitTables
<1>2. ReadingInv /\ TablesInv /\ [CorrectionsNext]_<<vars, kept>> => TablesInv'
  BY NextKeepsTables
<1> QED
  BY <1>1, <1>2, ReadingInvariant, PTL DEF CorrectionsSpec

\* linearization() composes, for each plane and in the list's order, the mappings
\* of the whole image that are complete and within their limits, whatever list
\* it is given.
THEOREM MappingsComposeInOrder == CorrectionsSpec => []ComposedInOrder
<1>1. TablesInv => ComposedInOrder
  BY DEF TablesInv
<1> QED
  BY <1>1, TablesInvariant, PTL

\* The tables it returns are those of the planes up to the last one mapped.
THEOREM TablesOfMappedPlanes == CorrectionsSpec => []TablesEndWithPlanes
<1>1. TablesInv => TablesEndWithPlanes
  BY DEF TablesInv
<1> QED
  BY <1>1, TablesInvariant, PTL
=============================================================================
