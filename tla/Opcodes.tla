------------------------------ MODULE Opcodes ------------------------------
(***************************************************************************)
(* The opcode lists of a DNG, helper/src/opcodes.rs: each(), which finds   *)
(* the opcodes of a list, and linearization(), which turns the mappings of *)
(* the whole image into a table per plane.  The two loops read a list in   *)
(* the same way and are one loop here.                                     *)
(*                                                                         *)
(* Sample values are counted in steps, ONE of them for 1.0, and a table    *)
(* has a point at every step.  The entries of a MapTable (u16) are one     *)
(* unit each.                                                              *)
(***************************************************************************)
EXTENDS OpcodeReader, FiniteSetsExt

CONSTANTS
  U32_MAX,
  MAP_TABLE, MAP_POLYNOMIAL,
  DEGREE_MAX, PLANES_MAX,
  TABLE_MAX,     \* entries of a MapTable (65536)
  WIDTH, HEIGHT, \* of the image
  ONE,
  Lists          \* bound: the lists read; see Written

VARIABLES
  written, \* what the list was written from (see Encoding), never read
  list,    \* its units
  at,      \* the reader over the list
  left,    \* opcodes announced and not yet read
  pc,      \* "count", "opcode" or "done"
  found,   \* each(): the opcodes found
  tables   \* linearization()

vars == <<written, list, at, left, pc, found, tables>>

Steps == 0 .. ONE
Identity == [x \in Steps |-> x]

-----------------------------------------------------------------------------
(* One opcode                                                              *)

\* Mutant: the planes run past those a sample may have.
PlanesUnclipped(first, n) == first .. first + n - 1

\* As many planes of those a sample may have.
PlanesFrom(first, n) == {p \in first .. first + n - 1 : p < PLANES_MAX}

\* whole_image(): the planes mapped when the area is the whole image, every row
\* and column of it; none otherwise.
WholeImage(body) ==
  LET field == Fields(body, 0, 8, U32)
      v == [i \in 1 .. 8 |-> IF field[i] = Missing THEN U32_MAX ELSE field[i]]
  IN  IF /\ v[1] = 0 /\ v[2] = 0 /\ v[3] >= HEIGHT /\ v[4] >= WIDTH
         /\ v[7] = 1 /\ v[8] = 1
         /\ v[5] < PLANES_MAX /\ v[6] >= 1
      THEN PlanesFrom(v[5], v[6])
      ELSE {}

Clamp(v) == IF v < 0 THEN 0 ELSE IF v > ONE THEN ONE ELSE v

\* The polynomial of these coefficients, from the highest degree down.
Horner(c, x) ==
  LET sum[i \in 0 .. Len(c)] ==
        IF i = 0 THEN 0 ELSE sum[i - 1] * x + c[Len(c) + 1 - i]
  IN  sum[Len(c)]

\* What an opcode maps values to, Missing when it is skipped.
Polynomial(body) ==
  LET degree == Fields(body, 8, 1, U32)[1]
      c == Fields(body, 9, degree + 1, F64)
  IN  IF \/ degree = Missing
         \/ degree > DEGREE_MAX
         \/ ~AllRead(c)
         \/ \E i \in DOMAIN c : c[i] = NotFinite
      THEN Missing
      ELSE [x \in Steps |-> Clamp(Horner(c, x))]

\* Past the end of a table, its last entry.
Table(body) ==
  LET n == Fields(body, 8, 1, U32)[1]
      entry == Fields(body, 9, n, U32)
  IN  IF n = Missing \/ n \notin 1 .. TABLE_MAX \/ ~AllRead(entry)
      THEN Missing
      ELSE [x \in Steps |-> Clamp(entry[IF x < n THEN x + 1 ELSE n])]

Mapping(id, body) ==
  IF WholeImage(body) = {} THEN Missing
  ELSE CASE id = MAP_POLYNOMIAL -> Polynomial(body)
         [] id = MAP_TABLE -> Table(body)
         [] OTHER -> Missing

\* Mutant: every mapping starts from the samples as stored.
ComposedAlone(map, table) == map

Composed(map, table) == [x \in Steps |-> map[table[x]]]

\* apply(): the tables of these planes, identity where there is none yet,
\* through the mapping.
Apply(planes, map) ==
  LET last == Max(planes \cup {Len(tables) - 1})
      table(p) == IF p <= Len(tables) THEN tables[p] ELSE Identity
  IN  [p \in 1 .. last + 1 |->
         IF p - 1 \in planes THEN Composed(map, table(p)) ELSE table(p)]

-----------------------------------------------------------------------------
(* The list                                                                *)

Init ==
  /\ \E l \in Lists : written = l.written /\ list = l.units
  /\ at = 0 /\ left = 0 /\ pc = "count" /\ found = <<>> /\ tables = <<>>

\* What is kept of an opcode: by each(), and by linearization().
Found(id, body) ==
  LET map == Mapping(id, body)
  IN  /\ found' = Append(found, [id |-> id, body |-> body])
      /\ tables' = IF map = Missing THEN tables ELSE Apply(WholeImage(body), map)

Count ==
  /\ pc = "count"
  /\ LET n == Fields(list, 0, 1, U32)[1]
     IN  IF n = Missing
         THEN pc' = "done" /\ UNCHANGED <<at, left>>
         ELSE pc' = "opcode" /\ left' = n /\ at' = U32
  /\ UNCHANGED <<written, list, found, tables>>

\* Mutant: an opcode cut short is passed over.
CutPassedOver ==
  /\ left' = left - 1
  /\ UNCHANGED <<pc, at, found, tables>>

\* The loop ends at the first opcode that is cut.
Cut ==
  /\ pc' = "done"
  /\ UNCHANGED <<at, left, found, tables>>

\* An opcode: identifier, version, flags, size, and a body of that size.
Opcode ==
  /\ pc = "opcode" /\ left > 0
  /\ LET header == Fields(list, at, 4, U32)
         body == SubSeq(list, at + 5, at + 4 + header[4])
     IN  IF AllRead(header) /\ Take(list, at + 4, header[4])
         THEN /\ Found(header[1], body)
              /\ at' = at + 4 + header[4]
              /\ left' = left - 1
              /\ UNCHANGED pc
         ELSE Cut
  /\ UNCHANGED <<written, list>>

Exhausted ==
  /\ pc = "opcode" /\ left = 0
  /\ pc' = "done"
  /\ UNCHANGED <<written, list, at, left, found, tables>>

\* Module Corrections goes on from here.
Next == Count \/ Opcode \/ Exhausted

-----------------------------------------------------------------------------
(* How a list is written: the reference the reading is compared with       *)

\* An opcode of a file: its area, the number it announces of values, those it
\* has, and its body, which may be cut.
Units(id, area, announced, values) ==
  area \o <<announced>> \o (IF id = MAP_POLYNOMIAL THEN Wide(values) ELSE values)

Encoded(op) == <<op.id, 1, 0, Len(op.body)>> \o op.body

\* The units of the first n opcodes, after the count.
Encoding(ops, n) ==
  LET part[i \in 0 .. n] ==
        IF i = 0 THEN <<>> ELSE part[i - 1] \o Encoded(ops[i])
  IN  part[n]

Unit == Int \cup {NotFinite}

\* A mapping announces a number of values, any number, has those it was written
\* with, and is cut anywhere; the entries of a table are integers.
IsMapping(op) ==
  LET units == Units(op.id, op.area, op.announced, op.values)
  IN  /\ op.area \in Seq(Nat) /\ Len(op.area) = 8 /\ op.announced \in Nat
      /\ op.values \in Seq(IF op.id = MAP_TABLE THEN Int ELSE Unit)
      /\ Len(op.body) \in 0 .. Len(units) /\ op.body = SubSeq(units, 1, Len(op.body))

\* Opcodes a list may be written from: identifiers are numbers, bodies are units.
IsOps(ops) ==
  /\ Len(ops) \in Nat /\ DOMAIN ops = 1 .. Len(ops)
  /\ \A i \in 1 .. Len(ops) :
       /\ ops[i].id \in Nat /\ ops[i].body \in Seq(Unit)
       /\ ops[i].id \in {MAP_POLYNOMIAL, MAP_TABLE} => IsMapping(ops[i])

\* The list announces a number of opcodes, any number, has those it was written
\* from, and is cut anywhere.
Written(l) ==
  LET all == <<l.written.count>> \o Encoding(l.written.ops, Len(l.written.ops))
  IN  /\ l.written.count \in Nat
      /\ IsOps(l.written.ops)
      /\ Len(l.units) \in 0 .. Len(all) /\ l.units = SubSeq(all, 1, Len(l.units))

ASSUME ListsAssumption ==
  /\ Missing \notin Unit \cup [Steps -> Steps]
  /\ \A l \in Lists : Written(l)

ASSUME LimitsAssumption ==
  /\ {ONE, PLANES_MAX, DEGREE_MAX, TABLE_MAX, WIDTH, HEIGHT} \subseteq Nat
  /\ MAP_TABLE # MAP_POLYNOMIAL

\* Values a well-formed opcode must have.
Needed(op) == IF op.id = MAP_POLYNOMIAL THEN op.announced + 1 ELSE op.announced

\* The opcode maps plane p, and is complete and within its limits.
Maps(op, p) ==
  /\ op.id \in {MAP_POLYNOMIAL, MAP_TABLE}
  /\ IF op.id = MAP_POLYNOMIAL THEN op.announced <= DEGREE_MAX
     ELSE op.announced \in 1 .. TABLE_MAX
  /\ Needed(op) <= Len(op.values)
  /\ Len(op.body) >= 9 + Needed(op) * (IF op.id = MAP_POLYNOMIAL THEN F64 ELSE 1)
  /\ op.id = MAP_POLYNOMIAL => \A i \in 1 .. Needed(op) : op.values[i] # NotFinite
  /\ op.area[1] = 0 /\ op.area[2] = 0
  /\ op.area[3] >= HEIGHT /\ op.area[4] >= WIDTH
  /\ op.area[7] = 1 /\ op.area[8] = 1
  /\ op.area[5] <= p /\ p < op.area[5] + op.area[6]

\* x to the power n.
Power(x, n) ==
  LET power[i \in 0 .. n] == IF i = 0 THEN 1 ELSE power[i - 1] * x
  IN  power[n]

\* The polynomial of these coefficients, term by term.
SumOfTerms(c, x) ==
  LET sum[i \in 0 .. Len(c)] ==
        IF i = 0 THEN 0 ELSE sum[i - 1] + c[i] * Power(x, i - 1)
  IN  sum[Len(c)]

\* What the opcode makes of a value.
Image(op, x) ==
  IF op.id = MAP_POLYNOMIAL
  THEN Clamp(SumOfTerms(SubSeq(op.values, 1, Needed(op)), x))
  ELSE Clamp(op.values[IF x < op.announced THEN x + 1 ELSE op.announced])

\* A value of plane p through the first n opcodes, in the list's order.
Through(n, p, x) ==
  LET v[i \in 0 .. n] ==
        IF i = 0 THEN x
        ELSE IF Maps(written.ops[i], p) THEN Image(written.ops[i], v[i - 1])
        ELSE v[i - 1]
  IN  v[n]

\* each() ends with the opcodes announced that are wholly in the list, in
\* order, "up to the first one whose size runs past it", with their bodies:
\* wherever the list is cut and whatever it announces.
FindsWhatFits ==
  pc = "done" =>
    LET fit == {n \in 0 .. Len(written.ops) :
                  /\ n <= written.count
                  /\ 1 + Len(Encoding(written.ops, n)) <= Len(list)}
        n == IF list = <<>> THEN 0 ELSE Max(fit)
    IN  found = [i \in 1 .. n |-> [id |-> written.ops[i].id, body |-> written.ops[i].body]]

\* Each table is the composition, in the list's order, of the mappings of the
\* whole image found so far that touch its plane: opcodes that are partial, cut
\* short, too large or not finite change nothing.
ComposedInOrder ==
  \A p \in 0 .. PLANES_MAX - 1, x \in Steps :
    (IF p < Len(tables) THEN tables[p + 1][x] ELSE x) = Through(Len(found), p, x)

\* There are tables up to the last plane mapped and no further: "planes past
\* the list are linear", and none when the samples are.
TablesEndWithPlanes ==
  LET mapped == {p \in 0 .. PLANES_MAX - 1 :
                   \E i \in DOMAIN found : Maps(written.ops[i], p)}
  IN  Len(tables) = Max({-1} \cup mapped) + 1

\* Every pass of the loop consumes units of the list or is the last, so that the
\* count a file announces, up to 2^32 opcodes, cannot keep the helper busy.
EachPassConsumes == [][pc' = "done" \/ at' > at]_vars
=============================================================================
