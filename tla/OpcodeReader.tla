---------------------------- MODULE OpcodeReader ----------------------------
(***************************************************************************)
(* The big-endian reader of helper/src/opcodes.rs, shared by the           *)
(* linearisation and by the lens corrections.  Bytes are seen in units of  *)
(* four: a u32 or an f32 is one unit, an f64 two, of which the first       *)
(* stands for its value.                                                   *)
(***************************************************************************)
EXTENDS Integers, Sequences

CONSTANTS
  NotFinite, \* the value of an f64 or f32 that is infinite or not a number
  Missing    \* what a read past the end returns

U32 == 1
F64 == 2

\* Mutant: the last unit is out of reach.
TakeShort(bytes, at, n) == at + n < Len(bytes)

\* Reader::take: whether there are n units; the reader moves when there are.
Take(bytes, at, n) == at + n <= Len(bytes)

\* n fields of this width, one after the other; where one is missing, those
\* after it are too.
Fields(bytes, at, n, width) ==
  [i \in 1 .. n |->
     LET from == at + (i - 1) * width
     IN  IF Take(bytes, from, width) THEN bytes[from + 1] ELSE Missing]

AllRead(fields) == \A i \in DOMAIN fields : fields[i] # Missing

\* An f64 as it is written.
Wide(values) ==
  [i \in 1 .. 2 * Len(values) |-> IF i % 2 = 1 THEN values[(i + 1) \div 2] ELSE 0]
=============================================================================
