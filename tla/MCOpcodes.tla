----------------------------- MODULE MCOpcodes -----------------------------
(***************************************************************************)
(* Small instances of Opcodes for TLC: lists of at most two opcodes, cut   *)
(* anywhere, that announce fewer or more opcodes than they hold.           *)
(***************************************************************************)
EXTENDS Opcodes

\* The constants of Opcodes the lists are written with.
CONSTANTS Polynomials, Tables, Planes

Area(plane, planes) == <<0, 0, HEIGHT, WIDTH, plane, planes, 1, 1>>

Op(id, area, announced, values, short) ==
  LET units == Units(id, area, announced, values)
  IN  [id |-> id, area |-> area, announced |-> announced, values |-> values,
       body |-> SubSeq(units, 1, Len(units) - short)]

Poly(area, c) == Op(MAP_POLYNOMIAL, area, Len(c) - 1, c, 0)
Map(area, t) == Op(MAP_TABLE, area, Len(t), t, 0)

WholeOps ==
  {Poly(Area(p[1], p[2]), c) : p \in Planes, c \in Polynomials}
    \cup {Map(Area(p[1], p[2]), t) : p \in Planes, t \in Tables}

\* Opcodes to skip: of another kind, of a part of the image, of planes that do
\* not exist, of too high a degree, not finite, or short of what they announce.
SkippedOps ==
  LET c == CHOOSE c \in Polynomials : Len(c) = 2
      t == CHOOSE t \in Tables : Len(t) = 2
  IN  {Op(99, Area(0, 1), 1, c, 0),
       Poly(<<1, 0, HEIGHT, WIDTH, 0, 1, 1, 1>>, c),
       Poly(<<0, 0, HEIGHT - 1, WIDTH, 0, 1, 1, 1>>, c),
       Poly(<<0, 0, HEIGHT, WIDTH, 0, 1, 2, 1>>, c),
       Poly(Area(PLANES_MAX, 1), c), Map(Area(0, 0), t),
       Op(MAP_POLYNOMIAL, Area(0, 1), DEGREE_MAX + 1, <<1, 1, 1>>, 0),
       Poly(Area(0, 1), <<0, NotFinite>>),
       Poly(Area(0, 1), <<0, 1>>),
       Op(MAP_POLYNOMIAL, Area(0, 1), 1, c, 1),
       Op(MAP_POLYNOMIAL, Area(0, 1), 1, c, 2),
       Op(MAP_POLYNOMIAL, Area(0, 1), 1, c, 6),
       Op(MAP_TABLE, Area(0, 1), 3, t, 0),
       Op(MAP_TABLE, Area(0, 1), 0, t, 0),
       Op(MAP_TABLE, Area(0, 1), TABLE_MAX + 1, t, 0)}

Ops == WholeOps \cup SkippedOps

\* The list of these opcodes that announces `count` of them, cut to `length`.
List(ops, count, length) ==
  [written |-> [ops |-> ops, count |-> count],
   units |-> SubSeq(<<count>> \o Encoding(ops, Len(ops)), 1, length)]

All(ops) == 1 + Len(Encoding(ops, Len(ops)))

WholeLists ==
  {List(<<a>>, n, All(<<a>>)) : a \in Ops, n \in {0, 1, 3}}
    \cup {List(<<a, b>>, 2, All(<<a, b>>)) : a \in Ops, b \in Ops}

\* A first opcode that maps, then one of each kind, cut after every unit.
CutLists ==
  LET first == {Poly(Area(0, 1), <<2, -1>>), Map(Area(0, 2), <<2, 0, 1>>)}
      second == {Op(99, Area(0, 1), 1, <<1, 1>>, 0), Poly(Area(0, 1), <<1, 1>>),
                 Map(Area(1, 1), <<1, 2>>), Op(MAP_TABLE, Area(0, 1), 3, <<1, 2>>, 0)}
  IN  UNION {{List(<<a, b>>, n, k) : n \in 1 .. 3, k \in 0 .. All(<<a, b>>)} :
               a \in first, b \in second}

LinearLists == WholeLists \cup CutLists
MCPolynomials == {<<1, 1>>, <<0, 2>>, <<2, -1>>, <<1>>}
MCTables == {<<2, 0, 1>>, <<1, 2>>}
MCPlanes == {<<0, 1>>, <<1, 1>>, <<0, 2>>, <<1, 7>>}
=============================================================================
