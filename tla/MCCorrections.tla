--------------------------- MODULE MCCorrections ---------------------------
(***************************************************************************)
(* Small instances of Corrections for TLC: a sound opcode of each kind,    *)
(* every way of spoiling one of its fields, lists of those, and the lists  *)
(* of MCOpcodes.                                                           *)
(***************************************************************************)
EXTENDS MCOpcodes, Corrections

Correction(id, content, units, short) ==
  [id |-> id, content |-> content, body |-> SubSeq(units, 1, Len(units) - short)]

Grid(points, planes, gain) ==
  [area |-> <<0, 1, 2, 3>>, plane |-> 0, planes |-> 1, pitch |-> <<1, 2>>,
   points |-> points, spacing |-> <<1, 0>>, origin |-> <<0, -1>>,
   map_planes |-> planes,
   gains |-> [i \in 1 .. points[1] * points[2] * planes |-> gain]]

MapOp(m, short) == Correction(GAIN_MAP, m, GainMapUnits(m), short)

SoundMaps ==
  {MapOp(Grid(points, planes, 5), 0) :
     points \in {<<1, 1>>, <<1, POINTS_MAX>>}, planes \in {1, PLANES_MAX}}

\* The map with one field changed.
Changed(m) ==
  {[m EXCEPT !.area = a] : a \in {<<2, 1, 2, 3>>, <<0, 3, 2, 3>>}}
    \cup {[m EXCEPT !.plane = PLANES_MAX - 1], [m EXCEPT !.plane = PLANES_MAX],
          [m EXCEPT !.planes = 0], [m EXCEPT !.planes = PLANES_MAX + 1]}
    \cup {[m EXCEPT !.pitch = p] : p \in {<<0, 1>>, <<1, 0>>}}
    \cup {[m EXCEPT !.spacing = s] : s \in {<<-1, 0>>, <<0, -1>>, <<0, NotFinite>>}}
    \cup {[m EXCEPT !.origin = o] : o \in {<<NotFinite, 0>>, <<-1, 0>>}}
    \cup {[m EXCEPT !.gains[1] = g] : g \in {-1, 0, NotFinite}}

BadMaps ==
  {MapOp(m, 0) : m \in Changed(Grid(<<1, 2>>, 1, 5))}
    \cup {MapOp(Grid(points, 1, 5), 0) :
            points \in {<<0, 1>>, <<POINTS_MAX + 1, 1>>, <<2, POINTS_MAX>>,
                        <<POINTS_MAX, POINTS_MAX>>}}
    \cup {MapOp(Grid(<<1, 1>>, planes, 5), 0) : planes \in {0, PLANES_MAX + 1}}
    \cup {MapOp(Grid(<<1, 2>>, 1, 5), short) : short \in {1, 2, 3, 11, 21}}

Vignette(k, short) ==
  LET v == [k |-> <<k, 0, 0, 0, 0>>, centre |-> <<0, 0>>]
  IN  Correction(FIX_VIGNETTE_RADIAL, v, VignetteUnits(v), short)

WarpOp(planes, x, short) ==
  LET w == [planes |-> [p \in 1 .. planes |-> <<1, p, 0, 0, 0, 0>>],
            centre |-> <<x, 1>>]
  IN  Correction(WARP_RECTILINEAR, w, WarpUnits(w), short)

\* The opcode, with units after what it needs.
Longer(op) == [op EXCEPT !.body = @ \o <<3, 3>>]

Lenses ==
  {Vignette(1, 0), Vignette(2, 0), Vignette(NotFinite, 0), Vignette(1, 1),
   Longer(WarpOp(1, 0, 0)), WarpOp(PLANES_MAX, 0, 0), WarpOp(0, 0, 0),
   WarpOp(PLANES_MAX + 1, 0, 0), WarpOp(2, 0, 12),
   WarpOp(1, NotFinite, 0), WarpOp(1, 0, 1), WarpOp(1, 0, 13)}

Other == Correction(99, <<>>, <<0, 0>>, 0)

Some == {MapOp(Grid(<<1, 1>>, 1, 5), 0), MapOp(Grid(<<1, 2>>, 1, 4), 0),
         Longer(MapOp(Grid(<<1, 2>>, 1, 3), 0)),
         MapOp(Grid(<<1, 2>>, 1, 4), 1), Other}

Sequences ==
  {<<a, b>> : a \in SoundMaps \cup BadMaps, b \in SoundMaps \cup BadMaps}
    \cup {<<a, b, c>> : a \in Lenses, b \in Lenses, c \in Lenses}
    \cup {<<a, b, c, d>> : a \in Some, b \in Some, c \in Some, d \in Some}

Complete(ops) == List(ops, Len(ops), All(ops))

\* Opcodes of both modules in one list, cut after every unit.
MixedLists ==
  LET ops == <<Map(Area(0, 2), <<2, 0, 1>>), MapOp(Grid(<<1, 2>>, 1, 4), 0),
               Vignette(1, 0), Poly(Area(0, 1), <<1, 1>>), WarpOp(1, 0, 0)>>
  IN  {List(ops, n, k) : n \in 3 .. 6, k \in 0 .. All(ops)}

MCLists == LinearLists \cup MixedLists \cup {Complete(ops) : ops \in Sequences}
MCBadLists ==
  {Complete(<<a, b>>) : a \in SoundMaps \cup BadMaps, b \in SoundMaps}
=============================================================================
