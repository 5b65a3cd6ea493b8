---------------------------- MODULE Corrections ----------------------------
(***************************************************************************)
(* The lens corrections of a DNG, helper/src/corrections.rs: gain_maps()   *)
(* and lens() over the opcodes that each() found in a list (module         *)
(* Opcodes, whose tables linearization() makes of the same list).  Both    *)
(* loops go through the opcodes in order and keep what their identifiers   *)
(* concern; they are one loop here.                                        *)
(***************************************************************************)
EXTENDS Opcodes, SequencesExt

CONSTANTS
  WARP_RECTILINEAR, FIX_VIGNETTE_RADIAL, GAIN_MAP,
  POINTS_MAX, VALUES_MAX, MAPS_MAX,
  MAX_MESSAGE_BYTES  \* of protocol/src/lib.rs

VARIABLES
  read,     \* opcodes gone through
  maps,     \* gain_maps()
  vignette, \* lens(), Missing when there is none
  warp

kept == <<read, maps, vignette, warp>>

AllFinite(values) == \A i \in DOMAIN values : values[i] # NotFinite

\* Mutant: the product of the points is not held to VALUES_MAX.
TooManyNever(count) == FALSE

TooMany(count) == count > VALUES_MAX

\* gain_map(): the map, or Missing when it is skipped.
GainMap(body) ==
  LET v == Fields(body, 0, 10, U32)
      spacing == Fields(body, 10, 2, F64)
      origin == Fields(body, 14, 2, F64)
      mapPlanes == Fields(body, 18, 1, U32)[1]
      count == v[9] * v[10] * mapPlanes
      gains == Fields(body, 19, count, U32)
  IN  IF /\ AllRead(v \o spacing \o origin \o <<mapPlanes>>)
         /\ v[1] < v[3] /\ v[2] < v[4]
         /\ v[5] < PLANES_MAX /\ v[6] \in 1 .. PLANES_MAX
         /\ v[7] >= 1 /\ v[8] >= 1
         /\ {v[9], v[10]} \subseteq 1 .. POINTS_MAX
         /\ mapPlanes \in 1 .. PLANES_MAX
         /\ AllFinite(spacing \o origin)
         /\ spacing[1] >= 0 /\ spacing[2] >= 0
         /\ ~TooMany(count)
         /\ AllRead(gains) /\ AllFinite(gains)
         /\ \A i \in DOMAIN gains : gains[i] >= 0
      THEN [area |-> SubSeq(v, 1, 4), plane |-> v[5], planes |-> v[6],
            pitch |-> SubSeq(v, 7, 8), points |-> SubSeq(v, 9, 10),
            spacing |-> spacing, origin |-> origin, map_planes |-> mapPlanes,
            gains |-> gains]
      ELSE Missing

RadialVignette(body) ==
  LET v == Fields(body, 0, 7, F64)
  IN  IF AllRead(v) /\ AllFinite(v)
      THEN [k |-> SubSeq(v, 1, 5), centre |-> SubSeq(v, 6, 7)]
      ELSE Missing

\* Six coefficients per plane, then the centre.
Warp(body) ==
  LET n == Fields(body, 0, 1, U32)[1]
      c == Fields(body, 1, 6 * n, F64)
      centre == Fields(body, 1 + 12 * n, 2, F64)
  IN  IF /\ n \in 1 .. PLANES_MAX
         /\ AllRead(c \o centre)
         /\ AllFinite(c \o centre)
      THEN [planes |-> [p \in 1 .. n |-> SubSeq(c, 6 * p - 5, 6 * p)],
            centre |-> centre]
      ELSE Missing

-----------------------------------------------------------------------------
(* The opcodes, one after the other                                        *)

CorrectionsInit ==
  Init /\ read = 0 /\ maps = <<>> /\ vignette = Missing /\ warp = Missing

\* The next opcode found, when it is of this kind.
Visit(id) ==
  /\ pc = "done"
  /\ read < Len(found) /\ found[read + 1].id = id
  /\ read' = read + 1
  /\ UNCHANGED vars

Body == found[read + 1].body

\* Mutant: an opcode that cannot be read erases the one before.
KeptLatest(before, value) == value

\* A valid opcode takes the place of the one before.
Kept(before, value) == IF value = Missing THEN before ELSE value

\* The first MAPS_MAX maps are kept.
ReadGainMap ==
  /\ Visit(GAIN_MAP)
  /\ LET map == GainMap(Body)
     IN  maps' = IF map = Missing \/ Len(maps) = MAPS_MAX THEN maps
                 ELSE Append(maps, map)
  /\ UNCHANGED <<vignette, warp>>

ReadVignette ==
  /\ Visit(FIX_VIGNETTE_RADIAL)
  /\ vignette' = Kept(vignette, RadialVignette(Body))
  /\ UNCHANGED <<maps, warp>>

ReadWarp ==
  /\ Visit(WARP_RECTILINEAR)
  /\ warp' = Kept(warp, Warp(Body))
  /\ UNCHANGED <<maps, vignette>>

ReadOther ==
  /\ \E id \in {o.id : o \in ToSet(found)} \
                 {GAIN_MAP, FIX_VIGNETTE_RADIAL, WARP_RECTILINEAR} : Visit(id)
  /\ UNCHANGED <<maps, vignette, warp>>

Done == pc = "done" /\ read = Len(found) /\ UNCHANGED <<vars, kept>>

CorrectionsNext ==
  \/ Next /\ UNCHANGED kept
  \/ ReadGainMap \/ ReadVignette \/ ReadWarp \/ ReadOther
  \/ Done

CorrectionsSpec == CorrectionsInit /\ [][CorrectionsNext]_<<vars, kept>>

-----------------------------------------------------------------------------
(* How a body is written: the reference the reading is compared with       *)

GainMapUnits(m) ==
  m.area \o <<m.plane, m.planes>> \o m.pitch \o m.points
    \o Wide(m.spacing \o m.origin) \o <<m.map_planes>> \o m.gains

VignetteUnits(v) == Wide(v.k \o v.centre)

\* The coefficients of a warp, plane after plane.
Coefficients(planes) ==
  [i \in 1 .. 6 * Len(planes) |-> planes[((i - 1) \div 6) + 1][((i - 1) % 6) + 1]]

WarpUnits(w) == <<Len(w.planes)>> \o Wide(Coefficients(w.planes) \o w.centre)

\* What the opcodes may be written from.  A gain map has a gain for every point
\* and plane of its grid.
GainMaps ==
  {m \in [area : [1 .. 4 -> Nat], plane : Nat, planes : Nat, pitch : [1 .. 2 -> Nat],
          points : [1 .. 2 -> Nat], spacing : [1 .. 2 -> Unit],
          origin : [1 .. 2 -> Unit], map_planes : Nat, gains : Seq(Unit)] :
     Len(m.gains) = m.points[1] * m.points[2] * m.map_planes}
Vignettes == [k : [1 .. 5 -> Unit], centre : [1 .. 2 -> Unit]]
Warps == [planes : Seq([1 .. 6 -> Unit]), centre : [1 .. 2 -> Unit]]

\* An opcode written from this content, into these units: its body may be cut
\* anywhere, or longer.
WrittenFrom(op, contents, units) ==
  /\ op.content \in contents
  /\ \A i \in 1 .. Len(op.body) : i <= Len(units) => op.body[i] = units[i]

IsCorrection(op) ==
  /\ op.id = GAIN_MAP => WrittenFrom(op, GainMaps, GainMapUnits(op.content))
  /\ op.id = FIX_VIGNETTE_RADIAL =>
       WrittenFrom(op, Vignettes, VignetteUnits(op.content))
  /\ op.id = WARP_RECTILINEAR => WrittenFrom(op, Warps, WarpUnits(op.content))

ASSUME CorrectionsAssumption ==
  /\ {POINTS_MAX, VALUES_MAX, MAPS_MAX} \subseteq Nat
  /\ GAIN_MAP \notin {FIX_VIGNETTE_RADIAL, WARP_RECTILINEAR}
  /\ FIX_VIGNETTE_RADIAL # WARP_RECTILINEAR
  /\ Missing \notin GainMaps \cup Vignettes \cup Warps
  /\ \A l \in Lists : \A i \in DOMAIN l.written.ops : IsCorrection(l.written.ops[i])

\* The gain map is within its limits.
SoundMap(m) ==
  /\ m.area[1] < m.area[3] /\ m.area[2] < m.area[4]
  /\ m.plane < PLANES_MAX
  /\ {m.planes, m.map_planes} \subseteq 1 .. PLANES_MAX
  /\ 0 \notin Range(m.pitch)
  /\ Range(m.points) \subseteq 1 .. POINTS_MAX
  /\ Len(m.gains) <= VALUES_MAX
  /\ NotFinite \notin Range(m.spacing) \cup Range(m.origin) \cup Range(m.gains)
  /\ \A x \in Range(m.spacing) \cup Range(m.gains) : x >= 0

SoundVignette(v) == NotFinite \notin Range(v.k) \cup Range(v.centre)

SoundWarp(w) ==
  /\ Len(w.planes) \in 1 .. PLANES_MAX
  /\ NotFinite \notin Range(w.centre) \cup UNION {Range(c) : c \in Range(w.planes)}

\* The correction an opcode was written from is whole and within the limits.
Sound(op) ==
  LET c == op.content
  IN  CASE op.id = GAIN_MAP -> Len(op.body) >= Len(GainMapUnits(c)) /\ SoundMap(c)
        [] op.id = FIX_VIGNETTE_RADIAL ->
             Len(op.body) >= Len(VignetteUnits(c)) /\ SoundVignette(c)
        [] op.id = WARP_RECTILINEAR ->
             Len(op.body) >= Len(WarpUnits(c)) /\ SoundWarp(c)
        [] OTHER -> FALSE

\* What the sound opcodes of this kind were written from, among the first n.
SoundAmong(n, id) ==
  LET sound[i \in 0 .. n] ==
        IF i = 0 THEN <<>>
        ELSE IF written.ops[i].id = id /\ Sound(written.ops[i])
        THEN Append(sound[i - 1], written.ops[i].content)
        ELSE sound[i - 1]
  IN  sound[n]

\* The gain maps are the first MAPS_MAX sound ones written, in their order and
\* as they were written; each has a gain for every point and plane of its grid,
\* which the application indexes.  What is skipped never shifts or hides a
\* neighbour.
FirstSoundMaps ==
  LET sound == SoundAmong(read, GAIN_MAP)
  IN  maps = SubSeq(sound, 1, Min({Len(sound), MAPS_MAX}))

\* "the last of each, when several": an opcode that cannot be read does not
\* count as one and erases nothing.
LastSoundLens ==
  LET last(id) == LET sound == SoundAmong(read, id)
                  IN  IF sound = <<>> THEN Missing ELSE sound[Len(sound)]
  IN  vignette = last(FIX_VIGNETTE_RADIAL) /\ warp = last(WARP_RECTILINEAR)

\* protocol/src/lib.rs: "large buffers are never copied through the socket.
\* Control messages are small".  The gains of a reply, four bytes each, leave it
\* within the bound of a message.
GainsFitMessage ==
  4 * FoldLeft(LAMBDA n, map : n + Len(map.gains), 0, maps) <= MAX_MESSAGE_BYTES
=============================================================================
