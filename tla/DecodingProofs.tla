--------------------------- MODULE DecodingProofs ---------------------------
(***************************************************************************)
(* Proofs about Decoding, for images, extents and caps of every size.      *)
(***************************************************************************)
EXTENDS Decoding, WellFoundedInduction, TLAPS

-----------------------------------------------------------------------------
(* Arithmetic                                                              *)

\* Factors that are no smaller make a product that is no smaller.
LEMMA ProductGrows ==
  ASSUME NEW a \in Nat, NEW b \in Nat, NEW c \in Nat, NEW d \in Nat, a <= c, b <= d
  PROVE  a * b \in Nat /\ c * d \in Nat /\ a * b <= c * d
<1>1. a * b <= a * d
  BY SMT
<1>2. a * d <= c * d
  BY SMT
<1> QED
  BY <1>1, <1>2, SMT

\* A quotient is the number of times the divisor fits.
LEMMA Quotient ==
  ASSUME NEW a \in Nat, NEW b \in Nat \ {0}
  PROVE  /\ a \div b \in Nat
         /\ (a \div b) * b <= a
         /\ a < (a \div b) * b + b
OBVIOUS

\* A number below the modulus is its own remainder.
LEMMA SmallRemainder ==
  ASSUME NEW a \in Nat, NEW b \in Nat \ {0}, a < b
  PROVE  a % b = a
OBVIOUS

\* Whole pages hold the bytes they are made for.
LEMMA PagesHold ==
  ASSUME NEW n \in Nat, n + PAGE < USIZE
  PROVE  n <= WholePages(n)
<1> DEFINE q == (n + PAGE - 1) \div PAGE
<1>1. PAGE \in Nat \ {0} /\ USIZE \in Nat \ {0} /\ n + PAGE - 1 \in Nat
  BY LayoutsAssumption
<1>2. q \in Nat /\ q * PAGE <= n + PAGE - 1 /\ n + PAGE - 1 < q * PAGE + PAGE
  BY <1>1, Quotient
<1> HIDE DEF q
<1>3. q * PAGE \in Nat
  BY <1>1, <1>2
<1>4. (q * PAGE) % USIZE = q * PAGE
  BY <1>1, <1>2, <1>3, SmallRemainder
<1> QED
  BY <1>1, <1>2, <1>3, <1>4 DEF q, WholePages

\* Every number has a whole square root.
LEMMA RootIsRoot ==
  ASSUME NEW n \in Nat
  PROVE  Root(n) \in Nat /\ Root(n) * Root(n) <= n
<1> DEFINE above == {r \in Nat : n < r * r}
<1>1. n + 1 \in above
  <2>1. (n + 1) * (n + 1) = n * n + n + n + 1
    BY SMT
  <2>2. n * n \in Nat
    BY SMT
  <2> QED
    BY <2>1, <2>2
<1>2. PICK m \in above : \A k \in above : <<k, m>> \notin OpToRel(<, Nat)
  BY <1>1, NatLessThanWellFounded, WFMin, Zenon
<1>3. \A k \in above : ~(k < m)
  BY <1>2, Zenon DEF OpToRel
<1>4. m \in Nat /\ n < m * m /\ m # 0
  BY SMT
<1>5. m - 1 \in Nat /\ m - 1 \notin above
  BY <1>3, <1>4
<1>6. (m - 1) * (m - 1) <= n
  BY <1>5
<1>7. m - 1 <= n
  <2>1. CASE m - 1 = 0
    BY <2>1
  <2>2. CASE m - 1 >= 1
    <3>1. (m - 1) * 1 <= (m - 1) * (m - 1)
      BY <1>5, <2>2, ProductGrows
    <3> QED
      BY <1>5, <1>6, <3>1
  <2> QED
    BY <1>5, <2>1, <2>2
<1>8. \E r \in 0 .. n : r * r <= n /\ n < (r + 1) * (r + 1)
  <2> DEFINE s == m - 1
  <2>1. s \in 0 .. n /\ s + 1 = m /\ s * s <= n
    BY <1>4, <1>5, <1>6, <1>7
  <2> HIDE DEF s
  <2>2. n < (s + 1) * (s + 1)
    BY <1>4, <2>1
  <2> QED
    BY <2>1, <2>2
<1>9. Root(n) \in 0 .. n /\ Root(n) * Root(n) <= n
  BY <1>8, Zenon DEF Root
<1> QED
  BY <1>9

\* A number whose square is at most another's square is at most the other.
LEMMA SquaresOrder ==
  ASSUME NEW a \in Nat, NEW b \in Nat, a * a <= b * b
  PROVE  a <= b
<1>1. SUFFICES ASSUME b + 1 <= a PROVE FALSE
  OBVIOUS
<1>2. (b + 1) * (b + 1) <= a * a
  BY <1>1, ProductGrows
<1>3. (b + 1) * (b + 1) = b * b + b + b + 1
  BY SMT
<1>4. b * b \in Nat
  BY SMT
<1> QED
  BY <1>2, <1>3, <1>4

\* A factor that is not zero cancels out of an inequality.
LEMMA Cancel ==
  ASSUME NEW a \in Nat, NEW b \in Nat, NEW k \in Nat \ {0}, a * k <= b * k
  PROVE  a <= b
<1>1. SUFFICES ASSUME b + 1 <= a PROVE FALSE
  OBVIOUS
<1>2. (b + 1) * k <= a * k
  BY <1>1, ProductGrows
<1>3. (b + 1) * k = b * k + k
  BY SMT
<1>4. b * k \in Nat
  BY SMT
<1> QED
  BY <1>2, <1>3, <1>4

\* The sides that a reduction by the same factor gives, to an area of max, have
\* at most that area, though each is rounded on its own.
LEMMA ReducedArea ==
  ASSUME NEW a \in Nat \ {0}, NEW b \in Nat \ {0}, NEW max \in Nat
  PROVE  LET r == Root((max * a) \div b)
             s == Root((max * b) \div a)
         IN  r \in Nat /\ s \in Nat /\ r * s <= max
<1> DEFINE p == (max * a) \div b
           q == (max * b) \div a
           r == Root(p)
           s == Root(q)
<1>1. max * a \in Nat /\ max * b \in Nat
  BY SMT
<1>2. p \in Nat /\ q \in Nat /\ p * b <= max * a /\ q * a <= max * b
  BY <1>1, Quotient
<1> HIDE DEF p, q
<1>3. r \in Nat /\ s \in Nat /\ r * r <= p /\ s * s <= q
  BY <1>2, RootIsRoot
<1> HIDE DEF r, s
<1>4. p * q <= max * max
  <2>1. /\ p * b \in Nat /\ q * a \in Nat
        /\ a * b \in Nat \ {0} /\ p * q \in Nat /\ max * max \in Nat
    BY <1>2, SMT
  <2>2. (p * b) * (q * a) <= (max * a) * (max * b)
    BY <1>1, <1>2, <2>1, ProductGrows
  <2>3. /\ (p * b) * (q * a) = (p * q) * (a * b)
        /\ (max * a) * (max * b) = (max * max) * (a * b)
    BY <1>2, SMT
  <2> QED
    BY <2>1, <2>2, <2>3, Cancel
<1>5. (r * s) * (r * s) <= p * q
  <2>1. r * r \in Nat /\ s * s \in Nat
    BY <1>3, SMT
  <2>2. (r * r) * (s * s) <= p * q
    BY <1>2, <1>3, <2>1, ProductGrows
  <2>3. (r * s) * (r * s) = (r * r) * (s * s)
    BY <1>3, SMT
  <2> QED
    BY <2>2, <2>3
<1>6. r * s \in Nat /\ p * q \in Nat /\ max * max \in Nat /\ (r * s) * (r * s) \in Nat
  BY <1>2, <1>3, SMT
<1>7. r * s <= max
  <2> DEFINE t == r * s
  <2>1. t \in Nat /\ t * t <= max * max
    BY <1>4, <1>5, <1>6
  <2> HIDE DEF t
  <2>2. t <= max
    BY <2>1, SquaresOrder
  <2> QED
    BY <2>2 DEF t
<1> QED
  BY <1>3, <1>7 DEF p, q, r, s

\* The whole pixels of an area are no more than the pixels of it.
LEMMA WholePixels ==
  ASSUME NEW a \in Nat, NEW b \in Nat, NEW area \in Nat, a * b <= area * UNIT * UNIT
  PROVE  (a \div UNIT) * (b \div UNIT) <= area
<1> DEFINE w == a \div UNIT
           h == b \div UNIT
<1>1. UNIT \in Nat \ {0}
  BY DecodingAssumption
<1>2. w \in Nat /\ h \in Nat /\ w * UNIT <= a /\ h * UNIT <= b
  BY <1>1, Quotient
<1> HIDE DEF w, h
<1>3. w * UNIT \in Nat /\ h * UNIT \in Nat /\ w * h \in Nat /\ UNIT * UNIT \in Nat \ {0}
  BY <1>1, <1>2, SMT
<1>4. (w * UNIT) * (h * UNIT) <= a * b
  BY <1>2, <1>3, ProductGrows
<1>5. /\ (w * UNIT) * (h * UNIT) = (w * h) * (UNIT * UNIT)
      /\ area * UNIT * UNIT = area * (UNIT * UNIT)
  BY <1>1, <1>2, SMT
<1>6. a * b \in Nat /\ (w * h) * (UNIT * UNIT) \in Nat /\ area * (UNIT * UNIT) \in Nat
  BY <1>3, SMT
<1>7. (w * h) * (UNIT * UNIT) <= area * (UNIT * UNIT)
  BY <1>4, <1>5, <1>6
<1>8. w * h <= area
  BY <1>3, <1>7, Cancel
<1> QED
  BY <1>8 DEF w, h

-----------------------------------------------------------------------------
(* The invariant                                                           *)

\* What the application computes from the layout.
Announced == IF request = "Preview" THEN ImageBytes(layout) ELSE SensorBytes(layout)

\* Each call belongs to one of the requests.
CallsOfRequest ==
  /\ request \in {"Preview", "Sensor"}
  /\ pc \in {"embedded", "thumbnail"} => request = "Preview"
  /\ pc \in {"raw_image", "develop"} => request = "Sensor"

\* What was decoded, or is to be rendered, is no more than the cap, and the buffer
\* made for it is of its size.
Sized ==
  /\ pixels \in 0 .. MAX_ALLOCATION
  /\ buffer \in 0 .. MAX_ALLOCATION
  /\ pc \in {"fill", "answered"} => buffer = pixels

\* From the moment there is a layout, it stands for the bytes to come.
LayoutAgrees == pc \in {"create", "fill", "answered"} => Announced = pixels

IInv == CallsOfRequest /\ Sized /\ LayoutAgrees

\* The step's ends that hold no layout keep the invariant.
LEMMA EndsKeepInvariant ==
  ASSUME IInv, Misses \/ Stops
  PROVE  IInv'
<1>1. 0 \in 0 .. MAX_ALLOCATION
  BY LimitsAssumption
<1>2. CASE Misses
  <2>1. pc' \in {"system", "failed"} /\ pixels' = 0 /\ buffer' = 0 /\ request' = request
    BY <1>2 DEF Misses
  <2> QED
    BY <1>1, <2>1 DEF IInv, CallsOfRequest, Sized, LayoutAgrees
<1>3. CASE Stops
  <2>1. pc' = "stopped" /\ buffer' = 0 /\ request' = request /\ pixels' = pixels
    BY <1>3 DEF Stops
  <2> QED
    BY <1>1, <2>1 DEF IInv, CallsOfRequest, Sized, LayoutAgrees
<1> QED
  BY <1>2, <1>3

\* Bytes that a layout stands for, and that are within the cap, are announced
\* truly.
LEMMA AnnouncesKeepsInvariant ==
  ASSUME IInv, NEW l, NEW bytes \in 0 .. MAX_ALLOCATION, Announces(l, bytes),
         bytes = IF request = "Preview" THEN ImageBytes(l) ELSE SensorBytes(l)
  PROVE  IInv'
<1>1. /\ pc' = "create" /\ layout' = l /\ pixels' = bytes
      /\ request' = request /\ buffer' = buffer
  BY DEF Announces
<1>2. Announced' = bytes
  BY <1>1 DEF Announced, ImageBytes, SensorBytes, ImageSize, SensorSize
<1> QED
  BY <1>1, <1>2 DEF IInv, CallsOfRequest, Sized, LayoutAgrees

\* An embedded image is announced at the size it is decoded in.
LEMMA EmbeddedKeepsInvariant ==
  ASSUME IInv, Embedded
  PROVE  IInv'
<1>1. request = "Preview"
  BY DEF IInv, CallsOfRequest, Embedded
<1>2. ASSUME NEW p \in Pictures, Rgba(p[1], p[2])
      PROVE  IInv'
  <2> DEFINE l == [width |-> p[1], height |-> p[2]]
             size == ImageSize(l)
  <2>1. p[1] \in Nat /\ p[2] \in Nat /\ USIZE \in Nat \ {0} /\ MAX_ALLOCATION \in Nat
    BY DecodingAssumption, LayoutsAssumption, LimitsAssumption
  <2>2. size \in Nat
    BY <2>1 DEF ImageSize
  <2>3. CASE size >= USIZE \/ size > MAX_ALLOCATION
    <3>1. Misses \/ Stops
      BY <1>2, <2>1, <2>2, <2>3 DEF Rgba, Refused
    <3> QED
      BY <3>1, EndsKeepInvariant
  <2>4. CASE ~(size >= USIZE \/ size > MAX_ALLOCATION)
    <3>1. Announces(l, size)
      BY <1>2, <2>4 DEF Rgba, Refused
    <3>2. size \in 0 .. MAX_ALLOCATION /\ size < USIZE
      BY <2>1, <2>2, <2>4
    <3>3. size = ImageBytes(l)
      <4> HIDE DEF l
      <4>1. size % USIZE = size
        BY <2>1, <2>2, <3>2, SmallRemainder
      <4> QED
        BY <4>1 DEF ImageBytes
    <3> HIDE DEF l, size
    <3> QED
      BY <1>1, <3>1, <3>2, <3>3, AnnouncesKeepsInvariant
  <2> QED
    BY <2>3, <2>4
<1>3. ASSUME tried' = tried + 1,
             UNCHANGED <<request, pc, decoder, layout, pixels, buffer, matrix>>
      PROVE  IInv'
  BY <1>3 DEF IInv, CallsOfRequest, Sized, LayoutAgrees, Announced
<1> QED
  BY <1>2, <1>3, EndsKeepInvariant DEF Embedded

\* A raw image is announced only when its sizes, cast to those of the layout, come
\* to as many bytes as its samples.
LEMMA DecodeRawKeepsInvariant ==
  ASSUME IInv, DecodeRaw
  PROVE  IInv'
<1>1. request = "Sensor"
  BY DEF IInv, CallsOfRequest, DecodeRaw
<1>2. ASSUME NEW image \in RawImages, NEW l,
             IF Matches(l, image.bytes) THEN Announces(l, image.bytes) ELSE Misses
      PROVE  IInv'
  <2>1. image.bytes \in 0 .. MAX_ALLOCATION
    BY DecodingAssumption DEF RawImage
  <2>2. CASE Matches(l, image.bytes)
    <3>1. Announces(l, image.bytes) /\ image.bytes = SensorBytes(l)
      BY <1>2, <2>2 DEF Matches
    <3> QED
      BY <1>1, <2>1, <3>1, AnnouncesKeepsInvariant
  <2>3. CASE ~Matches(l, image.bytes)
    BY <1>2, <2>3, EndsKeepInvariant
  <2> QED
    BY <2>2, <2>3
<1> QED
  BY <1>2, EndsKeepInvariant DEF DecodeRaw

\* Whole pixels whose bytes are within the cap are announced as they are.
LEMMA RenderedSize ==
  ASSUME NEW w \in Nat, NEW h \in Nat, NEW k \in Nat,
         w < U32, h < U32, w * h * k <= MAX_ALLOCATION
  PROVE  /\ w % U32 = w /\ h % U32 = h
         /\ (w * h * k) % USIZE = w * h * k
         /\ w * h * k \in 0 .. MAX_ALLOCATION
<1>1. /\ {U32, USIZE} \subseteq Nat \ {0} /\ MAX_ALLOCATION \in Nat /\ PAGE \in Nat
      /\ MAX_ALLOCATION + PAGE < USIZE
  BY LayoutsAssumption, LimitsAssumption
<1>2. w % U32 = w /\ h % U32 = h
  BY <1>1, SmallRemainder
<1>3. w * h * k \in Nat
  BY SMT
<1>4. (w * h * k) % USIZE = w * h * k
  <2> DEFINE n == w * h * k
  <2>1. n \in Nat /\ n < USIZE
    BY <1>1, <1>3
  <2> HIDE DEF n
  <2>2. n % USIZE = n
    BY <1>1, <2>1, SmallRemainder
  <2> QED
    BY <2>2 DEF n
<1> QED
  BY <1>1, <1>2, <1>3, <1>4

\* A thumbnail has no side longer than was asked for.
LEMMA ThumbnailKeepsInvariant ==
  ASSUME IInv, Thumbnail
  PROVE  IInv'
<1>1. request = "Preview"
  BY DEF IInv, CallsOfRequest, Thumbnail
<1> DEFINE start == [width |-> 0, height |-> 0]
<1>2. ASSUME NEW extent \in Extents,
             \A i \in 1 .. 2 : extent[i] <= THUMBNAIL_MAX_SIDE * UNIT,
             Render(extent, 4, start)
      PROVE  IInv'
  <2> DEFINE w == extent[1] \div UNIT
             h == extent[2] \div UNIT
             l == [start EXCEPT !.width = w % U32, !.height = h % U32]
  <2>1. CASE Misses
    BY <2>1, EndsKeepInvariant
  <2>2. CASE ~Misses
    <3>1. /\ NotFinite \notin {extent[1], extent[2]}
          /\ Announces(l, (w * h * 4) % USIZE)
      BY <1>2, <2>2 DEF Render
    <3>2. l.width = w % U32 /\ l.height = h % U32
      <4> HIDE DEF w, h
      <4> QED
        OBVIOUS
    <3>3. /\ extent[1] \in Nat /\ extent[2] \in Nat /\ UNIT \in Nat \ {0}
          /\ THUMBNAIL_MAX_SIDE \in Nat /\ MAX_ALLOCATION \in Nat
          /\ {U32, USIZE} \subseteq Nat \ {0}
          /\ THUMBNAIL_MAX_SIDE < U32
          /\ THUMBNAIL_MAX_SIDE * THUMBNAIL_MAX_SIDE * 4 <= MAX_ALLOCATION
      BY <3>1, DecodingAssumption, LimitsAssumption, LayoutsAssumption
    <3>4. w \in Nat /\ h \in Nat /\ w * UNIT <= extent[1] /\ h * UNIT <= extent[2]
      BY <3>3, Quotient
    <3>5. w <= THUMBNAIL_MAX_SIDE /\ h <= THUMBNAIL_MAX_SIDE
      <4> HIDE DEF w, h
      <4>1. w * UNIT <= THUMBNAIL_MAX_SIDE * UNIT /\ h * UNIT <= THUMBNAIL_MAX_SIDE * UNIT
        BY <1>2, <3>3, <3>4
      <4> QED
        BY <3>3, <3>4, <4>1, Cancel
    <3> HIDE DEF w, h
    <3>6. w * h * 4 <= MAX_ALLOCATION
      <4>1. w * h <= THUMBNAIL_MAX_SIDE * THUMBNAIL_MAX_SIDE
        BY <3>3, <3>4, <3>5, ProductGrows
      <4> QED
        BY <3>3, <3>4, <4>1
    <3>7. /\ w % U32 = w /\ h % U32 = h
          /\ (w * h * 4) % USIZE = w * h * 4
          /\ w * h * 4 \in 0 .. MAX_ALLOCATION
      <4>1. w < U32 /\ h < U32 /\ 4 \in Nat
        BY <3>3, <3>4, <3>5
      <4> QED
        BY <3>4, <3>6, <4>1, RenderedSize, Zenon
    <3> HIDE DEF l
    <3>8. ImageBytes(l) = w * h * 4
      BY <3>2, <3>7 DEF ImageBytes, ImageSize
    <3> QED
      BY <1>1, <3>1, <3>7, <3>8, AnnouncesKeepsInvariant
  <2> QED
    BY <2>1, <2>2
<1> QED
  BY <1>2, EndsKeepInvariant DEF Thumbnail

\* An image is developed in an area of MAX_DEVELOPED_PIXELS at most.
LEMMA ReducedFits ==
  ASSUME NEW extent \in (Nat \cup {NotFinite}) \X (Nat \cup {NotFinite}),
         NotFinite \notin {extent[1], extent[2]}
  PROVE  LET e == Reduced(extent)
         IN  /\ e[1] \in Nat /\ e[2] \in Nat
             /\ e[1] * e[2] <= MAX_DEVELOPED_PIXELS * UNIT * UNIT
<1> DEFINE max == MAX_DEVELOPED_PIXELS * UNIT * UNIT
           a == extent[1]
           b == extent[2]
<1>1. a \in Nat /\ b \in Nat
  OBVIOUS
<1>2. max \in Nat
  <2>1. UNIT \in Nat /\ MAX_DEVELOPED_PIXELS \in Nat
    BY DecodingAssumption, LimitsAssumption
  <2> QED
    BY <2>1, SMT
<1>3. CASE a * b <= max
  BY <1>1, <1>3 DEF Reduced
<1>4. CASE ~(a * b <= max)
  <2>1. Reduced(extent) = <<Root((max * a) \div b), Root((max * b) \div a)>>
    BY <1>4, Zenon DEF Reduced
  <2> HIDE DEF max, a, b
  <2>2. a # 0 /\ b # 0
    <3>1. a = 0 \/ b = 0 => a * b = 0
      BY <1>1
    <3> QED
      BY <1>2, <1>4, <3>1
  <2>3. LET r == Root((max * a) \div b)
            s == Root((max * b) \div a)
        IN  r \in Nat /\ s \in Nat /\ r * s <= max
    BY <1>1, <1>2, <2>2, ReducedArea
  <2> QED
    BY <2>1, <2>3 DEF max
<1> QED
  BY <1>3, <1>4

\* The pixels developed are as many as the buffer holds, at eight bytes each.
LEMMA DevelopKeepsInvariant ==
  ASSUME IInv, Develop
  PROVE  IInv'
<1>1. request = "Sensor"
  BY DEF IInv, CallsOfRequest, Develop
<1> DEFINE start == [width |-> 0, height |-> 0, components |-> 4, sample |-> "F16"]
<1>2. ASSUME NEW extent \in Extents, Render(Reduced(extent), 8, start)
      PROVE  IInv'
  <2> DEFINE e == Reduced(extent)
             w == e[1] \div UNIT
             h == e[2] \div UNIT
             l == [start EXCEPT !.width = w % U32, !.height = h % U32]
  <2>1. CASE Misses
    BY <2>1, EndsKeepInvariant
  <2>2. CASE ~Misses
    <3>1. /\ NotFinite \notin {e[1], e[2]} /\ w # 0 /\ h # 0
          /\ Announces(l, (w * h * 8) % USIZE)
      BY <1>2, <2>2 DEF Render
    <3>2. /\ l.width = w % U32 /\ l.height = h % U32
          /\ l.components = 4 /\ l.sample = "F16"
      <4> HIDE DEF w, h
      <4> QED
        OBVIOUS
    <3>3. /\ UNIT \in Nat \ {0} /\ MAX_DEVELOPED_PIXELS \in Nat /\ MAX_ALLOCATION \in Nat
          /\ {U32, USIZE} \subseteq Nat \ {0}
          /\ MAX_DEVELOPED_PIXELS < U32 /\ MAX_DEVELOPED_PIXELS * 8 <= MAX_ALLOCATION
          /\ extent \in (Nat \cup {NotFinite}) \X (Nat \cup {NotFinite})
      BY DecodingAssumption, LimitsAssumption, LayoutsAssumption
    <3>4. NotFinite \notin {extent[1], extent[2]}
      <4>1. CASE NotFinite \in {extent[1], extent[2]}
        <5>1. e = extent
          BY <4>1 DEF Reduced
        <5> QED
          BY <3>1, <4>1, <5>1
      <4> QED
        BY <4>1
    <3>5. e[1] \in Nat /\ e[2] \in Nat /\ e[1] * e[2] <= MAX_DEVELOPED_PIXELS * UNIT * UNIT
      BY <3>3, <3>4, ReducedFits
    <3> HIDE DEF e
    <3>6. w \in Nat /\ h \in Nat /\ w * h <= MAX_DEVELOPED_PIXELS
      BY <3>3, <3>5, Quotient, WholePixels
    <3> HIDE DEF w, h
    <3>7. w <= MAX_DEVELOPED_PIXELS /\ h <= MAX_DEVELOPED_PIXELS
      <4>1. w * 1 <= w * h /\ 1 * h <= w * h
        BY <3>1, <3>6, ProductGrows
      <4>2. w * h \in Nat
        BY <3>6, SMT
      <4> QED
        BY <3>3, <3>6, <4>1, <4>2
    <3>8. w * h * 8 <= MAX_ALLOCATION
      <4>1. w * h \in Nat
        BY <3>6, SMT
      <4> QED
        BY <3>3, <3>6, <4>1
    <3>9. /\ w % U32 = w /\ h % U32 = h
          /\ (w * h * 8) % USIZE = w * h * 8
          /\ w * h * 8 \in 0 .. MAX_ALLOCATION
      <4>1. w < U32 /\ h < U32 /\ 8 \in Nat
        BY <3>3, <3>6, <3>7
      <4> QED
        BY <3>6, <3>8, <4>1, RenderedSize, Zenon
    <3> HIDE DEF l
    <3>10. SensorBytes(l) = w * h * 8
      <4>1. SensorSize(l) = w * h * 4 * 2
        BY <3>2, <3>9 DEF SensorSize, SampleBytes
      <4>2. w * h * 4 * 2 = w * h * 8
        BY <3>6, SMT
      <4> QED
        BY <3>9, <4>1, <4>2 DEF SensorBytes
    <3> QED
      BY <1>1, <3>1, <3>9, <3>10, AnnouncesKeepsInvariant
  <2> QED
    BY <2>1, <2>2
<1> QED
  BY <1>2, EndsKeepInvariant DEF Develop

\* The buffer is made for the bytes announced.
LEMMA CreateKeepsInvariant ==
  ASSUME IInv, Create
  PROVE  IInv'
<1>1. CASE /\ buffer' = pixels
           /\ pc' = "fill"
           /\ UNCHANGED <<request, decoder, tried, layout, pixels, matrix>>
  BY <1>1 DEF IInv, CallsOfRequest, Sized, LayoutAgrees, Announced, Create
<1> QED
  BY <1>1, EndsKeepInvariant DEF Create

\* The answer is what was announced, in the buffer made for it.
LEMMA FillKeepsInvariant ==
  ASSUME IInv, Fill
  PROVE  IInv'
<1>1. CASE /\ pixels = buffer
           /\ pc' = "answered"
           /\ UNCHANGED <<request, decoder, tried, layout, pixels, buffer>>
  BY <1>1 DEF IInv, CallsOfRequest, Sized, LayoutAgrees, Announced, Fill
<1> QED
  BY <1>1, EndsKeepInvariant DEF Fill

\* Nothing is announced at first.
LEMMA InitInvariant ==
  ASSUME Init
  PROVE  IInv
BY LimitsAssumption DEF Init, IInv, CallsOfRequest, Sized, LayoutAgrees

\* Every step keeps the invariant.
LEMMA NextKeepsInvariant ==
  ASSUME IInv, [Next]_vars
  PROVE  IInv'
<1>1. ASSUME NEW next, Calls(next),
             next \in {"embedded", "thumbnail"} => request = "Preview",
             next \in {"raw_image", "develop"} => request = "Sensor",
             next \notin {"create", "fill", "answered"}
      PROVE  IInv'
  BY <1>1 DEF Calls, IInv, CallsOfRequest, Sized, LayoutAgrees, Announced
<1>2. CASE Identify
  BY <1>1, <1>2, EndsKeepInvariant DEF Identify, IInv, CallsOfRequest
<1>3. CASE OpenSystem
  BY <1>1, <1>3, EndsKeepInvariant DEF OpenSystem, IInv, CallsOfRequest
<1>4. CASE Done \/ UNCHANGED vars
  BY <1>4 DEF Done, vars, IInv, CallsOfRequest, Sized, LayoutAgrees, Announced
<1> QED
  BY <1>2, <1>3, <1>4, EmbeddedKeepsInvariant, DecodeRawKeepsInvariant,
     ThumbnailKeepsInvariant, DevelopKeepsInvariant, CreateKeepsInvariant,
     FillKeepsInvariant DEF Next

\* The invariant holds of every behaviour, with images, extents and limits of any
\* size.
THEOREM InductiveInvariant == Spec => []IInv
<1>1. Init => IInv
  BY InitInvariant
<1>2. IInv /\ [Next]_vars => IInv'
  BY NextKeepsInvariant
<1> QED
  BY <1>1, <1>2, PTL DEF Spec

\* No buffer is larger than an allocation may be, whatever the extents Core Image
\* gives: the two sides of a reduced image are rounded apart, and yet their
\* product is under the area.
THEOREM SharedMemoryWithinCap == Spec => []BuffersWithinCap
<1>1. IInv => BuffersWithinCap
  BY LimitsAssumption DEF IInv, Sized, BuffersWithinCap
<1> QED
  BY <1>1, InductiveInvariant, PTL

\* The layout of an answer stands for the bytes that were decoded, and its object
\* holds them.
THEOREM AnswersAreTrue == Spec => []AnnouncedIsDecoded
<1>1. ASSUME IInv PROVE AnnouncedIsDecoded
  <2>1. SUFFICES ASSUME pc = "answered"
                 PROVE  Announced = pixels /\ Announced <= WholePages(buffer)
    BY DEF AnnouncedIsDecoded, Announced
  <2>2. Announced = pixels /\ buffer = pixels /\ buffer \in 0 .. MAX_ALLOCATION
    BY <1>1, <2>1 DEF IInv, Sized, LayoutAgrees
  <2>3. buffer \in Nat /\ buffer + PAGE < USIZE
    BY <2>2, LimitsAssumption, LayoutsAssumption
  <2> QED
    BY <2>2, <2>3, PagesHold
<1> QED
  BY <1>1, InductiveInvariant, PTL
=============================================================================
