-------------------------- MODULE TileGrid_proofs --------------------------
(* Proofs about TileGrid, for every size of the image, grid and overlap: the   *)
(* cores of the tiles cut the image into parts, and stitching them puts every  *)
(* pixel of the scene where it belongs, once.                                  *)
EXTENDS TileGrid, FiniteSetTheorems, TLAPS

Positive == Nat \ {0}

\* What the integer division of tiles.py 64 leaves over is less than a part.
LEMMA Division ==
    ASSUME NEW size \in Nat, NEW n \in Positive
    PROVE  size \div n \in Nat /\ n * (size \div n) <= size /\ size < n * (size \div n) + n
BY DEF Positive

LEMMA TimesMonotone ==
    ASSUME NEW a \in Int, NEW b \in Int, NEW q \in Nat, a <= b
    PROVE  a * q <= b * q
OBVIOUS

LEMMA TimesCommute ==
    ASSUME NEW a \in Int, NEW b \in Int
    PROVE  a * b = b * a /\ a * b + a = (b + 1) * a
OBVIOUS

LEMMA TimesStrict ==
    ASSUME NEW a \in Int, NEW q \in Positive
    PROVE  a * q < (a + 1) * q
BY DEF Positive

\* A core lies in the axis it is cut from.
LEMMA CoreInAxis ==
    ASSUME NEW size \in Positive, NEW n \in Positive, NEW i \in 0..(n - 1)
    PROVE  LET c == Core(size, n, i)
           IN  c.lo \in Nat /\ c.hi \in Nat /\ c.lo <= c.hi /\ c.hi <= size
<1> DEFINE q == size \div n
<1>1. q \in Nat /\ n * q <= size
  BY Division DEF Positive
<1>2. i * q \in Nat /\ (i + 1) * q \in Nat
  BY <1>1 DEF Positive
<1>3. i * q <= (i + 1) * q
  BY <1>1, TimesMonotone DEF Positive
<1>4. (i + 1) * q <= n * q
  BY <1>1, TimesMonotone DEF Positive
<1> HIDE DEF q
<1>5. Core(size, n, i) = [lo |-> i * q, hi |-> IF i = n - 1 THEN size ELSE (i + 1) * q]
  BY DEF Core, q
<1>6. n * q \in Nat
  BY <1>1 DEF Positive
<1> QED
  BY <1>1, <1>2, <1>3, <1>4, <1>5, <1>6 DEF Positive

\* The core of a tile ends before that of a later one begins.
LEMMA CoresApart ==
    ASSUME NEW size \in Positive, NEW n \in Positive,
           NEW i \in 0..(n - 1), NEW j \in 0..(n - 1), i < j
    PROVE  Core(size, n, i).hi <= Core(size, n, j).lo
<1> DEFINE q == size \div n
<1>1. q \in Nat
  BY Division DEF Positive
<1>2. (i + 1) * q <= j * q
  BY <1>1, TimesMonotone DEF Positive
<1>3. i # n - 1
  BY DEF Positive
<1> QED
  BY <1>2, <1>3 DEF Core

\* An empty core lies at the edge: the axis has fewer pixels than parts.
LEMMA EmptyCoreAtEdge ==
    ASSUME NEW size \in Positive, NEW n \in Positive, NEW i \in 0..(n - 1),
           Core(size, n, i).lo = Core(size, n, i).hi
    PROVE  Core(size, n, i).lo = 0
<1> DEFINE q == size \div n
<1>1. q \in Nat /\ n * q <= size
  BY Division DEF Positive
<1>2. CASE q = 0
  BY <1>2 DEF Core
<1>3. CASE q # 0
  <2>1. i * q < (i + 1) * q
    BY <1>1, <1>3, TimesStrict DEF Positive
  <2>2. (i + 1) * q <= n * q
    BY <1>1, TimesMonotone DEF Positive
  <2>3. i * q \in Int /\ (i + 1) * q \in Int /\ n * q \in Int
    BY <1>1 DEF Positive
  <2> HIDE DEF q
  <2>4. Core(size, n, i) = [lo |-> i * q, hi |-> IF i = n - 1 THEN size ELSE (i + 1) * q]
    BY DEF Core, q
  <2>5. Core(size, n, i).lo < Core(size, n, i).hi
    BY <1>1, <2>1, <2>2, <2>3, <2>4 DEF Positive
  <2> QED
    BY <2>3, <2>4, <2>5 DEF Positive
<1> QED
  BY <1>2, <1>3

\* Every pixel of the axis lies in a core.
LEMMA CoresCover ==
    ASSUME NEW size \in Positive, NEW n \in Positive, NEW p \in 0..(size - 1)
    PROVE  \E i \in 0..(n - 1) : Core(size, n, i).lo <= p /\ p < Core(size, n, i).hi
<1> DEFINE q == size \div n
           last == n - 1
<1>1. q \in Nat
  BY Division DEF Positive
<1>2. last \in 0..(n - 1) /\ last * q \in Int
  BY <1>1 DEF Positive
<1>3. CASE last * q <= p
  <2>1. Core(size, n, last).lo <= p /\ p < Core(size, n, last).hi
    BY <1>3 DEF Core, Positive
  <2> QED
    BY <2>1, <1>2
<1>4. CASE ~(last * q <= p)
  <2>1. q \in Positive
    <3>1. q # 0
      BY <1>4, <1>2 DEF Positive
    <3> QED
      BY <3>1, <1>1 DEF Positive
  <2> HIDE DEF q
  <2> DEFINE i == p \div q
  <2>a. p \in Nat
    BY DEF Positive
  <2>2. i \in Nat /\ q * i <= p /\ p < q * i + q
    BY <2>1, <2>a, Division
  <2> HIDE DEF i
  <2>3. q * i = i * q /\ q * i + q = (i + 1) * q
    BY <2>1, <2>2, TimesCommute DEF Positive
  <2>4. i < last
    <3>1. SUFFICES ASSUME last <= i PROVE FALSE
      BY <2>2 DEF Positive
    <3>2. last * q <= i * q
      BY <3>1, <2>1, <2>2, TimesMonotone DEF Positive
    <3> HIDE DEF last
    <3>3. i * q \in Int
      BY <2>1, <2>2 DEF Positive
    <3> QED
      BY <3>2, <3>3, <2>a, <2>2, <2>3, <1>2, <1>4
  <2>5. i \in 0..(n - 1) /\ i # n - 1
    BY <2>2, <2>4 DEF Positive
  <2>6. Core(size, n, i).lo <= p /\ p < Core(size, n, i).hi
    <3>1. i * q <= p /\ p < (i + 1) * q
      BY <2>2, <2>3
    <3> QED
      BY <3>1, <2>5 DEF Core, q
  <2> QED
    BY <2>5, <2>6
<1> QED
  BY <1>3, <1>4

-----------------------------------------------------------------------------
(* The inductive invariant *)

Grids == [x : Positive, y : Positive]

\* What a layer of the canvas comes from
Pasted ==
    canvas = [p \in Pixels(width, height) |-> UNION {Layers(t, p, height) : t \in tiles \ todo}]

Planned ==
    /\ width \in Positive /\ height \in Positive
    /\ \E grid \in Grids, overlap \in Nat : tiles = GenerateTiles(width, height, grid, overlap)
    /\ Pasted

IInv ==
    /\ TypeOK
    /\ phase = "idle" => DOMAIN canvas = {}
    /\ phase # "idle" => Planned
    /\ phase = "saved" => todo = {}

\* An interval of naturals
Span == [lo : Nat, hi : Nat]

LEMMA CoreIsSpan ==
    ASSUME NEW size \in Positive, NEW n \in Positive, NEW i \in 0..(n - 1)
    PROVE  Core(size, n, i) \in Span
<1>1. Core(size, n, i) = [lo |-> Core(size, n, i).lo, hi |-> Core(size, n, i).hi]
  BY DEF Core
<1> QED
  BY <1>1, CoreInAxis DEF Span

\* Growing a core by the overlap keeps it in the axis.
LEMMA GrownInAxis ==
    ASSUME NEW size \in Positive, NEW c \in Span, c.lo <= c.hi, c.hi <= size, NEW overlap \in Nat
    PROVE  LET g == Grown(c, size, overlap)
           IN  g \in Span /\ Within(c, g) /\ Within(g, [lo |-> 0, hi |-> size])
BY DEF Span, Grown, Larger, Smaller, Within, Positive

IsTile(t, w, h) ==
    /\ t.core_x \in Span /\ t.x \in Span /\ t.core_y \in Span /\ t.y \in Span
    /\ Within(t.core_x, t.x) /\ Within(t.x, [lo |-> 0, hi |-> w])
    /\ Within(t.core_y, t.y) /\ Within(t.y, [lo |-> 0, hi |-> h])

\* A tile of the grid lies in the image, and its core in the tile.
LEMMA TilesInImage ==
    ASSUME NEW w \in Positive, NEW h \in Positive, NEW grid \in Grids, NEW overlap \in Nat,
           NEW t \in GenerateTiles(w, h, grid, overlap)
    PROVE  IsTile(t, w, h)
<1>1. PICK x \in 0..(grid.x - 1), y \in 0..(grid.y - 1) : t = Tile(w, h, grid, overlap, x, y)
  BY DEF GenerateTiles
<1>2. grid.x \in Positive /\ grid.y \in Positive
  BY DEF Grids
<1> DEFINE cx == Core(w, grid.x, x)
           cy == Core(h, grid.y, y)
<1>3. cx \in Span /\ cx.lo <= cx.hi /\ cx.hi <= w
  BY <1>2, CoreIsSpan, CoreInAxis
<1>4. cy \in Span /\ cy.lo <= cy.hi /\ cy.hi <= h
  BY <1>2, CoreIsSpan, CoreInAxis
<1>5. t = [id |-> <<x, y>>, core_x |-> cx, core_y |-> cy,
           x |-> Grown(cx, w, overlap), y |-> Grown(cy, h, overlap)]
  BY <1>1 DEF Tile
<1> HIDE DEF cx, cy
<1>6. Grown(cx, w, overlap) \in Span /\ Within(cx, Grown(cx, w, overlap))
      /\ Within(Grown(cx, w, overlap), [lo |-> 0, hi |-> w])
  BY <1>3, GrownInAxis
<1>7. Grown(cy, h, overlap) \in Span /\ Within(cy, Grown(cy, h, overlap))
      /\ Within(Grown(cy, h, overlap), [lo |-> 0, hi |-> h])
  BY <1>4, GrownInAxis
<1> QED
  BY <1>3, <1>4, <1>5, <1>6, <1>7 DEF IsTile

LEMMA InitIInv == Init => IInv
<1> SUFFICES ASSUME Init PROVE IInv
  OBVIOUS
<1>1. DOMAIN canvas = {} /\ DOMAIN canvas = Pixels(width, height)
  BY DEF Init, Pixels
<1> QED
  BY <1>1 DEF Init, IInv, TypeOK

LEMMA OverlapIsNat ==
    ASSUME NEW w \in Nat, NEW h \in Nat, NEW percent \in Nat
    PROVE  OverlapPixels(w, h, percent) \in Nat
<1> DEFINE b == Smaller(w, h) * percent
<1>1. b \in Nat
  <2>1. Smaller(w, h) \in Nat
    BY DEF Smaller
  <2> QED
    BY <2>1
<1>2. b \div 100 \in Nat
  BY <1>1, Division DEF Positive
<1> HIDE DEF b
<1>3. OverlapPixels(w, h, percent) = Larger(2, b \div 100)
  BY DEF OverlapPixels, b
<1> QED
  BY <1>2, <1>3 DEF Larger

LEMMA PlanIInv == IInv /\ Plan => IInv'
<1> SUFFICES ASSUME IInv, Plan PROVE IInv'
  OBVIOUS
<1>1. PICK w \in Widths, h \in Heights, n \in NodeCounts, c \in Coefficients, q \in Percents :
        /\ width' = w /\ height' = h /\ nodes' = n
        /\ \E grid \in GridsForTileCount(TileTarget(n, c), w, h) :
              tiles' = GenerateTiles(w, h, grid, OverlapPixels(w, h, q))
        /\ canvas' = [p2 \in Pixels(w, h) |-> {}]
  BY DEF Plan
<1>2. w \in Positive /\ h \in Positive /\ n \in Nat /\ q \in Nat
  BY GridAssumption DEF Positive
<1>3. PICK grid \in GridsForTileCount(TileTarget(n, c), w, h) :
        tiles' = GenerateTiles(w, h, grid, OverlapPixels(w, h, q))
  BY <1>1
<1>4. grid \in Grids
  BY DEF GridsForTileCount, Grids, Positive
<1>5. OverlapPixels(w, h, q) \in Nat
  BY <1>2, OverlapIsNat DEF Positive
<1>6. todo' = tiles' /\ phase' = "stitching"
  BY DEF Plan
<1>7. \A t \in tiles' : IsTile(t, w, h)
  BY <1>2, <1>3, <1>4, <1>5, TilesInImage
<1>8. TypeOK'
  BY <1>1, <1>2, <1>6, <1>7 DEF TypeOK, IsTile, Positive
<1>9. Pasted'
  BY <1>1, <1>6 DEF Pasted
<1> QED
  BY <1>1, <1>2, <1>3, <1>4, <1>5, <1>6, <1>8, <1>9 DEF IInv, Planned

LEMMA PasteIInv == ASSUME IInv, NEW t \in todo, Paste(t) PROVE IInv'
<1>1. UNCHANGED <<phase, width, height, nodes, tiles>> /\ phase = "stitching"
  BY DEF Paste
<1>2. Planned /\ TypeOK
  BY <1>1 DEF IInv
<1>3. todo' = todo \ {t} /\ t \in tiles /\ tiles \ todo' = (tiles \ todo) \cup {t}
  BY <1>2 DEF Paste, TypeOK
<1>4. canvas' = [p \in DOMAIN canvas |-> canvas[p] \cup Layers(t, p, height)]
  BY DEF Paste
<1>5. Pasted'
  <2>1. DOMAIN canvas = Pixels(width, height)
    BY <1>2 DEF TypeOK
  <2>2. ASSUME NEW p \in Pixels(width, height)
        PROVE  canvas[p] \cup Layers(t, p, height) = UNION {Layers(s, p, height) : s \in tiles \ todo'}
    BY <1>2, <1>3, <2>2 DEF Planned, Pasted
  <2>3. canvas' = [p \in Pixels(width, height) |->
                     UNION {Layers(s, p, height) : s \in tiles \ todo'}]
    BY <1>4, <2>1, <2>2
  <2> QED
    BY <1>1, <2>3 DEF Pasted
<1>6. TypeOK'
  BY <1>1, <1>2, <1>3, <1>4 DEF TypeOK
<1>7. Planned'
  BY <1>1, <1>2, <1>5 DEF Planned
<1> QED
  BY <1>1, <1>6, <1>7 DEF IInv

\* Between two pastings nothing but the phase changes.
LEMMA PlanKept ==
    ASSUME UNCHANGED <<width, height, tiles, todo, canvas>>, Planned
    PROVE  Planned'
<1>1. Pasted
  BY DEF Planned
<1>2. Pasted'
  BY <1>1 DEF Pasted
<1>3. width' \in Positive /\ height' \in Positive
  BY DEF Planned
<1>4. PICK grid \in Grids, overlap \in Nat : tiles = GenerateTiles(width, height, grid, overlap)
  BY DEF Planned
<1>5. tiles' = GenerateTiles(width', height', grid, overlap)
  BY <1>4
<1> QED
  BY <1>2, <1>3, <1>5 DEF Planned

LEMMA TypeKept ==
    ASSUME UNCHANGED <<width, height, nodes, tiles, todo, canvas>>, TypeOK,
           phase' \in {"idle", "stitching", "saved", "failed"}
    PROVE  TypeOK'
BY DEF TypeOK

LEMMA NextIInv == IInv /\ [Next]_vars => IInv'
<1> SUFFICES ASSUME IInv, [Next]_vars PROVE IInv'
  OBVIOUS
<1>1. CASE Plan
  BY <1>1, PlanIInv
<1>2. ASSUME NEW t \in todo, Paste(t) PROVE IInv'
  BY <1>2, PasteIInv
<1>3. CASE PasteFails
  BY <1>3, PlanKept, TypeKept DEF PasteFails, IInv
<1>4. CASE Save
  BY <1>4, PlanKept, TypeKept DEF Save, IInv
<1>5. CASE UNCHANGED vars
  <2>1. phase' = phase /\ phase \in {"idle", "stitching", "saved", "failed"}
    BY <1>5 DEF vars, IInv, TypeOK
  <2> QED
    BY <1>5, <2>1, PlanKept, TypeKept DEF vars, IInv
<1> QED
  BY <1>1, <1>2, <1>3, <1>4, <1>5 DEF Next

LEMMA InvariantIInv == Spec => []IInv
BY InitIInv, NextIInv, PTL DEF Spec

\* No tile leaves the image and no core its tile, whatever the size, the grid and the overlap
\* (tiles.py 57).
THEOREM TypeCorrect == Spec => []TypeOK
<1>1. IInv => TypeOK
  BY DEF IInv
<1> QED
  BY <1>1, InvariantIInv, PTL

-----------------------------------------------------------------------------
(* The image *)

\* A layer comes from the tile of its id and shows the place under the pixel.
LEMMA LayerOfTile ==
    ASSUME NEW w \in Positive, NEW h \in Positive, NEW t, IsTile(t, w, h),
           NEW x \in 0..(w - 1), NEW y \in 0..(h - 1),
           NEW layer \in Layers(t, <<x, y>>, h)
    PROVE  /\ layer = <<t.id, <<x, h - 1 - y>>>>
           /\ x - t.core_x.lo \in 0..(CropW(t) - 1)
           /\ h - 1 - y < t.core_y.hi
           /\ t.y.lo <= h - 1 - y
           /\ t.core_y.lo < t.core_y.hi => t.core_y.lo <= h - 1 - y
<1> DEFINE i == x - t.core_x.lo
           j == y - PasteY(t, h)
<1>1. i \in 0..(CropW(t) - 1) /\ j \in 0..(CropH(t) - 1)
  BY DEF Layers
<1>2. PICK s \in Shows(t, Left(t) + i, Top(t) + j) : layer = <<t.id, s>>
  BY DEF Layers
<1>3. /\ t.core_x.lo \in Nat /\ t.core_x.hi \in Nat /\ t.core_y.lo \in Nat /\ t.core_y.hi \in Nat
      /\ t.x.lo \in Nat /\ t.x.hi \in Nat /\ t.y.lo \in Nat /\ t.y.hi \in Nat
  BY DEF IsTile, Span
<1>4. /\ t.x.lo <= t.core_x.lo /\ t.core_x.lo <= t.core_x.hi /\ t.core_x.hi <= t.x.hi
      /\ t.y.lo <= t.core_y.lo /\ t.core_y.lo <= t.core_y.hi /\ t.core_y.hi <= t.y.hi
      /\ t.y.hi <= h
  BY DEF IsTile, Within
<1>5. Left(t) = t.core_x.lo - t.x.lo /\ Top(t) = t.y.hi - t.core_y.hi
      /\ PasteY(t, h) = h - t.core_y.hi
  BY <1>3, <1>4 DEF Left, Top, PasteY, Larger, Positive
<1>6. s = <<t.x.lo + (Left(t) + i), t.y.hi - 1 - (Top(t) + j)>> /\ Top(t) + j < t.y.hi - t.y.lo
  BY <1>2 DEF Shows
<1>7. t.x.lo + (Left(t) + i) = x /\ t.y.hi - 1 - (Top(t) + j) = h - 1 - y
  BY <1>3, <1>5 DEF Positive
<1>8. t.core_y.lo < t.core_y.hi => j < t.core_y.hi - t.core_y.lo
  BY <1>1, <1>3 DEF CropH, Larger
<1> QED
  BY <1>1, <1>2, <1>3, <1>5, <1>6, <1>7, <1>8 DEF Positive

\* The tile whose core holds a place gives its pixel a layer.
LEMMA CoreGivesLayer ==
    ASSUME NEW w \in Positive, NEW h \in Positive, NEW t, IsTile(t, w, h),
           NEW x \in 0..(w - 1), NEW y \in 0..(h - 1),
           t.core_x.lo <= x, x < t.core_x.hi,
           t.core_y.lo <= h - 1 - y, h - 1 - y < t.core_y.hi
    PROVE  Layers(t, <<x, y>>, h) # {}
<1> DEFINE i == x - t.core_x.lo
           j == y - PasteY(t, h)
<1>1. /\ t.core_x.lo \in Nat /\ t.core_x.hi \in Nat /\ t.core_y.lo \in Nat /\ t.core_y.hi \in Nat
      /\ t.x.lo \in Nat /\ t.x.hi \in Nat /\ t.y.lo \in Nat /\ t.y.hi \in Nat
  BY DEF IsTile, Span
<1>2. /\ t.x.lo <= t.core_x.lo /\ t.core_x.hi <= t.x.hi
      /\ t.y.lo <= t.core_y.lo /\ t.core_y.hi <= t.y.hi /\ t.y.hi <= h
  BY DEF IsTile, Within
<1>3. Left(t) = t.core_x.lo - t.x.lo /\ Top(t) = t.y.hi - t.core_y.hi
      /\ PasteY(t, h) = h - t.core_y.hi
  BY <1>1, <1>2 DEF Left, Top, PasteY, Larger, Positive
<1>4. CropW(t) = t.core_x.hi - t.core_x.lo /\ CropH(t) = t.core_y.hi - t.core_y.lo
  BY <1>1 DEF CropW, CropH, Larger, Positive
<1>5. i \in 0..(CropW(t) - 1) /\ j \in 0..(CropH(t) - 1)
  BY <1>1, <1>3, <1>4 DEF Positive
<1>6. Left(t) + i < t.x.hi - t.x.lo /\ Top(t) + j < t.y.hi - t.y.lo
  BY <1>1, <1>2, <1>3 DEF Positive
<1>7. Shows(t, Left(t) + i, Top(t) + j) # {}
  BY <1>6 DEF Shows
<1> QED
  BY <1>5, <1>7 DEF Layers

LEMMA PlannedTiles ==
    ASSUME Planned, NEW t \in tiles
    PROVE  IsTile(t, width, height)
BY TilesInImage DEF Planned

LEMMA LayersOnCanvas ==
    ASSUME Planned, NEW p \in DOMAIN canvas
    PROVE  /\ canvas[p] = UNION {Layers(t, p, height) : t \in tiles \ todo}
           /\ \E x \in 0..(width - 1), y \in 0..(height - 1) : p = <<x, y>>
<1>1. p \in Pixels(width, height)
  BY DEF Planned, Pasted
<1> QED
  BY <1>1 DEF Planned, Pasted, Pixels

\* Whatever the size, the grid and the overlap, a pixel of the image shows its own place of
\* the scene: crop, flips and paste of stitch.py 30-42 agree with the borders of tiles.py.
THEOREM PixelsAreTheirOwn == Spec => []EveryPixelIsItsOwn
<1>1. IInv => EveryPixelIsItsOwn
  <2> SUFFICES ASSUME IInv, NEW p \in DOMAIN canvas, NEW layer \in canvas[p]
               PROVE  layer[2] = Under(p)
    BY DEF EveryPixelIsItsOwn
  <2>1. CASE phase = "idle"
    BY <2>1 DEF IInv
  <2>2. CASE phase # "idle"
    <3>1. Planned
      BY <2>2 DEF IInv
    <3>2. PICK t \in tiles \ todo : layer \in Layers(t, p, height)
      BY <3>1, LayersOnCanvas
    <3>3. PICK x \in 0..(width - 1), y \in 0..(height - 1) : p = <<x, y>>
      BY <3>1, LayersOnCanvas
    <3>4. layer = <<t.id, <<x, height - 1 - y>>>>
      BY <3>1, <3>2, <3>3, PlannedTiles, LayerOfTile DEF Planned
    <3> QED
      BY <3>3, <3>4 DEF Under
  <2> QED
    BY <2>1, <2>2
<1> QED
  BY <1>1, InvariantIInv, PTL

\* The cores of the columns, or of the rows, of two tiles share no place.
LEMMA SharedCore ==
    ASSUME NEW size \in Positive, NEW n \in Positive,
           NEW i \in 0..(n - 1), NEW j \in 0..(n - 1), NEW p \in Int,
           Core(size, n, i).lo <= p, p < Core(size, n, i).hi,
           Core(size, n, j).lo <= p, p < Core(size, n, j).hi
    PROVE  i = j
<1>1. /\ Core(size, n, i).lo \in Nat /\ Core(size, n, i).hi \in Nat
      /\ Core(size, n, j).lo \in Nat /\ Core(size, n, j).hi \in Nat
  BY CoreInAxis
<1>2. CASE i < j
  <2>1. Core(size, n, i).hi <= Core(size, n, j).lo
    BY <1>2, CoresApart
  <2> QED
    BY <1>1, <2>1
<1>3. CASE j < i
  <2>1. Core(size, n, j).hi <= Core(size, n, i).lo
    BY <1>3, CoresApart
  <2> QED
    BY <1>1, <2>1
<1> QED
  BY <1>2, <1>3 DEF Positive

EmptyColumn == \E t \in tiles : t.core_x.lo = t.core_x.hi

\* A layer on a pixel means that the core of its tile holds the pixel's place, unless the
\* core has no column.
LEMMA LayerInCore ==
    ASSUME NEW w \in Positive, NEW h \in Positive, NEW grid \in Grids, NEW overlap \in Nat,
           NEW gx \in 0..(grid.x - 1), NEW gy \in 0..(grid.y - 1), NEW t,
           t = Tile(w, h, grid, overlap, gx, gy), t.core_x.lo # t.core_x.hi,
           NEW x \in 0..(w - 1), NEW y \in 0..(h - 1),
           NEW layer \in Layers(t, <<x, y>>, h)
    PROVE  /\ layer = <<<<gx, gy>>, <<x, h - 1 - y>>>>
           /\ Core(w, grid.x, gx).lo <= x /\ x < Core(w, grid.x, gx).hi
           /\ Core(h, grid.y, gy).lo <= h - 1 - y /\ h - 1 - y < Core(h, grid.y, gy).hi
<1> DEFINE cx == Core(w, grid.x, gx)
           cy == Core(h, grid.y, gy)
<1>1. t.id = <<gx, gy>> /\ t.core_x = cx /\ t.core_y = cy
  BY DEF Tile
<1>2. t \in GenerateTiles(w, h, grid, overlap)
  BY DEF GenerateTiles
<1>3. IsTile(t, w, h)
  BY <1>2, TilesInImage
<1>4. grid.x \in Positive /\ grid.y \in Positive
  BY DEF Grids
<1>5. /\ cx.lo \in Nat /\ cx.hi \in Nat /\ cx.lo <= cx.hi
      /\ cy.lo \in Nat /\ cy.hi \in Nat /\ cy.lo <= cy.hi
  BY <1>4, CoreInAxis
<1>6. /\ layer = <<t.id, <<x, h - 1 - y>>>>
      /\ x - t.core_x.lo \in 0..(CropW(t) - 1)
      /\ h - 1 - y < t.core_y.hi
      /\ t.core_y.lo < t.core_y.hi => t.core_y.lo <= h - 1 - y
  BY <1>3, LayerOfTile
<1>7. cy.lo = cy.hi => cy.lo = 0
  BY <1>4, EmptyCoreAtEdge
<1> HIDE DEF cx, cy
<1>8. cy.lo < cy.hi
  <2>1. cy.lo # cy.hi
    <3>1. SUFFICES ASSUME cy.lo = cy.hi PROVE FALSE
      OBVIOUS
    <3>2. h - 1 - y < 0
      BY <1>1, <1>6, <1>7, <3>1
    <3> QED
      BY <3>2 DEF Positive
  <2> QED
    BY <1>5, <2>1
<1>9. CropW(t) = cx.hi - cx.lo
  BY <1>1, <1>5 DEF CropW, Larger
<1>10. cx.lo <= x /\ x < cx.hi
  BY <1>1, <1>5, <1>6, <1>9 DEF Positive
<1>11. cy.lo <= h - 1 - y /\ h - 1 - y < cy.hi
  BY <1>1, <1>6, <1>8
<1>12. layer = <<<<gx, gy>>, <<x, h - 1 - y>>>>
  BY <1>1, <1>6
<1> QED
  BY <1>10, <1>11, <1>12 DEF cx, cy

\* A saved image has no hole and no pixel composited twice, unless there are more columns of
\* tiles than of pixels: the cores cut the image into parts (tiles.py 64-74).
THEOREM SavedImagesAreWhole == Spec => []SavedIsWhole
<1>1. IInv => SavedIsWhole
  <2> SUFFICES ASSUME IInv, phase = "saved", NEW p \in DOMAIN canvas
               PROVE  canvas[p] # {} /\ ((\A a, b \in canvas[p] : a = b) \/ EmptyColumn)
    BY DEF SavedIsWhole, EmptyColumn
  <2>1. Planned /\ todo = {}
    BY DEF IInv
  <2>2. width \in Positive /\ height \in Positive
    BY <2>1 DEF Planned
  <2>3. PICK grid \in Grids, overlap \in Nat :
          tiles = GenerateTiles(width, height, grid, overlap)
    BY <2>1 DEF Planned
  <2>4. PICK x \in 0..(width - 1), y \in 0..(height - 1) : p = <<x, y>>
    BY <2>1, LayersOnCanvas
  <2>5. canvas[p] = UNION {Layers(t, p, height) : t \in tiles}
    BY <2>1, LayersOnCanvas
  <2>6. grid.x \in Positive /\ grid.y \in Positive
    BY <2>3 DEF Grids
  <2>7. canvas[p] # {}
    <3>1. PICK gx \in 0..(grid.x - 1) :
            Core(width, grid.x, gx).lo <= x /\ x < Core(width, grid.x, gx).hi
      BY <2>2, <2>6, CoresCover
    <3>2. height - 1 - y \in 0..(height - 1)
      BY <2>2 DEF Positive
    <3>3. PICK gy \in 0..(grid.y - 1) :
            /\ Core(height, grid.y, gy).lo <= height - 1 - y
            /\ height - 1 - y < Core(height, grid.y, gy).hi
      BY <2>2, <2>6, <3>2, CoresCover
    <3> DEFINE t == Tile(width, height, grid, overlap, gx, gy)
    <3>4. t \in tiles
      BY <2>3 DEF GenerateTiles
    <3>5. t.core_x = Core(width, grid.x, gx) /\ t.core_y = Core(height, grid.y, gy)
      BY DEF Tile
    <3>6. IsTile(t, width, height)
      BY <2>1, <3>4, PlannedTiles
    <3> HIDE DEF t
    <3>7. Layers(t, <<x, y>>, height) # {}
      BY <2>2, <3>1, <3>3, <3>5, <3>6, CoreGivesLayer
    <3> QED
      BY <2>4, <2>5, <3>4, <3>7
  <2>8. ASSUME ~EmptyColumn, NEW a \in canvas[p], NEW b \in canvas[p]
        PROVE  a = b
    <3>1. PICK s \in tiles, t \in tiles :
            a \in Layers(s, p, height) /\ b \in Layers(t, p, height)
      BY <2>5
    <3>2. PICK sx \in 0..(grid.x - 1), sy \in 0..(grid.y - 1) :
            s = Tile(width, height, grid, overlap, sx, sy)
      BY <2>3, <3>1 DEF GenerateTiles
    <3>3. PICK tx \in 0..(grid.x - 1), ty \in 0..(grid.y - 1) :
            t = Tile(width, height, grid, overlap, tx, ty)
      BY <2>3, <3>1 DEF GenerateTiles
    <3>4. s.core_x.lo # s.core_x.hi /\ t.core_x.lo # t.core_x.hi
      BY <2>8 DEF EmptyColumn
    <3>5. /\ a = <<<<sx, sy>>, <<x, height - 1 - y>>>>
          /\ Core(width, grid.x, sx).lo <= x /\ x < Core(width, grid.x, sx).hi
          /\ Core(height, grid.y, sy).lo <= height - 1 - y
          /\ height - 1 - y < Core(height, grid.y, sy).hi
      BY <2>2, <2>4, <3>1, <3>2, <3>4, LayerInCore
    <3>6. /\ b = <<<<tx, ty>>, <<x, height - 1 - y>>>>
          /\ Core(width, grid.x, tx).lo <= x /\ x < Core(width, grid.x, tx).hi
          /\ Core(height, grid.y, ty).lo <= height - 1 - y
          /\ height - 1 - y < Core(height, grid.y, ty).hi
      BY <2>2, <2>4, <3>1, <3>3, <3>4, LayerInCore
    <3>7. x \in Int /\ height - 1 - y \in Int
      BY <2>2 DEF Positive
    <3>8. sx = tx
      BY <2>2, <2>6, <3>5, <3>6, <3>7, SharedCore
    <3>9. sy = ty
      BY <2>2, <2>6, <3>5, <3>6, <3>7, SharedCore
    <3> QED
      BY <3>5, <3>6, <3>8, <3>9
  <2> QED
    BY <2>7, <2>8
<1> QED
  BY <1>1, InvariantIInv, PTL

-----------------------------------------------------------------------------
(* A tile for every node *)

\* The library states well-foundedness of an operator; this is the relation it means.
LEMMA LessThan == OpToRel(<, Nat) = {pair \in Nat \X Nat : pair[1] < pair[2]}
BY Zenon DEF OpToRel

LEMMA SmallestOf ==
    ASSUME NEW S \in SUBSET Nat, S # {}
    PROVE  \E k \in S : \A m \in S : k <= m
<1> DEFINE below == {pair \in Nat \X Nat : pair[1] < pair[2]}
<1>1. IsWellFoundedOn(below, Nat)
  BY Zenon, NatLessThanWellFounded, LessThan
<1>2. PICK k \in S : \A m \in S : ~(<<m, k>> \in below)
  <2> HIDE DEF below
  <2> QED
    BY <1>1, WFMin
<1>3. ASSUME NEW m \in S PROVE k <= m
  <2>1. k \in Nat /\ m \in Nat /\ <<m, k>>[1] = m /\ <<m, k>>[2] = k
    OBVIOUS
  <2>2. ~(m < k)
    BY <1>2, <2>1
  <2> QED
    BY <2>1, <2>2
<1> QED
  BY <1>3

\* The square root that grid_for_worker_count rounds down exists, so its CHOOSE is meant.
LEMMA RootExists ==
    ASSUME NEW count \in Positive
    PROVE  \E k \in 1..count : k * k <= count /\ count < (k + 1) * (k + 1)
<1> DEFINE S == {m \in Nat : count < (m + 1) * (m + 1)}
<1>1. count \in Nat /\ count # 0
  BY DEF Positive
<1>2. count < (count + 1) * (count + 1)
  BY <1>1
<1>3. count \in S
  BY <1>1, <1>2
<1>4. PICK k \in S : \A m \in S : k <= m
  <2> HIDE DEF S
  <2>1. S # {}
    BY <1>3
  <2>2. S \in SUBSET Nat
    BY DEF S
  <2> QED
    BY <2>1, <2>2, SmallestOf
<1>5. k \in Nat /\ k <= count /\ k # 0
  BY <1>1, <1>3, <1>4
<1>6. k - 1 \notin S
  BY <1>4, <1>5
<1>7. k * k <= count
  BY <1>1, <1>5, <1>6
<1> QED
  BY <1>4, <1>5, <1>7

\* The grid of grid_for_worker_count has room for every node.
LEMMA GridIsLargeEnough ==
    ASSUME NEW count \in Positive
    PROVE  LET grid == GridForWorkerCount(count)
           IN  grid.x \in Positive /\ grid.y \in Positive /\ count <= grid.x * grid.y
<1> DEFINE s == CHOOSE k \in 1..count : k * k <= count /\ count < (k + 1) * (k + 1)
<1>1. s \in 1..count /\ s * s <= count /\ count < (s + 1) * (s + 1)
  BY RootExists
<1>2. GridForWorkerCount(count) = [x |-> IF s * s < count THEN s + 1 ELSE s,
                                   y |-> IF (s + 1) * s < count THEN s + 1 ELSE s]
  BY DEF GridForWorkerCount
<1> HIDE DEF s
<1>3. count \in Nat /\ s \in Nat /\ s # 0 /\ s * s \in Nat /\ (s + 1) * s = s * s + s
  BY <1>1 DEF Positive
<1>4. CASE s * s = count
  BY <1>2, <1>3, <1>4 DEF Positive
<1>5. CASE s * s < count
  BY <1>1, <1>2, <1>3, <1>5 DEF Positive
<1> QED
  BY <1>1, <1>3, <1>4, <1>5

LEMMA PowersOfTwo == ASSUME NEW n \in Nat PROVE 2 ^ n \in Positive
<1>1. IsFiniteSet(1..n) /\ Cardinality(1..n) = n
  BY FS_Interval
<1>2. IsFiniteSet(SUBSET (1..n)) /\ Cardinality(SUBSET (1..n)) = 2 ^ n
  BY <1>1, FS_SUBSET
<1>3. SUBSET (1..n) # {}
  OBVIOUS
<1> QED
  BY <1>2, <1>3, FS_CardinalityType, FS_EmptySet DEF Positive

\* tile_coefficient only multiplies the tiles: the target is at least the number of nodes.
LEMMA TargetIsLargeEnough ==
    ASSUME NEW count \in Positive, NEW coefficient \in Positive
    PROVE  TileTarget(count, coefficient) \in Positive /\ count <= TileTarget(count, coefficient)
<1> DEFINE grid == GridForWorkerCount(count)
           power == 2 ^ (coefficient - 1)
<1>1. power \in Positive
  BY PowersOfTwo DEF Positive
<1>2. grid.x \in Positive /\ grid.y \in Positive /\ count <= grid.x * grid.y
  BY GridIsLargeEnough
<1>3. TileTarget(count, coefficient) = grid.x * grid.y * power
  BY DEF TileTarget
<1> HIDE DEF grid, power
<1> DEFINE room == grid.x * grid.y
<1>4. room \in Positive
  BY <1>2 DEF Positive
<1> HIDE DEF room
<1>5. 1 * room <= power * room /\ power * room = room * power /\ room * power \in Positive
  BY <1>1, <1>4, TimesMonotone, TimesCommute DEF Positive
<1>6. TileTarget(count, coefficient) = room * power /\ count <= room
  BY <1>2, <1>3 DEF room
<1> QED
  BY <1>4, <1>5, <1>6 DEF Positive

\* A grid has as many tiles as columns times rows: no two places make the same tile.
LEMMA TilesOfGrid ==
    ASSUME NEW w, NEW h, NEW grid \in Grids, NEW overlap
    PROVE  Cardinality(GenerateTiles(w, h, grid, overlap)) = grid.x * grid.y
<1> DEFINE columns == 0..(grid.x - 1)
           rows == 0..(grid.y - 1)
           places == columns \X rows
           tile == [q \in places |-> Tile(w, h, grid, overlap, q[1], q[2])]
           made == GenerateTiles(w, h, grid, overlap)
<1>1. grid.x \in Nat /\ grid.y \in Nat
  BY DEF Grids, Positive
<1>2. IsFiniteSet(columns) /\ Cardinality(columns) = grid.x
      /\ IsFiniteSet(rows) /\ Cardinality(rows) = grid.y
  <2>1. \A n \in Positive : IsFiniteSet(0..(n - 1)) /\ Cardinality(0..(n - 1)) = n
    BY FS_Interval DEF Positive
  <2> QED
    BY <2>1 DEF Grids
<1>3. IsFiniteSet(places) /\ Cardinality(places) = grid.x * grid.y
  BY <1>2, FS_Product
<1>4. \A q \in places : q = <<q[1], q[2]>> /\ q[1] \in columns /\ q[2] \in rows
  OBVIOUS
<1>5. \A q \in places : tile[q].id = q
  BY <1>4 DEF Tile
<1>6. tile \in Injection(places, made)
  <2>1. tile \in [places -> made]
    BY <1>4 DEF GenerateTiles
  <2> HIDE DEF tile, places, made
  <2>2. \A a, b \in places : tile[a] = tile[b] => a = b
    BY <1>5
  <2> QED
    BY <2>1, <2>2 DEF Injection, IsInjective
<1>7. tile \in Surjection(places, made)
  <2>1. ASSUME NEW t \in made PROVE \E q \in places : tile[q] = t
    <3>1. PICK x \in columns, y \in rows : t = Tile(w, h, grid, overlap, x, y)
      BY DEF GenerateTiles
    <3>2. <<x, y>> \in places /\ tile[<<x, y>>] = t
      BY <3>1
    <3> QED
      BY <3>2
  <2>2. tile \in [places -> made]
    BY <1>4 DEF GenerateTiles
  <2> HIDE DEF tile, places, made
  <2> QED
    BY <2>1, <2>2 DEF Surjection
<1> HIDE DEF tile, places, made
<1>8. Cardinality(made) = Cardinality(places)
  BY <1>3, <1>6, <1>7, FS_Surjection
<1> QED
  BY <1>3, <1>8 DEF made

\* There is a tile for every node that renders: the plan of start_distributed_render leaves no
\* worker without work, whatever the size of the image and the tile coefficient.
THEOREM EveryNodeHasATile == Spec => []NodesHaveTiles
<1>1. Init => NodesHaveTiles
  BY DEF Init, NodesHaveTiles
<1>2. NodesHaveTiles /\ [Next]_vars => NodesHaveTiles'
  <2> SUFFICES ASSUME NodesHaveTiles, [Next]_vars PROVE NodesHaveTiles'
    OBVIOUS
  <2>1. CASE Plan
    <3>1. PICK w \in Widths, h \in Heights, n \in NodeCounts, c \in Coefficients, q \in Percents :
            /\ nodes' = n
            /\ \E grid \in GridsForTileCount(TileTarget(n, c), w, h) :
                  tiles' = GenerateTiles(w, h, grid, OverlapPixels(w, h, q))
      BY <2>1 DEF Plan
    <3>2. n \in Positive /\ c \in Positive
      BY GridAssumption DEF Positive
    <3>3. TileTarget(n, c) \in Positive /\ n <= TileTarget(n, c)
      BY <3>2, TargetIsLargeEnough
    <3>4. PICK grid \in GridsForTileCount(TileTarget(n, c), w, h) :
            tiles' = GenerateTiles(w, h, grid, OverlapPixels(w, h, q))
      BY <3>1
    <3>5. grid \in Grids /\ grid.x * grid.y = TileTarget(n, c)
      BY DEF GridsForTileCount, Grids, Positive
    <3>6. Cardinality(tiles') = grid.x * grid.y
      BY <3>4, <3>5, TilesOfGrid
    <3> QED
      BY <3>1, <3>2, <3>3, <3>5, <3>6 DEF NodesHaveTiles, Positive
  <2>2. CASE PasteFails \/ Save \/ \E t \in todo : Paste(t)
    <3>1. phase = "stitching" /\ UNCHANGED <<tiles, nodes>>
      BY <2>2 DEF PasteFails, Save, Paste
    <3> QED
      BY <3>1 DEF NodesHaveTiles
  <2>3. CASE UNCHANGED vars
    BY <2>3 DEF NodesHaveTiles, vars
  <2> QED
    BY <2>1, <2>2, <2>3 DEF Next
<1> QED
  BY <1>1, <1>2, PTL DEF Spec
=============================================================================
