------------------------------ MODULE TileGrid ------------------------------
(* From the size of a render to its tiles and back to one image: tiles.py, the *)
(* plan of start_distributed_render (worker.py 1614-1618) and stitch.py.       *)
(*                                                                             *)
(* A pixel is a pair <<column, row>>. Blender counts the rows of the scene and *)
(* of the tiles from the bottom, PIL those of every image from the top. Colours *)
(* are abstracted: a pixel of an image is known by the pixel of the scene it   *)
(* shows, and the canvas keeps, per pixel, what was composited onto it.        *)
EXTENDS Integers, FiniteSets

CONSTANTS Widths, Heights,   \* final_width, final_height
          NodeCounts,        \* connected workers, and the server if it renders
          Coefficients,      \* tile_coefficient
          Percents           \* overlap_percent

ASSUME GridAssumption ==
    /\ Widths \subseteq Nat \ {0} /\ Heights \subseteq Nat \ {0}
    /\ NodeCounts \subseteq Nat \ {0} /\ Coefficients \subseteq Nat \ {0}
    /\ Percents \subseteq Nat

VARIABLES
    phase,     \* "idle", "stitching", "saved" or "failed"
    width, height,
    nodes,     \* node_count
    tiles,     \* what generate_tiles has returned
    todo,      \* tiles stitch_tiles has not pasted yet
    canvas     \* base: pixel -> set of layers <<tile, pixel of the scene it shows>>

vars == <<phase, width, height, nodes, tiles, todo, canvas>>

Larger(a, b)  == IF a >= b THEN a ELSE b
Smaller(a, b) == IF a <= b THEN a ELSE b

-----------------------------------------------------------------------------
(* The plan *)

OverlapPixels(w, h, percent) == Larger(2, (Smaller(w, h) * percent) \div 100)

\* Mutated: the grid is not grown until it holds every node.
GridTooSmall(count) ==
    LET s == CHOOSE k \in 1..count : k * k <= count /\ count < (k + 1) * (k + 1)
    IN  [x |-> s, y |-> s]

\* The loop adds a column first, then a row.
GridForWorkerCount(count) ==
    LET s == CHOOSE k \in 1..count : k * k <= count /\ count < (k + 1) * (k + 1)
    IN  [x |-> IF s * s < count THEN s + 1 ELSE s,
         y |-> IF (s + 1) * s < count THEN s + 1 ELSE s]

TileTarget(count, coefficient) ==
    LET grid == GridForWorkerCount(count) IN grid.x * grid.y * 2 ^ (coefficient - 1)

\* |log a| < |log b| of the aspect ratio of two grids over that of the image
Closer(a, b, w, h) ==
    LET off(g) == [more |-> Larger(g.x * h, g.y * w), less |-> Smaller(g.x * h, g.y * w)]
    IN  off(a).more * off(b).less < off(b).more * off(a).less

\* grid_for_tile_count; among equals the rounding of the logarithms decides.
GridsForTileCount(count, w, h) ==
    LET factors == {g \in [x : 1..count, y : 1..count] : g.x * g.y = count}
    IN  {g \in factors : \A f \in factors : ~Closer(f, g, w, h)}

\* Mutated: what the division leaves over belongs to no tile.
RemainderLost(size, n, i) == [lo |-> i * (size \div n), hi |-> (i + 1) * (size \div n)]

\* The i-th of the n cores an axis is cut into: from lo up to, not including, hi
Core(size, n, i) ==
    [lo |-> i * (size \div n), hi |-> IF i = n - 1 THEN size ELSE (i + 1) * (size \div n)]

\* Mutated: the overlap leaves the image.
Spilled(core, size, overlap) ==
    [lo |-> Larger(0, core.lo - overlap), hi |-> core.hi + overlap]

Grown(core, size, overlap) ==
    [lo |-> Larger(0, core.lo - overlap), hi |-> Smaller(size, core.hi + overlap)]

Tile(w, h, grid, overlap, x, y) ==
    LET cx == Core(w, grid.x, x)
        cy == Core(h, grid.y, y)
    IN  [id |-> <<x, y>>, core_x |-> cx, core_y |-> cy,
         x |-> Grown(cx, w, overlap), y |-> Grown(cy, h, overlap)]

GenerateTiles(w, h, grid, overlap) ==
    {Tile(w, h, grid, overlap, x, y) : x \in 0..(grid.x - 1), y \in 0..(grid.y - 1)}

Pixels(w, h) == (0..(w - 1)) \X (0..(h - 1))

\* start_distributed_render; once every tile is rendered, stitch_tiles begins.
Plan ==
    /\ phase = "idle"
    /\ \E w \in Widths, h \in Heights, n \in NodeCounts, c \in Coefficients, p \in Percents :
          /\ width' = w /\ height' = h /\ nodes' = n
          /\ \E grid \in GridsForTileCount(TileTarget(n, c), w, h) :
                tiles' = GenerateTiles(w, h, grid, OverlapPixels(w, h, p))
          /\ canvas' = [p2 \in Pixels(w, h) |-> {}]
    /\ todo' = tiles'
    /\ phase' = "stitching"

-----------------------------------------------------------------------------
(* stitch_tiles *)

\* Sorted from the top row down, each from the left
Before(s, t) == \/ s.core_y.lo > t.core_y.lo
                \/ s.core_y.lo = t.core_y.lo /\ s.core_x.lo < t.core_x.lo

\* The crop of the image of a tile, and where it is pasted
Left(t)   == Larger(0, t.core_x.lo - t.x.lo)
CropW(t)  == Larger(1, t.core_x.hi - t.core_x.lo)
CropH(t)  == Larger(1, t.core_y.hi - t.core_y.lo)
PasteY(t, h) == Larger(0, h - t.core_y.hi)

\* Mutated: the rows of the image are counted from the bottom.
TopFromBelow(t) == Larger(0, t.core_y.lo - t.y.lo)

Top(t) == Larger(0, t.y.hi - t.core_y.hi)

\* The pixel of the scene that <<i, j>> of the image of a tile shows: nothing outside the
\* image, where the crop is transparent.
Shows(t, i, j) ==
    IF i < t.x.hi - t.x.lo /\ j < t.y.hi - t.y.lo
    THEN {<<t.x.lo + i, t.y.hi - 1 - j>>}
    ELSE {}

\* What pasting the tile adds to a pixel of a canvas that is h high
Layers(t, p, h) ==
    LET i == p[1] - t.core_x.lo
        j == p[2] - PasteY(t, h)
    IN  IF i \in 0..(CropW(t) - 1) /\ j \in 0..(CropH(t) - 1)
        THEN {<<t.id, s>> : s \in Shows(t, Left(t) + i, Top(t) + j)}
        ELSE {}

Paste(t) ==
    /\ phase = "stitching"
    /\ t \in todo /\ \A s \in todo : ~Before(s, t)
    /\ canvas' = [p \in DOMAIN canvas |-> canvas[p] \cup Layers(t, p, height)]
    /\ todo' = todo \ {t}
    /\ UNCHANGED <<phase, width, height, nodes, tiles>>

\* The file of a tile cannot be read: nothing is saved.
PasteFails ==
    /\ phase = "stitching" /\ todo # {}
    /\ phase' = "failed"
    /\ UNCHANGED <<width, height, nodes, tiles, todo, canvas>>

Save ==
    /\ phase = "stitching" /\ todo = {}
    /\ phase' = "saved"
    /\ UNCHANGED <<width, height, nodes, tiles, todo, canvas>>

-----------------------------------------------------------------------------
Init ==
    /\ phase = "idle"
    /\ width = 0 /\ height = 0 /\ nodes = 0
    /\ tiles = {} /\ todo = {}
    /\ canvas = <<>>

Next == Plan \/ PasteFails \/ Save \/ \E t \in todo : Paste(t)

Spec == Init /\ [][Next]_vars

-----------------------------------------------------------------------------
(* Properties *)

\* The scene's pixel at a pixel of the canvas
Under(p) == <<p[1], height - 1 - p[2]>>

Within(part, whole) == whole.lo <= part.lo /\ part.lo <= part.hi /\ part.hi <= whole.hi

\* Every variable has its type, and no tile leaves the image, nor a core its tile.
TypeOK ==
    /\ phase \in {"idle", "stitching", "saved", "failed"}
    /\ width \in Nat /\ height \in Nat /\ nodes \in Nat
    /\ todo \subseteq tiles
    /\ \A t \in tiles :
          /\ Within(t.core_x, t.x) /\ Within(t.x, [lo |-> 0, hi |-> width])
          /\ Within(t.core_y, t.y) /\ Within(t.y, [lo |-> 0, hi |-> height])
    /\ DOMAIN canvas = Pixels(width, height)

\* Whatever the size, the grid and the overlap, what is pasted onto a pixel of the image
\* shows the place of the scene at that pixel (the crop and the two flips of stitch.py 30-42).
EveryPixelIsItsOwn ==
    \A p \in DOMAIN canvas : \A layer \in canvas[p] : layer[2] = Under(p)

\* A saved image has no hole, and no pixel composited twice unless a core is empty, which
\* stitch_tiles widens to one pixel (stitch.py 34, tiles.py 64).
SavedIsWhole ==
    phase = "saved" =>
        \A p \in DOMAIN canvas :
            /\ canvas[p] # {}
            /\ \/ \A a, b \in canvas[p] : a = b
               \/ \E t \in tiles : t.core_x.lo = t.core_x.hi

\* There is a tile for every node that renders.
NodesHaveTiles == phase # "idle" => Cardinality(tiles) >= nodes
=============================================================================
