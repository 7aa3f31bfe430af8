----------------------------- MODULE Compositor -----------------------------
(***************************************************************************)
(* VideoCompositor (src/src/video_compositor.cpp): which users' frames it  *)
(* keeps and the regions of the canvas it draws them into.  Pixels are     *)
(* left out, and so is the order of the users, which decides who is drawn  *)
(* where.  The aspect ratios are exact; the code compares floats.          *)
(***************************************************************************)
EXTENDS Integers, FiniteSets

CONSTANTS
    Members,
    Canvases,       \* outputWidth and outputHeight, as <<width, height>>
    Sources,        \* sizes of users' frames
    CustomRegions   \* config_.regions: the sets of regions a task may ask for

Boxes == [x : Int, y : Int, w : Int, h : Int]

ASSUME CompositorAssumption ==
    /\ IsFiniteSet(Members)
    /\ Canvases \subseteq Nat \X Nat /\ Sources \subseteq (Nat \ {0}) \X (Nat \ {0})
    /\ \A rs \in CustomRegions : \A i \in DOMAIN rs : rs[i] \in Boxes

VARIABLES
    initialized,    \* initialized_, and not stopRequested_
    canvas, layout, custom, preserve,       \* config_
    buffer,         \* the users with a frame in frameBuffer_
    early,          \* the last composition is less than the minimal interval ago
    picture         \* the last composition: a region and a frame in it per user

compositorVars == <<initialized, canvas, layout, custom, preserve, buffer, early, picture>>

Even(k) == (k \div 2) * 2
Larger(a, b) == IF a >= b THEN a ELSE b

-----------------------------------------------------------------------------
(* calculateOptimalLayout() *)

Rows(n, cols) == (n + cols - 1) \div cols

\* The distance from 16:9 and the penalty for empty cells, times 1000 * cols * height
Score(size, n, cols) ==
    LET diff == 1000 * size[1] * Rows(n, cols) - 1778 * size[2] * cols
        empty == cols * Rows(n, cols) - n IN
    (IF diff >= 0 THEN diff ELSE -diff) + 100 * empty * cols * size[2]

\* No other number of columns scores less, and no smaller one as much.
IsBest(size, n, c) ==
    \A d \in 1..n :
        LET ours == Score(size, n, c) * d  theirs == Score(size, n, d) * c IN
        ours < theirs \/ (ours = theirs /\ c <= d)

BestCols(n) == CHOOSE c \in 1..n : IsBest(canvas, n, c)

Wide == 2 * canvas[1] >= 3 * canvas[2]

CalculateOptimalLayout(n) ==
    CASE n = 1 -> <<1, 1>>
      [] n = 2 -> IF Wide THEN <<2, 1>> ELSE <<1, 2>>
      [] n = 3 -> IF Wide THEN <<3, 1>> ELSE <<2, 2>>
      [] n = 4 -> <<2, 2>>
      [] OTHER -> <<BestCols(n), Rows(n, BestCols(n))>>

-----------------------------------------------------------------------------
(* calculateRegions() and calculateScaledFrameInfo() *)

\* Mutant: "& ~1" is forgotten.
CutOdd(k, parts, size) == (k * size) \div parts

\* Where the k-th of so many parts of a length begins
Cut(k, parts, size) == Even((k * size) \div parts)

Box(x, y, w, h) == [x |-> x, y |-> y, w |-> w, h |-> h]

Cell(left, right, top, bottom) == Box(left, top, right - left, bottom - top)

\* Cells of a grid, row by row
FlatRegions(n) ==
    LET cols == CalculateOptimalLayout(n)[1]
        rows == CalculateOptimalLayout(n)[2] IN
    [i \in 1..n |->
       LET col == (i - 1) % cols  row == (i - 1) \div cols IN
       Cell(Cut(col, cols, canvas[1]), Cut(col + 1, cols, canvas[1]),
            Cut(row, rows, canvas[2]), Cut(row + 1, rows, canvas[2]))]

Edge(size) == Larger(2, (size \div 8) * 2)

\* The first user large, the others along the right or the lower edge
SpotlightRegions(n) ==
    LET width == canvas[1]  height == canvas[2] IN
    [i \in 1..n |->
       IF width >= height
         THEN LET main == width - Edge(width) IN
              IF i = 1 THEN Cell(0, main, 0, height)
                       ELSE Cell(main, width, Cut(i - 2, n - 1, height), Cut(i - 1, n - 1, height))
         ELSE LET main == height - Edge(height) IN
              IF i = 1 THEN Cell(0, width, 0, main)
                       ELSE Cell(Cut(i - 2, n - 1, width), Cut(i - 1, n - 1, width), main, height)]

CalculateRegions(n) ==
    IF layout = "customized" THEN custom
    ELSE IF layout = "spotlight" /\ n > 1 THEN SpotlightRegions(n) ELSE FlatRegions(n)

\* A frame of size src in a region: fitted to its width or its height
Scaled(src, box) ==
    LET wider == src[1] * box.h > box.w * src[2]
        w == IF wider THEN box.w ELSE (box.h * src[1]) \div src[2]
        h == IF wider THEN (box.w * src[2]) \div src[1] ELSE box.h
        sw == Larger(2, Even(w))  sh == Larger(2, Even(h)) IN
    IF preserve THEN Box(((box.w - sw) \div 4) * 2, ((box.h - sh) \div 4) * 2, sw, sh)
                ELSE Box(0, 0, box.w, box.h)

\* createCompositeFrameWithoutLock(): a region without room is skipped.
Drawn(regions, src) ==
    LET shown == {i \in DOMAIN regions : regions[i].w >= 2 /\ regions[i].h >= 2} IN
    [i \in shown |-> [region |-> regions[i], frame |-> Scaled(src, regions[i])]]

-----------------------------------------------------------------------------
\* The checks of initialize(), for a region of a customized layout
ValidRegion(r, size) ==
    /\ r.x >= 0 /\ r.y >= 0 /\ r.w >= 2 /\ r.h >= 2
    /\ \A k \in {r.x, r.y, r.w, r.h} : k % 2 = 0
    /\ r.x + r.w <= size[1] /\ r.y + r.h <= size[2]

ValidCanvas(size) == \A k \in {size[1], size[2]} : k >= 2 /\ k <= 8192 /\ k % 2 = 0

CompositorInit ==
    /\ initialized = FALSE /\ canvas = <<2, 2>> /\ layout = "flat" /\ custom = <<>> /\ preserve = TRUE
    /\ buffer = {} /\ early = FALSE /\ picture = <<>>

\* cleanup() comes first.
Initialize ==
    /\ \E size \in Canvases, rs \in CustomRegions, l \in {"flat", "spotlight", "customized"} :
         /\ ValidCanvas(size)
         /\ (l = "customized") <=> (rs # <<>>)
         /\ \A i \in DOMAIN rs : ValidRegion(rs[i], size)
         /\ canvas' = size /\ custom' = rs /\ layout' = l
    /\ preserve' \in BOOLEAN
    /\ initialized' = TRUE
    /\ buffer' = {} /\ early' = TRUE /\ picture' = <<>>

\* The picture of these users, if any
Composite(users) ==
    IF users = {} THEN UNCHANGED <<picture, early>>
    ELSE /\ \E src \in Sources : picture' = Drawn(CalculateRegions(Cardinality(users)), src)
         /\ early' = TRUE

\* addUserFrame(): frames that have become too old go.  The users are those the
\* layout detector returned that have a frame: none, if it does not take u.
AddUserFrame(u) ==
    /\ initialized
    /\ \E old \in SUBSET (buffer \ {u}) :
         /\ buffer' = (buffer \ old) \cup {u}
         /\ IF early THEN UNCHANGED <<picture, early>>
            ELSE \E users \in SUBSET buffer' : (users = {} \/ u \in users) /\ Composite(users)
    /\ UNCHANGED <<initialized, canvas, layout, custom, preserve>>

\* onLayoutChange(), in the detection thread
OnLayoutChange ==
    /\ initialized
    /\ \E users \in SUBSET buffer : Composite(users)
    /\ UNCHANGED <<initialized, canvas, layout, custom, preserve, buffer>>

\* minCompositeIntervalMs
IntervalEnds ==
    /\ early
    /\ early' = FALSE
    /\ UNCHANGED <<initialized, canvas, layout, custom, preserve, buffer, picture>>

Cleanup ==
    /\ initialized
    /\ initialized' = FALSE /\ buffer' = {}
    /\ UNCHANGED <<canvas, layout, custom, preserve, early, picture>>

-----------------------------------------------------------------------------
CompositorNext ==
    \/ Initialize \/ OnLayoutChange \/ IntervalEnds \/ Cleanup
    \/ \E u \in Members : AddUserFrame(u)

CompositorSpec == CompositorInit /\ [][CompositorNext]_compositorVars

-----------------------------------------------------------------------------
(* Properties *)

Inside(a, w, h) == a.x >= 0 /\ a.y >= 0 /\ a.x + a.w <= w /\ a.y + a.h <= h

Apart(a, b) ==
    \/ a.x + a.w <= b.x \/ b.x + b.w <= a.x
    \/ a.y + a.h <= b.y \/ b.y + b.h <= a.y

\* What is drawn lies inside the canvas, on even coordinates (the chroma planes
\* have half the resolution), each frame inside its region, and no region that
\* the code computed covers another: the copy into the canvas checks only its
\* far edges, and a frame that failed them would silently not be drawn.
RegionsFit ==
    /\ \A i \in DOMAIN picture :
         LET r == picture[i].region  f == picture[i].frame IN
         /\ Inside(r, canvas[1], canvas[2]) /\ Inside(f, r.w, r.h)
         /\ \A k \in {r.x, r.y, r.w, r.h, f.x, f.y, f.w, f.h} : k % 2 = 0
    /\ layout # "customized" =>
         \A i, j \in DOMAIN picture : i # j => Apart(picture[i].region, picture[j].region)
=============================================================================
