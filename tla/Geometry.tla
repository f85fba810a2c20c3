------------------------------ MODULE Geometry ------------------------------
(***************************************************************************)
(* Rectangles in logical units and how an area is cut into tiles:          *)
(* gostui-core/src/geometry.rs and layout.rs.  Pure operators; Screen puts *)
(* them on a screen that is resized, with windows that come and go.        *)
(*                                                                         *)
(* Integers are unbounded here: i32 wraps only for sizes no output has     *)
(* (see the README for what a theme could ask for).                        *)
(***************************************************************************)
EXTENDS Integers, Sequences

Least(a, b) == IF a < b THEN a ELSE b
Most(a, b)  == IF a > b THEN a ELSE b
Clamp(v, low, high) == Least(Most(v, low), high)

\* i32 division: towards zero, where \div rounds down.
Quot(a, b) == IF a >= 0 THEN a \div b ELSE -((-a) \div b)

Size(w, h) == [w |-> w, h |-> h]

Point(x, y) == [x |-> x, y |-> y]

Rect(x, y, w, h) == [x |-> x, y |-> y, w |-> w, h |-> h]

Right(r)  == r.x + r.w
Bottom(r) == r.y + r.h

IsValid(s) == s.w > 0 /\ s.h > 0

FitsIn(s, other) == s.w <= other.w /\ s.h <= other.h

\* The near edges belong to a rectangle, the far ones do not.
ContainsPoint(r, p) == /\ r.x <= p.x /\ p.x < Right(r)
                  /\ r.y <= p.y /\ p.y < Bottom(r)

\* A square is cut side by side.
IsVertical(r) == r.h > r.w

Inset(r, margin) ==
  Rect(r.x + margin, r.y + margin, Most(r.w - 2 * margin, 0), Most(r.h - 2 * margin, 0))

----------------------------------------------------------------------------
(* Tiles                                                                   *)

MinTileExtent == 240
WideOutputExtent == 1600

EvenSplit == 500
FromPermille(v) == Clamp(v, 150, 850)

Gaps(outer, inner) == [outer |-> outer, inner |-> inner]

LongerExtent(area) == IF IsVertical(area) THEN area.h ELSE area.w

\* Variant: the gap between two tiles is not paid for.
TileLimit_FreeGap(area, gaps) ==
  LET extent == LongerExtent(area)
      usable == extent - 2 * gaps.outer
  IN  IF ~IsValid(area) \/ usable <= 0 THEN 0
      ELSE IF usable \div 2 < MinTileExtent THEN 1
      ELSE IF extent >= WideOutputExtent THEN 3 ELSE 2

\* How many windows may share the area: none in a degenerate one, one where
\* a second would be too small, three on a wide one, else two.
TileLimit(area, gaps) ==
  LET extent == LongerExtent(area)
      usable == extent - 2 * gaps.outer
  IN  IF ~IsValid(area) \/ usable <= 0 THEN 0
      ELSE IF usable < MinTileExtent THEN 1
      ELSE IF Quot(usable - gaps.inner, 2) < MinTileExtent THEN 1
      ELSE IF /\ extent >= WideOutputExtent
              /\ Quot(usable - 2 * gaps.inner, 3) >= MinTileExtent THEN 3
      ELSE 2

\* Variant: what does not divide by three is dropped.
TileExtents_LosesRemainder(available, count, split) ==
  IF count = 2
  THEN LET first == Quot(available * split, 1000) IN <<first, available - first>>
  ELSE [i \in 1..count |-> available \div count]

\* The extents along the axis that is cut: the split for two tiles, and for
\* three even ones, the remainder on the leading tiles.
TileExtents(available, count, split) ==
  IF count = 2
  THEN LET first == Quot(available * split, 1000) IN <<first, available - first>>
  ELSE [i \in 1..count |-> (available \div count) + (IF i <= available % count THEN 1 ELSE 0)]

\* Cut the area along its longer axis into count tiles, or as many as it
\* supports, the gap between two neighbours included.
Tile(area, wanted, split, gaps) ==
  LET count   == Least(wanted, TileLimit(area, gaps))
      inner   == Inset(area, gaps.outer)
      extent  == IF IsVertical(area) THEN inner.h ELSE inner.w
      extents == TileExtents(extent - gaps.inner * (count - 1), count, split)
      \* count is at most 3, so the sum of what comes before is written out
      start   == [i \in 1..count |-> (i - 1) * gaps.inner
                    + (IF i > 1 THEN extents[1] ELSE 0) + (IF i > 2 THEN extents[2] ELSE 0)]
  IN  IF count = 0 THEN << >>
      ELSE IF count = 1 THEN <<inner>>
      ELSE [i \in 1..count |->
              IF IsVertical(area)
              THEN Rect(inner.x, inner.y + start[i], inner.w, extents[i])
              ELSE Rect(inner.x + start[i], inner.y, extents[i], inner.h)]

\* Whether a window takes its tile or floats: fullscreen escapes the tiling,
\* dialogs and menus never join it, and nobody is squeezed below the minimum.
IsTiled(role, minSize, tile, fullscreen) ==
  ~fullscreen /\ role = "toplevel" /\ FitsIn(minSize, tile)

Centred(s, area) ==
  Rect(Most(area.x + Quot(area.w - s.w, 2), area.x),
       Most(area.y + Quot(area.h - s.h, 2), area.y), s.w, s.h)
=============================================================================
