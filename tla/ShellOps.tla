------------------------------ MODULE ShellOps ------------------------------
(***************************************************************************)
(* Where the shell's own parts go: gostui-core/src/shell.rs.  The screen   *)
(* is cut into three zones; each zone places what it holds and drops what  *)
(* does not fit.  The same operators are what Picture draws and what its   *)
(* hit test reads.                                                         *)
(*                                                                         *)
(* A metrics record m is gostui_core::theme::Metrics (see Theme).  An      *)
(* optional rectangle is a set of at most one, two squares or bars a set   *)
(* of two.                                                                 *)
(***************************************************************************)
EXTENDS Geometry

MinTouchTarget == 48

BarMargin == 12
BarGap    == 12
MenuW     == MinTouchTarget
ClockW    == 160
StatusW   == 116
ChipW     == 180
ChipH     == 32
ChipGap   == 8
MenuIconSide == 24
MenuIconGap  == 4
CaptionPad   == 4
PlusSide     == 40
PlusBar      == 8

----------------------------------------------------------------------------
(* Zones                                                                   *)

\* Variant: the two bars are shrunk one by one, and round up.
ZoneHeights_RoundUp(area, bars) ==
  LET top    == Most(bars.top, MinTouchTarget)
      bottom == Most(bars.bottom, MinTouchTarget)
      budget == Quot(area.h, 2)
  IN  IF top + bottom <= budget THEN <<top, bottom>>
      ELSE <<(top * budget + top + bottom - 1) \div (top + bottom),
             (bottom * budget + top + bottom - 1) \div (top + bottom) + 1>>

\* Bars of the height asked for and no less than a touch target, and on a
\* screen too short for that, bars that share half of it.
ZoneHeights(area, bars) ==
  LET top    == Most(bars.top, MinTouchTarget)
      bottom == Most(bars.bottom, MinTouchTarget)
      budget == Quot(area.h, 2)
      share  == Most(Quot(top * budget, top + bottom), 1)
  IN  IF top + bottom <= budget THEN <<top, bottom>>
      ELSE IF budget > 0 THEN <<share, Most(budget - share, 1)>>
      ELSE <<0, 0>>

Zones(area, bars) ==
  LET high   == ZoneHeights(area, bars)
      middle == Most(area.h - high[1] - high[2], 0)
  IN  [top_bar    |-> Rect(area.x, area.y, area.w, high[1]),
       apps       |-> Rect(area.x, area.y + high[1], area.w, middle),
       bottom_bar |-> Rect(area.x, area.y + high[1] + middle, area.w, high[2])]

Covers(z, area) ==
  /\ z.top_bar.y = area.y
  /\ z.apps.y = Bottom(z.top_bar)
  /\ z.bottom_bar.y = Bottom(z.apps)
  /\ Bottom(z.bottom_bar) = Bottom(area)

----------------------------------------------------------------------------
(* The bars                                                                *)

\* The top bar: the menu always, status at the right, the clock in the
\* middle and the search square, each only where it touches nothing.
TopBarLayout(bar) ==
  LET h        == Clamp(bar.h, 1, MinTouchTarget)
      chip(x, w) == Rect(x, bar.y + Quot(bar.h - h, 2), w, h)
      left     == bar.x + BarMargin
      right    == Right(bar) - BarMargin
      menu     == IF right > left THEN {chip(left, Least(MenuW, right - left))} ELSE {}
      cursor   == left + Least(MenuW, right - left)
      status   == IF right - StatusW >= cursor + BarGap
                  THEN {chip(right - StatusW, StatusW)} ELSE {}
      edge     == IF status = {} THEN right ELSE right - StatusW
      clockX   == bar.x + Quot(bar.w - ClockW, 2)
      clock    == IF clockX >= cursor + BarGap /\ clockX + ClockW <= edge - BarGap
                  THEN {chip(clockX, ClockW)} ELSE {}
      limit    == IF clock = {} THEN edge ELSE clockX
      search   == IF cursor + BarGap + h <= limit - BarGap
                  THEN {chip(cursor + BarGap, h)} ELSE {}
  IN  IF bar.w <= 0 \/ bar.h <= 0 \/ menu = {}
      THEN [menu |-> {}, search |-> {}, clock |-> {}, status |-> {}]
      ELSE [menu |-> menu, search |-> search, clock |-> clock, status |-> status]

\* Variant: the last chip may run into the margin.
BottomBarLayout_Overruns(bar, count) ==
  LET h    == Least(ChipH, bar.h)
      room == (bar.w - BarMargin + ChipGap) \div (ChipW + ChipGap)
  IN  IF bar.w <= 0 \/ bar.h <= 0 THEN << >>
      ELSE [i \in 1..Least(count, Most(room, 0) + 1) |->
              Rect(bar.x + BarMargin + (i - 1) * (ChipW + ChipGap),
                   bar.y + Quot(bar.h - h, 2), ChipW, h)]

\* One chip per window, from the left, as long as a whole one fits between
\* the margins.
BottomBarLayout(bar, count) ==
  LET h    == Least(ChipH, bar.h)
      room == (bar.w - 2 * BarMargin + ChipGap) \div (ChipW + ChipGap)
  IN  IF bar.w <= 0 \/ bar.h <= 0 THEN << >>
      ELSE [i \in 1..Least(count, Most(room, 0)) |->
              Rect(bar.x + BarMargin + (i - 1) * (ChipW + ChipGap),
                   bar.y + Quot(bar.h - h, 2), ChipW, h)]

\* The four squares of the menu's mark.
MenuIcon(chip) ==
  LET square == (MenuIconSide - MenuIconGap) \div 2
      far    == square + MenuIconGap
      x      == chip.x + Quot(chip.w - MenuIconSide, 2)
      y      == chip.y + Quot(chip.h - MenuIconSide, 2)
  IN  IF chip.w < MenuIconSide \/ chip.h < MenuIconSide THEN {}
      ELSE {Rect(x + dx, y + dy, square, square) : dx \in {0, far}, dy \in {0, far}}

----------------------------------------------------------------------------
(* The card strip                                                          *)

CardWidth(area, m) == Least(m.card_width, area.w)

\* The strip holds the cards and the slot that makes a new one.
StripWidth(area, m, count) == (count + 1) * (CardWidth(area, m) + m.card_gap) - m.card_gap

\* Variant: the strip is not stopped at its ends.
StripOffset_NoEnds(area, m, count, active) ==
  LET width == CardWidth(area, m)
      strip == StripWidth(area, m, count)
  IN  IF strip <= area.w THEN Quot(-(area.w - strip), 2)
      ELSE active * (width + m.card_gap) + Quot(width, 2) - Quot(area.w, 2)

\* How far the strip is slid: centred as a whole when it fits, else with the
\* active card in the middle, but never past an end of the strip.
StripOffset(area, m, count, active) ==
  LET width == CardWidth(area, m)
      strip == StripWidth(area, m, count)
  IN  IF strip <= area.w THEN Quot(-(area.w - strip), 2)
      ELSE Clamp(active * (width + m.card_gap) + Quot(width, 2) - Quot(area.w, 2),
                 0, strip - area.w)

\* Where column i of the strip starts, counted from 0.
ColumnX(area, m, count, active, i) ==
  area.x + i * (CardWidth(area, m) + m.card_gap) - StripOffset(area, m, count, active)

\* The columns some part of which is in the zone.  (The code starts at a
\* lower bound of the first one and stops at the first that is past the edge.)
ShownColumns(area, m, count, active) ==
  {i \in 0..count : LET x == ColumnX(area, m, count, active, i)
                    IN  x + CardWidth(area, m) > area.x /\ x < Right(area)}

\* Variant: a card that hangs off the zone is cut to it.
CardColumns_Narrowed(area, m, count, active) ==
  LET shown == ShownColumns(area, m, count, active)
      col(i) == LET x == ColumnX(area, m, count, active, i)
                IN  Rect(Most(x, area.x), area.y,
                         Least(x + CardWidth(area, m), Right(area)) - Most(x, area.x), area.h)
  IN  IF area.w <= 0 \/ area.h <= 0 THEN [cards |-> << >>, add |-> {}]
      ELSE [cards |-> [i \in shown \ {count} |-> col(i)],
            add   |-> {col(i) : i \in shown \cap {count}}]

\* Cards by their index in the strip, counted from 0: every one of full
\* width, whether or not it hangs off the zone; and the slot of the new card.
CardColumns(area, m, count, active) ==
  LET shown  == ShownColumns(area, m, count, active)
      col(i) == Rect(ColumnX(area, m, count, active, i), area.y, CardWidth(area, m), area.h)
  IN  IF area.w <= 0 \/ area.h <= 0 THEN [cards |-> << >>, add |-> {}]
      ELSE [cards |-> [i \in shown \ {count} |-> col(i)],
            add   |-> {col(i) : i \in shown \cap {count}}]

\* Variant: the header is forgotten when the last row is checked.
LayoutTiles_UnderFooter(card, m, count) ==
  LET inner == card.w - 2 * m.card_pad
      step  == m.tile_unit + m.tile_gap
      cols  == Most(Quot(inner + m.tile_gap, step), 1)
      rows  == Quot(card.h - m.card_pad + m.tile_gap, step)
  IN  IF inner < m.tile_unit \/ card.h <= 0 THEN << >>
      ELSE [n \in 1..Least(count, cols * Most(rows, 0)) |->
              Rect(card.x + m.card_pad + ((n - 1) % cols) * step,
                   card.y + m.card_header + m.card_pad + ((n - 1) \div cols) * step,
                   m.tile_unit, m.tile_unit)]

\* The tiles of a card, row by row; those that would end below it are dropped.
LayoutTiles(card, m, count) ==
  LET inner == card.w - 2 * m.card_pad
      step  == m.tile_unit + m.tile_gap
      cols  == Most(Quot(inner + m.tile_gap, step), 1)
      high  == Bottom(card) - m.card_pad - (card.y + m.card_header + m.card_pad)
      rows  == IF high < m.tile_unit THEN 0 ELSE (high - m.tile_unit) \div step + 1
  IN  IF inner < m.tile_unit \/ card.h <= 0 THEN << >>
      ELSE [n \in 1..Least(count, cols * rows) |->
              Rect(card.x + m.card_pad + ((n - 1) % cols) * step,
                   card.y + m.card_header + m.card_pad + ((n - 1) \div cols) * step,
                   m.tile_unit, m.tile_unit)]

\* A tile's mark and the strip for its name, which is dropped when it would
\* take more than half of the tile.
TileFace(tile, wanted) ==
  LET line == Most(wanted, 0)
      high == tile.h - line
      side == Least(high, tile.w)
      pad  == Least(CaptionPad, Quot(tile.w, 8))
  IN  IF line > 0 /\ high >= Quot(tile.h, 2) /\ tile.w > 0
      THEN [icon    |-> Rect(tile.x + Quot(tile.w - side, 2),
                             tile.y + Quot(high - side, 2), side, side),
            caption |-> {Rect(tile.x + pad, Bottom(tile) - line, tile.w - 2 * pad, line)}]
      ELSE [icon |-> tile, caption |-> {}]

CardHeader(card, m) == Rect(card.x, card.y, card.w, Most(m.card_header, 0))

\* The line of a card's name in its header.
CardTitle(card, m, line) ==
  LET header == CardHeader(card, m)
      pad    == Least(CaptionPad, Quot(header.w, 8))
      w      == header.w - 2 * pad
  IN  IF line <= 0 \/ line > header.h \/ header.w <= 0 \/ w <= 0 THEN {}
      ELSE {Rect(header.x + pad, header.y + Quot(header.h - line, 2), w, line)}

\* The two bars of the plus, below the header and in the upper third.
PlusMark(slot, m) ==
  LET head == CardHeader(slot, m)
      body == Rect(slot.x, Bottom(head), slot.w, Bottom(slot) - Bottom(head))
      x    == body.x + Quot(body.w - PlusSide, 2)
      y    == body.y + Most(Quot(body.h, 3) - PlusSide \div 2, 0)
      off  == (PlusSide - PlusBar) \div 2
  IN  IF body.w < PlusSide \/ body.h < PlusSide THEN {}
      ELSE {Rect(x, y + off, PlusSide, PlusBar), Rect(x + off, y, PlusBar, PlusSide)}
=============================================================================
